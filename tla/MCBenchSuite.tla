---------------------------- MODULE MCBenchSuite ----------------------------
(* Four rates that are not in order, two scenarios, each run twice.        *)
EXTENDS BenchSuite

MCRates == <<5000, 15000, 10000, 20000>>
MCScenarios == <<"kill_broker", "kill_cassandra">>
=============================================================================

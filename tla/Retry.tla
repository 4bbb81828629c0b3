-------------------------------- MODULE Retry --------------------------------
(***************************************************************************)
(* src/common/retry.py: the backoff schedule and the accounting record     *)
(* that call_with_retry and the Cassandra sink share.  The loop itself is  *)
(* the caller's (CassandraSink: Attempt), because the calls in it are      *)
(* what the environment interleaves with.                                  *)
(***************************************************************************)
EXTENDS Integers, Sequences

(* BackoffPolicy.delay_ms, jitter left out: index 0 is the wait after the  *)
(* first failed attempt, the last entry is used again past the end, and an *)
(* empty schedule never waits.                                             *)
DelayMs(sched, index) ==
  IF sched = <<>> THEN 0
  ELSE sched[IF index < Len(sched) THEN index + 1 ELSE Len(sched)]

(* call_with_retry runs at least once whatever the configuration says. *)
LoopBudget(maxAttempts) == IF maxAttempts < 1 THEN 1 ELSE maxAttempts

-----------------------------------------------------------------------------
(* RetryStats.  A reason is the class of the exception, here one of the    *)
(* three ways the sink tells errors apart.                                 *)

Reasons == {"transient", "permanent", "unclassified"}

RetryStats ==
  [attempts : Nat, successes : Nat, exhausted : Nat, retries : Nat,
   backoff : Nat, reasons : [Reasons -> Nat]]

NoStats ==
  [attempts |-> 0, successes |-> 0, exhausted |-> 0, retries |-> 0,
   backoff |-> 0, reasons |-> [r \in Reasons |-> 0]]

RecordReason(st, r) == [st EXCEPT !.reasons[r] = @ + 1]

(* Mutant: the failure reasons of the retried writes are not merged. *)
MergeWithoutReasons(st, other) ==
  [st EXCEPT !.attempts = @ + other.attempts,
             !.successes = @ + other.successes,
             !.exhausted = @ + other.exhausted,
             !.retries = @ + other.retries,
             !.backoff = @ + other.backoff]

Merge(st, other) ==
  [attempts  |-> st.attempts + other.attempts,
   successes |-> st.successes + other.successes,
   exhausted |-> st.exhausted + other.exhausted,
   retries   |-> st.retries + other.retries,
   backoff   |-> st.backoff + other.backoff,
   reasons   |-> [r \in Reasons |-> st.reasons[r] + other.reasons[r]]]

Failures(st) ==
  st.reasons["transient"] + st.reasons["permanent"] + st.reasons["unclassified"]
=============================================================================

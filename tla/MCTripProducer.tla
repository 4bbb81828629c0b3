--------------------------- MODULE MCTripProducer ---------------------------
(***************************************************************************)
(* Model-checking instances of TripProducer: the .cfg files give numbers.  *)
(***************************************************************************)
EXTENDS TripProducer
=============================================================================

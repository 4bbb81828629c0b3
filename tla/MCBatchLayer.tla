---------------------------- MODULE MCBatchLayer ----------------------------
EXTENDS BatchLayer

(* Two trips of the first hour, one in each half of it, and one of the     *)
(* second.                                                                 *)
TripIds == 1 .. 3
TripTime == <<0, 1, 2>>

(* On the hour, of one and of two hours; from a half hour, longer than     *)
(* MAX_HOURS, reversed.                                                    *)
AllWindows == {<<0, 2>>, <<0, 4>>, <<1, 4>>, <<0, 6>>, <<2, 0>>}
=============================================================================

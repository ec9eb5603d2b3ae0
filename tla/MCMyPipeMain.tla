---------------------------- MODULE MCMyPipeMain ----------------------------
(* Two readers and five numbers in batches of two: readers and writer sleep *)
(* and wake each other in every order, and the last batch is a short one.   *)
EXTENDS MyPipeMain

ASSUME MainAssumption
=============================================================================

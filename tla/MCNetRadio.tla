----------------------------- MODULE MCNetRadio -----------------------------
(* Two channels with a bucket of one packet each: both threads fetch, sleep *)
(* and send while the list thread and the refill thread run and a signal    *)
(* arrives at any point of the start, the run or never.                     *)
EXTENDS NetRadio

ASSUME RadioAssumption
=============================================================================

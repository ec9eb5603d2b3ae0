----------------------------- MODULE MCAnyTimer -----------------------------
(* Two threads and two jobs that share one slot, so that the table is full  *)
(* and the slot is used again; jobs of 0 and 2 seconds.                     *)
EXTENDS AnyTimer
=============================================================================

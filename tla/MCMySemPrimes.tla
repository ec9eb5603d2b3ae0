--------------------------- MODULE MCMySemPrimes ---------------------------
(* A small instance of MySemPrimes: more threads than units, so that main  *)
(* has to sleep in mysem_sub several times and in several orders.          *)
EXTENDS MySemPrimes
=============================================================================

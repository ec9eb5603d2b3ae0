----------------------------- MODULE MCMyTbfApi -----------------------------
(* Two slots and three handles, so that slots are reused and the table can *)
(* be full; two threads that share buckets; a burst larger than the refill.*)
EXTENDS MyTbfApi, TLC

MCSymmetry == Permutations(Thread) \cup Permutations(Bucket)
=============================================================================

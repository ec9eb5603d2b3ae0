---------------------------- MODULE MCMyPipeApi ----------------------------
(* A ring of three cells, so that it fills and wraps round; two readers    *)
(* and two writers with counts on both sides of its capacity.              *)
EXTENDS MyPipeApi, TLC

MCSymmetry == Permutations(Readers) \cup Permutations(Writers) \cup Permutations(Item)
=============================================================================

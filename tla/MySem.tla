------------------------------- MODULE MySem -------------------------------
(***************************************************************************)
(* The counting semaphore built from a mutex and a condition variable      *)
(* (21.mysem/mysem.c).                                                     *)
(*                                                                         *)
(* Every function of the library is one critical section of me->mut; the   *)
(* mutex is given up inside the section only by pthread_cond_wait.  So the *)
(* section up to the wait, and the section after it, are one atomic step   *)
(* each.  "waiters" is the set of threads blocked on me->cond: a broadcast *)
(* empties it, and pthread_cond_wait may also return spuriously, after     *)
(* which the `while' of mysem_sub tests its condition again.               *)
(***************************************************************************)
EXTENDS Integers

VARIABLES
    num,      \* me->num, the units the semaphore has left
    waiters   \* the threads asleep in pthread_cond_wait(&me->cond, ...)

(* mysem_init(init_num). *)
mysem_init(init_num) ==
    /\ num = init_num
    /\ waiters = {}

(* Mutant of mysem_add: pthread_cond_broadcast forgotten. *)
mysem_add_nobroadcast(n) ==
    /\ num' = num + n
    /\ UNCHANGED waiters

(* mysem_add: add n units and wake every sleeper. *)
mysem_add(n) ==
    /\ num' = num + n
    /\ waiters' = {}

(* Mutant of MustWait: `num > me->num + 1', off by one. *)
MustWait_offbyone(n) == n > num + 1

(* The loop condition of mysem_sub. *)
MustWait(n) == n > num

(* mysem_sub when the loop condition is false: take the units and return. *)
mysem_sub_take(p, n) ==
    /\ p \notin waiters
    /\ ~ MustWait(n)
    /\ num' = num - n
    /\ UNCHANGED waiters

(* mysem_sub when the loop condition is true: sleep on the condition. *)
mysem_sub_wait(p, n) ==
    /\ p \notin waiters
    /\ MustWait(n)
    /\ waiters' = waiters \cup {p}
    /\ UNCHANGED num

(* A spurious return of pthread_cond_wait. *)
SpuriousWakeup(p) ==
    /\ p \in waiters
    /\ waiters' = waiters \ {p}
    /\ UNCHANGED num
=============================================================================

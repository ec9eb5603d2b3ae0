---------------------------- MODULE MySemProofs ----------------------------
(***************************************************************************)
(* Proofs about the semaphore and its client, for every number of threads  *)
(* and every initial value of the semaphore.                               *)
(***************************************************************************)
EXTENDS MySemPrimes, FiniteSetTheorems, TLAPS

(* The running threads are finitely many. *)
LEMMA RunningFinite == IsFiniteSet(Running) /\ Cardinality(Running) \in Nat
<1>1. IsFiniteSet(Workers)
  BY FS_Interval, ConstantsAssumption DEF Workers
<1>2. IsFiniteSet(Running)
  BY <1>1, FS_Subset DEF Running
<1> QED  BY <1>2, FS_CardinalityType

(* The initial states satisfy the inductive invariant. *)
LEMMA InitIInv == Init => IInv
<1> SUFFICES ASSUME Init PROVE IInv
  OBVIOUS
<1> USE ConstantsAssumption
<1>1. TypeOK
  BY DEF Init, TypeOK, mysem_init, Workers, main
<1>2. Running = {}
  BY DEF Init, Running, Workers
<1>3. UnitsConserved
  BY <1>2, FS_EmptySet DEF Init, UnitsConserved, Held, mysem_init
<1>4. NotYetCreated /\ SleepsOnEmpty
  BY DEF Init, NotYetCreated, SleepsOnEmpty, mysem_init, Workers
<1> QED  BY <1>1, <1>3, <1>4 DEF IInv

(* Every step keeps the inductive invariant. *)
LEMMA NextIInv == IInv /\ [Next]_vars => IInv'
<1> SUFFICES ASSUME IInv, [Next]_vars PROVE IInv'
  OBVIOUS
<1> USE ConstantsAssumption
<1>0. TypeOK /\ UnitsConserved /\ NotYetCreated /\ SleepsOnEmpty
  BY DEF IInv
<1>f. IsFiniteSet(Running) /\ Cardinality(Running) \in Nat
  BY RunningFinite
<1>1. CASE MainSub
  <2>1. Running' = Running
    BY <1>1 DEF MainSub, Running
  <2> QED  BY <1>0, <1>1, <1>f, <2>1 DEF MainSub, mysem_sub_take, MustWait, IInv, TypeOK,
             UnitsConserved, Held, NotYetCreated, SleepsOnEmpty, Workers, main
<1>2. CASE MainSubWait \/ MainSpurious
  <2>1. UNCHANGED <<num, mpc, i, wpc>> /\ Running' = Running
    BY <1>2 DEF MainSubWait, MainSpurious, mysem_sub_wait, SpuriousWakeup, Running
  <2>2. waiters' \subseteq {main}
    BY <1>0, <1>2 DEF MainSubWait, MainSpurious, mysem_sub_wait, SpuriousWakeup, TypeOK
  <2>3. TypeOK' /\ UnitsConserved' /\ NotYetCreated'
    BY <1>0, <2>1, <2>2 DEF TypeOK, UnitsConserved, Held, NotYetCreated
  <2>4. SleepsOnEmpty'
    BY <1>0, <1>2 DEF MainSubWait, MainSpurious, mysem_sub_wait, SpuriousWakeup, MustWait,
       TypeOK, SleepsOnEmpty, Workers
  <2> QED  BY <2>3, <2>4 DEF IInv
<1>3. CASE MainCreate
  <2>1. i \in Workers /\ i \notin Running
    BY <1>0, <1>3 DEF MainCreate, NotYetCreated, Running, TypeOK, Workers
  <2>2. Running' = Running \cup {i}
    BY <1>0, <1>3, <2>1 DEF MainCreate, Running, TypeOK
  <2>3. Cardinality(Running') = Cardinality(Running) + 1
    BY <2>1, <2>2, <1>f, FS_AddElement
  <2>4. TypeOK'
    BY <1>0, <1>3, <2>1 DEF MainCreate, TypeOK, Workers
  <2>5. UnitsConserved'
    BY <1>0, <1>3, <1>f, <2>3 DEF MainCreate, TypeOK, UnitsConserved, Held
  <2>6. NotYetCreated' /\ SleepsOnEmpty'
    BY <1>0, <1>3, <2>1 DEF MainCreate, TypeOK, NotYetCreated, SleepsOnEmpty, Workers
  <2> QED  BY <2>4, <2>5, <2>6 DEF IInv
<1>4. CASE MainCreateFails
  <2>1. Running' = Running
    BY <1>4 DEF MainCreateFails, Running
  <2> QED  BY <1>0, <1>4, <1>f, <2>1 DEF MainCreateFails, IInv, TypeOK,
             UnitsConserved, Held, NotYetCreated, SleepsOnEmpty, Workers
<1>5. CASE MainStartJoin \/ MainJoin \/ MainExit
  <2>1. Running' = Running
    BY <1>5 DEF MainStartJoin, MainJoin, MainExit, Running
  <2> QED  BY <1>0, <1>5, <1>f, <2>1 DEF MainStartJoin, MainJoin, MainExit, IInv, TypeOK,
             UnitsConserved, Held, NotYetCreated, SleepsOnEmpty, Workers
<1>6. ASSUME NEW w \in Workers, Compute(w) PROVE IInv'
  <2>1. Running' = Running
    BY <1>0, <1>6 DEF Compute, Running, TypeOK
  <2> QED  BY <1>0, <1>6, <1>f, <2>1 DEF Compute, IInv, TypeOK,
             UnitsConserved, Held, NotYetCreated, SleepsOnEmpty, Workers
<1>7. ASSUME NEW w \in Workers, Finish(w) PROVE IInv'
  <2>1. w \in Running /\ Running' = Running \ {w}
    BY <1>0, <1>7 DEF Finish, Running, TypeOK
  <2>2. Cardinality(Running') = Cardinality(Running) - 1
    BY <2>1, <1>f, FS_RemoveElement
  <2>3. UnitsConserved'
    BY <1>0, <1>7, <1>f, <2>2 DEF Finish, mysem_add, TypeOK, UnitsConserved, Held
  <2>4. TypeOK' /\ NotYetCreated' /\ SleepsOnEmpty'
    BY <1>0, <1>7 DEF Finish, mysem_add, TypeOK, NotYetCreated, SleepsOnEmpty, Workers
  <2> QED  BY <2>3, <2>4 DEF IInv
<1>8. CASE UNCHANGED vars
  <2>1. Running' = Running
    BY <1>8 DEF vars, Running
  <2> QED  BY <1>0, <1>8, <1>f, <2>1 DEF vars, IInv, TypeOK,
             UnitsConserved, Held, NotYetCreated, SleepsOnEmpty
<1> QED
  BY <1>1, <1>2, <1>3, <1>4, <1>5, <1>6, <1>7, <1>8 DEF Next, Main, Worker, Exited

(* The inductive invariant holds in every reachable state. *)
THEOREM IInvHolds == Spec => []IInv
BY InitIInv, NextIInv, PTL DEF Spec

(* Type correctness of the semaphore and its client; in particular me->num *)
(* never becomes negative. *)
THEOREM TypeCorrect == Spec => []TypeOK
<1>1. IInv => TypeOK
  BY DEF IInv
<1> QED  BY <1>1, IInvHolds, PTL

(* mysem_sub before pthread_create and mysem_add at the end of func keep the *)
(* number of running threads at NUM or below, for every NUM and THRNUM. *)
THEOREM Bounded == Spec => []BoundedConcurrency
<1>1. IInv => BoundedConcurrency
  BY RunningFinite, ConstantsAssumption
     DEF IInv, TypeOK, UnitsConserved, Held, BoundedConcurrency
<1> QED  BY <1>1, IInvHolds, PTL

(* main never sleeps in mysem_sub with nobody left who will call mysem_add. *)
THEOREM NoOrphanSleep == Spec => []SleeperHasWaker
<1>1. IInv => SleeperHasWaker
  <2> SUFFICES ASSUME IInv, waiters # {} PROVE num = 0 /\ Running # {}
    BY DEF SleeperHasWaker
  <2>1. num = 0 /\ mpc = "sub"
    BY DEF IInv, SleepsOnEmpty
  <2>2. Cardinality(Running) = NUM
    BY <2>1, RunningFinite, ConstantsAssumption DEF IInv, UnitsConserved, Held
  <2>3. Running # {}
    BY <2>2, FS_EmptySet, ConstantsAssumption
  <2> QED  BY <2>1, <2>3
<1> QED  BY <1>1, IInvHolds, PTL
=============================================================================

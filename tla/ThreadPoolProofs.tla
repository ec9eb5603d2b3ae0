-------------------------- MODULE ThreadPoolProofs --------------------------
(***************************************************************************)
(* Proofs about ThreadPool, for any number of workers and job cells: the   *)
(* queue is a sound list, no cell has two users, the semaphore promises    *)
(* only jobs that are there, and the pool implements JobPool.              *)
(***************************************************************************)
EXTENDS ThreadPool, FiniteSetTheorems, SequenceTheorems, TLAPS

(* Once tp_destroy is past its joins no worker is left, and it has cleared *)
(* tp_alive before.                                                        *)
Phases ==
    /\ cpc = "adding" => tp_alive
    /\ cpc \in {"joining", "freeing", "done"} => ~tp_alive
    /\ cpc \in {"freeing", "done"} => \A w \in Worker : wpc[w] = "ended"

(* The inductive invariant. *)
IInv == TypeOK /\ ListSound /\ CellsOwned /\ PromiseKept /\ Phases

(* What the worker at the lock finds: a job, and nobody with the mutex.    *)
LEMMA JobAtLock ==
    ASSUME IInv, NEW w \in Worker, wpc[w] = "lock", cpc # "exited"
    PROVE  num > 0 /\ q # <<>> /\ tail = q[1] /\ tail # NULL
<1>1. cpc \in {"adding", "joining"}
  BY DEF IInv, TypeOK, Phases
<1>2. Awake \subseteq Worker /\ w \in Awake
  BY DEF Awake
<1>3. IsFiniteSet(Awake) /\ Cardinality(Awake) \in Nat
  BY <1>2, WorkersAssumption, FS_Subset, FS_CardinalityType
<1>4. Cardinality(Awake) # 0
  BY <1>2, <1>3, FS_EmptySet
<1>5. num > 0
  BY <1>1, <1>3, <1>4 DEF IInv, TypeOK, PromiseKept
<1>6. q # <<>> /\ tail = q[1] /\ q \in Seq(Job)
  BY <1>5 DEF IInv, TypeOK, ListSound
<1>7. q[1] \in Job
  BY <1>6
<1> QED
  BY <1>5, <1>6, <1>7, NullAssumption

(* The initial state: an empty queue and nobody awake. *)
LEMMA InitIInv == Init => IInv
<1> SUFFICES ASSUME Init PROVE IInv
  OBVIOUS
<1>1. Awake = {}
  BY DEF Init, Awake
<1>2. Cardinality(Awake) = 0
  BY <1>1, FS_EmptySet
<1>3. TypeOK
  BY DEF Init, TypeOK
<1>4. ListSound
  BY DEF Init, ListSound
<1>5. CellsOwned
  BY DEF Init, CellsOwned, Running
<1>6. PromiseKept
  BY <1>2 DEF Init, PromiseKept
<1>7. Phases
  BY DEF Init, Phases
<1> QED
  BY <1>3, <1>4, <1>5, <1>6, <1>7 DEF IInv
-----------------------------------------------------------------------------
(* Every step keeps the types. *)
LEMMA TypeStep == IInv /\ [Next]_vars => TypeOK'
<1> SUFFICES ASSUME IInv, [Next]_vars PROVE TypeOK'
  OBVIOUS
<1> USE DEF IInv, TypeOK, queueVars
<1>1. ASSUME tp_add_work PROVE TypeOK'
  <2>1. PICK j \in Job \ mem : mem' = mem \cup {j} /\ tp_job_quene_add(j)
    BY <1>1 DEF tp_add_work
  <2>2. q' \in Seq(Job)
    BY <2>1 DEF tp_job_quene_add
  <2>3. /\ head' \in Job /\ tail' \in Job \cup {NULL}
        /\ num' \in Nat /\ quene_sem' \in Nat
        /\ pre' \in [Job -> Job \cup {NULL}] /\ next' \in [Job -> Job \cup {NULL}]
    BY <2>1 DEF tp_job_quene_add
  <2> QED
    BY <1>1, <2>1, <2>2, <2>3 DEF tp_add_work
<1>2. ASSUME MallocFails PROVE TypeOK'
  BY <1>2 DEF MallocFails
<1>3. ASSUME DestroyStart PROVE TypeOK'
  BY <1>3 DEF DestroyStart
<1>4. ASSUME DestroyJoined PROVE TypeOK'
  BY <1>4 DEF DestroyJoined
<1>5. ASSUME DestroyFree PROVE TypeOK'
  <2>1. q # <<>> /\ tail = q[1]
    BY <1>5 DEF DestroyFree, ListSound
  <2>2. tail \in Job /\ Tail(q) \in Seq(Job)
    BY <2>1
  <2> QED
    BY <1>5, <2>2 DEF DestroyFree
<1>6. ASSUME DestroyEnd PROVE TypeOK'
  BY <1>6 DEF DestroyEnd
<1>7. ASSUME NEW w \in Worker, TestAlive(w) PROVE TypeOK'
  <2>1. wpc' \in [Worker -> {"while", "sem_wait", "woken", "lock", "run", "ended"}]
    BY <1>7 DEF TestAlive, Goto
  <2> QED
    BY <1>7, <2>1 DEF TestAlive
<1>8. ASSUME NEW w \in Worker, SemWait(w) PROVE TypeOK'
  BY <1>8 DEF SemWait, Goto
<1>9. ASSUME NEW w \in Worker, TakeJob(w) PROVE TypeOK'
  <2>1. num > 0 /\ q # <<>> /\ tail = q[1] /\ tail # NULL
    BY <1>9, JobAtLock DEF TakeJob
  <2>2. tail \in Job /\ Tail(q) \in Seq(Job)
    BY <2>1
  <2>3. /\ job_p' = [job_p EXCEPT ![w] = tail] /\ tp_delete__lastjob
        /\ Goto(w, "run") /\ UNCHANGED mutex
    BY <1>9, <2>1 DEF TakeJob
  <2>4. /\ head' \in Job \cup {NULL} /\ tail' \in Job \cup {NULL} /\ num' \in Nat
        /\ next' \in [Job -> Job \cup {NULL}] /\ q' \in Seq(Job)
    BY <2>1, <2>2, <2>3 DEF tp_delete__lastjob
  <2> QED
    BY <1>9, <2>2, <2>3, <2>4 DEF TakeJob, tp_delete__lastjob, Goto
<1>10. ASSUME NEW w \in Worker, RunJob(w) PROVE TypeOK'
  BY <1>10 DEF RunJob, Goto
<1>11. CASE UNCHANGED vars
  BY <1>11 DEF vars
<1> QED
  BY <1>1, <1>2, <1>3, <1>4, <1>5, <1>6, <1>7, <1>8, <1>9, <1>10, <1>11
     DEF Next, Destroy, WorkerStep

(* The phases of the client and of the workers. *)
LEMMA PhasesStep == IInv /\ [Next]_vars => Phases'
<1> SUFFICES ASSUME IInv, [Next]_vars PROVE Phases'
  OBVIOUS
<1> USE DEF Phases
<1>0. TypeOK /\ Phases
  BY DEF IInv
<1>1. ASSUME tp_add_work \/ MallocFails \/ DestroyStart \/ DestroyJoined
             \/ DestroyFree \/ DestroyEnd
      PROVE  Phases'
  BY <1>0, <1>1 DEF tp_add_work, MallocFails, DestroyStart, DestroyJoined, DestroyFree,
                    DestroyEnd
<1>2. ASSUME NEW w \in Worker, WorkerStep(w) PROVE Phases'
  <2>1. wpc[w] # "ended" /\ cpc # "exited" /\ UNCHANGED <<cpc, tp_alive>>
    BY <1>2 DEF WorkerStep, TestAlive, SemWait, TakeJob, RunJob
  <2>2. cpc \notin {"freeing", "done"}
    BY <1>0, <2>1
  <2> QED
    BY <1>0, <2>1, <2>2
<1>3. CASE UNCHANGED vars
  BY <1>0, <1>3 DEF vars
<1> QED
  BY <1>1, <1>2, <1>3 DEF Next, Destroy

(* A worker behind the lock takes the oldest job: the other branches of    *)
(* its critical section are dead.                                          *)
LEMMA TakesOldest ==
    ASSUME IInv, NEW w \in Worker, TakeJob(w)
    PROVE  /\ num > 0 /\ q # <<>> /\ tail = q[1] /\ q[1] \in Job
           /\ wpc[w] = "lock" /\ wpc' = [wpc EXCEPT ![w] = "run"]
           /\ job_p' = [job_p EXCEPT ![w] = tail]
           /\ tp_delete__lastjob
           /\ UNCHANGED <<mem, quene_sem, tp_alive, mutex, cpc>>
<1>1. num > 0 /\ q # <<>> /\ tail = q[1] /\ tail # NULL
  BY JobAtLock DEF TakeJob
<1>2. q[1] \in Job
  BY <1>1 DEF IInv, TypeOK
<1> QED
  BY <1>1, <1>2 DEF TakeJob, Goto

(* What Tail leaves at each position, and when it leaves nothing. *)
LEMMA TailAt ==
    ASSUME NEW S, NEW s \in Seq(S), s # <<>>
    PROVE  /\ Tail(s) \in Seq(S) /\ Len(Tail(s)) = Len(s) - 1
           /\ Len(s) \in Nat \ {0}
           /\ \A i \in 1..(Len(s) - 1) : Tail(s)[i] = s[i + 1]
           /\ Tail(s) = <<>> <=> Len(s) = 1
<1>1. Tail(s) \in Seq(S) /\ Len(Tail(s)) = Len(s) - 1 /\ Len(s) \in Nat \ {0}
  BY HeadTailProperties, EmptySeq
<1>2. Tail(s) # <<>> => Len(Tail(s)) # 0
  BY <1>1, EmptySeq
<1>3. Tail(s) = <<>> => Len(Tail(s)) = 0
  BY EmptySeq
<1>4. \A i \in 1..(Len(s) - 1) : Tail(s)[i] = s[i + 1]
  BY <1>1, HeadTailProperties
<1> QED
  BY <1>1, <1>2, <1>3, <1>4
-----------------------------------------------------------------------------
(* Every step keeps the links in step with the jobs in the queue. *)
LEMMA ListStep == IInv /\ [Next]_vars => ListSound'
<1> SUFFICES ASSUME IInv, [Next]_vars PROVE ListSound'
  OBVIOUS
<1>0. TypeOK /\ ListSound /\ CellsOwned /\ Phases /\ q \in Seq(Job)
  BY DEF IInv, TypeOK
<1>1. ASSUME tp_add_work PROVE ListSound'
  <2>1. PICK j \in Job \ mem : tp_job_quene_add(j)
    BY <1>1 DEF tp_add_work
  <2>2. cpc = "adding" /\ cpc' = cpc
    BY <1>1 DEF tp_add_work
  <2>3. /\ q' \in Seq(Job) /\ q' # <<>> /\ Len(q') = Len(q) + 1 /\ q'[Len(q) + 1] = j
        /\ \A i \in 1..Len(q) : q'[i] = q[i]
    BY <1>0, <2>1, AppendProperties DEF tp_job_quene_add
  <2>4. \A i \in 1..Len(q) : q[i] \in Job /\ q[i] # j
    BY <1>0 DEF CellsOwned
  <2>5. head' = j /\ next' = [next EXCEPT ![j] = head] /\ num' = Len(q')
    BY <1>0, <2>1, <2>3 DEF tp_job_quene_add, ListSound
  <2>6. CASE q = <<>>
    <3>1. head = NULL /\ tail' = j /\ pre' = [pre EXCEPT ![j] = NULL] /\ Len(q') = 1
      BY <1>0, <2>1, <2>2, <2>3, <2>6 DEF ListSound, tp_job_quene_add
    <3> QED
      BY <1>0, <2>3, <2>5, <2>6, <3>1 DEF ListSound, TypeOK
  <2>7. CASE q # <<>>
    <3>1. Len(q) \in Nat \ {0} /\ head = q[Len(q)] /\ tail = q[1] /\ pre[head] = NULL
      BY <1>0, <2>7 DEF ListSound
    <3>2. head \in Job /\ head # j /\ head # NULL
      BY <2>4, <3>1, NullAssumption
    <3>3. tail' = tail /\ pre' = [pre EXCEPT ![j] = NULL, ![head] = j]
      BY <2>1, <3>2 DEF tp_job_quene_add
    <3>4. tail' = q'[1] /\ head' = q'[Len(q')] /\ pre'[head'] = NULL
      BY <1>0, <2>3, <2>5, <3>1, <3>2, <3>3 DEF TypeOK
    <3>5. ASSUME NEW i \in 1..(Len(q') - 1)
          PROVE  pre'[q'[i]] = q'[i + 1] /\ next'[q'[i + 1]] = q'[i]
      <4>1. i \in 1..Len(q) /\ q'[i] = q[i] /\ q[i] # j /\ q[i] \in Job
        BY <2>3, <2>4, <1>0
      <4>2. CASE i = Len(q)
        BY <1>0, <2>3, <2>5, <3>1, <3>2, <3>3, <4>1, <4>2 DEF TypeOK
      <4>3. CASE i # Len(q)
        <5>1. i \in 1..(Len(q) - 1) /\ i + 1 \in 1..Len(q) /\ q'[i + 1] = q[i + 1]
          BY <1>0, <2>3, <4>1, <4>3
        <5>2. pre[q[i]] = q[i + 1] /\ next[q[i + 1]] = q[i] /\ q[i + 1] \in Job
              /\ q[i + 1] # j
          BY <1>0, <2>2, <2>4, <5>1 DEF ListSound
        <5>3. q[i] # head
          BY <1>0, <3>1, <4>1, <4>3 DEF CellsOwned
        <5> QED
          BY <1>0, <2>5, <3>3, <4>1, <5>1, <5>2, <5>3 DEF TypeOK
      <4> QED
        BY <4>2, <4>3
    <3>6. next'[tail'] = NULL
      <4>1. tail \in Job /\ tail # j /\ next[tail] = NULL
        BY <1>0, <2>2, <2>4, <2>7, <3>1 DEF ListSound
      <4> QED
        BY <1>0, <2>5, <3>3, <4>1 DEF TypeOK
    <3> QED
      BY <2>3, <2>5, <3>4, <3>5, <3>6 DEF ListSound
  <2> QED
    BY <2>6, <2>7
<1>2. ASSUME NEW w \in Worker, TakeJob(w) PROVE ListSound'
  <2>1. /\ num > 0 /\ q # <<>> /\ tail = q[1] /\ q[1] \in Job
        /\ tp_delete__lastjob /\ cpc' = cpc
    BY <1>2, TakesOldest
  <2>2. cpc # "freeing"
    BY <1>0, <1>2 DEF TakeJob, Phases
  <2>3. /\ q' \in Seq(Job) /\ Len(q') = Len(q) - 1 /\ Len(q) \in Nat \ {0}
        /\ \A i \in 1..(Len(q) - 1) : q'[i] = q[i + 1]
        /\ q' = <<>> <=> Len(q) = 1
    BY <1>0, <2>1, TailAt DEF tp_delete__lastjob
  <2>4. num' = Len(q') /\ pre' = pre
    BY <1>0, <2>1, <2>3 DEF tp_delete__lastjob, ListSound
  <2>5. CASE Len(q) = 1
    BY <1>0, <2>1, <2>3, <2>4, <2>5 DEF tp_delete__lastjob, ListSound
  <2>6. CASE Len(q) # 1
    <3>1. /\ head' = head /\ tail' = pre[tail]
          /\ next' = [next EXCEPT ![pre[tail]] = NULL]
      BY <1>0, <2>1, <2>6 DEF tp_delete__lastjob, ListSound
    <3>2. 1 \in 1..(Len(q) - 1) /\ pre[tail] = q[2] /\ q'[1] = q[2] /\ q[2] \in Job
      BY <1>0, <2>1, <2>3, <2>6 DEF ListSound
    <3>3. tail' = q'[1] /\ head' = q'[Len(q')] /\ pre'[head'] = NULL /\ next'[tail'] = NULL
      BY <1>0, <2>1, <2>3, <2>4, <2>6, <3>1, <3>2 DEF ListSound, TypeOK
    <3>4. ASSUME NEW i \in 1..(Len(q') - 1)
          PROVE  pre'[q'[i]] = q'[i + 1] /\ next'[q'[i + 1]] = q'[i]
      <4>1. /\ i + 1 \in 1..(Len(q) - 1) /\ q'[i] = q[i + 1] /\ q'[i + 1] = q[i + 2]
            /\ i + 2 \in 1..Len(q) /\ 2 \in 1..Len(q) /\ (i + 1) + 1 = i + 2 /\ i + 2 # 2
        BY <2>3
      <4>2. pre[q[i + 1]] = q[i + 2] /\ next[q[i + 2]] = q[i + 1]
        BY <1>0, <2>2, <4>1 DEF ListSound
      <4>3. q[i + 2] # q[2] /\ q[i + 2] \in Job
        BY <1>0, <4>1 DEF CellsOwned
      <4> QED
        BY <1>0, <2>4, <3>1, <3>2, <4>1, <4>2, <4>3 DEF TypeOK
    <3> QED
      BY <2>3, <2>4, <2>6, <3>3, <3>4 DEF ListSound
  <2> QED
    BY <2>5, <2>6
<1>3. ASSUME DestroyFree PROVE ListSound'
  <2>1. /\ cpc = "freeing" /\ cpc' = cpc /\ num > 0 /\ tail' = pre[tail] /\ num' = num - 1
        /\ q' = Tail(q) /\ UNCHANGED <<head, pre>>
    BY <1>3 DEF DestroyFree
  <2>2. q # <<>> /\ tail = q[1]
    BY <1>0, <2>1 DEF ListSound
  <2>3. /\ q' \in Seq(Job) /\ Len(q') = Len(q) - 1 /\ Len(q) \in Nat \ {0}
        /\ \A i \in 1..(Len(q) - 1) : q'[i] = q[i + 1]
        /\ q' = <<>> <=> Len(q) = 1
    BY <1>0, <2>1, <2>2, TailAt
  <2>4. CASE Len(q) = 1
    BY <1>0, <2>1, <2>2, <2>3, <2>4 DEF ListSound
  <2>5. CASE Len(q) # 1
    <3>1. 1 \in 1..(Len(q) - 1) /\ tail' = q'[1] /\ head' = q'[Len(q')]
      BY <1>0, <2>1, <2>2, <2>3, <2>5 DEF ListSound
    <3>2. ASSUME NEW i \in 1..(Len(q') - 1) PROVE pre'[q'[i]] = q'[i + 1]
      <4>1. /\ i + 1 \in 1..(Len(q) - 1) /\ q'[i] = q[i + 1] /\ q'[i + 1] = q[i + 2]
            /\ (i + 1) + 1 = i + 2
        BY <2>3
      <4> QED
        BY <1>0, <2>1, <4>1 DEF ListSound
    <3> QED
      BY <1>0, <2>1, <2>2, <2>3, <2>5, <3>1, <3>2 DEF ListSound
  <2> QED
    BY <2>4, <2>5
<1>4. ASSUME DestroyEnd PROVE ListSound'
  <2>1. q = <<>>
    BY <1>0, <1>4, EmptySeq DEF DestroyEnd, ListSound
  <2> QED
    BY <1>0, <1>4, <2>1 DEF DestroyEnd, ListSound
<1>5. ASSUME MallocFails \/ DestroyStart \/ DestroyJoined PROVE ListSound'
  BY <1>0, <1>5 DEF MallocFails, DestroyStart, DestroyJoined, queueVars, ListSound
<1>6. ASSUME NEW w \in Worker, TestAlive(w) \/ SemWait(w) \/ RunJob(w) PROVE ListSound'
  BY <1>0, <1>6 DEF TestAlive, SemWait, RunJob, queueVars, ListSound
<1>7. CASE UNCHANGED vars
  BY <1>0, <1>7 DEF vars, queueVars, ListSound
<1> QED
  BY <1>1, <1>2, <1>3, <1>4, <1>5, <1>6, <1>7 DEF Next, Destroy, WorkerStep
-----------------------------------------------------------------------------
(* Every step keeps each cell in one pair of hands. *)
LEMMA CellsStep == IInv /\ [Next]_vars => CellsOwned'
<1> SUFFICES ASSUME IInv, [Next]_vars PROVE CellsOwned'
  OBVIOUS
<1>0. TypeOK /\ ListSound /\ CellsOwned /\ Phases /\ q \in Seq(Job) /\ Len(q) \in Nat
  BY DEF IInv, TypeOK
<1>1. ASSUME tp_add_work PROVE CellsOwned'
  <2>1. PICK j \in Job \ mem : mem' = mem \cup {j} /\ q' = Append(q, j)
    BY <1>1 DEF tp_add_work, tp_job_quene_add
  <2>2. /\ Len(q') = Len(q) + 1 /\ q'[Len(q) + 1] = j
        /\ \A i \in 1..Len(q) : q'[i] = q[i]
    BY <1>0, <2>1, AppendProperties
  <2>3. Running' = Running /\ job_p' = job_p
    BY <1>1 DEF tp_add_work, Running
  <2>4. \A i \in 1..Len(q') : q'[i] = j \/ (i \in 1..Len(q) /\ q'[i] = q[i] /\ q[i] \in mem)
    BY <1>0, <2>2 DEF CellsOwned
  <2>5. ASSUME NEW i \in 1..Len(q'), NEW k \in 1..Len(q'), q'[i] = q'[k] PROVE i = k
    <3>1. i \in 1..Len(q) \/ i = Len(q) + 1
      BY <1>0, <2>2
    <3>2. k \in 1..Len(q) \/ k = Len(q) + 1
      BY <1>0, <2>2
    <3> QED
      BY <1>0, <2>1, <2>2, <2>5, <3>1, <3>2 DEF CellsOwned
  <2>6. \A w \in Running' :
          /\ job_p'[w] \in mem'
          /\ \A i \in 1..Len(q') : q'[i] # job_p'[w]
          /\ \A v \in Running' : job_p'[v] = job_p'[w] => v = w
    BY <1>0, <2>1, <2>3, <2>4 DEF CellsOwned
  <2> QED
    BY <2>1, <2>4, <2>5, <2>6 DEF CellsOwned
<1>2. ASSUME NEW w \in Worker, TakeJob(w) PROVE CellsOwned'
  <2>1. /\ q # <<>> /\ tail = q[1] /\ wpc[w] = "lock" /\ wpc' = [wpc EXCEPT ![w] = "run"]
        /\ job_p' = [job_p EXCEPT ![w] = q[1]] /\ mem' = mem /\ q' = Tail(q)
    BY <1>2, TakesOldest DEF tp_delete__lastjob
  <2>2. /\ Len(q') = Len(q) - 1 /\ Len(q) \in Nat \ {0}
        /\ \A i \in 1..(Len(q) - 1) : q'[i] = q[i + 1]
    BY <1>0, <2>1, TailAt
  <2>3. Running' = Running \cup {w} /\ w \notin Running
    BY <1>0, <2>1 DEF Running, TypeOK
  <2>4. job_p'[w] = q[1] /\ \A v \in Running : job_p'[v] = job_p[v]
    BY <1>0, <2>1, <2>3 DEF TypeOK, Running
  <2>5. \A i \in 1..Len(q') : i + 1 \in 1..Len(q) /\ i + 1 # 1 /\ q'[i] = q[i + 1]
    BY <2>2
  <2>6. \A i \in 1..Len(q') : q'[i] \in mem' /\ q'[i] # q[1]
    BY <1>0, <2>1, <2>2, <2>5 DEF CellsOwned
  <2>7. \A i, k \in 1..Len(q') : q'[i] = q'[k] => i = k
    <3> SUFFICES ASSUME NEW i \in 1..Len(q'), NEW k \in 1..Len(q'), q'[i] = q'[k]
                 PROVE  i = k
      OBVIOUS
    <3>1. i + 1 = k + 1
      BY <1>0, <2>5 DEF CellsOwned
    <3> QED
      BY <3>1
  <2>8. ASSUME NEW v \in Running'
        PROVE  /\ job_p'[v] \in mem'
               /\ \A i \in 1..Len(q') : q'[i] # job_p'[v]
               /\ \A u \in Running' : job_p'[u] = job_p'[v] => u = v
    <3>1. 1 \in 1..Len(q) /\ q[1] \in mem
      BY <1>0, <2>2 DEF CellsOwned
    <3>2. \A u \in Running : job_p[u] # q[1] /\ job_p[u] \in mem
      BY <1>0, <3>1 DEF CellsOwned
    <3>3. CASE v = w
      BY <2>1, <2>3, <2>4, <2>6, <3>1, <3>2, <3>3
    <3>4. CASE v \in Running
      BY <1>0, <2>1, <2>3, <2>4, <2>5, <3>1, <3>2, <3>4 DEF CellsOwned
    <3> QED
      BY <2>3, <3>3, <3>4
  <2> QED
    BY <2>6, <2>7, <2>8 DEF CellsOwned
<1>3. ASSUME NEW w \in Worker, RunJob(w) PROVE CellsOwned'
  <2>1. /\ wpc[w] = "run" /\ wpc' = [wpc EXCEPT ![w] = "while"] /\ mem' = mem \ {job_p[w]}
        /\ job_p' = [job_p EXCEPT ![w] = NULL] /\ q' = q
    BY <1>3 DEF RunJob, Goto, queueVars
  <2>2. Running' = Running \ {w} /\ w \in Running
    BY <1>0, <2>1 DEF Running, TypeOK
  <2>3. \A v \in Running' : job_p'[v] = job_p[v] /\ job_p[v] # job_p[w] /\ v \in Running
    BY <1>0, <2>1, <2>2 DEF TypeOK, Running, CellsOwned
  <2> QED
    BY <1>0, <2>1, <2>2, <2>3 DEF CellsOwned
<1>4. ASSUME DestroyFree PROVE CellsOwned'
  <2>1. /\ cpc = "freeing" /\ num > 0 /\ mem' = mem \ {tail} /\ q' = Tail(q)
        /\ wpc' = wpc
    BY <1>4 DEF DestroyFree
  <2>2. q # <<>> /\ tail = q[1]
    BY <1>0, <2>1 DEF ListSound
  <2>3. /\ Len(q') = Len(q) - 1 /\ Len(q) \in Nat \ {0}
        /\ \A i \in 1..(Len(q) - 1) : q'[i] = q[i + 1]
    BY <1>0, <2>1, <2>2, TailAt
  <2>4. \A i \in 1..Len(q') : i + 1 \in 1..Len(q) /\ i + 1 # 1 /\ q'[i] = q[i + 1]
    BY <2>3
  <2>5. \A i \in 1..Len(q') : q'[i] \in mem'
    BY <1>0, <2>1, <2>2, <2>3, <2>4 DEF CellsOwned
  <2>6. \A i, k \in 1..Len(q') : q'[i] = q'[k] => i = k
    <3> SUFFICES ASSUME NEW i \in 1..Len(q'), NEW k \in 1..Len(q'), q'[i] = q'[k]
                 PROVE  i = k
      OBVIOUS
    <3>1. i + 1 = k + 1
      BY <1>0, <2>4 DEF CellsOwned
    <3> QED
      BY <3>1
  <2>7. Running' = {}
    BY <1>0, <2>1 DEF Running, Phases
  <2> QED
    BY <2>5, <2>6, <2>7 DEF CellsOwned
<1>5. ASSUME NEW w \in Worker, TestAlive(w) \/ SemWait(w) PROVE CellsOwned'
  <2>1. /\ q' = q /\ mem' = mem /\ job_p' = job_p /\ wpc[w] # "run"
        /\ \A v \in Worker : wpc'[v] = "run" <=> wpc[v] = "run"
    BY <1>0, <1>5 DEF TestAlive, SemWait, Goto, queueVars, TypeOK
  <2>2. Running' = Running
    BY <2>1 DEF Running
  <2> QED
    BY <1>0, <2>1, <2>2 DEF CellsOwned
<1>6. ASSUME MallocFails \/ DestroyStart \/ DestroyJoined \/ DestroyEnd PROVE CellsOwned'
  BY <1>0, <1>6 DEF MallocFails, DestroyStart, DestroyJoined, DestroyEnd, queueVars,
                    CellsOwned, Running
<1>7. CASE UNCHANGED vars
  BY <1>0, <1>7 DEF vars, queueVars, CellsOwned, Running
<1> QED
  BY <1>1, <1>2, <1>3, <1>4, <1>5, <1>6, <1>7 DEF Next, Destroy, WorkerStep
-----------------------------------------------------------------------------
(* Every step keeps the promise of the semaphore. *)
LEMMA PromiseStep == IInv /\ [Next]_vars => PromiseKept'
<1> SUFFICES ASSUME IInv, [Next]_vars PROVE PromiseKept'
  OBVIOUS
<1>0. TypeOK /\ ListSound /\ PromiseKept /\ Phases
  BY DEF IInv
<1>a. IsFiniteSet(Awake) /\ Cardinality(Awake) \in Nat
  <2>1. Awake \subseteq Worker
    BY DEF Awake
  <2> QED
    BY <2>1, WorkersAssumption, FS_Subset, FS_CardinalityType
<1>b. quene_sem \in Nat /\ num \in Nat /\ PromiseKept
  BY <1>0 DEF TypeOK
<1>1. ASSUME tp_add_work PROVE PromiseKept'
  <2>1. Awake' = Awake
    BY <1>1 DEF tp_add_work, Awake
  <2>2. num' = num + 1 /\ quene_sem' = quene_sem + 1 /\ UNCHANGED <<cpc, mutex, tp_alive>>
    BY <1>1 DEF tp_add_work, tp_job_quene_add
  <2> QED
    BY <1>a, <1>b, <2>1, <2>2 DEF PromiseKept
<1>2. ASSUME MallocFails \/ DestroyStart \/ DestroyJoined PROVE PromiseKept'
  <2>1. Awake' = Awake
    BY <1>2 DEF MallocFails, DestroyStart, DestroyJoined, Awake
  <2> QED
    BY <1>0, <1>2, <1>a, <2>1 DEF MallocFails, DestroyStart, DestroyJoined, queueVars,
                                  PromiseKept, Phases, TypeOK
<1>3. ASSUME DestroyFree \/ DestroyEnd PROVE PromiseKept'
  BY <1>0, <1>3 DEF DestroyFree, DestroyEnd, PromiseKept, Phases
<1>4. ASSUME NEW w \in Worker, TestAlive(w) PROVE PromiseKept'
  <2>1. /\ wpc' = [wpc EXCEPT ![w] = IF ~tp_alive THEN "ended"
                                     ELSE IF wpc[w] = "while" THEN "sem_wait" ELSE "lock"]
        /\ wpc[w] \in {"while", "woken"}
        /\ UNCHANGED <<cpc, quene_sem, num, mutex, tp_alive>>
    BY <1>4 DEF TestAlive, Goto, queueVars
  <2>2. CASE tp_alive
    <3>1. Awake' = Awake
      BY <1>0, <2>1, <2>2 DEF Awake, TypeOK
    <3> QED
      BY <1>0, <2>1, <3>1 DEF PromiseKept
  <2>3. CASE ~tp_alive
    <3>1. Awake' \subseteq Awake
      BY <1>0, <2>1, <2>3 DEF Awake, TypeOK
    <3>2. Cardinality(Awake') \in Nat /\ Cardinality(Awake') <= Cardinality(Awake)
      BY <1>a, <3>1, FS_Subset, FS_CardinalityType
    <3> QED
      BY <1>a, <1>b, <2>1, <2>3, <3>2 DEF PromiseKept
  <2> QED
    BY <2>2, <2>3
<1>5. ASSUME NEW w \in Worker, SemWait(w) PROVE PromiseKept'
  <2>1. /\ wpc[w] = "sem_wait" /\ wpc' = [wpc EXCEPT ![w] = "woken"]
        /\ quene_sem > 0 /\ quene_sem' = quene_sem - 1
        /\ UNCHANGED <<cpc, num, mutex, tp_alive>>
    BY <1>5 DEF SemWait, Goto, queueVars
  <2>2. Awake' = Awake \cup {w} /\ w \notin Awake
    BY <1>0, <2>1 DEF Awake, TypeOK
  <2>3. Cardinality(Awake') = Cardinality(Awake) + 1
    BY <1>a, <2>2, FS_AddElement
  <2> QED
    BY <1>a, <1>b, <2>1, <2>3 DEF PromiseKept
<1>6. ASSUME NEW w \in Worker, TakeJob(w) PROVE PromiseKept'
  <2>1. /\ wpc[w] = "lock" /\ wpc' = [wpc EXCEPT ![w] = "run"] /\ num' = num - 1
        /\ UNCHANGED <<cpc, quene_sem, mutex, tp_alive>>
    BY <1>6, TakesOldest DEF tp_delete__lastjob
  <2>2. Awake' = Awake \ {w} /\ w \in Awake
    BY <1>0, <2>1 DEF Awake, TypeOK
  <2>3. Cardinality(Awake') = Cardinality(Awake) - 1
    BY <1>a, <2>2, FS_RemoveElement
  <2> QED
    BY <1>a, <1>b, <2>1, <2>3 DEF PromiseKept
<1>7. ASSUME NEW w \in Worker, RunJob(w) PROVE PromiseKept'
  <2>1. /\ wpc[w] = "run" /\ wpc' = [wpc EXCEPT ![w] = "while"]
        /\ UNCHANGED <<cpc, quene_sem, num, mutex, tp_alive>>
    BY <1>7 DEF RunJob, Goto, queueVars
  <2>2. Awake' = Awake
    BY <1>0, <2>1 DEF Awake, TypeOK
  <2> QED
    BY <1>0, <2>1, <2>2 DEF PromiseKept
<1>8. CASE UNCHANGED vars
  BY <1>0, <1>8 DEF vars, queueVars, PromiseKept, Awake
<1> QED
  BY <1>1, <1>2, <1>3, <1>4, <1>5, <1>6, <1>7, <1>8 DEF Next, Destroy, WorkerStep
-----------------------------------------------------------------------------
(* The inductive invariant holds in every reachable state. *)
THEOREM IInvHolds == Spec => []IInv
<1>1. IInv /\ [Next]_vars => IInv'
  BY TypeStep, ListStep, CellsStep, PromiseStep, PhasesStep DEF IInv
<1> QED
  BY <1>1, InitIInv, PTL DEF Spec

(* The pool's variables keep their types. *)
THEOREM TypeCorrect == Spec => []TypeOK
  BY IInvHolds, PTL DEF IInv

(* The job queue of 32.threadpool.c is a sound list of the jobs that were  *)
(* added and not taken, in their order.                                    *)
THEOREM QueueSound == Spec => []ListSound
  BY IInvHolds, PTL DEF IInv

(* No cell of a job is freed while it is queued or run, nor run twice.     *)
THEOREM NoSharedCell == Spec => []CellsOwned
  BY IInvHolds, PTL DEF IInv

(* A worker let through by the semaphore finds a job, so that none leaves  *)
(* with the mutex held.                                                    *)
THEOREM SemaphoreSound == Spec => []PromiseKept
  BY IInvHolds, PTL DEF IInv
-----------------------------------------------------------------------------
(* The pool implements JobPool: no step of a worker, of tp_add_work or of  *)
(* tp_destroy shows anything but a step of the abstract pool.              *)
Busy == [w \in Worker |-> IF wpc[w] = "run" THEN job_p[w] ELSE NULL]
Closed == cpc \in {"freeing", "done"}

LEMMA InitPool == Init => PoolSpec!JobPoolInit
<1> SUFFICES ASSUME Init PROVE PoolSpec!JobPoolInit
  OBVIOUS
<1>1. Busy = [w \in Worker |-> NULL]
  BY DEF Init, Busy
<1>2. Closed = FALSE
  BY DEF Init, Closed
<1> QED
  BY <1>1, <1>2 DEF Init, Busy, Closed, PoolSpec!JobPoolInit, PoolSpec!Idle

LEMMA StepPool ==
    ASSUME IInv, [Next]_vars
    PROVE  PoolSpec!JobPoolNext \/ UNCHANGED <<q, Busy, Closed>>
<1>0. TypeOK /\ ListSound /\ CellsOwned /\ Phases /\ q \in Seq(Job)
  BY DEF IInv, TypeOK
<1>1. ASSUME tp_add_work PROVE PoolSpec!JobPoolNext
  <2>1. PICK j \in Job \ mem : q' = Append(q, j)
    BY <1>1 DEF tp_add_work, tp_job_quene_add
  <2>2. ~Closed /\ Closed' = Closed /\ Busy' = Busy
    BY <1>1 DEF tp_add_work, Closed, Busy
  <2>3. \A i \in 1..Len(q) : q[i] # j
    BY <1>0 DEF CellsOwned
  <2>4. \A w \in Worker : Busy[w] # j
    BY <1>0, NullAssumption DEF CellsOwned, Busy, Running
  <2>5. PoolSpec!Submit(j)
    BY <2>1, <2>2, <2>3, <2>4 DEF PoolSpec!Submit, Busy, Closed
  <2> QED
    BY <2>5 DEF PoolSpec!JobPoolNext
<1>2. ASSUME NEW w \in Worker, TakeJob(w) PROVE PoolSpec!JobPoolNext
  <2>1. /\ q # <<>> /\ wpc[w] = "lock" /\ wpc' = [wpc EXCEPT ![w] = "run"]
        /\ job_p' = [job_p EXCEPT ![w] = q[1]] /\ q' = Tail(q) /\ cpc' = cpc
    BY <1>2, TakesOldest DEF tp_delete__lastjob
  <2>2. ~Closed /\ Closed' = Closed
    BY <1>0, <2>1 DEF Closed, Phases
  <2>3. Busy[w] = NULL /\ Head(q) = q[1]
    BY <1>0, <2>1 DEF Busy
  <2>4. Busy' = [Busy EXCEPT ![w] = Head(q)]
    BY <1>0, <2>1, <2>3 DEF Busy, TypeOK
  <2>5. PoolSpec!Start(w)
    BY <2>1, <2>2, <2>3, <2>4 DEF PoolSpec!Start, Busy, Closed
  <2> QED
    BY <2>5 DEF PoolSpec!JobPoolNext
<1>3. ASSUME NEW w \in Worker, RunJob(w) PROVE PoolSpec!JobPoolNext
  <2>1. /\ wpc[w] = "run" /\ wpc' = [wpc EXCEPT ![w] = "while"]
        /\ job_p' = [job_p EXCEPT ![w] = NULL] /\ q' = q /\ cpc' = cpc
    BY <1>3 DEF RunJob, Goto, queueVars
  <2>2. ~Closed /\ Closed' = Closed
    BY <1>0, <2>1 DEF Closed, Phases
  <2>3. Busy[w] # NULL
    BY <1>0, <2>1, NullAssumption DEF Busy, CellsOwned, Running, TypeOK
  <2>4. Busy' = [Busy EXCEPT ![w] = NULL]
    BY <1>0, <2>1 DEF Busy, TypeOK
  <2>5. PoolSpec!Finish(w)
    BY <2>1, <2>2, <2>3, <2>4 DEF PoolSpec!Finish, Busy, Closed
  <2> QED
    BY <2>5 DEF PoolSpec!JobPoolNext
<1>4. ASSUME DestroyJoined PROVE PoolSpec!JobPoolNext
  <2>1. Busy = [w \in Worker |-> NULL] /\ Busy' = Busy /\ q' = q
    BY <1>4 DEF DestroyJoined, Busy, queueVars
  <2>2. ~Closed /\ Closed' = TRUE
    BY <1>4 DEF DestroyJoined, Closed
  <2>3. PoolSpec!Close
    BY <2>1, <2>2 DEF PoolSpec!Close, PoolSpec!Idle, Busy, Closed
  <2> QED
    BY <2>3 DEF PoolSpec!JobPoolNext
<1>5. ASSUME DestroyFree PROVE PoolSpec!JobPoolNext
  <2>1. q # <<>>
    BY <1>0, <1>5 DEF DestroyFree, ListSound
  <2>2. Closed /\ Closed' = Closed /\ Busy' = Busy /\ q' = Tail(q)
    BY <1>5 DEF DestroyFree, Closed, Busy
  <2>3. PoolSpec!Drop
    BY <2>1, <2>2 DEF PoolSpec!Drop, Busy, Closed
  <2> QED
    BY <2>3 DEF PoolSpec!JobPoolNext
<1>6. ASSUME MallocFails \/ DestroyStart \/ DestroyEnd PROVE UNCHANGED <<q, Busy, Closed>>
  BY <1>6 DEF MallocFails, DestroyStart, DestroyEnd, queueVars, Busy, Closed
<1>7. ASSUME NEW w \in Worker, TestAlive(w) \/ SemWait(w) PROVE UNCHANGED <<q, Busy, Closed>>
  <2>1. /\ q' = q /\ job_p' = job_p /\ cpc' = cpc
        /\ \A v \in Worker : wpc'[v] = "run" <=> wpc[v] = "run"
    BY <1>0, <1>7 DEF TestAlive, SemWait, Goto, queueVars, TypeOK
  <2> QED
    BY <2>1 DEF Busy, Closed
<1>8. CASE UNCHANGED vars
  BY <1>8 DEF vars, queueVars, Busy, Closed
<1> QED
  BY <1>1, <1>2, <1>3, <1>4, <1>5, <1>6, <1>7, <1>8 DEF Next, Destroy, WorkerStep

(* 32.threadpool.c is a job pool: it runs the jobs in the order they were  *)
(* added, each once, and never gives a cell to two of them.                *)
THEOREM PoolIsJobPool == Spec => IsJobPool
<1>1. IInv /\ [Next]_vars
        => [PoolSpec!JobPoolNext]_<<q, [w \in Worker |-> IF wpc[w] = "run" THEN job_p[w] ELSE NULL],
                                    cpc \in {"freeing", "done"}>>
  BY StepPool DEF Busy, Closed
<1> QED
  BY <1>1, InitPool, IInvHolds, PTL DEF Spec, IsJobPool, PoolSpec!JobPoolSpec
=============================================================================

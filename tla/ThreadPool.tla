----------------------------- MODULE ThreadPool -----------------------------
(***************************************************************************)
(* The thread pool of 3.ybx/3.apue/8.thread/posix/32.threadpool.c: a       *)
(* doubly linked job queue under one mutex, a counting semaphore posted    *)
(* once per job, workers that loop in tp_thread_func, and one client that  *)
(* adds jobs (tp_add_work) and then, in main's order, destroys the pool.   *)
(*                                                                         *)
(* A critical section is one step: only its holder touches the queue, and  *)
(* tp_destroy, which takes no lock, touches it after the last join.  The   *)
(* semaphore and the flag tp_alive are read and written outside the lock,  *)
(* so each access to them by a worker is a step of its own.                *)
(***************************************************************************)
EXTENDS Naturals, Sequences, FiniteSets

CONSTANTS
    Worker,  \* tp->threads
    Job,     \* memory cells for thread_pool_job; malloc may reuse a freed one
    NULL

ASSUME NullAssumption == NULL \notin Worker /\ NULL \notin Job
ASSUME WorkersAssumption == IsFiniteSet(Worker)

VARIABLES
    head, tail, num,  \* tp->job_queue
    pre, next,        \* the links of each cell
    mem,              \* cells allocated
    quene_sem,        \* the semaphore's value
    tp_alive,
    mutex,            \* a worker that returned holding the mutex, else NULL
    wpc, job_p,       \* each worker's place in tp_thread_func, and its job_p
    cpc,              \* the client: adding, joining, freeing, done, exited
    q                 \* history: the jobs in the order they were added

queueVars == <<head, tail, num, pre, next, q>>
vars == <<queueVars, mem, quene_sem, tp_alive, mutex, wpc, job_p, cpc>>

(* tp_init: an empty queue, the semaphore at 0, every worker started. *)
Init ==
    /\ head = NULL /\ tail = NULL /\ num = 0 /\ quene_sem = 0
    /\ pre = [j \in Job |-> NULL] /\ next = [j \in Job |-> NULL]
    /\ mem = {} /\ q = <<>>
    /\ tp_alive = TRUE /\ mutex = NULL
    /\ wpc = [w \in Worker |-> "while"]
    /\ job_p = [w \in Worker |-> NULL]
    /\ cpc = "adding"
-----------------------------------------------------------------------------
(* The queue, with the mutex held.  New jobs go in at the head and are     *)
(* taken from the tail.                                                    *)

(* mutant: two posts for one job *)
tp_job_quene_add_twoposts(j) ==
    /\ tail' = (IF head = NULL THEN j ELSE tail)
    /\ pre' = [i \in Job |-> IF i = j THEN NULL ELSE IF i = head THEN j ELSE pre[i]]
    /\ next' = [next EXCEPT ![j] = head]
    /\ head' = j
    /\ num' = num + 1
    /\ quene_sem' = quene_sem + 2
    /\ q' = Append(q, j)

(* mutant: the post is left to the last of several jobs *)
tp_job_quene_add_postonce(j) ==
    /\ tail' = (IF head = NULL THEN j ELSE tail)
    /\ pre' = [i \in Job |-> IF i = j THEN NULL ELSE IF i = head THEN j ELSE pre[i]]
    /\ next' = [next EXCEPT ![j] = head]
    /\ head' = j
    /\ num' = num + 1
    /\ quene_sem' = (IF head = NULL THEN quene_sem + 1 ELSE quene_sem)
    /\ q' = Append(q, j)

tp_job_quene_add(j) ==
    /\ IF head = NULL
         THEN /\ tail' = j
              /\ pre' = [pre EXCEPT ![j] = NULL]
         ELSE /\ pre' = [pre EXCEPT ![j] = NULL, ![head] = j]
              /\ UNCHANGED tail
    /\ next' = [next EXCEPT ![j] = head]
    /\ head' = j
    /\ num' = num + 1
    /\ quene_sem' = quene_sem + 1
    /\ q' = Append(q, j)

(* tp_delete__lastjob when num is not 0. *)
tp_delete__lastjob ==
    /\ IF num = 1
         THEN head' = NULL /\ tail' = NULL /\ UNCHANGED next
         ELSE /\ next' = [next EXCEPT ![pre[tail]] = NULL]
              /\ tail' = pre[tail]
              /\ UNCHANGED head
    /\ num' = num - 1
    /\ q' = Tail(q)
    /\ UNCHANGED pre
-----------------------------------------------------------------------------
(* The client. *)

tp_add_work ==
    /\ cpc = "adding" /\ mutex = NULL
    /\ \E j \in Job \ mem :
         /\ mem' = mem \cup {j}
         /\ tp_job_quene_add(j)
    /\ UNCHANGED <<tp_alive, mutex, wpc, job_p, cpc>>

(* malloc of a job fails: exit(1) ends every thread. *)
MallocFails ==
    /\ cpc = "adding"
    /\ cpc' = "exited"
    /\ UNCHANGED <<queueVars, mem, quene_sem, tp_alive, mutex, wpc, job_p>>

(* tp_destroy up to the joins: the flag is cleared, nobody is woken. *)
DestroyStart ==
    /\ cpc = "adding"
    /\ tp_alive' = FALSE
    /\ cpc' = "joining"
    /\ UNCHANGED <<queueVars, mem, quene_sem, mutex, wpc, job_p>>

DestroyJoined ==
    /\ cpc = "joining" /\ \A w \in Worker : wpc[w] = "ended"
    /\ cpc' = "freeing"
    /\ UNCHANGED <<queueVars, mem, quene_sem, tp_alive, mutex, wpc, job_p>>

(* One turn of tp_destroy's loop over the jobs that were never run. *)
DestroyFree ==
    /\ cpc = "freeing" /\ num > 0
    /\ tail' = pre[tail]
    /\ mem' = mem \ {tail}
    /\ num' = num - 1
    /\ q' = Tail(q)
    /\ UNCHANGED <<head, pre, next, quene_sem, tp_alive, mutex, wpc, job_p, cpc>>

DestroyEnd ==
    /\ cpc = "freeing" /\ num = 0
    /\ head' = NULL /\ tail' = NULL
    /\ cpc' = "done"
    /\ UNCHANGED <<num, pre, next, q, mem, quene_sem, tp_alive, mutex, wpc, job_p>>
-----------------------------------------------------------------------------
(* A worker in tp_thread_func. *)

Goto(w, l) == wpc' = [wpc EXCEPT ![w] = l]

(* while(tp_alive), and the same test again behind sem_wait. *)
TestAlive(w) ==
    /\ cpc # "exited" /\ wpc[w] \in {"while", "woken"}
    /\ Goto(w, IF ~tp_alive THEN "ended" ELSE IF wpc[w] = "while" THEN "sem_wait" ELSE "lock")
    /\ UNCHANGED <<queueVars, mem, quene_sem, tp_alive, mutex, job_p, cpc>>

SemWait(w) ==
    /\ cpc # "exited" /\ wpc[w] = "sem_wait" /\ quene_sem > 0
    /\ quene_sem' = quene_sem - 1
    /\ Goto(w, "woken")
    /\ UNCHANGED <<queueVars, mem, tp_alive, mutex, job_p, cpc>>

(* mutant: takes the newest job *)
TakeJob_newest(w) ==
    /\ cpc # "exited" /\ wpc[w] = "lock" /\ mutex = NULL /\ tail # NULL
    /\ job_p' = [job_p EXCEPT ![w] = head]
    /\ tp_delete__lastjob
    /\ Goto(w, "run")
    /\ UNCHANGED <<mem, quene_sem, tp_alive, mutex, cpc>>

(* mutant: frees the job before it is run *)
TakeJob_freefirst(w) ==
    /\ cpc # "exited" /\ wpc[w] = "lock" /\ mutex = NULL /\ tail # NULL
    /\ job_p' = [job_p EXCEPT ![w] = tail]
    /\ mem' = mem \ {tail}
    /\ tp_delete__lastjob
    /\ Goto(w, "run")
    /\ UNCHANGED <<quene_sem, tp_alive, mutex, cpc>>

(* mutant: runs the job without giving the mutex back *)
TakeJob_nounlock(w) ==
    /\ cpc # "exited" /\ wpc[w] = "lock" /\ mutex = NULL /\ tail # NULL
    /\ job_p' = [job_p EXCEPT ![w] = tail]
    /\ tp_delete__lastjob
    /\ mutex' = w
    /\ Goto(w, "run")
    /\ UNCHANGED <<mem, quene_sem, tp_alive, cpc>>

(* The critical section: an empty queue sends the worker back to the loop, *)
(* and a failed deletion returns from the thread with the mutex held.      *)
TakeJob(w) ==
    /\ cpc # "exited" /\ wpc[w] = "lock" /\ mutex = NULL
    /\ IF tail = NULL
         THEN Goto(w, "while") /\ UNCHANGED <<queueVars, mutex, job_p>>
       ELSE IF num = 0
         THEN Goto(w, "ended") /\ mutex' = w /\ UNCHANGED <<queueVars, job_p>>
       ELSE /\ job_p' = [job_p EXCEPT ![w] = tail]
            /\ tp_delete__lastjob
            /\ Goto(w, "run")
            /\ UNCHANGED mutex
    /\ UNCHANGED <<mem, quene_sem, tp_alive, cpc>>

(* function(arg_buf) returns, then free(job_p). *)
RunJob(w) ==
    /\ cpc # "exited" /\ wpc[w] = "run"
    /\ mem' = mem \ {job_p[w]}
    /\ job_p' = [job_p EXCEPT ![w] = NULL]
    /\ Goto(w, "while")
    /\ UNCHANGED <<queueVars, quene_sem, tp_alive, mutex, cpc>>

WorkerStep(w) == TestAlive(w) \/ SemWait(w) \/ TakeJob(w) \/ RunJob(w)

Destroy == DestroyStart \/ DestroyJoined \/ DestroyFree \/ DestroyEnd

Next == tp_add_work \/ MallocFails \/ Destroy \/ \E w \in Worker : WorkerStep(w)

(* Every worker is scheduled, and a destroy that was begun goes on; no     *)
(* client has to add a job or to destroy the pool.                         *)
Fairness ==
    /\ \A w \in Worker : WF_vars(WorkerStep(w))
    /\ WF_vars(DestroyJoined \/ DestroyFree \/ DestroyEnd)

Spec == Init /\ [][Next]_vars /\ Fairness
-----------------------------------------------------------------------------
Running == {w \in Worker : wpc[w] = "run"}
Awake == {w \in Worker : wpc[w] \in {"woken", "lock"}}

(* Type invariant of the pool's state. *)
TypeOK ==
    /\ head \in Job \cup {NULL} /\ tail \in Job \cup {NULL} /\ num \in Nat
    /\ pre \in [Job -> Job \cup {NULL}] /\ next \in [Job -> Job \cup {NULL}]
    /\ mem \subseteq Job /\ quene_sem \in Nat /\ tp_alive \in BOOLEAN
    /\ mutex \in Worker \cup {NULL}
    /\ wpc \in [Worker -> {"while", "sem_wait", "woken", "lock", "run", "ended"}]
    /\ job_p \in [Worker -> Job \cup {NULL}]
    /\ cpc \in {"adding", "joining", "freeing", "done", "exited"}
    /\ q \in Seq(Job)

(* The linked queue holds exactly the jobs added and not yet taken, oldest *)
(* at the tail: tp_job_quene_add, tp_delete__lastjob and the freeing loop  *)
(* of tp_destroy keep head, tail, num and the pre links in step.  The next *)
(* links, which no code reads, are kept too until tp_destroy frees cells.  *)
ListSound ==
    /\ num = Len(q)
    /\ q = <<>> => tail = NULL
    /\ q # <<>> => tail = q[1] /\ head = q[Len(q)] /\ pre[head] = NULL
    /\ \A i \in 1..(Len(q) - 1) : pre[q[i]] = q[i + 1]
    /\ cpc # "freeing" =>
         /\ q = <<>> => head = NULL
         /\ q # <<>> => next[tail] = NULL
         /\ \A i \in 1..(Len(q) - 1) : next[q[i + 1]] = q[i]

(* Every cell in the queue or in a worker's hands is allocated, and no     *)
(* cell is at two places: nothing is freed twice or reused while in use.   *)
CellsOwned ==
    /\ \A i \in 1..Len(q) : q[i] \in mem
    /\ \A i, k \in 1..Len(q) : q[i] = q[k] => i = k
    /\ \A w \in Running :
         /\ job_p[w] \in mem
         /\ \A i \in 1..Len(q) : q[i] # job_p[w]
         /\ \A v \in Running : job_p[v] = job_p[w] => v = w

(* The semaphore never promises more jobs than the queue holds: a worker   *)
(* that came through sem_wait finds a job behind the lock, so the branches *)
(* for an empty queue are dead and no worker leaves with the mutex held.   *)
PromiseKept ==
    /\ cpc \in {"adding", "joining"} => quene_sem + Cardinality(Awake) <= num
    /\ tp_alive => quene_sem + Cardinality(Awake) = num
    /\ mutex = NULL

(* A job in the queue is taken, run and its cell freed, unless the pool is *)
(* told to die or the process exits first.                                 *)
JobsRun ==
    \A j \in Job : (j \in mem /\ tp_alive)
                     ~> (j \notin mem \/ ~tp_alive \/ cpc = "exited")

(* tp_destroy wakes nobody, so it may wait for ever in pthread_join; but   *)
(* only for a worker asleep in sem_wait behind an exhausted semaphore,     *)
(* which nobody posts any more.                                            *)
AsleepAtJoin ==
    /\ cpc = "joining" /\ quene_sem = 0
    /\ \E w \in Worker : wpc[w] = "sem_wait"
DestroyEnds == (cpc = "joining") ~> (cpc = "done" \/ AsleepAtJoin)

(* The pool is a job pool: FIFO, each job run once, no cell shared.        *)
PoolSpec == INSTANCE JobPool
    WITH queue <- q,
         running <- [w \in Worker |-> IF wpc[w] = "run" THEN job_p[w] ELSE NULL],
         closed <- cpc \in {"freeing", "done"}
IsJobPool == PoolSpec!JobPoolSpec
=============================================================================

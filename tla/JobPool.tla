------------------------------ MODULE JobPool ------------------------------
(***************************************************************************)
(* What a thread pool promises its client, with nothing of how it keeps    *)
(* the promise: jobs are handed to workers in the order they were          *)
(* submitted, each to one worker and once; a job's cell is not used for    *)
(* another job before its worker has finished with it; no job is started   *)
(* after the queue was closed for good, when what is left is dropped.      *)
(***************************************************************************)
EXTENDS Naturals, Sequences

CONSTANTS Job, Worker, NULL

VARIABLES queue,   \* jobs submitted and not started, oldest first
          running, \* the job each worker is busy with, or NULL
          closed   \* TRUE once the queue is being emptied

Idle == [w \in Worker |-> NULL]

JobPoolInit == queue = <<>> /\ running = Idle /\ closed = FALSE

Submit(j) ==
    /\ ~closed
    /\ \A i \in 1..Len(queue) : queue[i] # j
    /\ \A w \in Worker : running[w] # j
    /\ queue' = Append(queue, j)
    /\ UNCHANGED <<running, closed>>

Start(w) ==
    /\ ~closed /\ queue # <<>> /\ running[w] = NULL
    /\ running' = [running EXCEPT ![w] = Head(queue)]
    /\ queue' = Tail(queue)
    /\ UNCHANGED closed

Finish(w) ==
    /\ ~closed /\ running[w] # NULL
    /\ running' = [running EXCEPT ![w] = NULL]
    /\ UNCHANGED <<queue, closed>>

\* Closing waits for every worker; then the queue can only be emptied.
Close ==
    /\ ~closed /\ running = Idle
    /\ closed' = TRUE
    /\ UNCHANGED <<queue, running>>

Drop ==
    /\ closed /\ queue # <<>>
    /\ queue' = Tail(queue)
    /\ UNCHANGED <<running, closed>>

JobPoolNext ==
    \/ \E j \in Job : Submit(j)
    \/ \E w \in Worker : Start(w) \/ Finish(w)
    \/ Close \/ Drop

JobPoolSpec == JobPoolInit /\ [][JobPoolNext]_<<queue, running, closed>>
=============================================================================

------------------------------ MODULE AnyTimer ------------------------------
(***************************************************************************)
(* The timer library 5.anytimer_mt/anytimer.c: a table of jobs, a thread   *)
(* that counts every running job down once a second and starts the ones    *)
(* that are due, and the calls that add, cancel, pause, resume and wait    *)
(* for jobs, by threads that share the job ids.                            *)
(*                                                                         *)
(* Legal use is assumed: at most one thread waits for a job, and the job   *)
(* that a thread pauses or resumes exists until the thread has locked it.  *)
(* at_canceljob and at_waitjob check the id themselves and are called with *)
(* any.                                                                    *)
(* at_waitjob is split where it lets go of a mutex.  So are the calls that *)
(* refuse: they hold a job's mutex but not mut_job, read job[id] again,    *)
(* and unlock whatever mutex they find there.  A critical section is one   *)
(* step as long as nobody unlocks the mutex of another thread; once one    *)
(* does, nothing is known of the program any more ("crashed").             *)
(* "elapsed", "calls" and "oneshot" are history variables.                 *)
(***************************************************************************)
EXTENDS Integers

CONSTANTS
    Job,        \* the memory blocks malloc returns, one per at_addjob
    Thread,     \* the calling threads
    JOB_MAX,    \* the number of slots of job[]
    Secs,       \* the values of `sec' passed to at_addjob
    NULL

ASSUME TimerAssumption ==
    /\ JOB_MAX \in Nat \ {0}
    /\ Secs \subseteq Nat
    /\ NULL \notin Job /\ NULL \notin Thread

Id == 0 .. JOB_MAX - 1

VARIABLES
    job,            \* the table
    mem,            \* the memory of each job: "none", "live", "freed"
    job_state, sec, time_remain, repeat,    \* the fields of at_job_st
    mut,            \* the thread that holds me->mut between two steps, or NULL
    waiters,        \* the threads asleep on me->cond
    mut_job,        \* mut_job is held between two steps, by init_action
    tpc, ti,        \* where init_action is, and its loop variable
    op, id,         \* the call each thread is in, and its argument (0 outside)
    crashed,        \* a thread followed NULL or used a mutex that it does not hold
    elapsed,        \* history: seconds counted while running, since the last start
    calls,          \* history: how often the job was started (2 means more than once)
    oneshot         \* history: it was added with NOREPEAT

tablevars == <<job, mem>>
fieldvars == <<job_state, sec, time_remain, repeat>>
tickvars  == <<mut_job, tpc, ti>>
callvars  == <<op, id>>
history   == <<elapsed, calls, oneshot>>
vars == <<tablevars, fieldvars, mut, waiters, tickvars, callvars, crashed, history>>

Init ==
    /\ job = [i \in Id |-> NULL]
    /\ mem = [j \in Job |-> "none"]
    /\ job_state = [j \in Job |-> "RUNNING"]
    /\ sec = [j \in Job |-> 0]
    /\ time_remain = [j \in Job |-> 0]
    /\ repeat = [j \in Job |-> FALSE]
    /\ mut = [j \in Job |-> NULL]
    /\ waiters = [j \in Job |-> {}]
    /\ mut_job = FALSE /\ tpc = "off" /\ ti = 0
    /\ op = [t \in Thread |-> "none"]
    /\ id = [t \in Thread |-> 0]
    /\ crashed = FALSE
    /\ elapsed = [j \in Job |-> 0]
    /\ calls = [j \in Job |-> 0]
    /\ oneshot = [j \in Job |-> FALSE]

-----------------------------------------------------------------------------
(* init_action: the thread that counts *)

TickLock ==
    /\ tpc = "lock" /\ ~ mut_job
    /\ mut_job' = TRUE /\ tpc' = "scan" /\ ti' = 0
    /\ UNCHANGED <<tablevars, fieldvars, mut, waiters, callvars, crashed, history>>

(* init_action is at a slot, whose job (if there is one) it has locked. *)
AtSlot(j) ==
    /\ tpc = "scan" /\ ti < JOB_MAX /\ j = job[ti]
    /\ ti' = ti + 1
    /\ UNCHANGED <<tablevars, mut, mut_job, tpc, callvars, crashed>>

(* The slot is empty. *)
TickSkip ==
    /\ AtSlot(NULL)
    /\ UNCHANGED <<fieldvars, waiters, history>>

(* The job is paused, cancelled or over. *)
TickIdle(j) ==
    /\ AtSlot(j) /\ mut[j] = NULL /\ job_state[j] # "RUNNING"
    /\ UNCHANGED <<fieldvars, waiters, history>>

(* One second less.  (Below 0, where a job added with sec = 0 goes, nothing *)
(* more can happen for 2^31 seconds, so that the countdown stops at -1.)    *)
Countdown(n) == IF n < 0 THEN n ELSE n - 1

TickDown(j) ==
    /\ AtSlot(j) /\ mut[j] = NULL /\ job_state[j] = "RUNNING"
    /\ Countdown(time_remain[j]) # 0
    /\ time_remain' = [time_remain EXCEPT ![j] = Countdown(@)]
    /\ elapsed' = [elapsed EXCEPT ![j] = IF sec[j] = 0 THEN 0 ELSE @ + 1]
    /\ UNCHANGED <<job_state, sec, repeat, waiters, calls, oneshot>>

(* A second start is all the history needs to see. *)
OneMore(n) == IF n = 2 THEN 2 ELSE n + 1

(* The job is due: pthread_create. *)
Due(j) ==
    /\ AtSlot(j) /\ mut[j] = NULL /\ job_state[j] = "RUNNING"
    /\ Countdown(time_remain[j]) = 0
    /\ calls' = [calls EXCEPT ![j] = OneMore(@)]
    /\ elapsed' = [elapsed EXCEPT ![j] = 0]
    /\ UNCHANGED oneshot

(* Mutant of TickRepeat: time_remain is not set back. *)
TickRepeat_noreset(j) ==
    /\ Due(j) /\ repeat[j]
    /\ time_remain' = [time_remain EXCEPT ![j] = 0]
    /\ UNCHANGED <<job_state, sec, repeat, waiters>>

(* ... and start over *)
TickRepeat(j) ==
    /\ Due(j) /\ repeat[j]
    /\ time_remain' = [time_remain EXCEPT ![j] = sec[j]]
    /\ UNCHANGED <<job_state, sec, repeat, waiters>>

(* Mutant of TickOver: job_state stays RUNNING. *)
TickOver_running(j) ==
    /\ Due(j) /\ ~ repeat[j]
    /\ time_remain' = [time_remain EXCEPT ![j] = 0]
    /\ waiters' = [waiters EXCEPT ![j] = {}]
    /\ UNCHANGED <<job_state, sec, repeat>>

(* Mutant of TickOver: pthread_cond_broadcast forgotten. *)
TickOver_nobroadcast(j) ==
    /\ Due(j) /\ ~ repeat[j]
    /\ time_remain' = [time_remain EXCEPT ![j] = 0]
    /\ job_state' = [job_state EXCEPT ![j] = "OVER"]
    /\ UNCHANGED <<sec, repeat, waiters>>

(* ... or it is over, and the thread that waits for it is woken *)
TickOver(j) ==
    /\ Due(j) /\ ~ repeat[j]
    /\ time_remain' = [time_remain EXCEPT ![j] = 0]
    /\ job_state' = [job_state EXCEPT ![j] = "OVER"]
    /\ waiters' = [waiters EXCEPT ![j] = {}]
    /\ UNCHANGED <<sec, repeat>>

TickUnlock ==
    /\ tpc = "scan" /\ ti = JOB_MAX
    /\ mut_job' = FALSE /\ tpc' = "sleep"
    /\ UNCHANGED <<tablevars, fieldvars, mut, waiters, ti, callvars, crashed, history>>

TickSleep ==
    /\ tpc = "sleep"
    /\ tpc' = "lock"
    /\ UNCHANGED <<tablevars, fieldvars, mut, waiters, mut_job, ti, callvars, crashed, history>>

init_action ==
    \/ TickLock \/ TickSkip \/ TickUnlock \/ TickSleep
    \/ \E j \in Job : TickIdle(j) \/ TickDown(j) \/ TickRepeat(j) \/ TickOver(j)

-----------------------------------------------------------------------------
(* The calls *)

Idle(t) == op[t] = "none"

(* Thread t begins a call with argument i that takes several steps. *)
Enter(t, label, i) ==
    /\ op' = [op EXCEPT ![t] = label]
    /\ id' = [id EXCEPT ![t] = i]

(* It goes on, or returns. *)
Goto(t, label) == Enter(t, label, id[t])
Return(t) == Enter(t, "none", 0)

(* module_load, by pthread_once *)
module_load == tpc' = IF tpc = "off" THEN "lock" ELSE tpc

(* get_free_pos_unlock: the free slots; the lowest is the one taken. *)
FreePos == {i \in Id : job[i] = NULL}

at_addjob(t, j, s, is_repeat) ==
    /\ Idle(t) /\ mem[j] = "none" /\ ~ mut_job
    /\ \E i \in FreePos :
         /\ \A k \in FreePos : i <= k
         /\ job' = [job EXCEPT ![i] = j]
    /\ mem' = [mem EXCEPT ![j] = "live"]
    /\ job_state' = [job_state EXCEPT ![j] = "RUNNING"]
    /\ sec' = [sec EXCEPT ![j] = s]
    /\ time_remain' = [time_remain EXCEPT ![j] = s]
    /\ repeat' = [repeat EXCEPT ![j] = is_repeat]
    /\ oneshot' = [oneshot EXCEPT ![j] = ~ is_repeat]
    /\ module_load
    /\ UNCHANGED <<mut, waiters, mut_job, ti, callvars, crashed, elapsed, calls>>

(* The table is full: -ENOSPC, and only the thread is there, by module_load. *)
(* The -EINVAL returns of the other calls change nothing either.             *)
AddFull(t) ==
    /\ Idle(t) /\ FreePos = {} /\ ~ mut_job
    /\ module_load
    /\ UNCHANGED <<tablevars, fieldvars, mut, waiters, mut_job, ti, callvars, crashed, history>>

(* Thread t may lock the job in slot i. *)
Lockable(i) == job[i] # NULL /\ mut[job[i]] = NULL

(* at_canceljob of a job that is not over.  There is no broadcast. *)
at_canceljob(t, i) ==
    /\ Idle(t) /\ ~ mut_job /\ Lockable(i)
    /\ job_state[job[i]] # "OVER"
    /\ job_state' = [job_state EXCEPT ![job[i]] = "CANCEL"]
    /\ repeat' = [repeat EXCEPT ![job[i]] = FALSE]
    /\ UNCHANGED <<tablevars, sec, time_remain, mut, waiters, tickvars, callvars, crashed, history>>

(* at_canceljob of a job that is over: mut_job is unlocked, the job is not. *)
CancelOver(t, i) ==
    /\ Idle(t) /\ ~ mut_job /\ Lockable(i)
    /\ job_state[job[i]] = "OVER"
    /\ mut' = [mut EXCEPT ![job[i]] = t]
    /\ Enter(t, "unlock", i)
    /\ UNCHANGED <<tablevars, fieldvars, waiters, tickvars, crashed, history>>

(* at_resumejob of a job that is not paused, or at_stopjob of one that does *)
(* not run: each state is wrong for one of them. *)
Refuse(t, i) ==
    /\ Idle(t) /\ Lockable(i)
    /\ mut' = [mut EXCEPT ![job[i]] = t]
    /\ Enter(t, "unlock", i)
    /\ UNCHANGED <<tablevars, fieldvars, waiters, tickvars, crashed, history>>

(* Mutant of UnlockAgain: the refusing call returns without the unlock. *)
UnlockAgain_forgets(t) ==
    /\ op[t] = "unlock"
    /\ crashed' = (job[id[t]] = NULL)
    /\ Return(t)
    /\ UNCHANGED <<tablevars, fieldvars, mut, waiters, tickvars, history>>

(* The call reads job[id] again, unlocks and returns an error.  Meanwhile    *)
(* at_waitjob, for which mut_job is enough, may have freed the job: the slot *)
(* is empty, or it has a new job, whose mutex is not the one locked. *)
UnlockAgain(t) ==
    /\ op[t] = "unlock"
    /\ IF job[id[t]] # NULL /\ mut[job[id[t]]] = t
         THEN mut' = [mut EXCEPT ![job[id[t]]] = NULL] /\ UNCHANGED crashed
         ELSE crashed' = TRUE /\ UNCHANGED mut
    /\ Return(t)
    /\ UNCHANGED <<tablevars, fieldvars, waiters, tickvars, history>>

(* at_stopjob and at_resumejob of a job they do not refuse.  (Nobody frees a *)
(* job that runs or is paused, and its state cannot change while it is locked.) *)
at_stopjob(t, i) ==
    /\ Idle(t) /\ Lockable(i) /\ job_state[job[i]] = "RUNNING"
    /\ job_state' = [job_state EXCEPT ![job[i]] = "PAUSE"]
    /\ UNCHANGED <<tablevars, sec, time_remain, repeat, mut, waiters, tickvars, callvars,
                   crashed, history>>

at_resumejob(t, i) ==
    /\ Idle(t) /\ Lockable(i) /\ job_state[job[i]] = "PAUSE"
    /\ job_state' = [job_state EXCEPT ![job[i]] = "RUNNING"]
    /\ UNCHANGED <<tablevars, sec, time_remain, repeat, mut, waiters, tickvars, callvars,
                   crashed, history>>

(* Thread t is inside at_waitjob. *)
InWait(t) == op[t] \in {"wait", "loop", "free"}

(* at_waitjob: the id is good, mut_job is unlocked again. *)
at_waitjob(t, i) ==
    /\ Idle(t) /\ ~ mut_job /\ job[i] # NULL
    /\ \A u \in Thread : InWait(u) => id[u] # i
    /\ Enter(t, "wait", i)
    /\ UNCHANGED <<tablevars, fieldvars, mut, waiters, tickvars, crashed, history>>

(* The job is locked; a periodic one is not waited for: -EBUSY. *)
WaitTest(t) ==
    /\ op[t] = "wait" /\ Lockable(id[t])
    /\ IF repeat[job[id[t]]] THEN Return(t) ELSE Goto(t, "loop")
    /\ UNCHANGED <<tablevars, fieldvars, mut, waiters, tickvars, crashed, history>>

(* The wait loop: sleep, ... *)
WaitSleep(t) ==
    /\ op[t] = "loop" /\ Lockable(id[t])
    /\ LET j == job[id[t]] IN
         /\ t \notin waiters[j] /\ job_state[j] = "RUNNING"
         /\ waiters' = [waiters EXCEPT ![j] = @ \cup {t}]
    /\ UNCHANGED <<tablevars, fieldvars, mut, tickvars, callvars, crashed, history>>

(* ... wake up for no reason, ... *)
Spurious(t, j) ==
    /\ t \in waiters[j]
    /\ waiters' = [waiters EXCEPT ![j] = @ \ {t}]
    /\ UNCHANGED <<tablevars, fieldvars, mut, tickvars, callvars, crashed, history>>

(* ... and find that the job no longer runs. *)
WaitDone(t) ==
    /\ op[t] = "loop" /\ Lockable(id[t])
    /\ LET j == job[id[t]] IN t \notin waiters[j] /\ job_state[j] # "RUNNING"
    /\ Goto(t, "free")
    /\ UNCHANGED <<tablevars, fieldvars, mut, waiters, tickvars, crashed, history>>

(* Mutant of WaitFree: the slot keeps its pointer. *)
WaitFree_noclear(t) ==
    /\ op[t] = "free" /\ ~ mut_job
    /\ mem' = [mem EXCEPT ![job[id[t]]] = "freed"]
    /\ Return(t)
    /\ UNCHANGED <<job, fieldvars, mut, waiters, tickvars, crashed, history>>

(* Under mut_job, the job is freed and its slot cleared ... *)
WaitFree(t) ==
    /\ op[t] = "free" /\ ~ mut_job
    /\ job_state[job[id[t]]] \in {"CANCEL", "OVER"}
    /\ mem' = [mem EXCEPT ![job[id[t]]] = "freed"]
    /\ job' = [job EXCEPT ![id[t]] = NULL]
    /\ Return(t)
    /\ UNCHANGED <<fieldvars, mut, waiters, tickvars, crashed, history>>

(* ... unless it is paused, or runs again.  Either way the call returns 0. *)
WaitKeep(t) ==
    /\ op[t] = "free" /\ ~ mut_job
    /\ job_state[job[id[t]]] \notin {"CANCEL", "OVER"}
    /\ Return(t)
    /\ UNCHANGED <<tablevars, fieldvars, mut, waiters, tickvars, crashed, history>>

(* A thread goes on with the call it is in. *)
Continue(t) == \/ UnlockAgain(t) \/ WaitTest(t) \/ WaitSleep(t) \/ WaitDone(t)
               \/ WaitFree(t) \/ WaitKeep(t)

Begin(t) ==
    \/ \E j \in Job, s \in Secs, r \in BOOLEAN : at_addjob(t, j, s, r)
    \/ AddFull(t)
    \/ \E i \in Id : \/ at_canceljob(t, i) \/ CancelOver(t, i) \/ Refuse(t, i)
                     \/ at_stopjob(t, i) \/ at_resumejob(t, i) \/ at_waitjob(t, i)

Next ==
    \/ ~ crashed /\ init_action
    \/ ~ crashed /\ \E t \in Thread : \/ Begin(t) \/ Continue(t)
                                      \/ \E j \in Job : Spurious(t, j)
    \/ crashed /\ UNCHANGED vars

(* The threads that can run are scheduled, and sleep(1) ends; mut_job, which *)
(* init_action takes every second, is free for most of it, and who calls at  *)
(* a job again and again leaves its mutex free in between. Nobody has to     *)
(* begin a call.                                                             *)
Fairness ==
    /\ SF_vars(~ crashed /\ init_action)
    /\ \A t \in Thread : SF_vars(~ crashed /\ Continue(t))

Spec == Init /\ [][Next]_vars /\ Fairness

-----------------------------------------------------------------------------
(* Properties *)

Live(j) == mem[j] = "live"

TypeOK ==
    /\ job \in [Id -> Job \cup {NULL}]
    /\ mem \in [Job -> {"none", "live", "freed"}]
    /\ job_state \in [Job -> {"RUNNING", "CANCEL", "OVER", "PAUSE"}]
    /\ sec \in [Job -> Nat]
    /\ time_remain \in [Job -> Int]
    /\ repeat \in [Job -> BOOLEAN]
    /\ mut \in [Job -> Thread \cup {NULL}]
    /\ waiters \in [Job -> SUBSET Thread]
    /\ mut_job \in BOOLEAN
    /\ tpc \in {"off", "lock", "scan", "sleep"}
    /\ ti \in 0 .. JOB_MAX
    /\ op \in [Thread -> {"none", "unlock", "wait", "loop", "free"}]
    /\ id \in [Thread -> Id]
    /\ crashed \in BOOLEAN
    /\ elapsed \in [Job -> Nat]
    /\ calls \in [Job -> 0 .. 2]
    /\ oneshot \in [Job -> BOOLEAN]

(* The slots of job[] hold different live jobs, and every live job has one: *)
(* at_waitjob frees a job only together with its slot. *)
TableSound ==
    /\ \A i \in Id : job[i] # NULL => Live(job[i])
    /\ \A i, k \in Id : job[i] # NULL /\ i # k => job[i] # job[k]
    /\ \A j \in Job : Live(j) => \E i \in Id : job[i] = j

(* Whatever pauses and resumes there were, a job that is neither over nor *)
(* cancelled starts after exactly `sec' seconds of running. *)
OnTime ==
    \A j \in Job :
        Live(j) /\ sec[j] > 0 /\ job_state[j] \in {"RUNNING", "PAUSE"} =>
            time_remain[j] > 0 /\ elapsed[j] + time_remain[j] = sec[j]

(* A job added with NOREPEAT is started at most once, and has been started *)
(* exactly if it is over; one that is cancelled was never started. *)
OneShot ==
    \A j \in Job : oneshot[j] => calls[j] = (IF job_state[j] = "OVER" THEN 1 ELSE 0)

(* Nobody sleeps in at_waitjob beside a job that is over. *)
NoSleepBesideOver == \A j \in Job : waiters[j] # {} => job_state[j] # "OVER"

(* A job in the table is locked between two steps only by a call that comes *)
(* back to its slot and unlocks it there; and no call loses its way unless   *)
(* at_waitjob freed the job while it was locked. *)
LocksReturned ==
    /\ ~ crashed => \A j \in Job : mut[j] # NULL /\ mem[j] # "freed" =>
                        op[mut[j]] = "unlock" /\ job[id[mut[j]]] = j
    /\ crashed => \E j \in Job : mut[j] # NULL /\ mem[j] = "freed"

(* A call that has a job to unlock holds the mutex of one, and either finds *)
(* it in the slot or that job is gone. *)
HoldsOne ==
    ~ crashed => \A t \in Thread : op[t] = "unlock" =>
        \E j \in Job : mut[j] = t /\ (job[id[t]] = j \/ mem[j] = "freed")

(* What the invariants above rest on: the slot a thread waits at stays       *)
(* occupied, by one job that no other thread waits for, since only the thread *)
(* itself clears it; a one-shot job is not periodic; and a job that was never *)
(* added has no history. *)
WaitedSlotKept ==
    /\ \A t \in Thread : InWait(t) => job[id[t]] # NULL
    /\ \A t, u \in Thread : InWait(t) /\ InWait(u) /\ t # u => id[t] # id[u]
HistorySound ==
    /\ \A j \in Job : oneshot[j] => ~ repeat[j]
    /\ \A j \in Job : mem[j] = "none" => elapsed[j] = 0 /\ calls[j] = 0 /\ waiters[j] = {}
IInv ==
    /\ TypeOK /\ TableSound /\ OnTime /\ OneShot /\ NoSleepBesideOver
    /\ WaitedSlotKept /\ HistorySound /\ LocksReturned /\ HoldsOne

(* The job thread t waits for. *)
WaitsFor(t, j) == op[t] = "loop" /\ job[id[t]] = j

(* A wait for a job that counts down ends, unless the job is paused or *)
(* cancelled meanwhile. *)
WaitEnds ==
    \A t \in Thread, j \in Job :
        WaitsFor(t, j) /\ sec[j] > 0
            ~> ~ WaitsFor(t, j) \/ job_state[j] \in {"PAUSE", "CANCEL"} \/ crashed
=============================================================================

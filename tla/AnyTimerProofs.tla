--------------------------- MODULE AnyTimerProofs ---------------------------
(***************************************************************************)
(* The invariants of the timer library, for every number of jobs, threads  *)
(* and slots and all delays.  Each conjunct of IInv has a lemma, which     *)
(* first singles out the actions that can disturb it.                      *)
(***************************************************************************)
EXTENDS AnyTimer, TLAPS

(* The initial state satisfies the invariant. *)
LEMMA InitIInv == Init => IInv
  <1> SUFFICES ASSUME Init PROVE IInv
    OBVIOUS
  <1> USE TimerAssumption DEF Init
  <1>1. TypeOK
    <2>1. mut_job \in BOOLEAN /\ crashed \in BOOLEAN
      BY Zenon
    <2>2. repeat \in [Job -> BOOLEAN] /\ oneshot \in [Job -> BOOLEAN]
      BY Zenon
    <2>3. 0 \in Id /\ 0 \in 0 .. JOB_MAX /\ 0 \in 0 .. 2
      BY DEF Id
    <2> QED
      BY <2>1, <2>2, <2>3 DEF TypeOK
  <1>2. TableSound /\ OnTime /\ NoSleepBesideOver
    BY DEF TableSound, OnTime, NoSleepBesideOver, Live
  <1>3. OneShot /\ HistorySound
    BY DEF OneShot, HistorySound
  <1>4. WaitedSlotKept
    BY DEF WaitedSlotKept, InWait
  <1>5. LocksReturned /\ HoldsOne
    BY DEF LocksReturned, HoldsOne
  <1> QED
    BY <1>1, <1>2, <1>3, <1>4, <1>5 DEF IInv

(* A step of init_action only touches fields of a job in the table. *)
LEMMA TypeTick == IInv /\ init_action => TypeOK'
  <1> SUFFICES ASSUME IInv, init_action PROVE TypeOK'
    OBVIOUS
  <1>0. TypeOK
    BY DEF IInv
  <1> USE <1>0, TimerAssumption
  <1>1. CASE TickLock \/ TickUnlock \/ TickSleep
    <2>1. mut_job' \in BOOLEAN
      BY <1>1, Zenon DEF TypeOK, TickLock, TickUnlock, TickSleep
    <2> QED
      BY <1>1, <2>1 DEF TypeOK, TickLock, TickUnlock, TickSleep, tablevars, fieldvars, callvars, history
  <1>2. ASSUME NEW j, AtSlot(j) PROVE ti' \in 0 .. JOB_MAX
    BY <1>2 DEF AtSlot, TypeOK
  <1>3. CASE TickSkip
    BY <1>2, <1>3 DEF TypeOK, TickSkip, AtSlot, tablevars, fieldvars, callvars, history
  <1>4. ASSUME NEW j \in Job, TickIdle(j) PROVE TypeOK'
    BY <1>2, <1>4 DEF TypeOK, TickIdle, AtSlot, tablevars, fieldvars, callvars, history
  <1>5. ASSUME NEW j \in Job, TickDown(j) PROVE TypeOK'
    BY <1>2, <1>5 DEF TypeOK, TickDown, AtSlot, Countdown, tablevars, callvars
  <1>6. ASSUME NEW j \in Job, Due(j) PROVE calls' \in [Job -> 0 .. 2] /\ elapsed' \in [Job -> Nat]
    BY <1>6 DEF TypeOK, Due, OneMore
  <1>7. ASSUME NEW j \in Job, TickRepeat(j) PROVE TypeOK'
    <2>1. Due(j) /\ UNCHANGED <<job_state, sec, repeat, waiters>>
      BY <1>7 DEF TickRepeat
    <2>2. time_remain' \in [Job -> Int]
      BY <1>7 DEF TypeOK, TickRepeat
    <2> QED
      BY <1>2, <1>6, <2>1, <2>2 DEF TypeOK, Due, AtSlot, tablevars, callvars
  <1>8. ASSUME NEW j \in Job, TickOver(j) PROVE TypeOK'
    <2>1. Due(j) /\ UNCHANGED <<sec, repeat>>
      BY <1>8 DEF TickOver
    <2>2. time_remain' \in [Job -> Int]
      BY <1>8 DEF TypeOK, TickOver
    <2>3. job_state' \in [Job -> {"RUNNING", "CANCEL", "OVER", "PAUSE"}]
      BY <1>8 DEF TypeOK, TickOver
    <2>4. waiters' \in [Job -> SUBSET Thread]
      BY <1>8 DEF TypeOK, TickOver
    <2> QED
      BY <1>2, <1>6, <2>1, <2>2, <2>3, <2>4 DEF TypeOK, Due, AtSlot, tablevars, callvars
  <1> QED
    BY <1>1, <1>3, <1>4, <1>5, <1>7, <1>8 DEF init_action

(* So does a step of a caller. *)
LEMMA TypeCalls == IInv /\ Next => TypeOK'
  <1> SUFFICES ASSUME IInv, Next PROVE TypeOK'
    OBVIOUS
  <1>0. TypeOK
    BY DEF IInv
  <1> USE <1>0, TimerAssumption
  <1>a. 0 \in Id
    BY DEF Id
  <1>1. ASSUME NEW t \in Thread, NEW j \in Job, NEW s \in Secs, NEW r \in BOOLEAN,
               at_addjob(t, j, s, r)
        PROVE  TypeOK'
    <2>1. job' \in [Id -> Job \cup {NULL}]
      BY <1>1 DEF TypeOK, at_addjob, FreePos
    <2>2. repeat' \in [Job -> BOOLEAN] /\ oneshot' \in [Job -> BOOLEAN]
      BY <1>1 DEF TypeOK, at_addjob
    <2>3. sec' \in [Job -> Nat] /\ time_remain' \in [Job -> Int]
      BY <1>1 DEF TypeOK, at_addjob
    <2>4. mem' \in [Job -> {"none", "live", "freed"}]
      BY <1>1 DEF TypeOK, at_addjob
    <2>5. job_state' \in [Job -> {"RUNNING", "CANCEL", "OVER", "PAUSE"}]
      BY <1>1 DEF TypeOK, at_addjob
    <2>6. tpc' \in {"off", "lock", "scan", "sleep"}
      BY <1>1 DEF TypeOK, at_addjob, module_load
    <2>7. UNCHANGED <<mut, waiters, mut_job, ti, callvars, crashed, elapsed, calls>>
      BY <1>1 DEF at_addjob
    <2> QED
      BY <2>1, <2>2, <2>3, <2>4, <2>5, <2>6, <2>7 DEF TypeOK, callvars
  <1>2. ASSUME NEW t \in Thread, AddFull(t) PROVE TypeOK'
    BY <1>2 DEF TypeOK, AddFull, module_load, tablevars, fieldvars, callvars, history
  <1>3. ASSUME NEW t \in Thread, NEW i \in Id,
               at_canceljob(t, i) \/ at_stopjob(t, i) \/ at_resumejob(t, i)
        PROVE  TypeOK'
    BY <1>3 DEF TypeOK, at_canceljob, at_stopjob, at_resumejob, Lockable,
                tablevars, tickvars, callvars, history
  <1>4. ASSUME NEW t \in Thread, NEW i \in Id,
               CancelOver(t, i) \/ Refuse(t, i) \/ at_waitjob(t, i)
        PROVE  TypeOK'
    BY <1>4 DEF TypeOK, CancelOver, Refuse, at_waitjob, Lockable, Enter,
                tablevars, fieldvars, tickvars, history
  <1>5. ASSUME NEW t \in Thread, Continue(t) PROVE TypeOK'
    <2>0. id[t] \in Id /\ job[id[t]] \in Job \cup {NULL}
      BY DEF TypeOK
    <2>1. CASE UnlockAgain(t)
      <3>1. mut' \in [Job -> Thread \cup {NULL}]
        BY <2>0, <2>1 DEF TypeOK, UnlockAgain
      <3>2. crashed' \in BOOLEAN
        BY <2>1, Zenon DEF TypeOK, UnlockAgain
      <3> QED
        BY <1>a, <2>0, <2>1, <3>1, <3>2
           DEF TypeOK, UnlockAgain, Return, Enter, tablevars, fieldvars, tickvars, history
    <2>2. CASE WaitTest(t) \/ WaitDone(t)
      BY <1>a, <2>0, <2>2 DEF TypeOK, WaitTest, WaitDone, Return, Goto, Enter,
                              tablevars, fieldvars, tickvars, history
    <2>3. CASE WaitSleep(t)
      BY <2>0, <2>3 DEF TypeOK, WaitSleep, Lockable, tablevars, fieldvars, tickvars, callvars, history
    <2>4. CASE WaitFree(t)
      BY <1>a, <2>0, <2>4 DEF TypeOK, WaitFree, Return, Enter, fieldvars, tickvars, history
    <2>5. CASE WaitKeep(t)
      BY <1>a, <2>5 DEF TypeOK, WaitKeep, Return, Enter, tablevars, fieldvars, tickvars, history
    <2> QED
      BY <1>5, <2>1, <2>2, <2>3, <2>4, <2>5 DEF Continue
  <1>6. ASSUME NEW t \in Thread, NEW j \in Job, Spurious(t, j) PROVE TypeOK'
    BY <1>6 DEF TypeOK, Spurious, tablevars, fieldvars, tickvars, callvars, history
  <1>7. ASSUME UNCHANGED vars PROVE TypeOK'
    BY <1>7 DEF TypeOK, vars, tablevars, fieldvars, tickvars, callvars, history
  <1> QED
    BY <1>1, <1>2, <1>3, <1>4, <1>5, <1>6, <1>7, TypeTick DEF Next, Begin

(* The table changes when a job is added and when one is freed. *)
LEMMA TableSteps ==
    ASSUME Next
    PROVE  \/ UNCHANGED tablevars
           \/ \E t \in Thread, j \in Job, s \in Secs, r \in BOOLEAN : at_addjob(t, j, s, r)
           \/ \E t \in Thread : WaitFree(t)
  <1>1. CASE init_action
    BY <1>1 DEF init_action, TickLock, TickSkip, TickUnlock, TickSleep, TickIdle, TickDown,
                TickRepeat, TickOver, Due, AtSlot
  <1>2. ASSUME NEW t \in Thread, Begin(t),
               ~ \E j \in Job, s \in Secs, r \in BOOLEAN : at_addjob(t, j, s, r)
        PROVE  UNCHANGED tablevars
    BY <1>2 DEF Begin, AddFull, at_canceljob, CancelOver, Refuse, at_stopjob, at_resumejob,
                at_waitjob
  <1>3. ASSUME NEW t \in Thread, Continue(t), ~ WaitFree(t)
        PROVE  UNCHANGED tablevars
    BY <1>3 DEF Continue, UnlockAgain, WaitTest, WaitSleep, WaitDone, WaitKeep
  <1>4. ASSUME NEW t \in Thread, NEW j \in Job, Spurious(t, j)
        PROVE  UNCHANGED tablevars
    BY <1>4 DEF Spurious
  <1>5. UNCHANGED vars => UNCHANGED tablevars
    BY DEF vars
  <1> QED
    BY <1>1, <1>2, <1>3, <1>4, <1>5 DEF Next

(* The slots keep holding different live jobs, and all of them. *)
LEMMA TableStep == IInv /\ Next => TableSound'
  <1> SUFFICES ASSUME IInv, Next PROVE TableSound'
    OBVIOUS
  <1>0. TypeOK /\ TableSound /\ WaitedSlotKept
    BY DEF IInv
  <1>1. CASE UNCHANGED tablevars
    BY <1>0, <1>1 DEF TableSound, Live, tablevars
  <1>2. ASSUME NEW t \in Thread, NEW j \in Job, NEW s \in Secs, NEW r \in BOOLEAN,
               at_addjob(t, j, s, r)
        PROVE  TableSound'
    <2>1. PICK i \in Id : job[i] = NULL /\ job' = [job EXCEPT ![i] = j]
      BY <1>2 DEF at_addjob, FreePos
    <2>2. mem[j] = "none" /\ mem' = [mem EXCEPT ![j] = "live"]
      BY <1>2 DEF at_addjob
    <2>3. \A k \in Id : job[k] # j
      BY <1>0, <2>2, TimerAssumption DEF TableSound, Live
    <2> QED
      BY <1>0, <2>1, <2>2, <2>3, TimerAssumption DEF TypeOK, TableSound, Live
  <1>3. ASSUME NEW t \in Thread, WaitFree(t) PROVE TableSound'
    <2>1. PICK i \in Id : i = id[t]
      BY <1>0 DEF TypeOK
    <2>2. job[i] # NULL
      BY <1>0, <1>3, <2>1 DEF WaitedSlotKept, InWait, WaitFree
    <2>3. PICK j \in Job : j = job[i]
      BY <1>0, <2>2 DEF TypeOK
    <2>4. job' = [job EXCEPT ![i] = NULL] /\ mem' = [mem EXCEPT ![j] = "freed"]
      BY <1>3, <2>1, <2>3 DEF WaitFree
    <2>5. \A k \in Id : k # i => job[k] # j
      BY <1>0, <2>2, <2>3 DEF TableSound
    <2> QED
      BY <1>0, <2>3, <2>4, <2>5, TimerAssumption DEF TypeOK, TableSound, Live
  <1> QED
    BY <1>1, <1>2, <1>3, TableSteps

(* The slot a thread waits at is cleared by that thread alone. *)
LEMMA WaitedStep == IInv /\ Next => WaitedSlotKept'
  <1> SUFFICES ASSUME IInv, Next PROVE WaitedSlotKept'
    OBVIOUS
  <1>0. TypeOK /\ WaitedSlotKept
    BY DEF IInv
  <1>1. ASSUME UNCHANGED callvars, \A i \in Id : job[i] # NULL => job'[i] # NULL
        PROVE  WaitedSlotKept'
    BY <1>0, <1>1 DEF WaitedSlotKept, InWait, callvars, TypeOK
  <1>2. ASSUME NEW t \in Thread, NEW l, NEW i \in Id, UNCHANGED job, Enter(t, l, i),
               InWait(t)' => job[i] # NULL,
               InWait(t)' => \A u \in Thread : u # t /\ InWait(u) => id[u] # i
        PROVE  WaitedSlotKept'
    <2>1. /\ \A u \in Thread : u # t => op'[u] = op[u] /\ id'[u] = id[u]
          /\ id'[t] = i
      BY <1>0, <1>2 DEF Enter, TypeOK
    <2> QED
      BY <1>0, <1>2, <2>1 DEF WaitedSlotKept, InWait
  <1>3. CASE init_action
    <2>1. UNCHANGED <<job, callvars>>
      BY <1>3 DEF init_action, TickLock, TickSkip, TickUnlock, TickSleep, TickIdle, TickDown,
                  TickRepeat, TickOver, Due, AtSlot, tablevars
    <2> QED
      BY <1>1, <2>1
  <1>4. ASSUME NEW t \in Thread, NEW j \in Job, NEW s \in Secs, NEW r \in BOOLEAN,
               at_addjob(t, j, s, r)
        PROVE  WaitedSlotKept'
    <2>1. PICK i \in Id : job[i] = NULL /\ job' = [job EXCEPT ![i] = j]
      BY <1>4 DEF at_addjob, FreePos
    <2>2. \A k \in Id : job[k] # NULL => job'[k] # NULL
      BY <1>0, <2>1 DEF TypeOK
    <2> QED
      BY <1>1, <1>4, <2>2 DEF at_addjob
  <1>5. ASSUME NEW t \in Thread, NEW i \in Id,
               \/ AddFull(t) \/ at_canceljob(t, i) \/ at_stopjob(t, i) \/ at_resumejob(t, i)
               \/ WaitSleep(t) \/ \E j \in Job : Spurious(t, j)
        PROVE  WaitedSlotKept'
    <2>1. UNCHANGED <<job, callvars>>
      BY <1>5 DEF AddFull, at_canceljob, at_stopjob, at_resumejob, WaitSleep, Spurious, tablevars
    <2> QED
      BY <1>1, <2>1
  <1>6. ASSUME NEW t \in Thread, NEW i \in Id, CancelOver(t, i) \/ Refuse(t, i)
        PROVE  WaitedSlotKept'
    <2>1. UNCHANGED job /\ Enter(t, "unlock", i) /\ ~ InWait(t)'
      BY <1>0, <1>6 DEF CancelOver, Refuse, Enter, InWait, tablevars, TypeOK
    <2> QED
      BY <1>2, <2>1
  <1>7. ASSUME NEW t \in Thread, NEW i \in Id, at_waitjob(t, i) PROVE WaitedSlotKept'
    <2>1. UNCHANGED job /\ Enter(t, "wait", i) /\ job[i] # NULL
      BY <1>7 DEF at_waitjob, tablevars
    <2>2. \A u \in Thread : InWait(u) => id[u] # i
      BY <1>7 DEF at_waitjob
    <2> QED
      BY <1>2, <2>1, <2>2
  <1>a. 0 \in Id
    BY TimerAssumption DEF Id
  <1>8. ASSUME NEW t \in Thread, UNCHANGED job, Return(t) PROVE WaitedSlotKept'
    <2>1. ~ InWait(t)'
      BY <1>0, <1>8 DEF Return, Enter, InWait, TypeOK
    <2> QED
      BY <1>2, <1>8, <1>a, <2>1 DEF Return
  <1>9. ASSUME NEW t \in Thread, NEW l, UNCHANGED job, Goto(t, l), InWait(t)
        PROVE  WaitedSlotKept'
    <2>1. id[t] \in Id /\ job[id[t]] # NULL
      BY <1>0, <1>9 DEF WaitedSlotKept, TypeOK
    <2>2. \A u \in Thread : u # t /\ InWait(u) => id[u] # id[t]
      BY <1>0, <1>9 DEF WaitedSlotKept
    <2> QED
      BY <1>2, <1>9, <2>1, <2>2 DEF Goto
  <1>10. ASSUME NEW t \in Thread, UnlockAgain(t) \/ WaitKeep(t) PROVE WaitedSlotKept'
    BY <1>8, <1>10 DEF UnlockAgain, WaitKeep, tablevars
  <1>11. ASSUME NEW t \in Thread, WaitTest(t) \/ WaitDone(t) PROVE WaitedSlotKept'
    <2>1. UNCHANGED job /\ InWait(t)
      BY <1>11 DEF WaitTest, WaitDone, InWait, tablevars
    <2>2. Return(t) \/ Goto(t, "loop") \/ Goto(t, "free")
      BY <1>11 DEF WaitTest, WaitDone
    <2> QED
      BY <1>8, <1>9, <2>1, <2>2
  <1>12. ASSUME NEW t \in Thread, WaitFree(t) PROVE WaitedSlotKept'
    <2>1. /\ op[t] = "free" /\ InWait(t) /\ id[t] \in Id
          /\ job' = [job EXCEPT ![id[t]] = NULL]
          /\ op' = [op EXCEPT ![t] = "none"] /\ id' = [id EXCEPT ![t] = 0]
      BY <1>0, <1>12 DEF WaitFree, InWait, Return, Enter, TypeOK
    <2>2. /\ ~ InWait(t)'
          /\ \A u \in Thread : u # t => op'[u] = op[u] /\ id'[u] = id[u]
      BY <1>0, <2>1 DEF InWait, TypeOK
    <2>3. \A u \in Thread : u # t /\ InWait(u) => job'[id[u]] # NULL
      BY <1>0, <2>1 DEF WaitedSlotKept, TypeOK
    <2> QED
      BY <1>0, <2>2, <2>3 DEF WaitedSlotKept, InWait
  <1>13. ASSUME UNCHANGED vars PROVE WaitedSlotKept'
    BY <1>1, <1>13 DEF vars, tablevars
  <1> QED
    BY <1>3, <1>4, <1>5, <1>6, <1>7, <1>10, <1>11, <1>12, <1>13, <1>a DEF Next, Begin, Continue

(* What the remaining conjuncts speak of, together. *)
Counting == OnTime /\ OneShot /\ NoSleepBesideOver /\ HistorySound

(* The steps that neither count, add, free nor change a state or the sleepers. *)
LEMMA CountingSteps ==
    ASSUME Next
    PROVE  \/ UNCHANGED <<mem, fieldvars, waiters, history>>
           \/ \E j \in Job : TickDown(j) \/ TickRepeat(j) \/ TickOver(j)
           \/ \E t \in Thread, j \in Job, s \in Secs, r \in BOOLEAN : at_addjob(t, j, s, r)
           \/ \E t \in Thread, i \in Id :
                  at_canceljob(t, i) \/ at_stopjob(t, i) \/ at_resumejob(t, i)
           \/ \E t \in Thread : WaitSleep(t) \/ WaitFree(t) \/ \E j \in Job : Spurious(t, j)
  <1>1. ASSUME init_action, ~ \E j \in Job : TickDown(j) \/ TickRepeat(j) \/ TickOver(j)
        PROVE  UNCHANGED <<mem, fieldvars, waiters, history>>
    BY <1>1 DEF init_action, TickLock, TickSkip, TickUnlock, TickSleep, TickIdle, AtSlot, tablevars
  <1>2. ASSUME NEW t \in Thread, NEW i \in Id,
               AddFull(t) \/ CancelOver(t, i) \/ Refuse(t, i) \/ at_waitjob(t, i)
        PROVE  UNCHANGED <<mem, fieldvars, waiters, history>>
    BY <1>2 DEF AddFull, CancelOver, Refuse, at_waitjob, tablevars
  <1>3. ASSUME NEW t \in Thread, UnlockAgain(t) \/ WaitTest(t) \/ WaitDone(t) \/ WaitKeep(t)
        PROVE  UNCHANGED <<mem, fieldvars, waiters, history>>
    BY <1>3 DEF UnlockAgain, WaitTest, WaitDone, WaitKeep, tablevars
  <1>4. UNCHANGED vars => UNCHANGED <<mem, fieldvars, waiters, history>>
    BY DEF vars, tablevars
  <1>5. \E i \in Id : TRUE
    BY TimerAssumption DEF Id
  <1> QED
    BY <1>1, <1>2, <1>3, <1>4, <1>5 DEF Next, Begin, Continue

(* Counting, starting and all the calls keep the job's account. *)
LEMMA CountingStep == IInv /\ Next => Counting'
  <1> SUFFICES ASSUME IInv, Next PROVE Counting'
    OBVIOUS
  <1>0. TypeOK /\ TableSound /\ WaitedSlotKept /\ Counting
    BY DEF IInv, Counting
  <1> USE DEF Counting
  <1>1. CASE UNCHANGED <<mem, fieldvars, waiters, history>>
    BY <1>0, <1>1 DEF OnTime, OneShot, NoSleepBesideOver, HistorySound, Live, fieldvars, history
  <1>2. ASSUME NEW j, AtSlot(j), j \in Job PROVE Live(j) /\ Live(j)'
    <2>0. ti \in 0 .. JOB_MAX /\ ti < JOB_MAX /\ job[ti] = j
      BY <1>0, <1>2 DEF AtSlot, TypeOK
    <2>1. ti \in Id /\ job[ti] = j
      BY <2>0, TimerAssumption DEF Id
    <2> QED
      BY <1>0, <1>2, <2>1, TimerAssumption DEF AtSlot, TableSound, Live, tablevars
  <1>3. ASSUME NEW j \in Job, TickDown(j) PROVE Counting'
    <2>1. /\ Live(j) /\ AtSlot(j) /\ job_state[j] = "RUNNING" /\ UNCHANGED mem
          /\ UNCHANGED <<job_state, sec, repeat, waiters, calls, oneshot>>
      BY <1>2, <1>3 DEF TickDown, AtSlot, tablevars
    <2>2. time_remain' = [time_remain EXCEPT ![j] = Countdown(@)] /\ Countdown(time_remain[j]) # 0
      BY <1>3 DEF TickDown
    <2>3. elapsed' = [elapsed EXCEPT ![j] = IF sec[j] = 0 THEN 0 ELSE @ + 1]
      BY <1>3 DEF TickDown
    <2>4. OnTime'
      <3> SUFFICES ASSUME NEW k \in Job, Live(k), sec[k] > 0, job_state[k] \in {"RUNNING", "PAUSE"}
                   PROVE  time_remain'[k] > 0 /\ elapsed'[k] + time_remain'[k] = sec[k]
        BY <2>1 DEF OnTime, Live
      <3>1. time_remain[k] > 0 /\ elapsed[k] + time_remain[k] = sec[k]
        BY <1>0 DEF OnTime
      <3>2. time_remain[k] \in Int /\ elapsed[k] \in Nat /\ sec[k] \in Nat
        BY <1>0 DEF TypeOK
      <3>3. CASE k # j
        BY <1>0, <2>2, <2>3, <3>1, <3>3 DEF TypeOK
      <3>4. CASE k = j
        <4>1. time_remain'[k] = time_remain[k] - 1 /\ time_remain[k] - 1 # 0
          BY <1>0, <2>2, <3>1, <3>2, <3>4 DEF Countdown, TypeOK
        <4>2. elapsed'[k] = elapsed[k] + 1
          BY <1>0, <2>3, <3>2, <3>4 DEF TypeOK
        <4> QED
          BY <3>1, <3>2, <4>1, <4>2
      <3> QED
        BY <3>3, <3>4
    <2>5. HistorySound'
      BY <1>0, <2>1, <2>3 DEF HistorySound, Live, TypeOK
    <2> QED
      BY <1>0, <2>1, <2>4, <2>5 DEF OneShot, NoSleepBesideOver
  <1>4. ASSUME NEW j \in Job, Due(j)
        PROVE  /\ Live(j) /\ UNCHANGED <<mem, oneshot>> /\ job_state[j] = "RUNNING"
               /\ calls' = [calls EXCEPT ![j] = OneMore(@)]
               /\ elapsed' = [elapsed EXCEPT ![j] = 0]
    BY <1>2, <1>4 DEF Due, AtSlot, tablevars
  <1>5. ASSUME NEW j \in Job, TickRepeat(j) PROVE Counting'
    <2>1. Due(j) /\ UNCHANGED <<job_state, sec, repeat, waiters>> /\ repeat[j]
      BY <1>5 DEF TickRepeat
    <2>2. time_remain' = [time_remain EXCEPT ![j] = sec[j]]
      BY <1>5 DEF TickRepeat
    <2>3. OnTime'
      BY <1>0, <1>4, <2>1, <2>2 DEF OnTime, Live, TypeOK
    <2>4. HistorySound'
      BY <1>0, <1>4, <2>1 DEF HistorySound, Live, TypeOK
    <2>5. ~ oneshot[j]
      BY <1>0, <2>1 DEF HistorySound
    <2>6. OneShot'
      BY <1>0, <1>4, <2>1, <2>5 DEF OneShot, TypeOK
    <2> QED
      BY <1>0, <2>1, <2>3, <2>4, <2>6 DEF NoSleepBesideOver
  <1>6. ASSUME NEW j \in Job, TickOver(j) PROVE Counting'
    <2>1. Due(j) /\ UNCHANGED <<sec, repeat>>
      BY <1>6 DEF TickOver
    <2>2. /\ time_remain' = [time_remain EXCEPT ![j] = 0]
          /\ job_state' = [job_state EXCEPT ![j] = "OVER"]
          /\ waiters' = [waiters EXCEPT ![j] = {}]
      BY <1>6 DEF TickOver
    <2>3. OnTime'
      BY <1>0, <1>4, <2>1, <2>2 DEF OnTime, Live, TypeOK
    <2>4. HistorySound'
      BY <1>0, <1>4, <2>1, <2>2 DEF HistorySound, Live, TypeOK
    <2>5. OneShot'
      BY <1>0, <1>4, <2>1, <2>2 DEF OneShot, OneMore, TypeOK
    <2>6. NoSleepBesideOver'
      BY <1>0, <2>2 DEF NoSleepBesideOver, TypeOK
    <2> QED
      BY <2>3, <2>4, <2>5, <2>6
  <1>7. ASSUME NEW t \in Thread, NEW j \in Job, NEW s \in Secs, NEW r \in BOOLEAN,
               at_addjob(t, j, s, r)
        PROVE  Counting'
    <2>1. mem[j] = "none" /\ UNCHANGED <<waiters, elapsed, calls>>
      BY <1>7 DEF at_addjob
    <2>2. /\ mem' = [mem EXCEPT ![j] = "live"]
          /\ job_state' = [job_state EXCEPT ![j] = "RUNNING"]
          /\ sec' = [sec EXCEPT ![j] = s]
          /\ time_remain' = [time_remain EXCEPT ![j] = s]
      BY <1>7 DEF at_addjob
    <2>3. repeat' = [repeat EXCEPT ![j] = r] /\ oneshot' = [oneshot EXCEPT ![j] = ~ r]
      BY <1>7 DEF at_addjob
    <2>4. s \in Nat /\ elapsed[j] = 0 /\ calls[j] = 0 /\ waiters[j] = {}
      BY <1>0, <2>1, TimerAssumption DEF HistorySound
    <2>5. OnTime'
      BY <1>0, <2>1, <2>2, <2>4 DEF OnTime, Live, TypeOK
    <2>6. OneShot'
      BY <1>0, <2>1, <2>2, <2>3, <2>4 DEF OneShot, TypeOK
    <2>7. NoSleepBesideOver'
      BY <1>0, <2>1, <2>2 DEF NoSleepBesideOver, TypeOK
    <2>8. HistorySound'
      BY <1>0, <2>1, <2>2, <2>3 DEF HistorySound, TypeOK
    <2> QED
      BY <2>5, <2>6, <2>7, <2>8
  <1>8. ASSUME NEW j \in Job, NEW st \in {"CANCEL", "PAUSE", "RUNNING"},
               job_state' = [job_state EXCEPT ![j] = st], job_state[j] # "OVER",
               st # "CANCEL" => job_state[j] \in {"RUNNING", "PAUSE"},
               UNCHANGED <<mem, sec, time_remain, waiters, history>>
        PROVE  OnTime' /\ OneShot' /\ NoSleepBesideOver'
    <2>1. OnTime'
      BY <1>0, <1>8 DEF OnTime, Live, TypeOK, history
    <2>2. OneShot'
      BY <1>0, <1>8 DEF OneShot, TypeOK, history
    <2>3. NoSleepBesideOver'
      BY <1>0, <1>8 DEF NoSleepBesideOver, TypeOK
    <2> QED
      BY <2>1, <2>2, <2>3
  <1>9. ASSUME NEW t \in Thread, NEW i \in Id, at_canceljob(t, i) PROVE Counting'
    <2>1. PICK j \in Job : j = job[i]
      BY <1>0, <1>9 DEF TypeOK, at_canceljob, Lockable
    <2>2. /\ job_state[j] # "OVER" /\ job_state' = [job_state EXCEPT ![j] = "CANCEL"]
          /\ UNCHANGED <<mem, sec, time_remain, waiters, history>>
      BY <1>9, <2>1 DEF at_canceljob, tablevars
    <2>3. repeat' = [repeat EXCEPT ![j] = FALSE]
      BY <1>9, <2>1 DEF at_canceljob
    <2>4. HistorySound'
      BY <1>0, <2>2, <2>3 DEF HistorySound, TypeOK, history
    <2> QED
      BY <1>8, <2>2, <2>4
  <1>10. ASSUME NEW t \in Thread, NEW i \in Id, at_stopjob(t, i) \/ at_resumejob(t, i)
         PROVE  Counting'
    <2>1. PICK j \in Job : j = job[i]
      BY <1>0, <1>10 DEF TypeOK, at_stopjob, at_resumejob, Lockable
    <2>2. PICK st \in {"PAUSE", "RUNNING"} :
            /\ job_state[j] \in {"RUNNING", "PAUSE"}
            /\ job_state' = [job_state EXCEPT ![j] = st]
            /\ UNCHANGED <<mem, sec, time_remain, repeat, waiters, history>>
      BY <1>10, <2>1 DEF at_stopjob, at_resumejob, tablevars
    <2>3. HistorySound'
      BY <1>0, <2>2 DEF HistorySound, history
    <2> QED
      BY <1>8, <2>2, <2>3
  <1>11. ASSUME NEW t \in Thread, WaitSleep(t) PROVE Counting'
    <2>1. PICK j \in Job : j = job[id[t]]
      BY <1>0, <1>11 DEF TypeOK, WaitSleep, Lockable
    <2>2. job_state[j] = "RUNNING" /\ waiters' = [waiters EXCEPT ![j] = @ \cup {t}]
      BY <1>11, <2>1 DEF WaitSleep
    <2>3. UNCHANGED <<mem, fieldvars, history>>
      BY <1>11 DEF WaitSleep, tablevars
    <2>4. mem[j] = "live"
      BY <1>0, <2>1, TimerAssumption DEF TableSound, Live, TypeOK
    <2>5. NoSleepBesideOver'
      BY <1>0, <2>2, <2>3 DEF NoSleepBesideOver, TypeOK, fieldvars
    <2>6. HistorySound'
      BY <1>0, <2>2, <2>3, <2>4 DEF HistorySound, TypeOK, fieldvars, history
    <2> QED
      BY <1>0, <2>3, <2>5, <2>6 DEF OnTime, OneShot, Live, fieldvars, history
  <1>12. ASSUME NEW t \in Thread, NEW j \in Job, Spurious(t, j) PROVE Counting'
    <2>1. UNCHANGED <<mem, fieldvars, history>> /\ waiters' = [waiters EXCEPT ![j] = @ \ {t}]
      BY <1>12 DEF Spurious, tablevars
    <2>2. \A k \in Job : waiters[k] = {} => waiters'[k] = {}
      BY <1>0, <2>1 DEF TypeOK
    <2> QED
      BY <1>0, <2>1, <2>2 DEF OnTime, OneShot, NoSleepBesideOver, HistorySound, Live, fieldvars, history
  <1>13. ASSUME NEW t \in Thread, WaitFree(t) PROVE Counting'
    <2>1. UNCHANGED <<fieldvars, waiters, history>>
      BY <1>13 DEF WaitFree
    <2>2. \A k \in Job : mem'[k] = mem[k] \/ mem'[k] = "freed"
      BY <1>0, <1>13 DEF WaitFree, TypeOK
    <2> QED
      BY <1>0, <2>1, <2>2 DEF OnTime, OneShot, NoSleepBesideOver, HistorySound, Live, fieldvars, history
  <1> QED
    BY <1>1, <1>3, <1>5, <1>6, <1>7, <1>9, <1>10, <1>11, <1>12, <1>13, CountingSteps

(* What the locks speak of, together. *)
Locking == LocksReturned /\ HoldsOne

(* A call locks and keeps the lock, comes back to unlock, or does neither; *)
(* a thread that has something to unlock does nothing else before. *)
LEMMA LockSteps ==
    ASSUME Next
    PROVE  \/ \E t \in Thread, i \in Id : CancelOver(t, i) \/ Refuse(t, i)
           \/ \E t \in Thread : UnlockAgain(t)
           \/ /\ UNCHANGED <<mut, crashed>>
              /\ \/ UNCHANGED callvars
                 \/ \E t \in Thread, l \in {"none", "wait", "loop", "free"} :
                        op[t] # "unlock" /\ \E i : Enter(t, l, i)
  <1>1. CASE init_action
    BY <1>1 DEF init_action, TickLock, TickSkip, TickUnlock, TickSleep, TickIdle, TickDown,
                TickRepeat, TickOver, Due, AtSlot
  <1>2. ASSUME NEW t \in Thread, Begin(t),
               ~ \E i \in Id : CancelOver(t, i) \/ Refuse(t, i) \/ at_waitjob(t, i)
        PROVE  UNCHANGED <<mut, crashed, callvars>>
    BY <1>2 DEF Begin, at_addjob, AddFull, at_canceljob, at_stopjob, at_resumejob
  <1>3. ASSUME NEW t \in Thread, NEW i \in Id, at_waitjob(t, i)
        PROVE  UNCHANGED <<mut, crashed>> /\ op[t] # "unlock" /\ Enter(t, "wait", i)
    BY <1>3 DEF at_waitjob, Idle
  <1>4. ASSUME NEW t \in Thread, Continue(t), ~ UnlockAgain(t), ~ WaitSleep(t)
        PROVE  /\ UNCHANGED <<mut, crashed>> /\ op[t] # "unlock"
               /\ \/ Enter(t, "none", 0) \/ Enter(t, "loop", id[t]) \/ Enter(t, "free", id[t])
    BY <1>4 DEF Continue, WaitTest, WaitDone, WaitFree, WaitKeep, Return, Goto
  <1>5. ASSUME NEW t \in Thread, WaitSleep(t) \/ \E j \in Job : Spurious(t, j)
        PROVE  UNCHANGED <<mut, crashed, callvars>>
    BY <1>5 DEF WaitSleep, Spurious
  <1>6. UNCHANGED vars => UNCHANGED <<mut, crashed, callvars>>
    BY DEF vars
  <1>7. ASSUME NEW t \in Thread, Begin(t) \/ Continue(t) \/ \E j \in Job : Spurious(t, j)
        PROVE  \/ \E u \in Thread, i \in Id : CancelOver(u, i) \/ Refuse(u, i)
               \/ \E u \in Thread : UnlockAgain(u)
               \/ /\ UNCHANGED <<mut, crashed>>
                  /\ \/ UNCHANGED callvars
                     \/ \E u \in Thread, l \in {"none", "wait", "loop", "free"} :
                        op[u] # "unlock" /\ \E i : Enter(u, l, i)
    BY <1>2, <1>3, <1>4, <1>5, <1>7
  <1> QED
    BY <1>1, <1>6, <1>7 DEF Next

(* No job moves to another slot, a slot is only cleared when its job is freed, *)
(* and what is freed stays so. *)
LEMMA LockedStay ==
    ASSUME IInv, Next
    PROVE  /\ \A j \in Job : mem[j] = "freed" => mem'[j] = "freed"
           /\ \A i \in Id : job[i] # NULL => job'[i] = job[i] \/ mem'[job[i]] = "freed"
           /\ \A j \in Job : mem'[j] # "freed" => mem[j] # "freed"
  <1>0. TypeOK /\ WaitedSlotKept
    BY DEF IInv
  <1>1. CASE UNCHANGED tablevars
    BY <1>1 DEF tablevars
  <1>2. ASSUME NEW t \in Thread, NEW j \in Job, NEW s \in Secs, NEW r \in BOOLEAN,
               at_addjob(t, j, s, r)
        PROVE  /\ \A k \in Job : mem[k] = "freed" => mem'[k] = "freed"
               /\ \A i \in Id : job[i] # NULL => job'[i] = job[i]
    <2>1. PICK i \in Id : job[i] = NULL /\ job' = [job EXCEPT ![i] = j]
      BY <1>2 DEF at_addjob, FreePos
    <2>2. mem[j] = "none" /\ mem' = [mem EXCEPT ![j] = "live"]
      BY <1>2 DEF at_addjob
    <2> QED
      BY <1>0, <2>1, <2>2 DEF TypeOK
  <1>3. ASSUME NEW t \in Thread, WaitFree(t)
        PROVE  /\ \A k \in Job : mem[k] = "freed" => mem'[k] = "freed"
               /\ \A i \in Id : job[i] # NULL => job'[i] = job[i] \/ mem'[job[i]] = "freed"
    <2>1. PICK i \in Id : i = id[t]
      BY <1>0 DEF TypeOK
    <2>2. PICK j \in Job : j = job[i]
      BY <1>0, <1>3, <2>1 DEF WaitedSlotKept, InWait, WaitFree, TypeOK
    <2>3. job' = [job EXCEPT ![i] = NULL] /\ mem' = [mem EXCEPT ![j] = "freed"]
      BY <1>3, <2>1, <2>2 DEF WaitFree
    <2> QED
      BY <1>0, <2>2, <2>3 DEF TypeOK
  <1> QED
    BY <1>1, <1>2, <1>3, TableSteps

(* Every call that refuses comes back to the job it locked, or loses its way *)
(* because that job was freed. *)
LEMMA LockingStep == IInv /\ Next => Locking'
  <1> SUFFICES ASSUME IInv, Next PROVE Locking'
    OBVIOUS
  <1>0. TypeOK /\ TableSound /\ LocksReturned /\ HoldsOne
    BY DEF IInv
  <1>a. TypeOK'
    BY TypeCalls
  <1>b. /\ \A j \in Job : mem[j] = "freed" => mem'[j] = "freed"
        /\ \A i \in Id : job[i] # NULL => job'[i] = job[i] \/ mem'[job[i]] = "freed"
        /\ \A j \in Job : mem'[j] # "freed" => mem[j] # "freed"
    BY LockedStay
  <1> USE DEF Locking
  <1>1. ASSUME NEW t \in Thread, NEW i \in Id, CancelOver(t, i) \/ Refuse(t, i)
        PROVE  Locking'
    <2>1. PICK j \in Job : j = job[i] /\ mut[j] = NULL
      BY <1>0, <1>1 DEF CancelOver, Refuse, Lockable, TypeOK
    <2>2. /\ mut' = [mut EXCEPT ![j] = t]
          /\ op' = [op EXCEPT ![t] = "unlock"] /\ id' = [id EXCEPT ![t] = i]
          /\ op[t] = "none" /\ UNCHANGED <<job, mem, crashed>>
      BY <1>1, <2>1 DEF CancelOver, Refuse, Enter, Idle, tablevars
    <2>3. mem[j] = "live"
      BY <1>0, <2>1, TimerAssumption DEF TableSound, Live
    <2>4. LocksReturned'
      BY <1>0, <2>1, <2>2, <2>3, TimerAssumption DEF LocksReturned, TypeOK
    <2>5. HoldsOne'
      <3> SUFFICES ASSUME ~ crashed, NEW u \in Thread, op'[u] = "unlock"
                   PROVE  \E k \in Job : mut'[k] = u /\ (job[id'[u]] = k \/ mem[k] = "freed")
        BY <2>2 DEF HoldsOne
      <3>1. CASE u = t
        BY <1>0, <2>1, <2>2, <3>1 DEF TypeOK
      <3>2. CASE u # t
        <4>1. op[u] = "unlock" /\ id'[u] = id[u]
          BY <1>0, <2>2, <3>2 DEF TypeOK
        <4>2. PICK k \in Job : mut[k] = u /\ (job[id[u]] = k \/ mem[k] = "freed")
          BY <1>0, <4>1 DEF HoldsOne
        <4>3. mut'[k] = u
          BY <1>0, <2>1, <2>2, <4>2, TimerAssumption DEF TypeOK
        <4> QED
          BY <4>1, <4>2, <4>3
      <3> QED
        BY <3>1, <3>2
    <2> QED
      BY <2>4, <2>5
  <1>2. ASSUME NEW t \in Thread, UnlockAgain(t) PROVE Locking'
    <2>1. /\ op[t] = "unlock" /\ op' = [op EXCEPT ![t] = "none"] /\ id' = [id EXCEPT ![t] = 0]
          /\ UNCHANGED <<job, mem>> /\ id[t] \in Id
      BY <1>0, <1>2 DEF UnlockAgain, Return, Enter, tablevars, TypeOK
    <2>2. CASE job[id[t]] # NULL /\ mut[job[id[t]]] = t
      <3>1. PICK j \in Job : j = job[id[t]] /\ mut[j] = t
        BY <1>0, <2>1, <2>2 DEF TypeOK
      <3>2. mut' = [mut EXCEPT ![j] = NULL] /\ crashed' = crashed
        BY <1>2, <2>2, <3>1 DEF UnlockAgain
      <3>3. mem[j] = "live"
        BY <1>0, <2>1, <3>1, TimerAssumption DEF TableSound, Live
      <3>4. LocksReturned'
        BY <1>0, <2>1, <3>1, <3>2, <3>3, TimerAssumption DEF LocksReturned, TypeOK
      <3>5. HoldsOne'
        <4> SUFFICES ASSUME ~ crashed, NEW u \in Thread, op'[u] = "unlock"
                     PROVE  \E k \in Job : mut'[k] = u /\ (job[id'[u]] = k \/ mem[k] = "freed")
          BY <2>1, <3>2 DEF HoldsOne
        <4>1. u # t /\ op[u] = "unlock" /\ id'[u] = id[u]
          BY <1>0, <2>1 DEF TypeOK
        <4>2. PICK k \in Job : mut[k] = u /\ (job[id[u]] = k \/ mem[k] = "freed")
          BY <1>0, <4>1 DEF HoldsOne
        <4>3. mut'[k] = u
          BY <1>0, <3>1, <3>2, <4>1, <4>2 DEF TypeOK
        <4> QED
          BY <4>1, <4>2, <4>3
      <3> QED
        BY <3>4, <3>5
    <2>3. CASE ~ (job[id[t]] # NULL /\ mut[job[id[t]]] = t)
      <3>1. crashed' /\ UNCHANGED mut
        BY <1>2, <2>3 DEF UnlockAgain
      <3>2. \E j \in Job : mut[j] # NULL /\ mem[j] = "freed"
        <4>1. CASE crashed
          BY <1>0, <4>1 DEF LocksReturned
        <4>2. CASE ~ crashed
          <5>1. PICK j \in Job : mut[j] = t /\ (job[id[t]] = j \/ mem[j] = "freed")
            BY <1>0, <2>1, <4>2 DEF HoldsOne
          <5> QED
            BY <2>3, <5>1, TimerAssumption
        <4> QED
          BY <4>1, <4>2
      <3> QED
        BY <2>1, <3>1, <3>2 DEF LocksReturned, HoldsOne
    <2> QED
      BY <2>2, <2>3
  <1>3. ASSUME UNCHANGED <<mut, crashed>>,
               \A t \in Thread : op'[t] = "unlock" <=> op[t] = "unlock",
               \A t \in Thread : op[t] = "unlock" => id'[t] = id[t]
        PROVE  Locking'
    <2>1. LocksReturned'
      <3>1. CASE crashed
        BY <1>0, <1>3, <1>b, <3>1 DEF LocksReturned
      <3>2. ASSUME ~ crashed, NEW j \in Job, mut[j] # NULL, mem'[j] # "freed"
            PROVE  op'[mut[j]] = "unlock" /\ job'[id'[mut[j]]] = j
        <4>1. mut[j] \in Thread /\ op[mut[j]] = "unlock" /\ job[id[mut[j]]] = j
          BY <1>0, <1>b, <3>2 DEF LocksReturned, TypeOK
        <4>2. id[mut[j]] \in Id /\ job[id[mut[j]]] # NULL
          BY <1>0, <4>1, TimerAssumption DEF TypeOK
        <4> QED
          BY <1>3, <1>b, <3>2, <4>1, <4>2
      <3> QED
        BY <1>3, <3>1, <3>2 DEF LocksReturned
    <2>2. HoldsOne'
      <3>1. ASSUME ~ crashed, NEW t \in Thread, op[t] = "unlock"
            PROVE  \E j \in Job : mut[j] = t /\ (job'[id'[t]] = j \/ mem'[j] = "freed")
        <4>1. PICK j \in Job : mut[j] = t /\ (job[id[t]] = j \/ mem[j] = "freed")
          BY <1>0, <3>1 DEF HoldsOne
        <4>2. id[t] \in Id /\ id'[t] = id[t] /\ j # NULL
          BY <1>0, <1>3, <3>1, TimerAssumption DEF TypeOK
        <4> QED
          BY <1>b, <4>1, <4>2
      <3> QED
        BY <1>3, <3>1 DEF HoldsOne
    <2> QED
      BY <2>1, <2>2
  <1>4. CASE UNCHANGED callvars /\ UNCHANGED <<mut, crashed>>
    BY <1>3, <1>4 DEF callvars
  <1>5. ASSUME NEW t \in Thread, NEW l \in {"none", "wait", "loop", "free"}, NEW i,
               op[t] # "unlock", Enter(t, l, i), UNCHANGED <<mut, crashed>>
        PROVE  Locking'
    <2>1. \A u \in Thread : u # t => op'[u] = op[u] /\ id'[u] = id[u]
      BY <1>0, <1>5 DEF Enter, TypeOK
    <2>2. op'[t] # "unlock"
      BY <1>0, <1>5 DEF Enter, TypeOK
    <2> QED
      BY <1>3, <1>5, <2>1, <2>2
  <1> QED
    BY <1>1, <1>2, <1>4, <1>5, LockSteps

(* So the invariant holds in every reachable state. *)
LEMMA Invariance == Spec => []IInv
  <1>1. ASSUME IInv, Next PROVE IInv'
    BY <1>1, TypeCalls, TableStep, WaitedStep, CountingStep, LockingStep DEF IInv, Counting, Locking
  <1>2. ASSUME IInv, UNCHANGED vars PROVE IInv'
    BY <1>2 DEF IInv, TypeOK, TableSound, OnTime, OneShot, NoSleepBesideOver, WaitedSlotKept,
                HistorySound, LocksReturned, HoldsOne, Live, InWait,
                vars, tablevars, fieldvars, tickvars, callvars, history
  <1>3. IInv /\ [Next]_vars => IInv'
    BY <1>1, <1>2
  <1> QED
    BY InitIInv, <1>3, PTL DEF Spec

(* The variables keep their types. *)
THEOREM TimerTypes == Spec => []TypeOK
  BY Invariance, PTL DEF IInv

(* init_action and the calls never meet a freed job in the table, two slots *)
(* never share a job, and no job is lost before at_waitjob frees it. *)
THEOREM NoFreedJobInTable == Spec => []TableSound
  BY Invariance, PTL DEF IInv

(* A job in the table is locked between two steps only by a call that returns *)
(* to unlock it; and a call unlocks another job's mutex, or follows NULL, only *)
(* if at_waitjob freed the job the call had locked. *)
THEOREM LocksComeBack == Spec => []LocksReturned
  BY Invariance, PTL DEF IInv

(* Unless a call loses its way, a job that is still due starts after exactly *)
(* `sec' seconds of running, through any pauses and resumes. *)
THEOREM JobsOnTime == Spec => []OnTime
  BY Invariance, PTL DEF IInv

(* Unless a call loses its way, a job added with NOREPEAT runs once, or never *)
(* if it is cancelled. *)
THEOREM OneShotRunsOnce == Spec => []OneShot
  BY Invariance, PTL DEF IInv

(* Unless a call loses its way, no thread misses the broadcast of the job it *)
(* waits for. *)
THEOREM TimerNoLostWakeup == Spec => []NoSleepBesideOver
  BY Invariance, PTL DEF IInv
=============================================================================

----------------------------- MODULE PoolServer -----------------------------
(***************************************************************************)
(* The pre-forked server of 3.ybx/3.apue/10.ipc/3.socket/2.stream/         *)
(* 2.porcess/3.pool_dyanamic/server.c.  Worker processes accept clients on *)
(* a shared socket and publish in a shared table whether they are idle or  *)
(* busy; after each change they send SIGUSR2 to the parent, which sleeps   *)
(* in sigsuspend, counts the table and forks or kills workers to keep the  *)
(* idle ones between MINSEPARATE and MAXSEPARATE.                          *)
(*                                                                         *)
(* Parent and workers share no lock: each read or write of a state cell,   *)
(* each signal and each fork is a step.  Only the parent touches the pid   *)
(* cells.  SIGUSR2 is blocked but during sigsuspend and, as a standard     *)
(* signal, is pending once however often it was sent.                      *)
(***************************************************************************)
EXTENDS Naturals, FiniteSets

CONSTANTS
    MAXCLIENT, MINSEPARATE, MAXSEPARATE,
    Pid,         \* process identifiers; a free one may be used again
    NONE,        \* the pid -1 of an empty slot
    MaxClients,  \* bound: clients that ever connect
    MaxDeaths    \* bound: workers that exit because a call failed

ASSUME LimitsAssumption ==
    /\ MAXCLIENT \in Nat /\ MINSEPARATE \in 1..MAXCLIENT
    /\ MAXSEPARATE \in MINSEPARATE..MAXCLIENT /\ NONE \notin Pid
    /\ MaxClients \in Nat /\ MaxDeaths \in Nat

VARIABLES
    pid, state,          \* pool_arr; cell MAXCLIENT lies behind its end
    idle_num, busy_num,  \* the parent's counters
    mpc, i,              \* the parent's place in main, and its loop index
    pending,             \* SIGUSR2 is pending for the parent
    wpc, num,            \* each process's place in worker_loop, and its slot
    backlog, clients,    \* connections to accept, and all there ever were
    deaths,              \* history: workers that exited by themselves
    raced                \* history: a cell changed while it was being counted

parent == <<pid, idle_num, busy_num, mpc, i>>
vars == <<parent, state, pending, wpc, num, backlog, clients, deaths, raced>>

Slot == 0..(MAXCLIENT - 1)
Cell == 0..MAXCLIENT

Live(p) == wpc[p] # "none"
Free == {s \in Slot : pid[s] = NONE}

(* main before its loop; mmap zeroes the states, which makes them IDLE. *)
Init ==
    /\ pid = [c \in Cell |-> NONE] /\ state = [c \in Cell |-> "IDLE"]
    /\ idle_num = 0 /\ busy_num = 0
    /\ mpc = "first" /\ i = 0 /\ pending = FALSE
    /\ wpc = [p \in Pid |-> "none"] /\ num = [p \in Pid |-> 0]
    /\ backlog = 0 /\ clients = 0 /\ deaths = 0 /\ raced = FALSE
-----------------------------------------------------------------------------
(* The parent. *)

(* What fork may return: a pid in use nowhere, all of which are alike, or  *)
(* that of a process which has ended but is still in the table.            *)
Known == {pid[c] : c \in Cell}
NewPid ==
    LET dead == {p \in Pid : ~Live(p)}
        fresh == dead \ Known
    IN  (dead \cap Known) \cup (IF fresh = {} THEN {} ELSE {CHOOSE p \in fresh : TRUE})

(* mutant: the counters are not compared with the size of the table *)
add_one_worker_nolimit ==
    LET slot == IF Free = {} THEN MAXCLIENT
                ELSE CHOOSE s \in Free : \A r \in Free : s <= r
    IN  /\ idle_num' = idle_num + 1
        /\ \E p \in NewPid :
             /\ wpc' = [wpc EXCEPT ![p] = "start"]
             /\ num' = [num EXCEPT ![p] = slot]
             /\ pid' = [pid EXCEPT ![slot] = p]
        /\ UNCHANGED busy_num

(* add_one_worker: the first empty slot, or the cell behind the table when *)
(* the counters say that there is one and there is none.                   *)
add_one_worker ==
    /\ IF idle_num + busy_num = MAXCLIENT
         THEN UNCHANGED <<pid, idle_num, wpc, num>>
         ELSE LET slot == IF Free = {} THEN MAXCLIENT
                          ELSE CHOOSE s \in Free : \A r \in Free : s <= r
              IN  /\ idle_num' = idle_num + 1
                  /\ \E p \in NewPid :
                       /\ wpc' = [wpc EXCEPT ![p] = "start"]
                       /\ num' = [num EXCEPT ![p] = slot]
                       /\ pid' = [pid EXCEPT ![slot] = p]
    /\ UNCHANGED busy_num

Exit(p) == wpc' = [wpc EXCEPT ![p] = "none"] /\ num' = [num EXCEPT ![p] = 0]

(* mutant: the slot is emptied, the process is not killed *)
del_one_worker_nokill ==
    LET used == Slot \ Free
    IN  IF used = {} THEN UNCHANGED <<pid, wpc, num>>
        ELSE LET s == CHOOSE s \in used : \A r \in used : s <= r
             IN  pid' = [pid EXCEPT ![s] = NONE] /\ UNCHANGED <<wpc, num>>

(* del_one_worker: SIGTERM to the first worker of the table, idle or not. *)
del_one_worker ==
    LET used == Slot \ Free
    IN  IF used = {} THEN UNCHANGED <<pid, wpc, num>>
        ELSE LET s == CHOOSE s \in used : \A r \in used : s <= r
             IN  Exit(pid[s]) /\ pid' = [pid EXCEPT ![s] = NONE]

workers == <<state, num, backlog, clients, deaths, raced>>

(* One turn of main's first loop, and one of the loop after a pass; the    *)
(* limit of the latter falls while its index rises.                        *)
Adding == \/ mpc = "first" /\ i < MINSEPARATE
          \/ mpc = "add" /\ i + idle_num < MINSEPARATE
Deleting == mpc = "del" /\ i + MAXSEPARATE < idle_num

AddWorker ==
    /\ Adding
    /\ add_one_worker
    /\ i' = i + 1
    /\ UNCHANGED <<mpc, pending, state, backlog, clients, deaths, raced>>

(* fork fails: the parent exits, its workers go on without it. *)
ForkFails ==
    /\ Adding /\ idle_num + busy_num # MAXCLIENT
    /\ mpc' = "exited"
    /\ UNCHANGED <<pid, idle_num, busy_num, i, pending, wpc, workers>>

DelWorker ==
    /\ Deleting
    /\ del_one_worker
    /\ i' = i + 1
    /\ UNCHANGED <<idle_num, busy_num, mpc, pending, state, backlog, clients, deaths, raced>>

(* manage_workers skips the empty slots. *)
NextUsed(k) == LET u == {s \in Slot \ Free : s >= k}
               IN  IF u = {} THEN MAXCLIENT ELSE CHOOSE s \in u : \A r \in u : s <= r

(* mutant: the counters of the last pass are kept *)
Sigsuspend_noreset ==
    /\ mpc \in {"first", "add", "del"} /\ ~Adding /\ ~Deleting /\ pending
    /\ pending' = FALSE
    /\ mpc' = "busy?" /\ i' = NextUsed(0)
    /\ UNCHANGED <<pid, idle_num, busy_num, wpc, workers>>

(* No turn of a loop is left: main sleeps until SIGUSR2, then counts. *)
Sigsuspend ==
    /\ mpc \in {"first", "add", "del"} /\ ~Adding /\ ~Deleting /\ pending
    /\ pending' = FALSE
    /\ mpc' = "busy?" /\ i' = NextUsed(0) /\ idle_num' = 0 /\ busy_num' = 0
    /\ UNCHANGED <<pid, wpc, workers>>

(* manage_workers, one slot: is the process there, is its cell BUSY ...    *)
CountBusy ==
    /\ mpc = "busy?" /\ i < MAXCLIENT
    /\ pid' = IF Live(pid[i]) THEN pid ELSE [pid EXCEPT ![i] = NONE]
    /\ busy_num' = IF state[i] = "BUSY" THEN busy_num + 1 ELSE busy_num
    /\ mpc' = "idle?"
    /\ UNCHANGED <<idle_num, i, pending, wpc, workers>>

(* ... and, read once more, is it IDLE? *)
CountIdle ==
    /\ mpc = "idle?"
    /\ idle_num' = IF state[i] = "IDLE" THEN idle_num + 1 ELSE idle_num
    /\ mpc' = "busy?" /\ i' = NextUsed(i + 1)
    /\ UNCHANGED <<pid, busy_num, pending, wpc, workers>>

(* After the loop that adds workers idle_num is at most MINSEPARATE, so    *)
(* that main then adds or deletes, but never both.                         *)
Counted ==
    /\ mpc = "busy?" /\ i = MAXCLIENT
    /\ i' = 0
    /\ mpc' = IF idle_num < MINSEPARATE THEN "add" ELSE "del"
    /\ UNCHANGED <<pid, idle_num, busy_num, pending, wpc, workers>>

Parent ==
    \/ AddWorker \/ DelWorker \/ Sigsuspend \/ CountBusy \/ CountIdle \/ Counted
-----------------------------------------------------------------------------
(* A worker in worker_loop. *)

Goto(p, from, to) == wpc[p] = from /\ wpc' = [wpc EXCEPT ![p] = to]

Publish(p, s) ==
    /\ state' = [state EXCEPT ![num[p]] = s]
    /\ raced' = (raced \/ (mpc = "idle?" /\ i = num[p] /\ state[i] # s))
    /\ UNCHANGED <<parent, pending, num, backlog, clients, deaths>>

SetIdle(p) == Goto(p, "start", "tell_idle") /\ Publish(p, "IDLE")
SetBusy(p) == Goto(p, "accepted", "tell_busy") /\ Publish(p, "BUSY")

Signal(p) ==
    /\ pending' = TRUE
    /\ UNCHANGED <<parent, state, num, backlog, clients, deaths, raced>>

TellIdle(p) == Goto(p, "tell_idle", "accept") /\ Signal(p)

(* mutant: only idle workers send the signal *)
TellBusy_silent(p) ==
    /\ Goto(p, "tell_busy", "serve")
    /\ UNCHANGED <<parent, state, pending, num, backlog, clients, deaths, raced>>

TellBusy(p) == Goto(p, "tell_busy", "serve") /\ Signal(p)

Accept(p) ==
    /\ Goto(p, "accept", "accepted") /\ backlog > 0
    /\ backlog' = backlog - 1
    /\ UNCHANGED <<parent, state, pending, num, clients, deaths, raced>>

(* accept fails with EAGAIN or EINTR. *)
AcceptAgain(p) ==
    /\ Goto(p, "accept", "start")
    /\ UNCHANGED <<parent, state, pending, num, backlog, clients, deaths, raced>>

(* The stamp is sent, the worker sleeps five seconds and starts again. *)
Serve(p) ==
    /\ Goto(p, "serve", "start")
    /\ UNCHANGED <<parent, state, pending, num, backlog, clients, deaths, raced>>

(* accept, inet_ntop or send fails: exit without a signal to the parent. *)
WorkerDies(p) ==
    /\ wpc[p] \in {"accept", "serve"} /\ Exit(p)
    /\ deaths < MaxDeaths
    /\ deaths' = deaths + 1
    /\ UNCHANGED <<parent, state, pending, backlog, clients, raced>>

WorkerStep(p) == SetIdle(p) \/ TellIdle(p) \/ Accept(p) \/ SetBusy(p) \/ TellBusy(p)

Connect ==
    /\ clients < MaxClients
    /\ clients' = clients + 1 /\ backlog' = backlog + 1
    /\ UNCHANGED <<parent, state, pending, wpc, num, deaths, raced>>

Next ==
    \/ Parent \/ ForkFails \/ Connect
    \/ \E p \in Pid : WorkerStep(p) \/ Serve(p) \/ AcceptAgain(p) \/ WorkerDies(p)

(* The kernel schedules every process.  No call has to fail, no client has *)
(* to come, and send may block for as long as the client likes: Serve is   *)
(* not assumed fair.                                                       *)
Spec == Init /\ [][Next]_vars /\ WF_vars(Parent) /\ \A p \in Pid : WF_vars(WorkerStep(p))
-----------------------------------------------------------------------------
(* Type invariant: counters, indices and cells stay in their ranges.       *)
TypeOK ==
    /\ pid \in [Cell -> Pid \cup {NONE}] /\ state \in [Cell -> {"IDLE", "BUSY"}]
    /\ idle_num \in 0..(MAXCLIENT + 1) /\ busy_num \in 0..MAXCLIENT /\ i \in Cell
    /\ mpc \in {"first", "busy?", "idle?", "add", "del", "exited"}
    /\ wpc \in [Pid -> {"none", "start", "tell_idle", "accept", "accepted", "tell_busy", "serve"}]
    /\ num \in [Pid -> Cell] /\ pending \in BOOLEAN /\ raced \in BOOLEAN
    /\ backlog \in 0..MaxClients /\ clients \in 0..MaxClients /\ deaths \in 0..MaxDeaths

(* A worker writes to the slot that holds its pid, so no two workers share *)
(* a state cell and the parent can reach each of them; the only exception  *)
(* are workers forked for the cell behind the table.                       *)
OwnSlot == \A p \in Pid : Live(p) => num[p] = MAXCLIENT \/ pid[num[p]] = p

(* The cell behind the table is used only if a worker changed its state    *)
(* between the two reads of manage_workers, which counts it twice or not   *)
(* at all; otherwise the test in add_one_worker keeps the index in bounds. *)
OverflowNeedsRace == pid[MAXCLIENT] # NONE => raced

(* The parent's counters stay behind its index while it counts, and it     *)
(* looks at used slots only.                                               *)
Counting ==
    /\ mpc = "first" => busy_num = 0 /\ idle_num = i /\ i <= MINSEPARATE
    /\ mpc = "busy?" => idle_num <= i /\ busy_num <= i /\ (i < MAXCLIENT => pid[i] # NONE)
    /\ mpc = "idle?" => i < MAXCLIENT /\ idle_num <= i /\ busy_num <= i + 1

(* As long as no cell changed between its two reads, manage_workers counts *)
(* each slot it has passed, and add_one_worker each slot it fills: the     *)
(* counters bound the number of used slots, and never exceed the table.    *)
Below(n) == {s \in Slot \ Free : s < n}
BusyHere == IF state[i] = "BUSY" THEN 1 ELSE 0
CountsAccurate ==
    /\ mpc \in {"first", "add"} =>
         Cardinality(Below(MAXCLIENT)) <= idle_num + busy_num /\ idle_num + busy_num <= MAXCLIENT
    /\ mpc = "busy?" =>
         Cardinality(Below(i)) <= idle_num + busy_num /\ idle_num + busy_num <= i
    /\ mpc = "idle?" =>
         /\ Cardinality(Below(i)) + BusyHere <= idle_num + busy_num
         /\ idle_num + busy_num <= i + BusyHere

(* The inductive invariant. *)
IInv == /\ TypeOK /\ OwnSlot /\ Counting /\ backlog <= clients
        /\ ~ raced => pid[MAXCLIENT] = NONE /\ CountsAccurate

(* Once the clients have come, the pool has MINSEPARATE idle workers, or   *)
(* its table is full, however long the others stay busy, although signals  *)
(* coalesce and the counts may be wrong; each worker that exited by itself *)
(* may cost one for good, because the pass that finds it gone counts it.   *)
Spare == {s \in Slot : pid[s] # NONE /\ Live(pid[s]) /\ state[s] = "IDLE"}
PoolRecovers ==
    <>[](\/ Cardinality(Free) <= deaths
         \/ Cardinality(Spare) + deaths >= MINSEPARATE
         \/ mpc = "exited")
=============================================================================

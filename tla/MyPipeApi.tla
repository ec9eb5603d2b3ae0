----------------------------- MODULE MyPipeApi -----------------------------
(***************************************************************************)
(* The pipe under every legal use: each thread registers once for reading, *)
(* writing or both, then reads and writes with any counts, and unregisters *)
(* at any time between two calls.                                          *)
(***************************************************************************)
EXTENDS MyPipe, FiniteSets

CONSTANTS
    Readers, Writers,   \* the roles threads register for
    Counts,             \* the counts passed to mypipe_read and mypipe_write
    MaxItems            \* no mypipe_write begins after that many items

ASSUME ApiAssumption ==
    /\ Thread = Readers \cup Writers /\ IsFiniteSet(Thread)
    /\ Counts \subseteq Nat
    /\ MaxItems \in Nat

VARIABLE life           \* "new", "open" (registered) or "closed"

apivars == <<pipevars, life>>

ApiInit == PipeInit /\ life = [t \in Thread |-> "new"]

opmap(t) == {o \in {"READ", "WRITE"} : IF o = "READ" THEN t \in Readers ELSE t \in Writers}

Open(t) ==
    /\ life[t] = "new"
    /\ mypipe_register(t, opmap(t))
    /\ life' = [life EXCEPT ![t] = "open"]

Close(t) ==
    /\ life[t] = "open"
    /\ mypipe_unregister(t, opmap(t))
    /\ life' = [life EXCEPT ![t] = "closed"]

Read(t, n) ==
    /\ t \in Readers /\ life[t] = "open"
    /\ mypipe_read(t, n)
    /\ UNCHANGED life

Write(t, n) ==
    /\ t \in Writers /\ life[t] = "open"
    /\ Len(log) < MaxItems
    /\ mypipe_write(t, n)
    /\ UNCHANGED life

(* A thread goes on with the call it is in; it may write any item. *)
Continue(t) ==
    /\ \/ RegisterAgain(t) \/ ReadTest(t) \/ ReadLoop(t) \/ WriteTest(t)
       \/ \E v \in Item : WriteLoop(t, v)
    /\ UNCHANGED life

ApiWakeup(t) == Spurious(t) /\ UNCHANGED life

ApiNext ==
    \E t \in Thread :
        \/ Open(t) \/ Close(t) \/ Continue(t) \/ ApiWakeup(t)
        \/ \E n \in Counts : Read(t, n) \/ Write(t, n)

ApiSpec == ApiInit /\ [][ApiNext]_apivars

-----------------------------------------------------------------------------

ApiTypeOK ==
    /\ PipeTypeOK
    /\ life \in [Thread -> {"new", "open", "closed"}]

(* A thread that waits in mypipe_read waits for a writer that really is *)
(* registered, and a waiting mypipe_write for such a reader: nobody waits for *)
(* a partner that has left. *)
PartnerExists ==
    \A t \in waiters : mut = NONE =>
        /\ op[t] = "read" => \E u \in Writers : life[u] = "open"
        /\ op[t] = "write" => \E u \in Readers : life[u] = "open"

(* The counters of the pipe are the numbers of threads registered for each *)
(* role. *)
Registered(role) == {t \in role : life[t] = "open"}
CountersExact ==
    count_rd = Cardinality(Registered(Readers)) /\ count_wr = Cardinality(Registered(Writers))

(* The items in the ring, oldest first: the refinement mapping. *)
Contents == [j \in 1 .. Used |-> data[CellOf(j)]]

Abstract == INSTANCE BoundedFifo WITH Capacity <- MAXSIZE - 1, q <- Contents

(* The ring of queue.c, driven by mypipe_read and mypipe_write of any number *)
(* of threads, implements a bounded first-in-first-out queue. *)
ImplementsFifo == Abstract!Spec

(* The inductive invariant. *)
ApiIInv == ApiTypeOK /\ RingHoldsLog /\ Fifo /\ OneCopier /\ SleepersHaveReason /\ CountersExact
=============================================================================

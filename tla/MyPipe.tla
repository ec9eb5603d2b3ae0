------------------------------- MODULE MyPipe -------------------------------
(***************************************************************************)
(* The pipe between threads (26.mypipe/mypipe.c) over its ring buffer      *)
(* (26.mypipe/queue.c).  Readers and writers register; a read waits while  *)
(* the queue is empty and there is a writer, a write waits while it is     *)
(* full and there is a reader; whatever changes broadcasts me->cond.       *)
(*                                                                         *)
(* A thread inside a call is described by op[t].  The copy loops of read   *)
(* and write are one step per element with me->mut held in between.        *)
(* "log" and "got" are history variables: all the items ever enqueued and  *)
(* dequeued, in that order.                                                *)
(***************************************************************************)
EXTENDS Integers, Sequences

CONSTANTS
    Thread,     \* the threads that use the pipe
    Item,       \* what they write into it
    MAXSIZE,    \* the length of the ring; it holds MAXSIZE - 1 items
    NONE        \* no thread; also an unused cell of the ring

ASSUME PipeAssumption == MAXSIZE \in Nat \ {0, 1} /\ NONE \notin Thread

Cell == 0 .. MAXSIZE - 1

VARIABLES
    data, head, tail,       \* me->queue
    count_rd, count_wr,     \* the readers and writers registered
    mut,                    \* the thread that holds me->mut, or NONE
    waiters,                \* the threads asleep on me->cond
    op,                     \* the call each thread is in
    cnt,                    \* the argument `count' of that call
    i,                      \* its loop variable, and at its return its result
    log, got                \* history, see above

queuevars == <<data, head, tail, log, got>>
countvars == <<count_rd, count_wr>>
callvars  == <<op, cnt, i>>
pipevars  == <<queuevars, countvars, mut, waiters, callvars>>

(* mypipe_init *)
PipeInit ==
    /\ data = [c \in Cell |-> NONE] /\ head = 0 /\ tail = 0
    /\ count_rd = 0 /\ count_wr = 0
    /\ mut = NONE /\ waiters = {}
    /\ op = [t \in Thread |-> "none"]
    /\ cnt = [t \in Thread |-> 0]
    /\ i = [t \in Thread |-> 0]
    /\ log = <<>> /\ got = <<>>

-----------------------------------------------------------------------------
(* queue.c *)

Succ(c) == (c + 1) % MAXSIZE

q_isempty == head = tail

(* Mutant of q_isfull: every cell is used, so that full looks like empty. *)
q_isfull_toolate == FALSE

q_isfull == Succ(tail) = head

(* q_enqueue, when there is room *)
q_enqueue(v) ==
    /\ ~ q_isfull
    /\ tail' = Succ(tail)
    /\ data' = [data EXCEPT ![Succ(tail)] = v]
    /\ log' = Append(log, v)
    /\ UNCHANGED <<head, got>>

(* q_dequeue, when there is an item *)
q_dequeue ==
    /\ ~ q_isempty
    /\ head' = Succ(head)
    /\ got' = Append(got, data[Succ(head)])
    /\ UNCHANGED <<data, tail, log>>

-----------------------------------------------------------------------------
(* mypipe_register and mypipe_unregister; opmap is a set of "READ", "WRITE".*)
(* (The test of opmap at their beginning, which ORs where it should AND,    *)
(* never fails.)                                                            *)

One(b) == IF b THEN 1 ELSE 0

(* The loop condition of mypipe_register. *)
Alone == count_rd <= 0 \/ count_wr <= 0

(* Count the caller, wake everyone, and return or sleep. *)
mypipe_register(t, opmap) ==
    /\ op[t] = "none" /\ mut = NONE
    /\ count_rd' = count_rd + One("READ" \in opmap)
    /\ count_wr' = count_wr + One("WRITE" \in opmap)
    /\ waiters' = IF Alone' THEN {t} ELSE {}
    /\ op' = [op EXCEPT ![t] = IF Alone' THEN "register" ELSE "none"]
    /\ UNCHANGED <<queuevars, mut, cnt, i>>

(* A registering thread tests its condition after a wakeup. *)
RegisterAgain(t) ==
    /\ op[t] = "register" /\ t \notin waiters /\ mut = NONE
    /\ IF Alone
         THEN waiters' = waiters \cup {t} /\ UNCHANGED op
         ELSE op' = [op EXCEPT ![t] = "none"] /\ UNCHANGED waiters
    /\ UNCHANGED <<queuevars, countvars, mut, cnt, i>>

(* Mutant of mypipe_unregister: pthread_cond_broadcast forgotten. *)
mypipe_unregister_nobroadcast(t, opmap) ==
    /\ op[t] = "none" /\ mut = NONE
    /\ count_rd' = count_rd - One("READ" \in opmap)
    /\ count_wr' = count_wr - One("WRITE" \in opmap)
    /\ UNCHANGED <<queuevars, mut, waiters, callvars>>

mypipe_unregister(t, opmap) ==
    /\ op[t] = "none" /\ mut = NONE
    /\ count_rd' = count_rd - One("READ" \in opmap)
    /\ count_wr' = count_wr - One("WRITE" \in opmap)
    /\ waiters' = {}
    /\ UNCHANGED <<queuevars, mut, callvars>>

-----------------------------------------------------------------------------
(* mypipe_read and mypipe_write *)

(* A call begins: t will wait for me->mut. *)
Call(t, what, count) ==
    /\ op[t] = "none"
    /\ op' = [op EXCEPT ![t] = what]
    /\ cnt' = [cnt EXCEPT ![t] = count]
    /\ i' = [i EXCEPT ![t] = 0]
    /\ UNCHANGED <<queuevars, countvars, mut, waiters>>

mypipe_read(t, count) == Call(t, "read", count)

mypipe_write(t, count) == Call(t, "write", count)

(* t has just locked me->mut, first or after a condition wait. *)
Locks(t, what) == op[t] = what /\ t \notin waiters /\ mut = NONE

(* pthread_cond_wait *)
Wait(t) ==
    /\ waiters' = waiters \cup {t}
    /\ UNCHANGED <<queuevars, countvars, mut, callvars>>

(* return 0 (i is still 0) *)
ReturnZero(t) ==
    /\ op' = [op EXCEPT ![t] = "none"]
    /\ UNCHANGED <<queuevars, countvars, mut, waiters, cnt, i>>

(* on to the copy loop, me->mut being held *)
StartLoop(t, loop) ==
    /\ mut' = t
    /\ op' = [op EXCEPT ![t] = loop]
    /\ UNCHANGED <<queuevars, countvars, waiters, cnt, i>>

(* one more element copied *)
Copied(t) ==
    /\ i' = [i EXCEPT ![t] = @ + 1]
    /\ UNCHANGED <<countvars, mut, waiters, op, cnt>>

(* Mutant of LoopEnd: pthread_cond_broadcast forgotten. *)
LoopEnd_nobroadcast(t) ==
    /\ mut' = NONE
    /\ op' = [op EXCEPT ![t] = "none"]
    /\ UNCHANGED <<queuevars, countvars, waiters, cnt, i>>

(* the loop is left: broadcast, unlock, return i *)
LoopEnd(t) ==
    /\ mut' = NONE /\ waiters' = {}
    /\ op' = [op EXCEPT ![t] = "none"]
    /\ UNCHANGED <<queuevars, countvars, cnt, i>>

ReadTest(t) ==
    /\ Locks(t, "read")
    /\ \/ q_isempty /\ count_wr > 0 /\ Wait(t)
       \/ q_isempty /\ count_wr <= 0 /\ ReturnZero(t)
       \/ ~ q_isempty /\ StartLoop(t, "reading")

ReadLoop(t) ==
    /\ op[t] = "reading"
    /\ \/ i[t] < cnt[t] /\ q_dequeue /\ Copied(t)
       \/ (i[t] >= cnt[t] \/ q_isempty) /\ LoopEnd(t)

WriteTest(t) ==
    /\ Locks(t, "write")
    /\ \/ q_isfull /\ count_rd > 0 /\ Wait(t)
       \/ q_isfull /\ count_rd <= 0 /\ ReturnZero(t)
       \/ ~ q_isfull /\ StartLoop(t, "writing")

(* v is the caller's buf[i]. *)
WriteLoop(t, v) ==
    /\ op[t] = "writing"
    /\ \/ i[t] < cnt[t] /\ q_enqueue(v) /\ Copied(t)
       \/ (i[t] >= cnt[t] \/ q_isfull) /\ LoopEnd(t)

(* pthread_cond_wait returns spuriously. *)
Spurious(t) ==
    /\ t \in waiters
    /\ waiters' = waiters \ {t}
    /\ UNCHANGED <<queuevars, countvars, mut, callvars>>

-----------------------------------------------------------------------------
(* Properties *)

PipeTypeOK ==
    /\ head \in Cell /\ tail \in Cell
    /\ data \in [Cell -> Item \cup {NONE}]
    /\ log \in Seq(Item) /\ got \in Seq(Item)
    /\ count_rd \in Int /\ count_wr \in Int
    /\ mut \in Thread \cup {NONE}
    /\ waiters \subseteq Thread
    /\ op \in [Thread -> {"none", "register", "read", "reading", "write", "writing"}]
    /\ cnt \in [Thread -> Nat]
    /\ i \in [Thread -> Nat]

(* How many items the ring holds, and the cell of the j-th of them. *)
Used == IF head <= tail THEN tail - head ELSE tail - head + MAXSIZE
CellOf(j) == IF head + j < MAXSIZE THEN head + j ELSE head + j - MAXSIZE

(* The ring of queue.c holds exactly the items written and not yet read, in *)
(* the order of the writes, also after it has wrapped round. *)
RingHoldsLog ==
    /\ Len(log) = Len(got) + Used
    /\ \A j \in 1 .. Used : data[CellOf(j)] = log[Len(got) + j]

(* First in, first out, nothing lost, nothing read twice: what has been read *)
(* by all readers together (mypipe_read) is a prefix of what has been *)
(* written (mypipe_write). *)
Fifo == \A j \in 1 .. Len(got) : got[j] = log[j]

(* me->mut protects the copy loops: one thread at a time is in one. *)
OneCopier ==
    \A t \in Thread : op[t] \in {"reading", "writing"} <=> mut = t

(* Who sleeps has a reason that still holds: a registering thread is alone, *)
(* a reader finds nothing and waits for a writer, a writer finds the ring *)
(* full and waits for a reader.  No broadcast of mypipe.c is missing. *)
SleepersHaveReason ==
    mut = NONE =>
      \A t \in waiters :
        \/ op[t] = "register" /\ Alone
        \/ op[t] = "read" /\ q_isempty /\ count_wr > 0
        \/ op[t] = "write" /\ q_isfull /\ count_rd > 0
=============================================================================

---------------------------- MODULE MyPipeProofs ----------------------------
(***************************************************************************)
(* The pipe delivers first in, first out, for any number of threads, any   *)
(* size of the ring, any items and any counts.                             *)
(***************************************************************************)
EXTENDS MyPipeApi, MyPipeMain, FiniteSetTheorems, TLAPS

(* Succ without the remainder. *)
LEMMA SuccLemma ==
  ASSUME NEW c \in Cell
  PROVE  /\ Succ(c) \in Cell
         /\ Succ(c) = IF c = MAXSIZE - 1 THEN 0 ELSE c + 1
<1> USE PipeAssumption
<1>1. CASE c = MAXSIZE - 1
  BY <1>1 DEF Cell, Succ
<1>2. CASE c # MAXSIZE - 1
  BY <1>2 DEF Cell, Succ
<1> QED  BY <1>1, <1>2

(* What the ring needs to know of itself. *)
Ring == /\ head \in Cell /\ tail \in Cell
        /\ data \in [Cell -> Item \cup {NONE}]
        /\ log \in Seq(Item) /\ got \in Seq(Item)
        /\ RingHoldsLog /\ Fifo

(* The number of items is between 0 and MAXSIZE - 1, and their cells are *)
(* cells of the ring. *)
LEMMA UsedLemma ==
  ASSUME head \in Cell, tail \in Cell
  PROVE  /\ Used \in 0 .. MAXSIZE - 1
         /\ \A j \in 1 .. Used : CellOf(j) \in Cell
         /\ (Used = 0 <=> q_isempty)
         /\ (Used = MAXSIZE - 1 <=> q_isfull)
<1> USE PipeAssumption
<1>1. Used \in 0 .. MAXSIZE - 1 /\ (Used = 0 <=> q_isempty)
  BY DEF Used, Cell, q_isempty
<1>2. \A j \in 1 .. Used : CellOf(j) \in Cell
  BY <1>1 DEF CellOf, Cell
<1>3. Used = MAXSIZE - 1 <=> q_isfull
  BY SuccLemma DEF Used, Cell, q_isfull
<1> QED  BY <1>1, <1>2, <1>3

(* q_enqueue puts the item behind the others and touches none of them. *)
LEMMA EnqueueKeeps ==
  ASSUME NEW v \in Item, Ring, q_enqueue(v)
  PROVE  /\ Ring'
         /\ Used' = Used + 1
         /\ \A j \in 1 .. Used : data'[CellOf(j)'] = data[CellOf(j)]
<1> USE PipeAssumption
<1>1. /\ head \in Cell /\ tail \in Cell /\ head' = head /\ tail' = Succ(tail) /\ tail' \in Cell
      /\ data' = [data EXCEPT ![Succ(tail)] = v] /\ log' = Append(log, v) /\ got' = got
      /\ tail' = IF tail = MAXSIZE - 1 THEN 0 ELSE tail + 1
  BY SuccLemma DEF Ring, q_enqueue
<1>2. Used \in 0 .. MAXSIZE - 2
  BY UsedLemma DEF Ring, q_enqueue
<1>3. Used' = Used + 1
  BY <1>1, <1>2 DEF Used, Cell, q_enqueue, q_isfull
<1>4. \A j \in 1 .. Used : CellOf(j)' = CellOf(j) /\ CellOf(j) \in Cell /\ CellOf(j) # Succ(tail)
  BY <1>1, <1>2 DEF CellOf, Used, Cell
<1>5. \A j \in Nat : j = Used + 1 => CellOf(j)' = Succ(tail)
  BY <1>1, <1>2 DEF CellOf, Used, Cell
<1>6. data' \in [Cell -> Item \cup {NONE}] /\ data'[Succ(tail)] = v
      /\ \A c \in Cell : c # Succ(tail) => data'[c] = data[c]
  BY <1>1 DEF Ring
<1>7. log' \in Seq(Item) /\ Len(log') = Len(log) + 1 /\ log'[Len(log) + 1] = v
      /\ \A j \in 1 .. Len(log) : log'[j] = log[j]
  BY <1>1 DEF Ring
<1>8. Len(log) = Len(got) + Used /\ Len(got) \in Nat /\ Len(log) \in Nat
  BY <1>2 DEF Ring, RingHoldsLog
<1>9. \A j \in 1 .. Used : data'[CellOf(j)'] = data[CellOf(j)]
  BY <1>4, <1>6
<1>10. \A j \in 1 .. Used' : data'[CellOf(j)'] = log'[Len(got) + j]
  <2> SUFFICES ASSUME NEW j \in 1 .. Used + 1 PROVE data'[CellOf(j)'] = log'[Len(got) + j]
    BY <1>3
  <2>1. CASE j = Used + 1
    <3>1. CellOf(j)' = Succ(tail)
      BY <2>1, <1>2, <1>5
    <3>2. Len(got) + j = Len(log) + 1
      BY <2>1, <1>2, <1>8
    <3> QED  BY <3>1, <3>2, <1>6, <1>7
  <2>2. CASE j \in 1 .. Used
    <3>1. data[CellOf(j)] = log[Len(got) + j]
      BY <2>2 DEF Ring, RingHoldsLog
    <3>2. Len(got) + j \in 1 .. Len(log)
      BY <2>2, <1>2, <1>8
    <3> QED  BY <2>2, <3>1, <3>2, <1>7, <1>9
  <2> QED  BY <2>1, <2>2, <1>2
<1>11. RingHoldsLog'
  BY <1>1, <1>2, <1>3, <1>7, <1>8, <1>10 DEF RingHoldsLog
<1>12. Fifo'
  BY <1>1, <1>2, <1>7, <1>8 DEF Ring, Fifo
<1> QED  BY <1>1, <1>3, <1>6, <1>7, <1>9, <1>11, <1>12 DEF Ring

(* q_dequeue takes the oldest item. *)
LEMMA DequeueKeeps ==
  ASSUME Ring, q_dequeue
  PROVE  /\ Ring'
         /\ Used' = Used - 1 /\ Used \in Nat
         /\ \A j \in 1 .. Used - 1 : data'[CellOf(j)'] = data[CellOf(j + 1)]
<1> USE PipeAssumption
<1>1. /\ head \in Cell /\ tail \in Cell /\ tail' = tail /\ head' = Succ(head) /\ head' \in Cell
      /\ data' = data /\ log' = log /\ got' = Append(got, data[Succ(head)])
      /\ head' = IF head = MAXSIZE - 1 THEN 0 ELSE head + 1
  BY SuccLemma DEF Ring, q_dequeue
<1>2. Used \in 1 .. MAXSIZE - 1
  BY UsedLemma DEF Ring, q_dequeue
<1>3. Used' = Used - 1
  BY <1>1, <1>2 DEF Used, Cell, q_dequeue, q_isempty
<1>4. \A j \in 1 .. Used - 1 : CellOf(j)' = CellOf(j + 1)
  BY <1>1, <1>2 DEF CellOf, Used, Cell
<1>5. CellOf(1) = Succ(head)
  BY <1>1 DEF CellOf, Cell
<1>6. Len(log) = Len(got) + Used /\ Len(got) \in Nat /\ Len(log) \in Nat
  BY <1>2 DEF Ring, RingHoldsLog
<1>7. data[Succ(head)] = log[Len(got) + 1]
  BY <1>2, <1>5 DEF Ring, RingHoldsLog
<1>8. log[Len(got) + 1] \in Item
  BY <1>2, <1>6 DEF Ring
<1>9. got' \in Seq(Item) /\ Len(got') = Len(got) + 1 /\ got'[Len(got) + 1] = log[Len(got) + 1]
      /\ \A j \in 1 .. Len(got) : got'[j] = got[j]
  BY <1>1, <1>7, <1>8 DEF Ring
<1>10. \A j \in 1 .. Used' : data'[CellOf(j)'] = log'[Len(got') + j]
  <2> SUFFICES ASSUME NEW j \in 1 .. Used - 1 PROVE data[CellOf(j + 1)] = log[Len(got) + 1 + j]
    BY <1>1, <1>3, <1>4, <1>9
  <2>1. j + 1 \in 1 .. Used
    BY <1>2
  <2>2. data[CellOf(j + 1)] = log[Len(got) + (j + 1)]
    BY <2>1 DEF Ring, RingHoldsLog
  <2> QED  BY <2>2, <1>6
<1>11. RingHoldsLog'
  BY <1>1, <1>2, <1>3, <1>6, <1>9, <1>10 DEF RingHoldsLog
<1>12. Fifo'
  BY <1>1, <1>6, <1>9 DEF Ring, Fifo
<1>13. Ring'
  BY <1>1, <1>9, <1>11, <1>12 DEF Ring
<1>14. \A j \in 1 .. Used - 1 : data'[CellOf(j)'] = data[CellOf(j + 1)]
  BY <1>1, <1>4
<1> QED  BY <1>2, <1>3, <1>13, <1>14

(* The initial states satisfy the inductive invariant. *)
LEMMA PipeInitInv == ApiInit => ApiIInv
<1> SUFFICES ASSUME ApiInit PROVE ApiIInv
  OBVIOUS
<1> USE PipeAssumption DEF ApiInit, PipeInit
<1>1. ApiTypeOK
  BY DEF ApiTypeOK, PipeTypeOK, Cell
<1>2. Used = 0 /\ Len(log) = 0 /\ Len(got) = 0
  BY DEF Used
<1>3. RingHoldsLog /\ Fifo
  BY <1>2 DEF RingHoldsLog, Fifo
<1>4. OneCopier /\ SleepersHaveReason
  BY DEF OneCopier, SleepersHaveReason
<1>5. Registered(Readers) = {} /\ Registered(Writers) = {}
  BY ApiAssumption DEF Registered
<1>6. CountersExact
  BY <1>5, FS_EmptySet DEF CountersExact
<1> QED  BY <1>1, <1>3, <1>4, <1>6 DEF ApiIInv

(* Steps that leave the queue alone keep what is known of it. *)
LEMMA RingStutter == ASSUME Ring, UNCHANGED queuevars PROVE Ring' /\ Used' = Used
BY DEF Ring, queuevars, RingHoldsLog, Fifo, Used, CellOf

(* Every step keeps what is known of the queue. *)
LEMMA RingNext == ApiIInv /\ [ApiNext]_apivars => Ring'
<1> SUFFICES ASSUME ApiIInv, [ApiNext]_apivars PROVE Ring'
  OBVIOUS
<1>0. Ring
  BY DEF ApiIInv, ApiTypeOK, PipeTypeOK, Ring
<1>1. CASE UNCHANGED queuevars
  BY <1>0, <1>1, RingStutter
<1>2. ASSUME NEW v \in Item, q_enqueue(v) PROVE Ring'
  BY <1>0, <1>2, EnqueueKeeps
<1>3. CASE q_dequeue
  BY <1>0, <1>3, DequeueKeeps
<1>4. CASE UNCHANGED apivars
  BY <1>1, <1>4 DEF apivars, pipevars
<1>5. ASSUME NEW t \in Thread, Continue(t) PROVE Ring'
  <2>1. CASE RegisterAgain(t) \/ ReadTest(t) \/ WriteTest(t)
    BY <1>1, <2>1 DEF RegisterAgain, ReadTest, WriteTest, Wait, ReturnZero, StartLoop
  <2>2. CASE ReadLoop(t)
    BY <1>1, <1>3, <2>2 DEF ReadLoop, LoopEnd
  <2>3. ASSUME NEW v \in Item, WriteLoop(t, v) PROVE Ring'
    BY <1>1, <1>2, <2>3 DEF WriteLoop, LoopEnd
  <2> QED  BY <1>5, <2>1, <2>2, <2>3 DEF Continue
<1>6. ASSUME NEW t \in Thread, Open(t) \/ Close(t) \/ ApiWakeup(t) PROVE Ring'
  BY <1>1, <1>6 DEF Open, Close, ApiWakeup, mypipe_register, mypipe_unregister, Spurious
<1>7. ASSUME NEW t \in Thread, NEW n \in Counts, Read(t, n) \/ Write(t, n) PROVE Ring'
  BY <1>1, <1>7 DEF Read, Write, mypipe_read, mypipe_write, Call
<1> QED  BY <1>4, <1>5, <1>6, <1>7 DEF ApiNext

(* What is known of the calls and of the sleepers. *)
Calls == /\ count_rd \in Int /\ count_wr \in Int
         /\ mut \in Thread \cup {NONE}
         /\ waiters \subseteq Thread
         /\ op \in [Thread -> {"none", "register", "read", "reading", "write", "writing"}]
         /\ cnt \in [Thread -> Nat]
         /\ i \in [Thread -> Nat]
         /\ life \in [Thread -> {"new", "open", "closed"}]
         /\ OneCopier /\ SleepersHaveReason

(* Every step keeps what is known of the calls. *)
LEMMA CallsNext == ApiIInv /\ [ApiNext]_apivars => Calls'
<1> SUFFICES ASSUME ApiIInv, [ApiNext]_apivars PROVE Calls'
  OBVIOUS
<1> USE PipeAssumption, ApiAssumption
<1>0. Calls
  BY DEF ApiIInv, ApiTypeOK, PipeTypeOK, Calls
<1>1. ASSUME NEW t \in Thread, Open(t) PROVE Calls'
  <2>1. count_rd' \in Int /\ count_wr' \in Int
    BY <1>0, <1>1 DEF Calls, Open, mypipe_register, One
  <2>2. /\ waiters' = IF Alone' THEN {t} ELSE {}
        /\ op' = [op EXCEPT ![t] = IF Alone' THEN "register" ELSE "none"]
        /\ op[t] = "none" /\ mut = NONE /\ UNCHANGED <<mut, cnt, i>>
        /\ life' = [life EXCEPT ![t] = "open"]
    BY <1>1 DEF Open, mypipe_register
  <2>3. OneCopier'
    BY <1>0, <2>2 DEF Calls, OneCopier
  <2>4. SleepersHaveReason'
    BY <1>0, <2>2 DEF Calls, SleepersHaveReason
  <2> QED  BY <1>0, <2>1, <2>2, <2>3, <2>4 DEF Calls
<1>2. ASSUME NEW t \in Thread, Close(t) PROVE Calls'
  <2>1. count_rd' \in Int /\ count_wr' \in Int
    BY <1>0, <1>2 DEF Calls, Close, mypipe_unregister, One
  <2>2. waiters' = {} /\ UNCHANGED <<mut, op, cnt, i>> /\ life' = [life EXCEPT ![t] = "closed"]
    BY <1>2 DEF Close, mypipe_unregister, callvars
  <2> QED  BY <1>0, <2>1, <2>2 DEF Calls, OneCopier, SleepersHaveReason
<1>3. ASSUME NEW t \in Thread, ApiWakeup(t) PROVE Calls'
  BY <1>0, <1>3 DEF Calls, ApiWakeup, Spurious, OneCopier, SleepersHaveReason, countvars, callvars,
     queuevars, Alone, q_isempty, q_isfull, Succ
<1>4. ASSUME NEW t \in Thread, NEW n \in Counts, Read(t, n) \/ Write(t, n) PROVE Calls'
  <2>1. /\ op[t] = "none" /\ UNCHANGED <<queuevars, countvars, mut, waiters, life>>
        /\ \E what \in {"read", "write"} : op' = [op EXCEPT ![t] = what]
        /\ cnt' = [cnt EXCEPT ![t] = n] /\ i' = [i EXCEPT ![t] = 0]
    BY <1>4 DEF Read, Write, mypipe_read, mypipe_write, Call
  <2>2. OneCopier'
    BY <1>0, <2>1 DEF Calls, OneCopier
  <2>3. SleepersHaveReason'
    <3> SUFFICES ASSUME mut = NONE, NEW u \in waiters PROVE
             \/ op'[u] = "register" /\ Alone
             \/ op'[u] = "read" /\ q_isempty /\ count_wr > 0
             \/ op'[u] = "write" /\ q_isfull /\ count_rd > 0
      BY <2>1 DEF SleepersHaveReason, Alone, q_isempty, q_isfull, Succ, queuevars, countvars
    <3>1. \/ op[u] = "register" /\ Alone
          \/ op[u] = "read" /\ q_isempty /\ count_wr > 0
          \/ op[u] = "write" /\ q_isfull /\ count_rd > 0
      BY <1>0 DEF Calls, SleepersHaveReason
    <3>2. u # t
      BY <2>1, <3>1
    <3> QED  BY <1>0, <2>1, <3>1, <3>2 DEF Calls
  <2>4. op' \in [Thread -> {"none", "register", "read", "reading", "write", "writing"}]
        /\ cnt' \in [Thread -> Nat] /\ i' \in [Thread -> Nat]
    BY <1>0, <2>1 DEF Calls
  <2> QED  BY <1>0, <2>1, <2>2, <2>3, <2>4 DEF Calls, countvars
<1>5. ASSUME NEW t \in Thread, Continue(t) PROVE Calls'
  <2>1. UNCHANGED life
    BY <1>5 DEF Continue
  <2>2. ASSUME UNCHANGED <<queuevars, countvars>>, t \notin waiters, mut = NONE,
               NEW Sleep \in {"register", "read", "write"}, op[t] = Sleep,
               UNCHANGED <<mut, op, cnt, i>>, waiters' = waiters \cup {t},
               \/ Sleep = "register" /\ Alone
               \/ Sleep = "read" /\ q_isempty /\ count_wr > 0
               \/ Sleep = "write" /\ q_isfull /\ count_rd > 0
        PROVE  Calls'
    BY <1>0, <2>1, <2>2 DEF Calls, OneCopier, SleepersHaveReason, queuevars, countvars, Alone,
       q_isempty, q_isfull, Succ
  <2>3. ASSUME UNCHANGED <<queuevars, countvars, mut, waiters, cnt, i>>, t \notin waiters,
               mut = NONE, op' = [op EXCEPT ![t] = "none"]
        PROVE  Calls'
    BY <1>0, <2>1, <2>3 DEF Calls, OneCopier, SleepersHaveReason, queuevars, countvars, Alone,
       q_isempty, q_isfull, Succ
  <2>4. ASSUME UNCHANGED <<queuevars, countvars, waiters, cnt, i>>, mut = NONE, mut' = t,
               NEW loop \in {"reading", "writing"}, op' = [op EXCEPT ![t] = loop]
        PROVE  Calls'
    BY <1>0, <2>1, <2>4 DEF Calls, OneCopier, SleepersHaveReason, countvars
  <2>5. ASSUME op[t] \in {"reading", "writing"}, Copied(t) PROVE Calls'
    <3>1. mut = t /\ mut # NONE
      BY <1>0, <2>5 DEF Calls, OneCopier
    <3> QED  BY <1>0, <2>1, <2>5, <3>1 DEF Calls, Copied, OneCopier, SleepersHaveReason, countvars
  <2>6. ASSUME op[t] \in {"reading", "writing"}, LoopEnd(t) PROVE Calls'
    <3>1. mut = t
      BY <1>0, <2>6 DEF Calls, OneCopier
    <3> QED  BY <1>0, <2>1, <2>6, <3>1 DEF Calls, LoopEnd, OneCopier, SleepersHaveReason, countvars
  <2>7. CASE RegisterAgain(t)
    <3>1. CASE Alone
      BY <2>2, <2>7, <3>1 DEF RegisterAgain
    <3>2. CASE ~ Alone
      BY <2>3, <2>7, <3>2 DEF RegisterAgain
    <3> QED  BY <3>1, <3>2
  <2>8. CASE ReadTest(t)
    <3>1. CASE q_isempty /\ count_wr > 0 /\ Wait(t)
      BY <2>2, <2>8, <3>1 DEF ReadTest, Locks, Wait, callvars
    <3>2. CASE q_isempty /\ count_wr <= 0 /\ ReturnZero(t)
      BY <2>3, <2>8, <3>2 DEF ReadTest, Locks, ReturnZero
    <3>3. CASE ~ q_isempty /\ StartLoop(t, "reading")
      BY <2>4, <2>8, <3>3 DEF ReadTest, Locks, StartLoop
    <3> QED  BY <2>8, <3>1, <3>2, <3>3 DEF ReadTest
  <2>9. CASE WriteTest(t)
    <3>1. CASE q_isfull /\ count_rd > 0 /\ Wait(t)
      BY <2>2, <2>9, <3>1 DEF WriteTest, Locks, Wait, callvars
    <3>2. CASE q_isfull /\ count_rd <= 0 /\ ReturnZero(t)
      BY <2>3, <2>9, <3>2 DEF WriteTest, Locks, ReturnZero
    <3>3. CASE ~ q_isfull /\ StartLoop(t, "writing")
      BY <2>4, <2>9, <3>3 DEF WriteTest, Locks, StartLoop
    <3> QED  BY <2>9, <3>1, <3>2, <3>3 DEF WriteTest
  <2>10. CASE ReadLoop(t)
    BY <2>5, <2>6, <2>10 DEF ReadLoop
  <2>11. ASSUME NEW v \in Item, WriteLoop(t, v) PROVE Calls'
    BY <2>5, <2>6, <2>11 DEF WriteLoop
  <2> QED  BY <1>5, <2>7, <2>8, <2>9, <2>10, <2>11 DEF Continue
<1>6. CASE UNCHANGED apivars
  BY <1>0, <1>6 DEF apivars, pipevars, Calls, OneCopier, SleepersHaveReason, queuevars, countvars,
     callvars, Alone, q_isempty, q_isfull, Succ
<1> QED  BY <1>1, <1>2, <1>3, <1>4, <1>5, <1>6 DEF ApiNext

(* A thread that registers is counted once for each of its roles, ... *)
LEMMA OpenCounts ==
  ASSUME NEW role \in SUBSET Thread, NEW t \in Thread, ApiTypeOK,
         life[t] # "open", life' = [life EXCEPT ![t] = "open"]
  PROVE  Cardinality(Registered(role))' = Cardinality(Registered(role)) + One(t \in role)
<1>1. Registered(role) \subseteq Thread /\ t \notin Registered(role)
  BY DEF Registered
<1>2. IsFiniteSet(Registered(role))
  BY <1>1, ApiAssumption, FS_Subset
<1>3. Cardinality(Registered(role)) \in Nat
  BY <1>2, FS_CardinalityType
<1>4. CASE t \in role
  <2>1. Registered(role)' = Registered(role) \cup {t}
    BY <1>4 DEF Registered, ApiTypeOK
  <2> QED  BY <1>1, <1>2, <1>4, <2>1, FS_AddElement DEF One
<1>5. CASE t \notin role
  <2>1. Registered(role)' = Registered(role)
    BY <1>5 DEF Registered, ApiTypeOK
  <2> QED  BY <1>3, <1>5, <2>1 DEF One
<1> QED  BY <1>4, <1>5

(* ... and as often discounted when it unregisters. *)
LEMMA CloseCounts ==
  ASSUME NEW role \in SUBSET Thread, NEW t \in Thread, ApiTypeOK,
         life[t] = "open", life' = [life EXCEPT ![t] = "closed"]
  PROVE  Cardinality(Registered(role))' = Cardinality(Registered(role)) - One(t \in role)
<1>1. Registered(role) \subseteq Thread
  BY DEF Registered
<1>2. IsFiniteSet(Registered(role))
  BY <1>1, ApiAssumption, FS_Subset
<1>3. Cardinality(Registered(role)) \in Nat
  BY <1>2, FS_CardinalityType
<1>4. CASE t \in role
  <2>1. Registered(role)' = Registered(role) \ {t} /\ t \in Registered(role)
    BY <1>4 DEF Registered, ApiTypeOK
  <2> QED  BY <1>2, <1>4, <2>1, FS_RemoveElement DEF One
<1>5. CASE t \notin role
  <2>1. Registered(role)' = Registered(role)
    BY <1>5 DEF Registered, ApiTypeOK
  <2> QED  BY <1>3, <1>5, <2>1 DEF One
<1> QED  BY <1>4, <1>5

(* Every step keeps the counters exact. *)
LEMMA CountersNext == ApiIInv /\ [ApiNext]_apivars => CountersExact'
<1> SUFFICES ASSUME ApiIInv, [ApiNext]_apivars PROVE CountersExact'
  OBVIOUS
<1> USE ApiAssumption
<1>0. ApiTypeOK /\ CountersExact
  BY DEF ApiIInv
<1>1. ASSUME UNCHANGED <<countvars, life>> PROVE CountersExact'
  BY <1>0, <1>1 DEF CountersExact, Registered, countvars
<1>2. ASSUME NEW t \in Thread, Open(t) PROVE CountersExact'
  <2>1. /\ count_rd' = count_rd + One(t \in Readers) /\ count_wr' = count_wr + One(t \in Writers)
        /\ life[t] # "open" /\ life' = [life EXCEPT ![t] = "open"]
    BY <1>2 DEF Open, mypipe_register, opmap, One
  <2> QED  BY <1>0, <2>1, OpenCounts DEF CountersExact
<1>3. ASSUME NEW t \in Thread, Close(t) PROVE CountersExact'
  <2>1. /\ count_rd' = count_rd - One(t \in Readers) /\ count_wr' = count_wr - One(t \in Writers)
        /\ life[t] = "open" /\ life' = [life EXCEPT ![t] = "closed"]
    BY <1>3 DEF Close, mypipe_unregister, opmap, One
  <2> QED  BY <1>0, <2>1, CloseCounts DEF CountersExact
<1>4. ASSUME NEW t \in Thread, Continue(t) \/ ApiWakeup(t) PROVE CountersExact'
  BY <1>1, <1>4 DEF Continue, ApiWakeup, Spurious, RegisterAgain, ReadTest, ReadLoop, WriteTest,
     WriteLoop, Wait, ReturnZero, StartLoop, Copied, LoopEnd
<1>5. ASSUME NEW t \in Thread, NEW n \in Counts, Read(t, n) \/ Write(t, n) PROVE CountersExact'
  BY <1>1, <1>5 DEF Read, Write, mypipe_read, mypipe_write, Call
<1>6. CASE UNCHANGED apivars
  BY <1>1, <1>6 DEF apivars, pipevars
<1> QED  BY <1>2, <1>3, <1>4, <1>5, <1>6 DEF ApiNext

(* The inductive invariant holds in every reachable state. *)
THEOREM PipeInvHolds == ApiSpec => []ApiIInv
<1>1. ApiIInv /\ [ApiNext]_apivars => ApiIInv'
  BY RingNext, CallsNext, CountersNext DEF ApiIInv, ApiTypeOK, PipeTypeOK, Ring, Calls
<1> QED  BY <1>1, PipeInitInv, PTL DEF ApiSpec

(* What the readers of a pipe read, all together, is a prefix of what its *)
(* writers wrote: nothing is lost, repeated, invented or overtaken. *)
THEOREM PipeIsFifo == ApiSpec => []Fifo
<1>1. ApiIInv => Fifo
  BY DEF ApiIInv
<1> QED  BY <1>1, PipeInvHolds, PTL

(* The ring of queue.c holds exactly the items in transit, in order. *)
THEOREM RingIsExact == ApiSpec => []RingHoldsLog
<1>1. ApiIInv => RingHoldsLog
  BY DEF ApiIInv
<1> QED  BY <1>1, PipeInvHolds, PTL

(* No thread sleeps in mypipe_register, mypipe_read or mypipe_write once its *)
(* reason is gone. *)
THEOREM PipeNoLostWakeup == ApiSpec => []SleepersHaveReason
<1>1. ApiIInv => SleepersHaveReason
  BY DEF ApiIInv
<1> QED  BY <1>1, PipeInvHolds, PTL

(* A thread waiting in mypipe_read or mypipe_write waits for a partner that *)
(* is registered: the counters that it tested count the threads exactly. *)
THEOREM PartnersExist == ApiSpec => []PartnerExists
<1>1. ApiIInv => PartnerExists
  <2> SUFFICES ASSUME ApiIInv, NEW t \in waiters, mut = NONE
               PROVE  /\ op[t] = "read" => Registered(Writers) # {}
                      /\ op[t] = "write" => Registered(Readers) # {}
    BY DEF PartnerExists, Registered
  <2>1. /\ op[t] = "read" => count_wr > 0
        /\ op[t] = "write" => count_rd > 0
    BY DEF ApiIInv, SleepersHaveReason
  <2> QED  BY <2>1, FS_EmptySet DEF ApiIInv, CountersExact
<1> QED  BY <1>1, PipeInvHolds, PTL

-----------------------------------------------------------------------------
(* The refinement of BoundedFifo *)

(* Contents is a sequence of Used items. *)
ContentsOK ==
    /\ Contents \in Seq(Item) /\ Len(Contents) = Used /\ Used \in 0 .. MAXSIZE - 1
    /\ \A j \in 1 .. Used : Contents[j] = data[CellOf(j)]

(* ... because the ring holds items of the log. *)
LEMMA ContentsLemma == Ring => ContentsOK
<1> SUFFICES ASSUME Ring PROVE ContentsOK
  OBVIOUS
<1> USE PipeAssumption
<1>1. Used \in 0 .. MAXSIZE - 1
  BY UsedLemma DEF Ring
<1>2. \A j \in 1 .. Used : data[CellOf(j)] \in Item
  <2> SUFFICES ASSUME NEW j \in 1 .. Used PROVE data[CellOf(j)] \in Item
    OBVIOUS
  <2>1. data[CellOf(j)] = log[Len(got) + j] /\ Len(log) = Len(got) + Used
        /\ log \in Seq(Item) /\ Len(got) \in Nat
    BY DEF Ring, RingHoldsLog
  <2>2. Len(got) + j \in 1 .. Len(log)
    BY <1>1, <2>1
  <2> QED  BY <2>1, <2>2
<1>3. Contents \in [1 .. Used -> Item]
  BY <1>2 DEF Contents
<1>4. Contents \in Seq(Item) /\ Len(Contents) = Used
  BY <1>1, <1>3
<1> QED  BY <1>1, <1>4 DEF Contents, ContentsOK

(* q_enqueue is Put. *)
LEMMA EnqueueIsPut ==
  ASSUME NEW v \in Item, Ring, q_enqueue(v)
  PROVE  Abstract!Put
<1> USE PipeAssumption
<1>1. Ring' /\ Used' = Used + 1 /\ \A j \in 1 .. Used : data'[CellOf(j)'] = data[CellOf(j)]
  BY EnqueueKeeps
<1>2. Len(Contents) = Used /\ Used \in 0 .. MAXSIZE - 1
      /\ \A j \in 1 .. Used : Contents[j] = data[CellOf(j)]
  BY ContentsLemma DEF ContentsOK
<1>3. Len(Contents') = Used' /\ \A j \in 1 .. Used' : Contents'[j] = data'[CellOf(j)']
  <2>1. ContentsOK'
    BY <1>1, ContentsLemma, PTL
  <2> QED  BY <2>1 DEF ContentsOK
<1>4. Used # MAXSIZE - 1
  BY UsedLemma DEF Ring, q_enqueue
<1>5. Len(Contents) < MAXSIZE - 1
  BY <1>2, <1>4
<1>6. \A j \in 1 .. Used : Contents'[j] = Contents[j]
  BY <1>1, <1>2, <1>3
<1> QED  BY <1>1, <1>2, <1>3, <1>5, <1>6 DEF Abstract!Put

(* q_dequeue is Get. *)
LEMMA DequeueIsGet ==
  ASSUME Ring, q_dequeue
  PROVE  Abstract!Get
<1> USE PipeAssumption
<1>1. Ring' /\ Used' = Used - 1 /\ \A j \in 1 .. Used - 1 : data'[CellOf(j)'] = data[CellOf(j + 1)]
  BY DequeueKeeps
<1>2. Contents \in Seq(Item) /\ Len(Contents) = Used /\ Used \in 0 .. MAXSIZE - 1
      /\ \A j \in 1 .. Used : Contents[j] = data[CellOf(j)]
  BY ContentsLemma DEF ContentsOK
<1>3. Contents' \in Seq(Item) /\ Len(Contents') = Used'
      /\ \A j \in 1 .. Used' : Contents'[j] = data'[CellOf(j)']
  <2>1. ContentsOK'
    BY <1>1, ContentsLemma, PTL
  <2> QED  BY <2>1 DEF ContentsOK
<1>4. Used # 0
  BY UsedLemma DEF Ring, q_dequeue
<1>5. Tail(Contents) \in Seq(Item) /\ Len(Tail(Contents)) = Used - 1
      /\ \A j \in 1 .. Used - 1 : Tail(Contents)[j] = Contents[j + 1]
  BY <1>2, <1>4
<1>6. \A j \in 1 .. Used - 1 : Contents'[j] = Tail(Contents)[j]
  BY <1>1, <1>2, <1>3, <1>5
<1>7. Contents' = Tail(Contents)
  BY <1>1, <1>2, <1>3, <1>5, <1>6
<1> QED  BY <1>2, <1>4, <1>7 DEF Abstract!Get

(* Every step of the pipe is a step of the abstract queue or changes nothing *)
(* of it. *)
LEMMA StepRefines == ApiIInv /\ [ApiNext]_apivars => [Abstract!Next]_Contents
<1> SUFFICES ASSUME ApiIInv, [ApiNext]_apivars PROVE Abstract!Next \/ Contents' = Contents
  OBVIOUS
<1>0. Ring
  BY DEF ApiIInv, ApiTypeOK, PipeTypeOK, Ring
<1> DEFINE Goal == Abstract!Next \/ Contents' = Contents
<1>1. ASSUME UNCHANGED queuevars PROVE Goal
  BY <1>1 DEF queuevars, Contents, Used, CellOf
<1>2. ASSUME NEW v \in Item, q_enqueue(v) PROVE Goal
  BY <1>0, <1>2, EnqueueIsPut DEF Abstract!Next
<1>3. ASSUME q_dequeue PROVE Goal
  BY <1>0, <1>3, DequeueIsGet DEF Abstract!Next
<1> HIDE DEF Goal
<1>4. ASSUME UNCHANGED apivars PROVE Goal
  BY <1>1, <1>4 DEF apivars, pipevars
<1>5. ASSUME NEW t \in Thread, Continue(t) PROVE Goal
  <2>1. CASE RegisterAgain(t) \/ ReadTest(t) \/ WriteTest(t)
    BY <1>1, <2>1 DEF RegisterAgain, ReadTest, WriteTest, Wait, ReturnZero, StartLoop
  <2>2. CASE ReadLoop(t)
    BY <1>1, <1>3, <2>2 DEF ReadLoop, LoopEnd
  <2>3. ASSUME NEW v \in Item, WriteLoop(t, v) PROVE Goal
    BY <1>1, <1>2, <2>3 DEF WriteLoop, LoopEnd
  <2> QED  BY <1>5, <2>1, <2>2, <2>3 DEF Continue
<1>6. ASSUME NEW t \in Thread, Open(t) \/ Close(t) \/ ApiWakeup(t) PROVE Goal
  BY <1>1, <1>6 DEF Open, Close, ApiWakeup, mypipe_register, mypipe_unregister, Spurious
<1>7. ASSUME NEW t \in Thread, NEW n \in Counts, Read(t, n) \/ Write(t, n) PROVE Goal
  BY <1>1, <1>7 DEF Read, Write, mypipe_read, mypipe_write, Call
<1>8. Goal
  BY <1>4, <1>5, <1>6, <1>7 DEF ApiNext
<1> QED  BY <1>8 DEF Goal

(* The ring of queue.c under mypipe.c implements a bounded first-in-first-out *)
(* queue: the initial states map to the empty queue, and every step to Put, *)
(* Get or a stutter. *)
THEOREM PipeRefinesFifo == ApiSpec => ImplementsFifo
<1>1. ApiInit => Abstract!Init
  <2> SUFFICES ASSUME ApiInit PROVE Contents = <<>>
    BY DEF Abstract!Init
  <2>1. Used = 0
    BY DEF ApiInit, PipeInit, Used
  <2> QED  BY <2>1 DEF Contents
<1> QED  BY <1>1, StepRefines, PipeInvHolds, PTL DEF ApiSpec, ImplementsFifo, Abstract!Spec

-----------------------------------------------------------------------------
(* The program of main.c *)

(* What MainInv says of the ring and of the threads. *)
LEMMA MainFacts ==
  ASSUME MainAssumption, MainInv
  PROVE  /\ Ring /\ Len(log) = Len(got) + Used /\ Len(got) \in Nat /\ Used \in Nat
         /\ main \in Thread /\ main \notin Reader /\ Reader \subseteq Thread
         /\ \A t \in Thread : t = main \/ t \in Reader
         /\ (Len(log) < ARR_SIZE => ~ q_isfull)
         /\ (q_isempty <=> Used = 0)
<1> USE PipeAssumption
<1>1. Ring
  BY DEF MainInv, MainTypeOK, PipeTypeOK, Ring
<1>2. Used \in 0 .. MAXSIZE - 1 /\ (Used = MAXSIZE - 1 <=> q_isfull) /\ (q_isempty <=> Used = 0)
  BY <1>1, UsedLemma DEF Ring
<1>3. Len(log) = Len(got) + Used /\ Len(got) \in Nat
  BY <1>1 DEF Ring, RingHoldsLog
<1>4. Len(log) < ARR_SIZE => ~ q_isfull
  BY <1>2, <1>3 DEF MainAssumption
<1>5. /\ main \in Thread /\ main \notin Reader /\ Reader \subseteq Thread
      /\ \A t \in Thread : t = main \/ t \in Reader
  BY DEF MainAssumption, main, Reader
<1> QED  BY <1>1, <1>2, <1>3, <1>4, <1>5

(* Steps that leave the queue alone. *)
LEMMA QuietQueue ==
  ASSUME Ring, UNCHANGED queuevars
  PROVE  Ring' /\ (q_isempty' <=> q_isempty) /\ log' = log /\ got' = got
BY RingStutter DEF q_isempty, queuevars

(* A reader that a step does not touch stays where it is, ... *)
LEMMA ReaderStays ==
  ASSUME NEW r \in Reader, ReaderAt(r), UNCHANGED <<op[r], cnt[r], i[r], rpc[r], mpc, k>>,
         q_isempty' <=> q_isempty
  PROVE  ReaderAt(r)'
BY DEF ReaderAt

(* ... also while another thread copies into or from the queue. *)
LEMMA ReaderStaysInCopy ==
  ASSUME NEW r \in Reader, ReaderAt(r), UNCHANGED <<op[r], cnt[r], i[r], rpc[r], mpc, k>>,
         op[r] # "reading", mpc = "write" \/ ~ q_isempty
  PROVE  ReaderAt(r)'
BY DEF ReaderAt

(* The part of MainInv that the calls decide. *)
Inside == OneCopier /\ SleepersInCall

(* The initial states. *)
LEMMA MainStarts == ASSUME MainAssumption PROVE Init => MainInv
<1> SUFFICES ASSUME Init PROVE MainInv
  OBVIOUS
<1> USE PipeAssumption DEF Init, PipeInit
<1>1. MainTypeOK
  BY DEF MainTypeOK, PipeTypeOK, Cell, MainAssumption
<1>2. Used = 0 /\ Len(log) = 0 /\ Len(got) = 0
  BY DEF Used
<1>3. RingHoldsLog /\ Fifo
  BY <1>2 DEF RingHoldsLog, Fifo
<1>4. OneCopier /\ SleepersInCall
  BY DEF OneCopier, SleepersInCall
<1>5. WriterAt
  BY <1>2 DEF WriterAt, main, MainAssumption
<1>6. \A r \in Reader : ReaderAt(r)
  BY DEF ReaderAt, Reader, MainAssumption
<1> QED  BY <1>1, <1>3, <1>4, <1>5, <1>6 DEF MainInv

(* Steps of the program outside the pipe. *)
LEMMA OutsideKeeps ==
  ASSUME MainAssumption, MainInv, UNCHANGED pipevars,
         \/ MainCreate \/ MainCreateFails \/ MainJoin \/ MainExit
         \/ UNCHANGED <<mpc, k, sent, rpc>>
         \/ \E r \in Reader : ReaderEnds(r) /\ UNCHANGED <<mpc, k, sent>>
  PROVE  MainInv'
<1>0. /\ UNCHANGED queuevars
      /\ UNCHANGED <<count_rd, count_wr, mut, waiters, op, cnt, i>>
  BY DEF pipevars, queuevars, countvars, callvars
<1>1. Ring /\ Ring' /\ (q_isempty' <=> q_isempty) /\ log' = log /\ got' = got
  BY <1>0, MainFacts, QuietQueue
<1>2. Inside'
  BY <1>0 DEF MainInv, Inside, OneCopier, SleepersInCall
<1> DEFINE Goal == MainTypeOK' /\ WriterAt' /\ \A r \in Reader : ReaderAt(r)'
<1>3. ASSUME Goal PROVE MainInv'
  BY <1>1, <1>2, <1>3 DEF Goal, MainInv, Ring, Inside
<1>4. PipeTypeOK'
  BY <1>0, <1>1 DEF Ring, MainInv, MainTypeOK, PipeTypeOK
<1>5. CASE MainCreate
  <2>1. MainTypeOK'
    <3>1. MainTypeOK /\ mpc' = mpc /\ sent' = sent /\ k <= THRNUM /\ k' = k + 1
          /\ rpc' = [rpc EXCEPT ![k] = "start"]
      BY <1>5 DEF MainInv, MainCreate
    <3>2. rpc' \in [Reader -> {"none", "start", "registered", "read", "done"}]
      BY <3>1 DEF MainTypeOK
    <3>3. k' \in 1 .. THRNUM + 1
      BY <3>1 DEF MainTypeOK, MainAssumption
    <3> QED  BY <1>4, <3>1, <3>2, <3>3 DEF MainTypeOK
  <2>2. WriterAt'
    BY <1>0, <1>1, <1>5 DEF MainInv, WriterAt, MainCreate
  <2>3. ASSUME NEW r \in Reader PROVE ReaderAt(r)'
    <3>1. k \in Reader /\ rpc[k] = "none" /\ k' = k + 1 /\ mpc' = mpc /\ mpc = "create"
      BY <1>5 DEF MainCreate, MainInv, MainTypeOK, ReaderAt, Reader, MainAssumption
    <3>2. r \in Nat /\ k \in Nat /\ ReaderAt(r)
      BY <2>3, <3>1 DEF Reader, MainAssumption, MainInv
    <3>3. CASE r = k
      <4>1. rpc'[r] = "start" /\ rpc[r] = "none"
        BY <1>5, <3>1, <3>3 DEF MainCreate, MainInv, MainTypeOK
      <4> QED  BY <1>0, <1>1, <3>1, <3>2, <3>3, <4>1 DEF ReaderAt
    <3>4. CASE r # k
      <4>1. rpc'[r] = rpc[r]
        BY <1>5, <3>4 DEF MainCreate, MainInv, MainTypeOK
      <4> QED  BY <1>0, <1>1, <3>1, <3>2, <3>4, <4>1 DEF ReaderAt
    <3> QED  BY <3>3, <3>4
  <2> QED  BY <1>3, <2>1, <2>2, <2>3
<1>6. CASE MainCreateFails \/ MainJoin \/ MainExit
  <2>1. MainTypeOK'
    BY <1>4, <1>6 DEF MainInv, MainTypeOK, MainCreateFails, MainJoin, MainExit, MainAssumption
  <2>2. WriterAt'
    BY <1>0, <1>1, <1>6 DEF MainInv, WriterAt, MainCreateFails, MainJoin, MainExit
  <2>3. ASSUME NEW r \in Reader PROVE ReaderAt(r)'
    <3>1. ReaderAt(r) /\ rpc' = rpc /\ r \in 1 .. THRNUM /\ k \in Nat /\ THRNUM \in Nat
      BY <1>6, <2>3 DEF MainCreateFails, MainJoin, MainExit, Reader, MainInv, MainTypeOK,
         MainAssumption
    <3>2. CASE MainCreateFails
      BY <1>0, <1>1, <3>1, <3>2 DEF MainCreateFails, ReaderAt
    <3>3. CASE MainJoin
      BY <1>0, <1>1, <3>1, <3>3 DEF MainJoin, ReaderAt
    <3>4. CASE MainExit
      BY <1>0, <1>1, <3>1, <3>4 DEF MainExit, ReaderAt
    <3> QED  BY <1>6, <3>2, <3>3, <3>4
  <2> QED  BY <1>3, <2>1, <2>2, <2>3
<1>7. CASE UNCHANGED <<mpc, k, sent, rpc>>
  <2>1. MainTypeOK' /\ WriterAt'
    BY <1>0, <1>1, <1>4, <1>7 DEF MainInv, MainTypeOK, WriterAt
  <2>2. \A r \in Reader : ReaderAt(r)'
    BY <1>0, <1>1, <1>7, ReaderStays DEF MainInv
  <2> QED  BY <1>3, <2>1, <2>2
<1>8. ASSUME NEW r \in Reader, ReaderEnds(r), UNCHANGED <<mpc, k, sent>> PROVE MainInv'
  <2>1. MainTypeOK' /\ WriterAt'
    BY <1>0, <1>1, <1>4, <1>8 DEF MainInv, MainTypeOK, WriterAt, ReaderEnds
  <2>2. ReaderAt(r)'
    BY <1>0, <1>1, <1>8 DEF MainInv, MainTypeOK, ReaderAt, ReaderEnds
  <2>3. \A u \in Reader : u # r => ReaderAt(u)'
    BY <1>0, <1>1, <1>8, ReaderStays DEF MainInv, MainTypeOK, ReaderEnds
  <2> QED  BY <1>3, <2>1, <2>2, <2>3
<1> QED  BY <1>5, <1>6, <1>7, <1>8

(* The call of main that leaves the queue alone: the readers stay where they *)
(* are unless main itself moves on. *)
LEMMA MainCalls ==
  ASSUME MainAssumption, MainInv,
         \/ MainRegister \/ MainWrite \/ MainUnregister
         \/ (RegisterAgain(main) \/ WriteTest(main)) /\ UNCHANGED <<mpc, k, sent, rpc>>
  PROVE  MainInv'
<1> USE PipeAssumption
<1>0. Ring /\ main \in Thread /\ main \notin Reader /\ Reader \subseteq Thread
      /\ (Len(log) < ARR_SIZE => ~ q_isfull)
  BY MainFacts
<1>1. MainTypeOK /\ PipeTypeOK /\ WriterAt /\ OneCopier /\ SleepersInCall
      /\ \A r \in Reader : ReaderAt(r)
  BY DEF MainInv, MainTypeOK
<1>2. Len(log) \in Nat /\ ARR_SIZE \in Nat /\ sent \in 0 .. ARR_SIZE /\ cnt[main] \in Nat
  BY <1>0, <1>1 DEF Ring, MainTypeOK, PipeTypeOK, MainAssumption
<1>3. ASSUME UNCHANGED queuevars, MainTypeOK', Inside', WriterAt', \A r \in Reader : ReaderAt(r)'
      PROVE  MainInv'
  <2>1. Ring'
    BY <1>0, <1>3, QuietQueue
  <2> QED  BY <1>3, <2>1 DEF MainInv, Ring, Inside
<1>4. ASSUME UNCHANGED queuevars
      PROVE  /\ head' \in Cell /\ tail' \in Cell /\ data' \in [Cell -> Item \cup {NONE}]
             /\ log' \in Seq(Item) /\ got' \in Seq(Item)
             /\ log' = log /\ (q_isempty' <=> q_isempty)
  BY <1>0, <1>4, QuietQueue DEF Ring
<1>5. CASE MainRegister
  <2>1. /\ UNCHANGED <<queuevars, mut, cnt, i, count_rd, k, sent, rpc>>
        /\ count_wr' = count_wr + 1
        /\ mpc = "create" /\ mpc' = "write" /\ op[main] = "none" /\ mut = NONE
        /\ \E o \in {"none", "register"} : op' = [op EXCEPT ![main] = o]
                 /\ waiters' = IF o = "none" THEN {} ELSE {main}
    <3>1. /\ UNCHANGED <<queuevars, mut, cnt, i, k, sent, rpc>>
          /\ count_rd' = count_rd + One("READ" \in {"WRITE"})
          /\ count_wr' = count_wr + One("WRITE" \in {"WRITE"})
          /\ mpc = "create" /\ mpc' = "write" /\ op[main] = "none" /\ mut = NONE
          /\ op' = [op EXCEPT ![main] = IF Alone' THEN "register" ELSE "none"]
          /\ waiters' = IF Alone' THEN {main} ELSE {}
      BY <1>5 DEF MainRegister, mypipe_register
    <3>2. count_rd' = count_rd /\ count_wr' = count_wr + 1
      BY <1>1, <3>1 DEF One, PipeTypeOK
    <3>3. CASE Alone'
      BY <3>1, <3>2, <3>3
    <3>4. CASE ~ Alone'
      BY <3>1, <3>2, <3>4
    <3> QED  BY <3>3, <3>4
  <2>2. PICK o \in {"none", "register"} : op' = [op EXCEPT ![main] = o]
                 /\ waiters' = IF o = "none" THEN {} ELSE {main}
    BY <2>1
  <2>3. Inside'
    BY <1>0, <1>1, <2>1, <2>2 DEF Inside, OneCopier, SleepersInCall, PipeTypeOK
  <2>4. MainTypeOK'
    BY <1>0, <1>1, <1>4, <2>1, <2>2 DEF MainTypeOK, PipeTypeOK
  <2>5. WriterAt'
    BY <1>0, <1>1, <1>4, <2>1, <2>2 DEF WriterAt, PipeTypeOK
  <2>6. \A r \in Reader : ReaderAt(r)'
    BY <1>0, <1>1, <1>4, <2>1, <2>2 DEF ReaderAt, PipeTypeOK
  <2> QED  BY <1>3, <2>1, <2>3, <2>4, <2>5, <2>6
<1>6. CASE MainWrite
  <2>1. /\ UNCHANGED <<queuevars, countvars, mut, waiters, mpc, k, rpc>>
        /\ mpc = "write" /\ op[main] = "none" /\ sent < ARR_SIZE
        /\ op' = [op EXCEPT ![main] = "write"] /\ cnt' = [cnt EXCEPT ![main] = Batch]
        /\ i' = [i EXCEPT ![main] = 0] /\ sent' = sent + Batch
    BY <1>6 DEF MainWrite, mypipe_write, Call
  <2>2. Batch \in Nat /\ Batch > 0 /\ sent + Batch \in 0 .. ARR_SIZE
    BY <1>2, <2>1 DEF Batch, MainAssumption
  <2>3. Inside'
    BY <1>0, <1>1, <2>1 DEF Inside, OneCopier, SleepersInCall, PipeTypeOK
  <2>4. MainTypeOK'
    BY <1>0, <1>1, <1>4, <2>1, <2>2 DEF MainTypeOK, PipeTypeOK, countvars
  <2>5. WriterAt'
    <3>1. op'[main] = "write" /\ cnt'[main] = Batch /\ i'[main] = 0 /\ Len(log) = sent
          /\ \A j \in 1 .. Len(log) : log[j] = j
      BY <1>0, <1>1, <2>1 DEF WriterAt, PipeTypeOK
    <3> QED  BY <1>1, <1>2, <1>4, <2>1, <2>2, <3>1 DEF WriterAt, countvars
  <2>6. \A r \in Reader : ReaderAt(r)'
    BY <1>0, <1>1, <1>4, <2>1, ReaderStays DEF PipeTypeOK
  <2> QED  BY <1>3, <2>1, <2>3, <2>4, <2>5, <2>6
<1>7. CASE MainUnregister
  <2>1. /\ UNCHANGED <<queuevars, mut, op, cnt, i, count_rd, sent, rpc>>
        /\ count_wr' = count_wr - 1 /\ waiters' = {} /\ op[main] = "none"
        /\ mpc = "write" /\ mpc' = "join" /\ k' = 1 /\ sent = ARR_SIZE
    BY <1>1, <1>7 DEF MainUnregister, mypipe_unregister, One, PipeTypeOK, callvars
  <2>2. Inside'
    BY <1>1, <2>1 DEF Inside, OneCopier, SleepersInCall
  <2>3. MainTypeOK'
    <3>1. PipeTypeOK'
      BY <1>1, <1>4, <2>1 DEF PipeTypeOK
    <3>2. k' \in 1 .. THRNUM + 1
      BY <2>1 DEF MainAssumption
    <3> QED  BY <1>1, <2>1, <3>1, <3>2 DEF MainTypeOK
  <2>4. WriterAt'
    BY <1>1, <1>4, <2>1 DEF WriterAt
  <2>5. \A r \in Reader : ReaderAt(r)'
    BY <1>1, <1>4, <2>1 DEF ReaderAt, Reader, MainAssumption
  <2> QED  BY <1>3, <2>1, <2>2, <2>3, <2>4, <2>5
<1>8. CASE RegisterAgain(main) /\ UNCHANGED <<mpc, k, sent, rpc>>
  <2>1. /\ UNCHANGED <<queuevars, countvars, mut, cnt, i, mpc, k, sent, rpc>>
        /\ op[main] = "register" /\ mut = NONE
        /\ \/ waiters' = waiters \cup {main} /\ op' = op
           \/ waiters' = waiters /\ op' = [op EXCEPT ![main] = "none"] /\ main \notin waiters
    BY <1>8 DEF RegisterAgain
  <2>2. Inside'
    BY <1>0, <1>1, <2>1 DEF Inside, OneCopier, SleepersInCall, PipeTypeOK
  <2>3. MainTypeOK'
    BY <1>0, <1>1, <1>4, <2>1 DEF MainTypeOK, PipeTypeOK, countvars
  <2>4. WriterAt'
    BY <1>0, <1>1, <1>4, <2>1 DEF WriterAt, countvars, PipeTypeOK
  <2>5. \A r \in Reader : ReaderAt(r)'
    BY <1>0, <1>1, <1>4, <2>1, ReaderStays DEF PipeTypeOK
  <2> QED  BY <1>3, <2>1, <2>2, <2>3, <2>4, <2>5
<1>9. CASE WriteTest(main) /\ UNCHANGED <<mpc, k, sent, rpc>>
  <2>1. op[main] = "write" /\ ~ q_isfull
    BY <1>0, <1>1, <1>2, <1>9 DEF WriteTest, Locks, WriterAt
  <2>2. /\ UNCHANGED <<queuevars, countvars, waiters, cnt, i, mpc, k, sent, rpc>>
        /\ main \notin waiters /\ mut = NONE
        /\ mut' = main /\ op' = [op EXCEPT ![main] = "writing"]
    BY <1>9, <2>1 DEF WriteTest, Locks, StartLoop
  <2>3. Inside'
    BY <1>0, <1>1, <2>1, <2>2 DEF Inside, OneCopier, SleepersInCall, PipeTypeOK
  <2>4. MainTypeOK'
    BY <1>0, <1>1, <1>4, <2>2 DEF MainTypeOK, PipeTypeOK, countvars
  <2>5. WriterAt'
    <3>1. op'[main] = "writing" /\ cnt'[main] = cnt[main] /\ i'[main] = 0 /\ mpc = "write"
      BY <1>0, <1>1, <2>1, <2>2 DEF WriterAt, PipeTypeOK
    <3> QED  BY <1>1, <1>2, <1>4, <2>1, <2>2, <3>1 DEF WriterAt, countvars
  <2>6. \A r \in Reader : ReaderAt(r)'
    BY <1>0, <1>1, <1>4, <2>2, ReaderStays DEF PipeTypeOK
  <2> QED  BY <1>3, <2>2, <2>3, <2>4, <2>5, <2>6
<1> QED  BY <1>5, <1>6, <1>7, <1>8, <1>9

(* The calls of a reader that leave the queue alone. *)
LEMMA ReaderCalls ==
  ASSUME MainAssumption, MainInv, NEW r \in Reader, UNCHANGED <<mpc, k, sent>>,
         \/ ReaderRegister(r) \/ ReaderRead(r)
         \/ (RegisterAgain(r) \/ ReadTest(r)) /\ UNCHANGED rpc
  PROVE  MainInv'
<1> USE PipeAssumption
<1>0. Ring /\ main \in Thread /\ main # r /\ r \in Thread /\ Reader \subseteq Thread
  BY MainFacts
<1>1. MainTypeOK /\ PipeTypeOK /\ WriterAt /\ OneCopier /\ SleepersInCall
      /\ \A u \in Reader : ReaderAt(u)
  BY DEF MainInv, MainTypeOK
<1>2. ASSUME UNCHANGED queuevars
      PROVE  /\ head' \in Cell /\ tail' \in Cell /\ data' \in [Cell -> Item \cup {NONE}]
             /\ log' \in Seq(Item) /\ got' \in Seq(Item)
             /\ log' = log /\ (q_isempty' <=> q_isempty)
  BY <1>0, <1>2, QuietQueue DEF Ring
<1>3. ASSUME UNCHANGED <<queuevars, count_wr>>, MainTypeOK', Inside', ReaderAt(r)',
             \A t \in Thread : t # r => UNCHANGED <<op[t], cnt[t], i[t]>>,
             \A u \in Reader : u # r => rpc'[u] = rpc[u]
      PROVE  MainInv'
  <2>1. Ring'
    BY <1>0, <1>3, QuietQueue
  <2>2. WriterAt'
    BY <1>0, <1>1, <1>2, <1>3 DEF WriterAt
  <2>3. \A u \in Reader : u # r => ReaderAt(u)'
    BY <1>0, <1>1, <1>2, <1>3, ReaderStays
  <2> QED  BY <1>3, <2>1, <2>2, <2>3 DEF MainInv, Ring, Inside
<1>4. CASE ReaderRegister(r)
  <2>1. /\ UNCHANGED <<queuevars, mut, cnt, i>>
        /\ count_rd' = count_rd + One("READ" \in {"READ"})
        /\ count_wr' = count_wr + One("WRITE" \in {"READ"})
        /\ op[r] = "none" /\ mut = NONE
        /\ op' = [op EXCEPT ![r] = IF Alone' THEN "register" ELSE "none"]
        /\ waiters' = IF Alone' THEN {r} ELSE {}
        /\ rpc[r] = "start" /\ rpc' = [rpc EXCEPT ![r] = "registered"]
    BY <1>4 DEF ReaderRegister, mypipe_register
  <2>2. count_rd' \in Int /\ count_wr' = count_wr
    BY <1>1, <2>1 DEF One, PipeTypeOK
  <2>3. ~ Alone' => mpc = "write"
    BY <1>1, <2>2 DEF Alone, WriterAt, PipeTypeOK
  <2>4. PICK o \in {"none", "register"} :
            /\ op' = [op EXCEPT ![r] = o] /\ waiters' = IF o = "none" THEN {} ELSE {r}
            /\ o = "none" => mpc = "write"
    <3>1. CASE Alone'
      BY <2>1, <3>1
    <3>2. CASE ~ Alone'
      BY <2>1, <2>3, <3>2
    <3> QED  BY <3>1, <3>2
  <2>5. Inside'
    BY <1>0, <1>1, <2>1, <2>4 DEF Inside, OneCopier, SleepersInCall, PipeTypeOK
  <2>6. MainTypeOK'
    <3>1. PipeTypeOK'
      BY <1>0, <1>1, <1>2, <2>1, <2>2, <2>4 DEF PipeTypeOK
    <3> QED  BY <1>1, <2>1, <3>1 DEF MainTypeOK
  <2>7. ReaderAt(r)'
    <3>1. op'[r] = o /\ rpc'[r] = "registered" /\ rpc[r] = "start" /\ ReaderAt(r)
      BY <1>0, <1>1, <2>1, <2>4 DEF PipeTypeOK, MainTypeOK
    <3> QED  BY <2>1, <2>4, <3>1 DEF ReaderAt
  <2> QED  BY <1>1, <1>3, <2>1, <2>2, <2>4, <2>5, <2>6, <2>7 DEF MainTypeOK, PipeTypeOK
<1>5. CASE ReaderRead(r)
  <2>1. /\ UNCHANGED <<queuevars, countvars, mut, waiters>>
        /\ op[r] = "none" /\ op' = [op EXCEPT ![r] = "read"]
        /\ cnt' = [cnt EXCEPT ![r] = 1] /\ i' = [i EXCEPT ![r] = 0]
        /\ rpc[r] \in {"registered", "read"} /\ rpc' = [rpc EXCEPT ![r] = "read"]
    BY <1>5 DEF ReaderRead, mypipe_read, Call
  <2>2. Inside'
    BY <1>0, <1>1, <2>1 DEF Inside, OneCopier, SleepersInCall, PipeTypeOK
  <2>3. MainTypeOK'
    <3>1. PipeTypeOK'
      BY <1>0, <1>1, <1>2, <2>1 DEF PipeTypeOK, countvars
    <3> QED  BY <1>1, <2>1, <3>1 DEF MainTypeOK
  <2>4. ReaderAt(r)'
    <3>1. op'[r] = "read" /\ cnt'[r] = 1 /\ i'[r] = 0 /\ rpc'[r] = "read" /\ ReaderAt(r)
      BY <1>0, <1>1, <2>1 DEF PipeTypeOK, MainTypeOK
    <3> QED  BY <2>1, <3>1 DEF ReaderAt
  <2> QED  BY <1>1, <1>3, <2>1, <2>2, <2>3, <2>4 DEF MainTypeOK, PipeTypeOK, countvars
<1>6. CASE RegisterAgain(r) /\ UNCHANGED rpc
  <2>1. /\ UNCHANGED <<queuevars, countvars, mut, cnt, i, rpc>>
        /\ op[r] = "register" /\ mut = NONE
        /\ \/ waiters' = waiters \cup {r} /\ op' = op
           \/ /\ waiters' = waiters /\ op' = [op EXCEPT ![r] = "none"]
              /\ r \notin waiters /\ ~ Alone
    BY <1>6 DEF RegisterAgain
  <2>2. Inside'
    BY <1>0, <1>1, <2>1 DEF Inside, OneCopier, SleepersInCall, PipeTypeOK
  <2>3. MainTypeOK'
    <3>1. PipeTypeOK'
      BY <1>0, <1>1, <1>2, <2>1 DEF PipeTypeOK, countvars
    <3> QED  BY <1>1, <2>1, <3>1 DEF MainTypeOK
  <2>4. ReaderAt(r)'
    <3>1. ReaderAt(r) /\ rpc[r] = "registered"
      BY <1>1, <2>1 DEF ReaderAt
    <3>2. CASE op' = op
      BY <1>2, <2>1, <3>1, <3>2, ReaderStays
    <3>3. CASE op'[r] = "none" /\ ~ Alone
      <4>1. mpc = "write"
        BY <1>1, <3>3 DEF Alone, WriterAt, PipeTypeOK
      <4> QED  BY <2>1, <3>1, <3>3, <4>1 DEF ReaderAt
    <3> QED  BY <1>0, <1>1, <2>1, <3>2, <3>3 DEF PipeTypeOK
  <2> QED  BY <1>1, <1>3, <2>1, <2>2, <2>3, <2>4 DEF PipeTypeOK, countvars
<1>7. CASE ReadTest(r) /\ UNCHANGED rpc
  <2>1. /\ UNCHANGED <<queuevars, countvars, cnt, i, rpc>>
        /\ op[r] = "read" /\ mut = NONE /\ r \notin waiters
        /\ \/ waiters' = waiters \cup {r} /\ op' = op /\ mut' = mut
           \/ /\ waiters' = waiters /\ op' = [op EXCEPT ![r] = "none"] /\ mut' = mut
              /\ q_isempty /\ count_wr <= 0
           \/ /\ waiters' = waiters /\ op' = [op EXCEPT ![r] = "reading"] /\ mut' = r
              /\ ~ q_isempty
    BY <1>7 DEF ReadTest, Locks, Wait, ReturnZero, StartLoop, callvars
  <2>2. Inside'
    BY <1>0, <1>1, <2>1 DEF Inside, OneCopier, SleepersInCall, PipeTypeOK
  <2>3. MainTypeOK'
    <3>1. PipeTypeOK'
      BY <1>0, <1>1, <1>2, <2>1 DEF PipeTypeOK, countvars
    <3> QED  BY <1>1, <2>1, <3>1 DEF MainTypeOK
  <2>4. ReaderAt(r)'
    <3>1. ReaderAt(r) /\ rpc[r] = "read" /\ i[r] = 0 /\ mpc \in {"write", "join", "exited"}
      BY <1>1, <2>1 DEF ReaderAt
    <3>2. CASE op' = op
      BY <1>2, <2>1, <3>1, <3>2, ReaderStays
    <3>3. CASE op'[r] = "none" /\ q_isempty /\ count_wr <= 0
      <4>1. mpc \in {"join", "exited"}
        BY <1>1, <3>1, <3>3 DEF WriterAt
      <4> QED  BY <1>2, <2>1, <3>1, <3>3, <4>1 DEF ReaderAt
    <3>4. CASE op'[r] = "reading" /\ ~ q_isempty
      BY <1>2, <2>1, <3>1, <3>4 DEF ReaderAt
    <3> QED  BY <1>0, <1>1, <2>1, <3>2, <3>3, <3>4 DEF PipeTypeOK
  <2> QED  BY <1>1, <1>3, <2>1, <2>2, <2>3, <2>4 DEF PipeTypeOK, countvars
<1> QED  BY <1>4, <1>5, <1>6, <1>7

(* One number copied, or the loop left: all that a copier changes of the *)
(* calls is its own. *)
LEMMA CopierKeeps ==
  ASSUME MainAssumption, MainInv, NEW t \in Thread, op[t] \in {"reading", "writing"},
         Copied(t) \/ LoopEnd(t), UNCHANGED <<mpc, k, sent, rpc>>, Ring'
  PROVE  /\ MainTypeOK' /\ Inside'
         /\ \A u \in Thread : u # t => UNCHANGED <<op[u], cnt[u], i[u]>>
         /\ \A u \in Thread : u # t => op[u] \notin {"reading", "writing"}
<1> USE PipeAssumption
<1>1. MainTypeOK /\ PipeTypeOK /\ OneCopier /\ SleepersInCall /\ mut = t
  BY DEF MainInv, MainTypeOK, OneCopier
<1>2. CASE Copied(t)
  <2>1. i' = [i EXCEPT ![t] = @ + 1] /\ UNCHANGED <<countvars, mut, waiters, op, cnt>>
    BY <1>2 DEF Copied
  <2>2. PipeTypeOK'
    BY <1>1, <2>1 DEF Ring, PipeTypeOK, countvars
  <2>3. Inside'
    BY <1>1, <2>1 DEF Inside, OneCopier, SleepersInCall
  <2> QED  BY <1>1, <2>1, <2>2, <2>3 DEF MainTypeOK, PipeTypeOK, OneCopier
<1>3. CASE LoopEnd(t)
  <2>1. mut' = NONE /\ waiters' = {} /\ op' = [op EXCEPT ![t] = "none"]
        /\ UNCHANGED <<countvars, cnt, i>>
    BY <1>3 DEF LoopEnd
  <2>2. PipeTypeOK'
    BY <1>1, <2>1 DEF Ring, PipeTypeOK, countvars
  <2>3. Inside'
    BY <1>1, <2>1 DEF Inside, OneCopier, SleepersInCall, PipeTypeOK
  <2> QED  BY <1>1, <2>1, <2>2, <2>3 DEF MainTypeOK, PipeTypeOK, OneCopier
<1> QED  BY <1>2, <1>3

(* The copy loop of main: the next number is the one after the last of the *)
(* log, and there is room for it. *)
LEMMA WriterCopies ==
  ASSUME MainAssumption, MainInv, UNCHANGED <<mpc, k, sent, rpc>>,
         WriteLoop(main, sent - cnt[main] + i[main] + 1)
  PROVE  MainInv'
<1> USE PipeAssumption
<1>0. Ring /\ main \in Thread /\ main \notin Reader /\ Reader \subseteq Thread
      /\ (Len(log) < ARR_SIZE => ~ q_isfull)
  BY MainFacts
<1>1. MainTypeOK /\ PipeTypeOK /\ WriterAt /\ \A r \in Reader : ReaderAt(r)
  BY DEF MainInv, MainTypeOK
<1>2. Len(log) \in Nat /\ ARR_SIZE \in Nat /\ sent \in 0 .. ARR_SIZE
      /\ cnt[main] \in Nat /\ i[main] \in Nat /\ log \in Seq(Item)
  BY <1>0, <1>1 DEF Ring, MainTypeOK, PipeTypeOK, MainAssumption
<1>3. op[main] = "writing" /\ mpc = "write" /\ i[main] <= cnt[main]
      /\ Len(log) = sent - cnt[main] + i[main]
  BY <1>1 DEF WriteLoop, WriterAt
<1>4. CASE i[main] < cnt[main] /\ q_enqueue(sent - cnt[main] + i[main] + 1) /\ Copied(main)
  <2>1. Len(log) + 1 \in Item /\ q_enqueue(Len(log) + 1)
    BY <1>2, <1>3, <1>4 DEF MainAssumption
  <2>2. Ring' /\ log' = Append(log, Len(log) + 1)
    BY <1>0, <2>1, EnqueueKeeps DEF q_enqueue
  <2>3. Len(log') = Len(log) + 1 /\ log'[Len(log) + 1] = Len(log) + 1
        /\ \A j \in 1 .. Len(log) : log'[j] = log[j]
    BY <1>2, <2>1, <2>2
  <2>4. /\ MainTypeOK' /\ Inside'
        /\ \A u \in Thread : u # main => UNCHANGED <<op[u], cnt[u], i[u]>>
        /\ \A u \in Thread : u # main => op[u] \notin {"reading", "writing"}
    BY <1>0, <1>3, <1>4, <2>2, CopierKeeps
  <2>5. \A r \in Reader : ReaderAt(r)'
    BY <1>0, <1>1, <1>3, <2>4, ReaderStaysInCopy
  <2>6. WriterAt'
    <3>1. op' = op /\ cnt' = cnt /\ i'[main] = i[main] + 1 /\ count_wr' = count_wr
      BY <1>0, <1>1, <1>4 DEF Copied, PipeTypeOK, countvars
    <3>2. \A j \in 1 .. Len(log') : log'[j] = j
      BY <1>1, <1>2, <2>3 DEF WriterAt
    <3>3. i'[main] <= cnt'[main] /\ Len(log') = sent' - cnt'[main] + i'[main]
      BY <1>2, <1>3, <1>4, <2>3, <3>1
    <3> QED  BY <1>1, <1>3, <3>1, <3>2, <3>3 DEF WriterAt
  <2> QED  BY <2>2, <2>4, <2>5, <2>6 DEF MainInv, Ring, Inside
<1>5. CASE (i[main] >= cnt[main] \/ q_isfull) /\ LoopEnd(main)
  <2>1. Len(log) = sent
    BY <1>0, <1>2, <1>3, <1>5
  <2>2. UNCHANGED queuevars /\ op' = [op EXCEPT ![main] = "none"] /\ UNCHANGED <<countvars, cnt, i>>
    BY <1>5 DEF LoopEnd
  <2>3. Ring' /\ (q_isempty' <=> q_isempty) /\ log' = log
    BY <1>0, <2>2, QuietQueue
  <2>4. /\ MainTypeOK' /\ Inside'
        /\ \A u \in Thread : u # main => UNCHANGED <<op[u], cnt[u], i[u]>>
    BY <1>0, <1>3, <1>5, <2>3, CopierKeeps
  <2>5. \A r \in Reader : ReaderAt(r)'
    BY <1>0, <1>1, <2>3, <2>4, ReaderStays
  <2>6. WriterAt'
    <3>1. op'[main] = "none" /\ count_wr' = count_wr
      BY <1>0, <1>1, <2>2 DEF PipeTypeOK, countvars
    <3> QED  BY <1>1, <1>3, <2>1, <2>3, <3>1 DEF WriterAt
  <2> QED  BY <2>3, <2>4, <2>5, <2>6 DEF MainInv, Ring, Inside
<1> QED  BY <1>4, <1>5 DEF WriteLoop

(* The copy loop of a reader: it leaves with a number, because the queue was *)
(* not empty when it locked me->mut. *)
LEMMA ReaderCopies ==
  ASSUME MainAssumption, MainInv, NEW r \in Reader, UNCHANGED <<mpc, k, sent, rpc>>, ReadLoop(r)
  PROVE  MainInv'
<1> USE PipeAssumption
<1>0. Ring /\ main \in Thread /\ main # r /\ r \in Thread /\ Reader \subseteq Thread
  BY MainFacts
<1>1. MainTypeOK /\ PipeTypeOK /\ WriterAt /\ \A u \in Reader : ReaderAt(u)
  BY DEF MainInv, MainTypeOK
<1>2. op[r] = "reading" /\ cnt[r] = 1 /\ i[r] \in Nat /\ rpc[r] = "read"
      /\ (i[r] = 0 => ~ q_isempty)
  BY <1>0, <1>1 DEF ReadLoop, ReaderAt, PipeTypeOK
<1>3. ASSUME WriterAt', ReaderAt(r)', \A u \in Reader : u # r => ReaderAt(u)', Ring',
             Copied(r) \/ LoopEnd(r)
      PROVE  MainInv'
  BY <1>0, <1>2, <1>3, CopierKeeps DEF MainInv, Ring, Inside
<1>4. ASSUME Ring', Copied(r) \/ LoopEnd(r), log' = log PROVE WriterAt'
  <2>1. op'[main] = op[main] /\ cnt'[main] = cnt[main] /\ i'[main] = i[main]
    BY <1>0, <1>2, <1>4, CopierKeeps
  <2>2. count_wr' = count_wr
    BY <1>4 DEF Copied, LoopEnd, countvars
  <2> QED  BY <1>1, <1>4, <2>1, <2>2 DEF WriterAt
<1>5. CASE i[r] < cnt[r] /\ q_dequeue /\ Copied(r)
  <2>1. Ring' /\ log' = log /\ ~ q_isempty
    BY <1>0, <1>5, DequeueKeeps DEF q_dequeue
  <2>2. i'[r] = i[r] + 1 /\ op' = op /\ cnt' = cnt
    BY <1>0, <1>1, <1>5 DEF Copied, PipeTypeOK
  <2>3. ReaderAt(r)'
    BY <1>1, <1>2, <2>2 DEF ReaderAt
  <2>4. \A u \in Reader : u # r => ReaderAt(u)'
    <3>1. \A u \in Thread : u # r => UNCHANGED <<op[u], cnt[u], i[u]>>
                                    /\ op[u] \notin {"reading", "writing"}
      BY <1>0, <1>2, <1>5, <2>1, CopierKeeps
    <3> QED  BY <1>0, <1>1, <2>1, <3>1, ReaderStaysInCopy
  <2> QED  BY <1>3, <1>4, <1>5, <2>1, <2>3, <2>4
<1>6. CASE (i[r] >= cnt[r] \/ q_isempty) /\ LoopEnd(r)
  <2>1. UNCHANGED queuevars /\ op' = [op EXCEPT ![r] = "none"] /\ UNCHANGED <<cnt, i>>
    BY <1>6 DEF LoopEnd
  <2>2. Ring' /\ (q_isempty' <=> q_isempty) /\ log' = log
    BY <1>0, <2>1, QuietQueue
  <2>3. i[r] # 0 /\ op'[r] = "none"
    BY <1>0, <1>1, <1>2, <1>6, <2>1 DEF PipeTypeOK
  <2>4. ReaderAt(r)'
    BY <1>1, <1>2, <2>1, <2>3 DEF ReaderAt
  <2>5. \A u \in Reader : u # r => ReaderAt(u)'
    <3>1. \A u \in Thread : u # r => UNCHANGED <<op[u], cnt[u], i[u]>>
      BY <1>0, <1>2, <1>6, <2>2, CopierKeeps
    <3> QED  BY <1>0, <1>1, <2>2, <3>1, ReaderStays
  <2> QED  BY <1>3, <1>4, <1>6, <2>2, <2>4, <2>5
<1> QED  BY <1>5, <1>6 DEF ReadLoop

(* A spurious wakeup disturbs nothing. *)
LEMMA WakeupKeeps ==
  ASSUME MainAssumption, MainInv, NEW t \in Thread, Wakeup(t)
  PROVE  MainInv'
<1>1. /\ waiters' \subseteq waiters
      /\ UNCHANGED <<queuevars, countvars, mut, op, cnt, i, mpc, k, sent, rpc>>
  BY DEF Wakeup, Spurious, callvars
<1>2. Ring' /\ (q_isempty' <=> q_isempty) /\ log' = log
  BY <1>1, MainFacts, QuietQueue
<1>3. MainTypeOK' /\ Inside' /\ WriterAt'
  BY <1>1, <1>2 DEF MainInv, MainTypeOK, PipeTypeOK, Ring, Inside, OneCopier, SleepersInCall,
     WriterAt, countvars
<1>4. \A r \in Reader : ReaderAt(r)'
  BY <1>1, <1>2, ReaderStays DEF MainInv
<1> QED  BY <1>2, <1>3, <1>4 DEF MainInv, Ring, Inside

(* MainInv holds in every reachable state of the program. *)
THEOREM MainInvariant == ASSUME MainAssumption PROVE Spec => []MainInv
<1>1. MainInv /\ [Next]_vars => MainInv'
  <2> SUFFICES ASSUME MainInv, [Next]_vars PROVE MainInv'
    OBVIOUS
  <2>1. CASE MainCreate \/ MainCreateFails \/ MainJoin \/ MainExit
    BY <2>1, OutsideKeeps DEF MainCreate, MainCreateFails, MainJoin, MainExit
  <2>2. CASE MainRegister \/ MainWrite \/ MainUnregister
    BY <2>2, MainCalls
  <2>3. CASE MainContinue
    BY <2>3, MainCalls, WriterCopies DEF MainContinue
  <2>4. ASSUME NEW r \in Reader, ReaderStep(r) PROVE MainInv'
    <3>1. CASE ReaderRegister(r) \/ ReaderRead(r)
      BY <2>4, <3>1, ReaderCalls DEF ReaderStep
    <3>2. CASE ReaderEnds(r)
      BY <2>4, <3>2, OutsideKeeps DEF ReaderStep, ReaderEnds
    <3>3. CASE ReaderContinue(r)
      BY <2>4, <3>3, ReaderCalls, ReaderCopies DEF ReaderStep, ReaderContinue
    <3> QED  BY <2>4, <3>1, <3>2, <3>3 DEF ReaderStep
  <2>5. ASSUME NEW t \in Thread, Wakeup(t) PROVE MainInv'
    BY <2>5, WakeupKeeps
  <2>6. CASE UNCHANGED vars
    BY <2>6, OutsideKeeps DEF vars
  <2> QED  BY <2>1, <2>2, <2>3, <2>4, <2>5, <2>6 DEF Next, Main, Over
<1> QED  BY <1>1, MainStarts, PTL DEF Spec

(* The result of mypipe_write, which writer() ignores, is always the whole *)
(* batch: outside the call the numbers sent are the numbers in the pipe's log. *)
THEOREM WritesWhole == ASSUME MainAssumption PROVE Spec => []WritesAreWhole
<1>1. MainInv => WritesAreWhole
  BY DEF MainInv, WriterAt, WritesAreWhole
<1> QED  BY <1>1, MainInvariant, PTL

(* When main.c destroys the pipe, every number has been read exactly once *)
(* and no thread is inside the pipe. *)
THEOREM EveryNumberTested == ASSUME MainAssumption PROVE Spec => []AllTested
<1>1. MainInv => AllTested
  <2> SUFFICES ASSUME MainInv, mpc = "exited"
               PROVE  /\ Len(got) = ARR_SIZE /\ \A j \in 1 .. ARR_SIZE : got[j] = j
                      /\ waiters = {} /\ \A t \in Thread : op[t] = "none"
    BY DEF AllTested
  <2>1. /\ Len(log) = Len(got) + Used /\ Len(got) \in Nat /\ (q_isempty <=> Used = 0)
        /\ \A t \in Thread : t = main \/ t \in Reader
    BY MainFacts
  <2>2. op[main] = "none" /\ Len(log) = ARR_SIZE /\ \A j \in 1 .. Len(log) : log[j] = j
    BY DEF MainInv, WriterAt
  <2>3. \A r \in Reader : rpc[r] = "done" /\ op[r] = "none" /\ q_isempty
    BY DEF MainInv, ReaderAt
  <2>4. 1 \in Reader
    BY DEF Reader, MainAssumption
  <2>5. Len(got) = ARR_SIZE
    BY <2>1, <2>2, <2>3, <2>4
  <2>6. \A j \in 1 .. ARR_SIZE : got[j] = j
    BY <2>2, <2>5 DEF MainInv, Fifo
  <2>7. \A t \in Thread : op[t] = "none"
    BY <2>1, <2>2, <2>3
  <2>8. waiters = {}
    BY <2>7 DEF MainInv, MainTypeOK, PipeTypeOK, SleepersInCall
  <2> QED  BY <2>5, <2>6, <2>7, <2>8
<1> QED  BY <1>1, MainInvariant, PTL
=============================================================================

-------------------------- MODULE PoolServerProofs --------------------------
(***************************************************************************)
(* The pre-forked server for every size of its table, every pair of limits *)
(* and every set of pids: workers keep to slots of their own, and the      *)
(* table is overrun only after a cell changed while it was being counted.  *)
(***************************************************************************)
EXTENDS PoolServer, FiniteSetTheorems, WellFoundedInduction, TLAPS

(* The least-number principle, from the well-foundedness of <. *)
LEMMA NatMin ==
  ASSUME NEW S, S \subseteq Nat, S # {}
  PROVE  \E m \in S : \A r \in S : m <= r
<1> DEFINE R == {ss \in Nat \X Nat : ss[1] < ss[2]}
<1>1. IsWellFoundedOn(R, Nat)
  <2>1. R = OpToRel(<, Nat)
    BY DEF OpToRel
  <2> QED  BY <2>1, NatLessThanWellFounded, Zenon
<1>2. PICK m \in S : \A y \in S : ~ (<<y, m>> \in R)
  <2> HIDE DEF R
  <2> QED  BY <1>1, WFMin
<1>3. ASSUME NEW r \in S PROVE m <= r
  <2>1. <<r, m>> \notin R /\ r \in Nat /\ m \in Nat
    BY <1>2
  <2>2. ~ (r < m)
    BY <2>1
  <2> QED  BY <2>1, <2>2
<1> QED  BY <1>3

(* The loops over pool_arr end at the first slot that qualifies. *)
LEMMA FirstSlot ==
  ASSUME NEW S, S \subseteq Slot, S # {}
  PROVE  LET s == CHOOSE s \in S : \A r \in S : s <= r
         IN  s \in S /\ \A r \in S : s <= r
<1>1. S \subseteq Nat
  BY LimitsAssumption DEF Slot
<1>2. \E s \in S : \A r \in S : s <= r
  BY <1>1, NatMin
<1> QED  BY <1>2

(* manage_workers goes on to a used slot or to the end, and skips no used slot. *)
LEMMA NextUsedLemma ==
  ASSUME NEW n \in Cell
  PROVE  /\ NextUsed(n) \in n .. MAXCLIENT
         /\ NextUsed(n) < MAXCLIENT => pid[NextUsed(n)] # NONE
         /\ \A s \in Slot \ Free : s < NextUsed(n) => s < n
<1> DEFINE u == {s \in Slot \ Free : s >= n}
<1>1. MAXCLIENT \in Nat /\ n \in 0 .. MAXCLIENT
  BY LimitsAssumption DEF Cell
<1>2. CASE u = {}
  <2>1. NextUsed(n) = MAXCLIENT
    BY <1>2 DEF NextUsed
  <2>2. \A s \in Slot \ Free : s < n
    BY <1>1, <1>2 DEF Slot
  <2> QED  BY <1>1, <2>1, <2>2
<1>3. CASE u # {}
  <2>1. NextUsed(n) = CHOOSE s \in u : \A r \in u : s <= r
    BY <1>3 DEF NextUsed
  <2>2. NextUsed(n) \in u /\ \A r \in u : NextUsed(n) <= r
    <3>1. u \subseteq Slot
      OBVIOUS
    <3> HIDE DEF u
    <3> QED  BY <1>3, <2>1, <3>1, FirstSlot
  <2>3. NextUsed(n) \in Slot /\ NextUsed(n) >= n /\ pid[NextUsed(n)] # NONE
    BY <2>2 DEF Free
  <2>4. ASSUME NEW s \in Slot \ Free, s < NextUsed(n) PROVE s < n
    <3>1. s \in Nat /\ NextUsed(n) \in Nat
      BY <1>1, <2>3 DEF Slot
    <3>2. s \notin u
      BY <2>2, <2>4, <3>1
    <3> QED  BY <1>1, <3>1, <3>2
  <2> QED  BY <1>1, <2>3, <2>4 DEF Slot
<1> QED  BY <1>2, <1>3

(* Used slots are countable, and all of them are at most MAXCLIENT many. *)
LEMMA BelowLemma ==
  ASSUME NEW n
  PROVE  /\ IsFiniteSet(Below(n)) /\ Cardinality(Below(n)) \in Nat
         /\ Cardinality(Below(n)) <= MAXCLIENT
         /\ Cardinality(Below(n)) = MAXCLIENT => Free = {}
<1>1. MAXCLIENT \in Nat /\ MAXCLIENT - 1 \in Int /\ 0 \in Int
  BY LimitsAssumption
<1>2. IsFiniteSet(Slot) /\ Cardinality(Slot) = MAXCLIENT
  <2>1. IsFiniteSet(Slot) /\ Cardinality(Slot) = IF 0 > MAXCLIENT - 1 THEN 0 ELSE MAXCLIENT - 1 - 0 + 1
    BY <1>1, FS_Interval DEF Slot
  <2> QED  BY <1>1, <2>1
<1>3. Below(n) \in SUBSET Slot
  BY DEF Below
<1>4. IsFiniteSet(Below(n)) /\ Cardinality(Below(n)) <= Cardinality(Slot)
      /\ (Cardinality(Slot) = Cardinality(Below(n)) => Slot = Below(n))
  BY <1>2, <1>3, FS_Subset
<1>5. Slot = Below(n) => Free = {}
  BY DEF Below, Free
<1> QED  BY <1>2, <1>4, <1>5, FS_CardinalityType

(* The initial state satisfies the inductive invariant. *)
LEMMA PoolStarts == Init => IInv
<1> SUFFICES ASSUME Init PROVE IInv
  OBVIOUS
<1>0. MAXCLIENT \in Nat /\ MINSEPARATE \in 1 .. MAXCLIENT /\ MaxClients \in Nat /\ MaxDeaths \in Nat
      /\ 0 \in Cell /\ MAXCLIENT \in Cell /\ Slot \subseteq Cell
  BY LimitsAssumption DEF Cell, Slot
<1>1. TypeOK
  <2>1. pid \in [Cell -> Pid \cup {NONE}] /\ state \in [Cell -> {"IDLE", "BUSY"}]
    BY DEF Init
  <2>2. wpc \in [Pid -> {"none", "start", "tell_idle", "accept", "accepted", "tell_busy", "serve"}]
        /\ num \in [Pid -> Cell]
    BY <1>0 DEF Init
  <2>3. idle_num = 0 /\ busy_num = 0 /\ i = 0 /\ mpc = "first" /\ backlog = 0 /\ clients = 0
        /\ deaths = 0
    BY DEF Init
  <2>4. pending \in BOOLEAN /\ raced \in BOOLEAN
    BY DEF Init
  <2> QED  BY <1>0, <2>1, <2>2, <2>3, <2>4 DEF TypeOK
<1>2. OwnSlot
  BY DEF Init, OwnSlot, Live
<1>3. Counting /\ backlog <= clients
  BY <1>0 DEF Init, Counting
<1>4. pid[MAXCLIENT] = NONE /\ mpc = "first" /\ idle_num = 0 /\ busy_num = 0
  BY <1>0 DEF Init
<1>5. Below(MAXCLIENT) = {}
  BY <1>0 DEF Init, Below, Free
<1>6. CountsAccurate
  BY <1>0, <1>4, <1>5, FS_EmptySet DEF CountsAccurate
<1> QED  BY <1>1, <1>2, <1>3, <1>4, <1>6 DEF IInv

(* What a worker or a client does leaves the parent's table, counters and  *)
(* place alone; it can only disturb the count of the cell being read, and  *)
(* raced records that.                                                     *)
LEMMA OthersKeep ==
  ASSUME IInv, UNCHANGED parent, TypeOK', backlog' <= clients',
         \A q \in Pid : Live(q)' => Live(q) /\ num'[q] = num[q],
         raced => raced',
         raced' \/ mpc # "idle?" \/ state'[i] = state[i]
  PROVE  IInv'
<1>0. UNCHANGED <<pid, idle_num, busy_num, mpc, i>>
  BY DEF parent
<1>1. OwnSlot'
  BY <1>0 DEF IInv, OwnSlot
<1>2. Counting'
  BY <1>0 DEF IInv, Counting
<1>3. \A n : Below(n)' = Below(n)
  BY <1>0 DEF Below, Free
<1>4. ASSUME ~ raced' PROVE (pid[MAXCLIENT] = NONE /\ CountsAccurate)'
  <2>1. pid[MAXCLIENT] = NONE /\ CountsAccurate
    BY <1>4 DEF IInv
  <2>2. mpc = "idle?" => BusyHere' = BusyHere
    BY <1>0, <1>4 DEF BusyHere
  <2> QED  BY <1>0, <1>3, <2>1, <2>2 DEF CountsAccurate
<1> QED  BY <1>1, <1>2, <1>4 DEF IInv

(* Every step of a worker, and a new client, keeps the invariant. *)
LEMMA WorkersKeep ==
  ASSUME IInv,
         \/ Connect
         \/ \E p \in Pid : WorkerStep(p) \/ Serve(p) \/ AcceptAgain(p) \/ WorkerDies(p)
  PROVE  IInv'
<1> DEFINE Places == {"none", "start", "tell_idle", "accept", "accepted", "tell_busy", "serve"}
<1>0. TypeOK /\ backlog <= clients /\ MaxClients \in Nat /\ MaxDeaths \in Nat
  BY LimitsAssumption DEF IInv
<1>t. /\ wpc \in [Pid -> Places] /\ num \in [Pid -> Cell] /\ state \in [Cell -> {"IDLE", "BUSY"}]
      /\ backlog \in 0 .. MaxClients /\ clients \in 0 .. MaxClients /\ deaths \in 0 .. MaxDeaths
      /\ pending \in BOOLEAN /\ raced \in BOOLEAN
  BY <1>0 DEF TypeOK
<1>s. ASSUME UNCHANGED parent, wpc' \in [Pid -> Places], num' \in [Pid -> Cell],
             state' \in [Cell -> {"IDLE", "BUSY"}], backlog' \in 0 .. MaxClients,
             clients' \in 0 .. MaxClients, deaths' \in 0 .. MaxDeaths, pending' \in BOOLEAN,
             raced' \in BOOLEAN
      PROVE  TypeOK'
  BY <1>0, <1>s DEF TypeOK, parent
<1>1. CASE Connect
  <2>1. UNCHANGED <<parent, state, pending, wpc, num, deaths, raced>>
        /\ clients < MaxClients /\ clients' = clients + 1 /\ backlog' = backlog + 1
    BY <1>1 DEF Connect
  <2>2. backlog' \in 0 .. MaxClients /\ clients' \in 0 .. MaxClients /\ backlog' <= clients'
    BY <1>0, <1>t, <2>1
  <2>3. TypeOK'
    BY <1>s, <1>t, <2>1, <2>2
  <2> QED  BY <2>1, <2>2, <2>3, OthersKeep DEF Live
<1>2. ASSUME NEW p \in Pid, NEW from \in Places, NEW to \in Places, Goto(p, from, to),
             from # "none", UNCHANGED num
      PROVE  wpc' \in [Pid -> Places] /\ \A q \in Pid : Live(q)' => Live(q) /\ num'[q] = num[q]
  <2>1. wpc[p] = from /\ wpc' = [wpc EXCEPT ![p] = to]
    BY <1>2 DEF Goto
  <2> QED  BY <1>t, <1>2, <2>1 DEF Live
<1>3. ASSUME NEW p \in Pid, SetIdle(p) \/ SetBusy(p) PROVE IInv'
  <2>1. PICK s \in {"IDLE", "BUSY"} : Publish(p, s)
    BY <1>3 DEF SetIdle, SetBusy
  <2>2. UNCHANGED <<parent, pending, num, backlog, clients, deaths>>
        /\ state' = [state EXCEPT ![num[p]] = s]
        /\ raced' = (raced \/ (mpc = "idle?" /\ i = num[p] /\ state[i] # s))
    BY <2>1 DEF Publish
  <2>3. wpc' \in [Pid -> Places] /\ \A q \in Pid : Live(q)' => Live(q) /\ num'[q] = num[q]
    BY <1>2, <1>3, <2>2 DEF SetIdle, SetBusy
  <2>4. state' \in [Cell -> {"IDLE", "BUSY"}]
    BY <1>t, <2>2
  <2>5. raced' \in BOOLEAN /\ (raced => raced')
    BY <2>2
  <2>6. raced' \/ mpc # "idle?" \/ state'[i] = state[i]
    <3>1. i \in Cell /\ num[p] \in Cell
      BY <1>0, <1>t DEF TypeOK
    <3>2. CASE i = num[p] /\ state[i] # s /\ mpc = "idle?"
      BY <2>2, <3>2
    <3>3. CASE i # num[p]
      BY <1>t, <2>2, <3>1, <3>3
    <3>4. CASE i = num[p] /\ state[i] = s
      BY <1>t, <2>2, <3>1, <3>4
    <3> QED  BY <3>2, <3>3, <3>4
  <2>7. TypeOK'
    BY <1>s, <1>t, <2>2, <2>3, <2>4, <2>5
  <2>8. backlog' <= clients'
    BY <1>0, <2>2
  <2> QED  BY <2>2, <2>3, <2>5, <2>6, <2>7, <2>8, OthersKeep
<1>4. ASSUME NEW p \in Pid, TellIdle(p) \/ TellBusy(p) \/ Accept(p) \/ AcceptAgain(p) \/ Serve(p)
      PROVE  IInv'
  <2>1. UNCHANGED <<parent, state, num, clients, deaths, raced>>
    BY <1>4 DEF TellIdle, TellBusy, Signal, Accept, AcceptAgain, Serve
  <2>2. pending' \in BOOLEAN
    BY <1>4, <1>t DEF TellIdle, TellBusy, Signal, Accept, AcceptAgain, Serve
  <2>3. backlog' = backlog \/ (backlog > 0 /\ backlog' = backlog - 1)
    BY <1>4 DEF TellIdle, TellBusy, Signal, Accept, AcceptAgain, Serve
  <2>4. backlog' \in 0 .. MaxClients /\ backlog' <= clients'
    BY <1>0, <1>t, <2>1, <2>3
  <2>5. wpc' \in [Pid -> Places] /\ \A q \in Pid : Live(q)' => Live(q) /\ num'[q] = num[q]
    BY <1>2, <1>4, <2>1 DEF TellIdle, TellBusy, Accept, AcceptAgain, Serve
  <2>6. TypeOK'
    BY <1>s, <1>t, <2>1, <2>2, <2>4, <2>5
  <2> QED  BY <2>1, <2>4, <2>5, <2>6, OthersKeep
<1>5. ASSUME NEW p \in Pid, WorkerDies(p) PROVE IInv'
  <2>1. UNCHANGED <<parent, state, pending, backlog, clients, raced>>
        /\ wpc' = [wpc EXCEPT ![p] = "none"] /\ num' = [num EXCEPT ![p] = 0]
        /\ deaths < MaxDeaths /\ deaths' = deaths + 1
    BY <1>5 DEF WorkerDies, Exit
  <2>2. deaths' \in 0 .. MaxDeaths /\ backlog' <= clients'
    BY <1>0, <1>t, <2>1
  <2>3. wpc' \in [Pid -> Places] /\ num' \in [Pid -> Cell]
    BY <1>t, <2>1, LimitsAssumption DEF Cell
  <2>4. \A q \in Pid : Live(q)' => Live(q) /\ num'[q] = num[q]
    BY <1>t, <2>1 DEF Live
  <2>5. TypeOK'
    BY <1>s, <1>t, <2>1, <2>2, <2>3
  <2> QED  BY <2>1, <2>2, <2>4, <2>5, OthersKeep
<1> QED  BY <1>1, <1>3, <1>4, <1>5 DEF WorkerStep

(* add_one_worker keeps the invariant: the new process gets a slot nobody  *)
(* has, or the cell behind the table, and without a race the counters are  *)
(* full before the table is.                                               *)
LEMMA AddKeeps ==
  ASSUME IInv, AddWorker
  PROVE  IInv'
<1>0. /\ TypeOK /\ OwnSlot /\ Counting /\ backlog <= clients
      /\ ~ raced => pid[MAXCLIENT] = NONE /\ CountsAccurate
  BY DEF IInv
<1>a. MAXCLIENT \in Nat /\ MINSEPARATE \in 1 .. MAXCLIENT /\ NONE \notin Pid
      /\ Slot \subseteq Cell /\ MAXCLIENT \in Cell /\ MAXCLIENT \notin Slot
  BY LimitsAssumption DEF Slot, Cell
<1>t. /\ pid \in [Cell -> Pid \cup {NONE}] /\ num \in [Pid -> Cell] /\ i \in 0 .. MAXCLIENT
      /\ idle_num \in 0 .. MAXCLIENT + 1 /\ busy_num \in 0 .. MAXCLIENT
      /\ wpc \in [Pid -> {"none", "start", "tell_idle", "accept", "accepted", "tell_busy", "serve"}]
  BY <1>0 DEF TypeOK, Cell
<1>1. \/ mpc = "first" /\ i < MINSEPARATE /\ busy_num = 0 /\ idle_num = i
      \/ mpc = "add" /\ i + idle_num < MINSEPARATE
  BY <1>0 DEF AddWorker, Adding, Counting
<1>2. i' = i + 1 /\ UNCHANGED <<mpc, pending, state, backlog, clients, deaths, raced, busy_num>>
  BY DEF AddWorker, add_one_worker
<1>3. i' \in Cell /\ idle_num + 1 \in 0 .. MAXCLIENT + 1
  BY <1>a, <1>t, <1>1, <1>2 DEF Cell
<1>4. CASE idle_num + busy_num = MAXCLIENT
  <2>1. UNCHANGED <<pid, idle_num, wpc, num>> /\ mpc = "add"
    BY <1>a, <1>t, <1>1, <1>4 DEF AddWorker, add_one_worker
  <2>2. TypeOK' /\ OwnSlot'
    BY <1>0, <1>2, <1>3, <2>1 DEF TypeOK, OwnSlot, Live
  <2>3. Counting'
    BY <1>2, <2>1 DEF Counting
  <2>4. Below(MAXCLIENT)' = Below(MAXCLIENT)
    BY <2>1 DEF Below, Free
  <2>5. ~ raced => (pid[MAXCLIENT] = NONE /\ CountsAccurate)'
    BY <1>0, <1>2, <2>1, <2>4 DEF CountsAccurate
  <2> QED  BY <1>0, <1>2, <2>2, <2>3, <2>5 DEF IInv
<1>5. CASE idle_num + busy_num # MAXCLIENT
  <2> DEFINE slot == IF Free = {} THEN MAXCLIENT ELSE CHOOSE s \in Free : \A r \in Free : s <= r
  <2>1. idle_num' = idle_num + 1
        /\ \E p \in NewPid : /\ wpc' = [wpc EXCEPT ![p] = "start"]
                             /\ num' = [num EXCEPT ![p] = slot]
                             /\ pid' = [pid EXCEPT ![slot] = p]
    BY <1>5 DEF AddWorker, add_one_worker
  <2>2. Free # {} => slot \in Free
    <3>1. Free \subseteq Slot
      BY DEF Free
    <3> QED  BY <3>1, FirstSlot
  <2>3. slot = MAXCLIENT \/ slot \in Free
    BY <2>2
  <2> HIDE DEF slot
  <2>4. slot \in Cell
    BY <1>a, <2>3 DEF Free
  <2>5. PICK p \in NewPid : /\ wpc' = [wpc EXCEPT ![p] = "start"]
                            /\ num' = [num EXCEPT ![p] = slot]
                            /\ pid' = [pid EXCEPT ![slot] = p]
    BY <2>1
  <2>6. p \in Pid /\ ~ Live(p)
    BY DEF NewPid
  <2>7. TypeOK'
    <3>1. pid' \in [Cell -> Pid \cup {NONE}] /\ num' \in [Pid -> Cell]
          /\ wpc' \in [Pid -> {"none", "start", "tell_idle", "accept", "accepted", "tell_busy", "serve"}]
      BY <1>t, <2>4, <2>5, <2>6
    <3> QED  BY <1>0, <1>2, <1>3, <2>1, <3>1 DEF TypeOK
  <2>8. OwnSlot'
    <3> SUFFICES ASSUME NEW q \in Pid, Live(q)' PROVE num'[q] = MAXCLIENT \/ pid'[num'[q]] = q
      BY DEF OwnSlot
    <3>1. CASE q = p
      BY <1>t, <2>4, <2>5, <2>6, <3>1
    <3>2. CASE q # p
      <4>1. Live(q) /\ num'[q] = num[q] /\ num[q] \in Cell
        BY <1>t, <2>5, <2>6, <3>2 DEF Live
      <4>2. num[q] = MAXCLIENT \/ pid[num[q]] = q
        BY <1>0, <4>1 DEF OwnSlot
      <4>3. num[q] # MAXCLIENT => num[q] # slot
        BY <1>a, <2>3, <4>2 DEF Free
      <4> QED  BY <1>t, <2>4, <2>5, <4>1, <4>2, <4>3
    <3> QED  BY <3>1, <3>2
  <2>9. Counting'
    BY <1>a, <1>t, <1>1, <1>2, <2>1 DEF Counting
  <2>10. ASSUME ~ raced PROVE (pid[MAXCLIENT] = NONE /\ CountsAccurate)'
    <3>1. /\ Cardinality(Below(MAXCLIENT)) <= idle_num + busy_num
          /\ idle_num + busy_num <= MAXCLIENT /\ pid[MAXCLIENT] = NONE
      BY <1>0, <1>1, <2>10 DEF CountsAccurate
    <3>2. IsFiniteSet(Below(MAXCLIENT)) /\ Cardinality(Below(MAXCLIENT)) \in Nat
          /\ Cardinality(Below(MAXCLIENT)) <= MAXCLIENT
      BY BelowLemma
    <3>3. Free # {}
      <4> SUFFICES ASSUME Free = {} PROVE FALSE
        OBVIOUS
      <4>1. Below(MAXCLIENT) = 0 .. MAXCLIENT - 1
        BY <1>a DEF Below, Slot
      <4>2. Cardinality(0 .. MAXCLIENT - 1) = IF 0 > MAXCLIENT - 1 THEN 0 ELSE MAXCLIENT - 1 - 0 + 1
        BY <1>a, FS_Interval
      <4>3. Cardinality(Below(MAXCLIENT)) = MAXCLIENT
        BY <1>a, <4>1, <4>2
      <4> QED  BY <1>a, <1>t, <1>5, <3>1, <4>3
    <3>4. slot \in Free /\ slot \in Slot /\ slot # MAXCLIENT
      BY <1>a, <2>2, <3>3 DEF Free
    <3>5. Below(MAXCLIENT)' = Below(MAXCLIENT) \cup {slot}
      <4>1. \A s \in Slot : pid'[s] = IF s = slot THEN p ELSE pid[s]
        BY <1>a, <1>t, <2>5, <3>4
      <4>2. \A s \in Slot : s < MAXCLIENT
        BY <1>a DEF Slot
      <4> QED  BY <1>a, <2>6, <3>4, <4>1, <4>2 DEF Below, Free
    <3>6. Cardinality(Below(MAXCLIENT)') <= Cardinality(Below(MAXCLIENT)) + 1
          /\ Cardinality(Below(MAXCLIENT)') \in Nat
      <4>1. IsFiniteSet(Below(MAXCLIENT) \cup {slot})
            /\ Cardinality(Below(MAXCLIENT) \cup {slot}) =
                 IF slot \in Below(MAXCLIENT) THEN Cardinality(Below(MAXCLIENT))
                                              ELSE Cardinality(Below(MAXCLIENT)) + 1
        BY <3>2, FS_AddElement
      <4> QED  BY <3>2, <3>5, <4>1
    <3>7. pid'[MAXCLIENT] = NONE
      BY <1>a, <1>t, <2>5, <3>1, <3>4
    <3>8. mpc' \in {"first", "add"} /\ idle_num' + busy_num' = idle_num + busy_num + 1
      BY <1>t, <1>1, <1>2, <2>1
    <3>9. Cardinality(Below(MAXCLIENT)') <= idle_num' + busy_num' /\ idle_num' + busy_num' <= MAXCLIENT
      BY <1>a, <1>t, <1>5, <3>1, <3>2, <3>6, <3>8
    <3> QED  BY <3>7, <3>8, <3>9 DEF CountsAccurate
  <2> QED  BY <1>0, <1>2, <2>7, <2>8, <2>9, <2>10 DEF IInv
<1> QED  BY <1>4, <1>5

(* del_one_worker keeps the invariant: the slot is emptied together with   *)
(* the process that owned it.                                              *)
LEMMA DelKeeps ==
  ASSUME IInv, DelWorker
  PROVE  IInv'
<1>0. TypeOK /\ OwnSlot /\ backlog <= clients /\ (~ raced => pid[MAXCLIENT] = NONE)
  BY DEF IInv
<1>a. MAXCLIENT \in Nat /\ MAXSEPARATE \in 1 .. MAXCLIENT /\ NONE \notin Pid
      /\ Slot \subseteq Cell /\ 0 \in Cell /\ MAXCLIENT \notin Slot /\ MAXCLIENT \in Cell
  BY LimitsAssumption DEF Slot, Cell
<1>t. /\ pid \in [Cell -> Pid \cup {NONE}] /\ num \in [Pid -> Cell] /\ i \in 0 .. MAXCLIENT
      /\ idle_num \in 0 .. MAXCLIENT + 1
      /\ wpc \in [Pid -> {"none", "start", "tell_idle", "accept", "accepted", "tell_busy", "serve"}]
  BY <1>0 DEF TypeOK, Cell
<1>1. mpc = "del" /\ i + MAXSEPARATE < idle_num /\ i' = i + 1
      /\ UNCHANGED <<idle_num, busy_num, mpc, pending, state, backlog, clients, deaths, raced>>
  BY DEF DelWorker, Deleting
<1>2. i' \in Cell
  BY <1>a, <1>t, <1>1 DEF Cell
<1>3. Counting' /\ CountsAccurate'
  BY <1>1 DEF Counting, CountsAccurate
<1>4. CASE Slot \ Free = {}
  <2>1. UNCHANGED <<pid, wpc, num>>
    BY <1>4 DEF DelWorker, del_one_worker
  <2>2. TypeOK' /\ OwnSlot'
    BY <1>0, <1>1, <1>2, <2>1 DEF TypeOK, OwnSlot, Live
  <2> QED  BY <1>0, <1>1, <1>3, <2>1, <2>2 DEF IInv
<1>5. CASE Slot \ Free # {}
  <2> DEFINE s == CHOOSE s \in Slot \ Free : \A r \in Slot \ Free : s <= r
  <2>1. wpc' = [wpc EXCEPT ![pid[s]] = "none"] /\ num' = [num EXCEPT ![pid[s]] = 0]
        /\ pid' = [pid EXCEPT ![s] = NONE]
    BY <1>5 DEF DelWorker, del_one_worker, Exit
  <2>2. s \in Slot \ Free
    BY <1>5, FirstSlot
  <2> HIDE DEF s
  <2>3. s \in Slot /\ s \in Cell /\ pid[s] \in Pid
    BY <1>a, <1>t, <2>2 DEF Free
  <2>4. TypeOK'
    <3>1. pid' \in [Cell -> Pid \cup {NONE}] /\ num' \in [Pid -> Cell]
          /\ wpc' \in [Pid -> {"none", "start", "tell_idle", "accept", "accepted", "tell_busy", "serve"}]
      BY <1>a, <1>t, <2>1, <2>3
    <3> QED  BY <1>0, <1>1, <1>2, <3>1 DEF TypeOK
  <2>5. OwnSlot'
    <3> SUFFICES ASSUME NEW q \in Pid, Live(q)' PROVE num'[q] = MAXCLIENT \/ pid'[num'[q]] = q
      BY DEF OwnSlot
    <3>1. q # pid[s] /\ Live(q) /\ num'[q] = num[q] /\ num[q] \in Cell
      BY <1>t, <2>1, <2>3 DEF Live
    <3>2. num[q] = MAXCLIENT \/ pid[num[q]] = q
      BY <1>0, <3>1 DEF OwnSlot
    <3> QED  BY <1>t, <2>1, <2>3, <3>1, <3>2
  <2>6. pid'[MAXCLIENT] = pid[MAXCLIENT]
    BY <1>a, <1>t, <2>1, <2>3
  <2> QED  BY <1>0, <1>1, <1>3, <2>4, <2>5, <2>6 DEF IInv
<1> QED  BY <1>4, <1>5

(* Waking up, the pass of manage_workers over the table, its end and a     *)
(* failing fork keep the invariant.                                        *)
LEMMA CountKeeps ==
  ASSUME IInv, Sigsuspend \/ CountBusy \/ CountIdle \/ Counted \/ ForkFails
  PROVE  IInv'
<1>0. /\ TypeOK /\ OwnSlot /\ Counting /\ backlog <= clients
      /\ ~ raced => pid[MAXCLIENT] = NONE /\ CountsAccurate
  BY DEF IInv
<1>a. MAXCLIENT \in Nat /\ NONE \notin Pid /\ Slot \subseteq Cell /\ MAXCLIENT \in Cell
      /\ 0 \in Cell /\ MAXCLIENT \notin Slot /\ Cell = 0 .. MAXCLIENT
  BY LimitsAssumption DEF Slot, Cell
<1>t. /\ pid \in [Cell -> Pid \cup {NONE}] /\ num \in [Pid -> Cell] /\ i \in 0 .. MAXCLIENT
      /\ state \in [Cell -> {"IDLE", "BUSY"}]
      /\ idle_num \in 0 .. MAXCLIENT + 1 /\ busy_num \in 0 .. MAXCLIENT
  BY <1>0 DEF TypeOK, Cell
<1>1. UNCHANGED <<wpc, num, state, backlog, clients, deaths, raced>> /\ pending' \in BOOLEAN
  BY <1>0 DEF Sigsuspend, CountBusy, CountIdle, Counted, ForkFails, workers, TypeOK
<1>s. ASSUME pid' \in [Cell -> Pid \cup {NONE}], i' \in Cell,
             idle_num' \in 0 .. MAXCLIENT + 1, busy_num' \in 0 .. MAXCLIENT,
             mpc' \in {"busy?", "idle?", "add", "del", "exited"}
      PROVE  TypeOK'
  BY <1>0, <1>1, <1>s DEF TypeOK
<1>o. ASSUME UNCHANGED pid PROVE OwnSlot' /\ \A n : Below(n)' = Below(n)
  BY <1>0, <1>1, <1>o DEF OwnSlot, Live, Below, Free
<1>2. CASE Sigsuspend
  <2>1. mpc' = "busy?" /\ i' = NextUsed(0) /\ idle_num' = 0 /\ busy_num' = 0 /\ UNCHANGED pid
    BY <1>2 DEF Sigsuspend
  <2>2. i' \in 0 .. MAXCLIENT /\ (i' < MAXCLIENT => pid[i'] # NONE)
        /\ \A s \in Slot \ Free : s < i' => s < 0
    BY <1>a, <2>1, NextUsedLemma
  <2>3. TypeOK'
    BY <1>a, <1>s, <1>t, <2>1, <2>2
  <2>4. Counting'
    BY <2>1, <2>2 DEF Counting
  <2>5. Below(i)' = {}
    <3>1. \A s \in Slot : ~ (s < 0)
      BY <1>a DEF Slot
    <3> QED  BY <1>o, <2>1, <2>2, <3>1 DEF Below
  <2>6. CountsAccurate'
    BY <2>1, <2>2, <2>5, FS_EmptySet DEF CountsAccurate
  <2> QED  BY <1>0, <1>1, <1>o, <2>1, <2>3, <2>4, <2>6 DEF IInv
<1>3. CASE CountBusy
  <2>1. /\ mpc = "busy?" /\ i < MAXCLIENT /\ mpc' = "idle?" /\ UNCHANGED <<idle_num, i>>
        /\ pid' = IF Live(pid[i]) THEN pid ELSE [pid EXCEPT ![i] = NONE]
        /\ busy_num' = busy_num + BusyHere
    BY <1>3, <1>t DEF CountBusy, BusyHere
  <2>2. BusyHere \in 0 .. 1 /\ BusyHere' = BusyHere
    BY <1>1, <2>1 DEF BusyHere
  <2>3. idle_num <= i /\ busy_num <= i /\ pid[i] \in Pid /\ i \in Slot
    BY <1>0, <1>a, <1>t, <2>1 DEF Counting, Slot
  <2>4. busy_num' \in 0 .. MAXCLIENT /\ busy_num' <= i + 1
    BY <1>a, <1>t, <2>1, <2>2, <2>3
  <2>5. pid' \in [Cell -> Pid \cup {NONE}] /\ pid'[MAXCLIENT] = pid[MAXCLIENT]
        /\ \A s \in Slot : s # i => pid'[s] = pid[s]
    BY <1>a, <1>t, <2>1, <2>3
  <2>6. TypeOK'
    BY <1>a, <1>s, <1>t, <2>1, <2>4, <2>5
  <2>7. Counting'
    BY <2>1, <2>3, <2>4 DEF Counting
  <2>8. OwnSlot'
    <3> SUFFICES ASSUME NEW q \in Pid, Live(q) PROVE num[q] = MAXCLIENT \/ pid'[num[q]] = q
      BY <1>1 DEF OwnSlot, Live
    <3>1. num[q] = MAXCLIENT \/ pid[num[q]] = q
      BY <1>0 DEF OwnSlot
    <3>2. ~ Live(pid[i]) => num[q] # i \/ num[q] = MAXCLIENT
      BY <3>1
    <3> QED  BY <1>t, <1>a, <2>1, <3>1, <3>2
  <2>9. Below(i)' = Below(i)
    <3>1. \A s \in Slot : s < i => s # i
      BY <1>a, <1>t DEF Slot
    <3> QED  BY <2>1, <2>5, <3>1 DEF Below, Free
  <2>10. ASSUME ~ raced PROVE CountsAccurate'
    <3>1. Cardinality(Below(i)) <= idle_num + busy_num /\ idle_num + busy_num <= i
      BY <1>0, <2>1, <2>10 DEF CountsAccurate
    <3>2. Cardinality(Below(i)) \in Nat
      BY BelowLemma
    <3>3. Cardinality(Below(i)') + BusyHere' <= idle_num' + busy_num'
          /\ idle_num' + busy_num' <= i' + BusyHere'
      BY <1>t, <2>1, <2>2, <2>9, <3>1, <3>2
    <3> QED  BY <2>1, <3>3 DEF CountsAccurate
  <2> QED  BY <1>0, <1>1, <2>5, <2>6, <2>7, <2>8, <2>10 DEF IInv
<1>4. CASE CountIdle
  <2>1. /\ mpc = "idle?" /\ mpc' = "busy?" /\ i' = NextUsed(i + 1) /\ UNCHANGED <<pid, busy_num>>
        /\ idle_num' = IF state[i] = "IDLE" THEN idle_num + 1 ELSE idle_num
    BY <1>4 DEF CountIdle
  <2>2. i < MAXCLIENT /\ idle_num <= i /\ busy_num <= i + 1 /\ i + 1 \in Cell
    BY <1>0, <1>a, <1>t, <2>1 DEF Counting
  <2>3. i' \in (i + 1) .. MAXCLIENT /\ (i' < MAXCLIENT => pid[i'] # NONE)
        /\ \A s \in Slot \ Free : s < i' => s < i + 1
    BY <2>1, <2>2, NextUsedLemma
  <2>4. idle_num' \in 0 .. MAXCLIENT + 1 /\ idle_num' <= i' /\ busy_num' <= i' /\ i' \in 0 .. MAXCLIENT
    BY <1>a, <1>t, <2>1, <2>2, <2>3
  <2>5. TypeOK'
    BY <1>a, <1>s, <1>t, <2>1, <2>4
  <2>6. Counting'
    BY <2>1, <2>3, <2>4 DEF Counting
  <2>7. ASSUME ~ raced PROVE CountsAccurate'
    <3>1. Cardinality(Below(i)) + BusyHere <= idle_num + busy_num
          /\ idle_num + busy_num <= i + BusyHere
      BY <1>0, <2>1, <2>7 DEF CountsAccurate
    <3>2. idle_num' + busy_num' + BusyHere = idle_num + busy_num + 1 /\ BusyHere \in 0 .. 1
      <4>1. state[i] \in {"IDLE", "BUSY"}
        BY <1>a, <1>t
      <4> QED  BY <1>t, <2>1, <4>1 DEF BusyHere
    <3>3. IsFiniteSet(Below(i)) /\ Cardinality(Below(i)) \in Nat
          /\ IsFiniteSet(Below(i')) /\ Cardinality(Below(i')) \in Nat
      BY BelowLemma
    <3>4. Below(i') \in SUBSET (Below(i) \cup {i})
      <4>1. \A s \in Slot : s < i + 1 => s < i \/ s = i
        BY <1>t, <1>a DEF Slot
      <4> QED  BY <2>3, <4>1 DEF Below
    <3>5. Cardinality(Below(i')) <= Cardinality(Below(i)) + 1
      <4>1. IsFiniteSet(Below(i) \cup {i})
            /\ Cardinality(Below(i) \cup {i}) = IF i \in Below(i) THEN Cardinality(Below(i))
                                                                 ELSE Cardinality(Below(i)) + 1
        BY <3>3, FS_AddElement
      <4>2. Cardinality(Below(i')) <= Cardinality(Below(i) \cup {i})
        BY <3>4, <4>1, FS_Subset
      <4> QED  BY <3>3, <4>1, <4>2
    <3>6. Below(i)' = Below(i')
      BY <2>1 DEF Below, Free
    <3>7. Cardinality(Below(i)') <= idle_num' + busy_num' /\ idle_num' + busy_num' <= i'
      BY <1>t, <2>1, <2>3, <2>4, <3>1, <3>2, <3>3, <3>5, <3>6
    <3> QED  BY <2>1, <3>7 DEF CountsAccurate
  <2> QED  BY <1>0, <1>1, <1>o, <2>1, <2>5, <2>6, <2>7 DEF IInv
<1>5. CASE Counted
  <2>1. mpc = "busy?" /\ i = MAXCLIENT /\ i' = 0 /\ mpc' \in {"add", "del"}
        /\ UNCHANGED <<pid, idle_num, busy_num>>
    BY <1>5 DEF Counted
  <2>2. TypeOK'
    BY <1>a, <1>s, <1>t, <2>1
  <2>3. Counting'
    BY <2>1 DEF Counting
  <2>4. ~ raced => CountsAccurate'
    BY <1>0, <1>o, <2>1 DEF CountsAccurate
  <2> QED  BY <1>0, <1>1, <1>o, <2>1, <2>2, <2>3, <2>4 DEF IInv
<1>6. CASE ForkFails
  <2>1. mpc' = "exited" /\ UNCHANGED <<pid, idle_num, busy_num, i>>
    BY <1>6 DEF ForkFails
  <2>2. TypeOK'
    BY <1>a, <1>s, <1>t, <2>1
  <2>3. Counting' /\ CountsAccurate'
    BY <2>1 DEF Counting, CountsAccurate
  <2> QED  BY <1>0, <1>1, <1>o, <2>1, <2>2, <2>3 DEF IInv
<1> QED  BY <1>2, <1>3, <1>4, <1>5, <1>6

(* The inductive invariant holds in every reachable state. *)
THEOREM PoolInvariant == Spec => []IInv
<1>1. IInv /\ UNCHANGED vars => IInv'
  <2> SUFFICES ASSUME IInv, UNCHANGED vars PROVE IInv'
    OBVIOUS
  <2>1. UNCHANGED <<pid, idle_num, busy_num, mpc, i, state, pending, wpc, num, backlog, clients,
                    deaths, raced>>
    BY DEF vars, parent
  <2>2. TypeOK'
    BY <2>1 DEF IInv, TypeOK
  <2> QED  BY <2>1, <2>2, OthersKeep DEF IInv, Live, parent
<1>2. IInv /\ Next => IInv'
  BY AddKeeps, DelKeeps, CountKeeps, WorkersKeep DEF Next, Parent
<1> QED  BY <1>1, <1>2, PoolStarts, PTL DEF Spec

(* Type correctness: the counters of manage_workers never pass the size of *)
(* the table, whatever the workers write while it counts.                  *)
THEOREM PoolTypes == Spec => []TypeOK
<1>1. IInv => TypeOK
  BY DEF IInv
<1> QED  BY <1>1, PoolInvariant, PTL

(* No two workers of the table share a state cell, although pids and slots *)
(* are used again and workers die unseen.                                  *)
THEOREM WorkersOwnTheirSlots == Spec => []OwnSlot
<1>1. IInv => OwnSlot
  BY DEF IInv
<1> QED  BY <1>1, PoolInvariant, PTL

(* The table is overrun only after a race: add_one_worker goes behind its  *)
(* end only if some cell changed between its two reads.                    *)
THEOREM NoOverflowWithoutRace == Spec => []OverflowNeedsRace
<1>1. IInv => OverflowNeedsRace
  BY DEF IInv, OverflowNeedsRace
<1> QED  BY <1>1, PoolInvariant, PTL
=============================================================================

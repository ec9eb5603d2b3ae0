----------------------------- MODULE TimerProofs -----------------------------
(***************************************************************************)
(* Proofs about the timer containers and about the list in the server that *)
(* uses it.  For any number of timers, slots and connections and any       *)
(* timeouts:                                                               *)
(*  - the wheel fires every timer at the tick that its timeout asks for;   *)
(*  - the links of the list always spell out the timers it should hold,    *)
(*    each once and in ascending order, also in the server, where they are *)
(*    those of the open connections;                                       *)
(*  - the heap loses no timer and holds none twice, though its order is    *)
(*    not that of expiry.                                                  *)
(***************************************************************************)
EXTENDS TimerContainers, ConnServer, FiniteSetTheorems, WellFoundedInduction, TLAPS

-----------------------------------------------------------------------------
(* The wheel *)

(* Arithmetic on ticks and slots. *)
LEMMA Division ==
    ASSUME NEW x \in Nat
    PROVE  /\ x \div N \in Nat /\ x % N \in 0..(N - 1)
           /\ x = (x \div N) * N + (x % N)
  BY SlotsAssumption

LEMMA WrapOnce ==
    ASSUME NEW x \in Nat, x < 2 * N
    PROVE  x % N = IF x < N THEN x ELSE x - N
  BY SlotsAssumption

LEMMA Turns ==
    ASSUME NEW r \in Nat
    PROVE  (r + 1) * N = r * N + N
  BY SlotsAssumption
-----------------------------------------------------------------------------
(* The inductive invariant: what the wheel is typed to hold, and where. *)
IInv == TypeOK /\ WheelOnTime

LEMMA InitIInv == Init => IInv
<1> SUFFICES ASSUME Init PROVE IInv
  OBVIOUS
<1>1. 0 \in 0..(N - 1)
  BY SlotsAssumption
<1> QED
  BY <1>1 DEF Init, W!WheelInit, IInv, TypeOK, WheelOnTime

(* Adding: the slot and the turns of the new timer make up its timeout.    *)
LEMMA AddStep ==
    ASSUME IInv, NEW t \in Timer, NEW k \in Timeouts, Add(t, k) PROVE IInv'
<1> DEFINE ticks == W!Ticks(k)
           ts == (cur_slot + (ticks % N)) % N
<1>0. TypeOK /\ WheelOnTime /\ t \notin live /\ N \in Nat \ {0}
  BY SlotsAssumption DEF IInv, Add
<1>1. ticks \in Nat
  BY ClientAssumption DEF W!Ticks
<1>2. /\ ticks \div N \in Nat /\ ticks % N \in 0..(N - 1)
      /\ ticks = (ticks \div N) * N + (ticks % N)
  BY <1>1, Division
<1>3. cur_slot \in 0..(N - 1)
  BY <1>0 DEF TypeOK
<1>4. ts \in 0..(N - 1) /\ ts = IF cur_slot + (ticks % N) < N THEN cur_slot + (ticks % N)
                                ELSE cur_slot + (ticks % N) - N
  <2> DEFINE x == cur_slot + (ticks % N)
  <2>1. x \in Nat /\ x < 2 * N
    BY <1>0, <1>2, <1>3
  <2> HIDE DEF x, ticks
  <2>2. x % N = (IF x < N THEN x ELSE x - N) /\ x % N \in 0..(N - 1)
    BY <2>1, WrapOnce, Division
  <2> QED
    BY <1>0, <1>2, <1>3, <2>1, <2>2 DEF x
<1>5. ticks % N = IF ts >= cur_slot THEN ts - cur_slot ELSE ts - cur_slot + N
  <2> HIDE DEF ts, ticks
  <2> QED
    BY <1>0, <1>2, <1>3, <1>4
<1>6. /\ left' = [left EXCEPT ![t] = ticks] /\ live' = live \cup {t}
      /\ rotation' = [rotation EXCEPT ![t] = ticks \div N]
      /\ time_slot' = [time_slot EXCEPT ![t] = ts]
      /\ slots' = [slots EXCEPT ![ts] = @ \cup {t}]
      /\ cur_slot' = cur_slot
  BY DEF Add, W!add_timer
<1> HIDE DEF ts, ticks
<1>7. TypeOK'
  BY <1>0, <1>1, <1>2, <1>4, <1>6 DEF TypeOK
<1>8. ASSUME NEW s \in 0..(N - 1), NEW u \in slots'[s] PROVE u \in live' /\ time_slot'[u] = s
  BY <1>0, <1>4, <1>6 DEF TypeOK, WheelOnTime
<1>9. ASSUME NEW u \in live'
      PROVE  /\ u \in slots'[time_slot'[u]]
             /\ rotation'[u] * N + W!Distance(time_slot[u])' = left'[u]
  <2>1. CASE u = t
    BY <1>0, <1>2, <1>4, <1>5, <1>6, <2>1 DEF TypeOK, W!Distance
  <2>2. CASE u # t
    <3>1. u \in live /\ rotation'[u] = rotation[u] /\ time_slot'[u] = time_slot[u]
          /\ left'[u] = left[u]
      BY <1>0, <1>6, <2>2 DEF TypeOK
    <3>2. time_slot[u] \in 0..(N - 1)
      BY <1>0, <3>1 DEF TypeOK
    <3> QED
      BY <1>0, <1>4, <1>6, <3>1, <3>2 DEF TypeOK, WheelOnTime, W!Distance
  <2> QED
    BY <2>1, <2>2
<1> QED
  BY <1>7, <1>8, <1>9 DEF IInv, WheelOnTime

LEMMA DelStep == ASSUME IInv, NEW t \in Timer, Del(t) PROVE IInv'
<1>0. TypeOK /\ WheelOnTime /\ t \in live /\ 0 \in 0..(N - 1)
  BY SlotsAssumption DEF IInv, Del, Known
<1>1. /\ slots' = [slots EXCEPT ![time_slot[t]] = @ \ {t}]
      /\ rotation' = [rotation EXCEPT ![t] = 0] /\ time_slot' = [time_slot EXCEPT ![t] = 0]
      /\ live' = live \ {t} /\ UNCHANGED <<cur_slot, left>>
  BY DEF Del, W!del_timer
<1>2. TypeOK'
  BY <1>0, <1>1 DEF TypeOK
<1>3. ASSUME NEW s \in 0..(N - 1), NEW u \in slots'[s] PROVE u \in live' /\ time_slot'[u] = s
  <2>1. u \in slots[s]
    BY <1>0, <1>1 DEF TypeOK
  <2>2. u \in live /\ time_slot[u] = s /\ u \in Timer
    BY <1>0, <2>1 DEF WheelOnTime, TypeOK
  <2>3. u # t
    BY <1>0, <1>1, <2>2 DEF TypeOK
  <2> QED
    BY <1>0, <1>1, <2>2, <2>3 DEF TypeOK
<1>4. ASSUME NEW u \in live'
      PROVE  /\ u \in slots'[time_slot'[u]]
             /\ rotation'[u] * N + W!Distance(time_slot[u])' = left'[u]
  <2>1. /\ u \in live /\ u # t /\ rotation'[u] = rotation[u] /\ time_slot'[u] = time_slot[u]
        /\ time_slot[u] \in 0..(N - 1) /\ u \in slots[time_slot[u]]
    BY <1>0, <1>1 DEF TypeOK, WheelOnTime
  <2>2. u \in slots'[time_slot[u]]
    BY <1>0, <1>1, <2>1 DEF TypeOK
  <2> QED
    BY <1>0, <1>1, <2>1, <2>2 DEF WheelOnTime, W!Distance
<1> QED
  BY <1>2, <1>3, <1>4 DEF IInv, WheelOnTime

(* Prolonging: one more turn is N more ticks.                              *)
LEMMA AdjustStep == ASSUME IInv, NEW t \in Timer, Adjust(t) PROVE IInv'
<1>0. TypeOK /\ WheelOnTime /\ t \in live /\ N \in Nat \ {0}
  BY SlotsAssumption DEF IInv, Adjust, Known
<1>1. /\ left' = [left EXCEPT ![t] = @ + N] /\ rotation' = [rotation EXCEPT ![t] = @ + 1]
      /\ UNCHANGED <<slots, cur_slot, time_slot, live>>
  BY DEF Adjust, W!adjust_timer
<1>2. TypeOK'
  BY <1>0, <1>1 DEF TypeOK
<1>3. ASSUME NEW u \in live'
      PROVE  rotation'[u] * N + W!Distance(time_slot[u])' = left'[u]
  <2>1. u \in live /\ rotation[u] \in Nat /\ time_slot[u] \in 0..(N - 1)
        /\ cur_slot \in 0..(N - 1) /\ left[u] \in Int
    BY <1>0, <1>1 DEF TypeOK
  <2>2. rotation[u] * N + W!Distance(time_slot[u]) = left[u] /\ W!Distance(time_slot[u]) \in Int
    BY <1>0, <2>1 DEF WheelOnTime, W!Distance
  <2>3. W!Distance(time_slot[u])' = W!Distance(time_slot[u])
    BY <1>1 DEF W!Distance
  <2>4. (rotation[u] + 1) * N = rotation[u] * N + N /\ rotation[u] * N \in Int
    BY <1>0, <2>1, Turns
  <2>5. CASE u = t
    <3>1. rotation'[u] = rotation[u] + 1 /\ left'[u] = left[u] + N
      BY <1>0, <1>1, <2>5 DEF TypeOK
    <3> QED
      BY <1>0, <2>1, <2>2, <2>3, <2>4, <3>1
  <2>6. CASE u # t
    BY <1>0, <1>1, <2>1, <2>2, <2>3, <2>6 DEF TypeOK
  <2> QED
    BY <2>5, <2>6
<1> QED
  BY <1>0, <1>1, <1>2, <1>3 DEF IInv, WheelOnTime

(* A tick: the timers due are those with no time left, and each other one  *)
(* comes a slot nearer, by a turn of the wheel if it was in this slot.     *)
LEMMA TickStep == ASSUME IInv, Tick PROVE IInv'
<1>0. TypeOK /\ WheelOnTime /\ N \in Nat \ {0} /\ cur_slot \in 0..(N - 1)
  BY SlotsAssumption DEF IInv, TypeOK
<1>1. /\ left' = [t \in Timer |-> IF t \in live \cup H!InHeap THEN left[t] - 1 ELSE 0]
      /\ live' = {t \in live : left[t] > 0}
      /\ slots' = [slots EXCEPT ![cur_slot] = @ \ W!Due]
      /\ rotation' = [t \in Timer |-> IF t \in slots[cur_slot] \ W!Due
                                       THEN rotation[t] - 1 ELSE rotation[t]]
      /\ cur_slot' = (cur_slot + 1) % N
      /\ time_slot' = [t \in Timer |-> IF t \in W!Due THEN 0 ELSE time_slot[t]]
  BY DEF Tick, W!tick
<1>2. cur_slot' \in 0..(N - 1) /\ cur_slot' = IF cur_slot + 1 < N THEN cur_slot + 1 ELSE 0
  <2> DEFINE x == cur_slot + 1
  <2>1. x \in Nat /\ x < 2 * N
    BY <1>0
  <2> HIDE DEF x
  <2>2. x % N = IF x < N THEN x ELSE x - N
    BY <2>1, WrapOnce
  <2> QED
    BY <1>0, <1>1, <2>1, <2>2 DEF x
<1>3. ASSUME NEW t \in live
      PROVE  /\ t \in Timer /\ rotation[t] \in Nat /\ time_slot[t] \in 0..(N - 1)
             /\ W!Distance(time_slot[t]) \in 0..(N - 1)
             /\ rotation[t] * N \in Nat /\ rotation[t] * N + W!Distance(time_slot[t]) = left[t]
             /\ t \in slots[cur_slot] <=> time_slot[t] = cur_slot
             /\ W!Distance(time_slot[t]) = 0 <=> time_slot[t] = cur_slot
             /\ t \in W!Due <=> left[t] = 0
  <2>1. t \in Timer /\ rotation[t] \in Nat /\ time_slot[t] \in 0..(N - 1)
    BY <1>0 DEF TypeOK
  <2>2. /\ W!Distance(time_slot[t]) \in 0..(N - 1)
        /\ W!Distance(time_slot[t]) = 0 <=> time_slot[t] = cur_slot
    BY <1>0, <2>1 DEF W!Distance
  <2>3. /\ rotation[t] * N \in Nat /\ (rotation[t] # 0 => rotation[t] * N > 0)
        /\ rotation[t] = 0 => rotation[t] * N = 0
    BY <1>0, <2>1
  <2>4. rotation[t] * N + W!Distance(time_slot[t]) = left[t] /\ t \in slots[time_slot[t]]
    BY <1>0 DEF WheelOnTime
  <2>5. t \in slots[cur_slot] <=> time_slot[t] = cur_slot
    BY <1>0, <2>4 DEF WheelOnTime
  <2>6. t \in W!Due <=> (rotation[t] = 0 /\ time_slot[t] = cur_slot)
    BY <2>5 DEF W!Due
  <2> QED
    BY <2>1, <2>2, <2>3, <2>4, <2>5, <2>6
<1>4. W!Due \subseteq live /\ slots[cur_slot] \subseteq live
  BY <1>0 DEF W!Due, WheelOnTime
<1>5. \A t \in live : t \in live' <=> t \notin W!Due
  <2> SUFFICES ASSUME NEW t \in live PROVE t \in live' <=> t \notin W!Due
    OBVIOUS
  <2>1. left[t] \in Nat /\ (t \in W!Due <=> left[t] = 0)
    BY <1>3
  <2> QED
    BY <1>1, <2>1
<1>6. TypeOK'
  <2>1. slots' \in [0..(N - 1) -> SUBSET Timer]
    BY <1>0, <1>1 DEF TypeOK
  <2>2. rotation' \in [Timer -> Nat]
    <3>1. \A t \in slots[cur_slot] \ W!Due : rotation[t] # 0
      BY DEF W!Due
    <3> QED
      BY <1>0, <1>1, <3>1 DEF TypeOK
  <2>3. time_slot' \in [Timer -> 0..(N - 1)]
    BY <1>0, <1>1 DEF TypeOK
  <2>4. left' \in [Timer -> Int] /\ live' \subseteq Timer
    BY <1>0, <1>1 DEF TypeOK
  <2> QED
    BY <1>2, <2>1, <2>2, <2>3, <2>4 DEF TypeOK
<1>7. ASSUME NEW s \in 0..(N - 1), NEW t \in slots'[s] PROVE t \in live' /\ time_slot'[t] = s
  <2>1. t \in slots[s] /\ (s = cur_slot => t \notin W!Due)
    BY <1>0, <1>1 DEF TypeOK
  <2>2. t \in live /\ time_slot[t] = s
    BY <1>0, <2>1 DEF WheelOnTime
  <2>3. t \notin W!Due /\ t \in Timer
    BY <1>0, <1>3, <2>1, <2>2 DEF W!Due
  <2> QED
    BY <1>1, <1>5, <2>2, <2>3
<1>8. ASSUME NEW t \in live'
      PROVE  /\ t \in slots'[time_slot'[t]]
             /\ rotation'[t] * N + W!Distance(time_slot[t])' = left'[t]
  <2>1. t \in live /\ t \notin W!Due
    BY <1>1, <1>5
  <2>2. /\ t \in Timer /\ rotation[t] \in Nat /\ time_slot[t] \in 0..(N - 1)
        /\ W!Distance(time_slot[t]) \in 0..(N - 1) /\ rotation[t] * N \in Nat
        /\ rotation[t] * N + W!Distance(time_slot[t]) = left[t]
        /\ t \in slots[cur_slot] <=> time_slot[t] = cur_slot
    BY <1>3, <2>1
  <2>3. time_slot'[t] = time_slot[t] /\ left'[t] = left[t] - 1
    BY <1>1, <2>1, <2>2
  <2>4. t \in slots[time_slot[t]]
    BY <1>0, <2>1 DEF WheelOnTime
  <2>5. t \in slots'[time_slot'[t]]
    BY <1>0, <1>1, <2>1, <2>2, <2>3, <2>4 DEF TypeOK
  <2>6. CASE time_slot[t] = cur_slot
    <3>1. W!Distance(time_slot[t]) = 0 /\ W!Distance(time_slot[t])' = N - 1
      BY <1>0, <1>2, <2>2, <2>3, <2>6 DEF W!Distance
    <3>2. rotation[t] # 0 /\ rotation'[t] = rotation[t] - 1 /\ rotation[t] - 1 \in Nat
      BY <1>1, <2>1, <2>2, <2>6 DEF W!Due
    <3>3. rotation[t] * N = (rotation[t] - 1) * N + N
      <4> DEFINE r == rotation[t] - 1
      <4>1. (r + 1) * N = r * N + N
        BY <3>2, Turns
      <4> QED
        BY <2>2, <3>2, <4>1
    <3>4. (rotation[t] - 1) * N \in Nat
      BY <1>0, <3>2
    <3> QED
      BY <1>0, <2>2, <2>3, <2>5, <3>1, <3>2, <3>3, <3>4
  <2>7. CASE time_slot[t] # cur_slot
    <3>1. W!Distance(time_slot[t])' = W!Distance(time_slot[t]) - 1
      BY <1>0, <1>2, <2>2, <2>3, <2>7 DEF W!Distance
    <3>2. rotation'[t] = rotation[t]
      BY <1>1, <2>2, <2>7
    <3> QED
      BY <2>2, <2>3, <2>5, <3>1, <3>2
  <2> QED
    BY <2>6, <2>7
<1> QED
  BY <1>6, <1>7, <1>8 DEF IInv, WheelOnTime
-----------------------------------------------------------------------------
(* The inductive invariant holds in every reachable state. *)
THEOREM IInvHolds == Spec => []IInv
<1>1. IInv /\ UNCHANGED vars => IInv'
  BY DEF IInv, TypeOK, WheelOnTime, W!Distance, vars, W!wheelVars
<1>2. IInv /\ [Next]_vars => IInv'
  BY <1>1, AddStep, DelStep, AdjustStep, TickStep DEF Next
<1> QED
  BY <1>2, InitIInv, PTL DEF Spec

(* The wheel's slots and rotations stay in range for every N. *)
THEOREM TypeCorrect == Spec => []TypeOK
  BY IInvHolds, PTL DEF IInv

(* The timing wheel of 11-5.tw_timer fires every timer at the tick its     *)
(* timeout asks for, however it was added, prolonged or passed by.         *)
THEOREM WheelCorrect == Spec => []WheelOnTime
  BY IInvHolds, PTL DEF IInv

-----------------------------------------------------------------------------
(* The list as a sequence of timers *)

(* Every set of numbers that is not empty has a least one. *)
LEMMA NatMin ==
  ASSUME NEW S, S \subseteq Nat, S # {}
  PROVE  \E m \in S : \A r \in S : m <= r
<1> DEFINE R == {ss \in Nat \X Nat : ss[1] < ss[2]}
<1>1. IsWellFoundedOn(R, Nat)
  <2>1. R = OpToRel(<, Nat)
    BY DEF OpToRel
  <2> QED  BY <2>1, NatLessThanWellFounded, Zenon
<1>2. PICK m \in S : \A y \in S : ~ (<<y, m>> \in R)
  <2> HIDE DEF R
  <2> QED  BY <1>1, WFMin
<1>3. ASSUME NEW r \in S PROVE m <= r
  <2>1. <<r, m>> \notin R /\ r \in Nat /\ m \in Nat
    BY <1>2
  <2>2. ~ (r < m)
    BY <2>1
  <2> QED  BY <2>1, <2>2
<1> QED  BY <1>3

(* The n timers q, without repetition, are linked in this order from h on; *)
(* a timer beside them has no link, or one to them.                        *)
Members(n, q) == {q[k] : k \in 1..n}
Chain(n, q, h, nx) ==
  /\ n \in Nat /\ q \in [1..n -> Timer]
  /\ \A j, k \in 1..n : q[j] = q[k] => j = k
  /\ h = IF n = 0 THEN NULL ELSE q[1]
  /\ nx \in [Timer -> Timer \cup {NULL}]
  /\ \A k \in 1..n : nx[q[k]] = IF k = n THEN NULL ELSE q[k + 1]
  /\ \A x \in Timer \ Members(n, q) : nx[x] \in Members(n, q) \cup {NULL}

(* Downwards induction on the places of a sequence. *)
LEMMA FromTheEnd ==
  ASSUME NEW n \in Nat, NEW S, S \subseteq 1..n,
         \A k \in 1..n : (k = n \/ k + 1 \in S) => k \in S
  PROVE  S = 1..n
<1> SUFFICES ASSUME NEW b \in 1..n, b \notin S PROVE FALSE
  OBVIOUS
<1> DEFINE B == {m \in Nat : m <= n - 1 /\ n - m \notin S}
<1>1. n - b \in B
  OBVIOUS
<1>2. PICK m \in B : \A r \in B : m <= r
  <2>1. B \subseteq Nat /\ B # {}
    BY <1>1
  <2> HIDE DEF B
  <2> QED  BY <2>1, NatMin
<1>3. n - m \in 1..n /\ n - m \notin S
  OBVIOUS
<1>4. n - m # n /\ (n - m) + 1 \notin S
  BY <1>3
<1>5. m - 1 \in B
  BY <1>3, <1>4
<1> QED  BY <1>2, <1>5

(* The equation of the walk along nx has a solution, and what it finds from *)
(* each place of the chain on is the rest of the chain.                    *)
IsWalk(f, nx) ==
  f = [y \in Timer \cup {NULL} |-> IF y = NULL THEN {} ELSE {y} \cup f[nx[y]]]

LEMMA WalkExists ==
  ASSUME NULL \notin Timer, NEW n, NEW q, NEW h, NEW nx, Chain(n, q, h, nx)
  PROVE  \E f : IsWalk(f, nx)
<1> DEFINE M == Members(n, q)
           rest(y) == UNION {{q[j] : j \in k..n} : k \in {k \in 1..n : q[k] = y}}
           G == [y \in Timer \cup {NULL} |->
                   IF y = NULL THEN {} ELSE IF y \in M THEN rest(y) ELSE {y} \cup rest(nx[y])]
<1>1. \A k \in 1..n : rest(q[k]) = {q[j] : j \in k..n}
  BY DEF Chain
<1>2. rest(NULL) = {}
  BY DEF Chain
<1>3. \A k \in 1..n : q[k] \in M /\ q[k] \in Timer /\ q[k] # NULL
  BY DEF Chain, Members
<1>4. G = [y \in Timer \cup {NULL} |-> IF y = NULL THEN {} ELSE {y} \cup G[nx[y]]]
  <2> SUFFICES ASSUME NEW y \in Timer, y # NULL PROVE G[y] = {y} \cup G[nx[y]]
    OBVIOUS
  <2>1. nx[y] \in Timer \cup {NULL}
    BY DEF Chain
  <2>2. CASE y \in M
    <3>1. PICK k \in 1..n : y = q[k]
      BY <2>2 DEF Members
    <3>2. G[y] = {q[j] : j \in k..n}
      BY <1>1, <2>2, <3>1
    <3>3. CASE k = n
      <4>1. nx[y] = NULL /\ G[nx[y]] = {}
        BY <3>1, <3>3 DEF Chain
      <4>2. {q[j] : j \in k..n} = {q[n]}
        BY <3>3
      <4> QED  BY <3>1, <3>2, <3>3, <4>1, <4>2
    <3>4. CASE k # n
      <4>1. nx[y] = q[k + 1] /\ k + 1 \in 1..n
        BY <3>1, <3>4 DEF Chain
      <4>2. G[nx[y]] = {q[j] : j \in (k + 1)..n}
        BY <1>1, <1>3, <2>1, <4>1
      <4>3. k..n = {k} \cup ((k + 1)..n)
        BY <3>1 DEF Chain
      <4>4. {q[j] : j \in k..n} = {q[k]} \cup {q[j] : j \in (k + 1)..n}
        BY <4>3
      <4> QED  BY <3>1, <3>2, <4>2, <4>4
    <3> QED  BY <3>3, <3>4
  <2>3. CASE y \notin M
    <3>1. G[y] = {y} \cup rest(nx[y])
      BY <2>3
    <3>2. nx[y] \in M \cup {NULL}
      BY <2>3 DEF Chain
    <3>3. G[nx[y]] = rest(nx[y])
      BY <1>2, <2>1, <3>2
    <3> QED  BY <3>1, <3>3
  <2> QED  BY <2>2, <2>3
<1> HIDE DEF G
<1> QED  BY <1>4 DEF IsWalk

(* What a walk finds from each place of the chain on is the rest of it. *)
LEMMA WalkLemma ==
  ASSUME NULL \notin Timer, NEW n, NEW q, NEW h, NEW nx, Chain(n, q, h, nx),
         NEW from, IsWalk(from, nx)
  PROVE  from[NULL] = {} /\ \A k \in 1..n : from[q[k]] = {q[j] : j \in k..n}
<1>3. \A k \in 1..n : q[k] \in Timer /\ q[k] # NULL
  BY DEF Chain
<1>6. from[NULL] = {}
  BY DEF IsWalk
<1>7. \A k \in 1..n : from[q[k]] = {q[k]} \cup from[nx[q[k]]]
  BY <1>3 DEF IsWalk
<1> DEFINE S == {k \in 1..n : from[q[k]] = {q[j] : j \in k..n}}
<1>8. ASSUME NEW k \in 1..n, k = n \/ k + 1 \in S PROVE k \in S
  <2>1. CASE k = n
    <3>1. from[q[k]] = {q[n]}
      BY <1>6, <1>7, <2>1 DEF Chain
    <3>2. {q[j] : j \in k..n} = {q[n]}
      BY <2>1
    <3> QED  BY <3>1, <3>2
  <2>2. CASE k # n
    <3>1. nx[q[k]] = q[k + 1]
      BY <2>2 DEF Chain
    <3>2. from[q[k + 1]] = {q[j] : j \in (k + 1)..n}
      BY <1>8, <2>2
    <3>3. k..n = {k} \cup ((k + 1)..n)
      BY <1>8 DEF Chain
    <3>4. {q[j] : j \in k..n} = {q[k]} \cup {q[j] : j \in (k + 1)..n}
      BY <3>3
    <3> QED  BY <1>7, <3>1, <3>2, <3>4
  <2> QED  BY <2>1, <2>2
<1>9. S = 1..n
  <2>1. n \in Nat /\ S \subseteq 1..n
    BY DEF Chain
  <2> HIDE DEF S
  <2> QED  BY <1>8, <2>1, FromTheEnd
<1> QED  BY <1>6, <1>9

(* So Listed is the chain, and From the rest of it. *)
LEMMA ListedLemma ==
  ASSUME NULL \notin Timer, NEW n, NEW q, Chain(n, q, head, next)
  PROVE  /\ Listed = Members(n, q) /\ From(NULL) = {}
         /\ \A k \in 1..n : From(q[k]) = {q[j] : j \in k..n}
<1> DEFINE from[y \in Timer \cup {NULL}] == IF y = NULL THEN {} ELSE {y} \cup from[next[y]]
<1>0. IsWalk(from, next)
  <2>1. PICK f : IsWalk(f, next)
    BY WalkExists
  <2>2. \E g : g = [y \in Timer \cup {NULL} |-> IF y = NULL THEN {} ELSE {y} \cup g[next[y]]]
    BY <2>1 DEF IsWalk
  <2> QED  BY <2>2 DEF IsWalk
<1>a. \A x : From(x) = from[x]
  BY DEF From
<1> HIDE DEF from
<1>1. From(NULL) = {} /\ \A k \in 1..n : From(q[k]) = {q[j] : j \in k..n}
  BY <1>0, <1>a, WalkLemma
<1>2. CASE n = 0
  BY <1>1, <1>2 DEF Chain, Listed, Members
<1>3. CASE n # 0
  BY <1>1, <1>3 DEF Chain, Listed, Members
<1> QED  BY <1>1, <1>2, <1>3

(* The first element of E that is not below k. *)
Least(E, k) == CHOOSE m \in E : k <= m /\ \A r \in E : k <= r => m <= r

(* What is used of the least element: going up to it step by step. *)
LEMMA LeastLemma ==
  ASSUME NEW E, E \subseteq Nat, NEW k \in Nat, NEW b \in E, k <= b
  PROVE  /\ Least(E, k) \in E /\ k <= Least(E, k) /\ Least(E, k) <= b
         /\ \A r \in E : k <= r => Least(E, k) <= r
         /\ k \in E => Least(E, k) = k
         /\ k \notin E => k # b /\ Least(E, k) = Least(E, k + 1)
<1> DEFINE F == {m \in E : k <= m}
<1>1. PICK f \in F : \A r \in F : f <= r
  <2>1. F \subseteq Nat /\ F # {}
    OBVIOUS
  <2> HIDE DEF F
  <2> QED  BY <2>1, NatMin
<1>2. /\ Least(E, k) \in E /\ k <= Least(E, k)
      /\ \A r \in E : k <= r => Least(E, k) <= r
  BY <1>1 DEF Least
<1> DEFINE m == Least(E, k)
<1>5. m \in Nat /\ m <= b
  BY <1>2
<1> HIDE DEF F
<1>3. CASE k \in E
  <2>1. m <= k /\ k <= m
    BY <1>2, <1>3
  <2>2. m = k
    BY <1>5, <2>1
  <2> QED  BY <1>2, <1>3, <1>5, <2>2
<1>4. CASE k \notin E
  <2>1. \A r \in E : k <= r <=> k + 1 <= r
    BY <1>4
  <2>2. Least(E, k) = Least(E, k + 1)
    BY <2>1 DEF Least
  <2> QED  BY <1>2, <1>4, <1>5, <2>2
<1> QED  BY <1>3, <1>4

(* The walk of add_timer stops at the first timer whose successor expires  *)
(* later than t.                                                           *)
IsStop(f, nx, ex, t) ==
  f = [x \in Timer |-> IF nx[x] = NULL \/ ex[t] < ex[nx[x]] THEN x ELSE f[nx[x]]]
Halts(n, q, ex, t) == {k \in 1..n : k = n \/ ex[t] < ex[q[k + 1]]}

(* The walk of add_timer is well defined: its equation has a solution. *)
LEMMA StopExists ==
  ASSUME NULL \notin Timer, NEW n, NEW q, NEW h, NEW nx, Chain(n, q, h, nx), NEW ex, NEW t
  PROVE  \E f : IsStop(f, nx, ex, t)
<1> DEFINE M == Members(n, q)
           E == Halts(n, q, ex, t)
           pos(y) == CHOOSE k \in 1..n : q[k] = y
           end(y) == q[Least(E, pos(y))]
           G == [y \in Timer |-> IF y \in M THEN end(y)
                                  ELSE IF nx[y] = NULL \/ ex[t] < ex[nx[y]] THEN y ELSE end(nx[y])]
<1>1. \A k \in 1..n : q[k] \in M /\ q[k] \in Timer /\ q[k] # NULL /\ pos(q[k]) = k
  BY DEF Chain, Members
<1>2. ASSUME NEW y \in Timer
      PROVE  G[y] = IF nx[y] = NULL \/ ex[t] < ex[nx[y]] THEN y ELSE G[nx[y]]
  <2>1. CASE y \in M
    <3>1. PICK k \in 1..n : y = q[k]
      BY <2>1 DEF Members
    <3>2. G[y] = q[Least(E, k)]
      BY <1>1, <2>1, <3>1
    <3>3. n \in Nat /\ E \subseteq Nat /\ n \in E /\ k <= n
      BY <3>1 DEF Chain, Halts
    <3>4. CASE k \in E
      <4>1. Least(E, k) = k
        BY <3>1, <3>3, <3>4, LeastLemma
      <4>2. nx[y] = NULL \/ ex[t] < ex[nx[y]]
        BY <3>1, <3>4 DEF Chain, Halts
      <4> QED  BY <3>1, <3>2, <4>1, <4>2
    <3>5. CASE k \notin E
      <4>1. Least(E, k) = Least(E, k + 1) /\ k # n
        BY <3>1, <3>3, <3>5, LeastLemma
      <4>2. nx[y] = q[k + 1] /\ ~ (ex[t] < ex[q[k + 1]]) /\ k + 1 \in 1..n
        BY <3>1, <3>5, <4>1 DEF Chain, Halts
      <4>3. q[k + 1] \in M /\ q[k + 1] \in Timer /\ q[k + 1] # NULL /\ pos(q[k + 1]) = k + 1
        BY <1>1, <4>2
      <4>4. G[q[k + 1]] = q[Least(E, k + 1)]
        BY <4>3
      <4> QED  BY <3>2, <4>1, <4>2, <4>3, <4>4
    <3> QED  BY <3>4, <3>5
  <2>2. CASE y \notin M
    <3>1. nx[y] \in M \cup {NULL}
      BY <2>2 DEF Chain
    <3>2. nx[y] \in M => nx[y] \in Timer /\ G[nx[y]] = end(nx[y])
      BY <1>1 DEF Members
    <3> HIDE DEF M
    <3> QED  BY <2>2, <3>1, <3>2
  <2> QED  BY <2>1, <2>2
<1>3. G = [y \in Timer |-> G[y]]
  OBVIOUS
<1> HIDE DEF G
<1> QED  BY <1>2, <1>3 DEF IsStop

(* From place k on it stops at a place m, having passed no later timer. *)
LEMMA StopLemma ==
  ASSUME NULL \notin Timer, NEW n, NEW q, NEW h, NEW nx, Chain(n, q, h, nx), NEW ex, NEW t,
         NEW stop, IsStop(stop, nx, ex, t), NEW k \in 1..n
  PROVE  \E m \in k..n : /\ stop[q[k]] = q[m] /\ (m = n \/ ex[t] < ex[q[m + 1]])
                         /\ \A j \in (k + 1)..m : ~ (ex[t] < ex[q[j]])
<1> DEFINE E == Halts(n, q, ex, t)
           S == {j \in 1..n : stop[q[j]] = q[Least(E, j)]}
<1>1. n \in Nat /\ E \subseteq Nat /\ E \subseteq 1..n /\ \A j \in 1..n : n \in E /\ j <= n
  BY DEF Chain, Halts
<1>2. ASSUME NEW j \in 1..n, j = n \/ j + 1 \in S PROVE j \in S
  <2>1. stop[q[j]] = IF nx[q[j]] = NULL \/ ex[t] < ex[nx[q[j]]] THEN q[j] ELSE stop[nx[q[j]]]
    BY DEF IsStop, Chain
  <2>2. CASE j \in E
    <3>1. Least(E, j) = j
      BY <1>1, <2>2, LeastLemma
    <3>2. nx[q[j]] = NULL \/ ex[t] < ex[nx[q[j]]]
      BY <2>2 DEF Chain, Halts
    <3> QED  BY <2>1, <3>1, <3>2
  <2>3. CASE j \notin E
    <3>1. Least(E, j) = Least(E, j + 1) /\ j # n
      BY <1>1, <2>3, LeastLemma
    <3>2. /\ nx[q[j]] = q[j + 1] /\ ~ (ex[t] < ex[q[j + 1]]) /\ j + 1 \in 1..n
          /\ q[j + 1] # NULL
      BY <2>3, <3>1 DEF Chain, Halts
    <3> QED  BY <1>2, <2>1, <3>1, <3>2
  <2> QED  BY <2>2, <2>3
<1>3. S = 1..n
  <2>1. S \subseteq 1..n
    OBVIOUS
  <2> HIDE DEF S
  <2> QED  BY <1>1, <1>2, <2>1, FromTheEnd
<1> DEFINE m == Least(E, k)
<1>4. m \in E /\ k <= m /\ m <= n /\ \A r \in E : k <= r => m <= r
  BY <1>1, LeastLemma
<1>5. m \in k..n /\ (m = n \/ ex[t] < ex[q[m + 1]]) /\ stop[q[k]] = q[m]
  <2>1. k \in S
    BY <1>3
  <2>2. stop[q[k]] = q[m]
    BY <2>1
  <2> HIDE DEF m, S
  <2> QED  BY <1>1, <1>4, <2>2 DEF Halts
<1>6. ASSUME NEW j \in (k + 1)..m PROVE ~ (ex[t] < ex[q[j]])
  <2> HIDE DEF m
  <2>1. j - 1 \in 1..n /\ k <= j - 1 /\ ~ (m <= j - 1) /\ (j - 1) + 1 = j
    BY <1>5, <1>1, <1>6
  <2>2. j - 1 \notin E
    BY <1>4, <2>1
  <2> QED  BY <2>1, <2>2 DEF Halts
<1> HIDE DEF m
<1> QED  BY <1>5, <1>6

(* tick goes to the first timer that is not due. *)
IsFirst(f, nx, ex) ==
  f = [x \in Timer \cup {NULL} |->
         IF x = NULL THEN NULL ELSE IF 0 < ex[x] THEN x ELSE f[nx[x]]]
Waiting(n, q, ex) == {k \in 1..(n + 1) : k = n + 1 \/ 0 < ex[q[k]]}
Nth(n, q, k) == IF k = n + 1 THEN NULL ELSE q[k]

(* The walk of tick is well defined. *)
LEMMA FirstExists ==
  ASSUME NULL \notin Timer, NEW n, NEW q, NEW h, NEW nx, Chain(n, q, h, nx), NEW ex
  PROVE  \E f : IsFirst(f, nx, ex)
<1> DEFINE M == Members(n, q)
           E == Waiting(n, q, ex)
           pos(y) == IF y = NULL THEN n + 1 ELSE CHOOSE k \in 1..n : q[k] = y
           end(y) == Nth(n, q, Least(E, pos(y)))
           G == [y \in Timer \cup {NULL} |->
                   IF y \in M \cup {NULL} THEN end(y)
                   ELSE IF 0 < ex[y] THEN y ELSE end(nx[y])]
<1>0. n \in Nat /\ E \subseteq Nat /\ n + 1 \in E
  BY DEF Chain, Waiting
<1>1. \A k \in 1..n : q[k] \in M /\ q[k] \in Timer /\ q[k] # NULL /\ pos(q[k]) = k
  BY DEF Chain, Members
<1>2. end(NULL) = NULL
  <2>1. Least(E, n + 1) = n + 1
    BY <1>0, LeastLemma
  <2> QED  BY <2>1 DEF Nth
<1>3. ASSUME NEW y \in Timer PROVE G[y] = IF 0 < ex[y] THEN y ELSE G[nx[y]]
  <2>0. nx[y] \in Timer \cup {NULL}
    BY DEF Chain
  <2>1. CASE y \in M
    <3>1. PICK k \in 1..n : y = q[k]
      BY <2>1 DEF Members
    <3>2. G[y] = Nth(n, q, Least(E, k))
      BY <1>1, <2>1, <3>1
    <3>3. k \in Nat /\ k <= n + 1
      BY <1>0, <3>1
    <3>4. CASE k \in E
      <4>1. Least(E, k) = k
        BY <1>0, <3>3, <3>4, LeastLemma
      <4>2. 0 < ex[y] /\ k # n + 1
        BY <1>0, <3>1, <3>4 DEF Waiting
      <4> QED  BY <3>1, <3>2, <4>1, <4>2 DEF Nth
    <3>5. CASE k \notin E
      <4>1. Least(E, k) = Least(E, k + 1)
        BY <1>0, <3>3, <3>5, LeastLemma
      <4>2. ~ (0 < ex[y]) /\ nx[y] = Nth(n, q, k + 1)
        BY <1>0, <3>1, <3>5 DEF Waiting, Chain, Nth
      <4>3. G[nx[y]] = Nth(n, q, Least(E, k + 1))
        <5>1. CASE k = n
          <6>1. nx[y] = NULL /\ G[NULL] = NULL
            BY <1>2, <4>2, <5>1 DEF Nth
          <6>2. Nth(n, q, Least(E, k + 1)) = NULL
            <7>1. Least(E, n + 1) = n + 1
              <8>1. n + 1 \in Nat /\ n + 1 <= n + 1
                BY <1>0
              <8> QED  BY <1>0, <8>1, LeastLemma
            <7> QED  BY <5>1, <7>1 DEF Nth
          <6> QED  BY <6>1, <6>2
        <5>2. CASE k # n
          <6>1. k + 1 \in 1..n /\ nx[y] = q[k + 1]
            BY <1>0, <3>1, <4>2, <5>2 DEF Nth
          <6>2. /\ q[k + 1] \in M /\ q[k + 1] \in Timer /\ q[k + 1] # NULL
                /\ pos(q[k + 1]) = k + 1
            BY <1>1, <6>1
          <6>3. G[q[k + 1]] = end(q[k + 1]) /\ end(q[k + 1]) = Nth(n, q, Least(E, k + 1))
            BY <6>2
          <6> QED  BY <6>1, <6>3
        <5> QED  BY <5>1, <5>2
      <4> QED  BY <3>2, <4>1, <4>2, <4>3
    <3> QED  BY <3>4, <3>5
  <2>2. CASE y \notin M
    <3>1. nx[y] \in M \cup {NULL}
      BY <2>2 DEF Chain
    <3>2. G[nx[y]] = end(nx[y])
      BY <2>0, <3>1
    <3>3. G[y] = IF 0 < ex[y] THEN y ELSE end(nx[y])
      BY <2>2
    <3> QED  BY <3>2, <3>3
  <2> QED  BY <2>1, <2>2
<1>4. G = [y \in Timer \cup {NULL} |-> G[y]] /\ G[NULL] = NULL
  BY <1>2
<1> HIDE DEF G
<1> QED  BY <1>3, <1>4 DEF IsFirst

(* It stops behind the first m timers, which are due. *)
LEMMA FirstLemma ==
  ASSUME NULL \notin Timer, NEW n, NEW q, NEW h, NEW nx, Chain(n, q, h, nx), NEW ex,
         NEW first, IsFirst(first, nx, ex)
  PROVE  \E m \in 0..n : /\ first[h] = Nth(n, q, m + 1)
                         /\ \A j \in 1..m : ~ (0 < ex[q[j]])
                         /\ m = n \/ 0 < ex[q[m + 1]]
<1> DEFINE E == Waiting(n, q, ex)
           S == {j \in 1..n : first[q[j]] = Nth(n, q, Least(E, j))}
<1>1. n \in Nat /\ E \subseteq Nat /\ E \subseteq 1..(n + 1) /\ n + 1 \in E
  BY DEF Chain, Waiting
<1>0. first[NULL] = NULL /\ Least(E, n + 1) = n + 1
  <2>1. first[NULL] = NULL
    BY DEF IsFirst
  <2>2. Least(E, n + 1) = n + 1
    <3>1. n + 1 \in Nat /\ n + 1 <= n + 1
      BY <1>1
    <3> QED  BY <1>1, <3>1, LeastLemma
  <2> QED  BY <2>1, <2>2
<1>2. ASSUME NEW j \in 1..n, j = n \/ j + 1 \in S PROVE j \in S
  <2>1. first[q[j]] = IF 0 < ex[q[j]] THEN q[j] ELSE first[nx[q[j]]]
    BY DEF IsFirst, Chain
  <2>2. CASE j \in E
    <3>1. Least(E, j) = j
      BY <1>1, <2>2, LeastLemma
    <3>2. 0 < ex[q[j]] /\ j # n + 1
      BY <1>1, <2>2 DEF Waiting
    <3> QED  BY <2>1, <3>1, <3>2 DEF Nth
  <2>3. CASE j \notin E
    <3>1. Least(E, j) = Least(E, j + 1)
      <4>1. j \in Nat /\ j <= n + 1
        BY <1>1
      <4> QED  BY <1>1, <2>3, <4>1, LeastLemma
    <3>2. nx[q[j]] = Nth(n, q, j + 1) /\ ~ (0 < ex[q[j]])
      BY <1>1, <2>3 DEF Chain, Waiting, Nth
    <3>3. first[nx[q[j]]] = Nth(n, q, Least(E, j + 1))
      <4>1. CASE j = n
        BY <1>0, <3>2, <4>1 DEF Nth
      <4>2. CASE j # n
        BY <1>1, <1>2, <3>2, <4>2 DEF Nth
      <4> QED  BY <4>1, <4>2
    <3> QED  BY <2>1, <3>1, <3>2, <3>3
  <2> QED  BY <2>2, <2>3
<1>3. S = 1..n
  <2>1. S \subseteq 1..n
    OBVIOUS
  <2> HIDE DEF S
  <2> QED  BY <1>1, <1>2, <2>1, FromTheEnd
<1> DEFINE b == Least(E, 1)
<1>4. b \in E /\ 1 <= b /\ b <= n + 1 /\ \A r \in E : 1 <= r => b <= r
  BY <1>1, LeastLemma
<1>5. first[h] = Nth(n, q, b)
  <2>1. CASE n = 0
    BY <1>0, <2>1 DEF Chain, Nth
  <2>2. CASE n # 0
    <3>1. 1 \in S /\ h = q[1]
      BY <1>1, <1>3, <2>2 DEF Chain
    <3> QED  BY <3>1
  <2> QED  BY <2>1, <2>2
<1> HIDE DEF b
<1>6. b - 1 \in 0..n /\ (b - 1) + 1 = b
  BY <1>1, <1>4
<1>7. \A j \in 1..(b - 1) : ~ (0 < ex[q[j]])
  BY <1>1, <1>4, <1>6 DEF Waiting
<1>8. b - 1 = n \/ 0 < ex[q[(b - 1) + 1]]
  BY <1>1, <1>4, <1>6 DEF Waiting
<1> QED  BY <1>5, <1>6, <1>7, <1>8

(* The prev links, and the order of expiry, along a chain. *)
Back(n, q, pv) ==
  /\ pv \in [Timer -> Timer \cup {NULL}]
  /\ \A k \in 1..n : pv[q[k]] = IF k = 1 THEN NULL ELSE q[k - 1]
Sorted(n, q, ex) == \A j, k \in 1..n : j <= k => ex[q[j]] <= ex[q[k]]

Bare(n, q, nx) == \A x \in Timer \ Members(n, q) : nx[x] = NULL

Linked(n, q, ex, h, tl, nx, pv) ==
  /\ Chain(n, q, h, nx) /\ Back(n, q, pv) /\ Sorted(n, q, ex)
  /\ n > 0 => tl = q[n]
  /\ Bare(n, q, nx)

(* t comes behind the first p of the chain. *)
Inserted(n, q, t, p) ==
  [k \in 1..(n + 1) |-> IF k <= p THEN q[k] ELSE IF k = p + 1 THEN t ELSE q[k - 1]]

(* A sequence with t inserted has no repetition either. *)
LEMMA InsertMembers ==
  ASSUME NULL \notin Timer, NEW n, NEW q, NEW h, NEW nx, Chain(n, q, h, nx),
         NEW p \in 0..n, NEW t \in Timer \ Members(n, q)
  PROVE  /\ Inserted(n, q, t, p) \in [1..(n + 1) -> Timer]
         /\ \A j, k \in 1..(n + 1) :
              Inserted(n, q, t, p)[j] = Inserted(n, q, t, p)[k] => j = k
         /\ Members(n + 1, Inserted(n, q, t, p)) = Members(n, q) \cup {t}
<1> DEFINE q2 == Inserted(n, q, t, p)
<1>0. n \in Nat /\ q \in [1..n -> Timer] /\ \A j, k \in 1..n : q[j] = q[k] => j = k
  BY DEF Chain
<1>1. \A k \in 1..n : q[k] # t /\ q[k] \in Timer
  BY <1>0 DEF Members
<1>2. /\ \A k \in 1..p : k \in 1..n /\ k \in 1..(n + 1) /\ q2[k] = q[k]
      /\ p + 1 \in 1..(n + 1) /\ q2[p + 1] = t
      /\ \A k \in (p + 2)..(n + 1) : k - 1 \in 1..n /\ q2[k] = q[k - 1]
      /\ \A k \in 1..(n + 1) : k \in 1..p \/ k = p + 1 \/ k \in (p + 2)..(n + 1)
  BY <1>0 DEF Inserted
<1>3. q2 \in [1..(n + 1) -> Timer]
  <2>1. \A k \in 1..(n + 1) : q2[k] \in Timer
    BY <1>1, <1>2
  <2>2. q2 = [k \in 1..(n + 1) |-> q2[k]]
    BY DEF Inserted
  <2> HIDE DEF q2
  <2> QED  BY <2>1, <2>2
<1> HIDE DEF q2
<1>4. ASSUME NEW j \in 1..(n + 1), NEW k \in 1..(n + 1), q2[j] = q2[k] PROVE j = k
  <2>1. CASE j \in 1..p
    BY <1>0, <1>1, <1>2, <1>4, <2>1
  <2>2. CASE j = p + 1
    BY <1>0, <1>1, <1>2, <1>4, <2>2
  <2>3. CASE j \in (p + 2)..(n + 1)
    BY <1>0, <1>1, <1>2, <1>4, <2>3
  <2> QED  BY <1>2, <2>1, <2>2, <2>3
<1>5. ASSUME NEW x \in Members(n + 1, q2) PROVE x \in Members(n, q) \cup {t}
  BY <1>0, <1>2 DEF Members
<1>6. ASSUME NEW x \in Members(n, q) PROVE x \in Members(n + 1, q2)
  <2>1. PICK k \in 1..n : x = q[k]
    BY DEF Members
  <2>2. CASE k <= p
    BY <1>2, <2>1, <2>2 DEF Members
  <2>3. CASE ~ (k <= p)
    <3>1. k + 1 \in (p + 2)..(n + 1) /\ (k + 1) - 1 = k /\ k + 1 \in 1..(n + 1)
      BY <1>0, <2>1, <2>3
    <3> QED  BY <1>2, <2>1, <3>1 DEF Members
  <2> QED  BY <2>2, <2>3
<1>7. t \in Members(n + 1, q2)
  BY <1>0, <1>2 DEF Members
<1> QED  BY <1>3, <1>4, <1>5, <1>6, <1>7 DEF q2

(* What the links have to become. *)
NextAround(n, q, t, p, nx, nx2) ==
  \A x \in Timer : nx2[x] = IF x = t THEN Nth(n, q, p + 1)
                           ELSE IF p # 0 /\ x = q[p] THEN t ELSE nx[x]
PrevAround(n, q, t, p, pv, pv2) ==
  \A x \in Timer : pv2[x] = IF x = t THEN IF p = 0 THEN NULL ELSE q[p]
                           ELSE IF p # n /\ x = q[p + 1] THEN t ELSE pv[x]

(* t belongs behind the first p. *)
Fits(n, q, t, p, ex) ==
  /\ p # 0 => ex[q[p]] <= ex[t]
  /\ p # n => ex[t] <= ex[q[p + 1]]

(* The links around t changed like this spell out the longer sequence. *)
LEMMA InsertLemma ==
  ASSUME NULL \notin Timer, NEW n, NEW q, NEW h, NEW nx, NEW pv, NEW ex, NEW p, NEW t,
         NEW h2, NEW nx2, NEW pv2,
         Chain(n, q, h, nx), Back(n, q, pv), Sorted(n, q, ex), p \in 0..n,
         t \in Timer \ Members(n, q), ex \in [Timer -> Int], Fits(n, q, t, p, ex),
         h2 = IF p = 0 THEN t ELSE h,
         nx2 \in [Timer -> Timer \cup {NULL}], NextAround(n, q, t, p, nx, nx2),
         pv2 \in [Timer -> Timer \cup {NULL}], PrevAround(n, q, t, p, pv, pv2)
  PROVE  /\ Chain(n + 1, Inserted(n, q, t, p), h2, nx2)
         /\ Back(n + 1, Inserted(n, q, t, p), pv2) /\ Sorted(n + 1, Inserted(n, q, t, p), ex)
         /\ Members(n + 1, Inserted(n, q, t, p)) = Members(n, q) \cup {t}
<1> DEFINE q2 == Inserted(n, q, t, p)
<1>0. n \in Nat /\ q \in [1..n -> Timer]
  BY DEF Chain
<1>1. \A k \in 1..n : q[k] # t /\ q[k] \in Timer
  BY <1>0 DEF Members
<1>2. /\ \A k \in 1..p : k \in 1..n /\ k \in 1..(n + 1) /\ q2[k] = q[k]
      /\ p + 1 \in 1..(n + 1) /\ q2[p + 1] = t
      /\ \A k \in (p + 2)..(n + 1) : k - 1 \in 1..n /\ q2[k] = q[k - 1] /\ k \in 1..(n + 1)
      /\ \A k \in 1..(n + 1) : k \in 1..p \/ k = p + 1 \/ k \in (p + 2)..(n + 1)
  BY <1>0 DEF Inserted
<1>3. /\ q2 \in [1..(n + 1) -> Timer]
      /\ \A j, k \in 1..(n + 1) : q2[j] = q2[k] => j = k
      /\ Members(n + 1, q2) = Members(n, q) \cup {t}
  BY InsertMembers
<1>4. \A j, k \in 1..n : q[j] = q[k] => j = k
  BY DEF Chain
<1> HIDE DEF q2
<1>5. h2 = q2[1]
  <2>1. CASE p = 0
    BY <1>2, <2>1
  <2>2. CASE p # 0
    BY <1>0, <1>2, <2>2 DEF Chain
  <2> QED  BY <2>1, <2>2
<1>6. ASSUME NEW k \in 1..(n + 1) PROVE nx2[q2[k]] = IF k = n + 1 THEN NULL ELSE q2[k + 1]
  <2>1. CASE k \in 1..p
    <3>1. q2[k] = q[k] /\ k \in 1..n /\ q[k] \in Timer /\ q[k] # t
      BY <1>1, <1>2, <2>1
    <3>2. CASE k = p
      BY <1>0, <1>2, <3>1, <3>2 DEF NextAround
    <3>3. CASE k # p
      <4>1. nx2[q[k]] = nx[q[k]]
        BY <1>0, <1>4, <2>1, <3>1, <3>3 DEF NextAround
      <4>2. k + 1 \in 1..p /\ k # n /\ k # n + 1
        BY <1>0, <2>1, <3>3
      <4>3. nx[q[k]] = q[k + 1]
        BY <3>1, <4>2 DEF Chain
      <4> QED  BY <1>2, <3>1, <4>1, <4>2, <4>3
    <3> QED  BY <3>2, <3>3
  <2>2. CASE k = p + 1
    <3>1. nx2[q2[k]] = Nth(n, q, p + 1)
      BY <1>2, <2>2 DEF NextAround
    <3>2. CASE p = n
      BY <1>0, <2>2, <3>1, <3>2 DEF Nth
    <3>3. CASE p # n
      <4>1. k + 1 \in (p + 2)..(n + 1) /\ (k + 1) - 1 = p + 1 /\ k # n + 1
        BY <1>0, <2>2, <3>3
      <4>2. q2[k + 1] = q[p + 1]
        BY <1>2, <4>1
      <4> QED  BY <1>0, <3>1, <3>3, <4>1, <4>2 DEF Nth
    <3> QED  BY <3>2, <3>3
  <2>3. CASE k \in (p + 2)..(n + 1)
    <3>1. q2[k] = q[k - 1] /\ k - 1 \in 1..n /\ q[k - 1] \in Timer /\ q[k - 1] # t
      BY <1>1, <1>2, <2>3
    <3>2. nx2[q[k - 1]] = nx[q[k - 1]]
      BY <1>0, <1>4, <2>3, <3>1 DEF NextAround
    <3>3. nx[q[k - 1]] = IF k - 1 = n THEN NULL ELSE q[(k - 1) + 1]
      BY <3>1 DEF Chain
    <3>4. k # n + 1 => k + 1 \in (p + 2)..(n + 1) /\ (k + 1) - 1 = k /\ (k - 1) + 1 = k
      <4>1. k \in Int /\ p \in Int /\ p + 2 <= k /\ k <= n + 1
        BY <1>0, <2>3
      <4> QED  BY <1>0, <4>1
    <3>5. k # n + 1 => q2[k + 1] = q[k]
      BY <1>2, <3>4
    <3> QED  BY <1>0, <2>3, <3>1, <3>2, <3>3, <3>4, <3>5
  <2> QED  BY <1>2, <2>1, <2>2, <2>3
<1>7. ASSUME NEW x \in Timer \ Members(n + 1, q2) PROVE nx2[x] \in Members(n + 1, q2) \cup {NULL}
  <2>1. x \in Timer \ Members(n, q) /\ x # t /\ (p # 0 => x # q[p])
    <3>1. p # 0 => q[p] \in Members(n, q)
      BY <1>0 DEF Members
    <3> QED  BY <1>3, <3>1
  <2>2. nx2[x] = nx[x]
    BY <2>1 DEF NextAround
  <2> QED  BY <1>3, <2>1, <2>2 DEF Chain
<1>8. Chain(n + 1, q2, h2, nx2)
  BY <1>0, <1>3, <1>5, <1>6, <1>7 DEF Chain
<1>9. ASSUME NEW k \in 1..(n + 1) PROVE pv2[q2[k]] = IF k = 1 THEN NULL ELSE q2[k - 1]
  <2>1. CASE k \in 1..p
    <3>1. q2[k] = q[k] /\ k \in 1..n /\ q[k] \in Timer /\ q[k] # t
      BY <1>1, <1>2, <2>1
    <3>2. p # n => p + 1 \in 1..n /\ q[p + 1] # q[k]
      BY <1>0, <1>4, <2>1, <3>1
    <3>3. pv2[q[k]] = pv[q[k]]
      BY <3>1, <3>2 DEF PrevAround
    <3>4. pv[q[k]] = IF k = 1 THEN NULL ELSE q[k - 1]
      BY <3>1 DEF Back
    <3>5. k # 1 => k - 1 \in 1..p
      BY <1>0, <2>1
    <3>6. k # 1 => q2[k - 1] = q[k - 1]
      BY <1>2, <3>5
    <3> QED  BY <3>1, <3>3, <3>4, <3>6
  <2>2. CASE k = p + 1
    <3>1. pv2[q2[k]] = IF p = 0 THEN NULL ELSE q[p]
      BY <1>2, <2>2 DEF PrevAround
    <3>2. p # 0 => k - 1 \in 1..p /\ k - 1 = p /\ q2[k - 1] = q[p]
      BY <1>0, <1>2, <2>2
    <3> QED  BY <1>0, <2>2, <3>1, <3>2
  <2>3. CASE k \in (p + 2)..(n + 1)
    <3>1. q2[k] = q[k - 1] /\ k - 1 \in 1..n /\ q[k - 1] \in Timer /\ q[k - 1] # t
      BY <1>1, <1>2, <2>3
    <3>2. CASE k = p + 2
      <4>1. p # n /\ k - 1 = p + 1 /\ k # 1
        BY <1>0, <2>3, <3>2
      <4>2. pv2[q2[k]] = t /\ q2[k - 1] = t
        BY <1>2, <3>1, <4>1 DEF PrevAround
      <4> QED  BY <4>1, <4>2
    <3>3. CASE k # p + 2
      <4>1. k - 1 \in (p + 2)..(n + 1) /\ k - 1 # 1 /\ k # 1 /\ k - 1 # p + 1
        BY <1>0, <2>3, <3>3
      <4>2. p # n => p + 1 \in 1..n /\ q[p + 1] # q[k - 1]
        BY <1>0, <1>4, <3>1, <4>1
      <4>3. pv2[q[k - 1]] = pv[q[k - 1]]
        BY <3>1, <4>2 DEF PrevAround
      <4>4. pv[q[k - 1]] = q[(k - 1) - 1]
        BY <3>1, <4>1 DEF Back
      <4> QED  BY <1>2, <3>1, <4>1, <4>3, <4>4
    <3> QED  BY <3>2, <3>3
  <2> QED  BY <1>2, <2>1, <2>2, <2>3
<1>10. Back(n + 1, q2, pv2)
  BY <1>9 DEF Back
<1>11. ASSUME NEW j \in 1..(n + 1), NEW k \in 1..(n + 1), j <= k PROVE ex[q2[j]] <= ex[q2[k]]
  <2>0. \A x \in Timer : ex[x] \in Int
    OBVIOUS
  <2>1. \A i_1, i_2 \in 1..n : i_1 <= i_2 => ex[q[i_1]] <= ex[q[i_2]]
    BY DEF Sorted
  <2>2. /\ \A i_1 \in 1..p : ex[q[i_1]] <= ex[t]
        /\ \A i_1 \in (p + 1)..n : ex[t] <= ex[q[i_1]]
    <3>1. ASSUME NEW i_1 \in 1..p PROVE ex[q[i_1]] <= ex[t]
      <4>1. p \in 1..n /\ i_1 \in 1..n /\ i_1 <= p /\ p # 0
        BY <1>0
      <4>2. ex[q[i_1]] \in Int /\ ex[q[p]] \in Int /\ ex[t] \in Int
        BY <1>1, <2>0, <4>1
      <4>3. ex[q[i_1]] <= ex[q[p]] /\ ex[q[p]] <= ex[t]
        BY <2>1, <4>1 DEF Fits
      <4> QED  BY <4>2, <4>3 DEF Fits
    <3>2. ASSUME NEW i_1 \in (p + 1)..n PROVE ex[t] <= ex[q[i_1]]
      <4>1. p + 1 \in 1..n /\ i_1 \in 1..n /\ p + 1 <= i_1 /\ p # n
        BY <1>0
      <4>2. ex[q[i_1]] \in Int /\ ex[q[p + 1]] \in Int /\ ex[t] \in Int
        BY <1>1, <2>0, <4>1
      <4>3. ex[q[p + 1]] <= ex[q[i_1]] /\ ex[t] <= ex[q[p + 1]]
        BY <2>1, <4>1 DEF Fits
      <4> QED  BY <4>2, <4>3 DEF Fits
    <3> QED  BY <3>1, <3>2
  <2>3. CASE j \in 1..p /\ k \in 1..p
    BY <1>2, <1>11, <2>1, <2>3
  <2>4. CASE j \in 1..p /\ k = p + 1
    BY <1>2, <2>2, <2>4
  <2>5. CASE j \in 1..p /\ k \in (p + 2)..(n + 1)
    BY <1>2, <1>11, <2>1, <2>5
  <2>6. CASE j = p + 1 /\ k = p + 1
    <3>1. ex[t] \in Int /\ q2[j] = t /\ q2[k] = t
      BY <1>2, <2>0, <2>6
    <3> QED  BY <3>1
  <2>7. CASE j = p + 1 /\ k \in (p + 2)..(n + 1)
    <3>1. k - 1 \in (p + 1)..n /\ q2[k] = q[k - 1] /\ q2[j] = t
      BY <1>0, <1>2, <2>7
    <3> QED  BY <2>2, <3>1
  <2>8. CASE j \in (p + 2)..(n + 1) /\ k \in (p + 2)..(n + 1)
    <3>1. q2[k] = q[k - 1] /\ q2[j] = q[j - 1] /\ k - 1 \in 1..n /\ j - 1 \in 1..n
          /\ j - 1 <= k - 1
      BY <1>2, <1>11, <2>8
    <3> QED  BY <2>1, <3>1
  <2> QED  BY <1>0, <1>2, <1>11, <2>3, <2>4, <2>5, <2>6, <2>7, <2>8
<1> QED  BY <1>3, <1>8, <1>10, <1>11 DEF Sorted, q2

(* The chain without its timer at place p. *)
Removed(n, q, p) == [k \in 1..(n - 1) |-> IF k < p THEN q[k] ELSE q[k + 1]]
NextPast(n, q, p, nx, nx2) ==
  \A x \in Timer \ {q[p]} : nx2[x] = IF p # 1 /\ x = q[p - 1] THEN nx[q[p]] ELSE nx[x]
PrevPast(n, q, p, pv, pv2) ==
  \A x \in Timer \ {q[p]} : pv2[x] = IF p # n /\ x = q[p + 1] THEN pv[q[p]] ELSE pv[x]
SortedBut(n, q, p, ex) ==
  \A j, k \in (1..n) \ {p} : j <= k => ex[q[j]] <= ex[q[k]]

(* The links past place p spell out the shorter sequence.  The timer that  *)
(* was there may keep a link to another, as in adjust_timer.               *)
LEMMA RemoveLemma ==
  ASSUME NULL \notin Timer, NEW n, NEW q, NEW h, NEW nx, NEW pv, NEW ex, NEW p,
         NEW h2, NEW nx2, NEW pv2,
         Chain(n, q, h, nx), Back(n, q, pv), SortedBut(n, q, p, ex), Bare(n, q, nx),
         p \in 1..n, h2 = IF p = 1 THEN nx[h] ELSE h,
         nx2 \in [Timer -> Timer \cup {NULL}], NextPast(n, q, p, nx, nx2),
         nx2[q[p]] \in (Members(n, q) \ {q[p]}) \cup {NULL},
         pv2 \in [Timer -> Timer \cup {NULL}], PrevPast(n, q, p, pv, pv2)
  PROVE  /\ Chain(n - 1, Removed(n, q, p), h2, nx2)
         /\ Back(n - 1, Removed(n, q, p), pv2) /\ Sorted(n - 1, Removed(n, q, p), ex)
         /\ Members(n - 1, Removed(n, q, p)) = Members(n, q) \ {q[p]}
<1> DEFINE q2 == Removed(n, q, p)
<1>0. /\ n \in Nat /\ n - 1 \in Nat /\ q \in [1..n -> Timer]
      /\ \A j, k \in 1..n : q[j] = q[k] => j = k
  BY DEF Chain
<1>1. /\ \A k \in 1..(p - 1) : k \in 1..n /\ k \in 1..(n - 1) /\ q2[k] = q[k] /\ k # p
      /\ \A k \in p..(n - 1) : k + 1 \in 1..n /\ q2[k] = q[k + 1] /\ k \in 1..(n - 1) /\ k + 1 # p
      /\ \A k \in 1..(n - 1) : k \in 1..(p - 1) \/ k \in p..(n - 1)
  BY <1>0 DEF Removed
<1>2. \A k \in 1..n : q[k] \in Timer /\ (k # p => q[k] # q[p])
  BY <1>0
<1>3. q2 \in [1..(n - 1) -> Timer]
  <2>1. \A k \in 1..(n - 1) : q2[k] \in Timer
    BY <1>1, <1>2
  <2>2. q2 = [k \in 1..(n - 1) |-> q2[k]]
    BY DEF Removed
  <2> HIDE DEF q2
  <2> QED  BY <2>1, <2>2
<1> HIDE DEF q2
<1>4. ASSUME NEW j \in 1..(n - 1), NEW k \in 1..(n - 1), q2[j] = q2[k] PROVE j = k
  <2>1. CASE j \in 1..(p - 1) /\ k \in 1..(p - 1)
    BY <1>0, <1>1, <1>4, <2>1
  <2>2. CASE j \in 1..(p - 1) /\ k \in p..(n - 1)
    <3>1. j = k + 1
      BY <1>0, <1>1, <1>4, <2>2
    <3> QED  BY <1>0, <2>2, <3>1
  <2>3. CASE j \in p..(n - 1) /\ k \in 1..(p - 1)
    <3>1. k = j + 1
      BY <1>0, <1>1, <1>4, <2>3
    <3> QED  BY <1>0, <2>3, <3>1
  <2>4. CASE j \in p..(n - 1) /\ k \in p..(n - 1)
    <3>1. j + 1 = k + 1
      BY <1>0, <1>1, <1>4, <2>4
    <3> QED  BY <1>0, <2>4, <3>1
  <2> QED  BY <1>1, <2>1, <2>2, <2>3, <2>4
<1>5. Members(n - 1, q2) = Members(n, q) \ {q[p]}
  <2>1. ASSUME NEW x \in Members(n - 1, q2) PROVE x \in Members(n, q) \ {q[p]}
    <3>1. PICK k \in 1..(n - 1) : x = q2[k]
      BY DEF Members
    <3>2. \E j \in 1..n : x = q[j] /\ j # p
      BY <1>1, <3>1
    <3> QED  BY <1>2, <3>2 DEF Members
  <2>2. ASSUME NEW x \in Members(n, q) \ {q[p]} PROVE x \in Members(n - 1, q2)
    <3>1. PICK k \in 1..n : x = q[k] /\ k # p
      BY DEF Members
    <3>2. CASE k < p
      <4>1. k \in 1..(p - 1)
        BY <1>0, <3>2
      <4> QED  BY <1>1, <3>1, <4>1 DEF Members
    <3>3. CASE ~ (k < p)
      <4>1. k - 1 \in p..(n - 1) /\ (k - 1) + 1 = k
        BY <1>0, <3>1, <3>3
      <4> QED  BY <1>1, <3>1, <4>1 DEF Members
    <3> QED  BY <3>2, <3>3
  <2> QED  BY <2>1, <2>2
<1>6. h2 = IF n - 1 = 0 THEN NULL ELSE q2[1]
  <2>1. n # 0 /\ h = q[1] /\ nx[q[1]] = IF 1 = n THEN NULL ELSE q[1 + 1]
    BY <1>0 DEF Chain
  <2>2. CASE p = 1
    <3>1. n # 1 => q2[1] = q[1 + 1]
      <4>1. n # 1 => 1 \in p..(n - 1)
        BY <1>0, <2>2
      <4> QED  BY <1>1, <4>1
    <3> QED  BY <1>0, <2>1, <2>2, <3>1
  <2>3. CASE p # 1
    <3>1. 1 \in 1..(p - 1) /\ n - 1 # 0
      BY <1>0, <2>3
    <3> QED  BY <1>1, <2>1, <2>3, <3>1
  <2> QED  BY <2>2, <2>3
<1>7. ASSUME NEW k \in 1..(n - 1) PROVE nx2[q2[k]] = IF k = n - 1 THEN NULL ELSE q2[k + 1]
  <2>0. \A j \in 1..n : nx[q[j]] = IF j = n THEN NULL ELSE q[j + 1]
    BY DEF Chain
  <2>1. CASE k \in 1..(p - 1)
    <3>1. q2[k] = q[k] /\ k \in 1..n /\ q[k] \in Timer \ {q[p]} /\ k # n
      BY <1>0, <1>1, <1>2, <2>1
    <3>2. CASE k = p - 1
      <4>1. nx2[q[k]] = nx[q[p]]
        BY <1>0, <3>1, <3>2 DEF NextPast
      <4>2. nx[q[p]] = IF p = n THEN NULL ELSE q[p + 1]
        BY <2>0
      <4>3. p # n => q2[p] = q[p + 1]
        <5>1. p # n => p \in p..(n - 1)
          BY <1>0
        <5> QED  BY <1>1, <5>1
      <4> QED  BY <1>0, <3>1, <3>2, <4>1, <4>2, <4>3
    <3>3. CASE k # p - 1
      <4>1. k + 1 \in 1..(p - 1) /\ p - 1 \in 1..n /\ k # n - 1
        BY <1>0, <2>1, <3>3
      <4>2. q[k] # q[p - 1]
        BY <1>0, <3>1, <3>3, <4>1
      <4>3. nx2[q[k]] = nx[q[k]]
        BY <3>1, <4>2 DEF NextPast
      <4> QED  BY <1>1, <2>0, <3>1, <4>1, <4>3
    <3> QED  BY <3>2, <3>3
  <2>2. CASE k \in p..(n - 1)
    <3>1. q2[k] = q[k + 1] /\ k + 1 \in 1..n /\ q[k + 1] \in Timer \ {q[p]}
      BY <1>1, <1>2, <2>2
    <3>2. p # 1 => p - 1 \in 1..n /\ p - 1 # k + 1
      BY <1>0, <2>2
    <3>3. p # 1 => q[k + 1] # q[p - 1]
      BY <1>0, <3>1, <3>2
    <3>4. nx2[q[k + 1]] = nx[q[k + 1]]
      BY <3>1, <3>3 DEF NextPast
    <3>5. k # n - 1 => k + 1 \in p..(n - 1) /\ k + 1 # n
      BY <1>0, <2>2
    <3>6. k # n - 1 => q2[k + 1] = q[(k + 1) + 1]
      BY <1>1, <3>5
    <3>7. k = n - 1 => k + 1 = n
      BY <1>0
    <3> QED  BY <2>0, <3>1, <3>4, <3>5, <3>6, <3>7
  <2> QED  BY <1>1, <2>1, <2>2
<1>8. ASSUME NEW x \in Timer \ Members(n - 1, q2) PROVE nx2[x] \in Members(n - 1, q2) \cup {NULL}
  <2>1. CASE x = q[p]
    BY <1>5, <2>1
  <2>2. CASE x # q[p]
    <3>1. x \in Timer \ Members(n, q)
      BY <1>5, <2>2
    <3>2. p # 1 => q[p - 1] \in Members(n, q)
      <4>1. p # 1 => p - 1 \in 1..n
        BY <1>0
      <4> QED  BY <4>1 DEF Members
    <3>3. nx2[x] = nx[x]
      BY <2>2, <3>1, <3>2 DEF NextPast
    <3> QED  BY <3>1, <3>3 DEF Bare
  <2> QED  BY <2>1, <2>2
<1>9. Chain(n - 1, q2, h2, nx2)
  BY <1>0, <1>3, <1>4, <1>6, <1>7, <1>8 DEF Chain
<1>10. ASSUME NEW k \in 1..(n - 1) PROVE pv2[q2[k]] = IF k = 1 THEN NULL ELSE q2[k - 1]
  <2>0. \A j \in 1..n : pv[q[j]] = IF j = 1 THEN NULL ELSE q[j - 1]
    BY DEF Back
  <2>1. CASE k \in 1..(p - 1)
    <3>1. q2[k] = q[k] /\ k \in 1..n /\ q[k] \in Timer \ {q[p]}
      BY <1>0, <1>1, <1>2, <2>1
    <3>2. p # n => p + 1 \in 1..n /\ p + 1 # k
      BY <1>0, <2>1
    <3>3. p # n => q[k] # q[p + 1]
      BY <1>0, <3>1, <3>2
    <3>4. pv2[q[k]] = pv[q[k]]
      BY <3>1, <3>3 DEF PrevPast
    <3>5. k # 1 => k - 1 \in 1..(p - 1)
      BY <1>0, <2>1
    <3>6. k # 1 => q2[k - 1] = q[k - 1]
      BY <1>1, <3>5
    <3> QED  BY <2>0, <3>1, <3>4, <3>6
  <2>2. CASE k \in p..(n - 1)
    <3>1. q2[k] = q[k + 1] /\ k + 1 \in 1..n /\ q[k + 1] \in Timer \ {q[p]}
      BY <1>1, <1>2, <2>2
    <3>2. CASE k = p
      <4>1. pv2[q[k + 1]] = pv[q[p]]
        <5>1. p # n
          BY <1>0, <3>2
        <5> QED  BY <3>1, <3>2, <5>1 DEF PrevPast
      <4>2. pv[q[p]] = IF p = 1 THEN NULL ELSE q[p - 1]
        BY <2>0
      <4>3. p # 1 => q2[p - 1] = q[p - 1]
        <5>1. p # 1 => p - 1 \in 1..(p - 1)
          BY <1>0
        <5> QED  BY <1>1, <5>1
      <4> QED  BY <3>1, <3>2, <4>1, <4>2, <4>3
    <3>3. CASE k # p
      <4>1. p # n => p + 1 \in 1..n /\ p + 1 # k + 1
        BY <1>0, <3>3
      <4>2. p # n => q[k + 1] # q[p + 1]
        BY <1>0, <3>1, <4>1
      <4>3. pv2[q[k + 1]] = pv[q[k + 1]]
        BY <3>1, <4>2 DEF PrevPast
      <4>4. k - 1 \in p..(n - 1) /\ (k - 1) + 1 = k /\ (k + 1) - 1 = k /\ k # 1 /\ k + 1 # 1
        BY <1>0, <2>2, <3>3
      <4>5. q2[k - 1] = q[k]
        BY <1>1, <4>4
      <4> QED  BY <2>0, <3>1, <4>3, <4>4, <4>5
    <3> QED  BY <3>2, <3>3
  <2> QED  BY <1>1, <2>1, <2>2
<1>11. ASSUME NEW j \in 1..(n - 1), NEW k \in 1..(n - 1), j <= k PROVE ex[q2[j]] <= ex[q2[k]]
  <2>0. \A b, c \in (1..n) \ {p} : b <= c => ex[q[b]] <= ex[q[c]]
    BY DEF SortedBut
  <2>1. CASE j \in 1..(p - 1) /\ k \in 1..(p - 1)
    BY <1>1, <1>11, <2>0, <2>1
  <2>2. CASE j \in 1..(p - 1) /\ k \in p..(n - 1)
    <3>1. j <= k + 1
      BY <1>0, <1>11
    <3> QED  BY <1>1, <2>0, <2>2, <3>1
  <2>3. CASE j \in p..(n - 1) /\ k \in p..(n - 1)
    <3>1. j + 1 <= k + 1
      BY <1>0, <1>11
    <3> QED  BY <1>1, <2>0, <2>3, <3>1
  <2>4. ~ (j \in p..(n - 1) /\ k \in 1..(p - 1))
    BY <1>0, <1>11
  <2> QED  BY <1>1, <2>1, <2>2, <2>3, <2>4
<1> QED  BY <1>5, <1>9, <1>10, <1>11 DEF Sorted, Back, q2

(* The chain without its first m timers. *)
Dropped(n, q, m) == [k \in 1..(n - m) |-> q[k + m]]

Front(q, m) == {q[k] : k \in 1..m}
Rest(n, q, m) == {q[k] : k \in (m + 1)..n}
PrevCut(n, q, m, gone, pv, pv2) ==
  \A x \in Timer \ gone : pv2[x] = IF x = Nth(n, q, m + 1) THEN NULL ELSE pv[x]
NextCut(gone, nx) == [x \in Timer |-> IF x \in gone THEN NULL ELSE nx[x]]

(* The links cut behind the first m timers spell out the rest. *)
LEMMA DropLemma ==
  ASSUME NULL \notin Timer, NEW n, NEW q, NEW h, NEW nx, NEW pv, NEW ex, NEW m,
         NEW gone, NEW nx2, NEW pv2,
         Chain(n, q, h, nx), Back(n, q, pv), Sorted(n, q, ex), Bare(n, q, nx),
         m \in 0..n, gone = Front(q, m), nx2 = NextCut(gone, nx),
         pv2 \in [Timer -> Timer \cup {NULL}], PrevCut(n, q, m, gone, pv, pv2)
  PROVE  /\ Chain(n - m, Dropped(n, q, m), Nth(n, q, m + 1), nx2)
         /\ Back(n - m, Dropped(n, q, m), pv2) /\ Sorted(n - m, Dropped(n, q, m), ex)
         /\ Bare(n - m, Dropped(n, q, m), nx2)
         /\ Members(n - m, Dropped(n, q, m)) = Rest(n, q, m)
<1> DEFINE q2 == Dropped(n, q, m)
<1>0. /\ n \in Nat /\ n - m \in Nat /\ q \in [1..n -> Timer]
      /\ \A j, k \in 1..n : q[j] = q[k] => j = k
      /\ \A k \in 1..n : nx[q[k]] = IF k = n THEN NULL ELSE q[k + 1]
      /\ nx \in [Timer -> Timer \cup {NULL}]
  BY DEF Chain
<1>d. /\ \A x \in Timer : nx2[x] = IF x \in gone THEN NULL ELSE nx[x]
      /\ \A x \in Timer \ gone : pv2[x] = IF x = Nth(n, q, m + 1) THEN NULL ELSE pv[x]
  BY DEF NextCut, PrevCut
<1>1. /\ \A k \in 1..(n - m) : /\ k + m \in (m + 1)..n /\ k + m \in 1..n /\ q2[k] = q[k + m]
                               /\ (k + 1) + m = (k + m) + 1 /\ (k - 1) + m = (k + m) - 1
                               /\ (k = n - m <=> k + m = n) /\ (k = 1 <=> k + m = m + 1)
                               /\ k # n - m => k + 1 \in 1..(n - m)
                               /\ k # 1 => k - 1 \in 1..(n - m)
      /\ \A k \in (m + 1)..n : k - m \in 1..(n - m) /\ (k - m) + m = k
  <2>1. n \in Int /\ m \in Int
    BY <1>0
  <2>2. ASSUME NEW k \in 1..(n - m)
        PROVE  /\ k + m \in (m + 1)..n /\ k + m \in 1..n
               /\ (k + 1) + m = (k + m) + 1 /\ (k - 1) + m = (k + m) - 1
               /\ (k = n - m <=> k + m = n) /\ (k = 1 <=> k + m = m + 1)
               /\ k # n - m => k + 1 \in 1..(n - m)
               /\ k # 1 => k - 1 \in 1..(n - m)
    <3>0. k \in Int /\ 1 <= k /\ k <= n - m /\ 0 <= m /\ m <= n
      BY <1>0, <2>1
    <3> HIDE DEF q2
    <3>1. k + m \in (m + 1)..n /\ k + m \in 1..n
      BY <2>1, <3>0
    <3>2. (k + 1) + m = (k + m) + 1 /\ (k - 1) + m = (k + m) - 1
      BY <2>1, <3>0
    <3>3. (k = n - m <=> k + m = n) /\ (k = 1 <=> k + m = m + 1)
      BY <2>1, <3>0
    <3>4. k # n - m => k + 1 \in 1..(n - m)
      BY <2>1, <3>0
    <3>5. k # 1 => k - 1 \in 1..(n - m)
      BY <2>1, <3>0
    <3> QED  BY <3>1, <3>2, <3>3, <3>4, <3>5
  <2>3. \A k \in 1..(n - m) : q2[k] = q[k + m]
    BY DEF Dropped
  <2>4. ASSUME NEW k \in (m + 1)..n PROVE k - m \in 1..(n - m) /\ (k - m) + m = k
    BY <1>0, <2>1
  <2> HIDE DEF q2
  <2> QED  BY <2>2, <2>3, <2>4
<1>2. \A k \in (m + 1)..n : q[k] \in Timer \ gone
  <2> SUFFICES ASSUME NEW k \in (m + 1)..n PROVE q[k] \in Timer \ gone
    OBVIOUS
  <2>1. k \in 1..n /\ k \notin 1..m /\ 1..m \subseteq 1..n
    BY <1>0
  <2> QED  BY <1>0, <2>1 DEF Front
<1>3. q2 \in [1..(n - m) -> Timer]
  <2>1. \A k \in 1..(n - m) : q2[k] \in Timer
    BY <1>1, <1>2
  <2>2. q2 = [k \in 1..(n - m) |-> q2[k]]
    BY DEF Dropped
  <2> HIDE DEF q2
  <2> QED  BY <2>1, <2>2
<1> HIDE DEF q2
<1>4. ASSUME NEW j \in 1..(n - m), NEW k \in 1..(n - m), q2[j] = q2[k] PROVE j = k
  <2>1. j + m = k + m
    BY <1>0, <1>1, <1>4
  <2> QED  BY <1>0, <2>1
<1>5. Members(n - m, q2) = {q[k] : k \in (m + 1)..n}
  <2>1. ASSUME NEW k \in 1..(n - m) PROVE q2[k] \in {q[j] : j \in (m + 1)..n}
    BY <1>1
  <2>2. ASSUME NEW k \in (m + 1)..n PROVE q[k] \in Members(n - m, q2)
    <3>1. q[k] = q2[k - m]
      BY <1>1
    <3> QED  BY <1>1, <3>1 DEF Members
  <2>3. Members(n - m, q2) \subseteq {q[k] : k \in (m + 1)..n}
    BY <2>1 DEF Members
  <2> QED  BY <2>2, <2>3
<1>6. Nth(n, q, m + 1) = IF n - m = 0 THEN NULL ELSE q2[1]
  <2>1. CASE n = m
    BY <1>0, <2>1 DEF Nth
  <2>2. CASE n # m
    <3>1. 1 \in 1..(n - m) /\ 1 + m = m + 1 /\ m + 1 # n + 1 /\ n - m # 0
      BY <1>0, <2>2
    <3> QED  BY <1>1, <3>1 DEF Nth
  <2> QED  BY <2>1, <2>2
<1>7. ASSUME NEW k \in 1..(n - m) PROVE nx2[q2[k]] = IF k = n - m THEN NULL ELSE q2[k + 1]
  <2>1. nx2[q2[k]] = nx[q[k + m]]
    BY <1>1, <1>2, <1>d
  <2> QED  BY <1>0, <1>1, <2>1
<1>8. nx2 \in [Timer -> Timer \cup {NULL}]
  BY <1>0 DEF NextCut
<1>9. ASSUME NEW x \in Timer \ Members(n - m, q2) PROVE nx2[x] = NULL
  <2>1. x \in gone \/ x \notin Members(n, q)
    <3>1. ASSUME NEW k \in 1..n, x = q[k] PROVE x \in gone
      <4>1. k \in 1..m \/ k \in (m + 1)..n
        BY <1>0
      <4> QED  BY <1>5, <3>1, <4>1 DEF Front
    <3> QED  BY <3>1 DEF Members
  <2> QED  BY <1>d, <2>1 DEF Bare
<1>10. Chain(n - m, q2, Nth(n, q, m + 1), nx2)
  BY <1>0, <1>3, <1>4, <1>6, <1>7, <1>8, <1>9 DEF Chain
<1>11. ASSUME NEW k \in 1..(n - m) PROVE pv2[q2[k]] = IF k = 1 THEN NULL ELSE q2[k - 1]
  <2>0. \A j \in 1..n : pv[q[j]] = IF j = 1 THEN NULL ELSE q[j - 1]
    BY DEF Back
  <2>1. q2[k] = q[k + m] /\ q[k + m] \in Timer \ gone /\ k + m \in 1..n
    BY <1>1, <1>2
  <2>2. CASE k = 1
    <3>1. q[k + m] = Nth(n, q, m + 1)
      BY <1>0, <1>6, <2>1, <2>2
    <3> QED  BY <1>d, <2>1, <2>2, <3>1
  <2>3. CASE k # 1
    <3>1. k + m # m + 1 /\ k + m # 1 /\ m + 1 \in 1..n /\ n # m
      BY <1>0, <2>3
    <3>2. q[k + m] # Nth(n, q, m + 1)
      BY <1>0, <2>1, <3>1 DEF Nth
    <3>3. pv2[q2[k]] = q[(k + m) - 1]
      BY <1>d, <2>0, <2>1, <3>1, <3>2
    <3> QED  BY <1>1, <2>3, <3>3
  <2> QED  BY <2>2, <2>3
<1>12. ASSUME NEW j \in 1..(n - m), NEW k \in 1..(n - m), j <= k PROVE ex[q2[j]] <= ex[q2[k]]
  <2>1. j + m <= k + m
    BY <1>0, <1>12
  <2> QED  BY <1>1, <2>1 DEF Sorted
<1> QED  BY <1>5, <1>9, <1>10, <1>11, <1>12 DEF Sorted, Back, Bare, Rest, q2

(* What an operation on the list comes to: the links spell out the timers  *)
(* ts in ascending order of expiry.                                        *)
Spells(ts, ex, h, tl, nx, pv) ==
  \E n, q : Linked(n, q, ex, h, tl, nx, pv) /\ Members(n, q) = ts

BareBut(n, q, t, nx) == \A x \in Timer \ (Members(n, q) \cup {t}) : nx[x] = NULL

(* The private add_timer puts t where it belongs. *)
LEMMA PlaceLemma ==
  ASSUME NULL \notin Timer, NEW n, NEW q, NEW h, NEW nx, NEW pv, NEW ex \in [Timer -> Int],
         NEW t \in Timer \ Members(n, q), NEW k \in 1..n,
         Chain(n, q, h, nx), Back(n, q, pv), Sorted(n, q, ex),
         BareBut(n, q, t, nx),
         ex[q[k]] <= ex[t], tail = q[n], Place(t, q[k], nx, pv, ex)
  PROVE  Spells(Members(n, q) \cup {t}, ex, h, tail', next', prev')
<1> DEFINE stop[x \in Timer] == IF nx[x] = NULL \/ ex[t] < ex[nx[x]] THEN x ELSE stop[nx[x]]
<1>1. IsStop(stop, nx, ex, t)
  <2>1. PICK f : IsStop(f, nx, ex, t)
    BY StopExists
  <2>2. \E g : g = [x \in Timer |-> IF nx[x] = NULL \/ ex[t] < ex[nx[x]] THEN x ELSE g[nx[x]]]
    BY <2>1 DEF IsStop
  <2> QED  BY <2>2 DEF IsStop
<1>2. /\ next' = [nx EXCEPT ![stop[q[k]]] = t, ![t] = nx[stop[q[k]]]]
      /\ prev' = [x \in Timer |-> CASE x = t -> stop[q[k]]
                                    [] x = nx[stop[q[k]]] -> t
                                    [] OTHER -> pv[x]]
      /\ tail' = IF nx[stop[q[k]]] = NULL THEN t ELSE tail
  BY DEF Place
<1> HIDE DEF stop
<1>3. PICK m \in k..n : /\ stop[q[k]] = q[m] /\ (m = n \/ ex[t] < ex[q[m + 1]])
                        /\ \A j \in (k + 1)..m : ~ (ex[t] < ex[q[j]])
  BY <1>1, StopLemma
<1>4. /\ n \in Nat /\ q \in [1..n -> Timer] /\ m \in 1..n /\ m \in 0..n /\ m # 0
      /\ nx \in [Timer -> Timer \cup {NULL}] /\ pv \in [Timer -> Timer \cup {NULL}]
      /\ \A j \in 1..n : q[j] # t /\ q[j] \in Timer /\ q[j] \in Members(n, q)
      /\ nx[q[m]] = Nth(n, q, m + 1) /\ (m # n => m + 1 \in 1..n)
  <2>1. n \in Nat /\ q \in [1..n -> Timer] /\ nx \in [Timer -> Timer \cup {NULL}]
    BY DEF Chain
  <2>2. m \in 1..n /\ m \in 0..n /\ m # 0 /\ (m # n => m + 1 \in 1..n)
    BY <2>1
  <2>3. nx[q[m]] = Nth(n, q, m + 1)
    BY <2>1, <2>2 DEF Chain, Nth
  <2>4. \A j \in 1..n : q[j] # t /\ q[j] \in Timer /\ q[j] \in Members(n, q)
    BY <2>1 DEF Members
  <2> QED  BY <2>1, <2>2, <2>3, <2>4 DEF Back
<1>5. ex[q[m]] <= ex[t]
  <2>1. CASE m = k
    BY <2>1
  <2>2. CASE m # k
    <3>1. ~ (ex[t] < ex[q[m]])
      BY <1>3, <2>2
    <3> QED  BY <1>4, <3>1
  <2> QED  BY <2>1, <2>2
<1>6. m # n => ex[t] <= ex[q[m + 1]]
  BY <1>3, <1>4
<1>7. next' \in [Timer -> Timer \cup {NULL}] /\ NextAround(n, q, t, m, nx, next')
  BY <1>2, <1>3, <1>4 DEF NextAround
<1>8. prev' \in [Timer -> Timer \cup {NULL}] /\ PrevAround(n, q, t, m, pv, prev')
  <2>1. ASSUME NEW x \in Timer
        PROVE  prev'[x] = IF x = t THEN q[m] ELSE IF m # n /\ x = q[m + 1] THEN t ELSE pv[x]
    <3>1. x = nx[q[m]] <=> (m # n /\ x = q[m + 1])
      BY <1>4 DEF Nth
    <3>2. prev'[x] = CASE x = t -> q[m] [] x = nx[q[m]] -> t [] OTHER -> pv[x]
      BY <1>2, <1>3
    <3>3. x = t => x # nx[q[m]]
      BY <1>4, <3>1
    <3> QED  BY <3>1, <3>2, <3>3
  <2>2. \A x \in Timer : prev'[x] \in Timer \cup {NULL}
    BY <1>4, <2>1
  <2>3. prev' = [x \in Timer |-> prev'[x]]
    BY <1>2
  <2> QED  BY <1>4, <2>1, <2>2, <2>3 DEF PrevAround
<1>9. /\ Chain(n + 1, Inserted(n, q, t, m), h, next')
      /\ Back(n + 1, Inserted(n, q, t, m), prev') /\ Sorted(n + 1, Inserted(n, q, t, m), ex)
      /\ Members(n + 1, Inserted(n, q, t, m)) = Members(n, q) \cup {t}
  <2>1. Fits(n, q, t, m, ex)
    BY <1>5, <1>6 DEF Fits
  <2>2. h = IF m = 0 THEN t ELSE h
    OBVIOUS
  <2>3. m \in 0..n
    BY <1>4
  <2>4. PICK nx2, pv2 : nx2 = next' /\ pv2 = prev'
    OBVIOUS
  <2>5. nx2 \in [Timer -> Timer \cup {NULL}] /\ NextAround(n, q, t, m, nx, nx2)
    BY <1>7, <2>4
  <2>6. pv2 \in [Timer -> Timer \cup {NULL}] /\ PrevAround(n, q, t, m, pv, pv2)
    BY <1>8, <2>4
  <2>7. /\ Chain(n + 1, Inserted(n, q, t, m), h, nx2)
        /\ Back(n + 1, Inserted(n, q, t, m), pv2) /\ Sorted(n + 1, Inserted(n, q, t, m), ex)
        /\ Members(n + 1, Inserted(n, q, t, m)) = Members(n, q) \cup {t}
    BY <2>1, <2>2, <2>3, <2>5, <2>6, InsertLemma
  <2> QED  BY <2>4, <2>7
<1>10. Bare(n + 1, Inserted(n, q, t, m), next')
  BY <1>4, <1>7, <1>9 DEF Bare, BareBut, NextAround
<1>11. tail' = Inserted(n, q, t, m)[n + 1]
  <2>1. nx[q[m]] = NULL <=> m = n
    BY <1>4 DEF Nth
  <2>2. CASE m = n
    BY <1>2, <1>3, <1>4, <2>1, <2>2 DEF Inserted
  <2>3. CASE m # n
    <3>1. ~ (n + 1 <= m) /\ n + 1 # m + 1 /\ (n + 1) - 1 = n /\ n + 1 \in 1..(n + 1)
      BY <1>4, <2>3
    <3> QED  BY <1>2, <1>3, <2>1, <2>3, <3>1 DEF Inserted
  <2> QED  BY <2>2, <2>3
<1> QED  BY <1>9, <1>10, <1>11 DEF Linked, Spells

(* Links that spell out a sequence are what ListSound asks for. *)
LEMMA LinkedLemma ==
  ASSUME NULL \notin Timer, NEW n, NEW q, NEW ex, Linked(n, q, ex, head, tail, next, prev)
  PROVE  ListSound(ex) /\ Listed = Members(n, q)
<1>1. Listed = Members(n, q)
  BY ListedLemma DEF Linked
<1>2. /\ n \in Nat /\ q \in [1..n -> Timer] /\ head = IF n = 0 THEN NULL ELSE q[1]
      /\ \A k \in 1..n : next[q[k]] = IF k = n THEN NULL ELSE q[k + 1]
      /\ \A k \in 1..n : prev[q[k]] = IF k = 1 THEN NULL ELSE q[k - 1]
      /\ n > 0 => tail = q[n]
  BY DEF Linked, Chain, Back
<1>3. ASSUME head # NULL, NEW t \in Listed \ {tail}
      PROVE  next[t] # NULL /\ prev[next[t]] = t /\ ex[t] <= ex[next[t]]
  <2>1. PICK k \in 1..n : t = q[k]
    BY <1>1, <1>3 DEF Members
  <2>2. k # n /\ k + 1 \in 1..n /\ k + 1 # 1 /\ (k + 1) - 1 = k /\ k <= k + 1
    BY <1>2, <1>3, <2>1
  <2>3. next[t] = q[k + 1] /\ prev[next[t]] = q[k]
    BY <1>2, <2>1, <2>2
  <2>4. ex[q[k]] <= ex[q[k + 1]]
    BY <2>2 DEF Linked, Sorted
  <2> QED  BY <1>2, <2>1, <2>2, <2>3, <2>4
<1>4. head # NULL => prev[head] = NULL /\ tail \in Listed /\ next[tail] = NULL
  <2> SUFFICES ASSUME head # NULL
               PROVE  prev[head] = NULL /\ tail \in Listed /\ next[tail] = NULL
    OBVIOUS
  <2>1. n # 0 /\ 1 \in 1..n /\ n \in 1..n /\ n > 0
    BY <1>2
  <2> QED  BY <1>1, <1>2, <2>1 DEF Members
<1> QED  BY <1>1, <1>3, <1>4 DEF ListSound

(* add_timer: the new timer is in the list. *)
LEMMA AddList ==
  ASSUME NULL \notin Timer, NEW n, NEW q, NEW ex \in [Timer -> Int],
         Linked(n, q, ex, head, tail, next, prev),
         NEW t \in Timer \ Members(n, q), add_timer(t, ex)
  PROVE  Spells(Members(n, q) \cup {t}, ex, head', tail', next', prev')
<1> DEFINE nx == [next EXCEPT ![t] = NULL]
           pv == [prev EXCEPT ![t] = NULL]
<1>1. /\ Chain(n, q, head, next) /\ Back(n, q, prev) /\ Sorted(n, q, ex) /\ Bare(n, q, next)
      /\ n \in Nat /\ q \in [1..n -> Timer] /\ head = IF n = 0 THEN NULL ELSE q[1]
      /\ next \in [Timer -> Timer \cup {NULL}] /\ prev \in [Timer -> Timer \cup {NULL}]
      /\ n > 0 => tail = q[n]
      /\ \A k \in 1..n : q[k] \in Timer /\ q[k] # t
      /\ n # 0 => head # NULL /\ 1 \in 1..n /\ n \in 1..n /\ n > 0
  <2>1. n \in Nat /\ q \in [1..n -> Timer] /\ head = IF n = 0 THEN NULL ELSE q[1]
    BY DEF Linked, Chain
  <2>2. n # 0 => 1 \in 1..n /\ n \in 1..n /\ n > 0
    BY <2>1
  <2>3. \A k \in 1..n : q[k] \in Timer /\ q[k] # t
    BY <2>1 DEF Members
  <2>4. next \in [Timer -> Timer \cup {NULL}] /\ prev \in [Timer -> Timer \cup {NULL}]
    BY DEF Linked, Chain, Back
  <2> QED  BY <2>1, <2>2, <2>3, <2>4 DEF Linked
<1>2. CASE n = 0 \/ ex[t] < ex[head]
  <2>1. /\ head' = t /\ next' = [nx EXCEPT ![t] = head]
        /\ prev' = IF n = 0 THEN pv ELSE [pv EXCEPT ![head] = t]
        /\ tail' = IF n = 0 THEN t ELSE tail
    BY <1>1, <1>2 DEF add_timer
  <2>2. next' \in [Timer -> Timer \cup {NULL}] /\ NextAround(n, q, t, 0, next, next')
    BY <1>1, <2>1 DEF NextAround, Nth
  <2>3. prev' \in [Timer -> Timer \cup {NULL}] /\ PrevAround(n, q, t, 0, prev, prev')
    BY <1>1, <2>1 DEF PrevAround
  <2>4. Fits(n, q, t, 0, ex)
    <3>1. n # 0 => ex[t] <= ex[q[0 + 1]]
      BY <1>1, <1>2
    <3> QED  BY <3>1 DEF Fits
  <2>5. PICK nx2, pv2 : nx2 = next' /\ pv2 = prev'
    OBVIOUS
  <2>6. 0 \in 0..n /\ t = IF 0 = 0 THEN t ELSE head
    BY <1>1
  <2>7. nx2 \in [Timer -> Timer \cup {NULL}] /\ NextAround(n, q, t, 0, next, nx2)
    BY <2>2, <2>5
  <2>8. pv2 \in [Timer -> Timer \cup {NULL}] /\ PrevAround(n, q, t, 0, prev, pv2)
    BY <2>3, <2>5
  <2>9. /\ Chain(n + 1, Inserted(n, q, t, 0), t, nx2)
        /\ Back(n + 1, Inserted(n, q, t, 0), pv2) /\ Sorted(n + 1, Inserted(n, q, t, 0), ex)
        /\ Members(n + 1, Inserted(n, q, t, 0)) = Members(n, q) \cup {t}
    <3> HIDE DEF nx, pv
    <3> QED  BY <1>1, <2>4, <2>6, <2>7, <2>8, InsertLemma
  <2>10. Bare(n + 1, Inserted(n, q, t, 0), nx2)
    <3>1. \A x \in Timer \ {t} : nx2[x] = next[x]
      BY <2>7 DEF NextAround
    <3> QED  BY <1>1, <2>9, <3>1 DEF Bare
  <2>11. tail' = Inserted(n, q, t, 0)[n + 1]
    <3>1. n + 1 \in 1..(n + 1) /\ ~ (n + 1 <= 0) /\ (n + 1) - 1 = n /\ (n + 1 = 0 + 1 <=> n = 0)
      BY <1>1
    <3> QED  BY <1>1, <2>1, <3>1 DEF Inserted
  <2> HIDE DEF nx, pv
  <2>12. Linked(n + 1, Inserted(n, q, t, 0), ex, t, tail', nx2, pv2)
    BY <2>9, <2>10, <2>11 DEF Linked
  <2> QED  BY <2>1, <2>5, <2>9, <2>12 DEF Spells
<1>3. CASE ~ (n = 0 \/ ex[t] < ex[head])
  <2>1. Place(t, q[1], nx, pv, ex) /\ head' = head
    BY <1>1, <1>3 DEF add_timer
  <2>2. 1 \in 1..n /\ ex[q[1]] <= ex[t] /\ tail = q[n]
    BY <1>1, <1>3
  <2>3. Chain(n, q, head, nx)
    <3>1. nx \in [Timer -> Timer \cup {NULL}]
      BY <1>1
    <3>2. \A k \in 1..n : nx[q[k]] = next[q[k]]
      BY <1>1
    <3>3. \A x \in Timer \ Members(n, q) : nx[x] = NULL
      BY <1>1 DEF Bare
    <3> HIDE DEF nx
    <3> QED  BY <1>1, <3>1, <3>2, <3>3 DEF Chain
  <2>4. Back(n, q, pv)
    <3>1. pv \in [Timer -> Timer \cup {NULL}]
      BY <1>1
    <3>2. \A k \in 1..n : pv[q[k]] = prev[q[k]]
      BY <1>1
    <3> HIDE DEF pv
    <3> QED  BY <1>1, <3>1, <3>2 DEF Back
  <2>5. BareBut(n, q, t, nx)
    BY <1>1 DEF Bare, BareBut
  <2> HIDE DEF nx, pv
  <2>6. Spells(Members(n, q) \cup {t}, ex, head, tail', next', prev')
    BY <1>1, <2>1, <2>2, <2>3, <2>4, <2>5, PlaceLemma
  <2> QED  BY <2>1, <2>6
<1> QED  BY <1>2, <1>3

(* What an operation on the timer in place p may read off the links.       *)
LEMMA AroundLemma ==
  ASSUME NULL \notin Timer, NEW n, NEW q, NEW h, NEW nx, NEW pv, NEW p, p \in 1..n,
         Chain(n, q, h, nx), Back(n, q, pv)
  PROVE  /\ n \in Nat /\ n - 1 \in Nat /\ n > 0 /\ n \in 1..n /\ 1 \in 1..n
         /\ q \in [1..n -> Timer] /\ h = q[1]
         /\ \A k \in 1..n : q[k] \in Timer /\ q[k] # NULL /\ q[k] \in Members(n, q)
         /\ \A j, k \in 1..n : q[j] = q[k] <=> j = k
         /\ nx \in [Timer -> Timer \cup {NULL}] /\ pv \in [Timer -> Timer \cup {NULL}]
         /\ nx[q[p]] = IF p = n THEN NULL ELSE q[p + 1]
         /\ pv[q[p]] = IF p = 1 THEN NULL ELSE q[p - 1]
         /\ p # n => p + 1 \in 1..n /\ p \in 1..(n - 1) /\ n - 1 \in 1..(n - 1)
         /\ p # 1 => p - 1 \in 1..n
<1>1. n \in Nat /\ q \in [1..n -> Timer] /\ h = IF n = 0 THEN NULL ELSE q[1]
  BY DEF Chain
<1>2. /\ n \in Nat /\ n - 1 \in Nat /\ n > 0 /\ n \in 1..n /\ 1 \in 1..n
      /\ p # n => p + 1 \in 1..n /\ p \in 1..(n - 1) /\ n - 1 \in 1..(n - 1)
      /\ p # 1 => p - 1 \in 1..n
  BY <1>1
<1>3. \A k \in 1..n : q[k] \in Timer /\ q[k] # NULL /\ q[k] \in Members(n, q)
  BY <1>1 DEF Members
<1>4. \A j, k \in 1..n : q[j] = q[k] <=> j = k
  BY DEF Chain
<1>5. nx \in [Timer -> Timer \cup {NULL}] /\ pv \in [Timer -> Timer \cup {NULL}]
  BY DEF Chain, Back
<1>6. /\ nx[q[p]] = IF p = n THEN NULL ELSE q[p + 1]
      /\ pv[q[p]] = IF p = 1 THEN NULL ELSE q[p - 1]
  BY DEF Chain, Back
<1> QED  BY <1>1, <1>2, <1>3, <1>4, <1>5, <1>6

(* del_timer: it is out of the list. *)
LEMMA DelList ==
  ASSUME NULL \notin Timer, NEW n, NEW q, NEW ex \in [Timer -> Int],
         Linked(n, q, ex, head, tail, next, prev),
         NEW t \in Members(n, q), del_timer(t)
  PROVE  Spells(Members(n, q) \ {t}, ex, head', tail', next', prev')
<1>1. PICK p \in 1..n : t = q[p]
  BY DEF Members
<1>2. Chain(n, q, head, next) /\ Back(n, q, prev) /\ Sorted(n, q, ex) /\ Bare(n, q, next)
  BY DEF Linked
<1>3. /\ n \in Nat /\ n - 1 \in Nat /\ n > 0 /\ n \in 1..n /\ 1 \in 1..n
      /\ q \in [1..n -> Timer] /\ head = q[1]
      /\ \A k \in 1..n : q[k] \in Timer /\ q[k] # NULL /\ q[k] \in Members(n, q)
      /\ \A j, k \in 1..n : q[j] = q[k] <=> j = k
      /\ next \in [Timer -> Timer \cup {NULL}] /\ prev \in [Timer -> Timer \cup {NULL}]
      /\ next[q[p]] = IF p = n THEN NULL ELSE q[p + 1]
      /\ prev[q[p]] = IF p = 1 THEN NULL ELSE q[p - 1]
      /\ p # n => p + 1 \in 1..n /\ p \in 1..(n - 1) /\ n - 1 \in 1..(n - 1)
      /\ p # 1 => p - 1 \in 1..n
  BY <1>2, AroundLemma
<1>4. tail = q[n]
  BY <1>3 DEF Linked
<1>5. (t = head <=> p = 1) /\ (t = tail <=> p = n)
  BY <1>1, <1>3, <1>4
<1>6. /\ head' = IF p = 1 THEN next[head] ELSE head
      /\ tail' = IF p = n THEN IF p = 1 THEN NULL ELSE prev[t] ELSE tail
  <2>1. CASE p = 1 /\ p = n
    BY <1>1, <1>3, <1>5, <2>1 DEF del_timer
  <2>2. CASE p = 1 /\ p # n
    BY <1>1, <1>3, <1>5, <2>2 DEF del_timer
  <2>3. CASE p # 1 /\ p = n
    BY <1>5, <2>3 DEF del_timer
  <2>4. CASE p # 1 /\ p # n
    BY <1>5, <2>4 DEF del_timer
  <2> QED  BY <2>1, <2>2, <2>3, <2>4
<1>7. /\ next' \in [Timer -> Timer \cup {NULL}] /\ next'[t] = NULL
      /\ \A x \in Timer \ {t} : next'[x] = IF x = prev[t] THEN next[t] ELSE next[x]
  BY <1>1, <1>3 DEF del_timer, Freed
<1>8. /\ prev' \in [Timer -> Timer \cup {NULL}]
      /\ \A x \in Timer \ {t} : prev'[x] = IF x = next[t] THEN prev[t] ELSE prev[x]
  BY <1>1, <1>3 DEF del_timer, Freed
<1>9. NextPast(n, q, p, next, next') /\ PrevPast(n, q, p, prev, prev')
  <2>1. \A x \in Timer : /\ x = prev[t] <=> (p # 1 /\ x = q[p - 1])
                         /\ x = next[t] <=> (p # n /\ x = q[p + 1])
    BY <1>1, <1>3
  <2>2. NextPast(n, q, p, next, next')
    BY <1>1, <1>7, <2>1 DEF NextPast
  <2>3. PrevPast(n, q, p, prev, prev')
    BY <1>1, <1>8, <2>1 DEF PrevPast
  <2> QED  BY <2>2, <2>3
<1>10. SortedBut(n, q, p, ex)
  BY <1>2 DEF Sorted, SortedBut
<1>11. PICK h2, nx2, pv2 : h2 = head' /\ nx2 = next' /\ pv2 = prev'
  OBVIOUS
<1>12. /\ h2 = IF p = 1 THEN next[head] ELSE head
       /\ nx2 \in [Timer -> Timer \cup {NULL}] /\ NextPast(n, q, p, next, nx2)
       /\ nx2[q[p]] \in (Members(n, q) \ {q[p]}) \cup {NULL}
       /\ pv2 \in [Timer -> Timer \cup {NULL}] /\ PrevPast(n, q, p, prev, pv2)
  BY <1>1, <1>6, <1>7, <1>8, <1>9, <1>11
<1>13. /\ Chain(n - 1, Removed(n, q, p), h2, nx2)
       /\ Back(n - 1, Removed(n, q, p), pv2) /\ Sorted(n - 1, Removed(n, q, p), ex)
       /\ Members(n - 1, Removed(n, q, p)) = Members(n, q) \ {q[p]}
  BY <1>2, <1>10, <1>12, RemoveLemma
<1>14. Bare(n - 1, Removed(n, q, p), nx2)
  <2>1. ASSUME NEW x \in Timer, x \notin Members(n, q) \/ x = t PROVE nx2[x] = NULL
    <3>1. CASE x = t
      BY <1>7, <1>11, <3>1
    <3>2. CASE x # t
      BY <1>1, <1>2, <1>3, <1>7, <1>11, <2>1, <3>2 DEF Bare
    <3> QED  BY <3>1, <3>2
  <2> QED  BY <1>1, <1>13, <2>1 DEF Bare
<1>15. n - 1 > 0 => tail' = Removed(n, q, p)[n - 1]
  <2> SUFFICES ASSUME n - 1 > 0 PROVE tail' = Removed(n, q, p)[n - 1]
    OBVIOUS
  <2>1. n - 1 \in 1..(n - 1) /\ (n - 1) + 1 = n /\ (n - 1 < p <=> p = n) /\ (p = n => p # 1)
    BY <1>3
  <2> QED  BY <1>1, <1>3, <1>4, <1>6, <2>1 DEF Removed
<1>16. Linked(n - 1, Removed(n, q, p), ex, h2, tail', nx2, pv2)
  BY <1>13, <1>14, <1>15 DEF Linked
<1> QED  BY <1>1, <1>11, <1>13, <1>16 DEF Spells

(* Only t's expire field changes, to a later time. *)
Later(t, old, ex) ==
  /\ old \in [Timer -> Int] /\ ex \in [Timer -> Int]
  /\ old[t] <= ex[t] /\ \A x \in Timer \ {t} : ex[x] = old[x]

(* adjust_timer: the same timers, in their new order. *)
LEMMA AdjustList ==
  ASSUME NULL \notin Timer, NEW n, NEW q, NEW old, NEW ex,
         Linked(n, q, old, head, tail, next, prev),
         NEW t \in Members(n, q), Later(t, old, ex), adjust_timer(t, ex)
  PROVE  Spells(Members(n, q), ex, head', tail', next', prev')
<1>1. PICK p \in 1..n : t = q[p]
  BY DEF Members
<1>2. Chain(n, q, head, next) /\ Back(n, q, prev) /\ Sorted(n, q, old) /\ Bare(n, q, next)
  BY DEF Linked
<1>3. /\ n \in Nat /\ n - 1 \in Nat /\ n > 0 /\ n \in 1..n /\ 1 \in 1..n
      /\ q \in [1..n -> Timer] /\ head = q[1]
      /\ \A k \in 1..n : q[k] \in Timer /\ q[k] # NULL /\ q[k] \in Members(n, q)
      /\ \A j, k \in 1..n : q[j] = q[k] <=> j = k
      /\ next \in [Timer -> Timer \cup {NULL}] /\ prev \in [Timer -> Timer \cup {NULL}]
      /\ next[q[p]] = IF p = n THEN NULL ELSE q[p + 1]
      /\ prev[q[p]] = IF p = 1 THEN NULL ELSE q[p - 1]
      /\ p # n => p + 1 \in 1..n /\ p \in 1..(n - 1) /\ n - 1 \in 1..(n - 1)
      /\ p # 1 => p - 1 \in 1..n
  BY <1>2, AroundLemma
<1>4. tail = q[n]
  BY <1>3 DEF Linked
<1>5. old \in [Timer -> Int] /\ ex \in [Timer -> Int]
  BY DEF Later
<1>6. SortedBut(n, q, p, ex)
  BY <1>1, <1>2, <1>3 DEF Sorted, SortedBut, Later
<1>7. CASE next[t] = NULL \/ ex[t] < ex[next[t]]
  <2>1. head' = head /\ tail' = tail /\ next' = next /\ prev' = prev
    BY <1>7 DEF adjust_timer, listVars
  <2>2. ASSUME NEW j \in 1..n, NEW k \in 1..n, j <= k PROVE ex[q[j]] <= ex[q[k]]
    <3>1. ex[q[j]] \in Int /\ ex[q[k]] \in Int /\ old[q[j]] \in Int /\ old[q[k]] \in Int
      BY <1>3, <1>5
    <3>2. CASE j = k
      BY <3>1, <3>2
    <3>3. CASE j # p /\ k # p
      BY <1>6, <2>2, <3>3 DEF SortedBut
    <3>4. CASE k = p /\ j # k
      <4>1. old[q[j]] <= old[q[k]]
        BY <1>2, <2>2 DEF Sorted
      <4>2. ex[q[j]] = old[q[j]] /\ old[q[k]] <= ex[q[k]]
        BY <1>1, <1>3, <3>4 DEF Later
      <4> QED  BY <3>1, <4>1, <4>2
    <3>5. CASE j = p /\ j # k
      <4>1. p # n /\ p + 1 \in 1..n /\ p + 1 <= k /\ p + 1 # p
        BY <1>3, <2>2, <3>5
      <4>2. ex[q[p]] < ex[q[p + 1]]
        BY <1>1, <1>3, <1>7, <4>1
      <4>3. ex[q[p + 1]] <= ex[q[k]]
        BY <1>6, <3>5, <4>1 DEF SortedBut
      <4>4. ex[q[p + 1]] \in Int
        BY <1>3, <1>5, <4>1
      <4> QED  BY <3>1, <3>5, <4>2, <4>3, <4>4
    <3> QED  BY <3>2, <3>3, <3>4, <3>5
  <2>3. Sorted(n, q, ex)
    BY <2>2 DEF Sorted
  <2>4. Linked(n, q, ex, head', tail', next', prev')
    BY <1>2, <1>4, <2>1, <2>3 DEF Linked
  <2> QED  BY <2>4 DEF Spells
<1>8. CASE ~ (next[t] = NULL \/ ex[t] < ex[next[t]])
  <2> DEFINE nx == IF p = 1 THEN [next EXCEPT ![t] = NULL]
                   ELSE [next EXCEPT ![prev[t]] = next[t]]
             pv == IF p = 1 THEN [prev EXCEPT ![next[t]] = NULL]
                   ELSE [prev EXCEPT ![next[t]] = prev[t]]
             h == IF p = 1 THEN next[head] ELSE head
             r == Removed(n, q, p)
  <2>1. p # n /\ next[t] = q[p + 1] /\ p + 1 \in 1..n /\ p \in 1..(n - 1)
    BY <1>1, <1>3, <1>8
  <2>2. Place(t, q[p + 1], nx, pv, ex) /\ head' = h
    <3>1. CASE p = 1
      BY <1>1, <1>3, <1>8, <2>1, <3>1 DEF adjust_timer
    <3>2. CASE p # 1
      <4>1. t # head
        BY <1>1, <1>3, <3>2
      <4> QED  BY <1>8, <2>1, <3>2, <4>1 DEF adjust_timer
    <3> QED  BY <3>1, <3>2
  <2>3. /\ nx \in [Timer -> Timer \cup {NULL}] /\ NextPast(n, q, p, next, nx)
        /\ nx[q[p]] \in (Members(n, q) \ {q[p]}) \cup {NULL}
    <3>1. nx \in [Timer -> Timer \cup {NULL}]
      BY <1>1, <1>3, <2>1
    <3>2. NextPast(n, q, p, next, nx)
      BY <1>1, <1>3, <2>1 DEF NextPast
    <3>3. nx[q[p]] = IF p = 1 THEN NULL ELSE q[p + 1]
      BY <1>1, <1>3, <2>1
    <3>4. q[p + 1] \in Members(n, q) \ {q[p]}
      <4>1. p + 1 # p
        BY <1>3
      <4> QED  BY <1>3, <2>1, <4>1
    <3> QED  BY <3>1, <3>2, <3>3, <3>4
  <2>4. pv \in [Timer -> Timer \cup {NULL}] /\ PrevPast(n, q, p, prev, pv)
    <3>1. pv \in [Timer -> Timer \cup {NULL}]
      BY <1>1, <1>3, <2>1
    <3>2. PrevPast(n, q, p, prev, pv)
      BY <1>1, <1>3, <2>1 DEF PrevPast
    <3> QED  BY <3>1, <3>2
  <2>b. \A x \in Timer \ Members(n, q) : nx[x] = NULL
    <3>1. \A x \in Timer \ Members(n, q) : nx[x] = next[x]
      BY <1>1, <1>3
    <3> QED  BY <1>2, <3>1 DEF Bare
  <2> HIDE DEF nx, pv
  <2>5. /\ Chain(n - 1, r, h, nx) /\ Back(n - 1, r, pv) /\ Sorted(n - 1, r, ex)
        /\ Members(n - 1, r) = Members(n, q) \ {q[p]}
    BY <1>2, <1>6, <2>3, <2>4, RemoveLemma
  <2>6. r[p] = q[p + 1] /\ r[n - 1] = q[n]
    <3>1. ~ (p < p) /\ ~ (n - 1 < p) /\ (n - 1) + 1 = n /\ n - 1 \in 1..(n - 1)
      BY <1>3, <2>1
    <3> QED  BY <2>1, <3>1 DEF Removed
  <2> HIDE DEF r, h
  <2>7. BareBut(n - 1, r, t, nx)
    BY <1>1, <2>5, <2>b DEF BareBut
  <2>8. t \in Timer \ Members(n - 1, r)
    BY <1>1, <1>3, <2>5
  <2>9. ex[r[p]] <= ex[t]
    BY <1>1, <1>3, <1>5, <1>8, <2>1, <2>6
  <2>10. tail = r[n - 1] /\ Place(t, r[p], nx, pv, ex)
    BY <1>4, <2>2, <2>6
  <2>11. Spells(Members(n - 1, r) \cup {t}, ex, h, tail', next', prev')
    BY <1>5, <2>1, <2>5, <2>7, <2>8, <2>9, <2>10, PlaceLemma
  <2>12. Members(n - 1, r) \cup {t} = Members(n, q)
    BY <1>1, <2>5
  <2> QED  BY <2>2, <2>11, <2>12
<1> QED  BY <1>7, <1>8

(* What tick unlinks are exactly the timers that are due. *)
Due(n, q, ex) == {x \in Members(n, q) : ~ (0 < ex[x])}

LEMMA TickList ==
  ASSUME NULL \notin Timer, NEW n, NEW q, NEW ex \in [Timer -> Int],
         Linked(n, q, ex, head, tail, next, prev), tick(ex)
  PROVE  /\ Spells(Members(n, q) \ Due(n, q, ex), ex, head', tail', next', prev')
         /\ Listed \ From(AfterDue(ex)) = Due(n, q, ex)
<1> DEFINE first[x \in Timer \cup {NULL}] ==
             IF x = NULL THEN NULL ELSE IF 0 < ex[x] THEN x ELSE first[next[x]]
<1>0. Chain(n, q, head, next) /\ Back(n, q, prev) /\ Sorted(n, q, ex) /\ Bare(n, q, next)
  BY DEF Linked
<1>1. IsFirst(first, next, ex)
  <2>1. PICK f : IsFirst(f, next, ex)
    BY <1>0, FirstExists
  <2>2. \E g : g = [x \in Timer \cup {NULL} |->
                    IF x = NULL THEN NULL ELSE IF 0 < ex[x] THEN x ELSE g[next[x]]]
    BY <2>1 DEF IsFirst
  <2> QED  BY <2>2 DEF IsFirst
<1>2. AfterDue(ex) = first[head]
  BY DEF AfterDue
<1> HIDE DEF first
<1>3. PICK m \in 0..n : /\ AfterDue(ex) = Nth(n, q, m + 1)
                        /\ \A j \in 1..m : ~ (0 < ex[q[j]])
                        /\ m = n \/ 0 < ex[q[m + 1]]
  BY <1>0, <1>1, <1>2, FirstLemma
<1>4. /\ n \in Nat /\ q \in [1..n -> Timer] /\ \A j, k \in 1..n : q[j] = q[k] => j = k
      /\ next \in [Timer -> Timer \cup {NULL}] /\ prev \in [Timer -> Timer \cup {NULL}]
  BY <1>0 DEF Chain, Back
<1>5. Listed = Members(n, q) /\ From(AfterDue(ex)) = {q[j] : j \in (m + 1)..n}
  <2>1. /\ Listed = Members(n, q) /\ From(NULL) = {}
        /\ \A k \in 1..n : From(q[k]) = {q[j] : j \in k..n}
    BY <1>0, ListedLemma
  <2>2. CASE m = n
    <3>1. (m + 1)..n = {}
      BY <1>4, <2>2
    <3> QED  BY <1>3, <2>1, <2>2, <3>1 DEF Nth
  <2>3. CASE m # n
    <3>1. m + 1 \in 1..n /\ m + 1 # n + 1
      BY <1>4, <2>3
    <3> QED  BY <1>3, <2>1, <3>1 DEF Nth
  <2> QED  BY <2>2, <2>3
<1>6. \A k \in (m + 1)..n : k \in 1..n /\ 0 < ex[q[k]]
  <2> SUFFICES ASSUME NEW k \in (m + 1)..n PROVE k \in 1..n /\ 0 < ex[q[k]]
    OBVIOUS
  <2>1. m # n /\ m + 1 \in 1..n /\ k \in 1..n /\ m + 1 <= k
    BY <1>4
  <2>2. 0 < ex[q[m + 1]] /\ ex[q[m + 1]] <= ex[q[k]]
    BY <1>0, <1>3, <2>1 DEF Sorted
  <2>3. ex[q[m + 1]] \in Int /\ ex[q[k]] \in Int
    BY <1>4, <2>1
  <2> QED  BY <2>1, <2>2, <2>3
<1>7. /\ \A k \in 1..n : k \in 1..m \/ k \in (m + 1)..n
      /\ \A k \in 1..m : k \in 1..n
  BY <1>4
<1> DEFINE gone == {q[k] : k \in 1..m}
<1>8. gone = Due(n, q, ex) /\ {q[j] : j \in (m + 1)..n} = Members(n, q) \ gone
  <2>1. ASSUME NEW x \in Members(n, q)
        PROVE  /\ x \in gone <=> ~ (0 < ex[x])
               /\ x \in {q[j] : j \in (m + 1)..n} <=> 0 < ex[x]
    <3>1. PICK k \in 1..n : x = q[k]
      BY DEF Members
    <3>2. CASE k \in 1..m
      BY <1>3, <1>6, <3>1, <3>2
    <3>3. CASE k \in (m + 1)..n
      BY <1>3, <1>6, <3>1, <3>3
    <3> QED  BY <1>7, <3>1, <3>2, <3>3
  <2>2. gone \subseteq Members(n, q)
    BY <1>7 DEF Members
  <2>3. {q[j] : j \in (m + 1)..n} \subseteq Members(n, q)
    BY <1>6 DEF Members
  <2> HIDE DEF gone
  <2> QED  BY <2>1, <2>2, <2>3 DEF Due
<1> HIDE DEF gone
<1>9. Listed \ From(AfterDue(ex)) = gone
  BY <1>5, <1>8 DEF Due
<1>10. /\ head' = Nth(n, q, m + 1) /\ tail' = tail /\ next' = NextCut(gone, next)
       /\ prev' = Freed(prev, gone \cup (IF head' = NULL THEN {} ELSE {head'}))
  BY <1>3, <1>9 DEF tick, Freed, NextCut
<1>11. prev' \in [Timer -> Timer \cup {NULL}] /\ PrevCut(n, q, m, gone, prev, prev')
  <2>1. \A x \in Timer : prev'[x] = IF x \in gone \/ x = Nth(n, q, m + 1) THEN NULL ELSE prev[x]
    BY <1>10 DEF Freed
  <2>2. prev' \in [Timer -> Timer \cup {NULL}]
    BY <1>4, <1>10 DEF Freed
  <2> QED  BY <2>1, <2>2 DEF PrevCut
<1>12. PICK nx2, pv2 : nx2 = next' /\ pv2 = prev'
  OBVIOUS
<1> DEFINE r == Dropped(n, q, m)
<1>13. /\ Chain(n - m, r, Nth(n, q, m + 1), nx2) /\ Back(n - m, r, pv2)
       /\ Sorted(n - m, r, ex) /\ Bare(n - m, r, nx2)
       /\ Members(n - m, r) = Rest(n, q, m)
  <2>1. gone = Front(q, m) /\ nx2 = NextCut(gone, next)
    BY <1>10, <1>12 DEF gone, Front
  <2>2. pv2 \in [Timer -> Timer \cup {NULL}] /\ PrevCut(n, q, m, gone, prev, pv2)
    BY <1>11, <1>12
  <2>3. m \in 0..n
    OBVIOUS
  <2> QED  BY <1>0, <2>1, <2>2, <2>3, DropLemma
<1>14. n - m > 0 => tail' = r[n - m]
  <2> SUFFICES ASSUME n - m > 0 PROVE tail' = r[n - m]
    OBVIOUS
  <2>1. n > 0 /\ n - m \in 1..(n - m) /\ (n - m) + m = n
    BY <1>4
  <2> QED  BY <1>10, <2>1 DEF Dropped, Linked
<1> HIDE DEF r
<1>15. Linked(n - m, r, ex, head', tail', nx2, pv2)
  BY <1>10, <1>13, <1>14 DEF Linked
<1>16. Members(n - m, r) = Members(n, q) \ Due(n, q, ex)
  BY <1>8, <1>13 DEF Rest
<1> QED  BY <1>8, <1>9, <1>12, <1>15, <1>16 DEF Spells

(* The list holds the timers ts, in the order of their expire fields ex.   *)
ListIs(ts, ex) == Spells(ts, ex, head, tail, next, prev)

(* The list then holds ts and is sound. *)
LEMMA ListIsSound ==
  ASSUME NULL \notin Timer, NEW ts, NEW ex, ListIs(ts, ex)
  PROVE  ListSound(ex) /\ Listed = ts
<1>1. PICK n, q : Linked(n, q, ex, head, tail, next, prev) /\ Members(n, q) = ts
  BY DEF ListIs, Spells
<1> QED  BY <1>1, LinkedLemma

SameOrder(ts, old, ex) == \A x, y \in ts : old[x] <= old[y] => ex[x] <= ex[y]

(* Expire fields may change as long as their order does not. *)
LEMMA Reordered ==
  ASSUME NEW ts, NEW old, NEW ex, NEW h, NEW tl, NEW nx, NEW pv,
         Spells(ts, old, h, tl, nx, pv), SameOrder(ts, old, ex)
  PROVE  Spells(ts, ex, h, tl, nx, pv)
<1>1. PICK n, q : Linked(n, q, old, h, tl, nx, pv) /\ Members(n, q) = ts
  BY DEF Spells
<1>2. \A k \in 1..n : q[k] \in ts
  BY <1>1 DEF Members
<1>3. Sorted(n, q, ex)
  BY <1>1, <1>2 DEF Linked, Sorted, SameOrder
<1>4. Linked(n, q, ex, h, tl, nx, pv)
  BY <1>1, <1>3 DEF Linked
<1> QED  BY <1>1, <1>4 DEF Spells

(* The operations, in terms of the timers held. *)
LEMMA AddKeeps ==
  ASSUME NULL \notin Timer, NEW ts, NEW ex, ListIs(ts, ex), ex \in [Timer -> Int],
         NEW t \in Timer \ ts, add_timer(t, ex)
  PROVE  Spells(ts \cup {t}, ex, head', tail', next', prev')
<1>1. PICK n, q : Linked(n, q, ex, head, tail, next, prev) /\ Members(n, q) = ts
  BY DEF ListIs, Spells
<1> QED  BY <1>1, AddList

LEMMA DelKeeps ==
  ASSUME NULL \notin Timer, NEW ts, NEW ex, ListIs(ts, ex), ex \in [Timer -> Int],
         NEW t \in ts, del_timer(t)
  PROVE  Spells(ts \ {t}, ex, head', tail', next', prev')
<1>1. PICK n, q : Linked(n, q, ex, head, tail, next, prev) /\ Members(n, q) = ts
  BY DEF ListIs, Spells
<1> QED  BY <1>1, DelList

LEMMA AdjustKeeps ==
  ASSUME NULL \notin Timer, NEW ts, NEW old, NEW ex, ListIs(ts, old),
         NEW t \in ts, Later(t, old, ex), adjust_timer(t, ex)
  PROVE  Spells(ts, ex, head', tail', next', prev')
<1>1. PICK n, q : Linked(n, q, old, head, tail, next, prev) /\ Members(n, q) = ts
  BY DEF ListIs, Spells
<1> QED  BY <1>1, AdjustList

LEMMA TickKeeps ==
  ASSUME NULL \notin Timer, NEW ts, NEW ex, ListIs(ts, ex), ex \in [Timer -> Int], tick(ex)
  PROVE  /\ Spells({x \in ts : 0 < ex[x]}, ex, head', tail', next', prev')
         /\ Listed \ From(AfterDue(ex)) = {x \in ts : ~ (0 < ex[x])}
<1>1. PICK n, q : Linked(n, q, ex, head, tail, next, prev) /\ Members(n, q) = ts
  BY DEF ListIs, Spells
<1>2. Members(n, q) \ Due(n, q, ex) = {x \in ts : 0 < ex[x]}
  BY <1>1 DEF Due
<1>3. Due(n, q, ex) = {x \in ts : ~ (0 < ex[x])}
  BY <1>1 DEF Due
<1> QED  BY <1>1, <1>2, <1>3, TickList

(* At first it holds none. *)
LEMMA EmptyList == ListInit => ListIs({}, [t \in Timer |-> 0])
<1> SUFFICES ASSUME ListInit PROVE ListIs({}, [t \in Timer |-> 0])
  OBVIOUS
<1> DEFINE q == [k \in 1..0 |-> NULL]
           ex == [t \in Timer |-> 0]
<1>1. 1..0 = {}
  OBVIOUS
<1>2. Members(0, q) = {}
  BY <1>1 DEF Members
<1>3. next \in [Timer -> Timer \cup {NULL}] /\ prev \in [Timer -> Timer \cup {NULL}]
      /\ head = NULL /\ \A x \in Timer : next[x] = NULL
  BY DEF ListInit
<1>4. q \in [1..0 -> Timer]
  BY <1>1
<1>5. Linked(0, q, ex, head, tail, next, prev)
  BY <1>1, <1>2, <1>3, <1>4 DEF Linked, Chain, Back, Sorted, Bare
<1> QED  BY <1>2, <1>5 DEF ListIs, Spells

-----------------------------------------------------------------------------
(* The list among the containers *)

(* The inductive invariant of the list among the containers. *)
Waits == {t \in live : left[t] > 0}
ListInv ==
    /\ left \in [Timer -> Int] /\ live \subseteq Timer
    /\ ListIs(Waits, left)

(* The list starts empty, as there are no timers. *)
LEMMA ListInit0 == Init => ListInv
<1> SUFFICES ASSUME Init PROVE ListInv
  OBVIOUS
<1>1. ListIs({}, [t \in Timer |-> 0])
  BY EmptyList DEF Init
<1>2. Waits = {} /\ left = [t \in Timer |-> 0] /\ live = {}
  BY DEF Init, Waits
<1> QED  BY <1>1, <1>2 DEF ListInv

(* The step Add. *)
LEMMA ListAdd == ASSUME ListInv, NEW t \in Timer, NEW k \in Timeouts, Add(t, k) PROVE ListInv'
<1>1. PICK ex : ex = left'
  OBVIOUS
<1>2. W!Ticks(k) \in Nat /\ W!Ticks(k) > 0
  BY ClientAssumption DEF W!Ticks
<1>3. /\ t \notin live /\ live' = live \cup {t} /\ ex = [left EXCEPT ![t] = W!Ticks(k)]
      /\ add_timer(t, ex)
  BY <1>1 DEF Add
<1>4. left \in [Timer -> Int] /\ live \subseteq Timer /\ ex \in [Timer -> Int]
  BY <1>2, <1>3 DEF ListInv
<1>5. \A x \in Timer \ {t} : ex[x] = left[x]
  BY <1>3, <1>4
<1>6. t \notin Waits
  BY <1>3 DEF Waits
<1>7. SameOrder(Waits, left, ex)
  BY <1>3, <1>4, <1>5 DEF SameOrder, Waits
<1>8. ListIs(Waits, ex)
  BY <1>7, Reordered DEF ListIs, ListInv
<1>9. Spells(Waits \cup {t}, ex, head', tail', next', prev')
  BY <1>3, <1>4, <1>6, <1>8, ClientAssumption, AddKeeps
<1>10. Waits' = Waits \cup {t}
  <2>1. ex[t] > 0
    BY <1>2, <1>3, <1>4
  <2>2. Waits' = {x \in live \cup {t} : ex[x] > 0}
    BY <1>1, <1>3 DEF Waits
  <2> QED  BY <1>3, <1>4, <1>5, <2>1, <2>2 DEF Waits
<1>11. ListIs(Waits, left)'
  BY <1>1, <1>9, <1>10 DEF ListIs
<1> QED  BY <1>1, <1>3, <1>4, <1>11 DEF ListInv

(* The step Del. *)
LEMMA ListDel == ASSUME ListInv, NEW t \in Timer, Del(t) PROVE ListInv'
<1>1. PICK ex : ex = left
  OBVIOUS
<1>2. /\ ListIs(Waits, ex) /\ ex \in [Timer -> Int] /\ live \subseteq Timer
      /\ t \in live /\ t \in Listed /\ live' = live \ {t} /\ left' = ex
      /\ del_timer(t)
  BY <1>1 DEF ListInv, Del, Known
<1>3. t \in Waits
  BY <1>2, ClientAssumption, ListIsSound
<1>4. Spells(Waits \ {t}, ex, head', tail', next', prev')
  BY <1>2, <1>3, ClientAssumption, DelKeeps
<1>5. Waits' = Waits \ {t}
  BY <1>1, <1>2 DEF Waits
<1>6. ListIs(Waits, left)'
  BY <1>2, <1>4, <1>5 DEF ListIs
<1> QED  BY <1>2, <1>6 DEF ListInv

(* The step Adjust: t moves back. *)
LEMMA ListAdjust == ASSUME ListInv, NEW t \in Timer, Adjust(t) PROVE ListInv'
<1>1. PICK ex : ex = left'
  OBVIOUS
<1>2. /\ ListIs(Waits, left) /\ left \in [Timer -> Int] /\ live \subseteq Timer
      /\ t \in live /\ t \in Listed /\ live' = live /\ adjust_timer(t, ex)
      /\ ex = [left EXCEPT ![t] = left[t] + N]
  BY <1>1 DEF ListInv, Adjust, Known
<1>3. t \in Waits
  BY <1>2, ClientAssumption, ListIsSound
<1>4. ex \in [Timer -> Int] /\ ex[t] = left[t] + N /\ left[t] \in Int /\ N \in Nat
  BY <1>2, SlotsAssumption
<1>5. Later(t, left, ex)
  BY <1>2, <1>4 DEF Later
<1>6. PICK old : old = left
  OBVIOUS
<1>7. Spells(Waits, ex, head', tail', next', prev')
  <2>1. ListIs(Waits, old) /\ Later(t, old, ex)
    BY <1>2, <1>5, <1>6
  <2> QED  BY <1>2, <1>3, <2>1, ClientAssumption, AdjustKeeps
<1>8. Waits' = Waits
  <2>1. Waits' = {x \in live : ex[x] > 0}
    BY <1>1, <1>2 DEF Waits
  <2>2. \A x \in live : ex[x] > 0 <=> left[x] > 0
    BY <1>2, <1>3, <1>4 DEF Waits
  <2> QED  BY <2>1, <2>2 DEF Waits
<1>9. ListIs(Waits, left)'
  BY <1>1, <1>7, <1>8 DEF ListIs
<1> QED  BY <1>1, <1>2, <1>4, <1>9 DEF ListInv

(* The step Tick: the timers that are due go, the order stays. *)
LEMMA ListTick == ASSUME ListInv, Tick PROVE ListInv'
<1>1. PICK ex : ex = left'
  OBVIOUS
<1>2. /\ ListIs(Waits, left) /\ left \in [Timer -> Int] /\ live \subseteq Timer
      /\ live' = {t \in live : left[t] > 0} /\ tick(ex)
      /\ ex = [t \in Timer |-> IF t \in live \cup H!InHeap THEN left[t] - 1 ELSE 0]
  BY <1>1 DEF ListInv, Tick
<1>3. ex \in [Timer -> Int] /\ \A t \in live : ex[t] = left[t] - 1
  BY <1>2
<1>4. SameOrder(Waits, left, ex)
  BY <1>2, <1>3 DEF SameOrder, Waits
<1>5. ListIs(Waits, ex)
  BY <1>2, <1>4, Reordered DEF ListIs
<1>6. Spells({x \in Waits : 0 < ex[x]}, ex, head', tail', next', prev')
  BY <1>2, <1>3, <1>5, ClientAssumption, TickKeeps
<1>7. Waits' = {x \in Waits : 0 < ex[x]}
  <2>1. Waits' = {x \in Waits : ex[x] > 0}
    BY <1>1, <1>2 DEF Waits
  <2>2. \A x \in Waits : ex[x] > 0 <=> 0 < ex[x]
    BY <1>2, <1>3 DEF Waits
  <2> QED  BY <2>1, <2>2
<1>8. ListIs(Waits, left)'
  BY <1>1, <1>6, <1>7 DEF ListIs
<1> QED  BY <1>1, <1>2, <1>3, <1>8 DEF ListInv

(* The sorted list of 11-2 holds, after every operation, exactly the       *)
(* timers that have not expired, in ascending order and well linked, for   *)
(* any number of timers.                                                   *)
THEOREM ListIsExact == Spec => []ListExact
<1>1. ListInv /\ UNCHANGED vars => ListInv'
  BY DEF ListInv, vars, listVars, ListIs, Waits
<1>2. ListInv /\ [Next]_vars => ListInv'
  BY <1>1, ListAdd, ListDel, ListAdjust, ListTick DEF Next
<1>3. ListInv => ListExact
  <2> SUFFICES ASSUME ListInv PROVE ListExact
    OBVIOUS
  <2>1. PICK ex : ex = left
    OBVIOUS
  <2>2. ListIs(Waits, ex)
    BY <2>1 DEF ListInv
  <2>3. ListSound(ex) /\ Listed = Waits
    BY <2>2, ClientAssumption, ListIsSound
  <2> QED  BY <2>1, <2>3 DEF ListExact, Waits
<1> QED  BY <1>2, <1>3, ListInit0, PTL DEF Spec

-----------------------------------------------------------------------------
(* The list in the server for silent connections *)

(* The inductive invariant of the timers of the server.                    *)
Matched ==
    /\ \A f \in open : user[f] \in mem /\ owner[user[f]] = f
    /\ \A t \in mem : owner[t] \in open /\ user[owner[t]] = t
ConnTypeOK ==
    /\ open \subseteq Fd /\ mem \subseteq Timer
    /\ expire \in [Timer -> 0..(3 * TIMESLOT)]
    /\ user \in [Fd -> Timer \cup {NULL}] /\ owner \in [Timer -> Fd \cup {NULL}]
ConnInv == ConnTypeOK /\ Matched /\ ListIs(mem, expire)

(* Three time slots, the longest a timer waits. *)
LEMMA Slots3 == 3 * TIMESLOT \in Nat
  BY ServerAssumption

(* Nobody is connected at first. *)
LEMMA ConnStarts == ServerInit => ConnInv
<1> SUFFICES ASSUME ServerInit PROVE ConnInv
  OBVIOUS
<1>1. ListIs({}, [t \in Timer |-> 0])
  BY EmptyList DEF ServerInit
<1> QED  BY <1>1, Slots3 DEF ServerInit, ConnInv, ConnTypeOK, Matched

(* Every other step leaves the timers and the open connections alone.      *)
LEMMA StillMatched == ConnInv /\ UNCHANGED <<timers, open>> => ConnInv'
  BY DEF ConnInv, ConnTypeOK, Matched, ListIs, timers, listVars

(* As long as a descriptor is free, so is a timer. *)
LEMMA TimerFree == ConnTypeOK /\ Matched /\ open # Fd => \E t \in Timer : t \notin mem
<1> SUFFICES ASSUME ConnTypeOK, Matched, open # Fd PROVE mem # Timer
  BY DEF ConnTypeOK
<1>1. IsFiniteSet(Fd) /\ open \subseteq Fd
  BY ServerAssumption DEF ConnTypeOK
<1>2. IsFiniteSet(open) /\ Cardinality(open) < Cardinality(Fd)
  <2>1. /\ IsFiniteSet(open) /\ Cardinality(open) <= Cardinality(Fd)
        /\ Cardinality(open) = Cardinality(Fd) => Fd = open
    BY <1>1, FS_Subset
  <2>2. Cardinality(open) \in Nat /\ Cardinality(Fd) \in Nat
    BY <1>1, <2>1, FS_CardinalityType
  <2> QED  BY <2>1, <2>2
<1> DEFINE b == [f \in open |-> user[f]]
<1>3. ExistsBijection(open, mem)
  <2>1. b \in Bijection(open, mem)
    BY DEF Matched, Bijection, Injection, Surjection, IsInjective
  <2> QED  BY <2>1 DEF ExistsBijection
<1>4. Cardinality(mem) = Cardinality(open)
  BY <1>2, <1>3, FS_Bijection
<1> QED  BY <1>2, <1>4, ServerAssumption DEF ConnTypeOK

(* accept takes the lowest free descriptor. *)
LEMMA FdFree == ConnTypeOK /\ open # Fd => \E f \in Fd \ open : \A g \in Fd \ open : f <= g
<1> SUFFICES ASSUME ConnTypeOK, open # Fd
             PROVE  \E f \in Fd \ open : \A g \in Fd \ open : f <= g
  OBVIOUS
<1> DEFINE S == Fd \ open
<1>1. S \subseteq Nat /\ S # {}
  BY ServerAssumption DEF ConnTypeOK
<1> HIDE DEF S
<1>2. \E m \in S : \A r \in S : m <= r
  BY <1>1, NatMin
<1> QED  BY <1>2 DEF S

(* A connection comes with its timer. *)
LEMMA AcceptMatches == ASSUME ConnInv, AcceptConn PROVE ConnInv'
<1> DEFINE f == CHOOSE f \in Fd \ open : \A g \in Fd \ open : f <= g
           t == CHOOSE t \in Timer : t \notin mem
<1>0. ConnTypeOK /\ Matched /\ ListIs(mem, expire)
  BY DEF ConnInv
<1>1. open # Fd /\ f \in Fd \ open /\ t \in Timer \ mem
  <2>1. open # Fd
    BY DEF AcceptConn
  <2>2. f \in Fd \ open
    BY <1>0, <2>1, FdFree
  <2>3. t \in Timer \ mem
    BY <1>0, <2>1, TimerFree
  <2> QED  BY <2>1, <2>2, <2>3
<1>2. /\ open' = open \cup {f} /\ mem' = mem \cup {t}
      /\ user' = [user EXCEPT ![f] = t] /\ owner' = [owner EXCEPT ![t] = f]
      /\ expire' = [expire EXCEPT ![t] = 3 * TIMESLOT] /\ add_timer(t, expire')
  BY DEF AcceptConn
<1> HIDE DEF f, t
<1>3. ConnTypeOK'
  BY <1>0, <1>1, <1>2, Slots3 DEF ConnTypeOK
<1>4. Matched'
  BY <1>0, <1>1, <1>2 DEF Matched, ConnTypeOK
<1>5. PICK ex : ex = expire'
  OBVIOUS
<1>6. ex \in [Timer -> Int] /\ add_timer(t, ex) /\ \A x \in Timer \ {t} : ex[x] = expire[x]
  BY <1>0, <1>1, <1>2, <1>5, Slots3 DEF ConnTypeOK
<1>7. SameOrder(mem, expire, ex)
  BY <1>0, <1>1, <1>6 DEF SameOrder, ConnTypeOK
<1>8. ListIs(mem, ex)
  BY <1>0, <1>7, Reordered DEF ListIs
<1>9. Spells(mem \cup {t}, ex, head', tail', next', prev')
  BY <1>1, <1>6, <1>8, ServerAssumption, AddKeeps
<1>10. ListIs(mem, expire)'
  BY <1>2, <1>5, <1>9 DEF ListIs
<1> QED  BY <1>3, <1>4, <1>10 DEF ConnInv

(* What a client sends moves its timer to the back. *)
LEMMA DataMatches == ASSUME ConnInv, NEW f \in Fd, ReadData(f) PROVE ConnInv'
<1>0. ConnTypeOK /\ Matched /\ ListIs(mem, expire)
  BY DEF ConnInv
<1> DEFINE t == user[f]
<1>1. t \in mem /\ t \in Timer
  BY <1>0 DEF ReadData, Matched, ConnTypeOK
<1>2. /\ UNCHANGED <<mem, owner, user, open>>
      /\ expire' = [expire EXCEPT ![t] = 3 * TIMESLOT] /\ adjust_timer(t, expire')
  BY DEF ReadData
<1> HIDE DEF t
<1>3. ConnTypeOK' /\ Matched'
  BY <1>0, <1>1, <1>2, Slots3 DEF ConnTypeOK, Matched
<1>4. PICK ex, old : ex = expire' /\ old = expire
  OBVIOUS
<1>5. Later(t, old, ex)
  BY <1>0, <1>1, <1>2, <1>4, Slots3 DEF ConnTypeOK, Later
<1>6. ListIs(mem, old) /\ adjust_timer(t, ex)
  BY <1>0, <1>2, <1>4
<1>7. Spells(mem, ex, head', tail', next', prev')
  BY <1>1, <1>5, <1>6, ServerAssumption, AdjustKeeps
<1>8. ListIs(mem, expire)'
  BY <1>2, <1>4, <1>7 DEF ListIs
<1> QED  BY <1>3, <1>8 DEF ConnInv

(* Connections are closed together with their timers. *)
LEMMA ForgetMatches ==
  ASSUME ConnTypeOK, Matched, NEW ts, ts \subseteq mem, NEW fs, fs = {owner[t] : t \in ts},
         CloseConns(fs), Forget(ts), expire' \in [Timer -> 0..(3 * TIMESLOT)]
  PROVE  ConnTypeOK' /\ Matched'
<1>1. /\ open' = open \ fs /\ mem' = mem \ ts
      /\ owner' = [t \in Timer |-> IF t \in ts THEN NULL ELSE owner[t]]
      /\ user' = [f \in Fd |-> IF user[f] \in ts THEN NULL ELSE user[f]]
  BY DEF CloseConns, Forget
<1>2. ConnTypeOK'
  BY <1>1 DEF ConnTypeOK
<1>3. ASSUME NEW f \in open' PROVE user'[f] \in mem' /\ owner'[user'[f]] = f
  <2>1. f \in open /\ f \in Fd /\ user[f] \in mem /\ owner[user[f]] = f /\ user[f] \in Timer
    BY <1>1, <1>3 DEF ConnTypeOK, Matched
  <2>2. user[f] \notin ts
    BY <1>1, <1>3, <2>1
  <2> QED  BY <1>1, <2>1, <2>2
<1>4. ASSUME NEW t \in mem' PROVE owner'[t] \in open' /\ user'[owner'[t]] = t
  <2>1. t \in mem /\ t \notin ts /\ t \in Timer /\ owner[t] \in open /\ owner[t] \in Fd
        /\ user[owner[t]] = t
    BY <1>1, <1>4 DEF ConnTypeOK, Matched
  <2>2. owner[t] \notin fs
    BY <2>1 DEF Matched
  <2> QED  BY <1>1, <2>1, <2>2
<1> QED  BY <1>2, <1>3, <1>4 DEF Matched

(* The end of a connection ends its timer. *)
LEMMA EofMatches == ASSUME ConnInv, NEW f \in Fd, ReadEof(f) PROVE ConnInv'
<1>0. ConnTypeOK /\ Matched /\ ListIs(mem, expire)
  BY DEF ConnInv
<1> DEFINE t == user[f]
<1>1. t \in mem /\ t \in Timer /\ {f} = {owner[x] : x \in {t}}
  BY <1>0 DEF ReadEof, Matched, ConnTypeOK
<1>2. /\ CloseConns({f}) /\ del_timer(t) /\ Forget({t})
      /\ expire' = [expire EXCEPT ![t] = 0]
  BY DEF ReadEof
<1> HIDE DEF t
<1>3. expire' \in [Timer -> 0..(3 * TIMESLOT)]
  <2>1. 0 \in 0..(3 * TIMESLOT)
    BY Slots3
  <2> QED  BY <1>0, <1>2, <2>1 DEF ConnTypeOK
<1>4. ConnTypeOK' /\ Matched'
  <2>1. {t} \subseteq mem
    BY <1>1
  <2> QED  BY <1>0, <1>1, <1>2, <1>3, <2>1, ForgetMatches
<1>5. PICK ex, old : ex = expire' /\ old = expire
  OBVIOUS
<1>6. ListIs(mem, old) /\ old \in [Timer -> Int]
  BY <1>0, <1>5 DEF ConnTypeOK
<1>7. Spells(mem \ {t}, old, head', tail', next', prev')
  BY <1>1, <1>2, <1>6, ServerAssumption, DelKeeps
<1>8. SameOrder(mem \ {t}, old, ex)
  BY <1>0, <1>2, <1>5 DEF SameOrder, ConnTypeOK
<1>9. Spells(mem \ {t}, ex, head', tail', next', prev')
  BY <1>7, <1>8, Reordered
<1>10. ListIs(mem, expire)'
  BY <1>2, <1>5, <1>9 DEF ListIs, Forget
<1> QED  BY <1>4, <1>10 DEF ConnInv

(* timer_handler closes exactly the connections whose timers it unlinks. *)
LEMMA BatchMatches == ASSUME ConnInv, BatchEnd PROVE ConnInv'
<1>0. ConnTypeOK /\ Matched /\ ListIs(mem, expire)
  BY DEF ConnInv
<1>1. CASE ~ timeout
  <2>1. UNCHANGED <<listVars, mem, owner, user, conns>> /\ expire' = expire
    BY <1>1 DEF BatchEnd
  <2>2. UNCHANGED <<timers, open>>
    BY <2>1 DEF timers, conns
  <2> QED  BY <2>2, StillMatched
<1>2. CASE timeout
  <2> DEFINE gone == Listed \ From(AfterDue(expire))
  <2>1. /\ tick(expire) /\ CloseConns({owner[t] : t \in gone}) /\ Forget(gone)
        /\ expire' = expire
    BY <1>2 DEF BatchEnd
  <2>2. PICK ex : ex = expire
    OBVIOUS
  <2>3. ListIs(mem, ex) /\ ex \in [Timer -> Int] /\ tick(ex)
    BY <1>0, <2>1, <2>2 DEF ConnTypeOK
  <2>4. /\ Spells({x \in mem : 0 < ex[x]}, ex, head', tail', next', prev')
        /\ Listed \ From(AfterDue(ex)) = {x \in mem : ~ (0 < ex[x])}
    BY <2>3, ServerAssumption, TickKeeps
  <2>5. gone = {x \in mem : ~ (0 < ex[x])}
    BY <2>2, <2>4
  <2> HIDE DEF gone
  <2>6. ConnTypeOK' /\ Matched'
    <3>1. gone \subseteq mem /\ expire' \in [Timer -> 0..(3 * TIMESLOT)]
      BY <1>0, <2>1, <2>5 DEF ConnTypeOK
    <3> QED  BY <1>0, <2>1, <3>1, ForgetMatches
  <2>7. mem' = {x \in mem : 0 < ex[x]}
    BY <2>1, <2>5 DEF Forget
  <2>8. ListIs(mem, expire)'
    BY <2>1, <2>2, <2>4, <2>7 DEF ListIs
  <2> QED  BY <2>6, <2>8 DEF ConnInv
<1> QED  BY <1>1, <1>2

(* Time passes for all timers alike. *)
LEMMA ClockMatches == ASSUME ConnInv, Clock PROVE ConnInv'
<1>0. ConnTypeOK /\ Matched /\ ListIs(mem, expire)
  BY DEF ConnInv
<1>1. /\ UNCHANGED <<head, tail, prev, next, mem, owner, user, open>>
      /\ expire' = [t \in Timer |-> IF expire[t] > 0 THEN expire[t] - 1 ELSE 0]
  BY DEF Clock, listVars, conns
<1>2. expire' \in [Timer -> 0..(3 * TIMESLOT)]
  <2>1. \A t \in Timer : (IF expire[t] > 0 THEN expire[t] - 1 ELSE 0) \in 0..(3 * TIMESLOT)
    BY <1>0, Slots3 DEF ConnTypeOK
  <2> QED  BY <1>1, <2>1
<1>3. ConnTypeOK' /\ Matched'
  BY <1>0, <1>1, <1>2 DEF ConnTypeOK, Matched
<1>4. PICK ex : ex = expire'
  OBVIOUS
<1>5. SameOrder(mem, expire, ex)
  BY <1>0, <1>1, <1>4 DEF SameOrder, ConnTypeOK
<1>6. Spells(mem, ex, head, tail, next, prev)
  BY <1>0, <1>5, Reordered DEF ListIs
<1>7. ListIs(mem, expire)'
  BY <1>1, <1>4, <1>6 DEF ListIs
<1> QED  BY <1>3, <1>7 DEF ConnInv

(* In the server each open connection has one timer in the list, which has *)
(* no other and is in order, whatever the order of events and signals:     *)
(* also for any number of connections.                                     *)
THEOREM TimersMatchConnections == ServerSpec => []TimersMatch
<1>1. ConnInv /\ [ServerNext]_servervars => ConnInv'
  <2> SUFFICES ASSUME ConnInv, [ServerNext]_servervars PROVE ConnInv'
    OBVIOUS
  <2>1. CASE World
    <3>1. Clock \/ UNCHANGED <<timers, open>>
      BY <2>1 DEF World, Connect, Interrupt, ClientSends, ClientEnds, conns
    <3> QED  BY <3>1, ClockMatches, StillMatched
  <2>2. CASE \E f \in Fd : ReadConn(f)
    <3> SUFFICES ASSUME NEW f \in Fd, ReadConn(f) PROVE ConnInv'
      BY <2>2
    <3>1. ReadData(f) \/ ReadEof(f) \/ UNCHANGED <<timers, open>>
      BY DEF ReadConn, SendKills, ReadNothing, ReadClosed, Die, conns
    <3> QED  BY <3>1, DataMatches, EofMatches, StillMatched
  <2>3. CASE Wait \/ AcceptNothing \/ AcceptFails \/ ReadPipe \/ ReadPipeAgain
    <3>1. UNCHANGED <<timers, open>>
      BY <2>3 DEF Wait, AcceptNothing, AcceptFails, ReadPipe, ReadPipeAgain, Die, conns
    <3> QED  BY <3>1, StillMatched
  <2>4. CASE AcceptConn \/ BatchEnd
    BY <2>4, AcceptMatches, BatchMatches
  <2>5. CASE UNCHANGED servervars
    <3>1. UNCHANGED <<timers, open>>
      BY <2>5 DEF servervars, conns
    <3> QED  BY <3>1, StillMatched
  <2> QED  BY <2>1, <2>2, <2>3, <2>4, <2>5 DEF ServerNext, Server
<1>2. ConnInv => TimersMatch
  <2> SUFFICES ASSUME ConnInv PROVE TimersMatch
    OBVIOUS
  <2>1. PICK ex : ex = expire
    OBVIOUS
  <2>2. ListIs(mem, ex)
    BY <2>1 DEF ConnInv
  <2>3. ListSound(ex) /\ Listed = mem
    BY <2>2, ServerAssumption, ListIsSound
  <2> QED  BY <2>1, <2>3 DEF TimersMatch, ConnInv, Matched
<1> QED  BY <1>1, <1>2, ConnStarts, PTL DEF ServerSpec

-----------------------------------------------------------------------------
(* The heap *)

(* A walk over the cells D: from a cell of G it goes on to nx, each step   *)
(* with a lower rank.  P is the set of cells it visits from s on.          *)
Path(P, s, G, nx) ==
  /\ s \in P
  /\ \E z \in P : z \notin G /\ \A k \in P : k \notin G => k = z
  /\ \A k \in P \cap G : nx[k] \in P \ {s}
  /\ \A k \in P \ {s} : \E j \in P \cap G : nx[j] = k
  /\ \A j, k \in P \cap G : nx[j] = nx[k] => j = k

(* A walk grows by a cell in front of it. *)
LEMMA PathStep ==
  ASSUME NEW P, NEW s, NEW G, NEW nx, Path(P, nx[s], G, nx), s \notin P, s \in G
  PROVE  Path({s} \cup P, s, G, nx)
<1> DEFINE Q == {s} \cup P
<1>1. \E z \in Q : z \notin G /\ \A k \in Q : k \notin G => k = z
  BY DEF Path
<1>2. \A k \in Q \cap G : nx[k] \in Q \ {s}
  BY DEF Path
<1>3. \A k \in Q \ {s} : \E j \in Q \cap G : nx[j] = k
  BY DEF Path
<1>4. \A j, k \in Q \cap G : nx[j] = nx[k] => j = k
  BY DEF Path
<1>5. s \in Q
  OBVIOUS
<1> HIDE DEF Q
<1>6. Path(Q, s, G, nx)
  BY <1>1, <1>2, <1>3, <1>4, <1>5 DEF Path
<1> QED  BY <1>6 DEF Q

IsWay(f, D, G, nx) == f = [h \in D |-> {h} \cup (IF h \in G THEN f[nx[h]] ELSE {})]
Falls(D, G, nx, rank) ==
  /\ G \subseteq D /\ rank \in [D -> Nat]
  /\ \A h \in G : nx[h] \in D /\ rank[nx[h]] < rank[h]

(* The cells visited are those of every set that is closed under going on. *)
LEMMA WayExists ==
  ASSUME NEW D, NEW G, NEW nx, G \subseteq D, \A h \in G : nx[h] \in D
  PROVE  \E f : IsWay(f, D, G, nx)
<1> DEFINE Closed(S, h) == S \subseteq D /\ h \in S /\ \A j \in S \cap G : nx[j] \in S
           R(h) == {k \in D : \A S \in SUBSET D : Closed(S, h) => k \in S}
           f == [h \in D |-> R(h)]
<1>1. ASSUME NEW h \in D PROVE Closed(R(h), h)
  OBVIOUS
<1>2. ASSUME NEW h \in G PROVE R(h) = {h} \cup R(nx[h])
  <2>1. h \in D /\ nx[h] \in D
    OBVIOUS
  <2>2. Closed(R(h), h) /\ Closed(R(nx[h]), nx[h])
    BY <1>1, <2>1
  <2>3. Closed(R(h), nx[h])
    BY <2>2
  <2>4. R(nx[h]) \subseteq R(h)
    <3>1. R(h) \in SUBSET D
      OBVIOUS
    <3> QED  BY <2>3, <3>1
  <2>5. Closed({h} \cup R(nx[h]), h)
    BY <2>1, <2>2
  <2>6. R(h) \subseteq {h} \cup R(nx[h])
    <3>1. {h} \cup R(nx[h]) \in SUBSET D
      BY <2>1
    <3> QED  BY <2>5, <3>1
  <2> QED  BY <2>2, <2>4, <2>6
<1>3. ASSUME NEW h \in D \ G PROVE R(h) = {h}
  <2>1. Closed({h}, h)
    OBVIOUS
  <2> QED  BY <2>1
<1>4. \A h \in D : f[h] = {h} \cup (IF h \in G THEN f[nx[h]] ELSE {})
  <2> HIDE DEF R
  <2> QED  BY <1>2, <1>3
<1>5. f = [h \in D |-> f[h]]
  OBVIOUS
<1> HIDE DEF f
<1> QED  BY <1>4, <1>5 DEF IsWay

(* Every cell starts a path. *)
LEMMA WayLemma ==
  ASSUME NEW D, NEW G, NEW nx, NEW rank, Falls(D, G, nx, rank), NEW f, IsWay(f, D, G, nx),
         NEW s \in D
  PROVE  f[s] \subseteq D /\ Path(f[s], s, G, nx)
<1> DEFINE Good(h) == /\ f[h] \subseteq D /\ Path(f[h], h, G, nx)
                      /\ \A k \in f[h] : rank[k] <= rank[h]
           Bad == {rank[h] : h \in {h \in D : ~ Good(h)}}
<1>1. SUFFICES ASSUME ~ Good(s) PROVE FALSE
  OBVIOUS
<1>2. PICK m \in Bad : \A r \in Bad : m <= r
  <2>1. Bad \subseteq Nat /\ Bad # {}
    BY <1>1 DEF Falls
  <2> HIDE DEF Bad
  <2> QED  BY <2>1, NatMin
<1>3. PICK h \in D : rank[h] = m /\ ~ Good(h)
  BY <1>2
<1>4. f[h] = {h} \cup (IF h \in G THEN f[nx[h]] ELSE {}) /\ rank[h] \in Nat
  BY DEF IsWay, Falls
<1>5. CASE h \notin G
  <2>1. f[h] = {h}
    BY <1>4, <1>5
  <2>2. Path({h}, h, G, nx)
    BY <1>5 DEF Path
  <2> QED  BY <1>3, <1>4, <2>1, <2>2
<1>6. CASE h \in G
  <2>1. nx[h] \in D /\ rank[nx[h]] < rank[h] /\ rank[nx[h]] \in Nat
    BY <1>6 DEF Falls
  <2>2. Good(nx[h])
    <3>1. ~ (m <= rank[nx[h]])
      BY <1>3, <1>4, <2>1
    <3>2. rank[nx[h]] \notin Bad
      BY <1>2, <3>1
    <3> HIDE DEF Good
    <3> QED  BY <2>1, <3>2
  <2>3. \A k \in f[nx[h]] : rank[k] \in Nat /\ rank[k] <= rank[nx[h]]
    BY <2>2 DEF Falls
  <2>4. h \notin f[nx[h]]
    BY <1>4, <2>1, <2>3
  <2>5. Path({h} \cup f[nx[h]], h, G, nx)
    BY <1>6, <2>2, <2>4, PathStep
  <2>6. f[h] = {h} \cup f[nx[h]]
    BY <1>4, <1>6
  <2>7. \A k \in f[h] : rank[k] <= rank[h]
    BY <1>4, <2>1, <2>3, <2>6
  <2> QED  BY <1>3, <2>2, <2>5, <2>6, <2>7
<1> QED  BY <1>5, <1>6

(* What was in the first cell of a path moves to its last, and what was in *)
(* each other cell of it one cell back: nothing is lost or doubled.        *)
Shifted(c, b, D, P, s, G, nx) ==
  \A k \in D : b[k] = IF k \notin P THEN c[k] ELSE IF k \in G THEN c[nx[k]] ELSE c[s]

Values(c, D) == {c[k] : k \in D}
Once(c, D) == \A j, k \in D : c[j] = c[k] => j = k

LEMMA ShiftLemma ==
  ASSUME NEW c, NEW b, NEW D, NEW P, NEW s, NEW G, NEW nx,
         Path(P, s, G, nx), P \subseteq D, Shifted(c, b, D, P, s, G, nx)
  PROVE  Values(b, D) = Values(c, D) /\ (Once(c, D) => Once(b, D))
<1>0. PICK z \in P : z \notin G /\ \A k \in P : k \notin G => k = z
  BY DEF Path
<1>1. ASSUME NEW k \in D PROVE b[k] \in {c[j] : j \in D}
  <2>1. CASE k \notin P
    BY <2>1 DEF Shifted
  <2>2. CASE k \in P /\ k \in G
    BY <2>2 DEF Shifted, Path
  <2>3. CASE k \in P /\ k \notin G
    BY <2>3 DEF Shifted, Path
  <2> QED  BY <2>1, <2>2, <2>3
<1>2. ASSUME NEW k \in D PROVE c[k] \in {b[j] : j \in D}
  <2>1. CASE k \notin P
    BY <2>1 DEF Shifted
  <2>2. CASE k = s
    <3>1. b[z] = c[k]
      BY <1>0, <2>2 DEF Shifted
    <3> QED  BY <3>1
  <2>3. CASE k \in P /\ k # s
    <3>1. PICK j \in P \cap G : nx[j] = k
      BY <2>3 DEF Path
    <3>2. b[j] = c[k]
      BY <3>1 DEF Shifted
    <3> QED  BY <3>1, <3>2
  <2> QED  BY <2>1, <2>2, <2>3
<1>3. ASSUME \A j, k \in D : c[j] = c[k] => j = k, NEW j \in D, NEW k \in D, b[j] = b[k]
      PROVE  j = k
  <2> DEFINE from(x) == IF x \notin P THEN x ELSE IF x \in G THEN nx[x] ELSE s
  <2>1. \A x \in D : b[x] = c[from(x)] /\ from(x) \in D
    BY DEF Shifted, Path
  <2>2. from(j) = from(k)
    <3> HIDE DEF from
    <3> QED  BY <1>3, <2>1
  <2>3. CASE j \notin P \/ k \notin P
    BY <2>2, <2>3 DEF Path
  <2>4. CASE j \in P /\ k \in P
    BY <1>0, <2>2, <2>4 DEF Path
  <2> QED  BY <2>3, <2>4
<1> QED  BY <1>1, <1>2, <1>3 DEF Values, Once

(* The timers in an array, and that none is in it twice. *)
Cells(a) == {a[k] : k \in 1..Len(a)}
Distinct(a) == \A j, k \in 1..Len(a) : a[j] = a[k] => j = k
Array(a, ts) == a \in Seq(Timer) /\ Distinct(a) /\ Cells(a) = ts

(* add_timer of the heap adds the timer and loses none. *)
LEMMA UpLemma ==
  ASSUME NEW a, NEW ts, Array(a, ts), NEW t \in Timer \ ts, NEW ex
  PROVE  Array(H!Up(a, t, ex), ts \cup {t})
<1> DEFINE n == Len(a)
           D == 1..(n + 1)
           climbs(h) == h > 1 /\ ex[t] < ex[a[h \div 2]]
           way[h \in D] == {h} \cup (IF climbs(h) THEN way[h \div 2] ELSE {})
           G == {h \in D : climbs(h)}
           nx == [h \in D |-> h \div 2]
           rank == [h \in D |-> h]
           c == [k \in D |-> IF k = n + 1 THEN t ELSE a[k]]
           P == way[n + 1]
           b == [k \in D |-> IF k \notin P THEN a[k] ELSE IF climbs(k) THEN a[k \div 2] ELSE t]
<1>1. n \in Nat /\ a \in [1..n -> Timer] /\ Distinct(a) /\ Cells(a) = ts
  BY DEF Array
<1>2. H!Up(a, t, ex) = b
  BY DEF H!Up
<1>3. ASSUME NEW h \in G PROVE h \div 2 \in D /\ h \div 2 < h /\ h \div 2 \in 1..n
  <2>1. h \in Nat /\ h > 1 /\ h <= n + 1
    BY <1>1
  <2>2. h \div 2 \in Nat /\ h \div 2 < h /\ h \div 2 >= 1
    BY <2>1
  <2> HIDE DEF G
  <2> QED  BY <1>1, <2>1, <2>2
<1>4. Falls(D, G, nx, rank)
  <2>1. G \subseteq D /\ rank \in [D -> Nat]
    BY <1>1
  <2>2. \A h \in G : nx[h] = h \div 2 /\ rank[h] = h /\ (h \div 2 \in D => rank[h \div 2] = h \div 2)
    BY <2>1
  <2> HIDE DEF G, D, nx, rank
  <2> QED  BY <1>3, <2>1, <2>2 DEF Falls
<1>5. IsWay(way, D, G, nx)
  <2>1. PICK f : IsWay(f, D, G, nx)
    <3> HIDE DEF G, D, nx, rank
    <3> QED  BY <1>4, WayExists DEF Falls
  <2>2. \E g : g = [h \in D |-> {h} \cup (IF climbs(h) THEN g[h \div 2] ELSE {})]
    <3>1. f = [h \in D |-> {h} \cup (IF climbs(h) THEN f[h \div 2] ELSE {})]
      <4>1. f = [h \in D |-> {h} \cup (IF h \in G THEN f[nx[h]] ELSE {})]
        BY <2>1 DEF IsWay
      <4>2. \A h \in D : (h \in G <=> climbs(h)) /\ nx[h] = h \div 2
        OBVIOUS
      <4> HIDE DEF G, D, nx, climbs
      <4> QED  BY <4>1, <4>2
    <3> QED  BY <3>1
  <2>3. way = [h \in D |-> {h} \cup (IF climbs(h) THEN way[h \div 2] ELSE {})]
    <3> HIDE DEF D, climbs
    <3> QED  BY <2>2
  <2>4. \A h \in D : (h \in G <=> climbs(h)) /\ nx[h] = h \div 2
    OBVIOUS
  <2> HIDE DEF G, D, nx, climbs, way
  <2> QED  BY <2>3, <2>4 DEF IsWay
<1>6. n + 1 \in D
  BY <1>1
<1> HIDE DEF way
<1>7. P \subseteq D /\ Path(P, n + 1, G, nx)
  <2> HIDE DEF D, G, nx, rank
  <2> QED  BY <1>4, <1>5, <1>6, WayLemma
<1>8. n + 1 \in P
  <2> HIDE DEF P, G, nx
  <2> QED  BY <1>7 DEF Path
<1> HIDE DEF P
<1>9. Shifted(c, b, D, P, n + 1, G, nx)
  <2>1. ASSUME NEW k \in D
        PROVE  b[k] = IF k \notin P THEN c[k] ELSE IF k \in G THEN c[nx[k]] ELSE c[n + 1]
    <3>1. CASE k \notin P
      BY <1>1, <1>8, <3>1
    <3>2. CASE k \in P /\ k \in G
      <4>1. b[k] = a[k \div 2] /\ nx[k] = k \div 2
        BY <3>2
      <4>2. k \div 2 \in D /\ k \div 2 # n + 1
        BY <1>1, <1>3, <3>2
      <4> QED  BY <3>2, <4>1, <4>2
    <3>3. CASE k \in P /\ k \notin G
      BY <1>6, <3>3
    <3> QED  BY <3>1, <3>2, <3>3
  <2> HIDE DEF b, c, D, G, nx
  <2> QED  BY <2>1 DEF Shifted
<1>10. Values(b, D) = Values(c, D) /\ (Once(c, D) => Once(b, D))
  <2> HIDE DEF b, c, D, G, nx
  <2> QED  BY <1>7, <1>9, ShiftLemma
<1>11. \A k \in 1..n : a[k] # t /\ k \in D /\ k # n + 1
  BY <1>1 DEF Cells
<1>12. \A k \in D : k \in 1..n \/ k = n + 1
  BY <1>1
<1>13. Values(c, D) = ts \cup {t}
  <2>1. /\ \A k \in 1..n : c[k] = a[k] /\ k \in D
        /\ c[n + 1] = t
    BY <1>6, <1>11
  <2> HIDE DEF c, D
  <2> QED  BY <1>1, <1>6, <1>12, <2>1 DEF Cells, Values
<1>14. Once(c, D)
  BY <1>1, <1>11, <1>12 DEF Distinct, Once
<1>15. \A k \in D : b[k] \in Timer
  <2>1. Values(b, D) \subseteq Timer
    <3>1. ts \subseteq Timer
      BY <1>1 DEF Cells
    <3> HIDE DEF b, c, D
    <3> QED  BY <1>10, <1>13, <3>1
  <2> HIDE DEF b
  <2> QED  BY <2>1 DEF Values
<1>16. b \in [1..(n + 1) -> Timer]
  BY <1>15
<1>17. b \in Seq(Timer) /\ Len(b) = n + 1
  <2>1. n + 1 \in Nat
    BY <1>1
  <2> HIDE DEF b, n
  <2> QED  BY <1>16, <2>1
<1> HIDE DEF b, c, n
<1>18. Cells(b) = Values(b, D)
  BY <1>17 DEF Cells, Values
<1>19. Distinct(b)
  BY <1>10, <1>14, <1>17 DEF Distinct, Once
<1> QED  BY <1>2, <1>10, <1>13, <1>17, <1>18, <1>19 DEF Array

(* percolate_down only moves timers around. *)
LEMMA DownLemma ==
  ASSUME NEW a, NEW ts, Array(a, ts), NEW hole \in Nat \ {0}, NEW ex
  PROVE  Array(H!Down(a, hole, ex), ts)
<1> DEFINE n == Len(a)
           D == 1..n
           child(h) == IF 2 * h < Len(a) /\ ex[a[2 * h]] > ex[a[2 * h + 1]]
                       THEN 2 * h + 1 ELSE 2 * h
           sinks(h) == 2 * h <= Len(a) /\ a[h] > a[child(h)]
           way[h \in 1..Len(a)] == {h} \cup (IF sinks(h) THEN way[child(h)] ELSE {})
           G == {h \in D : sinks(h)}
           nx == [h \in D |-> child(h)]
           rank == [h \in D |-> n - h]
           P == way[hole]
           b == [k \in 1..Len(a) |-> IF k \notin P THEN a[k]
                                     ELSE IF sinks(k) THEN a[child(k)] ELSE a[hole]]
<1>1. n \in Nat /\ a \in [1..n -> Timer] /\ Distinct(a) /\ Cells(a) = ts
  BY DEF Array
<1>2. CASE hole > n
  BY <1>2 DEF H!Down
<1>3. CASE ~ (hole > n)
  <2>1. H!Down(a, hole, ex) = b
    BY <1>3 DEF H!Down
  <2>2. hole \in D
    BY <1>1, <1>3
  <2>3. ASSUME NEW h \in G PROVE child(h) \in D /\ n - child(h) < n - h
    <3>1. h \in Nat /\ h >= 1 /\ 2 * h <= n
      BY <1>1
    <3>2. child(h) = 2 * h \/ (2 * h < n /\ child(h) = 2 * h + 1)
      BY <1>1
    <3> HIDE DEF child, G
    <3> QED  BY <1>1, <3>1, <3>2
  <2>4. Falls(D, G, nx, rank)
    <3>1. G \subseteq D /\ rank \in [D -> Nat]
      <4>1. \A h \in D : n - h \in Nat
        BY <1>1
      <4> QED  BY <4>1
    <3>2. \A h \in G : nx[h] = child(h) /\ rank[h] = n - h
      BY <3>1
    <3>3. \A k \in D : rank[k] = n - k
      OBVIOUS
    <3> HIDE DEF G, D, nx, rank, child
    <3> QED  BY <2>3, <3>1, <3>2, <3>3 DEF Falls
  <2>5. \A h \in D : (h \in G <=> sinks(h)) /\ nx[h] = child(h)
    OBVIOUS
  <2>6. IsWay(way, D, G, nx)
    <3>1. PICK f : IsWay(f, D, G, nx)
      <4> HIDE DEF G, D, nx, rank
      <4> QED  BY <2>4, WayExists DEF Falls
    <3>2. \E g : g = [h \in 1..Len(a) |-> {h} \cup (IF sinks(h) THEN g[child(h)] ELSE {})]
      <4>1. f = [h \in D |-> {h} \cup (IF h \in G THEN f[nx[h]] ELSE {})]
        BY <3>1 DEF IsWay
      <4>2. f = [h \in D |-> {h} \cup (IF sinks(h) THEN f[child(h)] ELSE {})]
        <5> HIDE DEF G, D, nx, sinks, child
        <5> QED  BY <2>5, <4>1
      <4> QED  BY <4>2
    <3>3. way = [h \in 1..Len(a) |-> {h} \cup (IF sinks(h) THEN way[child(h)] ELSE {})]
      <4> HIDE DEF sinks, child
      <4> QED  BY <3>2
    <3>4. D = 1..Len(a)
      OBVIOUS
    <3> HIDE DEF G, D, nx, sinks, child, way
    <3> QED  BY <2>5, <3>3, <3>4 DEF IsWay
  <2> HIDE DEF way
  <2>7. P \subseteq D /\ Path(P, hole, G, nx)
    <3> HIDE DEF D, G, nx, rank
    <3> QED  BY <2>2, <2>4, <2>6, WayLemma
  <2> HIDE DEF P
  <2>8. Shifted(a, b, D, P, hole, G, nx)
    <3>1. \A k \in D : b[k] = IF k \notin P THEN a[k] ELSE IF sinks(k) THEN a[child(k)] ELSE a[hole]
      <4> HIDE DEF sinks, child
      <4> QED  OBVIOUS
    <3> HIDE DEF b, D, G, nx, sinks, child
    <3> QED  BY <2>5, <3>1 DEF Shifted
  <2>9. Values(b, D) = Values(a, D) /\ (Once(a, D) => Once(b, D))
    <3> HIDE DEF b, D, G, nx
    <3> QED  BY <2>7, <2>8, ShiftLemma
  <2>10. Values(a, D) = ts /\ Once(a, D)
    BY <1>1 DEF Distinct, Once, Cells, Values
  <2>11. \A k \in D : b[k] \in Timer
    <3>1. ts \subseteq Timer
      BY <1>1 DEF Cells
    <3> HIDE DEF b, D
    <3> QED  BY <2>9, <2>10, <3>1 DEF Values
  <2>12. b \in Seq(Timer) /\ Len(b) = n
    <3>1. b \in [1..n -> Timer]
      <4>1. b = [k \in 1..n |-> b[k]]
        <5> HIDE DEF sinks, child
        <5> QED  OBVIOUS
      <4> HIDE DEF b
      <4> QED  BY <2>11, <4>1
    <3> HIDE DEF b, n
    <3> QED  BY <1>1, <3>1
  <2> HIDE DEF b, n
  <2>13. Cells(b) = ts
    BY <2>9, <2>10, <2>12 DEF Cells, Values
  <2>14. Distinct(b)
    BY <2>9, <2>10, <2>12 DEF Distinct, Once
  <2> QED  BY <2>1, <2>12, <2>13, <2>14 DEF Array
<1> QED  BY <1>2, <1>3

(* The timer in cell k, and no other, leaves the array. *)
LEMMA RemoveCell ==
  ASSUME NEW a, NEW ts, Array(a, ts), NEW k \in 1..Len(a), NEW ex
  PROVE  Array(H!Remove(a, k, ex), ts \ {a[k]})
<1> DEFINE n == Len(a)
           b == [j \in 1..(n - 1) |-> IF j = k THEN a[n] ELSE a[j]]
<1>1. n \in Nat /\ a \in [1..n -> Timer] /\ Distinct(a) /\ Cells(a) = ts
  BY DEF Array
<1>2. H!Remove(a, k, ex) = H!Down(b, k, ex)
  BY DEF H!Remove
<1>3. n \in 1..n /\ n - 1 \in Nat /\ (\A j \in 1..(n - 1) : j \in 1..n /\ j # n)
      /\ \A j \in 1..n : j \in 1..(n - 1) \/ j = n
  <2>1. k \in 1..n
    OBVIOUS
  <2> HIDE DEF b, n
  <2> QED  BY <1>1, <2>1
<1>4. \A j \in 1..(n - 1) : b[j] = IF j = k THEN a[n] ELSE a[j]
  OBVIOUS
<1>5. b \in Seq(Timer) /\ Len(b) = n - 1
  <2>1. b \in [1..(n - 1) -> Timer]
    BY <1>1, <1>3
  <2> HIDE DEF b, n
  <2> QED  BY <1>3, <2>1
<1> HIDE DEF b
<1>6. Distinct(b)
  <2>1. ASSUME NEW i_1 \in 1..(n - 1), NEW i_2 \in 1..(n - 1), b[i_1] = b[i_2] PROVE i_1 = i_2
    BY <1>1, <1>3, <1>4, <2>1 DEF Distinct
  <2> QED  BY <1>5, <2>1 DEF Distinct
<1>7. Cells(b) = ts \ {a[k]}
  <2>1. ASSUME NEW j \in 1..(n - 1) PROVE b[j] \in ts \ {a[k]}
    <3>1. b[j] = a[IF j = k THEN n ELSE j] /\ (IF j = k THEN n ELSE j) \in 1..n
          /\ (IF j = k THEN n ELSE j) # k
      BY <1>3, <1>4
    <3> QED  BY <1>1, <3>1 DEF Cells, Distinct
  <2>2. ASSUME NEW j \in 1..n, a[j] # a[k] PROVE a[j] \in Cells(b)
    <3>1. CASE j # n
      <4>1. j \in 1..(n - 1) /\ b[j] = a[j]
        BY <1>3, <1>4, <2>2, <3>1
      <4> QED  BY <1>5, <4>1 DEF Cells
    <3>2. CASE j = n
      <4>1. k \in 1..(n - 1) /\ b[k] = a[j]
        BY <1>3, <1>4, <2>2, <3>2
      <4> QED  BY <1>5, <4>1 DEF Cells
    <3> QED  BY <3>1, <3>2
  <2>3. Cells(b) \subseteq ts \ {a[k]}
    BY <1>5, <2>1 DEF Cells
  <2> QED  BY <1>1, <2>2, <2>3 DEF Cells
<1>8. Array(b, ts \ {a[k]}) /\ k \in Nat \ {0}
  BY <1>1, <1>5, <1>6, <1>7 DEF Array
<1> QED  BY <1>2, <1>8, DownLemma

(* tick pops the top again and again; each time it is popped it is due.    *)
Popped(a, ex) == IF a = <<>> \/ ex[a[1]] > 0 THEN a ELSE H!Remove(a, 1, ex)
Pops(f, m, a, ex) == f = [n \in 0..m |-> IF n = 0 THEN a ELSE Popped(f[n - 1], ex)]

(* The loop of tick is well defined. *)
LEMMA PopsExist ==
  ASSUME NEW m \in Nat, NEW a, NEW ex
  PROVE  \E f : Pops(f, m, a, ex)
<1> DEFINE Bad == {r \in Nat : ~ \E f : Pops(f, r, a, ex)}
<1> SUFFICES ASSUME m \in Bad PROVE FALSE
  OBVIOUS
<1>1. PICK r \in Bad : \A p \in Bad : r <= p
  <2>1. Bad \subseteq Nat /\ Bad # {}
    OBVIOUS
  <2> HIDE DEF Bad
  <2> QED  BY <2>1, NatMin
<1>2. r \in Nat /\ ~ \E f : Pops(f, r, a, ex)
  OBVIOUS
<1>3. CASE r = 0
  <2> DEFINE f == [n \in 0..0 |-> a]
  <2>1. f = [n \in 0..0 |-> IF n = 0 THEN a ELSE Popped(f[n - 1], ex)]
    <3>1. \A n \in 0..0 : n = 0
      OBVIOUS
    <3>2. \A n \in 0..0 : f[n] = IF n = 0 THEN a ELSE Popped(f[n - 1], ex)
      BY <3>1
    <3>3. f = [n \in 0..0 |-> f[n]]
      OBVIOUS
    <3> HIDE DEF f
    <3> QED  BY <3>2, <3>3
  <2> HIDE DEF f
  <2>2. Pops(f, 0, a, ex)
    BY <2>1 DEF Pops
  <2> QED  BY <1>2, <1>3, <2>2
<1>4. CASE r # 0
  <2>1. r - 1 \in Nat /\ ~ (r <= r - 1)
    BY <1>2, <1>4
  <2>2. PICK g : Pops(g, r - 1, a, ex)
    BY <1>1, <2>1
  <2> DEFINE f == [n \in 0..r |-> IF n = r THEN Popped(g[r - 1], ex) ELSE g[n]]
  <2>3. \A n \in 0..r : /\ n = r \/ n \in 0..(r - 1)
                        /\ n # 0 => n - 1 \in 0..(r - 1) /\ n - 1 \in 0..r /\ n - 1 # r
    BY <1>2
  <2>4. \A n \in 0..(r - 1) : g[n] = IF n = 0 THEN a ELSE Popped(g[n - 1], ex)
    <3>1. g = [n \in 0..(r - 1) |-> IF n = 0 THEN a ELSE Popped(g[n - 1], ex)]
      BY <2>2 DEF Pops
    <3> QED  BY <3>1
  <2>5. \A n \in 0..r : f[n] = IF n = 0 THEN a ELSE Popped(f[n - 1], ex)
    <3> SUFFICES ASSUME NEW n \in 0..r PROVE f[n] = IF n = 0 THEN a ELSE Popped(f[n - 1], ex)
      OBVIOUS
    <3>1. CASE n = r
      <4>1. n # 0 /\ f[n] = Popped(g[r - 1], ex) /\ f[n - 1] = g[r - 1]
        BY <1>4, <2>3, <3>1
      <4> QED  BY <4>1
    <3>2. CASE n # r
      <4>1. f[n] = g[n] /\ n \in 0..(r - 1) /\ (n # 0 => f[n - 1] = g[n - 1])
        BY <2>3, <3>2
      <4> QED  BY <2>4, <4>1
    <3> QED  BY <3>1, <3>2
  <2>6. f = [n \in 0..r |-> f[n]]
    OBVIOUS
  <2> HIDE DEF f
  <2>7. f = [n \in 0..r |-> IF n = 0 THEN a ELSE Popped(f[n - 1], ex)]
    BY <2>5, <2>6
  <2>8. Pops(f, r, a, ex)
    BY <2>7 DEF Pops
  <2> QED  BY <1>2, <2>8
<1> QED  BY <1>3, <1>4

(* The array holds some of ts, and those it no longer holds were due. *)
LeftOver(a, ts, ex) ==
  \E rs \in SUBSET ts : Array(a, rs) /\ \A t \in ts \ rs : ~ (ex[t] > 0)

(* One round of the loop. *)
LEMMA PopLemma ==
  ASSUME NEW a, NEW ts, NEW ex, LeftOver(a, ts, ex)
  PROVE  LeftOver(Popped(a, ex), ts, ex)
<1>1. PICK rs \in SUBSET ts : Array(a, rs) /\ \A t \in ts \ rs : ~ (ex[t] > 0)
  BY DEF LeftOver
<1>2. CASE a = <<>> \/ ex[a[1]] > 0
  BY <1>2 DEF Popped
<1>3. CASE ~ (a = <<>> \/ ex[a[1]] > 0)
  <2>1. 1 \in 1..Len(a)
    <3>1. a \in Seq(Timer) /\ a # <<>>
      BY <1>1, <1>3 DEF Array
    <3> QED  BY <3>1
  <2>2. Array(H!Remove(a, 1, ex), rs \ {a[1]})
    BY <1>1, <2>1, RemoveCell
  <2>3. \A t \in ts \ (rs \ {a[1]}) : ~ (ex[t] > 0)
    BY <1>1, <1>3
  <2>4. rs \ {a[1]} \in SUBSET ts
    OBVIOUS
  <2>5. Popped(a, ex) = H!Remove(a, 1, ex)
    BY <1>3 DEF Popped
  <2> QED  BY <2>2, <2>3, <2>4, <2>5 DEF LeftOver
<1> QED  BY <1>2, <1>3

(* tick takes only timers out that are due. *)
LEMMA HeapTick ==
  ASSUME NEW ts, NEW ex, Array(array, ts), H!tick(ex)
  PROVE  LeftOver(array', ts, ex)
<1> DEFINE after[n \in 0..H!Size] ==
             IF n = 0 THEN array
             ELSE LET a == after[n - 1]
                  IN  IF a = <<>> \/ ex[a[1]] > 0 THEN a ELSE H!Remove(a, 1, ex)
<1>1. array' = after[H!Size]
  BY DEF H!tick
<1>2. H!Size \in Nat
  BY DEF H!Size, Array
<1>3. after = [n \in 0..H!Size |-> IF n = 0 THEN array ELSE Popped(after[n - 1], ex)]
  <2>1. PICK f : Pops(f, H!Size, array, ex)
    BY <1>2, PopsExist
  <2>2. \E g : g = [n \in 0..H!Size |->
                    IF n = 0 THEN array
                    ELSE LET a == g[n - 1]
                         IN  IF a = <<>> \/ ex[a[1]] > 0 THEN a ELSE H!Remove(a, 1, ex)]
    BY <2>1 DEF Pops, Popped
  <2>3. after = [n \in 0..H!Size |->
                    IF n = 0 THEN array
                    ELSE LET a == after[n - 1]
                         IN  IF a = <<>> \/ ex[a[1]] > 0 THEN a ELSE H!Remove(a, 1, ex)]
    BY <2>2
  <2> HIDE DEF after
  <2> QED  BY <2>3 DEF Popped
<1> HIDE DEF after
<1> DEFINE Bad == {n \in 0..H!Size : ~ LeftOver(after[n], ts, ex)}
<1>4. Bad = {}
  <2> SUFFICES ASSUME Bad # {} PROVE FALSE
    OBVIOUS
  <2>1. PICK m \in Bad : \A p \in Bad : m <= p
    <3>1. Bad \subseteq Nat
      OBVIOUS
    <3> HIDE DEF Bad
    <3> QED  BY <3>1, NatMin
  <2>2. m \in 0..H!Size /\ ~ LeftOver(after[m], ts, ex)
    BY <2>1
  <2>3. after[m] = IF m = 0 THEN array ELSE Popped(after[m - 1], ex)
    BY <1>3, <2>2
  <2>4. LeftOver(array, ts, ex)
    <3>1. ts \in SUBSET ts /\ \A t \in ts \ ts : ~ (ex[t] > 0)
      OBVIOUS
    <3> QED  BY <3>1 DEF LeftOver
  <2>5. m # 0 => m - 1 \in 0..H!Size /\ ~ (m <= m - 1)
    BY <1>2, <2>2
  <2>6. m # 0 => LeftOver(after[m - 1], ts, ex)
    BY <2>1, <2>5
  <2> QED  BY <2>2, <2>3, <2>4, <2>6, PopLemma
<1>5. H!Size \in 0..H!Size
  BY <1>2
<1> QED  BY <1>1, <1>4, <1>5

(* The inductive invariant of the heap among the containers. *)
HeapInv ==
    /\ left \in [Timer -> Int] /\ live \subseteq Timer
    /\ \E ts : Array(array, ts)
    /\ \A t \in live : left[t] > 0 => t \in H!InHeap
    /\ \A t \in H!InHeap : t \in live \/ left[t] < 0

(* The timers in the heap. *)
LEMMA HeldLemma == ASSUME NEW ts, Array(array, ts) PROVE H!InHeap = ts /\ ts \subseteq Timer
<1>1. Cells(array) = ts /\ array \in [1..Len(array) -> Timer]
  BY DEF Array
<1> QED  BY <1>1 DEF Cells, H!InHeap, H!Size

(* find_timer finds a timer that is in the heap. *)
LEMMA FoundLemma ==
  ASSUME NEW ts, Array(array, ts), NEW t \in ts
  PROVE  H!find_timer(t) \in 1..Len(array) /\ array[H!find_timer(t)] = t
<1>1. \E k \in 1..H!Size : array[k] = t
  BY DEF Array, Cells, H!Size
<1> QED  BY <1>1 DEF H!find_timer, H!Size

(* The step Add. *)
LEMMA HeapAdd == ASSUME HeapInv, NEW t \in Timer, NEW k \in Timeouts, Add(t, k) PROVE HeapInv'
<1>1. PICK ts : Array(array, ts)
  BY DEF HeapInv
<1>2. H!InHeap = ts /\ ts \subseteq Timer
  BY <1>1, HeldLemma
<1>3. /\ t \notin live /\ t \notin ts /\ left' = [left EXCEPT ![t] = W!Ticks(k)]
      /\ live' = live \cup {t} /\ array' = H!Up(array, t, left')
  BY <1>2 DEF Add, H!add_timer
<1>4. W!Ticks(k) \in Nat
  BY ClientAssumption DEF W!Ticks
<1>5. Array(array', ts \cup {t})
  <2>1. PICK ex : ex = left'
    OBVIOUS
  <2>2. Array(H!Up(array, t, ex), ts \cup {t})
    BY <1>1, <1>3, UpLemma
  <2> QED  BY <1>3, <2>1, <2>2
<1>6. H!InHeap' = ts \cup {t}
  <2>1. Cells(array') = ts \cup {t}
    BY <1>5 DEF Array
  <2> QED  BY <2>1 DEF Cells, H!InHeap, H!Size
<1> QED  BY <1>2, <1>3, <1>4, <1>5, <1>6 DEF HeapInv

(* The step Del. *)
LEMMA HeapDel == ASSUME HeapInv, NEW t \in Timer, Del(t) PROVE HeapInv'
<1>1. PICK ts : Array(array, ts)
  BY DEF HeapInv
<1>2. H!InHeap = ts /\ ts \subseteq Timer
  BY <1>1, HeldLemma
<1>3. /\ t \in live /\ t \in ts /\ left' = left /\ live' = live \ {t}
      /\ array' = H!Remove(array, H!find_timer(t), left)
  BY <1>2 DEF Del, Known, H!del_timer
<1>4. Array(array', ts \ {t})
  BY <1>1, <1>3, FoundLemma, RemoveCell
<1>5. H!InHeap' = ts \ {t}
  <2>1. Cells(array') = ts \ {t}
    BY <1>4 DEF Array
  <2> QED  BY <2>1 DEF Cells, H!InHeap, H!Size
<1> QED  BY <1>2, <1>3, <1>4, <1>5 DEF HeapInv

(* The step Adjust. *)
LEMMA HeapAdjust == ASSUME HeapInv, NEW t \in Timer, Adjust(t) PROVE HeapInv'
<1>1. PICK ts : Array(array, ts)
  BY DEF HeapInv
<1>2. H!InHeap = ts /\ ts \subseteq Timer
  BY <1>1, HeldLemma
<1>3. /\ t \in live /\ t \in ts /\ left' = [left EXCEPT ![t] = left[t] + N] /\ live' = live
      /\ array' = H!Up(H!Remove(array, H!find_timer(t), left'), t, left')
  BY <1>2 DEF Adjust, Known, H!adjust_timer
<1>4. N \in Nat
  BY SlotsAssumption
<1>5. Array(array', ts)
  <2>1. PICK ex : ex = left'
    OBVIOUS
  <2> DEFINE a == H!Remove(array, H!find_timer(t), ex)
  <2>2. Array(a, ts \ {t})
    BY <1>1, <1>3, FoundLemma, RemoveCell
  <2> HIDE DEF a
  <2>3. Array(H!Up(a, t, ex), (ts \ {t}) \cup {t})
    BY <2>2, UpLemma
  <2>4. (ts \ {t}) \cup {t} = ts
    BY <1>3
  <2> QED  BY <1>3, <2>1, <2>3, <2>4 DEF a
<1>6. H!InHeap' = ts
  <2>1. Cells(array') = ts
    BY <1>5 DEF Array
  <2> QED  BY <2>1 DEF Cells, H!InHeap, H!Size
<1> QED  BY <1>2, <1>3, <1>4, <1>5, <1>6 DEF HeapInv

(* The step Tick. *)
LEMMA HeapTicks == ASSUME HeapInv, Tick PROVE HeapInv'
<1>1. PICK ts : Array(array, ts)
  BY DEF HeapInv
<1>2. H!InHeap = ts /\ ts \subseteq Timer
  BY <1>1, HeldLemma
<1>3. PICK ex : ex = left'
  OBVIOUS
<1>4. /\ ex = [t \in Timer |-> IF t \in live \cup ts THEN left[t] - 1 ELSE 0]
      /\ live' = {t \in live : left[t] > 0} /\ H!tick(ex)
  BY <1>2, <1>3 DEF Tick
<1>5. left \in [Timer -> Int] /\ live \subseteq Timer
  BY DEF HeapInv
<1>6. /\ ex \in [Timer -> Int] /\ live' \subseteq Timer
      /\ \A t \in live \cup ts : ex[t] = left[t] - 1 /\ left[t] \in Int
  BY <1>2, <1>4, <1>5
<1>7. LeftOver(array', ts, ex)
  BY <1>1, <1>4, HeapTick
<1>8. PICK rs \in SUBSET ts : Array(array', rs) /\ \A t \in ts \ rs : ~ (ex[t] > 0)
  BY <1>7 DEF LeftOver
<1>9. H!InHeap' = rs
  <2>1. Cells(array') = rs
    BY <1>8 DEF Array
  <2> QED  BY <2>1 DEF Cells, H!InHeap, H!Size
<1>10. ASSUME NEW t \in live', ex[t] > 0 PROVE t \in rs
  <2>1. t \in live /\ left[t] > 0 /\ t \in ts
    BY <1>2, <1>4, <1>10 DEF HeapInv
  <2> QED  BY <1>8, <1>10, <2>1
<1>11. ASSUME NEW t \in rs PROVE t \in live' \/ ex[t] < 0
  <2>1. t \in live \/ left[t] < 0
    BY <1>2 DEF HeapInv
  <2>2. ex[t] = left[t] - 1 /\ left[t] \in Int
    BY <1>6
  <2> QED  BY <1>4, <2>1, <2>2
<1>12. /\ \A t \in live' : left'[t] > 0 => t \in H!InHeap'
       /\ \A t \in H!InHeap' : t \in live' \/ left'[t] < 0
  BY <1>3, <1>9, <1>10, <1>11
<1> QED  BY <1>3, <1>6, <1>8, <1>12 DEF HeapInv

(* The heap of 11-6 holds each timer that has not expired once, and none   *)
(* that fired or was deleted, whatever the order percolate_down leaves it  *)
(* in.                                                                     *)
THEOREM HeapLosesNothing == Spec => []HeapKeeps
<1>1. Init => HeapInv
  <2> SUFFICES ASSUME Init PROVE HeapInv
    OBVIOUS
  <2>1. array = <<>> /\ left = [t \in Timer |-> 0] /\ live = {}
    BY DEF Init, H!HeapInit
  <2>2. Array(array, {}) /\ H!InHeap = {}
    BY <2>1 DEF Array, Distinct, Cells, H!InHeap, H!Size
  <2> QED  BY <2>1, <2>2 DEF HeapInv
<1>2. HeapInv /\ UNCHANGED vars => HeapInv'
  BY DEF HeapInv, vars, H!InHeap, H!Size
<1>3. HeapInv /\ [Next]_vars => HeapInv'
  BY <1>2, HeapAdd, HeapDel, HeapAdjust, HeapTicks DEF Next
<1>4. HeapInv => HeapKeeps
  BY DEF HeapInv, HeapKeeps, Array, Distinct, H!Size
<1> QED  BY <1>1, <1>3, <1>4, PTL DEF Spec
=============================================================================

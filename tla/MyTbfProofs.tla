---------------------------- MODULE MyTbfProofs ----------------------------
(***************************************************************************)
(* What every call of the token bucket library preserves, for any number   *)
(* of buckets and slots, any rate and any burst.  The programs built on    *)
(* the library cite these lemmas, one for each call.                       *)
(***************************************************************************)
EXTENDS MyTbfApi, NetRadio, TLAPS

(* The arithmetic of AddTokens: the level stays between 0 and BURST and *)
(* grows by n at most. *)
LEMMA AddTokensLemma ==
  ASSUME NEW t \in 0 .. BURST, NEW n \in Nat
  PROVE  /\ AddTokens(t, n) \in 0 .. BURST
         /\ AddTokens(t, n) <= t + n
BY TbfAssumption DEF AddTokens

(* One more refill allows CPS more tokens. *)
LEMMA RateStep ==
  ASSUME NEW m \in Nat
  PROVE  /\ CPS * m \in Nat
         /\ CPS * (m + 1) = CPS * m + CPS
BY TbfAssumption, SMT

(* The library starts in its invariant. *)
LEMMA TbfInitInv == TbfInit => TbfInv
<1> SUFFICES ASSUME TbfInit PROVE TbfInv
  OBVIOUS
<1> USE TbfAssumption
<1>0. win \in [b : Bucket, used : Int, ticks : 0 .. MaxWindow]
  <2>1. PICK w \in [b : Bucket, used : {0}, ticks : {0}] : win = w
    BY DEF TbfInit
  <2> QED  BY <2>1
<1>1. TbfTypeOK
  <2>1. job \in [Pos -> Bucket \cup {NULL}] /\ pos \in [Bucket -> Pos]
    BY DEF TbfInit, Pos
  <2>2. bst \in [Bucket -> {"none", "live", "freed"}] /\ token \in [Bucket -> Int]
        /\ orphaned \in [Bucket -> BOOLEAN]
    BY DEF TbfInit
  <2>3. ai \in 0 .. NR_CHN /\ mut_job = "free" /\ apc = "off" /\ acancel = FALSE
    BY DEF TbfInit
  <2> QED  BY <1>0, <2>1, <2>2, <2>3 DEF TbfTypeOK
<1>2. JobMutexPaired /\ TokensBounded /\ TableSound
  BY DEF TbfInit, JobMutexPaired, TokensBounded, TableSound
<1>3. win.b \in Bucket /\ win.used = 0 /\ win.ticks = 0
  BY DEF TbfInit
<1>4. RateLimited
  BY <1>3 DEF TbfInit, RateLimited
<1> QED  BY <1>1, <1>2, <1>4 DEF TbfInv

(* A step that changes none of the library's variables keeps its invariant. *)
LEMMA TbfStutter == TbfInv /\ UNCHANGED tbfvars => TbfInv'
BY DEF TbfInv, tbfvars, TbfTypeOK, JobMutexPaired, TokensBounded, RateLimited, TableSound

(* Opening a window keeps the invariant: no bucket holds more than BURST. *)
LEMMA WindowKeeps == TbfInv /\ StartWindow => TbfInv'
<1> SUFFICES ASSUME TbfInv, StartWindow PROVE TbfInv'
  OBVIOUS
<1> USE TbfAssumption
<1>1. win'.b \in Bucket /\ win'.used = 0 /\ win'.ticks = 0
  BY DEF StartWindow
<1>2. TbfTypeOK'
  BY DEF TbfInv, TbfTypeOK, StartWindow, slotvars, alrmvars
<1>3. JobMutexPaired' /\ TokensBounded' /\ TableSound'
  BY DEF TbfInv, JobMutexPaired, TokensBounded, TableSound, StartWindow, slotvars, alrmvars
<1>4. token'[win'.b] <= BURST /\ token'[win'.b] \in Int
  BY <1>1, <1>2, <1>3 DEF TokensBounded, TbfTypeOK
<1>5. RateLimited'
  BY <1>1, <1>4 DEF RateLimited
<1> QED  BY <1>2, <1>3, <1>5 DEF TbfInv

(* Every step of the refill thread keeps the invariant. *)
LEMMA AlarmKeeps == TbfInv /\ thr_alrm => TbfInv'
<1> SUFFICES ASSUME TbfInv, thr_alrm PROVE TbfInv'
  OBVIOUS
<1> USE TbfAssumption
<1>1. CASE AlrmRefill
  <2> DEFINE b == job[ai]
  <2>1. b \in Bucket
    BY <1>1 DEF AlrmRefill, TbfInv, TbfTypeOK, Pos
  <2>2. token[b] \in 0 .. BURST /\ token'[b] = AddTokens(token[b], CPS)
    BY <1>1, <2>1 DEF AlrmRefill, TbfInv, TbfTypeOK, TokensBounded
  <2>3. token'[b] \in 0 .. BURST /\ token'[b] <= token[b] + CPS
    BY <2>2, AddTokensLemma
  <2>4. token' \in [Bucket -> Int] /\ \A c \in Bucket : c # b => token'[c] = token[c]
    BY <1>1, <2>1, <2>2, <2>3 DEF AlrmRefill, TbfInv, TbfTypeOK
  <2>5. TokensBounded'
    BY <2>3, <2>4 DEF TokensBounded, TbfInv
  <2>6. win \in [b : Bucket, used : Int, ticks : 0 .. MaxWindow]
    BY DEF TbfInv, TbfTypeOK
  <2>7. win' \in [b : Bucket, used : Int, ticks : 0 .. MaxWindow]
    <3>1. win' = win \/ win' = [b |-> b, used |-> 0, ticks |-> 0]
          \/ (win.ticks # MaxWindow /\ win' = [win EXCEPT !.ticks = @ + 1])
      BY <1>1 DEF AlrmRefill, WinTick
    <3>2. win.ticks # MaxWindow => win.ticks + 1 \in 0 .. MaxWindow
      BY <2>6
    <3>3. CASE win' = win
      BY <2>6, <3>3
    <3>4. CASE win' = [b |-> b, used |-> 0, ticks |-> 0]
      BY <2>1, <3>4
    <3>5. CASE win.ticks # MaxWindow /\ win' = [win EXCEPT !.ticks = @ + 1]
      BY <2>6, <3>2, <3>5
    <3> QED  BY <3>1, <3>3, <3>4, <3>5
  <2>8. TbfTypeOK'
    BY <1>1, <2>4, <2>7 DEF AlrmRefill, TbfInv, TbfTypeOK, slotvars
  <2>9. JobMutexPaired' /\ TableSound'
    BY <1>1 DEF AlrmRefill, TbfInv, JobMutexPaired, TableSound, slotvars
  <2>10. RateLimited'
    <3>1. CASE b # win.b
      BY <1>1, <2>1, <2>4, <2>6, <3>1 DEF AlrmRefill, WinTick, RateLimited, TbfInv
    <3>2. CASE b = win.b /\ win.ticks = MaxWindow
      <4>1. win'.b = b /\ win'.used = 0 /\ win'.ticks = 0
        BY <1>1, <2>6, <3>2 DEF AlrmRefill, WinTick
      <4> QED  BY <2>3, <4>1 DEF RateLimited
    <3>3. CASE b = win.b /\ win.ticks # MaxWindow
      <4>1. win'.b = b /\ win'.used = win.used /\ win'.ticks = win.ticks + 1
        BY <1>1, <2>6, <3>3 DEF AlrmRefill, WinTick
      <4>2. win.used + token[b] <= BURST + CPS * win.ticks
        BY <3>3 DEF TbfInv, RateLimited
      <4>3. CPS * win.ticks \in Nat /\ CPS * (win.ticks + 1) = CPS * win.ticks + CPS
        BY <2>6, RateStep
      <4> HIDE DEF b
      <4> QED  BY <2>2, <2>3, <2>6, <4>1, <4>2, <4>3 DEF RateLimited
    <3> QED  BY <3>1, <3>2, <3>3
  <2> QED  BY <2>5, <2>8, <2>9, <2>10 DEF TbfInv
<1>2. CASE AlrmLock \/ AlrmSkip \/ AlrmUnlock \/ AlrmWake
  <2>1. UNCHANGED <<slotvars, levelvars, orphaned, acancel>>
    BY <1>2 DEF AlrmLock, AlrmSkip, AlrmUnlock, AlrmWake
  <2>2. TbfTypeOK'
    BY <1>2, <2>1 DEF AlrmLock, AlrmSkip, AlrmUnlock, AlrmWake, TbfInv, TbfTypeOK,
       slotvars, levelvars
  <2>3. JobMutexPaired' /\ TableSound'
    BY <1>2, <2>1 DEF AlrmLock, AlrmSkip, AlrmUnlock, AlrmWake, TbfInv, TbfTypeOK,
       JobMutexPaired, TableSound, slotvars
  <2>4. TokensBounded' /\ RateLimited'
    BY <2>1 DEF TbfInv, TokensBounded, RateLimited, levelvars
  <2> QED  BY <2>2, <2>3, <2>4 DEF TbfInv
<1> QED  BY <1>1, <1>2 DEF thr_alrm

(* mytbf_init keeps the invariant: it takes a free slot only. *)
LEMMA InitKeeps ==
  ASSUME NEW b \in Bucket, TbfInv, mytbf_init(b) \/ mytbf_init_full(b)
  PROVE  TbfInv'
<1> USE TbfAssumption
<1>1. UNCHANGED <<levelvars, orphaned, mut_job, ai, acancel>> /\ module_load
  BY DEF mytbf_init, mytbf_init_full
<1>2. TokensBounded' /\ RateLimited'
  BY <1>1 DEF TbfInv, TokensBounded, RateLimited, levelvars
<1>3. JobMutexPaired'
  BY <1>1 DEF TbfInv, TbfTypeOK, JobMutexPaired, module_load
<1>4. CASE mytbf_init_full(b)
  <2>1. UNCHANGED slotvars
    BY <1>4 DEF mytbf_init_full
  <2>2. TbfTypeOK' /\ TableSound'
    BY <1>1, <2>1 DEF TbfInv, TbfTypeOK, TableSound, slotvars, levelvars, module_load
  <2> QED  BY <1>2, <1>3, <2>2 DEF TbfInv
<1>5. CASE mytbf_init(b)
  <2>1. PICK p \in FreePos : job' = [job EXCEPT ![p] = b] /\ pos' = [pos EXCEPT ![b] = p]
    BY <1>5 DEF mytbf_init
  <2>2. p \in Pos /\ bst[b] = "none" /\ bst' = [bst EXCEPT ![b] = "live"]
    BY <1>5 DEF mytbf_init, FreePos
  <2>3. TbfTypeOK'
    BY <1>1, <2>1, <2>2 DEF TbfInv, TbfTypeOK, levelvars, module_load
  <2>4. apc' # "dead" => apc # "dead"
    BY <1>1 DEF module_load
  <2>5. TableSound'
    <3> SUFFICES ASSUME apc # "dead", NEW q \in Pos, job'[q] # NULL
                 PROVE  bst'[job'[q]] = "live" /\ pos'[job'[q]] = q
      BY <2>4 DEF TableSound
    <3>1. CASE q = p
      BY <2>1, <2>2, <3>1 DEF TbfInv, TbfTypeOK
    <3>2. CASE q # p
      <4>1. job'[q] = job[q] /\ job[q] \in Bucket
        BY <2>1, <2>2, <3>2 DEF TbfInv, TbfTypeOK
      <4>2. bst[job[q]] = "live" /\ pos[job[q]] = q
        BY <4>1 DEF TbfInv, TableSound
      <4>3. job[q] # b
        BY <2>2, <4>2
      <4> QED  BY <2>1, <2>2, <4>1, <4>2, <4>3 DEF TbfInv, TbfTypeOK
    <3> QED  BY <3>1, <3>2
  <2> QED  BY <1>2, <1>3, <2>3, <2>5 DEF TbfInv
<1> QED  BY <1>4, <1>5

(* mytbf_fetchtoken keeps the invariant and returns between 1 and size *)
(* tokens: a successful fetch is never empty. *)
LEMMA FetchKeeps ==
  ASSUME NEW b \in Bucket, NEW t, NEW size \in Nat \ {0}, NEW n \in Int,
         TbfInv, mytbf_fetchtoken(t, b, size, n)
  PROVE  TbfInv' /\ n \in 1 .. size /\ n <= token[b]
<1> USE TbfAssumption
<1>1. token[b] \in 1 .. BURST /\ n = min(token[b], size)
  BY DEF mytbf_fetchtoken, NoToken, TbfInv, TbfTypeOK, TokensBounded
<1>2. n \in 1 .. size /\ n <= token[b]
  BY <1>1 DEF min
<1>3. token' = [token EXCEPT ![b] = @ - n] /\ WinUse(b, n)
      /\ UNCHANGED <<slotvars, orphaned, waiters, alrmvars>>
  BY DEF mytbf_fetchtoken
<1>4. token'[b] = token[b] - n /\ \A c \in Bucket : c # b => token'[c] = token[c]
  BY <1>3 DEF TbfInv, TbfTypeOK
<1>5. TokensBounded'
  BY <1>1, <1>2, <1>4 DEF TbfInv, TokensBounded
<1>6. win \in [b : Bucket, used : Int, ticks : 0 .. MaxWindow]
  BY DEF TbfInv, TbfTypeOK
<1>7. win' \in [b : Bucket, used : Int, ticks : 0 .. MaxWindow] /\ win'.b = win.b
      /\ win'.ticks = win.ticks /\ win'.used = IF b = win.b THEN win.used + n ELSE win.used
  BY <1>3, <1>6 DEF WinUse
<1>8. TbfTypeOK'
  BY <1>1, <1>2, <1>3, <1>7 DEF TbfInv, TbfTypeOK, slotvars, alrmvars
<1>9. JobMutexPaired' /\ TableSound'
  BY <1>3 DEF TbfInv, JobMutexPaired, TableSound, slotvars, alrmvars
<1>10. RateLimited'
  <2>1. CPS * win.ticks \in Nat
    BY <1>6, RateStep
  <2>2. win.used + token[win.b] <= BURST + CPS * win.ticks
    BY DEF TbfInv, RateLimited
  <2>3. token[win.b] \in Int /\ token[b] \in Int
    BY <1>6 DEF TbfInv, TbfTypeOK
  <2> QED  BY <1>2, <1>4, <1>6, <1>7, <2>1, <2>2, <2>3 DEF RateLimited
<1> QED  BY <1>2, <1>5, <1>8, <1>9, <1>10 DEF TbfInv

(* Going to sleep in mytbf_fetchtoken, waking and being cancelled there *)
(* change neither levels nor slots. *)
LEMMA SleepKeeps ==
  ASSUME NEW b \in Bucket, NEW t, TbfInv,
         FetchWait(t, b) \/ FetchSpurious(t, b) \/ FetchCancelled(t, b)
  PROVE  TbfInv'
<1>1. UNCHANGED <<slotvars, token, win, alrmvars>>
  BY DEF FetchWait, FetchSpurious, FetchCancelled
<1>2. orphaned' \in [Bucket -> BOOLEAN]
  BY DEF FetchWait, FetchSpurious, FetchCancelled, TbfInv, TbfTypeOK
<1> QED  BY <1>1, <1>2 DEF TbfInv, TbfTypeOK, JobMutexPaired, TokensBounded, RateLimited,
            TableSound, slotvars, alrmvars

(* mytbf_returntoken keeps the invariant: what the cap drops is lost, never *)
(* made up. *)
LEMMA ReturnKeeps ==
  ASSUME NEW b \in Bucket, NEW size \in Nat \ {0}, TbfInv, mytbf_returntoken(b, size)
  PROVE  TbfInv'
<1> USE TbfAssumption
<1>1. token[b] \in 0 .. BURST /\ token' = [token EXCEPT ![b] = AddTokens(@, size)]
      /\ WinUse(b, - size) /\ UNCHANGED <<slotvars, orphaned, alrmvars>>
  BY DEF mytbf_returntoken, TbfInv, TbfTypeOK, TokensBounded
<1>2. AddTokens(token[b], size) \in 0 .. BURST /\ AddTokens(token[b], size) <= token[b] + size
  BY <1>1, AddTokensLemma
<1>3. token'[b] = AddTokens(token[b], size) /\ \A c \in Bucket : c # b => token'[c] = token[c]
  BY <1>1 DEF TbfInv, TbfTypeOK
<1>4. TokensBounded'
  BY <1>2, <1>3 DEF TbfInv, TokensBounded
<1>5. win \in [b : Bucket, used : Int, ticks : 0 .. MaxWindow]
  BY DEF TbfInv, TbfTypeOK
<1>6. win' \in [b : Bucket, used : Int, ticks : 0 .. MaxWindow] /\ win'.b = win.b
      /\ win'.ticks = win.ticks /\ win'.used = IF b = win.b THEN win.used - size ELSE win.used
  BY <1>1, <1>5 DEF WinUse
<1>7. TbfTypeOK'
  BY <1>1, <1>2, <1>6 DEF TbfInv, TbfTypeOK, slotvars, alrmvars
<1>8. JobMutexPaired' /\ TableSound'
  BY <1>1 DEF TbfInv, JobMutexPaired, TableSound, slotvars, alrmvars
<1>9. RateLimited'
  <2>1. CPS * win.ticks \in Nat
    BY <1>5, RateStep
  <2>2. win.used + token[win.b] <= BURST + CPS * win.ticks
    BY DEF TbfInv, RateLimited
  <2>3. token[win.b] \in Int /\ token[b] \in Int
    BY <1>5 DEF TbfInv, TbfTypeOK
  <2> QED  BY <1>2, <1>3, <1>5, <1>6, <2>1, <2>2, <2>3 DEF RateLimited
<1> QED  BY <1>4, <1>7, <1>8, <1>9 DEF TbfInv

(* mytbf_destroy keeps the invariant: the slot it clears is the bucket's. *)
LEMMA DestroyKeeps ==
  ASSUME NEW b \in Bucket, TbfInv, mytbf_destroy(b)
  PROVE  TbfInv'
<1> USE TbfAssumption
<1>1. job' = [job EXCEPT ![pos[b]] = NULL] /\ bst' = [bst EXCEPT ![b] = "freed"]
      /\ UNCHANGED <<pos, levelvars, orphaned, alrmvars>> /\ pos[b] \in Pos
  BY DEF mytbf_destroy, TbfInv, TbfTypeOK
<1>2. TbfTypeOK'
  BY <1>1 DEF TbfInv, TbfTypeOK, levelvars, alrmvars
<1>3. JobMutexPaired' /\ TokensBounded' /\ RateLimited'
  BY <1>1 DEF TbfInv, JobMutexPaired, TokensBounded, RateLimited, levelvars, alrmvars
<1>4. TableSound'
  <2> SUFFICES ASSUME apc # "dead", NEW q \in Pos, job'[q] # NULL
               PROVE  bst'[job'[q]] = "live" /\ pos'[job'[q]] = q
    BY <1>1 DEF TableSound, alrmvars
  <2>1. q # pos[b] /\ job'[q] = job[q] /\ job[q] \in Bucket
    BY <1>1 DEF TbfInv, TbfTypeOK
  <2>2. bst[job[q]] = "live" /\ pos[job[q]] = q
    BY <2>1 DEF TbfInv, TableSound
  <2>3. job[q] # b
    BY <2>1, <2>2
  <2> QED  BY <1>1, <2>1, <2>2, <2>3 DEF TbfInv, TbfTypeOK
<1> QED  BY <1>2, <1>3, <1>4 DEF TbfInv

-----------------------------------------------------------------------------
(* The library under every legal use. *)

(* The initial states satisfy the inductive invariant. *)
LEMMA ApiStarts == ApiInit => ApiIInv
<1> SUFFICES ASSUME ApiInit PROVE ApiIInv
  OBVIOUS
<1>1. TbfInv
  BY TbfInitInv DEF ApiInit
<1>2. ApiTypeOK
  BY <1>1, TbfAssumption DEF ApiInit, ApiTypeOK, TbfInit, TbfInv
<1>3. UsesLive /\ NoSleepBesideTokens /\ HeldOfBucket
  BY DEF ApiInit, UsesLive, NoSleepBesideTokens, HeldOfBucket, TbfInit
<1> QED  BY <1>1, <1>2, <1>3 DEF ApiIInv

(* The library's part of the invariant survives every step of the callers. *)
LEMMA ApiTbf == ApiIInv /\ [ApiNext]_apivars => TbfInv'
<1> SUFFICES ASSUME ApiIInv, [ApiNext]_apivars PROVE TbfInv'
  OBVIOUS
<1> USE TbfAssumption, SizesAssumption
<1>0. TbfInv /\ at \in [Thread -> Bucket \cup {NULL}] /\ held \in [Thread -> 0 .. BURST]
      /\ HeldOfBucket
  BY DEF ApiIInv, ApiTypeOK
<1>1. CASE ApiAlarm
  BY <1>0, <1>1, AlarmKeeps DEF ApiAlarm
<1>2. CASE Window
  BY <1>0, <1>2, WindowKeeps DEF Window
<1>3. ASSUME NEW b \in Bucket, Create(b) PROVE TbfInv'
  BY <1>0, <1>3, InitKeeps DEF Create
<1>4. ASSUME NEW b \in Bucket, Destroy(b) PROVE TbfInv'
  BY <1>0, <1>4, DestroyKeeps DEF Destroy
<1>5. ASSUME NEW t \in Thread, NEW b \in Bucket, Enter(t, b) PROVE TbfInv'
  BY <1>0, <1>5, TbfStutter DEF Enter
<1>6. ASSUME NEW t \in Thread, NEW size \in Sizes, Fetch(t, size) PROVE TbfInv'
  <2>1. PICK n \in 1 .. BURST : mytbf_fetchtoken(t, at[t], size, n)
    BY <1>6 DEF Fetch
  <2>2. at[t] \in Bucket
    BY <1>0, <1>6 DEF Fetch
  <2> QED  BY <1>0, <2>1, <2>2, FetchKeeps
<1>7. ASSUME NEW t \in Thread, Sleep(t) PROVE TbfInv'
  <2>1. at[t] \in Bucket
    BY <1>0, <1>7 DEF Sleep
  <2> QED  BY <1>0, <1>7, <2>1, SleepKeeps DEF Sleep
<1>8. ASSUME NEW t \in Thread, UseAll(t) PROVE TbfInv'
  BY <1>0, <1>8, TbfStutter DEF UseAll
<1>9. ASSUME NEW t \in Thread, NEW n \in 1 .. BURST, GiveBack(t, n) PROVE TbfInv'
  <2>1. at[t] \in Bucket
    BY <1>0, <1>9 DEF GiveBack, HeldOfBucket
  <2> QED  BY <1>0, <1>9, <2>1, ReturnKeeps DEF GiveBack
<1>10. CASE UNCHANGED apivars
  BY <1>0, <1>10, TbfStutter DEF apivars
<1> QED  BY <1>1, <1>2, <1>3, <1>4, <1>5, <1>6, <1>7, <1>8, <1>9, <1>10 DEF ApiNext

(* Every step keeps the callers' part of the invariant. *)
LEMMA ApiKeeps == ApiIInv /\ [ApiNext]_apivars => ApiIInv'
<1> SUFFICES ASSUME ApiIInv, [ApiNext]_apivars PROVE ApiIInv'
  OBVIOUS
<1> USE TbfAssumption, SizesAssumption
<1>t. TbfInv'
  BY ApiTbf
<1>n. TbfTypeOK' /\ TokensBounded'
  BY <1>t DEF TbfInv
<1>0. TbfTypeOK /\ TokensBounded /\ ApiTypeOK /\ UsesLive /\ NoSleepBesideTokens /\ HeldOfBucket
  BY DEF ApiIInv, TbfInv
<1> DEFINE Rest == ApiTypeOK /\ UsesLive /\ NoSleepBesideTokens /\ HeldOfBucket
<1>1. CASE ApiAlarm
  <2>1. UNCHANGED <<slotvars, at, held>>
    BY <1>1 DEF ApiAlarm, thr_alrm, AlrmLock, AlrmSkip, AlrmRefill, AlrmUnlock, AlrmWake
  <2>2. ASSUME UNCHANGED levelvars PROVE Rest'
    BY <1>0, <1>n, <2>1, <2>2 DEF ApiTypeOK, UsesLive, NoSleepBesideTokens, HeldOfBucket,
       slotvars, levelvars
  <2>3. ASSUME AlrmRefill PROVE Rest'
    <3>1. job[ai] \in Bucket
      BY <1>0, <2>3 DEF AlrmRefill, TbfTypeOK, Pos
    <3>2. waiters' = [waiters EXCEPT ![job[ai]] = {}]
          /\ \A b \in Bucket : b # job[ai] => token'[b] = token[b]
      BY <1>0, <2>3, <3>1 DEF AlrmRefill, TbfTypeOK
    <3> QED  BY <1>0, <1>n, <2>1, <3>1, <3>2 DEF ApiTypeOK, UsesLive, NoSleepBesideTokens,
                HeldOfBucket, slotvars
  <2>4. Rest'
    BY <1>1, <2>2, <2>3 DEF ApiAlarm, thr_alrm, AlrmLock, AlrmSkip, AlrmUnlock, AlrmWake
  <2> QED  BY <1>t, <2>4 DEF ApiIInv
<1>2. CASE Window
  BY <1>0, <1>n, <1>t, <1>2 DEF Window, StartWindow, ApiIInv, ApiTypeOK, UsesLive,
     NoSleepBesideTokens, HeldOfBucket, slotvars
<1>3. ASSUME NEW b \in Bucket, Create(b) PROVE ApiIInv'
  <2>1. UNCHANGED <<at, held, waiters, token>>
    BY <1>3 DEF Create, mytbf_init, mytbf_init_full, levelvars
  <2>2. \A c \in Bucket : bst[c] = "live" => bst'[c] = "live"
    BY <1>0, <1>3 DEF Create, mytbf_init, mytbf_init_full, slotvars, TbfTypeOK
  <2> QED  BY <1>0, <1>n, <1>t, <2>1, <2>2 DEF ApiIInv, ApiTypeOK, UsesLive, NoSleepBesideTokens,
              HeldOfBucket
<1>4. ASSUME NEW b \in Bucket, Destroy(b) PROVE ApiIInv'
  <2>1. UNCHANGED <<at, held, waiters, token>> /\ bst' = [bst EXCEPT ![b] = "freed"]
        /\ \A t \in Thread : at[t] # b
    BY <1>4 DEF Destroy, mytbf_destroy, levelvars
  <2> QED  BY <1>0, <1>n, <1>t, <2>1 DEF ApiIInv, ApiTypeOK, UsesLive, NoSleepBesideTokens,
              HeldOfBucket, TbfTypeOK
<1>5. ASSUME NEW t \in Thread, NEW b \in Bucket, Enter(t, b) PROVE ApiIInv'
  <2>1. UNCHANGED <<held, waiters, token, bst>>
    BY <1>5 DEF Enter, tbfvars
  <2>2. at' = [at EXCEPT ![t] = b] /\ at[t] = NULL /\ bst[b] = "live"
    BY <1>5 DEF Enter
  <2> QED  BY <1>0, <1>n, <1>t, <2>1, <2>2 DEF ApiIInv, ApiTypeOK, UsesLive, NoSleepBesideTokens,
              HeldOfBucket
<1>6. ASSUME NEW t \in Thread, NEW size \in Sizes, Fetch(t, size) PROVE ApiIInv'
  <2>1. PICK n \in 1 .. BURST : mytbf_fetchtoken(t, at[t], size, n)
                                /\ held' = [held EXCEPT ![t] = n]
    BY <1>6 DEF Fetch
  <2>2. at[t] \in Bucket /\ UNCHANGED at
    BY <1>0, <1>6 DEF Fetch, ApiTypeOK
  <2>3. UNCHANGED <<bst, waiters>> /\ t \notin waiters[at[t]] /\ token[at[t]] > 0
        /\ token' = [token EXCEPT ![at[t]] = @ - n]
    BY <1>0, <2>1, <2>2 DEF mytbf_fetchtoken, NoToken, slotvars, TbfTypeOK
  <2>4. ApiTypeOK' /\ HeldOfBucket'
    BY <1>0, <1>n, <2>1, <2>2, <2>3 DEF ApiTypeOK, HeldOfBucket
  <2>5. UsesLive'
    BY <1>0, <2>1, <2>2, <2>3 DEF ApiTypeOK, UsesLive
  <2>6. waiters[at[t]] = {}
    BY <1>0, <2>2, <2>3 DEF NoSleepBesideTokens, TbfTypeOK
  <2>7. NoSleepBesideTokens'
    BY <1>0, <2>2, <2>3, <2>6 DEF NoSleepBesideTokens, TbfTypeOK
  <2> QED  BY <1>t, <2>4, <2>5, <2>7 DEF ApiIInv
<1>7. ASSUME NEW t \in Thread, Sleep(t) PROVE ApiIInv'
  <2>1. at[t] \in Bucket /\ held[t] = 0 /\ UNCHANGED <<at, held, bst, token>>
    BY <1>0, <1>7 DEF Sleep, ApiTypeOK, FetchWait, FetchSpurious, slotvars
  <2>2. waiters' = [waiters EXCEPT ![at[t]] = @ \ {t}]
        \/ (waiters' = [waiters EXCEPT ![at[t]] = @ \cup {t}] /\ token[at[t]] = 0)
    BY <1>0, <1>7, <2>1 DEF Sleep, FetchWait, FetchSpurious, NoToken, TbfTypeOK, TokensBounded
  <2>3. ApiTypeOK' /\ HeldOfBucket'
    BY <1>0, <1>n, <2>1, <2>2 DEF ApiTypeOK, HeldOfBucket
  <2>4. UsesLive'
    BY <1>0, <2>1, <2>2 DEF ApiTypeOK, UsesLive
  <2>5. NoSleepBesideTokens'
    BY <1>0, <2>1, <2>2 DEF ApiTypeOK, NoSleepBesideTokens
  <2> QED  BY <1>t, <2>3, <2>4, <2>5 DEF ApiIInv
<1>8. ASSUME NEW t \in Thread, UseAll(t) PROVE ApiIInv'
  <2>1. UNCHANGED <<waiters, token, bst>> /\ at' = [at EXCEPT ![t] = NULL]
        /\ held' = [held EXCEPT ![t] = 0] /\ held[t] > 0
    BY <1>8 DEF UseAll, tbfvars
  <2> QED  BY <1>0, <1>n, <1>t, <2>1 DEF ApiIInv, ApiTypeOK, UsesLive, NoSleepBesideTokens,
              HeldOfBucket
<1>9. ASSUME NEW t \in Thread, NEW n \in 1 .. BURST, GiveBack(t, n) PROVE ApiIInv'
  <2>1. at[t] \in Bucket
    BY <1>0, <1>9 DEF GiveBack, HeldOfBucket, ApiTypeOK
  <2>2. waiters' = [waiters EXCEPT ![at[t]] = {}] /\ UNCHANGED bst
        /\ at' = [at EXCEPT ![t] = NULL] /\ held' = [held EXCEPT ![t] = 0] /\ held[t] > 0
    BY <1>0, <1>9 DEF GiveBack, mytbf_returntoken, slotvars, ApiTypeOK
  <2>3. \A b \in Bucket : b # at[t] => token'[b] = token[b]
    BY <1>0, <1>9 DEF GiveBack, mytbf_returntoken, TbfTypeOK
  <2>4. ApiTypeOK' /\ HeldOfBucket'
    BY <1>0, <1>n, <2>1, <2>2 DEF ApiTypeOK, HeldOfBucket
  <2>5. UsesLive'
    BY <1>0, <2>1, <2>2 DEF ApiTypeOK, UsesLive
  <2>6. NoSleepBesideTokens'
    BY <1>0, <2>1, <2>2, <2>3 DEF ApiTypeOK, NoSleepBesideTokens
  <2> QED  BY <1>t, <2>4, <2>5, <2>6 DEF ApiIInv
<1>10. CASE UNCHANGED apivars
  BY <1>0, <1>n, <1>t, <1>10 DEF apivars, tbfvars, ApiIInv, ApiTypeOK, UsesLive, NoSleepBesideTokens,
     HeldOfBucket
<1> QED  BY <1>1, <1>2, <1>3, <1>4, <1>5, <1>6, <1>7, <1>8, <1>9, <1>10 DEF ApiNext

(* The inductive invariant holds in every reachable state. *)
THEOREM ApiInv == ApiSpec => []ApiIInv
BY ApiStarts, ApiKeeps, PTL DEF ApiSpec

(* Conformance of the token bucket: whatever the threads, in any window of *)
(* time a bucket yields at most BURST tokens plus CPS per refill. *)
THEOREM Conformance == ApiSpec => []RateLimited
<1>1. ApiIInv => RateLimited
  BY DEF ApiIInv, TbfInv
<1> QED  BY <1>1, ApiInv, PTL

(* Type correctness of the library and its callers. *)
THEOREM ApiTypeCorrect == ApiSpec => []ApiTypeOK
<1>1. ApiIInv => ApiTypeOK
  BY DEF ApiIInv
<1> QED  BY <1>1, ApiInv, PTL

(* job[] never holds a freed bucket, and every bucket knows its own slot: *)
(* thr_alrm does not use memory after mytbf_destroy freed it. *)
THEOREM NoUseAfterFree == ApiSpec => [](TableSound /\ UsesLive)
<1>1. ApiIInv => TableSound /\ UsesLive
  BY DEF ApiIInv, TbfInv
<1> QED  BY <1>1, ApiInv, PTL

(* No wakeup is lost: a sleeper in mytbf_fetchtoken has an empty bucket. *)
THEOREM NoLostWakeup == ApiSpec => []NoSleepBesideTokens
<1>1. ApiIInv => NoSleepBesideTokens
  BY DEF ApiIInv
<1> QED  BY <1>1, ApiInv, PTL

-----------------------------------------------------------------------------
(* The network radio server. *)

(* The end of module_unload keeps the library's invariant: what is freed   *)
(* there was left in the table when thr_alrm had died.                     *)
LEMMA UnloadKeeps ==
  ASSUME TbfInv, UnloadCancel \/ (UnloadFree /\ apc # "off")
  PROVE  TbfInv'
<1>1. CASE UnloadCancel
  BY <1>1 DEF UnloadCancel, TbfInv, TbfTypeOK, JobMutexPaired, TokensBounded, RateLimited,
     TableSound, slotvars, levelvars
<1>2. CASE UnloadFree /\ apc # "off"
  <2>1. apc = "dead" /\ UNCHANGED <<job, pos, levelvars, orphaned, alrmvars>>
    BY <1>2 DEF UnloadFree
  <2>2. bst' \in [Bucket -> {"none", "live", "freed"}]
    BY <1>2 DEF UnloadFree, TbfInv, TbfTypeOK
  <2>3. TbfTypeOK' /\ TableSound'
    BY <2>1, <2>2 DEF TbfInv, TbfTypeOK, TableSound, levelvars, alrmvars
  <2>4. JobMutexPaired' /\ TokensBounded' /\ RateLimited'
    BY <2>1 DEF TbfInv, JobMutexPaired, TokensBounded, RateLimited, levelvars, alrmvars
  <2> QED  BY <2>3, <2>4 DEF TbfInv
<1> QED  BY <1>1, <1>2

(* The server starts in its invariant. *)
LEMMA RadioStarts ==
  ASSUME RadioAssumption, Init
  PROVE  RadioInv
<1> USE TbfAssumption DEF RadioAssumption, Channels
<1>1. TbfInv
  BY TbfInitInv DEF Init
<1>2. TypeOK
  <2>1. TbfTypeOK /\ TokensBounded
    BY <1>1 DEF TbfInv
  <2>2. waiters \in [Bucket -> SUBSET Channels] /\ freed \subseteq {"sbuf", "cont_ptr"}
    BY DEF Init, TbfInit
  <2>3. tid \in [0 .. LISTSIZE -> {"none", "failed", "run", "dead"}]
        /\ cancel \in [0 .. LISTSIZE -> BOOLEAN] /\ cpc \in [Channels -> {"fetch", "read", "send"}]
    BY DEF Init
  <2>4. tsize \in [Channels -> 0 .. BUFSIZE] /\ cur \in [Channels -> 0 .. NFILES - 1]
        /\ paid \in [Channels -> Int]
    BY DEF Init
  <2>5. k \in 0 .. LISTSIZE + 1 /\ mpc = "getlist" /\ sig = FALSE
    <3>1. k = 0 /\ mpc = "getlist" /\ sig = FALSE
      BY DEF Init
    <3> QED  BY <3>1
  <2> QED  BY <2>1, <2>2, <2>3, <2>4, <2>5 DEF TypeOK
<1>3. FreedAfterUse
  BY DEF Init, FreedAfterUse
<1>4. PaidExact
  BY DEF Init, PaidExact
<1>5. Phases
  BY DEF Init, Phases
<1> QED  BY <1>1, <1>2, <1>3, <1>4, <1>5 DEF RadioInv

(* The library's part of the invariant survives every step of the server. *)
LEMMA RadioTbf ==
  ASSUME RadioAssumption, RadioInv, [Next]_vars
  PROVE  TbfInv'
<1> USE TbfAssumption DEF RadioAssumption, Channels
<1>0. TbfInv /\ TypeOK /\ Phases
  BY DEF RadioInv
<1>1. CASE UNCHANGED tbfvars
  BY <1>0, <1>1, TbfStutter
<1>2. CASE MainGetChannel
  <2>1. k + 1 \in Bucket /\ mytbf_init(k + 1)
    BY <1>0, <1>2 DEF MainGetChannel, TypeOK
  <2> QED  BY <1>0, <2>1, InitKeeps
<1>3. CASE ExitDestroyBucket
  <2>1. k \in Bucket /\ mytbf_destroy(k)
    BY <1>0, <1>3 DEF ExitDestroyBucket, TypeOK, Phases
  <2> QED  BY <1>0, <2>1, DestroyKeeps
<1>4. CASE ExitUnload \/ ExitUnloaded
  <2>1. UnloadCancel \/ (UnloadFree /\ apc # "off")
    BY <1>0, <1>4 DEF ExitUnload, ExitUnloaded, Phases
  <2> QED  BY <1>0, <2>1, UnloadKeeps
<1>5. CASE Alarm
  BY <1>0, <1>5, AlarmKeeps DEF Alarm
<1>6. ASSUME NEW c \in Channels, ChannelFetch(c) PROVE TbfInv'
  <2>1. PICK n \in 1 .. BUFSIZE : mytbf_fetchtoken(c, c, BUFSIZE, n)
    BY <1>6 DEF ChannelFetch
  <2> QED  BY <1>0, <2>1, FetchKeeps
<1>7. ASSUME NEW c \in Channels, ChannelWait(c) \/ ChannelSpurious(c) \/ ChannelCancelledAsleep(c)
      PROVE  TbfInv'
  <2>1. FetchWait(c, c) \/ FetchSpurious(c, c) \/ FetchCancelled(c, c)
    BY <1>7 DEF ChannelWait, ChannelSpurious, ChannelCancelledAsleep
  <2> QED  BY <1>0, <2>1, SleepKeeps
<1>8. ASSUME NEW c \in Channels, NEW len \in 1 .. BUFSIZE, ChannelRead(c, len) PROVE TbfInv'
  <2>1. tsize[c] \in 0 .. BUFSIZE
    BY <1>0 DEF TypeOK
  <2>2. CASE tsize[c] - len > 0
    <3>1. mytbf_returntoken(c, tsize[c] - len) /\ tsize[c] - len \in Nat \ {0}
      BY <1>8, <2>1, <2>2 DEF ChannelRead
    <3> QED  BY <1>0, <3>1, ReturnKeeps
  <2>3. CASE ~(tsize[c] - len > 0)
    BY <1>1, <1>8, <2>3 DEF ChannelRead
  <2> QED  BY <2>2, <2>3
<1>9. ASSUME NEW c \in Channels, ChannelEof(c) \/ ChannelSend(c) \/ ChannelEnds(c)
      PROVE  UNCHANGED tbfvars
  BY <1>9 DEF ChannelEof, ChannelSend, ChannelEnds
<1>10. ASSUME MainGetlistFails \/ MainCreateList \/ MainCreateListFails \/ MainCreateChannel
              \/ MainPause \/ ExitCancelList \/ ExitJoinList \/ ExitFreeList \/ ExitCancelChannel
              \/ ExitJoinChannel \/ ExitChannelsDone \/ ExitFreeContexts \/ ExitDirectly
              \/ Signal \/ ListEnds \/ Over \/ UNCHANGED vars
       PROVE  UNCHANGED tbfvars
  BY <1>10 DEF MainGetlistFails, MainCreateList, MainCreateListFails, MainCreateChannel,
     MainPause, ExitCancelList, ExitJoinList, ExitFreeList, ExitCancelChannel, CancelThread,
     CancelNoThread, ExitJoinChannel, ExitChannelsDone, ExitFreeContexts, ExitDirectly,
     Signal, ListEnds, Over, vars
<1> QED
  BY <1>1, <1>2, <1>3, <1>4, <1>5, <1>6, <1>7, <1>8, <1>9, <1>10 DEF Next, Main, Channel

(* A step of the main thread that moves only its program counter and loop *)
(* variable keeps everything but, perhaps, the phases. *)
LEMMA MainMoves ==
  ASSUME TypeOK, FreedAfterUse, PaidExact, TbfInv', UNCHANGED <<tbfvars, tid, chanvars, freed>>,
         cancel' \in [0 .. LISTSIZE -> BOOLEAN], sig' \in BOOLEAN, k' \in 0 .. LISTSIZE + 1,
         mpc' \in {"getlist", "channels", "pause", "h_list", "h_listjoin", "h_sbuf", "h_chan",
                   "h_chanjoin", "h_free", "exit", "unload", "exited", "crashed"}
  PROVE  TypeOK' /\ FreedAfterUse' /\ PaidExact'
<1>1. TbfTypeOK' /\ TokensBounded'
  BY DEF TbfInv
<1>2. waiters' = waiters /\ bst' = bst /\ cpc' = cpc /\ tsize' = tsize /\ cur' = cur
      /\ paid' = paid /\ tid' = tid /\ freed' = freed
  BY DEF tbfvars, chanvars
<1>3. TypeOK'
  BY <1>1, <1>2 DEF TypeOK, Channels
<1>4. FreedAfterUse' /\ PaidExact'
  BY <1>2 DEF FreedAfterUse, PaidExact
<1> QED  BY <1>3, <1>4

(* The steps of main and of daemon_exit that create, cancel, join and wait *)
(* keep the invariant. *)
LEMMA MainKeeps ==
  ASSUME RadioAssumption, RadioInv, TbfInv',
         MainGetlistFails \/ MainPause \/ Signal \/ ExitCancelList \/ ExitJoinList
           \/ ExitCancelChannel \/ ExitJoinChannel \/ ExitChannelsDone \/ ExitDirectly
  PROVE  RadioInv'
<1> USE TbfAssumption DEF RadioAssumption, Channels
<1>0. TypeOK /\ FreedAfterUse /\ PaidExact /\ Phases
  BY DEF RadioInv
<1>t. k \in 0 .. LISTSIZE + 1 /\ sig \in BOOLEAN /\ cancel \in [0 .. LISTSIZE -> BOOLEAN]
  BY <1>0 DEF TypeOK
<1>s. ASSUME UNCHANGED <<tbfvars, tid, chanvars, freed>>,
             cancel' \in [0 .. LISTSIZE -> BOOLEAN], sig' \in BOOLEAN, k' \in 0 .. LISTSIZE + 1,
             mpc' \in {"pause", "h_list", "h_listjoin", "h_sbuf", "h_chan",
                       "h_chanjoin", "h_free", "exit", "exited", "crashed"},
             Phases'
      PROVE  RadioInv'
  BY <1>0, <1>s, MainMoves DEF RadioInv
<1>1. CASE MainGetlistFails
  <2>1. mpc = "getlist" /\ mpc' = "exit" /\ k' = 0 /\ UNCHANGED <<sig, tbfvars, tid, cancel, chanvars, freed>>
    BY <1>1 DEF MainGetlistFails, Goto
  <2>2. Phases'
    BY <1>0, <2>1 DEF Phases, Joined
  <2> QED  BY <1>s, <1>t, <2>1, <2>2
<1>2. CASE MainPause
  <2>1. mpc' = "pause" /\ k' = 0 /\ UNCHANGED <<sig, tbfvars, tid, cancel, chanvars, freed>>
    BY <1>2 DEF MainPause, Goto
  <2>2. Phases'
    BY <2>1 DEF Phases
  <2> QED  BY <1>s, <1>t, <2>1, <2>2
<1>3. CASE Signal
  <2>1. mpc' = "h_list" /\ k' = 0 /\ sig' = TRUE /\ UNCHANGED <<tbfvars, tid, cancel, chanvars, freed>>
    BY <1>3 DEF Signal
  <2>2. Phases'
    BY <2>1 DEF Phases
  <2> QED  BY <1>s, <1>t, <2>1, <2>2
<1>4. CASE ExitCancelList
  <2>1. UNCHANGED <<sig, tbfvars, tid, chanvars, freed>>
    BY <1>4 DEF ExitCancelList, CancelThread, CancelNoThread, Goto
  <2>2. cancel' \in [0 .. LISTSIZE -> BOOLEAN]
    BY <1>4, <1>t DEF ExitCancelList, CancelThread, CancelNoThread
  <2>3. \/ mpc' = "h_listjoin" /\ k' = 0
        \/ mpc' = "crashed" /\ k' = 0
        \/ mpc' = "h_sbuf" /\ k' = 1 /\ tid[0] = "failed"
    BY <1>4 DEF ExitCancelList, CancelThread, CancelNoThread, Goto
  <2>4. Phases'
    BY <2>1, <2>3 DEF Phases
  <2> QED  BY <1>s, <1>t, <2>1, <2>2, <2>3, <2>4
<1>5. CASE ExitJoinList
  <2>1. mpc' = "h_sbuf" /\ k' = 1 /\ tid[0] = "dead"
        /\ UNCHANGED <<sig, tbfvars, tid, cancel, chanvars, freed>>
    BY <1>5 DEF ExitJoinList, Goto
  <2>2. Phases'
    BY <2>1 DEF Phases
  <2> QED  BY <1>s, <1>t, <2>1, <2>2
<1>6. CASE ExitCancelChannel
  <2>1. UNCHANGED <<sig, tbfvars, tid, chanvars, freed>> /\ mpc = "h_chan" /\ k <= LISTSIZE
    BY <1>6 DEF ExitCancelChannel, CancelThread, CancelNoThread, Goto
  <2>2. k \in Channels /\ Joined(k - 1)
    BY <1>0, <1>t, <2>1 DEF Phases
  <2>3. cancel' \in [0 .. LISTSIZE -> BOOLEAN]
    BY <1>6, <1>t DEF ExitCancelChannel, CancelThread, CancelNoThread
  <2>4. \/ mpc' = "h_chanjoin" /\ k' = k
        \/ mpc' = "crashed" /\ k' = 0
        \/ mpc' = "h_chan" /\ k' = k + 1 /\ tid[k] = "failed"
    BY <1>6 DEF ExitCancelChannel, CancelThread, CancelNoThread, Goto
  <2>5. Phases'
    BY <2>1, <2>2, <2>4 DEF Phases, Joined
  <2> QED  BY <1>s, <1>t, <2>1, <2>2, <2>3, <2>4, <2>5
<1>7. CASE ExitJoinChannel
  <2>1. mpc = "h_chanjoin" /\ mpc' = "h_chan" /\ k' = k + 1 /\ tid[k] = "dead"
        /\ UNCHANGED <<sig, tbfvars, tid, cancel, chanvars, freed>>
    BY <1>7 DEF ExitJoinChannel, Goto
  <2>2. k \in Channels /\ Joined(k - 1)
    BY <1>0, <2>1 DEF Phases
  <2>3. Phases'
    BY <2>1, <2>2 DEF Phases, Joined
  <2> QED  BY <1>s, <1>t, <2>1, <2>2, <2>3
<1>8. CASE ExitChannelsDone
  <2>1. mpc = "h_chan" /\ k > LISTSIZE /\ mpc' = "h_free" /\ k' = 1
        /\ UNCHANGED <<sig, tbfvars, tid, cancel, chanvars, freed>>
    BY <1>8 DEF ExitChannelsDone, Goto
  <2>2. Joined(LISTSIZE)
    BY <1>0, <1>t, <2>1 DEF Phases, Joined
  <2>3. Phases'
    BY <2>1, <2>2 DEF Phases, Joined
  <2> QED  BY <1>s, <1>t, <2>1, <2>3
<1>9. CASE ExitDirectly
  <2>1. mpc' = "exited" /\ k' = 0 /\ UNCHANGED <<sig, tbfvars, tid, cancel, chanvars, freed>>
    BY <1>9 DEF ExitDirectly, Goto
  <2>2. Phases'
    BY <2>1 DEF Phases
  <2> QED  BY <1>s, <1>t, <2>1, <2>2
<1> QED  BY <1>1, <1>2, <1>3, <1>4, <1>5, <1>6, <1>7, <1>8, <1>9

(* So do those that make and destroy buckets and create threads. *)
LEMMA MainBuildsKeeps ==
  ASSUME RadioAssumption, RadioInv, TbfInv',
         MainGetChannel \/ MainCreateList \/ MainCreateListFails \/ MainCreateChannel
           \/ ExitFreeList \/ ExitDestroyBucket \/ ExitFreeContexts \/ ExitUnload \/ ExitUnloaded
  PROVE  RadioInv'
<1> USE TbfAssumption DEF RadioAssumption, Channels
<1>0. TbfInv /\ TypeOK /\ FreedAfterUse /\ PaidExact /\ Phases
  BY DEF RadioInv
<1>b. bst \in [Bucket -> {"none", "live", "freed"}] /\ TbfTypeOK' /\ TokensBounded'
  BY <1>0 DEF TbfInv, TbfTypeOK
<1>1. UNCHANGED <<sig, cancel, chanvars, waiters>>
  BY DEF MainGetChannel, MainCreateList, MainCreateListFails, MainCreateChannel, ExitFreeList,
     ExitDestroyBucket, ExitFreeContexts, ExitUnload, ExitUnloaded, Goto, mytbf_init,
     mytbf_destroy, UnloadCancel, UnloadFree, tbfvars, levelvars
<1>2. PaidExact'
  BY <1>0, <1>1 DEF PaidExact, chanvars
<1>s. ASSUME tid' \in [0 .. LISTSIZE -> {"none", "failed", "run", "dead"}],
             freed' \subseteq {"sbuf", "cont_ptr"}, k' \in 0 .. LISTSIZE + 1,
             mpc' \in {"getlist", "channels", "h_chan", "h_free", "exit", "unload", "exited"},
             FreedAfterUse', Phases'
      PROVE  RadioInv'
  <2>1. TypeOK'
    BY <1>0, <1>1, <1>b, <1>s DEF TypeOK, chanvars
  <2> QED  BY <1>2, <1>s, <2>1 DEF RadioInv
<1>t. k \in 0 .. LISTSIZE + 1 /\ tid \in [0 .. LISTSIZE -> {"none", "failed", "run", "dead"}]
      /\ freed \subseteq {"sbuf", "cont_ptr"}
  BY <1>0 DEF TypeOK
<1>3. CASE MainGetChannel
  <2>1. mpc = "getlist" /\ k < LISTSIZE /\ mpc' = "getlist" /\ k' = k + 1
        /\ UNCHANGED <<tid, freed>> /\ bst' = [bst EXCEPT ![k + 1] = "live"]
    BY <1>3 DEF MainGetChannel, Goto, mytbf_init
  <2>2. k + 1 \in Bucket
    BY <1>t, <2>1
  <2>3. \A c \in Channels : c <= k' => bst'[c] = "live"
    BY <1>0, <1>b, <1>t, <2>1, <2>2 DEF Phases
  <2>4. Phases'
    BY <1>0, <1>t, <2>1, <2>3 DEF Phases
  <2>5. FreedAfterUse'
    BY <1>0, <2>1 DEF Phases, FreedAfterUse
  <2> QED  BY <1>s, <1>t, <2>1, <2>4, <2>5
<1>4. CASE MainCreateList \/ MainCreateListFails
  <2>1. mpc = "getlist" /\ k = LISTSIZE /\ UNCHANGED <<freed, bst>>
    BY <1>4 DEF MainCreateList, MainCreateListFails, tbfvars
  <2>2. \/ mpc' = "channels" /\ k' = 1 /\ tid' = [tid EXCEPT ![0] = "run"]
        \/ mpc' = "exit" /\ k' = 0 /\ tid' = [tid EXCEPT ![0] = "failed"]
    BY <1>4 DEF MainCreateList, MainCreateListFails, Goto
  <2>3. freed = {} /\ (\A t \in 0 .. LISTSIZE : tid[t] = "none")
        /\ \A c \in Channels : bst[c] = "live"
    BY <1>0, <2>1 DEF Phases
  <2>4. \A c \in Channels : tid'[c] = "none"
    BY <1>t, <2>2, <2>3
  <2>5. Phases'
    BY <2>1, <2>2, <2>3, <2>4 DEF Phases, Joined
  <2>6. FreedAfterUse'
    BY <2>1, <2>3, <2>4 DEF FreedAfterUse
  <2> QED  BY <1>s, <1>t, <2>1, <2>2, <2>5, <2>6
<1>5. CASE MainCreateChannel
  <2>1. mpc = "channels" /\ k <= LISTSIZE /\ mpc' = "channels" /\ k' = k + 1
        /\ UNCHANGED <<freed, bst>>
    BY <1>5 DEF MainCreateChannel, Goto, tbfvars
  <2>2. PICK s \in {"run", "failed"} : tid' = [tid EXCEPT ![k] = s]
    BY <1>5 DEF MainCreateChannel
  <2>3. freed = {} /\ k \in Channels /\ \A c \in Channels : bst[c] = "live"
    BY <1>0, <1>t, <2>1 DEF Phases
  <2>4. Phases'
    BY <2>1, <2>3 DEF Phases
  <2>5. FreedAfterUse'
    BY <2>1, <2>3 DEF FreedAfterUse
  <2> QED  BY <1>s, <1>t, <2>1, <2>2, <2>3, <2>4, <2>5
<1>6. CASE ExitFreeList
  <2>1. mpc = "h_sbuf" /\ mpc' = "h_chan" /\ k' = 1 /\ freed' = freed \cup {"sbuf"}
        /\ UNCHANGED <<tid, bst>>
    BY <1>6 DEF ExitFreeList, Goto, tbfvars
  <2>2. Phases'
    BY <2>1 DEF Phases, Joined
  <2>3. FreedAfterUse'
    BY <1>0, <2>1 DEF FreedAfterUse, Phases
  <2> QED  BY <1>s, <1>t, <2>1, <2>2, <2>3
<1>7. CASE ExitDestroyBucket
  <2>1. mpc = "h_free" /\ k <= LISTSIZE /\ mpc' = "h_free" /\ k' = k + 1 /\ UNCHANGED <<tid, freed>>
    BY <1>7 DEF ExitDestroyBucket, Goto
  <2>2. Joined(LISTSIZE) /\ k >= 1
    BY <1>0, <2>1 DEF Phases
  <2>3. Phases'
    BY <1>t, <2>1, <2>2 DEF Phases, Joined
  <2>4. FreedAfterUse'
    BY <1>0, <2>1, <2>2 DEF FreedAfterUse, Joined
  <2> QED  BY <1>s, <1>t, <2>1, <2>3, <2>4
<1>8. CASE ExitFreeContexts
  <2>1. mpc = "h_free" /\ mpc' = "exit" /\ k' = 0 /\ freed' = freed \cup {"cont_ptr"}
        /\ UNCHANGED <<tid, bst>>
    BY <1>8 DEF ExitFreeContexts, Goto, tbfvars
  <2>2. Joined(LISTSIZE)
    BY <1>0, <2>1 DEF Phases
  <2>3. Phases'
    BY <2>1, <2>2 DEF Phases, Joined
  <2>4. FreedAfterUse'
    BY <1>0, <2>1, <2>2 DEF FreedAfterUse, Joined
  <2> QED  BY <1>s, <1>t, <2>1, <2>3, <2>4
<1>9. CASE ExitUnload
  <2>1. mpc = "exit" /\ mpc' = "unload" /\ k' = 0 /\ apc # "off" /\ UNCHANGED <<tid, freed, bst, apc>>
    BY <1>9 DEF ExitUnload, Goto, UnloadCancel, slotvars
  <2>2. Joined(LISTSIZE)
    BY <1>0, <2>1 DEF Phases
  <2>3. Phases'
    BY <2>1, <2>2 DEF Phases, Joined
  <2>4. FreedAfterUse'
    BY <1>0, <2>1 DEF FreedAfterUse
  <2> QED  BY <1>s, <1>t, <2>1, <2>3, <2>4
<1>10. CASE ExitUnloaded
  <2>1. mpc = "unload" /\ mpc' = "exited" /\ k' = 0 /\ UNCHANGED <<tid, freed>>
    BY <1>10 DEF ExitUnloaded, Goto
  <2>2. Joined(LISTSIZE)
    BY <1>0, <2>1 DEF Phases
  <2>3. Phases'
    BY <2>1 DEF Phases
  <2>4. FreedAfterUse'
    BY <1>0, <2>1, <2>2 DEF FreedAfterUse, Joined
  <2> QED  BY <1>s, <1>t, <2>1, <2>3, <2>4
<1> QED  BY <1>3, <1>4, <1>5, <1>6, <1>7, <1>8, <1>9, <1>10

(* The threads end, never begin, by themselves, and none of their steps     *)
(* moves the main thread, so they keep the phases and what is freed.        *)
LEMMA ThreadsKeepPhases ==
  ASSUME RadioAssumption, RadioInv, UNCHANGED <<mainvars, freed, bst>>,
         apc # "off" => apc' # "off",
         \/ tid' = tid
         \/ \E t \in 0 .. LISTSIZE : tid[t] = "run" /\ tid' = [tid EXCEPT ![t] = "dead"]
  PROVE  Phases' /\ FreedAfterUse'
<1> USE TbfAssumption DEF RadioAssumption, Channels
<1>0. TypeOK /\ FreedAfterUse /\ Phases /\ mpc' = mpc /\ k' = k
  BY DEF RadioInv, mainvars
<1>1. tid \in [0 .. LISTSIZE -> {"none", "failed", "run", "dead"}]
  BY <1>0 DEF TypeOK
<1>2. \A t \in 0 .. LISTSIZE : (tid'[t] = "run" => tid[t] = "run") /\ (tid[t] = "none" => tid'[t] = "none")
  BY <1>1
<1>3. FreedAfterUse'
  BY <1>0, <1>2 DEF FreedAfterUse
<1>4. \A m : Joined(m) => Joined(m)'
  BY <1>2 DEF Joined
<1>5. Phases'
  BY <1>0, <1>2, <1>4 DEF Phases
<1> QED  BY <1>3, <1>5

(* The steps of thr_alrm, the list thread and the channel threads keep the *)
(* invariant. *)
LEMMA ThreadsKeep ==
  ASSUME RadioAssumption, RadioInv, TbfInv',
         Alarm \/ ListEnds \/ (\E c \in Channels : Channel(c) \/ ChannelSpurious(c))
  PROVE  RadioInv'
<1> USE TbfAssumption DEF RadioAssumption
<1>0. TbfInv /\ TypeOK /\ PaidExact /\ TbfTypeOK' /\ TokensBounded'
  BY DEF RadioInv, TbfInv
<1>w. waiters \in [Bucket -> SUBSET Channels] /\ Bucket = Channels
  BY <1>0 DEF TypeOK, Channels
<1>v. cpc \in [Channels -> {"fetch", "read", "send"}] /\ tsize \in [Channels -> 0 .. BUFSIZE]
      /\ cur \in [Channels -> 0 .. NFILES - 1] /\ paid \in [Channels -> Int]
      /\ tid \in [0 .. LISTSIZE -> {"none", "failed", "run", "dead"}]
  BY <1>0 DEF TypeOK
<1>c. Channels \subseteq 0 .. LISTSIZE /\ 0 \in 0 .. LISTSIZE
  BY DEF Channels
<1>s. ASSUME UNCHANGED <<mainvars, cancel, freed, bst>>,
             apc # "off" => apc' # "off",
             \/ tid' = tid
             \/ \E t \in 0 .. LISTSIZE : tid[t] = "run" /\ tid' = [tid EXCEPT ![t] = "dead"],
             waiters' \in [Bucket -> SUBSET Channels],
             cpc' \in [Channels -> {"fetch", "read", "send"}],
             tsize' \in [Channels -> 0 .. BUFSIZE],
             cur' \in [Channels -> 0 .. NFILES - 1],
             paid' \in [Channels -> Int],
             PaidExact'
      PROVE  RadioInv'
  <2>1. Phases' /\ FreedAfterUse'
    BY <1>s, ThreadsKeepPhases
  <2>2. tid' \in [0 .. LISTSIZE -> {"none", "failed", "run", "dead"}]
    BY <1>s, <1>v
  <2>3. TypeOK'
    BY <1>0, <1>s, <2>2 DEF TypeOK, mainvars
  <2> QED  BY <1>s, <2>1, <2>3 DEF RadioInv
<1>p. ASSUME UNCHANGED chanvars PROVE PaidExact'
  BY <1>0, <1>p DEF PaidExact, chanvars
<1>1. CASE Alarm
  <2>1. UNCHANGED <<mainvars, tid, cancel, chanvars, freed, bst>>
    BY <1>1 DEF Alarm, thr_alrm, AlrmLock, AlrmSkip, AlrmRefill, AlrmUnlock, AlrmWake, slotvars
  <2>2. apc # "off" => apc' # "off"
    BY <1>1 DEF Alarm, thr_alrm, AlrmLock, AlrmSkip, AlrmRefill, AlrmUnlock, AlrmWake
  <2>3. waiters' = waiters \/ waiters' = [waiters EXCEPT ![job[ai]] = {}]
    BY <1>1 DEF Alarm, thr_alrm, AlrmLock, AlrmSkip, AlrmRefill, AlrmUnlock, AlrmWake, levelvars
  <2>4. waiters' \in [Bucket -> SUBSET Channels]
    BY <1>w, <2>3
  <2> QED  BY <1>s, <1>p, <1>v, <2>1, <2>2, <2>4 DEF chanvars
<1>2. CASE ListEnds
  <2>1. UNCHANGED <<mainvars, cancel, chanvars, freed, bst, apc, waiters>> /\ tid[0] = "run"
        /\ tid' = [tid EXCEPT ![0] = "dead"]
    BY <1>2 DEF ListEnds, Die, tbfvars
  <2> QED  BY <1>s, <1>p, <1>v, <1>w, <1>c, <2>1 DEF chanvars
<1>3. ASSUME NEW c \in Channels, ChannelFetch(c) PROVE RadioInv'
  <2>1. PICK n \in 1 .. BUFSIZE : /\ mytbf_fetchtoken(c, c, BUFSIZE, n)
                                  /\ tsize' = [tsize EXCEPT ![c] = n]
                                  /\ paid' = [paid EXCEPT ![c] = @ + n]
    BY <1>3 DEF ChannelFetch
  <2>2. UNCHANGED <<bst, apc, waiters>>
    BY <2>1 DEF mytbf_fetchtoken, slotvars, alrmvars
  <2>3. UNCHANGED <<mainvars, tid, cancel, cur, freed>> /\ cpc[c] = "fetch"
        /\ cpc' = [cpc EXCEPT ![c] = "read"]
    BY <1>3 DEF ChannelFetch, Running
  <2>4. paid[c] = 0
    BY <1>0, <2>3 DEF PaidExact
  <2>5. PaidExact'
    BY <1>0, <1>v, <2>1, <2>3, <2>4 DEF PaidExact
  <2>6. n \in 0 .. BUFSIZE /\ n \in Int
    OBVIOUS
  <2>7. tsize' \in [Channels -> 0 .. BUFSIZE] /\ paid' \in [Channels -> Int]
        /\ cpc' \in [Channels -> {"fetch", "read", "send"}]
    BY <1>v, <2>1, <2>3, <2>6
  <2> QED  BY <1>s, <1>v, <1>w, <2>2, <2>3, <2>5, <2>7
<1>4. ASSUME NEW c \in Channels, ChannelWait(c) \/ ChannelSpurious(c) \/ ChannelCancelledAsleep(c)
      PROVE  RadioInv'
  <2>1. UNCHANGED <<mainvars, cancel, chanvars, freed, bst, apc>>
    BY <1>4 DEF ChannelWait, ChannelSpurious, ChannelCancelledAsleep, FetchWait, FetchSpurious,
       FetchCancelled, slotvars, alrmvars
  <2>2. tid' = tid \/ (tid[c] = "run" /\ tid' = [tid EXCEPT ![c] = "dead"])
    BY <1>4 DEF ChannelWait, ChannelSpurious, ChannelCancelledAsleep, Running, Die
  <2>3. waiters' = [waiters EXCEPT ![c] = @ \cup {c}] \/ waiters' = [waiters EXCEPT ![c] = @ \ {c}]
    BY <1>4 DEF ChannelWait, ChannelSpurious, ChannelCancelledAsleep, FetchWait, FetchSpurious,
       FetchCancelled
  <2>4. waiters' \in [Bucket -> SUBSET Channels]
    BY <1>w, <2>3
  <2> QED  BY <1>s, <1>p, <1>v, <1>c, <2>1, <2>2, <2>4 DEF chanvars
<1>5. ASSUME NEW c \in Channels, NEW len \in 1 .. BUFSIZE, ChannelRead(c, len) PROVE RadioInv'
  <2>1. UNCHANGED <<mainvars, tid, cancel, cur, freed>> /\ cpc[c] = "read" /\ len \in 1 .. tsize[c]
        /\ cpc' = [cpc EXCEPT ![c] = "send"] /\ tsize' = [tsize EXCEPT ![c] = 0]
        /\ paid' = [paid EXCEPT ![c] = @ - (tsize[c] - len) - len]
    BY <1>5 DEF ChannelRead, Running
  <2>2. UNCHANGED <<bst, apc>> /\ (waiters' = waiters \/ waiters' = [waiters EXCEPT ![c] = {}])
    BY <1>5 DEF ChannelRead, mytbf_returntoken, tbfvars, slotvars, alrmvars
  <2>3. waiters' \in [Bucket -> SUBSET Channels]
    BY <1>w, <2>2
  <2>4. paid[c] = tsize[c] /\ tsize[c] \in Int
    BY <1>0, <1>v, <2>1 DEF PaidExact
  <2>5. paid[c] - (tsize[c] - len) - len = 0
    BY <2>4
  <2>6. PaidExact'
    BY <1>0, <1>v, <2>1, <2>5 DEF PaidExact
  <2>7. tsize' \in [Channels -> 0 .. BUFSIZE] /\ paid' \in [Channels -> Int]
        /\ cpc' \in [Channels -> {"fetch", "read", "send"}]
    BY <1>v, <2>1, <2>5
  <2> QED  BY <1>s, <1>v, <2>1, <2>2, <2>3, <2>6, <2>7
<1>6. ASSUME NEW c \in Channels, ChannelEof(c) PROVE RadioInv'
  <2>1. UNCHANGED <<tbfvars, mainvars, tid, cancel, cpc, tsize, paid, freed>>
        /\ cur' = [cur EXCEPT ![c] = NextFile(@)]
    BY <1>6 DEF ChannelEof
  <2>2. NextFile(cur[c]) \in 0 .. NFILES - 1
    <3>1. cur[c] \in 0 .. NFILES - 1 /\ NFILES \in Nat \ {0}
      BY <1>v
    <3> QED  BY <3>1 DEF NextFile
  <2>3. cur' \in [Channels -> 0 .. NFILES - 1]
    BY <1>v, <2>1, <2>2
  <2>4. PaidExact'
    BY <1>0, <2>1 DEF PaidExact
  <2> QED  BY <1>s, <1>v, <1>w, <2>1, <2>3, <2>4 DEF tbfvars
<1>7. ASSUME NEW c \in Channels, ChannelSend(c) PROVE RadioInv'
  <2>1. UNCHANGED <<tbfvars, mainvars, tid, cancel, tsize, cur, paid, freed>> /\ cpc[c] = "send"
        /\ cpc' = [cpc EXCEPT ![c] = "fetch"]
    BY <1>7 DEF ChannelSend, Running
  <2>2. PaidExact'
    BY <1>0, <1>v, <2>1 DEF PaidExact
  <2>3. cpc' \in [Channels -> {"fetch", "read", "send"}]
    BY <1>v, <2>1
  <2> QED  BY <1>s, <1>v, <1>w, <2>1, <2>2, <2>3 DEF tbfvars
<1>8. ASSUME NEW c \in Channels, ChannelEnds(c) PROVE RadioInv'
  <2>1. UNCHANGED <<mainvars, cancel, chanvars, freed, bst, apc, waiters>> /\ tid[c] = "run"
        /\ tid' = [tid EXCEPT ![c] = "dead"]
    BY <1>8 DEF ChannelEnds, Running, Die, tbfvars
  <2> QED  BY <1>s, <1>p, <1>v, <1>w, <1>c, <2>1 DEF chanvars
<1> QED  BY <1>1, <1>2, <1>3, <1>4, <1>5, <1>6, <1>7, <1>8 DEF Channel

(* Every step of the server keeps its invariant. *)
LEMMA RadioKeeps ==
  ASSUME RadioAssumption, RadioInv, [Next]_vars
  PROVE  RadioInv'
<1>1. TbfInv'
  BY RadioTbf
<1>2. CASE Main
  BY <1>1, <1>2, MainKeeps, MainBuildsKeeps DEF Main
<1>3. CASE Signal
  BY <1>1, <1>3, MainKeeps
<1>4. CASE ListEnds \/ Alarm \/ \E c \in Channels : Channel(c) \/ ChannelSpurious(c)
  BY <1>1, <1>4, ThreadsKeep
<1>5. CASE UNCHANGED vars
  <2>1. TypeOK' /\ FreedAfterUse' /\ PaidExact'
    <3>1. TypeOK /\ FreedAfterUse /\ PaidExact
      BY DEF RadioInv
    <3>2. UNCHANGED <<tbfvars, mpc, k, sig, tid, cancel, chanvars, freed>>
      BY <1>5 DEF vars, mainvars
    <3>3. /\ cancel' \in [0 .. LISTSIZE -> BOOLEAN] /\ sig' \in BOOLEAN /\ k' \in 0 .. LISTSIZE + 1
          /\ mpc' \in {"getlist", "channels", "pause", "h_list", "h_listjoin", "h_sbuf", "h_chan",
                       "h_chanjoin", "h_free", "exit", "unload", "exited", "crashed"}
      BY <3>1, <3>2 DEF TypeOK
    <3> QED  BY <1>1, <3>1, <3>2, <3>3, MainMoves
  <2>2. Phases'
    BY <1>5 DEF RadioInv, Phases, Joined, vars, mainvars, tbfvars
  <2> QED  BY <1>1, <2>1, <2>2 DEF RadioInv
<1> QED  BY <1>2, <1>3, <1>4, <1>5 DEF Next, Over

(* The inductive invariant holds in every reachable state of the server. *)
THEOREM RadioInvariant ==
  ASSUME RadioAssumption
  PROVE  Spec => []RadioInv
<1>1. Init => RadioInv
  BY RadioStarts
<1>2. RadioInv /\ [Next]_vars => RadioInv'
  BY RadioKeeps
<1> QED  BY <1>1, <1>2, PTL DEF Spec

(* Type correctness of the server: in particular cur stays an index of the *)
(* channel's files and the main thread's loops stay inside tid[]. *)
THEOREM RadioTypes ==
  ASSUME RadioAssumption
  PROVE  Spec => []TypeOK
<1>1. RadioInv => TypeOK
  BY DEF RadioInv
<1> QED  BY <1>1, RadioInvariant, PTL

(* For any number of channels and a signal at any moment, daemon_exit frees *)
(* the list, the contexts and the buckets only when no thread uses them. *)
THEOREM ShutdownOrder ==
  ASSUME RadioAssumption
  PROVE  Spec => []FreedAfterUse
<1>1. RadioInv => FreedAfterUse
  BY DEF RadioInv
<1> QED  BY <1>1, RadioInvariant, PTL

(* No channel broadcasts more bytes than it kept tokens. *)
THEOREM EveryBytePaid ==
  ASSUME RadioAssumption
  PROVE  Spec => []BytesPaidFor
<1>1. RadioInv => BytesPaidFor
  <2> SUFFICES ASSUME RadioInv, NEW c \in Channels PROVE paid[c] >= 0
    BY DEF BytesPaidFor
  <2>1. tsize[c] \in 0 .. BUFSIZE /\ BUFSIZE \in Nat
    BY DEF RadioInv, TypeOK, RadioAssumption
  <2>2. paid[c] = tsize[c] \/ paid[c] = 0
    BY DEF RadioInv, PaidExact
  <2> QED  BY <2>1, <2>2
<1> QED  BY <1>1, RadioInvariant, PTL

(* The server keeps the rate of every channel, and while thr_alrm lives its *)
(* table holds live buckets only, shutdown included. *)
THEOREM RadioRate ==
  ASSUME RadioAssumption
  PROVE  Spec => [](RateLimited /\ TableSound)
<1>1. RadioInv => RateLimited /\ TableSound
  BY DEF RadioInv, TbfInv
<1> QED  BY <1>1, RadioInvariant, PTL
=============================================================================

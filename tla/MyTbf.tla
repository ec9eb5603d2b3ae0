------------------------------- MODULE MyTbf -------------------------------
(***************************************************************************)
(* The token bucket library of the network radio (server/mytbf.c): a table *)
(* of buckets, a thread that refills them all every second, and the calls  *)
(* that take tokens out of a bucket and put them back.                     *)
(*                                                                         *)
(* A critical section is one step, except where it can be left or blocked  *)
(* half way:                                                               *)
(*  - thr_alrm holds mut_job while it locks the bucket mutexes one by one; *)
(*  - mytbf_fetchtoken gives up the bucket mutex in pthread_cond_wait; a   *)
(*    thread cancelled in there takes the mutex back, as POSIX demands,    *)
(*    and, no cleanup handler being registered, dies with it locked.       *)
(* "win" is a history variable: the tokens taken from one bucket, and its  *)
(* refills, since a moment picked at random.  It restarts after MaxWindow  *)
(* refills, so it bounds the window that is observed and not the system.   *)
(***************************************************************************)
EXTENDS Integers

CONSTANTS
    Bucket,     \* the handles malloc returns, one per call of mytbf_init
    NR_CHN,     \* the number of slots of job[]
    CPS,        \* tokens per refill
    BURST,      \* the most tokens a bucket keeps
    NULL,       \* an empty slot of job[]
    MaxWindow   \* the longest window "win" observes, in refills

ASSUME TbfAssumption ==
    /\ NR_CHN \in Nat \ {0}
    /\ CPS \in Nat \ {0}
    /\ BURST \in Nat \ {0}
    /\ MaxWindow \in Nat
    /\ NULL \notin Bucket
    /\ Bucket # {}

Pos == 0 .. NR_CHN - 1

VARIABLES
    job,        \* the static table job[NR_CHN]
    bst,        \* the memory of each handle: "none", "live" or "freed"
    pos,        \* me->pos of each bucket
    token,      \* me->token
    orphaned,   \* me->mut is locked for good by a thread that was cancelled
    waiters,    \* the threads asleep on me->cond
    mut_job,    \* who holds mut_job between two steps: "free" or "alrm"
    apc,        \* where thr_alrm is
    ai,         \* the loop variable of thr_alrm
    acancel,    \* pthread_cancel(tid) was called on thr_alrm
    win         \* history: [b, used, ticks], see above

tbfvars == <<job, bst, pos, token, orphaned, waiters, mut_job, apc, ai, acancel, win>>

slotvars  == <<job, bst, pos>>          \* changed by mytbf_init and mytbf_destroy
levelvars == <<token, waiters, win>>    \* changed by refill, fetch and return
alrmvars  == <<mut_job, apc, ai, acancel>>

TbfInit ==
    /\ job = [p \in Pos |-> NULL]
    /\ bst = [b \in Bucket |-> "none"]
    /\ pos = [b \in Bucket |-> 0]
    /\ token = [b \in Bucket |-> 0]
    /\ orphaned = [b \in Bucket |-> FALSE]
    /\ waiters = [b \in Bucket |-> {}]
    /\ mut_job = "free" /\ apc = "off" /\ ai = 0 /\ acancel = FALSE
    /\ win \in [b : Bucket, used : {0}, ticks : {0}]

(* The history variable: a window opens on some bucket. *)
StartWindow ==
    /\ win' \in [b : Bucket, used : {0}, ticks : {0}]
    /\ UNCHANGED <<slotvars, token, orphaned, waiters, alrmvars>>

(* ... n tokens leave bucket b (n < 0: they come back). *)
WinUse(b, n) == win' = IF b = win.b THEN [win EXCEPT !.used = @ + n] ELSE win

(* ... bucket b is refilled. *)
WinTick(b) ==
    win' = IF b # win.b THEN win
           ELSE IF win.ticks = MaxWindow THEN [b |-> b, used |-> 0, ticks |-> 0]
           ELSE [win EXCEPT !.ticks = @ + 1]

-----------------------------------------------------------------------------
(* thr_alrm *)

(* token += n, capped at burst: the refill and mytbf_returntoken alike. *)
AddTokens(t, n) == IF t + n > BURST THEN BURST ELSE t + n

(* pthread_mutex_lock(&mut_job) *)
AlrmLock ==
    /\ apc = "lock" /\ mut_job = "free"
    /\ mut_job' = "alrm" /\ apc' = "scan" /\ ai' = 0
    /\ UNCHANGED <<slotvars, levelvars, orphaned, acancel>>

(* An empty slot is passed over. *)
AlrmSkip ==
    /\ apc = "scan" /\ ai < NR_CHN /\ job[ai] = NULL
    /\ ai' = ai + 1
    /\ UNCHANGED <<slotvars, levelvars, orphaned, mut_job, apc, acancel>>

(* Mutant of AlrmRefill: pthread_cond_broadcast forgotten. *)
AlrmRefill_nobroadcast ==
    /\ apc = "scan" /\ ai < NR_CHN /\ job[ai] # NULL
    /\ LET b == job[ai] IN
         /\ ~ orphaned[b]
         /\ token' = [token EXCEPT ![b] = AddTokens(@, CPS)]
         /\ WinTick(b)
    /\ ai' = ai + 1
    /\ UNCHANGED <<slotvars, orphaned, waiters, mut_job, apc, acancel>>

(* Lock the bucket, refill it, wake its sleepers, unlock it.  An orphaned  *)
(* mutex stops the thread here, with mut_job held.                         *)
AlrmRefill ==
    /\ apc = "scan" /\ ai < NR_CHN /\ job[ai] # NULL
    /\ LET b == job[ai] IN
         /\ ~ orphaned[b]
         /\ token' = [token EXCEPT ![b] = AddTokens(@, CPS)]
         /\ waiters' = [waiters EXCEPT ![b] = {}]
         /\ WinTick(b)
    /\ ai' = ai + 1
    /\ UNCHANGED <<slotvars, orphaned, mut_job, apc, acancel>>

(* pthread_mutex_unlock(&mut_job) *)
AlrmUnlock ==
    /\ apc = "scan" /\ ai = NR_CHN
    /\ mut_job' = "free" /\ apc' = "sleep"
    /\ UNCHANGED <<slotvars, levelvars, orphaned, ai, acancel>>

(* sleep(1) ends; it is the only cancellation point of the loop. *)
AlrmWake ==
    /\ apc = "sleep"
    /\ apc' = IF acancel THEN "dead" ELSE "lock"
    /\ UNCHANGED <<slotvars, levelvars, orphaned, mut_job, ai, acancel>>

thr_alrm == AlrmLock \/ AlrmSkip \/ AlrmRefill \/ AlrmUnlock \/ AlrmWake

-----------------------------------------------------------------------------
(* The calls.  The caller adds its own state to these formulas. *)

(* module_load, by pthread_once in the first mytbf_init. *)
module_load == apc' = IF apc = "off" THEN "lock" ELSE apc

(* get_free_pos_unlocked: the free slots; the lowest is the one taken. *)
FreePos == {p \in Pos : job[p] = NULL}

(* mytbf_init that finds a free slot: a new, empty bucket. *)
mytbf_init(b) ==
    /\ bst[b] = "none" /\ mut_job = "free"
    /\ \E p \in FreePos :
         /\ \A q \in FreePos : p <= q
         /\ job' = [job EXCEPT ![p] = b]
         /\ pos' = [pos EXCEPT ![b] = p]
    /\ bst' = [bst EXCEPT ![b] = "live"]
    /\ module_load
    /\ UNCHANGED <<levelvars, orphaned, mut_job, ai, acancel>>

(* mytbf_init that finds the table full: the bucket is freed, NULL returned. *)
mytbf_init_full(b) ==
    /\ bst[b] = "none" /\ mut_job = "free"
    /\ FreePos = {}
    /\ module_load
    /\ UNCHANGED <<slotvars, levelvars, orphaned, mut_job, ai, acancel>>

(* min() *)
min(a, b) == IF a < b THEN a ELSE b

(* The loop condition of mytbf_fetchtoken. *)
NoToken(b) == token[b] <= 0

(* Mutant of mytbf_fetchtoken: the tokens granted are not taken out. *)
mytbf_fetchtoken_nosub(t, b, size, n) ==
    /\ t \notin waiters[b] /\ ~ orphaned[b]
    /\ ~ NoToken(b)
    /\ n = min(token[b], size)
    /\ WinUse(b, n)
    /\ UNCHANGED <<slotvars, token, orphaned, waiters, alrmvars>>

(* mytbf_fetchtoken by thread t with a request of size > 0: n tokens. *)
mytbf_fetchtoken(t, b, size, n) ==
    /\ t \notin waiters[b] /\ ~ orphaned[b]
    /\ ~ NoToken(b)
    /\ n = min(token[b], size)
    /\ token' = [token EXCEPT ![b] = @ - n]
    /\ WinUse(b, n)
    /\ UNCHANGED <<slotvars, orphaned, waiters, alrmvars>>

(* ... it finds no token and sleeps. *)
FetchWait(t, b) ==
    /\ t \notin waiters[b] /\ ~ orphaned[b]
    /\ NoToken(b)
    /\ waiters' = [waiters EXCEPT ![b] = @ \cup {t}]
    /\ UNCHANGED <<slotvars, token, orphaned, win, alrmvars>>

(* ... its condition wait returns spuriously. *)
FetchSpurious(t, b) ==
    /\ t \in waiters[b]
    /\ waiters' = [waiters EXCEPT ![b] = @ \ {t}]
    /\ UNCHANGED <<slotvars, token, orphaned, win, alrmvars>>

(* ... it is cancelled in its condition wait: me->mut is never unlocked. *)
FetchCancelled(t, b) ==
    /\ t \in waiters[b] /\ ~ orphaned[b]
    /\ waiters' = [waiters EXCEPT ![b] = @ \ {t}]
    /\ orphaned' = [orphaned EXCEPT ![b] = TRUE]
    /\ UNCHANGED <<slotvars, token, win, alrmvars>>

(* Mutant of mytbf_returntoken: pthread_cond_broadcast forgotten. *)
mytbf_returntoken_nobroadcast(b, size) ==
    /\ ~ orphaned[b]
    /\ token' = [token EXCEPT ![b] = AddTokens(@, size)]
    /\ WinUse(b, - size)
    /\ UNCHANGED <<slotvars, orphaned, waiters, alrmvars>>

(* mytbf_returntoken with size > 0; with size <= 0 it changes nothing. *)
mytbf_returntoken(b, size) ==
    /\ ~ orphaned[b]
    /\ token' = [token EXCEPT ![b] = AddTokens(@, size)]
    /\ waiters' = [waiters EXCEPT ![b] = {}]
    /\ WinUse(b, - size)
    /\ UNCHANGED <<slotvars, orphaned, alrmvars>>

(* Mutant of mytbf_destroy: the slot of the bucket is not cleared. *)
mytbf_destroy_noclear(b) ==
    /\ bst[b] = "live" /\ mut_job = "free"
    /\ bst' = [bst EXCEPT ![b] = "freed"]
    /\ UNCHANGED <<job, pos, levelvars, orphaned, alrmvars>>

(* mytbf_destroy: leave the table under mut_job, then free the bucket.  No *)
(* other thread reaches the bucket between the two, so they are one step.  *)
mytbf_destroy(b) ==
    /\ bst[b] = "live" /\ mut_job = "free"
    /\ job' = [job EXCEPT ![pos[b]] = NULL]
    /\ bst' = [bst EXCEPT ![b] = "freed"]
    /\ UNCHANGED <<pos, levelvars, orphaned, alrmvars>>

(* module_unload: pthread_cancel(tid) ... *)
UnloadCancel ==
    /\ acancel' = TRUE
    /\ UNCHANGED <<slotvars, levelvars, orphaned, mut_job, apc, ai>>

(* ... and, once pthread_join(tid) has returned, every bucket left is freed; *)
(* job[] keeps its pointers, but nobody is left to follow them.              *)
UnloadFree ==
    /\ apc \in {"off", "dead"} /\ mut_job = "free"
    /\ bst' = [b \in Bucket |-> IF \E p \in Pos : job[p] = b THEN "freed" ELSE bst[b]]
    /\ UNCHANGED <<job, pos, levelvars, orphaned, alrmvars>>

-----------------------------------------------------------------------------
(* Properties of the library *)

TbfTypeOK ==
    /\ job \in [Pos -> Bucket \cup {NULL}]
    /\ bst \in [Bucket -> {"none", "live", "freed"}]
    /\ pos \in [Bucket -> Pos]
    /\ token \in [Bucket -> Int]
    /\ orphaned \in [Bucket -> BOOLEAN]
    /\ mut_job \in {"free", "alrm"}
    /\ apc \in {"off", "lock", "scan", "sleep", "dead"}
    /\ ai \in 0 .. NR_CHN
    /\ acancel \in BOOLEAN
    /\ win \in [b : Bucket, used : Int, ticks : 0 .. MaxWindow]

(* (part of TbfInv) mut_job is held exactly while thr_alrm scans: the lock and unlock calls *)
(* of its loop are paired. *)
JobMutexPaired == mut_job = "alrm" <=> apc = "scan"

(* The cap of the refill and of mytbf_returntoken, and min() in mytbf_fetchtoken, *)
(* together keep every bucket between 0 and BURST. *)
TokensBounded == \A b \in Bucket : 0 <= token[b] /\ token[b] <= BURST

(* What a token bucket is for: in any window the tokens taken from a bucket, *)
(* less those returned, are at most BURST plus CPS for every refill in it -- *)
(* however fetches, returns and refills interleave. *)
RateLimited == win.used + token[win.b] <= BURST + CPS * win.ticks

(* The entries of job[] are live buckets that know their slot, so the refill *)
(* of thr_alrm never touches a freed bucket and mytbf_destroy(b) clears the *)
(* slot of b and of no other bucket, even after slots were reused.  (Once *)
(* thr_alrm is dead module_unload frees what is left, and nobody looks.) *)
TableSound ==
    apc # "dead" => \A p \in Pos : job[p] # NULL => bst[job[p]] = "live" /\ pos[job[p]] = p

(* Together these are inductive: every call of the library and every step of *)
(* thr_alrm keeps them, whatever the callers are. *)
TbfInv == TbfTypeOK /\ JobMutexPaired /\ TokensBounded /\ RateLimited /\ TableSound
=============================================================================

------------------------------ MODULE MyTbfApi ------------------------------
(***************************************************************************)
(* The token bucket library under every legal use: threads that create     *)
(* buckets, share them, fetch tokens, return the ones they do not need and *)
(* destroy buckets nobody uses.  The callers follow the pattern of the     *)
(* library's clients (mlib_getchndata): fetch, then return what is left of *)
(* the tokens fetched, never more.                                         *)
(***************************************************************************)
EXTENDS MyTbf

CONSTANTS
    Thread,     \* the calling threads
    Sizes       \* the sizes requested from mytbf_fetchtoken

ASSUME SizesAssumption == Sizes \subseteq Nat \ {0}

VARIABLES
    at,         \* the bucket each thread is using, or NULL
    held        \* the tokens it has fetched and not yet used or returned

apivars == <<tbfvars, at, held>>

ApiInit ==
    /\ TbfInit
    /\ at = [t \in Thread |-> NULL]
    /\ held = [t \in Thread |-> 0]

-----------------------------------------------------------------------------

(* A thread calls mytbf_init, which succeeds or finds the table full. *)
Create(b) ==
    /\ mytbf_init(b) \/ mytbf_init_full(b)
    /\ UNCHANGED <<at, held>>

(* A thread enters mytbf_fetchtoken with a live bucket. *)
Enter(t, b) ==
    /\ at[t] = NULL /\ bst[b] = "live"
    /\ at' = [at EXCEPT ![t] = b]
    /\ UNCHANGED <<tbfvars, held>>

(* mytbf_fetchtoken returns n tokens. *)
Fetch(t, size) ==
    /\ at[t] # NULL /\ held[t] = 0
    /\ \E n \in 1 .. BURST :
         /\ mytbf_fetchtoken(t, at[t], size, n)
         /\ held' = [held EXCEPT ![t] = n]
    /\ UNCHANGED at

(* mytbf_fetchtoken sleeps, or its sleep ends spuriously. *)
Sleep(t) ==
    /\ at[t] # NULL /\ held[t] = 0
    /\ FetchWait(t, at[t]) \/ FetchSpurious(t, at[t])
    /\ UNCHANGED <<at, held>>

(* The thread has used all its tokens. *)
UseAll(t) ==
    /\ held[t] > 0
    /\ at' = [at EXCEPT ![t] = NULL]
    /\ held' = [held EXCEPT ![t] = 0]
    /\ UNCHANGED tbfvars

(* The thread returns n of its tokens, having used the others. *)
GiveBack(t, n) ==
    /\ n \in 1 .. held[t]
    /\ mytbf_returntoken(at[t], n)
    /\ at' = [at EXCEPT ![t] = NULL]
    /\ held' = [held EXCEPT ![t] = 0]

(* A bucket nobody uses is destroyed. *)
Destroy(b) ==
    /\ \A t \in Thread : at[t] # b
    /\ mytbf_destroy(b)
    /\ UNCHANGED <<at, held>>

ApiAlarm == thr_alrm /\ UNCHANGED <<at, held>>

Window == StartWindow /\ UNCHANGED <<at, held>>

ApiNext ==
    \/ ApiAlarm
    \/ Window
    \/ \E b \in Bucket : Create(b) \/ Destroy(b)
    \/ \E t \in Thread :
         \/ \E b \in Bucket : Enter(t, b)
         \/ \E size \in Sizes : Fetch(t, size)
         \/ Sleep(t)
         \/ UseAll(t)
         \/ \E n \in 1 .. BURST : GiveBack(t, n)

ApiSpec == ApiInit /\ [][ApiNext]_apivars

-----------------------------------------------------------------------------

ApiTypeOK ==
    /\ TbfTypeOK /\ TokensBounded
    /\ waiters \in [Bucket -> SUBSET Thread]
    /\ at \in [Thread -> Bucket \cup {NULL}]
    /\ held \in [Thread -> 0 .. BURST]

(* A thread works on its bucket while that bucket is alive, and sleeps only *)
(* on the condition of the bucket it uses: mytbf_destroy never frees a mutex *)
(* or a condition variable in use. *)
UsesLive ==
    /\ \A t \in Thread : at[t] # NULL => bst[at[t]] = "live"
    /\ \A b \in Bucket : \A t \in waiters[b] : at[t] = b /\ held[t] = 0

(* Nobody sleeps beside tokens: a thread asleep in mytbf_fetchtoken has an *)
(* empty bucket, because both the refill and mytbf_returntoken broadcast. *)
NoSleepBesideTokens == \A b \in Bucket : waiters[b] # {} => token[b] = 0

(* Tokens are held only by threads that are using a bucket. *)
HeldOfBucket == \A t \in Thread : held[t] > 0 => at[t] # NULL

(* The inductive invariant of the library under all its callers. *)
ApiIInv == TbfInv /\ ApiTypeOK /\ UsesLive /\ NoSleepBesideTokens /\ HeldOfBucket
=============================================================================

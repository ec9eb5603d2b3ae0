------------------------------ MODULE NetRadio ------------------------------
(***************************************************************************)
(* The network radio server: main() of server.c with its signal handler    *)
(* daemon_exit, the thread that broadcasts the channel list (thr_list.c),  *)
(* one thread per channel (thr_channle.c) that reads the media files       *)
(* (medialib.c) at the pace of a token bucket (MyTbf), and the shutdown.   *)
(*                                                                         *)
(* Threads are numbered as in tid[]: 0 is the list thread, c the thread of *)
(* channel c, whose bucket cont_ptr[c-1].tbf is the handle c.              *)
(* A cancelled thread dies at its next cancellation point: the condition   *)
(* wait of mytbf_fetchtoken, read() and its neighbours, sendto(), sleep(). *)
(* One signal is modelled.  Linux delivers it to the main thread, which    *)
(* then blocks all three signals; a second signal would find another       *)
(* thread that does not block it and run the handler there as well.        *)
(***************************************************************************)
EXTENDS MyTbf

CONSTANTS
    LISTSIZE,   \* how many channels medialib finds
    NFILES,     \* globres.gl_pathc, the media files of a channel
    BUFSIZE     \* the largest packet, in tokens

(* What the theorems about the server assume; MCNetRadio checks it. *)
RadioAssumption ==
    /\ LISTSIZE \in 1 .. NR_CHN
    /\ Bucket = 1 .. LISTSIZE
    /\ NFILES \in Nat \ {0}
    /\ BUFSIZE \in Nat \ {0}

Channels == 1 .. LISTSIZE

VARIABLES
    mpc,        \* where the main thread is: main(), daemon_exit or exit()
    k,          \* its loop variable
    sig,        \* a SIGINT, SIGQUIT or SIGTERM was delivered
    tid,        \* the threads: "none", "failed" (to be created), "run", "dead"
    cancel,     \* pthread_cancel was called on them
    cpc,        \* where the thread of a channel is
    tsize,      \* the tokens mlib_getchndata fetched
    cur,        \* the media file a channel is reading
    paid,       \* history: tokens kept (fetched, less returned) less bytes to send
    freed       \* what has been freed: "sbuf" (of thr_list), "cont_ptr"

mainvars == <<mpc, k, sig>>
chanvars == <<cpc, tsize, cur, paid>>
vars == <<tbfvars, mainvars, tid, cancel, chanvars, freed>>

Init ==
    /\ TbfInit
    /\ mpc = "getlist" /\ k = 0 /\ sig = FALSE
    /\ tid = [t \in 0 .. LISTSIZE |-> "none"]
    /\ cancel = [t \in 0 .. LISTSIZE |-> FALSE]
    /\ cpc = [c \in Channels |-> "fetch"]
    /\ tsize = [c \in Channels |-> 0]
    /\ cur = [c \in Channels |-> 0]
    /\ paid = [c \in Channels |-> 0]
    /\ freed = {}

(* The process still runs. *)
Alive == mpc \notin {"exited", "crashed"}

-----------------------------------------------------------------------------
(* main() *)

Goto(label, n) == mpc' = label /\ k' = n /\ UNCHANGED sig

(* getchncontent of the next channel: it opens the first file and makes the *)
(* bucket. *)
MainGetChannel ==
    /\ mpc = "getlist" /\ k < LISTSIZE
    /\ mytbf_init(k + 1)
    /\ Goto("getlist", k + 1)
    /\ UNCHANGED <<tid, cancel, chanvars, freed>>

(* mlib_getchnlist fails (glob, malloc, open): exit(2). *)
MainGetlistFails ==
    /\ mpc = "getlist" /\ k < LISTSIZE
    /\ Goto("exit", 0)
    /\ UNCHANGED <<tbfvars, tid, cancel, chanvars, freed>>

(* thr_list_create succeeds, once the list is complete. *)
MainCreateList ==
    /\ mpc = "getlist" /\ k = LISTSIZE
    /\ tid' = [tid EXCEPT ![0] = "run"]
    /\ Goto("channels", 1)
    /\ UNCHANGED <<tbfvars, cancel, chanvars, freed>>

(* thr_list_create fails: exit(1). *)
MainCreateListFails ==
    /\ mpc = "getlist" /\ k = LISTSIZE
    /\ tid' = [tid EXCEPT ![0] = "failed"]
    /\ Goto("exit", 0)
    /\ UNCHANGED <<tbfvars, cancel, chanvars, freed>>

(* thr_channel_create of the next channel; main ignores its failure. *)
MainCreateChannel ==
    /\ mpc = "channels" /\ k <= LISTSIZE
    /\ tid' \in {[tid EXCEPT ![k] = s] : s \in {"run", "failed"}}
    /\ Goto("channels", k + 1)
    /\ UNCHANGED <<tbfvars, cancel, chanvars, freed>>

(* while (1) pause() *)
MainPause ==
    /\ mpc = "channels" /\ k > LISTSIZE
    /\ Goto("pause", 0)
    /\ UNCHANGED <<tbfvars, tid, cancel, chanvars, freed>>

(* A signal: the handler takes the main thread over, wherever it is. *)
Signal ==
    /\ Alive /\ ~ sig
    /\ sig' = TRUE /\ mpc' = "h_list" /\ k' = 0
    /\ UNCHANGED <<tbfvars, tid, cancel, chanvars, freed>>

-----------------------------------------------------------------------------
(* daemon_exit() and exit() *)

(* pthread_cancel(tid[t]) on a thread that was created; on to the join. *)
CancelThread(t, label) ==
    /\ tid[t] \in {"run", "dead"}
    /\ cancel' = [cancel EXCEPT ![t] = TRUE]
    /\ Goto(label, t)
    /\ UNCHANGED <<tbfvars, tid, chanvars, freed>>

(* pthread_cancel(tid[t]) where tid[t] is no thread: 0, or what a failed *)
(* pthread_create left there.  The first crashes; so may the second, or both *)
(* calls report ESRCH and the loop goes on. *)
CancelNoThread(t, label) ==
    /\ tid[t] \in {"none", "failed"}
    /\ \/ Goto("crashed", 0)
       \/ tid[t] = "failed" /\ Goto(label, t + 1)
    /\ UNCHANGED <<tbfvars, tid, cancel, chanvars, freed>>

(* thr_list_destroy *)
ExitCancelList ==
    /\ mpc = "h_list"
    /\ CancelThread(0, "h_listjoin") \/ CancelNoThread(0, "h_sbuf")

ExitJoinList ==
    /\ mpc = "h_listjoin" /\ tid[0] = "dead"
    /\ Goto("h_sbuf", 1)
    /\ UNCHANGED <<tbfvars, tid, cancel, chanvars, freed>>

ExitFreeList ==
    /\ mpc = "h_sbuf"
    /\ freed' = freed \cup {"sbuf"}
    /\ Goto("h_chan", 1)
    /\ UNCHANGED <<tbfvars, tid, cancel, chanvars>>

(* Mutant of ExitCancelChannel: thr_channel_destroy does not cancel. *)
ExitCancelChannel_nocancel ==
    /\ mpc = "h_chan" /\ k <= LISTSIZE
    /\ \/ tid[k] \in {"run", "dead"} /\ Goto("h_chanjoin", k)
          /\ UNCHANGED <<tbfvars, tid, cancel, chanvars, freed>>
       \/ CancelNoThread(k, "h_chan")

(* Mutant of ExitCancelChannel: thr_channel_destroy does not join. *)
ExitCancelChannel_nojoin ==
    /\ mpc = "h_chan" /\ k <= LISTSIZE
    /\ \/ tid[k] \in {"run", "dead"} /\ Goto("h_chan", k + 1)
          /\ cancel' = [cancel EXCEPT ![k] = TRUE]
          /\ UNCHANGED <<tbfvars, tid, chanvars, freed>>
       \/ CancelNoThread(k, "h_chan")

(* thr_channel_destroyall: cancel and join one thread after the other. *)
ExitCancelChannel ==
    /\ mpc = "h_chan" /\ k <= LISTSIZE
    /\ CancelThread(k, "h_chanjoin") \/ CancelNoThread(k, "h_chan")

ExitJoinChannel ==
    /\ mpc = "h_chanjoin" /\ tid[k] = "dead"
    /\ Goto("h_chan", k + 1)
    /\ UNCHANGED <<tbfvars, tid, cancel, chanvars, freed>>

ExitChannelsDone ==
    /\ mpc = "h_chan" /\ k > LISTSIZE
    /\ Goto("h_free", 1)
    /\ UNCHANGED <<tbfvars, tid, cancel, chanvars, freed>>

(* mlib_freechnlist: destroy the buckets ... *)
ExitDestroyBucket ==
    /\ mpc = "h_free" /\ k <= LISTSIZE
    /\ mytbf_destroy(k)
    /\ Goto("h_free", k + 1)
    /\ UNCHANGED <<tid, cancel, chanvars, freed>>

(* ... and free the channel contexts; then exit(0). *)
ExitFreeContexts ==
    /\ mpc = "h_free" /\ k > LISTSIZE
    /\ freed' = freed \cup {"cont_ptr"}
    /\ Goto("exit", 0)
    /\ UNCHANGED <<tbfvars, tid, cancel, chanvars>>

(* exit(): with module_unload registered by the first mytbf_init, and not *)
(* begun by an exit() that the signal interrupted, ... *)
ExitUnload ==
    /\ mpc = "exit" /\ apc # "off" /\ ~ acancel
    /\ UnloadCancel
    /\ Goto("unload", 0)
    /\ UNCHANGED <<tid, cancel, chanvars, freed>>

(* ... whose pthread_join waits for thr_alrm, ... *)
ExitUnloaded ==
    /\ mpc = "unload"
    /\ UnloadFree
    /\ Goto("exited", 0)
    /\ UNCHANGED <<tid, cancel, chanvars, freed>>

(* ... or with nothing left to call. *)
ExitDirectly ==
    /\ mpc = "exit" /\ (apc = "off" \/ acancel)
    /\ Goto("exited", 0)
    /\ UNCHANGED <<tbfvars, tid, cancel, chanvars, freed>>

Main ==
    \/ MainGetChannel \/ MainGetlistFails \/ MainCreateList \/ MainCreateListFails
    \/ MainCreateChannel \/ MainPause
    \/ ExitCancelList \/ ExitJoinList \/ ExitFreeList
    \/ ExitCancelChannel \/ ExitJoinChannel \/ ExitChannelsDone
    \/ ExitDestroyBucket \/ ExitFreeContexts
    \/ ExitUnload \/ ExitUnloaded \/ ExitDirectly

-----------------------------------------------------------------------------
(* The threads *)

Die(t) == tid' = [tid EXCEPT ![t] = "dead"]

(* thr_list: sendto() of the list fails, or the thread is cancelled.  (A *)
(* successful sendto() and the sleep change nothing.) *)
ListEnds ==
    /\ Alive /\ tid[0] = "run"
    /\ Die(0)
    /\ UNCHANGED <<tbfvars, mainvars, cancel, chanvars, freed>>

(* The thread of channel c runs and is at the given place. *)
Running(c, place) == Alive /\ tid[c] = "run" /\ cpc[c] = place

(* mlib_getchndata: mytbf_fetchtoken returns tokens. *)
ChannelFetch(c) ==
    /\ Running(c, "fetch")
    /\ \E n \in 1 .. BUFSIZE :
         /\ mytbf_fetchtoken(c, c, BUFSIZE, n)
         /\ tsize' = [tsize EXCEPT ![c] = n]
         /\ paid' = [paid EXCEPT ![c] = @ + n]
    /\ cpc' = [cpc EXCEPT ![c] = "read"]
    /\ UNCHANGED <<mainvars, tid, cancel, cur, freed>>

(* ... it sleeps. *)
ChannelWait(c) ==
    /\ Running(c, "fetch")
    /\ FetchWait(c, c)
    /\ UNCHANGED <<mainvars, tid, cancel, chanvars, freed>>

(* ... it wakes up for no reason. *)
ChannelSpurious(c) ==
    /\ Running(c, "fetch")
    /\ FetchSpurious(c, c)
    /\ UNCHANGED <<mainvars, tid, cancel, chanvars, freed>>

(* ... it is cancelled in the condition wait. *)
ChannelCancelledAsleep(c) ==
    /\ Running(c, "fetch") /\ cancel[c]
    /\ FetchCancelled(c, c)
    /\ Die(c)
    /\ UNCHANGED <<mainvars, cancel, chanvars, freed>>

(* Mutant of ChannelRead: all the tokens are returned. *)
ChannelRead_returnall(c, len) ==
    /\ Running(c, "read") /\ ~ cancel[c]
    /\ len \in 1 .. tsize[c]
    /\ mytbf_returntoken(c, tsize[c])
    /\ paid' = [paid EXCEPT ![c] = @ - tsize[c] - len]
    /\ cpc' = [cpc EXCEPT ![c] = "send"]
    /\ tsize' = [tsize EXCEPT ![c] = 0]
    /\ UNCHANGED <<mainvars, tid, cancel, cur, freed>>

(* read() returns len bytes: the tokens too many go back (mytbf_returntoken *)
(* refuses to return 0). *)
ChannelRead(c, len) ==
    /\ Running(c, "read") /\ ~ cancel[c]
    /\ len \in 1 .. tsize[c]
    /\ IF tsize[c] - len > 0 THEN mytbf_returntoken(c, tsize[c] - len)
                             ELSE UNCHANGED tbfvars
    /\ paid' = [paid EXCEPT ![c] = @ - (tsize[c] - len) - len]
    /\ cpc' = [cpc EXCEPT ![c] = "send"]
    /\ tsize' = [tsize EXCEPT ![c] = 0]
    /\ UNCHANGED <<mainvars, tid, cancel, cur, freed>>

(* Mutant of NextFile: no wrap at the last file. *)
NextFile_nowrap(n) == n + 1

(* cur++, back to 0 after the last file. *)
NextFile(n) == IF n + 1 = NFILES THEN 0 ELSE n + 1

(* read() returns 0: go on with the next file. *)
ChannelEof(c) ==
    /\ Running(c, "read") /\ ~ cancel[c]
    /\ cur' = [cur EXCEPT ![c] = NextFile(@)]
    /\ UNCHANGED <<tbfvars, mainvars, tid, cancel, cpc, tsize, paid, freed>>

(* sendto() succeeds. *)
ChannelSend(c) ==
    /\ Running(c, "send") /\ ~ cancel[c]
    /\ cpc' = [cpc EXCEPT ![c] = "fetch"]
    /\ UNCHANGED <<tbfvars, mainvars, tid, cancel, tsize, cur, paid, freed>>

(* read(), open() or sendto() fails, or the thread is cancelled there. *)
ChannelEnds(c) ==
    /\ Running(c, "read") \/ Running(c, "send")
    /\ Die(c)
    /\ UNCHANGED <<tbfvars, mainvars, cancel, chanvars, freed>>

Channel(c) ==
    \/ ChannelFetch(c) \/ ChannelWait(c) \/ ChannelCancelledAsleep(c)
    \/ \E len \in 1 .. BUFSIZE : ChannelRead(c, len)
    \/ ChannelEof(c) \/ ChannelSend(c) \/ ChannelEnds(c)

Alarm == Alive /\ thr_alrm /\ UNCHANGED <<mainvars, tid, cancel, chanvars, freed>>

Over == ~ Alive /\ UNCHANGED vars

Next == \/ Main \/ Signal \/ ListEnds \/ Alarm \/ Over
        \/ \E c \in Channels : Channel(c) \/ ChannelSpurious(c)

(* The scheduler runs every thread that can run, sleep(1) ends, and a      *)
(* cancelled thread that can die does.  Signals, failing system calls and  *)
(* spurious wakeups need never happen.  Fairness is strong for the main    *)
(* thread because it waits for mut_job, which thr_alrm takes again and     *)
(* again: thr_alrm sleeps for a second each time it has released it.       *)
Fairness ==
    /\ SF_vars(Main)
    /\ WF_vars(Alarm)
    /\ WF_vars(cancel[0] /\ ListEnds)
    /\ \A c \in Channels : WF_vars(Channel(c))

Spec == Init /\ [][Next]_vars /\ Fairness

-----------------------------------------------------------------------------
(* Properties *)

TypeOK ==
    /\ TbfTypeOK /\ TokensBounded
    /\ waiters \in [Bucket -> SUBSET Channels]
    /\ mpc \in {"getlist", "channels", "pause", "h_list", "h_listjoin", "h_sbuf", "h_chan",
                "h_chanjoin", "h_free", "exit", "unload", "exited", "crashed"}
    /\ k \in 0 .. LISTSIZE + 1
    /\ sig \in BOOLEAN
    /\ tid \in [0 .. LISTSIZE -> {"none", "failed", "run", "dead"}]
    /\ cancel \in [0 .. LISTSIZE -> BOOLEAN]
    /\ cpc \in [Channels -> {"fetch", "read", "send"}]
    /\ tsize \in [Channels -> 0 .. BUFSIZE]
    /\ cur \in [Channels -> 0 .. NFILES - 1]
    /\ paid \in [Channels -> Int]
    /\ freed \subseteq {"sbuf", "cont_ptr"}

(* The order of daemon_exit (cancel, join, then free): the list, the channel *)
(* contexts and the buckets are freed only when no thread can use them any more. *)
FreedAfterUse ==
    /\ "sbuf" \in freed => tid[0] # "run"
    /\ "cont_ptr" \in freed => \A c \in Channels : tid[c] # "run"
    /\ \A c \in Channels : tid[c] = "run" => bst[c] = "live"

(* A channel never broadcasts a byte it has not paid for with a token it *)
(* kept (mlib_getchndata fetches first and returns only what it did not use). *)
BytesPaidFor == \A c \in Channels : paid[c] >= 0

(* A channel has paid exactly for the packet it is reading, and for nothing *)
(* at any other time. *)
PaidExact == \A c \in Channels : paid[c] = IF cpc[c] = "read" THEN tsize[c] ELSE 0

(* What main and daemon_exit have achieved when they reach a place: the *)
(* buckets made, the threads joined (the first m channels, or all). *)
Joined(m) == \A c \in Channels : c <= m => tid[c] # "run"
Phases ==
    /\ mpc = "getlist" =>
         /\ k <= LISTSIZE /\ freed = {} /\ \A t \in 0 .. LISTSIZE : tid[t] = "none"
         /\ \A c \in Channels : c <= k => bst[c] = "live"
    /\ mpc = "channels" => k >= 1 /\ freed = {} /\ \A c \in Channels : bst[c] = "live"
    /\ mpc = "h_sbuf" => tid[0] # "run"
    /\ mpc = "h_chan" => k >= 1 /\ Joined(k - 1)
    /\ mpc = "h_chanjoin" => k \in Channels /\ Joined(k - 1)
    /\ mpc = "h_free" => k >= 1
    /\ mpc \in {"h_free", "exit", "unload"} => Joined(LISTSIZE)
    /\ mpc = "unload" => apc # "off"

(* The inductive invariant of the server. *)
RadioInv == TbfInv /\ TypeOK /\ FreedAfterUse /\ PaidExact /\ Phases

(* A running channel that asks for tokens gets some, unless the server is *)
(* being shut down: thr_alrm always comes round to its bucket. *)
ChannelServed ==
    \A c \in Channels :
        Running(c, "fetch") /\ ~ sig ~> cpc[c] = "read" \/ sig

(* After a signal daemon_exit ends the process, unless a channel thread was *)
(* cancelled asleep in mytbf_fetchtoken and left its bucket locked: then *)
(* thr_alrm can stop at that bucket, holding mut_job, and mytbf_destroy waits *)
(* for mut_job for ever.  This is the only way in which the shutdown can hang. *)
ShutdownEnds == sig ~> (~ Alive \/ \E b \in Bucket : orphaned[b])
=============================================================================

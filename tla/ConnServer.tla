------------------------------ MODULE ConnServer ------------------------------
(***************************************************************************)
(* The server of 3.ybx/4.hplsp/11.timer/11-2.lst_timer/                    *)
(* 11-3.nonactive_conn.cpp, which closes connections that were silent for  *)
(* three time slots: an edge-triggered epoll loop over the listening       *)
(* socket, a pipe that SIGALRM and SIGINT write to, and the connections,   *)
(* each of which has a timer in the sorted list.                           *)
(*                                                                         *)
(* One step handles one event of a batch.  Clients and SIGINT act between  *)
(* any two of them.  An event brings one recv of at most BUFFER_SIZE-1     *)
(* bytes, a chunk: what is behind it stays until the next event.           *)
(***************************************************************************)
EXTENDS SortTimerList, Sequences, FiniteSets

CONSTANTS
    Fd,        \* descriptors of connections, small integers
    LISTEN, PIPE,
    TIMESLOT,
    MaxInt,    \* bound: SIGINTs that wait in the pipe
    MaxBacklog,\* bound: connections that wait to be accepted
    MaxUnread, \* bound: chunks that wait to be read from a connection
    MaxAhead   \* bound: events that arrive while a batch is handled

ASSUME ServerAssumption ==
    /\ TIMESLOT \in Nat \ {0} /\ MaxUnread \in Nat \ {0} /\ NULL \notin Timer
    /\ Fd \subseteq Nat /\ IsFiniteSet(Fd)
    /\ \A used \in SUBSET Timer : Cardinality(used) < Cardinality(Fd) => used # Timer
    /\ LISTEN \notin Fd \cup {PIPE} /\ PIPE \notin Fd

VARIABLES
    expire, mem, owner,\* seconds until each timer expires, those allocated, user_data
    user,              \* users[fd].timer; NULL once it points to a deleted one
    open,              \* connections the server has open
    inbox, eof,        \* chunks to read of each connection; the client ended it
    backlog,           \* connections to accept
    alrm, ints,        \* SIGALRM and SIGINT bytes in the pipe
    ready,             \* epoll's ready list, in order of arrival
    batch, i,          \* events[] and the loop index, from 0
    srv,               \* wait, loop, stopped, dead, no_fd, or sigpipe
    timeout, stop_server,
    alarm,             \* seconds until SIGALRM, 0 when it is not armed
    replay             \* history: the index was set back before the pipe's

timers == <<listVars, expire, mem, owner, user>>
conns == <<open, inbox, eof, backlog>>
loop == <<batch, i, srv, timeout, stop_server, replay>>
signals == <<alrm, ints, alarm>>
servervars == <<timers, conns, loop, signals, ready>>

ServerInit ==
    /\ ListInit /\ expire = [t \in Timer |-> 0] /\ mem = {}
    /\ owner = [t \in Timer |-> NULL] /\ user = [f \in Fd |-> NULL]
    /\ open = {} /\ inbox = [f \in Fd |-> 0] /\ eof = {} /\ backlog = 0
    /\ alrm = 0 /\ ints = 0 /\ alarm = TIMESLOT
    /\ ready = <<>> /\ batch = <<>> /\ i = 0 /\ srv = "wait"
    /\ timeout = FALSE /\ stop_server = FALSE /\ replay = FALSE

Alive == srv \in {"wait", "loop"}

InReady(x) == \E k \in 1..Len(ready) : ready[k] = x

(* Something new to read at source x. *)
Edge(x) == ready' = IF InReady(x) THEN ready ELSE Append(ready, x)
-----------------------------------------------------------------------------
(* The world. *)

WorldActs == Alive /\ (srv = "loop" => Len(ready) < MaxAhead)

Connect ==
    /\ WorldActs /\ backlog < MaxBacklog
    /\ backlog' = backlog + 1
    /\ Edge(LISTEN)
    /\ UNCHANGED <<timers, open, inbox, eof, loop, signals>>

ClientSends(f) ==
    /\ WorldActs /\ f \in open \ eof
    /\ \E n \in 1..MaxUnread : n >= inbox[f] /\ inbox' = [inbox EXCEPT ![f] = n]
    /\ Edge(f)
    /\ UNCHANGED <<timers, open, eof, backlog, loop, signals>>

(* FIN, or RST from a client that was killed, or RST that answers the echo *)
(* to one that has closed.  What it sent before is still there to read.    *)
ClientEnds(f) ==
    /\ WorldActs /\ f \in open
    /\ eof' = eof \cup {f}
    /\ Edge(f)
    /\ UNCHANGED <<timers, open, inbox, backlog, loop, signals>>

Interrupt ==
    /\ WorldActs /\ ints < MaxInt /\ ~stop_server
    /\ ints' = ints + 1
    /\ Edge(PIPE)
    /\ UNCHANGED <<timers, conns, loop, alrm, alarm>>

(* A second passes; a batch is handled within one.  How long ago a timer   *)
(* expired makes no difference.                                            *)
Clock ==
    /\ srv = "wait"
    /\ expire' = [t \in Timer |-> IF expire[t] > 0 THEN expire[t] - 1 ELSE 0]
    /\ alarm' = IF alarm > 0 THEN alarm - 1 ELSE 0
    /\ IF alarm = 1 THEN alrm' = alrm + 1 /\ Edge(PIPE) ELSE UNCHANGED <<alrm, ready>>
    /\ UNCHANGED <<listVars, mem, owner, user, conns, loop, ints>>
-----------------------------------------------------------------------------
(* The server. *)

Wait ==
    /\ srv = "wait" /\ ready # <<>>
    /\ batch' = ready /\ ready' = <<>> /\ i' = 0 /\ srv' = "loop" /\ replay' = FALSE
    /\ UNCHANGED <<timers, conns, signals, timeout, stop_server>>

At(x) == srv = "loop" /\ i < Len(batch) /\ batch[i + 1] = x

GoOn == i' = i + 1 /\ UNCHANGED <<batch, srv, timeout, stop_server, replay>>

(* exit(1), memory that is not there, or a signal: what it still had to do *)
(* is lost.                                                                *)
Die(how) ==
    /\ srv' = how
    /\ batch' = <<>> /\ ready' = <<>> /\ i' = 0
    /\ inbox' = [f \in Fd |-> 0] /\ eof' = {}
    /\ UNCHANGED <<timers, open, backlog, signals, timeout, stop_server, replay>>

AcceptConn ==
    /\ At(LISTEN) /\ backlog > 0 /\ open # Fd
    /\ LET f == CHOOSE f \in Fd \ open : \A g \in Fd \ open : f <= g
           t == CHOOSE t \in Timer : t \notin mem  \* free cells are alike
       IN  /\ open' = open \cup {f} /\ backlog' = backlog - 1
           /\ user' = [user EXCEPT ![f] = t] /\ owner' = [owner EXCEPT ![t] = f]
           /\ mem' = mem \cup {t} /\ expire' = [expire EXCEPT ![t] = 3 * TIMESLOT]
           /\ add_timer(t, expire')
    /\ GoOn
    /\ UNCHANGED <<inbox, eof, signals, ready>>

(* accept returns -1, which becomes an index of users: nobody waits, or no *)
(* descriptor is left.                                                     *)
AcceptNothing == At(LISTEN) /\ backlog = 0 /\ Die("dead")
AcceptFails == At(LISTEN) /\ backlog > 0 /\ open = Fd /\ Die("no_fd")

(* cb_func: close takes the descriptors out of epoll.  at gives the places *)
(* in ready of those that stay, in their order.                            *)
CloseConns(fs) ==
    /\ open' = open \ fs /\ eof' = eof \ fs
    /\ inbox' = [f \in Fd |-> IF f \in fs THEN 0 ELSE inbox[f]]
    /\ \E n \in 0..Len(ready) : \E at \in [1..n -> 1..Len(ready)] :
         /\ \A j, k \in 1..n : j < k => at[j] < at[k]
         /\ {at[k] : k \in 1..n} = {k \in 1..Len(ready) : ready[k] \notin fs}
         /\ ready' = [k \in 1..n |-> ready[at[k]]]
    /\ UNCHANGED backlog

Forget(ts) ==
    /\ mem' = mem \ ts
    /\ owner' = [t \in Timer |-> IF t \in ts THEN NULL ELSE owner[t]]
    /\ user' = [f \in Fd |-> IF user[f] \in ts THEN NULL ELSE user[f]]

(* mutant: only the first signal of what was read is looked at *)
ReadPipe_first ==
    /\ At(PIPE) /\ alrm + ints > 0
    /\ timeout' = (timeout \/ alrm > 0)
    /\ stop_server' = (stop_server \/ alrm = 0)
    /\ i' = alrm + ints + 1
    /\ replay' = (replay \/ i' <= i)
    /\ alrm' = 0 /\ ints' = 0
    /\ UNCHANGED <<timers, conns, alarm, ready, batch, srv>>

(* mutant: timer_handler runs as soon as SIGALRM is read *)
ReadPipe_ticks ==
    /\ At(PIPE) /\ alrm + ints > 0
    /\ stop_server' = (stop_server \/ ints > 0)
    /\ i' = alrm + ints + 1
    /\ replay' = (replay \/ i' <= i)
    /\ alrm' = 0 /\ ints' = 0
    /\ IF alrm > 0
         THEN LET gone == Listed \ From(AfterDue(expire))
              IN  /\ tick(expire)
                  /\ CloseConns({owner[t] : t \in gone})
                  /\ Forget(gone)
                  /\ alarm' = TIMESLOT
         ELSE UNCHANGED <<listVars, mem, owner, user, conns, ready, alarm>>
    /\ UNCHANGED <<expire, timeout, batch, srv>>

(* The loop over the signals uses the index of the loop over the events:   *)
(* it goes on behind the number of signals, wherever the pipe was.         *)
ReadPipe ==
    /\ At(PIPE) /\ alrm + ints > 0
    /\ timeout' = (timeout \/ alrm > 0)
    /\ stop_server' = (stop_server \/ ints > 0)
    /\ i' = alrm + ints + 1
    /\ replay' = (replay \/ i' <= i)
    /\ alrm' = 0 /\ ints' = 0
    /\ UNCHANGED <<timers, conns, alarm, ready, batch, srv>>

(* recv returns -1: EAGAIN. *)
ReadPipeAgain == At(PIPE) /\ alrm + ints = 0 /\ Die("dead")

(* One chunk is read and echoed.  send may fail, of which the code sees    *)
(* nothing.                                                                *)
ReadData(f) ==
    /\ At(f) /\ f \in open /\ inbox[f] > 0
    /\ inbox' = [inbox EXCEPT ![f] = @ - 1]
    /\ expire' = [expire EXCEPT ![user[f]] = 3 * TIMESLOT]
    /\ adjust_timer(user[f], expire')
    /\ GoOn
    /\ UNCHANGED <<mem, owner, user, open, eof, backlog, signals, ready>>

(* Or the client's RST is there, and send raises SIGPIPE, which has no     *)
(* handler.                                                                *)
SendKills(f) == At(f) /\ f \in open \cap eof /\ inbox[f] > 0 /\ Die("sigpipe")

(* mutant: the connection is closed, its timer stays in the list *)
ReadEof_keeptimer(f) ==
    /\ At(f) /\ f \in open \cap eof /\ inbox[f] = 0
    /\ CloseConns({f})
    /\ GoOn
    /\ UNCHANGED <<timers, signals>>

(* recv returns 0, or -1 after a RST: either way the connection is closed. *)
ReadEof(f) ==
    /\ At(f) /\ f \in open \cap eof /\ inbox[f] = 0
    /\ CloseConns({f})
    /\ del_timer(user[f]) /\ Forget({user[f]})
    /\ expire' = [expire EXCEPT ![user[f]] = 0]
    /\ GoOn
    /\ UNCHANGED signals

(* recv returns -1: EAGAIN. *)
ReadNothing(f) ==
    /\ At(f) /\ f \in open \ eof /\ inbox[f] = 0
    /\ GoOn
    /\ UNCHANGED <<timers, conns, signals, ready>>

(* recv returns -1, EBADF: the timer that was deleted is deleted again. *)
ReadClosed(f) == At(f) /\ f \notin open /\ Die("dead")

(* mutant: alarm is not set again *)
BatchEnd_noalarm ==
    /\ srv = "loop" /\ i >= Len(batch)
    /\ srv' = IF stop_server THEN "stopped" ELSE "wait"
    /\ batch' = <<>> /\ i' = 0 /\ timeout' = FALSE
    /\ IF timeout
         THEN LET gone == Listed \ From(AfterDue(expire))
              IN  tick(expire) /\ CloseConns({owner[t] : t \in gone}) /\ Forget(gone)
         ELSE UNCHANGED <<listVars, mem, owner, user, conns, ready>>
    /\ UNCHANGED <<expire, signals, stop_server, replay>>

(* The end of a batch: timer_handler if it is time. *)
BatchEnd ==
    /\ srv = "loop" /\ i >= Len(batch)
    /\ srv' = IF stop_server THEN "stopped" ELSE "wait"
    /\ batch' = <<>> /\ i' = 0 /\ timeout' = FALSE
    /\ IF timeout
         THEN LET gone == Listed \ From(AfterDue(expire))
              IN  /\ tick(expire)
                  /\ CloseConns({owner[t] : t \in gone})
                  /\ Forget(gone)
                  /\ alarm' = TIMESLOT
         ELSE UNCHANGED <<listVars, mem, owner, user, conns, ready, alarm>>
    /\ UNCHANGED <<expire, alrm, ints, stop_server, replay>>

ReadConn(f) ==
    ReadData(f) \/ SendKills(f) \/ ReadEof(f) \/ ReadNothing(f) \/ ReadClosed(f)

Server ==
    \/ Wait \/ AcceptConn \/ AcceptNothing \/ AcceptFails
    \/ ReadPipe \/ ReadPipeAgain \/ BatchEnd
    \/ \E f \in Fd : ReadConn(f)

World ==
    Connect \/ Interrupt \/ Clock \/ \E f \in Fd : ClientSends(f) \/ ClientEnds(f)

ServerNext == Server \/ World

(* The server is scheduled, and time passes however busy it is; nobody has *)
(* to connect, send, close or interrupt.                                   *)
ServerSpec ==
    /\ ServerInit /\ [][ServerNext]_servervars
    /\ WF_servervars(Server) /\ SF_servervars(Clock)
-----------------------------------------------------------------------------
(* Every open connection has one timer, allocated and in the list, the     *)
(* list has no other, and it is in ascending order: no path of the loop    *)
(* closes a connection without its timer or a timer without its            *)
(* connection.                                                             *)
TimersMatch ==
    /\ ListSound(expire)
    /\ Listed = mem
    /\ \A f \in open : user[f] \in mem /\ owner[user[f]] = f
    /\ \A t \in mem : owner[t] \in open /\ user[owner[t]] = t

(* The server calls exit or touches freed memory only if the pipe's event  *)
(* came so late in a batch that the shared index fell back before it.  Two *)
(* ends are others, with srv of their own: no descriptor was left, and     *)
(* SIGPIPE.                                                                *)
DiesOnlyOnReplay == srv = "dead" => replay

(* Events of the batch that the loop has not come to yet.                  *)
Pending(x) == srv = "loop" /\ \E k \in (i + 1)..Len(batch) : batch[k] = x

EventTypeOK ==
    /\ ready \in Seq(Fd \cup {LISTEN, PIPE}) /\ batch \in Seq(Fd \cup {LISTEN, PIPE})
    /\ \A j, k \in 1..Len(ready) : ready[j] = ready[k] => j = k
    /\ \A j, k \in 1..Len(batch) : batch[j] = batch[k] => j = k
    /\ i \in Nat /\ backlog \in Nat /\ alrm \in Nat /\ ints \in Nat
    /\ stop_server \in BOOLEAN /\ replay \in BOOLEAN
    /\ srv \in {"wait", "loop", "stopped", "dead", "no_fd", "sigpipe"}

(* Unless the index fell back, every event announced has something behind  *)
(* it.  A signal that comes while the pipe's event waits in the batch is   *)
(* read with it, and leaves an event with nothing to read; but it is a     *)
(* SIGINT, and there is no other batch.                                    *)
EventsFounded ==
    ~replay =>
      /\ \A f \in Fd : InReady(f) \/ Pending(f) => f \in open
      /\ InReady(LISTEN) \/ Pending(LISTEN) => backlog > 0
      /\ InReady(LISTEN) /\ Pending(LISTEN) => backlog > 1
      /\ Pending(PIPE) => alrm + ints > 0
      /\ InReady(PIPE) => IF srv = "wait" THEN alrm + ints > 0 ELSE ints > 0 \/ stop_server

(* Once it fell back, the loop comes to the pipe again: the server dies    *)
(* there or has been told to stop.                                         *)
ReplayIsLast ==
    /\ srv = "wait" => ~replay
    /\ srv = "loop" /\ replay => alrm = 0 /\ (stop_server \/ Pending(PIPE))

(* The inductive invariant of the event loop.                              *)
EventInv == EventTypeOK /\ EventsFounded /\ ReplayIsLast /\ DiesOnlyOnReplay

(* A connection that stays silent is closed: it is closed or heard of      *)
(* again and again, unless the server ends.                                *)
SilentClosed ==
    \A f \in Fd : []<>(f \notin open \/ expire[user[f]] = 3 * TIMESLOT \/ ~Alive)

(* SIGINT ends the server, stopped or dead one way or another.             *)
StopsOnInt == (ints > 0) ~> ~Alive
=============================================================================

---------------------------- MODULE SocketProofs ----------------------------
(***************************************************************************)
(* The two programs that wait for what a socket brings.  The listener of   *)
(* the radio plays one channel, which the user asked for: for every number *)
(* of channels, every width of char and every length of the socket.  The   *)
(* server for silent connections comes to an event with nothing behind it  *)
(* only once its loop index fell back: for every number of connections and *)
(* signals and however many events arrive while a batch is handled.        *)
(***************************************************************************)
EXTENDS RadioClient, ConnServer, TLAPS

-----------------------------------------------------------------------------
(* The listener of the radio *)

(* The conversion of a chnid to a signed char stays in the range of the type. *)
LEMMA AsCharRange ==
    ASSUME NEW n \in Nat
    PROVE  AsChar(n) \in - CHAR_MAX - 1 .. CHAR_MAX
  <1>1. CHAR_MAX \in Nat /\ CHAR_MOD \in Nat \ {0} /\ CHAR_MOD = 2 * (CHAR_MAX + 1)
    BY ClientAssumption DEF CHAR_MOD
  <1>2. n % CHAR_MOD \in 0 .. CHAR_MOD - 1
    BY <1>1
  <1> QED
    BY <1>1, <1>2 DEF AsChar

(* A line appended to a history of lines leaves the earlier ones findable. *)
LEMMA StillTyped ==
    ASSUME NEW S, NEW s \in Seq(S), NEW x \in S, NEW y,
           \E n \in 1 .. Len(s) : s[n] = y
    PROVE  \E n \in 1 .. Len(Append(s, x)) : Append(s, x)[n] = y
  <1>1. PICK n \in 1 .. Len(s) : s[n] = y
    OBVIOUS
  <1>2. n \in 1 .. Len(Append(s, x)) /\ Append(s, x)[n] = y
    BY <1>1
  <1> QED
    BY <1>2

(* The initial state satisfies the invariant. *)
LEMMA InitIInv == Init => IInv
  <1> SUFFICES ASSUME Init PROVE IInv
    OBVIOUS
  <1> QED
    BY ClientAssumption DEF Init, IInv, TypeOK, StdinTyped, ChannelTyped, CHNID_LIST

(* Every step of the server, the client and the user preserves it. *)
LEMMA StepIInv == IInv /\ [Next]_vars => IInv'
  <1> SUFFICES ASSUME IInv, [Next]_vars PROVE IInv'
    OBVIOUS
  <1> USE ClientAssumption DEF IInv
  <1>1. ASSUME NEW id \in CHNID_LIST .. MAXCHNID, Send(id)
        PROVE  IInv'
    <2>1. sock' \in Seq(CHNID_LIST .. MAXCHNID) /\ Len(sock') <= SockBuf
      <3>1. sock \in Seq(CHNID_LIST .. MAXCHNID) /\ Len(sock) <= SockBuf /\ Len(sock) \in Nat
        BY DEF TypeOK
      <3>2. CASE Len(sock) < SockBuf
        <4>1. sock' = Append(sock, id)
          BY <1>1, <3>2 DEF Send
        <4> QED
          BY <3>1, <3>2, <4>1
      <3>3. CASE ~ (Len(sock) < SockBuf)
        BY <1>1, <3>1, <3>3 DEF Send
      <3> QED
        BY <3>2, <3>3
    <2>2. TypeOK'
      BY <1>1, <2>1 DEF Send, TypeOK, uservars, plvars, Channels
    <2> QED
      BY <1>1, <2>2 DEF Send, StdinTyped, ChannelTyped, uservars, plvars
  <1>2. CASE thr_list
    BY <1>1, <1>2 DEF thr_list, CHNID_LIST, MAXCHNID, MINCHNID
  <1>3. ASSUME NEW c \in MINCHNID .. MAXCHNID, thr_channel(c)
        PROVE  IInv'
    BY <1>1, <1>3 DEF thr_channel, CHNID_LIST, MAXCHNID, MINCHNID
  <1>4. CASE ShowList
    <2>1. \A n \in Channels : AsChar(n) \in - CHAR_MAX - 1 .. CHAR_MAX
      BY AsCharRange DEF Channels, MINCHNID
    <2>2. shown' \in [Channels' -> - CHAR_MAX - 1 .. CHAR_MAX]
      BY <1>4, <2>1 DEF ShowList, Channels
    <2> QED
      BY <1>4, <2>2 DEF ShowList, Recv, TypeOK, StdinTyped, ChannelTyped, uservars, plvars,
                       CHNID_LIST
  <1>5. ASSUME NEW id \in 0 .. MAXCHNID, Ignore(id)
        PROVE  IInv'
    BY <1>5 DEF Ignore, Recv, TypeOK, StdinTyped, ChannelTyped, uservars, plvars, Channels
  <1>6. ASSUME NEW id \in 0 .. MAXCHNID, Play(id)
        PROVE  IInv'
    BY <1>6 DEF Play, Recv, TypeOK, StdinTyped, ChannelTyped, uservars, plvars, Channels,
                CHNID_LIST, MINCHNID
  <1>7. CASE Choose
    <2>1. stdin # <<>> /\ stdin \in Seq(Lines) /\ stdin[1] \in Lines /\ stdin[1] # JUNK
      BY <1>7 DEF Choose, TypeOK
    <2>2. /\ stdin' = Tail(stdin) /\ current_channel' = stdin[1] /\ cpc' = "recv"
          /\ UNCHANGED <<listsize, sock, shown, typed, player, played>>
      BY <1>7 DEF Choose, plvars
    <2>3. /\ stdin' \in Seq(Lines) /\ Len(stdin') = Len(stdin) - 1
          /\ \A j \in 1 .. Len(stdin') : stdin'[j] = stdin[j + 1] /\ j + 1 \in 1 .. Len(stdin)
          /\ 1 \in 1 .. Len(stdin)
      BY <2>1, <2>2
    <2>4. current_channel' \in Int
      BY <2>1, <2>2 DEF Lines
    <2>5. TypeOK'
      BY <2>2, <2>3, <2>4 DEF TypeOK, Channels
    <2>6. StdinTyped'
      BY <2>2, <2>3 DEF StdinTyped
    <2>7. ChannelTyped'
      BY <1>7, <2>2, <2>3 DEF Choose, StdinTyped, ChannelTyped
    <2> QED
      BY <2>5, <2>6, <2>7
  <1>8. CASE ChooseFails
    BY <1>8 DEF ChooseFails, TypeOK, StdinTyped, ChannelTyped, uservars, plvars, Channels
  <1>9. ASSUME NEW line \in Lines, Type(line)
        PROVE  IInv'
    <2>1. typed \in Seq(Lines) /\ stdin \in Seq(Lines)
      BY DEF TypeOK
    <2>2. TypeOK'
      BY <1>9, <2>1 DEF Type, TypeOK, plvars, Channels
    <2>3. \A y : (\E n \in 1 .. Len(typed) : typed[n] = y)
                 => (\E n \in 1 .. Len(typed') : typed'[n] = y)
      BY <1>9, <2>1, StillTyped DEF Type
    <2>4. StdinTyped'
      <3>1. ASSUME NEW j \in 1 .. Len(stdin')
            PROVE  \E n \in 1 .. Len(typed') : typed'[n] = stdin'[j]
        <4>1. CASE j <= Len(stdin)
          BY <1>9, <2>1, <2>3, <4>1 DEF Type, StdinTyped
        <4>2. CASE j > Len(stdin)
          <5>1. stdin'[j] = line
            BY <1>9, <2>1, <4>2 DEF Type
          <5>2. Len(typed') \in 1 .. Len(typed') /\ typed'[Len(typed')] = line
            BY <1>9, <2>1 DEF Type
          <5> QED
            BY <5>1, <5>2
        <4> QED
          BY <4>1, <4>2, <2>1 DEF Type
      <3> QED
        BY <3>1 DEF StdinTyped
    <2>5. ChannelTyped'
      BY <1>9, <2>3 DEF Type, ChannelTyped, plvars
    <2> QED
      BY <2>2, <2>4, <2>5
  <1>10. CASE Written
    BY <1>10 DEF Written, TypeOK, StdinTyped, ChannelTyped, uservars, Channels, CHNID_LIST, MINCHNID
  <1>11. CASE WriteKilled \/ RecvFails
    BY <1>11 DEF WriteKilled, RecvFails, TypeOK, StdinTyped, ChannelTyped, uservars, plvars, Channels
  <1>12. CASE PlayerChanges
    BY <1>12 DEF PlayerChanges, TypeOK, StdinTyped, ChannelTyped, uservars, Channels
  <1>13. CASE UNCHANGED vars
    BY <1>13 DEF vars, uservars, plvars, TypeOK, StdinTyped, ChannelTyped, Channels
  <1> QED
    BY <1>2, <1>3, <1>4, <1>5, <1>6, <1>7, <1>8, <1>9, <1>10, <1>11, <1>12, <1>13 DEF Next, Client

(* The inductive invariant holds in every reachable state of the listener. *)
THEOREM ClientInv == Spec => []IInv
  BY InitIInv, StepIInv, PTL DEF Spec

(* Everything deal_data writes to the player comes from one channel, whose *)
(* number the user typed: for every number of channels. *)
THEOREM OneChannelPlayed == Spec => []PlaysOneTyped
  <1>1. IInv => PlaysOneTyped
    BY DEF IInv, ChannelTyped, PlaysOneTyped
  <1> QED
    BY <1>1, ClientInv, PTL

-----------------------------------------------------------------------------
(* The server for silent connections *)

(* What the world does to epoll's ready list: x is in it, and nothing else *)
(* is new. *)
LEMMA EdgeLemma ==
  ASSUME EventTypeOK, NEW x \in Fd \cup {LISTEN, PIPE}, Edge(x)
  PROVE  /\ ready' \in Seq(Fd \cup {LISTEN, PIPE})
         /\ \A j, m \in 1..Len(ready') : ready'[j] = ready'[m] => j = m
         /\ \A y : InReady(y)' <=> InReady(y) \/ y = x
<1>1. ready \in Seq(Fd \cup {LISTEN, PIPE}) /\ Len(ready) \in Nat
      /\ \A j, m \in 1..Len(ready) : ready[j] = ready[m] => j = m
  BY DEF EventTypeOK
<1>2. CASE InReady(x)
  <2>1. ready' = ready
    BY <1>2 DEF Edge
  <2> QED  BY <1>1, <1>2, <2>1 DEF InReady
<1>3. CASE ~ InReady(x)
  <2>1. ready' = Append(ready, x)
    BY <1>3 DEF Edge
  <2>2. /\ ready' \in Seq(Fd \cup {LISTEN, PIPE}) /\ Len(ready') = Len(ready) + 1
        /\ ready'[Len(ready) + 1] = x
        /\ \A j \in 1..Len(ready) : ready'[j] = ready[j]
    BY <1>1, <2>1
  <2>3. \A j \in 1..Len(ready') : j \in 1..Len(ready) \/ j = Len(ready) + 1
    BY <1>1, <2>2
  <2>4. \A j \in 1..Len(ready) : ready[j] # x
    BY <1>3 DEF InReady
  <2>5. \A j, m \in 1..Len(ready') : ready'[j] = ready'[m] => j = m
    BY <1>1, <2>2, <2>3, <2>4
  <2>6. \A y : InReady(y)' <=> InReady(y) \/ y = x
    <3> SUFFICES ASSUME NEW y PROVE InReady(y)' <=> InReady(y) \/ y = x
      OBVIOUS
    <3>1. InReady(y)' => InReady(y) \/ y = x
      BY <2>2, <2>3 DEF InReady
    <3>2. InReady(y) => InReady(y)'
      BY <1>1, <2>2 DEF InReady
    <3>3. y = x => InReady(y)'
      <4>1. Len(ready) + 1 \in 1..Len(ready')
        BY <1>1, <2>2
      <4> QED  BY <2>2, <4>1 DEF InReady
    <3> QED  BY <3>1, <3>2, <3>3
  <2> QED  BY <2>2, <2>5, <2>6
<1> QED  BY <1>2, <1>3

(* Closing connections takes their events out of it and adds none. *)
LEMMA CloseLemma ==
  ASSUME EventTypeOK, NEW fs, CloseConns(fs)
  PROVE  /\ ready' \in Seq(Fd \cup {LISTEN, PIPE})
         /\ \A j, m \in 1..Len(ready') : ready'[j] = ready'[m] => j = m
         /\ \A y : InReady(y)' => InReady(y) /\ y \notin fs
<1>1. ready \in Seq(Fd \cup {LISTEN, PIPE}) /\ Len(ready) \in Nat
      /\ \A j, m \in 1..Len(ready) : ready[j] = ready[m] => j = m
  BY DEF EventTypeOK
<1>0. PICK n \in 0..Len(ready) : \E at \in [1..n -> 1..Len(ready)] :
         /\ \A j, m \in 1..n : j < m => at[j] < at[m]
         /\ {at[m] : m \in 1..n} = {m \in 1..Len(ready) : ready[m] \notin fs}
         /\ ready' = [m \in 1..n |-> ready[at[m]]]
  BY DEF CloseConns
<1>2. PICK at \in [1..n -> 1..Len(ready)] :
         /\ \A j, m \in 1..n : j < m => at[j] < at[m]
         /\ {at[m] : m \in 1..n} = {m \in 1..Len(ready) : ready[m] \notin fs}
         /\ ready' = [m \in 1..n |-> ready[at[m]]]
  BY <1>0
<1>3. n \in Nat
  BY <1>1
<1>4. \A m \in 1..n : at[m] \in 1..Len(ready) /\ ready[at[m]] \notin fs
  BY <1>2
<1>5. ready' \in Seq(Fd \cup {LISTEN, PIPE}) /\ Len(ready') = n
      /\ \A m \in 1..n : ready'[m] = ready[at[m]]
  <2> DEFINE source == Fd \cup {LISTEN, PIPE}
  <2>1. \A m \in 1..Len(ready) : ready[m] \in source
    BY <1>1
  <2> HIDE DEF source
  <2>2. ready' \in [1..n -> source]
    BY <1>2, <1>4, <2>1
  <2>3. ready' \in Seq(source) /\ Len(ready') = n
    BY <1>3, <2>2
  <2>4. \A m \in 1..n : ready'[m] = ready[at[m]]
    BY <1>2
  <2> QED  BY <2>3, <2>4 DEF source
<1>6. ASSUME NEW j \in 1..n, NEW m \in 1..n, ready'[j] = ready'[m] PROVE j = m
  <2>1. at[j] = at[m]
    <3>1. ready[at[j]] = ready[at[m]]
      BY <1>5, <1>6
    <3>2. at[j] \in 1..Len(ready) /\ at[m] \in 1..Len(ready)
      BY <1>4, <1>6
    <3> QED  BY <1>1, <3>1, <3>2
  <2>2. ~ (j < m) /\ ~ (m < j)
    BY <1>1, <1>2, <1>4, <2>1
  <2> QED  BY <1>3, <2>2
<1>7. \A y : InReady(y)' => InReady(y) /\ y \notin fs
  BY <1>4, <1>5 DEF InReady
<1> QED  BY <1>5, <1>6, <1>7

(* Going on in the batch leaves behind the event just handled. *)
LEMMA GoOnLemma ==
  ASSUME EventTypeOK, NEW x, At(x), i' = i + 1, UNCHANGED <<batch, srv>>
  PROVE  /\ Pending(x) /\ ~ Pending(x)'
         /\ \A y : y # x => (Pending(y)' <=> Pending(y))
<1>1. /\ i \in Nat /\ Len(batch) \in Nat /\ i + 1 \in (i + 1)..Len(batch)
      /\ batch[i + 1] = x /\ srv = "loop"
      /\ \A j, m \in 1..Len(batch) : batch[j] = batch[m] => j = m
  BY DEF EventTypeOK, At
<1>2. Pending(x)
  BY <1>1 DEF Pending
<1>3. ~ Pending(x)'
  BY <1>1 DEF Pending
<1>4. ASSUME NEW y, y # x PROVE Pending(y)' <=> Pending(y)
  <2>1. \A m \in (i + 1)..Len(batch) : batch[m] = y => m \in (i + 1 + 1)..Len(batch)
    BY <1>1, <1>4
  <2>2. \A m \in (i + 1 + 1)..Len(batch) : m \in (i + 1)..Len(batch)
    BY <1>1
  <2> QED  BY <1>1, <2>1, <2>2 DEF Pending
<1> QED  BY <1>2, <1>3, <1>4

(* The initial state. *)
LEMMA ServerStarts == ServerInit => EventInv
<1> SUFFICES ASSUME ServerInit PROVE EventInv
  OBVIOUS
<1>1. ready = <<>> /\ batch = <<>> /\ i = 0 /\ backlog = 0 /\ alrm = 0 /\ ints = 0
      /\ srv = "wait" /\ stop_server = FALSE /\ replay = FALSE
  BY DEF ServerInit
<1>2. \A y : ~ InReady(y) /\ ~ Pending(y)
  BY <1>1 DEF InReady, Pending
<1>3. EventTypeOK
  <2>1. stop_server \in BOOLEAN /\ replay \in BOOLEAN
    BY <1>1
  <2>2. \A j, m \in 1..0 : j = m
    OBVIOUS
  <2>3. Len(ready) = 0 /\ Len(batch) = 0
    BY <1>1
  <2>4. \A S : <<>> \in Seq(S)
    OBVIOUS
  <2> QED  BY <1>1, <2>1, <2>2, <2>3, <2>4 DEF EventTypeOK
<1> QED  BY <1>1, <1>2, <1>3 DEF EventInv, EventsFounded, ReplayIsLast, DiesOnlyOnReplay

(* Clients, signals and the clock: an event is announced and what it *)
(* announces is there. *)
LEMMA WorldKeeps == ASSUME EventInv, World PROVE EventInv'
<1> USE ServerAssumption
<1>0. EventTypeOK /\ EventsFounded /\ ReplayIsLast /\ DiesOnlyOnReplay
  BY DEF EventInv
<1>1. ASSUME UNCHANGED loop, backlog' \in Nat, alrm' \in Nat, ints' \in Nat,
             UNCHANGED ready \/ \E x \in Fd \cup {LISTEN, PIPE} : Edge(x)
      PROVE  EventTypeOK' /\ \A y : Pending(y)' <=> Pending(y)
  <2>1. /\ ready' \in Seq(Fd \cup {LISTEN, PIPE})
        /\ \A j, m \in 1..Len(ready') : ready'[j] = ready'[m] => j = m
    <3>1. CASE UNCHANGED ready
      BY <1>0, <3>1 DEF EventTypeOK
    <3>2. CASE \E x \in Fd \cup {LISTEN, PIPE} : Edge(x)
      BY <1>0, <3>2, EdgeLemma
    <3> QED  BY <1>1, <3>1, <3>2
  <2>2. EventTypeOK'
    BY <1>0, <1>1, <2>1 DEF EventTypeOK, loop
  <2> QED  BY <1>1, <2>2 DEF loop, Pending
<1>2. CASE Connect
  <2>1. /\ UNCHANGED loop /\ UNCHANGED <<open, alrm, ints>> /\ backlog' = backlog + 1
        /\ Edge(LISTEN) /\ srv \in {"wait", "loop"}
    BY <1>2 DEF Connect, WorldActs, Alive, signals
  <2>2. EventTypeOK' /\ \A y : Pending(y)' <=> Pending(y)
    <3>1. backlog' \in Nat /\ alrm' \in Nat /\ ints' \in Nat
      BY <1>0, <2>1 DEF EventTypeOK
    <3>2. \E x \in Fd \cup {LISTEN, PIPE} : Edge(x)
      BY <2>1
    <3> QED  BY <1>1, <2>1, <3>1, <3>2
  <2>3. \A y : InReady(y)' <=> InReady(y) \/ y = LISTEN
    BY <1>0, <2>1, EdgeLemma
  <2>4. EventsFounded'
    BY <1>0, <2>1, <2>2, <2>3 DEF EventsFounded, EventTypeOK, loop
  <2> QED  BY <1>0, <2>1, <2>2, <2>4 DEF EventInv, ReplayIsLast, DiesOnlyOnReplay, loop
<1>3. ASSUME NEW f \in Fd, ClientSends(f) \/ ClientEnds(f) PROVE EventInv'
  <2>1. /\ UNCHANGED loop /\ UNCHANGED <<open, backlog, alrm, ints>>
        /\ Edge(f) /\ f \in open
    BY <1>3 DEF ClientSends, ClientEnds, signals
  <2>2. EventTypeOK' /\ \A y : Pending(y)' <=> Pending(y)
    <3>1. backlog' \in Nat /\ alrm' \in Nat /\ ints' \in Nat
      BY <1>0, <2>1 DEF EventTypeOK
    <3>2. \E x \in Fd \cup {LISTEN, PIPE} : Edge(x)
      BY <2>1
    <3> QED  BY <1>1, <2>1, <3>1, <3>2
  <2>3. \A y : InReady(y)' <=> InReady(y) \/ y = f
    BY <1>0, <2>1, EdgeLemma
  <2>4. EventsFounded'
    BY <1>0, <2>1, <2>2, <2>3 DEF EventsFounded, loop
  <2> QED  BY <1>0, <2>1, <2>2, <2>4 DEF EventInv, ReplayIsLast, DiesOnlyOnReplay, loop
<1>4. CASE Interrupt
  <2>1. /\ UNCHANGED loop /\ UNCHANGED <<open, backlog, alrm>> /\ ints' = ints + 1
        /\ Edge(PIPE)
    BY <1>4 DEF Interrupt, conns
  <2>2. EventTypeOK' /\ \A y : Pending(y)' <=> Pending(y)
    <3>1. backlog' \in Nat /\ alrm' \in Nat /\ ints' \in Nat
      BY <1>0, <2>1 DEF EventTypeOK
    <3>2. \E x \in Fd \cup {LISTEN, PIPE} : Edge(x)
      BY <2>1
    <3> QED  BY <1>1, <2>1, <3>1, <3>2
  <2>3. \A y : InReady(y)' <=> InReady(y) \/ y = PIPE
    BY <1>0, <2>1, EdgeLemma
  <2>4. EventsFounded'
    BY <1>0, <2>1, <2>2, <2>3 DEF EventsFounded, EventTypeOK, loop
  <2> QED  BY <1>0, <2>1, <2>2, <2>4 DEF EventInv, ReplayIsLast, DiesOnlyOnReplay, loop
<1>5. CASE Clock
  <2>1. /\ UNCHANGED loop /\ UNCHANGED <<open, backlog, ints>> /\ srv = "wait"
        /\ \/ UNCHANGED <<alrm, ready>>
           \/ alrm' = alrm + 1 /\ Edge(PIPE)
    BY <1>5 DEF Clock, conns
  <2>2. alrm' \in Nat /\ alrm' >= alrm
    BY <1>0, <2>1 DEF EventTypeOK
  <2>3. EventTypeOK' /\ \A y : Pending(y)' <=> Pending(y)
    <3>1. backlog' \in Nat /\ ints' \in Nat
      BY <1>0, <2>1 DEF EventTypeOK
    <3>2. UNCHANGED ready \/ \E x \in Fd \cup {LISTEN, PIPE} : Edge(x)
      BY <2>1
    <3> QED  BY <1>1, <2>1, <2>2, <3>1, <3>2
  <2>4. CASE UNCHANGED <<alrm, ready>>
    <3>1. EventsFounded'
      BY <1>0, <2>1, <2>3, <2>4 DEF EventsFounded, InReady, loop
    <3> QED  BY <1>0, <2>1, <2>3, <3>1 DEF EventInv, ReplayIsLast, DiesOnlyOnReplay, loop
  <2>5. CASE alrm' = alrm + 1 /\ Edge(PIPE)
    <3>1. \A y : InReady(y)' <=> InReady(y) \/ y = PIPE
      BY <1>0, <2>5, EdgeLemma
    <3>2. EventsFounded'
      BY <1>0, <2>1, <2>3, <2>5, <3>1 DEF EventsFounded, EventTypeOK, loop
    <3> QED  BY <1>0, <2>1, <2>3, <3>2 DEF EventInv, ReplayIsLast, DiesOnlyOnReplay, loop
  <2> QED  BY <2>1, <2>4, <2>5
<1> QED  BY <1>2, <1>3, <1>4, <1>5 DEF World

(* The server ends: for want of an event, and then the index had fallen *)
(* back; for want of a descriptor; or by SIGPIPE. *)
LEMMA DeathKeeps ==
  ASSUME EventInv, AcceptNothing \/ AcceptFails \/ ReadPipeAgain
                    \/ \E f \in Fd : ReadClosed(f) \/ SendKills(f)
  PROVE  EventInv'
<1> USE ServerAssumption
<1>0. EventTypeOK /\ EventsFounded /\ ReplayIsLast
  BY DEF EventInv
<1>1. ASSUME NEW x, At(x) PROVE Pending(x)
  <2>1. i + 1 \in (i + 1)..Len(batch)
    BY <1>0, <1>1 DEF At, EventTypeOK
  <2> QED  BY <1>1, <2>1 DEF At, Pending
<1>2. ASSUME NEW how \in {"dead", "no_fd", "sigpipe"}, Die(how), how = "dead" => replay PROVE EventInv'
  <2>1. /\ srv' = how /\ batch' = <<>> /\ ready' = <<>> /\ i' = 0
        /\ UNCHANGED <<backlog, alrm, ints, stop_server, replay>>
    BY <1>2 DEF Die, signals
  <2>2. \A y : ~ InReady(y)' /\ ~ Pending(y)'
    BY <2>1 DEF InReady, Pending
  <2>3. EventTypeOK'
    BY <1>0, <2>1 DEF EventTypeOK
  <2> QED  BY <1>2, <2>1, <2>2, <2>3 DEF EventInv, EventsFounded, ReplayIsLast, DiesOnlyOnReplay
<1>3. CASE AcceptNothing
  <2>1. replay
    BY <1>0, <1>1, <1>3 DEF AcceptNothing, EventsFounded
  <2> QED  BY <1>2, <1>3, <2>1 DEF AcceptNothing
<1>4. CASE AcceptFails
  BY <1>2, <1>4 DEF AcceptFails
<1>5. CASE ReadPipeAgain
  <2>1. replay
    BY <1>0, <1>1, <1>5 DEF ReadPipeAgain, EventsFounded
  <2> QED  BY <1>2, <1>5, <2>1 DEF ReadPipeAgain
<1>6. ASSUME NEW f \in Fd, ReadClosed(f) PROVE EventInv'
  <2>1. replay
    BY <1>0, <1>1, <1>6 DEF ReadClosed, EventsFounded
  <2> QED  BY <1>2, <1>6, <2>1 DEF ReadClosed
<1>7. ASSUME NEW f \in Fd, SendKills(f) PROVE EventInv'
  BY <1>2, <1>7 DEF SendKills
<1> QED  BY <1>3, <1>4, <1>5, <1>6, <1>7

(* The batch begins and ends: what was announced is what is handled next. *)
LEMMA BatchKeeps == ASSUME EventInv, Wait \/ BatchEnd PROVE EventInv'
<1>0. EventTypeOK /\ EventsFounded /\ ReplayIsLast
  BY DEF EventInv
<1>1. CASE Wait
  <2>1. /\ batch' = ready /\ ready' = <<>> /\ i' = 0 /\ srv = "wait" /\ srv' = "loop"
        /\ replay' = FALSE /\ ~ replay
        /\ UNCHANGED <<open, backlog, alrm, ints, stop_server>>
    BY <1>0, <1>1 DEF Wait, conns, signals, ReplayIsLast
  <2>2. \A y : ~ InReady(y)' /\ (Pending(y)' <=> InReady(y))
    BY <2>1 DEF InReady, Pending
  <2>3. EventTypeOK'
    <3>1. replay' \in BOOLEAN /\ stop_server' \in BOOLEAN
      BY <1>0, <2>1 DEF EventTypeOK
    <3>2. ready' \in Seq(Fd \cup {LISTEN, PIPE}) /\ Len(ready') = 0
      BY <2>1
    <3>3. \A j, m \in 1..Len(ready') : ready'[j] = ready'[m] => j = m
      BY <3>2
    <3> QED  BY <1>0, <2>1, <3>1, <3>2, <3>3 DEF EventTypeOK
  <2>4. EventsFounded'
    BY <1>0, <2>1, <2>2 DEF EventsFounded
  <2> QED  BY <2>1, <2>3, <2>4 DEF EventInv, ReplayIsLast, DiesOnlyOnReplay
<1>2. CASE BatchEnd
  <2>1. /\ srv = "loop" /\ i >= Len(batch) /\ batch' = <<>> /\ i' = 0
        /\ srv' = IF stop_server THEN "stopped" ELSE "wait"
        /\ UNCHANGED <<alrm, ints, stop_server, replay>>
    BY <1>2 DEF BatchEnd
  <2>2. (\E fs : CloseConns(fs)) \/ UNCHANGED <<conns, ready>>
    BY <1>2 DEF BatchEnd
  <2>3. /\ ready' \in Seq(Fd \cup {LISTEN, PIPE}) /\ backlog' = backlog
        /\ \A j, m \in 1..Len(ready') : ready'[j] = ready'[m] => j = m
        /\ \A y : InReady(y)' => InReady(y)
        /\ \A f \in Fd : InReady(f)' /\ f \in open => f \in open'
    <3>1. ASSUME NEW fs, CloseConns(fs)
          PROVE  \A f \in Fd : InReady(f)' /\ f \in open => f \in open'
      BY <1>0, <3>1, CloseLemma DEF CloseConns
    <3>2. CASE \E fs : CloseConns(fs)
      BY <1>0, <3>1, <3>2, CloseLemma DEF CloseConns
    <3>3. CASE UNCHANGED <<conns, ready>>
      BY <1>0, <3>3 DEF EventTypeOK, InReady, conns
    <3> QED  BY <2>2, <3>2, <3>3
  <2>4. \A y : ~ Pending(y) /\ ~ Pending(y)'
    BY <1>0, <2>1 DEF Pending, EventTypeOK
  <2>5. EventTypeOK'
    BY <1>0, <2>1, <2>3 DEF EventTypeOK
  <2>6. srv' = "wait" => ~ replay /\ ~ stop_server
    BY <1>0, <2>1, <2>4 DEF ReplayIsLast
  <2>7. EventsFounded'
    BY <1>0, <2>1, <2>3, <2>4, <2>6 DEF EventsFounded, EventTypeOK
  <2> QED  BY <2>1, <2>5, <2>6, <2>7 DEF EventInv, ReplayIsLast, DiesOnlyOnReplay
<1> QED  BY <1>1, <1>2

(* Reading the pipe takes all its bytes.  If the index falls back the pipe's *)
(* event is ahead of it again. *)
LEMMA ReadPipeKeeps == ASSUME EventInv, ReadPipe PROVE EventInv'
<1>0. EventTypeOK /\ EventsFounded /\ ReplayIsLast
  BY DEF EventInv
<1>1. /\ At(PIPE) /\ alrm + ints > 0 /\ i' = alrm + ints + 1 /\ alrm' = 0 /\ ints' = 0
      /\ UNCHANGED <<open, backlog, ready, batch, srv>>
  BY DEF ReadPipe, conns
<1>2. /\ (stop_server' <=> (stop_server \/ ints > 0)) /\ stop_server' \in BOOLEAN
      /\ (replay' <=> (replay \/ i' <= i)) /\ replay' \in BOOLEAN
  BY Zenon DEF ReadPipe
<1>3. srv = "loop" /\ batch[i + 1] = PIPE
      /\ \A j, m \in 1..Len(batch) : batch[j] = batch[m] => j = m
  BY <1>0, <1>1 DEF At, EventTypeOK
<1>4. i \in Nat /\ i' \in Nat /\ Len(batch) \in Nat /\ i < Len(batch)
  BY <1>0, <1>1 DEF At, EventTypeOK
<1>5. EventTypeOK'
  BY <1>0, <1>1, <1>2, <1>4 DEF EventTypeOK
<1>6. \A y : InReady(y)' <=> InReady(y)
  BY <1>1 DEF InReady
<1>7. ASSUME i' <= i PROVE Pending(PIPE)'
  <2>1. \A a, b, m \in Nat : a < m /\ b <= a => a + 1 \in (b + 1)..m
    OBVIOUS
  <2>2. i + 1 \in (i' + 1)..Len(batch)
    BY <1>4, <1>7, <2>1
  <2> QED  BY <1>1, <1>3, <2>2 DEF Pending
<1>8. ASSUME i' > i PROVE ~ Pending(PIPE)' /\ \A y : Pending(y)' => Pending(y)
  <2>1. i + 1 \in 1..Len(batch)
    BY <1>4
  <2>2. \A m \in (i' + 1)..Len(batch) : m \in (i + 1)..Len(batch) /\ m # i + 1
                                        /\ m \in 1..Len(batch)
    <3>1. \A a, b, n \in Nat : b > a =>
            \A m \in (b + 1)..n : m \in (a + 1)..n /\ m # a + 1 /\ m \in 1..n
      OBVIOUS
    <3> QED  BY <1>4, <1>8, <3>1
  <2>3. \A m \in (i' + 1)..Len(batch) : batch[m] # PIPE
    BY <1>3, <2>1, <2>2
  <2> QED  BY <1>1, <1>3, <2>2, <2>3 DEF Pending
<1>9. ASSUME ~ replay' PROVE EventsFounded'
  <2>1. ~ replay /\ i' > i
    BY <1>2, <1>4, <1>9
  <2>2. InReady(PIPE) => ints > 0 \/ stop_server
    BY <1>0, <1>3, <2>1 DEF EventsFounded
  <2>3. InReady(PIPE) => stop_server'
    BY <1>2, <2>2
  <2>4. srv' # "wait"
    BY <1>1, <1>3
  <2> QED  BY <1>0, <1>1, <1>6, <1>8, <2>1, <2>3, <2>4 DEF EventsFounded
<1>10. ReplayIsLast'
  <2>1. ASSUME replay PROVE stop_server'
    <3>1. alrm = 0
      BY <1>0, <1>3, <2>1 DEF ReplayIsLast
    <3>2. ints > 0
      BY <1>0, <1>1, <3>1 DEF EventTypeOK
    <3> QED  BY <1>2, <3>2
  <2> QED  BY <1>1, <1>2, <1>3, <1>7, <2>1 DEF ReplayIsLast
<1> QED  BY <1>1, <1>3, <1>5, <1>9, <1>10 DEF EventInv, EventsFounded, DiesOnlyOnReplay

(* The other events of a batch: a connection accepted, read from or closed *)
(* was announced, and is not announced again in the same batch. *)
LEMMA EventKeeps ==
  ASSUME EventInv,
         AcceptConn \/ \E f \in Fd : ReadData(f) \/ ReadEof(f) \/ ReadNothing(f)
  PROVE  EventInv'
<1> USE ServerAssumption
<1>0. EventTypeOK /\ EventsFounded /\ ReplayIsLast
  BY DEF EventInv
<1>1. ASSUME NEW x \in Fd \cup {LISTEN}, At(x), GoOn, UNCHANGED <<alrm, ints>>, backlog' \in Nat,
             ready' \in Seq(Fd \cup {LISTEN, PIPE}),
             \A j, m \in 1..Len(ready') : ready'[j] = ready'[m] => j = m,
             EventsFounded'
      PROVE  EventInv'
  <2>1. /\ i' = i + 1 /\ i' \in Nat /\ srv = "loop"
        /\ UNCHANGED <<batch, srv, stop_server, replay>>
    BY <1>0, <1>1 DEF GoOn, At, EventTypeOK
  <2>2. EventTypeOK'
    BY <1>0, <1>1, <2>1 DEF EventTypeOK
  <2>3. Pending(PIPE)' <=> Pending(PIPE)
    <3>1. x # PIPE
      OBVIOUS
    <3> QED  BY <1>0, <1>1, <2>1, <3>1, GoOnLemma
  <2> QED  BY <1>0, <1>1, <2>1, <2>2, <2>3 DEF EventInv, ReplayIsLast, DiesOnlyOnReplay
<1>2. ASSUME NEW x \in Fd \cup {LISTEN}, At(x), GoOn
      PROVE  /\ Pending(x) /\ ~ Pending(x)' /\ UNCHANGED <<srv, stop_server, replay>>
             /\ \A y : y # x => (Pending(y)' <=> Pending(y))
             /\ srv = "loop"
  BY <1>0, <1>2, GoOnLemma DEF GoOn, At
<1>3. CASE AcceptConn
  <2>1. /\ At(LISTEN) /\ GoOn /\ UNCHANGED <<alrm, ints, ready>>
        /\ backlog > 0 /\ backlog' = backlog - 1 /\ open \subseteq open'
    BY <1>3 DEF AcceptConn, signals
  <2>2. backlog' \in Nat
    BY <1>0, <2>1 DEF EventTypeOK
  <2>3. \A y : InReady(y)' <=> InReady(y)
    BY <2>1 DEF InReady
  <2>4. /\ Pending(LISTEN) /\ ~ Pending(LISTEN)' /\ UNCHANGED <<srv, stop_server, replay>>
        /\ \A y : y # LISTEN => (Pending(y)' <=> Pending(y))
    BY <1>2, <2>1
  <2>5. \A f \in Fd \cup {PIPE} : Pending(f)' <=> Pending(f)
    BY <2>4
  <2>6. ~ replay /\ InReady(LISTEN) => backlog' > 0
    BY <1>0, <2>1, <2>4 DEF EventsFounded, EventTypeOK
  <2>7. EventsFounded'
    BY <1>0, <2>1, <2>3, <2>4, <2>5, <2>6 DEF EventsFounded
  <2> QED  BY <1>0, <1>1, <2>1, <2>2, <2>7 DEF EventTypeOK
<1>4. ASSUME NEW f \in Fd, ReadData(f) \/ ReadNothing(f) PROVE EventInv'
  <2>1. At(f) /\ GoOn /\ UNCHANGED <<alrm, ints, ready, backlog, open>>
    BY <1>4 DEF ReadData, ReadNothing, signals, conns
  <2>2. \A y : InReady(y)' <=> InReady(y)
    BY <2>1 DEF InReady
  <2>3. EventsFounded'
    BY <1>0, <1>2, <2>1, <2>2 DEF EventsFounded
  <2> QED  BY <1>0, <1>1, <2>1, <2>3 DEF EventTypeOK
<1>5. ASSUME NEW f \in Fd, ReadEof(f) PROVE EventInv'
  <2>1. /\ At(f) /\ GoOn /\ UNCHANGED <<alrm, ints, backlog>> /\ CloseConns({f})
        /\ open' = open \ {f}
    BY <1>5 DEF ReadEof, CloseConns, signals
  <2>2. /\ ready' \in Seq(Fd \cup {LISTEN, PIPE})
        /\ \A j, m \in 1..Len(ready') : ready'[j] = ready'[m] => j = m
        /\ \A y : InReady(y)' => InReady(y) /\ y # f
    BY <1>0, <2>1, CloseLemma
  <2>3. EventsFounded'
    BY <1>0, <1>2, <2>1, <2>2 DEF EventsFounded
  <2> QED  BY <1>0, <1>1, <2>1, <2>2, <2>3 DEF EventTypeOK
<1> QED  BY <1>3, <1>4, <1>5

(* The inductive invariant of the event loop holds in every reachable state. *)
THEOREM EventsInvariant == ServerSpec => []EventInv
<1>1. EventInv /\ [ServerNext]_servervars => EventInv'
  <2> SUFFICES ASSUME EventInv, [ServerNext]_servervars PROVE EventInv'
    OBVIOUS
  <2>1. CASE Server
    BY <2>1, DeathKeeps, BatchKeeps, ReadPipeKeeps, EventKeeps DEF Server, ReadConn
  <2>2. CASE World
    BY <2>2, WorldKeeps
  <2>3. CASE UNCHANGED servervars
    BY <2>3 DEF servervars, conns, loop, signals, EventInv, EventTypeOK, EventsFounded,
       ReplayIsLast, DiesOnlyOnReplay, InReady, Pending
  <2> QED  BY <2>1, <2>2, <2>3 DEF ServerNext
<1> QED  BY <1>1, ServerStarts, PTL DEF ServerSpec

(* Unless no descriptor is left or SIGPIPE ends it, the server exits or touches *)
(* freed memory only in a batch in which the loop over the signals set the *)
(* index of the loop over the events back. *)
THEOREM DeathNeedsReplay == ServerSpec => []DiesOnlyOnReplay
<1>1. EventInv => DiesOnlyOnReplay
  BY DEF EventInv
<1> QED  BY <1>1, EventsInvariant, PTL
=============================================================================

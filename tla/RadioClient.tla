---------------------------- MODULE RadioClient ----------------------------
(***************************************************************************)
(* The listener of the network radio (client/client.c) and what it hears:  *)
(* the list packets of thr_list.c and the sound packets of thr_channle.c,  *)
(* over multicast UDP that may lose packets.  The client shows the list,   *)
(* asks the user for a channel, and hands the packets of that channel to   *)
(* the player at the other end of a pipe.                                  *)
(*                                                                         *)
(* A packet is its first byte, the chnid, and the user is a keyboard: a    *)
(* line typed is a number or JUNK, and stays in stdin until scanf takes    *)
(* it, which it does with numbers only.  The player reads the pipe, or     *)
(* hangs with the pipe full, or is gone, from the start if execl failed.   *)
(***************************************************************************)
EXTENDS Integers, Sequences

CONSTANTS
    NR_CHN,     \* the most channels there are
    ListSizes,  \* the numbers of channels a server may have
    CHAR_MAX,   \* the largest value of a signed char (127)
    SockBuf,    \* how many packets the socket of the client keeps
    Numbers,    \* the numbers the user may type
    MaxLines,   \* how many lines the user types
    JUNK        \* a line that is no number, or the end of stdin

CHNID_LIST == 0
MINCHNID == 1
MAXCHNID == MINCHNID + NR_CHN - 1
CHAR_MOD == 2 * (CHAR_MAX + 1)

ASSUME ClientAssumption ==
    /\ NR_CHN \in Nat \ {0} /\ CHAR_MAX \in Nat
    /\ ListSizes \subseteq 1 .. NR_CHN
    /\ SockBuf \in Nat \ {0} /\ MaxLines \in Nat
    /\ Numbers \subseteq Int /\ JUNK \notin Int

VARIABLES
    listsize,   \* the channels of this server are MINCHNID .. listsize
    sock,       \* the packets in the socket
    cpc,        \* "recv", "choose", "write" or "exit"
    current_channel,
    shown,      \* the numbers printed in front of the channels' names
    stdin,      \* the lines typed and not yet read
    typed,      \* history: all the lines typed
    player,     \* "plays", "hangs" or "gone"
    played      \* history: the channels whose sound went to the player

uservars == <<stdin, typed>>
plvars == <<player, played>>
vars == <<listsize, sock, cpc, current_channel, shown, uservars, plvars>>

Channels == MINCHNID .. listsize

Init ==
    /\ listsize \in ListSizes
    /\ sock = <<>> /\ cpc = "recv"
    /\ current_channel = CHNID_LIST
    /\ shown = <<>> /\ stdin = <<>> /\ typed = <<>>
    /\ player = "plays" /\ played = {}

-----------------------------------------------------------------------------
(* The server, as the client sees it. *)

(* sendto() of a packet with first byte id; a full socket drops it. *)
Send(id) ==
    /\ sock' = IF Len(sock) < SockBuf THEN Append(sock, id) ELSE sock
    /\ UNCHANGED <<listsize, cpc, current_channel, shown, uservars, plvars>>

thr_list == Send(CHNID_LIST)

thr_channel(c) == c \in Channels /\ Send(c)

-----------------------------------------------------------------------------
(* The client *)

(* `*pos = i' in the server and printf("%d", *pos) in the client, both by *)
(* way of a signed char. *)
AsChar(n) == LET b == n % CHAR_MOD IN IF b <= CHAR_MAX THEN b ELSE b - CHAR_MOD

(* recvfrom gives the oldest packet, whose chnid is id. *)
Recv(id) ==
    /\ cpc = "recv" /\ sock # <<>> /\ id = Head(sock)
    /\ sock' = Tail(sock)

(* recvfrom fails: exit(1). *)
RecvFails ==
    /\ cpc = "recv"
    /\ cpc' = "exit"
    /\ UNCHANGED <<listsize, sock, current_channel, shown, uservars, plvars>>

(* Mutant of ShowList: the entries are numbered from 0. *)
ShowList_fromzero ==
    /\ current_channel = CHNID_LIST /\ Recv(CHNID_LIST)
    /\ shown' = [n \in Channels |-> AsChar(n - 1)]
    /\ cpc' = "choose"
    /\ UNCHANGED <<listsize, current_channel, uservars, plvars>>

(* The list, while the client wants it: print it and ask. *)
ShowList ==
    /\ current_channel = CHNID_LIST /\ Recv(CHNID_LIST)
    /\ shown' = [n \in Channels |-> AsChar(n)]
    /\ cpc' = "choose"
    /\ UNCHANGED <<listsize, current_channel, uservars, plvars>>

(* Mutant of Ignore: chnid is only compared with CHNID_LIST. *)
Ignore_listonly(id) ==
    /\ Recv(id)
    /\ id # current_channel
    /\ played' = IF current_channel # CHNID_LIST /\ id # CHNID_LIST
                 THEN played \cup {id} ELSE played
    /\ UNCHANGED <<listsize, cpc, current_channel, shown, uservars, player>>

(* Any other packet than the one the client wants is dropped. *)
Ignore(id) ==
    /\ Recv(id)
    /\ id # current_channel
    /\ UNCHANGED <<listsize, cpc, current_channel, shown, uservars, plvars>>

(* scanf reads a number: this is the channel from now on. *)
Choose ==
    /\ cpc = "choose" /\ stdin # <<>> /\ Head(stdin) # JUNK
    /\ current_channel' = Head(stdin)
    /\ stdin' = Tail(stdin)
    /\ cpc' = "recv"
    /\ UNCHANGED <<listsize, sock, shown, typed, plvars>>

(* scanf finds junk, leaves it where it is, and the client starts over. *)
ChooseFails ==
    /\ cpc = "choose" /\ stdin # <<>> /\ Head(stdin) = JUNK
    /\ cpc' = "recv"
    /\ UNCHANGED <<listsize, sock, current_channel, shown, uservars, plvars>>

(* A packet of the channel: write() to the player begins. *)
Play(id) ==
    /\ current_channel # CHNID_LIST /\ Recv(id)
    /\ id = current_channel
    /\ cpc' = "write"
    /\ UNCHANGED <<listsize, current_channel, shown, uservars, plvars>>

(* It ends when the player has read enough.  As long as the player hangs it *)
(* does not. *)
Written ==
    /\ cpc = "write" /\ player = "plays"
    /\ played' = played \cup {current_channel}
    /\ cpc' = "recv"
    /\ UNCHANGED <<listsize, sock, current_channel, shown, uservars, player>>

(* Nobody has the pipe open for reading: SIGPIPE ends the client. *)
WriteKilled ==
    /\ cpc = "write" /\ player = "gone"
    /\ cpc' = "exit"
    /\ UNCHANGED <<listsize, sock, current_channel, shown, uservars, plvars>>

Client ==
    \/ ShowList \/ Choose \/ ChooseFails \/ Written \/ WriteKilled
    \/ \E id \in 0 .. MAXCHNID : Ignore(id) \/ Play(id)

(* What the keyboard can produce. *)
Lines == Numbers \cup {JUNK}

(* The user types whatever it is, and need not have seen the list. *)
Type(line) ==
    /\ Len(typed) < MaxLines
    /\ stdin' = Append(stdin, line)
    /\ typed' = Append(typed, line)
    /\ UNCHANGED <<listsize, sock, cpc, current_channel, shown, plvars>>

(* The player stops reading, reads on, or ends. *)
PlayerChanges ==
    /\ player # "gone"
    /\ player' \in {"plays", "hangs", "gone"} \ {player}
    /\ UNCHANGED <<listsize, sock, cpc, current_channel, shown, uservars, played>>

Next ==
    \/ thr_list \/ \E c \in MINCHNID .. MAXCHNID : thr_channel(c)
    \/ Client \/ RecvFails
    \/ \E line \in Lines : Type(line)
    \/ PlayerChanges

(* The client runs, and not every packet of the list or of a channel is     *)
(* lost: both are sent for ever (no sendto of the server fails), and the    *)
(* socket has room again and again.  Nothing is assumed of the user.        *)
Fairness ==
    /\ WF_vars(Client)
    /\ SF_vars(thr_list)
    /\ \A c \in MINCHNID .. MAXCHNID : SF_vars(thr_channel(c))

Spec == Init /\ [][Next]_vars /\ Fairness

-----------------------------------------------------------------------------
(* Properties *)

TypeOK ==
    /\ listsize \in ListSizes
    /\ sock \in Seq(CHNID_LIST .. MAXCHNID) /\ Len(sock) <= SockBuf
    /\ cpc \in {"recv", "choose", "write", "exit"}
    /\ current_channel \in Int
    /\ shown = <<>> \/ shown \in [Channels -> - CHAR_MAX - 1 .. CHAR_MAX]
    /\ stdin \in Seq(Lines) /\ typed \in Seq(Lines)
    /\ player \in {"plays", "hangs", "gone"}
    /\ played \subseteq MINCHNID .. MAXCHNID

(* Everything the user has been given to hear comes from one channel, and *)
(* from one whose number was typed: deal_data compares the chnid of every *)
(* packet with current_channel, which never changes once it is not 0. *)
PlaysOneTyped ==
    \A c \in played : played = {c} /\ \E j \in 1 .. Len(typed) : typed[j] = c

(* What is in stdin was typed. *)
StdinTyped == \A j \in 1 .. Len(stdin) : \E n \in 1 .. Len(typed) : typed[n] = stdin[j]

(* The channel was typed, and nothing else has been played; before there is *)
(* one, nothing has.  The user is asked only while there is none, and only a *)
(* packet of the channel is written. *)
ChannelTyped ==
    /\ cpc = "choose" => current_channel = CHNID_LIST
    /\ cpc = "write" => current_channel \in MINCHNID .. MAXCHNID
    /\ current_channel = CHNID_LIST => played = {}
    /\ current_channel # CHNID_LIST =>
         /\ played \subseteq {current_channel}
         /\ \E n \in 1 .. Len(typed) : typed[n] = current_channel

(* The inductive invariant behind PlaysOneTyped. *)
IInv == TypeOK /\ StdinTyped /\ ChannelTyped

(* The first line typed picks channel c: it is the number of c, or the one *)
(* shown for c, if that is positive. *)
Picked(c) ==
    /\ c \in Channels /\ typed # <<>>
    /\ \/ typed[1] = c
       \/ shown # <<>> /\ shown[c] > 0 /\ typed[1] = shown[c]

(* A user whose first line picks a channel hears it, unless the client ends *)
(* (recvfrom failed, or SIGPIPE) or the player no longer plays. *)
ChoiceHeard ==
    \A c \in MINCHNID .. MAXCHNID :
        Picked(c) ~> c \in played \/ cpc = "exit" \/ player # "plays"
=============================================================================

------------------------------ MODULE EchoNet -------------------------------
(***************************************************************************)
(* The echo component (apps/echo_component.c) on the poller: a listener,   *)
(* the connections it accepts and the ones it opens, with descriptors that *)
(* the kernel gives out again as soon as they are closed.  The commands    *)
(* that start and stop it are typed between ticks, or come from another    *)
(* process and run inside one, in the callback of a descriptor of the      *)
(* replication.                                                            *)
(*                                                                         *)
(* Bytes come in units of one read and are counted, not told apart.        *)
(***************************************************************************)
EXTENDS Poller, FiniteSets, FiniteSetsExt

CONSTANTS
  MaxConns,      \* how many connections there ever are
  Fds,           \* descriptors
  MaxStarts,     \* how often the component is started
  Bytes,         \* units the kernel keeps for a reader
  Room,          \* units it takes from a writer
  Cap,           \* units in out_buf
  ReadBudget,    \* ECHO_READ_BUDGET
  WriteBudget,   \* ECHO_WRITE_BUDGET
  AcceptBudget   \* ECHO_ACCEPT_BUDGET

ASSUME EchoAssumption ==
  /\ {MaxConns, MaxStarts, Cap, ReadBudget, WriteBudget, AcceptBudget}
       \subseteq Nat \ {0}
  /\ {Bytes, Room} \subseteq Nat \ {0}
  /\ Fds \subseteq Nat /\ IsFiniteSet(Fds) /\ Fds # {}

Conns == 1 .. MaxConns
NoFd == -1

VARIABLES
  np,       \* the poller
  echo,     \* the Echo, as the number of its start; 0 when there is none
  starts,   \* how many there have been
  listen,   \* listen_fd, NoFd when not listening
  backlog,  \* connections the kernel has for the listener
  conn,     \* conn[c]: the EchoConn
  sock,     \* sock[c]: the kernel's side of its socket
  stopped,  \* whether the component was stopped inside this tick
  undef     \* whether a callback has been called for what was freed

vars == <<np, echo, starts, listen, backlog, conn, sock, stopped, undef>>

NoConn == [st |-> "none", fd |-> NoFd, client |-> FALSE, want |-> FALSE,
           out |-> 0]
NoSock == [got |-> 0, fin |-> FALSE, rst |-> FALSE, up |-> FALSE,
           room |-> Room]

Init ==
  /\ np = Empty
  /\ echo = 0 /\ starts = 0
  /\ listen = NoFd /\ backlog = 0
  /\ conn = [c \in Conns |-> NoConn]
  /\ sock = [c \in Conns |-> NoSock]
  /\ stopped = FALSE /\ undef = FALSE

Unused == {c \in Conns : conn[c].st = "none"}
Live == {c \in Conns : conn[c].st \in {"open", "connecting"}}
Free == Fds \ ({conn[c].fd : c \in Live} \cup {listen})

(* How many of S are less than x, and the element that has r below it *)
Rank(S, x) == Cardinality({y \in S : y < x})
Nth(S, r) == CHOOSE x \in S : Rank(S, x) = r

-----------------------------------------------------------------------------
(* The kernel and the other ends *)

Outside == UNCHANGED <<np, echo, starts, listen, conn, stopped, undef>>

Dialled ==
  /\ listen # NoFd /\ backlog < Cardinality(Unused)
  /\ backlog' = backlog + 1
  /\ Outside /\ UNCHANGED sock

Connected(c) ==
  /\ conn[c].st = "connecting" /\ ~sock[c].rst /\ ~sock[c].up
  /\ sock' = [sock EXCEPT ![c].up = TRUE]
  /\ Outside /\ UNCHANGED backlog

PeerSends(c) ==
  /\ c \in Live /\ sock[c].up /\ ~sock[c].fin /\ ~sock[c].rst
  /\ sock[c].got < Bytes
  /\ sock' = [sock EXCEPT ![c].got = @ + 1]
  /\ Outside /\ UNCHANGED backlog

PeerReads(c) ==
  /\ c \in Live /\ ~sock[c].rst /\ sock[c].room < Room
  /\ sock' = [sock EXCEPT ![c].room = @ + 1]
  /\ Outside /\ UNCHANGED backlog

(* The peer closes, or it is gone, refuses or resets, which loses the data *)
PeerEnds(c) ==
  /\ c \in Live /\ ~sock[c].rst
  /\ \/ sock[c].up /\ sock' = [sock EXCEPT ![c].fin = TRUE]
     \/ sock' = [sock EXCEPT ![c] = [NoSock EXCEPT !.rst = TRUE]]
  /\ Outside /\ UNCHANGED backlog

(* What poll() finds *)
SockEvents(c) ==
  IF sock[c].rst THEN {"ERR"}
  ELSE (IF sock[c].up /\ (sock[c].got > 0 \/ sock[c].fin) THEN {"RD"} ELSE {})
         \cup (IF sock[c].up /\ sock[c].room > 0 THEN {"WR"} ELSE {})

Events ==
  [f \in Fds |->
     UNION {SockEvents(c) : c \in {d \in Live : conn[d].fd = f}}
       \cup (IF f = listen /\ backlog > 0 THEN {"RD"} ELSE {})]

-----------------------------------------------------------------------------
(* The callbacks *)

(* s_conn_close: the descriptor is free at once, the entry when the poller  *)
(* gets to it                                                               *)
Closed(c) ==
  /\ conn' = [conn EXCEPT ![c] = [NoConn EXCEPT !.st = "freed"]]
  /\ np' = Asked([np EXCEPT !.calls = Tail(@)], <<Del(conn[c].fd)>>)
  /\ sock' = [sock EXCEPT ![c] = NoSock]
  /\ UNCHANGED <<listen, backlog>>

(* Mutant: while there is something to write, reading waits *)
MaskForOne(want) == IF want THEN {"WR"} ELSE {"RD"}
Mask(want) == {"RD"} \cup IF want THEN {"WR"} ELSE {}

(* Mutant: it has room for everything *)
KeptAll(c, n) == IF conn[c].client THEN conn[c].out ELSE conn[c].out + n
(* What out_buf holds after n more units came: as much as it has room for *)
Kept(c, n) ==
  IF conn[c].client THEN conn[c].out ELSE Min({conn[c].out + n, Cap})

(* s_on_conn: read until the budget or the data is spent, then write *)
OnConn(c, ev) ==
  LET s == sock[c]
      n == IF "RD" \in ev THEN Min({s.got, ReadBudget}) ELSE 0
      ended == "RD" \in ev /\ n < ReadBudget /\ (s.fin \/ s.rst)
      kept == Kept(c, n)
      broken == "WR" \in ev /\ kept > 0 /\ s.rst
      m == IF "WR" \in ev THEN Min({kept, WriteBudget, s.room}) ELSE 0
      want == kept > m /\ (conn[c].want \/ kept > conn[c].out)
  IN IF "ERR" \in ev \/ ended \/ broken THEN Closed(c)
     ELSE /\ conn' = [conn EXCEPT ![c].out = kept - m, ![c].want = want]
          /\ sock' = [sock EXCEPT ![c].got = @ - n, ![c].room = @ - m]
          /\ np' = Asked([np EXCEPT !.calls = Tail(@)],
                     <<Add(conn[c].fd, Mask(want), "conn", c)>>)
          /\ UNCHANGED <<listen, backlog>>

(* s_on_client_connecting: a greeting waits to be written *)
OnConnecting(c, ev) ==
  IF "ERR" \in ev \/ sock[c].rst THEN Closed(c)
  ELSE /\ conn' = [conn EXCEPT ![c].st = "open", ![c].out = 1,
                               ![c].want = TRUE]
       /\ np' = Asked([np EXCEPT !.calls = Tail(@)],
                  <<Add(conn[c].fd, {"RD", "WR"}, "conn", c)>>)
       /\ UNCHANGED <<listen, backlog, sock>>

(* s_on_listen: as many as there are, as the budget and the descriptors     *)
(* allow                                                                    *)
OnListen ==
  LET k == Min({backlog, AcceptBudget, Cardinality(Unused), Cardinality(Free)})
      new == {c \in Unused : Rank(Unused, c) < k}
  IN /\ backlog' = backlog - k
     /\ conn' = [c \in Conns |->
          IF c \in new
          THEN [NoConn EXCEPT !.st = "open", !.fd = Nth(Free, Rank(Unused, c))]
          ELSE conn[c]]
     /\ sock' = [c \in Conns |->
          IF c \in new THEN [NoSock EXCEPT !.up = TRUE] ELSE sock[c]]
     /\ np' = Asked([np EXCEPT !.calls = Tail(@)],
          [i \in 1 .. k |->
             Add(Nth(Free, i - 1), Mask(FALSE), "conn", Nth(Unused, i - 1))])
     /\ UNCHANGED listen

Alive(entry) ==
  IF entry.cb = "listen" THEN entry.user = echo /\ listen = entry.fd
  ELSE entry.user \in Live

(* net_poller_tick: poll, then the callbacks of what was ready, in order    *)
Tick ==
  /\ ~np.inTick /\ np.entries # <<>>
  /\ np' = Ticked(np, Events)
  /\ UNCHANGED <<echo, starts, listen, backlog, conn, sock, stopped, undef>>

(* The entry at its position is the one that was polled, and what its       *)
(* callback is for has not been freed                                       *)
Callable(call) ==
  /\ call.at \in DOMAIN np.entries
  /\ np.entries[call.at].fd = call.fd
  /\ Alive(np.entries[call.at])

Call ==
  /\ np.inTick /\ np.calls # <<>>
  /\ LET call == Head(np.calls)
         entry == np.entries[call.at]
         ev == call.ev
     IN IF Callable(call)
        THEN /\ CASE entry.cb = "conn" -> OnConn(entry.user, ev)
                  [] entry.cb = "connecting" -> OnConnecting(entry.user, ev)
                  [] OTHER -> OnListen
             /\ UNCHANGED undef
        ELSE /\ undef' = TRUE
             /\ UNCHANGED <<np, listen, backlog, conn, sock>>
  /\ UNCHANGED <<echo, starts, stopped>>

EndTick ==
  /\ np.inTick /\ np.calls = <<>>
  /\ np' = Finished(np)
  /\ stopped' = FALSE
  /\ UNCHANGED <<echo, starts, listen, backlog, conn, sock, undef>>

-----------------------------------------------------------------------------
(* The commands *)

(* The Echo is made by the first command that needs it *)
Started == IF echo = 0 THEN starts + 1 ELSE echo
Start ==
  /\ Started <= MaxStarts
  /\ echo' = Started
  /\ starts' = Max({starts, Started})

(* echo_start_leader *)
StartLeader ==
  /\ Start /\ listen = NoFd /\ Free # {}
  /\ listen' = Min(Free)
  /\ backlog' = 0
  /\ np' = Asked(np, <<Add(Min(Free), {"RD"}, "listen", Started)>>)
  /\ UNCHANGED <<conn, sock, stopped, undef>>

(* echo_start_client: connect() answers at once or not.  The connection's   *)
(* callback waits for what its state needs.                                 *)
StartClient ==
  /\ Start /\ Unused # {} /\ Free # {}
  /\ LET c == Min(Unused)
         f == Min(Free) IN
     \/ /\ conn' = [conn EXCEPT ![c] =
             [NoConn EXCEPT !.st = "open", !.fd = f, !.client = TRUE,
                            !.want = TRUE, !.out = 1]]
        /\ sock' = [sock EXCEPT ![c].up = TRUE]
        /\ np' = Asked(np, <<Add(f, {"RD", "WR"}, "conn", c)>>)
     \/ /\ conn' = [conn EXCEPT ![c] =
             [NoConn EXCEPT !.st = "connecting", !.fd = f, !.client = TRUE]]
        /\ np' = Asked(np, <<Add(f, {"WR"}, "connecting", c)>>)
        /\ UNCHANGED sock
  /\ UNCHANGED <<listen, backlog, stopped, undef>>

(* tcp_listen or tcp_connect fails: the Echo is there, with nothing to do *)
StartFails ==
  /\ Start
  /\ UNCHANGED <<np, listen, backlog, conn, sock, stopped, undef>>

(* echo_destroy *)
Stop ==
  /\ echo # 0
  /\ LET fds == {conn[c].fd : c \in Live} \cup ({listen} \ {NoFd})
     IN np' = Asked(np, [i \in 1 .. Cardinality(fds) |-> Del(Nth(fds, i - 1))])
  /\ conn' = [c \in Conns |->
       IF c \in Live THEN [NoConn EXCEPT !.st = "freed"] ELSE conn[c]]
  /\ sock' = [c \in Conns |-> NoSock]
  /\ listen' = NoFd /\ backlog' = 0
  /\ echo' = 0
  /\ stopped' = np.inTick
  /\ UNCHANGED <<starts, undef>>

Kernel == Dialled \/ \E c \in Conns :
  Connected(c) \/ PeerSends(c) \/ PeerReads(c) \/ PeerEnds(c)
Frame == Tick \/ Call \/ EndTick

Command == StartLeader \/ StartClient \/ StartFails \/ Stop

Next == ~undef /\ (Kernel \/ Frame \/ Command)

Spec == Init /\ [][Next]_vars
(* main.c ticks the poller in every frame *)
FairSpec == Spec /\ WF_vars(~undef /\ Frame)

-----------------------------------------------------------------------------
(* Properties *)

TypeOK ==
  /\ echo \in 0 .. MaxStarts /\ starts \in 0 .. MaxStarts
  /\ listen \in Fds \cup {NoFd}
  /\ backlog \in 0 .. MaxConns
  /\ conn \in [Conns -> [st : {"none", "connecting", "open", "freed"},
                         fd : Fds \cup {NoFd}, client : BOOLEAN,
                         want : BOOLEAN, out : 0 .. Cap]]
  /\ sock \in [Conns -> [got : 0 .. Bytes, fin : BOOLEAN,
                         rst : BOOLEAN, up : BOOLEAN, room : 0 .. Room]]
  /\ \A c \in Conns : conn[c].want = (conn[c].out > 0)
  /\ stopped \in BOOLEAN /\ undef \in BOOLEAN

(* The entry of a connection, with the callback and the events it needs *)
EntryOf(c) ==
  [fd |-> conn[c].fd, user |-> c,
   mask |-> IF conn[c].st = "connecting" THEN {"WR"}
            ELSE {"RD"} \cup (IF conn[c].out > 0 THEN {"WR"} ELSE {}),
   cb |-> IF conn[c].st = "connecting" THEN "connecting" ELSE "conn"]
Expected ==
  {EntryOf(c) : c \in Live}
    \cup (IF listen = NoFd THEN {}
          ELSE {[fd |-> listen, user |-> echo, mask |-> {"RD"}, cb |-> "listen"]})

(* Whatever was deferred and whichever descriptors were given out again     *)
(* meanwhile, the poller's table with its changes made is the listener and  *)
(* the connections that are there, each once, with its own callback and     *)
(* waiting for what it has to do.                                           *)
TableMatches ==
  LET table == Settled(np)
  IN Elems(table) = Expected /\ Len(table) = Cardinality(Expected)

(* A callback still to be called in this tick is one of a connection or a   *)
(* listener that is there: no callback frees what another one is for.  Only *)
(* a stop from inside the tick does.                                        *)
CallsLive ==
  ~stopped => ~undef /\ \A i \in DOMAIN np.calls : Callable(np.calls[i])

(* A connection whose peer has closed or gone is freed, and its descriptor  *)
(* with it.                                                                 *)
GoneIsFreed ==
  \A c \in Conns :
    (c \in Live /\ (sock[c].fin \/ sock[c].rst)) ~> (c \notin Live \/ undef)
=============================================================================

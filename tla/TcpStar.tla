------------------------------ MODULE TcpStar -------------------------------
(***************************************************************************)
(* The star of the TCP backends: one process with leader_tcp and processes *)
(* with client_tcp (src/src/replication/backends), over the connections    *)
(* between them.  Each process is single-threaded: an action is one        *)
(* callback of its poller (a unit read or written), one call of its        *)
(* replicator interface, or a step of the network.  A callback's changes   *)
(* of the poller table are deferred to the end of its tick, and a tick     *)
(* calls each descriptor at most once, so they are part of its action.     *)
(*                                                                         *)
(* The consumer behind the listener is the console: on the command of      *)
(* another process it runs the processor, which publishes an answer before *)
(* the callback returns (console_sink.c:155-165).                          *)
(***************************************************************************)
EXTENDS Cow1Tcp, FiniteSets

CONSTANTS
  Clients,      \* processes with client_tcp
  L,            \* the process with leader_tcp
  ConsoleOf,    \* ConsoleOf[p]: the console_id the backend of p was created with
  MaxConns,     \* bound on the connections ever opened
  MaxClients,   \* REPL_SRV_MAX_CLIENTS
  MaxBuffered,  \* CLIENT_MAX_BUFFERED
  MaxOps,       \* MaxOps[kind]: bound on the operations published, by kind
  Async         \* the answers connect() may give: TRUE is NET_INPROGRESS

Procs == Clients \cup {L}
Conns == 1 .. MaxConns
NoFd  == 0

HELO == 0       \* the messages of the handshake; operations are 1, 2, ...
WLCM == -1

ASSUME StarAssumption ==
  /\ L \notin Clients
  /\ IsFiniteSet(Clients)
  /\ DOMAIN ConsoleOf = Procs
  /\ MaxConns \in Nat
  /\ MaxClients \in Nat
  /\ MaxBuffered \in Nat
  /\ MaxOps \in [{"line", "command"} -> Nat]
  /\ Async \in SUBSET BOOLEAN

VARIABLES
  net,     \* net[k]: connection k between a client and the leader
  cli,     \* cli[c]: CliImpl of client c
  slot,    \* slot[k]: the leader's Client for connection k, if it has one
  alive,   \* the leader's process runs
  ops,     \* ops[id]: who published operation id, and what it is
  heard,   \* heard[p]: operations the listener of p was called with
  cast     \* operations the leader sent to its clients

vars == <<net, cli, slot, alive, ops, heard, cast>>

(* A connection: up and down are the units between the two sockets, cgone  *)
(* and sgone say that the client's or the leader's socket is closed, rst   *)
(* that the other side gets an error; base is the length of cast when the  *)
(* leader finished the handshake.                                          *)
NoConn ==
  [phase |-> "unused", by |-> L, up |-> <<>>, down |-> <<>>,
   cgone |-> FALSE, sgone |-> FALSE, rst |-> FALSE, base |-> 0]

IdleClient(q) ==
  [st |-> "IDLE", fd |-> NoFd, cb |-> "none", left |-> <<>>, in |-> <<>>,
   q |-> q, mask |-> {}, out |-> <<>>, dec |-> <<>>, eof |-> FALSE,
   sent |-> <<>>, base |-> 0]

NoSlot ==
  [state |-> "none", left |-> <<>>, in |-> <<>>, mask |-> {}, out |-> <<>>,
   dec |-> <<>>, eof |-> FALSE, took |-> <<>>]

Init ==
  /\ net = [k \in Conns |-> NoConn]
  /\ cli = [c \in Clients |-> IdleClient(<<>>)]
  /\ slot = [k \in Conns |-> NoSlot]
  /\ alive = TRUE
  /\ ops = <<>>
  /\ heard = [p \in Procs |-> <<>>]
  /\ cast = <<>>

-----------------------------------------------------------------------------
(* The sockets.  Closing one with unread data, and writing to one whose    *)
(* peer is closed, reset the connection.                                   *)

ClientCloses(n, k) ==
  IF k = NoFd THEN n
  ELSE [n EXCEPT ![k].cgone = TRUE, ![k].down = <<>>,
                 ![k].rst   = @ \/ n[k].down # <<>>]

LeaderCloses(n, k) ==
  [n EXCEPT ![k].sgone = TRUE, ![k].up = <<>>,
            ![k].rst   = @ \/ n[k].up # <<>>]

WriteUp(k, u) ==
  [net EXCEPT ![k].up  = IF net[k].sgone THEN @ ELSE Append(@, u),
              ![k].rst = @ \/ net[k].sgone]

WriteDown(k, u) ==
  [net EXCEPT ![k].down = IF net[k].cgone THEN @ ELSE Append(@, u),
              ![k].rst  = @ \/ net[k].cgone]

(* connect() that was in progress succeeds, or fails, also for a network   *)
(* that has nothing to do with the leader.                                 *)
Establish(k) ==
  /\ net[k].phase = "syn" /\ ~net[k].cgone /\ alive
  /\ net' = [net EXCEPT ![k].phase = "up"]
  /\ UNCHANGED <<cli, slot, alive, ops, heard, cast>>

Refuse(k) ==
  /\ net[k].phase = "syn" /\ ~net[k].cgone
  /\ net' = [net EXCEPT ![k].phase = "refused"]
  /\ UNCHANGED <<cli, slot, alive, ops, heard, cast>>

-----------------------------------------------------------------------------
(* client_tcp *)

(* cli_to_idle: the buffer of publications survives. *)
ToIdle(c) ==
  /\ cli' = [cli EXCEPT ![c] = IdleClient(@.q)]
  /\ net' = ClientCloses(net, cli[c].fd)

Reading(c) ==
  LET r == cli[c] IN
  r.fd # NoFd /\ "RD" \in r.mask /\ ~net[r.fd].rst

Writing(c) ==
  LET r == cli[c] IN
  r.fd # NoFd /\ "WR" \in r.mask /\ ~net[r.fd].rst

(* repl_client_tcp_connect; the console passes a good host and port.  It   *)
(* drops what it has first; the new connection is connected, in progress   *)
(* or failed at once.                                                      *)
Fresh(k) == \A j \in Conns : net[j].phase = "unused" <=> j >= k

ConnectFails(c) ==
  /\ cli[c].st # "IDLE"
  /\ ToIdle(c)
  /\ UNCHANGED <<slot, alive, ops, heard, cast>>

Connect(c, k, async) ==
  LET r == IdleClient(cli[c].q) IN
  /\ Fresh(k)
  /\ ~async => alive
  /\ cli' = [cli EXCEPT ![c] =
       IF async THEN [r EXCEPT !.st = "CONNECTING", !.fd = k,
                               !.cb = "connect", !.mask = {"WR"}]
                ELSE [r EXCEPT !.st = "HELO_WR", !.fd = k, !.cb = "hs",
                               !.mask = {"WR"}, !.left = Packet(HELO)]]
  /\ net' = [ClientCloses(net, cli[c].fd) EXCEPT
               ![k].by = c, ![k].phase = IF async THEN "syn" ELSE "up"]
  /\ UNCHANGED <<slot, alive, ops, heard, cast>>

Disconnect(c) ==
  /\ cli[c].st # "IDLE"
  /\ ToIdle(c)
  /\ UNCHANGED <<slot, alive, ops, heard, cast>>

(* on_connect_cb.  The new interest goes through net_poller_mod, which     *)
(* leaves the callback of the descriptor as it is: this action is taken    *)
(* again at every tick.                                                    *)
OnConnect(c) ==
  LET r == cli[c] IN
  /\ r.cb = "connect"
  /\ net[r.fd].phase # "syn"
  /\ IF net[r.fd].phase = "refused" \/ net[r.fd].rst
     THEN ToIdle(c)
     ELSE /\ cli' = [cli EXCEPT ![c].st = "HELO_WR", ![c].left = Packet(HELO),
                                ![c].mask = {"WR"}]
          /\ UNCHANGED net
  /\ UNCHANGED <<slot, alive, ops, heard, cast>>

(* on_hs_cb: an error, or the leader's socket closed while reading.        *)
HandshakeBreaks(c) ==
  LET r == cli[c] IN
  /\ r.cb = "hs"
  /\ \/ net[r.fd].rst
     \/ Reading(c) /\ net[r.fd].sgone /\ net[r.fd].down = <<>>
  /\ ToIdle(c)
  /\ UNCHANGED <<slot, alive, ops, heard, cast>>

WriteHelo(c) ==
  LET r == cli[c] IN
  /\ r.cb = "hs" /\ r.st = "HELO_WR" /\ Writing(c)
  /\ net' = WriteUp(r.fd, Head(r.left))
  /\ cli' = [cli EXCEPT ![c] =
       IF Tail(r.left) # <<>> THEN [r EXCEPT !.left = Tail(@)]
       ELSE [r EXCEPT !.left = <<>>, !.st = "WLCM_RD", !.in = <<>>,
                      !.mask = {"RD"}]]
  /\ UNCHANGED <<slot, alive, ops, heard, cast>>

(* Mutant: the buffer is sent but not emptied. *)
FlushedKept(r) ==
  [r EXCEPT !.sent = r.q, !.out = Frames(r.q),
            !.mask = {"RD"} \cup (IF r.q = <<>> THEN {} ELSE {"WR"})]

(* flush_queue on a new Cow1Tcp. *)
Flushed(r) ==
  [r EXCEPT !.q = <<>>, !.sent = r.q, !.out = Frames(r.q),
            !.mask = {"RD"} \cup (IF r.q = <<>> THEN {} ELSE {"WR"})]

(* on_hs_cb reads the Welcome and no byte behind it. *)
ReadWlcm(c) ==
  LET r == cli[c]
      k == r.fd
      got == Append(r.in, Head(net[k].down))
      drained == [net EXCEPT ![k].down = Tail(@)]
  IN
  /\ r.cb = "hs" /\ r.st = "WLCM_RD" /\ Reading(c) /\ net[k].down # <<>>
  /\ \/ /\ Len(got) < Parts
        /\ cli' = [cli EXCEPT ![c].in = got]
        /\ net' = drained
     \/ /\ Len(got) = Parts /\ got # Packet(WLCM)
        /\ cli' = [cli EXCEPT ![c] = IdleClient(@.q)]
        /\ net' = ClientCloses(drained, k)
     \/ /\ got = Packet(WLCM)
        /\ cli' = [cli EXCEPT ![c] =
             Flushed(CowCreate([r EXCEPT !.in = got, !.st = "STREAM", !.cb = "cow",
                                         !.base = Len(heard[c])]))]
        /\ net' = drained
  /\ UNCHANGED <<slot, alive, ops, heard, cast>>

(* s_on_fd of a client: nothing but the interest changes on an error or at *)
(* the end of the stream.                                                  *)
ClientTrouble(c) ==
  LET r == cli[c] IN
  /\ r.cb = "cow"
  /\ \/ /\ net[r.fd].rst
        /\ cli' = [cli EXCEPT ![c] = CowError(r)]
     \/ /\ Reading(c) /\ net[r.fd].sgone /\ net[r.fd].down = <<>>
        /\ cli' = [cli EXCEPT ![c] = CowEof(r)]
  /\ UNCHANGED <<net, slot, alive, ops, heard, cast>>

ClientWrite(c) ==
  LET r == cli[c] IN
  /\ r.cb = "cow" /\ Writing(c) /\ r.out # <<>>
  /\ net' = WriteUp(r.fd, Head(r.out))
  /\ cli' = [cli EXCEPT ![c] = CowWritten(r)]
  /\ UNCHANGED <<slot, alive, ops, heard, cast>>

(* Is the operation a command that the consumer of p answers? *)
Answers(p, id) == ops[id].kind = "command" /\ ops[id].from # p
Answer(p) == [from |-> p, kind |-> "answer"]

(* cli_publish on a stream. *)
SendUp(r, id) == [CowSend(r, id) EXCEPT !.sent = Append(@, id)]

(* s_on_fd reads, on_op_from_server calls the listener. *)
ClientRead(c) ==
  LET r == cli[c]
      k == r.fd
      u == Head(net[k].down)
      id == u[1]
      e == CowRead(r, u)
  IN
  /\ r.cb = "cow" /\ Reading(c) /\ net[k].down # <<>>
  /\ net' = [net EXCEPT ![k].down = Tail(@)]
  /\ IF FrameEnds(r, u) /\ FrameValid(r, u)
     THEN /\ heard' = [heard EXCEPT ![c] = Append(@, id)]
          /\ IF Answers(c, id)
             THEN /\ ops' = Append(ops, Answer(c))
                  /\ cli' = [cli EXCEPT ![c] = SendUp(e, Len(ops) + 1)]
             ELSE /\ cli' = [cli EXCEPT ![c] = e]
                  /\ UNCHANGED ops
     ELSE /\ cli' = [cli EXCEPT ![c] = e]
          /\ UNCHANGED <<heard, ops>>
  /\ UNCHANGED <<slot, alive, cast>>

Published(kind) == Cardinality({i \in DOMAIN ops : ops[i].kind = kind})

(* cli_publish.  Off the stream the operation is buffered, or dropped when *)
(* the buffer is full.                                                     *)
ClientPublish(c, kind) ==
  LET r == cli[c]
      id == Len(ops) + 1
  IN
  /\ Published(kind) < MaxOps[kind]
  /\ ops' = Append(ops, [from |-> c, kind |-> kind])
  /\ cli' = [cli EXCEPT ![c] =
       IF r.st = "STREAM" THEN SendUp(r, id)
       ELSE IF Len(r.q) < MaxBuffered THEN [r EXCEPT !.q = Append(@, id)]
       ELSE r]
  /\ UNCHANGED <<net, slot, alive, heard, cast>>

-----------------------------------------------------------------------------
(* leader_tcp *)

Taken == {k \in Conns : slot[k].state # "none"}

LeaderReads(k) ==
  slot[k].state # "none" /\ "RD" \in slot[k].mask /\ ~net[k].rst
LeaderWrites(k) ==
  slot[k].state # "none" /\ "WR" \in slot[k].mask /\ ~net[k].rst

(* client_close *)
Drop(k) ==
  /\ slot' = [slot EXCEPT ![k] = NoSlot]
  /\ net' = LeaderCloses(net, k)

(* Mutant: the table is not checked. *)
AcceptAlways(k) ==
  /\ alive
  /\ net[k].phase = "up" /\ ~net[k].sgone /\ k \notin Taken
  /\ slot' = [slot EXCEPT ![k] =
       [NoSlot EXCEPT !.state = "helo", !.mask = {"RD"}]]
  /\ UNCHANGED <<net, cli, alive, ops, heard, cast>>

(* Mutant: with the table full the connection is left alone. *)
AcceptLeavesOpen(k) ==
  /\ alive
  /\ net[k].phase = "up" /\ ~net[k].sgone /\ k \notin Taken
  /\ Cardinality(Taken) < MaxClients
  /\ slot' = [slot EXCEPT ![k] =
       [NoSlot EXCEPT !.state = "helo", !.mask = {"RD"}]]
  /\ UNCHANGED <<net, cli, alive, ops, heard, cast>>

(* on_listen: with the table full the connection is closed. *)
Accept(k) ==
  /\ alive
  /\ net[k].phase = "up" /\ ~net[k].sgone /\ k \notin Taken
  /\ IF Cardinality(Taken) < MaxClients
     THEN /\ slot' = [slot EXCEPT ![k] =
                        [NoSlot EXCEPT !.state = "helo", !.mask = {"RD"}]]
          /\ UNCHANGED net
     ELSE /\ net' = LeaderCloses(net, k)
          /\ UNCHANGED slot
  /\ UNCHANGED <<cli, alive, ops, heard, cast>>

(* on_client_hs: an error, or the client's socket closed before its Hello. *)
ClientLeaves(k) ==
  /\ \/ slot[k].state \in {"helo", "wlcm"} /\ net[k].rst
     \/ /\ slot[k].state = "helo" /\ LeaderReads(k)
        /\ net[k].cgone /\ net[k].up = <<>>
  /\ Drop(k)
  /\ UNCHANGED <<cli, alive, ops, heard, cast>>

(* on_client_hs reads the Hello, one for this console is answered. *)
ReadHelo(k) ==
  LET s == slot[k]
      got == Append(s.in, Head(net[k].up))
      good == got = Packet(HELO) /\ ConsoleOf[net[k].by] = ConsoleOf[L]
      drained == [net EXCEPT ![k].up = Tail(@)]
  IN
  /\ s.state = "helo" /\ LeaderReads(k) /\ net[k].up # <<>>
  /\ \/ /\ Len(got) < Parts
        /\ slot' = [slot EXCEPT ![k].in = got]
        /\ net' = drained
     \/ /\ Len(got) = Parts /\ ~good
        /\ slot' = [slot EXCEPT ![k] = NoSlot]
        /\ net' = LeaderCloses(drained, k)
     \/ /\ Len(got) = Parts /\ good
        /\ slot' = [slot EXCEPT ![k] =
             [s EXCEPT !.in = got, !.state = "wlcm", !.left = Packet(WLCM),
                       !.mask = {"RD", "WR"}]]
        /\ net' = drained
  /\ UNCHANGED <<cli, alive, ops, heard, cast>>

WriteWlcm(k) ==
  LET s == slot[k] IN
  /\ s.state = "wlcm" /\ LeaderWrites(k)
  /\ net' = [WriteDown(k, Head(s.left)) EXCEPT ![k].base = Len(cast)]
  /\ slot' = [slot EXCEPT ![k] =
       IF Tail(s.left) # <<>> THEN [s EXCEPT !.left = Tail(@)]
       ELSE CowCreate([s EXCEPT !.left = <<>>, !.state = "stream"])]
  /\ UNCHANGED <<cli, alive, ops, heard, cast>>

(* s_on_fd of the leader on an error or at the end of the stream: the slot *)
(* is never given back.                                                    *)
LeaderTrouble(k) ==
  LET s == slot[k] IN
  /\ s.state = "stream"
  /\ \/ /\ net[k].rst
        /\ slot' = [slot EXCEPT ![k] = CowError(s)]
     \/ /\ LeaderReads(k) /\ net[k].cgone /\ net[k].up = <<>>
        /\ slot' = [slot EXCEPT ![k] = CowEof(s)]
  /\ UNCHANGED <<net, cli, alive, ops, heard, cast>>

LeaderWrite(k) ==
  LET s == slot[k] IN
  /\ s.state = "stream" /\ LeaderWrites(k) /\ s.out # <<>>
  /\ net' = WriteDown(k, Head(s.out))
  /\ slot' = [slot EXCEPT ![k] = CowWritten(s)]
  /\ UNCHANGED <<cli, alive, ops, heard, cast>>

(* Mutant: a client's operation is not sent back to where it came from. *)
BroadcastOthers(sl, from, id) ==
  [k \in Conns |-> IF sl[k].state = "stream" /\ k # from
                   THEN CowSend(sl[k], id) ELSE sl[k]]

(* The loop over the clients that have a Cow1Tcp. *)
Broadcast(sl, from, id) ==
  [k \in Conns |-> IF sl[k].state = "stream" THEN CowSend(sl[k], id) ELSE sl[k]]

(* srv_on_client_op: first the leader's own listener, whose answer to a    *)
(* command is sent out by a nested leader_publish, then everybody.         *)
LeaderRead(k) ==
  LET s == slot[k]
      u == Head(net[k].up)
      id == u[1]
      sl == [slot EXCEPT ![k] = [CowRead(s, u) EXCEPT
               !.took = IF FrameEnds(s, u) THEN Append(@, id) ELSE @]]
      r == Len(ops) + 1
  IN
  /\ s.state = "stream" /\ LeaderReads(k) /\ net[k].up # <<>>
  /\ net' = [net EXCEPT ![k].up = Tail(@)]
  /\ IF FrameEnds(s, u) /\ FrameValid(s, u)
     THEN IF Answers(L, id)
          THEN /\ ops' = Append(ops, Answer(L))
               /\ heard' = [heard EXCEPT ![L] = @ \o <<id, r>>]
               /\ slot' = Broadcast(Broadcast(sl, NoFd, r), k, id)
               /\ cast' = cast \o <<r, id>>
          ELSE /\ heard' = [heard EXCEPT ![L] = Append(@, id)]
               /\ slot' = Broadcast(sl, k, id)
               /\ cast' = Append(cast, id)
               /\ UNCHANGED ops
     ELSE /\ slot' = sl
          /\ UNCHANGED <<heard, cast, ops>>
  /\ UNCHANGED <<cli, alive>>

(* leader_publish *)
LeaderPublish(kind) ==
  LET id == Len(ops) + 1 IN
  /\ alive
  /\ Published(kind) < MaxOps[kind]
  /\ ops' = Append(ops, [from |-> L, kind |-> kind])
  /\ heard' = [heard EXCEPT ![L] = Append(@, id)]
  /\ slot' = Broadcast(slot, NoFd, id)
  /\ cast' = Append(cast, id)
  /\ UNCHANGED <<net, cli, alive>>

(* The leader's program ends: leader_destroy closes its sockets, and those *)
(* nobody accepted are reset.                                              *)
LeaderQuits ==
  /\ alive
  /\ alive' = FALSE
  /\ slot' = [k \in Conns |-> NoSlot]
  /\ net' = [k \in Conns |->
       IF k \in Taken THEN LeaderCloses(net, k)[k]
       ELSE IF net[k].phase = "up"
       THEN [net[k] EXCEPT !.sgone = TRUE, !.up = <<>>, !.rst = @ \/ ~net[k].sgone]
       ELSE net[k]]
  /\ UNCHANGED <<cli, ops, heard, cast>>

-----------------------------------------------------------------------------
(* What the users and the processors may do at any time, *)
User ==
  \/ \E c \in Clients :
       \/ ConnectFails(c)
       \/ \E k \in Conns, async \in Async : Connect(c, k, async)
       \/ Disconnect(c)
       \/ \E kind \in DOMAIN MaxOps : ClientPublish(c, kind)
  \/ \E kind \in DOMAIN MaxOps : LeaderPublish(kind)
  \/ LeaderQuits

(* what the tick of a client and of the leader does. *)
ClientTick(c) ==
  \/ OnConnect(c)
  \/ HandshakeBreaks(c)
  \/ WriteHelo(c)
  \/ ReadWlcm(c)
  \/ ClientTrouble(c)
  \/ ClientWrite(c)
  \/ ClientRead(c)

LeaderTick(k) ==
  \/ Accept(k)
  \/ ClientLeaves(k)
  \/ ReadHelo(k)
  \/ WriteWlcm(k)
  \/ LeaderTrouble(k)
  \/ LeaderWrite(k)
  \/ LeaderRead(k)

Next ==
  \/ User
  \/ \E c \in Clients : ClientTick(c)
  \/ \E k \in Conns : LeaderTick(k) \/ Establish(k) \/ Refuse(k)

Spec == Init /\ [][Next]_vars

(* Every tick calls every descriptor that is ready, reads before it writes *)
(* and reads until there is nothing left; a connection attempt ends.       *)
Fairness ==
  /\ \A c \in Clients :
       /\ WF_vars(OnConnect(c))
       /\ WF_vars(HandshakeBreaks(c) \/ WriteHelo(c) \/ ReadWlcm(c))
       /\ WF_vars(ClientTrouble(c) \/ ClientRead(c))
       /\ WF_vars(ClientWrite(c))
  /\ \A k \in Conns :
       /\ WF_vars(Accept(k))
       /\ WF_vars(ClientLeaves(k) \/ ReadHelo(k) \/ WriteWlcm(k))
       /\ WF_vars(LeaderTrouble(k) \/ LeaderRead(k))
       /\ WF_vars(LeaderWrite(k))
       /\ WF_vars(Establish(k) \/ Refuse(k))

FairSpec == Spec /\ Fairness

-----------------------------------------------------------------------------
(* Properties *)

Ids == 1 .. (MaxOps["line"] + MaxOps["command"] * (Cardinality(Clients) + 1))

Units == {<<m, i>> : m \in Ids \cup {HELO, WLCM}, i \in 1 .. Parts}
Masks == SUBSET {"RD", "WR"}

Conn ==
  [phase : {"unused", "syn", "refused", "up"}, by : Procs, up : Seq(Units),
   down : Seq(Units), cgone : BOOLEAN, sgone : BOOLEAN, rst : BOOLEAN, base : Nat]

CliImpl ==
  [st : {"IDLE", "CONNECTING", "HELO_WR", "WLCM_RD", "STREAM"},
   fd : Conns \cup {NoFd}, cb : {"none", "connect", "hs", "cow"},
   left : Seq(Units), in : Seq(Units), q : Seq(Ids), mask : Masks,
   out : Seq(Units), dec : Seq(Units), eof : BOOLEAN, sent : Seq(Ids), base : Nat]

Slot ==
  [state : {"none", "helo", "wlcm", "stream"}, left : Seq(Units), in : Seq(Units),
   mask : Masks, out : Seq(Units), dec : Seq(Units), eof : BOOLEAN,
   took : Seq(Ids)]

TypeOK ==
  /\ net \in [Conns -> Conn]
  /\ cli \in [Clients -> CliImpl]
  /\ slot \in [Conns -> Slot]
  /\ alive \in BOOLEAN
  /\ ops \in Seq([from : Procs, kind : {"line", "command", "answer"}])
  /\ Len(ops) <= Cardinality(Ids)
  /\ heard \in [Procs -> Seq(Ids)]
  /\ cast \in Seq(Ids)
  /\ \A c \in Clients : Len(cli[c].q) <= MaxBuffered
  /\ Cardinality(Taken) <= MaxClients

(* Both ends of a connection are there, and no error is on it. *)
Joined(c, k) ==
  /\ cli[c].fd = k
  /\ slot[k].state # "none"
  /\ ~net[k].rst

(* What the leader sends a client is the Welcome and then everything it    *)
(* has broadcast since, each frame once and in that order, wherever the    *)
(* packets were cut: nothing is lost, doubled or swapped between the       *)
(* broadcast and the client's listener, and no byte of a frame is taken    *)
(* for handshake or the other way round (leader_tcp.c:115-116, 178-188,    *)
(* 243-246, client_tcp.c:157-176, wire_tcp.c:60-117).                      *)
DownStream ==
  \A c \in Clients, k \in Conns :
    Joined(c, k) /\ slot[k].state \in {"wlcm", "stream"} =>
      LET r == cli[c]
          s == slot[k]
          new == SubSeq(heard[c], r.base + 1, Len(heard[c]))
          came == r.in \o (IF r.st = "STREAM" THEN Frames(new) \o r.dec ELSE <<>>)
          since == IF s.state = "wlcm" THEN <<>>
                   ELSE SubSeq(cast, net[k].base + 1, Len(cast))
      IN  came \o net[k].down \o s.left \o s.out = Packet(WLCM) \o Frames(since)

(* What a client sends is its Hello, the operations it had buffered and    *)
(* then what it publishes, and the leader reads exactly that               *)
(* (client_tcp.c:89-96, 147-176, leader_tcp.c:131-159).                    *)
UpStream ==
  \A c \in Clients, k \in Conns :
    Joined(c, k) /\ cli[c].st # "CONNECTING" =>
      LET r == cli[c]
          s == slot[k]
          came == s.in \o Frames(s.took) \o s.dec
      IN  came \o net[k].up \o r.left \o r.out = Packet(HELO) \o Frames(r.sent)

(* So a stream is whole in both directions, wherever packets are cut and    *)
(* whatever happens to the connections around it.                          *)
StreamsWhole == DownStream /\ UpStream

(* A stream carries the operations of its client in the order they were   *)
(* published, buffered ones first, and no listener hears an operation      *)
(* twice, across answers given from inside a callback, lost connections    *)
(* and new ones (client_tcp.c:79-107, leader_tcp.c:112-117, 242-246).      *)
(* Between two connections of a client there is no order: the leader may   *)
(* still read the old one after the new.                                   *)
Increasing(ids) == \A i, j \in DOMAIN ids : i < j => ids[i] < ids[j]

SenderOrder ==
  /\ \A c \in Clients : Increasing(cli[c].sent \o cli[c].q)
  /\ \A k \in Conns : Increasing(slot[k].took)
  /\ \A p \in Procs : \A i, j \in DOMAIN heard[p] :
       i # j => heard[p][i] # heard[p][j]

(* What the listeners hear is what the log of CastLog lets them hear.  A   *)
(* client is joined while it is on the stream; it has read the log up to   *)
(* the leader's position when the handshake ended, and what it heard since.*)
Pos(c) ==
  IF cli[c].st = "STREAM"
  THEN net[cli[c].fd].base + Len(heard[c]) - cli[c].base
  ELSE -1

Log == INSTANCE CastLog WITH pos <- [c \in Clients |-> Pos(c)]

(* The star implements that log: through partial reads and writes,         *)
(* handshakes, full tables, disconnections and new connections no client   *)
(* hears the log out of order, with a gap while it is joined, or a part of *)
(* it again (leader_tcp.c, client_tcp.c, wire_tcp.c).                      *)
KeepsLog == Log!Spec

(* A handshake that has begun ends, with the stream or back at idle, also  *)
(* when the leader refuses the client, has no place for it or dies         *)
(* (client_tcp.c:140-178, leader_tcp.c:122-214).                           *)
HandshakeEnds ==
  \A c \in Clients : cli[c].cb = "hs" ~> cli[c].cb # "hs"

(* A connection attempt ends: when the connection is there the client      *)
(* prepares its Hello and goes on to write it (client_tcp.c:130).          *)
ConnectEnds ==
  \A c \in Clients :
    cli[c].st = "CONNECTING" ~> cli[c].st \in {"WLCM_RD", "STREAM", "IDLE"}

(* An operation given to a stream comes back to its publisher's listener,  *)
(* which ends the speculation about it, unless the stream is cut           *)
(* (leader_tcp.c:114-117: to all, the sender included).                    *)
OnStream(c, id) ==
  /\ cli[c].st = "STREAM"
  /\ id \in {cli[c].sent[i] : i \in DOMAIN cli[c].sent}
  /\ LET k == cli[c].fd IN ~net[k].rst /\ ~net[k].sgone

EchoArrives ==
  \A c \in Clients, id \in Ids :
    OnStream(c, id) ~> \/ id \in {heard[c][i] : i \in DOMAIN heard[c]}
                       \/ ~OnStream(c, id)

=============================================================================

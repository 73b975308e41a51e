------------------------------ MODULE CrdtMesh ------------------------------
(***************************************************************************)
(* The mesh backend (src/src/replication/backends/crdt_mesh.c): processes  *)
(* that dial each other and flood operations over the connections, each    *)
(* remembering what it has seen.  Two processes may be connected twice,    *)
(* in both directions, and a process may have dialled itself.              *)
(*                                                                         *)
(* A connection carries whole frames in order (TcpStar checks that for the *)
(* framing both backends use).  It has an end at each process; an end is   *)
(* a Peer of its process from on_connect or accept on, and stays one: the  *)
(* backend never removes a peer, not even when its connection is gone.     *)
(* The table of seen operations is the set DedupTable shows it to be.      *)
(***************************************************************************)
EXTENDS Integers, Sequences, FiniteSets

CONSTANTS
  Nodes,       \* processes
  MaxLinks,    \* bound on the connections ever made
  MaxPeers,    \* CRDT_MAX_PEERS
  Seeds,       \* pairs <<n, m>>: n has m as a seed, or a user adds it
  Movers,      \* processes whose hub moves its listener to another backend and back
  Mortal,      \* processes that may end
  MaxOps       \* MaxOps[kind]: bound on the operations published, by kind

Links == 1 .. MaxLinks
Sides == {"out", "in"}     \* the end that dialled and the end that accepted
Ends  == Links \X Sides
Other(side) == IF side = "out" THEN "in" ELSE "out"
Opposite(e) == <<e[1], Other(e[2])>>

ASSUME MeshAssumption ==
  /\ IsFiniteSet(Nodes)
  /\ MaxLinks \in Nat
  /\ MaxPeers \in Nat
  /\ Seeds \in SUBSET (Nodes \X Nodes)
  /\ MaxOps \in [{"line", "command"} -> Nat]

VARIABLES
  link,      \* link[k]: phase of connection k and who made it
  end,       \* end[e]: st is "peer" while the process has the end in its table
  ops,       \* ops[id]: who published operation id, and what it is
  seen,      \* seen[n]: operations in n's table, in the order it saw them
  heard,     \* heard[n]: operations n's listener was called with
  listening, \* listening[n]: the mesh of n has the listener of n's console
  alive      \* processes that run

vars == <<link, end, ops, seen, heard, listening, alive>>

(* The frames an end has sent since it is a peer, how many of its          *)
(* opposite's frames it has read, and how much its process had seen when   *)
(* the end became a peer.                                                  *)
NoEnd == [st |-> "none", wire |-> <<>>, got |-> 0, base |-> 0]

Init ==
  /\ link = [k \in Links |-> [phase |-> "unused", pair |-> <<>>]]
  /\ end = [e \in Ends |-> NoEnd]
  /\ ops = <<>>
  /\ seen = [n \in Nodes |-> <<>>]
  /\ heard = [n \in Nodes |-> <<>>]
  /\ listening = [n \in Nodes |-> n \notin Movers]
  /\ alive = Nodes

-----------------------------------------------------------------------------
Used(k) == link[k].phase # "unused"
NodeOf(e) == link[e[1]].pair[IF e[2] = "out" THEN 1 ELSE 2]

(* r->peers of process n. *)
Peers(n) == {e \in Ends : end[e].st = "peer" /\ NodeOf(e) = n}

(* Mutant: the table is checked too late. *)
RoomOffByOne(n) == Cardinality(Peers(n)) <= MaxPeers

Room(n) == Cardinality(Peers(n)) < MaxPeers

(* What has been sent to an end and it has not read yet. *)
Pending(e) ==
  LET w == end[Opposite(e)].wire IN SubSeq(w, end[e].got + 1, Len(w))

(* The console's type yields no snapshot, so a new peer is sent nothing.   *)
NewPeer(n) ==
  [NoEnd EXCEPT !.st = "peer", !.base = Len(seen[n])]

-----------------------------------------------------------------------------
(* dial_seed: connected at once, in progress, or failed (no step).  A      *)
(* process with a full table closes the connection it has just made.       *)
Fresh(k) == \A j \in Links : Used(j) <=> j < k

DialNow(n, m, k) ==
  /\ {n, m} \subseteq alive /\ <<n, m>> \in Seeds /\ Fresh(k)
  /\ link' = [link EXCEPT ![k] =
       [phase |-> IF Room(n) THEN "up" ELSE "cut", pair |-> <<n, m>>]]
  /\ end' = [end EXCEPT ![<<k, "out">>] =
       IF Room(n) THEN NewPeer(n) ELSE [NoEnd EXCEPT !.st = "closed"]]
  /\ UNCHANGED <<ops, seen, heard, listening, alive>>

DialLater(n, m, k) ==
  /\ n \in alive /\ <<n, m>> \in Seeds /\ Fresh(k)
  /\ link' = [link EXCEPT ![k] = [phase |-> "syn", pair |-> <<n, m>>]]
  /\ end' = [end EXCEPT ![<<k, "out">>].st = "dialing"]
  /\ UNCHANGED <<ops, seen, heard, listening, alive>>

(* The attempt succeeds or fails in the network. *)
Establish(k) ==
  /\ link[k].phase = "syn" /\ link[k].pair[2] \in alive
  /\ link' = [link EXCEPT ![k].phase = "up"]
  /\ UNCHANGED <<end, ops, seen, heard, listening, alive>>

Refuse(k) ==
  /\ link[k].phase = "syn"
  /\ link' = [link EXCEPT ![k].phase = "refused"]
  /\ UNCHANGED <<end, ops, seen, heard, listening, alive>>

Breaks(k) == link' = [link EXCEPT ![k].phase = "cut"]

(* on_connect: a connection the other side has closed in the meantime may  *)
(* still look connected.                                                   *)
OnConnect(k) ==
  LET e == <<k, "out">>
      n == NodeOf(e)
  IN
  /\ end[e].st = "dialing" /\ link[k].phase # "syn" /\ n \in alive
  /\ \/ /\ link[k].phase \in {"refused", "cut"}
        /\ end' = [end EXCEPT ![e].st = "closed"]
        /\ UNCHANGED link
     \/ /\ link[k].phase \in {"up", "cut"} /\ Room(n)
        /\ end' = [end EXCEPT ![e] = NewPeer(n)]
        /\ UNCHANGED link
     \/ /\ link[k].phase \in {"up", "cut"} /\ ~Room(n)
        /\ end' = [end EXCEPT ![e].st = "closed"]
        /\ Breaks(k)
  /\ UNCHANGED <<ops, seen, heard, listening, alive>>

(* on_listen *)
Accept(k) ==
  LET e == <<k, "in">>
      n == NodeOf(e)
  IN
  /\ link[k].phase \in {"up", "cut"} /\ end[e].st = "none" /\ n \in alive
  /\ IF Room(n)
     THEN /\ end' = [end EXCEPT ![e] = NewPeer(n)]
          /\ UNCHANGED link
     ELSE /\ end' = [end EXCEPT ![e].st = "closed"]
          /\ Breaks(k)
  /\ UNCHANGED <<ops, seen, heard, listening, alive>>

-----------------------------------------------------------------------------
(* cow1tcp_send to all peers of n but one.  Of a connection that is gone   *)
(* only the queue grows, which nobody reads.                               *)
Send(en, n, except, id) ==
  [e \in Ends |->
     IF e \in Peers(n) \ {except} /\ link[e[1]].phase = "up"
     THEN [en[e] EXCEPT !.wire = Append(@, id)] ELSE en[e]]

Nobody == <<0, "none">>

Elems(seq) == {seq[i] : i \in DOMAIN seq}
Published(kind) == Cardinality({i \in DOMAIN ops : ops[i].kind = kind})

IsNew(n, id) == id \notin Elems(seen[n])
Remembers(n, ids) == seen' = [seen EXCEPT ![n] = @ \o ids]
Hears(n, ids) ==
  heard' = [heard EXCEPT ![n] = IF listening[n] THEN @ \o ids ELSE @]

Reads(e) == end[e].st = "peer" /\ NodeOf(e) \in alive /\ Pending(e) # <<>>

(* on_peer_op for an operation that was seen before, *)
PeerOpSeen(e) ==
  /\ Reads(e)
  /\ ~IsNew(NodeOf(e), Head(Pending(e)))
  /\ end' = [end EXCEPT ![e].got = @ + 1]
  /\ UNCHANGED <<link, ops, seen, heard, listening, alive>>

(* Mutant: the operation is not remembered. *)
PeerOpForgets(e) ==
  LET n  == NodeOf(e)
      id == Head(Pending(e))
  IN
  /\ Reads(e) /\ IsNew(n, id)
  /\ Hears(n, <<id>>)
  /\ end' = Send([end EXCEPT ![e].got = @ + 1], n, e, id)
  /\ UNCHANGED <<link, ops, seen, listening, alive>>

(* Mutant: only a process whose listener is there sends it on. *)
PeerOpKeeps(e) ==
  LET n  == NodeOf(e)
      id == Head(Pending(e))
      read == [end EXCEPT ![e].got = @ + 1]
  IN
  /\ Reads(e) /\ IsNew(n, id)
  /\ Remembers(n, <<id>>)
  /\ Hears(n, <<id>>)
  /\ end' = IF listening[n] THEN Send(read, n, e, id) ELSE read
  /\ UNCHANGED <<link, ops, listening, alive>>

(* Mutant: the answer is not sent to where the command came from. *)
PeerOpAnswersOthers(e) ==
  LET n  == NodeOf(e)
      id == Head(Pending(e))
      r  == Len(ops) + 1
      read == [end EXCEPT ![e].got = @ + 1]
      answered == listening[n] /\ ops[id].kind = "command"
      new == IF answered THEN <<id, r>> ELSE <<id>>
  IN
  /\ Reads(e) /\ IsNew(n, id)
  /\ Remembers(n, new)
  /\ Hears(n, new)
  /\ IF answered
     THEN /\ ops' = Append(ops, [from |-> n, kind |-> "answer"])
          /\ end' = Send(Send(read, n, e, r), n, e, id)
     ELSE /\ end' = Send(read, n, e, id)
          /\ UNCHANGED ops
  /\ UNCHANGED <<link, listening, alive>>

(* and for a new one: remember it, call the listener, send it on.  The     *)
(* console's answer to a command is published from inside the listener, so *)
(* it goes out, to everybody, before the command does.                     *)
PeerOp(e) ==
  LET n  == NodeOf(e)
      id == Head(Pending(e))
      r  == Len(ops) + 1
      read == [end EXCEPT ![e].got = @ + 1]
      answered == listening[n] /\ ops[id].kind = "command"
      new == IF answered THEN <<id, r>> ELSE <<id>>
  IN
  /\ Reads(e) /\ IsNew(n, id)
  /\ Remembers(n, new)
  /\ Hears(n, new)
  /\ IF answered
     THEN /\ ops' = Append(ops, [from |-> n, kind |-> "answer"])
          /\ end' = Send(Send(read, n, Nobody, r), n, e, id)
     ELSE /\ end' = Send(read, n, e, id)
          /\ UNCHANGED ops
  /\ UNCHANGED <<link, listening, alive>>

(* Mutant: what a process publishes itself is not remembered. *)
PublishForgets(n, kind) ==
  LET id == Len(ops) + 1 IN
  /\ n \in alive
  /\ Published(kind) < MaxOps[kind]
  /\ ops' = Append(ops, [from |-> n, kind |-> kind])
  /\ Hears(n, <<id>>)
  /\ end' = Send(end, n, Nobody, id)
  /\ UNCHANGED <<link, seen, listening, alive>>

(* cm_publish *)
Publish(n, kind) ==
  LET id == Len(ops) + 1 IN
  /\ n \in alive
  /\ Published(kind) < MaxOps[kind]
  /\ ops' = Append(ops, [from |-> n, kind |-> kind])
  /\ Remembers(n, <<id>>)
  /\ Hears(n, <<id>>)
  /\ end' = Send(end, n, Nobody, id)
  /\ UNCHANGED <<link, listening, alive>>

(* cm_set_listener, cm_unset_listener *)
MoveListener(n) ==
  /\ n \in Movers \cap alive
  /\ listening' = [listening EXCEPT ![n] = ~@]
  /\ UNCHANGED <<link, end, ops, seen, heard, alive>>

(* The network cuts a connection; a process ends (cm_destroy).  What is on *)
(* its way may still be read, or never.                                    *)
Cut(k) ==
  /\ link[k].phase = "up"
  /\ Breaks(k)
  /\ UNCHANGED <<end, ops, seen, heard, listening, alive>>

Quit(n) ==
  /\ n \in Mortal \cap alive
  /\ alive' = alive \ {n}
  /\ link' = [k \in Links |->
       IF n \notin Elems(link[k].pair) THEN link[k]
       ELSE [link[k] EXCEPT !.phase =
               CASE @ = "up" -> "cut" [] @ = "syn" -> "refused" [] OTHER -> @]]
  /\ UNCHANGED <<end, ops, seen, heard, listening>>

Next ==
  \/ \E n \in Nodes, m \in Nodes, k \in Links : DialNow(n, m, k) \/ DialLater(n, m, k)
  \/ \E k \in Links : Establish(k) \/ Refuse(k) \/ OnConnect(k) \/ Accept(k) \/ Cut(k)
  \/ \E e \in Ends : PeerOpSeen(e) \/ PeerOp(e)
  \/ \E n \in Nodes :
       \/ \E kind \in DOMAIN MaxOps : Publish(n, kind)
       \/ MoveListener(n)
       \/ Quit(n)

Spec == Init /\ [][Next]_vars

(* The poller calls every descriptor that is ready in every tick; attempts *)
(* to connect end.                                                         *)
Fairness ==
  /\ \A k \in Links :
       WF_vars(Establish(k) \/ Refuse(k)) /\ WF_vars(OnConnect(k)) /\ WF_vars(Accept(k))
  /\ \A e \in Ends : WF_vars(PeerOpSeen(e) \/ PeerOp(e))

FairSpec == Spec /\ Fairness

-----------------------------------------------------------------------------
(* Properties *)

(* The operations that were published.                                     *)
Made == 1 .. Len(ops)

Link ==
  [phase : {"unused", "syn", "refused", "up", "cut"},
   pair : {<<>>} \cup (Nodes \X Nodes)]

PeerEnd ==
  [st : {"none", "dialing", "peer", "closed"}, wire : Seq(Made),
   got : Nat, base : Nat]

TypeOK ==
  /\ link \in [Links -> Link]
  /\ end \in [Ends -> PeerEnd]
  /\ ops \in Seq([from : Nodes, kind : {"line", "command", "answer"}])
  /\ seen \in [Nodes -> Seq(Made)]
  /\ heard \in [Nodes -> Seq(Made)]
  /\ listening \in [Nodes -> BOOLEAN]
  /\ alive \subseteq Nodes
  /\ \A n \in Nodes : Cardinality(Peers(n)) <= MaxPeers

Distinct(seq) == \A i, j \in DOMAIN seq : i # j => seq[i] # seq[j]

(* No listener hears an operation twice, however many ways lead to its     *)
(* process and whatever the hub does with the listener                     *)
(* (crdt_mesh.c:192-208, 322-326).                                         *)
HeardOnce == \A n \in Nodes : Distinct(heard[n])

(* An operation crosses a connection at most once in each direction: the   *)
(* flood ends, in cycles too (crdt_mesh.c:209-214, 327-330).               *)
CrossesOnce == \A e \in Ends : Distinct(end[e].wire)

(* Everything a process has seen since a connection of it came up is known *)
(* to the process at the other end or on its way there, in whatever order  *)
(* publications, floods, answers and new connections were interleaved      *)
(* (crdt_mesh.c:181-217, 259-264, 313-333).                                *)
Since(e) ==
  LET s == seen[NodeOf(e)] IN {s[i] : i \in end[e].base + 1 .. Len(s)}

Joined(e) == link[e[1]].phase = "up" /\ end[e].st = "peer"

LinkAgree ==
  \A e \in Ends :
    Joined(e) =>
      Since(e) \subseteq Elems(seen[NodeOf(Opposite(e))])
                            \cup Elems(Pending(Opposite(e)))

(* The operations there can be: a command is answered by every process.    *)
Ids == 1 .. (MaxOps["line"] + MaxOps["command"] * Cardinality(Nodes))

(* What a process sees reaches its neighbours, unless the connection       *)
(* breaks or the neighbour has no place for it (crdt_mesh.c:207-214).      *)
Missing(e, id) ==
  /\ Joined(e)
  /\ id \in Since(e)
  /\ id \notin Elems(seen[NodeOf(Opposite(e))])

Spreads == \A e \in Ends, id \in Ids : Missing(e, id) ~> ~Missing(e, id)
=============================================================================

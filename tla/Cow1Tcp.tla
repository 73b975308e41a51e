------------------------------ MODULE Cow1Tcp -------------------------------
(***************************************************************************)
(* COW1 framing over a non-blocking socket (src/src/net/wire_tcp.c with    *)
(* the stream decoder of src/src/net/conop_wire.c).  A packet on the wire  *)
(* is Parts units; a read or a write moves whole units, so packets are cut *)
(* at every unit boundary.  The same packets carry the HELO/WLCM handshake *)
(* that leader_tcp.c and client_tcp.c put in front of the frames.          *)
(*                                                                         *)
(* An endpoint is any record with the fields mask (the poller's interest), *)
(* out (OutQ: what is not written yet), dec (Cow1Decoder: a frame that has *)
(* not arrived whole) and eof (recv() has returned 0).                     *)
(***************************************************************************)
EXTENDS Integers, Sequences

CONSTANT Parts     \* units of a packet

ASSUME PartsAssumption == Parts \in Nat \ {0}

Packet(m) == [i \in 1 .. Parts |-> <<m, i>>]

(* The frames of a sequence of operations, end to end. *)
Frames(ids) ==
  [i \in 1 .. Len(ids) * Parts |->
     <<ids[((i - 1) \div Parts) + 1], ((i - 1) % Parts) + 1>>]

-----------------------------------------------------------------------------
(* Mutant: the interest in writing is dropped with every callback. *)
InterestReadOnly(out) == {"RD"}

(* What net_poller_mod is given after every callback that is not an error. *)
Interest(out) == {"RD"} \cup (IF out = <<>> THEN {} ELSE {"WR"})

(* cow1tcp_create *)
CowCreate(e) ==
  [e EXCEPT !.mask = {"RD"}, !.out = <<>>, !.dec = <<>>, !.eof = FALSE]

(* cow1tcp_send *)
CowSend(e, m) ==
  [e EXCEPT !.out = @ \o Packet(m), !.mask = {"RD", "WR"}]

(* The NET_ERR branch of s_on_fd. *)
CowError(e) == [e EXCEPT !.mask = {"RD"}]

(* s_on_fd when recv() returns 0: the interest is first cut to NET_ERR,    *)
(* then set again by the end of the callback.                              *)
CowEof(e) == [e EXCEPT !.eof = TRUE, !.mask = Interest(e.out)]

(* s_on_fd writes one unit. *)
CowWritten(e) ==
  [e EXCEPT !.out = Tail(@), !.mask = Interest(Tail(e.out))]

(* s_on_fd reads unit u.  A frame that is complete leaves the decoder,     *)
(* also when it is not a valid one.                                        *)
Received(e, u) == Append(e.dec, u)
FrameEnds(e, u) == Len(Received(e, u)) = Parts
FrameValid(e, u) == Received(e, u) = Packet(u[1])

(* Mutant: the decoder starts anew with every callback. *)
CowReadForgets(e, u) == [e EXCEPT !.dec = <<>>, !.mask = Interest(e.out)]

CowRead(e, u) ==
  [e EXCEPT !.dec  = IF FrameEnds(e, u) THEN <<>> ELSE Received(e, u),
            !.mask = Interest(e.out)]
=============================================================================

------------------------------ MODULE CastLog -------------------------------
(***************************************************************************)
(* What the TCP star promises its listeners, without sockets, handshakes   *)
(* or buffers: the leader appends operations to one log, and a client that *)
(* is joined reads the log in order from a place no earlier than what it   *)
(* has read before.  The leader's own listener is told of operations as    *)
(* they come, so an answer the leader gives from inside its listener is in *)
(* the log before the command it answers, and after it in the leader's     *)
(* ears (leader_tcp.c:112-117).                                            *)
(***************************************************************************)
EXTENDS Integers, Sequences

CONSTANTS
  Clients,
  L,          \* the leader, no client
  Ids         \* operations

VARIABLES
  cast,       \* the log
  heard,      \* heard[p]: what the listener of p was told
  pos         \* pos[c]: how much of the log a joined client has read, or Off

vars == <<cast, heard, pos>>

Off == -1

Logged(n) == {cast[i] : i \in 1 .. n}
New == Ids \ Logged(Len(cast))

Init ==
  /\ cast = <<>>
  /\ heard = [p \in Clients \cup {L} |-> <<>>]
  /\ pos = [c \in Clients |-> Off]

CastOne(id) ==
  /\ cast' = Append(cast, id)
  /\ heard' = [heard EXCEPT ![L] = Append(@, id)]
  /\ UNCHANGED pos

CastAnswered(id, answer) ==
  /\ cast' = cast \o <<answer, id>>
  /\ id # answer
  /\ heard' = [heard EXCEPT ![L] = @ \o <<id, answer>>]
  /\ UNCHANGED pos

Join(c) ==
  \E n \in 0 .. Len(cast) :
    /\ pos[c] = Off
    /\ \A i \in DOMAIN heard[c] : heard[c][i] \in Logged(n)
    /\ pos' = [pos EXCEPT ![c] = n]
    /\ UNCHANGED <<cast, heard>>

Hear(c) ==
  /\ pos[c] # Off /\ pos[c] < Len(cast)
  /\ pos' = [pos EXCEPT ![c] = @ + 1]
  /\ heard' = [heard EXCEPT ![c] = Append(@, cast[pos[c] + 1])]
  /\ UNCHANGED cast

Leave(c) ==
  /\ pos[c] # Off
  /\ pos' = [pos EXCEPT ![c] = Off]
  /\ UNCHANGED <<cast, heard>>

(* What casts makes the log longer, and what a client does moves its place: *)
(* TLC need not try more than that on a step.                              *)
Next ==
  \/ /\ cast' # cast
     /\ \E id \in New :
          CastOne(id) \/ \E answer \in New : CastAnswered(id, answer)
  \/ pos' # pos /\ \E c \in Clients : Join(c) \/ Hear(c) \/ Leave(c)

Spec == Init /\ [][Next]_vars

-----------------------------------------------------------------------------
(* Any two clients hear the operations both of them hear in the same       *)
(* order, whenever they came and went: the star keeps the order between    *)
(* clients (leader_tcp.c:115-116).                                         *)
ClientsAgree ==
  \A c, d \in Clients :
    \A i, j \in DOMAIN heard[c] : \A m, n \in DOMAIN heard[d] :
      i < j /\ heard[c][i] = heard[d][m] /\ heard[c][j] = heard[d][n] => m < n
=============================================================================

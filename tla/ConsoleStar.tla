---------------------------- MODULE ConsoleStar -----------------------------
(***************************************************************************)
(* The sinks of a replicated console (src/src/apps/console_sink.c) behind  *)
(* their hubs, over the TCP star.  A sink applies its own operations at    *)
(* once, remembers them as pending and publishes them; on confirmation it  *)
(* drops what it knows as applied, ends the speculation for what is        *)
(* pending and applies everything else.  A foreign command also runs the   *)
(* processor (ConsoleCommands), whose answers are new operations, and a    *)
(* foreign delta is merged into the slider it is for (ColorRegister).      *)
(*                                                                         *)
(* The star carries whole operations in order (TcpStar), and the hub of a  *)
(* client publishes to the leader while the client is connected and to     *)
(* local_loop otherwise.  The hub moves the listener only when something   *)
(* is published (ReplHub): between connecting and that publication a       *)
(* client's console is deaf.                                               *)
(***************************************************************************)
EXTENDS Integers, Sequences, FiniteSets, ColorRegister, ConsoleCommands

CONSTANTS
  Clients,
  L,            \* the process with leader_tcp
  PendingMax,   \* CON_SINK_PENDING_MAX
  AppliedMax,   \* CON_SINK_APPLIED_MAX
  Leavers,      \* clients that may disconnect
  Actor,        \* Actor[p]: the actor_id of p's sink
  Lines,        \* the command lines that are typed
  MaxJoins,     \* bound on the connections of a client
  MaxHlc,       \* bound on the clocks of drags
  Budgets,      \* bounds on what users do, by kind: one of them is kept to
  MaxId         \* bound on the operations this makes

Procs == Clients \cup {L}

ASSUME ConsoleAssumption ==
  /\ L \notin Clients
  /\ IsFiniteSet(Clients)
  /\ PendingMax \in Nat \ {0}
  /\ AppliedMax \in Nat \ {0}
  /\ Actor \in [Procs -> Nat \ {0}]
  /\ \A p, q \in Procs : Actor[p] = Actor[q] => p = q
  /\ \A line \in Lines : OnlyAnswers(line) /\ Answers(line) \in Nat
  /\ {MaxJoins, MaxHlc, MaxId} \subseteq Nat
  /\ Budgets \subseteq [{"edit", "command", "drag"} -> Nat]

VARIABLES
  sink,    \* sink[p]: the op_ids pending and applied in p's ConsoleSink
  done,    \* done[p]: the operations whose effect was applied at p
  again,   \* pairs <<p, id>>: it was applied there a second time
  slider,  \* slider[p]: a colour slider that was put in while all listened
  clock,   \* clock[p]: last_hlc when p last published a delta
  ops,     \* ops[id]: who published operation id, and what it is
  up,      \* up[c]: operations on their way from c to the leader
  late,    \* late[c]: the same, on connections c has left
  down,    \* down[c]: on their way from the leader to c
  joins,   \* joins[c]: connections c has had
  joined,  \* clients that are connected
  onstar,  \* clients whose hub has moved the console's listener to client_tcp
  cast,    \* operations the leader has sent to its clients
  from     \* from[c]: what had been cast when c, connected, last began to listen

vars == <<sink, done, again, slider, clock, ops, up, late, down, joins, joined,
          onstar, cast, from>>

Init ==
  /\ sink = [p \in Procs |-> [pending |-> <<>>, applied |-> <<>>]]
  /\ done = [p \in Procs |-> {}]
  /\ again = {}
  /\ slider = [p \in Procs |-> NewSlider]
  /\ clock = [p \in Procs |-> 0]
  /\ ops = <<>>
  /\ up = [c \in Clients |-> <<>>]
  /\ late = [c \in Clients |-> <<>>]
  /\ down = [c \in Clients |-> <<>>]
  /\ joins = [c \in Clients |-> 0]
  /\ joined = {}
  /\ onstar = {}
  /\ cast = <<>>
  /\ from = [c \in Clients |-> 0]

-----------------------------------------------------------------------------
(* The two windows of a sink *)

Elems(seq) == {seq[i] : i \in DOMAIN seq}

(* Mutant: the window is checked too late. *)
PushLate(window, max, id) ==
  Append(IF Len(window) <= max THEN window ELSE Tail(window), id)

(* A full window forgets its oldest entry. *)
Push(window, max, id) ==
  Append(IF Len(window) < max THEN window ELSE Tail(window), id)

PendingAdd(s, id) == [s EXCEPT !.pending = Push(@, PendingMax, id)]
AppliedAdd(s, id) == [s EXCEPT !.applied = Push(@, AppliedMax, id)]

(* Of an operation that is pending, the first entry is taken out. *)
PendingDel(s, id) ==
  LET w == s.pending
      i == CHOOSE i \in DOMAIN w : w[i] = id /\ \A j \in 1 .. i - 1 : w[j] # id
  IN  [s EXCEPT !.pending = SubSeq(w, 1, i - 1) \o SubSeq(w, i + 1, Len(w))]

(* Mutant: what is pending is not told apart. *)
IsForeignSpeculated(s, id) == id \notin Elems(s.applied)

(* Mutant: while something is pending everything is taken for an echo. *)
IsForeignWhenIdle(s, id) == s.pending = <<>> /\ id \notin Elems(s.applied)

(* on_confirm applies what it neither knows as applied nor as pending. *)
IsForeign(s, id) == id \notin Elems(s.applied) \cup Elems(s.pending)


(* Mutant: the end of the speculation is not noted. *)
SettledForgets(s, id) ==
  IF id \in Elems(s.applied) THEN s
  ELSE AppliedAdd(s, id)

Settled(s, id) ==
  IF id \in Elems(s.applied) THEN s
  ELSE IF id \in Elems(s.pending) THEN AppliedAdd(PendingDel(s, id), id)
  ELSE AppliedAdd(s, id)

-----------------------------------------------------------------------------
(* Publishing the operations ids one after the other: pending_add, then    *)
(* the hub.  The leader and local_loop confirm inside publish(), so there  *)
(* the speculation ends at once.                                           *)
Speculated(s, ids) ==
  LET after[n \in 0 .. Len(ids)] ==
        IF n = 0 THEN s ELSE PendingAdd(after[n - 1], ids[n])
  IN  after[Len(ids)]

Confirmed(s, ids) ==
  LET after[n \in 0 .. Len(ids)] ==
        IF n = 0 THEN s ELSE Settled(PendingAdd(after[n - 1], ids[n]), ids[n])
  IN  after[Len(ids)]

(* The leader sends operations to all its clients. *)
Cast(dn, ids) ==
  [c \in Clients |-> IF c \in joined THEN dn[c] \o ids ELSE dn[c]]

(* What a client's publications do: the hub chooses client_tcp while it is *)
(* healthy, and moves the listener where it publishes.                     *)
ClientPublishes(c, s, ids) ==
  IF c \in joined
  THEN /\ sink' = [sink EXCEPT ![c] = Speculated(s, ids)]
       /\ up' = [up EXCEPT ![c] = @ \o ids]
       /\ onstar' = onstar \cup {c}
       /\ from' = IF c \in onstar THEN from ELSE [from EXCEPT ![c] = Len(cast)]
  ELSE /\ sink' = [sink EXCEPT ![c] = Confirmed(s, ids)]
       /\ onstar' = onstar \ {c}
       /\ UNCHANGED <<up, from>>

Publishes(p, ids) ==
  IF p = L
  THEN /\ sink' = [sink EXCEPT ![L] = Confirmed(@, ids)]
       /\ down' = Cast(down, ids)
       /\ cast' = cast \o ids
       /\ UNCHANGED <<up, onstar, from>>
  ELSE /\ ClientPublishes(p, sink[p], ids)
       /\ UNCHANGED <<down, cast>>

(* The effects of operations at p, and what they make of its slider.       *)
Applies(p, ids) ==
  /\ done' = [done EXCEPT ![p] = @ \cup ids]
  /\ again' = again \cup ({p} \X (ids \cap done[p]))

Shows(p, new) == slider' = [slider EXCEPT ![p] = new]

Op(p, kind) == [by |-> p, kind |-> kind, line |-> <<>>, hlc |-> 0]
Typed(p, line) == [Op(p, "command") EXCEPT !.line = line]
Delta(p, h) == [Op(p, "drag") EXCEPT !.hlc = h]

(* The payload of a delta: the header's stamp and the value. *)
Payload(id, op) == [val |-> id, ver |-> [hlc |-> op.hlc, actor |-> Actor[op.by]]]

(* What an operation applied at p makes of p's slider. *)
AfterOp(p, id) ==
  IF ops[id].kind = "drag" THEN Merged(slider[p], Payload(id, ops[id]))
  ELSE slider[p]

(* The processor's answers to a line, published in turn. *)
AnswersOf(p, line) == [i \in 1 .. Answers(line) |-> Op(p, "answer")]
NextIds(k) == [i \in 1 .. k |-> Len(ops) + i]
Elements(k) == Len(ops) + 1 .. Len(ops) + k

Kinds == {"edit", "command", "drag"}
Done(kind) == Cardinality({i \in DOMAIN ops : ops[i].kind = kind})

(* One more of a kind is within some budget. *)
Fits(kind) ==
  \E b \in Budgets : \A k \in Kinds : Done(k) + (IF k = kind THEN 1 ELSE 0) <= b[k]

(* A line, an edit of the prompt, a widget or a message to one             *)
(* (con_sink_append_line, _submit_text, _backspace, _insert_widget_color,  *)
(* _widget_message): apply, then publish.                                  *)
Edit(p) ==
  /\ Fits("edit")
  /\ ops' = Append(ops, Op(p, "edit"))
  /\ Applies(p, Elements(1))
  /\ Publishes(p, NextIds(1))
  /\ UNCHANGED <<slider, clock, late, joins, joined>>

(* con_sink_commit of a line that is not empty: the prompt's change is     *)
(* published, then the command is inserted and run, so that its answers    *)
(* are published before the command itself is.                             *)
Commit(p, line) ==
  LET k == Answers(line) + 2 IN
  /\ Fits("command")
  /\ ops' = ops \o <<Op(p, "prompt")>> \o AnswersOf(p, line) \o <<Typed(p, line)>>
  /\ Applies(p, Elements(k))
  /\ Publishes(p, NextIds(k))
  /\ UNCHANGED <<slider, clock, late, joins, joined>>

(* A drag of the slider (win_console.c:512-549): the event changes the     *)
(* value, then its delta is stamped, applied and published.  Time and      *)
(* every publication move the clock on, so the stamp is any number above   *)
(* the last; the operation's own hlc is one more tick.                     *)
DragAt(p, h) ==
  LET id == Len(ops) + 1 IN
  /\ Fits("drag")
  /\ clock' = [clock EXCEPT ![p] = h + 1]
  /\ ops' = Append(ops, Delta(p, h))
  /\ Shows(p, Merged(Moved(slider[p], id), Payload(id, Delta(p, h))))
  /\ Applies(p, {id})
  /\ Publishes(p, <<id>>)
  /\ UNCHANGED <<late, joins, joined>>

(* con_sink_tick_hlc *)
Ticks(p) == {h \in 1 .. MaxHlc : h > clock[p]}

Drag(p) == \E h \in Ticks(p) : DragAt(p, h)

-----------------------------------------------------------------------------
(* on_confirm for operation id at a client that listens to its leader. *)
ClientHears(c) ==
  LET id == Head(down[c])
      s  == Settled(sink[c], id)
      foreign == IsForeign(sink[c], id)
      line == ops[id].line
      k == Answers(line)
  IN
  /\ c \in joined /\ down[c] # <<>>
  /\ down' = [down EXCEPT ![c] = Tail(@)]
  /\ \/ /\ c \in onstar /\ foreign /\ ops[id].kind = "command"
        /\ ops' = ops \o AnswersOf(c, line)
        /\ Applies(c, {id} \cup Elements(k))
        /\ ClientPublishes(c, s, NextIds(k))
        /\ UNCHANGED slider
     \/ /\ c \in onstar /\ foreign /\ ops[id].kind # "command"
        /\ Applies(c, {id})
        /\ Shows(c, AfterOp(c, id))
        /\ sink' = [sink EXCEPT ![c] = s]
        /\ UNCHANGED <<ops, up, onstar, from>>
     \/ /\ c \in onstar /\ ~foreign
        /\ sink' = [sink EXCEPT ![c] = s]
        /\ UNCHANGED <<done, again, slider, ops, up, onstar, from>>
     \/ /\ c \notin onstar
        /\ UNCHANGED <<sink, done, again, slider, ops, up, onstar, from>>
  /\ UNCHANGED <<clock, late, joins, joined, cast>>

(* srv_on_client_op: the leader's own sink first, whose answers to a       *)
(* command go to the clients before the command does, then everybody.      *)
LeaderConfirms(id) ==
  LET s == Settled(sink[L], id)
      foreign == IsForeign(sink[L], id)
      line == ops[id].line
      k == Answers(line)
  IN
  \/ /\ foreign /\ ops[id].kind = "command"
     /\ ops' = ops \o AnswersOf(L, line)
     /\ Applies(L, {id} \cup Elements(k))
     /\ sink' = [sink EXCEPT ![L] = Confirmed(s, NextIds(k))]
     /\ down' = Cast(down, Append(NextIds(k), id))
     /\ cast' = cast \o Append(NextIds(k), id)
     /\ UNCHANGED slider
  \/ /\ foreign /\ ops[id].kind # "command"
     /\ Applies(L, {id})
     /\ Shows(L, AfterOp(L, id))
     /\ sink' = [sink EXCEPT ![L] = s]
     /\ down' = Cast(down, <<id>>)
     /\ cast' = Append(cast, id)
     /\ UNCHANGED ops
  \/ /\ ~foreign
     /\ sink' = [sink EXCEPT ![L] = s]
     /\ down' = Cast(down, <<id>>)
     /\ cast' = Append(cast, id)
     /\ UNCHANGED <<done, again, slider, ops>>

LeaderReads(c) ==
  /\ up[c] # <<>>
  /\ up' = [up EXCEPT ![c] = Tail(@)]
  /\ LeaderConfirms(Head(up[c]))
  /\ UNCHANGED <<clock, late, joins, joined, onstar, from>>

(* The same for a connection its client has left; the leader may notice    *)
(* the end before it has read everything.                                  *)
LeaderReadsLate(c) ==
  /\ late[c] # <<>>
  /\ late' = [late EXCEPT ![c] = Tail(@)]
  /\ LeaderConfirms(Head(late[c]))
  /\ UNCHANGED <<clock, up, joins, joined, onstar, from>>

LeaderLoses(c) ==
  /\ late[c] # <<>>
  /\ late' = [late EXCEPT ![c] = <<>>]
  /\ UNCHANGED <<sink, done, again, slider, clock, ops, up, down, joins, joined, onstar, cast, from>>

(* A handshake ends; a client disconnects. *)
Join(c) ==
  /\ c \notin joined /\ joins[c] < MaxJoins
  /\ joins' = [joins EXCEPT ![c] = @ + 1]
  /\ joined' = joined \cup {c}
  /\ from' = [from EXCEPT ![c] = Len(cast)]
  /\ UNCHANGED <<sink, done, again, slider, clock, ops, up, late, down, onstar, cast>>

Leave(c) ==
  /\ c \in joined \cap Leavers
  /\ joined' = joined \ {c}
  /\ late' = [late EXCEPT ![c] = @ \o up[c]]
  /\ up' = [up EXCEPT ![c] = <<>>]
  /\ down' = [down EXCEPT ![c] = <<>>]
  /\ UNCHANGED <<sink, done, again, slider, clock, ops, joins, onstar, cast, from>>

Next ==
  \/ \E p \in Procs :
       Edit(p) \/ Drag(p) \/ \E line \in Lines : Commit(p, line)
  \/ \E c \in Clients :
       ClientHears(c) \/ LeaderReads(c) \/ LeaderReadsLate(c) \/ LeaderLoses(c)
         \/ Join(c) \/ Leave(c)

Spec == Init /\ [][Next]_vars

(* Connections are read in every tick of the event loop. *)
Fairness ==
  \A c \in Clients : WF_vars(ClientHears(c)) /\ WF_vars(LeaderReads(c))

FairSpec == Spec /\ Fairness

-----------------------------------------------------------------------------
(* Properties *)

(* The operations that were made.                                          *)
Made == 1 .. Len(ops)

Windows(s) ==
  /\ s.pending \in Seq(Made) /\ Len(s.pending) <= PendingMax
  /\ s.applied \in Seq(Made) /\ Len(s.applied) <= AppliedMax

Operation ==
  [by : Procs, kind : Kinds \cup {"prompt", "answer"}, line : Lines \cup {<<>>},
   hlc : Nat]

Slider == [val : Nat, ver : [hlc : Nat, actor : Nat]]

TypeOK ==
  /\ DOMAIN sink = Procs
  /\ \A p \in Procs : Windows(sink[p])
  /\ done \in [Procs -> SUBSET Made]
  /\ again \subseteq Procs \X Made
  /\ slider \in [Procs -> Slider]
  /\ clock \in [Procs -> Nat]
  /\ ops \in Seq(Operation)
  /\ up \in [Clients -> Seq(Made)]
  /\ late \in [Clients -> Seq(Made)]
  /\ down \in [Clients -> Seq(Made)]
  /\ joins \in [Clients -> 0 .. MaxJoins]
  /\ joined \subseteq Clients
  /\ onstar \subseteq Clients
  /\ cast \in Seq(Made)
  /\ from \in [Clients -> Nat]

(* "Duplicates from the network (or echoes) are ignored by op_id"          *)
(* (console_sink.c:136): no effect is applied twice, no line doubled, no   *)
(* edit counted twice, no command run again, through answers given from    *)
(* inside a confirmation, connections lost with operations on them and     *)
(* echoes that arrive on the next one.                                     *)
AppliedOnce == again = {}

(* A console that listens to the star applies everything that is cast      *)
(* while it does, its own operations and others', and the leader's console *)
(* applies everything: nothing is taken for an echo that is none           *)
(* (console_sink.c:131-146).                                               *)
HearsAll ==
  /\ Elems(cast) \subseteq done[L]
  /\ \A c \in joined \cap onstar : \A i \in from[c] + 1 .. Len(cast) :
       cast[i] \in done[c] \cup Elems(down[c])

(* Consoles that have applied the same deltas have kept the same version   *)
(* of the colour, in whatever order they heard them and however their      *)
(* clocks go, and what a console shows is that version or a drag of its    *)
(* own that came with an older stamp (widget_color.c:80-89, 118-135).      *)
Deltas(p) == {id \in done[p] : ops[id].kind = "drag"}
Stamp(id) == Payload(id, ops[id]).ver

ShowsOwnDrag(p) ==
  LET id == slider[p].val IN
  /\ id \in Deltas(p) /\ ops[id].by = p
  /\ Newer(slider[p].ver, Stamp(id))

ColoursAgree ==
  \A p, q \in Procs :
    Deltas(p) = Deltas(q) =>
      /\ slider[p].ver = slider[q].ver
      /\ slider[p].val = slider[q].val \/ ShowsOwnDrag(p) \/ ShowsOwnDrag(q)

(* "LWW by (hlc, actor_id): the newer delta wins, commutatively"           *)
(* (console/delta.h:5): consoles that have applied the same deltas show    *)
(* the same colour.                                                        *)
ColoursConverge ==
  \A p, q \in Procs : Deltas(p) = Deltas(q) => slider[p].val = slider[q].val

(* The speculation about every operation ends, for a client that stays     *)
(* (console_sink.c:140-145).                                               *)
SpeculationEnds ==
  \A c \in Clients \ Leavers, id \in 1 .. MaxId :
    id \in Elems(sink[c].pending) ~> id \notin Elems(sink[c].pending)
=============================================================================

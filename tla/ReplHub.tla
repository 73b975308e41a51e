------------------------------- MODULE ReplHub ------------------------------
(***************************************************************************)
(* The replication hub (src/src/replication/hub.c) over the listener lists *)
(* of its backends.  Every topic has a route: the backend its operations   *)
(* are published on, the consumer's confirm callback, per-topic policy     *)
(* (required capabilities, a pinned backend) and, during a soft switch, a  *)
(* buffer of operations.  Each call of the hub is one action; a soft       *)
(* switch is several, because the snapshot and the buffered operations it  *)
(* publishes run the consumer's callback, which may publish again.         *)
(*                                                                         *)
(* A backend of SyncBackends (local_loop, leader_tcp, crdt_mesh) confirms  *)
(* an operation to its listeners inside publish(); any other (client_tcp)  *)
(* when the leader's echo arrives.                                         *)
(***************************************************************************)
EXTENDS ReplPolicy, Sequences, FiniteSets

CONSTANTS
  Topics,          \* TopicIds
  InstOf,          \* InstOf[t] is t.inst_id, not 0 (0 is a wildcard)
  NBackends,       \* h->n
  Prio,            \* Prio[b]: priority of backend b in 0 .. NBackends-1
  Caps,            \* Caps[b]: its capability mask
  SyncBackends,    \* backends that confirm inside publish()
  FlakyBackends,   \* backends whose health() may change (local_loop is always 0)
  HubCaps,         \* required_caps given to replicator_create_hub
  SnapshotTopics,  \* topics whose type registered a snapshot() that yields a blob
  MaxRoutes,       \* HUB_MAX_TOPICS
  Slots,           \* the places of a backend's listener array (REPL_MAX_LISTENERS)
  Free,            \* an unused place
  Pins,            \* Pins[t]: arguments of replhub_force_backend (out of range: no pin)
  ReqCaps,         \* ReqCaps[t]: arguments of replhub_set_topic_caps
  Targets,         \* Targets[t]: of replhub_switch_backend (out of range: policy)
  MaxOps           \* bound on the number of operations published

Backends == 0 .. NBackends - 1
Insts    == {InstOf[t] : t \in Topics}
Ids      == 1 .. MaxOps

ASSUME HubAssumption ==
  /\ NBackends \in Nat
  /\ Prio \in [Backends -> Int]
  /\ Caps \in [Backends -> SUBSET CapBits]
  /\ SyncBackends \subseteq Backends
  /\ FlakyBackends \subseteq Backends
  /\ HubCaps \in SUBSET CapBits
  /\ ReqCaps \in [Topics -> SUBSET SUBSET CapBits]
  /\ MaxRoutes \in Nat
  /\ IsFiniteSet(Slots)
  /\ Pins \in [Topics -> SUBSET Int]
  /\ Targets \in [Topics -> SUBSET Int]
  /\ MaxOps \in Nat
  /\ Free \notin Insts

VARIABLES
  routes,    \* routes[t]: the route of topic t; have = FALSE until first used
  slots,     \* slots[b][s]: the inst_id in place s of backend b's listener array
  up,        \* up[b]: health() == 0
  sw,        \* the call of replhub_switch_backend in progress, or NoSwitch
  ops,       \* ops[id]: topic of the id-th operation passed to hub_publish
  log,       \* hand-overs to backends, in order
  inflight,  \* inflight[b]: operations backend b has not confirmed yet
  confirms   \* confirms[id]: times the callback of the op's topic received it

vars == <<routes, slots, up, sw, ops, log, inflight, confirms>>

NoSwitch == [phase |-> "none"]

(* The route replicator_create_hub leaves in the table and hub_choose      *)
(* assumes for a topic without one.                                        *)
DefaultRoute ==
  [have |-> FALSE, bidx |-> NoBackend, cb |-> FALSE, blocked |-> FALSE,
   q |-> <<>>, caps |-> HubCaps, pin |-> NoBackend]

Init ==
  /\ routes = [t \in Topics |-> DefaultRoute]
  /\ slots = [b \in Backends |-> [s \in Slots |-> Free]]
  /\ up \in [Backends -> BOOLEAN]
  /\ \A b \in Backends \ FlakyBackends : up[b]
  /\ sw = NoSwitch
  /\ ops = <<>>
  /\ log = <<>>
  /\ inflight = [b \in Backends |-> <<>>]
  /\ confirms = [i \in Ids |-> 0]

-----------------------------------------------------------------------------
(* Choosing a backend *)

Candidates ==
  [b \in Backends |-> [present |-> TRUE, healthy |-> up[b],
                       prio |-> Prio[b], caps |-> Caps[b]]]

(* hub_choose for a route r: the pinned backend if it is usable, else the  *)
(* policy's choice.                                                        *)
HubChoose(r) ==
  IF r.pin \in Backends /\ Eligible(Candidates[r.pin], r.caps)
  THEN r.pin
  ELSE BestBackend(Candidates, NBackends, r.caps)

(* Mutant: a route that has a backend is not chosen again. *)
RouteForSticky(r) == IF r.bidx = NoBackend THEN HubChoose(r) ELSE r.bidx

(* The backend hub_publish uses: the choice, or the old one if there is no *)
(* eligible backend.                                                       *)
RouteFor(r) ==
  LET want == HubChoose(r) IN IF want = NoBackend THEN r.bidx ELSE want

-----------------------------------------------------------------------------
(* The backends' listener arrays.  set_listener appends to the array and   *)
(* does nothing when it is full; unset_listener removes every entry of the *)
(* inst_id.  The order of the entries is not modelled: all of them call    *)
(* hub_on_confirm with the same hub.                                       *)

Unlisten(sl, b, t) ==
  IF b = NoBackend THEN sl
  ELSE [sl EXCEPT ![b] =
          [s \in Slots |-> IF sl[b][s] = InstOf[t] THEN Free ELSE sl[b][s]]]

FreeSlots(sl, b) == {s \in Slots : sl[b][s] = Free}

Listen(sl, b, t) ==
  IF b = NoBackend \/ FreeSlots(sl, b) = {} THEN sl
  ELSE [sl EXCEPT ![b] =
          [sl[b] EXCEPT ![CHOOSE s \in FreeSlots(sl, b) : TRUE] = InstOf[t]]]

Heard(sl, b, t) == {s \in Slots : sl[b][s] = InstOf[t]}

(* Mutant: the entry on the old backend is forgotten. *)
MoveListenerKeepOld(sl, r, t, to) ==
  IF r.cb THEN Listen(sl, to, t) ELSE sl

(* The rewiring every re-selection does, when the consumer has a callback. *)
MoveListener(sl, r, t, to) ==
  IF r.cb THEN Listen(Unlisten(sl, r.bidx, t), to, t) ELSE sl

-----------------------------------------------------------------------------
(* Handing operation id to backend b.  A synchronous backend calls         *)
(* hub_on_confirm once per matching entry of its array, which calls the    *)
(* callback of the operation's topic.                                      *)

Confirmed(sl, b, t, cb, id) ==
  IF cb THEN [confirms EXCEPT ![id] = @ + Cardinality(Heard(sl, b, t))]
  ELSE confirms

HandOver(sl, b, t, cb, id, how) ==
  IF b = NoBackend THEN UNCHANGED <<log, inflight, confirms>>
  ELSE /\ log' = Append(log, [id |-> id, to |-> b, cb |-> cb, how |-> how])
       /\ IF b \in SyncBackends
          THEN /\ confirms' = Confirmed(sl, b, t, cb, id)
               /\ UNCHANGED inflight
          ELSE /\ inflight' = [inflight EXCEPT ![b] = Append(@, id)]
               /\ UNCHANGED confirms

-----------------------------------------------------------------------------
(* Routes are never deleted. *)
Room == Cardinality({t \in Topics : routes[t].have}) < MaxRoutes
CanRoute(t) == routes[t].have \/ Room
Found(t) == [routes[t] EXCEPT !.have = TRUE]

(* The program is single-threaded: a call is made from the event loop, or  *)
(* from a confirm callback that a switch in progress is running.  From     *)
(* such a callback consumers publish and do nothing else: the other calls  *)
(* are reached from there only by console commands, which this model runs  *)
(* outside a switch.                                                       *)
EventLoop == sw = NoSwitch
Callback  == sw # NoSwitch /\ sw.window

(* Mutant: the return after buffering is missing. *)
PublishBufferedThrough(t) ==
  LET id == Len(ops) + 1 IN
  /\ EventLoop \/ Callback
  /\ id <= MaxOps
  /\ routes[t].have /\ routes[t].blocked
  /\ ops' = Append(ops, t)
  /\ routes' = [routes EXCEPT ![t].q = Append(@, id)]
  /\ HandOver(slots, routes[t].bidx, t, routes[t].cb, id, "direct")
  /\ UNCHANGED <<slots, up, sw>>

(* hub_publish while a soft switch blocks the topic. *)
PublishBuffered(t) ==
  LET id == Len(ops) + 1 IN
  /\ EventLoop \/ Callback
  /\ id <= MaxOps
  /\ routes[t].have /\ routes[t].blocked
  /\ ops' = Append(ops, t)
  /\ routes' = [routes EXCEPT ![t].q = Append(@, id)]
  /\ UNCHANGED <<slots, up, sw, log, inflight, confirms>>

(* hub_publish on a route: choose again, move if the choice is another     *)
(* backend, publish on the route's backend.  With no eligible backend the  *)
(* old one is kept.                                                        *)
PublishRouted(t) ==
  LET id == Len(ops) + 1
      r  == Found(t)
      to == RouteFor(r)
      sl == IF to = r.bidx THEN slots ELSE MoveListener(slots, r, t, to)
  IN
  /\ EventLoop \/ Callback
  /\ id <= MaxOps
  /\ CanRoute(t) /\ ~routes[t].blocked
  /\ ops' = Append(ops, t)
  /\ routes' = [routes EXCEPT ![t] = [r EXCEPT !.bidx = to]]
  /\ slots' = sl
  /\ HandOver(sl, to, t, r.cb, id, "direct")
  /\ UNCHANGED <<up, sw>>

(* hub_publish with the route table full. *)
PublishUnrouted(t) ==
  LET id == Len(ops) + 1 IN
  /\ EventLoop \/ Callback
  /\ id <= MaxOps
  /\ ~CanRoute(t)
  /\ ops' = Append(ops, t)
  /\ HandOver(slots, HubChoose(DefaultRoute), t, FALSE, id, "direct")
  /\ UNCHANGED <<routes, slots, up, sw>>

(* hub_on_confirm for the echo of the oldest operation a backend has not   *)
(* confirmed; it is run by the network tick of the event loop.             *)
Confirm(b) ==
  LET id == Head(inflight[b])
      t  == ops[id]
  IN
  /\ EventLoop
  /\ inflight[b] # <<>>
  /\ inflight' = [inflight EXCEPT ![b] = Tail(@)]
  /\ confirms' = Confirmed(slots, b, t, routes[t].cb, id)
  /\ UNCHANGED <<routes, slots, up, sw, ops, log>>

-----------------------------------------------------------------------------
(* hub_set_listener, called by con_sink_create: once per topic, until      *)
(* con_sink_destroy has unset it.  With the route table full it does       *)
(* nothing.                                                                *)
SetListener(t) ==
  LET r   == Found(t)
      idx == HubChoose(r)
      sl  == IF idx # r.bidx THEN Unlisten(slots, r.bidx, t) ELSE slots
  IN
  /\ EventLoop
  /\ ~r.cb /\ CanRoute(t)
  /\ routes' = [routes EXCEPT ![t] = [r EXCEPT !.cb = TRUE, !.bidx = idx]]
  /\ slots' = Listen(sl, idx, t)
  /\ UNCHANGED <<up, sw, ops, log, inflight, confirms>>

(* Mutant: only the route forgets the callback. *)
UnsetListenerRouteOnly(t) ==
  /\ EventLoop
  /\ routes[t].have /\ routes[t].cb
  /\ routes' = [routes EXCEPT ![t].cb = FALSE]
  /\ UNCHANGED <<slots, up, sw, ops, log, inflight, confirms>>

(* hub_unset_listener: the route keeps its backend. *)
UnsetListener(t) ==
  LET r == routes[t] IN
  /\ EventLoop
  /\ r.have /\ r.cb
  /\ slots' = Unlisten(slots, r.bidx, t)
  /\ routes' = [routes EXCEPT ![t].cb = FALSE]
  /\ UNCHANGED <<up, sw, ops, log, inflight, confirms>>

(* The common tail of the two per-topic policy calls: choose again for the *)
(* changed route r and rewire when the choice differs, even to no backend. *)
Reselect(t, r) ==
  LET want == HubChoose(r) IN
  /\ EventLoop
  /\ CanRoute(t)
  /\ routes' = [routes EXCEPT ![t] = [r EXCEPT !.bidx = want]]
  /\ slots' = IF want = r.bidx THEN slots ELSE MoveListener(slots, r, t, want)
  /\ UNCHANGED <<up, sw, ops, log, inflight, confirms>>

SetTopicCaps(t, required) == Reselect(t, [Found(t) EXCEPT !.caps = required])

ForceBackend(t, pin) == Reselect(t, [Found(t) EXCEPT !.pin = pin])

-----------------------------------------------------------------------------
(* Mutant: the range check of the target is off by one. *)
SwitchTargetOffByOne(arg, r) == IF arg \in 0 .. NBackends THEN arg ELSE HubChoose(r)

SwitchTarget(arg, r) == IF arg \in Backends THEN arg ELSE HubChoose(r)

(* replhub_switch_backend up to the snapshot's publication on the target.  *)
(* The snapshot is confirmed at once to a listener the target has; while   *)
(* that callback runs, publications on the topic are buffered.  Without an *)
(* eligible target the call only leaves the route it created.              *)
SwitchBegin(t, arg) ==
  LET r  == Found(t)
      to == SwitchTarget(arg, r)
  IN
  /\ EventLoop
  /\ CanRoute(t)
  /\ IF to = NoBackend
     THEN /\ routes' = [routes EXCEPT ![t] = r]
          /\ UNCHANGED sw
     ELSE /\ routes' = [routes EXCEPT ![t] = [r EXCEPT !.blocked = TRUE]]
          /\ sw' = [phase |-> "snapshot", topic |-> t, to |-> to, sent |-> 0,
                    window |-> /\ t \in SnapshotTopics
                               /\ to \in SyncBackends
                               /\ r.cb
                               /\ Heard(slots, to, t) # {}]
  /\ UNCHANGED <<slots, up, ops, log, inflight, confirms>>

(* A callback that has returned, or none was run: the listener moves, the  *)
(* topic is unblocked.                                                     *)
SwitchRewire ==
  LET t == sw.topic
      r == routes[t]
  IN
  /\ sw.phase = "snapshot"
  /\ slots' = MoveListener(slots, r, t, sw.to)
  /\ routes' = [routes EXCEPT ![t].bidx = sw.to, ![t].blocked = FALSE]
  /\ sw' = [sw EXCEPT !.phase = "flush", !.window = FALSE]
  /\ UNCHANGED <<up, ops, log, inflight, confirms>>

(* One iteration of the loop that sends the buffer; the backend is read    *)
(* again each time.  The operation's own callback runs inside it.          *)
SwitchFlush ==
  LET t == sw.topic
      r == routes[t]
  IN
  /\ sw.phase = "flush"
  /\ sw.sent < Len(r.q)
  /\ HandOver(slots, r.bidx, t, r.cb, r.q[sw.sent + 1], "buffer")
  /\ sw' = [sw EXCEPT !.sent = @ + 1,
                      !.window = r.bidx \in SyncBackends /\ r.cb]
  /\ UNCHANGED <<routes, slots, up, ops>>

(* Mutant: the buffer is sent but not emptied. *)
SwitchEndKeepsBuffer ==
  /\ sw.phase = "flush"
  /\ sw.sent = Len(routes[sw.topic].q)
  /\ sw' = NoSwitch
  /\ UNCHANGED <<routes, slots, up, ops, log, inflight, confirms>>

SwitchEnd ==
  /\ sw.phase = "flush"
  /\ sw.sent = Len(routes[sw.topic].q)
  /\ routes' = [routes EXCEPT ![sw.topic].q = <<>>]
  /\ sw' = NoSwitch
  /\ UNCHANGED <<slots, up, ops, log, inflight, confirms>>

(* A listening socket opens, a connection comes or goes. *)
ChangeHealth(b) ==
  /\ EventLoop
  /\ b \in FlakyBackends
  /\ up' = [up EXCEPT ![b] = ~@]
  /\ UNCHANGED <<routes, slots, sw, ops, log, inflight, confirms>>

Next ==
  \/ \E t \in Topics :
       \/ PublishBuffered(t)
       \/ PublishRouted(t)
       \/ PublishUnrouted(t)
       \/ SetListener(t)
       \/ UnsetListener(t)
       \/ \E required \in ReqCaps[t] : SetTopicCaps(t, required)
       \/ \E pin \in Pins[t] : ForceBackend(t, pin)
       \/ \E arg \in Targets[t] : SwitchBegin(t, arg)
  \/ SwitchRewire
  \/ SwitchFlush
  \/ SwitchEnd
  \/ \E b \in Backends : Confirm(b) \/ ChangeHealth(b)

Spec == Init /\ [][Next]_vars

-----------------------------------------------------------------------------
(* Properties *)

Route ==
  [have : BOOLEAN, bidx : Backends \cup {NoBackend}, cb : BOOLEAN,
   blocked : BOOLEAN, q : Seq(Ids), caps : SUBSET CapBits, pin : Int]

SwitchCall ==
  [phase : {"snapshot", "flush"}, topic : Topics, to : Backends, sent : Nat,
   window : BOOLEAN]

Switch == {NoSwitch} \cup SwitchCall

HandOvers ==
  [id : Ids, to : Backends, cb : BOOLEAN, how : {"direct", "buffer"}]

TypeOK ==
  /\ routes \in [Topics -> Route]
  /\ slots \in [Backends -> [Slots -> Insts \cup {Free}]]
  /\ up \in [Backends -> BOOLEAN]
  /\ sw \in Switch
  /\ ops \in Seq(Topics)
  /\ Len(ops) <= MaxOps
  /\ log \in Seq(HandOvers)
  /\ inflight \in [Backends -> Seq(Ids)]
  /\ confirms \in [Ids -> Nat]

(* No two topics have the same inst_id: the listener arrays know a topic   *)
(* by its inst_id alone.  main.c has one console topic, so it holds there. *)
DistinctInsts == \A t, u \in Topics : InstOf[t] = InstOf[u] => t = u

(* The listener arrays have a place for every topic (16 places against the *)
(* single console topic of main.c).                                        *)
SlotsSuffice ==
  IsFiniteSet(Topics) /\ Cardinality(Topics) <= Cardinality(Slots)

(* A topic whose consumer has a callback is heard on the backend of its    *)
(* route, through exactly one entry, and on no other backend; a topic      *)
(* without a callback is heard nowhere.  So an operation is not applied    *)
(* twice, nor lost to a listener left behind, whatever sequence of         *)
(* set/unset, health changes, pins, requirements and switches led here     *)
(* (hub.c:207-220, 248-258, 384-395, 427-439, 462-474).                    *)
HeardOnlyAt(sl, t, at) ==
  \A b \in Backends :
    IF b = at THEN \E s \in Slots : Heard(sl, b, t) = {s}
              ELSE Heard(sl, b, t) = {}

ListensAt(t) == IF routes[t].cb THEN routes[t].bidx ELSE NoBackend

ListenerPlacement ==
  \A t \in Topics : HeardOnlyAt(slots, t, ListensAt(t))

(* Operations are buffered only while the switch of their topic is under   *)
(* way, and the topic is blocked only until the switch has moved the       *)
(* listener: none is left behind in the buffer of a route nobody will      *)
(* flush (hub.c:359-404).                                                  *)
BufferDrained ==
  \A t \in Topics :
    /\ routes[t].blocked <=> sw.phase = "snapshot" /\ sw.topic = t
    /\ routes[t].q # <<>> => sw.phase # "none" /\ sw.topic = t

Positions(id) == {i \in DOMAIN log : log[i].id = id}
Waiting(id) ==
  LET r    == routes[ops[id]]
      done == IF sw.phase = "flush" THEN sw.sent ELSE 0
  IN  {i \in DOMAIN r.q : i > done /\ r.q[i] = id}

(* No operation is handed to a backend twice or both handed over and kept  *)
(* in the buffer, and the buffered operations of a topic are handed over   *)
(* in the order they were published (hub.h:24-31: the buffer is sent in    *)
(* order).                                                                 *)
HandedOverOnce ==
  /\ \A id \in DOMAIN ops :
       Cardinality(Positions(id)) + Cardinality(Waiting(id)) <= 1
  /\ \A i, j \in DOMAIN log :
       /\ i < j
       /\ log[i].how = "buffer" /\ log[j].how = "buffer"
       /\ ops[log[i].id] = ops[log[j].id]
       => log[i].id < log[j].id

(* Every operation handed to a synchronous backend while its consumer was  *)
(* listening reached that consumer exactly once, and no consumer ever got  *)
(* an operation twice (console_sink.c:131 counts on both).                 *)
ConfirmedOnce ==
  /\ \A id \in Ids : confirms[id] <= 1
  /\ \A i \in DOMAIN log :
       log[i].cb /\ log[i].to \in SyncBackends => confirms[log[i].id] = 1

(* A pinned topic publishes on its pin whenever that is usable, however    *)
(* often it failed over in between: only the flush of an explicit switch   *)
(* goes elsewhere (hub.c:144-153, 206-221).                                *)
PinHolds ==
  [][\A t \in Topics :
       PublishRouted(t) /\ routes[t].pin \in Backends =>
         \/ ~Eligible(Candidates[routes[t].pin], routes[t].caps)
         \/ routes'[t].bidx = routes[t].pin /\ log'[Len(log')].to = routes[t].pin]_vars

(* On a fresh hub, for every health of the backends and every assignment   *)
(* of priorities and masks, the loop of the policy returns the unique best *)
(* backend, the first of equal ones (repl_policy_default.c:3-17).          *)
PolicyScanIsBest ==
  routes = [t \in Topics |-> DefaultRoute] =>
    \A prio \in [Backends -> {10, 50}],
       mask \in [Backends -> SUBSET {ORDERED, CRDT}],
       required \in {{}, {ORDERED}} :
      ScanIsBest([b \in Backends |-> [present |-> TRUE, healthy |-> up[b],
                                      prio |-> prio[b], caps |-> mask[b]]],
                 NBackends, required)
=============================================================================

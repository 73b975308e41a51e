---------------------------- MODULE ReplHubProofs ---------------------------
(***************************************************************************)
(* Theorems about the replication hub for every number of topics,          *)
(* backends and operations, every priority and capability, every health    *)
(* history and every sequence of calls.                                    *)
(***************************************************************************)
EXTENDS ReplHub, FiniteSetTheorems, WellFoundedInduction, TLAPS

-----------------------------------------------------------------------------
(* Loops that count: recursive functions on 0 .. n, and induction on the   *)
(* set of the numbers at which a claim holds                               *)

(* A set of numbers that is not empty has a least one. *)
LEMMA NatMin ==
  ASSUME NEW S \in SUBSET Nat, S # {}
  PROVE  \E m \in S : \A x \in S : m <= x
<1> DEFINE R == OpToRel(<, Nat)
<1>1. IsWellFoundedOn(R, Nat)
  BY NatLessThanWellFounded
<1>2. \A x, y \in Nat : x < y => <<x, y>> \in R
  BY DEF OpToRel
<1> HIDE DEF R
<1>3. \E m \in S : \A x \in S : ~(<<x, m>> \in R)
  BY <1>1, WFMin
<1>4. PICK m \in S : \A x \in S : ~(<<x, m>> \in R)
  BY <1>3
<1>5. \A x \in S : ~(x < m)
  BY <1>2, <1>4
<1>6. \A x \in S : m <= x
  BY <1>5
<1> QED BY <1>6

(* A set of numbers that has 0, and the next of each of its numbers below  *)
(* n, has all numbers up to n.                                             *)
LEMMA Climbs ==
  ASSUME NEW n \in Nat, NEW T, 0 \in T, \A i \in 1 .. n : i - 1 \in T => i \in T
  PROVE  \A i \in 0 .. n : i \in T
<1> DEFINE S == (0 .. n) \ T
<1>1. SUFFICES ASSUME S # {} PROVE FALSE
  OBVIOUS
<1>2. S \in SUBSET Nat
  OBVIOUS
<1>3. PICK m \in S : \A x \in S : m <= x
  BY <1>1, <1>2, NatMin
<1>4. m \in 1 .. n
  BY <1>3
<1>5. m - 1 \in 0 .. n /\ m - 1 \notin S
  BY <1>3, <1>4
<1>6. QED
  BY <1>3, <1>4, <1>5

(* The steps of a count in S that goes from 0 to n.                        *)
Steps(n, S) == [1 .. n -> [S -> S]]

(* f is such a count.                                                     *)
Counts(f, n, S, v, g) ==
  /\ f \in [0 .. n -> S]
  /\ f[0] = v
  /\ \A i \in 1 .. n : f[i] = g[i][f[i - 1]]

(* There is a function that is counted up in this way. *)
LEMMA CountedUp ==
  ASSUME NEW n \in Nat, NEW S, NEW v \in S, NEW g \in Steps(n, S)
  PROVE  \E f : Counts(f, n, S, v, g)
<1> USE DEF Steps
<1> DEFINE P(m) == \E f \in [0 .. m -> S] :
                     f[0] = v /\ \A i \in 1 .. m : f[i] = g[i][f[i - 1]]
           T == {m \in 0 .. n : P(m)}
<1>0. \A m : m \in T <=> m \in 0 .. n /\ P(m)
  OBVIOUS
<1> HIDE DEF T
<1>1. 0 \in T
  <2> DEFINE f == [i \in 0 .. 0 |-> v]
  <2>1. f \in [0 .. 0 -> S] /\ f[0] = v
    OBVIOUS
  <2>2. \A i \in 1 .. 0 : f[i] = g[i][f[i - 1]]
    OBVIOUS
  <2> HIDE DEF f
  <2>3. P(0)
    BY <2>1, <2>2
  <2> HIDE DEF P
  <2>4. 0 \in 0 .. n
    OBVIOUS
  <2>5. QED
    BY <1>0, <2>3, <2>4
<1>2. ASSUME NEW m \in 1 .. n, m - 1 \in T PROVE m \in T
  <2>1. PICK f \in [0 .. m - 1 -> S] :
          f[0] = v /\ \A i \in 1 .. m - 1 : f[i] = g[i][f[i - 1]]
    BY <1>0, <1>2
  <2> DEFINE h == [i \in 0 .. m |-> IF i = m THEN g[m][f[m - 1]] ELSE f[i]]
  <2>2. f[m - 1] \in S /\ g[m] \in [S -> S]
    OBVIOUS
  <2>3. h \in [0 .. m -> S]
    BY <2>2
  <2>4. h[0] = v
    BY <2>1
  <2>5. ASSUME NEW i \in 1 .. m PROVE h[i] = g[i][h[i - 1]]
    <3>1. i - 1 \in 0 .. m /\ i - 1 # m /\ i \in 0 .. m
      OBVIOUS
    <3>2. h[i - 1] = f[i - 1]
      BY <3>1
    <3>3. CASE i = m
      BY <3>1, <3>2, <3>3
    <3>4. CASE i # m
      BY <2>1, <3>1, <3>2, <3>4
    <3>5. QED
      BY <3>3, <3>4
  <2> HIDE DEF h
  <2>6. h[0] = v /\ \A i \in 1 .. m : h[i] = g[i][h[i - 1]]
    BY <2>4, <2>5
  <2>7. P(m)
    BY <2>3, <2>6, Zenon
  <2> HIDE DEF P
  <2>8. m \in 0 .. n
    OBVIOUS
  <2>9. QED
    BY <1>0, <2>7, <2>8
<1> HIDE DEF P
<1>3. \A i \in 1 .. n : i - 1 \in T => i \in T
  BY <1>2
<1>4. \A i \in 0 .. n : i \in T
  BY <1>1, <1>3, Climbs
<1>5. P(n)
  BY <1>0, <1>4
<1>6. QED
  BY <1>5 DEF P, Counts

-----------------------------------------------------------------------------
(* The choice of the policy is a backend or none. *)
LEMMA BestBackendType ==
  ASSUME NEW cand, NEW required
  PROVE  BestBackend(cand, NBackends, required) \in Backends \cup {NoBackend}
  BY DEF BestBackend, Winners, Backends

(* So the choice for a route is a backend or none (hub_choose). *)
LEMMA HubChooseType ==
  ASSUME NEW r
  PROVE  HubChoose(r) \in Backends \cup {NoBackend}
  BY BestBackendType DEF HubChoose

(* A pinned backend that is usable is the choice. *)
LEMMA HubChoosePin ==
  ASSUME NEW r, r.pin \in Backends, Eligible(Candidates[r.pin], r.caps)
  PROVE  HubChoose(r) = r.pin
  BY DEF HubChoose

(* -1 is no index of the backend array. *)
LEMMA BackendNotNone == NoBackend \notin Backends
  BY HubAssumption DEF NoBackend, Backends

(* hub_publish goes to a backend or nowhere. *)
LEMMA RouteForType ==
  ASSUME NEW r, r.bidx \in Backends \cup {NoBackend}
  PROVE  RouteFor(r) \in Backends \cup {NoBackend}
  BY HubChooseType DEF RouteFor

SlotArrays == [Backends -> [Slots -> Insts \cup {Free}]]

(* Removing the entries of an instance leaves listener arrays              *)
(* (local_loop.c, unset_listener).                                         *)
LEMMA UnlistenType ==
  ASSUME NEW sl \in SlotArrays, NEW b \in Backends \cup {NoBackend},
         NEW t \in Topics
  PROVE  Unlisten(sl, b, t) \in SlotArrays
  BY DEF Unlisten, SlotArrays

(* Appending an entry leaves listener arrays (local_loop.c set_listener). *)
LEMMA ListenType ==
  ASSUME NEW sl \in SlotArrays, NEW b \in Backends \cup {NoBackend},
         NEW t \in Topics
  PROVE  Listen(sl, b, t) \in SlotArrays
<1>1. InstOf[t] \in Insts
  BY DEF Insts
<1>2. CASE b = NoBackend \/ FreeSlots(sl, b) = {}
  BY <1>2 DEF Listen
<1>3. CASE b # NoBackend /\ FreeSlots(sl, b) # {}
  <2> DEFINE s == CHOOSE x \in FreeSlots(sl, b) : TRUE
  <2>1. s \in Slots
    BY <1>3 DEF FreeSlots
  <2> HIDE DEF s
  <2>2. [sl[b] EXCEPT ![s] = InstOf[t]] \in [Slots -> Insts \cup {Free}]
    BY <1>1, <1>3, <2>1 DEF SlotArrays
  <2>3. [sl EXCEPT ![b] = [sl[b] EXCEPT ![s] = InstOf[t]]] \in SlotArrays
    BY <1>3, <2>2 DEF SlotArrays
  <2>4. QED
    BY <1>3, <2>3 DEF Listen, s
<1>4. QED
  BY <1>2, <1>3

(* The rewiring of a re-selection leaves listener arrays. *)
LEMMA MoveListenerType ==
  ASSUME NEW sl \in SlotArrays, NEW r,
         r.bidx \in Backends \cup {NoBackend}, NEW t \in Topics,
         NEW to \in Backends \cup {NoBackend}
  PROVE  MoveListener(sl, r, t, to) \in SlotArrays
  BY UnlistenType, ListenType DEF MoveListener

(* Handing an operation over keeps the history variables in their types. *)
LEMMA HandOverType ==
  ASSUME TypeOK, NEW sl, NEW b \in Backends \cup {NoBackend}, NEW t,
         NEW cb \in BOOLEAN, NEW id \in Ids, NEW how \in {"direct", "buffer"},
         HandOver(sl, b, t, cb, id, how)
  PROVE  /\ log' \in Seq(HandOvers)
         /\ inflight' \in [Backends -> Seq(Ids)]
         /\ confirms' \in [Ids -> Nat]
<1>1. Cardinality(Heard(sl, b, t)) \in Nat
  <2>1. IsFiniteSet(Heard(sl, b, t))
    BY HubAssumption, FS_Subset DEF Heard
  <2>2. QED
    BY <2>1, FS_CardinalityType
<1>2. CASE b = NoBackend
  BY <1>2 DEF HandOver, TypeOK
<1>3. CASE b \in Backends
  <2>1. [id |-> id, to |-> b, cb |-> cb, how |-> how] \in HandOvers
    BY <1>3 DEF HandOvers
  <2>2. log' = Append(log, [id |-> id, to |-> b, cb |-> cb, how |-> how])
    BY <1>3, BackendNotNone DEF HandOver
  <2>3. log' \in Seq(HandOvers)
    <3>1. log \in Seq(HandOvers)
      BY DEF TypeOK
    <3>2. QED
      BY <2>1, <2>2, <3>1
  <2>4. \/ confirms' = Confirmed(sl, b, t, cb, id) /\ inflight' = inflight
        \/ /\ confirms' = confirms
           /\ inflight' = [inflight EXCEPT ![b] = Append(@, id)]
    BY <1>3, BackendNotNone DEF HandOver
  <2>5. confirms' \in [Ids -> Nat]
    <3>1. Confirmed(sl, b, t, cb, id) \in [Ids -> Nat]
      BY <1>1 DEF Confirmed, TypeOK
    <3>2. QED
      BY <2>4, <3>1 DEF TypeOK
  <2>6. inflight' \in [Backends -> Seq(Ids)]
    <3>1. inflight \in [Backends -> Seq(Ids)]
      BY DEF TypeOK
    <3>2. QED
      BY <2>4, <3>1, <1>3
  <2>7. QED
    BY <2>3, <2>5, <2>6
<1>4. QED
  BY <1>2, <1>3

(* Changing one route keeps the table in its type. *)
LEMMA RoutesType ==
  ASSUME TypeOK, NEW t \in Topics, NEW r \in Route
  PROVE  [routes EXCEPT ![t] = r] \in [Topics -> Route]
  BY DEF TypeOK

(* find_or_add_route gives a route (hub.c, routes are never deleted). *)
LEMMA FoundType ==
  ASSUME TypeOK, NEW t \in Topics
  PROVE  /\ routes[t] \in Route
         /\ Found(t) \in Route
         /\ Found(t).bidx = routes[t].bidx
         /\ Found(t).cb = routes[t].cb
         /\ Found(t).caps = routes[t].caps
         /\ Found(t).pin = routes[t].pin
         /\ Found(t).q = routes[t].q
         /\ Found(t).blocked = routes[t].blocked
  BY DEF TypeOK, Found, Route

(* The history of published operations stays within its bound. *)
LEMMA NewOp ==
  ASSUME TypeOK, NEW t \in Topics, Len(ops) + 1 <= MaxOps
  PROVE  /\ Len(ops) + 1 \in Ids
         /\ Append(ops, t) \in Seq(Topics)
         /\ Len(Append(ops, t)) <= MaxOps
  BY HubAssumption DEF TypeOK, Ids

(* A switch in progress is a record of its call. *)
LEMMA InSwitch ==
  ASSUME TypeOK, sw.phase # "none"
  PROVE  sw \in SwitchCall
  BY DEF TypeOK, Switch, NoSwitch

(* A switch call in progress has the type of the variable sw. *)
LEMMA SwitchCallType ==
  ASSUME NEW c \in SwitchCall, NEW n \in Nat, NEW w \in BOOLEAN
  PROVE  [c EXCEPT !.sent = n, !.window = w] \in SwitchCall
  BY DEF SwitchCall

(* Type correctness of every component of the hub's state. *)
THEOREM TypeCorrect == Spec => []TypeOK
<1>1. Init => TypeOK
  <2> SUFFICES ASSUME Init PROVE TypeOK
    OBVIOUS
  <2>1. DefaultRoute \in Route
    BY HubAssumption DEF DefaultRoute, Route, NoBackend
  <2>2. routes \in [Topics -> Route]
    BY <2>1 DEF Init
  <2>3. sw \in Switch
    BY DEF Init, Switch
  <2>4. ops \in Seq(Topics) /\ Len(ops) <= MaxOps
    BY HubAssumption DEF Init
  <2>5. QED
    BY <2>2, <2>3, <2>4 DEF Init, TypeOK
<1>2. TypeOK /\ [Next]_vars => TypeOK'
  <2> SUFFICES ASSUME TypeOK, [Next]_vars PROVE TypeOK'
    OBVIOUS
  <2>1. ASSUME NEW t \in Topics, PublishBuffered(t) PROVE TypeOK'
    <3>1. Len(ops) + 1 \in Ids /\ ops' \in Seq(Topics) /\ Len(ops') <= MaxOps
      BY <2>1, NewOp DEF PublishBuffered
    <3>2. routes' \in [Topics -> Route]
      <4>1. routes[t].q \in Seq(Ids) /\ routes[t] \in Route
        BY DEF TypeOK, Route
      <4>2. Append(routes[t].q, Len(ops) + 1) \in Seq(Ids)
        BY <3>1, <4>1
      <4>3. [routes[t] EXCEPT !.q = Append(@, Len(ops) + 1)] \in Route
        BY <4>1, <4>2 DEF Route
      <4>4. routes' = [routes EXCEPT ![t] = [routes[t] EXCEPT !.q = Append(@, Len(ops) + 1)]]
        BY <2>1 DEF PublishBuffered
      <4>5. QED
        BY <4>3, <4>4, RoutesType
    <3>3. QED
      BY <2>1, <3>1, <3>2 DEF PublishBuffered, TypeOK
  <2>2. ASSUME NEW t \in Topics, PublishRouted(t) PROVE TypeOK'
    <3> DEFINE r  == Found(t)
               to == RouteFor(r)
               sl == IF to = r.bidx THEN slots ELSE MoveListener(slots, r, t, to)
    <3>1. Len(ops) + 1 \in Ids /\ ops' \in Seq(Topics) /\ Len(ops') <= MaxOps
      BY <2>2, NewOp DEF PublishRouted
    <3>2. r \in Route /\ r.bidx \in Backends \cup {NoBackend} /\ r.cb \in BOOLEAN
      BY FoundType DEF Route
    <3>3. to \in Backends \cup {NoBackend}
      BY <3>2, RouteForType
    <3>4. routes' \in [Topics -> Route]
      <4>1. [r EXCEPT !.bidx = to] \in Route
        BY <3>2, <3>3 DEF Route
      <4>2. QED
        BY <2>2, <4>1, RoutesType DEF PublishRouted
    <3>5. slots' \in SlotArrays
      <4>1. slots \in SlotArrays
        BY DEF TypeOK, SlotArrays
      <4>2. slots' = sl
        BY <2>2 DEF PublishRouted
      <4>3. QED
        BY <3>2, <3>3, <4>1, <4>2, MoveListenerType
    <3>6. HandOver(sl, to, t, r.cb, Len(ops) + 1, "direct")
      BY <2>2 DEF PublishRouted
    <3>7. /\ log' \in Seq(HandOvers)
          /\ inflight' \in [Backends -> Seq(Ids)]
          /\ confirms' \in [Ids -> Nat]
      BY <3>1, <3>2, <3>3, <3>6, HandOverType
    <3>8. up' = up /\ sw' = sw
      BY <2>2 DEF PublishRouted
    <3>9. QED
      BY <3>1, <3>4, <3>5, <3>7, <3>8 DEF TypeOK, SlotArrays
  <2>3. ASSUME NEW t \in Topics, PublishUnrouted(t) PROVE TypeOK'
    <3>1. Len(ops) + 1 \in Ids /\ ops' \in Seq(Topics) /\ Len(ops') <= MaxOps
      BY <2>3, NewOp DEF PublishUnrouted
    <3>2. HandOver(slots, HubChoose(DefaultRoute), t, FALSE, Len(ops) + 1, "direct")
      BY <2>3 DEF PublishUnrouted
    <3>3. /\ log' \in Seq(HandOvers)
          /\ inflight' \in [Backends -> Seq(Ids)]
          /\ confirms' \in [Ids -> Nat]
      BY <3>1, <3>2, HubChooseType, HandOverType
    <3>4. QED
      BY <2>3, <3>1, <3>3 DEF PublishUnrouted, TypeOK
  <2>4. ASSUME NEW t \in Topics, SetListener(t) PROVE TypeOK'
    <3> DEFINE r   == Found(t)
               idx == HubChoose(r)
               sl  == IF idx # r.bidx THEN Unlisten(slots, r.bidx, t) ELSE slots
    <3>1. r \in Route /\ r.bidx \in Backends \cup {NoBackend}
      BY FoundType DEF Route
    <3>2. idx \in Backends \cup {NoBackend}
      BY HubChooseType
    <3>3. routes' \in [Topics -> Route]
      <4>1. [r EXCEPT !.cb = TRUE, !.bidx = idx] \in Route
        BY <3>1, <3>2 DEF Route
      <4>2. QED
        BY <2>4, <4>1, RoutesType DEF SetListener
    <3>4. slots' \in SlotArrays
      <4>1. sl \in SlotArrays
        BY <3>1, UnlistenType DEF TypeOK, SlotArrays
      <4>2. slots' = Listen(sl, idx, t)
        BY <2>4 DEF SetListener
      <4>3. QED
        BY <3>2, <4>1, <4>2, ListenType
    <3>5. QED
      BY <2>4, <3>3, <3>4 DEF SetListener, TypeOK, SlotArrays
  <2>5. ASSUME NEW t \in Topics, UnsetListener(t) PROVE TypeOK'
    <3>1. routes[t] \in Route /\ routes[t].bidx \in Backends \cup {NoBackend}
      BY DEF TypeOK, Route
    <3>2. routes' \in [Topics -> Route]
      <4>1. [routes[t] EXCEPT !.cb = FALSE] \in Route
        BY <3>1 DEF Route
      <4>2. routes' = [routes EXCEPT ![t] = [routes[t] EXCEPT !.cb = FALSE]]
        BY <2>5 DEF UnsetListener
      <4>3. QED
        BY <4>1, <4>2, RoutesType
    <3>3. slots' \in SlotArrays
      BY <2>5, <3>1, UnlistenType DEF UnsetListener, TypeOK, SlotArrays
    <3>4. QED
      BY <2>5, <3>2, <3>3 DEF UnsetListener, TypeOK, SlotArrays
  <2>6. ASSUME NEW t \in Topics, NEW r \in Route, Reselect(t, r) PROVE TypeOK'
    <3>1. r.bidx \in Backends \cup {NoBackend}
      BY DEF Route
    <3>2. HubChoose(r) \in Backends \cup {NoBackend}
      BY HubChooseType
    <3>3. routes' \in [Topics -> Route]
      <4>1. [r EXCEPT !.bidx = HubChoose(r)] \in Route
        BY <3>2 DEF Route
      <4>2. QED
        BY <2>6, <4>1, RoutesType DEF Reselect
    <3>4. slots' \in SlotArrays
      <4>1. slots \in SlotArrays
        BY DEF TypeOK, SlotArrays
      <4>2. slots' = IF HubChoose(r) = r.bidx THEN slots
                     ELSE MoveListener(slots, r, t, HubChoose(r))
        BY <2>6 DEF Reselect
      <4>3. QED
        BY <3>1, <3>2, <4>1, <4>2, MoveListenerType
    <3>5. QED
      BY <2>6, <3>3, <3>4 DEF Reselect, TypeOK, SlotArrays
  <2>7. ASSUME NEW t \in Topics, NEW required \in ReqCaps[t],
               SetTopicCaps(t, required)
        PROVE  TypeOK'
    <3>1. required \in SUBSET CapBits
      BY HubAssumption
    <3>2. [Found(t) EXCEPT !.caps = required] \in Route
      BY <3>1, FoundType DEF Route
    <3>3. QED
      BY <2>6, <2>7, <3>2 DEF SetTopicCaps
  <2>8. ASSUME NEW t \in Topics, NEW pin \in Pins[t], ForceBackend(t, pin)
        PROVE  TypeOK'
    <3>1. pin \in Int
      BY HubAssumption
    <3>2. [Found(t) EXCEPT !.pin = pin] \in Route
      BY <3>1, FoundType DEF Route
    <3>3. QED
      BY <2>6, <2>8, <3>2 DEF ForceBackend
  <2>9. ASSUME NEW t \in Topics, NEW arg \in Targets[t], SwitchBegin(t, arg)
        PROVE  TypeOK'
    <3> DEFINE r  == Found(t)
               to == SwitchTarget(arg, r)
    <3>1. r \in Route
      BY FoundType
    <3>2. to \in Backends \cup {NoBackend}
      BY HubChooseType DEF SwitchTarget
    <3>3. [r EXCEPT !.blocked = TRUE] \in Route
      BY <3>1 DEF Route
    <3>4. CASE to = NoBackend
      <4>1. routes' = [routes EXCEPT ![t] = r] /\ sw' = sw
        BY <2>9, <3>4 DEF SwitchBegin
      <4>2. routes' \in [Topics -> Route]
        BY <3>1, <4>1, RoutesType
      <4>3. QED
        BY <2>9, <4>1, <4>2 DEF SwitchBegin, TypeOK
    <3>5. CASE to \in Backends
      <4>1. to # NoBackend
        BY <3>5, BackendNotNone
      <4>2. routes' = [routes EXCEPT ![t] = [r EXCEPT !.blocked = TRUE]]
        BY <2>9, <4>1 DEF SwitchBegin
      <4>3. routes' \in [Topics -> Route]
        BY <3>3, <4>2, RoutesType
      <4>4. PICK w \in BOOLEAN :
              sw' = [phase |-> "snapshot", topic |-> t, to |-> to, sent |-> 0,
                     window |-> w]
        BY <2>9, <4>1 DEF SwitchBegin
      <4>5. sw' \in Switch
        BY <3>5, <4>4 DEF Switch, SwitchCall
      <4>6. QED
        BY <2>9, <4>3, <4>5 DEF SwitchBegin, TypeOK
    <3>6. QED
      BY <3>2, <3>4, <3>5
  <2>10. ASSUME SwitchRewire PROVE TypeOK'
    <3> DEFINE t == sw.topic
    <3>1. t \in Topics /\ sw.to \in Backends
      BY <2>10 DEF SwitchRewire, TypeOK, Switch, SwitchCall, NoSwitch
    <3>2. routes[t] \in Route /\ routes[t].bidx \in Backends \cup {NoBackend}
      BY <3>1 DEF TypeOK, Route
    <3>3. routes' \in [Topics -> Route]
      <4>1. [routes[t] EXCEPT !.bidx = sw.to, !.blocked = FALSE] \in Route
        BY <3>1, <3>2 DEF Route
      <4>2. routes' = [routes EXCEPT ![t] =
                         [routes[t] EXCEPT !.bidx = sw.to, !.blocked = FALSE]]
        BY <2>10, <3>1 DEF SwitchRewire, TypeOK
      <4>3. QED
        BY <3>1, <4>1, <4>2, RoutesType
    <3>4. slots' \in SlotArrays
      BY <2>10, <3>1, <3>2, MoveListenerType DEF SwitchRewire, TypeOK, SlotArrays
    <3>5. sw' \in Switch
      <4>1. sw \in SwitchCall
        BY <2>10, InSwitch DEF SwitchRewire
      <4>2. sw' = [sw EXCEPT !.phase = "flush", !.window = FALSE]
        BY <2>10 DEF SwitchRewire
      <4>3. QED
        BY <4>1, <4>2 DEF Switch, SwitchCall
    <3>6. QED
      BY <2>10, <3>3, <3>4, <3>5 DEF SwitchRewire, TypeOK, SlotArrays
  <2>11. ASSUME SwitchFlush PROVE TypeOK'
    <3> DEFINE t == sw.topic
               r == routes[t]
    <3>1. t \in Topics /\ sw.sent \in Nat
      BY <2>11 DEF SwitchFlush, TypeOK, Switch, SwitchCall, NoSwitch
    <3>2. r \in Route /\ r.q \in Seq(Ids) /\ r.cb \in BOOLEAN
          /\ r.bidx \in Backends \cup {NoBackend}
      BY <3>1 DEF TypeOK, Route
    <3>3. r.q[sw.sent + 1] \in Ids
      BY <2>11, <3>1, <3>2 DEF SwitchFlush
    <3>4. HandOver(slots, r.bidx, t, r.cb, r.q[sw.sent + 1], "buffer")
      BY <2>11 DEF SwitchFlush
    <3>5. /\ log' \in Seq(HandOvers)
          /\ inflight' \in [Backends -> Seq(Ids)]
          /\ confirms' \in [Ids -> Nat]
      BY <3>1, <3>2, <3>3, <3>4, HandOverType
    <3>6. sw' \in Switch
      <4>1. sw \in SwitchCall
        BY <2>11, InSwitch DEF SwitchFlush
      <4> DEFINE w == r.bidx \in SyncBackends /\ r.cb
      <4>2. sw' = [sw EXCEPT !.sent = @ + 1, !.window = w] /\ w \in BOOLEAN
        <5>1. w \in BOOLEAN
          BY <3>2
        <5>2. sw' = [sw EXCEPT !.sent = @ + 1, !.window = w]
          BY <2>11 DEF SwitchFlush
        <5>3. QED
          BY <5>1, <5>2
      <4>3. sw.sent + 1 \in Nat
        BY <3>1
      <4>4. [sw EXCEPT !.sent = sw.sent + 1, !.window = w] \in SwitchCall
        BY <4>1, <4>2, <4>3, SwitchCallType
      <4>5. QED
        BY <4>2, <4>4 DEF Switch
    <3>7. QED
      BY <2>11, <3>5, <3>6 DEF SwitchFlush, TypeOK
  <2>12. ASSUME SwitchEnd PROVE TypeOK'
    <3> DEFINE t == sw.topic
    <3>1. t \in Topics
      BY <2>12 DEF SwitchEnd, TypeOK, Switch, SwitchCall, NoSwitch
    <3>2. [routes[t] EXCEPT !.q = <<>>] \in Route
      <4>1. routes[t] \in Route /\ <<>> \in Seq(Ids)
        BY <3>1 DEF TypeOK
      <4>2. QED
        BY <4>1 DEF Route
    <3>3. routes' = [routes EXCEPT ![t] = [routes[t] EXCEPT !.q = <<>>]]
      BY <2>12 DEF SwitchEnd
    <3>4. routes' \in [Topics -> Route]
      BY <3>1, <3>2, <3>3, RoutesType
    <3>5. sw' \in Switch
      BY <2>12 DEF SwitchEnd, Switch
    <3>6. QED
      BY <2>12, <3>4, <3>5 DEF SwitchEnd, TypeOK
  <2>13. ASSUME NEW b \in Backends, Confirm(b) PROVE TypeOK'
    <3> DEFINE id == Head(inflight[b])
    <3>1. inflight[b] \in Seq(Ids) /\ inflight[b] # <<>>
      BY <2>13 DEF Confirm, TypeOK
    <3>2. id \in Ids /\ Tail(inflight[b]) \in Seq(Ids)
      BY <3>1
    <3>3. inflight' \in [Backends -> Seq(Ids)]
      BY <2>13, <3>2 DEF Confirm, TypeOK
    <3>4. Cardinality(Heard(slots, b, ops[id])) \in Nat
      <4>1. IsFiniteSet(Heard(slots, b, ops[id]))
        BY HubAssumption, FS_Subset DEF Heard
      <4>2. QED
        BY <4>1, FS_CardinalityType
    <3>5. Confirmed(slots, b, ops[id], routes[ops[id]].cb, id) \in [Ids -> Nat]
      <4> HIDE DEF id
      <4>1. confirms \in [Ids -> Nat]
        BY DEF TypeOK
      <4>2. QED
        BY <3>2, <3>4, <4>1 DEF Confirmed
    <3>6. confirms' \in [Ids -> Nat]
      BY <2>13, <3>5 DEF Confirm
    <3>7. QED
      BY <2>13, <3>3, <3>6 DEF Confirm, TypeOK
  <2>14. ASSUME NEW b \in Backends, ChangeHealth(b) PROVE TypeOK'
    BY <2>14 DEF ChangeHealth, TypeOK
  <2>15. CASE UNCHANGED vars
    BY <2>15 DEF vars, TypeOK
  <2>16. QED
    BY <2>1, <2>2, <2>3, <2>4, <2>5, <2>7, <2>8, <2>9, <2>10, <2>11, <2>12,
       <2>13, <2>14, <2>15 DEF Next
<1>3. QED
  BY <1>1, <1>2, PTL DEF Spec

-----------------------------------------------------------------------------
(* The buffer of a soft switch.                                            *)

(* An operation is buffered only during the switch of its topic, and every *)
(* switch leaves its topic unblocked with an empty buffer.                 *)
THEOREM BufferIsDrained == Spec => []BufferDrained
<1>1. Init => BufferDrained
  BY DEF Init, BufferDrained, DefaultRoute, NoSwitch
<1>2. TypeOK /\ BufferDrained /\ [Next]_vars => BufferDrained'
  <2> SUFFICES ASSUME TypeOK, BufferDrained, [Next]_vars PROVE BufferDrained'
    OBVIOUS
  <2> DEFINE Kept(u) == /\ routes'[u].blocked = routes[u].blocked
                        /\ routes'[u].q = routes[u].q
  <2>0. ASSUME sw' = sw, \A u \in Topics : Kept(u)
        PROVE  BufferDrained'
    BY <2>0 DEF BufferDrained
  <2>1. ASSUME NEW t \in Topics, PublishBuffered(t) PROVE BufferDrained'
    <3>1. sw' = sw /\ sw.phase = "snapshot" /\ sw.topic = t
      BY <2>1 DEF PublishBuffered, BufferDrained
    <3>2. \A u \in Topics : /\ routes'[u].blocked = routes[u].blocked
                            /\ u # t => routes'[u].q = routes[u].q
      BY <2>1 DEF PublishBuffered, TypeOK, Route
    <3>3. QED
      BY <3>1, <3>2 DEF BufferDrained
  <2>2. ASSUME NEW t \in Topics, NEW r \in Route, sw' = sw,
               r.blocked = routes[t].blocked, r.q = routes[t].q,
               routes' = [routes EXCEPT ![t] = r]
        PROVE  BufferDrained'
    BY <2>0, <2>2 DEF TypeOK
  <2>3. ASSUME NEW t \in Topics, PublishRouted(t) PROVE BufferDrained'
    <3> DEFINE to == RouteFor(Found(t))
               r  == [Found(t) EXCEPT !.bidx = to]
    <3>1. to \in Backends \cup {NoBackend}
      BY FoundType, RouteForType DEF Route
    <3>2. r \in Route /\ r.blocked = routes[t].blocked /\ r.q = routes[t].q
      BY <3>1, FoundType DEF Route
    <3>3. sw' = sw /\ routes' = [routes EXCEPT ![t] = r]
      BY <2>3 DEF PublishRouted
    <3>4. QED
      BY <2>2, <3>2, <3>3
  <2>4. ASSUME NEW t \in Topics, PublishUnrouted(t) PROVE BufferDrained'
    BY <2>0, <2>4 DEF PublishUnrouted
  <2>5. ASSUME NEW t \in Topics, SetListener(t) PROVE BufferDrained'
    <3> DEFINE idx == HubChoose(Found(t))
               r   == [Found(t) EXCEPT !.cb = TRUE, !.bidx = idx]
    <3>1. r \in Route /\ r.blocked = routes[t].blocked /\ r.q = routes[t].q
      BY FoundType, HubChooseType DEF Route
    <3>2. sw' = sw /\ routes' = [routes EXCEPT ![t] = r]
      BY <2>5 DEF SetListener
    <3>3. QED
      BY <2>2, <3>1, <3>2
  <2>6. ASSUME NEW t \in Topics, UnsetListener(t) PROVE BufferDrained'
    <3> DEFINE r == [routes[t] EXCEPT !.cb = FALSE]
    <3>1. r \in Route /\ r.blocked = routes[t].blocked /\ r.q = routes[t].q
      BY FoundType DEF Route
    <3>2. sw' = sw /\ routes' = [routes EXCEPT ![t] = r]
      BY <2>6 DEF UnsetListener
    <3>3. QED
      BY <2>2, <3>1, <3>2
  <2>7. ASSUME NEW t \in Topics, NEW s \in Route, Reselect(t, s),
               s.blocked = routes[t].blocked, s.q = routes[t].q
        PROVE  BufferDrained'
    <3> DEFINE r == [s EXCEPT !.bidx = HubChoose(s)]
    <3>1. r \in Route /\ r.blocked = routes[t].blocked /\ r.q = routes[t].q
      BY <2>7, HubChooseType DEF Route
    <3>2. sw' = sw /\ routes' = [routes EXCEPT ![t] = r]
      BY <2>7 DEF Reselect
    <3>3. QED
      BY <2>2, <3>1, <3>2
  <2>8. ASSUME NEW t \in Topics, NEW required \in ReqCaps[t],
               SetTopicCaps(t, required)
        PROVE  BufferDrained'
    <3> DEFINE r == [Found(t) EXCEPT !.caps = required]
    <3>1. required \in SUBSET CapBits
      BY HubAssumption
    <3>2. r \in Route /\ r.blocked = routes[t].blocked /\ r.q = routes[t].q
      BY <3>1, FoundType DEF Route
    <3>3. QED
      BY <2>7, <2>8, <3>2 DEF SetTopicCaps
  <2>9. ASSUME NEW t \in Topics, NEW pin \in Pins[t], ForceBackend(t, pin)
        PROVE  BufferDrained'
    <3> DEFINE r == [Found(t) EXCEPT !.pin = pin]
    <3>1. pin \in Int
      BY HubAssumption
    <3>2. r \in Route /\ r.blocked = routes[t].blocked /\ r.q = routes[t].q
      BY <3>1, FoundType DEF Route
    <3>3. QED
      BY <2>7, <2>9, <3>2 DEF ForceBackend
  <2>10. ASSUME NEW t \in Topics, NEW arg \in Targets[t], SwitchBegin(t, arg)
         PROVE  BufferDrained'
    <3> DEFINE r  == Found(t)
               to == SwitchTarget(arg, r)
    <3>1. sw = NoSwitch
      BY <2>10 DEF SwitchBegin, EventLoop
    <3>2. \A u \in Topics : ~routes[u].blocked /\ routes[u].q = <<>>
      BY <3>1 DEF BufferDrained, NoSwitch
    <3>3. CASE to = NoBackend
      <4>1. sw' = sw /\ routes' = [routes EXCEPT ![t] = r]
        BY <2>10, <3>3 DEF SwitchBegin
      <4>2. QED
        BY <2>2, <4>1, FoundType
    <3>4. CASE to # NoBackend
      <4>1. /\ sw'.phase = "snapshot" /\ sw'.topic = t
            /\ routes' = [routes EXCEPT ![t] = [r EXCEPT !.blocked = TRUE]]
        BY <2>10, <3>4 DEF SwitchBegin
      <4>2. /\ routes'[t].blocked /\ routes'[t].q = routes[t].q
            /\ \A u \in Topics \ {t} : routes'[u] = routes[u]
        BY <4>1, FoundType DEF TypeOK, Route
      <4>3. QED
        BY <3>2, <4>1, <4>2 DEF BufferDrained
    <3>5. QED
      BY <3>3, <3>4
  <2>11. ASSUME SwitchRewire PROVE BufferDrained'
    <3> DEFINE t == sw.topic
    <3>1. t \in Topics /\ sw \in SwitchCall
      BY <2>11, InSwitch DEF SwitchRewire, SwitchCall
    <3>2. routes' = [routes EXCEPT ![t] =
                       [routes[t] EXCEPT !.bidx = sw.to, !.blocked = FALSE]]
      BY <2>11, <3>1 DEF SwitchRewire, TypeOK
    <3>3. /\ ~routes'[t].blocked /\ routes'[t].q = routes[t].q
          /\ \A u \in Topics \ {t} : routes'[u] = routes[u]
      BY <3>1, <3>2 DEF TypeOK, Route
    <3>4. sw'.phase = "flush" /\ sw'.topic = t
      BY <2>11, <3>1 DEF SwitchRewire, SwitchCall
    <3>5. QED
      BY <2>11, <3>3, <3>4 DEF BufferDrained, SwitchRewire
  <2>12. ASSUME SwitchFlush PROVE BufferDrained'
    <3>1. sw \in SwitchCall /\ sw.phase = "flush"
      BY <2>12, InSwitch DEF SwitchFlush
    <3>2. routes' = routes /\ sw'.phase = "flush" /\ sw'.topic = sw.topic
      BY <2>12, <3>1 DEF SwitchFlush, SwitchCall
    <3>3. QED
      BY <3>1, <3>2 DEF BufferDrained
  <2>13. ASSUME SwitchEnd PROVE BufferDrained'
    <3> DEFINE t == sw.topic
    <3>1. t \in Topics /\ sw.phase = "flush"
      BY <2>13, InSwitch DEF SwitchEnd, SwitchCall
    <3>2. /\ routes'[t].q = <<>> /\ routes'[t].blocked = routes[t].blocked
          /\ \A u \in Topics \ {t} : routes'[u] = routes[u]
      BY <2>13, <3>1 DEF SwitchEnd, TypeOK, Route
    <3>3. sw'.phase = "none"
      BY <2>13 DEF SwitchEnd, NoSwitch
    <3>4. QED
      BY <3>1, <3>2, <3>3 DEF BufferDrained
  <2>14. ASSUME NEW b \in Backends, Confirm(b) PROVE BufferDrained'
    BY <2>0, <2>14 DEF Confirm
  <2>15. ASSUME NEW b \in Backends, ChangeHealth(b) PROVE BufferDrained'
    BY <2>0, <2>15 DEF ChangeHealth
  <2>16. CASE UNCHANGED vars
    BY <2>0, <2>16 DEF vars
  <2>17. QED
    BY <2>1, <2>3, <2>4, <2>5, <2>6, <2>8, <2>9, <2>10, <2>11, <2>12, <2>13,
       <2>14, <2>15, <2>16 DEF Next
<1>3. QED
  BY <1>1, <1>2, TypeCorrect, PTL DEF Spec

-----------------------------------------------------------------------------
(* A pin decides where a topic publishes whenever it is usable.            *)
THEOREM PinAlwaysHolds == Spec => PinHolds
<1>1. TypeOK /\ [Next]_vars =>
        [\A t \in Topics :
           PublishRouted(t) /\ routes[t].pin \in Backends =>
             \/ ~Eligible(Candidates[routes[t].pin], routes[t].caps)
             \/ routes'[t].bidx = routes[t].pin
                /\ log'[Len(log')].to = routes[t].pin]_vars
  <2> SUFFICES ASSUME TypeOK, NEW t \in Topics, PublishRouted(t),
                      routes[t].pin \in Backends,
                      Eligible(Candidates[routes[t].pin], routes[t].caps)
               PROVE  /\ routes'[t].bidx = routes[t].pin
                      /\ log'[Len(log')].to = routes[t].pin
    OBVIOUS
  <2> DEFINE r == Found(t)
             p == routes[t].pin
             e == [id |-> Len(ops) + 1, to |-> p, cb |-> r.cb, how |-> "direct"]
  <2>1. p # NoBackend
    BY BackendNotNone
  <2>2. RouteFor(r) = p
    BY <2>1, FoundType, HubChoosePin DEF RouteFor
  <2>3. routes'[t].bidx = p
    <3>1. routes' = [routes EXCEPT ![t] = [r EXCEPT !.bidx = p]]
      BY <2>2 DEF PublishRouted
    <3>2. QED
      BY <3>1, FoundType DEF TypeOK, Route
  <2>4. log' = Append(log, e)
    BY <2>1, <2>2 DEF PublishRouted, HandOver
  <2>5. log'[Len(log')] = e
    <3>1. log \in Seq(HandOvers)
      BY DEF TypeOK
    <3>2. QED
      BY <2>4, <3>1
  <2>6. QED
    BY <2>3, <2>5
<1>2. QED
  BY <1>1, TypeCorrect, PTL DEF Spec, PinHolds

-----------------------------------------------------------------------------
(* Where the listeners are.  The lemmas say what removing and adding an    *)
(* entry does to every topic's entries; they need the inst_ids distinct.   *)

(* unset_listener takes exactly this topic's entries off this backend. *)
LEMMA UnlistenHeard ==
  ASSUME DistinctInsts, Free \notin Insts, NEW sl \in SlotArrays,
         NEW b \in Backends, NEW t \in Topics, NEW c \in Backends, NEW u \in Topics
  PROVE  Heard(Unlisten(sl, b, t), c, u) =
           IF b = c /\ t = u THEN {} ELSE Heard(sl, c, u)
<1>1. b # NoBackend
  BY BackendNotNone
<1>2. InstOf[u] # Free
  BY DEF Insts
<1>3. CASE b # c
  BY <1>1, <1>3 DEF Heard, Unlisten, SlotArrays
<1>4. CASE b = c
  <2>1. Unlisten(sl, b, t)[c] =
          [s \in Slots |-> IF sl[b][s] = InstOf[t] THEN Free ELSE sl[b][s]]
    BY <1>1, <1>4 DEF Unlisten, SlotArrays
  <2>2. t # u => InstOf[t] # InstOf[u]
    BY DEF DistinctInsts
  <2>3. QED
    BY <1>2, <1>4, <2>1, <2>2 DEF Heard
<1>5. QED
  BY <1>3, <1>4

(* Removing a topic's entries from the backend it is heard on, or from one *)
(* it is not heard on, leaves every other topic where it is.               *)
LEMMA UnlistenPlaces ==
  ASSUME DistinctInsts, NEW sl \in SlotArrays, NEW b \in Backends \cup {NoBackend},
         NEW t \in Topics, NEW u \in Topics, NEW at, HeardOnlyAt(sl, u, at)
  PROVE  HeardOnlyAt(Unlisten(sl, b, t), u,
                     IF u = t /\ at = b THEN NoBackend ELSE at)
<1>1. CASE b = NoBackend
  BY <1>1 DEF Unlisten
<1>2. CASE b \in Backends
  <2>1. \A c \in Backends :
          Heard(Unlisten(sl, b, t), c, u) =
            IF b = c /\ t = u THEN {} ELSE Heard(sl, c, u)
    BY <1>2, UnlistenHeard, HubAssumption
  <2>2. CASE u = t /\ at = b
    BY <2>1, <2>2, BackendNotNone DEF HeardOnlyAt
  <2>3. CASE ~(u = t /\ at = b)
    BY <2>1, <2>3 DEF HeardOnlyAt
  <2>4. QED
    BY <2>2, <2>3
<1>3. QED
  BY <1>1, <1>2

(* The array of a backend is never full when a topic that is not in it is  *)
(* to be added: every place taken belongs to another topic.                *)
LEMMA RoomForListener ==
  ASSUME SlotsSuffice, NEW sl \in SlotArrays, NEW b \in Backends, NEW t \in Topics,
         Heard(sl, b, t) = {},
         \A u \in Topics : \E at : HeardOnlyAt(sl, u, at)
  PROVE  FreeSlots(sl, b) # {}
<1> SUFFICES ASSUME FreeSlots(sl, b) = {} PROVE FALSE
  OBVIOUS
<1> DEFINE Others == Topics \ {t}
           Owner(s) == CHOOSE u \in Others : InstOf[u] = sl[b][s]
           owner == [s \in Slots |-> Owner(s)]
<1>1. \A s \in Slots : \E u \in Others : InstOf[u] = sl[b][s]
  BY DEF FreeSlots, SlotArrays, Insts, Heard
<1>2. \A s \in Slots : Owner(s) \in Others /\ InstOf[Owner(s)] = sl[b][s]
  BY <1>1
<1> HIDE DEF Owner
<1>3. owner \in [Slots -> Others]
  BY <1>2
<1>4. IsFiniteSet(Others) /\ Cardinality(Others) < Cardinality(Slots)
  <2>1. /\ IsFiniteSet(Others)
        /\ Cardinality(Others) = Cardinality(Topics) - 1
    BY FS_RemoveElement DEF SlotsSuffice
  <2>2. Cardinality(Topics) \in Nat /\ Cardinality(Slots) \in Nat
    BY HubAssumption, FS_CardinalityType DEF SlotsSuffice
  <2>3. QED
    BY <2>1, <2>2 DEF SlotsSuffice
<1>5. PICK x, y \in Slots : x # y /\ owner[x] = owner[y]
  <2> HIDE DEF owner, Others
  <2>1. IsFiniteSet(Slots)
    BY HubAssumption
  <2>2. QED
    BY <1>3, <1>4, <2>1, FS_PigeonHole
<1>6. x \in Heard(sl, b, owner[x]) /\ y \in Heard(sl, b, owner[x])
  BY <1>2, <1>5 DEF Heard
<1>7. owner[x] \in Topics
  BY <1>3
<1>8. PICK at : HeardOnlyAt(sl, owner[x], at)
  BY <1>7
<1>9. (\E s \in Slots : Heard(sl, b, owner[x]) = {s}) \/ Heard(sl, b, owner[x]) = {}
  BY <1>8 DEF HeardOnlyAt
<1>10. QED
  BY <1>5, <1>6, <1>9

(* set_listener adds one entry of this topic on this backend. *)
LEMMA ListenHeard ==
  ASSUME DistinctInsts, Free \notin Insts, NEW sl \in SlotArrays,
         NEW b \in Backends, NEW t \in Topics, FreeSlots(sl, b) # {}
  PROVE  \E s \in Slots : \A c \in Backends, u \in Topics :
           Heard(Listen(sl, b, t), c, u) =
             IF b = c /\ t = u THEN Heard(sl, c, u) \cup {s} ELSE Heard(sl, c, u)
<1> DEFINE s == CHOOSE x \in FreeSlots(sl, b) : TRUE
<1>1. s \in Slots /\ sl[b][s] = Free
  BY DEF FreeSlots
<1>2. Listen(sl, b, t) = [sl EXCEPT ![b] = [sl[b] EXCEPT ![s] = InstOf[t]]]
  BY BackendNotNone DEF Listen
<1> HIDE DEF s
<1>3. ASSUME NEW c \in Backends, NEW u \in Topics
      PROVE  Heard(Listen(sl, b, t), c, u) =
               IF b = c /\ t = u THEN Heard(sl, c, u) \cup {s} ELSE Heard(sl, c, u)
  <2>1. InstOf[u] # Free
    BY DEF Insts
  <2>2. CASE b # c
    BY <1>2, <2>2 DEF Heard, SlotArrays
  <2>3. CASE b = c
    <3>1. Listen(sl, b, t)[c] = [sl[b] EXCEPT ![s] = InstOf[t]]
      BY <1>2, <2>3 DEF SlotArrays
    <3>2. \A x \in Slots : Listen(sl, b, t)[c][x] =
                           IF x = s THEN InstOf[t] ELSE sl[b][x]
      BY <3>1 DEF SlotArrays
    <3>3. t # u => InstOf[t] # InstOf[u]
      BY DEF DistinctInsts
    <3>4. QED
      BY <1>1, <2>1, <2>3, <3>2, <3>3 DEF Heard
  <2>4. QED
    BY <2>2, <2>3
<1>4. QED
  BY <1>1, <1>3

(* A topic heard nowhere that is added on a backend is heard only there.   *)
LEMMA ListenPlaces ==
  ASSUME DistinctInsts, SlotsSuffice, NEW sl \in SlotArrays,
         NEW b \in Backends \cup {NoBackend}, NEW t \in Topics,
         HeardOnlyAt(sl, t, NoBackend),
         NEW at, \A u \in Topics : HeardOnlyAt(sl, u, at[u])
  PROVE  \A u \in Topics :
           HeardOnlyAt(Listen(sl, b, t), u, IF u = t THEN b ELSE at[u])
<1>1. CASE b = NoBackend
  BY <1>1 DEF Listen
<1>2. CASE b \in Backends
  <2>1. Heard(sl, b, t) = {}
    BY <1>2, BackendNotNone DEF HeardOnlyAt
  <2>2. FreeSlots(sl, b) # {}
    BY <1>2, <2>1, RoomForListener
  <2>3. PICK s \in Slots : \A c \in Backends, u \in Topics :
          Heard(Listen(sl, b, t), c, u) =
            IF b = c /\ t = u THEN Heard(sl, c, u) \cup {s} ELSE Heard(sl, c, u)
    BY <1>2, <2>2, ListenHeard, HubAssumption
  <2>4. HeardOnlyAt(Listen(sl, b, t), t, b)
    BY <1>2, <2>3, BackendNotNone DEF HeardOnlyAt
  <2>5. ASSUME NEW u \in Topics \ {t} PROVE HeardOnlyAt(Listen(sl, b, t), u, at[u])
    BY <2>3, <2>5 DEF HeardOnlyAt
  <2>6. QED
    BY <2>4, <2>5
<1>3. QED
  BY <1>1, <1>2

(* Moving a topic's listener moves it and no other. *)
LEMMA MovePlaces ==
  ASSUME DistinctInsts, SlotsSuffice, NEW sl \in SlotArrays,
         NEW t \in Topics, NEW to \in Backends \cup {NoBackend},
         NEW at, at[t] \in Backends \cup {NoBackend},
         \A u \in Topics : HeardOnlyAt(sl, u, at[u])
  PROVE  \A u \in Topics :
           HeardOnlyAt(Listen(Unlisten(sl, at[t], t), to, t), u,
                       IF u = t THEN to ELSE at[u])
<1> DEFINE mid == Unlisten(sl, at[t], t)
           At2 == [u \in Topics |-> IF u = t THEN NoBackend ELSE at[u]]
<1>1. mid \in SlotArrays
  BY UnlistenType
<1>2. \A u \in Topics :
        HeardOnlyAt(mid, u, IF u = t /\ at[u] = at[t] THEN NoBackend ELSE at[u])
  BY UnlistenPlaces
<1>3. \A u \in Topics : HeardOnlyAt(mid, u, At2[u])
  BY <1>2
<1>4. HeardOnlyAt(mid, t, NoBackend)
  BY <1>2
<1> HIDE DEF mid
<1>5. \A u \in Topics :
        HeardOnlyAt(Listen(mid, to, t), u, IF u = t THEN to ELSE At2[u])
  BY <1>1, <1>3, <1>4, ListenPlaces
<1>6. QED
  BY <1>5 DEF mid

(* In a placed state, a call that moves the listener of t from its backend *)
(* to another and records that in the route leaves the state placed.       *)
LEMMA MoveListenerPlaces ==
  ASSUME DistinctInsts, SlotsSuffice, TypeOK, ListenerPlacement,
         NEW t \in Topics, NEW r \in Route, NEW to \in Backends \cup {NoBackend},
         r.cb = routes[t].cb, r.bidx = routes[t].bidx,
         NEW r2 \in Route, r2.cb = r.cb, r2.bidx = to,
         routes' = [routes EXCEPT ![t] = r2],
         slots' = IF to = r.bidx THEN slots ELSE MoveListener(slots, r, t, to)
  PROVE  ListenerPlacement'
<1> DEFINE at == [u \in Topics |-> ListensAt(u)]
<1>1. slots \in SlotArrays
  BY DEF TypeOK, SlotArrays
<1>2. \A u \in Topics : HeardOnlyAt(slots, u, at[u])
  BY DEF ListenerPlacement
<1>3. \A u \in Topics : ListensAt(u)' =
        IF u = t THEN (IF r.cb THEN to ELSE NoBackend) ELSE at[u]
  BY DEF ListensAt, TypeOK
<1>4. CASE ~r.cb \/ to = r.bidx
  <2>1. slots' = slots
    BY <1>4 DEF MoveListener
  <2>2. \A u \in Topics : ListensAt(u)' = at[u]
    BY <1>3, <1>4 DEF ListensAt
  <2>3. \A u \in Topics : HeardOnlyAt(slots', u, ListensAt(u)')
    BY <1>2, <2>1, <2>2
  <2>4. QED
    BY <2>3 DEF ListenerPlacement, HeardOnlyAt, Heard
<1>5. CASE r.cb /\ to # r.bidx
  <2>1. at[t] = r.bidx /\ at[t] \in Backends \cup {NoBackend}
    BY <1>5 DEF ListensAt, Route
  <2>2. slots' = Listen(Unlisten(slots, at[t], t), to, t)
    BY <1>5, <2>1 DEF MoveListener
  <2> HIDE DEF at
  <2>3. \A u \in Topics :
          HeardOnlyAt(Listen(Unlisten(slots, at[t], t), to, t), u,
                      IF u = t THEN to ELSE at[u])
    BY <1>1, <1>2, <2>1, MovePlaces
  <2>4. \A u \in Topics : HeardOnlyAt(slots', u, ListensAt(u)')
    BY <1>3, <1>5, <2>2, <2>3
  <2>5. QED
    BY <2>4 DEF ListenerPlacement, HeardOnlyAt, Heard
<1>6. QED
  BY <1>4, <1>5

(* If no two topics share an inst_id and the listener arrays have a place  *)
(* for every topic, each subscribed topic is heard exactly once, on the    *)
(* backend of its route and nowhere else, in every reachable state.        *)
THEOREM ListenersPlaced ==
  ASSUME DistinctInsts, SlotsSuffice
  PROVE  Spec => []ListenerPlacement
<1>1. Init => ListenerPlacement
  <2> SUFFICES ASSUME Init, NEW t \in Topics
               PROVE  HeardOnlyAt(slots, t, NoBackend)
    BY DEF ListenerPlacement, ListensAt, Init, DefaultRoute
  <2>1. InstOf[t] # Free
    BY HubAssumption DEF Insts
  <2>2. QED
    BY <2>1, BackendNotNone DEF Init, HeardOnlyAt, Heard
<1>2. TypeOK /\ ListenerPlacement /\ [Next]_vars => ListenerPlacement'
  <2> SUFFICES ASSUME TypeOK, ListenerPlacement, [Next]_vars
               PROVE  ListenerPlacement'
    OBVIOUS
  <2> DEFINE at == [u \in Topics |-> ListensAt(u)]
  <2>a. slots \in SlotArrays
    BY DEF TypeOK, SlotArrays
  <2>b. \A u \in Topics : HeardOnlyAt(slots, u, at[u])
    BY DEF ListenerPlacement
  <2>0. ASSUME slots' = slots,
               \A u \in Topics : /\ routes'[u].cb = routes[u].cb
                                 /\ routes'[u].bidx = routes[u].bidx
        PROVE  ListenerPlacement'
    BY <2>0 DEF ListenerPlacement, ListensAt, HeardOnlyAt, Heard
  <2>1. ASSUME NEW t \in Topics, PublishBuffered(t) PROVE ListenerPlacement'
    <3>1. \A u \in Topics : /\ routes'[u].cb = routes[u].cb
                            /\ routes'[u].bidx = routes[u].bidx
      BY <2>1 DEF PublishBuffered, TypeOK, Route
    <3>2. QED
      BY <2>0, <2>1, <3>1 DEF PublishBuffered
  <2>2. ASSUME NEW t \in Topics, PublishRouted(t) PROVE ListenerPlacement'
    <3> DEFINE r  == Found(t)
               to == RouteFor(r)
               r2 == [r EXCEPT !.bidx = to]
    <3>1. /\ r \in Route /\ to \in Backends \cup {NoBackend}
          /\ r.cb = routes[t].cb /\ r.bidx = routes[t].bidx
      BY FoundType, RouteForType DEF Route
    <3>2. r2 \in Route /\ r2.cb = r.cb /\ r2.bidx = to
      BY <3>1 DEF Route
    <3>3. /\ routes' = [routes EXCEPT ![t] = r2]
          /\ slots' = IF to = r.bidx THEN slots ELSE MoveListener(slots, r, t, to)
      BY <2>2 DEF PublishRouted
    <3> HIDE DEF r, to, r2
    <3>4. QED
      BY <3>1, <3>2, <3>3, MoveListenerPlaces
  <2>3. ASSUME NEW t \in Topics, PublishUnrouted(t) PROVE ListenerPlacement'
    BY <2>0, <2>3 DEF PublishUnrouted
  <2>4. ASSUME NEW t \in Topics, SetListener(t) PROVE ListenerPlacement'
    <3> DEFINE r   == Found(t)
               idx == HubChoose(r)
               sl  == IF idx # r.bidx THEN Unlisten(slots, r.bidx, t) ELSE slots
    <3>1. /\ idx \in Backends \cup {NoBackend}
          /\ r.bidx \in Backends \cup {NoBackend}
      BY FoundType, HubChooseType DEF Route
    <3>2. at[t] = NoBackend
      BY <2>4, FoundType DEF SetListener, ListensAt
    <3>3. sl \in SlotArrays
      BY <2>a, <3>1, UnlistenType
    <3>4. \A u \in Topics : HeardOnlyAt(sl, u, at[u])
      <4>1. CASE idx = r.bidx
        BY <2>b, <4>1
      <4>2. CASE idx # r.bidx
        <5>1. ASSUME NEW u \in Topics
              PROVE  HeardOnlyAt(sl, u, IF u = t /\ at[u] = r.bidx THEN NoBackend
                                        ELSE at[u])
          <6> HIDE DEF r, at
          <6>1. HeardOnlyAt(slots, u, at[u])
            BY <2>b
          <6>2. QED
            BY <2>a, <3>1, <4>2, <6>1, UnlistenPlaces
        <5>2. QED
          BY <3>2, <5>1
      <4>3. QED
        BY <4>1, <4>2
    <3>5. /\ slots' = Listen(sl, idx, t)
          /\ routes' = [routes EXCEPT ![t] = [r EXCEPT !.cb = TRUE, !.bidx = idx]]
      BY <2>4 DEF SetListener
    <3>6. \A u \in Topics : ListensAt(u)' = IF u = t THEN idx ELSE at[u]
      <4>1. r \in Route
        BY FoundType
      <4>2. routes'[t].cb /\ routes'[t].bidx = idx
        BY <3>5, <4>1 DEF TypeOK, Route
      <4>3. \A u \in Topics \ {t} : routes'[u] = routes[u]
        BY <3>5 DEF TypeOK
      <4>4. QED
        BY <4>2, <4>3 DEF ListensAt
    <3> HIDE DEF r, idx, sl, at
    <3>7. HeardOnlyAt(sl, t, NoBackend)
      BY <3>2, <3>4
    <3>8. \A u \in Topics :
            HeardOnlyAt(Listen(sl, idx, t), u, IF u = t THEN idx ELSE at[u])
      BY <3>1, <3>3, <3>4, <3>7, ListenPlaces
    <3>9. \A u \in Topics : HeardOnlyAt(slots', u, ListensAt(u)')
      BY <3>5, <3>6, <3>8
    <3>10. QED
      BY <3>9 DEF ListenerPlacement, HeardOnlyAt, Heard
  <2>5. ASSUME NEW t \in Topics, UnsetListener(t) PROVE ListenerPlacement'
    <3> DEFINE b == routes[t].bidx
    <3>1. routes[t] \in Route /\ b \in Backends \cup {NoBackend} /\ at[t] = b
      BY <2>5 DEF UnsetListener, ListensAt, TypeOK, Route
    <3>2. \A u \in Topics :
            HeardOnlyAt(Unlisten(slots, b, t), u,
                        IF u = t /\ at[u] = b THEN NoBackend ELSE at[u])
      <4> HIDE DEF at, b
      <4>1. QED
        BY <2>a, <2>b, <3>1, UnlistenPlaces
    <3>3. \A u \in Topics : ListensAt(u)' = IF u = t THEN NoBackend ELSE at[u]
      <4>1. routes'[t].cb = FALSE
        BY <2>5, <3>1 DEF UnsetListener, TypeOK, Route
      <4>2. \A u \in Topics \ {t} : routes'[u] = routes[u]
        BY <2>5 DEF UnsetListener, TypeOK
      <4>3. QED
        BY <4>1, <4>2 DEF ListensAt
    <3>4. slots' = Unlisten(slots, b, t)
      BY <2>5 DEF UnsetListener
    <3>5. \A u \in Topics : HeardOnlyAt(slots', u, ListensAt(u)')
      BY <3>1, <3>2, <3>3, <3>4
    <3>6. QED
      BY <3>5 DEF ListenerPlacement, HeardOnlyAt, Heard
  <2>6. ASSUME NEW t \in Topics, NEW r \in Route, Reselect(t, r),
               r.cb = routes[t].cb, r.bidx = routes[t].bidx
        PROVE  ListenerPlacement'
    <3> DEFINE to == HubChoose(r)
               r2 == [r EXCEPT !.bidx = to]
    <3>1. to \in Backends \cup {NoBackend}
      BY HubChooseType
    <3>2. r2 \in Route /\ r2.cb = r.cb /\ r2.bidx = to
      BY <3>1 DEF Route
    <3>3. /\ routes' = [routes EXCEPT ![t] = r2]
          /\ slots' = IF to = r.bidx THEN slots ELSE MoveListener(slots, r, t, to)
      BY <2>6 DEF Reselect
    <3> HIDE DEF to, r2
    <3>4. QED
      BY <2>6, <3>1, <3>2, <3>3, MoveListenerPlaces
  <2>7. ASSUME NEW t \in Topics, NEW required \in ReqCaps[t],
               SetTopicCaps(t, required)
        PROVE  ListenerPlacement'
    <3> DEFINE r == [Found(t) EXCEPT !.caps = required]
    <3>1. required \in SUBSET CapBits
      BY HubAssumption
    <3>2. r \in Route /\ r.cb = routes[t].cb /\ r.bidx = routes[t].bidx
      BY <3>1, FoundType DEF Route
    <3>3. QED
      BY <2>6, <2>7, <3>2 DEF SetTopicCaps
  <2>8. ASSUME NEW t \in Topics, NEW pin \in Pins[t], ForceBackend(t, pin)
        PROVE  ListenerPlacement'
    <3> DEFINE r == [Found(t) EXCEPT !.pin = pin]
    <3>1. pin \in Int
      BY HubAssumption
    <3>2. r \in Route /\ r.cb = routes[t].cb /\ r.bidx = routes[t].bidx
      BY <3>1, FoundType DEF Route
    <3>3. QED
      BY <2>6, <2>8, <3>2 DEF ForceBackend
  <2>9. ASSUME NEW t \in Topics, NEW arg \in Targets[t], SwitchBegin(t, arg)
        PROVE  ListenerPlacement'
    <3> DEFINE r == Found(t)
    <3>1. /\ r \in Route /\ r.cb = routes[t].cb /\ r.bidx = routes[t].bidx
          /\ slots' = slots
      BY <2>9, FoundType DEF SwitchBegin
    <3>2. \/ routes' = [routes EXCEPT ![t] = r]
          \/ routes' = [routes EXCEPT ![t] = [r EXCEPT !.blocked = TRUE]]
      BY <2>9 DEF SwitchBegin
    <3> HIDE DEF r
    <3>3. \A u \in Topics : /\ routes'[u].cb = routes[u].cb
                            /\ routes'[u].bidx = routes[u].bidx
      BY <3>1, <3>2 DEF TypeOK, Route
    <3>4. QED
      BY <2>0, <3>1, <3>3
  <2>10. ASSUME SwitchRewire PROVE ListenerPlacement'
    <3> DEFINE t  == sw.topic
               r  == routes[t]
               to == sw.to
               r2 == [r EXCEPT !.bidx = to, !.blocked = FALSE]
    <3>1. t \in Topics /\ to \in Backends /\ r \in Route
      BY <2>10, InSwitch DEF SwitchRewire, SwitchCall, TypeOK
    <3>2. r2 \in Route /\ r2.cb = r.cb /\ r2.bidx = to
      BY <3>1 DEF Route
    <3>3. routes' = [routes EXCEPT ![t] = r2]
      BY <2>10, <3>1 DEF SwitchRewire, TypeOK
    <3>4. slots' = MoveListener(slots, r, t, to)
      BY <2>10 DEF SwitchRewire
    <3>5. \A u \in Topics : ListensAt(u)' =
            IF u = t THEN (IF r.cb THEN to ELSE NoBackend) ELSE at[u]
      BY <3>1, <3>2, <3>3 DEF ListensAt, TypeOK
    <3>6. CASE r.cb
      <4>1. /\ at[t] = r.bidx /\ at[t] \in Backends \cup {NoBackend}
            /\ slots' = Listen(Unlisten(slots, at[t], t), to, t)
        BY <3>1, <3>4, <3>6 DEF ListensAt, MoveListener, Route
      <4> HIDE DEF at, t, to
      <4>2. \A u \in Topics :
              HeardOnlyAt(Listen(Unlisten(slots, at[t], t), to, t), u,
                          IF u = t THEN to ELSE at[u])
        BY <2>a, <2>b, <3>1, <4>1, MovePlaces
      <4>3. \A u \in Topics : HeardOnlyAt(slots', u, ListensAt(u)')
        BY <3>5, <3>6, <4>1, <4>2
      <4>4. QED
        BY <4>3 DEF ListenerPlacement, HeardOnlyAt, Heard
    <3>7. CASE ~r.cb
      <4>1. at[t] = NoBackend /\ slots' = slots
        BY <3>1, <3>4, <3>7 DEF ListensAt, MoveListener
      <4>2. \A u \in Topics : HeardOnlyAt(slots', u, ListensAt(u)')
        BY <2>b, <3>5, <3>7, <4>1
      <4>3. QED
        BY <4>2 DEF ListenerPlacement, HeardOnlyAt, Heard
    <3>8. QED
      BY <3>6, <3>7
  <2>11. ASSUME SwitchFlush PROVE ListenerPlacement'
    BY <2>0, <2>11 DEF SwitchFlush
  <2>12. ASSUME SwitchEnd PROVE ListenerPlacement'
    <3>1. sw.topic \in Topics
      BY <2>12, InSwitch DEF SwitchEnd, SwitchCall
    <3>2. \A u \in Topics : /\ routes'[u].cb = routes[u].cb
                            /\ routes'[u].bidx = routes[u].bidx
      BY <2>12, <3>1 DEF SwitchEnd, TypeOK, Route
    <3>3. QED
      BY <2>0, <2>12, <3>2 DEF SwitchEnd
  <2>13. ASSUME NEW b \in Backends, Confirm(b) PROVE ListenerPlacement'
    BY <2>0, <2>13 DEF Confirm
  <2>14. ASSUME NEW b \in Backends, ChangeHealth(b) PROVE ListenerPlacement'
    BY <2>0, <2>14 DEF ChangeHealth
  <2>15. CASE UNCHANGED vars
    BY <2>0, <2>15 DEF vars
  <2>16. QED
    BY <2>1, <2>2, <2>3, <2>4, <2>5, <2>7, <2>8, <2>9, <2>10, <2>11, <2>12,
       <2>13, <2>14, <2>15 DEF Next
<1>3. QED
  BY <1>1, <1>2, TypeCorrect, PTL DEF Spec

-----------------------------------------------------------------------------
(***************************************************************************)
(* The operations that pass through the hub: each is handed to a backend   *)
(* once and confirmed to its consumer once, callbacks that publish during  *)
(* a soft switch included.                                                 *)
(***************************************************************************)

(* The buffer of a topic, and how many of its operations the switch in     *)
(* progress has handed over.                                               *)
Buffer == [t \in Topics |-> routes[t].q]
Sent == IF sw.phase = "flush" THEN sw.sent ELSE 0

Made == 1 .. Len(ops)
Logged == 1 .. Len(log)

(* What was handed over or is buffered was published, and what is buffered *)
(* is in the order of publication and in the buffer of its topic.          *)
Published ==
  /\ \A i \in Logged : log[i].id \in Made
  /\ \A t \in Topics : \A j \in 1 .. Len(Buffer[t]) :
       /\ Buffer[t][j] \in Made
       /\ ops[Buffer[t][j]] = t
       /\ \A k \in 1 .. Len(Buffer[t]) : j < k => Buffer[t][j] < Buffer[t][k]

(* Nothing was handed over twice, and of what is buffered only the         *)
(* beginning that the switch has sent.                                     *)
HandedOver ==
  /\ \A i, j \in Logged : log[i].id = log[j].id => i = j
  /\ \A t \in Topics : \A j \in 1 .. Len(Buffer[t]) : \A i \in Logged :
       log[i].id = Buffer[t][j] => j <= Sent

(* What comes out of a buffer comes in the order of publication, and what  *)
(* is still in it is later than what has come out of it.                   *)
InOrder ==
  /\ \A i, j \in Logged :
       /\ i < j
       /\ log[i].how = "buffer" /\ log[j].how = "buffer"
       /\ ops[log[i].id] = ops[log[j].id]
       => log[i].id < log[j].id
  /\ \A t \in Topics : \A j \in 1 .. Len(Buffer[t]) : \A i \in Logged :
       log[i].how = "buffer" /\ ops[log[i].id] = t /\ j > Sent
       => log[i].id < Buffer[t][j]

OnceInv == Published /\ HandedOver /\ InOrder

-----------------------------------------------------------------------------
(* The steps, by what they do to the operations *)

(* Nothing is published or handed over; buffers stay or are emptied. *)
Still ==
  /\ ops' = ops /\ log' = log
  /\ \A t \in Topics : \/ Buffer'[t] = Buffer[t] /\ Sent' >= Sent
                       \/ Buffer'[t] = <<>>

(* An operation is handed over, unless there is no backend. *)
Logs(id, how) ==
  \/ log' = log
  \/ \E e \in HandOvers : e.id = id /\ e.how = how /\ log' = Append(log, e)

(* An operation is published and buffered, *)
Buffers(t) ==
  /\ ops' = Append(ops, t) /\ log' = log
  /\ Buffer'[t] = Append(Buffer[t], Len(ops) + 1)
  /\ \A u \in Topics \ {t} : Buffer'[u] = Buffer[u]
  /\ Sent' = Sent

(* or handed over at once. *)
Passes(t) ==
  /\ ops' = Append(ops, t)
  /\ \A u \in Topics : Buffer'[u] = Buffer[u]
  /\ Sent' = Sent
  /\ Logs(Len(ops) + 1, "direct")

(* The next buffered operation is handed over. *)
Flushes(t) ==
  /\ ops' = ops
  /\ \A u \in Topics : Buffer'[u] = Buffer[u]
  /\ \A u \in Topics \ {t} : Buffer[u] = <<>>
  /\ Sent' = Sent + 1 /\ Sent + 1 \in 1 .. Len(Buffer[t])
  /\ Logs(Buffer[t][Sent + 1], "buffer")

(* What the type invariant says of these. *)
OnceType ==
  /\ ops \in Seq(Topics)
  /\ log \in Seq(HandOvers)
  /\ Buffer \in [Topics -> Seq(Ids)]
  /\ Sent \in Nat

(* The type invariant gives the types of the buffers and the log. *)
LEMMA OnceTyped == ASSUME TypeOK PROVE OnceType
<1>1. Sent \in Nat
  <2>1. CASE sw.phase = "flush"
    BY <2>1, InSwitch DEF Sent, SwitchCall
  <2>2. QED
    BY <2>1 DEF Sent
<1>2. QED
  BY <1>1 DEF TypeOK, OnceType, Route, Buffer

(* A step that neither publishes nor hands over cannot hand over twice. *)
LEMMA StillOnce ==
  ASSUME OnceType, OnceType', OnceInv, Still
  PROVE  OnceInv'
<1>1. Made' = Made /\ Logged' = Logged
  BY DEF Still, Made, Logged
<1>2. Published'
  BY <1>1 DEF Still, OnceInv, Published
<1>3. HandedOver'
  BY <1>1 DEF Still, OnceInv, HandedOver, OnceType
<1>4. InOrder'
  <2>1. ASSUME NEW t \in Topics, NEW j \in 1 .. Len(Buffer'[t]), NEW i \in Logged,
               log[i].how = "buffer", ops[log[i].id] = t, j > Sent'
        PROVE  log[i].id < Buffer'[t][j]
    <3>1. Buffer'[t] = Buffer[t] /\ Sent' >= Sent
      BY <2>1 DEF Still
    <3>2. j > Sent
      BY <2>1, <3>1 DEF OnceType
    <3>3. QED
      BY <2>1, <3>1, <3>2 DEF OnceInv, InOrder
  <2>2. QED
    BY <1>1, <2>1 DEF Still, OnceInv, InOrder
<1>5. QED
  BY <1>2, <1>3, <1>4 DEF OnceInv

(* An operation that is buffered is the newest and was not handed over. *)
LEMMA BuffersOnce ==
  ASSUME OnceType, OnceType', OnceInv, NEW t \in Topics, Buffers(t)
  PROVE  OnceInv'
<1>1. /\ Len(ops') = Len(ops) + 1
      /\ \A i \in Made : ops'[i] = ops[i]
      /\ ops'[Len(ops) + 1] = t
  BY DEF Buffers, OnceType, Made
<1>2. Logged' = Logged /\ Made' = Made \cup {Len(ops) + 1}
  BY <1>1 DEF Buffers, Made, Logged, OnceType
<1>3. /\ Len(Buffer[t]) \in Nat
      /\ Len(Buffer'[t]) = Len(Buffer[t]) + 1
      /\ \A i \in 1 .. Len(Buffer[t]) : Buffer'[t][i] = Buffer[t][i]
      /\ Buffer'[t][Len(Buffer[t]) + 1] = Len(ops) + 1
  BY DEF Buffers, OnceType
<1>4. Published'
  <2>1. \A i \in Logged' : log'[i].id \in Made'
    BY <1>2 DEF Buffers, OnceInv, Published
  <2>2. ASSUME NEW u \in Topics, NEW j \in 1 .. Len(Buffer'[u])
        PROVE  /\ Buffer'[u][j] \in Made'
               /\ ops'[Buffer'[u][j]] = u
               /\ \A k \in 1 .. Len(Buffer'[u]) : j < k => Buffer'[u][j] < Buffer'[u][k]
    <3>1. CASE u # t
      BY <1>1, <1>2, <2>2, <3>1 DEF Buffers, OnceInv, Published
    <3>2. CASE u = t
      <4>1. \A k \in 1 .. Len(Buffer[t]) : Buffer[t][k] \in 1 .. Len(ops)
        BY DEF OnceInv, Published, Made
      <4>2. CASE j \in 1 .. Len(Buffer[t])
        <5>1. /\ Buffer[t][j] \in Made
              /\ ops[Buffer[t][j]] = t
              /\ \A k \in 1 .. Len(Buffer[t]) : j < k => Buffer[t][j] < Buffer[t][k]
          BY <4>2 DEF OnceInv, Published
        <5>2. Buffer'[t][j] = Buffer[t][j] /\ ops'[Buffer[t][j]] = t
          BY <1>1, <1>3, <4>2, <5>1
        <5>3. ASSUME NEW k \in 1 .. Len(Buffer'[t]), j < k
              PROVE  Buffer'[t][j] < Buffer'[t][k]
          <6>1. CASE k \in 1 .. Len(Buffer[t])
            BY <1>3, <5>1, <5>2, <5>3, <6>1
          <6>2. CASE k = Len(Buffer[t]) + 1
            <7>1. Buffer[t][j] \in 1 .. Len(ops) /\ Len(ops) \in Nat
              BY <4>1, <4>2 DEF OnceType
            <7>2. QED
              BY <1>3, <5>2, <6>2, <7>1
          <6>3. QED
            BY <1>3, <5>3, <6>1, <6>2
        <5>4. QED
          BY <1>2, <3>2, <5>1, <5>2, <5>3
      <4>3. CASE j = Len(Buffer[t]) + 1
        BY <1>1, <1>2, <1>3, <3>2, <4>3 DEF OnceType
      <4>4. QED
        BY <1>3, <2>2, <3>2, <4>2, <4>3 DEF OnceType
    <3>3. QED
      BY <3>1, <3>2
  <2>3. QED
    BY <2>1, <2>2 DEF Published
<1>5. \A i \in Logged : log[i].id < Len(ops) + 1
  BY DEF OnceInv, Published, Made, OnceType
<1>6. HandedOver'
  <2>1. ASSUME NEW u \in Topics, NEW j \in 1 .. Len(Buffer'[u]), NEW i \in Logged',
               log'[i].id = Buffer'[u][j]
        PROVE  j <= Sent'
    <3>1. CASE u = t /\ j = Len(Buffer[t]) + 1
      <4>1. log[i].id = Len(ops) + 1
        BY <1>3, <2>1, <3>1 DEF Buffers
      <4>2. QED
        BY <1>2, <1>5, <4>1 DEF OnceType
    <3>2. CASE ~(u = t /\ j = Len(Buffer[t]) + 1)
      <4>1. j \in 1 .. Len(Buffer[u]) /\ Buffer'[u][j] = Buffer[u][j]
        <5>1. CASE u = t
          BY <1>3, <2>1, <3>2, <5>1
        <5>2. CASE u # t
          BY <2>1, <5>2 DEF Buffers
        <5>3. QED
          BY <5>1, <5>2
      <4>2. QED
        BY <1>2, <2>1, <4>1 DEF Buffers, OnceInv, HandedOver
    <3>3. QED
      BY <3>1, <3>2
  <2>2. QED
    BY <1>2, <2>1 DEF Buffers, OnceInv, HandedOver
<1>7. InOrder'
  <2>1. \A i \in Logged : ops'[log'[i].id] = ops[log[i].id]
    BY <1>1 DEF Buffers, OnceInv, Published
  <2>2. ASSUME NEW u \in Topics, NEW j \in 1 .. Len(Buffer'[u]), NEW i \in Logged',
               log'[i].how = "buffer", ops'[log'[i].id] = u, j > Sent'
        PROVE  log'[i].id < Buffer'[u][j]
    <3>1. CASE u = t /\ j = Len(Buffer[t]) + 1
      BY <1>2, <1>3, <1>5, <3>1 DEF Buffers
    <3>2. CASE ~(u = t /\ j = Len(Buffer[t]) + 1)
      <4>1. j \in 1 .. Len(Buffer[u]) /\ Buffer'[u][j] = Buffer[u][j]
        <5>1. CASE u = t
          BY <1>3, <2>2, <3>2, <5>1
        <5>2. CASE u # t
          BY <2>2, <5>2 DEF Buffers
        <5>3. QED
          BY <5>1, <5>2
      <4>2. QED
        BY <1>2, <2>1, <2>2, <4>1 DEF Buffers, OnceInv, InOrder
    <3>3. QED
      BY <3>1, <3>2
  <2>3. ASSUME NEW i \in Logged', NEW j \in Logged', i < j,
               log'[i].how = "buffer", log'[j].how = "buffer",
               ops'[log'[i].id] = ops'[log'[j].id]
        PROVE  log'[i].id < log'[j].id
    BY <1>2, <2>1, <2>3 DEF Buffers, OnceInv, InOrder
  <2>4. QED
    BY <2>2, <2>3 DEF InOrder
<1>8. QED
  BY <1>4, <1>6, <1>7 DEF OnceInv

(* The log with an entry behind it. *)
LEMMA LogGrows ==
  ASSUME log \in Seq(HandOvers), NEW e \in HandOvers, log' = Append(log, e)
  PROVE  /\ \A i \in Logged' : log'[i] = e \/ (i \in Logged /\ log'[i] = log[i])
         /\ \A i \in Logged : i \in Logged' /\ log'[i] = log[i]
         /\ Len(log) + 1 \in Logged' /\ log'[Len(log) + 1] = e
<1>1. /\ Len(log') = Len(log) + 1 /\ Len(log) \in Nat
      /\ \A i \in 1 .. Len(log) : log'[i] = log[i]
      /\ log'[Len(log) + 1] = e
  OBVIOUS
<1>2. Logged' = Logged \cup {Len(log) + 1}
  BY <1>1 DEF Logged
<1>3. \A i \in Logged : log'[i] = log[i]
  BY <1>1 DEF Logged
<1>4. QED
  BY <1>1, <1>2, <1>3

(* What an entry at the end of the log needs to keep the invariant. *)
LEMMA LogsOnce ==
  ASSUME OnceType, OnceType', Published, HandedOver, InOrder, Published',
         \A i \in Made : ops'[i] = ops[i],
         \A u \in Topics : Buffer'[u] = Buffer[u],
         Sent' >= Sent,
         NEW e \in HandOvers, log' = Append(log, e),
         \A i \in Logged : log[i].id # e.id,
         \A u \in Topics : \A j \in 1 .. Len(Buffer[u]) :
           e.id = Buffer[u][j] => j <= Sent',
         e.how = "buffer" =>
           /\ \A i \in Logged :
                log[i].how = "buffer" /\ ops[log[i].id] = ops'[e.id] => log[i].id < e.id
           /\ \A u \in Topics : \A j \in 1 .. Len(Buffer[u]) :
                ops'[e.id] = u /\ j > Sent' => e.id < Buffer[u][j]
  PROVE  OnceInv'
<1> DEFINE n == Len(log) + 1
<1>1. /\ Len(log') = n /\ log'[n] = e
      /\ \A i \in Logged : log'[i] = log[i]
      /\ Logged' = Logged \cup {n} /\ n \notin Logged
      /\ \A i \in Logged : i < n /\ ~(n < i)
      /\ ~(n < n)
  BY DEF OnceType, Logged
<1>2. \A i \in Logged : log[i].id \in Made /\ ops'[log'[i].id] = ops[log[i].id]
  BY <1>1 DEF Published
<1>3. Sent \in Nat /\ Sent' \in Nat /\ \A u \in Topics : Len(Buffer[u]) \in Nat
  BY DEF OnceType
<1> HIDE DEF n
<1>4. HandedOver'
  <2>1. ASSUME NEW i \in Logged', NEW j \in Logged', log'[i].id = log'[j].id
        PROVE  i = j
    BY <1>1, <2>1 DEF HandedOver
  <2>2. ASSUME NEW u \in Topics, NEW j \in 1 .. Len(Buffer[u]), NEW i \in Logged',
               log'[i].id = Buffer[u][j]
        PROVE  j <= Sent'
    <3>1. CASE i = n
      BY <1>1, <2>2, <3>1
    <3>2. CASE i \in Logged
      <4>1. j <= Sent
        BY <1>1, <2>2, <3>2 DEF HandedOver
      <4>2. QED
        BY <1>3, <4>1
    <3>3. QED
      BY <1>1, <3>1, <3>2
  <2>3. QED
    BY <2>1, <2>2 DEF HandedOver
<1>5. InOrder'
  <2>1. ASSUME NEW i \in Logged', NEW j \in Logged', i < j,
               log'[i].how = "buffer", log'[j].how = "buffer",
               ops'[log'[i].id] = ops'[log'[j].id]
        PROVE  log'[i].id < log'[j].id
    <3>1. i \in Logged
      BY <1>1, <2>1
    <3>2. CASE j \in Logged
      BY <1>1, <1>2, <2>1, <3>1, <3>2 DEF InOrder
    <3>3. CASE j = n
      BY <1>1, <1>2, <2>1, <3>1, <3>3
    <3>4. QED
      BY <1>1, <3>2, <3>3
  <2>2. ASSUME NEW u \in Topics, NEW j \in 1 .. Len(Buffer[u]), NEW i \in Logged',
               log'[i].how = "buffer", ops'[log'[i].id] = u, j > Sent'
        PROVE  log'[i].id < Buffer[u][j]
    <3>1. CASE i = n
      BY <1>1, <2>2, <3>1
    <3>2. CASE i \in Logged
      <4>1. j > Sent
        BY <1>3, <2>2
      <4>2. QED
        BY <1>1, <1>2, <2>2, <3>2, <4>1 DEF InOrder
    <3>3. QED
      BY <1>1, <3>1, <3>2
  <2>3. QED
    BY <2>1, <2>2 DEF InOrder
<1>6. QED
  BY <1>4, <1>5 DEF OnceInv

(* An operation that is handed over when it is published is new. *)
LEMMA PassesOnce ==
  ASSUME OnceType, OnceType', OnceInv, NEW t \in Topics, Passes(t)
  PROVE  OnceInv'
<1>1. /\ \A i \in Made : ops'[i] = ops[i]
      /\ Made' = Made \cup {Len(ops) + 1}
      /\ \A i \in Made : i < Len(ops) + 1
  BY DEF Passes, OnceType, Made
<1>2. /\ \A u \in Topics : Buffer'[u] = Buffer[u]
      /\ Sent' = Sent
  BY DEF Passes
<1>3. \A i \in Logged : log[i].id \in Made /\ ops'[log[i].id] = ops[log[i].id]
  BY <1>1 DEF OnceInv, Published
<1>4. \A u \in Topics : \A j \in 1 .. Len(Buffer[u]) :
        /\ Buffer[u][j] \in Made'
        /\ ops'[Buffer[u][j]] = u
        /\ \A k \in 1 .. Len(Buffer[u]) : j < k => Buffer[u][j] < Buffer[u][k]
        /\ Buffer[u][j] < Len(ops) + 1
  BY <1>1 DEF OnceInv, Published
<1>5. CASE log' = log
  <2>1. Logged' = Logged
    BY <1>5 DEF Logged
  <2>2. Published'
    BY <1>1, <1>2, <1>3, <1>4, <1>5, <2>1 DEF Published
  <2>3. HandedOver'
    BY <1>2, <1>5, <2>1 DEF OnceInv, HandedOver
  <2>4. InOrder'
    BY <1>2, <1>3, <1>5, <2>1 DEF OnceInv, InOrder
  <2>5. QED
    BY <2>2, <2>3, <2>4 DEF OnceInv
<1>6. ASSUME NEW e \in HandOvers, e.id = Len(ops) + 1, e.how = "direct",
             log' = Append(log, e)
      PROVE  OnceInv'
  <2>1. \A i \in Logged' : log'[i] = e \/ (i \in Logged /\ log'[i] = log[i])
    BY <1>6, LogGrows DEF OnceType
  <2>2. Published'
    <3>1. \A i \in Logged' : log'[i].id \in Made'
      BY <1>1, <1>3, <1>6, <2>1
    <3>2. QED
      BY <1>2, <1>4, <3>1 DEF Published
  <2>3. \A i \in Logged : log[i].id # e.id
    BY <1>1, <1>3, <1>6 DEF Made, OnceType
  <2>4. \A u \in Topics : \A j \in 1 .. Len(Buffer[u]) : e.id # Buffer[u][j]
    BY <1>4, <1>6 DEF OnceType, Made
  <2>5. Sent' >= Sent /\ e.how # "buffer"
    BY <1>2, <1>6 DEF OnceType
  <2>6. QED
    BY <1>1, <1>2, <1>6, <2>2, <2>3, <2>4, <2>5, LogsOnce DEF OnceInv
<1>7. QED
  BY <1>5, <1>6 DEF Passes, Logs

(* The next operation of a buffer is in the log only from this step on. *)
LEMMA FlushesOnce ==
  ASSUME OnceType, OnceType', OnceInv, NEW t \in Topics, Flushes(t)
  PROVE  OnceInv'
<1> DEFINE n == Sent + 1
<1>1. /\ ops' = ops /\ Made' = Made
      /\ \A u \in Topics : Buffer'[u] = Buffer[u]
      /\ Sent' = n /\ n \in 1 .. Len(Buffer[t])
      /\ Sent' >= Sent /\ Sent' > Sent
  BY DEF Flushes, Made, OnceType
<1>2. /\ Buffer[t][n] \in Made /\ ops[Buffer[t][n]] = t
      /\ \A k \in 1 .. Len(Buffer[t]) : n < k => Buffer[t][n] < Buffer[t][k]
      /\ \A k \in 1 .. Len(Buffer[t]) : k < n => Buffer[t][k] < Buffer[t][n]
  BY <1>1 DEF OnceInv, Published
<1>3. \A i \in Logged : log[i].id # Buffer[t][n]
  <2>1. \A i \in Logged : log[i].id = Buffer[t][n] => n <= Sent
    BY <1>1 DEF OnceInv, HandedOver
  <2>2. QED
    BY <2>1 DEF OnceType
<1>4. \A i \in Logged : log[i].how = "buffer" /\ ops[log[i].id] = t =>
        log[i].id < Buffer[t][n]
  <2>1. n > Sent
    BY DEF OnceType
  <2>2. QED
    BY <1>1, <2>1 DEF OnceInv, InOrder
<1>5. \A u \in Topics \ {t} : Len(Buffer[u]) = 0
  BY DEF Flushes
<1> HIDE DEF n
<1>6. CASE log' = log
  BY <1>1, <1>6, StillOnce DEF Still
<1>7. ASSUME NEW e \in HandOvers, e.id = Buffer[t][n], log' = Append(log, e)
      PROVE  OnceInv'
  <2>1. \A i \in Logged' : log'[i] = e \/ (i \in Logged /\ log'[i] = log[i])
    BY <1>7, LogGrows DEF OnceType
  <2>2. Published'
    <3>1. \A i \in Logged' : log'[i].id \in Made'
      BY <1>1, <1>2, <1>7, <2>1 DEF OnceInv, Published
    <3>2. QED
      BY <1>1, <3>1 DEF OnceInv, Published
  <2>3. \A i \in Logged : log[i].id # e.id
    BY <1>3, <1>7
  <2>4. ASSUME NEW u \in Topics, NEW j \in 1 .. Len(Buffer[u]), e.id = Buffer[u][j]
        PROVE  j <= Sent'
    <3>1. u = t
      BY <1>5, <2>4
    <3>2. CASE n < j
      <4>1. Buffer[t][n] < Buffer[t][j]
        BY <1>2, <2>4, <3>1, <3>2
      <4>2. QED
        BY <1>2, <1>7, <2>4, <3>1, <4>1 DEF Made
    <3>3. QED
      BY <1>1, <2>4, <3>1, <3>2 DEF OnceType
  <2>5. \A i \in Logged :
          log[i].how = "buffer" /\ ops[log[i].id] = ops'[e.id] => log[i].id < e.id
    BY <1>1, <1>2, <1>4, <1>7
  <2>6. \A u \in Topics : \A j \in 1 .. Len(Buffer[u]) :
          ops'[e.id] = u /\ j > Sent' => e.id < Buffer[u][j]
    BY <1>1, <1>2, <1>7 DEF OnceType
  <2>7. QED
    BY <1>1, <1>7, <2>2, <2>3, <2>4, <2>5, <2>6, LogsOnce DEF OnceInv
<1>8. QED
  BY <1>6, <1>7 DEF Flushes, Logs, n

-----------------------------------------------------------------------------
(* Every step is of one of these kinds *)

(* Handing an operation over logs it, unless there is no backend. *)
LEMMA HandOverLogs ==
  ASSUME TypeOK, NEW sl, NEW b \in Backends \cup {NoBackend}, NEW t,
         NEW cb \in BOOLEAN, NEW id \in Ids, NEW how \in {"direct", "buffer"},
         HandOver(sl, b, t, cb, id, how)
  PROVE  Logs(id, how)
<1> DEFINE e == [id |-> id, to |-> b, cb |-> cb, how |-> how]
<1>1. CASE b = NoBackend
  BY <1>1 DEF HandOver, Logs
<1>2. CASE b # NoBackend
  <2>1. e \in HandOvers /\ e.id = id /\ e.how = how
    BY <1>2 DEF HandOvers
  <2>2. log' = Append(log, e)
    BY <1>2 DEF HandOver
  <2>3. QED
    BY <2>1, <2>2 DEF Logs
<1>3. QED
  BY <1>1, <1>2

(* A step that changes a route and keeps its buffer keeps all buffers. *)
LEMMA KeepsBuffers ==
  ASSUME routes \in [Topics -> Route], NEW t \in Topics, NEW r, r.q = routes[t].q,
         routes' = [routes EXCEPT ![t] = r]
  PROVE  \A u \in Topics : routes'[u].q = routes[u].q
  OBVIOUS

(* Publishing is passing an operation on, or buffering it; a step of a     *)
(* switch sends an operation of its buffer; all others are still.          *)
LEMMA StepKinds ==
  ASSUME TypeOK, BufferDrained, [Next]_vars
  PROVE  \/ Still
         \/ \E t \in Topics : Buffers(t) \/ Passes(t) \/ Flushes(t)
<1> USE DEF Buffer
<1>0. OnceType /\ routes \in [Topics -> Route]
  BY OnceTyped DEF TypeOK
<1>1. ASSUME ops' = ops, log' = log, Sent' >= Sent,
             \A t \in Topics : routes'[t].q = routes[t].q
      PROVE  Still
  BY <1>1 DEF Still
<1>2. ASSUME sw' = sw PROVE Sent' = Sent /\ Sent' >= Sent
  BY <1>0, <1>2 DEF Sent, OnceType
<1>3. ASSUME NEW t \in Topics, PublishBuffered(t) PROVE Buffers(t)
  <2>1. routes' = [routes EXCEPT ![t].q = Append(@, Len(ops) + 1)]
    BY <1>3 DEF PublishBuffered
  <2>2. /\ routes'[t].q = Append(routes[t].q, Len(ops) + 1)
        /\ \A u \in Topics \ {t} : routes'[u] = routes[u]
    BY <1>0, <2>1 DEF Route
  <2>3. QED
    BY <1>2, <1>3, <2>2 DEF Buffers, PublishBuffered
<1>4. ASSUME NEW t \in Topics, PublishRouted(t) PROVE Passes(t)
  <2> DEFINE r  == Found(t)
             to == RouteFor(r)
             sl == IF to = r.bidx THEN slots ELSE MoveListener(slots, r, t, to)
  <2>1. /\ r \in Route /\ r.q = routes[t].q
        /\ r.bidx \in Backends \cup {NoBackend} /\ r.cb \in BOOLEAN
    BY FoundType DEF Route, Found
  <2>2. to \in Backends \cup {NoBackend} /\ Len(ops) + 1 \in Ids
    BY <1>4, <2>1, RouteForType, NewOp DEF PublishRouted
  <2>3. /\ HandOver(sl, to, t, r.cb, Len(ops) + 1, "direct")
        /\ routes' = [routes EXCEPT ![t] = [r EXCEPT !.bidx = to]]
        /\ ops' = Append(ops, t) /\ sw' = sw
    BY <1>4 DEF PublishRouted
  <2> HIDE DEF r, to, sl
  <2>4. Logs(Len(ops) + 1, "direct")
    BY <2>1, <2>2, <2>3, HandOverLogs
  <2>5. \A u \in Topics : routes'[u].q = routes[u].q
    BY <1>0, <2>1, <2>3 DEF Route
  <2>6. QED
    BY <1>2, <2>3, <2>4, <2>5 DEF Passes
<1>5. ASSUME NEW t \in Topics, PublishUnrouted(t) PROVE Passes(t)
  <2>1. Len(ops) + 1 \in Ids
    BY <1>5, NewOp DEF PublishUnrouted
  <2>2. /\ HandOver(slots, HubChoose(DefaultRoute), t, FALSE, Len(ops) + 1, "direct")
        /\ routes' = routes /\ ops' = Append(ops, t) /\ sw' = sw
    BY <1>5 DEF PublishUnrouted
  <2>3. Logs(Len(ops) + 1, "direct")
    BY <2>1, <2>2, HubChooseType, HandOverLogs
  <2>4. QED
    BY <1>2, <2>2, <2>3 DEF Passes
<1>6. ASSUME NEW t \in Topics, SetListener(t) \/ UnsetListener(t) PROVE Still
  <2>1. \E r : r.q = routes[t].q /\ routes' = [routes EXCEPT ![t] = r]
    <3>1. routes[t] \in Route /\ Found(t) \in Route /\ Found(t).q = routes[t].q
      BY FoundType DEF Found, Route
    <3>2. CASE SetListener(t)
      <4> DEFINE r == [Found(t) EXCEPT !.cb = TRUE, !.bidx = HubChoose(Found(t))]
      <4>1. r.q = routes[t].q
        BY <3>1 DEF Route
      <4>2. QED
        BY <3>2, <4>1 DEF SetListener
    <3>3. CASE UnsetListener(t)
      <4> DEFINE r == [routes[t] EXCEPT !.cb = FALSE]
      <4>1. r.q = routes[t].q
        BY <3>1 DEF Route
      <4>2. routes' = [routes EXCEPT ![t] = r]
        BY <3>3 DEF UnsetListener
      <4>3. QED
        BY <4>1, <4>2
    <3>4. QED
      BY <1>6, <3>2, <3>3
  <2>2. \A u \in Topics : routes'[u].q = routes[u].q
    BY <1>0, <2>1, KeepsBuffers
  <2>3. ops' = ops /\ log' = log /\ sw' = sw
    BY <1>6 DEF SetListener, UnsetListener
  <2>4. QED
    BY <1>1, <1>2, <2>2, <2>3
<1>7. ASSUME NEW t \in Topics, NEW x, SetTopicCaps(t, x) \/ ForceBackend(t, x)
      PROVE  Still
  <2>1. \A u \in Topics : routes'[u].q = routes[u].q
    <3>1. ASSUME NEW r, Reselect(t, r), r.q = routes[t].q, DOMAIN r = DOMAIN routes[t]
          PROVE  \A u \in Topics : routes'[u].q = routes[u].q
      <4>1. routes' = [routes EXCEPT ![t] = [r EXCEPT !.bidx = HubChoose(r)]]
        BY <3>1 DEF Reselect
      <4>2. [r EXCEPT !.bidx = HubChoose(r)].q = routes[t].q
        BY <1>0, <3>1 DEF Route
      <4>3. QED
        BY <1>0, <4>1, <4>2, KeepsBuffers
    <3>2. routes[t] \in Route /\ Found(t) \in Route /\ Found(t).q = routes[t].q
      BY FoundType DEF Found, Route
    <3>3. /\ [Found(t) EXCEPT !.caps = x].q = routes[t].q
          /\ [Found(t) EXCEPT !.pin = x].q = routes[t].q
          /\ DOMAIN [Found(t) EXCEPT !.caps = x] = DOMAIN routes[t]
          /\ DOMAIN [Found(t) EXCEPT !.pin = x] = DOMAIN routes[t]
      BY <3>2 DEF Route
    <3>4. QED
      BY <1>7, <3>1, <3>3 DEF SetTopicCaps, ForceBackend
  <2>2. ops' = ops /\ log' = log /\ sw' = sw
    BY <1>7 DEF SetTopicCaps, ForceBackend, Reselect
  <2>3. QED
    BY <1>1, <1>2, <2>1, <2>2
<1>8. ASSUME NEW t \in Topics, NEW arg, SwitchBegin(t, arg) PROVE Still
  <2>1. \A u \in Topics : routes'[u].q = routes[u].q
    <3>1. routes[t] \in Route /\ Found(t) \in Route /\ Found(t).q = routes[t].q
      BY FoundType DEF Found, Route
    <3>2. [Found(t) EXCEPT !.blocked = TRUE].q = routes[t].q
      BY <3>1 DEF Route
    <3>3. \/ routes' = [routes EXCEPT ![t] = Found(t)]
          \/ routes' = [routes EXCEPT ![t] = [Found(t) EXCEPT !.blocked = TRUE]]
      BY <1>8 DEF SwitchBegin
    <3>4. QED
      BY <1>0, <3>1, <3>2, <3>3, KeepsBuffers
  <2>2. ops' = ops /\ log' = log
    BY <1>8 DEF SwitchBegin
  <2>3. Sent = 0 /\ Sent' = 0
    BY <1>8 DEF SwitchBegin, EventLoop, NoSwitch, Sent
  <2>4. QED
    BY <1>1, <2>1, <2>2, <2>3
<1>9. ASSUME SwitchRewire PROVE Still
  <2>1. sw \in SwitchCall /\ sw.phase = "snapshot"
    BY <1>9, InSwitch DEF SwitchRewire
  <2>2. \A u \in Topics : routes'[u].q = routes[u].q
    BY <1>0, <1>9 DEF SwitchRewire, Route
  <2>3. Sent = 0 /\ Sent' = sw.sent /\ sw.sent \in Nat
    BY <1>9, <2>1 DEF SwitchRewire, SwitchCall, Sent
  <2>4. QED
    <3>1. ops' = ops /\ log' = log /\ Sent' >= Sent
      BY <1>9, <2>3 DEF SwitchRewire
    <3>2. QED
      BY <1>1, <2>2, <3>1
<1>10. ASSUME SwitchFlush PROVE Flushes(sw.topic) /\ sw.topic \in Topics
  <2> DEFINE t == sw.topic
             r == routes[t]
  <2>1. sw \in SwitchCall /\ t \in Topics /\ sw.phase = "flush"
    BY <1>10, InSwitch DEF SwitchFlush, SwitchCall
  <2>2. Sent = sw.sent /\ Sent' = Sent + 1 /\ sw.sent \in Nat
    BY <1>10, <2>1 DEF SwitchFlush, SwitchCall, Sent
  <2>3. /\ r.bidx \in Backends \cup {NoBackend} /\ r.cb \in BOOLEAN
        /\ r.q \in Seq(Ids)
    BY <1>0, <2>1 DEF Route
  <2>4. Sent + 1 \in 1 .. Len(r.q)
    BY <1>10, <2>2, <2>3 DEF SwitchFlush
  <2>5. r.q[Sent + 1] \in Ids
    BY <2>3, <2>4
  <2>6. HandOver(slots, r.bidx, t, r.cb, r.q[Sent + 1], "buffer")
    BY <1>10, <2>2 DEF SwitchFlush
  <2>7. Logs(r.q[Sent + 1], "buffer")
    BY <2>3, <2>5, <2>6, HandOverLogs
  <2>8. \A u \in Topics \ {t} : routes[u].q = <<>>
    BY <2>1 DEF BufferDrained
  <2>9. ops' = ops /\ routes' = routes
    BY <1>10 DEF SwitchFlush
  <2>10. QED
    BY <2>1, <2>2, <2>4, <2>7, <2>8, <2>9 DEF Flushes
<1>11. ASSUME SwitchEnd PROVE Still
  <2>1. sw \in SwitchCall /\ sw.topic \in Topics
    BY <1>11, InSwitch DEF SwitchEnd, SwitchCall
  <2>2. \A u \in Topics : routes'[u].q = <<>>
    BY <1>0, <1>11, <2>1 DEF SwitchEnd, BufferDrained, Route
  <2>3. QED
    BY <1>11, <2>2 DEF SwitchEnd, Still
<1>12. ASSUME NEW b \in Backends, Confirm(b) \/ ChangeHealth(b) PROVE Still
  BY <1>1, <1>2, <1>12 DEF Confirm, ChangeHealth
<1>13. CASE UNCHANGED vars
  BY <1>1, <1>2, <1>13 DEF vars
<1>14. ASSUME NEW t \in Topics,
              \/ PublishBuffered(t) \/ PublishRouted(t) \/ PublishUnrouted(t)
              \/ SetListener(t) \/ UnsetListener(t)
              \/ \E required \in ReqCaps[t] : SetTopicCaps(t, required)
              \/ \E pin \in Pins[t] : ForceBackend(t, pin)
              \/ \E arg \in Targets[t] : SwitchBegin(t, arg)
       PROVE  Still \/ Buffers(t) \/ Passes(t)
  BY <1>3, <1>4, <1>5, <1>6, <1>7, <1>8, <1>14
<1> HIDE DEF Buffer
<1>15. CASE Next
  <2>1. CASE SwitchRewire \/ SwitchFlush \/ SwitchEnd
    BY <1>9, <1>10, <1>11, <2>1
  <2>2. CASE \E b \in Backends : Confirm(b) \/ ChangeHealth(b)
    BY <1>12, <2>2
  <2>3. CASE ~(SwitchRewire \/ SwitchFlush \/ SwitchEnd)
             /\ ~\E b \in Backends : Confirm(b) \/ ChangeHealth(b)
    <3>1. PICK t \in Topics :
            \/ PublishBuffered(t) \/ PublishRouted(t) \/ PublishUnrouted(t)
            \/ SetListener(t) \/ UnsetListener(t)
            \/ \E required \in ReqCaps[t] : SetTopicCaps(t, required)
            \/ \E pin \in Pins[t] : ForceBackend(t, pin)
            \/ \E arg \in Targets[t] : SwitchBegin(t, arg)
      BY <1>15, <2>3 DEF Next
    <3>2. QED
      BY <1>14, <3>1
  <2>4. QED
    BY <2>1, <2>2, <2>3
<1>16. QED
  BY <1>13, <1>15

(* In every run of the hub nothing is handed over twice or out of order. *)
THEOREM SpecOnceInv == Spec => []OnceInv
<1>1. Init => OnceInv
  <2> SUFFICES ASSUME Init PROVE OnceInv
    OBVIOUS
  <2>1. Logged = {} /\ \A t \in Topics : Buffer[t] = <<>>
    BY DEF Init, Logged, Buffer, DefaultRoute
  <2>2. QED
    BY <2>1 DEF OnceInv, Published, HandedOver, InOrder
<1>2. TypeOK /\ TypeOK' /\ BufferDrained /\ OnceInv /\ [Next]_vars => OnceInv'
  <2> SUFFICES ASSUME TypeOK, TypeOK', BufferDrained, OnceInv, [Next]_vars
               PROVE  OnceInv'
    OBVIOUS
  <2>1. OnceType /\ OnceType'
    <3>1. TypeOK => OnceType
      BY OnceTyped
    <3>2. TypeOK' => OnceType'
      BY OnceTyped, PTL
    <3>3. QED
      BY <3>1, <3>2
  <2>2. QED
    BY <2>1, StepKinds, StillOnce, BuffersOnce, PassesOnce, FlushesOnce
<1>3. QED
  BY <1>1, <1>2, TypeCorrect, BufferIsDrained, PTL DEF Spec

(* No operation is handed to a backend twice or both handed over and kept  *)
(* in the buffer, and buffered operations are handed over in order,        *)
(* through soft switches, failovers and callbacks that publish             *)
(* (hub.c:379-404, hub.h:24-31).                                           *)
THEOREM EachHandedOverOnce == Spec => []HandedOverOnce
<1>1. TypeOK /\ OnceInv => HandedOverOnce
  <2> SUFFICES ASSUME TypeOK, OnceInv PROVE HandedOverOnce
    OBVIOUS
  <2>1. OnceType
    BY OnceTyped
  <2>2. ASSUME NEW id \in DOMAIN ops
        PROVE  Cardinality(Positions(id)) + Cardinality(Waiting(id)) <= 1
    <3> DEFINE t == ops[id]
    <3>1. t \in Topics /\ DOMAIN log = Logged
          /\ Buffer[t] = routes[t].q /\ DOMAIN Buffer[t] = 1 .. Len(Buffer[t])
      BY <2>1, <2>2 DEF OnceType, Logged, Buffer
    <3>2. /\ \A i, j \in Positions(id) : i = j
          /\ Positions(id) \subseteq Logged
      BY <3>1 DEF Positions, OnceInv, HandedOver
    <3>3. \A j \in Waiting(id) :
            j \in 1 .. Len(Buffer[t]) /\ j > Sent /\ Buffer[t][j] = id
      BY <3>1 DEF Waiting, Sent
    <3> HIDE DEF t
    <3>4. \A j, k \in Waiting(id) : j = k
      <4> SUFFICES ASSUME NEW j \in Waiting(id), NEW k \in Waiting(id), j < k
                   PROVE  FALSE
        BY <3>3
      <4>1. Buffer[t][j] < Buffer[t][k]
        BY <3>1, <3>3 DEF OnceInv, Published
      <4>2. QED
        BY <2>1, <2>2, <3>3, <4>1 DEF OnceType
    <3>5. Positions(id) = {} \/ Waiting(id) = {}
      <4> SUFFICES ASSUME NEW i \in Positions(id), NEW j \in Waiting(id) PROVE FALSE
        OBVIOUS
      <4>1. i \in Logged /\ log[i].id = Buffer[t][j]
        BY <3>2, <3>3 DEF Positions
      <4>2. j <= Sent
        BY <3>1, <3>3, <4>1 DEF OnceInv, HandedOver
      <4>3. QED
        BY <2>1, <3>3, <4>2 DEF OnceType
    <3>6. \A S : (\A x, y \in S : x = y) => S = {} \/ \E x : S = {x}
      OBVIOUS
    <3>7. /\ Cardinality(Positions(id)) \in {0, 1}
          /\ Positions(id) = {} => Cardinality(Positions(id)) = 0
      BY <3>2, <3>6, FS_EmptySet, FS_Singleton
    <3>8. /\ Cardinality(Waiting(id)) \in {0, 1}
          /\ Waiting(id) = {} => Cardinality(Waiting(id)) = 0
      BY <3>4, <3>6, FS_EmptySet, FS_Singleton
    <3>9. QED
      BY <3>5, <3>7, <3>8
  <2>3. DOMAIN log = Logged
    BY <2>1 DEF OnceType, Logged
  <2>4. QED
    BY <2>2, <2>3 DEF HandedOverOnce, OnceInv, InOrder
<1>2. QED
  BY <1>1, SpecOnceInv, TypeCorrect, PTL

-----------------------------------------------------------------------------
(* Confirmations *)

Handed == {log[i].id : i \in Logged}

(* The consumer got an operation at most once, only after it was handed    *)
(* over, and at once from a synchronous backend it listened to.            *)
Confirms ==
  /\ \A id \in Ids : confirms[id] = 0 \/ (confirms[id] = 1 /\ id \in Handed)
  /\ \A i \in Logged :
       log[i].cb /\ log[i].to \in SyncBackends => confirms[log[i].id] = 1

(* What a backend has not confirmed was handed over, reached nobody yet,   *)
(* and waits at one place.                                                 *)
WaitsOnce ==
  /\ \A b \in Backends : \A i \in 1 .. Len(inflight[b]) :
       confirms[inflight[b][i]] = 0 /\ inflight[b][i] \in Handed
  /\ \A b, c \in Backends :
       \A i \in 1 .. Len(inflight[b]), j \in 1 .. Len(inflight[c]) :
         inflight[b][i] = inflight[c][j] => b = c /\ i = j

ConfirmInv == Confirms /\ WaitsOnce

ConfirmType ==
  /\ log \in Seq(HandOvers)
  /\ inflight \in [Backends -> Seq(Ids)]
  /\ confirms \in [Ids -> Nat]

(* What is logged is a hand-over of an operation. *)
LEMMA LogIds ==
  ASSUME log \in Seq(HandOvers)
  PROVE  \A i \in Logged : log[i].id \in Ids /\ log[i].cb \in BOOLEAN
<1>1. \A i \in Logged : log[i] \in HandOvers
  BY DEF Logged
<1>2. QED
  BY <1>1 DEF HandOvers

Single(S) == \E s : S = {s}

(* A consumer is called once, or not at all. *)
LEMMA OneCall ==
  ASSUME ConfirmType, NEW sl, NEW b, NEW t, NEW cb \in BOOLEAN, NEW id \in Ids,
         Heard(sl, b, t) = {} \/ Single(Heard(sl, b, t))
  PROVE  /\ Confirmed(sl, b, t, cb, id) \in [Ids -> Nat]
         /\ \A k \in Ids \ {id} : Confirmed(sl, b, t, cb, id)[k] = confirms[k]
         /\ Confirmed(sl, b, t, cb, id)[id] \in {confirms[id], confirms[id] + 1}
         /\ (cb /\ Heard(sl, b, t) # {}) =>
              Confirmed(sl, b, t, cb, id)[id] = confirms[id] + 1
<1>1. CASE ~cb
  BY <1>1 DEF Confirmed, ConfirmType
<1>2. CASE cb
  <2> DEFINE n == Cardinality(Heard(sl, b, t))
  <2>1. n \in {0, 1} /\ (Heard(sl, b, t) # {} => n = 1)
    BY <1>2, FS_EmptySet, FS_Singleton DEF Single
  <2>2. Confirmed(sl, b, t, cb, id) = [confirms EXCEPT ![id] = @ + n]
    BY <1>2 DEF Confirmed
  <2> HIDE DEF n
  <2>3. QED
    BY <2>1, <2>2 DEF ConfirmType
<1>3. QED
  BY <1>1, <1>2

(* A new operation is handed to a backend that its consumer, if there is   *)
(* one, listens to.                                                        *)
LEMMA HandOverConfirms ==
  ASSUME TypeOK, ConfirmInv, NEW sl, NEW b \in Backends \cup {NoBackend},
         NEW t, NEW cb \in BOOLEAN, NEW id \in Ids, NEW how \in {"direct", "buffer"},
         HandOver(sl, b, t, cb, id, how),
         id \notin Handed,
         cb /\ b # NoBackend => Single(Heard(sl, b, t))
  PROVE  ConfirmInv'
<1>0. ConfirmType
  BY DEF TypeOK, ConfirmType
<1>1. CASE b = NoBackend
  <2>1. log' = log /\ inflight' = inflight /\ confirms' = confirms
    BY <1>1 DEF HandOver
  <2>2. Logged' = Logged /\ Handed' = Handed
    BY <2>1 DEF Logged, Handed
  <2>3. QED
    BY <2>1, <2>2 DEF ConfirmInv, Confirms, WaitsOnce
<1>2. CASE b # NoBackend
  <2> DEFINE e == [id |-> id, to |-> b, cb |-> cb, how |-> how]
  <2>1. e \in HandOvers /\ e.id = id /\ e.to = b /\ e.cb = cb /\ log' = Append(log, e)
    BY <1>2 DEF HandOver, HandOvers
  <2> HIDE DEF e
  <2>2. /\ \A i \in Logged' : log'[i] = e \/ (i \in Logged /\ log'[i] = log[i])
        /\ Handed \subseteq Handed'
        /\ id \in Handed'
    <3>1. /\ \A i \in Logged' : log'[i] = e \/ (i \in Logged /\ log'[i] = log[i])
          /\ \A i \in Logged : i \in Logged' /\ log'[i] = log[i]
          /\ Len(log) + 1 \in Logged' /\ log'[Len(log) + 1] = e
      BY <1>0, <2>1, LogGrows DEF ConfirmType
    <3>2. QED
      BY <2>1, <3>1 DEF Handed
  <2>3. \A i \in Logged : log[i].id \in Ids \ {id}
    BY <1>0, LogIds DEF ConfirmType, Handed
  <2>4. \A c \in Backends : \A i \in 1 .. Len(inflight[c]) : inflight[c][i] \in Ids \ {id}
    BY <1>0 DEF ConfirmType, ConfirmInv, WaitsOnce
  <2>5. confirms[id] = 0
    BY DEF ConfirmInv, Confirms
  <2>6. CASE b \in SyncBackends
    <3>1. confirms' = Confirmed(sl, b, t, cb, id) /\ inflight' = inflight
      BY <1>2, <2>6 DEF HandOver
    <3>2. /\ \A k \in Ids \ {id} : confirms'[k] = confirms[k]
          /\ confirms'[id] \in {0, 1}
          /\ cb => confirms'[id] = 1
      <4>1. cb => Single(Heard(sl, b, t))
        BY <1>2
      <4>2. cb => Heard(sl, b, t) # {}
        BY <4>1 DEF Single
      <4>3. /\ \A k \in Ids \ {id} : Confirmed(sl, b, t, cb, id)[k] = confirms[k]
            /\ Confirmed(sl, b, t, cb, id)[id] \in {confirms[id], confirms[id] + 1}
            /\ (cb /\ Heard(sl, b, t) # {}) =>
                 Confirmed(sl, b, t, cb, id)[id] = confirms[id] + 1
        <5>1. CASE ~cb
          BY <5>1 DEF Confirmed
        <5>2. CASE cb
          <6>1. Heard(sl, b, t) = {} \/ Single(Heard(sl, b, t))
            BY <4>1, <5>2
          <6>2. QED
            BY <1>0, <6>1, OneCall
        <5>3. QED
          BY <5>1, <5>2
      <4>4. QED
        BY <2>5, <3>1, <4>2, <4>3
    <3>3. Confirms'
      <4>1. ASSUME NEW k \in Ids
            PROVE  confirms'[k] = 0 \/ (confirms'[k] = 1 /\ k \in Handed')
        BY <2>2, <3>2 DEF ConfirmInv, Confirms
      <4>2. ASSUME NEW i \in Logged', log'[i].cb, log'[i].to \in SyncBackends
            PROVE  confirms'[log'[i].id] = 1
        <5>1. CASE log'[i] = e
          BY <2>1, <3>2, <4>2, <5>1
        <5>2. CASE i \in Logged /\ log'[i] = log[i]
          <6>1. confirms[log[i].id] = 1
            BY <4>2, <5>2 DEF ConfirmInv, Confirms
          <6>2. QED
            BY <2>3, <3>2, <5>2, <6>1
        <5>3. QED
          BY <2>2, <5>1, <5>2
      <4>3. QED
        BY <4>1, <4>2 DEF Confirms
    <3>4. WaitsOnce'
      BY <2>2, <2>4, <3>1, <3>2 DEF ConfirmInv, WaitsOnce
    <3>5. QED
      BY <3>3, <3>4 DEF ConfirmInv
  <2>7. CASE b \notin SyncBackends
    <3>1. confirms' = confirms /\ inflight' = [inflight EXCEPT ![b] = Append(@, id)]
      BY <1>2, <2>7 DEF HandOver
    <3>2. Confirms'
      <4>1. ASSUME NEW i \in Logged', log'[i].cb, log'[i].to \in SyncBackends
            PROVE  confirms[log'[i].id] = 1
        BY <2>1, <2>2, <2>7, <4>1 DEF ConfirmInv, Confirms
      <4>2. QED
        BY <2>2, <3>1, <4>1 DEF ConfirmInv, Confirms
    <3>3. /\ \A c \in Backends \ {b} : inflight'[c] = inflight[c]
          /\ Len(inflight[b]) \in Nat /\ Len(inflight'[b]) = Len(inflight[b]) + 1
          /\ \A i \in 1 .. Len(inflight[b]) : inflight'[b][i] = inflight[b][i]
          /\ inflight'[b][Len(inflight[b]) + 1] = id
      BY <1>0, <1>2, <3>1 DEF ConfirmType
    <3>4. \A c \in Backends : \A i \in 1 .. Len(inflight'[c]) :
            \/ i \in 1 .. Len(inflight[c]) /\ inflight'[c][i] = inflight[c][i]
            \/ c = b /\ i = Len(inflight[b]) + 1 /\ inflight'[c][i] = id
      BY <3>3
    <3>5. WaitsOnce'
      <4>1. ASSUME NEW c \in Backends, NEW i \in 1 .. Len(inflight'[c])
            PROVE  confirms'[inflight'[c][i]] = 0 /\ inflight'[c][i] \in Handed'
        BY <2>2, <2>5, <3>1, <3>4, <4>1 DEF ConfirmInv, WaitsOnce
      <4>2. ASSUME NEW c \in Backends, NEW d \in Backends,
                   NEW i \in 1 .. Len(inflight'[c]), NEW j \in 1 .. Len(inflight'[d]),
                   inflight'[c][i] = inflight'[d][j]
            PROVE  c = d /\ i = j
        <5> DEFINE old(k, n) == n \in 1 .. Len(inflight[k])
                                /\ inflight'[k][n] = inflight[k][n]
                   new(k, n) == k = b /\ n = Len(inflight[b]) + 1
                                /\ inflight'[k][n] = id
        <5>1. (old(c, i) \/ new(c, i)) /\ (old(d, j) \/ new(d, j))
          BY <3>4
        <5>2. CASE old(c, i) /\ old(d, j)
          <6>1. inflight[c][i] = inflight[d][j]
            BY <4>2, <5>2
          <6>2. QED
            BY <5>2, <6>1 DEF ConfirmInv, WaitsOnce
        <5>3. CASE new(c, i) /\ new(d, j)
          BY <5>3
        <5>4. CASE old(c, i) /\ new(d, j)
          BY <2>4, <4>2, <5>4
        <5>5. CASE new(c, i) /\ old(d, j)
          BY <2>4, <4>2, <5>5
        <5>6. QED
          BY <5>1, <5>2, <5>3, <5>4, <5>5
      <4>3. QED
        BY <4>1, <4>2 DEF WaitsOnce
    <3>6. QED
      BY <3>2, <3>5 DEF ConfirmInv
  <2>8. QED
    BY <2>6, <2>7
<1>3. QED
  BY <1>1, <1>2

(* An echo that arrives calls the consumer of its operation, once. *)
LEMMA ConfirmConfirms ==
  ASSUME TypeOK, OnceInv, ConfirmInv, ListenerPlacement,
         NEW b \in Backends, Confirm(b)
  PROVE  ConfirmInv'
<1> DEFINE q == inflight[b]
           id == Head(q)
           t == ops[id]
<1>0. ConfirmType /\ OnceType
  BY OnceTyped DEF TypeOK, ConfirmType
<1>1. /\ q \in Seq(Ids) /\ Len(q) \in Nat \ {0} /\ 1 \in 1 .. Len(q) /\ id = q[1]
      /\ id \in Ids
  BY <1>0 DEF Confirm, ConfirmType
<1>2. confirms[id] = 0 /\ id \in Handed
  BY <1>1 DEF ConfirmInv, WaitsOnce
<1>3. t \in Topics
  BY <1>0, <1>2 DEF Handed, OnceInv, Published, OnceType, Made
<1>4. /\ log' = log /\ inflight' = [inflight EXCEPT ![b] = Tail(@)]
      /\ confirms' = Confirmed(slots, b, t, routes[t].cb, id)
  BY DEF Confirm
<1>5. Heard(slots, b, t) = {} \/ Single(Heard(slots, b, t))
  BY <1>3 DEF ListenerPlacement, HeardOnlyAt, Single
<1>6. routes[t].cb \in BOOLEAN
  BY <1>3 DEF TypeOK, Route
<1>7. /\ \A c \in Backends \ {b} : inflight'[c] = inflight[c]
      /\ Len(inflight'[b]) = Len(q) - 1
      /\ \A i \in 1 .. Len(q) - 1 : inflight'[b][i] = q[i + 1]
  BY <1>0, <1>1, <1>4 DEF ConfirmType
<1> HIDE DEF id, t
<1>8. /\ \A k \in Ids \ {id} : confirms'[k] = confirms[k]
      /\ confirms'[id] \in {0, 1}
  <2> DEFINE cb == routes[t].cb
  <2>1. /\ \A k \in Ids \ {id} : Confirmed(slots, b, t, cb, id)[k] = confirms[k]
        /\ Confirmed(slots, b, t, cb, id)[id] \in {confirms[id], confirms[id] + 1}
    <3> HIDE DEF cb
    <3>1. cb \in BOOLEAN /\ id \in Ids
      BY <1>1, <1>6 DEF cb
    <3>2. QED
      BY <1>0, <1>5, <3>1, OneCall
  <2>2. QED
    BY <1>2, <1>4, <2>1
<1>9. Handed' = Handed
  BY <1>4 DEF Handed, Logged
<1>10. Confirms'
  <2>1. ASSUME NEW k \in Ids
        PROVE  confirms'[k] = 0 \/ (confirms'[k] = 1 /\ k \in Handed')
    BY <1>2, <1>8, <1>9 DEF ConfirmInv, Confirms
  <2>2. ASSUME NEW i \in Logged, log[i].cb, log[i].to \in SyncBackends
        PROVE  confirms'[log[i].id] = 1
    <3>1. confirms[log[i].id] = 1 /\ log[i].id \in Ids
      BY <1>0, <2>2, LogIds DEF ConfirmInv, Confirms, ConfirmType
    <3>2. QED
      BY <1>2, <1>8, <3>1
  <2>3. QED
    BY <1>4, <2>1, <2>2 DEF Confirms, Logged
<1>11. \A c \in Backends : \A i \in 1 .. Len(inflight'[c]) :
         \E j \in 1 .. Len(inflight[c]) :
           /\ inflight'[c][i] = inflight[c][j]
           /\ j = IF c = b THEN i + 1 ELSE i
  BY <1>1, <1>7
<1>12. \A c \in Backends : \A i \in 1 .. Len(inflight'[c]) : inflight'[c][i] \in Ids \ {id}
  <2> SUFFICES ASSUME NEW c \in Backends, NEW i \in 1 .. Len(inflight'[c])
               PROVE  inflight'[c][i] \in Ids \ {id}
    OBVIOUS
  <2>1. PICK j \in 1 .. Len(inflight[c]) :
          inflight'[c][i] = inflight[c][j] /\ j = IF c = b THEN i + 1 ELSE i
    BY <1>11
  <2>2. inflight[c][j] \in Ids
    BY <1>0 DEF ConfirmType
  <2>3. inflight[c][j] # inflight[b][1]
    BY <1>1, <2>1 DEF ConfirmInv, WaitsOnce
  <2>4. QED
    BY <1>1, <2>1, <2>2, <2>3
<1>13. WaitsOnce'
  <2>1. ASSUME NEW c \in Backends, NEW i \in 1 .. Len(inflight'[c])
        PROVE  confirms'[inflight'[c][i]] = 0 /\ inflight'[c][i] \in Handed'
    BY <1>8, <1>9, <1>11, <1>12 DEF ConfirmInv, WaitsOnce
  <2>2. ASSUME NEW c \in Backends, NEW d \in Backends,
               NEW i \in 1 .. Len(inflight'[c]), NEW j \in 1 .. Len(inflight'[d]),
               inflight'[c][i] = inflight'[d][j]
        PROVE  c = d /\ i = j
    <3>1. PICK k \in 1 .. Len(inflight[c]) :
            inflight'[c][i] = inflight[c][k] /\ k = IF c = b THEN i + 1 ELSE i
      BY <1>11
    <3>2. PICK l \in 1 .. Len(inflight[d]) :
            inflight'[d][j] = inflight[d][l] /\ l = IF d = b THEN j + 1 ELSE j
      BY <1>11
    <3>3. c = d /\ k = l
      <4>1. inflight[c][k] = inflight[d][l]
        BY <2>2, <3>1, <3>2
      <4>2. QED
        BY <4>1 DEF ConfirmInv, WaitsOnce
    <3>4. QED
      BY <3>1, <3>2, <3>3
  <2>3. QED
    BY <2>1, <2>2 DEF WaitsOnce
<1>14. QED
  BY <1>10, <1>13 DEF ConfirmInv

(* A topic with a callback has one entry on the backend of its route. *)
LEMMA HeardThere ==
  ASSUME ListenerPlacement, NEW t \in Topics, routes[t].cb,
         routes[t].bidx \in Backends
  PROVE  Single(Heard(slots, routes[t].bidx, t))
  BY DEF ListenerPlacement, HeardOnlyAt, ListensAt, Single

(* In every run of the hub each operation is confirmed once. *)
THEOREM SpecConfirmInv ==
  ASSUME DistinctInsts, SlotsSuffice
  PROVE  Spec => []ConfirmInv
<1>1. Init => ConfirmInv
  <2> SUFFICES ASSUME Init PROVE ConfirmInv
    OBVIOUS
  <2>1. Logged = {} /\ \A b \in Backends : 1 .. Len(inflight[b]) = {}
    BY DEF Init, Logged
  <2>2. QED
    BY <2>1 DEF Init, ConfirmInv, Confirms, WaitsOnce
<1>2. /\ TypeOK /\ BufferDrained /\ OnceInv /\ ConfirmInv
      /\ ListenerPlacement /\ ListenerPlacement' /\ [Next]_vars
      => ConfirmInv'
  <2> SUFFICES ASSUME TypeOK, BufferDrained, OnceInv, ConfirmInv,
                      ListenerPlacement, ListenerPlacement', [Next]_vars
               PROVE  ConfirmInv'
    OBVIOUS
  <2>0. OnceType
    BY OnceTyped
  <2>1. ASSUME UNCHANGED <<log, inflight, confirms>> PROVE ConfirmInv'
    <3>1. Logged' = Logged /\ Handed' = Handed
      BY <2>1 DEF Logged, Handed
    <3>2. QED
      BY <2>1, <3>1 DEF ConfirmInv, Confirms, WaitsOnce
  <2>2. Len(ops) + 1 \notin Handed
    BY <2>0 DEF Handed, OnceInv, Published, Made, OnceType
  <2>3. ASSUME NEW t \in Topics, PublishRouted(t) PROVE ConfirmInv'
    <3> DEFINE r  == Found(t)
               to == RouteFor(r)
               sl == IF to = r.bidx THEN slots ELSE MoveListener(slots, r, t, to)
               id == Len(ops) + 1
    <3>1. r \in Route /\ r.cb \in BOOLEAN /\ to \in Backends \cup {NoBackend}
      BY FoundType, RouteForType DEF Route
    <3>2. id \in Ids
      BY <2>3, NewOp DEF PublishRouted
    <3>3. HandOver(sl, to, t, r.cb, id, "direct")
      BY <2>3 DEF PublishRouted
    <3>4. ASSUME r.cb, to # NoBackend PROVE Single(Heard(sl, to, t))
      <4>1. slots' = sl /\ routes'[t] = [r EXCEPT !.bidx = to]
        BY <2>3 DEF PublishRouted, TypeOK
      <4>2. routes'[t].cb /\ routes'[t].bidx = to
        BY <3>1, <3>4, <4>1 DEF Route
      <4>3. Single(Heard(slots', to, t))
        <5> HIDE DEF r, to, sl
        <5>1. to \in Backends
          BY <3>1, <3>4
        <5>2. QED
          BY <4>2, <5>1 DEF ListenerPlacement, HeardOnlyAt, ListensAt, Heard, Single
      <4>4. QED
        BY <4>1, <4>3
    <3> HIDE DEF r, to, sl
    <3>5. r.cb /\ to # NoBackend => Single(Heard(sl, to, t))
      BY <3>4
    <3>6. QED
      BY <2>2, <3>1, <3>2, <3>3, <3>5, HandOverConfirms
  <2>4. ASSUME NEW t \in Topics, PublishUnrouted(t) PROVE ConfirmInv'
    <3> DEFINE to == HubChoose(DefaultRoute)
               id == Len(ops) + 1
    <3>1. to \in Backends \cup {NoBackend} /\ id \in Ids
      BY <2>4, HubChooseType, NewOp DEF PublishUnrouted
    <3>2. HandOver(slots, to, t, FALSE, id, "direct")
      BY <2>4 DEF PublishUnrouted
    <3> HIDE DEF to
    <3>3. QED
      BY <2>2, <3>1, <3>2, HandOverConfirms
  <2>5. ASSUME SwitchFlush PROVE ConfirmInv'
    <3> DEFINE t  == sw.topic
               r  == routes[t]
               id == r.q[sw.sent + 1]
    <3>1. sw \in SwitchCall /\ t \in Topics /\ Sent = sw.sent /\ sw.sent \in Nat
      BY <2>5, InSwitch DEF SwitchFlush, SwitchCall, Sent
    <3>2. /\ r.bidx \in Backends \cup {NoBackend} /\ r.cb \in BOOLEAN
          /\ r.q \in Seq(Ids) /\ Buffer[t] = r.q
      BY <3>1 DEF TypeOK, Route, Buffer
    <3>3. sw.sent + 1 \in 1 .. Len(r.q)
      BY <2>5, <3>1, <3>2 DEF SwitchFlush
    <3>4. id \in Ids /\ id \notin Handed
      <4>1. id \in Ids
        BY <3>2, <3>3
      <4>2. \A i \in Logged : log[i].id = id => sw.sent + 1 <= sw.sent
        BY <3>1, <3>2, <3>3 DEF OnceInv, HandedOver
      <4>3. QED
        BY <3>1, <4>1, <4>2 DEF Handed
    <3>5. HandOver(slots, r.bidx, t, r.cb, id, "buffer")
      BY <2>5 DEF SwitchFlush
    <3>6. ASSUME r.cb, r.bidx # NoBackend PROVE Single(Heard(slots, r.bidx, t))
      BY <3>1, <3>2, <3>6, HeardThere
    <3> HIDE DEF id, t
    <3>7. QED
      BY <3>2, <3>4, <3>5, <3>6, HandOverConfirms
  <2>6. ASSUME NEW b \in Backends, Confirm(b) PROVE ConfirmInv'
    BY <2>6, ConfirmConfirms
  <2>7. ASSUME NEW t \in Topics,
               \/ PublishBuffered(t) \/ SetListener(t) \/ UnsetListener(t)
               \/ \E required \in ReqCaps[t] : SetTopicCaps(t, required)
               \/ \E pin \in Pins[t] : ForceBackend(t, pin)
               \/ \E arg \in Targets[t] : SwitchBegin(t, arg)
        PROVE  ConfirmInv'
    BY <2>1, <2>7 DEF PublishBuffered, SetListener, UnsetListener,
                      SetTopicCaps, ForceBackend, Reselect, SwitchBegin
  <2>8. ASSUME \/ SwitchRewire \/ SwitchEnd
               \/ \E b \in Backends : ChangeHealth(b)
        PROVE  ConfirmInv'
    BY <2>1, <2>8 DEF SwitchRewire, SwitchEnd, ChangeHealth
  <2>9. CASE UNCHANGED vars
    BY <2>1, <2>9 DEF vars
  <2>10. CASE Next
    <3>1. \/ \E t \in Topics :
               \/ PublishRouted(t) \/ PublishUnrouted(t)
               \/ PublishBuffered(t) \/ SetListener(t) \/ UnsetListener(t)
               \/ \E required \in ReqCaps[t] : SetTopicCaps(t, required)
               \/ \E pin \in Pins[t] : ForceBackend(t, pin)
               \/ \E arg \in Targets[t] : SwitchBegin(t, arg)
          \/ SwitchFlush
          \/ \E b \in Backends : Confirm(b)
          \/ SwitchRewire \/ SwitchEnd
          \/ \E b \in Backends : ChangeHealth(b)
      BY <2>10 DEF Next
    <3>2. QED
      BY <2>3, <2>4, <2>5, <2>6, <2>7, <2>8, <3>1
  <2>11. QED
    BY <2>9, <2>10
<1>3. QED
  BY <1>1, <1>2, TypeCorrect, BufferIsDrained, SpecOnceInv, ListenersPlaced, PTL
     DEF Spec

(* Every operation handed to a synchronous backend while its consumer was  *)
(* listening reached that consumer exactly once, and no consumer ever got  *)
(* an operation twice, if no two topics share an inst_id and the listener  *)
(* arrays have a place for every topic (hub.c:64-72, 248-258).             *)
THEOREM EachConfirmedOnce ==
  ASSUME DistinctInsts, SlotsSuffice
  PROVE  Spec => []ConfirmedOnce
<1>1. TypeOK /\ ConfirmInv => ConfirmedOnce
  <2> SUFFICES ASSUME TypeOK, ConfirmInv PROVE ConfirmedOnce
    OBVIOUS
  <2>1. log \in Seq(HandOvers)
    BY DEF TypeOK
  <2>2. DOMAIN log = Logged
    BY <2>1 DEF Logged
  <2>3. \A id \in Ids : confirms[id] <= 1
    BY DEF ConfirmInv, Confirms
  <2>4. QED
    BY <2>2, <2>3 DEF ConfirmInv, Confirms, ConfirmedOnce
<1>2. QED
  BY <1>1, SpecConfirmInv, TypeCorrect, PTL

-----------------------------------------------------------------------------
(* The policy *)

(* What the hub hands to the policy for a backend.                         *)
Candidate == [present : BOOLEAN, healthy : BOOLEAN, prio : Int, caps : SUBSET CapBits]

(* A mask as the integer it is in the code.                                *)
Bit(m, i, w) == IF i \in m THEN w ELSE 0
Value(m) ==
  Bit(m, ORDERED, 1) + Bit(m, RELIABLE, 2) + Bit(m, BROADCAST, 4)
    + Bit(m, CRDT, 8) + Bit(m, DISCOVER, 16)

(* Masks are compared as integers.                                         *)
LEMMA MaskValue ==
  ASSUME NEW m1 \in SUBSET CapBits, NEW m2 \in SUBSET CapBits
  PROVE  /\ Value(m1) \in Int
         /\ MaskGreater(m1, m2) <=> Value(m1) > Value(m2)
<1> USE DEF ORDERED, RELIABLE, BROADCAST, CRDT, DISCOVER
<1> DEFINE Above(i) == \A j \in m2 \ m1 : j < i
           In(i) == i \in m1 \ m2
<1>1. CapBits = {0, 1, 2, 3, 4}
  BY DEF CapBits
<1>2. MaskGreater(m1, m2) <=>
        \/ (In(0) /\ Above(0)) \/ (In(1) /\ Above(1)) \/ (In(2) /\ Above(2))
        \/ (In(3) /\ Above(3)) \/ (In(4) /\ Above(4))
  BY <1>1 DEF MaskGreater
<1> DEFINE Out(i) == i \in m2 \ m1
<1>3. /\ Above(0) <=> ~Out(0) /\ ~Out(1) /\ ~Out(2) /\ ~Out(3) /\ ~Out(4)
      /\ Above(1) <=> ~Out(1) /\ ~Out(2) /\ ~Out(3) /\ ~Out(4)
      /\ Above(2) <=> ~Out(2) /\ ~Out(3) /\ ~Out(4)
      /\ Above(3) <=> ~Out(3) /\ ~Out(4)
      /\ Above(4) <=> ~Out(4)
  BY <1>1
<1> HIDE DEF Above
<1>4. QED
  BY <1>2, <1>3 DEF Value, Bit

(* Of two candidates one beats the other, and only one, and beating is     *)
(* transitive: priority, mask and place are compared in turn.              *)
LEMMA BeatsOrder ==
  ASSUME NEW n \in Nat, NEW cand \in [0 .. n - 1 -> Candidate],
         NEW a \in 0 .. n - 1, NEW b \in 0 .. n - 1, NEW c \in 0 .. n - 1
  PROVE  /\ ~(Beats(cand, a, b) /\ Beats(cand, b, a))
         /\ a # b => Beats(cand, a, b) \/ Beats(cand, b, a)
         /\ Beats(cand, a, b) /\ Beats(cand, b, c) => Beats(cand, a, c)
         /\ Better(cand[a], cand[b]) => Beats(cand, a, b)
         /\ ~Better(cand[a], cand[b]) /\ b < a => Beats(cand, b, a)
<1> DEFINE p(x) == cand[x].prio
           v(x) == Value(cand[x].caps)
<1>1. /\ \A x \in 0 .. n - 1 : p(x) \in Int /\ cand[x].caps \in SUBSET CapBits
  BY DEF Candidate
<1>2. \A x \in 0 .. n - 1 : v(x) \in Int
  BY <1>1, MaskValue
<1>3. \A x, y \in 0 .. n - 1 :
        Better(cand[x], cand[y]) <=> p(x) > p(y) \/ (p(x) = p(y) /\ v(x) > v(y))
  BY <1>1, MaskValue DEF Better
<1> HIDE DEF p, v
<1>4. \A x, y \in 0 .. n - 1 :
        Beats(cand, x, y) <=>
          \/ p(x) > p(y)
          \/ p(x) = p(y) /\ v(x) > v(y)
          \/ p(x) = p(y) /\ v(x) = v(y) /\ x < y
  BY <1>1, <1>2, <1>3 DEF Beats, p
<1>5. /\ p(a) \in Int /\ p(b) \in Int /\ p(c) \in Int
      /\ v(a) \in Int /\ v(b) \in Int /\ v(c) \in Int
      /\ a \in Int /\ b \in Int /\ c \in Int
  BY <1>1, <1>2 DEF p
<1>6. ~(Beats(cand, a, b) /\ Beats(cand, b, a))
  BY <1>4, <1>5
<1>7. a # b => Beats(cand, a, b) \/ Beats(cand, b, a)
  BY <1>4, <1>5
<1>8. Beats(cand, a, b) /\ Beats(cand, b, c) => Beats(cand, a, c)
  BY <1>4, <1>5
<1>9. /\ Better(cand[a], cand[b]) => Beats(cand, a, b)
      /\ ~Better(cand[a], cand[b]) /\ b < a => Beats(cand, b, a)
  BY DEF Beats
<1>10. QED
  BY <1>6, <1>7, <1>8, <1>9

(* b is the best of the first n candidates: there is none that is eligible *)
(* or b is, and beats the others.                                          *)
IsBest(cand, n, required, b) ==
  \/ b = NoBackend /\ \A c \in 0 .. n - 1 : ~Eligible(cand[c], required)
  \/ /\ b \in 0 .. n - 1 /\ Eligible(cand[b], required)
     /\ \A c \in 0 .. n - 1 : c # b /\ Eligible(cand[c], required) => Beats(cand, b, c)

(* One iteration of the loop.                                              *)
Pick(cand, required, b, i) ==
  IF /\ Eligible(cand[i], required)
     /\ b = NoBackend \/ Better(cand[i], cand[b])
  THEN i ELSE b

(* The best of i candidates and the next one are the best of i + 1.        *)
LEMMA PickIsBest ==
  ASSUME NEW n \in Nat, NEW cand \in [0 .. n - 1 -> Candidate], NEW required,
         NEW i \in 0 .. n - 1, NEW b, IsBest(cand, i, required, b)
  PROVE  IsBest(cand, i + 1, required, Pick(cand, required, b, i))
<1>1. /\ \A c \in 0 .. i : c \in 0 .. i - 1 \/ c = i
      /\ \A c \in 0 .. i - 1 : c \in 0 .. i /\ c \in 0 .. n - 1 /\ c < i /\ c # i
      /\ (i + 1) - 1 = i /\ i \in 0 .. i /\ NoBackend \notin 0 .. i
  BY DEF NoBackend
<1>2. CASE ~Eligible(cand[i], required)
  BY <1>1, <1>2 DEF IsBest, Pick
<1>3. CASE Eligible(cand[i], required) /\ b = NoBackend
  BY <1>1, <1>3 DEF IsBest, Pick
<1>4. CASE Eligible(cand[i], required) /\ b # NoBackend
  <2>1. /\ b \in 0 .. i - 1 /\ b \in 0 .. n - 1 /\ b < i /\ Eligible(cand[b], required)
        /\ \A c \in 0 .. i - 1 : c # b /\ Eligible(cand[c], required) => Beats(cand, b, c)
    BY <1>1, <1>4 DEF IsBest
  <2>2. CASE Better(cand[i], cand[b])
    <3>1. Pick(cand, required, b, i) = i
      BY <1>4, <2>2 DEF Pick
    <3>2. Beats(cand, i, b)
      BY <2>1, <2>2, BeatsOrder
    <3>3. \A c \in 0 .. i - 1 : Beats(cand, b, c) => Beats(cand, i, c)
      BY <1>1, <2>1, <3>2, BeatsOrder
    <3>4. QED
      BY <1>1, <1>4, <2>1, <3>1, <3>2, <3>3 DEF IsBest
  <2>3. CASE ~Better(cand[i], cand[b])
    <3>1. Pick(cand, required, b, i) = b
      BY <1>4, <2>3 DEF Pick
    <3>2. Beats(cand, b, i)
      BY <2>1, <2>3, BeatsOrder
    <3>3. QED
      BY <1>1, <2>1, <3>1, <3>2 DEF IsBest
  <2>4. QED
    BY <2>2, <2>3
<1>5. QED
  BY <1>2, <1>3, <1>4

(* After every iteration the loop has the best of what it has looked at.   *)
LEMMA ScanFindsBest ==
  ASSUME NEW n \in Nat, NEW cand \in [0 .. n - 1 -> Candidate], NEW required
  PROVE  IsBest(cand, n, required, PolicyChoose(cand, n, required))
<1> DEFINE S == Int
           g == [i \in 1 .. n |-> [b \in S |-> Pick(cand, required, b, i - 1)]]
           Up(f) == [k \in 0 .. n |->
                       IF k = 0 THEN NoBackend
                       ELSE IF /\ Eligible(cand[k - 1], required)
                               /\ f[k - 1] = NoBackend \/ Better(cand[k - 1], cand[f[k - 1]])
                            THEN k - 1 ELSE f[k - 1]]
           h == CHOOSE f : f = Up(f)
<1>1. g \in Steps(n, S) /\ NoBackend \in S
  BY DEF Steps, Pick, NoBackend
<1>2. \A i \in 1 .. n, b \in S : g[i][b] = Pick(cand, required, b, i - 1)
  OBVIOUS
<1> HIDE DEF g
<1>3. PICK f : Counts(f, n, S, NoBackend, g)
  BY <1>1, CountedUp
<1>4. /\ f \in [0 .. n -> S] /\ f[0] = NoBackend
      /\ \A i \in 1 .. n : f[i - 1] \in S /\ f[i] = Pick(cand, required, f[i - 1], i - 1)
  <2>1. /\ f \in [0 .. n -> S] /\ f[0] = NoBackend
        /\ \A i \in 1 .. n : f[i] = g[i][f[i - 1]]
    BY <1>3 DEF Counts
  <2>2. \A i \in 1 .. n : i - 1 \in 0 .. n
    OBVIOUS
  <2>3. \A i \in 1 .. n : f[i - 1] \in S
    BY <2>1, <2>2
  <2>4. QED
    BY <1>2, <2>1, <2>3
<1>5. f = Up(f)
  <2>1. ASSUME NEW k \in 0 .. n PROVE f[k] = Up(f)[k]
    <3>1. CASE k = 0
      BY <1>4, <3>1
    <3>2. CASE k # 0
      <4>1. k \in 1 .. n
        BY <3>2
      <4>2. f[k] = Pick(cand, required, f[k - 1], k - 1)
        BY <1>4, <4>1
      <4>3. QED
        BY <3>2, <4>2 DEF Pick
    <3>3. QED
      BY <3>1, <3>2
  <2>2. DOMAIN f = 0 .. n /\ f = [k \in 0 .. n |-> f[k]]
    BY <1>4
  <2>3. QED
    BY <2>1, <2>2
<1>6. h = Up(h)
  BY <1>5
<1>7. PolicyChoose(cand, n, required) = h[n]
  BY DEF PolicyChoose
<1> HIDE DEF h
<1>8. h[0] = NoBackend /\ \A i \in 1 .. n : h[i] = Pick(cand, required, h[i - 1], i - 1)
  <2>1. \A k \in 0 .. n : h[k] = Up(h)[k]
    BY <1>6
  <2>2. 0 \in 0 .. n /\ Up(h)[0] = NoBackend
    OBVIOUS
  <2>3. ASSUME NEW i \in 1 .. n PROVE h[i] = Pick(cand, required, h[i - 1], i - 1)
    <3>1. i \in 0 .. n /\ i # 0
      OBVIOUS
    <3>2. Up(h)[i] = Pick(cand, required, h[i - 1], i - 1)
      BY <3>1 DEF Pick
    <3>3. QED
      BY <2>1, <3>1, <3>2
  <2>4. QED
    BY <2>1, <2>2, <2>3
<1> HIDE DEF Up
<1> DEFINE T == {k \in 0 .. n : IsBest(cand, k, required, h[k])}
<1>9. 0 \in T
  BY <1>8 DEF IsBest
<1>10. ASSUME NEW i \in 1 .. n, i - 1 \in T PROVE i \in T
  <2>1. i - 1 \in 0 .. n - 1 /\ (i - 1) + 1 = i /\ i \in 0 .. n
    OBVIOUS
  <2>2. IsBest(cand, i - 1, required, h[i - 1])
    BY <1>10
  <2>3. IsBest(cand, (i - 1) + 1, required, Pick(cand, required, h[i - 1], i - 1))
    BY <2>1, <2>2, PickIsBest
  <2>4. QED
    BY <1>8, <2>1, <2>3
<1>11. \A i \in 1 .. n : i - 1 \in T => i \in T
  BY <1>10
<1> HIDE DEF T
<1>12. n \in T
  BY <1>9, <1>11, Climbs
<1>13. QED
  BY <1>7, <1>12 DEF T

(* There is only one that is best, and it is the one without the loop.     *)
LEMMA OneIsBest ==
  ASSUME NEW n \in Nat, NEW cand \in [0 .. n - 1 -> Candidate], NEW required,
         NEW b, IsBest(cand, n, required, b)
  PROVE  /\ (b = NoBackend) <=> \A c \in 0 .. n - 1 : ~Eligible(cand[c], required)
         /\ \A c : IsBest(cand, n, required, c) => c = b
         /\ BestBackend(cand, n, required) = b
<1> DEFINE E == {c \in 0 .. n - 1 : Eligible(cand[c], required)}
           W == Winners(cand, n, required)
<1>0. NoBackend \notin 0 .. n - 1
  BY DEF NoBackend
<1>1. b = NoBackend <=> \A c \in 0 .. n - 1 : ~Eligible(cand[c], required)
  BY <1>0 DEF IsBest
<1>2. ASSUME NEW c, IsBest(cand, n, required, c) PROVE c = b
  <2>1. CASE b = NoBackend
    BY <1>0, <1>1, <1>2, <2>1 DEF IsBest
  <2>2. CASE b # NoBackend
    <3>1. c # NoBackend
      BY <1>0, <1>2, <2>2 DEF IsBest
    <3>2. b \in 0 .. n - 1 /\ c \in 0 .. n - 1
      BY <1>2, <2>2, <3>1 DEF IsBest
    <3>3. b # c => Beats(cand, b, c) /\ Beats(cand, c, b)
      BY <1>2, <2>2, <3>1 DEF IsBest
    <3>4. QED
      BY <3>2, <3>3, BeatsOrder
  <2>3. QED
    BY <2>1, <2>2
<1>3. \A c : c \in W <=> c # NoBackend /\ IsBest(cand, n, required, c)
  BY <1>0 DEF Winners, IsBest
<1>4. BestBackend(cand, n, required) = b
  <2>1. CASE b = NoBackend
    <3>1. W = {}
      BY <1>2, <1>3, <2>1
    <3>2. QED
      BY <2>1, <3>1 DEF BestBackend
  <2>2. CASE b # NoBackend
    <3>1. W = {b}
      BY <1>2, <1>3, <2>2
    <3>2. QED
      BY <3>1 DEF BestBackend
  <2>3. QED
    BY <2>1, <2>2
<1>5. QED
  BY <1>1, <1>2, <1>4

(* A candidate that is not the best may lose its health.                   *)
LEMMA LosingKeepsBest ==
  ASSUME NEW n \in Nat, NEW cand \in [0 .. n - 1 -> Candidate], NEW required,
         NEW b, IsBest(cand, n, required, b), NEW c \in 0 .. n - 1, c # b
  PROVE  Losing(cand, c) \in [0 .. n - 1 -> Candidate] /\ IsBest(Losing(cand, c), n, required, b)
<1> DEFINE x == [cand[c] EXCEPT !.healthy = FALSE]
           l == Losing(cand, c)
<1>1. /\ x \in Candidate /\ x.healthy = FALSE /\ x.prio = cand[c].prio /\ x.caps = cand[c].caps
  BY DEF Candidate
<1>2. l = [cand EXCEPT ![c] = x]
  BY DEF Losing
<1> HIDE DEF x, l
<1>3. l \in [0 .. n - 1 -> Candidate]
  BY <1>1, <1>2
<1>4. \A d \in 0 .. n - 1 :
        /\ l[d].prio = cand[d].prio /\ l[d].caps = cand[d].caps
        /\ Eligible(l[d], required) => Eligible(cand[d], required)
        /\ d # c => l[d] = cand[d]
  BY <1>1, <1>2 DEF Eligible
<1>5. \A d, e \in 0 .. n - 1 : Beats(cand, d, e) => Beats(l, d, e)
  BY <1>4 DEF Beats, Better
<1>6. IsBest(l, n, required, b)
  BY <1>4, <1>5 DEF IsBest
<1>7. QED
  BY <1>3, <1>6 DEF l

(* The loop of the policy returns the unique best backend, the first of    *)
(* equal ones, and losing another one never moves the choice, for every    *)
(* number of backends, all priorities, masks, healths and requirements     *)
(* (repl_policy_default.c:3-17).                                           *)
THEOREM ScanPicksBest ==
  ASSUME NEW n \in Nat, NEW cand \in [0 .. n - 1 -> Candidate], NEW required
  PROVE  ScanIsBest(cand, n, required)
<1> DEFINE best == PolicyChoose(cand, n, required)
<1>1. IsBest(cand, n, required, best)
  BY ScanFindsBest
<1> HIDE DEF best
<1>2. /\ best = BestBackend(cand, n, required)
      /\ best = NoBackend <=> \A b \in 0 .. n - 1 : ~Eligible(cand[b], required)
  BY <1>1, OneIsBest
<1>3. ASSUME NEW b \in 0 .. n - 1, b # best
      PROVE  PolicyChoose(Losing(cand, b), n, required) = best
  <2> DEFINE l == Losing(cand, b)
  <2>1. l \in [0 .. n - 1 -> Candidate] /\ IsBest(l, n, required, best)
    BY <1>1, <1>3, LosingKeepsBest
  <2> HIDE DEF l
  <2>2. IsBest(l, n, required, PolicyChoose(l, n, required))
    BY <2>1, ScanFindsBest
  <2>3. QED
    BY <2>1, <2>2, OneIsBest DEF l
<1>4. QED
  BY <1>2, <1>3 DEF ScanIsBest, best

(* So the choice of the hub, which the model states without the loop, is   *)
(* the loop's, in every state of every hub.                                *)
THEOREM HubScans ==
  ASSUME TypeOK, NEW required
  PROVE  PolicyChoose(Candidates, NBackends, required) = BestBackend(Candidates, NBackends, required)
<1>1. Candidates \in [0 .. NBackends - 1 -> Candidate] /\ NBackends \in Nat
  BY HubAssumption DEF TypeOK, Candidates, Candidate, Backends
<1>2. QED
  BY <1>1, ScanPicksBest DEF ScanIsBest

(* In every state of every hub, wherever its routes are and whatever has   *)
(* become of its backends' health, the loop of the policy picks the unique  *)
(* best of them, the first of equal ones, for every requirement a           *)
(* publication may have, and the loss of another backend moves no choice    *)
(* (hub.c:122, repl_policy_default.c:3-17).                             *)
THEOREM ScanStaysBest ==
  Spec => [](\A required \in SUBSET CapBits : ScanIsBest(Candidates, NBackends, required))
<1>1. ASSUME TypeOK
      PROVE  \A required \in SUBSET CapBits : ScanIsBest(Candidates, NBackends, required)
  <2>1. Candidates \in [0 .. NBackends - 1 -> Candidate] /\ NBackends \in Nat
    BY <1>1, HubAssumption DEF TypeOK, Candidates, Candidate, Backends
  <2>2. QED
    BY <2>1, ScanPicksBest
<1>2. QED
  BY <1>1, TypeCorrect, PTL
=============================================================================

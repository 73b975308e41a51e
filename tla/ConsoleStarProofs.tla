------------------------- MODULE ConsoleStarProofs --------------------------
(***************************************************************************)
(* Theorems about the consoles behind the star for every number of         *)
(* clients, users' actions, connections and commands, every size of the    *)
(* windows and clocks that run as they like: colours agree, a listener     *)
(* hears all, and nothing is applied twice while a window has room.        *)
(***************************************************************************)
EXTENDS ConsoleStar, SequenceTheorems, WellFoundedInduction, TLAPS

-----------------------------------------------------------------------------
(* Loops that count: recursive functions on 0 .. n, and induction on the   *)
(* set of the numbers at which a claim holds                               *)

(* A set of numbers that is not empty has a least one. *)
LEMMA NatMin ==
  ASSUME NEW S \in SUBSET Nat, S # {}
  PROVE  \E m \in S : \A x \in S : m <= x
<1> DEFINE R == OpToRel(<, Nat)
<1>1. IsWellFoundedOn(R, Nat)
  BY NatLessThanWellFounded
<1>2. \A x, y \in Nat : x < y => <<x, y>> \in R
  BY DEF OpToRel
<1> HIDE DEF R
<1>3. \E m \in S : \A x \in S : ~(<<x, m>> \in R)
  BY <1>1, WFMin
<1>4. PICK m \in S : \A x \in S : ~(<<x, m>> \in R)
  BY <1>3
<1>5. \A x \in S : ~(x < m)
  BY <1>2, <1>4
<1>6. \A x \in S : m <= x
  BY <1>5
<1> QED BY <1>6

(* A set of numbers that has 0, and the next of each of its numbers below  *)
(* n, has all numbers up to n.                                             *)
LEMMA Climbs ==
  ASSUME NEW n \in Nat, NEW T, 0 \in T, \A i \in 1 .. n : i - 1 \in T => i \in T
  PROVE  \A i \in 0 .. n : i \in T
<1> DEFINE S == (0 .. n) \ T
<1>1. SUFFICES ASSUME S # {} PROVE FALSE
  OBVIOUS
<1>2. S \in SUBSET Nat
  OBVIOUS
<1>3. PICK m \in S : \A x \in S : m <= x
  BY <1>1, <1>2, NatMin
<1>4. m \in 1 .. n
  BY <1>3
<1>5. m - 1 \in 0 .. n /\ m - 1 \notin S
  BY <1>3, <1>4
<1>6. QED
  BY <1>3, <1>4, <1>5

(* The steps of a count in S that goes from 0 to n.                        *)
Steps(n, S) == [1 .. n -> [S -> S]]

(* f is such a count.                                                     *)
Counts(f, n, S, v, g) ==
  /\ f \in [0 .. n -> S]
  /\ f[0] = v
  /\ \A i \in 1 .. n : f[i] = g[i][f[i - 1]]

(* There is a function that is counted up in this way. *)
LEMMA CountedUp ==
  ASSUME NEW n \in Nat, NEW S, NEW v \in S, NEW g \in Steps(n, S)
  PROVE  \E f : Counts(f, n, S, v, g)
<1> USE DEF Steps
<1> DEFINE P(m) == \E f \in [0 .. m -> S] :
                     f[0] = v /\ \A i \in 1 .. m : f[i] = g[i][f[i - 1]]
           T == {m \in 0 .. n : P(m)}
<1>0. \A m : m \in T <=> m \in 0 .. n /\ P(m)
  OBVIOUS
<1> HIDE DEF T
<1>1. 0 \in T
  <2> DEFINE f == [i \in 0 .. 0 |-> v]
  <2>1. f \in [0 .. 0 -> S] /\ f[0] = v
    OBVIOUS
  <2>2. \A i \in 1 .. 0 : f[i] = g[i][f[i - 1]]
    OBVIOUS
  <2> HIDE DEF f
  <2>3. P(0)
    BY <2>1, <2>2
  <2> HIDE DEF P
  <2>4. 0 \in 0 .. n
    OBVIOUS
  <2>5. QED
    BY <1>0, <2>3, <2>4
<1>2. ASSUME NEW m \in 1 .. n, m - 1 \in T PROVE m \in T
  <2>1. PICK f \in [0 .. m - 1 -> S] :
          f[0] = v /\ \A i \in 1 .. m - 1 : f[i] = g[i][f[i - 1]]
    BY <1>0, <1>2
  <2> DEFINE h == [i \in 0 .. m |-> IF i = m THEN g[m][f[m - 1]] ELSE f[i]]
  <2>2. f[m - 1] \in S /\ g[m] \in [S -> S]
    OBVIOUS
  <2>3. h \in [0 .. m -> S]
    BY <2>2
  <2>4. h[0] = v
    BY <2>1
  <2>5. ASSUME NEW i \in 1 .. m PROVE h[i] = g[i][h[i - 1]]
    <3>1. i - 1 \in 0 .. m /\ i - 1 # m /\ i \in 0 .. m
      OBVIOUS
    <3>2. h[i - 1] = f[i - 1]
      BY <3>1
    <3>3. CASE i = m
      BY <3>1, <3>2, <3>3
    <3>4. CASE i # m
      BY <2>1, <3>1, <3>2, <3>4
    <3>5. QED
      BY <3>3, <3>4
  <2> HIDE DEF h
  <2>6. h[0] = v /\ \A i \in 1 .. m : h[i] = g[i][h[i - 1]]
    BY <2>4, <2>5
  <2>7. P(m)
    BY <2>3, <2>6, Zenon
  <2> HIDE DEF P
  <2>8. m \in 0 .. n
    OBVIOUS
  <2>9. QED
    BY <1>0, <2>7, <2>8
<1> HIDE DEF P
<1>3. \A i \in 1 .. n : i - 1 \in T => i \in T
  BY <1>2
<1>4. \A i \in 0 .. n : i \in T
  BY <1>1, <1>3, Climbs
<1>5. P(n)
  BY <1>0, <1>4
<1>6. QED
  BY <1>5 DEF P, Counts

-----------------------------------------------------------------------------
(* Operations, sliders, clocks and queues hold what their names say.       *)
CType ==
  /\ ops \in Seq(Operation)
  /\ slider \in [Procs -> Slider]
  /\ clock \in [Procs -> Nat]
  /\ done \in [Procs -> SUBSET Made]
  /\ up \in [Clients -> Seq(Made)]
  /\ late \in [Clients -> Seq(Made)]
  /\ down \in [Clients -> Seq(Made)]

(* A process stamps each of its drags later than the one before. *)
Stamped ==
  \A i \in Made : ops[i].kind = "drag" =>
    /\ ops[i].hlc >= 1
    /\ ops[i].hlc <= clock[ops[i].by]
    /\ \A j \in Made : ops[j].kind = "drag" /\ ops[j].by = ops[i].by /\ j # i =>
         ops[j].hlc # ops[i].hlc

(* d is the newest delta applied at p. *)
IsNewest(p, d) ==
  /\ d \in Deltas(p)
  /\ \A e \in Deltas(p) : ~Newer(Stamp(e), Stamp(d))

(* A slider keeps the stamp of the newest delta, and its value unless a    *)
(* drag of its own came with an older stamp.                               *)
Shown(p) ==
  \/ Deltas(p) = {} /\ slider[p] = NewSlider
  \/ \E d \in Deltas(p) :
       /\ IsNewest(p, d)
       /\ slider[p].ver = Stamp(d)
       /\ slider[p].val = d \/ ShowsOwnDrag(p)

(* A command is a line that somebody typed. *)
Commands ==
  \A i \in Made : ops[i].kind = "command" => ops[i].line \in Lines

(* The invariant of the colours.                                           *)
CInv == CType /\ Commands /\ Stamped /\ \A p \in Procs : Shown(p)

-----------------------------------------------------------------------------
(* Stamps *)

(* The stamps of drags.                                                    *)
Stamps == [hlc : Nat, actor : Nat]

(* Of two stamps that differ one is newer, and only one. *)
LEMMA NewerOrder ==
  ASSUME NEW s \in Stamps, NEW t \in Stamps
  PROVE  /\ s # t => Newer(s, t) \/ Newer(t, s)
         /\ ~(Newer(s, t) /\ Newer(t, s))
         /\ ~Newer(s, s)
<1>1. s # t => s.hlc # t.hlc \/ s.actor # t.actor
  BY DEF Stamps
<1>2. s.hlc \in Nat /\ s.actor \in Nat /\ t.hlc \in Nat /\ t.actor \in Nat
  BY DEF Stamps
<1>3. QED
  BY <1>1, <1>2 DEF Newer

(* What is newer than a newer one is newer. *)
LEMMA NewerTrans ==
  ASSUME NEW s \in Stamps, NEW t \in Stamps, NEW u \in Stamps,
         Newer(s, t), Newer(t, u)
  PROVE  Newer(s, u)
  BY DEF Newer, Stamps

(* The stamp of a delta is that of the process and its clock, *)
LEMMA StampIs ==
  ASSUME CType, NEW i \in Made
  PROVE  /\ Stamp(i) = [hlc |-> ops[i].hlc, actor |-> Actor[ops[i].by]]
         /\ Stamp(i) \in Stamps
         /\ ops[i].by \in Procs /\ ops[i].hlc \in Nat
<1>1. ops[i] \in Operation
  BY DEF CType, Made
<1>2. ops[i].by \in Procs /\ ops[i].hlc \in Nat
  BY <1>1 DEF Operation
<1>3. Actor[ops[i].by] \in Nat
  BY <1>2, ConsoleAssumption
<1>4. QED
  BY <1>2, <1>3 DEF Stamp, Payload, Stamps

(* so no two deltas have one stamp, and none that of a new slider. *)
LEMMA StampsDiffer ==
  ASSUME CType, Stamped,
         NEW i \in Made, NEW j \in Made,
         ops[i].kind = "drag", ops[j].kind = "drag"
  PROVE  /\ i # j => Stamp(i) # Stamp(j)
         /\ Newer(Stamp(i), Unset)
<1>1. Newer(Stamp(i), Unset)
  BY StampIs DEF Stamped, Newer, Unset
<1>2. ASSUME i # j, Stamp(i) = Stamp(j) PROVE FALSE
  <2>1. ops[i].hlc = ops[j].hlc /\ Actor[ops[i].by] = Actor[ops[j].by]
    <3>1. Stamp(i).hlc = ops[i].hlc /\ Stamp(i).actor = Actor[ops[i].by]
          /\ Stamp(j).hlc = ops[j].hlc /\ Stamp(j).actor = Actor[ops[j].by]
      BY StampIs
    <3>2. QED
      BY <1>2, <3>1
  <2>2. ops[i].by = ops[j].by
    BY <2>1, StampIs, ConsoleAssumption
  <2>3. QED
    BY <1>2, <2>1, <2>2 DEF Stamped
<1>3. QED
  BY <1>1, <1>2

-----------------------------------------------------------------------------
(* The invariant implies the property *)

(* Two consoles with the same deltas have the same newest. *)
LEMMA NewestIsOne ==
  ASSUME CType, Stamped, NEW p \in Procs, NEW d, NEW e, IsNewest(p, d), IsNewest(p, e)
  PROVE  d = e
<1>1. d \in Made /\ e \in Made /\ ops[d].kind = "drag" /\ ops[e].kind = "drag"
  BY DEF IsNewest, Deltas, CType
<1>2. ~Newer(Stamp(d), Stamp(e)) /\ ~Newer(Stamp(e), Stamp(d))
  BY DEF IsNewest
<1>3. Stamp(d) = Stamp(e)
  BY <1>1, <1>2, StampIs, NewerOrder
<1>4. QED
  BY <1>1, <1>3, StampsDiffer

(* Sliders that show their newest delta, or a drag of their own that was   *)
(* stamped before it, agree as the property asks.                          *)
LEMMA ShownAgree == ASSUME CInv PROVE ColoursAgree
<1>1. ASSUME NEW p \in Procs, NEW q \in Procs, Deltas(p) = Deltas(q)
      PROVE  /\ slider[p].ver = slider[q].ver
             /\ slider[p].val = slider[q].val \/ ShowsOwnDrag(p) \/ ShowsOwnDrag(q)
  <2>1. Shown(p) /\ Shown(q) /\ CType /\ Stamped
    BY DEF CInv
  <2>2. CASE Deltas(p) = {}
    BY <1>1, <2>1, <2>2 DEF Shown
  <2>3. CASE Deltas(p) # {}
    <3>1. PICK d \in Deltas(p) : IsNewest(p, d) /\ slider[p].ver = Stamp(d)
                                 /\ (slider[p].val = d \/ ShowsOwnDrag(p))
      BY <2>1, <2>3 DEF Shown
    <3>2. PICK e \in Deltas(q) : IsNewest(q, e) /\ slider[q].ver = Stamp(e)
                                 /\ (slider[q].val = e \/ ShowsOwnDrag(q))
      BY <1>1, <2>1, <2>3 DEF Shown
    <3>3. IsNewest(p, e)
      BY <1>1, <3>2 DEF IsNewest
    <3>4. d = e
      BY <2>1, <3>1, <3>3, NewestIsOne
    <3>5. QED
      BY <3>1, <3>2, <3>4
  <2>4. QED
    BY <2>2, <2>3
<1>2. QED
  BY <1>1 DEF ColoursAgree

-----------------------------------------------------------------------------
(* What a step does to the slider of one process: nothing, a delta of      *)
(* another process is merged, or it is dragged.                            *)

(* Operations are only added. *)
Grown ==
  /\ Len(ops') >= Len(ops)
  /\ \A i \in Made : ops'[i] = ops[i]

(* The slider of p stays, and what p applies is no drag.                   *)
Quiet(p) ==
  /\ slider'[p] = slider[p]
  /\ done[p] \subseteq done'[p]
  /\ \A i \in done'[p] \ done[p] : ops'[i].kind # "drag"

(* p applies a drag that was made before.                                  *)
Merges(p, id) ==
  /\ ops[id].kind = "drag"
  /\ done'[p] = done[p] \cup {id}
  /\ slider'[p] = Merged(slider[p], Payload(id, ops[id]))

(* p makes a drag and applies it.                                          *)
Drags(p, id) ==
  /\ id \in Made'
  /\ ops'[id].kind = "drag" /\ ops'[id].by = p
  /\ done'[p] = done[p] \cup {id}
  /\ slider'[p] = Merged(Moved(slider[p], id), Payload(id, ops'[id]))

(* What was made before keeps its stamp. *)
LEMMA StampStays ==
  ASSUME CType, CType', Grown, NEW i \in Made
  PROVE  Stamp(i)' = Stamp(i) /\ ops'[i] = ops[i] /\ i \in Made'
<1>1. ops'[i] = ops[i]
  BY DEF Grown
<1>2. i \in Made'
  <2>1. Len(ops) \in Nat /\ Len(ops') \in Nat
    BY DEF CType
  <2>2. QED
    BY <2>1 DEF Grown, Made
<1>3. QED
  BY <1>1, <1>2 DEF Stamp, Payload

(* A delta applied at a console is an operation that was made. *)
LEMMA DeltasMade ==
  ASSUME CType, NEW p \in Procs, NEW d \in Deltas(p)
  PROVE  d \in Made /\ d \in done[p] /\ ops[d].kind = "drag"
  BY DEF CType, Deltas

(* A console where nothing is dragged or merged shows what it did. *)
LEMMA QuietShown ==
  ASSUME CInv, CType', Grown, NEW p \in Procs, Quiet(p)
  PROVE  Shown(p)'
<1>1. CType /\ Stamped /\ Shown(p)
  BY DEF CInv
<1>2. done[p] \subseteq Made
  BY <1>1 DEF CType
<1>3. Deltas(p)' = Deltas(p)
  <2>1. \A i \in done[p] : ops'[i] = ops[i]
    BY <1>2 DEF Grown
  <2>2. QED
    BY <2>1 DEF Quiet, Deltas
<1>4. \A d \in Deltas(p) : Stamp(d)' = Stamp(d) /\ ops'[d] = ops[d]
  BY <1>1, DeltasMade, StampStays
<1>5. \A d \in Deltas(p) : IsNewest(p, d) => IsNewest(p, d)'
  BY <1>3, <1>4 DEF IsNewest
<1>6. ShowsOwnDrag(p) => ShowsOwnDrag(p)'
  BY <1>3, <1>4 DEF ShowsOwnDrag, Quiet
<1>7. slider'[p] = slider[p]
  BY DEF Quiet
<1>8. QED
  BY <1>1, <1>3, <1>4, <1>5, <1>6, <1>7 DEF Shown

(* A new delta becomes the newest, or the newest stays. *)
LEMMA NewestAfter ==
  ASSUME CType, CType', Grown, NEW p \in Procs, NEW id, NEW s \in Stamps,
         Stamp(id)' = s, ops'[id].kind = "drag", done'[p] = done[p] \cup {id},
         \A d \in Deltas(p) : s # Stamp(d)
  PROVE  /\ Deltas(p)' = Deltas(p) \cup {id}
         /\ Deltas(p) = {} => IsNewest(p, id)'
         /\ \A d \in Deltas(p) : IsNewest(p, d) =>
              \/ Newer(s, Stamp(d)) /\ IsNewest(p, id)'
              \/ ~Newer(s, Stamp(d)) /\ Newer(Stamp(d), s) /\ IsNewest(p, d)'
<1>1. Deltas(p)' = Deltas(p) \cup {id}
  <2>1. \A i \in done[p] : ops'[i] = ops[i]
    BY DEF Grown, CType
  <2>2. QED
    BY <2>1 DEF Deltas
<1>2. \A d \in Deltas(p) : Stamp(d)' = Stamp(d) /\ Stamp(d) \in Stamps
  BY DeltasMade, StampStays, StampIs
<1>3. ~Newer(s, s)
  BY NewerOrder
<1>4. Deltas(p) = {} => IsNewest(p, id)'
  BY <1>1, <1>3 DEF IsNewest
<1>5. ASSUME NEW d \in Deltas(p), IsNewest(p, d), Newer(s, Stamp(d))
      PROVE  IsNewest(p, id)'
  <2>1. ASSUME NEW e \in Deltas(p), Newer(Stamp(e), s) PROVE FALSE
    <3>1. Newer(Stamp(e), Stamp(d))
      BY <1>2, <1>5, <2>1, NewerTrans
    <3>2. QED
      BY <1>5, <3>1 DEF IsNewest
  <2>2. \A e \in Deltas(p)' : ~Newer(Stamp(e)', Stamp(id)')
    BY <1>1, <1>2, <1>3, <2>1
  <2>3. QED
    BY <1>1, <2>2 DEF IsNewest
<1>6. ASSUME NEW d \in Deltas(p), IsNewest(p, d), ~Newer(s, Stamp(d))
      PROVE  Newer(Stamp(d), s) /\ IsNewest(p, d)'
  <2>1. Newer(Stamp(d), s)
    BY <1>2, <1>6, NewerOrder
  <2>2. \A e \in Deltas(p)' : ~Newer(Stamp(e)', Stamp(d)')
    BY <1>1, <1>2, <1>6 DEF IsNewest
  <2>3. QED
    BY <1>1, <2>1, <2>2 DEF IsNewest
<1>7. QED
  BY <1>1, <1>4, <1>5, <1>6

(* A console that merges a delta. *)
LEMMA MergesShown ==
  ASSUME CInv, CType', Grown, NEW p \in Procs, NEW id \in Made, Merges(p, id)
  PROVE  Shown(p)'
<1> DEFINE s == Stamp(id)
           delta == Payload(id, ops[id])
<1>1. CType /\ Stamped /\ Shown(p)
  BY DEF CInv
<1>2. /\ Stamp(id)' = s /\ s \in Stamps /\ ops'[id].kind = "drag"
      /\ done'[p] = done[p] \cup {id} /\ ops[id].kind = "drag"
      /\ slider'[p] = Merged(slider[p], delta)
      /\ delta.val = id /\ delta.ver = s
  BY <1>1, StampStays, StampIs DEF Merges, Payload, Stamp
<1>3. CASE id \in Deltas(p)
  <2>1. PICK d \in Deltas(p) : IsNewest(p, d) /\ slider[p].ver = Stamp(d)
    BY <1>1, <1>3 DEF Shown
  <2>2. ~Newer(s, slider[p].ver)
    BY <1>3, <2>1 DEF IsNewest
  <2>3. slider'[p] = slider[p] /\ done'[p] = done[p]
    BY <1>2, <1>3, <2>2 DEF Merged, Deltas
  <2>4. QED
    BY <2>3, QuietShown DEF Quiet
<1>4. CASE id \notin Deltas(p)
  <2>1. \A d \in Deltas(p) : s # Stamp(d)
    BY <1>1, <1>2, <1>4, DeltasMade, StampsDiffer
  <2> HIDE DEF s, delta
  <2>2. /\ Deltas(p)' = Deltas(p) \cup {id}
        /\ Deltas(p) = {} => IsNewest(p, id)'
        /\ \A d \in Deltas(p) : IsNewest(p, d) =>
             \/ Newer(s, Stamp(d)) /\ IsNewest(p, id)'
             \/ ~Newer(s, Stamp(d)) /\ Newer(Stamp(d), s) /\ IsNewest(p, d)'
    BY <1>1, <1>2, <2>1, NewestAfter
  <2>3. CASE Deltas(p) = {}
    <3>1. Newer(s, Unset)
      BY <1>1, <1>2, StampsDiffer DEF s
    <3>2. slider'[p] = delta
      BY <1>1, <1>2, <2>3, <3>1 DEF Shown, NewSlider, Merged
    <3>3. QED
      BY <1>2, <2>2, <2>3, <3>2 DEF Shown
  <2>4. ASSUME NEW d \in Deltas(p), IsNewest(p, d), slider[p].ver = Stamp(d),
               slider[p].val = d \/ ShowsOwnDrag(p)
        PROVE  Shown(p)'
    <3>1. CASE Newer(s, Stamp(d)) /\ IsNewest(p, id)'
      <4>1. slider'[p] = delta
        BY <1>2, <2>4, <3>1 DEF Merged
      <4>2. QED
        BY <1>2, <2>2, <3>1, <4>1 DEF Shown
    <3>2. CASE ~Newer(s, Stamp(d)) /\ IsNewest(p, d)'
      <4>1. slider'[p] = slider[p]
        BY <1>2, <2>4, <3>2 DEF Merged
      <4>2. \A e \in Deltas(p) : Stamp(e)' = Stamp(e) /\ ops'[e] = ops[e]
        BY <1>1, DeltasMade, StampStays
      <4>3. ShowsOwnDrag(p) => ShowsOwnDrag(p)'
        BY <2>2, <4>1, <4>2 DEF ShowsOwnDrag
      <4>4. QED
        BY <2>2, <2>4, <3>2, <4>1, <4>2, <4>3 DEF Shown
    <3>3. QED
      BY <2>2, <2>4, <3>1, <3>2
  <2>5. QED
    BY <1>1, <2>3, <2>4 DEF Shown
<1>5. QED
  BY <1>3, <1>4

(* A console whose slider is dragged: the value changes before its delta   *)
(* is compared, and stays when the delta is not the newest.                *)
LEMMA DragsShown ==
  ASSUME CInv, CType', Grown, NEW p \in Procs, NEW id, Drags(p, id),
         ops'[id].hlc > clock[p]
  PROVE  Shown(p)'
<1> DEFINE s == Stamp(id)'
           delta == Payload(id, ops'[id])
           moved == Moved(slider[p], id)
<1>1. CType /\ Stamped /\ Shown(p) /\ slider[p] \in Slider /\ clock[p] \in Nat
  BY DEF CInv, CType
<1>2. /\ ops'[id].kind = "drag" /\ ops'[id].by = p
      /\ done'[p] = done[p] \cup {id}
      /\ slider'[p] = Merged(moved, delta)
      /\ delta.val = id /\ delta.ver = s
      /\ moved.val = id /\ moved.ver = slider[p].ver
  BY <1>1 DEF Drags, Payload, Stamp, Moved, Slider
<1>3. s = [hlc |-> ops'[id].hlc, actor |-> Actor[p]] /\ s \in Stamps
  <2>1. ops'[id] \in Operation
    <3>1. id \in 1 .. Len(ops')
      BY DEF Drags, Made
    <3>2. QED
      BY <3>1 DEF CType
  <2>2. ops'[id].hlc \in Nat /\ Actor[p] \in Nat
    BY <2>1, ConsoleAssumption DEF Operation
  <2>3. QED
    BY <1>2, <2>2 DEF Stamp, Payload, Stamps
<1>4. s.hlc > clock[p] /\ s.hlc \in Nat /\ s.actor = Actor[p]
  BY <1>3 DEF Stamps
<1>5. \A d \in Deltas(p) : s # Stamp(d)
  <2>1. ASSUME NEW d \in Deltas(p), s = Stamp(d) PROVE FALSE
    <3>1. d \in Made /\ ops[d].kind = "drag"
      BY <1>1, DeltasMade
    <3>2. Stamp(d).hlc = ops[d].hlc /\ Stamp(d).actor = Actor[ops[d].by]
          /\ ops[d].by \in Procs /\ ops[d].hlc \in Nat
      BY <1>1, <3>1, StampIs
    <3>3. ops[d].by = p
      BY <1>4, <2>1, <3>2, ConsoleAssumption
    <3>4. ops[d].hlc <= clock[p]
      BY <1>1, <3>1, <3>3 DEF Stamped
    <3>5. QED
      BY <1>1, <1>4, <2>1, <3>2, <3>4
  <2>2. QED
    BY <2>1
<1>6. /\ Deltas(p)' = Deltas(p) \cup {id}
      /\ Deltas(p) = {} => IsNewest(p, id)'
      /\ \A d \in Deltas(p) : IsNewest(p, d) =>
           \/ Newer(s, Stamp(d)) /\ IsNewest(p, id)'
           \/ ~Newer(s, Stamp(d)) /\ Newer(Stamp(d), s) /\ IsNewest(p, d)'
  BY <1>1, <1>2, <1>3, <1>5, NewestAfter
<1>7. Stamp(id)' = s
  OBVIOUS
<1> HIDE DEF s, delta, moved
<1>8. CASE Deltas(p) = {}
  <2>1. slider[p].ver = Unset
    BY <1>1, <1>8 DEF Shown, NewSlider
  <2>2. Newer(s, Unset)
    BY <1>1, <1>4 DEF Newer, Unset
  <2>3. slider'[p] = delta
    BY <1>2, <2>1, <2>2 DEF Merged
  <2>4. QED
    BY <1>2, <1>6, <1>7, <1>8, <2>3 DEF Shown
<1>9. ASSUME NEW d \in Deltas(p), IsNewest(p, d), slider[p].ver = Stamp(d)
      PROVE  Shown(p)'
  <2>1. CASE Newer(s, Stamp(d)) /\ IsNewest(p, id)'
    <3>1. slider'[p] = delta
      BY <1>2, <1>9, <2>1 DEF Merged
    <3>2. QED
      BY <1>2, <1>6, <1>7, <2>1, <3>1 DEF Shown
  <2>2. CASE ~Newer(s, Stamp(d)) /\ Newer(Stamp(d), s) /\ IsNewest(p, d)'
    <3>1. slider'[p] = moved
      BY <1>2, <1>9, <2>2 DEF Merged
    <3>2. Stamp(d)' = Stamp(d)
      BY <1>1, DeltasMade, StampStays
    <3>3. ShowsOwnDrag(p)'
      BY <1>2, <1>6, <1>7, <1>9, <2>2, <3>1 DEF ShowsOwnDrag
    <3>4. QED
      BY <1>2, <1>6, <1>9, <2>2, <3>1, <3>2, <3>3 DEF Shown
  <2>3. QED
    BY <1>6, <1>9, <2>1, <2>2
<1>10. QED
  BY <1>1, <1>8, <1>9 DEF Shown

-----------------------------------------------------------------------------
(* Publishing *)

(* Operations that are no deltas. *)
Plain(t) ==
  \A i \in 1 .. Len(t) :
    t[i].kind # "drag" /\ (t[i].kind = "command" => t[i].line \in Lines)

(* Operations t are made. *)
LEMMA GrownBy ==
  ASSUME CType, NEW t \in Seq(Operation), ops' = ops \o t
  PROVE  /\ ops' \in Seq(Operation) /\ Grown
         /\ Len(ops') = Len(ops) + Len(t)
         /\ Made \subseteq Made'
         /\ \A i \in 1 .. Len(t) : ops'[Len(ops) + i] = t[i]
         /\ \A i \in Made' \ Made : \E j \in 1 .. Len(t) :
              i = Len(ops) + j /\ ops'[i] = t[j]
<1>1. /\ ops \in Seq(Operation) /\ Len(ops) \in Nat /\ Len(t) \in Nat
      /\ ops' \in Seq(Operation)
      /\ Len(ops') = Len(ops) + Len(t)
      /\ \A i \in 1 .. Len(ops) : ops'[i] = ops[i]
      /\ \A i \in 1 .. Len(t) : ops'[Len(ops) + i] = t[i]
  BY DEF CType
<1>2. ASSUME NEW i \in Made' \ Made
      PROVE  \E j \in 1 .. Len(t) : i = Len(ops) + j /\ ops'[i] = t[j]
  <2>1. i - Len(ops) \in 1 .. Len(t) /\ i = Len(ops) + (i - Len(ops))
    BY <1>1 DEF Made
  <2>2. QED
    BY <1>1, <2>1
<1>3. Len(ops') >= Len(ops) /\ Made \subseteq Made'
  BY <1>1 DEF Made
<1>4. Grown
  BY <1>1, <1>3 DEF Grown, Made
<1>5. QED
  BY <1>1, <1>2, <1>3, <1>4

(* A queue keeps its type when operations are made. *)
LEMMA QueueStays ==
  ASSUME Made \subseteq Made', NEW s \in Seq(Made)
  PROVE  s \in Seq(Made')
  BY SeqMonotonic

(* A queue with operations of the step behind it. *)
LEMMA QueueGrows ==
  ASSUME Made \subseteq Made', NEW s \in Seq(Made), NEW t \in Seq(Made')
  PROVE  s \o t \in Seq(Made')
<1>1. s \in Seq(Made')
  BY QueueStays
<1>2. QED
  BY <1>1, ConcatProperties

(* The queues to the leader, after a step.                                 *)
Ups == up' \in [Clients -> Seq(Made)]'

(* The queues to the clients, after a step.                                *)
Downs == down' \in [Clients -> Seq(Made)]'

(* A client's publications go behind what it has on its way to the leader. *)
LEMMA ClientPublishesQueues ==
  ASSUME CType, Made \subseteq Made', NEW c \in Clients, NEW s,
         NEW ids \in Seq(Made'), ClientPublishes(c, s, ids)
  PROVE  Ups
<1>1. \A d \in Clients : up[d] \in Seq(Made) /\ up[d] \in Seq(Made')
  BY QueueStays DEF CType
<1>2. up[c] \o ids \in Seq(Made')
  BY <1>1, QueueGrows
<1>3. up' = [up EXCEPT ![c] = @ \o ids] \/ up' = up
  BY DEF ClientPublishes
<1>4. QED
  BY <1>1, <1>2, <1>3 DEF Ups, CType

(* What the leader casts goes behind what is on its way. *)
LEMMA CastQueues ==
  ASSUME CType, Made \subseteq Made', NEW ids \in Seq(Made'),
         NEW dn \in [Clients -> Seq(Made)], down' = Cast(dn, ids)
  PROVE  Downs
<1>1. ASSUME NEW c \in Clients PROVE dn[c] \in Seq(Made') /\ dn[c] \o ids \in Seq(Made')
  <2>1. dn[c] \in Seq(Made)
    OBVIOUS
  <2>2. QED
    BY <2>1, QueueStays, QueueGrows
<1>2. QED
  BY <1>1 DEF Cast, Downs

(* So do those of any process, behind what it has on its way. *)
LEMMA PublishesQueues ==
  ASSUME CType, Made \subseteq Made', NEW p \in Procs,
         NEW ids \in Seq(Made'), Publishes(p, ids)
  PROVE  Ups /\ Downs
<1>1. (\A c \in Clients : up[c] \in Seq(Made')) /\ (\A c \in Clients : down[c] \in Seq(Made'))
  BY QueueStays DEF CType
<1>2. CASE p = L
  <2>1. down' = Cast(down, ids) /\ up' = up
    BY <1>2 DEF Publishes
  <2>2. down \in [Clients -> Seq(Made)]
    BY DEF CType
  <2>3. Downs
    BY <2>1, <2>2, CastQueues
  <2>4. QED
    BY <1>1, <2>1, <2>3 DEF Ups, CType
<1>3. CASE p # L
  <2>1. p \in Clients /\ ClientPublishes(p, sink[p], ids) /\ down' = down
    BY <1>3 DEF Publishes, Procs
  <2>2. Ups
    BY <2>1, ClientPublishesQueues
  <2>3. QED
    BY <1>1, <2>1, <2>2 DEF Downs, CType
<1>4. QED
  BY <1>2, <1>3

(* The operations of a step have the next ids. *)
LEMMA NextIdsType ==
  ASSUME CType, NEW k \in Nat, Len(ops') = Len(ops) + k
  PROVE  NextIds(k) \in Seq(Made') /\ Elements(k) = Made' \ Made
<1>1. Len(ops) \in Nat
  BY DEF CType
<1>2. \A i \in 1 .. k : Len(ops) + i \in Made'
  BY <1>1 DEF Made
<1>3. NextIds(k) \in [1 .. k -> Made']
  BY <1>2 DEF NextIds
<1>4. NextIds(k) \in Seq(Made')
  BY <1>3, SeqDef
<1>5. QED
  BY <1>1, <1>4 DEF Elements, Made

(* Steps in which nothing is dragged. *)
LEMMA EventStep ==
  ASSUME CInv, NEW t \in Seq(Operation), ops' = ops \o t,
         Plain(t),
         clock' = clock,
         slider' \in [Procs -> Slider], done' \in [Procs -> SUBSET Made'],
         Ups, Downs, late' \in [Clients -> Seq(Made')],
         \A q \in Procs : Quiet(q) \/ \E id \in Made : Merges(q, id)
  PROVE  CInv'
<1>1. CType /\ Stamped
  BY DEF CInv
<1>2. /\ ops' \in Seq(Operation) /\ Grown /\ Made \subseteq Made'
      /\ \A i \in Made' \ Made : \E j \in 1 .. Len(t) :
            i = Len(ops) + j /\ ops'[i] = t[j]
  BY <1>1, GrownBy
<1>3. CType'
  BY <1>1, <1>2 DEF CType, Ups, Downs
<1>7. Commands'
  <2>1. ASSUME NEW i \in Made', ops'[i].kind = "command"
        PROVE  ops'[i].line \in Lines
    <3>1. CASE i \in Made
      BY <1>2, <2>1, <3>1 DEF Grown, CInv, Commands
    <3>2. CASE i \notin Made
      <4>1. PICK j \in 1 .. Len(t) : ops'[i] = t[j]
        BY <1>2, <3>2
      <4>2. QED
        BY <2>1, <4>1 DEF Plain
    <3>3. QED
      BY <3>1, <3>2
  <2>2. QED
    BY <2>1 DEF Commands
<1>4. Stamped'
  <2>1. ASSUME NEW i \in Made', ops'[i].kind = "drag"
        PROVE  i \in Made /\ ops'[i] = ops[i]
    <3>1. i \in Made
      <4>1. SUFFICES ASSUME i \notin Made PROVE FALSE
        OBVIOUS
      <4>2. PICK j \in 1 .. Len(t) : ops'[i] = t[j]
        BY <1>2, <4>1
      <4>3. QED
        BY <2>1, <4>2 DEF Plain
    <3>2. QED
      BY <1>2, <3>1 DEF Grown
  <2>2. ASSUME NEW i \in Made', ops'[i].kind = "drag"
        PROVE  /\ ops'[i].hlc >= 1
               /\ ops'[i].hlc <= clock'[ops'[i].by]
               /\ \A j \in Made' :
                    ops'[j].kind = "drag" /\ ops'[j].by = ops'[i].by /\ j # i =>
                      ops'[j].hlc # ops'[i].hlc
    <3>1. i \in Made /\ ops'[i] = ops[i]
      BY <2>1, <2>2
    <3>2. ASSUME NEW j \in Made', ops'[j].kind = "drag", ops'[j].by = ops'[i].by, j # i
          PROVE  ops'[j].hlc # ops'[i].hlc
      <4>1. j \in Made /\ ops'[j] = ops[j]
        BY <2>1, <3>2
      <4>2. QED
        BY <1>1, <2>2, <3>1, <3>2, <4>1 DEF Stamped
    <3>3. ops[i].hlc >= 1 /\ ops[i].hlc <= clock[ops[i].by]
      BY <1>1, <2>2, <3>1 DEF Stamped
    <3>4. QED
      BY <3>1, <3>2, <3>3
  <2>3. QED
    BY <2>2 DEF Stamped
<1>5. \A q \in Procs : Shown(q)'
  BY <1>2, <1>3, QuietShown, MergesShown
<1>6. QED
  BY <1>3, <1>4, <1>5, <1>7 DEF CInv

(* What is applied at p, but for deltas. *)
LEMMA AppliesQuiet ==
  ASSUME CType, NEW t \in Seq(Operation), ops' = ops \o t,
         Plain(t),
         slider' = slider,
         NEW p \in Procs, NEW known \in SUBSET Made, NEW made \in SUBSET (Made' \ Made),
         \A i \in known : ops[i].kind # "drag",
         Applies(p, known \cup made)
  PROVE  done' \in [Procs -> SUBSET Made'] /\ \A q \in Procs : Quiet(q)
<1>1. /\ Grown /\ Made \subseteq Made'
      /\ \A i \in Made' \ Made : \E j \in 1 .. Len(t) :
            i = Len(ops) + j /\ ops'[i] = t[j]
  BY GrownBy
<1>2. \A i \in known \cup made : ops'[i].kind # "drag"
  BY <1>1 DEF Grown, Plain
<1>3. done \in [Procs -> SUBSET Made] /\ slider \in [Procs -> Slider]
  BY DEF CType
<1>4. done' = [done EXCEPT ![p] = @ \cup (known \cup made)]
  BY DEF Applies
<1>5. done' \in [Procs -> SUBSET Made']
  BY <1>1, <1>3, <1>4
<1>6. \A q \in Procs : done[q] \subseteq done'[q]
                       /\ done'[q] \ done[q] \subseteq known \cup made
  BY <1>3, <1>4
<1>7. QED
  BY <1>2, <1>5, <1>6 DEF Quiet

-----------------------------------------------------------------------------
(* The steps *)

(* What users and processors make are operations of the kinds they say. *)
LEMMA OpType ==
  ASSUME NEW p \in Procs, NEW kind \in Kinds \cup {"prompt", "answer"}, NEW line \in Lines
  PROVE  /\ Op(p, kind) \in Operation /\ Op(p, kind).kind = kind
         /\ Typed(p, line) \in Operation /\ Typed(p, line).kind = "command"
         /\ Typed(p, line).line = line
  BY DEF Op, Typed, Operation, Kinds

(* Nothing was made yet, and every slider is new. *)
LEMMA InitCInv == ASSUME Init PROVE CInv
<1>1. ops = <<>> /\ Len(ops) = 0 /\ Made = {}
  BY DEF Init, Made
<1>2. CType
  <2>1. NewSlider \in Slider
    BY DEF NewSlider, Unset, Slider
  <2>2. <<>> \in Seq(Operation) /\ <<>> \in Seq(Made)
    OBVIOUS
  <2>3. QED
    BY <1>1, <2>1, <2>2 DEF Init, CType
<1>3. Stamped
  BY <1>1 DEF Stamped
<1>4. \A p \in Procs : Shown(p)
  BY DEF Init, Shown, Deltas
<1>5. Commands
  BY <1>1 DEF Commands
<1>6. QED
  BY <1>2, <1>3, <1>4, <1>5 DEF CInv

(* A user's operations that are no drags, with their answers. *)
LEMMA MakesInv ==
  ASSUME CInv, NEW p \in Procs, NEW t \in Seq(Operation), ops' = ops \o t,
         Plain(t),
         Applies(p, Elements(Len(t))), Publishes(p, NextIds(Len(t))),
         UNCHANGED <<slider, clock, late>>
  PROVE  CInv'
<1>1. CType /\ Len(t) \in Nat
  BY DEF CInv
<1>2. Len(ops') = Len(ops) + Len(t) /\ Made \subseteq Made'
  BY <1>1, GrownBy
<1>3. NextIds(Len(t)) \in Seq(Made') /\ Elements(Len(t)) = Made' \ Made
  BY <1>1, <1>2, NextIdsType
<1>4. Ups /\ Downs
  BY <1>1, <1>2, <1>3, PublishesQueues
<1>5. done' \in [Procs -> SUBSET Made'] /\ \A q \in Procs : Quiet(q)
  <2>1. Applies(p, {} \cup (Made' \ Made))
    BY <1>3
  <2>2. {} \in SUBSET Made /\ Made' \ Made \in SUBSET (Made' \ Made)
    OBVIOUS
  <2>3. QED
    BY <1>1, <2>1, <2>2, AppliesQuiet
<1>6. late' \in [Clients -> Seq(Made')] /\ slider' \in [Procs -> Slider]
  <2>1. \A c \in Clients : late[c] \in Seq(Made')
    BY <1>1, <1>2, QueueStays DEF CType
  <2>2. QED
    BY <1>1, <2>1 DEF CType
<1>7. QED
  BY <1>4, <1>5, <1>6, EventStep

(* A line, an edit of the prompt, a widget or a message. *)
LEMMA EditInv == ASSUME CInv, NEW p \in Procs, Edit(p) PROVE CInv'
<1> DEFINE t == <<Op(p, "edit")>>
<1>1. /\ ops' = Append(ops, Op(p, "edit")) /\ Applies(p, Elements(1))
      /\ Publishes(p, NextIds(1)) /\ UNCHANGED <<slider, clock, late>>
  BY DEF Edit
<1>2. Op(p, "edit") \in Operation /\ Op(p, "edit").kind = "edit"
  BY DEF Op, Operation, Kinds
<1>3. t \in Seq(Operation) /\ Len(t) = 1 /\ Plain(t)
  BY <1>2 DEF Plain
<1>4. ops' = ops \o t
  BY <1>1, <1>2, AppendIsConcat DEF CInv, CType
<1> HIDE DEF t
<1>5. QED
  BY <1>1, <1>3, <1>4, MakesInv

(* Answers are operations, and no drags. *)
LEMMA AnswersType ==
  ASSUME NEW p \in Procs, NEW line, Answers(line) \in Nat
  PROVE  /\ AnswersOf(p, line) \in Seq(Operation)
         /\ Len(AnswersOf(p, line)) = Answers(line)
         /\ \A i \in 1 .. Answers(line) : AnswersOf(p, line)[i].kind = "answer"
         /\ Plain(AnswersOf(p, line))
<1>1. Op(p, "answer") \in Operation /\ Op(p, "answer").kind = "answer"
  BY DEF Op, Operation
<1>2. AnswersOf(p, line) \in [1 .. Answers(line) -> Operation]
  BY <1>1 DEF AnswersOf
<1>3. AnswersOf(p, line) \in Seq(Operation)
  BY <1>2, SeqDef
<1>4. /\ Len(AnswersOf(p, line)) = Answers(line)
      /\ \A i \in 1 .. Answers(line) : AnswersOf(p, line)[i].kind = "answer"
  BY <1>1, <1>2, <1>3, LenProperties DEF AnswersOf
<1>5. QED
  BY <1>3, <1>4 DEF Plain

(* A line is committed: the prompt, the answers and the command. *)
LEMMA CommitInv ==
  ASSUME CInv, NEW p \in Procs, NEW line \in Lines, Commit(p, line)
  PROVE  CInv'
<1> DEFINE a == AnswersOf(p, line)
           x == Op(p, "prompt")
           y == Typed(p, line)
           t == (<<x>> \o a) \o <<y>>
           k == Answers(line)
<1>1. /\ ops' = ((ops \o <<x>>) \o a) \o <<y>>
      /\ Applies(p, Elements(k + 2)) /\ Publishes(p, NextIds(k + 2))
      /\ UNCHANGED <<slider, clock, late>>
  BY DEF Commit
<1>2. /\ x \in Operation /\ x.kind = "prompt" /\ y \in Operation /\ y.kind = "command"
      /\ y.line \in Lines
      /\ a \in Seq(Operation) /\ Len(a) = k /\ k \in Nat
      /\ \A i \in 1 .. k : a[i].kind = "answer"
      /\ ops \in Seq(Operation)
  <2>1. Answers(line) \in Nat
    BY ConsoleAssumption
  <2>2. Op(p, "prompt") \in Operation /\ Op(p, "prompt").kind = "prompt"
    BY DEF Op, Operation
  <2>3. /\ Typed(p, line) \in Operation /\ Typed(p, line).kind = "command"
        /\ Typed(p, line).line \in Lines
    BY OpType
  <2>4. ops \in Seq(Operation)
    BY DEF CInv, CType
  <2>5. QED
    BY <2>1, <2>2, <2>3, <2>4, AnswersType
<1> HIDE DEF a, x, y, k
<1>3. <<x>> \in Seq(Operation) /\ <<y>> \in Seq(Operation) /\ <<x>> \o a \in Seq(Operation)
  BY <1>2, ConcatProperties
<1>4. ops' = ops \o t
  <2>1. (ops \o <<x>>) \o a = ops \o (<<x>> \o a)
    BY <1>2, <1>3, ConcatAssociative
  <2>2. (ops \o (<<x>> \o a)) \o <<y>> = ops \o ((<<x>> \o a) \o <<y>>)
    BY <1>2, <1>3, ConcatAssociative
  <2>3. QED
    BY <1>1, <2>1, <2>2
<1>5. /\ t \in Seq(Operation) /\ Len(t) = k + 2 /\ Plain(t)
  <2> DEFINE u == <<x>> \o a
  <2>1. /\ u \in Seq(Operation) /\ Len(u) = 1 + k
        /\ \A i \in 1 .. 1 + k : u[i].kind \notin {"drag", "command"}
    BY <1>2, <1>3, ConcatProperties
  <2> HIDE DEF u
  <2>2. /\ u \o <<y>> \in Seq(Operation) /\ Len(u \o <<y>>) = k + 2
        /\ \A i \in 1 .. k + 2 :
             /\ (u \o <<y>>)[i].kind # "drag"
             /\ (u \o <<y>>)[i].kind = "command" => (u \o <<y>>)[i].line \in Lines
    BY <1>2, <1>3, <2>1, ConcatProperties
  <2>3. QED
    BY <2>2 DEF u, Plain
<1> HIDE DEF t
<1>6. Applies(p, Elements(Len(t))) /\ Publishes(p, NextIds(Len(t)))
  BY <1>1, <1>5
<1>7. UNCHANGED <<slider, clock, late>>
  BY <1>1
<1>8. QED
  BY <1>4, <1>5, <1>6, <1>7, MakesInv

(* A drag makes a delta that is stamped after all others of its process. *)
LEMMA DragInv == ASSUME CInv, NEW p \in Procs, Drag(p) PROVE CInv'
<1>1. PICK h \in Ticks(p) : DragAt(p, h)
  BY DEF Drag
<1> DEFINE id == Len(ops) + 1
           o  == Delta(p, h)
           t  == <<o>>
<1>2. /\ CType /\ Stamped
      /\ clock[p] \in Nat /\ h \in Nat /\ h >= 1 /\ h > clock[p]
      /\ clock' = [clock EXCEPT ![p] = h + 1]
      /\ ops' = Append(ops, o)
      /\ Applies(p, {id}) /\ Publishes(p, <<id>>) /\ late' = late
      /\ slider' = [slider EXCEPT ![p] = Merged(Moved(slider[p], id), Payload(id, o))]
  <2>1. h \in 1 .. MaxHlc /\ h > clock[p] /\ MaxHlc \in Nat
    BY ConsoleAssumption DEF Ticks
  <2>2. CType /\ Stamped /\ clock[p] \in Nat
    BY DEF CInv, CType
  <2>3. QED
    BY <1>1, <2>1, <2>2 DEF DragAt, Shows
<1>3. /\ o \in Operation /\ o.kind = "drag" /\ o.by = p /\ o.hlc = h
  <2> DEFINE q == Op(p, "drag")
  <2>1. q \in Operation /\ q.kind = "drag" /\ q.by = p
    BY DEF Op, Operation, Kinds
  <2>2. o = [q EXCEPT !.hlc = h]
    BY Zenon DEF Delta
  <2> HIDE DEF q
  <2>3. QED
    BY <1>2, <2>1, <2>2 DEF Operation
<1> HIDE DEF o
<1>4. t \in Seq(Operation) /\ Len(t) = 1 /\ t[1] = o
  BY <1>3
<1>5. ops' = ops \o t
  BY <1>2, <1>3, AppendIsConcat DEF CType
<1> HIDE DEF t
<1>6. /\ ops' \in Seq(Operation) /\ Grown /\ Made \subseteq Made'
      /\ Len(ops') = id /\ id \in Nat /\ ops'[id] = o /\ Len(ops) \in Nat
      /\ id \in Made' /\ Made' = Made \cup {id} /\ id \notin Made
  <2>1. CType /\ Len(ops) \in Nat
    BY <1>2 DEF CType
  <2>2. /\ ops' \in Seq(Operation) /\ Grown /\ Made \subseteq Made'
        /\ Len(ops') = Len(ops) + Len(t)
        /\ \A i \in 1 .. Len(t) : ops'[Len(ops) + i] = t[i]
    BY <1>4, <1>5, <2>1, GrownBy
  <2>3. ops'[Len(ops) + 1] = t[1]
    <3>1. 1 \in 1 .. Len(t)
      BY <1>4
    <3>2. QED
      BY <2>2, <3>1
  <2>4. QED
    BY <1>4, <2>1, <2>2, <2>3 DEF Made
<1> HIDE DEF id
<1>7. /\ slider' \in [Procs -> Slider]
      /\ done' \in [Procs -> SUBSET Made']
      /\ clock' \in [Procs -> Nat]
  <2>1. slider[p] \in Slider /\ Actor[p] \in Nat
    BY <1>2, ConsoleAssumption DEF CType
  <2>2. Payload(id, o) \in Slider
    BY <1>2, <1>3, <1>6, <2>1 DEF Payload, Slider
  <2>3. Moved(slider[p], id) \in Slider
    BY <1>6, <2>1 DEF Moved, Slider
  <2>4. Merged(Moved(slider[p], id), Payload(id, o)) \in Slider
    BY <2>2, <2>3 DEF Merged
  <2>5. slider' \in [Procs -> Slider]
    BY <1>2, <2>4 DEF CType
  <2>6. done' \in [Procs -> SUBSET Made']
    BY <1>2, <1>6 DEF Applies, CType
  <2>7. QED
    BY <1>2, <2>5, <2>6 DEF CType
<1>8. Ups /\ Downs /\ late' \in [Clients -> Seq(Made')]
  <2>1. <<id>> \in Seq(Made')
    BY <1>6
  <2>2. \A c \in Clients : late[c] \in Seq(Made')
    BY <1>2, <1>6, QueueStays DEF CType
  <2>3. late' \in [Clients -> Seq(Made')]
    BY <1>2, <2>2 DEF CType
  <2>4. QED
    BY <1>2, <1>6, <2>1, <2>3, PublishesQueues
<1>9. CType'
  BY <1>6, <1>7, <1>8 DEF CType, Ups, Downs
<1>10. Stamped'
  <2>1. clock'[p] = h + 1 /\ \A q \in Procs : clock[q] \in Nat /\ clock'[q] \in Nat
                                              /\ clock'[q] >= clock[q]
    BY <1>2 DEF CType
  <2>2. ASSUME NEW i \in Made
        PROVE  ops'[i] = ops[i] /\ ops[i].by \in Procs /\ ops[i].hlc \in Nat
    BY <1>2, <1>6, StampIs DEF Grown
  <2>3. ASSUME NEW i \in Made, ops[i].kind = "drag"
        PROVE  /\ ops[i].hlc >= 1
               /\ ops[i].hlc <= clock'[ops[i].by]
               /\ ops[i].by = p => ops[i].hlc < h
    <3>1. ops[i].by \in Procs /\ ops[i].hlc \in Nat
      BY <2>2
    <3>2. ops[i].hlc >= 1 /\ ops[i].hlc <= clock[ops[i].by]
      BY <1>2, <2>3 DEF Stamped
    <3>3. clock[ops[i].by] <= clock'[ops[i].by] /\ clock[ops[i].by] \in Nat
          /\ clock'[ops[i].by] \in Nat
      BY <2>1, <3>1
    <3>4. ops[i].by = p => ops[i].hlc < h
      BY <1>2, <3>1, <3>2
    <3>5. QED
      BY <3>1, <3>2, <3>3, <3>4
  <2>4. ops'[id].hlc = h /\ ops'[id].by = p /\ h >= 1 /\ h <= clock'[p] /\ h \in Nat
    BY <1>2, <1>3, <1>6, <2>1
  <2>5. ASSUME NEW i \in Made', ops'[i].kind = "drag"
        PROVE  /\ ops'[i].hlc >= 1 /\ ops'[i].hlc <= clock'[ops'[i].by]
    <3>1. CASE i = id
      BY <2>4, <3>1
    <3>2. CASE i \in Made
      BY <2>2, <2>3, <2>5, <3>2
    <3>3. QED
      BY <1>6, <3>1, <3>2
  <2>6. ASSUME NEW i \in Made', ops'[i].kind = "drag",
               NEW j \in Made', ops'[j].kind = "drag",
               ops'[j].by = ops'[i].by, j # i
        PROVE  ops'[j].hlc # ops'[i].hlc
    <3>1. CASE i \in Made /\ j \in Made
      BY <1>2, <2>2, <2>6, <3>1 DEF Stamped
    <3>2. CASE i = id /\ j \in Made
      <4>1. ops'[j] = ops[j] /\ ops[j].by = p /\ ops[j].hlc \in Nat /\ ops[j].kind = "drag"
        BY <2>2, <2>4, <2>6, <3>2
      <4>2. ops[j].hlc < h
        BY <2>3, <3>2, <4>1
      <4>3. QED
        BY <2>4, <3>2, <4>1, <4>2
    <3>3. CASE j = id /\ i \in Made
      <4>1. ops'[i] = ops[i] /\ ops[i].by = p /\ ops[i].hlc \in Nat /\ ops[i].kind = "drag"
        BY <2>2, <2>4, <2>6, <3>3
      <4>2. ops[i].hlc < h
        BY <2>3, <3>3, <4>1
      <4>3. QED
        BY <2>4, <3>3, <4>1, <4>2
    <3>4. QED
      BY <1>6, <2>6, <3>1, <3>2, <3>3
  <2>7. QED
    BY <2>5, <2>6 DEF Stamped
<1>11. ASSUME NEW q \in Procs PROVE Shown(q)'
  <2>1. CASE q = p
    <3>1. Drags(p, id)
      BY <1>2, <1>3, <1>6 DEF Drags, Applies, CType
    <3>2. ops'[id].hlc > clock[p]
      BY <1>2, <1>3, <1>6
    <3>3. QED
      BY <1>6, <1>9, <2>1, <3>1, <3>2, DragsShown
  <2>2. CASE q # p
    <3>1. Quiet(q)
      BY <1>2, <2>2 DEF Quiet, Applies, CType
    <3>2. QED
      BY <1>6, <1>9, <3>1, QuietShown
  <2>3. QED
    BY <2>1, <2>2
<1>12. Commands'
  <2>1. \A i \in Made : ops'[i] = ops[i]
    BY <1>6 DEF Grown
  <2>2. QED
    BY <1>3, <1>6, <2>1 DEF CInv, Commands
<1>13. QED
  BY <1>9, <1>10, <1>11, <1>12 DEF CInv

(* What is read from a queue was made, and the rest stays. *)
LEMMA QueueRead ==
  ASSUME NEW S, NEW s \in Seq(S), s # <<>>
  PROVE  Head(s) \in S /\ Tail(s) \in Seq(S)
  BY HeadTailProperties

(* A console that applies an operation of another process that is no       *)
(* command: it merges the delta, or its slider stays.                      *)
LEMMA ForeignApplies ==
  ASSUME CInv, NEW p \in Procs, NEW id \in Made, ops' = ops,
         Applies(p, {id}), Shows(p, AfterOp(p, id))
  PROVE  /\ done' \in [Procs -> SUBSET Made'] /\ slider' \in [Procs -> Slider]
         /\ \A q \in Procs : Quiet(q) \/ \E i \in Made : Merges(q, i)
<1>1. /\ CType /\ Made' = Made
      /\ done \in [Procs -> SUBSET Made] /\ slider \in [Procs -> Slider]
  BY DEF CInv, CType, Made
<1>2. /\ done' = [done EXCEPT ![p] = @ \cup {id}]
      /\ slider' = [slider EXCEPT ![p] = AfterOp(p, id)]
  BY DEF Applies, Shows
<1>3. Payload(id, ops[id]) \in Slider
  <2>1. ops[id].hlc \in Nat /\ Actor[ops[id].by] \in Nat /\ id \in Nat
    BY <1>1, StampIs, ConsoleAssumption DEF Made
  <2>2. QED
    BY <2>1 DEF Payload, Slider
<1>4. AfterOp(p, id) \in Slider
  BY <1>1, <1>3 DEF AfterOp, Merged
<1>5. ASSUME NEW q \in Procs, q # p PROVE Quiet(q)
  BY <1>1, <1>2, <1>5 DEF Quiet
<1>6. CASE ops[id].kind = "drag"
  <2>1. Merges(p, id)
    BY <1>1, <1>2, <1>6 DEF Merges, AfterOp
  <2>2. QED
    BY <1>1, <1>2, <1>4, <1>5, <2>1
<1>7. CASE ops[id].kind # "drag"
  <2>1. Quiet(p)
    BY <1>1, <1>2, <1>7 DEF Quiet, AfterOp
  <2>2. QED
    BY <1>1, <1>2, <1>4, <1>5, <2>1
<1>8. QED
  BY <1>6, <1>7

(* Steps that make nothing: they only move queues, or apply an operation.  *)
LEMMA OldStep ==
  ASSUME CInv, ops' = ops, clock' = clock,
         slider' \in [Procs -> Slider], done' \in [Procs -> SUBSET Made'],
         up' \in [Clients -> Seq(Made)], down' \in [Clients -> Seq(Made)],
         late' \in [Clients -> Seq(Made)],
         \A q \in Procs : Quiet(q) \/ \E id \in Made : Merges(q, id)
  PROVE  CInv'
<1>1. <<>> \in Seq(Operation) /\ Plain(<<>>)
  BY DEF Plain
<1>2. ops' = ops \o <<>>
  BY DEF CInv, CType
<1>3. Made' = Made
  BY DEF Made
<1>4. Ups /\ Downs
  BY <1>3 DEF Ups, Downs
<1>5. late' \in [Clients -> Seq(Made')]
  BY <1>3
<1>6. QED
  BY <1>1, <1>2, <1>4, <1>5, EventStep

(* Nothing is applied anywhere. *)
LEMMA AllQuiet ==
  ASSUME CInv, ops' = ops, done' = done, slider' = slider
  PROVE  /\ done' \in [Procs -> SUBSET Made'] /\ slider' \in [Procs -> Slider]
         /\ \A q \in Procs : Quiet(q)
<1>1. Made' = Made
  BY DEF Made
<1>2. QED
  BY <1>1 DEF Quiet, CInv, CType

(* What the leader's console makes of an operation, and what is cast. *)
LEMMA LeaderStep ==
  ASSUME CInv, NEW id \in Made, LeaderConfirms(id), clock' = clock,
         up' \in [Clients -> Seq(Made)], late' \in [Clients -> Seq(Made)]
  PROVE  CInv'
<1> DEFINE line == ops[id].line
           k    == Answers(line)
           t    == AnswersOf(L, line)
           foreign == IsForeign(sink[L], id)
<1>1. CType /\ Commands /\ L \in Procs /\ down \in [Clients -> Seq(Made)]
  BY DEF CInv, CType, Procs
<1>2. CASE foreign /\ ops[id].kind = "command"
  <2>1. /\ ops' = ops \o t /\ Applies(L, {id} \cup Elements(k))
        /\ down' = Cast(down, Append(NextIds(k), id)) /\ slider' = slider
    BY <1>2 DEF LeaderConfirms
  <2>2. k \in Nat
    <3>1. line \in Lines
      BY <1>1, <1>2 DEF Commands
    <3>2. QED
      BY <3>1, ConsoleAssumption
  <2> HIDE DEF k, line
  <2>3. t \in Seq(Operation) /\ Len(t) = k /\ Plain(t)
    BY <1>1, <2>2, AnswersType DEF k
  <2> HIDE DEF t
  <2>4. Len(ops') = Len(ops) + k /\ Made \subseteq Made'
    BY <1>1, <2>1, <2>3, GrownBy
  <2>5. NextIds(k) \in Seq(Made') /\ Elements(k) = Made' \ Made
    BY <1>1, <2>2, <2>4, NextIdsType
  <2>6. Append(NextIds(k), id) \in Seq(Made')
    BY <2>4, <2>5, AppendProperties
  <2>7. Downs
    BY <1>1, <2>1, <2>4, <2>6, CastQueues
  <2>8. done' \in [Procs -> SUBSET Made'] /\ \A q \in Procs : Quiet(q)
    <3>1. {id} \in SUBSET Made /\ Elements(k) \in SUBSET (Made' \ Made)
          /\ \A i \in {id} : ops[i].kind # "drag"
      BY <1>2, <2>5
    <3>2. QED
      BY <1>1, <2>1, <2>3, <3>1, AppliesQuiet
  <2>9. Ups /\ late' \in [Clients -> Seq(Made')]
    <3>1. \A c \in Clients : up'[c] \in Seq(Made') /\ late'[c] \in Seq(Made')
      BY <2>4, QueueStays
    <3>2. QED
      BY <3>1 DEF Ups
  <2>10. slider' \in [Procs -> Slider]
    BY <1>1, <2>1 DEF CType
  <2>11. QED
    BY <2>1, <2>3, <2>7, <2>8, <2>9, <2>10, EventStep
<1>3. ASSUME ops' = ops, down' = Cast(down, <<id>>) PROVE down' \in [Clients -> Seq(Made)]
  <2>1. Made' = Made
    BY <1>3 DEF Made
  <2>2. <<id>> \in Seq(Made')
    BY <2>1
  <2>3. Downs
    BY <1>1, <1>3, <2>1, <2>2, CastQueues
  <2>4. QED
    BY <2>1, <2>3 DEF Downs
<1>4. CASE foreign /\ ops[id].kind # "command"
  <2>1. /\ ops' = ops /\ Applies(L, {id}) /\ Shows(L, AfterOp(L, id))
        /\ down' = Cast(down, <<id>>)
    BY <1>4 DEF LeaderConfirms
  <2>2. QED
    BY <1>1, <1>3, <2>1, ForeignApplies, OldStep
<1>5. CASE ~foreign
  <2>1. ops' = ops /\ done' = done /\ slider' = slider /\ down' = Cast(down, <<id>>)
    BY <1>5 DEF LeaderConfirms
  <2>2. QED
    BY <1>3, <2>1, AllQuiet, OldStep
<1>6. QED
  BY <1>2, <1>4, <1>5

(* The leader reads an operation from a connection, *)
LEMMA LeaderReadsInv == ASSUME CInv, NEW c \in Clients, LeaderReads(c) PROVE CInv'
<1>1. up[c] \in Seq(Made) /\ up \in [Clients -> Seq(Made)] /\ late \in [Clients -> Seq(Made)]
  BY DEF CInv, CType
<1>2. Head(up[c]) \in Made /\ Tail(up[c]) \in Seq(Made)
  BY <1>1, QueueRead DEF LeaderReads
<1>3. /\ up' = [up EXCEPT ![c] = Tail(@)] /\ late' = late /\ clock' = clock
      /\ LeaderConfirms(Head(up[c]))
  BY DEF LeaderReads
<1>4. up' \in [Clients -> Seq(Made)] /\ late' \in [Clients -> Seq(Made)]
  BY <1>1, <1>2, <1>3
<1>5. QED
  BY <1>2, <1>3, <1>4, LeaderStep

(* or from one that its client has left. *)
LEMMA LeaderReadsLateInv == ASSUME CInv, NEW c \in Clients, LeaderReadsLate(c) PROVE CInv'
<1>1. late[c] \in Seq(Made) /\ up \in [Clients -> Seq(Made)] /\ late \in [Clients -> Seq(Made)]
  BY DEF CInv, CType
<1>2. Head(late[c]) \in Made /\ Tail(late[c]) \in Seq(Made)
  BY <1>1, QueueRead DEF LeaderReadsLate
<1>3. /\ late' = [late EXCEPT ![c] = Tail(@)] /\ up' = up /\ clock' = clock
      /\ LeaderConfirms(Head(late[c]))
  BY DEF LeaderReadsLate
<1>4. up' \in [Clients -> Seq(Made)] /\ late' \in [Clients -> Seq(Made)]
  BY <1>1, <1>2, <1>3
<1>5. QED
  BY <1>2, <1>3, <1>4, LeaderStep

(* A client hears an operation from the leader. *)
LEMMA ClientHearsInv == ASSUME CInv, NEW c \in Clients, ClientHears(c) PROVE CInv'
<1> DEFINE id   == Head(down[c])
           line == ops[id].line
           k    == Answers(line)
           t    == AnswersOf(c, line)
           s    == Settled(sink[c], id)
           foreign == IsForeign(sink[c], id)
<1>1. /\ CType /\ Commands /\ c \in Procs /\ down[c] \in Seq(Made)
      /\ down \in [Clients -> Seq(Made)] /\ up \in [Clients -> Seq(Made)]
      /\ late \in [Clients -> Seq(Made)]
  BY DEF CInv, CType, Procs
<1>2. id \in Made /\ Tail(down[c]) \in Seq(Made)
  BY <1>1, QueueRead DEF ClientHears
<1>3. down' = [down EXCEPT ![c] = Tail(@)] /\ clock' = clock /\ late' = late
  BY DEF ClientHears
<1>4. down' \in [Clients -> Seq(Made)] /\ late' \in [Clients -> Seq(Made)]
  BY <1>1, <1>2, <1>3
<1>5. CASE foreign /\ ops[id].kind = "command" /\ c \in onstar
  <2>1. /\ ops' = ops \o t /\ Applies(c, {id} \cup Elements(k))
        /\ ClientPublishes(c, s, NextIds(k)) /\ slider' = slider
    BY <1>5 DEF ClientHears
  <2>2. k \in Nat
    <3>1. line \in Lines
      BY <1>1, <1>2, <1>5 DEF Commands
    <3>2. QED
      BY <3>1, ConsoleAssumption
  <2> HIDE DEF k, line
  <2>3. t \in Seq(Operation) /\ Len(t) = k /\ Plain(t)
    BY <1>1, <2>2, AnswersType DEF k
  <2> HIDE DEF t, s
  <2>4. Len(ops') = Len(ops) + k /\ Made \subseteq Made'
    BY <1>1, <2>1, <2>3, GrownBy
  <2>5. NextIds(k) \in Seq(Made') /\ Elements(k) = Made' \ Made
    BY <1>1, <2>2, <2>4, NextIdsType
  <2>6. Ups
    BY <1>1, <2>1, <2>4, <2>5, ClientPublishesQueues
  <2>7. done' \in [Procs -> SUBSET Made'] /\ \A q \in Procs : Quiet(q)
    <3>1. {id} \in SUBSET Made /\ Elements(k) \in SUBSET (Made' \ Made)
          /\ \A i \in {id} : ops[i].kind # "drag"
      BY <1>2, <1>5, <2>5
    <3> HIDE DEF id
    <3>2. QED
      BY <1>1, <2>1, <2>3, <3>1, AppliesQuiet
  <2>8. Downs /\ late' \in [Clients -> Seq(Made')]
    <3>1. \A d \in Clients : down'[d] \in Seq(Made') /\ late'[d] \in Seq(Made')
      BY <1>4, <2>4, QueueStays
    <3>2. QED
      BY <1>4, <3>1 DEF Downs
  <2>9. slider' \in [Procs -> Slider]
    BY <1>1, <2>1 DEF CType
  <2>10. QED
    BY <1>3, <2>1, <2>3, <2>6, <2>7, <2>8, <2>9, EventStep
<1>6. CASE foreign /\ ops[id].kind # "command" /\ c \in onstar
  <2>1. ops' = ops /\ Applies(c, {id}) /\ Shows(c, AfterOp(c, id)) /\ up' = up
    BY <1>6 DEF ClientHears
  <2> HIDE DEF id
  <2>2. QED
    BY <1>1, <1>2, <1>3, <1>4, <2>1, ForeignApplies, OldStep
<1>7. CASE ~foreign \/ c \notin onstar
  <2>1. ops' = ops /\ done' = done /\ slider' = slider /\ up' = up
    BY <1>7 DEF ClientHears
  <2>2. QED
    BY <1>1, <1>3, <1>4, <2>1, AllQuiet, OldStep
<1>8. QED
  BY <1>5, <1>6, <1>7

(* Connections come up, are left and are given up. *)
LEMMA ConnectionInv ==
  ASSUME CInv, NEW c \in Clients, Join(c) \/ Leave(c) \/ LeaderLoses(c)
  PROVE  CInv'
<1>1. ops' = ops /\ clock' = clock /\ done' = done /\ slider' = slider
  BY DEF Join, Leave, LeaderLoses
<1>2. /\ up \in [Clients -> Seq(Made)] /\ late \in [Clients -> Seq(Made)]
      /\ down \in [Clients -> Seq(Made)]
  BY DEF CInv, CType
<1>3. <<>> \in Seq(Made) /\ late[c] \o up[c] \in Seq(Made)
  BY <1>2, ConcatProperties
<1>4. /\ up' \in [Clients -> Seq(Made)] /\ late' \in [Clients -> Seq(Made)]
      /\ down' \in [Clients -> Seq(Made)]
  <2>1. CASE Join(c)
    BY <1>2, <2>1 DEF Join
  <2>2. CASE Leave(c)
    BY <1>2, <1>3, <2>2 DEF Leave
  <2>3. CASE LeaderLoses(c)
    BY <1>2, <1>3, <2>3 DEF LeaderLoses
  <2>4. QED
    BY <2>1, <2>2, <2>3
<1>5. QED
  BY <1>1, <1>4, AllQuiet, OldStep

(* No step breaks the invariant. *)
LEMMA NextCInv == ASSUME CInv, [Next]_vars PROVE CInv'
<1>1. CASE UNCHANGED vars
  <2>1. /\ ops' = ops /\ clock' = clock /\ done' = done /\ slider' = slider
        /\ up' = up /\ down' = down /\ late' = late
    BY <1>1 DEF vars
  <2>2. /\ up' \in [Clients -> Seq(Made)] /\ late' \in [Clients -> Seq(Made)]
        /\ down' \in [Clients -> Seq(Made)]
    BY <2>1 DEF CInv, CType
  <2>3. QED
    BY <2>1, <2>2, AllQuiet, OldStep
<1>2. ASSUME NEW p \in Procs, Edit(p) \/ Drag(p) PROVE CInv'
  BY <1>2, EditInv, DragInv
<1>3. ASSUME NEW p \in Procs, NEW line \in Lines, Commit(p, line) PROVE CInv'
  BY <1>3, CommitInv
<1>4. ASSUME NEW c \in Clients,
             \/ ClientHears(c) \/ LeaderReads(c) \/ LeaderReadsLate(c)
             \/ LeaderLoses(c) \/ Join(c) \/ Leave(c)
      PROVE  CInv'
  BY <1>4, ClientHearsInv, LeaderReadsInv, LeaderReadsLateInv, ConnectionInv
<1>5. QED
  BY <1>1, <1>2, <1>3, <1>4 DEF Next

(* In every run of every star of consoles the invariant holds. *)
THEOREM SpecCInv == Spec => []CInv
<1>1. Init => CInv
  BY InitCInv
<1>2. CInv /\ [Next]_vars => CInv'
  BY NextCInv
<1>3. QED
  BY <1>1, <1>2, PTL DEF Spec

(* Consoles that have applied the same deltas have kept the same version   *)
(* of the colour, for every number of consoles and drags, every order and  *)
(* loss of deltas and all clocks; a colour can differ only where a drag    *)
(* came with an older stamp (widget_color.c:80-89, 118-135).               *)
THEOREM VersionsAgree == Spec => []ColoursAgree
<1>1. CInv => ColoursAgree
  BY ShownAgree
<1>2. QED
  BY <1>1, SpecCInv, PTL

-----------------------------------------------------------------------------
(* What is in a sink *)

(* Sinks whose windows are within their bounds and hold operations of S.   *)
Sinks(S) ==
  {s \in [pending : Seq(S), applied : Seq(S)] :
     Len(s.pending) <= PendingMax /\ Len(s.applied) <= AppliedMax}

(* What is in a sequence, and in two. *)
LEMMA ElemsType ==
  ASSUME NEW S, NEW q \in Seq(S)
  PROVE  /\ Elems(q) \subseteq S /\ q \in Seq(Elems(q))
         /\ \A x : x \in Elems(q) <=> \E i \in 1 .. Len(q) : q[i] = x
<1>1. DOMAIN q = 1 .. Len(q) /\ q \in [1 .. Len(q) -> S] /\ Len(q) \in Nat
  BY LenProperties
<1>2. q \in [1 .. Len(q) -> Elems(q)]
  BY <1>1 DEF Elems
<1>3. q \in Seq(Elems(q))
  BY <1>1, <1>2, SeqDef
<1>4. QED
  BY <1>1, <1>3 DEF Elems

(* What is at a place of a sequence is an element.                         *)
LEMMA ElemIn ==
  ASSUME NEW S, NEW q \in Seq(S), NEW i \in 1 .. Len(q)
  PROVE  q[i] \in Elems(q)
  BY ElemsType

(* Two sequences together have the elements of both.                       *)
LEMMA ElemsConcat ==
  ASSUME NEW S, NEW q \in Seq(S), NEW t \in Seq(S)
  PROVE  Elems(q \o t) = Elems(q) \cup Elems(t)
<1> DEFINE r == q \o t
<1>1. /\ r \in Seq(S) /\ Len(r) = Len(q) + Len(t) /\ Len(q) \in Nat /\ Len(t) \in Nat
      /\ \A i \in 1 .. Len(q) : r[i] = q[i]
      /\ \A i \in 1 .. Len(t) : r[Len(q) + i] = t[i]
  BY ConcatProperties, LenProperties
<1> HIDE DEF r
<1>2. ASSUME NEW x \in Elems(r) PROVE x \in Elems(q) \cup Elems(t)
  <2>1. PICK i \in 1 .. Len(r) : r[i] = x
    BY <1>1, ElemsType
  <2>2. CASE i <= Len(q)
    <3>1. i \in 1 .. Len(q)
      BY <1>1, <2>2
    <3>2. r[i] = q[i] /\ q[i] \in Elems(q)
      BY <1>1, <3>1, ElemIn
    <3>3. QED
      BY <2>1, <3>2
  <2>3. CASE i > Len(q)
    <3>1. i - Len(q) \in 1 .. Len(t) /\ i = Len(q) + (i - Len(q))
      BY <1>1, <2>3
    <3>2. t[i - Len(q)] \in Elems(t)
      BY <3>1, ElemIn
    <3>3. QED
      BY <1>1, <2>1, <3>1, <3>2
  <2>4. QED
    BY <1>1, <2>2, <2>3
<1>3. ASSUME NEW x \in Elems(q) PROVE x \in Elems(r)
  <2>1. PICK i \in 1 .. Len(q) : q[i] = x
    BY ElemsType
  <2>2. i \in 1 .. Len(r)
    BY <1>1
  <2>3. QED
    BY <1>1, <2>1, <2>2, ElemsType
<1>4. ASSUME NEW x \in Elems(t) PROVE x \in Elems(r)
  <2>1. PICK i \in 1 .. Len(t) : t[i] = x
    BY ElemsType
  <2>2. Len(q) + i \in 1 .. Len(r) /\ r[Len(q) + i] = x
    BY <1>1, <2>1
  <2>3. QED
    BY <1>1, <2>2, ElemsType
<1>5. QED
  BY <1>2, <1>3, <1>4 DEF r

(* A push adds one operation; unless it fills the window it drops none. *)
LEMMA PushType ==
  ASSUME NEW S, NEW w \in Seq(S), NEW max \in Nat \ {0}, NEW id \in S
  PROVE  /\ Push(w, max, id) \in Seq(S)
         /\ Len(w) <= max => Len(Push(w, max, id)) <= max
         /\ Len(w) < max => Push(w, max, id) = Append(w, id)
         /\ Len(Push(w, max, id)) < max => Len(w) < max
<1>1. Len(w) \in Nat
  BY LenProperties
<1>2. CASE Len(w) < max
  BY <1>1, <1>2, AppendProperties DEF Push
<1>3. CASE ~(Len(w) < max)
  <2>1. w # <<>>
    BY <1>1, <1>3
  <2>2. Tail(w) \in Seq(S) /\ Len(Tail(w)) = Len(w) - 1
    BY <2>1, HeadTailProperties
  <2>3. Push(w, max, id) = Append(Tail(w), id)
    BY <1>3 DEF Push
  <2>4. Push(w, max, id) \in Seq(S) /\ Len(Push(w, max, id)) = Len(w)
    BY <1>1, <2>2, <2>3, AppendProperties
  <2>5. QED
    BY <1>3, <2>4
<1>4. QED
  BY <1>2, <1>3

(* What is taken out of the pending window. *)
LEMMA PendingDelType ==
  ASSUME NEW S, NEW s \in Sinks(S), NEW id \in Elems(s.pending)
  PROVE  /\ PendingDel(s, id) \in Sinks(S)
         /\ PendingDel(s, id).applied = s.applied
         /\ Elems(s.pending) \ {id} \subseteq Elems(PendingDel(s, id).pending)
         /\ Len(PendingDel(s, id).pending) = Len(s.pending) - 1
<1> DEFINE w == s.pending
           P(i) == w[i] = id /\ \A j \in 1 .. i - 1 : w[j] # id
           i == CHOOSE i \in DOMAIN w : P(i)
           r == SubSeq(w, 1, i - 1) \o SubSeq(w, i + 1, Len(w))
<1>1. w \in Seq(S) /\ Len(w) \in Nat /\ DOMAIN w = 1 .. Len(w)
  BY LenProperties DEF Sinks
<1>2. \E m \in DOMAIN w : P(m)
  <2> DEFINE T == {m \in 1 .. Len(w) : w[m] = id}
  <2>1. T # {} /\ T \in SUBSET Nat
    BY <1>1, ElemsType
  <2>2. PICK m \in T : \A x \in T : m <= x
    BY <2>1, NatMin
  <2>3. ASSUME NEW j \in 1 .. m - 1 PROVE w[j] # id
    <3>1. j \in 1 .. Len(w) /\ ~(m <= j)
      BY <1>1, <2>2
    <3>2. QED
      BY <2>2, <3>1
  <2>4. QED
    BY <1>1, <2>2, <2>3
<1>3. i \in 1 .. Len(w) /\ w[i] = id
  BY <1>1, <1>2
<1>4. PendingDel(s, id) = [s EXCEPT !.pending = r]
  BY DEF PendingDel
<1> HIDE DEF i
<1>5. /\ SubSeq(w, 1, i - 1) \in Seq(S) /\ Len(SubSeq(w, 1, i - 1)) = i - 1
      /\ \A j \in 1 .. i - 1 : SubSeq(w, 1, i - 1)[j] = w[j]
      /\ SubSeq(w, i + 1, Len(w)) \in Seq(S)
      /\ Len(SubSeq(w, i + 1, Len(w))) = Len(w) - i
      /\ \A j \in 1 .. Len(w) - i : SubSeq(w, i + 1, Len(w))[j] = w[i + j]
  <2> DEFINE a == SubSeq(w, 1, i - 1)
             b == SubSeq(w, i + 1, Len(w))
  <2>1. /\ 1 \in Int /\ i - 1 \in Int /\ i + 1 \in Int /\ Len(w) \in Int /\ i \in Nat
        /\ \A j \in 1 .. i - 1 : w[j] \in S
        /\ \A j \in i + 1 .. Len(w) : w[j] \in S
    BY <1>1, <1>3
  <2>2. /\ a \in Seq(S) /\ Len(a) = IF 1 <= i - 1 THEN i - 1 - 1 + 1 ELSE 0
        /\ \A j \in 1 .. i - 1 - 1 + 1 : a[j] = w[1 + j - 1]
    BY <2>1, SubSeqProperties
  <2>3. /\ b \in Seq(S) /\ Len(b) = IF i + 1 <= Len(w) THEN Len(w) - (i + 1) + 1 ELSE 0
        /\ \A j \in 1 .. Len(w) - (i + 1) + 1 : b[j] = w[i + 1 + j - 1]
    BY <2>1, SubSeqProperties
  <2> HIDE DEF a, b
  <2>4. i \in 1 .. Len(w)
    BY <1>3
  <2>5. Len(a) = i - 1 /\ \A j \in 1 .. i - 1 : a[j] = w[j]
    BY <2>1, <2>2, <2>4
  <2>6. Len(b) = Len(w) - i /\ \A j \in 1 .. Len(w) - i : b[j] = w[i + j]
    <3>1. Len(w) - (i + 1) + 1 = Len(w) - i
      BY <2>1
    <3>2. \A j \in 1 .. Len(w) - i : i + 1 + j - 1 = i + j
      BY <2>1
    <3>3. QED
      BY <2>1, <2>3, <2>4, <3>1, <3>2
  <2>7. QED
    BY <2>2, <2>3, <2>5, <2>6, Zenon DEF a, b
<1>6. r \in Seq(S) /\ Len(r) = Len(w) - 1
  <2> DEFINE a == SubSeq(w, 1, i - 1)
             b == SubSeq(w, i + 1, Len(w))
  <2>1. a \in Seq(S) /\ b \in Seq(S) /\ Len(a) = i - 1 /\ Len(b) = Len(w) - i
    BY <1>5
  <2> HIDE DEF a, b
  <2>2. a \o b \in Seq(S) /\ Len(a \o b) = Len(a) + Len(b)
    BY <2>1, ConcatProperties
  <2>3. (i - 1) + (Len(w) - i) = Len(w) - 1
    BY <1>1, <1>3
  <2>4. QED
    BY <2>1, <2>2, <2>3 DEF a, b
<1>7. ASSUME NEW x \in Elems(w), x # id PROVE x \in Elems(r)
  <2>1. Elems(r) = Elems(SubSeq(w, 1, i - 1)) \cup Elems(SubSeq(w, i + 1, Len(w)))
    BY <1>5, ElemsConcat
  <2>2. PICK m \in 1 .. Len(w) : w[m] = x
    BY <1>1, ElemsType
  <2>3. CASE m < i
    <3>1. m \in 1 .. i - 1
      BY <1>1, <1>3, <2>3
    <3>2. x \in Elems(SubSeq(w, 1, i - 1))
      <4>1. m \in 1 .. Len(SubSeq(w, 1, i - 1))
        BY <1>5, <3>1
      <4>2. QED
        BY <1>5, <2>2, <3>1, <4>1, ElemIn
    <3>3. QED
      BY <2>1, <3>2
  <2>4. CASE m > i
    <3>1. m - i \in 1 .. Len(w) - i /\ i + (m - i) = m
      BY <1>1, <1>3, <2>4
    <3>2. x \in Elems(SubSeq(w, i + 1, Len(w)))
      <4>1. m - i \in 1 .. Len(SubSeq(w, i + 1, Len(w)))
        BY <1>5, <3>1
      <4>2. QED
        BY <1>5, <2>2, <3>1, <4>1, ElemIn
    <3>3. QED
      BY <2>1, <3>2
  <2>5. QED
    BY <1>1, <1>3, <1>7, <2>2, <2>3, <2>4
<1> HIDE DEF r
<1>8. Len(r) <= PendingMax /\ Len(w) - 1 \in Int
  <2>1. Len(w) <= PendingMax /\ PendingMax \in Nat
    BY ConsoleAssumption DEF Sinks
  <2>2. QED
    BY <1>1, <1>6, <2>1
<1>9. PendingDel(s, id) \in Sinks(S) /\ PendingDel(s, id).applied = s.applied
      /\ PendingDel(s, id).pending = r
  BY <1>4, <1>6, <1>8 DEF Sinks
<1>10. QED
  BY <1>6, <1>7, <1>9

(* What is appended is in the sequence. *)
LEMMA ElemsAppend ==
  ASSUME NEW S, NEW q \in Seq(S), NEW x \in S
  PROVE  Append(q, x) \in Seq(S) /\ Elems(Append(q, x)) = Elems(q) \cup {x}
<1>1. <<x>> \in Seq(S) /\ Len(<<x>>) = 1 /\ <<x>>[1] = x
  OBVIOUS
<1>2. Elems(<<x>>) = {x}
  <2>1. \A y : y \in Elems(<<x>>) <=> \E i \in 1 .. 1 : <<x>>[i] = y
    BY <1>1, ElemsType
  <2>2. QED
    BY <1>1, <2>1
<1>3. Append(q, x) = q \o <<x>>
  BY AppendIsConcat
<1>4. Elems(q \o <<x>>) = Elems(q) \cup Elems(<<x>>)
  BY <1>1, ElemsConcat
<1>5. Append(q, x) \in Seq(S)
  BY AppendProperties
<1>6. QED
  BY <1>2, <1>3, <1>4, <1>5

(* An operation that is published waits for its confirmation. *)
LEMMA PendingAddType ==
  ASSUME NEW S, NEW s \in Sinks(S), NEW id \in S
  PROVE  /\ PendingAdd(s, id) \in Sinks(S)
         /\ PendingAdd(s, id).applied = s.applied
         /\ Len(s.pending) < PendingMax =>
              /\ Len(PendingAdd(s, id).pending) = Len(s.pending) + 1
              /\ Elems(PendingAdd(s, id).pending) = Elems(s.pending) \cup {id}
         /\ Len(PendingAdd(s, id).pending) < PendingMax => Len(s.pending) < PendingMax
<1> DEFINE w == s.pending
           r == Push(w, PendingMax, id)
<1>1. w \in Seq(S) /\ Len(w) \in Nat /\ PendingMax \in Nat \ {0}
  BY ConsoleAssumption, LenProperties DEF Sinks
<1>2. PendingAdd(s, id) = [s EXCEPT !.pending = r]
  BY DEF PendingAdd
<1>3. /\ r \in Seq(S)
      /\ Len(w) < PendingMax => r = Append(w, id)
      /\ Len(r) < PendingMax => Len(w) < PendingMax
      /\ Len(r) <= PendingMax
  <2>1. Len(w) <= PendingMax
    BY DEF Sinks
  <2> HIDE DEF w
  <2>2. QED
    BY <1>1, <2>1, PushType
<1>4. Len(Append(w, id)) = Len(w) + 1 /\ Elems(Append(w, id)) = Elems(w) \cup {id}
  BY <1>1, ElemsAppend, AppendProperties
<1> HIDE DEF r
<1>5. PendingAdd(s, id) \in Sinks(S) /\ PendingAdd(s, id).applied = s.applied
      /\ PendingAdd(s, id).pending = r
  BY <1>2, <1>3 DEF Sinks
<1>6. QED
  BY <1>3, <1>4, <1>5

(* An operation that is applied is remembered. *)
LEMMA AppliedAddType ==
  ASSUME NEW S, NEW s \in Sinks(S), NEW id \in S
  PROVE  AppliedAdd(s, id) \in Sinks(S) /\ AppliedAdd(s, id).pending = s.pending
<1> DEFINE r == Push(s.applied, AppliedMax, id)
<1>1. s.applied \in Seq(S) /\ AppliedMax \in Nat \ {0}
  BY ConsoleAssumption DEF Sinks
<1>2. AppliedAdd(s, id) = [s EXCEPT !.applied = r]
  BY DEF AppliedAdd
<1>3. r \in Seq(S) /\ Len(r) <= AppliedMax
  <2>1. Len(s.applied) <= AppliedMax
    BY DEF Sinks
  <2>2. QED
    BY <1>1, <2>1, PushType
<1> HIDE DEF r
<1>4. QED
  BY <1>2, <1>3 DEF Sinks

(* A confirmation ends one speculation and no other. *)
LEMMA SettledType ==
  ASSUME NEW S, NEW s \in Sinks(S), NEW id \in S
  PROVE  /\ Settled(s, id) \in Sinks(S)
         /\ Elems(s.pending) \ {id} \subseteq Elems(Settled(s, id).pending)
         /\ Len(Settled(s, id).pending) <= Len(s.pending)
         /\ id \in Elems(s.pending) /\ id \notin Elems(s.applied) =>
              Len(Settled(s, id).pending) = Len(s.pending) - 1
<1>1. Len(s.pending) \in Nat
  BY LenProperties DEF Sinks
<1>2. CASE id \in Elems(s.applied)
  BY <1>1, <1>2 DEF Settled
<1>3. CASE id \notin Elems(s.applied) /\ id \in Elems(s.pending)
  <2> DEFINE d == PendingDel(s, id)
  <2>1. d \in Sinks(S) /\ Elems(s.pending) \ {id} \subseteq Elems(d.pending)
        /\ Len(d.pending) = Len(s.pending) - 1
    BY <1>3, PendingDelType
  <2>2. Settled(s, id) = AppliedAdd(d, id)
    BY <1>3 DEF Settled
  <2> HIDE DEF d
  <2>3. AppliedAdd(d, id) \in Sinks(S) /\ AppliedAdd(d, id).pending = d.pending
    BY <2>1, AppliedAddType
  <2>4. QED
    BY <1>1, <2>1, <2>2, <2>3
<1>4. CASE id \notin Elems(s.applied) /\ id \notin Elems(s.pending)
  <2>1. Settled(s, id) = AppliedAdd(s, id)
    BY <1>4 DEF Settled
  <2>2. AppliedAdd(s, id) \in Sinks(S) /\ AppliedAdd(s, id).pending = s.pending
    BY AppliedAddType
  <2>3. QED
    BY <1>1, <1>4, <2>1, <2>2
<1>5. QED
  BY <1>2, <1>3, <1>4

(* Speculation with operations ids is counted up, one operation a time. *)
LEMMA SpeculatedUp ==
  ASSUME NEW S, NEW s \in Sinks(S), NEW ids \in Seq(S)
  PROVE  \E f : /\ f[0] = s
                /\ \A i \in 1 .. Len(ids) : f[i] = PendingAdd(f[i - 1], ids[i])
                /\ Speculated(s, ids) = f[Len(ids)]
<1> DEFINE n == Len(ids)
           g == [i \in 1 .. n |-> [a \in Sinks(S) |-> PendingAdd(a, ids[i])]]
           Up(f) == [i \in 0 .. n |-> IF i = 0 THEN s ELSE PendingAdd(f[i - 1], ids[i])]
           h == CHOOSE f : f = Up(f)
<1>1. n \in Nat /\ \A i \in 1 .. n : ids[i] \in S
  BY LenProperties
<1>2. g \in Steps(n, Sinks(S))
  BY <1>1, PendingAddType DEF Steps
<1>3. \A i \in 1 .. n, a \in Sinks(S) : g[i][a] = PendingAdd(a, ids[i])
  OBVIOUS
<1> HIDE DEF g
<1>4. PICK f : Counts(f, n, Sinks(S), s, g)
  BY <1>1, <1>2, CountedUp
<1>5. \A i \in 1 .. n : f[i] = PendingAdd(f[i - 1], ids[i])
  <2>1. \A i \in 1 .. n : f[i - 1] \in Sinks(S)
    BY <1>4 DEF Counts
  <2>2. QED
    BY <1>3, <1>4, <2>1 DEF Counts
<1>6. f = Up(f)
  <2>1. ASSUME NEW i \in 0 .. n PROVE f[i] = IF i = 0 THEN s ELSE PendingAdd(f[i - 1], ids[i])
    BY <1>4, <1>5 DEF Counts
  <2>2. QED
    BY <1>4, <2>1 DEF Counts
<1>7. h = Up(h)
  BY <1>6
<1>8. Speculated(s, ids) = h[n]
  BY DEF Speculated
<1> HIDE DEF h
<1>9. h[0] = s /\ \A i \in 1 .. n : h[i] = PendingAdd(h[i - 1], ids[i])
  BY <1>1, <1>7
<1>10. QED
  BY <1>8, <1>9

(* So are publications that are confirmed at once. *)
ConfirmedBy(f, s, ids) ==
  /\ f[0] = s
  /\ \A i \in 1 .. Len(ids) : f[i] = Settled(PendingAdd(f[i - 1], ids[i]), ids[i])
  /\ Confirmed(s, ids) = f[Len(ids)]

(* There are the sinks between one confirmation and the next.              *)
LEMMA ConfirmedUp ==
  ASSUME NEW S, NEW s \in Sinks(S), NEW ids \in Seq(S)
  PROVE  \E f : ConfirmedBy(f, s, ids)
<1> DEFINE n == Len(ids)
           g == [i \in 1 .. n |-> [a \in Sinks(S) |-> Settled(PendingAdd(a, ids[i]), ids[i])]]
           Up(f) == [i \in 0 .. n |-> IF i = 0 THEN s ELSE Settled(PendingAdd(f[i - 1], ids[i]), ids[i])]
           h == CHOOSE f : f = Up(f)
<1>1. n \in Nat /\ \A i \in 1 .. n : ids[i] \in S
  BY LenProperties
<1>2. g \in Steps(n, Sinks(S))
  BY <1>1, PendingAddType, SettledType DEF Steps
<1>3. \A i \in 1 .. n, a \in Sinks(S) : g[i][a] = Settled(PendingAdd(a, ids[i]), ids[i])
  OBVIOUS
<1> HIDE DEF g
<1>4. PICK f : Counts(f, n, Sinks(S), s, g)
  BY <1>1, <1>2, CountedUp
<1>5. \A i \in 1 .. n : f[i] = Settled(PendingAdd(f[i - 1], ids[i]), ids[i])
  <2>1. \A i \in 1 .. n : f[i - 1] \in Sinks(S)
    BY <1>4 DEF Counts
  <2>2. QED
    BY <1>3, <1>4, <2>1 DEF Counts
<1>6. f = Up(f)
  <2>1. ASSUME NEW i \in 0 .. n PROVE f[i] = IF i = 0 THEN s ELSE Settled(PendingAdd(f[i - 1], ids[i]), ids[i])
    BY <1>4, <1>5 DEF Counts
  <2>2. QED
    BY <1>4, <2>1 DEF Counts
<1>7. h = Up(h)
  BY <1>6
<1>8. Confirmed(s, ids) = h[n]
  BY DEF Confirmed
<1> HIDE DEF h
<1>9. h[0] = s /\ \A i \in 1 .. n : h[i] = Settled(PendingAdd(h[i - 1], ids[i]), ids[i])
  BY <1>1, <1>7
<1>10. QED
  BY <1>8, <1>9 DEF ConfirmedBy

(* Speculation keeps to the operations there are, and while the window has *)
(* room all of them are pending.                                           *)
LEMMA SpeculatedType ==
  ASSUME NEW S, NEW s \in Sinks(S), NEW ids \in Seq(S)
  PROVE  /\ Speculated(s, ids) \in Sinks(S)
         /\ Len(Speculated(s, ids).pending) < PendingMax =>
              Elems(s.pending) \cup Elems(ids) \subseteq Elems(Speculated(s, ids).pending)
<1> DEFINE n == Len(ids)
<1>1. n \in Nat /\ \A i \in 1 .. n : ids[i] \in S
  BY LenProperties
<1>2. PICK f : /\ f[0] = s
               /\ \A i \in 1 .. n : f[i] = PendingAdd(f[i - 1], ids[i])
               /\ Speculated(s, ids) = f[n]
  BY SpeculatedUp
<1> HIDE DEF n
<1> DEFINE Holds(i) ==
      /\ f[i] \in Sinks(S)
      /\ Len(f[i].pending) < PendingMax =>
           /\ Elems(s.pending) \subseteq Elems(f[i].pending)
           /\ \A j \in 1 .. i : ids[j] \in Elems(f[i].pending)
    T == {i \in 0 .. n : Holds(i)}
<1>3. \A i : i \in T <=> i \in 0 .. n /\ Holds(i)
  OBVIOUS
<1> HIDE DEF T
<1>4. 0 \in T
  BY <1>1, <1>2, <1>3
<1>5. ASSUME NEW i \in 1 .. n, i - 1 \in T PROVE i \in T
  <2> DEFINE a == f[i - 1]
             b == f[i]
  <2>1. a \in Sinks(S) /\ b = PendingAdd(a, ids[i]) /\ ids[i] \in S /\ Holds(i - 1)
    BY <1>1, <1>2, <1>3, <1>5
  <2>2. /\ b \in Sinks(S)
        /\ Len(a.pending) < PendingMax =>
             Elems(b.pending) = Elems(a.pending) \cup {ids[i]}
        /\ Len(b.pending) < PendingMax => Len(a.pending) < PendingMax
    <3> DEFINE x == ids[i]
    <3>1. a \in Sinks(S) /\ b = PendingAdd(a, x) /\ x \in S
      BY <2>1
    <3> HIDE DEF a, b, x
    <3>2. /\ PendingAdd(a, x) \in Sinks(S)
          /\ Len(a.pending) < PendingMax =>
               Elems(PendingAdd(a, x).pending) = Elems(a.pending) \cup {x}
          /\ Len(PendingAdd(a, x).pending) < PendingMax => Len(a.pending) < PendingMax
      BY <3>1, PendingAddType
    <3>3. QED
      BY <3>1, <3>2 DEF x
  <2>3. ASSUME Len(b.pending) < PendingMax
        PROVE  /\ Elems(s.pending) \subseteq Elems(b.pending)
               /\ \A j \in 1 .. i : ids[j] \in Elems(b.pending)
    <3>1. /\ Elems(s.pending) \subseteq Elems(a.pending)
          /\ \A j \in 1 .. i - 1 : ids[j] \in Elems(a.pending)
          /\ Elems(b.pending) = Elems(a.pending) \cup {ids[i]}
      BY <2>1, <2>2, <2>3
    <3>2. \A j \in 1 .. i : j \in 1 .. i - 1 \/ j = i
      BY <1>1
    <3>3. QED
      BY <3>1, <3>2
  <2>4. Holds(i)
    BY <2>2, <2>3
  <2> HIDE DEF Holds
  <2>5. i \in 0 .. n
    BY <1>1
  <2>6. QED
    BY <1>3, <2>4, <2>5
<1> HIDE DEF Holds
<1>6. \A i \in 1 .. n : i - 1 \in T => i \in T
  BY <1>5
<1>7. \A i \in 0 .. n : i \in T
  BY <1>1, <1>4, <1>6, Climbs
<1>8. Holds(n)
  BY <1>1, <1>3, <1>7
<1>9. f[n] \in Sinks(S)
  BY <1>8 DEF Holds
<1>10. ASSUME Len(f[n].pending) < PendingMax
       PROVE  Elems(s.pending) \cup Elems(ids) \subseteq Elems(f[n].pending)
  <2>1. /\ Elems(s.pending) \subseteq Elems(f[n].pending)
        /\ \A j \in 1 .. n : ids[j] \in Elems(f[n].pending)
    BY <1>8, <1>10 DEF Holds
  <2>2. \A x \in Elems(ids) : \E j \in 1 .. n : ids[j] = x
    BY ElemsType DEF n
  <2>3. QED
    BY <2>1, <2>2
<1>11. QED
  BY <1>2, <1>9, <1>10

(* What is confirmed at once keeps to the operations there are, *)
LEMMA ConfirmedType ==
  ASSUME NEW S, NEW s \in Sinks(S), NEW ids \in Seq(S)
  PROVE  Confirmed(s, ids) \in Sinks(S)
<1> DEFINE n == Len(ids)
<1>1. n \in Nat /\ \A i \in 1 .. n : ids[i] \in S
  BY LenProperties
<1>2. PICK f : /\ f[0] = s
               /\ \A i \in 1 .. n : f[i] = Settled(PendingAdd(f[i - 1], ids[i]), ids[i])
               /\ Confirmed(s, ids) = f[n]
  BY ConfirmedUp DEF ConfirmedBy
<1> HIDE DEF n
<1> DEFINE T == {i \in 0 .. n : f[i] \in Sinks(S)}
<1>3. 0 \in T
  BY <1>1, <1>2
<1>4. ASSUME NEW i \in 1 .. n, i - 1 \in T PROVE i \in T
  <2>1. f[i - 1] \in Sinks(S) /\ ids[i] \in S
    BY <1>1, <1>4
  <2>2. PendingAdd(f[i - 1], ids[i]) \in Sinks(S)
    BY <2>1, PendingAddType
  <2>3. f[i] \in Sinks(S)
    BY <1>2, <2>1, <2>2, SettledType
  <2>4. QED
    BY <1>1, <2>3
<1>5. \A i \in 1 .. n : i - 1 \in T => i \in T
  BY <1>4
<1> HIDE DEF T
<1>6. \A i \in 0 .. n : i \in T
  BY <1>1, <1>3, <1>5, Climbs
<1>7. QED
  BY <1>1, <1>2, <1>6 DEF T

(* and new operations that are push nothing out while the window has room. *)
LEMMA ConfirmedKeeps ==
  ASSUME NEW m \in Nat, NEW s \in Sinks(1 .. m), NEW ids,
         NEW k \in Nat, ids = [i \in 1 .. k |-> m + i],
         Len(s.pending) < PendingMax
  PROVE  Elems(s.pending) \subseteq Elems(Confirmed(s, ids).pending)
<1>1. /\ ids \in Seq(1 .. m + k) /\ Len(ids) = k
      /\ \A i \in 1 .. k : ids[i] = m + i
  <2>1. ids \in [1 .. k -> 1 .. m + k]
    OBVIOUS
  <2>2. ids \in Seq(1 .. m + k)
    BY <2>1, SeqDef
  <2>3. QED
    BY <2>1, <2>2, LenProperties
<1>2. \A i, j \in Nat : i <= j => Sinks(1 .. i) \subseteq Sinks(1 .. j)
  BY SeqMonotonic DEF Sinks
<1>3. s \in Sinks(1 .. m + k)
  BY <1>2
<1>4. PICK f : /\ f[0] = s
               /\ \A i \in 1 .. k : f[i] = Settled(PendingAdd(f[i - 1], ids[i]), ids[i])
               /\ Confirmed(s, ids) = f[k]
  <2> DEFINE V == 1 .. m + k
  <2>1. s \in Sinks(V) /\ ids \in Seq(V)
    BY <1>1, <1>3
  <2> HIDE DEF V
  <2>2. \E f : ConfirmedBy(f, s, ids)
    BY <2>1, ConfirmedUp
  <2>3. QED
    BY <1>1, <2>2 DEF ConfirmedBy
<1> DEFINE Holds(i) ==
      /\ f[i] \in Sinks(1 .. m + i)
      /\ Len(f[i].pending) < PendingMax
      /\ Elems(s.pending) \subseteq Elems(f[i].pending)
    T == {i \in 0 .. k : Holds(i)}
<1>5. \A i : i \in T <=> i \in 0 .. k /\ Holds(i)
  OBVIOUS
<1> HIDE DEF T
<1>6. 0 \in T
  BY <1>4, <1>5
<1>7. ASSUME NEW i \in 1 .. k, i - 1 \in T PROVE i \in T
  <2> DEFINE a == f[i - 1]
             id == ids[i]
             b == PendingAdd(a, id)
             c == Settled(b, id)
  <2>1. a \in Sinks(1 .. m + (i - 1)) /\ Holds(i - 1)
    BY <1>5, <1>7
  <2>2. id = m + i /\ id \in 1 .. m + i
    BY <1>1
  <2>3. a \in Sinks(1 .. m + i)
    BY <1>2, <2>1
  <2>4. Elems(a.pending) \subseteq 1 .. m + (i - 1) /\ Elems(a.applied) \subseteq 1 .. m + (i - 1)
    BY <2>1, ElemsType DEF Sinks
  <2>5. id \notin Elems(a.pending) /\ id \notin Elems(a.applied)
    BY <2>2, <2>4
  <2>6. Len(a.pending) < PendingMax /\ Elems(s.pending) \subseteq Elems(a.pending)
    BY <2>1
  <2> DEFINE V == 1 .. m + i
  <2>a. a \in Sinks(V) /\ id \in V
    BY <2>2, <2>3
  <2> HIDE DEF a, id, V
  <2>7. /\ b \in Sinks(V) /\ b.applied = a.applied
        /\ Len(b.pending) = Len(a.pending) + 1
        /\ Elems(b.pending) = Elems(a.pending) \cup {id}
    BY <2>a, <2>6, PendingAddType
  <2> HIDE DEF b
  <2>b. id \in Elems(b.pending) /\ id \notin Elems(b.applied)
    BY <2>5, <2>7
  <2>8. /\ c \in Sinks(V)
        /\ Elems(b.pending) \ {id} \subseteq Elems(c.pending)
        /\ Len(c.pending) = Len(b.pending) - 1
    BY <2>a, <2>b, <2>7, SettledType
  <2> HIDE DEF c
  <2>9. Len(a.pending) \in Nat
    BY <2>a, LenProperties DEF Sinks
  <2>10. Len(c.pending) < PendingMax /\ Elems(s.pending) \subseteq Elems(c.pending)
    BY <2>5, <2>6, <2>7, <2>8, <2>9
  <2>11. f[i] = c
    BY <1>4 DEF a, b, c, id
  <2>12. Holds(i)
    BY <2>8, <2>10, <2>11 DEF V
  <2> HIDE DEF Holds
  <2>13. QED
    BY <1>5, <2>12
<1> HIDE DEF Holds
<1>8. \A i \in 1 .. k : i - 1 \in T => i \in T
  BY <1>7
<1>9. \A i \in 0 .. k : i \in T
  BY <1>6, <1>8, Climbs
<1>10. Holds(k)
  BY <1>5, <1>9
<1>11. QED
  BY <1>4, <1>10 DEF Holds

-----------------------------------------------------------------------------
(* Everything is heard *)

(* A sink's windows hold operations that were applied at its console. *)
SinksKnow ==
  /\ sink \in [Procs -> Sinks(Nat)]
  /\ \A p \in Procs : sink[p] \in Sinks(done[p])

(* The cast, the places of the clients and the connections.                *)
HType ==
  /\ cast \in Seq(Nat)
  /\ from \in [Clients -> Nat]
  /\ joined \subseteq Clients
  /\ onstar \subseteq Clients

(* The invariant of what is heard.                                         *)
HInv == CInv /\ SinksKnow /\ HType /\ HearsAll

(* Sinks of fewer operations are sinks of more. *)
LEMMA SinksMonotonic ==
  ASSUME NEW S, NEW T, S \subseteq T
  PROVE  Sinks(S) \subseteq Sinks(T)
  BY SeqMonotonic DEF Sinks

(* A sink changes, and what is applied grows. *)
LEMMA SinkChanges ==
  ASSUME CType, SinksKnow, NEW p \in Procs, NEW s,
         sink' = [sink EXCEPT ![p] = s] \/ sink' = sink,
         \A q \in Procs : done'[q] \in SUBSET Nat /\ done[q] \subseteq done'[q],
         s \in Sinks(done'[p])
  PROVE  SinksKnow'
<1>1. \A q \in Procs : sink[q] \in Sinks(done'[q])
  BY SinksMonotonic DEF SinksKnow
<1>2. \A q \in Procs : sink'[q] \in Sinks(done'[q])
  BY <1>1 DEF SinksKnow
<1>3. s \in Sinks(Nat)
  BY SinksMonotonic
<1>4. sink' \in [Procs -> Sinks(Nat)]
  BY <1>3 DEF SinksKnow
<1>5. QED
  BY <1>2, <1>4 DEF SinksKnow

(* The operations x are cast, and everybody who listens hears them. *)
LEMMA HearsMore ==
  ASSUME HType, HearsAll, HType',
         NEW x \in Seq(Nat), cast' = cast \o x,
         Elems(x) \cup done[L] \subseteq done'[L],
         \A c \in joined' \cap onstar' :
           \/ from'[c] = Len(cast')
           \/ /\ c \in joined \cap onstar /\ from'[c] = from[c]
              /\ done[c] \cup Elems(down[c]) \cup Elems(x) \subseteq done'[c] \cup Elems(down'[c])
  PROVE  HearsAll'
<1>1. /\ Elems(cast') = Elems(cast) \cup Elems(x)
      /\ Len(cast) \in Nat /\ Len(x) \in Nat /\ Len(cast') = Len(cast) + Len(x)
      /\ \A i \in 1 .. Len(cast) : cast'[i] = cast[i]
      /\ \A i \in 1 .. Len(x) : cast'[Len(cast) + i] = x[i]
  BY ElemsConcat, ConcatProperties, LenProperties DEF HType
<1>2. Elems(cast') \subseteq done'[L]
  BY <1>1 DEF HearsAll
<1>3. ASSUME NEW c \in joined' \cap onstar', NEW i \in from'[c] + 1 .. Len(cast')
      PROVE  cast'[i] \in done'[c] \cup Elems(down'[c])
  <2>1. from'[c] \in Nat
    BY DEF HType
  <2>2. from'[c] # Len(cast')
    BY <1>1, <1>3, <2>1
  <2>3. /\ c \in joined \cap onstar /\ from'[c] = from[c]
        /\ done[c] \cup Elems(down[c]) \cup Elems(x) \subseteq done'[c] \cup Elems(down'[c])
    BY <2>2
  <2>4. CASE i <= Len(cast)
    <3>1. i \in from[c] + 1 .. Len(cast) /\ i \in 1 .. Len(cast)
      BY <1>1, <1>3, <2>1, <2>3, <2>4
    <3>2. cast[i] \in done[c] \cup Elems(down[c])
      BY <2>3, <3>1 DEF HearsAll
    <3>3. QED
      BY <1>1, <2>3, <3>1, <3>2
  <2>5. CASE i > Len(cast)
    <3>1. i - Len(cast) \in 1 .. Len(x) /\ i = Len(cast) + (i - Len(cast))
      BY <1>1, <1>3, <2>1, <2>5
    <3>2. cast'[i] = x[i - Len(cast)] /\ x[i - Len(cast)] \in Elems(x)
      BY <1>1, <3>1, ElemIn
    <3>3. QED
      BY <2>3, <3>2
  <2>6. i <= Len(cast) \/ i > Len(cast)
    <3>1. i \in Int
      BY <1>1, <2>1
    <3>2. QED
      BY <1>1, <3>1
  <2>7. QED
    BY <2>4, <2>5, <2>6
<1>4. QED
  BY <1>2, <1>3 DEF HearsAll

(* The numbers of the step's operations. *)
LEMMA NextIdsElems ==
  ASSUME NEW k \in Nat, Len(ops) \in Nat
  PROVE  /\ NextIds(k) \in Seq(Elements(k)) /\ NextIds(k) \in Seq(Nat)
         /\ Elems(NextIds(k)) = Elements(k)
         /\ Len(NextIds(k)) = k
         /\ Elements(k) \subseteq Nat
         /\ \A x \in Elements(k) : x \notin Made
<1>1. /\ NextIds(k) \in [1 .. k -> Elements(k)]
      /\ Elements(k) \subseteq Nat
      /\ \A i \in 1 .. k : NextIds(k)[i] = Len(ops) + i
  BY DEF NextIds, Elements
<1>2. NextIds(k) \in Seq(Elements(k)) /\ Len(NextIds(k)) = k
  <2>1. NextIds(k) \in Seq(Elements(k))
    BY <1>1, SeqDef
  <2>2. QED
    BY <1>1, <2>1, LenProperties
<1>3. NextIds(k) \in Seq(Nat)
  BY <1>1, <1>2, SeqMonotonic
<1>4. ASSUME NEW x \in Elements(k) PROVE x \in Elems(NextIds(k))
  <2>1. x - Len(ops) \in 1 .. k /\ Len(ops) + (x - Len(ops)) = x
    BY DEF Elements
  <2>2. NextIds(k)[x - Len(ops)] \in Elems(NextIds(k))
    BY <1>2, <2>1, ElemIn
  <2>3. QED
    BY <1>1, <2>1, <2>2
<1>5. Elems(NextIds(k)) \subseteq Elements(k)
  BY <1>2, ElemsType
<1>6. \A x \in Elements(k) : x \notin Made
  BY DEF Elements, Made
<1>7. QED
  BY <1>1, <1>2, <1>3, <1>4, <1>5, <1>6

(* A user makes k operations and publishes them. *)
Making(p, k) ==
  /\ Len(ops') = Len(ops) + k
  /\ Applies(p, Elements(k))
  /\ Publishes(p, NextIds(k))
  /\ UNCHANGED <<late, joined>>

(* Whatever users do, they make operations. *)
LEMMA UsersMake ==
  ASSUME CInv, NEW p \in Procs,
         Edit(p) \/ Drag(p) \/ \E line \in Lines : Commit(p, line)
  PROVE  \E k \in Nat : Making(p, k)
<1>1. ops \in Seq(Operation) /\ Len(ops) \in Nat
  BY LenProperties DEF CInv, CType
<1>2. CASE Edit(p)
  <2>1. Op(p, "edit") \in Operation
    BY DEF Op, Operation, Kinds
  <2>2. Len(ops') = Len(ops) + 1
    BY <1>1, <1>2, <2>1, AppendProperties DEF Edit
  <2>3. Making(p, 1)
    BY <1>2, <2>2 DEF Edit, Making
  <2>4. QED
    BY <2>3
<1>3. CASE Drag(p)
  <2>1. PICK h \in Ticks(p) : DragAt(p, h)
    BY <1>3 DEF Drag
  <2>2. Delta(p, h) \in Operation
    <3>1. h \in Nat
      BY DEF Ticks
    <3>2. QED
      BY <3>1 DEF Delta, Op, Operation, Kinds
  <2>3. ops' = Append(ops, Delta(p, h)) /\ Applies(p, {Len(ops) + 1})
        /\ Publishes(p, <<Len(ops) + 1>>) /\ UNCHANGED <<late, joined>>
    BY <2>1 DEF DragAt
  <2>4. Len(ops') = Len(ops) + 1
    BY <1>1, <2>2, <2>3, AppendProperties
  <2>5. NextIds(1) = <<Len(ops) + 1>> /\ Elements(1) = {Len(ops) + 1}
    BY <1>1 DEF NextIds, Elements
  <2>6. Making(p, 1)
    BY <2>3, <2>4, <2>5 DEF Making
  <2>7. QED
    BY <2>6
<1>4. CASE \E line \in Lines : Commit(p, line)
  <2>1. PICK line \in Lines : Commit(p, line)
    BY <1>4
  <2> DEFINE k == Answers(line)
             a == AnswersOf(p, line)
             x == Op(p, "prompt")
             y == Typed(p, line)
  <2>2. /\ ops' = ((ops \o <<x>>) \o a) \o <<y>>
        /\ Applies(p, Elements(k + 2)) /\ Publishes(p, NextIds(k + 2))
        /\ UNCHANGED <<late, joined>>
    BY <2>1 DEF Commit
  <2>3. k \in Nat /\ x \in Operation /\ y \in Operation /\ a \in Seq(Operation) /\ Len(a) = k
    <3>1. Answers(line) \in Nat
      BY ConsoleAssumption
    <3>2. Op(p, "prompt") \in Operation /\ Typed(p, line) \in Operation
      BY OpType
    <3>3. QED
      BY <3>1, <3>2, AnswersType
  <2> HIDE DEF k, a, x, y
  <2>4. <<x>> \in Seq(Operation) /\ <<y>> \in Seq(Operation) /\ Len(<<x>>) = 1 /\ Len(<<y>>) = 1
    BY <2>3
  <2>5. ops \o <<x>> \in Seq(Operation) /\ Len(ops \o <<x>>) = Len(ops) + 1
    BY <1>1, <2>4, ConcatProperties
  <2>6. /\ (ops \o <<x>>) \o a \in Seq(Operation)
        /\ Len((ops \o <<x>>) \o a) = (Len(ops) + 1) + k
    BY <2>3, <2>5, ConcatProperties
  <2>7. Len(ops') = ((Len(ops) + 1) + k) + 1
    BY <2>2, <2>4, <2>6, ConcatProperties
  <2>8. Len(ops') = Len(ops) + (k + 2)
    BY <1>1, <2>3, <2>7
  <2>9. Making(p, k + 2)
    BY <2>2, <2>8 DEF Making
  <2>10. QED
    BY <2>3, <2>9
<1>5. QED
  BY <1>2, <1>3, <1>4

(* What is made is cast or goes to the leader, and heard where it is made. *)
LEMMA MakesHInv ==
  ASSUME HInv, CInv', NEW p \in Procs, NEW k \in Nat, Making(p, k)
  PROVE  HInv'
<1> DEFINE ids == NextIds(k)
<1>1. /\ CType /\ CType' /\ SinksKnow /\ HType /\ HearsAll
      /\ done \in [Procs -> SUBSET Made] /\ Len(ops) \in Nat /\ L \in Procs
  BY LenProperties DEF HInv, CInv, CType, Procs
<1>2. /\ ids \in Seq(Elements(k)) /\ ids \in Seq(Nat) /\ Elems(ids) = Elements(k)
      /\ Elements(k) \subseteq Nat
  BY <1>1, NextIdsElems
<1> HIDE DEF ids
<1>3. done' = [done EXCEPT ![p] = @ \cup Elements(k)] /\ Publishes(p, ids)
  BY DEF Making, Applies, ids
<1>4. \A q \in Procs : done'[q] \in SUBSET Nat /\ done[q] \subseteq done'[q]
  BY <1>1, <1>2, <1>3 DEF Made
<1>5. sink[p] \in Sinks(done'[p]) /\ ids \in Seq(done'[p])
  <2>1. done[p] \subseteq done'[p] /\ Elements(k) \subseteq done'[p]
    BY <1>1, <1>3
  <2>2. QED
    BY <1>1, <1>2, <2>1, SinksMonotonic, SeqMonotonic DEF SinksKnow
<1>6. Confirmed(sink[p], ids) \in Sinks(done'[p]) /\ Speculated(sink[p], ids) \in Sinks(done'[p])
  BY <1>5, ConfirmedType, SpeculatedType
<1>7. joined' = joined
  BY DEF Making
<1>8. CASE p = L
  <2>1. /\ sink' = [sink EXCEPT ![L] = Confirmed(@, ids)] /\ down' = Cast(down, ids)
        /\ cast' = cast \o ids /\ onstar' = onstar /\ from' = from
    BY <1>3, <1>8 DEF Publishes
  <2>2. SinksKnow'
    BY <1>1, <1>4, <1>6, <1>8, <2>1, SinkChanges DEF SinksKnow
  <2>3. HType'
    BY <1>1, <1>2, <1>7, <2>1, ConcatProperties DEF HType
  <2>4. Elems(ids) \cup done[L] \subseteq done'[L]
    BY <1>1, <1>2, <1>3, <1>8
  <2>5. ASSUME NEW c \in joined' \cap onstar'
        PROVE  /\ c \in joined \cap onstar /\ from'[c] = from[c]
               /\ done[c] \cup Elems(down[c]) \cup Elems(ids) \subseteq done'[c] \cup Elems(down'[c])
    <3>1. c \in Clients /\ c \in joined \cap onstar /\ down[c] \in Seq(Nat)
      <4>1. c \in Clients /\ c \in joined \cap onstar /\ down[c] \in Seq(Made)
        BY <1>1, <1>7, <2>1 DEF HType, CType
      <4>2. QED
        BY <4>1, SeqMonotonic DEF Made
    <3>2. down'[c] = down[c] \o ids
      BY <2>1, <3>1 DEF Cast
    <3>3. Elems(down'[c]) = Elems(down[c]) \cup Elems(ids)
      BY <1>2, <3>1, <3>2, ElemsConcat
    <3>4. done[c] \subseteq done'[c]
      BY <1>4, <3>1 DEF Procs
    <3>5. QED
      BY <2>1, <3>1, <3>3, <3>4
  <2>6. HearsAll'
    BY <1>1, <1>2, <2>1, <2>3, <2>4, <2>5, HearsMore
  <2>7. QED
    BY <2>2, <2>3, <2>6 DEF HInv
<1>9. CASE p # L
  <2>1. p \in Clients /\ ClientPublishes(p, sink[p], ids) /\ down' = down /\ cast' = cast
    BY <1>3, <1>9 DEF Publishes, Procs
  <2>2. SinksKnow'
    <3>1. sink' = [sink EXCEPT ![p] = Speculated(sink[p], ids)]
          \/ sink' = [sink EXCEPT ![p] = Confirmed(sink[p], ids)]
      BY <2>1 DEF ClientPublishes
    <3>2. QED
      BY <1>1, <1>4, <1>6, <3>1, SinkChanges
  <2>3. /\ onstar' \in {onstar \cup {p}, onstar \ {p}}
        /\ \/ from' = from
           \/ p \notin onstar /\ from' = [from EXCEPT ![p] = Len(cast)]
        /\ p \in onstar' => p \in joined /\ (p \in onstar => from' = from)
                            /\ (p \notin onstar => from'[p] = Len(cast))
    <3>1. from \in [Clients -> Nat]
      BY <1>1 DEF HType
    <3>2. CASE p \in joined /\ p \in onstar
      <4>1. onstar' = onstar \cup {p} /\ from' = from
        BY <2>1, <3>2 DEF ClientPublishes
      <4>2. QED
        BY <3>2, <4>1
    <3>3. CASE p \in joined /\ p \notin onstar
      <4>1. onstar' = onstar \cup {p} /\ from' = [from EXCEPT ![p] = Len(cast)]
        BY <2>1, <3>3 DEF ClientPublishes
      <4>2. from'[p] = Len(cast)
        BY <2>1, <3>1, <4>1
      <4>3. QED
        BY <3>3, <4>1, <4>2
    <3>4. CASE p \notin joined
      <4>1. onstar' = onstar \ {p} /\ from' = from
        BY <2>1, <3>4 DEF ClientPublishes
      <4>2. QED
        BY <4>1
    <3>5. QED
      BY <3>2, <3>3, <3>4
  <2>4. HType' /\ Len(cast) \in Nat
    BY <1>1, <1>7, <2>1, <2>3, LenProperties DEF HType
  <2>5. <<>> \in Seq(Nat) /\ Elems(<<>>) = {} /\ cast' = cast \o <<>>
    BY <1>1, <2>1 DEF HType, Elems
  <2>6. ASSUME NEW c \in joined' \cap onstar', from'[c] # Len(cast')
        PROVE  /\ c \in joined \cap onstar /\ from'[c] = from[c]
               /\ done[c] \cup Elems(down[c]) \subseteq done'[c] \cup Elems(down'[c])
    <3>1. c \in Clients /\ c \in Procs /\ done[c] \subseteq done'[c] /\ down'[c] = down[c]
      BY <1>1, <1>4, <1>7, <2>1 DEF HType, Procs
    <3>2. c \in joined \cap onstar /\ from'[c] = from[c]
      BY <1>1, <1>7, <2>1, <2>3, <2>6, <3>1 DEF HType
    <3>3. QED
      BY <3>1, <3>2
  <2>7. HearsAll'
    <3>1. Elems(<<>>) \cup done[L] \subseteq done'[L]
      BY <1>1, <1>4, <2>5
    <3>2. \A c \in joined' \cap onstar' :
           \/ from'[c] = Len(cast')
           \/ /\ c \in joined \cap onstar /\ from'[c] = from[c]
              /\ done[c] \cup Elems(down[c]) \cup Elems(<<>>) \subseteq done'[c] \cup Elems(down'[c])
      BY <2>5, <2>6
    <3>3. QED
      BY <1>1, <2>4, <2>5, <3>1, <3>2, HearsMore
  <2>8. QED
    BY <2>2, <2>4, <2>7 DEF HInv
<1>10. QED
  BY <1>8, <1>9

(* What is cast reaches every client that listens and stays. *)
LEMMA CastHeard ==
  ASSUME CType, HType, HearsAll, NEW x \in Seq(Nat),
         cast' = cast \o x, down' = Cast(down, x),
         UNCHANGED <<joined, onstar, from>>,
         \A q \in Procs : done[q] \subseteq done'[q],
         Elems(x) \subseteq done'[L]
  PROVE  HType' /\ HearsAll'
<1>1. HType' /\ L \in Procs
  BY ConcatProperties DEF HType, Procs
<1>2. ASSUME NEW c \in joined' \cap onstar'
      PROVE  /\ c \in joined \cap onstar /\ from'[c] = from[c]
             /\ done[c] \cup Elems(down[c]) \cup Elems(x) \subseteq done'[c] \cup Elems(down'[c])
  <2>1. c \in Clients /\ c \in joined \cap onstar /\ down[c] \in Seq(Nat)
    <3>1. c \in Clients /\ c \in joined \cap onstar /\ down[c] \in Seq(Made)
      BY DEF HType, CType
    <3>2. QED
      BY <3>1, SeqMonotonic DEF Made
  <2>2. down'[c] = down[c] \o x
    BY <2>1 DEF Cast
  <2>3. Elems(down'[c]) = Elems(down[c]) \cup Elems(x)
    BY <2>1, <2>2, ElemsConcat
  <2>4. done[c] \subseteq done'[c]
    BY <2>1 DEF Procs
  <2>5. QED
    BY <2>1, <2>3, <2>4
<1>3. Elems(x) \cup done[L] \subseteq done'[L]
  BY <1>1
<1>4. QED
  BY <1>1, <1>2, <1>3, HearsMore

(* The leader's console makes an operation its own, or has it, and casts it. *)
LEMMA LeaderHInv ==
  ASSUME HInv, CInv', NEW id \in Made, LeaderConfirms(id),
         UNCHANGED <<joined, onstar, from>>
  PROVE  HInv'
<1> DEFINE line == ops[id].line
           k    == Answers(line)
           s    == Settled(sink[L], id)
           ids  == NextIds(k)
           x    == Append(ids, id)
           foreign == IsForeign(sink[L], id)
<1>1. /\ CType /\ CType' /\ Commands /\ SinksKnow /\ HType /\ HearsAll
      /\ done \in [Procs -> SUBSET Made] /\ Len(ops) \in Nat /\ L \in Procs /\ id \in Nat
  BY LenProperties DEF HInv, CInv, CType, Procs, Made
<1>2. \A q \in Procs : done'[q] \in SUBSET Nat
  BY <1>1 DEF CType, Made
<1>3. ASSUME done[L] \cup {id} \subseteq done'[L] PROVE s \in Sinks(done'[L])
  <2>1. sink[L] \in Sinks(done'[L])
    BY <1>1, <1>3, SinksMonotonic DEF SinksKnow
  <2>2. QED
    BY <1>3, <2>1, SettledType
<1> HIDE DEF s
<1>4. <<id>> \in Seq(Nat) /\ Elems(<<id>>) = {id}
  BY <1>1 DEF Elems
<1>5. CASE foreign /\ ops[id].kind = "command"
  <2>1. /\ Applies(L, {id} \cup Elements(k)) /\ sink' = [sink EXCEPT ![L] = Confirmed(s, ids)]
        /\ down' = Cast(down, x) /\ cast' = cast \o x
    BY <1>5 DEF LeaderConfirms, s
  <2>2. k \in Nat
    <3>1. line \in Lines
      BY <1>1, <1>5 DEF Commands
    <3>2. QED
      BY <3>1, ConsoleAssumption
  <2> HIDE DEF k
  <2>3. ids \in Seq(Elements(k)) /\ ids \in Seq(Nat) /\ Elems(ids) = Elements(k)
    BY <1>1, <2>2, NextIdsElems
  <2> HIDE DEF ids
  <2>4. x \in Seq(Nat) /\ Elems(x) = Elements(k) \cup {id}
    BY <1>1, <2>3, ElemsAppend
  <2> HIDE DEF x
  <2>5. done' = [done EXCEPT ![L] = @ \cup ({id} \cup Elements(k))]
    BY <2>1 DEF Applies
  <2>6. /\ done[L] \cup {id} \subseteq done'[L] /\ Elements(k) \subseteq done'[L]
        /\ \A q \in Procs : done[q] \subseteq done'[q]
    BY <1>1, <2>5
  <2>7. s \in Sinks(done'[L]) /\ ids \in Seq(done'[L])
    BY <1>3, <2>3, <2>6, SeqMonotonic
  <2>8. Confirmed(s, ids) \in Sinks(done'[L])
    BY <2>7, ConfirmedType
  <2>9. SinksKnow'
    BY <1>1, <1>2, <2>1, <2>6, <2>8, SinkChanges
  <2>10. HType' /\ HearsAll'
    BY <1>1, <2>1, <2>4, <2>6, CastHeard
  <2>11. QED
    BY <2>9, <2>10 DEF HInv
<1>6. ASSUME sink' = [sink EXCEPT ![L] = s], done[L] \cup {id} \subseteq done'[L],
             \A q \in Procs : done[q] \subseteq done'[q],
             down' = Cast(down, <<id>>), cast' = Append(cast, id)
      PROVE  HInv'
  <2>1. SinksKnow'
    BY <1>1, <1>2, <1>3, <1>6, SinkChanges
  <2>2. cast' = cast \o <<id>>
    BY <1>1, <1>6, AppendIsConcat DEF HType
  <2>3. Elems(<<id>>) \subseteq done'[L]
    BY <1>4, <1>6
  <2>4. HType' /\ HearsAll'
    BY <1>1, <1>4, <1>6, <2>2, <2>3, CastHeard
  <2>5. QED
    BY <2>1, <2>4 DEF HInv
<1>7. CASE foreign /\ ops[id].kind # "command"
  <2>1. /\ Applies(L, {id}) /\ sink' = [sink EXCEPT ![L] = s]
        /\ down' = Cast(down, <<id>>) /\ cast' = Append(cast, id)
    BY <1>7 DEF LeaderConfirms, s
  <2>2. done' = [done EXCEPT ![L] = @ \cup {id}]
    BY <2>1 DEF Applies
  <2>3. done[L] \cup {id} \subseteq done'[L] /\ \A q \in Procs : done[q] \subseteq done'[q]
    BY <1>1, <2>2
  <2>4. QED
    BY <1>6, <2>1, <2>3
<1>8. CASE ~foreign
  <2>1. /\ sink' = [sink EXCEPT ![L] = s] /\ done' = done
        /\ down' = Cast(down, <<id>>) /\ cast' = Append(cast, id)
    BY <1>8 DEF LeaderConfirms, s
  <2>2. id \in done[L]
    <3>1. Elems(sink[L].applied) \subseteq done[L] /\ Elems(sink[L].pending) \subseteq done[L]
      <4>1. sink[L] \in Sinks(done[L])
        BY <1>1 DEF SinksKnow
      <4>2. sink[L].applied \in Seq(done[L]) /\ sink[L].pending \in Seq(done[L])
        BY <4>1 DEF Sinks
      <4>3. QED
        BY <4>2, ElemsType
    <3>2. QED
      BY <1>8, <3>1 DEF IsForeign
  <2>3. QED
    BY <1>6, <2>1, <2>2
<1>9. QED
  BY <1>5, <1>7, <1>8

(* A client that listens applies what it reads, or has it; one that does   *)
(* not drops it.                                                           *)
LEMMA ClientHearsHInv ==
  ASSUME HInv, CInv', NEW c \in Clients, ClientHears(c)
  PROVE  HInv'
<1> DEFINE id   == Head(down[c])
           line == ops[id].line
           k    == Answers(line)
           s    == Settled(sink[c], id)
           ids  == NextIds(k)
           foreign == IsForeign(sink[c], id)
<1>1. /\ CType /\ CType' /\ Commands /\ SinksKnow /\ HType /\ HearsAll
      /\ done \in [Procs -> SUBSET Made] /\ Len(ops) \in Nat /\ L \in Procs /\ c \in Procs
      /\ down \in [Clients -> Seq(Made)] /\ c # L
  BY LenProperties, ConsoleAssumption DEF HInv, CInv, CType, Procs
<1>2. /\ c \in joined /\ down[c] # <<>> /\ down' = [down EXCEPT ![c] = Tail(@)]
      /\ cast' = cast /\ joined' = joined
  BY DEF ClientHears
<1>3. id \in Made /\ Tail(down[c]) \in Seq(Made) /\ Elems(down[c]) \subseteq {id} \cup Elems(Tail(down[c]))
  <2>1. down[c] \in Seq(Made)
    BY <1>1
  <2>2. /\ id \in Made /\ Tail(down[c]) \in Seq(Made) /\ <<id>> \in Seq(Made)
        /\ down[c] = <<id>> \o Tail(down[c])
    BY <1>2, <2>1, HeadTailProperties
  <2>3. Elems(down[c]) = Elems(<<id>>) \cup Elems(Tail(down[c]))
    BY <2>2, ElemsConcat
  <2>4. Elems(<<id>>) = {id}
    BY DEF Elems
  <2>5. QED
    BY <2>2, <2>3, <2>4
<1>4. \A q \in Procs : done'[q] \in SUBSET Nat
  BY <1>1 DEF CType, Made
<1>5. ASSUME done[c] \cup {id} \subseteq done'[c] PROVE s \in Sinks(done'[c])
  <2>1. sink[c] \in Sinks(done'[c])
    BY <1>1, <1>5, SinksMonotonic DEF SinksKnow
  <2>2. QED
    BY <1>5, <2>1, SettledType
<1> HIDE DEF s, id
<1>6. ASSUME from' = from, onstar' = onstar, \A q \in Procs : done[q] \subseteq done'[q],
             c \in onstar => id \in done'[c]
      PROVE  HType' /\ HearsAll'
  <2>1. HType'
    BY <1>1, <1>2, <1>6 DEF HType
  <2>2. <<>> \in Seq(Nat) /\ Elems(<<>>) = {} /\ cast' = cast \o <<>>
    BY <1>1, <1>2 DEF HType, Elems
  <2>3. ASSUME NEW d \in joined' \cap onstar'
        PROVE  /\ d \in joined \cap onstar /\ from'[d] = from[d]
               /\ done[d] \cup Elems(down[d]) \cup Elems(<<>>) \subseteq done'[d] \cup Elems(down'[d])
    <3>1. d \in joined \cap onstar /\ d \in Clients /\ d \in Procs /\ done[d] \subseteq done'[d]
      BY <1>1, <1>2, <1>6 DEF HType, Procs
    <3>2. CASE d = c
      <4>1. down'[d] = Tail(down[c]) /\ id \in done'[d]
        BY <1>1, <1>2, <1>6, <3>1, <3>2
      <4>2. QED
        BY <1>3, <1>6, <2>2, <3>1, <3>2, <4>1
    <3>3. CASE d # c
      <4>1. down'[d] = down[d]
        BY <1>1, <1>2, <3>1, <3>3
      <4>2. QED
        BY <1>6, <2>2, <3>1, <4>1
    <3>4. QED
      BY <3>2, <3>3
  <2>4. Elems(<<>>) \cup done[L] \subseteq done'[L]
    BY <1>1, <1>6, <2>2
  <2>5. QED
    BY <1>1, <2>1, <2>2, <2>3, <2>4, HearsMore
<1>7. CASE foreign /\ ops[id].kind = "command" /\ c \in onstar
  <2>1. Applies(c, {id} \cup Elements(k)) /\ ClientPublishes(c, s, ids)
    BY <1>7 DEF ClientHears, s, id
  <2>2. k \in Nat
    <3>1. line \in Lines
      BY <1>1, <1>3, <1>7 DEF Commands
    <3>2. QED
      BY <3>1, ConsoleAssumption
  <2> HIDE DEF k
  <2>3. ids \in Seq(Elements(k))
    BY <1>1, <2>2, NextIdsElems
  <2> HIDE DEF ids
  <2>4. done' = [done EXCEPT ![c] = @ \cup ({id} \cup Elements(k))]
    BY <2>1 DEF Applies
  <2>5. /\ done[c] \cup {id} \subseteq done'[c] /\ Elements(k) \subseteq done'[c]
        /\ \A q \in Procs : done[q] \subseteq done'[q]
    BY <1>1, <2>4
  <2>6. s \in Sinks(done'[c]) /\ ids \in Seq(done'[c])
    BY <1>5, <2>3, <2>5, SeqMonotonic
  <2>7. Speculated(s, ids) \in Sinks(done'[c])
    BY <2>6, SpeculatedType
  <2>8. /\ sink' = [sink EXCEPT ![c] = Speculated(s, ids)]
        /\ onstar' = onstar /\ from' = from
    BY <1>2, <1>7, <2>1 DEF ClientPublishes
  <2>9. SinksKnow'
    BY <1>1, <1>4, <2>5, <2>7, <2>8, SinkChanges
  <2>10. HType' /\ HearsAll'
    BY <1>6, <2>5, <2>8
  <2>11. QED
    BY <2>9, <2>10 DEF HInv
<1>8. ASSUME from' = from, onstar' = onstar, \A q \in Procs : done[q] \subseteq done'[q],
             done[c] \cup {id} \subseteq done'[c], sink' = [sink EXCEPT ![c] = s]
      PROVE  HInv'
  <2>1. SinksKnow'
    BY <1>1, <1>4, <1>5, <1>8, SinkChanges
  <2>2. HType' /\ HearsAll'
    BY <1>6, <1>8
  <2>3. QED
    BY <2>1, <2>2 DEF HInv
<1>9. CASE foreign /\ ops[id].kind # "command" /\ c \in onstar
  <2>1. Applies(c, {id}) /\ sink' = [sink EXCEPT ![c] = s] /\ onstar' = onstar /\ from' = from
    BY <1>9 DEF ClientHears, s, id
  <2>2. done' = [done EXCEPT ![c] = @ \cup {id}]
    BY <2>1 DEF Applies
  <2>3. done[c] \cup {id} \subseteq done'[c] /\ \A q \in Procs : done[q] \subseteq done'[q]
    BY <1>1, <2>2
  <2>4. QED
    BY <1>8, <2>1, <2>3
<1>10. CASE ~foreign /\ c \in onstar
  <2>1. sink' = [sink EXCEPT ![c] = s] /\ done' = done /\ onstar' = onstar /\ from' = from
    BY <1>10 DEF ClientHears, s, id
  <2>2. id \in done[c]
    <3>1. sink[c].applied \in Seq(done[c]) /\ sink[c].pending \in Seq(done[c])
      <4>1. sink[c] \in Sinks(done[c])
        BY <1>1 DEF SinksKnow
      <4>2. QED
        BY <4>1 DEF Sinks
    <3>2. Elems(sink[c].applied) \subseteq done[c] /\ Elems(sink[c].pending) \subseteq done[c]
      BY <3>1, ElemsType
    <3>3. QED
      BY <1>10, <3>2 DEF IsForeign
  <2>3. QED
    BY <1>8, <2>1, <2>2
<1>11. CASE c \notin onstar
  <2>1. sink' = sink /\ done' = done /\ onstar' = onstar /\ from' = from
    BY <1>11 DEF ClientHears, id
  <2>2. SinksKnow'
    BY <1>1, <2>1 DEF SinksKnow
  <2>3. HType' /\ HearsAll'
    BY <1>6, <1>11, <2>1
  <2>4. QED
    BY <2>2, <2>3 DEF HInv
<1>12. QED
  BY <1>7, <1>9, <1>10, <1>11

(* Who connects has heard what was cast before; who leaves need not hear. *)
LEMMA ConnectionHInv ==
  ASSUME HInv, CInv', NEW c \in Clients, Join(c) \/ Leave(c) \/ LeaderLoses(c)
  PROVE  HInv'
<1>1. /\ SinksKnow /\ HType /\ HearsAll /\ L \in Procs
      /\ sink' = sink /\ done' = done /\ cast' = cast /\ onstar' = onstar
  BY DEF HInv, Join, Leave, LeaderLoses, Procs
<1>2. SinksKnow'
  BY <1>1 DEF SinksKnow
<1>3. /\ joined' \subseteq Clients /\ from' \in [Clients -> Nat]
      /\ \A d \in joined' : from'[d] = Len(cast) \/ (d \in joined /\ from'[d] = from[d] /\ down'[d] = down[d])
  <2>1. Len(cast) \in Nat
    BY <1>1, LenProperties DEF HType
  <2>2. CASE Join(c)
    <3>1. joined' = joined \cup {c} /\ from' = [from EXCEPT ![c] = Len(cast)] /\ down' = down
      BY <2>2 DEF Join
    <3>2. QED
      BY <1>1, <2>1, <3>1 DEF HType
  <2>3. CASE Leave(c)
    <3>1. joined' = joined \ {c} /\ from' = from /\ down' = [down EXCEPT ![c] = <<>>]
      BY <2>3 DEF Leave
    <3>2. \A d \in Clients : d # c => down'[d] = down[d]
      BY <3>1 DEF HInv, CInv, CType
    <3>3. QED
      BY <1>1, <3>1, <3>2 DEF HType
  <2>4. CASE LeaderLoses(c)
    BY <1>1, <2>4 DEF LeaderLoses, HType
  <2>5. QED
    BY <2>2, <2>3, <2>4
<1>4. HType'
  BY <1>1, <1>3 DEF HType
<1>5. <<>> \in Seq(Nat) /\ Elems(<<>>) = {} /\ cast' = cast \o <<>>
  BY <1>1 DEF HType, Elems
<1>6. \A d \in joined' \cap onstar' :
        \/ from'[d] = Len(cast')
        \/ /\ d \in joined \cap onstar /\ from'[d] = from[d]
           /\ done[d] \cup Elems(down[d]) \cup Elems(<<>>) \subseteq done'[d] \cup Elems(down'[d])
  BY <1>1, <1>3, <1>5
<1>7. Elems(<<>>) \cup done[L] \subseteq done'[L]
  BY <1>1, <1>5
<1>8. HearsAll'
  BY <1>1, <1>4, <1>5, <1>6, <1>7, HearsMore
<1>9. QED
  BY <1>2, <1>4, <1>8 DEF HInv

(* No step leaves something unheard. *)
LEMMA NextHInv == ASSUME HInv, [Next]_vars PROVE HInv'
<1>1. CInv /\ CInv'
  BY NextCInv DEF HInv
<1>2. CASE UNCHANGED vars
  BY <1>1, <1>2 DEF HInv, SinksKnow, HType, HearsAll, vars
<1>3. ASSUME NEW p \in Procs, Edit(p) \/ Drag(p) \/ \E line \in Lines : Commit(p, line)
      PROVE  HInv'
  <2>1. PICK k \in Nat : Making(p, k)
    BY <1>1, <1>3, UsersMake
  <2>2. QED
    BY <1>1, <2>1, MakesHInv
<1>4. ASSUME NEW c \in Clients, LeaderReads(c) PROVE HInv'
  <2>1. up[c] \in Seq(Made) /\ up[c] # <<>>
    BY <1>1, <1>4 DEF LeaderReads, CInv, CType
  <2>2. Head(up[c]) \in Made
    BY <2>1, HeadTailProperties
  <2>3. LeaderConfirms(Head(up[c])) /\ UNCHANGED <<joined, onstar, from>>
    BY <1>4 DEF LeaderReads
  <2>4. QED
    BY <1>1, <2>2, <2>3, LeaderHInv
<1>5. ASSUME NEW c \in Clients, LeaderReadsLate(c) PROVE HInv'
  <2>1. late[c] \in Seq(Made) /\ late[c] # <<>>
    BY <1>1, <1>5 DEF LeaderReadsLate, CInv, CType
  <2>2. Head(late[c]) \in Made
    BY <2>1, HeadTailProperties
  <2>3. LeaderConfirms(Head(late[c])) /\ UNCHANGED <<joined, onstar, from>>
    BY <1>5 DEF LeaderReadsLate
  <2>4. QED
    BY <1>1, <2>2, <2>3, LeaderHInv
<1>6. ASSUME NEW c \in Clients,
             ClientHears(c) \/ LeaderLoses(c) \/ Join(c) \/ Leave(c)
      PROVE  HInv'
  BY <1>1, <1>6, ClientHearsHInv, ConnectionHInv
<1>7. QED
  BY <1>2, <1>3, <1>4, <1>5, <1>6 DEF Next

(* Nothing was cast yet. *)
LEMMA InitHInv == ASSUME Init PROVE HInv
<1>1. CInv
  BY InitCInv
<1>2. SinksKnow
  <2>1. Len(<<>>) = 0 /\ \A S : <<>> \in Seq(S)
    OBVIOUS
  <2>2. \A S : [pending |-> <<>>, applied |-> <<>>] \in Sinks(S)
    BY <2>1, ConsoleAssumption DEF Sinks
  <2>3. sink = [p \in Procs |-> [pending |-> <<>>, applied |-> <<>>]]
    BY DEF Init
  <2>4. QED
    BY <2>2, <2>3 DEF SinksKnow
<1>3. HType
  BY DEF Init, HType
<1>4. HearsAll
  BY DEF Init, HearsAll, Elems
<1>5. QED
  BY <1>1, <1>2, <1>3, <1>4 DEF HInv

(* A console that listens to the star applies everything that is cast      *)
(* while it does, and the leader's console applies everything, for every   *)
(* number of clients and users, all sizes of the windows (also when they   *)
(* overflow), answers given inside a confirmation, and connections that    *)
(* are lost and made again at any moment (console_sink.c:131-146).         *)
THEOREM ListenersHearAll == Spec => []HearsAll
<1>1. Init => HInv
  BY InitHInv
<1>2. HInv /\ [Next]_vars => HInv'
  BY NextHInv
<1>3. HInv => HearsAll
  BY DEF HInv
<1>4. QED
  BY <1>1, <1>2, <1>3, PTL DEF Spec

-----------------------------------------------------------------------------
(* Types *)

(* What was applied again was applied before; connections are counted.     *)
Bounds ==
  /\ again \subseteq UNION {{p} \X done[p] : p \in Procs}
  /\ joins \in [Clients -> 0 .. MaxJoins]

(* The effects of a step are those of some operations at one process.      *)
LEMMA StepApplies ==
  ASSUME [Next]_vars
  PROVE  \/ (again' = again /\ done' = done)
         \/ \E p \in Procs : \E ids : Applies(p, ids)
<1>1. \A c \in Clients : c \in Procs
  BY DEF Procs
<1>2. L \in Procs
  BY DEF Procs
<1>3. CASE UNCHANGED vars
  BY <1>3 DEF vars
<1>4. ASSUME NEW p \in Procs, Edit(p) \/ Drag(p) \/ \E line \in Lines : Commit(p, line)
      PROVE  \E ids : Applies(p, ids)
  BY <1>4 DEF Edit, Drag, DragAt, Commit
<1>5. ASSUME NEW c \in Clients, ClientHears(c)
      PROVE  (again' = again /\ done' = done) \/ \E ids : Applies(c, ids)
  BY <1>5 DEF ClientHears
<1>6. ASSUME NEW id, LeaderConfirms(id)
      PROVE  (again' = again /\ done' = done) \/ \E ids : Applies(L, ids)
  BY <1>6 DEF LeaderConfirms
<1>7. ASSUME NEW c \in Clients, LeaderReads(c) \/ LeaderReadsLate(c)
      PROVE  (again' = again /\ done' = done) \/ \E ids : Applies(L, ids)
  BY <1>6, <1>7 DEF LeaderReads, LeaderReadsLate
<1>8. ASSUME NEW c \in Clients, LeaderLoses(c) \/ Join(c) \/ Leave(c)
      PROVE  again' = again /\ done' = done
  BY <1>8 DEF LeaderLoses, Join, Leave
<1>9. QED
  BY <1>1, <1>2, <1>3, <1>4, <1>5, <1>7, <1>8 DEF Next

(* Only a handshake changes the count of a client's connections.           *)
LEMMA StepJoins ==
  ASSUME [Next]_vars
  PROVE  joins' = joins \/ \E c \in Clients : Join(c)
<1>1. CASE UNCHANGED vars
  BY <1>1 DEF vars
<1>2. ASSUME NEW p \in Procs, Edit(p) \/ Drag(p) \/ \E line \in Lines : Commit(p, line)
      PROVE  joins' = joins
  BY <1>2 DEF Edit, Drag, DragAt, Commit
<1>3. ASSUME NEW c \in Clients,
             \/ ClientHears(c) \/ LeaderReads(c) \/ LeaderReadsLate(c)
             \/ LeaderLoses(c) \/ Leave(c)
      PROVE  joins' = joins
  BY <1>3 DEF ClientHears, LeaderReads, LeaderReadsLate, LeaderLoses, Leave
<1>4. QED
  BY <1>1, <1>2, <1>3 DEF Next

(* No step breaks the bounds.                                              *)
LEMMA NextBounds == ASSUME HInv, Bounds, [Next]_vars PROVE Bounds'
<1>1. done \in [Procs -> SUBSET Made]
  BY DEF HInv, CInv, CType
<1>2. again' \subseteq UNION {{p} \X done'[p] : p \in Procs}
  <2>1. CASE again' = again /\ done' = done
    BY <2>1 DEF Bounds
  <2>2. ASSUME NEW p \in Procs, NEW ids, Applies(p, ids)
        PROVE  again' \subseteq UNION {{q} \X done'[q] : q \in Procs}
    <3>1. /\ done' = [done EXCEPT ![p] = done[p] \cup ids]
          /\ again' = again \cup ({p} \X (ids \cap done[p]))
      BY <2>2 DEF Applies
    <3>2. \A q \in Procs : done[q] \subseteq done'[q]
      BY <1>1, <3>1
    <3>3. ASSUME NEW x \in again PROVE \E q \in Procs : x \in {q} \X done'[q]
      <4>1. PICK q \in Procs : x \in {q} \X done[q]
        BY DEF Bounds
      <4>2. QED
        BY <3>2, <4>1
    <3>4. ASSUME NEW x \in {p} \X (ids \cap done[p]) PROVE x \in {p} \X done'[p]
      BY <3>2
    <3>5. QED
      BY <3>1, <3>3, <3>4
  <2>3. QED
    BY <2>1, <2>2, StepApplies
<1>3. joins' \in [Clients -> 0 .. MaxJoins]
  <2>1. ASSUME NEW c \in Clients, Join(c) PROVE joins' \in [Clients -> 0 .. MaxJoins]
    <3>1. joins[c] \in 0 .. MaxJoins /\ joins[c] < MaxJoins /\ MaxJoins \in Nat
      BY <2>1, ConsoleAssumption DEF Bounds, Join
    <3>2. joins[c] + 1 \in 0 .. MaxJoins
      BY <3>1
    <3>3. joins' = [joins EXCEPT ![c] = joins[c] + 1]
      BY <2>1 DEF Join
    <3>4. QED
      BY <3>2, <3>3 DEF Bounds
  <2>2. QED
    BY <2>1, StepJoins DEF Bounds
<1>4. QED
  BY <1>2, <1>3 DEF Bounds

(* The types of the sinks are what the invariant of hearing and the bounds *)
(* say of them.                                                            *)
LEMMA TypesHold == ASSUME HInv, Bounds PROVE TypeOK
<1>1. /\ CType /\ SinksKnow /\ HType /\ HearsAll /\ L \in Procs
      /\ done \in [Procs -> SUBSET Made]
  BY DEF HInv, CInv, CType, Procs
<1>2. DOMAIN sink = Procs
  BY <1>1 DEF SinksKnow
<1>3. ASSUME NEW p \in Procs PROVE Windows(sink[p])
  <2>1. sink[p] \in Sinks(Made)
    BY <1>1, SinksMonotonic DEF SinksKnow
  <2>2. QED
    BY <2>1 DEF Windows, Sinks
<1>4. again \subseteq Procs \X Made
  <2>1. ASSUME NEW x \in again PROVE x \in Procs \X Made
    <3>1. PICK p \in Procs : x \in {p} \X done[p]
      BY DEF Bounds
    <3>2. QED
      BY <1>1, <3>1
  <2>2. QED
    BY <2>1
<1>5. cast \in Seq(Made)
  <2>1. Elems(cast) \subseteq Made /\ cast \in Seq(Elems(cast))
    BY <1>1, ElemsType DEF HType, HearsAll
  <2>2. QED
    BY <2>1, SeqMonotonic
<1>6. QED
  BY <1>1, <1>2, <1>3, <1>4, <1>5 DEF TypeOK, CType, HType, Bounds

(* Windows, queues and the cast hold operations that were made, and the    *)
(* windows keep to their sizes, for every number of clients and users      *)
(* (console_sink.c:87-114).                                                *)
THEOREM StaysTyped == Spec => []TypeOK
<1>1. Init => HInv /\ Bounds
  <2>1. ASSUME Init PROVE Bounds
    <3>1. again = {} /\ joins = [c \in Clients |-> 0] /\ MaxJoins \in Nat
      BY <2>1, ConsoleAssumption DEF Init
    <3>2. QED
      BY <3>1 DEF Bounds
  <2>2. QED
    BY <2>1, InitHInv
<1>2. HInv /\ Bounds /\ [Next]_vars => (HInv /\ Bounds)'
  BY NextHInv, NextBounds
<1>3. HInv /\ Bounds => TypeOK
  BY TypesHold
<1>4. QED
  BY <1>1, <1>2, <1>3, PTL DEF Spec

-----------------------------------------------------------------------------
(* Nothing is applied twice *)

(* No operation is twice in a queue. *)
Once(q) == \A i, j \in 1 .. Len(q) : q[i] = q[j] => i = j

(* What is on its way from c to the leader. *)
Ahead(c) == Elems(up[c]) \cup Elems(late[c])

(* No operation is twice on its way to or from a client.                   *)
Distinct ==
  \A c \in Clients :
    /\ Once(up[c]) /\ Once(late[c]) /\ Once(down[c])
    /\ Elems(up[c]) \cap Elems(late[c]) = {}

(* An operation is on its way from one client, or cast, or at the leader.  *)
Apart ==
  /\ \A c, d \in Clients : c # d => Ahead(c) \cap Ahead(d) = {}
  /\ \A c, d \in Clients : Elems(down[c]) \cap Ahead(d) = {}
  /\ \A c \in Clients : Ahead(c) \cap done[L] = {}

(* What is still to come and was applied at c is pending there. *)
Awaited ==
  \A c, d \in Clients :
    (Elems(down[c]) \cup Ahead(d)) \cap done[c] \subseteq Elems(sink[c].pending)

(* The invariant of what is applied once.                                  *)
OInv == HInv /\ Distinct /\ Apart /\ Awaited /\ AppliedOnce

(* No client's pending window is full. *)
HasRoom == \A c \in Clients : Len(sink[c].pending) < PendingMax

(* Two queues that share nothing make one. *)
LEMMA OnceConcat ==
  ASSUME NEW S, NEW q \in Seq(S), NEW t \in Seq(S), Once(q), Once(t),
         Elems(q) \cap Elems(t) = {}
  PROVE  Once(q \o t)
<1> DEFINE r == q \o t
<1>1. /\ Len(r) = Len(q) + Len(t) /\ Len(q) \in Nat /\ Len(t) \in Nat
      /\ \A i \in 1 .. Len(q) : r[i] = q[i]
      /\ \A i \in 1 .. Len(t) : r[Len(q) + i] = t[i]
  BY ConcatProperties, LenProperties
<1> HIDE DEF r
<1>2. \A i \in 1 .. Len(r) : i \in 1 .. Len(q) \/ (i > Len(q) /\ i - Len(q) \in 1 .. Len(t))
  BY <1>1
<1>3. \A i \in 1 .. Len(r) : i > Len(q) /\ i - Len(q) \in 1 .. Len(t) => r[i] = t[i - Len(q)]
  <2>1. \A i \in 1 .. Len(r) : Len(q) + (i - Len(q)) = i
    BY <1>1
  <2>2. QED
    BY <1>1, <2>1
<1>4. \A i \in 1 .. Len(q) : q[i] \in Elems(q)
  BY ElemIn
<1>5. \A i \in 1 .. Len(t) : t[i] \in Elems(t)
  BY ElemIn
<1>6. ASSUME NEW i \in 1 .. Len(r), NEW j \in 1 .. Len(r), r[i] = r[j] PROVE i = j
  <2>1. CASE i \in 1 .. Len(q) /\ j \in 1 .. Len(q)
    BY <1>1, <1>6, <2>1 DEF Once
  <2>2. CASE i \in 1 .. Len(q) /\ j \notin 1 .. Len(q)
    BY <1>1, <1>2, <1>3, <1>4, <1>5, <1>6, <2>2
  <2>3. CASE i \notin 1 .. Len(q) /\ j \in 1 .. Len(q)
    BY <1>1, <1>2, <1>3, <1>4, <1>5, <1>6, <2>3
  <2>4. CASE i \notin 1 .. Len(q) /\ j \notin 1 .. Len(q)
    <3>1. /\ i - Len(q) \in 1 .. Len(t) /\ j - Len(q) \in 1 .. Len(t)
          /\ t[i - Len(q)] = t[j - Len(q)]
      BY <1>2, <1>3, <1>6, <2>4
    <3>2. i - Len(q) = j - Len(q)
      BY <3>1 DEF Once
    <3>3. QED
      BY <1>1, <3>2
  <2>5. QED
    BY <2>1, <2>2, <2>3, <2>4
<1>7. QED
  BY <1>6 DEF r, Once

(* What is read from a queue is not in it any more. *)
LEMMA OnceTail ==
  ASSUME NEW S, NEW q \in Seq(S), q # <<>>, Once(q)
  PROVE  /\ Head(q) \in S /\ Head(q) \in Elems(q)
         /\ Tail(q) \in Seq(S) /\ Once(Tail(q))
         /\ Elems(Tail(q)) = Elems(q) \ {Head(q)}
<1> DEFINE t == Tail(q)
<1>1. /\ Head(q) \in S /\ Head(q) = q[1] /\ t \in Seq(S) /\ Len(q) \in Nat /\ Len(q) >= 1
      /\ Len(t) = Len(q) - 1 /\ \A i \in 1 .. Len(t) : t[i] = q[i + 1]
  BY HeadTailProperties, LenProperties
<1> HIDE DEF t
<1>2. Head(q) \in Elems(q)
  BY <1>1, ElemIn
<1>3. Once(t)
  <2>1. \A i \in 1 .. Len(t) : i + 1 \in 1 .. Len(q)
    BY <1>1
  <2>2. ASSUME NEW i \in 1 .. Len(t), NEW j \in 1 .. Len(t), t[i] = t[j] PROVE i = j
    <3>1. q[i + 1] = q[j + 1] /\ i + 1 \in 1 .. Len(q) /\ j + 1 \in 1 .. Len(q)
      BY <1>1, <2>1, <2>2
    <3>2. i + 1 = j + 1
      BY <3>1 DEF Once
    <3>3. QED
      BY <3>2
  <2>3. QED
    BY <2>2 DEF Once
<1>4. ASSUME NEW x \in Elems(t) PROVE x \in Elems(q) /\ x # Head(q)
  <2>1. PICK i \in 1 .. Len(t) : t[i] = x
    BY <1>1, ElemsType
  <2>2. i + 1 \in 1 .. Len(q) /\ 1 \in 1 .. Len(q) /\ i + 1 # 1 /\ q[i + 1] = x
    BY <1>1, <2>1
  <2>3. QED
    BY <1>1, <2>2, ElemIn DEF Once
<1>5. ASSUME NEW x \in Elems(q), x # Head(q) PROVE x \in Elems(t)
  <2>1. PICK i \in 1 .. Len(q) : q[i] = x
    BY ElemsType
  <2>2. i # 1
    BY <1>1, <1>5, <2>1
  <2>3. i - 1 \in 1 .. Len(t) /\ (i - 1) + 1 = i
    BY <1>1, <2>2
  <2>4. t[i - 1] = x
    BY <1>1, <2>1, <2>3
  <2>5. QED
    BY <1>1, <2>3, <2>4, ElemIn
<1>6. Elems(t) = Elems(q) \ {Head(q)}
  BY <1>4, <1>5
<1>7. QED
  BY <1>1, <1>2, <1>3, <1>6 DEF t

(* The process p makes the operations new, the leader reads those of read, *)
(* and the client h those of gone.                                         *)
Moves(p, new, read, h, gone) ==
  /\ new \cap Made = {}
  /\ \A x \in read : \E c \in Clients : x \in Ahead(c)
  /\ gone # {} => h \in Clients /\ gone \subseteq Elems(down[h])
  /\ \A c \in Clients : Ahead(c)' \subseteq (Ahead(c) \ read) \cup (IF c = p THEN new ELSE {})
  /\ \A c \in Clients :
       Elems(down'[c]) \subseteq (Elems(down[c]) \cup read \cup (IF p = L THEN new ELSE {}))
                                   \ (IF c = h THEN gone ELSE {})
  /\ \A q \in Procs :
       done'[q] \subseteq done[q] \cup (IF q = p THEN new ELSE {})
                            \cup (IF q = L THEN read ELSE {}) \cup (IF q = h THEN gone ELSE {})
  /\ \A c \in Clients :
       Elems(sink[c].pending) \ (IF c = h THEN gone ELSE {}) \subseteq Elems(sink'[c].pending)
  /\ \A c \in Clients : c = p => new \cap Ahead(c)' \subseteq Elems(sink'[c].pending)

(* Such a step keeps the ways apart. *)
LEMMA ApartStep ==
  ASSUME CType, Apart, Awaited, NEW p \in Procs, NEW new, NEW read, NEW h, NEW gone,
         Moves(p, new, read, h, gone)
  PROVE  Apart' /\ Awaited'
<1> USE DEF Moves
<1>1. /\ L \notin Clients /\ L \in Procs /\ \A c \in Clients : c \in Procs
      /\ \A c \in Clients : Ahead(c) \subseteq Made /\ Elems(down[c]) \subseteq Made
      /\ \A q \in Procs : done[q] \subseteq Made
  <2>1. \A c \in Clients : up[c] \in Seq(Made) /\ late[c] \in Seq(Made) /\ down[c] \in Seq(Made)
    BY DEF CType
  <2>2. \A c \in Clients : Ahead(c) \subseteq Made /\ Elems(down[c]) \subseteq Made
    BY <2>1, ElemsType DEF Ahead
  <2>3. QED
    BY <2>2, ConsoleAssumption DEF Procs, CType
<1>2. /\ \A c, d \in Clients : c # d => Ahead(c) \cap Ahead(d) = {}
      /\ \A c, d \in Clients : Elems(down[c]) \cap Ahead(d) = {}
      /\ \A c \in Clients : Ahead(c) \cap done[L] = {}
  BY DEF Apart
<1>3. read \subseteq Made
  BY <1>1
<1>4. ASSUME NEW c \in Clients, NEW d \in Clients, c # d PROVE Ahead(c)' \cap Ahead(d)' = {}
  BY <1>1, <1>2, <1>4
<1>5. ASSUME NEW c \in Clients, NEW d \in Clients PROVE Elems(down'[c]) \cap Ahead(d)' = {}
  BY <1>1, <1>2, <1>3
<1>6. ASSUME NEW c \in Clients PROVE Ahead(c)' \cap done'[L] = {}
  BY <1>1, <1>2, <1>3
<1>7. ASSUME NEW c \in Clients, NEW d \in Clients,
             NEW x \in (Elems(down'[c]) \cup Ahead(d)') \cap done'[c]
      PROVE  x \in Elems(sink'[c].pending)
  <2>1. c \in Procs /\ c # L
    BY <1>1
  <2>2. CASE x \in done[c]
    <3>1. x \notin new /\ x \in Made
      BY <1>1, <2>1, <2>2
    <3>2. \E e \in Clients : x \in Elems(down[c]) \cup Ahead(e)
      BY <1>7, <3>1
    <3>3. x \in Elems(sink[c].pending)
      BY <2>2, <3>2 DEF Awaited
    <3>4. ~(c = h /\ x \in gone)
      BY <1>2, <1>7, <3>1
    <3>5. QED
      BY <3>3, <3>4
  <2>3. CASE x \in new /\ c = p
    <3>1. x \notin Made
      BY <2>3
    <3>2. x \in Ahead(d)' /\ d = p
      BY <1>1, <1>3, <1>7, <2>1, <2>3, <3>1
    <3>3. QED
      BY <2>3, <3>2
  <2>4. CASE x \in gone /\ c = h
    <3>1. x \in Elems(down[c]) /\ x \in Made
      BY <1>1, <2>4
    <3>2. x \notin Elems(down'[c]) /\ x \notin new
      BY <2>4, <3>1
    <3>3. x \in Ahead(d)
      BY <1>7, <3>2
    <3>4. QED
      BY <1>2, <3>1, <3>3
  <2>5. QED
    BY <1>7, <2>1, <2>2, <2>3, <2>4
<1>8. Apart'
  BY <1>4, <1>5, <1>6 DEF Apart
<1>9. Awaited'
  BY <1>7 DEF Awaited
<1>10. QED
  BY <1>8, <1>9

(* A client's publications wait, or are confirmed at once; while there is  *)
(* room nothing that waits is forgotten.                                   *)
LEMMA ClientPublishesOnce ==
  ASSUME CType, SinksKnow, NEW c \in Clients, NEW s \in Sinks(Made), NEW k \in Nat,
         ClientPublishes(c, s, NextIds(k)), Once(up[c]),
         Len(s.pending) < PendingMax, Len(sink'[c].pending) < PendingMax
  PROVE  /\ \A d \in Clients : d # c => up'[d] = up[d] /\ sink'[d] = sink[d]
         /\ Once(up'[c])
         /\ Elems(up'[c]) \subseteq Elems(up[c]) \cup Elements(k)
         /\ Elements(k) \cap Elems(up'[c]) \subseteq Elems(sink'[c].pending)
         /\ Elems(s.pending) \subseteq Elems(sink'[c].pending)
<1> DEFINE ids == NextIds(k)
<1>1. /\ Len(ops) \in Nat /\ c \in Procs /\ up[c] \in Seq(Made) /\ up[c] \in Seq(Nat)
      /\ up \in [Clients -> Seq(Made)] /\ sink \in [Procs -> Sinks(Nat)]
      /\ \A d \in Clients : d \in Procs
  <2>1. ops \in Seq(Operation) /\ up \in [Clients -> Seq(Made)] /\ up[c] \in Seq(Made)
    BY DEF CType
  <2>2. up[c] \in Seq(Nat)
    BY <2>1, SeqMonotonic DEF Made
  <2>3. QED
    BY <2>1, <2>2, LenProperties DEF Procs, SinksKnow
<1>2. Elems(up[c]) \subseteq Made
  BY <1>1, ElemsType
<1>3. /\ ids \in Seq(Nat) /\ Elems(ids) = Elements(k) /\ Len(ids) = k
      /\ \A x \in Elements(k) : x \notin Made
  BY <1>1, NextIdsElems
<1>4. ids = [i \in 1 .. k |-> Len(ops) + i]
  BY DEF NextIds
<1>5. Once(ids)
  BY <1>1, <1>3, <1>4 DEF Once
<1> HIDE DEF ids
<1>6. CASE c \in joined
  <2>1. sink' = [sink EXCEPT ![c] = Speculated(s, ids)] /\ up' = [up EXCEPT ![c] = @ \o ids]
    BY <1>6 DEF ClientPublishes, ids
  <2>2. /\ sink'[c] = Speculated(s, ids) /\ up'[c] = up[c] \o ids
        /\ \A d \in Clients : d # c => up'[d] = up[d] /\ sink'[d] = sink[d]
    BY <1>1, <2>1
  <2>3. s \in Sinks(Nat)
    BY SinksMonotonic DEF Made
  <2>4. Elems(s.pending) \cup Elems(ids) \subseteq Elems(sink'[c].pending)
    BY <1>3, <2>2, <2>3, SpeculatedType
  <2>5. Elems(up[c]) \cap Elems(ids) = {}
    BY <1>2, <1>3
  <2>6. Once(up'[c]) /\ Elems(up'[c]) = Elems(up[c]) \cup Elems(ids)
    BY <1>1, <1>3, <1>5, <2>2, <2>5, OnceConcat, ElemsConcat
  <2>7. QED
    BY <1>3, <2>2, <2>4, <2>6
<1>7. CASE c \notin joined
  <2>1. sink' = [sink EXCEPT ![c] = Confirmed(s, ids)] /\ up' = up
    BY <1>7 DEF ClientPublishes, ids
  <2>2. /\ sink'[c] = Confirmed(s, ids)
        /\ \A d \in Clients : d # c => up'[d] = up[d] /\ sink'[d] = sink[d]
    BY <1>1, <2>1
  <2>3. Elems(s.pending) \subseteq Elems(sink'[c].pending)
    BY <1>1, <1>4, <2>2, ConfirmedKeeps DEF Made
  <2>4. Elements(k) \cap Elems(up'[c]) = {}
    BY <1>2, <1>3, <2>1
  <2>5. QED
    BY <2>1, <2>2, <2>3, <2>4
<1>8. QED
  BY <1>6, <1>7

(* What is known where nothing is twice. *)
LEMMA OnceFacts ==
  ASSUME OInv
  PROVE  /\ CType /\ SinksKnow /\ HType /\ Distinct /\ Apart /\ Awaited /\ again = {}
         /\ L \in Procs /\ L \notin Clients /\ (\A c \in Clients : c \in Procs) /\ Len(ops) \in Nat
         /\ done \in [Procs -> SUBSET Made]
         /\ \A q \in Procs : sink[q] \in Sinks(Made)
<1>1. /\ CType /\ SinksKnow /\ HType /\ Distinct /\ Apart /\ Awaited /\ again = {}
  BY DEF OInv, HInv, CInv, AppliedOnce
<1>2. /\ L \in Procs /\ L \notin Clients /\ (\A c \in Clients : c \in Procs) /\ Len(ops) \in Nat
      /\ done \in [Procs -> SUBSET Made]
  BY <1>1, ConsoleAssumption, LenProperties DEF CType, Procs
<1>3. \A q \in Procs : sink[q] \in Sinks(Made)
  <2>1. \A q \in Procs : done[q] \subseteq Made /\ sink[q] \in Sinks(done[q])
    BY <1>1, <1>2 DEF SinksKnow
  <2>2. QED
    BY <2>1, SinksMonotonic
<1>4. QED
  BY <1>1, <1>2, <1>3

(* What the leader casts keeps the clients' queues without doubles. *)
LEMMA CastOnce ==
  ASSUME CType, NEW x \in Seq(Nat), Once(x), down' = Cast(down, x),
         NEW c \in Clients, Once(down[c]), Elems(x) \cap Elems(down[c]) = {}
  PROVE  Once(down'[c]) /\ Elems(down'[c]) \subseteq Elems(down[c]) \cup Elems(x)
<1>1. down[c] \in Seq(Nat)
  <2>1. down[c] \in Seq(Made)
    BY DEF CType
  <2>2. QED
    BY <2>1, SeqMonotonic DEF Made
<1>2. down'[c] = down[c] \o x \/ down'[c] = down[c]
  BY DEF Cast
<1>3. Once(down[c] \o x) /\ Elems(down[c] \o x) = Elems(down[c]) \cup Elems(x)
  BY <1>1, OnceConcat, ElemsConcat
<1>4. QED
  BY <1>2, <1>3

(* What a user makes is applied once, where it is made. *)
LEMMA MakesOInv ==
  ASSUME OInv, HInv', HasRoom, HasRoom', NEW p \in Procs, NEW k \in Nat, Making(p, k)
  PROVE  OInv'
<1> DEFINE new == Elements(k)
<1>1. /\ CType /\ SinksKnow /\ HType /\ Distinct /\ Apart /\ Awaited /\ again = {}
      /\ L \in Procs /\ L \notin Clients /\ (\A c \in Clients : c \in Procs) /\ Len(ops) \in Nat
      /\ done \in [Procs -> SUBSET Made]
      /\ \A q \in Procs : sink[q] \in Sinks(Made)
  BY OnceFacts
<1>2. /\ NextIds(k) \in Seq(Nat) /\ Elems(NextIds(k)) = new
      /\ new \cap Made = {} /\ Once(NextIds(k))
  <2>1. /\ NextIds(k) \in Seq(Nat) /\ Elems(NextIds(k)) = new /\ new \cap Made = {}
        /\ Len(NextIds(k)) = k
    BY <1>1, NextIdsElems
  <2>2. Once(NextIds(k))
    BY <1>1, <2>1 DEF Once, NextIds
  <2>3. QED
    BY <2>1, <2>2
<1> HIDE DEF new
<1>3. /\ done' = [done EXCEPT ![p] = @ \cup new] /\ again' = again \cup ({p} \X (new \cap done[p]))
      /\ Publishes(p, NextIds(k)) /\ late' = late
  BY DEF Making, Applies, new
<1>4. AppliedOnce'
  <2>1. new \cap done[p] = {}
    BY <1>1, <1>2
  <2>2. QED
    BY <1>1, <1>3, <2>1 DEF AppliedOnce
<1>5. \A q \in Procs : done'[q] \subseteq done[q] \cup (IF q = p THEN new ELSE {})
  BY <1>1, <1>3
<1>6. \A c \in Clients : Elems(down[c]) \subseteq Made /\ Elems(up[c]) \subseteq Made
  <2>1. \A c \in Clients : down[c] \in Seq(Made) /\ up[c] \in Seq(Made)
    BY <1>1 DEF CType
  <2>2. QED
    BY <2>1, ElemsType
<1>7. CASE p = L
  <2>1. sink' = [sink EXCEPT ![L] = Confirmed(@, NextIds(k))] /\ down' = Cast(down, NextIds(k)) /\ up' = up
    BY <1>3, <1>7 DEF Publishes
  <2>2. \A c \in Clients : sink'[c] = sink[c] /\ Ahead(c)' = Ahead(c)
    BY <1>1, <1>3, <2>1 DEF SinksKnow, Ahead
  <2>3. ASSUME NEW c \in Clients
        PROVE  Once(down'[c]) /\ Elems(down'[c]) \subseteq Elems(down[c]) \cup new
    <3>1. Once(down[c]) /\ Elems(NextIds(k)) \cap Elems(down[c]) = {}
      BY <1>1, <1>2, <1>6 DEF Distinct
    <3>2. QED
      BY <1>1, <1>2, <2>1, <3>1, CastOnce
  <2>4. Distinct'
    BY <1>1, <1>3, <2>1, <2>3 DEF Distinct
  <2>5. Apart' /\ Awaited'
    <3>1. \A c \in Clients : Ahead(c)' \subseteq (Ahead(c) \ {}) \cup (IF c = p THEN new ELSE {})
      BY <2>2
    <3>2. \A c \in Clients :
            Elems(down'[c]) \subseteq (Elems(down[c]) \cup {} \cup (IF p = L THEN new ELSE {}))
                                        \ (IF c = L THEN {} ELSE {})
      BY <1>7, <2>3
    <3>3. \A q \in Procs :
           done'[q] \subseteq done[q] \cup (IF q = p THEN new ELSE {})
                                \cup (IF q = L THEN {} ELSE {}) \cup (IF q = L THEN {} ELSE {})
      BY <1>5
    <3>4. /\ \A c \in Clients :
               Elems(sink[c].pending) \ (IF c = L THEN {} ELSE {}) \subseteq Elems(sink'[c].pending)
          /\ \A c \in Clients : c = p => new \cap Ahead(c)' \subseteq Elems(sink'[c].pending)
          /\ \A x \in {} : \E c \in Clients : x \in Ahead(c)
          /\ {} # {} => L \in Clients /\ {} \subseteq Elems(down[L])
      BY <1>1, <1>7, <2>2
    <3>5. Moves(p, new, {}, L, {})
      BY <1>2, <3>1, <3>2, <3>3, <3>4 DEF Moves
    <3>6. QED
      BY <1>1, <3>5, ApartStep
  <2>6. QED
    BY <1>4, <2>4, <2>5 DEF OInv
<1>8. CASE p # L
  <2>1. p \in Clients /\ ClientPublishes(p, sink[p], NextIds(k)) /\ down' = down
    BY <1>3, <1>8 DEF Publishes, Procs
  <2>2. /\ \A d \in Clients : d # p => up'[d] = up[d] /\ sink'[d] = sink[d]
        /\ Once(up'[p])
        /\ Elems(up'[p]) \subseteq Elems(up[p]) \cup new
        /\ new \cap Elems(up'[p]) \subseteq Elems(sink'[p].pending)
        /\ Elems(sink[p].pending) \subseteq Elems(sink'[p].pending)
    <3>1. /\ Len(sink[p].pending) < PendingMax /\ Len(sink'[p].pending) < PendingMax
          /\ Once(up[p]) /\ sink[p] \in Sinks(Made)
      BY <1>1, <2>1 DEF HasRoom, Distinct
    <3>2. QED
      BY <1>1, <2>1, <3>1, ClientPublishesOnce DEF new
  <2>3. \A c \in Clients : Elems(late[c]) \subseteq Made /\ Elems(up[c]) \cap Elems(late[c]) = {}
    <3>1. \A c \in Clients : late[c] \in Seq(Made)
      BY <1>1 DEF CType
    <3>2. QED
      BY <1>1, <3>1, ElemsType DEF Distinct
  <2>4. Distinct'
    <3>1. Elems(up'[p]) \cap Elems(late[p]) = {}
      BY <1>2, <2>1, <2>2, <2>3
    <3>2. QED
      BY <1>1, <1>3, <2>1, <2>2, <3>1 DEF Distinct
  <2>5. Apart' /\ Awaited'
    <3>1. \A c \in Clients : Ahead(c)' \subseteq (Ahead(c) \ {}) \cup (IF c = p THEN new ELSE {})
      BY <1>3, <2>2 DEF Ahead
    <3>2. \A c \in Clients :
            Elems(down'[c]) \subseteq (Elems(down[c]) \cup {} \cup (IF p = L THEN new ELSE {}))
                                        \ (IF c = L THEN {} ELSE {})
      BY <2>1
    <3>3. \A q \in Procs :
           done'[q] \subseteq done[q] \cup (IF q = p THEN new ELSE {})
                                \cup (IF q = L THEN {} ELSE {}) \cup (IF q = L THEN {} ELSE {})
      BY <1>5
    <3>4. /\ \A c \in Clients :
               Elems(sink[c].pending) \ (IF c = L THEN {} ELSE {}) \subseteq Elems(sink'[c].pending)
          /\ \A x \in {} : \E c \in Clients : x \in Ahead(c)
          /\ {} # {} => L \in Clients /\ {} \subseteq Elems(down[L])
      BY <2>2
    <3>5. \A c \in Clients : c = p => new \cap Ahead(c)' \subseteq Elems(sink'[c].pending)
      BY <1>2, <1>3, <2>2, <2>3 DEF Ahead
    <3>6. Moves(p, new, {}, L, {})
      BY <1>2, <3>1, <3>2, <3>3, <3>4, <3>5 DEF Moves
    <3>7. QED
      BY <1>1, <3>6, ApartStep
  <2>6. QED
    BY <1>4, <2>4, <2>5 DEF OInv
<1>9. QED
  BY <1>7, <1>8

(* The leader applies once what it reads, and casts it once. *)
LEMMA LeaderOInv ==
  ASSUME OInv, HInv', NEW id \in Made, \E c \in Clients : id \in Ahead(c),
         LeaderConfirms(id),
         \A c \in Clients : /\ Once(up'[c]) /\ Once(late'[c]) /\ Elems(up'[c]) \cap Elems(late'[c]) = {}
                            /\ Ahead(c)' \subseteq Ahead(c) \ {id}
  PROVE  OInv'
<1> DEFINE line == ops[id].line
           k    == Answers(line)
           new  == Elements(k)
           ids  == NextIds(k)
           x    == Append(ids, id)
           foreign == IsForeign(sink[L], id)
<1>1. /\ CType /\ SinksKnow /\ HType /\ Distinct /\ Apart /\ Awaited /\ again = {}
      /\ L \in Procs /\ L \notin Clients /\ (\A c \in Clients : c \in Procs) /\ Len(ops) \in Nat
      /\ done \in [Procs -> SUBSET Made] /\ sink \in [Procs -> Sinks(Nat)] /\ id \in Nat
  BY OnceFacts DEF SinksKnow, Made
<1>2. id \notin done[L] /\ \A c \in Clients : id \notin Elems(down[c])
  BY <1>1 DEF Apart
<1>3. \A c \in Clients : Elems(down[c]) \subseteq Made
  <2>1. \A c \in Clients : down[c] \in Seq(Made)
    BY <1>1 DEF CType
  <2>2. QED
    BY <2>1, ElemsType
<1>4. \A c \in Clients : sink'[c] = sink[c]
  <2>1. \E s : sink' = [sink EXCEPT ![L] = s]
    BY DEF LeaderConfirms
  <2>2. QED
    BY <1>1, <2>1
<1>5. ASSUME NEW made, made \cap Made = {}, NEW y \in Seq(Nat), Once(y), Elems(y) = made \cup {id},
             down' = Cast(down, y), \A q \in Procs :
               done'[q] \subseteq done[q] \cup (IF q = L THEN made \cup {id} ELSE {}),
             again' = {}
      PROVE  OInv'
  <2>1. ASSUME NEW c \in Clients
        PROVE  Once(down'[c]) /\ Elems(down'[c]) \subseteq Elems(down[c]) \cup made \cup {id}
    <3>1. Once(down[c]) /\ Elems(y) \cap Elems(down[c]) = {}
      BY <1>1, <1>2, <1>3, <1>5 DEF Distinct
    <3>2. Once(down'[c]) /\ Elems(down'[c]) \subseteq Elems(down[c]) \cup Elems(y)
      BY <1>1, <1>5, <3>1, CastOnce
    <3>3. QED
      BY <1>5, <3>2
  <2>2. Distinct'
    BY <2>1 DEF Distinct
  <2>3. Moves(L, made, {id}, L, {})
    <3>1. \A c \in Clients : Ahead(c)' \subseteq (Ahead(c) \ {id}) \cup (IF c = L THEN made ELSE {})
      OBVIOUS
    <3>2. \A c \in Clients :
            Elems(down'[c]) \subseteq (Elems(down[c]) \cup {id} \cup (IF L = L THEN made ELSE {}))
                                        \ (IF c = L THEN {} ELSE {})
      BY <2>1
    <3>3. \A q \in Procs :
            done'[q] \subseteq done[q] \cup (IF q = L THEN made ELSE {})
                                 \cup (IF q = L THEN {id} ELSE {}) \cup (IF q = L THEN {} ELSE {})
      BY <1>5
    <3>4. /\ \A c \in Clients :
               Elems(sink[c].pending) \ (IF c = L THEN {} ELSE {}) \subseteq Elems(sink'[c].pending)
          /\ \A c \in Clients : c = L => made \cap Ahead(c)' \subseteq Elems(sink'[c].pending)
          /\ \A z \in {id} : \E c \in Clients : z \in Ahead(c)
          /\ {} # {} => L \in Clients /\ {} \subseteq Elems(down[L])
      BY <1>1, <1>4
    <3>5. QED
      BY <1>5, <3>1, <3>2, <3>3, <3>4 DEF Moves
  <2>4. Apart' /\ Awaited'
    BY <1>1, <2>3, ApartStep
  <2>5. QED
    BY <1>5, <2>2, <2>4 DEF OInv, AppliedOnce
<1>6. <<id>> \in Seq(Nat) /\ Once(<<id>>) /\ Elems(<<id>>) = {} \cup {id}
  BY <1>1 DEF Once, Elems
<1>7. CASE foreign /\ ops[id].kind = "command"
  <2>1. Applies(L, {id} \cup new) /\ down' = Cast(down, x)
    BY <1>7 DEF LeaderConfirms
  <2>2. k \in Nat
    <3>1. line \in Lines
      BY <1>7 DEF OInv, HInv, CInv, Commands
    <3>2. QED
      BY <3>1, ConsoleAssumption
  <2> HIDE DEF k
  <2>3. /\ ids \in Seq(Nat) /\ Elems(ids) = new /\ Len(ids) = k /\ new \cap Made = {}
        /\ ids = [i \in 1 .. k |-> Len(ops) + i]
    BY <1>1, <2>2, NextIdsElems DEF NextIds
  <2>4. Once(ids)
    BY <1>1, <2>2, <2>3 DEF Once
  <2> HIDE DEF ids, new
  <2>5. x = ids \o <<id>>
    BY <1>1, <2>3, AppendIsConcat
  <2>6. Elems(ids) \cap Elems(<<id>>) = {}
    BY <1>6, <2>3
  <2>7. ids \o <<id>> \in Seq(Nat) /\ Once(ids \o <<id>>) /\ Elems(ids \o <<id>>) = new \cup {id}
    <3> DEFINE one == <<id>>
    <3>1. /\ one \in Seq(Nat) /\ Once(one) /\ Elems(one) = {id}
          /\ Elems(ids) \cap Elems(one) = {}
      BY <1>6, <2>6
    <3> HIDE DEF one
    <3>2. Once(ids \o one)
      BY <2>3, <2>4, <3>1, OnceConcat
    <3>3. Elems(ids \o one) = new \cup {id}
      <4>1. ids \in Seq(Nat) /\ one \in Seq(Nat)
        BY <2>3, <3>1
      <4>2. Elems(ids \o one) = Elems(ids) \cup Elems(one)
        BY <4>1, ElemsConcat
      <4>3. QED
        BY <2>3, <3>1, <4>2
    <3>4. ids \o one \in Seq(Nat)
      BY <2>3, <3>1, ConcatProperties
    <3>5. QED
      BY <3>2, <3>3, <3>4 DEF one
  <2> HIDE DEF x
  <2>8. /\ done' = [done EXCEPT ![L] = @ \cup ({id} \cup new)]
        /\ again' = again \cup ({L} \X (({id} \cup new) \cap done[L]))
    BY <2>1 DEF Applies
  <2>9. again' = {}
    <3>1. ({id} \cup new) \cap done[L] = {}
      BY <1>1, <1>2, <2>3
    <3>2. QED
      BY <1>1, <2>8, <3>1
  <2>10. \A q \in Procs : done'[q] \subseteq done[q] \cup (IF q = L THEN new \cup {id} ELSE {})
    BY <1>1, <2>8
  <2>11. x \in Seq(Nat) /\ Once(x) /\ Elems(x) = new \cup {id}
    BY <2>5, <2>7
  <2>12. QED
    BY <1>5, <2>1, <2>3, <2>9, <2>10, <2>11
<1>8. CASE foreign /\ ops[id].kind # "command"
  <2>1. Applies(L, {id}) /\ down' = Cast(down, <<id>>)
    BY <1>8 DEF LeaderConfirms
  <2>2. done' = [done EXCEPT ![L] = @ \cup {id}] /\ again' = again \cup ({L} \X ({id} \cap done[L]))
    BY <2>1 DEF Applies
  <2>3. again' = {}
    <3>1. {id} \cap done[L] = {}
      BY <1>2
    <3>2. QED
      BY <1>1, <2>2, <3>1
  <2>4. \A q \in Procs : done'[q] \subseteq done[q] \cup (IF q = L THEN {} \cup {id} ELSE {})
    BY <1>1, <2>2
  <2>5. {} \cap Made = {}
    OBVIOUS
  <2>6. QED
    BY <1>5, <1>6, <2>1, <2>3, <2>4, <2>5
<1>9. CASE ~foreign
  <2>1. done' = done /\ again' = again /\ down' = Cast(down, <<id>>)
    BY <1>9 DEF LeaderConfirms
  <2>2. \A q \in Procs : done'[q] \subseteq done[q] \cup (IF q = L THEN {} \cup {id} ELSE {})
    BY <2>1
  <2>3. {} \cap Made = {} /\ again' = {}
    BY <1>1, <2>1
  <2>4. QED
    BY <1>5, <1>6, <2>1, <2>2, <2>3
<1>10. QED
  BY <1>7, <1>8, <1>9

(* A client applies once what it hears from others, and its own not again. *)
LEMMA ClientHearsOInv ==
  ASSUME OInv, HInv', HasRoom, HasRoom', NEW c \in Clients, ClientHears(c)
  PROVE  OInv'
<1> DEFINE id   == Head(down[c])
           line == ops[id].line
           k    == Answers(line)
           s    == Settled(sink[c], id)
           ids  == NextIds(k)
           foreign == IsForeign(sink[c], id)
<1>1. /\ CType /\ SinksKnow /\ HType /\ Distinct /\ Apart /\ Awaited /\ again = {}
      /\ L \in Procs /\ L \notin Clients /\ (\A d \in Clients : d \in Procs) /\ Len(ops) \in Nat
      /\ done \in [Procs -> SUBSET Made] /\ sink \in [Procs -> Sinks(Nat)]
      /\ sink[c] \in Sinks(Made) /\ down \in [Clients -> Seq(Made)]
      /\ \A d \in Clients : up[d] \in Seq(Made) /\ late[d] \in Seq(Made) /\ down[d] \in Seq(Made)
  BY OnceFacts DEF SinksKnow, CType
<1>2. down[c] # <<>> /\ down' = [down EXCEPT ![c] = Tail(@)] /\ late' = late
  BY DEF ClientHears
<1>3. /\ id \in Made /\ id \in Elems(down[c]) /\ Once(Tail(down[c]))
      /\ Elems(Tail(down[c])) = Elems(down[c]) \ {id}
  <2>1. Once(down[c]) /\ down[c] \in Seq(Made)
    BY <1>1 DEF Distinct
  <2>2. QED
    BY <1>2, <2>1, OnceTail
<1> HIDE DEF id
<1>4. /\ \A d \in Clients : Once(down'[d])
      /\ \A d \in Clients : Elems(down'[d]) = Elems(down[d]) \ (IF d = c THEN {id} ELSE {})
  <2>1. \A d \in Clients : down'[d] = IF d = c THEN Tail(down[c]) ELSE down[d]
    BY <1>1, <1>2, Zenon
  <2>2. QED
    BY <1>1, <1>3, <2>1 DEF Distinct
<1>5. /\ s \in Sinks(Made) /\ Elems(sink[c].pending) \ {id} \subseteq Elems(s.pending)
      /\ Len(s.pending) <= Len(sink[c].pending)
  BY <1>1, <1>3, SettledType
<1> HIDE DEF s
<1>6. foreign => id \notin done[c]
  <2>1. foreign => id \notin Elems(sink[c].pending)
    BY DEF IsForeign
  <2>2. QED
    BY <1>1, <1>3, <2>1 DEF Awaited
<1>7. ASSUME NEW made, made \cap Made = {},
             \A d \in Clients : d # c => up'[d] = up[d],
             Once(up'[c]), Elems(up'[c]) \subseteq Elems(up[c]) \cup made,
             \A q \in Procs :
               done'[q] \subseteq done[q] \cup (IF q = c THEN made \cup {id} ELSE {}),
             again' = {},
             \A d \in Clients : d # c => sink'[d] = sink[d],
             Elems(sink[c].pending) \ {id} \subseteq Elems(sink'[c].pending),
             made \cap Elems(up'[c]) \subseteq Elems(sink'[c].pending)
      PROVE  OInv'
  <2>1. \A d \in Clients : Elems(late[d]) \subseteq Made /\ Elems(late'[d]) = Elems(late[d])
    BY <1>1, <1>2, ElemsType
  <2>2. Distinct'
    <3>1. Elems(up'[c]) \cap Elems(late[c]) = {}
      BY <1>1, <1>7, <2>1 DEF Distinct
    <3>2. QED
      BY <1>1, <1>2, <1>4, <1>7, <3>1 DEF Distinct
  <2>3. Moves(c, made, {}, c, {id})
    <3>1. \A d \in Clients : Ahead(d)' \subseteq (Ahead(d) \ {}) \cup (IF d = c THEN made ELSE {})
      BY <1>7, <2>1 DEF Ahead
    <3>2. \A d \in Clients :
            Elems(down'[d]) \subseteq (Elems(down[d]) \cup {} \cup (IF c = L THEN made ELSE {}))
                                        \ (IF d = c THEN {id} ELSE {})
      BY <1>4
    <3>3. \A q \in Procs :
            done'[q] \subseteq done[q] \cup (IF q = c THEN made ELSE {})
                                 \cup (IF q = L THEN {} ELSE {}) \cup (IF q = c THEN {id} ELSE {})
      BY <1>7
    <3>4. /\ \A d \in Clients :
               Elems(sink[d].pending) \ (IF d = c THEN {id} ELSE {}) \subseteq Elems(sink'[d].pending)
          /\ \A z \in {} : \E d \in Clients : z \in Ahead(d)
          /\ {id} # {} => c \in Clients /\ {id} \subseteq Elems(down[c])
      BY <1>3, <1>7
    <3>5. \A d \in Clients : d = c => made \cap Ahead(d)' \subseteq Elems(sink'[d].pending)
      BY <1>7, <2>1 DEF Ahead
    <3>6. QED
      BY <1>7, <3>1, <3>2, <3>3, <3>4, <3>5 DEF Moves
  <2>4. Apart' /\ Awaited'
    BY <1>1, <2>3, ApartStep
  <2>5. QED
    BY <1>7, <2>2, <2>4 DEF OInv, AppliedOnce
<1>8. CASE foreign /\ ops[id].kind = "command" /\ c \in onstar
  <2> DEFINE new == Elements(k)
  <2>1. Applies(c, {id} \cup new) /\ ClientPublishes(c, s, ids)
    BY <1>8 DEF ClientHears, s, id
  <2>2. k \in Nat
    <3>1. line \in Lines
      BY <1>3, <1>8 DEF OInv, HInv, CInv, Commands
    <3>2. QED
      BY <3>1, ConsoleAssumption
  <2> HIDE DEF k
  <2>3. /\ \A d \in Clients : d # c => up'[d] = up[d] /\ sink'[d] = sink[d]
        /\ Once(up'[c])
        /\ Elems(up'[c]) \subseteq Elems(up[c]) \cup new
        /\ new \cap Elems(up'[c]) \subseteq Elems(sink'[c].pending)
        /\ Elems(s.pending) \subseteq Elems(sink'[c].pending)
    <3>1. Once(up[c]) /\ Len(sink'[c].pending) < PendingMax
      BY <1>1 DEF Distinct, HasRoom
    <3>2. Len(s.pending) < PendingMax
      <4>1. Len(sink[c].pending) < PendingMax
        BY DEF HasRoom
      <4>2. Len(s.pending) \in Nat /\ Len(sink[c].pending) \in Nat /\ PendingMax \in Nat
        <5>1. s.pending \in Seq(Made) /\ sink[c].pending \in Seq(Made)
          BY <1>1, <1>5 DEF Sinks
        <5>2. QED
          BY <5>1, LenProperties, ConsoleAssumption
      <4>3. QED
        BY <1>5, <4>1, <4>2
    <3>3. QED
      BY <1>1, <1>5, <2>1, <2>2, <3>1, <3>2, ClientPublishesOnce
  <2>4. new \cap Made = {}
    BY <1>1, <2>2, NextIdsElems
  <2> HIDE DEF new
  <2>5. /\ done' = [done EXCEPT ![c] = @ \cup ({id} \cup new)]
        /\ again' = again \cup ({c} \X (({id} \cup new) \cap done[c]))
    BY <2>1 DEF Applies
  <2>6. again' = {}
    <3>1. ({id} \cup new) \cap done[c] = {}
      BY <1>1, <1>6, <1>8, <2>4
    <3>2. QED
      BY <1>1, <2>5, <3>1
  <2>7. \A q \in Procs : done'[q] \subseteq done[q] \cup (IF q = c THEN new \cup {id} ELSE {})
    BY <1>1, <2>5
  <2>8. Elems(sink[c].pending) \ {id} \subseteq Elems(sink'[c].pending)
    BY <1>5, <2>3
  <2>9. QED
    BY <1>7, <2>3, <2>4, <2>6, <2>7, <2>8
<1>9. ASSUME up' = up, sink' \in {sink, [sink EXCEPT ![c] = s]},
             \A q \in Procs : done'[q] \subseteq done[q] \cup (IF q = c THEN {} \cup {id} ELSE {}),
             again' = {}
      PROVE  OInv'
  <2>1. /\ {} \cap Made = {} /\ Once(up'[c]) /\ Elems(up'[c]) \subseteq Elems(up[c]) \cup {}
        /\ \A d \in Clients : d # c => up'[d] = up[d] /\ sink'[d] = sink[d]
        /\ {} \cap Elems(up'[c]) \subseteq Elems(sink'[c].pending)
    BY <1>1, <1>9 DEF Distinct
  <2>2. sink'[c] \in {sink[c], s}
    BY <1>1, <1>9
  <2>3. Elems(sink[c].pending) \ {id} \subseteq Elems(sink'[c].pending)
    BY <1>5, <2>2
  <2>4. QED
    BY <1>7, <1>9, <2>1, <2>3
<1>10. CASE foreign /\ ops[id].kind # "command" /\ c \in onstar
  <2>1. Applies(c, {id}) /\ sink' = [sink EXCEPT ![c] = s] /\ up' = up
    BY <1>10 DEF ClientHears, s, id
  <2>2. done' = [done EXCEPT ![c] = @ \cup {id}] /\ again' = again \cup ({c} \X ({id} \cap done[c]))
    BY <2>1 DEF Applies
  <2>3. again' = {}
    <3>1. {id} \cap done[c] = {}
      BY <1>6, <1>10
    <3>2. QED
      BY <1>1, <2>2, <3>1
  <2>4. \A q \in Procs : done'[q] \subseteq done[q] \cup (IF q = c THEN {} \cup {id} ELSE {})
    BY <1>1, <2>2
  <2>5. QED
    BY <1>9, <2>1, <2>3, <2>4
<1>11. CASE ~foreign \/ c \notin onstar
  <2>1. /\ sink' \in {sink, [sink EXCEPT ![c] = s]} /\ up' = up /\ done' = done /\ again' = again
    BY <1>11 DEF ClientHears, s, id
  <2>2. \A q \in Procs : done'[q] \subseteq done[q] \cup (IF q = c THEN {} \cup {id} ELSE {})
    BY <2>1
  <2>3. QED
    BY <1>1, <1>9, <2>1, <2>2
<1>12. QED
  BY <1>8, <1>10, <1>11

(* A connection that is left keeps what is on its way, in one queue. *)
LEMMA ConnectionOInv ==
  ASSUME OInv, HInv', NEW c \in Clients, Join(c) \/ Leave(c) \/ LeaderLoses(c)
  PROVE  OInv'
<1>1. /\ CType /\ SinksKnow /\ HType /\ Distinct /\ Apart /\ Awaited /\ again = {}
      /\ L \in Procs /\ L \notin Clients /\ (\A d \in Clients : d \in Procs) /\ Len(ops) \in Nat
      /\ done \in [Procs -> SUBSET Made]
  BY OnceFacts
<1>2. /\ up \in [Clients -> Seq(Made)] /\ late \in [Clients -> Seq(Made)]
      /\ down \in [Clients -> Seq(Made)]
      /\ sink' = sink /\ done' = done /\ again' = again
  BY <1>1 DEF CType, Join, Leave, LeaderLoses
<1>3. Once(<<>>) /\ Elems(<<>>) = {}
  BY DEF Once, Elems
<1>4. /\ \A d \in Clients : /\ Once(up'[d]) /\ Once(late'[d]) /\ Once(down'[d])
                            /\ Elems(up'[d]) \cap Elems(late'[d]) = {}
      /\ \A d \in Clients : Ahead(d)' \subseteq Ahead(d) /\ Elems(down'[d]) \subseteq Elems(down[d])
  <2>1. CASE Join(c)
    BY <1>1, <2>1 DEF Join, Distinct, Ahead
  <2>2. CASE Leave(c)
    <3> DEFINE q == late[c] \o up[c]
    <3>1. late[c] \in Seq(Made) /\ up[c] \in Seq(Made)
      BY <1>2
    <3>2. Once(q) /\ Elems(q) = Elems(late[c]) \cup Elems(up[c])
      BY <1>1, <3>1, OnceConcat, ElemsConcat DEF Distinct
    <3> HIDE DEF q
    <3>3. /\ late'[c] = q /\ up'[c] = <<>> /\ down'[c] = <<>>
          /\ \A d \in Clients : d # c => late'[d] = late[d] /\ up'[d] = up[d] /\ down'[d] = down[d]
      BY <1>2, <2>2 DEF Leave, q
    <3>4. QED
      BY <1>1, <1>3, <3>2, <3>3 DEF Distinct, Ahead
  <2>3. CASE LeaderLoses(c)
    <3>1. /\ late'[c] = <<>> /\ up' = up /\ down' = down
          /\ \A d \in Clients : d # c => late'[d] = late[d]
      BY <1>2, <2>3 DEF LeaderLoses
    <3>2. QED
      BY <1>1, <1>3, <3>1 DEF Distinct, Ahead
  <2>4. QED
    BY <2>1, <2>2, <2>3
<1>5. Distinct'
  BY <1>4 DEF Distinct
<1>6. Moves(L, {}, {}, L, {})
  BY <1>2, <1>4 DEF Moves
<1>7. Apart' /\ Awaited'
  BY <1>1, <1>6, ApartStep
<1>8. QED
  BY <1>1, <1>2, <1>5, <1>7 DEF OInv, AppliedOnce

(* While there is room no step applies anything twice. *)
LEMMA NextOInv == ASSUME OInv, HasRoom, HasRoom', [Next]_vars PROVE OInv'
<1>1. CInv /\ CInv' /\ HInv /\ HInv'
  BY NextCInv, NextHInv DEF OInv, HInv
<1>2. CASE UNCHANGED vars
  BY <1>1, <1>2 DEF OInv, Distinct, Apart, Ahead, Awaited, AppliedOnce, vars
<1>3. ASSUME NEW p \in Procs, Edit(p) \/ Drag(p) \/ \E line \in Lines : Commit(p, line)
      PROVE  OInv'
  <2>1. PICK k \in Nat : Making(p, k)
    BY <1>1, <1>3, UsersMake
  <2>2. QED
    BY <1>1, <2>1, MakesOInv
<1>4. /\ Distinct /\ Apart
      /\ up \in [Clients -> Seq(Made)] /\ late \in [Clients -> Seq(Made)]
  BY <1>1 DEF OInv, CInv, CType
<1>5. ASSUME NEW c \in Clients, LeaderReads(c) PROVE OInv'
  <2> DEFINE id == Head(up[c])
  <2>1. up[c] \in Seq(Made) /\ up[c] # <<>> /\ Once(up[c])
    BY <1>4, <1>5 DEF LeaderReads, Distinct
  <2>2. /\ id \in Made /\ id \in Elems(up[c]) /\ Once(Tail(up[c]))
        /\ Elems(Tail(up[c])) = Elems(up[c]) \ {id}
    BY <2>1, OnceTail
  <2>3. LeaderConfirms(id) /\ up' = [up EXCEPT ![c] = Tail(@)] /\ late' = late
    BY <1>5 DEF LeaderReads
  <2> HIDE DEF id
  <2>4. up'[c] = Tail(up[c]) /\ \A d \in Clients : d # c => up'[d] = up[d]
    BY <1>4, <2>3
  <2>5. id \in Ahead(c) /\ \A d \in Clients : d # c => id \notin Ahead(d)
    <3>1. id \in Ahead(c)
      BY <2>2 DEF Ahead
    <3>2. QED
      BY <1>4, <3>1 DEF Apart
  <2>6. \A d \in Clients : /\ Once(up'[d]) /\ Once(late'[d]) /\ Elems(up'[d]) \cap Elems(late'[d]) = {}
                           /\ Ahead(d)' \subseteq Ahead(d) \ {id}
    <3>1. \A d \in Clients : Once(up[d]) /\ Once(late[d]) /\ Elems(up[d]) \cap Elems(late[d]) = {}
      BY <1>4 DEF Distinct
    <3>2. Ahead(c)' \subseteq Ahead(c) \ {id}
      BY <2>2, <2>3, <2>4, <3>1 DEF Ahead
    <3>3. \A d \in Clients : d # c => Ahead(d)' = Ahead(d)
      BY <2>3, <2>4 DEF Ahead
    <3>4. QED
      BY <2>2, <2>3, <2>4, <2>5, <3>1, <3>2, <3>3
  <2>7. QED
    BY <1>1, <2>2, <2>3, <2>5, <2>6, LeaderOInv
<1>6. ASSUME NEW c \in Clients, LeaderReadsLate(c) PROVE OInv'
  <2> DEFINE id == Head(late[c])
  <2>1. late[c] \in Seq(Made) /\ late[c] # <<>> /\ Once(late[c])
    BY <1>4, <1>6 DEF LeaderReadsLate, Distinct
  <2>2. /\ id \in Made /\ id \in Elems(late[c]) /\ Once(Tail(late[c]))
        /\ Elems(Tail(late[c])) = Elems(late[c]) \ {id}
    BY <2>1, OnceTail
  <2>3. LeaderConfirms(id) /\ late' = [late EXCEPT ![c] = Tail(@)] /\ up' = up
    BY <1>6 DEF LeaderReadsLate
  <2> HIDE DEF id
  <2>4. late'[c] = Tail(late[c]) /\ \A d \in Clients : d # c => late'[d] = late[d]
    BY <1>4, <2>3
  <2>5. id \in Ahead(c) /\ \A d \in Clients : d # c => id \notin Ahead(d)
    <3>1. id \in Ahead(c)
      BY <2>2 DEF Ahead
    <3>2. QED
      BY <1>4, <3>1 DEF Apart
  <2>6. \A d \in Clients : /\ Once(up'[d]) /\ Once(late'[d]) /\ Elems(up'[d]) \cap Elems(late'[d]) = {}
                           /\ Ahead(d)' \subseteq Ahead(d) \ {id}
    <3>1. \A d \in Clients : Once(up[d]) /\ Once(late[d]) /\ Elems(up[d]) \cap Elems(late[d]) = {}
      BY <1>4 DEF Distinct
    <3>2. Ahead(c)' \subseteq Ahead(c) \ {id}
      BY <2>2, <2>3, <2>4, <3>1 DEF Ahead
    <3>3. \A d \in Clients : d # c => Ahead(d)' = Ahead(d)
      BY <2>3, <2>4 DEF Ahead
    <3>4. QED
      BY <2>2, <2>3, <2>4, <2>5, <3>1, <3>2, <3>3
  <2>7. QED
    BY <1>1, <2>2, <2>3, <2>5, <2>6, LeaderOInv
<1>7. ASSUME NEW c \in Clients,
             ClientHears(c) \/ LeaderLoses(c) \/ Join(c) \/ Leave(c)
      PROVE  OInv'
  BY <1>1, <1>7, ClientHearsOInv, ConnectionOInv
<1>8. QED
  BY <1>2, <1>3, <1>5, <1>6, <1>7 DEF Next

(* No effect is applied twice while no client's window of pending          *)
(* operations is full, for every number of clients and users: through      *)
(* answers from inside a confirmation, connections lost with operations on *)
(* them and echoes on the next one, and whatever the window of applied     *)
(* operations has forgotten (console_sink.c:87-146).                       *)
THEOREM AppliesOnce == Spec /\ []HasRoom => []AppliedOnce
<1>1. Init => OInv
  <2>1. ASSUME Init PROVE OInv
    <3>1. HInv
      BY <2>1, InitHInv
    <3>2. Once(<<>>) /\ Elems(<<>>) = {}
      BY DEF Once, Elems
    <3>3. /\ up = [c \in Clients |-> <<>>] /\ late = [c \in Clients |-> <<>>]
          /\ down = [c \in Clients |-> <<>>] /\ again = {}
      BY <2>1 DEF Init
    <3>4. \A c \in Clients : Ahead(c) = {} /\ Elems(down[c]) = {}
      BY <3>2, <3>3 DEF Ahead
    <3>5. Distinct
      BY <3>2, <3>3 DEF Distinct
    <3>6. Apart /\ Awaited
      BY <3>4 DEF Apart, Awaited
    <3>7. QED
      BY <3>1, <3>3, <3>5, <3>6 DEF OInv, AppliedOnce
  <2>2. QED
    BY <2>1
<1>2. OInv /\ HasRoom /\ HasRoom' /\ [Next]_vars => OInv'
  BY NextOInv
<1>3. OInv => AppliedOnce
  BY DEF OInv
<1>4. QED
  BY <1>1, <1>2, <1>3, PTL DEF Spec
=============================================================================

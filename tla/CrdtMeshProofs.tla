---------------------------- MODULE CrdtMeshProofs --------------------------
(***************************************************************************)
(* Theorems about the mesh for every number of processes, connections,     *)
(* peers and operations and every shape of the mesh, cycles, double and    *)
(* self-connections included; and, at the end, about the table in which a  *)
(* process remembers the operations it has seen, for every set of keys,    *)
(* every capacity it starts with and every hash function.                  *)
(***************************************************************************)
EXTENDS CrdtMesh, DedupTable, SequenceTheorems, FiniteSetTheorems,
        WellFoundedInduction, TLAPS

-----------------------------------------------------------------------------
(* Loops that count: recursive functions on 0 .. n, and induction on the   *)
(* set of the numbers at which a claim holds                               *)

(* A set of numbers that is not empty has a least one. *)
LEMMA NatMin ==
  ASSUME NEW S \in SUBSET Nat, S # {}
  PROVE  \E m \in S : \A x \in S : m <= x
<1> DEFINE R == OpToRel(<, Nat)
<1>1. IsWellFoundedOn(R, Nat)
  BY NatLessThanWellFounded
<1>2. \A x, y \in Nat : x < y => <<x, y>> \in R
  BY DEF OpToRel
<1> HIDE DEF R
<1>3. \E m \in S : \A x \in S : ~(<<x, m>> \in R)
  BY <1>1, WFMin
<1>4. PICK m \in S : \A x \in S : ~(<<x, m>> \in R)
  BY <1>3
<1>5. \A x \in S : ~(x < m)
  BY <1>2, <1>4
<1>6. \A x \in S : m <= x
  BY <1>5
<1> QED BY <1>6

(* A set of numbers that has 0, and the next of each of its numbers below  *)
(* n, has all numbers up to n.                                             *)
LEMMA Climbs ==
  ASSUME NEW n \in Nat, NEW T, 0 \in T, \A i \in 1 .. n : i - 1 \in T => i \in T
  PROVE  \A i \in 0 .. n : i \in T
<1> DEFINE S == (0 .. n) \ T
<1>1. SUFFICES ASSUME S # {} PROVE FALSE
  OBVIOUS
<1>2. S \in SUBSET Nat
  OBVIOUS
<1>3. PICK m \in S : \A x \in S : m <= x
  BY <1>1, <1>2, NatMin
<1>4. m \in 1 .. n
  BY <1>3
<1>5. m - 1 \in 0 .. n /\ m - 1 \notin S
  BY <1>3, <1>4
<1>6. QED
  BY <1>3, <1>4, <1>5

(* The steps of a count in S that goes from 0 to n.                        *)
Steps(n, S) == [1 .. n -> [S -> S]]

(* f is such a count.                                                     *)
Counts(f, n, S, v, g) ==
  /\ f \in [0 .. n -> S]
  /\ f[0] = v
  /\ \A i \in 1 .. n : f[i] = g[i][f[i - 1]]

(* There is a function that is counted up in this way. *)
LEMMA CountedUp ==
  ASSUME NEW n \in Nat, NEW S, NEW v \in S, NEW g \in Steps(n, S)
  PROVE  \E f : Counts(f, n, S, v, g)
<1> USE DEF Steps
<1> DEFINE P(m) == \E f \in [0 .. m -> S] :
                     f[0] = v /\ \A i \in 1 .. m : f[i] = g[i][f[i - 1]]
           T == {m \in 0 .. n : P(m)}
<1>0. \A m : m \in T <=> m \in 0 .. n /\ P(m)
  OBVIOUS
<1> HIDE DEF T
<1>1. 0 \in T
  <2> DEFINE f == [i \in 0 .. 0 |-> v]
  <2>1. f \in [0 .. 0 -> S] /\ f[0] = v
    OBVIOUS
  <2>2. \A i \in 1 .. 0 : f[i] = g[i][f[i - 1]]
    OBVIOUS
  <2> HIDE DEF f
  <2>3. P(0)
    BY <2>1, <2>2
  <2> HIDE DEF P
  <2>4. 0 \in 0 .. n
    OBVIOUS
  <2>5. QED
    BY <1>0, <2>3, <2>4
<1>2. ASSUME NEW m \in 1 .. n, m - 1 \in T PROVE m \in T
  <2>1. PICK f \in [0 .. m - 1 -> S] :
          f[0] = v /\ \A i \in 1 .. m - 1 : f[i] = g[i][f[i - 1]]
    BY <1>0, <1>2
  <2> DEFINE h == [i \in 0 .. m |-> IF i = m THEN g[m][f[m - 1]] ELSE f[i]]
  <2>2. f[m - 1] \in S /\ g[m] \in [S -> S]
    OBVIOUS
  <2>3. h \in [0 .. m -> S]
    BY <2>2
  <2>4. h[0] = v
    BY <2>1
  <2>5. ASSUME NEW i \in 1 .. m PROVE h[i] = g[i][h[i - 1]]
    <3>1. i - 1 \in 0 .. m /\ i - 1 # m /\ i \in 0 .. m
      OBVIOUS
    <3>2. h[i - 1] = f[i - 1]
      BY <3>1
    <3>3. CASE i = m
      BY <3>1, <3>2, <3>3
    <3>4. CASE i # m
      BY <2>1, <3>1, <3>2, <3>4
    <3>5. QED
      BY <3>3, <3>4
  <2> HIDE DEF h
  <2>6. h[0] = v /\ \A i \in 1 .. m : h[i] = g[i][h[i - 1]]
    BY <2>4, <2>5
  <2>7. P(m)
    BY <2>3, <2>6, Zenon
  <2> HIDE DEF P
  <2>8. m \in 0 .. n
    OBVIOUS
  <2>9. QED
    BY <1>0, <2>7, <2>8
<1> HIDE DEF P
<1>3. \A i \in 1 .. n : i - 1 \in T => i \in T
  BY <1>2
<1>4. \A i \in 0 .. n : i \in T
  BY <1>1, <1>3, Climbs
<1>5. P(n)
  BY <1>0, <1>4
<1>6. QED
  BY <1>5 DEF P, Counts

-----------------------------------------------------------------------------
Shape == [st : {"none", "dialing", "peer", "closed"}, wire : Seq(Nat),
          got : Nat, base : Nat]

MeshType ==
  /\ link \in [Links -> Link]
  /\ end \in [Ends -> Shape]
  /\ ops \in Seq([from : Nodes, kind : {"line", "command", "answer"}])
  /\ seen \in [Nodes -> Seq(Nat)]
  /\ heard \in [Nodes -> Seq(Nat)]
  /\ listening \in [Nodes -> BOOLEAN]

(* Nothing was sent or read at an end that is no peer, nothing is read     *)
(* before it is sent, and only a connection that was made has peers.       *)
EndsFit ==
  \A e \in Ends :
    /\ end[e].st # "peer" => end[e].wire = <<>> /\ end[e].got = 0
    /\ end[e].got <= Len(end[Opposite(e)].wire)
    /\ link[e[1]].phase = "unused" => end[e].st = "none"
    /\ link[e[1]].phase = "syn" => end[e].st # "peer"
    /\ link[e[1]].phase # "unused" => link[e[1]].pair \in Nodes \X Nodes

(* What is known was published, and what is heard or sent is known. *)
Known ==
  /\ \A n \in Nodes : Elems(seen[n]) \subseteq 1 .. Len(ops)
  /\ \A n \in Nodes : Elems(heard[n]) \subseteq Elems(seen[n])
  /\ \A e \in Ends : end[e].st = "peer" =>
       Elems(end[e].wire) \subseteq Elems(seen[NodeOf(e)])

IInv == MeshType /\ EndsFit /\ Known /\ HeardOnce /\ CrossesOnce /\ LinkAgree

-----------------------------------------------------------------------------
(* Lemmas on sequences of operations *)

(* What is in one sequence or the other is in both put together. *)
LEMMA ElemsConcat ==
  ASSUME NEW s \in Seq(Nat), NEW t \in Seq(Nat)
  PROVE  /\ s \o t \in Seq(Nat)
         /\ Elems(s \o t) = Elems(s) \cup Elems(t)
<1>1. /\ s \o t \in Seq(Nat)
      /\ Len(s \o t) = Len(s) + Len(t)
      /\ \A i \in 1 .. Len(s) : (s \o t)[i] = s[i]
      /\ \A i \in 1 .. Len(t) : (s \o t)[Len(s) + i] = t[i]
  OBVIOUS
<1>2. DOMAIN s = 1 .. Len(s) /\ DOMAIN t = 1 .. Len(t)
      /\ DOMAIN (s \o t) = 1 .. Len(s) + Len(t)
  BY <1>1
<1>3. ASSUME NEW x \in Elems(s \o t) PROVE x \in Elems(s) \cup Elems(t)
  <2>1. PICK i \in 1 .. Len(s) + Len(t) : x = (s \o t)[i]
    BY <1>2 DEF Elems
  <2>2. CASE i <= Len(s)
    BY <1>1, <1>2, <2>1, <2>2 DEF Elems
  <2>3. CASE i > Len(s)
    <3>1. i - Len(s) \in 1 .. Len(t) /\ i = Len(s) + (i - Len(s))
      BY <2>3
    <3>2. QED
      BY <1>1, <1>2, <2>1, <3>1 DEF Elems
  <2>4. QED
    BY <2>2, <2>3
<1>4. ASSUME NEW x \in Elems(s) PROVE x \in Elems(s \o t)
  BY <1>1, <1>2 DEF Elems
<1>5. ASSUME NEW x \in Elems(t) PROVE x \in Elems(s \o t)
  <2>1. PICK i \in 1 .. Len(t) : x = t[i]
    BY <1>2 DEF Elems
  <2>2. Len(s) + i \in DOMAIN (s \o t)
    BY <1>2
  <2>3. QED
    BY <1>1, <2>1, <2>2 DEF Elems
<1>6. QED
  BY <1>1, <1>3, <1>4, <1>5

(* Two sequences without repetitions and nothing in common. *)
LEMMA DistinctConcat ==
  ASSUME NEW s \in Seq(Nat), NEW t \in Seq(Nat), Distinct(s), Distinct(t),
         Elems(s) \cap Elems(t) = {}
  PROVE  Distinct(s \o t)
<1>1. /\ DOMAIN s = 1 .. Len(s) /\ DOMAIN t = 1 .. Len(t)
      /\ DOMAIN (s \o t) = 1 .. Len(s) + Len(t)
      /\ \A i \in 1 .. Len(s) : (s \o t)[i] = s[i]
      /\ \A i \in 1 .. Len(t) : (s \o t)[Len(s) + i] = t[i]
  OBVIOUS
<1>2. ASSUME NEW i \in 1 .. Len(s) + Len(t), i > Len(s)
      PROVE  i - Len(s) \in DOMAIN t /\ (s \o t)[i] = t[i - Len(s)]
  <2>1. i - Len(s) \in 1 .. Len(t) /\ i = Len(s) + (i - Len(s))
    BY <1>2
  <2>2. QED
    BY <1>1, <2>1
<1>3. ASSUME NEW i \in DOMAIN (s \o t), NEW j \in DOMAIN (s \o t), i # j
      PROVE  (s \o t)[i] # (s \o t)[j]
  <2>1. CASE i <= Len(s) /\ j <= Len(s)
    BY <1>1, <1>3, <2>1 DEF Distinct
  <2>2. CASE i > Len(s) /\ j > Len(s)
    <3>1. i - Len(s) # j - Len(s)
      BY <1>1, <1>3
    <3>2. QED
      BY <1>1, <1>2, <2>2, <3>1 DEF Distinct
  <2>3. CASE i <= Len(s) /\ j > Len(s)
    <3>1. (s \o t)[i] \in Elems(s) /\ (s \o t)[j] \in Elems(t)
      BY <1>1, <1>2, <2>3 DEF Elems
    <3>2. QED
      BY <3>1
  <2>4. CASE i > Len(s) /\ j <= Len(s)
    <3>1. (s \o t)[j] \in Elems(s) /\ (s \o t)[i] \in Elems(t)
      BY <1>1, <1>2, <2>4 DEF Elems
    <3>2. QED
      BY <3>1
  <2>5. QED
    BY <1>1, <2>1, <2>2, <2>3, <2>4
<1>4. QED
  BY <1>3 DEF Distinct

(* What is unread is what was sent behind the last that was read. *)
LEMMA RestElems ==
  ASSUME NEW w \in Seq(Nat), NEW g \in Nat
  PROVE  /\ Elems(SubSeq(w, g + 1, Len(w))) = {w[i] : i \in g + 1 .. Len(w)}
         /\ SubSeq(w, g + 1, Len(w)) # <<>> =>
              /\ g + 1 \in DOMAIN w
              /\ Head(SubSeq(w, g + 1, Len(w))) = w[g + 1]
<1> DEFINE u == SubSeq(w, g + 1, Len(w))
<1> HIDE DEF u
<1>1. CASE g + 1 <= Len(w)
  <2>1. /\ u \in Seq(Nat) /\ Len(u) = Len(w) - g
        /\ \A i \in 1 .. Len(w) - g : u[i] = w[g + i]
    <3>1. \A i \in g + 1 .. Len(w) : w[i] \in Nat
      OBVIOUS
    <3>2. /\ u \in Seq(Nat) /\ Len(u) = Len(w) - (g + 1) + 1
          /\ \A i \in 1 .. Len(w) - (g + 1) + 1 : u[i] = w[(g + 1) + i - 1]
      BY <1>1, <3>1, SubSeqProperties DEF u
    <3>3. QED
      BY <3>2
  <2>2. DOMAIN u = 1 .. Len(w) - g
    BY <2>1
  <2>3. ASSUME NEW i \in g + 1 .. Len(w)
        PROVE  i - g \in DOMAIN u /\ u[i - g] = w[i]
    BY <2>1, <2>2
  <2>4. Elems(u) = {w[i] : i \in g + 1 .. Len(w)}
    <3>1. ASSUME NEW i \in 1 .. Len(w) - g
          PROVE  g + i \in g + 1 .. Len(w) /\ u[i] = w[g + i]
      BY <1>1, <2>1
    <3>2. Elems(u) \subseteq {w[i] : i \in g + 1 .. Len(w)}
      BY <2>2, <3>1 DEF Elems
    <3>3. {w[i] : i \in g + 1 .. Len(w)} \subseteq Elems(u)
      BY <2>3 DEF Elems
    <3>4. QED
      BY <3>2, <3>3
  <2>5. g + 1 \in DOMAIN w /\ Head(u) = w[g + 1]
    BY <1>1, <2>1
  <2>6. QED
    BY <2>4, <2>5 DEF u
<1>2. CASE g + 1 > Len(w)
  <2>1. u = <<>>
    BY <1>2, SubSeqEmpty DEF u
  <2>2. Elems(u) = {} /\ {w[i] : i \in g + 1 .. Len(w)} = {}
    BY <1>2, <2>1 DEF Elems
  <2>3. QED
    BY <2>1, <2>2 DEF u
<1>3. QED
  BY <1>1, <1>2

(* What stands behind the last that was read is unread. *)
LEMMA RestHas ==
  ASSUME NEW w \in Seq(Nat), NEW g \in Nat, NEW i \in g + 1 .. Len(w)
  PROVE  w[i] \in Elems(SubSeq(w, g + 1, Len(w)))
  BY RestElems

(* An end and its opposite are the two ends of one connection. *)
LEMMA OppositeEnds ==
  ASSUME NEW e \in Ends
  PROVE  /\ e[1] \in Links /\ e[2] \in Sides /\ e = <<e[1], e[2]>>
         /\ Opposite(e) \in Ends
         /\ Opposite(e)[1] = e[1]
         /\ Opposite(Opposite(e)) = e
  BY DEF Ends, Opposite, Other, Sides

(* The process of an end is that of its connection. *)
LEMMA NodeOfType ==
  ASSUME NEW e \in Ends, link[e[1]].pair \in Nodes \X Nodes
  PROVE  NodeOf(e) \in Nodes
  BY DEF NodeOf

-----------------------------------------------------------------------------
(* Connections that come and go: peers stay what they are, new ones have   *)
(* sent and read nothing, and a peer's connection does not come back.      *)
EndStays(e) ==
  end[e].st = "peer" =>
    /\ end'[e] = end[e]
    /\ link'[e[1]].pair = link[e[1]].pair
    /\ link'[e[1]].phase = "up" => link[e[1]].phase = "up"

EndComes(e) ==
  end[e].st # "peer" /\ end'[e].st = "peer" =>
    /\ end'[e].wire = <<>> /\ end'[e].got = 0
    /\ end'[e].base = Len(seen[NodeOf(e)'])

(* Such a step keeps the invariant. *)
LEMMA ShapeStep ==
  ASSUME IInv, MeshType', EndsFit',
         UNCHANGED <<ops, seen, heard>>,
         \A e \in Ends : EndStays(e) /\ EndComes(e)
  PROVE  IInv'
<1>1. ASSUME NEW e \in Ends, end[e].st = "peer"
      PROVE  /\ end'[e] = end[e]
             /\ NodeOf(e)' = NodeOf(e)
             /\ Joined(e)' => Joined(e)
             /\ Since(e)' = Since(e)
  <2>1. EndStays(e)
    OBVIOUS
  <2>2. end'[e] = end[e] /\ NodeOf(e)' = NodeOf(e)
    BY <1>1, <2>1 DEF EndStays, NodeOf
  <2>3. Joined(e)' => Joined(e)
    BY <1>1, <2>1 DEF EndStays, Joined
  <2>4. QED
    BY <2>2, <2>3 DEF Since
<1>2. ASSUME NEW e \in Ends, end[e].st # "peer"
      PROVE  /\ end'[e].wire = <<>> /\ end'[e].got = 0
             /\ end[e].wire = <<>> /\ end[e].got = 0
  BY <1>2 DEF EndComes, IInv, EndsFit
<1>3. \A e \in Ends : end'[e].wire = end[e].wire /\ end'[e].got = end[e].got
  BY <1>1, <1>2
<1>4. Known'
  <2>1. ASSUME NEW e \in Ends, end'[e].st = "peer"
        PROVE  Elems(end'[e].wire) \subseteq Elems(seen[NodeOf(e)'])
    <3>1. CASE end[e].st = "peer"
      BY <1>1, <3>1 DEF IInv, Known
    <3>2. CASE end[e].st # "peer"
      BY <1>2, <3>2 DEF Elems
    <3>3. QED
      BY <3>1, <3>2
  <2>2. QED
    BY <2>1 DEF IInv, Known
<1>5. HeardOnce'
  BY DEF IInv, HeardOnce
<1>6. CrossesOnce'
  BY <1>3 DEF IInv, CrossesOnce
<1>7. LinkAgree'
  <2>1. ASSUME NEW e \in Ends, Joined(e)', NEW x, x \in Since(e)'
        PROVE  x \in Elems(seen[NodeOf(Opposite(e))])' \cup Elems(Pending(Opposite(e)))'
    <3> DEFINE o == Opposite(e)
    <3>1. o \in Ends /\ o[1] = e[1] /\ Opposite(o) = e
      BY OppositeEnds
    <3>2. end'[e].st = "peer"
      BY <2>1 DEF Joined
    <3>3. end[e].st = "peer"
      <4>1. SUFFICES ASSUME end[e].st # "peer" PROVE FALSE
        OBVIOUS
      <4>2. end'[e].base = Len(seen[NodeOf(e)'])
        BY <3>2, <4>1 DEF EndComes
      <4>3. PICK i \in end'[e].base + 1 .. Len(seen[NodeOf(e)']) : TRUE
        BY <2>1 DEF Since
      <4>4. NodeOf(e)' \in Nodes
        <5>1. e[1] \in Links
          BY OppositeEnds
        <5>2. link'[e[1]].phase # "unused"
          BY <3>2 DEF EndsFit
        <5>3. link'[e[1]].pair \in Nodes \X Nodes
          BY <5>2 DEF EndsFit
        <5>4. QED
          BY <5>3 DEF NodeOf
      <4>5. Len(seen[NodeOf(e)']) \in Nat
        BY <4>4 DEF IInv, MeshType
      <4>6. QED
        BY <4>2, <4>3, <4>5
    <3>4. Joined(e) /\ x \in Since(e)
      BY <1>1, <2>1, <3>3
    <3>5. x \in Elems(seen[NodeOf(o)]) \cup Elems(Pending(o))
      BY <3>4 DEF IInv, LinkAgree
    <3>6. NodeOf(o)' = NodeOf(o)
      <4>1. link'[e[1]].pair = link[e[1]].pair
        BY <3>3 DEF EndStays
      <4>2. QED
        BY <3>1, <4>1 DEF NodeOf
    <3>7. Pending(o)' = Pending(o)
      BY <1>3, <3>1 DEF Pending
    <3>8. QED
      BY <3>5, <3>6, <3>7
  <2>2. QED
    BY <2>1 DEF LinkAgree
<1>8. QED
  BY <1>4, <1>5, <1>6, <1>7 DEF IInv

-----------------------------------------------------------------------------
(* Operations that flow: process n comes to know those in new, which it    *)
(* did not know, and sends sent[e] at its end e.                           *)
Sends(n, new, sent) ==
  \A e \in Ends :
    /\ end'[e].st = end[e].st /\ end'[e].base = end[e].base
    /\ end'[e].wire = end[e].wire \o sent[e]
    /\ Elems(sent[e]) \subseteq Elems(new)
    /\ Distinct(sent[e])
    /\ e \notin Peers(n) => sent[e] = <<>>
    /\ end'[e].got <= Len(end[Opposite(e)].wire)

(* What was on its way to an end still is, or has come to be known. *)
NothingLost ==
  \A e \in Ends :
    Elems(Pending(e)) \subseteq Elems(Pending(e))' \cup Elems(seen[NodeOf(e)])'

(* What is new goes to every neighbour that does not know it. *)
GoesOut(n, new, sent) ==
  \A e \in Peers(n) : link[e[1]].phase = "up" =>
    Elems(new) \subseteq Elems(sent[e]) \cup Elems(seen[NodeOf(Opposite(e))])

(* Such a step keeps the invariant. *)
LEMMA FlowStep ==
  ASSUME IInv, MeshType', EndsFit',
         NEW n \in Nodes, NEW new \in Seq(Nat), NEW sent \in [Ends -> Seq(Nat)],
         link' = link,
         Len(ops') >= Len(ops),
         Elems(new) \subseteq 1 .. Len(ops'), Elems(new) \cap Elems(seen[n]) = {},
         Distinct(new),
         Remembers(n, new), Hears(n, new),
         Sends(n, new, sent), NothingLost, GoesOut(n, new, sent)
  PROVE  IInv'
<1>1. /\ Len(ops) \in Nat /\ Len(ops') \in Nat
      /\ \A m \in Nodes : seen[m] \in Seq(Nat) /\ heard[m] \in Seq(Nat)
  BY DEF IInv, MeshType
<1>2. /\ Elems(seen'[n]) = Elems(seen[n]) \cup Elems(new)
      /\ seen'[n] = seen[n] \o new
      /\ \A m \in Nodes \ {n} : seen'[m] = seen[m]
  BY <1>1, ElemsConcat DEF Remembers, IInv, MeshType
<1>3. \A m \in Nodes : Elems(seen[m]) \subseteq Elems(seen'[m])
  BY <1>2
<1>4. \A e \in Ends : NodeOf(e)' = NodeOf(e)
  BY DEF NodeOf
<1>5. \A e \in Ends : end[e].st = "peer" => NodeOf(e) \in Nodes
  <2>1. ASSUME NEW e \in Ends, end[e].st = "peer" PROVE NodeOf(e) \in Nodes
    <3>1. link[e[1]].phase # "unused"
      BY <2>1 DEF IInv, EndsFit
    <3>2. QED
      BY <3>1, NodeOfType DEF IInv, EndsFit
  <2>2. QED
    BY <2>1
<1>6. \A e \in Ends : end[e].wire \in Seq(Nat) /\ sent[e] \in Seq(Nat)
  BY DEF IInv, MeshType, Shape
<1>7. HeardOnce' /\ \A m \in Nodes : Elems(heard'[m]) \subseteq Elems(seen'[m])
  <2>1. ASSUME NEW m \in Nodes
        PROVE  Distinct(heard'[m]) /\ Elems(heard'[m]) \subseteq Elems(seen'[m])
    <3>1. Distinct(heard[m]) /\ Elems(heard[m]) \subseteq Elems(seen[m])
      BY DEF IInv, HeardOnce, Known
    <3>2. CASE heard'[m] = heard[m]
      BY <1>3, <3>1, <3>2
    <3>3. CASE m = n /\ heard'[n] = heard[n] \o new
      <4>1. Elems(heard[n]) \cap Elems(new) = {}
        BY <3>1, <3>3
      <4>2. Distinct(heard[n] \o new)
        BY <1>1, <3>1, <3>3, <4>1, DistinctConcat
      <4>3. Elems(heard[n] \o new) = Elems(heard[n]) \cup Elems(new)
        BY <1>1, ElemsConcat
      <4>4. QED
        BY <1>2, <3>1, <3>3, <4>2, <4>3
    <3>4. heard'[m] = heard[m] \/ (m = n /\ heard'[n] = heard[n] \o new)
      BY DEF Hears, IInv, MeshType
    <3>5. QED
      BY <3>2, <3>3, <3>4
  <2>2. QED
    BY <2>1 DEF HeardOnce
<1>8. Known'
  <2>1. ASSUME NEW m \in Nodes PROVE Elems(seen'[m]) \subseteq 1 .. Len(ops')
    <3>1. Elems(seen[m]) \subseteq 1 .. Len(ops)
      BY DEF IInv, Known
    <3>2. 1 .. Len(ops) \subseteq 1 .. Len(ops')
      BY <1>1
    <3>3. QED
      BY <1>2, <3>1, <3>2
  <2>2. ASSUME NEW e \in Ends, end'[e].st = "peer"
        PROVE  Elems(end'[e].wire) \subseteq Elems(seen'[NodeOf(e)'])
    <3>1. end[e].st = "peer"
      BY <2>2 DEF Sends
    <3>2. Elems(end[e].wire) \subseteq Elems(seen[NodeOf(e)])
      BY <3>1 DEF IInv, Known
    <3>3. Elems(end'[e].wire) = Elems(end[e].wire) \cup Elems(sent[e])
      BY <1>6, ElemsConcat DEF Sends
    <3>4. CASE e \in Peers(n)
      <4>1. NodeOf(e) = n /\ Elems(sent[e]) \subseteq Elems(new)
        BY <3>4 DEF Peers, Sends
      <4>2. QED
        BY <1>2, <1>4, <3>2, <3>3, <4>1
    <3>5. CASE e \notin Peers(n)
      <4>1. Elems(sent[e]) = {}
        BY <3>5 DEF Sends, Elems
      <4>2. QED
        BY <1>3, <1>4, <1>5, <3>1, <3>2, <3>3, <4>1
    <3>6. QED
      BY <3>4, <3>5
  <2>3. QED
    BY <1>7, <2>1, <2>2 DEF Known
<1>9. CrossesOnce'
  <2>1. ASSUME NEW e \in Ends PROVE Distinct(end'[e].wire)
    <3>1. Distinct(end[e].wire) /\ end'[e].wire = end[e].wire \o sent[e]
      BY DEF IInv, CrossesOnce, Sends
    <3>2. CASE e \in Peers(n)
      <4>1. Elems(end[e].wire) \subseteq Elems(seen[n])
        BY <3>2 DEF Peers, IInv, Known
      <4>2. Elems(end[e].wire) \cap Elems(sent[e]) = {}
        BY <4>1 DEF Sends
      <4>3. Distinct(sent[e])
        BY DEF Sends
      <4>4. QED
        BY <1>6, <3>1, <4>2, <4>3, DistinctConcat
    <3>3. CASE e \notin Peers(n)
      <4>1. sent[e] = <<>>
        BY <3>3 DEF Sends
      <4>2. end'[e].wire = end[e].wire
        BY <1>6, <3>1, <4>1
      <4>3. QED
        BY <3>1, <4>2
    <3>4. QED
      BY <3>2, <3>3
  <2>2. QED
    BY <2>1 DEF CrossesOnce
<1>10. LinkAgree'
  <2>1. ASSUME NEW e \in Ends, Joined(e)', NEW x, x \in Since(e)'
        PROVE  x \in Elems(seen[NodeOf(Opposite(e))])' \cup Elems(Pending(Opposite(e)))'
    <3> DEFINE o == Opposite(e)
    <3>1. o \in Ends /\ o[1] = e[1] /\ Opposite(o) = e
      BY OppositeEnds
    <3>2. Joined(e) /\ end[e].st = "peer" /\ link[e[1]].phase = "up"
      BY <2>1 DEF Joined, Sends
    <3>3. NodeOf(e) \in Nodes /\ NodeOf(o) \in Nodes
      <4>1. link[e[1]].pair \in Nodes \X Nodes
        BY <3>2 DEF IInv, EndsFit
      <4>2. QED
        BY <3>1, <4>1, NodeOfType
    <3>4. end'[e].base = end[e].base /\ end[e].base \in Nat
      BY DEF Sends, IInv, MeshType, Shape
    <3>5. x \in Since(e) \/ (NodeOf(e) = n /\ x \in Elems(new))
      <4>1. PICK i \in end[e].base + 1 .. Len(seen'[NodeOf(e)]) : x = seen'[NodeOf(e)][i]
        BY <1>4, <2>1, <3>4 DEF Since
      <4>2. CASE NodeOf(e) # n
        <5>1. seen'[NodeOf(e)] = seen[NodeOf(e)]
          BY <1>2, <3>3, <4>2
        <5>2. QED
          BY <4>1, <5>1 DEF Since
      <4>3. CASE NodeOf(e) = n
        <5>1. /\ seen[n] \in Seq(Nat) /\ seen'[n] = seen[n] \o new
              /\ Len(seen'[n]) = Len(seen[n]) + Len(new)
              /\ \A j \in 1 .. Len(seen[n]) : seen'[n][j] = seen[n][j]
              /\ \A j \in 1 .. Len(new) : seen'[n][Len(seen[n]) + j] = new[j]
          BY <1>1, <1>2
        <5>2. CASE i <= Len(seen[n])
          <6>1. i \in end[e].base + 1 .. Len(seen[n]) /\ i \in 1 .. Len(seen[n])
            BY <3>4, <4>1, <5>1, <5>2
          <6>2. x = seen[NodeOf(e)][i]
            BY <4>1, <4>3, <5>1, <6>1
          <6>3. QED
            BY <4>3, <6>1, <6>2 DEF Since
        <5>3. CASE i > Len(seen[n])
          <6>1. i - Len(seen[n]) \in 1 .. Len(new)
                /\ i = Len(seen[n]) + (i - Len(seen[n]))
            BY <3>4, <4>1, <4>3, <5>1, <5>3
          <6>2. x = new[i - Len(seen[n])]
            BY <4>1, <4>3, <5>1, <6>1
          <6>3. QED
            BY <4>3, <6>1, <6>2 DEF Elems
        <5>4. QED
          BY <3>4, <4>1, <4>3, <5>1, <5>2, <5>3
      <4>4. QED
        BY <4>2, <4>3
    <3>6. CASE x \in Since(e)
      <4>1. x \in Elems(seen[NodeOf(o)]) \cup Elems(Pending(o))
        BY <3>2, <3>6 DEF IInv, LinkAgree
      <4>2. Elems(seen[NodeOf(o)]) \subseteq Elems(seen[NodeOf(o)])'
        BY <1>3, <1>4, <3>1, <3>3
      <4>3. QED
        BY <3>1, <4>1, <4>2 DEF NothingLost
    <3>7. CASE NodeOf(e) = n /\ x \in Elems(new)
      <4>1. e \in Peers(n)
        BY <3>2, <3>7 DEF Peers
      <4>2. x \in Elems(sent[e]) \cup Elems(seen[NodeOf(o)])
        BY <3>2, <3>7, <4>1 DEF GoesOut
      <4>3. CASE x \in Elems(seen[NodeOf(o)])
        BY <1>3, <1>4, <3>1, <3>3, <4>3
      <4>4. CASE x \in Elems(sent[e])
        <5> DEFINE w == end[e].wire
                   g == end'[o].got
        <5> HIDE DEF w, g
        <5>1. w \in Seq(Nat) /\ sent[e] \in Seq(Nat) /\ g \in Nat /\ g <= Len(w)
          BY <1>6, <3>1 DEF w, g, Sends, MeshType, Shape
        <5>2. end'[e].wire = w \o sent[e]
          BY DEF w, Sends
        <5>3. PICK j \in 1 .. Len(sent[e]) : x = sent[e][j]
          <6>1. DOMAIN sent[e] = 1 .. Len(sent[e])
            BY <5>1
          <6>2. \E j \in DOMAIN sent[e] : x = sent[e][j]
            BY <4>4 DEF Elems
          <6>3. QED
            BY <6>1, <6>2
        <5>4. /\ w \o sent[e] \in Seq(Nat)
              /\ Len(w) + j \in g + 1 .. Len(w \o sent[e])
              /\ (w \o sent[e])[Len(w) + j] = x
          BY <5>1, <5>3
        <5>5. x \in Elems(SubSeq(w \o sent[e], g + 1, Len(w \o sent[e])))
          BY <5>1, <5>4, RestHas
        <5>6. Pending(o)' = SubSeq(w \o sent[e], g + 1, Len(w \o sent[e]))
          <6>1. Pending(o)' = SubSeq(end'[e].wire, g + 1, Len(end'[e].wire))
            BY <3>1 DEF Pending, g
          <6>2. QED
            BY <5>2, <6>1
        <5>7. QED
          BY <5>5, <5>6
      <4>5. QED
        BY <4>2, <4>3, <4>4
    <3>8. QED
      BY <3>5, <3>6, <3>7
  <2>2. QED
    BY <2>1 DEF LinkAgree
<1>11. QED
  BY <1>7, <1>8, <1>9, <1>10 DEF IInv

-----------------------------------------------------------------------------
(* An end that is no peer becomes one, is opened or is closed (dial_seed,  *)
(* on_connect, on_listen).                                                 *)
LEMMA OneEnd ==
  ASSUME IInv,
         NEW e \in Ends, NEW new \in Shape, NEW l \in Link,
         end[e].st # "peer", new.wire = <<>>, new.got = 0,
         l.phase # "unused", l.pair \in Nodes \X Nodes,
         l.phase = "syn" => new.st # "peer" /\ end[Opposite(e)].st # "peer",
         end[Opposite(e)].st = "peer" =>
           /\ l.pair = link[e[1]].pair
           /\ l.phase = "up" => link[e[1]].phase = "up",
         end' = [end EXCEPT ![e] = new],
         link' = [link EXCEPT ![e[1]] = l],
         new.st = "peer" => new.base = Len(seen[NodeOf(e)']),
         UNCHANGED <<ops, seen, heard, listening>>
  PROVE  IInv'
<1> DEFINE o == Opposite(e)
<1>1. /\ e[1] \in Links /\ o \in Ends /\ o[1] = e[1] /\ o # e
      /\ \A f \in Ends : f[1] \in Links /\ (f[1] = e[1] => f = e \/ f = o)
  BY DEF Ends, Opposite, Other, Sides
<1>2. MeshType'
  BY <1>1 DEF IInv, MeshType
<1>3. /\ end'[e] = new /\ \A f \in Ends \ {e} : end'[f] = end[f]
      /\ link'[e[1]] = l /\ \A k \in Links \ {e[1]} : link'[k] = link[k]
  BY <1>1 DEF IInv, MeshType
<1>4. \A f \in Ends : end'[f].wire = end[f].wire /\ end'[f].got = end[f].got
  <2>1. end[e].wire = <<>> /\ end[e].got = 0
    BY DEF IInv, EndsFit
  <2>2. QED
    BY <1>3, <2>1
<1>5. EndsFit'
  <2>1. ASSUME NEW f \in Ends
        PROVE  /\ end'[f].st # "peer" => end'[f].wire = <<>> /\ end'[f].got = 0
               /\ end'[f].got <= Len(end'[Opposite(f)].wire)
               /\ link'[f[1]].phase = "unused" => end'[f].st = "none"
               /\ link'[f[1]].phase = "syn" => end'[f].st # "peer"
               /\ link'[f[1]].phase # "unused" => link'[f[1]].pair \in Nodes \X Nodes
    <3>1. Opposite(f) \in Ends
      BY OppositeEnds
    <3>2. end'[f].got <= Len(end'[Opposite(f)].wire)
      BY <1>4, <3>1 DEF IInv, EndsFit
    <3>3. CASE f[1] = e[1]
      BY <1>1, <1>3, <3>2, <3>3 DEF IInv, EndsFit
    <3>4. CASE f[1] # e[1]
      BY <1>1, <1>3, <3>2, <3>4 DEF IInv, EndsFit
    <3>5. QED
      BY <3>3, <3>4
  <2>2. QED
    BY <2>1 DEF EndsFit
<1>6. ASSUME NEW f \in Ends PROVE EndStays(f) /\ EndComes(f)
  <2>1. CASE f = e
    BY <1>3, <2>1 DEF EndStays, EndComes
  <2>2. CASE f = o
    BY <1>1, <1>3, <2>2 DEF EndStays, EndComes
  <2>3. CASE f[1] # e[1]
    BY <1>1, <1>3, <2>3 DEF EndStays, EndComes
  <2>4. QED
    BY <1>1, <2>1, <2>2, <2>3
<1>7. QED
  BY <1>2, <1>5, <1>6, ShapeStep

(* A connection comes up, is refused or breaks, and its ends stay what     *)
(* they are.                                                               *)
LEMMA OnlyLinks ==
  ASSUME IInv,
         link' \in [Links -> Link],
         \A k \in Links :
           /\ link'[k].pair = link[k].pair
           /\ link'[k].phase = "unused" <=> link[k].phase = "unused"
           /\ link'[k].phase = "syn" => link[k].phase = "syn"
           /\ link'[k].phase = "up" => link[k].phase \in {"syn", "up"},
         UNCHANGED <<end, ops, seen, heard, listening>>
  PROVE  IInv'
<1>1. \A e \in Ends : e[1] \in Links
  BY DEF Ends
<1>2. MeshType'
  BY DEF IInv, MeshType
<1>3. EndsFit'
  BY <1>1 DEF IInv, EndsFit
<1>4. ASSUME NEW e \in Ends PROVE EndStays(e) /\ EndComes(e)
  <2>1. EndStays(e)
    BY <1>1 DEF EndStays, IInv, EndsFit
  <2>2. EndComes(e)
    BY DEF EndComes
  <2>3. QED
    BY <2>1, <2>2
<1>5. QED
  BY <1>2, <1>3, <1>4, ShapeStep

-----------------------------------------------------------------------------
(* The steps *)

(* Nothing is connected, known or sent at the start. *)
LEMMA InitInv == ASSUME Init PROVE IInv
<1>1. MeshType
  <2>1. NoEnd \in Shape
    BY DEF NoEnd, Shape
  <2>2. [phase |-> "unused", pair |-> <<>>] \in Link
    BY DEF Link
  <2>3. QED
    BY <2>1, <2>2 DEF Init, MeshType
<1>2. EndsFit
  <2>1. \A e \in Ends : e[1] \in Links /\ Opposite(e) \in Ends
    BY OppositeEnds
  <2>2. QED
    BY <2>1 DEF Init, EndsFit, NoEnd
<1>3. Known
  BY DEF Init, Known, Elems, NoEnd
<1>4. HeardOnce
  BY DEF Init, HeardOnce, Distinct
<1>5. CrossesOnce
  BY DEF Init, CrossesOnce, Distinct, NoEnd
<1>6. LinkAgree
  BY DEF Init, LinkAgree, Joined, NoEnd
<1>7. QED
  BY <1>1, <1>2, <1>3, <1>4, <1>5, <1>6 DEF IInv

(* The end that dials is the first of the pair, the other the second. *)
LEMMA LinkEnds ==
  ASSUME NEW k \in Links
  PROVE  /\ <<k, "out">> \in Ends /\ <<k, "in">> \in Ends
         /\ Opposite(<<k, "out">>) = <<k, "in">>
         /\ Opposite(<<k, "in">>) = <<k, "out">>
         /\ NodeOf(<<k, "out">>) = link[k].pair[1]
         /\ NodeOf(<<k, "in">>) = link[k].pair[2]
  BY DEF Ends, Sides, Opposite, Other, NodeOf

(* A connection that was not made has no ends. *)
LEMMA FreshEnds ==
  ASSUME IInv, NEW k \in Links, Fresh(k)
  PROVE  /\ link[k].phase = "unused"
         /\ \A e \in Ends : e[1] = k => end[e].st = "none"
<1>1. ~Used(k)
  BY DEF Fresh, Links
<1>2. QED
  BY <1>1 DEF Used, IInv, EndsFit

(* A new peer has sent and read nothing. *)
LEMMA NewPeerShape ==
  ASSUME IInv, NEW n \in Nodes
  PROVE  /\ NewPeer(n) \in Shape
         /\ NewPeer(n).wire = <<>> /\ NewPeer(n).got = 0
         /\ NewPeer(n).base = Len(seen[n])
<1>1. Len(seen[n]) \in Nat
  BY DEF IInv, MeshType
<1> DEFINE peer == [NoEnd EXCEPT !.st = "peer"]
<1>2. peer \in Shape /\ peer.wire = <<>> /\ peer.got = 0
  <2>1. NoEnd \in Shape /\ NoEnd.wire = <<>> /\ NoEnd.got = 0
    BY DEF NoEnd, Shape
  <2>2. QED
    BY <2>1 DEF Shape
<1>3. NewPeer(n) = [peer EXCEPT !.base = Len(seen[n])]
  BY Zenon DEF NewPeer
<1> HIDE DEF peer
<1>4. QED
  BY <1>1, <1>2, <1>3 DEF Shape

(* dial_seed, connected at once. *)
LEMMA DialNowInv ==
  ASSUME IInv, NEW n \in Nodes, NEW m \in Nodes, NEW k \in Links, DialNow(n, m, k)
  PROVE  IInv'
<1> DEFINE e   == <<k, "out">>
           l   == [phase |-> IF Room(n) THEN "up" ELSE "cut", pair |-> <<n, m>>]
           new == IF Room(n) THEN NewPeer(n) ELSE [NoEnd EXCEPT !.st = "closed"]
<1>0. UNCHANGED <<ops, seen, heard, listening>>
  BY DEF DialNow
<1>1. /\ e \in Ends /\ end[e].st # "peer" /\ end[Opposite(e)].st # "peer"
  BY FreshEnds, LinkEnds DEF DialNow
<1>2. l \in Link /\ l.phase # "unused" /\ l.phase # "syn" /\ l.pair \in Nodes \X Nodes
  BY DEF Link
<1>3. new \in Shape /\ new.wire = <<>> /\ new.got = 0
  BY NewPeerShape DEF NoEnd, Shape
<1>4. link' = [link EXCEPT ![e[1]] = l] /\ end' = [end EXCEPT ![e] = new]
  BY DEF DialNow
<1>5. NodeOf(e)' = n
  BY <1>4 DEF NodeOf, IInv, MeshType
<1>6. new.st = "peer" => new.base = Len(seen[NodeOf(e)'])
  BY <1>5, NewPeerShape DEF NoEnd
<1> HIDE DEF e, l, new
<1>7. QED
  BY <1>0, <1>1, <1>2, <1>3, <1>4, <1>6, OneEnd

(* dial_seed, in progress. *)
LEMMA DialLaterInv ==
  ASSUME IInv, NEW n \in Nodes, NEW m \in Nodes, NEW k \in Links, DialLater(n, m, k)
  PROVE  IInv'
<1> DEFINE e   == <<k, "out">>
           l   == [phase |-> "syn", pair |-> <<n, m>>]
           new == [end[e] EXCEPT !.st = "dialing"]
<1>0. UNCHANGED <<ops, seen, heard, listening>>
  BY DEF DialLater
<1>1. /\ e \in Ends /\ end[e].st # "peer" /\ end[Opposite(e)].st # "peer"
  BY FreshEnds, LinkEnds DEF DialLater
<1>2. l \in Link /\ l.phase # "unused" /\ l.pair \in Nodes \X Nodes
  BY DEF Link
<1>3. new \in Shape /\ new.wire = <<>> /\ new.got = 0 /\ new.st # "peer"
  <2>1. end[e] \in Shape /\ end[e].wire = <<>> /\ end[e].got = 0
    BY <1>1 DEF IInv, MeshType, EndsFit
  <2>2. QED
    BY <2>1 DEF Shape
<1>4. link' = [link EXCEPT ![e[1]] = l] /\ end' = [end EXCEPT ![e] = new]
  BY DEF DialLater
<1> HIDE DEF e, l, new
<1>5. QED
  BY <1>0, <1>1, <1>2, <1>3, <1>4, OneEnd

(* on_connect: a peer, or closed. *)
LEMMA OnConnectInv ==
  ASSUME IInv, NEW k \in Links, OnConnect(k)
  PROVE  IInv'
<1> DEFINE e      == <<k, "out">>
           n      == NodeOf(e)
           closed == [end[e] EXCEPT !.st = "closed"]
           broken == [link[k] EXCEPT !.phase = "cut"]
<1>1. /\ e \in Ends /\ e[1] = k /\ end[e].st # "peer"
      /\ link[k] \in Link /\ link[k].phase # "unused" /\ link[k].phase # "syn"
      /\ link[k].pair \in Nodes \X Nodes
  BY LinkEnds DEF OnConnect, IInv, MeshType, EndsFit
<1>2. n \in Nodes
  BY <1>1, NodeOfType
<1>3. /\ closed \in Shape /\ closed.wire = <<>> /\ closed.got = 0
      /\ closed.st # "peer"
  <2>1. end[e] \in Shape /\ end[e].wire = <<>> /\ end[e].got = 0
    BY <1>1 DEF IInv, MeshType, EndsFit
  <2>2. QED
    BY <2>1 DEF Shape
<1>4. /\ broken \in Link /\ broken.phase = "cut" /\ broken.pair = link[k].pair
      /\ NewPeer(n) \in Shape /\ NewPeer(n).wire = <<>> /\ NewPeer(n).got = 0
      /\ NewPeer(n).base = Len(seen[n])
  BY <1>1, <1>2, NewPeerShape DEF Link
<1>5. UNCHANGED <<ops, seen, heard, listening>>
  BY DEF OnConnect
<1>6. link = [link EXCEPT ![e[1]] = link[k]]
  BY <1>1 DEF IInv, MeshType
<1>7. \/ end' = [end EXCEPT ![e] = closed] /\ link' = link
      \/ end' = [end EXCEPT ![e] = NewPeer(n)] /\ link' = link
      \/ end' = [end EXCEPT ![e] = closed] /\ link' = [link EXCEPT ![e[1]] = broken]
  BY <1>1 DEF OnConnect, Breaks
<1>8. link' = link => NodeOf(e)' = n
  BY DEF NodeOf
<1> HIDE DEF e, n, closed, broken
<1>9. CASE end' = [end EXCEPT ![e] = closed] /\ link' = link
  BY <1>1, <1>3, <1>5, <1>6, <1>9, OneEnd
<1>10. CASE end' = [end EXCEPT ![e] = NewPeer(n)] /\ link' = link
  BY <1>1, <1>4, <1>5, <1>6, <1>8, <1>10, OneEnd
<1>11. CASE end' = [end EXCEPT ![e] = closed] /\ link' = [link EXCEPT ![e[1]] = broken]
  BY <1>1, <1>3, <1>4, <1>5, <1>11, OneEnd
<1>12. QED
  BY <1>7, <1>9, <1>10, <1>11

(* on_listen: a peer, or closed. *)
LEMMA AcceptInv ==
  ASSUME IInv, NEW k \in Links, Accept(k)
  PROVE  IInv'
<1> DEFINE e      == <<k, "in">>
           n      == NodeOf(e)
           closed == [end[e] EXCEPT !.st = "closed"]
           broken == [link[k] EXCEPT !.phase = "cut"]
<1>1. /\ e \in Ends /\ e[1] = k /\ end[e].st # "peer"
      /\ link[k] \in Link /\ link[k].phase # "unused" /\ link[k].phase # "syn"
      /\ link[k].pair \in Nodes \X Nodes
  BY LinkEnds DEF Accept, IInv, MeshType, EndsFit
<1>2. n \in Nodes
  BY <1>1, NodeOfType
<1>3. /\ closed \in Shape /\ closed.wire = <<>> /\ closed.got = 0
      /\ closed.st # "peer"
  <2>1. end[e] \in Shape /\ end[e].wire = <<>> /\ end[e].got = 0
    BY <1>1 DEF IInv, MeshType, EndsFit
  <2>2. QED
    BY <2>1 DEF Shape
<1>4. /\ broken \in Link /\ broken.phase = "cut" /\ broken.pair = link[k].pair
      /\ NewPeer(n) \in Shape /\ NewPeer(n).wire = <<>> /\ NewPeer(n).got = 0
      /\ NewPeer(n).base = Len(seen[n])
  BY <1>1, <1>2, NewPeerShape DEF Link
<1>5. UNCHANGED <<ops, seen, heard, listening>>
  BY DEF Accept
<1>6. link = [link EXCEPT ![e[1]] = link[k]]
  BY <1>1 DEF IInv, MeshType
<1>7. \/ end' = [end EXCEPT ![e] = NewPeer(n)] /\ link' = link
      \/ end' = [end EXCEPT ![e] = closed] /\ link' = [link EXCEPT ![e[1]] = broken]
  BY <1>1 DEF Accept, Breaks
<1>8. link' = link => NodeOf(e)' = n
  BY DEF NodeOf
<1> HIDE DEF e, n, closed, broken
<1>9. CASE end' = [end EXCEPT ![e] = NewPeer(n)] /\ link' = link
  BY <1>1, <1>4, <1>5, <1>6, <1>8, <1>9, OneEnd
<1>10. CASE end' = [end EXCEPT ![e] = closed] /\ link' = [link EXCEPT ![e[1]] = broken]
  BY <1>1, <1>3, <1>4, <1>5, <1>10, OneEnd
<1>11. QED
  BY <1>7, <1>9, <1>10

(* Establish, Refuse, Cut and Quit. *)
LEMMA LinkInv ==
  ASSUME IInv,
         \/ \E k \in Links : Establish(k) \/ Refuse(k) \/ Cut(k)
         \/ \E n \in Nodes : Quit(n)
  PROVE  IInv'
<1>1. link \in [Links -> Link]
  BY DEF IInv, MeshType
<1>2. ASSUME NEW k \in Links, Establish(k) \/ Refuse(k) \/ Cut(k) PROVE IInv'
  <2>1. UNCHANGED <<end, ops, seen, heard, listening>>
    BY <1>2 DEF Establish, Refuse, Cut
  <2>2. \/ link[k].phase = "syn" /\ link' = [link EXCEPT ![k].phase = "up"]
        \/ link[k].phase = "syn" /\ link' = [link EXCEPT ![k].phase = "refused"]
        \/ link[k].phase = "up" /\ link' = [link EXCEPT ![k].phase = "cut"]
    BY <1>2 DEF Establish, Refuse, Cut, Breaks
  <2>3. QED
    BY <1>1, <2>1, <2>2, OnlyLinks DEF Link
<1>3. ASSUME NEW n \in Nodes, Quit(n) PROVE IInv'
  <2>1. UNCHANGED <<end, ops, seen, heard, listening>>
    BY <1>3 DEF Quit
  <2>2. \A k \in Links :
          \/ link'[k] = link[k]
          \/ link'[k] = [link[k] EXCEPT !.phase =
                            CASE @ = "up" -> "cut" [] @ = "syn" -> "refused" [] OTHER -> @]
    BY <1>3 DEF Quit
  <2>3. \A k \in Links :
          /\ link'[k] \in Link
          /\ link'[k].pair = link[k].pair
          /\ link'[k].phase = "unused" <=> link[k].phase = "unused"
          /\ link'[k].phase = "syn" => link[k].phase = "syn"
          /\ link'[k].phase = "up" => link[k].phase \in {"syn", "up"}
    <3>1. SUFFICES ASSUME NEW k \in Links
                   PROVE  /\ link'[k] \in Link
                          /\ link'[k].pair = link[k].pair
                          /\ link'[k].phase = "unused" <=> link[k].phase = "unused"
                          /\ link'[k].phase = "syn" => link[k].phase = "syn"
                          /\ link'[k].phase = "up" => link[k].phase \in {"syn", "up"}
      OBVIOUS
    <3>2. link[k] \in Link
      BY <1>1
    <3>3. CASE link'[k] = link[k]
      BY <3>2, <3>3 DEF Link
    <3>4. CASE link'[k] = [link[k] EXCEPT !.phase =
                            CASE @ = "up" -> "cut" [] @ = "syn" -> "refused" [] OTHER -> @]
      <4>1. CASE link[k].phase = "up"
        BY <3>2, <3>4, <4>1 DEF Link
      <4>2. CASE link[k].phase = "syn"
        BY <3>2, <3>4, <4>2 DEF Link
      <4>3. CASE link[k].phase \notin {"up", "syn"}
        BY <3>2, <3>4, <4>3 DEF Link
      <4>4. QED
        BY <4>1, <4>2, <4>3
    <3>5. QED
      BY <2>2, <3>3, <3>4
  <2>4. link' \in [Links -> Link]
    <3>1. link' = [k \in Links |-> link'[k]]
      BY <1>3 DEF Quit
    <3>2. QED
      BY <2>3, <3>1
  <2>5. QED
    BY <2>1, <2>3, <2>4, OnlyLinks
<1>4. QED
  BY <1>2, <1>3

-----------------------------------------------------------------------------
(* Reading and sending *)

(* What was sent and is unread stays so when more is sent, but for the     *)
(* one that is read.                                                       *)
LEMMA RestGrows ==
  ASSUME NEW w \in Seq(Nat), NEW t \in Seq(Nat), NEW g \in Nat, NEW h \in {g, g + 1},
         NEW x, x \in Elems(SubSeq(w, g + 1, Len(w)))
  PROVE  \/ x \in Elems(SubSeq(w \o t, h + 1, Len(w \o t)))
         \/ h = g + 1 /\ x = Head(SubSeq(w, g + 1, Len(w)))
<1>1. PICK i \in g + 1 .. Len(w) : x = w[i]
  BY RestElems
<1>2. /\ w \o t \in Seq(Nat) /\ Len(w \o t) >= Len(w)
      /\ \A j \in 1 .. Len(w) : (w \o t)[j] = w[j]
  OBVIOUS
<1>3. CASE i >= h + 1
  <2>1. h \in Nat /\ i \in h + 1 .. Len(w \o t) /\ (w \o t)[i] = x
    BY <1>1, <1>2, <1>3
  <2>2. QED
    BY <1>2, <2>1, RestHas
<1>4. CASE i < h + 1
  <2>1. h = g + 1 /\ i = g + 1
    BY <1>1, <1>4
  <2>2. SubSeq(w, g + 1, Len(w)) # <<>>
    BY DEF Elems
  <2>3. QED
    BY <1>1, <2>1, <2>2, RestElems
<1>5. QED
  BY <1>1, <1>3, <1>4

(* The operation that is read is known to the process at the other end. *)
LEMMA ReadFacts ==
  ASSUME IInv, NEW e \in Ends, Reads(e)
  PROVE  /\ NodeOf(e) \in Nodes /\ end[e].got \in Nat
         /\ end[e].got + 1 <= Len(end[Opposite(e)].wire)
         /\ Head(Pending(e)) \in 1 .. Len(ops)
         /\ Head(Pending(e)) \in Elems(seen[NodeOf(Opposite(e))])
<1> DEFINE o == Opposite(e)
           w == end[o].wire
           g == end[e].got
<1>1. /\ o \in Ends /\ o[1] = e[1] /\ e[1] \in Links
  BY OppositeEnds
<1>2. w \in Seq(Nat) /\ g \in Nat
  BY <1>1 DEF IInv, MeshType, Shape
<1>3. SubSeq(w, g + 1, Len(w)) # <<>> /\ Head(Pending(e)) = Head(SubSeq(w, g + 1, Len(w)))
  BY DEF Reads, Pending
<1> HIDE DEF w, g
<1>4. g + 1 \in DOMAIN w /\ Head(Pending(e)) = w[g + 1]
  BY <1>2, <1>3, RestElems
<1>5. g + 1 <= Len(w) /\ Head(Pending(e)) \in Elems(w)
  BY <1>2, <1>4 DEF Elems
<1>6. end[o].st = "peer"
  <2>1. w # <<>>
    BY <1>2, <1>5
  <2>2. QED
    BY <1>1, <2>1 DEF w, IInv, EndsFit
<1>7. link[e[1]].pair \in Nodes \X Nodes
  BY <1>1, <1>6 DEF IInv, EndsFit
<1>8. NodeOf(e) \in Nodes /\ NodeOf(o) \in Nodes
  BY <1>1, <1>7, NodeOfType
<1>9. Head(Pending(e)) \in Elems(seen[NodeOf(o)])
  BY <1>1, <1>5, <1>6 DEF w, IInv, Known
<1>10. Head(Pending(e)) \in 1 .. Len(ops)
  BY <1>8, <1>9 DEF IInv, Known
<1>11. QED
  BY <1>2, <1>5, <1>8, <1>9, <1>10 DEF w, g

(* An end reads nothing, or one operation that then is known. *)
Read(e) ==
  \/ end'[e].got = end[e].got
  \/ /\ end'[e].got = end[e].got + 1
     /\ Reads(e)
     /\ Head(Pending(e)) \in Elems(seen'[NodeOf(e)])

(* What the ends of n send when it sends id to all its peers but one. *)
To(n, except, id) ==
  [e \in Ends |->
     IF e \in Peers(n) \ {except} /\ link[e[1]].phase = "up" THEN <<id>> ELSE <<>>]

(* The ends in en2 are those in en with sent[e] added to what e has sent. *)
SentMore(en, en2, sent) ==
  /\ en2 \in [Ends -> Shape]
  /\ sent \in [Ends -> Seq(Nat)]
  /\ \A e \in Ends :
       /\ en2[e].st = en[e].st /\ en2[e].base = en[e].base
       /\ en2[e].got = en[e].got
       /\ en2[e].wire = en[e].wire \o sent[e]

(* Send adds one operation at the ends it is sent at. *)
LEMMA SendIs ==
  ASSUME NEW en \in [Ends -> Shape], NEW n, NEW except, NEW id \in Nat
  PROVE  SentMore(en, Send(en, n, except, id), To(n, except, id))
<1>1. ASSUME NEW e \in Ends
      PROVE  /\ To(n, except, id)[e] \in Seq(Nat)
             /\ Send(en, n, except, id)[e] \in Shape
             /\ Send(en, n, except, id)[e].st = en[e].st
             /\ Send(en, n, except, id)[e].base = en[e].base
             /\ Send(en, n, except, id)[e].got = en[e].got
             /\ Send(en, n, except, id)[e].wire = en[e].wire \o To(n, except, id)[e]
  <2>1. en[e] \in Shape /\ en[e].wire \in Seq(Nat)
    BY DEF Shape
  <2>2. CASE e \in Peers(n) \ {except} /\ link[e[1]].phase = "up"
    <3>1. /\ Send(en, n, except, id)[e] = [en[e] EXCEPT !.wire = Append(@, id)]
          /\ To(n, except, id)[e] = <<id>>
      BY <2>2 DEF Send, To
    <3>2. Append(en[e].wire, id) \in Seq(Nat) /\ <<id>> \in Seq(Nat)
      BY <2>1
    <3>3. Append(en[e].wire, id) = en[e].wire \o <<id>>
      BY <2>1, AppendIsConcat
    <3>4. QED
      BY <2>1, <3>1, <3>2, <3>3 DEF Shape
  <2>3. CASE ~(e \in Peers(n) \ {except} /\ link[e[1]].phase = "up")
    <3>1. /\ Send(en, n, except, id)[e] = en[e]
          /\ To(n, except, id)[e] = <<>>
      BY <2>3 DEF Send, To
    <3>2. en[e].wire \o <<>> = en[e].wire /\ <<>> \in Seq(Nat)
      BY <2>1
    <3>3. QED
      BY <2>1, <3>1, <3>2
  <2>4. QED
    BY <2>2, <2>3
<1>2. Send(en, n, except, id) = [e \in Ends |-> Send(en, n, except, id)[e]]
  BY DEF Send
<1>3. To(n, except, id) = [e \in Ends |-> To(n, except, id)[e]]
  BY DEF To
<1>4. QED
  BY <1>1, <1>2, <1>3 DEF SentMore

(* The hypotheses of FlowStep about ends, from what each end reads and     *)
(* sends.                                                                  *)
LEMMA FlowEnds ==
  ASSUME IInv,
         NEW n \in Nodes, NEW new \in Seq(Nat), NEW sent \in [Ends -> Seq(Nat)],
         link' = link, end' \in [Ends -> Shape],
         \A e \in Ends :
           /\ end'[e].st = end[e].st /\ end'[e].base = end[e].base
           /\ end'[e].wire = end[e].wire \o sent[e]
           /\ Elems(sent[e]) \subseteq Elems(new)
           /\ Distinct(sent[e])
           /\ e \notin Peers(n) => sent[e] = <<>>
           /\ Read(e)
  PROVE  Sends(n, new, sent) /\ NothingLost /\ EndsFit'
<1>1. \A e \in Ends :
        /\ Opposite(e) \in Ends
        /\ end[e].wire \in Seq(Nat) /\ end[e].got \in Nat /\ sent[e] \in Seq(Nat)
  BY OppositeEnds DEF IInv, MeshType, Shape
<1>2. ASSUME NEW e \in Ends
      PROVE  end'[e].got <= Len(end[Opposite(e)].wire)
  <2>1. end[e].got <= Len(end[Opposite(e)].wire)
    BY DEF IInv, EndsFit
  <2>2. Reads(e) => end[e].got + 1 <= Len(end[Opposite(e)].wire)
    BY ReadFacts
  <2>3. Read(e)
    OBVIOUS
  <2>4. QED
    BY <2>1, <2>2, <2>3 DEF Read
<1>3. Sends(n, new, sent)
  BY <1>2 DEF Sends
<1>4. NothingLost
  <2>1. ASSUME NEW e \in Ends, NEW x, x \in Elems(Pending(e))
        PROVE  x \in Elems(Pending(e))' \cup Elems(seen[NodeOf(e)])'
    <3> DEFINE o == Opposite(e)
               w == end[o].wire
               t == sent[o]
               g == end[e].got
               h == end'[e].got
    <3>1. w \in Seq(Nat) /\ t \in Seq(Nat) /\ g \in Nat
      BY <1>1
    <3>2. end'[o].wire = w \o t
      BY <1>1
    <3>3. Read(e)
      OBVIOUS
    <3>4. h \in {g, g + 1}
      BY <3>3 DEF Read
    <3>5. /\ Pending(e) = SubSeq(w, g + 1, Len(w))
          /\ Pending(e)' = SubSeq(w \o t, h + 1, Len(w \o t))
      BY <3>2 DEF Pending
    <3>6. h = g + 1 => Head(Pending(e)) \in Elems(seen'[NodeOf(e)])
      BY <3>1, <3>3 DEF Read
    <3>7. NodeOf(e)' = NodeOf(e)
      BY DEF NodeOf
    <3> HIDE DEF o, w, t, g, h
    <3>8. \/ x \in Elems(SubSeq(w \o t, h + 1, Len(w \o t)))
          \/ h = g + 1 /\ x = Head(SubSeq(w, g + 1, Len(w)))
      BY <2>1, <3>1, <3>4, <3>5, RestGrows
    <3>9. QED
      BY <3>5, <3>6, <3>7, <3>8
  <2>2. QED
    BY <2>1 DEF NothingLost
<1>5. EndsFit'
  <2>1. ASSUME NEW e \in Ends
        PROVE  /\ end'[e].st # "peer" => end'[e].wire = <<>> /\ end'[e].got = 0
               /\ end'[e].got <= Len(end'[Opposite(e)].wire)
    <3>1. Len(end[Opposite(e)].wire) <= Len(end'[Opposite(e)].wire)
      <4> DEFINE w == end[Opposite(e)].wire
                 t == sent[Opposite(e)]
      <4>1. w \in Seq(Nat) /\ t \in Seq(Nat) /\ end'[Opposite(e)].wire = w \o t
        BY <1>1
      <4> HIDE DEF w, t
      <4>2. Len(w) <= Len(w \o t)
        BY <4>1
      <4>3. QED
        BY <4>1, <4>2 DEF w
    <3>2. end'[e].got <= Len(end'[Opposite(e)].wire)
      <4>1. end'[e].got \in Nat /\ Len(end[Opposite(e)].wire) \in Nat
            /\ Len(end'[Opposite(e)].wire) \in Nat
        <5>1. end'[e] \in Shape /\ end'[Opposite(e)] \in Shape
          BY <1>1
        <5>2. end'[Opposite(e)].wire \in Seq(Nat) /\ end[Opposite(e)].wire \in Seq(Nat)
          BY <1>1, <5>1 DEF Shape
        <5>3. QED
          BY <5>1, <5>2 DEF Shape
      <4>2. QED
        BY <1>2, <3>1, <4>1
    <3>3. ASSUME end'[e].st # "peer" PROVE end'[e].wire = <<>> /\ end'[e].got = 0
      <4>1. end[e].st # "peer" /\ end[e].wire = <<>> /\ end[e].got = 0
        BY <3>3 DEF IInv, EndsFit
      <4>2. e \notin Peers(n) /\ ~Reads(e)
        BY <4>1 DEF Peers, Reads
      <4>3. sent[e] = <<>> /\ Read(e)
        BY <4>2
      <4>4. end'[e].wire = <<>> \o <<>>
        BY <4>1, <4>3
      <4>5. end'[e].got = end[e].got
        BY <4>2, <4>3 DEF Read
      <4>6. QED
        BY <4>1, <4>4, <4>5
    <3>4. QED
      BY <3>2, <3>3
  <2>2. QED
    BY <2>1 DEF IInv, EndsFit
<1>6. QED
  BY <1>3, <1>4, <1>5

(* One operation, two or none. *)
LEMMA ShortSeqs ==
  ASSUME NEW x \in Nat, NEW y \in Nat, x # y
  PROVE  /\ <<x>> \in Seq(Nat) /\ Elems(<<x>>) = {x} /\ Distinct(<<x>>)
         /\ <<x, y>> \in Seq(Nat) /\ Elems(<<x, y>>) = {x, y} /\ Distinct(<<x, y>>)
         /\ <<>> \in Seq(Nat) /\ Elems(<<>>) = {} /\ Distinct(<<>>)
<1>1. <<x>> \in Seq(Nat) /\ Elems(<<x>>) = {x} /\ Distinct(<<x>>)
  BY DEF Elems, Distinct
<1>2. <<x, y>> \in Seq(Nat) /\ Elems(<<x, y>>) = {x, y} /\ Distinct(<<x, y>>)
  <2>1. DOMAIN <<x, y>> = {1, 2}
    OBVIOUS
  <2>2. Elems(<<x, y>>) = {x, y}
    BY <2>1 DEF Elems
  <2>3. Distinct(<<x, y>>)
    BY <2>1 DEF Distinct
  <2>4. QED
    BY <2>2, <2>3
<1>3. <<>> \in Seq(Nat) /\ Elems(<<>>) = {} /\ Distinct(<<>>)
  BY DEF Elems, Distinct
<1>4. QED
  BY <1>1, <1>2, <1>3

(* Reading an operation changes only how much was read. *)
LEMMA ReadShape ==
  ASSUME NEW r \in Shape, NEW r2, r2 = [r EXCEPT !.got = @ + 1]
  PROVE  /\ r2 \in Shape /\ r2.got = r.got + 1
         /\ r2.st = r.st /\ r2.base = r.base /\ r2.wire = r.wire
  BY DEF Shape

(* The ends in en are those there are, but e has read one more. *)
HasRead(e, en) ==
  /\ en \in [Ends -> Shape]
  /\ \A f \in Ends : /\ en[f].st = end[f].st /\ en[f].base = end[f].base
                     /\ en[f].wire = end[f].wire
                     /\ f # e => en[f].got = end[f].got
  /\ en[e].got = end[e].got + 1

(* What PeerOp leaves at the ends before it sends. *)
ReadAt(e) == [end EXCEPT ![e].got = @ + 1]

(* An end that reads has read one more. *)
LEMMA ReadEnd ==
  ASSUME IInv, NEW e \in Ends
  PROVE  HasRead(e, ReadAt(e))
<1> DEFINE read == [end[e] EXCEPT !.got = @ + 1]
<1>1. end[e] \in Shape /\ end \in [Ends -> Shape]
  BY DEF IInv, MeshType
<1>2. /\ read \in Shape /\ read.got = end[e].got + 1 /\ read.st = end[e].st
      /\ read.base = end[e].base /\ read.wire = end[e].wire
  BY <1>1, ReadShape
<1>3. ReadAt(e) = [end EXCEPT ![e] = read]
  BY DEF ReadAt
<1> HIDE DEF read
<1>4. QED
  BY <1>1, <1>2, <1>3 DEF HasRead

(* An operation that was seen before is read and dropped. *)
LEMMA PeerOpSeenInv ==
  ASSUME IInv, NEW e \in Ends, PeerOpSeen(e)
  PROVE  IInv'
<1> DEFINE n    == NodeOf(e)
           id   == Head(Pending(e))
           sent == [f \in Ends |-> <<>>]
<1>1. UNCHANGED <<link, ops, seen, heard, listening>>
  BY DEF PeerOpSeen
<1>2. /\ n \in Nodes /\ end[e].got \in Nat /\ id \in Elems(seen[n])
  BY ReadFacts DEF PeerOpSeen, IsNew
<1>3. /\ end' \in [Ends -> Shape]
      /\ \A f \in Ends : /\ end'[f].st = end[f].st /\ end'[f].base = end[f].base
                         /\ end'[f].wire = end[f].wire
                         /\ f # e => end'[f].got = end[f].got
      /\ end'[e].got = end[e].got + 1
  <2>1. end' = ReadAt(e)
    BY DEF PeerOpSeen, ReadAt
  <2>2. QED
    BY <2>1, ReadEnd DEF HasRead
<1>4. \A f \in Ends : Read(f)
  BY <1>1, <1>2, <1>3 DEF Read, PeerOpSeen
<1>5. <<>> \in Seq(Nat) /\ Elems(<<>>) = {} /\ Distinct(<<>>)
  BY DEF Elems, Distinct
<1>6. \A f \in Ends : end'[f].wire = end[f].wire \o sent[f]
  <2>1. \A f \in Ends : end[f].wire \in Seq(Nat)
    BY DEF IInv, MeshType, Shape
  <2>2. QED
    BY <1>3, <2>1
<1>7. MeshType'
  BY <1>1, <1>3 DEF IInv, MeshType
<1>8. Sends(n, <<>>, sent) /\ NothingLost /\ EndsFit'
  <2>1. sent \in [Ends -> Seq(Nat)] /\ link' = link
    BY <1>1, <1>5
  <2>2. \A f \in Ends :
          /\ end'[f].st = end[f].st /\ end'[f].base = end[f].base
          /\ end'[f].wire = end[f].wire \o sent[f]
          /\ Elems(sent[f]) \subseteq Elems(<<>>)
          /\ Distinct(sent[f])
          /\ f \notin Peers(n) => sent[f] = <<>>
          /\ Read(f)
    BY <1>3, <1>4, <1>5, <1>6
  <2> HIDE DEF n, sent
  <2>3. QED
    BY <1>2, <1>3, <1>5, <2>1, <2>2, FlowEnds
<1>9. Remembers(n, <<>>) /\ Hears(n, <<>>)
  <2>1. seen[n] \o <<>> = seen[n] /\ heard[n] \o <<>> = heard[n]
    BY <1>2 DEF IInv, MeshType
  <2>2. QED
    BY <1>1, <2>1 DEF Remembers, Hears, IInv, MeshType
<1>10. GoesOut(n, <<>>, sent)
  BY <1>5 DEF GoesOut
<1>11. Len(ops') >= Len(ops)
  BY <1>1 DEF IInv, MeshType
<1> HIDE DEF n, sent
<1>12. QED
  BY <1>1, <1>2, <1>5, <1>7, <1>8, <1>9, <1>10, <1>11, FlowStep DEF sent

(* What is published here is new everywhere. *)
LEMMA NextId ==
  ASSUME IInv, NEW rec \in [from : Nodes, kind : {"line", "command", "answer"}]
  PROVE  /\ Len(ops) + 1 \in Nat
         /\ Append(ops, rec) \in Seq([from : Nodes, kind : {"line", "command", "answer"}])
         /\ Len(Append(ops, rec)) = Len(ops) + 1
         /\ \A m \in Nodes : Len(ops) + 1 \notin Elems(seen[m])
<1>1. ops \in Seq([from : Nodes, kind : {"line", "command", "answer"}])
  BY DEF IInv, MeshType
<1>2. Len(ops) + 1 \notin 1 .. Len(ops)
  BY <1>1
<1>3. QED
  BY <1>1, <1>2 DEF IInv, Known

(* The backend publishes what its hub gives it. *)
LEMMA PublishInv ==
  ASSUME IInv, NEW n \in Nodes, NEW kind \in {"line", "command"}, Publish(n, kind)
  PROVE  IInv'
<1> DEFINE id   == Len(ops) + 1
           sent == To(n, Nobody, id)
<1>1. /\ ops' = Append(ops, [from |-> n, kind |-> kind])
      /\ Remembers(n, <<id>>) /\ Hears(n, <<id>>)
      /\ end' = Send(end, n, Nobody, id)
      /\ UNCHANGED <<link, listening>>
  BY DEF Publish
<1>2. /\ id \in Nat /\ Len(ops) \in Nat /\ Len(ops') = Len(ops) + 1
      /\ ops' \in Seq([from : Nodes, kind : {"line", "command", "answer"}])
      /\ id \notin Elems(seen[n])
  BY <1>1, NextId DEF IInv, MeshType
<1>3. /\ end' \in [Ends -> Shape] /\ sent \in [Ends -> Seq(Nat)]
      /\ \A f \in Ends : /\ end'[f].st = end[f].st /\ end'[f].base = end[f].base
                         /\ end'[f].wire = end[f].wire \o sent[f]
                         /\ end'[f].got = end[f].got
  <2>1. end \in [Ends -> Shape]
    BY DEF IInv, MeshType
  <2>2. id \in Nat /\ end' = Send(end, n, Nobody, id)
    BY <1>1, <1>2
  <2> HIDE DEF id
  <2>3. SentMore(end, end', sent)
    BY <2>1, <2>2, SendIs
  <2>4. QED
    BY <2>3 DEF SentMore
<1>4. \A f \in Ends : Read(f)
  BY <1>3 DEF Read
<1>5. /\ <<id>> \in Seq(Nat) /\ Elems(<<id>>) = {id} /\ Distinct(<<id>>)
      /\ Elems(<<>>) = {} /\ Distinct(<<>>)
  BY <1>2 DEF Elems, Distinct
<1>6. \A f \in Ends : /\ Elems(sent[f]) \subseteq Elems(<<id>>)
                      /\ Distinct(sent[f])
                      /\ f \notin Peers(n) => sent[f] = <<>>
  BY <1>5 DEF To
<1>7. MeshType'
  <2>1. seen' \in [Nodes -> Seq(Nat)] /\ heard' \in [Nodes -> Seq(Nat)]
    <3>1. \A m \in Nodes : seen[m] \o <<id>> \in Seq(Nat) /\ heard[m] \o <<id>> \in Seq(Nat)
      BY <1>5, ElemsConcat DEF IInv, MeshType
    <3>2. QED
      BY <1>1, <3>1 DEF Remembers, Hears, IInv, MeshType
  <2>2. QED
    BY <1>1, <1>2, <1>3, <2>1 DEF IInv, MeshType
<1>8. GoesOut(n, <<id>>, sent)
  <2>1. ASSUME NEW f \in Peers(n), link[f[1]].phase = "up"
        PROVE  Elems(<<id>>) \subseteq Elems(sent[f])
    <3>1. f \in Ends /\ f # Nobody
      BY DEF Peers, Nobody, Ends, Sides
    <3>2. sent[f] = <<id>>
      BY <2>1, <3>1 DEF To
    <3>3. QED
      BY <3>2
  <2>2. QED
    BY <2>1 DEF GoesOut
<1> HIDE DEF id, sent
<1>9. Sends(n, <<id>>, sent) /\ NothingLost /\ EndsFit'
  <2>1. \A f \in Ends :
          /\ end'[f].st = end[f].st /\ end'[f].base = end[f].base
          /\ end'[f].wire = end[f].wire \o sent[f]
          /\ Elems(sent[f]) \subseteq Elems(<<id>>)
          /\ Distinct(sent[f])
          /\ f \notin Peers(n) => sent[f] = <<>>
          /\ Read(f)
    BY <1>3, <1>4, <1>6
  <2>2. link' = link
    BY <1>1
  <2>3. QED
    BY <1>3, <1>5, <2>1, <2>2, FlowEnds
<1>10. /\ Elems(<<id>>) \subseteq 1 .. Len(ops')
       /\ Elems(<<id>>) \cap Elems(seen[n]) = {}
  BY <1>2, <1>5 DEF id
<1>11. Len(ops') >= Len(ops)
  BY <1>2
<1>12. QED
  BY <1>1, <1>3, <1>5, <1>7, <1>8, <1>9, <1>10, <1>11, FlowStep

(* The peers of n, and they alone, send some of new. *)
Carries(n, new, sent) ==
  \A f \in Ends : /\ Elems(sent[f]) \subseteq Elems(new)
                  /\ Distinct(sent[f])
                  /\ f \notin Peers(n) => sent[f] = <<>>

(* An operation is read, it and what it gives rise to become known, and    *)
(* both are sent.                                                          *)
LEMMA PeerFlow ==
  ASSUME IInv, NEW e \in Ends, Reads(e),
         NEW new \in Seq(Nat), NEW sent \in [Ends -> Seq(Nat)],
         Head(Pending(e)) \in Elems(new), Distinct(new),
         Elems(new) \cap Elems(seen[NodeOf(e)]) = {},
         Elems(new) \subseteq 1 .. Len(ops'),
         ops' \in Seq([from : Nodes, kind : {"line", "command", "answer"}]),
         Len(ops') >= Len(ops),
         Remembers(NodeOf(e), new), Hears(NodeOf(e), new),
         SentMore(ReadAt(e), end', sent),
         Carries(NodeOf(e), new, sent),
         GoesOut(NodeOf(e), new, sent),
         link' = link, listening' = listening
  PROVE  IInv'
<1> DEFINE n == NodeOf(e)
<1>1. n \in Nodes
  BY ReadFacts
<1>2. HasRead(e, ReadAt(e))
  BY ReadEnd
<1>3. /\ end' \in [Ends -> Shape]
      /\ \A f \in Ends : /\ end'[f].st = end[f].st /\ end'[f].base = end[f].base
                         /\ end'[f].wire = end[f].wire \o sent[f]
                         /\ f # e => end'[f].got = end[f].got
      /\ end'[e].got = end[e].got + 1
  <2> DEFINE read == ReadAt(e)
  <2> HIDE DEF read
  <2>1. HasRead(e, read) /\ SentMore(read, end', sent)
    BY <1>2 DEF read
  <2>2. QED
    BY <2>1 DEF HasRead, SentMore
<1>4. MeshType'
  <2>1. seen' \in [Nodes -> Seq(Nat)] /\ heard' \in [Nodes -> Seq(Nat)]
    <3>1. \A m \in Nodes : seen[m] \o new \in Seq(Nat) /\ heard[m] \o new \in Seq(Nat)
      BY ElemsConcat DEF IInv, MeshType
    <3>2. QED
      BY <3>1 DEF Remembers, Hears, IInv, MeshType
  <2>2. QED
    BY <1>3, <2>1 DEF IInv, MeshType
<1>5. Head(Pending(e)) \in Elems(seen'[n])
  <2>1. seen'[n] = seen[n] \o new /\ seen[n] \in Seq(Nat)
    BY <1>1 DEF Remembers, IInv, MeshType
  <2>2. QED
    BY <2>1, ElemsConcat
<1>6. \A f \in Ends : Read(f)
  BY <1>3, <1>5 DEF Read
<1> HIDE DEF n
<1>7. Sends(n, new, sent) /\ NothingLost /\ EndsFit'
  <2>1. \A f \in Ends :
          /\ end'[f].st = end[f].st /\ end'[f].base = end[f].base
          /\ end'[f].wire = end[f].wire \o sent[f]
          /\ Elems(sent[f]) \subseteq Elems(new)
          /\ Distinct(sent[f])
          /\ f \notin Peers(n) => sent[f] = <<>>
          /\ Read(f)
    <3>1. Carries(n, new, sent)
      BY DEF n
    <3>2. QED
      BY <1>3, <1>6, <3>1 DEF Carries
  <2>2. IInv /\ link' = link /\ new \in Seq(Nat) /\ sent \in [Ends -> Seq(Nat)]
    OBVIOUS
  <2>3. QED
    BY ONLY <1>1, <1>3, <2>1, <2>2, FlowEnds
<1>8. QED
  BY <1>1, <1>4, <1>7, FlowStep DEF n

(* Two operations are sent one behind the other. *)
LEMMA SentTwice ==
  ASSUME NEW e1, NEW e2, NEW e3, NEW s, NEW t,
         e1 \in [Ends -> Shape], SentMore(e1, e2, s), SentMore(e2, e3, t)
  PROVE  SentMore(e1, e3, [f \in Ends |-> s[f] \o t[f]])
<1> DEFINE st == [f \in Ends |-> s[f] \o t[f]]
<1>1. ASSUME NEW f \in Ends
      PROVE  /\ st[f] \in Seq(Nat)
             /\ e3[f].st = e1[f].st /\ e3[f].base = e1[f].base
             /\ e3[f].got = e1[f].got
             /\ e3[f].wire = e1[f].wire \o st[f]
  <2>1. s[f] \in Seq(Nat) /\ t[f] \in Seq(Nat) /\ e1[f].wire \in Seq(Nat)
    BY DEF SentMore, Shape
  <2>2. e3[f].wire = (e1[f].wire \o s[f]) \o t[f]
    BY DEF SentMore
  <2>3. /\ (e1[f].wire \o s[f]) \o t[f] = e1[f].wire \o (s[f] \o t[f])
        /\ s[f] \o t[f] \in Seq(Nat)
    <3> DEFINE a == s[f]
               b == t[f]
               w == e1[f].wire
    <3>1. a \in Seq(Nat) /\ b \in Seq(Nat) /\ w \in Seq(Nat)
      BY <2>1
    <3> HIDE DEF a, b, w
    <3>2. a \o b \in Seq(Nat) /\ (w \o a) \o b = w \o (a \o b)
      BY <3>1, ConcatAssociative
    <3>3. QED
      BY <3>2 DEF a, b, w
  <2>4. QED
    BY <2>2, <2>3 DEF SentMore
<1>2. st \in [Ends -> Seq(Nat)] /\ e3 \in [Ends -> Shape]
  BY <1>1 DEF SentMore
<1> HIDE DEF st
<1>3. SentMore(e1, e3, st)
  BY <1>1, <1>2 DEF SentMore
<1>4. QED
  BY <1>3 DEF st

(* A new operation that is not answered here. *)
LEMMA PeerOpPlainInv ==
  ASSUME IInv, NEW e \in Ends, PeerOp(e),
         ~(listening[NodeOf(e)] /\ ops[Head(Pending(e))].kind = "command")
  PROVE  IInv'
<1> DEFINE n    == NodeOf(e)
           id   == Head(Pending(e))
           sent == To(n, e, id)
<1>1. /\ Reads(e) /\ id \notin Elems(seen[n])
      /\ Remembers(n, <<id>>) /\ Hears(n, <<id>>)
      /\ end' = Send(ReadAt(e), n, e, id)
      /\ ops' = ops /\ link' = link /\ listening' = listening
  BY DEF PeerOp, IsNew, ReadAt
<1>2. /\ id \in 1 .. Len(ops) /\ id \in Elems(seen[NodeOf(Opposite(e))])
      /\ ops \in Seq([from : Nodes, kind : {"line", "command", "answer"}])
  BY <1>1, ReadFacts DEF IInv, MeshType
<1>3. id \in Nat
  BY <1>2
<1>4. /\ <<id>> \in Seq(Nat) /\ Elems(<<id>>) = {id} /\ Distinct(<<id>>)
      /\ Elems(<<>>) = {} /\ Distinct(<<>>)
  BY <1>3 DEF Elems, Distinct
<1>5. Carries(n, <<id>>, sent)
  BY <1>4 DEF Carries, To
<1>6. GoesOut(n, <<id>>, sent)
  <2>1. ASSUME NEW f \in Peers(n), link[f[1]].phase = "up"
        PROVE  Elems(<<id>>) \subseteq Elems(sent[f]) \cup Elems(seen[NodeOf(Opposite(f))])
    <3>1. f \in Ends
      BY DEF Peers
    <3>2. CASE f = e
      BY <1>2, <1>4, <3>2
    <3>3. CASE f # e
      <4>1. sent[f] = <<id>>
        BY <2>1, <3>1, <3>3 DEF To
      <4>2. QED
        BY <4>1
    <3>4. QED
      BY <3>2, <3>3
  <2>2. QED
    BY <2>1 DEF GoesOut
<1>7. SentMore(ReadAt(e), end', sent)
  <2>1. ReadAt(e) \in [Ends -> Shape]
    BY ReadEnd DEF HasRead
  <2> HIDE DEF n, id
  <2>2. QED
    BY <1>1, <1>3, <2>1, SendIs
<1>8. sent \in [Ends -> Seq(Nat)]
  BY <1>4 DEF To
<1>9. Elems(<<id>>) \cap Elems(seen[n]) = {} /\ Elems(<<id>>) \subseteq 1 .. Len(ops')
  BY <1>1, <1>2, <1>4
<1>10. Len(ops') >= Len(ops) /\ id \in Elems(<<id>>)
       /\ ops' \in Seq([from : Nodes, kind : {"line", "command", "answer"}])
  BY <1>1, <1>2, <1>4
<1> HIDE DEF n, id, sent
<1>11. QED
  BY <1>1, <1>4, <1>5, <1>6, <1>7, <1>8, <1>9, <1>10, PeerFlow DEF n, id

(* A new command that the console of the process answers. *)
LEMMA PeerOpAnsweredInv ==
  ASSUME IInv, NEW e \in Ends, PeerOp(e),
         listening[NodeOf(e)] /\ ops[Head(Pending(e))].kind = "command"
  PROVE  IInv'
<1> DEFINE n    == NodeOf(e)
           id   == Head(Pending(e))
           r    == Len(ops) + 1
           s    == To(n, Nobody, r)
           t    == To(n, e, id)
           sent == [f \in Ends |-> s[f] \o t[f]]
           mid  == Send(ReadAt(e), n, Nobody, r)
<1>1. /\ Reads(e) /\ id \notin Elems(seen[n])
      /\ Remembers(n, <<id, r>>) /\ Hears(n, <<id, r>>)
      /\ end' = Send(mid, n, e, id)
      /\ ops' = Append(ops, [from |-> n, kind |-> "answer"])
      /\ link' = link /\ listening' = listening
  BY DEF PeerOp, IsNew, ReadAt
<1>2. /\ n \in Nodes
      /\ id \in 1 .. Len(ops) /\ id \in Elems(seen[NodeOf(Opposite(e))])
      /\ ops \in Seq([from : Nodes, kind : {"line", "command", "answer"}])
  BY <1>1, ReadFacts DEF IInv, MeshType
<1>3. id \in Nat /\ r \in Nat /\ id # r /\ Len(ops) \in Nat
  BY <1>2
<1>4. /\ ops' \in Seq([from : Nodes, kind : {"line", "command", "answer"}])
      /\ Len(ops') = Len(ops) + 1
      /\ r \notin Elems(seen[n])
  BY <1>1, <1>2, NextId
<1>5. /\ <<id, r>> \in Seq(Nat) /\ Elems(<<id, r>>) = {id, r} /\ Distinct(<<id, r>>)
      /\ <<id>> \in Seq(Nat) /\ Elems(<<id>>) = {id} /\ Distinct(<<id>>)
      /\ <<r>> \in Seq(Nat) /\ Elems(<<r>>) = {r} /\ Distinct(<<r>>)
      /\ <<>> \in Seq(Nat) /\ Elems(<<>>) = {} /\ Distinct(<<>>)
  <2> HIDE DEF id, r
  <2>1. QED
    BY <1>3, ShortSeqs
<1>6. /\ \A f \in Ends : s[f] \in {<<>>, <<r>>} /\ t[f] \in {<<>>, <<id>>}
      /\ \A f \in Ends : f \notin Peers(n) => s[f] = <<>> /\ t[f] = <<>>
  BY DEF To
<1>7. ASSUME NEW f \in Ends
      PROVE  /\ sent[f] \in Seq(Nat)
             /\ Elems(sent[f]) = Elems(s[f]) \cup Elems(t[f])
             /\ Elems(sent[f]) \subseteq Elems(<<id, r>>)
             /\ Distinct(sent[f])
             /\ f \notin Peers(n) => sent[f] = <<>>
  <2> DEFINE a == s[f]
             b == t[f]
  <2>1. /\ a \in Seq(Nat) /\ Elems(a) \subseteq {r} /\ Distinct(a)
        /\ b \in Seq(Nat) /\ Elems(b) \subseteq {id} /\ Distinct(b)
        /\ f \notin Peers(n) => a = <<>> /\ b = <<>>
    <3> HIDE DEF s, t, id, r
    <3>1. a \in {<<>>, <<r>>} /\ b \in {<<>>, <<id>>}
          /\ (f \notin Peers(n) => a = <<>> /\ b = <<>>)
      BY <1>6
    <3> HIDE DEF a, b
    <3>2. QED
      BY <1>5, <3>1
  <2>2. sent[f] = a \o b
    OBVIOUS
  <2> HIDE DEF a, b, id, r, sent
  <2>3. a \o b \in Seq(Nat) /\ Elems(a \o b) = Elems(a) \cup Elems(b)
    BY <2>1, ElemsConcat
  <2>4. Elems(a) \cap Elems(b) = {}
    BY <1>3, <2>1
  <2>5. Distinct(a \o b)
    BY <2>1, <2>4, DistinctConcat
  <2>6. f \notin Peers(n) => a \o b = <<>>
    BY <2>1
  <2>7. Elems(a \o b) \subseteq Elems(<<id, r>>)
    BY <1>5, <2>1, <2>3
  <2>8. QED
    BY <2>2, <2>3, <2>5, <2>6, <2>7 DEF a, b
<1>8. Carries(n, <<id, r>>, sent)
  <2> HIDE DEF n, id, r, sent
  <2>1. QED
    BY <1>7 DEF Carries
<1>9. GoesOut(n, <<id, r>>, sent)
  <2>1. ASSUME NEW f \in Peers(n), link[f[1]].phase = "up"
        PROVE  {id, r} \subseteq Elems(sent[f]) \cup Elems(seen[NodeOf(Opposite(f))])
    <3>1. f \in Ends /\ f # Nobody
      BY DEF Peers, Nobody, Ends, Sides
    <3>2. s[f] = <<r>> /\ (f # e => t[f] = <<id>>)
      BY <2>1, <3>1 DEF To
    <3>3. Elems(sent[f]) = Elems(s[f]) \cup Elems(t[f])
      BY <1>7, <3>1
    <3> HIDE DEF id, r, s, t, sent
    <3>4. QED
      BY <1>2, <1>5, <3>2, <3>3
  <2> HIDE DEF id, r, sent, n
  <2>2. QED
    BY <1>5, <2>1 DEF GoesOut
<1>10. SentMore(ReadAt(e), end', sent)
  <2>1. ReadAt(e) \in [Ends -> Shape]
    BY ReadEnd DEF HasRead
  <2> HIDE DEF n, id, r
  <2>2. SentMore(ReadAt(e), mid, s)
    BY <1>3, <2>1, SendIs
  <2>3. mid \in [Ends -> Shape]
    BY <2>2 DEF SentMore
  <2> HIDE DEF mid
  <2>4. SentMore(mid, end', t)
    BY <1>1, <1>3, <2>3, SendIs
  <2> HIDE DEF s, t
  <2>5. QED
    BY <2>1, <2>2, <2>4, SentTwice
<1>11. sent \in [Ends -> Seq(Nat)]
  BY <1>7
<1>0. id \in 1 .. Len(ops') /\ r \in 1 .. Len(ops')
  <2>1. r = Len(ops')
    BY <1>4
  <2> HIDE DEF id, r
  <2>2. QED
    BY <1>2, <1>3, <1>4, <2>1
<1> HIDE DEF n, id, r, sent
<1>12. Elems(<<id, r>>) \cap Elems(seen[n]) = {}
  BY <1>1, <1>4, <1>5
<1>13. Elems(<<id, r>>) \subseteq 1 .. Len(ops')
  BY <1>0, <1>5
<1>14. Len(ops') >= Len(ops) /\ id \in Elems(<<id, r>>)
  BY <1>3, <1>4, <1>5
<1>15. /\ Reads(e) /\ Remembers(n, <<id, r>>) /\ Hears(n, <<id, r>>)
       /\ link' = link /\ listening' = listening
       /\ ops' \in Seq([from : Nodes, kind : {"line", "command", "answer"}])
       /\ <<id, r>> \in Seq(Nat) /\ Distinct(<<id, r>>)
  BY <1>1, <1>4, <1>5
<1> DEFINE new == <<id, r>>
<1> HIDE DEF new
<1>16. QED
  BY <1>8, <1>9, <1>10, <1>11, <1>12, <1>13, <1>14, <1>15, PeerFlow DEF n, id, new

(* The hub moves its listener to another backend or back. *)
LEMMA MoveListenerInv ==
  ASSUME IInv, NEW n \in Nodes, MoveListener(n)
  PROVE  IInv'
<1>1. UNCHANGED <<link, end, ops, seen, heard>>
  BY DEF MoveListener
<1>2. MeshType'
  BY <1>1 DEF MoveListener, IInv, MeshType
<1>3. EndsFit'
  BY <1>1 DEF IInv, EndsFit
<1>4. \A e \in Ends : EndStays(e) /\ EndComes(e)
  BY <1>1 DEF EndStays, EndComes
<1>5. QED
  BY <1>1, <1>2, <1>3, <1>4, ShapeStep

(* No step breaks the invariant. *)
LEMMA NextInv ==
  ASSUME IInv, [Next]_vars
  PROVE  IInv'
<1>1. CASE UNCHANGED vars
  <2>1. UNCHANGED <<link, end, ops, seen, heard, listening>>
    BY <1>1 DEF vars
  <2>2. MeshType' /\ EndsFit'
    BY <2>1 DEF IInv, MeshType, EndsFit
  <2>3. \A e \in Ends : EndStays(e) /\ EndComes(e)
    BY <2>1 DEF EndStays, EndComes
  <2>4. QED
    BY <2>1, <2>2, <2>3, ShapeStep
<1>2. ASSUME NEW n \in Nodes, NEW m \in Nodes, NEW k \in Links,
             DialNow(n, m, k) \/ DialLater(n, m, k)
      PROVE  IInv'
  BY <1>2, DialNowInv, DialLaterInv
<1>3. ASSUME NEW k \in Links,
             Establish(k) \/ Refuse(k) \/ OnConnect(k) \/ Accept(k) \/ Cut(k)
      PROVE  IInv'
  BY <1>3, LinkInv, OnConnectInv, AcceptInv
<1>4. ASSUME NEW e \in Ends, PeerOpSeen(e) \/ PeerOp(e) PROVE IInv'
  BY <1>4, PeerOpSeenInv, PeerOpPlainInv, PeerOpAnsweredInv
<1>5. ASSUME NEW n \in Nodes, NEW kind \in DOMAIN MaxOps, Publish(n, kind) PROVE IInv'
  <2>1. kind \in {"line", "command"}
    BY MeshAssumption
  <2>2. QED
    BY <1>5, <2>1, PublishInv
<1>6. ASSUME NEW n \in Nodes, MoveListener(n) \/ Quit(n) PROVE IInv'
  BY <1>6, MoveListenerInv, LinkInv
<1>7. QED
  BY <1>1, <1>2, <1>3, <1>4, <1>5, <1>6 DEF Next

(* In every run of every mesh the invariant holds. *)
THEOREM SpecInv == Spec => []IInv
<1>1. Init => IInv
  BY InitInv
<1>2. IInv /\ [Next]_vars => IInv'
  BY NextInv
<1>3. QED
  BY <1>1, <1>2, PTL DEF Spec

(* No listener hears an operation twice, in cycles, over double and self   *)
(* connections, with any number of processes that come, go and move their  *)
(* listeners (crdt_mesh.c:192-208, 322-326).                               *)
THEOREM ListenersHearOnce == Spec => []HeardOnce
<1>1. IInv => HeardOnce
  BY DEF IInv
<1>2. QED
  BY <1>1, SpecInv, PTL

(* An operation crosses a connection at most once in each direction, so    *)
(* that a finite number of publications makes a finite flood               *)
(* (crdt_mesh.c:209-214, 327-330).                                         *)
THEOREM FloodEnds == Spec => []CrossesOnce
<1>1. IInv => CrossesOnce
  BY DEF IInv
<1>2. QED
  BY <1>1, SpecInv, PTL

(* Neighbours agree: whatever one end has seen since it is a peer, the     *)
(* other knows or has on its way (crdt_mesh.c:181-217, 259-264, 313-333).  *)
THEOREM NeighboursAgree == Spec => []LinkAgree
<1>1. IInv => LinkAgree
  BY DEF IInv
<1>2. QED
  BY <1>1, SpecInv, PTL
-----------------------------------------------------------------------------
(* Types *)

(* Processes that run exist, and no table of peers is overfull.            *)
Tables ==
  /\ alive \subseteq Nodes
  /\ \A n \in Nodes : Cardinality(Peers(n)) <= MaxPeers

(* There are finitely many ends.                                           *)
LEMMA EndsFinite == ASSUME NEW S \in SUBSET Ends PROVE IsFiniteSet(S)
<1>1. IsFiniteSet(Links)
  BY MeshAssumption, FS_Interval DEF Links
<1>2. IsFiniteSet(Sides)
  <2>1. IsFiniteSet({"in"}) /\ Sides = {"in"} \cup {"out"}
    BY FS_Singleton DEF Sides
  <2>2. IsFiniteSet({"out"})
    BY FS_Singleton
  <2>3. QED
    BY <2>1, <2>2, FS_Union
<1>3. IsFiniteSet(Ends)
  BY <1>1, <1>2, FS_Product DEF Ends
<1>4. QED
  BY <1>3, FS_Subset

(* No end becomes a peer.                                                  *)
StandStill == \A e \in Ends : end'[e].st = end[e].st \/ end'[e].st # "peer"

(* Of connections that were made, who made them stays.                     *)
LEMMA PairsStay ==
  ASSUME IInv, [Next]_vars, NEW e \in Ends, end[e].st # "none"
  PROVE  NodeOf(e)' = NodeOf(e)
<1>1. /\ link \in [Links -> Link] /\ e[1] \in Links /\ link[e[1]].phase # "unused"
  BY DEF IInv, MeshType, EndsFit, Ends
<1>2. CASE link' = link
  BY <1>2 DEF NodeOf
<1>3. ASSUME NEW k \in Links, NEW ph, link' = [link EXCEPT ![k].phase = ph]
      PROVE  link'[e[1]].pair = link[e[1]].pair
  BY <1>1, <1>3 DEF Link
<1>4. ASSUME NEW n \in Nodes, NEW m \in Nodes, NEW k \in Links,
             DialNow(n, m, k) \/ DialLater(n, m, k)
      PROVE  link'[e[1]].pair = link[e[1]].pair
  <2>1. k # e[1]
    <3>1. ~Used(k)
      BY <1>4 DEF DialNow, DialLater, Fresh, Links
    <3>2. QED
      BY <1>1, <3>1 DEF Used
  <2>2. \A j \in Links : j # k => link'[j] = link[j]
    BY <1>1, <1>4 DEF DialNow, DialLater
  <2>3. QED
    BY <1>1, <2>1, <2>2
<1>5. ASSUME NEW n \in Nodes, Quit(n)
      PROVE  link'[e[1]].pair = link[e[1]].pair
  BY <1>1, <1>5 DEF Quit, Link
<1>6. ASSUME NEW k \in Links,
             Establish(k) \/ Refuse(k) \/ OnConnect(k) \/ Accept(k) \/ Cut(k)
      PROVE  link'[e[1]].pair = link[e[1]].pair
  BY <1>3, <1>6 DEF Establish, Refuse, OnConnect, Accept, Cut, Breaks
<1>7. ASSUME NEW f \in Ends, PeerOpSeen(f) \/ PeerOp(f) PROVE link' = link
  BY <1>7 DEF PeerOpSeen, PeerOp
<1>8. ASSUME NEW n \in Nodes, NEW kind \in DOMAIN MaxOps, Publish(n, kind) PROVE link' = link
  BY <1>8 DEF Publish
<1>9. ASSUME NEW n \in Nodes, MoveListener(n) PROVE link' = link
  BY <1>9 DEF MoveListener
<1>10. link'[e[1]].pair = link[e[1]].pair
  BY <1>2, <1>4, <1>5, <1>6, <1>7, <1>8, <1>9 DEF Next, vars
<1>11. QED
  BY <1>10 DEF NodeOf

(* Sending makes nobody a peer.                                            *)
LEMMA SendStill ==
  ASSUME NEW en \in [Ends -> Shape], NEW n, NEW x, NEW id, NEW e \in Ends
  PROVE  /\ Send(en, n, x, id)[e].st = en[e].st
         /\ id \in Nat => Send(en, n, x, id) \in [Ends -> Shape]
<1>1. [en[e] EXCEPT !.wire = Append(@, id)].st = en[e].st
  BY DEF Shape
<1>2. Send(en, n, x, id)[e] \in {en[e], [en[e] EXCEPT !.wire = Append(@, id)]}
  BY DEF Send
<1>3. ASSUME id \in Nat, NEW f \in Ends
      PROVE  [en[f] EXCEPT !.wire = Append(@, id)] \in Shape
  <2>1. en[f] \in Shape /\ Append(en[f].wire, id) \in Seq(Nat)
    BY <1>3, AppendProperties DEF Shape
  <2>2. QED
    BY <2>1 DEF Shape
<1>4. QED
  BY <1>1, <1>2, <1>3 DEF Send

(* A step makes at most one end a peer, of a process that has room.        *)
LEMMA StepPeers ==
  ASSUME IInv, [Next]_vars
  PROVE  \/ StandStill
         \/ \E e \in Ends : /\ \A f \in Ends : f # e => end'[f].st = end[f].st
                            /\ Room(NodeOf(e)')
<1>1. end \in [Ends -> Shape] /\ ops \in Seq([from : Nodes, kind : {"line", "command", "answer"}])
  BY DEF IInv, MeshType
<1>2. CASE end' = end
  BY <1>2 DEF StandStill
<1>3. \A k \in Links : <<k, "out">> \in Ends /\ <<k, "in">> \in Ends
  BY DEF Ends, Sides
<1>4. ASSUME NEW e \in Ends, NEW s \in {"dialing", "closed"}, end' = [end EXCEPT ![e].st = s]
      PROVE  StandStill
  BY <1>1, <1>4 DEF StandStill, Shape
<1>5. ASSUME NEW n \in Nodes, NEW m \in Nodes, NEW k \in Links, DialNow(n, m, k)
      PROVE  \/ StandStill
             \/ \E e \in Ends : /\ \A f \in Ends : f # e => end'[f].st = end[f].st
                                /\ Room(NodeOf(e)')
  <2> DEFINE e == <<k, "out">>
  <2>1. CASE Room(n)
    <3>1. end' = [end EXCEPT ![e] = NewPeer(n)]
      BY <1>5, <2>1 DEF DialNow
    <3>2. NodeOf(e)' = n
      <4>1. link'[k].pair = <<n, m>>
        BY <1>5 DEF DialNow, IInv, MeshType
      <4>2. QED
        BY <4>1 DEF NodeOf
    <3>3. QED
      BY <1>1, <1>3, <2>1, <3>1, <3>2
  <2>2. CASE ~Room(n)
    <3>1. end' = [end EXCEPT ![e] = [NoEnd EXCEPT !.st = "closed"]]
      BY <1>5, <2>2 DEF DialNow
    <3>2. [NoEnd EXCEPT !.st = "closed"].st = "closed"
      BY DEF NoEnd
    <3>3. QED
      BY <1>1, <1>3, <3>1, <3>2 DEF StandStill
  <2>3. QED
    BY <2>1, <2>2
<1>6. ASSUME NEW n \in Nodes, NEW m \in Nodes, NEW k \in Links, DialLater(n, m, k)
      PROVE  StandStill
  BY <1>3, <1>4, <1>6 DEF DialLater
<1>7. ASSUME NEW k \in Links, OnConnect(k) \/ Accept(k)
      PROVE  \/ StandStill
             \/ \E e \in Ends : /\ \A f \in Ends : f # e => end'[f].st = end[f].st
                                /\ Room(NodeOf(e)')
  <2>1. PICK e \in {<<k, "out">>, <<k, "in">>} :
          \/ end' = [end EXCEPT ![e].st = "closed"]
          \/ end' = [end EXCEPT ![e] = NewPeer(NodeOf(e))] /\ Room(NodeOf(e)) /\ link' = link
    BY <1>7 DEF OnConnect, Accept
  <2>2. CASE end' = [end EXCEPT ![e].st = "closed"]
    BY <1>3, <1>4, <2>1, <2>2
  <2>3. CASE end' = [end EXCEPT ![e] = NewPeer(NodeOf(e))] /\ Room(NodeOf(e)) /\ link' = link
    <3>1. NodeOf(e)' = NodeOf(e)
      BY <2>3 DEF NodeOf
    <3>2. QED
      BY <1>1, <1>3, <2>1, <2>3, <3>1
  <2>4. QED
    BY <2>1, <2>2, <2>3
<1>8. ASSUME NEW e \in Ends
      PROVE  ReadAt(e) \in [Ends -> Shape] /\ \A f \in Ends : ReadAt(e)[f].st = end[f].st
  BY ReadEnd DEF HasRead
<1>9. ASSUME NEW e \in Ends, PeerOpSeen(e) PROVE StandStill
  <2>1. end' = ReadAt(e)
    BY <1>9 DEF PeerOpSeen, ReadAt
  <2>2. QED
    BY <1>8, <2>1 DEF StandStill
<1>10. ASSUME NEW e \in Ends, PeerOp(e) PROVE StandStill
  <2> DEFINE n == NodeOf(e)
             id == Head(Pending(e))
             r == Len(ops) + 1
             read == ReadAt(e)
             mid == Send(read, n, Nobody, r)
  <2>1. end' = Send(mid, n, e, id) \/ end' = Send(read, n, e, id)
    BY <1>10 DEF PeerOp, ReadAt
  <2>2. read \in [Ends -> Shape] /\ (\A f \in Ends : read[f].st = end[f].st) /\ r \in Nat
    BY <1>1, <1>8
  <2> HIDE DEF n, id, r, read
  <2>3. \A f \in Ends : Send(read, n, e, id)[f].st = read[f].st
    BY <2>2, SendStill
  <2>4. \A f \in Ends : Send(read, n, Nobody, r)[f].st = read[f].st
    BY <2>2, SendStill
  <2>5. \A f \in Ends : Send(read, n, Nobody, r) \in [Ends -> Shape]
    BY <2>2, SendStill
  <2>6. mid \in [Ends -> Shape] /\ \A f \in Ends : mid[f].st = read[f].st
    BY <1>10, <2>4, <2>5
  <2> HIDE DEF mid
  <2>7. \A f \in Ends : Send(mid, n, e, id)[f].st = mid[f].st
    BY <2>6, SendStill
  <2>8. \A f \in Ends : end'[f].st = end[f].st
    BY <2>1, <2>2, <2>3, <2>6, <2>7
  <2>9. QED
    BY <2>8 DEF StandStill
<1>11. ASSUME NEW n \in Nodes, NEW kind \in DOMAIN MaxOps, Publish(n, kind) PROVE StandStill
  <2>1. end' = Send(end, n, Nobody, Len(ops) + 1)
    BY <1>11 DEF Publish
  <2>2. \A f \in Ends : end'[f].st = end[f].st
    BY <1>1, <2>1, SendStill
  <2>3. QED
    BY <2>2 DEF StandStill
<1>12. ASSUME NEW k \in Links, Establish(k) \/ Refuse(k) \/ Cut(k) PROVE end' = end
  BY <1>12 DEF Establish, Refuse, Cut
<1>13. ASSUME NEW n \in Nodes, MoveListener(n) \/ Quit(n) PROVE end' = end
  BY <1>13 DEF MoveListener, Quit
<1>14. QED
  BY <1>2, <1>5, <1>6, <1>7, <1>9, <1>10, <1>11, <1>12, <1>13 DEF Next, vars

(* No step overfills a table.                                              *)
LEMMA NextTables == ASSUME IInv, Tables, [Next]_vars PROVE Tables'
<1>1. alive' \subseteq alive
  BY DEF Next, vars, DialNow, DialLater, Establish, Refuse, OnConnect, Accept, Cut,
         PeerOpSeen, PeerOp, Publish, MoveListener, Quit
<1>2. /\ \A e \in Ends : end[e].st = "peer" => NodeOf(e)' = NodeOf(e)
      /\ \A n : Peers(n) \in SUBSET Ends /\ IsFiniteSet(Peers(n))
      /\ \A n : Peers(n)' \in SUBSET Ends /\ IsFiniteSet(Peers(n)')
  <2>1. \A e \in Ends : end[e].st = "peer" => NodeOf(e)' = NodeOf(e)
    BY PairsStay
  <2>2. \A n : Peers(n) \in SUBSET Ends /\ Peers(n)' \in SUBSET Ends
    BY DEF Peers
  <2>3. QED
    BY <2>1, <2>2, EndsFinite
<1>3. ASSUME NEW n \in Nodes, Peers(n)' \subseteq Peers(n)
      PROVE  Cardinality(Peers(n)') <= MaxPeers
  <2>1. Cardinality(Peers(n)') <= Cardinality(Peers(n))
    BY <1>2, <1>3, FS_Subset
  <2>2. Cardinality(Peers(n)) \in Nat /\ Cardinality(Peers(n)') \in Nat /\ MaxPeers \in Nat
    BY <1>2, FS_CardinalityType, MeshAssumption
  <2>3. QED
    BY <2>1, <2>2 DEF Tables
<1>4. CASE StandStill
  <2>1. ASSUME NEW n \in Nodes PROVE Peers(n)' \subseteq Peers(n)
    BY <1>2, <1>4 DEF StandStill, Peers
  <2>2. QED
    BY <1>1, <1>3, <2>1 DEF Tables
<1>5. ASSUME NEW e \in Ends, \A f \in Ends : f # e => end'[f].st = end[f].st, Room(NodeOf(e)')
      PROVE  Tables'
  <2>1. ASSUME NEW n \in Nodes PROVE Cardinality(Peers(n)') <= MaxPeers
    <3>1. CASE n # NodeOf(e)'
      <4>1. Peers(n)' \subseteq Peers(n)
        BY <1>2, <1>5, <3>1 DEF Peers
      <4>2. QED
        BY <1>3, <4>1
    <3>2. CASE n = NodeOf(e)'
      <4>1. Peers(n)' \subseteq Peers(n) \cup {e}
        BY <1>2, <1>5 DEF Peers
      <4>2. Cardinality(Peers(n)) < MaxPeers
        BY <1>5, <3>2 DEF Room
      <4>3. /\ IsFiniteSet(Peers(n) \cup {e})
            /\ Cardinality(Peers(n) \cup {e}) <= Cardinality(Peers(n)) + 1
        <5> DEFINE P == Peers(n)
        <5>1. IsFiniteSet(P)
          BY <1>2
        <5> HIDE DEF P
        <5>2. Cardinality(P) \in Nat
          BY <5>1, FS_CardinalityType
        <5>3. /\ IsFiniteSet(P \cup {e})
              /\ Cardinality(P \cup {e}) = IF e \in P THEN Cardinality(P) ELSE Cardinality(P) + 1
          BY <5>1, FS_AddElement
        <5>4. Cardinality(P \cup {e}) <= Cardinality(P) + 1
          BY <5>2, <5>3
        <5>5. QED
          BY <5>3, <5>4 DEF P
      <4>4. Cardinality(Peers(n)') <= Cardinality(Peers(n) \cup {e})
        BY <4>1, <4>3, FS_Subset
      <4>5. /\ Cardinality(Peers(n)) \in Nat /\ Cardinality(Peers(n)') \in Nat
            /\ Cardinality(Peers(n) \cup {e}) \in Nat /\ MaxPeers \in Nat
        BY <1>2, <4>3, FS_CardinalityType, MeshAssumption
      <4>6. QED
        BY <4>2, <4>3, <4>4, <4>5
    <3>3. QED
      BY <3>1, <3>2
  <2>2. QED
    BY <1>1, <2>1 DEF Tables
<1>6. QED
  BY <1>4, <1>5, StepPeers

(* What is known is typed as what was published.                           *)
LEMMA TypesHold == ASSUME IInv, Tables PROVE TypeOK
<1>1. MeshType /\ EndsFit /\ Known
  BY DEF IInv
<1>2. ASSUME NEW s \in Seq(Nat), Elems(s) \subseteq Made PROVE s \in Seq(Made)
  <2>1. DOMAIN s = 1 .. Len(s) /\ s \in [1 .. Len(s) -> Made] /\ Len(s) \in Nat
    BY <1>2 DEF Elems
  <2>2. QED
    BY <2>1, SeqDef
<1>3. \A n \in Nodes : seen[n] \in Seq(Made) /\ heard[n] \in Seq(Made)
  <2>1. \A n \in Nodes : Elems(seen[n]) \subseteq Made /\ Elems(heard[n]) \subseteq Made
    BY <1>1 DEF Known, Made
  <2>2. QED
    BY <1>1, <1>2, <2>1 DEF MeshType
<1>4. ASSUME NEW e \in Ends PROVE end[e].wire \in Seq(Made)
  <2>1. end[e].wire \in Seq(Nat)
    BY <1>1 DEF MeshType, Shape
  <2>2. CASE end[e].st = "peer"
    <3>1. NodeOf(e) \in Nodes
      <4>1. link[e[1]].phase # "unused"
        BY <1>1, <2>2 DEF EndsFit
      <4>2. link[e[1]].pair \in Nodes \X Nodes
        BY <1>1, <4>1 DEF EndsFit
      <4>3. QED
        BY <4>2 DEF NodeOf
    <3>2. Elems(end[e].wire) \subseteq Made
      BY <1>1, <2>2, <3>1 DEF Known, Made
    <3> DEFINE w == end[e].wire
    <3> HIDE DEF w
    <3>3. w \in Seq(Made)
      BY <1>2, <2>1, <3>2 DEF w
    <3>4. QED
      BY <3>3 DEF w
  <2>3. CASE end[e].st # "peer"
    <3>1. end[e].wire = <<>> /\ <<>> \in Seq(Made)
      BY <1>1, <2>3 DEF EndsFit
    <3>2. QED
      BY <3>1
  <2>4. QED
    BY <2>2, <2>3
<1>5. end \in [Ends -> PeerEnd]
  <2>1. \A e \in Ends : end[e] \in PeerEnd
    BY <1>1, <1>4 DEF MeshType, Shape, PeerEnd
  <2>2. QED
    BY <1>1, <2>1 DEF MeshType
<1>6. QED
  BY <1>1, <1>3, <1>5 DEF TypeOK, Tables, MeshType

(* Tables and connections hold operations that were published, and no      *)
(* process has more peers than its table has places, whatever it dials and *)
(* accepts and in whatever order attempts end (crdt_mesh.c:225-264).       *)
THEOREM StaysTyped == Spec => []TypeOK
<1>1. Init => IInv /\ Tables
  <2>1. ASSUME Init PROVE Tables
    <3>1. end = [e \in Ends |-> NoEnd] /\ alive = Nodes
      BY <2>1 DEF Init
    <3>2. \A n \in Nodes : Peers(n) = {}
      BY <3>1 DEF Peers, NoEnd
    <3>3. QED
      BY <3>1, <3>2, FS_EmptySet, MeshAssumption DEF Tables
  <2>2. QED
    BY <2>1, InitInv
<1>2. IInv /\ Tables /\ [Next]_vars => (IInv /\ Tables)'
  BY NextInv, NextTables
<1>3. IInv /\ Tables => TypeOK
  BY TypesHold
<1>4. QED
  BY <1>1, <1>2, <1>3, PTL DEF Spec

-----------------------------------------------------------------------------
(* The table of seen operations: probing *)

(* A multiple of n that is nearer to 0 than n is 0. *)
LEMMA NearMultiple ==
  ASSUME NEW n \in Nat \ {0}, NEW k \in Int, n * k < n, -n < n * k
  PROVE  k = 0
<1>1. CASE k >= 1
  <2>1. n * k >= n * 1
    BY <1>1
  <2>2. QED
    BY <2>1
<1>2. CASE k <= -1
  <2>1. n * k <= n * (-1)
    BY <1>2
  <2>2. QED
    BY <2>1
<1>3. QED
  BY <1>1, <1>2

(* What is left is what the number has above a multiple of n. *)
LEMMA Remainder ==
  ASSUME NEW n \in Nat \ {0}, NEW a \in Nat, NEW q \in Int, NEW i \in 0 .. n - 1,
         a = n * q + i
  PROVE  a % n = i
<1> DEFINE r == a % n
           d == a \div n
<1>1. r \in 0 .. n - 1 /\ d \in Int /\ a = n * d + r
  OBVIOUS
<1> HIDE DEF r, d
<1>2. n * (d - q) = i - r
  BY <1>1
<1>3. d - q \in Int /\ i - r < n /\ -n < i - r
  BY <1>1
<1>4. d - q = 0
  BY <1>2, <1>3, NearMultiple
<1>5. QED
  BY <1>1, <1>4 DEF r

(* A probe comes by every place, from wherever it starts. *)
LEMMA ProbeReaches ==
  ASSUME NEW n \in Nat \ {0}, NEW a \in Nat, NEW i \in 0 .. n - 1
  PROVE  \E s \in 0 .. n - 1 : (a + s) % n = i
<1> DEFINE r == a % n
           d == a \div n
<1>1. r \in 0 .. n - 1 /\ d \in Int /\ a = n * d + r
  OBVIOUS
<1> HIDE DEF r, d
<1>2. CASE r <= i
  <2>1. i - r \in 0 .. n - 1 /\ a + (i - r) = n * d + i
    BY <1>1, <1>2
  <2>2. a + (i - r) \in Nat
    BY <1>1, <2>1
  <2>3. (a + (i - r)) % n = i
    BY <1>1, <2>1, <2>2, Remainder
  <2>4. QED
    BY <2>1, <2>3
<1>3. CASE r > i
  <2>1. n + i - r \in 0 .. n - 1 /\ a + (n + i - r) = n * (d + 1) + i
    BY <1>1, <1>3
  <2>2. a + (n + i - r) \in Nat /\ d + 1 \in Int
    BY <1>1, <2>1
  <2>3. (a + (n + i - r)) % n = i
    BY <2>1, <2>2, Remainder
  <2>4. QED
    BY <2>1, <2>3
<1>4. QED
  BY <1>1, <1>2, <1>3

(* The tables with n entries, and the places that are taken *)
TablesOf(n) == [cap : {n}, count : Nat, ent : [0 .. n - 1 -> AllKeys]]
Filled(tab) == {i \in 0 .. tab.cap - 1 : tab.ent[i] # Empty}
Hashes == [AllKeys -> Nat]

(* A probe for key finds it before it comes to a free place.               *)
Reached(tab, h, key) ==
  \E s \in 0 .. tab.cap - 1 :
    /\ tab.ent[Place(tab, h, key, s)] = key
    /\ \A t \in 0 .. s - 1 : tab.ent[Place(tab, h, key, t)] # Empty

(* The place of a step is one of the table. *)
LEMMA PlaceIs ==
  ASSUME NEW n \in Nat \ {0}, NEW tab \in TablesOf(n), NEW h \in Hashes, NEW key \in AllKeys,
         NEW s \in Nat
  PROVE  Place(tab, h, key, s) \in 0 .. n - 1 /\ tab.ent[Place(tab, h, key, s)] \in AllKeys
<1>1. tab.cap = n /\ h[key] + s \in Nat /\ tab.ent \in [0 .. n - 1 -> AllKeys]
  BY DEF TablesOf, Hashes
<1>2. (h[key] + s) % n \in 0 .. n - 1
  BY <1>1
<1>3. Place(tab, h, key, s) \in 0 .. n - 1
  BY <1>1, <1>2 DEF Place
<1>4. QED
  BY <1>1, <1>3

(* The first stop of a probe: the place of step s, with the key or free *)
StopsAt(tab, h, key, s) ==
  /\ s \in 0 .. tab.cap - 1
  /\ tab.ent[Place(tab, h, key, s)] \in {Empty, key}
  /\ \A t \in 0 .. s - 1 : tab.ent[Place(tab, h, key, t)] \notin {Empty, key}
  /\ ProbeFind(tab, h, key) =
       [found |-> tab.ent[Place(tab, h, key, s)] # Empty, idx |-> Place(tab, h, key, s)]

(* A probe that has a place to stop at stops at the first. *)
LEMMA Stops ==
  ASSUME NEW n \in Nat \ {0}, NEW tab \in TablesOf(n), NEW h \in Hashes, NEW key \in AllKeys,
         NEW r \in 0 .. n - 1, tab.ent[Place(tab, h, key, r)] \in {Empty, key}
  PROVE  \E s \in 0 .. r : StopsAt(tab, h, key, s)
<1> DEFINE stops == {s \in 0 .. tab.cap - 1 :
                       tab.ent[Place(tab, h, key, s)] \in {Empty, key}}
<1>1. tab.cap = n
  BY DEF TablesOf
<1>2. stops \in SUBSET Nat /\ r \in stops
  BY <1>1
<1>3. PICK m \in stops : \A x \in stops : m <= x
  BY <1>2, NatMin
<1>4. Min(stops) = m
  <2>1. \A x \in stops : (\A y \in stops : x <= y) => x = m
    BY <1>2, <1>3
  <2>2. QED
    BY <1>3, <2>1 DEF Min
<1>5. ProbeFind(tab, h, key) =
        [found |-> tab.ent[Place(tab, h, key, m)] # Empty, idx |-> Place(tab, h, key, m)]
  <2>1. stops # {}
    BY <1>2
  <2>2. QED
    BY <1>4, <2>1 DEF ProbeFind
<1>6. m \in 0 .. r /\ m \in 0 .. n - 1
  BY <1>1, <1>2, <1>3
<1>7. \A t \in 0 .. m - 1 : t \notin stops /\ t \in 0 .. n - 1
  BY <1>3, <1>6
<1>8. \A t \in 0 .. m - 1 : tab.ent[Place(tab, h, key, t)] \notin {Empty, key}
  BY <1>1, <1>7
<1>9. QED
  BY <1>1, <1>3, <1>5, <1>6, <1>8 DEF StopsAt

(* Without one it finds nothing. *)
LEMMA NoStop ==
  ASSUME NEW n \in Nat \ {0}, NEW tab \in TablesOf(n), NEW h, NEW key,
         \A s \in 0 .. n - 1 : tab.ent[Place(tab, h, key, s)] \notin {Empty, key}
  PROVE  ProbeFind(tab, h, key) = [found |-> FALSE, idx |-> 0]
<1>1. tab.cap = n
  BY DEF TablesOf
<1>2. {s \in 0 .. tab.cap - 1 : tab.ent[Place(tab, h, key, s)] \in {Empty, key}} = {}
  BY <1>1
<1>3. QED
  BY <1>2 DEF ProbeFind

(* A probe stops if there is a free place. *)
LEMMA StopsAtFree ==
  ASSUME NEW n \in Nat \ {0}, NEW tab \in TablesOf(n), NEW h \in Hashes, NEW key \in AllKeys,
         NEW i \in 0 .. n - 1, tab.ent[i] = Empty
  PROVE  \E s \in 0 .. n - 1 : StopsAt(tab, h, key, s)
<1>1. tab.cap = n /\ h[key] \in Nat
  BY DEF TablesOf, Hashes
<1>2. PICK r \in 0 .. n - 1 : (h[key] + r) % n = i
  BY <1>1, ProbeReaches
<1>3. tab.ent[Place(tab, h, key, r)] = Empty
  BY <1>1, <1>2 DEF Place
<1>4. PICK s \in 0 .. r : StopsAt(tab, h, key, s)
  BY <1>3, Stops
<1>5. QED
  BY <1>4

(* An index is always one of the table, and what is found is the key. *)
LEMMA ProbeIs ==
  ASSUME NEW n \in Nat \ {0}, NEW tab \in TablesOf(n), NEW h \in Hashes, NEW key \in AllKeys
  PROVE  LET p == ProbeFind(tab, h, key)
         IN  /\ p.idx \in 0 .. n - 1
             /\ p.found \in BOOLEAN
             /\ p.found => key # Empty /\ tab.ent[p.idx] = key
<1>1. CASE \E r \in 0 .. n - 1 : tab.ent[Place(tab, h, key, r)] \in {Empty, key}
  <2>1. PICK s \in Nat : StopsAt(tab, h, key, s)
    BY <1>1, Stops
  <2>2. Place(tab, h, key, s) \in 0 .. n - 1
    BY <2>1, PlaceIs
  <2> DEFINE at == Place(tab, h, key, s)
             found == tab.ent[at] # Empty
  <2>3. ProbeFind(tab, h, key) = [found |-> found, idx |-> at]
    BY <2>1 DEF StopsAt
  <2>4. found \in BOOLEAN /\ (found => key # Empty /\ tab.ent[at] = key)
    BY <2>1 DEF StopsAt
  <2> HIDE DEF at, found
  <2>5. ProbeFind(tab, h, key).found = found /\ ProbeFind(tab, h, key).idx = at
    BY <2>3
  <2>6. QED
    BY <2>2, <2>4, <2>5 DEF at
<1>2. CASE \A r \in 0 .. n - 1 : tab.ent[Place(tab, h, key, r)] \notin {Empty, key}
  <2>1. ProbeFind(tab, h, key) = [found |-> FALSE, idx |-> 0]
    BY <1>2, NoStop
  <2>2. QED
    BY <2>1
<1>3. QED
  BY <1>1, <1>2

(* What is reached is found. *)
LEMMA ReachedFound ==
  ASSUME NEW n \in Nat \ {0}, NEW tab \in TablesOf(n), NEW h \in Hashes, NEW key \in Keys,
         Reached(tab, h, key)
  PROVE  ProbeFind(tab, h, key).found
<1>1. tab.cap = n /\ key \in AllKeys
  BY DEF TablesOf, AllKeys
<1>2. PICK r \in 0 .. n - 1 : /\ tab.ent[Place(tab, h, key, r)] = key
                             /\ \A t \in 0 .. r - 1 : tab.ent[Place(tab, h, key, t)] # Empty
  BY <1>1 DEF Reached
<1>3. PICK s \in 0 .. r : StopsAt(tab, h, key, s)
  BY <1>1, <1>2, Stops
<1>4. tab.ent[Place(tab, h, key, s)] # Empty
  <2>1. CASE s = r
    BY <1>2, <2>1, DedupAssumption
  <2>2. CASE s # r
    BY <1>2, <1>3, <2>2
  <2>3. QED
    BY <2>1, <2>2
<1>5. ProbeFind(tab, h, key) = [found |-> TRUE, idx |-> Place(tab, h, key, s)]
  BY <1>3, <1>4 DEF StopsAt
<1>6. QED
  BY <1>5

-----------------------------------------------------------------------------
(* Putting *)

(* The table has no keys but K and finds each of them; count is at least   *)
(* what is taken.  (d_grow counts what it moves, d_insert what it adds.)   *)
Holds(tab, h, K) ==
  /\ \A i \in 0 .. tab.cap - 1 : tab.ent[i] \in K \cup {Empty}
  /\ \A key \in K : Reached(tab, h, key)
  /\ Cardinality(Filled(tab)) <= tab.count

(* The taken places are finite in number. *)
LEMMA FilledFinite ==
  ASSUME NEW n \in Nat, NEW tab \in TablesOf(n)
  PROVE  IsFiniteSet(Filled(tab)) /\ Cardinality(Filled(tab)) \in 0 .. n
<1>1. tab.cap = n
  BY DEF TablesOf
<1>2. IsFiniteSet(0 .. n - 1) /\ Cardinality(0 .. n - 1) = n
  BY FS_Interval
<1>3. Filled(tab) \subseteq 0 .. n - 1
  BY <1>1 DEF Filled
<1>4. QED
  BY <1>2, <1>3, FS_Subset, FS_CardinalityType

(* A table of which fewer places are taken than it has has a free one. *)
LEMMA HasFree ==
  ASSUME NEW n \in Nat \ {0}, NEW tab \in TablesOf(n), Cardinality(Filled(tab)) < n
  PROVE  \E i \in 0 .. n - 1 : tab.ent[i] = Empty
<1>1. SUFFICES ASSUME \A i \in 0 .. n - 1 : tab.ent[i] # Empty PROVE FALSE
  OBVIOUS
<1>2. tab.cap = n
  BY DEF TablesOf
<1>3. Filled(tab) = 0 .. n - 1
  BY <1>1, <1>2 DEF Filled
<1>4. Cardinality(0 .. n - 1) = n
  BY FS_Interval
<1>5. QED
  BY <1>3, <1>4

(* The table as it is with a key put at a place *)
LEMMA PutType ==
  ASSUME NEW n \in Nat \ {0}, NEW tab \in TablesOf(n), NEW i \in 0 .. n - 1, NEW key \in AllKeys
  PROVE  LET nw == Put(tab, i, key)
         IN  /\ nw \in TablesOf(n) /\ nw.count = tab.count + 1 /\ nw.cap = n
             /\ \A j \in 0 .. n - 1 : nw.ent[j] = IF j = i THEN key ELSE tab.ent[j]
<1>1. tab.cap = n /\ tab.count \in Nat /\ tab.ent \in [0 .. n - 1 -> AllKeys]
  BY DEF TablesOf
<1> DEFINE ent == [tab.ent EXCEPT ![i] = key]
<1>2. ent \in [0 .. n - 1 -> AllKeys] /\ \A j \in 0 .. n - 1 : ent[j] = IF j = i THEN key ELSE tab.ent[j]
  BY <1>1
<1>3. tab = [cap |-> tab.cap, count |-> tab.count, ent |-> tab.ent]
  BY DEF TablesOf
<1>4. Put(tab, i, key) = [cap |-> n, count |-> tab.count + 1, ent |-> ent]
  <2>1. Put(tab, i, key) = [[tab EXCEPT !.ent = ent] EXCEPT !.count = tab.count + 1]
    BY <1>1, <1>3 DEF Put
  <2> HIDE DEF ent
  <2>2. QED
    BY <1>1, <1>3, <2>1
<1> HIDE DEF ent
<1>5. QED
  BY <1>1, <1>2, <1>4 DEF TablesOf

(* A key is put where the probe for it stops: it is found there, and what  *)
(* was found is.                                                           *)
LEMMA PutHolds ==
  ASSUME NEW n \in Nat \ {0}, NEW tab \in TablesOf(n), NEW h \in Hashes,
         NEW K \in SUBSET Keys, NEW key \in Keys,
         Holds(tab, h, K), Cardinality(Filled(tab)) < n
  PROVE  Holds(Put(tab, ProbeFind(tab, h, key).idx, key), h, K \cup {key})
<1>1. key \in AllKeys /\ key # Empty /\ Empty \notin K /\ K \subseteq AllKeys
  BY DedupAssumption DEF AllKeys
<1>2. PICK i \in 0 .. n - 1 : tab.ent[i] = Empty
  BY HasFree
<1>3. PICK s \in 0 .. n - 1 : StopsAt(tab, h, key, s)
  BY <1>1, <1>2, StopsAtFree
<1> DEFINE at == Place(tab, h, key, s)
           nw == Put(tab, ProbeFind(tab, h, key).idx, key)
<1>4. ProbeFind(tab, h, key).idx = at /\ tab.ent[at] \in {Empty, key}
  BY <1>3 DEF StopsAt
<1>5. at \in 0 .. n - 1
  BY <1>1, PlaceIs
<1>6. /\ nw \in TablesOf(n) /\ nw.count = tab.count + 1 /\ nw.cap = n /\ tab.cap = n
      /\ \A j \in 0 .. n - 1 : nw.ent[j] = IF j = at THEN key ELSE tab.ent[j]
  <2>1. nw = Put(tab, at, key)
    BY <1>4
  <2>2. tab.cap = n
    BY DEF TablesOf
  <2> HIDE DEF nw, at
  <2>3. QED
    BY <1>1, <1>5, <2>1, <2>2, PutType
<1>7. \A k, r : Place(nw, h, k, r) = Place(tab, h, k, r)
  BY <1>6 DEF Place
<1>8. \A k \in AllKeys, r \in 0 .. n - 1 : Place(tab, h, k, r) \in 0 .. n - 1
  BY PlaceIs
<1> HIDE DEF nw, at
<1>9. \A j \in 0 .. nw.cap - 1 : nw.ent[j] \in (K \cup {key}) \cup {Empty}
  BY <1>6 DEF Holds
<1>10. Reached(nw, h, key)
  <2>1. nw.ent[Place(nw, h, key, s)] = key
    BY <1>5, <1>6, <1>7 DEF at
  <2>2. ASSUME NEW t \in 0 .. s - 1 PROVE nw.ent[Place(nw, h, key, t)] # Empty
    <3>1. tab.ent[Place(tab, h, key, t)] # Empty /\ t \in 0 .. n - 1
      BY <1>3 DEF StopsAt
    <3>2. QED
      BY <1>1, <1>6, <1>7, <1>8, <3>1
  <2>3. QED
    BY <1>6, <2>1, <2>2 DEF Reached
<1>11. ASSUME NEW k \in K PROVE Reached(nw, h, k)
  <2>1. PICK r \in 0 .. n - 1 : /\ tab.ent[Place(tab, h, k, r)] = k
                               /\ \A t \in 0 .. r - 1 : tab.ent[Place(tab, h, k, t)] # Empty
    BY <1>6 DEF Holds, Reached
  <2>2. nw.ent[Place(nw, h, k, r)] = k
    <3>1. Place(tab, h, k, r) = at => k = key
      BY <1>1, <1>4, <2>1
    <3>2. QED
      BY <1>1, <1>6, <1>7, <1>8, <2>1, <3>1
  <2>3. ASSUME NEW t \in 0 .. r - 1 PROVE nw.ent[Place(nw, h, k, t)] # Empty
    BY <1>1, <1>6, <1>7, <1>8, <2>1
  <2>4. QED
    BY <1>6, <2>2, <2>3 DEF Reached
<1>12. Cardinality(Filled(nw)) <= nw.count
  <2>1. Filled(nw) \subseteq Filled(tab) \cup {at}
    BY <1>6 DEF Filled
  <2>2. IsFiniteSet(Filled(tab)) /\ Cardinality(Filled(tab)) \in Nat
    BY FilledFinite
  <2>3. /\ IsFiniteSet(Filled(tab) \cup {at})
        /\ Cardinality(Filled(tab) \cup {at}) <= Cardinality(Filled(tab)) + 1
        /\ Cardinality(Filled(tab) \cup {at}) \in Nat
    <3>1. /\ IsFiniteSet(Filled(tab) \cup {at})
          /\ Cardinality(Filled(tab) \cup {at})
               = IF at \in Filled(tab) THEN Cardinality(Filled(tab)) ELSE Cardinality(Filled(tab)) + 1
      BY <2>2, FS_AddElement
    <3>2. QED
      BY <2>2, <3>1
  <2>4. Cardinality(Filled(nw)) <= Cardinality(Filled(tab) \cup {at}) /\ Cardinality(Filled(nw)) \in Nat
    BY <2>1, <2>3, FS_Subset, FS_CardinalityType
  <2>5. tab.count \in Nat /\ Cardinality(Filled(tab)) <= tab.count
    BY DEF Holds, TablesOf
  <2>6. QED
    BY <1>6, <2>2, <2>3, <2>4, <2>5
<1>13. QED
  BY <1>9, <1>10, <1>11, <1>12 DEF Holds, nw

(* A table without entries *)
LEMMA NewHolds ==
  ASSUME NEW n \in Nat \ {0}, NEW h
  PROVE  LET new == [cap |-> n, count |-> 0, ent |-> [i \in 0 .. n - 1 |-> Empty]]
         IN  new \in TablesOf(n) /\ Holds(new, h, {}) /\ Filled(new) = {}
<1> DEFINE new == [cap |-> n, count |-> 0, ent |-> [i \in 0 .. n - 1 |-> Empty]]
<1>1. new \in TablesOf(n)
  BY DEF TablesOf, AllKeys
<1>2. new.cap = n /\ new.count = 0 /\ \A i \in 0 .. n - 1 : new.ent[i] = Empty
  OBVIOUS
<1> HIDE DEF new
<1>3. Filled(new) = {}
  BY <1>2 DEF Filled
<1>4. Cardinality(Filled(new)) = 0
  BY <1>3, FS_EmptySet
<1>5. Holds(new, h, {})
  BY <1>2, <1>4 DEF Holds
<1>6. QED
  BY <1>1, <1>3, <1>5 DEF new

-----------------------------------------------------------------------------
(* Growing *)

(* One turn of d_grow *)
MovedOn(t, h, key) == IF key = Empty THEN t ELSE Put(t, ProbeFind(t, h, key).idx, key)

(* f moves the entries of tab, one after the other, into a table of ncap.  *)
Moves(f, tab, h, ncap) ==
  /\ f[0] = [cap |-> ncap, count |-> 0, ent |-> [i \in 0 .. ncap - 1 |-> Empty]]
  /\ \A i \in 1 .. tab.cap : f[i] = MovedOn(f[i - 1], h, tab.ent[i - 1])
  /\ Grow(tab, h, ncap) = f[tab.cap]

(* What there is to move: n entries, or none when there is no table yet *)
Entered(tab, n) == tab.cap = n /\ \A i \in 0 .. n - 1 : tab.ent[i] \in AllKeys

(* A turn leaves a table of the same size. *)
LEMMA MovedType ==
  ASSUME NEW n \in Nat \ {0}, NEW t \in TablesOf(n), NEW h \in Hashes, NEW key \in AllKeys
  PROVE  MovedOn(t, h, key) \in TablesOf(n)
<1>1. ProbeFind(t, h, key).idx \in 0 .. n - 1
  BY ProbeIs
<1>2. QED
  BY <1>1, PutType DEF MovedOn

(* There is such an f. *)
LEMMA GrowUp ==
  ASSUME NEW n \in Nat, NEW tab, Entered(tab, n), NEW h \in Hashes, NEW ncap \in Nat \ {0}
  PROVE  \E f : Moves(f, tab, h, ncap)
<1> DEFINE S == TablesOf(ncap)
           new == [cap |-> ncap, count |-> 0, ent |-> [i \in 0 .. ncap - 1 |-> Empty]]
           g == [i \in 1 .. n |-> [t \in S |-> MovedOn(t, h, tab.ent[i - 1])]]
           Up(f) == [i \in 0 .. n |-> IF i = 0 THEN new ELSE MovedOn(f[i - 1], h, tab.ent[i - 1])]
           up == CHOOSE f : f = Up(f)
<1>1. ASSUME NEW i \in 1 .. n, NEW t \in S PROVE MovedOn(t, h, tab.ent[i - 1]) \in S
  <2>1. tab.ent[i - 1] \in AllKeys
    BY DEF Entered
  <2>2. QED
    BY <2>1, MovedType
<1>2. new \in S
  BY NewHolds
<1> HIDE DEF S, new
<1>3. g \in Steps(n, S)
  BY <1>1 DEF Steps
<1>4. \A i \in 1 .. n, t \in S : g[i][t] = MovedOn(t, h, tab.ent[i - 1])
  OBVIOUS
<1> HIDE DEF g
<1>5. PICK f : Counts(f, n, S, new, g)
  BY <1>2, <1>3, CountedUp
<1>6. f \in [0 .. n -> S] /\ f[0] = new
  BY <1>5 DEF Counts
<1>7. \A i \in 1 .. n : f[i] = MovedOn(f[i - 1], h, tab.ent[i - 1])
  <2>1. \A i \in 1 .. n : f[i - 1] \in S
    BY <1>6
  <2>2. QED
    BY <1>4, <1>5, <2>1 DEF Counts
<1>8. f = Up(f)
  <2>1. f = [i \in 0 .. n |-> f[i]]
    BY <1>6
  <2>2. ASSUME NEW i \in 0 .. n
        PROVE f[i] = IF i = 0 THEN new ELSE MovedOn(f[i - 1], h, tab.ent[i - 1])
    BY <1>6, <1>7
  <2>3. QED
    BY <2>1, <2>2
<1>9. up = Up(up)
  BY <1>8
<1>10. tab.cap = n
  BY DEF Entered
<1>11. Grow(tab, h, ncap) = up[tab.cap]
  BY <1>10 DEF Grow, MovedOn, new
<1> HIDE DEF up
<1>12. up[0] = new /\ \A i \in 1 .. n : up[i] = MovedOn(up[i - 1], h, tab.ent[i - 1])
  BY <1>9
<1>13. Moves(up, tab, h, ncap)
  BY <1>10, <1>11, <1>12 DEF Moves, new
<1>14. QED
  BY <1>13

(* The keys of the first m entries *)
KeysOf(tab, m) == {tab.ent[i] : i \in 0 .. m - 1} \ {Empty}

(* The table that d_grow makes has the keys of the old one, whatever that  *)
(* was like, and no more is counted than there were entries.               *)
LEMMA GrowIs ==
  ASSUME NEW n \in Nat, NEW tab, Entered(tab, n), NEW h \in Hashes,
         NEW ncap \in Nat \ {0}, ncap > n
  PROVE  /\ Grow(tab, h, ncap) \in TablesOf(ncap)
         /\ Holds(Grow(tab, h, ncap), h, KeysOf(tab, n))
         /\ Grow(tab, h, ncap).count <= n
<1>1. PICK f : Moves(f, tab, h, ncap)
  BY GrowUp
<1> DEFINE Done(m) == /\ f[m] \in TablesOf(ncap)
                      /\ Holds(f[m], h, KeysOf(tab, m))
                      /\ f[m].count <= m
           T == {m \in 0 .. n : Done(m)}
<1>2. tab.cap = n /\ \A i \in 0 .. n - 1 : tab.ent[i] \in AllKeys
  BY DEF Entered
<1>3. \A m \in 0 .. n : KeysOf(tab, m) \in SUBSET Keys
  BY <1>2 DEF KeysOf, AllKeys
<1>4. Done(0)
  <2>1. KeysOf(tab, 0) = {}
    BY DEF KeysOf
  <2> DEFINE new == [cap |-> ncap, count |-> 0, ent |-> [i \in 0 .. ncap - 1 |-> Empty]]
  <2>2. f[0] = new
    BY <1>1 DEF Moves
  <2>3. new \in TablesOf(ncap) /\ Holds(new, h, {}) /\ new.count = 0
    BY NewHolds
  <2> HIDE DEF new
  <2>4. QED
    BY <2>1, <2>2, <2>3
<1>5. ASSUME NEW m \in 1 .. n, Done(m - 1) PROVE Done(m)
  <2> DEFINE key == tab.ent[m - 1]
             t == f[m - 1]
             K == KeysOf(tab, m - 1)
  <2>1. f[m] = MovedOn(t, h, key)
    BY <1>1, <1>2 DEF Moves
  <2>2. t \in TablesOf(ncap) /\ Holds(t, h, K) /\ t.count <= m - 1 /\ t.count \in Nat
    BY <1>5 DEF TablesOf
  <2>3. key \in AllKeys /\ K \in SUBSET Keys
    BY <1>2, <1>3
  <2>4. KeysOf(tab, m) = IF key = Empty THEN K ELSE K \cup {key}
    <3>1. 0 .. m - 1 = (0 .. (m - 1) - 1) \cup {m - 1}
      OBVIOUS
    <3>2. KeysOf(tab, m) = ({tab.ent[i] : i \in 0 .. (m - 1) - 1} \cup {key}) \ {Empty}
      BY <3>1 DEF KeysOf
    <3>3. QED
      BY <3>2 DEF KeysOf
  <2> HIDE DEF key, t, K
  <2>5. CASE key = Empty
    BY <2>1, <2>2, <2>4, <2>5 DEF MovedOn
  <2>6. CASE key # Empty
    <3>1. key \in Keys
      BY <2>3, <2>6 DEF AllKeys
    <3>2. f[m] = Put(t, ProbeFind(t, h, key).idx, key)
      BY <2>1, <2>6 DEF MovedOn
    <3>3. Cardinality(Filled(t)) < ncap
      <4>1. Cardinality(Filled(t)) <= t.count /\ Cardinality(Filled(t)) \in Nat
        BY <2>2, FilledFinite DEF Holds
      <4>2. QED
        BY <2>2, <4>1
    <3>4. Holds(f[m], h, KeysOf(tab, m))
      <4>1. Holds(Put(t, ProbeFind(t, h, key).idx, key), h, K \cup {key})
        BY <2>2, <2>3, <3>1, <3>3, PutHolds
      <4>2. KeysOf(tab, m) = K \cup {key}
        BY <2>4, <2>6
      <4>3. QED
        BY <3>2, <4>1, <4>2
    <3>5. ProbeFind(t, h, key).idx \in 0 .. ncap - 1
      BY <2>2, <2>3, ProbeIs
    <3>6. f[m] \in TablesOf(ncap) /\ f[m].count = t.count + 1
      BY <2>2, <2>3, <3>2, <3>5, PutType
    <3>7. QED
      BY <2>2, <3>4, <3>6
  <2>7. QED
    BY <2>5, <2>6
<1> HIDE DEF Done
<1>6. 0 \in T /\ \A m \in 1 .. n : m - 1 \in T => m \in T
  BY <1>4, <1>5
<1>7. \A m \in 0 .. n : m \in T
  <2> HIDE DEF T
  <2>1. QED
    BY <1>6, Climbs
<1>8. Done(n) /\ Grow(tab, h, ncap) = f[n]
  BY <1>1, <1>2, <1>7 DEF Moves
<1>9. QED
  BY <1>8 DEF Done

-----------------------------------------------------------------------------
(* The table is a set. *)

(* A table that was made, with the keys K, or none yet                     *)
Is(tab, h, K) ==
  \/ tab = NoTable /\ K = {}
  \/ \E n \in Nat \ {0} : tab \in TablesOf(n) /\ Holds(tab, h, K)

(* The keys of a table are those it holds. *)
LEMMA KeysAre ==
  ASSUME NEW n \in Nat \ {0}, NEW tab \in TablesOf(n), NEW h \in Hashes,
         NEW K \in SUBSET Keys, Holds(tab, h, K)
  PROVE  KeysOf(tab, n) = K
<1>1. tab.cap = n
  BY DEF TablesOf
<1>2. KeysOf(tab, n) \subseteq K
  BY <1>1 DEF KeysOf, Holds
<1>3. ASSUME NEW k \in K PROVE k \in KeysOf(tab, n)
  <2>1. k \in AllKeys /\ k # Empty
    BY DedupAssumption DEF AllKeys
  <2>2. PICK s \in 0 .. n - 1 : tab.ent[Place(tab, h, k, s)] = k
    BY <1>1 DEF Holds, Reached
  <2>3. Place(tab, h, k, s) \in 0 .. n - 1
    BY <2>1, PlaceIs
  <2>4. QED
    BY <2>1, <2>2, <2>3 DEF KeysOf
<1>4. QED
  BY <1>2, <1>3

(* d_insert adds the key, and grows the table first if it is half full.    *)
LEMMA InsertIs ==
  ASSUME NEW tab, NEW h \in Hashes, NEW K \in SUBSET Keys, Is(tab, h, K), NEW key \in Keys
  PROVE  Is(Insert(tab, h, key), h, K \cup {key})
<1> DEFINE some == IF tab.cap = 0 THEN Grow(tab, h, DedupCap) ELSE tab
           roomy == IF some.count * 2 >= some.cap THEN Grow(some, h, some.cap * 2) ELSE some
           p == ProbeFind(roomy, h, key)
<1>1. Insert(tab, h, key) = IF p.found THEN roomy ELSE Put(roomy, p.idx, key)
  BY DEF Insert
<1>2. PICK n \in Nat \ {0} : some \in TablesOf(n) /\ Holds(some, h, K)
  <2>1. CASE tab = NoTable /\ K = {}
    <3>1. Entered(tab, 0) /\ tab.cap = 0
      BY <2>1 DEF Entered, NoTable
    <3>2. KeysOf(tab, 0) = K
      BY <2>1 DEF KeysOf
    <3>3. DedupCap \in Nat \ {0} /\ DedupCap > 0
      BY DedupAssumption
    <3>4. some \in TablesOf(DedupCap) /\ Holds(some, h, K)
      BY <3>1, <3>2, <3>3, GrowIs
    <3>5. QED
      BY <3>3, <3>4
  <2>2. CASE \E n \in Nat \ {0} : tab \in TablesOf(n) /\ Holds(tab, h, K)
    BY <2>2 DEF TablesOf
  <2>3. QED
    BY <2>1, <2>2 DEF Is
<1> HIDE DEF some
<1>3. some.cap = n /\ some.count \in Nat /\ some.ent \in [0 .. n - 1 -> AllKeys]
  BY <1>2 DEF TablesOf
<1>4. Cardinality(Filled(some)) \in 0 .. n /\ Cardinality(Filled(some)) <= some.count
  BY <1>2, FilledFinite DEF Holds
<1>5. PICK m \in Nat \ {0} : /\ roomy \in TablesOf(m) /\ Holds(roomy, h, K)
                             /\ Cardinality(Filled(roomy)) < m
  <2>1. CASE some.count * 2 >= some.cap
    <3>1. Entered(some, n) /\ KeysOf(some, n) = K
      BY <1>2, <1>3, KeysAre DEF Entered
    <3>2. n * 2 \in Nat \ {0} /\ n * 2 > n
      OBVIOUS
    <3>3. some.cap * 2 = n * 2 /\ roomy = Grow(some, h, n * 2)
      BY <1>3, <2>1
    <3> HIDE DEF roomy
    <3>4. roomy \in TablesOf(n * 2) /\ Holds(roomy, h, K) /\ roomy.count <= n
      BY <3>1, <3>2, <3>3, GrowIs
    <3>5. Cardinality(Filled(roomy)) <= roomy.count /\ Cardinality(Filled(roomy)) \in Nat
      BY <3>2, <3>4, FilledFinite DEF Holds
    <3>6. roomy.count \in Nat
      BY <3>4 DEF TablesOf
    <3>7. Cardinality(Filled(roomy)) < n * 2
      BY <3>2, <3>4, <3>5, <3>6
    <3>8. QED
      BY <3>2, <3>4, <3>7
  <2>2. CASE ~(some.count * 2 >= some.cap)
    <3>1. roomy = some
      BY <2>2
    <3>2. Cardinality(Filled(some)) < n
      BY <1>3, <1>4, <2>2
    <3>3. QED
      BY <1>2, <3>1, <3>2
  <2>3. QED
    BY <2>1, <2>2
<1> HIDE DEF roomy
<1>6. key \in AllKeys
  BY DEF AllKeys
<1>7. p.idx \in 0 .. m - 1 /\ (p.found => key # Empty /\ roomy.ent[p.idx] = key)
  BY <1>5, <1>6, ProbeIs
<1>8. CASE p.found
  <2>1. roomy.cap = m
    BY <1>5 DEF TablesOf
  <2>2. key \in K
    BY <1>5, <1>7, <1>8, <2>1 DEF Holds
  <2>3. K \cup {key} = K
    BY <2>2
  <2>4. QED
    BY <1>1, <1>5, <1>8, <2>3 DEF Is
<1>9. CASE ~p.found
  <2>1. Put(roomy, p.idx, key) \in TablesOf(m)
    BY <1>5, <1>6, <1>7, PutType
  <2>2. Holds(Put(roomy, p.idx, key), h, K \cup {key})
    BY <1>5, PutHolds
  <2>3. QED
    BY <1>1, <1>9, <2>1, <2>2 DEF Is
<1>10. QED
  BY <1>8, <1>9

(* d_seen tells what the table holds. *)
LEMMA SeenIs ==
  ASSUME NEW tab, NEW h \in Hashes, NEW K \in SUBSET Keys, Is(tab, h, K), NEW key \in AllKeys
  PROVE  Seen(tab, h, key) <=> key \in K
<1>1. Empty \notin K
  BY DedupAssumption
<1>2. CASE tab = NoTable /\ K = {}
  <2>1. tab.cap = 0
    BY <1>2 DEF NoTable
  <2>2. {s \in 0 .. tab.cap - 1 : tab.ent[Place(tab, h, key, s)] \in {Empty, key}} = {}
    BY <2>1
  <2>3. ProbeFind(tab, h, key) = [found |-> FALSE, idx |-> 0]
    BY <2>2 DEF ProbeFind
  <2>4. QED
    BY <1>2, <2>3 DEF Seen
<1>3. CASE \E n \in Nat \ {0} : tab \in TablesOf(n) /\ Holds(tab, h, K)
  <2>1. PICK n \in Nat \ {0} : tab \in TablesOf(n) /\ Holds(tab, h, K)
    BY <1>3
  <2>2. tab.cap = n
    BY <2>1 DEF TablesOf
  <2>3. ASSUME key \in K PROVE ProbeFind(tab, h, key).found
    <3>1. key \in Keys /\ Reached(tab, h, key)
      BY <2>1, <2>3 DEF Holds
    <3>2. QED
      BY <2>1, <3>1, ReachedFound
  <2>4. ASSUME ProbeFind(tab, h, key).found PROVE key \in K
    <3>1. /\ ProbeFind(tab, h, key).idx \in 0 .. n - 1
          /\ key # Empty /\ tab.ent[ProbeFind(tab, h, key).idx] = key
      BY <2>1, <2>4, ProbeIs
    <3>2. QED
      BY <2>1, <2>2, <3>1 DEF Holds
  <2>5. QED
    BY <2>3, <2>4 DEF Seen
<1>4. QED
  BY <1>2, <1>3 DEF Is

(* The invariant *)
TableInv == hash \in Hashes /\ put \in SUBSET Keys /\ Is(table, hash, put)

(* In every run the table is one that was made with the keys put.          *)
THEOREM StaysMade == TableSpec => []TableInv
<1>1. TableInit => TableInv
  <2>1. 0 .. MaxHash \subseteq Nat
    BY DedupAssumption
  <2>2. QED
    BY <2>1 DEF TableInit, TableInv, Is, Hashes
<1>2. TableInv /\ [TableNext]_tableVars => TableInv'
  <2> SUFFICES ASSUME TableInv, [TableNext]_tableVars PROVE TableInv'
    OBVIOUS
  <2>1. ASSUME NEW key \in Keys, Add(key) PROVE TableInv'
    <3>1. /\ hash \in Hashes /\ put \in SUBSET Keys /\ Is(table, hash, put)
          /\ table' = Insert(table, hash, key) /\ put' = put \cup {key} /\ hash' = hash
      BY <2>1 DEF Add, TableInv
    <3>2. Is(Insert(table, hash, key), hash, put \cup {key})
      BY <3>1, InsertIs
    <3>3. QED
      BY <3>1, <3>2 DEF TableInv
  <2>2. CASE UNCHANGED tableVars
    BY <2>2 DEF tableVars, TableInv
  <2>3. QED
    BY <2>1, <2>2 DEF TableNext
<1>3. QED
  BY <1>1, <1>2, PTL DEF TableSpec

(* The table answers as the set of the keys put into it would: none is     *)
(* lost when it grows, and none is found that was not put in, whatever the *)
(* hash values (crdt_mesh.c:94-143).                                       *)
THEOREM StaysASet == TableSpec => []TableIsSet
<1>1. TableInv => TableIsSet
  BY SeenIs DEF TableInv, TableIsSet
<1>2. QED
  BY <1>1, StaysMade, PTL
=============================================================================

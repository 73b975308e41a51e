--------------------------- MODULE EchoNetProofs ----------------------------
(***************************************************************************)
(* Theorems about the echo component on the poller, for every number of    *)
(* connections, descriptors and starts, all buffers and all budgets.       *)
(*                                                                         *)
(* What a poller holds is seen as a set of entries: that of its table with *)
(* the deferred changes made (Table), where for each descriptor the last   *)
(* change counts (After). A step of the component asks for the changes     *)
(* that turn the entries it needed into those it needs now, so both stay   *)
(* the same (IInv), in a tick and outside, although descriptors are given  *)
(* out again before the table hears of it.                                 *)
(***************************************************************************)
EXTENDS EchoNet, FiniteSetTheorems, SequenceTheorems, WellFoundedInduction, TLAPS

-----------------------------------------------------------------------------
(* Loops that count: recursive functions on 0 .. n, and induction on the   *)
(* set of the numbers at which a claim holds                               *)

(* A set of numbers that is not empty has a least one. *)
LEMMA NatMin ==
  ASSUME NEW S \in SUBSET Nat, S # {}
  PROVE  \E m \in S : \A x \in S : m <= x
<1> DEFINE R == OpToRel(<, Nat)
<1>1. IsWellFoundedOn(R, Nat)
  BY NatLessThanWellFounded
<1>2. \A x, y \in Nat : x < y => <<x, y>> \in R
  BY DEF OpToRel
<1> HIDE DEF R
<1>3. \E m \in S : \A x \in S : ~(<<x, m>> \in R)
  BY <1>1, WFMin
<1>4. PICK m \in S : \A x \in S : ~(<<x, m>> \in R)
  BY <1>3
<1>5. \A x \in S : ~(x < m)
  BY <1>2, <1>4
<1>6. \A x \in S : m <= x
  BY <1>5
<1> QED BY <1>6

(* A set of numbers that has 0, and the next of each of its numbers below  *)
(* n, has all numbers up to n.                                             *)
LEMMA Climbs ==
  ASSUME NEW n \in Nat, NEW T, 0 \in T, \A i \in 1 .. n : i - 1 \in T => i \in T
  PROVE  \A i \in 0 .. n : i \in T
<1> DEFINE S == (0 .. n) \ T
<1>1. SUFFICES ASSUME S # {} PROVE FALSE
  OBVIOUS
<1>2. S \in SUBSET Nat
  OBVIOUS
<1>3. PICK m \in S : \A x \in S : m <= x
  BY <1>1, <1>2, NatMin
<1>4. m \in 1 .. n
  BY <1>3
<1>5. m - 1 \in 0 .. n /\ m - 1 \notin S
  BY <1>3, <1>4
<1>6. QED
  BY <1>3, <1>4, <1>5

(* The steps of a count in S that goes from 0 to n.                        *)
Steps(n, S) == [1 .. n -> [S -> S]]

(* f is such a count.                                                     *)
Counts(f, n, S, v, g) ==
  /\ f \in [0 .. n -> S]
  /\ f[0] = v
  /\ \A i \in 1 .. n : f[i] = g[i][f[i - 1]]

(* There is a function that is counted up in this way. *)
LEMMA CountedUp ==
  ASSUME NEW n \in Nat, NEW S, NEW v \in S, NEW g \in Steps(n, S)
  PROVE  \E f : Counts(f, n, S, v, g)
<1> USE DEF Steps
<1> DEFINE P(m) == \E f \in [0 .. m -> S] :
                     f[0] = v /\ \A i \in 1 .. m : f[i] = g[i][f[i - 1]]
           T == {m \in 0 .. n : P(m)}
<1>0. \A m : m \in T <=> m \in 0 .. n /\ P(m)
  OBVIOUS
<1> HIDE DEF T
<1>1. 0 \in T
  <2> DEFINE f == [i \in 0 .. 0 |-> v]
  <2>1. f \in [0 .. 0 -> S] /\ f[0] = v
    OBVIOUS
  <2>2. \A i \in 1 .. 0 : f[i] = g[i][f[i - 1]]
    OBVIOUS
  <2> HIDE DEF f
  <2>3. P(0)
    BY <2>1, <2>2
  <2> HIDE DEF P
  <2>4. 0 \in 0 .. n
    OBVIOUS
  <2>5. QED
    BY <1>0, <2>3, <2>4
<1>2. ASSUME NEW m \in 1 .. n, m - 1 \in T PROVE m \in T
  <2>1. PICK f \in [0 .. m - 1 -> S] :
          f[0] = v /\ \A i \in 1 .. m - 1 : f[i] = g[i][f[i - 1]]
    BY <1>0, <1>2
  <2> DEFINE h == [i \in 0 .. m |-> IF i = m THEN g[m][f[m - 1]] ELSE f[i]]
  <2>2. f[m - 1] \in S /\ g[m] \in [S -> S]
    OBVIOUS
  <2>3. h \in [0 .. m -> S]
    BY <2>2
  <2>4. h[0] = v
    BY <2>1
  <2>5. ASSUME NEW i \in 1 .. m PROVE h[i] = g[i][h[i - 1]]
    <3>1. i - 1 \in 0 .. m /\ i - 1 # m /\ i \in 0 .. m
      OBVIOUS
    <3>2. h[i - 1] = f[i - 1]
      BY <3>1
    <3>3. CASE i = m
      BY <3>1, <3>2, <3>3
    <3>4. CASE i # m
      BY <2>1, <3>1, <3>2, <3>4
    <3>5. QED
      BY <3>3, <3>4
  <2> HIDE DEF h
  <2>6. h[0] = v /\ \A i \in 1 .. m : h[i] = g[i][h[i - 1]]
    BY <2>4, <2>5
  <2>7. P(m)
    BY <2>3, <2>6, Zenon
  <2> HIDE DEF P
  <2>8. m \in 0 .. n
    OBVIOUS
  <2>9. QED
    BY <1>0, <2>7, <2>8
<1> HIDE DEF P
<1>3. \A i \in 1 .. n : i - 1 \in T => i \in T
  BY <1>2
<1>4. \A i \in 0 .. n : i \in T
  BY <1>1, <1>3, Climbs
<1>5. P(n)
  BY <1>0, <1>4
<1>6. QED
  BY <1>5 DEF P, Counts

-----------------------------------------------------------------------------
(* Sequences that have nothing twice *)

(* No two places of s hold the same. *)
Single(s) == \A i, j \in DOMAIN s : s[i] = s[j] => i = j

(* One turn of the loop: x is kept behind t if it is in S.                 *)
KeptOn(t, x, S) == IF x \in S THEN Append(t, x) ELSE t

(* k[n] holds what is in S of the first n elements of s.                   *)
Keeps(k, s, S) ==
  /\ k[0] = <<>>
  /\ \A n \in 1 .. Len(s) : k[n] = KeptOn(k[n - 1], s[n], S)
  /\ Only(s, S) = k[Len(s)]

(* There is such a k. *)
LEMMA OnlyUp ==
  ASSUME NEW T, NEW s \in Seq(T), NEW S
  PROVE  \E k : Keeps(k, s, S)
<1> DEFINE n == Len(s)
           none == <<>>
           g == [i \in 1 .. n |-> [t \in Seq(T) |-> KeptOn(t, s[i], S)]]
           Up(k) == [i \in 0 .. n |-> IF i = 0 THEN none ELSE KeptOn(k[i - 1], s[i], S)]
           up == CHOOSE k : k = Up(k)
<1>1. n \in Nat /\ \A i \in 1 .. n : s[i] \in T
  OBVIOUS
<1>2. none \in Seq(T) /\ \A t \in Seq(T), x \in T : KeptOn(t, x, S) \in Seq(T)
  BY DEF KeptOn
<1> HIDE DEF n, none
<1>3. g \in Steps(n, Seq(T))
  BY <1>1, <1>2 DEF Steps
<1>4. \A i \in 1 .. n, t \in Seq(T) : g[i][t] = KeptOn(t, s[i], S)
  OBVIOUS
<1> HIDE DEF g
<1>5. PICK k : Counts(k, n, Seq(T), none, g)
  BY <1>1, <1>2, <1>3, CountedUp
<1>6. k \in [0 .. n -> Seq(T)] /\ k[0] = none
  BY <1>5 DEF Counts
<1>7. \A i \in 1 .. n : k[i] = KeptOn(k[i - 1], s[i], S)
  <2>1. \A i \in 1 .. n : k[i - 1] \in Seq(T)
    BY <1>1, <1>6
  <2>2. QED
    BY <1>4, <1>5, <2>1 DEF Counts
<1>8. k = Up(k)
  <2>1. k = [i \in 0 .. n |-> k[i]]
    BY <1>6
  <2>2. ASSUME NEW i \in 0 .. n
        PROVE k[i] = IF i = 0 THEN none ELSE KeptOn(k[i - 1], s[i], S)
    BY <1>1, <1>6, <1>7
  <2>3. QED
    BY <2>1, <2>2
<1>9. up = Up(up)
  BY <1>8
<1>10. Only(s, S) = up[n]
  BY DEF Only, KeptOn, n, none
<1> HIDE DEF up
<1>11. up[0] = none /\ \A i \in 1 .. n : up[i] = KeptOn(up[i - 1], s[i], S)
  BY <1>1, <1>9
<1>12. Keeps(up, s, S)
  BY <1>10, <1>11 DEF Keeps, n, none
<1>13. QED
  BY <1>12

(* The first n elements of s *)
Firsts(s, n) == {s[i] : i \in 1 .. n}

(* t holds what is in S of the first n elements of s, and all of them if   *)
(* they are.                                                               *)
Kepts(t, s, S, n) ==
  /\ Elems(t) = Firsts(s, n) \cap S
  /\ Single(s) => Single(t)
  /\ Firsts(s, n) \subseteq S => Len(t) = n /\ \A i \in 1 .. n : t[i] = s[i]

(* Appending what is there only adds it to the elements.                   *)
LEMMA AppendElems ==
  ASSUME NEW T, NEW t \in Seq(T), NEW x \in T
  PROVE  /\ Append(t, x) \in Seq(T) /\ Len(Append(t, x)) = Len(t) + 1
         /\ Elems(Append(t, x)) = Elems(t) \cup {x}
         /\ Single(t) /\ x \notin Elems(t) => Single(Append(t, x))
<1> DEFINE a == Append(t, x)
<1>1. /\ a \in Seq(T) /\ Len(a) = Len(t) + 1 /\ Len(t) \in Nat
      /\ DOMAIN t = 1 .. Len(t) /\ DOMAIN a = 1 .. Len(t) + 1
      /\ \A i \in 1 .. Len(t) : a[i] = t[i]
      /\ a[Len(t) + 1] = x
  OBVIOUS
<1> HIDE DEF a
<1>2. Elems(a) = Elems(t) \cup {x}
  BY <1>1 DEF Elems
<1>3. ASSUME Single(t), x \notin Elems(t), NEW i \in DOMAIN a, NEW j \in DOMAIN a, a[i] = a[j]
      PROVE i = j
  <2>1. \A m \in 1 .. Len(t) : t[m] # x
    BY <1>1, <1>3 DEF Elems
  <2>2. CASE i = Len(t) + 1 \/ j = Len(t) + 1
    BY <1>1, <1>3, <2>1, <2>2
  <2>3. CASE i # Len(t) + 1 /\ j # Len(t) + 1
    BY <1>1, <1>3, <2>3 DEF Single
  <2>4. QED
    BY <2>2, <2>3
<1>4. QED
  BY <1>1, <1>2, <1>3 DEF Single, a

(* What Only gives: the elements that are in S, once if they were there    *)
(* once, and the sequence itself exactly if all are.                       *)
LEMMA OnlyIs ==
  ASSUME NEW T, NEW s \in Seq(T), NEW S
  PROVE  /\ Only(s, S) \in Seq(T)
         /\ Elems(Only(s, S)) = Elems(s) \cap S
         /\ Single(s) => Single(Only(s, S))
         /\ Only(s, S) = s <=> Elems(s) \subseteq S
<1>1. PICK k : Keeps(k, s, S)
  BY OnlyUp
<1> DEFINE n == Len(s)
           Done(m) == k[m] \in Seq(T) /\ Kepts(k[m], s, S, m)
           D == {m \in 0 .. n : Done(m)}
<1>2. n \in Nat /\ DOMAIN s = 1 .. n /\ \A i \in 1 .. n : s[i] \in T
  OBVIOUS
<1>3. Elems(s) = Firsts(s, n)
  BY <1>2 DEF Elems, Firsts
<1>4. /\ k[0] = <<>> /\ Only(s, S) = k[n]
      /\ \A m \in 1 .. n : k[m] = IF s[m] \in S THEN Append(k[m - 1], s[m]) ELSE k[m - 1]
  BY <1>1 DEF Keeps, KeptOn
<1> HIDE DEF n
<1>5. Done(0)
  <2>1. Firsts(s, 0) = {}
    BY DEF Firsts
  <2>2. Elems(<<>>) = {} /\ Single(<<>>) /\ Len(<<>>) = 0 /\ <<>> \in Seq(T)
    BY DEF Elems, Single
  <2>3. QED
    BY <1>4, <2>1, <2>2 DEF Kepts
<1>6. ASSUME NEW m \in 1 .. n, Done(m - 1) PROVE Done(m)
  <2> DEFINE t == k[m - 1]
             x == s[m]
  <2>1. /\ t \in Seq(T) /\ x \in T /\ Elems(t) = Firsts(s, m - 1) \cap S
        /\ Single(s) => Single(t)
        /\ Firsts(s, m - 1) \subseteq S
             => Len(t) = m - 1 /\ \A i \in 1 .. m - 1 : t[i] = s[i]
    BY <1>2, <1>6 DEF Kepts
  <2>2. Firsts(s, m) = Firsts(s, m - 1) \cup {x}
    <3>1. 1 .. m = (1 .. m - 1) \cup {m}
      BY <1>2
    <3>2. QED
      BY <3>1 DEF Firsts
  <2>3. k[m] = IF x \in S THEN Append(t, x) ELSE t
    BY <1>4
  <2>4. Single(s) => x \notin Firsts(s, m - 1)
    <3>1. 1 .. m - 1 \subseteq 1 .. n /\ m \notin 1 .. m - 1
      BY <1>2
    <3>2. QED
      BY <1>2, <3>1 DEF Single, Firsts
  <2>5. m - 1 \in Nat /\ m - 1 + 1 = m
    BY <1>2
  <2> HIDE DEF t, x
  <2>6. CASE x \notin S
    <3>1. k[m] = t
      BY <2>3, <2>6
    <3>2. Elems(t) = Firsts(s, m) \cap S /\ ~(Firsts(s, m) \subseteq S)
      BY <2>1, <2>2, <2>6
    <3>3. QED
      BY <2>1, <3>1, <3>2 DEF Kepts
  <2>7. CASE x \in S
    <3>1. k[m] = Append(t, x)
      BY <2>3, <2>7
    <3>2. /\ Append(t, x) \in Seq(T) /\ Len(Append(t, x)) = Len(t) + 1
          /\ Elems(Append(t, x)) = Elems(t) \cup {x}
          /\ Single(t) /\ x \notin Elems(t) => Single(Append(t, x))
      BY <2>1, AppendElems
    <3>3. Elems(k[m]) = Firsts(s, m) \cap S
      BY <2>1, <2>2, <2>7, <3>1, <3>2
    <3>4. Single(s) => Single(k[m])
      BY <2>1, <2>4, <3>1, <3>2
    <3>5. ASSUME Firsts(s, m) \subseteq S
          PROVE  Len(k[m]) = m /\ \A i \in 1 .. m : k[m][i] = s[i]
      <4>1. Len(t) = m - 1 /\ \A i \in 1 .. m - 1 : t[i] = s[i]
        BY <2>1, <2>2, <3>5
      <4>2. Len(k[m]) = m
        BY <2>5, <3>1, <3>2, <4>1
      <4>3. ASSUME NEW i \in 1 .. m PROVE Append(t, x)[i] = s[i]
        <5>1. CASE i = m
          BY <2>1, <2>5, <4>1, <5>1 DEF x
        <5>2. CASE i # m
          BY <2>1, <2>5, <4>1, <5>2
        <5>3. QED
          BY <5>1, <5>2
      <4>4. QED
        BY <3>1, <4>2, <4>3
    <3>6. QED
      BY <3>1, <3>2, <3>3, <3>4, <3>5 DEF Kepts
  <2>8. QED
    BY <2>6, <2>7
<1> HIDE DEF Done
<1>7. 0 \in D /\ \A m \in 1 .. n : m - 1 \in D => m \in D
  BY <1>2, <1>5, <1>6
<1>8. n \in D
  <2> HIDE DEF D
  <2>1. \A m \in 0 .. n : m \in D
    BY <1>2, <1>7, Climbs
  <2>2. QED
    BY <1>2, <2>1
<1>9. Only(s, S) \in Seq(T) /\ Kepts(Only(s, S), s, S, n)
  BY <1>4, <1>8 DEF Done
<1>10. Elems(s) \subseteq S => Only(s, S) = s
  <2> DEFINE o == Only(s, S)
  <2> HIDE DEF o
  <2>1. SUFFICES ASSUME Elems(s) \subseteq S PROVE o = s
    BY DEF o
  <2>2. o \in Seq(T) /\ Len(o) = Len(s) /\ \A i \in 1 .. Len(s) : o[i] = s[i]
    BY <1>3, <1>9, <2>1 DEF Kepts, n, o
  <2>3. QED
    BY <2>2
<1>11. QED
  BY <1>3, <1>9, <1>10 DEF Kepts

-----------------------------------------------------------------------------
(* Numbers and ranks *)

(* The least number of a set is one of it. *)
LEMMA MinIs ==
  ASSUME NEW S \in SUBSET Nat, S # {}
  PROVE  Min(S) \in S /\ \A x \in S : Min(S) <= x
<1>1. \E m \in S : \A x \in S : m <= x
  BY NatMin
<1>2. QED
  BY <1>1 DEF Min

(* A number that has another below it has a greater rank.                  *)
LEMMA RankGrows ==
  ASSUME NEW S \in SUBSET Nat, IsFiniteSet(S), NEW x \in S, NEW y \in S, x < y
  PROVE  Rank(S, x) < Rank(S, y)
<1> DEFINE a == {z \in S : z < x}
           b == {z \in S : z < y}
<1>1. a \in SUBSET b /\ x \in b /\ x \notin a /\ b \in SUBSET S
  <2>1. \A z \in S : z < x => z < y
    OBVIOUS
  <2>2. ~(x < x) /\ x < y
    OBVIOUS
  <2> HIDE DEF a, b
  <2>3. a \in SUBSET b /\ x \in b /\ x \notin a
    BY <2>1, <2>2 DEF a, b
  <2>4. QED
    BY <2>3 DEF b
<1> HIDE DEF a, b
<1>2. IsFiniteSet(b)
  BY <1>1, FS_Subset
<1>3. /\ IsFiniteSet(a) /\ Cardinality(a) <= Cardinality(b)
      /\ Cardinality(b) = Cardinality(a) => b = a
  BY <1>1, <1>2, FS_Subset
<1>4. Cardinality(a) \in Nat /\ Cardinality(b) \in Nat
  BY <1>2, <1>3, FS_CardinalityType
<1>5. Cardinality(a) # Cardinality(b)
  BY <1>1, <1>3
<1>6. QED
  BY <1>3, <1>4, <1>5 DEF Rank, a, b

(* Ranks are the numbers below the size of the set, and different for      *)
(* different elements.                                                     *)
LEMMA RankIs ==
  ASSUME NEW S \in SUBSET Nat, IsFiniteSet(S)
  PROVE  /\ \A x \in S : Rank(S, x) \in 0 .. Cardinality(S) - 1
         /\ \A x, y \in S : Rank(S, x) = Rank(S, y) => x = y
<1>1. ASSUME NEW x \in S PROVE Rank(S, x) \in 0 .. Cardinality(S) - 1
  <2> DEFINE b == {z \in S : z < x}
  <2>1. b \in SUBSET S /\ x \notin b
    OBVIOUS
  <2> HIDE DEF b
  <2>2. /\ IsFiniteSet(b) /\ Cardinality(b) <= Cardinality(S)
        /\ Cardinality(S) = Cardinality(b) => S = b
    BY <2>1, FS_Subset
  <2>3. Cardinality(b) \in Nat /\ Cardinality(S) \in Nat
    BY <2>2, FS_CardinalityType
  <2>4. Cardinality(b) # Cardinality(S)
    BY <2>1, <2>2
  <2>5. QED
    BY <2>2, <2>3, <2>4 DEF Rank, b
<1>2. ASSUME NEW x \in S, NEW y \in S, Rank(S, x) = Rank(S, y) PROVE x = y
  <2>1. x < y \/ y < x \/ x = y
    OBVIOUS
  <2>2. Rank(S, x) \in Int /\ Rank(S, y) \in Int
    BY <1>1, FS_CardinalityType
  <2>3. QED
    BY <1>2, <2>1, <2>2, RankGrows
<1>3. QED
  BY <1>1, <1>2

(* Every rank is that of one element, which is the one Nth gives.          *)
LEMMA NthIs ==
  ASSUME NEW S \in SUBSET Nat, IsFiniteSet(S)
  PROVE  /\ \A r \in 0 .. Cardinality(S) - 1 : Nth(S, r) \in S /\ Rank(S, Nth(S, r)) = r
         /\ \A x \in S : Nth(S, Rank(S, x)) = x
<1> DEFINE n == Cardinality(S)
           P == 0 .. n - 1
           f == [x \in S |-> Rank(S, x)]
<1>1. n \in Nat
  BY FS_CardinalityType
<1> HIDE DEF n
<1>2. f \in [S -> P] /\ \A x, y \in S : f[x] = f[y] => x = y
  BY RankIs DEF n
<1>3. IsFiniteSet(P) /\ Cardinality(P) = n
  <2>1. IsFiniteSet(P) /\ Cardinality(P) = IF 0 > n - 1 THEN 0 ELSE (n - 1) - 0 + 1
    BY <1>1, FS_Interval
  <2>2. QED
    BY <1>1, <2>1
<1> HIDE DEF f, P
<1>4. f \in Injection(S, P)
  BY <1>2 DEF Injection, IsInjective
<1>5. f \in Surjection(S, P)
  BY <1>3, <1>4, FS_Injection DEF n
<1>6. \A r \in P : \E x \in S : f[x] = r
  BY <1>5 DEF Surjection
<1>7. ASSUME NEW r \in P PROVE Nth(S, r) \in S /\ Rank(S, Nth(S, r)) = r
  <2>1. \E x \in S : Rank(S, x) = r
    BY <1>6 DEF f
  <2>2. QED
    BY <2>1 DEF Nth
<1>8. ASSUME NEW x \in S PROVE Nth(S, Rank(S, x)) = x
  <2>1. Rank(S, x) \in P
    BY RankIs DEF P, n
  <2> DEFINE y == Nth(S, Rank(S, x))
  <2>2. y \in S /\ Rank(S, y) = Rank(S, x)
    BY <1>7, <2>1
  <2> HIDE DEF y
  <2>3. \A u, v \in S : Rank(S, u) = Rank(S, v) => u = v
    BY RankIs
  <2>4. y = x
    BY <2>2, <2>3
  <2>5. QED
    BY <2>4 DEF y
<1>9. QED
  BY <1>7, <1>8 DEF P, n

-----------------------------------------------------------------------------
(* Tables and their changes *)

(* Entries, and the changes of them that are asked for *)
Entry == [fd : Fds, mask : SUBSET {"RD", "WR"}, cb : {"conn", "connecting", "listen"},
          user : Nat]
Op == [kind : {"add"}, entry : Entry] \cup [kind : {"del"}, entry : [fd : Fds]]

(* No two entries of E have the same descriptor.                           *)
Apart(E) == \A e, f \in E : e.fd = f.fd => e = f

(* The tables a poller can have: every descriptor once.                    *)
Tables == {t \in Seq(Entry) : Single(t) /\ Apart(Elems(t))}

(* What a change makes of a set of entries *)
Changed(E, op) ==
  {e \in E : e.fd # op.entry.fd} \cup (IF op.kind = "add" THEN {op.entry} ELSE {})

(* Elements of a sequence of T are in T. *)
LEMMA ElemsIn ==
  ASSUME NEW T, NEW s \in Seq(T)
  PROVE  /\ Elems(s) \in SUBSET T /\ DOMAIN s = 1 .. Len(s) /\ Len(s) \in Nat
         /\ \A i \in DOMAIN s : s[i] \in T /\ s[i] \in Elems(s)
<1>1. DOMAIN s = 1 .. Len(s) /\ Len(s) \in Nat /\ \A i \in 1 .. Len(s) : s[i] \in T
  OBVIOUS
<1>2. QED
  BY <1>1 DEF Elems

(* A change of a table is that change of the set of its entries.           *)
LEMMA AppliedIs ==
  ASSUME NEW t \in Tables, NEW op \in Op
  PROVE  /\ Applied(t, op) \in Tables
         /\ Elems(Applied(t, op)) = Changed(Elems(t), op)
<1> DEFINE fd == op.entry.fd
           S == {e \in Elems(t) : e.fd # fd}
<1>1. t \in Seq(Entry) /\ Single(t) /\ Apart(Elems(t))
  BY DEF Tables
<1>2. /\ Elems(t) \in SUBSET Entry /\ DOMAIN t = 1 .. Len(t)
      /\ \A i \in DOMAIN t : t[i] \in Entry /\ t[i] \in Elems(t)
  BY <1>1, ElemsIn
<1>3. /\ Only(t, S) \in Seq(Entry) /\ Single(Only(t, S))
      /\ Elems(Only(t, S)) = Elems(t) \cap S
      /\ Only(t, S) = t <=> Elems(t) \subseteq S
  BY <1>1, OnlyIs
<1>4. Elems(t) \cap S = S /\ Others(t, fd) = Only(t, S) /\ Apart(S)
  BY <1>1 DEF Others, Apart
<1>5. \/ op.kind = "add" /\ op.entry \in Entry
      \/ op.kind = "del"
  BY DEF Op
<1> HIDE DEF fd, S
<1>6. CASE op.kind = "del"
  <2>1. Applied(t, op) = Only(t, S)
    BY <1>4, <1>6 DEF Applied, fd
  <2>2. Changed(Elems(t), op) = S
    BY <1>6 DEF Changed, S, fd
  <2>3. QED
    BY <1>3, <1>4, <2>1, <2>2 DEF Tables
<1>7. CASE op.kind = "add" /\ op.entry \in Entry
  <2> DEFINE new == op.entry
  <2>1. Applied(t, op) = Added(t, new) /\ fd = new.fd /\ new \in Entry
    BY <1>7 DEF Applied, fd
  <2>2. Changed(Elems(t), op) = S \cup {new}
    BY <1>7 DEF Changed, S, fd
  <2> HIDE DEF new
  <2>3. \A e \in S : e \in Elems(t) /\ e.fd # new.fd
    BY <2>1 DEF S
  <2>4. Apart(S \cup {new})
    BY <1>4, <2>3 DEF Apart
  <2>5. CASE Others(t, fd) = t
    <3>1. Added(t, new) = Append(t, new)
      BY <2>1, <2>5 DEF Added
    <3>2. S = Elems(t)
      BY <1>3, <1>4, <2>5
    <3>3. new \notin Elems(t)
      BY <2>3, <3>2
    <3>4. /\ Append(t, new) \in Seq(Entry) /\ Single(Append(t, new))
          /\ Elems(Append(t, new)) = Elems(t) \cup {new}
      BY <1>1, <2>1, <3>3, AppendElems
    <3>5. QED
      BY <2>1, <2>2, <2>4, <3>1, <3>2, <3>4 DEF Tables
  <2>6. CASE Others(t, fd) # t
    <3> DEFINE r == [i \in DOMAIN t |-> IF t[i].fd = new.fd THEN new ELSE t[i]]
    <3>1. Added(t, new) = r
      BY <2>1, <2>6 DEF Added
    <3>2. r \in Seq(Entry) /\ DOMAIN r = DOMAIN t
      BY <1>1, <1>2, <2>1
    <3>3. \A i \in DOMAIN t : r[i] = IF t[i].fd = new.fd THEN new ELSE t[i]
      OBVIOUS
    <3> HIDE DEF r
    <3>4. PICK e \in Elems(t) : e.fd = new.fd
      BY <1>3, <1>4, <2>1, <2>6 DEF S
    <3>5. PICK m \in DOMAIN t : t[m] = e
      BY DEF Elems
    <3>6. Elems(r) = S \cup {new}
      <4>1. ASSUME NEW i \in DOMAIN t PROVE r[i] \in S \cup {new}
        BY <1>2, <2>1, <3>3 DEF S
      <4>2. ASSUME NEW x \in S PROVE \E i \in DOMAIN t : r[i] = x
        <5>1. PICK i \in DOMAIN t : t[i] = x
          BY <2>3 DEF Elems
        <5>2. QED
          BY <2>3, <3>3, <5>1
      <4>3. r[m] = new
        BY <3>3, <3>4, <3>5
      <4>4. QED
        BY <3>2, <4>1, <4>2, <4>3 DEF Elems
    <3>7. ASSUME NEW i \in DOMAIN t, NEW j \in DOMAIN t, r[i] = r[j] PROVE i = j
      <4>1. r[i].fd = t[i].fd /\ r[j].fd = t[j].fd
        BY <3>3
      <4>2. t[i] = t[j]
        BY <1>1, <1>2, <3>7, <4>1 DEF Apart
      <4>3. QED
        BY <1>1, <4>2 DEF Single
    <3>8. QED
      BY <2>1, <2>2, <2>4, <3>1, <3>2, <3>6, <3>7 DEF Tables, Single
  <2>7. QED
    BY <2>5, <2>6
<1>8. QED
  BY <1>5, <1>6, <1>7

-----------------------------------------------------------------------------
(* Many changes: for each descriptor the last one counts. *)

(* Among the first n changes the m-th adds an entry that no later one      *)
(* replaces or removes.                                                    *)
Stays(ops, n, m) ==
  ops[m].kind = "add" /\ \A l \in m + 1 .. n : ops[l].entry.fd # ops[m].entry.fd
(* The entries of E whose descriptor the first n changes leave alone, and  *)
(* the entries these add and keep                                          *)
Untouched(E, ops, n) == {e \in E : \A m \in 1 .. n : ops[m].entry.fd # e.fd}
Entered(ops, n) == {ops[m].entry : m \in {m \in 1 .. n : Stays(ops, n, m)}}

(* What the first n changes make of E, and what all do                     *)
AfterFirst(E, ops, n) == Untouched(E, ops, n) \cup Entered(ops, n)
After(E, ops) == AfterFirst(E, ops, Len(ops))

(* What n changes make is what the last makes of what those before made.   *)
LEMMA AfterNext ==
  ASSUME NEW E, NEW ops, NEW n \in Nat \ {0}
  PROVE  AfterFirst(E, ops, n) = Changed(AfterFirst(E, ops, n - 1), ops[n])
<1> DEFINE fd == ops[n].entry.fd
           B == AfterFirst(E, ops, n - 1)
<1>1. 1 .. n = 1 .. n - 1 \cup {n} /\ n \notin 1 .. n - 1
  OBVIOUS
<1>2. Untouched(E, ops, n) = {e \in Untouched(E, ops, n - 1) : e.fd # fd}
  BY <1>1 DEF Untouched
<1>3. ASSUME NEW m \in 1 .. n - 1
      PROVE  Stays(ops, n, m) <=> Stays(ops, n - 1, m) /\ ops[m].entry.fd # fd
  <2>1. m + 1 .. n = m + 1 .. n - 1 \cup {n}
    OBVIOUS
  <2>2. QED
    BY <2>1 DEF Stays
<1>4. Stays(ops, n, n) <=> ops[n].kind = "add"
  <2>1. n + 1 .. n = {}
    OBVIOUS
  <2>2. QED
    BY <2>1 DEF Stays
<1>5. Entered(ops, n) = {e \in Entered(ops, n - 1) : e.fd # fd}
                          \cup (IF ops[n].kind = "add" THEN {ops[n].entry} ELSE {})
  <2> DEFINE R == {e \in Entered(ops, n - 1) : e.fd # fd}
             A == IF ops[n].kind = "add" THEN {ops[n].entry} ELSE {}
  <2>1. ASSUME NEW m \in 1 .. n, Stays(ops, n, m) PROVE ops[m].entry \in R \cup A
    <3>1. CASE m = n
      BY <1>4, <2>1, <3>1
    <3>2. CASE m # n
      BY <1>1, <1>3, <2>1, <3>2 DEF Entered
    <3>3. QED
      BY <3>1, <3>2
  <2>2. ASSUME NEW e \in R PROVE e \in Entered(ops, n)
    <3>1. PICK m \in 1 .. n - 1 : Stays(ops, n - 1, m) /\ e = ops[m].entry
      BY DEF Entered
    <3>2. m \in 1 .. n /\ Stays(ops, n, m)
      BY <1>1, <1>3, <3>1
    <3>3. QED
      BY <3>1, <3>2 DEF Entered
  <2>3. ASSUME NEW e \in A PROVE e \in Entered(ops, n)
    <3>1. ops[n].kind = "add" /\ e = ops[n].entry
      OBVIOUS
    <3>2. QED
      BY <1>1, <1>4, <3>1 DEF Entered
  <2>4. \A e \in Entered(ops, n) : e \in R \cup A
    BY <2>1 DEF Entered
  <2> HIDE DEF R, A
  <2>5. Entered(ops, n) = R \cup A
    BY <2>2, <2>3, <2>4
  <2>6. QED
    BY <2>5 DEF R, A
<1>6. QED
  BY <1>2, <1>5 DEF AfterFirst, Changed

(* No change changes nothing. *)
LEMMA AfterNone ==
  ASSUME NEW E, NEW ops
  PROVE  AfterFirst(E, ops, 0) = E
BY DEF AfterFirst, Untouched, Entered

(* Changes keep descriptors apart, and entries entries.                    *)
LEMMA AfterApart ==
  ASSUME NEW E \in SUBSET Entry, Apart(E), NEW ops \in Seq(Op)
  PROVE  After(E, ops) \in SUBSET Entry /\ Apart(After(E, ops))
<1> DEFINE n == Len(ops)
           U == Untouched(E, ops, n)
           I == Entered(ops, n)
<1>1. n \in Nat /\ \A m \in 1 .. n : ops[m] \in Op
  OBVIOUS
<1> HIDE DEF n
<1>2. \A m \in 1 .. n : Stays(ops, n, m) => ops[m].entry \in Entry
  BY <1>1 DEF Stays, Op
<1>3. ASSUME NEW e \in U, NEW f \in I PROVE e.fd # f.fd
  BY <1>3 DEF Untouched, Entered
<1>4. ASSUME NEW e \in I, NEW f \in I, e.fd = f.fd PROVE e = f
  <2>1. PICK m \in 1 .. n : Stays(ops, n, m) /\ e = ops[m].entry
    BY DEF Entered
  <2>2. PICK l \in 1 .. n : Stays(ops, n, l) /\ f = ops[l].entry
    BY DEF Entered
  <2>3. CASE m < l
    <3>1. l \in m + 1 .. n
      BY <1>1, <2>3
    <3>2. QED
      BY <1>4, <2>1, <2>2, <3>1 DEF Stays
  <2>4. CASE l < m
    <3>1. m \in l + 1 .. n
      BY <1>1, <2>4
    <3>2. QED
      BY <1>4, <2>1, <2>2, <3>1 DEF Stays
  <2>5. m = l \/ m < l \/ l < m
    BY <1>1
  <2>6. QED
    BY <2>1, <2>2, <2>3, <2>4, <2>5
<1>5. U \subseteq E /\ I \subseteq Entry
  BY <1>2 DEF Untouched, Entered
<1> HIDE DEF U, I
<1>6. Apart(U \cup I)
  BY <1>3, <1>4, <1>5 DEF Apart
<1>7. After(E, ops) = U \cup I
  BY DEF After, AfterFirst, U, I, n
<1>8. QED
  BY <1>5, <1>6, <1>7

(* Changes after changes are changes of what those made.                   *)
LEMMA AfterMore ==
  ASSUME NEW E, NEW ops \in Seq(Op), NEW more \in Seq(Op)
  PROVE  After(E, ops \o more) = After(After(E, ops), more)
<1> DEFINE n == Len(ops)
           k == Len(more)
           all == ops \o more
           Done(m) == AfterFirst(E, all, n + m) = AfterFirst(After(E, ops), more, m)
           D == {m \in 0 .. k : Done(m)}
<1>1. /\ n \in Nat /\ k \in Nat /\ Len(all) = n + k
      /\ \A m \in 1 .. n : all[m] = ops[m]
      /\ \A m \in 1 .. k : all[n + m] = more[m]
  OBVIOUS
<1> HIDE DEF n, k, all
<1>2. Done(0)
  <2>1. \A m \in 1 .. n : Stays(all, n, m) <=> Stays(ops, n, m)
    <3>1. \A m \in 1 .. n : \A l \in m + 1 .. n : all[l] = ops[l] /\ all[m] = ops[m]
      BY <1>1
    <3>2. QED
      BY <1>1, <3>1 DEF Stays
  <2>2. Untouched(E, all, n) = Untouched(E, ops, n) /\ Entered(all, n) = Entered(ops, n)
    BY <1>1, <2>1 DEF Untouched, Entered
  <2>3. AfterFirst(E, all, n) = After(E, ops)
    BY <2>2 DEF AfterFirst, After, n
  <2>4. n + 0 = n
    BY <1>1
  <2>5. QED
    BY <2>3, <2>4, AfterNone
<1>3. ASSUME NEW m \in 1 .. k, Done(m - 1) PROVE Done(m)
  <2>1. n + m \in Nat \ {0} /\ (n + m) - 1 = n + (m - 1) /\ m \in Nat \ {0}
    BY <1>1
  <2>2. AfterFirst(E, all, n + m) = Changed(AfterFirst(E, all, n + (m - 1)), all[n + m])
    BY <2>1, AfterNext
  <2>3. AfterFirst(After(E, ops), more, m)
          = Changed(AfterFirst(After(E, ops), more, m - 1), more[m])
    BY <2>1, AfterNext
  <2>4. QED
    BY <1>1, <1>3, <2>2, <2>3
<1> HIDE DEF Done
<1>4. 0 \in D /\ \A m \in 1 .. k : m - 1 \in D => m \in D
  BY <1>1, <1>2, <1>3
<1>5. k \in D
  <2> HIDE DEF D
  <2>1. \A m \in 0 .. k : m \in D
    BY <1>1, <1>4, Climbs
  <2>2. QED
    BY <1>1, <2>1
<1>6. AfterFirst(E, all, n + k) = AfterFirst(After(E, ops), more, k)
  BY <1>5 DEF Done
<1>7. After(E, all) = After(After(E, ops), more)
  BY <1>1, <1>6 DEF After, k
<1>8. QED
  BY <1>7 DEF all

(* f applies the changes to t, one after the other.                        *)
Applies(f, t, ops) ==
  /\ f[0] = t
  /\ \A n \in 1 .. Len(ops) : f[n] = Applied(f[n - 1], ops[n])
  /\ AllApplied(t, ops) = f[Len(ops)]

(* There is such an f. *)
LEMMA AllAppliedUp ==
  ASSUME NEW t \in Tables, NEW ops \in Seq(Op)
  PROVE  \E f : Applies(f, t, ops)
<1> DEFINE n == Len(ops)
           g == [i \in 1 .. n |-> [b \in Tables |-> Applied(b, ops[i])]]
           Up(f) == [i \in 0 .. n |-> IF i = 0 THEN t ELSE Applied(f[i - 1], ops[i])]
           up == CHOOSE f : f = Up(f)
<1>1. n \in Nat /\ \A i \in 1 .. n : ops[i] \in Op
  OBVIOUS
<1> HIDE DEF n
<1>2. \A b \in Tables : \A i \in 1 .. n : Applied(b, ops[i]) \in Tables
  BY <1>1, AppliedIs
<1>3. g \in Steps(n, Tables)
  BY <1>2 DEF Steps
<1>4. \A i \in 1 .. n, b \in Tables : g[i][b] = Applied(b, ops[i])
  OBVIOUS
<1> HIDE DEF g
<1>5. PICK f : Counts(f, n, Tables, t, g)
  BY <1>1, <1>3, CountedUp
<1>6. f \in [0 .. n -> Tables] /\ f[0] = t
  BY <1>5 DEF Counts
<1>7. \A i \in 1 .. n : f[i] = Applied(f[i - 1], ops[i])
  <2>1. \A i \in 1 .. n : f[i - 1] \in Tables
    BY <1>1, <1>6
  <2>2. QED
    BY <1>4, <1>5, <2>1 DEF Counts
<1>8. f = Up(f)
  <2>1. f = [i \in 0 .. n |-> f[i]]
    BY <1>6
  <2>2. ASSUME NEW i \in 0 .. n
        PROVE f[i] = IF i = 0 THEN t ELSE Applied(f[i - 1], ops[i])
    BY <1>1, <1>6, <1>7
  <2>3. QED
    BY <2>1, <2>2
<1>9. up = Up(up)
  BY <1>8
<1> DEFINE Un(k) == [i \in 0 .. n |-> IF i = 0 THEN t
                       ELSE CHOOSE after \in {Applied(before, ops[i]) : before \in {k[i - 1]}} : TRUE]
<1>10. ASSUME NEW h PROVE Un(h) = Up(h)
  <2>1. \A b, i : (CHOOSE after \in {Applied(before, ops[i]) : before \in {b}} : TRUE)
                    = Applied(b, ops[i])
    <3> SUFFICES ASSUME NEW b, NEW i
                 PROVE (CHOOSE after \in {Applied(before, ops[i]) : before \in {b}} : TRUE)
                         = Applied(b, ops[i])
      OBVIOUS
    <3>1. {Applied(before, ops[i]) : before \in {b}} = {Applied(b, ops[i])}
      OBVIOUS
    <3>2. \A x : (CHOOSE y \in {x} : TRUE) = x
      OBVIOUS
    <3>3. QED
      BY <3>1, <3>2
  <2>2. QED
    BY <2>1
<1>11. AllApplied(t, ops) = (CHOOSE k : k = Un(k))[n]
  BY DEF AllApplied, n
<1>12. (CHOOSE k : k = Un(k)) = up
  BY <1>10
<1> HIDE DEF up, Un
<1>13. up[0] = t /\ \A i \in 1 .. n : up[i] = Applied(up[i - 1], ops[i])
  BY <1>1, <1>9
<1>14. Applies(up, t, ops)
  BY <1>11, <1>12, <1>13 DEF Applies, n
<1>15. QED
  BY <1>14

(* The table with all changes made has what they make of its entries.      *)
LEMMA AllAppliedIs ==
  ASSUME NEW t \in Tables, NEW ops \in Seq(Op)
  PROVE  /\ AllApplied(t, ops) \in Tables
         /\ Elems(AllApplied(t, ops)) = After(Elems(t), ops)
<1>1. PICK f : Applies(f, t, ops)
  BY AllAppliedUp
<1> DEFINE n == Len(ops)
           Done(m) == f[m] \in Tables /\ Elems(f[m]) = AfterFirst(Elems(t), ops, m)
           D == {m \in 0 .. n : Done(m)}
<1>2. n \in Nat /\ \A m \in 1 .. n : ops[m] \in Op
  OBVIOUS
<1>3. /\ f[0] = t /\ AllApplied(t, ops) = f[n]
      /\ \A m \in 1 .. n : f[m] = Applied(f[m - 1], ops[m])
  BY <1>1 DEF Applies
<1> HIDE DEF n
<1>4. Done(0)
  BY <1>3, AfterNone
<1>5. ASSUME NEW m \in 1 .. n, Done(m - 1) PROVE Done(m)
  <2>1. /\ Applied(f[m - 1], ops[m]) \in Tables
        /\ Elems(Applied(f[m - 1], ops[m])) = Changed(Elems(f[m - 1]), ops[m])
    BY <1>2, <1>5, AppliedIs
  <2>2. m \in Nat \ {0}
    BY <1>2
  <2>3. AfterFirst(Elems(t), ops, m) = Changed(AfterFirst(Elems(t), ops, m - 1), ops[m])
    BY <2>2, AfterNext
  <2>4. QED
    BY <1>3, <1>5, <2>1, <2>3
<1> HIDE DEF Done
<1>6. 0 \in D /\ \A m \in 1 .. n : m - 1 \in D => m \in D
  BY <1>2, <1>4, <1>5
<1>7. n \in D
  <2> HIDE DEF D
  <2>1. \A m \in 0 .. n : m \in D
    BY <1>2, <1>6, Climbs
  <2>2. QED
    BY <1>2, <2>1
<1>8. Done(n)
  BY <1>7
<1>9. QED
  BY <1>3, <1>8 DEF Done, After, n

(* A table is as long as it has entries. *)
LEMMA TableLength ==
  ASSUME NEW t \in Tables
  PROVE  Len(t) = Cardinality(Elems(t))
<1> DEFINE n == Len(t)
<1>1. t \in Seq(Entry) /\ Single(t)
  BY DEF Tables
<1>2. n \in Nat /\ DOMAIN t = 1 .. n /\ t = [i \in 1 .. n |-> t[i]]
  BY <1>1
<1> HIDE DEF n
<1>3. t \in [1 .. n -> Elems(t)]
  BY <1>2 DEF Elems
<1>4. t \in Bijection(1 .. n, Elems(t))
  BY <1>1, <1>2, <1>3 DEF Bijection, Injection, Surjection, IsInjective, Single, Elems
<1>5. IsFiniteSet(1 .. n) /\ Cardinality(1 .. n) = n
  <2>1. IsFiniteSet(1 .. n) /\ Cardinality(1 .. n) = IF 1 > n THEN 0 ELSE n - 1 + 1
    BY <1>2, FS_Interval
  <2>2. QED
    BY <1>2, <2>1
<1>6. ExistsBijection(1 .. n, Elems(t))
  BY <1>4 DEF ExistsBijection
<1>7. Cardinality(Elems(t)) = Cardinality(1 .. n)
  BY <1>5, <1>6, FS_Bijection
<1>8. QED
  BY <1>5, <1>7 DEF n

-----------------------------------------------------------------------------
(* The poller *)

(* What poll() found of an entry *)
Ready == [at : Nat, fd : Fds, ev : SUBSET {"RD", "WR", "ERR"}]

(* A poller has every descriptor once, and nothing deferred or to be       *)
(* called outside a tick.                                                  *)
Polls(p) ==
  /\ p \in [entries : Tables, ops : Seq(Op), inTick : BOOLEAN, calls : Seq(Ready)]
  /\ ~p.inTick => p.ops = <<>> /\ p.calls = <<>>

(* The set of entries it comes to when all changes are made                *)
Table(p) == After(Elems(p.entries), p.ops)

(* The table with the changes made is a table and has this set.            *)
LEMMA SettledIs ==
  ASSUME NEW p, Polls(p)
  PROVE  Settled(p) \in Tables /\ Elems(Settled(p)) = Table(p)
<1>1. p.entries \in Tables /\ p.ops \in Seq(Op)
  BY DEF Polls
<1>2. QED
  BY <1>1, AllAppliedIs DEF Settled, Table

(* A poller's set has each descriptor once. *)
LEMMA TableIs ==
  ASSUME NEW p, Polls(p)
  PROVE  Table(p) \in SUBSET Entry /\ Apart(Table(p))
<1>1. p.entries \in Seq(Entry) /\ Apart(Elems(p.entries)) /\ p.ops \in Seq(Op)
  BY DEF Polls, Tables
<1>2. Elems(p.entries) \in SUBSET Entry
  BY <1>1, ElemsIn
<1>3. QED
  BY <1>1, <1>2, AfterApart DEF Table

(* A poller without deferred changes has the set of its entries.           *)
LEMMA TableNone ==
  ASSUME NEW p, p.ops = <<>>
  PROVE  Table(p) = Elems(p.entries)
<1>1. Len(p.ops) = 0
  OBVIOUS
<1>2. QED
  BY <1>1, AfterNone DEF Table, After

(* Asking changes the set in the same way in a tick, where the table stays *)
(* what it is, and outside.                                                *)
LEMMA AskedIs ==
  ASSUME NEW p, Polls(p), NEW more \in Seq(Op), NEW q, q = Asked(p, more)
  PROVE  /\ Polls(q) /\ Table(q) = After(Table(p), more)
         /\ q.inTick = p.inTick /\ q.calls = p.calls
         /\ p.inTick => q.entries = p.entries
         /\ ~p.inTick => q.ops = <<>>
<1> DEFINE all == p.ops \o more
           later == [p EXCEPT !.ops = @ \o more]
<1>1. /\ p.entries \in Tables /\ p.ops \in Seq(Op) /\ p.calls \in Seq(Ready)
      /\ p.inTick \in BOOLEAN
      /\ p = [entries |-> p.entries, ops |-> p.ops, inTick |-> p.inTick, calls |-> p.calls]
      /\ ~p.inTick => p.ops = <<>> /\ p.calls = <<>>
  BY DEF Polls
<1>2. all \in Seq(Op)
  BY <1>1
<1>3. After(Elems(p.entries), all) = After(Table(p), more)
  BY <1>1, AfterMore DEF Table
<1> HIDE DEF all
<1>4. later = [entries |-> p.entries, ops |-> all, inTick |-> p.inTick, calls |-> p.calls]
  <2> DEFINE b == p.inTick
  <2>1. p = [entries |-> p.entries, ops |-> p.ops, inTick |-> b, calls |-> p.calls]
    BY <1>1
  <2> HIDE DEF b
  <2>2. [p EXCEPT !.ops = all]
          = [entries |-> p.entries, ops |-> all, inTick |-> b, calls |-> p.calls]
    BY <2>1
  <2>3. QED
    BY <2>2 DEF b, all
<1> HIDE DEF later
<1>5. CASE p.inTick
  <2>1. q = later
    BY <1>5 DEF Asked, later
  <2>2. q = [entries |-> p.entries, ops |-> all, inTick |-> p.inTick, calls |-> p.calls]
    BY <1>4, <2>1
  <2>3. Polls(q)
    BY <1>1, <1>2, <1>5, <2>2 DEF Polls
  <2>4. Table(q) = After(Elems(p.entries), all)
    BY <2>2 DEF Table
  <2>5. QED
    BY <1>3, <1>5, <2>2, <2>3, <2>4
<1>6. CASE ~p.inTick
  <2> DEFINE t == AllApplied(p.entries, all)
  <2>1. t \in Tables /\ Elems(t) = After(Elems(p.entries), all)
    BY <1>1, <1>2, AllAppliedIs
  <2>2. Settled(later) = t
    BY <1>4 DEF Settled
  <2> HIDE DEF t
  <2>3. q = [later EXCEPT !.entries = t, !.ops = <<>>]
    BY <1>6, <2>2 DEF Asked, later
  <2>4. q = [entries |-> t, ops |-> <<>>, inTick |-> p.inTick, calls |-> p.calls]
    BY <1>4, <2>3
  <2>5. <<>> \in Seq(Op)
    OBVIOUS
  <2>6. Polls(q)
    BY <1>1, <1>6, <2>1, <2>4, <2>5 DEF Polls
  <2>7. q.ops = <<>> /\ q.entries = t
    BY <2>4
  <2>8. Table(q) = Elems(t)
    BY <2>7, TableNone
  <2>9. QED
    BY <1>3, <1>6, <2>1, <2>4, <2>6, <2>7, <2>8
<1>7. QED
  BY <1>1, <1>5, <1>6

(* A call that is taken leaves the rest of the poller as it is.            *)
LEMMA CallTaken ==
  ASSUME NEW p, Polls(p), p.inTick, p.calls # <<>>,
         NEW q, q = [p EXCEPT !.calls = Tail(@)]
  PROVE  /\ Polls(q) /\ Table(q) = Table(p) /\ q.inTick
         /\ q.entries = p.entries /\ q.ops = p.ops /\ q.calls = Tail(p.calls)
<1>1. /\ p.entries \in Tables /\ p.ops \in Seq(Op) /\ p.calls \in Seq(Ready)
      /\ p.inTick \in BOOLEAN
      /\ p = [entries |-> p.entries, ops |-> p.ops, inTick |-> p.inTick, calls |-> p.calls]
  BY DEF Polls
<1>2. Tail(p.calls) \in Seq(Ready)
  BY <1>1
<1>3. q = [entries |-> p.entries, ops |-> p.ops, inTick |-> p.inTick, calls |-> Tail(p.calls)]
  BY <1>1
<1>4. Polls(q)
  BY <1>1, <1>2, <1>3 DEF Polls
<1>5. QED
  BY <1>3, <1>4 DEF Table

(* poll() finds some of the entries, in their places, each once.           *)
LEMMA TickedIs ==
  ASSUME NEW p, Polls(p), NEW ev, NEW q, q = Ticked(p, ev)
  PROVE  /\ Polls(q) /\ Table(q) = Table(p) /\ q.ops = <<>>
         /\ \A i \in DOMAIN q.calls :
              /\ q.calls[i].at \in DOMAIN q.entries
              /\ q.calls[i].fd = q.entries[q.calls[i].at].fd
         /\ \A i, j \in DOMAIN q.calls : q.calls[i].at = q.calls[j].at => i = j
<1> DEFINE t == Settled(p)
           found == [i \in DOMAIN t |->
                      [at |-> i, fd |-> t[i].fd, ev |-> ev[t[i].fd] \cap (t[i].mask \cup {"ERR"})]]
           S == {f \in Elems(found) : f.ev # {}}
           calls == Only(found, S)
<1>1. t \in Tables /\ Elems(t) = Table(p)
  BY SettledIs
<1> HIDE DEF t
<1>2. t \in Seq(Entry) /\ DOMAIN t = 1 .. Len(t) /\ Len(t) \in Nat /\ \A i \in DOMAIN t : t[i] \in Entry
  BY <1>1, ElemsIn DEF Tables
<1>3. ASSUME NEW i \in DOMAIN t
      PROVE [at |-> i, fd |-> t[i].fd, ev |-> ev[t[i].fd] \cap (t[i].mask \cup {"ERR"})] \in Ready
  BY <1>2 DEF Entry, Ready
<1>4. found \in Seq(Ready) /\ DOMAIN found = DOMAIN t
  BY <1>2, <1>3
<1>5. \A i \in DOMAIN t : found[i].at = i /\ found[i].fd = t[i].fd
  OBVIOUS
<1> HIDE DEF found
<1>6. Single(found)
  BY <1>4, <1>5 DEF Single
<1>7. calls \in Seq(Ready) /\ Single(calls) /\ Elems(calls) \subseteq Elems(found)
  BY <1>4, <1>6, OnlyIs
<1>8. q = [entries |-> t, ops |-> <<>>, inTick |-> t # <<>>, calls |-> calls]
  BY DEF Ticked, t, found, calls, S
<1> HIDE DEF calls
<1>9. ASSUME t = <<>> PROVE calls = <<>>
  <2>1. Elems(found) = {}
    BY <1>4, <1>9 DEF Elems
  <2>2. \A i \in DOMAIN calls : FALSE
    BY <1>7, <2>1 DEF Elems
  <2>3. DOMAIN calls = 1 .. Len(calls) /\ Len(calls) \in Nat
    BY <1>7
  <2>4. Len(calls) = 0
    BY <2>2, <2>3
  <2>5. QED
    BY <1>7, <2>4
<1>10. <<>> \in Seq(Op) /\ (t # <<>>) \in BOOLEAN
  OBVIOUS
<1>11. q.entries = t /\ q.ops = <<>> /\ q.calls = calls /\ (~q.inTick => t = <<>>)
  <2> DEFINE b == t # <<>>
  <2>1. q = [entries |-> t, ops |-> <<>>, inTick |-> b, calls |-> calls]
    BY <1>8
  <2> HIDE DEF b
  <2>2. q.entries = t /\ q.ops = <<>> /\ q.calls = calls /\ q.inTick = b
    BY <2>1
  <2>3. QED
    BY <2>2 DEF b
<1>12. Polls(q)
  <2>1. q \in [entries : Tables, ops : Seq(Op), inTick : BOOLEAN, calls : Seq(Ready)]
    BY <1>1, <1>7, <1>8, <1>10
  <2>2. QED
    BY <1>9, <1>11, <2>1 DEF Polls
<1>13. Table(q) = Table(p)
  BY <1>1, <1>11, TableNone
<1>14. ASSUME NEW i \in DOMAIN calls
       PROVE  calls[i].at \in DOMAIN t /\ calls[i] = found[calls[i].at]
  <2>1. calls[i] \in Elems(found)
    BY <1>7 DEF Elems
  <2>2. PICK j \in DOMAIN t : calls[i] = found[j]
    BY <1>4, <2>1 DEF Elems
  <2>3. QED
    BY <1>5, <2>2
<1>15. \A i, j \in DOMAIN calls : calls[i].at = calls[j].at => i = j
  BY <1>7, <1>14 DEF Single
<1>16. QED
  BY <1>5, <1>11, <1>12, <1>13, <1>14, <1>15

(* After the calls nothing is left to do or to change. *)
LEMMA FinishedIs ==
  ASSUME NEW p, Polls(p), p.calls = <<>>, NEW q, q = Finished(p)
  PROVE  Polls(q) /\ Table(q) = Table(p) /\ q.ops = <<>> /\ q.calls = <<>> /\ ~q.inTick
<1> DEFINE t == Settled(p)
<1>1. t \in Tables /\ Elems(t) = Table(p)
  BY SettledIs
<1>2. /\ p.entries \in Tables /\ p.ops \in Seq(Op) /\ p.calls \in Seq(Ready)
      /\ p.inTick \in BOOLEAN
      /\ p = [entries |-> p.entries, ops |-> p.ops, inTick |-> p.inTick, calls |-> p.calls]
  BY DEF Polls
<1>3. q = [p EXCEPT !.entries = t, !.ops = <<>>, !.inTick = FALSE]
  BY DEF Finished
<1> HIDE DEF t
<1>4. q = [entries |-> t, ops |-> <<>>, inTick |-> FALSE, calls |-> p.calls]
  BY <1>2, <1>3
<1>5. <<>> \in Seq(Op)
  OBVIOUS
<1>6. q.ops = <<>> /\ q.calls = <<>> /\ q.entries = t /\ ~q.inTick
  BY <1>4
<1>7. Polls(q)
  BY <1>1, <1>2, <1>4, <1>5, <1>6 DEF Polls
<1>8. QED
  BY <1>1, <1>6, <1>7, TableNone

-----------------------------------------------------------------------------
(* The invariant *)

(* What becomes of a connection after an entry with this callback was made *)
(* for it                                                                  *)
Later(cb) ==
  IF cb = "conn" THEN {"open", "freed"} ELSE {"connecting", "open", "freed"}

(* Entries of connections are of connections that there were, each of one. *)
Fits(E) ==
  /\ \A e \in E : e.cb # "listen" => e.user \in Conns /\ conn[e.user].st \in Later(e.cb)
  /\ \A e, f \in E : e.cb # "listen" /\ f.cb # "listen" /\ e.user = f.user => e = f

(* No place of the table is called twice. *)
CalledOnce(calls) == \A i, j \in DOMAIN calls : calls[i].at = calls[j].at => i = j

(* The invariant. What is asked of the poller comes to what is expected of *)
(* it (Table); an entry that is still in the table is of a connection that *)
(* was and has not become what the entry's callback is not for (Fits), and *)
(* no entry is called twice (CalledOnce), so that what a call frees is not *)
(* what a later one is for (CallsLive).                                    *)
IInv ==
  /\ TypeOK
  /\ Polls(np)
  /\ Table(np) = Expected
  /\ echo = 0 => listen = NoFd
  /\ Fits(Elems(np.entries))
  /\ CalledOnce(np.calls)
  /\ CallsLive

(* A connection never goes back. *)
Evolves ==
  \A c \in Conns :
    /\ conn[c].st = "connecting" => conn'[c].st \in {"connecting", "open", "freed"}
    /\ conn[c].st = "open" => conn'[c].st \in {"open", "freed"}
    /\ conn[c].st = "freed" => conn'[c].st = "freed"

-----------------------------------------------------------------------------
(* What the invariant says of descriptors *)

(* Those of the connections and of the listener are descriptors, and       *)
(* different.                                                              *)
LEMMA Descriptors ==
  ASSUME IInv
  PROVE  /\ Expected \in SUBSET Entry /\ Apart(Expected)
         /\ \A c \in Live : c \in Conns /\ conn[c].fd \in Fds /\ conn[c].fd # listen
         /\ \A c, d \in Live : conn[c].fd = conn[d].fd => c = d
         /\ listen # NoFd => listen \in Fds
<1> DEFINE L == [fd |-> listen, user |-> echo, mask |-> {"RD"}, cb |-> "listen"]
<1>1. Expected \in SUBSET Entry /\ Apart(Expected)
  BY TableIs DEF IInv
<1>2. \A c \in Live : EntryOf(c) \in Expected /\ c \in Conns
  BY DEF Expected, Live
<1>3. \A c : /\ EntryOf(c).fd = conn[c].fd /\ EntryOf(c).user = c
             /\ EntryOf(c).cb \in {"conn", "connecting"}
  BY DEF EntryOf
<1>4. listen # NoFd => L \in Expected
  BY DEF Expected
<1>5. L.fd = listen /\ L.cb = "listen"
  OBVIOUS
<1> HIDE DEF L
<1>6. ASSUME NEW c \in Live PROVE conn[c].fd \in Fds
  <2>1. EntryOf(c) \in Entry
    BY <1>1, <1>2
  <2>2. EntryOf(c).fd \in Fds
    BY <2>1 DEF Entry
  <2>3. QED
    BY <1>3, <2>2
<1>7. listen # NoFd => listen \in Fds
  BY DEF IInv, TypeOK
<1>8. NoFd \notin Fds
  BY EchoAssumption DEF NoFd
<1>9. ASSUME NEW c \in Live PROVE conn[c].fd # listen
  <2>1. CASE listen = NoFd
    BY <1>6, <1>8, <2>1
  <2>2. CASE listen # NoFd
    <3>1. EntryOf(c) \in Expected /\ L \in Expected
      BY <1>2, <1>4, <2>2
    <3>2. EntryOf(c).cb # L.cb
      BY <1>3, <1>5
    <3>3. EntryOf(c).fd # L.fd
      BY <1>1, <3>1, <3>2 DEF Apart
    <3>4. QED
      BY <1>3, <1>5, <3>3
  <2>3. QED
    BY <2>1, <2>2
<1>10. ASSUME NEW c \in Live, NEW d \in Live, conn[c].fd = conn[d].fd PROVE c = d
  <2>1. EntryOf(c).fd = EntryOf(d).fd
    BY <1>3, <1>10
  <2>2. EntryOf(c) = EntryOf(d)
    BY <1>1, <1>2, <2>1 DEF Apart
  <2>3. EntryOf(c).user = c /\ EntryOf(d).user = d
    BY <1>3
  <2>4. QED
    BY <2>2, <2>3
<1>11. QED
  BY <1>1, <1>2, <1>6, <1>7, <1>9, <1>10

(* Every entry that is expected has the descriptor of a connection or of   *)
(* the listener.                                                           *)
LEMMA ExpectedFd ==
  ASSUME NEW e \in Expected
  PROVE  \/ \E c \in Live : e = EntryOf(c) /\ e.fd = conn[c].fd
         \/ /\ listen # NoFd /\ e.fd = listen
            /\ e = [fd |-> listen, user |-> echo, mask |-> {"RD"}, cb |-> "listen"]
<1>1. CASE e \in {EntryOf(c) : c \in Live}
  <2>1. PICK c \in Live : e = EntryOf(c)
    BY <1>1
  <2>2. e.fd = conn[c].fd
    BY <2>1 DEF EntryOf
  <2>3. QED
    BY <2>1, <2>2
<1>2. CASE listen # NoFd /\ e = [fd |-> listen, user |-> echo, mask |-> {"RD"}, cb |-> "listen"]
  BY <1>2
<1>3. QED
  BY <1>1, <1>2 DEF Expected

(* Descriptors that are free are none of these. *)
LEMMA FreeFds ==
  /\ Free \in SUBSET Fds /\ Free \in SUBSET Nat /\ IsFiniteSet(Free)
  /\ \A e \in Expected : e.fd \notin Free
<1>1. Free \in SUBSET Fds /\ Fds \in SUBSET Nat /\ IsFiniteSet(Fds)
  BY EchoAssumption DEF Free
<1>2. IsFiniteSet(Free)
  BY <1>1, FS_Subset
<1>3. ASSUME NEW e \in Expected PROVE e.fd \notin Free
  BY ExpectedFd DEF Free
<1>4. QED
  BY <1>1, <1>2, <1>3

(* Connections that never were are in a finite number. *)
LEMMA UnusedConns ==
  /\ Unused \in SUBSET Conns /\ Unused \in SUBSET Nat /\ IsFiniteSet(Unused)
  /\ Cardinality(Unused) \in 0 .. MaxConns
<1>1. MaxConns \in Nat /\ Conns \in SUBSET Nat /\ Unused \in SUBSET Conns
  BY EchoAssumption DEF Conns, Unused
<1>2. IsFiniteSet(Conns) /\ Cardinality(Conns) = MaxConns
  <2>1. IsFiniteSet(1 .. MaxConns)
        /\ Cardinality(1 .. MaxConns) = IF 1 > MaxConns THEN 0 ELSE MaxConns - 1 + 1
    BY <1>1, FS_Interval
  <2>2. QED
    BY <1>1, <2>1 DEF Conns
<1>3. IsFiniteSet(Unused) /\ Cardinality(Unused) <= Cardinality(Conns)
  BY <1>1, <1>2, FS_Subset
<1>4. Cardinality(Unused) \in Nat
  BY <1>3, FS_CardinalityType
<1>5. QED
  BY <1>1, <1>2, <1>3, <1>4

-----------------------------------------------------------------------------
(* Steps *)

(* What is expected fits. *)
LEMMA ExpectedFits ==
  ASSUME TypeOK'
  PROVE  Fits(Expected)'
<1>1. \A c : /\ (EntryOf(c).user)' = c
             /\ (EntryOf(c).cb)' = IF conn'[c].st = "connecting" THEN "connecting" ELSE "conn"
  BY DEF EntryOf
<1>2. ASSUME NEW e \in Expected', e.cb # "listen"
      PROVE  \E c \in Live' : e = EntryOf(c)'
  BY <1>2 DEF Expected
<1>3. ASSUME NEW e \in Expected', e.cb # "listen"
      PROVE  e.user \in Conns /\ conn'[e.user].st \in Later(e.cb)
  <2>1. PICK c \in Live' : e = EntryOf(c)'
    BY <1>2, <1>3
  <2>2. c \in Conns /\ conn'[c].st \in {"open", "connecting"}
    BY DEF Live
  <2>3. e.user = c /\ e.cb = IF conn'[c].st = "connecting" THEN "connecting" ELSE "conn"
    BY <1>1, <2>1
  <2>4. QED
    BY <2>2, <2>3 DEF Later
<1>4. ASSUME NEW e \in Expected', NEW f \in Expected', e.cb # "listen", f.cb # "listen",
             e.user = f.user
      PROVE  e = f
  <2>1. PICK c \in Live' : e = EntryOf(c)'
    BY <1>2, <1>4
  <2>2. PICK d \in Live' : f = EntryOf(d)'
    BY <1>2, <1>4
  <2>3. e.user = c /\ f.user = d
    BY <1>1, <2>1, <2>2
  <2>4. c = d
    BY <1>4, <2>3
  <2>5. QED
    BY <2>1, <2>2, <2>4
<1>5. QED
  BY <1>3, <1>4 DEF Fits

(* Entries that fit still do when connections have gone on.                *)
LEMMA StillFits ==
  ASSUME NEW E, Fits(E), Evolves
  PROVE  \A e \in E : e.cb # "listen" => e.user \in Conns /\ conn'[e.user].st \in Later(e.cb)
<1>1. SUFFICES ASSUME NEW e \in E, e.cb # "listen"
               PROVE  e.user \in Conns /\ conn'[e.user].st \in Later(e.cb)
  OBVIOUS
<1>2. e.user \in Conns /\ conn[e.user].st \in Later(e.cb)
  BY <1>1 DEF Fits
<1> DEFINE u == e.user
<1> HIDE DEF u
<1>3. u \in Conns /\ conn[u].st \in Later(e.cb)
  BY <1>2 DEF u
<1>4. /\ conn[u].st = "connecting" => conn'[u].st \in {"connecting", "open", "freed"}
      /\ conn[u].st = "open" => conn'[u].st \in {"open", "freed"}
      /\ conn[u].st = "freed" => conn'[u].st = "freed"
  BY <1>3 DEF Evolves
<1>5. conn'[u].st \in Later(e.cb)
  BY <1>3, <1>4 DEF Later
<1>6. QED
  BY <1>3, <1>5 DEF u

(* A step that asks the poller, whose table or a part of whose calls are   *)
(* p's, for the changes that turn what was expected into what is.          *)
AskedFor(p, more) ==
  /\ more \in Seq(Op)
  /\ np' = Asked(p, more)
  /\ After(Expected, more) = Expected'
  /\ Evolves
  /\ echo' = 0 => listen' = NoFd
  /\ undef' = FALSE

(* It keeps table and entries. *)
LEMMA AskedStep ==
  ASSUME IInv, TypeOK', NEW p, NEW more, AskedFor(p, more),
         Polls(p), Table(p) = Table(np), p.inTick = np.inTick, p.entries = np.entries
  PROVE  /\ Polls(np') /\ Table(np') = Expected' /\ Fits(Elems(np.entries))'
         /\ np'.calls = p.calls /\ np'.inTick = np.inTick
         /\ np.inTick => np'.entries = np.entries
<1>1. /\ Polls(np') /\ Table(np') = After(Table(p), more)
      /\ np'.inTick = p.inTick /\ np'.calls = p.calls
      /\ p.inTick => np'.entries = p.entries
      /\ ~p.inTick => np'.ops = <<>>
  BY AskedIs DEF AskedFor
<1>2. Table(np') = Expected'
  BY <1>1 DEF IInv, AskedFor
<1>3. CASE ~np.inTick
  <2>1. Elems(np'.entries) = Expected'
    BY <1>1, <1>2, <1>3, TableNone
  <2>2. Fits(Expected)'
    BY ExpectedFits
  <2>3. Fits(Elems(np.entries))'
    BY <2>1, <2>2 DEF Fits
  <2>4. QED
    BY <1>1, <1>2, <1>3, <2>3
<1>4. CASE np.inTick
  <2>1. np'.entries = np.entries
    BY <1>1, <1>4
  <2> DEFINE E == Elems(np.entries)
  <2>2. Fits(E) /\ Evolves
    BY DEF IInv, AskedFor
  <2>3. E' = E
    BY <2>1
  <2> HIDE DEF E
  <2>4. \A e \in E : e.cb # "listen" => e.user \in Conns /\ conn'[e.user].st \in Later(e.cb)
    BY <2>2, StillFits
  <2>5. Fits(E)'
    BY <2>2, <2>3, <2>4 DEF Fits
  <2>6. QED
    BY <1>1, <1>2, <2>1, <2>5 DEF E
<1>5. QED
  BY <1>3, <1>4

(* A command: what was to be called still is, unless the component is      *)
(* stopped inside a tick.                                                  *)
LEMMA CommandStep ==
  ASSUME IInv, TypeOK', NEW more, AskedFor(np, more),
         ~stopped' /\ np.inTick =>
           ~stopped /\ \A e : Alive(e) /\ e.fd \in Fds => Alive(e)'
  PROVE  IInv'
<1>1. Polls(np)
  BY DEF IInv
<1>2. /\ Polls(np') /\ Table(np') = Expected' /\ Fits(Elems(np.entries))'
      /\ np'.calls = np.calls /\ np'.inTick = np.inTick
      /\ np.inTick => np'.entries = np.entries
  BY <1>1, AskedStep
<1>3. CalledOnce(np.calls)'
  BY <1>2 DEF IInv, CalledOnce
<1>4. ASSUME ~stopped', NEW i \in DOMAIN np'.calls
      PROVE  Callable(np.calls[i])'
  <2>1. np.inTick
    <3>1. SUFFICES ASSUME ~np.inTick PROVE FALSE
      OBVIOUS
    <3>2. np.calls = <<>>
      BY <1>1, <3>1 DEF Polls
    <3>3. QED
      BY <1>2, <1>4, <3>2
  <2>2. /\ np'.entries = np.entries /\ ~stopped
        /\ \A e : Alive(e) /\ e.fd \in Fds => Alive(e)'
    BY <1>2, <1>4, <2>1
  <2>3. Callable(np.calls[i])
    BY <1>2, <2>2 DEF IInv, CallsLive
  <2> DEFINE e == np.entries[np.calls[i].at]
  <2>4. Alive(e) /\ np.calls[i].at \in DOMAIN np.entries /\ e.fd = np.calls[i].fd
    BY <2>3 DEF Callable
  <2>5. e' = e
    BY <1>2, <2>2
  <2>6. e.fd \in Fds
    <3>1. np.entries \in Seq(Entry)
      BY <1>1 DEF Polls, Tables
    <3>2. e \in Entry
      BY <2>4, <3>1
    <3> HIDE DEF e
    <3>3. QED
      BY <3>2 DEF Entry
  <2> HIDE DEF e
  <2>7. Alive(e)'
    BY <2>2, <2>4, <2>5, <2>6 DEF Alive
  <2>8. QED
    BY <1>2, <2>2, <2>4, <2>5, <2>7 DEF Callable, e
<1>5. CallsLive'
  BY <1>4 DEF CallsLive, AskedFor
<1>6. QED
  BY <1>2, <1>3, <1>5 DEF IInv, AskedFor

(* A call: what it is for may be freed, all others are still there.        *)
LEMMA CallStep ==
  ASSUME IInv, TypeOK', NEW more, AskedFor([np EXCEPT !.calls = Tail(@)], more),
         np.inTick, np.calls # <<>>, Callable(Head(np.calls)), stopped' = stopped,
         NEW h, h = np.entries[Head(np.calls).at],
         \A e : Alive(e) /\ (e.cb = "listen" \/ h.cb = "listen" \/ e.user # h.user)
                  => Alive(e)'
  PROVE  IInv'
<1> DEFINE p == [np EXCEPT !.calls = Tail(@)]
<1>1. Polls(np)
  BY DEF IInv
<1>2. /\ Polls(p) /\ Table(p) = Table(np) /\ p.inTick
      /\ p.entries = np.entries /\ p.ops = np.ops /\ p.calls = Tail(np.calls)
  BY <1>1, CallTaken
<1>3. AskedFor(p, more)
  OBVIOUS
<1>4. np.inTick \in BOOLEAN /\ p.inTick \in BOOLEAN
  BY <1>1, <1>2 DEF Polls
<1> HIDE DEF p
<1>5. p.inTick = np.inTick
  BY <1>2, <1>4
<1>6. /\ Polls(np') /\ Table(np') = Expected' /\ Fits(Elems(np.entries))'
      /\ np'.calls = Tail(np.calls) /\ np'.entries = np.entries
  BY <1>2, <1>3, <1>5, AskedStep
<1>7. np.calls \in Seq(Ready) /\ np.entries \in Tables
  BY <1>1 DEF Polls
<1> DEFINE s == np.calls
<1>8. /\ DOMAIN Tail(s) = 1 .. Len(s) - 1 /\ Len(s) \in Nat \ {0} /\ DOMAIN s = 1 .. Len(s)
      /\ \A i \in 1 .. Len(s) - 1 : Tail(s)[i] = s[i + 1]
      /\ Head(s) = s[1]
  BY <1>7
<1> HIDE DEF s
<1>9. \A i \in DOMAIN Tail(s) : i + 1 \in DOMAIN s /\ Tail(s)[i] = s[i + 1] /\ i + 1 # 1
  BY <1>8
<1>10. CalledOnce(s)
  BY DEF IInv, s
<1>11. CalledOnce(Tail(s))
  <2>1. ASSUME NEW i \in DOMAIN Tail(s), NEW j \in DOMAIN Tail(s),
               Tail(s)[i].at = Tail(s)[j].at
        PROVE i = j
    <3>1. i + 1 = j + 1
      BY <1>9, <1>10, <2>1 DEF CalledOnce
    <3>2. QED
      BY <1>8, <3>1
  <2>2. QED
    BY <2>1 DEF CalledOnce
<1>12. CalledOnce(np.calls)'
  BY <1>6, <1>11 DEF s, CalledOnce
<1>13. ASSUME ~stopped', NEW i \in DOMAIN Tail(s)
       PROVE  /\ Tail(s)[i].at \in DOMAIN np.entries
              /\ np.entries[Tail(s)[i].at].fd = Tail(s)[i].fd
              /\ \A e : e = np.entries[Tail(s)[i].at] => Alive(e)'
  <2>1. PICK call : call = s[i + 1]
    OBVIOUS
  <2>2. PICK e : e = np.entries[call.at]
    OBVIOUS
  <2>3. Callable(call)
    BY <1>9, <1>13, <2>1 DEF IInv, CallsLive, s
  <2>4. call.at \in DOMAIN np.entries /\ e.fd = call.fd /\ Alive(e)
    BY <2>2, <2>3 DEF Callable
  <2>5. Head(s).at \in DOMAIN np.entries
    BY DEF Callable, s
  <2>6. call.at # Head(s).at
    BY <1>8, <1>9, <1>10, <2>1 DEF CalledOnce
  <2>7. h = np.entries[Head(s).at]
    BY DEF s
  <2>8. e # h
    BY <1>7, <2>2, <2>4, <2>5, <2>6, <2>7 DEF Tables, Single
  <2>9. e \in Elems(np.entries) /\ h \in Elems(np.entries)
    BY <2>2, <2>4, <2>5, <2>7 DEF Elems
  <2>10. e.cb = "listen" \/ h.cb = "listen" \/ e.user # h.user
    BY <2>8, <2>9 DEF IInv, Fits
  <2>11. Alive(e)'
    BY <2>4, <2>10
  <2>12. Tail(s)[i] = call /\ np'.entries = np.entries
    BY <1>6, <1>9, <2>1
  <2>13. QED
    BY <2>2, <2>4, <2>11, <2>12
<1>14. ASSUME ~stopped', NEW i \in DOMAIN np'.calls PROVE Callable(np.calls[i])'
  <2>1. np'.calls = Tail(s) /\ np'.entries = np.entries
    BY <1>6 DEF s
  <2>2. PICK call : call = np'.calls[i]
    OBVIOUS
  <2>3. PICK e : e = np'.entries[call.at]
    OBVIOUS
  <2>4. call.at \in DOMAIN np'.entries /\ e.fd = call.fd /\ Alive(e)'
    BY <1>13, <1>14, <2>1, <2>2, <2>3
  <2>5. Callable(call)'
    BY <2>3, <2>4 DEF Callable, Alive
  <2>6. QED
    BY <2>2, <2>5 DEF Callable, Alive
<1>15. CallsLive'
  BY <1>3, <1>14 DEF CallsLive, AskedFor
<1>16. QED
  BY <1>3, <1>6, <1>12, <1>15 DEF IInv, AskedFor

-----------------------------------------------------------------------------
(* Single changes *)

(* One change *)
LEMMA AfterOne ==
  ASSUME NEW E, NEW op \in Op
  PROVE  <<op>> \in Seq(Op) /\ After(E, <<op>>) = Changed(E, op)
<1> DEFINE ops == <<op>>
<1>1. ops \in Seq(Op) /\ Len(ops) = 1 /\ ops[1] = op
  OBVIOUS
<1> HIDE DEF ops
<1>2. AfterFirst(E, ops, 1) = Changed(AfterFirst(E, ops, 1 - 1), ops[1])
  BY AfterNext
<1>3. AfterFirst(E, ops, 1 - 1) = E
  BY AfterNone
<1>4. After(E, ops) = Changed(E, op)
  BY <1>1, <1>2, <1>3 DEF After
<1>5. QED
  BY <1>1, <1>4 DEF ops

(* What net_poller_add and _del ask for *)
Masks == SUBSET {"RD", "WR"}
Callbacks == {"conn", "connecting", "listen"}

(* net_poller_add asks for a change that adds this entry. *)
LEMMA AddIs ==
  ASSUME NEW fd \in Fds, NEW mask \in Masks, NEW cb \in Callbacks, NEW user \in Nat
  PROVE  /\ Add(fd, mask, cb, user) \in Op
         /\ Add(fd, mask, cb, user).kind = "add"
         /\ Add(fd, mask, cb, user).entry = [fd |-> fd, mask |-> mask, cb |-> cb, user |-> user]
<1> DEFINE e == [fd |-> fd, mask |-> mask, cb |-> cb, user |-> user]
<1>1. e \in Entry
  BY DEF Entry, Masks, Callbacks
<1> HIDE DEF e
<1>2. [kind |-> "add", entry |-> e] \in Op
  BY <1>1 DEF Op
<1>3. Add(fd, mask, cb, user) = [kind |-> "add", entry |-> e]
  BY DEF Add, e
<1>4. QED
  BY <1>2, <1>3 DEF e

(* net_poller_del asks for one that removes this descriptor. *)
LEMMA DelIs ==
  ASSUME NEW fd \in Fds
  PROVE  Del(fd) \in Op /\ Del(fd).kind = "del" /\ Del(fd).entry.fd = fd
BY DEF Del, Op

(* Only c changes, and the listener stays.                                 *)
OnlyConn(c) ==
  /\ c \in Conns
  /\ \A d \in Conns \ {c} : conn'[d] = conn[d]
  /\ listen' = listen
  /\ listen = NoFd \/ echo' = echo

(* What is expected of the others stays. *)
LEMMA OthersStay ==
  ASSUME NEW c, OnlyConn(c)
  PROVE  /\ Live' \ {c} = Live \ {c}
         /\ \A d \in Live \ {c} : EntryOf(d)' = EntryOf(d)
         /\ Expected' = {EntryOf(d) : d \in Live \ {c}}
                          \cup (IF c \in Live' THEN {EntryOf(c)'} ELSE {})
                          \cup (IF listen = NoFd THEN {}
                                ELSE {[fd |-> listen, user |-> echo, mask |-> {"RD"},
                                       cb |-> "listen"]})
<1>1. Live' \ {c} = Live \ {c}
  BY DEF Live, OnlyConn
<1>2. \A d \in Live \ {c} : EntryOf(d)' = EntryOf(d)
  BY DEF EntryOf, Live, OnlyConn
<1> DEFINE A == {EntryOf(d) : d \in Live}
           B == {EntryOf(d) : d \in Live \ {c}} \cup (IF c \in Live' THEN {EntryOf(c)'} ELSE {})
           L == IF listen = NoFd THEN {}
                ELSE {[fd |-> listen, user |-> echo, mask |-> {"RD"}, cb |-> "listen"]}
<1>3. A' = B
  <2>1. ASSUME NEW d \in Live' PROVE EntryOf(d)' \in B
    <3>1. CASE d = c
      BY <2>1, <3>1
    <3>2. CASE d # c
      BY <1>1, <1>2, <2>1, <3>2
    <3>3. QED
      BY <3>1, <3>2
  <2>2. ASSUME NEW e \in B PROVE e \in A'
    <3>1. CASE c \in Live' /\ e = EntryOf(c)'
      BY <3>1
    <3>2. CASE \E d \in Live \ {c} : e = EntryOf(d)
      BY <1>1, <1>2, <3>2
    <3>3. QED
      BY <2>2, <3>1, <3>2
  <2>3. \A e \in A' : e \in B
    BY <2>1
  <2> HIDE DEF B
  <2>4. QED
    BY <2>2, <2>3
<1>4. L' = L
  BY DEF OnlyConn
<1>5. Expected' = A' \cup L'
  BY DEF Expected
<1> HIDE DEF A
<1>6. Expected' = B \cup L
  BY <1>3, <1>4, <1>5
<1>7. QED
  BY <1>1, <1>2, <1>6

(* A connection that gets another entry, and one that is closed, changes   *)
(* what is expected like a change of its descriptor.                       *)
LEMMA ExpectedSwap ==
  ASSUME IInv, NEW c \in Live, OnlyConn(c),
         NEW op, op.entry.fd = conn[c].fd,
         \/ op.kind = "add" /\ c \in Live' /\ op.entry = EntryOf(c)'
         \/ op.kind = "del" /\ c \notin Live'
  PROVE  Expected' = Changed(Expected, op)
<1> DEFINE fd == conn[c].fd
           R == {EntryOf(d) : d \in Live \ {c}}
           L == IF listen = NoFd THEN {}
                ELSE {[fd |-> listen, user |-> echo, mask |-> {"RD"}, cb |-> "listen"]}
           N == IF c \in Live' THEN {EntryOf(c)'} ELSE {}
<1>1. \A d : EntryOf(d).fd = conn[d].fd
  BY DEF EntryOf
<1>2. fd # listen /\ \A d \in Live \ {c} : conn[d].fd # fd
  BY Descriptors
<1>3. Expected' = (R \cup N) \cup L
  BY OthersStay
<1>4. Expected = R \cup {EntryOf(c)} \cup L
  <2>1. Live = (Live \ {c}) \cup {c}
    OBVIOUS
  <2>2. {EntryOf(d) : d \in Live} = R \cup {EntryOf(c)}
    BY <2>1
  <2>3. QED
    BY <2>2 DEF Expected
<1>5. \A e \in L : e.fd = listen
  OBVIOUS
<1> HIDE DEF L
<1>6. \A e \in R : e.fd # fd
  BY <1>1, <1>2
<1> HIDE DEF R
<1>7. {e \in Expected : e.fd # fd} = R \cup L
  BY <1>1, <1>2, <1>4, <1>5, <1>6
<1>8. N = IF op.kind = "add" THEN {op.entry} ELSE {}
  OBVIOUS
<1> HIDE DEF N, fd
<1>9. QED
  BY <1>3, <1>7, <1>8 DEF Changed, fd

(* A new one with a free descriptor changes it likewise.                   *)
LEMMA ExpectedJoin ==
  ASSUME NEW c, c \notin Live, OnlyConn(c), c \in Live',
         NEW op, op.kind = "add", op.entry = EntryOf(c)', op.entry.fd \in Free
  PROVE  Expected' = Changed(Expected, op)
<1> DEFINE R == {EntryOf(d) : d \in Live \ {c}}
           L == IF listen = NoFd THEN {}
                ELSE {[fd |-> listen, user |-> echo, mask |-> {"RD"}, cb |-> "listen"]}
<1>1. Expected' = R \cup {EntryOf(c)'} \cup L
  BY OthersStay
<1>2. Live \ {c} = Live
  OBVIOUS
<1>3. Expected = R \cup L
  BY <1>2 DEF Expected
<1>4. \A e \in Expected : e.fd # op.entry.fd
  BY FreeFds
<1> HIDE DEF R, L
<1>5. {e \in Expected : e.fd # op.entry.fd} = Expected
  BY <1>4
<1>6. QED
  BY <1>1, <1>3, <1>5 DEF Changed

-----------------------------------------------------------------------------
(* Types *)

(* Connections and sockets *)
EchoConn == [st : {"none", "connecting", "open", "freed"}, fd : Fds \cup {NoFd},
             client : BOOLEAN, want : BOOLEAN, out : 0 .. Cap]
Socket == [got : 0 .. Bytes, fin : BOOLEAN, rst : BOOLEAN, up : BOOLEAN, room : 0 .. Room]

(* A connection wants to write exactly when it has something to.           *)
ConnOK(r) == r \in EchoConn /\ r.want = (r.out > 0)

(* The types of connections and sockets *)
LEMMA TypeParts ==
  ASSUME TypeOK
  PROVE  /\ \A c \in Conns : ConnOK(conn[c])
         /\ sock \in [Conns -> Socket] /\ conn \in [Conns -> EchoConn]
<1>1. sock \in [Conns -> Socket] /\ conn \in [Conns -> EchoConn]
  BY DEF TypeOK, Socket, EchoConn
<1>2. \A c \in Conns : conn[c].want = (conn[c].out > 0)
  BY DEF TypeOK
<1>3. QED
  BY <1>1, <1>2 DEF ConnOK

(* With them a state has its type. *)
LEMMA TypeMade ==
  ASSUME echo' \in 0 .. MaxStarts, starts' \in 0 .. MaxStarts, listen' \in Fds \cup {NoFd},
         backlog' \in 0 .. MaxConns, stopped' \in BOOLEAN, undef' \in BOOLEAN,
         conn' \in [Conns -> EchoConn], \A c \in Conns : ConnOK(conn'[c]),
         sock' \in [Conns -> Socket]
  PROVE  TypeOK'
<1>1. \A c \in Conns : conn'[c].want = (conn'[c].out > 0)
  BY DEF ConnOK
<1>2. QED
  BY <1>1 DEF TypeOK, EchoConn, Socket

(* The bounds of the constants *)
LEMMA Bounds ==
  /\ Cap \in Nat \ {0} /\ Bytes \in Nat /\ Room \in Nat /\ MaxConns \in Nat
  /\ MaxStarts \in Nat /\ ReadBudget \in Nat /\ WriteBudget \in Nat /\ AcceptBudget \in Nat
BY EchoAssumption

(* The records that are put there as a whole *)
LEMMA NewRecords ==
  /\ NoConn = [st |-> "none", fd |-> NoFd, client |-> FALSE, want |-> FALSE, out |-> 0]
  /\ NoConn \in EchoConn /\ NoSock \in Socket
  /\ [NoSock EXCEPT !.rst = TRUE] \in Socket
  /\ [NoSock EXCEPT !.up = TRUE] \in Socket
<1>1. NoConn = [st |-> "none", fd |-> NoFd, client |-> FALSE, want |-> FALSE, out |-> 0]
  BY DEF NoConn
<1>2. 0 \in 0 .. Cap /\ 0 \in 0 .. Bytes /\ Room \in 0 .. Room
  BY Bounds
<1>3. NoConn \in EchoConn
  BY <1>1, <1>2 DEF EchoConn
<1>4. ASSUME NEW r \in BOOLEAN, NEW u \in BOOLEAN
      PROVE [got |-> 0, fin |-> FALSE, rst |-> r, up |-> u, room |-> Room] \in Socket
  BY <1>2 DEF Socket
<1>5. NoSock = [got |-> 0, fin |-> FALSE, rst |-> FALSE, up |-> FALSE, room |-> Room]
  BY DEF NoSock
<1>6. ASSUME NEW f, NEW t
      PROVE LET s == [got |-> 0, fin |-> f, rst |-> f, up |-> f, room |-> Room]
            IN  /\ [s EXCEPT !.rst = t]
                     = [got |-> 0, fin |-> f, rst |-> t, up |-> f, room |-> Room]
                /\ [s EXCEPT !.up = t]
                     = [got |-> 0, fin |-> f, rst |-> f, up |-> t, room |-> Room]
  OBVIOUS
<1>7. /\ [NoSock EXCEPT !.rst = TRUE]
           = [got |-> 0, fin |-> FALSE, rst |-> TRUE, up |-> FALSE, room |-> Room]
      /\ [NoSock EXCEPT !.up = TRUE]
           = [got |-> 0, fin |-> FALSE, rst |-> FALSE, up |-> TRUE, room |-> Room]
  <2>1. PICK f : f = FALSE
    OBVIOUS
  <2>2. PICK t : t = TRUE
    OBVIOUS
  <2>3. NoSock = [got |-> 0, fin |-> f, rst |-> f, up |-> f, room |-> Room]
    BY <1>5, <2>1
  <2>4. /\ [NoSock EXCEPT !.rst = t]
             = [got |-> 0, fin |-> f, rst |-> t, up |-> f, room |-> Room]
        /\ [NoSock EXCEPT !.up = t]
             = [got |-> 0, fin |-> f, rst |-> f, up |-> t, room |-> Room]
    BY <1>6, <2>3
  <2>5. QED
    BY <2>1, <2>2, <2>4, Zenon
<1>8. QED
  BY <1>1, <1>3, <1>4, <1>5, <1>7

-----------------------------------------------------------------------------
(* The kernel and the other ends *)

(* A socket of which one part changes is one. *)
LEMMA SocketPut ==
  ASSUME NEW s \in [Conns -> Socket], NEW c \in Conns, NEW t \in BOOLEAN,
         NEW b \in 0 .. Bytes, NEW m \in 0 .. Room
  PROVE  /\ [s EXCEPT ![c].up = t] \in [Conns -> Socket]
         /\ [s EXCEPT ![c].fin = t] \in [Conns -> Socket]
         /\ [s EXCEPT ![c].got = b] \in [Conns -> Socket]
         /\ [s EXCEPT ![c].room = m] \in [Conns -> Socket]
         /\ [s EXCEPT ![c].got = b, ![c].room = m] \in [Conns -> Socket]
<1> DEFINE r == s[c]
<1>1. r \in Socket
  OBVIOUS
<1>2. r = [got |-> r.got, fin |-> r.fin, rst |-> r.rst, up |-> r.up, room |-> r.room]
      /\ r.got \in 0 .. Bytes /\ r.fin \in BOOLEAN /\ r.rst \in BOOLEAN
      /\ r.up \in BOOLEAN /\ r.room \in 0 .. Room
  BY <1>1 DEF Socket
<1>3. /\ [got |-> r.got, fin |-> r.fin, rst |-> r.rst, up |-> t, room |-> r.room] \in Socket
      /\ [got |-> r.got, fin |-> t, rst |-> r.rst, up |-> r.up, room |-> r.room] \in Socket
      /\ [got |-> b, fin |-> r.fin, rst |-> r.rst, up |-> r.up, room |-> r.room] \in Socket
      /\ [got |-> r.got, fin |-> r.fin, rst |-> r.rst, up |-> r.up, room |-> m] \in Socket
      /\ [got |-> b, fin |-> r.fin, rst |-> r.rst, up |-> r.up, room |-> m] \in Socket
  BY <1>2 DEF Socket
<1> DEFINE g == r.got
           f == r.fin
           x == r.rst
           u == r.up
           y == r.room
<1>4. r = [got |-> g, fin |-> f, rst |-> x, up |-> u, room |-> y]
  BY <1>2
<1> HIDE DEF g, f, x, u, y, r
<1>5. ASSUME NEW v, NEW w
      PROVE  /\ [r EXCEPT !.up = v] = [got |-> g, fin |-> f, rst |-> x, up |-> v, room |-> y]
             /\ [r EXCEPT !.fin = v] = [got |-> g, fin |-> v, rst |-> x, up |-> u, room |-> y]
             /\ [r EXCEPT !.got = v] = [got |-> v, fin |-> f, rst |-> x, up |-> u, room |-> y]
             /\ [r EXCEPT !.room = v] = [got |-> g, fin |-> f, rst |-> x, up |-> u, room |-> v]
             /\ [[r EXCEPT !.got = v] EXCEPT !.room = w]
                  = [got |-> v, fin |-> f, rst |-> x, up |-> u, room |-> w]
  <2> DEFINE q == [got |-> v, fin |-> f, rst |-> x, up |-> u, room |-> y]
  <2>1. /\ [r EXCEPT !.up = v] = [got |-> g, fin |-> f, rst |-> x, up |-> v, room |-> y]
        /\ [r EXCEPT !.fin = v] = [got |-> g, fin |-> v, rst |-> x, up |-> u, room |-> y]
        /\ [r EXCEPT !.got = v] = q
        /\ [r EXCEPT !.room = v] = [got |-> g, fin |-> f, rst |-> x, up |-> u, room |-> v]
    BY <1>4
  <2>2. [q EXCEPT !.room = w] = [got |-> v, fin |-> f, rst |-> x, up |-> u, room |-> w]
    OBVIOUS
  <2> HIDE DEF q
  <2>3. [[r EXCEPT !.got = v] EXCEPT !.room = w]
          = [got |-> v, fin |-> f, rst |-> x, up |-> u, room |-> w]
    BY <2>1, <2>2, Zenon
  <2>4. QED
    BY <2>1, <2>3, Zenon DEF q
<1>6. /\ [r EXCEPT !.up = t] \in Socket /\ [r EXCEPT !.fin = t] \in Socket
      /\ [r EXCEPT !.got = b] \in Socket /\ [r EXCEPT !.room = m] \in Socket
      /\ [[r EXCEPT !.got = b] EXCEPT !.room = m] \in Socket
  <2>1. [r EXCEPT !.up = t] \in Socket
    BY <1>3, <1>5, Zenon DEF g, f, x, u, y
  <2>2. [r EXCEPT !.fin = t] \in Socket
    BY <1>3, <1>5, Zenon DEF g, f, x, u, y
  <2>3. [r EXCEPT !.got = b] \in Socket
    BY <1>3, <1>5, Zenon DEF g, f, x, u, y
  <2>4. [r EXCEPT !.room = m] \in Socket
    BY <1>3, <1>5, Zenon DEF g, f, x, u, y
  <2>5. [[r EXCEPT !.got = b] EXCEPT !.room = m] \in Socket
    BY <1>3, <1>5, Zenon DEF g, f, x, u, y
  <2>6. QED
    BY <2>1, <2>2, <2>3, <2>4, <2>5
<1> DEFINE s1 == [s EXCEPT ![c].got = b]
<1> USE DEF r
<1>7. /\ [s EXCEPT ![c].up = t] = [s EXCEPT ![c] = [r EXCEPT !.up = t]]
      /\ [s EXCEPT ![c].fin = t] = [s EXCEPT ![c] = [r EXCEPT !.fin = t]]
      /\ [s EXCEPT ![c].got = b] = [s EXCEPT ![c] = [r EXCEPT !.got = b]]
      /\ [s EXCEPT ![c].room = m] = [s EXCEPT ![c] = [r EXCEPT !.room = m]]
  OBVIOUS
<1>8. ASSUME NEW v \in Socket PROVE [s EXCEPT ![c] = v] \in [Conns -> Socket]
  OBVIOUS
<1>9. s1 \in [Conns -> Socket] /\ s1[c] = [r EXCEPT !.got = b]
  BY <1>6, <1>7, <1>8
<1>10. [s EXCEPT ![c].got = b, ![c].room = m] = [s1 EXCEPT ![c] = [s1[c] EXCEPT !.room = m]]
  OBVIOUS
<1> HIDE DEF s1, r
<1>11. [s1 EXCEPT ![c] = [s1[c] EXCEPT !.room = m]] \in [Conns -> Socket]
  <2>1. [s1[c] EXCEPT !.room = m] \in Socket
    BY <1>6, <1>9
  <2>2. QED
    BY <1>9, <2>1
<1>12. QED
  BY <1>6, <1>7, <1>8, <1>10, <1>11

(* Nothing outside touches the component or the poller.                    *)
LEMMA OutsideStep ==
  ASSUME IInv, Outside, backlog' \in 0 .. MaxConns, sock' \in [Conns -> Socket]
  PROVE  IInv'
<1>1. UNCHANGED <<np, echo, starts, listen, conn, stopped, undef>>
  BY DEF Outside
<1>2. TypeOK'
  BY <1>1 DEF IInv, TypeOK, Socket
<1>3. Expected' = Expected
  BY <1>1 DEF Expected, EntryOf, Live
<1>4. Fits(Elems(np.entries))'
  BY <1>1 DEF IInv, Fits
<1>5. CallsLive'
  BY <1>1 DEF IInv, CallsLive, Callable, Alive, Live
<1>6. QED
  BY <1>1, <1>2, <1>3, <1>4, <1>5 DEF IInv

(* What the kernel and the other ends do *)
LEMMA KernelInv ==
  ASSUME IInv, Kernel
  PROVE  IInv'
<1>1. /\ backlog \in 0 .. MaxConns /\ sock \in [Conns -> Socket]
      /\ Bytes \in Nat /\ Room \in Nat /\ MaxConns \in Nat
  BY TypeParts, Bounds DEF IInv, TypeOK
<1>2. \A c \in Conns : sock[c].got \in 0 .. Bytes /\ sock[c].room \in 0 .. Room
  BY <1>1 DEF Socket
<1>3. CASE Dialled
  <2>1. backlog < Cardinality(Unused) /\ backlog' = backlog + 1 /\ Outside /\ sock' = sock
    BY <1>3 DEF Dialled
  <2>2. Cardinality(Unused) \in 0 .. MaxConns
    BY UnusedConns
  <2>3. backlog' \in 0 .. MaxConns
    BY <1>1, <2>1, <2>2
  <2>4. QED
    BY <1>1, <2>1, <2>3, OutsideStep
<1>4. ASSUME NEW c \in Conns, Connected(c) PROVE IInv'
  <2>1. PICK t : t = TRUE
    OBVIOUS
  <2>2. sock' = [sock EXCEPT ![c].up = t] /\ t \in BOOLEAN
    BY <1>4, <2>1 DEF Connected
  <2>3. 0 \in 0 .. Bytes /\ 0 \in 0 .. Room
    BY <1>1
  <2>4. sock' \in [Conns -> Socket]
    BY <1>1, <2>2, <2>3, SocketPut
  <2>5. Outside /\ backlog' = backlog
    BY <1>4 DEF Connected
  <2>6. QED
    BY <1>1, <2>4, <2>5, OutsideStep
<1>5. ASSUME NEW c \in Conns, PeerSends(c) PROVE IInv'
  <2>1. /\ sock[c].got < Bytes /\ sock' = [sock EXCEPT ![c].got = @ + 1]
        /\ Outside /\ backlog' = backlog
    BY <1>5 DEF PeerSends
  <2>2. sock[c].got + 1 \in 0 .. Bytes /\ 0 \in 0 .. Room
    BY <1>1, <1>2, <2>1
  <2>3. sock' \in [Conns -> Socket]
    BY <1>1, <2>1, <2>2, SocketPut
  <2>4. QED
    BY <1>1, <2>1, <2>3, OutsideStep
<1>6. ASSUME NEW c \in Conns, PeerReads(c) PROVE IInv'
  <2>1. /\ sock[c].room < Room /\ sock' = [sock EXCEPT ![c].room = @ + 1]
        /\ Outside /\ backlog' = backlog
    BY <1>6 DEF PeerReads
  <2>2. sock[c].room + 1 \in 0 .. Room /\ 0 \in 0 .. Bytes
    BY <1>1, <1>2, <2>1
  <2>3. sock' \in [Conns -> Socket]
    BY <1>1, <2>1, <2>2, SocketPut
  <2>4. QED
    BY <1>1, <2>1, <2>3, OutsideStep
<1>7. ASSUME NEW c \in Conns, PeerEnds(c) PROVE IInv'
  <2>1. Outside /\ backlog' = backlog
    BY <1>7 DEF PeerEnds
  <2>2. sock' \in [Conns -> Socket]
    <3>1. CASE sock' = [sock EXCEPT ![c].fin = TRUE]
      <4>1. PICK t : t = TRUE
        OBVIOUS
      <4>2. sock' = [sock EXCEPT ![c].fin = t] /\ t \in BOOLEAN
        BY <3>1, <4>1
      <4>3. 0 \in 0 .. Bytes /\ 0 \in 0 .. Room
        BY <1>1
      <4>4. QED
        BY <1>1, <4>2, <4>3, SocketPut
    <3>2. CASE sock' = [sock EXCEPT ![c] = [NoSock EXCEPT !.rst = TRUE]]
      BY <1>1, <3>2, NewRecords
    <3>3. QED
      BY <1>7, <3>1, <3>2 DEF PeerEnds
  <2>3. QED
    BY <1>1, <2>1, <2>2, OutsideStep
<1>8. QED
  BY <1>3, <1>4, <1>5, <1>6, <1>7 DEF Kernel

-----------------------------------------------------------------------------
(* The tick *)

(* Entries of what is expected are alive. *)
LEMMA ExpectedAlive ==
  ASSUME NEW e \in Expected
  PROVE  Alive(e)
<1>1. ASSUME NEW c \in Live, e = EntryOf(c) PROVE Alive(e)
  <2>1. e.user = c /\ e.cb # "listen"
    BY <1>1 DEF EntryOf
  <2>2. QED
    BY <2>1 DEF Alive
<1>2. CASE e = [fd |-> listen, user |-> echo, mask |-> {"RD"}, cb |-> "listen"]
  <2>1. e.user = echo /\ e.cb = "listen" /\ e.fd = listen
    BY <1>2
  <2>2. QED
    BY <2>1 DEF Alive
<1>3. QED
  BY <1>1, <1>2, ExpectedFd

(* What does not touch the component keeps what is expected.               *)
LEMMA ExpectedSame ==
  ASSUME UNCHANGED <<echo, listen, conn>>
  PROVE  Expected' = Expected /\ \A e : Alive(e)' = Alive(e)
BY DEF Expected, EntryOf, Live, Alive

(* A tick begins. *)
LEMMA TickInv ==
  ASSUME IInv, ~undef, Tick
  PROVE  IInv'
<1>1. /\ np' = Ticked(np, Events)
      /\ UNCHANGED <<echo, starts, listen, backlog, conn, sock, stopped, undef>>
  BY DEF Tick
<1>2. Polls(np) /\ Table(np) = Expected
  BY DEF IInv
<1>3. /\ Polls(np') /\ Table(np') = Table(np) /\ np'.ops = <<>>
      /\ \A i \in DOMAIN np'.calls :
           /\ np'.calls[i].at \in DOMAIN np'.entries
           /\ np'.calls[i].fd = np'.entries[np'.calls[i].at].fd
      /\ \A i, j \in DOMAIN np'.calls : np'.calls[i].at = np'.calls[j].at => i = j
  BY <1>1, <1>2, TickedIs
<1>4. Expected' = Expected /\ \A e : Alive(e)' = Alive(e)
  BY <1>1, ExpectedSame
<1>5. Elems(np'.entries) = Expected
  BY <1>2, <1>3, TableNone
<1>6. TypeOK'
  BY <1>1 DEF IInv, TypeOK
<1>7. Fits(Elems(np.entries))'
  <2>1. Fits(Expected)'
    BY <1>6, ExpectedFits
  <2>2. QED
    BY <1>4, <1>5, <2>1 DEF Fits
<1>8. ASSUME NEW i \in DOMAIN np'.calls PROVE Callable(np.calls[i])'
  <2>1. PICK call : call = np'.calls[i]
    OBVIOUS
  <2>2. PICK e : e = np'.entries[call.at]
    OBVIOUS
  <2>3. call.at \in DOMAIN np'.entries /\ e.fd = call.fd
    BY <1>3, <2>1, <2>2
  <2>4. e \in Expected
    BY <1>5, <2>2, <2>3 DEF Elems
  <2>5. Alive(e)'
    BY <1>4, <2>4, ExpectedAlive
  <2>6. Callable(call)'
    BY <2>2, <2>3, <2>5 DEF Callable, Alive
  <2>7. QED
    BY <2>1, <2>6 DEF Callable, Alive
<1>9. CallsLive'
  BY <1>1, <1>8 DEF CallsLive
<1>10. QED
  BY <1>1, <1>2, <1>3, <1>4, <1>6, <1>7, <1>9 DEF IInv, CalledOnce

(* It ends. *)
LEMMA EndTickInv ==
  ASSUME IInv, ~undef, EndTick
  PROVE  IInv'
<1>1. /\ np.calls = <<>> /\ np' = Finished(np) /\ stopped' = FALSE
      /\ UNCHANGED <<echo, starts, listen, backlog, conn, sock, undef>>
  BY DEF EndTick
<1>2. Polls(np) /\ Table(np) = Expected
  BY DEF IInv
<1>3. Polls(np') /\ Table(np') = Table(np) /\ np'.ops = <<>> /\ np'.calls = <<>>
  BY <1>1, <1>2, FinishedIs
<1>4. Expected' = Expected
  BY <1>1, ExpectedSame
<1>5. Elems(np'.entries) = Expected
  BY <1>2, <1>3, TableNone
<1>6. TypeOK'
  BY <1>1 DEF IInv, TypeOK
<1>7. Fits(Elems(np.entries))'
  <2>1. Fits(Expected)'
    BY <1>6, ExpectedFits
  <2>2. QED
    BY <1>4, <1>5, <2>1 DEF Fits
<1>8. CallsLive' /\ CalledOnce(np.calls)'
  BY <1>1, <1>3 DEF CallsLive, CalledOnce
<1>9. QED
  BY <1>1, <1>2, <1>3, <1>4, <1>6, <1>7, <1>8 DEF IInv

(* At the start there is nothing. *)
LEMMA InitInv ==
  ASSUME Init
  PROVE  IInv
<1>1. /\ np = Empty /\ echo = 0 /\ starts = 0 /\ listen = NoFd /\ backlog = 0
      /\ conn = [c \in Conns |-> NoConn] /\ sock = [c \in Conns |-> NoSock]
      /\ stopped = FALSE /\ undef = FALSE
  BY DEF Init
<1>2. /\ NoConn = [st |-> "none", fd |-> NoFd, client |-> FALSE, want |-> FALSE, out |-> 0]
      /\ NoConn \in EchoConn /\ NoSock \in Socket
  BY NewRecords
<1>3. conn \in [Conns -> EchoConn] /\ sock \in [Conns -> Socket]
  BY <1>1, <1>2
<1>4. \A c \in Conns : conn[c].want = (conn[c].out > 0)
  <2>1. NoConn.want = FALSE /\ NoConn.out = 0
    BY <1>2
  <2>2. (NoConn.out > 0) = FALSE
    BY <2>1
  <2>3. NoConn.want = (NoConn.out > 0)
    BY <2>1, <2>2, Zenon
  <2>4. \A c \in Conns : conn[c] = NoConn
    BY <1>1
  <2>5. QED
    BY <2>3, <2>4, Zenon
<1>5. 0 \in 0 .. MaxStarts /\ 0 \in 0 .. MaxConns
  BY Bounds
<1>6. TypeOK
  BY <1>1, <1>3, <1>4, <1>5 DEF TypeOK, EchoConn, Socket
<1>7. /\ np.entries = <<>> /\ np.ops = <<>> /\ np.calls = <<>> /\ np.inTick = FALSE
      /\ np = [entries |-> <<>>, ops |-> <<>>, inTick |-> FALSE, calls |-> <<>>]
  BY <1>1 DEF Empty
<1>8. Elems(<<>>) = {} /\ Single(<<>>) /\ <<>> \in Seq(Entry) /\ <<>> \in Seq(Op)
      /\ <<>> \in Seq(Ready)
  BY DEF Elems, Single
<1>9. <<>> \in Tables
  BY <1>8 DEF Tables, Apart
<1>10. Polls(np)
  BY <1>7, <1>8, <1>9 DEF Polls
<1>11. Table(np) = {}
  BY <1>7, <1>8, TableNone
<1>12. Live = {}
  BY <1>1, <1>2 DEF Live
<1>13. Expected = {}
  BY <1>1, <1>12 DEF Expected
<1>14. Fits(Elems(np.entries)) /\ CalledOnce(np.calls) /\ CallsLive
  BY <1>1, <1>7, <1>8 DEF Fits, CalledOnce, CallsLive
<1>15. QED
  BY <1>1, <1>6, <1>10, <1>11, <1>13, <1>14 DEF IInv

-----------------------------------------------------------------------------
(* Calls for one connection *)

(* A connection that is freed *)
Freed == [st |-> "freed", fd |-> NoFd, client |-> FALSE, want |-> FALSE, out |-> 0]

(* It is a connection, with nothing to write. *)
LEMMA FreedIs ==
  /\ Freed \in EchoConn /\ ConnOK(Freed) /\ Freed.st = "freed"
  /\ Freed = [NoConn EXCEPT !.st = "freed"]
<1>1. NoConn = [st |-> "none", fd |-> NoFd, client |-> FALSE, want |-> FALSE, out |-> 0]
  BY NewRecords
<1>2. Freed = [NoConn EXCEPT !.st = "freed"]
  <2>1. PICK f : f = FALSE
    OBVIOUS
  <2>2. NoConn = [st |-> "none", fd |-> NoFd, client |-> f, want |-> f, out |-> 0]
    BY <1>1, <2>1
  <2>3. [NoConn EXCEPT !.st = "freed"]
          = [st |-> "freed", fd |-> NoFd, client |-> f, want |-> f, out |-> 0]
    BY <2>2
  <2>4. QED
    BY <2>1, <2>3, Zenon DEF Freed
<1>3. 0 \in 0 .. Cap
  BY Bounds
<1>4. Freed \in EchoConn /\ Freed.st = "freed"
  BY <1>3 DEF Freed, EchoConn
<1>5. ConnOK(Freed)
  <2>1. Freed.want = FALSE /\ Freed.out = 0
    BY DEF Freed
  <2>2. (Freed.out > 0) = FALSE
    BY <2>1
  <2>3. QED
    BY <1>4, <2>1, <2>2, Zenon DEF ConnOK
<1>6. QED
  BY <1>2, <1>4, <1>5

(* Truth values, as an operator *)
IsBool(w) == w \in BOOLEAN

(* A connection with other values *)
With(s, c, o, w) == [s EXCEPT ![c].out = o, ![c].want = w]
Opened(s, c, o, w) == [s EXCEPT ![c].st = "open", ![c].out = o, ![c].want = w]

(* It is a connection, and has these values. *)
LEMMA ConnPut ==
  ASSUME NEW s \in [Conns -> EchoConn], NEW c \in Conns, NEW o \in 0 .. Cap,
         NEW w, IsBool(w)
  PROVE  /\ With(s, c, o, w) \in [Conns -> EchoConn]
         /\ With(s, c, o, w)[c].st = s[c].st /\ With(s, c, o, w)[c].fd = s[c].fd
         /\ With(s, c, o, w)[c].out = o /\ With(s, c, o, w)[c].want = w
         /\ Opened(s, c, o, w) \in [Conns -> EchoConn]
         /\ Opened(s, c, o, w)[c].st = "open" /\ Opened(s, c, o, w)[c].fd = s[c].fd
         /\ Opened(s, c, o, w)[c].out = o /\ Opened(s, c, o, w)[c].want = w
<1> DEFINE r == s[c]
           a == r.st
           f == r.fd
           x == r.client
           y == r.want
           z == r.out
<1>1. r \in EchoConn
  OBVIOUS
<1>2. /\ r = [st |-> a, fd |-> f, client |-> x, want |-> y, out |-> z]
      /\ a \in {"none", "connecting", "open", "freed"} /\ f \in Fds \cup {NoFd} /\ x \in BOOLEAN
  BY <1>1 DEF EchoConn
<1>3. /\ [st |-> a, fd |-> f, client |-> x, want |-> w, out |-> o] \in EchoConn
      /\ [st |-> "open", fd |-> f, client |-> x, want |-> w, out |-> o] \in EchoConn
  BY <1>2 DEF EchoConn, IsBool
<1>4. /\ [s EXCEPT ![c].out = o, ![c].want = w]
           = [s EXCEPT ![c] = [[r EXCEPT !.out = o] EXCEPT !.want = w]]
      /\ [s EXCEPT ![c].st = "open", ![c].out = o, ![c].want = w]
           = [s EXCEPT ![c] = [[[r EXCEPT !.st = "open"] EXCEPT !.out = o] EXCEPT !.want = w]]
  OBVIOUS
<1>5. ASSUME NEW u \in EchoConn
      PROVE  /\ [s EXCEPT ![c] = u] \in [Conns -> EchoConn] /\ [s EXCEPT ![c] = u][c] = u
  OBVIOUS
<1>6. r = [st |-> a, fd |-> f, client |-> x, want |-> y, out |-> z]
  BY <1>2
<1> HIDE DEF r, a, f, x, y, z
<1>7. ASSUME NEW p, NEW q, NEW t
      PROVE  /\ [[r EXCEPT !.out = q] EXCEPT !.want = t]
                  = [st |-> a, fd |-> f, client |-> x, want |-> t, out |-> q]
             /\ [[[r EXCEPT !.st = p] EXCEPT !.out = q] EXCEPT !.want = t]
                  = [st |-> p, fd |-> f, client |-> x, want |-> t, out |-> q]
  <2> DEFINE r1 == [st |-> a, fd |-> f, client |-> x, want |-> y, out |-> q]
             r2 == [st |-> p, fd |-> f, client |-> x, want |-> y, out |-> z]
             r3 == [st |-> p, fd |-> f, client |-> x, want |-> y, out |-> q]
  <2>1. [r EXCEPT !.out = q] = r1 /\ [r EXCEPT !.st = p] = r2
    BY <1>6
  <2>2. [r1 EXCEPT !.want = t] = [st |-> a, fd |-> f, client |-> x, want |-> t, out |-> q]
    OBVIOUS
  <2>3. [r2 EXCEPT !.out = q] = r3
    OBVIOUS
  <2>4. [r3 EXCEPT !.want = t] = [st |-> p, fd |-> f, client |-> x, want |-> t, out |-> q]
    OBVIOUS
  <2> HIDE DEF r1, r2, r3
  <2>5. QED
    BY <2>1, <2>2, <2>3, <2>4, Zenon
<1> DEFINE u1 == [st |-> a, fd |-> f, client |-> x, want |-> w, out |-> o]
           u2 == [st |-> "open", fd |-> f, client |-> x, want |-> w, out |-> o]
<1>8. u1 \in EchoConn /\ u2 \in EchoConn
  BY <1>3
<1>9. /\ [s EXCEPT ![c].out = o, ![c].want = w] = [s EXCEPT ![c] = u1]
      /\ [s EXCEPT ![c].st = "open", ![c].out = o, ![c].want = w] = [s EXCEPT ![c] = u2]
  <2>1. [[r EXCEPT !.out = o] EXCEPT !.want = w] = u1
    BY <1>7, Zenon
  <2>2. [[[r EXCEPT !.st = "open"] EXCEPT !.out = o] EXCEPT !.want = w] = u2
    BY <1>7, Zenon
  <2>3. QED
    BY <1>4, <2>1, <2>2, Zenon
<1> HIDE DEF u1, u2
<1>10. /\ With(s, c, o, w) \in [Conns -> EchoConn] /\ With(s, c, o, w)[c] = u1
       /\ Opened(s, c, o, w) \in [Conns -> EchoConn] /\ Opened(s, c, o, w)[c] = u2
  BY <1>5, <1>8, <1>9, Zenon DEF With, Opened
<1>11. /\ u1.st = s[c].st /\ u1.fd = s[c].fd /\ u1.out = o /\ u1.want = w
       /\ u2.st = "open" /\ u2.fd = s[c].fd /\ u2.out = o /\ u2.want = w
  BY DEF u1, u2, a, f, r
<1>12. QED
  BY <1>10, <1>11

(* A call that changes one connection and its entry, or frees it *)
LEMMA OneCall ==
  ASSUME IInv, ~undef, np.inTick, np.calls # <<>>, Callable(Head(np.calls)),
         NEW h, h = np.entries[Head(np.calls).at], h.cb # "listen",
         NEW c, c = h.user, OnlyConn(c), c \in Live,
         UNCHANGED <<echo, starts, listen, backlog, stopped, undef>>,
         conn' \in [Conns -> EchoConn], ConnOK(conn'[c]), conn'[c].st \in {"open", "freed"},
         sock' \in [Conns -> Socket],
         NEW op \in Op, np' = Asked([np EXCEPT !.calls = Tail(@)], <<op>>),
         op.entry.fd = conn[c].fd,
         \/ op.kind = "add" /\ c \in Live' /\ op.entry = EntryOf(c)'
         \/ op.kind = "del" /\ c \notin Live'
  PROVE  IInv'
<1>1. TypeOK /\ \A d \in Conns : ConnOK(conn[d])
  BY TypeParts DEF IInv
<1>2. \A d \in Conns : ConnOK(conn'[d])
  <2>1. ASSUME NEW d \in Conns PROVE ConnOK(conn'[d])
    <3>1. CASE d = c
      BY <3>1
    <3>2. CASE d # c
      <4>1. conn'[d] = conn[d]
        BY <3>2 DEF OnlyConn
      <4>2. QED
        BY <1>1, <4>1
    <3>3. QED
      BY <3>1, <3>2
  <2>2. QED
    BY <2>1
<1>3. TypeOK'
  <2>1. /\ echo' \in 0 .. MaxStarts /\ starts' \in 0 .. MaxStarts
        /\ listen' \in Fds \cup {NoFd} /\ backlog' \in 0 .. MaxConns
        /\ stopped' \in BOOLEAN /\ undef' \in BOOLEAN
    BY <1>1 DEF TypeOK
  <2>2. QED
    BY <1>2, <2>1, TypeMade
<1>4. <<op>> \in Seq(Op) /\ After(Expected, <<op>>) = Changed(Expected, op)
  BY AfterOne
<1>5. Expected' = Changed(Expected, op)
  BY ExpectedSwap
<1>6. Evolves
  <2>1. conn[c].st \in {"open", "connecting"}
    BY DEF Live
  <2>2. QED
    BY <2>1 DEF Evolves, OnlyConn
<1>7. AskedFor([np EXCEPT !.calls = Tail(@)], <<op>>)
  <2>1. undef' = FALSE
    BY <1>1, Zenon DEF TypeOK
  <2>2. echo' = 0 => listen' = NoFd
    BY DEF IInv
  <2>3. QED
    BY <1>4, <1>5, <1>6, <2>1, <2>2 DEF AskedFor
<1>8. ASSUME NEW e, Alive(e), e.cb = "listen" \/ h.cb = "listen" \/ e.user # h.user
      PROVE Alive(e)'
  <2>1. CASE e.cb = "listen"
    BY <1>8, <2>1 DEF Alive
  <2>2. CASE e.cb # "listen" /\ e.user # c
    <3>1. e.user \in Live
      BY <1>8, <2>2 DEF Alive
    <3>2. e.user \in Live'
      BY <2>2, <3>1, OthersStay
    <3>3. QED
      BY <2>2, <3>2 DEF Alive
  <2>3. QED
    BY <1>8, <2>1, <2>2
<1>9. stopped' = stopped
  OBVIOUS
<1>10. QED
  BY <1>3, <1>7, <1>8, <1>9, CallStep

(* What a call for a connection finds *)
LEMMA CalledConn ==
  ASSUME IInv, np.inTick, np.calls # <<>>, Callable(Head(np.calls)),
         NEW h, h = np.entries[Head(np.calls).at], h.cb # "listen"
  PROVE  /\ h.user \in Live /\ h.user \in Conns /\ conn[h.user].fd \in Fds
         /\ h.cb = "conn" => conn[h.user].st = "open"
<1>1. h.user \in Live
  BY DEF Callable, Alive
<1>2. Head(np.calls).at \in DOMAIN np.entries
  BY DEF Callable
<1>3. h \in Elems(np.entries)
  BY <1>2 DEF Elems
<1>4. conn[h.user].st \in Later(h.cb)
  BY <1>3 DEF IInv, Fits
<1>5. conn[h.user].st \in {"open", "connecting"} /\ h.user \in Conns
  BY <1>1 DEF Live
<1>6. conn[h.user].fd \in Fds
  BY <1>1, Descriptors
<1>7. QED
  BY <1>1, <1>4, <1>5, <1>6 DEF Later

(* s_conn_close *)
LEMMA ClosedInv ==
  ASSUME IInv, ~undef, np.inTick, np.calls # <<>>, Callable(Head(np.calls)),
         NEW h, h = np.entries[Head(np.calls).at], h.cb # "listen",
         Closed(h.user), UNCHANGED <<echo, starts, stopped, undef>>
  PROVE  IInv'
<1> DEFINE c == h.user
<1>1. c \in Live /\ c \in Conns /\ conn[c].fd \in Fds
  BY CalledConn
<1>2. /\ conn' = [conn EXCEPT ![c] = [NoConn EXCEPT !.st = "freed"]]
      /\ np' = Asked([np EXCEPT !.calls = Tail(@)], <<Del(conn[c].fd)>>)
      /\ sock' = [sock EXCEPT ![c] = NoSock]
      /\ UNCHANGED <<listen, backlog>>
  BY DEF Closed
<1>3. conn \in [Conns -> EchoConn] /\ sock \in [Conns -> Socket]
  BY TypeParts DEF IInv
<1>4. Freed \in EchoConn /\ ConnOK(Freed) /\ Freed.st = "freed"
      /\ Freed = [NoConn EXCEPT !.st = "freed"]
  BY FreedIs
<1> HIDE DEF c
<1>5. conn' \in [Conns -> EchoConn] /\ conn'[c] = Freed /\ OnlyConn(c)
  BY <1>1, <1>2, <1>3, <1>4 DEF OnlyConn
<1>6. sock' \in [Conns -> Socket]
  BY <1>1, <1>2, <1>3, NewRecords
<1>7. c \notin Live'
  BY <1>4, <1>5 DEF Live
<1> DEFINE op == Del(conn[c].fd)
<1>8. op \in Op /\ op.kind = "del" /\ op.entry.fd = conn[c].fd
  BY <1>1, DelIs
<1>9. np' = Asked([np EXCEPT !.calls = Tail(@)], <<op>>)
  BY <1>2
<1> HIDE DEF op
<1>10. c = h.user
  BY DEF c
<1>11. UNCHANGED <<echo, starts, listen, backlog, stopped, undef>>
  BY <1>2
<1>12. ConnOK(conn'[c]) /\ conn'[c].st \in {"open", "freed"}
  BY <1>4, <1>5
<1>13. QED
  BY <1>1, <1>5, <1>6, <1>7, <1>8, <1>9, <1>10, <1>11, <1>12, OneCall

(* The entry of an open connection *)
LEMMA OpenEntry ==
  ASSUME NEW c \in Conns, NEW f \in Fds, conn'[c].st = "open", conn'[c].fd = f, conn'[c].out \in Nat
  PROVE  /\ c \in Live'
         /\ EntryOf(c)' = [fd |-> f, mask |-> Mask(conn'[c].out > 0), cb |-> "conn", user |-> c]
         /\ Mask(conn'[c].out > 0) \in SUBSET {"RD", "WR"}
         /\ Mask(conn'[c].out > 0) = {"RD"} \cup (IF conn'[c].out > 0 THEN {"WR"} ELSE {})
<1>1. c \in Live'
  BY DEF Live
<1> DEFINE mask == {"RD"} \cup (IF conn'[c].out > 0 THEN {"WR"} ELSE {})
<1>2. Mask(conn'[c].out > 0) = mask
  BY DEF Mask
<1>3. mask \in SUBSET {"RD", "WR"}
  OBVIOUS
<1>4. EntryOf(c)' = [fd |-> conn'[c].fd, user |-> c,
                     mask |-> IF conn'[c].st = "connecting" THEN {"WR"} ELSE mask,
                     cb |-> IF conn'[c].st = "connecting" THEN "connecting" ELSE "conn"]
  BY DEF EntryOf
<1> HIDE DEF mask
<1>5. EntryOf(c)' = [fd |-> f, mask |-> mask, cb |-> "conn", user |-> c]
  BY <1>4
<1>6. QED
  BY <1>1, <1>2, <1>3, <1>5 DEF mask

(* s_on_client_connecting *)
LEMMA OnConnectingInv ==
  ASSUME IInv, ~undef, np.inTick, np.calls # <<>>, Callable(Head(np.calls)),
         NEW h, h = np.entries[Head(np.calls).at], h.cb # "listen",
         NEW ev, OnConnecting(h.user, ev), UNCHANGED <<echo, starts, stopped, undef>>
  PROVE  IInv'
<1>1. CASE Closed(h.user)
  BY <1>1, ClosedInv
<1>2. ASSUME ~Closed(h.user) PROVE IInv'
  <2>1. PICK c : c = h.user
    OBVIOUS
  <2>2. c \in Live /\ c \in Conns /\ conn[c].fd \in Fds
    BY <2>1, CalledConn
  <2>3. PICK t : t = TRUE
    OBVIOUS
  <2>4. /\ conn' = [conn EXCEPT ![c].st = "open", ![c].out = 1, ![c].want = t]
        /\ np' = Asked([np EXCEPT !.calls = Tail(@)],
                   <<Add(conn[c].fd, {"RD", "WR"}, "conn", c)>>)
        /\ UNCHANGED <<listen, backlog, sock>>
    BY <1>2, <2>1, <2>3 DEF OnConnecting
  <2>5. conn \in [Conns -> EchoConn] /\ sock \in [Conns -> Socket] /\ 1 \in 0 .. Cap
    BY TypeParts, Bounds DEF IInv
  <2>6. IsBool(t) /\ conn' = Opened(conn, c, 1, t)
    BY <2>3, <2>4, Zenon DEF IsBool, Opened
  <2>7. conn' \in [Conns -> EchoConn]
    BY <2>2, <2>5, <2>6, ConnPut
  <2>8. /\ conn'[c].st = "open" /\ conn'[c].fd = conn[c].fd
        /\ conn'[c].out = 1 /\ conn'[c].want = t
    BY <2>2, <2>5, <2>6, ConnPut
  <2>9. conn'[c].want = (conn'[c].out > 0)
    <3>1. (conn'[c].out > 0) = TRUE
      BY <2>8
    <3>2. QED
      BY <2>3, <2>8, <3>1, Zenon
  <2>10. ConnOK(conn'[c]) /\ conn'[c].st \in {"open", "freed"}
    BY <2>2, <2>7, <2>8, <2>9 DEF ConnOK
  <2>11. OnlyConn(c)
    BY <2>2, <2>4, <2>5 DEF OnlyConn
  <2>12. /\ c \in Live'
         /\ EntryOf(c)' = [fd |-> conn[c].fd, mask |-> {"RD", "WR"}, cb |-> "conn", user |-> c]
    <3>1. conn'[c].out \in Nat /\ conn'[c].out > 0
      BY <2>8
    <3>2. /\ c \in Live'
          /\ EntryOf(c)' = [fd |-> conn[c].fd, mask |-> Mask(conn'[c].out > 0),
                            cb |-> "conn", user |-> c]
          /\ Mask(conn'[c].out > 0) = {"RD"} \cup (IF conn'[c].out > 0 THEN {"WR"} ELSE {})
      BY <2>2, <2>8, <3>1, OpenEntry
    <3>3. Mask(conn'[c].out > 0) = {"RD", "WR"}
      BY <3>1, <3>2
    <3>4. QED
      BY <3>2, <3>3, Zenon
  <2> DEFINE op == Add(conn[c].fd, {"RD", "WR"}, "conn", c)
  <2>13. c \in Nat
    BY <2>2 DEF Conns
  <2>14. op \in Op /\ op.kind = "add"
         /\ op.entry = [fd |-> conn[c].fd, mask |-> {"RD", "WR"}, cb |-> "conn", user |-> c]
    <3>1. {"RD", "WR"} \in Masks /\ "conn" \in Callbacks
      BY DEF Masks, Callbacks
    <3>2. QED
      BY <2>2, <2>13, <3>1, AddIs
  <2>15. np' = Asked([np EXCEPT !.calls = Tail(@)], <<op>>)
    BY <2>4
  <2> HIDE DEF op
  <2>16. op.entry = EntryOf(c)' /\ op.entry.fd = conn[c].fd
    BY <2>12, <2>14
  <2>17. UNCHANGED <<echo, starts, listen, backlog, stopped, undef>> /\ sock' \in [Conns -> Socket]
    BY <2>4, <2>5
  <2>18. QED
    BY <2>1, <2>2, <2>7, <2>10, <2>11, <2>12, <2>14, <2>15, <2>16, <2>17, OneCall
<1>3. QED
  BY <1>1, <1>2

-----------------------------------------------------------------------------
(* Reading and writing *)

(* No more is read than there is. *)
LEMMA Read ==
  ASSUME NEW got \in Nat, NEW x
  PROVE  (IF x THEN Min({got, ReadBudget}) ELSE 0) \in 0 .. got
<1>1. {got, ReadBudget} \in SUBSET Nat /\ got \in {got, ReadBudget}
  BY Bounds
<1>2. Min({got, ReadBudget}) \in Nat /\ Min({got, ReadBudget}) <= got
  BY <1>1, MinIs
<1>3. QED
  BY <1>2

(* No more is written than there is, and than there is room for. *)
LEMMA Written ==
  ASSUME NEW kept \in Nat, NEW room \in Nat, NEW x
  PROVE  /\ (IF x THEN Min({kept, WriteBudget, room}) ELSE 0) \in 0 .. kept
         /\ (IF x THEN Min({kept, WriteBudget, room}) ELSE 0) \in 0 .. room
<1> DEFINE S == {kept, WriteBudget, room}
<1>1. S \in SUBSET Nat /\ kept \in S /\ room \in S
  BY Bounds
<1> HIDE DEF S
<1>2. Min(S) \in Nat /\ Min(S) <= kept /\ Min(S) <= room
  BY <1>1, MinIs
<1>3. QED
  BY <1>2 DEF S

(* What out_buf holds *)
LEMMA KeptIs ==
  ASSUME NEW c, conn[c].out \in 0 .. Cap, NEW n \in Nat
  PROVE  Kept(c, n) \in 0 .. Cap
<1> DEFINE S == {conn[c].out + n, Cap}
<1>1. S \in SUBSET Nat /\ Cap \in S
  BY Bounds
<1> HIDE DEF S
<1>2. Min(S) \in Nat /\ Min(S) <= Cap /\ Cap \in Nat
  BY <1>1, Bounds, MinIs
<1>3. QED
  BY <1>2 DEF Kept, S

(* Whether it still waits for room *)
Wants(w, left) == w = (left > 0)
Waits(w, kept, m, out) == kept > m /\ (w \/ kept > out)

(* It waits exactly while something is left. *)
LEMMA Wanted ==
  ASSUME NEW out \in Nat, NEW kept \in Nat, NEW m \in 0 .. kept, NEW w, Wants(w, out)
  PROVE  Wants(Waits(w, kept, m, out), kept - m)
<1>1. w <=> out > 0
  BY Zenon DEF Wants
<1>2. (kept > m /\ (out > 0 \/ kept > out)) <=> kept - m > 0
  OBVIOUS
<1> DEFINE A == kept > m /\ (w \/ kept > out)
           B == kept - m > 0
<1>3. A <=> B
  BY <1>1, <1>2, Zenon
<1>4. A \in BOOLEAN /\ B \in BOOLEAN
  OBVIOUS
<1> HIDE DEF A, B
<1>5. A = B
  BY <1>3, <1>4
<1>6. QED
  BY <1>5, Zenon DEF A, B, Wants, Waits

(* s_on_conn *)
LEMMA OnConnInv ==
  ASSUME IInv, ~undef, np.inTick, np.calls # <<>>, Callable(Head(np.calls)),
         NEW h, h = np.entries[Head(np.calls).at], h.cb = "conn",
         NEW ev, OnConn(h.user, ev), UNCHANGED <<echo, starts, stopped, undef>>
  PROVE  IInv'
<1>1. CASE Closed(h.user)
  BY <1>1, ClosedInv
<1>2. ASSUME ~Closed(h.user) PROVE IInv'
  <2>1. PICK c : c = h.user
    OBVIOUS
  <2>2. c \in Live /\ c \in Conns /\ conn[c].fd \in Fds /\ conn[c].st = "open"
    BY <2>1, CalledConn
  <2>3. PICK n : n = IF "RD" \in ev THEN Min({sock[c].got, ReadBudget}) ELSE 0
    OBVIOUS
  <2>4. PICK kept : kept = Kept(c, n)
    OBVIOUS
  <2>5. PICK m : m = IF "WR" \in ev THEN Min({kept, WriteBudget, sock[c].room}) ELSE 0
    OBVIOUS
  <2>6. PICK want : want = (kept > m /\ (conn[c].want \/ kept > conn[c].out))
    OBVIOUS
  <2>7. /\ conn' = [conn EXCEPT ![c].out = kept - m, ![c].want = want]
        /\ sock' = [sock EXCEPT ![c].got = sock[c].got - n, ![c].room = sock[c].room - m]
        /\ np' = Asked([np EXCEPT !.calls = Tail(@)],
                   <<Add(conn[c].fd, Mask(want), "conn", c)>>)
        /\ UNCHANGED <<listen, backlog>>
    BY <1>2, <2>1, <2>3, <2>4, <2>5, <2>6 DEF OnConn
  <2>8. /\ conn \in [Conns -> EchoConn] /\ sock \in [Conns -> Socket]
        /\ conn[c].want = (conn[c].out > 0)
    BY <2>2, TypeParts DEF IInv, ConnOK
  <2>9. conn[c].out \in 0 .. Cap /\ sock[c].got \in 0 .. Bytes /\ sock[c].room \in 0 .. Room
    BY <2>2, <2>8 DEF EchoConn, Socket
  <2>10. Cap \in Nat /\ Bytes \in Nat /\ Room \in Nat
    BY Bounds
  <2>11. sock[c].got \in Nat /\ sock[c].room \in Nat /\ conn[c].out \in Nat
    BY <2>9, <2>10
  <2>12. n \in 0 .. sock[c].got
    BY <2>3, <2>11, Read
  <2>13. kept \in 0 .. Cap
    BY <2>4, <2>9, <2>11, <2>12, KeptIs
  <2>14. m \in 0 .. kept /\ m \in 0 .. sock[c].room
    BY <2>5, <2>10, <2>11, <2>13, Written
  <2>15. want = (kept - m > 0)
    <3>1. kept \in Nat
      BY <2>10, <2>13
    <3>2. Wants(conn[c].want, conn[c].out)
      BY <2>8, Zenon DEF Wants
    <3>3. Wants(Waits(conn[c].want, kept, m, conn[c].out), kept - m)
      BY <2>11, <2>14, <3>1, <3>2, Wanted
    <3>4. QED
      BY <2>6, <3>3, Zenon DEF Wants, Waits
  <2>16. kept - m \in 0 .. Cap /\ want \in BOOLEAN
    BY <2>10, <2>13, <2>14, <2>15
  <2>17. sock[c].got - n \in 0 .. Bytes /\ sock[c].room - m \in 0 .. Room
    BY <2>9, <2>10, <2>12, <2>14
  <2>18. PICK o : o = kept - m
    OBVIOUS
  <2>19. conn' \in [Conns -> EchoConn] /\ conn'[c].st = conn[c].st
         /\ conn'[c].fd = conn[c].fd /\ conn'[c].out = o /\ conn'[c].want = want
    <3>1. o \in 0 .. Cap
      BY <2>16, <2>18
    <3>2. IsBool(want) /\ conn' = With(conn, c, o, want)
      BY <2>7, <2>16, <2>18, Zenon DEF IsBool, With
    <3>3. conn \in [Conns -> EchoConn] /\ c \in Conns
      BY <2>2, <2>8
    <3>4. QED
      BY <3>1, <3>2, <3>3, ConnPut
  <2>20. /\ conn'[c].st = "open" /\ conn'[c].fd = conn[c].fd
         /\ conn'[c].out = o /\ conn'[c].want = want
    BY <2>2, <2>19
  <2>21. conn'[c].want = (conn'[c].out > 0)
    BY <2>15, <2>18, <2>20, Zenon
  <2>22. ConnOK(conn'[c]) /\ conn'[c].st \in {"open", "freed"}
    BY <2>2, <2>19, <2>20, <2>21 DEF ConnOK
  <2>23. OnlyConn(c)
    BY <2>2, <2>7, <2>8 DEF OnlyConn
  <2>24. sock' \in [Conns -> Socket]
    <3>1. PICK t : t = TRUE
      OBVIOUS
    <3>2. t \in BOOLEAN
      BY <3>1
    <3>3. QED
      BY <2>2, <2>7, <2>8, <2>17, <3>2, SocketPut
  <2>25. /\ c \in Live'
         /\ EntryOf(c)' = [fd |-> conn[c].fd, mask |-> Mask(want), cb |-> "conn", user |-> c]
         /\ Mask(want) \in SUBSET {"RD", "WR"}
    <3>1. conn'[c].out \in Nat
      BY <2>10, <2>16, <2>18, <2>20
    <3>2. /\ c \in Live'
          /\ EntryOf(c)' = [fd |-> conn[c].fd, mask |-> Mask(conn'[c].out > 0),
                            cb |-> "conn", user |-> c]
          /\ Mask(conn'[c].out > 0) \in SUBSET {"RD", "WR"}
      BY <2>2, <2>20, <3>1, OpenEntry
    <3>3. want = (conn'[c].out > 0)
      BY <2>20, <2>21, Zenon
    <3>4. Mask(want) = Mask(conn'[c].out > 0)
      BY <3>3, Zenon
    <3>5. QED
      BY <3>2, <3>4, Zenon
  <2> DEFINE op == Add(conn[c].fd, Mask(want), "conn", c)
  <2>26. c \in Nat
    BY <2>2 DEF Conns
  <2>27. op \in Op /\ op.kind = "add"
         /\ op.entry = [fd |-> conn[c].fd, mask |-> Mask(want), cb |-> "conn", user |-> c]
    <3>1. PICK fd : fd = conn[c].fd
      OBVIOUS
    <3>2. PICK mask : mask = Mask(want)
      OBVIOUS
    <3>3. fd \in Fds /\ mask \in Masks
      BY <2>2, <2>25, <3>1, <3>2 DEF Masks
    <3>4. "conn" \in Callbacks
      BY DEF Callbacks
    <3> HIDE DEF op
    <3>5. /\ Add(fd, mask, "conn", c) \in Op /\ Add(fd, mask, "conn", c).kind = "add"
          /\ Add(fd, mask, "conn", c).entry = [fd |-> fd, mask |-> mask, cb |-> "conn", user |-> c]
      BY <2>26, <3>3, <3>4, AddIs
    <3>6. QED
      BY <3>1, <3>2, <3>5, Zenon DEF op
  <2>28. np' = Asked([np EXCEPT !.calls = Tail(@)], <<op>>)
    BY <2>7
  <2> HIDE DEF op
  <2>29. op.entry = EntryOf(c)' /\ op.entry.fd = conn[c].fd
    BY <2>25, <2>27
  <2>30. UNCHANGED <<echo, starts, listen, backlog, stopped, undef>>
    BY <2>7
  <2>31. h.cb # "listen"
    OBVIOUS
  <2>32. QED
    BY <2>1, <2>2, <2>19, <2>22, <2>23, <2>24, <2>25, <2>27, <2>28, <2>29, <2>30, <2>31, OneCall
<1>3. QED
  BY <1>1, <1>2

-----------------------------------------------------------------------------
(* Many connections at once *)

(* Changes that add entries with new descriptors add them all.             *)
LEMMA AfterAdds ==
  ASSUME NEW E, NEW ops \in Seq(Op), \A i \in DOMAIN ops : ops[i].kind = "add",
         \A i, j \in DOMAIN ops : ops[i].entry.fd = ops[j].entry.fd => i = j,
         \A i \in DOMAIN ops : \A e \in E : e.fd # ops[i].entry.fd
  PROVE  After(E, ops) = E \cup {ops[i].entry : i \in DOMAIN ops}
<1> DEFINE n == Len(ops)
<1>1. n \in Nat /\ DOMAIN ops = 1 .. n
  OBVIOUS
<1> HIDE DEF n
<1>2. Untouched(E, ops, n) = E
  BY <1>1 DEF Untouched
<1>3. ASSUME NEW m \in 1 .. n PROVE Stays(ops, n, m)
  <2>1. ASSUME NEW l \in m + 1 .. n PROVE ops[l].entry.fd # ops[m].entry.fd
    <3>1. l \in 1 .. n /\ l # m
      BY <1>1
    <3>2. QED
      BY <1>1, <3>1
  <2>2. QED
    BY <1>1, <2>1 DEF Stays
<1>4. Entered(ops, n) = {ops[i].entry : i \in DOMAIN ops}
  BY <1>1, <1>3 DEF Entered
<1>5. QED
  BY <1>2, <1>4 DEF After, AfterFirst, n

(* Changes that remove all descriptors leave nothing.                      *)
LEMMA AfterDels ==
  ASSUME NEW E, NEW ops \in Seq(Op), \A i \in DOMAIN ops : ops[i].kind = "del",
         \A e \in E : \E i \in DOMAIN ops : ops[i].entry.fd = e.fd
  PROVE  After(E, ops) = {}
<1> DEFINE n == Len(ops)
<1>1. n \in Nat /\ DOMAIN ops = 1 .. n
  OBVIOUS
<1> HIDE DEF n
<1>2. Untouched(E, ops, n) = {}
  BY <1>1 DEF Untouched
<1>3. Entered(ops, n) = {}
  BY <1>1 DEF Entered, Stays
<1>4. QED
  BY <1>2, <1>3 DEF After, AfterFirst, n

(* An accepted connection *)
Accepted(fd) == [st |-> "open", fd |-> fd, client |-> FALSE, want |-> FALSE, out |-> 0]

(* It is a connection, with nothing to write. *)
LEMMA AcceptedIs ==
  ASSUME NEW fd \in Fds
  PROVE  /\ Accepted(fd) = [NoConn EXCEPT !.st = "open", !.fd = fd]
         /\ Accepted(fd) \in EchoConn /\ ConnOK(Accepted(fd))
         /\ Accepted(fd).st = "open" /\ Accepted(fd).fd = fd /\ Accepted(fd).out = 0
<1>1. NoConn = [st |-> "none", fd |-> NoFd, client |-> FALSE, want |-> FALSE, out |-> 0]
  BY NewRecords
<1>2. Accepted(fd) = [NoConn EXCEPT !.st = "open", !.fd = fd]
  <2>1. PICK f : f = FALSE
    OBVIOUS
  <2> DEFINE r == [st |-> "none", fd |-> NoFd, client |-> f, want |-> f, out |-> 0]
             q == [st |-> "open", fd |-> NoFd, client |-> f, want |-> f, out |-> 0]
  <2>2. NoConn = r
    BY <1>1, <2>1
  <2>3. [r EXCEPT !.st = "open"] = q
    OBVIOUS
  <2>4. [q EXCEPT !.fd = fd] = [st |-> "open", fd |-> fd, client |-> f, want |-> f, out |-> 0]
    OBVIOUS
  <2> HIDE DEF r, q
  <2>5. [NoConn EXCEPT !.st = "open", !.fd = fd]
          = [st |-> "open", fd |-> fd, client |-> f, want |-> f, out |-> 0]
    BY <2>2, <2>3, <2>4, Zenon
  <2>6. QED
    BY <2>1, <2>5, Zenon DEF Accepted
<1>3. 0 \in 0 .. Cap
  BY Bounds
<1>4. /\ Accepted(fd) \in EchoConn
      /\ Accepted(fd).st = "open" /\ Accepted(fd).fd = fd /\ Accepted(fd).out = 0
  BY <1>3 DEF Accepted, EchoConn
<1>5. ConnOK(Accepted(fd))
  <2>1. Accepted(fd).want = FALSE
    BY DEF Accepted
  <2>2. (Accepted(fd).out > 0) = FALSE
    BY <1>4
  <2>3. QED
    BY <1>4, <2>1, <2>2, Zenon DEF ConnOK
<1>6. QED
  BY <1>2, <1>4, <1>5

(* s_on_listen *)
LEMMA OnListenInv ==
  ASSUME IInv, ~undef, np.inTick, np.calls # <<>>, Callable(Head(np.calls)),
         NEW h, h = np.entries[Head(np.calls).at], h.cb = "listen",
         OnListen, UNCHANGED <<echo, starts, stopped, undef>>
  PROVE  IInv'
<1>1. PICK k : k = Min({backlog, AcceptBudget, Cardinality(Unused), Cardinality(Free)})
  OBVIOUS
<1>0. PICK none : none = Mask(FALSE)
  OBVIOUS
<1> DEFINE new == {c \in Unused : Rank(Unused, c) < k}
           fdOf(c) == Nth(Free, Rank(Unused, c))
           ops == [i \in 1 .. k |->
                     Add(Nth(Free, i - 1), Mask(FALSE), "conn", Nth(Unused, i - 1))]
<1>2. /\ backlog' = backlog - k
      /\ conn' = [c \in Conns |->
           IF c \in new THEN [NoConn EXCEPT !.st = "open", !.fd = fdOf(c)] ELSE conn[c]]
      /\ sock' = [c \in Conns |-> IF c \in new THEN [NoSock EXCEPT !.up = TRUE] ELSE sock[c]]
      /\ np' = Asked([np EXCEPT !.calls = Tail(@)], ops)
      /\ listen' = listen
  BY <1>1 DEF OnListen
<1>3. /\ Unused \in SUBSET Conns /\ Unused \in SUBSET Nat /\ IsFiniteSet(Unused)
      /\ Free \in SUBSET Fds /\ Free \in SUBSET Nat /\ IsFiniteSet(Free)
      /\ Cardinality(Unused) \in Nat /\ Cardinality(Free) \in Nat
      /\ \A e \in Expected : e.fd \notin Free
  BY UnusedConns, FreeFds, FS_CardinalityType
<1>4. backlog \in 0 .. MaxConns /\ MaxConns \in Nat /\ AcceptBudget \in Nat
  BY Bounds DEF IInv, TypeOK
<1>5. k \in Nat /\ k <= backlog /\ k <= Cardinality(Unused) /\ k <= Cardinality(Free)
  <2> DEFINE S == {backlog, AcceptBudget, Cardinality(Unused), Cardinality(Free)}
  <2>1. S \in SUBSET Nat /\ backlog \in S /\ Cardinality(Unused) \in S /\ Cardinality(Free) \in S
    BY <1>3, <1>4
  <2>2. k = Min(S)
    BY <1>1
  <2> HIDE DEF S
  <2>3. k \in S /\ \A x \in S : k <= x
    BY <2>1, <2>2, MinIs
  <2>4. QED
    BY <2>1, <2>3
<1>6. ASSUME NEW i \in 1 .. k
      PROVE  /\ Nth(Free, i - 1) \in Free /\ Rank(Free, Nth(Free, i - 1)) = i - 1
             /\ Nth(Unused, i - 1) \in new /\ Rank(Unused, Nth(Unused, i - 1)) = i - 1
  <2>1. i - 1 \in 0 .. Cardinality(Free) - 1 /\ i - 1 \in 0 .. Cardinality(Unused) - 1
        /\ i - 1 < k
    BY <1>3, <1>5
  <2>2. Nth(Free, i - 1) \in Free /\ Rank(Free, Nth(Free, i - 1)) = i - 1
    BY <1>3, <2>1, NthIs
  <2>3. Nth(Unused, i - 1) \in Unused /\ Rank(Unused, Nth(Unused, i - 1)) = i - 1
    BY <1>3, <2>1, NthIs
  <2>4. QED
    BY <2>1, <2>2, <2>3
<1>7. ASSUME NEW c \in new
      PROVE  /\ c \in Conns /\ fdOf(c) \in Free /\ fdOf(c) \in Fds
             /\ Rank(Unused, c) + 1 \in 1 .. k
             /\ Nth(Unused, Rank(Unused, c)) = c
             /\ (Rank(Unused, c) + 1) - 1 = Rank(Unused, c)
  <2>1. Rank(Unused, c) \in 0 .. Cardinality(Unused) - 1
    BY <1>3, RankIs
  <2>2. Rank(Unused, c) \in 0 .. Cardinality(Free) - 1
    BY <1>3, <1>5, <2>1
  <2>3. fdOf(c) \in Free
    BY <1>3, <2>2, NthIs
  <2>4. Nth(Unused, Rank(Unused, c)) = c
    BY <1>3, NthIs
  <2>5. PICK r : r = Rank(Unused, c)
    OBVIOUS
  <2>6. r \in Nat /\ r < k
    BY <1>3, <2>1, <2>5
  <2>7. r + 1 \in 1 .. k /\ (r + 1) - 1 = r
    BY <1>5, <2>6
  <2>8. c \in Conns /\ fdOf(c) \in Fds
    BY <1>3, <2>3
  <2> HIDE DEF fdOf
  <2>9. QED
    BY <2>3, <2>4, <2>5, <2>7, <2>8, Zenon
<1>8. new \in SUBSET Unused
  OBVIOUS
<1> HIDE DEF new, fdOf
<1>9. /\ \A c \in new : conn'[c] = Accepted(fdOf(c))
      /\ \A c \in Conns \ new : conn'[c] = conn[c]
  <2>1. ASSUME NEW c \in new PROVE conn'[c] = Accepted(fdOf(c))
    <3>1. conn'[c] = [NoConn EXCEPT !.st = "open", !.fd = fdOf(c)]
      BY <1>2, <1>7
    <3>2. Accepted(fdOf(c)) = [NoConn EXCEPT !.st = "open", !.fd = fdOf(c)]
      BY <1>7, AcceptedIs
    <3>3. QED
      BY <3>1, <3>2, Zenon
  <2>2. ASSUME NEW c \in Conns \ new PROVE conn'[c] = conn[c]
    BY <1>2
  <2>3. QED
    BY <2>1, <2>2
<1>10. /\ \A c \in Conns : conn'[c] \in EchoConn /\ ConnOK(conn'[c])
       /\ \A c \in Conns : sock'[c] \in Socket
       /\ conn' \in [Conns -> EchoConn] /\ sock' \in [Conns -> Socket]
  <2>1. /\ \A c \in Conns : ConnOK(conn[c]) /\ sock[c] \in Socket /\ conn[c] \in EchoConn
    BY TypeParts DEF IInv
  <2>2. ASSUME NEW c \in Conns PROVE conn'[c] \in EchoConn /\ ConnOK(conn'[c])
    <3>1. CASE c \in new
      <4>1. conn'[c] = Accepted(fdOf(c)) /\ fdOf(c) \in Fds
        BY <1>7, <1>9, <3>1
      <4>2. QED
        BY <4>1, AcceptedIs
    <3>2. CASE c \notin new
      <4>1. conn'[c] = conn[c]
        BY <1>9, <3>2
      <4>2. QED
        BY <2>1, <4>1
    <3>3. QED
      BY <3>1, <3>2
  <2>3. ASSUME NEW c \in Conns PROVE sock'[c] \in Socket
    <3>1. CASE c \in new
      BY <1>2, <3>1, NewRecords
    <3>2. CASE c \notin new
      BY <1>2, <2>1, <3>2
    <3>3. QED
      BY <3>1, <3>2
  <2>4. DOMAIN conn' = Conns /\ conn' = [c \in Conns |-> conn'[c]]
        /\ DOMAIN sock' = Conns /\ sock' = [c \in Conns |-> sock'[c]]
    BY <1>2
  <2>5. QED
    BY <2>2, <2>3, <2>4
<1>11. TypeOK'
  <2>1. /\ echo' \in 0 .. MaxStarts /\ starts' \in 0 .. MaxStarts
        /\ listen' \in Fds \cup {NoFd} /\ stopped' \in BOOLEAN /\ undef' \in BOOLEAN
    BY <1>2 DEF IInv, TypeOK
  <2>2. backlog' \in 0 .. MaxConns
    <3>1. backlog' = backlog - k
      BY <1>2, Zenon
    <3>2. QED
      BY <1>4, <1>5, <3>1
  <2>3. QED
    BY <1>10, <2>1, <2>2, TypeMade
<1>12. ops \in Seq(Op) /\ DOMAIN ops = 1 .. k
       /\ \A i \in 1 .. k : /\ ops[i].kind = "add"
                            /\ ops[i].entry = [fd |-> Nth(Free, i - 1), mask |-> none,
                                               cb |-> "conn", user |-> Nth(Unused, i - 1)]
  <2>1. none \in Masks /\ "conn" \in Callbacks
    BY <1>0 DEF Mask, Masks, Callbacks
  <2>2. ASSUME NEW i \in 1 .. k
        PROVE  /\ ops[i] \in Op /\ ops[i].kind = "add"
               /\ ops[i].entry = [fd |-> Nth(Free, i - 1), mask |-> none,
                                  cb |-> "conn", user |-> Nth(Unused, i - 1)]
    <3>1. Nth(Free, i - 1) \in Fds /\ Nth(Unused, i - 1) \in Nat
      BY <1>3, <1>6, <1>8
    <3>2. PICK f : f = Nth(Free, i - 1)
      OBVIOUS
    <3>3. PICK c : c = Nth(Unused, i - 1)
      OBVIOUS
    <3>5. f \in Fds /\ c \in Nat
      BY <3>1, <3>2, <3>3
    <3>6. /\ Add(f, none, "conn", c) \in Op /\ Add(f, none, "conn", c).kind = "add"
          /\ Add(f, none, "conn", c).entry = [fd |-> f, mask |-> none, cb |-> "conn", user |-> c]
      BY <2>1, <3>5, AddIs
    <3>7. ops[i] = Add(f, none, "conn", c)
      BY <1>0, <3>2, <3>3
    <3> HIDE DEF ops
    <3>8. QED
      BY <1>0, <3>2, <3>3, <3>6, <3>7, Zenon
  <2>3. DOMAIN ops = 1 .. k /\ ops = [i \in 1 .. k |-> ops[i]]
    OBVIOUS
  <2> HIDE DEF ops
  <2>4. ops \in Seq(Op)
    <3>1. ops \in [1 .. k -> Op]
      BY <2>2, <2>3
    <3>2. QED
      BY <1>5, <3>1
  <2>5. QED
    BY <2>2, <2>3, <2>4
<1> HIDE DEF ops
<1>13. ASSUME NEW i \in 1 .. k PROVE ops[i].entry.fd = Nth(Free, i - 1)
  <2>1. PICK f : f = Nth(Free, i - 1)
    OBVIOUS
  <2>2. PICK c : c = Nth(Unused, i - 1)
    OBVIOUS
  <2>3. ops[i].entry = [fd |-> f, mask |-> none, cb |-> "conn", user |-> c]
    BY <1>12, <2>1, <2>2, Zenon
  <2>4. PICK e : e = ops[i].entry
    OBVIOUS
  <2>5. e.fd = f
    BY <2>3, <2>4
  <2>6. QED
    BY <2>1, <2>4, <2>5, Zenon
<1>14. After(Expected, ops) = Expected \cup {ops[i].entry : i \in DOMAIN ops}
  <2>1. ASSUME NEW i \in DOMAIN ops, NEW j \in DOMAIN ops,
               ops[i].entry.fd = ops[j].entry.fd
        PROVE  i = j
    <3>1. i \in 1 .. k /\ j \in 1 .. k
      BY <1>12
    <3>2. Nth(Free, i - 1) = Nth(Free, j - 1)
      BY <1>13, <2>1, <3>1
    <3>3. i - 1 = j - 1
      <4>1. Rank(Free, Nth(Free, i - 1)) = i - 1 /\ Rank(Free, Nth(Free, j - 1)) = j - 1
        BY <1>6, <3>1
      <4>2. QED
        BY <3>2, <4>1, Zenon
    <3>4. QED
      BY <3>1, <3>3
  <2>2. ASSUME NEW i \in DOMAIN ops, NEW e \in Expected PROVE e.fd # ops[i].entry.fd
    <3>1. i \in 1 .. k
      BY <1>12
    <3>2. Nth(Free, i - 1) \in Free /\ ops[i].entry.fd = Nth(Free, i - 1)
      BY <1>6, <1>13, <3>1
    <3>3. QED
      BY <1>3, <3>2
  <2>3. QED
    BY <1>12, <2>1, <2>2, AfterAdds
<1>15. Live' = Live \cup new
  <2>1. ASSUME NEW c \in Conns PROVE c \in Live' <=> c \in Live \cup new
    <3>1. CASE c \in new
      <4>1. conn'[c].st = "open"
        <5>1. conn'[c] = Accepted(fdOf(c)) /\ fdOf(c) \in Fds
          BY <1>7, <1>9, <3>1, Zenon
        <5>2. QED
          BY <5>1, AcceptedIs, Zenon
      <4>2. QED
        BY <3>1, <4>1 DEF Live
    <3>2. CASE c \notin new
      BY <1>9, <3>2 DEF Live
    <3>3. QED
      BY <3>1, <3>2
  <2>2. Live' \in SUBSET Conns /\ Live \in SUBSET Conns /\ new \in SUBSET Conns
    BY <1>7 DEF Live
  <2>3. QED
    BY <2>1, <2>2
<1>16. \A c \in Live : c \notin new /\ EntryOf(c)' = EntryOf(c)
  <2>1. \A c \in Live : c \in Conns /\ c \notin Unused
    BY DEF Live, Unused
  <2>2. \A c \in Live : conn'[c] = conn[c] /\ c \notin new
    BY <1>8, <1>9, <2>1
  <2>3. QED
    BY <2>2 DEF EntryOf
<1>17. ASSUME NEW c \in new
       PROVE EntryOf(c)' = ops[Rank(Unused, c) + 1].entry
  <2>1. conn'[c] = Accepted(fdOf(c)) /\ fdOf(c) \in Fds /\ c \in Conns
    BY <1>7, <1>9
  <2>2. conn'[c].st = "open" /\ conn'[c].fd = fdOf(c) /\ conn'[c].out = 0
    BY <2>1, AcceptedIs
  <2>3. EntryOf(c)' = [fd |-> fdOf(c), mask |-> Mask(conn'[c].out > 0), cb |-> "conn", user |-> c]
        /\ Mask(conn'[c].out > 0) = {"RD"} \cup (IF conn'[c].out > 0 THEN {"WR"} ELSE {})
    BY <2>1, <2>2, OpenEntry
  <2>4. Mask(conn'[c].out > 0) = Mask(FALSE)
    BY <2>2, <2>3 DEF Mask
  <2>5. EntryOf(c)' = [fd |-> fdOf(c), mask |-> none, cb |-> "conn", user |-> c]
    BY <1>0, <2>3, <2>4, Zenon
  <2>6. PICK i : i = Rank(Unused, c) + 1
    OBVIOUS
  <2>7. i \in 1 .. k /\ i - 1 = Rank(Unused, c) /\ Nth(Unused, i - 1) = c
        /\ fdOf(c) = Nth(Free, i - 1)
    BY <1>7, <2>6 DEF fdOf
  <2>8. ops[i].entry = [fd |-> Nth(Free, i - 1), mask |-> none,
                        cb |-> "conn", user |-> Nth(Unused, i - 1)]
    BY <1>12, <2>7
  <2>9. QED
    BY <2>5, <2>6, <2>7, <2>8, Zenon
<1>18. {EntryOf(c)' : c \in new} = {ops[i].entry : i \in DOMAIN ops}
  <2>1. \A c \in new : \E i \in DOMAIN ops : EntryOf(c)' = ops[i].entry
    BY <1>7, <1>12, <1>17
  <2>2. ASSUME NEW i \in DOMAIN ops PROVE \E c \in new : ops[i].entry = EntryOf(c)'
    <3>1. i \in 1 .. k
      BY <1>12
    <3>2. PICK c : c = Nth(Unused, i - 1)
      OBVIOUS
    <3>3. c \in new /\ Rank(Unused, c) = i - 1
      BY <1>6, <3>1, <3>2
    <3>4. Rank(Unused, c) + 1 = i
      BY <3>1, <3>3
    <3>5. EntryOf(c)' = ops[Rank(Unused, c) + 1].entry
      BY <1>17, <3>3
    <3>6. EntryOf(c)' = ops[i].entry
      BY <3>4, <3>5, Zenon
    <3>7. QED
      BY <3>3, <3>6
  <2>3. QED
    BY <2>1, <2>2
<1>19. Expected' = Expected \cup {EntryOf(c)' : c \in new}
  <2> DEFINE L == IF listen = NoFd THEN {}
                  ELSE {[fd |-> listen, user |-> echo, mask |-> {"RD"}, cb |-> "listen"]}
  <2>1. L' = L
    BY <1>2
  <2>2. Expected' = {EntryOf(c)' : c \in Live'} \cup L
    BY <2>1 DEF Expected
  <2>3. Expected = {EntryOf(c) : c \in Live} \cup L
    BY DEF Expected
  <2>4. {EntryOf(c)' : c \in Live'} = {EntryOf(c)' : c \in Live} \cup {EntryOf(c)' : c \in new}
    BY <1>15
  <2>5. {EntryOf(c)' : c \in Live} = {EntryOf(c) : c \in Live}
    BY <1>16
  <2> HIDE DEF L
  <2>6. QED
    BY <2>2, <2>3, <2>4, <2>5
<1>20. Evolves
  <2>1. ASSUME NEW c \in Conns
        PROVE  /\ conn[c].st = "connecting" => conn'[c].st \in {"connecting", "open", "freed"}
               /\ conn[c].st = "open" => conn'[c].st \in {"open", "freed"}
               /\ conn[c].st = "freed" => conn'[c].st = "freed"
    <3>1. CASE c \in new
      BY <1>8, <3>1 DEF Unused
    <3>2. CASE c \notin new
      BY <1>9, <3>2
    <3>3. QED
      BY <3>1, <3>2
  <2>2. QED
    BY <2>1 DEF Evolves
<1>21. AskedFor([np EXCEPT !.calls = Tail(@)], ops)
  <2>1. undef' = FALSE
    <3>1. undef \in BOOLEAN
      BY DEF IInv, TypeOK
    <3>2. QED
      BY <3>1, Zenon
  <2>2. echo' = 0 => listen' = NoFd
    BY <1>2 DEF IInv
  <2>3. After(Expected, ops) = Expected'
    BY <1>14, <1>18, <1>19
  <2>4. QED
    BY <1>2, <1>12, <1>20, <2>1, <2>2, <2>3 DEF AskedFor
<1>22. \A e : Alive(e) => Alive(e)'
  BY <1>2, <1>15 DEF Alive
<1>23. stopped' = stopped
  OBVIOUS
<1>24. QED
  BY <1>11, <1>21, <1>22, <1>23, CallStep

-----------------------------------------------------------------------------
(* The commands *)

(* What a command that starts leaves *)
LEMMA StartIs ==
  ASSUME IInv, Start
  PROVE  /\ echo' \in 0 .. MaxStarts /\ starts' \in 0 .. MaxStarts /\ echo' # 0
         /\ echo' = Started /\ Started \in Nat
         /\ listen = NoFd \/ echo' = echo
<1>1. /\ Started <= MaxStarts /\ echo' = Started /\ starts' = Max({starts, Started})
  BY DEF Start
<1>2. echo \in 0 .. MaxStarts /\ starts \in 0 .. MaxStarts /\ MaxStarts \in Nat
  BY Bounds DEF IInv, TypeOK
<1>3. Started \in 0 .. MaxStarts /\ Started # 0 /\ (echo # 0 => Started = echo)
  BY <1>1, <1>2 DEF Started
<1> DEFINE S == {starts, Started}
<1>4. \E m \in S : \A x \in S : m >= x
  BY <1>2, <1>3
<1>5. Max(S) \in S
  BY <1>4 DEF Max
<1>6. Max(S) \in 0 .. MaxStarts
  BY <1>2, <1>3, <1>5
<1>7. listen = NoFd \/ echo' = echo
  BY <1>1, <1>3 DEF IInv
<1>8. QED
  BY <1>1, <1>2, <1>3, <1>6, <1>7

(* A descriptor that is free *)
LEMMA FreeIs ==
  ASSUME Free # {}
  PROVE  Min(Free) \in Free /\ Min(Free) \in Fds
BY FreeFds, MinIs

(* A connection that is not used yet *)
LEMMA UnusedIs ==
  ASSUME Unused # {}
  PROVE  Min(Unused) \in Conns /\ Min(Unused) \notin Live /\ conn[Min(Unused)].st = "none"
<1>1. Min(Unused) \in Unused
  BY UnusedConns, MinIs
<1>2. QED
  BY <1>1 DEF Unused, Live

(* No entry of the listener that is one of the table is alive before there *)
(* is a listener.                                                          *)
LEMMA AliveStays ==
  ASSUME listen = NoFd \/ (echo' = echo /\ listen' = listen), Live \in SUBSET Live'
  PROVE  \A e : Alive(e) /\ e.fd \in Fds => Alive(e)'
<1>1. NoFd \notin Fds
  BY EchoAssumption DEF NoFd
<1>2. ASSUME NEW e, Alive(e), e.fd \in Fds PROVE Alive(e)'
  <2>1. CASE e.cb = "listen"
    <3>1. e.user = echo /\ listen = e.fd
      BY <1>2, <2>1 DEF Alive
    <3>2. listen # NoFd
      BY <1>1, <1>2, <3>1
    <3>3. QED
      BY <2>1, <3>1, <3>2 DEF Alive
  <2>2. CASE e.cb # "listen"
    BY <1>2, <2>2 DEF Alive
  <2>3. QED
    BY <2>1, <2>2
<1>3. QED
  BY <1>2

(* It is not undefined afterwards. *)
LEMMA Defined ==
  ASSUME IInv, ~undef, undef' = undef
  PROVE  undef' = FALSE
<1>1. undef \in BOOLEAN
  BY DEF IInv, TypeOK
<1>2. QED
  BY <1>1, Zenon

(* tcp_listen or tcp_connect fails *)
LEMMA StartFailsInv ==
  ASSUME IInv, ~undef, StartFails
  PROVE  IInv'
<1>1. Start /\ UNCHANGED <<np, listen, backlog, conn, sock, stopped, undef>>
  BY DEF StartFails
<1>2. /\ echo' \in 0 .. MaxStarts /\ starts' \in 0 .. MaxStarts /\ echo' # 0
      /\ listen = NoFd \/ echo' = echo
  BY <1>1, StartIs
<1>3. TypeOK'
  BY <1>1, <1>2 DEF IInv, TypeOK
<1>4. Live' = Live /\ \A c : EntryOf(c)' = EntryOf(c)
  BY <1>1 DEF Live, EntryOf
<1>5. Expected' = Expected
  BY <1>1, <1>2, <1>4 DEF Expected
<1>6. \A e : Alive(e) /\ e.fd \in Fds => Alive(e)'
  BY <1>1, <1>2, <1>4, AliveStays
<1>7. undef' = FALSE
  BY <1>1, Defined
<1>8. Polls(np) /\ np.calls = np'.calls /\ np'.entries = np.entries
  BY <1>1 DEF IInv
<1>9. Fits(Elems(np.entries))' /\ CalledOnce(np.calls)'
  BY <1>1 DEF IInv, Fits, CalledOnce
<1>10. ASSUME ~stopped', NEW i \in DOMAIN np'.calls PROVE Callable(np.calls[i])'
  <2>1. PICK call : call = np.calls[i]
    OBVIOUS
  <2>2. PICK e : e = np.entries[call.at]
    OBVIOUS
  <2>3. Callable(call)
    BY <1>1, <1>10, <2>1 DEF IInv, CallsLive
  <2>4. call.at \in DOMAIN np.entries /\ e.fd = call.fd /\ Alive(e)
    BY <2>2, <2>3 DEF Callable
  <2>5. np.entries \in Seq(Entry)
    BY <1>8 DEF Polls, Tables
  <2>6. e \in Entry
    BY <2>2, <2>4, <2>5
  <2>7. e.fd \in Fds
    BY <2>6 DEF Entry
  <2>8. Alive(e)'
    BY <1>6, <2>4, <2>7
  <2>9. np'.calls[i] = call /\ np'.entries[call.at] = e
    BY <1>8, <2>1, <2>2
  <2>10. Callable(call)'
    BY <1>8, <2>4, <2>8, <2>9 DEF Callable, Alive
  <2>11. QED
    BY <2>9, <2>10 DEF Callable, Alive
<1>11. CallsLive'
  BY <1>7, <1>10 DEF CallsLive
<1>12. QED
  BY <1>1, <1>2, <1>3, <1>5, <1>9, <1>11 DEF IInv

(* echo_start_leader *)
LEMMA StartLeaderInv ==
  ASSUME IInv, ~undef, StartLeader
  PROVE  IInv'
<1>1. /\ Start /\ listen = NoFd /\ Free # {}
      /\ listen' = Min(Free) /\ backlog' = 0
      /\ np' = Asked(np, <<Add(Min(Free), {"RD"}, "listen", Started)>>)
      /\ UNCHANGED <<conn, sock, stopped, undef>>
  BY DEF StartLeader
<1>2. /\ echo' \in 0 .. MaxStarts /\ starts' \in 0 .. MaxStarts /\ echo' # 0
      /\ echo' = Started /\ Started \in Nat
  BY <1>1, StartIs
<1>3. PICK f : f = Min(Free)
  OBVIOUS
<1>4. f \in Free /\ f \in Fds
  BY <1>1, <1>3, FreeIs
<1>5. TypeOK'
  <2>1. 0 \in 0 .. MaxConns
    BY Bounds
  <2>2. QED
    BY <1>1, <1>2, <1>3, <1>4, <2>1 DEF IInv, TypeOK
<1>6. Live' = Live /\ \A c : EntryOf(c)' = EntryOf(c)
  BY <1>1 DEF Live, EntryOf
<1> DEFINE op == Add(f, {"RD"}, "listen", Started)
           e == [fd |-> f, mask |-> {"RD"}, cb |-> "listen", user |-> Started]
<1>7. op \in Op /\ op.kind = "add" /\ op.entry = e
  <2>1. {"RD"} \in Masks /\ "listen" \in Callbacks
    BY DEF Masks, Callbacks
  <2>2. QED
    BY <1>2, <1>4, <2>1, AddIs
<1>8. np' = Asked(np, <<op>>)
  BY <1>1, <1>3
<1> HIDE DEF op
<1>9. e.fd = f
  OBVIOUS
<1>10. f # NoFd
  BY <1>4, EchoAssumption DEF NoFd
<1>11. Expected' = Expected \cup {e}
  <2>1. Expected = {EntryOf(c) : c \in Live}
    BY <1>1 DEF Expected
  <2>2. Expected' = {EntryOf(c)' : c \in Live'} \cup {[fd |-> f, user |-> Started, mask |-> {"RD"}, cb |-> "listen"]}
    BY <1>1, <1>2, <1>3, <1>10 DEF Expected
  <2>3. {EntryOf(c)' : c \in Live'} = {EntryOf(c) : c \in Live}
    BY <1>6
  <2>4. [fd |-> f, user |-> Started, mask |-> {"RD"}, cb |-> "listen"] = e
    OBVIOUS
  <2> HIDE DEF e
  <2>5. QED
    BY <2>1, <2>2, <2>3, <2>4
<1> HIDE DEF e
<1>12. Changed(Expected, op) = Expected \cup {e}
  <2>1. \A x \in Expected : x.fd # op.entry.fd
    BY <1>4, <1>7, <1>9, FreeFds
  <2>2. QED
    BY <1>7, <2>1 DEF Changed
<1>13. <<op>> \in Seq(Op) /\ After(Expected, <<op>>) = Expected'
  BY <1>7, <1>11, <1>12, AfterOne
<1>14. Evolves
  BY <1>1 DEF Evolves
<1>15. undef' = FALSE
  BY <1>1, Defined
<1>16. AskedFor(np, <<op>>)
  BY <1>2, <1>8, <1>13, <1>14, <1>15 DEF AskedFor
<1>17. \A x : Alive(x) /\ x.fd \in Fds => Alive(x)'
  <2>1. Live \in SUBSET Live'
    BY <1>6
  <2>2. listen = NoFd
    BY <1>1
  <2>3. QED
    BY <2>1, <2>2, AliveStays
<1>18. stopped' = stopped
  BY <1>1
<1>19. QED
  BY <1>5, <1>16, <1>17, <1>18, CommandStep

(* The connections a client starts with *)
Answered(fd) == [st |-> "open", fd |-> fd, client |-> TRUE, want |-> TRUE, out |-> 1]
Asking(fd) == [st |-> "connecting", fd |-> fd, client |-> TRUE, want |-> FALSE, out |-> 0]

(* The one that is open has its greeting to write. *)
LEMMA AnsweredIs ==
  ASSUME NEW fd \in Fds
  PROVE  /\ Answered(fd) = [NoConn EXCEPT !.st = "open", !.fd = fd, !.client = TRUE,
                                          !.want = TRUE, !.out = 1]
         /\ Answered(fd) \in EchoConn /\ ConnOK(Answered(fd))
         /\ Answered(fd).st = "open" /\ Answered(fd).fd = fd /\ Answered(fd).out = 1
<1>1. NoConn = [st |-> "none", fd |-> NoFd, client |-> FALSE, want |-> FALSE, out |-> 0]
  BY NewRecords
<1>2. Answered(fd) = [NoConn EXCEPT !.st = "open", !.fd = fd, !.client = TRUE,
                                    !.want = TRUE, !.out = 1]
  <2>1. PICK f : f = FALSE
    OBVIOUS
  <2>2. PICK t : t = TRUE
    OBVIOUS
  <2> DEFINE r == [st |-> "none", fd |-> NoFd, client |-> f, want |-> f, out |-> 0]
             r1 == [st |-> "open", fd |-> NoFd, client |-> f, want |-> f, out |-> 0]
             r2 == [st |-> "open", fd |-> fd, client |-> f, want |-> f, out |-> 0]
             r3 == [st |-> "open", fd |-> fd, client |-> t, want |-> f, out |-> 0]
             r4 == [st |-> "open", fd |-> fd, client |-> t, want |-> t, out |-> 0]
             r5 == [st |-> "open", fd |-> fd, client |-> t, want |-> t, out |-> 1]
  <2>3. NoConn = r
    BY <1>1, <2>1
  <2>4. [r EXCEPT !.st = "open"] = r1 /\ [r1 EXCEPT !.fd = fd] = r2
    OBVIOUS
  <2>5. [r2 EXCEPT !.client = t] = r3 /\ [r3 EXCEPT !.want = t] = r4
    OBVIOUS
  <2>6. [r4 EXCEPT !.out = 1] = r5
    OBVIOUS
  <2>7. Answered(fd) = r5
    BY <2>2, Zenon DEF Answered
  <2> HIDE DEF r, r1, r2, r3, r4, r5
  <2>8. [NoConn EXCEPT !.st = "open", !.fd = fd, !.client = t, !.want = t, !.out = 1] = r5
    BY <2>3, <2>4, <2>5, <2>6, Zenon
  <2>9. QED
    BY <2>2, <2>7, <2>8, Zenon
<1>3. 1 \in 0 .. Cap
  BY Bounds
<1>4. /\ Answered(fd) \in EchoConn
      /\ Answered(fd).st = "open" /\ Answered(fd).fd = fd /\ Answered(fd).out = 1
  BY <1>3 DEF Answered, EchoConn
<1>5. ConnOK(Answered(fd))
  <2>1. Answered(fd).want = TRUE
    BY DEF Answered
  <2>2. (Answered(fd).out > 0) = TRUE
    BY <1>4
  <2>3. QED
    BY <1>4, <2>1, <2>2, Zenon DEF ConnOK
<1>6. QED
  BY <1>2, <1>4, <1>5

(* The one that is connecting has nothing to write yet. *)
LEMMA AskingIs ==
  ASSUME NEW fd \in Fds
  PROVE  /\ Asking(fd) = [NoConn EXCEPT !.st = "connecting", !.fd = fd, !.client = TRUE]
         /\ Asking(fd) \in EchoConn /\ ConnOK(Asking(fd))
         /\ Asking(fd).st = "connecting" /\ Asking(fd).fd = fd
<1>1. NoConn = [st |-> "none", fd |-> NoFd, client |-> FALSE, want |-> FALSE, out |-> 0]
  BY NewRecords
<1>2. Asking(fd) = [NoConn EXCEPT !.st = "connecting", !.fd = fd, !.client = TRUE]
  <2>1. PICK f : f = FALSE
    OBVIOUS
  <2>2. PICK t : t = TRUE
    OBVIOUS
  <2> DEFINE r == [st |-> "none", fd |-> NoFd, client |-> f, want |-> f, out |-> 0]
             r1 == [st |-> "connecting", fd |-> NoFd, client |-> f, want |-> f, out |-> 0]
             r2 == [st |-> "connecting", fd |-> fd, client |-> f, want |-> f, out |-> 0]
             r3 == [st |-> "connecting", fd |-> fd, client |-> t, want |-> f, out |-> 0]
  <2>3. NoConn = r
    BY <1>1, <2>1
  <2>4. [r EXCEPT !.st = "connecting"] = r1 /\ [r1 EXCEPT !.fd = fd] = r2
    OBVIOUS
  <2>5. [r2 EXCEPT !.client = t] = r3
    OBVIOUS
  <2>6. Asking(fd) = r3
    BY <2>1, <2>2, Zenon DEF Asking
  <2> HIDE DEF r, r1, r2, r3
  <2>7. [NoConn EXCEPT !.st = "connecting", !.fd = fd, !.client = t] = r3
    BY <2>3, <2>4, <2>5, Zenon
  <2>8. QED
    BY <2>2, <2>6, <2>7, Zenon
<1>3. 0 \in 0 .. Cap
  BY Bounds
<1>4. /\ Asking(fd) \in EchoConn
      /\ Asking(fd).st = "connecting" /\ Asking(fd).fd = fd /\ Asking(fd).out = 0
  BY <1>3 DEF Asking, EchoConn
<1>5. ConnOK(Asking(fd))
  <2>1. Asking(fd).want = FALSE
    BY DEF Asking
  <2>2. (Asking(fd).out > 0) = FALSE
    BY <1>4
  <2>3. QED
    BY <1>4, <2>1, <2>2, Zenon DEF ConnOK
<1>6. QED
  BY <1>2, <1>4, <1>5

(* A connection that starts with an entry *)
LEMMA ClientInv ==
  ASSUME IInv, ~undef, Start, NEW c \in Conns, c \notin Live, conn[c].st = "none",
         NEW f \in Free, NEW r \in EchoConn, ConnOK(r), r.st \in {"open", "connecting"},
         conn' = [conn EXCEPT ![c] = r], sock' \in [Conns -> Socket],
         UNCHANGED <<listen, backlog, stopped, undef>>,
         NEW op \in Op, np' = Asked(np, <<op>>),
         op.kind = "add", op.entry = EntryOf(c)', op.entry.fd = f
  PROVE  IInv'
<1>1. conn \in [Conns -> EchoConn] /\ \A d \in Conns : ConnOK(conn[d])
  BY TypeParts DEF IInv
<1>2. /\ echo' \in 0 .. MaxStarts /\ starts' \in 0 .. MaxStarts /\ echo' # 0
      /\ listen = NoFd \/ echo' = echo
  BY StartIs
<1>3. conn'[c] = r /\ conn' \in [Conns -> EchoConn] /\ \A d \in Conns \ {c} : conn'[d] = conn[d]
  BY <1>1
<1>4. OnlyConn(c)
  BY <1>2, <1>3 DEF OnlyConn
<1>5. TypeOK'
  <2>1. /\ listen' \in Fds \cup {NoFd} /\ backlog' \in 0 .. MaxConns
        /\ stopped' \in BOOLEAN /\ undef' \in BOOLEAN
    BY DEF IInv, TypeOK
  <2>2. ASSUME NEW d \in Conns PROVE ConnOK(conn'[d])
    <3>1. CASE d = c
      <4>1. conn'[d] = r
        BY <1>3, <3>1
      <4>2. QED
        BY <4>1
    <3>2. CASE d # c
      <4>1. conn'[d] = conn[d]
        BY <1>3, <3>2
      <4>2. QED
        BY <1>1, <4>1
    <3>3. QED
      BY <3>1, <3>2
  <2>3. QED
    BY <1>2, <1>3, <2>1, <2>2, TypeMade
<1>6. c \in Live'
  BY <1>3 DEF Live
<1>7. Expected' = Changed(Expected, op)
  BY <1>4, <1>6, ExpectedJoin
<1>8. <<op>> \in Seq(Op) /\ After(Expected, <<op>>) = Expected'
  BY <1>7, AfterOne
<1>9. Evolves
  BY <1>3 DEF Evolves
<1>10. undef' = FALSE
  BY Defined
<1>11. AskedFor(np, <<op>>)
  BY <1>2, <1>8, <1>9, <1>10 DEF AskedFor
<1>12. Live \in SUBSET Live'
  BY <1>4, <1>6, OthersStay
<1>13. \A x : Alive(x) /\ x.fd \in Fds => Alive(x)'
  BY <1>2, <1>12, AliveStays
<1>14. stopped' = stopped
  OBVIOUS
<1>15. QED
  BY <1>5, <1>11, <1>13, <1>14, CommandStep

(* echo_start_client *)
LEMMA StartClientInv ==
  ASSUME IInv, ~undef, StartClient
  PROVE  IInv'
<1>1. PICK c : c = Min(Unused)
  OBVIOUS
<1>2. PICK f : f = Min(Free)
  OBVIOUS
<1>3. /\ Start /\ Unused # {} /\ Free # {} /\ UNCHANGED <<listen, backlog, stopped, undef>>
      /\ \/ /\ conn' = [conn EXCEPT ![c] =
                 [NoConn EXCEPT !.st = "open", !.fd = f, !.client = TRUE,
                                !.want = TRUE, !.out = 1]]
            /\ sock' = [sock EXCEPT ![c].up = TRUE]
            /\ np' = Asked(np, <<Add(f, {"RD", "WR"}, "conn", c)>>)
         \/ /\ conn' = [conn EXCEPT ![c] =
                 [NoConn EXCEPT !.st = "connecting", !.fd = f, !.client = TRUE]]
            /\ np' = Asked(np, <<Add(f, {"WR"}, "connecting", c)>>)
            /\ UNCHANGED sock
  BY <1>1, <1>2 DEF StartClient
<1>4. c \in Conns /\ c \notin Live /\ conn[c].st = "none" /\ c \in Nat
  <2>1. c \in Conns /\ c \notin Live /\ conn[c].st = "none"
    BY <1>1, <1>3, UnusedIs
  <2>2. QED
    BY <2>1 DEF Conns
<1>5. f \in Free /\ f \in Fds
  BY <1>2, <1>3, FreeIs
<1>6. conn \in [Conns -> EchoConn] /\ sock \in [Conns -> Socket]
  BY TypeParts DEF IInv
<1>7. /\ {"RD", "WR"} \in Masks /\ {"WR"} \in Masks
      /\ "conn" \in Callbacks /\ "connecting" \in Callbacks
  BY DEF Masks, Callbacks
<1>8. CASE /\ conn' = [conn EXCEPT ![c] =
                 [NoConn EXCEPT !.st = "open", !.fd = f, !.client = TRUE,
                                !.want = TRUE, !.out = 1]]
           /\ sock' = [sock EXCEPT ![c].up = TRUE]
           /\ np' = Asked(np, <<Add(f, {"RD", "WR"}, "conn", c)>>)
  <2>1. PICK r : r = Answered(f)
    OBVIOUS
  <2>2. conn' = [conn EXCEPT ![c] = r]
    BY <1>5, <1>8, <2>1, AnsweredIs, Zenon
  <2>3. r \in EchoConn /\ ConnOK(r) /\ r.st = "open" /\ r.fd = f /\ r.out = 1
    BY <1>5, <2>1, AnsweredIs
  <2>4. sock' \in [Conns -> Socket]
    <3>1. PICK t : t = TRUE
      OBVIOUS
    <3>2. t \in BOOLEAN /\ sock' = [sock EXCEPT ![c].up = t]
      BY <1>8, <3>1
    <3>3. 0 \in 0 .. Bytes /\ 0 \in 0 .. Room
      BY Bounds
    <3>4. QED
      BY <1>4, <1>6, <3>2, <3>3, SocketPut
  <2> DEFINE op == Add(f, {"RD", "WR"}, "conn", c)
  <2>5. op \in Op /\ op.kind = "add"
        /\ op.entry = [fd |-> f, mask |-> {"RD", "WR"}, cb |-> "conn", user |-> c]
    BY <1>4, <1>5, <1>7, AddIs
  <2>6. np' = Asked(np, <<op>>)
    BY <1>8
  <2> HIDE DEF op
  <2>7. conn'[c] = r
    BY <1>4, <1>6, <2>2
  <2>8. op.entry = EntryOf(c)'
    <3>1. conn'[c].st = "open" /\ conn'[c].fd = f /\ conn'[c].out = 1
      BY <2>3, <2>7
    <3>2. /\ EntryOf(c)' = [fd |-> f, mask |-> Mask(conn'[c].out > 0), cb |-> "conn", user |-> c]
          /\ Mask(conn'[c].out > 0) = {"RD"} \cup (IF conn'[c].out > 0 THEN {"WR"} ELSE {})
      BY <1>4, <1>5, <3>1, OpenEntry
    <3>3. Mask(conn'[c].out > 0) = {"RD", "WR"}
      BY <3>1, <3>2
    <3>4. QED
      BY <2>5, <3>2, <3>3, Zenon
  <2>9. op.entry.fd = f
    BY <2>5
  <2>10. QED
    BY <1>3, <1>4, <1>5, <2>2, <2>3, <2>4, <2>5, <2>6, <2>8, <2>9, ClientInv
<1>9. CASE /\ conn' = [conn EXCEPT ![c] =
                 [NoConn EXCEPT !.st = "connecting", !.fd = f, !.client = TRUE]]
           /\ np' = Asked(np, <<Add(f, {"WR"}, "connecting", c)>>)
           /\ UNCHANGED sock
  <2>1. PICK r : r = Asking(f)
    OBVIOUS
  <2>2. conn' = [conn EXCEPT ![c] = r]
    BY <1>5, <1>9, <2>1, AskingIs, Zenon
  <2>3. r \in EchoConn /\ ConnOK(r) /\ r.st = "connecting" /\ r.fd = f
    BY <1>5, <2>1, AskingIs
  <2>4. sock' \in [Conns -> Socket]
    BY <1>6, <1>9
  <2> DEFINE op == Add(f, {"WR"}, "connecting", c)
  <2>5. op \in Op /\ op.kind = "add"
        /\ op.entry = [fd |-> f, mask |-> {"WR"}, cb |-> "connecting", user |-> c]
    BY <1>4, <1>5, <1>7, AddIs
  <2>6. np' = Asked(np, <<op>>)
    BY <1>9
  <2> HIDE DEF op
  <2>7. conn'[c] = r
    BY <1>4, <1>6, <2>2
  <2>8. op.entry = EntryOf(c)'
    <3>1. conn'[c].st = "connecting" /\ conn'[c].fd = f
      BY <2>3, <2>7
    <3>2. PICK more : more = {"RD"} \cup (IF conn'[c].out > 0 THEN {"WR"} ELSE {})
      OBVIOUS
    <3>3. EntryOf(c)' = [fd |-> conn'[c].fd, user |-> c,
                         mask |-> IF conn'[c].st = "connecting" THEN {"WR"} ELSE more,
                         cb |-> IF conn'[c].st = "connecting" THEN "connecting" ELSE "conn"]
      BY <3>2 DEF EntryOf
    <3>4. QED
      BY <2>5, <3>1, <3>3
  <2>9. op.entry.fd = f
    BY <2>5
  <2>10. QED
    BY <1>3, <1>4, <1>5, <2>2, <2>3, <2>4, <2>5, <2>6, <2>8, <2>9, ClientInv
<1>10. QED
  BY <1>3, <1>8, <1>9

(* echo_destroy *)
LEMMA StopInv ==
  ASSUME IInv, ~undef, Stop
  PROVE  IInv'
<1> DEFINE fds == {conn[c].fd : c \in Live} \cup ({listen} \ {NoFd})
           ops == [i \in 1 .. Cardinality(fds) |-> Del(Nth(fds, i - 1))]
<1>1. /\ np' = Asked(np, ops)
      /\ conn' = [c \in Conns |->
           IF c \in Live THEN [NoConn EXCEPT !.st = "freed"] ELSE conn[c]]
      /\ sock' = [c \in Conns |-> NoSock]
      /\ listen' = NoFd /\ backlog' = 0 /\ echo' = 0 /\ stopped' = np.inTick
      /\ UNCHANGED <<starts, undef>>
  BY DEF Stop
<1>2. fds \in SUBSET Fds
  BY Descriptors
<1>3. \A e \in Expected : e.fd \in fds
  <2>1. ASSUME NEW e \in Expected PROVE e.fd \in fds
    <3>1. CASE \E c \in Live : e.fd = conn[c].fd
      BY <3>1
    <3>2. CASE listen # NoFd /\ e.fd = listen
      BY <3>2
    <3>3. QED
      BY <3>1, <3>2, ExpectedFd
  <2>2. QED
    BY <2>1
<1> HIDE DEF fds
<1>4. IsFiniteSet(fds) /\ Cardinality(fds) \in Nat /\ fds \in SUBSET Nat
  BY <1>2, EchoAssumption, FS_Subset, FS_CardinalityType
<1>5. /\ DOMAIN ops = 1 .. Cardinality(fds)
      /\ \A i \in DOMAIN ops : ops[i] \in Op /\ ops[i].kind = "del"
                               /\ ops[i].entry.fd = Nth(fds, i - 1)
  <2>1. ASSUME NEW i \in 1 .. Cardinality(fds)
        PROVE  ops[i] \in Op /\ ops[i].kind = "del" /\ ops[i].entry.fd = Nth(fds, i - 1)
    <3>1. i - 1 \in 0 .. Cardinality(fds) - 1
      BY <1>4
    <3>2. Nth(fds, i - 1) \in Fds
      BY <1>2, <1>4, <3>1, NthIs
    <3>3. ops[i] = Del(Nth(fds, i - 1))
      OBVIOUS
    <3>4. QED
      BY <3>2, <3>3, DelIs
  <2>2. QED
    BY <2>1
<1>6. ops \in Seq(Op)
  <2>1. ops \in [1 .. Cardinality(fds) -> Op]
    <3>1. ops = [i \in 1 .. Cardinality(fds) |-> ops[i]]
      OBVIOUS
    <3> HIDE DEF ops
    <3>2. QED
      BY <1>5, <3>1
  <2> HIDE DEF ops
  <2>2. QED
    BY <1>4, <2>1
<1> HIDE DEF ops
<1>7. After(Expected, ops) = {}
  <2>1. ASSUME NEW e \in Expected PROVE \E i \in DOMAIN ops : ops[i].entry.fd = e.fd
    <3>1. PICK r : r = Rank(fds, e.fd)
      OBVIOUS
    <3>2. r \in 0 .. Cardinality(fds) - 1
      BY <1>3, <1>4, <3>1, RankIs
    <3>3. r + 1 \in 1 .. Cardinality(fds) /\ (r + 1) - 1 = r
      BY <1>4, <3>2
    <3>4. Nth(fds, r) = e.fd
      BY <1>3, <1>4, <3>1, NthIs
    <3>5. QED
      BY <1>5, <3>3, <3>4
  <2>2. QED
    BY <1>5, <1>6, <2>1, AfterDels
<1>8. conn \in [Conns -> EchoConn] /\ \A c \in Conns : ConnOK(conn[c])
  BY TypeParts DEF IInv
<1>9. \A c \in Conns : conn'[c] = IF c \in Live THEN Freed ELSE conn[c]
  BY <1>1, FreedIs
<1>10. /\ \A c \in Conns : conn'[c] \in EchoConn /\ ConnOK(conn'[c])
       /\ conn' \in [Conns -> EchoConn] /\ sock' \in [Conns -> Socket]
  <2>1. ASSUME NEW c \in Conns PROVE conn'[c] \in EchoConn /\ ConnOK(conn'[c])
    <3>1. CASE c \in Live
      <4>1. conn'[c] = Freed
        BY <1>9, <3>1
      <4>2. QED
        BY <4>1, FreedIs
    <3>2. CASE c \notin Live
      <4>1. conn'[c] = conn[c]
        BY <1>9, <3>2
      <4>2. QED
        BY <1>8, <4>1
    <3>3. QED
      BY <3>1, <3>2
  <2>2. conn' = [c \in Conns |-> conn'[c]]
    BY <1>1
  <2>3. conn' \in [Conns -> EchoConn]
    BY <2>1, <2>2
  <2>4. sock' \in [Conns -> Socket]
    BY <1>1, NewRecords
  <2>5. QED
    BY <2>1, <2>3, <2>4
<1>11. TypeOK'
  <2>1. /\ echo' \in 0 .. MaxStarts /\ starts' \in 0 .. MaxStarts
        /\ listen' \in Fds \cup {NoFd} /\ backlog' \in 0 .. MaxConns
    BY <1>1, Bounds DEF IInv, TypeOK
  <2>2. stopped' \in BOOLEAN
    BY <1>1 DEF IInv, Polls
  <2>3. undef' \in BOOLEAN
    BY <1>1 DEF IInv, TypeOK
  <2>4. QED
    BY <1>10, <2>1, <2>2, <2>3, TypeMade
<1>12. Live' = {}
  <2>1. ASSUME NEW c \in Conns PROVE conn'[c].st \notin {"open", "connecting"}
    <3>1. CASE c \in Live
      <4>1. conn'[c] = Freed
        BY <1>9, <3>1
      <4>2. QED
        BY <4>1, FreedIs
    <3>2. CASE c \notin Live
      BY <1>9, <3>2 DEF Live
    <3>3. QED
      BY <3>1, <3>2
  <2>2. QED
    BY <2>1 DEF Live
<1>13. Expected' = {}
  BY <1>1, <1>12 DEF Expected
<1>14. Evolves
  <2>1. ASSUME NEW c \in Conns
        PROVE  /\ conn[c].st = "connecting" => conn'[c].st \in {"connecting", "open", "freed"}
               /\ conn[c].st = "open" => conn'[c].st \in {"open", "freed"}
               /\ conn[c].st = "freed" => conn'[c].st = "freed"
    <3>1. CASE c \in Live
      <4>1. conn'[c] = Freed /\ conn[c].st \in {"open", "connecting"}
        BY <1>9, <3>1 DEF Live
      <4>2. QED
        BY <4>1, FreedIs
    <3>2. CASE c \notin Live
      BY <1>9, <3>2
    <3>3. QED
      BY <3>1, <3>2
  <2>2. QED
    BY <2>1 DEF Evolves
<1>15. undef' = FALSE
  BY <1>1, Defined
<1>16. AskedFor(np, ops)
  BY <1>1, <1>6, <1>7, <1>13, <1>14, <1>15 DEF AskedFor
<1>17. stopped' = np.inTick
  BY <1>1
<1>18. QED
  BY <1>11, <1>16, <1>17, CommandStep

-----------------------------------------------------------------------------
(* All steps *)

(* A callback *)
LEMMA CallInv ==
  ASSUME IInv, ~undef, Call
  PROVE  IInv'
<1>1. np.inTick /\ np.calls # <<>> /\ UNCHANGED <<echo, starts, stopped>>
  BY DEF Call
<1>2. PICK call : call = Head(np.calls)
  OBVIOUS
<1>3. PICK h : h = np.entries[call.at]
  OBVIOUS
<1>4. CASE Callable(call)
  <2>1. /\ CASE h.cb = "conn" -> OnConn(h.user, call.ev)
             [] h.cb = "connecting" -> OnConnecting(h.user, call.ev)
             [] OTHER -> OnListen
        /\ UNCHANGED undef
    BY <1>2, <1>3, <1>4 DEF Call
  <2>2. h.cb \in {"conn", "connecting", "listen"}
    <3>1. call.at \in DOMAIN np.entries /\ np.entries \in Seq(Entry)
      BY <1>4 DEF Callable, IInv, Polls, Tables
    <3>2. h \in Entry
      BY <1>3, <3>1
    <3>3. QED
      BY <3>2 DEF Entry
  <2>3. CASE h.cb = "conn"
    <3>1. OnConn(h.user, call.ev)
      BY <2>1, <2>3
    <3>2. QED
      BY <1>1, <1>2, <1>3, <1>4, <2>1, <2>3, <3>1, OnConnInv
  <2>4. CASE h.cb = "connecting"
    <3>1. OnConnecting(h.user, call.ev)
      BY <2>1, <2>4
    <3>2. QED
      BY <1>1, <1>2, <1>3, <1>4, <2>1, <2>4, <3>1, OnConnectingInv
  <2>5. CASE h.cb = "listen"
    <3>1. OnListen
      BY <2>1, <2>5
    <3>2. QED
      BY <1>1, <1>2, <1>3, <1>4, <2>1, <2>5, <3>1, OnListenInv
  <2>6. QED
    BY <2>2, <2>3, <2>4, <2>5
<1>5. CASE ~Callable(call)
  <2>1. undef' = TRUE /\ UNCHANGED <<np, listen, backlog, conn, sock>>
    BY <1>2, <1>3, <1>5 DEF Call
  <2>2. TypeOK'
    BY <1>1, <2>1 DEF IInv, TypeOK
  <2>3. Expected' = Expected
    BY <1>1, <2>1, ExpectedSame
  <2>4. Fits(Elems(np.entries))'
    BY <2>1 DEF IInv, Fits
  <2>5. stopped
    <3>1. np.calls \in Seq(Ready)
      BY DEF IInv, Polls
    <3>2. 1 \in DOMAIN np.calls /\ np.calls[1] = call
      BY <1>1, <1>2, <3>1
    <3>3. QED
      BY <1>5, <3>2 DEF IInv, CallsLive
  <2>6. CallsLive'
    BY <1>1, <2>5 DEF CallsLive
  <2>7. QED
    BY <1>1, <2>1, <2>2, <2>3, <2>4, <2>6 DEF IInv
<1>6. QED
  BY <1>4, <1>5

(* Every step keeps the invariant. *)
LEMMA NextInv ==
  ASSUME IInv, [Next]_vars
  PROVE  IInv'
<1>1. CASE Next
  <2>1. ~undef /\ (Kernel \/ Frame \/ Command)
    BY <1>1 DEF Next
  <2>2. CASE Kernel
    BY <2>1, <2>2, KernelInv
  <2>3. CASE Tick
    BY <2>1, <2>3, TickInv
  <2>4. CASE Call
    BY <2>1, <2>4, CallInv
  <2>5. CASE EndTick
    BY <2>1, <2>5, EndTickInv
  <2>6. CASE StartLeader
    BY <2>1, <2>6, StartLeaderInv
  <2>7. CASE StartClient
    BY <2>1, <2>7, StartClientInv
  <2>8. CASE StartFails
    BY <2>1, <2>8, StartFailsInv
  <2>9. CASE Stop
    BY <2>1, <2>9, StopInv
  <2>10. QED
    BY <2>1, <2>2, <2>3, <2>4, <2>5, <2>6, <2>7, <2>8, <2>9 DEF Frame, Command
<1>2. CASE UNCHANGED vars
  <2>1. /\ UNCHANGED <<np, echo, starts, listen, conn, stopped, undef>>
        /\ backlog' = backlog /\ sock' = sock
    BY <1>2 DEF vars
  <2>2. backlog \in 0 .. MaxConns /\ sock \in [Conns -> Socket]
    BY TypeParts DEF IInv, TypeOK
  <2>3. QED
    BY <2>1, <2>2, OutsideStep DEF Outside
<1>3. QED
  BY <1>1, <1>2

(* The invariant holds in every state. *)
THEOREM Invariant == Spec => []IInv
<1>1. Init => IInv
  BY InitInv
<1>2. IInv /\ [Next]_vars => IInv'
  BY NextInv
<1>3. QED
  BY <1>1, <1>2, PTL DEF Spec

(* Every variable keeps its type, and a connection waits for room exactly  *)
(* while it has something to write (s_on_conn, s_on_client_connecting).    *)
THEOREM EchoTyped == Spec => []TypeOK
<1>1. IInv => TypeOK
  BY DEF IInv
<1>2. QED
  BY <1>1, Invariant, PTL

(* With its deferred changes made, the poller's table is the listener and  *)
(* the connections that are there, each once (net_posix.c, s_apply_ops).   *)
THEOREM TableAlwaysMatches == Spec => []TableMatches
<1>1. ASSUME IInv PROVE TableMatches
  <2>1. Polls(np) /\ Table(np) = Expected
    BY <1>1 DEF IInv
  <2>2. PICK t : t = Settled(np)
    OBVIOUS
  <2>3. t \in Tables /\ Elems(t) = Expected
    BY <2>1, <2>2, SettledIs
  <2>4. Len(t) = Cardinality(Expected)
    BY <2>3, TableLength
  <2>5. QED
    BY <2>2, <2>3, <2>4 DEF TableMatches
<1>2. QED
  BY <1>1, Invariant, PTL

(* Callbacks are only called for what is there, unless the component is    *)
(* stopped inside the tick (net_poller_tick).                              *)
THEOREM CallsStayLive == Spec => []CallsLive
<1>1. IInv => CallsLive
  BY DEF IInv
<1>2. QED
  BY <1>1, Invariant, PTL
=============================================================================

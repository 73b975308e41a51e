------------------------------ MODULE WmProofs ------------------------------
(***************************************************************************)
(* Theorems about the window manager: the stack stays sorted, what is seen *)
(* is what is hit, there is a window everywhere, a gesture belongs to the  *)
(* window on top, and damage is enough. They hold for every number of      *)
(* windows and users, every screen and every placement of the windows, if  *)
(* one background fills the screen at the start.                           *)
(***************************************************************************)
EXTENDS Wm, FiniteSetTheorems, WellFoundedInduction, TLAPS

(* A set of numbers that is not empty has a least one.                     *)
LEMMA NatMin ==
  ASSUME NEW S \in SUBSET Nat, S # {}
  PROVE  \E m \in S : \A x \in S : m <= x
<1> DEFINE R == OpToRel(<, Nat)
<1>1. IsWellFoundedOn(R, Nat)
  BY NatLessThanWellFounded
<1>2. \A x, y \in Nat : x < y => <<x, y>> \in R
  BY DEF OpToRel
<1> HIDE DEF R
<1>3. \E m \in S : \A x \in S : ~(<<x, m>> \in R)
  BY <1>1, WFMin
<1>4. PICK m \in S : \A x \in S : ~(<<x, m>> \in R)
  BY <1>3
<1>5. \A x \in S : ~(x < m)
  BY <1>2, <1>4
<1>6. \A x \in S : m <= x
  BY <1>5
<1> QED BY <1>6

(* Places up to n that are not none have a last one.                       *)
LEMMA LastOf ==
  ASSUME NEW n \in Nat, NEW S \in SUBSET (1 .. n), S # {}
  PROVE  Max(S) \in S /\ \A x \in S : x <= Max(S)
<1> DEFINE T == {n - x : x \in S}
<1>1. T \in SUBSET Nat /\ T # {}
  OBVIOUS
<1>2. \A x \in S : n - x \in T
  OBVIOUS
<1>3. \A t \in T : \E x \in S : t = n - x
  OBVIOUS
<1> HIDE DEF T
<1>4. PICK m \in T : \A t \in T : m <= t
  BY <1>1, NatMin
<1>5. PICK k \in S : m = n - k
  BY <1>3
<1>6. \A x \in S : k >= x
  BY <1>2, <1>4, <1>5
<1>7. \E k1 \in S : \A x \in S : k1 >= x
  BY <1>6
<1>8. Max(S) \in S /\ \A x \in S : Max(S) >= x
  BY <1>7 DEF Max
<1> QED BY <1>8

(* The number of windows is a number.                                      *)
LEMMA Counting ==
  /\ IsFiniteSet(Windows) /\ Cardinality(Windows) \in Nat
  /\ IsFiniteSet(1 .. Cardinality(Windows))
  /\ Cardinality(1 .. Cardinality(Windows)) = Cardinality(Windows)
<1>1. IsFiniteSet(Windows)
  BY WmAssumption
<1>2. Cardinality(Windows) \in Nat
  BY <1>1, FS_CardinalityType
<1>3. /\ IsFiniteSet(1 .. Cardinality(Windows))
      /\ Cardinality(1 .. Cardinality(Windows)) =
           IF 1 > Cardinality(Windows) THEN 0 ELSE Cardinality(Windows) - 1 + 1
  BY <1>2, FS_Interval
<1> QED BY <1>1, <1>2, <1>3

(* No two windows have one zindex.                                         *)
Apart(zs) == \A v, w \in Windows : zs[v] = zs[w] => v = w

(* The windows below w.                                                    *)
Below(w, zs) == {v \in Windows : zs[v] < zs[w]}
(* The place they leave to it.                                             *)
Rank(w, zs) == Cardinality(Below(w, zs)) + 1

(* The stack s has every window once, by its zindex.                       *)
Stacked(s, zs) ==
  /\ s \in [1 .. Cardinality(Windows) -> Windows]
  /\ \A i, j \in DOMAIN s : i < j => zs[s[i]] < zs[s[j]]
  /\ \A w \in Windows : \E i \in DOMAIN s : s[i] = w

(* Ranks are places, and grow with the zindex.                             *)
LEMMA RankType ==
  ASSUME NEW zs \in [Windows -> Int], NEW w \in Windows
  PROVE  Rank(w, zs) \in 1 .. Cardinality(Windows)
<1> DEFINE b == Below(w, zs)
<1>1. b \in SUBSET Windows /\ w \notin b
  BY DEF Below
<1> HIDE DEF b
<1>2. /\ IsFiniteSet(b) /\ Cardinality(b) <= Cardinality(Windows)
      /\ Cardinality(Windows) = Cardinality(b) => Windows = b
  BY <1>1, Counting, FS_Subset
<1>3. Cardinality(b) \in Nat
  BY <1>2, FS_CardinalityType
<1>4. Cardinality(b) # Cardinality(Windows)
  BY <1>1, <1>2
<1> QED BY <1>2, <1>3, <1>4, Counting DEF Rank, b

(* A greater zindex has a later place.                                     *)
LEMMA RankGrows ==
  ASSUME NEW zs \in [Windows -> Int], NEW v \in Windows, NEW w \in Windows, zs[v] < zs[w]
  PROVE  Rank(v, zs) < Rank(w, zs)
<1> DEFINE a == Below(v, zs)
           b == Below(w, zs)
<1>1. a \in SUBSET b /\ v \in b /\ v \notin a /\ b \in SUBSET Windows
  BY DEF Below
<1> HIDE DEF a, b
<1>2. IsFiniteSet(b)
  BY <1>1, Counting, FS_Subset
<1>3. /\ IsFiniteSet(a) /\ Cardinality(a) <= Cardinality(b)
      /\ Cardinality(b) = Cardinality(a) => b = a
  BY <1>1, <1>2, FS_Subset
<1>4. Cardinality(a) \in Nat /\ Cardinality(b) \in Nat
  BY <1>2, <1>3, FS_CardinalityType
<1>5. Cardinality(a) # Cardinality(b)
  BY <1>1, <1>3
<1> QED BY <1>3, <1>4, <1>5 DEF Rank, a, b

(* An injection between windows and places meets them all.                 *)
LEMMA StackExists ==
  ASSUME NEW zs \in [Windows -> Int], Apart(zs)
  PROVE  \E s \in [1 .. Cardinality(Windows) -> Windows] :
           \A i, j \in DOMAIN s : i < j => zs[s[i]] < zs[s[j]]
<1> DEFINE P == 1 .. Cardinality(Windows)
           r == [w \in Windows |-> Rank(w, zs)]
<1>1. r \in [Windows -> P]
  BY RankType
<1>2. \A v, w \in Windows : zs[v] < zs[w] => r[v] < r[w]
  BY RankGrows
<1>3. \A w \in Windows : r[w] \in Int
  BY <1>1
<1>4. \A v, w \in Windows : r[v] = r[w] => v = w
  <2> SUFFICES ASSUME NEW v \in Windows, NEW w \in Windows, r[v] = r[w], v # w
               PROVE  FALSE
    OBVIOUS
  <2>1. zs[v] \in Int /\ zs[w] \in Int /\ zs[v] # zs[w]
    BY DEF Apart
  <2>2. zs[v] < zs[w] \/ zs[w] < zs[v]
    BY <2>1
  <2> HIDE DEF r
  <2> QED BY <1>2, <1>3, <2>2
<1> HIDE DEF r
<1>5. r \in Injection(Windows, P)
  BY <1>1, <1>4 DEF Injection, IsInjective
<1>6. IsFiniteSet(P) /\ Cardinality(P) = Cardinality(Windows)
  BY Counting
<1> HIDE DEF P
<1>7. r \in Surjection(Windows, P)
  BY <1>5, <1>6, FS_Injection
<1>8. \A i \in P : \E w \in Windows : r[w] = i
  BY <1>7 DEF Surjection
<1> DEFINE s == [i \in P |-> CHOOSE w \in Windows : r[w] = i]
<1>9. \A i \in P : s[i] \in Windows /\ r[s[i]] = i
  BY <1>8
<1>10. s \in [P -> Windows] /\ DOMAIN s = P
  BY <1>9
<1> HIDE DEF s
<1>11. \A i, j \in P : i < j => zs[s[i]] < zs[s[j]]
  <2> SUFFICES ASSUME NEW i \in P, NEW j \in P, i < j
               PROVE  zs[s[i]] < zs[s[j]]
    OBVIOUS
  <2>1. i \in Int /\ j \in Int
    BY Counting DEF P
  <2>2. zs[s[i]] \in Int /\ zs[s[j]] \in Int
    BY <1>9
  <2>3. ~(zs[s[j]] < zs[s[i]])
    BY <1>2, <1>9, <2>1
  <2>4. zs[s[j]] # zs[s[i]]
    BY <1>9, <2>1 DEF Apart
  <2> QED BY <2>2, <2>3, <2>4
<1> QED BY <1>10, <1>11 DEF P

(* sort_by_z leaves every window in one place, by its zindex.              *)
LEMMA SortedStacked ==
  ASSUME NEW zs \in [Windows -> Int], Apart(zs)
  PROVE  Stacked(SortedBy(zs), zs)
<1> DEFINE P == 1 .. Cardinality(Windows)
           s == SortedBy(zs)
<1>1. s \in [P -> Windows] /\ \A i, j \in DOMAIN s : i < j => zs[s[i]] < zs[s[j]]
  BY StackExists DEF SortedBy
<1> HIDE DEF s
<1>2. \A i, j \in P : s[i] = s[j] => i = j
  <2> SUFFICES ASSUME NEW i \in P, NEW j \in P, s[i] = s[j], i # j
               PROVE  FALSE
    OBVIOUS
  <2>1. i < j \/ j < i
    BY Counting
  <2>2. zs[s[i]] \in Int /\ zs[s[j]] = zs[s[i]]
    BY <1>1
  <2> QED BY <1>1, <2>1, <2>2
<1>3. s \in Injection(P, Windows)
  BY <1>1, <1>2 DEF Injection, IsInjective
<1>4. IsFiniteSet(P) /\ Cardinality(P) = Cardinality(Windows) /\ IsFiniteSet(Windows)
  BY Counting
<1> HIDE DEF P
<1>5. s \in Surjection(P, Windows)
  BY <1>3, <1>4, FS_Injection
<1>6. \A w \in Windows : \E i \in DOMAIN s : s[i] = w
  BY <1>1, <1>5 DEF Surjection
<1> QED BY <1>1, <1>6 DEF Stacked, P, s

-----------------------------------------------------------------------------
(* What is at a place of the screen                                        *)

(* The stack is as sort_by_z leaves it.                                    *)
StackOK ==
  /\ z \in [Windows -> Nat]
  /\ Apart(z)
  /\ Stacked(order, z)

(* w is at place y, and nothing is over it there.                          *)
Seen(w, y) ==
  /\ y \in Span(frame[w])
  /\ \A v \in Windows : y \in Span(frame[v]) => z[v] <= z[w]

(* The places in the stack of the windows at y.                            *)
Hits(y) == {i \in DOMAIN order : y \in Span(frame[order[i]])}

(* They are places, of all windows at y.                                   *)
LEMMA HitsAre ==
  ASSUME StackOK, NEW y
  PROVE  /\ Hits(y) \in SUBSET (1 .. Cardinality(Windows))
         /\ \A i \in Hits(y) : order[i] \in Windows /\ y \in Span(frame[order[i]])
         /\ \A v \in Windows : y \in Span(frame[v]) => \E i \in Hits(y) : order[i] = v
<1>1. DOMAIN order = 1 .. Cardinality(Windows) /\ order \in [DOMAIN order -> Windows]
  BY DEF StackOK, Stacked
<1>2. \A v \in Windows : \E i \in DOMAIN order : order[i] = v
  BY DEF StackOK, Stacked
<1> QED BY <1>1, <1>2 DEF Hits

(* A later place is a greater zindex.                                      *)
LEMMA HitsUp ==
  ASSUME StackOK, NEW y, NEW i \in Hits(y), NEW j \in Hits(y), i < j
  PROVE  z[order[i]] < z[order[j]]
BY DEF StackOK, Stacked, Hits

(* A window that is seen is drawn last, and hit.                           *)
SeenIsDrawn ==
  \A y, w : w \in Windows /\ Seen(w, y) =>
    DrawnAt(y) = <<w, y - frame[w].y>> /\ TopmostAt(y) = w

(* So the composition and wm_topmost_at agree where something is seen.     *)
LEMMA SeenAt == StackOK => SeenIsDrawn
<1> SUFFICES ASSUME StackOK, NEW y, NEW w \in Windows, Seen(w, y)
             PROVE  DrawnAt(y) = <<w, y - frame[w].y>> /\ TopmostAt(y) = w
  BY DEF SeenIsDrawn
<1> DEFINE hit == Hits(y)
           best == {i \in hit : \A j \in hit : z[order[j]] <= z[order[i]]}
           n == Cardinality(Windows)
<1>1. n \in Nat
  BY Counting
<1>2. /\ hit \in SUBSET (1 .. n)
      /\ \A i \in hit : order[i] \in Windows /\ y \in Span(frame[order[i]])
  BY HitsAre
<1>3. PICK k \in hit : order[k] = w
  BY HitsAre DEF Seen
<1>4. \A i, j \in hit : i < j => z[order[i]] < z[order[j]]
  BY HitsUp
<1>5. \A i \in hit : z[order[i]] \in Int /\ z[order[i]] <= z[w]
  BY <1>2 DEF Seen, StackOK
<1>6. \A i \in hit : i \in Int /\ i <= k
  <2> SUFFICES ASSUME NEW i \in hit PROVE i \in Int /\ i <= k
    OBVIOUS
  <2>1. i \in Int /\ k \in Int
    BY <1>1, <1>2, <1>3
  <2>2. ~(k < i)
    BY <1>3, <1>4, <1>5
  <2> QED BY <2>1, <2>2
<1>7. k \in best
  BY <1>3, <1>5
<1>8. \A i \in best : i = k
  <2> SUFFICES ASSUME NEW i \in best PROVE i = k
    OBVIOUS
  <2>1. i \in hit /\ z[order[k]] <= z[order[i]]
    BY <1>3
  <2>2. ~(i < k)
    BY <1>3, <1>4, <1>5, <2>1
  <2> QED BY <1>3, <1>6, <2>1, <2>2
<1> HIDE DEF best
<1>9. best = {k}
  BY <1>7, <1>8
<1>10. Max(hit) \in hit /\ \A i \in hit : i <= Max(hit)
  <2> HIDE DEF hit, n
  <2> QED BY <1>1, <1>2, <1>3, LastOf
<1>11. Max(hit) = k
  BY <1>3, <1>6, <1>10
<1>12. Max(best) = k
  <2>1. k >= k
    BY <1>6, <1>3
  <2>2. \E x \in {k} : \A v \in {k} : x >= v
    BY <2>1
  <2>3. Max({k}) \in {k}
    BY <2>2 DEF Max
  <2> QED BY <1>9, <2>3
<1>13. hit # {}
  BY <1>3
<1>14. TopmostAt(y) = w
  BY <1>3, <1>12, <1>13 DEF TopmostAt, best, Hits
<1>15. DrawnAt(y) = <<w, y - frame[w].y>>
  BY <1>3, <1>11, <1>13 DEF DrawnAt, Hits
<1> QED BY <1>14, <1>15

(* Where no window is nothing is drawn or hit.                             *)
BareIsNone ==
  \A y : (\A w \in Windows : y \notin Span(frame[w])) =>
    DrawnAt(y) = <<None, 0>> /\ TopmostAt(y) = None

(* They agree there too.                                                   *)
LEMMA BareAt == StackOK => BareIsNone
<1> SUFFICES ASSUME StackOK, NEW y, \A w \in Windows : y \notin Span(frame[w])
             PROVE  DrawnAt(y) = <<None, 0>> /\ TopmostAt(y) = None
  BY DEF BareIsNone
<1>1. Hits(y) = {}
  BY HitsAre
<1> QED BY <1>1 DEF DrawnAt, TopmostAt, Hits

(* Of the windows at a place one is seen.                                  *)
CoveredIsSeen ==
  \A y, w : w \in Windows /\ y \in Span(frame[w]) => \E v \in Windows : Seen(v, y)

(* The last of them is.                                                    *)
LEMMA OneSeen == StackOK => CoveredIsSeen
<1> SUFFICES ASSUME StackOK, NEW y, NEW w \in Windows, y \in Span(frame[w])
             PROVE  \E v \in Windows : Seen(v, y)
  BY DEF CoveredIsSeen
<1> DEFINE hit == Hits(y)
           n == Cardinality(Windows)
           k == Max(hit)
<1>1. n \in Nat
  BY Counting
<1>2. /\ hit \in SUBSET (1 .. n)
      /\ \A i \in hit : order[i] \in Windows /\ y \in Span(frame[order[i]])
      /\ \A v \in Windows : y \in Span(frame[v]) => \E i \in hit : order[i] = v
  BY HitsAre
<1>3. hit # {}
  BY <1>2
<1>4. \A i, j \in hit : i < j => z[order[i]] < z[order[j]]
  BY HitsUp
<1>5. \A i \in hit : z[order[i]] \in Int
  BY <1>2 DEF StackOK
<1> HIDE DEF hit, n
<1>6. k \in hit /\ \A i \in hit : i <= k
  BY <1>1, <1>2, <1>3, LastOf
<1> HIDE DEF k
<1>7. \A i \in hit : i \in Int
  BY <1>1, <1>2
<1>8. \A i \in hit : z[order[i]] <= z[order[k]]
  <2> SUFFICES ASSUME NEW i \in hit PROVE z[order[i]] <= z[order[k]]
    OBVIOUS
  <2>1. i = k \/ i < k
    BY <1>6, <1>7
  <2> QED BY <1>4, <1>5, <1>6, <2>1
<1>9. Seen(order[k], y)
  BY <1>2, <1>6, <1>8 DEF Seen
<1> QED BY <1>2, <1>6, <1>9

(* What is hit is a window, or nothing.                                    *)
LEMMA HitType ==
  ASSUME StackOK, NEW y
  PROVE  /\ TopmostAt(y) \in Windows \cup {None}
         /\ DrawnAt(y)[1] = TopmostAt(y)
         /\ (TopmostAt(y) = None) <=> \A w \in Windows : y \notin Span(frame[w])
<1>1. CASE \A w \in Windows : y \notin Span(frame[w])
  <2>1. DrawnAt(y) = <<None, 0>> /\ TopmostAt(y) = None
    BY <1>1, BareAt DEF BareIsNone
  <2> QED BY <1>1, <2>1
<1>2. CASE ~(\A w \in Windows : y \notin Span(frame[w]))
  <2>1. PICK v \in Windows : Seen(v, y)
    BY <1>2, OneSeen DEF CoveredIsSeen
  <2>2. DrawnAt(y) = <<v, y - frame[v].y>> /\ TopmostAt(y) = v
    BY <2>1, SeenAt DEF SeenIsDrawn
  <2>3. v # None
    BY WmAssumption
  <2> QED BY <1>2, <2>2, <2>3
<1> QED BY <1>1, <1>2

-----------------------------------------------------------------------------
(* Raising a window                                                        *)

(* The window on top.                                                      *)
OnTop == order[Cardinality(Windows)]

(* It has the greatest zindex, and its place is the length of the array.   *)
LEMMA TopIs ==
  ASSUME StackOK
  PROVE  /\ OnTop \in Windows /\ Len(order) = Cardinality(Windows)
         /\ \A v \in Windows : z[v] <= z[OnTop]
<1> DEFINE n == Cardinality(Windows)
<1>1. n \in Nat /\ order \in [1 .. n -> Windows]
  BY Counting DEF StackOK, Stacked
<1>2. \E w : w \in Windows
  BY WmAssumption
<1>3. n \in 1 .. n
  BY <1>1, <1>2 DEF StackOK, Stacked
<1>4. OnTop \in Windows
  BY <1>1, <1>3 DEF OnTop
<1>5. Len(order) = n
  BY <1>1
<1>6. ASSUME NEW v \in Windows
      PROVE  z[v] <= z[OnTop]
  <2>1. PICK i \in 1 .. n : order[i] = v
    BY <1>1 DEF StackOK, Stacked
  <2>2. z[v] \in Int /\ z[OnTop] \in Int
    BY <1>4 DEF StackOK
  <2>3. i = n \/ i < n
    BY <1>1
  <2>4. i < n => z[order[i]] < z[order[n]]
    BY <1>1, <1>3 DEF StackOK, Stacked
  <2> QED BY <2>1, <2>2, <2>3, <2>4 DEF OnTop
<1> QED BY <1>4, <1>5, <1>6

(* The greatest zindex is a number, and none is greater.                   *)
LEMMA GreatestZ ==
  ASSUME StackOK
  PROVE  LET m == Max({z[v] : v \in Windows}) IN
         m \in Nat /\ \A v \in Windows : z[v] <= m
<1> DEFINE S == {z[v] : v \in Windows}
<1>1. OnTop \in Windows /\ \A v \in Windows : z[v] <= z[OnTop] /\ z[v] \in Nat
  BY TopIs DEF StackOK
<1>2. z[OnTop] \in S /\ \A x \in S : z[OnTop] >= x
  BY <1>1
<1>3. S \subseteq Nat /\ \A v \in Windows : z[v] \in S
  BY <1>1
<1> HIDE DEF S
<1>4. Max(S) \in S /\ \A x \in S : Max(S) >= x
  BY <1>2 DEF Max
<1>5. Max(S) \in Nat
  BY <1>3, <1>4
<1>6. \A v \in Windows : z[v] <= Max(S)
  BY <1>1, <1>3, <1>4
<1> QED BY <1>5, <1>6 DEF S

(* A window has one place in a stack.                                      *)
LEMMA PlaceIs ==
  ASSUME NEW zs \in [Windows -> Int], NEW s, Stacked(s, zs), NEW w \in Windows
  PROVE  Place(w, s) \in 1 .. Cardinality(Windows) /\ s[Place(w, s)] = w
<1>1. DOMAIN s = 1 .. Cardinality(Windows) /\ \E i \in DOMAIN s : s[i] = w
  BY DEF Stacked
<1> QED BY <1>1 DEF Place

(* The zindex above all: the others keep theirs.                           *)
Lifted(w) == [z EXCEPT ![w] = Max({z[v] : v \in Windows}) + 1]

(* No other window has it.                                                 *)
LEMMA LiftedIs ==
  ASSUME StackOK, NEW w \in Windows
  PROVE  /\ Lifted(w) \in [Windows -> Nat] /\ Apart(Lifted(w))
         /\ \A v \in Windows : v # w => Lifted(w)[v] = z[v] /\ z[v] < Lifted(w)[w]
<1> DEFINE m == Max({z[v] : v \in Windows})
<1>1. m \in Nat /\ \A v \in Windows : z[v] <= m
  BY GreatestZ
<1> HIDE DEF m
<1>2. z \in [Windows -> Nat] /\ Apart(z)
  BY DEF StackOK
<1> DEFINE l == [z EXCEPT ![w] = m + 1]
<1>3. l \in [Windows -> Nat] /\ l[w] = m + 1 /\ \A v \in Windows : v # w => l[v] = z[v]
  BY <1>1, <1>2
<1> HIDE DEF l
<1>4. \A v \in Windows : v # w => z[v] < l[w]
  BY <1>1, <1>2, <1>3
<1>5. Apart(l)
  <2> SUFFICES ASSUME NEW u \in Windows, NEW v \in Windows, l[u] = l[v]
               PROVE  u = v
    BY DEF Apart
  <2>1. u # w /\ v # w => z[u] = z[v]
    BY <1>3
  <2>2. u # w => l[u] < l[w]
    BY <1>3, <1>4
  <2>3. v # w => l[v] < l[w]
    BY <1>3, <1>4
  <2>4. l[u] \in Int /\ l[v] \in Int /\ l[w] \in Int
    BY <1>3
  <2> QED BY <1>2, <2>1, <2>2, <2>3, <2>4 DEF Apart
<1> QED BY <1>3, <1>4, <1>5 DEF Lifted, l, m

(* w is now over all others, which keep their order.                       *)
Raised(w, old, new) ==
  /\ \A v \in Windows : v # w => new[v] < new[w]
  /\ \A u, v \in Windows : u # w /\ v # w => (new[u] <= new[v] <=> old[u] <= old[v])

(* wm_bring_to_front sorts the stack and renumbers it: w comes on top.     *)
LEMMA RaiseStack ==
  ASSUME StackOK, NEW w \in Windows, Raise(w)
  PROVE  StackOK' /\ Raised(w, z, z') /\ OnTop' = w
<1> DEFINE l == Lifted(w)
           s == SortedBy(l)
           n == Cardinality(Windows)
           P == 1 .. n
<1>1. order' = s /\ z' = [v \in Windows |-> Place(v, s) - 1]
  BY DEF Raise, Lifted
<1>2. l \in [Windows -> Int] /\ Apart(l)
  BY LiftedIs
<1>3. Stacked(s, l)
  BY <1>2, SortedStacked
<1>4. \A v \in Windows : v # w => l[v] = z[v] /\ l[v] < l[w]
  BY LiftedIs
<1>5. n \in Nat /\ n \in 1 .. n
  <2>1. n \in Nat /\ OnTop \in Windows
    BY Counting, TopIs
  <2>2. \E i \in 1 .. n : TRUE
    BY <1>3, <2>1 DEF Stacked
  <2> QED BY <2>1, <2>2
<1>6. z \in [Windows -> Int]
  BY DEF StackOK
<1> HIDE DEF l, s, n
<1>7. s \in [P -> Windows] /\ \A i, j \in P : i < j => l[s[i]] < l[s[j]]
  BY <1>3 DEF Stacked, n
<1>8. \A v \in Windows : Place(v, s) \in P /\ s[Place(v, s)] = v
  BY <1>2, <1>3, PlaceIs DEF n
<1>9. \A v \in Windows : z'[v] = Place(v, s) - 1
  BY <1>1
<1>10. z' \in [Windows -> Nat]
  BY <1>1, <1>5, <1>8
<1>11. \A i, j \in P : s[i] = s[j] => i = j
  <2> SUFFICES ASSUME NEW i \in P, NEW j \in P, s[i] = s[j], i # j
               PROVE  FALSE
    OBVIOUS
  <2>1. i < j \/ j < i
    BY <1>5
  <2>2. l[s[i]] \in Int /\ l[s[j]] = l[s[i]]
    BY <1>2, <1>7
  <2> QED BY <1>7, <2>1, <2>2
<1>12. \A i \in P : Place(s[i], s) = i
  BY <1>7, <1>8, <1>11
<1>13. Apart(z')
  <2> SUFFICES ASSUME NEW u \in Windows, NEW v \in Windows, z'[u] = z'[v]
               PROVE  u = v
    BY DEF Apart
  <2>1. Place(u, s) = Place(v, s)
    BY <1>5, <1>8, <1>9
  <2> QED BY <1>8, <2>1
<1>14. \A u, v \in Windows : l[u] < l[v] => z'[u] < z'[v]
  <2> SUFFICES ASSUME NEW u \in Windows, NEW v \in Windows, l[u] < l[v]
               PROVE  z'[u] < z'[v]
    OBVIOUS
  <2> DEFINE i == Place(u, s)
             j == Place(v, s)
  <2>1. i \in P /\ j \in P /\ s[i] = u /\ s[j] = v /\ z'[u] = i - 1 /\ z'[v] = j - 1
    BY <1>8, <1>9
  <2> HIDE DEF i, j
  <2>2. l[u] \in Int /\ l[v] \in Int
    BY <1>2
  <2>3. ~(j < i) /\ i # j
    BY <1>7, <2>1, <2>2
  <2> QED BY <1>5, <2>1, <2>3
<1>15. Stacked(s, z')
  <2>1. \A i, j \in P : i < j => z'[s[i]] < z'[s[j]]
    BY <1>7, <1>14
  <2>2. \A v \in Windows : \E i \in P : s[i] = v
    BY <1>8
  <2>3. DOMAIN s = P
    BY <1>7
  <2> QED BY <1>7, <2>1, <2>2, <2>3 DEF Stacked, n
<1>16. Raised(w, z, z')
  <2>1. \A v \in Windows : v # w => z'[v] < z'[w]
    BY <1>4, <1>14
  <2>2. ASSUME NEW u \in Windows, NEW v \in Windows, u # w, v # w
        PROVE  z'[u] <= z'[v] <=> z[u] <= z[v]
    <3>1. l[u] = z[u] /\ l[v] = z[v] /\ z[u] \in Int /\ z[v] \in Int
      BY <1>4, <1>6, <2>2
    <3>2. z'[u] \in Int /\ z'[v] \in Int
      BY <1>10
    <3>3. z[u] < z[v] => z'[u] < z'[v]
      BY <1>14, <3>1
    <3>4. z[v] < z[u] => z'[v] < z'[u]
      BY <1>14, <3>1
    <3>5. z[u] = z[v] => u = v
      BY DEF StackOK, Apart
    <3> QED BY <3>1, <3>2, <3>3, <3>4, <3>5
  <2> QED BY <2>1, <2>2 DEF Raised
<1>17. s[n] = w
  <2>1. s[n] \in Windows /\ z'[s[n]] = n - 1
    BY <1>5, <1>7, <1>9, <1>12
  <2>2. z'[w] \in Int /\ z'[w] <= n - 1
    BY <1>5, <1>8, <1>9
  <2>3. s[n] # w => z'[s[n]] < z'[w]
    BY <1>16, <2>1 DEF Raised
  <2> QED BY <1>5, <2>1, <2>2, <2>3
<1>18. StackOK'
  BY <1>1, <1>10, <1>13, <1>15 DEF StackOK
<1>19. OnTop' = w
  BY <1>1, <1>17 DEF OnTop, n
<1> QED BY <1>1, <1>16, <1>18, <1>19

-----------------------------------------------------------------------------
(* The stack stays sorted                                                  *)

(* It starts sorted.                                                       *)
LEMMA InitStack ==
  ASSUME Init
  PROVE  StackOK
<1>1. Z0 \in [Windows -> Nat] /\ Apart(Z0)
  BY WmAssumption DEF Apart
<1>2. Z0 \in [Windows -> Int]
  BY <1>1
<1>3. Stacked(SortedBy(Z0), Z0)
  BY <1>1, <1>2, SortedStacked
<1>4. z = Z0 /\ order = SortedBy(Z0)
  BY DEF Init
<1> QED BY <1>1, <1>3, <1>4 DEF StackOK

(* A press raises a window.                                                *)
LEMMA PressRaises ==
  ASSUME StackOK, NEW u, NEW y, Press(u, y)
  PROVE  TopmostAt(y) \in Windows /\ Raise(TopmostAt(y))
<1>1. TopmostAt(y) # None /\ Raise(TopmostAt(y))
  BY DEF Press
<1>2. TopmostAt(y) \in Windows \cup {None}
  BY HitType
<1> QED BY <1>1, <1>2

(* No other step changes zindexes.                                         *)
LEMMA NextStack ==
  ASSUME StackOK, [Next]_vars
  PROVE  StackOK'
<1>1. ASSUME NEW u \in Users, NEW y \in 0 .. Top, Press(u, y) PROVE StackOK'
  <2>1. TopmostAt(y) \in Windows /\ Raise(TopmostAt(y))
    BY <1>1, PressRaises
  <2> QED BY <2>1, RaiseStack
<1>2. UNCHANGED stack => StackOK'
  BY DEF stack, StackOK
<1>3. ASSUME NEW y, Move(y) \/ Release(y) \/ Other(y) PROVE UNCHANGED stack
  BY <1>3 DEF Move, Release, Other
<1>4. ASSUME NEW w, Content(w) PROVE UNCHANGED stack
  BY <1>4 DEF Content
<1>5. ASSUME NEW h, Resize(h) \/ Expose \/ Compose PROVE UNCHANGED stack
  BY <1>5 DEF Resize, Expose, Compose
<1>6. CASE UNCHANGED vars
  BY <1>2, <1>6 DEF vars
<1> QED BY <1>1, <1>2, <1>3, <1>4, <1>5, <1>6 DEF Next

(* Whatever is raised, resized and dragged, the array is sorted by         *)
(* zindexes and no two are equal (wm.c:10-69), for every number of         *)
(* windows.                                                                *)
THEOREM StaysStacked == Spec => []StackOK
<1>1. StackOK /\ [Next]_vars => StackOK'
  BY NextStack
<1> QED BY <1>1, InitStack, PTL DEF Spec

(* So a click goes to the window that is to be seen where it is made:      *)
(* what the composition draws last (platform_sdl.c:163) is what            *)
(* wm_topmost_at finds (wm.c:71).                                          *)
THEOREM HitStaysSeen == Spec => []SeenIsHit
<1>1. StackOK => SeenIsHit
  BY HitType DEF SeenIsHit
<1> QED BY <1>1, StaysStacked, PTL

-----------------------------------------------------------------------------
(* Types                                                                   *)

(* The frame of a window, a drag,                                          *)
Frame == [y : Int, h : Nat \ {0}]
Drags == [on : BOOLEAN, source : Windows \cup {None}, hover : Windows \cup {None}]
(* the gesture on a square, and on a console view.                         *)
Grip == [arm : BOOLEAN, at : Int, moving : BOOLEAN, dy : Int]
Click == [arm : BOOLEAN, at : Int, placeholder : BOOLEAN, pending : BOOLEAN]
(* The list of damage.                                                     *)
List == [places : SUBSET Int, n : 0 .. MaxDamage]

(* What TypeOK says of all but the stack.                                  *)
Typed ==
  /\ frame \in [Windows -> Frame]
  /\ height \in Heights
  /\ active \in Users /\ held \in BOOLEAN
  /\ focus \in [Users -> Windows \cup {None}]
  /\ drag \in [Users -> Drags]
  /\ square \in [Squares -> Grip]
  /\ console \in [Consoles -> Click]
  /\ damage \in List

(* With the stack it is all that TypeOK says.                              *)
LEMMA TypesAre ==
  ASSUME StackOK, Typed
  PROVE  TypeOK
<1>1. order \in [1 .. Cardinality(Windows) -> Windows] /\ z \in [Windows -> Nat]
  BY DEF StackOK, Stacked
<1>2. \A i, j \in DOMAIN order : order[i] = order[j] => i = j
  <2> SUFFICES ASSUME NEW i \in DOMAIN order, NEW j \in DOMAIN order,
                      order[i] = order[j], i # j
               PROVE  FALSE
    OBVIOUS
  <2>1. i < j \/ j < i
    BY <1>1, Counting
  <2>2. z[order[i]] \in Int /\ z[order[j]] = z[order[i]]
    BY <1>1
  <2> QED BY <2>1, <2>2 DEF StackOK, Stacked
<1>3. \A v, w \in Windows : z[v] = z[w] => v = w
  BY DEF StackOK, Apart
<1> QED BY <1>1, <1>2, <1>3 DEF TypeOK, Typed, Frame, Drags, Grip, Click, List

(* It holds at the start.                                                  *)
LEMMA InitTyped ==
  ASSUME Init
  PROVE  Typed
<1>1. frame \in [Windows -> Frame] /\ height \in Heights /\ active \in Users
  BY WmAssumption DEF Init, Frame
<1>2. focus \in [Users -> Windows \cup {None}] /\ drag \in [Users -> Drags]
  BY DEF Init, NoDrag, Drags
<1>3. square \in [Squares -> Grip]
  BY DEF Init, NoGrip, Grip
<1>4. console \in [Consoles -> Click] /\ damage \in List
  BY WmAssumption DEF Init, NoClick, Click, NoDamage, List
<1> QED BY <1>1, <1>2, <1>3, <1>4 DEF Typed, Init

(* The kinds of windows.                                                   *)
LEMMA KindIs ==
  ASSUME NEW w \in Windows
  PROVE  /\ w \in Squares <=> Kind[w] = "square"
         /\ w \in Consoles <=> Kind[w] = "console"
         /\ ~(w \in Squares /\ w \in Consoles)
BY DEF Squares, Consoles

(* The list only grows from frame to frame, and while it has room it has   *)
(* all that was added (damage.h:14).                                       *)
LEMMA AddedIs ==
  ASSUME NEW d \in List, NEW rect \in SUBSET Int
  PROVE  /\ Added(d, rect) \in List
         /\ d.places \subseteq Added(d, rect).places /\ d.n <= Added(d, rect).n
         /\ Added(d, rect).n < MaxDamage => rect \subseteq Added(d, rect).places
<1>1. d.places \in SUBSET Int /\ d.n \in 0 .. MaxDamage /\ MaxDamage \in Nat
  BY WmAssumption DEF List
<1>2. CASE d.n < MaxDamage
  <2> DEFINE e == [places |-> d.places \cup rect, n |-> d.n + 1]
  <2>1. Added(d, rect) = e
    BY <1>2 DEF Added
  <2>2. e \in List /\ e.places = d.places \cup rect /\ e.n = d.n + 1
    <3>1. d.n + 1 \in 0 .. MaxDamage
      BY <1>1, <1>2
    <3>2. d.places \cup rect \in SUBSET Int
      BY <1>1
    <3> QED BY <3>1, <3>2 DEF List
  <2> HIDE DEF e
  <2>3. d.n <= d.n + 1
    BY <1>1
  <2> QED BY <2>1, <2>2, <2>3
<1>3. CASE ~(d.n < MaxDamage)
  <2>1. Added(d, rect) = d
    BY <1>3 DEF Added
  <2>2. d.n <= d.n
    BY <1>1
  <2> QED BY <1>3, <2>1, <2>2
<1> QED BY <1>2, <1>3

(* The places of a frame are numbers.                                      *)
LEMMA SpanType ==
  ASSUME NEW f \in Frame
  PROVE  Span(f) \subseteq Int /\ OnScreen(f) \in SUBSET Int
BY DEF Span, Frame, OnScreen

(* Two rectangles are added.                                               *)
LEMMA AddedTwice ==
  ASSUME NEW d \in List, NEW a \in SUBSET Int, NEW b \in SUBSET Int
  PROVE  LET e == Added(Added(d, a), b) IN
         /\ e \in List /\ d.places \subseteq e.places /\ d.n <= e.n
         /\ e.n < MaxDamage => a \cup b \subseteq e.places
<1> DEFINE c == Added(d, a)
           e == Added(c, b)
<1>1. /\ c \in List /\ d.places \subseteq c.places /\ d.n <= c.n
      /\ c.n < MaxDamage => a \subseteq c.places
  BY AddedIs
<1> HIDE DEF c
<1>2. /\ e \in List /\ c.places \subseteq e.places /\ c.n <= e.n
      /\ e.n < MaxDamage => b \subseteq e.places
  BY <1>1, AddedIs
<1> HIDE DEF e
<1>3. d.n \in Int /\ c.n \in Int /\ e.n \in Int /\ MaxDamage \in Int
  BY <1>1, <1>2, WmAssumption DEF List
<1>4. d.places \subseteq e.places
  BY <1>1, <1>2
<1>5. d.n <= e.n
  BY <1>1, <1>2, <1>3
<1>6. ASSUME e.n < MaxDamage PROVE a \cup b \subseteq e.places
  <2>1. c.n < MaxDamage
    BY <1>2, <1>3, <1>6
  <2>2. a \subseteq c.places /\ c.places \subseteq e.places /\ b \subseteq e.places
    BY <1>1, <1>2, <1>6, <2>1
  <2> QED BY <2>2
<1>7. e = Added(Added(d, a), b)
  BY DEF c, e
<1> QED BY <1>2, <1>4, <1>5, <1>6, <1>7

(* Raising a window adds its frame.                                        *)
LEMMA RaisedDamageIs ==
  ASSUME NEW d \in List, NEW f \in Frame
  PROVE  /\ RaisedDamage(d, f) \in List
         /\ RaisedDamage(d, f).n < MaxDamage =>
              OnScreen(f) \subseteq RaisedDamage(d, f).places
<1>1. OnScreen(f) \in SUBSET Int
  BY SpanType
<1> QED BY <1>1, AddedTwice DEF RaisedDamage

(* Moving one adds where it was and where it is.                           *)
LEMMA MovedDamageIs ==
  ASSUME NEW d \in List, NEW f \in Frame, NEW g \in Frame
  PROVE  /\ MovedDamage(d, f, g) \in List
         /\ MovedDamage(d, f, g).n < MaxDamage =>
              OnScreen(f) \cup OnScreen(g) \subseteq MovedDamage(d, f, g).places
<1> DEFINE a == OnScreen(f)
           b == OnScreen(g)
           set == Added(Added(d, a), b)
           routed == Added(Added(set, a), b)
           e == Added(routed, b)
<1>1. a \in SUBSET Int /\ b \in SUBSET Int
  BY SpanType
<1> HIDE DEF a, b
<1>2. set \in List
  BY <1>1, AddedTwice
<1> HIDE DEF set
<1>3. routed \in List /\ (routed.n < MaxDamage => a \cup b \subseteq routed.places)
  BY <1>1, <1>2, AddedTwice
<1> HIDE DEF routed
<1>4. /\ e \in List /\ routed.places \subseteq e.places /\ routed.n <= e.n
  BY <1>1, <1>3, AddedIs
<1>5. routed.n \in Int /\ e.n \in Int /\ MaxDamage \in Int
  BY <1>3, <1>4, WmAssumption DEF List
<1>6. MovedDamage(d, f, g) = e
  BY DEF MovedDamage, e, routed, set, a, b
<1> HIDE DEF e
<1>7. e.n < MaxDamage => a \cup b \subseteq e.places
  BY <1>3, <1>4, <1>5
<1> QED BY <1>4, <1>6, <1>7 DEF a, b

(* What a drag draws, *)
LEMMA OverlaidType ==
  ASSUME damage \in List, NEW u, NEW y \in Int
  PROVE  Overlaid(u, y) \subseteq List
<1>1. CASE drag[u].on
  <2> SUFFICES ASSUME NEW old \in 0 .. Top
               PROVE  Added(Added(damage, {old} \cap Screen), {y} \cap Screen) \in List
    BY <1>1 DEF Overlaid
  <2>1. {old} \cap Screen \in SUBSET Int /\ {y} \cap Screen \in SUBSET Int
    OBVIOUS
  <2> QED BY <2>1, AddedTwice
<1>2. CASE ~drag[u].on
  BY <1>2 DEF Overlaid
<1> QED BY <1>1, <1>2

(* and what is invalid leave the list one.                                 *)
LEMMA IfNeededType ==
  ASSUME Typed, NEW d \in List, NEW w \in Windows
  PROVE  IfNeeded(d, w) \subseteq List
<1>1. frame[w] \in Frame
  BY DEF Typed
<1>2. OnScreen(frame[w]) \in SUBSET Int
  BY <1>1, SpanType
<1>3. Added(d, OnScreen(frame[w])) \in List
  BY <1>2, AddedIs
<1> QED BY <1>3 DEF IfNeeded

(* A drag that goes on stays the same drag.                                *)
LEMMA HoverType ==
  ASSUME NEW d \in Drags, NEW w \in Windows \cup {None}
  PROVE  /\ Hovered(d, w) \in Drags
         /\ Hovered(d, w).on = d.on /\ Hovered(d, w).source = d.source
BY DEF Hovered, Drags

(* A drag that starts is one.                                              *)
LEMMA StartType ==
  ASSUME NEW w \in Windows
  PROVE  Started(w) \in Drags /\ Started(w).on = TRUE /\ Started(w).source = w
BY DEF Started, Drags


(* A square is gripped to be moved, *)
LEMMA GripMove ==
  ASSUME NEW g \in Grip, NEW d \in Int
  PROVE  LET b == [g EXCEPT !.moving = TRUE, !.dy = d] IN
         b \in Grip /\ b.moving = TRUE /\ b.arm = g.arm
BY DEF Grip

(* or let go. *)
LEMMA GripLet ==
  ASSUME NEW g \in Grip
  PROVE  LET a == [g EXCEPT !.arm = FALSE, !.at = 0] IN
         a \in Grip /\ a.arm = FALSE /\ a.moving = g.moving
<1> DEFINE a == [g EXCEPT !.arm = FALSE]
           b == [a EXCEPT !.at = 0]
<1>1. a \in Grip /\ a.arm = FALSE /\ a.moving = g.moving
  BY DEF Grip
<1> HIDE DEF a
<1>2. b \in Grip /\ b.arm = a.arm /\ b.moving = a.moving
  BY <1>1 DEF Grip
<1> QED BY <1>1, <1>2 DEF a

(* The gestures on a square keep it a square's.                            *)
LEMMA PressSquareType ==
  ASSUME Typed, NEW w \in Squares, NEW y \in Int, PressSquare(w, y)
  PROVE  /\ square' \in [Squares -> Grip] /\ console' = console
         /\ \A v \in Squares : v # w => square'[v] = square[v]
         /\ \/ square'[w].arm = TRUE /\ square'[w].moving = square[w].moving
            \/ square'[w].moving = TRUE /\ square'[w].arm = square[w].arm
<1>1. w \in Windows /\ square \in [Squares -> Grip] /\ frame[w] \in Frame
  BY DEF Typed, Squares
<1> DEFINE g == square[w]
           f == frame[w]
           a == [g EXCEPT !.arm = TRUE, !.at = y]
           b == [g EXCEPT !.moving = TRUE, !.dy = y - f.y]
<1>2. g \in Grip /\ y - f.y \in Int
  BY <1>1 DEF Frame
<1>3. a \in Grip /\ a.arm = TRUE /\ a.moving = g.moving
  BY <1>2 DEF Grip
<1>4. b \in Grip /\ b.moving = TRUE /\ b.arm = g.arm
  <2> DEFINE d == y - f.y
  <2>1. d \in Int
    BY <1>2
  <2> HIDE DEF d, g
  <2> QED BY <1>2, <2>1, GripMove
<1> DEFINE left == (f.h - Side) \div 2
           c == y - f.y \in left .. left + Side - 1
<1>5. /\ \/ square' = [square EXCEPT ![w] = a]
         \/ square' = [square EXCEPT ![w] = b]
      /\ console' = console
  <2>1. square' = [square EXCEPT ![w] = IF c THEN a ELSE b] /\ console' = console
    BY <1>1 DEF PressSquare
  <2> HIDE DEF a, b, c
  <2> QED BY <2>1
<1> HIDE DEF a, b, g
<1>6. CASE square' = [square EXCEPT ![w] = a]
  <2>1. /\ square' \in [Squares -> Grip] /\ square'[w] = a
        /\ \A v \in Squares : v # w => square'[v] = square[v]
    BY <1>1, <1>3, <1>6
  <2> QED BY <1>3, <1>5, <2>1 DEF g
<1>7. CASE square' = [square EXCEPT ![w] = b]
  <2>1. /\ square' \in [Squares -> Grip] /\ square'[w] = b
        /\ \A v \in Squares : v # w => square'[v] = square[v]
    BY <1>1, <1>4, <1>7
  <2> QED BY <1>4, <1>5, <2>1 DEF g
<1> QED BY <1>5, <1>6, <1>7

(* A press on a console view arms it or leaves it.                         *)
LEMMA PressConsoleType ==
  ASSUME Typed, NEW w \in Consoles, NEW y \in Int, PressConsole(w, y)
  PROVE  console' \in [Consoles -> Click] /\ square' = square
<1> DEFINE l == Lazy[w] = "click"
           c == [arm |-> TRUE, at |-> y, placeholder |-> TRUE, pending |-> l]
<1>1. console \in [Consoles -> Click]
  BY DEF Typed
<1>2. c \in Click
  <2>1. l \in BOOLEAN
    OBVIOUS
  <2> HIDE DEF l
  <2> QED BY <2>1 DEF Click
<1>3. /\ \/ console' = [console EXCEPT ![w] = c]
         \/ console' = console
      /\ square' = square
  BY DEF PressConsole
<1> HIDE DEF c
<1> QED BY <1>1, <1>2, <1>3

(* A movement over a square starts its drag, moves it, or does nothing.    *)
LEMMA MoveSquareType ==
  ASSUME Typed, NEW w \in Squares, NEW u \in Users, NEW y \in Int, NEW d \in Drags,
         NEW l \in List, MoveSquare(w, u, y, d, l)
  PROVE  /\ frame' \in [Windows -> Frame] /\ drag' \in [Users -> Drags]
         /\ square' \in [Squares -> Grip] /\ console' = console
         /\ damage' \in List
         /\ \A v \in Windows : v # w => frame'[v] = frame[v]
         /\ frame' # frame /\ damage'.n < MaxDamage =>
              \A x \in Screen \ damage'.places :
                x \notin Span(frame[w]) /\ x \notin Span(frame'[w])
         /\ \A v \in Users : v # u => drag'[v] = drag[v]
         /\ \A v \in Squares : v # w => square'[v] = square[v]
         /\ \/ /\ square[w].arm /\ drag'[u] = Started(w)
               /\ square'[w].arm = FALSE /\ square'[w].moving = square[w].moving
            \/ drag'[u] = d /\ square' = square
<1>1. /\ w \in Windows /\ square \in [Squares -> Grip] /\ frame \in [Windows -> Frame]
      /\ drag \in [Users -> Drags]
  BY DEF Typed, Squares
<1>2. CASE /\ square[w].arm /\ Far(y, square[w].at)
           /\ drag' = [drag EXCEPT ![u] = Started(w)]
           /\ square' = [square EXCEPT ![w] = [@ EXCEPT !.arm = FALSE, !.at = 0]]
           /\ damage' \in IfNeeded(l, w)
           /\ UNCHANGED <<frame, console>>
  <2>1. Started(w) \in Drags
    BY <1>1, StartType
  <2>2. /\ drag' \in [Users -> Drags] /\ drag'[u] = Started(w)
        /\ \A v \in Users : v # u => drag'[v] = drag[v]
    BY <1>1, <1>2, <2>1
  <2> DEFINE g == [square[w] EXCEPT !.arm = FALSE, !.at = 0]
  <2>3. square' = [square EXCEPT ![w] = g]
    BY <1>1, <1>2
  <2>4. g \in Grip /\ g.arm = FALSE /\ g.moving = square[w].moving
    <3>1. square[w] \in Grip
      BY <1>1
    <3> QED BY <3>1, GripLet
  <2> HIDE DEF g
  <2>5. /\ square' \in [Squares -> Grip] /\ square'[w] = g
        /\ \A v \in Squares : v # w => square'[v] = square[v]
    BY <1>1, <2>3, <2>4
  <2>6. damage' \in List
    BY <1>1, <1>2, IfNeededType
  <2> QED BY <1>1, <1>2, <2>2, <2>4, <2>5, <2>6
<1>3. CASE /\ ~square[w].arm /\ square[w].moving
           /\ frame' = [frame EXCEPT ![w].y = y - square[w].dy]
           /\ \/ damage' = MovedDamage(l, frame[w], frame'[w])
              \/ frame' = frame /\ damage' \in IfNeeded(l, w)
           /\ drag' = [drag EXCEPT ![u] = d]
           /\ UNCHANGED gesture
  <2>1. /\ square' = square /\ console' = console /\ drag' \in [Users -> Drags]
        /\ drag'[u] = d /\ \A v \in Users : v # u => drag'[v] = drag[v]
    BY <1>1, <1>3 DEF gesture
  <2> DEFINE f == [frame[w] EXCEPT !.y = y - square[w].dy]
  <2>2. frame' = [frame EXCEPT ![w] = f]
    BY <1>1, <1>3
  <2>3. square[w].dy \in Int
    BY <1>1 DEF Grip
  <2>4. f \in Frame
    BY <1>1, <2>3 DEF Frame
  <2> HIDE DEF f
  <2>5. /\ frame' \in [Windows -> Frame] /\ frame'[w] = f
        /\ \A v \in Windows : v # w => frame'[v] = frame[v]
    BY <1>1, <2>2, <2>4
  <2>6. damage' \in List
    BY <1>1, <1>3, <2>4, <2>5, MovedDamageIs, IfNeededType
  <2>7. /\ frame' # frame /\ damage'.n < MaxDamage =>
             \A x \in Screen \ damage'.places :
               x \notin Span(frame[w]) /\ x \notin Span(frame'[w])
    <3> SUFFICES ASSUME frame' # frame, damage'.n < MaxDamage,
                        NEW x \in Screen \ damage'.places
                 PROVE  x \notin Span(frame[w]) /\ x \notin Span(frame'[w])
      OBVIOUS
    <3>1. OnScreen(frame[w]) \cup OnScreen(frame'[w]) \subseteq damage'.places
      BY <1>1, <1>3, <2>4, <2>5, MovedDamageIs
    <3> QED BY <3>1 DEF OnScreen
  <2> QED BY <1>1, <1>3, <2>1, <2>5, <2>6, <2>7
<1>4. CASE /\ damage' \in IfNeeded(l, w)
           /\ drag' = [drag EXCEPT ![u] = d]
           /\ UNCHANGED <<frame, gesture>>
  <2>1. damage' \in List
    BY <1>1, <1>4, IfNeededType
  <2> QED BY <1>1, <1>4, <2>1 DEF gesture
<1> QED BY <1>2, <1>3, <1>4 DEF MoveSquare

(* One over a console view drags its text, and then no click is to come,   *)
(* or does nothing.                                                        *)
LEMMA MoveConsoleType ==
  ASSUME Typed, NEW w \in Consoles, NEW u \in Users, NEW y \in Int, NEW d \in Drags,
         NEW l \in List, MoveConsole(w, u, y, d, l)
  PROVE  /\ frame' = frame /\ square' = square /\ damage' \in List
         /\ drag' \in [Users -> Drags] /\ console' \in [Consoles -> Click]
         /\ \A v \in Users : v # u => drag'[v] = drag[v]
         /\ \A v \in Consoles : v # w => console'[v] = console[v]
         /\ \/ drag'[u] = d
               /\ (console'[w].pending => console[w].pending)
            \/ drag'[u] = Started(w) /\ console'[w].pending = FALSE
<1>1. /\ w \in Windows /\ console \in [Consoles -> Click] /\ drag \in [Users -> Drags]
  BY DEF Typed, Consoles
<1>2. frame' = frame /\ square' = square /\ damage' \in List
  BY <1>1, IfNeededType DEF MoveConsole
<1>3. Started(w) \in Drags
  BY <1>1, StartType
<1>4. CASE /\ \E line \in BOOLEAN :
                drag' = [drag EXCEPT ![u] =
                           IF console[w].placeholder \/ line THEN Started(w) ELSE d]
           /\ console' = [console EXCEPT
                ![w] = [@ EXCEPT !.placeholder = FALSE, !.pending = FALSE]]
  <2>1. \/ drag' = [drag EXCEPT ![u] = Started(w)]
        \/ drag' = [drag EXCEPT ![u] = d]
    BY <1>4
  <2>2. /\ drag' \in [Users -> Drags] /\ drag'[u] \in {Started(w), d}
        /\ \A v \in Users : v # u => drag'[v] = drag[v]
    BY <1>1, <1>3, <2>1
  <2> DEFINE c == [console[w] EXCEPT !.placeholder = FALSE, !.pending = FALSE]
  <2>3. console' = [console EXCEPT ![w] = c]
    BY <1>1, <1>4
  <2>4. c \in Click /\ c.pending = FALSE
    <3>1. console[w] \in Click
      BY <1>1
    <3> QED BY <3>1 DEF Click
  <2> HIDE DEF c
  <2>5. /\ console' \in [Consoles -> Click] /\ console'[w].pending = FALSE
        /\ \A v \in Consoles : v # w => console'[v] = console[v]
    BY <1>1, <2>3, <2>4
  <2> QED BY <1>2, <2>2, <2>5
<1>5. CASE drag' = [drag EXCEPT ![u] = d] /\ UNCHANGED console
  BY <1>1, <1>2, <1>5
<1> QED BY <1>4, <1>5 DEF MoveConsole

(* A square is let go.                                                     *)
LEMMA ReleaseSquareType ==
  ASSUME Typed, NEW w \in Squares, ReleaseSquare(w)
  PROVE  /\ square' \in [Squares -> Grip] /\ console' = console
         /\ square'[w] = NoGrip
         /\ \A v \in Squares : v # w => square'[v] = square[v]
<1>1. NoGrip \in Grip
  BY DEF NoGrip, Grip
<1>2. square \in [Squares -> Grip] /\ square' = [square EXCEPT ![w] = NoGrip]
      /\ console' = console
  BY DEF Typed, ReleaseSquare
<1> QED BY <1>1, <1>2

(* A console view is disarmed, or nothing happens to it.                   *)
LEMMA ReleaseConsoleType ==
  ASSUME Typed, NEW w \in Consoles, NEW y, ReleaseConsole(w, y)
  PROVE  console' \in [Consoles -> Click] /\ square' = square
<1>1. console \in [Consoles -> Click] /\ NoClick \in Click
  BY DEF Typed, NoClick, Click
<1>2. /\ console' \in {console, [console EXCEPT ![w] = NoClick]}
      /\ square' = square
  BY DEF ReleaseConsole
<1> QED BY <1>1, <1>2

-----------------------------------------------------------------------------
(* Gestures                                                                *)

(* The background is as high as the screen.                                *)
Backed == \E w \in Windows : Kind[w] = "paint" /\ frame[w] = [y |-> 0, h |-> height]

(* OneGesture, with what a press finds and leaves: while the button is     *)
(* down the window on top has the focus, and a grip is of one kind.        *)
Gripped ==
  /\ focus[active] \in {None, OnTop}
  /\ held => focus[active] = OnTop
  /\ \A u \in Users : drag[u].on =>
       /\ held /\ u = active /\ drag[u].source = OnTop
       /\ OnTop \in Consoles => ~console[OnTop].pending
  /\ \A w \in Squares : square[w].arm \/ square[w].moving =>
       /\ held /\ w = focus[active] /\ ~drag[active].on
       /\ ~(square[w].arm /\ square[w].moving)

(* At the start nothing is held.                                           *)
LEMMA InitGripped ==
  ASSUME Init
  PROVE  Backed /\ Gripped
<1>1. Backed
  BY WmAssumption DEF Backed, Init
<1>2. /\ focus = [u \in Users |-> None] /\ active = 0 /\ 0 \in Users
      /\ drag = [u \in Users |-> NoDrag] /\ square = [w \in Squares |-> NoGrip]
      /\ held = FALSE
  BY WmAssumption DEF Init
<1> QED BY <1>1, <1>2 DEF Gripped, NoDrag, NoGrip

(* A press adds the frame of the window it raises.                         *)
LEMMA PressDamage ==
  ASSUME StackOK, Typed, NEW u, NEW y \in Int, Press(u, y)
  PROVE  /\ damage' \in List
         /\ damage'.n < MaxDamage => OnScreen(frame[TopmostAt(y)]) \subseteq damage'.places
<1> DEFINE w == TopmostAt(y)
<1>1. w \in Windows /\ damage \in List
  BY PressRaises DEF Typed
<1>2. PICK l \in Overlaid(u, y) : damage' = RaisedDamage(l, frame[w])
  BY DEF Press
<1> HIDE DEF w
<1>3. l \in List /\ frame[w] \in Frame
  BY <1>1, OverlaidType DEF Typed
<1> QED BY <1>2, <1>3, RaisedDamageIs DEF w

(* A press begins where nothing is held.                                   *)
LEMMA PressStep ==
  ASSUME StackOK, Typed, Backed, Gripped, NEW u \in Users, NEW y \in Int, Press(u, y)
  PROVE  Typed' /\ Backed' /\ Gripped'
<1> DEFINE w == TopmostAt(y)
<1>1. w \in Windows /\ Raise(w)
  BY PressRaises
<1>2. OnTop' = w
  BY <1>1, RaiseStack
<1>3. /\ held = FALSE /\ held' = TRUE /\ active' = u
      /\ focus' = [focus EXCEPT ![u] = w]
      /\ drag' = [drag EXCEPT ![u] = Hovered(drag[u], w)]
      /\ frame' = frame /\ height' = height
  BY DEF Press, Focused, Typed
<1>4. /\ Kind[w] = "square" => PressSquare(w, y)
      /\ Kind[w] = "console" => PressConsole(w, y)
      /\ Kind[w] \notin {"square", "console"} => UNCHANGED gesture
  BY DEF Press
<1> HIDE DEF w
<1>5. /\ frame \in [Windows -> Frame] /\ focus \in [Users -> Windows \cup {None}]
      /\ drag \in [Users -> Drags] /\ square \in [Squares -> Grip]
      /\ console \in [Consoles -> Click] /\ height \in Heights
  BY DEF Typed
<1>6. /\ \A v \in Users : drag[v].on = FALSE
      /\ \A v \in Squares : square[v].arm = FALSE /\ square[v].moving = FALSE
  BY <1>3, <1>5 DEF Gripped, Drags, Grip
<1>7. /\ focus' \in [Users -> Windows \cup {None}] /\ focus'[u] = w
  BY <1>1, <1>2, <1>3, <1>5
<1>8. /\ drag' \in [Users -> Drags] /\ \A v \in Users : drag'[v].on = FALSE
  <2> DEFINE d == Hovered(drag[u], w)
  <2>1. d \in Drags /\ d.on = FALSE
    BY <1>1, <1>5, <1>6, HoverType
  <2> HIDE DEF d
  <2>2. drag' = [drag EXCEPT ![u] = d]
    BY <1>3 DEF d
  <2>3. /\ drag' \in [Users -> Drags] /\ drag'[u] = d
        /\ \A v \in Users : v # u => drag'[v] = drag[v]
    BY <1>5, <2>1, <2>2
  <2> QED BY <1>6, <2>1, <2>3
<1>9. /\ square' \in [Squares -> Grip] /\ console' \in [Consoles -> Click]
      /\ \A v \in Squares : square'[v].arm \/ square'[v].moving =>
           v = w /\ ~(square'[v].arm /\ square'[v].moving)
  <2>1. CASE Kind[w] = "square"
    <3>1. w \in Squares /\ PressSquare(w, y)
      BY <1>1, <1>4, <2>1, KindIs
    <3>2. /\ square' \in [Squares -> Grip] /\ console' = console
          /\ \A v \in Squares : v # w => square'[v] = square[v]
          /\ \/ square'[w].arm = TRUE /\ square'[w].moving = square[w].moving
             \/ square'[w].moving = TRUE /\ square'[w].arm = square[w].arm
      BY <3>1, PressSquareType
    <3> QED BY <1>5, <1>6, <3>1, <3>2
  <2>2. CASE Kind[w] = "console"
    <3>1. w \in Consoles /\ PressConsole(w, y)
      BY <1>1, <1>4, <2>2, KindIs
    <3>2. console' \in [Consoles -> Click] /\ square' = square
      BY <3>1, PressConsoleType
    <3> QED BY <1>5, <1>6, <3>2
  <2>3. CASE Kind[w] # "square" /\ Kind[w] # "console"
    <3>1. square' = square /\ console' = console
      BY <1>4, <2>3 DEF gesture
    <3> QED BY <1>5, <1>6, <3>1
  <2> QED BY <2>1, <2>2, <2>3
<1>10. Typed'
  <2>1. damage' \in List
    BY PressDamage
  <2> QED BY <1>3, <1>5, <1>7, <1>8, <1>9, <2>1 DEF Typed
<1>11. Backed'
  BY <1>3 DEF Backed
<1>12. Gripped'
  BY <1>2, <1>3, <1>7, <1>8, <1>9 DEF Gripped
<1> QED BY <1>10, <1>11, <1>12

(* What a drag and a console view keep while the window on top handles     *)
(* something: the drag stays what it is, nothing new waits for a click.    *)
Kept ==
  /\ UNCHANGED <<order, active, held, focus>>
  /\ square' = square
  /\ \A u \in Users : drag'[u].on = drag[u].on /\ drag'[u].source = drag[u].source
  /\ \A w \in Consoles : console'[w].pending => console[w].pending

(* Then there is still one gesture.                                        *)
LEMMA KeptGripped ==
  ASSUME Typed, Gripped, Kept
  PROVE  Gripped'
<1>1. OnTop' = OnTop
  BY DEF Kept, OnTop
<1>2. /\ active' = active /\ held' = held /\ focus' = focus /\ square' = square
      /\ active \in Users
  BY DEF Kept, Typed
<1>3. \A u \in Users : drag'[u].on = drag[u].on /\ drag'[u].source = drag[u].source
  BY DEF Kept
<1>4. \A w \in Consoles : console'[w].pending => console[w].pending
  BY DEF Kept
<1>5. focus'[active'] \in {None, OnTop'} /\ (held' => focus'[active'] = OnTop')
  BY <1>1, <1>2 DEF Gripped
<1>6. \A u \in Users : drag'[u].on =>
        /\ held' /\ u = active' /\ drag'[u].source = OnTop'
        /\ OnTop' \in Consoles => ~console'[OnTop'].pending
  BY <1>1, <1>2, <1>3, <1>4 DEF Gripped
<1>7. \A w \in Squares : square'[w].arm \/ square'[w].moving =>
        /\ held' /\ w = focus'[active'] /\ ~drag'[active'].on
        /\ ~(square'[w].arm /\ square'[w].moving)
  BY <1>2, <1>3 DEF Gripped
<1> QED BY <1>5, <1>6, <1>7 DEF Gripped

(* While the button is down events are for the window on top.              *)
LEMMA TargetIs ==
  ASSUME StackOK, Typed, Gripped, held, NEW y
  PROVE  Target(active, y) = OnTop /\ OnTop \in Windows
<1>1. OnTop \in Windows /\ None \notin Windows
  BY TopIs, WmAssumption
<1>2. focus[active] = OnTop
  BY DEF Gripped
<1> QED BY <1>1, <1>2 DEF Target

(* The window on top handles a movement.                                   *)
LEMMA MoveStep ==
  ASSUME StackOK, Typed, Backed, Gripped, NEW y \in Int, Move(y)
  PROVE  Typed' /\ Backed' /\ Gripped'
<1> DEFINE t == OnTop
           u == active
           d == Hovered(drag[active], TopmostAt(y))
<1>1. held /\ UNCHANGED <<order, height, active, held, focus>>
  BY DEF Move, stack
<1>2. Target(active, y) = t /\ t \in Windows
  BY <1>1, TargetIs
<1>3. /\ frame \in [Windows -> Frame] /\ u \in Users /\ drag \in [Users -> Drags]
      /\ square \in [Squares -> Grip] /\ console \in [Consoles -> Click]
      /\ height \in Heights /\ held \in BOOLEAN
      /\ focus \in [Users -> Windows \cup {None}]
  BY DEF Typed
<1>4. d \in Drags /\ d.on = drag[u].on /\ d.source = drag[u].source
  BY <1>3, HitType, HoverType
<1>5. PICK l \in Overlaid(active, y) :
        /\ Kind[t] = "square" => MoveSquare(t, u, y, d, l)
        /\ Kind[t] = "console" => MoveConsole(t, u, y, d, l)
        /\ Kind[t] \notin {"square", "console"} =>
             /\ drag' = [drag EXCEPT ![u] = d] /\ damage' \in IfNeeded(l, t)
             /\ UNCHANGED <<frame, gesture>>
  BY <1>2 DEF Move
<1>10. l \in List
  BY OverlaidType DEF Typed
<1>6. focus[active] = t /\ focus' = focus /\ active' = active /\ held' = held /\ OnTop' = t
  BY <1>1 DEF Gripped, OnTop
<1> HIDE DEF t, d, u
<1>7. ASSUME Kind[t] = "square"
      PROVE  Typed' /\ Backed' /\ Gripped'
  <2>1. t \in Squares /\ t \notin Consoles
    BY <1>2, <1>7, KindIs
  <2>2. MoveSquare(t, u, y, d, l)
    BY <1>5, <1>7
  <2>3. /\ frame' \in [Windows -> Frame] /\ drag' \in [Users -> Drags]
        /\ square' \in [Squares -> Grip] /\ console' = console
        /\ damage' \in List
        /\ \A v \in Windows : v # t => frame'[v] = frame[v]
        /\ \A v \in Users : v # u => drag'[v] = drag[v]
        /\ \A v \in Squares : v # t => square'[v] = square[v]
        /\ \/ /\ square[t].arm /\ drag'[u] = Started(t)
              /\ square'[t].arm = FALSE /\ square'[t].moving = square[t].moving
           \/ drag'[u] = d /\ square' = square
    BY <1>3, <1>4, <1>10, <2>1, <2>2, MoveSquareType
  <2>4. Typed'
    BY <1>1, <1>3, <2>3 DEF Typed, u
  <2>5. Backed'
    <3>1. PICK w \in Windows : Kind[w] = "paint" /\ frame[w] = [y |-> 0, h |-> height]
      BY DEF Backed
    <3>2. frame'[w] = frame[w] /\ height' = height
      BY <1>1, <1>7, <2>3, <3>1
    <3> QED BY <3>1, <3>2 DEF Backed
  <2>6. CASE drag'[u] = d /\ square' = square
    <3>1. \A v \in Users : drag'[v].on = drag[v].on /\ drag'[v].source = drag[v].source
      BY <1>4, <2>3, <2>6
    <3>2. Kept
      BY <1>1, <2>3, <2>6, <3>1 DEF Kept
    <3> QED BY <2>4, <2>5, <3>2, KeptGripped
  <2>7. CASE /\ square[t].arm /\ drag'[u] = Started(t)
             /\ square'[t].arm = FALSE /\ square'[t].moving = square[t].moving
    <3>1. drag'[u].on = TRUE /\ drag'[u].source = t
      BY <1>2, <2>7, StartType
    <3>2. square[t].moving = FALSE /\ \A v \in Users : drag[v].on = FALSE
      BY <1>3, <2>1, <2>7 DEF Gripped, Grip, Drags, u
    <3>3. \A v \in Squares : v # t => ~(square[v].arm \/ square[v].moving)
      BY <1>6 DEF Gripped
    <3>4. \A v \in Squares : ~(square'[v].arm \/ square'[v].moving)
      BY <2>3, <2>7, <3>2, <3>3
    <3>5. \A v \in Users : drag'[v].on => v = u
      BY <2>3, <3>2
    <3> QED BY <1>1, <1>6, <2>1, <2>4, <2>5, <3>1, <3>4, <3>5 DEF Gripped, u
  <2> QED BY <2>3, <2>6, <2>7
<1>8. ASSUME Kind[t] = "console"
      PROVE  Typed' /\ Backed' /\ Gripped'
  <2>1. t \in Consoles /\ t \notin Squares
    BY <1>2, <1>8, KindIs
  <2>2. MoveConsole(t, u, y, d, l)
    BY <1>5, <1>8
  <2>3. /\ frame' = frame /\ square' = square /\ damage' \in List
        /\ drag' \in [Users -> Drags] /\ console' \in [Consoles -> Click]
        /\ \A v \in Users : v # u => drag'[v] = drag[v]
        /\ \A v \in Consoles : v # t => console'[v] = console[v]
        /\ \/ drag'[u] = d
              /\ (console'[t].pending => console[t].pending)
           \/ drag'[u] = Started(t) /\ console'[t].pending = FALSE
    BY <1>3, <1>4, <1>10, <2>1, <2>2, MoveConsoleType
  <2>4. Typed'
    BY <1>1, <1>3, <2>3 DEF Typed, u
  <2>5. Backed'
    BY <1>1, <2>3 DEF Backed
  <2>6. CASE drag'[u] = d /\ (console'[t].pending => console[t].pending)
    <3>1. \A v \in Users : drag'[v].on = drag[v].on /\ drag'[v].source = drag[v].source
      BY <1>4, <2>3, <2>6
    <3>2. \A v \in Consoles : console'[v].pending => console[v].pending
      BY <2>3, <2>6
    <3>3. Kept
      BY <1>1, <2>3, <3>1, <3>2 DEF Kept
    <3> QED BY <2>4, <2>5, <3>3, KeptGripped
  <2>7. CASE drag'[u] = Started(t) /\ console'[t].pending = FALSE
    <3>1. drag'[u].on = TRUE /\ drag'[u].source = t
      BY <1>2, <2>7, StartType
    <3>2. \A v \in Users : v # u => ~drag'[v].on
      BY <2>3 DEF Gripped, u
    <3>3. \A v \in Squares : ~(square'[v].arm \/ square'[v].moving)
      BY <1>6, <2>1, <2>3 DEF Gripped
    <3> QED BY <1>1, <1>6, <2>4, <2>5, <2>7, <3>1, <3>2, <3>3 DEF Gripped, u
  <2> QED BY <2>3, <2>6, <2>7
<1>9. ASSUME Kind[t] \notin {"square", "console"}
      PROVE  Typed' /\ Backed' /\ Gripped'
  <2>1. /\ drag' = [drag EXCEPT ![u] = d] /\ damage' \in List /\ frame' = frame
        /\ square' = square /\ console' = console
    BY <1>2, <1>5, <1>9, <1>10, IfNeededType DEF gesture
  <2>2. /\ drag' \in [Users -> Drags] /\ drag'[u] = d
        /\ \A v \in Users : v # u => drag'[v] = drag[v]
    BY <1>3, <1>4, <2>1
  <2>3. Typed'
    BY <1>1, <1>3, <2>1, <2>2 DEF Typed, u
  <2>4. Backed'
    BY <1>1, <2>1 DEF Backed
  <2>5. \A v \in Users : drag'[v].on = drag[v].on /\ drag'[v].source = drag[v].source
    BY <1>4, <2>2
  <2>6. Kept
    BY <1>1, <2>1, <2>5 DEF Kept
  <2> QED BY <2>3, <2>4, <2>6, KeptGripped
<1> QED BY <1>7, <1>8, <1>9

(* With the button everything is let go.                                   *)
LEMMA ReleaseStep ==
  ASSUME StackOK, Typed, Backed, Gripped, NEW y \in Int, Release(y)
  PROVE  Typed' /\ Backed' /\ Gripped'
<1> DEFINE t == OnTop
           u == active
<1>1. /\ held /\ held' = FALSE
      /\ UNCHANGED <<order, frame, height, active, focus>>
  BY DEF Release, stack
<1>2. Target(active, y) = t /\ t \in Windows
  BY <1>1, TargetIs
<1>3. /\ u \in Users /\ drag \in [Users -> Drags]
      /\ square \in [Squares -> Grip] /\ console \in [Consoles -> Click]
  BY DEF Typed
<1>4. /\ drag[u].on => drag' = [drag EXCEPT ![u] = NoDrag] /\ UNCHANGED gesture
      /\ ~drag[u].on =>
           /\ drag' = drag
           /\ Kind[t] = "square" => ReleaseSquare(t)
           /\ Kind[t] = "console" => ReleaseConsole(t, y)
           /\ Kind[t] \notin {"square", "console"} => UNCHANGED gesture
  BY <1>2 DEF Release
<1>5. focus[active] = t /\ focus' = focus /\ active' = active /\ OnTop' = t
  BY <1>1 DEF Gripped, OnTop
<1>6. /\ \A v \in Users : v # u => ~drag[v].on
      /\ \A v \in Squares : square[v].arm \/ square[v].moving => v = t /\ ~drag[u].on
  BY <1>5 DEF Gripped
<1>7. NoDrag \in Drags /\ NoDrag.on = FALSE /\ NoGrip.arm = FALSE /\ NoGrip.moving = FALSE
  BY DEF NoDrag, NoGrip, Drags
<1> HIDE DEF t, u
<1>8. drag' \in [Users -> Drags] /\ \A v \in Users : ~drag'[v].on
  BY <1>3, <1>4, <1>6, <1>7
<1>9. /\ square' \in [Squares -> Grip] /\ console' \in [Consoles -> Click]
      /\ \A v \in Squares : ~(square'[v].arm \/ square'[v].moving)
  <2>1. CASE drag[u].on
    BY <1>3, <1>4, <1>6, <2>1 DEF gesture
  <2>2. CASE ~drag[u].on /\ Kind[t] = "square"
    <3>1. t \in Squares /\ ReleaseSquare(t)
      BY <1>2, <1>4, <2>2, KindIs
    <3>2. /\ square' \in [Squares -> Grip] /\ console' = console
          /\ square'[t] = NoGrip
          /\ \A v \in Squares : v # t => square'[v] = square[v]
      BY <3>1, ReleaseSquareType
    <3> QED BY <1>3, <1>6, <1>7, <3>2
  <2>3. CASE ~drag[u].on /\ Kind[t] = "console"
    <3>1. t \in Consoles /\ t \notin Squares /\ ReleaseConsole(t, y)
      BY <1>2, <1>4, <2>3, KindIs
    <3>2. console' \in [Consoles -> Click] /\ square' = square
      BY <1>3, <3>1, ReleaseConsoleType
    <3> QED BY <1>3, <1>6, <3>1, <3>2
  <2>4. CASE ~drag[u].on /\ Kind[t] \notin {"square", "console"}
    <3>1. square' = square /\ console' = console
      BY <1>4, <2>4 DEF gesture
    <3>2. t \notin Squares
      BY <1>2, <2>4, KindIs
    <3> QED BY <1>3, <1>6, <3>1, <3>2
  <2> QED BY <2>1, <2>2, <2>3, <2>4
<1>10. Typed'
  <2>1. damage' \in Overlaid(active, y) \cup IfNeeded(damage, t)
    BY <1>2 DEF Release
  <2>2. damage' \in List
    BY <1>2, <2>1, OverlaidType, IfNeededType DEF Typed
  <2> QED BY <1>1, <1>8, <1>9, <2>2 DEF Typed
<1>11. Backed'
  BY <1>1 DEF Backed
<1>12. Gripped'
  BY <1>1, <1>5, <1>8, <1>9 DEF Gripped
<1> QED BY <1>10, <1>11, <1>12

(* The wheel, other buttons and a free pointer change no gesture.          *)
LEMMA OtherStep ==
  ASSUME StackOK, Typed, Backed, Gripped, NEW y \in Int, Other(y)
  PROVE  Typed' /\ Backed' /\ Gripped'
<1> DEFINE u == active
           d == Hovered(drag[u], TopmostAt(y))
<1>1. /\ drag' = [drag EXCEPT ![u] = d]
      /\ UNCHANGED <<order, frame, height, active, held, focus, square, console>>
  BY DEF Other, stack, gesture
<1>2. drag \in [Users -> Drags] /\ u \in Users
  BY DEF Typed
<1>3. d \in Drags /\ d.on = drag[u].on /\ d.source = drag[u].source
  BY <1>2, HitType, HoverType
<1> HIDE DEF d, u
<1>4. /\ drag' \in [Users -> Drags] /\ drag'[u] = d
      /\ \A v \in Users : v # u => drag'[v] = drag[v]
  BY <1>1, <1>2, <1>3
<1>5. \A v \in Users : drag'[v].on = drag[v].on /\ drag'[v].source = drag[v].source
  BY <1>3, <1>4
<1>9. damage' \in List
  <2>1. Target(active, y) \in Windows
    <3>1. active \in Users /\ focus[active] \in Windows \cup {None}
      BY DEF Typed
    <3> QED BY <3>1, HitType DEF Other, Target
  <2>2. PICK l \in Overlaid(active, y) : damage' \in IfNeeded(l, Target(active, y))
    BY DEF Other
  <2>3. l \in List
    BY OverlaidType DEF Typed
  <2> QED BY <2>1, <2>2, <2>3, IfNeededType
<1>6. Typed'
  BY <1>1, <1>4, <1>9 DEF Typed
<1>7. Backed'
  BY <1>1 DEF Backed
<1>8. Kept
  BY <1>1, <1>5 DEF Kept
<1> QED BY <1>6, <1>7, <1>8, KeptGripped

(* Content and frames only change the list of damage.                      *)
LEMMA DamageStep ==
  ASSUME StackOK, Typed, Backed, Gripped,
         (\E w \in Windows : Content(w)) \/ Expose \/ Compose
  PROVE  Typed' /\ Backed' /\ Gripped'
<1>1. UNCHANGED <<order, frame, height, active, held, focus, drag, square, console>>
  BY DEF Content, Expose, Compose, stack, routing, gesture
<1>2. damage' \in List
  <2>1. damage \in List /\ frame \in [Windows -> Frame]
    BY DEF Typed
  <2>2. ASSUME NEW w \in Windows, Content(w) PROVE damage' \in List
    <3>1. PICK part : damage' = Added(damage, OnScreen(part))
      BY <2>2 DEF Content
    <3>2. OnScreen(part) \in SUBSET Int
      BY DEF OnScreen, Screen
    <3> QED BY <2>1, <3>1, <3>2, AddedIs
  <2>3. CASE Expose
    <3>1. Screen \in SUBSET Int
      BY DEF Screen
    <3> QED BY <2>1, <2>3, <3>1, AddedIs DEF Expose
  <2>4. CASE Compose
    BY <2>4, WmAssumption DEF Compose, NoDamage, List
  <2> QED BY <2>2, <2>3, <2>4
<1>3. Typed' /\ Backed'
  BY <1>1, <1>2 DEF Typed, Backed
<1>4. Kept
  BY <1>1 DEF Kept
<1> QED BY <1>3, <1>4, KeptGripped

(* The greater of two numbers is one of them.                              *)
LEMMA MaxOfTwo ==
  ASSUME NEW a \in Int, NEW b \in Int
  PROVE  Max({a, b}) \in Int /\ Max({a, b}) >= a /\ Max({a, b}) >= b
<1>1. \E x \in {a, b} : \A v \in {a, b} : x >= v
  <2>1. CASE a >= b
    BY <2>1
  <2>2. CASE b >= a
    BY <2>2
  <2> QED BY <2>1, <2>2
<1>2. Max({a, b}) \in {a, b} /\ \A v \in {a, b} : Max({a, b}) >= v
  BY <1>1 DEF Max
<1> QED BY <1>2

(* The lesser of two too.                                                  *)
LEMMA MinOfTwo ==
  ASSUME NEW a \in Int, NEW b \in Int
  PROVE  Min({a, b}) \in {a, b} /\ Min({a, b}) <= a /\ Min({a, b}) <= b
<1>1. \E x \in {a, b} : \A v \in {a, b} : x <= v
  <2>1. CASE a <= b
    BY <2>1
  <2>2. CASE b <= a
    BY <2>2
  <2> QED BY <2>1, <2>2
<1>2. Min({a, b}) \in {a, b} /\ \A v \in {a, b} : Min({a, b}) <= v
  BY <1>1 DEF Min
<1> QED BY <1>2

(* A resize adds the new screen first of all.                              *)
LEMMA ResizeDamage ==
  ASSUME Typed, NEW h, Resize(h)
  PROVE  /\ damage' \in List
         /\ damage'.n < MaxDamage => 0 .. h - 1 \subseteq damage'.places
<1> DEFINE c == Cardinality(Windows)
           e == Added(damage, 0 .. h - 1)
<1>1. PICK k \in c .. 2 * c :
        damage' = [e EXCEPT !.n = Min({damage.n + 2 + k, MaxDamage})]
  BY DEF Resize
<1>2. c \in Nat /\ damage \in List
  BY Counting DEF Typed
<1> HIDE DEF c
<1> DEFINE n == damage.n + 2 + k
           m == Min({n, MaxDamage})
<1>3. n \in Nat /\ damage.n \in Nat /\ damage.n < n /\ MaxDamage \in Nat
  BY <1>1, <1>2, WmAssumption DEF List
<1> HIDE DEF n
<1>4. m \in {n, MaxDamage} /\ m <= n /\ m <= MaxDamage
  <2>1. n \in Int /\ MaxDamage \in Int
    BY <1>3
  <2>2. Min({n, MaxDamage}) \in {n, MaxDamage} /\ Min({n, MaxDamage}) <= n
          /\ Min({n, MaxDamage}) <= MaxDamage
    BY <2>1, MinOfTwo
  <2> QED BY <2>2
<1>5. damage' = [e EXCEPT !.n = m]
  BY <1>1 DEF n, m
<1> HIDE DEF m
<1>6. 0 .. h - 1 \in SUBSET Int
  OBVIOUS
<1>7. e \in List
  BY <1>2, <1>6, AddedIs
<1>8. damage.n < MaxDamage => 0 .. h - 1 \subseteq e.places
  BY DEF Added
<1> HIDE DEF e
<1>9. damage' \in List /\ damage'.n = m /\ damage'.places = e.places
  <2>1. m \in 0 .. MaxDamage
    BY <1>3, <1>4
  <2> QED BY <1>5, <1>7, <2>1 DEF List
<1>10. m < MaxDamage => damage.n < MaxDamage
  BY <1>3, <1>4
<1> QED BY <1>8, <1>9, <1>10

(* The background goes with the screen, and windows keep their heights.    *)
LEMMA ResizeStep ==
  ASSUME StackOK, Typed, Backed, Gripped, NEW h, Resize(h)
  PROVE  Typed' /\ Backed' /\ Gripped'
<1>1. /\ h \in Heights /\ height' = h
      /\ frame' = [w \in Windows |-> Resized(frame[w], height, h)]
      /\ UNCHANGED <<order, active, held, focus, drag, square, console>>
  BY DEF Resize, stack, routing, gesture
<1>2. h \in Nat \ {0} /\ height \in Nat \ {0} /\ frame \in [Windows -> Frame]
  BY <1>1, WmAssumption DEF Typed
<1>3. ASSUME NEW f \in Frame
      PROVE  Resized(f, height, h) \in Frame
  <2>1. f.y \in Int /\ f.h \in Nat \ {0}
    BY <1>3 DEF Frame
  <2> DEFINE a == Max({h - f.h, 0})
             b == Max({f.y, 0})
  <2>2. a \in Int /\ b \in Int
    <3>1. h - f.h \in Int /\ 0 \in Int
      BY <1>2, <2>1
    <3>2. a \in Int
      BY <3>1, MaxOfTwo
    <3>3. b \in Int
      BY <2>1, <3>1, MaxOfTwo
    <3> QED BY <3>2, <3>3
  <2> HIDE DEF a, b
  <2>3. [f EXCEPT !.y = a] \in Frame /\ [f EXCEPT !.y = b] \in Frame
    BY <1>3, <2>2 DEF Frame
  <2>4. [y |-> 0, h |-> h] \in Frame
    BY <1>2 DEF Frame
  <2> QED BY <2>3, <2>4 DEF Resized, Inside, a, b
<1>4. frame' \in [Windows -> Frame]
  BY <1>1, <1>2, <1>3
<1>5. damage' \in List
  BY <1>1, ResizeDamage
<1>6. Typed'
  BY <1>1, <1>4, <1>5 DEF Typed
<1>7. Backed'
  <2>1. PICK w \in Windows : Kind[w] = "paint" /\ frame[w] = [y |-> 0, h |-> height]
    BY DEF Backed
  <2>2. frame'[w] = [y |-> 0, h |-> h]
    BY <1>1, <2>1 DEF Resized
  <2> QED BY <1>1, <2>1, <2>2 DEF Backed
<1>8. Kept
  BY <1>1 DEF Kept
<1> QED BY <1>6, <1>7, <1>8, KeptGripped

(* A typed, backed and gripped state stays so.                             *)
LEMMA NextGripped ==
  ASSUME StackOK, Typed, Backed, Gripped, [Next]_vars
  PROVE  Typed' /\ Backed' /\ Gripped'
<1>1. ASSUME NEW u \in Users, NEW y \in 0 .. Top, Press(u, y)
      PROVE  Typed' /\ Backed' /\ Gripped'
  <2>1. y \in Int
    OBVIOUS
  <2> QED BY <1>1, <2>1, PressStep
<1>2. ASSUME NEW y \in -1 .. Top, Move(y) \/ Release(y) \/ Other(y)
      PROVE  Typed' /\ Backed' /\ Gripped'
  <2>1. y \in Int
    OBVIOUS
  <2> QED BY <1>2, <2>1, MoveStep, ReleaseStep, OtherStep
<1>3. CASE (\E w \in Windows : Content(w)) \/ Expose \/ Compose
  BY <1>3, DamageStep
<1>4. ASSUME NEW h \in Heights, Resize(h)
      PROVE  Typed' /\ Backed' /\ Gripped'
  BY <1>4, ResizeStep
<1>5. CASE UNCHANGED vars
  <2>1. /\ UNCHANGED <<order, frame, height, active, held, focus, drag, square, console>>
        /\ damage' = damage
    BY <1>5 DEF vars, stack, routing, gesture
  <2>2. Typed' /\ Backed'
    BY <2>1 DEF Typed, Backed
  <2>3. Kept
    BY <2>1 DEF Kept
  <2> QED BY <2>2, <2>3, KeptGripped
<1> QED BY <1>1, <1>2, <1>3, <1>4, <1>5 DEF Next

(* The button, the focus, the drag and the grips of all users stay         *)
(* together as long as the program runs.                                   *)
THEOREM StaysGripped == Spec => [](Typed /\ Backed /\ Gripped)
<1>1. Init => StackOK /\ Typed /\ Backed /\ Gripped
  BY InitStack, InitTyped, InitGripped
<1>2. StackOK /\ Typed /\ Backed /\ Gripped /\ [Next]_vars
        => (StackOK /\ Typed /\ Backed /\ Gripped)'
  BY NextStack, NextGripped
<1> QED BY <1>1, <1>2, PTL DEF Spec

(* The types of the window manager and its windows, zindexes that are      *)
(* distinct and an array with every window once, for every number of       *)
(* windows and users and every size of the screen.                         *)
THEOREM StaysTyped == Spec => []TypeOK
<1>1. StackOK /\ Typed => TypeOK
  BY TypesAre
<1> QED BY <1>1, StaysStacked, StaysGripped, PTL

(* There is a window at every place of the screen, whatever it is resized  *)
(* to (wm.c:80): a press always finds one (input.c:10).                    *)
THEOREM ScreenStaysCovered == Spec => []ScreenIsCovered
<1>1. StackOK /\ Typed /\ Backed => ScreenIsCovered
  <2> SUFFICES ASSUME StackOK, Typed, Backed, NEW y \in Screen
               PROVE  TopmostAt(y) # None
    BY DEF ScreenIsCovered
  <2>1. PICK w \in Windows : frame[w] = [y |-> 0, h |-> height]
    BY DEF Backed
  <2>2. y \in Span(frame[w])
    <3>1. height \in Int /\ y \in 0 .. height - 1
      BY WmAssumption DEF Typed, Screen
    <3>2. frame[w].y = 0 /\ frame[w].h = height
      BY <2>1
    <3> QED BY <3>1, <3>2 DEF Span
  <2> QED BY <2>2, HitType
<1> QED BY <1>1, StaysStacked, StaysGripped, PTL

(* A gesture belongs to the window its press raised and ends with it,      *)
(* however users, kinds of windows and drags come after each other         *)
(* (input.c:10-96, win_square.c:64-120, win_console.c:487-640).            *)
THEOREM GestureStaysOne == Spec => []OneGesture
<1>1. StackOK /\ Typed /\ Gripped => OneGesture
  <2> SUFFICES ASSUME StackOK, Typed, Gripped PROVE OneGesture
    OBVIOUS
  <2>1. order[Len(order)] = OnTop
    BY TopIs DEF OnTop
  <2>2. /\ focus[active] \in {None, OnTop}
        /\ \A u \in Users : drag[u].on =>
             /\ held /\ u = active /\ drag[u].source = OnTop
             /\ OnTop \in Consoles => ~console[OnTop].pending
        /\ \A w \in Squares : square[w].arm \/ square[w].moving =>
             held /\ w = focus[active] /\ ~drag[active].on
    BY DEF Gripped
  <2> HIDE DEF OnTop
  <2> QED BY <2>1, <2>2 DEF OneGesture
<1> QED BY <1>1, StaysStacked, StaysGripped, PTL

-----------------------------------------------------------------------------
(* Damage                                                                  *)

(* The same window is to be seen at y, and the same part of it.            *)
SameAt(y) ==
  \A w \in Windows :
    /\ Seen(w, y) <=> Seen(w, y)'
    /\ Seen(w, y) => frame'[w].y = frame[w].y

(* Then the composition is the same there.                                 *)
LEMMA SameDrawn ==
  ASSUME StackOK, StackOK', NEW y, SameAt(y)
  PROVE  DrawnAt(y)' = DrawnAt(y)
<1>1. ASSUME NEW w \in Windows, Seen(w, y)
      PROVE  DrawnAt(y)' = DrawnAt(y)
  <2>1. Seen(w, y)' /\ frame'[w].y = frame[w].y
    BY <1>1 DEF SameAt
  <2>2. DrawnAt(y) = <<w, y - frame[w].y>>
    BY <1>1, SeenAt DEF SeenIsDrawn
  <2>3. SeenIsDrawn'
    BY SeenAt, PTL
  <2>4. DrawnAt(y)' = <<w, y - frame'[w].y>>
    BY <2>1, <2>3 DEF SeenIsDrawn
  <2> QED BY <2>1, <2>2, <2>4
<1>2. ASSUME \A w \in Windows : ~Seen(w, y)
      PROVE  DrawnAt(y)' = DrawnAt(y)
  <2>1. \A w \in Windows : ~Seen(w, y)'
    BY <1>2 DEF SameAt
  <2>2. \A w \in Windows : y \notin Span(frame[w])
    BY <1>2, OneSeen DEF CoveredIsSeen
  <2>3. DrawnAt(y) = <<None, 0>>
    BY <2>2, BareAt DEF BareIsNone
  <2>4. CoveredIsSeen' /\ BareIsNone'
    BY OneSeen, BareAt, PTL
  <2>5. \A w \in Windows : y \notin Span(frame'[w])
    BY <2>1, <2>4 DEF CoveredIsSeen
  <2>6. DrawnAt(y)' = <<None, 0>>
    BY <2>4, <2>5 DEF BareIsNone
  <2> QED BY <2>3, <2>6
<1> QED BY <1>1, <1>2

(* Only under a raised window the order of two windows changes.            *)
LEMMA PressCovers ==
  ASSUME StackOK, Typed, NEW u, NEW y \in Int, Press(u, y), damage'.n < MaxDamage,
         NEW x \in Screen \ damage'.places
  PROVE  SameAt(x)
<1> DEFINE w == TopmostAt(y)
<1>1. w \in Windows /\ Raise(w) /\ frame' = frame
  BY PressRaises DEF Press
<1>2. Raised(w, z, z') /\ OnScreen(frame[w]) \subseteq damage'.places
  BY <1>1, RaiseStack, PressDamage
<1> HIDE DEF w
<1>3. x \notin Span(frame[w])
  BY <1>2 DEF OnScreen
<1>4. \A a, b \in Windows : a # w /\ b # w => (z'[a] <= z'[b] <=> z[a] <= z[b])
  BY <1>2 DEF Raised
<1>5. \A v \in Windows : x \in Span(frame[v]) => v # w
  BY <1>3
<1>6. ASSUME NEW v \in Windows
      PROVE  Seen(v, x) <=> Seen(v, x)'
  BY <1>1, <1>4, <1>5 DEF Seen
<1> QED BY <1>1, <1>6 DEF SameAt

(* Windows that were not at a place before or after do not matter there.   *)
LEMMA TouchedCovers ==
  ASSUME UNCHANGED stack, NEW x,
         \A w \in Windows : frame'[w] # frame[w] =>
           x \notin Span(frame[w]) /\ x \notin Span(frame'[w])
  PROVE  SameAt(x)
<1>1. z' = z
  BY DEF stack
<1>2. \A w \in Windows : x \in Span(frame[w]) <=> x \in Span(frame'[w])
  OBVIOUS
<1>3. \A w \in Windows : x \in Span(frame[w]) => frame'[w] = frame[w]
  OBVIOUS
<1>4. ASSUME NEW v \in Windows
      PROVE  /\ Seen(v, x) <=> Seen(v, x)'
             /\ Seen(v, x) => frame'[v].y = frame[v].y
  BY <1>1, <1>2, <1>3 DEF Seen
<1> QED BY <1>4 DEF SameAt

(* A square that moves is at neither place.                                *)
LEMMA MoveSquareCovers ==
  ASSUME Typed, UNCHANGED stack, damage'.n < MaxDamage,
         NEW w \in Squares, NEW u \in Users, NEW y \in Int, NEW d \in Drags,
         NEW l \in List, MoveSquare(w, u, y, d, l),
         NEW x \in Screen \ damage'.places
  PROVE  SameAt(x)
<1>1. /\ \A v \in Windows : v # w => frame'[v] = frame[v]
      /\ frame' # frame => x \notin Span(frame[w]) /\ x \notin Span(frame'[w])
  BY MoveSquareType
<1>2. CASE frame' = frame
  <2>1. \A v \in Windows : frame'[v] # frame[v] =>
          x \notin Span(frame[v]) /\ x \notin Span(frame'[v])
    BY <1>2
  <2> QED BY <2>1, TouchedCovers
<1>3. CASE frame' # frame
  <2>1. \A v \in Windows : frame'[v] # frame[v] =>
          x \notin Span(frame[v]) /\ x \notin Span(frame'[v])
    BY <1>1, <1>3
  <2> QED BY <2>1, TouchedCovers
<1> QED BY <1>2, <1>3

(* So every step adds to the damage what it changes (wm.c:58,              *)
(* window.c:27, input.c:87), as long as there is room.                     *)
LEMMA StepCovers ==
  ASSUME StackOK, Typed, Gripped, Next, damage'.n < MaxDamage,
         NEW x \in (0 .. height' - 1) \ damage'.places
  PROVE  height' = height /\ SameAt(x)
<1>1. ASSUME NEW u \in Users, NEW y \in 0 .. Top, Press(u, y)
      PROVE  height' = height /\ SameAt(x)
  <2>1. height' = height /\ y \in Int
    BY <1>1 DEF Press
  <2>2. x \in Screen \ damage'.places
    BY <2>1 DEF Screen
  <2> QED BY <1>1, <2>1, <2>2, PressCovers
<1>2. ASSUME UNCHANGED <<stack, frame>> PROVE SameAt(x)
  <2>1. \A w \in Windows : frame'[w] # frame[w] =>
          x \notin Span(frame[w]) /\ x \notin Span(frame'[w])
    BY <1>2
  <2>2. UNCHANGED stack
    BY <1>2
  <2> QED BY <2>1, <2>2, TouchedCovers
<1>3. ASSUME NEW y \in -1 .. Top, Move(y)
      PROVE  height' = height /\ SameAt(x)
  <2> DEFINE t == OnTop
             d == Hovered(drag[active], TopmostAt(y))
  <2>1. held /\ UNCHANGED <<stack, height>>
    BY <1>3 DEF Move
  <2>2. Target(active, y) = t /\ t \in Windows
    BY <2>1, TargetIs
  <2>3. active \in Users /\ drag[active] \in Drags /\ frame \in [Windows -> Frame]
    BY DEF Typed
  <2>4. d \in Drags
    BY <2>3, HitType, HoverType
  <2>5. PICK l \in Overlaid(active, y) :
          /\ Kind[t] = "square" => MoveSquare(t, active, y, d, l)
          /\ Kind[t] = "console" => MoveConsole(t, active, y, d, l)
          /\ Kind[t] \notin {"square", "console"} => frame' = frame
    BY <1>3, <2>2 DEF Move
  <2> HIDE DEF t, d
  <2>6. CASE Kind[t] = "square"
    <3>1. t \in Squares
      BY <2>2, <2>6, KindIs
    <3>2. y \in Int /\ MoveSquare(t, active, y, d, l)
      BY <2>5, <2>6
    <3>3. l \in List
      BY <3>2, OverlaidType DEF Typed
    <3>4. x \in Screen \ damage'.places
      BY <2>1 DEF Screen
    <3>5. active \in Users /\ UNCHANGED stack
      BY <2>1, <2>3
    <3> QED BY <2>1, <2>4, <3>1, <3>2, <3>3, <3>4, <3>5, MoveSquareCovers
  <2>7. CASE Kind[t] = "console"
    <3>1. frame' = frame
      BY <2>5, <2>7 DEF MoveConsole
    <3> QED BY <1>2, <2>1, <3>1
  <2>8. CASE Kind[t] \notin {"square", "console"}
    BY <1>2, <2>1, <2>5, <2>8
  <2> QED BY <2>6, <2>7, <2>8
<1>4. ASSUME NEW y, NEW w, Release(y) \/ Other(y) \/ Content(w) \/ Expose \/ Compose
      PROVE  height' = height /\ SameAt(x)
  <2>1. UNCHANGED <<stack, frame>> /\ height' = height
    BY <1>4 DEF Release, Other, Content, Expose, Compose
  <2> QED BY <1>2, <2>1
<1>5. ASSUME NEW h, Resize(h) PROVE FALSE
  <2>1. height' = h /\ 0 .. h - 1 \subseteq damage'.places
    BY <1>5, ResizeDamage DEF Resize
  <2> QED BY <2>1
<1> QED BY <1>1, <1>3, <1>4, <1>5 DEF Next

(* Raised, moved and resized windows leave nothing behind on the screen:   *)
(* where another window or another part of one is to be seen after a step, *)
(* or the screen is a new one, the place is in the list of damage, unless  *)
(* the list is full (damage.h:16); for every length of the list.           *)
THEOREM DamageIsEnough == Spec => DamageCovers
<1>1. StackOK /\ Typed /\ Gripped /\ StackOK' /\ [Next]_vars =>
        [damage'.n < MaxDamage =>
           \A y \in (0 .. height' - 1) \ damage'.places :
             height' = height /\ DrawnAt(y)' = DrawnAt(y)]_vars
  <2>1. ASSUME StackOK, Typed, Gripped, StackOK', Next, damage'.n < MaxDamage,
               NEW y \in (0 .. height' - 1) \ damage'.places
        PROVE  height' = height /\ DrawnAt(y)' = DrawnAt(y)
    BY <2>1, StepCovers, SameDrawn
  <2> QED BY <2>1
<1> QED BY <1>1, StaysStacked, StaysGripped, PTL DEF Spec, DamageCovers

=============================================================================

------------------------- MODULE ConsoleViewsProofs -------------------------
(***************************************************************************)
(* A console stays in order: its state has its form, no entry is there     *)
(* twice, what it holds is what was added last, and what a window shows is *)
(* what its store has, or the window is to be redrawn (Sound).             *)
(*                                                                         *)
(* First what pos_between_impl promises, for every base, depth and actor:  *)
(* while there is room, the position it makes lies strictly between its    *)
(* two neighbours and is of the form that the next calls rely on.  The     *)
(* form matters: behind a path that ends in the digit 0 nothing fits.      *)
(***************************************************************************)
EXTENDS ConsoleViews, FiniteSetTheorems, SequenceTheorems, WellFoundedInduction, TLAPS

-----------------------------------------------------------------------------
(* Loops that count: recursive functions on 0 .. n, and induction on the   *)
(* set of the numbers at which a claim holds                               *)

(* A set of numbers that is not empty has a least one. *)
LEMMA NatMin ==
  ASSUME NEW S \in SUBSET Nat, S # {}
  PROVE  \E m \in S : \A x \in S : m <= x
<1> DEFINE R == OpToRel(<, Nat)
<1>1. IsWellFoundedOn(R, Nat)
  BY NatLessThanWellFounded
<1>2. \A x, y \in Nat : x < y => <<x, y>> \in R
  BY DEF OpToRel
<1> HIDE DEF R
<1>3. \E m \in S : \A x \in S : ~(<<x, m>> \in R)
  BY <1>1, WFMin
<1>4. PICK m \in S : \A x \in S : ~(<<x, m>> \in R)
  BY <1>3
<1>5. \A x \in S : ~(x < m)
  BY <1>2, <1>4
<1>6. \A x \in S : m <= x
  BY <1>5
<1> QED BY <1>6

(* A set of numbers that has 0, and the next of each of its numbers below  *)
(* n, has all numbers up to n.                                             *)
LEMMA Climbs ==
  ASSUME NEW n \in Nat, NEW T, 0 \in T, \A i \in 1 .. n : i - 1 \in T => i \in T
  PROVE  \A i \in 0 .. n : i \in T
<1> DEFINE S == (0 .. n) \ T
<1>1. SUFFICES ASSUME S # {} PROVE FALSE
  OBVIOUS
<1>2. S \in SUBSET Nat
  OBVIOUS
<1>3. PICK m \in S : \A x \in S : m <= x
  BY <1>1, <1>2, NatMin
<1>4. m \in 1 .. n
  BY <1>3
<1>5. m - 1 \in 0 .. n /\ m - 1 \notin S
  BY <1>3, <1>4
<1>6. QED
  BY <1>3, <1>4, <1>5

(* The steps of a count in S that goes from 0 to n.                        *)
Steps(n, S) == [1 .. n -> [S -> S]]

(* f is such a count.                                                     *)
Counts(f, n, S, v, g) ==
  /\ f \in [0 .. n -> S]
  /\ f[0] = v
  /\ \A i \in 1 .. n : f[i] = g[i][f[i - 1]]

(* There is a function that is counted up in this way. *)
LEMMA CountedUp ==
  ASSUME NEW n \in Nat, NEW S, NEW v \in S, NEW g \in Steps(n, S)
  PROVE  \E f : Counts(f, n, S, v, g)
<1> USE DEF Steps
<1> DEFINE P(m) == \E f \in [0 .. m -> S] :
                     f[0] = v /\ \A i \in 1 .. m : f[i] = g[i][f[i - 1]]
           T == {m \in 0 .. n : P(m)}
<1>0. \A m : m \in T <=> m \in 0 .. n /\ P(m)
  OBVIOUS
<1> HIDE DEF T
<1>1. 0 \in T
  <2> DEFINE f == [i \in 0 .. 0 |-> v]
  <2>1. f \in [0 .. 0 -> S] /\ f[0] = v
    OBVIOUS
  <2>2. \A i \in 1 .. 0 : f[i] = g[i][f[i - 1]]
    OBVIOUS
  <2> HIDE DEF f
  <2>3. P(0)
    BY <2>1, <2>2
  <2> HIDE DEF P
  <2>4. 0 \in 0 .. n
    OBVIOUS
  <2>5. QED
    BY <1>0, <2>3, <2>4
<1>2. ASSUME NEW m \in 1 .. n, m - 1 \in T PROVE m \in T
  <2>1. PICK f \in [0 .. m - 1 -> S] :
          f[0] = v /\ \A i \in 1 .. m - 1 : f[i] = g[i][f[i - 1]]
    BY <1>0, <1>2
  <2> DEFINE h == [i \in 0 .. m |-> IF i = m THEN g[m][f[m - 1]] ELSE f[i]]
  <2>2. f[m - 1] \in S /\ g[m] \in [S -> S]
    OBVIOUS
  <2>3. h \in [0 .. m -> S]
    BY <2>2
  <2>4. h[0] = v
    BY <2>1
  <2>5. ASSUME NEW i \in 1 .. m PROVE h[i] = g[i][h[i - 1]]
    <3>1. i - 1 \in 0 .. m /\ i - 1 # m /\ i \in 0 .. m
      OBVIOUS
    <3>2. h[i - 1] = f[i - 1]
      BY <3>1
    <3>3. CASE i = m
      BY <3>1, <3>2, <3>3
    <3>4. CASE i # m
      BY <2>1, <3>1, <3>2, <3>4
    <3>5. QED
      BY <3>3, <3>4
  <2> HIDE DEF h
  <2>6. h[0] = v /\ \A i \in 1 .. m : h[i] = g[i][h[i - 1]]
    BY <2>4, <2>5
  <2>7. P(m)
    BY <2>3, <2>6, Zenon
  <2> HIDE DEF P
  <2>8. m \in 0 .. n
    OBVIOUS
  <2>9. QED
    BY <1>0, <2>7, <2>8
<1> HIDE DEF P
<1>3. \A i \in 1 .. n : i - 1 \in T => i \in T
  BY <1>2
<1>4. \A i \in 0 .. n : i \in T
  BY <1>1, <1>3, Climbs
<1>5. P(n)
  BY <1>0, <1>4
<1>6. QED
  BY <1>5 DEF P, Counts

-----------------------------------------------------------------------------
(* Positions *)

(* A set of naturals has its least element. *)
LEMMA LeastOf ==
  ASSUME NEW S, S \subseteq Nat, S # {}
  PROVE  Least(S) \in S /\ \A e \in S : Least(S) <= e
<1>1. PICK d \in S : \A e \in S : d <= e
  BY NatMin
<1> QED
  BY <1>1 DEF Least

(* What pads a path that has no more components *)
Zero == [digit |-> 0, actor |-> 0]

(* It is a component. *)
LEMMA ZeroComp == Zero \in Comp
  BY PosAssumption DEF Zero, Comp

(* Every component but Zero is greater than Zero. *)
LEMMA ZeroFirst ==
  ASSUME NEW c \in Comp, c # Zero
  PROVE  CompLess(Zero, c)
<1>1. c.digit \in Nat /\ c.actor \in Nat
  BY PosAssumption DEF Comp
<1>2. c = [digit |-> c.digit, actor |-> c.actor]
  BY DEF Comp
<1>3. c.digit # 0 \/ c.actor # 0
  BY <1>2 DEF Zero
<1> QED
  BY <1>1, <1>3 DEF CompLess, Zero

(* A padded path is the path, and zeros behind it. *)
LEMMA PaddedType ==
  ASSUME NEW left \in Seq(Comp), NEW n \in Nat
  PROVE  /\ Padded(left, n) \in Seq(Comp)
         /\ Len(Padded(left, n)) = n
         /\ \A i \in 1 .. n : Padded(left, n)[i] = IF i \in DOMAIN left THEN left[i] ELSE Zero
<1>1. \A i \in DOMAIN left : left[i] \in Comp
  OBVIOUS
<1>2. Padded(left, n) \in [1 .. n -> Comp]
  BY <1>1, ZeroComp DEF Padded, Zero
<1>3. Padded(left, n) \in Seq(Comp) /\ Len(Padded(left, n)) = n
  BY <1>2
<1> QED
  BY <1>3 DEF Padded, Zero

(* The two digits at a depth with room, and the one chosen between them *)
LEMMA DigitFits ==
  ASSUME NEW left \in Seq(Comp), NEW right \in Seq(Comp), NEW d \in Room(left, right)
  PROVE  LET l == LeftDigit(left, d)
             r == RightDigit(right, d)
             m == l + (r - l) \div 2
         IN  /\ d \in Nat \ {0} /\ d <= MaxDepth
             /\ l \in 0 .. Base /\ r \in 0 .. Base /\ m \in 1 .. Base
             /\ l < m /\ m < r
<1> DEFINE l == LeftDigit(left, d)
           r == RightDigit(right, d)
<1>1. d \in 1 .. MaxDepth /\ r - l > 1
  BY DEF Room
<1>2. l \in 0 .. Base
  <2>1. CASE d \in DOMAIN left
    <3>1. left[d] \in Comp
      BY <2>1
    <3> QED
      BY <2>1, <3>1 DEF LeftDigit, Comp
  <2>2. CASE d \notin DOMAIN left
    BY <2>2, PosAssumption DEF LeftDigit
  <2> QED
    BY <2>1, <2>2
<1>3. r \in 0 .. Base
  <2>1. CASE d \in DOMAIN right
    <3>1. right[d] \in Comp
      BY <2>1
    <3> QED
      BY <2>1, <3>1 DEF RightDigit, Comp
  <2>2. CASE d \notin DOMAIN right
    BY <2>2, PosAssumption DEF RightDigit
  <2> QED
    BY <2>1, <2>2
<1> HIDE DEF l, r
<1>4. (r - l) \div 2 \in Nat /\ (r - l) \div 2 >= 1 /\ (r - l) \div 2 < r - l
  BY <1>1, <1>2, <1>3, PosAssumption
<1>5. /\ d \in Nat \ {0} /\ d <= MaxDepth
      /\ l + (r - l) \div 2 \in 1 .. Base
      /\ l < l + (r - l) \div 2 /\ l + (r - l) \div 2 < r
  BY <1>1, <1>2, <1>3, <1>4, PosAssumption
<1> QED
  BY <1>2, <1>3, <1>5 DEF l, r

-----------------------------------------------------------------------------
(* Between two positions with room between them pos_between_impl puts a    *)
(* position: it sorts behind the left one and before the right one, its    *)
(* depth is within CON_POS_MAX_DEPTH, and its last digit is not 0.         *)
THEOREM BetweenFits ==
  ASSUME NEW left \in Seq(Comp), NEW right \in Pos, NEW actor \in Nat,
         PosLess(left, right), Room(left, right) # {}
  PROVE  LET new == Between(left, right, actor)
         IN  /\ new \in Pos /\ Len(new) <= MaxDepth
             /\ PosLess(left, new)
             /\ PosLess(new, right)
<1> DEFINE d == Least(Room(left, right))
           l == LeftDigit(left, d)
           r == RightDigit(right, d)
           m == l + (r - l) \div 2
           c == [digit |-> m, actor |-> actor]
           pad == Padded(left, d - 1)
           new == Append(pad, c)
<1>1. Between(left, right, actor) = new
  BY DEF Between, Halved
<1>2. d \in Room(left, right)
  <2>1. Room(left, right) \subseteq Nat
    BY DEF Room
  <2> QED
    BY <2>1, LeastOf
<1>3. right \in Seq(Comp) /\ Len(right) > 0 /\ right[Len(right)].digit > 0
  BY DEF Pos
<1>4. /\ d \in Nat \ {0} /\ d <= MaxDepth
      /\ l \in 0 .. Base /\ r \in 0 .. Base /\ m \in 1 .. Base
      /\ l < m /\ m < r
  BY <1>2, <1>3, DigitFits
<1> HIDE DEF d
<1>5. /\ pad \in Seq(Comp) /\ Len(pad) = d - 1
      /\ \A i \in 1 .. d - 1 : pad[i] = IF i \in DOMAIN left THEN left[i] ELSE Zero
  <2>1. d - 1 \in Nat
    BY <1>4
  <2> QED
    BY <2>1, PaddedType
<1> HIDE DEF pad, l, r, m
<1>6. c \in Comp /\ c.digit = m
  BY <1>4 DEF Comp
<1> HIDE DEF c
<1>7. /\ new \in Seq(Comp) /\ Len(new) = d /\ DOMAIN new = 1 .. d
      /\ new[d] = c
      /\ \A i \in 1 .. d - 1 : new[i] = IF i \in DOMAIN left THEN left[i] ELSE Zero
  BY <1>4, <1>5, <1>6
<1> HIDE DEF new
<1>8. new \in Pos /\ Len(new) <= MaxDepth
  BY <1>4, <1>6, <1>7 DEF Pos
<1>9. PosLess(left, new)
  <2>1. CASE d \in DOMAIN left
    <3>1. left[d].digit = l
      BY <2>1 DEF l, LeftDigit
    <3>2. CompLess(left[d], new[d])
      BY <3>1, <1>4, <1>6, <1>7 DEF CompLess
    <3>3. \A j \in 1 .. d - 1 : left[j] = new[j]
      BY <2>1, <1>4, <1>7
    <3> QED
      BY <2>1, <3>2, <3>3, <1>4, <1>7 DEF PosLess
  <2>2. CASE d \notin DOMAIN left
    <3>1. Len(left) < Len(new)
      BY <2>2, <1>4, <1>7
    <3>2. \A j \in DOMAIN left : left[j] = new[j]
      BY <2>2, <1>4, <1>7
    <3> QED
      BY <3>1, <3>2 DEF PosLess
  <2> QED
    BY <2>1, <2>2
<1>10. PosLess(new, right)
  <2>1. CASE \E i \in DOMAIN left \cap DOMAIN right :
               CompLess(left[i], right[i]) /\ \A j \in 1 .. i - 1 : left[j] = right[j]
    <3>1. PICK i \in DOMAIN left \cap DOMAIN right :
               CompLess(left[i], right[i]) /\ \A j \in 1 .. i - 1 : left[j] = right[j]
      BY <2>1
    <3>2. i \in Nat /\ 1 <= i /\ i <= Len(left) /\ i <= Len(right)
      BY <1>3
    <3>3. CASE i < d
      <4>1. i \in DOMAIN new \cap DOMAIN right /\ new[i] = left[i]
        BY <3>2, <3>3, <1>3, <1>4, <1>7
      <4>2. \A j \in 1 .. i - 1 : new[j] = right[j]
        BY <3>1, <3>2, <3>3, <1>4, <1>7
      <4> QED
        BY <3>1, <4>1, <4>2 DEF PosLess
    <3>4. CASE i >= d
      <4>1. d \in DOMAIN left /\ d \in DOMAIN right /\ d \in DOMAIN new
        BY <3>2, <3>4, <1>3, <1>4, <1>7
      <4>2. right[d].digit = r
        BY <4>1 DEF r, RightDigit
      <4>3. CompLess(new[d], right[d])
        BY <4>2, <1>4, <1>6, <1>7 DEF CompLess
      <4>4. \A j \in 1 .. d - 1 : new[j] = right[j]
        BY <3>1, <3>2, <3>4, <4>1, <1>4, <1>7
      <4> QED
        BY <4>1, <4>3, <4>4 DEF PosLess
    <3> QED
      BY <3>2, <3>3, <3>4, <1>4
  <2>2. CASE Len(left) < Len(right) /\ \A j \in DOMAIN left : left[j] = right[j]
    <3>1. d \notin DOMAIN left
      <4> SUFFICES ASSUME d \in DOMAIN left PROVE FALSE
        OBVIOUS
      <4>1. d \in DOMAIN right /\ left[d] = right[d]
        BY <2>2, <1>3
      <4>2. l = r
        BY <4>1 DEF l, r, LeftDigit, RightDigit
      <4> QED
        BY <4>2, <1>4
    <3>2. Len(left) < d
      BY <3>1, <1>4
    <3> DEFINE E == {j \in DOMAIN right : Len(left) < j /\ j < d /\ right[j] # Zero}
    <3>3. CASE E = {}
      <4>1. d \in DOMAIN right
        <5> SUFFICES ASSUME d \notin DOMAIN right PROVE FALSE
          OBVIOUS
        <5>1. Len(right) \in DOMAIN right /\ Len(right) < d
          BY <1>3, <1>4
        <5>2. right[Len(right)] # Zero
          BY <1>3 DEF Zero
        <5> QED
          BY <5>1, <5>2, <3>3, <2>2
      <4>2. \A j \in 1 .. d - 1 : new[j] = right[j]
        <5> SUFFICES ASSUME NEW j \in 1 .. d - 1 PROVE new[j] = right[j]
          OBVIOUS
        <5>1. j \in DOMAIN right
          BY <4>1, <1>3, <1>4
        <5>2. CASE j \in DOMAIN left
          BY <5>2, <2>2, <1>7
        <5>3. CASE j \notin DOMAIN left
          <6>1. Len(left) < j /\ j < d
            BY <5>3, <1>4
          <6>2. right[j] = Zero
            BY <6>1, <5>1, <3>3
          <6> QED
            BY <6>2, <5>3, <1>7
        <5> QED
          BY <5>2, <5>3
      <4>3. CompLess(new[d], right[d])
        <5>1. right[d].digit = r
          BY <4>1 DEF r, RightDigit
        <5> QED
          BY <5>1, <1>4, <1>6, <1>7 DEF CompLess
      <4>4. d \in DOMAIN new
        BY <1>4, <1>7
      <4> QED
        BY <4>1, <4>2, <4>3, <4>4 DEF PosLess
    <3>4. CASE E # {}
      <4> DEFINE i == Least(E)
      <4>1. E \subseteq Nat
        BY <1>3
      <4>2. i \in E /\ \A e \in E : i <= e
        BY <4>1, <3>4, LeastOf
      <4> HIDE DEF i
      <4>3. i \in DOMAIN right /\ Len(left) < i /\ i < d /\ right[i] # Zero
        BY <4>2
      <4>4. i \in Nat /\ i \in DOMAIN new /\ new[i] = Zero
        BY <4>3, <1>3, <1>4, <1>7
      <4>5. CompLess(new[i], right[i])
        <5>1. right[i] \in Comp
          BY <4>3, <1>3
        <5> QED
          BY <5>1, <4>3, <4>4, ZeroFirst
      <4>6. \A j \in 1 .. i - 1 : new[j] = right[j]
        <5> SUFFICES ASSUME NEW j \in 1 .. i - 1 PROVE new[j] = right[j]
          OBVIOUS
        <5>1. j \in DOMAIN right /\ j \in 1 .. d - 1
          BY <4>3, <4>4, <1>3, <1>4
        <5>2. CASE j \in DOMAIN left
          BY <5>1, <5>2, <2>2, <1>7
        <5>3. CASE j \notin DOMAIN left
          <6>1. Len(left) < j /\ j < d
            BY <5>1, <5>3, <1>4
          <6>2. j \notin E
            BY <4>2, <4>4
          <6>3. right[j] = Zero
            BY <6>1, <6>2, <5>1
          <6> QED
            BY <6>3, <5>1, <5>3, <1>7
        <5> QED
          BY <5>2, <5>3
      <4> QED
        BY <4>3, <4>4, <4>5, <4>6 DEF PosLess
    <3> QED
      BY <3>3, <3>4
  <2> QED
    BY <2>1, <2>2 DEF PosLess
<1> QED
  BY <1>1, <1>8, <1>9, <1>10

(* What con_store_gen_between gives for the tail lies behind the last      *)
(* entry, and never at the right end that stands for "no right neighbour". *)
THEOREM TailFits ==
  ASSUME NEW last \in Seq(Comp), NEW actor \in Nat,
         PosLess(last, Rightmost), Room(last, Rightmost) # {}
  PROVE  /\ Between(last, Rightmost, actor) \in Pos
         /\ PosLess(last, Between(last, Rightmost, actor))
         /\ PosLess(Between(last, Rightmost, actor), Rightmost)
<1>1. [digit |-> Base, actor |-> 0] \in Comp
  BY PosAssumption DEF Comp
<1>2. Rightmost \in Pos
  BY <1>1, PosAssumption DEF Rightmost, Pos
<1> QED
  BY <1>2, BetweenFits

-----------------------------------------------------------------------------
(* The records of a console *)

(* An id, an entry, a prompt and a store, with what bounds them *)
ItemIds == Nat \X Nat
EntryTypes == {"free", "text", "widget", "snapshot"}
Entries == [type : EntryTypes, id : ItemIds, pos : Seq(Comp), val : Nat]
Prompts == [len : 0 .. MaxLine, edits : Nat, nonempty : BOOLEAN]
Stores ==
  [entries : [Slots -> Entries], head : Slots, count : 0 .. BufLines,
   order : [Slots -> Slots], valid : BOOLEAN, nextId : Nat \ {0},
   changes : Seq(ItemIds), all : BOOLEAN, prompts : [Users -> Prompts]]

(* The slots of a ring. *)
LEMMA SlotsAre == BufLines \in Nat \ {0} /\ 0 \in Slots /\ Slots \subseteq Nat
  BY StoreAssumption DEF Slots

(* The slot of an entry, without the remainder *)
LEMMA SlotIs ==
  ASSUME NEW st \in Stores, NEW i \in 0 .. BufLines
  PROVE  /\ Slot(st, i) = IF st.head + i < BufLines THEN st.head + i
                          ELSE st.head + i - BufLines
         /\ Slot(st, i) \in Slots
<1>1. st.head \in 0 .. BufLines - 1 /\ BufLines \in Nat \ {0}
  BY SlotsAre DEF Stores, Slots
<1>2. \A a \in Nat, b \in Nat \ {0} : a < b => a % b = a
  OBVIOUS
<1>3. \A a \in Nat, b \in Nat \ {0} : b <= a /\ a < 2 * b => a % b = a - b
  OBVIOUS
<1>4. i <= BufLines /\ i \in Nat
  BY <1>1
<1>5. st.head + i \in Nat /\ st.head + i < 2 * BufLines
  BY <1>1, <1>4
<1>6. CASE st.head + i < BufLines
  <2>1. (st.head + i) % BufLines = st.head + i
    BY <1>1, <1>2, <1>5, <1>6
  <2>2. QED
    BY <1>1, <1>5, <1>6, <2>1 DEF Slot, Slots
<1>7. CASE ~(st.head + i < BufLines)
  <2>1. (st.head + i) % BufLines = (st.head + i) - BufLines
    BY <1>1, <1>3, <1>5, <1>7
  <2>2. (st.head + i) - BufLines \in 0 .. BufLines - 1
    BY <1>1, <1>5, <1>7
  <2>3. QED
    BY <1>1, <1>5, <1>7, <2>1, <2>2 DEF Slot, Slots
<1>8. QED
  BY <1>6, <1>7

(* No two places of a ring of b slots have one slot. *)
LEMMA WrapOne ==
  ASSUME NEW b \in Nat, NEW h \in Nat, NEW i \in Nat, NEW j \in Nat, NEW x, NEW y,
         x = IF h + i < b THEN h + i ELSE h + i - b,
         y = IF h + j < b THEN h + j ELSE h + j - b,
         x = y, i < b, j < b, h < b
  PROVE  i = j
OBVIOUS

(* Two places of a ring do not share a slot. *)
LEMMA SlotOne ==
  ASSUME NEW st \in Stores, NEW i \in 0 .. BufLines - 1, NEW j \in 0 .. BufLines - 1,
         Slot(st, i) = Slot(st, j)
  PROVE  i = j
<1>1. /\ st.head \in Nat /\ st.head < BufLines /\ BufLines \in Nat
      /\ i \in Nat /\ i < BufLines /\ j \in Nat /\ j < BufLines
  BY SlotsAre DEF Stores, Slots
<1>2. i \in 0 .. BufLines /\ j \in 0 .. BufLines
  BY <1>1
<1>3. /\ Slot(st, i) = IF st.head + i < BufLines THEN st.head + i ELSE st.head + i - BufLines
      /\ Slot(st, j) = IF st.head + j < BufLines THEN st.head + j ELSE st.head + j - BufLines
  BY <1>2, SlotIs
<1>4. QED
  BY <1>1, <1>3, WrapOne, Zenon

(* The slots of the ring are those of its places. *)
LEMMA LiveIs ==
  ASSUME NEW st \in Stores
  PROVE  /\ Live(st) \subseteq Slots
         /\ \A i \in 0 .. st.count - 1 : Slot(st, i) \in Live(st)
         /\ \A s \in Live(st) : \E i \in 0 .. st.count - 1 : s = Slot(st, i)
<1>1. st.count \in 0 .. BufLines /\ BufLines \in Nat
  BY SlotsAre DEF Stores
<1>2. \A i \in 0 .. st.count - 1 : i \in 0 .. BufLines
  BY <1>1
<1>3. \A i \in 0 .. st.count - 1 : Slot(st, i) \in Slots
  BY <1>2, SlotIs
<1>4. QED
  BY <1>3 DEF Live

-----------------------------------------------------------------------------
(* The order *)

(* The first n entries of st in order, from the first n - 1 of them *)
Placed(st, n, rest) ==
  LET s == Slot(st, n - 1)
      p == Cardinality({i \in 1 .. n - 1 : Before(st, rest[i], s)})
  IN  SubSeq(rest, 1, p) \o <<s>> \o SubSeq(rest, p + 1, n - 1)

(* How many of them the new one is put behind *)
Passed(st, n, rest) == Cardinality({i \in 1 .. n - 1 : Before(st, rest[i], Slot(st, n - 1))})

(* The new one is put behind some of those that are there. *)
LEMMA PassedType ==
  ASSUME NEW st, NEW n \in Nat \ {0}, NEW rest
  PROVE  Passed(st, n, rest) \in 0 .. n - 1
<1> DEFINE A == 1 .. n - 1
           B == {i \in A : Before(st, rest[i], Slot(st, n - 1))}
<1>1. IsFiniteSet(A) /\ Cardinality(A) = n - 1
  <2>1. 1 \in Int /\ n - 1 \in Int
    OBVIOUS
  <2>2. IsFiniteSet(1 .. n - 1) /\ Cardinality(1 .. n - 1) = IF 1 > n - 1 THEN 0 ELSE (n - 1) - 1 + 1
    BY <2>1, FS_Interval
  <2>3. QED
    BY <2>2
<1>2. B \subseteq A
  OBVIOUS
<1>3. Passed(st, n, rest) = Cardinality(B)
  BY DEF Passed
<1> HIDE DEF A, B
<1>4. IsFiniteSet(B) /\ Cardinality(B) <= Cardinality(A)
  BY <1>1, <1>2, FS_Subset
<1>5. Cardinality(B) \in Nat
  BY <1>4, FS_CardinalityType
<1>6. QED
  BY <1>1, <1>3, <1>4, <1>5

(* Its place is behind these, and those behind it move up by one. *)
LEMMA PlacedIs ==
  ASSUME NEW st \in Stores, NEW n \in 1 .. BufLines,
         NEW rest \in Seq(Slots), Len(rest) = n - 1
  PROVE  LET p == Passed(st, n, rest)
         IN  /\ Placed(st, n, rest) \in Seq(Slots)
             /\ Len(Placed(st, n, rest)) = n
             /\ \A i \in 1 .. n : Placed(st, n, rest)[i] =
                  IF i <= p THEN rest[i] ELSE IF i = p + 1 THEN Slot(st, n - 1) ELSE rest[i - 1]
<1> DEFINE p == Passed(st, n, rest)
           s == Slot(st, n - 1)
           a == SubSeq(rest, 1, p)
           b == SubSeq(rest, p + 1, n - 1)
<1>1. n \in Nat \ {0} /\ n - 1 \in 0 .. BufLines
  BY SlotsAre
<1>2. p \in 0 .. n - 1
  BY <1>1, PassedType
<1>3. s \in Slots
  BY <1>1, SlotIs
<1>4. Placed(st, n, rest) = a \o <<s>> \o b
  BY DEF Placed, Passed
<1> HIDE DEF p, s
<1>5. a \in Seq(Slots) /\ Len(a) = p /\ \A i \in 1 .. p : a[i] = rest[i]
  BY <1>1, <1>2
<1>6. b \in Seq(Slots) /\ Len(b) = n - 1 - p /\ \A i \in 1 .. n - 1 - p : b[i] = rest[p + i]
  BY <1>1, <1>2
<1> HIDE DEF a, b
<1>7. <<s>> \in Seq(Slots) /\ Len(<<s>>) = 1 /\ <<s>>[1] = s
  BY <1>3
<1>8. /\ a \o <<s>> \in Seq(Slots) /\ Len(a \o <<s>>) = p + 1
      /\ \A i \in 1 .. p + 1 : (a \o <<s>>)[i] = IF i <= p THEN a[i] ELSE s
  BY <1>2, <1>5, <1>7
<1> DEFINE c == a \o <<s>>
<1> HIDE DEF c
<1>9. /\ c \in Seq(Slots) /\ Len(c) = p + 1
      /\ \A i \in 1 .. p + 1 : c[i] = IF i <= p THEN rest[i] ELSE s
  BY <1>2, <1>5, <1>8 DEF c
<1>10. /\ c \o b \in Seq(Slots) /\ Len(c \o b) = n
       /\ \A i \in 1 .. n : (c \o b)[i] = IF i <= p + 1 THEN c[i] ELSE b[i - (p + 1)]
  BY <1>1, <1>2, <1>6, <1>9
<1>11. ASSUME NEW i \in 1 .. n
       PROVE  (c \o b)[i] = IF i <= p THEN rest[i] ELSE IF i = p + 1 THEN s ELSE rest[i - 1]
  <2>1. CASE i <= p + 1
    BY <1>2, <1>9, <1>10, <2>1
  <2>2. CASE ~(i <= p + 1)
    <3>1. i - (p + 1) \in 1 .. n - 1 - p /\ p + (i - (p + 1)) = i - 1
      BY <1>1, <1>2, <2>2
    <3>2. QED
      BY <1>2, <1>6, <1>10, <2>2, <3>1
  <2>3. QED
    BY <2>1, <2>2
<1>12. Placed(st, n, rest) = c \o b
  BY <1>4 DEF c
<1>13. QED
  BY <1>10, <1>11, <1>12 DEF p, s

(* f puts the entries of st in their places, one after the other.          *)
Sorts(f, st) ==
  /\ f[0] = <<>>
  /\ \A n \in 1 .. st.count : f[n] = Placed(st, n, f[n - 1])
  /\ \A n \in 0 .. st.count : f[n] \in Seq(Slots) /\ Len(f[n]) = n
  /\ Rebuilt(st) = [st EXCEPT !.order = [i \in Slots |-> IF i < st.count THEN f[st.count][i + 1] ELSE @[i]],
                              !.valid = TRUE]

(* There is such an f. *)
LEMMA SortedUp ==
  ASSUME NEW st \in Stores
  PROVE  \E f : Sorts(f, st)
<1> DEFINE n == st.count
           S == Seq(Slots)
           G(k, rest) == IF Len(rest) = k - 1 THEN Placed(st, k, rest) ELSE rest
           g == [k \in 1 .. n |-> [rest \in S |-> G(k, rest)]]
           Up(f) == [k \in 0 .. n |-> IF k = 0 THEN <<>> ELSE Placed(st, k, f[k - 1])]
           h == CHOOSE f : f = Up(f)
<1>1. n \in 0 .. BufLines /\ n \in Nat /\ 1 .. n \subseteq 1 .. BufLines
  BY SlotsAre DEF Stores
<1>2. ASSUME NEW k \in 1 .. n, NEW rest \in S PROVE G(k, rest) \in S
  BY <1>1, PlacedIs
<1>3. g \in Steps(n, S)
  BY <1>2 DEF Steps
<1>4. \A k \in 1 .. n, rest \in S : g[k][rest] = G(k, rest)
  OBVIOUS
<1>5. <<>> \in S
  OBVIOUS
<1> HIDE DEF g, S
<1>6. PICK f : Counts(f, n, S, <<>>, g)
  BY <1>1, <1>3, <1>5, CountedUp
<1>7. \A k \in 0 .. n : f[k] \in Seq(Slots) /\ Len(f[k]) = k
  <2> DEFINE T == {k \in 0 .. n : Len(f[k]) = k}
  <2>1. 0 \in T
    BY <1>1, <1>6 DEF Counts
  <2>2. ASSUME NEW k \in 1 .. n, k - 1 \in T PROVE k \in T
    <3>1. f[k - 1] \in Seq(Slots) /\ Len(f[k - 1]) = k - 1
      BY <1>6, <2>2 DEF Counts, S
    <3>2. f[k] = Placed(st, k, f[k - 1])
      BY <1>4, <1>6, <3>1 DEF Counts, S
    <3>3. Len(f[k]) = k
      BY <1>1, <3>1, <3>2, PlacedIs
    <3>4. QED
      BY <3>3
  <2> HIDE DEF T
  <2>3. \A k \in 0 .. n : k \in T
    BY <1>1, <2>1, <2>2, Climbs
  <2>4. QED
    BY <1>6, <2>3 DEF Counts, S, T
<1>8. \A k \in 1 .. n : f[k] = Placed(st, k, f[k - 1])
  <2>1. \A k \in 1 .. n : f[k - 1] \in Seq(Slots) /\ Len(f[k - 1]) = k - 1
    BY <1>1, <1>7
  <2>2. QED
    BY <1>4, <1>6, <2>1 DEF Counts, S
<1>9. f[0] = <<>> /\ f = [k \in 0 .. n |-> f[k]]
  BY <1>6 DEF Counts
<1>10. f = Up(f)
  <2>1. ASSUME NEW k \in 0 .. n PROVE f[k] = IF k = 0 THEN <<>> ELSE Placed(st, k, f[k - 1])
    BY <1>1, <1>8, <1>9
  <2>2. QED
    BY <1>9, <2>1
<1>11. h = Up(h)
  BY <1>10
<1>12. Rebuilt(st) = [st EXCEPT !.order = [i \in Slots |-> IF i < st.count THEN h[n][i + 1] ELSE @[i]],
                                !.valid = TRUE]
  BY DEF Rebuilt, Placed
<1> HIDE DEF h
<1>13. h[0] = <<>> /\ \A k \in 1 .. n : h[k] = Placed(st, k, h[k - 1])
  BY <1>1, <1>11
<1>14. \A k \in 0 .. n : h[k] \in Seq(Slots) /\ Len(h[k]) = k
  <2> DEFINE T == {k \in 0 .. n : h[k] \in Seq(Slots) /\ Len(h[k]) = k}
  <2>1. 0 \in T
    <3>1. <<>> \in Seq(Slots) /\ Len(<<>>) = 0
      OBVIOUS
    <3>2. h[0] \in Seq(Slots) /\ Len(h[0]) = 0
      BY <1>13, <3>1, Zenon
    <3>3. 0 \in 0 .. n
      BY <1>1
    <3>4. QED
      BY <3>2, <3>3
  <2>2. ASSUME NEW k \in 1 .. n, k - 1 \in T PROVE k \in T
    <3>1. h[k - 1] \in Seq(Slots) /\ Len(h[k - 1]) = k - 1
      BY <2>2
    <3>2. QED
      BY <1>1, <1>13, <3>1, PlacedIs
  <2> HIDE DEF T
  <2>3. \A k \in 0 .. n : k \in T
    BY <1>1, <2>1, <2>2, Climbs
  <2>4. QED
    BY <2>3 DEF T
<1>15. Sorts(h, st)
  BY <1>12, <1>13, <1>14 DEF Sorts
<1>16. QED
  BY <1>15

(* rebuild_order writes slots of the ring into the order and says that it  *)
(* is valid; the rest of a store is as it was.                             *)
LEMMA RebuiltIs ==
  ASSUME NEW st \in Stores
  PROVE  /\ Rebuilt(st).order \in [Slots -> Slots]
         /\ Rebuilt(st) = [st EXCEPT !.order = Rebuilt(st).order, !.valid = TRUE]
<1>1. PICK f : Sorts(f, st)
  BY SortedUp
<1> DEFINE o == [i \in Slots |-> IF i < st.count THEN f[st.count][i + 1] ELSE st.order[i]]
<1>2. st.count \in Nat /\ f[st.count] \in Seq(Slots) /\ Len(f[st.count]) = st.count
  BY <1>1 DEF Sorts, Stores
<1>3. o \in [Slots -> Slots]
  <2>1. ASSUME NEW i \in Slots PROVE o[i] \in Slots
    <3>1. i < st.count => i + 1 \in 1 .. st.count
      BY <1>2, SlotsAre
    <3>2. QED
      BY <1>2, <3>1 DEF Stores
  <2>2. QED
    BY <2>1
<1>4. Rebuilt(st) = [st EXCEPT !.order = o, !.valid = TRUE]
  BY <1>1 DEF Sorts
<1> HIDE DEF o
<1>5. Rebuilt(st).order = o
  BY <1>4 DEF Stores
<1>6. QED
  BY <1>3, <1>4, <1>5

(* So does a getter; the next one finds nothing to do. *)
LEMMA FreshIs ==
  ASSUME NEW st \in Stores
  PROVE  /\ Fresh(st) \in Stores
         /\ Fresh(st) = [st EXCEPT !.order = Fresh(st).order, !.valid = Fresh(st).valid]
         /\ Fresh(Fresh(st)) = Fresh(st)
<1>1. CASE st.valid \/ st.count = 0
  BY <1>1 DEF Fresh, Stores
<1>2. CASE ~(st.valid \/ st.count = 0)
  <2>1. Fresh(st) = Rebuilt(st)
    BY <1>2 DEF Fresh
  <2> DEFINE o == Rebuilt(st).order
  <2>2. o \in [Slots -> Slots] /\ Fresh(st) = [st EXCEPT !.order = o, !.valid = TRUE]
    BY <2>1, RebuiltIs
  <2> HIDE DEF o
  <2>3. Fresh(st) \in Stores /\ Fresh(st).order = o /\ Fresh(st).valid = TRUE
    BY <2>2 DEF Stores
  <2>4. Fresh(Fresh(st)) = Fresh(st)
    BY <2>3 DEF Fresh
  <2>5. QED
    BY <2>2, <2>3, <2>4
<1>3. QED
  BY <1>1, <1>2

-----------------------------------------------------------------------------
(* Positions have their form. *)

(* pos_between makes a position, also when nothing fits. *)
LEMMA BetweenType ==
  ASSUME NEW left \in Seq(Comp), NEW right \in Seq(Comp), NEW actor \in Nat
  PROVE  Between(left, right, actor) \in Seq(Comp)
<1>1. CASE Room(left, right) # {}
  <2> DEFINE d == Least(Room(left, right))
             l == LeftDigit(left, d)
             r == RightDigit(right, d)
             m == l + (r - l) \div 2
             pad == Padded(left, d - 1)
  <2>1. d \in Room(left, right)
    <3>1. Room(left, right) \subseteq Nat
      BY DEF Room
    <3>2. QED
      BY <1>1, <3>1, LeastOf
  <2>2. d \in Nat \ {0} /\ m \in 1 .. Base
    BY <2>1, DigitFits
  <2>3. Between(left, right, actor) = Append(pad, [digit |-> m, actor |-> actor])
    BY <1>1 DEF Between, Halved
  <2> HIDE DEF d, m
  <2>4. d - 1 \in Nat
    BY <2>2
  <2>5. pad \in Seq(Comp)
    BY <2>4, PaddedType
  <2>6. [digit |-> m, actor |-> actor] \in Comp
    BY <2>2, PosAssumption DEF Comp
  <2> HIDE DEF pad
  <2>7. QED
    BY <2>3, <2>5, <2>6
<1>2. CASE Room(left, right) = {}
  <2> DEFINE pad == Padded(left, MaxDepth)
             c == pad[MaxDepth]
             e == [digit |-> IF c.digit < Base THEN c.digit + 1 ELSE Base, actor |-> actor]
  <2>1. pad \in Seq(Comp) /\ Len(pad) = MaxDepth /\ MaxDepth \in 1 .. MaxDepth
    BY PosAssumption, PaddedType
  <2>2. c \in Comp
    BY <2>1
  <2>3. c = [digit |-> c.digit, actor |-> c.actor] /\ c.digit \in 0 .. Base
    BY <2>2 DEF Comp
  <2>4. e \in Comp
    BY <2>3, PosAssumption DEF Comp
  <2>5. Between(left, right, actor) = Pressed(left, actor)
    BY <1>2 DEF Between
  <2>6. Pressed(left, actor) = [pad EXCEPT ![MaxDepth] = e]
    <3> DEFINE c1 == [digit |-> IF c.digit < Base THEN c.digit + 1 ELSE Base, actor |-> c.actor]
               p1 == [pad EXCEPT ![MaxDepth].digit = IF @ < Base THEN @ + 1 ELSE Base]
    <3>0. [c EXCEPT !.digit = IF c.digit < Base THEN c.digit + 1 ELSE Base] = c1
      BY <2>3
    <3> HIDE DEF c1
    <3>1. p1 = [pad EXCEPT ![MaxDepth] = c1]
      BY <3>0
    <3>2. Pressed(left, actor) = [p1 EXCEPT ![MaxDepth].actor = actor]
      BY DEF Pressed
    <3> HIDE DEF p1
    <3>3. p1[MaxDepth] = c1 /\ DOMAIN p1 = DOMAIN pad
      BY <2>1, <3>1
    <3>4. [p1[MaxDepth] EXCEPT !.actor = actor] = e
      BY <3>3 DEF c1
    <3>5. Pressed(left, actor) = [p1 EXCEPT ![MaxDepth] = e]
      BY <3>2, <3>4
    <3> HIDE DEF e
    <3>6. QED
      BY <2>1, <3>1, <3>5
  <2> HIDE DEF pad, e
  <2>7. QED
    BY <2>1, <2>4, <2>5, <2>6
<1>3. QED
  BY <1>1, <1>2

(* The ends are positions. *)
LEMMA EndsType == Leftmost \in Seq(Comp) /\ Rightmost \in Seq(Comp)
<1>1. [digit |-> Base, actor |-> 0] \in Comp
  BY PosAssumption DEF Comp
<1>2. QED
  BY <1>1 DEF Leftmost, Rightmost

(* So is what is looked up by an id. *)
LEMMA PosOfType ==
  ASSUME NEW st \in Stores, NEW id, NEW absent \in Seq(Comp)
  PROVE  PosOf(st, id, absent) \in Seq(Comp)
<1>1. CASE id # NoId /\ HasId(st, id)
  <2> DEFINE s == CHOOSE s \in Live(st) : st.entries[s].id = id
  <2>1. s \in Live(st)
    BY <1>1 DEF HasId
  <2>2. s \in Slots
    BY <2>1, LiveIs
  <2>3. PosOf(st, id, absent) = st.entries[s].pos
    BY <1>1 DEF PosOf
  <2> HIDE DEF s
  <2>4. QED
    BY <2>2, <2>3 DEF Stores, Entries
<1>2. QED
  BY <1>1 DEF PosOf

(* con_store_gen_between makes a position for any ids. *)
LEMMA GenBetweenType ==
  ASSUME NEW st \in Stores, NEW left, NEW right, NEW actor \in Nat
  PROVE  GenBetween(st, left, right, actor) \in Seq(Comp)
<1>1. /\ PosOf(st, left, Leftmost) \in Seq(Comp)
      /\ PosOf(st, right, Rightmost) \in Seq(Comp)
  BY EndsType, PosOfType
<1>2. QED
  BY <1>1, BetweenType DEF GenBetween

-----------------------------------------------------------------------------
(* The ring *)

(* The entry at place i, from the oldest *)
At(st, i) == st.entries[Slot(st, i)]

(* How many entries st gives up for a new one *)
Over(st) == IF st.count < BufLines THEN 0 ELSE 1

(* nw has a new entry e behind those of st; a full ring gave up its head.  *)
Grows(st, nw, e) ==
  /\ nw.count = st.count + 1 - Over(st)
  /\ \A i \in 0 .. st.count - 1 - Over(st) : At(nw, i) = At(st, i + Over(st))
  /\ At(nw, st.count - Over(st)) = e

(* nw lacks the first d entries of st. *)
Cuts(st, nw, d) ==
  /\ d \in 0 .. st.count
  /\ nw.count = st.count - d
  /\ \A i \in 0 .. st.count - d - 1 : At(nw, i) = At(st, i + d)

(* Everything of nw but the ring is that of st.                            *)
SameRest(st, nw) ==
  /\ nw.order = st.order /\ nw.valid = st.valid
  /\ nw.changes = st.changes /\ nw.prompts = st.prompts

(* A ring that starts at place d of another                                *)
LEMMA Wraps ==
  ASSUME NEW b \in Nat, NEW h \in Nat, NEW d \in Nat, NEW i \in Nat, h < b, i + d <= b,
         NEW k, k = IF h + d < b THEN h + d ELSE h + d - b
  PROVE  (IF k + i < b THEN k + i ELSE k + i - b)
           = IF h + (i + d) < b THEN h + (i + d) ELSE h + (i + d) - b
OBVIOUS

(* A ring that was cut counts on from the place of its new head. *)
LEMMA SlotShift ==
  ASSUME NEW st \in Stores, NEW nw \in Stores, NEW d \in 0 .. BufLines,
         nw.head = Slot(st, d), NEW i \in 0 .. BufLines, i + d <= BufLines
  PROVE  Slot(nw, i) = Slot(st, i + d)
<1>1. /\ st.head \in Nat /\ st.head < BufLines /\ BufLines \in Nat
      /\ i \in Nat /\ d \in Nat
  BY SlotsAre DEF Stores, Slots
<1>2. i + d \in 0 .. BufLines
  BY <1>1
<1>3. /\ Slot(st, d) = IF st.head + d < BufLines THEN st.head + d ELSE st.head + d - BufLines
      /\ Slot(st, i + d) = IF st.head + (i + d) < BufLines THEN st.head + (i + d)
                           ELSE st.head + (i + d) - BufLines
      /\ Slot(nw, i) = IF nw.head + i < BufLines THEN nw.head + i ELSE nw.head + i - BufLines
  BY <1>2, SlotIs
<1> DEFINE k == nw.head
<1>4. k = IF st.head + d < BufLines THEN st.head + d ELSE st.head + d - BufLines
  BY <1>3
<1> HIDE DEF k
<1>5. (IF k + i < BufLines THEN k + i ELSE k + i - BufLines)
        = IF st.head + (i + d) < BufLines THEN st.head + (i + d)
          ELSE st.head + (i + d) - BufLines
  BY <1>1, <1>4, Wraps
<1>6. QED
  BY <1>3, <1>5 DEF k

(* The slots of the places depend on nothing but the head. *)
LEMMA SlotSame ==
  ASSUME NEW st, NEW nw, nw.head = st.head, NEW i
  PROVE  Slot(nw, i) = Slot(st, i)
  BY DEF Slot

(* An entry that is written behind the last one is there when the ring has *)
(* grown; a full ring gave up its head for it.                             *)
LEMMA GrownIs ==
  ASSUME NEW st \in Stores, NEW nw \in Stores, NEW e \in Entries,
         nw.head = st.head, nw.count = st.count,
         nw.entries = [st.entries EXCEPT ![NextSlot(st)] = e]
  PROVE  /\ Grown(nw) \in Stores
         /\ Grows(st, Grown(nw), e)
         /\ SameRest(nw, Grown(nw)) /\ Grown(nw).nextId = nw.nextId
         /\ Grown(nw).all = nw.all
<1> DEFINE g == Grown(nw)
           n == st.count
<1>1. n \in 0 .. BufLines /\ BufLines \in Nat \ {0} /\ n \in Nat
  BY SlotsAre DEF Stores
<1>2. NextSlot(st) = Slot(st, n) /\ Slot(st, n) \in Slots
  BY <1>1, SlotIs DEF NextSlot
<1>3. /\ nw.entries[Slot(st, n)] = e
      /\ \A s \in Slots : s # Slot(st, n) => nw.entries[s] = st.entries[s]
  BY <1>2 DEF Stores
<1>4. CASE n < BufLines
  <2>1. g = [nw EXCEPT !.count = n + 1]
    BY <1>4 DEF Grown
  <2>2. /\ g \in Stores /\ g.count = n + 1 /\ g.entries = nw.entries /\ g.head = st.head
        /\ SameRest(nw, g) /\ g.nextId = nw.nextId /\ g.all = nw.all
    <3>1. n + 1 \in 0 .. BufLines
      BY <1>1, <1>4
    <3>2. QED
      BY <2>1, <3>1 DEF Stores, SameRest
  <2> HIDE DEF g
  <2>3. \A i \in 0 .. n : Slot(g, i) = Slot(st, i)
    BY <2>2, SlotSame
  <2>4. ASSUME NEW i \in 0 .. n - 1 PROVE At(g, i) = At(st, i)
    <3>1. i \in 0 .. BufLines /\ i \in 0 .. BufLines - 1 /\ n \in 0 .. BufLines - 1 /\ i # n
          /\ i \in 0 .. n
      BY <1>1, <1>4
    <3>2. Slot(st, i) \in Slots /\ Slot(st, i) # Slot(st, n)
      BY <3>1, SlotIs, SlotOne
    <3>3. QED
      BY <1>3, <2>2, <2>3, <3>1, <3>2 DEF At
  <2>5. At(g, n) = e
    BY <1>1, <1>3, <2>2, <2>3 DEF At
  <2>6. Over(st) = 0
    BY <1>4 DEF Over
  <2>7. Grows(st, g, e)
    BY <1>1, <2>2, <2>4, <2>5, <2>6 DEF Grows
  <2>8. QED
    BY <2>2, <2>7 DEF g
<1>5. CASE ~(n < BufLines)
  <2>0. n = BufLines
    BY <1>1, <1>5
  <2>1. Slot(st, 1) \in Slots /\ Slot(st, 1) = (st.head + 1) % BufLines
    BY <1>1, SlotIs DEF Slot
  <2>2. g = [nw EXCEPT !.head = Slot(st, 1)]
    BY <1>5, <2>1 DEF Grown
  <2>3. /\ g \in Stores /\ g.count = n /\ g.entries = nw.entries /\ g.head = Slot(st, 1)
        /\ SameRest(nw, g) /\ g.nextId = nw.nextId /\ g.all = nw.all
    BY <2>1, <2>2 DEF Stores, SameRest
  <2> HIDE DEF g
  <2>4. \A i \in 0 .. BufLines - 1 : Slot(g, i) = Slot(st, i + 1)
    <3>1. \A i \in 0 .. BufLines - 1 : i \in 0 .. BufLines /\ 1 \in 0 .. BufLines /\ i + 1 <= BufLines
      BY <1>1
    <3>2. QED
      BY <2>3, <3>1, SlotShift
  <2>5. Slot(st, BufLines) = Slot(st, 0)
    <3>1. /\ Slot(st, BufLines) = IF st.head + BufLines < BufLines THEN st.head + BufLines
                                  ELSE st.head + BufLines - BufLines
          /\ Slot(st, 0) = IF st.head + 0 < BufLines THEN st.head + 0 ELSE st.head + 0 - BufLines
      BY <1>1, SlotIs
    <3>2. st.head \in Nat /\ st.head < BufLines
      BY <1>1 DEF Stores, Slots
    <3>3. QED
      BY <1>1, <3>1, <3>2
  <2>6. ASSUME NEW i \in 0 .. n - 2 PROVE At(g, i) = At(st, i + 1)
    <3>1. i \in 0 .. BufLines - 1 /\ i + 1 \in 0 .. BufLines - 1 /\ 0 \in 0 .. BufLines - 1 /\ i + 1 # 0
          /\ i + 1 \in 0 .. BufLines
      BY <1>1, <2>0
    <3>2. Slot(st, i + 1) \in Slots /\ Slot(st, i + 1) # Slot(st, 0)
      BY <3>1, SlotIs, SlotOne
    <3>3. QED
      BY <1>3, <2>0, <2>3, <2>4, <2>5, <3>1, <3>2 DEF At
  <2>7. At(g, n - 1) = e
    <3>1. n - 1 \in 0 .. BufLines - 1 /\ (n - 1) + 1 = n
      BY <1>1, <2>0
    <3>2. Slot(g, n - 1) = Slot(st, n)
      BY <2>4, <3>1
    <3>3. QED
      BY <1>3, <2>3, <3>2 DEF At
  <2>8. Over(st) = 1
    BY <1>5 DEF Over
  <2>9. Grows(st, g, e)
    BY <1>1, <2>3, <2>6, <2>7, <2>8 DEF Grows
  <2>10. QED
    BY <2>3, <2>9 DEF g
<1>6. QED
  BY <1>4, <1>5

(* The ring of nw is that of st but for the values of its widgets.         *)
SameRing(st, nw) ==
  /\ nw.head = st.head /\ nw.count = st.count /\ nw.nextId = st.nextId
  /\ \A s \in Slots : /\ nw.entries[s].type = st.entries[s].type
                      /\ nw.entries[s].id = st.entries[s].id
                      /\ nw.entries[s].pos = st.entries[s].pos

(* The part of a store that users see of each other, and what the views    *)
(* have still to hear                                                      *)
SameTalk(st, nw) == nw.changes = st.changes /\ nw.prompts = st.prompts

(* A getter changes nothing that is known of the entries. *)
LEMMA FreshKeeps ==
  ASSUME NEW st \in Stores
  PROVE  /\ Fresh(st) \in Stores
         /\ Fresh(st).entries = st.entries /\ Fresh(st).head = st.head
         /\ Fresh(st).count = st.count /\ Fresh(st).nextId = st.nextId
         /\ SameRing(st, Fresh(st)) /\ SameTalk(st, Fresh(st)) /\ Fresh(st).all = st.all
<1> DEFINE o == Fresh(st).order
           v == Fresh(st).valid
<1>1. Fresh(st) \in Stores /\ Fresh(st) = [st EXCEPT !.order = o, !.valid = v]
  BY FreshIs
<1> HIDE DEF o, v
<1>2. QED
  BY <1>1 DEF Stores, SameRing, SameTalk

(* Nor does changes_mark_all. *)
LEMMA MarkAllKeeps ==
  ASSUME NEW st \in Stores
  PROVE  /\ MarkAll(st) \in Stores
         /\ MarkAll(st).entries = st.entries /\ MarkAll(st).head = st.head
         /\ MarkAll(st).count = st.count /\ MarkAll(st).nextId = st.nextId
         /\ SameRing(st, MarkAll(st)) /\ SameTalk(st, MarkAll(st)) /\ MarkAll(st).all
         /\ MarkAll(st).order = st.order /\ MarkAll(st).valid = st.valid
  BY DEF MarkAll, Stores, SameRing, SameTalk

(* What is true of places is true of rings with the same entries there.    *)
LEMMA AtSame ==
  ASSUME NEW st, NEW nw, nw.head = st.head, nw.entries = st.entries, NEW i
  PROVE  At(nw, i) = At(st, i)
  BY DEF At, Slot

(* A ring that has grown is judged by its entries alone. *)
LEMMA GrowsOn ==
  ASSUME NEW st, NEW m, NEW nw, NEW e, Grows(st, m, e),
         nw.head = m.head, nw.entries = m.entries, nw.count = m.count
  PROVE  Grows(st, nw, e)
<1>1. \A i : At(nw, i) = At(m, i)
  BY AtSame
<1>2. QED
  BY <1>1 DEF Grows

(* A new entry of the store's own is the last one, under the next id. *)
LEMMA AtTailIs ==
  ASSUME NEW st \in Stores, NEW type \in EntryTypes, NEW val \in Nat
  PROVE  LET nw == AtTail(st, type, val)
         IN  /\ nw \in Stores /\ SameTalk(st, nw) /\ nw.all = st.all
             /\ nw.nextId = st.nextId + 1
             /\ \E pos \in Seq(Comp) : Grows(st, nw, Entry(type, <<0, st.nextId>>, pos, val))
<1> DEFINE slot == NextSlot(st)
           own == <<0, st.nextId>>
           first == [st EXCEPT !.entries[slot] = Entry(type, own, <<>>, val),
                               !.nextId = @ + 1]
           seen == Fresh(first)
           pos == GenBetween(seen, LastId(seen), NoId, 0)
           e == Entry(type, own, pos, val)
           whole == [seen EXCEPT !.entries[slot].pos = pos]
           nw == AtTail(st, type, val)
<1>1. slot \in Slots
  BY SlotIs, SlotsAre DEF NextSlot, Stores
<1>2. st.nextId \in Nat /\ own \in ItemIds /\ <<>> \in Seq(Comp)
  BY DEF Stores, ItemIds
<1>3. Entry(type, own, <<>>, val) \in Entries
  BY <1>2 DEF Entry, Entries
<1>4. /\ first \in Stores /\ first.entries = [st.entries EXCEPT ![slot] = Entry(type, own, <<>>, val)]
      /\ first.head = st.head /\ first.count = st.count /\ first.nextId = st.nextId + 1
      /\ first.changes = st.changes /\ first.prompts = st.prompts /\ first.all = st.all
  <2> DEFINE x == Entry(type, own, <<>>, val)
  <2> HIDE DEF x
  <2>1. x \in Entries
    BY <1>3 DEF x
  <2>2. [st.entries EXCEPT ![slot] = x] \in [Slots -> Entries]
    BY <1>1, <2>1 DEF Stores
  <2>3. st.nextId + 1 \in Nat \ {0}
    BY <1>2
  <2>4. first = [st EXCEPT !.entries = [st.entries EXCEPT ![slot] = x], !.nextId = st.nextId + 1]
    BY DEF x, Stores
  <2> HIDE DEF first, slot, own
  <2>5. QED
    BY <2>2, <2>3, <2>4 DEF Stores, x
<1>5. nw = Grown(whole)
  BY DEF AtTail
<1> HIDE DEF first, slot, own, nw
<1>6. /\ seen \in Stores /\ seen.entries = first.entries /\ seen.head = st.head
      /\ seen.count = st.count /\ seen.nextId = st.nextId + 1
      /\ seen.changes = st.changes /\ seen.prompts = st.prompts /\ seen.all = st.all
  BY <1>4, FreshKeeps DEF SameTalk
<1> HIDE DEF seen
<1>7. pos \in Seq(Comp)
  BY <1>6, GenBetweenType
<1> HIDE DEF pos
<1>8. e \in Entries
  BY <1>2, <1>7 DEF Entry, Entries, own
<1>9. whole = [seen EXCEPT !.entries = [st.entries EXCEPT ![slot] = e]]
  <2>1. seen.entries[slot] = Entry(type, own, <<>>, val)
    BY <1>1, <1>4, <1>6 DEF Stores
  <2>2. [seen.entries[slot] EXCEPT !.pos = pos] = e
    BY <2>1 DEF Entry
  <2> HIDE DEF e
  <2>3. whole = [seen EXCEPT !.entries = [seen.entries EXCEPT ![slot] = e]]
    BY <2>2
  <2>4. [seen.entries EXCEPT ![slot] = e] = [st.entries EXCEPT ![slot] = e]
    BY <1>1, <1>4, <1>6 DEF Stores
  <2>5. QED
    BY <2>3, <2>4
<1>10. [st.entries EXCEPT ![slot] = e] \in [Slots -> Entries]
  BY <1>1, <1>8 DEF Stores
<1> HIDE DEF e, whole
<1>11. /\ whole \in Stores /\ whole.entries = [st.entries EXCEPT ![slot] = e]
       /\ whole.head = st.head /\ whole.count = st.count /\ whole.nextId = st.nextId + 1
       /\ whole.changes = st.changes /\ whole.prompts = st.prompts /\ whole.all = st.all
  BY <1>6, <1>9, <1>10 DEF Stores
<1>12. /\ Grown(whole) \in Stores /\ Grows(st, Grown(whole), e)
       /\ SameRest(whole, Grown(whole)) /\ Grown(whole).nextId = whole.nextId
       /\ Grown(whole).all = whole.all
  BY <1>8, <1>11, GrownIs DEF slot
<1>13. QED
  BY <1>5, <1>7, <1>11, <1>12 DEF SameRest, SameTalk, e, own, nw

-----------------------------------------------------------------------------
(* The compaction *)

(* The compaction drops no more than there is. *)
LEMMA DroppedIs ==
  ASSUME NEW st \in Stores
  PROVE  Dropped(st) \in 0 .. st.count
<1> DEFINE Stops(d) == \/ st.count - d <= KeepLast
                       \/ st.entries[Slot(st, d)].type = "widget"
           S == {d \in 0 .. st.count : Stops(d)}
<1>1. st.count \in Nat /\ KeepLast \in Nat
  BY SlotsAre, StoreAssumption DEF Stores
<1>2. st.count \in S
  BY <1>1
<1>3. \A d : d \in S <=> d \in 0 .. st.count /\ Stops(d)
  OBVIOUS
<1>4. S \in SUBSET Nat /\ S # {}
  BY <1>2
<1>5. PICK m \in S : \A x \in S : m <= x
  BY <1>4, NatMin
<1> HIDE DEF S
<1>6. m \in 0 .. st.count /\ Stops(m)
  BY <1>3, <1>5
<1>7. \A e \in 0 .. m - 1 : ~Stops(e)
  <2> SUFFICES ASSUME NEW e \in 0 .. m - 1, Stops(e) PROVE FALSE
    OBVIOUS
  <2>1. e \in 0 .. st.count /\ e < m
    BY <1>1, <1>6
  <2>2. e \in S
    BY <1>3, <2>1
  <2>3. QED
    BY <1>4, <1>5, <1>6, <2>1, <2>2
<1>8. Dropped(st) = CHOOSE d \in 0 .. st.count : Stops(d) /\ \A e \in 0 .. d - 1 : ~Stops(e)
  BY DEF Dropped
<1> HIDE DEF Stops
<1>9. QED
  BY <1>6, <1>7, <1>8

(* st without its first d entries *)
CutBy(st, d) ==
  LET gone == {Slot(st, i) : i \in 0 .. d - 1}
  IN  [st EXCEPT !.entries = [s \in Slots |-> IF s \in gone THEN Free ELSE @[s]],
                 !.head = Slot(st, d),
                 !.count = @ - d]

(* What it drops is the head of the ring. *)
LEMMA CutIs ==
  ASSUME NEW st \in Stores, NEW d \in 0 .. st.count
  PROVE  /\ CutBy(st, d) \in Stores /\ Cuts(st, CutBy(st, d), d)
         /\ SameRest(st, CutBy(st, d)) /\ CutBy(st, d).nextId = st.nextId
         /\ CutBy(st, d).all = st.all
<1> DEFINE n == st.count
           gone == {Slot(st, i) : i \in 0 .. d - 1}
           es == [s \in Slots |-> IF s \in gone THEN Free ELSE st.entries[s]]
           cut == CutBy(st, d)
<1>1. n \in 0 .. BufLines /\ BufLines \in Nat \ {0} /\ n \in Nat /\ d \in 0 .. BufLines
      /\ n - d \in 0 .. BufLines
  BY SlotsAre DEF Stores
<1>2. Free \in Entries
  <2>1. <<>> \in Seq(Comp) /\ NoId \in ItemIds
    BY DEF NoId, ItemIds
  <2>2. QED
    BY <2>1 DEF Free, Entries, EntryTypes
<1>3. es \in [Slots -> Entries]
  BY <1>2 DEF Stores
<1>4. Slot(st, d) \in Slots
  BY <1>1, SlotIs
<1>5. cut = [st EXCEPT !.entries = es, !.head = Slot(st, d), !.count = n - d]
  BY DEF CutBy
<1>6. \A s \in Slots : s \notin gone => es[s] = st.entries[s]
  OBVIOUS
<1> HIDE DEF es, cut
<1>7. /\ cut \in Stores /\ cut.entries = es /\ cut.head = Slot(st, d) /\ cut.count = n - d
      /\ SameRest(st, cut) /\ cut.nextId = st.nextId /\ cut.all = st.all
  BY <1>1, <1>3, <1>4, <1>5 DEF Stores, SameRest
<1>8. ASSUME NEW i \in 0 .. n - d - 1 PROVE At(cut, i) = At(st, i + d)
  <2>1. i \in 0 .. BufLines /\ i + d <= BufLines /\ i + d \in 0 .. BufLines - 1 /\ i + d \in 0 .. BufLines
    BY <1>1
  <2>2. Slot(cut, i) = Slot(st, i + d) /\ Slot(st, i + d) \in Slots
    BY <1>1, <1>7, <2>1, SlotShift, SlotIs
  <2>3. ASSUME NEW k \in 0 .. d - 1 PROVE Slot(st, k) # Slot(st, i + d)
    <3>1. k \in 0 .. BufLines - 1 /\ k # i + d
      BY <1>1
    <3>2. QED
      BY <2>1, <3>1, SlotOne
  <2>4. Slot(st, i + d) \notin gone
    BY <2>3
  <2>5. QED
    BY <1>6, <1>7, <2>2, <2>4 DEF At
<1>9. QED
  BY <1>1, <1>7, <1>8 DEF Cuts, cut

(* What a compaction does to the ring: nothing, it cuts it, or it puts a   *)
(* snapshot behind what is left.                                           *)
Compacts(st, nw) ==
  \/ nw = st
  \/ nw.nextId = st.nextId /\ \E d : Cuts(st, nw, d)
  \/ /\ nw.nextId = st.nextId + 1
     /\ \E m \in Stores, d \in Nat, pos \in Seq(Comp), val \in Nat :
          /\ Cuts(st, m, d) /\ m.nextId = st.nextId
          /\ Grows(m, nw, Entry("snapshot", <<0, st.nextId>>, pos, val))

(* The compaction does one of the three. *)
LEMMA CompactedIs ==
  ASSUME NEW st \in Stores
  PROVE  /\ Compacted(st) \in Stores
         /\ SameTalk(st, Compacted(st))
         /\ Compacts(st, Compacted(st))
<1> DEFINE drop == Dropped(st)
           cut == CutBy(st, drop)
           nw == AtTail(cut, "snapshot", drop)
<1>1. drop \in 0 .. st.count /\ drop \in Nat
  BY DroppedIs
<1>2. Compacted(st) = IF st.count < BufLines - 2 THEN st
                      ELSE IF drop < MinDrop THEN cut
                      ELSE MarkAll(nw)
  BY DEF Compacted, CutBy
<1> HIDE DEF drop
<1>3. /\ cut \in Stores /\ Cuts(st, cut, drop) /\ SameRest(st, cut)
      /\ cut.nextId = st.nextId
  BY <1>1, CutIs
<1> HIDE DEF cut
<1>4. /\ nw \in Stores /\ SameTalk(cut, nw) /\ nw.nextId = cut.nextId + 1
      /\ \E pos \in Seq(Comp) : Grows(cut, nw, Entry("snapshot", <<0, cut.nextId>>, pos, drop))
  <2>1. "snapshot" \in EntryTypes
    BY DEF EntryTypes
  <2>2. QED
    BY <1>1, <1>3, <2>1, AtTailIs
<1> HIDE DEF nw
<1>5. PICK pos \in Seq(Comp) : Grows(cut, nw, Entry("snapshot", <<0, cut.nextId>>, pos, drop))
  BY <1>4
<1> DEFINE all == MarkAll(nw)
<1>6. /\ all \in Stores /\ SameTalk(nw, all) /\ all.nextId = nw.nextId
      /\ all.head = nw.head /\ all.entries = nw.entries /\ all.count = nw.count
  BY <1>4, MarkAllKeeps
<1> HIDE DEF all
<1>7. Grows(cut, all, Entry("snapshot", <<0, st.nextId>>, pos, drop))
  BY <1>3, <1>5, <1>6, GrowsOn
<1>8. Compacts(st, all)
  <2>1. all.nextId = st.nextId + 1
    BY <1>3, <1>4, <1>6
  <2>2. cut \in Stores /\ Cuts(st, cut, drop) /\ cut.nextId = st.nextId /\ drop \in Nat /\ pos \in Seq(Comp)
    BY <1>1, <1>3
  <2>3. \E m \in Stores, d \in Nat, p \in Seq(Comp), val \in Nat :
          /\ Cuts(st, m, d) /\ m.nextId = st.nextId
          /\ Grows(m, all, Entry("snapshot", <<0, st.nextId>>, p, val))
    BY <1>7, <2>2, Zenon
  <2>4. QED
    BY <2>1, <2>3, Zenon DEF Compacts
<1>9. SameTalk(st, all) /\ SameTalk(st, cut) /\ SameTalk(st, st)
  BY <1>3, <1>4, <1>6 DEF SameTalk, SameRest
<1>10. Compacts(st, cut) /\ Compacts(st, st)
  BY <1>3 DEF Compacts
<1>11. Compacted(st) \in {st, cut, all}
  BY <1>2 DEF all
<1>12. QED
  BY <1>3, <1>6, <1>8, <1>9, <1>10, <1>11

(* append_line_internal puts a text of its own behind the ring. *)
LEMMA LineAppendedIs ==
  ASSUME NEW st \in Stores
  PROVE  LET nw == LineAppended(st)
         IN  /\ nw \in Stores /\ SameTalk(st, nw) /\ nw.nextId = st.nextId + 1
             /\ \E pos \in Seq(Comp) : Grows(st, nw, Entry("text", <<0, st.nextId>>, pos, 0))
<1> DEFINE m == AtTail(st, "text", 0)
<1>1. "text" \in EntryTypes /\ 0 \in Nat
  BY DEF EntryTypes
<1>2. /\ m \in Stores /\ SameTalk(st, m) /\ m.nextId = st.nextId + 1
      /\ \E pos \in Seq(Comp) : Grows(st, m, Entry("text", <<0, st.nextId>>, pos, 0))
  BY <1>1, AtTailIs
<1>3. PICK pos \in Seq(Comp) : Grows(st, m, Entry("text", <<0, st.nextId>>, pos, 0))
  BY <1>2
<1>4. LineAppended(st) = MarkAll(m)
  BY DEF LineAppended
<1> HIDE DEF m
<1>5. /\ MarkAll(m) \in Stores /\ SameTalk(m, MarkAll(m)) /\ MarkAll(m).nextId = m.nextId
      /\ Grows(st, MarkAll(m), Entry("text", <<0, st.nextId>>, pos, 0))
  BY <1>2, <1>3, MarkAllKeeps, GrowsOn
<1>6. QED
  BY <1>2, <1>4, <1>5 DEF SameTalk

(* con_store_insert_*_at puts an entry behind the ring, wherever it is     *)
(* displayed.                                                              *)
LEMMA InsertedIs ==
  ASSUME NEW st \in Stores, NEW type \in EntryTypes, NEW id \in ItemIds,
         NEW pos \in Seq(Comp), NEW val \in Nat
  PROVE  LET nw == Inserted(st, type, id, pos, val)
         IN  /\ nw \in Stores /\ SameTalk(st, nw) /\ nw.nextId = st.nextId
             /\ Grows(st, nw, Entry(type, id, pos, val))
             /\ nw.order = st.order /\ nw.valid = st.valid
<1> DEFINE e == Entry(type, id, pos, val)
           m == [st EXCEPT !.entries[NextSlot(st)] = e]
           es == [st.entries EXCEPT ![NextSlot(st)] = e]
<1>1. e \in Entries
  BY DEF Entry, Entries
<1> HIDE DEF e
<1>2. es \in [Slots -> Entries]
  BY <1>1 DEF Stores
<1>3. m = [st EXCEPT !.entries = es]
  OBVIOUS
<1> HIDE DEF m, es
<1>4. /\ m \in Stores /\ m.entries = es /\ m.head = st.head /\ m.count = st.count
      /\ m.nextId = st.nextId /\ SameRest(st, m)
  BY <1>2, <1>3 DEF Stores, SameRest
<1>5. /\ Grown(m) \in Stores /\ Grows(st, Grown(m), e) /\ SameRest(m, Grown(m))
      /\ Grown(m).nextId = m.nextId
  BY <1>1, <1>4, GrownIs DEF es
<1>6. Inserted(st, type, id, pos, val) = MarkAll(Grown(m))
  BY DEF Inserted, m, e
<1> DEFINE g == Grown(m)
<1> HIDE DEF g
<1>7. /\ MarkAll(g) \in Stores /\ SameTalk(g, MarkAll(g)) /\ MarkAll(g).nextId = g.nextId
      /\ MarkAll(g).order = g.order /\ MarkAll(g).valid = g.valid
      /\ Grows(st, MarkAll(g), e)
  BY <1>5, MarkAllKeeps, GrowsOn DEF g
<1>8. QED
  BY <1>4, <1>5, <1>6, <1>7 DEF SameTalk, SameRest, g, e

(* A message to a widget changes no id. *)
LEMMA WidgetSetIs ==
  ASSUME NEW st \in Stores, NEW id, NEW val \in Nat, HasId(st, id)
  PROVE  LET nw == WidgetSet(st, id, val)
         IN  /\ nw \in Stores /\ SameTalk(st, nw) /\ SameRing(st, nw) /\ nw.all = st.all
<1> DEFINE s == CHOOSE t \in Live(st) : st.entries[t].id = id
           x == [st.entries[s] EXCEPT !.val = val]
           es == [st.entries EXCEPT ![s] = x]
           nw == WidgetSet(st, id, val)
<1>1. s \in Live(st)
  BY DEF HasId
<1>2. s \in Slots
  BY <1>1, LiveIs
<1>3. nw = [st EXCEPT !.entries = es]
  BY DEF WidgetSet
<1> HIDE DEF s, nw
<1>4. st.entries \in [Slots -> Entries] /\ st.entries[s] \in Entries
  BY <1>2 DEF Stores
<1>5. /\ x \in Entries /\ x.type = st.entries[s].type /\ x.id = st.entries[s].id
      /\ x.pos = st.entries[s].pos
  BY <1>4 DEF Entries
<1> HIDE DEF x
<1>6. /\ es \in [Slots -> Entries]
      /\ \A t \in Slots : /\ es[t].type = st.entries[t].type
                          /\ es[t].id = st.entries[t].id
                          /\ es[t].pos = st.entries[t].pos
  BY <1>2, <1>4, <1>5
<1> HIDE DEF es
<1>7. /\ nw \in Stores /\ nw.entries = es /\ nw.head = st.head /\ nw.count = st.count
      /\ nw.nextId = st.nextId /\ SameTalk(st, nw) /\ nw.all = st.all
  BY <1>3, <1>6 DEF Stores, SameTalk
<1>8. SameRing(st, nw)
  BY <1>6, <1>7 DEF SameRing
<1>9. QED
  BY <1>7, <1>8 DEF nw

-----------------------------------------------------------------------------
(* What a handler works on                                                 *)

(* What a view knows of its redraw, a frame's damage, and all that a       *)
(* handler may change                                                      *)
ViewStates ==
  [laidOut : BOOLEAN, rowIds : [RowSet -> ItemIds], mask : SUBSET RowSet,
   full : BOOLEAN, invalid : BOOLEAN]
Damages == [cells : SUBSET (ViewSet \X Cells), n : 0 .. MaxDamage]
Worlds == [st : Stores, view : [ViewSet -> ViewStates], damage : Damages]

(* Every view but v is as it was.                                          *)
OnlyView(w, nw, v) == \A u \in ViewSet \ {v} : nw.view[u] = w.view[u]

(* The cells of a window are cells. *)
LEMMA FrameType == \A v \in ViewSet : Frame(v) \subseteq ViewSet \X Cells
  BY DEF Frame

(* Another store in a world. *)
LEMMA OnIs ==
  ASSUME NEW w \in Worlds, NEW st \in Stores
  PROVE  /\ On(w, st) \in Worlds /\ On(w, st).st = st
         /\ On(w, st).view = w.view /\ On(w, st).damage = w.damage
  BY DEF On, Worlds

(* A new rectangle of damage leaves the list in its bounds. *)
LEMMA DamagedIs ==
  ASSUME NEW w \in Worlds, NEW cells \in SUBSET (ViewSet \X Cells)
  PROVE  /\ Damaged(w, cells) \in Worlds
         /\ Damaged(w, cells).st = w.st /\ Damaged(w, cells).view = w.view
<1>1. CASE w.damage.n < MaxDamage
  <2> DEFINE d == [cells |-> w.damage.cells \cup cells, n |-> w.damage.n + 1]
  <2>1. Damaged(w, cells) = [w EXCEPT !.damage = d]
    BY <1>1 DEF Damaged
  <2>2. w.damage \in Damages
    BY DEF Worlds
  <2>3. w.damage.n + 1 \in 0 .. MaxDamage
    BY <1>1, <2>2, ViewsAssumption DEF Damages
  <2>4. d \in Damages
    BY <2>2, <2>3 DEF Damages
  <2> HIDE DEF d
  <2>5. QED
    BY <2>1, <2>4 DEF Worlds
<1>2. CASE ~(w.damage.n < MaxDamage)
  BY <1>2 DEF Damaged
<1>3. QED
  BY <1>1, <1>2

(* A change of the state of one view                                       *)
LEMMA ViewSet1 ==
  ASSUME NEW w \in Worlds, NEW v \in ViewSet, NEW x \in ViewStates
  PROVE  LET nw == [w EXCEPT !.view = [w.view EXCEPT ![v] = x]]
         IN  nw \in Worlds /\ nw.st = w.st /\ nw.view[v] = x /\ OnlyView(w, nw, v)
<1> DEFINE f == [w.view EXCEPT ![v] = x]
<1>1. f \in [ViewSet -> ViewStates] /\ f[v] = x /\ \A u \in ViewSet \ {v} : f[u] = w.view[u]
  BY DEF Worlds
<1> HIDE DEF f
<1>2. QED
  BY <1>1 DEF Worlds, OnlyView, f

(* A window that is invalidated is to be redrawn. *)
LEMMA InvalidatedIs ==
  ASSUME NEW w \in Worlds, NEW v \in ViewSet, NEW cells \in SUBSET (ViewSet \X Cells)
  PROVE  LET nw == Invalidated(w, v, cells)
         IN  /\ nw \in Worlds /\ nw.st = w.st /\ OnlyView(w, nw, v)
             /\ nw.view[v].invalid /\ nw.view[v].mask = w.view[v].mask
<1> DEFINE x == [w.view[v] EXCEPT !.invalid = TRUE]
           m == [w EXCEPT !.view = [w.view EXCEPT ![v] = x]]
<1>1. w.view[v] \in ViewStates
  BY DEF Worlds
<1>2. x \in ViewStates /\ x.invalid /\ x.mask = w.view[v].mask
  BY <1>1 DEF ViewStates
<1>3. Invalidated(w, v, cells) = Damaged(m, cells)
  BY DEF Invalidated, Worlds
<1> HIDE DEF x, m
<1>4. m \in Worlds /\ m.st = w.st /\ m.view[v] = x /\ OnlyView(w, m, v)
  BY <1>2, ViewSet1 DEF m
<1>5. /\ Damaged(m, cells) \in Worlds /\ Damaged(m, cells).st = m.st
      /\ Damaged(m, cells).view = m.view
  BY <1>4, DamagedIs
<1>6. QED
  BY <1>2, <1>3, <1>4, <1>5 DEF OnlyView

(* Rows that are marked leave an invalidated window invalidated. *)
LEMMA MarkedIs ==
  ASSUME NEW w \in Worlds, NEW v \in ViewSet, NEW rows \in SUBSET RowSet
  PROVE  LET nw == Marked(w, v, rows)
         IN  /\ nw \in Worlds /\ nw.st = w.st /\ OnlyView(w, nw, v)
             /\ w.view[v].invalid => nw.view[v].invalid
<1>1. CASE rows = {}
  BY <1>1 DEF Marked, OnlyView
<1>2. CASE rows # {}
  <2> DEFINE x == [w.view[v] EXCEPT !.mask = @ \cup rows]
             m == [w EXCEPT !.view = [w.view EXCEPT ![v] = x]]
             cells == {v} \X rows
  <2>1. w.view[v] \in ViewStates
    BY DEF Worlds
  <2>2. x \in ViewStates /\ x.invalid = w.view[v].invalid
    BY <2>1 DEF ViewStates
  <2>3. Marked(w, v, rows) = Invalidated(m, v, cells)
    BY <1>2 DEF Marked, Worlds
  <2>4. cells \in SUBSET (ViewSet \X Cells)
    BY DEF Cells
  <2> HIDE DEF x, m, cells
  <2>5. m \in Worlds /\ m.st = w.st /\ m.view[v] = x /\ OnlyView(w, m, v)
    BY <2>2, ViewSet1 DEF m
  <2> DEFINE i == Invalidated(m, v, cells)
  <2>6. i \in Worlds /\ i.st = m.st /\ OnlyView(m, i, v) /\ i.view[v].invalid
    BY <2>4, <2>5, InvalidatedIs
  <2> HIDE DEF i
  <2>7. QED
    BY <2>3, <2>5, <2>6 DEF OnlyView, i
<1>3. QED
  BY <1>1, <1>2

(* A row has an id. *)
LEMMA RowOfId ==
  ASSUME NEW st \in Stores, NEW row \in RowSet
  PROVE  RowOf(st, row).id \in ItemIds
<1> DEFINE i == StartIndex(st) + row
<1>1. st.count \in 0 .. BufLines /\ BufLines \in Nat /\ Rows \in Nat /\ row \in Nat
  BY SlotsAre, ViewsAssumption DEF Stores, RowSet
<1>2. StartIndex(st) \in Nat
  BY <1>1 DEF StartIndex
<1>3. CASE i < st.count
  <2>1. i \in Slots
    BY <1>1, <1>2, <1>3 DEF Slots
  <2>2. st.order[i] \in Slots
    BY <2>1 DEF Stores
  <2>3. st.entries[st.order[i]] \in Entries
    BY <2>2 DEF Stores
  <2>4. RowOf(st, row).id = st.entries[st.order[i]].id
    BY <1>3 DEF RowOf, Shown
  <2>5. QED
    BY <2>3, <2>4 DEF Entries
<1>4. CASE ~(i < st.count)
  BY <1>4 DEF RowOf, Blank, NoId, ItemIds
<1>5. QED
  BY <1>3, <1>4

(* A new layout brings the order up to date and makes nobody redraw. *)
LEMMA LaidOutIs ==
  ASSUME NEW w \in Worlds, NEW v \in ViewSet
  PROVE  LET nw == LaidOut(w, v)
         IN  /\ nw \in Worlds /\ nw.st \in {w.st, Fresh(w.st)} /\ OnlyView(w, nw, v)
             /\ nw.view[v].invalid = w.view[v].invalid
             /\ nw.view[v].mask = w.view[v].mask
             /\ nw.damage = w.damage
<1> DEFINE st == Fresh(w.st)
           ids == [r \in RowSet |-> RowOf(st, r).id]
           x == [w.view[v] EXCEPT !.laidOut = TRUE, !.full = FALSE, !.rowIds = ids]
           m == [w EXCEPT !.st = st]
           nw == LaidOut(w, v)
<1>1. CASE w.view[v].laidOut /\ ~w.view[v].full
  BY <1>1 DEF LaidOut, OnlyView
<1>2. CASE ~(w.view[v].laidOut /\ ~w.view[v].full)
  <2>1. st \in Stores
    BY FreshKeeps DEF Worlds
  <2> HIDE DEF st
  <2>2. ids \in [RowSet -> ItemIds]
    BY <2>1, RowOfId
  <2>3. w.view[v] \in ViewStates /\ w.view \in [ViewSet -> ViewStates]
    BY DEF Worlds
  <2> DEFINE x1 == [w.view[v] EXCEPT !.laidOut = TRUE]
             x2 == [x1 EXCEPT !.full = FALSE]
             x3 == [x2 EXCEPT !.rowIds = ids]
             f == [w.view EXCEPT ![v] = x3]
  <2> HIDE DEF ids
  <2>4. x3 \in ViewStates /\ x3.invalid = w.view[v].invalid /\ x3.mask = w.view[v].mask
    BY <2>2, <2>3 DEF ViewStates
  <2> HIDE DEF x1, x2, x3
  <2> DEFINE f1 == [w.view EXCEPT ![v] = x1]
             f2 == [f1 EXCEPT ![v] = x2]
             f3 == [f2 EXCEPT ![v] = x3]
  <2>5. f3 = f /\ f1[v] = x1 /\ f2[v] = x2
    BY <2>3
  <2>6. f \in [ViewSet -> ViewStates] /\ f[v] = x3 /\ \A u \in ViewSet \ {v} : f[u] = w.view[u]
    BY <2>3, <2>4
  <2>7. nw = [m EXCEPT !.view[v].laidOut = TRUE, !.view[v].full = FALSE, !.view[v].rowIds = ids]
    BY <1>2 DEF LaidOut, st, ids
  <2>8. nw = [w EXCEPT !.st = st, !.view = f]
    <3> DEFINE n1 == [m EXCEPT !.view = f1]
               n2 == [n1 EXCEPT !.view = f2]
               n3 == [n2 EXCEPT !.view = f3]
    <3>1. [m EXCEPT !.view[v].laidOut = TRUE] = n1
      BY DEF x1, Worlds
    <3>2. n1.view = f1 /\ n2.view = f2
      BY DEF Worlds
    <3>3. [n1 EXCEPT !.view[v].full = FALSE] = n2
      BY <2>5, <3>2 DEF x2
    <3>4. [n2 EXCEPT !.view[v].rowIds = ids] = n3
      BY <2>5, <3>2 DEF x3
    <3>5. nw = [[[m EXCEPT !.view[v].laidOut = TRUE] EXCEPT !.view[v].full = FALSE] EXCEPT !.view[v].rowIds = ids]
      BY <2>7
    <3>6. nw = n3
      BY <3>1, <3>3, <3>4, <3>5
    <3>7. QED
      BY <2>5, <3>6 DEF Worlds
  <2> HIDE DEF f, nw
  <2>9. /\ nw \in Worlds /\ nw.st = st /\ nw.view = f /\ nw.damage = w.damage
    BY <2>1, <2>6, <2>8 DEF Worlds
  <2>10. QED
    BY <2>4, <2>6, <2>9 DEF OnlyView, nw, st
<1>3. QED
  BY <1>1, <1>2

(* con_store_drain_changes leaves an empty queue and no mark. *)
LEMMA DrainedIs ==
  ASSUME NEW w \in Worlds
  PROVE  LET d == [w EXCEPT !.st = Drained(@)]
         IN  /\ d \in Worlds /\ d.view = w.view
             /\ SameRing(w.st, d.st) /\ d.st.prompts = w.st.prompts
             /\ d.st.changes = <<>> /\ d.st.all = FALSE
<1> DEFINE s == Drained(w.st)
<1>1. w.st \in Stores
  BY DEF Worlds
<1>2. <<>> \in Seq(ItemIds)
  OBVIOUS
<1>3. /\ s \in Stores /\ SameRing(w.st, s) /\ s.prompts = w.st.prompts
      /\ s.changes = <<>> /\ s.all = FALSE
  BY <1>1, <1>2 DEF Drained, Stores, SameRing
<1> HIDE DEF s
<1>4. [w EXCEPT !.st = Drained(@)] = [w EXCEPT !.st = s]
  BY DEF s, Worlds
<1>5. QED
  BY <1>3, <1>4 DEF Worlds

(* The rows of an id are rows of the view. *)
LEMMA RowsWithType ==
  ASSUME NEW w \in Worlds, NEW v \in ViewSet, NEW id
  PROVE  RowsWith(w, v, id) \in SUBSET RowSet
<1> DEFINE rows == {r \in RowSet : w.view[v].rowIds[r] = id}
<1>1. rows \subseteq RowSet /\ rows \subseteq Nat
  BY ViewsAssumption DEF RowSet
<1>2. CASE rows = {}
  BY <1>2 DEF RowsWith
<1>3. CASE rows # {}
  <2>1. Least(rows) \in rows
    BY <1>1, <1>3, LeastOf
  <2>2. QED
    BY <1>1, <1>3, <2>1 DEF RowsWith
<1>4. QED
  BY <1>2, <1>3

(* SameRing is transitive. *)
LEMMA SameRingTrans ==
  ASSUME NEW a, NEW b, NEW c, SameRing(a, b), SameRing(b, c)
  PROVE  SameRing(a, c)
  BY DEF SameRing

(* SameRing is reflexive. *)
LEMMA SameRingSelf == \A a : SameRing(a, a)
  BY DEF SameRing

(* w with the views' rows of the ids in it marked one after the other,     *)
(* which is what v does with the changes it hears of                       *)
Marks(f, w, v, ids) ==
  /\ f[0] = w
  /\ \A n \in 1 .. Len(ids) : f[n] = Marked(f[n - 1], v, RowsWith(f[n - 1], v, ids[n]))

(* What is left of w when they are all marked                              *)
KeepsButMask(w, nw, v) ==
  /\ nw \in Worlds /\ nw.st = w.st /\ OnlyView(w, nw, v)
  /\ w.view[v].invalid => nw.view[v].invalid

(* Marking rows changes but the view that has them. *)
LEMMA MarksKeep ==
  ASSUME NEW w \in Worlds, NEW v \in ViewSet, NEW ids \in Seq(ItemIds),
         NEW f, Marks(f, w, v, ids)
  PROVE  KeepsButMask(w, f[Len(ids)], v)
<1> DEFINE n == Len(ids)
           T == {k \in 0 .. n : KeepsButMask(w, f[k], v)}
<1>1. n \in Nat
  BY LenProperties
<1>2. 0 \in T
  BY <1>1 DEF Marks, KeepsButMask, OnlyView
<1>3. ASSUME NEW k \in 1 .. n, k - 1 \in T PROVE k \in T
  <2> DEFINE a == f[k - 1]
             rows == RowsWith(a, v, ids[k])
  <2>1. KeepsButMask(w, a, v)
    BY <1>3
  <2>2. f[k] = Marked(a, v, rows)
    BY DEF Marks
  <2> HIDE DEF a
  <2>3. a \in Worlds /\ rows \in SUBSET RowSet
    BY <2>1, RowsWithType DEF KeepsButMask
  <2> HIDE DEF rows
  <2>4. /\ f[k] \in Worlds /\ f[k].st = a.st /\ OnlyView(a, f[k], v)
        /\ a.view[v].invalid => f[k].view[v].invalid
    BY <2>2, <2>3, MarkedIs
  <2>5. KeepsButMask(w, f[k], v)
    BY <2>1, <2>4 DEF KeepsButMask, OnlyView
  <2>6. QED
    BY <2>5
<1> HIDE DEF T
<1>4. \A k \in 0 .. n : k \in T
  BY <1>1, <1>2, <1>3, Climbs
<1>5. QED
  BY <1>1, <1>4 DEF T

(* What on_store_changed of v does                                         *)
Heeds(w, nw, v) ==
  /\ nw \in Worlds /\ OnlyView(w, nw, v)
  /\ SameRing(w.st, nw.st) /\ nw.st.prompts = w.st.prompts
  /\ nw.st.changes = <<>> /\ nw.st.all = FALSE
  /\ w.view[v].invalid => nw.view[v].invalid
  /\ w.st.all \/ w.st.changes = <<>> =>
       nw.view[v].invalid /\ nw.view[v].mask \subseteq w.view[v].mask

(* This is what on_store_changed does when it has changes to hear of. *)
LEMMA SeenMarks ==
  ASSUME NEW w \in Worlds, NEW v \in ViewSet, ~w.st.all, w.st.changes # <<>>
  PROVE  LET d == [w EXCEPT !.st = Drained(@)]
             ids == w.st.changes
         IN  \E f : Marks(f, LaidOut(d, v), v, ids) /\ Seen(w, v) = f[Len(ids)]
<1> DEFINE d == [w EXCEPT !.st = Drained(@)]
           ids == w.st.changes
           first == LaidOut(d, v)
           n == Len(ids)
           G(a, k) == Marked(a, v, RowsWith(a, v, ids[k]))
           g == [k \in 1 .. n |-> [a \in Worlds |-> G(a, k)]]
           Up(f) == [k \in 0 .. n |-> IF k = 0 THEN first ELSE G(f[k - 1], k)]
           h == CHOOSE f : f = Up(f)
<1>1. ids \in Seq(ItemIds) /\ n \in Nat
  BY DEF Worlds, Stores
<1>2. ASSUME NEW k \in 1 .. n, NEW a \in Worlds PROVE G(a, k) \in Worlds
  BY RowsWithType, MarkedIs
<1>3. g \in Steps(n, Worlds)
  BY <1>2 DEF Steps
<1>4. \A k \in 1 .. n, a \in Worlds : g[k][a] = G(a, k)
  OBVIOUS
<1>5. first \in Worlds
  BY DrainedIs, LaidOutIs
<1>6. Seen(w, v) = h[n]
  BY DEF Seen
<1> HIDE DEF g, first, G
<1>7. PICK f : Counts(f, n, Worlds, first, g)
  BY <1>1, <1>3, <1>5, CountedUp
<1>8. f = Up(f)
  <2>1. ASSUME NEW k \in 0 .. n PROVE f[k] = IF k = 0 THEN first ELSE G(f[k - 1], k)
    <3>1. CASE k = 0
      BY <1>7, <3>1 DEF Counts
    <3>2. CASE k # 0
      <4>1. k \in 1 .. n /\ k - 1 \in 0 .. n
        BY <1>1, <3>2
      <4>2. f[k - 1] \in Worlds /\ f[k] = g[k][f[k - 1]]
        BY <1>7, <4>1 DEF Counts
      <4>3. QED
        BY <1>4, <3>2, <4>1, <4>2
    <3>3. QED
      BY <3>1, <3>2
  <2>2. QED
    BY <1>7, <2>1 DEF Counts
<1>9. h = Up(h)
  BY <1>8
<1> HIDE DEF h
<1>10. h[0] = first /\ \A k \in 1 .. n : h[k] = G(h[k - 1], k)
  BY <1>1, <1>9
<1>11. Marks(h, first, v, ids)
  BY <1>10 DEF Marks, G
<1>12. QED
  BY <1>6, <1>11 DEF first

(* The first view to hear of changes takes them all; a view that comes     *)
(* after it finds no changes and is to be redrawn.                         *)
LEMMA SeenIs ==
  ASSUME NEW w \in Worlds, NEW v \in ViewSet
  PROVE  Heeds(w, Seen(w, v), v)
<1> DEFINE d == [w EXCEPT !.st = Drained(@)]
           ids == w.st.changes
           nw == Seen(w, v)
<1>1. /\ d \in Worlds /\ d.view = w.view
      /\ SameRing(w.st, d.st) /\ d.st.prompts = w.st.prompts
      /\ d.st.changes = <<>> /\ d.st.all = FALSE
  BY DrainedIs
<1>2. CASE w.st.all
  <2> DEFINE x == [d.view[v] EXCEPT !.laidOut = FALSE, !.mask = {}, !.full = TRUE]
             m == [d EXCEPT !.view = [d.view EXCEPT ![v] = x]]
  <2>1. nw = Invalidated([d EXCEPT !.view[v].laidOut = FALSE, !.view[v].mask = {},
                                   !.view[v].full = TRUE], v, Frame(v))
    BY <1>2, Zenon DEF Seen
  <2> HIDE DEF d
  <2>2. d.view \in [ViewSet -> ViewStates] /\ d.view[v] \in ViewStates
    BY <1>1 DEF Worlds
  <2>3. x \in ViewStates /\ x.mask = {} /\ x.invalid = d.view[v].invalid
    BY <2>2 DEF ViewStates
  <2> DEFINE x1 == [d.view[v] EXCEPT !.laidOut = FALSE]
             x2 == [x1 EXCEPT !.mask = {}]
             x3 == [x2 EXCEPT !.full = TRUE]
  <2>4. x3 = x
    OBVIOUS
  <2>5. [d EXCEPT !.view[v].laidOut = FALSE, !.view[v].mask = {}, !.view[v].full = TRUE] = m
    <3> DEFINE f1 == [d.view EXCEPT ![v] = x1]
               f2 == [f1 EXCEPT ![v] = x2]
               f3 == [f2 EXCEPT ![v] = x3]
               n1 == [d EXCEPT !.view = f1]
               n2 == [n1 EXCEPT !.view = f2]
               n3 == [n2 EXCEPT !.view = f3]
    <3> HIDE DEF x1, x2, x3, x, d
    <3>1. f1[v] = x1 /\ f2[v] = x2 /\ f3 = [d.view EXCEPT ![v] = x]
      BY <2>2, <2>4
    <3>2. [d EXCEPT !.view[v].laidOut = FALSE] = n1
      BY DEF x1
    <3>3. n1.view = f1 /\ n2.view = f2
      BY <1>1 DEF Worlds
    <3>4. [n1 EXCEPT !.view[v].mask = {}] = n2
      BY <3>1, <3>3 DEF x2
    <3>5. [n2 EXCEPT !.view[v].full = TRUE] = n3
      BY <3>1, <3>3 DEF x3
    <3>6. [d EXCEPT !.view[v].laidOut = FALSE, !.view[v].mask = {}, !.view[v].full = TRUE]
            = [[[d EXCEPT !.view[v].laidOut = FALSE] EXCEPT !.view[v].mask = {}]
                 EXCEPT !.view[v].full = TRUE]
      OBVIOUS
    <3>7. n3 = m
      BY <1>1, <3>1 DEF Worlds
    <3>8. QED
      BY <3>2, <3>4, <3>5, <3>6, <3>7
  <2> HIDE DEF x, x1, x2, x3, m
  <2>6. m \in Worlds /\ m.st = d.st /\ m.view[v] = x /\ OnlyView(d, m, v)
    BY <1>1, <2>3, ViewSet1 DEF m
  <2> DEFINE i == Invalidated(m, v, Frame(v))
  <2>7. /\ i \in Worlds /\ i.st = m.st /\ OnlyView(m, i, v)
        /\ i.view[v].invalid /\ i.view[v].mask = m.view[v].mask
    BY <2>6, FrameType, InvalidatedIs
  <2>8. nw = i
    BY <2>1, <2>5
  <2> HIDE DEF i, nw
  <2>9. QED
    BY <1>1, <2>3, <2>6, <2>7, <2>8 DEF Heeds, OnlyView, nw
<1>3. CASE ~w.st.all /\ ids = <<>>
  <2> DEFINE i == Invalidated(d, v, {<<v, Strip>>})
  <2>1. nw = i
    BY <1>3 DEF Seen
  <2>2. {<<v, Strip>>} \in SUBSET (ViewSet \X Cells)
    BY DEF Cells
  <2> HIDE DEF d, nw
  <2>3. /\ i \in Worlds /\ i.st = d.st /\ OnlyView(d, i, v)
        /\ i.view[v].invalid /\ i.view[v].mask = d.view[v].mask
    BY <1>1, <2>2, InvalidatedIs
  <2> HIDE DEF i
  <2>4. QED
    BY <1>1, <2>1, <2>3 DEF Heeds, OnlyView, nw
<1>4. CASE ~w.st.all /\ ids # <<>>
  <2> DEFINE first == LaidOut(d, v)
  <2>1. PICK f : Marks(f, first, v, ids) /\ nw = f[Len(ids)]
    BY <1>4, SeenMarks
  <2> HIDE DEF d, nw
  <2>2. /\ first \in Worlds /\ first.st \in {d.st, Fresh(d.st)} /\ OnlyView(d, first, v)
        /\ first.view[v].invalid = d.view[v].invalid
    BY <1>1, LaidOutIs
  <2>3. d.st \in Stores /\ ids \in Seq(ItemIds)
    BY <1>1 DEF Worlds, Stores
  <2>4. /\ SameRing(d.st, first.st) /\ first.st.prompts = d.st.prompts
        /\ first.st.changes = <<>> /\ first.st.all = FALSE
    <3>1. /\ SameRing(d.st, Fresh(d.st)) /\ SameTalk(d.st, Fresh(d.st))
          /\ Fresh(d.st).all = d.st.all
      BY <2>3, FreshKeeps
    <3>2. QED
      BY <1>1, <2>2, <3>1, SameRingSelf DEF SameTalk
  <2> HIDE DEF first, ids
  <2>5. KeepsButMask(first, nw, v)
    BY <2>1, <2>2, <2>3, MarksKeep
  <2>6. SameRing(w.st, nw.st)
    BY <1>1, <2>4, <2>5, SameRingTrans DEF KeepsButMask
  <2>7. QED
    BY <1>1, <1>4, <2>2, <2>4, <2>5, <2>6 DEF Heeds, KeepsButMask, OnlyView, nw, ids
<1>5. QED
  BY <1>2, <1>3, <1>4

-----------------------------------------------------------------------------
(* What notify() does: the first view is redrawn if it hears of everything *)
(* or of nothing in particular, the views behind it always.                *)
Told(w, nw) ==
  /\ nw \in Worlds
  /\ SameRing(w.st, nw.st) /\ nw.st.prompts = w.st.prompts
  /\ nw.st.changes = <<>>
  /\ \A u \in ViewSet : w.view[u].invalid => nw.view[u].invalid
  /\ w.st.all \/ w.st.changes = <<>> => nw.view[1].invalid
  /\ \A u \in ViewSet \ {1} : nw.view[u].invalid /\ nw.view[u].mask \subseteq w.view[u].mask

(* The views up to k have heard.                                           *)
ToldTo(w, nw, k) ==
  /\ nw \in Worlds
  /\ SameRing(w.st, nw.st) /\ nw.st.prompts = w.st.prompts
  /\ nw.st.changes = <<>> /\ nw.st.all = FALSE
  /\ \A u \in ViewSet : u > k => nw.view[u] = w.view[u]
  /\ \A u \in ViewSet : w.view[u].invalid => nw.view[u].invalid
  /\ w.st.all \/ w.st.changes = <<>> => nw.view[1].invalid
  /\ \A u \in ViewSet \ {1} : u <= k => nw.view[u].invalid /\ nw.view[u].mask \subseteq w.view[u].mask

(* notify() calls the views one after the other. *)
LEMMA NotifyUp ==
  ASSUME NEW w \in Worlds
  PROVE  \E f : /\ f[0] = [w EXCEPT !.st.valid = FALSE]
                /\ \A v \in 1 .. Views : f[v] = Seen(f[v - 1], v)
                /\ Notify(w) = f[Views]
<1> DEFINE n == Views
           first == [w EXCEPT !.st.valid = FALSE]
           g == [k \in 1 .. n |-> [a \in Worlds |-> Seen(a, k)]]
           Up(f) == [k \in 0 .. n |-> IF k = 0 THEN first ELSE Seen(f[k - 1], k)]
           h == CHOOSE f : f = Up(f)
<1>1. n \in Nat /\ 1 .. n = ViewSet
  BY ViewsAssumption DEF ViewSet
<1>2. ASSUME NEW k \in 1 .. n, NEW a \in Worlds PROVE Seen(a, k) \in Worlds
  BY <1>1, SeenIs DEF Heeds
<1>3. g \in Steps(n, Worlds)
  BY <1>2 DEF Steps
<1>4. \A k \in 1 .. n, a \in Worlds : g[k][a] = Seen(a, k)
  OBVIOUS
<1>5. first \in Worlds
  <2>1. w.st \in Stores
    BY DEF Worlds
  <2>2. [w.st EXCEPT !.valid = FALSE] \in Stores
    BY <2>1 DEF Stores
  <2>3. QED
    BY <2>2 DEF Worlds
<1>6. Notify(w) = h[n]
  BY DEF Notify
<1> HIDE DEF g, first
<1>7. PICK f : Counts(f, n, Worlds, first, g)
  BY <1>1, <1>3, <1>5, CountedUp
<1>8. f = Up(f)
  <2>1. ASSUME NEW k \in 0 .. n PROVE f[k] = IF k = 0 THEN first ELSE Seen(f[k - 1], k)
    <3>1. CASE k = 0
      BY <1>7, <3>1 DEF Counts
    <3>2. CASE k # 0
      <4>1. k \in 1 .. n /\ k - 1 \in 0 .. n
        BY <1>1, <3>2
      <4>2. f[k - 1] \in Worlds /\ f[k] = g[k][f[k - 1]]
        BY <1>7, <4>1 DEF Counts
      <4>3. QED
        BY <1>4, <3>2, <4>1, <4>2
    <3>3. QED
      BY <3>1, <3>2
  <2>2. QED
    BY <1>7, <2>1 DEF Counts
<1>9. h = Up(h)
  BY <1>8
<1> HIDE DEF h
<1>10. h[0] = first /\ \A k \in 1 .. n : h[k] = Seen(h[k - 1], k)
  BY <1>1, <1>9
<1>11. QED
  BY <1>6, <1>10 DEF first

(* All views have heard when it returns. *)
LEMMA NotifyIs ==
  ASSUME NEW w \in Worlds
  PROVE  Told(w, Notify(w))
<1> DEFINE n == Views
           first == [w EXCEPT !.st.valid = FALSE]
<1>1. n \in Nat \ {0} /\ 1 .. n = ViewSet /\ 1 \in ViewSet
  BY ViewsAssumption DEF ViewSet
<1>2. PICK f : /\ f[0] = first
               /\ \A v \in 1 .. n : f[v] = Seen(f[v - 1], v)
               /\ Notify(w) = f[n]
  BY NotifyUp
<1>3. /\ first \in Worlds /\ first.view = w.view
      /\ SameRing(w.st, first.st) /\ first.st.prompts = w.st.prompts
      /\ first.st.changes = w.st.changes /\ first.st.all = w.st.all
  <2> DEFINE s == [w.st EXCEPT !.valid = FALSE]
  <2>1. w.st \in Stores
    BY DEF Worlds
  <2>2. /\ s \in Stores /\ SameRing(w.st, s) /\ s.prompts = w.st.prompts
        /\ s.changes = w.st.changes /\ s.all = w.st.all
    BY <2>1 DEF Stores, SameRing
  <2> HIDE DEF s
  <2>3. first = [w EXCEPT !.st = s]
    BY DEF s
  <2> HIDE DEF first
  <2>4. QED
    BY <2>2, <2>3 DEF Worlds
<1> HIDE DEF first
<1> DEFINE T == {k \in 0 .. n : k > 0 => ToldTo(w, f[k], k)}
<1>4. 0 \in T
  BY <1>1
<1>5. ASSUME NEW k \in 1 .. n, k - 1 \in T PROVE k \in T
  <2>1. k \in ViewSet /\ k \in Nat /\ f[k] = Seen(f[k - 1], k) /\ \A u \in ViewSet : u \in Nat /\ u >= 1
    BY <1>1, <1>2 DEF ViewSet
  <2>2. CASE k = 1
    <3>1. Heeds(first, f[1], 1)
      BY <1>1, <1>2, <1>3, <2>1, <2>2, SeenIs
    <3>2. \A u \in ViewSet \ {1} : f[1].view[u] = w.view[u]
      BY <1>3, <3>1 DEF Heeds, OnlyView
    <3>3. SameRing(w.st, f[1].st)
      BY <1>3, <3>1, SameRingTrans DEF Heeds
    <3>4. \A u \in ViewSet \ {1} : ~(u <= 1)
      BY <2>1
    <3>5. ToldTo(w, f[1], 1)
      BY <1>1, <1>3, <2>1, <3>1, <3>2, <3>3, <3>4 DEF ToldTo, Heeds
    <3>6. QED
      BY <2>2, <3>5
  <2>3. CASE k # 1
    <3> DEFINE a == f[k - 1]
               b == f[k]
    <3>1. ToldTo(w, a, k - 1) /\ k - 1 >= 1
      BY <1>5, <2>1, <2>3
    <3>2. b = Seen(a, k)
      BY <2>1
    <3> HIDE DEF a, b
    <3>3. Heeds(a, b, k)
      BY <2>1, <3>1, <3>2, SeenIs DEF ToldTo
    <3>4. SameRing(w.st, b.st)
      BY <3>1, <3>3, SameRingTrans DEF ToldTo, Heeds
    <3>5. \A u \in ViewSet \ {k} : b.view[u] = a.view[u]
      BY <3>3 DEF Heeds, OnlyView
    <3>6. b.view[k].invalid /\ b.view[k].mask \subseteq a.view[k].mask
      BY <3>1, <3>3 DEF ToldTo, Heeds
    <3>7. a.view[k] = w.view[k]
      BY <2>1, <3>1 DEF ToldTo
    <3>8. /\ b \in Worlds /\ b.st.prompts = w.st.prompts
          /\ b.st.changes = <<>> /\ b.st.all = FALSE
      BY <3>1, <3>3 DEF ToldTo, Heeds
    <3>9. \A u \in ViewSet : u > k => b.view[u] = w.view[u]
      <4>1. \A u \in ViewSet : u > k => u # k /\ u > k - 1
        BY <2>1
      <4>2. QED
        BY <3>1, <3>5, <4>1 DEF ToldTo
    <3>10. \A u \in ViewSet : w.view[u].invalid => b.view[u].invalid
      BY <3>1, <3>5, <3>6 DEF ToldTo
    <3>11. w.st.all \/ w.st.changes = <<>> => b.view[1].invalid
      BY <1>1, <2>3, <3>1, <3>5 DEF ToldTo
    <3>12. \A u \in ViewSet \ {1} : u <= k => b.view[u].invalid /\ b.view[u].mask \subseteq w.view[u].mask
      <4>1. \A u \in ViewSet : u <= k => u = k \/ u <= k - 1
        BY <2>1
      <4>2. QED
        BY <3>1, <3>5, <3>6, <3>7, <4>1 DEF ToldTo
    <3>13. ToldTo(w, b, k)
      BY <3>4, <3>8, <3>9, <3>10, <3>11, <3>12 DEF ToldTo
    <3>14. QED
      BY <3>13 DEF b
  <2>4. QED
    BY <2>2, <2>3
<1> HIDE DEF T
<1>6. \A k \in 0 .. n : k \in T
  BY <1>1, <1>4, <1>5, Climbs
<1>7. ToldTo(w, f[n], n)
  BY <1>1, <1>6 DEF T
<1>8. \A u \in ViewSet : u <= n
  BY <1>1 DEF ViewSet
<1>9. QED
  BY <1>2, <1>7, <1>8 DEF ToldTo, Told

-----------------------------------------------------------------------------
(* The ring and the log of what was ever added                             *)

(* An id that has been given out: by the store itself, which counts its    *)
(* own ids, or for an entry of the log                                     *)
Given(id, nextId, n) ==
  \/ id[1] = 0 /\ id[2] < nextId
  \/ id[1] \in {Here, There} /\ id[2] <= n

(* The entries ever added *)
LogItems == [type : {"text", "widget"}, id : ItemIds, pos : Seq(Comp)]

(* An entry of a sink has no number that is higher than the log is long. *)
LogOK(lg) ==
  /\ lg \in Seq(LogItems)
  /\ \A i \in DOMAIN lg : lg[i].id[1] # 0 =>
       lg[i].id[1] \in {Here, There} /\ lg[i].id[2] <= Len(lg)

(* Place i of the ring follows at[i] entries of the log, and an entry that *)
(* is no snapshot is the next of it.                                       *)
Follows(st, lg, at) ==
  /\ at \in [0 .. st.count -> Nat]
  /\ at[st.count] = Len(lg)
  /\ \A i \in 0 .. st.count : at[i] <= Len(lg)
  /\ \A i \in 0 .. st.count - 1 :
       IF At(st, i).type = "snapshot" THEN at[i + 1] = at[i]
       ELSE at[i + 1] = at[i] + 1 /\ lg[at[i + 1]].id = At(st, i).id

(* The entries of the ring have distinct ids that were given out, and all  *)
(* but the snapshots are the last of the log.                              *)
RingOK(st, lg) ==
  /\ \A i \in 0 .. st.count - 1 : At(st, i).type # "free"
  /\ \A i \in 0 .. st.count - 1 : Given(At(st, i).id, st.nextId, Len(lg))
  /\ \A i, j \in 0 .. st.count - 1 : At(st, i).id = At(st, j).id => i = j
  /\ \E at : Follows(st, lg, at)

(* A place of the ring has an entry. *)
LEMMA AtType ==
  ASSUME NEW st \in Stores, NEW i \in 0 .. st.count - 1
  PROVE  At(st, i) \in Entries
<1>1. st.count \in 0 .. BufLines /\ BufLines \in Nat
  BY SlotsAre DEF Stores
<1>2. i \in 0 .. BufLines
  BY <1>1
<1>3. Slot(st, i) \in Slots
  BY <1>2, SlotIs
<1>4. QED
  BY <1>3 DEF At, Stores

(* RingOK is about the ids and types alone. *)
LEMMA SameRingKeeps ==
  ASSUME NEW st \in Stores, NEW nw \in Stores, NEW lg, RingOK(st, lg), SameRing(st, nw)
  PROVE  RingOK(nw, lg)
<1>1. st.count \in 0 .. BufLines /\ BufLines \in Nat /\ nw.count = st.count
      /\ nw.nextId = st.nextId
  BY SlotsAre DEF Stores, SameRing
<1>2. ASSUME NEW i \in 0 .. st.count - 1
      PROVE  At(nw, i).type = At(st, i).type /\ At(nw, i).id = At(st, i).id
  <2>1. i \in 0 .. BufLines
    BY <1>1
  <2>2. Slot(st, i) \in Slots /\ Slot(nw, i) = Slot(st, i)
    BY <2>1, SlotIs, SlotSame DEF SameRing
  <2>3. QED
    BY <2>2 DEF At, SameRing
<1>3. PICK at : Follows(st, lg, at)
  BY DEF RingOK
<1>4. Follows(nw, lg, at)
  BY <1>1, <1>2, <1>3 DEF Follows
<1>5. QED
  BY <1>1, <1>2, <1>4 DEF RingOK

(* A cut at the head keeps it: the places that are left follow the log as  *)
(* they did.                                                               *)
LEMMA CutsKeep ==
  ASSUME NEW st \in Stores, NEW nw \in Stores, NEW lg, NEW d,
         RingOK(st, lg), Cuts(st, nw, d), nw.nextId = st.nextId
  PROVE  RingOK(nw, lg)
<1> DEFINE n == st.count
<1>1. n \in Nat /\ d \in 0 .. n /\ nw.count = n - d /\ d \in Nat
  BY SlotsAre DEF Stores, Cuts
<1>2. \A i \in 0 .. nw.count - 1 : At(nw, i) = At(st, i + d) /\ i + d \in 0 .. n - 1
  BY <1>1 DEF Cuts
<1>3. PICK at : Follows(st, lg, at)
  BY DEF RingOK
<1> DEFINE to == [i \in 0 .. nw.count |-> at[i + d]]
<1>4. \A i \in 0 .. nw.count : i + d \in 0 .. n /\ to[i] = at[i + d] /\ at[i + d] \in Nat
  <2>1. \A i \in 0 .. nw.count : i + d \in 0 .. n
    BY <1>1
  <2>2. at \in [0 .. n -> Nat]
    BY <1>3 DEF Follows
  <2>3. QED
    BY <2>1, <2>2
<1>5. to \in [0 .. nw.count -> Nat]
  BY <1>4
<1> HIDE DEF to
<1>6. to[nw.count] = Len(lg)
  <2>1. nw.count \in 0 .. nw.count /\ nw.count + d = n
    BY <1>1
  <2>2. QED
    BY <1>3, <1>4, <2>1 DEF Follows
<1>7. ASSUME NEW i \in 0 .. nw.count - 1
      PROVE  IF At(nw, i).type = "snapshot" THEN to[i + 1] = to[i]
             ELSE to[i + 1] = to[i] + 1 /\ lg[to[i + 1]].id = At(nw, i).id
  <2>1. i \in 0 .. nw.count /\ i + 1 \in 0 .. nw.count /\ (i + 1) + d = (i + d) + 1
    BY <1>1
  <2>2. to[i] = at[i + d] /\ to[i + 1] = at[(i + d) + 1]
    BY <1>4, <2>1
  <2>3. QED
    BY <1>2, <1>3, <2>2 DEF Follows
<1>8. \A i \in 0 .. nw.count : to[i] <= Len(lg)
  BY <1>3, <1>4 DEF Follows
<1>9. Follows(nw, lg, to)
  BY <1>5, <1>6, <1>7, <1>8 DEF Follows
<1>10. \A i, j \in 0 .. nw.count - 1 : At(nw, i).id = At(nw, j).id => i = j
  <2> TAKE i, j \in 0 .. nw.count - 1
  <2>1. At(nw, i).id = At(nw, j).id => i + d = j + d
    BY <1>2 DEF RingOK
  <2>2. QED
    BY <1>1, <2>1
<1>11. QED
  BY <1>2, <1>9, <1>10 DEF RingOK

(* So does a new entry whose id is not in the ring and that is added to    *)
(* the log as well; a snapshot is not.                                     *)
LEMMA GrowsKeeps ==
  ASSUME NEW st \in Stores, NEW nw \in Stores, NEW lg, NEW lgn, NEW e \in Entries,
         RingOK(st, lg), LogOK(lg), LogOK(lgn),
         Grows(st, nw, e), e.type # "free",
         \A i \in 0 .. st.count - 1 : At(st, i).id # e.id,
         nw.nextId >= st.nextId, Given(e.id, nw.nextId, Len(lgn)),
         \/ e.type = "snapshot" /\ lgn = lg
         \/ e.type # "snapshot" /\ \E x : lgn = Append(lg, x) /\ x.id = e.id
  PROVE  RingOK(nw, lgn)
<1> DEFINE n == st.count
           d == Over(st)
           k == n - d
<1>1. n \in Nat /\ d \in {0, 1} /\ k \in Nat /\ nw.count = k + 1 /\ st.nextId \in Nat
      /\ nw.nextId \in Nat
  <2>1. n \in 0 .. BufLines /\ BufLines \in Nat \ {0}
    BY SlotsAre DEF Stores
  <2>2. CASE n < BufLines
    BY <2>1, <2>2 DEF Over, Grows, Stores
  <2>3. CASE ~(n < BufLines)
    BY <2>1, <2>3 DEF Over, Grows, Stores
  <2>4. QED
    BY <2>2, <2>3
<1>2. \A i \in 0 .. k - 1 : At(nw, i) = At(st, i + d)
  BY <1>1 DEF Grows
<1>3. At(nw, k) = e
  BY <1>1 DEF Grows
<1> HIDE DEF d, k
<1>4. k = n - d
  BY DEF k
<1>5. \A i \in 0 .. k - 1 : i + d \in 0 .. n - 1
  BY <1>1, <1>4
<1>6. \A i \in 0 .. nw.count - 1 : i = k \/ i \in 0 .. k - 1
  BY <1>1
<1>7. Len(lg) \in Nat /\ Len(lgn) \in Nat /\ Len(lgn) >= Len(lg)
      /\ \A m \in 1 .. Len(lg) : lgn[m] = lg[m]
  <2>1. lg \in Seq(LogItems) /\ lgn \in Seq(LogItems)
    BY DEF LogOK
  <2>2. QED
    BY <2>1
<1>8. \A i \in 0 .. nw.count - 1 : At(nw, i).type # "free"
  BY <1>2, <1>3, <1>5, <1>6 DEF RingOK
<1>9. \A i \in 0 .. nw.count - 1 : Given(At(nw, i).id, nw.nextId, Len(lgn))
  <2>1. ASSUME NEW i \in 0 .. k - 1 PROVE Given(At(st, i + d).id, nw.nextId, Len(lgn))
    <3> DEFINE id == At(st, i + d).id
    <3>1. Given(id, st.nextId, Len(lg))
      BY <1>5 DEF RingOK
    <3>2. id \in ItemIds
      BY <1>5, AtType DEF Entries
    <3>3. id[2] \in Nat
      BY <3>2 DEF ItemIds
    <3> HIDE DEF id
    <3>4. Given(id, nw.nextId, Len(lgn))
      BY <1>1, <1>7, <3>1, <3>3 DEF Given
    <3>5. QED
      BY <3>4 DEF id
  <2>2. QED
    BY <1>2, <1>3, <1>6, <2>1
<1>10. \A i, j \in 0 .. nw.count - 1 : At(nw, i).id = At(nw, j).id => i = j
  <2> TAKE i, j \in 0 .. nw.count - 1
  <2> HAVE At(nw, i).id = At(nw, j).id
  <2>1. CASE i \in 0 .. k - 1 /\ j \in 0 .. k - 1
    <3>1. i + d = j + d
      BY <1>2, <1>5, <2>1 DEF RingOK
    <3>2. QED
      BY <1>1, <2>1, <3>1
  <2>2. CASE i = k /\ j # k
    BY <1>2, <1>3, <1>5, <1>6, <2>2
  <2>3. CASE i # k /\ j = k
    BY <1>2, <1>3, <1>5, <1>6, <2>3
  <2>4. QED
    BY <1>6, <2>1, <2>2, <2>3
<1>11. PICK at : Follows(st, lg, at)
  BY DEF RingOK
<1> DEFINE to == [i \in 0 .. k + 1 |-> IF i = k + 1 THEN Len(lgn) ELSE at[i + d]]
<1>12. \A i \in 0 .. k : i + d \in 0 .. n /\ at[i + d] \in Nat /\ at[i + d] <= Len(lg)
  <2>1. \A i \in 0 .. k : i + d \in 0 .. n
    BY <1>1, <1>4
  <2>2. at \in [0 .. n -> Nat] /\ \A i \in 0 .. n : at[i] <= Len(lg)
    BY <1>11 DEF Follows
  <2>3. QED
    BY <2>1, <2>2
<1>13. to \in [0 .. k + 1 -> Nat] /\ to[k + 1] = Len(lgn)
       /\ \A i \in 0 .. k : to[i] = at[i + d]
  <2>1. \A i \in 0 .. k : i \in 0 .. k + 1 /\ i # k + 1
    BY <1>1
  <2>2. \A i \in 0 .. k + 1 : i = k + 1 \/ i \in 0 .. k
    BY <1>1
  <2>3. k + 1 \in 0 .. k + 1
    BY <1>1
  <2>4. QED
    BY <1>7, <1>12, <2>1, <2>2, <2>3
<1> HIDE DEF to
<1>14. to[k] = Len(lg)
  <2>1. k \in 0 .. k /\ k + d = n
    BY <1>1, <1>4
  <2>2. QED
    BY <1>11, <1>13, <2>1 DEF Follows
<1>15. \A i \in 0 .. k + 1 : to[i] <= Len(lgn)
  <2>1. \A i \in 0 .. k : to[i] <= Len(lgn)
    <3>1. \A i \in 0 .. k : at[i + d] <= Len(lgn)
      BY <1>7, <1>12
    <3>2. QED
      BY <1>13, <3>1
  <2>2. \A i \in 0 .. k + 1 : i = k + 1 \/ i \in 0 .. k
    BY <1>1
  <2>3. QED
    BY <1>7, <1>13, <2>1, <2>2
<1>16. ASSUME NEW i \in 0 .. k - 1
       PROVE  IF At(nw, i).type = "snapshot" THEN to[i + 1] = to[i]
              ELSE to[i + 1] = to[i] + 1 /\ lgn[to[i + 1]].id = At(nw, i).id
  <2>1. i \in 0 .. k /\ i + 1 \in 0 .. k /\ (i + 1) + d = (i + d) + 1 /\ i + d \in 0 .. n - 1
    BY <1>1, <1>5
  <2>2. to[i] = at[i + d] /\ to[i + 1] = at[(i + d) + 1]
    BY <1>13, <2>1
  <2>3. IF At(st, i + d).type = "snapshot" THEN at[(i + d) + 1] = at[i + d]
        ELSE at[(i + d) + 1] = at[i + d] + 1 /\ lg[at[(i + d) + 1]].id = At(st, i + d).id
    BY <1>11, <2>1 DEF Follows
  <2>4. at[i + d] \in Nat /\ to[i + 1] <= Len(lg) /\ to[i + 1] \in Nat
    BY <1>12, <2>1, <2>2
  <2>5. to[i + 1] = at[i + d] + 1 => lgn[to[i + 1]] = lg[to[i + 1]]
    BY <1>7, <2>4
  <2>6. At(nw, i) = At(st, i + d)
    BY <1>2
  <2>7. QED
    BY <2>2, <2>3, <2>5, <2>6
<1>17. IF e.type = "snapshot" THEN to[k + 1] = to[k]
       ELSE to[k + 1] = to[k] + 1 /\ lgn[to[k + 1]].id = e.id
  <2>1. CASE e.type = "snapshot" /\ lgn = lg
    BY <1>13, <1>14, <2>1
  <2>2. CASE e.type # "snapshot" /\ \E x : lgn = Append(lg, x) /\ x.id = e.id
    <3>1. PICK x : lgn = Append(lg, x) /\ x.id = e.id
      BY <2>2
    <3>2. lg \in Seq(LogItems)
      BY DEF LogOK
    <3>3. Len(lgn) = Len(lg) + 1 /\ lgn[Len(lg) + 1] = x
      BY <3>1, <3>2
    <3>4. QED
      BY <1>13, <1>14, <2>2, <3>1, <3>3
  <2>3. QED
    BY <2>1, <2>2
<1>18. Follows(nw, lgn, to)
  <2>1. \A i \in 0 .. nw.count - 1 :
          IF At(nw, i).type = "snapshot" THEN to[i + 1] = to[i]
          ELSE to[i + 1] = to[i] + 1 /\ lgn[to[i + 1]].id = At(nw, i).id
    BY <1>3, <1>6, <1>16, <1>17
  <2>2. QED
    BY <1>1, <1>13, <1>15, <2>1 DEF Follows
<1>19. QED
  BY <1>8, <1>9, <1>10, <1>18 DEF RingOK

(* An id of the store's own that it has not counted yet is not in it.      *)
LEMMA OwnIsNew ==
  ASSUME NEW st \in Stores, NEW lg, RingOK(st, lg)
  PROVE  \A i \in 0 .. st.count - 1 : At(st, i).id # <<0, st.nextId>>
<1>1. \A i \in 0 .. st.count - 1 : Given(At(st, i).id, st.nextId, Len(lg))
  BY DEF RingOK
<1>2. {Here, There} \subseteq Nat \ {0} /\ st.nextId \in Nat
  BY ViewsAssumption DEF Stores
<1>3. QED
  BY <1>1, <1>2 DEF Given

(* So does a compaction: its snapshot has an id that the store never gave. *)
LEMMA CompactsKeeps ==
  ASSUME NEW st \in Stores, NEW nw \in Stores, NEW lg, LogOK(lg),
         RingOK(st, lg), Compacts(st, nw)
  PROVE  RingOK(nw, lg)
<1>1. CASE nw = st
  BY <1>1
<1>2. CASE nw.nextId = st.nextId /\ \E d : Cuts(st, nw, d)
  BY <1>2, CutsKeep
<1>3. CASE /\ nw.nextId = st.nextId + 1
           /\ \E m \in Stores, d \in Nat, pos \in Seq(Comp), val \in Nat :
                /\ Cuts(st, m, d) /\ m.nextId = st.nextId
                /\ Grows(m, nw, Entry("snapshot", <<0, st.nextId>>, pos, val))
  <2>1. PICK m \in Stores, d \in Nat, pos \in Seq(Comp), val \in Nat :
          /\ Cuts(st, m, d) /\ m.nextId = st.nextId
          /\ Grows(m, nw, Entry("snapshot", <<0, st.nextId>>, pos, val))
    BY <1>3
  <2> DEFINE e == Entry("snapshot", <<0, st.nextId>>, pos, val)
  <2>2. RingOK(m, lg)
    BY <2>1, CutsKeep
  <2>3. st.nextId \in Nat
    BY DEF Stores
  <2>4. e \in Entries /\ e.type = "snapshot" /\ e.id = <<0, st.nextId>>
    BY <2>3 DEF Entry, Entries, EntryTypes, ItemIds
  <2> HIDE DEF e
  <2>5. \A i \in 0 .. m.count - 1 : At(m, i).id # e.id
    BY <2>1, <2>2, <2>4, OwnIsNew
  <2>6. nw.nextId >= m.nextId /\ Given(e.id, nw.nextId, Len(lg))
    BY <1>3, <2>1, <2>3, <2>4 DEF Given
  <2>7. Grows(m, nw, e)
    BY <2>1 DEF e
  <2>8. e.type # "free" /\ (e.type = "snapshot" /\ lg = lg)
    BY <2>4
  <2>9. QED
    BY <2>2, <2>4, <2>5, <2>6, <2>7, <2>8, GrowsKeeps
<1>4. QED
  BY <1>1, <1>2, <1>3 DEF Compacts

(* A new line of the store's own *)
LEMMA LineKeeps ==
  ASSUME NEW st \in Stores, NEW lg, NEW x \in LogItems, LogOK(lg), RingOK(st, lg),
         x.id = <<0, st.nextId>>
  PROVE  LogOK(Append(lg, x)) /\ RingOK(LineAppended(st), Append(lg, x))
<1> DEFINE nw == LineAppended(st)
           lgn == Append(lg, x)
<1>1. /\ nw \in Stores /\ nw.nextId = st.nextId + 1
      /\ \E pos \in Seq(Comp) : Grows(st, nw, Entry("text", <<0, st.nextId>>, pos, 0))
  BY LineAppendedIs
<1>2. PICK pos \in Seq(Comp) : Grows(st, nw, Entry("text", <<0, st.nextId>>, pos, 0))
  BY <1>1
<1> DEFINE e == Entry("text", <<0, st.nextId>>, pos, 0)
<1>3. st.nextId \in Nat
  BY DEF Stores
<1>4. e \in Entries /\ e.type = "text" /\ e.id = <<0, st.nextId>>
  BY <1>3 DEF Entry, Entries, EntryTypes, ItemIds
<1>5. Grows(st, nw, e)
  BY <1>2
<1> HIDE DEF e, nw
<1>6. LogOK(lgn)
  <2>1. lg \in Seq(LogItems)
    BY DEF LogOK
  <2>2. /\ lgn \in Seq(LogItems) /\ Len(lgn) = Len(lg) + 1 /\ Len(lg) \in Nat
        /\ \A i \in DOMAIN lgn : (i \in DOMAIN lg /\ lgn[i] = lg[i]) \/ lgn[i] = x
    BY <2>1
  <2>3. x.id[1] = 0
    OBVIOUS
  <2>4. \A i \in DOMAIN lg : lg[i].id[2] \in Nat
    <3>1. \A i \in DOMAIN lg : lg[i] \in LogItems
      BY <2>1
    <3>2. \A y \in LogItems : y.id[2] \in Nat
      BY DEF LogItems, ItemIds
    <3>3. QED
      BY <3>1, <3>2
  <2> HIDE DEF lgn
  <2>5. ASSUME NEW i \in DOMAIN lgn, lgn[i].id[1] # 0
        PROVE  lgn[i].id[1] \in {Here, There} /\ lgn[i].id[2] <= Len(lgn)
    <3>1. i \in DOMAIN lg /\ lgn[i] = lg[i]
      BY <2>2, <2>3, <2>5
    <3>2. lg[i].id[1] \in {Here, There} /\ lg[i].id[2] <= Len(lg)
      BY <2>5, <3>1 DEF LogOK
    <3>3. QED
      BY <2>2, <2>4, <3>1, <3>2
  <2>6. QED
    BY <2>2, <2>5 DEF LogOK
<1>7. \A i \in 0 .. st.count - 1 : At(st, i).id # e.id
  BY <1>4, OwnIsNew
<1>8. nw.nextId >= st.nextId /\ Given(e.id, nw.nextId, Len(lgn))
  BY <1>1, <1>3, <1>4 DEF Given
<1>9. e.type # "free" /\ e.type # "snapshot" /\ (lgn = Append(lg, x) /\ x.id = e.id)
  BY <1>4
<1>10. RingOK(nw, lgn)
  <2> HIDE DEF lgn
  <2>1. nw \in Stores /\ \E y : lgn = Append(lg, y) /\ y.id = e.id
    BY <1>1, <1>9 DEF nw
  <2>2. QED
    BY <1>4, <1>5, <1>6, <1>7, <1>8, <1>9, <2>1, GrowsKeeps
<1>11. QED
  BY <1>6, <1>10 DEF nw

(* An entry from a sink, under an id that is not there                     *)
LEMMA InsertedKeeps ==
  ASSUME NEW st \in Stores, NEW lg, NEW x \in LogItems, LogOK(lg), RingOK(st, lg),
         x.id[1] \in {Here, There}, x.id[2] <= Len(lg) + 1, ~HasId(st, x.id)
  PROVE  LogOK(Append(lg, x)) /\ RingOK(Inserted(st, x.type, x.id, x.pos, 0), Append(lg, x))
<1> DEFINE nw == Inserted(st, x.type, x.id, x.pos, 0)
           e == Entry(x.type, x.id, x.pos, 0)
           lgn == Append(lg, x)
<1>1. /\ x.type \in EntryTypes /\ x.id \in ItemIds /\ x.pos \in Seq(Comp) /\ 0 \in Nat
      /\ x.type # "free" /\ x.type # "snapshot"
  BY DEF LogItems, EntryTypes
<1>2. /\ nw \in Stores /\ nw.nextId = st.nextId /\ Grows(st, nw, e)
  BY <1>1, InsertedIs
<1>3. e \in Entries /\ e.type = x.type /\ e.id = x.id
  BY <1>1 DEF Entry, Entries
<1> HIDE DEF e, nw
<1>4. x.id[2] \in Nat /\ st.nextId \in Nat
  BY <1>1 DEF ItemIds, Stores
<1>5. LogOK(lgn)
  <2>1. lg \in Seq(LogItems)
    BY DEF LogOK
  <2>2. /\ lgn \in Seq(LogItems) /\ Len(lgn) = Len(lg) + 1 /\ Len(lg) \in Nat
        /\ \A i \in DOMAIN lgn : (i \in DOMAIN lg /\ lgn[i] = lg[i]) \/ lgn[i] = x
    BY <2>1
  <2>3. \A i \in DOMAIN lg : lg[i].id[2] \in Nat
    <3>1. \A i \in DOMAIN lg : lg[i] \in LogItems
      BY <2>1
    <3>2. \A y \in LogItems : y.id[2] \in Nat
      BY DEF LogItems, ItemIds
    <3>3. QED
      BY <3>1, <3>2
  <2> HIDE DEF lgn
  <2>4. ASSUME NEW i \in DOMAIN lgn, lgn[i].id[1] # 0
        PROVE  lgn[i].id[1] \in {Here, There} /\ lgn[i].id[2] <= Len(lgn)
    <3>1. CASE i \in DOMAIN lg /\ lgn[i] = lg[i]
      <4>1. lg[i].id[1] \in {Here, There} /\ lg[i].id[2] <= Len(lg)
        BY <2>4, <3>1 DEF LogOK
      <4>2. QED
        BY <2>2, <2>3, <3>1, <4>1
    <3>2. CASE lgn[i] = x
      BY <2>2, <3>2
    <3>3. QED
      BY <2>2, <3>1, <3>2
  <2>5. QED
    BY <2>2, <2>4 DEF LogOK
<1>6. \A i \in 0 .. st.count - 1 : At(st, i).id # e.id
  BY <1>3, LiveIs DEF HasId, At
<1>7. Given(e.id, nw.nextId, Len(lgn)) /\ nw.nextId >= st.nextId
  <2>1. lg \in Seq(LogItems)
    BY DEF LogOK
  <2>2. Len(lgn) = Len(lg) + 1
    BY <2>1
  <2>3. QED
    BY <1>2, <1>3, <1>4, <2>2 DEF Given
<1>8. RingOK(nw, lgn)
  <2>1. lgn = Append(lg, x)
    OBVIOUS
  <2> HIDE DEF lgn
  <2>2. \E y : lgn = Append(lg, y) /\ y.id = e.id
    BY <1>3, <2>1
  <2>3. e.type # "free" /\ e.type # "snapshot"
    BY <1>1, <1>3
  <2>4. QED
    BY <1>2, <1>3, <1>5, <1>6, <1>7, <2>2, <2>3, GrowsKeeps
<1>9. QED
  BY <1>5, <1>8 DEF nw

-----------------------------------------------------------------------------
(* What the views show *)

(* Whatever changed between w and nw: a view that is not to be redrawn has *)
(* heard of nothing that its prompt shows, and the later ones of nothing   *)
(* at all.                                                                 *)
Refreshes(w, nw) ==
  /\ nw \in Worlds /\ nw.st.changes = <<>>
  /\ \A u \in ViewSet : w.view[u].invalid => nw.view[u].invalid
  /\ \A u \in ViewSet \ {1} : nw.view[u].mask \subseteq w.view[u].mask
  /\ \A u \in ViewSet : nw.view[u].invalid \/ nw.st.prompts = w.st.prompts
  /\ \A u \in ViewSet \ {1} : nw.view[u].invalid \/ Content(nw.st, u) = Content(w.st, u)

(* Doing nothing refreshes. *)
LEMMA RefreshesSelf ==
  ASSUME NEW w \in Worlds, w.st.changes = <<>>
  PROVE  Refreshes(w, w)
  BY DEF Refreshes

(* So does one thing after the other. *)
LEMMA RefreshesTrans ==
  ASSUME NEW a \in Worlds, NEW b, NEW c, Refreshes(a, b), Refreshes(b, c)
  PROVE  Refreshes(a, c)
<1>1. \A u \in ViewSet : c.view[u].invalid \/ c.st.prompts = a.st.prompts
  BY DEF Refreshes
<1>2. \A u \in ViewSet \ {1} : c.view[u].invalid \/ Content(c.st, u) = Content(a.st, u)
  BY DEF Refreshes
<1>3. /\ c \in Worlds /\ c.st.changes = <<>>
      /\ \A u \in ViewSet : a.view[u].invalid => c.view[u].invalid
      /\ \A u \in ViewSet \ {1} : c.view[u].mask \subseteq a.view[u].mask
  BY DEF Refreshes
<1>4. QED
  BY <1>1, <1>2, <1>3 DEF Refreshes

(* What a view has to show does not depend on who brought the order up to  *)
(* date.                                                                   *)
LEMMA ContentFresh ==
  ASSUME NEW st \in Stores, NEW v
  PROVE  Content(Fresh(st), v) = Content(st, v) /\ StripOf(Fresh(st), v) = StripOf(st, v)
<1>1. Fresh(Fresh(st)) = Fresh(st)
  BY FreshIs
<1>2. Fresh(st).prompts = st.prompts
  BY FreshKeeps DEF SameTalk
<1>3. StripOf(Fresh(st), v) = StripOf(st, v)
  BY <1>2 DEF StripOf
<1>4. QED
  BY <1>1, <1>3 DEF Content

(* A getter refreshes. *)
LEMMA FreshRefreshes ==
  ASSUME NEW w \in Worlds, w.st.changes = <<>>
  PROVE  Refreshes(w, On(w, Fresh(w.st)))
<1>1. w.st \in Stores
  BY DEF Worlds
<1>2. Fresh(w.st) \in Stores /\ SameTalk(w.st, Fresh(w.st))
  BY <1>1, FreshKeeps
<1>3. /\ On(w, Fresh(w.st)) \in Worlds /\ On(w, Fresh(w.st)).st = Fresh(w.st)
      /\ On(w, Fresh(w.st)).view = w.view
  BY <1>2, OnIs
<1>4. \A u : Content(Fresh(w.st), u) = Content(w.st, u)
  BY <1>1, ContentFresh
<1>5. QED
  BY <1>2, <1>3, <1>4 DEF Refreshes, SameTalk

(* An invalidated window refreshes. *)
LEMMA InvalidatedRefreshes ==
  ASSUME NEW w \in Worlds, w.st.changes = <<>>, NEW v \in ViewSet,
         NEW cells \in SUBSET (ViewSet \X Cells)
  PROVE  Refreshes(w, Invalidated(w, v, cells)) /\ Invalidated(w, v, cells).st = w.st
<1> DEFINE nw == Invalidated(w, v, cells)
<1>1. /\ nw \in Worlds /\ nw.st = w.st /\ OnlyView(w, nw, v)
      /\ nw.view[v].invalid /\ nw.view[v].mask = w.view[v].mask
  BY InvalidatedIs
<1> HIDE DEF nw
<1>2. Refreshes(w, nw)
  BY <1>1 DEF Refreshes, OnlyView
<1>3. QED
  BY <1>1, <1>2 DEF nw

(* So does the window that an event came through, which is invalidated. *)
LEMMA RoutedRefreshes ==
  ASSUME NEW w \in Worlds, w.st.changes = <<>>, NEW v \in ViewSet
  PROVE  Refreshes(w, Routed(w, v)) /\ Routed(w, v).st = w.st
  BY FrameType, InvalidatedRefreshes DEF Routed

(* A handler that works on b, changes the store, notifies the views and    *)
(* may change the store again                                              *)
LEMMA ToldRefreshes ==
  ASSUME NEW b \in Worlds, NEW w \in Worlds, NEW m, NEW nw \in Worlds,
         w.view = b.view, Told(w, m), nw.view = m.view,
         nw.st.changes = <<>>, nw.st.prompts = m.st.prompts,
         w.st.changes = <<>> \/ w.st.prompts = b.st.prompts
  PROVE  Refreshes(b, nw)
<1>1. /\ m.st.prompts = w.st.prompts
      /\ \A u \in ViewSet : b.view[u].invalid => nw.view[u].invalid
      /\ \A u \in ViewSet \ {1} : nw.view[u].invalid /\ nw.view[u].mask \subseteq b.view[u].mask
  BY DEF Told
<1>2. \A u \in ViewSet : nw.view[u].invalid \/ nw.st.prompts = b.st.prompts
  <2>1. CASE w.st.changes = <<>>
    <3>1. nw.view[1].invalid
      BY <2>1 DEF Told
    <3>2. QED
      BY <1>1, <3>1
  <2>2. CASE w.st.prompts = b.st.prompts
    BY <1>1, <2>2
  <2>3. QED
    BY <2>1, <2>2
<1>3. QED
  BY <1>1, <1>2 DEF Refreshes

(* A handler that only notifies                                            *)
LEMMA NotifyRefreshes ==
  ASSUME NEW b \in Worlds, NEW st \in Stores,
         st.changes = <<>> \/ st.prompts = b.st.prompts
  PROVE  LET nw == Notify(On(b, st))
         IN  Refreshes(b, nw) /\ SameRing(st, nw.st)
<1> DEFINE w == On(b, st)
           nw == Notify(w)
<1>1. w \in Worlds /\ w.st = st /\ w.view = b.view
  BY OnIs
<1> HIDE DEF w
<1>2. Told(w, nw)
  BY <1>1, NotifyIs
<1> HIDE DEF nw
<1>3. /\ nw \in Worlds /\ nw.st.changes = <<>> /\ SameRing(st, nw.st)
  BY <1>1, <1>2 DEF Told
<1>4. Refreshes(b, nw)
  BY <1>1, <1>2, <1>3, ToldRefreshes
<1>5. QED
  BY <1>3, <1>4 DEF nw, w

-----------------------------------------------------------------------------
(* The handlers *)

(* nw is what a sound handler makes of w, and the log is lg then.          *)
Sounds(w, nw, lg) == Refreshes(w, nw) /\ LogOK(lg) /\ RingOK(nw.st, lg)

(* The store of a world. *)
LEMMA WorldStore ==
  ASSUME NEW w \in Worlds
  PROVE  w.st \in Stores
  BY DEF Worlds

(* con_store_append_line *)
LEMMA AppendLineIs ==
  ASSUME NEW w \in Worlds, w.st.changes = <<>>, NEW lg, LogOK(lg), RingOK(w.st, lg),
         NEW x \in LogItems, x.id = <<0, w.st.nextId>>
  PROVE  Sounds(w, AppendLine(w), Append(lg, x))
<1> DEFINE a == LineAppended(w.st)
           c == Compacted(a)
           o == On(w, c)
           m == Notify(o)
           s == MarkAll(m.st)
           lgn == Append(lg, x)
<1>1. a \in Stores /\ SameTalk(w.st, a)
  BY WorldStore, LineAppendedIs
<1>2. LogOK(lgn) /\ RingOK(a, lgn)
  BY WorldStore, LineKeeps
<1>3. AppendLine(w) = On(m, s)
  BY DEF AppendLine
<1> HIDE DEF a, lgn
<1>4. c \in Stores /\ SameTalk(a, c) /\ RingOK(c, lgn)
  BY <1>1, <1>2, CompactedIs, CompactsKeeps
<1> HIDE DEF c
<1>5. o \in Worlds /\ o.st = c /\ o.view = w.view
  BY <1>4, OnIs
<1> HIDE DEF o
<1>6. Told(o, m)
  BY <1>5, NotifyIs
<1> HIDE DEF m
<1>7. m \in Worlds /\ m.st \in Stores /\ m.st.changes = <<>> /\ SameRing(c, m.st)
  BY <1>5, <1>6, WorldStore DEF Told
<1>8. RingOK(m.st, lgn)
  BY <1>4, <1>7, SameRingKeeps
<1>9. s \in Stores /\ SameTalk(m.st, s) /\ SameRing(m.st, s)
  BY <1>7, MarkAllKeeps
<1> HIDE DEF s
<1>10. On(m, s) \in Worlds /\ On(m, s).st = s /\ On(m, s).view = m.view
  BY <1>7, <1>9, OnIs
<1>11. RingOK(s, lgn)
  BY <1>7, <1>8, <1>9, SameRingKeeps
<1>12. Refreshes(w, On(m, s))
  <2>1. s.changes = <<>> /\ s.prompts = m.st.prompts /\ c.changes = <<>>
    BY <1>1, <1>4, <1>7, <1>9 DEF SameTalk
  <2>2. QED
    BY <1>5, <1>6, <1>10, <2>1, ToldRefreshes
<1>13. QED
  BY <1>2, <1>3, <1>10, <1>11, <1>12 DEF Sounds, lgn

(* An entry that a sink inserts, under an id that the store does not have *)
LEMMA InsertAtIs ==
  ASSUME NEW w \in Worlds, w.st.changes = <<>>, NEW lg, LogOK(lg), RingOK(w.st, lg),
         NEW x \in LogItems, x.id[1] \in {Here, There}, x.id[2] <= Len(lg) + 1,
         ~HasId(w.st, x.id)
  PROVE  Sounds(w, InsertAt(w, x.type, x.id, x.pos, 0), Append(lg, x))
<1> DEFINE a == Inserted(w.st, x.type, x.id, x.pos, 0)
           o == On(w, a)
           m == Notify(o)
           s == Compacted(m.st)
           lgn == Append(lg, x)
<1>1. x.type \in EntryTypes /\ x.id \in ItemIds /\ x.pos \in Seq(Comp) /\ 0 \in Nat
  BY DEF LogItems, EntryTypes
<1>2. a \in Stores /\ SameTalk(w.st, a)
  BY <1>1, WorldStore, InsertedIs
<1>3. LogOK(lgn) /\ RingOK(a, lgn)
  BY WorldStore, InsertedKeeps
<1>4. InsertAt(w, x.type, x.id, x.pos, 0) = On(m, s)
  BY DEF InsertAt
<1> HIDE DEF a, lgn
<1>5. o \in Worlds /\ o.st = a /\ o.view = w.view
  BY <1>2, OnIs
<1> HIDE DEF o
<1>6. Told(o, m)
  BY <1>5, NotifyIs
<1> HIDE DEF m
<1>7. m \in Worlds /\ m.st \in Stores /\ m.st.changes = <<>> /\ SameRing(a, m.st)
  BY <1>5, <1>6, WorldStore DEF Told
<1>8. RingOK(m.st, lgn)
  BY <1>2, <1>3, <1>7, SameRingKeeps
<1>9. s \in Stores /\ SameTalk(m.st, s) /\ RingOK(s, lgn)
  BY <1>3, <1>7, <1>8, CompactedIs, CompactsKeeps
<1> HIDE DEF s
<1>10. On(m, s) \in Worlds /\ On(m, s).st = s /\ On(m, s).view = m.view
  BY <1>7, <1>9, OnIs
<1>11. Refreshes(w, On(m, s))
  <2>1. s.changes = <<>> /\ s.prompts = m.st.prompts /\ a.changes = <<>>
    BY <1>2, <1>7, <1>9 DEF SameTalk
  <2>2. QED
    BY <1>5, <1>6, <1>10, <2>1, ToldRefreshes
<1>12. QED
  BY <1>3, <1>4, <1>9, <1>10, <1>11 DEF Sounds, lgn

(* The id of the next entry of the log is not in the ring.                 *)
LEMMA NextIsNew ==
  ASSUME NEW st \in Stores, NEW lg, LogOK(lg), RingOK(st, lg), NEW actor \in {Here, There}
  PROVE  ~HasId(st, <<actor, Len(lg) + 1>>)
<1> SUFFICES ASSUME HasId(st, <<actor, Len(lg) + 1>>) PROVE FALSE
  OBVIOUS
<1>1. PICK i \in 0 .. st.count - 1 : At(st, i).id = <<actor, Len(lg) + 1>>
  BY LiveIs DEF HasId, At
<1>2. Given(At(st, i).id, st.nextId, Len(lg))
  BY DEF RingOK
<1>3. Len(lg) \in Nat
  BY LenProperties DEF LogOK
<1>4. actor # 0
  BY ViewsAssumption
<1>5. QED
  BY <1>1, <1>2, <1>3, <1>4 DEF Given

(* The position at the tail is a position. *)
LEMMA TailPosType ==
  ASSUME NEW st \in Stores
  PROVE  TailPos(st) \in Seq(Comp)
<1>1. Here \in Nat
  BY ViewsAssumption
<1>2. QED
  BY <1>1, GenBetweenType DEF TailPos

(* An entry of this process's sink at the tail *)
LEMMA InsertTailIs ==
  ASSUME NEW w \in Worlds, w.st.changes = <<>>, NEW lg, LogOK(lg), RingOK(w.st, lg),
         NEW type \in {"text", "widget"}
  PROVE  LET id == <<Here, Len(lg) + 1>>
         IN  Sounds(w, InsertTail(w, type, id, 0),
                    Append(lg, [type |-> type, id |-> id, pos |-> TailPos(w.st)]))
<1> DEFINE id == <<Here, Len(lg) + 1>>
           pos == TailPos(w.st)
           x == [type |-> type, id |-> id, pos |-> pos]
           b == On(w, Fresh(w.st))
           nw == InsertAt(b, type, id, pos, 0)
<1>1. w.st \in Stores /\ Len(lg) \in Nat /\ Here \in Nat
  BY WorldStore, LenProperties, ViewsAssumption DEF LogOK
<1>2. /\ Fresh(w.st) \in Stores /\ SameTalk(w.st, Fresh(w.st))
      /\ SameRing(w.st, Fresh(w.st))
  BY <1>1, FreshKeeps
<1>3. b \in Worlds /\ b.st = Fresh(w.st) /\ Refreshes(w, b)
  BY <1>2, OnIs, FreshRefreshes
<1>4. InsertTail(w, type, id, 0) = nw
  BY DEF InsertTail
<1>5. RingOK(b.st, lg) /\ b.st.changes = <<>>
  BY <1>1, <1>2, <1>3, SameRingKeeps DEF SameTalk
<1> HIDE DEF b
<1>6. pos \in Seq(Comp) /\ id \in ItemIds
  BY <1>1, TailPosType DEF ItemIds
<1> HIDE DEF pos
<1>7. x \in LogItems /\ x.id[1] \in {Here, There} /\ x.id[2] <= Len(lg) + 1
  BY <1>1, <1>6 DEF LogItems
<1>8. ~HasId(b.st, x.id)
  BY <1>3, <1>5, WorldStore, NextIsNew
<1>9. Sounds(b, InsertAt(b, x.type, x.id, x.pos, 0), Append(lg, x))
  <2> HIDE DEF x
  <2>1. QED
    BY <1>3, <1>5, <1>7, <1>8, InsertAtIs
<1>10. Sounds(b, nw, Append(lg, x))
  BY <1>9
<1> HIDE DEF nw, x
<1>11. Sounds(w, nw, Append(lg, x))
  BY <1>3, <1>10, RefreshesTrans DEF Sounds
<1>12. QED
  BY <1>4, <1>11 DEF x, pos

(* A handler that goes on with the views alone *)
LEMMA RefreshesOn ==
  ASSUME NEW w \in Worlds, NEW m, NEW nw, NEW lg, Sounds(w, m, lg),
         Refreshes(m, nw), nw.st = m.st
  PROVE  Sounds(w, nw, lg)
  BY RefreshesTrans DEF Sounds

(* The rest of the log is unchanged.                                       *)
LEMMA NotifySounds ==
  ASSUME NEW b \in Worlds, NEW st \in Stores, NEW lg, LogOK(lg), RingOK(st, lg),
         st.changes = <<>> \/ st.prompts = b.st.prompts
  PROVE  Sounds(b, Notify(On(b, st)), lg)
<1> DEFINE nw == Notify(On(b, st))
<1>1. Refreshes(b, nw) /\ SameRing(st, nw.st)
  BY NotifyRefreshes
<1> HIDE DEF nw
<1>2. nw.st \in Stores
  BY <1>1, WorldStore DEF Refreshes
<1>3. RingOK(nw.st, lg)
  BY <1>1, <1>2, SameRingKeeps
<1>4. QED
  BY <1>1, <1>3 DEF Sounds, nw

(* A handler of an event, and the window it came through *)
LEMMA RoutedSounds ==
  ASSUME NEW w \in Worlds, NEW m, NEW lg, Sounds(w, m, lg), NEW v \in ViewSet
  PROVE  Sounds(w, Routed(m, v), lg)
<1>1. m \in Worlds /\ m.st.changes = <<>>
  BY DEF Sounds, Refreshes
<1>2. QED
  BY <1>1, RoutedRefreshes, RefreshesOn

-----------------------------------------------------------------------------
(* Prompts *)

(* The prompt of u in nw is p; all else is that of st.                     *)
LEMMA PromptSet ==
  ASSUME NEW st \in Stores, NEW u \in Users, NEW p \in Prompts
  PROVE  LET nw == [st EXCEPT !.prompts = [st.prompts EXCEPT ![u] = p]]
         IN  nw \in Stores /\ SameRing(st, nw) /\ nw.changes = st.changes
<1> DEFINE f == [st.prompts EXCEPT ![u] = p]
<1>1. f \in [Users -> Prompts]
  BY DEF Stores
<1> HIDE DEF f
<1>2. QED
  BY <1>1 DEF Stores, SameRing, f

(* nw is st but for a prompt.                                              *)
Prompted(st, nw) == nw \in Stores /\ SameRing(st, nw) /\ nw.changes = st.changes

(* The prompt of a user. *)
LEMMA PromptOf ==
  ASSUME NEW st \in Stores, NEW u \in Users
  PROVE  /\ st.prompts[u] \in Prompts /\ st.prompts \in [Users -> Prompts]
         /\ st.prompts[u].len \in 0 .. MaxLine
         /\ st.prompts[u].edits \in Nat
         /\ st.prompts[u].nonempty \in BOOLEAN
<1>1. st.prompts \in [Users -> Prompts]
  BY DEF Stores
<1>2. st.prompts[u] \in Prompts
  BY <1>1
<1>3. QED
  BY <1>1, <1>2 DEF Prompts

(* con_store_prompt_insert changes but a prompt. *)
LEMMA PromptInsertedIs ==
  ASSUME NEW st \in Stores, NEW u \in Users
  PROVE  Prompted(st, PromptInserted(st, u))
<1> DEFINE n == IF st.prompts[u].len < MaxLine THEN st.prompts[u].len + 1
                ELSE st.prompts[u].len
           p == [len |-> n, edits |-> st.prompts[u].edits + 1, nonempty |-> n > 0]
<1>1. MaxLine \in Nat
  BY StoreAssumption
<1>2. n \in 0 .. MaxLine
  BY <1>1, PromptOf
<1>3. p \in Prompts
  BY <1>2, PromptOf DEF Prompts
<1>4. PromptInserted(st, u) = [st EXCEPT !.prompts = [st.prompts EXCEPT ![u] = p]]
  BY DEF PromptInserted
<1> HIDE DEF p
<1>5. QED
  BY <1>3, <1>4, PromptSet DEF Prompted

(* con_store_prompt_backspace changes but a prompt. *)
LEMMA PromptErasedIs ==
  ASSUME NEW st \in Stores, NEW u \in Users
  PROVE  Prompted(st, PromptErased(st, u))
<1> DEFINE n == IF st.prompts[u].len > 0 THEN st.prompts[u].len - 1 ELSE 0
           p == [len |-> n, edits |-> st.prompts[u].edits + 1, nonempty |-> n > 0]
<1>1. MaxLine \in Nat
  BY StoreAssumption
<1>2. n \in 0 .. MaxLine
  BY <1>1, PromptOf
<1>3. p \in Prompts
  BY <1>2, PromptOf DEF Prompts
<1>4. PromptErased(st, u) = [st EXCEPT !.prompts = [st.prompts EXCEPT ![u] = p]]
  BY DEF PromptErased
<1> HIDE DEF p
<1>5. QED
  BY <1>3, <1>4, PromptSet DEF Prompted

(* Two fields of a prompt *)
LEMMA PromptTakenIs ==
  ASSUME NEW st \in Stores, NEW u \in Users
  PROVE  Prompted(st, PromptTaken(st, u))
<1> DEFINE q == st.prompts[u]
           p1 == [q EXCEPT !.len = 0]
           p2 == [p1 EXCEPT !.nonempty = FALSE]
           f1 == [st.prompts EXCEPT ![u] = p1]
           n1 == [st EXCEPT !.prompts = f1]
           f2 == [f1 EXCEPT ![u] = p2]
<1>1. q \in Prompts /\ st.prompts \in [Users -> Prompts] /\ MaxLine \in Nat
  BY PromptOf, StoreAssumption
<1>2. p2 \in Prompts
  <2>1. p1 \in Prompts
    BY <1>1, PromptOf DEF Prompts
  <2> HIDE DEF p1
  <2>2. QED
    BY <2>1 DEF Prompts
<1>3. [st EXCEPT !.prompts[u].len = 0] = n1
  OBVIOUS
<1>4. PromptTaken(st, u) = [n1 EXCEPT !.prompts[u].nonempty = FALSE]
  BY <1>3 DEF PromptTaken
<1> HIDE DEF p1, p2
<1>5. f1[u] = p1 /\ f2 = [st.prompts EXCEPT ![u] = p2]
  BY <1>1
<1>6. n1.prompts = f1
  BY DEF Stores
<1>7. [n1 EXCEPT !.prompts[u].nonempty = FALSE] = [n1 EXCEPT !.prompts = f2]
  BY <1>5, <1>6 DEF p2
<1>8. [n1 EXCEPT !.prompts = f2] = [st EXCEPT !.prompts = [st.prompts EXCEPT ![u] = p2]]
  BY <1>5 DEF Stores
<1>9. QED
  BY <1>2, <1>4, <1>7, <1>8, PromptSet DEF Prompted

(* con_store_prompt_apply_meta changes but a prompt. *)
LEMMA PromptMetaIs ==
  ASSUME NEW st \in Stores, NEW u \in Users, NEW b \in BOOLEAN
  PROVE  Prompted(st, PromptMeta(st, u, b))
<1> DEFINE q == st.prompts[u]
           p1 == [q EXCEPT !.edits = @ + 1]
           p2 == [p1 EXCEPT !.nonempty = b]
           f1 == [st.prompts EXCEPT ![u] = p1]
           n1 == [st EXCEPT !.prompts = f1]
           f2 == [f1 EXCEPT ![u] = p2]
<1>1. q \in Prompts /\ st.prompts \in [Users -> Prompts]
  BY PromptOf
<1>2. p2 \in Prompts
  <2>1. p1 \in Prompts
    BY <1>1, PromptOf DEF Prompts
  <2> HIDE DEF p1
  <2>2. QED
    BY <2>1 DEF Prompts
<1>3. [st EXCEPT !.prompts[u].edits = @ + 1] = n1
  OBVIOUS
<1>4. PromptMeta(st, u, b) = [n1 EXCEPT !.prompts[u].nonempty = b]
  BY <1>3 DEF PromptMeta
<1> HIDE DEF p1, p2
<1>5. f1[u] = p1 /\ f2 = [st.prompts EXCEPT ![u] = p2]
  BY <1>1
<1>6. n1.prompts = f1
  BY DEF Stores
<1>7. [n1 EXCEPT !.prompts[u].nonempty = b] = [n1 EXCEPT !.prompts = f2]
  BY <1>5, <1>6 DEF p2
<1>8. [n1 EXCEPT !.prompts = f2] = [st EXCEPT !.prompts = [st.prompts EXCEPT ![u] = p2]]
  BY <1>5 DEF Stores
<1>9. QED
  BY <1>2, <1>4, <1>7, <1>8, PromptSet DEF Prompted

-----------------------------------------------------------------------------
(* The invariant *)

(* The console is in order: types, the ring and the log, and the views.    *)
Sound ==
  /\ World \in Worlds /\ store.changes = <<>>
  /\ LogOK(log) /\ RingOK(store, log)
  /\ \A v \in ViewSet \ {1} : view[v].mask = {}
  /\ StripFresh
  /\ LaterViewsFresh

(* What a handler works on is the state. *)
LEMMA WorldParts ==
  World.st = store /\ World.view = view /\ World.damage = damage
  BY DEF World

(* The step of a sound handler. *)
LEMMA BecomeKeeps ==
  ASSUME Sound, NEW w, Become(w), Sounds(World, w, log')
  PROVE  Sound'
<1>1. /\ store' = w.st /\ view' = w.view /\ damage' = w.damage /\ cache' = cache
  BY DEF Become
<1>2. w \in Worlds
  BY DEF Sounds, Refreshes
<1>3. World' = w
  BY <1>1, <1>2 DEF World, Worlds
<1>4. /\ \A u \in ViewSet : view[u].invalid => view'[u].invalid
      /\ \A u \in ViewSet \ {1} : view'[u].mask \subseteq view[u].mask
      /\ \A u \in ViewSet : view'[u].invalid \/ store'.prompts = store.prompts
      /\ \A u \in ViewSet \ {1} : view'[u].invalid \/ Content(store', u) = Content(store, u)
  BY <1>1, WorldParts DEF Sounds, Refreshes
<1>5. World' \in Worlds /\ store'.changes = <<>> /\ LogOK(log') /\ RingOK(store', log')
  BY <1>1, <1>2, <1>3 DEF Sounds, Refreshes
<1>6. \A v \in ViewSet \ {1} : view'[v].mask = {}
  BY <1>4 DEF Sound
<1>7. StripFresh'
  <2>1. ASSUME NEW v \in ViewSet, ~view'[v].invalid PROVE cache'[v][Strip] = StripOf(store', v)
    <3>1. ~view[v].invalid /\ store'.prompts = store.prompts
      BY <1>4, <2>1
    <3>2. cache[v][Strip] = StripOf(store, v)
      BY <3>1 DEF Sound, StripFresh
    <3>3. StripOf(store', v) = StripOf(store, v)
      BY <3>1 DEF StripOf
    <3>4. QED
      BY <1>1, <3>2, <3>3
  <2>2. QED
    BY <2>1 DEF StripFresh
<1>8. LaterViewsFresh'
  <2>1. ASSUME NEW v \in ViewSet \ {1}, ~view'[v].invalid PROVE cache'[v] = Content(store', v)
    <3>1. ~view[v].invalid /\ Content(store', v) = Content(store, v)
      BY <1>4, <2>1
    <3>2. cache[v] = Content(store, v)
      BY <3>1 DEF Sound, LaterViewsFresh
    <3>3. QED
      BY <1>1, <3>1, <3>2
  <2>2. QED
    BY <2>1 DEF LaterViewsFresh
<1>9. QED
  BY <1>5, <1>6, <1>7, <1>8 DEF Sound

(* It holds of a new console: nothing is drawn, and all is to be. *)
LEMMA SoundStart == Init => Sound
<1> SUFFICES ASSUME Init PROVE Sound
  OBVIOUS
<1>0. store = EmptyStore /\ log = <<>>
  BY DEF Init
<1>1. BufLines \in Nat \ {0} /\ 0 \in Slots /\ MaxLine \in Nat
  BY SlotsAre, StoreAssumption
<1>2. Free \in Entries
  <2>1. <<>> \in Seq(Comp) /\ NoId \in ItemIds
    BY DEF NoId, ItemIds
  <2>2. QED
    BY <2>1 DEF Free, Entries, EntryTypes
<1>3. [len |-> 0, edits |-> 0, nonempty |-> FALSE] \in Prompts
  BY <1>1 DEF Prompts
<1>4. store \in Stores
  <2>1. <<>> \in Seq(ItemIds)
    OBVIOUS
  <2> DEFINE es == [s \in Slots |-> Free]
             os == [s \in Slots |-> 0]
             ps == [u \in Users |-> [len |-> 0, edits |-> 0, nonempty |-> FALSE]]
  <2>2. es \in [Slots -> Entries] /\ os \in [Slots -> Slots] /\ ps \in [Users -> Prompts]
    BY <1>1, <1>2, <1>3
  <2>3. EmptyStore = [entries |-> es, head |-> 0, count |-> 0, order |-> os, valid |-> FALSE,
                      nextId |-> 1, changes |-> <<>>, all |-> FALSE, prompts |-> ps]
    BY DEF EmptyStore
  <2> HIDE DEF es, os, ps
  <2>4. 0 \in 0 .. BufLines
    BY <1>1
  <2>5. QED
    BY <1>0, <1>1, <2>1, <2>2, <2>3, <2>4 DEF Stores
<1>5. store.count = 0 /\ store.changes = <<>>
  BY <1>0 DEF EmptyStore
<1>6. LogOK(log)
  BY <1>0 DEF LogOK
<1>7. RingOK(store, log)
  <2> DEFINE at == [i \in 0 .. 0 |-> 0]
  <2>1. Follows(store, log, at)
    BY <1>0, <1>5 DEF Follows
  <2> HIDE DEF at
  <2>2. QED
    BY <1>5, <2>1 DEF RingOK
<1>8. /\ view \in [ViewSet -> ViewStates]
      /\ \A v \in ViewSet : view[v].invalid /\ view[v].mask = {}
  <2> DEFINE x == [laidOut |-> FALSE, rowIds |-> [r \in RowSet |-> NoId], mask |-> {},
                   full |-> TRUE, invalid |-> TRUE]
  <2>1. NoId \in ItemIds
    BY DEF NoId, ItemIds
  <2>2. x \in ViewStates /\ x.invalid /\ x.mask = {}
    BY <2>1 DEF ViewStates
  <2>3. view = [v \in ViewSet |-> x]
    BY DEF Init
  <2> HIDE DEF x
  <2>4. QED
    BY <2>2, <2>3
<1>9. damage \in Damages
  <2>1. damage = [cells |-> UNION {Frame(v) : v \in ViewSet}, n |-> 1]
    BY DEF Init
  <2>2. UNION {Frame(v) : v \in ViewSet} \in SUBSET (ViewSet \X Cells)
    BY FrameType
  <2>3. 1 \in 0 .. MaxDamage
    BY ViewsAssumption
  <2>4. QED
    BY <2>1, <2>2, <2>3 DEF Damages
<1>10. World \in Worlds
  BY <1>4, <1>8, <1>9 DEF World, Worlds
<1>11. StripFresh /\ LaterViewsFresh
  BY <1>8 DEF StripFresh, LaterViewsFresh
<1>12. QED
  BY <1>5, <1>6, <1>7, <1>8, <1>10, <1>11 DEF Sound

-----------------------------------------------------------------------------
(* Each action keeps it. *)

(* What the handlers need of it. *)
LEMMA SoundNow ==
  ASSUME Sound
  PROVE  /\ World \in Worlds /\ World.st = store /\ store \in Stores /\ store.changes = <<>>
         /\ LogOK(log) /\ RingOK(store, log) /\ Len(log) \in Nat
         /\ view \in [ViewSet -> ViewStates]
<1>1. World \in Worlds /\ World.st = store /\ World.view = view
  BY WorldParts DEF Sound
<1>2. Len(log) \in Nat
  BY LenProperties DEF Sound, LogOK
<1>3. QED
  BY <1>1, <1>2 DEF Sound, Worlds

(* A view is that of a user. *)
LEMMA ViewUser == \A v \in ViewSet : v \in Users
  BY ViewsAssumption DEF ViewSet

(* A user types. *)
LEMMA TypeKeeps ==
  ASSUME Sound, NEW v \in ViewSet, Type(v)
  PROVE  Sound'
<1>1. PICK st \in {PromptInserted(store, v), PromptErased(store, v)} :
        Become(Routed(Notify(On(World, st)), v))
  BY DEF Type
<1>2. log' = log
  BY DEF Type
<1>3. Prompted(store, st)
  BY SoundNow, ViewUser, PromptInsertedIs, PromptErasedIs
<1>4. st \in Stores /\ st.changes = <<>> /\ RingOK(st, log)
  BY <1>3, SoundNow, SameRingKeeps DEF Prompted
<1>5. Sounds(World, Notify(On(World, st)), log)
  BY <1>4, SoundNow, NotifySounds
<1>6. Sounds(World, Routed(Notify(On(World, st)), v), log)
  BY <1>5, SoundNow, RoutedSounds
<1>7. QED
  BY <1>1, <1>2, <1>6, BecomeKeeps

(* A prompt elsewhere changes. *)
LEMMA RemoteMetaKeeps ==
  ASSUME Sound, RemoteMeta
  PROVE  Sound'
<1>1. PICK u \in Users, b \in BOOLEAN : Become(Notify(On(World, PromptMeta(store, u, b))))
  BY DEF RemoteMeta
<1> DEFINE st == PromptMeta(store, u, b)
<1>2. log' = log
  BY DEF RemoteMeta
<1>3. Prompted(store, st)
  BY SoundNow, PromptMetaIs
<1> HIDE DEF st
<1>4. st \in Stores /\ st.changes = <<>> /\ RingOK(st, log)
  BY <1>3, SoundNow, SameRingKeeps DEF Prompted
<1>5. Sounds(World, Notify(On(World, st)), log)
  BY <1>4, SoundNow, NotifySounds
<1>6. QED
  BY <1>1, <1>2, <1>5, BecomeKeeps DEF st

(* A user commits a line. *)
LEMMA CommitKeeps ==
  ASSUME Sound, NEW v \in ViewSet, Commit(v)
  PROVE  Sound'
<1> DEFINE st == PromptTaken(store, v)
           taken == Notify(On(World, st))
           id == NewId(Here)
           pos == TailPos(taken.st)
           done == InsertTail(taken, "text", id, 0)
<1>1. \/ Become(Routed(taken, v)) /\ log' = log
      \/ Become(Routed(done, v)) /\ log' = Logged("text", id, pos)
  BY DEF Commit
<1>2. Prompted(store, st)
  BY SoundNow, ViewUser, PromptTakenIs
<1> HIDE DEF st
<1>3. st \in Stores /\ st.changes = <<>> /\ RingOK(st, log)
  BY <1>2, SoundNow, SameRingKeeps DEF Prompted
<1>4. Sounds(World, taken, log)
  BY <1>3, SoundNow, NotifySounds
<1> HIDE DEF taken
<1>5. CASE Become(Routed(taken, v)) /\ log' = log
  <2>1. Sounds(World, Routed(taken, v), log)
    BY <1>4, SoundNow, RoutedSounds
  <2>2. QED
    BY <1>5, <2>1, BecomeKeeps
<1>6. CASE Become(Routed(done, v)) /\ log' = Logged("text", id, pos)
  <2>1. taken \in Worlds /\ taken.st.changes = <<>> /\ LogOK(log) /\ RingOK(taken.st, log)
    BY <1>4 DEF Sounds, Refreshes
  <2>2. id = <<Here, Len(log) + 1>>
    BY DEF NewId
  <2>3. Sounds(taken, done, Append(log, [type |-> "text", id |-> id, pos |-> pos]))
    BY <2>1, <2>2, InsertTailIs
  <2>4. Logged("text", id, pos) = Append(log, [type |-> "text", id |-> id, pos |-> pos])
    BY DEF Logged
  <2> HIDE DEF done, id, pos
  <2>5. Sounds(World, done, log')
    BY <1>4, <1>6, <2>3, <2>4, SoundNow, RefreshesTrans DEF Sounds
  <2>6. Sounds(World, Routed(done, v), log')
    BY <2>5, SoundNow, RoutedSounds
  <2>7. QED
    BY <1>6, <2>6, BecomeKeeps
<1>7. QED
  BY <1>1, <1>5, <1>6

(* A user drops a square or a line: the sink inserts it at the tail. *)
LEMMA DropKeeps ==
  ASSUME Sound, NEW v \in ViewSet, NEW type \in {"text", "widget"}, Drop(v, type)
  PROVE  Sound'
<1> DEFINE id == NewId(Here)
           pos == TailPos(store)
           done == InsertTail(World, type, id, 0)
           x == [done.view[v] EXCEPT !.invalid = @ \/ type = "text"]
           nw == [done EXCEPT !.view = [done.view EXCEPT ![v] = x]]
<1>1. Become([done EXCEPT !.view[v].invalid = @ \/ type = "text"]) /\ log' = Logged(type, id, pos)
  BY DEF Drop
<1>2. id = <<Here, Len(log) + 1>> /\ Logged(type, id, pos) = Append(log, [type |-> type, id |-> id, pos |-> pos])
  BY DEF NewId, Logged
<1>3. Sounds(World, done, Append(log, [type |-> type, id |-> id, pos |-> pos]))
  BY <1>2, SoundNow, InsertTailIs
<1>4. [done EXCEPT !.view[v].invalid = @ \/ type = "text"] = nw
  OBVIOUS
<1> HIDE DEF done, id, pos
<1>5. done \in Worlds /\ done.st.changes = <<>>
  BY <1>3 DEF Sounds, Refreshes
<1>6. done.view[v] \in ViewStates
  BY <1>5 DEF Worlds
<1>7. /\ x \in ViewStates /\ x.mask = done.view[v].mask
      /\ done.view[v].invalid => x.invalid
  BY <1>6 DEF ViewStates
<1> HIDE DEF x
<1>8. nw \in Worlds /\ nw.st = done.st /\ nw.view[v] = x /\ OnlyView(done, nw, v)
  BY <1>5, <1>7, ViewSet1
<1> HIDE DEF nw
<1>9. Refreshes(done, nw)
  BY <1>5, <1>7, <1>8 DEF Refreshes, OnlyView
<1>10. Sounds(World, nw, log')
  BY <1>1, <1>2, <1>3, <1>8, <1>9, SoundNow, RefreshesOn
<1>11. QED
  BY <1>1, <1>4, <1>10, BecomeKeeps

(* An entry from elsewhere arrives. *)
LEMMA RemoteInsertKeeps ==
  ASSUME Sound, NEW type \in {"text", "widget"}, RemoteInsert(type)
  PROVE  Sound'
<1> DEFINE id == NewId(There)
<1>1. PICK last : /\ Become(InsertAt(World, type, id, GenBetween(store, last, NoId, There), 0))
                  /\ log' = Logged(type, id, GenBetween(store, last, NoId, There))
  BY DEF RemoteInsert
<1> DEFINE pos == GenBetween(store, last, NoId, There)
           x == [type |-> type, id |-> id, pos |-> pos]
<1>2. id = <<There, Len(log) + 1>> /\ There \in Nat /\ id \in ItemIds
  BY SoundNow, ViewsAssumption DEF NewId, ItemIds
<1>3. pos \in Seq(Comp)
  BY <1>2, SoundNow, GenBetweenType
<1> HIDE DEF id, pos
<1>4. x \in LogItems /\ x.type = type /\ x.id = id /\ x.pos = pos
  BY <1>2, <1>3 DEF LogItems
<1>5. log' = Append(log, x)
  BY <1>1 DEF Logged, pos
<1> HIDE DEF x
<1>6. x.id[1] \in {Here, There} /\ x.id[2] <= Len(log) + 1
  BY <1>2, <1>4, SoundNow
<1>7. ~HasId(store, x.id)
  BY <1>2, <1>4, SoundNow, NextIsNew
<1>8. Sounds(World, InsertAt(World, x.type, x.id, x.pos, 0), Append(log, x))
  BY <1>4, <1>6, <1>7, SoundNow, InsertAtIs
<1>9. QED
  BY <1>1, <1>4, <1>5, <1>8, BecomeKeeps DEF pos

(* It arrives again: if its id is still in the ring nothing happens, if    *)
(* not it is added anew.                                                   *)
LEMMA RedeliverKeeps ==
  ASSUME Sound, Redeliver
  PROVE  Sound'
<1>1. PICK i \in DOMAIN log :
        /\ log[i].id[1] # 0
        /\ Become(InsertAt(World, log[i].type, log[i].id, log[i].pos, 0))
        /\ log' = IF HasId(store, log[i].id) THEN log ELSE Append(log, log[i])
  BY DEF Redeliver
<1> DEFINE x == log[i]
<1>2. x \in LogItems
  BY SoundNow DEF LogOK
<1>3. x.id[1] \in {Here, There} /\ x.id[2] <= Len(log)
  BY <1>1, SoundNow DEF LogOK
<1>4. x.id[2] \in Nat
  BY <1>2 DEF LogItems, ItemIds
<1> HIDE DEF x
<1>5. CASE HasId(store, x.id)
  <2>1. InsertAt(World, x.type, x.id, x.pos, 0) = World
    BY <1>5, WorldParts DEF InsertAt
  <2>2. Sounds(World, World, log)
    BY SoundNow, RefreshesSelf DEF Sounds
  <2>3. QED
    BY <1>1, <1>5, <2>1, <2>2, BecomeKeeps DEF x
<1>6. CASE ~HasId(store, x.id)
  <2>1. x.id[2] <= Len(log) + 1
    BY <1>3, <1>4, SoundNow
  <2>2. Sounds(World, InsertAt(World, x.type, x.id, x.pos, 0), Append(log, x))
    BY <1>2, <1>3, <1>6, <2>1, SoundNow, InsertAtIs
  <2>3. QED
    BY <1>1, <1>6, <2>2, BecomeKeeps DEF x
<1>7. QED
  BY <1>5, <1>6

(* The answer to a command is appended. *)
LEMMA AppendAnswerKeeps ==
  ASSUME Sound, AppendAnswer
  PROVE  Sound'
<1> DEFINE x == [type |-> "text", id |-> <<0, store.nextId>>, pos |-> <<>>]
<1>1. Become(AppendLine(World)) /\ log' = Append(log, x)
  BY DEF AppendAnswer, Logged
<1>2. store.nextId \in Nat /\ <<>> \in Seq(Comp)
  BY SoundNow DEF Stores
<1>3. x \in LogItems /\ x.id = <<0, store.nextId>>
  BY <1>2 DEF LogItems, ItemIds
<1> HIDE DEF x
<1>4. Sounds(World, AppendLine(World), Append(log, x))
  BY <1>3, SoundNow, AppendLineIs
<1>5. QED
  BY <1>1, <1>4, BecomeKeeps

(* A change that is pushed to the views *)
LEMMA ChangesPushIs ==
  ASSUME NEW st \in Stores, NEW id \in ItemIds
  PROVE  LET nw == ChangesPush(st, id)
         IN  nw \in Stores /\ SameRing(st, nw) /\ nw.prompts = st.prompts
<1>1. CASE st.all
  BY <1>1 DEF ChangesPush, SameRing
<1>2. CASE ~st.all /\ Len(st.changes) < ChangesMax
  <2> DEFINE q == Append(st.changes, id)
  <2>1. q \in Seq(ItemIds)
    BY DEF Stores
  <2>2. ChangesPush(st, id) = [st EXCEPT !.changes = q]
    BY <1>2 DEF ChangesPush
  <2> HIDE DEF q
  <2>3. QED
    BY <2>1, <2>2 DEF Stores, SameRing
<1>3. CASE ~st.all /\ ~(Len(st.changes) < ChangesMax)
  <2>1. ChangesPush(st, id) = MarkAll(st)
    BY <1>3 DEF ChangesPush
  <2>2. QED
    BY <2>1, MarkAllKeeps DEF SameTalk
<1>4. QED
  BY <1>1, <1>2, <1>3

(* A message to a widget arrives. *)
LEMMA RemoteMessageKeeps ==
  ASSUME Sound, RemoteMessage
  PROVE  Sound'
<1>1. PICK s \in Live(store) :
        Become(WidgetMessage(World, store.entries[s].id, store.entries[s].val + 1))
  BY DEF RemoteMessage
<1> DEFINE id == store.entries[s].id
           val == store.entries[s].val + 1
           a == WidgetSet(store, id, val)
           b == ChangesPush(a, id)
<1>2. log' = log
  BY DEF RemoteMessage
<1>3. store \in Stores /\ s \in Slots
  BY SoundNow, LiveIs
<1>4. store.entries[s] \in Entries
  BY <1>3 DEF Stores
<1>5. id \in ItemIds /\ val \in Nat
  BY <1>4 DEF Entries
<1>6. HasId(store, id)
  BY DEF HasId
<1>7. WidgetMessage(World, id, val) = Notify(On(World, b))
  BY WorldParts DEF WidgetMessage
<1> HIDE DEF id, val
<1>8. a \in Stores /\ SameTalk(store, a) /\ SameRing(store, a)
  BY <1>3, <1>5, <1>6, WidgetSetIs
<1> HIDE DEF a
<1>9. b \in Stores /\ SameRing(a, b) /\ b.prompts = a.prompts
  BY <1>5, <1>8, ChangesPushIs
<1> HIDE DEF b
<1>10. b.prompts = World.st.prompts
  BY <1>8, <1>9, WorldParts DEF SameTalk
<1>11. RingOK(b, log)
  BY <1>3, <1>8, <1>9, SoundNow, SameRingKeeps
<1>12. Sounds(World, Notify(On(World, b)), log)
  BY <1>9, <1>10, <1>11, SoundNow, NotifySounds
<1>13. QED
  BY <1>1, <1>2, <1>7, <1>12, BecomeKeeps DEF id, val

(* A row has a value. *)
LEMMA RowOfVal ==
  ASSUME NEW st \in Stores, NEW row \in RowSet
  PROVE  RowOf(st, row).val \in Nat
<1> DEFINE i == StartIndex(st) + row
<1>1. st.count \in 0 .. BufLines /\ BufLines \in Nat /\ Rows \in Nat /\ row \in Nat
  BY SlotsAre, ViewsAssumption DEF Stores, RowSet
<1>2. StartIndex(st) \in Nat
  BY <1>1 DEF StartIndex
<1>3. CASE i < st.count
  <2>1. i \in Slots
    BY <1>1, <1>2, <1>3 DEF Slots
  <2>2. st.order[i] \in Slots
    BY <2>1 DEF Stores
  <2>3. st.entries[st.order[i]] \in Entries
    BY <2>2 DEF Stores
  <2>4. RowOf(st, row).val = st.entries[st.order[i]].val
    BY <1>3 DEF RowOf, Shown
  <2>5. QED
    BY <2>3, <2>4 DEF Entries
<1>4. CASE ~(i < st.count)
  BY <1>4 DEF RowOf, Blank
<1>5. QED
  BY <1>3, <1>4

(* A user moves a slider: of its window only the row is drawn anew. *)
LEMMA SlideKeeps ==
  ASSUME Sound, NEW v \in ViewSet, Slide(v)
  PROVE  Sound'
<1> DEFINE st == Fresh(store)
<1>1. PICK row \in RowSet :
        LET shown == RowOf(st, row)
            set == WidgetSet(st, shown.id, shown.val + 1)
        IN  /\ HasId(st, shown.id)
            /\ Become(Routed(Invalidated(Notify(On(World, set)), v, {<<v, row>>}), v))
  BY DEF Slide
<1> DEFINE shown == RowOf(st, row)
           set == WidgetSet(st, shown.id, shown.val + 1)
           m == Notify(On(World, set))
           i == Invalidated(m, v, {<<v, row>>})
<1>2. log' = log
  BY DEF Slide
<1>3. st \in Stores /\ SameRing(store, st) /\ SameTalk(store, st)
  BY SoundNow, FreshKeeps
<1>4. HasId(st, shown.id) /\ Become(Routed(i, v))
  BY <1>1
<1> HIDE DEF st
<1>5. shown.val + 1 \in Nat
  BY <1>3, RowOfVal
<1>6. set \in Stores /\ SameTalk(st, set) /\ SameRing(st, set)
  BY <1>3, <1>4, <1>5, WidgetSetIs
<1> HIDE DEF set
<1>7. RingOK(set, log) /\ set.changes = <<>>
  BY <1>3, <1>6, SoundNow, SameRingKeeps DEF SameTalk
<1>8. Sounds(World, m, log)
  BY <1>6, <1>7, SoundNow, NotifySounds
<1> HIDE DEF m
<1>9. m \in Worlds /\ m.st.changes = <<>>
  BY <1>8 DEF Sounds, Refreshes
<1>10. {<<v, row>>} \in SUBSET (ViewSet \X Cells)
  BY DEF Cells
<1>11. Refreshes(m, i) /\ i.st = m.st
  BY <1>9, <1>10, InvalidatedRefreshes
<1> HIDE DEF i
<1>12. Sounds(World, i, log)
  BY <1>8, <1>11, SoundNow, RefreshesOn
<1>13. Sounds(World, Routed(i, v), log)
  BY <1>12, SoundNow, RoutedSounds
<1>14. QED
  BY <1>2, <1>4, <1>13, BecomeKeeps

(* A frame is composed: the windows that were invalidated now show the     *)
(* store.                                                                  *)
LEMMA ComposeKeeps ==
  ASSUME Sound, Compose
  PROVE  Sound'
<1> DEFINE fresh == Fresh(store)
           o == On(World, fresh)
<1>1. /\ store' = IF Redrawn = {} THEN store ELSE fresh
      /\ view' = [v \in ViewSet |->
            IF v \in Redrawn
            THEN [LaidOut(o, v).view[v] EXCEPT !.invalid = FALSE, !.mask = {}]
            ELSE view[v]]
      /\ cache' = [v \in ViewSet |-> IF v \in Redrawn THEN Drawn(fresh, v) ELSE cache[v]]
      /\ damage' = [cells |-> {}, n |-> 0]
      /\ log' = log
  BY DEF Compose
<1>2. /\ fresh \in Stores /\ SameRing(store, fresh) /\ SameTalk(store, fresh)
  BY SoundNow, FreshKeeps
<1>3. \A v : Content(fresh, v) = Content(store, v) /\ StripOf(fresh, v) = StripOf(store, v)
  BY SoundNow, ContentFresh
<1> HIDE DEF fresh
<1>4. o \in Worlds /\ o.view = view
  BY <1>2, SoundNow, OnIs, WorldParts
<1> HIDE DEF o
<1>5. /\ store' \in Stores /\ store'.changes = <<>> /\ RingOK(store', log)
      /\ \A v : Content(store', v) = Content(store, v) /\ StripOf(store', v) = StripOf(store, v)
  <2>1. RingOK(fresh, log)
    BY <1>2, SoundNow, SameRingKeeps
  <2>2. CASE Redrawn = {}
    BY <1>1, <2>2, SoundNow
  <2>3. CASE Redrawn # {}
    BY <1>1, <1>2, <1>3, <2>1, <2>3, SoundNow DEF SameTalk
  <2>4. QED
    BY <2>2, <2>3
<1>6. ASSUME NEW v \in ViewSet, v \in Redrawn
      PROVE  /\ view'[v] \in ViewStates /\ view'[v].mask = {} /\ view'[v].invalid = FALSE
             /\ cache'[v] = Drawn(fresh, v)
  <2> DEFINE y == LaidOut(o, v).view[v]
  <2>1. y \in ViewStates
    BY <1>4, LaidOutIs DEF Worlds
  <2>2. view'[v] = [y EXCEPT !.invalid = FALSE, !.mask = {}]
    BY <1>1, <1>6
  <2> HIDE DEF y
  <2>3. QED
    BY <1>1, <1>6, <2>1, <2>2 DEF ViewStates
<1>7. ASSUME NEW v \in ViewSet, v \notin Redrawn
      PROVE  view'[v] = view[v] /\ cache'[v] = cache[v]
  BY <1>1, <1>7
<1>8. view' \in [ViewSet -> ViewStates]
  <2>1. \A v \in ViewSet : view'[v] \in ViewStates
    BY <1>6, <1>7, SoundNow
  <2>2. view' = [v \in ViewSet |-> view'[v]]
    BY <1>1
  <2>3. QED
    BY <2>1, <2>2
<1>9. damage' \in Damages
  <2>1. damage' = [cells |-> {}, n |-> 0]
    BY <1>1
  <2>2. {} \in SUBSET (ViewSet \X Cells) /\ 0 \in 0 .. MaxDamage
    BY ViewsAssumption
  <2>3. QED
    BY <2>1, <2>2 DEF Damages
<1>10. World' \in Worlds
  BY <1>5, <1>8, <1>9 DEF World, Worlds
<1>11. \A v \in ViewSet \ {1} : view'[v].mask = {}
  BY <1>6, <1>7 DEF Sound
<1>12. \A v : Drawn(fresh, v)[Strip] = StripOf(fresh, v)
  <2> TAKE v
  <2>1. Strip \in Cells /\ Content(fresh, v)[Strip] = StripOf(fresh, v)
    BY DEF Cells, Content
  <2>2. QED
    BY <2>1 DEF Drawn
<1>13. \A v : view[v].mask = {} => Drawn(fresh, v) = Content(fresh, v)
  <2> TAKE v
  <2> HAVE view[v].mask = {}
  <2>1. Drawn(fresh, v) = [c \in Cells |-> Content(fresh, v)[c]]
    BY DEF Drawn
  <2>2. Content(fresh, v) = [c \in Cells |-> Content(fresh, v)[c]]
    BY DEF Content
  <2>3. QED
    BY <2>1, <2>2
<1>14. StripFresh'
  <2>1. ASSUME NEW v \in ViewSet, ~view'[v].invalid PROVE cache'[v][Strip] = StripOf(store', v)
    <3>1. CASE v \in Redrawn
      BY <1>3, <1>5, <1>6, <1>12, <3>1
    <3>2. CASE v \notin Redrawn
      BY <1>5, <1>7, <2>1, <3>2 DEF Sound, StripFresh
    <3>3. QED
      BY <3>1, <3>2
  <2>2. QED
    BY <2>1 DEF StripFresh
<1>15. LaterViewsFresh'
  <2>1. ASSUME NEW v \in ViewSet \ {1}, ~view'[v].invalid PROVE cache'[v] = Content(store', v)
    <3>1. CASE v \in Redrawn
      <4>1. view[v].mask = {}
        BY DEF Sound
      <4>2. QED
        BY <1>3, <1>5, <1>6, <1>13, <3>1, <4>1
    <3>2. CASE v \notin Redrawn
      BY <1>5, <1>7, <2>1, <3>2 DEF Sound, LaterViewsFresh
    <3>3. QED
      BY <3>1, <3>2
  <2>2. QED
    BY <2>1 DEF LaterViewsFresh
<1>16. LogOK(log') /\ RingOK(store', log')
  BY <1>1, <1>5, SoundNow
<1>17. QED
  BY <1>5, <1>10, <1>11, <1>14, <1>15, <1>16 DEF Sound

(* Every action keeps it. *)
LEMMA SoundStep == Sound /\ [Next]_vars => Sound'
<1> SUFFICES ASSUME Sound, [Next]_vars PROVE Sound'
  OBVIOUS
<1>1. CASE \E v \in ViewSet : Type(v) \/ Commit(v) \/ Slide(v)
  BY <1>1, TypeKeeps, CommitKeeps, SlideKeeps
<1>2. CASE \E v \in ViewSet, type \in {"text", "widget"} : Drop(v, type)
  BY <1>2, DropKeeps
<1>3. CASE \E type \in {"text", "widget"} : RemoteInsert(type)
  BY <1>3, RemoteInsertKeeps
<1>4. CASE Redeliver
  BY <1>4, RedeliverKeeps
<1>5. CASE AppendAnswer
  BY <1>5, AppendAnswerKeeps
<1>6. CASE RemoteMessage
  BY <1>6, RemoteMessageKeeps
<1>7. CASE RemoteMeta
  BY <1>7, RemoteMetaKeeps
<1>8. CASE Compose
  BY <1>8, ComposeKeeps
<1>9. CASE UNCHANGED vars
  BY <1>9 DEF vars, Sound, World, StripFresh, LaterViewsFresh
<1>10. QED
  BY <1>1, <1>2, <1>3, <1>4, <1>5, <1>6, <1>7, <1>8, <1>9 DEF Next

(* The console stays in order. *)
THEOREM StaysSound == Spec => []Sound
<1>1. Init => Sound
  BY SoundStart
<1>2. Sound /\ [Next]_vars => Sound'
  BY SoundStep
<1>3. QED
  BY <1>1, <1>2, PTL DEF Spec

-----------------------------------------------------------------------------
(* What follows from it *)

(* It has the types. *)
LEMMA SoundTyped == Sound => TypeOK
<1> SUFFICES ASSUME Sound PROVE TypeOK
  OBVIOUS
<1>1. store \in Stores /\ view \in [ViewSet -> ViewStates] /\ damage \in Damages
  BY WorldParts DEF Sound, Worlds
<1>2. store.head \in Slots /\ store.count \in 0 .. BufLines
      /\ \A s \in Slots : store.order[s] \in Slots
  BY <1>1 DEF Stores
<1>3. Len(store.changes) <= ChangesMax
  <2>1. Len(<<>>) = 0
    OBVIOUS
  <2>2. QED
    BY <2>1, StoreAssumption DEF Sound
<1>4. \A s \in Live(store) : store.entries[s].type # "free"
  BY <1>1, LiveIs DEF Sound, RingOK, At
<1>5. \A u \in Users : store.prompts[u].len \in 0 .. MaxLine
  BY <1>1, PromptOf
<1>6. \A v \in ViewSet : view[v].mask \subseteq RowSet
  <2> TAKE v \in ViewSet
  <2>1. view[v] \in ViewStates
    BY <1>1
  <2>2. QED
    BY <2>1 DEF ViewStates
<1>7. damage.n \in 0 .. MaxDamage
  BY <1>1 DEF Damages
<1>8. QED
  BY <1>2, <1>3, <1>4, <1>5, <1>6, <1>7 DEF TypeOK

(* The state of a console has its form: the ring stays in its bounds and   *)
(* the order names its slots.                                              *)
THEOREM StaysTyped == Spec => []TypeOK
  BY StaysSound, SoundTyped, PTL

(* Ids in distinct places are distinct. *)
LEMMA SoundNoTwins == Sound => NoTwins
<1> SUFFICES ASSUME Sound PROVE NoTwins
  OBVIOUS
<1>1. SUFFICES ASSUME NEW s \in Live(store), NEW t \in Live(store),
                      store.entries[s].id = store.entries[t].id
               PROVE  s = t
  BY DEF NoTwins
<1>2. PICK i \in 0 .. store.count - 1 : s = Slot(store, i)
  BY SoundNow, LiveIs
<1>3. PICK j \in 0 .. store.count - 1 : t = Slot(store, j)
  BY SoundNow, LiveIs
<1>4. At(store, i).id = At(store, j).id
  BY <1>1, <1>2, <1>3 DEF At
<1>5. i = j
  BY <1>4 DEF Sound, RingOK
<1>6. QED
  BY <1>2, <1>3, <1>5

(* No entry is in a store twice, whatever is delivered again, compacted or *)
(* overwritten.                                                            *)
THEOREM NoneIsTwin == Spec => []NoTwins
  BY StaysSound, SoundNoTwins, PTL

(* f takes the entries of the ring that are no snapshots.                  *)
Keeps(f) ==
  /\ f[0] = <<>>
  /\ \A n \in 1 .. store.count :
       f[n] = IF At(store, n - 1).type = "snapshot" THEN f[n - 1]
              ELSE Append(f[n - 1], At(store, n - 1))
  /\ Ring = f[store.count]

(* There is such an f. *)
LEMMA RingUp ==
  ASSUME store \in Stores
  PROVE  \E f : Keeps(f)
<1> DEFINE n == store.count
           S == Seq(Entries)
           G(k, a) == IF At(store, k - 1).type = "snapshot" THEN a ELSE Append(a, At(store, k - 1))
           g == [k \in 1 .. n |-> [a \in S |-> G(k, a)]]
           Up(f) == [k \in 0 .. n |-> IF k = 0 THEN <<>> ELSE G(k, f[k - 1])]
           h == CHOOSE f : f = Up(f)
<1>1. n \in Nat
  BY SlotsAre DEF Stores
<1>2. ASSUME NEW k \in 1 .. n, NEW a \in S PROVE G(k, a) \in S
  <2>1. k - 1 \in 0 .. n - 1
    BY <1>1
  <2>2. At(store, k - 1) \in Entries
    BY <2>1, AtType
  <2>3. QED
    BY <2>2
<1>3. g \in Steps(n, S)
  BY <1>2 DEF Steps
<1>4. \A k \in 1 .. n, a \in S : g[k][a] = G(k, a)
  OBVIOUS
<1>5. <<>> \in S
  OBVIOUS
<1>6. Ring = h[n]
  BY DEF Ring, At
<1> HIDE DEF g, S
<1>7. PICK f : Counts(f, n, S, <<>>, g)
  BY <1>1, <1>3, <1>5, CountedUp
<1> HIDE DEF G
<1>8. f = Up(f)
  <2>1. ASSUME NEW k \in 0 .. n PROVE f[k] = IF k = 0 THEN <<>> ELSE G(k, f[k - 1])
    <3>1. CASE k = 0
      BY <1>7, <3>1 DEF Counts
    <3>2. CASE k # 0
      <4>1. k \in 1 .. n /\ k - 1 \in 0 .. n
        BY <1>1, <3>2
      <4>2. f[k - 1] \in S /\ f[k] = g[k][f[k - 1]]
        BY <1>7, <4>1 DEF Counts
      <4>3. QED
        BY <1>4, <3>2, <4>1, <4>2
    <3>3. QED
      BY <3>1, <3>2
  <2>2. QED
    BY <1>7, <2>1 DEF Counts
<1>9. h = Up(h)
  BY <1>8
<1> HIDE DEF h
<1>10. h[0] = <<>> /\ \A k \in 1 .. n : h[k] = G(k, h[k - 1])
  BY <1>1, <1>9
<1>11. Keeps(h)
  BY <1>6, <1>10 DEF Keeps, G
<1>12. QED
  BY <1>11

(* The places follow the log to its end, so what is left when the          *)
(* snapshots are passed over is the end of the log.                        *)
LEMMA SoundNewest == Sound => NewestStay
<1> SUFFICES ASSUME Sound PROVE NewestStay
  OBVIOUS
<1>1. PICK f : Keeps(f)
  BY SoundNow, RingUp
<1>2. PICK at : Follows(store, log, at)
  BY DEF Sound, RingOK
<1> DEFINE n == store.count
           k == Len(log)
           Right(q, i) == /\ q \in Seq(Entries) /\ Len(q) = at[i] - at[0] /\ at[0] <= at[i]
                          /\ \A j \in 1 .. Len(q) : q[j].id = log[at[0] + j].id
           T == {i \in 0 .. n : Right(f[i], i)}
<1>3. n \in Nat /\ k \in Nat /\ at \in [0 .. n -> Nat] /\ at[n] = k /\ log \in Seq(LogItems)
  BY <1>2, SoundNow, SlotsAre DEF Follows, Stores, LogOK
<1>4. 0 \in T
  <2>1. f[0] = <<>> /\ <<>> \in Seq(Entries) /\ Len(<<>>) = 0 /\ at[0] \in Nat
    BY <1>1, <1>3 DEF Keeps
  <2>2. Right(f[0], 0)
    BY <2>1
  <2>3. QED
    BY <1>3, <2>2
<1>5. ASSUME NEW i \in 1 .. n, i - 1 \in T PROVE i \in T
  <2> DEFINE q == f[i - 1]
             e == At(store, i - 1)
  <2>1. Right(q, i - 1)
    BY <1>5
  <2>2. i - 1 \in 0 .. n - 1 /\ i - 1 \in 0 .. n /\ i \in 0 .. n /\ (i - 1) + 1 = i
    BY <1>3
  <2>3. f[i] = IF e.type = "snapshot" THEN q ELSE Append(q, e)
    BY <1>1 DEF Keeps
  <2>4. IF e.type = "snapshot" THEN at[i] = at[i - 1]
        ELSE at[i] = at[i - 1] + 1 /\ log[at[i]].id = e.id
    BY <1>2, <2>2 DEF Follows
  <2>5. e \in Entries
    BY <2>2, SoundNow, AtType
  <2>6. at[0] \in Nat /\ at[i - 1] \in Nat /\ at[i] \in Nat
    BY <1>3, <2>2
  <2> HIDE DEF q, e
  <2>7. Right(f[i], i)
    <3>1. CASE e.type = "snapshot"
      BY <2>1, <2>3, <2>4, <3>1
    <3>2. CASE e.type # "snapshot"
      <4> DEFINE r == Append(q, e)
      <4>1. f[i] = r
        BY <2>3, <3>2
      <4>2. q \in Seq(Entries) /\ Len(q) = at[i - 1] - at[0] /\ at[0] <= at[i - 1]
        BY <2>1
      <4>3. /\ r \in Seq(Entries) /\ Len(r) = Len(q) + 1 /\ r[Len(q) + 1] = e
            /\ \A j \in 1 .. Len(q) : r[j] = q[j]
        BY <2>5, <4>2
      <4> HIDE DEF r
      <4>4. at[i] = at[i - 1] + 1 /\ log[at[i]].id = e.id
        BY <2>4, <3>2
      <4>5. Len(r) = at[i] - at[0] /\ at[0] <= at[i] /\ at[0] + (Len(q) + 1) = at[i] /\ Len(q) \in Nat
        BY <2>6, <4>2, <4>3, <4>4
      <4>6. ASSUME NEW j \in 1 .. Len(r) PROVE r[j].id = log[at[0] + j].id
        <5>1. CASE j = Len(q) + 1
          BY <4>3, <4>4, <4>5, <5>1
        <5>2. CASE j # Len(q) + 1
          <6>1. j \in 1 .. Len(q)
            BY <4>3, <4>5, <5>2
          <6>2. QED
            BY <2>1, <4>3, <6>1
        <5>3. QED
          BY <5>1, <5>2
      <4>7. QED
        BY <4>1, <4>3, <4>5, <4>6
    <3>3. QED
      BY <3>1, <3>2
  <2>8. QED
    BY <2>2, <2>7
<1> HIDE DEF T
<1>6. \A i \in 0 .. n : i \in T
  BY <1>3, <1>4, <1>5, Climbs
<1>7. Right(f[n], n)
  BY <1>3, <1>6 DEF T
<1>8. Ring = f[n]
  BY <1>1 DEF Keeps
<1> DEFINE m == at[0]
           sub == SubSeq(log, m + 1, k)
<1>9. m \in Nat /\ m <= k /\ Len(Ring) = k - m /\ Ring \in Seq(Entries)
      /\ \A j \in 1 .. k - m : Ring[j].id = log[m + j].id
  BY <1>3, <1>7, <1>8
<1>10. (k - Len(Ring)) + 1 = m + 1 /\ Len(Ring) <= k
  BY <1>3, <1>9
<1> HIDE DEF m
<1>11. sub \in Seq(LogItems) /\ Len(sub) = k - m /\ \A j \in 1 .. k - m : sub[j] = log[m + j]
  BY <1>3, <1>9
<1>12. Ids(Ring) = Ids(sub)
  <2> HIDE DEF sub
  <2>1. DOMAIN Ring = 1 .. k - m /\ DOMAIN sub = 1 .. k - m
    BY <1>3, <1>9, <1>11
  <2>2. \A j \in 1 .. k - m : Ring[j].id = sub[j].id
    BY <1>9, <1>11
  <2>3. QED
    BY <2>1, <2>2 DEF Ids
<1>13. k - Len(Ring) + 1 = m + 1
  BY <1>3, <1>9
<1>14. QED
  BY <1>10, <1>12, <1>13 DEF NewestStay

(* What a store holds is what was added last: neither a compaction nor a   *)
(* full ring loses an entry while an older one stays.                      *)
THEOREM NewestAlwaysStay == Spec => []NewestStay
  BY StaysSound, SoundNewest, PTL

(* It says what the windows show. *)
LEMMA SoundShown == Sound => StripFresh /\ LaterViewsFresh
  BY DEF Sound

(* A window that is not to be redrawn has its prompt as it is, and who     *)
(* else is typing.                                                         *)
THEOREM StripStaysFresh == Spec => []StripFresh
  BY StaysSound, SoundShown, PTL

(* A view behind the first subscriber is to be redrawn, or has what the    *)
(* store has.                                                              *)
THEOREM LaterViewsStayFresh == Spec => []LaterViewsFresh
  BY StaysSound, SoundShown, PTL
=============================================================================

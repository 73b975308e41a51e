----------------------------- MODULE LogootPos ------------------------------
(***************************************************************************)
(* Positions of the entries of a console (console_store.c, ConPosId): a    *)
(* position is a path of at most MaxDepth components, each a digit and     *)
(* the actor that chose it, compared from the left with a prefix first.    *)
(* pos_between_impl makes a new position between two others.               *)
(***************************************************************************)
EXTENDS Integers, Sequences

CONSTANTS
  Base,      \* BASE of pos_between_impl, 0xFFFF
  MaxDepth   \* CON_POS_MAX_DEPTH

ASSUME PosAssumption ==
  /\ Base \in Nat \ {0}
  /\ MaxDepth \in Nat \ {0}

Comp == [digit : 0 .. Base, actor : Nat]

(* The positions that con_store_gen_between gives while there is room: the *)
(* last digit of a path is never 0.                                        *)
Pos == {p \in Seq(Comp) : Len(p) > 0 /\ p[Len(p)].digit > 0}

CompLess(x, y) ==
  \/ x.digit < y.digit
  \/ x.digit = y.digit /\ x.actor < y.actor

(* Mutant: the longer of two paths with a common start comes first. *)
PosLessLongFirst(p, q) ==
  \/ \E i \in DOMAIN p \cap DOMAIN q :
       /\ CompLess(p[i], q[i])
       /\ \A j \in 1 .. i - 1 : p[j] = q[j]
  \/ Len(p) > Len(q) /\ \A j \in DOMAIN q : p[j] = q[j]

(* pos_cmp(p, q) < 0 *)
PosLess(p, q) ==
  \/ \E i \in DOMAIN p \cap DOMAIN q :
       /\ CompLess(p[i], q[i])
       /\ \A j \in 1 .. i - 1 : p[j] = q[j]
  \/ Len(p) < Len(q) /\ \A j \in DOMAIN p : p[j] = q[j]

-----------------------------------------------------------------------------
(* No left neighbour is the empty path, no right neighbour is Rightmost.   *)
Leftmost == <<>>
Rightmost == <<[digit |-> Base, actor |-> 0]>>

LeftDigit(p, d) == IF d \in DOMAIN p THEN p[d].digit ELSE 0
RightDigit(p, d) == IF d \in DOMAIN p THEN p[d].digit ELSE Base

(* The depths at which a digit fits between left and right. *)
Room(left, right) ==
  {d \in 1 .. MaxDepth : RightDigit(right, d) - LeftDigit(left, d) > 1}

(* left, cut or filled up with zeros to n components *)
Padded(left, n) ==
  [i \in 1 .. n |->
     IF i \in DOMAIN left THEN left[i] ELSE [digit |-> 0, actor |-> 0]]

Least(S) == CHOOSE d \in S : \A e \in S : d <= e

(* A new component halves the gap at the first depth that has one; ... *)
Halved(left, right, actor) ==
  LET d == Least(Room(left, right))
      l == LeftDigit(left, d)
      r == RightDigit(right, d)
  IN  Append(Padded(left, d - 1),
             [digit |-> l + (r - l) \div 2, actor |-> actor])

(* ... without any, left is "pressed to the right" at the deepest level.   *)
Pressed(left, actor) ==
  [Padded(left, MaxDepth) EXCEPT
     ![MaxDepth].digit = IF @ < Base THEN @ + 1 ELSE Base,
     ![MaxDepth].actor = actor]

(* pos_between_impl *)
Between(left, right, actor) ==
  IF Room(left, right) # {} THEN Halved(left, right, actor)
  ELSE Pressed(left, actor)
=============================================================================

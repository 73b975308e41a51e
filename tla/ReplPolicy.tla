----------------------------- MODULE ReplPolicy -----------------------------
(***************************************************************************)
(* The selection policy of the replication hub                             *)
(* (src/src/replication/repl_policy_default.c).  The hub collects one      *)
(* candidate per backend - is there an object, its health, priority and    *)
(* capability mask - and the policy returns the index of the backend a     *)
(* topic is routed to, or -1.                                              *)
(*                                                                         *)
(* A capability mask is the set of the bits it has: m1 > m2 as integers    *)
(* exactly when the highest bit in which they differ is in m1.             *)
(***************************************************************************)
EXTENDS Integers

NoBackend == -1

(* The bits of the enum ReplCaps. *)
ORDERED   == 0
RELIABLE  == 1
BROADCAST == 2
CRDT      == 3
DISCOVER  == 4
CapBits   == {ORDERED, RELIABLE, BROADCAST, CRDT, DISCOVER}

MaskGreater(m1, m2) ==
  \E i \in m1 \ m2 : \A j \in m2 \ m1 : j < i

(* A candidate the loop does not skip: an object, healthy, and             *)
(* (caps & required) == required.                                          *)
Eligible(c, required) ==
  /\ c.present
  /\ c.healthy
  /\ required \subseteq c.caps

Better(c, d) ==
  \/ c.prio > d.prio
  \/ c.prio = d.prio /\ MaskGreater(c.caps, d.caps)

-----------------------------------------------------------------------------
(* A slip in the loop's comparison: the last of two equal candidates wins. *)
ScanLastOfEqual(cand, n, required) ==
  LET best[k \in 0 .. n] ==
        IF k = 0 THEN NoBackend
        ELSE LET b == best[k - 1]
                 c == cand[k - 1]
             IN  IF /\ Eligible(c, required)
                    /\ b = NoBackend \/ ~Better(cand[b], c)
                 THEN k - 1 ELSE b
  IN best[n]

(* The loop of repl_policy_default_choose over the n candidates            *)
(* cand[0 .. n-1]: best[k] is the variable best after k iterations.  The   *)
(* running maximum starts below every priority the hub is given, which     *)
(* holds for all priorities above INT_MIN + 1.                             *)
PolicyChoose(cand, n, required) ==
  LET best[k \in 0 .. n] ==
        IF k = 0 THEN NoBackend
        ELSE LET b == best[k - 1]
                 c == cand[k - 1]
             IN  IF /\ Eligible(c, required)
                    /\ b = NoBackend \/ Better(c, cand[b])
                 THEN k - 1 ELSE b
  IN best[n]

-----------------------------------------------------------------------------
(* What the loop computes, without the loop: the eligible candidates that  *)
(* beat all the others, where the first of two equal ones beats the second.*)
Beats(cand, b, c) ==
  \/ Better(cand[b], cand[c])
  \/ ~Better(cand[c], cand[b]) /\ b < c

Winners(cand, n, required) ==
  LET E == {b \in 0 .. n - 1 : Eligible(cand[b], required)}
  IN  {b \in E : \A c \in E \ {b} : Beats(cand, b, c)}

BestBackend(cand, n, required) ==
  LET W == Winners(cand, n, required)
  IN  IF W = {} THEN NoBackend ELSE CHOOSE b \in W : TRUE

(* Backend b is no longer healthy. *)
Losing(cand, b) == [cand EXCEPT ![b].healthy = FALSE]

(* The loop returns that backend, finds one whenever any is eligible, and  *)
(* losing another backend never moves the choice                           *)
(* (repl_policy_default.c:3-17).                                           *)
ScanIsBest(cand, n, required) ==
  LET best == PolicyChoose(cand, n, required) IN
  /\ best = BestBackend(cand, n, required)
  /\ best = NoBackend <=> \A b \in 0 .. n - 1 : ~Eligible(cand[b], required)
  /\ \A b \in 0 .. n - 1 : b # best => PolicyChoose(Losing(cand, b), n, required) = best
=============================================================================

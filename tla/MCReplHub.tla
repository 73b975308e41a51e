----------------------------- MODULE MCReplHub ------------------------------
(* Small instances of the hub: leader, client and local loop with the      *)
(* priorities and capabilities that main.c gives them.                     *)
EXTENDS ReplHub, TLC

CONSTANTS t1, t2, t3, s1, s2

MCInstOf == [t \in Topics |-> t]
MCPrio   == (0 :> 100) @@ (1 :> 90) @@ (2 :> 10)
MCCaps   == (0 :> {ORDERED, RELIABLE, BROADCAST})
              @@ (1 :> {ORDERED, RELIABLE})
              @@ (2 :> {ORDERED, RELIABLE, BROADCAST})
MCHubCaps == {}
Bystanders == Permutations({t2, t3})

(* Topic t1 makes every call; t2 and t3 publish and listen only, so they   *)
(* are interchangeable.  Target 3 is the first index out of range.         *)
OnlyT1(S) == [t \in Topics |-> IF t = t1 THEN S ELSE {}]
MCReqCaps == OnlyT1({{}, {CRDT}})
MCPins    == OnlyT1({-1, 1})
MCTargets == OnlyT1({2, 3})
=============================================================================

----------------------------- MODULE MCTcpStar ------------------------------
(* Small instances of the TCP star. *)
EXTENDS TcpStar, TLC

CONSTANTS c1, c2

SameConsole == [p \in Procs |-> 1]
OtherConsole == [p \in Procs |-> IF p = c2 THEN 2 ELSE 1]
OneLine == ("line" :> 1) @@ ("command" :> 0)
OneCommand == ("line" :> 0) @@ ("command" :> 1)

Swap == Permutations({c1, c2})
=============================================================================

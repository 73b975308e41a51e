---------------------------- MODULE MCCrdtMesh ------------------------------
(* Small instances of the mesh. *)
EXTENDS CrdtMesh, TLC

CONSTANTS a, b, c

OneCommand == ("line" :> 0) @@ ("command" :> 1)
(* b may dial itself too, and then has no place for one of the others. *)
Chain == {<<a, b>>, <<b, c>>, <<b, b>>}
=============================================================================

--------------------------- MODULE MCConsoleStar ----------------------------
(* Small instances of the console behind the TCP star. *)
EXTENDS ConsoleStar, TLC

CONSTANTS c1, c2

(* The leader's actor is between those of the clients. *)
Actors == (c1 :> 1) @@ (L :> 2) @@ (c2 :> 3)

(* A line is answered with a slider. *)
Color == {<<"color">>}

Of(edits, commands, drags) ==
  ("edit" :> edits) @@ ("command" :> commands) @@ ("drag" :> drags)
EditOrDrags == {Of(1, 1, 0), Of(0, 0, 2)}
Drags == {Of(0, 0, 2)}
=============================================================================

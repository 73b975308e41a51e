--------------------------- MODULE MCConsoleViews ---------------------------
(* A ring of five entries that is compacted from three on, and views of    *)
(* two rows.  StoreOps fills the ring behind a widget and overwrites it;   *)
(* ViewOps mixes what redraws a whole view with what redraws a row.        *)
EXTENDS ConsoleViews

MCUsers == {1, 2}

StoreOps == [local |-> 2, remote |-> 2, answer |-> 2, redelivery |-> 1,
             message |-> 0, prompt |-> 0]
ViewOps == [local |-> 1, remote |-> 1, answer |-> 1, redelivery |-> 0,
            message |-> 1, prompt |-> 1]
=============================================================================

-------------------------------- MODULE MCWm --------------------------------
(* The background as high as the screen, a square and a lazy console of two *)
(* places each, and two users.                                              *)
EXTENDS Wm, TLC

CONSTANTS paint, sq, con

MCKind == (paint :> "paint") @@ (sq :> "square") @@ (con :> "console")
MCZ0 == (paint :> 0) @@ (sq :> 1) @@ (con :> 100)
MCFrame0 == (paint :> [y |-> 0, h |-> Height0]) @@ (sq :> [y |-> 0, h |-> 2])
              @@ (con :> [y |-> Height0 - 2, h |-> 2])
MCLazy == con :> "click"
=============================================================================

----------------------------- MODULE MCEchoNet ------------------------------
(* Two connections and a listener over three descriptors. *)
EXTENDS EchoNet, TLC

MCFds == 1 .. 3
=============================================================================

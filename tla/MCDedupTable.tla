---------------------------- MODULE MCDedupTable ----------------------------
(* A table that starts with two entries and grows twice. *)
EXTENDS DedupTable

CONSTANTS k1, k2, k3, k4
=============================================================================

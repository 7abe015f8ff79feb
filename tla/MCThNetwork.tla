---------------------------- MODULE MCThNetwork ----------------------------
(***************************************************************************)
(* ThNetwork for TLC.  The transmitters run the same firmware and the host *)
(* tells them apart by their IDs only, so they may be permuted in a run    *)
(* without liveness.                                                       *)
(***************************************************************************)
EXTENDS ThNetwork, TLC

Symmetry == Permutations(Transmitters)
============================================================================

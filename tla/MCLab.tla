------------------------------- MODULE MCLab --------------------------------
(***************************************************************************)
(* Small instances of Lab for TLC.                                         *)
(***************************************************************************)
EXTENDS Lab, TLC

CONSTANTS r1, r2, r3

ThreeRequests == {r1, r2, r3}
TwoRequests   == {r1, r2}

\* Requests are interchangeable: sound for invariants and action properties.
RequestSymmetry == Permutations(Requests)
=============================================================================

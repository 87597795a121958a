---------------------------- MODULE MCScheduler -----------------------------
(***************************************************************************)
(* Small instances of Scheduler for TLC.                                   *)
(***************************************************************************)
EXTENDS Scheduler, TLC

CONSTANTS r1, r2, r3, r4

FourRequests  == {r1, r2, r3, r4}
ThreeRequests == {r1, r2, r3}

\* Requests are interchangeable: sound for invariants.
RequestSymmetry == Permutations(Requests)
=============================================================================

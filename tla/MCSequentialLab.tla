-------------------------- MODULE MCSequentialLab ---------------------------
(***************************************************************************)
(* Small instances of SequentialLab for TLC.                               *)
(***************************************************************************)
EXTENDS SequentialLab

\* Two gaps and a last block that is cut short.
TwoGaps == [gaps |-> <<0, 1>>, per |-> 1, trials |-> 7, sender |-> 0, probe |-> 1,
            jitter |-> 0, faults |-> 0]

\* Jitter, and two calibration samples per bit.
Jittery == [TwoGaps EXCEPT !.gaps = <<0>>, !.per = 2, !.trials = 6, !.jitter = 1]

\* A gap that is listed twice.
Twice == [TwoGaps EXCEPT !.gaps = <<0, 0>>, !.trials = 5]

\* Options that are refused: too few trials, a slot the server does not have.
TooFew == [TwoGaps EXCEPT !.trials = 4]
NoSlot == [TwoGaps EXCEPT !.probe = 2]

\* Few trials and everything that can go wrong, three times.
Faulty == [TwoGaps EXCEPT !.gaps = <<0>>, !.trials = 3, !.faults = 3]

AllScenarios   == {TwoGaps, Jittery, Twice, TooFew, NoSlot, Faulty}
FaultyScenario == {Faulty}
=============================================================================

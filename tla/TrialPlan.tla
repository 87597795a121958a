----------------------------- MODULE TrialPlan ------------------------------
(***************************************************************************)
(* The trial plan of the two campaign clients and the decoder that is      *)
(* calibrated on its first trials, as operators.  crates/sequential-lab    *)
(* (mod benchmark) and crates/bench-client have the same code under        *)
(* different names: a gap there is an overlap offset here.                 *)
(*                                                                         *)
(* Latencies are whole numbers.  A mean is kept as a sum and a count, and  *)
(* means are compared by cross-multiplication, so nothing is rounded.      *)
(***************************************************************************)
EXTENDS Counting, Functions

Bits == {0, 1}

\* How many trials of the plan are meant for calibration.
CalibrationLen(gaps, per) == Len(gaps) * per * 2

\* Before it is shuffled: per times the two bits of the first gap, and so on.
CalibrationList(gaps, per) ==
    [k \in 1 .. CalibrationLen(gaps, per) |->
        [bit |-> (k - 1) % 2, gap |-> gaps[((k - 1) \div (2 * per)) + 1]]]

\* A scoring block before it is shuffled: both bits of every gap.
Combinations(gaps) == CalibrationList(gaps, 1)

\* Mutant of Swap: the first value is overwritten before it is moved.
SwapLoses(s, i, j) == [s EXCEPT ![i] = s[j]]

\* One swap of the Fisher-Yates shuffle.
Swap(s, i, j) == [s EXCEPT ![i] = s[j], ![j] = s[i]]

\* Mutant of Taken: the block is not cut off at the end of the plan.
TakenWhole(block, room) == block

\* take(count - output.len())
Taken(block, room) == SubSeq(block, 1, IF Len(block) < room THEN Len(block) ELSE room)

-----------------------------------------------------------------------------
(* Calibration and decoding *)

\* How many trials the analysis takes for calibration: it counts the gaps it
\* finds in the plan, without repetition.
PrefixLen(plan, per) == Cardinality({t.gap : t \in Range(plan)}) * per * 2

\* The trials of one gap and bit among the first `len`.
Samples(plan, len, gap, bit) == {k \in 1 .. len : plan[k] = [bit |-> bit, gap |-> gap]}

\* The mean of nothing is 0.
Mean(latency, S) ==
    [sum   |-> SumOver(latency, S),
     count |-> IF S = {} THEN 1 ELSE Cardinality(S)]

\* Mutant of Decode: a high latency always stands for a one.
DecodeHighIsOne(zero, one, x) ==
    IF 2 * x * zero.count * one.count >= zero.sum * one.count + one.sum * zero.count
      THEN 1 ELSE 0

\* The bit a latency stands for: high is at or above the middle of the two
\* means, and high stands for the bit with the higher mean.
Decode(zero, one, x) ==
    LET high        == 2 * x * zero.count * one.count
                           >= zero.sum * one.count + one.sum * zero.count
        high_is_one == one.sum * zero.count >= zero.sum * one.count
    IN  IF high = high_is_one THEN 1 ELSE 0

-----------------------------------------------------------------------------
(* Reference definitions *)

\* What a plan must be, with no word about how it is made: both bits of every
\* gap `per` times in the calibration trials, once in every scoring block,
\* and at most once in a block that the end of the plan cuts short (times the
\* number of times the gap is listed).
IsBalanced(plan, gaps, per, trials) ==
    LET start     == CalibrationLen(gaps, per)
        size      == 2 * Len(gaps)
        Listed(g) == Occurrences(g, gaps)
        Block(n)  == SubSeq(plan, start + n * size + 1,
                            IF start + (n + 1) * size < trials
                              THEN start + (n + 1) * size ELSE trials)
    IN  /\ Len(plan) = trials
        /\ \A g \in Range(gaps), b \in Bits :
              LET t == [bit |-> b, gap |-> g]
              IN  /\ Occurrences(t, SubSeq(plan, 1, start)) = per * Listed(g)
                  /\ \A n \in 0 .. ((trials - start - 1) \div size) :
                        IF Len(Block(n)) = size
                          THEN Occurrences(t, Block(n)) = Listed(g)
                          ELSE Occurrences(t, Block(n)) <= Listed(g)

\* Every plan that a shuffle can give.
Plans(gaps, per, trials) ==
    {p \in [1 .. trials -> [bit : Bits, gap : Range(gaps)]] :
        IsBalanced(p, gaps, per, trials)}
=============================================================================

------------------------------ MODULE Campaign ------------------------------
(***************************************************************************)
(* The campaign client of the sequential lab (mod benchmark of             *)
(* crates/sequential-lab/src/main.rs): it takes a snapshot of the server's *)
(* counters, makes its trial plan, sends a sender turn and a probe turn    *)
(* per trial, accepts the campaign if the counters have moved by exactly   *)
(* its own turns, decodes the probe latencies and writes a report.         *)
(*                                                                         *)
(* The server is the one that Lab shows: a turn is counted under its       *)
(* outcome before it is answered, and its answer tells nothing.  Counters  *)
(* are global: other clients move them, a turn of a client that died is    *)
(* counted later, and a restart sets them back.  The random generator is   *)
(* any sequence of choices, the stuck one (a state of zero) included.      *)
(***************************************************************************)
EXTENDS TrialPlan

CONSTANTS
    Scenarios,      \* options of the client, channel and number of faults
    SessionSlots,   \* of the server
    Rounds,         \* seeds the script runs
    StartSeed

ASSUME ScenarioAssumption ==
    /\ SessionSlots \in Nat /\ Rounds \in Nat /\ StartSeed \in Nat
    /\ \A s \in Scenarios :
          /\ s.per \in Nat /\ s.trials \in Nat /\ s.faults \in Nat
          /\ s.sender \in Nat /\ s.probe \in Nat
          /\ s.jitter \in {0, 1}
          /\ s.gaps \in Seq(Nat)

Jobs == 1 .. 2 * Rounds

\* A seed's two runs, control first for an even seed.
Control(n) ==
    LET seed == StartSeed + ((n - 1) \div 2)
    IN  (n % 2 = 1) <=> (seed % 2 = 0)

Outcomes == {"complete", "timed_out", "failed"}
Zero     == [o \in Outcomes |-> 0]

VARIABLES
    scenario,   \* the options every client of the behaviour is given
    slower,     \* the bit after which a probe is slow, for each gap
    job,        \* which report the client is to write
    reports,    \* the report files, with what happened to their campaigns
    \* the client
    stage,      \* where it is, "off" if there is none
    before,     \* the first snapshot of the counters
    plan, block, index,
    turn,       \* its request
    latency,    \* of the probes so far
    null, groups,
    \* the server and the environment
    counters,
    strays,     \* turns of dead clients that the server still has to run
    faults,     \* that may still happen
    lossy,      \* a turn of this campaign did not complete
    meddled     \* what else happened to the counters since the snapshot

planVars   == <<plan, block, index>>
nullVars   == <<null, groups>>
clientVars == <<stage, before, planVars, turn, latency, nullVars>>
ghostVars  == <<lossy, meddled>>
serverVars == <<counters, strays>>
fixedVars  == <<scenario, slower, job>>
vars == <<fixedVars, reports, clientVars, serverVars, faults, ghostVars>>

NoReport == [state |-> "absent", lossy |-> FALSE, meddled |-> {}]

Init ==
    /\ scenario \in Scenarios
    /\ slower \in [Range(scenario.gaps) -> Bits]
    /\ job = 1
    /\ reports = [n \in Jobs |-> NoReport]
    /\ stage = "off"
    /\ before = Zero
    /\ plan = << >> /\ block = << >> /\ index = 0
    /\ turn = "none"
    /\ latency = << >>
    /\ null = << >> /\ groups = << >>
    /\ counters = Zero
    /\ strays = 0
    /\ faults = scenario.faults
    /\ lossy = FALSE /\ meddled = {}

-----------------------------------------------------------------------------
(* The client *)

\* The process ends, and its memory with it.
Exit(status) ==
    /\ stage' = status
    /\ before' = Zero
    /\ plan' = << >> /\ block' = << >> /\ index' = 0
    /\ turn' = "none"
    /\ latency' = << >>
    /\ null' = << >> /\ groups' = << >>
    /\ lossy' = FALSE /\ meddled' = {}

ValidArgs ==
    /\ scenario.gaps # << >>
    /\ scenario.sender # scenario.probe
    /\ scenario.trials > CalibrationLen(scenario.gaps, scenario.per)

CheckArgs ==
    /\ stage = "args"
    /\ IF ValidArgs
         THEN /\ stage' = "snapshot"
              /\ UNCHANGED <<before, planVars, turn, latency, nullVars, ghostVars>>
         ELSE Exit("error")
    /\ UNCHANGED <<fixedVars, reports, serverVars, faults>>

ToShuffle(values) == block' = values /\ index' = Len(values)

\* GET /health, the check of the slots, and the list to be shuffled first.
Snapshot ==
    /\ stage = "snapshot"
    /\ IF scenario.sender < SessionSlots /\ scenario.probe < SessionSlots
         THEN /\ before' = counters
              /\ lossy' = FALSE /\ meddled' = {}
              /\ stage' = "shuffle"
              /\ ToShuffle(CalibrationList(scenario.gaps, scenario.per))
              /\ UNCHANGED <<plan, turn, latency, nullVars>>
         ELSE Exit("error")
    /\ UNCHANGED <<fixedVars, reports, serverVars, faults>>

\* One round of shuffle's loop, from the last position down.
Shuffle ==
    /\ stage = "shuffle"
    /\ index > 1
    /\ \E j \in 1 .. index : block' = Swap(block, index, j)
    /\ index' = index - 1
    /\ UNCHANGED <<fixedVars, reports, stage, before, plan, turn, latency, nullVars,
                   serverVars, faults, ghostVars>>

\* The shuffled calibration or block goes to the end of the plan, as much of
\* it as the plan has room for.
ExtendPlan ==
    /\ stage = "shuffle"
    /\ index <= 1
    /\ plan' = plan \o Taken(block, scenario.trials - Len(plan))
    /\ IF Len(plan') < scenario.trials
         THEN ToShuffle(Combinations(scenario.gaps)) /\ UNCHANGED stage
         ELSE ToShuffle(<< >>) /\ stage' = "sender"
    /\ UNCHANGED <<fixedVars, reports, before, turn, latency, nullVars,
                   serverVars, faults, ghostVars>>

SendTurn ==
    /\ stage \in {"sender", "probe"}
    /\ turn = "none"
    /\ turn' = "sent"
    /\ UNCHANGED <<fixedVars, reports, stage, before, planVars, latency, nullVars,
                   serverVars, faults, ghostVars>>

\* The latencies a probe may have: ten per gap, three more after the slow bit
\* unless the run is a control, and jitter that is less than half of that.
Latencies(trial) ==
    LET base == 10 * trial.gap
                  + (IF ~Control(job) /\ trial.bit = slower[trial.gap] THEN 3 ELSE 0)
    IN  base .. base + scenario.jitter

\* The normalised answer to the sender's turn: sleep for the gap.
SenderAnswered ==
    /\ stage = "sender"
    /\ turn = "answered"
    /\ turn' = "none"
    /\ stage' = "probe"
    /\ UNCHANGED <<fixedVars, reports, before, planVars, latency, nullVars,
                   serverVars, faults, ghostVars>>

\* The normalised answer to the probe's turn: the trial is recorded.
ProbeAnswered ==
    /\ stage = "probe"
    /\ turn = "answered"
    /\ turn' = "none"
    /\ \E x \in Latencies(plan[Len(latency) + 1]) : latency' = Append(latency, x)
    /\ stage' = IF Len(latency') < scenario.trials THEN "sender" ELSE "final"
    /\ UNCHANGED <<fixedVars, reports, before, planVars, nullVars,
                   serverVars, faults, ghostVars>>

\* A broken connection or any status but success ends the client.
TurnFails ==
    /\ turn \in {"broken", "refused"}
    /\ Exit("error")
    /\ UNCHANGED <<fixedVars, reports, serverVars, faults>>

\* saturating_sub of the two snapshots.
Moved(o) == IF counters[o] < before[o] THEN 0 ELSE counters[o] - before[o]

\* Mutant of Complete: time-outs and failures are not looked at.
CompleteOnly == Moved("complete") = scenario.trials * 2

\* What the campaign is accepted on.
Complete ==
    /\ Moved("complete") = scenario.trials * 2
    /\ Moved("timed_out") = 0
    /\ Moved("failed") = 0

-----------------------------------------------------------------------------
(* Analysis *)

Prefix == PrefixLen(plan, scenario.per)
Scored == Prefix + 1 .. scenario.trials

\* The bit that analyze decodes for trial k.
Decoded(k) ==
    LET g == plan[k].gap
    IN  Decode(Mean(latency, Samples(plan, Prefix, g, 0)),
               Mean(latency, Samples(plan, Prefix, g, 1)), latency[k])

\* The scored trials of each gap, in order.
GapGroups ==
    LET gaps == Ordered({plan[k].gap : k \in Scored})
    IN  [n \in DOMAIN gaps |-> Ordered({k \in Scored : plan[k].gap = gaps[n]})]

\* The second GET /health, the acceptance, and the start of permutation_test
\* on the scored trials.
Accept ==
    /\ stage = "final"
    /\ IF Complete
         THEN /\ stage' = "permute"
              /\ null' = [k \in DOMAIN plan |-> plan[k].bit]
              /\ groups' = GapGroups
              /\ index' = IF GapGroups = << >> THEN 0 ELSE Len(GapGroups[1])
              /\ UNCHANGED <<before, plan, block, turn, latency, ghostVars>>
         ELSE Exit("error")
    /\ UNCHANGED <<fixedVars, reports, serverVars, faults>>

\* Mutant of PermuteOnce: the positions within a group are used as positions
\* among all scored trials.
PermuteOnceUngrouped(i, j) == null' = Swap(null, Prefix + i, Prefix + j)

\* expected.swap(group[index], group[selected])
PermuteOnce(i, j) == null' = Swap(null, Head(groups)[i], Head(groups)[j])

\* One round of the loop over a group's positions; one of the iterations of
\* the test is followed, the others only start from another order.
Permute ==
    /\ stage = "permute"
    /\ groups # << >>
    /\ IF index > 1
         THEN /\ \E j \in 1 .. index : PermuteOnce(index, j)
              /\ index' = index - 1
              /\ UNCHANGED groups
         ELSE /\ groups' = Tail(groups)
              /\ index' = IF Len(groups) > 1 THEN Len(groups[2]) ELSE 0
              /\ UNCHANGED null
    /\ UNCHANGED <<fixedVars, reports, stage, before, plan, block, turn, latency,
                   serverVars, faults, ghostVars>>

\* fs::write creates or truncates the file under its final name ...
CreateReport ==
    /\ stage = "permute"
    /\ groups = << >>
    /\ stage' = "write"
    /\ reports' = [reports EXCEPT ![job] =
                      [state |-> "partial", lossy |-> lossy, meddled |-> meddled]]
    /\ UNCHANGED <<fixedVars, before, planVars, turn, latency, nullVars,
                   serverVars, faults, ghostVars>>

\* ... and then fills it.
WriteReport ==
    /\ stage = "write"
    /\ reports' = [reports EXCEPT ![job].state = "whole"]
    /\ Exit("ok")
    /\ UNCHANGED <<fixedVars, serverVars, faults>>

ClientStep ==
    \/ CheckArgs \/ Snapshot \/ Shuffle \/ ExtendPlan \/ SendTurn \/ SenderAnswered
    \/ ProbeAnswered \/ TurnFails \/ Accept \/ Permute \/ CreateReport \/ WriteReport

-----------------------------------------------------------------------------
(* The server and what can go wrong *)

Fault == faults > 0 /\ faults' = faults - 1

Count(o) == counters' = [counters EXCEPT ![o] = @ + 1]

\* The server runs the client's turn, counts it and answers.
Serve ==
    /\ turn = "sent"
    /\ turn' = "answered"
    /\ \/ Count("complete") /\ UNCHANGED <<faults, lossy>>
       \/ Fault /\ lossy' = TRUE /\ \E o \in Outcomes \ {"complete"} : Count(o)
    /\ UNCHANGED <<fixedVars, reports, stage, before, planVars, latency, nullVars,
                   strays, meddled>>

\* The connection breaks before the request, or its answer, has arrived; a
\* request that has arrived is run all the same (Lab: the task is spawned).
Break ==
    /\ Fault
    /\ turn \in {"sent", "answered"}
    /\ turn' = "broken"
    /\ strays' \in {strays} \cup (IF turn = "sent" THEN {strays + 1} ELSE {})
    /\ UNCHANGED <<fixedVars, reports, stage, before, planVars, latency, nullVars,
                   counters, ghostVars>>

\* 429: the places are taken by others.
Throttle ==
    /\ Fault
    /\ turn = "sent"
    /\ turn' = "refused"
    /\ UNCHANGED <<fixedVars, reports, stage, before, planVars, latency, nullVars,
                   serverVars, ghostVars>>

\* GET /health, or the write of the report, fails.
StepFails ==
    /\ Fault
    /\ stage \in {"snapshot", "final", "write"}
    /\ Exit("error")
    /\ UNCHANGED <<fixedVars, reports, serverVars>>

\* Another client's turn is counted.
Foreign ==
    /\ Fault
    /\ \E o \in Outcomes : Count(o)
    /\ meddled' = meddled \cup {"foreign"}
    /\ UNCHANGED <<fixedVars, reports, clientVars, strays, lossy>>

\* A dead client's turn is counted.
ServeStray ==
    /\ strays > 0
    /\ strays' = strays - 1
    /\ \E o \in Outcomes : Count(o)
    /\ meddled' = meddled \cup {"stray"}
    /\ UNCHANGED <<fixedVars, reports, clientVars, faults, lossy>>

\* The server restarts with its counters at zero and nothing in its lane; the
\* client notices only if it is waiting for an answer.
Restart ==
    /\ Fault
    /\ counters' = Zero
    /\ strays' = 0
    /\ turn' = IF turn = "sent" THEN "broken" ELSE turn
    /\ meddled' = meddled \cup {"restart"}
    /\ UNCHANGED <<fixedVars, reports, stage, before, planVars, latency, nullVars, lossy>>

EnvironmentStep ==
    \/ Serve \/ Break \/ Throttle \/ StepFails \/ Foreign \/ ServeStray \/ Restart

-----------------------------------------------------------------------------
(* Properties *)

\* Type invariant.
TypeOK ==
    /\ scenario \in Scenarios
    /\ slower \in [Range(scenario.gaps) -> Bits]
    /\ job \in 1 .. 2 * Rounds + 1
    /\ reports \in [Jobs -> [state : {"absent", "partial", "whole"}, lossy : BOOLEAN,
                             meddled : SUBSET {"foreign", "stray", "restart"}]]
    /\ stage \in {"off", "args", "snapshot", "shuffle", "sender", "probe", "final",
                  "permute", "write", "ok", "error"}
    /\ before \in [Outcomes -> Nat]
    /\ Len(plan) <= scenario.trials
    /\ Range(plan) \cup Range(block) \subseteq [bit : Bits, gap : Range(scenario.gaps)]
    /\ index \in Nat
    /\ turn \in {"none", "sent", "answered", "broken", "refused"}
    /\ Len(latency) <= Len(plan)
    /\ Range(null) \subseteq Bits
    /\ Len(groups) <= Cardinality(Range(scenario.gaps))
    /\ counters \in [Outcomes -> Nat]
    /\ strays \in 0 .. scenario.faults
    /\ faults \in 0 .. scenario.faults
    /\ lossy \in BOOLEAN
    /\ meddled \subseteq {"foreign", "stray", "restart"}

\* Whatever the generator yields, traffic follows a plan that is balanced: both
\* bits of every gap equally often in the calibration and in every block.
PlanBalanced ==
    stage \in {"sender", "probe", "final", "permute", "write"} =>
        IsBalanced(plan, scenario.gaps, scenario.per, scenario.trials)

\* A campaign of which a turn timed out or failed never yields a report,
\* unless the server was restarted and other clients' turns made up for what
\* it forgot; a turn of an earlier client never makes up for one.  And a
\* campaign is found incomplete only for a loss of its own or because
\* somebody else moved the counters.
AcceptanceJust ==
    /\ \A n \in Jobs :
          reports[n].state # "absent" /\ reports[n].lossy =>
              {"foreign", "restart"} \subseteq reports[n].meddled
    /\ stage = "final" /\ ~Complete => lossy \/ meddled # {}

\* Over a channel that separates the bits by more than twice its jitter, high
\* for either bit and differently at each gap, every scored trial is decoded
\* as it was sent, unless a bit of its gap has no calibration sample (whose
\* mean is taken for 0), which takes options that ask for none or that list a
\* gap twice: calibration then ends before the plan's calibration trials do.
ChannelDecodes ==
    stage \in {"permute", "write"} /\ ~Control(job) =>
        \A k \in Scored :
            \/ Decoded(k) = plan[k].bit
            \/ /\ \E b \in Bits : Samples(plan, Prefix, plan[k].gap, b) = {}
               /\ \/ scenario.per = 0
                  \/ Cardinality(Range(scenario.gaps)) < Len(scenario.gaps)

\* The null hypothesis is drawn within each gap: a permutation never moves a
\* bit from one gap to another.
NullStratified ==
    stage = "permute" =>
        \A g \in Range(scenario.gaps) :
            Cardinality({k \in Scored : plan[k].gap = g /\ plan[k].bit = 1})
                = Cardinality({k \in Scored : plan[k].gap = g /\ null[k] = 1})
=============================================================================

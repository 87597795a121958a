--------------------------- MODULE CampaignProofs ---------------------------
(***************************************************************************)
(* Machine-checked proofs about the campaign client of the sequential lab  *)
(* and the script that runs it, for any options, any number of sessions    *)
(* and seeds, any number of faults and any behaviour of the other clients: *)
(* a campaign is accepted justly, its plan is balanced whatever the        *)
(* shuffles do, its trials are decoded as they were sent, and the null     *)
(* hypothesis is drawn within gaps.                                        *)
(*                                                                         *)
(* The client has two snapshots of counters that everybody moves and that  *)
(* a restart sets back.  The first invariant therefore speaks of what this *)
(* campaign's own turns have contributed at every moment in between.  The  *)
(* second one is about the client's own memory: the list under the         *)
(* shuffle, the plan, the latencies and the groups of the permutation      *)
(* test.                                                                   *)
(***************************************************************************)
EXTENDS SequentialLab, CountingProofs

Stages == {"off", "args", "snapshot", "shuffle", "sender", "probe", "final", "permute",
           "write", "ok", "error"}

\* Between the two snapshots.
Campaigning == {"shuffle", "sender", "probe", "final"}

Meddlers == {"foreign", "stray", "restart"}
ReportFiles == [state : {"absent", "partial", "whole"}, lossy : BOOLEAN,
                meddled : SUBSET Meddlers]

\* The part of the types that the counters need.
CountersTyped ==
    /\ scenario \in Scenarios
    /\ reports \in [Jobs -> ReportFiles]
    /\ stage \in Stages
    /\ before \in [Outcomes -> Nat]
    /\ counters \in [Outcomes -> Nat]
    /\ turn \in {"none", "sent", "answered", "broken", "refused"}
    /\ latency \in Seq(Int)
    /\ strays \in Nat
    /\ lossy \in BOOLEAN
    /\ meddled \in SUBSET Meddlers

\* A turn is under way only in a trial, and trials are counted exactly.
TurnExact ==
    /\ stage \notin {"sender", "probe"} => turn = "none"
    /\ stage \in {"off", "args", "snapshot", "shuffle", "ok", "error"} => latency = << >>
    /\ stage \in {"snapshot", "shuffle", "sender", "probe", "final"} => scenario.trials > 0
    /\ stage \in {"sender", "probe"} => Len(latency) < scenario.trials
    /\ stage = "final" => Len(latency) = scenario.trials

\* The turns of the campaign that were answered.
Done ==
    2 * Len(latency) + (IF stage = "probe" THEN 1 ELSE 0) + (IF turn = "answered" THEN 1 ELSE 0)

\* Without a restart the counters have only grown, and show every loss.
GrownOnly ==
    "restart" \notin meddled =>
        /\ \A o \in Outcomes : counters[o] >= before[o]
        /\ lossy => counters["timed_out"] + counters["failed"]
                        > before["timed_out"] + before["failed"]

\* After a restart the server has no dead client's turn left, and without
\* other clients it has counted completed turns of this campaign only.
OwnOnly ==
    ("restart" \in meddled /\ "foreign" \notin meddled) =>
        /\ strays = 0
        /\ counters["complete"] + (IF lossy THEN 1 ELSE 0) <= Done

\* Left alone, the counters have moved by exactly the answered turns.
Undisturbed ==
    (~lossy /\ meddled = {}) =>
        /\ counters["complete"] = before["complete"] + Done
        /\ counters["timed_out"] = before["timed_out"]
        /\ counters["failed"] = before["failed"]

MovedExact ==
    (stage \in Campaigning /\ turn \notin {"broken", "refused"}) =>
        /\ GrownOnly
        /\ OwnOnly
        /\ Undisturbed
        /\ lossy => Done >= 1

\* The excuse for a report of a campaign that lost a turn.
Excused(loss, what) == loss => {"foreign", "restart"} \subseteq what

\* What was accepted, and what was reported, was accepted justly.
AcceptedExact ==
    /\ stage \in {"permute", "write"} => Excused(lossy, meddled)
    /\ \A n \in Jobs : Excused(reports[n].lossy, reports[n].meddled)

\* Only a running script has a client.
ClientExact == script # "running" => stage = "off"

\* The inductive invariant.
IInv ==
    /\ CountersTyped
    /\ TurnExact
    /\ MovedExact
    /\ AcceptedExact
    /\ ClientExact

-----------------------------------------------------------------------------
\* The options' lengths are natural numbers.
LEMMA Trials ==
    ASSUME IInv
    PROVE  scenario.trials \in Nat /\ CalibrationLen(scenario.gaps, scenario.per) \in Nat
  <1>1. scenario \in Scenarios
    BY DEF IInv, CountersTyped
  <1>2. scenario.trials \in Nat /\ scenario.gaps \in Seq(Nat) /\ scenario.per \in Nat
    BY <1>1, ScenarioAssumption
  <1>3. Len(scenario.gaps) \in Nat
    BY <1>2
  <1>4. Len(scenario.gaps) * scenario.per \in Nat
    BY <1>2, <1>3
  <1> QED BY <1>2, <1>4 DEF CalibrationLen

\* The number of answered turns.
LEMMA DoneIsNat ==
    ASSUME IInv
    PROVE  Len(latency) \in Nat /\ Done \in Nat
  <1>1. latency \in Seq(Int)
    BY DEF IInv, CountersTyped
  <1>2. Len(latency) \in Nat
    BY <1>1
  <1> QED BY <1>2 DEF Done

\* The client ends.
LEMMA Exits ==
    ASSUME IInv, NEW status \in {"off", "ok", "error"}, Exit(status),
           scenario' = scenario, reports' \in [Jobs -> ReportFiles],
           \A n \in Jobs : Excused(reports'[n].lossy, reports'[n].meddled),
           counters' = counters, strays' \in Nat
    PROVE  CountersTyped' /\ TurnExact' /\ MovedExact' /\ AcceptedExact'
  <1>1. /\ stage' = status /\ before' = Zero /\ turn' = "none" /\ latency' = << >>
        /\ lossy' = FALSE /\ meddled' = {}
    BY DEF Exit
  <1>2. latency' \in Seq(Int)
    BY <1>1, EmptySeq
  <1>3. before' \in [Outcomes -> Nat]
    BY <1>1 DEF Zero
  <1>4. CountersTyped'
    BY <1>1, <1>2, <1>3 DEF IInv, CountersTyped, Stages
  <1>5. TurnExact' /\ MovedExact'
    BY <1>1 DEF TurnExact, MovedExact, Campaigning
  <1>6. AcceptedExact'
    BY <1>1 DEF AcceptedExact
  <1> QED BY <1>4, <1>5, <1>6

\* Steps that touch neither the counters nor the turns.
LEMMA Quiet ==
    ASSUME IInv,
           UNCHANGED <<scenario, reports, before, counters, turn, latency, lossy, meddled>>,
           strays' = strays,
           turn \notin {"broken", "refused"} \/ stage' = stage,
           \/ stage' = stage
           \/ stage \in {"ok", "error"} /\ stage' = "off"
           \/ stage = "off" /\ stage' = "args"
           \/ stage = "args" /\ stage' = "snapshot" /\ scenario.trials > 0
           \/ stage = "shuffle" /\ stage' = "sender"
    PROVE  CountersTyped' /\ TurnExact' /\ MovedExact' /\ AcceptedExact'
  <1>1. CountersTyped'
    BY DEF IInv, CountersTyped, Stages
  <1>2. TurnExact'
    <2>1. CASE stage = "shuffle" /\ stage' = "sender"
      <3>1. Len(latency) = 0
        BY <2>1, EmptySeq DEF IInv, TurnExact
      <3> QED BY <2>1, <3>1 DEF IInv, TurnExact
    <2>2. CASE ~(stage = "shuffle" /\ stage' = "sender")
      BY <2>2 DEF IInv, TurnExact
    <2> QED BY <2>1, <2>2
  <1>3. MovedExact'
    BY DEF IInv, MovedExact, GrownOnly, OwnOnly, Undisturbed, Done, Campaigning
  <1>4. AcceptedExact'
    BY DEF IInv, AcceptedExact
  <1> QED BY <1>1, <1>2, <1>3, <1>4

\* The conjuncts that a step of the client or of the server can disturb.
Core == CountersTyped /\ TurnExact /\ MovedExact /\ AcceptedExact

\* Up to the traffic.
LEMMA Preparing ==
    ASSUME IInv, CheckArgs \/ Snapshot \/ Shuffle \/ ExtendPlan \/ SendTurn
    PROVE  Core'
  <1> USE DEF Core, fixedVars, serverVars, ghostVars, planVars, nullVars
  <1>0. /\ reports \in [Jobs -> ReportFiles] /\ strays \in Nat
        /\ \A n \in Jobs : Excused(reports[n].lossy, reports[n].meddled)
    BY DEF IInv, CountersTyped, AcceptedExact
  <1>1. CASE CheckArgs
    <2>1. stage = "args" /\ turn = "none"
      BY <1>1 DEF CheckArgs, IInv, TurnExact
    <2>2. CASE ValidArgs
      <3>1. scenario.trials > 0
        BY <2>2, Trials DEF ValidArgs
      <3> QED BY <1>1, <2>1, <2>2, <3>1, Quiet DEF CheckArgs
    <2>3. CASE ~ValidArgs
      BY <1>0, <1>1, <2>3, Exits DEF CheckArgs
    <2> QED BY <2>2, <2>3
  <1>2. CASE Snapshot
    <2>1. CASE Exit("error")
      BY <1>0, <1>2, <2>1, Exits DEF Snapshot
    <2>2. CASE ~Exit("error")
      <3>1. /\ before' = counters /\ lossy' = FALSE /\ meddled' = {}
            /\ stage = "snapshot" /\ stage' = "shuffle"
            /\ UNCHANGED <<scenario, reports, counters, strays, turn, latency>>
        BY <1>2, <2>2 DEF Snapshot
      <3>2. turn' = "none" /\ latency' = << >> /\ Len(latency') = 0 /\ scenario.trials > 0
        BY <3>1, EmptySeq DEF IInv, TurnExact
      <3>3. Done' = 0
        BY <3>1, <3>2 DEF Done
      <3>4. CountersTyped'
        BY <3>1 DEF IInv, CountersTyped, Stages
      <3>5. TurnExact'
        BY <3>1, <3>2 DEF TurnExact
      <3>6. MovedExact'
        BY <3>1, <3>3 DEF MovedExact, GrownOnly, OwnOnly, Undisturbed, IInv, CountersTyped, Outcomes
      <3>7. AcceptedExact'
        BY <1>0, <3>1 DEF AcceptedExact
      <3> QED BY <3>4, <3>5, <3>6, <3>7
    <2> QED BY <2>1, <2>2
  <1>3. CASE Shuffle
    BY <1>3, Quiet DEF Shuffle
  <1>4. CASE ExtendPlan
    <2>1. stage = "shuffle" /\ turn = "none"
      BY <1>4 DEF ExtendPlan, IInv, TurnExact
    <2> QED BY <1>4, <2>1, Quiet DEF ExtendPlan
  <1>5. CASE SendTurn
    <2>1. /\ stage \in {"sender", "probe"} /\ turn = "none" /\ turn' = "sent"
          /\ UNCHANGED <<scenario, reports, stage, before, counters, latency, strays, lossy, meddled>>
      BY <1>5 DEF SendTurn
    <2>2. Done' = Done
      BY <2>1 DEF Done
    <2>3. CountersTyped' /\ TurnExact' /\ AcceptedExact'
      BY <2>1 DEF IInv, CountersTyped, TurnExact, AcceptedExact
    <2>4. MovedExact'
      BY <2>1, <2>2 DEF IInv, MovedExact, GrownOnly, OwnOnly, Undisturbed
    <2> QED BY <2>3, <2>4
  <1> QED BY <1>1, <1>2, <1>3, <1>4, <1>5

\* The counters stand still and no turn is answered while the client goes on.
LEMMA SameDone ==
    ASSUME IInv, stage \in Campaigning, turn \notin {"broken", "refused"}, Done' = Done,
           UNCHANGED <<before, counters, strays, lossy, meddled>>
    PROVE  MovedExact'
  BY DEF IInv, MovedExact, GrownOnly, OwnOnly, Undisturbed

\* Answers reach the client.
LEMMA Answered ==
    ASSUME IInv, SenderAnswered \/ ProbeAnswered \/ TurnFails
    PROVE  Core'
  <1> USE DEF Core, fixedVars, serverVars, ghostVars, planVars, nullVars
  <1>0. /\ reports \in [Jobs -> ReportFiles] /\ strays \in Nat
        /\ \A n \in Jobs : Excused(reports[n].lossy, reports[n].meddled)
    BY DEF IInv, CountersTyped, AcceptedExact
  <1>1. CASE SenderAnswered
    <2>1. /\ stage = "sender" /\ stage' = "probe" /\ turn = "answered" /\ turn' = "none"
          /\ UNCHANGED <<scenario, reports, before, counters, latency, strays, lossy, meddled>>
      BY <1>1 DEF SenderAnswered
    <2>2. Done' = Done
      BY <2>1, DoneIsNat DEF Done
    <2>3. CountersTyped' /\ TurnExact' /\ AcceptedExact'
      BY <2>1 DEF IInv, CountersTyped, TurnExact, AcceptedExact, Stages
    <2>4. MovedExact'
      BY <2>1, <2>2, SameDone DEF Campaigning
    <2> QED BY <2>3, <2>4
  <1>2. CASE ProbeAnswered
    <2>1. PICK x \in Latencies(plan[Len(latency) + 1]) : latency' = Append(latency, x)
      BY <1>2 DEF ProbeAnswered
    <2>2. x \in Int
      BY <2>1 DEF Latencies
    <2>3. latency' \in Seq(Int) /\ Len(latency') = Len(latency) + 1
      <3>1. latency \in Seq(Int)
        BY DEF IInv, CountersTyped
      <3> QED BY <2>1, <2>2, <3>1
    <2>4. /\ stage = "probe" /\ turn = "answered" /\ turn' = "none"
          /\ stage' = IF Len(latency') < scenario.trials THEN "sender" ELSE "final"
          /\ UNCHANGED <<scenario, reports, before, counters, strays, lossy, meddled>>
      BY <1>2 DEF ProbeAnswered
    <2>5. Done' = Done
      BY <2>3, <2>4, DoneIsNat DEF Done
    <2>6. CountersTyped' /\ AcceptedExact'
      BY <2>3, <2>4 DEF IInv, CountersTyped, AcceptedExact, Stages
    <2>7. TurnExact'
      <3>1. Len(latency) < scenario.trials /\ scenario.trials > 0
        BY <2>4 DEF IInv, TurnExact
      <3> QED BY <2>3, <2>4, <3>1, DoneIsNat, Trials DEF TurnExact
    <2>8. MovedExact'
      BY <2>4, <2>5, SameDone DEF Campaigning
    <2> QED BY <2>6, <2>7, <2>8
  <1>3. CASE TurnFails
    BY <1>0, <1>3, Exits DEF TurnFails
  <1> QED BY <1>1, <1>2, <1>3

\* A campaign that is accepted although it lost a turn saw the server restart
\* and other clients make up for what it forgot.
LEMMA AcceptedJustly ==
    ASSUME IInv, stage = "final", Complete
    PROVE  Excused(lossy, meddled)
  <1>1. SUFFICES ASSUME lossy
                 PROVE  "foreign" \in meddled /\ "restart" \in meddled
    BY DEF Excused
  <1>2. turn = "none" /\ Done = 2 * scenario.trials /\ scenario.trials \in Nat
    BY Trials, DoneIsNat DEF IInv, TurnExact, Done
  <1>3. GrownOnly /\ OwnOnly
    BY <1>2 DEF IInv, MovedExact, Campaigning
  <1>4. \A o \in Outcomes : counters[o] \in Nat /\ before[o] \in Nat
    BY DEF IInv, CountersTyped
  <1>5. "restart" \in meddled
    <2>1. SUFFICES ASSUME "restart" \notin meddled
                   PROVE  FALSE
      OBVIOUS
    <2>2. /\ counters["timed_out"] >= before["timed_out"]
          /\ counters["failed"] >= before["failed"]
          /\ counters["timed_out"] + counters["failed"] > before["timed_out"] + before["failed"]
      BY <1>1, <1>3, <2>1 DEF GrownOnly, Outcomes
    <2>3. Moved("timed_out") = 0 /\ Moved("failed") = 0
      BY DEF Complete
    <2> QED BY <1>4, <2>2, <2>3 DEF Moved, Outcomes
  <1>6. "foreign" \in meddled
    <2>1. SUFFICES ASSUME "foreign" \notin meddled
                   PROVE  FALSE
      OBVIOUS
    <2>2. counters["complete"] + 1 <= 2 * scenario.trials
      BY <1>1, <1>2, <1>3, <1>5, <2>1 DEF OwnOnly
    <2>3. Moved("complete") = scenario.trials * 2
      BY DEF Complete
    <2> QED BY <1>2, <1>4, <2>2, <2>3 DEF Moved, Outcomes
  <1> QED BY <1>5, <1>6

\* A campaign that nobody disturbed and that lost nothing is accepted.
LEMMA FoundComplete ==
    ASSUME IInv, stage = "final", ~lossy, meddled = {}
    PROVE  Complete
  <1>1. turn = "none" /\ Done = 2 * scenario.trials /\ scenario.trials \in Nat
    BY Trials, DoneIsNat DEF IInv, TurnExact, Done
  <1>2. Undisturbed
    BY <1>1 DEF IInv, MovedExact, Campaigning
  <1>3. \A o \in Outcomes : counters[o] \in Nat /\ before[o] \in Nat
    BY DEF IInv, CountersTyped
  <1>4. /\ counters["complete"] = before["complete"] + 2 * scenario.trials
        /\ counters["timed_out"] = before["timed_out"]
        /\ counters["failed"] = before["failed"]
    BY <1>1, <1>2 DEF Undisturbed
  <1> QED BY <1>1, <1>3, <1>4 DEF Complete, Moved, Outcomes

\* The second snapshot, the permutations and the report.
LEMMA Reporting ==
    ASSUME IInv, Accept \/ Permute \/ CreateReport \/ WriteReport
    PROVE  Core'
  <1> USE DEF Core, fixedVars, serverVars, ghostVars, planVars, nullVars
  <1>0. /\ reports \in [Jobs -> ReportFiles] /\ strays \in Nat
        /\ \A n \in Jobs : Excused(reports[n].lossy, reports[n].meddled)
    BY DEF IInv, CountersTyped, AcceptedExact
  <1>1. CASE Accept
    <2>1. CASE ~Complete
      BY <1>0, <1>1, <2>1, Exits DEF Accept
    <2>2. CASE Complete
      <3>1. /\ stage = "final" /\ stage' = "permute"
            /\ UNCHANGED <<scenario, reports, before, counters, strays, turn, latency, lossy, meddled>>
        BY <1>1, <2>2 DEF Accept
      <3>2. Excused(lossy, meddled)
        BY <2>2, <3>1, AcceptedJustly
      <3>3. CountersTyped'
        BY <3>1 DEF IInv, CountersTyped, Stages
      <3>4. TurnExact' /\ MovedExact'
        BY <3>1 DEF IInv, TurnExact, MovedExact, Campaigning
      <3>5. AcceptedExact'
        BY <1>0, <3>1, <3>2 DEF AcceptedExact
      <3> QED BY <3>3, <3>4, <3>5
    <2> QED BY <2>1, <2>2
  <1>2. CASE Permute
    BY <1>2, Quiet DEF Permute
  <1>3. CASE CreateReport
    <2>1. /\ stage = "permute" /\ stage' = "write"
          /\ reports' = [reports EXCEPT ![job] =
                            [state |-> "partial", lossy |-> lossy, meddled |-> meddled]]
          /\ UNCHANGED <<scenario, before, counters, strays, turn, latency, lossy, meddled>>
      BY <1>3 DEF CreateReport
    <2>2. Excused(lossy, meddled)
      BY <2>1 DEF IInv, AcceptedExact
    <2>3. [state |-> "partial", lossy |-> lossy, meddled |-> meddled] \in ReportFiles
      BY DEF IInv, CountersTyped, ReportFiles
    <2>4. reports' \in [Jobs -> ReportFiles]
      BY <1>0, <2>1, <2>3
    <2>5. ASSUME NEW n \in Jobs
          PROVE  Excused(reports'[n].lossy, reports'[n].meddled)
      <3>1. CASE n = job
        BY <1>0, <2>1, <2>2, <3>1
      <3>2. CASE n # job
        BY <1>0, <2>1, <3>2
      <3> QED BY <3>1, <3>2
    <2>6. CountersTyped'
      BY <2>1, <2>4 DEF IInv, CountersTyped, Stages
    <2>7. TurnExact' /\ MovedExact'
      BY <2>1 DEF IInv, TurnExact, MovedExact, Campaigning
    <2>8. AcceptedExact'
      BY <2>1, <2>2, <2>5 DEF AcceptedExact
    <2> QED BY <2>6, <2>7, <2>8
  <1>4. CASE WriteReport
    <2>1. reports' = [reports EXCEPT ![job].state = "whole"]
      BY <1>4 DEF WriteReport
    <2>2. reports' \in [Jobs -> ReportFiles]
      BY <1>0, <2>1 DEF ReportFiles
    <2>3. ASSUME NEW n \in Jobs
          PROVE  reports'[n].lossy = reports[n].lossy /\ reports'[n].meddled = reports[n].meddled
      BY <1>0, <2>1 DEF ReportFiles
    <2>4. \A n \in Jobs : Excused(reports'[n].lossy, reports'[n].meddled)
      BY <1>0, <2>3
    <2> QED BY <1>0, <1>4, <2>2, <2>4, Exits DEF WriteReport
  <1> QED BY <1>1, <1>2, <1>3, <1>4

-----------------------------------------------------------------------------
(* The server and what can go wrong *)

\* Counting moves one counter by one.
LEMMA Counts ==
    ASSUME IInv, NEW o \in Outcomes, Count(o)
    PROVE  /\ counters' \in [Outcomes -> Nat]
           /\ counters'[o] = counters[o] + 1
           /\ \A p \in Outcomes \ {o} : counters'[p] = counters[p]
           /\ \A p \in Outcomes : counters[p] \in Nat /\ counters'[p] >= counters[p]
  BY DEF IInv, CountersTyped, Count

\* The campaign's own turn is run and counted.
LEMMA Served ==
    ASSUME IInv, Serve
    PROVE  Core'
  <1> USE DEF Core, fixedVars, planVars, nullVars
  <1>1. /\ turn = "sent" /\ turn' = "answered"
        /\ UNCHANGED <<scenario, reports, stage, before, latency, strays, meddled>>
    BY DEF Serve
  <1>2. stage \in {"sender", "probe"}
    BY <1>1 DEF IInv, TurnExact
  <1>3. Done' = Done + 1 /\ Done \in Nat
    BY <1>1, DoneIsNat DEF Done
  <1>4. GrownOnly /\ OwnOnly /\ Undisturbed /\ (lossy => Done >= 1)
    BY <1>1, <1>2 DEF IInv, MovedExact, Campaigning
  <1>5. PICK o \in Outcomes :
            Count(o) /\ (IF o = "complete" THEN lossy' = lossy ELSE lossy' = TRUE)
    BY DEF Serve, Outcomes
  <1>6. /\ counters' \in [Outcomes -> Nat]
        /\ counters'[o] = counters[o] + 1
        /\ \A p \in Outcomes \ {o} : counters'[p] = counters[p]
        /\ \A p \in Outcomes : counters[p] \in Nat /\ counters'[p] >= counters[p]
    BY <1>5, Counts
  <1>7. lossy \in BOOLEAN /\ lossy' \in BOOLEAN
    BY <1>5 DEF IInv, CountersTyped
  <1>8. CountersTyped'
    BY <1>1, <1>6, <1>7 DEF IInv, CountersTyped
  <1>9. TurnExact' /\ AcceptedExact'
    BY <1>1, <1>2 DEF IInv, TurnExact, AcceptedExact
  <1>10. \A p \in Outcomes : before[p] \in Nat
    BY DEF IInv, CountersTyped
  <1>11. CASE o = "complete"
    <2>1. /\ counters'["complete"] = counters["complete"] + 1 /\ lossy' = lossy
          /\ counters'["timed_out"] = counters["timed_out"]
          /\ counters'["failed"] = counters["failed"]
      BY <1>5, <1>6, <1>11 DEF Outcomes
    <2>2. GrownOnly'
      BY <1>1, <1>4, <1>6, <1>10, <2>1 DEF GrownOnly, Outcomes
    <2>3. OwnOnly'
      BY <1>1, <1>3, <1>4, <1>6, <2>1 DEF OwnOnly, Outcomes
    <2>4. Undisturbed'
      BY <1>1, <1>3, <1>4, <1>6, <1>10, <2>1 DEF Undisturbed, Outcomes
    <2>5. MovedExact'
      BY <1>3, <2>2, <2>3, <2>4 DEF MovedExact
    <2> QED BY <1>8, <1>9, <2>5
  <1>12. CASE o # "complete"
    <2>1. /\ counters'["complete"] = counters["complete"] /\ lossy' = TRUE
          /\ counters'["timed_out"] + counters'["failed"]
                = counters["timed_out"] + counters["failed"] + 1
      BY <1>5, <1>6, <1>12 DEF Outcomes
    <2>2. GrownOnly'
      <3>1. SUFFICES ASSUME "restart" \notin meddled
                     PROVE  /\ \A p \in Outcomes : counters'[p] >= before[p]
                            /\ counters'["timed_out"] + counters'["failed"]
                                   > before["timed_out"] + before["failed"]
        BY <1>1 DEF GrownOnly
      <3>2. \A p \in Outcomes : counters[p] >= before[p]
        BY <1>4, <3>1 DEF GrownOnly
      <3>3. \A p \in Outcomes : counters'[p] \in Nat
        BY <1>6
      <3> QED BY <1>6, <1>10, <2>1, <3>2, <3>3 DEF Outcomes
    <2>3. OwnOnly'
      BY <1>1, <1>3, <1>4, <1>6, <2>1 DEF OwnOnly, Outcomes
    <2>4. Undisturbed'
      BY <2>1 DEF Undisturbed
    <2>5. MovedExact'
      BY <1>3, <2>2, <2>3, <2>4 DEF MovedExact
    <2> QED BY <1>8, <1>9, <2>5
  <1> QED BY <1>11, <1>12

\* Somebody else's turn is counted.
LEMMA Meddled ==
    ASSUME IInv, NEW o \in Outcomes, Count(o),
           UNCHANGED <<scenario, reports, stage, before, turn, latency, lossy>>,
           \/ strays' = strays /\ meddled' = meddled \cup {"foreign"}
           \/ strays > 0 /\ strays' = strays - 1 /\ meddled' = meddled \cup {"stray"}
    PROVE  Core'
  <1> USE DEF Core
  <1>1. /\ counters' \in [Outcomes -> Nat]
        /\ \A p \in Outcomes : counters[p] \in Nat /\ counters'[p] >= counters[p]
    BY Counts
  <1>2. \A p \in Outcomes : before[p] \in Nat /\ counters'[p] \in Nat
    BY <1>1 DEF IInv, CountersTyped
  <1>3. CountersTyped'
    <2>1. strays' \in Nat
      BY DEF IInv, CountersTyped
    <2>2. meddled' \in SUBSET Meddlers
      BY DEF IInv, CountersTyped, Meddlers
    <2> QED BY <1>1, <2>1, <2>2 DEF IInv, CountersTyped
  <1>4. TurnExact'
    BY DEF IInv, TurnExact
  <1>5. AcceptedExact'
    BY DEF IInv, AcceptedExact, Excused
  <1>6. MovedExact'
    <2>1. SUFFICES ASSUME stage \in Campaigning, turn \notin {"broken", "refused"}
                   PROVE  GrownOnly' /\ OwnOnly' /\ Undisturbed' /\ (lossy => Done >= 1)
      BY DEF MovedExact, Done
    <2>2. GrownOnly /\ OwnOnly /\ (lossy => Done >= 1)
      BY <2>1 DEF IInv, MovedExact
    <2>3. GrownOnly'
      <3>1. SUFFICES ASSUME "restart" \notin meddled
                     PROVE  /\ \A p \in Outcomes : counters'[p] >= before[p]
                            /\ lossy => counters'["timed_out"] + counters'["failed"]
                                            > before["timed_out"] + before["failed"]
        BY DEF GrownOnly
      <3>2. /\ \A p \in Outcomes : counters[p] >= before[p]
            /\ lossy => counters["timed_out"] + counters["failed"]
                            > before["timed_out"] + before["failed"]
        BY <2>2, <3>1 DEF GrownOnly
      <3> QED BY <1>1, <1>2, <3>2 DEF Outcomes
    <2>4. OwnOnly'
      <3>1. SUFFICES ASSUME "restart" \in meddled', "foreign" \notin meddled'
                     PROVE  FALSE
        BY DEF OwnOnly
      <3>2. strays > 0 /\ "restart" \in meddled /\ "foreign" \notin meddled
        BY <3>1
      <3>3. strays = 0
        BY <2>2, <3>2 DEF OwnOnly
      <3> QED BY <3>2, <3>3
    <2>5. Undisturbed'
      BY DEF Undisturbed
    <2> QED BY <2>2, <2>3, <2>4, <2>5
  <1> QED BY <1>3, <1>4, <1>5, <1>6

\* The server restarts.
LEMMA Restarted ==
    ASSUME IInv, Restart
    PROVE  Core'
  <1> USE DEF Core, fixedVars, planVars, nullVars
  <1>1. /\ counters' = Zero /\ strays' = 0 /\ meddled' = meddled \cup {"restart"}
        /\ turn' = IF turn = "sent" THEN "broken" ELSE turn
        /\ UNCHANGED <<scenario, reports, stage, before, latency, lossy>>
    BY DEF Restart
  <1>2. counters' \in [Outcomes -> Nat] /\ counters'["complete"] = 0
    BY <1>1 DEF Zero, Outcomes
  <1>3. CountersTyped'
    BY <1>1, <1>2 DEF IInv, CountersTyped, Meddlers
  <1>4. TurnExact'
    BY <1>1 DEF IInv, TurnExact
  <1>5. AcceptedExact'
    BY <1>1 DEF IInv, AcceptedExact, Excused
  <1>6. MovedExact'
    <2>1. SUFFICES ASSUME stage \in Campaigning, turn' \notin {"broken", "refused"}
                   PROVE  GrownOnly' /\ OwnOnly' /\ Undisturbed' /\ (lossy => Done' >= 1)
      BY <1>1 DEF MovedExact
    <2>2. turn' = turn /\ Done' = Done
      BY <1>1, <2>1 DEF Done
    <2>3. lossy => Done >= 1
      BY <2>1, <2>2 DEF IInv, MovedExact
    <2>4. GrownOnly' /\ Undisturbed'
      BY <1>1 DEF GrownOnly, Undisturbed
    <2>5. OwnOnly'
      BY <1>1, <1>2, <2>2, <2>3, DoneIsNat DEF OwnOnly
    <2> QED BY <2>2, <2>3, <2>4, <2>5
  <1> QED BY <1>3, <1>4, <1>5, <1>6

\* A connection breaks or the turn is refused.
LEMMA Cut ==
    ASSUME IInv, Break \/ Throttle
    PROVE  Core'
  <1> USE DEF Core, fixedVars, serverVars, ghostVars, planVars, nullVars
  <1>1. /\ turn \in {"sent", "answered"} /\ turn' \in {"broken", "refused"}
        /\ UNCHANGED <<scenario, reports, stage, before, latency, counters, lossy, meddled>>
    BY DEF Break, Throttle
  <1>2. strays' \in Nat
    BY DEF Break, Throttle, IInv, CountersTyped
  <1>3. CountersTyped'
    BY <1>1, <1>2 DEF IInv, CountersTyped
  <1>4. TurnExact' /\ MovedExact' /\ AcceptedExact'
    BY <1>1 DEF IInv, TurnExact, MovedExact, AcceptedExact
  <1> QED BY <1>3, <1>4

-----------------------------------------------------------------------------
(* The specification *)

\* Every step of the client and of its environment.
LEMMA CoreKept ==
    ASSUME IInv, ClientStep \/ EnvironmentStep
    PROVE  Core'
  <1>0. /\ reports \in [Jobs -> ReportFiles] /\ strays \in Nat
        /\ \A n \in Jobs : Excused(reports[n].lossy, reports[n].meddled)
    BY DEF IInv, CountersTyped, AcceptedExact
  <1>1. CASE ClientStep
    BY <1>1, Preparing, Answered, Reporting DEF ClientStep
  <1>2. CASE Serve \/ Break \/ Throttle \/ Restart
    BY <1>2, Served, Cut, Restarted
  <1>3. CASE StepFails
    BY <1>0, <1>3, Exits DEF StepFails, fixedVars, serverVars, Core
  <1>4. CASE Foreign
    <2>1. PICK o \in Outcomes : Count(o)
      BY <1>4 DEF Foreign
    <2> QED BY <1>4, <2>1, Meddled DEF Foreign, fixedVars, clientVars
  <1>5. CASE ServeStray
    <2>1. PICK o \in Outcomes : Count(o)
      BY <1>5 DEF ServeStray
    <2> QED BY <1>5, <2>1, Meddled DEF ServeStray, fixedVars, clientVars
  <1> QED BY <1>1, <1>2, <1>3, <1>4, <1>5 DEF EnvironmentStep

\* Without a running script there is no client to take a step.
LEMMA NoClient ==
    ASSUME IInv, ClientStep \/ EnvironmentStep, script # "running"
    PROVE  stage' = "off"
  <1>1. stage = "off" /\ turn = "none"
    BY DEF IInv, ClientExact, TurnExact
  <1>2. ~ClientStep
    BY <1>1 DEF ClientStep, CheckArgs, Snapshot, Shuffle, ExtendPlan, SendTurn, SenderAnswered,
           ProbeAnswered, TurnFails, Accept, Permute, CreateReport, WriteReport
  <1> QED BY <1>1, <1>2 DEF EnvironmentStep, Serve, Break, Throttle, StepFails, Foreign,
             ServeStray, Restart, clientVars

\* The script.
LEMMA ScriptKeeps ==
    ASSUME IInv, ScriptStep \/ Killed \/ Rerun \/ Over \/ UNCHANGED allVars
    PROVE  IInv'
  <1>0. /\ reports \in [Jobs -> ReportFiles] /\ strays \in Nat
        /\ \A n \in Jobs : Excused(reports[n].lossy, reports[n].meddled)
    BY DEF IInv, CountersTyped, AcceptedExact
  <1>1. CASE ScriptStep \/ Rerun \/ Over \/ UNCHANGED allVars
    <2>1. /\ UNCHANGED <<scenario, reports, before, counters, turn, latency, lossy, meddled>>
          /\ strays' = strays
      BY <1>1 DEF ScriptStep, StartJob, SkipJob, JobEnds, Finish, Rerun, Over, Keep, allVars, vars,
         fixedVars, clientVars, serverVars, ghostVars
    <2>2. \/ stage' = stage
          \/ stage \in {"ok", "error"} /\ stage' = "off"
          \/ stage = "off" /\ stage' = "args"
      BY <1>1 DEF ScriptStep, StartJob, SkipJob, JobEnds, Finish, Rerun, Over, allVars, vars,
         clientVars, IInv, ClientExact
    <2>3. turn \notin {"broken", "refused"} \/ stage' = stage
      BY <2>2 DEF IInv, TurnExact
    <2>4. CountersTyped' /\ TurnExact' /\ MovedExact' /\ AcceptedExact'
      BY <2>1, <2>2, <2>3, Quiet
    <2>5. ClientExact'
      BY <1>1 DEF ScriptStep, StartJob, SkipJob, JobEnds, Finish, Rerun, Over, allVars, vars,
         clientVars, IInv, ClientExact
    <2> QED BY <2>4, <2>5 DEF IInv
  <1>2. CASE Killed
    <2>1. strays' \in Nat
      BY <1>0, <1>2 DEF Killed
    <2>2. CountersTyped' /\ TurnExact' /\ MovedExact' /\ AcceptedExact'
      BY <1>0, <1>2, <2>1, Exits DEF Killed, fixedVars
    <2>3. ClientExact'
      BY <1>2 DEF Killed, Exit, ClientExact
    <2> QED BY <2>2, <2>3 DEF IInv
  <1> QED BY <1>1, <1>2

\* The first invariant holds at the start.
LEMMA InitIInv ==
    ASSUME ScriptInit
    PROVE  IInv
  <1> USE DEF ScriptInit, Init
  <1>1. latency \in Seq(Int)
    BY EmptySeq
  <1>2. reports \in [Jobs -> ReportFiles] /\ \A n \in Jobs : ~reports[n].lossy
    BY DEF NoReport, ReportFiles
  <1>3. before \in [Outcomes -> Nat] /\ counters \in [Outcomes -> Nat]
    BY DEF Zero
  <1>4. CountersTyped
    BY <1>1, <1>2, <1>3 DEF CountersTyped, Stages
  <1>5. TurnExact /\ MovedExact /\ ClientExact
    BY DEF TurnExact, MovedExact, Campaigning, ClientExact
  <1>6. AcceptedExact
    BY <1>2 DEF AcceptedExact, Excused
  <1> QED BY <1>4, <1>5, <1>6 DEF IInv

\* Every step preserves the first invariant.
LEMMA NextIInv ==
    ASSUME IInv, [Next]_allVars
    PROVE  IInv'
  <1>1. CASE (ClientStep \/ EnvironmentStep) /\ UNCHANGED script
    <2>1. Core'
      BY <1>1, CoreKept
    <2>2. ClientExact'
      BY <1>1, NoClient DEF ClientExact
    <2> QED BY <2>1, <2>2 DEF IInv, Core
  <1>2. CASE ScriptStep \/ Killed \/ Rerun \/ Over \/ UNCHANGED allVars
    BY <1>2, ScriptKeeps
  <1> QED BY <1>1, <1>2 DEF Next

\* The inductive invariant holds in every reachable state, whatever the other
\* clients, dead clients' turns, restarts and reruns do to the counters.
THEOREM Invariance == Spec => []IInv
  BY InitIInv, NextIInv, PTL DEF Spec

\* A report of a campaign that lost a turn exists only if the server restarted
\* and other clients made up for what it forgot; and a campaign is found
\* incomplete only for a loss or because somebody else moved the counters.
THEOREM AcceptanceCorrect == Spec => []AcceptanceJust
  <1>1. ASSUME IInv
        PROVE  AcceptanceJust
    <2>1. ASSUME NEW n \in Jobs, reports[n].lossy
          PROVE  {"foreign", "restart"} \subseteq reports[n].meddled
      BY <1>1, <2>1 DEF IInv, AcceptedExact, Excused
    <2>2. ASSUME stage = "final", ~Complete
          PROVE  lossy \/ meddled # {}
      BY <1>1, <2>2, FoundComplete
    <2> QED BY <2>1, <2>2 DEF AcceptanceJust
  <1> QED BY <1>1, Invariance, PTL

-----------------------------------------------------------------------------
(* The plan, the latencies and the permuted bits *)

\* The client has its plan and works through it.
Working == {"sender", "probe", "final", "permute", "write"}

\* The client has nothing of a campaign in its memory.
Empty == {"off", "args", "snapshot", "ok", "error"}

\* The plan is being made: the list under the shuffle is the calibration list
\* or, behind the calibration trials and some whole blocks, a block.
Making ==
    /\ Len(plan) < scenario.trials
    /\ index \in 0 .. Len(block)
    /\ \/ plan = << >> /\ IsShuffle(block, scenario.gaps, scenario.per)
       \/ \E m \in 0 .. scenario.trials :
             /\ IsBeginning(plan, scenario.gaps, scenario.per, m)
             /\ IsShuffle(block, scenario.gaps, 1)

\* The plan has been made.
Made ==
    /\ plan \in Seq(TrialsOf(scenario.gaps))
    /\ Len(plan) = scenario.trials
    /\ IsBalanced(plan, scenario.gaps, scenario.per, scenario.trials)
    /\ block = << >>

\* Every probe so far had a latency of its trial.
Measured ==
    /\ Len(latency) <= scenario.trials
    /\ \A k \in 1 .. Len(latency) : latency[k] \in Latencies(plan[k])

\* The scored trials of a gap.
OfGap(g) == {k \in Scored : plan[k].gap = g}

\* The bits are permuted within gaps: every group has the places of one gap.
Permuting ==
    /\ Len(latency) = scenario.trials
    /\ null \in [1 .. scenario.trials -> Bits]
    /\ groups \in Seq(Seq(Nat))
    /\ Len(groups) <= Cardinality(Range(scenario.gaps))
    /\ \A n \in DOMAIN groups : \E g \in Range(scenario.gaps) :
          \A k \in DOMAIN groups[n] : groups[n][k] \in OfGap(g)
    /\ index \in Nat
    /\ groups # << >> => index <= Len(groups[1])
    /\ \A g \in Range(scenario.gaps) :
          Cardinality({k \in OfGap(g) : plan[k].bit = 1})
              = Cardinality({k \in OfGap(g) : null[k] = 1})

\* What the client has in its memory.
MemoryExact ==
    /\ slower \in [Range(scenario.gaps) -> Bits]
    /\ stage \in {"snapshot", "shuffle"} \cup Working => ValidArgs
    /\ stage \in Empty => plan = << >> /\ block = << >> /\ index = 0
    /\ stage = "shuffle" => Making
    /\ stage \in Working => Made /\ Measured
    /\ stage \in {"sender", "probe", "final"} => index = 0
    /\ stage \in {"permute", "write"} => Permuting
    /\ stage \notin {"permute", "write"} => null = << >> /\ groups = << >>

\* Every turn of a dead client was paid for with a fault, and the script is
\* within its jobs.
ScriptExact ==
    /\ job \in 1 .. 2 * Rounds + 1
    /\ script = "running" => job \in Jobs
    /\ strays \in Nat /\ faults \in Nat
    /\ strays + faults <= scenario.faults

\* The second inductive invariant, on top of the first.
PInv == MemoryExact /\ ScriptExact

\* The options.
LEMMA Options ==
    ASSUME IInv
    PROVE  /\ scenario.gaps \in Seq(Nat) /\ scenario.per \in Nat /\ scenario.trials \in Nat
           /\ scenario.faults \in Nat /\ scenario.jitter \in {0, 1}
           /\ SessionSlots \in Nat /\ Rounds \in Nat
  <1>1. scenario \in Scenarios
    BY DEF IInv, CountersTyped
  <1> QED BY <1>1, ScenarioAssumption

\* A step that leaves the client's memory alone.
LEMMA MemoryKept ==
    ASSUME MemoryExact, UNCHANGED <<scenario, slower, job, stage, plan, block, index, latency,
                                    null, groups>>
    PROVE  MemoryExact'
  <1>1. /\ ValidArgs' <=> ValidArgs
        /\ Making' <=> Making
        /\ Made' <=> Made
        /\ Measured' <=> Measured
        /\ Permuting' <=> Permuting
    <2>1. ValidArgs' <=> ValidArgs
      BY DEF ValidArgs
    <2>2. Making' <=> Making
      BY DEF Making
    <2>3. Made' <=> Made
      BY DEF Made
    <2>4. Measured' <=> Measured
      BY DEF Measured, Latencies, Control
    <2>5. Permuting' <=> Permuting
      BY DEF Permuting, OfGap, Scored, Prefix
    <2> QED BY <2>1, <2>2, <2>3, <2>4, <2>5
  <1> QED BY <1>1 DEF MemoryExact

\* A client that is not there, or has only just started, or has ended.
LEMMA MemoryEmpty ==
    ASSUME MemoryExact, UNCHANGED <<scenario, slower>>, stage' \in {"off", "args", "ok", "error"},
           plan' = << >>, block' = << >>, index' = 0, null' = << >>, groups' = << >>
    PROVE  MemoryExact'
  BY DEF MemoryExact, Working, Empty

\* The client ends, and its memory is freed.
LEMMA MemoryFreed ==
    ASSUME MemoryExact, UNCHANGED <<scenario, slower>>, NEW status \in {"off", "ok", "error"},
           Exit(status)
    PROVE  MemoryExact'
  BY MemoryEmpty DEF Exit

\* The script's own steps are taken while there is no client at work.
LEMMA MemoryIdle ==
    ASSUME MemoryExact, UNCHANGED <<scenario, slower, plan, block, index, null, groups>>,
           stage \in {"off", "ok", "error"}, stage' \in {"off", "args"}
    PROVE  MemoryExact'
  <1>1. plan = << >> /\ block = << >> /\ index = 0 /\ null = << >> /\ groups = << >>
    BY DEF MemoryExact, Empty
  <1> QED BY <1>1, MemoryEmpty

\* The arguments are checked.
LEMMA MemoryChecked ==
    ASSUME MemoryExact, CheckArgs
    PROVE  MemoryExact'
  <1>1. CASE ValidArgs
    <2>1. /\ stage = "args" /\ stage' = "snapshot"
          /\ UNCHANGED <<scenario, slower, plan, block, index, null, groups>>
      BY <1>1 DEF CheckArgs, planVars, nullVars, fixedVars
    <2>2. ValidArgs'
      BY <1>1, <2>1 DEF ValidArgs
    <2> QED BY <2>1, <2>2 DEF MemoryExact, Working, Empty
  <1>2. CASE ~ValidArgs
    BY <1>2, MemoryFreed DEF CheckArgs, fixedVars
  <1> QED BY <1>1, <1>2

\* The first list to be shuffled.
LEMMA MemorySnapshot ==
    ASSUME IInv, MemoryExact, Snapshot
    PROVE  MemoryExact'
  <1>1. CASE stage' = "shuffle"
    <2>1. /\ stage = "snapshot" /\ UNCHANGED <<scenario, slower, plan, null, groups>>
          /\ block' = CalibrationList(scenario.gaps, scenario.per)
          /\ index' = Len(CalibrationList(scenario.gaps, scenario.per))
      BY <1>1 DEF Snapshot, ToShuffle, nullVars, fixedVars, Exit
    <2>2. ValidArgs /\ plan = << >> /\ null = << >> /\ groups = << >>
      BY <2>1 DEF MemoryExact, Empty
    <2>3. IsShuffle(block', scenario.gaps, scenario.per)
      BY <2>1, Options, ListIsShuffle
    <2>4. Len(block') \in Nat /\ index' \in 0 .. Len(block')
      <3>1. Len(block') = CalibrationLen(scenario.gaps, scenario.per)
        BY <2>3 DEF IsShuffle
      <3>2. Len(block') \in Nat
        BY <3>1, Options, GapsShape
      <3> QED BY <2>1, <3>2
    <2>5. Len(plan) < scenario.trials
      <3>1. CalibrationLen(scenario.gaps, scenario.per) \in Nat /\ scenario.trials \in Nat
        BY Options, GapsShape
      <3>2. scenario.trials > CalibrationLen(scenario.gaps, scenario.per)
        BY <2>2 DEF ValidArgs
      <3>3. Len(plan) = 0
        BY <2>2
      <3> QED BY <3>1, <3>2, <3>3
    <2>6. Making' /\ ValidArgs'
      BY <2>1, <2>2, <2>3, <2>4, <2>5 DEF Making, ValidArgs
    <2> QED BY <1>1, <2>1, <2>2, <2>6 DEF MemoryExact, Working, Empty
  <1>2. CASE stage' # "shuffle"
    BY <1>2, MemoryFreed DEF Snapshot, fixedVars
  <1> QED BY <1>1, <1>2

\* One swap.
LEMMA MemoryShuffled ==
    ASSUME IInv, MemoryExact, Shuffle
    PROVE  MemoryExact'
  <1>1. /\ stage = "shuffle" /\ index > 1 /\ index' = index - 1
        /\ UNCHANGED <<scenario, slower, stage, plan, null, groups>>
    BY DEF Shuffle, fixedVars, nullVars
  <1>2. PICK j \in 1 .. index : block' = Swap(block, index, j)
    BY DEF Shuffle
  <1>3. Making
    BY <1>1 DEF MemoryExact
  <1>4. PICK per : /\ IsShuffle(block, scenario.gaps, per)
                   /\ \/ per = scenario.per /\ plan = << >>
                      \/ /\ per = 1
                         /\ \E m \in 0 .. scenario.trials :
                               IsBeginning(plan, scenario.gaps, scenario.per, m)
    BY <1>3 DEF Making
  <1>5. Len(block) \in Nat /\ index \in 1 .. Len(block) /\ j \in 1 .. Len(block)
    <2>1. block \in Seq(TrialsOf(scenario.gaps))
      BY <1>4 DEF IsShuffle
    <2>2. Len(block) \in Nat
      BY <2>1
    <2>3. index \in 0 .. Len(block)
      BY <1>3 DEF Making
    <2> QED BY <1>1, <2>2, <2>3
  <1>6. IsShuffle(block', scenario.gaps, per)
    BY <1>2, <1>4, <1>5, SwapIsShuffle
  <1>7. index' \in 0 .. Len(block')
    <2>1. Len(block') = Len(block)
      BY <1>4, <1>6 DEF IsShuffle
    <2> QED BY <1>1, <1>5, <2>1
  <1>8. Making'
    BY <1>1, <1>3, <1>4, <1>6, <1>7 DEF Making
  <1>9. ValidArgs'
    BY <1>1 DEF MemoryExact, ValidArgs
  <1> QED BY <1>1, <1>8, <1>9 DEF MemoryExact, Working, Empty

\* What is taken of a block that fits, and of one that does not.
LEMMA TakenShape ==
    ASSUME NEW T, NEW s \in Seq(T), NEW room \in Nat
    PROVE  /\ Len(s) < room => Taken(s, room) = s
           /\ ~(Len(s) < room) => Taken(s, room) = SubSeq(s, 1, room)
  <1>1. SubSeq(s, 1, Len(s)) = s
    OBVIOUS
  <1> QED BY <1>1 DEF Taken

\* A list goes to the end of the plan.
LEMMA MemoryExtended ==
    ASSUME IInv, MemoryExact, ExtendPlan
    PROVE  MemoryExact'
  <1>1. /\ stage = "shuffle"
        /\ plan' = plan \o Taken(block, scenario.trials - Len(plan))
        /\ UNCHANGED <<scenario, slower, job, latency, null, groups>>
    BY DEF ExtendPlan, fixedVars, nullVars
  <1>2. Making /\ ValidArgs /\ null = << >> /\ groups = << >> /\ latency = << >>
    BY <1>1 DEF MemoryExact, IInv, TurnExact
  <1>3. PICK gaps \in Seq(Nat) : gaps = scenario.gaps /\ gaps # << >>
    BY <1>2, Options DEF ValidArgs
  <1>4. PICK per \in Nat : per = scenario.per
    BY Options
  <1>5. PICK trials \in Nat : trials = scenario.trials
    BY Options
  <1>6. ValidArgs'
    BY <1>1, <1>2 DEF ValidArgs
  <1>7. CalibrationLen(gaps, per) \in Nat /\ CalibrationLen(gaps, per) < trials
    BY <1>2, <1>3, <1>4, <1>5, GapsShape DEF ValidArgs
  \* There is still room: a block is next.
  <1>8. ASSUME NEW m \in 0 .. trials, IsBeginning(plan', gaps, per, m), Len(plan') \in Nat,
               Len(plan') < trials
        PROVE  MemoryExact'
    <2>1. /\ stage' = "shuffle" /\ block' = CalibrationList(gaps, 1)
          /\ index' = Len(CalibrationList(gaps, 1))
      BY <1>1, <1>3, <1>5, <1>8 DEF ExtendPlan, ToShuffle, Combinations
    <2>2. IsShuffle(block', gaps, 1)
      BY <2>1, ListIsShuffle
    <2>3. index' \in 0 .. Len(block')
      <3>1. block' \in Seq(TrialsOf(gaps))
        BY <2>2 DEF IsShuffle
      <3>2. Len(block') \in Nat
        BY <3>1
      <3> QED BY <2>1, <3>2
    <2>4. Making'
      BY <1>1, <1>3, <1>4, <1>5, <1>8, <2>2, <2>3 DEF Making
    <2> QED BY <1>1, <1>2, <1>6, <2>1, <2>4 DEF MemoryExact, Working, Empty
  \* There is none: traffic begins.
  <1>9. ASSUME plan' \in Seq(TrialsOf(gaps)), Len(plan') = trials, IsBalanced(plan', gaps, per, trials)
        PROVE  MemoryExact'
    <2>1. stage' = "sender" /\ block' = << >> /\ index' = 0
      BY <1>1, <1>5, <1>9 DEF ExtendPlan, ToShuffle
    <2>2. Made'
      BY <1>1, <1>3, <1>4, <1>5, <1>9, <2>1 DEF Made
    <2>3. Measured'
      <3>1. Len(latency') = 0
        BY <1>1, <1>2
      <3> QED BY <1>1, <1>5, <3>1 DEF Measured
    <2> QED BY <1>1, <1>2, <1>6, <2>1, <2>2, <2>3 DEF MemoryExact, Working, Empty
  <1>10. CASE plan = << >> /\ IsShuffle(block, gaps, per)
    <2>1. block \in Seq(TrialsOf(gaps)) /\ Len(block) = CalibrationLen(gaps, per)
      BY <1>10 DEF IsShuffle
    <2>2. Len(plan) = 0 /\ trials - Len(plan) = trials
      BY <1>10
    <2>3. Taken(block, trials) = block
      BY <1>7, <2>1, TakenShape
    <2>4. plan' = block
      <3>1. plan' = << >> \o block
        BY <1>1, <1>5, <1>10, <2>2, <2>3
      <3> QED BY <2>1, <3>1
    <2>5. IsBeginning(plan', gaps, per, 0)
      BY <1>10, <2>4, CalibrationBegins
    <2>6. 0 \in 0 .. trials
      OBVIOUS
    <2> QED BY <1>7, <1>8, <2>1, <2>4, <2>5, <2>6
  <1>11. CASE \E m \in 0 .. trials : IsBeginning(plan, gaps, per, m) /\ IsShuffle(block, gaps, 1)
    <2>1. PICK m \in 0 .. trials : IsBeginning(plan, gaps, per, m) /\ IsShuffle(block, gaps, 1)
      BY <1>11
    <2>2. plan \in Seq(TrialsOf(gaps)) /\ block \in Seq(TrialsOf(gaps)) /\ m \in Nat
      BY <2>1 DEF IsBeginning, IsShuffle
    <2>3. PICK n \in Nat : n = Len(plan) /\ n < trials
      <3>1. Len(plan) < trials
        BY <1>2, <1>5 DEF Making
      <3> QED BY <2>2, <3>1
    <2>4. PICK size \in Nat \ {0} : size = Len(block) /\ size = 2 * Len(gaps)
      <3>1. Len(gaps) \in Nat \ {0}
        BY <1>3
      <3>2. Len(block) = 2 * Len(gaps)
        BY <2>1, <3>1 DEF IsShuffle, CalibrationLen
      <3> QED BY <3>1, <3>2
    <2>5. PICK room \in Nat : room = trials - n
      BY <2>3
    <2>6. plan' = plan \o Taken(block, room)
      BY <1>1, <1>5, <2>3, <2>5
    <2>7. CASE size < room
      <3>1. plan' = plan \o block
        BY <2>2, <2>4, <2>6, <2>7, TakenShape
      <3>2. IsBeginning(plan', gaps, per, m + 1)
        BY <2>1, <2>2, <3>1, BlockAdded
      <3>3. Len(plan') = n + size
        BY <2>2, <2>3, <2>4, <3>1, Extended
      <3>4. Len(plan') \in Nat /\ Len(plan') < trials
        BY <2>3, <2>5, <2>7, <3>3
      <3>5. m + 1 \in 0 .. trials
        <4>1. Len(plan') = CalibrationLen(gaps, per) + (m + 1) * size
          BY <2>4, <3>2 DEF IsBeginning
        <4>2. PICK y \in Nat : y = (m + 1) * size /\ m + 1 <= y
          <5>1. m + 1 \in Nat /\ 1 <= size
            BY <2>2
          <5>2. 1 * (m + 1) <= size * (m + 1)
            BY <5>1, TimesKeeps
          <5>3. 1 * (m + 1) = m + 1 /\ size * (m + 1) = (m + 1) * size /\ (m + 1) * size \in Nat
            BY <2>2
          <5> QED BY <5>2, <5>3
        <4> QED BY <1>7, <2>2, <3>4, <4>1, <4>2
      <3> QED BY <1>8, <3>2, <3>4, <3>5
    <2>8. CASE ~(size < room)
      <3>1. plan' = plan \o SubSeq(block, 1, trials - Len(plan))
        BY <2>2, <2>3, <2>4, <2>5, <2>6, <2>8, TakenShape
      <3>2. Len(plan) < trials /\ trials - Len(plan) <= Len(block)
        BY <2>3, <2>4, <2>5, <2>8
      <3>3. /\ plan' \in Seq(TrialsOf(gaps)) /\ Len(plan') = trials
            /\ IsBalanced(plan', gaps, per, trials)
        <4>1. PICK p : p = plan
          OBVIOUS
        <4>2. PICK s : s = block
          OBVIOUS
        <4>3. /\ gaps # << >> /\ m \in Nat /\ IsBeginning(p, gaps, per, m) /\ IsShuffle(s, gaps, 1)
              /\ Len(p) < trials /\ trials - Len(p) <= Len(s)
          BY <1>3, <2>1, <2>2, <3>2, <4>1, <4>2
        <4>4. /\ p \o SubSeq(s, 1, trials - Len(p)) \in Seq(TrialsOf(gaps))
              /\ Len(p \o SubSeq(s, 1, trials - Len(p))) = trials
              /\ IsBalanced(p \o SubSeq(s, 1, trials - Len(p)), gaps, per, trials)
          BY <4>3, PlanMade
        <4> QED BY <3>1, <4>1, <4>2, <4>4
      <3> QED BY <1>9, <3>3
    <2> QED BY <2>7, <2>8
  <1> QED BY <1>2, <1>3, <1>4, <1>5, <1>10, <1>11 DEF Making

\* The sender is answered.
LEMMA MemoryProbing ==
    ASSUME MemoryExact, SenderAnswered
    PROVE  MemoryExact'
  <1>1. /\ stage = "sender" /\ stage' = "probe"
        /\ UNCHANGED <<scenario, slower, job, plan, block, index, latency, null, groups>>
    BY DEF SenderAnswered, fixedVars, planVars, nullVars
  <1>2. Made' /\ Measured' /\ ValidArgs'
    <2>1. Made /\ Measured /\ ValidArgs
      BY <1>1 DEF MemoryExact, Working
    <2>2. Made'
      BY <1>1, <2>1 DEF Made
    <2>3. Measured'
      BY <1>1, <2>1 DEF Measured, Latencies, Control
    <2>4. ValidArgs'
      BY <1>1, <2>1 DEF ValidArgs
    <2> QED BY <2>2, <2>3, <2>4
  <1> QED BY <1>1, <1>2 DEF MemoryExact, Working, Empty

\* The probe is answered: one latency more.
LEMMA MemoryRecorded ==
    ASSUME IInv, MemoryExact, ProbeAnswered
    PROVE  MemoryExact'
  <1>1. /\ stage = "probe" /\ stage' \in {"sender", "final"}
        /\ UNCHANGED <<scenario, slower, job, plan, block, index, null, groups>>
    BY DEF ProbeAnswered, fixedVars, planVars, nullVars
  <1>2. PICK x \in Latencies(plan[Len(latency) + 1]) : latency' = Append(latency, x)
    BY DEF ProbeAnswered
  <1>3. PICK trials \in Nat : trials = scenario.trials
    BY Options
  <1>4. PICK n \in Nat : n = Len(latency) /\ n < trials
    <2>1. Len(latency) \in Nat
      BY DoneIsNat
    <2>2. Len(latency) < scenario.trials
      BY <1>1 DEF IInv, TurnExact
    <2> QED BY <1>3, <2>1, <2>2
  <1>5. Made /\ Measured /\ ValidArgs
    BY <1>1 DEF MemoryExact, Working
  <1>6. /\ Len(latency') = n + 1 /\ latency'[n + 1] = x
        /\ \A k \in 1 .. n : latency'[k] = latency[k]
    <2>1. latency \in Seq(Int)
      BY DEF IInv, CountersTyped
    <2>2. /\ Len(Append(latency, x)) = Len(latency) + 1
          /\ Append(latency, x)[Len(latency) + 1] = x
          /\ \A k \in 1 .. Len(latency) : Append(latency, x)[k] = latency[k]
      BY <2>1
    <2> QED BY <1>2, <1>4, <2>2
  <1>8. Measured'
    <2>1. ASSUME NEW k \in 1 .. n + 1
          PROVE  latency'[k] \in Latencies(plan[k])
      <3>1. CASE k \in 1 .. n
        <4>1. latency[k] \in Latencies(plan[k])
          BY <1>4, <1>5, <3>1 DEF Measured
        <4> QED BY <1>6, <3>1, <4>1
      <3>2. CASE k = n + 1
        BY <1>2, <1>4, <1>6, <3>2
      <3> QED BY <3>1, <3>2
    <2>2. Len(latency') <= scenario'.trials
      BY <1>1, <1>3, <1>4, <1>6
    <2>3. \A k \in 1 .. Len(latency') : latency'[k] \in Latencies(plan[k])
      BY <1>6, <2>1
    <2> QED BY <1>1, <2>2, <2>3 DEF Measured, Latencies, Control
  <1>9. Made' /\ ValidArgs'
    <2>1. Made'
      BY <1>1, <1>5 DEF Made
    <2>2. ValidArgs'
      BY <1>1, <1>5 DEF ValidArgs
    <2> QED BY <2>1, <2>2
  <1> QED BY <1>1, <1>8, <1>9 DEF MemoryExact, Working, Empty

\* A finished plan, and the part of it that is scored.
LEMMA MadeShape ==
    ASSUME IInv, Made
    PROVE  /\ DOMAIN plan = 1 .. scenario.trials
           /\ \A k \in 1 .. scenario.trials :
                 plan[k] \in TrialsOf(scenario.gaps) /\ plan[k].bit \in Bits
                 /\ plan[k].gap \in Range(scenario.gaps)
           /\ Prefix \in Nat
           /\ Scored \subseteq 1 .. scenario.trials
           /\ \A g : OfGap(g) \subseteq 1 .. scenario.trials /\ IsFiniteSet(OfGap(g))
  <1> DEFINE T == TrialsOf(scenario.gaps)
             C == {t.gap : t \in Range(plan)}
  <1>1. PICK trials \in Nat : trials = scenario.trials
    BY Options
  <1>2. plan \in Seq(T) /\ Len(plan) = trials
    BY <1>1 DEF Made
  <1>3. DOMAIN plan = 1 .. trials /\ \A k \in 1 .. trials : plan[k] \in T
    <2> HIDE DEF T
    <2> QED BY <1>2
  <1>4. \A t \in T : t.bit \in Bits /\ t.gap \in Range(scenario.gaps)
    BY DEF TrialsOf
  <1>5. Prefix \in Nat
    <2>1. C \subseteq Range(scenario.gaps)
      <3>1. \A t \in Range(plan) : t \in T
        <4> HIDE DEF T
        <4> QED BY <1>3 DEF Range
      <3> QED BY <1>4, <3>1
    <2>2. IsFiniteSet(Range(scenario.gaps))
      BY Options, GapsShape
    <2> HIDE DEF C
    <2>3. Cardinality(C) \in Nat
      BY <2>1, <2>2, FS_Subset, FS_CardinalityType
    <2>4. PICK c \in Nat : c = Cardinality(C)
      BY <2>3
    <2>5. PICK per \in Nat : per = scenario.per
      BY Options
    <2>6. c * per * 2 \in Nat
      OBVIOUS
    <2>7. Prefix = c * per * 2
      BY <2>4, <2>5 DEF Prefix, PrefixLen, C
    <2> QED BY <2>6, <2>7
  <1>6. Scored \subseteq 1 .. trials
    BY <1>1, <1>5 DEF Scored
  <1>7. ASSUME NEW g
        PROVE  OfGap(g) \subseteq 1 .. trials /\ IsFiniteSet(OfGap(g))
    <2>1. OfGap(g) \subseteq 1 .. trials
      BY <1>6 DEF OfGap
    <2>2. IsFiniteSet(1 .. trials)
      BY FS_Interval
    <2> QED BY <2>1, <2>2, FS_Subset
  <1> QED BY <1>1, <1>3, <1>4, <1>5, <1>6, <1>7

\* A function on 1 .. n is a sequence.
LEMMA FunctionIsSeq ==
    ASSUME NEW R, NEW n \in Nat, NEW f \in [1 .. n -> R]
    PROVE  f \in Seq(R) /\ Len(f) = n /\ DOMAIN f = 1 .. n
  <1>1. f \in UNION {[1 .. m -> R] : m \in Nat}
    OBVIOUS
  <1>2. f \in Seq(R)
    BY <1>1, SeqDef, Zenon
  <1>3. DOMAIN f = 1 .. n /\ DOMAIN f = 1 .. Len(f) /\ Len(f) \in Nat
    BY <1>2
  <1> QED BY <1>2, <1>3

\* The groups of the permutation test.
LEMMA GroupsShape ==
    ASSUME IInv, Made
    PROVE  /\ GapGroups \in Seq(Seq(Nat))
           /\ Len(GapGroups) <= Cardinality(Range(scenario.gaps))
           /\ \A n \in DOMAIN GapGroups : \E g \in Range(scenario.gaps) :
                 \A k \in DOMAIN GapGroups[n] : GapGroups[n][k] \in OfGap(g)
  <1> DEFINE G == {plan[k].gap : k \in Scored}
             o == Ordered(G)
             q == [n \in DOMAIN o |-> Ordered(OfGap(o[n]))]
  <1>1. GapGroups = q
    BY DEF GapGroups, OfGap
  <1>2. G \subseteq Range(scenario.gaps)
    BY MadeShape
  <1>3. G \in SUBSET Int /\ IsFiniteSet(G) /\ Cardinality(G) <= Cardinality(Range(scenario.gaps))
    <2>1. IsFiniteSet(Range(scenario.gaps)) /\ Range(scenario.gaps) \subseteq Nat
      BY Options, GapsShape
    <2> HIDE DEF G
    <2>2. IsFiniteSet(G) /\ Cardinality(G) <= Cardinality(Range(scenario.gaps))
      BY <1>2, <2>1, FS_Subset
    <2>3. G \subseteq Int
      BY <1>2, <2>1
    <2> QED BY <2>2, <2>3
  <1> HIDE DEF G
  <1>4. PICK c \in Nat : c = Cardinality(G) /\ o \in [1 .. c -> G]
    BY <1>3, OrderedShape
  <1> HIDE DEF o
  <1>5. ASSUME NEW n \in 1 .. c
        PROVE  /\ q[n] \in Seq(Nat)
               /\ \A k \in DOMAIN q[n] : q[n][k] \in OfGap(o[n])
               /\ o[n] \in Range(scenario.gaps)
    <2>1. PICK K : K = OfGap(o[n])
      OBVIOUS
    <2>2. K \in SUBSET Int /\ K \subseteq Nat /\ IsFiniteSet(K)
      <3>1. OfGap(o[n]) \subseteq 1 .. scenario.trials /\ IsFiniteSet(OfGap(o[n]))
        BY MadeShape
      <3>2. scenario.trials \in Nat
        BY Options
      <3>3. 1 .. scenario.trials \subseteq Nat
        BY <3>2
      <3> QED BY <2>1, <3>1, <3>3
    <2>3. PICK d \in Nat : d = Cardinality(K) /\ Ordered(K) \in [1 .. d -> K]
      BY <2>2, OrderedShape
    <2>4. PICK f \in [1 .. d -> K] : f = q[n]
      BY <1>4, <2>1, <2>3
    <2>5. f \in [1 .. d -> Nat]
      BY <2>2
    <2>6. f \in Seq(Nat) /\ DOMAIN f = 1 .. d
      BY <2>5, FunctionIsSeq
    <2>7. \A k \in DOMAIN f : f[k] \in K
      BY <2>6
    <2>8. o[n] \in Range(scenario.gaps)
      BY <1>2, <1>4
    <2> HIDE DEF q
    <2> QED BY <2>1, <2>4, <2>6, <2>7, <2>8
  <1>6. q \in Seq(Seq(Nat)) /\ Len(q) = c /\ DOMAIN q = 1 .. c
    <2>1. DOMAIN q = 1 .. c
      BY <1>4
    <2>2. q \in [1 .. c -> Seq(Nat)]
      BY <1>5, <2>1
    <2> HIDE DEF q
    <2> QED BY <2>2, FunctionIsSeq
  <1> HIDE DEF q
  <1> QED BY <1>1, <1>3, <1>4, <1>5, <1>6

\* The plan stands while the campaign is analysed.
LEMMA PlanStands ==
    ASSUME MemoryExact, stage \in Working,
           UNCHANGED <<scenario, slower, job, plan, block, latency>>
    PROVE  /\ Made' /\ Measured' /\ ValidArgs'
           /\ Prefix' = Prefix
           /\ \A g : OfGap(g)' = OfGap(g)
  <1>1. Made /\ Measured /\ ValidArgs
    BY DEF MemoryExact
  <1>2. Made'
    BY <1>1 DEF Made
  <1>3. Measured'
    BY <1>1 DEF Measured, Latencies, Control
  <1>4. ValidArgs'
    BY <1>1 DEF ValidArgs
  <1>5. Prefix' = Prefix /\ \A g : OfGap(g)' = OfGap(g)
    BY DEF OfGap, Scored, Prefix
  <1> QED BY <1>2, <1>3, <1>4, <1>5

\* The campaign is accepted, and the permutation test starts from the bits
\* that were sent.
LEMMA MemoryAccepted ==
    ASSUME IInv, MemoryExact, Accept
    PROVE  MemoryExact'
  <1>1. CASE Complete
    <2>1. /\ stage = "final" /\ stage' = "permute"
          /\ null' = [k \in DOMAIN plan |-> plan[k].bit]
          /\ groups' = GapGroups
          /\ index' = IF GapGroups = << >> THEN 0 ELSE Len(GapGroups[1])
          /\ UNCHANGED <<scenario, slower, job, plan, block, latency>>
      BY <1>1 DEF Accept, fixedVars
    <2>2. stage \in Working
      BY <2>1 DEF Working
    <2>3. Made /\ slower \in [Range(scenario.gaps) -> Bits]
      BY <2>2 DEF MemoryExact
    <2>4. /\ Made' /\ Measured' /\ ValidArgs' /\ \A g : OfGap(g)' = OfGap(g)
      BY <2>1, <2>2, PlanStands
    <2>5. null' \in [1 .. scenario.trials -> Bits]
      BY <2>1, <2>3, MadeShape
    <2>6. /\ groups' \in Seq(Seq(Nat))
          /\ Len(groups') <= Cardinality(Range(scenario.gaps))
          /\ \A n \in DOMAIN groups' : \E g \in Range(scenario.gaps) :
                \A k \in DOMAIN groups'[n] : groups'[n][k] \in OfGap(g)
      BY <2>1, <2>3, GroupsShape
    <2>7. index' \in Nat /\ (groups' # << >> => index' <= Len(groups'[1]))
      <3>1. CASE groups' = << >>
        BY <2>1, <3>1
      <3>2. CASE groups' # << >>
        <4> DEFINE T == Seq(Nat)
        <4> HIDE DEF T
        <4>1. groups' \in Seq(T)
          BY <2>6 DEF T
        <4>2. groups'[1] \in T
          BY <3>2, <4>1
        <4>3. Len(groups'[1]) \in Nat
          BY <4>2 DEF T
        <4> QED BY <2>1, <3>2, <4>3
      <3> QED BY <3>1, <3>2
    <2>8. ASSUME NEW g \in Range(scenario.gaps)
          PROVE  {k \in OfGap(g) : plan[k].bit = 1} = {k \in OfGap(g) : null'[k] = 1}
      <3>1. \A k \in OfGap(g) : null'[k] = plan[k].bit
        BY <2>1, <2>3, MadeShape
      <3> QED BY <3>1
    <2>9. Len(latency) = scenario.trials
      BY <2>1 DEF IInv, TurnExact
    <2>10. Permuting'
      BY <2>1, <2>4, <2>5, <2>6, <2>7, <2>8, <2>9 DEF Permuting
    <2> QED BY <2>1, <2>3, <2>4, <2>10 DEF MemoryExact, Working, Empty
  <1>2. CASE ~Complete
    BY <1>2, MemoryFreed DEF Accept, fixedVars
  <1> QED BY <1>1, <1>2

\* Two places of one gap change their bits: no gap's bits change in number.
LEMMA ExchangeWithinGap ==
    ASSUME IInv, Made, null \in [1 .. scenario.trials -> Bits],
           NEW h, NEW x \in OfGap(h), NEW y \in OfGap(h), null' = Swap(null, x, y)
    PROVE  /\ null' \in [1 .. scenario.trials -> Bits]
           /\ \A g : Cardinality({k \in OfGap(g) : null'[k] = 1})
                         = Cardinality({k \in OfGap(g) : null[k] = 1})
  <1>1. x \in 1 .. scenario.trials /\ y \in 1 .. scenario.trials
    BY MadeShape
  <1>2. null' = [null EXCEPT ![x] = null[y], ![y] = null[x]]
    BY DEF Swap
  <1>3. null' \in [1 .. scenario.trials -> Bits]
    BY <1>1, <1>2
  <1>4. \A k \in 1 .. scenario.trials :
            null'[k] = IF k = x THEN null[y] ELSE IF k = y THEN null[x] ELSE null[k]
    BY <1>1, <1>2
  <1>5. ASSUME NEW g
        PROVE  Cardinality({k \in OfGap(g) : null'[k] = 1})
                   = Cardinality({k \in OfGap(g) : null[k] = 1})
    <2>1. OfGap(g) \subseteq 1 .. scenario.trials /\ IsFiniteSet(OfGap(g))
      BY MadeShape
    <2>2. CASE g = h
      <3>1. Exchanged(null, null', x, y, OfGap(g))
        BY <1>4, <2>1, <2>2 DEF Exchanged
      <3>2. Cardinality(Places(1, null', OfGap(g))) = Cardinality(Places(1, null, OfGap(g)))
        BY <2>1, <3>1, ExchangeKeeps
      <3> QED BY <3>2 DEF Places
    <2>3. CASE g # h
      <3>1. x \notin OfGap(g) /\ y \notin OfGap(g)
        BY <2>3 DEF OfGap
      <3>2. \A k \in OfGap(g) : null'[k] = null[k]
        BY <1>4, <2>1, <3>1
      <3>3. {k \in OfGap(g) : null'[k] = 1} = {k \in OfGap(g) : null[k] = 1}
        BY <3>2
      <3> QED BY <3>3
    <2> QED BY <2>2, <2>3
  <1> QED BY <1>3, <1>5

\* One round of the permutation.
LEMMA MemoryPermuted ==
    ASSUME IInv, MemoryExact, Permute
    PROVE  MemoryExact'
  <1>1. /\ stage = "permute" /\ stage' = "permute" /\ groups # << >>
        /\ UNCHANGED <<scenario, slower, job, plan, block, latency>>
    BY DEF Permute, fixedVars
  <1>2. stage \in Working
    BY <1>1 DEF Working
  <1>3. Made /\ Permuting /\ slower \in [Range(scenario.gaps) -> Bits]
    BY <1>1, <1>2 DEF MemoryExact
  <1>4. Made' /\ Measured' /\ ValidArgs' /\ \A g : OfGap(g)' = OfGap(g)
    BY <1>1, <1>2, PlanStands
  <1> DEFINE R == Seq(Nat)
  <1>5. PICK n \in Nat : n = Len(groups) /\ n > 0 /\ DOMAIN groups = 1 .. n
    <2>1. groups \in Seq(R)
      BY <1>3 DEF Permuting
    <2> HIDE DEF R
    <2> QED BY <1>1, <2>1
  <1>6. groups \in Seq(R) /\ \A i \in 1 .. n : groups[i] \in R
    <2>1. groups \in Seq(R)
      BY <1>3 DEF Permuting
    <2> HIDE DEF R
    <2> QED BY <1>5, <2>1
  <1>7. CASE index > 1
    <2>1. PICK j \in 1 .. index : null' = Swap(null, Head(groups)[index], Head(groups)[j])
      BY <1>7 DEF Permute, PermuteOnce
    <2>2. index' = index - 1 /\ groups' = groups
      BY <1>7 DEF Permute
    <2>3. PICK f \in R : f = groups[1] /\ Head(groups) = f
      <3> HIDE DEF R
      <3> QED BY <1>1, <1>5, <1>6
    <2>4. Len(f) \in Nat /\ DOMAIN f = 1 .. Len(f)
      OBVIOUS
    <2>5. index \in Nat /\ index <= Len(f)
      BY <1>1, <1>3, <2>3 DEF Permuting
    <2>6. index \in DOMAIN f /\ j \in DOMAIN f
      BY <1>7, <2>4, <2>5
    <2>7. PICK h \in Range(scenario.gaps) : \A k \in DOMAIN f : f[k] \in OfGap(h)
      <3>1. 1 \in DOMAIN groups
        BY <1>5
      <3>2. \E h \in Range(scenario.gaps) :
                \A k \in DOMAIN groups[1] : groups[1][k] \in OfGap(h)
        BY <1>3, <3>1 DEF Permuting
      <3> QED BY <2>3, <3>2
    <2>8. /\ null' \in [1 .. scenario.trials -> Bits]
          /\ \A g : Cardinality({k \in OfGap(g) : null'[k] = 1})
                        = Cardinality({k \in OfGap(g) : null[k] = 1})
      <3>1. f[index] \in OfGap(h) /\ f[j] \in OfGap(h) /\ null' = Swap(null, f[index], f[j])
        BY <2>1, <2>3, <2>6, <2>7
      <3>2. null \in [1 .. scenario.trials -> Bits]
        BY <1>3 DEF Permuting
      <3> QED BY <1>3, <3>1, <3>2, ExchangeWithinGap
    <2>9. index' \in Nat /\ index' <= Len(groups'[1])
      BY <1>7, <2>2, <2>3, <2>4, <2>5
    <2>10. Permuting'
      BY <1>1, <1>3, <1>4, <2>2, <2>8, <2>9 DEF Permuting
    <2> QED BY <1>1, <1>3, <1>4, <2>10 DEF MemoryExact, Working, Empty
  <1>8. CASE ~(index > 1)
    <2>1. /\ groups' = Tail(groups) /\ null' = null
          /\ index' = IF Len(groups) > 1 THEN Len(groups[2]) ELSE 0
      BY <1>8 DEF Permute
    <2>2. /\ groups' \in Seq(R) /\ Len(groups') = n - 1 /\ DOMAIN groups' = 1 .. n - 1
          /\ \A i \in 1 .. n - 1 : groups'[i] = groups[i + 1]
      <3> HIDE DEF R
      <3>1. /\ Tail(groups) \in Seq(R) /\ Len(Tail(groups)) = n - 1
            /\ \A i \in 1 .. n - 1 : Tail(groups)[i] = groups[i + 1]
        BY <1>1, <1>5, <1>6
      <3>2. DOMAIN Tail(groups) = 1 .. Len(Tail(groups))
        BY <3>1
      <3> QED BY <2>1, <3>1, <3>2
    <2>3. Len(groups') <= Cardinality(Range(scenario.gaps))
      <3>1. n <= Cardinality(Range(scenario.gaps))
        BY <1>3, <1>5 DEF Permuting
      <3>2. Cardinality(Range(scenario.gaps)) \in Nat
        BY Options, GapsShape, FS_CardinalityType
      <3> QED BY <1>5, <2>2, <3>1, <3>2
    <2>4. ASSUME NEW i \in DOMAIN groups'
          PROVE  \E g \in Range(scenario.gaps) :
                    \A k \in DOMAIN groups'[i] : groups'[i][k] \in OfGap(g)
      <3>1. i + 1 \in DOMAIN groups /\ groups'[i] = groups[i + 1]
        BY <1>5, <2>2
      <3> QED BY <1>3, <3>1 DEF Permuting
    <2>5. index' \in Nat /\ (groups' # << >> => index' <= Len(groups'[1]))
      <3>1. CASE n > 1
        <4>1. groups'[1] = groups[2] /\ groups[2] \in R
          <5>1. 1 \in 1 .. n - 1 /\ 1 + 1 = 2 /\ 2 \in 1 .. n
            BY <1>5, <3>1
          <5> HIDE DEF R
          <5> QED BY <1>6, <2>2, <5>1
        <4>2. Len(groups[2]) \in Nat
          BY <4>1
        <4> QED BY <1>5, <2>1, <3>1, <4>1, <4>2
      <3>2. CASE ~(n > 1)
        <4>1. groups' = << >>
          <5>1. Len(groups') = 0
            BY <1>5, <2>2, <3>2
          <5> HIDE DEF R
          <5> QED BY <2>2, <5>1
        <4> QED BY <1>5, <2>1, <3>2, <4>1
      <3> QED BY <3>1, <3>2
    <2>6. Permuting'
      BY <1>1, <1>3, <1>4, <2>1, <2>2, <2>3, <2>4, <2>5 DEF Permuting
    <2> QED BY <1>1, <1>3, <1>4, <2>6 DEF MemoryExact, Working, Empty
  <1> QED BY <1>7, <1>8

\* The report file is created.
LEMMA MemoryReporting ==
    ASSUME MemoryExact, CreateReport
    PROVE  MemoryExact'
  <1>1. /\ stage = "permute" /\ stage' = "write"
        /\ UNCHANGED <<scenario, slower, job, plan, block, index, latency, null, groups>>
    BY DEF CreateReport, fixedVars, planVars, nullVars
  <1>2. stage \in Working
    BY <1>1 DEF Working
  <1>3. Made' /\ Measured' /\ ValidArgs' /\ \A g : OfGap(g)' = OfGap(g)
    BY <1>1, <1>2, PlanStands
  <1>4. Permuting'
    <2>1. Permuting
      BY <1>1 DEF MemoryExact
    <2> QED BY <1>1, <1>3, <2>1 DEF Permuting
  <1> QED BY <1>1, <1>3, <1>4 DEF MemoryExact, Working, Empty

\* Whatever happens, the client's memory is as it should be.
LEMMA MemoryCorrect ==
    ASSUME IInv, MemoryExact, [Next]_allVars
    PROVE  MemoryExact'
  <1>1. CASE ClientStep
    <2>1. CASE SendTurn
      BY <2>1, MemoryKept DEF SendTurn, fixedVars, planVars, nullVars
    <2>2. CASE TurnFails
      BY <2>2, MemoryFreed DEF TurnFails, fixedVars
    <2>3. CASE WriteReport
      BY <2>3, MemoryFreed DEF WriteReport, fixedVars
    <2> QED BY <1>1, <2>1, <2>2, <2>3, MemoryChecked, MemorySnapshot, MemoryShuffled, MemoryExtended,
               MemoryProbing, MemoryRecorded, MemoryAccepted, MemoryPermuted, MemoryReporting
            DEF ClientStep
  <1>2. CASE EnvironmentStep
    <2>1. CASE StepFails
      BY <2>1, MemoryFreed DEF StepFails, fixedVars
    <2>2. CASE Serve \/ Break \/ Throttle \/ Foreign \/ ServeStray \/ Restart
      <3>1. UNCHANGED <<scenario, slower, job, stage, plan, block, index, latency, null, groups>>
        BY <2>2 DEF Serve, Break, Throttle, Foreign, ServeStray, Restart, fixedVars, clientVars,
                    planVars, nullVars
      <3> QED BY <3>1, MemoryKept
    <2> QED BY <1>2, <2>1, <2>2 DEF EnvironmentStep
  <1>3. CASE ScriptStep \/ Rerun
    <2>1. UNCHANGED <<scenario, slower, plan, block, index, null, groups>>
      BY <1>3 DEF ScriptStep, StartJob, SkipJob, JobEnds, Finish, Rerun, Keep, planVars, nullVars
    <2>2. stage \in {"off", "ok", "error"} /\ stage' \in {"off", "args"}
      BY <1>3 DEF ScriptStep, StartJob, SkipJob, JobEnds, Finish, Rerun, IInv, ClientExact
    <2> QED BY <2>1, <2>2, MemoryIdle
  <1>4. CASE Killed
    BY <1>4, MemoryFreed DEF Killed, fixedVars
  <1>5. CASE UNCHANGED allVars
    BY <1>5, MemoryKept DEF allVars, vars, fixedVars, clientVars, planVars, nullVars
  <1> QED BY <1>1, <1>2, <1>3, <1>4, <1>5 DEF Next, Over

\* A fault is used up for every turn that a dead client leaves behind.
LEMMA ScriptCorrect ==
    ASSUME IInv, ScriptExact, [Next]_allVars
    PROVE  ScriptExact'
  <1>1. /\ job \in 1 .. 2 * Rounds + 1 /\ strays \in Nat /\ faults \in Nat
        /\ strays + faults <= scenario.faults /\ scenario.faults \in Nat /\ Rounds \in Nat
        /\ (script = "running" => job \in 1 .. 2 * Rounds)
    BY Options DEF ScriptExact, Jobs
  <1>2. scenario' = scenario
    BY DEF Next, ClientStep, CheckArgs, Snapshot, Shuffle, ExtendPlan, SendTurn, SenderAnswered,
           ProbeAnswered, TurnFails, Accept, Permute, CreateReport, WriteReport, EnvironmentStep,
           Serve, Break, Throttle, StepFails, Foreign, ServeStray, Restart, ScriptStep, StartJob,
           SkipJob, JobEnds, Finish, Killed, Rerun, Over, Keep, allVars, vars, fixedVars
  <1>3. strays' \in Nat /\ faults' \in Nat /\ strays' + faults' <= strays + faults
    <2>1. CASE UNCHANGED <<strays, faults>>
      BY <1>1, <2>1
    <2>2. CASE Fault /\ strays' \in {strays, strays + 1, 0}
      <3>1. PICK f \in Nat : f = faults
        BY <1>1
      <3>2. PICK r \in Nat : r = strays
        BY <1>1
      <3>3. f > 0 /\ faults' = f - 1
        BY <2>2, <3>1 DEF Fault
      <3>4. strays' = r \/ strays' = r + 1 \/ strays' = 0
        BY <2>2, <3>2
      <3> QED BY <3>1, <3>2, <3>3, <3>4
    <2>3. CASE ServeStray
      BY <1>1, <2>3 DEF ServeStray
    <2> QED BY <2>1, <2>2, <2>3
            DEF Next, ClientStep, CheckArgs, Snapshot, Shuffle, ExtendPlan, SendTurn,
                SenderAnswered, ProbeAnswered, TurnFails, Accept, Permute, CreateReport,
                WriteReport, EnvironmentStep, Serve, Break, Throttle, StepFails, Foreign, Restart,
                ScriptStep, StartJob, SkipJob, JobEnds, Finish, Killed, Rerun, Over, Keep, allVars,
                vars, serverVars
  <1>4. /\ job' \in 1 .. 2 * Rounds + 1
        /\ script' = "running" => job' \in 1 .. 2 * Rounds
    <2>1. CASE UNCHANGED <<job, script>>
      BY <1>1, <2>1
    <2>2. CASE ScriptStep
      BY <1>1, <2>2 DEF ScriptStep, StartJob, SkipJob, JobEnds, Finish, Jobs
    <2>3. CASE Killed
      BY <1>1, <2>3 DEF Killed, fixedVars
    <2>4. CASE Rerun
      BY <1>1, <2>4 DEF Rerun
    <2>5. CASE ClientStep \/ EnvironmentStep
      <3>1. job' = job
        BY <2>5 DEF ClientStep, CheckArgs, Snapshot, Shuffle, ExtendPlan, SendTurn, SenderAnswered,
           ProbeAnswered, TurnFails, Accept, Permute, CreateReport, WriteReport, EnvironmentStep,
           Serve, Break, Throttle, StepFails, Foreign, ServeStray, Restart, fixedVars
      <3>2. CASE UNCHANGED script
        BY <2>1, <3>1, <3>2
      <3> QED BY <2>2, <2>3, <2>4, <3>1, <3>2 DEF Next, Over, allVars
    <2> QED BY <2>1, <2>2, <2>3, <2>4, <2>5 DEF Next, Over, allVars, vars, fixedVars
  <1>5. strays' + faults' <= scenario'.faults
    <2>1. PICK n \in Nat : n = scenario.faults
      BY <1>1
    <2>2. strays + faults <= n
      BY <1>1, <2>1
    <2>3. strays' + faults' <= n
      <3>1. PICK a \in Nat, b \in Nat : a = strays /\ b = faults
        BY <1>1
      <3>2. PICK c \in Nat, d \in Nat : c = strays' /\ d = faults'
        BY <1>3
      <3>3. a + b <= n /\ c + d <= a + b
        BY <1>3, <2>2, <3>1, <3>2
      <3>4. c + d <= n
        BY <3>3
      <3> QED BY <3>2, <3>4
    <2>4. scenario'.faults = n
      BY <1>2, <2>1
    <2> QED BY <2>3, <2>4
  <1> QED BY <1>3, <1>4, <1>5 DEF ScriptExact, Jobs

\* The second invariant holds at the start.
LEMMA InitPInv ==
    ASSUME ScriptInit
    PROVE  PInv
  <1> USE DEF ScriptInit, Init
  <1>1. MemoryExact
    BY DEF MemoryExact, Working, Empty
  <1>2. ScriptExact
    <2>1. IInv
      BY InitIInv
    <2>2. scenario.faults \in Nat /\ Rounds \in Nat
      BY <2>1, Options
    <2> QED BY <2>2 DEF ScriptExact
  <1> QED BY <1>1, <1>2 DEF PInv

\* The client's memory is exact in every reachable state: the list under the
\* shuffle, the plan, the latencies and the groups (trial_plan, run_trial,
\* permutation_test).
THEOREM MemoryInvariance == Spec => [](IInv /\ PInv)
  <1>1. IInv /\ PInv /\ [Next]_allVars => PInv'
    BY MemoryCorrect, ScriptCorrect DEF PInv
  <1> QED BY <1>1, InitPInv, InitIInv, NextIInv, PTL DEF Spec

\* The types of the client's and the server's state, for any options.
THEOREM TypeCorrect == Spec => []TypeOK
  <1>1. ASSUME IInv, PInv
        PROVE  TypeOK
    <2> DEFINE T == [bit : Bits, gap : Range(scenario.gaps)]
    <2>1. /\ CountersTyped /\ TurnExact /\ MemoryExact /\ ScriptExact
      BY <1>1 DEF IInv, PInv
    <2>2. PICK trials \in Nat : trials = scenario.trials
      BY <1>1, Options
    <2>3. /\ Len(plan) <= scenario.trials
          /\ Range(plan) \cup Range(block) \subseteq T
          /\ index \in Nat
          /\ Len(latency) <= Len(plan)
          /\ Range(null) \subseteq Bits
          /\ Len(groups) <= Cardinality(Range(scenario.gaps))
      <3>0. /\ Len(<< >>) = 0 /\ Range(<< >>) = {}
            /\ Cardinality(Range(scenario.gaps)) \in Nat
        <4>1. IsFiniteSet(Range(scenario.gaps))
          BY <1>1, Options, GapsShape
        <4>2. Range(<< >>) = {}
          BY DEF Range
        <4> QED BY <4>1, <4>2, FS_CardinalityType
      <3>1. ASSUME NEW s \in Seq(TrialsOf(scenario.gaps))
            PROVE  Range(s) \subseteq T /\ Len(s) \in Nat
        <4> DEFINE S == TrialsOf(scenario.gaps)
        <4>1. S = T
          BY DEF TrialsOf
        <4>2. s \in Seq(S)
          OBVIOUS
        <4> HIDE DEF S
        <4>3. Range(s) \subseteq S /\ Len(s) \in Nat
          BY <4>2 DEF Range
        <4> QED BY <4>1, <4>3
      <3>2. CASE stage \in Empty
        <4>1. /\ plan = << >> /\ block = << >> /\ index = 0 /\ null = << >> /\ groups = << >>
              /\ latency = << >>
          BY <2>1, <3>2 DEF MemoryExact, Empty, TurnExact
        <4> HIDE DEF T
        <4> QED BY <2>2, <3>0, <4>1
      <3>3. CASE stage = "shuffle"
        <4>1. /\ Making /\ null = << >> /\ groups = << >> /\ latency = << >>
          BY <2>1, <3>3 DEF MemoryExact, TurnExact
        <4>2. plan \in Seq(TrialsOf(scenario.gaps)) /\ block \in Seq(TrialsOf(scenario.gaps))
          <5>1. << >> \in Seq(TrialsOf(scenario.gaps))
            BY EmptySeq
          <5> QED BY <4>1, <5>1 DEF Making, IsBeginning, IsShuffle
        <4>3. Len(plan) < scenario.trials /\ index \in 0 .. Len(block)
          BY <4>1 DEF Making
        <4>4. /\ Len(plan) \in Nat /\ Range(plan) \subseteq T
              /\ Len(block) \in Nat /\ Range(block) \subseteq T
          BY <3>1, <4>2
        <4> HIDE DEF T
        <4> QED BY <2>2, <3>0, <4>1, <4>3, <4>4
      <3>4. CASE stage \in Working
        <4>1. Made /\ Measured
          BY <2>1, <3>4 DEF MemoryExact
        <4>2. /\ Range(plan) \subseteq T /\ Len(plan) = scenario.trials /\ block = << >>
              /\ Len(latency) <= scenario.trials
          <5>1. plan \in Seq(TrialsOf(scenario.gaps)) /\ Len(plan) = scenario.trials /\ block = << >>
            BY <4>1 DEF Made
          <5>2. Len(latency) <= scenario.trials
            BY <4>1 DEF Measured
          <5> QED BY <3>1, <5>1, <5>2
        <4>3. /\ index \in Nat /\ Range(null) \subseteq Bits
              /\ Len(groups) <= Cardinality(Range(scenario.gaps))
          <5>1. CASE stage \in {"sender", "probe", "final"}
            BY <2>1, <3>0, <5>1 DEF MemoryExact
          <5>2. CASE stage \in {"permute", "write"}
            <6>1. Permuting
              BY <2>1, <5>2 DEF MemoryExact
            <6>2. Range(null) \subseteq Bits
              BY <6>1 DEF Permuting, Range
            <6> QED BY <6>1, <6>2 DEF Permuting
          <5> QED BY <3>4, <5>1, <5>2 DEF Working
        <4> HIDE DEF T
        <4> QED BY <2>2, <3>0, <4>2, <4>3
      <3> QED BY <2>1, <3>2, <3>3, <3>4 DEF CountersTyped, Stages, Empty, Working
    <2>4. strays \in 0 .. scenario.faults /\ faults \in 0 .. scenario.faults
      <3>1. scenario.faults \in Nat
        BY <1>1, Options
      <3> QED BY <2>1, <3>1 DEF ScriptExact
    <2>5. job \in 1 .. 2 * Rounds + 1 /\ slower \in [Range(scenario.gaps) -> Bits]
      BY <2>1 DEF ScriptExact, MemoryExact
    <2> QED BY <2>1, <2>3, <2>4, <2>5 DEF TypeOK, CountersTyped, Stages, ReportFiles, Meddlers
  <1> QED BY <1>1, MemoryInvariance, PTL

\* Whatever the generator yields, traffic follows a balanced plan: the swaps
\* of shuffle keep the trials, and the last block is cut, not padded.
THEOREM BalanceCorrect == Spec => []PlanBalanced
  <1>1. ASSUME IInv, PInv
        PROVE  PlanBalanced
    BY <1>1 DEF PInv, MemoryExact, Working, Made, PlanBalanced
  <1> QED BY <1>1, MemoryInvariance, PTL

\* A permutation never moves a bit from one gap to another: the groups of
\* permutation_test hold the positions of one gap each.
THEOREM StratificationCorrect == Spec => []NullStratified
  <1>1. ASSUME IInv, PInv, stage = "permute", NEW g \in Range(scenario.gaps)
        PROVE  Cardinality({k \in Scored : plan[k].gap = g /\ plan[k].bit = 1})
                   = Cardinality({k \in Scored : plan[k].gap = g /\ null[k] = 1})
    <2>1. Cardinality({k \in OfGap(g) : plan[k].bit = 1})
              = Cardinality({k \in OfGap(g) : null[k] = 1})
      BY <1>1 DEF PInv, MemoryExact, Permuting
    <2>2. /\ {k \in OfGap(g) : plan[k].bit = 1} = {k \in Scored : plan[k].gap = g /\ plan[k].bit = 1}
          /\ {k \in OfGap(g) : null[k] = 1} = {k \in Scored : plan[k].gap = g /\ null[k] = 1}
      BY DEF OfGap
    <2> QED BY <2>1, <2>2
  <1>2. IInv /\ PInv => NullStratified
    BY <1>1 DEF NullStratified
  <1> QED BY <1>2, MemoryInvariance, PTL

\* The latencies of the trials that have been measured, in a run with signal.
LEMMA BandOfTrial ==
    ASSUME NEW k \in 1 .. Len(latency), Measured, ~Control(job)
    PROVE  latency[k] \in Band(10 * plan[k].gap, scenario.jitter, plan[k].bit = slower[plan[k].gap])
  BY DEF Measured, Latencies, Band

\* Over a channel that separates the bits by more than twice its jitter, in
\* whichever direction at each gap, analyze decodes every scored trial as it
\* was sent: the two means lie in bands that do not touch, and the middle of
\* the means lies between.  Only a gap of which a bit has no sample is
\* different, and both bits of every gap have one unless none is asked for or
\* a gap is listed twice.
THEOREM DecodingCorrect == Spec => []ChannelDecodes
  <1>1. ASSUME IInv, PInv, stage \in {"permute", "write"}, ~Control(job), NEW k \in Scored
        PROVE  \/ Decoded(k) = plan[k].bit
               \/ /\ \E b \in Bits : Samples(plan, Prefix, plan[k].gap, b) = {}
                  /\ \/ scenario.per = 0
                     \/ Cardinality(Range(scenario.gaps)) < Len(scenario.gaps)
    <2>1. /\ Made /\ Measured /\ Permuting /\ ValidArgs
          /\ slower \in [Range(scenario.gaps) -> Bits]
      BY <1>1 DEF PInv, MemoryExact, Working
    <2>2. PICK gaps \in Seq(Nat), per \in Nat, trials \in Nat, j \in {0, 1} :
              gaps = scenario.gaps /\ per = scenario.per /\ trials = scenario.trials
              /\ j = scenario.jitter
      BY <1>1, Options
    <2>3. /\ DOMAIN plan = 1 .. trials /\ k \in 1 .. trials
          /\ plan[k].bit \in Bits /\ plan[k].gap \in Range(gaps)
      BY <1>1, <2>1, <2>2, MadeShape
    <2>4. PICK p : p = plan
      OBVIOUS
    <2>5. p \in Seq(TrialsOf(gaps)) /\ IsBalanced(p, gaps, per, trials) /\ Len(latency) = trials
      BY <2>1, <2>2, <2>4 DEF Made, Permuting
    <2>6. CalibrationLen(gaps, per) \in Nat /\ CalibrationLen(gaps, per) <= trials
      <3>1. CalibrationLen(gaps, per) \in Nat
        BY GapsShape
      <3>2. trials > CalibrationLen(gaps, per)
        BY <2>1, <2>2 DEF ValidArgs
      <3> QED BY <3>1, <3>2
    <2>7. PrefixLen(p, per) \in Nat /\ PrefixLen(p, per) <= CalibrationLen(gaps, per)
      BY <2>5, PrefixWithin
    <2>8. PICK len \in Nat : len = PrefixLen(p, per) /\ len <= trials
      BY <2>6, <2>7
    <2>9. PICK g \in Nat : g = plan[k].gap
      <3>1. \A h \in Range(gaps) : h \in Nat
        BY GapsShape
      <3> QED BY <2>3, <3>1
    <2>10. ASSUME NEW b \in Bits
           PROVE  LET S == Samples(p, len, g, b)
                  IN  /\ IsFiniteSet(S)
                      /\ \A i \in S : latency[i] \in Band(10 * g, j, b = slower[g])
      <3>1. IsFiniteSet(Samples(p, len, g, b))
        <4>1. IsFiniteSet(1 .. len)
          BY FS_Interval
        <4>2. Samples(p, len, g, b) \subseteq 1 .. len
          BY DEF Samples
        <4> QED BY <4>1, <4>2, FS_Subset
      <3>2. ASSUME NEW i \in Samples(p, len, g, b)
            PROVE  latency[i] \in Band(10 * g, j, b = slower[g])
        <4>1. i \in 1 .. len /\ plan[i] = [bit |-> b, gap |-> g]
          BY <2>4 DEF Samples
        <4>2. i \in 1 .. Len(latency)
          BY <2>2, <2>5, <2>8, <4>1
        <4>3. plan[i].bit = b /\ plan[i].gap = g
          BY <4>1
        <4> QED BY <1>1, <2>1, <2>2, <4>2, <4>3, BandOfTrial
      <3> QED BY <3>1, <3>2
    <2>11. /\ 10 * g \in Nat /\ slower[g] \in Bits
           /\ latency[k] \in Band(10 * g, j, plan[k].bit = slower[g])
      <3>1. slower[g] \in Bits
        BY <2>1, <2>2, <2>3, <2>9
      <3>2. latency[k] \in Band(10 * g, j, plan[k].bit = slower[g])
        BY <1>1, <2>1, <2>2, <2>3, <2>5, <2>9, BandOfTrial
      <3> QED BY <3>1, <3>2
    <2>12. ASSUME \A b \in Bits : Samples(p, len, g, b) # {}
           PROVE  Decode(Mean(latency, Samples(p, len, g, 0)),
                         Mean(latency, Samples(p, len, g, 1)), latency[k]) = plan[k].bit
      <3> DEFINE Z == Samples(p, len, g, 0)
                 O == Samples(p, len, g, 1)
      <3>1. /\ IsFiniteSet(Z) /\ Z # {} /\ IsFiniteSet(O) /\ O # {}
            /\ \A i \in Z : latency[i] \in Band(10 * g, j, 0 = slower[g])
            /\ \A i \in O : latency[i] \in Band(10 * g, j, 1 = slower[g])
        <4>1. 0 \in Bits /\ 1 \in Bits
          BY DEF Bits
        <4> QED BY <2>10, <2>12, <4>1
      <3> HIDE DEF Z, O
      <3>2. Decode(Mean(latency, Z), Mean(latency, O), latency[k]) = plan[k].bit
        <4>1. PICK lo \in Nat : lo = 10 * g
          BY <2>11
        <4>2. PICK slow \in Bits : slow = slower[g]
          BY <2>11
        <4>3. PICK b \in Bits : b = plan[k].bit
          BY <2>3
        <4>4. PICK x : x = latency[k]
          OBVIOUS
        <4>5. x \in Band(lo, j, b = slow)
          BY <2>11, <4>1, <4>2, <4>3, <4>4
        <4>6. /\ \A i \in Z : latency[i] \in Band(lo, j, 0 = slow)
              /\ \A i \in O : latency[i] \in Band(lo, j, 1 = slow)
          BY <3>1, <4>1, <4>2
        <4>7. Decode(Mean(latency, Z), Mean(latency, O), x) = b
          BY <3>1, <4>5, <4>6, DecodeRight
        <4> QED BY <4>3, <4>4, <4>7
      <3> QED BY <3>2 DEF Z, O
    <2>13. ASSUME per > 0, ~(Cardinality(Range(gaps)) < Len(gaps)), NEW b \in Bits
           PROVE  Samples(p, len, g, b) # {}
      <3>1. Cardinality(Range(gaps)) = Len(gaps)
        <4>1. Cardinality(Range(gaps)) \in Nat /\ Cardinality(Range(gaps)) <= Len(gaps)
          BY ListedWithin
        <4>2. Len(gaps) \in Nat
          OBVIOUS
        <4> QED BY <2>13, <4>1, <4>2
      <3>2. len = CalibrationLen(gaps, per)
        BY <2>5, <2>6, <2>8, <2>13, <3>1, PrefixIsCalibration
      <3>3. g \in Range(gaps)
        BY <2>3, <2>9
      <3> QED BY <2>5, <2>6, <2>13, <3>2, <3>3, CalibrationBalanced
    <2>14. Prefix = len /\ Decoded(k) = Decode(Mean(latency, Samples(p, len, g, 0)),
                                              Mean(latency, Samples(p, len, g, 1)), latency[k])
      BY <2>2, <2>4, <2>8, <2>9 DEF Decoded, Prefix
    <2>15. CASE \A b \in Bits : Samples(p, len, g, b) # {}
      BY <2>12, <2>14, <2>15
    <2>16. CASE \E b \in Bits : Samples(p, len, g, b) = {}
      <3>1. per = 0 \/ Cardinality(Range(gaps)) < Len(gaps)
        BY <2>13, <2>16
      <3> QED BY <2>2, <2>4, <2>9, <2>14, <2>16, <3>1
    <2> QED BY <2>15, <2>16
  <1>2. IInv /\ PInv => ChannelDecodes
    BY <1>1 DEF ChannelDecodes
  <1> QED BY <1>2, MemoryInvariance, PTL
=============================================================================

-------------------------- MODULE LongBenchProofs ---------------------------
(***************************************************************************)
(* Machine-checked proofs about LongBench and the client it runs, for any  *)
(* number of seeds, retries and trials, any offsets and any number of      *)
(* faults.  The first invariant is about the script, its reports and the   *)
(* server's experiment, the second about what the client scores.           *)
(***************************************************************************)
EXTENDS LongBench, CountingProofs

\* The stages of a run of the script in which it is about one job.
OnJob == {"launch", "waiting", "verify", "move", "moved", "failed", "sleep"}

\* Nothing is recorded before the traffic; between trials there is a trial
\* left to run.
TrafficExact ==
    /\ stage \in {"off", "ok", "error", "profiles", "sessions", "start", "started"} =>
           records = << >>
    /\ stage \in {"sessions", "start", "started", "traffic"} =>
           plan # << >> /\ Len(records) < Len(plan)

\* The experiment is the client's from its start to its stop, or to the loss
\* of the stop.
ActiveExact ==
    /\ active = "mine" =>
          \/ stage \in {"started", "traffic", "stop"}
          \/ stage = "stopped" /\ stopped = "failed" /\ mishap \in Mishaps
    /\ WedgedOnlyForCause

\* The client lives only while the script waits for it.
ScriptExact ==
    /\ script \in OnJob => job \in Jobs
    /\ failures < job
    /\ script = "move" => temp[job] = "good"

\* A script that nobody interrupted and that has counted no failure has left a
\* good report behind for each of its runs, where mv has put or left it.
ReportsExact ==
    (/\ script \notin Ended \ {"complete"}
     /\ failures = 0 /\ ~interrupted) =>
        /\ \A n \in Jobs : n < job => Reported(n)
        /\ script = "moved" => Reported(job)
        /\ script = "complete" => job \notin Jobs

\* A complete campaign was neither interrupted nor short of a run.
CompleteExact == script = "complete" => failures = 0 /\ ~interrupted

\* The inductive invariant.
IInv ==
    /\ TypeOK
    /\ TrafficExact
    /\ ActiveExact
    /\ ScriptExact
    /\ ReportsExact
    /\ CompleteExact

\* Plans are sequences of trials of the right length.
LEMMA PlanShape ==
    ASSUME NEW p \in Plans(Offsets, Per, Trials)
    PROVE  /\ p \in Seq([bit : Bits, gap : Range(Offsets)])
           /\ Len(p) = Trials
  <1>1. p \in [1 .. Trials -> [bit : Bits, gap : Range(Offsets)]] /\ Len(p) = Trials
    BY DEF Plans, IsBalanced
  <1> DEFINE T == [bit : Bits, gap : Range(Offsets)]
  <1> HIDE DEF T
  <1>2. p \in UNION {[1 .. n -> T] : n \in Nat}
    BY <1>1, ExperimentAssumption DEF T
  <1>3. p \in Seq(T)
    BY <1>2, SeqDef, Zenon
  <1> QED BY <1>1, <1>3 DEF T

\* Every trial of a plan has a known offset; the plan of as many trials as
\* there must be is not empty.
LEMMA PlanTrials ==
    ASSUME NEW p \in Plans(Offsets, Per, Trials)
    PROVE  /\ Trials >= MinimumTrials => p # << >> /\ Len(p) \in Nat /\ Len(p) > 0
           /\ \A k \in 1 .. Len(p) : p[k].gap \in Nat
  <1>1. p \in Seq([bit : Bits, gap : Range(Offsets)]) /\ Len(p) = Trials
    BY PlanShape
  <1>2. Trials >= MinimumTrials => Trials > 0
    <2>1. Len(Offsets) \in Nat \ {0}
      BY ExperimentAssumption
    <2>2. Len(Offsets) * Per \in Nat \ {0}
      BY <2>1, ExperimentAssumption
    <2> QED BY <2>2, ExperimentAssumption DEF MinimumTrials, CalibrationLen
  <1>3. Range(Offsets) \subseteq Nat
    BY ExperimentAssumption DEF Range
  <1>4. \A k \in 1 .. Len(p) : p[k] \in [bit : Bits, gap : Range(Offsets)]
    <2> DEFINE T == [bit : Bits, gap : Range(Offsets)]
    <2> HIDE DEF T
    <2>1. p \in Seq(T)
      BY <1>1 DEF T
    <2>2. \A k \in 1 .. Len(p) : p[k] \in T
      BY <2>1
    <2> QED BY <2>2 DEF T
  <1>5. Trials >= MinimumTrials => p # << >> /\ Len(p) \in Nat /\ Len(p) > 0
    BY <1>1, <1>2
  <1> QED BY <1>3, <1>4, <1>5

-----------------------------------------------------------------------------
(* The client *)

\* Counting a fault.
LEMMA FaultCounts ==
    ASSUME IInv, Fault \/ UNCHANGED faults
    PROVE  faults' \in 0 .. MaxFaults
  <1>1. faults \in 0 .. MaxFaults /\ MaxFaults \in Nat
    BY ExperimentAssumption DEF IInv, TypeOK, ClientTypeOK
  <1> QED BY <1>1 DEF Fault

\* An experiment that is not the running client's has its cause.
LEMMA Settled ==
    ASSUME IInv, stage \notin {"started", "traffic", "stop"}, active # "none"
    PROVE  mishap \in Mishaps
  BY DEF IInv, ActiveExact, WedgedOnlyForCause, Mishaps, TypeOK, ClientTypeOK

\* Without a plan there are no records.
LEMMA NoRecords == << >> \in Seq(TrialRecords) /\ Len(<< >>) <= Len(<< >>)
  <1>1. << >> \in Seq(TrialRecords) /\ Len(<< >>) = 0
    BY EmptySeq
  <1>2. 0 <= 0
    OBVIOUS
  <1> QED BY <1>1, <1>2, Zenon

\* The client ends.
LEMMA Exits ==
    ASSUME IInv, NEW status \in {"ok", "error"}, Exit(status), slower' = slower,
           temp' \in [Jobs -> {"absent", "partial", "good", "bad"}],
           mishap' \in Mishaps \cup {"none"},
           Fault \/ UNCHANGED faults,
           active # "none" => mishap' \in Mishaps
    PROVE  ClientTypeOK' /\ TrafficExact' /\ ActiveExact'
  <1>1. /\ stage' = status /\ plan' = << >> /\ turns' = NoTurns /\ records' = << >>
        /\ traffic' = "none" /\ stopped' = "none"
        /\ active' = IF active = "mine" THEN "left" ELSE active
    BY DEF Exit
  <1>2. turns' \in [Roles -> {"none", "sent", "ok", "refused", "lost"}]
    BY <1>1 DEF NoTurns
  <1>3. records' \in Seq(TrialRecords) /\ Len(records') <= Len(plan')
    BY <1>1, NoRecords, Zenon
  <1>4. active' \in {"none", "left"}
    BY <1>1 DEF IInv, TypeOK, ClientTypeOK
  <1>5. ClientTypeOK'
    BY <1>1, <1>2, <1>3, <1>4, FaultCounts DEF IInv, TypeOK, ClientTypeOK, Dead
  <1>6. TrafficExact'
    BY <1>1 DEF TrafficExact
  <1>7. ActiveExact'
    BY <1>1, <1>4 DEF ActiveExact, WedgedOnlyForCause
  <1> QED BY <1>5, <1>6, <1>7

\* A step of the client changes nothing of the script's, nor the report of any
\* run but its own.
LEMMA ClientFrame ==
    ASSUME IInv, script = "waiting", UNCHANGED scriptVars, job' = job,
           \A n \in Jobs : n # job => temp'[n] = temp[n],
           ClientTypeOK' /\ TrafficExact' /\ ActiveExact'
    PROVE  IInv'
  <1> USE DEF scriptVars
  <1>1. TypeOK'
    BY DEF IInv, TypeOK
  <1>2. ScriptExact' /\ CompleteExact'
    BY DEF IInv, ScriptExact, CompleteExact
  <1>3. ReportsExact'
    <2>1. \A n \in Jobs : n < job /\ Reported(n) => Reported(n)'
      <3>1. \A n \in Jobs : n < job => n # job
        BY DEF IInv, TypeOK, Jobs
      <3> QED BY <3>1 DEF Reported
    <2> QED BY <2>1 DEF IInv, ReportsExact
  <1> QED BY <1>1, <1>2, <1>3 DEF IInv

\* A step of the client that only goes on to the next stage.
LEMMA GoesOn ==
    ASSUME IInv, NEW from \in {"sessions", "started", "records"}, stage = from,
           NEW to \in {"start", "traffic", "score"}, stage' = to,
           <<from, to>> \in {<<"sessions", "start">>, <<"started", "traffic">>,
                             <<"records", "score">>},
           UNCHANGED <<slower, temp, plan, turns, records, traffic, stopped,
                       active, mishap, faults>>
    PROVE  ClientTypeOK' /\ TrafficExact' /\ ActiveExact'
  <1> USE DEF IInv, TypeOK
  <1>1. ClientTypeOK'
    BY DEF ClientTypeOK
  <1>2. TrafficExact'
    BY DEF TrafficExact
  <1>3. ActiveExact'
    BY DEF ActiveExact, WedgedOnlyForCause
  <1> QED BY <1>1, <1>2, <1>3

\* Up to the traffic.
LEMMA BeforeTraffic ==
    ASSUME IInv, GetProfiles \/ CreateSessions \/ ServerStarts \/ ServerRefuses \/ StartAnswered
    PROVE  ClientTypeOK' /\ TrafficExact' /\ ActiveExact'
  <1> USE DEF IInv
  <1>0. /\ temp \in [Jobs -> {"absent", "partial", "good", "bad"}]
        /\ mishap \in Mishaps \cup {"none"}
    BY DEF TypeOK, ClientTypeOK
  <1>1. CASE GetProfiles
    <2>1. CASE Trials < MinimumTrials
      BY <1>0, <1>1, <2>1, Exits, Settled DEF GetProfiles
    <2>2. CASE ~(Trials < MinimumTrials)
      <3>1. /\ plan' \in Plans(Offsets, Per, Trials) /\ stage = "profiles" /\ stage' = "sessions"
            /\ UNCHANGED <<turns, records, traffic, stopped, active, slower, job, temp, mishap, faults>>
        BY <1>1, <2>2 DEF GetProfiles
      <3>2. plan' # << >> /\ Len(plan') \in Nat /\ Len(plan') > 0
        BY <2>2, <3>1, PlanTrials, ExperimentAssumption DEF MinimumTrials, CalibrationLen
      <3>3. records' = << >>
        BY <3>1 DEF TrafficExact
      <3>4. records' \in Seq(TrialRecords) /\ Len(records') < Len(plan') /\ Len(records') <= Len(plan')
        BY <3>2, <3>3
      <3>5. ClientTypeOK'
        BY <3>1, <3>2, <3>4 DEF TypeOK, ClientTypeOK
      <3>6. TrafficExact' /\ ActiveExact'
        BY <3>1, <3>2, <3>3, <3>4 DEF TrafficExact, ActiveExact, WedgedOnlyForCause
      <3> QED BY <3>5, <3>6
    <2> QED BY <2>1, <2>2
  <1>2. CASE CreateSessions
    BY <1>2, GoesOn DEF CreateSessions
  <1>3. CASE ServerStarts
    <2> USE <1>3 DEF ServerStarts
    <2>1. ClientTypeOK'
      BY DEF TypeOK, ClientTypeOK
    <2>2. TrafficExact' /\ ActiveExact'
      BY DEF TrafficExact, ActiveExact, WedgedOnlyForCause
    <2> QED BY <2>1, <2>2
  <1>4. CASE ServerRefuses
    BY <1>0, <1>4, Exits, Settled DEF ServerRefuses
  <1>5. CASE StartAnswered
    BY <1>5, GoesOn DEF StartAnswered
  <1> QED BY <1>1, <1>2, <1>3, <1>4, <1>5

\* The traffic is given up.
LEMMA Abandoned ==
    ASSUME IInv, stage = "traffic", AbandonTraffic,
           Fault \/ UNCHANGED faults, UNCHANGED <<slower, temp, mishap>>
    PROVE  ClientTypeOK' /\ TrafficExact' /\ ActiveExact'
  <1> USE DEF IInv
  <1>1. /\ stage' = "stop" /\ traffic' = "failed" /\ turns' = NoTurns
        /\ UNCHANGED <<plan, records, stopped, active>>
    BY DEF AbandonTraffic
  <1>2. ClientTypeOK'
    BY <1>1, FaultCounts DEF TypeOK, ClientTypeOK, NoTurns
  <1>3. TrafficExact' /\ ActiveExact'
    BY <1>1 DEF TrafficExact, ActiveExact, WedgedOnlyForCause
  <1> QED BY <1>2, <1>3

\* The traffic: turns are sent, answered and recorded, or one is lost.
LEMMA Traffic ==
    ASSUME IInv, BeginTrial \/ (\E r \in Roles : TurnEnds(r)) \/ EndTrial \/ TrialFails
    PROVE  ClientTypeOK' /\ TrafficExact' /\ ActiveExact'
  <1> USE DEF IInv
  <1>1. stage = "traffic" /\ UNCHANGED <<slower, temp, plan, stopped, active, mishap>>
    BY DEF BeginTrial, TurnEnds, EndTrial, TrialFails, AbandonTraffic
  <1>2. faults' \in 0 .. MaxFaults
    <2>1. Fault \/ UNCHANGED faults
      BY DEF BeginTrial, TurnEnds, EndTrial, TrialFails, AbandonTraffic
    <2> QED BY <2>1, FaultCounts
  <1>3. /\ plan \in Plans(Offsets, Per, Trials) /\ records \in Seq(TrialRecords)
        /\ Len(records) < Len(plan)
    BY <1>1 DEF TrafficExact, TypeOK, ClientTypeOK
  <1>4. Len(plan) \in Nat /\ Len(records) \in Nat
    <2>1. Len(plan) \in Nat
      BY <1>3, PlanShape, ExperimentAssumption
    <2> DEFINE T == TrialRecords
    <2> HIDE DEF T
    <2>2. records \in Seq(T)
      BY <1>3 DEF T
    <2>3. Len(records) \in Nat
      BY <2>2
    <2> QED BY <2>1, <2>3
  <1>5. CASE BeginTrial \/ (\E r \in Roles : TurnEnds(r))
    <2>1. stage' = stage /\ UNCHANGED <<records, traffic>>
      BY <1>5 DEF BeginTrial, TurnEnds
    <2>2. turns' \in [Roles -> {"none", "sent", "ok", "refused", "lost"}]
      BY <1>5 DEF BeginTrial, TurnEnds, TypeOK, ClientTypeOK
    <2>3. ClientTypeOK'
      BY <1>1, <1>2, <2>1, <2>2 DEF TypeOK, ClientTypeOK
    <2>4. TrafficExact' /\ ActiveExact'
      BY <1>1, <2>1 DEF TrafficExact, ActiveExact, WedgedOnlyForCause
    <2> QED BY <2>3, <2>4
  <1>6. CASE EndTrial
    <2> DEFINE rec == [sender |-> turns.sender = "ok", probe |-> turns.probe = "ok",
                       latency |-> LatencyOf(plan[Len(records) + 1])]
    <2>1. records' = Append(records, rec) /\ turns' = NoTurns
      BY <1>6 DEF EndTrial
    <2>2. rec \in TrialRecords
      <3>1. Len(records) + 1 \in 1 .. Len(plan)
        BY <1>3, <1>4
      <3>2. plan[Len(records) + 1].gap \in Nat
        BY <1>3, <3>1, PlanTrials
      <3>3. LatencyOf(plan[Len(records) + 1]) \in Nat
        BY <3>2 DEF LatencyOf
      <3> QED BY <3>3 DEF TrialRecords
    <2>3. records' \in Seq(TrialRecords) /\ Len(records') = Len(records) + 1
      <3> DEFINE T == TrialRecords
      <3> HIDE DEF T, rec
      <3>1. records \in Seq(T) /\ rec \in T
        BY <1>3, <2>2 DEF T
      <3>2. Append(records, rec) \in Seq(T) /\ Len(Append(records, rec)) = Len(records) + 1
        BY <3>1
      <3> QED BY <2>1, <3>2 DEF T
    <2>4. Len(records') <= Len(plan')
      BY <1>1, <1>3, <1>4, <2>3
    <2>5. \/ stage' = "traffic" /\ traffic' = traffic /\ Len(records') < Len(plan)
          \/ stage' = "stop" /\ traffic' = "done"
      BY <1>1, <1>6 DEF EndTrial
    <2>6. ClientTypeOK'
      BY <1>1, <1>2, <2>1, <2>3, <2>4, <2>5 DEF TypeOK, ClientTypeOK, NoTurns
    <2>7. TrafficExact' /\ ActiveExact'
      BY <1>1, <2>5 DEF TrafficExact, ActiveExact, WedgedOnlyForCause
    <2> QED BY <2>6, <2>7
  <1>7. CASE TrialFails
    BY <1>7, Abandoned DEF TrialFails
  <1> QED BY <1>5, <1>6, <1>7

\* After the traffic.
LEMMA AfterTraffic ==
    ASSUME IInv, script = "waiting",
           Stop \/ Conclude \/ GetRecords \/ Score \/ WriteReport
    PROVE  ClientTypeOK' /\ TrafficExact' /\ ActiveExact'
  <1> USE DEF IInv
  <1>0. /\ temp \in [Jobs -> {"absent", "partial", "good", "bad"}]
        /\ mishap \in Mishaps \cup {"none"}
        /\ job \in Jobs
    BY DEF TypeOK, ClientTypeOK, ScriptExact, OnJob
  <1>1. CASE Stop
    <2>1. Fault \/ UNCHANGED faults
      BY <1>1 DEF Stop
    <2>2. /\ stage' = "stopped" /\ active' = "none" /\ stopped' \in {"clean", "incomplete", "failed"}
          /\ UNCHANGED <<slower, job, temp, plan, turns, records, traffic, mishap>>
      BY <1>1 DEF Stop
    <2>3. ClientTypeOK'
      BY <2>1, <2>2, FaultCounts DEF TypeOK, ClientTypeOK
    <2>4. TrafficExact' /\ ActiveExact'
      BY <2>2 DEF TrafficExact, ActiveExact, WedgedOnlyForCause
    <2> QED BY <2>3, <2>4
  <1>2. CASE Conclude
    <2>1. active # "none" => mishap \in Mishaps
      BY <1>2 DEF Conclude, ActiveExact, WedgedOnlyForCause, Mishaps, TypeOK, ClientTypeOK
    <2>2. CASE traffic = "failed" \/ stopped = "failed"
      BY <1>0, <1>2, <2>1, <2>2, Exits DEF Conclude
    <2>3. CASE ~(traffic = "failed" \/ stopped = "failed")
      <3>1. /\ stage = "stopped" /\ stage' = "records"
            /\ UNCHANGED <<plan, turns, records, traffic, stopped, active,
                           slower, job, temp, mishap, faults>>
        BY <1>2, <2>3 DEF Conclude
      <3>2. ClientTypeOK'
        BY <3>1 DEF TypeOK, ClientTypeOK
      <3>3. TrafficExact' /\ ActiveExact'
        BY <2>3, <3>1 DEF TrafficExact, ActiveExact, WedgedOnlyForCause
      <3> QED BY <3>2, <3>3
    <2> QED BY <2>2, <2>3
  <1>3. CASE GetRecords
    BY <1>3, GoesOn DEF GetRecords
  <1>4. CASE Score
    <2>1. CASE Exit("error") /\ UNCHANGED temp
      BY <1>0, <1>4, <2>1, Exits, Settled DEF Score
    <2>2. CASE /\ stage' = "write" /\ temp' = [temp EXCEPT ![job] = "partial"]
               /\ UNCHANGED <<plan, turns, records, traffic, stopped, active>>
      <3>1. stage = "score" /\ UNCHANGED <<slower, job, mishap, faults>>
        BY <1>4 DEF Score
      <3>2. ClientTypeOK'
        BY <1>0, <2>2, <3>1 DEF TypeOK, ClientTypeOK
      <3>3. TrafficExact' /\ ActiveExact'
        BY <2>2, <3>1 DEF TrafficExact, ActiveExact, WedgedOnlyForCause
      <3> QED BY <3>2, <3>3
    <2> QED BY <1>4, <2>1, <2>2 DEF Score
  <1>5. CASE WriteReport
    <2>1. temp' \in [Jobs -> {"absent", "partial", "good", "bad"}]
      BY <1>0, <1>5 DEF WriteReport
    <2> QED BY <1>0, <1>5, <2>1, Exits, Settled DEF WriteReport
  <1> QED BY <1>1, <1>2, <1>3, <1>4, <1>5

\* A request fails, or the write.
LEMMA Requests ==
    ASSUME IInv, RequestFails
    PROVE  ClientTypeOK' /\ TrafficExact' /\ ActiveExact'
  <1> USE DEF IInv
  <1>0. /\ temp \in [Jobs -> {"absent", "partial", "good", "bad"}]
        /\ mishap \in Mishaps \cup {"none"}
    BY DEF TypeOK, ClientTypeOK
  <1>1. CASE StartAnswerLost
    BY <1>0, <1>1, Exits DEF StartAnswerLost, Mishaps
  <1>4. CASE HandlerFails
    BY <1>0, <1>4, Exits DEF HandlerFails, Mishaps
  <1>2. CASE StopLost
    <2>1. /\ Fault /\ stage = "stop" /\ stage' = "stopped" /\ stopped' = "failed"
          /\ mishap' = "stop lost"
          /\ UNCHANGED <<slower, job, temp, plan, turns, records, traffic, active>>
      BY <1>2 DEF StopLost
    <2>2. ClientTypeOK'
      BY <2>1, FaultCounts DEF TypeOK, ClientTypeOK, Mishaps
    <2>3. TrafficExact' /\ ActiveExact'
      BY <2>1 DEF TrafficExact, ActiveExact, WedgedOnlyForCause, Mishaps
    <2> QED BY <2>2, <2>3
  <1>3. CASE StepFails
    BY <1>0, <1>3, Exits, Settled DEF StepFails
  <1> QED BY <1>1, <1>2, <1>3, <1>4 DEF RequestFails

\* A signal ends the client, wherever it is.
LEMMA Killed ==
    ASSUME IInv, KillClient, Fault, UNCHANGED <<slower, temp>>
    PROVE  ClientTypeOK' /\ TrafficExact' /\ ActiveExact'
  <1>1. /\ temp \in [Jobs -> {"absent", "partial", "good", "bad"}]
        /\ mishap' \in Mishaps \cup {"none"}
    BY DEF IInv, TypeOK, ClientTypeOK, KillClient, Mishaps
  <1>2. active # "none" => mishap' \in Mishaps
    BY DEF IInv, ActiveExact, WedgedOnlyForCause, Mishaps, TypeOK, ClientTypeOK, KillClient
  <1> QED BY <1>1, <1>2, Exits DEF KillClient

\* A Ctrl-C ends the client, ends its traffic, or is lost on it.
LEMMA Interrupted ==
    ASSUME IInv, InterruptClient, Fault, UNCHANGED <<slower, temp>>
    PROVE  ClientTypeOK' /\ TrafficExact' /\ ActiveExact'
  <1> USE DEF IInv
  <1>1. CASE stage \in {"profiles", "sessions", "start", "started"}
    <2>1. KillClient
      BY <1>1 DEF InterruptClient, KillClient
    <2> QED BY <2>1, Killed
  <1>2. CASE stage = "traffic"
    BY <1>2, Abandoned DEF InterruptClient
  <1>3. CASE stage \notin {"profiles", "sessions", "start", "started", "traffic"}
    <2>1. UNCHANGED <<stage, plan, turns, records, traffic, stopped, active, mishap>>
      BY <1>3 DEF InterruptClient, clientVars
    <2>2. ClientTypeOK'
      <3>1. faults' \in 0 .. MaxFaults
        BY FaultCounts
      <3>2. ClientTypeOK
        BY DEF TypeOK
      <3> QED BY <2>1, <3>1, <3>2 DEF ClientTypeOK
    <2>3. TrafficExact' /\ ActiveExact'
      BY <2>1 DEF TrafficExact, ActiveExact, WedgedOnlyForCause
    <2> QED BY <2>2, <2>3
  <1> QED BY <1>1, <1>2, <1>3

\* Every step of the client.
LEMMA Client ==
    ASSUME IInv, ClientStep \/ RequestFails, UNCHANGED scriptVars
    PROVE  IInv'
  <1>1. script = "waiting" /\ job' = job
    <2>1. stage \notin Dead
      BY DEF ClientStep, RequestFails, GetProfiles, CreateSessions, ServerStarts, ServerRefuses,
             StartAnswered, BeginTrial, TurnEnds, EndTrial, TrialFails, Stop, Conclude, GetRecords,
             Score, WriteReport, StartAnswerLost, HandlerFails, StopLost, StepFails, Dead
    <2>2. job' = job
      BY DEF ClientStep, RequestFails, GetProfiles, CreateSessions, ServerStarts, ServerRefuses,
             StartAnswered, BeginTrial, TurnEnds, EndTrial, TrialFails, Stop, Conclude, GetRecords,
             Score, WriteReport, StartAnswerLost, HandlerFails, StopLost, StepFails
    <2> QED BY <2>1, <2>2 DEF IInv, TypeOK
  <1>2. ClientTypeOK' /\ TrafficExact' /\ ActiveExact'
    BY <1>1, BeforeTraffic, Traffic, AfterTraffic, Requests DEF ClientStep
  <1>3. \A n \in Jobs : n # job => temp'[n] = temp[n]
    <2>1. CASE UNCHANGED temp
      BY <2>1
    <2>2. CASE Score \/ WriteReport
      <3>1. \/ UNCHANGED temp
            \/ \E report : temp' = [temp EXCEPT ![job] = report]
        BY <2>2 DEF Score, WriteReport
      <3> QED BY <3>1 DEF IInv, TypeOK, ClientTypeOK
    <2>3. UNCHANGED temp \/ Score \/ WriteReport
      BY DEF ClientStep, RequestFails, GetProfiles, CreateSessions, ServerStarts, ServerRefuses,
             StartAnswered, BeginTrial, TurnEnds, EndTrial, TrialFails, Stop, Conclude, GetRecords,
             StartAnswerLost, HandlerFails, StopLost, StepFails
    <2> QED BY <2>1, <2>2, <2>3
  <1> QED BY <1>1, <1>2, <1>3, ClientFrame

-----------------------------------------------------------------------------
(* The script *)

\* What the script knows of its own state.
LEMMA Known ==
    ASSUME IInv
    PROVE  /\ job \in Nat /\ job >= 1 /\ job <= 2 * Rounds + 1 /\ 2 * Rounds \in Nat
           /\ attempt \in Nat /\ attempt >= 1 /\ attempt <= Retries /\ Retries \in Nat
           /\ failures \in Nat /\ failures < job /\ failures <= 2 * Rounds
           /\ (job \in Jobs <=> job <= 2 * Rounds)
  <1>1. Rounds \in Nat /\ Retries \in Nat \ {0}
    BY ExperimentAssumption, RetriesAssumption
  <1> QED BY <1>1 DEF IInv, TypeOK, ScriptExact, Jobs

\* A step of the script changes nothing of the client's.
LEMMA ScriptFrame ==
    ASSUME IInv, UNCHANGED <<slower, plan, turns, records, traffic, stopped, active, mishap>>,
           stage' = stage \/ (stage \in Dead /\ stage' = "off"),
           temp' \in [Jobs -> {"absent", "partial", "good", "bad"}],
           Fault \/ UNCHANGED faults
    PROVE  ClientTypeOK' /\ TrafficExact' /\ ActiveExact'
  <1> USE DEF IInv
  <1>1. faults' \in 0 .. MaxFaults
    BY FaultCounts
  <1>2. ClientTypeOK
    BY DEF TypeOK
  <1>3. ClientTypeOK'
    BY <1>1, <1>2 DEF ClientTypeOK, Dead
  <1>4. TrafficExact' /\ ActiveExact'
    BY <1>2 DEF ClientTypeOK, TrafficExact, ActiveExact, WedgedOnlyForCause, Dead
  <1> QED BY <1>3, <1>4

\* The script goes on to its next run.
LEMMA GoesToNextJob ==
    ASSUME IInv, NEW f \in {0, 1}, NextJob(f), Rest, UNCHANGED <<interrupted, final, unmoved, unsynced>>,
           stage \in Dead, job \in Jobs, script \notin Ended,
           (f = 0 /\ failures = 0 /\ ~interrupted) => Reported(job)
    PROVE  IInv'
  <1> USE DEF NextJob, Rest, clientVars
  <1>1. ClientTypeOK' /\ TrafficExact' /\ ActiveExact'
    BY ScriptFrame DEF IInv, TypeOK, ClientTypeOK
  <1>2. /\ job' \in 1 .. 2 * Rounds + 1 /\ failures' \in 0 .. 2 * Rounds /\ failures' < job'
        /\ attempt' \in 1 .. Retries
    BY Known
  <1>3. TypeOK'
    BY <1>1, <1>2 DEF IInv, TypeOK
  <1>4. ScriptExact'
    BY <1>2 DEF ScriptExact, OnJob
  <1>5. ReportsExact'
    <2> SUFFICES ASSUME failures' = 0, ~interrupted,
                        NEW n \in Jobs, n < job'
                 PROVE  Reported(n)
      BY DEF ReportsExact, Reported, Ended
    <2>1. f = 0 /\ failures = 0
      BY Known
    <2>2. CASE n = job
      BY <2>1, <2>2
    <2>3. CASE n # job
      <3>1. n < job
        BY <2>3, Known DEF Jobs
      <3> QED BY <2>1, <3>1 DEF IInv, ReportsExact
    <2> QED BY <2>2, <2>3
  <1>6. CompleteExact'
    BY DEF CompleteExact
  <1> QED BY <1>1, <1>3, <1>4, <1>5, <1>6 DEF IInv

\* Steps of the script within one run that touch nothing but where it is.
LEMMA Steps ==
    ASSUME IInv, UNCHANGED <<job, failures, interrupted, final, unmoved, unsynced>>,
           UNCHANGED <<slower, temp, plan, turns, records, traffic, stopped, active, mishap, faults>>,
           stage' = stage \/ (stage \in Dead /\ stage' = "off"),
           stage' \in Dead,
           attempt' \in 1 .. Retries,
           script \notin Ended,
           script' \in {"launch", "verify", "move", "failed", "sleep"},
           job \in Jobs,
           script' = "move" => temp[job] = "good"
    PROVE  IInv'
  <1>1. ClientTypeOK' /\ TrafficExact' /\ ActiveExact'
    BY ScriptFrame DEF IInv, TypeOK, ClientTypeOK
  <1>2. TypeOK'
    BY <1>1 DEF IInv, TypeOK
  <1>3. ScriptExact'
    BY DEF IInv, ScriptExact, OnJob
  <1>4. ReportsExact' /\ CompleteExact'
    BY DEF IInv, ReportsExact, Reported, CompleteExact, Ended
  <1> QED BY <1>1, <1>2, <1>3, <1>4 DEF IInv

\* The loop over the runs.
LEMMA Loop ==
    ASSUME IInv, SkipCompleted \/ Die \/ BeginJob \/ Finish
    PROVE  IInv'
  <1>0. script = "head" /\ stage \in Dead /\ script \notin Ended /\ Rest
    BY DEF SkipCompleted, Die, BeginJob, Finish, IInv, TypeOK, Ended
  <1>1. CASE SkipCompleted
    BY <1>0, <1>1, GoesToNextJob DEF SkipCompleted, Valid, Reported
  <1>2. CASE BeginJob
    BY <1>0, <1>2, Steps DEF BeginJob, Rest, clientVars, IInv, TypeOK
  <1>3. CASE Die \/ Finish
    <2>1. /\ UNCHANGED <<job, attempt, failures, interrupted, final, unmoved, unsynced>>
          /\ script' \in {"died", "interrupted", "exhausted", "complete"}
          /\ script' = "complete" => job \notin Jobs /\ ~interrupted /\ ~(failures > 0)
      BY <1>3 DEF Die, Finish
    <2>2. ClientTypeOK' /\ TrafficExact' /\ ActiveExact'
      BY <1>0, ScriptFrame DEF Rest, clientVars, IInv, TypeOK, ClientTypeOK
    <2>3. TypeOK'
      BY <1>0, <2>1, <2>2 DEF IInv, TypeOK, Ended, Rest, clientVars
    <2>4. ScriptExact'
      BY <2>1 DEF IInv, ScriptExact, OnJob
    <2>5. script' = "complete" => failures = 0
      BY <2>1, Known
    <2>6. ReportsExact' /\ CompleteExact'
      BY <1>0, <2>1, <2>5 DEF IInv, ReportsExact, Reported, CompleteExact, Ended, Rest
    <2> QED BY <2>2, <2>3, <2>4, <2>6 DEF IInv
  <1> QED BY <1>1, <1>2, <1>3

\* One attempt at a run.
LEMMA RunOne ==
    ASSUME IInv, Launch \/ ClientEnds \/ Verify \/ Move \/ MoveFails \/ Summarize
                 \/ AttemptFails \/ Sleep
    PROVE  IInv'
  <1>0. /\ job \in Jobs /\ script \notin Ended
        /\ script # "waiting" => stage \in Dead
    BY DEF Launch, ClientEnds, Verify, Move, MoveFails, Summarize, AttemptFails, Sleep,
           IInv, ScriptExact, OnJob, Ended, TypeOK
  <1>1. CASE Launch
    <2> USE <1>1 DEF Launch
    <2>1. ClientTypeOK'
      BY DEF IInv, TypeOK, ClientTypeOK
    <2>2. stage \in Dead
      BY <1>0
    <2>3. TrafficExact'
      <3>1. records' = << >>
        BY <2>2 DEF IInv, TrafficExact, Dead
      <3> QED BY <3>1 DEF TrafficExact
    <2>4. ActiveExact'
      BY <2>2 DEF IInv, ActiveExact, WedgedOnlyForCause, Dead
    <2>5. TypeOK'
      BY <2>1 DEF IInv, TypeOK, Ended
    <2>6. ScriptExact' /\ ReportsExact' /\ CompleteExact'
      BY DEF IInv, ScriptExact, ReportsExact, Reported, CompleteExact, Ended, OnJob
    <2> QED BY <2>1, <2>3, <2>4, <2>5, <2>6 DEF IInv
  <1>2. CASE ClientEnds
    BY <1>0, <1>2, Steps DEF ClientEnds, Dead, IInv, TypeOK
  <1>3. CASE Verify
    <2>1. script = "verify" /\ Rest
      BY <1>3 DEF Verify
    <2>2. stage \in Dead /\ attempt \in 1 .. Retries
      BY <1>0, <2>1 DEF IInv, TypeOK
    <2> QED BY <1>0, <1>3, <2>1, <2>2, Steps DEF Verify, Valid, Rest, clientVars
  <1>4. CASE Move \/ MoveFails
    <2>1. script = "move" /\ stage \in Dead /\ temp[job] = "good"
      BY <1>0, <1>4 DEF Move, MoveFails, IInv, ScriptExact
    <2>2. /\ temp' \in [Jobs -> {"absent", "partial", "good", "bad"}]
          /\ final' \in [Jobs -> {"absent", "partial", "good", "bad"}]
          /\ unmoved' \subseteq Jobs /\ unsynced' \subseteq Jobs
      BY <1>0, <1>4, <2>1 DEF Move, MoveFails, IInv, TypeOK, ClientTypeOK
    <2>3. /\ script' = "moved"
          /\ UNCHANGED <<slower, job, clientVars, active, mishap, attempt, failures, interrupted>>
          /\ Fault \/ UNCHANGED faults
      BY <1>4 DEF Move, MoveFails
    <2>4. ClientTypeOK' /\ TrafficExact' /\ ActiveExact'
      BY <2>2, <2>3, ScriptFrame DEF clientVars
    <2>5. TypeOK'
      BY <2>1, <2>2, <2>3, <2>4 DEF IInv, TypeOK, clientVars
    <2>6. ScriptExact' /\ CompleteExact'
      BY <1>0, <2>3 DEF IInv, ScriptExact, CompleteExact, OnJob
    <2>7. ReportsExact'
      <3>1. CASE Move
        <4>1. /\ final' = [final EXCEPT ![job] = "good"] /\ unmoved' = unmoved
              /\ temp' = [temp EXCEPT ![job] = "absent"]
          BY <2>1, <3>1 DEF Move
        <4>2. Reported(job)' /\ \A n \in Jobs : Reported(n) => Reported(n)'
          <5>1. final'[job] = "good"
            BY <1>0, <4>1 DEF IInv, TypeOK
          <5>2. \A n \in Jobs : n # job => final'[n] = final[n] /\ temp'[n] = temp[n]
            BY <4>1 DEF IInv, TypeOK, ClientTypeOK
          <5> QED BY <2>3, <4>1, <5>1, <5>2 DEF Reported
        <4> QED BY <1>0, <2>3, <4>2 DEF IInv, ReportsExact, Ended
      <3>2. CASE MoveFails
        <4>1. unmoved' = unmoved \cup {job} /\ UNCHANGED <<temp, final>>
          BY <3>2 DEF MoveFails
        <4>2. Reported(job)' /\ \A n \in Jobs : Reported(n) => Reported(n)'
          BY <2>1, <2>3, <4>1 DEF Reported
        <4> QED BY <1>0, <2>3, <4>2 DEF IInv, ReportsExact, Ended
      <3> QED BY <1>4, <3>1, <3>2
    <2> QED BY <2>4, <2>5, <2>6, <2>7 DEF IInv
  <1>5. CASE Summarize
    <2>1. script = "moved" /\ stage \in Dead
      BY <1>0, <1>5 DEF Summarize
    <2>2. failures = 0 /\ ~interrupted => Reported(job)
      BY <1>0, <2>1 DEF IInv, ReportsExact
    <2> QED BY <1>0, <1>5, <2>1, <2>2, GoesToNextJob DEF Summarize
  <1>6. CASE AttemptFails
    <2>1. /\ stage \in Dead /\ script = "failed" /\ Rest
          /\ UNCHANGED <<interrupted, final, unmoved, unsynced>>
      BY <1>0, <1>6 DEF AttemptFails
    <2>2. CASE NextJob(1)
      BY <1>0, <2>1, <2>2, GoesToNextJob
    <2>3. CASE /\ attempt < Retries /\ script' = "sleep" /\ attempt' = attempt + 1
               /\ UNCHANGED <<job, failures>>
      <3>1. attempt' \in 1 .. Retries
        BY <2>3, Known
      <3> QED BY <1>0, <2>1, <2>3, <3>1, Steps DEF Rest, clientVars
    <2> QED BY <1>6, <2>2, <2>3 DEF AttemptFails, Again
  <1>7. CASE Sleep
    <2>1. attempt \in 1 .. Retries /\ stage \in Dead
      BY <1>0, <1>7 DEF Sleep, IInv, TypeOK
    <2> QED BY <1>0, <1>7, <2>1, Steps DEF Sleep, Rest, clientVars
  <1> QED BY <1>1, <1>2, <1>3, <1>4, <1>5, <1>6, <1>7

\* Nothing changes.
LEMMA Stuttering ==
    ASSUME IInv, UNCHANGED allVars
    PROVE  IInv'
  <1> USE DEF allVars, vars, clientVars, scriptVars
  <1>1. ClientTypeOK' /\ TrafficExact' /\ ActiveExact'
    BY ScriptFrame DEF IInv, TypeOK, ClientTypeOK
  <1>2. TypeOK'
    BY <1>1 DEF IInv, TypeOK
  <1>3. ScriptExact' /\ ReportsExact' /\ CompleteExact'
    BY DEF IInv, ScriptExact, ReportsExact, Reported, CompleteExact
  <1> QED BY <1>1, <1>2, <1>3 DEF IInv

\* Signals, the kernel, crashes and reruns.
LEMMA Disturbed ==
    ASSUME IInv, CtrlC \/ Terminate \/ ClientKilled \/ WriteBack \/ Crash \/ Rerun \/ Over
    PROVE  IInv'
  <1>1. CASE CtrlC
    <2> USE <1>1 DEF CtrlC
    <2>1. ClientTypeOK' /\ TrafficExact' /\ ActiveExact'
      BY Interrupted
    <2>2. /\ script' \notin Ended /\ script \notin Ended
          /\ script' = script \/ (script = "verify" /\ script' = "failed")
             \/ (script = "move" /\ script' = "moved")
      BY DEF Ended
    <2>3. stage' \notin Dead => stage \notin Dead
      BY DEF InterruptClient, Exit, AbandonTraffic, clientVars, Dead
    <2>4. script' \in {"head", "launch", "waiting", "verify", "move", "moved", "failed", "sleep"}
      BY <2>2 DEF IInv, TypeOK
    <2>5. stage' \notin Dead => script' = "waiting"
      BY <2>2, <2>3 DEF IInv, TypeOK
    <2>6. TypeOK'
      BY <2>1, <2>4, <2>5 DEF IInv, TypeOK
    <2>7. ScriptExact'
      BY <2>2 DEF IInv, ScriptExact, OnJob
    <2>8. ReportsExact' /\ CompleteExact'
      BY <2>2 DEF ReportsExact, CompleteExact, Ended
    <2> QED BY <2>1, <2>6, <2>7, <2>8 DEF IInv
  <1>2. CASE Terminate
    <2> USE <1>2 DEF Terminate
    <2>1. ClientTypeOK' /\ TrafficExact' /\ ActiveExact'
      BY ScriptFrame DEF clientVars, IInv, TypeOK, ClientTypeOK
    <2>2. TypeOK'
      BY <2>1 DEF IInv, TypeOK, clientVars
    <2>3. ScriptExact' /\ ReportsExact' /\ CompleteExact'
      BY DEF IInv, ScriptExact, ReportsExact, Reported, CompleteExact, Ended
    <2> QED BY <2>1, <2>2, <2>3 DEF IInv
  <1>3. CASE ClientKilled
    <2>1. ClientTypeOK' /\ TrafficExact' /\ ActiveExact'
      BY <1>3, Killed DEF ClientKilled
    <2>2. script = "waiting" /\ UNCHANGED scriptVars /\ job' = job /\ temp' = temp
      BY <1>3 DEF ClientKilled, IInv, TypeOK
    <2> QED BY <2>1, <2>2, ClientFrame
  <1>4. CASE Crash
    <2> USE <1>4 DEF Crash
    <2>1. ClientTypeOK' /\ TrafficExact' /\ ActiveExact'
      BY Killed
    <2>2. final' \in [Jobs -> {"absent", "partial", "good", "bad"}]
      BY DEF IInv, TypeOK
    <2>3. stage' \in Dead /\ script' = "crashed"
      BY DEF KillClient, Exit, Dead
    <2>4. TypeOK'
      BY <2>1, <2>2, <2>3 DEF IInv, TypeOK, Ended
    <2>5. ScriptExact' /\ ReportsExact' /\ CompleteExact'
      BY <2>3 DEF IInv, ScriptExact, ReportsExact, CompleteExact, Ended, OnJob
    <2> QED BY <2>1, <2>4, <2>5 DEF IInv
  <1>5. CASE Rerun
    <2> USE <1>5 DEF Rerun
    <2>1. stage \in Dead
      BY DEF IInv, TypeOK, Ended
    <2>2. ClientTypeOK' /\ TrafficExact' /\ ActiveExact'
      BY <2>1, ScriptFrame DEF IInv, TypeOK, ClientTypeOK
    <2>3. job' \in 1 .. 2 * Rounds + 1 /\ attempt' \in 1 .. Retries /\ failures' \in 0 .. 2 * Rounds
          /\ failures' < job'
      BY Known
    <2>4. TypeOK'
      BY <2>2, <2>3 DEF IInv, TypeOK, Dead
    <2>5. ScriptExact'
      BY <2>3 DEF ScriptExact, OnJob
    <2>6. ReportsExact' /\ CompleteExact'
      BY DEF ReportsExact, CompleteExact, Jobs
    <2> QED BY <2>2, <2>4, <2>5, <2>6 DEF IInv
  <1>6. CASE Over
    BY <1>6, Stuttering DEF Over
  <1>7. CASE WriteBack
    <2>1. UNCHANGED <<vars, script, attempt, failures, interrupted, final, unmoved>>
      BY <1>7 DEF WriteBack
    <2> USE <2>1 DEF vars, clientVars
    <2>2. ClientTypeOK' /\ TrafficExact' /\ ActiveExact'
      BY ScriptFrame DEF IInv, TypeOK, ClientTypeOK
    <2>3. unsynced' \subseteq Jobs
      BY <1>7 DEF WriteBack, IInv, TypeOK
    <2>4. TypeOK'
      BY <2>2, <2>3 DEF IInv, TypeOK
    <2>5. ScriptExact' /\ ReportsExact' /\ CompleteExact'
      BY DEF IInv, ScriptExact, ReportsExact, Reported, CompleteExact
    <2> QED BY <2>2, <2>4, <2>5 DEF IInv
  <1> QED BY <1>1, <1>2, <1>3, <1>4, <1>5, <1>6, <1>7

-----------------------------------------------------------------------------
(* The specification *)

\* The first invariant holds at the start.
LEMMA InitIInv ==
    ASSUME ScriptInit
    PROVE  IInv
  <1> USE DEF ScriptInit, Init
  <1>0. Rounds \in Nat /\ Retries \in Nat \ {0} /\ MaxFaults \in Nat
    BY ExperimentAssumption, RetriesAssumption
  <1>1. records \in Seq(TrialRecords) /\ Len(records) <= Len(plan)
    BY NoRecords, Zenon
  <1>2. ClientTypeOK
    <2>1. faults \in 0 .. MaxFaults
      BY <1>0
    <2>2. plan \in Plans(Offsets, Per, Trials) \cup {<< >>}
      OBVIOUS
    <2>3. turns \in [Roles -> {"none", "sent", "ok", "refused", "lost"}]
      BY DEF NoTurns
    <2> QED BY <1>1, <2>1, <2>2, <2>3 DEF ClientTypeOK, Dead
  <1>3. TypeOK
    <2>1. job \in 1 .. 2 * Rounds + 1 /\ attempt \in 1 .. Retries /\ failures \in 0 .. 2 * Rounds
      BY <1>0
    <2>2. final \in [Jobs -> {"absent", "partial", "good", "bad"}]
      OBVIOUS
    <2> QED BY <1>2, <2>1, <2>2 DEF TypeOK, Dead
  <1>4. TrafficExact /\ ActiveExact
    BY DEF TrafficExact, ActiveExact, WedgedOnlyForCause
  <1>5. ScriptExact /\ ReportsExact /\ CompleteExact
    BY DEF ScriptExact, ReportsExact, CompleteExact, OnJob, Jobs
  <1> QED BY <1>3, <1>4, <1>5 DEF IInv

\* Every step preserves the first invariant.
LEMMA NextIInv ==
    ASSUME IInv, [Next]_allVars
    PROVE  IInv'
  BY Client, Loop, RunOne, Disturbed, Stuttering DEF Next, ScriptStep

\* The invariant is kept by every step of the script, its client, the server
\* and whoever interrupts them.
THEOREM Invariance == Spec => []IInv
  BY InitIInv, NextIInv, PTL DEF Spec

\* Type correctness: the script never counts more failures or attempts than
\* there are, and a client runs only while the script waits for it.
THEOREM TypeCorrect == Spec => []TypeOK
  <1>1. IInv => TypeOK
    BY DEF IInv
  <1> QED BY <1>1, Invariance, PTL

\* The script says that the campaign is complete only if every run has a good
\* report, under its final name unless mv failed, for any number of seeds,
\* attempts, interrupts, failed moves, crashes and reruns.
THEOREM CompleteCorrect == Spec => []CompleteMeansAll
  <1>1. ASSUME IInv
        PROVE  CompleteMeansAll
    <2>1. SUFFICES ASSUME script = "complete", NEW n \in Jobs
                   PROVE  Reported(n)
      BY DEF CompleteMeansAll
    <2>2. failures = 0 /\ ~interrupted /\ job \notin Jobs
      BY <1>1, <2>1 DEF IInv, CompleteExact, ReportsExact
    <2>3. n < job
      BY <1>1, <2>2, Known DEF Jobs
    <2> QED BY <1>1, <2>1, <2>2, <2>3 DEF IInv, ReportsExact
  <1> QED BY <1>1, Invariance, PTL

\* An experiment is left active on the server only if the answer to its start
\* or its stop was lost, the client was killed, or it could not install its
\* Ctrl-C handler (run_matrix).
THEOREM WedgedCorrect == Spec => []WedgedOnlyForCause
  <1>1. IInv => WedgedOnlyForCause
    BY DEF IInv, ActiveExact
  <1> QED BY <1>1, Invariance, PTL

\* A good final report is never replaced, truncated or removed but by a crash
\* of the host before the kernel has written it to the disk.
THEOREM ReportsKept == Spec => ReportsPreserved
  <1>1. ASSUME IInv, [Next]_allVars, NEW n \in Jobs, final[n] = "good"
        PROVE  \/ final'[n] = "good"
               \/ n \in unsynced /\ script' = "crashed"
    <2>1. CASE UNCHANGED final
      BY <1>1, <2>1
    <2>2. CASE Move
      <3>1. job \in Jobs /\ final' = [final EXCEPT ![job] = "good"]
        BY <1>1, <2>2 DEF Move, IInv, ScriptExact, OnJob
      <3> QED BY <1>1, <3>1 DEF IInv, TypeOK
    <2>3. CASE Crash
      BY <1>1, <2>3 DEF Crash, IInv, TypeOK
    <2>4. UNCHANGED final \/ Move \/ Crash
      BY <1>1 DEF Next, ScriptStep, scriptVars, allVars, SkipCompleted, Die, BeginJob, Finish,
         Launch, ClientEnds, Verify, Summarize, AttemptFails, Sleep, MoveFails, CtrlC,
         Terminate, ClientKilled, WriteBack, Rerun, Over
    <2> QED BY <2>1, <2>2, <2>3, <2>4
  <1>2. IInv /\ [Next]_allVars =>
          [\A n \in Jobs :
              final[n] = "good" =>
                  \/ final'[n] = "good"
                  \/ n \in unsynced /\ script' = "crashed"]_allVars
    BY <1>1
  <1> QED BY <1>2, Invariance, PTL DEF Spec, ReportsPreserved

-----------------------------------------------------------------------------
(* The plan, the records and the score *)

\* The client has no plan.
Planless == Dead \cup {"profiles"}

\* A probe has the latency of its trial if it followed a sender's turn which
\* ran, in a run with signal, and that of the fast bit otherwise.
RecordsExact ==
    ~Control(job) =>
        \A k \in 1 .. Len(records) :
            records[k].latency
                = 10 * plan[k].gap + (IF records[k].sender /\ plan[k].bit = slower[plan[k].gap]
                                        THEN 3 ELSE 0)

\* calibrate has found a sample of either bit wherever it looked.
Calibrated ==
    \A g \in ByOffset, b \in Bits : Calibrating(g, b) # {}

\* The second inductive invariant, on top of the first: traffic that is done
\* has a record of every trial, and only such traffic is scored.
SInv ==
    /\ stage \notin Planless => plan \in Plans(Offsets, Per, Trials) /\ Trials >= MinimumTrials
    /\ stage \in Planless \cup {"sessions", "start", "started", "traffic"} => traffic = "none"
    /\ stage \in {"stop", "stopped"} => traffic \in {"done", "failed"}
    /\ stage \in {"records", "score", "write"} => traffic = "done"
    /\ traffic = "done" => Len(records) = Len(plan)
    /\ RecordsExact
    /\ stage = "write" => Calibrated

\* A client that has not begun, or has ended, has recorded nothing.
LEMMA ScoreNothing ==
    ASSUME stage' \in Planless, records' = << >>, traffic' = "none"
    PROVE  SInv'
  <1>1. \A k \in 1 .. Len(records') : FALSE
    BY DEF Planless
  <1>2. RecordsExact'
    BY <1>1 DEF RecordsExact
  <1> QED BY <1>2 DEF SInv, Planless, Dead

\* The client ends.
LEMMA ScoreExits ==
    ASSUME NEW status \in {"ok", "error"}, Exit(status)
    PROVE  SInv'
  BY ScoreNothing DEF Exit, Planless, Dead

\* A step that leaves the plan, the records and the run alone.
LEMMA RecordsKept ==
    ASSUME RecordsExact, UNCHANGED <<slower, job, plan, records>>
    PROVE  RecordsExact'
  BY DEF RecordsExact

\* A step that leaves the client's stage alone as well.
LEMMA ScoreKept ==
    ASSUME SInv, UNCHANGED <<slower, job, stage, plan, records, traffic>>
    PROVE  SInv'
  <1>1. RecordsExact'
    BY RecordsKept DEF SInv
  <1>2. Calibrated => Calibrated'
    BY DEF Calibrated, ByOffset, Calibrating, Prefix
  <1> QED BY <1>1, <1>2 DEF SInv

\* A step that only goes on to the next stage.
LEMMA ScoreGoesOn ==
    ASSUME SInv, stage \notin Planless,
           <<stage, stage'>> \in {<<"sessions", "start">>, <<"start", "started">>,
                                  <<"started", "traffic">>, <<"stop", "stopped">>,
                                  <<"records", "score">>},
           UNCHANGED <<slower, job, plan, records, traffic>>
    PROVE  SInv'
  <1>1. RecordsExact'
    BY RecordsKept DEF SInv
  <1> QED BY <1>1 DEF SInv, Planless, Dead

\* A plan is made.
LEMMA ScorePlanned ==
    ASSUME IInv, SInv, GetProfiles
    PROVE  SInv'
  <1>1. CASE Trials < MinimumTrials
    BY <1>1, ScoreExits DEF GetProfiles
  <1>2. CASE ~(Trials < MinimumTrials)
    <2>1. /\ plan' \in Plans(Offsets, Per, Trials) /\ stage = "profiles" /\ stage' = "sessions"
          /\ UNCHANGED <<records, traffic>>
      BY <1>2 DEF GetProfiles
    <2>2. records' = << >> /\ traffic' = "none"
      BY <2>1 DEF IInv, TrafficExact, SInv, Planless
    <2>3. RecordsExact'
      BY <2>2 DEF RecordsExact
    <2>4. Trials >= MinimumTrials
      <3>1. CalibrationLen(Offsets, Per) \in Nat
        BY ExperimentAssumption, GapsShape
      <3> QED BY <1>2, <3>1, ExperimentAssumption DEF MinimumTrials
    <2> QED BY <2>1, <2>2, <2>3, <2>4 DEF SInv, Planless, Dead
  <1> QED BY <1>1, <1>2

\* The traffic is given up.
LEMMA ScoreAbandoned ==
    ASSUME SInv, stage = "traffic", AbandonTraffic, UNCHANGED <<slower, job>>
    PROVE  SInv'
  <1>1. RecordsExact'
    BY RecordsKept DEF SInv, AbandonTraffic
  <1> QED BY <1>1 DEF SInv, AbandonTraffic, Planless, Dead

\* A trial is recorded.
LEMMA ScoreRecorded ==
    ASSUME IInv, SInv, EndTrial
    PROVE  SInv'
  <1> DEFINE rec == [sender |-> turns.sender = "ok", probe |-> turns.probe = "ok",
                     latency |-> LatencyOf(plan[Len(records) + 1])]
  <1>1. /\ stage = "traffic" /\ records' = Append(records, rec)
        /\ UNCHANGED <<slower, job, plan>>
        /\ IF Len(records') < Len(plan) THEN UNCHANGED <<stage, traffic>>
           ELSE stage' = "stop" /\ traffic' = "done"
    BY DEF EndTrial
  <1>2. /\ plan \in Plans(Offsets, Per, Trials) /\ Trials >= MinimumTrials
        /\ traffic = "none" /\ RecordsExact
    BY <1>1 DEF SInv, Planless, Dead
  <1>3. /\ records \in Seq(TrialRecords) /\ Len(records) < Len(plan)
    BY <1>1 DEF IInv, TrafficExact, TypeOK, ClientTypeOK
  <1>4. PICK n \in Nat : n = Len(plan)
    BY <1>2, PlanShape, ExperimentAssumption
  <1>5. PICK m \in Nat : m = Len(records)
    <2> DEFINE T == TrialRecords
    <2> HIDE DEF T
    <2>1. records \in Seq(T)
      BY <1>3 DEF T
    <2>2. Len(records) \in Nat
      BY <2>1
    <2> QED BY <2>2
  <1>6. /\ Len(records') = m + 1 /\ records'[m + 1] = rec
        /\ \A k \in 1 .. m : records'[k] = records[k]
    <2> DEFINE T == TrialRecords
    <2> HIDE DEF T, rec
    <2>1. records \in Seq(T)
      BY <1>3 DEF T
    <2> QED BY <1>1, <1>5, <2>1
  <1>7. RecordsExact'
    <2>1. ASSUME NEW k \in 1 .. m + 1, ~Control(job)
          PROVE  records'[k].latency
                     = 10 * plan[k].gap
                         + (IF records'[k].sender /\ plan[k].bit = slower[plan[k].gap]
                              THEN 3 ELSE 0)
      <3>1. CASE k \in 1 .. m
        <4>1. records'[k] = records[k] /\ k \in 1 .. Len(records)
          BY <1>5, <1>6, <3>1
        <4> QED BY <1>2, <2>1, <4>1 DEF RecordsExact
      <3>2. CASE k = m + 1
        <4>1. rec.sender = (turns.sender = "ok") /\ rec.latency = LatencyOf(plan[m + 1])
          BY <1>5
        <4> HIDE DEF rec
        <4>2. records'[k] = rec
          BY <1>6, <3>2
        <4>3. records'[k].sender <=> turns.sender = "ok"
          BY <4>1, <4>2
        <4>4. records'[k].latency = LatencyOf(plan[k])
          BY <3>2, <4>1, <4>2
        <4> QED BY <2>1, <4>3, <4>4 DEF LatencyOf
      <3> QED BY <3>1, <3>2
    <2>2. Control(job') <=> Control(job)
      BY <1>1 DEF Control
    <2> QED BY <1>1, <1>6, <2>1, <2>2 DEF RecordsExact
  <1>8. traffic' = "done" => Len(records') = Len(plan')
    <2>1. m + 1 <= n
      BY <1>3, <1>4, <1>5
    <2> QED BY <1>1, <1>2, <1>4, <1>6, <2>1
  <1>9. \/ stage' = "traffic" /\ traffic' = "none"
        \/ stage' = "stop" /\ traffic' = "done"
    BY <1>1, <1>2
  <1> QED BY <1>1, <1>2, <1>7, <1>8, <1>9 DEF SInv, Planless, Dead

\* After the traffic.
LEMMA ScoreMade ==
    ASSUME SInv, Stop \/ StopLost \/ Conclude \/ GetRecords \/ Score \/ WriteReport
    PROVE  SInv'
  <1>1. CASE Stop \/ StopLost
    BY <1>1, ScoreGoesOn DEF Stop, StopLost, Planless, Dead
  <1>2. CASE Conclude
    <2>1. CASE traffic = "failed" \/ stopped = "failed"
      BY <1>2, <2>1, ScoreExits DEF Conclude
    <2>2. CASE ~(traffic = "failed" \/ stopped = "failed")
      <3>1. /\ stage = "stopped" /\ stage' = "records"
            /\ UNCHANGED <<slower, job, plan, records, traffic>>
        BY <1>2, <2>2 DEF Conclude
      <3>2. RecordsExact'
        BY <3>1, RecordsKept DEF SInv
      <3> QED BY <2>2, <3>1, <3>2 DEF SInv, Planless, Dead
    <2> QED BY <2>1, <2>2
  <1>3. CASE GetRecords
    BY <1>3, ScoreGoesOn DEF GetRecords, Planless, Dead
  <1>4. CASE Score
    <2>1. CASE Calibrated
      <3>1. /\ stage = "score" /\ stage' = "write"
            /\ UNCHANGED <<slower, job, plan, records, traffic>>
        BY <1>4, <2>1 DEF Score, Calibrated
      <3>2. RecordsExact'
        BY <3>1, RecordsKept DEF SInv
      <3>3. Calibrated'
        BY <2>1, <3>1 DEF Calibrated, ByOffset, Calibrating, Prefix
      <3> QED BY <3>1, <3>2, <3>3 DEF SInv, Planless, Dead
    <2>2. CASE ~Calibrated
      <3>1. Exit("error")
        BY <1>4, <2>2 DEF Score, Calibrated
      <3> QED BY <3>1, ScoreExits
    <2> QED BY <2>1, <2>2
  <1>5. CASE WriteReport
    BY <1>5, ScoreExits DEF WriteReport
  <1> QED BY <1>1, <1>2, <1>3, <1>4, <1>5

\* Every step of the script, its client and whoever interrupts them.
LEMMA NextSInv ==
    ASSUME IInv, SInv, [Next]_allVars
    PROVE  SInv'
  <1>1. CASE ClientStep \/ RequestFails
    <2>1. CASE CreateSessions \/ ServerStarts \/ StartAnswered
      BY <2>1, ScoreGoesOn DEF CreateSessions, ServerStarts, StartAnswered, Planless, Dead
    <2>2. CASE ServerRefuses \/ StartAnswerLost \/ HandlerFails \/ StepFails
      BY <2>2, ScoreExits DEF ServerRefuses, StartAnswerLost, HandlerFails, StepFails
    <2>3. CASE BeginTrial \/ \E r \in Roles : TurnEnds(r)
      BY <2>3, ScoreKept DEF BeginTrial, TurnEnds
    <2>4. CASE TrialFails
      BY <2>4, ScoreAbandoned DEF TrialFails
    <2> QED BY <1>1, <2>1, <2>2, <2>3, <2>4, ScorePlanned, ScoreRecorded, ScoreMade
            DEF ClientStep, RequestFails
  <1>2. CASE ScriptStep \/ Rerun
    <2>1. CASE stage \in Planless /\ stage' \in Planless /\ UNCHANGED <<records, traffic>>
      <3>1. records' = << >> /\ traffic' = "none"
        BY <2>1 DEF IInv, TrafficExact, SInv, Planless, Dead
      <3> QED BY <2>1, <3>1, ScoreNothing
    <2>2. UNCHANGED <<records, traffic>>
      BY <1>2 DEF ScriptStep, SkipCompleted, Die, BeginJob, Finish, Launch, ClientEnds, Verify,
                  Move, Summarize, AttemptFails, Sleep, Rerun, Rest, clientVars
    <2>3. stage \in Planless
      <3>1. script # "waiting" \/ stage \in {"ok", "error"}
        BY <1>2 DEF ScriptStep, SkipCompleted, Die, BeginJob, Finish, Launch, ClientEnds, Verify,
                    Move, Summarize, AttemptFails, Sleep, Rerun, Ended
      <3> QED BY <3>1 DEF IInv, TypeOK, Planless, Dead
    <2>4. stage' = stage \/ stage' \in {"off", "profiles"}
      BY <1>2 DEF ScriptStep, SkipCompleted, Die, BeginJob, Finish, Launch, ClientEnds, Verify,
                  Move, Summarize, AttemptFails, Sleep, Rerun, Rest, clientVars
    <2> QED BY <2>1, <2>2, <2>3, <2>4 DEF Planless, Dead
  <1>3. CASE MoveFails \/ Terminate \/ WriteBack \/ UNCHANGED allVars
    BY <1>3, ScoreKept DEF MoveFails, Terminate, WriteBack, allVars, vars, clientVars
  <1>4. CASE ClientKilled \/ Crash
    BY <1>4, ScoreExits DEF ClientKilled, Crash, KillClient
  <1>5. CASE CtrlC
    <2>1. CASE stage \in {"profiles", "sessions", "start", "started"}
      BY <1>5, <2>1, ScoreExits DEF CtrlC, InterruptClient
    <2>2. CASE stage = "traffic"
      BY <1>5, <2>2, ScoreAbandoned DEF CtrlC, InterruptClient
    <2>3. CASE stage \notin {"profiles", "sessions", "start", "started", "traffic"}
      BY <1>5, <2>3, ScoreKept DEF CtrlC, InterruptClient, clientVars
    <2> QED BY <2>1, <2>2, <2>3
  <1> QED BY <1>1, <1>2, <1>3, <1>4, <1>5 DEF Next, Over

\* The second invariant holds at the start.
LEMMA InitSInv ==
    ASSUME ScriptInit
    PROVE  SInv
  <1> USE DEF ScriptInit, Init
  <1>1. RecordsExact
    BY DEF RecordsExact
  <1> QED BY <1>1 DEF SInv, Planless, Dead

\* The plan, the traffic and the records are exact in every reachable state:
\* only a run with a record of every trial and a sample of either bit is
\* scored (run_matrix, calibrate).
THEOREM ScoreInvariance == Spec => [](IInv /\ SInv)
  BY InitIInv, NextIInv, InitSInv, NextSInv, PTL DEF Spec

\* Over a channel that separates the bits, in whichever direction at each
\* offset, every scored trial is decoded as it was sent, whichever turns were
\* refused and however often an offset is listed, if the sender's turn ran in
\* one calibration trial of its offset's slow bit; if in none, it is decoded as
\* a one (calibrate, decode_bit, and the pairs of compute_report).
THEOREM ScoringCorrect == Spec => []ScoringSound
  <1>1. ASSUME IInv, SInv, stage = "write", ~Control(job), NEW k \in Pairs
        PROVE  Decoded(k) =
                   IF \E i \in Calibrating(plan[k].gap, slower[plan[k].gap]) : records[i].sender
                     THEN plan[k].bit ELSE 1
    <2> DEFINE L == [i \in DOMAIN records |-> records[i].latency]
    <2>1. /\ plan \in Plans(Offsets, Per, Trials) /\ Trials >= MinimumTrials
          /\ Len(records) = Len(plan) /\ RecordsExact /\ Calibrated
      BY <1>1 DEF SInv, Planless, Dead
    <2>2. /\ Offsets \in Seq(Nat) /\ Per \in Nat /\ Per > 0 /\ Trials \in Nat /\ Spare \in Nat
      BY ExperimentAssumption
    <2>3. plan \in Seq(TrialsOf(Offsets)) /\ Len(plan) = Trials
      BY <2>1, PlanShape DEF TrialsOf
    <2>4. Prefix \in Nat /\ Prefix <= Trials
      <3>1. PICK p : p = plan
        OBVIOUS
      <3>2. PrefixLen(p, Per) \in Nat /\ PrefixLen(p, Per) <= CalibrationLen(Offsets, Per)
        BY <2>2, <2>3, <3>1, PrefixWithin
      <3>3. CalibrationLen(Offsets, Per) \in Nat
        BY <2>2, GapsShape
      <3>4. CalibrationLen(Offsets, Per) <= Trials
        BY <2>1, <2>2, <3>3 DEF MinimumTrials
      <3> QED BY <2>2, <3>1, <3>2, <3>3, <3>4 DEF Prefix
    <2>5. /\ DOMAIN plan = 1 .. Trials
          /\ \A i \in 1 .. Trials : plan[i].bit \in Bits /\ plan[i].gap \in Range(Offsets)
      <3> DEFINE T == TrialsOf(Offsets)
      <3>1. plan \in Seq(T)
        BY <2>3
      <3> HIDE DEF T
      <3>2. DOMAIN plan = 1 .. Trials /\ \A i \in 1 .. Trials : plan[i] \in T
        BY <2>3, <3>1
      <3> QED BY <3>2 DEF T, TrialsOf
    <2>6. DOMAIN records = 1 .. Trials
      <3> DEFINE T == TrialRecords
      <3> HIDE DEF T
      <3>1. records \in Seq(T)
        BY <1>1 DEF T, IInv, TypeOK, ClientTypeOK
      <3> QED BY <2>1, <2>3, <3>1
    <2>7. k \in 1 .. Trials /\ records[k].sender /\ plan[k].gap \in ByOffset
      <3>1. k \in Prefix + 1 .. Trials /\ records[k].sender /\ plan[k].gap \in ByOffset
        BY <1>1, <2>3 DEF Pairs
      <3> QED BY <2>2, <2>4, <3>1
    <2>8. PICK g \in Nat : g = plan[k].gap
      <3>1. \A h \in Range(Offsets) : h \in Nat
        BY <2>2, GapsShape
      <3> QED BY <2>5, <2>7, <3>1
    <2>9. PICK slow \in Bits : slow = slower[g]
      <3>1. slower \in [Range(Offsets) -> Bits]
        BY <1>1 DEF IInv, TypeOK, ClientTypeOK
      <3> QED BY <2>5, <2>7, <2>8, <3>1
    <2>10. PICK lo \in Nat : lo = 10 * g
      OBVIOUS
    <2>11. ASSUME NEW i \in 1 .. Trials, plan[i].gap = g
           PROVE  records[i].latency
                      = lo + (IF records[i].sender /\ plan[i].bit = slow THEN 3 ELSE 0)
      <3>1. i \in 1 .. Len(records)
        BY <2>1, <2>3, <2>11
      <3> QED BY <1>1, <2>1, <2>9, <2>10, <2>11, <3>1 DEF RecordsExact
    <2>12. ASSUME NEW b \in Bits
           PROVE  /\ IsFiniteSet(Calibrating(g, b)) /\ Calibrating(g, b) # {}
                  /\ \A i \in Calibrating(g, b) :
                        L[i] = lo + (IF records[i].sender /\ b = slow THEN 3 ELSE 0)
      <3>1. Calibrating(g, b) \subseteq 1 .. Prefix
        BY DEF Calibrating, Samples
      <3>2. IsFiniteSet(Calibrating(g, b))
        <4>1. IsFiniteSet(1 .. Prefix)
          BY <2>4, FS_Interval
        <4> QED BY <3>1, <4>1, FS_Subset
      <3>3. Calibrating(g, b) # {}
        BY <2>1, <2>7, <2>8, <2>12 DEF Calibrated
      <3>4. ASSUME NEW i \in Calibrating(g, b)
            PROVE  L[i] = lo + (IF records[i].sender /\ b = slow THEN 3 ELSE 0)
        <4>1. plan[i] = [bit |-> b, gap |-> g]
          BY DEF Calibrating, Samples
        <4>2. plan[i].bit = b /\ plan[i].gap = g
          BY <4>1
        <4>3. i \in 1 .. Trials
          BY <2>2, <2>4, <3>1
        <4>4. L[i] = records[i].latency
          BY <2>6, <4>3
        <4> QED BY <2>11, <4>2, <4>3, <4>4
      <3> QED BY <3>2, <3>3, <3>4
    <2>13. Decode(Mean(L, Calibrating(g, 0)), Mean(L, Calibrating(g, 1)), records[k].latency)
               = IF \E i \in Calibrating(g, slow) : records[i].sender THEN plan[k].bit ELSE 1
      <3>1. PICK b \in Bits : b = plan[k].bit
        BY <2>5, <2>7
      <3>2. PICK x : x = records[k].latency
        OBVIOUS
      <3>3. PICK f, Z, O : f = L /\ Z = Calibrating(g, 0) /\ O = Calibrating(g, 1)
        OBVIOUS
      <3> HIDE DEF L
      <3>4. /\ IsFiniteSet(Z) /\ Z # {} /\ IsFiniteSet(O) /\ O # {}
            /\ \A i \in Z : f[i] = lo + (IF records[i].sender /\ 0 = slow THEN 3 ELSE 0)
            /\ \A i \in O : f[i] = lo + (IF records[i].sender /\ 1 = slow THEN 3 ELSE 0)
        <4>1. 0 \in Bits /\ 1 \in Bits
          BY DEF Bits
        <4> QED BY <2>12, <3>3, <4>1
      <3>5. /\ \A i \in Z : f[i] \in {lo, lo + 3} /\ (slow = 1 => f[i] = lo)
            /\ \A i \in O : f[i] \in {lo, lo + 3} /\ (slow = 0 => f[i] = lo)
        BY <3>4
      <3>6. x = lo + (IF b = slow THEN 3 ELSE 0)
        BY <2>7, <2>8, <2>11, <3>1, <3>2
      <3>7. Decode(Mean(f, Z), Mean(f, O), x)
                = IF \E i \in (IF slow = 0 THEN Z ELSE O) : f[i] = lo + 3 THEN b ELSE 1
        BY <3>4, <3>5, <3>6, DecodeDiluted
      <3>8. (\E i \in (IF slow = 0 THEN Z ELSE O) : f[i] = lo + 3)
                <=> \E i \in Calibrating(g, slow) : records[i].sender
        <4>1. CASE slow = 0
          <5>1. \A i \in Z : f[i] = lo + 3 <=> records[i].sender
            BY <3>4, <4>1
          <5> QED BY <3>3, <4>1, <5>1
        <4>2. CASE slow = 1
          <5>1. \A i \in O : f[i] = lo + 3 <=> records[i].sender
            BY <3>4, <4>2
          <5> QED BY <3>3, <4>2, <5>1
        <4> QED BY <4>1, <4>2 DEF Bits
      <3> QED BY <3>1, <3>2, <3>3, <3>7, <3>8
    <2> HIDE DEF L
    <2>14. Decoded(k) = Decode(Mean(L, Calibrating(g, 0)), Mean(L, Calibrating(g, 1)),
                               records[k].latency)
      BY <2>8 DEF Decoded, MeanLatency, L
    <2> QED BY <2>8, <2>9, <2>13, <2>14
  <1>2. IInv /\ SInv => ScoringSound
    BY <1>1 DEF ScoringSound
  <1> QED BY <1>2, ScoreInvariance, PTL
=============================================================================

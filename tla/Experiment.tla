----------------------------- MODULE Experiment -----------------------------
(***************************************************************************)
(* The benchmark client (crates/bench-client/src/main.rs, run_matrix) and  *)
(* the server it talks to, which is not in the repository: one experiment  *)
(* from the profiles to the report.  The server refuses to start an        *)
(* experiment while one is active, which is what the client's comment on   *)
(* "wedging the server" is about.                                          *)
(*                                                                         *)
(* The plan is any plan the shuffles can give (TrialPlan; Campaign checks  *)
(* the shuffling itself).  A turn's record is whether it was answered with *)
(* success and, for the probe, its latency.                                *)
(***************************************************************************)
EXTENDS TrialPlan

CONSTANTS
    Offsets,      \* target_overlap_us of the profile
    Per,          \* CALIBRATION_SAMPLES_PER_BIT_AND_OFFSET
    Spare,        \* trials that must be left for scoring
    Trials,       \* trials to run
    Roles,        \* of the turns of one trial, "sender" and "probe" among them
    Rounds,       \* seeds of the script; 0, "until interrupted", is not modelled
    StartSeed,
    MaxFaults     \* bound on what goes wrong

ASSUME ExperimentAssumption ==
    /\ Offsets \in Seq(Nat) \ {<< >>}
    /\ Per \in Nat \ {0} /\ Spare \in Nat /\ Trials \in Nat
    /\ {"sender", "probe"} \subseteq Roles
    /\ Rounds \in Nat \ {0} /\ StartSeed \in Nat /\ MaxFaults \in Nat

Jobs == 1 .. 2 * Rounds

\* A seed's two runs, control first for an even seed.
Control(n) ==
    LET seed == StartSeed + ((n - 1) \div 2)
    IN  (n % 2 = 1) <=> (seed % 2 = 0)

VARIABLES
    slower,    \* the bit after which probes are slow, for each offset
    job,       \* the script's run that the client is started for
    temp,      \* the temporary report of each run
    \* the client
    stage,     \* where it is, "off" if there is none
    plan,
    turns,     \* the requests of the current trial
    records,   \* what is recorded of the trials so far
    traffic,   \* traffic_result
    stopped,   \* stopped_run
    \* the server and the environment
    active,    \* the server's experiment: "none", this client's, or "left"
    mishap,    \* why the client did not stop its experiment
    faults

clientVars == <<stage, plan, turns, records, traffic, stopped>>
vars == <<slower, job, temp, clientVars, active, mishap, faults>>

NoTurns == [r \in Roles |-> "none"]
Dead    == {"off", "ok", "error"}

Init ==
    /\ slower \in [Range(Offsets) -> Bits]
    /\ job = 1
    /\ temp = [n \in Jobs |-> "absent"]
    /\ stage = "off"
    /\ plan = << >>
    /\ turns = NoTurns
    /\ records = << >>
    /\ traffic = "none"
    /\ stopped = "none"
    /\ active = "none"
    /\ mishap = "none"
    /\ faults = MaxFaults

Fault == faults > 0 /\ faults' = faults - 1

\* The process ends; what it has started and not stopped stays active.
Exit(status) ==
    /\ stage' = status
    /\ plan' = << >>
    /\ turns' = NoTurns
    /\ records' = << >>
    /\ traffic' = "none"
    /\ stopped' = "none"
    /\ active' = IF active = "mine" THEN "left" ELSE active

-----------------------------------------------------------------------------
(* Before the traffic *)

MinimumTrials == CalibrationLen(Offsets, Per) + Spare

GetProfiles ==
    /\ stage = "profiles"
    /\ IF Trials < MinimumTrials
         THEN Exit("error")
         ELSE /\ plan' \in Plans(Offsets, Per, Trials)
              /\ stage' = "sessions"
              /\ UNCHANGED <<turns, records, traffic, stopped, active>>
    /\ UNCHANGED <<slower, job, temp, mishap, faults>>

CreateSessions ==
    /\ stage = "sessions"
    /\ stage' = "start"
    /\ UNCHANGED <<slower, job, temp, plan, turns, records, traffic, stopped,
                   active, mishap, faults>>

\* The server starts the experiment and answers.
ServerStarts ==
    /\ stage = "start"
    /\ active = "none"
    /\ active' = "mine"
    /\ stage' = "started"
    /\ UNCHANGED <<slower, job, temp, plan, turns, records, traffic, stopped, mishap, faults>>

ServerRefuses ==
    /\ stage = "start"
    /\ active # "none"
    /\ Exit("error")
    /\ UNCHANGED <<slower, job, temp, mishap, faults>>

StartAnswered ==
    /\ stage = "started"
    /\ stage' = "traffic"
    /\ UNCHANGED <<slower, job, temp, plan, turns, records, traffic, stopped,
                   active, mishap, faults>>

\* The answer to the start is lost: the client does not know what to stop.
StartAnswerLost ==
    /\ Fault
    /\ stage = "started"
    /\ mishap' = "start answer lost"
    /\ Exit("error")
    /\ UNCHANGED <<slower, job, temp>>

-----------------------------------------------------------------------------
(* Traffic *)

\* run_trial_group sends the sender's turn and spawns the others.
BeginTrial ==
    /\ stage = "traffic"
    /\ turns = NoTurns
    /\ turns' = [r \in Roles |-> "sent"]
    /\ UNCHANGED <<slower, job, temp, stage, plan, records, traffic, stopped,
                   active, mishap, faults>>

\* A turn is answered with success or with another status, or is lost.
TurnEnds(r) ==
    /\ stage = "traffic"
    /\ turns[r] = "sent"
    /\ \/ turns' = [turns EXCEPT ![r] = "ok"] /\ UNCHANGED faults
       \/ Fault /\ \E s \in {"refused", "lost"} : turns' = [turns EXCEPT ![r] = s]
    /\ UNCHANGED <<slower, job, temp, stage, plan, records, traffic, stopped, active, mishap>>

\* A probe is slow if the sender's turn ran and its bit is the slow one.
LatencyOf(trial) ==
    10 * trial.gap + (IF /\ turns.sender = "ok"
                         /\ ~Control(job)
                         /\ trial.bit = slower[trial.gap]
                        THEN 3 ELSE 0)

Recorded == {"ok", "refused"}

\* All turns are joined: any status is recorded.
EndTrial ==
    /\ stage = "traffic"
    /\ \A r \in Roles : turns[r] \in Recorded
    /\ records' = Append(records, [sender  |-> turns.sender = "ok",
                                   probe   |-> turns.probe = "ok",
                                   latency |-> LatencyOf(plan[Len(records) + 1])])
    /\ turns' = NoTurns
    /\ IF Len(records') < Len(plan)
         THEN UNCHANGED <<stage, traffic>>
         ELSE stage' = "stop" /\ traffic' = "done"
    /\ UNCHANGED <<slower, job, temp, plan, stopped, active, mishap, faults>>

\* Mutant of AbandonTraffic: `?` on the traffic instead of after the stop.
AbandonTrafficAtOnce == Exit("error")

\* traffic_result is an error; the turns still open are dropped.
AbandonTraffic ==
    /\ stage' = "stop"
    /\ traffic' = "failed"
    /\ turns' = NoTurns
    /\ UNCHANGED <<plan, records, stopped, active>>

\* The sender is awaited first, then the others as they end: the first error
\* ends the traffic.
TrialFails ==
    /\ stage = "traffic"
    /\ \/ turns.sender = "lost"
       \/ turns.sender \in Recorded /\ \E r \in Roles : turns[r] = "lost"
    /\ AbandonTraffic
    /\ UNCHANGED <<slower, job, temp, mishap, faults>>

\* ctrl_c() installs its handler when the select is first polled.  If it
\* cannot, `?` leaves run_matrix from inside the select: the first turns are
\* dropped and the experiment is not stopped.
HandlerFails ==
    /\ Fault
    /\ stage = "traffic"
    /\ records = << >>
    /\ turns.sender \in {"none", "sent"}
    /\ mishap' = "no handler"
    /\ Exit("error")
    /\ UNCHANGED <<slower, job, temp>>

-----------------------------------------------------------------------------
(* After the traffic *)

\* The server closes the experiment; it may say that it was not completed or
\* that records were dropped.
Stop ==
    /\ stage = "stop"
    /\ stage' = "stopped"
    /\ active' = "none"
    /\ \/ stopped' = "clean" /\ UNCHANGED faults
       \/ Fault /\ stopped' \in {"incomplete", "failed"}
    /\ UNCHANGED <<slower, job, temp, plan, turns, records, traffic, mishap>>

\* The stop does not arrive; it is not tried again.
StopLost ==
    /\ Fault
    /\ stage = "stop"
    /\ stage' = "stopped"
    /\ stopped' = "failed"
    /\ mishap' = "stop lost"
    /\ UNCHANGED <<slower, job, temp, plan, turns, records, traffic, active>>

\* traffic_result? and then stopped_run?
Conclude ==
    /\ stage = "stopped"
    /\ IF traffic = "failed" \/ stopped = "failed"
         THEN Exit("error")
         ELSE stage' = "records" /\ UNCHANGED <<plan, turns, records, traffic, stopped, active>>
    /\ UNCHANGED <<slower, job, temp, mishap, faults>>

GetRecords ==
    /\ stage = "records"
    /\ stage' = "score"
    /\ UNCHANGED <<slower, job, temp, plan, turns, records, traffic, stopped,
                   active, mishap, faults>>

Prefix == PrefixLen(plan, Per)

\* aggregate_probe_latency: whether the sender's turn ran is not asked.
Calibrating(gap, bit) == {k \in Samples(plan, Prefix, gap, bit) : records[k].probe}

MeanLatency(S) == Mean([k \in DOMAIN records |-> records[k].latency], S)

Decoded(k) ==
    LET g == plan[k].gap
    IN  Decode(MeanLatency(Calibrating(g, 0)), MeanLatency(Calibrating(g, 1)),
               records[k].latency)

\* The offsets of by_offset.
ByOffset == {plan[k].gap : k \in 1 .. Prefix}

\* Mutant of Pairs: the sender's status is not looked at.
PairsAnySender ==
    {k \in Prefix + 1 .. Len(plan) : records[k].probe /\ plan[k].gap \in ByOffset}

\* The scored trials: decoded, which takes a calibrated offset, and sent.
Pairs ==
    {k \in Prefix + 1 .. Len(plan) :
        records[k].probe /\ records[k].sender /\ plan[k].gap \in ByOffset}

\* calibrate fails if a bit has no sample; then decoding, and fs::write
\* creates the file.
Score ==
    /\ stage = "score"
    /\ IF \A g \in ByOffset, b \in Bits : Calibrating(g, b) # {}
         THEN /\ stage' = "write"
              /\ temp' = [temp EXCEPT ![job] = "partial"]
              /\ UNCHANGED <<plan, turns, records, traffic, stopped, active>>
         ELSE Exit("error") /\ UNCHANGED temp
    /\ UNCHANGED <<slower, job, mishap, faults>>

\* The report holds the run_info that the stop was answered with.
WriteReport ==
    /\ stage = "write"
    /\ temp' = [temp EXCEPT ![job] = IF stopped = "clean" THEN "good" ELSE "bad"]
    /\ Exit("ok")
    /\ UNCHANGED <<slower, job, mishap, faults>>

\* One of the other requests, or the write, fails.
StepFails ==
    /\ Fault
    /\ stage \in {"profiles", "sessions", "start", "records", "write"}
    /\ Exit("error")
    /\ UNCHANGED <<slower, job, temp, mishap>>

ClientStep ==
    \/ GetProfiles \/ CreateSessions \/ ServerStarts \/ ServerRefuses \/ StartAnswered
    \/ BeginTrial \/ (\E r \in Roles : TurnEnds(r)) \/ EndTrial \/ TrialFails
    \/ Stop \/ Conclude \/ GetRecords \/ Score \/ WriteReport

RequestFails == StartAnswerLost \/ HandlerFails \/ StopLost \/ StepFails

-----------------------------------------------------------------------------
(* Signals *)

\* SIGINT.  Before the select is polled nothing handles it; in the traffic it
\* is an error like any other, once the handler is installed (HandlerFails);
\* afterwards tokio's handler stays installed and nobody listens.
InterruptClient ==
    CASE stage \in {"profiles", "sessions", "start", "started"} ->
             /\ Exit("error")
             /\ mishap' = IF active = "mine" THEN "killed" ELSE mishap
      [] stage = "traffic" -> AbandonTraffic /\ UNCHANGED mishap
      [] OTHER -> UNCHANGED <<clientVars, active, mishap>>

\* SIGTERM, SIGKILL or a crash of the host, at any time.
KillClient ==
    /\ Exit("error")
    /\ mishap' = IF active = "mine" THEN "killed" ELSE mishap

-----------------------------------------------------------------------------
(* Properties *)

TrialRecords == [sender : BOOLEAN, probe : BOOLEAN, latency : Nat]

\* What can keep the client from stopping its experiment.
Mishaps == {"start answer lost", "no handler", "stop lost", "killed"}

\* Type invariant of the client.
ClientTypeOK ==
    /\ slower \in [Range(Offsets) -> Bits]
    /\ temp \in [Jobs -> {"absent", "partial", "good", "bad"}]
    /\ stage \in Dead \cup {"profiles", "sessions", "start", "started", "traffic", "stop",
                            "stopped", "records", "score", "write"}
    /\ plan \in Plans(Offsets, Per, Trials) \cup {<< >>}
    /\ turns \in [Roles -> {"none", "sent", "ok", "refused", "lost"}]
    /\ records \in Seq(TrialRecords)
    /\ Len(records) <= Len(plan)
    /\ traffic \in {"none", "done", "failed"}
    /\ stopped \in {"none", "clean", "incomplete", "failed"}
    /\ active \in {"none", "mine", "left"}
    /\ mishap \in Mishaps \cup {"none"}
    /\ faults \in 0 .. MaxFaults

\* A client that ends leaves its experiment active on the server, where it
\* keeps every later one from starting, only if the answer to its start or its
\* stop was lost, it was killed, or it could not install its Ctrl-C handler:
\* never for a turn that failed, a Ctrl-C in the traffic, or anything that goes
\* wrong after the stop.  ("Always attempt to close the active experiment after
\* traffic starts", says the code; the handler is the exception.)
WedgedOnlyForCause == active = "left" => mishap \in Mishaps

\* Over a channel that separates the bits, every scored trial is decoded as it
\* was sent, whichever turns were refused and even if an offset is listed
\* twice: calibration counts probes whose sender was refused, but one trial of
\* the slow bit whose sender ran is enough to tell the bits apart.  Without
\* one, calibration does not fail and the bit is a one every time.
ScoringSound ==
    stage = "write" /\ ~Control(job) =>
        \A k \in Pairs :
            LET g == plan[k].gap
            IN  Decoded(k) = IF \E i \in Calibrating(g, slower[g]) : records[i].sender
                               THEN plan[k].bit ELSE 1
=============================================================================

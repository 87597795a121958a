----------------------------- MODULE LongBench ------------------------------
(***************************************************************************)
(* scripts/run-long-bench.sh: every seed with and without signal, each run *)
(* with retries, its report checked with jq before it gets its final name, *)
(* finished runs skipped, so that a campaign that was interrupted, killed  *)
(* or cut off by a crash is resumed by running the script again.           *)
(***************************************************************************)
EXTENDS Experiment

CONSTANT Retries

ASSUME RetriesAssumption == Retries \in Nat \ {0}

VARIABLES
    script,        \* where the script is, or how it ended
    attempt,
    failures,
    interrupted,
    final,         \* the final report of each run
    unmoved,       \* the runs of which this script's mv failed
    unsynced       \* the runs whose final report is not on the disk yet

scriptVars == <<script, attempt, failures, interrupted, final, unmoved, unsynced>>
allVars == <<vars, scriptVars>>

Ended == {"complete", "exhausted", "interrupted", "died", "crashed"}

ScriptInit ==
    /\ Init
    /\ script = "head"
    /\ attempt = 1
    /\ failures = 0
    /\ interrupted = FALSE
    /\ final = [n \in Jobs |-> "absent"]
    /\ unmoved = {}
    /\ unsynced = {}

\* What a step of the script leaves alone of Experiment, but for job.
Rest == UNCHANGED <<slower, temp, clientVars, active, mishap, faults>>

-----------------------------------------------------------------------------
(* The loop over seeds and modes *)

\* Mutant of Valid: a report that exists is good.
ValidIfExists(report) == report # "absent"

\* The jq predicate: the right run, completed, and no records dropped.
Valid(report) == report = "good"

NextJob(f) ==
    /\ script' = "head"
    /\ job' = job + 1
    /\ attempt' = 1
    /\ failures' = failures + f

\* Mutant of SkipCompleted: a completed run is made again.
RedoCompleted ==
    /\ script = "head" /\ ~interrupted
    /\ job \in Jobs
    /\ final[job] # "absent" /\ Valid(final[job])
    /\ final' = [final EXCEPT ![job] = "absent"]
    /\ script' = "launch"
    /\ UNCHANGED <<job, attempt, failures, interrupted, unmoved, unsynced>> /\ Rest

\* skip completed
SkipCompleted ==
    /\ script = "head" /\ ~interrupted
    /\ job \in Jobs
    /\ final[job] # "absent" /\ Valid(final[job])
    /\ NextJob(0)
    /\ UNCHANGED <<interrupted, final, unmoved, unsynced>> /\ Rest

\* existing report is invalid or mismatched
Die ==
    /\ script = "head" /\ ~interrupted
    /\ job \in Jobs
    /\ final[job] # "absent" /\ ~Valid(final[job])
    /\ script' = "died"
    /\ UNCHANGED <<job, attempt, failures, interrupted, final, unmoved, unsynced>> /\ Rest

BeginJob ==
    /\ script = "head" /\ ~interrupted
    /\ job \in Jobs
    /\ final[job] = "absent"
    /\ script' = "launch"
    /\ UNCHANGED <<job, attempt, failures, interrupted, final, unmoved, unsynced>> /\ Rest

\* After the last run, or at the first look at `interrupted` after a signal.
Finish ==
    /\ script = "head"
    /\ interrupted \/ job \notin Jobs
    /\ script' = IF interrupted THEN "interrupted"
                 ELSE IF failures > 0 THEN "exhausted" ELSE "complete"
    /\ UNCHANGED <<job, attempt, failures, interrupted, final, unmoved, unsynced>> /\ Rest

-----------------------------------------------------------------------------
(* run_one *)

Launch ==
    /\ script = "launch"
    /\ script' = "waiting"
    /\ stage' = "profiles"
    /\ mishap' = IF active = "left" THEN mishap ELSE "none"
    /\ UNCHANGED <<attempt, failures, interrupted, final, unmoved, unsynced>>
    /\ UNCHANGED <<slower, job, temp, plan, turns, records, traffic, stopped, active, faults>>

ClientEnds ==
    /\ script = "waiting"
    /\ stage \in {"ok", "error"}
    /\ script' = IF stage = "ok" THEN "verify" ELSE "failed"
    /\ stage' = "off"
    /\ UNCHANGED <<attempt, failures, interrupted, final, unmoved, unsynced>>
    /\ UNCHANGED <<slower, job, temp, plan, turns, records, traffic, stopped,
                   active, mishap, faults>>

Verify ==
    /\ script = "verify"
    /\ script' = IF Valid(temp[job]) THEN "move" ELSE "failed"
    /\ UNCHANGED <<job, attempt, failures, interrupted, final, unmoved, unsynced>> /\ Rest

Move ==
    /\ script = "move"
    /\ final' = [final EXCEPT ![job] = temp[job]]
    /\ temp' = [temp EXCEPT ![job] = "absent"]
    /\ script' = "moved"
    /\ unsynced' = unsynced \cup {job}
    /\ UNCHANGED <<attempt, failures, interrupted, unmoved>>
    /\ UNCHANGED <<slower, job, clientVars, active, mishap, faults>>

\* mv fails; its status is not looked at.
MoveFails ==
    /\ Fault
    /\ script = "move"
    /\ script' = "moved"
    /\ unmoved' = unmoved \cup {job}
    /\ UNCHANGED <<attempt, failures, interrupted, final, unsynced>>
    /\ UNCHANGED <<slower, job, temp, clientVars, active, mishap>>

\* summarize reads the final reports and replaces the summary.
Summarize ==
    /\ script = "moved"
    /\ NextJob(0)
    /\ UNCHANGED <<interrupted, final, unmoved, unsynced>> /\ Rest

\* Mutant of Again: one attempt too many.
AgainOnceMore ==
    IF attempt <= Retries
      THEN script' = "sleep" /\ attempt' = attempt + 1 /\ UNCHANGED <<job, failures>>
      ELSE NextJob(1)

\* Mutant of Again: the attempts are not counted.
AgainForEver ==
    /\ script' = "sleep"
    /\ UNCHANGED <<job, attempt, failures>>

\* Another attempt, or none is left.
Again ==
    IF attempt < Retries
      THEN script' = "sleep" /\ attempt' = attempt + 1 /\ UNCHANGED <<job, failures>>
      ELSE NextJob(1)

AttemptFails ==
    /\ script = "failed"
    /\ IF interrupted THEN NextJob(1) ELSE Again
    /\ UNCHANGED <<interrupted, final, unmoved, unsynced>> /\ Rest

\* The next attempt does not look at `interrupted` again.
Sleep ==
    /\ script = "sleep"
    /\ script' = "launch"
    /\ UNCHANGED <<job, attempt, failures, interrupted, final, unmoved, unsynced>> /\ Rest

ScriptStep ==
    \/ SkipCompleted \/ Die \/ BeginJob \/ Finish \/ Launch \/ ClientEnds \/ Verify
    \/ Move \/ Summarize \/ AttemptFails \/ Sleep

-----------------------------------------------------------------------------
(* Signals, crashes and reruns *)

\* Ctrl-C reaches the script, which notes it, and whatever it runs: the
\* client, jq (the check then fails) or mv (the file may stay where it is).
CtrlC ==
    /\ Fault
    /\ script \notin Ended
    /\ interrupted' = TRUE
    /\ script' \in CASE script = "verify" -> {"verify", "failed"}
                     [] script = "move"   -> {"move", "moved"}
                     [] OTHER             -> {script}
    /\ InterruptClient
    /\ UNCHANGED <<slower, job, temp, attempt, failures, final, unmoved, unsynced>>

\* SIGTERM to the script alone.
Terminate ==
    /\ Fault
    /\ script \notin Ended
    /\ interrupted' = TRUE
    /\ UNCHANGED <<script, attempt, failures, final, unmoved, unsynced>>
    /\ UNCHANGED <<slower, job, temp, clientVars, active, mishap>>

\* The client alone is killed.
ClientKilled ==
    /\ Fault
    /\ stage \notin Dead
    /\ KillClient
    /\ UNCHANGED <<slower, job, temp, scriptVars>>

\* The kernel writes a report to the disk in its own time: nothing syncs it.
WriteBack ==
    /\ \E n \in unsynced : unsynced' = unsynced \ {n}
    /\ UNCHANGED <<vars, script, attempt, failures, interrupted, final, unmoved>>

\* The host crashes: script and client, if they still run, end where they are.
\* Reports that have their final name and are not on the disk may turn up cut
\* short.  (So may temporary ones, which no later script looks at.)
Crash ==
    /\ Fault
    /\ script # "crashed"
    /\ script' = "crashed"
    /\ KillClient
    /\ \E cut \in SUBSET unsynced :
          final' = [n \in Jobs |-> IF n \in cut THEN "partial" ELSE final[n]]
    /\ unsynced' = {}
    /\ UNCHANGED <<slower, job, temp, attempt, failures, interrupted, unmoved>>

\* The operator runs the script again.
Rerun ==
    /\ Fault
    /\ script \in Ended \ {"complete"}
    /\ script' = "head"
    /\ job' = 1
    /\ attempt' = 1
    /\ failures' = 0
    /\ interrupted' = FALSE
    /\ stage' = "off"
    /\ unmoved' = {}
    /\ UNCHANGED <<final, unsynced>>
    /\ UNCHANGED <<slower, temp, plan, turns, records, traffic, stopped, active, mishap>>

Over == script \in Ended /\ UNCHANGED allVars

-----------------------------------------------------------------------------
Next ==
    \/ (ClientStep \/ RequestFails) /\ UNCHANGED scriptVars
    \/ ScriptStep \/ MoveFails
    \/ CtrlC \/ Terminate \/ ClientKilled \/ WriteBack \/ Crash \/ Rerun \/ Over

Spec == ScriptInit /\ [][Next]_allVars

\* The script and the client run, and the server answers: neither has a
\* timeout of its own.
Fairness == WF_allVars(ScriptStep) /\ WF_allVars(ClientStep /\ UNCHANGED scriptVars)

FairSpec == Spec /\ Fairness

-----------------------------------------------------------------------------
(* Properties *)

\* Type invariant.
TypeOK ==
    /\ ClientTypeOK
    /\ job \in 1 .. 2 * Rounds + 1
    /\ script \in Ended \cup {"head", "launch", "waiting", "verify", "move", "moved",
                              "failed", "sleep"}
    /\ attempt \in 1 .. Retries
    /\ failures \in 0 .. 2 * Rounds
    /\ interrupted \in BOOLEAN
    /\ final \in [Jobs -> {"absent", "partial", "good", "bad"}]
    /\ unmoved \subseteq Jobs
    /\ unsynced \subseteq Jobs
    /\ stage \notin Dead => script = "waiting"

\* The run's report is whole, of a completed experiment and without dropped
\* records, under its final name or, if mv failed, under its temporary one.
Reported(n) == final[n] = "good" \/ (n \in unmoved /\ temp[n] = "good")

\* When the script says that the campaign is complete, every run has its
\* report, whatever was interrupted, retried, killed or cut short by a crash
\* before.  The script does not notice that mv failed: the report is then still
\* there, intact, but not where the summary looks for it.
CompleteMeansAll == script = "complete" => \A n \in Jobs : Reported(n)

\* Completed reports are preserved: a good final report is never replaced,
\* truncated or removed, across interrupts, retries and reruns.  Only a crash
\* of the host can hurt it, until the kernel has written it to the disk.
ReportsPreserved ==
    [][\A n \in Jobs :
          final[n] = "good" =>
              \/ final'[n] = "good"
              \/ n \in unsynced /\ script' = "crashed"]_allVars

\* However runs fail and whatever the server refuses, the script ends, each
\* time it is run for a number of seeds.
ScriptEnds == <>[](script \in Ended)
=============================================================================

--------------------------- MODULE SequentialLab ----------------------------
(***************************************************************************)
(* scripts/run-sequential-lab.sh: one campaign client after another, for   *)
(* every seed with and without signal.  A report file that exists is       *)
(* skipped, so that an interrupted campaign can be run again; a client     *)
(* that fails ends the script (set -e).                                    *)
(***************************************************************************)
EXTENDS Campaign

VARIABLE script   \* "loop", "running", "stopped" or "completed"

allVars == <<vars, script>>

ScriptInit == Init /\ script = "loop"

Keep == UNCHANGED <<scenario, slower, reports, before, planVars, turn, latency, nullVars,
                    serverVars, ghostVars>>

StartJob ==
    /\ script = "loop"
    /\ job \in Jobs
    /\ reports[job].state = "absent"
    /\ script' = "running"
    /\ stage' = "args"
    /\ UNCHANGED <<job, faults>> /\ Keep

\* skip existing
SkipJob ==
    /\ script = "loop"
    /\ job \in Jobs
    /\ reports[job].state # "absent"
    /\ job' = job + 1
    /\ UNCHANGED <<script, stage, faults>> /\ Keep

JobEnds ==
    /\ script = "running"
    /\ stage \in {"ok", "error"}
    /\ stage' = "off"
    /\ IF stage = "ok"
         THEN script' = "loop" /\ job' = job + 1
         ELSE script' = "stopped" /\ UNCHANGED job
    /\ UNCHANGED faults /\ Keep

\* completed matched reports
Finish ==
    /\ script = "loop"
    /\ job \notin Jobs
    /\ script' = "completed"
    /\ UNCHANGED <<job, stage, faults>> /\ Keep

ScriptStep == StartJob \/ SkipJob \/ JobEnds \/ Finish

\* Ctrl-C, or a crash of the client's host: client and script end where they
\* are, and a turn on its way is run all the same.
Killed ==
    /\ Fault
    /\ script = "running"
    /\ script' = "stopped"
    /\ Exit("off")
    /\ strays' \in {strays} \cup (IF turn = "sent" THEN {strays + 1} ELSE {})
    /\ UNCHANGED <<fixedVars, reports, counters>>

\* The operator runs the script again.
Rerun ==
    /\ Fault
    /\ script = "stopped"
    /\ script' = "loop"
    /\ job' = 1
    /\ UNCHANGED stage /\ Keep

Over == script \in {"stopped", "completed"} /\ UNCHANGED allVars

Next ==
    \/ (ClientStep \/ EnvironmentStep) /\ UNCHANGED script
    \/ ScriptStep \/ Killed \/ Rerun \/ Over

Spec == ScriptInit /\ [][Next]_allVars

\* When the script says that the matched reports are complete, they are.
CompletedMeansReports ==
    script = "completed" => \A n \in Jobs : reports[n].state = "whole"
=============================================================================

----------------------------- MODULE StreamBench ----------------------------
(***************************************************************************)
(* The stream benchmark client of the sequential lab (main.rs, module      *)
(* stream_benchmark): for each scenario it resets the server's sessions,   *)
(* lets one task per session send its chunks at their times, adds up what  *)
(* the tasks saw and compares the server's sessions with what they should  *)
(* hold.                                                                   *)
(*                                                                         *)
(* The server is the one that StreamLog promises (and Lab implements): a   *)
(* chunk is appended in one step or not at all.  It has no other client.   *)
(* Connections may break at any time.  The unit of time is the interval    *)
(* between two offered chunks, 1 / target_rate.                            *)
(***************************************************************************)
EXTENDS Counting, FiniteSetsExt

CONSTANTS
    Scenarios,      \* session_counts x chunk_rates: <<[sessions, offered], ...>>
    SessionSlots,   \* sessions of the server
    StateBytes,     \* stream_state_bytes of the server
    ChunkBytes      \* chunk_bytes

Slots == 0 .. SessionSlots - 1

\* The checks of bench() on its arguments and on /health.
ASSUME BenchAssumption ==
    /\ SessionSlots \in Nat /\ StateBytes \in Nat /\ ChunkBytes \in Nat \ {0}
    /\ Scenarios \in Seq([sessions : 1 .. SessionSlots, offered : Nat \ {0}]) \ {<< >>}
    /\ StateBytes \div ChunkBytes > 0

VARIABLES
    scenario,   \* index of the current scenario
    stage,      \* of bench(): "reset", "running", "verify", "done", "failed"
    now,        \* time since `started` of the scenario
    run,        \* [Slots -> the session's task: its loop and its SessionRun]
    request,    \* [Slots -> its request: "none", "sent" or the answer]
    log,        \* [Slots -> what the server's session holds]
    reports,    \* the reports of the scenarios so far
    lost        \* a connection has broken

vars == <<scenario, stage, now, run, request, log, reports, lost>>

Current == Scenarios[scenario]
Active  == 0 .. Current.sessions - 1

-----------------------------------------------------------------------------
(* Who sends what *)

MaxChunksPerSession == StateBytes \div ChunkBytes

\* (session_slot .. offered_chunks).step_by(session_count)
Offered(s) ==
    [k \in 1 .. (IF s < Current.offered
                   THEN 1 + (Current.offered - s - 1) \div Current.sessions ELSE 0)
        |-> s + (k - 1) * Current.sessions]

\* .take(max_chunks_per_session)
Indices(s) == SubSeq(Offered(s), 1, Min({Len(Offered(s)), MaxChunksPerSession}))

\* Mutant of OmittedForCapacity: chunks beyond the capacity are forgotten.
OmittedForCapacityForgotten(s) == 0

OmittedForCapacity(s) == Len(Offered(s)) - Len(Indices(s))

\* lorem_chunk: the text depends on the sequence number only.
LoremChunk(sequence) == [text |-> sequence, upper |-> FALSE]

\* to_ascii_uppercase here, stream_capitalize.wat in the server.
Uppercase(chunk) == [chunk EXCEPT !.upper = TRUE]

NoRun == [pc |-> "none", todo |-> << >>, next_sequence |-> 0, available_at |-> 0,
          expected |-> << >>, records |-> << >>, completed |-> 0,
          server_throttled |-> 0, client_backpressured |-> 0, failed |-> 0]

Init ==
    /\ scenario = 1
    /\ stage = "reset"
    /\ now = 0
    /\ run = [s \in Slots |-> NoRun]
    /\ request = [s \in Slots |-> "none"]
    /\ log \in [Slots -> {<< >>, <<Uppercase(LoremChunk(0))>>}]   \* of earlier use
    /\ reports = << >>
    /\ lost = FALSE

-----------------------------------------------------------------------------
(* bench and run_scenario *)

\* Mutant of Cleared: one session too few.
ClearedOneTooFew(s) == s + 1 < Current.sessions

\* The sessions that reset(session_count) clears.
Cleared(s) == s < Current.sessions

\* reset() is answered; run_scenario spawns the tasks.
Reset ==
    /\ stage = "reset"
    /\ log' = [s \in Slots |-> IF Cleared(s) THEN << >> ELSE log[s]]
    /\ stage' = "running"
    /\ now' = 0
    /\ run' = [s \in Slots |->
          IF s \in Active
            THEN [NoRun EXCEPT !.pc = "loop", !.todo = Indices(s),
                               !.client_backpressured = OmittedForCapacity(s)]
            ELSE NoRun]
    /\ UNCHANGED <<scenario, request, reports, lost>>

\* reset() or a GET of verification fails: `?` up to main.
ConnectionFails ==
    /\ stage \in {"reset", "verify"}
    /\ \/ log' = log
       \/ stage = "reset" /\ log' = [s \in Slots |-> IF Cleared(s) THEN << >> ELSE log[s]]
    /\ stage' = "failed"
    /\ lost' = TRUE
    /\ UNCHANGED <<scenario, now, run, request, reports>>

\* join_next has returned None.
Joined == \A s \in Active : run[s].pc = "ended"

Join ==
    /\ stage = "running"
    /\ Joined
    /\ stage' = "verify"
    /\ UNCHANGED <<scenario, now, run, request, log, reports, lost>>

\* join_next returns an error: `??`, and the JoinSet aborts the other tasks.
Abort ==
    /\ stage = "running"
    /\ \E s \in Active : run[s].pc = "error"
    /\ stage' = "failed"
    /\ UNCHANGED <<scenario, now, run, request, log, reports, lost>>

Total(tally) == SumOver(tally, Active)

\* records.iter().filter(...).count()
CountOf(s, Test(_)) ==
    Cardinality({k \in DOMAIN run[s].records : Test(run[s].records[k])})

\* The hash, the length and the number of chunks of the server's session.
Matches(s) ==
    /\ log[s] = run[s].expected
    /\ Len(log[s]) = CountOf(s, LAMBDA outcome : outcome = "complete")

Report ==
    [offered              |-> Current.offered,
     attempted            |-> Total([s \in Active |->
                                  CountOf(s, LAMBDA outcome : outcome # "client_backpressure")]),
     completed            |-> Total([s \in Active |-> run[s].completed]),
     server_throttled     |-> Total([s \in Active |-> run[s].server_throttled]),
     client_backpressured |-> Total([s \in Active |-> run[s].client_backpressured]),
     failed               |-> Total([s \in Active |-> run[s].failed]),
     state_mismatches     |-> Cardinality({s \in Active : ~Matches(s)})]

\* Nothing is in flight, so the GETs see one state.  Then the next scenario,
\* or the report is written.
Verify ==
    /\ stage = "verify"
    /\ reports' = Append(reports, Report)
    /\ \/ /\ scenario < Len(Scenarios)
          /\ scenario' = scenario + 1
          /\ stage' = "reset"
       \/ /\ scenario = Len(Scenarios)
          /\ stage' = "done"
          /\ UNCHANGED scenario
    /\ now' = 0
    /\ run' = [s \in Slots |-> NoRun]
    /\ UNCHANGED <<request, log, lost>>

-----------------------------------------------------------------------------
(* run_session *)

Looping(s) == stage = "running" /\ s \in Active /\ run[s].pc = "loop"

\* Its time came while the previous chunk was under way.
Skip(s) ==
    /\ Looping(s)
    /\ run[s].todo # << >>
    /\ Head(run[s].todo) < run[s].available_at
    /\ run' = [run EXCEPT ![s].todo = Tail(@),
                          ![s].client_backpressured = @ + 1,
                          ![s].records = Append(@, "client_backpressure")]
    /\ UNCHANGED <<scenario, stage, now, request, log, reports, lost>>

\* sleep_until(scheduled_at), then the POST.
Send(s) ==
    /\ Looping(s)
    /\ run[s].todo # << >>
    /\ run[s].available_at <= Head(run[s].todo)
    /\ Head(run[s].todo) <= now
    /\ run' = [run EXCEPT ![s].pc = "sent"]
    /\ request' = [request EXCEPT ![s] = "sent"]
    /\ UNCHANGED <<scenario, stage, now, log, reports, lost>>

\* The end of an iteration: on to the next chunk.
Continue(r, outcome) ==
    [r EXCEPT !.pc = "loop", !.todo = Tail(@), !.available_at = now,
              !.records = Append(@, outcome)]

\* Mutant of Throttled: the chunk is tried again at once.
ThrottledRetried(s) == [run[s] EXCEPT !.pc = "loop"]

\* 429: the chunk is given up.
Throttled(s) ==
    Continue([run[s] EXCEPT !.server_throttled = @ + 1], "server_throttled")

\* Mutant of Complete: the number is advanced before the text is made.
CompleteAdvancedFirst(s) ==
    [run[s] EXCEPT !.expected = Append(@, Uppercase(LoremChunk(run[s].next_sequence + 1))),
                   !.completed = @ + 1,
                   !.next_sequence = @ + 1]

\* body.outcome == "complete"
Complete(s) ==
    [run[s] EXCEPT !.expected = Append(@, Uppercase(LoremChunk(run[s].next_sequence))),
                   !.completed = @ + 1,
                   !.next_sequence = @ + 1]

\* Any other outcome.
NotCompleted(s) == Continue([run[s] EXCEPT !.failed = @ + 1], request[s])

\* The answer, or the error that ends the task.
Receive(s) ==
    /\ stage = "running" /\ run[s].pc = "sent"
    /\ request[s] \notin {"none", "sent"}
    /\ request' = [request EXCEPT ![s] = "none"]
    /\ run' = [run EXCEPT ![s] =
          CASE request[s] = "throttled" -> Throttled(s)
            [] request[s] = "complete" -> Continue(Complete(s), "complete")
            [] request[s] \in {"timed_out", "failed"} -> NotCompleted(s)
            [] OTHER -> [@ EXCEPT !.pc = "error"]]
    /\ UNCHANGED <<scenario, stage, now, log, reports, lost>>

EndSession(s) ==
    /\ Looping(s)
    /\ run[s].todo = << >>
    /\ run' = [run EXCEPT ![s].pc = "ended"]
    /\ UNCHANGED <<scenario, stage, now, request, log, reports, lost>>

-----------------------------------------------------------------------------
(* The server, the network and time *)

\* What the lab may answer to the chunk: 429 at any time, otherwise what the
\* sequence number and the capacity say, otherwise what came of the runner.
Outcomes(s) ==
    {"throttled"} \cup
        (IF run[s].next_sequence # Len(log[s]) THEN {"conflict"}
         ELSE IF Len(log[s]) * ChunkBytes + ChunkBytes > StateBytes THEN {"state_full"}
         ELSE {"complete", "timed_out", "failed"})

Serve(s) ==
    /\ request[s] = "sent"
    /\ \E outcome \in Outcomes(s) :
          /\ request' = [request EXCEPT ![s] = outcome]
          /\ log' = IF outcome = "complete"
                      THEN [log EXCEPT ![s] =
                               Append(@, Uppercase(LoremChunk(run[s].next_sequence)))]
                      ELSE log
    /\ UNCHANGED <<scenario, stage, now, run, reports, lost>>

\* The request, or its answer, is lost with the connection.
Break(s) ==
    /\ request[s] \notin {"none", "broken"}
    /\ request' = [request EXCEPT ![s] = "broken"]
    /\ lost' = TRUE
    /\ UNCHANGED <<scenario, stage, now, run, log, reports>>

\* From the time of the last chunk on, moments cannot be told apart.
Tick ==
    /\ stage = "running"
    /\ now < Current.offered
    /\ now' = now + 1
    /\ UNCHANGED <<scenario, stage, run, request, log, reports, lost>>

Over == stage \in {"done", "failed"} /\ UNCHANGED vars

-----------------------------------------------------------------------------
SessionStep(s) == Skip(s) \/ Send(s) \/ Receive(s) \/ EndSession(s)

BenchStep == Reset \/ Join \/ Abort \/ Verify

Next ==
    \/ BenchStep \/ ConnectionFails \/ Tick \/ Over
    \/ \E s \in Slots : SessionStep(s) \/ Serve(s) \/ Break(s)

Spec == Init /\ [][Next]_vars

\* The client runs, time passes, and the lab answers what it is sent (Lab:
\* EveryTaskEnds).  The client itself has no timeout.
Fairness ==
    /\ WF_vars(BenchStep)
    /\ WF_vars(Tick)
    /\ \A s \in Slots : WF_vars(SessionStep(s)) /\ WF_vars(Serve(s))

FairSpec == Spec /\ Fairness

-----------------------------------------------------------------------------
(* Properties *)

\* The numbers of a report add up: every offered chunk was attempted or held
\* back, and every attempted one was completed, throttled or failed.
Conservation ==
    \A k \in DOMAIN reports :
        LET r == reports[k]
        IN  /\ r.offered = r.attempted + r.client_backpressured
            /\ r.attempted = r.completed + r.server_throttled + r.failed

\* The client's idea of every session agrees with the server when a scenario
\* is over, whatever was throttled, cut off or held back on the way.
Verified == \A k \in DOMAIN reports : reports[k].state_mismatches = 0

\* The benchmark is never refused a chunk for its sequence number or for the
\* capacity of the session, so it fails only when a connection does.
FailsOnlyOnLoss ==
    /\ stage = "failed" => lost
    /\ \A s \in Slots : request[s] \notin {"conflict", "state_full"}

\* The benchmark ends.
BenchEnds == <>(stage \in {"done", "failed"})
=============================================================================

-------------------------------- MODULE Lab ---------------------------------
(***************************************************************************)
(* The sequential lab server (crates/sequential-lab/src/main.rs): POST     *)
(* /v1/turn and /v1/stream/chunk, each of which spawns a task that nothing *)
(* cancels; POST /v1/stream/reset, which runs in the handler and dies with *)
(* it; the fair one-permit semaphore `lane`; the session state behind its  *)
(* mutexes; the pending and outcome counters; and the runner process.      *)
(*                                                                         *)
(* A task reads the session state, runs a fresh process on the copy, and   *)
(* writes the result back: no lock is held in between, only the lane.      *)
(* Critical sections of the mutexes contain no await and are one step.     *)
(* Byte vectors are abstracted to the requests whose bytes they hold and   *)
(* their length.                                                           *)
(***************************************************************************)
EXTENDS Naturals, Sequences, FiniteSets

CONSTANTS
    Requests,       \* the requests that arrive
    SessionSlots,   \* Policy::session_slots
    MaxPending,     \* MAX_PENDING
    StateBytes,     \* STREAM_STATE_BYTES
    MaxChunkBytes,  \* MAX_CHUNK_BYTES
    CutoffTicks,    \* Policy::execution_cutoff
    ReleaseTicks,   \* Policy::release_slot, 0 for None
    Kinds,          \* bound: endpoints that requests use
    MaxSequence,    \* bound: sequence numbers that requests carry
    NoInput         \* the request has not arrived

\* serve() refuses other policies.
ASSUME LabAssumption ==
    /\ IsFiniteSet(Requests)
    /\ SessionSlots \in Nat /\ SessionSlots >= 2
    /\ MaxPending \in Nat \ {0}
    /\ StateBytes \in Nat /\ MaxChunkBytes \in Nat
    /\ CutoffTicks \in Nat \ {0}
    /\ ReleaseTicks \in Nat /\ (ReleaseTicks = 0 \/ ReleaseTicks > CutoffTicks)
    /\ Kinds \subseteq {"turn", "chunk", "reset"} /\ MaxSequence \in Nat

Slots == 0 .. SessionSlots - 1

TurnInputs  == [kind : {"turn"}, slot : Slots]
ChunkInputs == [kind : {"chunk"}, slot : Slots, sequence : 0 .. MaxSequence,
                bytes : 1 .. MaxChunkBytes]
ResetInputs == [kind : {"reset"}, count : 1 .. SessionSlots]
Inputs      == {i \in TurnInputs \cup ChunkInputs \cup ResetInputs : i.kind \in Kinds}

ASSUME NoInputAssumption == NoInput \notin Inputs

VARIABLES
    handler,    \* [Requests -> state of the handler, or the answer it gave]
    input,      \* [Requests -> the request's body]
    pc,         \* [Requests -> where the task (of a reset: the handler) is]
    result,     \* [Requests -> what came of the request]
    report,     \* [Requests -> accumulated_chunks of its answer]
    previous,   \* [Requests -> the task's copy of the session state]
    child,      \* [Requests -> its runner process]
    elapsed,    \* [Requests -> ticks since admitted_at]
    pending,    \* AppState::pending
    permits,    \* permits the lane has available
    queue,      \* the lane's waiters, first in first out
    sessions,   \* AppState::stream_sessions
    states,     \* AppState::states
    counters    \* the four outcome counters

taskVars == <<handler, input, pc, result, report, previous, child, elapsed>>
laneVars == <<pending, permits, queue>>
dataVars == <<sessions, states, counters>>
vars == <<taskVars, laneVars, dataVars>>

Outcomes  == {"complete", "timed_out", "failed"}
EarlyErrs == {"conflict", "state_full"}
Answers   == Outcomes \cup EarlyErrs \cup {"throttled", "refused", "normalized"}

\* granted: owns the permit, not polled since; starting .. counting: between
\* the read of the session state and the end of the write-back; leaving: an
\* early return is dropping the permit; released: only the guard is left.
Running == {"starting", "writing", "reading", "reaping", "executed", "counting"}
Holding == Running \cup {"granted", "padding", "leaving"}
Guarded == Holding \cup {"spawned", "queued", "released"}

Holders == {r \in Requests : pc[r] \in Holding}
Guards  == {r \in Requests : pc[r] \in Guarded /\ input[r].kind # "reset"}

\* A byte vector: the requests whose bytes it holds, and its length.
NoBytes == [of |-> << >>, len |-> 0]

EmptySession == [accumulated |-> NoBytes, next_sequence |-> 0, chunks |-> 0]

Init ==
    /\ handler = [r \in Requests |-> "idle"]
    /\ input = [r \in Requests |-> NoInput]
    /\ pc = [r \in Requests |-> "none"]
    /\ result = [r \in Requests |-> "none"]
    /\ report = [r \in Requests |-> 0]
    /\ previous = [r \in Requests |-> NoBytes]
    /\ child = [r \in Requests |-> "none"]
    /\ elapsed = [r \in Requests |-> 0]
    /\ pending = 0
    /\ permits = 1
    /\ queue = << >>
    /\ sessions = [s \in Slots |-> EmptySession]
    /\ states = [s \in Slots |-> NoBytes]
    /\ counters = [complete |-> 0, timed_out |-> 0, failed |-> 0, throttled |-> 0]

Moves(r, stage) == pc' = [pc EXCEPT ![r] = stage]

Count(what) == counters' = [counters EXCEPT ![what] = @ + 1]

-----------------------------------------------------------------------------
(* Handlers *)

\* Mutant of HasRoom: `count <= MAX_PENDING`.
HasRoomForOneMore == pending <= MaxPending

\* The closure of fetch_update.
HasRoom == pending < MaxPending

\* authorize fails or the body is out of range: nothing has been touched.
Refuse(r) ==
    /\ handler[r] = "idle"
    /\ handler' = [handler EXCEPT ![r] = "refused"]
    /\ result' = [result EXCEPT ![r] = "refused"]
    /\ UNCHANGED <<input, pc, report, previous, child, elapsed, laneVars, dataVars>>

\* turn, stream_chunk: fetch_update finds room, the task is spawned.
Admit(r, i) ==
    /\ handler[r] = "idle"
    /\ i.kind # "reset"
    /\ HasRoom
    /\ pending' = pending + 1
    /\ input' = [input EXCEPT ![r] = i]
    /\ handler' = [handler EXCEPT ![r] = "awaiting"]
    /\ Moves(r, "spawned")
    /\ UNCHANGED <<result, report, previous, child, elapsed, permits, queue, dataVars>>

\* turn, stream_chunk: it finds none; counted, then 429.
Throttle(r) ==
    /\ handler[r] = "idle"
    /\ ~HasRoom
    /\ handler' = [handler EXCEPT ![r] = "throttled"]
    /\ result' = [result EXCEPT ![r] = "throttled"]
    /\ Count("throttled")
    /\ UNCHANGED <<input, pc, report, previous, child, elapsed, laneVars, sessions, states>>

\* stream_reset counts nowhere: its handler is about to ask for the lane.
ArriveReset(r, i) ==
    /\ handler[r] = "idle"
    /\ i.kind = "reset"
    /\ input' = [input EXCEPT ![r] = i]
    /\ handler' = [handler EXCEPT ![r] = "awaiting"]
    /\ Moves(r, "spawned")
    /\ UNCHANGED <<result, report, previous, child, elapsed, laneVars, dataVars>>

\* Mutant of AnswerOf: a turn answers with its outcome.
AnswerOfOutcome(r) == result[r]

\* What an answer tells: a turn's is the same whatever happened.
AnswerOf(r) == IF input[r].kind = "turn" THEN "normalized" ELSE result[r]

Respond(r) ==
    /\ handler[r] = "awaiting"
    /\ pc[r] = "done"
    /\ handler' = [handler EXCEPT ![r] = AnswerOf(r)]
    /\ UNCHANGED <<input, pc, result, report, previous, child, elapsed, laneVars, dataVars>>

\* The caller of a turn or chunk goes away; the task stays.
Disconnect(r) ==
    /\ handler[r] = "awaiting"
    /\ input[r].kind # "reset"
    /\ handler' = [handler EXCEPT ![r] = "gone"]
    /\ UNCHANGED <<input, pc, result, report, previous, child, elapsed, laneVars, dataVars>>

-----------------------------------------------------------------------------
(* The lane *)

Acquire(r) ==
    /\ pc[r] = "spawned"
    /\ permits > 0
    /\ permits' = permits - 1
    /\ Moves(r, "granted")
    /\ UNCHANGED <<handler, input, result, report, previous, child, elapsed,
                   pending, queue, dataVars>>

Enqueue(r) ==
    /\ pc[r] = "spawned"
    /\ permits = 0
    /\ queue' = Append(queue, r)
    /\ Moves(r, "queued")
    /\ UNCHANGED <<handler, input, result, report, previous, child, elapsed,
                   pending, permits, dataVars>>

\* The permit of r is dropped: the first waiter gets it, if there is one.
HandOver(r, stage) ==
    IF queue = << >>
      THEN /\ permits' = permits + 1
           /\ Moves(r, stage)
           /\ UNCHANGED queue
      ELSE /\ queue' = Tail(queue)
           /\ pc' = [pc EXCEPT ![r] = stage, ![Head(queue)] = "granted"]
           /\ UNCHANGED permits

-----------------------------------------------------------------------------
(* stream_reset *)

\* A waiter that is dropped is unlinked from the queue, wherever it stands.
Unlink(r) ==
    \E n \in DOMAIN queue :
        /\ queue[n] = r
        /\ queue' = SubSeq(queue, 1, n - 1) \o SubSeq(queue, n + 1, Len(queue))

\* Mutant of CancelReset: a permit handed to a dropped handler is lost.
CancelResetLosesPermit(r) ==
    /\ input[r] # NoInput /\ input[r].kind = "reset"
    /\ \/ pc[r] = "queued" /\ Unlink(r)
       \/ pc[r] \in {"spawned", "granted"} /\ UNCHANGED queue
    /\ Moves(r, "done")
    /\ handler' = [handler EXCEPT ![r] = "gone"]
    /\ result' = [result EXCEPT ![r] = "cancelled"]
    /\ UNCHANGED <<input, report, previous, child, elapsed, pending, permits, dataVars>>

\* The handler is dropped while it waits for the lane or for the mutex: it
\* leaves the queue, or gives the permit it was handed back.
CancelReset(r) ==
    /\ input[r] # NoInput /\ input[r].kind = "reset"
    /\ \/ pc[r] = "spawned" /\ Moves(r, "done") /\ UNCHANGED <<permits, queue>>
       \/ pc[r] = "queued" /\ Unlink(r) /\ Moves(r, "done") /\ UNCHANGED permits
       \/ pc[r] = "granted" /\ HandOver(r, "done")
    /\ handler' = [handler EXCEPT ![r] = "gone"]
    /\ result' = [result EXCEPT ![r] = "cancelled"]
    /\ UNCHANGED <<input, report, previous, child, elapsed, pending, dataVars>>

\* Mutant of ClearSessions: the mutex is thought to be enough.
ClearSessionsWithoutLane(r) ==
    /\ pc[r] = "spawned"
    /\ input[r].kind = "reset"
    /\ sessions' = [s \in Slots |-> IF s < input[r].count THEN EmptySession ELSE sessions[s]]
    /\ result' = [result EXCEPT ![r] = "complete"]
    /\ Moves(r, "done")
    /\ UNCHANGED <<handler, input, report, previous, child, elapsed, laneVars, states, counters>>

\* Mutant of Cleared: one session too many.
ClearedOneTooMany(s, count) == s <= count

\* sessions.iter_mut().take(count)
Cleared(s, count) == s < count

\* With lane and mutex, the first `count` sessions are cleared, both are
\* dropped and the handler returns.
ClearSessions(r) ==
    /\ pc[r] = "granted"
    /\ input[r].kind = "reset"
    /\ sessions' = [s \in Slots |->
           IF Cleared(s, input[r].count) THEN EmptySession ELSE sessions[s]]
    /\ result' = [result EXCEPT ![r] = "complete"]
    /\ HandOver(r, "done")
    /\ UNCHANGED <<handler, input, report, previous, child, elapsed, pending, states, counters>>

-----------------------------------------------------------------------------
(* run_slot and run_stream_slot *)

\* Mutant of Verdict: only old sequence numbers are refused.
VerdictAllowsGaps(i, session) ==
    IF i.sequence < session.next_sequence THEN "conflict"
    ELSE IF session.accumulated.len + i.bytes > StateBytes THEN "state_full"
    ELSE "none"

\* The sequence and capacity checks of run_stream_slot, in their order.
Verdict(i, session) ==
    IF i.sequence # session.next_sequence THEN "conflict"
    ELSE IF session.accumulated.len + i.bytes > StateBytes THEN "state_full"
    ELSE "none"

\* The deadlines are fixed and, under the mutex, the session is checked and
\* copied.  A turn has nothing to check.  Early errors are not padded.
ReadPrevious(r) ==
    LET i == input[r]
        v == IF i.kind = "turn" THEN "none" ELSE Verdict(i, sessions[i.slot])
    IN  /\ pc[r] = "granted"
        /\ i.kind # "reset"
        /\ result' = [result EXCEPT ![r] = v]
        /\ \/ /\ v # "none"
              /\ Moves(r, "leaving")
              /\ UNCHANGED previous
           \/ /\ v = "none"
              /\ Moves(r, "starting")
              /\ previous' = [previous EXCEPT ![r] =
                     IF i.kind = "turn" THEN states[i.slot] ELSE sessions[i.slot].accumulated]
        /\ UNCHANGED <<handler, input, report, child, elapsed, laneVars, dataVars>>

Spawn(r) ==
    /\ pc[r] = "starting"
    /\ child' = [child EXCEPT ![r] = "alive"]
    /\ Moves(r, "writing")
    /\ UNCHANGED <<handler, input, result, report, previous, elapsed, laneVars, dataVars>>

SpawnFails(r) ==
    /\ pc[r] = "starting"
    /\ result' = [result EXCEPT ![r] = "failed"]
    /\ Moves(r, "executed")
    /\ UNCHANGED <<handler, input, report, previous, child, elapsed, laneVars, dataVars>>

\* The write future ends, with an error or without: only Elapsed is looked at.
Written(r) ==
    /\ pc[r] = "writing"
    /\ Moves(r, "reading")
    /\ UNCHANGED <<handler, input, result, report, previous, child, elapsed, laneVars, dataVars>>

\* Mutant of CutOff: kill without wait.
CutOffWithoutWait(r) ==
    /\ pc[r] \in {"writing", "reading"}
    /\ elapsed[r] >= CutoffTicks
    /\ child' = [child EXCEPT ![r] = IF @ = "alive" THEN "killed" ELSE "none"]
    /\ result' = [result EXCEPT ![r] = "timed_out"]
    /\ Moves(r, "executed")
    /\ UNCHANGED <<handler, input, report, previous, elapsed, laneVars, dataVars>>

\* Mutant of CutOff: the write is not under the deadline.
CutOffReadOnly(r) ==
    /\ pc[r] = "reading"
    /\ elapsed[r] >= CutoffTicks
    /\ child' = [child EXCEPT ![r] = IF @ = "alive" THEN "killed" ELSE @]
    /\ Moves(r, "reaping")
    /\ UNCHANGED <<handler, input, result, report, previous, elapsed, laneVars, dataVars>>

\* timeout_at elapses, of the write or of the read: terminate() sends SIGKILL
\* and waits.  A runner that has just exited is only waited for.
CutOff(r) ==
    /\ pc[r] \in {"writing", "reading"}
    /\ elapsed[r] >= CutoffTicks
    /\ child' = [child EXCEPT ![r] = IF @ = "alive" THEN "killed" ELSE @]
    /\ Moves(r, "reaping")
    /\ UNCHANGED <<handler, input, result, report, previous, elapsed, laneVars, dataVars>>

Reap(r) ==
    /\ pc[r] = "reaping"
    /\ child[r] \in {"ok", "bad", "dead"}
    /\ child' = [child EXCEPT ![r] = "none"]
    /\ result' = [result EXCEPT ![r] = "timed_out"]
    /\ Moves(r, "executed")
    /\ UNCHANGED <<handler, input, report, previous, elapsed, laneVars, dataVars>>

\* Output is read to its end and the runner reaped: exit status and output
\* length decide.
Complete(r) ==
    /\ pc[r] = "reading"
    /\ child[r] \in {"ok", "bad"}
    /\ child' = [child EXCEPT ![r] = "none"]
    /\ result' = [result EXCEPT ![r] = IF child[r] = "ok" THEN "complete" ELSE "failed"]
    /\ Moves(r, "executed")
    /\ UNCHANGED <<handler, input, report, previous, elapsed, laneVars, dataVars>>

\* read_to_end or wait fails: `?` drops the child, which is killed but not
\* waited for, and the error becomes Failed.
ReadFails(r) ==
    /\ pc[r] = "reading"
    /\ child' = [child EXCEPT ![r] = IF @ = "alive" THEN "orphan" ELSE "none"]
    /\ result' = [result EXCEPT ![r] = "failed"]
    /\ Moves(r, "executed")
    /\ UNCHANGED <<handler, input, report, previous, elapsed, laneVars, dataVars>>

\* The output of a successful runner: what the request adds after what the
\* runner was given.  The state of a turn has a fixed length.
Output(r) ==
    [of  |-> Append(previous[r].of, r),
     len |-> previous[r].len + (IF input[r].kind = "chunk" THEN input[r].bytes ELSE 0)]

\* run_slot, Success: the state is stored under the mutex ...
StoreState(r) ==
    /\ pc[r] = "executed"
    /\ result[r] = "complete"
    /\ input[r].kind = "turn"
    /\ states' = [states EXCEPT ![input[r].slot] = Output(r)]
    /\ Moves(r, "counting")
    /\ UNCHANGED <<handler, input, result, report, previous, child, elapsed, laneVars,
                   sessions, counters>>

\* ... and counted after it.
CountStored(r) ==
    /\ pc[r] = "counting"
    /\ Count("complete")
    /\ Moves(r, "padding")
    /\ UNCHANGED <<handler, input, result, report, previous, child, elapsed, laneVars,
                   sessions, states>>

\* accumulated_chunks of the answer, read in the same critical section.
ReportOf(r) == sessions'[input[r].slot].chunks

\* run_stream_slot, Success: stored, advanced and counted under the mutex.
StoreChunk(r) ==
    LET s == input[r].slot
    IN  /\ pc[r] = "executed"
        /\ result[r] = "complete"
        /\ input[r].kind = "chunk"
        /\ sessions' = [sessions EXCEPT ![s] =
               [accumulated   |-> Output(r),
                next_sequence |-> @.next_sequence + 1,
                chunks        |-> @.chunks + 1]]
        /\ Count("complete")
        /\ report' = [report EXCEPT ![r] = ReportOf(r)]
        /\ Moves(r, "padding")
        /\ UNCHANGED <<handler, input, result, previous, child, elapsed, laneVars, states>>

\* Mutant of Tally: every loss is a failure.
TallyFailed(r) == "failed"

\* The counter that a lost request increments.
Tally(r) == result[r]

\* TimedOut, Failed: counted; a chunk then reads its session for the answer.
CountLost(r) ==
    /\ pc[r] = "executed"
    /\ result[r] \in {"timed_out", "failed"}
    /\ Count(Tally(r))
    /\ report' = [report EXCEPT ![r] =
           IF input[r].kind = "chunk" THEN sessions[input[r].slot].chunks ELSE 0]
    /\ Moves(r, "padding")
    /\ UNCHANGED <<handler, input, result, previous, child, elapsed, laneVars, sessions, states>>

\* The task returns, after sleep_until(release_deadline) if there is one and
\* it got that far: _permit goes first.
ReleaseLane(r) ==
    /\ \/ pc[r] = "leaving"
       \/ pc[r] = "padding" /\ elapsed[r] >= ReleaseTicks
    /\ HandOver(r, "released")
    /\ elapsed' = [elapsed EXCEPT ![r] = 0]
    /\ previous' = [previous EXCEPT ![r] = NoBytes]
    /\ UNCHANGED <<handler, input, result, report, child, pending, dataVars>>

\* Then _pending, and the JoinHandle resolves.
DropPending(r) ==
    /\ pc[r] = "released"
    /\ pending' = pending - 1
    /\ Moves(r, "done")
    /\ UNCHANGED <<handler, input, result, report, previous, child, elapsed,
                   permits, queue, dataVars>>

-----------------------------------------------------------------------------
(* The environment *)

\* A runner can succeed only when it has been sent all of its input; it can
\* die of its limits, its sandbox or its module at any time, or run on.
RunnerExits(r) ==
    /\ child[r] = "alive"
    /\ \/ child' = [child EXCEPT ![r] = "bad"]
       \/ pc[r] = "reading" /\ child' = [child EXCEPT ![r] = "ok"]
    /\ UNCHANGED <<handler, input, pc, result, report, previous, elapsed, laneVars, dataVars>>

\* The kernel carries out a SIGKILL.
RunnerDies(r) ==
    /\ child[r] \in {"killed", "orphan"}
    /\ child' = [child EXCEPT ![r] = IF @ = "killed" THEN "dead" ELSE "none"]
    /\ UNCHANGED <<handler, input, pc, result, report, previous, elapsed, laneVars, dataVars>>

\* The last tick that a task can tell from the next one.
LastTick == IF ReleaseTicks = 0 THEN CutoffTicks ELSE ReleaseTicks

Timed == {r \in Requests : pc[r] \in Running \cup {"padding"} /\ elapsed[r] < LastTick}

Tick ==
    /\ Timed # {}
    /\ elapsed' = [r \in Requests |-> IF r \in Timed THEN elapsed[r] + 1 ELSE elapsed[r]]
    /\ UNCHANGED <<handler, input, pc, result, report, previous, child, laneVars, dataVars>>

-----------------------------------------------------------------------------
Arrival(r) ==
    \/ Refuse(r) \/ Throttle(r)
    \/ \E i \in Inputs : Admit(r, i) \/ ArriveReset(r, i)

HandlerStep(r) == Arrival(r) \/ Respond(r) \/ Disconnect(r) \/ CancelReset(r)

TaskStep(r) ==
    \/ Acquire(r) \/ Enqueue(r) \/ ClearSessions(r) \/ ReadPrevious(r)
    \/ Spawn(r) \/ SpawnFails(r) \/ Written(r) \/ CutOff(r) \/ Reap(r)
    \/ Complete(r) \/ ReadFails(r) \/ StoreState(r) \/ CountStored(r)
    \/ StoreChunk(r) \/ CountLost(r) \/ ReleaseLane(r) \/ DropPending(r)

RunnerStep(r) == RunnerExits(r) \/ RunnerDies(r)

Quiet ==
    /\ \A r \in Requests : /\ handler[r] \notin {"idle", "awaiting"}
                           /\ pc[r] \in {"none", "done"}
                           /\ child[r] = "none"
    /\ UNCHANGED vars

Next ==
    \/ Tick
    \/ \E r \in Requests : HandlerStep(r) \/ TaskStep(r) \/ RunnerStep(r)
    \/ Quiet

Spec == Init /\ [][Next]_vars

\* The runtime polls what can make progress, time passes, and the kernel
\* carries out SIGKILL (terminate() waits for it).  Nothing is assumed of
\* callers and of runners.
Fairness ==
    /\ WF_vars(Tick)
    /\ \A r \in Requests :
          /\ WF_vars(Acquire(r) \/ Enqueue(r))
          /\ WF_vars(ClearSessions(r))
          /\ WF_vars(ReadPrevious(r))
          /\ WF_vars(Spawn(r) \/ SpawnFails(r))
          /\ WF_vars(CutOff(r))
          /\ WF_vars(Reap(r))
          /\ WF_vars(StoreState(r) \/ CountStored(r) \/ StoreChunk(r) \/ CountLost(r))
          /\ WF_vars(ReleaseLane(r))
          /\ WF_vars(DropPending(r))
          /\ WF_vars(Respond(r))
          /\ WF_vars(RunnerDies(r))

FairSpec == Spec /\ Fairness

-----------------------------------------------------------------------------
(* Properties *)

Bytes == [of : Seq(Requests), len : 0 .. StateBytes]

\* Type invariant.
TypeOK ==
    /\ handler \in [Requests -> Answers \cup {"idle", "awaiting", "gone"}]
    /\ input \in [Requests -> Inputs \cup {NoInput}]
    /\ pc \in [Requests -> Guarded \cup {"none", "done"}]
    /\ result \in [Requests -> Answers \cup {"none", "cancelled"}]
    /\ report \in [Requests -> Nat]
    /\ previous \in [Requests -> Bytes]
    /\ child \in [Requests -> {"none", "alive", "ok", "bad", "killed", "dead", "orphan"}]
    /\ elapsed \in [Requests -> 0 .. LastTick]
    /\ pending \in 0 .. MaxPending
    /\ permits \in 0 .. 1
    /\ queue \in Seq(Requests)
    /\ sessions \in [Slots -> [accumulated : Bytes, next_sequence : Nat, chunks : Nat]]
    /\ states \in [Slots -> Bytes]
    /\ counters \in [{"complete", "timed_out", "failed", "throttled"} -> Nat]

\* The pending counter, the lane and its queue agree with where the tasks and
\* resets are, whoever disconnects, fails or is cut off: no place and no
\* permit is lost or duplicated, a cancelled reset included.
Accounting ==
    /\ pending = Cardinality(Guards)
    /\ permits + Cardinality(Holders) = 1
    /\ \A r \in Requests : pc[r] = "queued" <=> \E n \in DOMAIN queue : queue[n] = r
    /\ permits > 0 => queue = << >>

\* Invocations are serialized: a runner that the server has not given up on
\* (an I/O error on its pipe makes it an orphan, already sent SIGKILL) is the
\* runner of the task that owns the lane, from spawn until it is reaped.
SerializedRunners ==
    \A r, q \in Requests :
        (/\ child[r] \in {"alive", "ok", "bad", "killed", "dead"}
         /\ pc[q] \in Holding) => r = q /\ pc[r] \in {"writing", "reading", "reaping"}

\* The accumulated_chunks of an answer counts the chunk it answers for if it
\* is complete, and does not if it timed out or failed.
ReportExact ==
    \A r \in Requests :
        input[r] # NoInput /\ input[r].kind = "chunk" =>
            /\ handler[r] = "complete" => report[r] = input[r].sequence + 1
            /\ handler[r] \in {"timed_out", "failed"} => report[r] = input[r].sequence

\* Sequence numbers are exact: a session holds the chunks it was sent, each
\* at the place of its sequence number, whatever was retried, duplicated or
\* reset meanwhile, and never more than STREAM_STATE_BYTES; and callers are
\* told so.
SessionExact ==
    /\ ReportExact
    /\ \A s \in Slots :
           LET a == sessions[s].accumulated
           IN  /\ sessions[s].next_sequence = Len(a.of)
               /\ sessions[s].chunks = Len(a.of)
               /\ a.len <= StateBytes
               /\ \A n \in 1 .. Len(a.of) :
                      /\ input[a.of[n]].kind = "chunk"
                      /\ input[a.of[n]].slot = s
                      /\ input[a.of[n]].sequence = n - 1

\* The copy a task took before its runner ran is still the session's state
\* when the result is stored, although no mutex is held in between.
CopyIsFresh ==
    \A r \in Requests :
        pc[r] \in Running \ {"counting"} =>
            previous[r] = IF input[r].kind = "turn"
                            THEN states[input[r].slot]
                            ELSE sessions[input[r].slot].accumulated

\* The turns and chunks that are through with the outcome `what`.
Counted(what) ==
    {r \in Requests : /\ result[r] = what
                      /\ pc[r] \in {"padding", "released", "done"}
                      /\ input[r].kind # "reset"}

\* The counters that /health shows are exact, and a request is counted before
\* it is answered: the benchmark accepts a campaign by comparing them.
CountersExact ==
    /\ \A what \in Outcomes : counters[what] = Cardinality(Counted(what))
    /\ counters.throttled = Cardinality({r \in Requests : handler[r] = "throttled"})

\* Every admitted turn and chunk ends and every reset gets the lane unless it
\* is cancelled; a caller that stays is answered.
EveryTaskEnds ==
    \A r \in Requests :
        /\ pc[r] = "spawned" ~> pc[r] = "done"
        /\ handler[r] = "awaiting" ~> handler[r] # "awaiting"

-----------------------------------------------------------------------------
(* Refinement of the promise *)

FateOf(r) ==
    CASE result[r] = "none" -> "open"
      [] result[r] = "complete" /\ pc[r] = "executed" -> "open"
      [] result[r] = "complete" /\ pc[r] # "executed" -> "applied"
      [] OTHER -> "dropped"

ToldOf(r) ==
    CASE handler[r] \in {"idle", "awaiting", "gone"} -> "nothing"
      [] handler[r] = "complete" -> "applied"
      [] handler[r] = "normalized" -> "over"
      [] OTHER -> "dropped"

Log == INSTANCE StreamLog WITH
    log    <- [s \in Slots |-> sessions[s].accumulated],
    memory <- [s \in Slots |-> states[s].of],
    ask    <- input,
    fate   <- [r \in Requests |-> FateOf(r)],
    told   <- [r \in Requests |-> ToldOf(r)]

\* The lab implements its promise: although a task checks and copies the
\* session, runs a process and stores much later, each chunk is appended as
\* if in one step, each request takes effect at most once, and a chunk or a
\* reset is told exactly what happened.
ImplementsLog == Log!Spec
=============================================================================

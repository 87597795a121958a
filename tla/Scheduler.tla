----------------------------- MODULE Scheduler ------------------------------
(***************************************************************************)
(* The production scheduler (crates/scheduler/src/main.rs): POST /v1/run,  *)
(* the detached slot task it spawns, the pending counter, the fair tokio   *)
(* semaphore `slots`, and the runner process of each slot.                 *)
(*                                                                         *)
(* Each request has a handler (the axum future, dropped when the caller    *)
(* disconnects) and, once admitted, a slot task (which nothing cancels).   *)
(* Between two awaits a task is preemptible, so every externally visible   *)
(* effect of the code is a step of its own.  A slot is SlotTicks long and  *)
(* Tick moves all deadlines closer; tasks may be arbitrarily late.         *)
(***************************************************************************)
EXTENDS Naturals, Sequences, FiniteSets

CONSTANTS
    Requests,            \* the POST /v1/run requests that arrive
    MaxParallelWorkers,  \* Policy::max_parallel_workers
    MaxPendingRuns,      \* Policy::max_pending_runs
    SlotTicks            \* Policy::execution_slot

ASSUME PolicyAssumption ==
    /\ IsFiniteSet(Requests)
    /\ MaxParallelWorkers \in Nat \ {0}
    /\ MaxPendingRuns \in Nat \ {0}
    /\ SlotTicks \in Nat \ {0}

VARIABLES
    handler,   \* [Requests -> state of the request's handler]
    task,      \* [Requests -> program counter of the slot task]
    pending,   \* AppState::pending
    permits,   \* permits the semaphore has available
    queue,     \* the semaphore's waiters, first in first out
    child,     \* [Requests -> the runner process]
    left       \* [Requests -> ticks until the slot's deadline]

vars == <<handler, task, pending, permits, queue, child, left>>

HandlerStates == {"idle", "awaiting", "complete", "rejected", "gone"}

\* spawned: not polled yet; queued: waiting in acquire_owned; granted: owns a
\* permit, deadline not fixed yet; sending / waiting: in execute_process;
\* padding: in sleep_until; released: permit dropped, pending guard not yet.
TaskStates == {"none", "spawned", "queued", "granted", "sending", "waiting",
               "padding", "released", "done"}

\* exited: dead by itself and not reaped; signalled: SIGKILL has been sent and
\* the process still exists; gone: no process.
ChildStates == {"none", "alive", "exited", "signalled", "gone"}

Executing == {"sending", "waiting"}
Holding   == {"granted", "padding"} \cup Executing
Guarded   == {"spawned", "queued", "released"} \cup Holding

\* Tasks that own a permit, and tasks that own a PendingGuard.
Holders == {r \in Requests : task[r] \in Holding}
Guards  == {r \in Requests : task[r] \in Guarded}

Init ==
    /\ handler = [r \in Requests |-> "idle"]
    /\ task = [r \in Requests |-> "none"]
    /\ pending = 0
    /\ permits = MaxParallelWorkers
    /\ queue = << >>
    /\ child = [r \in Requests |-> "none"]
    /\ left = [r \in Requests |-> 0]

-----------------------------------------------------------------------------
(* Mutants: steps of the code with one plausible mistake each.  Nothing      *)
(* below uses them; a run with one in place of the step it is named after    *)
(* must break a property.                                                    *)

\* The answer does not wait for the whole task.
RespondOnRelease(r) ==
    /\ handler[r] = "awaiting"
    /\ task[r] \in {"released", "done"}
    /\ handler' = [handler EXCEPT ![r] = "complete"]
    /\ UNCHANGED <<task, pending, permits, queue, child, left>>

\* The slot is as long as the CPU limit: execution_slot + 1.
SpawnRunnerLongSlot(r) ==
    /\ task[r] = "granted"
    /\ left' = [left EXCEPT ![r] = SlotTicks + 1]
    /\ child' = [child EXCEPT ![r] = "alive"]
    /\ task' = [task EXCEPT ![r] = "sending"]
    /\ UNCHANGED <<handler, pending, permits, queue>>

\* No kill_on_drop.
AfterDropNoKill(c) == c

\* The timeout is around child.wait() only.
TimeoutElapsesInWait(r) ==
    /\ task[r] = "waiting"
    /\ left[r] = 0
    /\ child' = [child EXCEPT ![r] = IF @ = "alive" THEN "signalled" ELSE "gone"]
    /\ task' = [task EXCEPT ![r] = "padding"]
    /\ UNCHANGED <<handler, pending, permits, queue, left>>

\* The guard is forgotten instead of dropped.
DropGuardForgets(r) ==
    /\ task[r] = "released"
    /\ task' = [task EXCEPT ![r] = "done"]
    /\ UNCHANGED <<handler, pending, permits, queue, child, left>>

-----------------------------------------------------------------------------
(* The handler *)

\* fetch_update finds room: one atomic step takes the place, and up to the
\* next await the handler builds the guard and spawns the slot task.
Admit(r) ==
    /\ handler[r] = "idle"
    /\ pending < MaxPendingRuns
    /\ pending' = pending + 1
    /\ handler' = [handler EXCEPT ![r] = "awaiting"]
    /\ task' = [task EXCEPT ![r] = "spawned"]
    /\ UNCHANGED <<permits, queue, child, left>>

\* fetch_update finds none: 429, no guard is ever built.
Reject(r) ==
    /\ handler[r] = "idle"
    /\ ~(pending < MaxPendingRuns)
    /\ handler' = [handler EXCEPT ![r] = "rejected"]
    /\ UNCHANGED <<task, pending, permits, queue, child, left>>

\* slot.await resolves when the task has returned; the result is ignored.
Respond(r) ==
    /\ handler[r] = "awaiting"
    /\ task[r] = "done"
    /\ handler' = [handler EXCEPT ![r] = "complete"]
    /\ UNCHANGED <<task, pending, permits, queue, child, left>>

\* The caller disconnects: the handler and its JoinHandle are dropped, which
\* detaches the task.
Disconnect(r) ==
    /\ handler[r] = "awaiting"
    /\ handler' = [handler EXCEPT ![r] = "gone"]
    /\ UNCHANGED <<task, pending, permits, queue, child, left>>

-----------------------------------------------------------------------------
(* The slot task *)

\* First poll of acquire_owned: a permit is available.
Acquire(r) ==
    /\ task[r] = "spawned"
    /\ permits > 0
    /\ permits' = permits - 1
    /\ task' = [task EXCEPT ![r] = "granted"]
    /\ UNCHANGED <<handler, pending, queue, child, left>>

\* First poll of acquire_owned: none is, the task joins the waiters.
Enqueue(r) ==
    /\ task[r] = "spawned"
    /\ permits = 0
    /\ queue' = Append(queue, r)
    /\ task' = [task EXCEPT ![r] = "queued"]
    /\ UNCHANGED <<handler, pending, permits, child, left>>

\* The deadline is fixed and the runner is spawned.
SpawnRunner(r) ==
    /\ task[r] = "granted"
    /\ left' = [left EXCEPT ![r] = SlotTicks]
    /\ child' = [child EXCEPT ![r] = "alive"]
    /\ task' = [task EXCEPT ![r] = "sending"]
    /\ UNCHANGED <<handler, pending, permits, queue>>

\* The deadline is fixed and current_exe or spawn fails; the error is dropped.
SpawnFails(r) ==
    /\ task[r] = "granted"
    /\ left' = [left EXCEPT ![r] = SlotTicks]
    /\ task' = [task EXCEPT ![r] = "padding"]
    /\ UNCHANGED <<handler, pending, permits, queue, child>>

\* write_all, shutdown and drop(stdin) succeed.
SendModule(r) ==
    /\ task[r] = "sending"
    /\ task' = [task EXCEPT ![r] = "waiting"]
    /\ UNCHANGED <<handler, pending, permits, queue, child, left>>

\* What dropping the Child (kill_on_drop) leaves of the runner: SIGKILL is
\* sent, its effect is not awaited.
AfterDrop(c) == IF c = "alive" THEN "signalled" ELSE "gone"

\* wait() reaps a runner that exited; the exit status is not looked at.
WaitReturns(r) ==
    /\ task[r] = "waiting"
    /\ child[r] = "exited"
    /\ child' = [child EXCEPT ![r] = "gone"]
    /\ task' = [task EXCEPT ![r] = "padding"]
    /\ UNCHANGED <<handler, pending, permits, queue, left>>

\* write_all, shutdown or wait returns an error: execute_process returns it,
\* dropping the child, and the slot task drops the error.
ExecuteFails(r) ==
    /\ task[r] \in Executing
    /\ child' = [child EXCEPT ![r] = AfterDrop(@)]
    /\ task' = [task EXCEPT ![r] = "padding"]
    /\ UNCHANGED <<handler, pending, permits, queue, left>>

\* timeout_at elapses: the execute_process future is dropped, and the child.
TimeoutElapses(r) ==
    /\ task[r] \in Executing
    /\ left[r] = 0
    /\ child' = [child EXCEPT ![r] = AfterDrop(@)]
    /\ task' = [task EXCEPT ![r] = "padding"]
    /\ UNCHANGED <<handler, pending, permits, queue, left>>

\* Mutant of HandOver: an unfair semaphore, the permit is for whoever comes.
HandOverUnfair(r) ==
    /\ permits' = permits + 1
    /\ task' = [task EXCEPT ![r] = "released"]
    /\ UNCHANGED queue

\* Mutant of HandOver: the waiters are a stack.
HandOverToLast(r) ==
    IF queue = << >>
      THEN HandOverUnfair(r)
      ELSE /\ queue' = SubSeq(queue, 1, Len(queue) - 1)
           /\ task' = [task EXCEPT ![r] = "released", ![queue[Len(queue)]] = "granted"]
           /\ UNCHANGED permits

\* drop(permit) hands the permit to the first waiter, and makes it available
\* only if there is none.
HandOver(r) ==
    IF queue = << >>
      THEN /\ permits' = permits + 1
           /\ task' = [task EXCEPT ![r] = "released"]
           /\ UNCHANGED queue
      ELSE /\ queue' = Tail(queue)
           /\ task' = [task EXCEPT ![r] = "released", ![Head(queue)] = "granted"]
           /\ UNCHANGED permits

\* Mutant of ReleasePermit: no sleep_until, an early exit frees the slot.
ReleasePermitEarly(r) ==
    /\ task[r] = "padding"
    /\ HandOver(r)
    /\ UNCHANGED <<handler, pending, child, left>>

\* Mutant of ReleasePermit: the task awaits the death of the killed runner.
ReleasePermitAfterDeath(r) ==
    /\ child[r] \in {"none", "gone"}
    /\ left[r] = 0
    /\ ReleasePermitEarly(r)

\* sleep_until(deadline) is over and the permit is dropped.
ReleasePermit(r) ==
    /\ task[r] = "padding"
    /\ left[r] = 0
    /\ HandOver(r)
    /\ UNCHANGED <<handler, pending, child, left>>

\* The block ends: _pending_guard is dropped, then the JoinHandle resolves.
DropGuard(r) ==
    /\ task[r] = "released"
    /\ pending' = pending - 1
    /\ task' = [task EXCEPT ![r] = "done"]
    /\ UNCHANGED <<handler, permits, queue, child, left>>

-----------------------------------------------------------------------------
(* The environment *)

\* The runner finishes, traps, is refused by its sandbox or is killed by one
\* of its limits.  A hostile module need not ever finish.
RunnerExits(r) ==
    /\ child[r] = "alive"
    /\ child' = [child EXCEPT ![r] = "exited"]
    /\ UNCHANGED <<handler, task, pending, permits, queue, left>>

\* The kernel carries out a SIGKILL and tokio's orphan queue reaps.
RunnerDies(r) ==
    /\ child[r] = "signalled"
    /\ child' = [child EXCEPT ![r] = "gone"]
    /\ UNCHANGED <<handler, task, pending, permits, queue, left>>

Tick ==
    /\ \E r \in Requests : left[r] > 0
    /\ left' = [r \in Requests |-> IF left[r] > 0 THEN left[r] - 1 ELSE 0]
    /\ UNCHANGED <<handler, task, pending, permits, queue, child>>

-----------------------------------------------------------------------------
HandlerStep(r) == Admit(r) \/ Reject(r) \/ Respond(r) \/ Disconnect(r)

TaskStep(r) ==
    \/ Acquire(r) \/ Enqueue(r) \/ SpawnRunner(r) \/ SpawnFails(r)
    \/ SendModule(r) \/ WaitReturns(r) \/ ExecuteFails(r) \/ TimeoutElapses(r)
    \/ ReleasePermit(r) \/ DropGuard(r)

RunnerStep(r) == RunnerExits(r) \/ RunnerDies(r)

\* Every request has been dealt with and nothing is left to run.
Quiet ==
    /\ \A r \in Requests : /\ handler[r] \in {"complete", "rejected", "gone"}
                           /\ task[r] \in {"none", "done"}
                           /\ child[r] \in {"none", "gone"}
                           /\ left[r] = 0
    /\ UNCHANGED vars

Next ==
    \/ Tick
    \/ \E r \in Requests : HandlerStep(r) \/ TaskStep(r) \/ RunnerStep(r)
    \/ Quiet

Spec == Init /\ [][Next]_vars

\* The runtime polls every task that can make progress and time passes.
\* Nothing is assumed of callers, of runners, or of I/O errors.
Fairness ==
    /\ WF_vars(Tick)
    /\ \A r \in Requests :
          /\ WF_vars(Acquire(r) \/ Enqueue(r))
          /\ WF_vars(SpawnRunner(r) \/ SpawnFails(r))
          /\ WF_vars(TimeoutElapses(r))
          /\ WF_vars(ReleasePermit(r))
          /\ WF_vars(DropGuard(r))
          /\ WF_vars(Respond(r))

FairSpec == Spec /\ Fairness

-----------------------------------------------------------------------------
(* Properties *)

\* Type invariant: every variable stays within the states named above.
TypeOK ==
    /\ handler \in [Requests -> HandlerStates]
    /\ task \in [Requests -> TaskStates]
    /\ pending \in Nat
    /\ permits \in Nat
    /\ queue \in Seq(Requests)
    /\ child \in [Requests -> ChildStates]
    /\ left \in [Requests -> 0 .. SlotTicks]

\* The pending counter is exactly the number of live guards, and permits plus
\* their owners always make max_parallel_workers: no disconnect, failed spawn,
\* I/O error or timeout leaks or duplicates either (run_worker, PendingGuard).
Accounting ==
    /\ pending = Cardinality(Guards)
    /\ permits + Cardinality(Holders) = MaxParallelWorkers

\* fetch_update never lets more than max_pending_runs runs be unfinished, and
\* the semaphore never more than max_parallel_workers of them own a slot.
AdmissionBound ==
    /\ Cardinality(Guards) <= MaxPendingRuns
    /\ Cardinality(Holders) <= MaxParallelWorkers

\* The semaphore's waiters are the queued tasks, each once, and a permit is
\* available only while nobody waits for one.
QueueExact ==
    /\ \A r \in Requests : task[r] = "queued" <=> \E i \in DOMAIN queue : queue[i] = r
    /\ \A i, j \in DOMAIN queue : queue[i] = queue[j] => i = j
    /\ permits > 0 => queue = << >>

\* A runner that has not been sent SIGKILL belongs to a task that owns a
\* permit, so no more than max_parallel_workers such runners exist
\* (kill_on_drop and the order of timeout_at and drop(permit)).
RunnersHoldSlots ==
    /\ \A r \in Requests : child[r] \in {"alive", "exited"} => task[r] \in Executing
    /\ Cardinality({r \in Requests : child[r] = "alive"}) <= MaxParallelWorkers

\* When a caller is answered its run is over: the permit and the guard are
\* back and its runner, if it still exists, has been sent SIGKILL.
AnswerIsLast ==
    \A r \in Requests :
        handler[r] = "complete" =>
            /\ r \notin Guards
            /\ left[r] = 0
            /\ child[r] \notin {"alive", "exited"}

\* Permits are handed out in the order in which tasks asked for one: a step
\* that gives s a permit leaves nobody behind who asked before s.
NoOvertaking ==
    [][\A s \in Requests :
          (s \notin Holders /\ task'[s] = "granted") =>
              \A i \in DOMAIN queue :
                  \/ queue[i] = s
                  \/ task'[queue[i]] = "granted"
                  \/ \E j \in 1 .. i : queue[j] = s]_vars

\* Every admitted run ends, whatever its runner does, and its caller is
\* answered unless it has gone away.
EveryRunEnds ==
    \A r \in Requests :
        /\ task[r] = "spawned" ~> task[r] = "done"
        /\ handler[r] = "awaiting" ~> handler[r] \in {"complete", "gone"}

\* The threat model's sentence about the deadline, as an invariant: when a
\* task no longer owns its slot, its runner has terminated.
TerminatedByRelease ==
    \A r \in Requests : task[r] \in {"released", "done"} => child[r] # "signalled"

-----------------------------------------------------------------------------
(* Refinement of the promise *)

RunOf(r) ==
    CASE task[r] = "none" -> "none"
      [] task[r] \in {"spawned", "queued", "granted"} -> "waiting"
      [] task[r] \in {"sending", "waiting", "padding"} -> "slot"
      [] task[r] = "released" -> "closing"
      [] OTHER -> "closed"

ReplyOf(r) ==
    CASE handler[r] = "complete" -> "complete"
      [] handler[r] = "rejected" -> "refused"
      [] handler[r] = "gone" -> "abandoned"
      [] OTHER -> "none"

Promise == INSTANCE FixedSlots WITH
    MaxParallel <- MaxParallelWorkers,
    MaxPending  <- MaxPendingRuns,
    run   <- [r \in Requests |-> RunOf(r)],
    reply <- [r \in Requests |-> ReplyOf(r)]

\* The scheduler implements the promise: whatever runners and callers do, a
\* run is refused only when the queue is full, owns its slot for exactly
\* SlotTicks, and is answered last and always the same.
ImplementsPromise == Promise!Spec

\* And it keeps the promise with its liveness: slots are given to waiting runs,
\* end, close and are answered, although nothing is assumed of runners.
ImplementsFairness == Promise!FairSpec
=============================================================================

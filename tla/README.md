# ishtar-oxide in TLA+

TLA+ specifications of [ishtar-oxide](../src/README.md): a scheduler that runs
one hostile WebAssembly module in fixed time slots, in a fresh sandboxed
process each time, and a laboratory server with the same runner for sequential
and stream experiments, with their clients. The specifications are
model-checked with TLC on small instances; every safety property that holds,
and the two refinements, are also proved with TLAPS for every value of the
constants: any policy and any number of requests, sessions, trials and faults.

`PROJECT.json` maps every definition to the source lines it models, and lists
components, runs, mutants, findings, hazards and theorems.

## The system

| Part | State | Operations | Interacts with |
|---|---|---|---|
| Scheduler, `crates/scheduler/src/main.rs` | `pending` counter, `slots` semaphore with its queue of waiters, one task and at most one runner process per admitted run | `POST /v1/run`: admit or 429, spawn the slot task; task: permit, spawn runner, send the module, wait, pad, release, drop the guard; answer | callers that may disconnect at any await, runners, the kernel, the clock |
| Startup, `artifact.rs` | three secrets in the environment, the artifact buffer | take secrets, check them, start the runtime, GET, receive, decrypt, bind | any artifact source; the envelope of `examples/encrypt-artifact.rs` |
| Runner process, `sandbox.rs`, `wasm.rs` of both crates | descriptors, resource limits, sandbox layers, fuel and guest memory | read, sandbox, validate, compile, instantiate, call, write | its parent: `execute_process`, `validate_artifacts_main`, `validate_runner` |
| Lab server, `crates/sequential-lab/src/main.rs` | `sessions`, `states`, one-permit `lane`, `pending`, four counters | `turn`, `stream_chunk` (in spawned tasks), `stream_reset` (in its handler), and reads (`health`, `stream_state`) | callers, runners, the clock |
| Stream benchmark client (same file, `stream_benchmark`) | per-session sequence number, expected text and tallies | reset, scheduled sends, join, verify, report | the lab server over connections that break |
| Campaign benchmark client (same file, `benchmark`) | trial plan, counter snapshots, latencies | shuffle a plan, matched sender/probe turns, acceptance, decoding, permutation test | the lab server and whoever else uses it |
| Benchmark client, `crates/bench-client`; message types, `crates/protocol` | trial plan, experiment life cycle, records | start, concurrent turns, Ctrl-C, stop, calibrate, score, report | a server that is not in this repository |
| `scripts/run-sequential-lab.sh`, `scripts/run-long-bench.sh` | report files, attempts, an `interrupted` flag | run, check, rename, retry, skip what is done | the clients, signals, an operator who runs them again |

What is hard: a run's place and permit are given up by destructors in a task
that outlives its caller; timeouts race process exits; a killed process lives
on for a while; the lab checks and copies a session, drops the mutex for the
whole life of a process and then overwrites the session; a reset is cancelled
with its caller; the client keeps its own copy of the server's sequence
numbers; the order of the sandbox steps matters; a campaign is accepted on
global counters that others move; a campaign script resumes from whatever
report files an interrupted run has left. `PROJECT.json` lists these as
hazards with the properties that cover them.

## Modules

| Module | What it is |
|---|---|
| `FixedSlots` | What the scheduler promises its callers: one slot of exactly `SlotTicks`, one answer after it, refusal only when full. No process, semaphore or counter in it. |
| `Scheduler` | The scheduler, one action per step between two awaits. `ImplementsPromise` refines `FixedSlots`. |
| `StreamLog` | What the lab promises about its sessions: each request takes effect at most once, in one step, and is told which. |
| `Lab` | The lab server. `ImplementsLog` refines `StreamLog`. |
| `Runner` | One runner process and the verdict of its parent, for both crates: the order of the steps is data (`LabSteps`, `SchedulerSteps`). |
| `Startup` | From the environment to the open listener. |
| `StreamBench` | The stream benchmark client, composed with the server of `StreamLog`. |
| `Counting` | Occurrences, sums and orders in terms of cardinality, without recursion. |
| `TrialPlan` | The trial plan and the decoder that both campaign clients share, as operators, with the reference definition `IsBalanced`. |
| `Campaign` | The campaign client with the lab's counters, other clients, abandoned turns and restarts. |
| `SequentialLab` | `run-sequential-lab.sh` around `Campaign`: kills and reruns. |
| `Experiment` | The benchmark client and the server it talks to: one experiment from start to report. |
| `LongBench` | `run-long-bench.sh` around `Experiment`: retries, signals, crashes and reruns. |
| `CountingProofs` | Lemmas about `Counting` and `TrialPlan`, for any sets, sequences and plans, which the last three modules of the next row share. |
| `SchedulerProofs`, `LabProofs`, `RunnerProofs`, `StartupProofs`, `StreamBenchProofs`, `CampaignProofs`, `LongBenchProofs` | The theorems about each of them. `CampaignProofs` is about `SequentialLab` with the campaign it runs. |
| `MCScheduler`, `MCLab`, `MCRunner`, `MCStartup`, `MCStreamBench`, `MCSequentialLab`, `MCLongBench` | Instances for TLC. |

An operator commented "Mutant of X" stands before X in a module: it is a
plausible error in the code of X, and `PROJECT.json` names for each property
one that makes it fail when it takes the place of X.

### Correspondence with the code

*Scheduler.* `handler[r]` is `run_worker`, `task[r]` the spawned future,
`child[r]` its process. Admission is one atomic `fetch_update` (`Admit`,
`Reject`). The task asks for its permit when it is first polled, which may be
any time later: `Acquire` if one is available, `Enqueue` otherwise; a dropped
permit goes to the first waiter (`HandOver`, tokio's fair semaphore).
`SpawnRunner`, `SendModule`, `WaitReturns` and their failures follow
`execute_process`; `TimeoutElapses` is `timeout_at`; `AfterDrop` is what
dropping the child does (`kill_on_drop`: SIGKILL, no wait). `ReleasePermit`
waits for the slot's end whatever happened, then `DropGuard` and `Respond`
follow in the order of the code. `Disconnect` drops the handler only. Time is
counted in ticks of the slot (`left`).

*Lab.* `pc[r]` walks through `run_slot` / `run_stream_slot`, or the body of
`stream_reset`, which is not spawned and can be cancelled (`CancelReset`).
`ReadPrevious` and `StoreChunk` are the two critical sections of the session
mutex; between them the mutex is free. A byte vector is the sequence of
requests whose bytes it holds, with its length. `terminate` is `CutOff` and
`Reap`: kill and wait; a failing read or wait (`ReadFails`) drops the child
instead, which leaves an orphan that has been sent SIGKILL. A turn's answer is
normalised (`AnswerOf`), a chunk's tells its outcome. The mutex is never held
across an await other than its own lock, so a critical section is one step.

*Runner.* Every system call may be refused and the process may be killed at
any time. A module is a record of what `validate` and the engine look at.
Landlock needs one free descriptor below the limit. Fuel and memory growth
bound the guest. The lab's runner also gives up if the guest's initial memory
is too small for the state it writes there (`StatePages`). The seccomp rule
table is not modelled.

*Startup.* Cryptography is whether a body is sealed under the key. Lengths are
exact, so the three size comparisons are checked at both ends.

*StreamBench.* One task per session with its `SessionRun`. Time is the index
of the offered chunk; a chunk whose time has passed when the session is free
again is held back. The server answers 429 at any time, otherwise as sequence
number and capacity say, otherwise with any outcome.

*Campaign, SequentialLab.* `stage` walks through `bench`; a round of a shuffle
loop is a step, so the random generator is any sequence of choices (the one
seed that leaves xorshift at zero included). The server is reduced to its
counters: a turn is counted under its outcome and then answered (what
`CountersExact` shows of `Lab`), a turn whose client has gone is counted later
(`ServeStray`), another client's turn at any time (`Foreign`), and `Restart`
sets all to zero. Latencies are whole numbers over a channel whose sign
differs from gap to gap, and means are compared without rounding. `lossy` and
`meddled` are history: what happened since the first snapshot. A report is
created and then filled under its final name (`CreateReport`, `WriteReport`);
`SkipJob` looks only at its existence.

*Experiment, LongBench.* `stage` walks through `run_matrix`; `turns` are the
concurrent requests of `run_trial_group`, `traffic` and `stopped` the two
results that are looked at only after the stop. The plan is any balanced plan:
the shuffling is in `Campaign`, and `BalanceCorrect` proves that nothing else
can come of it. `active` is the server's experiment; a process that ends
without stopping its own leaves it. `InterruptClient` is SIGINT: nothing
handles it before `tokio::select!` is polled, and nothing listens after.
`HandlerFails` is the `?` in the Ctrl-C arm of that `select!`: if the handler
cannot be installed, `run_matrix` returns from there, before the stop.
`script` walks through the loop and `run_one`; `CtrlC` reaches the script and
whatever it runs, `Terminate` the script only, `Crash` both, and `Rerun`
starts again from the files. A report is good if the jq predicate would accept
it. `unmoved` are the runs of this script whose `mv` failed, which the script
does not notice. A moved report is not synced to the disk: it is in
`unsynced`, where a `Crash` may cut it short, during later runs and after the
script has ended too, until the kernel has written it (`WriteBack`).

## Runs

`tlc -workers 2 -config <cfg> <module>` in this directory.

| Run | Instance | Shows |
|---|---|---|
| `scheduler_slots` | 4 requests, 2 slots, 4 places, 2 ticks | Places and permits are exact (`Accounting`), an unsignalled runner owns a slot (`RunnersHoldSlots`), `NoOvertaking`, and the promise is kept: full slots, the answer last, refusal only when full (`ImplementsPromise`) |
| `scheduler_live` | 3 requests, 1 slot, 2 places | `EveryRunEnds`, and the promise with its liveness (`ImplementsFairness`) |
| `scheduler_terminated` | 3 requests, 1 slot | violated: `TerminatedByRelease`, see Findings |
| `lab_stream` | 3 chunks or resets, 2 sessions, sequence numbers 0 to 2, sessions that two chunks fill | `Accounting`, `SerializedRunners`, `SessionExact`, `CopyIsFresh`, `ImplementsLog` |
| `lab_live` | 2 requests of any kind, padding on, sessions that one chunk fills | `CountersExact`, `EveryTaskEnds`, and `ImplementsLog` for turns too |
| `runner_lab` | every module with up to 2 memories around a limit of 1 page, 2 units of fuel | `ParsedOnlyInSandbox`, `VerdictJust` (no failure without a cause, no acceptance without a run), `RunnerEnds`; `TypeOK` bounds the guest memory |
| `runner_scheduler` | the scheduler's smoke module on a healthy kernel | violated: `HealthyCheckRan`, see Findings |
| `startup` | header 2, tag 1, module limit 2, bodies up to 2 bytes too long | `SecretsLeaveFirst`, `ServesOnlyAuthentic`, `LegalArtifactsAccepted`, `StartupEnds`; `TypeOK` bounds the buffer |
| `stream_bench` | 2 sessions and 4 chunks, then 1 session and 3 chunks with room for 2 | `Conservation`, `Verified`, `FailsOnlyOnLoss`, `BenchEnds` |
| `campaign` | both runs of one seed; 3 to 7 trials over one or two gaps, with jitter, a repeated gap, refused options, or 3 faults | `PlanBalanced` for every outcome of the shuffles, `AcceptanceJust`, `ChannelDecodes`, `NullStratified` |
| `campaign_completed` | 3 trials, 3 faults | violated: `CompletedMeansReports`, see Findings |
| `long_bench` | both runs of one seed, 2 attempts each, 5 trials of 3 turns (2 calibration samples per bit), 3 faults | `CompleteMeansAll`, `ReportsPreserved`, `WedgedOnlyForCause`, `ScoringSound`, `ScriptEnds`; `TypeOK` bounds the attempts |

### Bounds

The constants are the bounds; no action has a further one, except
`MaxSequence` (sequence numbers a caller of the lab may send), `PageBound`
(pages a module may declare), `ExtraBytes` (how far a body may exceed the
limit) and the number of faults of the two campaign models (`faults` of a
scenario, `MaxFaults`), which is a budget that every lost or refused request,
signal, crash, restart, foreign turn and rerun draws on. Three are enough for
a kill, a rerun and one more thing between or after them; `AcceptanceJust`
needs all three for the one way in which a lossy campaign can be accepted.
They are chosen so that each limit is reached and exceeded: more requests than
places, more places than slots, a session that is full, exactly filled and
overfilled, a sequence number too small, right and too large, a runner that
outlives its cutoff, a last block of the plan that is cut short, the last
attempt. One seed has both kinds of run, and seeds share nothing but the
server; of the permutation test one iteration is followed, since each starts
from a permutation of the same labels. Every request arrives at most once, so
a run is a burst of that many requests; the theorems cover any number of them.
Clocks stop at the last tick that a guard can tell from the next one, which
loses nothing. Requests are interchangeable, and the runs without liveness use
that symmetry.

Passing runs check for deadlock; a disjunct that stutters (`Quiet`, `Over`,
`Concluded`) is enabled only when everything is over. In the two campaign
models a script that has ended may also be run again (`Rerun`).

### Fairness

Weak fairness is assumed of what tokio polls once it is ready (each task's and
handler's own steps), of the clock, and of the kernel carrying out a SIGKILL.
Nothing is assumed of runners (they may run, or not read, for ever), of
callers, of spawn succeeding or of the artifact source. `Runner` assumes that
the interpreter makes progress, not that the guest returns. `StreamBench`
assumes that the lab answers, which `Lab` shows (`EveryTaskEnds`): the client
has no timeout of its own. `LongBench` assumes that the script and the client
run and that the server answers each request, with success or not; nothing is
assumed of faults, which a behaviour has finitely many of. `SequentialLab`
states no liveness: its script has no loop but the one over its runs. Strong
fairness appears only in `FixedSlots`, for a waiting run's slot;
`ImplementsFairness` shows that the first-in-first-out queue provides it under
weak fairness of the implementation.

## Proofs

`tlapm <module>` in this directory. Every theorem is of the form `Spec =>
[]Inv`, `Spec => [][A]_vars` or `Spec => AbstractSpec`, and rests on the
theorem `Invariance` (`Spec => []IInv`) of its module; two modules add a
second invariant on top of the first (`MemoryInvariance`, `ScoreInvariance`).
Each inductive invariant was checked with TLC on the run's instance before it
was proved. The proofs use the `ASSUME` of the modules and nothing else.

| Module | Assumes | Theorems, with the property they state |
|---|---|---|
| `SchedulerProofs` | a finite set of requests; at least one slot, one place and one tick per slot | `TypeCorrect`, `AccountingCorrect`, `RunnersBounded`, `PermitsAreFair` (`NoOvertaking`), `Refinement` (`ImplementsPromise`); proved only: `AdmissionBounded`, `AnswersAreLast`, `QueueCorrect` |
| `LabProofs` | a finite set of requests; what `serve` checks of its options | `TypeCorrect`, `AccountingCorrect`, `RunnersSerialized` (`SerializedRunners`), `SessionsCorrect` (`SessionExact`), `CopiesFresh` (`CopyIsFresh`), `CountersCorrect` (`CountersExact`), `Refinement` (`ImplementsLog`) |
| `RunnerProofs` | natural limits and state size; the pages a module may declare reach at least to the limit | `TypeCorrect`, `SandboxFirst` (`ParsedOnlyInSandbox`, for both binaries), `VerdictsJust` (`VerdictJust`, for the lab's) |
| `StartupProofs` | natural sizes, a module limit above zero | `TypeCorrect`, `SecretsGone` (`SecretsLeaveFirst`), `AuthenticOnly` (`ServesOnlyAuthentic`), `LegalAccepted` (`LegalArtifactsAccepted`) |
| `StreamBenchProofs` | what `bench` checks of its options and of `/health` | `FailureCorrect` (`FailsOnlyOnLoss`), `VerificationCorrect` (`Verified`), `ConservationCorrect` (`Conservation`); proved only: `SessionsConserved` |
| `CampaignProofs` | natural numbers as options | `TypeCorrect`, `AcceptanceCorrect` (`AcceptanceJust`), `BalanceCorrect` (`PlanBalanced`), `DecodingCorrect` (`ChannelDecodes`), `StratificationCorrect` (`NullStratified`); proved only: `MemoryInvariance` |
| `LongBenchProofs` | at least one offset, one calibration trial per bit and offset, and one seed; natural numbers otherwise | `TypeCorrect`, `CompleteCorrect` (`CompleteMeansAll`), `WedgedCorrect` (`WedgedOnlyForCause`), `ReportsKept` (`ReportsPreserved`), `ScoringCorrect` (`ScoringSound`); proved only: `ScoreInvariance` |

### Why the invariants are what they are

*Scheduler.* `IInv` is `TypeOK`, `Accounting`, `pending <= MaxPendingRuns`,
`QueueExact` and `Coupled`. `Accounting` is not inductive alone: that a permit
is handed to a waiter, who is thereby a new owner, needs `QueueExact` (the
head of the queue is a queued task and appears once), and that `Reject`,
`Respond` and `DropGuard` touch the right runs needs `Coupled`, which ties
`handler`, `task`, `child` and `left` of one request together. The counting is
done by lemmas on how the cardinalities of `Guards` and `Holders` change when
one request moves. The refinement has one step per action of `Scheduler`, each
a step of `FixedSlots` or a stutter, and uses `IInv` to translate `pending`
and `permits` into the cardinalities that the guards of `FixedSlots` speak of.

*Lab.* Here exclusion is the key. `LaneExact` says that the one permit is
available or owned by exactly one request; with it, `Fresh` is inductive: what
was checked and copied under the mutex still holds when the result is stored,
although the mutex was free in between, because whoever could change the
session needs the lane. `SessionsExact` (a session is the chunks that were
completed on it, in the order of their sequence numbers) then follows from
`StoreChunk`, and `Coupled` settles what the answer will report when it is
counted. `Shift` and `Local` describe what a step does to the other requests;
each of the steps is shown once to be of that shape. In the
refinement the effect of a request is the step that stores it and its answer
the step that settles it; every other step is a stutter.

*Runner.* The steps are data, so the invariant speaks of positions:
`LayersExact` says that the layers in force are those whose step comes before
the current one. That both step sequences put every layer before the first
look at the module is a fact about two constants, and `SandboxFirst` is about
both. `RoomForRuleset` is the order that the scheduler's runner has wrong.

*Startup.* `SecretsLeaveFirst` speaks of what happens after the check of the
secrets and is not inductive at the check itself; `Taken` says that they are
gone as soon as they were read. `LegalArtifactsAccepted` needs to know that
the buffer is a prefix of the body, and all of it before decryption
(`BufferExact`).

*StreamBench.* `Agrees` is what the client's copy of the server's state
amounts to at each point of a request: the session holds what the task
expects, plus one chunk while a "complete" is on its way, and nothing is said
once the connection is broken. That the sequence number is right follows;
that there is room needs counting (`CountsFor`): the chunks a session holds
and those its task has left never exceed the capacity, which `.take` provides
and every iteration preserves. The arithmetic is the division of
`max_chunks_per_session` (`RoomForOne`). The same counts give
`SessionsConserved`, the part of `Conservation` that is about one session.
For the whole report the sums over the sessions have to be added up, and the
sessions' shares (`step_by`) have to add up to what is offered (`DealtOut`:
the residues of the chunk numbers deal them out).

*Campaign.* The client compares two snapshots of counters that everybody moves
and a restart sets back. `MovedExact` says, at every moment between them, how
they can differ from the first one: without a restart they have only grown and
show every loss (`GrownOnly`); after a restart and without other clients they
count completed turns of this campaign only, and fewer than it has had
answered if one was lost (`OwnOnly`); left alone they have moved by exactly
`Done`, the answered turns (`Undisturbed`). The property follows at the second
snapshot.

The second invariant, `PInv`, is about the client's own memory. While a plan
is made (`Making`) the list under the shuffle has the trials of a fresh list
as often as that list had them, since a swap is a bijection of the positions,
and the plan so far is the calibration trials and some whole blocks, each with
both bits of every gap. Cutting the last block short then leaves a balanced
plan (`Made`), whatever the shuffles chose. Every latency is one that the
channel gives its trial (`Measured`). In the permutation test every group
holds places of one gap only (`Permuting`), so a swap within a group moves no
bit to another gap. Decoding follows: a balanced plan has a calibration sample
of either bit for every gap unless none were asked for or a gap is listed
twice, the samples of the two bits lie in bands that do
not touch, so do their means, and the middle of the means separates the bands
(`DecodeRight`, by cross-multiplication).

*LongBench.* `ReportsExact` says that a script which was not interrupted and
has counted no failure has left a good report for each job behind it, whatever
earlier scripts left, under its final name or, where `mv` failed, under its
temporary one, which only that run's client could touch again; the rest ties
the client's life to the script's (`ScriptExact`) and the server's experiment
to the client's (`ActiveExact`), which is needed for `WedgedOnlyForCause`
since a loss is remembered across attempts. The second invariant, `SInv`, says
that traffic which is done has a record of every trial, that only such traffic
is scored, that what is written had a calibration sample of either bit, and
which latency every probe has: its trial's if the sender's turn ran, the fast
bit's if it was refused. Refused senders dilute the mean of the slow bit's
samples, but one that ran keeps it strictly above the other mean
(`DecodeDiluted`), and `ScoringSound` follows; that a repeated offset only
shortens the prefix is `PrefixWithin`.

*Counting.* Induction over data is out of the prover's reach, so nothing that
is proved about counts and sums uses it: the number of occurrences is the
cardinality of a set of places, a sum is the cardinality of a disjoint union,
a sorted list has at place n the element with n - 1 smaller ones. That a swap
keeps the occurrences, that a sum distributes over a union or an addition, and
that a mean lies in the band of its samples are then facts about bijections,
products and subsets, which the library's theorems on cardinality give.

### Only model-checked

Liveness: `EveryRunEnds`, `ImplementsFairness`, `EveryTaskEnds`, `RunnerEnds`,
`BenchEnds`, `StartupEnds` and `ScriptEnds`. The prover has neither fairness
nor `ENABLED`. Every invariant and every action property of a passing run, and
both refinements without their liveness, are proved.

## Findings

1. `TerminatedByRelease` (run `scheduler_terminated`). The threat model says
   that the runner is terminated at its deadline and the permit kept until
   then. The scheduler sends SIGKILL and does not wait, so the process may
   still exist when the permit has gone to another run. The lab waits.
2. `HealthyCheckRan` (run `runner_scheduler`). The scheduler's runner sets
   `RLIMIT_NOFILE` to 3 and then creates the Landlock ruleset, which needs a
   fourth descriptor: on Linux every runner fails before it parses the module.
   The lab has the two in the other order and a comment that says why.
3. `HealthyCheckRan` again. `execute_process` discards the exit status, so
   `__validate_artifacts`, which the Dockerfile runs as a check, reports a
   validated runner although it failed. Either repair alone changes the
   counterexample, and both are needed for the check to mean anything.
4. `CompletedMeansReports` (run `campaign_completed`). The campaign client
   writes its report in place and `run-sequential-lab.sh` skips a file that
   exists: after a write that was cut off, a rerun announces completed reports
   although one is partial.

Because of (2) the scheduler's runner never reaches the module, and
`ParsedOnlyInSandbox` would hold of it for want of any parsing: it is checked
for the lab's runner only. (`SandboxFirst` proves it for both, from the order
of the steps and not from that failure.)

Smaller observations, each of which a property states as its exception:

- A gap listed twice makes the plan's calibration longer than the prefix that
  the lab's analysis calibrates on. Calibration trials are then scored, and a
  bit of a gap may be left without a sample, whose mean is taken for 0: the
  one way, besides asking for no calibration, in which a trial over a clean
  channel is decoded wrongly (`ChannelDecodes`). `bench-client` has the same
  prefix, but refuses to calibrate without a sample (`ScoringSound`).
- `bench-client` calibrates on probes of trials whose sender was refused. That
  is harmless as long as one sender of a slow-bit calibration trial ran; if
  none did, nothing is reported and every bit is decoded as a one
  (`ScoringSound`).
- A campaign with a lost turn is accepted if the server restarted and other
  clients' turns made up the difference (`AcceptanceJust`).
- A lost answer to the start, a lost stop or a kill leaves the experiment
  active on the server, and retries then fail (`WedgedOnlyForCause`). So does
  a Ctrl-C handler that cannot be installed: `?` at
  `crates/bench-client/src/main.rs:195` returns before the stop at line 203,
  although the comment at line 200 says "Always attempt to close the active
  experiment after traffic starts".
- `run-long-bench.sh` does not look at the status of `mv`: it may announce
  completion while a report is intact but still under its temporary name
  (`CompleteMeansAll`). After an interrupt during its sleep it starts one
  more attempt.

## Not modelled

Reads without effect (`health`, `stream_state`, the container health check),
wording and layout of answers, TLS and HTTP, the interpreter, the seccomp rule
table, deployment files. The floating-point figures of the reports (mutual
information, percentiles, p-values) and the jq summaries: they are computed
from what the models hold and change nothing. The validators of
`crates/protocol` have no caller in the repository. The synthetic guests are
straight-line loops. Option parsing and the build in the scripts, and
`--rounds 0`, with which `run-long-bench.sh` runs until it is interrupted.
`StreamBench` has the server to itself and does not restart: chunks left over
from an interrupted client are not in it. Real-time claims (how late a padded
answer can be) are out of reach of a model with ticks.

## Plan

Done: inventory; the scheduler and the lab with their promises; the runners;
startup; the stream benchmark client; both campaign clients with their trial
plan; both campaign scripts with their faults; for each of them a module of
proofs. Every part that has control state of its own is modelled, and every
safety property is proved.

Left: the stream benchmark against a server that restarts or that other
clients use, so that chunks of an interrupted client turn up in it; the
permutation test's p-value as a count of iterations; and, if a prover with
fairness becomes available, the liveness properties.

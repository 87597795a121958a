-------------------------- MODULE SchedulerProofs ---------------------------
(***************************************************************************)
(* Machine-checked proofs about Scheduler, for any finite set of requests  *)
(* and any policy.                                                         *)
(***************************************************************************)
EXTENDS Scheduler, FiniteSetTheorems, TLAPS

-----------------------------------------------------------------------------
(* Counting *)

\* A set of requests is finite and its size is a natural number.
LEMMA RequestSets ==
    ASSUME NEW S \in SUBSET Requests
    PROVE  IsFiniteSet(S) /\ Cardinality(S) \in Nat
  BY FS_Subset, FS_CardinalityType, PolicyAssumption

\* A request that enters a set makes it larger by one.
LEMMA CountAdd ==
    ASSUME NEW S \in SUBSET Requests, NEW r \in Requests, r \notin S
    PROVE  Cardinality(S \cup {r}) = Cardinality(S) + 1
  BY RequestSets, FS_AddElement

\* A request that leaves a set makes it smaller by one.
LEMMA CountRemove ==
    ASSUME NEW S \in SUBSET Requests, NEW r \in S
    PROVE  /\ Cardinality(S \ {r}) = Cardinality(S) - 1
           /\ Cardinality(S) > 0
  <1>1. Cardinality(S \ {r}) = Cardinality(S) - 1
    BY RequestSets, FS_RemoveElement
  <1>2. S \ {r} \in SUBSET Requests
    OBVIOUS
  <1>3. Cardinality(S \ {r}) \in Nat /\ Cardinality(S) \in Nat
    BY <1>2, RequestSets
  <1> QED BY <1>1, <1>3

-----------------------------------------------------------------------------
(* The inductive invariant *)

\* How the parts of one request fit together.
Coupled ==
    \A r \in Requests :
        /\ task[r] = "none" <=> handler[r] \in {"idle", "rejected"}
        /\ handler[r] = "complete" => task[r] = "done"
        /\ left[r] > 0 => task[r] \in {"sending", "waiting", "padding"}
        /\ child[r] \in {"alive", "exited"} => task[r] \in Executing

\* The inductive invariant: the properties to prove, and what ties them.
IInv ==
    /\ TypeOK
    /\ Accounting
    /\ pending <= MaxPendingRuns
    /\ QueueExact
    /\ Coupled

\* Facts about the invariant used by every action.
LEMMA GuardsAndHolders ==
    Guards \in SUBSET Requests /\ Holders \in SUBSET Requests
  BY DEF Guards, Holders

\* The scheduler starts with every place and permit free.
LEMMA InitIInv == Init => IInv
  <1> SUFFICES ASSUME Init PROVE IInv
    OBVIOUS
  <1> USE PolicyAssumption DEF Init
  <1>1. TypeOK
    BY DEF TypeOK, HandlerStates, TaskStates, ChildStates
  <1>2. Accounting
    <2>1. Guards = {} /\ Holders = {}
      BY DEF Guards, Holders, Guarded, Holding, Executing
    <2> QED BY <2>1, FS_EmptySet DEF Accounting
  <1>3. QueueExact
    BY DEF QueueExact
  <1>4. Coupled
    BY DEF Coupled
  <1> QED BY <1>1, <1>2, <1>3, <1>4 DEF IInv

\* A step that moves r alone between stages of the same kind counts the same.
LEMMA SameCounts ==
    ASSUME TypeOK, Accounting, NEW r \in Requests, NEW s \in TaskStates,
           task' = [task EXCEPT ![r] = s],
           task[r] \in Guarded <=> s \in Guarded,
           task[r] \in Holding <=> s \in Holding,
           UNCHANGED <<pending, permits>>
    PROVE  Accounting'
  <1>1. Guards' = Guards /\ Holders' = Holders
    BY DEF Guards, Holders, TypeOK
  <1> QED BY <1>1 DEF Accounting

\* Neither does a step that leaves every task alone.
LEMMA SameTasks ==
    ASSUME Accounting, UNCHANGED <<task, pending, permits>>
    PROVE  Accounting'
  BY DEF Accounting, Guards, Holders

\* The queue is not touched and no task enters or leaves it.
LEMMA SameQueue ==
    ASSUME TypeOK, QueueExact, NEW r \in Requests, NEW s \in TaskStates,
           task' = [task EXCEPT ![r] = s],
           task[r] # "queued", s # "queued",
           UNCHANGED <<queue, permits>>
    PROVE  QueueExact'
  BY DEF QueueExact, TypeOK

-----------------------------------------------------------------------------
(* One lemma per kind of step *)

\* The counters while a caller arrives, is refused, is answered or leaves.
LEMMA HandlerStepIInv ==
    ASSUME IInv, NEW r \in Requests, HandlerStep(r)
    PROVE  IInv'
  <1> USE PolicyAssumption DEF IInv
  <1>1. CASE Admit(r)
    <2> USE <1>1 DEF Admit
    <2>1. TypeOK'
      BY DEF TypeOK, HandlerStates, TaskStates
    <2>2. task[r] = "none"
      BY DEF Coupled, TypeOK
    <2>3. Accounting'
      <3>1. Guards' = Guards \cup {r} /\ r \notin Guards
        BY <2>2 DEF Guards, Guarded, Holding, Executing, TypeOK
      <3>2. Holders' = Holders
        BY <2>2 DEF Holders, Holding, Executing, TypeOK
      <3> QED BY <3>1, <3>2, CountAdd, GuardsAndHolders DEF Accounting
    <2>4. QueueExact'
      BY <2>2, SameQueue DEF TaskStates
    <2>5. Coupled'
      BY <2>2 DEF Coupled, TypeOK, Executing
    <2>6. (pending <= MaxPendingRuns)'
      BY DEF TypeOK
    <2> QED BY <2>1, <2>3, <2>4, <2>5, <2>6
  <1>2. CASE Reject(r) \/ Respond(r) \/ Disconnect(r)
    <2> USE <1>2 DEF Reject, Respond, Disconnect
    <2>1. TypeOK'
      BY DEF TypeOK, HandlerStates
    <2>2. Accounting'
      BY SameTasks
    <2>3. QueueExact'
      BY DEF QueueExact
    <2>4. Coupled'
      BY DEF Coupled, TypeOK
    <2> QED BY <2>1, <2>2, <2>3, <2>4
  <1> QED BY <1>1, <1>2 DEF HandlerStep

\* A permit is taken, or a place in the queue.
LEMMA AcquireIInv ==
    ASSUME IInv, NEW r \in Requests, Acquire(r) \/ Enqueue(r)
    PROVE  IInv'
  <1> USE PolicyAssumption DEF IInv
  <1>1. CASE Acquire(r)
    <2> USE <1>1 DEF Acquire
    <2>1. TypeOK'
      BY DEF TypeOK, TaskStates
    <2>2. Accounting'
      <3>1. Holders' = Holders \cup {r} /\ r \notin Holders
        BY DEF Holders, Holding, Executing, TypeOK
      <3>2. Guards' = Guards
        BY DEF Guards, Guarded, Holding, Executing, TypeOK
      <3>3. Cardinality(Holders) \in Nat
        BY RequestSets, GuardsAndHolders
      <3>4. Cardinality(Holders') = Cardinality(Holders) + 1
        BY <3>1, CountAdd, GuardsAndHolders
      <3> QED BY <3>2, <3>3, <3>4 DEF Accounting, TypeOK
    <2>3. QueueExact'
      BY DEF QueueExact, TypeOK
    <2>4. Coupled'
      BY DEF Coupled, TypeOK, Executing
    <2> QED BY <2>1, <2>2, <2>3, <2>4
  <1>2. CASE Enqueue(r)
    <2> USE <1>2 DEF Enqueue
    <2>1. TypeOK'
      BY DEF TypeOK, TaskStates
    <2>2. Accounting'
      BY SameCounts DEF TaskStates, Guarded, Holding, Executing
    <2>3. QueueExact'
      <3>1. /\ DOMAIN queue' = DOMAIN queue \cup {Len(queue) + 1}
            /\ Len(queue) + 1 \notin DOMAIN queue
            /\ \A i \in DOMAIN queue : queue'[i] = queue[i]
            /\ queue'[Len(queue) + 1] = r
        BY DEF TypeOK
      <3>2. \A i \in DOMAIN queue : queue[i] \in Requests /\ queue[i] # r
        BY DEF QueueExact, TypeOK
      <3>3. \A s \in Requests :
               task'[s] = "queued" <=> \E i \in DOMAIN queue' : queue'[i] = s
        BY <3>1, <3>2 DEF QueueExact, TypeOK
      <3>4. \A i, j \in DOMAIN queue' : queue'[i] = queue'[j] => i = j
        BY <3>1, <3>2 DEF QueueExact
      <3> QED BY <3>3, <3>4 DEF QueueExact
    <2>4. Coupled'
      BY DEF Coupled, TypeOK, Executing
    <2> QED BY <2>1, <2>2, <2>3, <2>4
  <1> QED BY <1>1, <1>2

\* execute_process starts, makes progress, fails or is cut off.
LEMMA ExecuteIInv ==
    ASSUME IInv, NEW r \in Requests,
           \/ SpawnRunner(r) \/ SpawnFails(r) \/ SendModule(r)
           \/ WaitReturns(r) \/ ExecuteFails(r) \/ TimeoutElapses(r)
    PROVE  IInv'
  <1> USE PolicyAssumption
      DEF IInv, SpawnRunner, SpawnFails, SendModule, WaitReturns, ExecuteFails,
          TimeoutElapses, AfterDrop, Executing
  <1>1. TypeOK'
    <2>1. task' \in [Requests -> TaskStates]
      BY DEF TypeOK, TaskStates
    <2>2. child' \in [Requests -> ChildStates]
      BY DEF TypeOK, ChildStates
    <2>3. SlotTicks \in 0 .. SlotTicks /\ left' \in [Requests -> 0 .. SlotTicks]
      BY DEF TypeOK
    <2> QED BY <2>1, <2>2, <2>3 DEF TypeOK
  <1>2. PICK s \in {"sending", "waiting", "padding"} :
           task' = [task EXCEPT ![r] = s]
    OBVIOUS
  <1>3. task[r] \in {"granted", "sending", "waiting"}
    OBVIOUS
  <1>4. UNCHANGED <<handler, pending, permits, queue>>
    OBVIOUS
  <1>5. Accounting'
    BY <1>2, <1>3, <1>4, SameCounts DEF TaskStates, Guarded, Holding
  <1>6. QueueExact'
    BY <1>2, <1>3, <1>4, SameQueue DEF TaskStates
  <1>7. Coupled'
    BY DEF Coupled, TypeOK
  <1> QED BY <1>1, <1>4, <1>5, <1>6, <1>7

\* A permit changes hands or becomes available: the head of the queue is a
\* queued task, it is not r, and nobody else is affected.
LEMMA ReleaseIInv ==
    ASSUME IInv, NEW r \in Requests, ReleasePermit(r)
    PROVE  IInv'
  <1> USE PolicyAssumption DEF IInv, ReleasePermit, HandOver
  <1>1. r \in Holders /\ r \in Guards
    BY DEF Holders, Guards, Guarded, Holding
  <1>2. Cardinality(Holders) \in Nat
    BY RequestSets, GuardsAndHolders
  <1>3. CASE queue = << >>
    <2> USE <1>3
    <2>1. TypeOK'
      <3>1. task' = [task EXCEPT ![r] = "released"] /\ permits' = permits + 1
        OBVIOUS
      <3>2. task' \in [Requests -> TaskStates] /\ permits' \in Nat
        BY <3>1 DEF TypeOK, TaskStates
      <3>3. UNCHANGED <<handler, pending, queue, child, left>>
        OBVIOUS
      <3> QED BY <3>2, <3>3 DEF TypeOK
    <2>2. Accounting'
      <3>1. Holders' = Holders \ {r}
        BY DEF Holders, Holding, Executing, TypeOK
      <3>2. Guards' = Guards
        BY DEF Guards, Guarded, Holding, Executing, TypeOK
      <3>3. Cardinality(Holders') = Cardinality(Holders) - 1
        BY <3>1, <1>1, CountRemove, GuardsAndHolders
      <3>4. permits' = permits + 1 /\ pending' = pending /\ permits \in Nat
        BY DEF TypeOK
      <3> QED BY <3>2, <3>3, <3>4, <1>2 DEF Accounting
    <2>3. QueueExact'
      BY DEF QueueExact, TypeOK
    <2>4. Coupled'
      BY DEF Coupled, TypeOK, Executing
    <2> QED BY <2>1, <2>2, <2>3, <2>4
  <1>4. CASE queue # << >>
    <2> USE <1>4
    <2> DEFINE h == Head(queue)
    <2>1. /\ Len(queue) \in Nat \ {0}
          /\ DOMAIN queue = 1 .. Len(queue)
          /\ h = queue[1]
          /\ Tail(queue) \in Seq(Requests)
          /\ DOMAIN Tail(queue) = 1 .. (Len(queue) - 1)
          /\ \A i \in 1 .. (Len(queue) - 1) : Tail(queue)[i] = queue[i + 1]
      BY DEF TypeOK
    <2>2. h \in Requests /\ task[h] = "queued" /\ h # r
      <3>1. 1 \in DOMAIN queue /\ queue[1] \in Requests
        BY <2>1 DEF TypeOK
      <3>2. task[queue[1]] = "queued"
        BY <3>1 DEF QueueExact
      <3> QED BY <3>1, <3>2, <2>1
    <2>3. task' = [task EXCEPT ![r] = "released", ![h] = "granted"]
      OBVIOUS
    <2> HIDE DEF h
    <2>4. TypeOK'
      BY <2>1, <2>2, <2>3 DEF TypeOK, TaskStates
    <2>5. Accounting'
      <3>1. Holders' = (Holders \ {r}) \cup {h} /\ h \notin Holders \ {r}
        BY <2>2, <2>3 DEF Holders, Holding, Executing, TypeOK
      <3>2. Guards' = Guards
        BY <2>2, <2>3 DEF Guards, Guarded, Holding, Executing, TypeOK
      <3>3. Cardinality(Holders') = Cardinality(Holders \ {r}) + 1
        BY <3>1, <2>2, CountAdd, GuardsAndHolders
      <3>4. Cardinality(Holders \ {r}) = Cardinality(Holders) - 1
        BY <1>1, CountRemove, GuardsAndHolders
      <3> QED BY <3>2, <3>3, <3>4, <1>2 DEF Accounting, TypeOK
    <2>6. QueueExact'
      <3>1. \A s \in Requests :
               task'[s] = "queued" <=> \E i \in DOMAIN queue' : queue'[i] = s
        <4> SUFFICES ASSUME NEW s \in Requests
                     PROVE  task'[s] = "queued" <=> \E i \in DOMAIN queue' : queue'[i] = s
          OBVIOUS
        <4>1. task'[s] = "queued" <=> task[s] = "queued" /\ s # h
          BY <2>2, <2>3 DEF TypeOK
        <4>2. ASSUME task[s] = "queued", s # h
              PROVE  \E i \in DOMAIN queue' : queue'[i] = s
          <5>1. PICK i \in DOMAIN queue : queue[i] = s
            BY <4>2 DEF QueueExact
          <5>2. i \in 2 .. Len(queue)
            BY <5>1, <4>2, <2>1
          <5>3. i - 1 \in 1 .. (Len(queue) - 1) /\ (i - 1) + 1 = i
            BY <5>2, <2>1
          <5> QED BY <5>1, <5>3, <2>1
        <4>3. ASSUME NEW i \in DOMAIN queue', queue'[i] = s
              PROVE  task[s] = "queued" /\ s # h
          <5>1. i + 1 \in DOMAIN queue /\ i + 1 # 1 /\ 1 \in DOMAIN queue /\ queue[i + 1] = s
            BY <4>3, <2>1
          <5> QED BY <5>1, <2>1 DEF QueueExact
        <4> QED BY <4>1, <4>2, <4>3
      <3>2. \A i, j \in DOMAIN queue' : queue'[i] = queue'[j] => i = j
        <4> SUFFICES ASSUME NEW i \in DOMAIN queue', NEW j \in DOMAIN queue',
                            queue'[i] = queue'[j]
                     PROVE  i = j
          OBVIOUS
        <4>1. i + 1 \in DOMAIN queue /\ j + 1 \in DOMAIN queue /\ queue[i + 1] = queue[j + 1]
          BY <2>1
        <4>2. i + 1 = j + 1
          BY <4>1 DEF QueueExact
        <4> QED BY <4>2, <2>1
      <3>3. ~(permits > 0)
        BY DEF QueueExact
      <3> QED BY <3>1, <3>2, <3>3 DEF QueueExact
    <2>7. Coupled'
      <3>1. \A s \in Requests : task'[s] = IF s = h THEN "granted"
                                        ELSE IF s = r THEN "released" ELSE task[s]
        BY <2>2, <2>3 DEF TypeOK
      <3>2. UNCHANGED <<handler, child, left>>
        OBVIOUS
      <3> QED BY <2>2, <3>1, <3>2 DEF Coupled, Executing
    <2> QED BY <2>4, <2>5, <2>6, <2>7
  <1> QED BY <1>3, <1>4

\* A place becomes free.
LEMMA DropGuardIInv ==
    ASSUME IInv, NEW r \in Requests, DropGuard(r)
    PROVE  IInv'
  <1> USE PolicyAssumption DEF IInv, DropGuard
  <1>1. r \in Guards
    BY DEF Guards, Guarded
  <1>2. Guards' = Guards \ {r}
    BY DEF Guards, Guarded, Holding, Executing, TypeOK
  <1>3. Holders' = Holders
    BY DEF Holders, Holding, Executing, TypeOK
  <1>4. Accounting' /\ pending > 0
    BY <1>1, <1>2, <1>3, CountRemove, GuardsAndHolders DEF Accounting
  <1>5. TypeOK' /\ (pending <= MaxPendingRuns)'
    BY <1>4 DEF TypeOK, TaskStates
  <1>6. QueueExact'
    BY SameQueue DEF TaskStates
  <1>7. Coupled'
    BY DEF Coupled, TypeOK, Executing
  <1> QED BY <1>4, <1>5, <1>6, <1>7

\* Processes and time do not touch tasks and counters.
LEMMA EnvironmentIInv ==
    ASSUME IInv, Tick \/ \E r \in Requests : RunnerStep(r)
    PROVE  IInv'
  <1> USE PolicyAssumption DEF IInv, Tick, RunnerStep, RunnerExits, RunnerDies
  <1>1. TypeOK'
    <2>1. child' \in [Requests -> ChildStates]
      BY DEF TypeOK, ChildStates
    <2>2. left' \in [Requests -> 0 .. SlotTicks]
      <3>1. CASE Tick
        <4>1. \A r \in Requests : left[r] \in 0 .. SlotTicks
          BY DEF TypeOK
        <4>2. \A n \in 0 .. SlotTicks : (IF n > 0 THEN n - 1 ELSE 0) \in 0 .. SlotTicks
          OBVIOUS
        <4> QED BY <3>1, <4>1, <4>2
      <3> QED BY <3>1 DEF TypeOK
    <2> QED BY <2>1, <2>2 DEF TypeOK
  <1>2. Accounting'
    BY SameTasks
  <1>3. QueueExact'
    BY DEF QueueExact
  <1>4. Coupled'
    BY DEF Coupled, TypeOK
  <1> QED BY <1>1, <1>2, <1>3, <1>4

\* A step that changes no variable keeps the inductive invariant.
LEMMA StutterIInv == IInv /\ UNCHANGED vars => IInv'
  BY DEF IInv, vars, TypeOK, Accounting, Guards, Holders, QueueExact, Coupled

\* The inductive step: one case per action of run(), its task, its runner and the clock.
LEMMA NextIInv == IInv /\ [Next]_vars => IInv'
  <1> SUFFICES ASSUME IInv, [Next]_vars PROVE IInv'
    OBVIOUS
  <1>1. CASE Tick \/ \E r \in Requests : RunnerStep(r)
    BY <1>1, EnvironmentIInv
  <1>2. ASSUME NEW r \in Requests, HandlerStep(r) PROVE IInv'
    BY <1>2, HandlerStepIInv
  <1>3. ASSUME NEW r \in Requests, TaskStep(r) PROVE IInv'
    BY <1>3, AcquireIInv, ExecuteIInv, ReleaseIInv, DropGuardIInv DEF TaskStep
  <1>4. CASE UNCHANGED vars
    BY <1>4, StutterIInv
  <1> QED BY <1>1, <1>2, <1>3, <1>4 DEF Next, Quiet

\* The invariant holds in every reachable state.
THEOREM Invariance == Spec => []IInv
  <1>1. Init => IInv
    BY InitIInv
  <1>2. IInv /\ [Next]_vars => IInv'
    BY NextIInv
  <1> QED BY <1>1, <1>2, PTL DEF Spec

-----------------------------------------------------------------------------
(* The properties that the runs check on small instances *)

\* Every variable keeps its type; in particular `pending` never wraps below 0.
THEOREM TypeCorrect == Spec => []TypeOK
  <1>1. IInv => TypeOK
    BY DEF IInv
  <1> QED BY <1>1, Invariance, PTL

\* No interleaving of callers, tasks, errors and timeouts leaks or duplicates
\* a PendingGuard or a permit.
THEOREM AccountingCorrect == Spec => []Accounting
  <1>1. IInv => Accounting
    BY DEF IInv
  <1> QED BY <1>1, Invariance, PTL

\* At most max_pending_runs admitted runs are unfinished, and at most
\* max_parallel_workers of them own a permit (run, run_worker).
THEOREM AdmissionBounded == Spec => []AdmissionBound
  <1>1. ASSUME IInv PROVE AdmissionBound
    <2>1. Cardinality(Guards) <= MaxPendingRuns
      BY <1>1 DEF IInv, Accounting
    <2>2. Cardinality(Holders) \in Nat
      BY RequestSets, GuardsAndHolders
    <2>3. Cardinality(Holders) <= MaxParallelWorkers
      BY <1>1, <2>2, PolicyAssumption DEF IInv, Accounting, TypeOK
    <2> QED BY <2>1, <2>3 DEF AdmissionBound
  <1> QED BY <1>1, Invariance, PTL

\* Unsignalled runners own slots, and there are at most max_parallel_workers.
THEOREM RunnersBounded == Spec => []RunnersHoldSlots
  <1>1. ASSUME IInv PROVE RunnersHoldSlots
    <2> DEFINE Alive == {r \in Requests : child[r] = "alive"}
    <2>1. Alive \subseteq Holders
      BY <1>1 DEF IInv, Coupled, Holders, Holding
    <2>2. /\ IsFiniteSet(Holders)
          /\ Cardinality(Holders) \in Nat
      BY RequestSets, GuardsAndHolders
    <2>3. Cardinality(Alive) \in Nat /\ Cardinality(Alive) <= Cardinality(Holders)
      BY <2>1, <2>2, FS_Subset, FS_CardinalityType
    <2>4. Cardinality(Holders) <= MaxParallelWorkers
      BY <1>1, <2>2, PolicyAssumption DEF IInv, Accounting, TypeOK
    <2>5. Cardinality(Alive) <= MaxParallelWorkers
      BY <2>2, <2>3, <2>4, PolicyAssumption
    <2> QED BY <1>1, <2>5 DEF IInv, Coupled, RunnersHoldSlots
  <1> QED BY <1>1, Invariance, PTL

\* An answered run owns nothing any more.
THEOREM AnswersAreLast == Spec => []AnswerIsLast
  <1>1. IInv => AnswerIsLast
    BY DEF IInv, Coupled, AnswerIsLast, Guards, Guarded, Holding, Executing, TypeOK
  <1> QED BY <1>1, Invariance, PTL

\* The waiters are the queued tasks, and no permit idles while one waits.
THEOREM QueueCorrect == Spec => []QueueExact
  <1>1. IInv => QueueExact
    BY DEF IInv
  <1> QED BY <1>1, Invariance, PTL

\* Permits are granted in the order of asking.
THEOREM PermitsAreFair == Spec => NoOvertaking
  <1> DEFINE Step ==
        \A s \in Requests :
          (s \notin Holders /\ task'[s] = "granted") =>
              \A i \in DOMAIN queue :
                  \/ queue[i] = s
                  \/ task'[queue[i]] = "granted"
                  \/ \E j \in 1 .. i : queue[j] = s
  <1>1. ASSUME IInv, Next PROVE Step
    <2> SUFFICES ASSUME NEW s \in Requests, s \notin Holders, task'[s] = "granted",
                        NEW i \in DOMAIN queue
                 PROVE  \E j \in 1 .. i : queue[j] = s
      OBVIOUS
    <2>1. task[s] # "granted"
      BY DEF Holders, Holding
    <2>2. CASE Acquire(s)
      BY <1>1, <2>2 DEF IInv, QueueExact, Acquire, TypeOK
    <2>3. ASSUME NEW r \in Requests, ReleasePermit(r)
          PROVE  \E j \in 1 .. i : queue[j] = s
      <3>1. queue # << >> /\ 1 \in 1 .. i /\ Head(queue) = queue[1]
        BY <1>1 DEF IInv, TypeOK
      <3>2. task' = [task EXCEPT ![r] = "released", ![Head(queue)] = "granted"]
        BY <2>3, <3>1 DEF ReleasePermit, HandOver
      <3>3. s = Head(queue)
        BY <1>1, <2>1, <3>2 DEF IInv, TypeOK
      <3> QED BY <3>1, <3>3
    <2>4. Acquire(s) \/ \E r \in Requests : ReleasePermit(r)
      <3>1. CASE Tick \/ Quiet
        BY <3>1, <2>1 DEF Tick, Quiet, vars
      <3>2. ASSUME NEW r \in Requests, HandlerStep(r) \/ RunnerStep(r)
            PROVE  FALSE
        BY <1>1, <3>2, <2>1
           DEF HandlerStep, RunnerStep, Admit, Reject, Respond, Disconnect,
               RunnerExits, RunnerDies, IInv, TypeOK
      <3>3. ASSUME NEW r \in Requests, TaskStep(r)
            PROVE  ReleasePermit(r) \/ Acquire(s)
        BY <1>1, <3>3, <2>1
           DEF TaskStep, Acquire, Enqueue, SpawnRunner, SpawnFails, SendModule,
               WaitReturns, ExecuteFails, TimeoutElapses, DropGuard, IInv, TypeOK
      <3> QED BY <1>1, <3>1, <3>2, <3>3 DEF Next
    <2> QED BY <2>2, <2>3, <2>4
  <1>2. ASSUME IInv, [Next]_vars PROVE [Step]_vars
    BY <1>1, <1>2
  <1> QED BY <1>2, Invariance, PTL DEF Spec, NoOvertaking

-----------------------------------------------------------------------------
(* The scheduler implements the promise *)

\* The promise counts with the same Cardinality.
LEMMA PromiseCardinality ==
    ASSUME NEW S
    PROVE  Promise!Cardinality(S) = Cardinality(S)
  BY DEF Promise!Cardinality, Cardinality

\* What the promise counts is what the scheduler's two resources bound.
LEMMA PromiseCounts ==
    ASSUME IInv
    PROVE  /\ Promise!Unfinished = Guards
           /\ Promise!Owners = {r \in Requests : task[r] \in {"sending", "waiting", "padding"}}
  <1> USE DEF IInv, TypeOK, TaskStates, RunOf
  <1>1. Promise!Unfinished = Guards
    BY DEF Promise!Unfinished, Guards, Guarded, Holding, Executing
  <1>2. Promise!Owners = {r \in Requests : task[r] \in {"sending", "waiting", "padding"}}
    BY DEF Promise!Owners
  <1> QED BY <1>1, <1>2

\* A granted task that has not fixed its deadline is an owner to come: there
\* is a slot for it.
LEMMA RoomForGranted ==
    ASSUME IInv, NEW r \in Requests, task[r] = "granted"
    PROVE  Cardinality(Promise!Owners) < MaxParallelWorkers
  <1> DEFINE Owners == Promise!Owners
  <1>1. Owners \subseteq Holders \ {r}
    BY PromiseCounts DEF Holders, Holding, Executing
  <1>2. r \in Holders
    BY DEF Holders, Holding
  <1>3. Cardinality(Holders \ {r}) = Cardinality(Holders) - 1
    BY <1>2, CountRemove, GuardsAndHolders
  <1>4. IsFiniteSet(Holders \ {r}) /\ Cardinality(Holders) \in Nat
    BY RequestSets, GuardsAndHolders
  <1>5. Cardinality(Owners) \in Nat /\ Cardinality(Owners) <= Cardinality(Holders \ {r})
    BY <1>1, <1>4, FS_Subset, FS_CardinalityType
  <1>6. Cardinality(Holders) <= MaxParallelWorkers
    BY <1>4, PolicyAssumption DEF IInv, Accounting, TypeOK
  <1> QED BY <1>3, <1>4, <1>5, <1>6, PolicyAssumption

\* The initial state is an initial state of the promise.
LEMMA InitRefines == Init => Promise!Init
  BY DEF Init, Promise!Init, RunOf, ReplyOf

\* The two functions of the mapping, as the values a step gives them.
Runs == [r \in Requests |-> RunOf(r)]
Replies == [r \in Requests |-> ReplyOf(r)]

\* Steps of a handler are steps of the promise.
LEMMA HandlerRefines ==
    ASSUME IInv, NEW r \in Requests, HandlerStep(r)
    PROVE  Promise!Next
  <1> USE DEF IInv, TypeOK
  <1>1. CASE Admit(r)
    <2>1. task[r] = "none" /\ handler[r] = "idle"
      BY <1>1 DEF Admit, Coupled
    <2>2. Cardinality(Promise!Unfinished) < MaxPendingRuns
      BY <1>1, PromiseCounts DEF Admit, Accounting
    <2>3. Runs' = [Runs EXCEPT ![r] = "waiting"]
      BY <1>1 DEF Admit, Runs, RunOf
    <2>4. Replies' = Replies /\ left' = left
      BY <1>1 DEF Admit, Replies, ReplyOf
    <2>5. RunOf(r) = "none" /\ ReplyOf(r) = "none"
      BY <2>1 DEF RunOf, ReplyOf
    <2>6. Promise!Admit(r)
      BY <2>2, <2>3, <2>4, <2>5, PromiseCardinality DEF Promise!Admit, Runs, Replies
    <2> QED BY <2>6 DEF Promise!Next
  <1>2. CASE Reject(r)
    <2>1. task[r] = "none" /\ handler[r] = "idle"
      BY <1>2 DEF Reject, Coupled
    <2>2. Cardinality(Promise!Unfinished) >= MaxPendingRuns
      BY <1>2, PromiseCounts, PolicyAssumption DEF Reject, Accounting
    <2>3. Replies' = [Replies EXCEPT ![r] = "refused"]
      BY <1>2 DEF Reject, Replies, ReplyOf
    <2>4. Runs' = Runs /\ left' = left
      BY <1>2 DEF Reject, Runs, RunOf
    <2>5. RunOf(r) = "none" /\ ReplyOf(r) = "none"
      BY <2>1 DEF RunOf, ReplyOf
    <2>6. Promise!Refuse(r)
      BY <2>2, <2>3, <2>4, <2>5, PromiseCardinality DEF Promise!Refuse, Runs, Replies
    <2> QED BY <2>6 DEF Promise!Next
  <1>3. CASE Respond(r)
    <2>1. Replies' = [Replies EXCEPT ![r] = "complete"]
      BY <1>3 DEF Respond, Replies, ReplyOf
    <2>2. Runs' = Runs /\ left' = left
      BY <1>3 DEF Respond, Runs, RunOf
    <2>3. Promise!Answer(r)
      BY <1>3, <2>1, <2>2 DEF Respond, Promise!Answer, Runs, Replies, RunOf, ReplyOf
    <2> QED BY <2>3 DEF Promise!Next
  <1>4. CASE Disconnect(r)
    <2>1. task[r] # "none" /\ handler[r] = "awaiting"
      BY <1>4 DEF Disconnect, Coupled
    <2>2. Replies' = [Replies EXCEPT ![r] = "abandoned"]
      BY <1>4 DEF Disconnect, Replies, ReplyOf
    <2>3. Runs' = Runs /\ left' = left
      BY <1>4 DEF Disconnect, Runs, RunOf
    <2>4. Promise!Abandon(r)
      BY <2>1, <2>2, <2>3 DEF Promise!Abandon, Runs, Replies, RunOf, ReplyOf, TaskStates
    <2> QED BY <2>4 DEF Promise!Next
  <1> QED BY <1>1, <1>2, <1>3, <1>4 DEF HandlerStep

\* Steps of a slot task are steps of the promise, or invisible to it.
LEMMA TaskRefines ==
    ASSUME IInv, NEW r \in Requests, TaskStep(r)
    PROVE  [Promise!Next]_(Promise!vars)
  <1> USE DEF IInv, TypeOK
  <1>1. CASE Acquire(r) \/ Enqueue(r) \/ SendModule(r) \/ WaitReturns(r)
             \/ ExecuteFails(r) \/ TimeoutElapses(r)
    <2>1. Runs' = Runs
      BY <1>1 DEF Acquire, Enqueue, SendModule, WaitReturns, ExecuteFails,
                  TimeoutElapses, Executing, Runs, RunOf
    <2>2. Replies' = Replies /\ left' = left
      BY <1>1 DEF Acquire, Enqueue, SendModule, WaitReturns, ExecuteFails,
                  TimeoutElapses, Replies, ReplyOf
    <2> QED BY <2>1, <2>2 DEF Promise!vars, Runs, Replies
  <1>2. CASE SpawnRunner(r) \/ SpawnFails(r)
    <2> USE <1>2 DEF SpawnRunner, SpawnFails
    <2>1. Cardinality(Promise!Owners) < MaxParallelWorkers
      BY RoomForGranted
    <2>2. Runs' = [Runs EXCEPT ![r] = "slot"]
      BY DEF Runs, RunOf
    <2>3. Replies' = Replies
      BY DEF Replies, ReplyOf
    <2>4. RunOf(r) = "waiting"
      BY DEF RunOf
    <2>5. left' = [left EXCEPT ![r] = SlotTicks]
      OBVIOUS
    <2>6. Promise!StartSlot(r)
      BY <2>1, <2>2, <2>3, <2>4, <2>5, PromiseCardinality DEF Promise!StartSlot, Runs, Replies
    <2> QED BY <2>6 DEF Promise!Next
  <1>3. CASE ReleasePermit(r)
    <2> USE <1>3 DEF ReleasePermit, HandOver
    <2>1. Runs' = [Runs EXCEPT ![r] = "closing"]
      <3>1. CASE queue = << >>
        BY <3>1 DEF Runs, RunOf
      <3>2. CASE queue # << >>
        <4>1. 1 \in DOMAIN queue /\ Head(queue) = queue[1] /\ Head(queue) \in Requests
          BY <3>2
        <4>2. task[Head(queue)] = "queued"
          BY <4>1 DEF QueueExact
        <4>3. task' = [task EXCEPT ![r] = "released", ![Head(queue)] = "granted"]
          BY <3>2
        <4> HIDE DEF ReleasePermit, HandOver
        <4>4. task[r] = "padding"
          BY DEF ReleasePermit
        <4> QED BY <4>1, <4>2, <4>3, <4>4 DEF Runs, RunOf
      <3> QED BY <3>1, <3>2
    <2>2. Replies' = Replies
      BY DEF Replies, ReplyOf
    <2>3. Promise!EndSlot(r)
      BY <2>1, <2>2 DEF Promise!EndSlot, Runs, Replies, RunOf
    <2> QED BY <2>3 DEF Promise!Next
  <1>4. CASE DropGuard(r)
    <2> USE <1>4 DEF DropGuard
    <2>1. Runs' = [Runs EXCEPT ![r] = "closed"]
      BY DEF Runs, RunOf
    <2>2. Replies' = Replies
      BY DEF Replies, ReplyOf
    <2>3. Promise!Close(r)
      BY <2>1, <2>2 DEF Promise!Close, Runs, Replies, RunOf
    <2> QED BY <2>3 DEF Promise!Next
  <1> QED BY <1>1, <1>2, <1>3, <1>4 DEF TaskStep

\* Every step is a step of the promise or leaves its state alone.
LEMMA NextRefines ==
    ASSUME IInv, [Next]_vars
    PROVE  [Promise!Next]_(Promise!vars)
  <1>1. CASE Tick
    BY <1>1 DEF Tick, Promise!Tick, Promise!Next, RunOf, ReplyOf
  <1>2. ASSUME NEW r \in Requests, HandlerStep(r)
        PROVE  Promise!Next
    BY <1>2, HandlerRefines
  <1>3. ASSUME NEW r \in Requests, TaskStep(r)
        PROVE  [Promise!Next]_(Promise!vars)
    BY <1>3, TaskRefines
  <1>4. ASSUME NEW r \in Requests, RunnerStep(r)
        PROVE  UNCHANGED Promise!vars
    BY <1>4 DEF RunnerStep, RunnerExits, RunnerDies, Promise!vars, RunOf, ReplyOf
  <1>5. CASE UNCHANGED vars
    BY <1>5 DEF vars, Promise!vars, RunOf, ReplyOf
  <1> QED BY <1>1, <1>2, <1>3, <1>4, <1>5 DEF Next, Quiet

\* For every policy and any number of requests, the scheduler does what
\* FixedSlots promises: refusal only when full, exactly one slot of exactly
\* SlotTicks per admitted run, and one indistinguishable answer after it.
THEOREM Refinement == Spec => ImplementsPromise
  <1>1. Init => Promise!Init
    BY InitRefines
  <1>2. IInv /\ [Next]_vars => [Promise!Next]_(Promise!vars)
    BY NextRefines
  <1> QED BY <1>1, <1>2, Invariance, PTL DEF Spec, ImplementsPromise, Promise!Spec
=============================================================================

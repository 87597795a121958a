----------------------------- MODULE LabProofs ------------------------------
(***************************************************************************)
(* Machine-checked proofs about Lab, for any finite set of requests, any   *)
(* number of sessions and any policy that serve() accepts.                 *)
(***************************************************************************)
EXTENDS Lab, FiniteSetTheorems, SequenceTheorems, TLAPS

-----------------------------------------------------------------------------
(* The inductive invariant *)

Waiting == {"spawned", "queued", "granted"}

\* Where the task (or reset) of r is says what its handler, its result and its
\* runner can be.
CoupledAt(r) ==
    /\ pc[r] = "none" <=> input[r] = NoInput
    /\ pc[r] = "none" <=> handler[r] \in {"idle", "refused", "throttled"}
    /\ pc[r] = "none" => result[r] = IF handler[r] = "idle" THEN "none" ELSE handler[r]
    /\ handler[r] \in Answers \ {"refused", "throttled"} =>
           pc[r] = "done" /\ handler[r] = AnswerOf(r)
    /\ pc[r] # "none" /\ input[r].kind = "reset" => pc[r] \in Waiting \cup {"done"}
    /\ pc[r] \in Waiting \cup {"starting", "writing", "reading", "reaping"} => result[r] = "none"
    /\ pc[r] \in {"executed", "padding"} => result[r] \in Outcomes
    /\ pc[r] = "counting" => result[r] = "complete" /\ input[r].kind = "turn"
    /\ pc[r] = "leaving" => result[r] \in EarlyErrs
    /\ pc[r] \in {"released", "done"} =>
           \/ input[r].kind # "reset" /\ result[r] \in Outcomes \cup EarlyErrs
           \/ input[r].kind = "reset" /\ result[r] = "complete"
           \/ input[r].kind = "reset" /\ result[r] = "cancelled" /\ handler[r] = "gone"
    /\ child[r] = "alive" => pc[r] \in {"writing", "reading"}
    /\ child[r] \in {"ok", "bad"} => pc[r] \in {"writing", "reading", "reaping"}
    /\ child[r] \in {"killed", "dead"} => pc[r] = "reaping"

\* What the answer to a chunk will report is settled when it is counted.
ReportedAt(r) ==
    /\ pc[r] \in {"padding", "released", "done"}
    /\ input[r].kind = "chunk"
    => /\ result[r] = "complete" => report[r] = input[r].sequence + 1
       /\ result[r] \in {"timed_out", "failed"} => report[r] = input[r].sequence

Coupled == \A r \in Requests : CoupledAt(r) /\ ReportedAt(r)

\* From the check to the write-back, what was checked and copied still holds.
FreshAt(r) ==
    pc[r] \in Running \ {"counting"} =>
        LET i == input[r]
        IN  /\ i.kind = "turn" => previous[r] = states[i.slot]
            /\ i.kind = "chunk" =>
                  /\ previous[r] = sessions[i.slot].accumulated
                  /\ i.sequence = sessions[i.slot].next_sequence
                  /\ sessions[i.slot].accumulated.len + i.bytes <= StateBytes

Fresh == \A r \in Requests : FreshAt(r)

\* The one permit is available, or one request owns it.
LaneExact ==
    \/ permits = 1 /\ Holders = {}
    \/ permits = 0 /\ \E r \in Requests : Holders = {r}

\* The queue holds the waiters, once each, and none while the lane is free.
QueueExact ==
    /\ \A r \in Requests : pc[r] = "queued" <=> \E n \in DOMAIN queue : queue[n] = r
    /\ \A m, n \in DOMAIN queue : queue[m] = queue[n] => m = n
    /\ permits > 0 => queue = << >>

PlacesExact == pending = Cardinality(Guards)

\* One session.
SessionAt(s) ==
    LET a == sessions[s].accumulated
    IN  /\ sessions[s].next_sequence = Len(a.of)
        /\ sessions[s].chunks = Len(a.of)
        /\ \A n \in 1 .. Len(a.of) :
               /\ input[a.of[n]] # NoInput
               /\ input[a.of[n]].kind = "chunk"
               /\ input[a.of[n]].slot = s
               /\ input[a.of[n]].sequence = n - 1

SessionsExact == \A s \in Slots : SessionAt(s)

\* The inductive invariant: the properties to prove, and what ties them.
IInv ==
    /\ TypeOK
    /\ Coupled
    /\ LaneExact
    /\ QueueExact
    /\ PlacesExact
    /\ Fresh
    /\ SessionsExact
    /\ CountersExact

-----------------------------------------------------------------------------
(* Counting and typing *)

\* A set of requests is finite and its size is a natural number.
LEMMA RequestSets ==
    ASSUME NEW S \in SUBSET Requests
    PROVE  IsFiniteSet(S) /\ Cardinality(S) \in Nat
  BY FS_Subset, FS_CardinalityType, LabAssumption

\* A request that enters a set makes it larger by one.
LEMMA CountAdd ==
    ASSUME NEW S \in SUBSET Requests, NEW r \in Requests, r \notin S
    PROVE  Cardinality(S \cup {r}) = Cardinality(S) + 1
  BY RequestSets, FS_AddElement

\* A request that leaves a set makes it smaller by one.
LEMMA CountRemove ==
    ASSUME NEW S \in SUBSET Requests, NEW r \in S
    PROVE  /\ Cardinality(S \ {r}) = Cardinality(S) - 1
           /\ Cardinality(S) > 0
  <1>1. Cardinality(S \ {r}) = Cardinality(S) - 1
    BY RequestSets, FS_RemoveElement
  <1>2. S \ {r} \in SUBSET Requests
    OBVIOUS
  <1>3. Cardinality(S \ {r}) \in Nat /\ Cardinality(S) \in Nat
    BY <1>2, RequestSets
  <1> QED BY <1>1, <1>3

\* The bodies that handlers accept.
LEMMA InputFields ==
    ASSUME NEW i \in Inputs
    PROVE  /\ i # NoInput
           /\ i.kind \in {"turn", "chunk", "reset"}
           /\ i.kind \in {"turn", "chunk"} => i.slot \in Slots
           /\ i.kind = "chunk" => i.sequence \in Nat /\ i.bytes \in Nat
           /\ i.kind = "reset" => i.count \in Nat
  <1>1. i # NoInput
    BY NoInputAssumption
  <1>2. CASE i \in TurnInputs
    BY <1>1, <1>2 DEF TurnInputs
  <1>3. CASE i \in ChunkInputs
    BY <1>1, <1>3, LabAssumption DEF ChunkInputs
  <1>4. CASE i \in ResetInputs
    BY <1>1, <1>4, LabAssumption DEF ResetInputs
  <1> QED BY <1>2, <1>3, <1>4 DEF Inputs

\* The body of a request that has arrived.
LEMMA ArrivedInput ==
    ASSUME TypeOK, Coupled, NEW r \in Requests, pc[r] # "none"
    PROVE  input[r] \in Inputs /\ input[r] # NoInput
  BY DEF TypeOK, Coupled, CoupledAt

-----------------------------------------------------------------------------
(* What steps have in common *)

\* The step moves r to a stage; of the others, only a waiter may get the lane.
Shift(r, stage) ==
    /\ pc'[r] = stage
    /\ \A q \in Requests \ {r} :
          pc'[q] = pc[q] \/ (pc[q] = "queued" /\ pc'[q] = "granted")

\* The step touches the variables of no other request.
Local(r) ==
    \A q \in Requests \ {r} :
        /\ handler'[q] = handler[q]
        /\ input'[q] = input[q]
        /\ result'[q] = result[q]
        /\ report'[q] = report[q]
        /\ previous'[q] = previous[q]
        /\ child'[q] = child[q]

\* Requests that the step leaves alone stay coupled.
LEMMA OthersCoupled ==
    ASSUME Coupled, NEW r \in Requests, NEW stage, Shift(r, stage), Local(r),
           CoupledAt(r)', ReportedAt(r)'
    PROVE  Coupled'
  <1> SUFFICES ASSUME NEW q \in Requests, q # r
               PROVE  CoupledAt(q)' /\ ReportedAt(q)'
    BY DEF Coupled
  <1>1. CoupledAt(q) /\ ReportedAt(q)
    BY DEF Coupled
  <1>2. CASE pc'[q] = pc[q]
    BY <1>1, <1>2 DEF Local, CoupledAt, ReportedAt, AnswerOf
  <1>3. CASE pc[q] = "queued" /\ pc'[q] = "granted"
    BY <1>1, <1>3 DEF Local, CoupledAt, ReportedAt, AnswerOf, Waiting
  <1> QED BY <1>2, <1>3 DEF Shift

\* Nobody but the owner of the lane is running.
LEMMA OneHolder ==
    ASSUME LaneExact, NEW r \in Requests, pc[r] \in Holding
    PROVE  /\ permits = 0
           /\ Holders = {r}
           /\ \A q \in Requests \ {r} : pc[q] \notin Holding
  BY DEF LaneExact, Holders

\* A step of the owner of the lane disturbs no other copy.
LEMMA OthersFresh ==
    ASSUME Fresh, LaneExact, NEW r \in Requests, NEW stage, Shift(r, stage), Local(r),
           pc[r] \in Holding, FreshAt(r)'
    PROVE  Fresh'
  <1> SUFFICES ASSUME NEW q \in Requests, q # r
               PROVE  FreshAt(q)'
    BY DEF Fresh
  <1>1. pc'[q] \notin Running
    BY OneHolder DEF Shift, Holding, Running
  <1> QED BY <1>1 DEF FreshAt

\* Nor does a step that leaves the sessions alone and starts nothing.
LEMMA SameFresh ==
    ASSUME Fresh, NEW r \in Requests, NEW stage, Shift(r, stage), Local(r),
           UNCHANGED <<sessions, states>>, FreshAt(r)'
    PROVE  Fresh'
  <1> SUFFICES ASSUME NEW q \in Requests, q # r
               PROVE  FreshAt(q)'
    BY DEF Fresh
  <1>1. pc'[q] \in Running => pc'[q] = pc[q]
    BY DEF Shift, Running
  <1> QED BY <1>1 DEF Fresh, FreshAt, Local

\* Sessions that are not touched stay exact: bodies do not change.
LEMMA SameSessions ==
    ASSUME SessionsExact, TypeOK, UNCHANGED sessions,
           \A q \in Requests : input[q] # NoInput => input'[q] = input[q]
    PROVE  SessionsExact'
  <1> SUFFICES ASSUME NEW s \in Slots PROVE SessionAt(s)'
    BY DEF SessionsExact
  <1>1. SessionAt(s) /\ sessions[s].accumulated.of \in Seq(Requests)
    BY DEF SessionsExact, TypeOK, Bytes
  <1>2. \A n \in 1 .. Len(sessions[s].accumulated.of) :
            sessions[s].accumulated.of[n] \in Requests
    BY <1>1
  <1> QED BY <1>1, <1>2 DEF SessionAt

-----------------------------------------------------------------------------
(* The lane *)

\* The lane while its owner, if any, keeps it.
LEMMA SameLane ==
    ASSUME LaneExact, Holders' = Holders, UNCHANGED permits
    PROVE  LaneExact'
  BY DEF LaneExact

\* A step of r that neither enters nor leaves the queue or the lane.
LEMMA Stays ==
    ASSUME TypeOK, LaneExact, QueueExact, NEW r \in Requests, NEW stage,
           pc' = [pc EXCEPT ![r] = stage],
           pc[r] # "queued", stage # "queued",
           pc[r] \in Holding <=> stage \in Holding,
           UNCHANGED <<permits, queue>>
    PROVE  LaneExact' /\ QueueExact' /\ Shift(r, stage)
  <1>1. \A q \in Requests : pc'[q] = IF q = r THEN stage ELSE pc[q]
    BY DEF TypeOK
  <1>2. Holders' = Holders
    BY <1>1 DEF Holders
  <1>3. QueueExact'
    BY <1>1 DEF QueueExact
  <1> QED BY <1>1, <1>2, <1>3, SameLane DEF Shift

\* The permit of r is dropped: it becomes available or goes to the head of the
\* queue, which is a waiter and not r, and nobody else is affected.
LEMMA HandsOver ==
    ASSUME TypeOK, LaneExact, QueueExact, NEW r \in Requests,
           NEW stage \in {"done", "released"}, pc[r] \in Holding, HandOver(r, stage)
    PROVE  /\ Shift(r, stage)
           /\ LaneExact'
           /\ QueueExact'
           /\ pc' \in [Requests -> Guarded \cup {"none", "done"}]
           /\ queue' \in Seq(Requests)
           /\ permits' \in 0 .. 1
  <1> USE DEF HandOver, Moves
  <1>1. permits = 0 /\ Holders = {r} /\ \A q \in Requests \ {r} : pc[q] \notin Holding
    BY OneHolder
  <1>2. stage \notin Holding /\ stage # "queued" /\ pc[r] # "queued"
    BY DEF Holding, Running
  <1>3. CASE queue = << >>
    <2>1. \A q \in Requests : pc'[q] = IF q = r THEN stage ELSE pc[q]
      BY <1>3 DEF TypeOK
    <2>2. permits' = 1 /\ queue' = queue
      BY <1>1, <1>3
    <2>3. Holders' = {}
      BY <1>1, <1>2, <2>1 DEF Holders
    <2>4. QueueExact'
      BY <1>2, <1>3, <2>1, <2>2 DEF QueueExact
    <2>5. pc' \in [Requests -> Guarded \cup {"none", "done"}]
      BY <1>3 DEF TypeOK, Guarded
    <2> QED BY <2>1, <2>2, <2>3, <2>4, <2>5, <1>3 DEF Shift, LaneExact, TypeOK
  <1>4. CASE queue # << >>
    <2> DEFINE h == Head(queue)
    <2>1. /\ Len(queue) \in Nat \ {0}
          /\ DOMAIN queue = 1 .. Len(queue)
          /\ h = queue[1]
          /\ Tail(queue) \in Seq(Requests)
          /\ DOMAIN Tail(queue) = 1 .. (Len(queue) - 1)
          /\ \A i \in 1 .. (Len(queue) - 1) : Tail(queue)[i] = queue[i + 1]
      BY <1>4 DEF TypeOK
    <2>2. h \in Requests /\ pc[h] = "queued" /\ h # r
      <3>1. 1 \in DOMAIN queue /\ queue[1] \in Requests
        BY <2>1 DEF TypeOK
      <3>2. pc[queue[1]] = "queued"
        BY <3>1 DEF QueueExact
      <3> QED BY <3>1, <3>2, <2>1, <1>2
    <2>3. /\ pc' = [pc EXCEPT ![r] = stage, ![h] = "granted"]
          /\ queue' = Tail(queue) /\ permits' = permits
      BY <1>4
    <2> HIDE DEF h
    <2>4. \A q \in Requests : pc'[q] = IF q = h THEN "granted" ELSE IF q = r THEN stage ELSE pc[q]
      BY <2>2, <2>3 DEF TypeOK
    <2>5. pc' \in [Requests -> Guarded \cup {"none", "done"}]
      BY <2>2, <2>3 DEF TypeOK, Guarded, Holding
    <2>6. Holders' = {h}
      <3>1. "granted" \in Holding
        BY DEF Holding
      <3> QED BY <3>1, <1>1, <1>2, <2>2, <2>4 DEF Holders
    <2>7. \A s \in Requests : pc'[s] = "queued" <=> \E i \in DOMAIN queue' : queue'[i] = s
      <3> SUFFICES ASSUME NEW s \in Requests
                   PROVE  pc'[s] = "queued" <=> \E i \in DOMAIN queue' : queue'[i] = s
        OBVIOUS
      <3>1. pc'[s] = "queued" <=> pc[s] = "queued" /\ s # h
        BY <1>2, <2>2, <2>4
      <3>2. ASSUME pc[s] = "queued", s # h
            PROVE  \E i \in DOMAIN queue' : queue'[i] = s
        <4>1. PICK i \in DOMAIN queue : queue[i] = s
          BY <3>2 DEF QueueExact
        <4>2. i \in 2 .. Len(queue)
          BY <4>1, <3>2, <2>1
        <4>3. i - 1 \in 1 .. (Len(queue) - 1) /\ (i - 1) + 1 = i
          BY <4>2, <2>1
        <4> QED BY <4>1, <4>3, <2>1, <2>3
      <3>3. ASSUME NEW i \in DOMAIN queue', queue'[i] = s
            PROVE  pc[s] = "queued" /\ s # h
        <4>1. i + 1 \in DOMAIN queue /\ i + 1 # 1 /\ 1 \in DOMAIN queue /\ queue[i + 1] = s
          BY <3>3, <2>1, <2>3
        <4> QED BY <4>1, <2>1 DEF QueueExact
      <3> QED BY <3>1, <3>2, <3>3
    <2>8. \A m, n \in DOMAIN queue' : queue'[m] = queue'[n] => m = n
      <3> SUFFICES ASSUME NEW m \in DOMAIN queue', NEW n \in DOMAIN queue',
                          queue'[m] = queue'[n]
                   PROVE  m = n
        OBVIOUS
      <3>1. m + 1 \in DOMAIN queue /\ n + 1 \in DOMAIN queue /\ queue[m + 1] = queue[n + 1]
        BY <2>1, <2>3
      <3>2. m + 1 = n + 1
        BY <3>1 DEF QueueExact
      <3> QED BY <3>2, <2>1, <2>3
    <2>9. LaneExact' /\ permits' \in 0 .. 1
      BY <1>1, <2>2, <2>3, <2>6 DEF LaneExact
    <2>10. QueueExact'
      BY <1>1, <2>3, <2>7, <2>8 DEF QueueExact
    <2>11. Shift(r, stage)
      BY <2>2, <2>4 DEF Shift
    <2> QED BY <2>1, <2>3, <2>5, <2>9, <2>10, <2>11
  <1> QED BY <1>3, <1>4

\* A dropped waiter leaves the queue; the order of the others is kept.
LEMMA Unlinks ==
    ASSUME TypeOK, LaneExact, QueueExact, NEW r \in Requests,
           pc[r] = "queued", Unlink(r), pc' = [pc EXCEPT ![r] = "done"], UNCHANGED permits
    PROVE  Shift(r, "done") /\ LaneExact' /\ QueueExact' /\ queue' \in Seq(Requests)
  <1>1. \A q \in Requests : pc'[q] = IF q = r THEN "done" ELSE pc[q]
    BY DEF TypeOK
  <1>2. Holders' = Holders
    BY <1>1 DEF Holders, Holding, Running
  <1>3. PICK n \in DOMAIN queue :
            /\ queue[n] = r
            /\ queue' = SubSeq(queue, 1, n - 1) \o SubSeq(queue, n + 1, Len(queue))
    BY DEF Unlink
  <1>4. Len(queue) \in Nat /\ DOMAIN queue = 1 .. Len(queue) /\ n \in 1 .. Len(queue)
    BY DEF TypeOK
  <1> DEFINE a == SubSeq(queue, 1, n - 1)
             b == SubSeq(queue, n + 1, Len(queue))
  <1>5. /\ a \in Seq(Requests) /\ Len(a) = n - 1
        /\ \A k \in 1 .. (n - 1) : a[k] = queue[k]
    <2>1. \A k \in 1 .. (n - 1) : queue[k] \in Requests
      BY <1>4 DEF TypeOK
    <2>2. 1 \in Int /\ n - 1 \in Int
      BY <1>4
    <2>3. /\ a \in Seq(Requests)
          /\ Len(a) = IF 1 <= n - 1 THEN (n - 1) - 1 + 1 ELSE 0
          /\ \A k \in 1 .. ((n - 1) - 1 + 1) : a[k] = queue[1 + k - 1]
      BY <2>1, <2>2, SubSeqProperties
    <2>4. \A k \in 1 .. (n - 1) : k \in 1 .. ((n - 1) - 1 + 1) /\ 1 + k - 1 = k
      BY <1>4
    <2> QED BY <2>3, <2>4, <1>4
  <1>6. /\ b \in Seq(Requests) /\ Len(b) = Len(queue) - n
        /\ \A k \in 1 .. (Len(queue) - n) : b[k] = queue[n + k]
    <2>1. \A k \in (n + 1) .. Len(queue) : queue[k] \in Requests
      BY <1>4 DEF TypeOK
    <2>2. n + 1 \in Int /\ Len(queue) \in Int
      BY <1>4
    <2>3. /\ b \in Seq(Requests)
          /\ Len(b) = IF n + 1 <= Len(queue) THEN Len(queue) - (n + 1) + 1 ELSE 0
          /\ \A k \in 1 .. (Len(queue) - (n + 1) + 1) : b[k] = queue[(n + 1) + k - 1]
      BY <2>1, <2>2, SubSeqProperties
    <2>4. \A k \in 1 .. (Len(queue) - n) :
              k \in 1 .. (Len(queue) - (n + 1) + 1) /\ (n + 1) + k - 1 = n + k
      BY <1>4
    <2> QED BY <2>3, <2>4, <1>4
  <1> HIDE DEF a, b
  <1>7. queue' = a \o b
    BY <1>3 DEF a, b
  <1>8. /\ queue' \in Seq(Requests)
        /\ Len(queue') = Len(queue) - 1
        /\ DOMAIN queue' = 1 .. (Len(queue) - 1)
    <2>1. queue' \in Seq(Requests) /\ Len(queue') = Len(a) + Len(b)
      BY <1>5, <1>6, <1>7, ConcatProperties
    <2>2. Len(queue') = Len(queue) - 1
      BY <2>1, <1>4, <1>5, <1>6
    <2>3. DOMAIN queue' = 1 .. Len(queue')
      BY <2>1, LenProperties
    <2> QED BY <2>1, <2>2, <2>3
  <1>9. \A k \in DOMAIN queue' : queue'[k] = IF k < n THEN queue[k] ELSE queue[k + 1]
    <2> SUFFICES ASSUME NEW k \in DOMAIN queue'
                 PROVE  queue'[k] = IF k < n THEN queue[k] ELSE queue[k + 1]
      OBVIOUS
    <2>1. queue'[k] = IF k <= n - 1 THEN a[k] ELSE b[k - (n - 1)]
      <3>1. k \in 1 .. Len(a) + Len(b)
        BY <1>4, <1>5, <1>6, <1>8
      <3>2. (a \o b)[k] = IF k <= Len(a) THEN a[k] ELSE b[k - Len(a)]
        BY <3>1, <1>5, <1>6, ConcatProperties
      <3> QED BY <3>2, <1>5, <1>7
    <2>2. CASE k < n
      BY <2>1, <2>2, <1>4, <1>5, <1>8
    <2>3. CASE k >= n
      <3>1. k - (n - 1) \in 1 .. (Len(queue) - n) /\ n + (k - (n - 1)) = k + 1
        BY <2>3, <1>4, <1>8
      <3>2. queue'[k] = b[k - (n - 1)]
        BY <2>1, <2>3, <1>4, <1>8
      <3>3. b[k - (n - 1)] = queue[k + 1]
        BY <3>1, <1>6
      <3> QED BY <3>2, <3>3, <2>3, <1>4, <1>8
    <2> QED BY <2>2, <2>3, <1>4, <1>8
  <1>10. \A s \in Requests : pc'[s] = "queued" <=> \E k \in DOMAIN queue' : queue'[k] = s
    <2> SUFFICES ASSUME NEW s \in Requests
                 PROVE  pc'[s] = "queued" <=> \E k \in DOMAIN queue' : queue'[k] = s
      OBVIOUS
    <2>1. pc'[s] = "queued" <=> pc[s] = "queued" /\ s # r
      BY <1>1
    <2>2. ASSUME pc[s] = "queued", s # r
          PROVE  \E k \in DOMAIN queue' : queue'[k] = s
      <3>1. PICK k \in DOMAIN queue : queue[k] = s
        BY <2>2 DEF QueueExact
      <3>2. k # n
        BY <2>2, <3>1, <1>3
      <3>3. CASE k < n
        <4>1. k \in DOMAIN queue'
          BY <3>3, <1>4, <1>8
        <4> QED BY <4>1, <3>1, <3>3, <1>9
      <3>4. CASE k > n
        <4>1. k - 1 \in DOMAIN queue' /\ ~(k - 1 < n) /\ (k - 1) + 1 = k
          BY <3>4, <1>4, <1>8
        <4> QED BY <4>1, <3>1, <1>9
      <3> QED BY <3>2, <3>3, <3>4, <1>4
    <2>3. ASSUME NEW k \in DOMAIN queue', queue'[k] = s
          PROVE  pc[s] = "queued" /\ s # r
      <3>1. PICK m \in DOMAIN queue : queue[m] = s /\ m # n
        <4>1. CASE k < n
          BY <4>1, <2>3, <1>4, <1>8, <1>9
        <4>2. CASE ~(k < n)
          <5>1. k + 1 \in DOMAIN queue /\ k + 1 # n
            BY <4>2, <1>4, <1>8
          <5> QED BY <5>1, <4>2, <2>3, <1>9
        <4> QED BY <4>1, <4>2
      <3> QED BY <3>1, <1>3 DEF QueueExact
    <2> QED BY <2>1, <2>2, <2>3
  <1>11. \A k, m \in DOMAIN queue' : queue'[k] = queue'[m] => k = m
    <2> SUFFICES ASSUME NEW k \in DOMAIN queue', NEW m \in DOMAIN queue',
                        queue'[k] = queue'[m]
                 PROVE  k = m
      OBVIOUS
    <2> DEFINE At(j) == IF j < n THEN j ELSE j + 1
    <2>1. At(k) \in DOMAIN queue /\ At(m) \in DOMAIN queue
      BY <1>4, <1>8
    <2>2. queue[At(k)] = queue[At(m)]
      BY <1>9
    <2>3. At(k) = At(m)
      <3> HIDE DEF At
      <3> QED BY <2>1, <2>2 DEF QueueExact
    <2> QED BY <2>3, <1>4, <1>8
  <1>12. LaneExact' /\ QueueExact'
    <2>1. permits' > 0 => queue' = << >>
      BY <1>3 DEF QueueExact
    <2> QED BY <2>1, <1>2, <1>10, <1>11, SameLane DEF QueueExact
  <1> QED BY <1>1, <1>8, <1>12 DEF Shift

-----------------------------------------------------------------------------
(* Places and counters *)

\* The places while no task begins or ends.
LEMMA SamePlaces ==
    ASSUME PlacesExact, NEW r \in Requests, NEW stage, Shift(r, stage),
           UNCHANGED <<input, pending>>,
           input[r].kind # "reset" => (pc[r] \in Guarded <=> stage \in Guarded)
    PROVE  PlacesExact'
  <1>1. \A q \in Requests \ {r} : pc'[q] \in Guarded <=> pc[q] \in Guarded
    BY DEF Shift, Guarded, Holding
  <1>2. Guards' = Guards
    BY <1>1 DEF Guards, Shift
  <1> QED BY <1>2 DEF PlacesExact

CountedAs(r, what) ==
    /\ result[r] = what
    /\ pc[r] \in {"padding", "released", "done"}
    /\ input[r].kind # "reset"

\* Nobody else is counted or forgotten by a step of r.
LEMMA OthersCounted ==
    ASSUME NEW r \in Requests, NEW stage, Shift(r, stage), Local(r), NEW what
    PROVE  \A q \in Requests \ {r} : CountedAs(q, what)' <=> CountedAs(q, what)
  BY DEF Shift, Local, CountedAs

\* The counters while nothing is counted.
LEMMA SameCounters ==
    ASSUME CountersExact, NEW r \in Requests, NEW stage, Shift(r, stage), Local(r),
           UNCHANGED counters,
           \A what \in Outcomes : CountedAs(r, what)' <=> CountedAs(r, what),
           handler'[r] = "throttled" <=> handler[r] = "throttled"
    PROVE  CountersExact'
  <1>1. ASSUME NEW what \in Outcomes
        PROVE  Counted(what)' = Counted(what)
    BY OthersCounted DEF Counted, CountedAs
  <1>2. {q \in Requests : handler[q] = "throttled"}' = {q \in Requests : handler[q] = "throttled"}
    BY DEF Local
  <1> QED BY <1>1, <1>2 DEF CountersExact

\* The counters when r is counted.
LEMMA OneMoreCounted ==
    ASSUME TypeOK, CountersExact, NEW r \in Requests, NEW stage, Shift(r, stage), Local(r),
           NEW o \in Outcomes, counters' = [counters EXCEPT ![o] = @ + 1],
           CountedAs(r, o)', \A what \in Outcomes : ~CountedAs(r, what),
           UNCHANGED handler
    PROVE  CountersExact'
  <1>1. \A what \in Outcomes : counters'[what] = IF what = o THEN counters[o] + 1 ELSE counters[what]
    BY DEF TypeOK, Outcomes
  <1>2. counters'.throttled = counters.throttled
    BY DEF TypeOK, Outcomes
  <1>3. Counted(o)' = Counted(o) \cup {r} /\ r \notin Counted(o)
    BY OthersCounted DEF Counted, CountedAs
  <1>4. ASSUME NEW what \in Outcomes, what # o
        PROVE  Counted(what)' = Counted(what)
    <2>1. ~CountedAs(r, what)'
      BY <1>4 DEF CountedAs
    <2> QED BY <2>1, OthersCounted DEF Counted, CountedAs
  <1>5. Cardinality(Counted(o)') = Cardinality(Counted(o)) + 1
    <2>1. Counted(o) \in SUBSET Requests
      BY DEF Counted
    <2> QED BY <2>1, <1>3, CountAdd
  <1>6. \A what \in Outcomes : counters'[what] = Cardinality(Counted(what)')
    BY <1>1, <1>4, <1>5 DEF CountersExact
  <1> QED BY <1>2, <1>6 DEF CountersExact

-----------------------------------------------------------------------------
(* One lemma per kind of step *)

\* The lab starts with nothing in it.
LEMMA InitIInv == Init => IInv
  <1> SUFFICES ASSUME Init PROVE IInv
    OBVIOUS
  <1> USE LabAssumption DEF Init
  <1>1. TypeOK
    <2>1. NoBytes \in Bytes
      BY DEF NoBytes, Bytes
    <2>2. EmptySession \in [accumulated : Bytes, next_sequence : Nat, chunks : Nat]
      BY <2>1 DEF EmptySession
    <2>3. LastTick \in Nat /\ 0 \in 0 .. LastTick
      BY DEF LastTick
    <2>4. << >> \in Seq(Requests)
      OBVIOUS
    <2>5. counters \in [{"complete", "timed_out", "failed", "throttled"} -> Nat]
      OBVIOUS
    <2> QED BY <2>1, <2>2, <2>3, <2>4, <2>5 DEF TypeOK
  <1>2. Coupled
    BY DEF Coupled, CoupledAt, ReportedAt, Waiting, Answers, Outcomes, EarlyErrs
  <1>3. Holders = {} /\ Guards = {}
    BY DEF Holders, Guards, Guarded, Holding, Running
  <1>4. LaneExact
    BY <1>3 DEF LaneExact
  <1>5. QueueExact
    BY DEF QueueExact
  <1>6. PlacesExact
    BY <1>3, FS_EmptySet DEF PlacesExact
  <1>7. Fresh
    BY DEF Fresh, FreshAt, Running
  <1>8. SessionsExact
    BY DEF SessionsExact, SessionAt, EmptySession, NoBytes
  <1>9. CountersExact
    <2>1. {r \in Requests : handler[r] = "throttled"} = {}
      OBVIOUS
    <2>2. \A what \in Outcomes : Counted(what) = {}
      BY DEF Counted
    <2>3. counters.throttled = 0 /\ \A what \in Outcomes : counters[what] = 0
      BY DEF Outcomes
    <2>4. Cardinality({}) = 0
      BY FS_EmptySet
    <2> QED BY <2>1, <2>2, <2>3, <2>4 DEF CountersExact
  <1> QED BY <1>1, <1>2, <1>4, <1>5, <1>6, <1>7, <1>8, <1>9 DEF IInv

\* A request arrives and is admitted, refused or throttled.
LEMMA ArrivalIInv ==
    ASSUME IInv, NEW r \in Requests, Arrival(r)
    PROVE  IInv'
  <1> USE LabAssumption DEF IInv
  <1>1. handler[r] = "idle"
    BY DEF Arrival, Refuse, Throttle, Admit, ArriveReset
  <1>2. pc[r] = "none" /\ input[r] = NoInput /\ result[r] = "none" /\ CoupledAt(r)
    BY <1>1 DEF Coupled, CoupledAt
  <1>3. CASE Refuse(r) \/ Throttle(r)
    <2> DEFINE a == IF Refuse(r) THEN "refused" ELSE "throttled"
    <2>1. /\ handler' = [handler EXCEPT ![r] = a]
          /\ result' = [result EXCEPT ![r] = a]
          /\ UNCHANGED <<input, pc, report, previous, child, elapsed, laneVars,
                         sessions, states>>
      BY <1>3 DEF Refuse, Throttle, dataVars
    <2>2. a \in {"refused", "throttled"}
      OBVIOUS
    <2> HIDE DEF a
    <2>3. Shift(r, "none") /\ Local(r)
      BY <2>1, <1>2 DEF Shift, Local, TypeOK
    <2>4. counters' \in [{"complete", "timed_out", "failed", "throttled"} -> Nat]
      BY <1>3 DEF Refuse, Throttle, Count, TypeOK, dataVars
    <2>5. TypeOK'
      <3>1. a \in Answers
        BY <2>2 DEF Answers
      <3> QED BY <2>1, <2>4, <3>1 DEF TypeOK, laneVars
    <2>6. Coupled'
      <3>1. CoupledAt(r)'
        BY <1>2, <2>1, <2>2 DEF CoupledAt, TypeOK, Waiting, Answers
      <3>2. ReportedAt(r)'
        BY <1>2, <2>1 DEF ReportedAt
      <3> QED BY <2>3, <3>1, <3>2, OthersCoupled
    <2>7. LaneExact' /\ QueueExact' /\ PlacesExact'
      BY <2>1 DEF LaneExact, QueueExact, PlacesExact, Holders, Guards, laneVars
    <2>8. Fresh'
      BY <2>1 DEF Fresh, FreshAt
    <2>9. SessionsExact'
      BY <2>1, SameSessions
    <2>10. CountersExact'
      <3>1. \A what \in Outcomes : ~CountedAs(r, what) /\ ~CountedAs(r, what)'
        BY <1>2, <2>1 DEF CountedAs
      <3>2. CASE Refuse(r)
        <4>1. handler'[r] = "refused" /\ UNCHANGED counters
          BY <3>2 DEF Refuse, TypeOK, dataVars
        <4> QED BY <4>1, <1>1, <2>3, <3>1, SameCounters
      <3>3. CASE ~Refuse(r)
        <4>1. counters' = [counters EXCEPT !["throttled"] = @ + 1] /\ handler'[r] = "throttled"
          BY <1>3, <3>3 DEF Throttle, Count, TypeOK
        <4>2. \A what \in Outcomes : Counted(what)' = Counted(what)
          BY <2>3, <3>1, OthersCounted DEF Counted, CountedAs
        <4> DEFINE T == {q \in Requests : handler[q] = "throttled"}
        <4>3. T' = T \cup {r} /\ r \notin T /\ T \in SUBSET Requests
          BY <1>1, <2>3, <4>1 DEF Local
        <4>4. Cardinality(T') = Cardinality(T) + 1
          BY <4>3, CountAdd
        <4>5. /\ counters'.throttled = counters.throttled + 1
              /\ \A what \in Outcomes : counters'[what] = counters[what]
          BY <4>1 DEF TypeOK, Outcomes
        <4> QED BY <4>2, <4>4, <4>5 DEF CountersExact
      <3> QED BY <3>2, <3>3
    <2> QED BY <2>5, <2>6, <2>7, <2>8, <2>9, <2>10
  <1>4. ASSUME NEW i \in Inputs, Admit(r, i) \/ ArriveReset(r, i)
        PROVE  IInv'
    <2> USE <1>4 DEF Admit, ArriveReset, Moves
    <2>1. /\ handler' = [handler EXCEPT ![r] = "awaiting"]
          /\ input' = [input EXCEPT ![r] = i]
          /\ pc' = [pc EXCEPT ![r] = "spawned"]
          /\ UNCHANGED <<result, report, previous, child, elapsed, permits, queue, dataVars>>
      BY DEF laneVars
    <2>2. i # NoInput /\ i.kind \in {"turn", "chunk", "reset"}
      BY InputFields
    <2>3. LaneExact' /\ QueueExact' /\ Shift(r, "spawned")
      BY <1>2, <2>1, Stays DEF Holding, Running
    <2>4. Local(r)
      BY <2>1 DEF Local, TypeOK
    <2>5. TypeOK'
      <3>1. pending' \in 0 .. MaxPending
        BY DEF HasRoom, TypeOK, laneVars
      <3>2. input' \in [Requests -> Inputs \cup {NoInput}]
        BY <2>1 DEF TypeOK
      <3>3. pc' \in [Requests -> Guarded \cup {"none", "done"}]
        BY <2>1 DEF TypeOK, Guarded
      <3>4. handler' \in [Requests -> Answers \cup {"idle", "awaiting", "gone"}]
        BY <2>1 DEF TypeOK
      <3> HIDE DEF Admit, ArriveReset
      <3> QED BY <2>1, <3>1, <3>2, <3>3, <3>4 DEF TypeOK, dataVars
    <2>6. /\ handler'[r] = "awaiting" /\ input'[r] = i /\ pc'[r] = "spawned"
          /\ result'[r] = "none" /\ child'[r] = child[r]
      BY <1>2, <2>1 DEF TypeOK
    <2> HIDE DEF Admit, ArriveReset, Moves
    <2>7. Coupled'
      <3>1. CoupledAt(r)'
        BY <1>2, <2>2, <2>6 DEF CoupledAt, Waiting, Answers, Outcomes, EarlyErrs
      <3>2. ReportedAt(r)'
        BY <2>6 DEF ReportedAt
      <3> QED BY <2>3, <2>4, <3>1, <3>2, OthersCoupled
    <2>8. PlacesExact'
      <3>1. \A q \in Requests \ {r} : (pc'[q] \in Guarded <=> pc[q] \in Guarded)
        BY <2>3 DEF Shift, Guarded, Holding
      <3>2. CASE i.kind = "reset"
        <4>1. Guards' = Guards
          BY <1>2, <2>4, <2>6, <3>1, <3>2 DEF Guards, Local, Guarded, Holding, Running
        <4>2. pending' = pending
          BY <1>4, <3>2 DEF Admit, ArriveReset, laneVars
        <4> QED BY <4>1, <4>2 DEF PlacesExact
      <3>3. CASE i.kind # "reset"
        <4>1. Guards' = Guards \cup {r} /\ r \notin Guards /\ Guards \in SUBSET Requests
          BY <1>2, <2>4, <2>6, <3>1, <3>3 DEF Guards, Local, Guarded, Holding, Running
        <4>2. pending' = pending + 1
          BY <1>4, <3>3 DEF Admit, ArriveReset
        <4> QED BY <4>1, <4>2, CountAdd DEF PlacesExact
      <3> QED BY <3>2, <3>3
    <2>9. Fresh'
      <3>1. FreshAt(r)'
        BY <2>6 DEF FreshAt, Running
      <3> QED BY <2>1, <2>3, <2>4, <3>1, SameFresh DEF dataVars
    <2>10. SessionsExact'
      BY <1>2, <2>1, <2>4, SameSessions DEF dataVars, Local
    <2>11. CountersExact'
      BY <1>1, <1>2, <2>1, <2>3, <2>4, <2>6, SameCounters DEF CountedAs, dataVars
    <2> QED BY <2>3, <2>5, <2>7, <2>8, <2>9, <2>10, <2>11
  <1> QED BY <1>3, <1>4 DEF Arrival

\* A caller is answered, or goes away.
LEMMA AnswerIInv ==
    ASSUME IInv, NEW r \in Requests, Respond(r) \/ Disconnect(r)
    PROVE  IInv'
  <1> USE LabAssumption DEF IInv
  <1>1. PICK a : handler' = [handler EXCEPT ![r] = a] /\ (a = "gone" \/ (a = AnswerOf(r) /\ pc[r] = "done"))
    BY DEF Respond, Disconnect
  <1>2. /\ UNCHANGED <<input, pc, result, report, previous, child, elapsed, laneVars, dataVars>>
        /\ handler[r] = "awaiting"
        /\ a = "gone" => Disconnect(r) \/ a = AnswerOf(r)
    BY <1>1 DEF Respond, Disconnect, TypeOK
  <1>3. CoupledAt(r) /\ pc[r] # "none"
    BY <1>2 DEF Coupled, CoupledAt
  <1>4. a \in (Answers \ {"refused", "throttled"}) \cup {"gone"}
    BY <1>1, <1>2, <1>3 DEF CoupledAt, AnswerOf, Answers, Outcomes, EarlyErrs
  <1>5. Shift(r, pc[r]) /\ Local(r) /\ handler'[r] = a
    BY <1>1, <1>2 DEF Shift, Local, TypeOK
  <1>6. TypeOK'
    BY <1>1, <1>2, <1>4 DEF TypeOK, laneVars, dataVars
  <1>7. Coupled'
    <2>1. CoupledAt(r)'
      BY <1>1, <1>2, <1>3, <1>4, <1>5 DEF CoupledAt, AnswerOf, Answers, Outcomes, EarlyErrs
    <2>2. ReportedAt(r)'
      BY <1>2 DEF Coupled, ReportedAt
    <2> QED BY <1>5, <2>1, <2>2, OthersCoupled
  <1>8. LaneExact' /\ QueueExact' /\ PlacesExact'
    BY <1>2 DEF LaneExact, QueueExact, PlacesExact, Holders, Guards, laneVars
  <1>9. Fresh' /\ SessionsExact'
    BY <1>2, SameSessions DEF Fresh, FreshAt, dataVars
  <1>10. CountersExact'
    BY <1>2, <1>4, <1>5, SameCounters DEF CountedAs, dataVars
  <1> QED BY <1>6, <1>7, <1>8, <1>9, <1>10

\* The lane is taken, or a place in its queue.
LEMMA AcquireIInv ==
    ASSUME IInv, NEW r \in Requests, Acquire(r) \/ Enqueue(r)
    PROVE  IInv'
  <1> USE LabAssumption DEF IInv
  <1>1. PICK stage \in {"queued", "granted"} : pc' = [pc EXCEPT ![r] = stage]
    BY DEF Acquire, Enqueue, Moves
  <1>2. /\ pc[r] = "spawned"
        /\ UNCHANGED <<handler, input, result, report, previous, child, elapsed,
                       pending, dataVars>>
    BY DEF Acquire, Enqueue
  <1>3. \A q \in Requests : pc'[q] = IF q = r THEN stage ELSE pc[q]
    BY <1>1 DEF TypeOK
  <1>4. Shift(r, stage) /\ Local(r)
    BY <1>2, <1>3 DEF Shift, Local
  <1>5. permits' \in 0 .. 1 /\ queue' \in Seq(Requests) /\ LaneExact' /\ QueueExact'
    <2>1. CASE Acquire(r)
      <3> USE <2>1 DEF Acquire, Moves
      <3>1. permits = 1 /\ permits' = 0 /\ queue' = queue /\ pc'[r] = "granted" /\ stage = "granted"
        BY <1>3 DEF TypeOK
      <3>2. Holders = {}
        BY <3>1 DEF LaneExact
      <3>3. Holders' = {r}
        BY <3>1, <3>2, <1>3 DEF Holders, Holding
      <3>4. QueueExact'
        BY <3>1, <1>2, <1>3 DEF QueueExact
      <3> QED BY <3>1, <3>3, <3>4 DEF LaneExact, TypeOK
    <2>2. CASE Enqueue(r)
      <3> USE <2>2 DEF Enqueue, Moves
      <3>1. permits' = permits /\ permits = 0 /\ queue' = Append(queue, r) /\ stage = "queued"
        BY <1>3 DEF TypeOK
      <3>2. Holders' = Holders
        BY <3>1, <1>2, <1>3 DEF Holders, Holding, Running
      <3>3. /\ DOMAIN queue' = DOMAIN queue \cup {Len(queue) + 1}
            /\ Len(queue) + 1 \notin DOMAIN queue
            /\ \A i \in DOMAIN queue : queue'[i] = queue[i]
            /\ queue'[Len(queue) + 1] = r
        BY <3>1 DEF TypeOK
      <3>4. \A i \in DOMAIN queue : queue[i] \in Requests /\ queue[i] # r
        <4>1. \A i \in DOMAIN queue : queue[i] # r
          BY <1>2 DEF QueueExact
        <4>2. \A i \in DOMAIN queue : queue[i] \in Requests
          BY DEF TypeOK
        <4> QED BY <4>1, <4>2
      <3>5. \A s \in Requests : pc'[s] = "queued" <=> \E i \in DOMAIN queue' : queue'[i] = s
        BY <1>3, <3>1, <3>3, <3>4 DEF QueueExact
      <3>6. \A i, j \in DOMAIN queue' : queue'[i] = queue'[j] => i = j
        BY <3>3, <3>4 DEF QueueExact
      <3>7. LaneExact' /\ QueueExact'
        BY <3>1, <3>2, <3>5, <3>6, SameLane DEF QueueExact
      <3> QED BY <3>1, <3>7 DEF TypeOK
    <2> QED BY <2>1, <2>2
  <1>6. TypeOK'
    <2>1. pc' \in [Requests -> Guarded \cup {"none", "done"}]
      BY <1>1 DEF TypeOK, Guarded, Holding
    <2> QED BY <2>1, <1>2, <1>5 DEF TypeOK, dataVars
  <1>7. Coupled'
    <2>1. CoupledAt(r)'
      BY <1>2, <1>3 DEF Coupled, CoupledAt, AnswerOf, Waiting
    <2>2. ReportedAt(r)'
      BY <1>3 DEF ReportedAt
    <2> QED BY <1>4, <2>1, <2>2, OthersCoupled
  <1>8. PlacesExact'
    BY <1>2, <1>4, SamePlaces DEF Guarded, Holding
  <1>9. Fresh'
    <2>1. FreshAt(r)'
      BY <1>3 DEF FreshAt, Running
    <2> QED BY <1>2, <1>4, <2>1, SameFresh DEF dataVars
  <1>10. SessionsExact'
    BY <1>2, SameSessions DEF dataVars
  <1>11. CountersExact'
    BY <1>2, <1>3, <1>4, SameCounters DEF CountedAs, dataVars
  <1> QED BY <1>5, <1>6, <1>7, <1>8, <1>9, <1>10, <1>11

\* A reset is cancelled, wherever it is, or clears its sessions.
LEMMA ResetIInv ==
    ASSUME IInv, NEW r \in Requests, CancelReset(r) \/ ClearSessions(r)
    PROVE  IInv'
  <1> USE LabAssumption DEF IInv
  <1>1. pc[r] \in Waiting
    BY DEF CancelReset, ClearSessions, Waiting
  <1>2. input[r] \in Inputs /\ input[r].kind = "reset" /\ CoupledAt(r) /\ result[r] = "none"
    <2>1. input[r] \in Inputs /\ CoupledAt(r)
      BY <1>1, ArrivedInput DEF Waiting, Coupled
    <2> QED BY <1>1, <2>1 DEF CancelReset, ClearSessions, CoupledAt
  <1>3. /\ Shift(r, "done") /\ LaneExact' /\ QueueExact'
        /\ pc' \in [Requests -> Guarded \cup {"none", "done"}]
        /\ queue' \in Seq(Requests)
        /\ permits' \in 0 .. 1
    <2>1. CASE pc[r] = "granted" /\ HandOver(r, "done")
      BY <2>1, HandsOver DEF Holding
    <2>2. CASE pc[r] = "queued" /\ Unlink(r) /\ Moves(r, "done") /\ UNCHANGED permits
      BY <2>2, Unlinks DEF Moves, TypeOK
    <2>3. CASE pc[r] = "spawned" /\ Moves(r, "done") /\ UNCHANGED <<permits, queue>>
      BY <2>3, Stays DEF Moves, TypeOK, Holding, Running
    <2> QED BY <2>1, <2>2, <2>3 DEF CancelReset, ClearSessions
  <1>4. /\ UNCHANGED <<input, report, previous, child, elapsed, pending, states, counters>>
        /\ \/ /\ result' = [result EXCEPT ![r] = "cancelled"]
              /\ handler' = [handler EXCEPT ![r] = "gone"]
           \/ result' = [result EXCEPT ![r] = "complete"] /\ UNCHANGED handler
    BY DEF CancelReset, ClearSessions, dataVars
  <1>5. Local(r)
    BY <1>4 DEF Local, TypeOK
  <1>6. pc'[r] = "done" /\ \/ result'[r] = "cancelled" /\ handler'[r] = "gone"
                           \/ result'[r] = "complete" /\ handler'[r] = handler[r]
    BY <1>3, <1>4 DEF Shift, TypeOK
  <1>7. /\ sessions' \in [Slots -> [accumulated : Bytes, next_sequence : Nat, chunks : Nat]]
        /\ \A s \in Slots : sessions'[s] \in {sessions[s], EmptySession}
    <2>1. CASE CancelReset(r)
      BY <2>1 DEF CancelReset, dataVars, TypeOK
    <2>2. CASE ClearSessions(r)
      <3>1. EmptySession \in [accumulated : Bytes, next_sequence : Nat, chunks : Nat]
        BY DEF EmptySession, NoBytes, Bytes
      <3>2. sessions' = [s \in Slots |->
                            IF Cleared(s, input[r].count) THEN EmptySession ELSE sessions[s]]
        BY <2>2 DEF ClearSessions
      <3> QED BY <3>1, <3>2 DEF TypeOK
    <2> QED BY <2>1, <2>2
  <1>8. TypeOK'
    <2>1. /\ handler' \in [Requests -> Answers \cup {"idle", "awaiting", "gone"}]
          /\ result' \in [Requests -> Answers \cup {"none", "cancelled"}]
      BY <1>4 DEF TypeOK, Answers, Outcomes
    <2> QED BY <2>1, <1>3, <1>4, <1>7 DEF TypeOK
  <1>9. Coupled'
    <2>1. CoupledAt(r)'
      BY <1>1, <1>2, <1>4, <1>6 DEF CoupledAt, Waiting, Answers, Outcomes, EarlyErrs
    <2>2. ReportedAt(r)'
      BY <1>2, <1>4 DEF ReportedAt
    <2> QED BY <1>3, <1>5, <2>1, <2>2, OthersCoupled
  <1>10. PlacesExact'
    BY <1>2, <1>3, <1>4, SamePlaces
  <1>11. Fresh'
    <2>1. FreshAt(r)'
      BY <1>6 DEF FreshAt, Running
    <2>2. CASE CancelReset(r)
      BY <1>3, <1>5, <2>1, <2>2, SameFresh DEF CancelReset, dataVars
    <2>3. CASE ClearSessions(r)
      BY <1>3, <1>5, <2>1, <2>3, OthersFresh DEF ClearSessions, Holding
    <2> QED BY <2>2, <2>3
  <1>12. SessionsExact'
    <2> SUFFICES ASSUME NEW s \in Slots PROVE SessionAt(s)'
      BY DEF SessionsExact
    <2>1. CASE sessions'[s] = sessions[s]
      BY <2>1, <1>4 DEF SessionsExact, SessionAt
    <2>2. CASE sessions'[s] = EmptySession
      BY <2>2 DEF SessionAt, EmptySession, NoBytes
    <2> QED BY <2>1, <2>2, <1>7
  <1>13. CountersExact'
    <2>1. handler[r] # "throttled"
      BY <1>1, <1>2 DEF CoupledAt, Waiting
    <2>2. \A what \in Outcomes : ~CountedAs(r, what) /\ ~CountedAs(r, what)'
      BY <1>2, <1>4 DEF CountedAs
    <2> QED BY <1>3, <1>4, <1>5, <1>6, <2>1, <2>2, SameCounters
  <1> QED BY <1>3, <1>8, <1>9, <1>10, <1>11, <1>12, <1>13

\* A task gives up the lane, and then its place.
LEMMA LeaveIInv ==
    ASSUME IInv, NEW r \in Requests, ReleaseLane(r) \/ DropPending(r)
    PROVE  IInv'
  <1> USE LabAssumption DEF IInv
  <1>1. CASE ReleaseLane(r)
    <2> USE <1>1 DEF ReleaseLane
    <2>1. pc[r] \in {"leaving", "padding"} /\ CoupledAt(r)
      BY DEF Coupled
    <2>2. /\ Shift(r, "released") /\ LaneExact' /\ QueueExact'
          /\ pc' \in [Requests -> Guarded \cup {"none", "done"}]
          /\ queue' \in Seq(Requests)
          /\ permits' \in 0 .. 1
      BY <2>1, HandsOver DEF Holding
    <2>3. /\ elapsed' = [elapsed EXCEPT ![r] = 0]
          /\ previous' = [previous EXCEPT ![r] = NoBytes]
          /\ UNCHANGED <<handler, input, result, report, child, pending, dataVars>>
      OBVIOUS
    <2> HIDE DEF ReleaseLane
    <2>4. Local(r)
      BY <2>3 DEF Local, TypeOK
    <2>5. TypeOK'
      <3>1. NoBytes \in Bytes /\ 0 \in 0 .. LastTick
        BY DEF NoBytes, Bytes, LastTick
      <3>2. elapsed' \in [Requests -> 0 .. LastTick] /\ previous' \in [Requests -> Bytes]
        BY <2>3, <3>1 DEF TypeOK
      <3> QED BY <2>2, <2>3, <3>2 DEF TypeOK, dataVars
    <2>6. input[r].kind # "reset"
      BY <2>1 DEF CoupledAt, Waiting
    <2>7. pc'[r] = "released" /\ handler'[r] = handler[r] /\ handler[r] # "throttled"
      BY <2>1, <2>2, <2>3 DEF Shift, CoupledAt
    <2>8. Coupled'
      <3>1. CoupledAt(r)'
        BY <2>1, <2>3, <2>6, <2>7 DEF CoupledAt, Waiting, AnswerOf
      <3>2. ReportedAt(r)'
        BY <2>1, <2>3, <2>7 DEF Coupled, CoupledAt, ReportedAt, EarlyErrs
      <3> QED BY <2>2, <2>4, <3>1, <3>2, OthersCoupled
    <2>9. PlacesExact'
      <3>1. pc[r] \in Guarded /\ "released" \in Guarded
        BY <2>1 DEF Guarded, Holding
      <3> QED BY <2>2, <2>3, <3>1, SamePlaces
    <2>10. Fresh'
      <3>1. FreshAt(r)'
        BY <2>7 DEF FreshAt, Running
      <3> QED BY <2>2, <2>3, <2>4, <3>1, SameFresh DEF dataVars
    <2>11. SessionsExact'
      BY <2>3, SameSessions DEF dataVars
    <2>12. CountersExact'
      <3>1. \A what \in Outcomes : CountedAs(r, what)' <=> CountedAs(r, what)
        BY <2>1, <2>3, <2>7 DEF CountedAs, CoupledAt, Outcomes, EarlyErrs
      <3> QED BY <2>2, <2>3, <2>4, <2>7, <3>1, SameCounters DEF dataVars
    <2> QED BY <2>2, <2>5, <2>8, <2>9, <2>10, <2>11, <2>12
  <1>2. CASE DropPending(r)
    <2> USE <1>2 DEF DropPending, Moves
    <2>1. /\ pc[r] = "released" /\ pc' = [pc EXCEPT ![r] = "done"] /\ CoupledAt(r)
          /\ pending' = pending - 1
          /\ UNCHANGED <<handler, input, result, report, previous, child, elapsed,
                         permits, queue, dataVars>>
      BY DEF Coupled
    <2> HIDE DEF DropPending
    <2>2. LaneExact' /\ QueueExact' /\ Shift(r, "done") /\ Local(r)
      BY <2>1, Stays DEF Local, Holding, Running
    <2>3. input[r].kind # "reset" /\ pc'[r] = "done"
      BY <2>1, <2>2 DEF CoupledAt, Waiting, Shift
    <2>4. Guards' = Guards \ {r} /\ r \in Guards /\ Guards \in SUBSET Requests
      <3>1. \A q \in Requests \ {r} : (pc'[q] \in Guarded <=> pc[q] \in Guarded)
        BY <2>2 DEF Shift, Guarded, Holding
      <3>2. "released" \in Guarded /\ "done" \notin Guarded
        BY DEF Guarded, Holding, Running
      <3> QED BY <2>1, <2>3, <3>1, <3>2 DEF Guards
    <2>5. PlacesExact' /\ pending' \in 0 .. MaxPending
      <3>1. Cardinality(Guards') = Cardinality(Guards) - 1 /\ Cardinality(Guards) > 0
        BY <2>4, CountRemove
      <3> QED BY <2>1, <3>1 DEF PlacesExact, TypeOK
    <2>6. TypeOK'
      <3>1. pc' \in [Requests -> Guarded \cup {"none", "done"}]
        BY <2>1 DEF TypeOK
      <3> QED BY <2>1, <2>5, <3>1 DEF TypeOK, dataVars
    <2>7. Coupled'
      <3>1. CoupledAt(r)'
        BY <2>1, <2>3 DEF CoupledAt, Waiting, AnswerOf
      <3>2. ReportedAt(r)'
        BY <2>1 DEF Coupled, ReportedAt
      <3> QED BY <2>2, <3>1, <3>2, OthersCoupled
    <2>8. Fresh'
      <3>1. FreshAt(r)'
        BY <2>3 DEF FreshAt, Running
      <3> QED BY <2>1, <2>2, <3>1, SameFresh DEF dataVars
    <2>9. SessionsExact'
      BY <2>1, SameSessions DEF dataVars
    <2>10. CountersExact'
      BY <2>1, <2>2, <2>3, SameCounters DEF CountedAs, dataVars
    <2> QED BY <2>2, <2>5, <2>6, <2>7, <2>8, <2>9, <2>10
  <1> QED BY <1>1, <1>2

\* A task keeps the lane and goes on, before it is counted.
LEMMA KeepsLane ==
    ASSUME IInv, NEW r \in Requests, NEW stage \in Running \cup {"leaving"},
           pc[r] \in Running \cup {"granted"}, pc' = [pc EXCEPT ![r] = stage],
           UNCHANGED <<handler, input, report, elapsed, laneVars, dataVars>>,
           Local(r),
           result' \in [Requests -> Answers \cup {"none", "cancelled"}],
           previous' \in [Requests -> Bytes],
           child' \in [Requests -> {"none", "alive", "ok", "bad", "killed", "dead", "orphan"}],
           CoupledAt(r)', FreshAt(r)'
    PROVE  IInv'
  <1> USE DEF IInv
  <1>1. /\ pc[r] \in Holding /\ stage \in Holding /\ stage # "queued" /\ pc[r] # "queued"
        /\ {pc[r], stage} \cap {"padding", "released", "done"} = {}
    BY DEF Running, Holding
  <1>2. LaneExact' /\ QueueExact' /\ Shift(r, stage)
    BY <1>1, Stays DEF laneVars
  <1>3. pc'[r] = stage
    BY <1>2 DEF Shift
  <1>4. TypeOK'
    <2>1. pc' \in [Requests -> Guarded \cup {"none", "done"}]
      BY <1>1 DEF TypeOK, Guarded
    <2> QED BY <2>1 DEF TypeOK, laneVars, dataVars
  <1>5. Coupled'
    <2>1. ReportedAt(r)'
      BY <1>1, <1>3 DEF ReportedAt
    <2> QED BY <1>2, <2>1, OthersCoupled
  <1>6. PlacesExact'
    BY <1>1, <1>2, SamePlaces DEF laneVars, Guarded
  <1>7. Fresh'
    BY <1>2, SameFresh DEF dataVars
  <1>8. SessionsExact'
    BY SameSessions DEF dataVars
  <1>9. CountersExact'
    <2>1. \A what \in Outcomes : ~CountedAs(r, what) /\ ~CountedAs(r, what)'
      BY <1>1, <1>3 DEF CountedAs
    <2> QED BY <1>2, <2>1, SameCounters DEF dataVars
  <1> QED BY <1>2, <1>4, <1>5, <1>6, <1>7, <1>8, <1>9

\* The session is checked and copied.
LEMMA ReadIInv ==
    ASSUME IInv, NEW r \in Requests, ReadPrevious(r)
    PROVE  IInv'
  <1> USE LabAssumption DEF IInv
  <1> DEFINE i == input[r]
             v == IF i.kind = "turn" THEN "none" ELSE Verdict(i, sessions[i.slot])
             p == IF i.kind = "turn" THEN states[i.slot] ELSE sessions[i.slot].accumulated
  <1>1. /\ pc[r] = "granted" /\ i.kind # "reset"
        /\ result' = [result EXCEPT ![r] = v]
        /\ \/ v # "none" /\ pc' = [pc EXCEPT ![r] = "leaving"] /\ previous' = previous
           \/ /\ v = "none" /\ pc' = [pc EXCEPT ![r] = "starting"]
              /\ previous' = [previous EXCEPT ![r] = p]
        /\ UNCHANGED <<handler, input, report, child, elapsed, laneVars, dataVars>>
    BY DEF ReadPrevious, Moves
  <1>2. CoupledAt(r) /\ i \in Inputs
    BY <1>1, ArrivedInput DEF Coupled
  <1>3. i.kind \in {"turn", "chunk"} /\ i.slot \in Slots
    BY <1>1, <1>2, InputFields
  <1>4. v \in {"none"} \cup EarlyErrs
    BY DEF Verdict, EarlyErrs
  <1>5. p \in Bytes
    BY <1>3 DEF TypeOK
  <1>6. v = "none" /\ i.kind = "chunk" =>
            /\ i.sequence = sessions[i.slot].next_sequence
            /\ sessions[i.slot].accumulated.len + i.bytes <= StateBytes
    <2> SUFFICES ASSUME v = "none", i.kind = "chunk"
                 PROVE  /\ i.sequence = sessions[i.slot].next_sequence
                        /\ sessions[i.slot].accumulated.len + i.bytes <= StateBytes
      OBVIOUS
    <2>1. Verdict(i, sessions[i.slot]) = "none"
      OBVIOUS
    <2>2. sessions[i.slot].accumulated.len \in Nat /\ i.bytes \in Nat
      BY <1>2, <1>3, InputFields DEF TypeOK, Bytes
    <2> QED BY <2>1, <2>2 DEF Verdict
  <1> HIDE DEF v, p
  <1>7. PICK stage \in {"leaving", "starting"} :
            /\ pc' = [pc EXCEPT ![r] = stage]
            /\ stage = "leaving" <=> v # "none"
    BY <1>1
  <1>8. /\ result' \in [Requests -> Answers \cup {"none", "cancelled"}]
        /\ previous' \in [Requests -> Bytes]
        /\ result'[r] = v /\ pc'[r] = stage
        /\ v = "none" => previous'[r] = p
    <2>1. /\ result' \in [Requests -> Answers \cup {"none", "cancelled"}]
          /\ result'[r] = v /\ pc'[r] = stage
      BY <1>1, <1>4, <1>7 DEF TypeOK, Answers
    <2>2. CASE v # "none"
      BY <2>1, <2>2, <1>1 DEF TypeOK
    <2>3. CASE v = "none"
      <3>1. previous' = [previous EXCEPT ![r] = p] /\ previous \in [Requests -> Bytes]
        BY <2>3, <1>1 DEF TypeOK
      <3> QED BY <2>1, <3>1, <1>5
    <2> QED BY <2>2, <2>3
  <1>9. Local(r)
    BY <1>1 DEF Local, TypeOK
  <1>10. CoupledAt(r)'
    BY <1>1, <1>2, <1>4, <1>7, <1>8
       DEF CoupledAt, Waiting, Answers, Outcomes, EarlyErrs, AnswerOf
  <1>11. FreshAt(r)'
    BY <1>1, <1>3, <1>6, <1>7, <1>8 DEF FreshAt, Running, p, dataVars
  <1>12. child' \in [Requests -> {"none", "alive", "ok", "bad", "killed", "dead", "orphan"}]
    BY <1>1 DEF TypeOK
  <1>13. /\ stage \in Running \cup {"leaving"} /\ pc[r] \in Running \cup {"granted"}
         /\ UNCHANGED <<handler, input, report, elapsed, laneVars, dataVars>>
    BY <1>1 DEF Running
  <1> QED BY <1>7, <1>8, <1>9, <1>10, <1>11, <1>12, <1>13, KeepsLane

\* A step of a running task that sets its stage, its result and its runner.
LEMMA Executes ==
    ASSUME IInv, NEW r \in Requests,
           NEW stage \in {"writing", "reading", "reaping", "executed"},
           NEW v \in Outcomes \cup {"none"},
           NEW c \in {"none", "alive", "ok", "bad", "killed", "dead", "orphan"},
           pc[r] \in {"starting", "writing", "reading", "reaping"},
           pc' = [pc EXCEPT ![r] = stage],
           result' = [result EXCEPT ![r] = v],
           child' = [child EXCEPT ![r] = c],
           UNCHANGED <<handler, input, report, previous, elapsed, laneVars, dataVars>>,
           stage = "executed" <=> v # "none",
           c = "alive" => stage \in {"writing", "reading"},
           c \in {"ok", "bad"} => stage \in {"writing", "reading", "reaping"},
           c \in {"killed", "dead"} => stage = "reaping"
    PROVE  IInv'
  <1> USE DEF IInv
  <1>1. /\ result' \in [Requests -> Answers \cup {"none", "cancelled"}]
        /\ previous' \in [Requests -> Bytes]
        /\ child' \in [Requests -> {"none", "alive", "ok", "bad", "killed", "dead", "orphan"}]
        /\ pc'[r] = stage /\ result'[r] = v /\ child'[r] = c
    BY DEF TypeOK, Answers
  <1>2. Local(r)
    BY DEF Local, TypeOK
  <1>3. CoupledAt(r)'
    <2>1. CoupledAt(r)
      BY DEF Coupled
    <2> QED BY <1>1, <2>1 DEF CoupledAt, Waiting, Outcomes, AnswerOf
  <1>4. FreshAt(r)'
    <2>1. FreshAt(r)
      BY DEF Fresh
    <2> QED BY <1>1, <2>1 DEF FreshAt, Running, dataVars
  <1>5. stage \in Running \cup {"leaving"} /\ pc[r] \in Running \cup {"granted"}
    BY DEF Running
  <1> QED BY <1>1, <1>2, <1>3, <1>4, <1>5, KeepsLane

\* The steps of a task between its copy and its outcome.
ExecuteStep(r) ==
    \/ Spawn(r) \/ SpawnFails(r) \/ Written(r) \/ CutOff(r) \/ Reap(r)
    \/ Complete(r) \/ ReadFails(r)

\* The runner is started, fed, cut off, reaped, or read to its end.
LEMMA ExecuteIInv ==
    ASSUME IInv, NEW r \in Requests, ExecuteStep(r)
    PROVE  IInv'
  <1> USE DEF Moves
  <1>1. pc[r] \in {"starting", "writing", "reading", "reaping"} /\ CoupledAt(r) /\ TypeOK
    BY DEF IInv, Coupled, ExecuteStep, Spawn, SpawnFails, Written, CutOff, Reap, Complete, ReadFails
  <1>2. /\ result = [result EXCEPT ![r] = "none"]
        /\ child = [child EXCEPT ![r] = child[r]]
        /\ child[r] \in {"none", "alive", "ok", "bad", "killed", "dead", "orphan"}
        /\ pc[r] = "starting" => child[r] \in {"none", "orphan"}
    BY <1>1 DEF CoupledAt, TypeOK, Waiting
  <1>3. CASE Spawn(r)
    BY <1>1, <1>3, <1>2, Executes DEF Spawn
  <1>4. CASE SpawnFails(r)
    <2>1. /\ result' = [result EXCEPT ![r] = "failed"] /\ "failed" \in Outcomes
          /\ child' = [child EXCEPT ![r] = child[r]]
          /\ pc' = [pc EXCEPT ![r] = "executed"]
          /\ UNCHANGED <<handler, input, report, previous, elapsed, laneVars, dataVars>>
          /\ child[r] \in {"none", "orphan"}
      BY <1>2, <1>4 DEF SpawnFails, Outcomes
    <2> QED BY <1>1, <1>2, <2>1, Executes
  <1>5. CASE Written(r)
    <2>1. /\ result' = [result EXCEPT ![r] = "none"]
          /\ child' = [child EXCEPT ![r] = child[r]]
          /\ pc[r] = "writing" /\ pc' = [pc EXCEPT ![r] = "reading"]
          /\ UNCHANGED <<handler, input, report, previous, elapsed, laneVars, dataVars>>
          /\ child[r] \notin {"killed", "dead"}
      BY <1>1, <1>2, <1>5 DEF Written, CoupledAt
    <2> QED BY <1>1, <1>2, <2>1, Executes
  <1>6. CASE CutOff(r)
    <2> DEFINE c == IF child[r] = "alive" THEN "killed" ELSE child[r]
    <2>1. /\ result' = [result EXCEPT ![r] = "none"]
          /\ child' = [child EXCEPT ![r] = c]
          /\ pc' = [pc EXCEPT ![r] = "reaping"]
          /\ UNCHANGED <<handler, input, report, previous, elapsed, laneVars, dataVars>>
          /\ c \in {"none", "ok", "bad", "killed", "dead", "orphan"}
      BY <1>1, <1>2, <1>6 DEF CutOff
    <2> HIDE DEF c
    <2> QED BY <1>1, <1>2, <2>1, Executes
  <1>7. CASE Reap(r)
    BY <1>1, <1>7, Executes DEF Reap, Outcomes
  <1>8. CASE Complete(r)
    <2> DEFINE v == IF child[r] = "ok" THEN "complete" ELSE "failed"
    <2>1. /\ result' = [result EXCEPT ![r] = v]
          /\ child' = [child EXCEPT ![r] = "none"]
          /\ pc' = [pc EXCEPT ![r] = "executed"]
          /\ UNCHANGED <<handler, input, report, previous, elapsed, laneVars, dataVars>>
          /\ v \in Outcomes /\ v # "none"
      BY <1>8 DEF Complete, Outcomes
    <2> HIDE DEF v
    <2> QED BY <1>1, <2>1, Executes
  <1>9. CASE ReadFails(r)
    <2> DEFINE c == IF child[r] = "alive" THEN "orphan" ELSE "none"
    <2>1. /\ result' = [result EXCEPT ![r] = "failed"] /\ "failed" \in Outcomes
          /\ child' = [child EXCEPT ![r] = c]
          /\ pc' = [pc EXCEPT ![r] = "executed"]
          /\ UNCHANGED <<handler, input, report, previous, elapsed, laneVars, dataVars>>
          /\ c \in {"none", "orphan"}
      BY <1>9 DEF ReadFails, Outcomes
    <2> HIDE DEF c
    <2> QED BY <1>1, <2>1, Executes
  <1> QED BY <1>3, <1>4, <1>5, <1>6, <1>7, <1>8, <1>9 DEF ExecuteStep

\* What a successful runner returned fits, and adds the request at the end.
LEMMA OutputFits ==
    ASSUME IInv, NEW r \in Requests, pc[r] = "executed", input[r].kind \in {"turn", "chunk"}
    PROVE  /\ Output(r) \in Bytes
           /\ Len(Output(r).of) = Len(previous[r].of) + 1
           /\ Output(r).of[Len(previous[r].of) + 1] = r
           /\ \A n \in 1 .. Len(previous[r].of) : Output(r).of[n] = previous[r].of[n]
  <1> DEFINE p == previous[r]
  <1> USE LabAssumption DEF IInv
  <1>1. p.of \in Seq(Requests) /\ p.len \in Nat /\ p.len <= StateBytes
    BY DEF TypeOK, Bytes
  <1>2. input[r] \in Inputs /\ FreshAt(r)
    BY ArrivedInput DEF Fresh
  <1>3. Output(r).of = Append(p.of, r)
    BY DEF Output
  <1>4. Output(r).len \in 0 .. StateBytes
    <2>1. CASE input[r].kind = "turn"
      BY <1>1, <2>1 DEF Output
    <2>2. CASE input[r].kind = "chunk"
      <3>1. p.len + input[r].bytes <= StateBytes /\ input[r].bytes \in Nat
        BY <1>2, <2>2, InputFields DEF FreshAt, Running
      <3> QED BY <1>1, <2>2, <3>1 DEF Output
    <2> QED BY <2>1, <2>2
  <1>5. /\ Append(p.of, r) \in Seq(Requests)
        /\ Len(Append(p.of, r)) = Len(p.of) + 1
        /\ Append(p.of, r)[Len(p.of) + 1] = r
        /\ \A n \in 1 .. Len(p.of) : Append(p.of, r)[n] = p.of[n]
    BY <1>1, AppendProperties
  <1>6. Output(r) \in Bytes
    BY <1>3, <1>4, <1>5 DEF Output, Bytes
  <1> QED BY <1>3, <1>5, <1>6

\* The outcome is stored and counted.
StoreStep(r) == StoreState(r) \/ CountStored(r) \/ StoreChunk(r) \/ CountLost(r)

\* The session that r writes back, and every other, stays exact.
LEMMA StoredSessions ==
    ASSUME IInv, NEW r \in Requests, StoreChunk(r)
    PROVE  /\ SessionsExact'
           /\ sessions' \in [Slots -> [accumulated : Bytes, next_sequence : Nat, chunks : Nat]]
           /\ report' = [report EXCEPT ![r] = input[r].sequence + 1]
  <1> USE DEF IInv
  <1>1. /\ pc[r] = "executed" /\ input[r].kind = "chunk" /\ input[r] \in Inputs /\ input' = input
        /\ FreshAt(r)
    BY ArrivedInput DEF StoreChunk, Fresh
  <1>2. PICK s \in Slots : s = input[r].slot
    BY <1>1, InputFields
  <1>3. input[r] # NoInput /\ input[r].sequence \in Nat
    BY <1>1, InputFields
  <1> DEFINE p == previous[r]
             new == [accumulated |-> Output(r), next_sequence |-> sessions[s].next_sequence + 1,
                     chunks |-> sessions[s].chunks + 1]
  <1>4. sessions' = [sessions EXCEPT ![s] = new]
    BY <1>2 DEF StoreChunk
  <1>5. p = sessions[s].accumulated /\ input[r].sequence = sessions[s].next_sequence
    BY <1>1, <1>2 DEF FreshAt, Running
  <1>6. /\ p.of \in Seq(Requests) /\ Len(p.of) \in Nat
        /\ sessions[s].next_sequence = Len(p.of)
        /\ sessions[s].chunks = Len(p.of)
        /\ \A n \in 1 .. Len(p.of) : /\ input[p.of[n]] # NoInput
                                     /\ input[p.of[n]].kind = "chunk"
                                     /\ input[p.of[n]].slot = s
                                     /\ input[p.of[n]].sequence = n - 1
    <2>1. p.of \in Seq(Requests) /\ Len(p.of) \in Nat
      BY DEF TypeOK, Bytes
    <2>2. SessionAt(s)
      BY <1>2 DEF SessionsExact
    <2> HIDE DEF p
    <2> QED BY <2>1, <2>2, <1>5 DEF SessionAt
  <1>7. /\ Output(r) \in Bytes
        /\ Len(Output(r).of) = Len(p.of) + 1
        /\ Output(r).of[Len(p.of) + 1] = r
        /\ \A n \in 1 .. Len(p.of) : Output(r).of[n] = p.of[n]
    BY <1>1, OutputFits
  <1>8. new \in [accumulated : Bytes, next_sequence : Nat, chunks : Nat]
    BY <1>6, <1>7
  <1>9. /\ sessions' \in [Slots -> [accumulated : Bytes, next_sequence : Nat, chunks : Nat]]
        /\ sessions'[s] = new
        /\ \A t \in Slots \ {s} : sessions'[t] = sessions[t]
    <2> HIDE DEF new
    <2> QED BY <1>2, <1>4, <1>8 DEF TypeOK
  <1>10. SessionAt(s)'
    <2>1. /\ sessions'[s].accumulated = Output(r)
          /\ sessions'[s].next_sequence = Len(p.of) + 1
          /\ sessions'[s].chunks = Len(p.of) + 1
      BY <1>6, <1>9
    <2>2. ASSUME NEW n \in 1 .. Len(Output(r).of)
          PROVE  /\ input[Output(r).of[n]] # NoInput
                 /\ input[Output(r).of[n]].kind = "chunk"
                 /\ input[Output(r).of[n]].slot = s
                 /\ input[Output(r).of[n]].sequence = n - 1
      <3>1. CASE n = Len(p.of) + 1
        <4>1. Output(r).of[n] = r
          BY <3>1, <1>7
        <4>2. input[r].sequence = n - 1
          BY <3>1, <1>5, <1>6
        <4> QED BY <4>1, <4>2, <1>1, <1>2, <1>3
      <3>2. CASE n # Len(p.of) + 1
        <4>1. n \in 1 .. Len(p.of)
          BY <3>2, <1>6, <1>7
        <4> QED BY <4>1, <1>6, <1>7
      <3> QED BY <3>1, <3>2
    <2>3. input' = input
      BY <1>1
    <2> HIDE DEF p, new
    <2> QED BY <2>1, <2>2, <2>3, <1>7 DEF SessionAt
  <1>11. SessionsExact'
    <2> HIDE DEF p, new
    <2> SUFFICES ASSUME NEW t \in Slots, t # s PROVE SessionAt(t)'
      BY <1>10 DEF SessionsExact
    <2> QED BY <1>1, <1>9 DEF SessionsExact, SessionAt
  <1>12. report' = [report EXCEPT ![r] = input[r].sequence + 1]
    <2>1. sessions'[s].chunks = input[r].sequence + 1
      BY <1>5, <1>6, <1>9
    <2> QED BY <1>2, <2>1 DEF StoreChunk, ReportOf
  <1> QED BY <1>9, <1>11, <1>12

\* The outcome of a run is stored and counted, in two steps for a turn.
LEMMA StoreIInv ==
    ASSUME IInv, NEW r \in Requests, StoreStep(r)
    PROVE  IInv'
  <1> USE LabAssumption DEF IInv
  <1>1. /\ pc[r] \in {"executed", "counting"} /\ CoupledAt(r) /\ FreshAt(r)
        /\ UNCHANGED <<handler, input, result, previous, child, elapsed, laneVars>>
    BY DEF StoreStep, StoreState, CountStored, StoreChunk, CountLost, Coupled, Fresh
  <1>2. input[r] \in Inputs /\ input[r].kind \in {"turn", "chunk"} /\ input[r].slot \in Slots
    <2>1. input[r] \in Inputs
      BY <1>1, ArrivedInput
    <2>2. input[r].kind # "reset"
      BY <1>1 DEF CoupledAt, Waiting
    <2> QED BY <2>1, <2>2, InputFields
  <1>3. PICK stage \in {"counting", "padding"} :
            pc' = [pc EXCEPT ![r] = stage] /\ (stage = "counting" <=> StoreState(r))
    BY <1>1 DEF StoreStep, StoreState, CountStored, StoreChunk, CountLost, Moves, TypeOK
  <1>4. LaneExact' /\ QueueExact' /\ Shift(r, stage) /\ pc'[r] = stage
    <2>1. /\ pc[r] \in Holding /\ stage \in Holding /\ stage # "queued" /\ pc[r] # "queued"
          /\ UNCHANGED <<permits, queue>>
      BY <1>1 DEF Holding, Running, laneVars
    <2>2. LaneExact' /\ QueueExact' /\ Shift(r, stage)
      BY <1>3, <2>1, Stays
    <2> QED BY <2>2 DEF Shift
  <1>5. /\ report' \in [Requests -> Nat]
        /\ \A q \in Requests \ {r} : report'[q] = report[q]
        /\ stage = "padding" => ReportedAt(r)'
    <2>1. CASE StoreState(r) \/ CountStored(r)
      BY <1>1, <2>1 DEF TypeOK, StoreState, CountStored, ReportedAt, CoupledAt
    <2>2. CASE StoreChunk(r)
      <3>1. report' = [report EXCEPT ![r] = input[r].sequence + 1] /\ input[r].sequence \in Nat
        BY <1>2, <2>2, StoredSessions, InputFields DEF StoreChunk
      <3>2. report' \in [Requests -> Nat] /\ report'[r] = input[r].sequence + 1
        BY <3>1 DEF TypeOK
      <3>3. result'[r] = "complete"
        BY <2>2 DEF StoreChunk
      <3> QED BY <1>1, <3>1, <3>2, <3>3 DEF TypeOK, ReportedAt
    <2>3. CASE CountLost(r)
      <3> DEFINE v == IF input[r].kind = "chunk" THEN sessions[input[r].slot].chunks ELSE 0
      <3>1. report' = [report EXCEPT ![r] = v] /\ result[r] \in {"timed_out", "failed"}
        BY <2>3 DEF CountLost
      <3>2. v \in Nat
        BY <1>2 DEF TypeOK
      <3>3. input[r].kind = "chunk" => v = input[r].sequence
        <4>1. SessionAt(input[r].slot)
          BY <1>2 DEF SessionsExact
        <4>2. pc[r] = "executed"
          BY <2>3 DEF CountLost
        <4> QED BY <4>1, <4>2, <1>1 DEF SessionAt, FreshAt, Running
      <3> HIDE DEF v
      <3>4. report' \in [Requests -> Nat] /\ report'[r] = v
        BY <3>1, <3>2 DEF TypeOK
      <3> QED BY <1>1, <3>1, <3>3, <3>4 DEF TypeOK, ReportedAt
    <2> QED BY <2>1, <2>2, <2>3 DEF StoreStep
  <1>6. Local(r)
    BY <1>1, <1>5 DEF Local
  <1>7. /\ SessionsExact'
        /\ sessions' \in [Slots -> [accumulated : Bytes, next_sequence : Nat, chunks : Nat]]
    <2>1. CASE StoreChunk(r)
      BY <2>1, StoredSessions
    <2>2. CASE ~StoreChunk(r)
      <3>1. UNCHANGED sessions
        BY <2>2 DEF StoreStep, StoreState, CountStored, CountLost
      <3> QED BY <1>1, <3>1, SameSessions DEF TypeOK
    <2> QED BY <2>1, <2>2
  <1>8. states' \in [Slots -> Bytes]
    <2>1. CASE StoreState(r)
      <3>1. Output(r) \in Bytes
        BY <1>2, <2>1, OutputFits DEF StoreState
      <3> QED BY <2>1, <3>1 DEF StoreState, TypeOK
    <2>2. CASE ~StoreState(r)
      BY <2>2 DEF StoreStep, CountStored, StoreChunk, CountLost, TypeOK
    <2> QED BY <2>1, <2>2
  <1>9. /\ counters' \in [{"complete", "timed_out", "failed", "throttled"} -> Nat]
        /\ CountersExact'
    <2>1. \A what \in Outcomes : ~CountedAs(r, what)
      BY <1>1 DEF CountedAs
    <2>2. CASE StoreState(r)
      <3>1. \A what \in Outcomes : ~CountedAs(r, what)'
        BY <1>3, <1>4, <2>2 DEF CountedAs
      <3>2. UNCHANGED counters
        BY <2>2 DEF StoreState
      <3> QED BY <1>1, <1>4, <1>6, <2>1, <3>1, <3>2, SameCounters DEF TypeOK
    <2>3. CASE ~StoreState(r)
      <3>1. PICK o \in Outcomes :
                o = result[r] /\ counters' = [counters EXCEPT ![o] = @ + 1]
        BY <1>1, <2>3 DEF StoreStep, CountStored, StoreChunk, CountLost, Count, Tally,
                          CoupledAt, Outcomes
      <3>2. CountedAs(r, o)'
        BY <1>1, <1>2, <1>3, <1>4, <2>3, <3>1 DEF CountedAs
      <3>3. counters' \in [{"complete", "timed_out", "failed", "throttled"} -> Nat]
        BY <3>1 DEF TypeOK, Outcomes
      <3> QED BY <1>1, <1>4, <1>6, <2>1, <3>1, <3>2, <3>3, OneMoreCounted
    <2> QED BY <2>2, <2>3
  <1>10. TypeOK'
    <2>1. pc' \in [Requests -> Guarded \cup {"none", "done"}]
      BY <1>3 DEF TypeOK, Guarded, Holding, Running
    <2> QED BY <2>1, <1>1, <1>5, <1>7, <1>8, <1>9 DEF TypeOK, laneVars
  <1>11. Coupled'
    <2>1. CoupledAt(r)'
      <3>1. stage = "counting" => result[r] = "complete" /\ input[r].kind = "turn"
        BY <1>3 DEF StoreState
      <3>2. result[r] \in Outcomes
        BY <1>1 DEF CoupledAt, Outcomes
      <3> QED BY <1>1, <1>2, <1>4, <3>1, <3>2 DEF CoupledAt, AnswerOf, Waiting
    <2>2. ReportedAt(r)'
      BY <1>4, <1>5 DEF ReportedAt
    <2> QED BY <1>4, <1>6, <2>1, <2>2, OthersCoupled
  <1>12. PlacesExact'
    BY <1>1, <1>4, SamePlaces DEF laneVars, Guarded, Holding, Running
  <1>13. Fresh'
    <2>1. FreshAt(r)'
      BY <1>4 DEF FreshAt, Running
    <2>2. pc[r] \in Holding
      BY <1>1 DEF Holding, Running
    <2> QED BY <1>4, <1>6, <2>1, <2>2, OthersFresh
  <1> QED BY <1>4, <1>7, <1>9, <1>10, <1>11, <1>12, <1>13

\* A runner exits or dies.
LEMMA RunnerIInv ==
    ASSUME IInv, NEW r \in Requests, RunnerStep(r)
    PROVE  IInv'
  <1> USE DEF IInv
  <1>1. UNCHANGED <<handler, input, pc, result, report, previous, elapsed, laneVars, dataVars>>
    BY DEF RunnerStep, RunnerExits, RunnerDies
  <1>2. CoupledAt(r) /\ ReportedAt(r) /\ child \in [Requests ->
            {"none", "alive", "ok", "bad", "killed", "dead", "orphan"}]
    BY DEF Coupled, TypeOK
  <1>3. PICK c \in {"none", "ok", "bad", "dead"} :
            /\ child' = [child EXCEPT ![r] = c]
            /\ c \in {"ok", "bad"} => child[r] = "alive"
            /\ c = "dead" => child[r] = "killed"
    BY DEF RunnerStep, RunnerExits, RunnerDies
  <1>4. Shift(r, pc[r]) /\ Local(r) /\ child'[r] = c
    BY <1>1, <1>2, <1>3 DEF Shift, Local
  <1>5. TypeOK'
    BY <1>1, <1>2, <1>3 DEF TypeOK, laneVars, dataVars
  <1>6. Coupled'
    <2>1. CoupledAt(r)'
      BY <1>1, <1>2, <1>3, <1>4 DEF CoupledAt, AnswerOf
    <2>2. ReportedAt(r)'
      BY <1>1, <1>2 DEF ReportedAt
    <2> QED BY <1>4, <2>1, <2>2, OthersCoupled
  <1>7. LaneExact' /\ QueueExact' /\ PlacesExact'
    BY <1>1 DEF LaneExact, QueueExact, PlacesExact, Holders, Guards, laneVars
  <1>8. Fresh' /\ SessionsExact'
    BY <1>1, SameSessions DEF Fresh, FreshAt, dataVars
  <1>9. CountersExact'
    BY <1>1, <1>4, SameCounters DEF CountedAs, dataVars
  <1> QED BY <1>5, <1>6, <1>7, <1>8, <1>9

\* Time passes, or nothing happens.
LEMMA TimeIInv ==
    ASSUME IInv, Tick \/ UNCHANGED vars
    PROVE  IInv'
  <1> USE LabAssumption DEF IInv
  <1>1. UNCHANGED <<handler, input, pc, result, report, previous, child, laneVars, dataVars>>
    BY DEF Tick, vars, taskVars
  <1>2. elapsed' \in [Requests -> 0 .. LastTick]
    <2>1. CASE Tick
      <3>1. LastTick \in Nat
        BY DEF LastTick
      <3>2. \A r \in Requests : (IF r \in Timed THEN elapsed[r] + 1 ELSE elapsed[r]) \in 0 .. LastTick
        BY <3>1 DEF Timed, TypeOK
      <3> QED BY <2>1, <3>2 DEF Tick
    <2>2. CASE UNCHANGED vars
      BY <2>2 DEF vars, taskVars, TypeOK
    <2> QED BY <2>1, <2>2
  <1>3. TypeOK'
    BY <1>1, <1>2 DEF TypeOK, laneVars, dataVars
  <1>4. Coupled'
    BY <1>1 DEF Coupled, CoupledAt, ReportedAt, AnswerOf
  <1>5. LaneExact' /\ QueueExact' /\ PlacesExact'
    BY <1>1 DEF LaneExact, QueueExact, PlacesExact, Holders, Guards, laneVars
  <1>6. Fresh' /\ SessionsExact'
    BY <1>1, SameSessions DEF Fresh, FreshAt, dataVars
  <1>7. CountersExact'
    BY <1>1 DEF CountersExact, Counted, dataVars
  <1> QED BY <1>3, <1>4, <1>5, <1>6, <1>7

\* Every step preserves the inductive invariant.
LEMMA NextIInv ==
    ASSUME IInv, [Next]_vars
    PROVE  IInv'
  <1>1. CASE Tick \/ UNCHANGED vars
    BY <1>1, TimeIInv
  <1>2. CASE Quiet
    BY <1>2, TimeIInv DEF Quiet
  <1>3. ASSUME NEW r \in Requests, HandlerStep(r)
        PROVE  IInv'
    BY <1>3, ArrivalIInv, AnswerIInv, ResetIInv DEF HandlerStep
  <1>4. ASSUME NEW r \in Requests, TaskStep(r)
        PROVE  IInv'
    BY <1>4, AcquireIInv, ResetIInv, ReadIInv, ExecuteIInv, StoreIInv, LeaveIInv
       DEF TaskStep, ExecuteStep, StoreStep
  <1>5. ASSUME NEW r \in Requests, RunnerStep(r)
        PROVE  IInv'
    BY <1>5, RunnerIInv
  <1> QED BY <1>1, <1>2, <1>3, <1>4, <1>5 DEF Next

-----------------------------------------------------------------------------
(* Theorems *)

\* The inductive invariant holds in every reachable state, whatever the
\* callers, the runners and the clock do.
THEOREM Invariance == Spec => []IInv
  <1>1. IInv /\ [Next]_vars => IInv'
    BY NextIInv
  <1> QED BY InitIInv, <1>1, PTL DEF Spec

\* Every variable keeps its type: in particular at most MaxPending places are
\* taken, and no stored state exceeds STREAM_STATE_BYTES.
THEOREM TypeCorrect == Spec => []TypeOK
  <1>1. IInv => TypeOK
    BY DEF IInv
  <1> QED BY Invariance, <1>1, PTL

\* No place and no permit is lost or duplicated, and the queue is the waiters.
THEOREM AccountingCorrect == Spec => []Accounting
  <1>1. IInv => Accounting
    <2> SUFFICES ASSUME IInv PROVE Accounting
      OBVIOUS
    <2> USE DEF IInv
    <2>1. permits + Cardinality(Holders) = 1
      <3>1. CASE permits = 1 /\ Holders = {}
        BY <3>1, FS_EmptySet
      <3>2. CASE permits = 0 /\ \E r \in Requests : Holders = {r}
        <4>1. PICK r \in Requests : Holders = {r}
          BY <3>2
        <4>2. Cardinality(Holders) = 1
          BY <4>1, FS_Singleton
        <4> QED BY <3>2, <4>2
      <3> QED BY <3>1, <3>2 DEF LaneExact
    <2> QED BY <2>1 DEF Accounting, PlacesExact, QueueExact
  <1> QED BY Invariance, <1>1, PTL

\* The lane serializes: the runner of a task that has not given up on it is
\* the only one, from its spawn until it is reaped.
THEOREM RunnersSerialized == Spec => []SerializedRunners
  <1>1. IInv => SerializedRunners
    <2> SUFFICES ASSUME IInv, NEW r \in Requests, NEW q \in Requests,
                        child[r] \in {"alive", "ok", "bad", "killed", "dead"},
                        pc[q] \in Holding
                 PROVE  r = q /\ pc[r] \in {"writing", "reading", "reaping"}
      BY DEF SerializedRunners
    <2>1. pc[r] \in {"writing", "reading", "reaping"}
      BY DEF IInv, Coupled, CoupledAt
    <2>2. pc[r] \in Holding
      BY <2>1 DEF Holding, Running
    <2> QED BY <2>1, <2>2, OneHolder DEF IInv
  <1> QED BY Invariance, <1>1, PTL

\* Every session holds the chunks it was sent, each at the place of its
\* sequence number, and every answer reports its own chunk's place.
THEOREM SessionsCorrect == Spec => []SessionExact
  <1>1. IInv => SessionExact
    <2> SUFFICES ASSUME IInv PROVE SessionExact
      OBVIOUS
    <2> USE DEF IInv
    <2>1. ASSUME NEW r \in Requests, input[r] # NoInput, input[r].kind = "chunk"
          PROVE  /\ handler[r] = "complete" => report[r] = input[r].sequence + 1
                 /\ handler[r] \in {"timed_out", "failed"} => report[r] = input[r].sequence
      <3>1. CoupledAt(r) /\ ReportedAt(r)
        BY DEF Coupled
      <3>2. handler[r] \in Outcomes => pc[r] = "done" /\ handler[r] = result[r]
        BY <2>1, <3>1 DEF CoupledAt, AnswerOf, Answers, Outcomes, EarlyErrs
      <3> QED BY <2>1, <3>1, <3>2 DEF ReportedAt, Outcomes
    <2>2. ReportExact
      BY <2>1 DEF ReportExact
    <2>3. ASSUME NEW s \in Slots
          PROVE  SessionAt(s) /\ sessions[s].accumulated.len <= StateBytes
      BY LabAssumption DEF SessionsExact, TypeOK, Bytes
    <2> QED BY <2>2, <2>3 DEF SessionExact, SessionAt
  <1> QED BY Invariance, <1>1, PTL

\* What a task copied is still the state when it writes its result back.
THEOREM CopiesFresh == Spec => []CopyIsFresh
  <1>1. IInv => CopyIsFresh
    <2> SUFFICES ASSUME IInv, NEW r \in Requests, pc[r] \in Running \ {"counting"}
                 PROVE  previous[r] = IF input[r].kind = "turn"
                                        THEN states[input[r].slot]
                                        ELSE sessions[input[r].slot].accumulated
      BY DEF CopyIsFresh
    <2>1. CoupledAt(r) /\ FreshAt(r)
      BY DEF IInv, Coupled, Fresh
    <2>2. input[r] \in Inputs /\ input[r].kind # "reset"
      BY <2>1, ArrivedInput DEF IInv, CoupledAt, Running, Waiting
    <2>3. input[r].kind \in {"turn", "chunk"}
      BY <2>2, InputFields
    <2> QED BY <2>1, <2>3 DEF FreshAt
  <1> QED BY Invariance, <1>1, PTL

\* The outcome counters are exact at every moment.
THEOREM CountersCorrect == Spec => []CountersExact
  <1>1. IInv => CountersExact
    BY DEF IInv
  <1> QED BY Invariance, <1>1, PTL

-----------------------------------------------------------------------------
(* Refinement of StreamLog *)

LogOf    == [s \in Slots |-> sessions[s].accumulated]
MemoryOf == [s \in Slots |-> states[s].of]

\* A step that leaves the abstract state alone.
LEMMA Stutters ==
    ASSUME LogOf' = LogOf, MemoryOf' = MemoryOf, input' = input,
           \A q \in Requests : FateOf(q)' = FateOf(q) /\ ToldOf(q)' = ToldOf(q)
    PROVE  UNCHANGED Log!vars
  BY DEF Log!vars, LogOf, MemoryOf

\* A step of r keeps the fate of the others, and what they were told.
LEMMA OthersRefine ==
    ASSUME NEW r \in Requests, NEW stage, Shift(r, stage), Local(r)
    PROVE  \A q \in Requests \ {r} : FateOf(q)' = FateOf(q) /\ ToldOf(q)' = ToldOf(q)
  <1> SUFFICES ASSUME NEW q \in Requests, q # r
               PROVE  FateOf(q)' = FateOf(q) /\ ToldOf(q)' = ToldOf(q)
    OBVIOUS
  <1>1. handler'[q] = handler[q] /\ result'[q] = result[q]
    BY DEF Local
  <1>2. pc'[q] = "executed" <=> pc[q] = "executed"
    BY DEF Shift
  <1> QED BY <1>1, <1>2 DEF FateOf, ToldOf

\* What decides r's request: its fate is settled, nobody else is concerned.
LEMMA Decides ==
    ASSUME NEW r \in Requests, NEW stage, Shift(r, stage), Local(r), NEW f,
           FateOf(r) = "open", FateOf(r)' = f, ToldOf(r)' = ToldOf(r),
           input[r] # NoInput, input' = input
    PROVE  Log!Decide(r, f)
  <1>1. \A q \in Requests \ {r} : FateOf(q)' = FateOf(q) /\ ToldOf(q)' = ToldOf(q)
    BY OthersRefine
  <1>2. [q \in Requests |-> FateOf(q)]' = [[q \in Requests |-> FateOf(q)] EXCEPT ![r] = f]
    BY <1>1
  <1>3. [q \in Requests |-> ToldOf(q)]' = [q \in Requests |-> ToldOf(q)]
    BY <1>1
  <1> QED BY <1>2, <1>3 DEF Log!Decide

\* A request is given up for good, and leaves no trace.
LEMMA Drops ==
    ASSUME NEW r \in Requests, NEW stage, Shift(r, stage), Local(r),
           FateOf(r) = "open", FateOf(r)' = "dropped", ToldOf(r)' = ToldOf(r),
           input[r] # NoInput, input' = input, UNCHANGED <<sessions, states>>
    PROVE  [Log!Next]_Log!vars
  <1>1. Log!Decide(r, "dropped")
    BY Decides
  <1>2. Log!Drop(r)
    BY <1>1 DEF Log!Drop
  <1> QED BY <1>2 DEF Log!Next

\* A step of r that decides nothing.
LEMMA Silent ==
    ASSUME NEW r \in Requests, NEW stage, Shift(r, stage), Local(r),
           FateOf(r)' = FateOf(r), ToldOf(r)' = ToldOf(r),
           input' = input, UNCHANGED <<sessions, states>>
    PROVE  [Log!Next]_Log!vars
  <1>1. \A q \in Requests : FateOf(q)' = FateOf(q) /\ ToldOf(q)' = ToldOf(q)
    BY OthersRefine
  <1> QED BY <1>1, Stutters DEF LogOf, MemoryOf

\* The lab starts where its promise starts.
LEMMA InitRefines == Init => Log!Init
  <1> SUFFICES ASSUME Init PROVE Log!Init
    OBVIOUS
  <1>1. [s \in Slots |-> sessions[s].accumulated] = [s \in Slots |-> NoBytes]
    BY DEF Init, EmptySession
  <1>2. [s \in Slots |-> states[s].of] = [s \in Slots |-> << >>]
    BY DEF Init, NoBytes
  <1>3. \A r \in Requests : FateOf(r) = "open" /\ ToldOf(r) = "nothing"
    BY DEF Init, FateOf, ToldOf
  <1> QED BY <1>1, <1>2, <1>3 DEF Init, Log!Init, Log!Empty, NoBytes, Log!Slots, Slots

\* A request arrives or is dropped on arrival.
LEMMA ArrivalRefines ==
    ASSUME IInv, NEW r \in Requests, Arrival(r)
    PROVE  [Log!Next]_Log!vars
  <1> USE DEF IInv
  <1>1. handler[r] = "idle"
    BY DEF Arrival, Refuse, Throttle, Admit, ArriveReset
  <1>2. pc[r] = "none" /\ input[r] = NoInput /\ result[r] = "none"
    BY <1>1 DEF Coupled, CoupledAt
  <1>3. FateOf(r) = "open"
    BY <1>2 DEF FateOf
  <1>4. UNCHANGED <<sessions, states>>
    BY DEF Arrival, Refuse, Throttle, Admit, ArriveReset, dataVars
  <1>5. CASE Refuse(r) \/ Throttle(r)
    <2>1. PICK a \in {"refused", "throttled"} :
              /\ handler' = [handler EXCEPT ![r] = a]
              /\ result' = [result EXCEPT ![r] = a]
              /\ UNCHANGED <<input, pc, report, previous, child>>
      BY <1>5 DEF Refuse, Throttle
    <2>2. handler'[r] = a /\ result'[r] = a /\ Shift(r, "none") /\ Local(r)
      BY <1>2, <2>1 DEF TypeOK, Shift, Local
    <2>3. FateOf(r)' = "dropped" /\ ToldOf(r)' = "dropped"
      BY <2>2 DEF FateOf, ToldOf
    <2>4. \A q \in Requests \ {r} : FateOf(q)' = FateOf(q) /\ ToldOf(q)' = ToldOf(q)
      BY <2>2, OthersRefine
    <2>5. [q \in Requests |-> FateOf(q)]' = [[q \in Requests |-> FateOf(q)] EXCEPT ![r] = "dropped"]
      BY <2>3, <2>4
    <2>6. [q \in Requests |-> ToldOf(q)]' = [[q \in Requests |-> ToldOf(q)] EXCEPT ![r] = "dropped"]
      BY <2>3, <2>4
    <2>7. Log!Refuse(r)
      BY <1>2, <1>3, <1>4, <2>1, <2>5, <2>6 DEF Log!Refuse
    <2> QED BY <2>7 DEF Log!Next
  <1>6. ASSUME NEW i \in Inputs, Admit(r, i) \/ ArriveReset(r, i)
        PROVE  [Log!Next]_Log!vars
    <2>1. /\ handler' = [handler EXCEPT ![r] = "awaiting"]
          /\ input' = [input EXCEPT ![r] = i]
          /\ pc' = [pc EXCEPT ![r] = "spawned"]
          /\ UNCHANGED <<result, report, previous, child>>
      BY <1>6 DEF Admit, ArriveReset, Moves
    <2>2. /\ handler'[r] = "awaiting" /\ input'[r] = i /\ i # NoInput
          /\ Shift(r, "spawned") /\ Local(r)
      BY <2>1, InputFields DEF TypeOK, Shift, Local
    <2>3. FateOf(r)' = FateOf(r) /\ ToldOf(r)' = ToldOf(r)
      BY <1>1, <1>2, <2>1, <2>2 DEF FateOf, ToldOf
    <2>4. \A q \in Requests : FateOf(q)' = FateOf(q) /\ ToldOf(q)' = ToldOf(q)
      BY <2>2, <2>3, OthersRefine
    <2>5. Log!Arrive(r)
      <3>1. \A q \in Requests \ {r} : input'[q] = input[q]
        BY <2>2 DEF Local
      <3> QED BY <1>2, <1>3, <1>4, <2>2, <2>4, <3>1 DEF Log!Arrive
    <2> QED BY <2>5 DEF Log!Next
  <1> QED BY <1>5, <1>6 DEF Arrival

\* A caller is told what became of its request, or goes away.
LEMMA AnswerRefines ==
    ASSUME IInv, NEW r \in Requests, Respond(r) \/ Disconnect(r)
    PROVE  [Log!Next]_Log!vars
  <1> USE DEF IInv
  <1>1. /\ handler[r] = "awaiting" /\ pc[r] # "none" /\ CoupledAt(r)
        /\ UNCHANGED <<input, pc, result, report, previous, child, dataVars>>
    BY DEF Coupled, CoupledAt, Respond, Disconnect
  <1>2. PICK a : handler' = [handler EXCEPT ![r] = a]
    BY DEF Respond, Disconnect
  <1>3. Shift(r, pc[r]) /\ Local(r) /\ handler'[r] = a
    BY <1>1, <1>2 DEF Shift, Local, TypeOK
  <1>4. \A q \in Requests \ {r} : FateOf(q)' = FateOf(q) /\ ToldOf(q)' = ToldOf(q)
    BY <1>3, OthersRefine
  <1>5. FateOf(r)' = FateOf(r) /\ ToldOf(r) = "nothing"
    BY <1>1 DEF FateOf, ToldOf
  <1>6. CASE Disconnect(r)
    <2>1. ToldOf(r)' = "nothing"
      BY <1>6, <1>3 DEF Disconnect, ToldOf, TypeOK
    <2> QED BY <2>1, <1>1, <1>4, <1>5, Stutters DEF LogOf, MemoryOf, dataVars
  <1>7. CASE Respond(r)
    <2>1. handler'[r] = AnswerOf(r) /\ pc[r] = "done" /\ input[r] \in Inputs
      BY <1>1, <1>7, ArrivedInput DEF Respond, TypeOK
    <2>2. input[r].kind \in {"turn", "chunk", "reset"}
      BY <2>1, InputFields
    <2>3. /\ result[r] \in Outcomes \cup EarlyErrs
          /\ FateOf(r) = IF result[r] = "complete" THEN "applied" ELSE "dropped"
      BY <1>1, <2>1 DEF CoupledAt, FateOf, Outcomes, EarlyErrs
    <2>4. ToldOf(r)' = IF input[r].kind = "turn" THEN "over" ELSE FateOf(r)
      BY <2>1, <2>2, <2>3 DEF ToldOf, AnswerOf, Outcomes, EarlyErrs
    <2>5. [q \in Requests |-> ToldOf(q)]' =
              [[q \in Requests |-> ToldOf(q)] EXCEPT
                  ![r] = IF input[r].kind = "turn" THEN "over" ELSE FateOf(r)]
      BY <1>4, <2>4
    <2>6. [q \in Requests |-> FateOf(q)]' = [q \in Requests |-> FateOf(q)]
      BY <1>4, <1>5
    <2>7. Log!Tell(r)
      BY <1>1, <1>5, <2>3, <2>5, <2>6 DEF Log!Tell, dataVars
    <2> QED BY <2>7 DEF Log!Next
  <1> QED BY <1>6, <1>7

\* A reset takes effect when it clears its sessions, or is dropped.
LEMMA ResetRefines ==
    ASSUME IInv, NEW r \in Requests, CancelReset(r) \/ ClearSessions(r)
    PROVE  [Log!Next]_Log!vars
  <1> USE DEF IInv
  <1>1. pc[r] \in Waiting
    BY DEF CancelReset, ClearSessions, Waiting
  <1>2. /\ CoupledAt(r) /\ result[r] = "none" /\ input[r] # NoInput /\ input[r].kind = "reset"
        /\ handler[r] \in {"awaiting", "gone"}
    <2>1. CoupledAt(r) /\ input[r] # NoInput
      BY <1>1, ArrivedInput DEF Waiting, Coupled
    <2>2. handler[r] \in {"awaiting", "gone"}
      BY <1>1, <2>1 DEF CoupledAt, Waiting, TypeOK, Answers
    <2> QED BY <1>1, <2>1, <2>2 DEF CancelReset, ClearSessions, CoupledAt
  <1>3. FateOf(r) = "open" /\ ToldOf(r) = "nothing"
    BY <1>2 DEF FateOf, ToldOf
  <1>4. Shift(r, "done")
    <2>1. CASE pc[r] = "granted" /\ HandOver(r, "done")
      BY <2>1, HandsOver DEF Holding
    <2>2. CASE pc[r] = "queued" /\ Unlink(r) /\ Moves(r, "done") /\ UNCHANGED permits
      BY <2>2, Unlinks DEF Moves
    <2>3. CASE pc[r] = "spawned" /\ Moves(r, "done") /\ UNCHANGED <<permits, queue>>
      BY <2>3, Stays DEF Moves, Holding, Running
    <2> QED BY <2>1, <2>2, <2>3 DEF CancelReset, ClearSessions
  <1>5. pc'[r] = "done"
    BY <1>4 DEF Shift
  <1>6. CASE CancelReset(r)
    <2>1. /\ UNCHANGED <<input, report, previous, child, sessions, states>>
          /\ result' = [result EXCEPT ![r] = "cancelled"]
          /\ handler' = [handler EXCEPT ![r] = "gone"]
      BY <1>6 DEF CancelReset, dataVars
    <2>2. result'[r] = "cancelled" /\ handler'[r] = "gone" /\ Local(r)
      BY <2>1 DEF TypeOK, Local
    <2>3. FateOf(r)' = "dropped" /\ ToldOf(r)' = "nothing"
      BY <2>2 DEF FateOf, ToldOf
    <2> QED BY <1>2, <1>3, <1>4, <2>1, <2>2, <2>3, Drops
  <1>7. CASE ClearSessions(r)
    <2>1. /\ UNCHANGED <<handler, input, report, previous, child, states>>
          /\ result' = [result EXCEPT ![r] = "complete"]
          /\ sessions' = [s \in Slots |->
                 IF Cleared(s, input[r].count) THEN EmptySession ELSE sessions[s]]
      BY <1>7 DEF ClearSessions
    <2>2. result'[r] = "complete" /\ Local(r)
      BY <2>1 DEF TypeOK, Local
    <2>3. FateOf(r)' = "applied" /\ ToldOf(r)' = ToldOf(r)
      BY <1>5, <2>1, <2>2 DEF FateOf, ToldOf
    <2>4. Log!Decide(r, "applied")
      BY <1>2, <1>3, <1>4, <2>1, <2>2, <2>3, Decides
    <2>5. [s \in Slots |-> sessions[s].accumulated]' =
              [s \in Slots |-> IF s < input[r].count THEN Log!Empty
                               ELSE [t \in Slots |-> sessions[t].accumulated][s]]
      BY <2>1 DEF Cleared, EmptySession, NoBytes, Log!Empty
    <2>6. Log!ResetLogs(r)
      BY <1>2, <2>1, <2>4, <2>5 DEF Log!ResetLogs, Log!Slots, Slots
    <2> QED BY <2>6 DEF Log!Next
  <1> QED BY <1>6, <1>7

\* A runner's outcome drops the request or leaves it open.
LEMMA RunRefines ==
    ASSUME IInv, NEW r \in Requests, ReadPrevious(r) \/ ExecuteStep(r)
    PROVE  [Log!Next]_Log!vars
  <1> USE DEF IInv, ExecuteStep, ReadPrevious, Spawn, SpawnFails, Written, CutOff, Reap, Complete,
             ReadFails, Moves
  <1>1. /\ pc[r] \in {"granted", "starting", "writing", "reading", "reaping"}
        /\ UNCHANGED <<handler, input, report, laneVars, dataVars>>
    OBVIOUS
  <1>2. \E stage \in {"starting", "leaving", "writing", "reading", "reaping", "executed"} :
            pc' = [pc EXCEPT ![r] = stage]
    OBVIOUS
  <1>3. /\ UNCHANGED result \/ \E v : result' = [result EXCEPT ![r] = v]
        /\ UNCHANGED child \/ \E c : child' = [child EXCEPT ![r] = c]
        /\ UNCHANGED previous \/ \E p : previous' = [previous EXCEPT ![r] = p]
    OBVIOUS
  <1>4. result'[r] = "complete" => pc'[r] = "executed"
    <2>1. result[r] = "none"
      BY <1>1 DEF Coupled, CoupledAt, Waiting
    <2> QED BY <2>1 DEF TypeOK, Verdict
  <1> HIDE DEF ExecuteStep, ReadPrevious, Spawn, SpawnFails, Written, CutOff, Reap, Complete,
             ReadFails
  <1>5. PICK stage \in {"starting", "leaving", "writing", "reading", "reaping", "executed"} :
            pc' = [pc EXCEPT ![r] = stage]
    BY <1>2
  <1>6. Shift(r, stage) /\ Local(r)
    BY <1>1, <1>3, <1>5 DEF Shift, Local, TypeOK
  <1>7. result[r] = "none" /\ input[r] # NoInput
    BY <1>1, ArrivedInput DEF Coupled, CoupledAt, Waiting
  <1>8. FateOf(r) = "open" /\ ToldOf(r)' = ToldOf(r) /\ FateOf(r)' \in {"open", "dropped"}
    <2>1. FateOf(r) = "open"
      BY <1>7 DEF FateOf
    <2>2. ToldOf(r)' = ToldOf(r)
      BY <1>1 DEF ToldOf
    <2>3. FateOf(r)' \in {"open", "dropped"}
      <3>1. CASE result'[r] = "complete"
        BY <1>4, <3>1 DEF FateOf
      <3>2. CASE result'[r] # "complete"
        BY <3>2 DEF FateOf
      <3> QED BY <3>1, <3>2
    <2> QED BY <2>1, <2>2, <2>3
  <1>9. input' = input /\ UNCHANGED <<sessions, states>>
    BY <1>1 DEF dataVars
  <1>10. CASE FateOf(r)' = "open"
    BY <1>6, <1>8, <1>9, <1>10, Silent
  <1>11. CASE FateOf(r)' = "dropped"
    BY <1>6, <1>7, <1>8, <1>9, <1>11, Drops
  <1> QED BY <1>8, <1>10, <1>11

\* A turn or a chunk takes effect in the step that stores its result: because
\* the copy is fresh, as if it had been checked and run in that step.
LEMMA StoreRefines ==
    ASSUME IInv, NEW r \in Requests, StoreStep(r)
    PROVE  [Log!Next]_Log!vars
  <1> USE DEF IInv
  <1>1. /\ pc[r] \in {"executed", "counting"} /\ CoupledAt(r) /\ FreshAt(r)
        /\ UNCHANGED <<handler, input, result, previous, child, elapsed, laneVars>>
    BY DEF StoreStep, StoreState, CountStored, StoreChunk, CountLost, Coupled, Fresh
  <1>2. input[r] \in Inputs /\ input[r] # NoInput
    BY <1>1, ArrivedInput
  <1>3. PICK stage \in {"counting", "padding"} : pc' = [pc EXCEPT ![r] = stage]
    BY DEF StoreStep, StoreState, CountStored, StoreChunk, CountLost, Moves
  <1>4. \/ UNCHANGED report
        \/ \E v : report' = [report EXCEPT ![r] = v]
    BY DEF StoreStep, StoreState, CountStored, StoreChunk, CountLost
  <1>5. Shift(r, stage) /\ Local(r) /\ pc'[r] = stage
    BY <1>1, <1>3, <1>4 DEF Shift, Local, TypeOK
  <1>6. ToldOf(r)' = ToldOf(r)
    BY <1>1 DEF ToldOf
  <1>7. CASE CountStored(r) \/ CountLost(r)
    <2>1. UNCHANGED <<sessions, states>>
      BY <1>7 DEF CountStored, CountLost
    <2>2. pc[r] = "executed" => result[r] \in {"timed_out", "failed"}
      BY <1>7 DEF CountStored, CountLost
    <2>3. FateOf(r)' = FateOf(r)
      BY <1>1, <1>5, <2>2 DEF FateOf
    <2> QED BY <1>1, <1>5, <1>6, <2>1, <2>3, Silent
  <1>8. CASE StoreState(r) \/ StoreChunk(r)
    <2>1. pc[r] = "executed" /\ result[r] = "complete" /\ result'[r] = "complete"
      BY <1>1, <1>8 DEF StoreState, StoreChunk
    <2>2. FateOf(r) = "open" /\ FateOf(r)' = "applied"
      <3>1. FateOf(r) = "open"
        BY <2>1 DEF FateOf
      <3>2. FateOf(r)' = "applied"
        BY <1>5, <2>1 DEF FateOf
      <3> QED BY <3>1, <3>2
    <2>3. Log!Decide(r, "applied")
      BY <1>1, <1>2, <1>5, <1>6, <2>2, Decides
    <2>4. PICK s \in Slots : s = input[r].slot
      BY <1>2, <1>8, InputFields DEF StoreState, StoreChunk
    <2>5. CASE StoreState(r)
      <3>1. /\ input[r].kind = "turn" /\ UNCHANGED sessions
            /\ states' = [states EXCEPT ![s] = Output(r)]
        BY <2>4, <2>5 DEF StoreState
      <3>2. Output(r).of = Append(states[s].of, r)
        BY <1>1, <2>1, <2>4, <3>1 DEF FreshAt, Running, Output
      <3>3. [t \in Slots |-> states[t].of]' =
                [[t \in Slots |-> states[t].of] EXCEPT ![s] = Append(@, r)]
        BY <3>1, <3>2 DEF TypeOK
      <3>4. Log!ApplyTurn(r)
        BY <2>3, <2>4, <3>1, <3>3 DEF Log!ApplyTurn
      <3> QED BY <3>4 DEF Log!Next
    <2>6. CASE StoreChunk(r)
      <3> DEFINE a == sessions[s].accumulated
      <3>1. /\ input[r].kind = "chunk" /\ UNCHANGED states
            /\ sessions' = [sessions EXCEPT ![s] =
                   [accumulated   |-> Output(r),
                    next_sequence |-> @.next_sequence + 1,
                    chunks        |-> @.chunks + 1]]
        BY <2>4, <2>6 DEF StoreChunk
      <3>2. /\ previous[r] = a
            /\ input[r].sequence = sessions[s].next_sequence
            /\ a.len + input[r].bytes <= StateBytes
        BY <1>1, <2>1, <2>4, <3>1 DEF FreshAt, Running
      <3>3. Output(r) = [of |-> Append(a.of, r), len |-> a.len + input[r].bytes]
        BY <3>1, <3>2 DEF Output
      <3>4. input[r].sequence = Len(a.of)
        BY <3>2 DEF SessionsExact, SessionAt
      <3>5. sessions'[s].accumulated = Output(r) /\ \A t \in Slots \ {s} : sessions'[t] = sessions[t]
        BY <3>1 DEF TypeOK
      <3>6. [t \in Slots |-> sessions[t].accumulated]' =
                [[t \in Slots |-> sessions[t].accumulated] EXCEPT
                    ![s] = [of |-> Append(@.of, r), len |-> @.len + input[r].bytes]]
        BY <3>3, <3>5
      <3>7. Log!AppendChunk(r)
        BY <2>3, <2>4, <3>1, <3>2, <3>4, <3>6 DEF Log!AppendChunk
      <3> QED BY <3>7 DEF Log!Next
    <2> QED BY <1>8, <2>5, <2>6
  <1> QED BY <1>7, <1>8 DEF StoreStep

\* Taking and leaving the lane decides nothing.
LEMMA LaneRefines ==
    ASSUME IInv, NEW r \in Requests,
           Acquire(r) \/ Enqueue(r) \/ ReleaseLane(r) \/ DropPending(r)
    PROVE  [Log!Next]_Log!vars
  <1> USE DEF IInv
  <1>1. UNCHANGED <<handler, input, result, report, child, dataVars>>
    BY DEF Acquire, Enqueue, ReleaseLane, DropPending
  <1>2. PICK stage \in {"granted", "queued", "released", "done"} : Shift(r, stage)
    <2>1. CASE ReleaseLane(r)
      BY <2>1, HandsOver DEF ReleaseLane, Holding
    <2>2. CASE ~ReleaseLane(r)
      BY <2>2 DEF Acquire, Enqueue, DropPending, Moves, TypeOK, Shift
    <2> QED BY <2>1, <2>2
  <1>3. Local(r)
    BY <1>1 DEF Acquire, Enqueue, ReleaseLane, DropPending, TypeOK, Local
  <1>4. pc[r] # "executed" /\ pc'[r] # "executed"
    BY <1>2 DEF Acquire, Enqueue, ReleaseLane, DropPending, Shift
  <1>5. FateOf(r)' = FateOf(r)
    BY <1>1, <1>4 DEF FateOf
  <1>6. ToldOf(r)' = ToldOf(r)
    BY <1>1 DEF ToldOf
  <1> QED BY <1>1, <1>2, <1>3, <1>5, <1>6, Silent DEF dataVars

\* Every step of the lab is a step of its promise, or stutters.
LEMMA NextRefines ==
    ASSUME IInv, [Next]_vars
    PROVE  [Log!Next]_Log!vars
  <1>1. CASE UNCHANGED <<handler, input, pc, result, sessions, states>>
    <2>1. \A q \in Requests : FateOf(q)' = FateOf(q) /\ ToldOf(q)' = ToldOf(q)
      BY <1>1 DEF FateOf, ToldOf
    <2> QED BY <1>1, <2>1, Stutters DEF LogOf, MemoryOf
  <1>2. CASE Tick \/ Quiet \/ UNCHANGED vars
    BY <1>1, <1>2 DEF Tick, Quiet, vars, taskVars, dataVars
  <1>3. ASSUME NEW r \in Requests, RunnerStep(r)
        PROVE  [Log!Next]_Log!vars
    BY <1>1, <1>3 DEF RunnerStep, RunnerExits, RunnerDies, dataVars
  <1>4. ASSUME NEW r \in Requests, HandlerStep(r)
        PROVE  [Log!Next]_Log!vars
    BY <1>4, ArrivalRefines, AnswerRefines, ResetRefines DEF HandlerStep
  <1>5. ASSUME NEW r \in Requests, TaskStep(r)
        PROVE  [Log!Next]_Log!vars
    BY <1>5, LaneRefines, ResetRefines, RunRefines, StoreRefines
       DEF TaskStep, ExecuteStep, StoreStep
  <1> QED BY <1>2, <1>3, <1>4, <1>5 DEF Next

\* The lab keeps its promise: although a task checks and copies a session, runs
\* a process and stores much later, every chunk, turn and reset takes effect
\* in one step, at most once, on the state as it then is, and a caller of a
\* chunk or of a reset is told exactly what happened.
THEOREM Refinement == Spec => ImplementsLog
  <1>1. IInv /\ [Next]_vars => [Log!Next]_Log!vars
    BY NextRefines
  <1> QED BY Invariance, InitRefines, <1>1, PTL DEF Spec, ImplementsLog, Log!Spec
=============================================================================

------------------------- MODULE StreamBenchProofs --------------------------
(***************************************************************************)
(* Machine-checked proofs about StreamBench, for any scenarios, any number *)
(* of sessions and any sizes of chunks and states.                         *)
(***************************************************************************)
EXTENDS StreamBench, CountingProofs, SequenceTheorems

Chunks == [text : Nat, upper : BOOLEAN]
Kinds  == {"client_backpressure", "server_throttled", "complete", "timed_out", "failed"}

Runs == [pc : {"none", "loop", "sent", "ended", "error"}, todo : Seq(Nat),
         next_sequence : Nat, available_at : Nat, expected : Seq(Chunks),
         records : Seq(Kinds), completed : Nat, server_throttled : Nat,
         client_backpressured : Nat, failed : Nat]

\* How many of the records are of a kind in S.
Recorded(records, S) == Cardinality({k \in DOMAIN records : records[k] \in S})

BenchTypeOK ==
    /\ scenario \in 1 .. Len(Scenarios)
    /\ stage \in {"reset", "running", "verify", "done", "failed"}
    /\ now \in Nat
    /\ run \in [Slots -> Runs]
    /\ request \in [Slots -> {"none", "sent", "throttled", "complete", "timed_out", "failed",
                              "conflict", "state_full", "broken"}]
    /\ log \in [Slots -> Seq(Chunks)]
    /\ reports \in Seq({reports[k] : k \in DOMAIN reports})
    /\ lost \in BOOLEAN

\* The task, its request and the server's session agree: the session holds
\* what the task expects, but for a chunk whose answer is on its way, as long
\* as the connection stands.
Agrees(s) ==
    /\ run[s].pc = "none" => run[s] = NoRun /\ request[s] = "none"
    /\ run[s].pc \in {"loop", "ended"} => request[s] = "none" /\ log[s] = run[s].expected
    /\ run[s].pc = "sent" =>
          /\ run[s].todo # << >>
          /\ request[s] \notin {"none", "conflict", "state_full"}
          /\ request[s] \in {"sent", "throttled", "timed_out", "failed"} =>
                 log[s] = run[s].expected
          /\ request[s] = "complete" =>
                 log[s] = Append(run[s].expected, Uppercase(LoremChunk(run[s].next_sequence)))
    /\ run[s].pc = "ended" => run[s].todo = << >>
    /\ run[s].pc = "error" => request[s] = "none" /\ lost
    /\ request[s] = "broken" => lost

\* The task counts what it has seen, has room for what it still has to send,
\* and has every chunk it was to send either before or behind it.
CountsFor(r, offered) ==
    /\ r.next_sequence = Len(r.expected)
    /\ Recorded(r.records, {"complete"}) = Len(r.expected)
    /\ r.completed = Len(r.expected)
    /\ Recorded(r.records, Kinds \ {"client_backpressure"})
          = r.completed + r.server_throttled + r.failed
    /\ r.pc # "none" =>
          /\ Len(r.expected) + Len(r.todo) <= MaxChunksPerSession
          /\ Len(r.todo) + Recorded(r.records, Kinds \ {"client_backpressure"})
                + r.client_backpressured = offered

CountsExact(s) == CountsFor(run[s], Len(Offered(s)))

\* Which sessions have tasks.
StageExact ==
    /\ stage \in {"reset", "done"} => \A s \in Slots : run[s].pc = "none"
    /\ stage \in {"running", "verify"} =>
          \A s \in Slots : s \in Active <=> run[s].pc # "none"
    /\ stage = "verify" => \A s \in Active : run[s].pc = "ended"
    /\ stage = "failed" => lost

\* The inductive invariant.
IInv ==
    /\ BenchTypeOK
    /\ \A s \in Slots : Agrees(s) /\ CountsExact(s)
    /\ StageExact
    /\ Verified

-----------------------------------------------------------------------------
(* The operators *)

\* A record more is counted where it belongs.
LEMMA RecordedAppend ==
    ASSUME NEW q \in Seq(Kinds), NEW x \in Kinds, NEW S
    PROVE  /\ Recorded(q, S) \in Nat
           /\ Recorded(Append(q, x), S) = Recorded(q, S) + (IF x \in S THEN 1 ELSE 0)
  <1> DEFINE A == {k \in DOMAIN q : q[k] \in S}
             B == {k \in DOMAIN Append(q, x) : Append(q, x)[k] \in S}
             n == Len(q) + 1
  <1>1. /\ DOMAIN q = 1 .. Len(q) /\ Len(q) \in Nat
        /\ DOMAIN Append(q, x) = 1 .. n
        /\ Append(q, x)[n] = x /\ \A k \in 1 .. Len(q) : Append(q, x)[k] = q[k]
    <2> DEFINE T == Kinds
    <2> HIDE DEF T
    <2>1. q \in Seq(T) /\ x \in T
      BY DEF T
    <2>2. Append(q, x) \in Seq(T) /\ Len(Append(q, x)) = n
      BY <2>1
    <2>3. DOMAIN q = 1 .. Len(q) /\ Len(q) \in Nat /\ DOMAIN Append(q, x) = 1 .. n
      BY <2>1, <2>2
    <2>4. Append(q, x)[n] = x /\ \A k \in 1 .. Len(q) : Append(q, x)[k] = q[k]
      BY <2>1
    <2> QED BY <2>3, <2>4
  <1>2. IsFiniteSet(A)
    <2>1. IsFiniteSet(1 .. Len(q))
      BY <1>1, FS_Interval
    <2>2. A \subseteq 1 .. Len(q)
      BY <1>1
    <2> QED BY <2>1, <2>2, FS_Subset
  <1>3. Cardinality(A) \in Nat
    BY <1>2, FS_CardinalityType
  <1>4. Recorded(q, S) = Cardinality(A) /\ Recorded(Append(q, x), S) = Cardinality(B)
    BY DEF Recorded
  <1>5. CASE x \in S
    <2>1. B = A \cup {n} /\ n \notin A
      BY <1>1, <1>5
    <2>2. Cardinality(B) = Cardinality(A) + 1
      BY <1>2, <2>1, FS_AddElement
    <2> HIDE DEF A, B
    <2> QED BY <1>3, <1>4, <1>5, <2>2
  <1>6. CASE x \notin S
    <2>1. B = A
      BY <1>1, <1>6
    <2> HIDE DEF A, B
    <2> QED BY <1>3, <1>4, <1>6, <2>1
  <1> QED BY <1>5, <1>6

\* Nothing is recorded at first.
LEMMA RecordedNothing ==
    ASSUME NEW S
    PROVE  Recorded(<< >>, S) = 0
  <1>1. {k \in DOMAIN << >> : << >>[k] \in S} = {}
    OBVIOUS
  <1> QED BY <1>1, FS_EmptySet DEF Recorded

\* The scenario in force.
LEMMA ScenarioShape ==
    ASSUME IInv
    PROVE  /\ Current.sessions \in Nat \ {0} /\ Current.sessions <= SessionSlots
           /\ Current.offered \in Nat \ {0}
           /\ Active \subseteq Slots
           /\ \A s \in Slots : s \in Active <=> s < Current.sessions
  <1> DEFINE T == [sessions : 1 .. SessionSlots, offered : Nat \ {0}]
  <1>1. Current \in T
    <2> HIDE DEF T
    <2>1. Scenarios \in Seq(T)
      BY BenchAssumption DEF T
    <2>2. Scenarios[scenario] \in T
      BY <2>1 DEF IInv, BenchTypeOK
    <2> QED BY <2>2 DEF Current
  <1>2. SessionSlots \in Nat
    BY BenchAssumption
  <1> QED BY <1>1, <1>2 DEF Active, Slots

\* The chunks that a session is offered and those that it has room for.
LEMMA IndicesShape ==
    ASSUME IInv, NEW s \in Active
    PROVE  /\ Indices(s) \in Seq(Nat)
           /\ Len(Offered(s)) \in Nat
           /\ Len(Indices(s)) <= MaxChunksPerSession
           /\ OmittedForCapacity(s) \in Nat
           /\ Len(Indices(s)) + OmittedForCapacity(s) = Len(Offered(s))
  <1> DEFINE n == IF s < Current.offered
                    THEN 1 + (Current.offered - s - 1) \div Current.sessions ELSE 0
  <1>1. s \in Nat /\ Current.sessions \in Nat \ {0} /\ Current.offered \in Nat \ {0}
    BY ScenarioShape DEF Active
  <1>2. n \in Nat
    <2>1. CASE s < Current.offered
      <3>1. Current.offered - s - 1 \in Nat
        BY <1>1, <2>1
      <3>2. (Current.offered - s - 1) \div Current.sessions \in Nat
        BY <1>1, <3>1
      <3> QED BY <3>2
    <2>2. CASE ~(s < Current.offered)
      BY <2>2
    <2> QED BY <2>1, <2>2
  <1> HIDE DEF n
  <1>3. /\ Offered(s) = [k \in 1 .. n |-> s + (k - 1) * Current.sessions]
    BY DEF Offered, n
  <1>4. ASSUME NEW k \in 1 .. n
        PROVE  s + (k - 1) * Current.sessions \in Nat
    <2>1. k - 1 \in Nat
      BY <1>2
    <2>2. (k - 1) * Current.sessions \in Nat
      BY <1>1, <2>1
    <2> QED BY <1>1, <2>2
  <1>5. Offered(s) \in [1 .. n -> Nat]
    BY <1>3, <1>4
  <1>6. Len(Offered(s)) = n /\ \A k \in 1 .. n : Offered(s)[k] \in Nat
    <2>1. Offered(s) \in UNION {[1 .. m -> Nat] : m \in Nat}
      BY <1>2, <1>5
    <2>2. Offered(s) \in Seq(Nat)
      BY <2>1, SeqDef, Zenon
    <2>3. DOMAIN Offered(s) = 1 .. Len(Offered(s)) /\ Len(Offered(s)) \in Nat
      BY <2>2
    <2>4. DOMAIN Offered(s) = 1 .. n
      BY <1>5
    <2> QED BY <1>2, <1>5, <2>3, <2>4
  <1>7. MaxChunksPerSession \in Nat
    BY BenchAssumption DEF MaxChunksPerSession
  <1> DEFINE m == Min({n, MaxChunksPerSession})
  <1>8. m \in Nat /\ m <= n /\ m <= MaxChunksPerSession
    <2> DEFINE M == {n, MaxChunksPerSession}
    <2>1. \E x \in M : \A y \in M : x <= y
      BY <1>2, <1>7
    <2>2. m \in M /\ \A y \in M : m <= y
      BY <2>1 DEF Min
    <2> QED BY <1>2, <1>7, <2>2
  <1> HIDE DEF m
  <1>9. Indices(s) = SubSeq(Offered(s), 1, m)
    BY <1>6 DEF Indices, m
  <1>10. Indices(s) \in Seq(Nat) /\ Len(Indices(s)) = m
    <2>1. \A k \in 1 .. m : Offered(s)[k] \in Nat
      BY <1>2, <1>6, <1>8
    <2>2. /\ SubSeq(Offered(s), 1, m) \in Seq(Nat)
          /\ Len(SubSeq(Offered(s), 1, m)) = IF 1 <= m THEN m - 1 + 1 ELSE 0
      BY <1>8, <2>1, SubSeqProperties
    <2> QED BY <1>8, <1>9, <2>2
  <1> QED BY <1>2, <1>6, <1>8, <1>10 DEF OmittedForCapacity

\* A session that holds fewer chunks than fit has room for one more.
LEMMA RoomForOne ==
    ASSUME NEW n \in Nat, n + 1 <= MaxChunksPerSession
    PROVE  ~(n * ChunkBytes + ChunkBytes > StateBytes)
  <1> DEFINE m == MaxChunksPerSession
  <1>1. /\ StateBytes \in Nat /\ ChunkBytes \in Nat \ {0}
    BY BenchAssumption
  <1>2. m \in Nat /\ m * ChunkBytes <= StateBytes
    BY <1>1 DEF MaxChunksPerSession
  <1>3. (n + 1) * ChunkBytes <= m * ChunkBytes
    BY <1>1, <1>2
  <1>4. (n + 1) * ChunkBytes = n * ChunkBytes + ChunkBytes
    BY <1>1
  <1>5. n * ChunkBytes \in Nat /\ m * ChunkBytes \in Nat
    BY <1>1, <1>2
  <1> QED BY <1>1, <1>2, <1>3, <1>4, <1>5

-----------------------------------------------------------------------------
(* One session *)

Answers == {"none", "sent", "throttled", "complete", "timed_out", "failed", "conflict",
            "state_full", "broken"}

\* A session that a step does not touch keeps its part of the invariant.
LEMMA Untouched ==
    ASSUME IInv, NEW q \in Slots, scenario' = scenario, run'[q] = run[q],
           request'[q] = request[q], log'[q] = log[q], lost => lost'
    PROVE  Agrees(q)' /\ CountsExact(q)'
  <1>1. Agrees(q) /\ CountsExact(q)
    BY DEF IInv
  <1>2. Agrees(q)'
    BY <1>1 DEF Agrees
  <1>3. CountsExact(q)'
    BY <1>1 DEF CountsExact, CountsFor, Offered, Current
  <1> QED BY <1>2, <1>3

\* A step of one session preserves the invariant if it does so there.
LEMMA OneSession ==
    ASSUME IInv, NEW s \in Slots, UNCHANGED <<scenario, stage, now, reports>>,
           NEW r \in Runs, run' = [run EXCEPT ![s] = r],
           NEW a \in Answers, request' = [request EXCEPT ![s] = a],
           NEW l \in Seq(Chunks), log' = [log EXCEPT ![s] = l],
           lost' \in BOOLEAN, lost => lost',
           (r.pc = "none") <=> (run[s].pc = "none"),
           stage = "running" \/ r.pc = run[s].pc,
           Agrees(s)', CountsExact(s)'
    PROVE  IInv'
  <1>1. run \in [Slots -> Runs] /\ request \in [Slots -> Answers] /\ log \in [Slots -> Seq(Chunks)]
    BY DEF IInv, BenchTypeOK, Answers
  <1>2. /\ run' \in [Slots -> Runs] /\ request' \in [Slots -> Answers]
        /\ log' \in [Slots -> Seq(Chunks)] /\ run'[s] = r
    BY <1>1
  <1>3. \A q \in Slots : q # s =>
            run'[q] = run[q] /\ request'[q] = request[q] /\ log'[q] = log[q]
    BY <1>1
  <1>4. BenchTypeOK'
    BY <1>2 DEF IInv, BenchTypeOK, Answers
  <1>5. \A q \in Slots : Agrees(q)' /\ CountsExact(q)'
    <2>1. ASSUME NEW q \in Slots, q # s
          PROVE  Agrees(q)' /\ CountsExact(q)'
      BY <1>3, <2>1, Untouched
    <2> QED BY <2>1
  <1>6. StageExact'
    <2>1. \A q \in Slots : (run'[q].pc = "none") <=> (run[q].pc = "none")
      BY <1>2, <1>3
    <2>2. stage = "running" \/ \A q \in Slots : run'[q].pc = run[q].pc
      BY <1>2, <1>3
    <2>3. Active' = Active /\ Active \subseteq Slots
      BY ScenarioShape DEF Active, Current
    <2> QED BY <2>1, <2>2, <2>3 DEF IInv, StageExact
  <1>7. Verified'
    BY DEF IInv, Verified
  <1> QED BY <1>4, <1>5, <1>6, <1>7 DEF IInv

\* Two of the counts that a further record may change.
LEMMA Appended ==
    ASSUME NEW r \in Runs, NEW x \in Kinds
    PROVE  LET q == Append(r.records, x)
               C == {"complete"}
               A == Kinds \ {"client_backpressure"}
           IN  /\ q \in Seq(Kinds)
               /\ Recorded(r.records, C) \in Nat /\ Recorded(r.records, A) \in Nat
               /\ Recorded(q, C) = Recorded(r.records, C) + (IF x = "complete" THEN 1 ELSE 0)
               /\ Recorded(q, A)
                     = Recorded(r.records, A) + (IF x = "client_backpressure" THEN 0 ELSE 1)
  <1> DEFINE C == {"complete"}
             A == Kinds \ {"client_backpressure"}
  <1>1. r.records \in Seq(Kinds)
    BY DEF Runs
  <1>2. Append(r.records, x) \in Seq(Kinds)
    <2> DEFINE T == Kinds
    <2> HIDE DEF T
    <2>1. r.records \in Seq(T) /\ x \in T
      BY <1>1 DEF T
    <2>2. Append(r.records, x) \in Seq(T)
      BY <2>1
    <2> QED BY <2>2 DEF T
  <1>3. x \in C <=> x = "complete"
    OBVIOUS
  <1>4. x \in A <=> x # "client_backpressure"
    OBVIOUS
  <1> HIDE DEF C, A
  <1>5. /\ Recorded(r.records, C) \in Nat /\ Recorded(r.records, A) \in Nat
        /\ Recorded(Append(r.records, x), C) = Recorded(r.records, C) + (IF x \in C THEN 1 ELSE 0)
        /\ Recorded(Append(r.records, x), A) = Recorded(r.records, A) + (IF x \in A THEN 1 ELSE 0)
    BY <1>1, RecordedAppend
  <1>6. /\ Recorded(r.records, C) \in Nat /\ Recorded(r.records, A) \in Nat
        /\ Recorded(Append(r.records, x), C)
              = Recorded(r.records, C) + (IF x = "complete" THEN 1 ELSE 0)
        /\ Recorded(Append(r.records, x), A)
              = Recorded(r.records, A) + (IF x = "client_backpressure" THEN 0 ELSE 1)
    BY <1>3, <1>4, <1>5
  <1> QED BY <1>2, <1>6 DEF C, A

\* The lengths in a task.
LEMMA RunShape ==
    ASSUME NEW r \in Runs
    PROVE  /\ r.todo \in Seq(Nat) /\ Len(r.todo) \in Nat
           /\ r.expected \in Seq(Chunks) /\ Len(r.expected) \in Nat
           /\ r.next_sequence \in Nat /\ r.completed \in Nat /\ r.server_throttled \in Nat
           /\ r.client_backpressured \in Nat /\ r.failed \in Nat
           /\ r.todo # << >> =>
                 /\ Tail(r.todo) \in Seq(Nat) /\ Len(Tail(r.todo)) = Len(r.todo) - 1
                 /\ Len(r.todo) > 0
           /\ MaxChunksPerSession \in Nat
  <1>1. r.todo \in Seq(Nat) /\ r.expected \in Seq(Chunks)
    BY DEF Runs
  <1>2. Len(r.expected) \in Nat
    <2> DEFINE T == Chunks
    <2> HIDE DEF T
    <2>1. r.expected \in Seq(T)
      BY <1>1 DEF T
    <2> QED BY <2>1
  <1>3. /\ Len(r.todo) \in Nat
        /\ r.todo # << >> =>
              /\ Tail(r.todo) \in Seq(Nat) /\ Len(Tail(r.todo)) = Len(r.todo) - 1
              /\ Len(r.todo) > 0
    BY <1>1
  <1>4. /\ r.next_sequence \in Nat /\ r.completed \in Nat /\ r.server_throttled \in Nat
        /\ r.client_backpressured \in Nat /\ r.failed \in Nat
    BY DEF Runs
  <1>5. MaxChunksPerSession \in Nat
    BY BenchAssumption DEF MaxChunksPerSession
  <1> QED BY <1>1, <1>2, <1>3, <1>4, <1>5

\* One chunk less to send leaves room for it if it is completed.
LEMMA RoomLeft ==
    ASSUME NEW lt \in Nat, NEW le \in Nat, NEW max \in Nat, NEW done \in {0, 1}, le + lt <= max
    PROVE  (le + done) + (lt - 1) <= max
  OBVIOUS

\* A chunk is behind the task: the counts stay exact.
LEMMA ChunkCounts ==
    ASSUME NEW r \in Runs, r.pc # "none", NEW offered, CountsFor(r, offered),
           NEW p \in Runs, p.pc # "none", NEW done \in {0, 1}, NEW held \in {0, 1},
           Len(p.todo) = Len(r.todo) - 1,
           Recorded(r.records, Kinds \ {"client_backpressure"}) \in Nat,
           Recorded(p.records, {"complete"}) = Recorded(r.records, {"complete"}) + done,
           Recorded(p.records, Kinds \ {"client_backpressure"})
               = Recorded(r.records, Kinds \ {"client_backpressure"}) + 1 - held,
           p.next_sequence = Len(p.expected), p.completed = Len(p.expected),
           Len(p.expected) = Len(r.expected) + done,
           p.completed + p.server_throttled + p.failed
               = r.completed + r.server_throttled + r.failed + 1 - held,
           p.client_backpressured = r.client_backpressured + held
    PROVE  CountsFor(p, offered)
  <1> DEFINE lt == Len(r.todo)          plt == Len(p.todo)
             le == Len(r.expected)      ple == Len(p.expected)
             cb == r.client_backpressured   pcb == p.client_backpressured
             ra == Recorded(r.records, Kinds \ {"client_backpressure"})
             pa == Recorded(p.records, Kinds \ {"client_backpressure"})
             max == MaxChunksPerSession
  <1>1. lt \in Nat /\ le \in Nat /\ max \in Nat /\ cb \in Nat /\ ra \in Nat
    BY RunShape
  <1>2. /\ Recorded(r.records, {"complete"}) = le
        /\ ra = r.completed + r.server_throttled + r.failed
        /\ le + lt <= max /\ lt + ra + cb = offered
    BY DEF CountsFor
  <1>3. plt = lt - 1 /\ ple = le + done /\ pa = ra + 1 - held /\ pcb = cb + held
    OBVIOUS
  <1>4. Recorded(p.records, {"complete"}) = ple /\ pa = p.completed + p.server_throttled + p.failed
    BY <1>2
  <1>5. ple + plt <= max /\ plt + pa + pcb = offered
    <2> HIDE DEF lt, plt, le, ple, cb, pcb, ra, pa, max
    <2>1. (le + done) + (lt - 1) <= max
      <3>1. le + lt <= max
        BY <1>2
      <3> QED BY <1>1, <3>1, RoomLeft, Zenon
    <2>2. (lt - 1) + (ra + 1 - held) + (cb + held) = lt + ra + cb
      BY <1>1
    <2> QED BY <1>2, <1>3, <2>1, <2>2, Zenon
  <1> QED BY <1>4, <1>5 DEF CountsFor

\* A chunk that is held back is counted.
LEMMA HeldBack ==
    ASSUME NEW r \in Runs, r.todo # << >>, r.pc = "loop", NEW offered, CountsFor(r, offered),
           NEW x \in Kinds, x = "client_backpressure",
           NEW p \in Runs, p.pc = r.pc, p.next_sequence = r.next_sequence,
           p.expected = r.expected, p.completed = r.completed,
           p.server_throttled = r.server_throttled, p.failed = r.failed,
           p.client_backpressured = r.client_backpressured + 1,
           p.todo = Tail(r.todo), p.records = Append(r.records, x)
    PROVE  CountsFor(p, offered)
  <1> DEFINE A == Kinds \ {"client_backpressure"}
  <1>1. /\ Recorded(r.records, {"complete"}) \in Nat /\ Recorded(r.records, A) \in Nat
        /\ Recorded(p.records, {"complete"}) = Recorded(r.records, {"complete"}) + 0
        /\ Recorded(p.records, A) = Recorded(r.records, A) + 0
    BY Appended
  <1>2. Recorded(p.records, A) = Recorded(r.records, A) + 1 - 1
    BY <1>1
  <1>3. /\ Len(p.todo) = Len(r.todo) - 1 /\ Len(p.expected) = Len(r.expected) + 0
        /\ r.next_sequence = Len(r.expected) /\ r.completed = Len(r.expected)
    BY RunShape DEF CountsFor
  <1>4. p.completed + p.server_throttled + p.failed
            = r.completed + r.server_throttled + r.failed + 1 - 1
    BY RunShape
  <1>5. /\ p.next_sequence = Len(p.expected) /\ p.completed = Len(p.expected)
        /\ r.pc # "none" /\ p.pc # "none"
    BY <1>3
  <1> HIDE DEF A
  <1>6. 0 \in {0, 1} /\ 1 \in {0, 1}
    OBVIOUS
  <1> QED BY <1>1, <1>2, <1>3, <1>4, <1>5, <1>6, ChunkCounts, Zenon DEF A

\* A chunk that was answered is counted.
LEMMA Accounted ==
    ASSUME NEW r \in Runs, r.todo # << >>, r.pc = "sent", NEW offered, CountsFor(r, offered),
           NEW x \in Kinds, x # "client_backpressure", NEW done \in {0, 1},
           done = (IF x = "complete" THEN 1 ELSE 0),
           NEW p \in Runs, p.pc = "loop",
           p.next_sequence = Len(p.expected), p.completed = Len(p.expected),
           Len(p.expected) = Len(r.expected) + done,
           p.completed + p.server_throttled + p.failed
               = r.completed + r.server_throttled + r.failed + 1,
           p.client_backpressured = r.client_backpressured,
           p.todo = Tail(r.todo), p.records = Append(r.records, x)
    PROVE  CountsFor(p, offered)
  <1> DEFINE A == Kinds \ {"client_backpressure"}
  <1>1. /\ Recorded(r.records, A) \in Nat
        /\ Recorded(p.records, {"complete"}) = Recorded(r.records, {"complete"}) + done
        /\ Recorded(p.records, A) = Recorded(r.records, A) + 1
    BY Appended
  <1>2. Recorded(p.records, A) = Recorded(r.records, A) + 1 - 0
    BY <1>1
  <1>3. Len(p.todo) = Len(r.todo) - 1
    BY RunShape
  <1>4. p.completed + p.server_throttled + p.failed
            = r.completed + r.server_throttled + r.failed + 1 - 0
    <2> DEFINE u == r.completed + r.server_throttled + r.failed
    <2>1. u \in Nat
      BY RunShape
    <2>2. p.completed + p.server_throttled + p.failed = u + 1
      OBVIOUS
    <2> HIDE DEF u
    <2>3. u + 1 = u + 1 - 0
      BY <2>1
    <2>4. p.completed + p.server_throttled + p.failed = u + 1 - 0
      BY <2>2, <2>3
    <2> QED BY <2>4 DEF u
  <1>5. p.client_backpressured = r.client_backpressured + 0
    BY RunShape
  <1> QED BY <1>1, <1>2, <1>3, <1>4, <1>5, ChunkCounts

\* The end of an iteration.
LEMMA ContinueShape ==
    ASSUME now \in Nat, NEW t \in Runs, t.todo # << >>, NEW x \in Kinds
    PROVE  LET c == Continue(t, x)
           IN  /\ c \in Runs
               /\ c.pc = "loop" /\ c.next_sequence = t.next_sequence
               /\ c.expected = t.expected /\ c.completed = t.completed
               /\ c.server_throttled = t.server_throttled
               /\ c.client_backpressured = t.client_backpressured /\ c.failed = t.failed
               /\ c.todo = Tail(t.todo) /\ c.records = Append(t.records, x)
  <1>1. Tail(t.todo) \in Seq(Nat)
    BY RunShape
  <1>2. Append(t.records, x) \in Seq(Kinds)
    BY Appended
  <1>3. Continue(t, x) = [t EXCEPT !.pc = "loop", !.todo = Tail(t.todo), !.available_at = now,
                                   !.records = Append(t.records, x)]
    BY DEF Continue
  <1>4. Continue(t, x) \in Runs
    BY <1>1, <1>2, <1>3 DEF Runs
  <1> QED BY <1>3, <1>4 DEF Runs

\* A chunk that is held back.
LEMMA SkipShape ==
    ASSUME NEW r \in Runs, r.todo # << >>, NEW x \in Kinds
    PROVE  LET c == [r EXCEPT !.todo = Tail(@), !.client_backpressured = @ + 1,
                              !.records = Append(@, x)]
           IN  /\ c \in Runs
               /\ c.pc = r.pc /\ c.next_sequence = r.next_sequence
               /\ c.expected = r.expected /\ c.completed = r.completed
               /\ c.server_throttled = r.server_throttled /\ c.failed = r.failed
               /\ c.client_backpressured = r.client_backpressured + 1
               /\ c.todo = Tail(r.todo) /\ c.records = Append(r.records, x)
  <1> DEFINE c == [r EXCEPT !.todo = Tail(@), !.client_backpressured = @ + 1,
                            !.records = Append(@, x)]
  <1>1. Tail(r.todo) \in Seq(Nat) /\ r.client_backpressured + 1 \in Nat
    BY RunShape
  <1>2. Append(r.records, x) \in Seq(Kinds)
    BY Appended
  <1>3. c \in Runs
    BY <1>1, <1>2 DEF Runs
  <1> QED BY <1>3 DEF Runs

\* The variables that a session's steps are about.
LEMMA SessionTypes ==
    ASSUME IInv, NEW s \in Slots
    PROVE  /\ run \in [Slots -> Runs] /\ request \in [Slots -> Answers]
           /\ log \in [Slots -> Seq(Chunks)]
           /\ run[s] \in Runs /\ request[s] \in Answers /\ log[s] \in Seq(Chunks)
           /\ request = [request EXCEPT ![s] = request[s]]
           /\ log = [log EXCEPT ![s] = log[s]] /\ run = [run EXCEPT ![s] = run[s]]
           /\ lost \in BOOLEAN /\ now \in Nat
           /\ Agrees(s) /\ CountsExact(s)
  BY DEF IInv, BenchTypeOK, Answers

\* The counts of a task whose scenario goes on.
LEMMA CountsKept ==
    ASSUME NEW s \in Slots, scenario' = scenario, NEW p, run'[s] = p,
           CountsFor(p, Len(Offered(s)))
    PROVE  CountsExact(s)'
  <1>1. Offered(s)' = Offered(s)
    BY DEF Offered, Current
  <1>2. CountsFor(run'[s], Len(Offered(s)'))
    BY <1>1
  <1> QED BY <1>2 DEF CountsExact, CountsFor

\* The chunk's time came while the previous one was under way.
LEMMA Skips ==
    ASSUME IInv, NEW s \in Slots, Skip(s)
    PROVE  IInv'
  <1>1. /\ run[s].pc = "loop" /\ run[s].todo # << >> /\ stage = "running"
        /\ run' = [run EXCEPT ![s].todo = Tail(@), ![s].client_backpressured = @ + 1,
                              ![s].records = Append(@, "client_backpressure")]
        /\ UNCHANGED <<scenario, stage, now, request, log, reports, lost>>
    BY DEF Skip, Looping
  <1>2. PICK r \in Runs : r = run[s]
    BY SessionTypes
  <1>3. PICK x \in Kinds : x = "client_backpressure"
    BY DEF Kinds
  <1>4. PICK p : p = [r EXCEPT !.todo = Tail(@), !.client_backpressured = @ + 1,
                               !.records = Append(@, x)]
    OBVIOUS
  <1>5. run' = [run EXCEPT ![s] = p] /\ run'[s] = p
    BY <1>1, <1>2, <1>3, <1>4, SessionTypes
  <1>6. /\ p \in Runs /\ p.pc = r.pc /\ p.next_sequence = r.next_sequence
        /\ p.expected = r.expected /\ p.completed = r.completed
        /\ p.server_throttled = r.server_throttled /\ p.failed = r.failed
        /\ p.client_backpressured = r.client_backpressured + 1
        /\ p.todo = Tail(r.todo) /\ p.records = Append(r.records, x)
    BY <1>1, <1>2, <1>4, SkipShape
  <1>7. Agrees(s)'
    BY <1>1, <1>2, <1>5, <1>6, SessionTypes DEF Agrees
  <1>8. CountsExact(s)'
    <2>1. CountsFor(r, Len(Offered(s)))
      BY <1>2, SessionTypes DEF CountsExact
    <2>2. CountsFor(p, Len(Offered(s)))
      BY <1>1, <1>2, <1>3, <1>6, <2>1, HeldBack
    <2> QED BY <1>1, <1>5, <2>2, CountsKept
  <1>9. request' = [request EXCEPT ![s] = request[s]] /\ log' = [log EXCEPT ![s] = log[s]]
    BY <1>1, SessionTypes
  <1>10. /\ request[s] \in Answers /\ log[s] \in Seq(Chunks) /\ lost' \in BOOLEAN
         /\ lost => lost'
    BY <1>1, SessionTypes
  <1>11. ((p.pc = "none") <=> (run[s].pc = "none")) /\ (stage = "running" \/ p.pc = run[s].pc)
    BY <1>1, <1>2, <1>6
  <1> QED BY <1>1, <1>5, <1>6, <1>7, <1>8, <1>9, <1>10, <1>11, OneSession

\* Only the place of the task in its loop changes.
LEMMA Moved ==
    ASSUME NEW r \in Runs, r.pc # "none", NEW offered, CountsFor(r, offered),
           NEW c \in {"loop", "sent", "ended", "error"}
    PROVE  LET p == [r EXCEPT !.pc = c]
           IN  /\ p \in Runs /\ p.pc = c /\ p.todo = r.todo /\ p.expected = r.expected
               /\ CountsFor(p, offered)
  <1> DEFINE p == [r EXCEPT !.pc = c]
  <1>1. /\ p \in Runs /\ p.pc = c /\ p.todo = r.todo /\ p.next_sequence = r.next_sequence
        /\ p.expected = r.expected /\ p.records = r.records /\ p.completed = r.completed
        /\ p.server_throttled = r.server_throttled
        /\ p.client_backpressured = r.client_backpressured /\ p.failed = r.failed
    BY DEF Runs
  <1> HIDE DEF p
  <1>2. CountsFor(p, offered)
    BY <1>1 DEF CountsFor
  <1> QED BY <1>1, <1>2 DEF p

\* The chunk is posted.
LEMMA Sends ==
    ASSUME IInv, NEW s \in Slots, Send(s)
    PROVE  IInv'
  <1>1. /\ run[s].pc = "loop" /\ run[s].todo # << >> /\ stage = "running"
        /\ run' = [run EXCEPT ![s].pc = "sent"]
        /\ request' = [request EXCEPT ![s] = "sent"]
        /\ UNCHANGED <<scenario, stage, now, log, reports, lost>>
    BY DEF Send, Looping
  <1>2. PICK r \in Runs : r = run[s]
    BY SessionTypes
  <1>3. PICK p : p = [r EXCEPT !.pc = "sent"]
    OBVIOUS
  <1>4. run' = [run EXCEPT ![s] = p] /\ run'[s] = p /\ request'[s] = "sent"
    BY <1>1, <1>2, <1>3, SessionTypes
  <1>5. CountsFor(r, Len(Offered(s)))
    BY <1>2, SessionTypes DEF CountsExact
  <1>6. /\ p \in Runs /\ p.pc = "sent" /\ p.todo = r.todo /\ p.expected = r.expected
        /\ CountsFor(p, Len(Offered(s)))
    BY <1>1, <1>2, <1>3, <1>5, Moved
  <1>7. Agrees(s)'
    BY <1>1, <1>2, <1>4, <1>6, SessionTypes DEF Agrees
  <1>8. CountsExact(s)'
    BY <1>1, <1>4, <1>6, CountsKept
  <1>9. "sent" \in Answers /\ log' = [log EXCEPT ![s] = log[s]]
    BY <1>1, SessionTypes DEF Answers
  <1>10. log[s] \in Seq(Chunks) /\ lost' \in BOOLEAN /\ (lost => lost')
    BY <1>1, SessionTypes
  <1>11. ((p.pc = "none") <=> (run[s].pc = "none")) /\ (stage = "running" \/ p.pc = run[s].pc)
    BY <1>1, <1>2, <1>6
  <1> QED BY <1>1, <1>4, <1>6, <1>7, <1>8, <1>9, <1>10, <1>11, OneSession

\* The task has nothing left to send.
LEMMA Ends ==
    ASSUME IInv, NEW s \in Slots, EndSession(s)
    PROVE  IInv'
  <1>1. /\ run[s].pc = "loop" /\ run[s].todo = << >> /\ stage = "running"
        /\ run' = [run EXCEPT ![s].pc = "ended"]
        /\ UNCHANGED <<scenario, stage, now, request, log, reports, lost>>
    BY DEF EndSession, Looping
  <1>2. PICK r \in Runs : r = run[s]
    BY SessionTypes
  <1>3. PICK p : p = [r EXCEPT !.pc = "ended"]
    OBVIOUS
  <1>4. run' = [run EXCEPT ![s] = p] /\ run'[s] = p
    BY <1>1, <1>2, <1>3, SessionTypes
  <1>5. CountsFor(r, Len(Offered(s)))
    BY <1>2, SessionTypes DEF CountsExact
  <1>6. /\ p \in Runs /\ p.pc = "ended" /\ p.todo = r.todo /\ p.expected = r.expected
        /\ CountsFor(p, Len(Offered(s)))
    BY <1>1, <1>2, <1>3, <1>5, Moved
  <1>7. Agrees(s)'
    BY <1>1, <1>2, <1>4, <1>6, SessionTypes DEF Agrees
  <1>8. CountsExact(s)'
    BY <1>1, <1>4, <1>6, CountsKept
  <1>9. request' = [request EXCEPT ![s] = request[s]] /\ log' = [log EXCEPT ![s] = log[s]]
    BY <1>1, SessionTypes
  <1>10. /\ request[s] \in Answers /\ log[s] \in Seq(Chunks) /\ lost' \in BOOLEAN
         /\ lost => lost'
    BY <1>1, SessionTypes
  <1>11. ((p.pc = "none") <=> (run[s].pc = "none")) /\ (stage = "running" \/ p.pc = run[s].pc)
    BY <1>1, <1>2, <1>6
  <1> QED BY <1>1, <1>4, <1>6, <1>7, <1>8, <1>9, <1>10, <1>11, OneSession

\* A step of the server or of the network leaves the tasks alone.
LEMMA Outside ==
    ASSUME IInv, NEW s \in Slots, UNCHANGED <<scenario, stage, now, run, reports>>,
           NEW a \in Answers, request' = [request EXCEPT ![s] = a],
           NEW l \in Seq(Chunks), log' = [log EXCEPT ![s] = l],
           lost' \in BOOLEAN, lost => lost',
           Agrees(s)'
    PROVE  IInv'
  <1>1. PICK r \in Runs : r = run[s]
    BY SessionTypes
  <1>2. run' = [run EXCEPT ![s] = r] /\ run'[s] = r
    BY <1>1, SessionTypes
  <1>3. CountsFor(r, Len(Offered(s)))
    BY <1>1, SessionTypes DEF CountsExact
  <1>4. CountsExact(s)'
    BY <1>2, <1>3, CountsKept
  <1> QED BY <1>1, <1>2, <1>4, OneSession

\* The connection breaks.
LEMMA Breaks ==
    ASSUME IInv, NEW s \in Slots, Break(s)
    PROVE  IInv'
  <1>1. /\ request[s] \notin {"none", "broken"} /\ lost' = TRUE
        /\ request' = [request EXCEPT ![s] = "broken"]
        /\ UNCHANGED <<scenario, stage, now, run, log, reports>>
    BY DEF Break
  <1>2. request'[s] = "broken" /\ "broken" \in Answers
    BY <1>1, SessionTypes DEF Answers
  <1>3. run[s].pc = "sent"
    BY <1>1, SessionTypes DEF Agrees, Runs
  <1>4. Agrees(s)'
    BY <1>1, <1>2, <1>3, SessionTypes DEF Agrees
  <1>5. log' = [log EXCEPT ![s] = log[s]] /\ log[s] \in Seq(Chunks)
    BY <1>1, SessionTypes
  <1> QED BY <1>1, <1>2, <1>4, <1>5, Outside

\* The lab never has a reason to refuse the chunk for good.
LEMMA NotRefused ==
    ASSUME IInv, NEW s \in Slots, request[s] = "sent"
    PROVE  /\ run[s].pc = "sent" /\ log[s] = run[s].expected
           /\ run[s].next_sequence \in Nat
           /\ Outcomes(s) = {"throttled", "complete", "timed_out", "failed"}
  <1>1. PICK r \in Runs : r = run[s]
    BY SessionTypes
  <1>2. r.pc = "sent" /\ r.todo # << >> /\ log[s] = r.expected
    BY <1>1, SessionTypes DEF Agrees, Runs
  <1>3. CountsFor(r, Len(Offered(s)))
    BY <1>1, SessionTypes DEF CountsExact
  <1>4. r.next_sequence = Len(r.expected) /\ Len(r.expected) + Len(r.todo) <= MaxChunksPerSession
    BY <1>2, <1>3 DEF CountsFor
  <1>5. Len(r.expected) + 1 <= MaxChunksPerSession /\ Len(r.expected) \in Nat
    <2> DEFINE a == Len(r.expected)
               b == Len(r.todo)
               c == MaxChunksPerSession
    <2>1. a \in Nat /\ b \in Nat /\ b > 0 /\ c \in Nat /\ a + b <= c
      BY <1>2, <1>4, RunShape
    <2> HIDE DEF a, b, c
    <2>2. a + 1 <= c
      BY <2>1
    <2> QED BY <2>1, <2>2 DEF a, b, c
  <1>6. ~(Len(r.expected) * ChunkBytes + ChunkBytes > StateBytes)
    BY <1>5, RoomForOne
  <1>7. r.next_sequence = Len(log[s])
    BY <1>2, <1>4
  <1>8. ~(Len(log[s]) * ChunkBytes + ChunkBytes > StateBytes)
    BY <1>2, <1>6
  <1>9. Outcomes(s) = {"throttled"} \cup {"complete", "timed_out", "failed"}
    BY <1>1, <1>7, <1>8 DEF Outcomes
  <1> QED BY <1>1, <1>2, <1>9, RunShape

\* A chunk in capitals.
LEMMA ChunkShape ==
    ASSUME NEW n \in Nat, NEW q \in Seq(Chunks)
    PROVE  /\ Uppercase(LoremChunk(n)) \in Chunks
           /\ Append(q, Uppercase(LoremChunk(n))) \in Seq(Chunks)
           /\ Len(Append(q, Uppercase(LoremChunk(n)))) = Len(q) + 1
  <1> DEFINE T == Chunks
             c == Uppercase(LoremChunk(n))
  <1>1. c \in T
    BY DEF Uppercase, LoremChunk, Chunks
  <1> HIDE DEF T, c
  <1>2. q \in Seq(T)
    BY DEF T
  <1>3. Append(q, c) \in Seq(T) /\ Len(Append(q, c)) = Len(q) + 1
    BY <1>1, <1>2
  <1> QED BY <1>1, <1>3 DEF T, c

\* The lab answers.
LEMMA Serves ==
    ASSUME IInv, NEW s \in Slots, Serve(s)
    PROVE  IInv'
  <1>1. /\ request[s] = "sent"
        /\ UNCHANGED <<scenario, stage, now, run, reports, lost>>
    BY DEF Serve
  <1>2. PICK outcome \in Outcomes(s) :
            /\ request' = [request EXCEPT ![s] = outcome]
            /\ log' = IF outcome = "complete"
                        THEN [log EXCEPT ![s] =
                                 Append(@, Uppercase(LoremChunk(run[s].next_sequence)))]
                        ELSE log
    BY DEF Serve
  <1>3. /\ run[s].pc = "sent" /\ log[s] = run[s].expected /\ run[s].next_sequence \in Nat
        /\ outcome \in {"throttled", "complete", "timed_out", "failed"}
    BY <1>1, <1>2, NotRefused
  <1>4. outcome \in Answers /\ request'[s] = outcome /\ lost' \in BOOLEAN /\ (lost => lost')
    BY <1>1, <1>2, <1>3, SessionTypes DEF Answers
  <1>5. CASE outcome = "complete"
    <2>1. PICK l : l = Append(log[s], Uppercase(LoremChunk(run[s].next_sequence)))
      OBVIOUS
    <2>2. l \in Seq(Chunks)
      BY <1>3, <2>1, ChunkShape, SessionTypes
    <2>3. log' = [log EXCEPT ![s] = l] /\ log'[s] = l
      BY <1>2, <1>5, <2>1, SessionTypes
    <2>4. Agrees(s)'
      BY <1>1, <1>3, <1>4, <1>5, <2>1, <2>3, SessionTypes DEF Agrees
    <2> QED BY <1>1, <1>2, <1>4, <2>2, <2>3, <2>4, Outside
  <1>6. CASE outcome # "complete"
    <2>1. log' = [log EXCEPT ![s] = log[s]] /\ log'[s] = log[s] /\ log[s] \in Seq(Chunks)
      BY <1>2, <1>6, SessionTypes
    <2>2. Agrees(s)'
      BY <1>1, <1>3, <1>4, <1>6, <2>1, SessionTypes DEF Agrees
    <2> QED BY <1>1, <1>2, <1>4, <2>1, <2>2, Outside
  <1> QED BY <1>5, <1>6

\* The task goes on to its next chunk.
LEMMA GoesOn ==
    ASSUME IInv, NEW s \in Slots, stage = "running", run[s].pc = "sent",
           UNCHANGED <<scenario, stage, now, log, reports, lost>>,
           request' = [request EXCEPT ![s] = "none"],
           NEW p \in Runs, run' = [run EXCEPT ![s] = p], p.pc = "loop", p.expected = log[s],
           CountsFor(p, Len(Offered(s)))
    PROVE  IInv'
  <1>1. run'[s] = p /\ request'[s] = "none" /\ "none" \in Answers
    BY SessionTypes DEF Answers
  <1>2. Agrees(s)'
    BY <1>1 DEF Agrees
  <1>3. CountsExact(s)'
    BY <1>1, CountsKept
  <1>4. log' = [log EXCEPT ![s] = log[s]] /\ log[s] \in Seq(Chunks)
    BY SessionTypes
  <1>5. lost' \in BOOLEAN /\ (lost => lost')
    BY SessionTypes
  <1>6. ((p.pc = "none") <=> (run[s].pc = "none")) /\ (stage = "running" \/ p.pc = run[s].pc)
    OBVIOUS
  <1> QED BY <1>1, <1>2, <1>3, <1>4, <1>5, <1>6, OneSession

\* A refused, cut off or failed chunk adds one to its count and is recorded.
LEMMA Lapsed ==
    ASSUME now \in Nat, NEW r \in Runs, r.todo # << >>, r.pc = "sent", NEW offered,
           CountsFor(r, offered),
           NEW x \in {"server_throttled", "timed_out", "failed"},
           NEW t, \/ t = [r EXCEPT !.server_throttled = @ + 1]
                  \/ t = [r EXCEPT !.failed = @ + 1]
    PROVE  LET p == Continue(t, x)
           IN  p \in Runs /\ p.pc = "loop" /\ p.expected = r.expected /\ CountsFor(p, offered)
  <1>1. /\ t \in Runs /\ t.todo = r.todo /\ t.next_sequence = r.next_sequence
        /\ t.expected = r.expected /\ t.records = r.records /\ t.completed = r.completed
        /\ t.client_backpressured = r.client_backpressured
        /\ \/ t.server_throttled = r.server_throttled + 1 /\ t.failed = r.failed
           \/ t.server_throttled = r.server_throttled /\ t.failed = r.failed + 1
    <2>1. r.server_throttled + 1 \in Nat /\ r.failed + 1 \in Nat
      BY RunShape
    <2> QED BY <2>1 DEF Runs
  <1>2. x \in Kinds /\ x # "client_backpressure" /\ x # "complete"
    BY DEF Kinds
  <1>3. PICK p : p = Continue(t, x)
    OBVIOUS
  <1>4. /\ p \in Runs /\ p.pc = "loop" /\ p.next_sequence = t.next_sequence
        /\ p.expected = t.expected /\ p.completed = t.completed
        /\ p.server_throttled = t.server_throttled
        /\ p.client_backpressured = t.client_backpressured /\ p.failed = t.failed
        /\ p.todo = Tail(t.todo) /\ p.records = Append(t.records, x)
    BY <1>1, <1>2, <1>3, ContinueShape
  <1>5. p.completed + p.server_throttled + p.failed
            = r.completed + r.server_throttled + r.failed + 1
    <2> DEFINE c == r.completed   th == r.server_throttled   f == r.failed
    <2>1. c \in Nat /\ th \in Nat /\ f \in Nat
      BY RunShape
    <2>2. /\ p.completed = c
          /\ \/ p.server_throttled = th + 1 /\ p.failed = f
             \/ p.server_throttled = th /\ p.failed = f + 1
      BY <1>1, <1>4
    <2> HIDE DEF c, th, f
    <2>3. p.completed + p.server_throttled + p.failed = c + th + f + 1
      BY <2>1, <2>2
    <2> QED BY <2>3 DEF c, th, f
  <1>6. r.next_sequence = Len(r.expected) /\ r.completed = Len(r.expected)
    BY DEF CountsFor
  <1>7. p.next_sequence = Len(p.expected) /\ p.completed = Len(p.expected)
    BY <1>1, <1>4, <1>6
  <1>8. Len(p.expected) = Len(r.expected) + 0
    BY <1>1, <1>4, RunShape
  <1>9. CountsFor(p, offered)
    <2>1. 0 \in {0, 1} /\ 0 = (IF x = "complete" THEN 1 ELSE 0)
      BY <1>2
    <2>2. /\ p.client_backpressured = r.client_backpressured /\ p.todo = Tail(r.todo)
          /\ p.records = Append(r.records, x)
      BY <1>1, <1>4
    <2> QED BY <1>2, <1>4, <1>5, <1>7, <1>8, <2>1, <2>2, Accounted
  <1> QED BY <1>1, <1>3, <1>4, <1>9

\* The task after a completed chunk, before it turns to the next one.
Grown(r, c) == [r EXCEPT !.expected = c, !.completed = @ + 1, !.next_sequence = @ + 1]

\* A completed chunk joins the text that is expected of the session.
LEMMA Completed ==
    ASSUME now \in Nat, NEW r \in Runs, r.todo # << >>, r.pc = "sent", NEW offered,
           CountsFor(r, offered)
    PROVE  LET c == Append(r.expected, Uppercase(LoremChunk(r.next_sequence)))
               p == Continue(Grown(r, c), "complete")
           IN  p \in Runs /\ p.pc = "loop" /\ p.expected = c /\ CountsFor(p, offered)
  <1> DEFINE c == Append(r.expected, Uppercase(LoremChunk(r.next_sequence)))
             t == Grown(r, c)
             p == Continue(t, "complete")
  <1>1. c \in Seq(Chunks) /\ Len(c) = Len(r.expected) + 1
    BY ChunkShape, RunShape
  <1>2. /\ t \in Runs /\ t.todo = r.todo /\ t.next_sequence = r.next_sequence + 1
        /\ t.expected = c /\ t.records = r.records /\ t.completed = r.completed + 1
        /\ t.client_backpressured = r.client_backpressured
        /\ t.server_throttled = r.server_throttled /\ t.failed = r.failed
    <2>1. r.completed + 1 \in Nat /\ r.next_sequence + 1 \in Nat
      BY RunShape
    <2> HIDE DEF c
    <2> QED BY <1>1, <2>1 DEF Runs, Grown
  <1> HIDE DEF c, t
  <1>3. PICK x \in Kinds : x = "complete"
    BY DEF Kinds
  <1>4. p = Continue(t, x)
    BY <1>3
  <1> HIDE DEF p
  <1>5. /\ p \in Runs /\ p.pc = "loop" /\ p.next_sequence = t.next_sequence
        /\ p.expected = t.expected /\ p.completed = t.completed
        /\ p.server_throttled = t.server_throttled
        /\ p.client_backpressured = t.client_backpressured /\ p.failed = t.failed
        /\ p.todo = Tail(t.todo) /\ p.records = Append(t.records, x)
    BY <1>2, <1>3, <1>4, ContinueShape
  <1>6. p.completed + p.server_throttled + p.failed
            = r.completed + r.server_throttled + r.failed + 1
    <2> DEFINE d == r.completed   th == r.server_throttled   f == r.failed
    <2>1. d \in Nat /\ th \in Nat /\ f \in Nat
      BY RunShape
    <2>2. p.completed = d + 1 /\ p.server_throttled = th /\ p.failed = f
      BY <1>2, <1>5
    <2> HIDE DEF d, th, f
    <2>3. p.completed + p.server_throttled + p.failed = d + th + f + 1
      BY <2>1, <2>2
    <2> QED BY <2>3 DEF d, th, f
  <1>7. r.next_sequence = Len(r.expected) /\ r.completed = Len(r.expected)
    BY DEF CountsFor
  <1>8. p.next_sequence = Len(p.expected) /\ p.completed = Len(p.expected)
    BY <1>1, <1>2, <1>5, <1>7
  <1>9. Len(p.expected) = Len(r.expected) + 1
    BY <1>1, <1>2, <1>5
  <1>10. CountsFor(p, offered)
    <2>1. 1 \in {0, 1} /\ 1 = (IF x = "complete" THEN 1 ELSE 0)
      BY <1>3
    <2>2. /\ p.client_backpressured = r.client_backpressured /\ p.todo = Tail(r.todo)
          /\ p.records = Append(r.records, x) /\ x # "client_backpressure"
      BY <1>2, <1>3, <1>5
    <2> QED BY <1>3, <1>5, <1>6, <1>8, <1>9, <2>1, <2>2, Accounted
  <1>11. p \in Runs /\ p.pc = "loop" /\ p.expected = c /\ CountsFor(p, offered)
    BY <1>2, <1>5, <1>10
  <1> QED BY <1>11 DEF c, t, p

\* The task has its answer.
LEMMA Receives ==
    ASSUME IInv, NEW s \in Slots, Receive(s)
    PROVE  IInv'
  <1>1. /\ stage = "running" /\ run[s].pc = "sent" /\ request[s] \notin {"none", "sent"}
        /\ request' = [request EXCEPT ![s] = "none"]
        /\ UNCHANGED <<scenario, stage, now, log, reports, lost>>
    BY DEF Receive
  <1>2. PICK r \in Runs : r = run[s]
    BY SessionTypes
  <1>3. /\ r.pc = "sent" /\ r.todo # << >> /\ now \in Nat
        /\ request[s] \in {"throttled", "complete", "timed_out", "failed", "broken"}
    BY <1>1, <1>2, SessionTypes DEF Agrees, Answers
  <1>4. CountsFor(r, Len(Offered(s)))
    BY <1>2, SessionTypes DEF CountsExact
  <1>5. CASE request[s] = "throttled"
    <2>1. PICK t : t = [r EXCEPT !.server_throttled = @ + 1]
      OBVIOUS
    <2>2. PICK p : p = Continue(t, "server_throttled")
      OBVIOUS
    <2>3. run' = [run EXCEPT ![s] = p]
      BY <1>2, <1>5, <2>1, <2>2 DEF Receive, Throttled
    <2>4. p \in Runs /\ p.pc = "loop" /\ p.expected = r.expected /\ CountsFor(p, Len(Offered(s)))
      BY <1>3, <1>4, <2>1, <2>2, Lapsed
    <2>5. log[s] = r.expected
      BY <1>1, <1>2, <1>5, SessionTypes DEF Agrees
    <2> QED BY <1>1, <2>3, <2>4, <2>5, GoesOn
  <1>6. CASE request[s] = "complete"
    <2>1. PICK c : c = Append(r.expected, Uppercase(LoremChunk(r.next_sequence)))
      OBVIOUS
    <2>2. PICK t : t = Grown(r, c)
      OBVIOUS
    <2>3. PICK p : p = Continue(t, "complete")
      OBVIOUS
    <2>4. run' = [run EXCEPT ![s] = p]
      BY <1>2, <1>6, <2>1, <2>2, <2>3 DEF Receive, Complete, Grown
    <2>5. p \in Runs /\ p.pc = "loop" /\ p.expected = c /\ CountsFor(p, Len(Offered(s)))
      <3>1. PICK n : n = Len(Offered(s))
        OBVIOUS
      <3>2. CountsFor(r, n)
        BY <1>4, <3>1
      <3>3. now \in Nat /\ r.todo # << >> /\ r.pc = "sent"
        BY <1>3
      <3>4. p \in Runs /\ p.pc = "loop" /\ p.expected = c /\ CountsFor(p, n)
        BY <2>1, <2>2, <2>3, <3>2, <3>3, Completed
      <3> QED BY <3>1, <3>4
    <2>6. log[s] = c
      BY <1>1, <1>2, <1>6, <2>1, SessionTypes DEF Agrees
    <2> QED BY <1>1, <2>4, <2>5, <2>6, GoesOn
  <1>7. CASE request[s] \in {"timed_out", "failed"}
    <2>1. PICK t : t = [r EXCEPT !.failed = @ + 1]
      OBVIOUS
    <2>2. PICK p : p = Continue(t, request[s])
      OBVIOUS
    <2>3. run' = [run EXCEPT ![s] = p]
      <3>1. request[s] # "throttled" /\ request[s] # "complete"
        BY <1>7
      <3>2. run' = [run EXCEPT ![s] = Continue([run[s] EXCEPT !.failed = @ + 1], request[s])]
        BY <1>7, <3>1 DEF Receive, NotCompleted
      <3> QED BY <1>2, <2>1, <2>2, <3>2
    <2>4. p \in Runs /\ p.pc = "loop" /\ p.expected = r.expected /\ CountsFor(p, Len(Offered(s)))
      BY <1>3, <1>4, <1>7, <2>1, <2>2, Lapsed
    <2>5. log[s] = r.expected
      BY <1>1, <1>2, <1>7, SessionTypes DEF Agrees
    <2> QED BY <1>1, <2>3, <2>4, <2>5, GoesOn
  <1>8. CASE request[s] = "broken"
    <2>1. PICK p : p = [r EXCEPT !.pc = "error"]
      OBVIOUS
    <2>2. run' = [run EXCEPT ![s] = p] /\ run'[s] = p
      BY <1>2, <1>8, <2>1, SessionTypes DEF Receive
    <2>3. p \in Runs /\ p.pc = "error" /\ CountsFor(p, Len(Offered(s)))
      BY <1>3, <1>4, <2>1, Moved
    <2>4. lost /\ request'[s] = "none" /\ "none" \in Answers
      BY <1>1, <1>8, SessionTypes DEF Agrees, Answers
    <2>5. Agrees(s)'
      BY <1>1, <2>2, <2>3, <2>4 DEF Agrees
    <2>6. CountsExact(s)'
      BY <1>1, <2>2, <2>3, CountsKept
    <2>7. /\ log' = [log EXCEPT ![s] = log[s]] /\ log[s] \in Seq(Chunks)
          /\ lost' \in BOOLEAN /\ (lost => lost')
      BY <1>1, SessionTypes
    <2>8. ((p.pc = "none") <=> (run[s].pc = "none")) /\ (stage = "running" \/ p.pc = run[s].pc)
      BY <1>1, <2>3
    <2> QED BY <1>1, <2>2, <2>3, <2>4, <2>5, <2>6, <2>7, <2>8, OneSession
  <1> QED BY <1>3, <1>5, <1>6, <1>7, <1>8

-----------------------------------------------------------------------------
(* The benchmark *)

\* A session without a task.
LEMMA NoTask ==
    /\ NoRun \in Runs /\ NoRun.pc = "none"
    /\ \A offered : CountsFor(NoRun, offered)
  <1> DEFINE T == Chunks
             U == Kinds
  <1>1. << >> \in Seq(T) /\ << >> \in Seq(U) /\ << >> \in Seq(Nat) /\ Len(<< >>) = 0
    <2> HIDE DEF T, U
    <2> QED OBVIOUS
  <1>2. NoRun \in Runs /\ NoRun.pc = "none"
    BY <1>1 DEF NoRun, Runs
  <1>3. ASSUME NEW offered PROVE CountsFor(NoRun, offered)
    <2>1. /\ NoRun.pc = "none" /\ NoRun.next_sequence = 0 /\ NoRun.expected = << >>
          /\ NoRun.records = << >> /\ NoRun.completed = 0 /\ NoRun.server_throttled = 0
          /\ NoRun.failed = 0
      BY DEF NoRun
    <2>2. /\ Recorded(<< >>, {"complete"}) = 0
          /\ Recorded(<< >>, Kinds \ {"client_backpressure"}) = 0
      BY RecordedNothing
    <2> QED BY <1>1, <2>1, <2>2 DEF CountsFor
  <1> QED BY <1>2, <1>3

\* Initially nothing has happened.
LEMMA InitIInv == Init => IInv
  <1> SUFFICES ASSUME Init PROVE IInv
    OBVIOUS
  <1>1. scenario \in 1 .. Len(Scenarios)
    <2> DEFINE T == [sessions : 1 .. SessionSlots, offered : Nat \ {0}]
    <2> HIDE DEF T
    <2>1. Scenarios \in Seq(T) /\ Scenarios # << >>
      BY BenchAssumption DEF T
    <2> QED BY <2>1 DEF Init
  <1>2. run \in [Slots -> Runs] /\ \A s \in Slots : run[s] = NoRun
    BY NoTask DEF Init
  <1>3. request \in [Slots -> Answers] /\ \A s \in Slots : request[s] = "none"
    BY DEF Init, Answers
  <1>4. log \in [Slots -> Seq(Chunks)]
    <2> DEFINE T == Chunks
               c == Uppercase(LoremChunk(0))
    <2>1. c \in T
      BY DEF Uppercase, LoremChunk, Chunks
    <2>2. log \in [Slots -> {<< >>, <<c>>}]
      BY DEF Init
    <2> HIDE DEF T, c
    <2>3. << >> \in Seq(T) /\ <<c>> \in Seq(T)
      BY <2>1
    <2>4. log \in [Slots -> Seq(T)]
      BY <2>2, <2>3
    <2> QED BY <2>4 DEF T
  <1>5. BenchTypeOK
    <2> DEFINE T == {reports[k] : k \in DOMAIN reports}
    <2> HIDE DEF T
    <2>1. reports \in Seq(T)
      BY DEF Init
    <2>2. reports \in Seq({reports[k] : k \in DOMAIN reports})
      BY <2>1 DEF T
    <2>3. stage = "reset" /\ now \in Nat /\ lost \in BOOLEAN
      BY DEF Init
    <2> QED BY <1>1, <1>2, <1>3, <1>4, <2>2, <2>3 DEF BenchTypeOK, Answers
  <1>6. \A s \in Slots : Agrees(s) /\ CountsExact(s)
    <2> SUFFICES ASSUME NEW s \in Slots PROVE Agrees(s) /\ CountsExact(s)
      OBVIOUS
    <2>1. Agrees(s)
      BY <1>2, <1>3, NoTask DEF Agrees
    <2>2. CountsExact(s)
      BY <1>2, NoTask DEF CountsExact
    <2> QED BY <2>1, <2>2
  <1>7. StageExact
    BY <1>2, NoTask DEF Init, StageExact
  <1>8. Verified
    BY DEF Init, Verified
  <1> QED BY <1>5, <1>6, <1>7, <1>8 DEF IInv

\* Where no task is at work no request is under way.
LEMMA Quiet ==
    ASSUME IInv, stage \in {"reset", "verify", "done"}
    PROVE  \A s \in Slots : request[s] = "none" /\ (stage = "reset" => run[s] = NoRun)
  <1> SUFFICES ASSUME NEW s \in Slots
               PROVE  request[s] = "none" /\ (stage = "reset" => run[s] = NoRun)
    OBVIOUS
  <1>1. run[s].pc \in {"none", "ended"} /\ (stage = "reset" => run[s].pc = "none")
    BY DEF IInv, StageExact
  <1> QED BY <1>1, SessionTypes DEF Agrees

\* What a task starts with.
LEMMA Started ==
    ASSUME IInv, NEW s \in Active
    PROVE  LET p == [NoRun EXCEPT !.pc = "loop", !.todo = Indices(s),
                                  !.client_backpressured = OmittedForCapacity(s)]
           IN  /\ p \in Runs /\ p.pc = "loop" /\ p.expected = << >>
               /\ CountsFor(p, Len(Offered(s)))
  <1>1. PICK i : i = Indices(s)
    OBVIOUS
  <1>2. PICK o : o = OmittedForCapacity(s)
    OBVIOUS
  <1>3. PICK n : n = Len(Offered(s))
    OBVIOUS
  <1>4. /\ i \in Seq(Nat) /\ Len(i) <= MaxChunksPerSession /\ o \in Nat /\ Len(i) + o = n
        /\ Len(i) \in Nat
    <2>1. /\ i \in Seq(Nat) /\ Len(i) <= MaxChunksPerSession /\ o \in Nat /\ Len(i) + o = n
      BY <1>1, <1>2, <1>3, IndicesShape
    <2> QED BY <2>1
  <1>5. PICK p : p = [NoRun EXCEPT !.pc = "loop", !.todo = i, !.client_backpressured = o]
    OBVIOUS
  <1>6. /\ p \in Runs /\ p.pc = "loop" /\ p.todo = i /\ p.client_backpressured = o
        /\ p.next_sequence = 0 /\ p.expected = << >> /\ p.records = << >> /\ p.completed = 0
        /\ p.server_throttled = 0 /\ p.failed = 0
    <2>1. NoRun \in Runs
      BY NoTask
    <2>2. p \in Runs
      BY <1>4, <1>5, <2>1 DEF Runs
    <2> QED BY <1>5, <2>2 DEF NoRun
  <1>7. CountsFor(p, n)
    <2>1. /\ Recorded(<< >>, {"complete"}) = 0
          /\ Recorded(<< >>, Kinds \ {"client_backpressure"}) = 0
      BY RecordedNothing
    <2>2. /\ Recorded(p.records, {"complete"}) = 0
          /\ Recorded(p.records, Kinds \ {"client_backpressure"}) = 0
      BY <1>6, <2>1
    <2>3. Len(p.expected) = 0
      BY <1>6
    <2>4. /\ Len(p.expected) + Len(p.todo) <= MaxChunksPerSession
          /\ Len(p.todo) + Recorded(p.records, Kinds \ {"client_backpressure"})
                + p.client_backpressured = n
      BY <1>4, <1>6, <2>2, <2>3
    <2>5. Recorded(p.records, Kinds \ {"client_backpressure"})
              = p.completed + p.server_throttled + p.failed
      BY <1>6, <2>2
    <2> QED BY <1>6, <2>2, <2>3, <2>4, <2>5 DEF CountsFor
  <1> QED BY <1>1, <1>2, <1>3, <1>5, <1>6, <1>7

\* A scenario starts.
LEMMA Resets ==
    ASSUME IInv, Reset
    PROVE  IInv'
  <1>1. /\ stage = "reset" /\ stage' = "running" /\ now' = 0
        /\ log' = [s \in Slots |-> IF Cleared(s) THEN << >> ELSE log[s]]
        /\ run' = [s \in Slots |->
              IF s \in Active
                THEN [NoRun EXCEPT !.pc = "loop", !.todo = Indices(s),
                                   !.client_backpressured = OmittedForCapacity(s)]
                ELSE NoRun]
        /\ UNCHANGED <<scenario, request, reports, lost>>
    BY DEF Reset
  <1>2. /\ \A s \in Active : s \in Slots /\ log'[s] = << >>
        /\ log' \in [Slots -> Seq(Chunks)]
    <2> DEFINE T == Chunks
    <2> HIDE DEF T
    <2>1. log \in [Slots -> Seq(T)] /\ << >> \in Seq(T)
      BY DEF IInv, BenchTypeOK, T
    <2>2. log' \in [Slots -> Seq(T)]
      BY <1>1, <2>1
    <2>3. \A s \in Active : s \in Slots /\ log'[s] = << >>
      BY <1>1, ScenarioShape DEF Cleared
    <2> QED BY <2>2, <2>3 DEF T
  <1>3. ASSUME NEW s \in Active
        PROVE  /\ run'[s] \in Runs /\ run'[s].pc = "loop" /\ run'[s].expected = << >>
               /\ CountsFor(run'[s], Len(Offered(s)))
    <2>1. PICK p : p = [NoRun EXCEPT !.pc = "loop", !.todo = Indices(s),
                                     !.client_backpressured = OmittedForCapacity(s)]
      OBVIOUS
    <2>2. /\ p \in Runs /\ p.pc = "loop" /\ p.expected = << >>
          /\ CountsFor(p, Len(Offered(s)))
      BY <2>1, Started
    <2>3. run'[s] = p
      BY <1>1, <1>2, <2>1
    <2> QED BY <2>2, <2>3
  <1>4. \A s \in Slots : s \notin Active => run'[s] = NoRun
    BY <1>1
  <1>5. run' \in [Slots -> Runs]
    <2>1. \A s \in Slots : run'[s] \in Runs
      BY <1>3, <1>4, NoTask
    <2>2. DOMAIN run' = Slots /\ run' = [s \in Slots |-> run'[s]]
      BY <1>1
    <2> QED BY <2>1, <2>2
  <1>6. BenchTypeOK'
    BY <1>1, <1>2, <1>5 DEF IInv, BenchTypeOK
  <1>7. ASSUME NEW s \in Slots
        PROVE  Agrees(s)' /\ CountsExact(s)'
    <2>1. request'[s] = "none"
      BY <1>1, Quiet
    <2>2. CASE s \in Active
      <3>1. Agrees(s)'
        BY <1>2, <1>3, <2>1, <2>2 DEF Agrees
      <3>2. CountsExact(s)'
        BY <1>1, <1>3, <2>2, CountsKept
      <3> QED BY <3>1, <3>2
    <2>3. CASE s \notin Active
      <3>1. Agrees(s)'
        BY <1>4, <2>1, <2>3, NoTask DEF Agrees
      <3>2. CountsExact(s)'
        BY <1>4, <2>3, NoTask DEF CountsExact
      <3> QED BY <3>1, <3>2
    <2> QED BY <2>2, <2>3
  <1>8. StageExact'
    <2>1. Active' = Active
      BY <1>1 DEF Active, Current
    <2> QED BY <1>1, <1>3, <1>4, <2>1, NoTask DEF StageExact
  <1>9. Verified'
    BY <1>1 DEF IInv, Verified
  <1> QED BY <1>6, <1>7, <1>8, <1>9 DEF IInv

\* A step of the benchmark that only ends the scenario.
LEMMA StageMoves ==
    ASSUME IInv, UNCHANGED <<scenario, run, request, log, reports>>, now' \in Nat,
           lost' \in BOOLEAN, lost => lost',
           stage' \in {"reset", "running", "verify", "done", "failed"}, StageExact'
    PROVE  IInv'
  <1>1. BenchTypeOK'
    BY DEF IInv, BenchTypeOK
  <1>2. \A s \in Slots : Agrees(s)' /\ CountsExact(s)'
    BY Untouched
  <1>3. Verified'
    BY DEF IInv, Verified
  <1> QED BY <1>1, <1>2, <1>3 DEF IInv

\* The tasks have ended.
LEMMA Joins ==
    ASSUME IInv, Join
    PROVE  IInv'
  <1>1. /\ stage = "running" /\ stage' = "verify" /\ \A s \in Active : run[s].pc = "ended"
        /\ UNCHANGED <<scenario, now, run, request, log, reports, lost>>
    BY DEF Join, Joined
  <1>2. StageExact'
    <2>1. Active' = Active
      BY <1>1 DEF Active, Current
    <2> QED BY <1>1, <2>1 DEF IInv, StageExact
  <1> QED BY <1>1, <1>2, StageMoves DEF IInv, BenchTypeOK

\* A task has failed.
LEMMA Aborts ==
    ASSUME IInv, Abort
    PROVE  IInv'
  <1>1. /\ stage' = "failed" /\ \E s \in Active : run[s].pc = "error"
        /\ UNCHANGED <<scenario, now, run, request, log, reports, lost>>
    BY DEF Abort
  <1>2. lost
    BY <1>1, ScenarioShape, SessionTypes DEF Agrees
  <1>3. StageExact'
    BY <1>1, <1>2 DEF StageExact
  <1> QED BY <1>1, <1>3, StageMoves DEF IInv, BenchTypeOK

\* Time passes.
LEMMA Ticks ==
    ASSUME IInv, Tick
    PROVE  IInv'
  <1>1. /\ stage = "running" /\ now' = now + 1
        /\ UNCHANGED <<scenario, stage, run, request, log, reports, lost>>
    BY DEF Tick
  <1>2. StageExact'
    <2>1. Active' = Active
      BY <1>1 DEF Active, Current
    <2> QED BY <1>1, <2>1 DEF IInv, StageExact
  <1> QED BY <1>1, <1>2, StageMoves DEF IInv, BenchTypeOK

\* The connection of a reset or of a verification breaks.
LEMMA Fails ==
    ASSUME IInv, ConnectionFails
    PROVE  IInv'
  <1>1. /\ stage \in {"reset", "verify"} /\ stage' = "failed" /\ lost' = TRUE
        /\ UNCHANGED <<scenario, now, run, request, reports>>
    BY DEF ConnectionFails
  <1>2. StageExact'
    BY <1>1 DEF StageExact
  <1>3. CASE log' = log
    BY <1>1, <1>2, <1>3, StageMoves DEF IInv, BenchTypeOK
  <1>4. CASE stage = "reset" /\ log' = [s \in Slots |-> IF Cleared(s) THEN << >> ELSE log[s]]
    <2>1. log' \in [Slots -> Seq(Chunks)]
      <3> DEFINE T == Chunks
      <3> HIDE DEF T
      <3>1. log \in [Slots -> Seq(T)] /\ << >> \in Seq(T)
        BY DEF IInv, BenchTypeOK, T
      <3>2. log' \in [Slots -> Seq(T)]
        BY <1>4, <3>1
      <3> QED BY <3>2 DEF T
    <2>2. BenchTypeOK'
      BY <1>1, <2>1 DEF IInv, BenchTypeOK
    <2>3. ASSUME NEW s \in Slots
          PROVE  Agrees(s)' /\ CountsExact(s)'
      <3>1. run'[s] = NoRun /\ request'[s] = "none"
        BY <1>1, <1>4, Quiet
      <3>2. Agrees(s)'
        BY <3>1, NoTask DEF Agrees
      <3>3. CountsExact(s)'
        BY <3>1, NoTask DEF CountsExact
      <3> QED BY <3>2, <3>3
    <2>4. Verified'
      BY <1>1 DEF IInv, Verified
    <2> QED BY <1>2, <2>2, <2>3, <2>4 DEF IInv
  <1> QED BY <1>3, <1>4 DEF ConnectionFails

\* What the server's sessions hold is what the tasks expect.
LEMMA AllMatch ==
    ASSUME IInv, stage = "verify"
    PROVE  Report.state_mismatches = 0
  <1>1. ASSUME NEW s \in Active
        PROVE  Matches(s)
    <2>1. s \in Slots /\ run[s].pc = "ended"
      BY ScenarioShape DEF IInv, StageExact
    <2>2. log[s] = run[s].expected
      BY <2>1, SessionTypes DEF Agrees
    <2>3. Recorded(run[s].records, {"complete"}) = Len(run[s].expected)
      BY <2>1, SessionTypes DEF CountsExact, CountsFor
    <2>4. CountOf(s, LAMBDA outcome : outcome = "complete")
              = Recorded(run[s].records, {"complete"})
      <3>1. {k \in DOMAIN run[s].records : run[s].records[k] = "complete"}
                = {k \in DOMAIN run[s].records : run[s].records[k] \in {"complete"}}
        OBVIOUS
      <3> QED BY <3>1 DEF CountOf, Recorded
    <2>5. Len(log[s]) = CountOf(s, LAMBDA outcome : outcome = "complete")
      BY <2>2, <2>3, <2>4
    <2> QED BY <2>2, <2>5 DEF Matches
  <1>2. {s \in Active : ~Matches(s)} = {}
    BY <1>1
  <1>3. Cardinality({s \in Active : ~Matches(s)}) = 0
    BY <1>2, FS_EmptySet
  <1> QED BY <1>3 DEF Report

\* A report more.
LEMMA ReportAdded ==
    ASSUME NEW q, q \in Seq({q[k] : k \in DOMAIN q}), NEW x, NEW p, p = Append(q, x)
    PROVE  /\ p \in Seq({p[k] : k \in DOMAIN p})
           /\ \A k \in DOMAIN p : p[k] = x \/ (k \in DOMAIN q /\ p[k] = q[k])
  <1> DEFINE T == {q[k] : k \in DOMAIN q} \cup {x}
             n == Len(q) + 1
  <1>1. q \in Seq(T) /\ x \in T
    <2> DEFINE S == {q[k] : k \in DOMAIN q}
    <2>1. q \in Seq(S) /\ S \subseteq T
      OBVIOUS
    <2> HIDE DEF S, T
    <2>2. q \in Seq(T)
      BY <2>1
    <2> QED BY <2>2 DEF T
  <1> HIDE DEF T
  <1>2. p \in Seq(T) /\ Len(p) = n /\ DOMAIN p = 1 .. n /\ DOMAIN q = 1 .. Len(q) /\ Len(q) \in Nat
    BY <1>1
  <1>3. p[n] = x /\ \A k \in 1 .. Len(q) : p[k] = q[k]
    BY <1>1
  <1>4. p \in [1 .. n -> {p[k] : k \in DOMAIN p}]
    <2>1. p \in [1 .. n -> T]
      BY <1>2, LenProperties
    <2> QED BY <1>2, <2>1
  <1>5. p \in Seq({p[k] : k \in DOMAIN p})
    <2> DEFINE R == {p[k] : k \in DOMAIN p}
    <2>1. p \in [1 .. n -> R]
      BY <1>4
    <2>2. n \in Nat
      BY <1>2
    <2> HIDE DEF R, n
    <2>3. p \in UNION {[1 .. m -> R] : m \in Nat}
      BY <2>1, <2>2
    <2>4. p \in Seq(R)
      BY <2>3, SeqDef, Zenon
    <2> QED BY <2>4 DEF R
  <1>6. \A k \in DOMAIN p : p[k] = x \/ (k \in DOMAIN q /\ p[k] = q[k])
    BY <1>2, <1>3
  <1> QED BY <1>5, <1>6

\* The sessions are compared and the scenario is over.
LEMMA Verifies ==
    ASSUME IInv, Verify
    PROVE  IInv'
  <1>1. /\ stage = "verify" /\ reports' = Append(reports, Report)
        /\ \/ scenario < Len(Scenarios) /\ scenario' = scenario + 1 /\ stage' = "reset"
           \/ scenario' = scenario /\ stage' = "done"
        /\ now' = 0
        /\ run' = [s \in Slots |-> NoRun]
        /\ UNCHANGED <<request, log, lost>>
    BY DEF Verify
  <1>2. PICK x : x = Report
    OBVIOUS
  <1>3. /\ reports' \in Seq({reports'[k] : k \in DOMAIN reports'})
        /\ \A k \in DOMAIN reports' :
              reports'[k] = x \/ (k \in DOMAIN reports /\ reports'[k] = reports[k])
    <2>1. reports \in Seq({reports[k] : k \in DOMAIN reports})
      BY DEF IInv, BenchTypeOK
    <2>2. reports' = Append(reports, x)
      BY <1>1, <1>2
    <2> QED BY <2>1, <2>2, ReportAdded
  <1>4. run' \in [Slots -> Runs] /\ \A s \in Slots : run'[s] = NoRun
    BY <1>1, NoTask
  <1>5. scenario' \in 1 .. Len(Scenarios)
    <2> DEFINE T == [sessions : 1 .. SessionSlots, offered : Nat \ {0}]
    <2> HIDE DEF T
    <2>1. Scenarios \in Seq(T)
      BY BenchAssumption DEF T
    <2>2. Len(Scenarios) \in Nat
      BY <2>1
    <2>3. scenario \in 1 .. Len(Scenarios)
      BY DEF IInv, BenchTypeOK
    <2> QED BY <1>1, <2>2, <2>3
  <1>6. BenchTypeOK'
    BY <1>1, <1>3, <1>4, <1>5 DEF IInv, BenchTypeOK
  <1>7. ASSUME NEW s \in Slots
        PROVE  Agrees(s)' /\ CountsExact(s)'
    <2>1. run'[s] = NoRun /\ request'[s] = "none"
      BY <1>1, <1>4, Quiet
    <2>2. Agrees(s)'
      BY <2>1, NoTask DEF Agrees
    <2>3. CountsExact(s)'
      BY <2>1, NoTask DEF CountsExact
    <2> QED BY <2>2, <2>3
  <1>8. StageExact'
    BY <1>1, <1>4, NoTask DEF StageExact
  <1>9. Verified'
    <2>1. x.state_mismatches = 0
      BY <1>1, <1>2, AllMatch
    <2>2. \A k \in DOMAIN reports : reports[k].state_mismatches = 0
      BY DEF IInv, Verified
    <2> QED BY <1>3, <2>1, <2>2 DEF Verified
  <1> QED BY <1>6, <1>7, <1>8, <1>9 DEF IInv

\* Every step preserves the invariant.
LEMMA NextIInv == IInv /\ [Next]_vars => IInv'
  <1> SUFFICES ASSUME IInv, [Next]_vars PROVE IInv'
    OBVIOUS
  <1>1. CASE Reset
    BY <1>1, Resets
  <1>2. CASE Join
    BY <1>2, Joins
  <1>3. CASE Abort
    BY <1>3, Aborts
  <1>4. CASE Verify
    BY <1>4, Verifies
  <1>5. CASE ConnectionFails
    BY <1>5, Fails
  <1>6. CASE Tick
    BY <1>6, Ticks
  <1>7. CASE UNCHANGED vars
    <2>1. StageExact'
      BY <1>7 DEF IInv, StageExact, vars, Active, Current
    <2> QED BY <1>7, <2>1, StageMoves DEF IInv, BenchTypeOK, vars
  <1>8. CASE \E s \in Slots : SessionStep(s) \/ Serve(s) \/ Break(s)
    <2>1. PICK s \in Slots : SessionStep(s) \/ Serve(s) \/ Break(s)
      BY <1>8
    <2>2. CASE Skip(s)
      BY <2>2, Skips
    <2>3. CASE Send(s)
      BY <2>3, Sends
    <2>4. CASE Receive(s)
      BY <2>4, Receives
    <2>5. CASE EndSession(s)
      BY <2>5, Ends
    <2>6. CASE Serve(s)
      BY <2>6, Serves
    <2>7. CASE Break(s)
      BY <2>7, Breaks
    <2> QED BY <2>1, <2>2, <2>3, <2>4, <2>5, <2>6, <2>7 DEF SessionStep
  <1> QED BY <1>1, <1>2, <1>3, <1>4, <1>5, <1>6, <1>7, <1>8 DEF Next, BenchStep, Over

-----------------------------------------------------------------------------
(* The theorems *)

\* The tasks, their requests and the server's sessions stay in step, whatever
\* is throttled, fails, is held back or breaks (run_session, run_scenario).
THEOREM Invariance == Spec => []IInv
  BY InitIInv, NextIInv, PTL DEF Spec

\* A benchmark that ends in an error has lost a connection: the lab never
\* refuses a chunk of run_session for its sequence number or for want of room.
THEOREM FailureCorrect == Spec => []FailsOnlyOnLoss
  <1>1. IInv => FailsOnlyOnLoss
    <2> SUFFICES ASSUME IInv PROVE FailsOnlyOnLoss
      OBVIOUS
    <2>1. stage = "failed" => lost
      BY DEF IInv, StageExact
    <2>2. ASSUME NEW s \in Slots
          PROVE  request[s] \notin {"conflict", "state_full"}
      BY SessionTypes DEF Agrees, Runs
    <2> QED BY <2>1, <2>2 DEF FailsOnlyOnLoss
  <1> QED BY <1>1, Invariance, PTL

\* No report has a mismatch: after every scenario the sessions of the server
\* hold exactly the text that the tasks of run_session expect.
THEOREM VerificationCorrect == Spec => []Verified
  <1>1. IInv => Verified
    BY DEF IInv
  <1> QED BY <1>1, Invariance, PTL

\* The numbers of each session add up when its task has ended: a chunk it was
\* offered was attempted or held back, an attempted one completed, throttled
\* or failed.
SessionsConserve ==
    \A s \in Slots : run[s].pc = "ended" =>
        /\ Len(Offered(s)) = CountOf(s, LAMBDA outcome : outcome # "client_backpressure")
                                + run[s].client_backpressured
        /\ CountOf(s, LAMBDA outcome : outcome # "client_backpressure")
               = run[s].completed + run[s].server_throttled + run[s].failed

\* What a task has counted at its end is what its session was offered.
LEMMA SessionsAddUp == IInv => SessionsConserve
  <1> SUFFICES ASSUME IInv, NEW s \in Slots, run[s].pc = "ended"
               PROVE  /\ Len(Offered(s))
                             = CountOf(s, LAMBDA outcome : outcome # "client_backpressure")
                                  + run[s].client_backpressured
                      /\ CountOf(s, LAMBDA outcome : outcome # "client_backpressure")
                             = run[s].completed + run[s].server_throttled + run[s].failed
    BY DEF SessionsConserve
  <1>1. PICK r \in Runs : r = run[s]
    BY SessionTypes
  <1>2. r.pc = "ended" /\ r.todo = << >> /\ CountsFor(r, Len(Offered(s)))
    BY <1>1, SessionTypes DEF Agrees, CountsExact
  <1>3. PICK a : a = Recorded(r.records, Kinds \ {"client_backpressure"})
    OBVIOUS
  <1>4. CountOf(s, LAMBDA outcome : outcome # "client_backpressure") = a
    <2>1. ASSUME NEW k \in DOMAIN r.records
          PROVE  r.records[k] \in Kinds
      <3> DEFINE T == Kinds
      <3> HIDE DEF T
      <3>1. r.records \in Seq(T)
        BY DEF Runs, T
      <3>2. r.records[k] \in T
        BY <3>1
      <3> QED BY <3>2 DEF T
    <2>2. {k \in DOMAIN r.records : r.records[k] # "client_backpressure"}
              = {k \in DOMAIN r.records : r.records[k] \in Kinds \ {"client_backpressure"}}
      BY <2>1
    <2> QED BY <1>1, <1>3, <2>2 DEF CountOf, Recorded
  <1>5. a = r.completed + r.server_throttled + r.failed /\ a \in Nat
    <2>1. a = r.completed + r.server_throttled + r.failed
      BY <1>2, <1>3 DEF CountsFor
    <2> QED BY <2>1, RunShape
  <1>6. Len(r.todo) + a + r.client_backpressured = Len(Offered(s))
    BY <1>2, <1>3 DEF CountsFor
  <1>7. Len(Offered(s)) = a + r.client_backpressured
    <2>1. Len(r.todo) = 0
      BY <1>2
    <2>2. r.client_backpressured \in Nat
      BY RunShape
    <2> QED BY <1>5, <1>6, <2>1, <2>2
  <1> QED BY <1>1, <1>4, <1>5, <1>7

\* What run_scenario adds up is exact for every session.
THEOREM SessionsConserved == Spec => []SessionsConserve
  BY SessionsAddUp, Invariance, PTL

\* run_scenario offers every chunk to one session (step_by).
LEMMA EveryChunkOffered ==
    ASSUME IInv
    PROVE  SumOver([s \in Active |-> Len(Offered(s))], Active) = Current.offered
  <1> DEFINE f == [s \in Active |-> Len(Offered(s))]
  <1>1. PICK m \in Nat \ {0} : m = Current.sessions
    BY ScenarioShape
  <1>2. PICK n \in Nat : n = Current.offered
    BY ScenarioShape
  <1>3. Active = 0 .. m - 1
    BY <1>1 DEF Active
  <1>4. ASSUME NEW s \in 0 .. m - 1
        PROVE  f[s] = IF s < n THEN 1 + (n - s - 1) \div m ELSE 0
    <2> DEFINE k == IF s < n THEN 1 + (n - s - 1) \div m ELSE 0
    <2>1. k \in Nat
      <3>1. CASE s < n
        <4>1. n - s - 1 \in Nat
          BY <3>1
        <4>2. (n - s - 1) \div m \in Nat
          BY <4>1, QuotientFits
        <4> QED BY <4>2
      <3>2. CASE ~(s < n)
        BY <3>2
      <3> QED BY <3>1, <3>2
    <2>2. Offered(s) = [j \in 1 .. k |-> s + (j - 1) * m]
      BY <1>1, <1>2 DEF Offered
    <2> HIDE DEF k
    <2>3. Len(Offered(s)) = k
      BY <2>1, <2>2
    <2>4. f[s] = k
      BY <1>3, <2>3
    <2> QED BY <2>4 DEF k
  <1> HIDE DEF f
  <1>5. SumOver(f, 0 .. m - 1) = n
    BY <1>4, DealtOut
  <1> QED BY <1>2, <1>3, <1>5 DEF f

\* The numbers of a scenario add up because those of its sessions do.
LEMMA ReportAddsUp ==
    ASSUME IInv, stage = "verify"
    PROVE  /\ Report.offered = Report.attempted + Report.client_backpressured
           /\ Report.attempted = Report.completed + Report.server_throttled + Report.failed
  <1> DEFINE o == [s \in Active |-> Len(Offered(s))]
             a == [s \in Active |->
                      CountOf(s, LAMBDA outcome : outcome # "client_backpressure")]
             b == [s \in Active |-> run[s].client_backpressured]
             c == [s \in Active |-> run[s].completed]
             t == [s \in Active |-> run[s].server_throttled]
             f == [s \in Active |-> run[s].failed]
             e == [s \in Active |-> run[s].completed + run[s].server_throttled]
  <1>1. ASSUME NEW s \in Active
        PROVE  /\ a[s] \in Nat /\ b[s] \in Nat /\ c[s] \in Nat /\ t[s] \in Nat /\ f[s] \in Nat
               /\ o[s] = a[s] + b[s]
               /\ a[s] = e[s] + f[s]
               /\ e[s] \in Nat /\ e[s] = c[s] + t[s]
    <2>1. s \in Slots /\ run[s].pc = "ended"
      BY ScenarioShape DEF IInv, StageExact
    <2>2. PICK x : x = CountOf(s, LAMBDA outcome : outcome # "client_backpressure")
      OBVIOUS
    <2>3. /\ Len(Offered(s)) = x + run[s].client_backpressured
          /\ x = run[s].completed + run[s].server_throttled + run[s].failed
      BY <2>1, <2>2, SessionsAddUp DEF SessionsConserve
    <2>4. /\ run[s].client_backpressured \in Nat /\ run[s].completed \in Nat
          /\ run[s].server_throttled \in Nat /\ run[s].failed \in Nat
      BY <2>1, SessionTypes, RunShape
    <2>5. /\ a[s] = x /\ b[s] = run[s].client_backpressured /\ c[s] = run[s].completed
          /\ t[s] = run[s].server_throttled /\ f[s] = run[s].failed
          /\ o[s] = Len(Offered(s)) /\ e[s] = run[s].completed + run[s].server_throttled
      BY <2>2
    <2> HIDE DEF o, a, b, c, t, f, e
    <2> QED BY <2>3, <2>4, <2>5
  <1>2. IsFiniteSet(Active)
    BY ScenarioShape, FS_Interval DEF Active
  <1>3. /\ Report.offered = SumOver(o, Active)
        /\ Report.attempted = SumOver(a, Active)
        /\ Report.client_backpressured = SumOver(b, Active)
        /\ Report.completed = SumOver(c, Active)
        /\ Report.server_throttled = SumOver(t, Active)
        /\ Report.failed = SumOver(f, Active)
    BY EveryChunkOffered DEF Report, Total
  <1> HIDE DEF o, a, b, c, t, f, e
  <1>4. SumOver(o, Active) = SumOver(a, Active) + SumOver(b, Active)
    BY <1>1, <1>2, SumAdds
  <1>5. SumOver(a, Active) = SumOver(e, Active) + SumOver(f, Active)
    BY <1>1, <1>2, SumAdds
  <1>6. SumOver(e, Active) = SumOver(c, Active) + SumOver(t, Active)
    BY <1>1, <1>2, SumAdds
  <1> QED BY <1>3, <1>4, <1>5, <1>6

\* Every report of bench adds up over its sessions: every offered chunk was
\* attempted or held back, every attempted one completed, throttled or failed
\* (run_scenario).
THEOREM ConservationCorrect == Spec => []Conservation
  <1>1. Init => Conservation
    BY DEF Init, Conservation
  <1>2. IInv /\ Conservation /\ [Next]_vars => Conservation'
    <2> SUFFICES ASSUME IInv, Conservation, [Next]_vars PROVE Conservation'
      OBVIOUS
    <2>1. CASE Verify
      <3>1. PICK x : x = Report
        OBVIOUS
      <3>2. \A k \in DOMAIN reports' :
                reports'[k] = x \/ (k \in DOMAIN reports /\ reports'[k] = reports[k])
        <4>1. reports \in Seq({reports[k] : k \in DOMAIN reports})
          BY DEF IInv, BenchTypeOK
        <4>2. reports' = Append(reports, x)
          BY <2>1, <3>1 DEF Verify
        <4> QED BY <4>1, <4>2, ReportAdded
      <3>3. /\ x.offered = x.attempted + x.client_backpressured
            /\ x.attempted = x.completed + x.server_throttled + x.failed
        BY <2>1, <3>1, ReportAddsUp DEF Verify
      <3> QED BY <3>2, <3>3 DEF Conservation
    <2>2. CASE UNCHANGED reports
      BY <2>2 DEF Conservation
    <2> QED BY <2>1, <2>2 DEF Next, BenchStep, Reset, Join, Abort, ConnectionFails, Tick, Over,
                              SessionStep, Skip, Send, Receive, EndSession, Serve, Break, vars
  <1> QED BY <1>1, <1>2, Invariance, PTL DEF Spec
=============================================================================

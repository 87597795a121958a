---------------------------- MODULE RunnerProofs ----------------------------
(***************************************************************************)
(* Machine-checked proofs about Runner, for both binaries, any module, any *)
(* limits and any amount of fuel.                                          *)
(***************************************************************************)
EXTENDS Runner, TLAPS

Layers  == Limits \cup {"no_new_privs", "landlock", "seccomp"}
Parsing == {"validate", "compile", "instantiate", "call", "write"}

\* The steps that are done when the runner is at the k-th.
Before(k) == {Steps[j] : j \in 1 .. k - 1}

\* The layers in force are those whose step is done: a step that fails is the
\* last one.
LayersExact ==
    /\ applied = Before(pc) \cap Layers
    /\ "close_fds" \in Before(pc) => fds \subseteq Stdio
    /\ nofile = 3 => "NOFILE" \in Before(pc)

\* How the runner ended, and what it had done by then.
OutcomeExact ==
    /\ status = "failed" <=> cause # "none"
    /\ "call" \in Before(pc) => returned
    /\ status = "succeeded" => /\ pc = Len(Steps) /\ returned
                               /\ Kind = "lab" => output = "full"

\* The parent looks at a runner that has ended.
VerdictExact ==
    verdict # "waiting" => /\ status # "running"
                           /\ verdict = "accepted" <=> Accepts

\* The runner of the lab opens its ruleset before it limits descriptors.
RoomForRuleset == Kind = "lab" => cause # "descriptor"

\* The inductive invariant.
IInv ==
    /\ TypeOK
    /\ LayersExact
    /\ OutcomeExact
    /\ VerdictExact
    /\ RoomForRuleset

-----------------------------------------------------------------------------
(* The order of the steps *)

\* Both runners have sixteen steps.
LEMMA StepsLen == Len(Steps) = 16
  BY DEF Steps, SchedulerSteps, LabSteps

\* The module is looked at from the twelfth step on; by then every layer has
\* had its step.
LEMMA ParsingIsLate ==
    /\ \A k \in 1 .. 16 : Steps[k] \in Parsing => k >= 12
    /\ \A x \in Layers \cup {"close_fds"} : \E j \in 1 .. 11 : Steps[j] = x
  <1> USE RunnerAssumption DEF Parsing, Layers, Limits
  <1>1. CASE Kind = "scheduler"
    <2>1. Steps = SchedulerSteps
      BY <1>1 DEF Steps
    <2>2. \A k \in 1 .. 11 : SchedulerSteps[k] \notin Parsing
      BY DEF SchedulerSteps
    <2>3. \A x \in Layers \cup {"close_fds"} : \E j \in 1 .. 11 : SchedulerSteps[j] = x
      BY DEF SchedulerSteps
    <2> QED BY <2>1, <2>2, <2>3
  <1>2. CASE Kind = "lab"
    <2>1. Steps = LabSteps
      BY <1>2 DEF Steps
    <2>2. \A k \in 1 .. 11 : LabSteps[k] \notin Parsing
      BY DEF LabSteps
    <2>3. \A x \in Layers \cup {"close_fds"} : \E j \in 1 .. 11 : LabSteps[j] = x
      BY DEF LabSteps
    <2> QED BY <2>1, <2>2, <2>3
  <1> QED BY <1>1, <1>2

\* The last step is the guest's, or the output of its result.
LEMMA LastStep ==
    /\ Kind = "lab" => Steps[16] = "write" /\ "call" \in Before(16)
    /\ Kind = "scheduler" => Steps[16] = "call"
    /\ \A k \in 1 .. 15 : Steps[k] # "write"
  <1>1. CASE Kind = "scheduler"
    BY <1>1 DEF Steps, SchedulerSteps
  <1>2. CASE Kind = "lab"
    <2>1. Steps[15] = "call" /\ Steps[16] = "write" /\ \A k \in 1 .. 15 : Steps[k] # "write"
      BY <1>2 DEF Steps, LabSteps
    <2> QED BY <1>2, <2>1 DEF Before
  <1> QED BY <1>1, <1>2, RunnerAssumption

\* The runner of the lab opens the ruleset of Landlock, then sets NOFILE.
LEMMA LimitAfterRuleset ==
    ASSUME Kind = "lab", NEW k \in 1 .. 16, Steps[k] = "landlock"
    PROVE  "NOFILE" \notin Before(k)
  <1>1. k = 9 /\ \A j \in 1 .. 8 : Steps[j] # "NOFILE"
    BY DEF Steps, LabSteps
  <1> QED BY <1>1 DEF Before

\* One more step is done.
LEMMA BeforeNext ==
    ASSUME NEW k \in 1 .. 16
    PROVE  Before(k + 1) = Before(k) \cup {Steps[k]}
  BY DEF Before

\* A runner that looks at the module is in its sandbox.
LEMMA InSandbox ==
    ASSUME IInv, Steps[pc] \in Parsing
    PROVE  Sandboxed
  <1>1. pc \in 1 .. 16 /\ pc >= 12
    BY StepsLen, ParsingIsLate DEF IInv, TypeOK
  <1>2. Layers \cup {"close_fds"} \subseteq Before(pc)
    BY <1>1, ParsingIsLate DEF Before
  <1> QED BY <1>2 DEF IInv, LayersExact, Sandboxed, Layers

\* A step that is not the last is done and the runner goes on.
LEMMA Advances ==
    ASSUME IInv, Advance, status = "running", Steps[pc] \notin {"call", "write"}
    PROVE  /\ pc' = pc + 1 /\ pc' \in 1 .. 16 /\ pc \in 1 .. 15
           /\ status' = status /\ cause' = cause
           /\ Before(pc') = Before(pc) \cup {Steps[pc]}
  <1>1. pc \in 1 .. 16 /\ pc # 16
    BY StepsLen, LastStep, RunnerAssumption DEF IInv, TypeOK
  <1> QED BY <1>1, StepsLen, BeforeNext DEF Advance

-----------------------------------------------------------------------------
(* The invariant *)

\* A fresh runner has done nothing yet.
LEMMA InitIInv == Init => IInv
  <1> SUFFICES ASSUME Init PROVE IInv
    OBVIOUS
  <1> USE RunnerAssumption DEF Init
  <1>1. module \in Modules
    <2>1. SmokeModule \in Modules
      <3>1. [plain |-> TRUE, initial |-> MaxPages, maximum |-> MaxPages] \in Memories
        BY DEF Memories
      <3> DEFINE M == {<< >>} \cup {<<m>> : m \in Memories} \cup {<<m, m>> : m \in Memories}
      <3>2. SmokeModule.memories \in M
        BY <3>1 DEF SmokeModule
      <3> HIDE DEF M
      <3>3. Modules = [wellformed : BOOLEAN, imports : BOOLEAN, component : BOOLEAN,
                       start : BOOLEAN, exports : BOOLEAN, memories : M]
        BY DEF Modules, M
      <3> QED BY <3>2, <3>3 DEF SmokeModule
    <2> QED BY <2>1
  <1>2. Before(1) = {}
    BY DEF Before
  <1>3. TypeOK
    <2>1. fds \subseteq 0 .. 3 /\ nofile \in {3, Unlimited}
      BY DEF Stdio
    <2>2. fuel \in 0 .. Fuel /\ pages \in 0 .. MaxPages /\ pc \in 1 .. Len(Steps)
      BY StepsLen
    <2> QED BY <1>1, <2>1, <2>2 DEF TypeOK
  <1>4. LayersExact
    BY <1>2 DEF LayersExact, Unlimited
  <1>5. OutcomeExact
    BY <1>2 DEF OutcomeExact
  <1> QED BY <1>3, <1>4, <1>5 DEF IInv, VerdictExact, RoomForRuleset

\* A step fails and changes nothing that matters: the runner ends there.
LEMMA FailIInv ==
    ASSUME IInv, status = "running", NEW why \in {"input", "kernel", "module", "descriptor"},
           Fail(why), Kind = "lab" => why # "descriptor",
           UNCHANGED <<module, kernel, fuel, pages, returned, verdict>>,
           output' \in {"none", "partial", "full"}
    PROVE  IInv'
  <1> USE DEF IInv
  <1>1. pc' = pc /\ status' = "failed" /\ cause' = why /\ verdict = "waiting"
    BY DEF Fail, VerdictExact
  <1>2. TypeOK'
    BY <1>1 DEF TypeOK, kernel
  <1>3. LayersExact'
    BY <1>1 DEF LayersExact, kernel
  <1>4. OutcomeExact'
    BY <1>1 DEF OutcomeExact
  <1>5. VerdictExact' /\ RoomForRuleset'
    BY <1>1 DEF VerdictExact, RoomForRuleset
  <1> QED BY <1>2, <1>3, <1>4, <1>5

\* A step before the guest runs succeeds.
LEMMA HostIInv ==
    ASSUME IInv, status = "running", Advance, Steps[pc] \notin {"call", "write"},
           UNCHANGED <<module, fuel, returned, output, verdict>>,
           pages' \in 0 .. MaxPages,
           fds' \subseteq fds, Steps[pc] = "close_fds" => fds' \subseteq Stdio,
           applied' = applied \cup ({Steps[pc]} \cap Layers),
           nofile' = nofile \/ (nofile' = 3 /\ Steps[pc] = "NOFILE")
    PROVE  IInv'
  <1> USE DEF IInv
  <1>1. /\ pc' = pc + 1 /\ pc' \in 1 .. 16
        /\ status' = "running" /\ cause' = cause
        /\ Before(pc') = Before(pc) \cup {Steps[pc]}
    BY Advances
  <1>2. TypeOK'
    <2>1. applied' \subseteq Limits \cup {"no_new_privs", "landlock", "seccomp"}
      BY DEF TypeOK, Layers
    <2>2. fds' \subseteq 0 .. 3 /\ nofile' \in {3, Unlimited}
      BY DEF TypeOK
    <2> QED BY <1>1, <2>1, <2>2, StepsLen DEF TypeOK
  <1>3. LayersExact'
    BY <1>1 DEF LayersExact
  <1>4. OutcomeExact'
    BY <1>1 DEF OutcomeExact
  <1>5. VerdictExact' /\ RoomForRuleset'
    BY <1>1 DEF VerdictExact, RoomForRuleset
  <1> QED BY <1>2, <1>3, <1>4, <1>5

\* The steps that prepare the sandbox.
LEMMA SandboxIInv ==
    ASSUME IInv, Read \/ NoEffect \/ CloseFds \/ Layer \/ SetLimit \/ Landlock
    PROVE  IInv'
  <1> USE DEF At, guest, kernel
  <1>1. status = "running" /\ pages \in 0 .. MaxPages /\ output \in {"none", "partial", "full"}
    BY DEF IInv, TypeOK, Read, NoEffect, CloseFds, Layer, SetLimit, Landlock
  <1>2. CASE Read
    BY <1>1, <1>2, FailIInv, HostIInv DEF Read, Layers, Limits
  <1>3. CASE NoEffect
    BY <1>1, <1>3, HostIInv DEF NoEffect, Layers, Limits
  <1>4. CASE CloseFds
    <2>1. CASE fds' = fds /\ Fail("kernel")
      BY <1>1, <1>4, <2>1, FailIInv DEF CloseFds
    <2>2. CASE fds' = fds \cap Stdio /\ Advance
      BY <1>1, <1>4, <2>2, HostIInv DEF CloseFds, Layers, Limits
    <2> QED BY <1>4, <2>1, <2>2 DEF CloseFds
  <1>5. CASE Layer
    <2>1. PICK layer \in {"no_new_privs", "seccomp"} :
              /\ At(layer)
              /\ \/ applied' = applied \cup {layer} /\ Advance
                 \/ applied' = applied /\ Fail("kernel")
              /\ UNCHANGED <<module, fds, nofile, guest, verdict>>
      BY <1>5 DEF Layer
    <2>2. CASE applied' = applied /\ Fail("kernel")
      BY <1>1, <2>1, <2>2, FailIInv
    <2>3. CASE applied' = applied \cup {layer} /\ Advance
      BY <1>1, <2>1, <2>3, HostIInv DEF Layers
    <2> QED BY <2>1, <2>2, <2>3
  <1>6. CASE SetLimit
    <2>1. PICK limit \in Limits :
              /\ At(limit)
              /\ \/ /\ applied' = applied \cup {limit}
                    /\ nofile' = IF limit = "NOFILE" THEN 3 ELSE nofile
                    /\ Advance
                 \/ UNCHANGED <<applied, nofile>> /\ Fail("kernel")
              /\ UNCHANGED <<module, fds, guest, verdict>>
      BY <1>6 DEF SetLimit
    <2>2. CASE UNCHANGED <<applied, nofile>> /\ Fail("kernel")
      BY <1>1, <2>1, <2>2, FailIInv
    <2>3. CASE /\ applied' = applied \cup {limit} /\ Advance
               /\ nofile' = IF limit = "NOFILE" THEN 3 ELSE nofile
      <3>1. limit \notin {"call", "write", "close_fds"} /\ limit \in Layers
        BY DEF Limits, Layers
      <3> QED BY <1>1, <2>1, <2>3, <3>1, HostIInv
    <2> QED BY <2>1, <2>2, <2>3
  <1>7. CASE Landlock
    <2>1. At("landlock") /\ UNCHANGED <<module, fds, nofile, guest, verdict>>
      BY <1>7 DEF Landlock
    <2>2. CASE applied' = applied \cup {"landlock"} /\ Advance
      BY <1>1, <2>1, <2>2, HostIInv DEF Layers
    <2>3. CASE applied' = applied /\ Fail("kernel")
      BY <1>1, <2>1, <2>3, FailIInv
    <2>4. CASE /\ ~\E fd \in 0 .. nofile - 1 : fd \notin fds
               /\ applied' = applied /\ Fail("descriptor")
      <3>1. ASSUME Kind = "lab" PROVE FALSE
        <4>1. pc \in 1 .. 16 /\ fds \subseteq 0 .. 3 /\ nofile \in {3, Unlimited}
          BY StepsLen DEF IInv, TypeOK
        <4>2. nofile = 5
          BY <2>1, <3>1, <4>1, LimitAfterRuleset DEF IInv, LayersExact, Unlimited
        <4>3. 4 \in 0 .. nofile - 1 /\ 4 \notin fds
          BY <4>1, <4>2
        <4> QED BY <2>4, <4>3
      <3> QED BY <1>1, <2>1, <2>4, <3>1, FailIInv
    <2> QED BY <1>7, <2>2, <2>3, <2>4 DEF Landlock
  <1> QED BY <1>2, <1>3, <1>4, <1>5, <1>6, <1>7

\* The module is validated, compiled and instantiated.
LEMMA LoadIInv ==
    ASSUME IInv, Validate \/ Compile \/ Instantiate
    PROVE  IInv'
  <1> USE DEF At, guest, kernel
  <1>1. /\ status = "running" /\ pages \in 0 .. MaxPages /\ output \in {"none", "partial", "full"}
        /\ module \in Modules
    BY DEF IInv, TypeOK, Validate, Compile, Instantiate
  <1>2. CASE Validate
    BY <1>1, <1>2, FailIInv, HostIInv DEF Validate, Layers, Limits
  <1>3. CASE Compile
    BY <1>1, <1>3, FailIInv, HostIInv DEF Compile, Layers, Limits
  <1>4. CASE Instantiate
    <2> DEFINE initial == IF module.memories = << >> THEN 0 ELSE module.memories[1].initial
    <2>1. initial \in Nat
      <3>1. module.memories \in {<< >>} \cup {<<m>> : m \in Memories} \cup {<<m, m>> : m \in Memories}
        BY <1>1 DEF Modules
      <3>2. \A m \in Memories : m.initial \in Nat
        BY RunnerAssumption DEF Memories
      <3> QED BY <3>1, <3>2
    <2>2. /\ At("instantiate")
          /\ UNCHANGED <<module, kernel, fuel, returned, output, verdict>>
          /\ \/ initial <= MaxPages /\ pages' = initial /\ Advance
             \/ UNCHANGED pages /\ Fail("module")
      BY <1>4 DEF Instantiate
    <2> HIDE DEF initial
    <2>3. CASE UNCHANGED pages /\ Fail("module")
      BY <1>1, <2>2, <2>3, FailIInv
    <2>4. CASE initial <= MaxPages /\ pages' = initial /\ Advance
      <3>1. pages' \in 0 .. MaxPages
        BY <2>1, <2>4, RunnerAssumption
      <3> QED BY <1>1, <2>2, <2>4, <3>1, HostIInv DEF Layers, Limits
    <2> QED BY <2>2, <2>3, <2>4
  <1> QED BY <1>2, <1>3, <1>4

\* The guest executes, grows its memory, traps or returns.
LEMMA GuestIInv ==
    ASSUME IInv, GuestStep
    PROVE  IInv'
  <1> USE RunnerAssumption DEF At, guest, kernel
  <1>1. /\ status = "running" /\ Steps[pc] = "call" /\ ~returned /\ verdict = "waiting"
        /\ pc \in 1 .. 16 /\ pages \in 0 .. MaxPages /\ fuel \in 0 .. Fuel
        /\ UNCHANGED <<module, kernel, output, verdict>>
        /\ output \in {"none", "partial", "full"}
    BY StepsLen DEF IInv, TypeOK, VerdictExact, GuestStep, Execute, Trap, Grow, Return
  <1>2. CASE Fail("module") /\ UNCHANGED <<pages, returned>>
    <2>1. CASE UNCHANGED fuel
      BY <1>1, <1>2, <2>1, FailIInv
    <2>2. CASE fuel > 0 /\ fuel' = fuel - 1
      <3> USE DEF IInv
      <3>1. pc' = pc /\ status' = "failed" /\ cause' = "module" /\ fuel' \in 0 .. Fuel
        BY <1>1, <1>2, <2>2 DEF Fail
      <3>2. TypeOK'
        BY <1>1, <1>2, <3>1 DEF TypeOK
      <3>3. LayersExact'
        BY <1>1, <3>1 DEF LayersExact
      <3>4. OutcomeExact'
        BY <1>2, <3>1 DEF OutcomeExact
      <3> QED BY <1>1, <3>1, <3>2, <3>3, <3>4 DEF VerdictExact, RoomForRuleset
    <2> QED BY <1>2, <2>1, <2>2 DEF GuestStep, Execute, Trap, Grow, Return, Fail
  <1>3. CASE /\ fuel > 0 /\ fuel' = fuel - 1
             /\ pages' \in 0 .. MaxPages
             /\ UNCHANGED <<pc, status, cause, returned>>
    <2> USE DEF IInv
    <2>1. TypeOK'
      BY <1>1, <1>3 DEF TypeOK
    <2>2. LayersExact'
      BY <1>1, <1>3 DEF LayersExact
    <2>3. OutcomeExact'
      BY <1>1, <1>3 DEF OutcomeExact
    <2> QED BY <1>1, <1>3, <2>1, <2>2, <2>3 DEF VerdictExact, RoomForRuleset
  <1>4. CASE Return
    <2> USE DEF IInv
    <2>1. /\ returned' = TRUE /\ UNCHANGED <<fuel, pages>> /\ cause' = cause
          /\ \/ pc = 16 /\ pc' = 16 /\ status' = "succeeded"
             \/ pc \in 1 .. 15 /\ pc' = pc + 1 /\ status' = "running"
      BY <1>1, <1>4, StepsLen DEF Return, Advance
    <2>2. TypeOK'
      BY <1>1, <2>1, StepsLen DEF TypeOK
    <2>3. Before(pc') \cap (Layers \cup {"close_fds", "NOFILE"}) =
              Before(pc) \cap (Layers \cup {"close_fds", "NOFILE"})
      BY <1>1, <2>1, BeforeNext DEF Layers, Limits
    <2>4. LayersExact'
      BY <1>1, <2>1, <2>3 DEF LayersExact
    <2>5. Kind # "lab" \/ pc # 16
      BY <1>1, LastStep
    <2>6. OutcomeExact'
      BY <1>1, <2>1, <2>5, StepsLen DEF OutcomeExact
    <2> QED BY <1>1, <2>1, <2>2, <2>4, <2>6 DEF VerdictExact, RoomForRuleset
  <1>5. CASE Execute
    BY <1>1, <1>2, <1>3, <1>5 DEF Execute
  <1>6. CASE Trap
    BY <1>2, <1>6 DEF Trap
  <1>7. CASE Grow
    <2>1. CASE MayGrow(pages + 1)
      <3>1. pages + 1 \in 0 .. MaxPages
        BY <1>1, <2>1 DEF MayGrow
      <3> QED BY <1>3, <1>7, <2>1, <3>1 DEF Grow
    <2>2. CASE ~MayGrow(pages + 1)
      BY <1>2, <1>7, <2>2 DEF Grow
    <2> QED BY <2>1, <2>2
  <1> QED BY <1>4, <1>5, <1>6, <1>7 DEF GuestStep

\* The result is written, or not, or in part.
LEMMA OutputIInv ==
    ASSUME IInv, WriteOutput
    PROVE  IInv'
  <1> USE RunnerAssumption DEF At, IInv
  <1>1. /\ status = "running" /\ Steps[pc] = "write" /\ pc \in 1 .. 16 /\ verdict = "waiting"
        /\ UNCHANGED <<module, kernel, fuel, pages, returned, verdict>>
    BY StepsLen DEF WriteOutput, TypeOK, VerdictExact
  <1>2. pc = 16 /\ Kind = "lab"
    BY <1>1, LastStep
  <1>3. CASE output' \in {"none", "partial"} /\ Fail("kernel")
    BY <1>1, <1>3, FailIInv
  <1>4. CASE output' = "full" /\ Advance
    <2>1. pc' = pc /\ status' = "succeeded" /\ cause' = cause
      BY <1>2, <1>4, StepsLen DEF Advance
    <2>2. returned
      BY <1>2, LastStep DEF OutcomeExact
    <2>3. TypeOK'
      BY <1>1, <1>4, <2>1 DEF TypeOK, kernel
    <2>4. LayersExact'
      BY <1>1, <2>1 DEF LayersExact, kernel
    <2>5. OutcomeExact'
      BY <1>1, <1>2, <1>4, <2>1, <2>2, StepsLen DEF OutcomeExact
    <2> QED BY <1>1, <2>1, <2>3, <2>4, <2>5 DEF VerdictExact, RoomForRuleset
  <1> QED BY <1>3, <1>4 DEF WriteOutput

\* Every step preserves the inductive invariant.
LEMMA NextIInv ==
    ASSUME IInv, [Next]_vars
    PROVE  IInv'
  <1>1. CASE HostStep
    BY <1>1, SandboxIInv, LoadIInv, OutputIInv DEF HostStep
  <1>2. CASE GuestStep
    BY <1>2, GuestIInv
  <1>3. CASE Killed
    <2>1. output \in {"none", "partial", "full"}
      BY DEF IInv, TypeOK
    <2> QED BY <1>3, <2>1, FailIInv DEF Killed, guest
  <1>4. CASE ParentConcludes
    <2> USE DEF IInv
    <2>1. /\ status # "running" /\ verdict' = IF Accepts THEN "accepted" ELSE "rejected"
          /\ UNCHANGED <<module, pc, status, cause, kernel, guest>>
      BY <1>4 DEF ParentConcludes
    <2>2. TypeOK'
      BY <2>1 DEF TypeOK, kernel, guest
    <2>3. LayersExact' /\ OutcomeExact' /\ RoomForRuleset'
      BY <2>1 DEF LayersExact, OutcomeExact, RoomForRuleset, kernel, guest
    <2>4. VerdictExact'
      BY <2>1 DEF VerdictExact, Accepts, guest
    <2> QED BY <2>2, <2>3, <2>4
  <1>5. CASE Concluded \/ UNCHANGED vars
    <2>1. UNCHANGED vars
      BY <1>5 DEF Concluded
    <2> QED BY <2>1 DEF vars, IInv, TypeOK, LayersExact, OutcomeExact, VerdictExact, Accepts,
                        RoomForRuleset
  <1> QED BY <1>1, <1>2, <1>3, <1>4, <1>5 DEF Next

-----------------------------------------------------------------------------
(* Theorems *)

\* The inductive invariant holds in every reachable state, whichever system
\* call the kernel refuses and whatever the guest does.
THEOREM Invariance == Spec => []IInv
  <1>1. IInv /\ [Next]_vars => IInv'
    BY NextIInv
  <1> QED BY InitIInv, <1>1, PTL DEF Spec

\* Every variable keeps its type: the guest's memory stays within the policy.
THEOREM TypeCorrect == Spec => []TypeOK
  <1>1. IInv => TypeOK
    BY DEF IInv
  <1> QED BY Invariance, <1>1, PTL

\* Neither runner looks at the module before every layer is in force.
THEOREM SandboxFirst == Spec => []ParsedOnlyInSandbox
  <1>1. IInv => ParsedOnlyInSandbox
    BY InSandbox DEF ParsedOnlyInSandbox, Parsing
  <1> QED BY Invariance, <1>1, PTL

\* The verdict of the lab's check of its build tells what happened.
THEOREM VerdictsJust ==
    ASSUME Kind = "lab"
    PROVE  Spec => []VerdictJust
  <1>1. IInv => VerdictJust
    <2> SUFFICES ASSUME IInv PROVE VerdictJust
      OBVIOUS
    <2>1. ASSUME verdict = "accepted"
          PROVE  status = "succeeded" /\ returned /\ Sandboxed
      <3>1. status = "succeeded"
        BY <2>1 DEF IInv, VerdictExact, Accepts
      <3>2. returned /\ pc = 16
        BY <3>1, StepsLen DEF IInv, OutcomeExact
      <3>3. Sandboxed
        BY <3>2, LastStep, InSandbox DEF Parsing
      <3> QED BY <3>1, <3>2, <3>3
    <2>2. ASSUME verdict = "rejected"
          PROVE  cause \in {"input", "kernel", "module"}
      <3>1. status # "running" /\ ~Accepts
        BY <2>2 DEF IInv, VerdictExact
      <3>2. status = "failed"
        BY <3>1 DEF IInv, TypeOK, OutcomeExact, Accepts
      <3> QED BY <3>2 DEF IInv, TypeOK, OutcomeExact, RoomForRuleset
    <2> QED BY <2>1, <2>2 DEF VerdictJust
  <1> QED BY Invariance, <1>1, PTL
=============================================================================

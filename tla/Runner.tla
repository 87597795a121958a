------------------------------- MODULE Runner -------------------------------
(***************************************************************************)
(* One runner process, from exec to exit, and what its parent concludes:   *)
(* __runner of the scheduler (crates/scheduler: runner_main, sandbox.rs,   *)
(* wasm.rs) and __runner / __stream_runner of the lab                      *)
(* (crates/sequential-lab: the same).  They run the same kinds of step in  *)
(* different orders, so the order is data: Steps.                          *)
(*                                                                         *)
(* The parent is execute_process of the same crate and, for SmokeTest, the *)
(* command that checks a build by running its runner once:                 *)
(* validate_artifacts_main in the scheduler, validate_runner in the lab.   *)
(* The kernel may refuse any system call.                                  *)
(***************************************************************************)
EXTENDS Naturals, Sequences, FiniteSets

CONSTANTS
    Kind,       \* "scheduler" or "lab"
    MaxPages,   \* Policy::max_memory_pages
    Fuel,       \* fuel of one execution
    SmokeTest,  \* TRUE: the module is the one the binary checks itself with
    PageBound,  \* bound: pages a module may declare
    StatePages, \* lab: pages of guest memory that the injected state needs
    None        \* a memory without a maximum

ASSUME RunnerAssumption ==
    /\ Kind \in {"scheduler", "lab"}
    /\ SmokeTest \in BOOLEAN
    /\ MaxPages \in Nat /\ Fuel \in Nat
    /\ PageBound \in Nat /\ MaxPages <= PageBound
    /\ StatePages \in Nat

Stdio == {0, 1, 2}

-----------------------------------------------------------------------------
(* The order of the steps *)

\* Mutant of LabSteps: the module is parsed before the sandbox is complete.
LabStepsParseEarly ==
    <<"read", "clear_env", "close_fds", "no_new_privs", "AS", "CPU", "NPROC", "FSIZE",
      "landlock", "NOFILE", "validate", "seccomp", "compile", "instantiate",
      "call", "write">>

\* Mutant of LabSteps: the descriptor limit is set with the other limits.
LabStepsLimitFirst ==
    <<"read", "clear_env", "close_fds", "no_new_privs", "AS", "CPU", "NPROC", "FSIZE",
      "NOFILE", "landlock", "seccomp", "validate", "compile", "instantiate",
      "call", "write">>

\* runner_main and stream_runner_main of the lab, with sandbox::apply.
LabSteps ==
    <<"read", "clear_env", "close_fds", "no_new_privs", "AS", "CPU", "NPROC", "FSIZE",
      "landlock", "NOFILE", "seccomp", "validate", "compile", "instantiate",
      "call", "write">>

\* runner_main of the scheduler, with apply_runner_sandbox; it has no output.
SchedulerSteps ==
    <<"read", "clear_env", "close_fds", "no_new_privs", "AS", "CPU", "NOFILE", "NPROC",
      "FSIZE", "landlock", "seccomp", "verify", "validate", "compile", "instantiate",
      "call">>

Steps == IF Kind = "scheduler" THEN SchedulerSteps ELSE LabSteps

Limits == {"AS", "CPU", "NOFILE", "NPROC", "FSIZE"}

-----------------------------------------------------------------------------
(* Modules *)

\* shared, memory64 and custom-page memories are not plain.
Memories == {m \in [plain : BOOLEAN, initial : 0 .. PageBound,
                    maximum : (0 .. PageBound) \cup {None}] :
                m.maximum = None \/ m.initial <= m.maximum}

Modules == [wellformed : BOOLEAN, imports : BOOLEAN, component : BOOLEAN,
            start : BOOLEAN, exports : BOOLEAN,
            memories : {<< >>} \cup {<<m>> : m \in Memories} \cup {<<m, m>> : m \in Memories}]

\* SMOKE_MODULE of the scheduler, the two fixtures of the lab.
SmokeModule ==
    [wellformed |-> TRUE, imports |-> FALSE, component |-> FALSE,
     start |-> FALSE, exports |-> TRUE,
     memories |-> IF Kind = "scheduler" THEN << >>
                  ELSE <<[plain |-> TRUE, initial |-> MaxPages, maximum |-> MaxPages]>>]

\* validate() of both crates.
WithinPolicy(mod) ==
    /\ mod.wellformed
    /\ ~mod.imports
    /\ ~mod.component
    /\ \A i \in DOMAIN mod.memories :
          /\ mod.memories[i].plain
          /\ mod.memories[i].initial <= MaxPages
          /\ mod.memories[i].maximum # None => mod.memories[i].maximum <= MaxPages

\* validate() of the lab also wants exactly one memory and no start function.
Valid(mod) ==
    /\ WithinPolicy(mod)
    /\ Kind # "scheduler" => ~mod.start /\ Len(mod.memories) = 1

\* engine(): multi-memory is off.
Compiles(mod) == Len(mod.memories) <= 1

-----------------------------------------------------------------------------
VARIABLES
    module,     \* the module the runner is sent
    pc,         \* index of the current step
    status,     \* "running", "succeeded", "failed" (exit code, signal or trap)
    cause,      \* why it failed
    fds,        \* open descriptors
    nofile,     \* RLIMIT_NOFILE, or Unlimited
    applied,    \* limits and sandbox layers in force
    fuel,       \* fuel left
    pages,      \* pages of the guest memory
    returned,   \* the guest function has returned
    output,     \* "none", "partial", "full"
    verdict     \* the parent: "waiting", "accepted", "rejected"

vars == <<module, pc, status, cause, fds, nofile, applied, fuel, pages, returned,
          output, verdict>>

guest == <<fuel, pages, returned, output>>
kernel == <<fds, nofile, applied>>

Unlimited == 5   \* any number above every descriptor used here

Init ==
    /\ module \in IF SmokeTest THEN {SmokeModule} ELSE Modules
    /\ pc = 1
    /\ status = "running"
    /\ cause = "none"
    /\ fds \in {Stdio, Stdio \cup {3}}
    /\ nofile = Unlimited
    /\ applied = {}
    /\ fuel = Fuel
    /\ pages = 0
    /\ returned = FALSE
    /\ output = "none"
    /\ verdict = "waiting"

At(step) == status = "running" /\ Steps[pc] = step

\* The step is done; after the last one main returns Ok.
Advance ==
    /\ pc' = IF pc = Len(Steps) THEN pc ELSE pc + 1
    /\ status' = IF pc = Len(Steps) THEN "succeeded" ELSE status
    /\ UNCHANGED cause

\* `?`: main returns the error and the process exits with a failure.
Fail(why) == status' = "failed" /\ cause' = why /\ UNCHANGED pc

\* Input is complete, or the parent went away and it is not.
Read ==
    /\ At("read")
    /\ Advance \/ Fail("input")
    /\ UNCHANGED <<module, kernel, guest, verdict>>

\* clear_environment finds nothing left, the parent spawned with env_clear;
\* verify_required is reached only when every layer was applied.
NoEffect ==
    /\ \E step \in {"clear_env", "verify"} : At(step)
    /\ Advance
    /\ UNCHANGED <<module, kernel, guest, verdict>>

CloseFds ==
    /\ At("close_fds")
    /\ \/ fds' = fds \cap Stdio /\ Advance
       \/ fds' = fds /\ Fail("kernel")
    /\ UNCHANGED <<module, nofile, applied, guest, verdict>>

\* prctl and seccomp.
Layer ==
    \E layer \in {"no_new_privs", "seccomp"} :
        /\ At(layer)
        /\ \/ applied' = applied \cup {layer} /\ Advance
           \/ applied' = applied /\ Fail("kernel")
        /\ UNCHANGED <<module, fds, nofile, guest, verdict>>

\* setrlimit; the descriptor limit is 3.
SetLimit ==
    \E limit \in Limits :
        /\ At(limit)
        /\ \/ /\ applied' = applied \cup {limit}
              /\ nofile' = IF limit = "NOFILE" THEN 3 ELSE nofile
              /\ Advance
           \/ UNCHANGED <<applied, nofile>> /\ Fail("kernel")
        /\ UNCHANGED <<module, fds, guest, verdict>>

\* create() opens a ruleset descriptor, the lowest free one, and the kernel
\* refuses it at RLIMIT_NOFILE; restrict_self installs and closes it.
Landlock ==
    /\ At("landlock")
    /\ IF \E fd \in 0 .. nofile - 1 : fd \notin fds
         THEN \/ applied' = applied \cup {"landlock"} /\ Advance
              \/ applied' = applied /\ Fail("kernel")
         ELSE applied' = applied /\ Fail("descriptor")
    /\ UNCHANGED <<module, fds, nofile, guest, verdict>>

Validate ==
    /\ At("validate")
    /\ IF Valid(module) THEN Advance ELSE Fail("module")
    /\ UNCHANGED <<module, kernel, guest, verdict>>

Compile ==
    /\ At("compile")
    /\ IF Compiles(module) THEN Advance ELSE Fail("module")
    /\ UNCHANGED <<module, kernel, guest, verdict>>

\* The memory is created within the store limits, and the exports are looked
\* up; the lab injects the state, for which the memory must be large enough
\* before the guest may grow it.  (A start function, which only the scheduler
\* admits, runs on the same fuel as the call.)
Instantiate ==
    /\ At("instantiate")
    /\ LET initial == IF module.memories = << >> THEN 0 ELSE module.memories[1].initial
       IN  IF /\ module.exports
              /\ initial <= MaxPages
              /\ Kind = "lab" => StatePages <= initial
             THEN pages' = initial /\ Advance
             ELSE UNCHANGED pages /\ Fail("module")
    /\ UNCHANGED <<module, kernel, fuel, returned, output, verdict>>

\* Mutant of Execute: no fuel.
ExecuteFree ==
    /\ At("call") /\ ~returned
    /\ UNCHANGED vars

\* The guest executes for a while; out of fuel, it traps.
Execute ==
    /\ At("call") /\ ~returned
    /\ \/ fuel > 0 /\ fuel' = fuel - 1 /\ UNCHANGED <<pc, status, cause>>
       \/ fuel = 0 /\ UNCHANGED fuel /\ Fail("module")
    /\ UNCHANGED <<module, kernel, pages, returned, output, verdict>>

\* It traps on its own account, or returns a length that is not the expected
\* one.
Trap ==
    /\ At("call") /\ ~returned
    /\ Fail("module")
    /\ UNCHANGED <<module, kernel, guest, verdict>>

\* Mutant of MayGrow: no limiter.
MayGrowUnlimited(n) == n <= PageBound

\* StoreLimits: memory_size is max_memory_pages.
MayGrow(n) == n <= MaxPages

\* memory.grow: granted within the limits, a trap otherwise.
Grow ==
    /\ At("call") /\ ~returned
    /\ module.memories # << >>
    /\ fuel > 0
    /\ fuel' = fuel - 1
    /\ IF MayGrow(pages + 1)
         THEN pages' = pages + 1 /\ UNCHANGED <<pc, status, cause>>
         ELSE UNCHANGED pages /\ Fail("module")
    /\ UNCHANGED <<module, kernel, returned, output, verdict>>

Return ==
    /\ At("call") /\ ~returned
    /\ returned' = TRUE
    /\ Advance
    /\ UNCHANGED <<module, kernel, fuel, pages, output, verdict>>

\* write_all and flush of the extracted state, which may stop half-way.
WriteOutput ==
    /\ At("write")
    /\ \/ output' = "full" /\ Advance
       \/ output' \in {"none", "partial"} /\ Fail("kernel")
    /\ UNCHANGED <<module, kernel, fuel, pages, returned, verdict>>

\* The runner can be killed by RLIMIT_CPU, RLIMIT_AS, seccomp or SIGKILL.
Killed ==
    /\ status = "running"
    /\ Fail("kernel")
    /\ UNCHANGED <<module, kernel, guest, verdict>>

-----------------------------------------------------------------------------
(* The parent *)

\* validate_runner accepts Success only: exit status and output length.
\* validate_artifacts_main is content with execute_process returning, which
\* it does whatever the exit status is.
Accepts ==
    \/ Kind = "scheduler"
    \/ status = "succeeded" /\ output = "full"

ParentConcludes ==
    /\ verdict = "waiting"
    /\ status # "running"
    /\ verdict' = IF Accepts THEN "accepted" ELSE "rejected"
    /\ UNCHANGED <<module, pc, status, cause, kernel, guest>>

-----------------------------------------------------------------------------
HostStep ==
    \/ Read \/ NoEffect \/ CloseFds \/ Layer \/ SetLimit \/ Landlock
    \/ Validate \/ Compile \/ Instantiate \/ WriteOutput

GuestStep == Execute \/ Trap \/ Grow \/ Return

Concluded == verdict # "waiting" /\ UNCHANGED vars

Next == HostStep \/ GuestStep \/ Killed \/ ParentConcludes \/ Concluded

Spec == Init /\ [][Next]_vars

\* The runner and the interpreter execute and the parent waits; whether the
\* guest ever returns, or traps, is up to the guest.
Fairness == WF_vars(HostStep) /\ WF_vars(Execute) /\ WF_vars(ParentConcludes)

FairSpec == Spec /\ Fairness

-----------------------------------------------------------------------------
(* Properties *)

\* Type invariant; in particular the guest's memory stays within the policy.
TypeOK ==
    /\ module \in Modules
    /\ pc \in 1 .. Len(Steps)
    /\ status \in {"running", "succeeded", "failed"}
    /\ cause \in {"none", "input", "kernel", "descriptor", "module"}
    /\ fds \subseteq 0 .. 3
    /\ nofile \in {3, Unlimited}
    /\ applied \subseteq Limits \cup {"no_new_privs", "landlock", "seccomp"}
    /\ fuel \in 0 .. Fuel
    /\ pages \in 0 .. MaxPages
    /\ returned \in BOOLEAN
    /\ output \in {"none", "partial", "full"}
    /\ verdict \in {"waiting", "accepted", "rejected"}

Sandboxed ==
    /\ fds \subseteq Stdio
    /\ applied = Limits \cup {"no_new_privs", "landlock", "seccomp"}

\* Not a byte of the module is looked at before every layer is in force,
\* whichever of the steps before it fails.
ParsedOnlyInSandbox ==
    (status = "running" /\ Steps[pc] \in {"validate", "compile", "instantiate", "call", "write"})
        => Sandboxed

\* The parent's verdict tells what happened: accepted means that the module ran
\* to its end in the sandbox, rejected that something outside the code was
\* wrong (the input was cut off, the kernel refused or killed the runner, the
\* module is not acceptable) and not that the runner got in its own way.
VerdictJust ==
    /\ verdict = "accepted" => status = "succeeded" /\ returned /\ Sandboxed
    /\ verdict = "rejected" => cause \in {"input", "kernel", "module"}

\* The check of a build succeeds, with good input, a good module and a kernel
\* that refuses nothing, because the runner ran in its sandbox.
HealthyCheckRan ==
    (verdict = "accepted" /\ cause \notin {"input", "kernel", "module"})
        => status = "succeeded" /\ returned /\ Sandboxed

\* No module keeps a runner going for ever, and the parent concludes.
RunnerEnds == <>(verdict # "waiting")
=============================================================================

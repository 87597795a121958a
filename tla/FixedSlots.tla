----------------------------- MODULE FixedSlots -----------------------------
(***************************************************************************)
(* What the scheduler promises its callers, with no trace of how it keeps  *)
(* the promise: an admitted run waits, owns one of MaxParallel slots for   *)
(* exactly SlotTicks, closes, and only then is answered.  Nothing here can *)
(* see what the runner did: there is no process, no exit, no failure, no   *)
(* semaphore and no counter, so an implementation of this specification    *)
(* releases slots and answers callers independently of the hostile module. *)
(***************************************************************************)
EXTENDS Naturals, FiniteSets

CONSTANTS
    Requests,      \* every POST /v1/run that will ever arrive
    MaxParallel,   \* slots that may be owned at a time
    MaxPending,    \* admitted runs that may be unfinished at a time
    SlotTicks      \* length of a slot

VARIABLES
    run,           \* [Requests -> the stage of the run]
    left,          \* [Requests -> ticks its slot still has]
    reply          \* [Requests -> what the caller has been told]

vars == <<run, left, reply>>

Unfinished == {r \in Requests : run[r] \in {"waiting", "slot", "closing"}}

Owners == {r \in Requests : run[r] = "slot"}

Init ==
    /\ run = [r \in Requests |-> "none"]
    /\ left = [r \in Requests |-> 0]
    /\ reply = [r \in Requests |-> "none"]

\* A request is admitted while the queue has room.
Admit(r) ==
    /\ run[r] = "none"
    /\ reply[r] = "none"
    /\ Cardinality(Unfinished) < MaxPending
    /\ run' = [run EXCEPT ![r] = "waiting"]
    /\ UNCHANGED <<left, reply>>

\* It is refused, and leaves no trace, only when the queue is full.
Refuse(r) ==
    /\ run[r] = "none"
    /\ reply[r] = "none"
    /\ Cardinality(Unfinished) >= MaxPending
    /\ reply' = [reply EXCEPT ![r] = "refused"]
    /\ UNCHANGED <<run, left>>

StartSlot(r) ==
    /\ run[r] = "waiting"
    /\ Cardinality(Owners) < MaxParallel
    /\ run' = [run EXCEPT ![r] = "slot"]
    /\ left' = [left EXCEPT ![r] = SlotTicks]
    /\ UNCHANGED reply

\* Time passes for every slot alike.
Tick ==
    /\ \E r \in Requests : left[r] > 0
    /\ left' = [r \in Requests |-> IF left[r] > 0 THEN left[r] - 1 ELSE 0]
    /\ UNCHANGED <<run, reply>>

\* The slot is given up when its time is over and not before.
EndSlot(r) ==
    /\ run[r] = "slot"
    /\ left[r] = 0
    /\ run' = [run EXCEPT ![r] = "closing"]
    /\ UNCHANGED <<left, reply>>

Close(r) ==
    /\ run[r] = "closing"
    /\ run' = [run EXCEPT ![r] = "closed"]
    /\ UNCHANGED <<left, reply>>

\* The one answer an admitted run ever gets.
Answer(r) ==
    /\ run[r] = "closed"
    /\ reply[r] = "none"
    /\ reply' = [reply EXCEPT ![r] = "complete"]
    /\ UNCHANGED <<run, left>>

\* The caller goes away; its run does not notice.
Abandon(r) ==
    /\ run[r] # "none"
    /\ reply[r] = "none"
    /\ reply' = [reply EXCEPT ![r] = "abandoned"]
    /\ UNCHANGED <<run, left>>

Next ==
    \/ Tick
    \/ \E r \in Requests :
          \/ Admit(r) \/ Refuse(r) \/ StartSlot(r) \/ EndSlot(r)
          \/ Close(r) \/ Answer(r) \/ Abandon(r)

Spec == Init /\ [][Next]_vars

\* Time passes, an ended slot is given up and closed, and a caller that is
\* still there is answered.  A waiting run gets a slot again and again.
Fairness ==
    /\ WF_vars(Tick)
    /\ \A r \in Requests :
          /\ SF_vars(StartSlot(r))
          /\ WF_vars(EndSlot(r))
          /\ WF_vars(Close(r))
          /\ WF_vars(Answer(r))

FairSpec == Spec /\ Fairness
=============================================================================

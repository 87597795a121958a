----------------------------- MODULE StreamLog ------------------------------
(***************************************************************************)
(* What the sequential lab promises about its session state, with no       *)
(* trace of processes, snapshots, queues or deadlines.                     *)
(*                                                                         *)
(* Every session slot has a stream log and a turn memory.  A chunk is      *)
(* appended in one step to the log of its slot as the log then is, only if *)
(* the log then has as many chunks as the request's sequence number and    *)
(* room for its bytes; a turn extends the memory as it then is; a reset    *)
(* empties the first logs.  A request changes the state at most once, a    *)
(* dropped request never does, and a chunk or a reset is told exactly      *)
(* which of the two happened.  The answer to a turn tells nothing.         *)
(***************************************************************************)
EXTENDS Naturals, Sequences

CONSTANTS
    Requests,
    SessionSlots,    \* slots are 0 .. SessionSlots - 1
    StateBytes,      \* capacity of a stream log
    NoInput          \* the request has not arrived

Slots == 0 .. SessionSlots - 1

VARIABLES
    log,      \* [Slots -> [of : Seq(Requests), len : Nat]]
    memory,   \* [Slots -> Seq(Requests)]
    ask,      \* [Requests -> what was asked for, or NoInput]
    fate,     \* [Requests -> {"open", "applied", "dropped"}]
    told      \* [Requests -> {"nothing", "applied", "dropped", "over"}]

vars == <<log, memory, ask, fate, told>>

Empty == [of |-> << >>, len |-> 0]

Init ==
    /\ log = [s \in Slots |-> Empty]
    /\ memory = [s \in Slots |-> << >>]
    /\ ask = [r \in Requests |-> NoInput]
    /\ fate = [r \in Requests |-> "open"]
    /\ told = [r \in Requests |-> "nothing"]

\* Whatever a request asks for, it asks once.
Arrive(r) ==
    /\ ask[r] = NoInput /\ fate[r] = "open"
    /\ ask'[r] # NoInput
    /\ \A q \in Requests \ {r} : ask'[q] = ask[q]
    /\ UNCHANGED <<log, memory, fate, told>>

\* Dropped on arrival, whatever it asked for, and told so.
Refuse(r) ==
    /\ ask[r] = NoInput /\ fate[r] = "open"
    /\ fate' = [fate EXCEPT ![r] = "dropped"]
    /\ told' = [told EXCEPT ![r] = "dropped"]
    /\ UNCHANGED <<log, memory, ask>>

Decide(r, f) ==
    /\ ask[r] # NoInput
    /\ fate[r] = "open"
    /\ fate' = [fate EXCEPT ![r] = f]
    /\ UNCHANGED <<ask, told>>

AppendChunk(r) ==
    /\ Decide(r, "applied")
    /\ ask[r].kind = "chunk"
    /\ LET s == ask[r].slot
       IN  /\ ask[r].sequence = Len(log[s].of)
           /\ log[s].len + ask[r].bytes <= StateBytes
           /\ log' = [log EXCEPT ![s] = [of  |-> Append(@.of, r),
                                         len |-> @.len + ask[r].bytes]]
    /\ UNCHANGED memory

ApplyTurn(r) ==
    /\ Decide(r, "applied")
    /\ ask[r].kind = "turn"
    /\ memory' = [memory EXCEPT ![ask[r].slot] = Append(@, r)]
    /\ UNCHANGED log

ResetLogs(r) ==
    /\ Decide(r, "applied")
    /\ ask[r].kind = "reset"
    /\ log' = [s \in Slots |-> IF s < ask[r].count THEN Empty ELSE log[s]]
    /\ UNCHANGED memory

Drop(r) == Decide(r, "dropped") /\ UNCHANGED <<log, memory>>

Tell(r) ==
    /\ fate[r] # "open"
    /\ told[r] = "nothing"
    /\ told' = [told EXCEPT ![r] = IF ask[r].kind = "turn" THEN "over" ELSE fate[r]]
    /\ UNCHANGED <<log, memory, ask, fate>>

Next ==
    \E r \in Requests :
        \/ Arrive(r) \/ Refuse(r)
        \/ AppendChunk(r) \/ ApplyTurn(r) \/ ResetLogs(r) \/ Drop(r)
        \/ Tell(r)

Spec == Init /\ [][Next]_vars
=============================================================================

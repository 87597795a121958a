------------------------------ MODULE Startup -------------------------------
(***************************************************************************)
(* Startup of the scheduler, from the environment it is given to the open  *)
(* listener (crates/scheduler/src/main.rs: main, server_main; artifact.rs),*)
(* and the envelope that examples/encrypt-artifact.rs writes.              *)
(*                                                                         *)
(* Cryptography is abstracted to whether the bytes are sealed under the    *)
(* key.  The artifact source is any server: it may be slow, send any bytes  *)
(* in any pieces, announce their length or not, or break off.              *)
(***************************************************************************)
EXTENDS Naturals

CONSTANTS
    HeaderBytes,     \* MAGIC and nonce
    TagBytes,        \* authentication tag
    MaxModuleBytes,  \* Policy::max_module_bytes
    ExtraBytes,      \* bound: how far a body may exceed the limit
    Unknown          \* no Content-Length

ASSUME StartupAssumption ==
    /\ HeaderBytes \in Nat /\ TagBytes \in Nat /\ ExtraBytes \in Nat
    /\ MaxModuleBytes \in Nat \ {0}

Overhead == HeaderBytes + TagBytes

\* Mutant of MaxEncryptedBytes: the tag is forgotten.
MaxEncryptedBytesNoTag == MaxModuleBytes + HeaderBytes

\* max_encrypted_bytes of pull_and_decrypt.
MaxEncryptedBytes == MaxModuleBytes + HeaderBytes + TagBytes

BodyLengths == 0 .. MaxModuleBytes + Overhead + ExtraBytes

\* What encrypt-artifact writes for a module of n bytes.
Envelope(n) == [len |-> HeaderBytes + n + TagBytes, magic |-> TRUE, sealed |-> TRUE]

\* Bodies a source may send: an envelope, or bytes not sealed under the key.
Bodies ==
    {Envelope(n) : n \in 0 .. MaxModuleBytes + ExtraBytes}
    \cup [len : BodyLengths, magic : BOOLEAN, sealed : {FALSE}]

Secrets == {"WASM_PULL_URL", "WASM_DECRYPTION_KEY", "WASM_PULL_API_TOKEN"}

VARIABLES
    env,        \* secrets in the environment
    valid,      \* secrets whose values pass the checks
    body,       \* what the source sends
    announced,  \* Content-Length of the response, or Unknown
    pc,         \* where startup is
    reason,     \* why the process exited
    received    \* bytes of `encrypted`

vars == <<env, valid, body, announced, pc, reason, received>>

Init ==
    /\ env \in SUBSET Secrets
    /\ valid \in {Secrets} \cup {Secrets \ {s} : s \in Secrets}
    /\ body \in Bodies
    /\ announced \in {Unknown, body.len}
    /\ pc = "start"
    /\ reason = "none"
    /\ received = 0

Goto(stage) == pc' = stage /\ UNCHANGED reason
Exit(why) == pc' = "exited" /\ reason' = why

\* Mutant of TakeSecrets: only the two older secrets are removed.
TakeSecretsButToken ==
    /\ pc = "start"
    /\ IF env # Secrets
         THEN UNCHANGED env /\ Exit("secrets")
         ELSE env' = {"WASM_PULL_API_TOKEN"} /\ Goto("check")
    /\ UNCHANGED <<valid, body, announced, received>>

\* take_from_environment: all three are read, then all three are removed.
TakeSecrets ==
    /\ pc = "start"
    /\ IF env # Secrets
         THEN UNCHANGED env /\ Exit("secrets")
         ELSE env' = {} /\ Goto("check")
    /\ UNCHANGED <<valid, body, announced, received>>

\* Then the URL, the key and the token are checked ...
CheckSecrets ==
    /\ pc = "check"
    /\ IF valid = Secrets THEN Goto("runtime") ELSE Exit("secrets")
    /\ UNCHANGED <<env, valid, body, announced, received>>

\* ... and only then does the runtime start its threads.
BuildRuntime ==
    /\ pc = "runtime"
    /\ Goto("send")
    /\ UNCHANGED <<env, valid, body, announced, received>>

\* The answer to the one GET: an announced length above the limit is refused.
Send ==
    /\ pc = "send"
    /\ IF announced # Unknown /\ announced > MaxEncryptedBytes
         THEN Exit("artifact")
         ELSE Goto("body")
    /\ UNCHANGED <<env, valid, body, announced, received>>

\* No answer, an error status, a broken body (or, before the GET, a token that
\* no header can carry) ends startup.  A redirect is not followed and is no
\* error: what its body holds is read like any other and has to decrypt.
PullFails ==
    /\ pc \in {"send", "body"}
    /\ Exit("source")
    /\ UNCHANGED <<env, valid, body, announced, received>>

\* Mutant of Timeout: only connecting has a deadline.
TimeoutConnecting ==
    /\ pc = "send"
    /\ Exit("source")
    /\ UNCHANGED <<env, valid, body, announced, received>>

\* The client's 20 s are over, headers or not.
Timeout ==
    /\ pc \in {"send", "body"}
    /\ Exit("source")
    /\ UNCHANGED <<env, valid, body, announced, received>>

\* Mutant of FitsBuffer: the piece itself is not counted.
FitsBufferSoFar(n) == received <= MaxEncryptedBytes

\* The check before extend_from_slice.
FitsBuffer(n) == received + n <= MaxEncryptedBytes

\* One piece of the body arrives.
ReceiveChunk ==
    /\ pc = "body"
    /\ \E n \in 1 .. body.len - received :
          IF FitsBuffer(n)
            THEN received' = received + n /\ Goto("body")
            ELSE UNCHANGED received /\ Exit("artifact")
    /\ UNCHANGED <<env, valid, body, announced>>

EndOfBody ==
    /\ pc = "body"
    /\ received = body.len
    /\ Goto("decrypt")
    /\ UNCHANGED <<env, valid, body, announced, received>>

\* Mutant of Opens: the tag is not checked.
OpensUnsealed == body.magic

\* open_in_place: authentic under the key and the magic.
Opens == body.magic /\ body.sealed

\* decrypt, with its checks in their order.
Decrypt ==
    /\ pc = "decrypt"
    /\ IF \/ received <= Overhead
          \/ ~Opens
          \/ received - Overhead = 0
          \/ received - Overhead > MaxModuleBytes
         THEN Exit("artifact")
         ELSE Goto("bind")
    /\ UNCHANGED <<env, valid, body, announced, received>>

Bind ==
    /\ pc = "bind"
    /\ Goto("listening") \/ Exit("bind")
    /\ UNCHANGED <<env, valid, body, announced, received>>

Over == pc \in {"listening", "exited"} /\ UNCHANGED vars

Work == TakeSecrets \/ CheckSecrets \/ BuildRuntime \/ EndOfBody \/ Decrypt \/ Bind

Source == Send \/ PullFails \/ ReceiveChunk

Next == Work \/ Source \/ Timeout \/ Over

Spec == Init /\ [][Next]_vars

\* The program runs and its timers fire; nothing is assumed of the source.
Fairness == WF_vars(Work) /\ WF_vars(Timeout)

FairSpec == Spec /\ Fairness

-----------------------------------------------------------------------------
(* Properties *)

\* Type invariant; in particular a source that does not announce a length
\* cannot make the buffer outgrow the policy, however it cuts the body.
TypeOK ==
    /\ env \subseteq Secrets /\ valid \subseteq Secrets
    /\ body \in Bodies
    /\ announced \in BodyLengths \cup {Unknown}
    /\ pc \in {"start", "check", "runtime", "send", "body", "decrypt", "bind",
               "listening", "exited"}
    /\ reason \in {"none", "secrets", "source", "artifact", "bind"}
    /\ received \in 0 .. MaxModuleBytes + Overhead

\* When the runtime exists, and ever after, the environment holds no secret.
SecretsLeaveFirst ==
    (pc \notin {"start", "check", "exited"} \/ reason \notin {"none", "secrets"}) => env = {}

\* The listener opens only with a complete, authentic module of legal size.
ServesOnlyAuthentic ==
    pc = "listening" => \E n \in 1 .. MaxModuleBytes :
                            body = Envelope(n) /\ received = body.len

\* No artifact that encrypt-artifact makes from a module of legal size is
\* turned down for what it is, at either end of the range.
LegalArtifactsAccepted ==
    reason = "artifact" => \A n \in 1 .. MaxModuleBytes : body # Envelope(n)

\* Startup does not hang, however slow the source is.
StartupEnds == <>(pc \in {"listening", "exited"})
=============================================================================

--------------------------- MODULE StartupProofs ----------------------------
(***************************************************************************)
(* Machine-checked proofs about Startup, for any size of the envelope's    *)
(* header and tag and any limit on the module.                             *)
(***************************************************************************)
EXTENDS Startup, TLAPS

\* What was taken in so far is a prefix of what the source sends, and all of
\* it once its end was seen.
BufferExact ==
    /\ announced \in {Unknown, body.len}
    /\ received <= body.len
    /\ pc \in {"decrypt", "bind", "listening"} => received = body.len

\* decrypt has had its say.
Authentic ==
    pc \in {"bind", "listening"} =>
        /\ received > Overhead /\ received - Overhead <= MaxModuleBytes
        /\ body.sealed

\* Where startup is before its end, no reason was given.
Reasoned == pc # "exited" => reason = "none"

\* The secrets are gone as soon as they were read, before they are checked.
Taken == pc \notin {"start", "exited"} => env = {}

\* The inductive invariant: the three properties, and what the last checks
\* of pull_and_decrypt rely on.
IInv ==
    /\ TypeOK
    /\ BufferExact
    /\ Authentic
    /\ Reasoned
    /\ Taken
    /\ SecretsLeaveFirst
    /\ LegalArtifactsAccepted

\* A body is an envelope, of a length the envelope's module fixes, or not
\* sealed; in any case its length is a natural number.
LEMMA BodyShape ==
    ASSUME NEW b \in Bodies
    PROVE  /\ b.len \in BodyLengths /\ b.len \in Nat
           /\ b.sealed => \E n \in 0 .. MaxModuleBytes + ExtraBytes :
                              b = Envelope(n) /\ b.len = Overhead + n
  <1> USE StartupAssumption DEF BodyLengths, Overhead
  <1>1. CASE b \in {Envelope(n) : n \in 0 .. MaxModuleBytes + ExtraBytes}
    <2>1. PICK n \in 0 .. MaxModuleBytes + ExtraBytes : b = Envelope(n)
      BY <1>1
    <2>2. b.len = HeaderBytes + n + TagBytes
      BY <2>1 DEF Envelope
    <2> QED BY <2>1, <2>2
  <1>2. CASE b \in [len : BodyLengths, magic : BOOLEAN, sealed : {FALSE}]
    <2>1. b.len \in BodyLengths
      BY <1>2
    <2>2. ~b.sealed
      BY <1>2, Zenon
    <2> QED BY <2>1, <2>2
  <1> QED BY <1>1, <1>2 DEF Bodies

\* The envelope of a module of legal size passes every length check.
LEMMA LegalEnvelope ==
    ASSUME NEW n \in 1 .. MaxModuleBytes, NEW b, b = Envelope(n)
    PROVE  /\ b.len <= MaxEncryptedBytes /\ b.len > Overhead
           /\ b.len - Overhead <= MaxModuleBytes /\ b.len - Overhead # 0
           /\ b.magic /\ b.sealed
  BY StartupAssumption DEF Envelope, MaxEncryptedBytes, Overhead

\* Startup begins with nothing taken and nothing received.
LEMMA InitIInv == Init => IInv
  <1> SUFFICES ASSUME Init PROVE IInv
    OBVIOUS
  <1> USE StartupAssumption DEF Init
  <1>1. body.len \in BodyLengths /\ body.len \in Nat
    BY BodyShape
  <1>2. TypeOK
    BY <1>1 DEF TypeOK, Overhead
  <1> QED BY <1>1, <1>2 DEF IInv, BufferExact, Authentic, Reasoned, Taken, SecretsLeaveFirst,
                            LegalArtifactsAccepted

\* Every step preserves the inductive invariant.
LEMMA NextIInv ==
    ASSUME IInv, [Next]_vars
    PROVE  IInv'
  <1> USE StartupAssumption
      DEF IInv, TypeOK, BufferExact, Authentic, Reasoned, Taken, SecretsLeaveFirst,
          LegalArtifactsAccepted, Goto, Exit
  <1>1. body.len \in Nat
    BY BodyShape
  <1>2. CASE TakeSecrets
    BY <1>2 DEF TakeSecrets
  <1>3. CASE CheckSecrets
    BY <1>3 DEF CheckSecrets
  <1>4. CASE BuildRuntime
    BY <1>4 DEF BuildRuntime
  <1>5. CASE Send
    <2>1. announced # Unknown /\ announced > MaxEncryptedBytes =>
              \A n \in 1 .. MaxModuleBytes : body # Envelope(n)
      <3> SUFFICES ASSUME announced = body.len, body.len > MaxEncryptedBytes,
                          NEW n \in 1 .. MaxModuleBytes, body = Envelope(n)
                   PROVE  FALSE
        OBVIOUS
      <3>1. body.len <= MaxEncryptedBytes
        BY LegalEnvelope
      <3> QED BY <3>1, <1>1 DEF MaxEncryptedBytes
    <2> QED BY <1>5, <2>1 DEF Send
  <1>6. CASE PullFails \/ Timeout
    BY <1>6 DEF PullFails, Timeout
  <1>7. CASE ReceiveChunk
    <2>1. PICK n \in 1 .. body.len - received :
              IF FitsBuffer(n)
                THEN received' = received + n /\ Goto("body")
                ELSE UNCHANGED received /\ Exit("artifact")
      BY <1>7 DEF ReceiveChunk
    <2>2. n \in Nat /\ received + n <= body.len /\ received \in Nat
      BY <2>1, <1>1
    <2>3. ~FitsBuffer(n) => \A m \in 1 .. MaxModuleBytes : body # Envelope(m)
      <3> SUFFICES ASSUME ~FitsBuffer(n), NEW m \in 1 .. MaxModuleBytes, body = Envelope(m)
                   PROVE  FALSE
        OBVIOUS
      <3>1. body.len <= MaxEncryptedBytes
        BY LegalEnvelope
      <3> QED BY <3>1, <2>2, <1>1 DEF FitsBuffer, MaxEncryptedBytes
    <2>4. CASE FitsBuffer(n)
      <3>1. received' \in 0 .. MaxModuleBytes + Overhead
        BY <2>1, <2>2, <2>4 DEF FitsBuffer, MaxEncryptedBytes, Overhead
      <3> QED BY <1>7, <2>1, <2>2, <2>4, <3>1 DEF ReceiveChunk
    <2>5. CASE ~FitsBuffer(n)
      BY <1>7, <2>1, <2>3, <2>5 DEF ReceiveChunk
    <2> QED BY <2>4, <2>5
  <1>8. CASE EndOfBody
    BY <1>8 DEF EndOfBody
  <1>9. CASE Decrypt
    <2> DEFINE Bad == \/ received <= Overhead
                      \/ ~Opens
                      \/ received - Overhead = 0
                      \/ received - Overhead > MaxModuleBytes
    <2>1. received = body.len /\ Overhead \in Nat
      BY <1>9 DEF Decrypt, Overhead
    <2>2. Bad => \A m \in 1 .. MaxModuleBytes : body # Envelope(m)
      <3> SUFFICES ASSUME Bad, NEW m \in 1 .. MaxModuleBytes, body = Envelope(m)
                   PROVE  FALSE
        OBVIOUS
      <3>1. /\ body.len > Overhead /\ body.len - Overhead <= MaxModuleBytes
            /\ body.len - Overhead # 0 /\ body.magic /\ body.sealed
        BY LegalEnvelope
      <3> QED BY <3>1, <2>1, <1>1 DEF Opens
    <2>3. CASE Bad
      BY <1>9, <2>2, <2>3 DEF Decrypt
    <2>4. CASE ~Bad
      BY <1>1, <1>9, <2>1, <2>4 DEF Decrypt, Opens
    <2> QED BY <2>3, <2>4
  <1>10. CASE Bind
    BY <1>10 DEF Bind
  <1>11. CASE Over \/ UNCHANGED vars
    BY <1>11 DEF Over, vars
  <1> QED BY <1>2, <1>3, <1>4, <1>5, <1>6, <1>7, <1>8, <1>9, <1>10, <1>11
          DEF Next, Work, Source

-----------------------------------------------------------------------------
(* Theorems *)

\* The inductive invariant holds in every reachable state, whatever the source
\* sends and however it cuts it.
THEOREM Invariance == Spec => []IInv
  <1>1. IInv /\ [Next]_vars => IInv'
    BY NextIInv
  <1> QED BY InitIInv, <1>1, PTL DEF Spec

\* Every variable keeps its type: the buffer never outgrows the policy.
THEOREM TypeCorrect == Spec => []TypeOK
  <1>1. IInv => TypeOK
    BY DEF IInv
  <1> QED BY Invariance, <1>1, PTL

\* From the moment the runtime exists, the environment holds no secret.
THEOREM SecretsGone == Spec => []SecretsLeaveFirst
  <1>1. IInv => SecretsLeaveFirst
    BY DEF IInv
  <1> QED BY Invariance, <1>1, PTL

\* The listener opens only with a complete, authentic module of legal size.
THEOREM AuthenticOnly == Spec => []ServesOnlyAuthentic
  <1>1. IInv => ServesOnlyAuthentic
    <2> SUFFICES ASSUME IInv, pc = "listening"
                 PROVE  \E n \in 1 .. MaxModuleBytes : body = Envelope(n) /\ received = body.len
      BY DEF ServesOnlyAuthentic
    <2>1. /\ received = body.len /\ received > Overhead
          /\ received - Overhead <= MaxModuleBytes /\ body.sealed /\ body \in Bodies
      BY DEF IInv, TypeOK, BufferExact, Authentic
    <2>2. PICK n \in 0 .. MaxModuleBytes + ExtraBytes : body = Envelope(n) /\ body.len = Overhead + n
      BY <2>1, BodyShape
    <2>3. n \in 1 .. MaxModuleBytes
      BY <2>1, <2>2, StartupAssumption DEF Overhead
    <2> QED BY <2>1, <2>2, <2>3
  <1> QED BY Invariance, <1>1, PTL

\* No artifact that encrypt-artifact makes from a module of legal size is
\* turned down for what it is.
THEOREM LegalAccepted == Spec => []LegalArtifactsAccepted
  <1>1. IInv => LegalArtifactsAccepted
    BY DEF IInv
  <1> QED BY Invariance, <1>1, PTL
=============================================================================

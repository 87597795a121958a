\* Every body length from empty to beyond the limit, in all pieces.
SPECIFICATION FairSpec
CONSTANTS
    HeaderBytes = 2
    TagBytes = 1
    MaxModuleBytes = 2
    ExtraBytes = 2
    Unknown = Unknown
INVARIANTS
    TypeOK
    SecretsLeaveFirst
    ServesOnlyAuthentic
    LegalArtifactsAccepted
PROPERTIES
    StartupEnds

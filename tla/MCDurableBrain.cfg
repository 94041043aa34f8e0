SPECIFICATION Spec
CONSTANTS
    ann = ann
    bob = bob
    her = her
    Observations <- MCNamedTexts
    Anaphoric    <- MCNone
    CompactEvery = 2
    CanFail      = TRUE
    MaxOps       = 4
    MaxFaultyOps = 3
    NoSubject    = NoSubject
    NoSnapshot   = NoSnapshot
    NoTxn        = NoTxn
INVARIANTS
    TypeOK
    JournalBounded
    AckedIsDurable
PROPERTIES
    CompactionIsAtomic
    KeepsPromise

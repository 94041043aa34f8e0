SPECIFICATION OneAttachSpec
CONSTANTS
    ann = ann
    bob = bob
    her = her
    Observations <- MCTexts
    Anaphoric    <- MCAnaphoric
    CompactEvery = 2
    CanFail      = FALSE
    MaxOps       = 4
    MaxFaultyOps = 0
    NoSubject    = NoSubject
    NoSnapshot   = NoSnapshot
    NoTxn        = NoTxn
INVARIANT
    ReplayIsFaithful

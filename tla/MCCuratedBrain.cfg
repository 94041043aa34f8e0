SPECIFICATION Spec
CONSTANTS
    riga    = riga
    rigaToo = rigaToo
    oslo    = oslo
    boss    = boss
    chat    = chat
    Texts    <- MCTexts
    Says     <- MCSays
    Words    <- MCWords
    Subjects <- MCSubjects
    Questions     <- MCQuestions
    Alphabet      <- MCAlphabet
    Keywords      <- MCKeywords
    KeywordOrder  <- MCKeywordOrder
    HardRelations <- MCHardRelations
    MaxContext = 4
    NoName     = NoName
    CanFail  = TRUE
    MaxOps   = 4
    NoLink   = NoLink
    NoCache  = NoCache
    NoBlob   = NoBlob
SYMMETRY MCSymmetry
INVARIANTS
    TypeOK
    CacheIsFresh
    FactsCaptured
    ForgottenIsGone
    VectorsMirrorEpisodes
    
    KnownIsAnswered
PROPERTY
    ConsolidationKeepsCurrent

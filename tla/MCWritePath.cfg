SPECIFICATION Spec
CONSTANTS
    swift = swift
    liz   = liz
    austin = austin
    miss  = miss
    Texts      <- MCTexts
    Honorifics <- MCHonorifics
    SurfaceOf  <- MCSurfaceOf
    ValueOf    <- MCValueOf
    Apart      <- MCApart
    Drift       = 5
    Retries     = 1
    MaxOps      = 4
    One         = 60
    Theta0      = 30
    Floor       = 21
    Ceiling     = 57
    ReinforceAt = 18
    Budget      = 80
    Rate        = 60
    Ambiguous = Ambiguous
    NoValue   = NoValue
    NoBlob    = NoBlob
    NoTrace   = NoTrace
INVARIANTS
    TypeOK
    Findable
    NoFalseMerge
    ReplayIsDeterministic
PROPERTIES
    FailedWriteKeepsData
    GateKeepsItsBounds
    CallEnds
CHECK_DEADLOCK FALSE

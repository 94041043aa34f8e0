SPECIFICATION Spec
CONSTANTS
    Subjects   <- MCSubjects
    Predicates <- MCPredicates
    Objects    <- MCObjects
    Times      <- MCTwoTimes
    INF        <- MCINF
    MaxId      = 3
    SaveBound  = 3
INVARIANTS
    TypeOK
    SingleOpen
    NoInverted
    Linked
    IndexesExact
    InverseAgrees
    CurrentIsAsOfNow
PROPERTIES
    NonLossy
    PastBeliefsKept

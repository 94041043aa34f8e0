SPECIFICATION Spec
CONSTANTS
    Namespaces <- MCNamespaces
    Threads    <- MCThreads
    t1 = t1
    t2 = t2
    MaxBrains  = 4
    MaxWrites  = 3
    NoBrain    = NoBrain
    NoBlob     = NoBlob
SYMMETRY MCSymmetry
INVARIANTS
    TypeOK
    Isolation
    WritesLand
    DroppedStaysDropped
    SnapshotComplete

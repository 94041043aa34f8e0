SPECIFICATION Spec
CONSTANTS
    Namespaces <- MCNamespaces
    Default    <- MCDefault
    Modes      <- MCBothModes
    PersistEvery = 2
    MaxOps       = 5
    NoFile       = NoFile
INVARIANTS
    TypeOK
    Isolation
    BoundedLoss
    DropIsFinalOnFile

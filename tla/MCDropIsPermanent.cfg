SPECIFICATION Spec
CONSTANTS
    Namespaces <- MCNamespaces
    Default    <- MCDefault
    Modes      <- MCStoreMode
    PersistEvery = 2
    MaxOps       = 5
    NoFile       = NoFile
INVARIANT
    DropIsPermanent

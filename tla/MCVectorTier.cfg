SPECIFICATION Spec
CONSTANTS
    tea = tea
    rum = rum
    small = small
    large = large
    Texts   <- MCTexts
    Models  <- MCModels
    MaxKeys = 2
    CanFail = TRUE
    Missing = Missing
    Torn    = Torn
SYMMETRY MCSymmetry
INVARIANTS
    TypeOK
    SearchIsRight

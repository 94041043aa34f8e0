SPECIFICATION Spec
CONSTANTS
    tea = tea
    rum = rum
    small = small
    large = large
    Texts   <- MCTexts
    Models  <- MCOneModel
    MaxKeys = 2
    CanFail = FALSE
    Missing = Missing
    Torn    = Torn
INVARIANT NeverSilentlyWrong

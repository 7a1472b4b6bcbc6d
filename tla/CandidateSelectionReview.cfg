SPECIFICATION Spec
CONSTANTS
    RepairLimits = {0, 1, 2}
    Settings <- MCSettings
    Weights <- MCWeights
    Certain = 20
    Confidences = {10, 18}
    VerifyBelow = 15
INVARIANT
    WinnerSurvivedReview

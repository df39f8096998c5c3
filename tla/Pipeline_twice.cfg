CONSTANTS
    Inputs <- Left
    Chains <- Twice
    MaxRounds = 1
SPECIFICATION Spec
INVARIANT ResultCorrect

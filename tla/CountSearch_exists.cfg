CONSTANTS
    Inputs <- Tied
SPECIFICATION Spec
INVARIANTS CountCorrect

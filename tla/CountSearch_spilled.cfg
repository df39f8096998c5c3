CONSTANTS
    Inputs <- Spilled
SPECIFICATION Spec
INVARIANTS CountCorrect

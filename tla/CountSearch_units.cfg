CONSTANTS
    Inputs <- Disregarded
SPECIFICATION Spec
INVARIANTS CountCorrect

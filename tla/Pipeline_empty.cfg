CONSTANTS
    Inputs <- NoModels
    Chains <- Twice
    MaxRounds = 1
SPECIFICATION Spec
INVARIANT ClausesLoadable

CONSTANTS
    Inputs <- Every
    Chains <- Single
    MaxRounds = 2
SPECIFICATION Spec
INVARIANTS CountKept ResultCorrect FoldedOnce DefinedTogether WeightsTotal ClausesLoadable

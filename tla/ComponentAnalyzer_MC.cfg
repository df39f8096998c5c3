CONSTANTS
    Var <- MCVar
    Formula <- MCFormula
    MaxDepth = 2
    MaxStep = 2
SPECIFICATION Spec
INVARIANTS ComponentsRight SplitComplete StaysInside FrequenciesRight
PROPERTIES SplitEnds

CONSTANTS
    NumVars <- MCNumVars
    NumClauses <- MCNumClauses
    BPB = 4
    WIDTH_HEADER_BITS = 2
    Component <- MCComponent
SPECIFICATION Spec
INVARIANTS InBuffer KeyTellsComponent

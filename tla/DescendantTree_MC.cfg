CONSTANTS
    Root = r
    Id = {r, a, b, c}
    MaxDepth = 2
    MaxTime = 5
SPECIFICATION Spec
INVARIANTS TreeOK StackEntriesKept CleanIsExact
PROPERTY ImplementsContract
CHECK_DEADLOCK FALSE

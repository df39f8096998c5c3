CONSTANTS
    Inputs <- MCInputs
    Hash <- MCHash
    NoComp <- NoneComp
    InitTable = 2
    PollEvery = 4
    InprocSimplify = TRUE
    NoSplit = 1000
    MaxIds = 12
    MaxLevel = 5
SPECIFICATION Spec
INVARIANTS TypeOK StacksOK TableOK NothingDead DecideHasSVar FixedIsFinal ListsOK AccountsOK
PROPERTIES ImplementsTree Termination

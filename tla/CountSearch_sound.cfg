CONSTANTS
    Inputs <- Sound
SPECIFICATION Spec
INVARIANTS CountCorrect CacheSound RemovedStaySatisfied UnitsHold ConflictAboveZero
    DecideUnassigned LearntImplied ExistsRight

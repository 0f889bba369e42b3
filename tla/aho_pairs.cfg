\* One or two patterns over three letters; inputs of four.
CONSTANTS
    Bytes = {1, 2, 3}
    PatternLists <- Pairs
    Inputs <- Fours
    None = None
SPECIFICATION Spec
INVARIANT TypeOK
INVARIANT SoundWithoutDoubles
INVARIANT CompleteWithShortOverlaps
PROPERTY LeavesLess
PROPERTY EndsWithoutDoubles
CHECK_DEADLOCK FALSE

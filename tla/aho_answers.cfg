\* Does Match return, and with the right answer?
CONSTANTS
    Bytes = {1, 2}
    PatternLists <- Singles
    Inputs <- UpToFive
    None = None
SPECIFICATION Spec
PROPERTY Answers
CHECK_DEADLOCK FALSE

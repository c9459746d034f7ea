SPECIFICATION ResponseSpec
CONSTANTS
    Replies <- SomeReplies
    MaxReplies = 1
    MaxLength = 40
INVARIANTS
    IncompleteIsCompleted
CHECK_DEADLOCK FALSE

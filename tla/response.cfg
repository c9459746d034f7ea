SPECIFICATION ResponseSpec
CONSTANTS
    Replies <- SomeReplies
    MaxReplies = 2
    MaxLength = 17
INVARIANTS
    ResponseTypeOK
    EachReplyIsOneMessage
    PartialIsBounded
CHECK_DEADLOCK FALSE

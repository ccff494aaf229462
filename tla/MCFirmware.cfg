SPECIFICATION Spec
CONSTANTS
    b1 = b1
    b2 = b2
    b3 = b3
    b4 = b4
    b5 = b5
    None = None
    Buffers <- MCBuffers
    MailboxSize = 1
    Received = 2
    Answers = 2
    Notified = 2
INVARIANTS
    CountsAreExact
    NothingLost
    ResetHasReason
PROPERTIES
    QueueDrains
    HangEnds
CHECK_DEADLOCK FALSE

SPECIFICATION FairSpec
CONSTANTS
    Senders = {s1}
    Receivers = {r1, r2}
    First = r1
    MaxItems = 1
PROPERTY PopReturnsAfterSenderDrop
CHECK_DEADLOCK FALSE

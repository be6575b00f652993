\* Two sending threads, three receivers, three items of any priority.
SPECIFICATION FairSpec
CONSTANTS
    Senders = {s1, s2}
    Receivers = {r1, r2, r3}
    First = r1
    MaxItems = 3
INVARIANTS
    NoLostWakeup
    InOrder
    AnswersAreFinal
PROPERTY QueuedIsTaken
\* The sending threads may stop, and a receiver may sleep for ever.
CHECK_DEADLOCK FALSE

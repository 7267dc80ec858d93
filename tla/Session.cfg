\* Both ends of a dialog: three requests of the applications, one message lost
SPECIFICATION Spec
CONSTANTS
    a = a
    b = b
    Ends = {a, b}
    MaxAsked = 3
    MaxLost = 1
INVARIANTS
    TypeOK
    Settled
    ToldOnce
PROPERTIES
    AnswerAdopted
    NoWayBack
    WaitEnds
\* Both sessions end, or the applications ask for nothing more.
CHECK_DEADLOCK FALSE

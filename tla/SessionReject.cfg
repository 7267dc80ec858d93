\* An update is refused; nothing is lost
SPECIFICATION Spec
CONSTANTS
    a = a
    b = b
    Ends = {a, b}
    MaxAsked = 1
    MaxLost = 0
PROPERTIES
    RefusedUpdateDiscarded
\* Both sessions end, or the applications ask for nothing more.
CHECK_DEADLOCK FALSE

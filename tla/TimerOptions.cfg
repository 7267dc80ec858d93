\* All choices of timers to set
SPECIFICATION Spec
INVARIANTS
    TypeOK
    UnsetKeepsConfig
    ClientTimersApply
\* One transaction; the connection stops with it.
CHECK_DEADLOCK FALSE

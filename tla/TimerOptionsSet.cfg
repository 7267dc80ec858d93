\* All choices of timers to set
SPECIFICATION Spec
INVARIANTS
    SetTimersApply
\* One transaction; the connection stops with it.
CHECK_DEADLOCK FALSE

\* INVITE server transaction over TCP; nothing fails
SPECIFICATION Spec
CONSTANTS
    T1 = 1
    T2 = 8
    TLimit = 64
    TWait = 64
    Envs <- QuietTcp
    Tags = {a}
    a = a
    MaxRSeq = 3
    MaxTxns = 1
INVARIANTS
    TerminatedLeavesPool
\* Every transaction ends, and only so many are made.
CHECK_DEADLOCK FALSE

\* INVITE client transaction over UDP; a send may fail
SPECIFICATION Spec
CONSTANTS
    T1 = 1
    T2 = 8
    TLimit = 64
    TWait = 64
    Envs <- LossyUdp
    Tags = {a}
    a = a
    MaxRSeq = 1
INVARIANTS
    CompletedKeepsAck
\* Every transaction ends.
CHECK_DEADLOCK FALSE

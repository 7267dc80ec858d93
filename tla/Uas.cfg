\* INVITE and PRACK server transactions over UDP; no send or timer fails
SPECIFICATION Spec
CONSTANTS
    T1 = 1
    T2 = 8
    TLimit = 32
    TWait = 64
    Envs <- AllEnvs
    Tags = {a}
    a = a
    MaxRSeq = 3
    InvTxns = 1
    PrackTxns = 3
INVARIANTS
    RepeatedUntilAccepted
\* Every transaction ends, and only so many are made.
CHECK_DEADLOCK FALSE

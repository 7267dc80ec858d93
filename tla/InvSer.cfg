\* INVITE server transactions, over UDP and TCP, with and without failures
SPECIFICATION Spec
CONSTANTS
    T1 = 1
    T2 = 8
    TLimit = 64
    TWait = 64
    Envs <- AllEnvs
    Tags = {a}
    a = a
    MaxRSeq = 2
    MaxTxns = 2
INVARIANTS
    TypeOK
    ContextsBalance
    RepeatedCanBePracked
    GiveUpAtLimit
    RepeatedUntilPracked
    CompletedRepeatsFinal
PROPERTIES
    CompletedEnds
    ReliableEnds
\* Every transaction ends, and only so many are made.
CHECK_DEADLOCK FALSE

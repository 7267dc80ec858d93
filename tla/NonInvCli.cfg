\* non-INVITE client transaction, over UDP and TCP, with failures
SPECIFICATION Spec
CONSTANTS
    T1 = 1
    T2 = 8
    TLimit = 64
    TWait = 64
    Envs <- AllEnvs
    Tags = {a}
    a = a
    MaxRSeq = 2
INVARIANTS
    TypeOK
    GiveUpAtLimit
    RetransmissionBudget
    EndNotifiedOnce
PROPERTIES
    KeepsPromise
    TransactionEnds
\* Every transaction ends.
CHECK_DEADLOCK FALSE

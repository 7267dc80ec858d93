\* INVITE client transaction, over UDP and TCP, with and without failures
SPECIFICATION Spec
CONSTANTS
    T1 = 1
    T2 = 8
    TLimit = 64
    TWait = 64
    Envs <- AllEnvs
    Tags = {a, b}
    a = a
    b = b
    MaxRSeq = 3
INVARIANTS
    TypeOK
    GiveUpAtLimit
    EndNotifiedOnce
    ReliableInOrder
PROPERTIES
    NoProvisionalAfterFinal
    KeepsPromise
    WaitingEnds
\* Every transaction ends.
CHECK_DEADLOCK FALSE

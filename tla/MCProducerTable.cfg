SPECIFICATION Spec
CONSTANTS
    t1 = t1
    t2 = t2
    t3 = t3
    Nobody = Nobody
    Threads <- MCThreads
    Hash <- MCHash
    InitialSize = 1
    MaxFailures = 1
INVARIANT OwnProducer
PROPERTY LookUpEnds

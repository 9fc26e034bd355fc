SPECIFICATION Spec
CONSTANTS
    p1 = p1
    p2 = p2
    c = c
    Items1 = 5
    Items2 = 2
    Threads <- MCThreads
    MaxBlocks = 6
    ProducerList <- MCProducerList
    Consumer = c
    MaxItems <- MCMaxItems
    MaxBulk = 3
    BLOCK_SIZE = 2
    IndexRange = 16
    InitialCapacity = 2
    PoolSize = 2
    Start = 14
CHECK_DEADLOCK FALSE
INVARIANTS BlocksInOnePlace SemaphoreAgrees
PROPERTY FifoSpec

\* A server that fails at will, stop(), and events that come after it.
SPECIFICATION FairSyslogSpec
CONSTANTS
    c1 = c1  c2 = c2  c3 = c3
    b1 = b1  b2 = b2  b3 = b3
    Flusher = Flusher  Stopper = Stopper  NoTask = NoTask
    Calls = {c1, c2, c3}
    Batch = {b1, b2, b3}
    BatchesOf <- MCBatchesOf3
    BatchSize = 2
    SendAttempts = 2
    MaxAttempts = 2
    RowLimit = 2
    MaxStarts = 1
    Faults = {"stop"}
INVARIANTS DeleteOnSuccess OnlyLateEventsRemain
PROPERTIES MemoryDrains DiskDrains StopCompletes

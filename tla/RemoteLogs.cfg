\* More calls than a batch, stop() at any moment.
SPECIFICATION FairSpec
CONSTANTS
    Calls = {a1, a2, a3}
    Loop = Loop  Stopper = Stopper  NoTask = NoTask
    BatchSize = 2
    MaxBufferSize = 4
INVARIANTS TypeOK InOrder EntriesKept
PROPERTIES FullBatchBlocks StopReturns
CHECK_DEADLOCK FALSE

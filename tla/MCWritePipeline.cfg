SPECIFICATION FairSpec
CONSTANTS
    alice = alice
    bob = bob
    Users <- MCUsers
    MaxWrites = 3
    MaxPendingWrites = 2
    MaxFaults = 3
INVARIANTS
    PipelineIsFrontOfQueue
    WireMatchesPipeline
    CallbacksBelongToBatches
    AcknowledgedInOrder
PROPERTIES
    WritesSettle
    PromiseKept
CHECK_DEADLOCK FALSE

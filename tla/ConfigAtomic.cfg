CONSTANTS
    n1 = n1
    n2 = n2
    Nodes <- MCNodes
    Batches <- MCBatches
    Values = {v1, v2}
    Requests = {r1, r2}
    MaxRuntimes = 2
    NoRequest = none
    WriteFaults = {"refused", "ignored"}
    UndoFaults = {"refused", "delivered"}
    MaxFaults = 2
SPECIFICATION FairSpec
CHECK_DEADLOCK FALSE
INVARIANTS ChangesAreSerial
PROPERTIES ImplementsAtomicBatch RequestsEnd

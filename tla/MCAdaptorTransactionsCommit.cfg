SPECIFICATION Spec
CONSTANTS
    r1 = r1
    r2 = r2
    Threads = {r1, r2}
    NoThread = NoThread
    Adaptors <- MCAdaptors
    Transactional <- MCTransactional
    JournalOf <- MCJournalOf
    MappedTo <- MCMappedTo
    Workload <- MCUpdates
    Faults = {"commit"}
    MaxOperations = 1
    MaxRequests = 1
INVARIANT EndedHoldsNothing
CHECK_DEADLOCK FALSE

SPECIFICATION LiveSpec
CONSTANTS
    r1 = r1
    r2 = r2
    Threads = {r1, r2}
    NoThread = NoThread
    Adaptors <- MCAdaptors
    Transactional <- MCTransactional
    JournalOf <- MCJournalOf
    MappedTo <- MCMappedTo
    Workload <- MCWorkload
    Faults = {"begin", "commit", "crash"}
    MaxOperations = 2
    MaxRequests = 1
INVARIANTS TransactionsInv AllOrNothing DurableInReverse CommittedIsJournaled OneOperationNeverDeadlocks
CHECK_DEADLOCK FALSE
PROPERTIES RequestEnds

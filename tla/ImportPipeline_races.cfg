SPECIFICATION Spec
CONSTANTS
    alice = alice
    bob = bob
    NumJobs = 1
    NumRows = 4
    Users = {alice, bob}
    Ragged <- OneRagged
    Poison <- OnePoison
    Limit = 20
    NoJob = NoJob
    MaxRequests = 4
    MaxFailures = 1
INVARIANTS EntityPerImportedRow NothingLeftBehind
PROPERTY ImportIsAtomic
\* Once the bounded requests are used up nothing has to run.
CHECK_DEADLOCK FALSE

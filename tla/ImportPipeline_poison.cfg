SPECIFICATION FairSpec
CONSTANTS
    alice = alice
    bob = bob
    NumJobs = 2
    NumRows = 1
    Users = {alice}
    Ragged = {}
    Poison <- OnePoison
    Limit = 20
    NoJob = NoJob
    MaxRequests = 4
    MaxFailures = 0
PROPERTY QueueDrains
CHECK_DEADLOCK FALSE

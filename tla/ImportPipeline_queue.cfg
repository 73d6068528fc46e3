SPECIFICATION FairSpec
CONSTANTS
    alice = alice
    bob = bob
    NumJobs = 2
    NumRows = 2
    Users = {alice}
    Ragged = {}
    Poison = {}
    Limit = 1
    NoJob = NoJob
    MaxRequests = 4
    MaxFailures = 1
PROPERTY QueueDrains
\* Once the bounded requests are used up nothing has to run.
CHECK_DEADLOCK FALSE

SPECIFICATION FairSpec
CONSTANTS
    r1 = r1
    r2 = r2
    r3 = r3
    e1 = e1
    e2 = e2
    e3 = e3
    Requests = {r1, r2, r3}
    NumTypes = 2
    EntityIds = {e1, e2}
    Formats = {0, 1, 2}
    Unrenderable = {1}
    DefaultFormat = 0
    Settable <- Given
    NoTx = NoTx
    MaxRequests = 4
INVARIANTS NumberUnique GapFree
PROPERTIES NamedByCurrentPattern KeepsTheLedger EveryRequestEnds
\* Once the bounded requests are used up nothing has to run.
CHECK_DEADLOCK FALSE

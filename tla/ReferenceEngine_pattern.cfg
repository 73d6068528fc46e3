SPECIFICATION Spec
CONSTANTS
    r1 = r1
    r2 = r2
    r3 = r3
    e1 = e1
    e2 = e2
    e3 = e3
    Requests = {r1}
    NumTypes = 1
    EntityIds <- ElevenIds
    Formats = {0, 1}
    Unrenderable = {}
    DefaultFormat = 0
    Settable <- AnyFormat
    NoTx = NoTx
    MaxRequests = 4
INVARIANT ReferenceNeverReused
CHECK_DEADLOCK FALSE

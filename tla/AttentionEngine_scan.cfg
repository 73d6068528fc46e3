SPECIFICATION FairSpec
CONSTANTS
    nightly = nightly
    manual = manual
    alice = alice
    bob = bob
    e1 = e1
    s1 = s1
    s2 = s2
    s3 = s3
    Scanners = {nightly, manual}
    Users = {alice, bob}
    NumRules = 1
    Entities = {e1}
    SignalIds = {s1, s2}
    NoTx = NoTx
    NoPair = NoPair
    NoEntity = NoEntity
    NoSignal = NoSignal
    MaxScans = 2
    MaxTriages = 3
INVARIANTS AtMostOneLive SettledDismissalRespected
PROPERTIES TriageIsUsersAlone EveryRequestEnds
\* Once the bounded scans and triage requests are used up nothing has to run.
CHECK_DEADLOCK FALSE

SPECIFICATION Spec
CONSTANTS
    c1 = c1  c2 = c2  r1 = r1  p1 = p1
    Clerks <- MCClerks
    NoClerk = NoClerk
    Properties = {p1}
    Amounts <- MCAmounts
    Days = {0, 1}
    References = {r1}
    NoRef = NoRef
    Windows = {0, 1}
    DefaultWindow = 0
    ObligationPayloads <- MCObligations
    PaymentPayloads <- MCPayments
    MaxLeases = 1
    MaxObligations = 2
    MaxBegun = 3
SYMMETRY Symmetry
\* bounded requests: once all have ended nothing more need happen
CHECK_DEADLOCK FALSE
INVARIANTS TypeOK MoneyCountedOnce AutoMatchWithinDue LeaseTrailIsItsHistory
PROPERTY MatchedIsFinal

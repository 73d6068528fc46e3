SPECIFICATION Spec
CONSTANTS
    Organisations = {"o1", "o2"}
    Limit = 1
    MaxJobs = 2
    MaxFaults = 1
    LastDay = 2
    Callers = {1, 2, 3}
    Codes <- MCCodes
    RULE_REGISTRY <- MCRules
    DEFAULT_FACTOR_WEIGHTS <- MCFactors
    DEFAULT_CHECK_WEIGHTS <- MCChecks
    RepairRules <- MCRepairRules
    Calls <- MCCalls
    MaxCalls = 3
    Properties = {}
    Clerks = {1, 2}
    MaxBegun = 5
    MaxDay = 2
    Emails = {"a", "b"}
    Roles = {"ADMIN", "VIEWER"}
    INVITATION_TTL_DAYS = 0
    MaxInvitations = 2
    Checkouts = {"sub1", "sub2"}
    StripeStatuses = {"active", "past_due", "canceled", "mystery"}
    MaxEvents = 3
    MaxDeliveries = 4
CHECK_DEADLOCK FALSE
INVARIANT PaymentFailureShows

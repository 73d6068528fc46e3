SPECIFICATION Spec
CONSTANTS
    c1 = c1  c2 = c2
    Clerks <- MCClerks
    Properties = {}
    MaxBegun = 6
    MaxRequests <- MCMaxRequests
    MaxDay = 2
    Estates <- MCEstates
    PropertyPayloads <- MCPropertyPayloads
    ComponentPayloads <- MCComponentPayloads
    ReferenceTypes = {"BUILDING_CONTROL_REFERENCE", "MANUFACTURER_SERIAL_NUMBER"}
    ReferenceValues = {"r1"}
    StatusesAsked = {"OPERATIONAL"}
    Points <- MCPoints
    Texts = {"v1", "v2"}
    EffectiveDates = {1}
    Unchanged = "unchanged"
    Related <- MCRelated
    DocumentTypes = {"CERTIFICATE", "COMMISSIONING", "O&M"}
    Uploads <- MCUploads
    Specified <- MCSpecified
    Proposed <- MCProposed
    Checksums = {"k1"}
    Unit = 100
    CheckWeights <- MCCheckWeights
    StatusChanges = {"READY_FOR_HANDOVER", "HANDED_OVER"}
    TYPES_EXPECTING_WARRANTY = {"BOILERS"}
SYMMETRY Symmetry
\* bounded requests: once all have ended nothing more need happen
CHECK_DEADLOCK FALSE
INVARIANTS TypeOK OneCurrentRevision ChangeTrailAccurate ViewCountsEveryProperty HandoverIsEvidenced FullReadinessOrOverride FindingsOfOneRun

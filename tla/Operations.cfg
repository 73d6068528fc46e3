SPECIFICATION Spec
CONSTANTS
    c1 = c1  c2 = c2  x1 = x1  m1 = m1  m2 = m2
    Clerks <- MCClerks
    MaxBegun = 6
    MaxRequests <- MCMaxRequests
    MaxDay = 3
    Domains = {"GAS_SAFETY"}
    Codes = {"GAS-001"}
    Entities = {"p1"}
    EffectiveDates = {2}
    InspectionPayloads <- MCInspections
    StatusConfigs <- MCStatusConfigs
    DefaultStatusConfig <- MCDefaultStatusConfig
    Properties = {"p1"}
    HazardTypes = {"DAMP_AND_MOULD"}
    HazardSeverity = {"HIGH"}
    HazardRuleConfigs <- MCHazardRules
    DefaultHazardRule <- MCDefaultHazardRule
    Components = {x1}
    NoComponent = NoComponent
    Priorities = {"EMERGENCY"}
    ComponentModels = {m1, m2}
    ModelOf <- MCModelOf
    RepairRuleConfigs <- MCRepairRules
    DefaultRepairRules <- MCDefaultRepairRules
SYMMETRY Symmetry
\* bounded requests: once all have ended nothing more need happen
CHECK_DEADLOCK FALSE
INVARIANTS TypeOK OneCurrentVersion ReportAgreesWithStatuses BulkSignalsAgree DatedIffCompleted
PROPERTIES TimeOnlyDegrades SignalsOutliveClosing

------------------------------ MODULE Hazards -------------------------------
(***************************************************************************)
(* Hazards (damp and mould is one hazard_type among others), the actions   *)
(* raised against them, and repeat-hazard detection.  A status request     *)
(* loads the row and checks the transition graph, and commits in a step of *)
(* its own.  Findings, descriptions and deadlines are left out.            *)
(***************************************************************************)
EXTENDS Requests

CONSTANTS HazardTypes, HazardSeverity,
    HazardRuleConfigs, DefaultHazardRule   \* [window_months, threshold]; a month is a day here

ASSUME HazardsAssumption ==
    /\ HazardRuleConfigs \subseteq [window_months : Int, threshold : Int]
    /\ DefaultHazardRule \in HazardRuleConfigs

VARIABLES hazard, hazard_action, hazard_rule_config

hazards == <<hazard, hazard_action, hazard_rule_config>>

HazardStatus == {"REPORTED", "TRIAGED", "INVESTIGATING", "INVESTIGATED",
                 "ACTION_IN_PROGRESS", "FOLLOW_UP", "CLOSED"}
HazardInvestigationStatus == {"PENDING", "CONFIRMED", "NOT_CONFIRMED", "INCONCLUSIVE"}
Hazard == [property_id : Properties, hazard_type : HazardTypes, reported_date : Days,
           severity : HazardSeverity, investigation_status : HazardInvestigationStatus,
           status : HazardStatus]
HazardActionStatus == {"OPEN", "COMPLETED", "CANCELLED"}
HazardAction == [hazard_id : Nat, status : HazardActionStatus, completed_date : Days \union {None}]

HAZARD_TRANSITIONS ==
    [REPORTED |-> {"TRIAGED"}, TRIAGED |-> {"INVESTIGATING"}, INVESTIGATING |-> {"INVESTIGATED"},
     INVESTIGATED |-> {"ACTION_IN_PROGRESS", "FOLLOW_UP", "CLOSED"},
     ACTION_IN_PROGRESS |-> {"FOLLOW_UP", "CLOSED"},
     FOLLOW_UP |-> {"CLOSED", "ACTION_IN_PROGRESS"}, CLOSED |-> {}]

HAZARD_ACTION_TRANSITIONS ==
    [OPEN |-> {"COMPLETED", "CANCELLED"}, COMPLETED |-> {}, CANCELLED |-> {}]

\* Mutant: a hazard starts in a status that is none of the enum's.
create_open_hazard(p, type, severity, reported) ==
    [property_id |-> p, hazard_type |-> type, reported_date |-> reported, severity |-> severity,
     investigation_status |-> "PENDING", status |-> "OPEN"]

create_hazard(p, type, severity, reported) ==
    [property_id |-> p, hazard_type |-> type, reported_date |-> reported, severity |-> severity,
     investigation_status |-> "PENDING", status |-> "REPORTED"]

\* The reported date is the payload's own, in the past or in the future.
AddHazard ==
    /\ \E p \in Properties, type \in HazardTypes, severity \in HazardSeverity, reported \in Days :
          hazard' = Append(hazard, create_hazard(p, type, severity, reported))
    /\ Once
    /\ UNCHANGED <<hazard_action, hazard_rule_config>>

\* The outcome of the investigation may come with any transition.
update_hazard_status(row, to, outcome) ==
    [row EXCEPT !.status = to, !.investigation_status = outcome]

BeginHazardStatus(c) ==
    /\ \E h \in DOMAIN hazard, to \in HazardStatus, outcome \in {"PENDING", "CONFIRMED"} :
          /\ to \in HAZARD_TRANSITIONS[hazard[h].status]
          /\ Hold(c, [pc |-> "hazard", keys |-> {<<"hazard", h>>}, id |-> h, to |-> to,
                      outcome |-> outcome])
    /\ UNCHANGED hazards

UpdateHazardStatus(c) ==
    LET r == req[c] IN
    /\ At(c, "hazard")
    /\ hazard' = [hazard EXCEPT ![r.id] = update_hazard_status(@, r.to, r.outcome)]
    /\ End(c)
    /\ UNCHANGED <<hazard_action, hazard_rule_config>>

\* An action may be raised against a hazard of any status, CLOSED included.
create_hazard_action(h) == [hazard_id |-> h, status |-> "OPEN", completed_date |-> None]

AddHazardAction ==
    /\ \E h \in DOMAIN hazard : hazard_action' = Append(hazard_action, create_hazard_action(h))
    /\ Once
    /\ UNCHANGED <<hazard, hazard_rule_config>>

BeginHazardActionStatus(c) ==
    /\ \E a \in DOMAIN hazard_action, to \in HazardActionStatus :
          /\ to \in HAZARD_ACTION_TRANSITIONS[hazard_action[a].status]
          /\ Hold(c, [pc |-> "remedial", keys |-> {<<"hazard_action", a>>}, id |-> a, to |-> to])
    /\ UNCHANGED hazards

update_hazard_action_status(row, to, given) ==
    [row EXCEPT !.status = to, !.completed_date = IF to = "COMPLETED" THEN OrToday(given) ELSE @]

UpdateHazardActionStatus(c) ==
    LET r == req[c] IN
    /\ At(c, "remedial")
    /\ \E given \in Days \union {None} :
          hazard_action' = [hazard_action EXCEPT ![r.id] =
                               update_hazard_action_status(@, r.to, given)]
    /\ End(c)
    /\ UNCHANGED <<hazard, hazard_rule_config>>

UpdateHazardRuleConfig ==
    /\ hazard_rule_config' \in HazardRuleConfigs
    /\ Once
    /\ UNCHANGED <<hazard, hazard_action>>

\* Mutant: closed hazards are not counted.
repeat_open_hazards(p, type) ==
    {h \in DOMAIN hazard : /\ hazard[h].property_id = p /\ hazard[h].hazard_type = type
                           /\ hazard[h].reported_date >= today - hazard_rule_config.window_months
                           /\ hazard[h].status # "CLOSED"}

\* The hazards a repeat signal would rest on: no status is left out.
repeat_hazards(p, type) ==
    {h \in DOMAIN hazard : /\ hazard[h].property_id = p /\ hazard[h].hazard_type = type
                           /\ hazard[h].reported_date >= today - hazard_rule_config.window_months}

\* Whether the signal is raised.
repeat_hazards_for_property(p, type) ==
    Cardinality(repeat_hazards(p, type)) >= hazard_rule_config.threshold

HazardsInit ==
    hazard = <<>> /\ hazard_action = <<>> /\ hazard_rule_config = DefaultHazardRule

HazardsNext ==
    \/ AddHazard \/ AddHazardAction \/ UpdateHazardRuleConfig
    \/ \E c \in Clerks :
          \/ BeginHazardStatus(c) \/ UpdateHazardStatus(c)
          \/ BeginHazardActionStatus(c) \/ UpdateHazardActionStatus(c)

HazardsTypeOK ==
    /\ hazard \in Seq(Hazard) /\ hazard_action \in Seq(HazardAction)
    /\ hazard_rule_config \in HazardRuleConfigs
=============================================================================

------------------------------ MODULE Repairs -------------------------------
(***************************************************************************)
(* The repair register and the rules computed from it on every read: the   *)
(* three rules of repeat_repair.py, one property, component or model at a  *)
(* time, and the bulk figures of repairs_intelligence.py.  A month of a    *)
(* rule's window is a day here.  Categories, contractors, references and   *)
(* descriptions are left out.                                              *)
(***************************************************************************)
EXTENDS Requests

CONSTANTS
    Components, NoComponent,
    Priorities,                     \* priorities a request may give, some of RepairPriority
    ComponentModels, ModelOf,       \* [Components -> ComponentModels]
    RepairRuleConfigs, DefaultRepairRules

VARIABLES
    repair,             \* repairs
    repair_rule_config  \* the organisation's three repair_rule_configs rows, as one record

repairs == <<repair, repair_rule_config>>

RepairPriority == {"EMERGENCY", "URGENT", "ROUTINE", "PLANNED"}
ASSUME RepairsAssumption ==
    /\ NoComponent \notin Components /\ ModelOf \in [Components -> ComponentModels]
    /\ Priorities \subseteq RepairPriority
    /\ RepairRuleConfigs \subseteq
          [property_window : Int, property_threshold : Int, component_window : Int,
           component_threshold : Int, ratio : Int, min_installed_base : Int]
    /\ DefaultRepairRules \in RepairRuleConfigs

RepairStatus   == {"REPORTED", "SCHEDULED", "IN_PROGRESS", "COMPLETED", "CANCELLED"}
OPEN_STATUSES  == {"REPORTED", "SCHEDULED", "IN_PROGRESS"}
Repair == [property_id : Properties, component_id : Components \union {NoComponent},
           is_emergency : BOOLEAN, reported_date : Days,
           completed_date : Days \union {None}, status : RepairStatus]

REPAIR_TRANSITIONS ==
    [REPORTED |-> {"SCHEDULED", "CANCELLED"}, SCHEDULED |-> {"IN_PROGRESS", "CANCELLED"},
     IN_PROGRESS |-> {"COMPLETED", "CANCELLED"}, COMPLETED |-> {}, CANCELLED |-> {}]

-----------------------------------------------------------------------------
create_repair(p, x, priority, reported) ==
    [property_id |-> p, component_id |-> x, is_emergency |-> priority = "EMERGENCY",
     reported_date |-> reported, completed_date |-> None, status |-> "REPORTED"]

\* The component named need not stand in the property named, and the reported date is
\* the payload's own, in the past or in the future.
AddRepair ==
    /\ \E p \in Properties, x \in Components \union {NoComponent},
          priority \in Priorities, reported \in Days :
          repair' = Append(repair, create_repair(p, x, priority, reported))
    /\ Once
    /\ UNCHANGED repair_rule_config

\* A row of a file: a component that is not found leaves the repair unlinked.
import_repair_row ==
    /\ \E p \in Properties, x \in Components \union {NoComponent}, reported \in Days :
          repair' = Append(repair, create_repair(p, x, "ROUTINE", reported))
    /\ Once
    /\ UNCHANGED repair_rule_config

BeginRepairStatus(c) ==
    /\ \E i \in DOMAIN repair, to \in RepairStatus :
          /\ to \in REPAIR_TRANSITIONS[repair[i].status]
          /\ Hold(c, [pc |-> "repair", keys |-> {<<"repair", i>>}, id |-> i, to |-> to])
    /\ UNCHANGED repairs

update_repair_status(row, to, given) ==
    [row EXCEPT !.status = to, !.completed_date = IF to = "COMPLETED" THEN OrToday(given) ELSE @]

UpdateRepairStatus(c) ==
    LET r == req[c] IN
    /\ At(c, "repair")
    /\ \E given \in Days \union {None} :
          repair' = [repair EXCEPT ![r.id] = update_repair_status(@, r.to, given)]
    /\ End(c)
    /\ UNCHANGED repair_rule_config

UpdateRepairRuleConfig ==
    /\ repair_rule_config' \in RepairRuleConfigs
    /\ Once
    /\ UNCHANGED repair

-----------------------------------------------------------------------------
(* repeat_repair.py *)

Since(window) == {i \in DOMAIN repair : /\ repair[i].reported_date >= today - window
                                        /\ repair[i].status # "CANCELLED"}

repeat_repairs_for_property(p) ==
    LET rows == {i \in Since(repair_rule_config.property_window) : repair[i].property_id = p}
    IN  IF Cardinality(rows) < repair_rule_config.property_threshold THEN {} ELSE rows

repeat_failures_for_component(x) ==
    LET rows == {i \in Since(repair_rule_config.component_window) : repair[i].component_id = x}
    IN  IF Cardinality(rows) < repair_rule_config.component_threshold THEN {} ELSE rows

\* Any repair ever reported of a component makes it a failed one, cancelled or not.
\* The ratio of a model nobody installed is 0 / 0 once a PATCH has made the base 0.
component_model_trend(m) ==
    LET installed == {x \in Components : ModelOf[x] = m}
        failed    == {repair[i].component_id : i \in DOMAIN repair} \cap installed
        enough    == Cardinality(installed) >= repair_rule_config.min_installed_base
    IN  [failed |-> failed,
         raises |-> enough /\ installed = {},
         signal |-> enough /\ installed # {} /\ 100 * Cardinality(failed)
                                 >= repair_rule_config.ratio * Cardinality(installed)]

(* repairs_intelligence.py: both windowed rules at once, from one query    *)
(* over the wider of the two windows                                       *)

\* Mutant: the rows of the wider window are counted for both rules.
grouped_by_any(rows, window, key, k) == {i \in rows : repair[i][key] = k}

grouped_by(rows, window, key, k) ==
    {i \in rows : repair[i][key] = k /\ repair[i].reported_date >= today - window}

get_repairs_intelligence ==
    LET cfg   == repair_rule_config
        rows  == Since(Max({cfg.property_window, cfg.component_window}))
        P(p)  == grouped_by(rows, cfg.property_window, "property_id", p)
        X(x)  == grouped_by(rows, cfg.component_window, "component_id", x)
        With(s) == {i \in DOMAIN repair : repair[i].status \in s}
        dated == {i \in With({"COMPLETED"}) : repair[i].completed_date # None}
    IN  [total_count      |-> Len(repair),
         open_count       |-> Cardinality(With(OPEN_STATUSES)),
         completed_count  |-> Cardinality(With({"COMPLETED"})),
         emergency_count  |-> Cardinality({i \in DOMAIN repair : repair[i].is_emergency}),
         completion_days  |->
            SumFunctionOnSet([i \in dated |-> repair[i].completed_date - repair[i].reported_date], dated),
         repeat_repair_properties  |->
            {p \in Properties : P(p) # {} /\ Cardinality(P(p)) >= cfg.property_threshold},
         repeat_failure_components |->
            {x \in Components : X(x) # {} /\ Cardinality(X(x)) >= cfg.component_threshold}]

-----------------------------------------------------------------------------
RepairsInit == repair = <<>> /\ repair_rule_config = DefaultRepairRules

RepairsNext ==
    \/ AddRepair \/ import_repair_row \/ UpdateRepairRuleConfig
    \/ \E c \in Clerks : BeginRepairStatus(c) \/ UpdateRepairStatus(c)

RepairsTypeOK == repair \in Seq(Repair) /\ repair_rule_config \in RepairRuleConfigs

\* The bulk report lists exactly the properties and components whose own page raises
\* the signal, "the exact same decision rule", among those with a repair in the window;
\* and each of its components counts as failed in the trend of its model.
BulkSignalsAgree ==
    LET report == get_repairs_intelligence IN
    /\ report.repeat_repair_properties = {p \in Properties : repeat_repairs_for_property(p) # {}}
    /\ report.repeat_failure_components = {x \in Components : repeat_failures_for_component(x) # {}}
    /\ \A x \in report.repeat_failure_components : x \in component_model_trend(ModelOf[x]).failed
=============================================================================

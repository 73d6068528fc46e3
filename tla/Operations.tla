----------------------------- MODULE Operations -----------------------------
(***************************************************************************)
(* The operations domain of one organisation: compliance, hazards and      *)
(* repairs, over the same requests and the same calendar.  The three write *)
(* no row of one another, so a behaviour follows the requests to one of    *)
(* them, `focus`; the calendar is common.                                  *)
(***************************************************************************)
EXTENDS Compliance, Hazards, Repairs

CONSTANT MaxRequests   \* bound: requests begun in a behaviour, by the component followed

VARIABLE focus    \* the component whose requests this behaviour follows

vars == <<compliance, hazards, repairs, requests, focus>>

Init ==
    /\ RequestsInit /\ ComplianceInit /\ HazardsInit /\ RepairsInit
    /\ focus \in {"compliance", "hazards", "repairs"}

Bounded == begun' <= MaxRequests[focus] /\ UNCHANGED focus

Next ==
    \/ focus = "compliance" /\ ComplianceNext /\ Bounded /\ UNCHANGED <<hazards, repairs>>
    \/ focus = "hazards"    /\ HazardsNext    /\ Bounded /\ UNCHANGED <<compliance, repairs>>
    \/ focus = "repairs"    /\ RepairsNext    /\ Bounded /\ UNCHANGED <<compliance, hazards>>
    \/ NextDay /\ UNCHANGED <<compliance, hazards, repairs, focus>>

Spec == Init /\ [][Next]_vars

-----------------------------------------------------------------------------
\* Every row has the types of its columns.
TypeOK == RequestsOK /\ ComplianceTypeOK /\ HazardsTypeOK /\ RepairsTypeOK

\* A completion date stands on the completed rows and on no other: what average
\* completion times and evidence of closure are computed from, unless two status
\* requests on the row overlapped.
DatedIffCompleted ==
    LET Dated(table, key) ==
           \A i \in DOMAIN table : <<key, i>> \notin raced =>
              (table[i].completed_date # None <=> table[i].status = "COMPLETED")
    IN  /\ Dated(action, "compliance_action")
        /\ Dated(hazard_action, "hazard_action")
        /\ Dated(repair, "repair")

\* A repeat signal outlives the closing of what it counts: a hazard signal goes only
\* with time or a PATCH of the rule, a repair signal also with a cancellation.
SignalsOutliveClosing ==
    [][today' = today =>
       /\ hazard_rule_config' = hazard_rule_config =>
             \A p \in Properties, t \in HazardTypes :
                repeat_hazards_for_property(p, t) => repeat_hazards_for_property(p, t)'
       /\ /\ repair_rule_config' = repair_rule_config
          /\ \A i \in DOMAIN repair : repair'[i].status = "CANCELLED" => repair'[i] = repair[i]
          => \A p \in Properties :
                repeat_repairs_for_property(p) # {} => repeat_repairs_for_property(p)' # {}]_vars
=============================================================================

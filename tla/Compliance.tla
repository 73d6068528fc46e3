----------------------------- MODULE Compliance -----------------------------
(***************************************************************************)
(* The compliance framework of one organisation: versioned requirements,   *)
(* where they apply, inspections, remedial actions, and the status that    *)
(* status_engine.py computes from them on every read, one pair of entity   *)
(* and requirement at a time, and assurance.py computes in bulk.           *)
(*                                                                         *)
(* Rows are sequences in commit order and a row's id is its position.      *)
(* Titles, inspectors, documents and descriptions are left out.            *)
(***************************************************************************)
EXTENDS Requests

CONSTANTS
    Domains, Codes,           \* compliance domains and requirement codes
    Entities,                 \* buildings, properties and components
    EffectiveDates,           \* days a new version may take effect on
    InspectionPayloads,       \* [inspection_date, result, next_due_date]
    StatusConfigs, DefaultStatusConfig   \* [due_soon_days, never_assessed_grace_days]

ASSUME ComplianceAssumption ==
    /\ EffectiveDates \subseteq Days
    /\ InspectionPayloads \subseteq
          [inspection_date : Days, next_due_date : Days \union {None},
           result : {"SATISFACTORY", "UNSATISFACTORY", "ADVISORY"}]
    /\ StatusConfigs \subseteq [due_soon_days : Int, never_assessed_grace_days : Int]
    /\ DefaultStatusConfig \in StatusConfigs

VARIABLES
    requirement,      \* compliance_requirements
    applicability,    \* requirement_applicability
    inspection,       \* inspections
    action,           \* compliance_actions
    status_config     \* the organisation's compliance_status_configs row

compliance == <<requirement, applicability, inspection, action, status_config>>

ComplianceRequirement ==
    [domain : Domains, code : Codes, version : Nat \ {0}, hard_deadline : BOOLEAN,
     superseded_date : Days \union {None}]
RequirementApplicability ==
    [requirement_id : Nat, entity : Entities, applicable_from : Days,
     applicable_to : Days \union {None}]
InspectionResult == {"SATISFACTORY", "UNSATISFACTORY", "ADVISORY"}
Inspection ==
    [requirement_id : Nat, entity : Entities, inspection_date : Days,
     result : InspectionResult, next_due_date : Days \union {None}]
ComplianceActionStatus == {"OPEN", "COMPLETED", "CANCELLED"}
ComplianceAction ==
    [requirement_id : Nat, entity : Entities, deadline : Days,
     status : ComplianceActionStatus, completed_date : Days \union {None}]

Requirements == DOMAIN requirement
Pairs        == Entities \X Requirements

-----------------------------------------------------------------------------
(* Requirements and their versions *)

list_requirements(current_only) ==
    {r \in Requirements : current_only => requirement[r].superseded_date = None}

Lineage(d, code) == {r \in Requirements : requirement[r].domain = d /\ requirement[r].code = code}

Duplicate(d, code) == Lineage(d, code) \cap list_requirements(TRUE) # {}

create_requirement(d, code, hard) ==
    [domain |-> d, code |-> code, version |-> 1, hard_deadline |-> hard, superseded_date |-> None]

\* The key both kinds of request hold: the lineage whose current version they read.
LineageKey(d, code) == <<"requirement", d, code>>

BeginRequirement(c) ==
    /\ \E d \in Domains, code \in Codes, hard \in BOOLEAN :
          /\ ~Duplicate(d, code)
          /\ Hold(c, [pc |-> "requirement", keys |-> {LineageKey(d, code)},
                      row |-> create_requirement(d, code, hard)])
    /\ UNCHANGED compliance

AddRequirement(c) ==
    /\ At(c, "requirement")
    /\ requirement' = Append(requirement, req[c].row)
    /\ End(c)
    /\ UNCHANGED <<applicability, inspection, action, status_config>>

\* Mutant: a version is made from any row, superseded or not.
VersionableAny(r) == TRUE

Versionable(r) == requirement[r].superseded_date = None

BeginVersion(c) ==
    /\ \E r \in Requirements, effective \in EffectiveDates, hard \in BOOLEAN :
          /\ Versionable(r)
          /\ Hold(c, [pc |-> "version", keys |-> {LineageKey(requirement[r].domain, requirement[r].code)},
                      id |-> r, effective |-> effective, hard |-> hard])
    /\ UNCHANGED compliance

\* The next version of row r, and r superseded from the day the next one takes effect.
\* `hard` is the hard_deadline given, or that of r when none is.
create_requirement_version(r, effective, hard) ==
    Append([requirement EXCEPT ![r].superseded_date = effective],
           [requirement[r] EXCEPT !.version = @ + 1, !.hard_deadline = hard,
                                  !.superseded_date = None])

AddRequirementVersion(c) ==
    /\ At(c, "version")
    /\ requirement' = create_requirement_version(req[c].id, req[c].effective, req[c].hard)
    /\ End(c)
    /\ UNCHANGED <<applicability, inspection, action, status_config>>

(* Applicability, inspections, actions *)

create_applicability(r, e, from) ==
    [requirement_id |-> r, entity |-> e, applicable_from |-> from, applicable_to |-> None]

AddApplicability ==
    /\ \E r \in Requirements, e \in Entities, from \in Days :
          applicability' = Append(applicability, create_applicability(r, e, from))
    /\ Once
    /\ UNCHANGED <<requirement, inspection, action, status_config>>

\* The end may lie before the start, and an applicability that ended may be ended again.
end_applicability(a, to) == [applicability EXCEPT ![a].applicable_to = to]

EndApplicability ==
    /\ \E a \in DOMAIN applicability, to \in Days : applicability' = end_applicability(a, to)
    /\ Once
    /\ UNCHANGED <<requirement, inspection, action, status_config>>

create_inspection(r, e, payload) ==
    [requirement_id |-> r, entity |-> e, inspection_date |-> payload.inspection_date,
     result |-> payload.result, next_due_date |-> payload.next_due_date]

AddInspection ==
    /\ \E r \in Requirements, e \in Entities, p \in InspectionPayloads :
          inspection' = Append(inspection, create_inspection(r, e, p))
    /\ Once
    /\ UNCHANGED <<requirement, applicability, action, status_config>>

\* An imported row names its requirement by code alone: any current requirement
\* with that code, of whatever domain, takes the inspection.
import_compliance_inspection_row ==
    /\ \E code \in Codes, e \in Entities, p \in InspectionPayloads :
       \E r \in {x \in list_requirements(TRUE) : requirement[x].code = code} :
          inspection' = Append(inspection, create_inspection(r, e, p))
    /\ Once
    /\ UNCHANGED <<requirement, applicability, action, status_config>>

create_compliance_action(r, e, deadline) ==
    [requirement_id |-> r, entity |-> e, deadline |-> deadline, status |-> "OPEN",
     completed_date |-> None]

AddAction ==
    /\ \E r \in Requirements, e \in Entities, deadline \in Days :
          action' = Append(action, create_compliance_action(r, e, deadline))
    /\ Once
    /\ UNCHANGED <<requirement, applicability, inspection, status_config>>

COMPLIANCE_ACTION_TRANSITIONS ==
    [OPEN |-> {"COMPLETED", "CANCELLED"}, COMPLETED |-> {}, CANCELLED |-> {}]

BeginActionStatus(c) ==
    /\ \E a \in DOMAIN action, to \in ComplianceActionStatus :
          /\ to \in COMPLIANCE_ACTION_TRANSITIONS[action[a].status]
          /\ Hold(c, [pc |-> "action", keys |-> {<<"compliance_action", a>>}, id |-> a, to |-> to])
    /\ UNCHANGED compliance

\* Mutant: the date is stamped whatever the new status.
complete_compliance_action(row, to, given) ==
    [row EXCEPT !.status = to, !.completed_date = OrToday(given)]

\* Only the columns that change are written: a date once there stays.
update_compliance_action_status(row, to, given) ==
    [row EXCEPT !.status = to, !.completed_date = IF to = "COMPLETED" THEN OrToday(given) ELSE @]

UpdateActionStatus(c) ==
    /\ At(c, "action")
    /\ \E given \in Days \union {None} :
          action' = [action EXCEPT ![req[c].id] =
                        update_compliance_action_status(@, req[c].to, given)]
    /\ End(c)
    /\ UNCHANGED <<requirement, applicability, inspection, status_config>>

\* Each PATCH writes the row it holds the lock of; nothing is checked first.
UpdateStatusConfig ==
    /\ \E config \in StatusConfigs : status_config' = config
    /\ Once
    /\ UNCHANGED <<requirement, applicability, inspection, action>>


-----------------------------------------------------------------------------
(* status_engine.py: the status of one pair *)

ComplianceStatus == {"NOT_APPLICABLE", "UNKNOWN", "MISSING_EVIDENCE", "OVERDUE_ACTION",
    "OPEN_ACTION", "OVERDUE", "EXPIRED", "DUE_SOON", "NEEDS_REVIEW", "CURRENT"}

Only(S) == CHOOSE x \in S : TRUE

AppliesOn(a, day) ==
    /\ applicability[a].applicable_from <= day
    /\ applicability[a].applicable_to = None \/ applicability[a].applicable_to >= day

\* A query for the rows of one pair.
OfPair(table, e, r) ==
    {i \in DOMAIN table : table[i].entity = e /\ table[i].requirement_id = r}

\* .first() of the applicabilities in force: any of them.
current_applicability(e, r) == {a \in OfPair(applicability, e, r) : AppliesOn(a, today)}

\* ORDER BY inspection_date DESC, .first(): any of those of the latest date, which
\* may lie in the future.
latest_inspection(e, r) ==
    LET mine == OfPair(inspection, e, r) IN
    {i \in mine : \A j \in mine : inspection[j].inspection_date <= inspection[i].inspection_date}

open_actions(e, r) == {a \in OfPair(action, e, r) : action[a].status = "OPEN"}

\* Mutant: the grace period is read the wrong way round.
resolve_ungraced_status(r, applicable, latest, open) ==
    LET a == Only(applicable) i == Only(latest)
        daysToDue == inspection[i].next_due_date - today
    IN  IF applicable = {} THEN "NOT_APPLICABLE"
        ELSE IF latest = {} THEN IF today - applicability[a].applicable_from
                                      <= status_config.never_assessed_grace_days
                                 THEN "MISSING_EVIDENCE" ELSE "UNKNOWN"
        ELSE IF open # {} THEN "OPEN_ACTION"
        ELSE IF daysToDue < 0 THEN "OVERDUE" ELSE "CURRENT"

\* The rows found for a pair, in the order the engine asks of them.
resolve_compliance_status(r, applicable, latest, open) ==
    LET a == Only(applicable)  i == Only(latest)
        due       == inspection[i].next_due_date
        daysToDue == due - today
        reviewed  == IF inspection[i].result = "SATISFACTORY" THEN "CURRENT" ELSE "NEEDS_REVIEW"
    IN  IF applicable = {} THEN "NOT_APPLICABLE"
        ELSE IF latest = {} THEN IF today - applicability[a].applicable_from
                                      <= status_config.never_assessed_grace_days
                                 THEN "UNKNOWN" ELSE "MISSING_EVIDENCE"
        ELSE IF open # {} THEN IF \E x \in open : action[x].deadline < today
                               THEN "OVERDUE_ACTION" ELSE "OPEN_ACTION"
        ELSE IF due = None THEN reviewed
        ELSE IF daysToDue < 0 THEN IF requirement[r].hard_deadline THEN "OVERDUE" ELSE "EXPIRED"
        ELSE IF daysToDue <= status_config.due_soon_days THEN "DUE_SOON"
        ELSE reviewed

compliance_status(e, r) ==
    resolve_compliance_status(r, current_applicability(e, r), latest_inspection(e, r),
                              open_actions(e, r))

\* Every requirement that ever had an applicability to e, ended ones included.
list_compliance_statuses_for_entity(e) ==
    [r \in {applicability[a].requirement_id :
              a \in {b \in DOMAIN applicability : applicability[b].entity = e}}
       |-> compliance_status(e, r)]

-----------------------------------------------------------------------------
(* assurance.py: the same decision for every pair in scope at once, from   *)
(* one query a table, counted by domain and status                         *)

\* Mutant: the grouping key leaves the requirement out.
rows_grouped_by_entity(table, rows, e, r) == {i \in rows : table[i].entity = e}

\* Rows fetched for all pairs in scope, grouped by their key.
rows_by_key(table, rows, e, r) ==
    {i \in rows : table[i].entity = e /\ table[i].requirement_id = r}

\* The inspections come in descending order of date: the first seen of a key is kept.
latest_inspection_by_key(rows, e, r) ==
    LET mine == rows_by_key(inspection, rows, e, r) IN
    {i \in mine : \A j \in mine : inspection[j].inspection_date <= inspection[i].inspection_date}

get_board_assurance_report(scope) ==
    LET rows     == {a \in DOMAIN applicability :
                        applicability[a].entity \in scope /\ AppliesOn(a, today)}
        reqs     == {applicability[a].requirement_id : a \in rows}
        ents     == {applicability[a].entity : a \in rows}
        Bulk(table) == {i \in DOMAIN table : table[i].entity \in ents /\ table[i].requirement_id \in reqs}
        open     == {x \in Bulk(action) : action[x].status = "OPEN"}
        Status(a) == LET e == applicability[a].entity r == applicability[a].requirement_id IN
                     resolve_compliance_status(r, {a}, latest_inspection_by_key(Bulk(inspection), e, r),
                                               rows_by_key(action, open, e, r))
        Domain(a) == requirement[applicability[a].requirement_id].domain
    IN  [d \in {Domain(a) : a \in rows} |->
           [s \in ComplianceStatus |-> Cardinality({a \in rows : Domain(a) = d /\ Status(a) = s})]]

-----------------------------------------------------------------------------
ComplianceInit ==
    /\ requirement = <<>> /\ applicability = <<>> /\ inspection = <<>> /\ action = <<>>
    /\ status_config = DefaultStatusConfig

ComplianceNext ==
    \/ AddApplicability \/ EndApplicability
    \/ AddInspection \/ import_compliance_inspection_row
    \/ AddAction \/ UpdateStatusConfig
    \/ \E c \in Clerks :
          \/ BeginRequirement(c) \/ AddRequirement(c)
          \/ BeginVersion(c) \/ AddRequirementVersion(c)
          \/ BeginActionStatus(c) \/ UpdateActionStatus(c)

-----------------------------------------------------------------------------
(* Properties *)

ComplianceTypeOK ==
    /\ requirement \in Seq(ComplianceRequirement)
    /\ applicability \in Seq(RequirementApplicability)
    /\ inspection \in Seq(Inspection) /\ action \in Seq(ComplianceAction)
    /\ status_config \in StatusConfigs

\* The rows sharing a domain and a code are one chain of versions 1, 2, ..., of which
\* the last alone is current -- the lineage get_requirement and the importers look up
\* by code -- unless two requests on that code overlapped.
OneCurrentVersion ==
    \A d \in Domains, code \in Codes : LineageKey(d, code) \notin raced =>
       LET rows == Lineage(d, code) n == Cardinality(rows) IN
       /\ {requirement[r].version : r \in rows} = 1..n
       /\ \A r \in rows : (requirement[r].superseded_date = None) <=> (requirement[r].version = n)

\* No two inspections of a pair share the latest date, and no two applicabilities of it
\* are in force together: what .first() returns is then determined.
Determined(e, r) ==
    Cardinality(latest_inspection(e, r)) <= 1 /\ Cardinality(current_applicability(e, r)) <= 1

\* The board report counts every pair in force once, under the status its own page
\* shows, whether asked of one entity or of all, whenever .first() is determined.
ReportAgreesWithStatuses ==
    \A scope \in {Entities} \union {{e} : e \in Entities} :
       LET report == get_board_assurance_report(scope)
           Page(e) == list_compliance_statuses_for_entity(e)
           Shown(d, s) == {pair \in scope \X Requirements :
                              /\ requirement[pair[2]].domain = d
                              /\ pair[2] \in DOMAIN Page(pair[1])
                              /\ Page(pair[1])[pair[2]] = s}
       IN  (\A e \in scope, r \in Requirements : Determined(e, r)) =>
              \A d \in DOMAIN report, s \in ComplianceStatus \ {"NOT_APPLICABLE"} :
                 report[d][s] = Cardinality(Shown(d, s))

\* What the passing of time alone may turn a status into, while one applicability lasts.
Aged ==
    [UNKNOWN |-> {"MISSING_EVIDENCE"}, MISSING_EVIDENCE |-> {}, OPEN_ACTION |-> {"OVERDUE_ACTION"},
     OVERDUE_ACTION |-> {}, CURRENT |-> {"DUE_SOON", "OVERDUE", "EXPIRED"},
     NEEDS_REVIEW |-> {"DUE_SOON", "OVERDUE", "EXPIRED"},
     DUE_SOON |-> {"OVERDUE", "EXPIRED"}, OVERDUE |-> {}, EXPIRED |-> {}]

\* Time alone never makes a status better: overnight, with no row written, a status
\* stays or moves to a worse one.
TimeOnlyDegrades ==
    [][\A e \in Entities, r \in Requirements :
          LET now == compliance_status(e, r) IN
          /\ today' # today
          /\ current_applicability(e, r) # {}
          /\ current_applicability(e, r) = current_applicability(e, r)'
          /\ Determined(e, r)
          => compliance_status(e, r)' \in {now} \union Aged[now]]_<<requests>>
=============================================================================

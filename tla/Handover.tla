------------------------------ MODULE Handover ------------------------------
(***************************************************************************)
(* Handover of the properties of a development: the weighted readiness     *)
(* checks over the estate and its documents, the authorisation that hands  *)
(* properties over and records why it could, and property statuses.        *)
(*                                                                         *)
(* A weight is any number with 20 * Unit as its denominator, below zero    *)
(* included; scores are in tenths of a per cent, as the code rounds them.  *)
(***************************************************************************)
EXTENDS Estate, Revisions, SequencesExt

CONSTANTS
    Unit,                \* a weight of 1.0 is 20 units
    CheckWeights,        \* bound: what a PATCH sets, as <<code, weight>>
    StatusChanges        \* bound: statuses asked for when a property is moved

ASSUME HandoverAssumption ==
    /\ Unit \in Nat \ {0} /\ \A cw \in CheckWeights : cw[2] \in Int
    /\ StatusChanges \subseteq PropertyStatus

VARIABLES
    weight,              \* handover_readiness_check_weights
    handover_record,     \* handover_records
    trail                \* audit events that move a property's status

handovers == <<weight, handover_record, trail>>

DEFAULT_CHECK_WEIGHTS ==
    [PROPERTIES_CREATED |-> 2 * Unit, COMPONENTS_CAPTURED |-> 3 * Unit,
     REQUIRED_COMPONENT_FIELDS |-> 2 * Unit, WARRANTIES_RECEIVED |-> 3 * Unit,
     CERTIFICATES_RECEIVED |-> 3 * Unit, COMMISSIONING_EVIDENCE |-> 2 * Unit,
     OM_DOCUMENTATION |-> Unit, BUILDING_CONTROL_REFERENCE |-> 2 * Unit,
     OUTSTANDING_DEFECTS |-> Unit]
CheckCodes == DOMAIN DEFAULT_CHECK_WEIGHTS

OPEN_DEFECT_STATUSES == {"OPEN", "ASSIGNED", "IN_PROGRESS", "READY_FOR_INSPECTION"}

-----------------------------------------------------------------------------
(* The checks: what each applies to, and what of it fails *)

BuildingsOf(d) == {b \in Ids(building) : building[b].development_id = d}

properties_in_development(d) ==
    {p \in Ids(property) :
        LET at == property[p].position IN
        \/ at.development_id = d
        \/ at.building_id \in BuildingsOf(d)
        \/ at.floor_id # None /\ floor[at.floor_id].building_id \in BuildingsOf(d)}

_components_in_scope(d) ==
    {x \in Ids(component) :
        \/ component[x].at.development_id = d
        \/ component[x].at.building_id \in BuildingsOf(d)
        \/ component[x].at.property_id \in properties_in_development(d)}

\* Superseded documents count.
_document_types_by_entity(kind, ids, contains) ==
    {x \in ids : \E i \in DOMAIN document :
        document[i].related_entity = <<kind, x>> /\ document[i].document_type = contains}

Result(applicable, failing) ==
    [applicable_count |-> Cardinality(applicable), failing_count |-> Cardinality(failing)]

Whole(failing) == Result({"development"}, IF failing THEN {"development"} ELSE {})

check_properties_created(d) == Whole(properties_in_development(d) = {})

check_components_captured(d) ==
    LET ps == properties_in_development(d)
    IN  Result(ps, {p \in ps : \A x \in Ids(component) : component[x].at.property_id # p})

check_required_component_fields(d) ==
    LET xs == _components_in_scope(d)
    IN  Result(xs, {x \in xs :
            \/ component[x].payload.installation_date = None
            \/ component[x].payload.make = NotGiven
            \/ References("component", x, "MANUFACTURER_SERIAL_NUMBER") = {}})

\* Void warranties count.
check_warranties_received(d) ==
    LET xs == _components_in_scope(d)
    IN  Result(xs, {x \in xs : \A w \in Ids(warranty) : warranty[w].component_id # x})

check_documents(d, contains) ==
    LET xs == _components_in_scope(d)
    IN  Result(xs, xs \ _document_types_by_entity("component", xs, contains))

check_om_documentation(d) ==
    Whole(_document_types_by_entity("development", {d}, "O&M") = {})

check_building_control_reference(d) ==
    Result(BuildingsOf(d),
           {b \in BuildingsOf(d) : References("building", b, "BUILDING_CONTROL_REFERENCE") = {}})

\* A defect that hangs on a building or a component alone is not looked at.
check_outstanding_defects(d) ==
    Whole(\E i \in Ids(defect) :
             /\ \/ defect[i].at.development_id = d
                \/ defect[i].at.property_id \in properties_in_development(d)
             /\ defect[i].status \in OPEN_DEFECT_STATUSES)

Checks(d) ==
    [PROPERTIES_CREATED         |-> check_properties_created(d),
     COMPONENTS_CAPTURED        |-> check_components_captured(d),
     REQUIRED_COMPONENT_FIELDS  |-> check_required_component_fields(d),
     WARRANTIES_RECEIVED        |-> check_warranties_received(d),
     CERTIFICATES_RECEIVED      |-> check_documents(d, "CERTIFICATE"),
     COMMISSIONING_EVIDENCE     |-> check_documents(d, "COMMISSIONING"),
     OM_DOCUMENTATION           |-> check_om_documentation(d),
     BUILDING_CONTROL_REFERENCE |-> check_building_control_reference(d),
     OUTSTANDING_DEFECTS        |-> check_outstanding_defects(d)]

-----------------------------------------------------------------------------
(* The score *)

HANDOVER_READINESS_THRESHOLD_PCT == 1000

\* What a row of a check is a part of.
Size(result) == IF result.applicable_count = 0 THEN 1 ELSE result.applicable_count

\* A number of parts that each check divides: the sizes are those of the properties, of
\* the components and of the buildings, or 1.
Parts(checks) ==
    Size(checks.COMPONENTS_CAPTURED) * Size(checks.WARRANTIES_RECEIVED)
        * Size(checks.BUILDING_CONTROL_REFERENCE)

\* The passing parts of a check: all of them where it applies to nothing.
pass_ratio(result, parts) ==
    IF result.applicable_count = 0 THEN parts
    ELSE (result.applicable_count - result.failing_count) * (parts \div result.applicable_count)

\* The integer next to a quotient, ties upwards.
Rounded(numerator, denominator) ==
    IF denominator > 0 THEN (2 * numerator + denominator) \div (2 * denominator)
    ELSE (-2 * numerator - denominator) \div (-2 * denominator)

TotalWeight == SumFunctionOnSet(weight, CheckCodes)

\* A total of nothing counts as 1.0.
OrOne(total) == IF total = 0 THEN 20 * Unit ELSE total

Earned(checks) ==
    SumFunctionOnSet([k \in CheckCodes |-> weight[k] * pass_ratio(checks[k], Parts(checks))],
                     CheckCodes)

\* Mutant: a check that nothing passes leaves the total as well.
score_of_passing(d, checks) ==
    LET passing == {k \in CheckCodes : pass_ratio(checks[k], Parts(checks)) # 0}
        total   == SumFunctionOnSet(weight, passing)
    IN  IF properties_in_development(d) = {} THEN 0
        ELSE Rounded(1000 * Earned(checks), OrOne(total) * Parts(checks))

compute_handover_readiness(d, checks) ==
    IF properties_in_development(d) = {} THEN 0
    ELSE Rounded(1000 * Earned(checks), OrOne(TotalWeight) * Parts(checks))

UpdateHandoverReadinessWeight ==
    /\ Once
    /\ \E cw \in CheckWeights : weight' = [weight EXCEPT ![cw[1]] = cw[2]]
    /\ UNCHANGED <<estate, revisions, handover_record, trail>>

-----------------------------------------------------------------------------
(* Handover and property statuses *)

\* What a record keeps of the checks it was authorised on (the ratio of their counts,
\* to three decimals).
Snapshot(checks) == [weight |-> weight, checks |-> checks]

Moved(p, from, to) == [property_id |-> p, before |-> from, after |-> to]

ReadyToHandOver(d) == {p \in properties_in_development(d) : property[p].status = "READY_FOR_HANDOVER"}

\* The score, the snapshot and the properties are read before anything is written.
BeginAuthorise(c) ==
    /\ \E d \in Developments, override \in BOOLEAN :
          LET checks == Checks(d)
              score  == compute_handover_readiness(d, checks)
          IN  /\ score < HANDOVER_READINESS_THRESHOLD_PCT => override
              /\ Hold(c, [pc |-> "authorise",
                          keys |-> {<<"property", p>> : p \in ReadyToHandOver(d)},
                          properties |-> ReadyToHandOver(d),
                          record |-> [development_id |-> d, override_reason |-> override,
                                      readiness_score_pct |-> score,
                                      readiness_snapshot |-> Snapshot(checks)]])
    /\ UNCHANGED <<estate, revisions, handovers>>

authorise_handover(ps, record) ==
    LET order == SetToSeq(ps) IN
    /\ property' = [p \in Ids(property) |->
          IF p \in ps THEN [property[p] EXCEPT !.status = "HANDED_OVER"] ELSE property[p]]
    /\ handover_record' = handover_record \o
          [n \in DOMAIN order |-> [property_id |-> order[n], grounds |-> record]]
    /\ trail' = trail \o
          [n \in DOMAIN order |-> Moved(order[n], "READY_FOR_HANDOVER", "HANDED_OVER")]

AuthoriseHandover(c) ==
    /\ At(c, "authorise")
    /\ authorise_handover(req[c].properties, req[c].record)
    /\ End(c)
    /\ UNCHANGED <<development, building, floor, space, component, warranty, defect,
                   control_record, survey, reference, revisions, weight>>

\* Mutant: a status request may hand a property over.
AnyTarget(to) == TRUE

DirectTarget(to) == to # "HANDED_OVER"

BeginPropertyStatus(c) ==
    /\ \E p \in Ids(property), to \in StatusChanges :
          /\ DirectTarget(to)
          /\ Hold(c, [pc |-> "status", keys |-> {<<"property", p>>}, id |-> p, to |-> to,
                      before |-> property[p].status])
    /\ UNCHANGED <<estate, revisions, handovers>>

\* A status that was loaded is not written again, but the event is.
UpdatePropertyStatus(c) ==
    /\ At(c, "status")
    /\ LET p == req[c].id IN
          /\ property' = IF req[c].to = req[c].before THEN property
                         ELSE [property EXCEPT ![p].status = req[c].to]
          /\ trail' = Append(trail, Moved(p, req[c].before, req[c].to))
    /\ End(c)
    /\ UNCHANGED <<development, building, floor, space, component, warranty, defect,
                   control_record, survey, reference, revisions, weight, handover_record>>

-----------------------------------------------------------------------------
HandoverInit == weight = DEFAULT_CHECK_WEIGHTS /\ handover_record = <<>> /\ trail = <<>>

HandoverNext ==
    \/ UpdateHandoverReadinessWeight
    \/ \E c \in Clerks :
          \/ BeginAuthorise(c)      \/ AuthoriseHandover(c)
          \/ BeginPropertyStatus(c) \/ UpdatePropertyStatus(c)

NoneNegative(weights) == \A k \in CheckCodes : weights[k] >= 0

HandoverTypeOK ==
    /\ weight \in [CheckCodes -> Int]
    /\ \A n \in DOMAIN handover_record :
          LET grounds == handover_record[n].grounds IN
          /\ handover_record[n].property_id \in Ids(property)
          /\ grounds.readiness_score_pct \in Int
          /\ NoneNegative(grounds.readiness_snapshot.weight)
                => grounds.readiness_score_pct \in 0..HANDOVER_READINESS_THRESHOLD_PCT
    /\ \A n \in DOMAIN trail : {trail[n].before, trail[n].after} \subseteq PropertyStatus

-----------------------------------------------------------------------------
\* The hierarchy view of a development counts each of its properties once, at one level,
\* and counts no other: but for those placed in a building of no development, which
\* readiness and handover still take in.
ViewCountsEveryProperty ==
    \A d \in Developments :
       LET view     == get_development_hierarchy(d)
           stray(p) == LET b == property[p].position.building_id
                       IN  b # None /\ building[b].development_id = None
       IN  view.floors + view.unfloored + view.unbuilt =
              Cardinality({p \in properties_in_development(d) : ~stray(p)})

\* A property stands HANDED_OVER only with a handover record, which is what the data
\* health check for missing handover information looks for, unless it was created so.
\* Each hand-over in the property's trail of events has one record, and the trail leads
\* from the status it was created with to the one it has, unless two requests that
\* move the property overlapped.
HandoverIsEvidenced ==
    \A p \in Ids(property) :
       LET events     == {n \in DOMAIN trail : trail[n].property_id = p}
           records    == {n \in DOMAIN handover_record : handover_record[n].property_id = p}
           handed     == {n \in events : trail[n].after = "HANDED_OVER"}
           \* What event n left, and creation as the event before the first.
           Left(n)        == IF n = 0 THEN property[p].created_as ELSE trail[n].after
           Precedes(m, n) == m < n /\ \A k \in events : k <= m \/ n <= k
       IN  /\ property[p].status = "HANDED_OVER" =>
                 records # {} \/ property[p].created_as = "HANDED_OVER"
           /\ Cardinality(handed) = Cardinality(records)
           /\ \/ <<"property", p>> \in raced
              \/ \A m \in events \union {0} :
                    /\ \A n \in events : Precedes(m, n) => trail[n].before = Left(m)
                    /\ (\A n \in events : n <= m) => property[p].status = Left(m)

\* "v1 requires full readiness (or an explicit permitted override)" (service.py:1505):
\* the checks a record without an override was authorised on lost nothing of their total
\* weight, but for what is too little to show in a score of one decimal. Nothing refuses
\* a weight below zero: what fails of such a check makes up for what fails of another
\* one, and where the total is not above zero nothing can be said.
FullReadinessOrOverride ==
    \A n \in DOMAIN handover_record :
       LET grounds  == handover_record[n].grounds
           snapshot == grounds.readiness_snapshot
           parts    == Parts(snapshot.checks)
           lost     == [k \in CheckCodes |->
                           snapshot.weight[k] * (snapshot.checks[k].failing_count
                                                  * (parts \div Size(snapshot.checks[k])))]
           missing  == SumFunctionOnSet(lost, CheckCodes)
           total    == SumFunctionOnSet(snapshot.weight, CheckCodes)
       IN  \/ grounds.override_reason
           \/ total > 0 /\ 2000 * missing <= total * parts
           \/ total <= 0 /\ ~NoneNegative(snapshot.weight)
=============================================================================

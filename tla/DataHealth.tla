----------------------------- MODULE DataHealth -----------------------------
(***************************************************************************)
(* Data health: the rules over the estate and its documents, and the       *)
(* findings that every read of the score computes afresh and stores in     *)
(* place of the last ones.                                                 *)
(*                                                                         *)
(* Three rules that test one column of one row are left out: the storeys   *)
(* of a building, and the evidence of an inspection and of an action.      *)
(***************************************************************************)
EXTENDS Handover

CONSTANT TYPES_EXPECTING_WARRANTY   \* of the component types

VARIABLE finding    \* data_health_findings: each with the run that stored it

\* A rule: what it applies to, and what of it fails.
CheckResult(kind, applicable, Fails(_)) ==
    [kind |-> kind, applicable |-> applicable, failing |-> {x \in applicable : Fails(x)}]

OfProperty(Fails(_))  == CheckResult("property", Ids(property), Fails)
OfComponent(Fails(_)) == CheckResult("component", Ids(component), Fails)

check_missing_property_type == OfProperty(LAMBDA p : property[p].payload.property_type = NotGiven)
check_missing_uprn          == OfProperty(LAMBDA p : References("property", p, "UPRN") = {})
check_missing_postcode      == OfProperty(LAMBDA p : property[p].payload.postcode = NotGiven)

check_duplicate_properties ==
    OfProperty(LAMBDA p : \E q \in Ids(property) \ {p} :
                             property[q].payload.address = property[p].payload.address)

Surveys(p) == {i \in Ids(survey) : survey[i].property_id = p}
\* Of surveys on the same date either may be taken; here the first recorded is.
LatestSurveys(p) ==
    {i \in Surveys(p) : \A j \in Surveys(p) : survey[j].survey_date <= survey[i].survey_date}

check_missing_stock_condition_survey == OfProperty(LAMBDA p : Surveys(p) = {})

check_stale_stock_condition_survey ==
    CheckResult("property", {p \in Ids(property) : Surveys(p) # {}},
       LAMBDA p : LET due == survey[Min(LatestSurveys(p))].next_survey_due
                  IN  due # None /\ due < today)

check_orphan_components ==
    OfComponent(LAMBDA x : /\ component[x].at = Unattached
                           /\ component[x].space_id = None
                           /\ component[x].parent_component_id = None)

check_duplicate_components ==
    LET key(x) == <<component[x].at, component[x].space_id,
                    component[x].payload.component_type, component[x].payload.make>>
    IN  OfComponent(LAMBDA x : \E y \in Ids(component) \ {x} : key(y) = key(x))

check_missing_handover_information ==
    CheckResult("property", {p \in Ids(property) : property[p].status = "HANDED_OVER"},
       LAMBDA p : \A n \in DOMAIN handover_record : handover_record[n].property_id # p)

check_missing_serial_number ==
    OfComponent(LAMBDA x : References("component", x, "MANUFACTURER_SERIAL_NUMBER") = {})

check_missing_installation_date ==
    OfComponent(LAMBDA x : component[x].payload.installation_date = None)

check_invalid_installation_date ==
    CheckResult("component",
       {x \in Ids(component) : component[x].payload.installation_date # None},
       LAMBDA x : component[x].payload.installation_date > today)

check_conflicting_external_references ==
    CheckResult("reference", {<<r.entity, r.reference_type>> : r \in reference},
       LAMBDA k : Cardinality(References(k[1][1], k[1][2], k[2])) > 1)

check_duplicate_documents ==
    CheckResult("document", {i \in DOMAIN document : document[i].status = "ACTIVE"},
       LAMBDA i : \E j \in DOMAIN document :
          /\ document[j].status = "ACTIVE" /\ document[j].checksum = document[i].checksum
          /\ document[j].lineage_id # document[i].lineage_id)

check_missing_warranty_for_expected_component_type ==
    CheckResult("component",
       {x \in Ids(component) : component[x].payload.component_type \in TYPES_EXPECTING_WARRANTY},
       LAMBDA x : \A w \in Ids(warranty) :
          warranty[w].component_id = x => warranty[w].status # "ACTIVE")

RULES ==
    [MISSING_PROPERTY_TYPE          |-> check_missing_property_type,
     MISSING_UPRN                   |-> check_missing_uprn,
     MISSING_POSTCODE               |-> check_missing_postcode,
     DUPLICATE_PROPERTIES           |-> check_duplicate_properties,
     MISSING_STOCK_CONDITION_SURVEY |-> check_missing_stock_condition_survey,
     STALE_STOCK_CONDITION_SURVEY   |-> check_stale_stock_condition_survey,
     ORPHAN_COMPONENT               |-> check_orphan_components,
     DUPLICATE_COMPONENT            |-> check_duplicate_components,
     MISSING_HANDOVER_INFORMATION   |-> check_missing_handover_information,
     MISSING_SERIAL_NUMBER          |-> check_missing_serial_number,
     MISSING_INSTALLATION_DATE      |-> check_missing_installation_date,
     INVALID_INSTALLATION_DATE      |-> check_invalid_installation_date,
     CONFLICTING_EXTERNAL_REFERENCE |-> check_conflicting_external_references,
     DUPLICATE_DOCUMENT             |-> check_duplicate_documents,
     MISSING_WARRANTY               |-> check_missing_warranty_for_expected_component_type]

Findings ==
    LET results == RULES IN
    UNION {{<<code, results[code].kind, x>> : x \in results[code].failing} : code \in DOMAIN results}

-----------------------------------------------------------------------------
(* A read of the score: GET /data-health, the portfolio summary, a property's 360 view *)

\* The rules run one after another over what is committed.
BeginDataHealth(c) ==
    /\ Hold(c, [pc |-> "health", keys |-> {<<"findings">>}, run |-> begun + 1,
                findings |-> Findings, replaced |-> {}])
    /\ UNCHANGED <<estate, revisions, handovers, finding>>

\* Mutant: the findings of the run before are not deleted.
replaced_of(c, rows) == {r \in rows : r.run > req[c].run}

\* What the DELETE sees: the rows committed when it starts.
replaced_by(c, rows) == rows

ReplaceFindings(c) ==
    /\ At(c, "health")
    /\ req' = [req EXCEPT ![c].pc = "stored", ![c].replaced = replaced_by(c, finding)]
    /\ UNCHANGED <<begun, raced, today, estate, revisions, handovers, finding>>

run_data_health_checks(c) ==
    (finding \ req[c].replaced)
       \union {[run |-> req[c].run, finding |-> f] : f \in req[c].findings}

CommitDataHealth(c) ==
    /\ At(c, "stored")
    /\ finding' = run_data_health_checks(c)
    /\ End(c)
    /\ UNCHANGED <<estate, revisions, handovers>>

DataHealthInit == finding = {}

DataHealthNext ==
    \E c \in Clerks : BeginDataHealth(c) \/ ReplaceFindings(c) \/ CommitDataHealth(c)

-----------------------------------------------------------------------------
\* The stored findings are those of one run, so that no finding is stored twice and none
\* of an earlier run is left, unless two runs overlapped; what is stored of a handed-over
\* property is true for good: only one created so has no handover information.
FindingsOfOneRun ==
    /\ <<"findings">> \in raced \/ Cardinality({r.run : r \in finding}) <= 1
    /\ \A r \in finding :
          r.finding[1] = "MISSING_HANDOVER_INFORMATION" =>
             property[r.finding[3]].created_as = "HANDED_OVER"
=============================================================================

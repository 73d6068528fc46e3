------------------------------- MODULE Estate -------------------------------
(***************************************************************************)
(* The property hierarchy of one organisation and the registers hung on    *)
(* it: components, warranties, defects, building control records, surveys  *)
(* and external references.                                                *)
(*                                                                         *)
(* Rows are sequences in commit order, a row's id is its position and a    *)
(* null foreign key is None.  Names, addresses and costs are left out but  *)
(* for what the data health rules look at.                                 *)
(***************************************************************************)
EXTENDS Requests

CONSTANTS
    PropertyPayloads,    \* [address, property_type, postcode], some NotGiven
    ComponentPayloads,   \* [component_type, make, installation_date]
    ReferenceTypes, ReferenceValues,
    StatusesAsked,       \* bound: property statuses that a creation names
    Points               \* bound: where requests attach new rows

ASSUME EstateAssumption == StatusesAsked \subseteq
    {"PLANNED", "UNDER_CONSTRUCTION", "READY_FOR_HANDOVER", "HANDED_OVER", "OPERATIONAL",
     "VOID", "OCCUPIED", "DISPOSED"}

VARIABLES
    development,         \* developments: how many there are
    building, floor, property, space, component,
    warranty, defect,
    control_record,      \* building_control_records
    survey,              \* stock_condition_surveys
    reference            \* external_references, as the set of their distinct rows

estate == <<development, building, floor, property, space, component,
            warranty, defect, control_record, survey, reference>>

NotGiven == ""   \* a text that is null

Ids(table)  == DOMAIN table
Null(table) == Ids(table) \union {None}
Developments == 1..development
\* The four points a component, warranty or defect may be attached to.
AttachmentIds == [development_id : 0..development, building_id : Null(building),
                  property_id : Null(property)]
Attachments   == AttachmentIds \intersect Points
Unattached    == [development_id |-> None, building_id |-> None, property_id |-> None]

PropertyStatus ==
    {"PLANNED", "UNDER_CONSTRUCTION", "READY_FOR_HANDOVER", "HANDED_OVER", "OPERATIONAL",
     "VOID", "OCCUPIED", "DISPOSED"}
DefectStatus ==
    {"OPEN", "ASSIGNED", "IN_PROGRESS", "READY_FOR_INSPECTION", "COMPLETED", "CLOSED", "REJECTED"}
WarrantyStatus == {"ACTIVE", "VOID"}
BuildingControlStatus == {"SUBMITTED", "APPROVED", "CONDITIONAL", "COMPLETED", "REJECTED"}

-----------------------------------------------------------------------------
(* External references: a row may be recorded for anything, at any time *)

References(kind, id, type) ==
    {r \in reference : r.entity = <<kind, id>> /\ r.reference_type = type}

record_external_reference(kind, id, type, value) ==
    [entity |-> <<kind, id>>, reference_type |-> type, value |-> value]

\* What a creation records of the reference types it may be given.
_record_optional_external_references(kind, id, given) ==
    reference' = reference \union
        {record_external_reference(kind, id, g[1], g[2]) : g \in given}

Given(type) ==
    {{}} \union IF type \in ReferenceTypes THEN {{<<type, v>>} : v \in ReferenceValues} ELSE {}

AddExternalReference ==
    /\ Once
    /\ \E e \in {<<"building", b>> : b \in Ids(building)}
                \union {<<"component", x>> : x \in Ids(component)},
          t \in ReferenceTypes, v \in ReferenceValues :
          reference' = reference \union {record_external_reference(e[1], e[2], t, v)}
    /\ UNCHANGED <<development, building, floor, property, space, component,
                   warranty, defect, control_record, survey>>

-----------------------------------------------------------------------------
(* Developments, buildings, floors, properties and spaces *)

create_development == development + 1

AddDevelopment ==
    /\ Once
    /\ development' = create_development
    /\ UNCHANGED <<building, floor, property, space, component,
                   warranty, defect, control_record, survey, reference>>

create_building(d) == [development_id |-> d]

\* A building row of a file that names no development, or one not found, links to none.
AddBuilding ==
    /\ Once
    /\ \E d \in 0..development, given \in Given("BUILDING_CONTROL_REFERENCE") :
          /\ building' = Append(building, create_building(d))
          /\ _record_optional_external_references("building", Len(building) + 1, given)
    /\ UNCHANGED <<development, floor, property, space, component,
                   warranty, defect, control_record, survey>>

create_floor(b) == [building_id |-> b]

AddFloor ==
    /\ Once
    /\ \E b \in Ids(building) : floor' = Append(floor, create_floor(b))
    /\ UNCHANGED <<development, building, property, space, component,
                   warranty, defect, control_record, survey, reference>>

\* Mutant: a floor does not bring its building with it.
resolve_given_hierarchy(d, b, f) == [development_id |-> d, building_id |-> b, floor_id |-> f]

\* The floor decides the building, and the building the development it has.
resolve_property_hierarchy(d, b, f) ==
    LET b1 == IF f # None THEN floor[f].building_id ELSE b
        d1 == IF b1 # None /\ building[b1].development_id # None
              THEN building[b1].development_id ELSE d
    IN  [development_id |-> d1, building_id |-> b1, floor_id |-> f]

\* What is given is not contradicted by what it resolves to.
HierarchyMatches(d, b, f) ==
    LET r == resolve_property_hierarchy(d, b, f)
    IN  b \in {None, r.building_id} /\ d \in {None, r.development_id}

create_property(position, status, payload) ==
    [position |-> position, status |-> status, created_as |-> status, payload |-> payload]

AddProperty ==
    /\ Once
    /\ \E d \in 0..development, b \in Null(building), f \in Null(floor),
          status \in StatusesAsked, payload \in PropertyPayloads, given \in Given("UPRN") :
          /\ HierarchyMatches(d, b, f)
          /\ property' = Append(property,
                 create_property(resolve_property_hierarchy(d, b, f), status, payload))
          /\ _record_optional_external_references("property", Len(property) + 1, given)
    /\ UNCHANGED <<development, building, floor, space, component,
                   warranty, defect, control_record, survey>>

\* A property row of a file is linked to nothing.
import_property_row ==
    /\ Once
    /\ \E payload \in PropertyPayloads, given \in Given("UPRN") :
          /\ property' = Append(property,
                create_property(resolve_property_hierarchy(None, None, None), "OPERATIONAL", payload))
          /\ _record_optional_external_references("property", Len(property) + 1, given)
    /\ UNCHANGED <<development, building, floor, space, component,
                   warranty, defect, control_record, survey>>

create_space(p) == [property_id |-> p]

AddSpace ==
    /\ Once
    /\ \E p \in Ids(property) : space' = Append(space, create_space(p))
    /\ UNCHANGED <<development, building, floor, property, component,
                   warranty, defect, control_record, survey, reference>>

\* The three levels at which the hierarchy view counts the properties of d.
get_development_hierarchy(d) ==
    LET mine == {b \in Ids(building) : building[b].development_id = d}
        Within(b, f) == {p \in Ids(property) : property[p].position.building_id = b
                                               /\ property[p].position.floor_id = f}
        OnFloor(f) == {p \in Ids(property) : property[p].position.floor_id = f}
        floors == {f \in Ids(floor) : floor[f].building_id \in mine}
    IN  [floors    |-> SumFunctionOnSet([f \in floors |-> Cardinality(OnFloor(f))], floors),
         unfloored |-> SumFunctionOnSet([b \in mine |-> Cardinality(Within(b, None))], mine),
         unbuilt   |-> Cardinality({p \in Ids(property) :
                             /\ property[p].position.development_id = d
                             /\ property[p].position.building_id = None})]

-----------------------------------------------------------------------------
(* Components, warranties, defects, building control, surveys *)

create_component(at, s, parent, payload) ==
    [at |-> at, space_id |-> s, parent_component_id |-> parent, payload |-> payload]

AddComponent ==
    /\ Once
    /\ \E at \in Attachments, s \in Null(space), parent \in Null(component),
          payload \in ComponentPayloads, given \in Given("MANUFACTURER_SERIAL_NUMBER") :
          /\ component' = Append(component, create_component(at, s, parent, payload))
          /\ _record_optional_external_references("component", Len(component) + 1, given)
    /\ UNCHANGED <<development, building, floor, property, space,
                   warranty, defect, control_record, survey>>

\* A component row of a file is attached to nothing.
import_component_row ==
    /\ Once
    /\ \E payload \in ComponentPayloads, given \in Given("MANUFACTURER_SERIAL_NUMBER") :
          /\ component' = Append(component, create_component(Unattached, None, None, payload))
          /\ _record_optional_external_references("component", Len(component) + 1, given)
    /\ UNCHANGED <<development, building, floor, property, space,
                   warranty, defect, control_record, survey>>

create_warranty(at, x) == [at |-> at, component_id |-> x, status |-> "ACTIVE"]

AddWarranty ==
    /\ Once
    /\ \E at \in Attachments, x \in Null(component) :
          warranty' = Append(warranty, create_warranty(at, x))
    /\ UNCHANGED <<development, building, floor, property, space, component,
                   defect, control_record, survey, reference>>

void_warranty(w) == [warranty EXCEPT ![w].status = "VOID"]

VoidWarranty ==
    /\ Once
    /\ \E w \in Ids(warranty) : warranty' = void_warranty(w)
    /\ UNCHANGED <<development, building, floor, property, space, component,
                   defect, control_record, survey, reference>>

DEFECT_TRANSITIONS ==
    [OPEN                 |-> {"ASSIGNED", "REJECTED"},
     ASSIGNED             |-> {"IN_PROGRESS", "REJECTED"},
     IN_PROGRESS          |-> {"READY_FOR_INSPECTION", "REJECTED"},
     READY_FOR_INSPECTION |-> {"COMPLETED", "IN_PROGRESS"},
     COMPLETED            |-> {"CLOSED"},
     REJECTED             |-> {"CLOSED"},
     CLOSED               |-> {}]

create_defect(at, x) ==
    [at |-> at, component_id |-> x, status |-> "OPEN", completion_date |-> None]

AddDefect ==
    /\ Once
    /\ \E at \in Attachments, x \in Null(component) :
          defect' = Append(defect, create_defect(at, x))
    /\ UNCHANGED <<development, building, floor, property, space, component,
                   warranty, control_record, survey, reference>>

BeginDefectStatus(c) ==
    /\ \E i \in Ids(defect) : \E to \in DEFECT_TRANSITIONS[defect[i].status] :
          Hold(c, [pc |-> "defect", keys |-> {<<"defect", i>>}, id |-> i, to |-> to])
    /\ UNCHANGED estate

update_defect_status(i, to) ==
    [defect EXCEPT ![i].status = to,
                   ![i].completion_date = IF to = "COMPLETED" THEN today ELSE @]

UpdateDefectStatus(c) ==
    /\ At(c, "defect")
    /\ defect' = update_defect_status(req[c].id, req[c].to)
    /\ End(c)
    /\ UNCHANGED <<development, building, floor, property, space, component,
                   warranty, control_record, survey, reference>>

create_building_control_record(d, b) ==
    [development_id |-> d, building_id |-> b, status |-> "SUBMITTED"]

\* The references of an application are recorded for the record, not for its building.
AddBuildingControlRecord ==
    /\ Once
    /\ \E d \in 0..development, b \in Null(building),
          given \in Given("BUILDING_CONTROL_REFERENCE") :
          /\ control_record' = Append(control_record, create_building_control_record(d, b))
          /\ _record_optional_external_references("building_control_record",
                                                  Len(control_record) + 1, given)
    /\ UNCHANGED <<development, building, floor, property, space, component,
                   warranty, defect, survey>>

update_building_control_record(i, to) == [control_record EXCEPT ![i].status = to]

UpdateBuildingControlRecord ==
    /\ Once
    /\ \E i \in Ids(control_record), to \in BuildingControlStatus :
          control_record' = update_building_control_record(i, to)
    /\ UNCHANGED <<development, building, floor, property, space, component,
                   warranty, defect, survey, reference>>

create_survey(p, date, due) ==
    [property_id |-> p, survey_date |-> date, next_survey_due |-> due]

AddSurvey ==
    /\ Once
    /\ \E p \in Ids(property), date \in Days, due \in Days \union {None} :
          survey' = Append(survey, create_survey(p, date, due))
    /\ UNCHANGED <<development, building, floor, property, space, component,
                   warranty, defect, control_record, reference>>

-----------------------------------------------------------------------------
\* A behaviour starts from an estate e that earlier requests have built.
Built(e) ==
    LET points == [development_id : 0..e.development, building_id : Null(e.building),
                   property_id : Null(e.property)]
        positions == [development_id : 0..e.development, building_id : Null(e.building),
                      floor_id : {None}]
    IN  /\ e.development \in Nat
        /\ e.building \in Seq([development_id : 0..e.development])
        /\ e.property \in Seq([position : positions, status : PropertyStatus,
                               created_as : PropertyStatus, payload : PropertyPayloads])
        /\ \A p \in Ids(e.property) :
              LET b == e.property[p].position.building_id
              IN  /\ e.property[p].status = e.property[p].created_as
                  /\ b # None => e.building[b].development_id
                                   \in {None, e.property[p].position.development_id}
        /\ e.component \in Seq([at : points, space_id : {None},
                                parent_component_id : Null(e.component),
                                payload : ComponentPayloads])
        /\ e.warranty \in Seq([at : points, component_id : Null(e.component),
                               status : WarrantyStatus])
        /\ e.defect \in Seq([at : points, component_id : Null(e.component),
                             status : DefectStatus, completion_date : Days \union {None}])
        /\ \A r \in e.reference : r.reference_type \in ReferenceTypes /\ r.value \in ReferenceValues

EstateInit(e) ==
    /\ development = e.development /\ building = e.building /\ floor = <<>>
    /\ property = e.property /\ space = <<>> /\ component = e.component
    /\ warranty = e.warranty /\ defect = e.defect /\ control_record = <<>> /\ survey = <<>>
    /\ reference = e.reference

HierarchyNext ==
    AddDevelopment \/ AddBuilding \/ AddFloor \/ AddProperty \/ import_property_row \/ AddSpace

DefectStatusNext == \E c \in Clerks : BeginDefectStatus(c) \/ UpdateDefectStatus(c)

RegisterNext ==
    \/ AddExternalReference
    \/ AddComponent \/ import_component_row
    \/ AddWarranty \/ VoidWarranty
    \/ AddDefect \/ DefectStatusNext
    \/ AddBuildingControlRecord \/ UpdateBuildingControlRecord
    \/ AddSurvey

Building == [development_id : 0..development]
Floor    == [building_id : Ids(building)]
Property ==
    [position : [development_id : 0..development, building_id : Null(building),
                 floor_id : Null(floor)],
     status : PropertyStatus, created_as : PropertyStatus, payload : PropertyPayloads]
Space == [property_id : Ids(property)]
Component ==
    [at : AttachmentIds, space_id : Null(space), parent_component_id : Null(component),
     payload : ComponentPayloads]
Warranty == [at : AttachmentIds, component_id : Null(component), status : WarrantyStatus]
Defect ==
    [at : AttachmentIds, component_id : Null(component), status : DefectStatus,
     completion_date : Days \union {None}]
BuildingControlRecord ==
    [development_id : 0..development, building_id : Null(building), status : BuildingControlStatus]
StockConditionSurvey ==
    [property_id : Ids(property), survey_date : Days, next_survey_due : Days \union {None}]

EstateTypeOK ==
    /\ development \in Nat
    /\ building \in Seq(Building) /\ floor \in Seq(Floor) /\ property \in Seq(Property)
    /\ space \in Seq(Space) /\ component \in Seq(Component)
    /\ warranty \in Seq(Warranty) /\ defect \in Seq(Defect)
    /\ control_record \in Seq(BuildingControlRecord) /\ survey \in Seq(StockConditionSurvey)
    /\ \A r \in reference : r.reference_type \in ReferenceTypes /\ r.value \in ReferenceValues
=============================================================================

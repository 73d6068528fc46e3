--------------------------- MODULE OperationsProofs ---------------------------
(***************************************************************************)
(* Theorems about module Operations, for every number of clerks, days and  *)
(* requests, every register, every rule and every configuration.           *)
(*                                                                         *)
(* A status request and a version request check the row they loaded and    *)
(* write it without a lock.  As long as no two requests held the same row  *)
(* (KeyInv: two that do are both in `raced`), what one checked when it     *)
(* began still stands when it commits: the transition it found legal       *)
(* (DateInv), the lineage it found free, the version it found current      *)
(* (VersionInv).  What is computed on every read needs only the types      *)
(* (TypeInv).                                                              *)
(***************************************************************************)
EXTENDS Operations, TableLemmas

-----------------------------------------------------------------------------
(* Requests *)

ReqShape == RequestsOK /\ req = [c \in Clerks |-> req[c]]

\* Two requests that hold a row in common were both seen to.
KeyInv ==
    \A c, d \in Clerks : c # d /\ ~At(c, "idle") /\ ~At(d, "idle")
                         => req[c].keys \intersect req[d].keys \subseteq raced

\* What begins a request leaves the others alone, and records the rows held twice.
LEMMA HoldEffect ==
  ASSUME ReqShape, NEW c \in Clerks, NEW r, Hold(c, r)
  PROVE  /\ req'[c] = r /\ \A d \in Clerks : d # c => req'[d] = req[d]
         /\ At(c, "idle") /\ raced \subseteq raced' /\ r.keys \intersect Held \subseteq raced'
         /\ today' = today /\ ReqShape'
<1>1. DOMAIN req = Clerks /\ begun \in 0..MaxBegun /\ MaxBegun \in Nat /\ today \in Days
  BY BoundsAssumption DEF ReqShape, RequestsOK
<1>2. /\ req' = [req EXCEPT ![c] = r] /\ begun < MaxBegun /\ begun' = begun + 1
      /\ At(c, "idle") /\ raced' = raced \union (r.keys \intersect Held) /\ today' = today
  BY DEF Hold, CanBegin
<1>3. req'[c] = r /\ (\A d \in Clerks : d # c => req'[d] = req[d]) /\ DOMAIN req' = Clerks
      /\ req' = [d \in Clerks |-> req'[d]]
  BY <1>1, <1>2
<1>4. begun' \in 0..MaxBegun /\ Days' = Days
  BY <1>1, <1>2 DEF Days
<1>. QED
  BY <1>1, <1>2, <1>3, <1>4 DEF ReqShape, RequestsOK

\* What ends a request leaves the others alone.
LEMMA EndEffect ==
  ASSUME ReqShape, NEW c \in Clerks, End(c)
  PROVE  /\ req'[c] = Idle /\ \A d \in Clerks : d # c => req'[d] = req[d]
         /\ raced' = raced /\ today' = today /\ ReqShape'
<1>1. DOMAIN req = Clerks /\ begun \in 0..MaxBegun /\ today \in Days /\ Days' = Days
  BY DEF ReqShape, RequestsOK, Days
<1>2. req' = [req EXCEPT ![c] = Idle] /\ begun' = begun /\ raced' = raced /\ today' = today
  BY DEF End
<1>3. req'[c] = Idle /\ (\A d \in Clerks : d # c => req'[d] = req[d]) /\ DOMAIN req' = Clerks
      /\ req' = [d \in Clerks |-> req'[d]]
  BY <1>1, <1>2
<1>. QED
  BY <1>1, <1>2, <1>3 DEF ReqShape, RequestsOK

\* A request of one step, the night and a stuttering step touch no request in flight.
LEMMA QuietEffect ==
  ASSUME ReqShape, Once \/ NextDay \/ UNCHANGED requests
  PROVE  /\ req' = req /\ raced' = raced /\ ReqShape'
         /\ today' \in {today, today + 1}
<1>1. begun \in 0..MaxBegun /\ today \in Days /\ MaxBegun \in Nat /\ MaxDay \in Nat
  BY BoundsAssumption DEF ReqShape, RequestsOK
<1>2. req' = req /\ raced' = raced /\ begun' \in 0..MaxBegun /\ today' \in {today, today + 1}
  BY <1>1 DEF Once, NextDay, requests
<1>3. today' \in Days'
  BY <1>1 DEF Once, NextDay, requests, Days
<1>. QED
  BY <1>2, <1>3 DEF ReqShape, RequestsOK

\* A step begins one request, ends one, or leaves the requests in flight as they are.
Begins == \E c \in Clerks : \E r : Hold(c, r)
Ends   == \E c \in Clerks : End(c)
Quiet  == Once \/ NextDay \/ UNCHANGED requests

LEMMA ComplianceMoves == ComplianceNext => Begins \/ Ends \/ Quiet
<1>. SUFFICES ASSUME ComplianceNext PROVE Begins \/ Ends \/ Quiet
  OBVIOUS
<1>1. CASE \/ AddApplicability \/ EndApplicability \/ AddInspection
           \/ import_compliance_inspection_row \/ AddAction \/ UpdateStatusConfig
  BY <1>1 DEF AddApplicability, EndApplicability, AddInspection, Quiet,
              import_compliance_inspection_row, AddAction, UpdateStatusConfig
<1>2. ASSUME NEW c \in Clerks, BeginRequirement(c) PROVE Begins
  BY <1>2 DEF BeginRequirement, Begins
<1>3. ASSUME NEW c \in Clerks, BeginVersion(c) PROVE Begins
  BY <1>3 DEF BeginVersion, Begins
<1>4. ASSUME NEW c \in Clerks, BeginActionStatus(c) PROVE Begins
  BY <1>4 DEF BeginActionStatus, Begins
<1>5. ASSUME NEW c \in Clerks,
             AddRequirement(c) \/ AddRequirementVersion(c) \/ UpdateActionStatus(c)
      PROVE  Ends
  BY <1>5 DEF AddRequirement, AddRequirementVersion, UpdateActionStatus, Ends
<1>. QED
  BY <1>1, <1>2, <1>3, <1>4, <1>5 DEF ComplianceNext

LEMMA HazardsMoves == HazardsNext => Begins \/ Ends \/ Quiet
<1>. SUFFICES ASSUME HazardsNext PROVE Begins \/ Ends \/ Quiet
  OBVIOUS
<1>1. CASE AddHazard \/ AddHazardAction \/ UpdateHazardRuleConfig
  BY <1>1 DEF AddHazard, AddHazardAction, UpdateHazardRuleConfig, Quiet
<1>2. ASSUME NEW c \in Clerks, BeginHazardStatus(c) PROVE Begins
  BY <1>2 DEF BeginHazardStatus, Begins
<1>3. ASSUME NEW c \in Clerks, BeginHazardActionStatus(c) PROVE Begins
  BY <1>3 DEF BeginHazardActionStatus, Begins
<1>4. ASSUME NEW c \in Clerks, UpdateHazardStatus(c) \/ UpdateHazardActionStatus(c) PROVE Ends
  BY <1>4 DEF UpdateHazardStatus, UpdateHazardActionStatus, Ends
<1>. QED
  BY <1>1, <1>2, <1>3, <1>4 DEF HazardsNext

LEMMA RepairsMoves == RepairsNext => Begins \/ Ends \/ Quiet
<1>. SUFFICES ASSUME RepairsNext PROVE Begins \/ Ends \/ Quiet
  OBVIOUS
<1>1. CASE AddRepair \/ import_repair_row \/ UpdateRepairRuleConfig
  BY <1>1 DEF AddRepair, import_repair_row, UpdateRepairRuleConfig, Quiet
<1>2. ASSUME NEW c \in Clerks, BeginRepairStatus(c) PROVE Begins
  BY <1>2 DEF BeginRepairStatus, Begins
<1>3. ASSUME NEW c \in Clerks, UpdateRepairStatus(c) PROVE Ends
  BY <1>3 DEF UpdateRepairStatus, Ends
<1>. QED
  BY <1>1, <1>2, <1>3 DEF RepairsNext

LEMMA Moves == [Next]_vars => Begins \/ Ends \/ Quiet
<1>1. CASE UNCHANGED vars
  BY <1>1 DEF vars, Quiet
<1>. QED
  BY <1>1, ComplianceMoves, HazardsMoves, RepairsMoves DEF Next, Quiet

LEMMA ShapeNext == ReqShape /\ [Next]_vars => ReqShape'
<1>. SUFFICES ASSUME ReqShape, [Next]_vars PROVE ReqShape'
  OBVIOUS
<1>1. CASE Begins
  BY <1>1, HoldEffect DEF Begins
<1>2. CASE Ends
  BY <1>2, EndEffect DEF Ends
<1>3. CASE Quiet
  BY <1>3, QuietEffect DEF Quiet
<1>. QED
  BY <1>1, <1>2, <1>3, Moves

LEMMA KeyNext == ReqShape /\ KeyInv /\ [Next]_vars => KeyInv'
<1>. SUFFICES ASSUME ReqShape, KeyInv, [Next]_vars, NEW c \in Clerks, NEW d \in Clerks,
                     c # d, ~At(c, "idle")', ~At(d, "idle")'
              PROVE  (req[c].keys \intersect req[d].keys \subseteq raced)'
  BY DEF KeyInv
<1>1. ASSUME NEW e \in Clerks, NEW r, Hold(e, r)
      PROVE  (req[c].keys \intersect req[d].keys \subseteq raced)'
  <2>1. /\ req'[e] = r /\ \A k \in Clerks : k # e => req'[k] = req[k]
        /\ At(e, "idle") /\ raced \subseteq raced' /\ r.keys \intersect Held \subseteq raced'
    BY <1>1, HoldEffect
  <2>2. \A k \in Clerks : ~At(k, "idle") => req[k].keys \subseteq Held
    BY DEF Held
  <2>3. CASE c = e
    <3>1. req'[d] = req[d] /\ ~At(d, "idle")
      BY <2>1, <2>3 DEF At
    <3>. QED
      BY <2>1, <2>2, <2>3, <3>1
  <2>4. CASE d = e
    <3>1. req'[c] = req[c] /\ ~At(c, "idle")
      BY <2>1, <2>4 DEF At
    <3>. QED
      BY <2>1, <2>2, <2>4, <3>1
  <2>5. CASE c # e /\ d # e
    BY <2>1, <2>5 DEF KeyInv, At
  <2>. QED
    BY <2>3, <2>4, <2>5
<1>2. ASSUME NEW e \in Clerks, End(e)
      PROVE  (req[c].keys \intersect req[d].keys \subseteq raced)'
  <2>1. /\ req'[e] = Idle /\ \A k \in Clerks : k # e => req'[k] = req[k] /\ raced' = raced
    BY <1>2, EndEffect
  <2>2. c # e /\ d # e
    BY <2>1 DEF At, Idle
  <2>. QED
    BY <2>1, <2>2 DEF KeyInv, At
<1>3. CASE Quiet
  BY <1>3, QuietEffect DEF Quiet, KeyInv, At
<1>. QED
  BY <1>1, <1>2, <1>3, Moves DEF Begins, Ends

-----------------------------------------------------------------------------
(* Types, of the rows and of what a request holds *)

RowsOK == ComplianceTypeOK /\ HazardsTypeOK /\ RepairsTypeOK

\* The rows of the framework name requirements that exist.
ReferencesOK ==
    /\ \A a \in DOMAIN applicability : applicability[a].requirement_id \in Requirements
    /\ \A i \in DOMAIN inspection : inspection[i].requirement_id \in Requirements
    /\ \A a \in DOMAIN action : action[a].requirement_id \in Requirements

KeyOf(r) == LineageKey(requirement[r].domain, requirement[r].code)

\* What a request in flight names exists, and is what it is known to hold.
HeldOK(c) ==
    LET r == req[c] IN
    /\ r.pc = "requirement" => /\ \E d \in Domains, code \in Codes, hard \in BOOLEAN :
                                     r.row = create_requirement(d, code, hard)
                               /\ r.keys = {LineageKey(r.row.domain, r.row.code)}
    /\ r.pc = "version" => /\ r.id \in Requirements /\ r.effective \in Days
                           /\ r.hard \in BOOLEAN /\ r.keys = {KeyOf(r.id)}
    /\ r.pc = "action" => /\ r.id \in DOMAIN action /\ r.to \in ComplianceActionStatus
                          /\ r.keys = {<<"compliance_action", r.id>>}
    /\ r.pc = "hazard" => /\ r.id \in DOMAIN hazard /\ r.to \in HazardStatus
                          /\ r.outcome \in HazardInvestigationStatus
    /\ r.pc = "remedial" => /\ r.id \in DOMAIN hazard_action /\ r.to \in HazardActionStatus
                            /\ r.keys = {<<"hazard_action", r.id>>}
    /\ r.pc = "repair" => /\ r.id \in DOMAIN repair /\ r.to \in RepairStatus
                          /\ r.keys = {<<"repair", r.id>>}

TypeInv == ReqShape /\ RowsOK /\ ReferencesOK /\ \A c \in Clerks : HeldOK(c)

\* Rows are only added, and a requirement keeps its domain and its code.
Grow ==
    /\ Requirements \subseteq Requirements' /\ DOMAIN action \subseteq DOMAIN action'
    /\ DOMAIN hazard \subseteq DOMAIN hazard'
    /\ DOMAIN hazard_action \subseteq DOMAIN hazard_action'
    /\ DOMAIN repair \subseteq DOMAIN repair'
    /\ \A r \in Requirements : /\ requirement'[r].domain = requirement[r].domain
                               /\ requirement'[r].code = requirement[r].code

LEMMA DaysOnly == Days' = Days /\ None \notin Days /\ (\A d \in Days : d \in Int) /\ None \in Int
  BY BoundsAssumption DEF Days, None

\* What was held of rows that are still there is still well typed.
LEMMA HeldKept ==
  ASSUME Grow, NEW c \in Clerks, HeldOK(c), req'[c] = req[c]
  PROVE  HeldOK(c)'
<1>1. req[c].pc = "version" =>
         /\ req[c].id \in Requirements'
         /\ req[c].keys = {LineageKey(requirement'[req[c].id].domain,
                                      requirement'[req[c].id].code)}
  BY DEF HeldOK, Grow, KeyOf
<1>. QED
  BY <1>1, DaysOnly DEF HeldOK, Grow, KeyOf

LEMMA HeldIdle == ASSUME NEW c, req'[c] = Idle PROVE HeldOK(c)'
  BY DEF HeldOK, Idle

\* A step that begins at most one request, or ends one, keeps what is held well typed.
LEMMA HeldNext ==
  ASSUME \A d \in Clerks : HeldOK(d), Grow,
         \A d \in Clerks : req'[d] = req[d] \/ req'[d] = Idle \/ HeldOK(d)'
  PROVE  \A d \in Clerks : HeldOK(d)'
  BY HeldKept, HeldIdle

LEMMA TypeInit == Init => TypeInv
<1>. SUFFICES ASSUME Init PROVE TypeInv
  OBVIOUS
<1>1. ReqShape
  BY BoundsAssumption DEF Init, RequestsInit, ReqShape, RequestsOK, Days
<1>2. RowsOK /\ ReferencesOK
  BY ComplianceAssumption, HazardsAssumption, RepairsAssumption
     DEF Init, ComplianceInit, HazardsInit, RepairsInit, RowsOK, ReferencesOK,
         ComplianceTypeOK, HazardsTypeOK, RepairsTypeOK
<1>3. \A c \in Clerks : HeldOK(c)
  BY DEF Init, RequestsInit, HeldOK, Idle
<1>. QED
  BY <1>1, <1>2, <1>3 DEF TypeInv

-----------------------------------------------------------------------------
(* Types are kept by the compliance framework *)

LEMMA KeptBySame ==
  ASSUME TypeInv, UNCHANGED <<compliance, hazards, repairs>>
  PROVE  RowsOK' /\ ReferencesOK' /\ Grow
  BY DaysOnly DEF TypeInv, RowsOK, ComplianceTypeOK, HazardsTypeOK, RepairsTypeOK, ReferencesOK,
        Grow, compliance, hazards, repairs, Requirements, ComplianceRequirement,
        RequirementApplicability, Inspection, ComplianceAction, Hazard, HazardAction, Repair

LEMMA OldRows ==
  ASSUME TypeInv
  PROVE  /\ requirement \in Seq(ComplianceRequirement)
         /\ applicability \in Seq(RequirementApplicability)
         /\ inspection \in Seq(Inspection) /\ action \in Seq(ComplianceAction)
         /\ hazard \in Seq(Hazard) /\ hazard_action \in Seq(HazardAction)
         /\ repair \in Seq(Repair)
         /\ Hazard' = Hazard /\ HazardAction' = HazardAction /\ Repair' = Repair
         /\ ComplianceRequirement' = ComplianceRequirement /\ Inspection' = Inspection
         /\ RequirementApplicability' = RequirementApplicability
         /\ ComplianceAction' = ComplianceAction
         /\ today \in Days
  BY DaysOnly DEF TypeInv, RowsOK, ComplianceTypeOK, HazardsTypeOK, RepairsTypeOK,
        ComplianceRequirement, RequirementApplicability, Inspection, ComplianceAction,
        Hazard, HazardAction, Repair, ReqShape, RequestsOK

\* An applicability, an inspection or an action is added, a configuration is patched.
LEMMA KeptByAdding ==
  ASSUME TypeInv, UNCHANGED <<hazards, repairs>>,
         \/ AddApplicability \/ EndApplicability \/ AddInspection
         \/ import_compliance_inspection_row \/ AddAction \/ UpdateStatusConfig
  PROVE  RowsOK' /\ ReferencesOK' /\ Grow
<1>. USE OldRows
<1>0. /\ HazardsTypeOK' /\ RepairsTypeOK'
  BY DEF TypeInv, RowsOK, HazardsTypeOK, RepairsTypeOK, hazards, repairs
<1>1. ASSUME NEW r \in Requirements, NEW e \in Entities, NEW from \in Days,
             applicability' = Append(applicability, create_applicability(r, e, from)),
             UNCHANGED <<requirement, inspection, action, status_config>>
      PROVE  RowsOK' /\ ReferencesOK' /\ Grow
  <2>1. create_applicability(r, e, from) \in RequirementApplicability
    BY TableType, DaysOnly DEF create_applicability, RequirementApplicability, Requirements
  <2>2. create_applicability(r, e, from).requirement_id = r
    BY DEF create_applicability
  <2>. QED
    BY <1>0, <1>1, <2>1, <2>2, RowAppended
       DEF TypeInv, RowsOK, ComplianceTypeOK, ReferencesOK, Grow, hazards, repairs, Requirements
<1>2. ASSUME NEW a \in DOMAIN applicability, NEW to \in Days,
             applicability' = end_applicability(a, to),
             UNCHANGED <<requirement, inspection, action, status_config>>
      PROVE  RowsOK' /\ ReferencesOK' /\ Grow
  <2>. DEFINE row == [applicability[a] EXCEPT !.applicable_to = to]
  <2>1. /\ applicability' = [applicability EXCEPT ![a] = row]
        /\ applicability[a] \in RequirementApplicability
    BY <1>2, TableType DEF end_applicability
  <2>2. row \in RequirementApplicability
        /\ row.requirement_id = applicability[a].requirement_id
    BY <2>1 DEF RequirementApplicability
  <2>. HIDE DEF row
  <2>. QED
    BY <1>0, <1>2, <2>1, <2>2, RowWritten
       DEF TypeInv, RowsOK, ComplianceTypeOK, ReferencesOK, Grow, hazards, repairs, Requirements
<1>3. ASSUME NEW r \in Requirements, NEW e \in Entities, NEW p \in InspectionPayloads,
             inspection' = Append(inspection, create_inspection(r, e, p)),
             UNCHANGED <<requirement, applicability, action, status_config>>
      PROVE  RowsOK' /\ ReferencesOK' /\ Grow
  <2>1. create_inspection(r, e, p) \in Inspection
    BY TableType, ComplianceAssumption
       DEF create_inspection, Inspection, InspectionResult, Requirements
  <2>2. create_inspection(r, e, p).requirement_id = r
    BY DEF create_inspection
  <2>. QED
    BY <1>0, <1>3, <2>1, <2>2, RowAppended
       DEF TypeInv, RowsOK, ComplianceTypeOK, ReferencesOK, Grow, hazards, repairs, Requirements
<1>4. ASSUME NEW r \in Requirements, NEW e \in Entities, NEW deadline \in Days,
             action' = Append(action, create_compliance_action(r, e, deadline)),
             UNCHANGED <<requirement, applicability, inspection, status_config>>
      PROVE  RowsOK' /\ ReferencesOK' /\ Grow
  <2>1. create_compliance_action(r, e, deadline) \in ComplianceAction
    BY TableType, DaysOnly
       DEF create_compliance_action, ComplianceAction, ComplianceActionStatus, Requirements
  <2>2. create_compliance_action(r, e, deadline).requirement_id = r
    BY DEF create_compliance_action
  <2>. QED
    BY <1>0, <1>4, <2>1, <2>2, RowAppended
       DEF TypeInv, RowsOK, ComplianceTypeOK, ReferencesOK, Grow, hazards, repairs, Requirements
<1>5. CASE UpdateStatusConfig
  BY <1>0, <1>5 DEF UpdateStatusConfig, TypeInv, RowsOK, ComplianceTypeOK, ReferencesOK, Grow,
                    hazards, repairs, Requirements
<1>6. CASE AddApplicability
  BY <1>1, <1>6 DEF AddApplicability
<1>7. CASE EndApplicability
  BY <1>2, <1>7 DEF EndApplicability
<1>8. CASE AddInspection
  BY <1>3, <1>8 DEF AddInspection
<1>9. CASE import_compliance_inspection_row
  BY <1>3, <1>9 DEF import_compliance_inspection_row, list_requirements
<1>10. CASE AddAction
  BY <1>4, <1>10 DEF AddAction
<1>. QED
  BY <1>5, <1>6, <1>7, <1>8, <1>9, <1>10

\* A requirement, a version of one or the status of an action is written.
LEMMA KeptByCommits ==
  ASSUME TypeInv, NEW c \in Clerks, UNCHANGED <<hazards, repairs>>,
         AddRequirement(c) \/ AddRequirementVersion(c) \/ UpdateActionStatus(c)
  PROVE  RowsOK' /\ ReferencesOK' /\ Grow
<1>. USE OldRows
<1>0. /\ HazardsTypeOK' /\ RepairsTypeOK' /\ HeldOK(c)
  BY DEF TypeInv, RowsOK, HazardsTypeOK, RepairsTypeOK, hazards, repairs
<1>1. CASE AddRequirement(c)
  <2>1. /\ requirement' = Append(requirement, req[c].row)
        /\ UNCHANGED <<applicability, inspection, action, status_config>>
        /\ req[c].pc = "requirement"
    BY <1>1 DEF AddRequirement, At
  <2>2. req[c].row \in ComplianceRequirement
    <3>1. PICK d \in Domains, code \in Codes, hard \in BOOLEAN :
                  req[c].row = create_requirement(d, code, hard)
      BY <1>0, <2>1 DEF HeldOK
    <3>. QED
      BY <3>1 DEF create_requirement, ComplianceRequirement
  <2>. QED
    BY <1>0, <2>1, <2>2, RowAppended
       DEF TypeInv, RowsOK, ComplianceTypeOK, ReferencesOK, Grow, hazards, repairs, Requirements
<1>2. CASE AddRequirementVersion(c)
  <2>. DEFINE r == req[c].id
              old == [requirement[r] EXCEPT !.superseded_date = req[c].effective]
              new == [requirement[r] EXCEPT !.version = @ + 1, !.hard_deadline = req[c].hard,
                                            !.superseded_date = None]
              left == [requirement EXCEPT ![r] = old]
  <2>1. /\ requirement' = create_requirement_version(r, req[c].effective, req[c].hard)
        /\ UNCHANGED <<applicability, inspection, action, status_config>>
        /\ req[c].pc = "version"
    BY <1>2 DEF AddRequirementVersion, At
  <2>2. requirement' = Append(left, new)
    BY <2>1 DEF create_requirement_version
  <2>3. r \in Requirements /\ req[c].effective \in Days /\ req[c].hard \in BOOLEAN
    BY <1>0, <2>1 DEF HeldOK
  <2>4. requirement[r] \in ComplianceRequirement
    BY <2>3, TableType DEF Requirements
  <2>5. /\ old \in ComplianceRequirement /\ new \in ComplianceRequirement
        /\ old.domain = requirement[r].domain /\ old.code = requirement[r].code
    <3>. DEFINE row == requirement[r]  day == req[c].effective  hard == req[c].hard
    <3>1. old = [row EXCEPT !.superseded_date = day]
          /\ new = [row EXCEPT !.version = row.version + 1, !.hard_deadline = hard,
                               !.superseded_date = None]
      OBVIOUS
    <3>2. row \in ComplianceRequirement /\ day \in Days /\ hard \in BOOLEAN
      BY <2>3, <2>4
    <3>. HIDE DEF row, day, hard, old, new
    <3>3. row.version + 1 \in Nat \ {0}
      BY <3>2 DEF ComplianceRequirement
    <3>4. new \in ComplianceRequirement
      BY <3>1, <3>2, <3>3 DEF ComplianceRequirement
    <3>5. old \in ComplianceRequirement /\ old.domain = row.domain /\ old.code = row.code
      BY <3>1, <3>2 DEF ComplianceRequirement
    <3>. QED
      BY <3>4, <3>5 DEF row
  <2>. HIDE DEF old, new
  <2>6. /\ left \in Seq(ComplianceRequirement) /\ DOMAIN left = DOMAIN requirement
        /\ left[r] = old /\ \A x \in DOMAIN requirement : x # r => left[x] = requirement[x]
    BY <2>3, <2>5, RowWritten DEF Requirements
  <2>. HIDE DEF left
  <2>7. /\ requirement' \in Seq(ComplianceRequirement)
        /\ Requirements \subseteq Requirements'
        /\ \A x \in Requirements : requirement'[x] = left[x]
    BY <2>2, <2>5, <2>6, RowAppended DEF Requirements
  <2>. HIDE DEF r
  <2>. QED
    BY <1>0, <2>1, <2>5, <2>6, <2>7
       DEF TypeInv, RowsOK, ComplianceTypeOK, ReferencesOK, Grow, hazards, repairs, Requirements
<1>3. CASE UpdateActionStatus(c)
  <2>0. PICK given \in Days \union {None} :
             action' = [action EXCEPT ![req[c].id] =
                          update_compliance_action_status(@, req[c].to, given)]
    BY <1>3 DEF UpdateActionStatus
  <2>. DEFINE a == req[c].id  row == update_compliance_action_status(action[a], req[c].to, given)
  <2>1. /\ action' = [action EXCEPT ![a] = row]
        /\ UNCHANGED <<requirement, applicability, inspection, status_config>>
        /\ req[c].pc = "action"
    BY <1>3, <2>0 DEF UpdateActionStatus, At
  <2>2. a \in DOMAIN action /\ req[c].to \in ComplianceActionStatus
    BY <1>0, <2>1 DEF HeldOK
  <2>3. action[a] \in ComplianceAction
    BY <2>2, TableType
  <2>4. row \in ComplianceAction /\ row.requirement_id = action[a].requirement_id
    BY <2>2, <2>3 DEF ComplianceAction, update_compliance_action_status, OrToday
  <2>. HIDE DEF row
  <2>5. /\ action' \in Seq(ComplianceAction) /\ DOMAIN action' = DOMAIN action
        /\ action'[a] = row /\ \A x \in DOMAIN action : x # a => action'[x] = action[x]
    BY <2>1, <2>2, <2>4, RowWritten
  <2>. HIDE DEF a
  <2>. QED
    BY <1>0, <2>1, <2>4, <2>5
       DEF TypeInv, RowsOK, ComplianceTypeOK, ReferencesOK, Grow, hazards, repairs, Requirements
<1>. QED
  BY <1>1, <1>2, <1>3

-----------------------------------------------------------------------------
(* Types are kept by hazards and by repairs *)

LEMMA KeptByHazards ==
  ASSUME TypeInv, UNCHANGED <<compliance, repairs>>,
         \/ AddHazard \/ AddHazardAction \/ UpdateHazardRuleConfig
         \/ \E c \in Clerks : UpdateHazardStatus(c) \/ UpdateHazardActionStatus(c)
  PROVE  RowsOK' /\ ReferencesOK' /\ Grow
<1>. USE OldRows
<1>0. /\ ComplianceTypeOK' /\ RepairsTypeOK' /\ \A c \in Clerks : HeldOK(c)
  BY DEF TypeInv, RowsOK, ComplianceTypeOK, RepairsTypeOK, compliance, repairs
<1>1. ASSUME hazard' \in Seq(Hazard), DOMAIN hazard \subseteq DOMAIN hazard',
             hazard_action' \in Seq(HazardAction),
             DOMAIN hazard_action \subseteq DOMAIN hazard_action',
             hazard_rule_config' \in HazardRuleConfigs
      PROVE  RowsOK' /\ ReferencesOK' /\ Grow
  BY <1>0, <1>1
     DEF TypeInv, RowsOK, HazardsTypeOK, ReferencesOK, Grow, compliance, repairs, Requirements
<1>2. CASE AddHazard
  <2>1. PICK p \in Properties, type \in HazardTypes, severity \in HazardSeverity,
             reported \in Days :
                hazard' = Append(hazard, create_hazard(p, type, severity, reported))
    BY <1>2 DEF AddHazard
  <2>2. create_hazard(p, type, severity, reported) \in Hazard
    BY DEF create_hazard, Hazard, HazardStatus, HazardInvestigationStatus
  <2>. QED
    BY <1>1, <1>2, <2>1, <2>2, RowAppended DEF AddHazard, TypeInv, RowsOK, HazardsTypeOK
<1>3. CASE AddHazardAction
  <2>1. PICK h \in DOMAIN hazard : hazard_action' = Append(hazard_action, create_hazard_action(h))
    BY <1>3 DEF AddHazardAction
  <2>2. create_hazard_action(h) \in HazardAction
    BY TableType DEF create_hazard_action, HazardAction, HazardActionStatus
  <2>. QED
    BY <1>1, <1>3, <2>1, <2>2, RowAppended DEF AddHazardAction, TypeInv, RowsOK, HazardsTypeOK
<1>4. CASE UpdateHazardRuleConfig
  BY <1>1, <1>4 DEF UpdateHazardRuleConfig, TypeInv, RowsOK, HazardsTypeOK
<1>5. ASSUME NEW c \in Clerks, UpdateHazardStatus(c) PROVE RowsOK' /\ ReferencesOK' /\ Grow
  <2>. DEFINE h == req[c].id
              row == update_hazard_status(hazard[h], req[c].to, req[c].outcome)
  <2>1. hazard' = [hazard EXCEPT ![h] = row] /\ req[c].pc = "hazard"
    BY <1>5 DEF UpdateHazardStatus, At
  <2>2. /\ h \in DOMAIN hazard /\ req[c].to \in HazardStatus
        /\ req[c].outcome \in HazardInvestigationStatus
    BY <1>0, <2>1 DEF HeldOK
  <2>3. hazard[h] \in Hazard
    BY <2>2, TableType
  <2>4. row \in Hazard
    BY <2>2, <2>3 DEF Hazard, update_hazard_status
  <2>. HIDE DEF row
  <2>. QED
    BY <1>1, <1>5, <2>1, <2>2, <2>4, RowWritten
       DEF UpdateHazardStatus, TypeInv, RowsOK, HazardsTypeOK
<1>6. ASSUME NEW c \in Clerks, UpdateHazardActionStatus(c)
      PROVE  RowsOK' /\ ReferencesOK' /\ Grow
  <2>0. PICK given \in Days \union {None} :
             hazard_action' = [hazard_action EXCEPT ![req[c].id] =
                                 update_hazard_action_status(@, req[c].to, given)]
    BY <1>6 DEF UpdateHazardActionStatus
  <2>. DEFINE a == req[c].id
              row == update_hazard_action_status(hazard_action[a], req[c].to, given)
  <2>1. hazard_action' = [hazard_action EXCEPT ![a] = row] /\ req[c].pc = "remedial"
    BY <1>6, <2>0 DEF UpdateHazardActionStatus, At
  <2>2. a \in DOMAIN hazard_action /\ req[c].to \in HazardActionStatus
    BY <1>0, <2>1 DEF HeldOK
  <2>3. hazard_action[a] \in HazardAction
    BY <2>2, TableType
  <2>4. row \in HazardAction
    BY <2>2, <2>3 DEF HazardAction, update_hazard_action_status, OrToday
  <2>. HIDE DEF row
  <2>. QED
    <3>1. hazard_action' \in Seq(HazardAction) /\ DOMAIN hazard_action' = DOMAIN hazard_action
      BY <2>1, <2>2, <2>4, RowWritten
    <3>. QED
      BY <1>1, <1>6, <3>1 DEF UpdateHazardActionStatus, TypeInv, RowsOK, HazardsTypeOK
<1>. QED
  BY <1>2, <1>3, <1>4, <1>5, <1>6

LEMMA KeptByRepairs ==
  ASSUME TypeInv, UNCHANGED <<compliance, hazards>>,
         \/ AddRepair \/ import_repair_row \/ UpdateRepairRuleConfig
         \/ \E c \in Clerks : UpdateRepairStatus(c)
  PROVE  RowsOK' /\ ReferencesOK' /\ Grow
<1>. USE OldRows
<1>0. /\ ComplianceTypeOK' /\ HazardsTypeOK' /\ \A c \in Clerks : HeldOK(c)
  BY DEF TypeInv, RowsOK, ComplianceTypeOK, HazardsTypeOK, compliance, hazards
<1>1. ASSUME repair' \in Seq(Repair), DOMAIN repair \subseteq DOMAIN repair',
             repair_rule_config' \in RepairRuleConfigs
      PROVE  RowsOK' /\ ReferencesOK' /\ Grow
  BY <1>0, <1>1
     DEF TypeInv, RowsOK, RepairsTypeOK, ReferencesOK, Grow, compliance, hazards, Requirements
<1>2. ASSUME NEW p \in Properties, NEW x \in Components \union {NoComponent}, NEW priority,
             NEW reported \in Days
      PROVE  create_repair(p, x, priority, reported) \in Repair
  BY DEF create_repair, Repair, RepairStatus
<1>3. CASE AddRepair
  <2>1. PICK p \in Properties, x \in Components \union {NoComponent}, priority \in Priorities,
             reported \in Days :
                repair' = Append(repair, create_repair(p, x, priority, reported))
    BY <1>3 DEF AddRepair
  <2>2. create_repair(p, x, priority, reported) \in Repair
    BY <1>2
  <2>. QED
    BY <1>1, <1>3, <2>1, <2>2, RowAppended DEF AddRepair, TypeInv, RowsOK, RepairsTypeOK
<1>4. CASE import_repair_row
  <2>1. PICK p \in Properties, x \in Components \union {NoComponent}, reported \in Days :
                repair' = Append(repair, create_repair(p, x, "ROUTINE", reported))
    BY <1>4 DEF import_repair_row
  <2>2. create_repair(p, x, "ROUTINE", reported) \in Repair
    BY <1>2
  <2>. QED
    BY <1>1, <1>4, <2>1, <2>2, RowAppended DEF import_repair_row, TypeInv, RowsOK, RepairsTypeOK
<1>5. CASE UpdateRepairRuleConfig
  BY <1>1, <1>5 DEF UpdateRepairRuleConfig, TypeInv, RowsOK, RepairsTypeOK
<1>6. ASSUME NEW c \in Clerks, UpdateRepairStatus(c) PROVE RowsOK' /\ ReferencesOK' /\ Grow
  <2>0. PICK given \in Days \union {None} :
             repair' = [repair EXCEPT ![req[c].id] = update_repair_status(@, req[c].to, given)]
    BY <1>6 DEF UpdateRepairStatus
  <2>. DEFINE i == req[c].id  row == update_repair_status(repair[i], req[c].to, given)
  <2>1. repair' = [repair EXCEPT ![i] = row] /\ req[c].pc = "repair"
    BY <1>6, <2>0 DEF UpdateRepairStatus, At
  <2>2. i \in DOMAIN repair /\ req[c].to \in RepairStatus
    BY <1>0, <2>1 DEF HeldOK
  <2>3. repair[i] \in Repair
    BY <2>2, TableType
  <2>4. row \in Repair
    BY <2>2, <2>3 DEF Repair, update_repair_status, OrToday
  <2>. HIDE DEF row
  <2>. QED
    BY <1>1, <1>6, <2>1, <2>2, <2>4, RowWritten
       DEF UpdateRepairStatus, TypeInv, RowsOK, RepairsTypeOK
<1>. QED
  BY <1>3, <1>4, <1>5, <1>6

-----------------------------------------------------------------------------
(* What a request is begun with *)

BeginSomething(c) ==
    \/ BeginRequirement(c) \/ BeginVersion(c) \/ BeginActionStatus(c)
    \/ BeginHazardStatus(c) \/ BeginHazardActionStatus(c) \/ BeginRepairStatus(c)

\* A request begins with rows that exist, and writes nothing yet.
LEMMA BeginHeld ==
  ASSUME TypeInv, NEW c \in Clerks, BeginSomething(c),
         UNCHANGED <<compliance, hazards, repairs>>
  PROVE  HeldOK(c)'
<1>. USE DEF compliance, hazards, repairs
<1>0. /\ action' = action /\ hazard' = hazard /\ hazard_action' = hazard_action
      /\ repair' = repair /\ requirement' = requirement
  OBVIOUS
<1>1. CASE BeginRequirement(c)
  <2>1. PICK d \in Domains, code \in Codes, hard \in BOOLEAN :
             Hold(c, [pc |-> "requirement", keys |-> {LineageKey(d, code)},
                      row |-> create_requirement(d, code, hard)])
    BY <1>1 DEF BeginRequirement
  <2>2. req'[c] = [pc |-> "requirement", keys |-> {LineageKey(d, code)},
                   row |-> create_requirement(d, code, hard)]
    BY <2>1, HoldEffect DEF TypeInv
  <2>. QED
    BY <2>2 DEF HeldOK, create_requirement
<1>2. CASE BeginVersion(c)
  <2>1. PICK r \in Requirements, effective \in EffectiveDates, hard \in BOOLEAN :
             Hold(c, [pc |-> "version",
                      keys |-> {LineageKey(requirement[r].domain, requirement[r].code)},
                      id |-> r, effective |-> effective, hard |-> hard])
    BY <1>2 DEF BeginVersion
  <2>2. req'[c] = [pc |-> "version",
                   keys |-> {LineageKey(requirement[r].domain, requirement[r].code)},
                   id |-> r, effective |-> effective, hard |-> hard]
    BY <2>1, HoldEffect DEF TypeInv
  <2>. QED
    BY <2>2, DaysOnly, ComplianceAssumption DEF HeldOK, KeyOf, Requirements
<1>3. CASE BeginActionStatus(c)
  <2>1. PICK a \in DOMAIN action, to \in ComplianceActionStatus :
             Hold(c, [pc |-> "action", keys |-> {<<"compliance_action", a>>}, id |-> a, to |-> to])
    BY <1>3 DEF BeginActionStatus
  <2>2. req'[c] = [pc |-> "action", keys |-> {<<"compliance_action", a>>}, id |-> a, to |-> to]
    BY <2>1, HoldEffect DEF TypeInv
  <2>. QED
    BY <2>2 DEF HeldOK
<1>4. CASE BeginHazardStatus(c)
  <2>1. PICK h \in DOMAIN hazard, to \in HazardStatus, outcome \in {"PENDING", "CONFIRMED"} :
             Hold(c, [pc |-> "hazard", keys |-> {<<"hazard", h>>}, id |-> h, to |-> to,
                      outcome |-> outcome])
    BY <1>4 DEF BeginHazardStatus
  <2>2. req'[c] = [pc |-> "hazard", keys |-> {<<"hazard", h>>}, id |-> h, to |-> to,
                   outcome |-> outcome]
    BY <2>1, HoldEffect DEF TypeInv
  <2>. QED
    BY <2>2 DEF HeldOK, HazardInvestigationStatus
<1>5. CASE BeginHazardActionStatus(c)
  <2>1. PICK a \in DOMAIN hazard_action, to \in HazardActionStatus :
             Hold(c, [pc |-> "remedial", keys |-> {<<"hazard_action", a>>}, id |-> a, to |-> to])
    BY <1>5 DEF BeginHazardActionStatus
  <2>2. req'[c] = [pc |-> "remedial", keys |-> {<<"hazard_action", a>>}, id |-> a, to |-> to]
    BY <2>1, HoldEffect DEF TypeInv
  <2>3. /\ req'[c].pc = "remedial" /\ req'[c].id \in DOMAIN hazard_action'
        /\ req'[c].to \in HazardActionStatus
        /\ req'[c].keys = {<<"hazard_action", req'[c].id>>}
    BY <2>2
  <2>. QED
    BY <2>3 DEF HeldOK
<1>6. CASE BeginRepairStatus(c)
  <2>1. PICK i \in DOMAIN repair, to \in RepairStatus :
             Hold(c, [pc |-> "repair", keys |-> {<<"repair", i>>}, id |-> i, to |-> to])
    BY <1>6 DEF BeginRepairStatus
  <2>2. req'[c] = [pc |-> "repair", keys |-> {<<"repair", i>>}, id |-> i, to |-> to]
    BY <2>1, HoldEffect DEF TypeInv
  <2>3. /\ req'[c].pc = "repair" /\ req'[c].id \in DOMAIN repair' /\ req'[c].to \in RepairStatus
        /\ req'[c].keys = {<<"repair", req'[c].id>>}
    BY <2>2
  <2>. QED
    BY <2>3 DEF HeldOK
<1>. QED
  BY <1>1, <1>2, <1>3, <1>4, <1>5, <1>6 DEF BeginSomething

\* A step of the system: it begins a request, commits one, or takes a request of one step.
Adds == \/ AddApplicability \/ EndApplicability \/ AddInspection
        \/ import_compliance_inspection_row \/ AddAction \/ UpdateStatusConfig
HazardAdds == AddHazard \/ AddHazardAction \/ UpdateHazardRuleConfig
RepairAdds == AddRepair \/ import_repair_row \/ UpdateRepairRuleConfig

StepOf(c) ==
    \/ BeginSomething(c) /\ UNCHANGED <<compliance, hazards, repairs>>
    \/ AddRequirement(c) /\ UNCHANGED <<hazards, repairs>>
    \/ AddRequirementVersion(c) /\ UNCHANGED <<hazards, repairs>>
    \/ UpdateActionStatus(c) /\ UNCHANGED <<hazards, repairs>>
    \/ UpdateHazardStatus(c) /\ UNCHANGED <<compliance, repairs>>
    \/ UpdateHazardActionStatus(c) /\ UNCHANGED <<compliance, repairs>>
    \/ UpdateRepairStatus(c) /\ UNCHANGED <<compliance, hazards>>
StepOfNone ==
    \/ Adds /\ UNCHANGED <<hazards, repairs>>
    \/ HazardAdds /\ UNCHANGED <<compliance, repairs>>
    \/ RepairAdds /\ UNCHANGED <<compliance, hazards>>
    \/ (NextDay \/ UNCHANGED requests) /\ UNCHANGED <<compliance, hazards, repairs>>

LEMMA Steps == [Next]_vars => StepOfNone \/ \E c \in Clerks : StepOf(c)
<1>. SUFFICES ASSUME [Next]_vars PROVE StepOfNone \/ \E c \in Clerks : StepOf(c)
  OBVIOUS
<1>1. CASE UNCHANGED vars
  BY <1>1 DEF vars, StepOfNone
<1>2. CASE NextDay /\ UNCHANGED <<compliance, hazards, repairs, focus>>
  BY <1>2 DEF StepOfNone
<1>3. CASE ComplianceNext /\ UNCHANGED <<hazards, repairs>>
  <2>1. CASE Adds
    BY <1>3, <2>1 DEF StepOfNone
  <2>2. ASSUME NEW c \in Clerks, BeginRequirement(c) \/ BeginVersion(c) \/ BeginActionStatus(c)
        PROVE  StepOf(c)
    BY <1>3, <2>2
       DEF StepOf, BeginSomething, BeginRequirement, BeginVersion, BeginActionStatus
  <2>3. ASSUME NEW c \in Clerks,
               AddRequirement(c) \/ AddRequirementVersion(c) \/ UpdateActionStatus(c)
        PROVE  StepOf(c)
    BY <1>3, <2>3 DEF StepOf
  <2>. QED
    BY <1>3, <2>1, <2>2, <2>3 DEF ComplianceNext, Adds
<1>4. CASE HazardsNext /\ UNCHANGED <<compliance, repairs>>
  <2>1. CASE HazardAdds
    BY <1>4, <2>1 DEF StepOfNone
  <2>2. ASSUME NEW c \in Clerks, BeginHazardStatus(c) \/ BeginHazardActionStatus(c)
        PROVE  StepOf(c)
    BY <1>4, <2>2 DEF StepOf, BeginSomething, BeginHazardStatus, BeginHazardActionStatus
  <2>3. ASSUME NEW c \in Clerks, UpdateHazardStatus(c) \/ UpdateHazardActionStatus(c)
        PROVE  StepOf(c)
    BY <1>4, <2>3 DEF StepOf
  <2>. QED
    BY <1>4, <2>1, <2>2, <2>3 DEF HazardsNext, HazardAdds
<1>5. CASE RepairsNext /\ UNCHANGED <<compliance, hazards>>
  <2>1. CASE RepairAdds
    BY <1>5, <2>1 DEF StepOfNone
  <2>2. ASSUME NEW c \in Clerks, BeginRepairStatus(c)
        PROVE  StepOf(c)
    BY <1>5, <2>2 DEF StepOf, BeginSomething, BeginRepairStatus
  <2>3. ASSUME NEW c \in Clerks, UpdateRepairStatus(c)
        PROVE  StepOf(c)
    BY <1>5, <2>3 DEF StepOf
  <2>. QED
    BY <1>5, <2>1, <2>2, <2>3 DEF RepairsNext, RepairAdds
<1>. QED
  BY <1>1, <1>2, <1>3, <1>4, <1>5 DEF Next

-----------------------------------------------------------------------------
(* Types are kept *)

\* What a request that commits ends with.
Commits(c) ==
    \/ AddRequirement(c) \/ AddRequirementVersion(c) \/ UpdateActionStatus(c)
    \/ UpdateHazardStatus(c) \/ UpdateHazardActionStatus(c) \/ UpdateRepairStatus(c)

LEMMA CommitEnds == ASSUME NEW c, Commits(c) PROVE End(c)
  BY DEF Commits, AddRequirement, AddRequirementVersion, UpdateActionStatus, UpdateHazardStatus,
         UpdateHazardActionStatus, UpdateRepairStatus

LEMMA BeginHolds ==
  ASSUME NEW c, BeginSomething(c)
  PROVE  \E r : Hold(c, r)
<1>1. CASE BeginRequirement(c)
  BY <1>1 DEF BeginRequirement
<1>2. CASE BeginVersion(c)
  BY <1>2 DEF BeginVersion
<1>3. CASE BeginActionStatus(c)
  BY <1>3 DEF BeginActionStatus
<1>4. CASE BeginHazardStatus(c)
  BY <1>4 DEF BeginHazardStatus
<1>5. CASE BeginHazardActionStatus(c)
  BY <1>5 DEF BeginHazardActionStatus
<1>6. CASE BeginRepairStatus(c)
  BY <1>6 DEF BeginRepairStatus
<1>. QED
  BY <1>1, <1>2, <1>3, <1>4, <1>5, <1>6 DEF BeginSomething

LEMMA AddsQuietly == ASSUME StepOfNone PROVE Once \/ NextDay \/ UNCHANGED requests
  BY DEF StepOfNone, Adds, HazardAdds, RepairAdds, AddApplicability, EndApplicability,
         AddInspection, import_compliance_inspection_row, AddAction, UpdateStatusConfig,
         AddHazard, AddHazardAction, UpdateHazardRuleConfig,
         AddRepair, import_repair_row, UpdateRepairRuleConfig

LEMMA KeptNext ==
  ASSUME TypeInv, [Next]_vars
  PROVE  RowsOK' /\ ReferencesOK' /\ Grow
<1>1. ASSUME NEW c \in Clerks, StepOf(c) PROVE RowsOK' /\ ReferencesOK' /\ Grow
  BY <1>1, KeptBySame, KeptByCommits, KeptByHazards, KeptByRepairs DEF StepOf
<1>2. CASE StepOfNone
  BY <1>2, KeptBySame, KeptByAdding, KeptByHazards, KeptByRepairs
     DEF StepOfNone, Adds, HazardAdds, RepairAdds
<1>. QED
  BY <1>1, <1>2, Steps

LEMMA TypeNext == TypeInv /\ [Next]_vars => TypeInv'
<1>. SUFFICES ASSUME TypeInv, [Next]_vars PROVE TypeInv'
  OBVIOUS
<1>1. ReqShape' /\ RowsOK' /\ ReferencesOK' /\ Grow /\ ReqShape
  BY KeptNext, ShapeNext DEF TypeInv
<1>2. \A d \in Clerks : req'[d] = req[d] \/ req'[d] = Idle \/ HeldOK(d)'
  <2>1. CASE StepOfNone
    BY <1>1, <2>1, AddsQuietly, QuietEffect
  <2>2. ASSUME NEW c \in Clerks, BeginSomething(c), UNCHANGED <<compliance, hazards, repairs>>
        PROVE  \A d \in Clerks : req'[d] = req[d] \/ req'[d] = Idle \/ HeldOK(d)'
    BY <1>1, <2>2, BeginHeld, BeginHolds, HoldEffect
  <2>3. ASSUME NEW c \in Clerks, Commits(c)
        PROVE  \A d \in Clerks : req'[d] = req[d] \/ req'[d] = Idle \/ HeldOK(d)'
    BY <1>1, <2>3, CommitEnds, EndEffect
  <2>. QED
    BY <2>1, <2>2, <2>3, Steps DEF StepOf, Commits
<1>. QED
  BY <1>1, <1>2, HeldNext DEF TypeInv

\* Every row of the three registers has the types of its columns, whatever is begun,
\* committed, imported or patched, by however many requests at once.
THEOREM OperationsTyping == Spec => []TypeOK
<1>1. TypeInv => TypeOK
  BY DEF TypeInv, TypeOK, ReqShape, RowsOK
<1>. QED
  BY <1>1, TypeInit, TypeNext, PTL DEF Spec

-----------------------------------------------------------------------------
(* What a step does to the requests in flight, and to a row with a completion date *)

\* A request stays as it is, ends, or begins.
LEMMA Requested ==
  ASSUME TypeInv, [Next]_vars
  PROVE  /\ raced \subseteq raced'
         /\ \A d \in Clerks : req'[d] = req[d] \/ req'[d] = Idle \/ BeginSomething(d)
<1>. USE DEF TypeInv
<1>1. CASE StepOfNone
  BY <1>1, AddsQuietly, QuietEffect
<1>2. ASSUME NEW c \in Clerks, BeginSomething(c)
      PROVE  /\ raced \subseteq raced'
             /\ \A d \in Clerks : req'[d] = req[d] \/ req'[d] = Idle \/ BeginSomething(d)
  BY <1>2, BeginHolds, HoldEffect
<1>3. ASSUME NEW c \in Clerks, Commits(c)
      PROVE  /\ raced \subseteq raced'
             /\ \A d \in Clerks : req'[d] = req[d] \/ req'[d] = Idle \/ BeginSomething(d)
  BY <1>3, CommitEnds, EndEffect
<1>. QED
  BY <1>1, <1>2, <1>3, Steps DEF StepOf, Commits

\* What a request holds tells which kind it is.
LEMMA BegunAs ==
  ASSUME TypeInv, NEW d \in Clerks, BeginSomething(d)
  PROVE  /\ req'[d].pc = "requirement" => BeginRequirement(d)
         /\ req'[d].pc = "version" => BeginVersion(d)
         /\ req'[d].pc = "action" => BeginActionStatus(d)
         /\ req'[d].pc = "remedial" => BeginHazardActionStatus(d)
         /\ req'[d].pc = "repair" => BeginRepairStatus(d)
         /\ req'[d].pc # "idle"
<1>. USE DEF TypeInv
<1>1. CASE BeginRequirement(d)
  <2>1. PICK r : Hold(d, r) /\ r.pc = "requirement"
    BY <1>1 DEF BeginRequirement
  <2>. QED
    BY <1>1, <2>1, HoldEffect
<1>2. CASE BeginVersion(d)
  <2>1. PICK r : Hold(d, r) /\ r.pc = "version"
    BY <1>2 DEF BeginVersion
  <2>. QED
    BY <1>2, <2>1, HoldEffect
<1>3. CASE BeginActionStatus(d)
  <2>1. PICK r : Hold(d, r) /\ r.pc = "action"
    BY <1>3 DEF BeginActionStatus
  <2>. QED
    BY <1>3, <2>1, HoldEffect
<1>4. CASE BeginHazardStatus(d)
  <2>1. PICK r : Hold(d, r) /\ r.pc = "hazard"
    BY <1>4 DEF BeginHazardStatus
  <2>. QED
    BY <1>4, <2>1, HoldEffect
<1>5. CASE BeginHazardActionStatus(d)
  <2>1. PICK r : Hold(d, r) /\ r.pc = "remedial"
    BY <1>5 DEF BeginHazardActionStatus
  <2>. QED
    BY <1>5, <2>1, HoldEffect
<1>6. CASE BeginRepairStatus(d)
  <2>1. PICK r : Hold(d, r) /\ r.pc = "repair"
    BY <1>6 DEF BeginRepairStatus
  <2>. QED
    BY <1>6, <2>1, HoldEffect
<1>. QED
  BY <1>1, <1>2, <1>3, <1>4, <1>5, <1>6 DEF BeginSomething

\* A row of a table after a step: as it was, new, or written by a request that ends.
ActionStep(i) ==
    \/ i \in DOMAIN action /\ action'[i] = action[i]
    \/ i \notin DOMAIN action /\ action'[i].status = "OPEN" /\ action'[i].completed_date = None
    \/ \E c \in Clerks :
          /\ At(c, "action") /\ i = req[c].id /\ i \in DOMAIN action /\ req'[c] = Idle
          /\ \E given \in Days \union {None} :
                action'[i] = update_compliance_action_status(action[i], req[c].to, given)

HazardActionStep(i) ==
    \/ i \in DOMAIN hazard_action /\ hazard_action'[i] = hazard_action[i]
    \/ /\ i \notin DOMAIN hazard_action /\ hazard_action'[i].status = "OPEN"
       /\ hazard_action'[i].completed_date = None
    \/ \E c \in Clerks :
          /\ At(c, "remedial") /\ i = req[c].id /\ i \in DOMAIN hazard_action /\ req'[c] = Idle
          /\ \E given \in Days \union {None} :
                hazard_action'[i] = update_hazard_action_status(hazard_action[i], req[c].to, given)

RepairStep(i) ==
    \/ i \in DOMAIN repair /\ repair'[i] = repair[i]
    \/ i \notin DOMAIN repair /\ repair'[i].status = "REPORTED" /\ repair'[i].completed_date = None
    \/ \E c \in Clerks :
          /\ At(c, "repair") /\ i = req[c].id /\ i \in DOMAIN repair /\ req'[c] = Idle
          /\ \E given \in Days \union {None} :
                repair'[i] = update_repair_status(repair[i], req[c].to, given)

LEMMA ActionSteps ==
  ASSUME TypeInv, [Next]_vars
  PROVE  \A i \in DOMAIN action' : ActionStep(i)
<1>. USE OldRows
<1>1. CASE action' = action
  BY <1>1 DEF ActionStep
<1>2. CASE AddAction
  <2>1. PICK r \in Requirements, e \in Entities, deadline \in Days :
             action' = Append(action, create_compliance_action(r, e, deadline))
    BY <1>2 DEF AddAction
  <2>. DEFINE row == create_compliance_action(r, e, deadline)
  <2>2. /\ row \in ComplianceAction /\ row.status = "OPEN" /\ row.completed_date = None
    BY TableType, DaysOnly
       DEF create_compliance_action, ComplianceAction, ComplianceActionStatus, Requirements
  <2>. HIDE DEF row
  <2>. QED
    <3>1. /\ DOMAIN action' = DOMAIN action \union {Len(action) + 1}
          /\ Len(action) + 1 \notin DOMAIN action /\ action'[Len(action) + 1] = row
          /\ \A i \in DOMAIN action : action'[i] = action[i]
      BY <2>1, <2>2, RowAppended DEF row
    <3>. QED
      BY <2>2, <3>1 DEF ActionStep
<1>3. ASSUME NEW c \in Clerks, UpdateActionStatus(c)
      PROVE  \A i \in DOMAIN action' : ActionStep(i)
  <2>1. /\ At(c, "action") /\ End(c)
    BY <1>3 DEF UpdateActionStatus
  <2>4. PICK given \in Days \union {None} :
             action' = [action EXCEPT ![req[c].id] =
                      update_compliance_action_status(action[req[c].id], req[c].to, given)]
    BY <1>3 DEF UpdateActionStatus
  <2>2. req[c].id \in DOMAIN action
    BY <2>1 DEF TypeInv, HeldOK, At
  <2>3. req'[c] = Idle
    BY <2>1, EndEffect DEF TypeInv
  <2>. QED
    BY <2>1, <2>2, <2>3, <2>4 DEF ActionStep
<1>. QED
  <2>1. ASSUME NEW c \in Clerks, StepOf(c)
        PROVE  action' = action \/ UpdateActionStatus(c)
    BY <2>1 DEF StepOf, compliance, AddRequirement, AddRequirementVersion
  <2>2. CASE StepOfNone
    BY <1>1, <1>2, <2>2
       DEF StepOfNone, Adds, compliance, AddApplicability, EndApplicability, AddInspection,
           import_compliance_inspection_row, UpdateStatusConfig
  <2>. QED
    BY <1>1, <1>3, <2>1, <2>2, Steps

LEMMA HazardActionSteps ==
  ASSUME TypeInv, [Next]_vars
  PROVE  \A i \in DOMAIN hazard_action' : HazardActionStep(i)
<1>. USE OldRows
<1>1. CASE hazard_action' = hazard_action
  BY <1>1 DEF HazardActionStep
<1>2. CASE AddHazardAction
  <2>1. PICK h \in DOMAIN hazard : hazard_action' = Append(hazard_action, create_hazard_action(h))
    BY <1>2 DEF AddHazardAction
  <2>. DEFINE row == create_hazard_action(h)
  <2>2. row \in HazardAction /\ row.status = "OPEN" /\ row.completed_date = None
    BY TableType DEF create_hazard_action, HazardAction, HazardActionStatus
  <2>. HIDE DEF row
  <2>. QED
    <3>1. /\ DOMAIN hazard_action' = DOMAIN hazard_action \union {Len(hazard_action) + 1}
          /\ Len(hazard_action) + 1 \notin DOMAIN hazard_action
          /\ hazard_action'[Len(hazard_action) + 1] = row
          /\ \A i \in DOMAIN hazard_action : hazard_action'[i] = hazard_action[i]
      BY <2>1, <2>2, RowAppended DEF row
    <3>. QED
      BY <2>2, <3>1 DEF HazardActionStep
<1>3. ASSUME NEW c \in Clerks, UpdateHazardActionStatus(c)
      PROVE  \A i \in DOMAIN hazard_action' : HazardActionStep(i)
  <2>1. /\ At(c, "remedial") /\ End(c)
    BY <1>3 DEF UpdateHazardActionStatus
  <2>4. PICK given \in Days \union {None} :
             hazard_action' = [hazard_action EXCEPT ![req[c].id] =
                      update_hazard_action_status(hazard_action[req[c].id], req[c].to, given)]
    BY <1>3 DEF UpdateHazardActionStatus
  <2>2. req[c].id \in DOMAIN hazard_action
    BY <2>1 DEF TypeInv, HeldOK, At
  <2>3. req'[c] = Idle
    BY <2>1, EndEffect DEF TypeInv
  <2>. QED
    BY <2>1, <2>2, <2>3, <2>4 DEF HazardActionStep
<1>. QED
  <2>1. ASSUME NEW c \in Clerks, StepOf(c)
        PROVE  hazard_action' = hazard_action \/ UpdateHazardActionStatus(c)
    BY <2>1 DEF StepOf, hazards, UpdateHazardStatus
  <2>2. CASE StepOfNone
    BY <1>1, <1>2, <2>2
       DEF StepOfNone, HazardAdds, hazards, AddHazard, UpdateHazardRuleConfig
  <2>. QED
    BY <1>1, <1>3, <2>1, <2>2, Steps

LEMMA RepairSteps ==
  ASSUME TypeInv, [Next]_vars
  PROVE  \A i \in DOMAIN repair' : RepairStep(i)
<1>. USE OldRows
<1>1. CASE repair' = repair
  BY <1>1 DEF RepairStep
<1>2. CASE AddRepair \/ import_repair_row
  <2>1. PICK p \in Properties, x \in Components \union {NoComponent},
             priority \in Priorities \union {"ROUTINE"}, reported \in Days :
             repair' = Append(repair, create_repair(p, x, priority, reported))
    BY <1>2 DEF AddRepair, import_repair_row
  <2>. DEFINE row == create_repair(p, x, priority, reported)
  <2>2. row \in Repair /\ row.status = "REPORTED" /\ row.completed_date = None
    BY DEF create_repair, Repair, RepairStatus
  <2>. HIDE DEF row
  <2>. QED
    <3>1. /\ DOMAIN repair' = DOMAIN repair \union {Len(repair) + 1}
          /\ Len(repair) + 1 \notin DOMAIN repair /\ repair'[Len(repair) + 1] = row
          /\ \A i \in DOMAIN repair : repair'[i] = repair[i]
      BY <2>1, <2>2, RowAppended DEF row
    <3>. QED
      BY <2>2, <3>1 DEF RepairStep
<1>3. ASSUME NEW c \in Clerks, UpdateRepairStatus(c)
      PROVE  \A i \in DOMAIN repair' : RepairStep(i)
  <2>1. /\ At(c, "repair") /\ End(c)
    BY <1>3 DEF UpdateRepairStatus
  <2>4. PICK given \in Days \union {None} :
             repair' = [repair EXCEPT ![req[c].id] =
                      update_repair_status(repair[req[c].id], req[c].to, given)]
    BY <1>3 DEF UpdateRepairStatus
  <2>2. req[c].id \in DOMAIN repair
    BY <2>1 DEF TypeInv, HeldOK, At
  <2>3. req'[c] = Idle
    BY <2>1, EndEffect DEF TypeInv
  <2>. QED
    BY <2>1, <2>2, <2>3, <2>4 DEF RepairStep
<1>. QED
  <2>1. ASSUME NEW c \in Clerks, StepOf(c)
        PROVE  repair' = repair \/ UpdateRepairStatus(c)
    BY <2>1 DEF StepOf, repairs
  <2>2. CASE StepOfNone
    BY <1>1, <1>2, <2>2
       DEF StepOfNone, RepairAdds, repairs, UpdateRepairRuleConfig
  <2>. QED
    BY <1>1, <1>3, <2>1, <2>2, Steps

-----------------------------------------------------------------------------
(* Completion dates *)

\* The transition a request found legal when it began is still legal.
Legal(c) ==
    LET r == req[c] IN
    /\ r.pc = "action" /\ <<"compliance_action", r.id>> \notin raced =>
          r.to \in COMPLIANCE_ACTION_TRANSITIONS[action[r.id].status]
    /\ r.pc = "remedial" /\ <<"hazard_action", r.id>> \notin raced =>
          r.to \in HAZARD_ACTION_TRANSITIONS[hazard_action[r.id].status]
    /\ r.pc = "repair" /\ <<"repair", r.id>> \notin raced =>
          r.to \in REPAIR_TRANSITIONS[repair[r.id].status]

DateInv == DatedIffCompleted /\ \A c \in Clerks : Legal(c)

\* A completed row goes nowhere else.
LEMMA CompletedIsFinal ==
  /\ \A s \in ComplianceActionStatus : \A to : to \in COMPLIANCE_ACTION_TRANSITIONS[s] => s # "COMPLETED"
  /\ \A s \in HazardActionStatus : \A to : to \in HAZARD_ACTION_TRANSITIONS[s] => s # "COMPLETED"
  /\ \A s \in RepairStatus : \A to : to \in REPAIR_TRANSITIONS[s] => s # "COMPLETED"
  BY DEF COMPLIANCE_ACTION_TRANSITIONS, HAZARD_ACTION_TRANSITIONS, REPAIR_TRANSITIONS

\* No request but one holds a row that was not raced.
LEMMA HeldAlone ==
  ASSUME KeyInv, NEW c \in Clerks, NEW d \in Clerks, ~At(c, "idle"), ~At(d, "idle"),
         NEW k, k \in req[c].keys, k \in req[d].keys, k \notin raced
  PROVE  c = d
  BY DEF KeyInv

LEMMA LegalNext ==
  ASSUME TypeInv, KeyInv, DateInv, [Next]_vars, NEW d \in Clerks
  PROVE  Legal(d)'
<1>. USE Requested, BegunAs
<1>0. /\ raced \subseteq raced' /\ Grow /\ TypeInv'
      /\ HeldOK(d) /\ HeldOK(d)' /\ Legal(d)
  BY TypeNext, KeptNext DEF TypeInv, DateInv
<1>1. ASSUME req'[d].pc = "action", <<"compliance_action", req'[d].id>> \notin raced'
      PROVE  req'[d].to \in COMPLIANCE_ACTION_TRANSITIONS[action'[req'[d].id].status]
  <2>1. CASE req'[d] = req[d]
    <3>1. req[d].id \in DOMAIN action /\ req[d].id \in DOMAIN action'
      BY <1>0, <1>1, <2>1 DEF HeldOK, Grow
    <3>2. ~\E c \in Clerks : At(c, "action") /\ req[d].id = req[c].id /\ req'[c] = Idle
      <4>1. SUFFICES ASSUME NEW c \in Clerks, At(c, "action"), req[d].id = req[c].id,
                            req'[c] = Idle
                     PROVE  FALSE
        OBVIOUS
      <4>2. /\ <<"compliance_action", req[d].id>> \in req[c].keys
            /\ <<"compliance_action", req[d].id>> \in req[d].keys
        BY <1>1, <2>1, <4>1 DEF At, HeldOK, TypeInv
      <4>3. ~At(c, "idle") /\ ~At(d, "idle")
        BY <1>1, <2>1, <4>1 DEF At
      <4>4. c = d
        BY <1>0, <1>1, <2>1, <4>2, <4>3, HeldAlone
      <4>. QED
        BY <1>1, <4>1, <4>4 DEF Idle
    <3>3. action'[req[d].id] = action[req[d].id]
      BY <3>1, <3>2, ActionSteps DEF ActionStep
    <3>. QED
      BY <1>0, <1>1, <2>1, <3>3 DEF Legal
  <2>2. CASE BeginActionStatus(d)
    <3>1. PICK a \in DOMAIN action, to \in ComplianceActionStatus :
             /\ to \in COMPLIANCE_ACTION_TRANSITIONS[action[a].status]
             /\ Hold(d, [pc |-> "action", keys |-> {<<"compliance_action", a>>},
                         id |-> a, to |-> to])
      BY <2>2 DEF BeginActionStatus
    <3>2. req'[d].id = a /\ req'[d].to = to /\ action' = action
      BY <2>2, <3>1, HoldEffect DEF BeginActionStatus, compliance, TypeInv
    <3>. QED
      BY <3>1, <3>2
  <2>. QED
    BY <1>1, <2>1, <2>2 DEF Idle
<1>2. ASSUME req'[d].pc = "remedial", <<"hazard_action", req'[d].id>> \notin raced'
      PROVE  req'[d].to \in HAZARD_ACTION_TRANSITIONS[hazard_action'[req'[d].id].status]
  <2>1. CASE req'[d] = req[d]
    <3>1. req[d].id \in DOMAIN hazard_action /\ req[d].id \in DOMAIN hazard_action'
      BY <1>0, <1>2, <2>1 DEF HeldOK, Grow
    <3>2. ~\E c \in Clerks : At(c, "remedial") /\ req[d].id = req[c].id /\ req'[c] = Idle
      <4>1. SUFFICES ASSUME NEW c \in Clerks, At(c, "remedial"), req[d].id = req[c].id,
                            req'[c] = Idle
                     PROVE  FALSE
        OBVIOUS
      <4>2. /\ <<"hazard_action", req[d].id>> \in req[c].keys
            /\ <<"hazard_action", req[d].id>> \in req[d].keys
        BY <1>2, <2>1, <4>1 DEF At, HeldOK, TypeInv
      <4>3. ~At(c, "idle") /\ ~At(d, "idle")
        BY <1>2, <2>1, <4>1 DEF At
      <4>4. c = d
        BY <1>0, <1>2, <2>1, <4>2, <4>3, HeldAlone
      <4>. QED
        BY <1>2, <4>1, <4>4 DEF Idle
    <3>3. hazard_action'[req[d].id] = hazard_action[req[d].id]
      BY <3>1, <3>2, HazardActionSteps DEF HazardActionStep
    <3>. QED
      BY <1>0, <1>2, <2>1, <3>3 DEF Legal
  <2>2. CASE BeginHazardActionStatus(d)
    <3>1. PICK a \in DOMAIN hazard_action, to \in HazardActionStatus :
             /\ to \in HAZARD_ACTION_TRANSITIONS[hazard_action[a].status]
             /\ Hold(d, [pc |-> "remedial", keys |-> {<<"hazard_action", a>>},
                         id |-> a, to |-> to])
      BY <2>2 DEF BeginHazardActionStatus
    <3>2. req'[d].id = a /\ req'[d].to = to /\ hazard_action' = hazard_action
      BY <2>2, <3>1, HoldEffect DEF BeginHazardActionStatus, hazards, TypeInv
    <3>. QED
      BY <3>1, <3>2
  <2>. QED
    BY <1>2, <2>1, <2>2 DEF Idle
<1>3. ASSUME req'[d].pc = "repair", <<"repair", req'[d].id>> \notin raced'
      PROVE  req'[d].to \in REPAIR_TRANSITIONS[repair'[req'[d].id].status]
  <2>1. CASE req'[d] = req[d]
    <3>1. req[d].id \in DOMAIN repair /\ req[d].id \in DOMAIN repair'
      BY <1>0, <1>3, <2>1 DEF HeldOK, Grow
    <3>2. ~\E c \in Clerks : At(c, "repair") /\ req[d].id = req[c].id /\ req'[c] = Idle
      <4>1. SUFFICES ASSUME NEW c \in Clerks, At(c, "repair"), req[d].id = req[c].id,
                            req'[c] = Idle
                     PROVE  FALSE
        OBVIOUS
      <4>2. /\ <<"repair", req[d].id>> \in req[c].keys
            /\ <<"repair", req[d].id>> \in req[d].keys
        BY <1>3, <2>1, <4>1 DEF At, HeldOK, TypeInv
      <4>3. ~At(c, "idle") /\ ~At(d, "idle")
        BY <1>3, <2>1, <4>1 DEF At
      <4>4. c = d
        BY <1>0, <1>3, <2>1, <4>2, <4>3, HeldAlone
      <4>. QED
        BY <1>3, <4>1, <4>4 DEF Idle
    <3>3. repair'[req[d].id] = repair[req[d].id]
      BY <3>1, <3>2, RepairSteps DEF RepairStep
    <3>. QED
      BY <1>0, <1>3, <2>1, <3>3 DEF Legal
  <2>2. CASE BeginRepairStatus(d)
    <3>1. PICK i \in DOMAIN repair, to \in RepairStatus :
             /\ to \in REPAIR_TRANSITIONS[repair[i].status]
             /\ Hold(d, [pc |-> "repair", keys |-> {<<"repair", i>>}, id |-> i, to |-> to])
      BY <2>2 DEF BeginRepairStatus
    <3>2. req'[d].id = i /\ req'[d].to = to /\ repair' = repair
      BY <2>2, <3>1, HoldEffect DEF BeginRepairStatus, repairs, TypeInv
    <3>. QED
      BY <3>1, <3>2
  <2>. QED
    BY <1>3, <2>1, <2>2 DEF Idle
<1>. QED
  BY <1>1, <1>2, <1>3 DEF Legal

LEMMA DatesNext ==
  ASSUME TypeInv, DateInv, [Next]_vars
  PROVE  DatedIffCompleted'
<1>. USE OldRows
<1>0. raced \subseteq raced' /\ today # None /\ \A c \in Clerks : Legal(c)
  BY Requested, DaysOnly DEF DateInv
<1>1. ASSUME NEW i \in DOMAIN action', <<"compliance_action", i>> \notin raced'
      PROVE  action'[i].completed_date # None <=> action'[i].status = "COMPLETED"
  <2>1. CASE i \in DOMAIN action /\ action'[i] = action[i]
    BY <1>0, <1>1, <2>1 DEF DateInv, DatedIffCompleted
  <2>2. CASE action'[i].status = "OPEN" /\ action'[i].completed_date = None
    BY <2>2
  <2>3. ASSUME NEW c \in Clerks, At(c, "action"), i = req[c].id, i \in DOMAIN action,
               NEW given \in Days \union {None}, action'[i] = update_compliance_action_status(action[i], req[c].to, given)
        PROVE  action'[i].completed_date # None <=> action'[i].status = "COMPLETED"
    <3>1. action[i] \in ComplianceAction
      BY <2>3, TableType
    <3>2. action[i].status # "COMPLETED" /\ action[i].status \in ComplianceActionStatus
      BY <1>0, <1>1, <2>3, <3>1, CompletedIsFinal DEF Legal, At, ComplianceAction
    <3>3. action[i].completed_date = None
      BY <1>0, <1>1, <2>3, <3>2 DEF DateInv, DatedIffCompleted
    <3>. QED
      BY <1>0, <2>3, <3>1, <3>3 DEF update_compliance_action_status, OrToday, ComplianceAction
  <2>. QED
    BY <2>1, <2>2, <2>3, ActionSteps DEF ActionStep
<1>2. ASSUME NEW i \in DOMAIN hazard_action', <<"hazard_action", i>> \notin raced'
      PROVE  hazard_action'[i].completed_date # None <=> hazard_action'[i].status = "COMPLETED"
  <2>1. CASE i \in DOMAIN hazard_action /\ hazard_action'[i] = hazard_action[i]
    BY <1>0, <1>2, <2>1 DEF DateInv, DatedIffCompleted
  <2>2. CASE hazard_action'[i].status = "OPEN" /\ hazard_action'[i].completed_date = None
    BY <2>2
  <2>3. ASSUME NEW c \in Clerks, At(c, "remedial"), i = req[c].id, i \in DOMAIN hazard_action,
               NEW given \in Days \union {None}, hazard_action'[i] = update_hazard_action_status(hazard_action[i], req[c].to, given)
        PROVE  hazard_action'[i].completed_date # None <=> hazard_action'[i].status = "COMPLETED"
    <3>1. hazard_action[i] \in HazardAction
      BY <2>3, TableType
    <3>2. hazard_action[i].status # "COMPLETED" /\ hazard_action[i].status \in HazardActionStatus
      BY <1>0, <1>2, <2>3, <3>1, CompletedIsFinal DEF Legal, At, HazardAction
    <3>3. hazard_action[i].completed_date = None
      BY <1>0, <1>2, <2>3, <3>2 DEF DateInv, DatedIffCompleted
    <3>. QED
      BY <1>0, <2>3, <3>1, <3>3 DEF update_hazard_action_status, OrToday, HazardAction
  <2>. QED
    BY <2>1, <2>2, <2>3, HazardActionSteps DEF HazardActionStep
<1>3. ASSUME NEW i \in DOMAIN repair', <<"repair", i>> \notin raced'
      PROVE  repair'[i].completed_date # None <=> repair'[i].status = "COMPLETED"
  <2>1. CASE i \in DOMAIN repair /\ repair'[i] = repair[i]
    BY <1>0, <1>3, <2>1 DEF DateInv, DatedIffCompleted
  <2>2. CASE repair'[i].status = "REPORTED" /\ repair'[i].completed_date = None
    BY <2>2
  <2>3. ASSUME NEW c \in Clerks, At(c, "repair"), i = req[c].id, i \in DOMAIN repair,
               NEW given \in Days \union {None}, repair'[i] = update_repair_status(repair[i], req[c].to, given)
        PROVE  repair'[i].completed_date # None <=> repair'[i].status = "COMPLETED"
    <3>1. repair[i] \in Repair
      BY <2>3, TableType
    <3>2. repair[i].status # "COMPLETED" /\ repair[i].status \in RepairStatus
      BY <1>0, <1>3, <2>3, <3>1, CompletedIsFinal DEF Legal, At, Repair
    <3>3. repair[i].completed_date = None
      BY <1>0, <1>3, <2>3, <3>2 DEF DateInv, DatedIffCompleted
    <3>. QED
      BY <1>0, <2>3, <3>1, <3>3 DEF update_repair_status, OrToday, Repair
  <2>. QED
    BY <2>1, <2>2, <2>3, RepairSteps DEF RepairStep
<1>. QED
  BY <1>1, <1>2, <1>3 DEF DatedIffCompleted

\* A completion date stands on the completed rows of the three registers and on no other,
\* unless two status requests on the row overlapped.
THEOREM OperationsDates == Spec => []DatedIffCompleted
<1>1. Init => KeyInv /\ DateInv
  BY DEF Init, RequestsInit, ComplianceInit, HazardsInit, RepairsInit, KeyInv, DateInv,
         DatedIffCompleted, Legal, At, Idle
<1>2. TypeInv /\ KeyInv /\ DateInv /\ [Next]_vars => (TypeInv /\ KeyInv /\ DateInv)'
  <2>1. TypeInv /\ KeyInv /\ DateInv /\ [Next]_vars => DateInv'
    BY LegalNext, DatesNext DEF DateInv
  <2>. QED
    BY <2>1, TypeNext, KeyNext DEF TypeInv
<1>3. DateInv => DatedIffCompleted
  BY DEF DateInv
<1>. QED
  BY <1>1, <1>2, <1>3, TypeInit, PTL DEF Spec

-----------------------------------------------------------------------------
(* Versions of a requirement *)

\* The rows of a lineage are one chain of versions, of which the last alone is current.
Chain(d, code) ==
    LET rows == Lineage(d, code)  n == Cardinality(rows) IN
    /\ {requirement[r].version : r \in rows} = 1..n
    /\ \A r \in rows : (requirement[r].superseded_date = None) <=> (requirement[r].version = n)
    /\ \A x, y \in rows : requirement[x].version = requirement[y].version => x = y

\* What a request checked of the lineage when it began still stands.
Fresh(c) ==
    LET r == req[c] IN
    /\ r.pc = "requirement" /\ LineageKey(r.row.domain, r.row.code) \notin raced =>
          ~Duplicate(r.row.domain, r.row.code)
    /\ r.pc = "version" /\ KeyOf(r.id) \notin raced => Versionable(r.id)

VersionInv ==
    /\ \A d \in Domains, code \in Codes : LineageKey(d, code) \notin raced => Chain(d, code)
    /\ \A c \in Clerks : Fresh(c)

\* A step leaves the lineage as it is.
Unmoved(d, code) ==
    /\ Lineage(d, code)' = Lineage(d, code)
    /\ \A x \in Lineage(d, code) : requirement'[x] = requirement[x]

LEMMA LineageFinite ==
  ASSUME TypeInv, NEW d, NEW code
  PROVE  /\ IsFiniteSet(Lineage(d, code)) /\ Cardinality(Lineage(d, code)) \in Nat
         /\ Lineage(d, code) \subseteq DOMAIN requirement
         /\ \A r \in Lineage(d, code) : requirement[r] \in ComplianceRequirement
<1>1. Lineage(d, code) \in SUBSET DOMAIN requirement
  BY DEF Lineage, Requirements
<1>2. IsFiniteSet(DOMAIN requirement)
      /\ \A r \in DOMAIN requirement : requirement[r] \in ComplianceRequirement
  BY OldRows, TableType
<1>. QED
  BY <1>1, <1>2, FS_Subset, FS_CardinalityType

\* A lineage that is a chain and has a row has a current one.
LEMMA ChainHasCurrent ==
  ASSUME TypeInv, NEW d, NEW code, Chain(d, code), ~Duplicate(d, code)
  PROVE  Lineage(d, code) = {}
<1>. DEFINE rows == Lineage(d, code)  n == Cardinality(rows)
<1>1. SUFFICES ASSUME NEW x \in rows PROVE FALSE
  OBVIOUS
<1>2. n \in Nat /\ {requirement[r].version : r \in rows} = 1..n
  BY LineageFinite DEF Chain
<1>3. requirement[x].version \in 1..n
  BY <1>2
<1>. HIDE DEF n
<1>4. n \in 1..n
  BY <1>2, <1>3
<1>5. PICK r \in rows : requirement[r].version = n
  BY <1>2, <1>4
<1>6. requirement[r].superseded_date = None
  BY <1>5 DEF Chain, n
<1>7. r \in list_requirements(TRUE)
  BY <1>6 DEF list_requirements, Lineage
<1>. QED
  BY <1>7 DEF Duplicate

LEMMA ChainUnmoved ==
  ASSUME NEW d, NEW code, Chain(d, code), Unmoved(d, code)
  PROVE  Chain(d, code)'
<1>. DEFINE rows == Lineage(d, code)
<1>1. /\ Lineage(d, code)' = rows /\ \A x \in rows : requirement'[x] = requirement[x]
  BY DEF Unmoved
<1>2. {requirement'[r].version : r \in rows} = {requirement[r].version : r \in rows}
  BY <1>1
<1>. HIDE DEF rows
<1>. QED
  BY <1>1, <1>2 DEF Chain, rows

\* The requirement a request adds, and the version it makes: one row more, of its lineage.
LEMMA AddedRequirement ==
  ASSUME TypeInv, NEW e \in Clerks, AddRequirement(e)
  PROVE  \E d0 \in Domains, c0 \in Codes, m \in Nat :
         /\ req[e].row.domain = d0 /\ req[e].row.code = c0 /\ req[e].pc = "requirement"
         /\ req[e].keys = {LineageKey(d0, c0)} /\ m \notin Requirements
         /\ \A d, code : (d # d0 \/ code # c0) => Unmoved(d, code)
         /\ Lineage(d0, c0)' = Lineage(d0, c0) \union {m}
         /\ \A x \in Requirements : requirement'[x] = requirement[x]
         /\ requirement'[m].version = 1 /\ requirement'[m].superseded_date = None
<1>1. /\ requirement' = Append(requirement, req[e].row) /\ req[e].pc = "requirement"
      /\ HeldOK(e)
  BY DEF AddRequirement, At, TypeInv
<1>2. PICK d0 \in Domains, c0 \in Codes, hard \in BOOLEAN :
              req[e].row = create_requirement(d0, c0, hard)
  BY <1>1 DEF HeldOK
<1>. DEFINE row == create_requirement(d0, c0, hard)
<1>3. /\ row.domain = d0 /\ row.code = c0 /\ row.version = 1 /\ row.superseded_date = None
      /\ row \in ComplianceRequirement
  BY DEF create_requirement, ComplianceRequirement
<1>4. req[e].keys = {LineageKey(d0, c0)} /\ req[e].row = row
  BY <1>1, <1>2, <1>3 DEF HeldOK
<1>. HIDE DEF row
<1>. DEFINE m == Len(requirement) + 1
<1>5. /\ m \in Nat /\ m \notin Requirements /\ Requirements' = Requirements \union {m}
      /\ requirement'[m] = row /\ \A x \in Requirements : requirement'[x] = requirement[x]
  BY <1>1, <1>3, <1>4, RowAppended, OldRows DEF Requirements
<1>. HIDE DEF m
<1>6. Lineage(d0, c0)' = Lineage(d0, c0) \union {m}
  BY <1>3, <1>5 DEF Lineage
<1>7. ASSUME NEW d, NEW code, d # d0 \/ code # c0 PROVE Unmoved(d, code)
  BY <1>3, <1>5, <1>7 DEF Unmoved, Lineage
<1>. QED
  BY <1>1, <1>3, <1>4, <1>5, <1>6, <1>7

LEMMA AddedVersion ==
  ASSUME TypeInv, NEW e \in Clerks, AddRequirementVersion(e)
  PROVE  \E d0 \in Domains, c0 \in Codes, m \in Nat, r \in Requirements :
         /\ req[e].pc = "version" /\ req[e].id = r
         /\ requirement[r].domain = d0 /\ requirement[r].code = c0
         /\ req[e].keys = {LineageKey(d0, c0)} /\ m \notin Requirements
         /\ \A d, code : (d # d0 \/ code # c0) => Unmoved(d, code)
         /\ Lineage(d0, c0)' = Lineage(d0, c0) \union {m}
         /\ \A x \in Requirements : /\ requirement'[x].version = requirement[x].version
                                    /\ x # r => requirement'[x] = requirement[x]
         /\ requirement'[r].superseded_date # None
         /\ requirement'[m].version = requirement[r].version + 1
         /\ requirement'[m].superseded_date = None
<1>. DEFINE r == req[e].id
            day == req[e].effective
            old == [requirement[r] EXCEPT !.superseded_date = day]
            new == [requirement[r] EXCEPT !.version = @ + 1, !.hard_deadline = req[e].hard,
                                          !.superseded_date = None]
            left == [requirement EXCEPT ![r] = old]
            m == Len(requirement) + 1
<1>1. /\ requirement' = Append(left, new) /\ req[e].pc = "version" /\ HeldOK(e)
  BY DEF AddRequirementVersion, At, TypeInv, create_requirement_version
<1>2. /\ r \in Requirements /\ day \in Days /\ req[e].hard \in BOOLEAN /\ req[e].keys = {KeyOf(r)}
  BY <1>1 DEF HeldOK
<1>3. requirement[r] \in ComplianceRequirement
  BY <1>2, OldRows, TableType DEF Requirements
<1>4. requirement[r].version + 1 \in Nat \ {0} /\ None # day
  BY <1>2, <1>3, DaysOnly DEF ComplianceRequirement
<1>5. /\ old \in ComplianceRequirement /\ new \in ComplianceRequirement
      /\ old.domain = requirement[r].domain /\ old.code = requirement[r].code
      /\ old.version = requirement[r].version /\ old.superseded_date = day
      /\ new.domain = requirement[r].domain /\ new.code = requirement[r].code
      /\ new.version = requirement[r].version + 1 /\ new.superseded_date = None
  <2>. DEFINE row == requirement[r]  next == requirement[r].version + 1  hard == req[e].hard
  <2>1. old = [row EXCEPT !.superseded_date = day]
        /\ new = [row EXCEPT !.version = next, !.hard_deadline = hard, !.superseded_date = None]
    OBVIOUS
  <2>2. row \in ComplianceRequirement /\ day \in Days /\ next \in Nat \ {0} /\ hard \in BOOLEAN
    BY <1>2, <1>3, <1>4
  <2>. HIDE DEF row, hard, day, old, new, next
  <2>3. /\ new \in ComplianceRequirement /\ old \in ComplianceRequirement
        /\ old.domain = row.domain /\ old.code = row.code
        /\ old.version = row.version /\ old.superseded_date = day
        /\ new.domain = row.domain /\ new.code = row.code
        /\ new.version = next /\ new.superseded_date = None
    BY <2>1, <2>2 DEF ComplianceRequirement
  <2>. QED
    BY <2>3 DEF row, next
<1>. HIDE DEF old, new, day
<1>6. /\ left \in Seq(ComplianceRequirement) /\ DOMAIN left = Requirements
      /\ Len(left) = Len(requirement)
      /\ left[r] = old /\ \A x \in Requirements : x # r => left[x] = requirement[x]
  BY <1>2, <1>5, OldRows, RowWritten DEF Requirements
<1>. HIDE DEF left
<1>7. /\ m \in Nat /\ m \notin Requirements /\ Requirements' = Requirements \union {m}
      /\ requirement'[m] = new /\ \A x \in Requirements : requirement'[x] = left[x]
  BY <1>1, <1>5, <1>6, RowAppended DEF Requirements
<1>. HIDE DEF m
<1>8. PICK d0 \in Domains, c0 \in Codes :
            requirement[r].domain = d0 /\ requirement[r].code = c0
  BY <1>3 DEF ComplianceRequirement
<1>8a. KeyOf(r) = LineageKey(d0, c0)
  BY <1>8 DEF KeyOf
<1>. HIDE DEF r
<1>9. /\ requirement'[r] = old /\ \A x \in Requirements : x # r => requirement'[x] = requirement[x]
  BY <1>2, <1>6, <1>7
<1>10. Lineage(d0, c0)' = Lineage(d0, c0) \union {m}
  <2>1. ASSUME NEW x \in Requirements
        PROVE  requirement'[x].domain = requirement[x].domain
               /\ requirement'[x].code = requirement[x].code
    BY <1>5, <1>9
  <2>2. requirement'[m].domain = d0 /\ requirement'[m].code = c0
    BY <1>5, <1>7, <1>8
  <2>3. Lineage(d0, c0)' = {x \in Requirements' : requirement'[x].domain = d0
                                                /\ requirement'[x].code = c0}
    BY DEF Lineage
  <2>. QED
    BY <1>7, <1>8, <2>1, <2>2, <2>3 DEF Lineage
<1>11. ASSUME NEW d, NEW code, d # d0 \/ code # c0 PROVE Unmoved(d, code)
  <2>1. ASSUME NEW x \in Requirements
        PROVE  requirement'[x].domain = requirement[x].domain
               /\ requirement'[x].code = requirement[x].code
    BY <1>5, <1>9
  <2>2. r \notin Lineage(d, code)
    BY <1>8, <1>11 DEF Lineage
  <2>3. m \notin Lineage(d, code)'
    BY <1>5, <1>7, <1>8, <1>11 DEF Lineage
  <2>. QED
    BY <1>7, <1>9, <2>1, <2>2, <2>3 DEF Unmoved, Lineage
<1>. QED
  <2>1. /\ \A x \in Requirements : /\ requirement'[x].version = requirement[x].version
                                   /\ x # r => requirement'[x] = requirement[x]
        /\ requirement'[r].superseded_date # None
    BY <1>4, <1>5, <1>9
  <2>2. /\ requirement'[m].version = requirement[r].version + 1
        /\ requirement'[m].superseded_date = None
    BY <1>5, <1>7
  <2>3. req[e].id = r /\ req[e].pc = "version" /\ req[e].keys = {LineageKey(d0, c0)}
    BY <1>1, <1>2, <1>8a DEF r
  <2>. QED
    BY <1>2, <1>7, <1>8, <1>10, <1>11, <2>1, <2>2, <2>3

LEMMA LineageKeys ==
  ASSUME NEW d1, NEW c1, NEW d2, NEW c2
  PROVE  LineageKey(d1, c1) = LineageKey(d2, c2) <=> d1 = d2 /\ c1 = c2
  BY DEF LineageKey

\* A step leaves the table of requirements as it is, or a request adds a row to one lineage.
LEMMA RequirementSteps ==
  ASSUME TypeInv, [Next]_vars
  PROVE  \/ requirement' = requirement
         \/ \E e \in Clerks : AddRequirement(e) \/ AddRequirementVersion(e)
<1>1. ASSUME NEW c \in Clerks, StepOf(c)
      PROVE  \/ requirement' = requirement
             \/ AddRequirement(c) \/ AddRequirementVersion(c)
  BY <1>1 DEF StepOf, compliance, UpdateActionStatus
<1>2. CASE StepOfNone
  BY <1>2
     DEF StepOfNone, Adds, compliance, AddApplicability, EndApplicability, AddInspection,
         AddAction, import_compliance_inspection_row, UpdateStatusConfig
<1>. QED
  BY <1>1, <1>2, Steps

LEMMA ChainNext ==
  ASSUME TypeInv, VersionInv, [Next]_vars, NEW d \in Domains, NEW code \in Codes,
         LineageKey(d, code) \notin raced'
  PROVE  Chain(d, code)'
<1>. DEFINE rows == Lineage(d, code)  n == Cardinality(rows)
<1>1. raced \subseteq raced' /\ Chain(d, code) /\ \A c \in Clerks : Fresh(c)
  BY Requested DEF VersionInv
<1>2. CASE requirement' = requirement
  BY <1>1, <1>2, ChainUnmoved DEF Unmoved, Lineage, Requirements
<1>3. /\ IsFiniteSet(rows) /\ n \in Nat /\ rows \subseteq DOMAIN requirement
      /\ rows \subseteq Requirements
      /\ {requirement[r].version : r \in rows} = 1..n
      /\ \A r \in rows : (requirement[r].superseded_date = None)
                               <=> (requirement[r].version = n)
      /\ \A x, y \in rows : requirement[x].version = requirement[y].version => x = y
  BY <1>1, LineageFinite DEF Chain, Requirements
<1>4. ASSUME NEW e \in Clerks, AddRequirement(e) PROVE Chain(d, code)'
  <2>1. PICK d0 \in Domains, c0 \in Codes, m \in Nat :
         /\ req[e].row.domain = d0 /\ req[e].row.code = c0 /\ req[e].pc = "requirement"
         /\ req[e].keys = {LineageKey(d0, c0)} /\ m \notin Requirements
         /\ \A dd, cc : (dd # d0 \/ cc # c0) => Unmoved(dd, cc)
         /\ Lineage(d0, c0)' = Lineage(d0, c0) \union {m}
         /\ \A x \in Requirements : requirement'[x] = requirement[x]
         /\ requirement'[m].version = 1 /\ requirement'[m].superseded_date = None
    BY <1>4, AddedRequirement
  <2>2. CASE d # d0 \/ code # c0
    BY <1>1, <2>1, <2>2, ChainUnmoved
  <2>3. CASE d = d0 /\ code = c0
    <3>1. Lineage(d, code) = {}
      BY <1>1, <2>1, <2>3, ChainHasCurrent DEF Fresh
    <3>2. Lineage(d, code)' = {m}
      BY <2>1, <2>3, <3>1
    <3>3. Cardinality({m}) = 1
      BY FS_Singleton
    <3>4. {requirement'[r].version : r \in {m}} = 1..1
      BY <2>1
    <3>. QED
      BY <2>1, <3>2, <3>3, <3>4 DEF Chain
  <2>. QED
    BY <2>2, <2>3
<1>5. ASSUME NEW e \in Clerks, AddRequirementVersion(e) PROVE Chain(d, code)'
  <2>1. PICK d0 \in Domains, c0 \in Codes, m \in Nat, r \in Requirements :
         /\ req[e].pc = "version" /\ req[e].id = r
         /\ requirement[r].domain = d0 /\ requirement[r].code = c0
         /\ req[e].keys = {LineageKey(d0, c0)} /\ m \notin Requirements
         /\ \A dd, cc : (dd # d0 \/ cc # c0) => Unmoved(dd, cc)
         /\ Lineage(d0, c0)' = Lineage(d0, c0) \union {m}
         /\ \A x \in Requirements : /\ requirement'[x].version = requirement[x].version
                                    /\ x # r => requirement'[x] = requirement[x]
         /\ requirement'[r].superseded_date # None
         /\ requirement'[m].version = requirement[r].version + 1
         /\ requirement'[m].superseded_date = None
    BY <1>5, AddedVersion
  <2>2. CASE d # d0 \/ code # c0
    BY <1>1, <2>1, <2>2, ChainUnmoved
  <2>3. CASE d = d0 /\ code = c0
    <3>1. r \in rows /\ requirement[r].superseded_date = None
      BY <1>1, <2>1, <2>3 DEF Fresh, KeyOf, Lineage, Versionable
    <3>2. requirement[r].version = n
      BY <1>3, <3>1
    <3>10. ASSUME NEW x \in rows
           PROVE  /\ requirement'[x].version = requirement[x].version
                  /\ x # r => requirement'[x] = requirement[x]
      <4>1. x \in Requirements
        BY <1>3
      <4>. QED
        BY <2>1, <4>1
    <3>3. Lineage(d, code)' = rows \union {m} /\ m \notin rows
      BY <1>3, <2>1, <2>3
    <3>4. Cardinality(rows \union {m}) = n + 1
      BY <1>3, <3>3, FS_AddElement
    <3>. DEFINE all == rows \union {m}  Version(x) == requirement'[x].version
    <3>5. /\ Version(m) = n + 1
          /\ \A x \in rows : Version(x) = requirement[x].version /\ Version(x) \in 1..n
      <4>1. \A x \in rows : requirement[x].version \in 1..n
        BY <1>3
      <4>2. \A x \in rows : requirement'[x].version = requirement[x].version
        BY <3>10
      <4>. HIDE DEF n, rows
      <4>. QED
        BY <2>1, <3>2, <4>1, <4>2
    <3>6. {Version(x) : x \in all} = 1..n + 1
      <4>1. {Version(x) : x \in all} = {Version(x) : x \in rows} \union {Version(m)}
        OBVIOUS
      <4>2. {Version(x) : x \in rows} = {requirement[x].version : x \in rows}
        BY <3>5
      <4>. HIDE DEF n
      <4>. QED
        BY <1>3, <3>5, <4>1, <4>2
    <3>7. ASSUME NEW x \in all
          PROVE  (requirement'[x].superseded_date = None) <=> (Version(x) = n + 1)
      <4>. HIDE DEF n
      <4>1. CASE x = m
        BY <2>1, <3>5, <4>1
      <4>2. CASE x = r
        BY <1>3, <2>1, <3>1, <3>5, <4>2
      <4>3. CASE x \in rows /\ x # r
        <5>1. requirement'[x] = requirement[x]
          BY <3>10, <4>3
        <5>2. requirement[x].version # n
          BY <1>3, <3>1, <3>2, <4>3
        <5>3. requirement[x].superseded_date # None /\ Version(x) \in 1..n
          BY <1>3, <3>5, <4>3, <5>2
        <5>. QED
          BY <1>3, <5>1, <5>3
      <4>. QED
        BY <4>1, <4>2, <4>3
    <3>8. ASSUME NEW x \in all, NEW y \in all, Version(x) = Version(y) PROVE x = y
      <4>. HIDE DEF n
      <4>. QED
        BY <1>3, <3>5, <3>8
    <3>. HIDE DEF all, n
    <3>9. Lineage(d, code)' = all /\ Cardinality(all) = n + 1
      BY <3>3, <3>4 DEF all
    <3>. QED
      BY <3>6, <3>7, <3>8, <3>9 DEF Chain
  <2>. QED
    BY <2>2, <2>3
<1>. QED
  BY <1>2, <1>4, <1>5, RequirementSteps

LEMMA FreshNext ==
  ASSUME TypeInv, KeyInv, VersionInv, [Next]_vars, NEW c \in Clerks
  PROVE  Fresh(c)'
<1>1. raced \subseteq raced' /\ HeldOK(c) /\ Fresh(c) /\ Grow
  BY Requested, KeptNext DEF TypeInv, VersionInv
\* Nobody else writes the lineage that a request not raced holds.
<1>2. ASSUME NEW d, NEW code, LineageKey(d, code) \in req[c].keys, ~At(c, "idle"),
             LineageKey(d, code) \notin raced, req'[c] = req[c]
      PROVE  Unmoved(d, code)
  <2>1. CASE requirement' = requirement
    BY <2>1 DEF Unmoved, Lineage, Requirements
  <2>2. ASSUME NEW e \in Clerks, AddRequirement(e) \/ AddRequirementVersion(e)
        PROVE  Unmoved(d, code)
    <3>1. c # e
      <4>1. End(e)
        BY <2>2, CommitEnds DEF Commits
      <4>. QED
        BY <1>2, <4>1, EndEffect DEF TypeInv, At, Idle
    <3>2. PICK d0 \in Domains, c0 \in Codes :
             /\ req[e].keys = {LineageKey(d0, c0)} /\ ~At(e, "idle")
             /\ \A dd, cc : (dd # d0 \/ cc # c0) => Unmoved(dd, cc)
      <4>1. CASE AddRequirement(e)
        BY <4>1, AddedRequirement DEF At
      <4>2. CASE AddRequirementVersion(e)
        BY <4>2, AddedVersion DEF At
      <4>. QED
        BY <2>2, <4>1, <4>2
    <3>3. LineageKey(d, code) \notin req[e].keys
      BY <1>2, <3>1, <3>2, HeldAlone
    <3>. QED
      BY <3>2, <3>3, LineageKeys
  <2>. QED
    BY <2>1, <2>2, RequirementSteps
<1>3. ASSUME req'[c].pc = "requirement",
             LineageKey(req'[c].row.domain, req'[c].row.code) \notin raced'
      PROVE  ~Duplicate(req[c].row.domain, req[c].row.code)'
  <2>1. CASE req'[c] = req[c]
    <3>1. PICK d, code : d = req[c].row.domain /\ code = req[c].row.code
      OBVIOUS
    <3>2. /\ LineageKey(d, code) \in req[c].keys /\ LineageKey(d, code) \notin raced
          /\ ~At(c, "idle") /\ ~Duplicate(d, code)
      BY <1>1, <1>3, <2>1, <3>1 DEF HeldOK, Fresh, At
    <3>3. Unmoved(d, code)
      BY <1>2, <2>1, <3>2
    <3>4. ~Duplicate(d, code)'
      BY <3>2, <3>3, <1>1 DEF Unmoved, Duplicate, list_requirements, Lineage, Grow
    <3>. QED
      BY <2>1, <3>1, <3>4 DEF Duplicate, Lineage
  <2>2. CASE BeginRequirement(c)
    <3>1. PICK d \in Domains, code \in Codes, hard \in BOOLEAN :
             /\ ~Duplicate(d, code)
             /\ Hold(c, [pc |-> "requirement", keys |-> {LineageKey(d, code)},
                         row |-> create_requirement(d, code, hard)])
      BY <2>2 DEF BeginRequirement
    <3>2. req'[c].row = create_requirement(d, code, hard) /\ requirement' = requirement
      BY <2>2, <3>1, HoldEffect DEF BeginRequirement, compliance, TypeInv
    <3>3. req'[c].row.domain = d /\ req'[c].row.code = code
      BY <3>2 DEF create_requirement
    <3>. QED
      BY <3>1, <3>2, <3>3 DEF Duplicate, list_requirements, Lineage, Requirements
  <2>. QED
    BY <1>3, <2>1, <2>2, Requested, BegunAs DEF Idle
<1>4. ASSUME req'[c].pc = "version",
             LineageKey(requirement'[req'[c].id].domain, requirement'[req'[c].id].code) \notin raced'
      PROVE  requirement'[req'[c].id].superseded_date = None
  <2>1. CASE req'[c] = req[c]
    <3>1. PICK r \in Requirements : r = req[c].id /\ req[c].keys = {KeyOf(r)}
      BY <1>1, <1>4, <2>1 DEF HeldOK
    <3>2. PICK d, code : d = requirement[r].domain /\ code = requirement[r].code
      OBVIOUS
    <3>3. /\ LineageKey(d, code) \in req[c].keys /\ LineageKey(d, code) \notin raced
          /\ ~At(c, "idle") /\ requirement[r].superseded_date = None /\ r \in Lineage(d, code)
      BY <1>1, <1>4, <2>1, <3>1, <3>2 DEF Fresh, At, KeyOf, Grow, Versionable, Lineage
    <3>. QED
      BY <1>2, <2>1, <3>1, <3>3 DEF Unmoved
  <2>2. CASE BeginVersion(c)
    <3>1. PICK r \in Requirements, effective \in EffectiveDates, hard \in BOOLEAN :
             /\ Versionable(r)
             /\ Hold(c, [pc |-> "version",
                         keys |-> {LineageKey(requirement[r].domain, requirement[r].code)},
                         id |-> r, effective |-> effective, hard |-> hard])
      BY <2>2 DEF BeginVersion
    <3>2. req'[c].id = r /\ requirement' = requirement
      BY <2>2, <3>1, HoldEffect DEF BeginVersion, compliance, TypeInv
    <3>. QED
      BY <3>1, <3>2 DEF Versionable
  <2>. QED
    BY <1>4, <2>1, <2>2, Requested, BegunAs DEF Idle
<1>. QED
  BY <1>3, <1>4 DEF Fresh, KeyOf, Versionable

\* The rows sharing a domain and a code are one chain of versions of which the last alone
\* is current, unless two requests on that code overlapped.
THEOREM OneVersionIsCurrent == Spec => []OneCurrentVersion
<1>1. Init => VersionInv /\ KeyInv
  <2>. SUFFICES ASSUME Init PROVE VersionInv /\ KeyInv
    OBVIOUS
  <2>1. requirement = <<>> /\ \A c \in Clerks : req[c] = Idle
    BY DEF Init, ComplianceInit, RequestsInit
  <2>2. \A d, code : Lineage(d, code) = {}
    BY <2>1 DEF Lineage, Requirements
  <2>3. \A d, code : Chain(d, code)
    BY <2>2, FS_EmptySet DEF Chain
  <2>. QED
    BY <2>1, <2>3 DEF VersionInv, KeyInv, Fresh, At, Idle
<1>2. TypeInv /\ KeyInv /\ VersionInv /\ [Next]_vars => (TypeInv /\ KeyInv /\ VersionInv)'
  <2>1. TypeInv /\ KeyInv /\ VersionInv /\ [Next]_vars => VersionInv'
    BY ChainNext, FreshNext DEF VersionInv, LineageKey
  <2>. QED
    BY <2>1, TypeNext, KeyNext DEF TypeInv
<1>3. VersionInv => OneCurrentVersion
  BY DEF VersionInv, OneCurrentVersion, Chain
<1>. QED
  BY <1>1, <1>2, <1>3, TypeInit, PTL DEF Spec

-----------------------------------------------------------------------------
(* What is computed on every read: repeat signals *)

LEMMA MaxOfTwo ==
  \A x, y \in Int : Max({x, y}) \in Int /\ Max({x, y}) >= x /\ Max({x, y}) >= y
<1>. TAKE x, y \in Int
<1>1. \E z \in {x, y} : \A w \in {x, y} : z >= w
  OBVIOUS
<1>2. Max({x, y}) \in {x, y} /\ \A w \in {x, y} : Max({x, y}) >= w
  BY <1>1 DEF Max
<1>. QED
  BY <1>2

LEMMA RowsOfRepair ==
  ASSUME TypeInv
  PROVE  /\ IsFiniteSet(DOMAIN repair)
         /\ \A i \in DOMAIN repair : repair[i] \in Repair /\ repair[i].reported_date \in Int
         /\ repair_rule_config.property_window \in Int
         /\ repair_rule_config.component_window \in Int
         /\ repair_rule_config.property_threshold \in Int
         /\ repair_rule_config.component_threshold \in Int
         /\ today \in Int
<1>1. IsFiniteSet(DOMAIN repair) /\ \A i \in DOMAIN repair : repair[i] \in Repair
  BY OldRows, TableType
<1>2. \A i \in DOMAIN repair : repair[i].reported_date \in Int
  BY <1>1, DaysOnly DEF Repair
<1>3. repair_rule_config \in RepairRuleConfigs
  BY DEF TypeInv, RowsOK, RepairsTypeOK
<1>. QED
  BY <1>1, <1>2, <1>3, RepairsAssumption, OldRows, DaysOnly

\* The rows the bulk report groups under a key are those the rule itself counts.
LEMMA GroupsAreRows ==
  ASSUME TypeInv, NEW w1 \in Int, NEW w2 \in Int, NEW window \in {w1, w2}
  PROVE  /\ \A p : grouped_by(Since(Max({w1, w2})), window, "property_id", p)
                      = {i \in Since(window) : repair[i].property_id = p}
         /\ \A x : grouped_by(Since(Max({w1, w2})), window, "component_id", x)
                      = {i \in Since(window) : repair[i].component_id = x}
<1>. DEFINE wide == Max({w1, w2})
<1>1. wide \in Int /\ wide >= window /\ window \in Int
  BY MaxOfTwo
<1>. HIDE DEF wide
<1>2. \A i \in DOMAIN repair :
         repair[i].reported_date >= today - window => repair[i].reported_date >= today - wide
  BY <1>1, RowsOfRepair
<1>3. Since(window) = {i \in Since(wide) : repair[i].reported_date >= today - window}
  BY <1>2 DEF Since
<1>. QED
  BY <1>3 DEF grouped_by, wide

LEMMA BulkAgrees == TypeInv => BulkSignalsAgree
<1>. SUFFICES ASSUME TypeInv PROVE BulkSignalsAgree
  OBVIOUS
<1>. DEFINE cfg == repair_rule_config
            PR(p) == {i \in Since(cfg.property_window) : repair[i].property_id = p}
            CR(x) == {i \in Since(cfg.component_window) : repair[i].component_id = x}
            report == get_repairs_intelligence
<1>1. ASSUME NEW T \in SUBSET DOMAIN repair PROVE Cardinality(T) \in Nat
  BY RowsOfRepair, FS_Subset, FS_CardinalityType
<1>2. (\A p : PR(p) \in SUBSET DOMAIN repair) /\ (\A x : CR(x) \in SUBSET DOMAIN repair)
  BY DEF Since
<1>3. /\ report.repeat_repair_properties =
            {p \in Properties : PR(p) # {} /\ Cardinality(PR(p)) >= cfg.property_threshold}
      /\ report.repeat_failure_components =
            {x \in Components : CR(x) # {} /\ Cardinality(CR(x)) >= cfg.component_threshold}
  <2>. DEFINE wide == Since(Max({cfg.property_window, cfg.component_window}))
  <2>1. /\ \A p : grouped_by(wide, cfg.property_window, "property_id", p) = PR(p)
        /\ \A x : grouped_by(wide, cfg.component_window, "component_id", x) = CR(x)
    BY RowsOfRepair, GroupsAreRows
  <2>. HIDE DEF PR, CR
  <2>. QED
    BY <2>1 DEF get_repairs_intelligence
<1>. HIDE DEF report
<1>4. \A p : repeat_repairs_for_property(p) # {}
                <=> PR(p) # {} /\ Cardinality(PR(p)) >= cfg.property_threshold
  <2>. TAKE p
  <2>. DEFINE rows == PR(p)
  <2>1. Cardinality(rows) \in Nat /\ cfg.property_threshold \in Int
    BY <1>1, <1>2, RowsOfRepair
  <2>2. repeat_repairs_for_property(p)
           = IF Cardinality(rows) < cfg.property_threshold THEN {} ELSE rows
    BY DEF repeat_repairs_for_property
  <2>. HIDE DEF rows
  <2>3. repeat_repairs_for_property(p) # {}
           <=> rows # {} /\ Cardinality(rows) >= cfg.property_threshold
    BY <2>1, <2>2
  <2>. QED
    BY <2>3 DEF rows
<1>5. \A x : repeat_failures_for_component(x) # {}
                <=> CR(x) # {} /\ Cardinality(CR(x)) >= cfg.component_threshold
  <2>. TAKE x
  <2>. DEFINE rows == CR(x)
  <2>1. Cardinality(rows) \in Nat /\ cfg.component_threshold \in Int
    BY <1>1, <1>2, RowsOfRepair
  <2>2. repeat_failures_for_component(x)
           = IF Cardinality(rows) < cfg.component_threshold THEN {} ELSE rows
    BY DEF repeat_failures_for_component
  <2>. HIDE DEF rows
  <2>3. repeat_failures_for_component(x) # {}
           <=> rows # {} /\ Cardinality(rows) >= cfg.component_threshold
    BY <2>1, <2>2
  <2>. QED
    BY <2>3 DEF rows
<1>6. ASSUME NEW x \in Components, CR(x) # {}
      PROVE  x \in component_model_trend(ModelOf[x]).failed
  <2>1. PICK i \in CR(x) : i \in DOMAIN repair /\ repair[i].component_id = x
    BY <1>2, <1>6
  <2>2. x \in {repair[j].component_id : j \in DOMAIN repair}
    BY <2>1
  <2>. QED
    BY <2>2 DEF component_model_trend
<1>. QED
  BY <1>3, <1>4, <1>5, <1>6 DEF BulkSignalsAgree, report

\* The bulk report lists exactly the properties and components whose own page raises the
\* signal, whatever the two windows and thresholds are.
THEOREM BulkReportAgrees == Spec => []BulkSignalsAgree
  BY TypeInit, TypeNext, BulkAgrees, PTL DEF Spec

-----------------------------------------------------------------------------
(* Signals outlive the closing of what they count *)

LEMMA HazardSteps ==
  ASSUME TypeInv, [Next]_vars
  PROVE  /\ IsFiniteSet(DOMAIN hazard') /\ DOMAIN hazard \subseteq DOMAIN hazard'
         /\ \A h \in DOMAIN hazard : /\ hazard'[h].property_id = hazard[h].property_id
                                     /\ hazard'[h].hazard_type = hazard[h].hazard_type
                                     /\ hazard'[h].reported_date = hazard[h].reported_date
<1>. USE OldRows
<1>0. IsFiniteSet(DOMAIN hazard') /\ DOMAIN hazard \subseteq DOMAIN hazard'
  <2>1. hazard' \in Seq(Hazard) /\ Grow
    BY KeptNext DEF RowsOK, HazardsTypeOK
  <2>. QED
    BY <2>1, TableType DEF Grow
<1>1. CASE hazard' = hazard
  BY <1>0, <1>1
<1>2. CASE AddHazard
  <2>1. PICK p \in Properties, type \in HazardTypes, severity \in HazardSeverity,
             reported \in Days :
             hazard' = Append(hazard, create_hazard(p, type, severity, reported))
    BY <1>2 DEF AddHazard
  <2>2. create_hazard(p, type, severity, reported) \in Hazard
    BY DEF create_hazard, Hazard, HazardStatus, HazardInvestigationStatus
  <2>3. \A h \in DOMAIN hazard : hazard'[h] = hazard[h]
    BY <2>1, <2>2, RowAppended
  <2>. QED
    BY <1>0, <2>3
<1>3. ASSUME NEW c \in Clerks, UpdateHazardStatus(c), NEW h \in DOMAIN hazard
      PROVE  /\ hazard'[h].property_id = hazard[h].property_id
             /\ hazard'[h].hazard_type = hazard[h].hazard_type
             /\ hazard'[h].reported_date = hazard[h].reported_date
  <2>1. hazard' = [hazard EXCEPT ![req[c].id] =
                      update_hazard_status(hazard[req[c].id], req[c].to, req[c].outcome)]
    BY <1>3 DEF UpdateHazardStatus
  <2>2. hazard[h] \in Hazard
    BY TableType
  <2>. QED
    BY <2>1, <2>2 DEF update_hazard_status, Hazard
<1>. QED
  <2>1. ASSUME NEW c \in Clerks, StepOf(c) PROVE hazard' = hazard \/ UpdateHazardStatus(c)
    BY <2>1 DEF StepOf, hazards, UpdateHazardActionStatus
  <2>2. CASE StepOfNone
    BY <1>1, <1>2, <2>2
       DEF StepOfNone, HazardAdds, hazards, AddHazardAction, UpdateHazardRuleConfig
  <2>. QED
    BY <1>0, <1>1, <1>3, <2>1, <2>2, Steps

LEMMA HazardSignalStays ==
  ASSUME TypeInv, [Next]_vars, today' = today, hazard_rule_config' = hazard_rule_config,
         NEW p \in Properties, NEW t \in HazardTypes, repeat_hazards_for_property(p, t)
  PROVE  repeat_hazards_for_property(p, t)'
<1>1. repeat_hazards(p, t) \in SUBSET repeat_hazards(p, t)'
      /\ repeat_hazards(p, t)' \in SUBSET DOMAIN hazard'
  BY HazardSteps DEF repeat_hazards
<1>2. IsFiniteSet(repeat_hazards(p, t)')
  BY <1>1, HazardSteps, FS_Subset
<1>3. /\ Cardinality(repeat_hazards(p, t)) <= Cardinality(repeat_hazards(p, t)')
      /\ Cardinality(repeat_hazards(p, t)) \in Nat /\ Cardinality(repeat_hazards(p, t)') \in Nat
  BY <1>1, <1>2, FS_Subset, FS_CardinalityType
<1>4. hazard_rule_config.threshold \in Int
  BY HazardsAssumption DEF TypeInv, RowsOK, HazardsTypeOK
<1>. QED
  BY <1>3, <1>4 DEF repeat_hazards_for_property

LEMMA RepairSignalStays ==
  ASSUME TypeInv, [Next]_vars, today' = today, repair_rule_config' = repair_rule_config,
         \A i \in DOMAIN repair : repair'[i].status = "CANCELLED" => repair'[i] = repair[i],
         NEW p \in Properties, repeat_repairs_for_property(p) # {}
  PROVE  repeat_repairs_for_property(p)' # {}
<1>. DEFINE rows == {i \in Since(repair_rule_config.property_window) : repair[i].property_id = p}
            new == {i \in DOMAIN repair' :
                      /\ repair'[i].reported_date >= today - repair_rule_config.property_window
                      /\ repair'[i].status # "CANCELLED" /\ repair'[i].property_id = p}
<1>1. DOMAIN repair \subseteq DOMAIN repair' /\ IsFiniteSet(DOMAIN repair')
  <2>1. repair' \in Seq(Repair) /\ Grow
    BY KeptNext, OldRows DEF RowsOK, RepairsTypeOK
  <2>. QED
    BY <2>1, TableType DEF Grow
<1>2. ASSUME NEW i \in DOMAIN repair
      PROVE  /\ repair'[i].property_id = repair[i].property_id
             /\ repair'[i].reported_date = repair[i].reported_date
             /\ repair[i].status # "CANCELLED" => repair'[i].status # "CANCELLED"
  <2>1. repair[i] \in Repair /\ i \in DOMAIN repair'
    BY <1>1, OldRows, TableType
  <2>2. CASE repair'[i] = repair[i]
    BY <2>2
  <2>3. CASE repair'[i] # repair[i]
    <3>1. PICK c \in Clerks, given \in Days \union {None} :
               repair'[i] = update_repair_status(repair[i], req[c].to, given)
      BY <2>1, <2>3, RepairSteps DEF RepairStep
    <3>2. /\ repair'[i].property_id = repair[i].property_id
          /\ repair'[i].reported_date = repair[i].reported_date
      BY <2>1, <3>1 DEF update_repair_status, Repair
    <3>. QED
      BY <2>3, <3>2
  <2>. QED
    BY <2>2, <2>3
<1>3. rows \in SUBSET new /\ new \in SUBSET DOMAIN repair'
  BY <1>1, <1>2 DEF Since
<1>4. /\ Cardinality(rows) <= Cardinality(new) /\ IsFiniteSet(new)
      /\ Cardinality(rows) \in Nat /\ Cardinality(new) \in Nat
  BY <1>1, <1>3, FS_Subset, FS_CardinalityType
<1>5. /\ rows # {} /\ ~(Cardinality(rows) < repair_rule_config.property_threshold)
  BY DEF repeat_repairs_for_property
<1>6. repair_rule_config.property_threshold \in Int
  BY RowsOfRepair
<1>7. new = {i \in Since(repair_rule_config.property_window)' : repair'[i].property_id = p}
  BY DEF Since
<1>8. repeat_repairs_for_property(p)' =
         IF Cardinality(new) < repair_rule_config.property_threshold THEN {} ELSE new
  BY <1>7 DEF repeat_repairs_for_property
<1>. HIDE DEF rows, new
<1>. QED
  BY <1>3, <1>4, <1>5, <1>6, <1>8

\* A repeat signal outlives the closing of what it counts: within a day, and as long as
\* no rule is patched, no step takes a hazard signal away, and none but a cancellation
\* takes a repair signal away.
THEOREM ClosingKeepsSignals == Spec => SignalsOutliveClosing
<1>. DEFINE Stays == today' = today =>
       /\ hazard_rule_config' = hazard_rule_config =>
             \A p \in Properties, t \in HazardTypes :
                repeat_hazards_for_property(p, t) => repeat_hazards_for_property(p, t)'
       /\ /\ repair_rule_config' = repair_rule_config
          /\ \A i \in DOMAIN repair : repair'[i].status = "CANCELLED" => repair'[i] = repair[i]
          => \A p \in Properties :
                repeat_repairs_for_property(p) # {} => repeat_repairs_for_property(p)' # {}
<1>1. TypeInv /\ [Next]_vars => [Stays]_vars
  BY HazardSignalStays, RepairSignalStays
<1>. QED
  BY <1>1, TypeInit, TypeNext, PTL DEF Spec, SignalsOutliveClosing

-----------------------------------------------------------------------------
(* What is computed on every read: the status of a pair, as time passes *)

LEMMA NightDegrades ==
  ASSUME TypeInv, NextDay, UNCHANGED <<compliance, hazards, repairs>>,
         NEW e \in Entities, NEW r \in Requirements, current_applicability(e, r) # {},
         current_applicability(e, r) = current_applicability(e, r)'
  PROVE  compliance_status(e, r)' \in {compliance_status(e, r)} \union Aged[compliance_status(e, r)]
<1>. DEFINE A == current_applicability(e, r)  L == latest_inspection(e, r)  O == open_actions(e, r)
            a == Only(A)  i == Only(L)
            now == compliance_status(e, r)  next == compliance_status(e, r)'
<1>1. /\ requirement' = requirement /\ applicability' = applicability
      /\ inspection' = inspection /\ action' = action /\ status_config' = status_config
      /\ today' = today + 1 /\ today \in Int
  BY OldRows, DaysOnly DEF compliance, NextDay
<1>2. L' = L /\ O' = O
  BY <1>1 DEF latest_inspection, open_actions, OfPair
<1>3. /\ now = resolve_compliance_status(r, A, L, O)
      /\ next = resolve_compliance_status(r, A, L, O)'
  BY <1>2 DEF compliance_status
<1>4. a \in A /\ applicability[a].applicable_from \in Int
      /\ status_config.never_assessed_grace_days \in Int /\ status_config.due_soon_days \in Int
  <2>1. a \in A
    BY DEF Only
  <2>2. a \in DOMAIN applicability
    BY <2>1 DEF current_applicability, OfPair
  <2>3. applicability[a] \in RequirementApplicability
    BY <2>2, OldRows, TableType
  <2>4. status_config \in StatusConfigs
    BY DEF TypeInv, RowsOK, ComplianceTypeOK
  <2>. QED
    BY <2>1, <2>3, <2>4, DaysOnly, ComplianceAssumption DEF RequirementApplicability
<1>5. \A x \in O : action[x].deadline \in Int
  <2>1. \A x \in O : action[x] \in ComplianceAction
    BY OldRows, TableType DEF open_actions, OfPair
  <2>. QED
    BY <2>1, DaysOnly DEF ComplianceAction
<1>6. L # {} => inspection[i].next_due_date \in Int
  <2>1. L # {} => i \in DOMAIN inspection
    BY DEF Only, latest_inspection, OfPair
  <2>2. L # {} => inspection[i] \in Inspection
    BY <2>1, OldRows, TableType
  <2>. QED
    BY <2>2, DaysOnly DEF Inspection
<1>. DEFINE due == inspection[i].next_due_date
            from == applicability[a].applicable_from
            grace == status_config.never_assessed_grace_days
            soon == status_config.due_soon_days
            reviewed == IF inspection[i].result = "SATISFACTORY" THEN "CURRENT" ELSE "NEEDS_REVIEW"
            On(day) ==
               IF L = {} THEN IF day - from <= grace THEN "UNKNOWN" ELSE "MISSING_EVIDENCE"
               ELSE IF O # {} THEN IF \E x \in O : action[x].deadline < day
                                   THEN "OVERDUE_ACTION" ELSE "OPEN_ACTION"
               ELSE IF due = None THEN reviewed
               ELSE IF due - day < 0 THEN IF requirement[r].hard_deadline
                                          THEN "OVERDUE" ELSE "EXPIRED"
               ELSE IF due - day <= soon THEN "DUE_SOON"
               ELSE reviewed
<1>7. now = On(today)
  BY <1>3 DEF resolve_compliance_status
<1>8. next = On(today + 1)
  <2>1. next = resolve_compliance_status(r, A, L, O)'
    BY <1>3
  <2>. QED
    BY <1>1, <1>2, <2>1 DEF resolve_compliance_status
<1>. HIDE DEF A, L, O, a, i, now, next
<1>9. L = {} => On(today + 1) \in {On(today)} \union Aged[On(today)]
  BY <1>1, <1>4 DEF Aged
<1>10. L # {} /\ O # {} => On(today + 1) \in {On(today)} \union Aged[On(today)]
  BY <1>1, <1>5 DEF Aged
<1>11. L # {} /\ O = {} => On(today + 1) \in {On(today)} \union Aged[On(today)]
  <2>. SUFFICES ASSUME L # {}, O = {}, due # None
                PROVE  On(today + 1) \in {On(today)} \union Aged[On(today)]
    OBVIOUS
  <2>1. due \in Int
    BY <1>6
  <2>. HIDE DEF due
  <2>2. CASE due - today < 0
    BY <1>1, <2>1, <2>2
  <2>3. CASE ~(due - today < 0) /\ due - today <= soon
    BY <1>1, <1>4, <2>1, <2>3 DEF Aged
  <2>4. CASE ~(due - today < 0) /\ ~(due - today <= soon)
    BY <1>1, <1>4, <2>1, <2>4 DEF Aged
  <2>. QED
    BY <2>2, <2>3, <2>4
<1>. QED
  BY <1>7, <1>8, <1>9, <1>10, <1>11 DEF now, next

\* Overnight, with no row written, a status stays or moves to a worse one.
THEOREM TimeDegrades == Spec => TimeOnlyDegrades
<1>1. [Next]_vars /\ TypeInv /\ today' # today
        => NextDay /\ UNCHANGED <<compliance, hazards, repairs>>
  <2>. SUFFICES ASSUME [Next]_vars, TypeInv, today' # today
                PROVE  NextDay /\ UNCHANGED <<compliance, hazards, repairs>>
    OBVIOUS
  <2>1. ASSUME NEW c \in Clerks, StepOf(c) PROVE FALSE
    <3>1. CASE BeginSomething(c)
      BY <3>1, BeginHolds, HoldEffect DEF TypeInv
    <3>2. CASE Commits(c)
      BY <3>2, CommitEnds, EndEffect DEF TypeInv
    <3>. QED
      BY <2>1, <3>1, <3>2 DEF StepOf, Commits
  <2>2. CASE StepOfNone
    BY <2>2
       DEF StepOfNone, requests, Once, Adds, HazardAdds, RepairAdds, AddApplicability,
           EndApplicability, AddInspection, import_compliance_inspection_row, AddAction,
           UpdateStatusConfig, AddHazard, AddHazardAction, UpdateHazardRuleConfig,
           AddRepair, import_repair_row, UpdateRepairRuleConfig
  <2>. QED
    BY <2>1, <2>2, Steps
<1>. DEFINE Degrades == \A e \in Entities, r \in Requirements :
          LET now == compliance_status(e, r) IN
          /\ today' # today
          /\ current_applicability(e, r) # {}
          /\ current_applicability(e, r) = current_applicability(e, r)'
          /\ Determined(e, r)
          => compliance_status(e, r)' \in {now} \union Aged[now]
<1>2. TypeInv /\ [Next]_vars => [Degrades]_<<requests>>
  BY <1>1, NightDegrades
<1>. QED
  BY <1>2, TypeInit, TypeNext, PTL DEF Spec, TimeOnlyDegrades

-----------------------------------------------------------------------------
(* What is computed on every read: the board report *)

LEMMA AtMostOne ==
  ASSUME NEW S, IsFiniteSet(S), Cardinality(S) <= 1, NEW x \in S
  PROVE  S = {x}
<1>1. {x} \in SUBSET S /\ Cardinality({x}) = 1 /\ Cardinality(S) \in Nat
  BY FS_Singleton, FS_CardinalityType
<1>2. Cardinality({x}) <= Cardinality(S)
  BY <1>1, FS_Subset
<1>3. Cardinality(S) = Cardinality({x})
  BY <1>1, <1>2
<1>. QED
  BY <1>1, <1>3, FS_Subset

\* What the bulk queries find of a pair in force is what the page of its entity finds.
BulkRows(table, rows) ==
    {i \in DOMAIN table : /\ table[i].entity \in {applicability[a].entity : a \in rows}
                         /\ table[i].requirement_id \in {applicability[a].requirement_id : a \in rows}}

LEMMA BulkFindsPair ==
  ASSUME NEW rows, NEW a \in rows, NEW e, NEW r,
         e = applicability[a].entity, r = applicability[a].requirement_id
  PROVE  /\ latest_inspection_by_key(BulkRows(inspection, rows), e, r) = latest_inspection(e, r)
         /\ rows_by_key(action, {x \in BulkRows(action, rows) : action[x].status = "OPEN"}, e, r)
               = open_actions(e, r)
<1>1. /\ e \in {applicability[b].entity : b \in rows}
      /\ r \in {applicability[b].requirement_id : b \in rows}
  OBVIOUS
<1>2. rows_by_key(inspection, BulkRows(inspection, rows), e, r) = OfPair(inspection, e, r)
  BY <1>1 DEF rows_by_key, BulkRows, OfPair
<1>3. rows_by_key(action, {x \in BulkRows(action, rows) : action[x].status = "OPEN"}, e, r)
         = open_actions(e, r)
  BY <1>1 DEF rows_by_key, BulkRows, OfPair, open_actions
<1>. QED
  BY <1>2, <1>3 DEF latest_inspection_by_key, latest_inspection

LEMMA ReportAgrees == TypeInv => ReportAgreesWithStatuses
<1>. SUFFICES ASSUME TypeInv, NEW scope \in {Entities} \union {{e} : e \in Entities},
                     \A e \in scope, r \in Requirements : Determined(e, r),
                     NEW d \in DOMAIN get_board_assurance_report(scope),
                     NEW s \in ComplianceStatus \ {"NOT_APPLICABLE"}
              PROVE  get_board_assurance_report(scope)[d][s] =
                        Cardinality({pair \in scope \X Requirements :
                            /\ requirement[pair[2]].domain = d
                            /\ pair[2] \in DOMAIN list_compliance_statuses_for_entity(pair[1])
                            /\ list_compliance_statuses_for_entity(pair[1])[pair[2]] = s})
  BY DEF ReportAgreesWithStatuses
<1>. DEFINE rows == {a \in DOMAIN applicability :
                       applicability[a].entity \in scope /\ AppliesOn(a, today)}
            E(a) == applicability[a].entity
            R(a) == applicability[a].requirement_id
            Domain(a) == requirement[R(a)].domain
            Status(a) == resolve_compliance_status(R(a), {a},
                 latest_inspection_by_key(BulkRows(inspection, rows), E(a), R(a)),
                 rows_by_key(action, {x \in BulkRows(action, rows) : action[x].status = "OPEN"},
                             E(a), R(a)))
            Page(e) == list_compliance_statuses_for_entity(e)
            counted == {a \in rows : Domain(a) = d /\ Status(a) = s}
            shown == {pair \in scope \X Requirements :
                            /\ requirement[pair[2]].domain = d
                            /\ pair[2] \in DOMAIN Page(pair[1])
                            /\ Page(pair[1])[pair[2]] = s}
            f == [a \in counted |-> <<E(a), R(a)>>]
<1>1. get_board_assurance_report(scope)[d][s] = Cardinality(counted)
  <2>1. get_board_assurance_report(scope) =
           [dd \in {Domain(a) : a \in rows} |->
              [ss \in ComplianceStatus |->
                  Cardinality({a \in rows : Domain(a) = dd /\ Status(a) = ss})]]
    BY DEF get_board_assurance_report, BulkRows
  <2>. HIDE DEF rows, Domain, Status
  <2>. QED
    BY <2>1
<1>2. ASSUME NEW e \in scope, NEW r \in Requirements, NEW a \in current_applicability(e, r)
      PROVE  /\ current_applicability(e, r) = {a} /\ a \in rows /\ E(a) = e /\ R(a) = r
             /\ Status(a) = compliance_status(e, r)
             /\ r \in DOMAIN Page(e) /\ Page(e)[r] = compliance_status(e, r)
  <2>1. /\ a \in DOMAIN applicability /\ E(a) = e /\ R(a) = r /\ AppliesOn(a, today)
        /\ current_applicability(e, r) \in SUBSET DOMAIN applicability
    BY DEF current_applicability, OfPair
  <2>2. IsFiniteSet(DOMAIN applicability)
    BY OldRows, TableType
  <2>3. IsFiniteSet(current_applicability(e, r)) /\ Cardinality(current_applicability(e, r)) <= 1
    BY <2>1, <2>2, FS_Subset DEF Determined
  <2>4. current_applicability(e, r) = {a} /\ a \in rows
    BY <2>1, <2>3, AtMostOne
  <2>5. Status(a) = compliance_status(e, r)
    <3>1. Status(a) = resolve_compliance_status(r, {a}, latest_inspection(e, r), open_actions(e, r))
      <4>. HIDE DEF rows
      <4>. QED
        BY <2>1, <2>4, BulkFindsPair
    <3>. QED
      BY <2>4, <3>1 DEF compliance_status
  <2>6. r \in DOMAIN Page(e) /\ Page(e)[r] = compliance_status(e, r)
    BY <2>1 DEF list_compliance_statuses_for_entity
  <2>. QED
    BY <2>1, <2>4, <2>5, <2>6
<1>3. ASSUME NEW a \in rows
      PROVE  E(a) \in scope /\ R(a) \in Requirements /\ a \in current_applicability(E(a), R(a))
  BY DEF TypeInv, ReferencesOK, current_applicability, OfPair
<1>. HIDE DEF Page, Status
<1>4. ASSUME NEW a \in counted PROVE <<E(a), R(a)>> \in shown
  <2>1. /\ E(a) \in scope /\ R(a) \in Requirements /\ requirement[R(a)].domain = d
        /\ R(a) \in DOMAIN Page(E(a)) /\ Page(E(a))[R(a)] = s
    BY <1>2, <1>3
  <2>. HIDE DEF E, R
  <2>. QED
    BY <2>1
<1>5. ASSUME NEW a \in counted, NEW b \in counted, <<E(a), R(a)>> = <<E(b), R(b)>>
      PROVE  a = b
  <2>1. E(a) = E(b) /\ R(a) = R(b) /\ a \in rows /\ b \in rows
    BY <1>5
  <2>2. a \in current_applicability(E(a), R(a)) /\ b \in current_applicability(E(a), R(a))
    BY <1>3, <2>1
  <2>3. current_applicability(E(a), R(a)) = {a}
    BY <1>2, <1>3, <2>1
  <2>. QED
    BY <2>2, <2>3
<1>6. ASSUME NEW pair \in shown PROVE \E a \in counted : <<E(a), R(a)>> = pair
  <2>1. PICK e \in scope, r \in Requirements : pair = <<e, r>>
    OBVIOUS
  <2>2. /\ requirement[r].domain = d /\ r \in DOMAIN Page(e) /\ Page(e)[r] = s
    BY <2>1
  <2>3. Page(e)[r] = compliance_status(e, r)
    BY <2>2 DEF Page, list_compliance_statuses_for_entity
  <2>4. current_applicability(e, r) # {}
    BY <2>2, <2>3 DEF compliance_status, resolve_compliance_status
  <2>5. PICK a : a \in current_applicability(e, r)
    BY <2>4
  <2>6. a \in rows /\ E(a) = e /\ R(a) = r /\ Status(a) = s
    BY <1>2, <2>2, <2>3, <2>5
  <2>. QED
    BY <2>1, <2>2, <2>6
<1>7. IsFiniteSet(counted)
  <2>1. counted \in SUBSET DOMAIN applicability
    OBVIOUS
  <2>2. IsFiniteSet(DOMAIN applicability)
    BY OldRows, TableType
  <2>. QED
    BY <2>1, <2>2, FS_Subset
<1>. HIDE DEF counted, shown, E, R
<1>8. f \in Bijection(counted, shown)
  <2>1. f \in [counted -> shown] /\ \A a \in counted : f[a] = <<E(a), R(a)>>
    BY <1>4
  <2>2. \A a, b \in counted : f[a] = f[b] => a = b
    BY <1>5, <2>1
  <2>3. \A pair \in shown : \E a \in counted : f[a] = pair
    BY <1>6, <2>1
  <2>. HIDE DEF f
  <2>. QED
    BY <2>1, <2>2, <2>3 DEF Bijection, Injection, Surjection, IsInjective
<1>9. Cardinality(shown) = Cardinality(counted)
  BY <1>7, <1>8, FS_Bijection DEF ExistsBijection
<1>. QED
  BY <1>1, <1>9 DEF shown, Page

\* The board report counts every pair in force once, under the status its own page shows,
\* whatever rows there are, whenever .first() is determined.
THEOREM BoardReportAgrees == Spec => []ReportAgreesWithStatuses
  BY TypeInit, TypeNext, ReportAgrees, PTL DEF Spec

=============================================================================

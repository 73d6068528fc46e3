--------------------------- MODULE DevelopmentProofs ---------------------------
(***************************************************************************)
(* Theorems about module Development, for every estate, every number of    *)
(* clerks and requests and every group of requests followed.               *)
(*                                                                         *)
(* The handlers load what they check and write it later without a lock.    *)
(* As long as no two requests held the same row (KeyInv: two that do are   *)
(* both in `raced`), what one loaded still stands when it commits: the     *)
(* document or the revision it replaces is the current one (DocumentInv,   *)
(* SpecificationInv), the change it implements has no revision yet         *)
(* (TrailInv), the property it hands over still waits for that (MovedInv), *)
(* and the findings it deletes are all there are (FindingInv).  The        *)
(* grounds of a handover are those of its score (GroundsOf), and a         *)
(* property stays where the hierarchy put it (PlacedInv).                  *)
(***************************************************************************)
EXTENDS Development, TableLemmas

-----------------------------------------------------------------------------
(* Requests *)

\* What a run of the data health rules holds until it replaces the findings.
Computed(r) == [pc |-> "health", keys |-> {<<"findings">>}, run |-> r.run,
                findings |-> r.findings, replaced |-> r.replaced]

ReqShape ==
    /\ RequestsOK /\ req = [c \in Clerks |-> req[c]]
    /\ \A c \in Clerks : At(c, "health") => req[c] = Computed(req[c])

\* Two requests that hold a row in common were both seen to.
KeyInv ==
    \A c, d \in Clerks : c # d /\ ~At(c, "idle") /\ ~At(d, "idle")
                         => req[c].keys \intersect req[d].keys \subseteq raced

\* What begins a request leaves the others alone, and records the rows held twice.
LEMMA HoldEffect ==
  ASSUME ReqShape, NEW c \in Clerks, NEW r, Hold(c, r), r.pc = "health" => r = Computed(r)
  PROVE  /\ req'[c] = r /\ \A d \in Clerks : d # c => req'[d] = req[d]
         /\ At(c, "idle") /\ raced \subseteq raced' /\ r.keys \intersect Held \subseteq raced'
         /\ today' = today /\ begun' = begun + 1 /\ ReqShape'
<1>1. DOMAIN req = Clerks /\ begun \in 0..MaxBegun /\ MaxBegun \in Nat /\ today \in Days
  BY BoundsAssumption DEF ReqShape, RequestsOK
<1>2. /\ req' = [req EXCEPT ![c] = r] /\ begun < MaxBegun /\ begun' = begun + 1
      /\ At(c, "idle") /\ raced' = raced \union (r.keys \intersect Held) /\ today' = today
  BY DEF Hold, CanBegin
<1>3. req'[c] = r /\ (\A d \in Clerks : d # c => req'[d] = req[d]) /\ DOMAIN req' = Clerks
      /\ req' = [d \in Clerks |-> req'[d]]
  BY <1>1, <1>2
<1>4. begun' \in 0..MaxBegun /\ Days' = Days
  BY <1>1, <1>2 DEF Days
<1>5. \A d \in Clerks : At(d, "health")' => req'[d] = Computed(req'[d])
  BY <1>3 DEF ReqShape, At
<1>. QED
  BY <1>1, <1>2, <1>3, <1>4, <1>5 DEF ReqShape, RequestsOK

\* What ends a request leaves the others alone.
LEMMA EndEffect ==
  ASSUME ReqShape, NEW c \in Clerks, End(c)
  PROVE  /\ req'[c] = Idle /\ \A d \in Clerks : d # c => req'[d] = req[d]
         /\ raced' = raced /\ today' = today /\ begun' = begun /\ ReqShape'
<1>1. DOMAIN req = Clerks /\ begun \in 0..MaxBegun /\ today \in Days /\ Days' = Days
  BY DEF ReqShape, RequestsOK, Days
<1>2. req' = [req EXCEPT ![c] = Idle] /\ begun' = begun /\ raced' = raced /\ today' = today
  BY DEF End
<1>3. req'[c] = Idle /\ (\A d \in Clerks : d # c => req'[d] = req[d]) /\ DOMAIN req' = Clerks
      /\ req' = [d \in Clerks |-> req'[d]]
  BY <1>1, <1>2
<1>4. \A d \in Clerks : At(d, "health")' => req'[d] = Computed(req'[d])
  BY <1>3 DEF ReqShape, At, Idle
<1>. QED
  BY <1>1, <1>2, <1>3, <1>4 DEF ReqShape, RequestsOK

\* A request of one step, the night and a stuttering step touch no request in flight.
LEMMA QuietEffect ==
  ASSUME ReqShape, Once \/ NextDay \/ UNCHANGED requests
  PROVE  /\ req' = req /\ raced' = raced /\ ReqShape' /\ begun' \in {begun, begun + 1}
         /\ today' \in {today, today + 1}
<1>1. begun \in 0..MaxBegun /\ today \in Days /\ MaxBegun \in Nat /\ MaxDay \in Nat
  BY BoundsAssumption DEF ReqShape, RequestsOK
<1>2. /\ req' = req /\ raced' = raced /\ begun' \in 0..MaxBegun /\ today' \in {today, today + 1}
      /\ begun' \in {begun, begun + 1}
  BY <1>1 DEF Once, NextDay, requests
<1>3. today' \in Days'
  BY <1>1 DEF Once, NextDay, requests, Days
<1>. QED
  BY <1>2, <1>3 DEF ReqShape, RequestsOK, At

\* The DELETE of a run of the rules goes on with the rows it holds.
LEMMA ReplaceEffect ==
  ASSUME ReqShape, NEW c \in Clerks, ReplaceFindings(c)
  PROVE  /\ req'[c] = [pc |-> "stored", keys |-> {<<"findings">>}, run |-> req[c].run,
                       findings |-> req[c].findings, replaced |-> finding]
         /\ \A d \in Clerks : d # c => req'[d] = req[d]
         /\ req[c] = Computed(req[c])
         /\ raced' = raced /\ today' = today /\ begun' = begun /\ ReqShape'
<1>1. /\ DOMAIN req = Clerks /\ begun \in 0..MaxBegun /\ today \in Days /\ Days' = Days
      /\ req[c] = Computed(req[c])
  BY DEF ReqShape, RequestsOK, Days, ReplaceFindings
<1>2. /\ req' = [req EXCEPT ![c] = [req[c] EXCEPT !.pc = "stored", !.replaced = finding]]
      /\ begun' = begun /\ raced' = raced /\ today' = today
  BY DEF ReplaceFindings, replaced_by
<1>3. /\ req'[c] = [req[c] EXCEPT !.pc = "stored", !.replaced = finding]
      /\ (\A d \in Clerks : d # c => req'[d] = req[d]) /\ DOMAIN req' = Clerks
      /\ req' = [d \in Clerks |-> req'[d]]
  BY <1>1, <1>2
<1>4. req'[c] = [pc |-> "stored", keys |-> {<<"findings">>}, run |-> req[c].run,
                 findings |-> req[c].findings, replaced |-> finding]
  <2>1. PICK run, found, old :
           req[c] = [pc |-> "health", keys |-> {<<"findings">>}, run |-> run,
                     findings |-> found, replaced |-> old]
    BY <1>1 DEF Computed
  <2>2. req[c].run = run /\ req[c].findings = found
    BY <2>1
  <2>3. [req[c] EXCEPT !.pc = "stored", !.replaced = finding]
           = [pc |-> "stored", keys |-> {<<"findings">>}, run |-> run,
              findings |-> found, replaced |-> finding]
    <3>1. PICK r : r = req[c]
      OBVIOUS
    <3>2. DOMAIN r = {"pc", "keys", "run", "findings", "replaced"}
      BY <2>1, <3>1
    <3>3. [r EXCEPT !.pc = "stored", !.replaced = finding]
             = [f \in DOMAIN r |-> IF f = "replaced" THEN finding
                                   ELSE IF f = "pc" THEN "stored" ELSE r[f]]
      OBVIOUS
    <3>4. r.keys = {<<"findings">>} /\ r.run = run /\ r.findings = found
      BY <2>1, <3>1
    <3>. HIDE <3>1
    <3>5. [r EXCEPT !.pc = "stored", !.replaced = finding]
             = [pc |-> "stored", keys |-> {<<"findings">>}, run |-> run,
                findings |-> found, replaced |-> finding]
      BY <3>2, <3>3, <3>4
    <3>. QED
      BY <3>1, <3>5
  <2>. QED
    BY <1>3, <2>2, <2>3
<1>5. \A d \in Clerks : At(d, "health")' => req'[d] = Computed(req'[d])
  BY <1>3, <1>4 DEF ReqShape, At
<1>. QED
  BY <1>1, <1>2, <1>3, <1>4, <1>5 DEF ReqShape, RequestsOK

\* A step begins one request, ends one, lets one go on with the rows it holds, or leaves
\* the requests in flight as they are.
Begins(pcs) ==
    \E c \in Clerks : \E r : Hold(c, r) /\ r.pc \in pcs /\ (r.pc = "health" => r = Computed(r))
Ends   == \E c \in Clerks : End(c)
GoesOn == \E c \in Clerks : ReplaceFindings(c)
Quiet  == Once \/ NextDay \/ UNCHANGED requests

LEMMA EstateMoves == HierarchyNext \/ RegisterNext => Begins({"defect"}) \/ Ends \/ Quiet
<1>. SUFFICES ASSUME HierarchyNext \/ RegisterNext PROVE Begins({"defect"}) \/ Ends \/ Quiet
  OBVIOUS
<1>1. CASE HierarchyNext
  BY <1>1 DEF HierarchyNext, AddDevelopment, AddBuilding, AddFloor, AddProperty,
              import_property_row, AddSpace, Quiet
<1>2. CASE \/ AddExternalReference \/ AddComponent \/ import_component_row
           \/ AddWarranty \/ VoidWarranty \/ AddDefect \/ AddBuildingControlRecord
           \/ UpdateBuildingControlRecord \/ AddSurvey
  BY <1>2 DEF AddExternalReference, AddComponent, import_component_row, AddWarranty,
              VoidWarranty, AddDefect, AddBuildingControlRecord,
              UpdateBuildingControlRecord, AddSurvey, Quiet
<1>3. ASSUME NEW c \in Clerks, BeginDefectStatus(c) PROVE Begins({"defect"})
  BY <1>3 DEF BeginDefectStatus, Begins
<1>4. ASSUME NEW c \in Clerks, UpdateDefectStatus(c) PROVE Ends
  BY <1>4 DEF UpdateDefectStatus, Ends
<1>. QED
  BY <1>1, <1>2, <1>3, <1>4 DEF RegisterNext, DefectStatusNext

LEMMA DocumentMoves == DocumentsNext => Begins({"upload", "version"}) \/ Ends
<1>1. ASSUME NEW c \in Clerks, BeginUpload(c) PROVE Begins({"upload", "version"})
  BY <1>1 DEF BeginUpload, Begins
<1>2. ASSUME NEW c \in Clerks, BeginVersion(c) PROVE Begins({"upload", "version"})
  BY <1>2 DEF BeginVersion, Begins
<1>3. ASSUME NEW c \in Clerks, UploadDocument(c) \/ UploadNewVersion(c) PROVE Ends
  BY <1>3 DEF UploadDocument, UploadNewVersion, Ends
<1>. QED
  BY <1>1, <1>2, <1>3 DEF DocumentsNext, Upload

Revising == {"revise", "submit", "change", "implement"}

LEMMA SpecificationMoves == SpecificationsNext => Begins(Revising) \/ Ends \/ Quiet
<1>1. CASE AddSpecification \/ ApproveSpecification
  BY <1>1 DEF AddSpecification, ApproveSpecification, Quiet
<1>2. ASSUME NEW c \in Clerks, BeginRevision(c) PROVE Begins(Revising)
  BY <1>2 DEF BeginRevision, Begins, Revising
<1>3. ASSUME NEW c \in Clerks, BeginSubmit(c) PROVE Begins(Revising)
  BY <1>3 DEF BeginSubmit, Begins, Revising
<1>4. ASSUME NEW c \in Clerks, BeginChangeStatus(c) PROVE Begins(Revising)
  BY <1>4 DEF BeginChangeStatus, Begins, Revising
<1>5. ASSUME NEW c \in Clerks, BeginImplement(c) PROVE Begins(Revising)
  BY <1>5 DEF BeginImplement, Begins, Revising
<1>6. ASSUME NEW c \in Clerks,
             \/ AddSpecificationRevision(c) \/ SubmitChangeControl(c)
             \/ MoveChangeControl(c) \/ ImplementChangeControl(c)
      PROVE  Ends
  BY <1>6 DEF AddSpecificationRevision, SubmitChangeControl, MoveChangeControl,
              ImplementChangeControl, Ends
<1>. QED
  BY <1>1, <1>2, <1>3, <1>4, <1>5, <1>6 DEF SpecificationsNext

LEMMA HandoverMoves == HandoverNext => Begins({"authorise", "status"}) \/ Ends \/ Quiet
<1>1. CASE UpdateHandoverReadinessWeight
  BY <1>1 DEF UpdateHandoverReadinessWeight, Quiet
<1>2. ASSUME NEW c \in Clerks, BeginAuthorise(c) PROVE Begins({"authorise", "status"})
  BY <1>2 DEF BeginAuthorise, Begins
<1>3. ASSUME NEW c \in Clerks, BeginPropertyStatus(c) PROVE Begins({"authorise", "status"})
  BY <1>3 DEF BeginPropertyStatus, Begins
<1>4. ASSUME NEW c \in Clerks, AuthoriseHandover(c) \/ UpdatePropertyStatus(c) PROVE Ends
  BY <1>4 DEF AuthoriseHandover, UpdatePropertyStatus, Ends
<1>. QED
  BY <1>1, <1>2, <1>3, <1>4 DEF HandoverNext

LEMMA HealthMoves == DataHealthNext => Begins({"health"}) \/ Ends \/ GoesOn
<1>1. ASSUME NEW c \in Clerks, BeginDataHealth(c) PROVE Begins({"health"})
  BY <1>1 DEF BeginDataHealth, Begins, Computed
<1>2. ASSUME NEW c \in Clerks, CommitDataHealth(c) PROVE Ends
  BY <1>2 DEF CommitDataHealth, Ends
<1>. QED
  BY <1>1, <1>2 DEF DataHealthNext, GoesOn

\* Whatever group of requests is followed, a step is one of these.
EstateStep        == (HierarchyNext \/ RegisterNext) /\ UNCHANGED <<revisions, handovers, finding>>
DocumentStep      == DocumentsNext /\ UNCHANGED <<estate, handovers, finding>>
SpecificationStep == SpecificationsNext /\ UNCHANGED <<estate, handovers, finding>>
HandoverStep      == HandoverNext /\ UNCHANGED finding
StillStep         == (NextDay \/ UNCHANGED requests)
                        /\ UNCHANGED <<estate, revisions, handovers, finding>>

LEMMA Steps ==
  [Next]_vars => \/ EstateStep \/ DocumentStep \/ SpecificationStep
                 \/ HandoverStep \/ DataHealthNext \/ StillStep
<1>1. CASE UNCHANGED vars
  BY <1>1 DEF vars, StillStep
<1>2. DefectStatusNext => RegisterNext
  BY DEF RegisterNext
<1>3. Upload => DocumentsNext
  BY DEF DocumentsNext
<1>. QED
  BY <1>1, <1>2, <1>3
     DEF Next, EstateStep, DocumentStep, SpecificationStep, HandoverStep, StillStep

LEMMA Moves == [Next]_vars => (\E pcs : Begins(pcs)) \/ Ends \/ GoesOn \/ Quiet
<1>1. StillStep => Quiet
  BY DEF StillStep, Quiet
<1>2. EstateStep => (\E pcs : Begins(pcs)) \/ Ends \/ Quiet
  BY EstateMoves DEF EstateStep
<1>3. DocumentStep => (\E pcs : Begins(pcs)) \/ Ends
  BY DocumentMoves DEF DocumentStep
<1>4. SpecificationStep => (\E pcs : Begins(pcs)) \/ Ends \/ Quiet
  BY SpecificationMoves DEF SpecificationStep
<1>5. HandoverStep => (\E pcs : Begins(pcs)) \/ Ends \/ Quiet
  BY HandoverMoves DEF HandoverStep
<1>6. DataHealthNext => (\E pcs : Begins(pcs)) \/ Ends \/ GoesOn
  BY HealthMoves
<1>. QED
  BY <1>1, <1>2, <1>3, <1>4, <1>5, <1>6, Steps

LEMMA ShapeNext == ReqShape /\ [Next]_vars => ReqShape' /\ raced \subseteq raced' /\ begun <= begun'
<1>. SUFFICES ASSUME ReqShape, [Next]_vars
              PROVE  ReqShape' /\ raced \subseteq raced' /\ begun <= begun'
  OBVIOUS
<1>0. begun \in Nat
  BY BoundsAssumption DEF ReqShape, RequestsOK
<1>1. ASSUME NEW pcs, Begins(pcs)
      PROVE  ReqShape' /\ raced \subseteq raced' /\ begun <= begun'
  BY <1>0, <1>1, HoldEffect DEF Begins
<1>2. CASE Ends
  BY <1>0, <1>2, EndEffect DEF Ends
<1>3. ASSUME NEW e \in Clerks, ReplaceFindings(e)
      PROVE  ReqShape' /\ raced \subseteq raced' /\ begun <= begun'
  <2>1. raced' = raced /\ begun' = begun /\ ReqShape'
    BY <1>3, ReplaceEffect
  <2>. QED
    BY <1>0, <2>1
<1>4. CASE Quiet
  BY <1>0, <1>4, QuietEffect DEF Quiet
<1>. QED
  BY <1>1, <1>2, <1>3, <1>4, Moves DEF GoesOn

\* Requests that stand at one of pcs are left as they are, and none comes to stand there.
Apart(pcs) ==
    /\ raced \subseteq raced'
    /\ \A c \in Clerks : req'[c] = req[c] \/ req'[c].pc \notin pcs

LEMMA StandApart ==
  ASSUME ReqShape, NEW pcs, "idle" \notin pcs, NEW others, others \intersect pcs = {},
         Begins(others) \/ Ends \/ Quiet \/ (GoesOn /\ "stored" \notin pcs)
  PROVE  Apart(pcs)
<1>1. ASSUME NEW c \in Clerks, NEW r, Hold(c, r), r.pc \in others,
             r.pc = "health" => r = Computed(r)
      PROVE  Apart(pcs)
  BY <1>1, HoldEffect DEF Apart
<1>2. ASSUME NEW c \in Clerks, End(c) PROVE Apart(pcs)
  BY <1>2, EndEffect DEF Apart, Idle
<1>3. ASSUME NEW c \in Clerks, ReplaceFindings(c), "stored" \notin pcs PROVE Apart(pcs)
  <2>1. /\ req'[c].pc = "stored" /\ \A d \in Clerks : d # c => req'[d] = req[d]
        /\ raced' = raced
    <3>1. /\ req'[c] = [pc |-> "stored", keys |-> {<<"findings">>}, run |-> req[c].run,
                        findings |-> req[c].findings, replaced |-> finding]
          /\ \A d \in Clerks : d # c => req'[d] = req[d]
          /\ raced' = raced
      BY <1>3, ReplaceEffect
    <3>. QED
      BY <3>1
  <2>. QED
    BY <1>3, <2>1 DEF Apart
<1>4. CASE Quiet
  BY <1>4, QuietEffect DEF Quiet, Apart
<1>. QED
  BY <1>1, <1>2, <1>3, <1>4 DEF Begins, Ends, GoesOn

LEMMA KeyNext == ReqShape /\ KeyInv /\ [Next]_vars => KeyInv'
<1>. SUFFICES ASSUME ReqShape, KeyInv, [Next]_vars, NEW c \in Clerks, NEW d \in Clerks,
                     c # d, ~At(c, "idle")', ~At(d, "idle")'
              PROVE  (req[c].keys \intersect req[d].keys \subseteq raced)'
  BY DEF KeyInv
<1>1. ASSUME NEW e \in Clerks, NEW r, Hold(e, r), r.pc = "health" => r = Computed(r)
      PROVE  (req[c].keys \intersect req[d].keys \subseteq raced)'
  <2>1. /\ req'[e] = r /\ \A k \in Clerks : k # e => req'[k] = req[k]
        /\ At(e, "idle") /\ raced \subseteq raced' /\ r.keys \intersect Held \subseteq raced'
    BY <1>1, HoldEffect
  <2>2. \A k \in Clerks : ~At(k, "idle") => req[k].keys \subseteq Held
    BY DEF Held
  <2>3. CASE c = e
    <3>1. req'[d] = req[d] /\ ~At(d, "idle")
      BY <2>1, <2>3 DEF At
    <3>. QED
      BY <2>1, <2>2, <2>3, <3>1
  <2>4. CASE d = e
    <3>1. req'[c] = req[c] /\ ~At(c, "idle")
      BY <2>1, <2>4 DEF At
    <3>. QED
      BY <2>1, <2>2, <2>4, <3>1
  <2>5. CASE c # e /\ d # e
    BY <2>1, <2>5 DEF KeyInv, At
  <2>. QED
    BY <2>3, <2>4, <2>5
<1>2. ASSUME NEW e \in Clerks, End(e)
      PROVE  (req[c].keys \intersect req[d].keys \subseteq raced)'
  <2>1. /\ req'[e] = Idle /\ \A k \in Clerks : k # e => req'[k] = req[k] /\ raced' = raced
    BY <1>2, EndEffect
  <2>2. c # e /\ d # e
    BY <2>1 DEF At, Idle
  <2>. QED
    BY <2>1, <2>2 DEF KeyInv, At
<1>3. ASSUME NEW e \in Clerks, ReplaceFindings(e)
      PROVE  (req[c].keys \intersect req[d].keys \subseteq raced)'
  <2>1. /\ req'[e].keys = req[e].keys /\ \A k \in Clerks : k # e => req'[k] = req[k]
        /\ raced' = raced /\ ~At(e, "idle")
    <3>1. /\ req'[e] = [pc |-> "stored", keys |-> {<<"findings">>}, run |-> req[e].run,
                       findings |-> req[e].findings, replaced |-> finding]
          /\ \A k \in Clerks : k # e => req'[k] = req[k]
          /\ raced' = raced /\ req[e] = Computed(req[e])
      BY <1>3, ReplaceEffect
    <3>2. PICK run, found, old :
             req[e] = [pc |-> "health", keys |-> {<<"findings">>}, run |-> run,
                       findings |-> found, replaced |-> old]
      BY <3>1 DEF Computed
    <3>. QED
      BY <3>1, <3>2 DEF At
  <2>2. \A k \in {c, d} : ~At(k, "idle") /\ req'[k].keys = req[k].keys
    BY <2>1 DEF At
  <2>. QED
    BY <2>1, <2>2 DEF KeyInv
<1>4. CASE Quiet
  BY <1>4, QuietEffect DEF Quiet, KeyInv, At
<1>. QED
  BY <1>1, <1>2, <1>3, <1>4, Moves DEF Begins, Ends, GoesOn

\* No request but one holds a row that was not raced.
LEMMA HeldAlone ==
  ASSUME KeyInv, NEW c \in Clerks, NEW d \in Clerks, ~At(c, "idle"), ~At(d, "idle"),
         NEW k, k \in req[c].keys, k \in req[d].keys, k \notin raced
  PROVE  c = d
  BY DEF KeyInv

LEMMA DaysOnly == Days' = Days /\ None \notin Days /\ (\A d \in Days : d \in Int) /\ None \in Int
  BY BoundsAssumption DEF Days, None

\* The steps that leave the documents alone, and the requests that hold them.
LEMMA DocumentSteps ==
  ASSUME ReqShape, [Next]_vars
  PROVE  DocumentsNext \/ (UNCHANGED <<document, stored>> /\ Apart({"upload", "version"}))
<1>1. EstateStep => UNCHANGED <<document, stored>> /\ Apart({"upload", "version"})
  BY EstateMoves, StandApart DEF EstateStep, revisions
<1>2. SpecificationStep => UNCHANGED <<document, stored>> /\ Apart({"upload", "version"})
  <2>1. SpecificationsNext => UNCHANGED <<document, stored>>
    BY DEF SpecificationsNext, AddSpecification, ApproveSpecification, BeginRevision,
           AddSpecificationRevision, BeginSubmit, SubmitChangeControl, BeginChangeStatus,
           MoveChangeControl, BeginImplement, ImplementChangeControl, revisions
  <2>2. Revising \intersect {"upload", "version"} = {}
    BY DEF Revising
  <2>. QED
    BY <2>1, <2>2, SpecificationMoves, StandApart DEF SpecificationStep
<1>3. HandoverStep => UNCHANGED <<document, stored>> /\ Apart({"upload", "version"})
  <2>1. HandoverNext => UNCHANGED <<document, stored>>
    BY DEF HandoverNext, UpdateHandoverReadinessWeight, BeginAuthorise, AuthoriseHandover,
           BeginPropertyStatus, UpdatePropertyStatus, revisions
  <2>. QED
    BY <2>1, HandoverMoves, StandApart DEF HandoverStep
<1>4. DataHealthNext => UNCHANGED <<document, stored>> /\ Apart({"upload", "version"})
  <2>1. DataHealthNext => UNCHANGED <<document, stored>>
    BY DEF DataHealthNext, BeginDataHealth, ReplaceFindings, CommitDataHealth, revisions
  <2>. QED
    BY <2>1, HealthMoves, StandApart
<1>5. StillStep => UNCHANGED <<document, stored>> /\ Apart({"upload", "version"})
  <2>1. StillStep => Quiet
    BY DEF StillStep, Quiet
  <2>2. {} \intersect {"upload", "version"} = {}
    OBVIOUS
  <2>. QED
    BY <2>1, <2>2, StandApart DEF StillStep, revisions
<1>. QED
  BY <1>1, <1>2, <1>3, <1>4, <1>5, Steps DEF DocumentStep

\* The steps that leave the specifications and changes alone, and the requests that hold them.
LEMMA SpecificationSteps ==
  ASSUME ReqShape, [Next]_vars
  PROVE  SpecificationsNext \/ (UNCHANGED <<specification, change>> /\ Apart(Revising))
<1>. USE DEF Revising
<1>1. EstateStep => UNCHANGED <<specification, change>> /\ Apart(Revising)
  BY EstateMoves, StandApart DEF EstateStep, revisions
<1>2. DocumentStep => UNCHANGED <<specification, change>> /\ Apart(Revising)
  <2>1. DocumentsNext => UNCHANGED <<specification, change>>
    BY DEF DocumentsNext, Upload, BeginUpload, UploadDocument, BeginVersion, UploadNewVersion
  <2>. QED
    BY <2>1, DocumentMoves, StandApart DEF DocumentStep
<1>3. HandoverStep => UNCHANGED <<specification, change>> /\ Apart(Revising)
  <2>1. HandoverNext => UNCHANGED <<specification, change>>
    BY DEF HandoverNext, UpdateHandoverReadinessWeight, BeginAuthorise, AuthoriseHandover,
           BeginPropertyStatus, UpdatePropertyStatus, revisions
  <2>. QED
    BY <2>1, HandoverMoves, StandApart DEF HandoverStep
<1>4. DataHealthNext => UNCHANGED <<specification, change>> /\ Apart(Revising)
  <2>1. DataHealthNext => UNCHANGED <<specification, change>>
    BY DEF DataHealthNext, BeginDataHealth, ReplaceFindings, CommitDataHealth, revisions
  <2>. QED
    BY <2>1, HealthMoves, StandApart
<1>5. StillStep => UNCHANGED <<specification, change>> /\ Apart(Revising)
  <2>1. StillStep => Quiet
    BY DEF StillStep, Quiet
  <2>2. {} \intersect Revising = {}
    OBVIOUS
  <2>. QED
    BY <2>1, <2>2, StandApart DEF StillStep, revisions
<1>. QED
  BY <1>1, <1>2, <1>3, <1>4, <1>5, Steps DEF SpecificationStep

-----------------------------------------------------------------------------
(* Rows that replace one another *)

\* Each lineage of a table has one current row, or a row of it was held by two at once.
OneOf(key, table, current, races) ==
    \A l \in Lineages(table) :
       \/ \E i \in Versions(table, l) : <<key, i>> \in races
       \/ \E i \in Versions(table, l) : Versions(table, l) \intersect current = {i}

LEMMA MoreHeld ==
  ASSUME NEW key, NEW table, NEW current, NEW races, NEW held, races \subseteq held,
         OneOf(key, table, current, races)
  PROVE  OneOf(key, table, current, held)
  BY DEF OneOf

\* A row that takes the place of the current one of its lineage, or of one held by two.
LEMMA CurrentReplaced ==
  ASSUME NEW key, NEW table, NEW after, NEW n, n \notin DOMAIN table,
         DOMAIN after = DOMAIN table \union {n},
         \A j \in DOMAIN table : after[j].lineage_id = table[j].lineage_id,
         NEW i \in DOMAIN table, after[n].lineage_id = table[i].lineage_id,
         NEW current \in SUBSET DOMAIN table, NEW races, NEW held, races \subseteq held,
         <<key, i>> \in races \/ i \in current,
         OneOf(key, table, current, races)
  PROVE  OneOf(key, after, (current \ {i}) \union {n}, held)
<1>. SUFFICES ASSUME NEW l \in Lineages(after)
              PROVE  \/ \E j \in Versions(after, l) : <<key, j>> \in held
                     \/ \E j \in Versions(after, l) :
                           Versions(after, l) \intersect ((current \ {i}) \union {n}) = {j}
  BY DEF OneOf
<1>1. l \in Lineages(table)
  BY DEF Lineages
<1>2. CASE l = table[i].lineage_id
  <2>1. Versions(after, l) = Versions(table, l) \union {n} /\ i \in Versions(table, l)
    BY <1>2 DEF Versions
  <2>2. CASE \E j \in Versions(table, l) : <<key, j>> \in races
    BY <2>1, <2>2
  <2>3. CASE \E j \in Versions(table, l) : Versions(table, l) \intersect current = {j}
    <3>1. PICK j : Versions(table, l) \intersect current = {j}
      BY <2>3
    <3>2. CASE <<key, i>> \in races
      BY <2>1, <3>2
    <3>3. CASE i \in current
      <4>1. j = i
        BY <2>1, <3>1, <3>3
      <4>2. Versions(after, l) \intersect ((current \ {i}) \union {n}) = {n}
        BY <2>1, <3>1, <4>1
      <4>. QED
        BY <2>1, <4>2
    <3>. QED
      BY <3>2, <3>3
  <2>. QED
    BY <1>1, <2>2, <2>3 DEF OneOf
<1>3. CASE l # table[i].lineage_id
  <2>1. Versions(after, l) = Versions(table, l) /\ i \notin Versions(table, l)
        /\ n \notin Versions(table, l)
    BY <1>3 DEF Versions
  <2>2. Versions(after, l) \intersect ((current \ {i}) \union {n})
           = Versions(table, l) \intersect current
    BY <2>1
  <2>. QED
    BY <1>1, <2>1, <2>2 DEF OneOf
<1>. QED
  BY <1>2, <1>3

\* A row that begins a lineage.
LEMMA LineageBegun ==
  ASSUME NEW key, NEW table, NEW after, NEW n, n \notin DOMAIN table,
         DOMAIN after = DOMAIN table \union {n},
         \A j \in DOMAIN table : after[j].lineage_id = table[j].lineage_id
                                 /\ table[j].lineage_id # n,
         after[n].lineage_id = n,
         NEW current \in SUBSET DOMAIN table, NEW races, NEW held, races \subseteq held,
         OneOf(key, table, current, races)
  PROVE  OneOf(key, after, current \union {n}, held)
<1>. SUFFICES ASSUME NEW l \in Lineages(after)
              PROVE  \/ \E j \in Versions(after, l) : <<key, j>> \in held
                     \/ \E j \in Versions(after, l) :
                           Versions(after, l) \intersect (current \union {n}) = {j}
  BY DEF OneOf
<1>1. CASE l = n
  <2>1. Versions(after, l) = {n}
    BY <1>1 DEF Versions
  <2>. QED
    BY <2>1
<1>2. CASE l # n
  <2>1. Versions(after, l) = Versions(table, l) /\ n \notin Versions(table, l)
        /\ l \in Lineages(table)
    BY <1>2 DEF Versions, Lineages
  <2>2. Versions(after, l) \intersect (current \union {n}) = Versions(table, l) \intersect current
    BY <2>1
  <2>. QED
    BY <2>1, <2>2 DEF OneOf
<1>. QED
  BY <1>1, <1>2

-----------------------------------------------------------------------------
(* Documents *)

DocumentTyped ==
    /\ document \in Seq(Document)
    /\ \A i \in DOMAIN document : document[i].storage_key \in stored
    /\ \A c \in Clerks :
          /\ At(c, "upload") =>
                /\ req[c].keys = {<<"documents">>}
                /\ req[c].related_entity \in Related /\ req[c].document_type \in DocumentTypes
                /\ req[c].document_reference \in Nat \ {0} /\ req[c].checksum \in Checksums
                /\ req[c].storage_key \in Int /\ req[c].storage_key \in stored
          /\ At(c, "version") =>
                /\ req[c].keys = {<<"document", req[c].id>>} /\ req[c].id \in DOMAIN document
                /\ req[c].checksum \in Checksums
                /\ req[c].storage_key \in Int /\ req[c].storage_key \in stored

LEMMA BeginUploadEffect ==
  ASSUME ReqShape, NEW c \in Clerks, BeginUpload(c)
  PROVE  /\ document' = document /\ stored' = stored \union {begun + 1}
         /\ \E u \in Uploads, sum \in Checksums :
               req'[c] = [pc |-> "upload", keys |-> {<<"documents">>}, related_entity |-> u[1],
                          document_type |-> u[2], document_reference |-> Len(document) + 1,
                          storage_key |-> begun + 1, checksum |-> sum]
         /\ \A d \in Clerks : d # c => req'[d] = req[d]
         /\ raced \subseteq raced' /\ {<<"documents">>} \intersect Held \subseteq raced'
<1>1. PICK u \in Uploads, sum \in Checksums :
         Hold(c, [pc |-> "upload", keys |-> {<<"documents">>}, related_entity |-> u[1],
                  document_type |-> u[2], document_reference |-> next_document_reference,
                  storage_key |-> begun + 1, checksum |-> sum])
  BY DEF BeginUpload
<1>. DEFINE r == [pc |-> "upload", keys |-> {<<"documents">>}, related_entity |-> u[1],
                  document_type |-> u[2], document_reference |-> Len(document) + 1,
                  storage_key |-> begun + 1, checksum |-> sum]
<1>2. Hold(c, r) /\ r.pc # "health" /\ r.keys = {<<"documents">>}
  BY <1>1 DEF next_document_reference
<1>. HIDE DEF r
<1>3. /\ req'[c] = r /\ \A d \in Clerks : d # c => req'[d] = req[d]
      /\ raced \subseteq raced' /\ {<<"documents">>} \intersect Held \subseteq raced'
  BY <1>2, HoldEffect
<1>. QED
  BY <1>3 DEF BeginUpload, save, r

LEMMA BeginVersionEffect ==
  ASSUME ReqShape, NEW c \in Clerks, BeginVersion(c)
  PROVE  /\ document' = document /\ stored' = stored \union {begun + 1}
         /\ \E i \in DOMAIN document, sum \in Checksums :
               /\ Replaceable(i)
               /\ req'[c] = [pc |-> "version", keys |-> {<<"document", i>>}, id |-> i,
                             storage_key |-> begun + 1, checksum |-> sum]
         /\ \A d \in Clerks : d # c => req'[d] = req[d]
         /\ raced \subseteq raced'
<1>1. PICK i \in DOMAIN document, sum \in Checksums :
         /\ Replaceable(i)
         /\ Hold(c, [pc |-> "version", keys |-> {<<"document", i>>}, id |-> i,
                     storage_key |-> begun + 1, checksum |-> sum])
  BY DEF BeginVersion
<1>. DEFINE r == [pc |-> "version", keys |-> {<<"document", i>>}, id |-> i,
                  storage_key |-> begun + 1, checksum |-> sum]
<1>2. Hold(c, r) /\ r.pc # "health"
  BY <1>1
<1>. HIDE DEF r
<1>3. /\ req'[c] = r /\ (\A d \in Clerks : d # c => req'[d] = req[d]) /\ raced \subseteq raced'
  BY <1>2, HoldEffect
<1>. QED
  BY <1>1, <1>3 DEF BeginVersion, save, r

LEMMA UploadEffect ==
  ASSUME ReqShape, DocumentTyped, NEW c \in Clerks, UploadDocument(c)
  PROVE  LET n == Len(document) + 1 IN
         /\ At(c, "upload") /\ document' \in Seq(Document) /\ stored' = stored
         /\ n \in Nat /\ n \notin DOMAIN document /\ DOMAIN document' = DOMAIN document \union {n}
         /\ Len(document') = n
         /\ \A i \in DOMAIN document : document'[i] = document[i]
         /\ document'[n].lineage_id = n /\ document'[n].status = "ACTIVE"
         /\ document'[n].document_reference = req[c].document_reference
         /\ document'[n].storage_key \in stored
         /\ req'[c] = Idle /\ \A d \in Clerks : d # c => req'[d] = req[d]
         /\ raced' = raced
<1>. DEFINE n   == Len(document) + 1
            row == [lineage_id |-> n, document_reference |-> req[c].document_reference,
                    status |-> "ACTIVE", superseded_by_document_id |-> None,
                    related_entity |-> req[c].related_entity,
                    document_type |-> req[c].document_type,
                    storage_key |-> req[c].storage_key, checksum |-> req[c].checksum]
<1>1. At(c, "upload") /\ document' = Append(document, row) /\ stored' = stored
  BY DEF UploadDocument, NextId
<1>2. n \in Nat \ {0}
  BY TableType DEF DocumentTyped
<1>3. row \in Document
  BY <1>1, <1>2 DEF DocumentTyped, Document, DocumentStatus, None
<1>4. /\ row.lineage_id = n /\ row.status = "ACTIVE" /\ row.storage_key \in stored
      /\ row.document_reference = req[c].document_reference
  BY <1>1 DEF DocumentTyped
<1>. HIDE DEF row
<1>5. /\ document' \in Seq(Document) /\ n \notin DOMAIN document
      /\ DOMAIN document' = DOMAIN document \union {n} /\ Len(document') = n
      /\ \A i \in DOMAIN document : document'[i] = document[i]
      /\ document'[n] = row
  BY <1>1, <1>3, RowAppended DEF DocumentTyped
<1>6. End(c)
  BY DEF UploadDocument
<1>. QED
  BY <1>1, <1>2, <1>4, <1>5, <1>6, EndEffect

LEMMA VersionEffect ==
  ASSUME ReqShape, DocumentTyped, NEW c \in Clerks, UploadNewVersion(c)
  PROVE  LET n == Len(document) + 1
             i == req[c].id
         IN  /\ At(c, "version") /\ document' \in Seq(Document) /\ stored' = stored
             /\ i \in DOMAIN document
             /\ n \in Nat /\ n \notin DOMAIN document
             /\ DOMAIN document' = DOMAIN document \union {n} /\ Len(document') = n
             /\ \A j \in DOMAIN document : j # i => document'[j] = document[j]
             /\ document'[i].status = "SUPERSEDED" /\ document'[n].status = "ACTIVE"
             /\ document'[i].storage_key = document[i].storage_key
             /\ document'[n].storage_key \in stored
             /\ \A j \in {i, n} :
                   /\ document'[j].lineage_id = document[i].lineage_id
                   /\ document'[j].document_reference = document[i].document_reference
             /\ req'[c] = Idle /\ \A d \in Clerks : d # c => req'[d] = req[d]
             /\ raced' = raced
<1>. DEFINE n == Len(document) + 1
            i == req[c].id
            old == [document[i] EXCEPT !.status = "SUPERSEDED", !.superseded_by_document_id = n]
            row == [document[i] EXCEPT !.status = "ACTIVE", !.superseded_by_document_id = None,
                                       !.storage_key = req[c].storage_key,
                                       !.checksum = req[c].checksum]
            mid == [document EXCEPT ![i] = old]
<1>1. At(c, "version") /\ i \in DOMAIN document /\ document[i] \in Document
      /\ req[c].storage_key \in Int /\ req[c].storage_key \in stored
      /\ req[c].checksum \in Checksums
  BY TableType DEF UploadNewVersion, DocumentTyped
<1>2. document' = Append(mid, row) /\ stored' = stored /\ End(c)
  BY <1>1 DEF UploadNewVersion, NextId
<1>3. n \in Nat \ {0}
  BY TableType DEF DocumentTyped
<1>4. old \in Document /\ row \in Document
  BY <1>1, <1>3 DEF Document, DocumentStatus, None
<1>6. /\ old.status = "SUPERSEDED" /\ row.status = "ACTIVE"
      /\ old.storage_key = document[i].storage_key /\ row.storage_key \in stored
      /\ old.lineage_id = document[i].lineage_id /\ row.lineage_id = document[i].lineage_id
      /\ old.document_reference = document[i].document_reference
      /\ row.document_reference = document[i].document_reference
  BY <1>1 DEF Document
<1>. HIDE DEF old, row
<1>7. /\ mid \in Seq(Document) /\ DOMAIN mid = DOMAIN document /\ Len(mid) = Len(document)
      /\ mid[i] = old /\ \A j \in DOMAIN document : j # i => mid[j] = document[j]
  BY <1>1, <1>4, RowWritten DEF DocumentTyped
<1>. HIDE DEF mid
<1>8. /\ document' \in Seq(Document) /\ Len(document') = n /\ n \notin DOMAIN document
      /\ DOMAIN document' = DOMAIN document \union {n}
      /\ document'[n] = row /\ \A j \in DOMAIN document : document'[j] = mid[j]
  BY <1>2, <1>4, <1>7, RowAppended
<1>9. req'[c] = Idle /\ (\A d \in Clerks : d # c => req'[d] = req[d]) /\ raced' = raced
  BY <1>2, EndEffect
<1>. QED
  BY <1>1, <1>2, <1>3, <1>6, <1>7, <1>8, <1>9

LEMMA DocumentTypedNext == ReqShape /\ DocumentTyped /\ [Next]_vars => DocumentTyped'
<1>. SUFFICES ASSUME ReqShape, DocumentTyped, [Next]_vars PROVE DocumentTyped'
  OBVIOUS
<1>0. begun + 1 \in Int
  BY BoundsAssumption DEF ReqShape, RequestsOK
<1>1. ASSUME NEW c \in Clerks, BeginUpload(c) PROVE DocumentTyped'
  <2>1. /\ document' = document /\ stored' = stored \union {begun + 1}
        /\ \A d \in Clerks : d # c => req'[d] = req[d]
    BY <1>1, BeginUploadEffect
  <2>2. PICK u \in Uploads, sum \in Checksums :
           req'[c] = [pc |-> "upload", keys |-> {<<"documents">>}, related_entity |-> u[1],
                      document_type |-> u[2], document_reference |-> Len(document) + 1,
                      storage_key |-> begun + 1, checksum |-> sum]
    BY <1>1, BeginUploadEffect
  <2>3. Len(document) + 1 \in Nat \ {0}
    BY TableType DEF DocumentTyped
  <2>4. u[1] \in Related /\ u[2] \in DocumentTypes
    BY RevisionsAssumption
  <2>5. \A d \in Clerks : At(d, "version")' => d # c
    BY <2>2 DEF At
  <2>. QED
    BY <1>0, <2>1, <2>2, <2>3, <2>4, <2>5 DEF DocumentTyped, At
<1>2. ASSUME NEW c \in Clerks, BeginVersion(c) PROVE DocumentTyped'
  <2>1. /\ document' = document /\ stored' = stored \union {begun + 1}
        /\ \A d \in Clerks : d # c => req'[d] = req[d]
    BY <1>2, BeginVersionEffect
  <2>2. PICK i \in DOMAIN document, sum \in Checksums :
           req'[c] = [pc |-> "version", keys |-> {<<"document", i>>}, id |-> i,
                      storage_key |-> begun + 1, checksum |-> sum]
    BY <1>2, BeginVersionEffect
  <2>3. \A d \in Clerks : At(d, "upload")' => d # c
    BY <2>2 DEF At
  <2>. QED
    BY <1>0, <2>1, <2>2, <2>3 DEF DocumentTyped, At
<1>3. ASSUME NEW c \in Clerks, UploadDocument(c) PROVE DocumentTyped'
  <2>1. \A d \in Clerks : ~At(d, "idle")' => d # c /\ req'[d] = req[d]
    BY <1>3, UploadEffect DEF At, Idle
  <2>2. /\ document' \in Seq(Document) /\ stored' = stored
        /\ DOMAIN document \subseteq DOMAIN document'
        /\ \A i \in DOMAIN document' : document'[i].storage_key \in stored'
    BY <1>3, UploadEffect DEF DocumentTyped
  <2>. QED
    BY <2>1, <2>2 DEF DocumentTyped, At
<1>4. ASSUME NEW c \in Clerks, UploadNewVersion(c) PROVE DocumentTyped'
  <2>1. \A d \in Clerks : ~At(d, "idle")' => d # c /\ req'[d] = req[d]
    BY <1>4, VersionEffect DEF At, Idle
  <2>2. /\ document' \in Seq(Document) /\ stored' = stored
        /\ DOMAIN document \subseteq DOMAIN document'
        /\ \A i \in DOMAIN document' : document'[i].storage_key \in stored'
    BY <1>4, VersionEffect DEF DocumentTyped
  <2>. QED
    BY <2>1, <2>2 DEF DocumentTyped, At
<1>5. CASE UNCHANGED <<document, stored>> /\ Apart({"upload", "version"})
  <2>1. \A c \in Clerks : At(c, "upload")' \/ At(c, "version")' => req'[c] = req[c]
    BY <1>5 DEF Apart, At
  <2>. QED
    BY <1>5, <2>1 DEF DocumentTyped, At
<1>. QED
  BY <1>1, <1>2, <1>3, <1>4, <1>5, DocumentSteps DEF DocumentsNext, Upload

LEMMA DocumentTypedInit == Init => DocumentTyped
<1>. SUFFICES ASSUME Init PROVE DocumentTyped
  OBVIOUS
<1>1. PICK e \in Estates[focus] : RevisionsInit(e.document)
  BY DEF Init
<1>2. Uploaded(e.document) /\ document = e.document
  BY <1>1, DevelopmentAssumption DEF Init, RevisionsInit
<1>3. \A c \in Clerks : req[c] = Idle
  BY DEF Init, RequestsInit
<1>. QED
  BY <1>1, <1>2, <1>3 DEF RevisionsInit, Uploaded, DocumentTyped, At, Idle

CurrentDocuments == {i \in DOMAIN document : document[i].status # "SUPERSEDED"}

\* References are counted from the documents there are; one that was counted and not yet
\* used is above those used.
ReferenceInv ==
    /\ \A i \in DOMAIN document : document[i].document_reference \in 1..Len(document)
    /\ \A c \in Clerks : At(c, "upload") => req[c].document_reference \in 1..(Len(document) + 1)
    /\ \/ <<"documents">> \in raced
       \/ /\ \A c \in Clerks : At(c, "upload") =>
                \A i \in DOMAIN document :
                   document[i].document_reference < req[c].document_reference
          /\ \A i, j \in DOMAIN document :
                document[i].document_reference = document[j].document_reference
                   => document[i].lineage_id = document[j].lineage_id

\* What a request is to replace is current until it does.
DocumentInv ==
    /\ \A i \in DOMAIN document : document[i].lineage_id \in DOMAIN document
    /\ OneOf("document", document, CurrentDocuments, raced)
    /\ \A c \in Clerks :
          At(c, "version") => <<"document", req[c].id>> \in raced \/ req[c].id \in CurrentDocuments

LEMMA ReferenceNext ==
  ReqShape /\ KeyInv /\ DocumentTyped /\ ReferenceInv /\ [Next]_vars => ReferenceInv'
<1>. SUFFICES ASSUME ReqShape, KeyInv, DocumentTyped, ReferenceInv, [Next]_vars
              PROVE  ReferenceInv'
  OBVIOUS
<1>0. Len(document) \in Nat /\ DOMAIN document = 1..Len(document)
  BY TableType DEF DocumentTyped
<1>1. ASSUME NEW c \in Clerks, BeginUpload(c) PROVE ReferenceInv'
  <2>1. /\ document' = document /\ raced \subseteq raced'
        /\ \A d \in Clerks : d # c => req'[d] = req[d]
    BY <1>1, BeginUploadEffect
  <2>2. PICK u \in Uploads, sum \in Checksums :
           req'[c] = [pc |-> "upload", keys |-> {<<"documents">>}, related_entity |-> u[1],
                      document_type |-> u[2], document_reference |-> Len(document) + 1,
                      storage_key |-> begun + 1, checksum |-> sum]
    BY <1>1, BeginUploadEffect
  <2>3. req'[c].document_reference = Len(document) + 1
    BY <2>2
  <2>. QED
    BY <1>0, <2>1, <2>3 DEF ReferenceInv, At
<1>2. ASSUME NEW c \in Clerks, BeginVersion(c) PROVE ReferenceInv'
  <2>1. /\ document' = document /\ raced \subseteq raced'
        /\ \A d \in Clerks : d # c => req'[d] = req[d]
    BY <1>2, BeginVersionEffect
  <2>2. PICK i \in DOMAIN document, sum \in Checksums :
           req'[c] = [pc |-> "version", keys |-> {<<"document", i>>}, id |-> i,
                      storage_key |-> begun + 1, checksum |-> sum]
    BY <1>2, BeginVersionEffect
  <2>3. \A d \in Clerks : At(d, "upload")' => d # c
    BY <2>2 DEF At
  <2>. QED
    BY <2>1, <2>3 DEF ReferenceInv, At
<1>3. ASSUME NEW c \in Clerks, UploadDocument(c) PROVE ReferenceInv'
  <2>. DEFINE n == Len(document) + 1
  <2>1. /\ At(c, "upload") /\ DOMAIN document' = DOMAIN document \union {n}
        /\ Len(document') = n /\ raced' = raced
        /\ \A i \in DOMAIN document : document'[i] = document[i]
        /\ document'[n].lineage_id = n
        /\ document'[n].document_reference = req[c].document_reference
    BY <1>3, UploadEffect
  <2>2. \A d \in Clerks : At(d, "upload")' => d # c /\ req'[d] = req[d] /\ At(d, "upload")
    BY <1>3, UploadEffect DEF At, Idle
  <2>3. /\ \A i \in DOMAIN document' : document'[i].document_reference \in 1..Len(document')
        /\ \A d \in Clerks : At(d, "upload")'
              => req'[d].document_reference \in 1..(Len(document') + 1)
    BY <1>0, <2>1, <2>2 DEF ReferenceInv
  <2>4. ASSUME <<"documents">> \notin raced
        PROVE  /\ ~\E d \in Clerks : At(d, "upload")'
               /\ \A i, j \in DOMAIN document' :
                     document'[i].document_reference = document'[j].document_reference
                        => document'[i].lineage_id = document'[j].lineage_id
    <3>1. \A d \in Clerks : At(d, "upload") => d = c
      BY <2>1, <2>4 DEF KeyInv, DocumentTyped, At
    <3>2. \A i \in DOMAIN document :
             document[i].document_reference # document'[n].document_reference
      BY <2>1, <2>4, <1>0 DEF ReferenceInv, DocumentTyped
    <3>. QED
      BY <2>1, <2>2, <2>4, <3>1, <3>2 DEF ReferenceInv
  <2>. QED
    BY <2>1, <2>3, <2>4 DEF ReferenceInv
<1>4. ASSUME NEW c \in Clerks, UploadNewVersion(c) PROVE ReferenceInv'
  <2>. DEFINE n == Len(document) + 1
              i == req[c].id
  <2>1. /\ DOMAIN document' = DOMAIN document \union {n} /\ i \in DOMAIN document
        /\ Len(document') = n /\ raced' = raced
    BY <1>4, VersionEffect
  <2>2. \A d \in Clerks : At(d, "upload")' => d # c /\ req'[d] = req[d] /\ At(d, "upload")
    BY <1>4, VersionEffect DEF At, Idle
  <2>3. /\ \A j \in DOMAIN document : j # i => document'[j] = document[j]
        /\ \A j \in {i, n} :
              /\ document'[j].lineage_id = document[i].lineage_id
              /\ document'[j].document_reference = document[i].document_reference
    BY <1>4, VersionEffect
  <2>4. \A j \in DOMAIN document' : \E k \in DOMAIN document :
           /\ document'[j].lineage_id = document[k].lineage_id
           /\ document'[j].document_reference = document[k].document_reference
    BY <2>1, <2>3
  <2>. HIDE DEF i
  <2>5. \A j \in DOMAIN document' : document'[j].document_reference \in 1..Len(document')
    <3>. TAKE j \in DOMAIN document'
    <3>1. PICK k \in DOMAIN document :
             document'[j].document_reference = document[k].document_reference
      BY <2>4
    <3>. QED
      BY <1>0, <2>1, <3>1 DEF ReferenceInv
  <2>6. \A d \in Clerks : At(d, "upload")'
              => req'[d].document_reference \in 1..(Len(document') + 1)
    BY <1>0, <2>1, <2>2 DEF ReferenceInv
  <2>7. ASSUME <<"documents">> \notin raced
        PROVE  /\ \A d \in Clerks : At(d, "upload")' => \A j \in DOMAIN document' :
                     document'[j].document_reference < req'[d].document_reference
               /\ \A j, k \in DOMAIN document' :
                     document'[j].document_reference = document'[k].document_reference
                        => document'[j].lineage_id = document'[k].lineage_id
    <3>1. \A j \in DOMAIN document, d \in Clerks :
             At(d, "upload") => document[j].document_reference < req[d].document_reference
      BY <2>7 DEF ReferenceInv
    <3>2. \A d \in Clerks : At(d, "upload")' => \A j \in DOMAIN document' :
                     document'[j].document_reference < req'[d].document_reference
      BY <2>2, <2>4, <3>1
    <3>3. \A j, k \in DOMAIN document :
             document[j].document_reference = document[k].document_reference
                => document[j].lineage_id = document[k].lineage_id
      BY <2>7 DEF ReferenceInv
    <3>4. ASSUME NEW j \in DOMAIN document', NEW k \in DOMAIN document',
                 document'[j].document_reference = document'[k].document_reference
          PROVE  document'[j].lineage_id = document'[k].lineage_id
      <4>1. PICK m \in DOMAIN document :
               /\ document'[j].lineage_id = document[m].lineage_id
               /\ document'[j].document_reference = document[m].document_reference
        BY <2>4
      <4>2. PICK o \in DOMAIN document :
               /\ document'[k].lineage_id = document[o].lineage_id
               /\ document'[k].document_reference = document[o].document_reference
        BY <2>4
      <4>. QED
        BY <3>3, <3>4, <4>1, <4>2
    <3>. QED
      BY <3>2, <3>4
  <2>. QED
    BY <2>1, <2>5, <2>6, <2>7 DEF ReferenceInv
<1>5. CASE UNCHANGED <<document, stored>> /\ Apart({"upload", "version"})
  <2>1. \A c \in Clerks : At(c, "upload")' => req'[c] = req[c] /\ At(c, "upload")
    BY <1>5 DEF Apart, At
  <2>. QED
    BY <1>5, <2>1 DEF ReferenceInv, Apart
<1>. QED
  BY <1>1, <1>2, <1>3, <1>4, <1>5, DocumentSteps DEF DocumentsNext, Upload

LEMMA DocumentNext ==
  ReqShape /\ KeyInv /\ DocumentTyped /\ DocumentInv /\ [Next]_vars => DocumentInv'
<1>. SUFFICES ASSUME ReqShape, KeyInv, DocumentTyped, DocumentInv, [Next]_vars
              PROVE  DocumentInv'
  OBVIOUS
<1>0. raced \subseteq raced' /\ CurrentDocuments \subseteq DOMAIN document
  BY ShapeNext DEF CurrentDocuments
<1>1. ASSUME document' = document,
             \A d \in Clerks : At(d, "version")' =>
                \/ req'[d] = req[d] /\ At(d, "version")
                \/ req'[d].id \in CurrentDocuments
      PROVE  DocumentInv'
  <2>1. CurrentDocuments' = CurrentDocuments
    BY <1>1 DEF CurrentDocuments
  <2>2. OneOf("document", document, CurrentDocuments, raced)'
    BY <1>0, <1>1, <2>1, MoreHeld DEF DocumentInv
  <2>. QED
    BY <1>0, <1>1, <2>1, <2>2 DEF DocumentInv
<1>2. ASSUME NEW c \in Clerks, BeginUpload(c) PROVE DocumentInv'
  <2>1. document' = document /\ \A d \in Clerks : d # c => req'[d] = req[d]
    BY <1>2, BeginUploadEffect
  <2>2. PICK u \in Uploads, sum \in Checksums :
           req'[c] = [pc |-> "upload", keys |-> {<<"documents">>}, related_entity |-> u[1],
                      document_type |-> u[2], document_reference |-> Len(document) + 1,
                      storage_key |-> begun + 1, checksum |-> sum]
    BY <1>2, BeginUploadEffect
  <2>3. ~At(c, "version")'
    BY <2>2 DEF At
  <2>. QED
    BY <1>1, <2>1, <2>3 DEF At
<1>3. ASSUME NEW c \in Clerks, BeginVersion(c) PROVE DocumentInv'
  <2>1. document' = document /\ \A d \in Clerks : d # c => req'[d] = req[d]
    BY <1>3, BeginVersionEffect
  <2>2. PICK i \in DOMAIN document, sum \in Checksums :
           /\ Replaceable(i)
           /\ req'[c] = [pc |-> "version", keys |-> {<<"document", i>>}, id |-> i,
                         storage_key |-> begun + 1, checksum |-> sum]
    BY <1>3, BeginVersionEffect
  <2>3. req'[c].id \in CurrentDocuments
    BY <2>2 DEF Replaceable, CurrentDocuments
  <2>. QED
    BY <1>1, <2>1, <2>3 DEF At
<1>4. ASSUME NEW c \in Clerks, UploadDocument(c) PROVE DocumentInv'
  <2>. DEFINE n == Len(document) + 1
  <2>1. /\ DOMAIN document' = DOMAIN document \union {n} /\ n \notin DOMAIN document
        /\ \A i \in DOMAIN document : document'[i] = document[i]
        /\ document'[n].lineage_id = n /\ document'[n].status = "ACTIVE"
    BY <1>4, UploadEffect
  <2>2. \A d \in Clerks : At(d, "version")' => req'[d] = req[d] /\ At(d, "version")
    BY <1>4, UploadEffect DEF At, Idle
  <2>3. CurrentDocuments' = CurrentDocuments \union {n}
    BY <2>1 DEF CurrentDocuments
  <2>. HIDE DEF n
  <2>4. OneOf("document", document', CurrentDocuments \union {n}, raced')
    BY <1>0, <2>1, LineageBegun DEF DocumentInv
  <2>5. \A i \in DOMAIN document' : document'[i].lineage_id \in DOMAIN document'
    BY <2>1 DEF DocumentInv
  <2>. QED
    BY <1>0, <2>2, <2>3, <2>4, <2>5 DEF DocumentInv
<1>5. ASSUME NEW c \in Clerks, UploadNewVersion(c) PROVE DocumentInv'
  <2>. DEFINE n == Len(document) + 1
              i == req[c].id
  <2>1. /\ DOMAIN document' = DOMAIN document \union {n} /\ n \notin DOMAIN document
        /\ i \in DOMAIN document /\ At(c, "version")
        /\ \A j \in DOMAIN document : j # i => document'[j] = document[j]
        /\ document'[i].status = "SUPERSEDED" /\ document'[n].status = "ACTIVE"
        /\ document'[i].lineage_id = document[i].lineage_id
        /\ document'[n].lineage_id = document[i].lineage_id
    BY <1>5, VersionEffect
  <2>2. \A d \in Clerks : At(d, "version")' => req'[d] = req[d] /\ At(d, "version") /\ d # c
    BY <1>5, VersionEffect DEF At, Idle
  <2>3. CurrentDocuments' = (CurrentDocuments \ {i}) \union {n}
    BY <2>1 DEF CurrentDocuments
  <2>4. <<"document", i>> \in raced \/ i \in CurrentDocuments
    BY <2>1 DEF DocumentInv
  <2>5. \A d \in Clerks : At(d, "version")' /\ req[d].id = i => <<"document", i>> \in raced
    BY <2>1, <2>2 DEF KeyInv, DocumentTyped, At
  <2>. HIDE DEF n, i
  <2>6. OneOf("document", document', (CurrentDocuments \ {i}) \union {n}, raced')
    BY <1>0, <2>1, <2>4, CurrentReplaced DEF DocumentInv
  <2>7. \A j \in DOMAIN document' : document'[j].lineage_id \in DOMAIN document'
    BY <2>1 DEF DocumentInv
  <2>8. \A d \in Clerks : At(d, "version")' =>
           <<"document", req'[d].id>> \in raced' \/ req'[d].id \in CurrentDocuments'
    BY <1>0, <2>2, <2>3, <2>5 DEF DocumentInv
  <2>. QED
    BY <2>3, <2>6, <2>7, <2>8 DEF DocumentInv
<1>6. CASE UNCHANGED <<document, stored>> /\ Apart({"upload", "version"})
  <2>1. \A c \in Clerks : At(c, "version")' => req'[c] = req[c] /\ At(c, "version")
    BY <1>6 DEF Apart, At
  <2>. QED
    BY <1>1, <1>6, <2>1
<1>. QED
  BY <1>2, <1>3, <1>4, <1>5, <1>6, DocumentSteps DEF DocumentsNext, Upload

LEMMA DocumentInit == Init => ReferenceInv /\ DocumentInv
<1>. SUFFICES ASSUME Init PROVE ReferenceInv /\ DocumentInv
  OBVIOUS
<1>1. PICK e \in Estates[focus] : RevisionsInit(e.document)
  BY DEF Init
<1>2. Uploaded(document)
  BY <1>1, DevelopmentAssumption DEF Init, RevisionsInit
<1>3. Len(document) \in Nat /\ DOMAIN document = 1..Len(document)
  BY <1>2, TableType DEF Uploaded
<1>4. \A c \in Clerks : ~At(c, "upload") /\ ~At(c, "version")
  BY DEF Init, RequestsInit, At, Idle
<1>5. \A l \in Lineages(document) : Versions(document, l) \intersect CurrentDocuments = {l}
                                    /\ l \in Versions(document, l)
  BY <1>2 DEF Lineages, Versions, CurrentDocuments, Uploaded
<1>. QED
  BY <1>2, <1>3, <1>4, <1>5 DEF ReferenceInv, DocumentInv, OneOf, Uploaded

-----------------------------------------------------------------------------
(* Specifications and change controls *)

\* What a request of specifications or change controls holds.
HeldTyped(r) ==
    /\ r.pc = "revise" =>
          /\ r.keys = {<<"specification", r.id>>} /\ r.id \in DOMAIN specification
          /\ r.given \in Proposals
    /\ r.pc = "submit" =>
          /\ r.row \in ChangeControl /\ r.row.specification_id \in DOMAIN specification
          /\ r.row.status = "PROPOSED" /\ r.row.implemented_specification_id = None
    /\ r.pc = "change" =>
          /\ r.keys = {<<"change", r.id>>} /\ r.id \in DOMAIN change
          /\ r.to \in ChangeControlStatus \ {"IMPLEMENTED"}
    /\ r.pc = "implement" =>
          /\ r.id \in DOMAIN change
          /\ r.keys = {<<"change", r.id>>, <<"specification", change[r.id].specification_id>>}

SpecificationTyped ==
    /\ specification \in Seq(Specification) /\ change \in Seq(ChangeControl)
    /\ \A k \in DOMAIN change : change[k].specification_id \in DOMAIN specification
    /\ \A c \in Clerks : HeldTyped(req[c])

\* What a revision says, and keeps saying.
Says(row) == <<row.lineage_id, row.content, row.related_entity>>

\* A revision takes the place of s.
RevisedTo(after, s, given) ==
    LET n == Len(specification) + 1 IN
    /\ after \in Seq(Specification)
    /\ DOMAIN after = DOMAIN specification \union {n} /\ n \notin DOMAIN specification
    /\ \A j \in DOMAIN specification : j # s => after[j] = specification[j]
    /\ Says(after[s]) = Says(specification[s]) /\ after[s].status = "SUPERSEDED"
    /\ after[n].lineage_id = specification[s].lineage_id
    /\ after[n].related_entity = specification[s].related_entity
    /\ after[n].content = Revised(specification[s].content, given)
    /\ after[n].status = "ACTIVE"

LEMMA RevisionEffect ==
  ASSUME specification \in Seq(Specification), NEW s \in DOMAIN specification,
         NEW given \in Proposals
  PROVE  RevisedTo(create_specification_revision(s, given), s, given)
<1>. DEFINE n   == Len(specification) + 1
            old == [specification[s] EXCEPT !.status = "SUPERSEDED"]
            row == [specification[s] EXCEPT !.content  = Revised(@, given),
                                            !.status   = "ACTIVE",
                                            !.approved = FALSE]
            mid == [specification EXCEPT ![s] = old]
<1>1. create_specification_revision(s, given) = Append(mid, row)
      /\ specification[s] \in Specification
  BY TableType DEF create_specification_revision
<1>1a. Revised(specification[s].content, given) \in Contents
  BY <1>1 DEF Specification, Revised, Contents, Proposals
<1>2. old \in Specification /\ row \in Specification
  BY <1>1, <1>1a DEF Specification, SpecificationStatus
<1>3. /\ Says(old) = Says(specification[s]) /\ old.status = "SUPERSEDED"
      /\ row.lineage_id = specification[s].lineage_id /\ row.status = "ACTIVE"
      /\ row.related_entity = specification[s].related_entity
      /\ row.content = Revised(specification[s].content, given)
  BY <1>1 DEF Specification, Says
<1>. HIDE DEF old, row
<1>4. /\ mid \in Seq(Specification) /\ DOMAIN mid = DOMAIN specification
      /\ Len(mid) = Len(specification)
      /\ mid[s] = old /\ \A j \in DOMAIN specification : j # s => mid[j] = specification[j]
  BY <1>2, RowWritten
<1>. HIDE DEF mid
<1>5. /\ Append(mid, row) \in Seq(Specification) /\ n \notin DOMAIN specification
      /\ DOMAIN Append(mid, row) = DOMAIN specification \union {n}
      /\ Append(mid, row)[n] = row
      /\ \A j \in DOMAIN specification : Append(mid, row)[j] = mid[j]
  BY <1>2, <1>4, RowAppended
<1>. QED
  BY <1>1, <1>3, <1>4, <1>5 DEF RevisedTo

\* A step that begins a request of clerk c with record r.
Starts(c, r) ==
    /\ req'[c] = r /\ \A d \in Clerks : d # c => req'[d] = req[d]
    /\ UNCHANGED <<specification, change>>

LEMMA BeginRevisionEffect ==
  ASSUME ReqShape, NEW c \in Clerks, BeginRevision(c)
  PROVE  \E s \in DOMAIN specification, given \in Proposals :
            /\ Current(s)
            /\ Starts(c, [pc |-> "revise", keys |-> {<<"specification", s>>}, id |-> s,
                          given |-> given])
<1>1. PICK s \in DOMAIN specification, given \in Proposals :
         /\ Current(s)
         /\ Hold(c, [pc |-> "revise", keys |-> {<<"specification", s>>}, id |-> s,
                     given |-> given])
  BY RevisionsAssumption DEF BeginRevision
<1>. DEFINE r == [pc |-> "revise", keys |-> {<<"specification", s>>}, id |-> s,
                  given |-> given]
<1>2. Hold(c, r) /\ r.pc # "health"
  BY <1>1
<1>. HIDE DEF r
<1>3. req'[c] = r /\ \A d \in Clerks : d # c => req'[d] = req[d]
  BY <1>2, HoldEffect
<1>. QED
  BY <1>1, <1>3 DEF BeginRevision, Starts, r, revisions

LEMMA BeginSubmitEffect ==
  ASSUME ReqShape, NEW c \in Clerks, BeginSubmit(c)
  PROVE  \E s \in DOMAIN specification, proposed \in Proposals :
            Starts(c, [pc |-> "submit", keys |-> {<<"proposal", s>>},
                       row |-> submit_change_control(s, proposed)])
<1>1. PICK s \in DOMAIN specification, proposed \in Proposals :
         Hold(c, [pc |-> "submit", keys |-> {<<"proposal", s>>},
                  row |-> submit_change_control(s, proposed)])
  BY RevisionsAssumption DEF BeginSubmit
<1>. DEFINE r == [pc |-> "submit", keys |-> {<<"proposal", s>>},
                  row |-> submit_change_control(s, proposed)]
<1>2. Hold(c, r) /\ r.pc # "health"
  BY <1>1
<1>. HIDE DEF r
<1>3. req'[c] = r /\ \A d \in Clerks : d # c => req'[d] = req[d]
  BY <1>2, HoldEffect
<1>. QED
  BY <1>3 DEF BeginSubmit, Starts, r, revisions

LEMMA BeginChangeStatusEffect ==
  ASSUME ReqShape, NEW c \in Clerks, BeginChangeStatus(c)
  PROVE  \E k \in DOMAIN change, to \in DOMAIN AllowedFrom \ {"IMPLEMENTED"} :
            /\ _require_change_control_transition(k, to)
            /\ Starts(c, [pc |-> "change", keys |-> {<<"change", k>>}, id |-> k, to |-> to])
<1>1. PICK k \in DOMAIN change, to \in DOMAIN AllowedFrom \ {"IMPLEMENTED"} :
         /\ _require_change_control_transition(k, to)
         /\ Hold(c, [pc |-> "change", keys |-> {<<"change", k>>}, id |-> k, to |-> to])
  BY DEF BeginChangeStatus
<1>. DEFINE r == [pc |-> "change", keys |-> {<<"change", k>>}, id |-> k, to |-> to]
<1>2. Hold(c, r) /\ r.pc # "health"
  BY <1>1
<1>. HIDE DEF r
<1>3. req'[c] = r /\ \A d \in Clerks : d # c => req'[d] = req[d]
  BY <1>2, HoldEffect
<1>. QED
  BY <1>1, <1>3 DEF BeginChangeStatus, Starts, r, revisions

LEMMA BeginImplementEffect ==
  ASSUME ReqShape, NEW c \in Clerks, BeginImplement(c)
  PROVE  \E k \in DOMAIN change :
            /\ _require_change_control_transition(k, "IMPLEMENTED")
            /\ Current(change[k].specification_id)
            /\ Starts(c, [pc |-> "implement",
                          keys |-> {<<"change", k>>,
                                   <<"specification", change[k].specification_id>>},
                          id |-> k])
<1>1. PICK k \in DOMAIN change :
         /\ _require_change_control_transition(k, "IMPLEMENTED")
         /\ Current(change[k].specification_id)
         /\ Hold(c, [pc |-> "implement",
                     keys |-> {<<"change", k>>, <<"specification", change[k].specification_id>>},
                     id |-> k])
  BY DEF BeginImplement
<1>. DEFINE r == [pc |-> "implement",
                  keys |-> {<<"change", k>>, <<"specification", change[k].specification_id>>},
                  id |-> k]
<1>2. Hold(c, r) /\ r.pc # "health"
  BY <1>1
<1>. HIDE DEF r
<1>3. req'[c] = r /\ \A d \in Clerks : d # c => req'[d] = req[d]
  BY <1>2, HoldEffect
<1>. QED
  BY <1>1, <1>3 DEF BeginImplement, Starts, r, revisions

\* A request that ends leaves the others as they stood.
Finishes(c) == /\ \A d \in Clerks : ~At(d, "idle")' => d # c
               /\ \A d \in Clerks : d # c => req'[d] = req[d]

LEMMA FinishEffect == ASSUME ReqShape, NEW c \in Clerks, End(c) PROVE Finishes(c)
  BY EndEffect DEF Finishes, At, Idle

\* The rows say what they said, and are where they were.
SaysTheSame ==
    /\ specification' \in Seq(Specification) /\ DOMAIN specification' = DOMAIN specification
    /\ \A s \in DOMAIN specification : /\ Says(specification'[s]) = Says(specification[s])
                                       /\ specification'[s].status = specification[s].status

LEMMA AddSpecificationEffect ==
  ASSUME ReqShape, SpecificationTyped, AddSpecification
  PROVE  LET n == Len(specification) + 1 IN
         /\ specification' \in Seq(Specification) /\ n \notin DOMAIN specification
         /\ DOMAIN specification' = DOMAIN specification \union {n}
         /\ \A s \in DOMAIN specification : specification'[s] = specification[s]
         /\ specification'[n].lineage_id = n /\ specification'[n].status = "ACTIVE"
         /\ change' = change /\ req' = req
<1>1. PICK e \in Related, content \in Contents :
         specification' = Append(specification, create_specification(e, content))
  BY RevisionsAssumption DEF AddSpecification
<1>. DEFINE n   == Len(specification) + 1
            row == create_specification(e, content)
<1>2. n \in Nat \ {0} /\ e \in Related
  BY TableType, RevisionsAssumption DEF SpecificationTyped
<1>3. row \in Specification /\ row.lineage_id = n /\ row.status = "ACTIVE"
  BY <1>2 DEF create_specification, NextId, Specification, SpecificationStatus
<1>. HIDE DEF row
<1>4. /\ specification' \in Seq(Specification) /\ n \notin DOMAIN specification
      /\ DOMAIN specification' = DOMAIN specification \union {n}
      /\ \A s \in DOMAIN specification : specification'[s] = specification[s]
      /\ specification'[n] = row
  BY <1>1, <1>3, RowAppended DEF SpecificationTyped, row
<1>. QED
  BY <1>3, <1>4 DEF AddSpecification, Once

LEMMA ApproveSpecificationEffect ==
  ASSUME ReqShape, SpecificationTyped, ApproveSpecification
  PROVE  SaysTheSame /\ change' = change /\ req' = req
<1>1. PICK s \in DOMAIN specification : specification' = approve_specification(s)
  BY DEF ApproveSpecification
<1>. DEFINE row == [specification[s] EXCEPT !.approved = TRUE]
<1>2. specification' = [specification EXCEPT ![s] = row] /\ specification[s] \in Specification
  BY <1>1, TableType DEF approve_specification, SpecificationTyped
<1>3. row \in Specification /\ Says(row) = Says(specification[s])
      /\ row.status = specification[s].status
  BY <1>2 DEF Specification, Says
<1>. HIDE DEF row
<1>4. /\ specification' \in Seq(Specification) /\ DOMAIN specification' = DOMAIN specification
      /\ specification'[s] = row
      /\ \A j \in DOMAIN specification : j # s => specification'[j] = specification[j]
  BY <1>2, <1>3, RowWritten DEF SpecificationTyped
<1>. QED
  BY <1>3, <1>4 DEF SaysTheSame, ApproveSpecification, Once

LEMMA ReviseEffect ==
  ASSUME ReqShape, SpecificationTyped, NEW c \in Clerks, AddSpecificationRevision(c)
  PROVE  /\ At(c, "revise") /\ req[c].id \in DOMAIN specification
         /\ RevisedTo(specification', req[c].id, req[c].given)
         /\ change' = change /\ Finishes(c)
<1>1. /\ At(c, "revise") /\ req[c].id \in DOMAIN specification
      /\ req[c].given \in Proposals
      /\ specification' = create_specification_revision(req[c].id, req[c].given)
      /\ change' = change /\ End(c)
  BY DEF AddSpecificationRevision, SpecificationTyped, HeldTyped, At
<1>. QED
  BY <1>1, RevisionEffect, FinishEffect DEF SpecificationTyped

LEMMA SubmitEffect ==
  ASSUME ReqShape, SpecificationTyped, NEW c \in Clerks, SubmitChangeControl(c)
  PROVE  LET n == Len(change) + 1 IN
         /\ At(c, "submit") /\ specification' = specification
         /\ change' \in Seq(ChangeControl) /\ n \notin DOMAIN change
         /\ DOMAIN change' = DOMAIN change \union {n}
         /\ change'[n] = req[c].row /\ \A k \in DOMAIN change : change'[k] = change[k]
         /\ Finishes(c)
<1>1. /\ At(c, "submit") /\ req[c].row \in ChangeControl /\ specification' = specification
      /\ change' = Append(change, req[c].row) /\ End(c)
  BY DEF SubmitChangeControl, SpecificationTyped, HeldTyped, At
<1>. QED
  BY <1>1, RowAppended, FinishEffect DEF SpecificationTyped

\* What a change control was submitted with.
Proposal(row) ==
    <<row.specification_id, row.related_entity, row.previous_value, row.proposed_value>>

LEMMA MoveChangeEffect ==
  ASSUME ReqShape, SpecificationTyped, NEW c \in Clerks, MoveChangeControl(c)
  PROVE  LET k == req[c].id IN
         /\ At(c, "change") /\ specification' = specification /\ k \in DOMAIN change
         /\ change' \in Seq(ChangeControl) /\ DOMAIN change' = DOMAIN change
         /\ \A j \in DOMAIN change : j # k => change'[j] = change[j]
         /\ Proposal(change'[k]) = Proposal(change[k]) /\ change'[k].status # "IMPLEMENTED"
         /\ change'[k].implemented_specification_id = change[k].implemented_specification_id
         /\ Finishes(c)
<1>. DEFINE k   == req[c].id
            row == [change[k] EXCEPT !.status = req[c].to]
<1>1. /\ At(c, "change") /\ k \in DOMAIN change
      /\ req[c].to \in ChangeControlStatus \ {"IMPLEMENTED"}
      /\ change[k] \in ChangeControl /\ specification' = specification /\ End(c)
      /\ change' = [change EXCEPT ![k] = row]
  BY TableType DEF MoveChangeControl, SpecificationTyped, HeldTyped, At
<1>2. /\ row \in ChangeControl /\ Proposal(row) = Proposal(change[k])
      /\ row.status # "IMPLEMENTED"
      /\ row.implemented_specification_id = change[k].implemented_specification_id
  BY <1>1 DEF ChangeControl, Proposal
<1>. HIDE DEF row
<1>3. /\ change' \in Seq(ChangeControl) /\ DOMAIN change' = DOMAIN change
      /\ change'[k] = row /\ \A j \in DOMAIN change : j # k => change'[j] = change[j]
  BY <1>1, <1>2, RowWritten DEF SpecificationTyped
<1>. QED
  BY <1>1, <1>2, <1>3, FinishEffect

LEMMA ImplementEffect ==
  ASSUME ReqShape, SpecificationTyped, NEW c \in Clerks, ImplementChangeControl(c)
  PROVE  LET k == req[c].id IN
         /\ At(c, "implement") /\ k \in DOMAIN change
         /\ change[k].specification_id \in DOMAIN specification
         /\ RevisedTo(specification', change[k].specification_id, change[k].proposed_value)
         /\ change' \in Seq(ChangeControl) /\ DOMAIN change' = DOMAIN change
         /\ \A j \in DOMAIN change : j # k => change'[j] = change[j]
         /\ Proposal(change'[k]) = Proposal(change[k]) /\ change'[k].status = "IMPLEMENTED"
         /\ change'[k].implemented_specification_id = Len(specification) + 1
         /\ Len(specification) + 1 # None
         /\ Finishes(c)
<1>. DEFINE k   == req[c].id
            n   == Len(specification) + 1
            row == [change[k] EXCEPT !.status = "IMPLEMENTED",
                                     !.implemented_specification_id = n]
<1>1. /\ At(c, "implement") /\ k \in DOMAIN change
      /\ change[k] \in ChangeControl /\ End(c)
      /\ change[k].specification_id \in DOMAIN specification
      /\ specification' = create_specification_revision(change[k].specification_id,
                                                        change[k].proposed_value)
      /\ change' = [change EXCEPT ![k] = row]
  BY TableType DEF ImplementChangeControl, implement_change_control, implemented_specification,
                   NextId, SpecificationTyped, HeldTyped, At
<1>2. change[k].proposed_value \in Proposals
  BY <1>1 DEF ChangeControl
<1>3. RevisedTo(specification', change[k].specification_id, change[k].proposed_value)
  BY <1>1, <1>2, RevisionEffect DEF SpecificationTyped
<1>4. n \in Nat /\ n # None
  BY TableType DEF SpecificationTyped, None
<1>5. /\ row \in ChangeControl /\ Proposal(row) = Proposal(change[k])
      /\ row.status = "IMPLEMENTED" /\ row.implemented_specification_id = n
  BY <1>1, <1>4 DEF ChangeControl, ChangeControlStatus, Proposal
<1>. HIDE DEF row
<1>6. /\ change' \in Seq(ChangeControl) /\ DOMAIN change' = DOMAIN change
      /\ change'[k] = row /\ \A j \in DOMAIN change : j # k => change'[j] = change[j]
  BY <1>1, <1>5, RowWritten DEF SpecificationTyped
<1>. QED
  BY <1>1, <1>3, <1>4, <1>5, <1>6, FinishEffect

LEMMA SpecificationTypedNext ==
  ReqShape /\ SpecificationTyped /\ [Next]_vars => SpecificationTyped'
<1>. SUFFICES ASSUME ReqShape, SpecificationTyped, [Next]_vars PROVE SpecificationTyped'
  OBVIOUS
<1>0. ASSUME NEW c \in Clerks, NEW r, Starts(c, r), HeldTyped(r) PROVE SpecificationTyped'
  <2>1. /\ UNCHANGED <<specification, change>> /\ req'[c] = r
        /\ \A d \in Clerks : d # c => req'[d] = req[d]
    BY <1>0 DEF Starts
  <2>2. ASSUME NEW d \in Clerks, HeldTyped(req'[d]) PROVE HeldTyped(req[d])'
    BY <2>1, <2>2 DEF HeldTyped
  <2>3. \A d \in Clerks : HeldTyped(req'[d])
    BY <1>0, <2>1 DEF SpecificationTyped
  <2>. QED
    BY <2>1, <2>2, <2>3 DEF SpecificationTyped
<1>1. ASSUME NEW c \in Clerks, BeginRevision(c) PROVE SpecificationTyped'
  <2>1. PICK s \in DOMAIN specification, given \in Proposals :
           Starts(c, [pc |-> "revise", keys |-> {<<"specification", s>>}, id |-> s,
                      given |-> given])
    BY <1>1, BeginRevisionEffect
  <2>. DEFINE r == [pc |-> "revise", keys |-> {<<"specification", s>>}, id |-> s,
                    given |-> given]
  <2>2. HeldTyped(r)
    BY DEF HeldTyped
  <2>. QED
    BY <1>0, <2>1, <2>2
<1>2. ASSUME NEW c \in Clerks, BeginSubmit(c) PROVE SpecificationTyped'
  <2>1. PICK s \in DOMAIN specification, proposed \in Proposals :
           Starts(c, [pc |-> "submit", keys |-> {<<"proposal", s>>},
                      row |-> submit_change_control(s, proposed)])
    BY <1>2, BeginSubmitEffect
  <2>2. s \in Nat \ {0} /\ specification[s] \in Specification
    BY TableType DEF SpecificationTyped
  <2>. DEFINE row == submit_change_control(s, proposed)
  <2>3. /\ row \in ChangeControl /\ row.specification_id \in DOMAIN specification
        /\ row.status = "PROPOSED" /\ row.implemented_specification_id = None
    BY <2>2 DEF submit_change_control, _specification_snapshot, ChangeControl, ChangeControlStatus, Specification, None
  <2>. HIDE DEF row
  <2>. DEFINE r == [pc |-> "submit", keys |-> {<<"proposal", s>>}, row |-> row]
  <2>4. HeldTyped(r)
    BY <2>3 DEF HeldTyped
  <2>5. Starts(c, r)
    BY <2>1 DEF row
  <2>. QED
    BY <1>0, <2>4, <2>5
<1>3. ASSUME NEW c \in Clerks, BeginChangeStatus(c) PROVE SpecificationTyped'
  <2>1. PICK k \in DOMAIN change, to \in DOMAIN AllowedFrom \ {"IMPLEMENTED"} :
           Starts(c, [pc |-> "change", keys |-> {<<"change", k>>}, id |-> k, to |-> to])
    BY <1>3, BeginChangeStatusEffect
  <2>. DEFINE r == [pc |-> "change", keys |-> {<<"change", k>>}, id |-> k, to |-> to]
  <2>2. to \in ChangeControlStatus \ {"IMPLEMENTED"}
    BY DEF AllowedFrom, ChangeControlStatus
  <2>3. HeldTyped(r)
    BY <2>2 DEF HeldTyped
  <2>. QED
    BY <1>0, <2>1, <2>3
<1>4. ASSUME NEW c \in Clerks, BeginImplement(c) PROVE SpecificationTyped'
  <2>1. PICK k \in DOMAIN change :
           Starts(c, [pc |-> "implement",
                      keys |-> {<<"change", k>>, <<"specification", change[k].specification_id>>},
                      id |-> k])
    BY <1>4, BeginImplementEffect
  <2>. DEFINE r == [pc |-> "implement",
                    keys |-> {<<"change", k>>, <<"specification", change[k].specification_id>>},
                    id |-> k]
  <2>2. HeldTyped(r)
    BY DEF HeldTyped
  <2>. QED
    BY <1>0, <2>1, <2>2
<1>5. ASSUME specification' \in Seq(Specification), change' \in Seq(ChangeControl),
             DOMAIN specification \subseteq DOMAIN specification',
             DOMAIN change \subseteq DOMAIN change',
             \A k \in DOMAIN change : change'[k].specification_id = change[k].specification_id,
             \A k \in DOMAIN change' \ DOMAIN change :
                change'[k].specification_id \in DOMAIN specification,
             \A d \in Clerks : req'[d] = req[d] \/ req'[d].pc \notin Revising
      PROVE  SpecificationTyped'
  <2>1. \A k \in DOMAIN change' : change'[k].specification_id \in DOMAIN specification'
    BY <1>5 DEF SpecificationTyped
  <2>2. ASSUME NEW d \in Clerks PROVE HeldTyped(req[d])'
    <3>1. CASE req'[d].pc \notin Revising
      BY <3>1 DEF HeldTyped, Revising
    <3>2. CASE req'[d] = req[d]
      <4>1. HeldTyped(req[d])
        BY DEF SpecificationTyped
      <4>. QED
        BY <1>5, <3>2, <4>1 DEF HeldTyped
    <3>. QED
      BY <1>5, <3>1, <3>2
  <2>. QED
    BY <1>5, <2>1, <2>2 DEF SpecificationTyped
<1>6. CASE AddSpecification
  BY <1>5, <1>6, AddSpecificationEffect DEF SpecificationTyped
<1>7. CASE ApproveSpecification
  BY <1>5, <1>7, ApproveSpecificationEffect DEF SpecificationTyped, SaysTheSame
<1>8. ASSUME NEW c \in Clerks, Finishes(c)
      PROVE  \A d \in Clerks : req'[d] = req[d] \/ req'[d].pc \notin Revising
  BY <1>8 DEF Finishes, At, Revising
<1>9. ASSUME NEW c \in Clerks, AddSpecificationRevision(c) PROVE SpecificationTyped'
  <2>1. RevisedTo(specification', req[c].id, req[c].given) /\ change' = change /\ Finishes(c)
    BY <1>9, ReviseEffect
  <2>. QED
    BY <1>5, <1>8, <2>1 DEF RevisedTo, SpecificationTyped
<1>10. ASSUME NEW c \in Clerks, SubmitChangeControl(c) PROVE SpecificationTyped'
  <2>1. req[c].row.specification_id \in DOMAIN specification
    BY <1>10 DEF SubmitChangeControl, SpecificationTyped, HeldTyped, At
  <2>2. /\ specification' = specification /\ change' \in Seq(ChangeControl)
        /\ DOMAIN change' = DOMAIN change \union {Len(change) + 1}
        /\ change'[Len(change) + 1] = req[c].row
        /\ \A k \in DOMAIN change : change'[k] = change[k]
        /\ Finishes(c)
    BY <1>10, SubmitEffect
  <2>. QED
    BY <1>5, <1>8, <2>1, <2>2 DEF SpecificationTyped
<1>11. ASSUME NEW c \in Clerks, MoveChangeControl(c) PROVE SpecificationTyped'
  <2>1. /\ specification' = specification /\ change' \in Seq(ChangeControl)
        /\ DOMAIN change' = DOMAIN change /\ Finishes(c)
        /\ \A j \in DOMAIN change : j # req[c].id => change'[j] = change[j]
        /\ change'[req[c].id].specification_id = change[req[c].id].specification_id
    BY <1>11, MoveChangeEffect DEF Proposal
  <2>. QED
    BY <1>5, <1>8, <2>1 DEF SpecificationTyped
<1>12. ASSUME NEW c \in Clerks, ImplementChangeControl(c) PROVE SpecificationTyped'
  <2>. DEFINE k == req[c].id
  <2>1. /\ RevisedTo(specification', change[k].specification_id, change[k].proposed_value)
        /\ change' \in Seq(ChangeControl)
        /\ DOMAIN change' = DOMAIN change /\ Finishes(c)
        /\ \A j \in DOMAIN change : j # k => change'[j] = change[j]
        /\ change'[k].specification_id = change[k].specification_id
    BY <1>12, ImplementEffect DEF Proposal
  <2>. HIDE DEF k
  <2>2. /\ specification' \in Seq(Specification)
        /\ DOMAIN specification \subseteq DOMAIN specification'
    BY <2>1 DEF RevisedTo
  <2>. QED
    BY <1>5, <1>8, <2>1, <2>2
<1>13. CASE UNCHANGED <<specification, change>> /\ Apart(Revising)
  BY <1>5, <1>13 DEF Apart, SpecificationTyped
<1>. QED
  BY <1>1, <1>2, <1>3, <1>4, <1>6, <1>7, <1>9, <1>10, <1>11, <1>12, <1>13, SpecificationSteps
     DEF SpecificationsNext

CurrentSpecifications == {s \in DOMAIN specification : specification[s].status # "SUPERSEDED"}

\* The revision that a request of c is to replace.
Replacing(c) == At(c, "revise") \/ At(c, "implement")
Replaced(c)  == IF At(c, "revise") THEN req[c].id ELSE change[req[c].id].specification_id

\* What a request is to replace is current until it does.
SpecificationInv ==
    /\ \A s \in DOMAIN specification : specification[s].lineage_id \in DOMAIN specification
    /\ OneOf("specification", specification, CurrentSpecifications, raced)
    /\ \A c \in Clerks : Replacing(c) => \/ <<"specification", Replaced(c)>> \in raced
                                         \/ Replaced(c) \in CurrentSpecifications

LEMMA ReplacedHeld ==
  ASSUME SpecificationTyped, NEW c \in Clerks, Replacing(c)
  PROVE  Replaced(c) \in DOMAIN specification /\ <<"specification", Replaced(c)>> \in req[c].keys
         /\ ~At(c, "idle")
  BY DEF Replacing, Replaced, SpecificationTyped, HeldTyped, At

\* Two that are to replace the same revision hold the same row.
LEMMA ReplacedAlone ==
  ASSUME KeyInv, SpecificationTyped, NEW c \in Clerks, NEW d \in Clerks, c # d,
         Replacing(c), Replacing(d), Replaced(c) = Replaced(d)
  PROVE  <<"specification", Replaced(c)>> \in raced
  BY ReplacedHeld DEF KeyInv

\* A revision is replaced.
LEMMA ReplaceRevision ==
  ASSUME SpecificationTyped, SpecificationInv, KeyInv, raced \subseteq raced',
         NEW c \in Clerks, Replacing(c), NEW given,
         RevisedTo(specification', Replaced(c), given),
         \A d \in Clerks : Replacing(d)' => Replacing(d) /\ d # c /\ Replaced(d)' = Replaced(d)
  PROVE  SpecificationInv'
<1>. DEFINE s == Replaced(c)
            n == Len(specification) + 1
<1>1. s \in DOMAIN specification
  BY ReplacedHeld
<1>2. /\ DOMAIN specification' = DOMAIN specification \union {n} /\ n \notin DOMAIN specification
      /\ \A j \in DOMAIN specification : j # s => specification'[j] = specification[j]
      /\ specification'[s].lineage_id = specification[s].lineage_id
      /\ specification'[n].lineage_id = specification[s].lineage_id
      /\ specification'[s].status = "SUPERSEDED" /\ specification'[n].status = "ACTIVE"
  BY DEF RevisedTo, Says
<1>3. <<"specification", s>> \in raced \/ s \in CurrentSpecifications
  BY DEF SpecificationInv
<1>4. \A d \in Clerks : Replacing(d)' =>
         /\ Replaced(d)' = s => <<"specification", s>> \in raced
         /\ <<"specification", Replaced(d)'>> \in raced \/ Replaced(d)' \in CurrentSpecifications
  BY ReplacedAlone DEF SpecificationInv
<1>. HIDE DEF s, n
<1>5. CurrentSpecifications' = (CurrentSpecifications \ {s}) \union {n}
  BY <1>1, <1>2 DEF CurrentSpecifications
<1>6. OneOf("specification", specification', (CurrentSpecifications \ {s}) \union {n}, raced')
  <2>1. CurrentSpecifications \subseteq DOMAIN specification
    BY DEF CurrentSpecifications
  <2>. QED
    BY <1>1, <1>2, <1>3, <2>1, CurrentReplaced DEF SpecificationInv
<1>7. \A j \in DOMAIN specification' : specification'[j].lineage_id \in DOMAIN specification'
  BY <1>1, <1>2 DEF SpecificationInv
<1>8. \A d \in Clerks : Replacing(d)' =>
         <<"specification", Replaced(d)'>> \in raced' \/ Replaced(d)' \in CurrentSpecifications'
  BY <1>4, <1>5
<1>. QED
  BY <1>5, <1>6, <1>7, <1>8 DEF SpecificationInv

LEMMA SpecificationNext ==
  ReqShape /\ KeyInv /\ SpecificationTyped /\ SpecificationInv /\ [Next]_vars => SpecificationInv'
<1>. SUFFICES ASSUME ReqShape, KeyInv, SpecificationTyped, SpecificationInv, [Next]_vars
              PROVE  SpecificationInv'
  OBVIOUS
<1>0. raced \subseteq raced'
  BY ShapeNext
<1>1. ASSUME SaysTheSame \/ specification' = specification,
             \A d \in Clerks : Replacing(d)' =>
                \/ Replacing(d) /\ Replaced(d)' = Replaced(d)
                \/ Replaced(d)' \in CurrentSpecifications
      PROVE  SpecificationInv'
  <2>1. /\ DOMAIN specification' = DOMAIN specification
        /\ \A s \in DOMAIN specification :
              /\ specification'[s].lineage_id = specification[s].lineage_id
              /\ specification'[s].status = specification[s].status
    BY <1>1 DEF SaysTheSame, Says
  <2>2. CurrentSpecifications' = CurrentSpecifications
    BY <2>1 DEF CurrentSpecifications
  <2>3. OneOf("specification", specification', CurrentSpecifications, raced')
    <3>1. Lineages(specification') = Lineages(specification)
      BY <2>1 DEF Lineages
    <3>2. \A l : Versions(specification', l) = Versions(specification, l)
      BY <2>1 DEF Versions
    <3>. QED
      BY <1>0, <3>1, <3>2 DEF OneOf, SpecificationInv
  <2>. QED
    BY <1>0, <1>1, <2>1, <2>2, <2>3 DEF SpecificationInv
<1>2. ASSUME \A d \in Clerks : req'[d] = req[d] \/ req'[d].pc \notin Revising,
             \A k \in DOMAIN change : change'[k].specification_id = change[k].specification_id
      PROVE  \A d \in Clerks : Replacing(d)' => Replacing(d) /\ Replaced(d)' = Replaced(d)
  <2>1. \A d \in Clerks : At(d, "implement") => req[d].id \in DOMAIN change
    BY DEF SpecificationTyped, HeldTyped, At
  <2>. QED
    BY <1>2, <2>1 DEF Replacing, Replaced, At, Revising
<1>3. ASSUME NEW c \in Clerks, NEW r, Starts(c, r),
             r.pc = "revise" => r.id \in CurrentSpecifications,
             r.pc = "implement" => change[r.id].specification_id \in CurrentSpecifications
      PROVE  SpecificationInv'
  <2>1. /\ specification' = specification /\ change' = change /\ req'[c] = r
        /\ \A d \in Clerks : d # c => req'[d] = req[d]
    BY <1>3 DEF Starts
  <2>2. \A d \in Clerks : Replacing(d)' =>
                \/ Replacing(d) /\ Replaced(d)' = Replaced(d)
                \/ Replaced(d)' \in CurrentSpecifications
    BY <1>3, <2>1 DEF Replacing, Replaced, At
  <2>. QED
    BY <1>1, <2>1, <2>2
<1>4. ASSUME NEW c \in Clerks, BeginRevision(c) PROVE SpecificationInv'
  <2>1. PICK s \in DOMAIN specification, given \in Proposals :
           /\ Current(s)
           /\ Starts(c, [pc |-> "revise", keys |-> {<<"specification", s>>}, id |-> s,
                         given |-> given])
    BY <1>4, BeginRevisionEffect
  <2>2. s \in CurrentSpecifications
    BY <2>1 DEF Current, CurrentSpecifications
  <2>. QED
    BY <1>3, <2>1, <2>2
<1>5. ASSUME NEW c \in Clerks, BeginSubmit(c) PROVE SpecificationInv'
  BY <1>3, <1>5, BeginSubmitEffect
<1>6. ASSUME NEW c \in Clerks, BeginChangeStatus(c) PROVE SpecificationInv'
  BY <1>3, <1>6, BeginChangeStatusEffect
<1>7. ASSUME NEW c \in Clerks, BeginImplement(c) PROVE SpecificationInv'
  <2>1. PICK k \in DOMAIN change :
           /\ Current(change[k].specification_id)
           /\ Starts(c, [pc |-> "implement",
                         keys |-> {<<"change", k>>,
                                   <<"specification", change[k].specification_id>>},
                         id |-> k])
    BY <1>7, BeginImplementEffect
  <2>2. change[k].specification_id \in CurrentSpecifications
    BY <2>1 DEF Current, CurrentSpecifications, SpecificationTyped
  <2>. QED
    BY <1>3, <2>1, <2>2
<1>8. CASE AddSpecification
  <2>. DEFINE n == Len(specification) + 1
  <2>1. /\ DOMAIN specification' = DOMAIN specification \union {n}
        /\ n \notin DOMAIN specification
        /\ \A s \in DOMAIN specification : specification'[s] = specification[s]
        /\ specification'[n].lineage_id = n /\ specification'[n].status = "ACTIVE"
        /\ change' = change /\ req' = req
    BY <1>8, AddSpecificationEffect
  <2>. HIDE DEF n
  <2>2. CurrentSpecifications' = CurrentSpecifications \union {n}
    BY <2>1 DEF CurrentSpecifications
  <2>3. OneOf("specification", specification', CurrentSpecifications \union {n}, raced')
    <3>1. CurrentSpecifications \subseteq DOMAIN specification
      BY DEF CurrentSpecifications
    <3>. QED
      BY <1>0, <2>1, <3>1, LineageBegun DEF SpecificationInv
  <2>4. \A d \in Clerks : Replacing(d)' => Replacing(d) /\ Replaced(d)' = Replaced(d)
    BY <1>2, <2>1
  <2>5. \A s \in DOMAIN specification' : specification'[s].lineage_id \in DOMAIN specification'
    BY <2>1 DEF SpecificationInv
  <2>. QED
    BY <1>0, <2>2, <2>3, <2>4, <2>5 DEF SpecificationInv
<1>9. CASE ApproveSpecification
  BY <1>1, <1>2, <1>9, ApproveSpecificationEffect
<1>10. ASSUME NEW c \in Clerks, Finishes(c),
              \A k \in DOMAIN change : change'[k].specification_id = change[k].specification_id
       PROVE  \A d \in Clerks : Replacing(d)' =>
                 Replacing(d) /\ d # c /\ Replaced(d)' = Replaced(d)
  BY <1>2, <1>10 DEF Finishes, Replacing, At, Revising
<1>11. ASSUME NEW c \in Clerks, AddSpecificationRevision(c) PROVE SpecificationInv'
  <2>1. /\ At(c, "revise") /\ RevisedTo(specification', req[c].id, req[c].given)
        /\ change' = change /\ Finishes(c)
    BY <1>11, ReviseEffect
  <2>2. Replacing(c) /\ Replaced(c) = req[c].id
    BY <2>1 DEF Replacing, Replaced
  <2>. QED
    BY <1>0, <1>10, <2>1, <2>2, ReplaceRevision
<1>12. ASSUME NEW c \in Clerks, SubmitChangeControl(c) PROVE SpecificationInv'
  <2>1. /\ specification' = specification /\ \A k \in DOMAIN change : change'[k] = change[k]
        /\ Finishes(c)
    BY <1>12, SubmitEffect
  <2>. QED
    BY <1>1, <1>10, <2>1
<1>13. ASSUME NEW c \in Clerks, MoveChangeControl(c) PROVE SpecificationInv'
  <2>1. /\ specification' = specification /\ Finishes(c)
        /\ \A k \in DOMAIN change : change'[k].specification_id = change[k].specification_id
    BY <1>13, MoveChangeEffect DEF Proposal
  <2>. QED
    BY <1>1, <1>10, <2>1
<1>14. ASSUME NEW c \in Clerks, ImplementChangeControl(c) PROVE SpecificationInv'
  <2>. DEFINE k == req[c].id
  <2>1. /\ At(c, "implement") /\ k \in DOMAIN change /\ Finishes(c)
        /\ RevisedTo(specification', change[k].specification_id, change[k].proposed_value)
        /\ \A j \in DOMAIN change : j # k => change'[j] = change[j]
        /\ change'[k].specification_id = change[k].specification_id
    BY <1>14, ImplementEffect DEF Proposal
  <2>2. Replacing(c) /\ Replaced(c) = change[k].specification_id
    BY <2>1 DEF Replacing, Replaced, At
  <2>. HIDE DEF k
  <2>3. \A j \in DOMAIN change : change'[j].specification_id = change[j].specification_id
    BY <2>1
  <2>. QED
    BY <1>0, <1>10, <2>1, <2>2, <2>3, ReplaceRevision
<1>15. CASE UNCHANGED <<specification, change>> /\ Apart(Revising)
  BY <1>1, <1>2, <1>15 DEF Apart
<1>. QED
  BY <1>4, <1>5, <1>6, <1>7, <1>8, <1>9, <1>11, <1>12, <1>13, <1>14, <1>15, SpecificationSteps
     DEF SpecificationsNext

LEMMA SpecificationInit == Init => SpecificationTyped /\ SpecificationInv
<1>. SUFFICES ASSUME Init PROVE SpecificationTyped /\ SpecificationInv
  OBVIOUS
<1>1. specification = <<>> /\ change = <<>> /\ \A c \in Clerks : req[c] = Idle
  BY DEF Init, RevisionsInit, RequestsInit
<1>2. SpecificationTyped
  BY <1>1 DEF SpecificationTyped, HeldTyped, Idle
<1>3. SpecificationInv
  BY <1>1 DEF SpecificationInv, OneOf, Lineages, Replacing, At, Idle
<1>. QED
  BY <1>2, <1>3

\* What change k says of the revision it was proposed against, and of the one it brought.
TrailOf(k) ==
    LET s == change[k].specification_id
        n == change[k].implemented_specification_id
    IN  /\ specification[s].content = change[k].previous_value
        /\ specification[s].related_entity = change[k].related_entity
        /\ change[k].status = "IMPLEMENTED" => n # None
        /\ n # None =>
              /\ n \in DOMAIN specification /\ specification[s].status = "SUPERSEDED"
              /\ specification[n].lineage_id = specification[s].lineage_id
              /\ specification[n].related_entity = change[k].related_entity
              /\ specification[n].content = Revised(specification[s].content, change[k].proposed_value)

\* A change that nobody else held has no revision until it is implemented; two have none
\* in common.
TrailInv ==
    /\ \A k \in DOMAIN change :
          /\ TrailOf(k)
          /\ \/ change[k].implemented_specification_id = None
             \/ change[k].status = "IMPLEMENTED" \/ <<"change", k>> \in raced
    /\ \A j, k \in DOMAIN change :
          j # k /\ change[k].implemented_specification_id # None =>
             change[j].implemented_specification_id # change[k].implemented_specification_id
    /\ \A c \in Clerks :
          /\ At(c, "submit") =>
                LET row == req[c].row IN
                /\ specification[row.specification_id].content = row.previous_value
                /\ specification[row.specification_id].related_entity = row.related_entity
          /\ At(c, "change") => \/ change[req[c].id].implemented_specification_id = None
                                \/ <<"change", req[c].id>> \in raced

\* The revisions that were there say what they said.
Remembered ==
    /\ DOMAIN specification \subseteq DOMAIN specification'
    /\ \A s \in DOMAIN specification :
          /\ specification'[s].lineage_id = specification[s].lineage_id
          /\ specification'[s].content = specification[s].content
          /\ specification'[s].related_entity = specification[s].related_entity
          /\ specification[s].status = "SUPERSEDED" => specification'[s].status = "SUPERSEDED"

LEMMA RevisedRemembers ==
  ASSUME NEW s \in DOMAIN specification, NEW given, RevisedTo(specification', s, given)
  PROVE  Remembered
  BY DEF RevisedTo, Remembered, Says

\* A change that is not written keeps its trail.
LEMMA TrailKept ==
  ASSUME SpecificationTyped, TrailInv, Remembered, NEW k \in DOMAIN change,
         Proposal(change'[k]) = Proposal(change[k]),
         change'[k].implemented_specification_id = change[k].implemented_specification_id,
         change'[k].status = "IMPLEMENTED" => change[k].status = "IMPLEMENTED"
  PROVE  TrailOf(k)'
<1>. DEFINE s == change[k].specification_id
            n == change[k].implemented_specification_id
<1>1. s \in DOMAIN specification /\ TrailOf(k)
  BY DEF SpecificationTyped, TrailInv
<1>2. /\ change'[k].specification_id = s /\ change'[k].implemented_specification_id = n
      /\ change'[k].previous_value = change[k].previous_value
      /\ change'[k].proposed_value = change[k].proposed_value
      /\ change'[k].related_entity = change[k].related_entity
  BY DEF Proposal
<1>3. /\ specification'[s].content = specification[s].content
      /\ specification'[s].related_entity = specification[s].related_entity
      /\ specification'[s].lineage_id = specification[s].lineage_id
      /\ specification[s].status = "SUPERSEDED" => specification'[s].status = "SUPERSEDED"
  BY <1>1 DEF Remembered
<1>4. n \in DOMAIN specification =>
         /\ n \in DOMAIN specification'
         /\ specification'[n].content = specification[n].content
         /\ specification'[n].related_entity = specification[n].related_entity
         /\ specification'[n].lineage_id = specification[n].lineage_id
  BY DEF Remembered
<1>. QED
  BY <1>1, <1>2, <1>3, <1>4 DEF TrailOf

LEMMA TrailNext ==
  ReqShape /\ KeyInv /\ SpecificationTyped /\ TrailInv /\ [Next]_vars => TrailInv'
<1>. SUFFICES ASSUME ReqShape, KeyInv, SpecificationTyped, TrailInv, [Next]_vars
              PROVE  TrailInv'
  OBVIOUS
<1>0. raced \subseteq raced' /\ SpecificationTyped'
  BY ShapeNext, SpecificationTypedNext
<1>1. ASSUME Remembered, change' = change,
             \A d \in Clerks :
                \/ req'[d] = req[d]
                \/ /\ At(d, "submit")' =>
                         LET row == req'[d].row IN
                         /\ row.specification_id \in DOMAIN specification
                         /\ specification[row.specification_id].content = row.previous_value
                         /\ specification[row.specification_id].related_entity = row.related_entity
                   /\ At(d, "change")' =>
                         \/ change[req'[d].id].implemented_specification_id = None
                         \/ <<"change", req'[d].id>> \in raced
      PROVE  TrailInv'
  <2>1. \A k \in DOMAIN change : TrailOf(k)'
    BY <1>1, TrailKept
  <2>2. ASSUME NEW d \in Clerks, At(d, "submit")'
        PROVE  LET row == req'[d].row IN
               /\ specification'[row.specification_id].content = row.previous_value
               /\ specification'[row.specification_id].related_entity = row.related_entity
    <3>1. /\ req'[d].row.specification_id \in DOMAIN specification
          /\ specification[req'[d].row.specification_id].content = req'[d].row.previous_value
          /\ specification[req'[d].row.specification_id].related_entity
                = req'[d].row.related_entity
      BY <1>1, <2>2 DEF TrailInv, SpecificationTyped, HeldTyped, At
    <3>. QED
      BY <1>1, <3>1 DEF Remembered
  <2>3. ASSUME NEW d \in Clerks, At(d, "change")'
        PROVE  \/ change[req'[d].id].implemented_specification_id = None
               \/ <<"change", req'[d].id>> \in raced'
    BY <1>0, <1>1, <2>3 DEF TrailInv, At
  <2>. QED
    BY <1>0, <1>1, <2>1, <2>2, <2>3 DEF TrailInv
<1>2. specification' = specification => Remembered
  BY DEF Remembered
<1>3. ASSUME NEW c \in Clerks, NEW r, Starts(c, r), r.pc \notin {"submit", "change"}
      PROVE  TrailInv'
  BY <1>1, <1>2, <1>3 DEF Starts, At
<1>4. ASSUME NEW c \in Clerks, BeginRevision(c) PROVE TrailInv'
  BY <1>3, <1>4, BeginRevisionEffect
<1>5. ASSUME NEW c \in Clerks, BeginSubmit(c) PROVE TrailInv'
  <2>1. PICK s \in DOMAIN specification, proposed \in Proposals :
           Starts(c, [pc |-> "submit", keys |-> {<<"proposal", s>>},
                      row |-> submit_change_control(s, proposed)])
    BY <1>5, BeginSubmitEffect
  <2>. DEFINE row == submit_change_control(s, proposed)
  <2>2. /\ row.specification_id = s /\ row.previous_value = specification[s].content
        /\ row.related_entity = specification[s].related_entity
    BY DEF submit_change_control, _specification_snapshot
  <2>3. Starts(c, [pc |-> "submit", keys |-> {<<"proposal", s>>}, row |-> row])
    BY <2>1
  <2>. HIDE DEF row
  <2>4. /\ req'[c] = [pc |-> "submit", keys |-> {<<"proposal", s>>}, row |-> row]
        /\ \A d \in Clerks : d # c => req'[d] = req[d]
        /\ specification' = specification /\ change' = change
    BY <2>3 DEF Starts
  <2>5. ~At(c, "change")' /\ req'[c].row = row
    BY <2>4 DEF At
  <2>. QED
    BY <1>1, <1>2, <2>2, <2>4, <2>5
<1>6. ASSUME NEW c \in Clerks, BeginChangeStatus(c) PROVE TrailInv'
  <2>1. PICK k \in DOMAIN change, to \in DOMAIN AllowedFrom \ {"IMPLEMENTED"} :
           /\ _require_change_control_transition(k, to)
           /\ Starts(c, [pc |-> "change", keys |-> {<<"change", k>>}, id |-> k, to |-> to])
    BY <1>6, BeginChangeStatusEffect
  <2>2. change[k].status # "IMPLEMENTED"
    BY <2>1 DEF _require_change_control_transition, AllowedFrom
  <2>3. change[k].implemented_specification_id = None \/ <<"change", k>> \in raced
    BY <2>2 DEF TrailInv
  <2>4. /\ req'[c] = [pc |-> "change", keys |-> {<<"change", k>>}, id |-> k, to |-> to]
        /\ \A d \in Clerks : d # c => req'[d] = req[d]
        /\ specification' = specification /\ change' = change
    BY <2>1 DEF Starts
  <2>5. ~At(c, "submit")' /\ req'[c].id = k
    BY <2>4 DEF At
  <2>. QED
    BY <1>1, <1>2, <2>3, <2>4, <2>5
<1>7. ASSUME NEW c \in Clerks, BeginImplement(c) PROVE TrailInv'
  BY <1>3, <1>7, BeginImplementEffect
<1>8. CASE AddSpecification
  <2>1. /\ DOMAIN specification \subseteq DOMAIN specification'
        /\ \A s \in DOMAIN specification : specification'[s] = specification[s]
        /\ change' = change /\ req' = req
    BY <1>8, AddSpecificationEffect
  <2>2. Remembered
    BY <2>1 DEF Remembered
  <2>. QED
    BY <1>1, <2>1, <2>2
<1>9. CASE ApproveSpecification
  <2>1. Remembered /\ change' = change /\ req' = req
    BY <1>9, ApproveSpecificationEffect DEF SaysTheSame, Says, Remembered
  <2>. QED
    BY <1>1, <2>1
<1>10. ASSUME NEW c \in Clerks, Finishes(c)
       PROVE  \A d \in Clerks :
                 \/ req'[d] = req[d]
                 \/ d = c /\ ~At(d, "submit")' /\ ~At(d, "change")'
  BY <1>10 DEF Finishes, At
<1>11. ASSUME NEW c \in Clerks, AddSpecificationRevision(c) PROVE TrailInv'
  <2>1. /\ req[c].id \in DOMAIN specification
        /\ RevisedTo(specification', req[c].id, req[c].given)
        /\ change' = change /\ Finishes(c)
    BY <1>11, ReviseEffect
  <2>. QED
    BY <1>1, <1>10, <2>1, RevisedRemembers
<1>12. ASSUME NEW c \in Clerks, SubmitChangeControl(c) PROVE TrailInv'
  <2>0. PICK n : n = Len(change) + 1
    OBVIOUS
  <2>1. /\ At(c, "submit") /\ specification' = specification /\ n \notin DOMAIN change
        /\ DOMAIN change' = DOMAIN change \union {n}
        /\ change'[n] = req[c].row /\ \A k \in DOMAIN change : change'[k] = change[k]
        /\ Finishes(c)
    BY <1>12, <2>0, SubmitEffect
  <2>2. /\ specification[req[c].row.specification_id].content = req[c].row.previous_value
        /\ specification[req[c].row.specification_id].related_entity = req[c].row.related_entity
        /\ req[c].row.status = "PROPOSED" /\ req[c].row.implemented_specification_id = None
    BY <2>1 DEF TrailInv, SpecificationTyped, HeldTyped, At
  <2>3. TrailOf(n)'
    <3>1. /\ specification'[change'[n].specification_id].content = change'[n].previous_value
          /\ specification'[change'[n].specification_id].related_entity
                = change'[n].related_entity
          /\ change'[n].status # "IMPLEMENTED"
          /\ change'[n].implemented_specification_id = None
      BY <2>1, <2>2
    <3>. QED
      BY <3>1 DEF TrailOf
  <2>4. \A k \in DOMAIN change : TrailOf(k)'
    BY <1>2, <2>1, TrailKept
  <2>5. ASSUME NEW d \in Clerks, At(d, "submit")'
        PROVE  LET row == req'[d].row IN
               /\ specification'[row.specification_id].content = row.previous_value
               /\ specification'[row.specification_id].related_entity = row.related_entity
    BY <1>10, <2>1, <2>5 DEF TrailInv, At
  <2>6. ASSUME NEW d \in Clerks, At(d, "change")'
        PROVE  \/ change'[req'[d].id].implemented_specification_id = None
               \/ <<"change", req'[d].id>> \in raced'
    <3>1. req'[d] = req[d] /\ At(d, "change") /\ req[d].id \in DOMAIN change
      BY <1>10, <2>1, <2>6 DEF SpecificationTyped, HeldTyped, At
    <3>. QED
      BY <1>0, <2>1, <3>1 DEF TrailInv
  <2>7. \A k \in DOMAIN change' :
           \/ change'[k].implemented_specification_id = None
           \/ change'[k].status = "IMPLEMENTED" \/ <<"change", k>> \in raced'
    BY <1>0, <2>1, <2>2 DEF TrailInv
  <2>8. \A i, k \in DOMAIN change' :
           i # k /\ change'[k].implemented_specification_id # None =>
              change'[i].implemented_specification_id # change'[k].implemented_specification_id
    BY <2>1, <2>2 DEF TrailInv
  <2>. QED
    BY <2>1, <2>3, <2>4, <2>5, <2>6, <2>7, <2>8 DEF TrailInv
<1>13. ASSUME NEW c \in Clerks, MoveChangeControl(c) PROVE TrailInv'
  <2>0. PICK k : k = req[c].id
    OBVIOUS
  <2>1. /\ At(c, "change") /\ specification' = specification /\ k \in DOMAIN change
        /\ DOMAIN change' = DOMAIN change
        /\ \A j \in DOMAIN change : j # k => change'[j] = change[j]
        /\ Proposal(change'[k]) = Proposal(change[k]) /\ change'[k].status # "IMPLEMENTED"
        /\ change'[k].implemented_specification_id = change[k].implemented_specification_id
        /\ Finishes(c)
    BY <1>13, <2>0, MoveChangeEffect
  <2>2. change[k].implemented_specification_id = None \/ <<"change", k>> \in raced
    BY <2>0, <2>1 DEF TrailInv
  <2>3. \A j \in DOMAIN change : change'[j].implemented_specification_id
                                   = change[j].implemented_specification_id
    BY <2>1
  <2>4. \A j \in DOMAIN change : TrailOf(j)'
    BY <1>2, <2>1, TrailKept
  <2>5. \A j \in DOMAIN change' :
           \/ change'[j].implemented_specification_id = None
           \/ change'[j].status = "IMPLEMENTED" \/ <<"change", j>> \in raced'
    <3>. TAKE j \in DOMAIN change'
    <3>1. CASE j = k
      BY <1>0, <2>2, <2>3, <3>1, <2>1
    <3>2. CASE j # k
      BY <1>0, <2>1, <3>2 DEF TrailInv
    <3>. QED
      BY <3>1, <3>2
  <2>6. ASSUME NEW d \in Clerks, At(d, "submit")'
        PROVE  LET row == req'[d].row IN
               /\ specification'[row.specification_id].content = row.previous_value
               /\ specification'[row.specification_id].related_entity = row.related_entity
    BY <1>10, <2>1, <2>6 DEF TrailInv, At
  <2>7. ASSUME NEW d \in Clerks, At(d, "change")'
        PROVE  \/ change'[req'[d].id].implemented_specification_id = None
               \/ <<"change", req'[d].id>> \in raced'
    <3>1. req'[d] = req[d] /\ At(d, "change") /\ req[d].id \in DOMAIN change
      BY <1>10, <2>1, <2>7 DEF SpecificationTyped, HeldTyped, At
    <3>. QED
      BY <1>0, <2>3, <3>1 DEF TrailInv
  <2>8. \A i, j \in DOMAIN change' :
           i # j /\ change'[j].implemented_specification_id # None =>
              change'[i].implemented_specification_id # change'[j].implemented_specification_id
    BY <2>1, <2>3 DEF TrailInv
  <2>. QED
    BY <2>1, <2>4, <2>5, <2>6, <2>7, <2>8 DEF TrailInv
<1>14. ASSUME NEW c \in Clerks, ImplementChangeControl(c) PROVE TrailInv'
  <2>0. PICK k, s, n : k = req[c].id /\ s = change[k].specification_id
                       /\ n = Len(specification) + 1
    OBVIOUS
  <2>1. /\ At(c, "implement") /\ k \in DOMAIN change /\ s \in DOMAIN specification
        /\ RevisedTo(specification', s, change[k].proposed_value)
        /\ DOMAIN change' = DOMAIN change
        /\ \A j \in DOMAIN change : j # k => change'[j] = change[j]
        /\ Proposal(change'[k]) = Proposal(change[k]) /\ change'[k].status = "IMPLEMENTED"
        /\ change'[k].implemented_specification_id = n /\ n # None
        /\ Finishes(c)
    BY <1>14, <2>0, ImplementEffect
  <2>2. \A d \in Clerks : At(d, "change") /\ req[d].id = k => <<"change", k>> \in raced
    BY <2>0, <2>1 DEF KeyInv, SpecificationTyped, HeldTyped, At
  <2>3. Remembered
    BY <2>1, RevisedRemembers
  <2>4. /\ n \in DOMAIN specification' /\ n \notin DOMAIN specification
        /\ specification'[s].status = "SUPERSEDED"
        /\ specification'[s].content = specification[s].content
        /\ specification'[s].lineage_id = specification[s].lineage_id
        /\ specification'[s].related_entity = specification[s].related_entity
        /\ specification'[n].lineage_id = specification[s].lineage_id
        /\ specification'[n].related_entity = specification[s].related_entity
        /\ specification'[n].content = Revised(specification[s].content, change[k].proposed_value)
    BY <2>0, <2>1 DEF RevisedTo, Says
  <2>5. /\ change'[k].specification_id = s
        /\ change'[k].previous_value = change[k].previous_value
        /\ change'[k].proposed_value = change[k].proposed_value
        /\ change'[k].related_entity = change[k].related_entity
    BY <2>0, <2>1 DEF Proposal
  <2>6. /\ specification[s].content = change[k].previous_value
        /\ specification[s].related_entity = change[k].related_entity
    BY <2>0, <2>1 DEF TrailInv, TrailOf
  <2>7. \A j \in DOMAIN change : change[j].implemented_specification_id # n
    BY <2>1, <2>4 DEF TrailInv, TrailOf
  <2>8. TrailOf(k)'
    <3>1. PICK row : row = change'[k]
      OBVIOUS
    <3>2. /\ row.specification_id = s /\ row.previous_value = specification'[s].content
          /\ row.related_entity = specification'[s].related_entity
          /\ row.implemented_specification_id = n /\ n # None
          /\ specification'[n].lineage_id = specification'[s].lineage_id
          /\ specification'[n].related_entity = row.related_entity
          /\ specification'[n].content = Revised(specification'[s].content, row.proposed_value)
      BY <2>1, <2>4, <2>5, <2>6, <3>1
    <3>3. n \in DOMAIN specification' /\ specification'[s].status = "SUPERSEDED"
      BY <2>4
    <3>. QED
      BY <3>1, <3>2, <3>3 DEF TrailOf
  <2>9. \A j \in DOMAIN change : j # k => TrailOf(j)'
    BY <2>1, <2>3, TrailKept
  <2>10. \A i, j \in DOMAIN change' :
            i # j /\ change'[j].implemented_specification_id # None =>
               change'[i].implemented_specification_id # change'[j].implemented_specification_id
    BY <2>1, <2>7 DEF TrailInv
  <2>11. \A j \in DOMAIN change' :
           \/ change'[j].implemented_specification_id = None
           \/ change'[j].status = "IMPLEMENTED" \/ <<"change", j>> \in raced'
    BY <1>0, <2>1 DEF TrailInv
  <2>12. ASSUME NEW d \in Clerks, At(d, "submit")'
        PROVE  LET row == req'[d].row IN
               /\ specification'[row.specification_id].content = row.previous_value
               /\ specification'[row.specification_id].related_entity = row.related_entity
    <3>1. req'[d] = req[d] /\ At(d, "submit")
      BY <1>10, <2>1, <2>12 DEF At
    <3>2. /\ req[d].row.specification_id \in DOMAIN specification
          /\ specification[req[d].row.specification_id].content = req[d].row.previous_value
          /\ specification[req[d].row.specification_id].related_entity
                = req[d].row.related_entity
      BY <3>1 DEF SpecificationTyped, HeldTyped, At, TrailInv
    <3>. QED
      BY <2>3, <3>1, <3>2 DEF Remembered
  <2>13. ASSUME NEW d \in Clerks, At(d, "change")'
        PROVE  \/ change'[req'[d].id].implemented_specification_id = None
               \/ <<"change", req'[d].id>> \in raced'
    <3>1. req'[d] = req[d] /\ At(d, "change")
      BY <1>10, <2>1, <2>13 DEF At
    <3>2. req[d].id \in DOMAIN change
      BY <3>1 DEF SpecificationTyped, HeldTyped, At
    <3>. QED
      BY <1>0, <2>1, <2>2, <3>1, <3>2 DEF TrailInv
  <2>. QED
    BY <2>1, <2>8, <2>9, <2>10, <2>11, <2>12, <2>13 DEF TrailInv
<1>15. CASE UNCHANGED <<specification, change>> /\ Apart(Revising)
  BY <1>1, <1>2, <1>15 DEF Apart, At, Revising
<1>. QED
  BY <1>4, <1>5, <1>6, <1>7, <1>8, <1>9, <1>11, <1>12, <1>13, <1>14, <1>15, SpecificationSteps
     DEF SpecificationsNext

-----------------------------------------------------------------------------
(* The revisions *)

RevisionsInv ==
    /\ ReqShape /\ KeyInv /\ DocumentTyped /\ ReferenceInv /\ DocumentInv
    /\ SpecificationTyped /\ SpecificationInv /\ TrailInv

LEMMA ShapeInit == Init => ReqShape /\ KeyInv
<1>. SUFFICES ASSUME Init PROVE ReqShape /\ KeyInv
  OBVIOUS
<1>1. req = [c \in Clerks |-> Idle] /\ begun = 0 /\ today = 1
  BY DEF Init, RequestsInit
<1>. QED
  BY <1>1, BoundsAssumption DEF ReqShape, RequestsOK, KeyInv, At, Idle, Days

LEMMA RevisionsInvariant == Spec => []RevisionsInv
<1>1. Init => RevisionsInv
  <2>1. Init => TrailInv
    BY DEF Init, RevisionsInit, RequestsInit, TrailInv, At, Idle
  <2>. QED
    BY <2>1, ShapeInit, DocumentTypedInit, DocumentInit, SpecificationInit DEF RevisionsInv
<1>2. RevisionsInv /\ [Next]_vars => RevisionsInv'
  BY ShapeNext, KeyNext, DocumentTypedNext, ReferenceNext, DocumentNext,
     SpecificationTypedNext, SpecificationNext, TrailNext DEF RevisionsInv
<1>. QED
  BY <1>1, <1>2, PTL DEF Spec

LEMMA OneIsOne == ASSUME NEW S, NEW i, S = {i} PROVE Cardinality(S) = 1
  BY FS_Singleton

\* Every lineage of documents and of specifications has one current row, and references are
\* not shared, unless two requests held the row that was replaced or counted at once.
THEOREM DevelopmentRevisions == Spec => []OneCurrentRevision
<1>1. RevisionsInv => OneCurrentRevision
  <2>. SUFFICES ASSUME RevisionsInv PROVE OneCurrentRevision
    OBVIOUS
  <2>. USE DEF RevisionsInv
  <2>1. UNION {list_documents(e) : e \in Related} = CurrentDocuments
    <3>1. \A i \in DOMAIN document : document[i].related_entity \in Related
      <4>1. \A i \in DOMAIN document : document[i] \in Document
        BY TableType DEF DocumentTyped
      <4>. QED
        BY <4>1 DEF Document
    <3>. QED
      BY <3>1 DEF list_documents, CurrentDocuments
  <2>2. UNION {current_specifications(e) : e \in Related} = CurrentSpecifications
    <3>1. \A i \in DOMAIN specification : specification[i].related_entity \in Related
      <4>1. \A i \in DOMAIN specification : specification[i] \in Specification
        BY TableType DEF SpecificationTyped
      <4>. QED
        BY <4>1 DEF Specification
    <3>. QED
      BY <3>1 DEF current_specifications, CurrentSpecifications, Current
  <2>3. \A l \in Lineages(document) :
           \/ \E i \in Versions(document, l) : <<"document", i>> \in raced
           \/ Cardinality(Versions(document, l) \intersect CurrentDocuments) = 1
    BY OneIsOne DEF DocumentInv, OneOf
  <2>4. \A l \in Lineages(specification) :
           \/ \E i \in Versions(specification, l) : <<"specification", i>> \in raced
           \/ Cardinality(Versions(specification, l) \intersect CurrentSpecifications) = 1
    BY OneIsOne DEF SpecificationInv, OneOf
  <2>5. \/ <<"documents">> \in raced
        \/ \A i, j \in DOMAIN document :
              document[i].document_reference = document[j].document_reference
                 => document[i].lineage_id = document[j].lineage_id
    BY DEF ReferenceInv
  <2>. QED
    BY <2>1, <2>2, <2>3, <2>4, <2>5 DEF OneCurrentRevision
<1>. QED
  BY <1>1, RevisionsInvariant, PTL

\* A change that has been implemented names the revision it brought, what it replaced is
\* superseded and still says what the change recorded, and nothing else claims it.
THEOREM DevelopmentTrails == Spec => []ChangeTrailAccurate
<1>1. RevisionsInv => ChangeTrailAccurate
  <2>. SUFFICES ASSUME RevisionsInv, NEW e \in Related, NEW k \in changes_for(e)
       PROVE  LET from == specification[change[k].specification_id]
                  n    == change[k].implemented_specification_id
              IN  /\ from.content = change[k].previous_value
                  /\ change[k].status = "IMPLEMENTED" => n # None
                  /\ n # None =>
                        /\ from.status = "SUPERSEDED"
                        /\ specification[n].lineage_id = from.lineage_id
                        /\ specification[n].related_entity = e
                        /\ specification[n].content.effective_date
                              = change[k].proposed_value.effective_date
                        /\ specification[n].content.text
                              = IF change[k].proposed_value.text = Unchanged
                                THEN from.content.text ELSE change[k].proposed_value.text
                        /\ change[k].status = "IMPLEMENTED" \/ <<"change", k>> \in raced
                        /\ \A other \in DOMAIN change :
                              change[other].implemented_specification_id = n => other = k
    BY DEF ChangeTrailAccurate
  <2>1. k \in DOMAIN change /\ change[k].related_entity = e
    BY DEF changes_for
  <2>2. TrailInv
    BY DEF RevisionsInv
  <2>3. TrailOf(k)
    BY <2>1, <2>2 DEF TrailInv
  <2>. QED
    BY <2>1, <2>2, <2>3 DEF TrailInv, TrailOf, Revised
<1>. QED
  BY <1>1, RevisionsInvariant, PTL
-----------------------------------------------------------------------------
(* Types of the estate *)

\* Rows are only added, to the tables that others refer to.
EstateGrow ==
    /\ development' \in Nat /\ development <= development'
    /\ Ids(building) \subseteq Ids(building)' /\ Ids(floor) \subseteq Ids(floor)'
    /\ Ids(property) \subseteq Ids(property)' /\ Ids(space) \subseteq Ids(space)'
    /\ Ids(component) \subseteq Ids(component)' /\ Ids(defect) \subseteq Ids(defect)'

\* What a row may refer to stays there.
LEMMA RangesGrow ==
  ASSUME EstateTypeOK, EstateGrow
  PROVE  /\ 0..development \subseteq 0..development'
         /\ Null(building) \subseteq Null(building)' /\ Null(floor) \subseteq Null(floor)'
         /\ Null(property) \subseteq Null(property)' /\ Null(space) \subseteq Null(space)'
         /\ Null(component) \subseteq Null(component)'
<1>1. 0..development \subseteq 0..development'
  BY DEF EstateTypeOK, EstateGrow
<1>. QED
  BY <1>1 DEF EstateGrow, Null

LEMMA RowTypesGrow ==
  ASSUME EstateTypeOK, EstateGrow
  PROVE  /\ Building \subseteq Building' /\ Floor \subseteq Floor'
         /\ Property \subseteq Property' /\ Space \subseteq Space'
         /\ Component \subseteq Component' /\ Warranty \subseteq Warranty'
         /\ Defect \subseteq Defect' /\ BuildingControlRecord \subseteq BuildingControlRecord'
         /\ StockConditionSurvey \subseteq StockConditionSurvey'
<1>. USE RangesGrow
<1>1. Building \subseteq Building' /\ Floor \subseteq Floor' /\ Space \subseteq Space'
  BY DEF Building, Floor, Space, EstateGrow
<1>2. Property \subseteq Property'
  <2>. DEFINE At1 == [development_id : 0..development, building_id : Null(building),
                      floor_id : Null(floor)]
  <2>1. At1 \subseteq At1'
    OBVIOUS
  <2>2. /\ Property = [position : At1, status : PropertyStatus, created_as : PropertyStatus,
                       payload : PropertyPayloads]
        /\ Property' = [position : At1', status : PropertyStatus, created_as : PropertyStatus,
                        payload : PropertyPayloads]
    BY DEF Property, PropertyStatus
  <2>. HIDE DEF At1
  <2>. QED
    BY <2>1, <2>2
<1>3. AttachmentIds \subseteq AttachmentIds'
  BY DEF AttachmentIds
<1>4. Component \subseteq Component'
  BY <1>3 DEF Component
<1>5. Warranty \subseteq Warranty'
  BY <1>3 DEF Warranty, WarrantyStatus
<1>6. Defect \subseteq Defect'
  BY <1>3, DaysOnly DEF Defect, DefectStatus
<1>7. BuildingControlRecord \subseteq BuildingControlRecord'
  BY DEF BuildingControlRecord, BuildingControlStatus
<1>8. StockConditionSurvey \subseteq StockConditionSurvey'
  BY DaysOnly DEF StockConditionSurvey, EstateGrow
<1>. QED
  BY <1>1, <1>2, <1>4, <1>5, <1>6, <1>7, <1>8

\* References recorded by a creation are of the types and values there are.
LEMMA GivenReferences ==
  ASSUME EstateTypeOK, NEW kind, NEW id, NEW type, NEW given \in Given(type),
         _record_optional_external_references(kind, id, given)
  PROVE  \A r \in reference' : r.reference_type \in ReferenceTypes /\ r.value \in ReferenceValues
<1>1. \A g \in given : g[1] \in ReferenceTypes /\ g[2] \in ReferenceValues
  BY DEF Given
<1>. QED
  BY <1>1 DEF _record_optional_external_references, record_external_reference, EstateTypeOK

\* Where a new row hangs, there are rows.
LEMMA AttachmentsExist ==
  ASSUME EstateTypeOK
  PROVE  Attachments \subseteq AttachmentIds /\ Unattached \in AttachmentIds
<1>1. 0 \in 0..development
  BY DEF EstateTypeOK
<1>. QED
  BY <1>1 DEF Attachments, AttachmentIds, Unattached, Null, None

\* A floor decides the building, and a building its development: all of them exist.
LEMMA PositionTyped ==
  ASSUME EstateTypeOK, NEW d \in 0..development, NEW b \in Null(building), NEW f \in Null(floor)
  PROVE  resolve_property_hierarchy(d, b, f)
            \in [development_id : 0..development, building_id : Null(building),
                 floor_id : Null(floor)]
<1>. DEFINE b1 == IF f # None THEN floor[f].building_id ELSE b
            d1 == IF b1 # None /\ building[b1].development_id # None
                  THEN building[b1].development_id ELSE d
<1>1. \A g \in Ids(floor) : floor[g].building_id \in Ids(building)
  <2>1. \A i \in Ids(floor) : floor[i] \in Floor
    BY TableType DEF EstateTypeOK, Ids
  <2>. QED
    BY <2>1 DEF Floor
<1>2. \A a \in Ids(building) : building[a].development_id \in 0..development
  <2>1. \A i \in Ids(building) : building[i] \in Building
    BY TableType DEF EstateTypeOK, Ids
  <2>. QED
    BY <2>1 DEF Building
<1>3. b1 \in Null(building)
  BY <1>1 DEF Null
<1>4. d1 \in 0..development
  BY <1>2, <1>3 DEF Null
<1>5. resolve_property_hierarchy(d, b, f)
         = [development_id |-> d1, building_id |-> b1, floor_id |-> f]
  BY DEF resolve_property_hierarchy
<1>. HIDE DEF b1, d1
<1>. QED
  BY <1>3, <1>4, <1>5

\* A step that writes rows of the types there are, and takes none away, keeps the types.
EstateRows ==
    /\ building' \in Seq(Building) /\ floor' \in Seq(Floor) /\ property' \in Seq(Property)
    /\ space' \in Seq(Space) /\ component' \in Seq(Component)
    /\ warranty' \in Seq(Warranty) /\ defect' \in Seq(Defect)
    /\ control_record' \in Seq(BuildingControlRecord)
    /\ survey' \in Seq(StockConditionSurvey)
    /\ \A r \in reference' : r.reference_type \in ReferenceTypes /\ r.value \in ReferenceValues

LEMMA EstateKept ==
  ASSUME EstateTypeOK, EstateGrow, EstateRows
  PROVE  EstateTypeOK'
<1>1. /\ building' \in Seq(Building') /\ floor' \in Seq(Floor')
      /\ property' \in Seq(Property') /\ space' \in Seq(Space')
      /\ component' \in Seq(Component') /\ warranty' \in Seq(Warranty')
      /\ defect' \in Seq(Defect') /\ control_record' \in Seq(BuildingControlRecord')
      /\ survey' \in Seq(StockConditionSurvey')
  BY RowTypesGrow, WiderRows DEF EstateRows
<1>. QED
  BY <1>1 DEF EstateTypeOK, EstateGrow, EstateRows

LEMMA OldEstate ==
  ASSUME EstateTypeOK
  PROVE  /\ building \in Seq(Building) /\ floor \in Seq(Floor) /\ property \in Seq(Property)
         /\ space \in Seq(Space) /\ component \in Seq(Component)
         /\ warranty \in Seq(Warranty) /\ defect \in Seq(Defect)
         /\ control_record \in Seq(BuildingControlRecord)
         /\ survey \in Seq(StockConditionSurvey)
         /\ development \in Nat /\ development <= development
         /\ \A r \in reference : r.reference_type \in ReferenceTypes /\ r.value \in ReferenceValues
  BY DEF EstateTypeOK

LEMMA HierarchyKept ==
  ASSUME EstateTypeOK, HierarchyNext
  PROVE  EstateRows /\ EstateGrow
<1>. USE OldEstate, TableGrows, RowAppended
<1>1. CASE AddDevelopment
  BY <1>1 DEF AddDevelopment, create_development, EstateRows, EstateGrow, Ids
<1>2. CASE AddBuilding
  <2>1. PICK d \in 0..development, given \in Given("BUILDING_CONTROL_REFERENCE") :
           /\ building' = Append(building, create_building(d))
           /\ _record_optional_external_references("building", Len(building) + 1, given)
    BY <1>2 DEF AddBuilding
  <2>2. create_building(d) \in Building
    BY DEF create_building, Building
  <2>3. building' \in Seq(Building) /\ Ids(building) \subseteq Ids(building)'
    BY <2>1, <2>2 DEF Ids
  <2>. QED
    BY <1>2, <2>1, <2>3, GivenReferences DEF AddBuilding, EstateRows, EstateGrow, Ids
<1>3. CASE AddFloor
  <2>1. PICK b \in Ids(building) : floor' = Append(floor, create_floor(b))
    BY <1>3 DEF AddFloor
  <2>2. create_floor(b) \in Floor
    BY DEF create_floor, Floor
  <2>3. floor' \in Seq(Floor) /\ Ids(floor) \subseteq Ids(floor)'
    BY <2>1, <2>2 DEF Ids
  <2>. QED
    BY <1>3, <2>3 DEF AddFloor, EstateRows, EstateGrow, Ids
<1>4. ASSUME NEW position \in [development_id : 0..development, building_id : Null(building),
                               floor_id : Null(floor)],
             NEW status \in PropertyStatus, NEW payload \in PropertyPayloads,
             NEW given \in Given("UPRN"),
             property' = Append(property, create_property(position, status, payload)),
             _record_optional_external_references("property", Len(property) + 1, given),
             UNCHANGED <<development, building, floor, space, component,
                         warranty, defect, control_record, survey>>
      PROVE  EstateRows /\ EstateGrow
  <2>1. create_property(position, status, payload) \in Property
    BY DEF create_property, Property
  <2>2. property' \in Seq(Property) /\ Ids(property) \subseteq Ids(property)'
    BY <1>4, <2>1 DEF Ids
  <2>. QED
    BY <1>4, <2>2, GivenReferences DEF EstateRows, EstateGrow, Ids
<1>5. CASE AddProperty
  <2>1. PICK d \in 0..development, b \in Null(building), f \in Null(floor),
             status \in StatusesAsked, payload \in PropertyPayloads, given \in Given("UPRN") :
             /\ property' = Append(property,
                   create_property(resolve_property_hierarchy(d, b, f), status, payload))
             /\ _record_optional_external_references("property", Len(property) + 1, given)
    BY <1>5 DEF AddProperty
  <2>2. status \in PropertyStatus
    BY EstateAssumption DEF PropertyStatus
  <2>. QED
    BY <1>4, <1>5, <2>1, <2>2, PositionTyped DEF AddProperty
<1>6. CASE import_property_row
  <2>1. PICK payload \in PropertyPayloads, given \in Given("UPRN") :
             /\ property' = Append(property,
                   create_property(resolve_property_hierarchy(None, None, None),
                                   "OPERATIONAL", payload))
             /\ _record_optional_external_references("property", Len(property) + 1, given)
    BY <1>6 DEF import_property_row
  <2>2. "OPERATIONAL" \in PropertyStatus /\ None \in 0..development
        /\ None \in Null(building) /\ None \in Null(floor)
    BY DEF PropertyStatus, None, Null
  <2>. QED
    BY <1>4, <1>6, <2>1, <2>2, PositionTyped DEF import_property_row
<1>7. CASE AddSpace
  <2>1. PICK p \in Ids(property) : space' = Append(space, create_space(p))
    BY <1>7 DEF AddSpace
  <2>2. create_space(p) \in Space
    BY DEF create_space, Space
  <2>3. space' \in Seq(Space) /\ Ids(space) \subseteq Ids(space)'
    BY <2>1, <2>2 DEF Ids
  <2>. QED
    BY <1>7, <2>3 DEF AddSpace, EstateRows, EstateGrow, Ids
<1>. QED
  BY <1>1, <1>2, <1>3, <1>5, <1>6, <1>7 DEF HierarchyNext

\* The requests to the registers that take one step.
RegisterOnce ==
    \/ AddExternalReference
    \/ AddComponent \/ import_component_row
    \/ AddWarranty \/ VoidWarranty
    \/ AddDefect
    \/ AddBuildingControlRecord \/ UpdateBuildingControlRecord
    \/ AddSurvey

LEMMA RegisterKept ==
  ASSUME EstateTypeOK, RegisterOnce
  PROVE  EstateRows /\ EstateGrow
<1>. USE OldEstate, TableGrows, RowAppended, AttachmentsExist
<1>1. CASE AddExternalReference
  <2>1. PICK e \in {<<"building", b>> : b \in Ids(building)}
                   \union {<<"component", x>> : x \in Ids(component)} :
           \E t \in ReferenceTypes, v \in ReferenceValues :
              reference' = reference \union {record_external_reference(e[1], e[2], t, v)}
    BY <1>1 DEF AddExternalReference
  <2>2. PICK t \in ReferenceTypes, v \in ReferenceValues :
              reference' = reference \union {record_external_reference(e[1], e[2], t, v)}
    BY <2>1
  <2>3. \A r \in reference' : r.reference_type \in ReferenceTypes /\ r.value \in ReferenceValues
    BY <2>2 DEF record_external_reference
  <2>. QED
    BY <1>1, <2>3 DEF AddExternalReference, EstateRows, EstateGrow, Ids
<1>2. ASSUME NEW at \in AttachmentIds, NEW s \in Null(space), NEW parent \in Null(component),
             NEW payload \in ComponentPayloads, NEW given \in Given("MANUFACTURER_SERIAL_NUMBER"),
             component' = Append(component, create_component(at, s, parent, payload)),
             _record_optional_external_references("component", Len(component) + 1, given),
             UNCHANGED <<development, building, floor, property, space,
                         warranty, defect, control_record, survey>>
      PROVE  EstateRows /\ EstateGrow
  <2>1. create_component(at, s, parent, payload) \in Component
    BY DEF create_component, Component
  <2>2. component' \in Seq(Component) /\ Ids(component) \subseteq Ids(component)'
    BY <1>2, <2>1 DEF Ids
  <2>. QED
    BY <1>2, <2>2, GivenReferences DEF EstateRows, EstateGrow, Ids
<1>3. CASE AddComponent
  BY <1>2, <1>3 DEF AddComponent
<1>4. CASE import_component_row
  <2>1. None \in Null(space) /\ None \in Null(component)
    BY DEF Null
  <2>. QED
    BY <1>2, <1>4, <2>1 DEF import_component_row
<1>5. CASE AddWarranty
  <2>1. PICK at \in Attachments, x \in Null(component) :
             warranty' = Append(warranty, create_warranty(at, x))
    BY <1>5 DEF AddWarranty
  <2>2. create_warranty(at, x) \in Warranty
    BY DEF create_warranty, Warranty, WarrantyStatus
  <2>3. warranty' \in Seq(Warranty)
    BY <2>1, <2>2
  <2>. QED
    BY <1>5, <2>3 DEF AddWarranty, EstateRows, EstateGrow, Ids
<1>6. CASE VoidWarranty
  <2>1. PICK w \in Ids(warranty) : warranty' = void_warranty(w)
    BY <1>6 DEF VoidWarranty
  <2>. DEFINE row == [warranty[w] EXCEPT !.status = "VOID"]
  <2>2. warranty' = [warranty EXCEPT ![w] = row] /\ warranty[w] \in Warranty
    BY <2>1, TableType DEF void_warranty, Ids
  <2>3. row \in Warranty
    BY <2>2 DEF Warranty, WarrantyStatus
  <2>. HIDE DEF row
  <2>4. warranty' \in Seq(Warranty)
    BY <2>1, <2>2, <2>3, RowWritten DEF Ids
  <2>. QED
    BY <1>6, <2>4 DEF VoidWarranty, EstateRows, EstateGrow, Ids
<1>7. CASE AddDefect
  <2>1. PICK at \in Attachments, x \in Null(component) :
             defect' = Append(defect, create_defect(at, x))
    BY <1>7 DEF AddDefect
  <2>2. create_defect(at, x) \in Defect
    BY DEF create_defect, Defect, DefectStatus
  <2>3. defect' \in Seq(Defect) /\ Ids(defect) \subseteq Ids(defect)'
    BY <2>1, <2>2 DEF Ids
  <2>. QED
    BY <1>7, <2>3 DEF AddDefect, EstateRows, EstateGrow, Ids
<1>8. CASE AddBuildingControlRecord
  <2>1. PICK d \in 0..development, b \in Null(building),
             given \in Given("BUILDING_CONTROL_REFERENCE") :
             /\ control_record' = Append(control_record, create_building_control_record(d, b))
             /\ _record_optional_external_references("building_control_record",
                                                     Len(control_record) + 1, given)
    BY <1>8 DEF AddBuildingControlRecord
  <2>2. create_building_control_record(d, b) \in BuildingControlRecord
    BY DEF create_building_control_record, BuildingControlRecord, BuildingControlStatus
  <2>3. control_record' \in Seq(BuildingControlRecord)
    BY <2>1, <2>2
  <2>. QED
    BY <1>8, <2>1, <2>3, GivenReferences
       DEF AddBuildingControlRecord, EstateRows, EstateGrow, Ids
<1>9. CASE UpdateBuildingControlRecord
  <2>1. PICK i \in Ids(control_record), to \in BuildingControlStatus :
             control_record' = update_building_control_record(i, to)
    BY <1>9 DEF UpdateBuildingControlRecord
  <2>. DEFINE row == [control_record[i] EXCEPT !.status = to]
  <2>2. /\ control_record' = [control_record EXCEPT ![i] = row]
        /\ control_record[i] \in BuildingControlRecord
    BY <2>1, TableType DEF update_building_control_record, Ids
  <2>3. row \in BuildingControlRecord
    BY <2>2 DEF BuildingControlRecord
  <2>. HIDE DEF row
  <2>4. control_record' \in Seq(BuildingControlRecord)
    BY <2>1, <2>2, <2>3, RowWritten DEF Ids
  <2>. QED
    BY <1>9, <2>4 DEF UpdateBuildingControlRecord, EstateRows, EstateGrow, Ids
<1>10. CASE AddSurvey
  <2>1. PICK p \in Ids(property), date \in Days, due \in Days \union {None} :
             survey' = Append(survey, create_survey(p, date, due))
    BY <1>10 DEF AddSurvey
  <2>2. create_survey(p, date, due) \in StockConditionSurvey
    BY DEF create_survey, StockConditionSurvey
  <2>3. survey' \in Seq(StockConditionSurvey)
    BY <2>1, <2>2
  <2>. QED
    BY <1>10, <2>3 DEF AddSurvey, EstateRows, EstateGrow, Ids
<1>. QED
  BY <1>1, <1>3, <1>4, <1>5, <1>6, <1>7, <1>8, <1>9, <1>10 DEF RegisterOnce

\* The status of a defect is written.
LEMMA DefectKept ==
  ASSUME EstateTypeOK, today \in Days, NEW i \in Ids(defect), NEW to \in DefectStatus,
         defect' = update_defect_status(i, to),
         UNCHANGED <<development, building, floor, property, space, component,
                     warranty, control_record, survey, reference>>
  PROVE  EstateRows /\ EstateGrow
<1>. USE OldEstate
<1>. DEFINE row == [defect[i] EXCEPT !.status = to,
                       !.completion_date = IF to = "COMPLETED" THEN today ELSE @]
<1>1. defect' = [defect EXCEPT ![i] = row] /\ defect[i] \in Defect
  BY TableType DEF update_defect_status, Ids
<1>2. row \in Defect
  BY <1>1 DEF Defect
<1>. HIDE DEF row
<1>3. defect' \in Seq(Defect) /\ Ids(defect)' = Ids(defect)
  BY <1>1, <1>2, RowWritten DEF Ids
<1>. QED
  BY <1>3 DEF EstateRows, EstateGrow, Ids

\* The statuses of properties are written.
LEMMA PropertiesKept ==
  ASSUME EstateTypeOK, property' \in Seq(Property), Ids(property) \subseteq Ids(property)',
         UNCHANGED <<development, building, floor, space, component,
                     warranty, defect, control_record, survey, reference>>
  PROVE  EstateRows /\ EstateGrow
  BY OldEstate DEF EstateRows, EstateGrow, Ids

LEMMA EstateSame == ASSUME EstateTypeOK, UNCHANGED estate PROVE EstateRows /\ EstateGrow
  BY OldEstate DEF EstateRows, EstateGrow, Ids, estate

-----------------------------------------------------------------------------
(* Rows written for each of a set *)

\* A set is put in an order in which each member has one place.
LEMMA OrderOf ==
  ASSUME NEW S, IsFiniteSet(S)
  PROVE  LET order == SetToSeq(S) IN
         /\ Cardinality(S) \in Nat
         /\ order \in [1..Cardinality(S) -> S]
         /\ \A x \in S : \E n \in DOMAIN order : order[n] = x
         /\ \A m, n \in DOMAIN order : order[m] = order[n] => m = n
<1>. DEFINE K == Cardinality(S)
            order == SetToSeq(S)
<1>1. K \in Nat /\ ExistsBijection(1..K, S)
  BY FS_CardinalityType
<1>2. PICK f : f \in Bijection(1..K, S)
  BY <1>1 DEF ExistsBijection
<1>3. f \in [1..K -> S] /\ IsInjective(f)
  BY <1>2 DEF Bijection, Injection
<1>4. order \in [1..K -> S] /\ IsInjective(order)
  BY <1>3 DEF SetToSeq
<1>. HIDE DEF order
<1>5. order \in Injection(1..K, S)
  BY <1>4 DEF Injection
<1>6. Cardinality(1..K) = K /\ IsFiniteSet(1..K)
  <2>1. K = 0 \/ K >= 1
    BY <1>1
  <2>. QED
    BY <1>1, <2>1, FS_Interval
<1>. HIDE DEF K
<1>7. order \in Surjection(1..K, S)
  BY <1>5, <1>6, FS_Injection DEF K
<1>8. \A x \in S : \E n \in DOMAIN order : order[n] = x
  BY <1>4, <1>7 DEF Surjection
<1>. QED
  BY <1>1, <1>4, <1>8 DEF IsInjective, K, order

\* The rows that follow those of a table: one, and only one, about each member of S.
OneOfEach(table, after, S) ==
    LET new == DOMAIN after \ DOMAIN table IN
    /\ DOMAIN table \subseteq DOMAIN after /\ DOMAIN after \subseteq Nat
    /\ \A m \in DOMAIN table : after[m] = table[m]
    /\ \A m \in new : /\ after[m].property_id \in S /\ 0 < m
                      /\ \A k \in DOMAIN table : k < m
    /\ \A x \in S : \E e \in new :
          after[e].property_id = x /\ \A m \in new : after[m].property_id = x => m = e

LEMMA RowsOfEach ==
  ASSUME NEW T, NEW table \in Seq(T), NEW S, IsFiniteSet(S), NEW rows,
         rows = [n \in DOMAIN SetToSeq(S) |-> rows[n]],
         \A n \in DOMAIN SetToSeq(S) : rows[n] \in T /\ rows[n].property_id = SetToSeq(S)[n]
  PROVE  LET after == table \o rows IN
         after \in Seq(T) /\ OneOfEach(table, after, S)
<1>. DEFINE K == Cardinality(S)
            L == Len(table)
            order == SetToSeq(S)
            after == table \o rows
<1>1. /\ K \in Nat /\ order \in [1..K -> S]
      /\ \A x \in S : \E n \in DOMAIN order : order[n] = x
      /\ \A m, n \in DOMAIN order : order[m] = order[n] => m = n
  BY OrderOf
<1>2. L \in Nat /\ DOMAIN table = 1..L
  BY TableType
<1>. HIDE DEF order, K
<1>3. /\ rows \in [1..K -> T] /\ DOMAIN rows = 1..K
      /\ \A n \in 1..K : rows[n].property_id = order[n]
  BY <1>1 DEF order
<1>4. rows \in Seq(T) /\ Len(rows) = K
  <2>1. rows \in Seq(T)
    BY <1>1, <1>3, SeqDef
  <2>. QED
    BY <1>1, <1>3, <2>1, LenProperties
<1>5. /\ after \in Seq(T) /\ Len(after) = L + K
      /\ \A i \in 1..(L + K) : after[i] = IF i <= L THEN table[i] ELSE rows[i - L]
  BY <1>4, ConcatProperties
<1>. HIDE DEF after, L
<1>6. DOMAIN after = 1..(L + K)
  BY <1>5, TableType
<1>0. K \in Nat /\ L \in Nat
  BY <1>1, <1>2
<1>7. \A m \in 1..L : after[m] = table[m]
  <2>. TAKE m \in 1..L
  <2>1. m \in 1..(L + K) /\ m <= L
    BY <1>0
  <2>. QED
    BY <1>5, <2>1
<1>8. \A m \in DOMAIN after \ DOMAIN table : m - L \in 1..K /\ after[m] = rows[m - L] /\ m > L
  <2>. TAKE m \in DOMAIN after \ DOMAIN table
  <2>1. m \in 1..(L + K) /\ m \notin 1..L
    BY <1>2, <1>6
  <2>2. m - L \in 1..K /\ m > L
    BY <1>0, <2>1
  <2>3. ~(m <= L)
    BY <1>0, <2>1
  <2>. QED
    BY <1>5, <2>1, <2>2, <2>3
<1>9. \A x \in S : \E e \in DOMAIN after \ DOMAIN table :
         after[e].property_id = x
         /\ \A m \in DOMAIN after \ DOMAIN table : after[m].property_id = x => m = e
  <2>. TAKE x \in S
  <2>1. PICK n \in 1..K : order[n] = x
    BY <1>1
  <2>2. L + n \in DOMAIN after \ DOMAIN table /\ (L + n) - L = n
    BY <1>1, <1>2, <1>6
  <2>3. after[L + n].property_id = x
    BY <1>3, <1>8, <2>1, <2>2
  <2>4. ASSUME NEW m \in DOMAIN after \ DOMAIN table, after[m].property_id = x PROVE m = L + n
    <3>1. m - L \in 1..K /\ order[m - L] = order[n]
      BY <1>3, <1>8, <2>1, <2>4
    <3>2. m - L = n
      BY <1>1, <2>1, <3>1
    <3>. QED
      BY <1>2, <1>6, <3>2
  <2>. QED
    BY <2>2, <2>3, <2>4
<1>10. \A m \in DOMAIN after \ DOMAIN table :
          /\ after[m].property_id \in S
          /\ 0 < m /\ \A k \in DOMAIN table : k < m
  <2>. TAKE m \in DOMAIN after \ DOMAIN table
  <2>1. m - L \in 1..K /\ after[m] = rows[m - L] /\ m > L
    BY <1>8
  <2>2. order[m - L] \in S /\ rows[m - L].property_id = order[m - L]
    BY <1>1, <1>3, <2>1
  <2>3. m \in Nat
    BY <1>0, <1>6
  <2>. QED
    BY <1>0, <1>2, <1>3, <2>1, <2>2, <2>3
<1>11. DOMAIN table \subseteq DOMAIN after /\ DOMAIN after \subseteq Nat
  BY <1>0, <1>2, <1>6
<1>. QED
  BY <1>2, <1>5, <1>7, <1>9, <1>10, <1>11 DEF OneOfEach, after

\* The rows that follow those of a table are the ones appended.
LEMMA RowsAfter ==
  ASSUME NEW T, NEW table \in Seq(T), NEW rows \in Seq(T)
  PROVE  \A m \in DOMAIN (table \o rows) \ DOMAIN table :
            \E n \in DOMAIN rows : (table \o rows)[m] = rows[n]
<1>. DEFINE L == Len(table)
            K == Len(rows)
            after == table \o rows
<1>1. L \in Nat /\ K \in Nat /\ DOMAIN table = 1..L /\ DOMAIN rows = 1..K
  BY TableType
<1>2. /\ after \in Seq(T) /\ Len(after) = L + K
      /\ \A i \in 1..(L + K) : after[i] = IF i <= L THEN table[i] ELSE rows[i - L]
  BY ConcatProperties
<1>3. DOMAIN after = 1..(L + K)
  BY <1>2, TableType
<1>. HIDE DEF L, K, after
<1>4. SUFFICES ASSUME NEW m \in DOMAIN after \ DOMAIN table
               PROVE  \E n \in DOMAIN rows : after[m] = rows[n]
  BY DEF after
<1>5. m \in 1..(L + K) /\ ~(m <= L) /\ m - L \in 1..K
  BY <1>1, <1>3
<1>. QED
  BY <1>1, <1>2, <1>5

-----------------------------------------------------------------------------
(* The score *)

\* Division of natural numbers rounds down.
LEMMA DivDef ==
  ASSUME NEW a \in Int, NEW b \in Nat, b > 0
  PROVE  a \div b \in Int /\ b * (a \div b) <= a /\ a < b * (a \div b) + b
OBVIOUS

LEMMA DivWhole ==
  ASSUME NEW b \in Nat, b > 0, NEW n \in Nat
  PROVE  (b * n) \div b = n
OBVIOUS

LEMMA ThreeFinite == ASSUME NEW a, NEW b, NEW c PROVE IsFiniteSet({a, b, c})
<1>1. IsFiniteSet({a} \union {b})
  BY FS_Singleton, FS_AddElement
<1>2. IsFiniteSet(({a} \union {b}) \union {c})
  BY <1>1, FS_AddElement
<1>3. {a, b, c} = ({a} \union {b}) \union {c}
  OBVIOUS
<1>. QED
  BY <1>2, <1>3

LEMMA CodesFinite == IsFiniteSet(CheckCodes)
<1>. DEFINE A == {"PROPERTIES_CREATED", "COMPONENTS_CAPTURED", "REQUIRED_COMPONENT_FIELDS"}
            B == {"WARRANTIES_RECEIVED", "CERTIFICATES_RECEIVED", "COMMISSIONING_EVIDENCE"}
            C == {"OM_DOCUMENTATION", "BUILDING_CONTROL_REFERENCE", "OUTSTANDING_DEFECTS"}
<1>1. IsFiniteSet(A) /\ IsFiniteSet(B) /\ IsFiniteSet(C)
  BY ThreeFinite
<1>2. CheckCodes = (A \union B) \union C
  BY DEF CheckCodes, DEFAULT_CHECK_WEIGHTS
<1>. HIDE DEF A, B, C
<1>3. IsFiniteSet(A \union B)
  BY <1>1, FS_Union
<1>4. IsFiniteSet((A \union B) \union C)
  BY <1>1, <1>3, FS_Union
<1>. QED
  BY <1>2, <1>4

\* A result counts no more failing rows than it applies to.
ResultOK(r) ==
    r \in [applicable_count : Nat, failing_count : Nat] /\ r.failing_count <= r.applicable_count

\* Each check applies to nothing, or to as many rows as one of the three.
SizesOK(checks) ==
    \A k \in CheckCodes :
       Size(checks[k]) \in {1, Size(checks.COMPONENTS_CAPTURED), Size(checks.WARRANTIES_RECEIVED),
                            Size(checks.BUILDING_CONTROL_REFERENCE)}

ChecksOK(checks) ==
    checks \in [CheckCodes -> {r \in [applicable_count : Nat, failing_count : Nat] : ResultOK(r)}]
    /\ SizesOK(checks)

LEMMA ResultOf ==
  ASSUME NEW applicable, IsFiniteSet(applicable), NEW failing \in SUBSET applicable
  PROVE  ResultOK(Result(applicable, failing))
  BY FS_Subset, FS_CardinalityType DEF ResultOK, Result

LEMMA WholeOf ==
  ASSUME NEW failing \in BOOLEAN
  PROVE  ResultOK(Whole(failing)) /\ Size(Whole(failing)) = 1
<1>1. IsFiniteSet({"development"}) /\ Cardinality({"development"}) = 1
  BY FS_Singleton
<1>. QED
  BY <1>1, ResultOf DEF Whole, Result, Size

LEMMA ChecksOf ==
  ASSUME EstateTypeOK, NEW d
  PROVE  ChecksOK(Checks(d))
<1>1. IsFiniteSet(Ids(property)) /\ IsFiniteSet(Ids(component)) /\ IsFiniteSet(Ids(building))
  BY TableType DEF EstateTypeOK, Ids
<1>2. /\ IsFiniteSet(properties_in_development(d)) /\ IsFiniteSet(_components_in_scope(d))
      /\ IsFiniteSet(BuildingsOf(d))
  BY <1>1, FS_Subset DEF properties_in_development, _components_in_scope, BuildingsOf
<1>3. /\ ResultOK(check_properties_created(d)) /\ Size(check_properties_created(d)) = 1
      /\ ResultOK(check_om_documentation(d)) /\ Size(check_om_documentation(d)) = 1
      /\ ResultOK(check_outstanding_defects(d)) /\ Size(check_outstanding_defects(d)) = 1
  BY WholeOf DEF check_properties_created, check_om_documentation, check_outstanding_defects
<1>4. ResultOK(check_components_captured(d))
  BY <1>2, ResultOf DEF check_components_captured
<1>5. /\ ResultOK(check_required_component_fields(d))
      /\ Size(check_required_component_fields(d)) = Size(check_warranties_received(d))
  BY <1>2, ResultOf DEF check_required_component_fields, check_warranties_received, Size, Result
<1>6. ResultOK(check_warranties_received(d))
  BY <1>2, ResultOf DEF check_warranties_received
<1>7. \A type : /\ ResultOK(check_documents(d, type))
                /\ Size(check_documents(d, type)) = Size(check_warranties_received(d))
  <2>. TAKE type
  <2>. DEFINE xs == _components_in_scope(d)
              missing == xs \ _document_types_by_entity("component", xs, type)
  <2>1. check_documents(d, type) = Result(xs, missing) /\ missing \in SUBSET xs
    BY DEF check_documents
  <2>2. \E other : check_warranties_received(d) = Result(xs, other)
    BY DEF check_warranties_received
  <2>. HIDE DEF missing
  <2>. QED
    BY <1>2, <2>1, <2>2, ResultOf DEF Size, Result
<1>8. ResultOK(check_building_control_reference(d))
  BY <1>2, ResultOf DEF check_building_control_reference
<1>9. \A k \in CheckCodes : ResultOK(Checks(d)[k])
  BY <1>3, <1>4, <1>5, <1>6, <1>7, <1>8 DEF Checks, CheckCodes, DEFAULT_CHECK_WEIGHTS
<1>10. SizesOK(Checks(d))
  BY <1>3, <1>5, <1>7 DEF SizesOK, Checks, CheckCodes, DEFAULT_CHECK_WEIGHTS
<1>11. DOMAIN Checks(d) = CheckCodes /\ Checks(d) = [k \in CheckCodes |-> Checks(d)[k]]
  BY DEF Checks, CheckCodes, DEFAULT_CHECK_WEIGHTS
<1>12. \A k \in CheckCodes :
          Checks(d)[k] \in {r \in [applicable_count : Nat, failing_count : Nat] : ResultOK(r)}
  BY <1>9 DEF ResultOK
<1>. QED
  BY <1>10, <1>11, <1>12 DEF ChecksOK

LEMMA SizeType == ASSUME NEW r, ResultOK(r) PROVE Size(r) \in Nat \ {0}
  BY DEF ResultOK, Size

\* The parts are a whole number of rows of each check.
LEMMA PartsOf ==
  ASSUME NEW checks, ChecksOK(checks)
  PROVE  /\ Parts(checks) \in Nat \ {0}
         /\ \A k \in CheckCodes : /\ Parts(checks) \div Size(checks[k]) \in Nat
                                  /\ Size(checks[k]) * (Parts(checks) \div Size(checks[k])) = Parts(checks)
<1>1. \A k \in CheckCodes : Size(checks[k]) \in Nat \ {0}
  BY SizeType DEF ChecksOK
<1>2. {"COMPONENTS_CAPTURED", "WARRANTIES_RECEIVED", "BUILDING_CONTROL_REFERENCE"} \subseteq CheckCodes
  BY DEF CheckCodes, DEFAULT_CHECK_WEIGHTS
<1>3. PICK a \in Nat \ {0}, b \in Nat \ {0}, c \in Nat \ {0} :
         /\ a = Size(checks.COMPONENTS_CAPTURED) /\ b = Size(checks.WARRANTIES_RECEIVED)
         /\ c = Size(checks.BUILDING_CONTROL_REFERENCE)
  BY <1>1, <1>2
<1>4. PICK P \in Nat \ {0} : P = a * b * c /\ P = Parts(checks)
  <2>1. a * b \in Nat \ {0}
    OBVIOUS
  <2>2. a * b * c \in Nat \ {0}
    BY <2>1
  <2>. QED
    BY <1>3, <2>2 DEF Parts
<1>5. \A s \in {1, a, b, c} : \E q \in Nat : P = s * q
  <2>1. P = 1 * P /\ P = a * (b * c) /\ P = b * (a * c) /\ P = c * (a * b)
    BY <1>4
  <2>2. b * c \in Nat /\ a * c \in Nat /\ a * b \in Nat
    OBVIOUS
  <2>. QED
    BY <2>1, <2>2
<1>6. ASSUME NEW k \in CheckCodes
      PROVE  P \div Size(checks[k]) \in Nat /\ Size(checks[k]) * (P \div Size(checks[k])) = P
  <2>1. PICK s \in Nat \ {0} : s = Size(checks[k]) /\ s \in {1, a, b, c}
    BY <1>1, <1>3 DEF ChecksOK, SizesOK
  <2>2. PICK q \in Nat : P = s * q
    BY <1>5, <2>1
  <2>3. (s * q) \div s = q
    BY DivWhole
  <2>. QED
    BY <2>1, <2>2, <2>3
<1>. QED
  BY <1>4, <1>6

\* What passes of a check and what fails of it make up its parts.
LEMMA RatioOf ==
  ASSUME NEW r, ResultOK(r), NEW P \in Nat, NEW q \in Nat, q = P \div Size(r), Size(r) * q = P
  PROVE  /\ pass_ratio(r, P) \in Nat /\ r.failing_count * q \in Nat
         /\ P = pass_ratio(r, P) + r.failing_count * q
<1>1. PICK a \in Nat, f \in Nat : a = r.applicable_count /\ f = r.failing_count /\ f <= a
  BY DEF ResultOK
<1>2. f * q \in Nat
  OBVIOUS
<1>3. CASE a = 0
  <2>1. pass_ratio(r, P) = P /\ f * q = 0
    BY <1>1, <1>3 DEF pass_ratio
  <2>. QED
    BY <1>1, <1>2, <2>1
<1>4. CASE a # 0
  <2>1. pass_ratio(r, P) = (a - f) * q /\ a * q = P
    BY <1>1, <1>4 DEF pass_ratio, Size
  <2>2. (a - f) * q = a * q - f * q
    OBVIOUS
  <2>3. a - f \in Nat
    BY <1>1
  <2>4. (a - f) * q \in Nat
    BY <2>3
  <2>. QED
    BY <1>1, <1>2, <2>1, <2>2, <2>4
<1>. QED
  BY <1>3, <1>4

\* What rounding keeps.
LEMMA RoundedOf ==
  ASSUME NEW n \in Int, NEW t \in Int, t # 0
  PROVE  /\ Rounded(n, t) \in Int
         /\ t > 0 /\ 0 <= n /\ n <= 1000 * t => Rounded(n, t) \in 0..1000
         /\ t > 0 /\ Rounded(n, t) >= 1000 => 2 * n + t >= 2000 * t
<1>1. CASE t < 0
  <2>1. PICK a \in Int, b \in Nat : a = -2 * n - t /\ b = -2 * t /\ b > 0
    <3>1. PICK m \in Nat : m = -t /\ m > 0
      BY <1>1
    <3>2. -2 * n - t \in Int /\ -2 * t = 2 * m /\ 2 * m \in Nat /\ 2 * m > 0
      BY <3>1
    <3>. QED
      BY <3>2
  <2>2. a \div b \in Int
    BY <2>1, DivDef
  <2>3. Rounded(n, t) = a \div b
    BY <1>1, <2>1 DEF Rounded
  <2>. QED
    BY <1>1, <2>2, <2>3
<1>2. CASE t > 0
  <2>1. PICK q \in Int : /\ q = Rounded(n, t) /\ (2 * t) * q <= 2 * n + t
                         /\ 2 * n + t < (2 * t) * q + 2 * t
    <3>1. (2 * n + t) \in Int /\ 2 * t \in Nat /\ 2 * t > 0
      BY <1>2
    <3>2. PICK a \in Int, b \in Nat : a = 2 * n + t /\ b = 2 * t /\ b > 0
      BY <3>1
    <3>3. a \div b \in Int /\ b * (a \div b) <= a /\ a < b * (a \div b) + b
      BY <3>2, DivDef
    <3>. QED
      BY <1>2, <3>2, <3>3 DEF Rounded
  <2>2. n >= 0 => q >= 0
    <3>1. CASE q <= -1
      <4>1. (2 * t) * (q + 1) <= 0
        BY <1>2, <3>1
      <4>2. (2 * t) * (q + 1) = (2 * t) * q + 2 * t
        OBVIOUS
      <4>. QED
        BY <1>2, <2>1, <4>1, <4>2
    <3>. QED
      BY <3>1
  <2>3. n <= 1000 * t => q <= 1000
    <3>1. CASE q >= 1001
      <4>1. (2 * t) * q >= (2 * t) * 1001
        BY <1>2, <3>1
      <4>. QED
        BY <1>2, <2>1, <4>1
    <3>. QED
      BY <3>1
  <2>4. q >= 1000 => 2 * n + t >= 2000 * t
    <3>1. q >= 1000 => (2 * t) * q >= 2000 * t
      BY <1>2
    <3>2. PICK x \in Int : x = (2 * t) * q
      OBVIOUS
    <3>. QED
      BY <2>1, <3>1, <3>2
  <2>. QED
    BY <2>1, <2>2, <2>3, <2>4
<1>. QED
  BY <1>1, <1>2

\* What the failing rows of a snapshot lose.
Lost(snapshot) ==
    SumFunctionOnSet([k \in CheckCodes |->
                         snapshot.weight[k] * (snapshot.checks[k].failing_count
                            * (Parts(snapshot.checks) \div Size(snapshot.checks[k])))], CheckCodes)

\* A snapshot that loses nothing that shows.
Suffices(snapshot) ==
    LET total == SumFunctionOnSet(snapshot.weight, CheckCodes)
    IN  \/ total > 0 /\ 2000 * Lost(snapshot) <= total * Parts(snapshot.checks)
        \/ total <= 0 /\ ~NoneNegative(snapshot.weight)

\* What is earned and what is lost make up the total; a full score has lost next to nothing.
LEMMA ScoreOf ==
  ASSUME weight \in [CheckCodes -> Int], NEW checks, NEW d, ChecksOK(checks)
  PROVE  LET score == compute_handover_readiness(d, checks)
         IN  /\ score \in Int
             /\ NoneNegative(weight) => score \in 0..HANDOVER_READINESS_THRESHOLD_PCT
             /\ score >= HANDOVER_READINESS_THRESHOLD_PCT => Suffices(Snapshot(checks))
<1>. DEFINE share(k) == Parts(checks) \div Size(checks[k])
            gained == [k \in CheckCodes |-> weight[k] * pass_ratio(checks[k], Parts(checks))]
            lost   == [k \in CheckCodes |-> weight[k] * (checks[k].failing_count * share(k))]
            whole  == [k \in CheckCodes |-> weight[k] * Parts(checks)]
            E      == SumFunctionOnSet(gained, CheckCodes)
            M      == SumFunctionOnSet(lost, CheckCodes)
            T      == SumFunctionOnSet(weight, CheckCodes)
<1>0. PICK P \in Nat \ {0} : P = Parts(checks)
  BY PartsOf
<1>1. \A k \in CheckCodes :
         /\ weight[k] \in Int /\ checks[k].failing_count * share(k) \in Nat
         /\ pass_ratio(checks[k], P) \in Nat
         /\ P = pass_ratio(checks[k], P) + checks[k].failing_count * share(k)
  <2>. TAKE k \in CheckCodes
  <2>1. PICK q \in Nat : q = P \div Size(checks[k]) /\ Size(checks[k]) * q = P
    BY <1>0, PartsOf
  <2>2. PICK r : r = checks[k] /\ ResultOK(r)
    BY DEF ChecksOK
  <2>3. /\ pass_ratio(r, P) \in Nat /\ r.failing_count * q \in Nat
        /\ P = pass_ratio(r, P) + r.failing_count * q
    BY <2>1, <2>2, RatioOf
  <2>. QED
    BY <1>0, <2>1, <2>2, <2>3
<1>2. /\ Earned(checks) = E /\ TotalWeight = T
      /\ Snapshot(checks).weight = weight /\ Snapshot(checks).checks = checks
  BY DEF Earned, TotalWeight, Snapshot
<1>3. Lost(Snapshot(checks)) = M
  BY <1>2 DEF Lost
<1>4. \A k \in CheckCodes : /\ gained[k] \in Int /\ lost[k] \in Int /\ whole[k] = gained[k] + lost[k]
                            /\ whole[k] = weight[k] * P
                            /\ NoneNegative(weight) => gained[k] >= 0 /\ lost[k] >= 0 /\ weight[k] >= 0
  <2>. TAKE k \in CheckCodes
  <2>1. PICK w \in Int, p \in Nat, f \in Nat :
           /\ w = weight[k] /\ p = pass_ratio(checks[k], P)
           /\ f = checks[k].failing_count * share(k) /\ P = p + f
    BY <1>1
  <2>2. w * p \in Int /\ w * f \in Int /\ w * (p + f) = w * p + w * f
    OBVIOUS
  <2>3. w >= 0 => w * p >= 0 /\ w * f >= 0
    OBVIOUS
  <2>4. gained[k] = w * p /\ lost[k] = w * f /\ whole[k] = w * P
    BY <1>0, <2>1
  <2>. QED
    BY <2>1, <2>2, <2>3, <2>4 DEF NoneNegative
<1>. HIDE DEF gained, lost, whole
<1>5. SumFunctionOnSet(whole, CheckCodes) = T * P
  <2>1. PICK w : w = weight
    OBVIOUS
  <2>2. \A k \in CheckCodes : w[k] \in Int /\ whole[k] = w[k] * P
    BY <1>1, <1>4, <2>1
  <2>3. SumFunctionOnSet(whole, CheckCodes) = SumFunctionOnSet(w, CheckCodes) * P
    BY <2>2, CodesFinite, SumScaled
  <2>. QED
    BY <2>1, <2>3
<1>6. SumFunctionOnSet(whole, CheckCodes) = E + M
  <2>1. \A k \in CheckCodes : gained[k] \in Int /\ lost[k] \in Int /\ whole[k] = gained[k] + lost[k]
    BY <1>4
  <2>. QED
    BY <2>1, CodesFinite, SumPlus
<1>7. E \in Int /\ M \in Int /\ T \in Int
  <2>1. PICK w : w = weight /\ \A k \in CheckCodes : w[k] \in Int
    BY <1>1
  <2>2. SumFunctionOnSet(w, CheckCodes) \in Int
    BY <2>1, CodesFinite, SumType
  <2>3. \A k \in CheckCodes : gained[k] \in Int /\ lost[k] \in Int
    BY <1>4
  <2>. QED
    BY <2>1, <2>2, <2>3, CodesFinite, SumType
<1>8. NoneNegative(weight) => E \in Nat /\ M \in Nat /\ T \in Nat
  <2>. SUFFICES ASSUME NoneNegative(weight) PROVE E \in Nat /\ M \in Nat /\ T \in Nat
    OBVIOUS
  <2>1. PICK w : w = weight /\ \A k \in CheckCodes : w[k] \in Nat
    BY <1>1, <1>4
  <2>2. SumFunctionOnSet(w, CheckCodes) \in Nat
    BY <2>1, CodesFinite, SumNonNegative
  <2>3. \A k \in CheckCodes : gained[k] \in Nat /\ lost[k] \in Nat
    BY <1>4
  <2>. QED
    BY <2>1, <2>2, <2>3, CodesFinite, SumNonNegative
<1>. HIDE DEF E, M, T
<1>9. E + M = T * P
  BY <1>5, <1>6
<1>10. CASE properties_in_development(d) = {}
  <2>1. compute_handover_readiness(d, checks) = 0
    BY <1>10 DEF compute_handover_readiness
  <2>. QED
    BY <2>1 DEF HANDOVER_READINESS_THRESHOLD_PCT
<1>11. CASE properties_in_development(d) # {}
  <2>1. PICK u \in Int : u = OrOne(T) /\ u # 0 /\ (T # 0 => u = T) /\ (T = 0 => u > 0)
    <3>1. 20 * Unit \in Nat /\ 20 * Unit > 0
      BY HandoverAssumption
    <3>. QED
      BY <1>7, <3>1 DEF OrOne
  <2>2. PICK n \in Int, t \in Int : n = 1000 * E /\ t = u * P /\ t # 0
    BY <1>7, <2>1
  <2>3. compute_handover_readiness(d, checks) = Rounded(n, t)
    BY <1>0, <1>2, <1>11, <2>1, <2>2 DEF compute_handover_readiness
  <2>4. /\ Rounded(n, t) \in Int
        /\ t > 0 /\ 0 <= n /\ n <= 1000 * t => Rounded(n, t) \in 0..1000
        /\ t > 0 /\ Rounded(n, t) >= 1000 => 2 * n + t >= 2000 * t
    <3>1. t # 0
      BY <2>2
    <3>. QED
      BY <3>1, RoundedOf
  <2>5. NoneNegative(weight) => t > 0 /\ 0 <= n /\ n <= 1000 * t
    <3>. SUFFICES ASSUME NoneNegative(weight) PROVE t > 0 /\ 0 <= n /\ n <= 1000 * t
      OBVIOUS
    <3>1. u > 0 /\ E >= 0 /\ M >= 0 /\ T >= 0
      BY <1>8, <2>1
    <3>2. u * P > 0
      BY <3>1
    <3>3. E <= u * P
      <4>1. CASE T = 0
        BY <1>7, <1>9, <3>1, <3>2, <4>1
      <4>2. CASE T # 0
        BY <1>7, <1>9, <2>1, <3>1, <4>2
      <4>. QED
        BY <4>1, <4>2
    <3>. QED
      BY <1>7, <2>2, <3>1, <3>2, <3>3
  <2>6. T > 0 /\ Rounded(n, t) >= 1000 => 2000 * M <= T * P
    <3>. SUFFICES ASSUME T > 0, Rounded(n, t) >= 1000 PROVE 2000 * M <= T * P
      OBVIOUS
    <3>1. t = T * P /\ T * P > 0
      BY <1>7, <2>1, <2>2
    <3>2. 2 * n + t >= 2000 * t
      BY <2>4, <3>1
    <3>. QED
      BY <1>7, <1>9, <2>2, <3>1, <3>2
  <2>7. NoneNegative(weight) /\ T <= 0 => Rounded(n, t) = 0
    <3>. SUFFICES ASSUME NoneNegative(weight), T <= 0 PROVE Rounded(n, t) = 0
      OBVIOUS
    <3>1. T = 0 /\ E = 0
      BY <1>8, <1>9
    <3>2. n = 0 /\ t > 0
      BY <2>2, <2>5, <3>1
    <3>3. PICK q \in Nat : q = Rounded(n, t) /\ (q >= 1 => q >= 1)
      BY <2>4, <2>5, <3>2
    <3>4. Rounded(n, t) = t \div (2 * t)
      BY <3>2 DEF Rounded
    <3>5. PICK a \in Nat, b \in Nat : a = t /\ b = 2 * t /\ b > 0 /\ b * q <= a
      <4>1. PICK b \in Nat, a \in Nat : b = 2 * t /\ b > 0 /\ a = t
        BY <3>2
      <4>2. b * (a \div b) <= a
        BY <4>1, DivDef
      <4>. QED
        BY <3>3, <3>4, <4>1, <4>2
    <3>6. q >= 1 => b * q >= b
      BY <3>5
    <3>. QED
      BY <3>2, <3>3, <3>5, <3>6
  <2>8. Rounded(n, t) >= 1000 => Suffices(Snapshot(checks))
    BY <1>0, <1>2, <1>3, <1>7, <2>6, <2>7 DEF Suffices, T
  <2>. QED
    BY <2>3, <2>4, <2>5, <2>8 DEF HANDOVER_READINESS_THRESHOLD_PCT
<1>. QED
  BY <1>10, <1>11

-----------------------------------------------------------------------------
(* Handover *)

\* The grounds of a record: full readiness of what it was authorised on, or an override.
Snapshots == [weight : [CheckCodes -> Int], checks : [CheckCodes -> [applicable_count : Nat, failing_count : Nat]]]
Grounds ==
    {g \in [development_id : Nat, override_reason : BOOLEAN, readiness_score_pct : Int,
            readiness_snapshot : Snapshots] :
        /\ NoneNegative(g.readiness_snapshot.weight)
              => g.readiness_score_pct \in 0..HANDOVER_READINESS_THRESHOLD_PCT
        /\ g.override_reason \/ Suffices(g.readiness_snapshot)}

HandoverRecord == [property_id : Nat, grounds : Grounds]
Event          == [property_id : Nat, before : PropertyStatus, after : PropertyStatus]

KeysOf(ps) == {<<"property", p>> : p \in ps}

HandoverTyped ==
    /\ weight \in [CheckCodes -> Int]
    /\ handover_record \in Seq(HandoverRecord) /\ trail \in Seq(Event)
    /\ \A n \in DOMAIN handover_record : handover_record[n].property_id \in Ids(property)
    /\ \A n \in DOMAIN trail : trail[n].property_id \in Ids(property)
    /\ \A c \in Clerks :
          /\ At(c, "authorise") => /\ req[c].properties \subseteq Ids(property)
                                   /\ req[c].keys = KeysOf(req[c].properties)
                                   /\ req[c].record \in Grounds
          /\ At(c, "status") => /\ req[c].id \in Ids(property)
                                /\ req[c].keys = KeysOf({req[c].id})
                                /\ req[c].before \in PropertyStatus
                                /\ req[c].to \in PropertyStatus \ {"HANDED_OVER"}

LEMMA HandoverTypes ==
  /\ PropertyStatus' = PropertyStatus /\ HandoverRecord' = HandoverRecord /\ Event' = Event
  /\ \A ps : KeysOf(ps)' = KeysOf(ps)
  BY DEF HandoverRecord, Event, PropertyStatus, KeysOf

\* What is authorised has grounds for it.
LEMMA GroundsOf ==
  ASSUME EstateTypeOK, weight \in [CheckCodes -> Int], NEW d \in Nat, NEW override \in BOOLEAN,
         NEW checks, checks = Checks(d),
         compute_handover_readiness(d, checks) < HANDOVER_READINESS_THRESHOLD_PCT => override
  PROVE  [development_id |-> d, override_reason |-> override,
          readiness_score_pct |-> compute_handover_readiness(d, checks),
          readiness_snapshot |-> Snapshot(checks)] \in Grounds
<1>. DEFINE score == compute_handover_readiness(d, checks)
<1>1. ChecksOK(checks)
  BY ChecksOf
<1>2. Snapshot(checks) \in Snapshots /\ Snapshot(checks).weight = weight
  BY <1>1 DEF Snapshot, Snapshots, ChecksOK
<1>3. /\ score \in Int
      /\ NoneNegative(weight) => score \in 0..HANDOVER_READINESS_THRESHOLD_PCT
      /\ score >= HANDOVER_READINESS_THRESHOLD_PCT => Suffices(Snapshot(checks))
  BY <1>1, ScoreOf
<1>4. score < HANDOVER_READINESS_THRESHOLD_PCT => override
  OBVIOUS
<1>. HIDE DEF score
<1>5. override \/ score >= HANDOVER_READINESS_THRESHOLD_PCT
  BY <1>3, <1>4 DEF HANDOVER_READINESS_THRESHOLD_PCT
<1>6. override \/ Suffices(Snapshot(checks))
  BY <1>3, <1>5
<1>7. [development_id |-> d, override_reason |-> override, readiness_score_pct |-> score,
       readiness_snapshot |-> Snapshot(checks)] \in Grounds
  BY <1>2, <1>3, <1>6 DEF Grounds
<1>. QED
  BY <1>7 DEF score

LEMMA BeginAuthoriseEffect ==
  ASSUME ReqShape, EstateTypeOK, weight \in [CheckCodes -> Int], NEW c \in Clerks, BeginAuthorise(c)
  PROVE  /\ UNCHANGED <<estate, handovers>>
         /\ \E d \in Developments, record \in Grounds :
               /\ req'[c] = [pc |-> "authorise", keys |-> KeysOf(ReadyToHandOver(d)),
                             properties |-> ReadyToHandOver(d), record |-> record]
               /\ ReadyToHandOver(d) \subseteq Ids(property)
               /\ \A p \in ReadyToHandOver(d) : property[p].status = "READY_FOR_HANDOVER"
         /\ \A k \in Clerks : k # c => req'[k] = req[k]
         /\ raced \subseteq raced'
<1>1. PICK d \in Developments : \E override \in BOOLEAN :
         LET checks == Checks(d)
             score  == compute_handover_readiness(d, checks)
         IN  /\ score < HANDOVER_READINESS_THRESHOLD_PCT => override
             /\ Hold(c, [pc |-> "authorise",
                         keys |-> {<<"property", p>> : p \in ReadyToHandOver(d)},
                         properties |-> ReadyToHandOver(d),
                         record |-> [development_id |-> d, override_reason |-> override,
                                     readiness_score_pct |-> score,
                                     readiness_snapshot |-> Snapshot(checks)]])
  BY DEF BeginAuthorise
<1>2. PICK override \in BOOLEAN : \E checks, record :
         /\ checks = Checks(d)
         /\ record = [development_id |-> d, override_reason |-> override,
                      readiness_score_pct |-> compute_handover_readiness(d, checks),
                      readiness_snapshot |-> Snapshot(checks)]
         /\ compute_handover_readiness(d, checks) < HANDOVER_READINESS_THRESHOLD_PCT => override
         /\ Hold(c, [pc |-> "authorise", keys |-> KeysOf(ReadyToHandOver(d)),
                     properties |-> ReadyToHandOver(d), record |-> record])
  BY <1>1 DEF KeysOf
<1>0. PICK checks, record :
         /\ checks = Checks(d)
         /\ record = [development_id |-> d, override_reason |-> override,
                      readiness_score_pct |-> compute_handover_readiness(d, checks),
                      readiness_snapshot |-> Snapshot(checks)]
         /\ compute_handover_readiness(d, checks) < HANDOVER_READINESS_THRESHOLD_PCT => override
         /\ Hold(c, [pc |-> "authorise", keys |-> KeysOf(ReadyToHandOver(d)),
                     properties |-> ReadyToHandOver(d), record |-> record])
  BY <1>2
<1>3. d \in Nat
  BY DEF EstateTypeOK, Developments
<1>4. record \in Grounds
  BY <1>0, <1>3, GroundsOf
<1>. DEFINE r == [pc |-> "authorise", keys |-> KeysOf(ReadyToHandOver(d)),
                  properties |-> ReadyToHandOver(d), record |-> record]
<1>5. Hold(c, r) /\ r.pc # "health"
  BY <1>0
<1>. HIDE DEF r
<1>6. req'[c] = r /\ (\A k \in Clerks : k # c => req'[k] = req[k]) /\ raced \subseteq raced'
  BY <1>5, HoldEffect
<1>7. /\ ReadyToHandOver(d) \subseteq Ids(property)
      /\ \A p \in ReadyToHandOver(d) : property[p].status = "READY_FOR_HANDOVER"
  BY DEF ReadyToHandOver, properties_in_development
<1>. QED
  BY <1>4, <1>6, <1>7 DEF BeginAuthorise, r

LEMMA BeginStatusEffect ==
  ASSUME ReqShape, NEW c \in Clerks, BeginPropertyStatus(c)
  PROVE  /\ UNCHANGED <<estate, handovers>>
         /\ \E p \in Ids(property), to \in PropertyStatus \ {"HANDED_OVER"} :
               req'[c] = [pc |-> "status", keys |-> KeysOf({p}), id |-> p, to |-> to,
                          before |-> property[p].status]
         /\ \A k \in Clerks : k # c => req'[k] = req[k]
         /\ raced \subseteq raced'
<1>1. PICK p \in Ids(property), to \in StatusChanges :
         /\ DirectTarget(to)
         /\ Hold(c, [pc |-> "status", keys |-> {<<"property", p>>}, id |-> p, to |-> to,
                     before |-> property[p].status])
  BY DEF BeginPropertyStatus
<1>2. to \in PropertyStatus \ {"HANDED_OVER"} /\ {<<"property", p>>} = KeysOf({p})
  BY <1>1, HandoverAssumption DEF DirectTarget, KeysOf
<1>. DEFINE r == [pc |-> "status", keys |-> KeysOf({p}), id |-> p, to |-> to,
                  before |-> property[p].status]
<1>3. Hold(c, r) /\ r.pc # "health"
  BY <1>1, <1>2
<1>. HIDE DEF r
<1>4. req'[c] = r /\ (\A k \in Clerks : k # c => req'[k] = req[k]) /\ raced \subseteq raced'
  BY <1>3, HoldEffect
<1>. QED
  BY <1>2, <1>4 DEF BeginPropertyStatus, r

\* What is not its status stays with a property.
Stays(p) == /\ property'[p].created_as = property[p].created_as
            /\ property'[p].position = property[p].position

LEMMA AuthoriseEffect ==
  ASSUME ReqShape, EstateTypeOK, HandoverTyped, NEW c \in Clerks, AuthoriseHandover(c),
         NEW ps, ps = req[c].properties
  PROVE  /\ At(c, "authorise") /\ ps \subseteq Ids(property)
         /\ property' \in Seq(Property) /\ Ids(property)' = Ids(property) /\ weight' = weight
         /\ \A p \in Ids(property) :
               /\ Stays(p)
               /\ property'[p].status = IF p \in ps THEN "HANDED_OVER" ELSE property[p].status
         /\ handover_record' \in Seq(HandoverRecord)
         /\ OneOfEach(handover_record, handover_record', ps)
         /\ trail' \in Seq(Event) /\ OneOfEach(trail, trail', ps)
         /\ \A n \in DOMAIN trail' \ DOMAIN trail :
               trail'[n].before = "READY_FOR_HANDOVER" /\ trail'[n].after = "HANDED_OVER"
         /\ req'[c] = Idle /\ (\A k \in Clerks : k # c => req'[k] = req[k])
         /\ raced' = raced
         /\ UNCHANGED <<development, building, floor, space, component, warranty, defect,
                        control_record, survey, reference>>
<1>1. /\ At(c, "authorise") /\ ps \subseteq Ids(property) /\ req[c].record \in Grounds
      /\ property \in Seq(Property) /\ IsFiniteSet(Ids(property))
      /\ \A p \in Ids(property) : property[p] \in Property
  BY TableType DEF AuthoriseHandover, HandoverTyped, EstateTypeOK, Ids
<1>2. PICK record \in Grounds : record = req[c].record
  BY <1>1
<1>3. IsFiniteSet(ps)
  BY <1>1, FS_Subset
<1>. DEFINE order   == SetToSeq(ps)
            records == [n \in DOMAIN order |-> [property_id |-> order[n], grounds |-> record]]
            events  == [n \in DOMAIN order |->
                           Moved(order[n], "READY_FOR_HANDOVER", "HANDED_OVER")]
<1>4. /\ property' = [p \in Ids(property) |->
                        IF p \in ps THEN [property[p] EXCEPT !.status = "HANDED_OVER"]
                        ELSE property[p]]
      /\ handover_record' = handover_record \o records /\ trail' = trail \o events
      /\ weight' = weight
      /\ UNCHANGED <<development, building, floor, space, component, warranty, defect,
                     control_record, survey, reference>>
  BY <1>2 DEF AuthoriseHandover, authorise_handover
<1>5. /\ property' \in Seq(Property) /\ Ids(property)' = Ids(property)
      /\ \A p \in Ids(property) :
            /\ Stays(p)
            /\ property'[p].status = IF p \in ps THEN "HANDED_OVER" ELSE property[p].status
  <2>1. \A p \in Ids(property) :
           LET row == [property[p] EXCEPT !.status = "HANDED_OVER"] IN
           /\ row \in Property /\ row.status = "HANDED_OVER"
           /\ row.created_as = property[p].created_as /\ row.position = property[p].position
    <3>. TAKE p \in Ids(property)
    <3>1. property[p] \in Property
      BY <1>1
    <3>. QED
      BY <3>1 DEF Property, PropertyStatus
  <2>2. /\ DOMAIN property' = Ids(property)
        /\ \A p \in Ids(property) : property'[p] \in Property
    BY <1>1, <1>4, <2>1
  <2>3. Ids(property) = 1..Len(property) /\ Len(property) \in Nat
    BY <1>1, TableType DEF Ids
  <2>4. property' \in Seq(Property)
    <3>1. property' \in [1..Len(property) -> Property]
      BY <1>4, <2>2, <2>3
    <3>. QED
      BY <2>3, <3>1, SeqDef
  <2>. QED
    BY <1>4, <2>1, <2>2, <2>4 DEF Stays, Ids
<1>6. \A n \in DOMAIN order : order[n] \in Nat
  <2>1. order \in [1..Cardinality(ps) -> ps] /\ Ids(property) \subseteq Nat
    BY <1>1, <1>3, OrderOf, TableType DEF Ids
  <2>. QED
    BY <1>1, <2>1
<1>7. /\ handover_record' \in Seq(HandoverRecord)
      /\ OneOfEach(handover_record, handover_record', ps)
  <2>1. records = [n \in DOMAIN SetToSeq(ps) |-> records[n]]
    OBVIOUS
  <2>2. \A n \in DOMAIN SetToSeq(ps) :
           records[n] \in HandoverRecord /\ records[n].property_id = SetToSeq(ps)[n]
    BY <1>6 DEF HandoverRecord
  <2>3. handover_record \in Seq(HandoverRecord)
    BY DEF HandoverTyped
  <2>. HIDE DEF records
  <2>. QED
    BY <1>3, <1>4, <2>1, <2>2, <2>3, RowsOfEach
<1>8. /\ trail' \in Seq(Event) /\ OneOfEach(trail, trail', ps)
      /\ \A n \in DOMAIN trail' \ DOMAIN trail :
            trail'[n].before = "READY_FOR_HANDOVER" /\ trail'[n].after = "HANDED_OVER"
  <2>1. events = [n \in DOMAIN SetToSeq(ps) |-> events[n]]
    OBVIOUS
  <2>2. \A n \in DOMAIN SetToSeq(ps) :
           events[n] \in Event /\ events[n].property_id = SetToSeq(ps)[n]
    BY <1>6 DEF Event, Moved, PropertyStatus
  <2>3. trail \in Seq(Event)
    BY DEF HandoverTyped
  <2>4. \A n \in DOMAIN events :
           events[n].before = "READY_FOR_HANDOVER" /\ events[n].after = "HANDED_OVER"
    BY DEF Moved
  <2>. HIDE DEF events
  <2>5. trail' \in Seq(Event) /\ OneOfEach(trail, trail', ps)
    BY <1>3, <1>4, <2>1, <2>2, <2>3, RowsOfEach
  <2>6. events \in Seq(Event)
    <3>1. order \in [1..Cardinality(ps) -> ps] /\ Cardinality(ps) \in Nat
      BY <1>3, OrderOf
    <3>2. events \in [1..Cardinality(ps) -> Event]
      BY <2>1, <2>2, <3>1
    <3>. QED
      BY <3>1, <3>2, SeqDef
  <2>7. \A m \in DOMAIN trail' \ DOMAIN trail : \E n \in DOMAIN events : trail'[m] = events[n]
    BY <1>4, <2>3, <2>6, RowsAfter
  <2>. QED
    BY <2>4, <2>5, <2>7
<1>9. req'[c] = Idle /\ (\A k \in Clerks : k # c => req'[k] = req[k]) /\ raced' = raced
  BY EndEffect DEF AuthoriseHandover
<1>. QED
  BY <1>1, <1>4, <1>5, <1>7, <1>8, <1>9

LEMMA StatusEffect ==
  ASSUME ReqShape, EstateTypeOK, HandoverTyped, NEW c \in Clerks, UpdatePropertyStatus(c),
         NEW p, p = req[c].id
  PROVE  /\ At(c, "status") /\ p \in Ids(property)
         /\ property' \in Seq(Property) /\ Ids(property)' = Ids(property) /\ weight' = weight
         /\ \A q \in Ids(property) :
               /\ Stays(q)
               /\ property'[q].status =
                     IF q = p /\ req[c].to # req[c].before THEN req[c].to ELSE property[q].status
         /\ handover_record' = handover_record
         /\ trail' \in Seq(Event) /\ OneOfEach(trail, trail', {p})
         /\ \A n \in DOMAIN trail' \ DOMAIN trail :
               trail'[n].before = req[c].before /\ trail'[n].after = req[c].to
         /\ req'[c] = Idle /\ (\A k \in Clerks : k # c => req'[k] = req[k])
         /\ raced' = raced
         /\ UNCHANGED <<development, building, floor, space, component, warranty, defect,
                        control_record, survey, reference>>
<1>1. /\ At(c, "status") /\ p \in Ids(property) /\ req[c].to \in PropertyStatus
      /\ req[c].before \in PropertyStatus
      /\ property \in Seq(Property) /\ property[p] \in Property /\ p \in Nat
  BY TableType DEF UpdatePropertyStatus, HandoverTyped, EstateTypeOK, Ids
<1>2. PICK from, to : from = req[c].before /\ to = req[c].to
  OBVIOUS
<1>3. /\ property' = IF to = from THEN property ELSE [property EXCEPT ![p].status = to]
      /\ trail' = Append(trail, Moved(p, from, to))
      /\ handover_record' = handover_record /\ weight' = weight
      /\ UNCHANGED <<development, building, floor, space, component, warranty, defect,
                     control_record, survey, reference>>
  BY <1>2 DEF UpdatePropertyStatus
<1>4. /\ property' \in Seq(Property) /\ Ids(property)' = Ids(property)
      /\ \A q \in Ids(property) :
            /\ Stays(q)
            /\ property'[q].status = IF q = p /\ to # from THEN to ELSE property[q].status
  <2>1. CASE to = from
    BY <1>1, <1>3, <2>1 DEF Stays, Ids
  <2>2. CASE to # from
    <3>. DEFINE row == [property[p] EXCEPT !.status = to]
    <3>1. property' = [property EXCEPT ![p] = row]
      BY <1>3, <2>2
    <3>2. /\ row \in Property /\ row.status = to
          /\ row.created_as = property[p].created_as /\ row.position = property[p].position
      BY <1>1, <1>2 DEF Property
    <3>. HIDE DEF row
    <3>3. /\ property' \in Seq(Property) /\ DOMAIN property' = DOMAIN property
          /\ property'[p] = row /\ \A q \in DOMAIN property : q # p => property'[q] = property[q]
      BY <1>1, <3>1, <3>2, RowWritten DEF Ids
    <3>. QED
      BY <2>2, <3>2, <3>3 DEF Stays, Ids
  <2>. QED
    BY <2>1, <2>2
<1>5. /\ trail' \in Seq(Event) /\ OneOfEach(trail, trail', {p})
      /\ \A n \in DOMAIN trail' \ DOMAIN trail : trail'[n].before = from /\ trail'[n].after = to
  <2>. DEFINE row == Moved(p, from, to)
              L == Len(trail)
  <2>1. row \in Event /\ row.property_id = p /\ row.before = from /\ row.after = to
    BY <1>1, <1>2 DEF Event, Moved
  <2>2. trail \in Seq(Event)
    BY DEF HandoverTyped
  <2>. HIDE DEF row
  <2>3. /\ trail' \in Seq(Event) /\ L + 1 \notin DOMAIN trail
        /\ DOMAIN trail' = DOMAIN trail \union {L + 1}
        /\ trail'[L + 1] = row /\ \A i \in DOMAIN trail : trail'[i] = trail[i]
        /\ L \in Nat /\ DOMAIN trail = 1..L
    BY <1>3, <2>1, <2>2, RowAppended, TableType DEF row
  <2>. HIDE DEF L
  <2>4. DOMAIN trail' \ DOMAIN trail = {L + 1} /\ DOMAIN trail' \subseteq Nat
    BY <2>3
  <2>5. 0 < L + 1 /\ \A k \in DOMAIN trail : k < L + 1
    BY <2>3
  <2>. QED
    BY <2>1, <2>3, <2>4, <2>5 DEF OneOfEach
<1>6. req'[c] = Idle /\ (\A k \in Clerks : k # c => req'[k] = req[k]) /\ raced' = raced
  BY EndEffect DEF UpdatePropertyStatus
<1>. QED
  BY <1>1, <1>2, <1>3, <1>4, <1>5, <1>6

\* A property on a floor is in the building of the floor, and one in a building that has a
\* development is in that development.
Placed(at) ==
    LET f == at.floor_id
        b == at.building_id
    IN  /\ f # None => floor[f].building_id = b
        /\ b # None /\ building[b].development_id # None
              => at.development_id = building[b].development_id

\* A step to the estate leaves the properties there are, or adds one where the hierarchy
\* has it and in the status it says it was created in.
PropertiesGrow ==
    /\ Ids(property) \subseteq Ids(property)'
    /\ \A p \in Ids(property) : property'[p] = property[p]
    /\ \A p \in Ids(property)' \ Ids(property) :
          property'[p].status = property'[p].created_as /\ Placed(property[p].position)'

LEMMA HierarchyGrows ==
  ASSUME EstateTypeOK, HierarchyNext \/ RegisterNext
  PROVE  PropertiesGrow
<1>0. property \in Seq(Property)
  BY DEF EstateTypeOK
<1>1. ASSUME NEW position, NEW status, NEW payload, Placed(position), UNCHANGED <<building, floor>>,
             property' = Append(property, create_property(position, status, payload))
      PROVE  PropertiesGrow
  <2>. DEFINE row == create_property(position, status, payload)
  <2>1. row.status = row.created_as /\ row.position = position
    BY DEF create_property
  <2>. HIDE DEF row
  <2>2. DOMAIN property = 1..Len(property) /\ Len(property) \in Nat
    BY <1>0, TableType
  <2>3. /\ DOMAIN Append(property, row) = DOMAIN property \union {Len(property) + 1}
        /\ Append(property, row)[Len(property) + 1] = row
        /\ \A p \in DOMAIN property : Append(property, row)[p] = property[p]
    BY <1>0, <2>2
  <2>4. property' = Append(property, row)
    BY <1>1 DEF row
  <2>5. Placed(position)'
    BY <1>1 DEF Placed
  <2>6. \A p \in Ids(property)' \ Ids(property) : property'[p].position = position
    BY <2>1, <2>3, <2>4 DEF Ids
  <2>7. \A p \in Ids(property)' \ Ids(property) : Placed(property[p].position)'
    BY <2>5, <2>6 DEF Placed
  <2>. QED
    BY <2>1, <2>3, <2>4, <2>7 DEF PropertiesGrow, Ids
<1>2. CASE UNCHANGED property
  BY <1>2 DEF PropertiesGrow, Ids
<1>3. CASE AddProperty \/ import_property_row
  <2>1. \A d, b, f : Placed(resolve_property_hierarchy(d, b, f))
    BY DEF resolve_property_hierarchy, Placed
  <2>. QED
    BY <1>1, <1>3, <2>1 DEF AddProperty, import_property_row
<1>4. CASE AddDevelopment \/ AddBuilding \/ AddFloor \/ AddSpace
  BY <1>2, <1>4 DEF AddDevelopment, AddBuilding, AddFloor, AddSpace
<1>5. CASE RegisterOnce \/ DefectStatusNext
  BY <1>2, <1>5
     DEF RegisterOnce, DefectStatusNext, AddExternalReference, AddComponent, import_component_row,
         AddWarranty, VoidWarranty, AddDefect, BeginDefectStatus, UpdateDefectStatus,
         AddBuildingControlRecord, UpdateBuildingControlRecord, AddSurvey, estate
<1>. QED
  BY <1>3, <1>4, <1>5 DEF HierarchyNext, RegisterNext, RegisterOnce

LEMMA PropertySteps ==
  ASSUME ReqShape, EstateTypeOK, [Next]_vars
  PROVE  \/ HandoverNext
         \/ PropertiesGrow /\ UNCHANGED handovers /\ Apart({"authorise", "status"})
<1>. DEFINE pcs == {"authorise", "status"}
<1>0. UNCHANGED estate => PropertiesGrow
  BY DEF PropertiesGrow, estate, Ids
<1>1. EstateStep => PropertiesGrow /\ UNCHANGED handovers /\ Apart(pcs)
  BY EstateMoves, StandApart, HierarchyGrows DEF EstateStep
<1>2. DocumentStep => PropertiesGrow /\ UNCHANGED handovers /\ Apart(pcs)
  BY <1>0, DocumentMoves, StandApart DEF DocumentStep
<1>3. SpecificationStep => PropertiesGrow /\ UNCHANGED handovers /\ Apart(pcs)
  <2>1. Revising \intersect pcs = {}
    BY DEF Revising
  <2>. QED
    BY <1>0, <2>1, SpecificationMoves, StandApart DEF SpecificationStep
<1>4. DataHealthNext => PropertiesGrow /\ UNCHANGED handovers /\ Apart(pcs)
  <2>1. DataHealthNext => UNCHANGED <<estate, handovers>>
    BY DEF DataHealthNext, BeginDataHealth, ReplaceFindings, CommitDataHealth
  <2>. QED
    BY <1>0, <2>1, HealthMoves, StandApart
<1>5. StillStep => PropertiesGrow /\ UNCHANGED handovers /\ Apart(pcs)
  <2>1. StillStep => Quiet
    BY DEF StillStep, Quiet
  <2>2. {} \intersect pcs = {}
    OBVIOUS
  <2>. QED
    BY <1>0, <2>1, <2>2, StandApart DEF StillStep
<1>. QED
  BY <1>1, <1>2, <1>3, <1>4, <1>5, Steps DEF HandoverStep

\* Until a defect's status is written its request names a defect and a status there is.
DefectHeld ==
    \A c \in Clerks : At(c, "defect") => req[c].id \in Ids(defect) /\ req[c].to \in DefectStatus

EstateInv == EstateTypeOK /\ DefectHeld

LEMMA DefectsRemain ==
  ASSUME EstateTypeOK, ReqShape, DefectHeld, Ids(defect) \subseteq Ids(defect)', Apart({"defect"})
  PROVE  DefectHeld'
  BY DEF DefectHeld, Apart, At, DefectStatus

LEMMA EstateNext == ReqShape /\ EstateInv /\ HandoverTyped /\ [Next]_vars => EstateInv'
<1>. SUFFICES ASSUME ReqShape, EstateTypeOK, DefectHeld, HandoverTyped, [Next]_vars
              PROVE  EstateTypeOK' /\ DefectHeld'
  BY DEF EstateInv
<1>0. DefectStatus' = DefectStatus /\ today \in Days
  BY DEF DefectStatus, ReqShape, RequestsOK
<1>1. EstateRows /\ EstateGrow /\ Apart({"defect"}) => EstateTypeOK' /\ DefectHeld'
  BY EstateKept, DefectsRemain DEF EstateGrow
<1>2. UNCHANGED estate /\ Apart({"defect"}) => EstateTypeOK' /\ DefectHeld'
  BY <1>1, EstateSame
<1>3. ASSUME HierarchyNext PROVE EstateTypeOK' /\ DefectHeld'
  <2>1. Quiet
    BY <1>3 DEF HierarchyNext, AddDevelopment, AddBuilding, AddFloor, AddProperty,
                import_property_row, AddSpace, Quiet
  <2>2. {} \intersect {"defect"} = {}
    OBVIOUS
  <2>. QED
    BY <1>1, <1>3, <2>1, <2>2, HierarchyKept, StandApart
<1>4. ASSUME RegisterOnce PROVE EstateTypeOK' /\ DefectHeld'
  <2>1. Quiet
    BY <1>4 DEF RegisterOnce, AddExternalReference, AddComponent, import_component_row,
                AddWarranty, VoidWarranty, AddDefect, AddBuildingControlRecord,
                UpdateBuildingControlRecord, AddSurvey, Quiet
  <2>2. {} \intersect {"defect"} = {}
    OBVIOUS
  <2>. QED
    BY <1>1, <1>4, <2>1, <2>2, RegisterKept, StandApart
<1>5. ASSUME NEW c \in Clerks, BeginDefectStatus(c) PROVE EstateTypeOK' /\ DefectHeld'
  <2>1. PICK i \in Ids(defect) : \E to \in DEFECT_TRANSITIONS[defect[i].status] :
           Hold(c, [pc |-> "defect", keys |-> {<<"defect", i>>}, id |-> i, to |-> to])
    BY <1>5 DEF BeginDefectStatus
  <2>2. PICK to \in DEFECT_TRANSITIONS[defect[i].status] :
           Hold(c, [pc |-> "defect", keys |-> {<<"defect", i>>}, id |-> i, to |-> to])
    BY <2>1
  <2>3. to \in DefectStatus
    <3>1. defect[i] \in Defect
      BY TableType DEF EstateTypeOK, Ids
    <3>2. \A s \in DefectStatus : DEFECT_TRANSITIONS[s] \subseteq DefectStatus
      BY DEF DEFECT_TRANSITIONS, DefectStatus
    <3>. QED
      BY <3>1, <3>2 DEF Defect
  <2>. DEFINE r == [pc |-> "defect", keys |-> {<<"defect", i>>}, id |-> i, to |-> to]
  <2>4. Hold(c, r) /\ r.pc # "health" /\ r.id = i /\ r.to = to
    BY <2>2
  <2>. HIDE DEF r
  <2>5. req'[c] = r /\ \A k \in Clerks : k # c => req'[k] = req[k]
    BY <2>4, HoldEffect
  <2>6. UNCHANGED estate
    BY <1>5 DEF BeginDefectStatus
  <2>7. EstateTypeOK' /\ Ids(defect)' = Ids(defect)
    BY <2>6, EstateSame, EstateKept DEF estate, Ids
  <2>8. DefectHeld'
    BY <1>0, <2>3, <2>4, <2>5, <2>7 DEF DefectHeld, At
  <2>. QED
    BY <2>7, <2>8
<1>6. ASSUME NEW c \in Clerks, UpdateDefectStatus(c) PROVE EstateTypeOK' /\ DefectHeld'
  <2>1. At(c, "defect") /\ req[c].id \in Ids(defect) /\ req[c].to \in DefectStatus
    BY <1>6 DEF UpdateDefectStatus, DefectHeld
  <2>2. PICK i \in Ids(defect), to \in DefectStatus : i = req[c].id /\ to = req[c].to
    BY <2>1
  <2>3. /\ defect' = update_defect_status(i, to)
        /\ UNCHANGED <<development, building, floor, property, space, component,
                       warranty, control_record, survey, reference>>
    BY <1>6, <2>2 DEF UpdateDefectStatus
  <2>4. Ends
    BY <1>6 DEF UpdateDefectStatus, Ends
  <2>5. {} \intersect {"defect"} = {}
    OBVIOUS
  <2>6. EstateRows /\ EstateGrow
    BY <1>0, <2>3, DefectKept
  <2>. QED
    BY <1>1, <2>4, <2>5, <2>6, StandApart
<1>7. ASSUME NEW c \in Clerks, AuthoriseHandover(c) \/ UpdatePropertyStatus(c)
      PROVE  EstateTypeOK' /\ DefectHeld'
  <2>1. Ends
    BY <1>7 DEF AuthoriseHandover, UpdatePropertyStatus, Ends
  <2>2. {} \intersect {"defect"} = {}
    OBVIOUS
  <2>3. /\ property' \in Seq(Property) /\ Ids(property) \subseteq Ids(property)'
        /\ UNCHANGED <<development, building, floor, space, component, warranty, defect,
                       control_record, survey, reference>>
    BY <1>7, AuthoriseEffect, StatusEffect
  <2>. QED
    BY <1>1, <2>1, <2>2, <2>3, PropertiesKept, StandApart
<1>8. ASSUME HandoverNext, UNCHANGED estate PROVE EstateTypeOK' /\ DefectHeld'
  BY <1>2, <1>8, HandoverMoves, StandApart
<1>9. CASE HandoverNext
  <2>1. CASE \/ UpdateHandoverReadinessWeight
             \/ \E c \in Clerks : BeginAuthorise(c) \/ BeginPropertyStatus(c)
    BY <1>8, <1>9, <2>1 DEF UpdateHandoverReadinessWeight, BeginAuthorise, BeginPropertyStatus
  <2>. QED
    BY <1>7, <1>9, <2>1 DEF HandoverNext
<1>10. CASE DocumentStep
  BY <1>2, <1>10, DocumentMoves, StandApart DEF DocumentStep
<1>11. CASE SpecificationStep
  <2>1. Revising \intersect {"defect"} = {}
    BY DEF Revising
  <2>. QED
    BY <1>2, <1>11, <2>1, SpecificationMoves, StandApart DEF SpecificationStep
<1>12. CASE DataHealthNext
  <2>1. UNCHANGED estate
    BY <1>12 DEF DataHealthNext, BeginDataHealth, ReplaceFindings, CommitDataHealth
  <2>. QED
    BY <1>2, <1>12, <2>1, HealthMoves, StandApart
<1>13. CASE StillStep
  <2>1. Quiet
    BY <1>13 DEF StillStep, Quiet
  <2>2. {} \intersect {"defect"} = {}
    OBVIOUS
  <2>. QED
    BY <1>2, <1>13, <2>1, <2>2, StandApart DEF StillStep
<1>14. CASE EstateStep
  BY <1>3, <1>4, <1>5, <1>6, <1>14 DEF EstateStep, RegisterNext, RegisterOnce, DefectStatusNext
<1>. QED
  BY <1>9, <1>10, <1>11, <1>12, <1>13, <1>14, Steps DEF HandoverStep

LEMMA HandoverTypedNext ==
  ReqShape /\ EstateInv /\ HandoverTyped /\ [Next]_vars => HandoverTyped'
<1>. SUFFICES ASSUME ReqShape, EstateTypeOK, HandoverTyped, [Next]_vars PROVE HandoverTyped'
  BY DEF EstateInv
<1>. USE HandoverTypes
<1>1. ASSUME PropertiesGrow, UNCHANGED handovers, Apart({"authorise", "status"})
      PROVE  HandoverTyped'
  <2>1. UNCHANGED <<weight, handover_record, trail>> /\ Ids(property) \subseteq Ids(property)'
    BY <1>1 DEF PropertiesGrow, handovers
  <2>2. \A c \in Clerks : /\ At(c, "authorise")' => req'[c] = req[c] /\ At(c, "authorise")
                          /\ At(c, "status")' => req'[c] = req[c] /\ At(c, "status")
    BY <1>1 DEF Apart, At
  <2>. QED
    BY <2>1, <2>2 DEF HandoverTyped
<1>2. ASSUME NEW c \in Clerks, BeginAuthorise(c) PROVE HandoverTyped'
  <2>1. /\ UNCHANGED <<estate, handovers>>
        /\ \A k \in Clerks : k # c => req'[k] = req[k]
    BY <1>2, BeginAuthoriseEffect DEF HandoverTyped
  <2>2. PICK d \in Developments, record \in Grounds :
           /\ req'[c] = [pc |-> "authorise", keys |-> KeysOf(ReadyToHandOver(d)),
                         properties |-> ReadyToHandOver(d), record |-> record]
           /\ ReadyToHandOver(d) \subseteq Ids(property)
    BY <1>2, BeginAuthoriseEffect DEF HandoverTyped
  <2>3. UNCHANGED <<property, weight, handover_record, trail>> /\ Ids(property)' = Ids(property)
    BY <2>1 DEF estate, handovers, Ids
  <2>4. PICK ps : ps = ReadyToHandOver(d)
    OBVIOUS
  <2>5. /\ req'[c].pc = "authorise" /\ req'[c].keys = KeysOf(ps) /\ req'[c].properties = ps
        /\ req'[c].record = record /\ ps \subseteq Ids(property)
    BY <2>2, <2>4
  <2>6. \A k \in Clerks : At(k, "authorise")' =>
           /\ req'[k].properties \subseteq Ids(property)
           /\ req'[k].keys = KeysOf(req'[k].properties)
           /\ req'[k].record \in Grounds
    BY <2>1, <2>5 DEF HandoverTyped, At
  <2>7. \A k \in Clerks : At(k, "status")' => req'[k] = req[k] /\ At(k, "status")
    BY <2>1, <2>5 DEF At
  <2>. QED
    BY <2>3, <2>6, <2>7 DEF HandoverTyped
<1>3. ASSUME NEW c \in Clerks, BeginPropertyStatus(c) PROVE HandoverTyped'
  <2>1. /\ UNCHANGED <<estate, handovers>>
        /\ \A k \in Clerks : k # c => req'[k] = req[k]
    BY <1>3, BeginStatusEffect
  <2>2. PICK p \in Ids(property), to \in PropertyStatus \ {"HANDED_OVER"} :
           req'[c] = [pc |-> "status", keys |-> KeysOf({p}), id |-> p, to |-> to,
                      before |-> property[p].status]
    BY <1>3, BeginStatusEffect
  <2>3. UNCHANGED <<property, weight, handover_record, trail>> /\ Ids(property)' = Ids(property)
    BY <2>1 DEF estate, handovers, Ids
  <2>4. property[p].status \in PropertyStatus
    <3>1. property[p] \in Property
      BY TableType DEF EstateTypeOK, Ids
    <3>. QED
      BY <3>1 DEF Property
  <2>5. /\ req'[c].pc = "status" /\ req'[c].keys = KeysOf({p}) /\ req'[c].id = p
        /\ req'[c].to = to /\ req'[c].before \in PropertyStatus
    BY <2>2, <2>4
  <2>6. \A k \in Clerks : At(k, "status")' =>
           /\ req'[k].id \in Ids(property) /\ req'[k].keys = KeysOf({req'[k].id})
           /\ req'[k].before \in PropertyStatus
           /\ req'[k].to \in PropertyStatus \ {"HANDED_OVER"}
    BY <2>1, <2>5 DEF HandoverTyped, At
  <2>7. \A k \in Clerks : At(k, "authorise")' => req'[k] = req[k] /\ At(k, "authorise")
    BY <2>1, <2>5 DEF At
  <2>. QED
    BY <2>3, <2>6, <2>7 DEF HandoverTyped
<1>4. ASSUME NEW c \in Clerks, AuthoriseHandover(c) PROVE HandoverTyped'
  <2>1. PICK ps : ps = req[c].properties
    OBVIOUS
  <2>2. /\ ps \subseteq Ids(property) /\ Ids(property)' = Ids(property) /\ weight' = weight
        /\ handover_record' \in Seq(HandoverRecord)
        /\ OneOfEach(handover_record, handover_record', ps)
        /\ trail' \in Seq(Event) /\ OneOfEach(trail, trail', ps)
        /\ req'[c] = Idle /\ (\A k \in Clerks : k # c => req'[k] = req[k])
    BY <1>4, <2>1, AuthoriseEffect
  <2>3. \A n \in DOMAIN handover_record' : handover_record'[n].property_id \in Ids(property)
    BY <2>2 DEF HandoverTyped, OneOfEach
  <2>4. \A n \in DOMAIN trail' : trail'[n].property_id \in Ids(property)
    BY <2>2 DEF HandoverTyped, OneOfEach
  <2>5. \A k \in Clerks : /\ At(k, "authorise")' => req'[k] = req[k] /\ At(k, "authorise")
                          /\ At(k, "status")' => req'[k] = req[k] /\ At(k, "status")
    BY <2>2 DEF At, Idle
  <2>. QED
    BY <2>2, <2>3, <2>4, <2>5 DEF HandoverTyped
<1>5. ASSUME NEW c \in Clerks, UpdatePropertyStatus(c) PROVE HandoverTyped'
  <2>1. PICK p : p = req[c].id
    OBVIOUS
  <2>2. /\ p \in Ids(property) /\ Ids(property)' = Ids(property) /\ weight' = weight
        /\ handover_record' = handover_record
        /\ trail' \in Seq(Event) /\ OneOfEach(trail, trail', {p})
        /\ req'[c] = Idle /\ (\A k \in Clerks : k # c => req'[k] = req[k])
    BY <1>5, <2>1, StatusEffect
  <2>3. \A n \in DOMAIN trail' : trail'[n].property_id \in Ids(property)
    BY <2>2 DEF HandoverTyped, OneOfEach
  <2>4. \A k \in Clerks : /\ At(k, "authorise")' => req'[k] = req[k] /\ At(k, "authorise")
                          /\ At(k, "status")' => req'[k] = req[k] /\ At(k, "status")
    BY <2>2 DEF At, Idle
  <2>. QED
    BY <2>2, <2>3, <2>4 DEF HandoverTyped
<1>6. CASE UpdateHandoverReadinessWeight
  <2>1. PICK cw \in CheckWeights : weight' = [weight EXCEPT ![cw[1]] = cw[2]]
    BY <1>6 DEF UpdateHandoverReadinessWeight
  <2>2. weight' \in [CheckCodes -> Int]
    BY <2>1, HandoverAssumption DEF HandoverTyped
  <2>3. UNCHANGED <<handover_record, trail>> /\ Ids(property)' = Ids(property)
    BY <1>6 DEF UpdateHandoverReadinessWeight, estate, Ids
  <2>4. req' = req
    BY <1>6, QuietEffect DEF UpdateHandoverReadinessWeight
  <2>. QED
    BY <2>2, <2>3, <2>4 DEF HandoverTyped, At
<1>. QED
  BY <1>1, <1>2, <1>3, <1>4, <1>5, <1>6, PropertySteps DEF HandoverNext

-----------------------------------------------------------------------------
(* Evidence of handovers *)

About(table, p)  == {n \in DOMAIN table : table[n].property_id = p}
Handed(table, p) == {n \in About(table, p) : table[n].after = "HANDED_OVER"}

Left(table, first, n) == IF n = 0 THEN first ELSE table[n].after

\* The events about a property lead from its first status to its last.
Leads(table, p, first, last) ==
    \A m \in About(table, p) \union {0} :
       /\ \A n \in About(table, p) :
             m < n /\ (\A k \in About(table, p) : k <= m \/ n <= k)
                => table[n].before = Left(table, first, m)
       /\ (\A n \in About(table, p) : n <= m) => last = Left(table, first, m)

LEMMA NoneAbout ==
  ASSUME NEW table, NEW after, NEW S, OneOfEach(table, after, S), NEW p, p \notin S,
         NEW first, NEW last, 0 \notin DOMAIN table
  PROVE  /\ About(after, p) = About(table, p)
         /\ \A n \in About(table, p) : after[n] = table[n]
         /\ Handed(after, p) = Handed(table, p)
         /\ Leads(table, p, first, last) => Leads(after, p, first, last)
<1>1. /\ About(after, p) = About(table, p) /\ \A n \in About(table, p) : after[n] = table[n]
  BY DEF OneOfEach, About
<1>2. Handed(after, p) = Handed(table, p)
  BY <1>1 DEF Handed
<1>3. \A n \in About(table, p) \union {0} : Left(after, first, n) = Left(table, first, n)
  BY <1>1 DEF Left
<1>. QED
  BY <1>1, <1>2, <1>3 DEF Leads

LEMMA OneAbout ==
  ASSUME NEW table, NEW after, NEW S, OneOfEach(table, after, S), NEW p \in S,
         NEW first, NEW last, 0 \notin DOMAIN table
  PROVE  \E e \in DOMAIN after \ DOMAIN table :
            /\ About(after, p) = About(table, p) \union {e} /\ e \notin About(table, p)
            /\ \A n \in About(table, p) : after[n] = table[n]
            /\ Handed(after, p) = IF after[e].after = "HANDED_OVER" THEN Handed(table, p) \union {e}
                                  ELSE Handed(table, p)
            /\ Leads(table, p, first, last) /\ after[e].before = last
                  => Leads(after, p, first, after[e].after)
<1>1. PICK e \in DOMAIN after \ DOMAIN table :
         /\ after[e].property_id = p
         /\ \A m \in DOMAIN after \ DOMAIN table : after[m].property_id = p => m = e
  BY DEF OneOfEach
<1>2. /\ About(after, p) = About(table, p) \union {e} /\ e \notin About(table, p)
      /\ \A n \in About(table, p) : after[n] = table[n]
      /\ e \in Nat /\ 0 < e /\ \A k \in About(table, p) : k < e /\ k \in Nat
  BY <1>1 DEF OneOfEach, About
<1>3. Handed(after, p) = IF after[e].after = "HANDED_OVER" THEN Handed(table, p) \union {e}
                         ELSE Handed(table, p)
  BY <1>2 DEF Handed
<1>4. ASSUME Leads(table, p, first, last), after[e].before = last
      PROVE  Leads(after, p, first, after[e].after)
  <2>. DEFINE A == About(table, p)
              B == About(after, p)
  <2>1. B = A \union {e} /\ e \notin A /\ e \in Nat /\ 0 < e /\ \A k \in A : k < e /\ k \in Nat
    BY <1>2
  <2>2. \A n \in A \union {0} : Left(after, first, n) = Left(table, first, n)
    BY <1>2 DEF Left, About
  <2>3. Left(after, first, e) = after[e].after
    BY <2>1 DEF Left
  <2>4. \A m \in A \union {0} :
           /\ \A n \in A : m < n /\ (\A k \in A : k <= m \/ n <= k)
                              => table[n].before = Left(table, first, m)
           /\ (\A n \in A : n <= m) => last = Left(table, first, m)
    BY <1>4 DEF Leads
  <2>5. \A n \in A : after[n] = table[n]
    BY <1>2
  <2>. HIDE DEF A, B
  <2>6. ASSUME NEW m \in B \union {0}, NEW n \in B, m < n, \A k \in B : k <= m \/ n <= k
        PROVE  after[n].before = Left(after, first, m)
    <3>1. m # e
      BY <2>1, <2>6
    <3>2. m \in A \union {0} /\ m \in Nat
      BY <2>1, <3>1
    <3>3. CASE n = e
      <4>1. \A k \in A : k <= m
        BY <2>1, <2>6, <3>3
      <4>. QED
        BY <1>4, <2>2, <2>4, <3>2, <3>3, <4>1
    <3>4. CASE n # e
      <4>1. n \in A /\ \A k \in A : k <= m \/ n <= k
        BY <2>1, <2>6, <3>4
      <4>. QED
        BY <2>2, <2>4, <2>5, <2>6, <3>2, <4>1
    <3>. QED
      BY <3>3, <3>4
  <2>7. ASSUME NEW m \in B \union {0}, \A n \in B : n <= m
        PROVE  after[e].after = Left(after, first, m)
    <3>1. e <= m
      BY <2>1, <2>7
    <3>2. m = e
      BY <2>1, <3>1
    <3>. QED
      BY <2>3, <3>2
  <2>8. \A m \in B \union {0} :
           /\ \A n \in B : m < n /\ (\A k \in B : k <= m \/ n <= k)
                              => after[n].before = Left(after, first, m)
           /\ (\A n \in B : n <= m) => after[e].after = Left(after, first, m)
    BY <2>6, <2>7
  <2>. QED
    BY <2>8 DEF Leads, B
<1>. QED
  BY <1>1, <1>2, <1>3, <1>4

\* What HandoverIsEvidenced says of one property.
Evidenced(p) ==
    /\ property[p].status = "HANDED_OVER" =>
          About(handover_record, p) # {} \/ property[p].created_as = "HANDED_OVER"
    /\ Cardinality(Handed(trail, p)) = Cardinality(About(handover_record, p))
    /\ \/ <<"property", p>> \in raced
       \/ Leads(trail, p, property[p].created_as, property[p].status)

\* What a request loaded of a property still stands, unless the property was raced.
MovedInv ==
    /\ \A p \in Ids(property) : Evidenced(p)
    /\ \A c \in Clerks :
          /\ At(c, "authorise") =>
                \A p \in req[c].properties :
                   <<"property", p>> \in raced \/ property[p].status = "READY_FOR_HANDOVER"
          /\ At(c, "status") =>
                \/ <<"property", req[c].id>> \in raced
                \/ property[req[c].id].status = req[c].before

LEMMA AboutFinite ==
  ASSUME HandoverTyped, NEW p
  PROVE  /\ IsFiniteSet(About(handover_record, p)) /\ IsFiniteSet(About(trail, p))
         /\ IsFiniteSet(Handed(trail, p))
         /\ 0 \notin DOMAIN handover_record /\ 0 \notin DOMAIN trail
<1>1. /\ IsFiniteSet(DOMAIN handover_record) /\ IsFiniteSet(DOMAIN trail)
      /\ 0 \notin DOMAIN handover_record /\ 0 \notin DOMAIN trail
  BY TableType DEF HandoverTyped
<1>2. /\ About(handover_record, p) \subseteq DOMAIN handover_record
      /\ About(trail, p) \subseteq DOMAIN trail /\ Handed(trail, p) \subseteq DOMAIN trail
  BY DEF About, Handed
<1>. QED
  BY <1>1, <1>2, FS_Subset

\* Nothing about the property has changed, or nothing but what was raced.
LEMMA EvidenceKept ==
  ASSUME NEW p \in Ids(property), Evidenced(p), HandoverTyped, raced \subseteq raced',
         NEW S, p \notin S, OneOfEach(trail, trail', S),
         handover_record' = handover_record \/ OneOfEach(handover_record, handover_record', S),
         property'[p].status = property[p].status, property'[p].created_as = property[p].created_as
  PROVE  Evidenced(p)'
<1>1. About(handover_record', p) = About(handover_record, p)
  <2>1. PICK old, new : old = handover_record /\ new = handover_record'
    OBVIOUS
  <2>2. new = old \/ OneOfEach(old, new, S)
    BY <2>1
  <2>3. About(new, p) = About(old, p)
    BY <2>2 DEF About, OneOfEach
  <2>. QED
    BY <2>1, <2>3
<1>2. PICK first, last : first = property[p].created_as /\ last = property[p].status
  OBVIOUS
<1>3. /\ Handed(trail', p) = Handed(trail, p)
      /\ Leads(trail, p, first, last) => Leads(trail', p, first, last)
  <2>1. PICK old, new : old = trail /\ new = trail'
    OBVIOUS
  <2>2. OneOfEach(old, new, S) /\ 0 \notin DOMAIN old
    BY <2>1, AboutFinite
  <2>3. /\ Handed(new, p) = Handed(old, p)
        /\ Leads(old, p, first, last) => Leads(new, p, first, last)
    BY <2>2, NoneAbout
  <2>. QED
    BY <2>1, <2>3
<1>. QED
  BY <1>1, <1>2, <1>3 DEF Evidenced

\* No event and no record is about a property that is not there yet.
LEMMA NewEvidence ==
  ASSUME HandoverTyped, NEW p, p \notin Ids(property), UNCHANGED <<handover_record, trail>>,
         property'[p].status = property'[p].created_as
  PROVE  Evidenced(p)'
<1>1. About(handover_record, p) = {} /\ About(trail, p) = {}
  BY DEF HandoverTyped, About
<1>2. Handed(trail, p) = {}
  BY <1>1 DEF Handed
<1>3. PICK first : first = property'[p].created_as
  OBVIOUS
<1>4. Leads(trail, p, first, first)
  BY <1>1 DEF Leads, Left
<1>. QED
  BY <1>1, <1>2, <1>3, <1>4 DEF Evidenced

\* Neither the records nor the events have changed, and the requests that hold properties
\* are those that did.
LEMMA MovedKept ==
  ASSUME ReqShape, HandoverTyped, MovedInv, PropertiesGrow, UNCHANGED <<handover_record, trail>>,
         raced \subseteq raced'
  PROVE  /\ \A p \in Ids(property)' : Evidenced(p)'
         /\ \A c \in Clerks : req'[c] = req[c] =>
               /\ At(c, "authorise") =>
                     \A p \in req'[c].properties :
                        <<"property", p>> \in raced' \/ property'[p].status = "READY_FOR_HANDOVER"
               /\ At(c, "status") =>
                     \/ <<"property", req'[c].id>> \in raced'
                     \/ property'[req'[c].id].status = req'[c].before
<1>1. ASSUME NEW p \in Ids(property)' PROVE Evidenced(p)'
  <2>1. CASE p \in Ids(property)
    <3>1. OneOfEach(trail, trail', {})
      <4>1. DOMAIN trail \subseteq Nat
        BY TableType DEF HandoverTyped
      <4>. QED
        BY <4>1 DEF OneOfEach
    <3>2. Evidenced(p) /\ property'[p] = property[p] /\ p \notin {}
      BY <2>1 DEF MovedInv, PropertiesGrow
    <3>. QED
      BY <2>1, <3>1, <3>2, EvidenceKept
  <2>2. CASE p \notin Ids(property)
    BY <1>1, <2>2, NewEvidence DEF PropertiesGrow
  <2>. QED
    BY <2>1, <2>2
<1>2. ASSUME NEW c \in Clerks, req'[c] = req[c]
      PROVE  /\ At(c, "authorise") =>
                   \A p \in req'[c].properties :
                      <<"property", p>> \in raced' \/ property'[p].status = "READY_FOR_HANDOVER"
             /\ At(c, "status") =>
                   \/ <<"property", req'[c].id>> \in raced'
                   \/ property'[req'[c].id].status = req'[c].before
  <2>1. \A p \in Ids(property) : property'[p] = property[p]
    BY DEF PropertiesGrow
  <2>2. /\ At(c, "authorise") => req[c].properties \subseteq Ids(property)
        /\ At(c, "status") => req[c].id \in Ids(property)
    BY DEF HandoverTyped
  <2>. QED
    BY <1>2, <2>1, <2>2 DEF MovedInv
<1>. QED
  BY <1>1, <1>2

\* One more record, and one more event of a handover.
LEMMA EvidenceOfHandover ==
  ASSUME HandoverTyped, NEW p \in Ids(property), Evidenced(p), NEW S, p \in S,
         OneOfEach(handover_record, handover_record', S), OneOfEach(trail, trail', S),
         \A n \in DOMAIN trail' \ DOMAIN trail :
            trail'[n].before = "READY_FOR_HANDOVER" /\ trail'[n].after = "HANDED_OVER",
         <<"property", p>> \in raced \/ property[p].status = "READY_FOR_HANDOVER",
         property'[p].status = "HANDED_OVER", property'[p].created_as = property[p].created_as,
         raced' = raced
  PROVE  Evidenced(p)'
<1>1. /\ About(handover_record', p) # {}
      /\ Cardinality(About(handover_record', p)) = Cardinality(About(handover_record, p)) + 1
  <2>1. PICK old, new : old = handover_record /\ new = handover_record'
    OBVIOUS
  <2>2. OneOfEach(old, new, S) /\ 0 \notin DOMAIN old /\ IsFiniteSet(About(old, p))
    BY <2>1, AboutFinite
  <2>3. \A first, last : \E e : About(new, p) = About(old, p) \union {e} /\ e \notin About(old, p)
    BY <2>2, OneAbout
  <2>4. PICK e : About(new, p) = About(old, p) \union {e} /\ e \notin About(old, p)
    BY <2>3
  <2>5. Cardinality(About(new, p)) = Cardinality(About(old, p)) + 1
    BY <2>2, <2>4, FS_AddElement
  <2>6. About(new, p) # {}
    BY <2>4
  <2>. QED
    BY <2>1, <2>5, <2>6
<1>2. PICK first, last : first = property[p].created_as /\ last = property[p].status
  OBVIOUS
<1>3. /\ Cardinality(Handed(trail', p)) = Cardinality(Handed(trail, p)) + 1
      /\ Leads(trail, p, first, last) /\ last = "READY_FOR_HANDOVER"
            => Leads(trail', p, first, "HANDED_OVER")
  <2>1. PICK old, new : old = trail /\ new = trail'
    OBVIOUS
  <2>2. /\ OneOfEach(old, new, S) /\ 0 \notin DOMAIN old /\ IsFiniteSet(Handed(old, p))
        /\ \A n \in DOMAIN new \ DOMAIN old :
              new[n].before = "READY_FOR_HANDOVER" /\ new[n].after = "HANDED_OVER"
    BY <2>1, AboutFinite
  <2>3. PICK e \in DOMAIN new \ DOMAIN old :
           /\ About(new, p) = About(old, p) \union {e} /\ e \notin About(old, p)
           /\ Handed(new, p) = IF new[e].after = "HANDED_OVER" THEN Handed(old, p) \union {e}
                               ELSE Handed(old, p)
           /\ Leads(old, p, first, last) /\ new[e].before = last
                 => Leads(new, p, first, new[e].after)
    BY <2>2, OneAbout
  <2>4. /\ e \notin Handed(old, p)
        /\ new[e].before = "READY_FOR_HANDOVER" /\ new[e].after = "HANDED_OVER"
    BY <2>2, <2>3 DEF Handed
  <2>5. Cardinality(Handed(new, p)) = Cardinality(Handed(old, p)) + 1
    <3>1. Handed(new, p) = Handed(old, p) \union {e}
      BY <2>3, <2>4
    <3>. QED
      BY <2>2, <2>4, <3>1, FS_AddElement
  <2>6. Leads(old, p, first, last) /\ last = "READY_FOR_HANDOVER"
           => Leads(new, p, first, "HANDED_OVER")
    BY <2>3, <2>4
  <2>. QED
    BY <2>1, <2>5, <2>6
<1>. QED
  BY <1>1, <1>2, <1>3 DEF Evidenced

\* One more event, of another status.
LEMMA EvidenceOfStatus ==
  ASSUME HandoverTyped, NEW p \in Ids(property), Evidenced(p), handover_record' = handover_record,
         NEW from, NEW to, to # "HANDED_OVER", OneOfEach(trail, trail', {p}),
         \A n \in DOMAIN trail' \ DOMAIN trail : trail'[n].before = from /\ trail'[n].after = to,
         <<"property", p>> \in raced \/ property[p].status = from,
         property'[p].status = IF to # from THEN to ELSE property[p].status,
         property'[p].created_as = property[p].created_as, raced' = raced
  PROVE  Evidenced(p)'
<1>1. PICK first, last : first = property[p].created_as /\ last = property[p].status
  OBVIOUS
<1>2. /\ Handed(trail', p) = Handed(trail, p)
      /\ Leads(trail, p, first, last) /\ last = from => Leads(trail', p, first, to)
  <2>1. PICK old, new : old = trail /\ new = trail'
    OBVIOUS
  <2>2. /\ OneOfEach(old, new, {p}) /\ 0 \notin DOMAIN old
        /\ \A n \in DOMAIN new \ DOMAIN old : new[n].before = from /\ new[n].after = to
    BY <2>1, AboutFinite
  <2>3. PICK e \in DOMAIN new \ DOMAIN old :
           /\ About(new, p) = About(old, p) \union {e} /\ e \notin About(old, p)
           /\ Handed(new, p) = IF new[e].after = "HANDED_OVER" THEN Handed(old, p) \union {e}
                               ELSE Handed(old, p)
           /\ Leads(old, p, first, last) /\ new[e].before = last
                 => Leads(new, p, first, new[e].after)
    BY <2>2, OneAbout
  <2>4. new[e].before = from /\ new[e].after = to
    BY <2>2
  <2>. QED
    BY <2>1, <2>3, <2>4
<1>. QED
  BY <1>1, <1>2 DEF Evidenced

LEMMA MovedNext ==
  ReqShape /\ KeyInv /\ EstateInv /\ HandoverTyped /\ MovedInv /\ [Next]_vars => MovedInv'
<1>. SUFFICES ASSUME ReqShape, KeyInv, EstateTypeOK, HandoverTyped, MovedInv, [Next]_vars
              PROVE  MovedInv'
  BY DEF EstateInv
<1>1. ASSUME PropertiesGrow, UNCHANGED handovers, Apart({"authorise", "status"})
      PROVE  MovedInv'
  <2>1. raced \subseteq raced' /\ UNCHANGED <<handover_record, trail>>
    BY <1>1 DEF Apart, handovers
  <2>2. \A c \in Clerks : At(c, "authorise")' \/ At(c, "status")' => req'[c] = req[c]
    BY <1>1 DEF Apart, At
  <2>. QED
    BY <1>1, <2>1, <2>2, MovedKept DEF MovedInv, At
<1>2. UNCHANGED <<estate, handovers>>
         => PropertiesGrow /\ UNCHANGED <<property, handover_record, trail>>
  BY DEF PropertiesGrow, estate, handovers, Ids
<1>3. ASSUME NEW c \in Clerks, BeginAuthorise(c) PROVE MovedInv'
  <2>1. /\ UNCHANGED <<estate, handovers>> /\ raced \subseteq raced'
        /\ \A k \in Clerks : k # c => req'[k] = req[k]
    BY <1>3, BeginAuthoriseEffect DEF HandoverTyped
  <2>2. PICK d \in Developments, record \in Grounds :
           /\ req'[c] = [pc |-> "authorise", keys |-> KeysOf(ReadyToHandOver(d)),
                         properties |-> ReadyToHandOver(d), record |-> record]
           /\ \A p \in ReadyToHandOver(d) : property[p].status = "READY_FOR_HANDOVER"
    BY <1>3, BeginAuthoriseEffect DEF HandoverTyped
  <2>3. PICK ps : ps = ReadyToHandOver(d)
    OBVIOUS
  <2>4. /\ req'[c].pc = "authorise" /\ req'[c].properties = ps
        /\ \A p \in ps : property'[p].status = "READY_FOR_HANDOVER"
    BY <1>2, <2>1, <2>2, <2>3
  <2>. QED
    BY <1>2, <2>1, <2>4, MovedKept DEF MovedInv, At
<1>4. ASSUME NEW c \in Clerks, BeginPropertyStatus(c) PROVE MovedInv'
  <2>1. /\ UNCHANGED <<estate, handovers>> /\ raced \subseteq raced'
        /\ \A k \in Clerks : k # c => req'[k] = req[k]
    BY <1>4, BeginStatusEffect
  <2>2. PICK p \in Ids(property), to \in PropertyStatus \ {"HANDED_OVER"} :
           req'[c] = [pc |-> "status", keys |-> KeysOf({p}), id |-> p, to |-> to,
                      before |-> property[p].status]
    BY <1>4, BeginStatusEffect
  <2>3. /\ req'[c].pc = "status" /\ req'[c].id = p /\ property'[p].status = req'[c].before
    BY <1>2, <2>1, <2>2
  <2>. QED
    BY <1>2, <2>1, <2>3, MovedKept DEF MovedInv, At
<1>5. CASE UpdateHandoverReadinessWeight
  <2>1. UNCHANGED <<estate, handover_record, trail>> /\ req' = req /\ raced' = raced
    BY <1>5, QuietEffect DEF UpdateHandoverReadinessWeight
  <2>2. PropertiesGrow
    BY <2>1 DEF PropertiesGrow, estate, Ids
  <2>. QED
    BY <2>1, <2>2, MovedKept DEF MovedInv, At
\* What another request holds of the properties that are written is raced.
<1>6. ASSUME NEW c \in Clerks, ~At(c, "idle"), NEW ps, KeysOf(ps) \subseteq req[c].keys,
             NEW k \in Clerks, k # c, ~At(k, "idle"), NEW p \in ps,
             <<"property", p>> \in req[k].keys
      PROVE  <<"property", p>> \in raced
  BY <1>6, HeldAlone DEF KeysOf
<1>7. ASSUME NEW c \in Clerks, NEW ps, ~At(c, "idle"), KeysOf(ps) \subseteq req[c].keys,
             req'[c] = Idle, \A k \in Clerks : k # c => req'[k] = req[k], raced' = raced,
             \A p \in Ids(property) \ ps : property'[p].status = property[p].status
      PROVE  \A k \in Clerks :
                /\ At(k, "authorise")' =>
                      \A p \in req'[k].properties :
                         \/ <<"property", p>> \in raced'
                         \/ property'[p].status = "READY_FOR_HANDOVER"
                /\ At(k, "status")' =>
                      \/ <<"property", req'[k].id>> \in raced'
                      \/ property'[req'[k].id].status = req'[k].before
  <2>. TAKE k \in Clerks
  <2>1. ASSUME At(k, "authorise")', NEW p \in req'[k].properties
        PROVE  <<"property", p>> \in raced' \/ property'[p].status = "READY_FOR_HANDOVER"
    <3>1. k # c /\ req'[k] = req[k] /\ At(k, "authorise")
      BY <1>7, <2>1 DEF At, Idle
    <3>2. p \in Ids(property) /\ <<"property", p>> \in req[k].keys
      BY <2>1, <3>1 DEF HandoverTyped, KeysOf
    <3>3. <<"property", p>> \in raced \/ property[p].status = "READY_FOR_HANDOVER"
      BY <2>1, <3>1 DEF MovedInv
    <3>4. ~At(k, "idle")
      BY <3>1 DEF At
    <3>. QED
      BY <1>6, <1>7, <3>1, <3>2, <3>3, <3>4
  <2>2. ASSUME At(k, "status")'
        PROVE  \/ <<"property", req'[k].id>> \in raced'
               \/ property'[req'[k].id].status = req'[k].before
    <3>1. k # c /\ req'[k] = req[k] /\ At(k, "status")
      BY <1>7, <2>2 DEF At, Idle
    <3>2. req[k].id \in Ids(property) /\ <<"property", req[k].id>> \in req[k].keys
      BY <3>1 DEF HandoverTyped, KeysOf
    <3>3. <<"property", req[k].id>> \in raced \/ property[req[k].id].status = req[k].before
      BY <3>1 DEF MovedInv
    <3>4. ~At(k, "idle")
      BY <3>1 DEF At
    <3>. QED
      BY <1>6, <1>7, <3>1, <3>2, <3>3, <3>4
  <2>. QED
    BY <2>1, <2>2
<1>8. ASSUME NEW c \in Clerks, AuthoriseHandover(c) PROVE MovedInv'
  <2>1. PICK ps : ps = req[c].properties
    OBVIOUS
  <2>2. /\ At(c, "authorise") /\ ps \subseteq Ids(property) /\ Ids(property)' = Ids(property)
        /\ \A p \in Ids(property) :
              /\ Stays(p)
              /\ property'[p].status = IF p \in ps THEN "HANDED_OVER" ELSE property[p].status
        /\ OneOfEach(handover_record, handover_record', ps) /\ OneOfEach(trail, trail', ps)
        /\ \A n \in DOMAIN trail' \ DOMAIN trail :
              trail'[n].before = "READY_FOR_HANDOVER" /\ trail'[n].after = "HANDED_OVER"
        /\ req'[c] = Idle /\ (\A k \in Clerks : k # c => req'[k] = req[k])
        /\ raced' = raced
    BY <1>8, <2>1, AuthoriseEffect
  <2>3. KeysOf(ps) \subseteq req[c].keys /\ ~At(c, "idle")
    BY <2>1, <2>2 DEF HandoverTyped, At
  <2>4. ASSUME NEW p \in Ids(property) PROVE Evidenced(p)'
    <3>1. Evidenced(p) /\ property'[p].created_as = property[p].created_as
      BY <2>2 DEF MovedInv, Stays
    <3>2. CASE p \in ps
      <4>1. <<"property", p>> \in raced \/ property[p].status = "READY_FOR_HANDOVER"
        BY <2>1, <2>2, <3>2 DEF MovedInv
      <4>. QED
        BY <2>2, <3>1, <3>2, <4>1, EvidenceOfHandover
    <3>3. CASE p \notin ps
      BY <2>2, <3>1, <3>3, EvidenceKept
    <3>. QED
      BY <3>2, <3>3
  <2>. QED
    BY <1>7, <2>2, <2>3, <2>4 DEF MovedInv
<1>9. ASSUME NEW c \in Clerks, UpdatePropertyStatus(c) PROVE MovedInv'
  <2>1. PICK p, from, to : p = req[c].id /\ from = req[c].before /\ to = req[c].to
    OBVIOUS
  <2>2. /\ At(c, "status") /\ p \in Ids(property) /\ Ids(property)' = Ids(property)
        /\ \A q \in Ids(property) :
              /\ Stays(q)
              /\ property'[q].status = IF q = p /\ to # from THEN to ELSE property[q].status
        /\ handover_record' = handover_record /\ OneOfEach(trail, trail', {p})
        /\ \A n \in DOMAIN trail' \ DOMAIN trail : trail'[n].before = from /\ trail'[n].after = to
        /\ req'[c] = Idle /\ (\A k \in Clerks : k # c => req'[k] = req[k])
        /\ raced' = raced
    BY <1>9, <2>1, StatusEffect
  <2>3. KeysOf({p}) \subseteq req[c].keys /\ ~At(c, "idle") /\ to # "HANDED_OVER"
    BY <2>1, <2>2 DEF HandoverTyped, At
  <2>4. ASSUME NEW q \in Ids(property) PROVE Evidenced(q)'
    <3>1. Evidenced(q) /\ property'[q].created_as = property[q].created_as
      BY <2>2 DEF MovedInv, Stays
    <3>2. CASE q = p
      <4>1. <<"property", p>> \in raced \/ property[p].status = from
        BY <2>1, <2>2 DEF MovedInv
      <4>2. property'[p].status = IF to # from THEN to ELSE property[p].status
        BY <2>2
      <4>3. OneOfEach(trail, trail', {q})
        BY <2>2, <3>2
      <4>. QED
        BY <2>2, <2>3, <3>1, <3>2, <4>1, <4>2, <4>3, EvidenceOfStatus
    <3>3. CASE q # p
      <4>1. q \notin {p}
        BY <3>3
      <4>. QED
        BY <2>2, <3>1, <3>3, <4>1, EvidenceKept
    <3>. QED
      BY <3>2, <3>3
  <2>5. \A q \in Ids(property) \ {p} : property'[q].status = property[q].status
    BY <2>2
  <2>. QED
    BY <1>7, <2>2, <2>3, <2>4, <2>5 DEF MovedInv
<1>. QED
  BY <1>1, <1>3, <1>4, <1>5, <1>8, <1>9, PropertySteps DEF HandoverNext

-----------------------------------------------------------------------------
(* Findings *)

\* A property keeps the status it was created in.
CreatedKept ==
    /\ Ids(property) \subseteq Ids(property)'
    /\ \A p \in Ids(property) : property'[p].created_as = property[p].created_as

LEMMA CreatedStays ==
  ReqShape /\ EstateInv /\ HandoverTyped /\ [Next]_vars => CreatedKept
<1>. SUFFICES ASSUME ReqShape, EstateTypeOK, HandoverTyped, [Next]_vars PROVE CreatedKept
  BY DEF EstateInv
<1>1. PropertiesGrow => CreatedKept
  BY DEF PropertiesGrow, CreatedKept
<1>2. UNCHANGED estate => CreatedKept
  BY DEF CreatedKept, estate, Ids
<1>3. ASSUME NEW c \in Clerks, AuthoriseHandover(c) \/ UpdatePropertyStatus(c) PROVE CreatedKept
  <2>1. Ids(property)' = Ids(property) /\ \A p \in Ids(property) : Stays(p)
    BY <1>3, AuthoriseEffect, StatusEffect
  <2>. QED
    BY <2>1 DEF CreatedKept, Stays
<1>. QED
  BY <1>1, <1>2, <1>3, PropertySteps
     DEF HandoverNext, UpdateHandoverReadinessWeight, BeginAuthorise, BeginPropertyStatus

\* What a finding says of a handed-over property is true for good.
Truthful(found) ==
    \A f \in found : f[1] = "MISSING_HANDOVER_INFORMATION" =>
                        f[3] \in Ids(property) /\ property[f[3]].created_as = "HANDED_OVER"

\* A run that was alone with the findings holds all of them when it has deleted them.
FindingInv ==
    /\ Truthful({r.finding : r \in finding})
    /\ \A r \in finding : r.run \in 1..begun
    /\ <<"findings">> \in raced \/ Cardinality({r.run : r \in finding}) <= 1
    /\ \A c \in Clerks :
          /\ At(c, "health") \/ At(c, "stored") =>
                /\ req[c].keys = {<<"findings">>} /\ req[c].run \in 1..begun
                /\ Truthful(req[c].findings)
          /\ At(c, "stored") => <<"findings">> \in raced \/ req[c].replaced = finding

LEMMA TruthfulKept ==
  ASSUME NEW found, Truthful(found), CreatedKept
  PROVE  Truthful(found)'
  BY DEF Truthful, CreatedKept

\* The findings of a handed-over property without a record.
LEMMA FindingsTruthful == ASSUME MovedInv PROVE Truthful(Findings)
<1>. DEFINE code == "MISSING_HANDOVER_INFORMATION"
<1>1. SUFFICES ASSUME NEW f \in Findings, f[1] = code
      PROVE  f[3] \in Ids(property) /\ property[f[3]].created_as = "HANDED_OVER"
  BY DEF Truthful
<1>2. PICK results : results = RULES
  OBVIOUS
<1>3. PICK k \in DOMAIN results : f \in {<<k, results[k].kind, x>> : x \in results[k].failing}
  BY <1>2 DEF Findings
<1>4. PICK x \in results[k].failing : f = <<k, results[k].kind, x>>
  BY <1>3
<1>5. k = code /\ f[3] = x
  BY <1>1, <1>4
<1>6. results[code] = check_missing_handover_information
  BY <1>2 DEF RULES
<1>7. /\ x \in Ids(property) /\ property[x].status = "HANDED_OVER"
      /\ \A n \in DOMAIN handover_record : handover_record[n].property_id # x
  BY <1>4, <1>5, <1>6 DEF check_missing_handover_information, CheckResult
<1>8. About(handover_record, x) = {}
  BY <1>7 DEF About
<1>. QED
  BY <1>5, <1>7, <1>8 DEF MovedInv, Evidenced

LEMMA CommitEffect ==
  ASSUME ReqShape, NEW c \in Clerks, CommitDataHealth(c)
  PROVE  /\ At(c, "stored") /\ req'[c] = Idle /\ \A d \in Clerks : d # c => req'[d] = req[d]
         /\ raced' = raced /\ begun' = begun
         /\ finding' = (finding \ req[c].replaced)
                          \union {[run |-> req[c].run, finding |-> f] : f \in req[c].findings}
  BY EndEffect DEF CommitDataHealth, run_data_health_checks

LEMMA BeginHealthEffect ==
  ASSUME ReqShape, NEW c \in Clerks, BeginDataHealth(c)
  PROVE  /\ req'[c] = [pc |-> "health", keys |-> {<<"findings">>}, run |-> begun + 1,
                       findings |-> Findings, replaced |-> {}]
         /\ \A d \in Clerks : d # c => req'[d] = req[d]
         /\ raced \subseteq raced' /\ begun' = begun + 1 /\ finding' = finding
         /\ UNCHANGED estate
<1>. DEFINE r == [pc |-> "health", keys |-> {<<"findings">>}, run |-> begun + 1,
                  findings |-> Findings, replaced |-> {}]
<1>1. Hold(c, r) /\ r = Computed(r)
  BY DEF BeginDataHealth, Computed
<1>. HIDE DEF r
<1>2. /\ req'[c] = r /\ (\A d \in Clerks : d # c => req'[d] = req[d])
      /\ raced \subseteq raced' /\ begun' = begun + 1
  BY <1>1, HoldEffect
<1>. QED
  BY <1>2 DEF BeginDataHealth, r

LEMMA FindingSteps ==
  ASSUME ReqShape, [Next]_vars
  PROVE  DataHealthNext \/ (finding' = finding /\ Apart({"health", "stored"}))
<1>. DEFINE pcs == {"health", "stored"}
<1>1. EstateStep => finding' = finding /\ Apart(pcs)
  BY EstateMoves, StandApart DEF EstateStep
<1>2. DocumentStep => finding' = finding /\ Apart(pcs)
  BY DocumentMoves, StandApart DEF DocumentStep
<1>3. SpecificationStep => finding' = finding /\ Apart(pcs)
  <2>1. Revising \intersect pcs = {}
    BY DEF Revising
  <2>. QED
    BY <2>1, SpecificationMoves, StandApart DEF SpecificationStep
<1>4. HandoverStep => finding' = finding /\ Apart(pcs)
  BY HandoverMoves, StandApart DEF HandoverStep
<1>5. StillStep => finding' = finding /\ Apart(pcs)
  <2>1. StillStep => Quiet
    BY DEF StillStep, Quiet
  <2>2. {} \intersect pcs = {}
    OBVIOUS
  <2>. QED
    BY <2>1, <2>2, StandApart DEF StillStep
<1>. QED
  BY <1>1, <1>2, <1>3, <1>4, <1>5, Steps

LEMMA OneRun ==
  ASSUME NEW rows, NEW run, \A r \in rows : r.run = run
  PROVE  Cardinality({r.run : r \in rows}) <= 1
<1>1. PICK runs : runs = {r.run : r \in rows}
  OBVIOUS
<1>2. runs = {} \/ runs = {run}
  BY <1>1
<1>3. Cardinality({}) = 0 /\ Cardinality({run}) = 1
  BY FS_EmptySet, FS_Singleton
<1>4. Cardinality(runs) <= 1
  BY <1>2, <1>3
<1>. QED
  BY <1>1, <1>4

LEMMA FindingNext ==
  /\ ReqShape /\ KeyInv /\ EstateInv /\ HandoverTyped /\ MovedInv /\ FindingInv
  /\ [Next]_vars
  => FindingInv'
<1>. SUFFICES ASSUME ReqShape, KeyInv, MovedInv, FindingInv, [Next]_vars, CreatedKept,
                     begun \in Nat, begun' \in Nat, begun <= begun', raced \subseteq raced'
              PROVE  FindingInv'
  <2>1. ReqShape => begun \in Nat
    BY BoundsAssumption DEF ReqShape, RequestsOK
  <2>2. ReqShape' => begun' \in Nat
    BY BoundsAssumption DEF ReqShape, RequestsOK
  <2>. QED
    BY <2>1, <2>2, CreatedStays, ShapeNext
<1>0. 1..begun \subseteq 1..begun'
  OBVIOUS
<1>1. ASSUME finding' = finding
      PROVE  /\ Truthful({r.finding : r \in finding})'
             /\ \A r \in finding' : r.run \in 1..begun'
             /\ <<"findings">> \in raced' \/ Cardinality({r.run : r \in finding'}) <= 1
  <2>1. PICK found : found = {r.finding : r \in finding}
    OBVIOUS
  <2>2. Truthful(found)'
    BY <2>1, TruthfulKept DEF FindingInv
  <2>3. {r.finding : r \in finding}' = found
    BY <1>1, <2>1
  <2>. QED
    BY <1>0, <1>1, <2>2, <2>3 DEF FindingInv, Truthful
<1>2. ASSUME NEW c \in Clerks, req'[c] = req[c], At(c, "health") \/ At(c, "stored")
      PROVE  /\ req'[c].keys = {<<"findings">>} /\ req'[c].run \in 1..begun'
             /\ Truthful(req[c].findings)'
  <2>1. PICK found : found = req[c].findings
    OBVIOUS
  <2>2. Truthful(found)
    BY <1>2, <2>1 DEF FindingInv
  <2>3. Truthful(found)'
    BY <2>2, TruthfulKept
  <2>4. Truthful(req[c].findings)'
    BY <1>2, <2>1, <2>3 DEF Truthful
  <2>. QED
    BY <1>0, <1>2, <2>4 DEF FindingInv
<1>3. CASE finding' = finding /\ Apart({"health", "stored"})
  <2>1. \A c \in Clerks : At(c, "health")' \/ At(c, "stored")' =>
           req'[c] = req[c] /\ (At(c, "health")' => At(c, "health"))
           /\ (At(c, "stored")' => At(c, "stored"))
    BY <1>3 DEF Apart, At
  <2>. QED
    BY <1>1, <1>2, <1>3, <2>1 DEF FindingInv
<1>4. ASSUME NEW c \in Clerks, BeginDataHealth(c) PROVE FindingInv'
  <2>1. PICK found : found = Findings
    OBVIOUS
  <2>2. /\ req'[c] = [pc |-> "health", keys |-> {<<"findings">>}, run |-> begun + 1,
                      findings |-> found, replaced |-> {}]
        /\ \A d \in Clerks : d # c => req'[d] = req[d]
        /\ begun' = begun + 1 /\ finding' = finding
    BY <1>4, <2>1, BeginHealthEffect
  <2>3. /\ req'[c].pc = "health" /\ req'[c].keys = {<<"findings">>} /\ req'[c].run \in 1..begun'
        /\ req'[c].findings = found
    BY <2>2
  <2>4. Truthful(found)'
    BY <2>1, FindingsTruthful, TruthfulKept
  <2>5. Truthful(req[c].findings)'
    BY <2>3, <2>4 DEF Truthful
  <2>6. \A d \in Clerks : d # c => (At(d, "health")' => At(d, "health"))
                                   /\ (At(d, "stored")' => At(d, "stored"))
    BY <2>2 DEF At
  <2>7. \A d \in Clerks : At(d, "stored")' => d # c
    BY <2>3 DEF At
  <2>8. \A d \in Clerks : At(d, "health")' \/ At(d, "stored")' =>
           /\ req'[d].keys = {<<"findings">>} /\ req'[d].run \in 1..begun'
           /\ Truthful(req[d].findings)'
    BY <1>2, <2>2, <2>3, <2>5, <2>6
  <2>9. \A d \in Clerks : At(d, "stored")' =>
           <<"findings">> \in raced' \/ req'[d].replaced = finding'
    BY <2>2, <2>6, <2>7 DEF FindingInv
  <2>. QED
    BY <1>1, <2>2, <2>8, <2>9 DEF FindingInv
<1>5. ASSUME NEW c \in Clerks, ReplaceFindings(c) PROVE FindingInv'
  <2>1. PICK run, found, old : run = req[c].run /\ found = req[c].findings /\ old = finding
    OBVIOUS
  <2>2. /\ req'[c] = [pc |-> "stored", keys |-> {<<"findings">>}, run |-> run,
                      findings |-> found, replaced |-> old]
        /\ \A d \in Clerks : d # c => req'[d] = req[d]
    BY <1>5, <2>1, ReplaceEffect
  <2>3. At(c, "health") /\ finding' = finding
    BY <1>5 DEF ReplaceFindings
  <2>4. run \in 1..begun /\ Truthful(found)
    BY <2>1, <2>3 DEF FindingInv
  <2>5. /\ req'[c].pc = "stored" /\ req'[c].keys = {<<"findings">>} /\ req'[c].run \in 1..begun'
        /\ req'[c].findings = found /\ req'[c].replaced = finding'
    BY <1>0, <2>1, <2>2, <2>3, <2>4
  <2>6. Truthful(found)'
    BY <2>4, TruthfulKept
  <2>7. Truthful(req[c].findings)'
    BY <2>5, <2>6 DEF Truthful
  <2>8. \A d \in Clerks : d # c => (At(d, "health")' => At(d, "health"))
                                   /\ (At(d, "stored")' => At(d, "stored"))
    BY <2>2 DEF At
  <2>9. \A d \in Clerks : At(d, "health")' \/ At(d, "stored")' =>
           /\ req'[d].keys = {<<"findings">>} /\ req'[d].run \in 1..begun'
           /\ Truthful(req[d].findings)'
    BY <1>2, <2>2, <2>5, <2>7, <2>8
  <2>10. \A d \in Clerks : At(d, "stored")' =>
           <<"findings">> \in raced' \/ req'[d].replaced = finding'
    BY <2>2, <2>3, <2>5, <2>8 DEF FindingInv
  <2>. QED
    BY <1>1, <2>3, <2>9, <2>10 DEF FindingInv
<1>6. ASSUME NEW c \in Clerks, CommitDataHealth(c) PROVE FindingInv'
  <2>1. /\ At(c, "stored") /\ req'[c] = Idle /\ \A d \in Clerks : d # c => req'[d] = req[d]
        /\ raced' = raced
        /\ finding' = (finding \ req[c].replaced)
                         \union {[run |-> req[c].run, finding |-> f] : f \in req[c].findings}
    BY <1>6, CommitEffect
  <2>2. PICK run, found, old : run = req[c].run /\ found = req[c].findings /\ old = req[c].replaced
    OBVIOUS
  <2>3. /\ run \in 1..begun /\ Truthful(found) /\ req[c].keys = {<<"findings">>}
        /\ <<"findings">> \in raced \/ old = finding
    BY <2>1, <2>2 DEF FindingInv
  <2>4. \A r \in finding' : r \in finding \/ \E f \in found : r = [run |-> run, finding |-> f]
    BY <2>1, <2>2
  <2>5. \A r \in finding' : r.run \in 1..begun'
    BY <1>0, <2>3, <2>4 DEF FindingInv
  <2>6. Truthful({r.finding : r \in finding})'
    <3>1. PICK told : told = {r.finding : r \in finding}
      OBVIOUS
    <3>2. Truthful(told) /\ Truthful(found)
      BY <2>3, <3>1 DEF FindingInv
    <3>3. Truthful(told)' /\ Truthful(found)'
      BY <3>2, TruthfulKept
    <3>4. \A r \in finding' : r.finding \in told \union found
      BY <2>4, <3>1
    <3>. QED
      BY <3>3, <3>4 DEF Truthful
  <2>7. <<"findings">> \in raced' \/ Cardinality({r.run : r \in finding'}) <= 1
    <3>1. CASE old = finding
      <4>1. \A r \in finding' : r.run = run
        BY <2>1, <2>2, <3>1
      <4>2. PICK rows : rows = finding'
        OBVIOUS
      <4>3. Cardinality({r.run : r \in rows}) <= 1
        BY <4>1, <4>2, OneRun
      <4>. QED
        BY <4>2, <4>3
    <3>. QED
      BY <2>1, <2>3, <3>1
  <2>8. \A d \in Clerks : At(d, "health")' \/ At(d, "stored")' =>
           /\ d # c /\ req'[d] = req[d]
           /\ (At(d, "health")' => At(d, "health")) /\ (At(d, "stored")' => At(d, "stored"))
    BY <2>1 DEF At, Idle
  <2>9. \A d \in Clerks : At(d, "stored")' => <<"findings">> \in raced'
    <3>1. SUFFICES ASSUME NEW d \in Clerks, At(d, "stored")', <<"findings">> \notin raced
                   PROVE  FALSE
      BY <2>1
    <3>2. At(d, "stored") /\ d # c
      BY <2>8, <3>1
    <3>3. ~At(c, "idle") /\ ~At(d, "idle") /\ <<"findings">> \in req[c].keys
          /\ <<"findings">> \in req[d].keys
      BY <2>1, <2>3, <3>2 DEF FindingInv, At
    <3>. QED
      BY <3>1, <3>2, <3>3, HeldAlone
  <2>10. \A d \in Clerks : At(d, "health")' \/ At(d, "stored")' =>
            /\ req'[d].keys = {<<"findings">>} /\ req'[d].run \in 1..begun'
            /\ Truthful(req[d].findings)'
    BY <1>2, <2>8
  <2>. QED
    BY <2>5, <2>6, <2>7, <2>9, <2>10 DEF FindingInv
<1>. QED
  BY <1>3, <1>4, <1>5, <1>6, FindingSteps DEF DataHealthNext

-----------------------------------------------------------------------------
(* The hierarchy view *)

PlacedInv == \A p \in Ids(property) : Placed(property[p].position)

\* Buildings and floors are only added.
RowsStay ==
    /\ \A b \in Ids(building) : building'[b] = building[b]
    /\ \A f \in Ids(floor) : floor'[f] = floor[f]

LEMMA RowsStayNext == EstateTypeOK /\ [Next]_vars => RowsStay
<1>. SUFFICES ASSUME EstateTypeOK, [Next]_vars PROVE RowsStay
  OBVIOUS
<1>1. UNCHANGED <<building, floor>> => RowsStay
  BY DEF RowsStay
<1>2. CASE AddBuilding
  <2>1. PICK d : building' = Append(building, create_building(d))
    BY <1>2 DEF AddBuilding
  <2>2. building \in Seq(Building) /\ floor' = floor
    BY <1>2 DEF AddBuilding, EstateTypeOK
  <2>. QED
    BY <2>1, <2>2 DEF RowsStay, Ids
<1>3. CASE AddFloor
  <2>1. PICK b : floor' = Append(floor, create_floor(b))
    BY <1>3 DEF AddFloor
  <2>2. floor \in Seq(Floor) /\ building' = building
    BY <1>3 DEF AddFloor, EstateTypeOK
  <2>. QED
    BY <2>1, <2>2 DEF RowsStay, Ids
<1>4. CASE HierarchyNext
  BY <1>1, <1>2, <1>3, <1>4
     DEF HierarchyNext, AddDevelopment, AddProperty, import_property_row, AddSpace
<1>5. CASE RegisterNext
  BY <1>1, <1>5
     DEF RegisterNext, DefectStatusNext, AddExternalReference, AddComponent, import_component_row,
         AddWarranty, VoidWarranty, AddDefect, BeginDefectStatus, UpdateDefectStatus,
         AddBuildingControlRecord, UpdateBuildingControlRecord, AddSurvey, estate
<1>6. CASE HandoverNext
  BY <1>1, <1>6
     DEF HandoverNext, UpdateHandoverReadinessWeight, BeginAuthorise, AuthoriseHandover,
         BeginPropertyStatus, UpdatePropertyStatus, estate
<1>7. CASE DataHealthNext
  BY <1>1, <1>7 DEF DataHealthNext, BeginDataHealth, ReplaceFindings, CommitDataHealth, estate
<1>8. CASE DocumentStep \/ SpecificationStep \/ StillStep
  BY <1>1, <1>8 DEF DocumentStep, SpecificationStep, StillStep, estate
<1>. QED
  BY <1>4, <1>5, <1>6, <1>7, <1>8, Steps DEF EstateStep, HandoverStep

LEMMA PlacedNext ==
  ReqShape /\ EstateInv /\ HandoverTyped /\ PlacedInv /\ [Next]_vars => PlacedInv'
<1>. SUFFICES ASSUME ReqShape, EstateTypeOK, HandoverTyped, PlacedInv, [Next]_vars, RowsStay,
                     NEW p \in Ids(property)'
              PROVE  Placed(property[p].position)'
  BY RowsStayNext DEF EstateInv, PlacedInv
<1>1. ASSUME p \in Ids(property), property'[p].position = property[p].position
      PROVE  Placed(property[p].position)'
  <2>1. PICK at : at = property[p].position
    OBVIOUS
  <2>2. Placed(at) /\ at.floor_id \in Null(floor) /\ at.building_id \in Null(building)
    <3>1. property[p] \in Property
      BY <1>1, TableType DEF EstateTypeOK, Ids
    <3>. QED
      BY <1>1, <2>1, <3>1 DEF PlacedInv, Property
  <2>3. Placed(at)'
    BY <2>2 DEF Placed, RowsStay, Null
  <2>. QED
    BY <1>1, <2>1, <2>3 DEF Placed
<1>2. ASSUME PropertiesGrow, p \notin Ids(property) PROVE Placed(property[p].position)'
  BY <1>2 DEF PropertiesGrow
<1>3. ASSUME NEW c \in Clerks, AuthoriseHandover(c) \/ UpdatePropertyStatus(c)
      PROVE  p \in Ids(property) /\ property'[p].position = property[p].position
  <2>1. Ids(property)' = Ids(property) /\ \A q \in Ids(property) : Stays(q)
    BY <1>3, AuthoriseEffect, StatusEffect
  <2>. QED
    BY <2>1 DEF Stays
<1>4. property' = property => p \in Ids(property) /\ property'[p].position = property[p].position
  BY DEF Ids
<1>5. HandoverNext => p \in Ids(property) /\ property'[p].position = property[p].position
  BY <1>3, <1>4
     DEF HandoverNext, UpdateHandoverReadinessWeight, BeginAuthorise, BeginPropertyStatus, estate
<1>6. PropertiesGrow /\ p \in Ids(property)
         => property'[p].position = property[p].position
  BY DEF PropertiesGrow
<1>. QED
  BY <1>1, <1>2, <1>5, <1>6, PropertySteps

\* The levels of the view count the properties of a development that are not in a building
\* of no development, each at one level.
LEMMA ViewCounts ==
  ASSUME EstateTypeOK, PlacedInv, NEW d \in Developments
  PROVE  LET view     == get_development_hierarchy(d)
             stray(p) == LET b == property[p].position.building_id
                         IN  b # None /\ building[b].development_id = None
         IN  view.floors + view.unfloored + view.unbuilt =
                Cardinality({p \in properties_in_development(d) : ~stray(p)})
<1>. DEFINE B(p) == property[p].position.building_id
            F(p) == property[p].position.floor_id
            D(p) == property[p].position.development_id
            P == Ids(property)
            mine   == {b \in Ids(building) : building[b].development_id = d}
            floors == {f \in Ids(floor) : floor[f].building_id \in mine}
            OnFloor == [f \in floors |-> {p \in P : F(p) = f}]
            Within  == [b \in mine |-> {p \in P : B(p) = b /\ F(p) = None}]
            onFloor == [f \in floors |-> Cardinality(OnFloor[f])]
            within  == [b \in mine |-> Cardinality(Within[b])]
            X == UNION {OnFloor[f] : f \in floors}
            Y == UNION {Within[b] : b \in mine}
            Z == {p \in P : D(p) = d /\ B(p) = None}
            stray(p) == B(p) # None /\ building[B(p)].development_id = None
            view == get_development_hierarchy(d)
<1>1. /\ IsFiniteSet(P) /\ IsFiniteSet(Ids(floor)) /\ IsFiniteSet(Ids(building))
      /\ None \notin Ids(floor) /\ None \notin Ids(building)
  BY TableType DEF EstateTypeOK, Ids, None
<1>2. /\ IsFiniteSet(floors) /\ IsFiniteSet(mine) /\ None \notin floors /\ None \notin mine
  BY <1>1, FS_Subset
<1>3. \A p \in P : /\ B(p) \in Null(building) /\ F(p) \in Null(floor)
                   /\ F(p) # None => floor[F(p)].building_id = B(p)
                   /\ B(p) # None /\ building[B(p)].development_id # None
                         => D(p) = building[B(p)].development_id
  <2>1. \A p \in P : property[p] \in Property
    BY TableType DEF EstateTypeOK, Ids
  <2>. QED
    BY <2>1 DEF Property, PlacedInv, Placed
<1>4. \A f \in Ids(floor) : floor[f].building_id \in Ids(building)
  <2>1. \A f \in Ids(floor) : floor[f] \in Floor
    BY TableType DEF EstateTypeOK, Ids
  <2>. QED
    BY <2>1 DEF Floor
<1>5. d # None
  BY DEF Developments, None, EstateTypeOK
<1>6. /\ view.floors = SumFunctionOnSet(onFloor, floors)
      /\ view.unfloored = SumFunctionOnSet(within, mine)
      /\ view.unbuilt = Cardinality(Z)
  BY DEF get_development_hierarchy
<1>7. {p \in properties_in_development(d) :
         ~(LET b == property[p].position.building_id
           IN  b # None /\ building[b].development_id = None)}
         = {p \in P : /\ \/ D(p) = d \/ B(p) \in mine
                         \/ F(p) # None /\ floor[F(p)].building_id \in mine
                      /\ ~stray(p)}
  BY DEF properties_in_development, BuildingsOf
<1>8. X \union Y \union Z
         = {p \in P : /\ \/ D(p) = d \/ B(p) \in mine
                         \/ F(p) # None /\ floor[F(p)].building_id \in mine
                      /\ ~stray(p)}
  <2>1. ASSUME NEW p \in P, ~stray(p),
               D(p) = d \/ B(p) \in mine \/ (F(p) # None /\ floor[F(p)].building_id \in mine)
        PROVE  p \in X \union Y \union Z
    <3>1. CASE B(p) = None
      <4>1. F(p) = None
        BY <1>1, <1>3, <1>4, <3>1 DEF Null
      <4>2. D(p) = d
        BY <1>2, <2>1, <3>1, <4>1
      <4>. QED
        BY <3>1, <4>2
    <3>2. CASE B(p) # None
      <4>1. B(p) \in Ids(building) /\ building[B(p)].development_id # None
        BY <1>3, <2>1, <3>2 DEF Null
      <4>2. B(p) \in mine
        BY <1>3, <2>1, <3>2, <4>1
      <4>3. CASE F(p) = None
        <5>1. p \in Within[B(p)]
          BY <4>2, <4>3
        <5>. QED
          BY <4>2, <5>1
      <4>4. CASE F(p) # None
        <5>1. F(p) \in floors
          BY <1>3, <4>2, <4>4 DEF Null
        <5>2. p \in OnFloor[F(p)]
          BY <5>1
        <5>. QED
          BY <5>1, <5>2
      <4>. QED
        BY <4>3, <4>4
    <3>. QED
      BY <3>1, <3>2
  <2>2. ASSUME NEW p \in X
        PROVE  /\ p \in P /\ F(p) # None /\ floor[F(p)].building_id \in mine /\ ~stray(p)
    <3>1. PICK f \in floors : p \in OnFloor[f]
      OBVIOUS
    <3>2. p \in P /\ F(p) = f /\ f # None
      BY <1>2, <3>1
    <3>3. floor[f].building_id = B(p) /\ B(p) \in mine
      BY <1>3, <3>1, <3>2
    <3>. QED
      BY <1>5, <3>2, <3>3
  <2>3. ASSUME NEW p \in Y PROVE p \in P /\ B(p) \in mine /\ ~stray(p)
    <3>1. PICK b \in mine : p \in Within[b]
      OBVIOUS
    <3>. QED
      BY <1>5, <3>1
  <2>4. ASSUME NEW p \in Z PROVE p \in P /\ D(p) = d /\ ~stray(p)
    BY <2>4
  <2>. QED
    BY <2>1, <2>2, <2>3, <2>4
<1>9. X \intersect Y = {} /\ (X \union Y) \intersect Z = {}
  <2>1. \A p \in X : F(p) # None /\ B(p) # None
    <3>. TAKE p \in X
    <3>1. PICK f \in floors : p \in OnFloor[f]
      OBVIOUS
    <3>2. p \in P /\ F(p) = f /\ f # None
      BY <1>2, <3>1
    <3>3. floor[f].building_id = B(p) /\ B(p) \in mine
      BY <1>3, <3>1, <3>2
    <3>. QED
      BY <1>2, <3>2, <3>3
  <2>2. \A p \in Y : F(p) = None /\ B(p) # None
    <3>. TAKE p \in Y
    <3>1. PICK b \in mine : p \in Within[b]
      OBVIOUS
    <3>. QED
      BY <1>2, <3>1
  <2>. QED
    BY <2>1, <2>2
<1>10. IsFiniteSet(X) /\ Cardinality(X) = SumFunctionOnSet(onFloor, floors)
  <2>1. \A f \in floors : IsFiniteSet(OnFloor[f]) /\ onFloor[f] = Cardinality(OnFloor[f])
    <3>. TAKE f \in floors
    <3>1. OnFloor[f] \subseteq P /\ onFloor[f] = Cardinality(OnFloor[f])
      OBVIOUS
    <3>. QED
      BY <1>1, <3>1, FS_Subset
  <2>2. \A f, g \in floors : f # g => OnFloor[f] \intersect OnFloor[g] = {}
    OBVIOUS
  <2>3. PICK S, sets, counts : S = floors /\ sets = OnFloor /\ counts = onFloor
    OBVIOUS
  <2>4. X = UNION {sets[i] : i \in S}
    BY <2>3
  <2>5. /\ IsFiniteSet(S)
        /\ \A i \in S : IsFiniteSet(sets[i]) /\ counts[i] = Cardinality(sets[i])
        /\ \A i, j \in S : i # j => sets[i] \intersect sets[j] = {}
    BY <1>2, <2>1, <2>2, <2>3
  <2>. HIDE DEF X
  <2>6. /\ IsFiniteSet(UNION {sets[i] : i \in S})
        /\ Cardinality(UNION {sets[i] : i \in S}) = SumFunctionOnSet(counts, S)
    BY <2>5, SumOfCounts
  <2>. QED
    BY <2>3, <2>4, <2>6
<1>11. IsFiniteSet(Y) /\ Cardinality(Y) = SumFunctionOnSet(within, mine)
  <2>1. \A b \in mine : IsFiniteSet(Within[b]) /\ within[b] = Cardinality(Within[b])
    <3>. TAKE b \in mine
    <3>1. Within[b] \subseteq P /\ within[b] = Cardinality(Within[b])
      OBVIOUS
    <3>. QED
      BY <1>1, <3>1, FS_Subset
  <2>2. \A b, g \in mine : b # g => Within[b] \intersect Within[g] = {}
    OBVIOUS
  <2>3. PICK S, sets, counts : S = mine /\ sets = Within /\ counts = within
    OBVIOUS
  <2>4. Y = UNION {sets[i] : i \in S}
    BY <2>3
  <2>5. /\ IsFiniteSet(S)
        /\ \A i \in S : IsFiniteSet(sets[i]) /\ counts[i] = Cardinality(sets[i])
        /\ \A i, j \in S : i # j => sets[i] \intersect sets[j] = {}
    BY <1>2, <2>1, <2>2, <2>3
  <2>. HIDE DEF Y
  <2>6. /\ IsFiniteSet(UNION {sets[i] : i \in S})
        /\ Cardinality(UNION {sets[i] : i \in S}) = SumFunctionOnSet(counts, S)
    BY <2>5, SumOfCounts
  <2>. QED
    BY <2>3, <2>4, <2>6
<1>12. IsFiniteSet(Z)
  BY <1>1, FS_Subset
<1>. HIDE DEF X, Y, Z, view, onFloor, within, floors, mine
<1>13. Cardinality((X \union Y) \union Z) = Cardinality(X) + Cardinality(Y) + Cardinality(Z)
  <2>1. /\ IsFiniteSet(X \union Y)
        /\ Cardinality(X \union Y) = Cardinality(X) + Cardinality(Y) - Cardinality(X \intersect Y)
    BY <1>10, <1>11, FS_Union
  <2>2. Cardinality((X \union Y) \union Z)
           = Cardinality(X \union Y) + Cardinality(Z) - Cardinality((X \union Y) \intersect Z)
    BY <1>12, <2>1, FS_Union
  <2>3. Cardinality(X) \in Nat /\ Cardinality(Y) \in Nat /\ Cardinality(Z) \in Nat
    BY <1>10, <1>11, <1>12, FS_CardinalityType
  <2>4. Cardinality(X \intersect Y) = 0 /\ Cardinality((X \union Y) \intersect Z) = 0
    BY <1>9, FS_EmptySet
  <2>. QED
    BY <2>1, <2>2, <2>3, <2>4
<1>. QED
  BY <1>6, <1>7, <1>8, <1>10, <1>11, <1>13 DEF view

\* The estate a behaviour starts from has the types of its columns.
LEMMA EstateInitially == Init => EstateInv /\ HandoverTyped /\ MovedInv /\ PlacedInv
<1>. SUFFICES ASSUME Init PROVE EstateInv /\ HandoverTyped /\ MovedInv /\ PlacedInv
  OBVIOUS
<1>1. PICK e : EstateInit(e) /\ Built(e)
  BY DevelopmentAssumption DEF Init
<1>. DEFINE points == [development_id : 0..e.development, building_id : Null(e.building),
                       property_id : Null(e.property)]
            positions == [development_id : 0..e.development, building_id : Null(e.building),
                          floor_id : {None}]
<1>2. /\ e.development \in Nat
      /\ e.building \in Seq([development_id : 0..e.development])
      /\ e.property \in Seq([position : positions, status : PropertyStatus,
                             created_as : PropertyStatus, payload : PropertyPayloads])
      /\ \A p \in Ids(e.property) :
            LET b == e.property[p].position.building_id
            IN  /\ e.property[p].status = e.property[p].created_as
                /\ b # None => e.building[b].development_id
                                 \in {None, e.property[p].position.development_id}
      /\ e.component \in Seq([at : points, space_id : {None},
                              parent_component_id : Null(e.component), payload : ComponentPayloads])
      /\ e.warranty \in Seq([at : points, component_id : Null(e.component),
                             status : WarrantyStatus])
      /\ e.defect \in Seq([at : points, component_id : Null(e.component),
                           status : DefectStatus, completion_date : Days \union {None}])
      /\ \A r \in e.reference : r.reference_type \in ReferenceTypes /\ r.value \in ReferenceValues
  BY <1>1 DEF Built
<1>3. /\ development = e.development /\ building = e.building /\ floor = <<>>
      /\ property = e.property /\ space = <<>> /\ component = e.component
      /\ warranty = e.warranty /\ defect = e.defect /\ control_record = <<>> /\ survey = <<>>
      /\ reference = e.reference
  BY <1>1 DEF EstateInit
<1>4. /\ positions \subseteq [development_id : 0..development, building_id : Null(building),
                              floor_id : Null(floor)]
      /\ points = AttachmentIds
  BY <1>3 DEF Null, AttachmentIds
<1>. HIDE DEF points, positions
<1>5. building \in Seq(Building)
  BY <1>2, <1>3 DEF Building
<1>6. property \in Seq(Property)
  <2>1. [position : positions, status : PropertyStatus, created_as : PropertyStatus,
         payload : PropertyPayloads] \subseteq Property
    BY <1>4 DEF Property
  <2>. QED
    BY <1>2, <1>3, <2>1, WiderRows
<1>7. component \in Seq(Component)
  <2>1. [at : points, space_id : {None}, parent_component_id : Null(e.component),
         payload : ComponentPayloads] \subseteq Component
    BY <1>3, <1>4 DEF Component, Null
  <2>. QED
    BY <1>2, <1>3, <2>1, WiderRows
<1>8. warranty \in Seq(Warranty) /\ defect \in Seq(Defect)
  BY <1>2, <1>3, <1>4 DEF Warranty, Defect
<1>9. EstateTypeOK
  BY <1>2, <1>3, <1>5, <1>6, <1>7, <1>8 DEF EstateTypeOK
<1>10. req = [c \in Clerks |-> Idle]
  BY DEF Init, RequestsInit
<1>11. HandoverTyped
  <2>1. DEFAULT_CHECK_WEIGHTS \in [CheckCodes -> Int]
    BY HandoverAssumption DEF DEFAULT_CHECK_WEIGHTS, CheckCodes
  <2>. QED
    BY <1>10, <2>1 DEF Init, HandoverInit, HandoverTyped, At, Idle
<1>12. MovedInv
  <2>1. ASSUME NEW p \in Ids(property) PROVE Evidenced(p)
    <3>1. handover_record = <<>> /\ trail = <<>> /\ property[p].status = property[p].created_as
      BY <1>2, <1>3 DEF Init, HandoverInit
    <3>2. About(handover_record, p) = {} /\ About(trail, p) = {}
      BY <3>1 DEF About
    <3>3. Handed(trail, p) = {}
      BY <3>2 DEF Handed
    <3>. QED
      BY <3>1, <3>2, <3>3 DEF Evidenced, Leads, Left
  <2>. QED
    BY <1>10, <2>1 DEF MovedInv, At, Idle
<1>13. PlacedInv
  <2>1. ASSUME NEW p \in Ids(property) PROVE Placed(property[p].position)
    <3>1. property[p].position \in positions
      <4>1. e.property[p] \in [position : positions, status : PropertyStatus,
                              created_as : PropertyStatus, payload : PropertyPayloads]
        BY <1>2, <1>3, TableType DEF Ids
      <4>. QED
        BY <1>3, <4>1
    <3>2. property[p].position.floor_id = None
      BY <3>1 DEF positions
    <3>. QED
      BY <1>2, <1>3, <3>2 DEF Placed
  <2>. QED
    BY <2>1 DEF PlacedInv
<1>. QED
  BY <1>9, <1>10, <1>11, <1>12, <1>13 DEF EstateInv, DefectHeld, At, Idle

-----------------------------------------------------------------------------
(* The estate, handover and data health *)

EstateAllInv ==
    /\ ReqShape /\ KeyInv /\ EstateInv /\ HandoverTyped /\ MovedInv
    /\ FindingInv /\ PlacedInv

LEMMA EstateInvariant == Spec => []EstateAllInv
<1>1. Init => EstateAllInv
  <2>1. Init => FindingInv
    <3>. SUFFICES ASSUME Init PROVE FindingInv
      OBVIOUS
    <3>1. finding = {} /\ req = [c \in Clerks |-> Idle]
      BY DEF Init, DataHealthInit, RequestsInit
    <3>2. {r.run : r \in finding} = {} /\ {r.finding : r \in finding} = {}
      BY <3>1
    <3>3. Cardinality({r.run : r \in finding}) <= 1
      BY <3>2, FS_EmptySet
    <3>. QED
      BY <3>1, <3>2, <3>3 DEF FindingInv, Truthful, At, Idle
  <2>. QED
    BY <2>1, ShapeInit, EstateInitially DEF EstateAllInv
<1>2. EstateAllInv /\ [Next]_vars => EstateAllInv'
  BY ShapeNext, KeyNext, EstateNext, HandoverTypedNext, MovedNext, FindingNext, PlacedNext
     DEF EstateAllInv
<1>. QED
  BY <1>1, <1>2, PTL DEF Spec

\* A property is handed over with a record or not at all, each handover has one event and
\* one record, and its events lead from one status to the next, unless two requests held it.
THEOREM DevelopmentEvidence == Spec => []HandoverIsEvidenced
<1>1. EstateAllInv => HandoverIsEvidenced
  <2>. SUFFICES ASSUME MovedInv, NEW p \in Ids(property)
       PROVE  LET events     == {n \in DOMAIN trail : trail[n].property_id = p}
                  records    == {n \in DOMAIN handover_record : handover_record[n].property_id = p}
                  handed     == {n \in events : trail[n].after = "HANDED_OVER"}
                  L(n)           == IF n = 0 THEN property[p].created_as ELSE trail[n].after
                  Precedes(m, n) == m < n /\ \A k \in events : k <= m \/ n <= k
              IN  /\ property[p].status = "HANDED_OVER" =>
                        records # {} \/ property[p].created_as = "HANDED_OVER"
                  /\ Cardinality(handed) = Cardinality(records)
                  /\ \/ <<"property", p>> \in raced
                     \/ \A m \in events \union {0} :
                           /\ \A n \in events : Precedes(m, n) => trail[n].before = L(m)
                           /\ (\A n \in events : n <= m) => property[p].status = L(m)
    BY DEF EstateAllInv, HandoverIsEvidenced
  <2>1. Evidenced(p)
    BY DEF MovedInv
  <2>. QED
    BY <2>1 DEF Evidenced, About, Handed, Leads, Left
<1>. QED
  BY <1>1, EstateInvariant, PTL

\* "Full readiness (or an explicit permitted override)": for any weights and any number of
\* rows, a handover record without an override was authorised on checks that lost nothing
\* of their total weight that shows in the score.
THEOREM DevelopmentReadiness == Spec => []FullReadinessOrOverride
<1>1. EstateAllInv => FullReadinessOrOverride
  <2>. SUFFICES ASSUME HandoverTyped, NEW n \in DOMAIN handover_record
       PROVE  LET grounds == handover_record[n].grounds
              IN  grounds.override_reason \/ Suffices(grounds.readiness_snapshot)
    BY DEF EstateAllInv, FullReadinessOrOverride, Suffices, Lost
  <2>1. handover_record[n] \in HandoverRecord
    BY TableType DEF HandoverTyped
  <2>2. handover_record[n].grounds \in Grounds
    BY <2>1 DEF HandoverRecord
  <2>. QED
    BY <2>2 DEF Grounds
<1>. QED
  BY <1>1, EstateInvariant, PTL

\* Unless two runs of the rules overlapped the stored findings are those of one run; a
\* property said to lack handover information was created as handed over.
THEOREM DevelopmentFindings == Spec => []FindingsOfOneRun
<1>1. EstateAllInv => FindingsOfOneRun
  <2>. SUFFICES ASSUME FindingInv, NEW r \in finding, r.finding[1] = "MISSING_HANDOVER_INFORMATION"
                PROVE  property[r.finding[3]].created_as = "HANDED_OVER"
    BY DEF EstateAllInv, FindingInv, FindingsOfOneRun
  <2>. QED
    BY DEF FindingInv, Truthful
<1>. QED
  BY <1>1, EstateInvariant, PTL

\* The hierarchy view counts each property of a development once, at one level.
THEOREM DevelopmentView == Spec => []ViewCountsEveryProperty
<1>1. EstateAllInv => ViewCountsEveryProperty
  BY ViewCounts DEF EstateAllInv, EstateInv, ViewCountsEveryProperty
<1>. QED
  BY <1>1, EstateInvariant, PTL

\* Every row that the requests of the development domain write has the types of its columns,
\* and what it refers to is there.
THEOREM DevelopmentTyping == Spec => []TypeOK
<1>1. EstateAllInv /\ RevisionsInv => TypeOK
  <2>. SUFFICES ASSUME EstateAllInv, RevisionsInv PROVE TypeOK
    OBVIOUS
  <2>1. RequestsOK
    BY DEF EstateAllInv, ReqShape
  <2>2. EstateTypeOK
    BY DEF EstateAllInv, EstateInv
  <2>3. RevisionsTypeOK
    BY DEF RevisionsInv, DocumentTyped, SpecificationTyped, RevisionsTypeOK
  <2>4. HandoverTypeOK
    <3>1. /\ weight \in [CheckCodes -> Int]
          /\ \A n \in DOMAIN handover_record :
                handover_record[n] \in HandoverRecord
                /\ handover_record[n].property_id \in Ids(property)
          /\ \A n \in DOMAIN trail : trail[n] \in Event
      BY TableType DEF EstateAllInv, HandoverTyped
    <3>2. \A g \in Grounds :
             /\ g.readiness_score_pct \in Int
             /\ NoneNegative(g.readiness_snapshot.weight)
                   => g.readiness_score_pct \in 0..HANDOVER_READINESS_THRESHOLD_PCT
      BY DEF Grounds
    <3>. QED
      BY <3>1, <3>2 DEF HandoverTypeOK, HandoverRecord, Event
  <2>5. \A r \in finding : r.run \in 1..begun
    BY DEF EstateAllInv, FindingInv
  <2>. QED
    BY <2>1, <2>2, <2>3, <2>4, <2>5 DEF TypeOK
<1>. QED
  BY <1>1, EstateInvariant, RevisionsInvariant, PTL
=============================================================================

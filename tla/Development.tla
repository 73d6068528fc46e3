---------------------------- MODULE Development -----------------------------
(***************************************************************************)
(* The development domain of one organisation: the hierarchy, the          *)
(* registers, the revisions, handover and data health over the same        *)
(* requests.  A behaviour follows one group of requests, `focus`; the      *)
(* groups that read what others write take those requests in as well.      *)
(***************************************************************************)
EXTENDS DataHealth

CONSTANTS
    MaxRequests,   \* bound: requests begun in a behaviour, by the group followed
    Estates        \* the estates it may start from, by the group followed

ASSUME DevelopmentAssumption ==
    \A group \in DOMAIN MaxRequests : \A e \in Estates[group] : Built(e) /\ Uploaded(e.document)

VARIABLE focus    \* the group of requests this behaviour follows

vars == <<estate, revisions, handovers, finding, requests, focus>>

Init ==
    /\ focus \in DOMAIN MaxRequests
    /\ \E e \in Estates[focus] : EstateInit(e) /\ RevisionsInit(e.document)
    /\ RequestsInit /\ HandoverInit /\ DataHealthInit

Bounded == begun' <= MaxRequests[focus] /\ UNCHANGED focus

Next ==
    \/ /\ focus = "hierarchy" /\ HierarchyNext /\ Bounded
       /\ UNCHANGED <<revisions, handovers, finding>>
    \/ /\ focus = "documents" /\ DocumentsNext /\ Bounded
       /\ UNCHANGED <<estate, handovers, finding>>
    \/ /\ focus = "specifications" /\ SpecificationsNext /\ Bounded
       /\ UNCHANGED <<estate, handovers, finding>>
    \/ /\ focus \in {"register", "handover", "health"} /\ HandoverNext /\ Bounded
       /\ UNCHANGED finding
    \/ /\ focus = "register" /\ RegisterNext /\ Bounded
       /\ UNCHANGED <<revisions, handovers, finding>>
    \/ /\ focus = "handover" /\ Upload /\ Bounded
       /\ UNCHANGED <<estate, handovers, finding>>
    \/ /\ focus = "handover" /\ DefectStatusNext /\ Bounded
       /\ UNCHANGED <<revisions, handovers, finding>>
    \/ /\ focus \in {"register", "health"} /\ DataHealthNext /\ Bounded
    \/ /\ focus \in {"register", "handover"} /\ NextDay
       /\ UNCHANGED <<estate, revisions, handovers, finding, focus>>

Spec == Init /\ [][Next]_vars

\* Every row has the types of its columns.
TypeOK ==
    /\ RequestsOK /\ EstateTypeOK /\ RevisionsTypeOK /\ HandoverTypeOK
    /\ \A r \in finding : r.run \in 1..begun
=============================================================================

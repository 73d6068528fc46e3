----------------------------- MODULE Revisions ------------------------------
(***************************************************************************)
(* What may be superseded but never overwritten: documents, specifications *)
(* and the change controls that revise a specification.                    *)
(*                                                                         *)
(* Rows are sequences in commit order and a row's id is its position.  A   *)
(* specification's title, description and component type are one value,    *)
(* `text`, and stand beside its effective date.  Revision labels are free  *)
(* text and are left out, and so is the date a revision was superseded.    *)
(***************************************************************************)
EXTENDS Requests

CONSTANTS
    Texts,           \* what a specification may say
    Unchanged,       \* a proposed text that names no field
    EffectiveDates,  \* dates a specification may take effect on
    Related,         \* what they are about: <<"component", 1>>, ...
    DocumentTypes,   \* kinds of document
    Checksums,       \* what the files say
    Uploads,         \* bound: what is uploaded first, as <<entity, type>>
    Specified,       \* bound: what specifications are added, as <<entity, content>>
    Proposed         \* bound: what revisions and proposed changes give

Contents  == [text : Texts, effective_date : EffectiveDates \union {None}]
Proposals == [text : Texts \union {Unchanged}, effective_date : EffectiveDates \union {None}]

ASSUME RevisionsAssumption ==
    /\ Uploads \subseteq Related \X DocumentTypes
    /\ Specified \subseteq Related \X Contents /\ Proposed \subseteq Proposals

VARIABLES
    document,        \* documents
    stored,          \* keys of the files in document storage
    specification,   \* specifications
    change           \* change_controls

revisions == <<document, stored, specification, change>>

DocumentStatus == {"ACTIVE", "SUPERSEDED"}
Document ==
    [lineage_id : Nat \ {0}, document_reference : Nat \ {0}, status : DocumentStatus,
     superseded_by_document_id : Nat, related_entity : Related, document_type : DocumentTypes,
     storage_key : Int, checksum : Checksums]
SpecificationStatus == {"ACTIVE", "SUPERSEDED"}
Specification ==
    [lineage_id : Nat \ {0}, content : Contents, status : SpecificationStatus,
     related_entity : Related, approved : BOOLEAN]
ChangeControlStatus ==
    {"PROPOSED", "UNDER_REVIEW", "APPROVED", "REJECTED", "IMPLEMENTED", "CANCELLED"}
ChangeControl ==
    [specification_id : Nat \ {0}, related_entity : Related, previous_value : Contents,
     proposed_value : Proposals, status : ChangeControlStatus,
     implemented_specification_id : Nat]

\* The row that follows those of a table gets the next id.
NextId(table) == Len(table) + 1

Versions(table, lineage) == {i \in DOMAIN table : table[i].lineage_id = lineage}
Lineages(table)          == {table[i].lineage_id : i \in DOMAIN table}

-----------------------------------------------------------------------------
(* Documents *)

\* Mutant: the file is left for later.
save_later(key) == stored

save(key) == stored \union {key}

next_document_reference == Len(document) + 1

\* The file is saved, and the reference counted, before the row is committed.
BeginUpload(c) ==
    /\ \E u \in Uploads, sum \in Checksums :
          Hold(c, [pc |-> "upload", keys |-> {<<"documents">>}, related_entity |-> u[1],
                   document_type |-> u[2], document_reference |-> next_document_reference,
                   storage_key |-> begun + 1, checksum |-> sum])
    /\ stored' = save(begun + 1)
    /\ UNCHANGED <<document, specification, change>>

UploadDocument(c) ==
    /\ At(c, "upload")
    /\ document' = Append(document,
          [lineage_id |-> NextId(document), document_reference |-> req[c].document_reference,
           status |-> "ACTIVE", superseded_by_document_id |-> None,
           related_entity |-> req[c].related_entity, document_type |-> req[c].document_type,
           storage_key |-> req[c].storage_key, checksum |-> req[c].checksum])
    /\ End(c)
    /\ UNCHANGED <<stored, specification, change>>

\* Mutant: a version may be uploaded over any row of the lineage.
AnyDocument(i) == TRUE

Replaceable(i) == document[i].status # "SUPERSEDED"

BeginVersion(c) ==
    /\ \E i \in DOMAIN document, sum \in Checksums :
          /\ Replaceable(i)
          /\ Hold(c, [pc |-> "version", keys |-> {<<"document", i>>}, id |-> i,
                      storage_key |-> begun + 1, checksum |-> sum])
    /\ stored' = save(begun + 1)
    /\ UNCHANGED <<document, specification, change>>

UploadNewVersion(c) ==
    /\ At(c, "version")
    /\ LET i == req[c].id IN
          document' = Append([document EXCEPT ![i].status = "SUPERSEDED",
                                              ![i].superseded_by_document_id = NextId(document)],
                             [document[i] EXCEPT !.status = "ACTIVE",
                                                 !.superseded_by_document_id = None,
                                                 !.storage_key = req[c].storage_key,
                                                 !.checksum = req[c].checksum])
    /\ End(c)
    /\ UNCHANGED <<stored, specification, change>>

list_documents(e) ==
    {i \in DOMAIN document : document[i].related_entity = e /\ document[i].status # "SUPERSEDED"}

-----------------------------------------------------------------------------
(* Specifications *)

create_specification(e, content) ==
    [lineage_id |-> NextId(specification), content |-> content, status |-> "ACTIVE",
     related_entity |-> e, approved |-> FALSE]

AddSpecification ==
    /\ Once
    /\ \E x \in Specified :
          specification' = Append(specification, create_specification(x[1], x[2]))
    /\ UNCHANGED <<document, stored, change>>

Current(s) == specification[s].status # "SUPERSEDED"

\* A text that is not given is that of the previous revision; a date that is not given is
\* none, whatever the previous revision had.
Revised(content, given) ==
    [text           |-> IF given.text = Unchanged THEN content.text ELSE given.text,
     effective_date |-> given.effective_date]

create_specification_revision(s, given) ==
    Append([specification EXCEPT ![s].status = "SUPERSEDED"],
           [specification[s] EXCEPT !.content  = Revised(@, given),
                                    !.status   = "ACTIVE",
                                    !.approved = FALSE])

BeginRevision(c) ==
    /\ \E s \in DOMAIN specification, given \in Proposed :
          /\ Current(s)
          /\ Hold(c, [pc |-> "revise", keys |-> {<<"specification", s>>}, id |-> s,
                      given |-> given])
    /\ UNCHANGED revisions

AddSpecificationRevision(c) ==
    /\ At(c, "revise")
    /\ specification' = create_specification_revision(req[c].id, req[c].given)
    /\ End(c)
    /\ UNCHANGED <<document, stored, change>>

approve_specification(s) == [specification EXCEPT ![s].approved = TRUE]

\* Any revision may be approved, a superseded one included.
ApproveSpecification ==
    /\ Once
    /\ \E s \in DOMAIN specification :
          specification' = approve_specification(s)
    /\ UNCHANGED <<document, stored, change>>

current_specifications(e) ==
    {s \in DOMAIN specification : specification[s].related_entity = e /\ Current(s)}
changes_for(e) == {k \in DOMAIN change : change[k].related_entity = e}

-----------------------------------------------------------------------------
(* Change controls *)

\* The fields a change control remembers are those of the content.
_specification_snapshot(s) == specification[s].content

submit_change_control(s, proposed) ==
    [specification_id |-> s, related_entity |-> specification[s].related_entity,
     previous_value |-> _specification_snapshot(s), proposed_value |-> proposed,
     status |-> "PROPOSED", implemented_specification_id |-> None]

\* previous_value is what the specification said when the request loaded it.
BeginSubmit(c) ==
    /\ \E s \in DOMAIN specification, proposed \in Proposed :
          /\ Current(s)
          /\ Hold(c, [pc |-> "submit", keys |-> {<<"proposal", s>>},
                      row |-> submit_change_control(s, proposed)])
    /\ UNCHANGED revisions

SubmitChangeControl(c) ==
    /\ At(c, "submit")
    /\ change' = Append(change, req[c].row)
    /\ End(c)
    /\ UNCHANGED <<document, stored, specification>>

\* The statuses each request accepts, by the status it leaves.
AllowedFrom ==
    [UNDER_REVIEW |-> {"PROPOSED"},
     APPROVED     |-> {"PROPOSED", "UNDER_REVIEW"},
     REJECTED     |-> {"PROPOSED", "UNDER_REVIEW"},
     CANCELLED    |-> {"PROPOSED", "UNDER_REVIEW", "APPROVED"},
     IMPLEMENTED  |-> {"APPROVED"}]

_require_change_control_transition(k, to) == change[k].status \in AllowedFrom[to]

BeginChangeStatus(c) ==
    /\ \E k \in DOMAIN change, to \in DOMAIN AllowedFrom \ {"IMPLEMENTED"} :
          /\ _require_change_control_transition(k, to)
          /\ Hold(c, [pc |-> "change", keys |-> {<<"change", k>>}, id |-> k, to |-> to])
    /\ UNCHANGED revisions

\* start_change_control_review, approve_, reject_ and cancel_change_control.
MoveChangeControl(c) ==
    /\ At(c, "change")
    /\ change' = [change EXCEPT ![req[c].id].status = req[c].to]
    /\ End(c)
    /\ UNCHANGED <<document, stored, specification>>

BeginImplement(c) ==
    /\ \E k \in DOMAIN change :
          LET s == change[k].specification_id IN
          /\ _require_change_control_transition(k, "IMPLEMENTED")
          /\ Current(s)
          /\ Hold(c, [pc |-> "implement", keys |-> {<<"change", k>>, <<"specification", s>>},
                      id |-> k])
    /\ UNCHANGED revisions

\* Mutant: the change keeps naming the revision it was proposed against.
implemented_in_place(k) == change[k].specification_id

implemented_specification(k) == NextId(specification)

implement_change_control(k) ==
    /\ specification' = create_specification_revision(change[k].specification_id,
                                                      change[k].proposed_value)
    /\ change' = [change EXCEPT ![k].status = "IMPLEMENTED",
                                ![k].implemented_specification_id = implemented_specification(k)]

ImplementChangeControl(c) ==
    /\ At(c, "implement")
    /\ implement_change_control(req[c].id)
    /\ End(c)
    /\ UNCHANGED <<document, stored>>

-----------------------------------------------------------------------------
\* A behaviour starts with documents that earlier requests have uploaded.
Uploaded(documents) ==
    /\ documents \in Seq(Document)
    /\ \A i \in DOMAIN documents :
          /\ documents[i].lineage_id = i /\ documents[i].document_reference = i
          /\ documents[i].status = "ACTIVE"

RevisionsInit(documents) ==
    /\ document = documents /\ stored = {documents[i].storage_key : i \in DOMAIN documents}
    /\ specification = <<>> /\ change = <<>>

Upload == \E c \in Clerks : BeginUpload(c) \/ UploadDocument(c)

DocumentsNext ==
    \/ Upload
    \/ \E c \in Clerks : BeginVersion(c) \/ UploadNewVersion(c)

SpecificationsNext ==
    \/ AddSpecification
    \/ ApproveSpecification
    \/ \E c \in Clerks :
          \/ BeginRevision(c)     \/ AddSpecificationRevision(c)
          \/ BeginSubmit(c)       \/ SubmitChangeControl(c)
          \/ BeginChangeStatus(c) \/ MoveChangeControl(c)
          \/ BeginImplement(c)    \/ ImplementChangeControl(c)

RevisionsTypeOK ==
    /\ document \in Seq(Document) /\ specification \in Seq(Specification)
    /\ change \in Seq(ChangeControl)
    /\ \A i \in DOMAIN document : document[i].storage_key \in stored

-----------------------------------------------------------------------------
\* Every lineage of documents, and of specifications, has exactly one row that is not
\* superseded, and two documents never share a reference, unless two requests held the
\* row that was replaced, or two uploads counted the documents, at once: nothing is locked.
OneCurrentRevision ==
    LET Forked(key, table, l) == \E i \in Versions(table, l) : <<key, i>> \in raced
        One(key, table, current) ==
           \A l \in Lineages(table) :
              Forked(key, table, l) \/ Cardinality(Versions(table, l) \intersect current) = 1
    IN  /\ One("document", document, UNION {list_documents(e) : e \in Related})
        /\ One("specification", specification, UNION {current_specifications(e) : e \in Related})
        /\ \/ <<"documents">> \in raced
           \/ \A i, j \in DOMAIN document :
                 document[i].document_reference = document[j].document_reference
                    => document[i].lineage_id = document[j].lineage_id

\* The history of a specification can be read from its change controls.  A change that
\* has been implemented names a revision of its own, in the lineage and about the entity
\* it was proposed for, that says what was proposed, takes effect on the date proposed and
\* on none when none was, and says for the rest what it replaced; that is superseded and
\* still says what the change recorded as previous, its effective date included.  Only a cancellation that overlapped
\* the implementation leaves a revision to a change that is not IMPLEMENTED.
ChangeTrailAccurate ==
    \A e \in Related : \A k \in changes_for(e) :
       LET from == specification[change[k].specification_id]
           n    == change[k].implemented_specification_id
       IN  /\ from.content = change[k].previous_value
           /\ change[k].status = "IMPLEMENTED" => n # None
           /\ n # None =>
                 /\ from.status = "SUPERSEDED"
                 /\ specification[n].lineage_id = from.lineage_id
                 /\ specification[n].related_entity = e
                 /\ specification[n].content.effective_date
                       = change[k].proposed_value.effective_date
                 /\ specification[n].content.text = IF change[k].proposed_value.text = Unchanged
                                                    THEN from.content.text
                                                    ELSE change[k].proposed_value.text
                 /\ change[k].status = "IMPLEMENTED" \/ <<"change", k>> \in raced
                 /\ \A other \in DOMAIN change :
                       change[other].implemented_specification_id = n => other = k
=============================================================================

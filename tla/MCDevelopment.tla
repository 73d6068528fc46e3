--------------------------- MODULE MCDevelopment ----------------------------
(* Two requests at a time, from an empty estate and from two half-built ones. *)
EXTENDS Development
CONSTANTS c1, c2

Flat(address) == [address |-> address, property_type |-> "FLAT", postcode |-> NotGiven]
MCPropertyPayloads == {Flat("1 High St")}
Boiler == [component_type |-> "BOILERS", make |-> "Vaillant", installation_date |-> 1]
MCComponentPayloads == {Boiler}

MCRelated == {<<"component", 1>>, <<"component", 2>>, <<"development", 1>>}
MCUploads == {<<<<"component", 1>>, "CERTIFICATE">>}

\* A specification dated from the start; what is given later names a text, a date, neither
\* or both.
Says(text, date) == [text |-> text, effective_date |-> date]
MCSpecified == {<<<<"component", 1>>, Says("v1", 1)>>}
MCProposed == {Says("v2", None), Says("unchanged", 1), Says("unchanged", None), Says("v2", 1)}

NoRows == <<>>
Empty ==
    [development |-> 0, building |-> NoRows, property |-> NoRows, component |-> NoRows,
     warranty |-> NoRows, defect |-> NoRows, reference |-> {}, document |-> NoRows]


At1(d, b, p) == [development_id |-> d, building_id |-> b, property_id |-> p]
MCPoints == {At1(None, None, None), At1(1, None, None), At1(None, 1, None), At1(None, None, 1)}

\* Two flats of one building: complete but for the certificate of the boiler of flat 1,
\* which flat 2 shares; `as` is the status flat 2 was created with.
HalfBuilt(as) ==
    LET Flat2(status) == [position   |-> [development_id |-> 1, building_id |-> 1, floor_id |-> None],
                          status     |-> status, created_as |-> status,
                          payload    |-> Flat("1 High St")]
        Doc(id, e, type) == [lineage_id |-> id, document_reference |-> id, status |-> "ACTIVE",
                             superseded_by_document_id |-> None, related_entity |-> e,
                             document_type |-> type, storage_key |-> -id, checksum |-> "k1"]
        Ref(e, type) == [entity |-> e, reference_type |-> type, value |-> "r1"]
    IN  [development |-> 1, building |-> <<[development_id |-> 1]>>,
         property  |-> <<Flat2("READY_FOR_HANDOVER"), Flat2(as)>>,
         component |-> [i \in 1..2 |-> [at |-> At1(None, None, i), space_id |-> None,
                                        parent_component_id |-> None, payload |-> Boiler]],
         warranty  |-> [i \in 1..2 |-> [at |-> At1(None, None, None), component_id |-> i,
                                        status |-> "ACTIVE"]],
         defect    |-> <<[at |-> At1(None, None, 2), component_id |-> 2,
                          status |-> "READY_FOR_INSPECTION", completion_date |-> None]>>,
         reference |-> {Ref(<<"building", 1>>, "BUILDING_CONTROL_REFERENCE")}
                       \union {Ref(<<"component", i>>, "MANUFACTURER_SERIAL_NUMBER") : i \in 1..2},
         document  |-> <<Doc(1, <<"component", 1>>, "COMMISSIONING"),
                         Doc(2, <<"component", 2>>, "COMMISSIONING"),
                         Doc(3, <<"component", 2>>, "CERTIFICATE"),
                         Doc(4, <<"development", 1>>, "O&M")>>]
\* Of 2000 units in all: a loss that does not show, one that makes up for another, and a
\* total of nothing.
MCCheckWeights == {<<"CERTIFICATES_RECEIVED", w>> : w \in {0, 1, -300, -1700}}

MCEstates ==
    [hierarchy |-> {Empty}, documents |-> {Empty}, specifications |-> {Empty},
     register  |-> {HalfBuilt("OPERATIONAL")},
     handover  |-> {HalfBuilt("READY_FOR_HANDOVER"), HalfBuilt("HANDED_OVER")},
     health    |-> {HalfBuilt("HANDED_OVER")}]

MCMaxRequests ==
    [hierarchy |-> 5, documents |-> 5, specifications |-> 5, register |-> 2, handover |-> 4, health |-> 3]
MCClerks == {c1, c2}
Symmetry == Permutations(MCClerks)
=============================================================================

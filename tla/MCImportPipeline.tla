--------------------------- MODULE MCImportPipeline ---------------------------
(***************************************************************************)
(* Instances of ImportPipeline for TLC.                                    *)
(***************************************************************************)
EXTENDS ImportPipeline

CONSTANTS alice, bob

\* The third row of the first dataset has the wrong number of cells.
OneRagged == {<<1, 3>>}

\* A row of the first dataset holds a value that its column cannot.
OnePoison == {<<1, 1>>}
=============================================================================

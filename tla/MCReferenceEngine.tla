-------------------------- MODULE MCReferenceEngine --------------------------
(***************************************************************************)
(* Instances of ReferenceEngine for TLC.                                   *)
(***************************************************************************)
EXTENDS ReferenceEngine

CONSTANTS r1, r2, r3, e1, e2, e3

\* Type 1 may be given a pattern that does not render, type 2 another one that does.
Given == {<<1, 0>>, <<1, 1>>, <<2, 2>>}
AnyFormat == Types \X Formats

\* Eleven keys, for two patterns that can render the same reference.
ElevenIds == 1..11
=============================================================================

-------------------------- MODULE MCAttentionEngine --------------------------
(***************************************************************************)
(* Instances of AttentionEngine for TLC: the nightly job and a manual      *)
(* scan, two users, and as many signal ids as the bounded scans can draw.  *)
(***************************************************************************)
EXTENDS AttentionEngine, TLC

CONSTANTS nightly, manual, alice, bob, e1, s1, s2, s3

\* Signal ids are interchangeable, and so are the scanners: for the run that
\* checks safety only.
Symmetry == Permutations({s1, s2}) \union Permutations({nightly, manual})
=============================================================================

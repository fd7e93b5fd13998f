---------------------------- MODULE MCStateStream ----------------------------
(***************************************************************************)
(* A terminal of two rows, in two sizes.  Rows and glyphs are only ever    *)
(* compared, and every property is an invariant, so both are symmetric.    *)
(***************************************************************************)
EXTENDS StateStream, TLC

Sizes == {[epochs |-> e, labels |-> "title"] : e \in {1, 2}}
Symmetry == Permutations(Rows) \cup Permutations(Glyphs)
=============================================================================

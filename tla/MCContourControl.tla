------------------------- MODULE MCContourControl -------------------------
(* Instances of ContourControl for TLC. *)
EXTENDS ContourControl, TLC

Symmetry == Permutations(Keys)
=============================================================================

------------------------- MODULE MCStructuralIndex -------------------------
(* Small instance of StructuralIndex for TLC.                               *)
EXTENDS StructuralIndex, TLC

CONSTANTS a, b, blank, bad

MCVersions == {a, b, blank, bad}
MCSymmetry == Permutations({a, b}) \cup Permutations(Paths)
=============================================================================

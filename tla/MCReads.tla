----------------------------- MODULE MCReads -----------------------------
(* Small instances of Reads for TLC.                                        *)
EXTENDS Reads, TLC

CONSTANTS a1, b1

(* A file that comes or goes.                                               *)
MCVersions  == {a1, b1}
MCSnapshots == {{a1}, {a1, b1}}

(* Generations are interchangeable, and so are models.                       *)
MCSymmetry == Permutations(Gens) \cup Permutations(Models)
=============================================================================

------------------------ MODULE MCIndexActivation ------------------------
(* Small instances of IndexActivation for TLC.                              *)
EXTENDS IndexActivation, TLC

CONSTANTS a1, a2, b1   \* two versions of one file, and another file

(* A file edited, and another added: the incremental plan reuses b1 or a1.  *)
MCVersions  == {a1, a2, b1}
MCSnapshots == {{a1}, {a1, b1}, {a2, b1}}

(* Generations are interchangeable; safety runs only.                        *)
GenSymmetry == Permutations(Gens)
=============================================================================

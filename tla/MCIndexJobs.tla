---------------------------- MODULE MCIndexJobs ----------------------------
(* Small instances of IndexJobs for TLC.                                    *)
EXTENDS IndexJobs, TLC

(* Requests are interchangeable; safety runs only.                           *)
RequestSymmetry == Permutations(Requests)
=============================================================================

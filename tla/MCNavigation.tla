---------------------------- MODULE MCNavigation ----------------------------
(* Small instance of Navigation for TLC.                                    *)
EXTENDS Navigation, TLC

CONSTANTS p, q, a, b

(* Version b has another function before the one of version a.              *)
MCDefs == (a :> <<"f">>) @@ (b :> <<"g", "f">>)

(* One project of two files and one of a single file.                       *)
MCTrees == {(p :> (1 :> a @@ 2 :> b)) @@ (q :> (1 :> a @@ 2 :> Absent))}
=============================================================================

-------------------------- MODULE MCVectorIndexing --------------------------
(* Small instances of VectorIndexing for TLC.                               *)
EXTENDS VectorIndexing, TLC

CONSTANTS m1, m2, m3, s1

(* A chunk of four lines, whose bisection has two levels, among chunks that  *)
(* cannot be compacted.                                                      *)
MCLines == <<1, 4, 1, 1>>

(* The provider takes all but one chunk whole, or all but some neighbours.   *)
Short(l)  == {c \in Chunks : l[c] < Lines[c]}
MCLimits  == {l \in [Chunks -> 0..MaxLines] :
                /\ \A c \in Chunks : l[c] <= Lines[c]
                /\ Cardinality(Short(l)) <= 1 \/ l \in {<<0, 2, 1, 1>>, <<1, 2, 0, 1>>, <<1, 0, 1, 0>>}}

(* Two models of one dimension and one of another.                           *)
MCModels == {m1, m2, m3}
MCDim    == m1 :> 1 @@ m2 :> 1 @@ m3 :> 2
=============================================================================

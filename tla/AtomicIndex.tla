--------------------------- MODULE AtomicIndex ---------------------------
(***************************************************************************)
(* What a project's index promises its readers, without stores, pointers or *)
(* transactions.  The index changes only while the activation guard is up   *)
(* (busy); a change publishes a whole index, never a part of one.  An       *)
(* activation may leave the committed index torn (its metadata and vectors  *)
(* do not match, so readers refuse it); nothing else may.                   *)
(***************************************************************************)
CONSTANTS Indexes, NoIndex

VARIABLES committed, torn, busy

vars == <<committed, torn, busy>>

Init == committed = NoIndex /\ torn = FALSE /\ busy = FALSE

Raise == ~busy /\ busy' /\ UNCHANGED <<committed, torn>>

Publish ==
  /\ busy /\ busy'
  /\ committed' \in Indexes /\ ~torn'

Disturb ==
  /\ busy /\ busy'
  /\ torn' \in BOOLEAN
  /\ UNCHANGED committed

Lower == busy /\ ~busy' /\ UNCHANGED <<committed, torn>>

Next == Raise \/ Publish \/ Disturb \/ Lower

Spec == Init /\ [][Next]_vars
=============================================================================

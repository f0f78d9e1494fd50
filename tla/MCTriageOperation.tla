------------------------- MODULE MCTriageOperation -------------------------
(***************************************************************************)
(* TriageOperation for TLC: two operation keys, or one and a crash or an   *)
(* operator's retry.                                                       *)
(***************************************************************************)
EXTENDS TriageOperation

MaxComplications == 2

Complications == Cardinality({key[j] : j \in Jobs} \ {None}) + crashes + requeues

MCSpec ==
  /\ Init
  /\ [][Next /\ Complications' <= MaxComplications]_vars
  /\ \A j \in Jobs : WF_vars(Attempt(j))
=============================================================================

-------------------------- MODULE MCManagedActions --------------------------
(***************************************************************************)
(* ManagedActions for TLC, in scenes: the first job, two operators and the *)
(* sweep share rows over all of their life (one operator if the job is a   *)
(* patch); two jobs race with one operator before anything times out or    *)
(* dies; a recorder, one operator and the sweep.                           *)
(***************************************************************************)
EXTENDS ManagedActions

CONSTANTS SecondJob, SecondOperator

Started(p) == pc[p] # "start"

OneScene ==
  /\ Started(SecondJob) =>
       ~Started(SecondOperator) /\ aged = {} /\ \A p \in Callers : dead[p] = None
  /\ \A w \in Workers : key[w] \in PatchKeys => ~Started(SecondOperator)
  /\ \A r \in Recorders :
       Started(r) => \A p \in (Workers \ {r}) \cup {SecondOperator} : ~Started(p)

MCSpec == Init /\ [][Next /\ OneScene']_vars /\ Fairness
=============================================================================

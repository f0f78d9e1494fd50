-------------------------- MODULE MCMutationLedger --------------------------
(***************************************************************************)
(* MutationLedger for TLC, as two scenes: calls of createMutationCommand   *)
(* race before any transition starts, or one command is created and calls  *)
(* of transitionMutationCommand race on it.                                *)
(***************************************************************************)
EXTENDS MutationLedger

CONSTANT First    \* the call whose command is moved

OneScene ==
  (\E m \in Movers : mpc[m] # "idle") =>
    /\ \A p \in Creators \ {First} : cpc[p] = "idle"
    /\ creq[First] = AnyRequest
    /\ Principals \ granted \subseteq {AnyRequest.principal}
    /\ \A m \in Movers : mpc[m] # "idle" => margs[m].command = First

\* Nobody is in the middle of a call: the scene may end here.
NobodyCalls ==
  /\ \A p \in Creators : cpc[p] \in {"idle", "done"}
  /\ \A m \in Movers : mpc[m] \in {"idle", "done"}
  /\ UNCHANGED vars

MCNext == (Next /\ OneScene') \/ NobodyCalls

MCSpec == Init /\ [][MCNext]_vars /\ Fairness
=============================================================================

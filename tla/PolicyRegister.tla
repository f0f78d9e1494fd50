--------------------------- MODULE PolicyRegister ---------------------------
(***************************************************************************)
(* What the governed policy tables promise, without calls, locks or        *)
(* statements: one live policy per repository, which only ever changes     *)
(* from the version a proposal was opened on to that proposal's version.   *)
(***************************************************************************)
CONSTANTS
  Plans,      \* proposals; each carries one policy version
  None

VARIABLES
  active,     \* the live version, None before the first promotion
  stage,      \* of each proposal: "unused", "open", "closed" or "installed"
  basis       \* the version that was live when the proposal was opened

registerVars == <<active, stage, basis>>

RegisterInit ==
  /\ active = None
  /\ stage = [p \in Plans |-> "unused"]
  /\ basis = [p \in Plans |-> None]

Propose(p) ==
  /\ stage[p] = "unused"
  /\ stage' = [stage EXCEPT ![p] = "open"]
  /\ basis' = [basis EXCEPT ![p] = active]
  /\ UNCHANGED active

\* A proposal is rejected or cancelled, for good.
Close(p) ==
  /\ stage[p] = "open"
  /\ stage' = [stage EXCEPT ![p] = "closed"]
  /\ UNCHANGED <<active, basis>>

\* No version is lost: an open proposal goes live on the version it was made for.
Install(p) ==
  /\ stage[p] = "open" /\ basis[p] = active
  /\ stage' = [stage EXCEPT ![p] = "installed"]
  /\ active' = p
  /\ UNCHANGED basis

RegisterNext == \E p \in Plans : Propose(p) \/ Close(p) \/ Install(p)

RegisterSpec == RegisterInit /\ [][RegisterNext]_registerVars
=============================================================================

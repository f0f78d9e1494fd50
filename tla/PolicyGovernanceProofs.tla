----------------------- MODULE PolicyGovernanceProofs -----------------------
(***************************************************************************)
(* Proofs about PolicyGovernance, for any number of requests, principals,  *)
(* plans and connections: the tables implement PolicyRegister, what went   *)
(* live was made by three principals, nobody's authority was revoked when  *)
(* it did, and requests wait in a circle in one way only.                  *)
(***************************************************************************)
EXTENDS PolicyGovernance, FiniteSetTheorems, TLAPS

-----------------------------------------------------------------------------
(* The inductive invariant: what a request knows, and the locks that keep it true *)

\* Where a request for operation o may be
PcOf(o) ==
  CASE o = "create"     -> {"repo", "authorize"}
    [] o = "promote"    -> {"repo", "promoter", "cr", "plan", "select", "insert", "commit"}
    [] o = "transition" -> {"plan", "update", "authorize", "cr"}
    [] OTHER            -> {"plan", "authorize", "cr"}

Shares(s) == pc[s] = "authorize" /\ Asks(s, "create")

OwnsRepository(s) ==
  \/ pc[s] \in {"promoter", "select", "insert", "commit"}
  \/ pc[s] \in {"cr", "plan"} /\ Asks(s, "promote")

\* A writer has the plan it has read, a promotion the plan it has checked.
Writes(s) ==
  \/ pc[s] = "update"
  \/ pc[s] \in {"authorize", "cr"} /\ ~Asks(s, "create") /\ ~Asks(s, "promote")
Promotes(s) ==
  pc[s] \in {"select", "insert", "commit"} \/ (pc[s] = "promoter" /\ who[s] # None)
OwnsPlan(s) == Writes(s) \/ Promotes(s)

\* A request is where its operation can be, on a plan that exists unless the
\* request creates it.
IsWhole(s) ==
  /\ req[s] = None <=> pc[s] = "idle"
  /\ pc[s] \in {"idle", "repo"} => who[s] = None
  /\ pc[s] # "idle" => /\ pc[s] \in PcOf(req[s].op)
                       /\ req[s].op = "create" <=> status[req[s].plan] = "none"

HoldsLocks(s) ==
  /\ Shares(s) => s \in sharers
  /\ OwnsRepository(s) => repoOwner = s
  /\ OwnsPlan(s) => planOwner[req[s].plan] = s

\* What a request has read under its locks is still so.
ReadsCurrent(s) ==
  /\ Shares(s) => seen[s] = binding
  /\ Writes(s) => PlanAllows(req[s])
  /\ Asks(s, "transition") /\ pc[s] # "plan" =>
       (pc[s] = "update" <=> req[s].arg # "review_ready")
  /\ Promotes(s) => Promotable(req[s].plan, who[s])

NamesPrincipal(s) ==
  /\ pc[s] \in {"select", "insert", "commit"} => who[s] \in Principals
  /\ pc[s] = "cr" /\ req[s].op \in {"approve", "reject", "promote"} => who[s] \in Principals
  /\ pc[s] = "plan" /\ req[s].op = "promote" => who[s] \in Principals

\* A promotion holds on to the authority it relies on.
PinsAuthority(s) ==
  /\ \A u \in pinned[s] : grant[u] # "revoked"
  /\ OwnsRepository(s) /\ who[s] # None => who[s] \in pinned[s]
  /\ pc[s] \in {"insert", "commit"} => seen[s] \in pinned[s]

\* The approver a promotion has found
HasApprover(s) ==
  pc[s] \in {"insert", "commit"} =>
    \E d \in decisions[req[s].plan] :
      /\ d.by = seen[s] /\ d.verdict = "approved"
      /\ seen[s] \notin {author[req[s].plan], who[s]}

SlotInv(s) ==
  /\ IsWhole(s) /\ HoldsLocks(s) /\ ReadsCurrent(s)
  /\ NamesPrincipal(s) /\ PinsAuthority(s) /\ HasApprover(s)

CreatesDiffer ==
  \A s, t \in Slots :
    Asks(s, "create") /\ Asks(t, "create") /\ req[s].plan = req[t].plan => s = t

OwnerExcludesSharers == repoOwner # None => sharers = {}

\* A decision is taken in review, once, an approval on a valid result.
DecisionsAreFinal ==
  \A p \in Plans :
    /\ decisions[p] # {} => status[p] \in {"approved", "rejected", "cancelled", "promoted"}
    /\ \A d \in decisions[p] :
         /\ decisions[p] = {d}
         /\ d.manifest = shown[p] /\ d.manifest \subseteq recorded[p]
         /\ d.verdict = "approved" => d.manifest = {"valid"}

PlansHaveAuthors == \A p \in Plans : status[p] # "none" => author[p] \in Principals

PromotionsStay ==
  /\ SeparationOfDuties
  /\ \A r \in promotions : status[r.plan] # "none"

IInv ==
  /\ TypeOK /\ CreatesDiffer /\ OwnerExcludesSharers /\ PlansHaveAuthors
  /\ DecisionsAreFinal /\ PromotionsStay /\ MaterializationMatches
  /\ \A s \in Slots : SlotInv(s)

-----------------------------------------------------------------------------
(* Requests *)

LEMMA RequestFields ==
  ASSUME NEW r \in Request
  PROVE  /\ r.plan \in Plans /\ r # None
         /\ r.op \in {"create", "approve", "reject", "promote", "attach", "transition"}
         /\ r.op = "attach" => r.arg \in Evidence
         /\ r.op = "transition" => r.arg \in {"validated", "review_ready", "cancelled"}
  BY RequestAssumption DEF Request

LEMMA InitIInv == Init => IInv
  BY NamesAssumption
  DEF Init, IInv, TypeOK, CreatesDiffer, OwnerExcludesSharers, PlansHaveAuthors, DecisionsAreFinal,
      PromotionsStay, SeparationOfDuties, MaterializationMatches, SlotInv, IsWhole,
      HoldsLocks, ReadsCurrent, NamesPrincipal, PinsAuthority, HasApprover, Shares,
      OwnsRepository, OwnsPlan, Writes, Promotes, Asks, Statuses

\* COMMIT or ROLLBACK: the request is gone, with its locks and only its locks.
LEMMA FinishEffect ==
  ASSUME TypeOK, NEW s \in Slots, Finish(s)
  PROVE  /\ pc'[s] = "idle" /\ req'[s] = None /\ who'[s] = None /\ pinned'[s] = {}
         /\ sharers' = sharers \ {s}
         /\ repoOwner' = IF repoOwner = s THEN None ELSE repoOwner
         /\ \A p \in Plans : planOwner[p] # s => planOwner'[p] = planOwner[p]
         /\ pc' \in [Slots -> {"idle", "repo", "authorize", "promoter", "plan",
                               "update", "cr", "commit", "select", "insert"}]
         /\ req' \in [Slots -> Request \cup {None}]
         /\ who' \in [Slots -> Principals \cup {None}]
         /\ seen' \in [Slots -> Plans \cup Principals \cup {None}]
         /\ sharers' \subseteq Slots /\ repoOwner' \in Slots \cup {None}
         /\ planOwner' \in [Plans -> Slots \cup {None}]
         /\ crOwner' \in [Plans -> Slots \cup {None}]
         /\ pinned' \in [Slots -> SUBSET Principals]
         /\ \A t \in Slots \ {s} : /\ pc'[t] = pc[t] /\ req'[t] = req[t] /\ who'[t] = who[t]
                                   /\ seen'[t] = seen[t] /\ pinned'[t] = pinned[t]
  BY DEF Finish, GoTo, TypeOK

-----------------------------------------------------------------------------
(* Type correctness *)

LEMMA RefuseType ==
  ASSUME TypeOK, NEW s \in Slots, Refuse(s) PROVE TypeOK'
  BY FinishEffect DEF Refuse, TypeOK, tables, live, world

LEMMA StepType == IInv /\ [Next]_vars => TypeOK'
<1> SUFFICES ASSUME IInv, [Next]_vars PROVE TypeOK'
  OBVIOUS
<1>t. TypeOK
  BY DEF IInv
<1> USE <1>t
<1>s. ASSUME NEW s \in Slots, req[s] # None
      PROVE  req[s] \in Request
  BY <1>s DEF TypeOK
<1>a. ASSUME NEW s \in Slots, pc[s] # "idle" PROVE req[s] \in Request
  BY <1>a, <1>s DEF IInv, SlotInv, IsWhole
<1>1. ASSUME NEW s \in Slots, Start(s) PROVE TypeOK'
  BY <1>1 DEF Start, GoTo, TypeOK, tables, live, world, locks
<1>2. ASSUME NEW s \in Slots, ShareRepository(s) PROVE TypeOK'
  BY <1>2 DEF ShareRepository, GoTo, TypeOK, tables, live, world
<1>3. ASSUME NEW s \in Slots, OwnRepository(s) PROVE TypeOK'
  BY <1>3 DEF OwnRepository, GoTo, TypeOK, tables, live, world
<1>4. ASSUME NEW s \in Slots, Denied(s) PROVE TypeOK'
  BY <1>4, RefuseType DEF Denied
<1>5. ASSUME NEW s \in Slots, Create(s) PROVE TypeOK'
  <2>1. req[s] \in Request /\ seen[s] = binding
    BY <1>5, <1>s DEF Create, Authorized, IInv, SlotInv, ReadsCurrent, Shares, Asks
  <2> QED
    BY <1>5, <2>1, FinishEffect, RequestFields
    DEF Create, TypeOK, live, world, Statuses
<1>6. ASSUME NEW s \in Slots, LockPlan(s) PROVE TypeOK'
  <2>1. CASE PlanAllows(req[s])
    BY <1>6, <2>1 DEF LockPlan, GoTo, TypeOK, tables, live, world
  <2> QED
    BY <1>6, <2>1, RefuseType DEF LockPlan
<1>7. ASSUME NEW s \in Slots, Authorize(s) PROVE TypeOK'
  BY <1>7 DEF Authorize, GoTo, TypeOK, tables, live, world, locks
<1>8. ASSUME NEW s \in Slots, Move(s) PROVE TypeOK'
  <2>1. req[s] \in Request /\ req[s].op = "transition"
    BY <1>8, <1>a, RequestFields DEF Move, IInv, SlotInv, IsWhole, PcOf
  <2>2. req[s].arg \in Statuses
    BY <2>1, RequestFields DEF Statuses
  <2> QED
    BY <1>8, <2>1, <2>2, FinishEffect DEF Move, TypeOK, live, world
<1>9. ASSUME NEW s \in Slots, Attach(s) PROVE TypeOK'
  <2>1. req[s] \in Request /\ req[s].arg \in Evidence
    BY <1>9, <1>a, RequestFields DEF Attach, HoldsRequest, Asks
  <2> QED
    BY <1>9, <2>1, FinishEffect, RequestFields DEF Attach, TypeOK, live, world
<1>10. ASSUME NEW s \in Slots, EnterReview(s) PROVE TypeOK'
  <2>1. req[s] \in Request /\ req[s].arg \in Statuses
    BY <1>10, <1>a, RequestFields DEF EnterReview, HoldsRequest, Asks, Statuses
  <2> QED
    BY <1>10, <2>1, FinishEffect, RequestFields DEF EnterReview, TypeOK, live, world
<1>11. ASSUME NEW s \in Slots, Decide(s) PROVE TypeOK'
  <2> DEFINE verdict == IF Asks(s, "approve") THEN "approved" ELSE "rejected"
             d == [by |-> who[s], verdict |-> verdict, manifest |-> shown[req[s].plan]]
  <2>1. req[s] \in Request /\ req[s].plan \in Plans /\ who[s] \in Principals
    BY <1>11, <1>a, RequestFields
    DEF Decide, HoldsRequest, Asks, IInv, SlotInv, NamesPrincipal
  <2>2. d \in Decision /\ verdict \in Statuses
    BY <2>1 DEF Decision, TypeOK, Statuses
  <2>3. /\ status' = [status EXCEPT ![req[s].plan] = verdict]
        /\ decisions' = [decisions EXCEPT ![req[s].plan] = @ \cup {d}]
    BY <1>11 DEF Decide
  <2> HIDE DEF d, verdict
  <2> QED
    BY <1>11, <2>1, <2>2, <2>3, FinishEffect DEF Decide, TypeOK, live, world
<1>12. ASSUME NEW s \in Slots, RefuseRequest(s) PROVE TypeOK'
  BY <1>12, RefuseType DEF RefuseRequest
<1>13. ASSUME NEW s \in Slots, AuthorizePromoter(s) PROVE TypeOK'
  <2>1. PICK u \in IF who[s] = None THEN Principals ELSE {who[s]} :
          IF grant[u] = "current"
          THEN /\ who' = [who EXCEPT ![s] = u]
               /\ pinned' = [pinned EXCEPT ![s] = @ \cup {u}]
               /\ GoTo(s, IF who[s] = None THEN "cr" ELSE "select")
               /\ UNCHANGED <<tables, live, world, req, seen, sharers, repoOwner, planOwner, crOwner>>
          ELSE Refuse(s)
    BY <1>13 DEF AuthorizePromoter
  <2>2. u \in Principals
    BY <2>1 DEF TypeOK
  <2>3. CASE grant[u] = "current"
    BY <2>1, <2>2, <2>3 DEF GoTo, TypeOK, tables, live, world
  <2> QED
    BY <2>1, <2>3, RefuseType
<1>14. ASSUME NEW s \in Slots, LockRequestForPromotion(s) PROVE TypeOK'
  BY <1>14 DEF LockRequestForPromotion, GoTo, TypeOK, tables, live, world
<1>15. ASSUME NEW s \in Slots, LockPlanForPromotion(s) PROVE TypeOK'
  <2>1. CASE Promotable(req[s].plan, who[s])
    BY <1>15, <2>1 DEF LockPlanForPromotion, GoTo, TypeOK, tables, live, world
  <2> QED
    BY <1>15, <2>1, RefuseType DEF LockPlanForPromotion
<1>16. ASSUME NEW s \in Slots, SelectApproval(s) PROVE TypeOK'
  <2>1. CASE Refuse(s)
    BY <2>1, RefuseType
  <2>2. CASE ~Refuse(s)
    <3>1. PICK d \in Usable(req[s].plan, who[s]) :
            /\ seen' = [seen EXCEPT ![s] = d.by]
            /\ pinned' = [pinned EXCEPT ![s] = @ \cup {d.by}]
            /\ GoTo(s, "insert")
            /\ UNCHANGED <<tables, live, world, req, who, sharers, repoOwner, planOwner, crOwner>>
      BY <1>16, <2>2 DEF SelectApproval
    <3>2. req[s].plan \in Plans
      BY <1>16, <1>a, RequestFields DEF SelectApproval
    <3>3. d.by \in Principals
      BY <3>1, <3>2 DEF Usable, Decision, TypeOK
    <3> QED
      BY <3>1, <3>3 DEF GoTo, TypeOK, tables, live, world
  <2> QED
    BY <2>1, <2>2
<1>17. ASSUME NEW s \in Slots, InsertPromotion(s) PROVE TypeOK'
  <2>1. CASE Refuse(s)
    BY <2>1, RefuseType
  <2>2. CASE ~Refuse(s)
    BY <1>17, <2>2 DEF InsertPromotion, GoTo, TypeOK, tables, live, world, locks
  <2> QED
    BY <2>1, <2>2
<1>18. ASSUME NEW s \in Slots, CommitPromotion(s) PROVE TypeOK'
  <2>1. req[s].plan \in Plans /\ who[s] \in Principals /\ seen[s] \in Principals
    BY <1>18, <1>a, RequestFields
    DEF CommitPromotion, IInv, SlotInv, NamesPrincipal, PinsAuthority, TypeOK
  <2>2. author[req[s].plan] \in Principals
    BY <1>18, <2>1
    DEF CommitPromotion, IInv, SlotInv, ReadsCurrent, Promotes, Promotable, PlansHaveAuthors
  <2> DEFINE r == [plan |-> req[s].plan, previous |-> binding, author |-> author[req[s].plan],
                   approver |-> seen[s], promoter |-> who[s]]
  <2>3. r \in Promotion
    BY <2>1, <2>2 DEF Promotion, TypeOK
  <2>4. promotions' = promotions \cup {r}
    BY <1>18 DEF CommitPromotion
  <2> HIDE DEF r
  <2> QED
    BY <1>18, <2>1, <2>3, <2>4, FinishEffect DEF CommitPromotion, TypeOK, world, Statuses
<1>19. ASSUME NEW s \in Slots, Fail(s) PROVE TypeOK'
  BY <1>19, RefuseType DEF Fail
<1>20. ASSUME NEW s \in Slots, GiveUp(s) PROVE TypeOK'
  BY <1>20, RefuseType DEF GiveUp
<1>21. ASSUME NEW u \in Principals, Revoke(u) PROVE TypeOK'
  BY <1>21 DEF Revoke, TypeOK, tables, live, calls, locks
<1>22. ASSUME NEW u \in Principals, Expire(u) PROVE TypeOK'
  BY <1>22 DEF Expire, TypeOK, tables, live, calls, locks
<1>23. ASSUME NEW p \in Plans, Lapse(p) PROVE TypeOK'
  BY <1>23 DEF Lapse, TypeOK, tables, live, calls, locks
<1>24. ASSUME NEW doc \in Plans \cup {Legacy}, Override(doc) PROVE TypeOK'
  BY <1>24 DEF Override, TypeOK, tables, world, calls, locks
<1>25. CASE UNCHANGED vars
  BY <1>25 DEF vars, TypeOK, tables, live, world, calls, locks
<1> QED
  BY <1>1, <1>2, <1>3, <1>4, <1>5, <1>6, <1>7, <1>8, <1>9, <1>10, <1>11, <1>12, <1>13,
     <1>14, <1>15, <1>16, <1>17, <1>18, <1>19, <1>20, <1>21, <1>22, <1>23, <1>24, <1>25
  DEF Next, Run

-----------------------------------------------------------------------------
(* What a step of one request does to the others *)

StepOf(s) == Start(s) \/ Run(s) \/ Fail(s) \/ GiveUp(s)

\* A request moves and locks, or ends and is forgotten with what it did.
Moves(s) ==
  /\ UNCHANGED <<tables, live, world>>
  /\ \/ Start(s) \/ ShareRepository(s) \/ OwnRepository(s) \/ LockPlan(s) \/ Authorize(s)
     \/ AuthorizePromoter(s) \/ LockRequestForPromotion(s) \/ LockPlanForPromotion(s)
     \/ SelectApproval(s) \/ InsertPromotion(s)
Commits(s) ==
  \/ Create(s) \/ Move(s) \/ Attach(s) \/ EnterReview(s) \/ Decide(s) \/ CommitPromotion(s)

LEMMA StepKinds ==
  ASSUME NEW s \in Slots, StepOf(s)
  PROVE  (Moves(s) /\ ~Refuse(s)) \/ Refuse(s) \/ (Commits(s) /\ Finish(s))
<1>1. CASE Start(s)
  BY <1>1 DEF Start, Moves
<1>2. CASE Run(s)
  <2>1. CASE ShareRepository(s) \/ OwnRepository(s) \/ Authorize(s) \/ LockRequestForPromotion(s)
    BY <2>1 DEF ShareRepository, OwnRepository, Authorize, LockRequestForPromotion, Moves
  <2>2. CASE LockPlan(s) \/ LockPlanForPromotion(s) \/ InsertPromotion(s)
    BY <2>2 DEF LockPlan, LockPlanForPromotion, InsertPromotion, Moves
  <2>3. CASE AuthorizePromoter(s)
    BY <2>3 DEF AuthorizePromoter, Moves
  <2>4. CASE SelectApproval(s)
    BY <2>4 DEF SelectApproval, Moves
  <2>5. CASE Denied(s) \/ RefuseRequest(s)
    BY <2>5 DEF Denied, RefuseRequest
  <2>6. CASE Commits(s)
    BY <2>6 DEF Commits, Create, Move, Attach, EnterReview, Decide, CommitPromotion
  <2> QED
    BY <1>2, <2>1, <2>2, <2>3, <2>4, <2>5, <2>6 DEF Run, Commits
<1>3. CASE Fail(s) \/ GiveUp(s)
  BY <1>3 DEF Fail, GiveUp
<1> QED
  BY <1>1, <1>2, <1>3 DEF StepOf

\* Another request keeps its place and its locks.
Undisturbed(t) ==
  /\ pc'[t] = pc[t] /\ req'[t] = req[t] /\ who'[t] = who[t] /\ seen'[t] = seen[t]
  /\ pinned'[t] = pinned[t]
  /\ t \in sharers => t \in sharers'
  /\ repoOwner = t => repoOwner' = t
  /\ \A p \in Plans : planOwner[p] = t => planOwner'[p] = t

LEMMA OthersUndisturbed ==
  ASSUME TypeOK, NEW s \in Slots, StepOf(s), NEW t \in Slots \ {s}
  PROVE  Undisturbed(t) /\ UNCHANGED grant
<1> t # None
  BY NamesAssumption
<1>1. CASE Finish(s) /\ UNCHANGED grant
  BY <1>1, FinishEffect DEF Undisturbed
<1>2. CASE Moves(s) /\ ~Refuse(s)
  <2> UNCHANGED grant
    BY <1>2 DEF Moves, world
  <2>1. CASE Start(s) \/ ShareRepository(s) \/ OwnRepository(s) \/ Authorize(s) \/ LockRequestForPromotion(s)
    BY <2>1 DEF Start, ShareRepository, OwnRepository, Authorize, LockRequestForPromotion,
       Undisturbed, GoTo, locks, TypeOK
  <2>2. CASE LockPlan(s) \/ LockPlanForPromotion(s) \/ InsertPromotion(s)
    BY <1>2, <2>2 DEF LockPlan, LockPlanForPromotion, InsertPromotion, Undisturbed, GoTo,
       locks, TypeOK
  <2>3. CASE AuthorizePromoter(s)
    BY <1>2, <2>3 DEF AuthorizePromoter, Undisturbed, GoTo, TypeOK
  <2>4. CASE SelectApproval(s)
    BY <1>2, <2>4 DEF SelectApproval, Undisturbed, GoTo, TypeOK
  <2> QED
    BY <1>2, <2>1, <2>2, <2>3, <2>4 DEF Moves
<1>3. Commits(s) => UNCHANGED grant
  BY DEF Commits, Create, Move, Attach, EnterReview, Decide, CommitPromotion, live, world
<1>4. Refuse(s) => Finish(s) /\ UNCHANGED grant
  BY DEF Refuse, world
<1> QED
  BY <1>1, <1>2, <1>3, <1>4, StepKinds

\* A commit writes its own plan's rows, with the plan locked or new, and the
\* live policy with the repository locked.
WritesOwn(s) ==
  /\ req[s] \in Request
  /\ Shares(s) \/ OwnsPlan(s)
  /\ \A p \in Plans \ {req[s].plan} :
       /\ status'[p] = status[p] /\ author'[p] = author[p] /\ base'[p] = base[p]
       /\ shown'[p] = shown[p] /\ recorded'[p] = recorded[p] /\ decisions'[p] = decisions[p]
  /\ OwnsRepository(s) \/ UNCHANGED <<binding, config, promotions>>
  /\ status'[req[s].plan] # "none"

LEMMA CommitsOwn ==
  ASSUME IInv, NEW s \in Slots, Commits(s)
  PROVE  WritesOwn(s)
<1> USE DEF IInv, TypeOK, SlotInv, IsWhole
<1>1. req[s] \in Request
  <2>1. Create(s) \/ CommitPromotion(s) => req[s] # None
    BY DEF Create, CommitPromotion, Asks
  <2>2. Move(s) => pc[s] # "idle"
    BY DEF Move
  <2>3. Attach(s) \/ EnterReview(s) \/ Decide(s) => req[s] # None
    BY DEF Attach, EnterReview, Decide, HoldsRequest, Asks
  <2> QED
    BY <2>1, <2>2, <2>3 DEF Commits
<1>2. CASE Create(s)
  BY <1>1, <1>2, RequestFields
  DEF Create, Authorized, WritesOwn, Shares, Asks, live
<1>3. CASE Move(s)
  BY <1>1, <1>3, RequestFields DEF Move, WritesOwn, OwnsPlan, Writes, live, PcOf
<1>4. CASE Attach(s)
  BY <1>1, <1>4, RequestFields DEF Attach, WritesOwn, OwnsPlan, Writes, HoldsRequest, Asks, live
<1>5. CASE EnterReview(s)
  BY <1>1, <1>5, RequestFields DEF EnterReview, WritesOwn, OwnsPlan, Writes, HoldsRequest, Asks, live
<1>6. CASE Decide(s)
  BY <1>1, <1>6, RequestFields DEF Decide, WritesOwn, OwnsPlan, Writes, HoldsRequest, Asks, live
<1>7. CASE CommitPromotion(s)
  BY <1>1, <1>7, RequestFields DEF CommitPromotion, WritesOwn, OwnsPlan, Promotes, OwnsRepository
<1> QED
  BY <1>2, <1>3, <1>4, <1>5, <1>6, <1>7 DEF Commits

LEMMA OthersKeep ==
  ASSUME IInv, NEW s \in Slots, StepOf(s), NEW t \in Slots \ {s}
  PROVE  SlotInv(t)'
<1>1. Undisturbed(t) /\ UNCHANGED grant
  BY OthersUndisturbed DEF IInv
<1>2. req[t] \in Request \/ (req[t] = None /\ pc[t] = "idle")
  BY DEF IInv, SlotInv, IsWhole, TypeOK
<1>3. CASE UNCHANGED <<tables, live>>
  BY <1>1, <1>2, <1>3, RequestFields
  DEF IInv, SlotInv, IsWhole, HoldsLocks, ReadsCurrent, NamesPrincipal, PinsAuthority,
      HasApprover, Undisturbed, Shares, OwnsRepository, OwnsPlan, Writes, Promotes, Asks,
      PlanAllows, Promotable, BaseIsCurrent, tables, live
<1>4. CASE WritesOwn(s)
  <2> SlotInv(s) /\ SlotInv(t) /\ TypeOK
    BY DEF IInv
  <2> s # None /\ t # None
    BY NamesAssumption
  <2>1. OwnsPlan(t) => req[t].plan # req[s].plan
    BY <1>2, <1>4, RequestFields
    DEF WritesOwn, SlotInv, IsWhole, HoldsLocks, ReadsCurrent, Shares, OwnsPlan, Writes,
        Promotes, Asks, PcOf
  <2>2. OwnsRepository(t) \/ Shares(t) => UNCHANGED <<binding, config>>
    BY <1>4 DEF WritesOwn, IInv, OwnerExcludesSharers, SlotInv, HoldsLocks
  <2>3. req[t] # None => (status'[req[t].plan] = "none" <=> status[req[t].plan] = "none")
    BY <1>2, <1>4, RequestFields
    DEF WritesOwn, SlotInv, IsWhole, Shares, OwnsPlan, Writes, Promotes, Asks, IInv,
        CreatesDiffer, PcOf
  <2>4. IsWhole(t)'
    BY <1>1, <1>2, <2>3 DEF SlotInv, IsWhole, Undisturbed
  <2>5. HoldsLocks(t)'
    BY <1>1, <1>2, RequestFields DEF SlotInv, HoldsLocks, Undisturbed, Shares, OwnsRepository, OwnsPlan,
       Writes, Promotes, Asks
  <2>6. ReadsCurrent(t)'
    <3>1. Promotes(t) => OwnsRepository(t) /\ OwnsPlan(t)
      BY DEF Promotes, OwnsRepository, OwnsPlan
    <3>2. Writes(t) => OwnsPlan(t)
      BY DEF OwnsPlan
    <3>3. OwnsPlan(t) => /\ req[t].plan \in Plans \ {req[s].plan}
                         /\ status'[req[t].plan] = status[req[t].plan]
                         /\ shown'[req[t].plan] = shown[req[t].plan]
                         /\ author'[req[t].plan] = author[req[t].plan]
                         /\ base'[req[t].plan] = base[req[t].plan]
      BY <1>2, <1>4, <2>1, RequestFields DEF WritesOwn, OwnsPlan, Writes, Promotes
    <3> QED
      BY <1>1, <1>2, <2>2, <3>1, <3>2, <3>3
      DEF SlotInv, ReadsCurrent, Undisturbed, Shares, Writes, Promotes, Asks, PlanAllows,
          Promotable, BaseIsCurrent
  <2>7. NamesPrincipal(t)' /\ PinsAuthority(t)'
    BY <1>1 DEF SlotInv, NamesPrincipal, PinsAuthority, Undisturbed, OwnsRepository, Asks
  <2>8. HasApprover(t)'
    <3>1. ASSUME pc[t] \in {"insert", "commit"}
          PROVE  /\ decisions'[req[t].plan] = decisions[req[t].plan]
                 /\ author'[req[t].plan] = author[req[t].plan]
      BY <1>2, <1>4, <2>1, <3>1, RequestFields DEF WritesOwn, OwnsPlan, Promotes
    <3> QED
      BY <1>1, <3>1 DEF SlotInv, HasApprover, Undisturbed
  <2> QED
    BY <2>4, <2>5, <2>6, <2>7, <2>8 DEF SlotInv
<1> QED
  BY <1>3, <1>4, StepKinds, CommitsOwn DEF Moves, Refuse

-----------------------------------------------------------------------------
(* What a step does to its own request *)

LEMMA EndedIsFine ==
  ASSUME TypeOK, NEW s \in Slots, Finish(s)
  PROVE  SlotInv(s)'
  BY FinishEffect
  DEF SlotInv, IsWhole, HoldsLocks, ReadsCurrent, NamesPrincipal, PinsAuthority,
      HasApprover, Shares, OwnsRepository, OwnsPlan, Writes, Promotes, Asks

LEMMA MoversKeep ==
  ASSUME IInv, NEW s \in Slots, Moves(s), ~Refuse(s)
  PROVE  SlotInv(s)'
<1> USE DEF SlotInv, IsWhole, HoldsLocks, ReadsCurrent, NamesPrincipal, PinsAuthority,
      HasApprover, Shares, OwnsRepository, OwnsPlan, Writes, Promotes, Asks, PcOf
<1>1. /\ TypeOK /\ SlotInv(s) /\ UNCHANGED <<tables, live, grant>>
      /\ req[s] # None => req[s] \in Request
  BY DEF IInv, Moves, TypeOK, world
<1>n. s # None /\ None \notin Principals
  BY NamesAssumption
<1>2. CASE Start(s)
  <2>1. PICK r \in Request :
          /\ r.op = "create" => status[r.plan] = "none" /\ ~Creates(r.plan)
          /\ status[r.plan] = "none" => r.op = "create"
          /\ req' = [req EXCEPT ![s] = r]
          /\ GoTo(s, CASE r.op \in {"create", "promote"} -> "repo"
                       [] OTHER -> "plan")
    BY <1>2 DEF Start
  <2>2. /\ req'[s] = r /\ r # None
        /\ pc'[s] = IF r.op \in {"create", "promote"} THEN "repo" ELSE "plan"
        /\ who'[s] = who[s] /\ pinned'[s] = pinned[s] /\ pc[s] = "idle"
    BY <1>1, <1>2, <2>1, RequestFields DEF Start, GoTo, TypeOK, locks
  <2>3. who[s] = None
    BY <1>1, <2>2
  <2> QED
    BY <1>1, <2>1, <2>2, <2>3, RequestFields DEF tables
<1>3. CASE ShareRepository(s)
  BY <1>1, <1>3 DEF ShareRepository, GoTo, TypeOK, tables, live
<1>4. CASE OwnRepository(s)
  BY <1>1, <1>4 DEF OwnRepository, GoTo, TypeOK, tables, live
<1>5. CASE LockPlan(s)
  <2>1. PlanAllows(req[s])
    BY <1>5 DEF LockPlan
  <2>2. /\ planOwner' = [planOwner EXCEPT ![req[s].plan] = s]
        /\ pc' = [pc EXCEPT ![s] = IF req[s].op = "transition" /\ req[s].arg # "review_ready"
                                   THEN "update" ELSE "authorize"]
        /\ UNCHANGED <<req, who, seen, sharers, repoOwner, pinned>>
    BY <1>5, <2>1 DEF LockPlan, GoTo
  <2>3. req[s] \in Request /\ req[s].op \notin {"create", "promote"} /\ req[s].plan \in Plans
    BY <1>1, <1>5, RequestFields DEF LockPlan
  <2> QED
    BY <1>1, <2>1, <2>2, <2>3, RequestFields DEF TypeOK, tables, live, PlanAllows
<1>6. CASE Authorize(s)
  <2>1. PICK u \in Principals :
          who' = [who EXCEPT ![s] = IF req[s].op \in {"approve", "reject"} THEN u ELSE None]
    BY <1>6 DEF Authorize
  <2>2. /\ pc[s] = "authorize" /\ pc' = [pc EXCEPT ![s] = "cr"]
        /\ UNCHANGED <<req, seen, sharers, repoOwner, planOwner, pinned>>
    BY <1>6 DEF Authorize, Authorized, GoTo, locks
  <2>3. req[s] \in Request /\ req[s].op \notin {"create", "promote"} /\ req[s].plan \in Plans
    BY <1>1, <1>6, <2>2, RequestFields DEF Authorize
  <2> QED
    BY <1>1, <2>1, <2>2, <2>3, RequestFields DEF TypeOK, tables, live, PlanAllows
<1>7. CASE AuthorizePromoter(s)
  <2>1. PICK u \in IF who[s] = None THEN Principals ELSE {who[s]} :
          /\ grant[u] = "current"
          /\ who' = [who EXCEPT ![s] = u]
          /\ pinned' = [pinned EXCEPT ![s] = @ \cup {u}]
          /\ GoTo(s, IF who[s] = None THEN "cr" ELSE "select")
          /\ UNCHANGED <<tables, live, world, req, seen, sharers, repoOwner, planOwner, crOwner>>
    BY <1>7 DEF AuthorizePromoter
  <2>2. /\ u \in Principals /\ who'[s] = u /\ pinned'[s] = pinned[s] \cup {u}
        /\ pc[s] = "promoter" /\ pc'[s] = IF who[s] = None THEN "cr" ELSE "select"
        /\ who[s] # None => u = who[s]
    BY <1>1, <1>7, <2>1 DEF AuthorizePromoter, TypeOK, GoTo
  <2>3. req[s] \in Request /\ req[s].op = "promote" /\ req[s].plan \in Plans
    BY <1>1, <2>2, RequestFields
  <2>4. IsWhole(s)' /\ HoldsLocks(s)'
    BY <1>1, <2>1, <2>2, <2>3 DEF tables
  <2>5. ReadsCurrent(s)'
    BY <1>1, <2>1, <2>2, <2>3 DEF tables, live, Promotable, BaseIsCurrent
  <2>6. NamesPrincipal(s)' /\ PinsAuthority(s)' /\ HasApprover(s)'
    BY <1>1, <2>1, <2>2, <2>3
  <2> QED
    BY <2>4, <2>5, <2>6
<1>8. CASE LockRequestForPromotion(s)
  BY <1>1, <1>8 DEF LockRequestForPromotion, GoTo, TypeOK, tables, live
<1>9. CASE LockPlanForPromotion(s)
  <2>1. Promotable(req[s].plan, who[s])
    BY <1>9 DEF LockPlanForPromotion
  <2>2. /\ planOwner' = [planOwner EXCEPT ![req[s].plan] = s]
        /\ pc[s] = "plan" /\ pc' = [pc EXCEPT ![s] = "select"]
        /\ UNCHANGED <<req, who, seen, sharers, repoOwner, pinned>>
    BY <1>9, <2>1 DEF LockPlanForPromotion, GoTo
  <2>3. req[s] \in Request /\ req[s].op = "promote" /\ req[s].plan \in Plans
    BY <1>1, <1>9, RequestFields DEF LockPlanForPromotion
  <2> QED
    BY <1>1, <2>1, <2>2, <2>3 DEF TypeOK, tables, live, Promotable, BaseIsCurrent
<1>10. CASE SelectApproval(s)
  <2>1. PICK d \in Usable(req[s].plan, who[s]) :
          /\ grant[d.by] = "current"
          /\ seen' = [seen EXCEPT ![s] = d.by]
          /\ pinned' = [pinned EXCEPT ![s] = @ \cup {d.by}]
          /\ pc' = [pc EXCEPT ![s] = "insert"]
          /\ UNCHANGED <<req, who, sharers, repoOwner, planOwner>>
    BY <1>10 DEF SelectApproval, GoTo
  <2>2. pc[s] = "select" /\ pc'[s] = "insert" /\ seen'[s] = d.by
        /\ pinned'[s] = pinned[s] \cup {d.by}
    BY <1>1, <1>10, <2>1 DEF SelectApproval, TypeOK
  <2>3. req[s] \in Request /\ req[s].op = "promote" /\ req[s].plan \in Plans
    BY <1>1, <2>2, RequestFields
  <2>4. IsWhole(s)' /\ HoldsLocks(s)'
    BY <1>1, <2>1, <2>2, <2>3 DEF tables
  <2>5. ReadsCurrent(s)'
    BY <1>1, <2>1, <2>2, <2>3 DEF tables, live, Promotable, BaseIsCurrent
  <2>6. NamesPrincipal(s)' /\ PinsAuthority(s)'
    BY <1>1, <2>1, <2>2, <2>3
  <2>7. HasApprover(s)'
    BY <1>1, <2>1, <2>2, <2>3 DEF Usable, tables
  <2> QED
    BY <2>4, <2>5, <2>6, <2>7
<1>11. CASE InsertPromotion(s)
  <2>1. /\ pc[s] = "insert" /\ pc'[s] \in {"commit", "promoter"}
        /\ UNCHANGED <<req, who, seen, sharers, repoOwner, planOwner, pinned>>
    BY <1>1, <1>11 DEF InsertPromotion, GoTo, TypeOK, locks
  <2>2. req[s] \in Request /\ req[s].op = "promote" /\ req[s].plan \in Plans
    BY <1>1, <2>1, RequestFields
  <2>3. IsWhole(s)' /\ HoldsLocks(s)'
    BY <1>1, <2>1, <2>2 DEF tables
  <2>4. ReadsCurrent(s)'
    BY <1>1, <2>1, <2>2 DEF tables, live, Promotable, BaseIsCurrent
  <2>5. NamesPrincipal(s)' /\ PinsAuthority(s)' /\ HasApprover(s)'
    BY <1>1, <2>1, <2>2 DEF tables
  <2> QED
    BY <2>3, <2>4, <2>5
<1> QED
  BY <1>2, <1>3, <1>4, <1>5, <1>6, <1>7, <1>8, <1>9, <1>10, <1>11 DEF Moves

LEMMA CreatesStayApart ==
  ASSUME IInv, NEW s \in Slots, StepOf(s)
  PROVE  CreatesDiffer' /\ OwnerExcludesSharers'
<1>1. \A t \in Slots \ {s} : req'[t] = req[t]
  BY OthersUndisturbed DEF Undisturbed, IInv
<1>2. CASE Start(s)
  <2>1. PICK r \in Request : /\ r.op = "create" => ~Creates(r.plan)
                             /\ req' = [req EXCEPT ![s] = r]
    BY <1>2 DEF Start
  <2>2. req'[s] = r
    BY <2>1 DEF IInv, TypeOK
  <2>3. CreatesDiffer'
    BY <1>1, <2>1, <2>2 DEF IInv, CreatesDiffer, Creates, Asks
  <2> QED
    BY <1>2, <2>3 DEF IInv, OwnerExcludesSharers, Start, locks
<1>3. CASE Finish(s)
  <2>1. req'[s] = None /\ sharers' = sharers \ {s}
        /\ repoOwner' = IF repoOwner = s THEN None ELSE repoOwner
    BY <1>3, FinishEffect DEF IInv
  <2> QED
    BY <1>1, <2>1 DEF IInv, CreatesDiffer, OwnerExcludesSharers, Asks
<1>4. CASE Moves(s) /\ ~Refuse(s) /\ ~Start(s)
  <2>1. UNCHANGED req
    BY <1>4 DEF Moves, ShareRepository, OwnRepository, LockPlan, Authorize, AuthorizePromoter,
       LockRequestForPromotion, LockPlanForPromotion, SelectApproval, InsertPromotion
  <2>2. OwnerExcludesSharers'
    BY <1>4 DEF IInv, OwnerExcludesSharers, Moves, ShareRepository, OwnRepository, LockPlan,
       Authorize, AuthorizePromoter, LockRequestForPromotion, LockPlanForPromotion,
       SelectApproval, InsertPromotion, locks
  <2> QED
    BY <2>1, <2>2 DEF IInv, CreatesDiffer, Asks
<1> QED
  BY <1>2, <1>3, <1>4, StepKinds DEF Refuse

-----------------------------------------------------------------------------
(* What a step does to the tables *)

TablesInv == PlansHaveAuthors /\ DecisionsAreFinal /\ PromotionsStay /\ MaterializationMatches

LEMMA QuietKeepsTables ==
  ASSUME IInv, UNCHANGED <<tables, live>>
  PROVE  TablesInv'
  BY DEF IInv, TablesInv, PlansHaveAuthors, DecisionsAreFinal, PromotionsStay,
     SeparationOfDuties, MaterializationMatches, tables, live

LEMMA CreateKeepsTables ==
  ASSUME IInv, NEW s \in Slots, Create(s)
  PROVE  TablesInv'
<1> DEFINE p == req[s].plan
<1>1. p \in Plans /\ status[p] = "none"
  BY RequestFields DEF Create, Authorized, Asks, IInv, TypeOK, SlotInv, IsWhole
<1>2. PICK u \in Principals : author' = [author EXCEPT ![p] = u]
  BY DEF Create
<1>3. /\ status' = [status EXCEPT ![p] = "draft"]
      /\ UNCHANGED <<shown, recorded, decisions, promotions, binding, config>>
  BY DEF Create, live
<1>4. decisions[p] = {}
  BY <1>1 DEF IInv, DecisionsAreFinal
<1>5. \A q \in Plans : /\ q # p => status'[q] = status[q] /\ author'[q] = author[q]
                       /\ q = p => status'[q] = "draft" /\ author'[q] = u
  BY <1>1, <1>2, <1>3 DEF IInv, TypeOK
<1>6. \A r \in promotions : r.plan \in Plans /\ r.plan # p
  BY <1>1 DEF IInv, TypeOK, PromotionsStay, Promotion
<1> HIDE DEF p
<1> QED
  BY <1>1, <1>2, <1>3, <1>4, <1>5, <1>6
  DEF IInv, TablesInv, PlansHaveAuthors, DecisionsAreFinal, PromotionsStay,
      SeparationOfDuties, MaterializationMatches

LEMMA MoveKeepsTables ==
  ASSUME IInv, NEW s \in Slots, Move(s)
  PROVE  TablesInv'
<1> DEFINE p == req[s].plan
<1>1. /\ p \in Plans /\ req[s].op = "transition"
      /\ req[s].arg \in EdgeTo(status[p]) /\ req[s].arg # "review_ready"
  BY RequestFields
  DEF Move, IInv, TypeOK, SlotInv, IsWhole, PcOf, Asks, ReadsCurrent, Writes, PlanAllows
<1>2. req[s].arg \in {"validated", "cancelled"} /\ status[p] # "none"
      /\ (decisions[p] # {} => req[s].arg = "cancelled")
  BY <1>1 DEF EdgeTo, IInv, DecisionsAreFinal
<1>3. /\ status' = [status EXCEPT ![p] = req[s].arg]
      /\ UNCHANGED <<author, shown, recorded, decisions, promotions, binding, config>>
  BY DEF Move, live
<1>4. \A q \in Plans : status'[q] = IF q = p THEN req[s].arg ELSE status[q]
  BY <1>1, <1>3 DEF IInv, TypeOK
<1>5. \A r \in promotions : r.plan \in Plans
  BY DEF IInv, TypeOK, Promotion
<1> HIDE DEF p
<1> QED
  BY <1>1, <1>2, <1>3, <1>4, <1>5
  DEF IInv, TablesInv, PlansHaveAuthors, DecisionsAreFinal, PromotionsStay,
      SeparationOfDuties, MaterializationMatches

LEMMA AttachKeepsTables ==
  ASSUME IInv, NEW s \in Slots, Attach(s) \/ EnterReview(s)
  PROVE  TablesInv'
<1> DEFINE p == req[s].plan
<1>1. /\ p \in Plans /\ decisions[p] = {}
      /\ status[p] \in {"draft", "validated"}
  BY RequestFields
  DEF Attach, EnterReview, MayRecord, HoldsRequest, Asks, IInv, TypeOK
<1>2. \A q \in Plans \ {p} : /\ status'[q] = status[q] /\ shown'[q] = shown[q]
                             /\ recorded'[q] = recorded[q]
  BY <1>1 DEF Attach, EnterReview, IInv, TypeOK
<1>3. status'[p] # "none"
  <2>1. EnterReview(s) => status'[p] = req[s].arg /\ req[s].arg # "none"
    BY <1>1, RequestFields DEF EnterReview, HoldsRequest, Asks, IInv, TypeOK
  <2> QED
    BY <1>1, <2>1 DEF Attach
<1>4. UNCHANGED <<author, decisions, promotions, binding, config>>
  BY DEF Attach, EnterReview, live
<1>5. \A r \in promotions : r.plan \in Plans
  BY DEF IInv, TypeOK, Promotion
<1> HIDE DEF p
<1> QED
  BY <1>1, <1>2, <1>3, <1>4, <1>5
  DEF IInv, TablesInv, PlansHaveAuthors, DecisionsAreFinal, PromotionsStay,
      SeparationOfDuties, MaterializationMatches

LEMMA DecideKeepsTables ==
  ASSUME IInv, NEW s \in Slots, Decide(s)
  PROVE  TablesInv'
<1> DEFINE p == req[s].plan
           verdict == IF Asks(s, "approve") THEN "approved" ELSE "rejected"
           d == [by |-> who[s], verdict |-> verdict, manifest |-> shown[p]]
<1>1. p \in Plans /\ status[p] = "review_ready" /\ shown[p] \subseteq recorded[p]
      /\ (Asks(s, "approve") => shown[p] = {"valid"})
  BY RequestFields DEF Decide, MayDecide, HoldsRequest, Asks, IInv, TypeOK
<1>2. decisions[p] = {}
  BY <1>1 DEF IInv, DecisionsAreFinal
<1>3. /\ status' = [status EXCEPT ![p] = verdict]
      /\ decisions' = [decisions EXCEPT ![p] = @ \cup {d}]
      /\ UNCHANGED <<author, shown, recorded, promotions, binding, config>>
  BY DEF Decide, live
<1>4. /\ status'[p] = verdict /\ decisions'[p] = {d}
      /\ \A q \in Plans \ {p} : status'[q] = status[q] /\ decisions'[q] = decisions[q]
  BY <1>1, <1>2, <1>3 DEF IInv, TypeOK
<1>5. /\ verdict \in {"approved", "rejected"} /\ d.manifest = shown[p]
      /\ d.verdict = "approved" => shown[p] = {"valid"}
  BY <1>1
<1>6. \A r \in promotions : r.plan \in Plans /\ decisions[r.plan] # {}
  BY DEF IInv, TypeOK, PromotionsStay, SeparationOfDuties, Promotion
<1> HIDE DEF p, d, verdict
<1>7. PlansHaveAuthors' /\ DecisionsAreFinal'
  BY <1>1, <1>3, <1>4, <1>5 DEF IInv, PlansHaveAuthors, DecisionsAreFinal
<1>8. PromotionsStay' /\ MaterializationMatches'
  BY <1>2, <1>3, <1>4, <1>6 DEF IInv, PromotionsStay, SeparationOfDuties, MaterializationMatches
<1> QED
  BY <1>7, <1>8 DEF TablesInv

LEMMA PromotionKeepsTables ==
  ASSUME IInv, NEW s \in Slots, CommitPromotion(s)
  PROVE  TablesInv'
<1> DEFINE p == req[s].plan
           r == [plan |-> p, previous |-> binding, author |-> author[p],
                 approver |-> seen[s], promoter |-> who[s]]
<1>1. p \in Plans /\ Promotable(p, who[s]) /\ who[s] \in Principals
  BY RequestFields
  DEF CommitPromotion, Asks, IInv, TypeOK, SlotInv, ReadsCurrent, Promotes, NamesPrincipal
<1>2. PICK d \in decisions[p] : d.by = seen[s] /\ d.verdict = "approved"
                                /\ seen[s] \notin {author[p], who[s]}
  BY DEF CommitPromotion, IInv, SlotInv, HasApprover
<1>3. d.manifest = {"valid"}
  BY <1>1, <1>2 DEF IInv, DecisionsAreFinal
<1>4. /\ status' = [status EXCEPT ![p] = "promoted"]
      /\ promotions' = promotions \cup {r}
      /\ binding' = p /\ config' = p
      /\ UNCHANGED <<author, shown, recorded, decisions>>
  BY DEF CommitPromotion
<1>5. \A q \in Plans : status'[q] = IF q = p THEN "promoted" ELSE status[q]
  BY <1>1, <1>4 DEF IInv, TypeOK
<1>6. \A x \in promotions : x.plan \in Plans
  BY DEF IInv, TypeOK, Promotion
<1>7. /\ r.plan = p /\ r.author = author[p] /\ r.approver = seen[s] /\ r.promoter = who[s]
      /\ author[p] # who[s]
  BY <1>1 DEF Promotable
<1> HIDE DEF p, r
<1>8. PlansHaveAuthors' /\ DecisionsAreFinal' /\ MaterializationMatches'
  BY <1>1, <1>4, <1>5 DEF IInv, PlansHaveAuthors, DecisionsAreFinal, MaterializationMatches, Promotable
<1>9. PromotionsStay'
  BY <1>1, <1>2, <1>3, <1>4, <1>5, <1>6, <1>7 DEF IInv, PromotionsStay, SeparationOfDuties
<1> QED
  BY <1>8, <1>9 DEF TablesInv

LEMMA StepKeepsTables ==
  ASSUME IInv, NEW s \in Slots, StepOf(s)
  PROVE  TablesInv'
<1>1. Moves(s) \/ Refuse(s) => UNCHANGED <<tables, live>>
  BY DEF Moves, Refuse
<1> QED
  BY <1>1, StepKinds, QuietKeepsTables, CreateKeepsTables, MoveKeepsTables, AttachKeepsTables,
     DecideKeepsTables, PromotionKeepsTables
  DEF Commits

-----------------------------------------------------------------------------
(* The world outside the requests *)

\* Whoever promotes keeps an assignment from being revoked.
LEMMA WorldKeeps ==
  ASSUME IInv,
         \/ \E u \in Principals : Revoke(u) \/ Expire(u)
         \/ \E p \in Plans : Lapse(p)
         \/ \E doc \in Plans \cup {Legacy} : Override(doc)
         \/ UNCHANGED vars
  PROVE  /\ UNCHANGED <<tables, live, calls, locks>>
         /\ \A s \in Slots : SlotInv(s)'
<1>1. UNCHANGED <<tables, live, calls, locks>>
  BY DEF Revoke, Expire, Lapse, Override, GovernedEndState, vars, live
<1>2. ASSUME NEW s \in Slots, NEW u \in pinned[s] PROVE grant'[u] # "revoked"
  <2>1. u \in Principals /\ grant[u] # "revoked"
    BY <1>2 DEF IInv, TypeOK, SlotInv, PinsAuthority
  <2>2. ASSUME NEW v \in Principals, Revoke(v) PROVE v # u /\ grant'[u] = grant[u]
    BY <2>1, <2>2, <1>2 DEF Revoke, IInv, TypeOK
  <2>3. ASSUME NEW v \in Principals, Expire(v) PROVE grant'[u] \in {grant[u], "expired"}
    BY <2>1, <2>3 DEF Expire, IInv, TypeOK
  <2>4. ASSUME ~\E v \in Principals : Revoke(v) \/ Expire(v) PROVE grant' = grant
    BY <2>4 DEF Lapse, Override, vars, world
  <2> QED
    BY <2>1, <2>2, <2>3, <2>4
<1>3. ASSUME NEW s \in Slots PROVE SlotInv(s)'
  BY <1>1, <1>2
  DEF IInv, SlotInv, IsWhole, HoldsLocks, ReadsCurrent, NamesPrincipal, PinsAuthority,
      HasApprover, Shares, OwnsRepository, OwnsPlan, Writes, Promotes, Asks,
      PlanAllows, Promotable, BaseIsCurrent, tables, live, calls, locks
<1> QED
  BY <1>1, <1>3

LEMMA StepIInv == IInv /\ [Next]_vars => IInv'
<1> SUFFICES ASSUME IInv, [Next]_vars PROVE IInv'
  OBVIOUS
<1>1. TypeOK'
  BY StepType
<1>2. ASSUME NEW s \in Slots, StepOf(s) PROVE IInv'
  <2>1. \A t \in Slots \ {s} : SlotInv(t)'
    BY <1>2, OthersKeep
  <2>2. SlotInv(s)'
    <3>1. Refuse(s) \/ (Commits(s) /\ Finish(s)) => SlotInv(s)'
      BY EndedIsFine DEF IInv, Refuse
    <3> QED
      BY <1>2, <3>1, StepKinds, MoversKeep
  <2> QED
    BY <1>1, <1>2, <2>1, <2>2, CreatesStayApart, StepKeepsTables DEF IInv, TablesInv
<1>3. ASSUME ~\E s \in Slots : StepOf(s) PROVE IInv'
  <2>1. /\ UNCHANGED <<tables, live, calls, locks>>
        /\ \A s \in Slots : SlotInv(s)'
    BY <1>3, WorldKeeps DEF Next, StepOf
  <2>2. TablesInv'
    BY <2>1, QuietKeepsTables
  <2>3. CreatesDiffer' /\ OwnerExcludesSharers'
    BY <2>1 DEF IInv, CreatesDiffer, OwnerExcludesSharers, Asks, calls, locks
  <2> QED
    BY <1>1, <2>1, <2>2, <2>3 DEF IInv, TablesInv
<1> QED
  BY <1>2, <1>3

-----------------------------------------------------------------------------
(* The invariants *)

THEOREM Inductive == Spec => []IInv
  BY InitIInv, StepIInv, PTL DEF Spec

\* Every variable keeps its type; in particular a promotion record names
\* principals and a plan (policy_promotion_records).
THEOREM TypeCorrect == Spec => []TypeOK
<1>1. IInv => TypeOK
  BY DEF IInv
<1> QED
  BY Inductive, <1>1, PTL

\* What went live was written, approved and promoted by three principals
\* (selectCurrentAuthorizedApproval, promotePolicyRollout).
THEOREM DutiesAreSeparate == Spec => []SeparationOfDuties
<1>1. IInv => SeparationOfDuties
  BY DEF IInv, PromotionsStay
<1> QED
  BY Inductive, <1>1, PTL

\* A plan is decided once, on the evidence it still shows
\* (recordPolicyApprovalForRollout, appendPolicyEvidenceForRollout).
THEOREM DecisionsMatch == Spec => []DecidedOnWhatIsShown
<1>1. ASSUME IInv, NEW p \in Plans PROVE Cardinality(decisions[p]) <= 1
  <2>1. CASE decisions[p] = {}
    BY <2>1, FS_EmptySet
  <2>2. CASE decisions[p] # {}
    <3>1. PICK d \in decisions[p] : TRUE
      BY <2>2
    <3>2. decisions[p] = {d}
      BY <1>1, <3>1 DEF IInv, DecisionsAreFinal
    <3>3. Cardinality(decisions[p]) = 1
      BY <3>2, FS_Singleton
    <3> QED
      BY <3>3
  <2> QED
    BY <2>1, <2>2
<1>2. IInv => DecidedOnWhatIsShown
  BY <1>1 DEF IInv, DecisionsAreFinal, DecidedOnWhatIsShown
<1> QED
  BY Inductive, <1>2, PTL

\* repo_config is the document of the version the binding names
\* (the deferred trigger of migration 047).
THEOREM ConfigIsGoverned == Spec => []MaterializationMatches
<1>1. IInv => MaterializationMatches
  BY DEF IInv
<1> QED
  BY Inductive, <1>1, PTL

-----------------------------------------------------------------------------
(* Authority at the moment of a promotion *)

\* What a step that adds promotion records must satisfy
UnderAuthority ==
  \A r \in promotions' \ promotions :
    grant[r.promoter] # "revoked" /\ grant[r.approver] # "revoked"

LEMMA OnlyPromotionsPromote ==
  ASSUME [Next]_vars, ~(promotions' \subseteq promotions)
  PROVE  \E s \in Slots : CommitPromotion(s)
<1>1. ASSUME NEW s \in Slots, StepOf(s), ~CommitPromotion(s)
      PROVE  promotions' = promotions
  BY <1>1, StepKinds
  DEF Moves, Refuse, Commits, Create, Move, Attach, EnterReview, Decide, live
<1>2. (\A s \in Slots : ~StepOf(s)) => promotions' = promotions
  BY DEF Next, StepOf, Revoke, Expire, Lapse, Override, vars, live
<1> QED
  BY <1>1, <1>2

\* Neither side's authority is revoked when a promotion becomes visible: the
\* promotion holds both assignments FOR SHARE (requirePersistedEnforcedAuthorization).
THEOREM PromotionsAreAuthorized == Spec => PromotedUnderAuthority
<1>1. ASSUME IInv, [Next]_vars PROVE UnderAuthority
  <2> SUFFICES ASSUME NEW r \in promotions' \ promotions
               PROVE  grant[r.promoter] # "revoked" /\ grant[r.approver] # "revoked"
    BY DEF UnderAuthority
  <2>1. PICK s \in Slots : CommitPromotion(s)
    BY <1>1, OnlyPromotionsPromote
  <2>2. r.promoter = who[s] /\ r.approver = seen[s]
    BY <2>1 DEF CommitPromotion
  <2>3. who[s] # None
    BY <1>1, <2>1, NamesAssumption DEF CommitPromotion, IInv, SlotInv, NamesPrincipal
  <2>4. {who[s], seen[s]} \subseteq pinned[s]
    BY <1>1, <2>1, <2>3 DEF CommitPromotion, IInv, SlotInv, PinsAuthority, OwnsRepository
  <2> QED
    BY <1>1, <2>2, <2>4 DEF IInv, SlotInv, PinsAuthority
<1>2. IInv /\ [Next]_vars => [UnderAuthority]_vars
  BY <1>1
<1> QED
  BY Inductive, <1>2, PTL DEF Spec, PromotedUnderAuthority, UnderAuthority

-----------------------------------------------------------------------------
(* The tables implement the register *)

\* The register's view of a plan's status
StageOf(x) ==
  CASE x = "none" -> "unused"
    [] x = "promoted" -> "installed"
    [] x \in {"rejected", "cancelled"} -> "closed"
    [] OTHER -> "open"

LEMMA InitMaps == Init => Register!RegisterInit
  BY DEF Init, Register!RegisterInit

\* Nothing of the register moves with the status of a plan that stays open.
LEMMA StatusMaps ==
  ASSUME IInv, NEW p \in Plans, NEW x \in Statuses,
         status' = [status EXCEPT ![p] = x],
         UNCHANGED <<base, binding>>,
         StageOf(status[p]) = "open", StageOf(x) \in {"open", "closed"}
  PROVE  Register!Close(p) \/ UNCHANGED Register!registerVars
<1>1. \A q \in Plans : status'[q] = IF q = p THEN x ELSE status[q]
  BY DEF IInv, TypeOK
<1>2. CASE StageOf(x) = "open"
  BY <1>1, <1>2 DEF StageOf, Register!registerVars
<1>3. CASE StageOf(x) = "closed"
  BY <1>1, <1>3 DEF StageOf, Register!Close
<1> QED
  BY <1>2, <1>3

LEMMA StepMaps ==
  ASSUME IInv, [Next]_vars
  PROVE  Register!RegisterNext \/ UNCHANGED Register!registerVars
<1>1. CASE UNCHANGED <<status, base, binding>>
  BY <1>1 DEF Register!registerVars
<1>2. ASSUME NEW s \in Slots, Commits(s)
      PROVE  Register!RegisterNext \/ UNCHANGED Register!registerVars
  <2>q. req[s].plan \in Plans /\ SlotInv(s) /\ TypeOK
    BY <1>2, CommitsOwn, RequestFields DEF WritesOwn, IInv
  <2>r. PICK p \in Plans : p = req[s].plan
    BY <2>q
  <2>p. p = req[s].plan /\ p \in Plans /\ SlotInv(s) /\ TypeOK
    BY <2>q, <2>r
  <2>1. CASE Create(s)
    <3>1. status[p] = "none" /\ seen[s] = binding
      BY <2>1, <2>p DEF Create, Authorized, Asks, SlotInv, IsWhole, ReadsCurrent, Shares
    <3>2. /\ status' = [status EXCEPT ![p] = "draft"] /\ base' = [base EXCEPT ![p] = binding]
          /\ UNCHANGED binding
      BY <2>p, <2>1, <3>1 DEF Create, live
    <3>3. \A q \in Plans : status'[q] = IF q = p THEN "draft" ELSE status[q]
      BY <2>p, <3>2 DEF TypeOK
    <3>4. Register!Propose(p)
      BY <2>p, <3>1, <3>2, <3>3 DEF Register!Propose
    <3> QED
      BY <2>p, <3>4 DEF Register!RegisterNext
  <2>2. CASE Move(s)
    <3>1. req[s].op = "transition" /\ req[s].arg \in EdgeTo(status[p]) /\ req[s].arg # "review_ready"
      BY <2>2, <2>p, RequestFields
      DEF Move, TypeOK, SlotInv, IsWhole, PcOf, Asks, ReadsCurrent, Writes, PlanAllows
    <3>2. req[s].arg \in Statuses /\ StageOf(status[p]) = "open"
          /\ StageOf(req[s].arg) \in {"open", "closed"}
      BY <3>1 DEF EdgeTo, StageOf, Statuses
    <3>3. status' = [status EXCEPT ![p] = req[s].arg] /\ UNCHANGED <<base, binding>>
      BY <2>p, <2>2 DEF Move, live
    <3> QED
      BY <2>p, <3>2, <3>3, StatusMaps DEF Register!RegisterNext
  <2>3. CASE Attach(s)
    BY <1>1, <2>3 DEF Attach, live
  <2>4. CASE EnterReview(s)
    <3>1. /\ status[p] \in {"draft", "validated"} /\ req[s].arg = "review_ready"
      BY <2>4, <2>p, RequestFields
      DEF EnterReview, MayRecord, HoldsRequest, Asks, TypeOK, SlotInv, ReadsCurrent, Writes,
          PlanAllows, EdgeTo
    <3>2. "review_ready" \in Statuses /\ StageOf(status[p]) = "open"
          /\ StageOf("review_ready") = "open"
      BY <3>1 DEF StageOf, Statuses
    <3>3. status' = [status EXCEPT ![p] = "review_ready"] /\ UNCHANGED <<base, binding>>
      BY <2>p, <2>4, <3>1 DEF EnterReview, live
    <3> QED
      BY <2>p, <3>2, <3>3, StatusMaps DEF Register!RegisterNext
  <2>5. CASE Decide(s)
    <3> DEFINE verdict == IF Asks(s, "approve") THEN "approved" ELSE "rejected"
    <3>1. status[p] = "review_ready"
      BY <2>p, <2>5 DEF Decide, MayDecide
    <3>2. verdict \in Statuses /\ StageOf(status[p]) = "open"
          /\ StageOf(verdict) \in {"open", "closed"}
      BY <3>1 DEF StageOf, Statuses
    <3>3. status' = [status EXCEPT ![p] = verdict] /\ UNCHANGED <<base, binding>>
      BY <2>p, <2>5 DEF Decide, live
    <3> HIDE DEF verdict
    <3> QED
      BY <2>p, <3>2, <3>3, StatusMaps DEF Register!RegisterNext
  <2>6. CASE CommitPromotion(s)
    <3>1. status[p] = "approved" /\ base[p] = binding
      BY <2>6, <2>p DEF CommitPromotion, SlotInv, ReadsCurrent, Promotes, Promotable, BaseIsCurrent
    <3>2. status' = [status EXCEPT ![p] = "promoted"] /\ binding' = p /\ UNCHANGED base
      BY <2>p, <2>6 DEF CommitPromotion
    <3>3. \A q \in Plans : status'[q] = IF q = p THEN "promoted" ELSE status[q]
      BY <2>p, <3>2 DEF TypeOK
    <3>4. Register!Install(p)
      BY <2>p, <3>1, <3>2, <3>3 DEF Register!Install
    <3> QED
      BY <2>p, <3>4 DEF Register!RegisterNext
  <2> QED
    BY <1>2, <2>1, <2>2, <2>3, <2>4, <2>5, <2>6 DEF Commits
<1>3. ASSUME NEW s \in Slots, StepOf(s), ~Commits(s)
      PROVE  UNCHANGED <<status, base, binding>>
  BY <1>3, StepKinds DEF Moves, Refuse, tables, live
<1>4. (\A s \in Slots : ~StepOf(s)) => UNCHANGED <<status, base, binding>>
  BY WorldKeeps DEF Next, StepOf, tables, live
<1> QED
  BY <1>1, <1>2, <1>3, <1>4

\* The governed tables implement the register: the live policy only changes from
\* the version a plan was opened on to that plan (assertCurrentBase).
THEOREM Implementation == Spec => ImplementsPolicyRegister
<1>1. IInv /\ [Next]_vars => [Register!RegisterNext]_(Register!registerVars)
  BY StepMaps
<1> QED
  BY InitMaps, Inductive, <1>1, PTL DEF Spec, ImplementsPolicyRegister, Register!RegisterSpec

-----------------------------------------------------------------------------
(* Locks: who has one uses it *)

\* A promotion past loadPromotionEnvelope's first lock
OwnsRequest(s) == (pc[s] = "plan" /\ Asks(s, "promote")) \/ Promotes(s)

\* The converse of HoldsLocks
UsesLocks(s) ==
  /\ repoOwner = s => OwnsRepository(s)
  /\ s \in sharers => Shares(s)
  /\ \A p \in Plans : planOwner[p] = s => OwnsPlan(s) /\ req[s].plan = p
  /\ \A p \in Plans : crOwner[p] = s => OwnsRequest(s) /\ req[s].plan = p

LocksInv == \A s \in Slots : UsesLocks(s)

LEMMA InitLocks == Init => LocksInv
  BY NamesAssumption DEF Init, LocksInv, UsesLocks

\* A step gives no lock to another request.
LEMMA OthersUse ==
  ASSUME IInv, NEW s \in Slots, StepOf(s), NEW t \in Slots \ {s}, UsesLocks(t)
  PROVE  UsesLocks(t)'
<1> USE DEF IInv
<1>1. Undisturbed(t)
  BY OthersUndisturbed
<1>2. s # None /\ t # None
  BY NamesAssumption
<1>3. /\ repoOwner' = t => repoOwner = t
      /\ t \in sharers' => t \in sharers
      /\ \A p \in Plans : /\ planOwner'[p] = t => planOwner[p] = t
                          /\ crOwner'[p] = t => crOwner[p] = t
  <2>1. CASE Finish(s)
    BY <1>2, <2>1 DEF Finish
  <2>2. CASE Moves(s) /\ ~Refuse(s)
    <3>1. CASE Start(s) \/ ShareRepository(s) \/ OwnRepository(s) \/ Authorize(s)
               \/ LockRequestForPromotion(s)
      BY <3>1 DEF Start, ShareRepository, OwnRepository, Authorize, LockRequestForPromotion,
         locks, TypeOK
    <3>2. CASE LockPlan(s) \/ LockPlanForPromotion(s) \/ InsertPromotion(s)
      BY <2>2, <3>2 DEF LockPlan, LockPlanForPromotion, InsertPromotion, locks, TypeOK
    <3>3. CASE AuthorizePromoter(s) \/ SelectApproval(s)
      BY <2>2, <3>3 DEF AuthorizePromoter, SelectApproval
    <3> QED
      BY <2>2, <3>1, <3>2, <3>3 DEF Moves
  <2> QED
    BY <2>1, <2>2, StepKinds DEF Refuse
<1> QED
  BY <1>1, <1>3
  DEF UsesLocks, Undisturbed, OwnsRepository, Shares, OwnsPlan, OwnsRequest, Writes, Promotes, Asks

\* A request takes a lock with the step after which it uses it.
LEMMA MoversUse ==
  ASSUME IInv, NEW s \in Slots, Moves(s), ~Refuse(s), UsesLocks(s)
  PROVE  UsesLocks(s)'
<1> USE DEF UsesLocks, OwnsRepository, Shares, OwnsPlan, OwnsRequest, Writes, Promotes, Asks
<1>1. /\ TypeOK /\ IsWhole(s) /\ NamesPrincipal(s)
      /\ req[s] # None => req[s] \in Request
  BY DEF IInv, TypeOK, SlotInv
<1>2. s # None /\ None \notin Principals
  BY NamesAssumption
<1>3. CASE Start(s)
  BY <1>1, <1>3 DEF Start, GoTo, IsWhole, locks, TypeOK
<1>4. CASE ShareRepository(s) \/ OwnRepository(s)
  BY <1>1, <1>4 DEF ShareRepository, OwnRepository, GoTo, TypeOK
<1>5. CASE LockPlan(s)
  <2>1. /\ planOwner' = [planOwner EXCEPT ![req[s].plan] = s]
        /\ \E l \in {"update", "authorize"} : pc' = [pc EXCEPT ![s] = l]
        /\ pc[s] = "plan" /\ req[s].op # "promote"
        /\ UNCHANGED <<req, who, sharers, repoOwner, crOwner>>
    BY <1>5 DEF LockPlan, GoTo
  <2>2. req[s] \in Request /\ req[s].op # "create"
    BY <1>1, <2>1, RequestFields DEF IsWhole, PcOf
  <2> QED
    BY <1>1, <2>1, <2>2 DEF TypeOK
<1>6. CASE Authorize(s)
  <2>1. /\ pc[s] = "authorize" /\ pc' = [pc EXCEPT ![s] = "cr"] /\ ~Asks(s, "create")
        /\ UNCHANGED <<req, sharers, repoOwner, planOwner, crOwner>>
    BY <1>6 DEF Authorize, Authorized, GoTo, locks
  <2>2. ~Asks(s, "promote")
    BY <1>1, <2>1 DEF IsWhole, PcOf
  <2> QED
    BY <1>1, <2>1, <2>2 DEF TypeOK
<1>7. CASE AuthorizePromoter(s)
  <2>1. PICK u \in IF who[s] = None THEN Principals ELSE {who[s]} :
          /\ who' = [who EXCEPT ![s] = u]
          /\ pc' = [pc EXCEPT ![s] = IF who[s] = None THEN "cr" ELSE "select"]
          /\ UNCHANGED <<req, sharers, repoOwner, planOwner, crOwner>>
    BY <1>7 DEF AuthorizePromoter, GoTo
  <2>2. pc[s] = "promoter" /\ req[s] \in Request /\ req[s].op = "promote"
    BY <1>1, <1>7, RequestFields DEF AuthorizePromoter, IsWhole, PcOf
  <2>3. pc'[s] = (IF who[s] = None THEN "cr" ELSE "select") /\ req[s] # None
    BY <2>1, <2>2, RequestFields DEF IInv, TypeOK
  <2>4. CASE who[s] = None
    <3>1. \A p \in Plans : planOwner[p] # s /\ crOwner[p] # s
      BY <2>2, <2>4
    <3> QED
      BY <2>1, <2>2, <2>3, <2>4, <3>1
  <2>5. CASE who[s] # None
    BY <2>1, <2>2, <2>3, <2>5
  <2> QED
    BY <2>4, <2>5
<1>8. CASE LockRequestForPromotion(s)
  BY <1>1, <1>8 DEF LockRequestForPromotion, GoTo, TypeOK
<1>9. CASE LockPlanForPromotion(s)
  BY <1>1, <1>9 DEF LockPlanForPromotion, GoTo, TypeOK
<1>10. CASE SelectApproval(s)
  BY <1>1, <1>10 DEF SelectApproval, GoTo, TypeOK
<1>11. CASE InsertPromotion(s)
  <2>1. who[s] # None
    BY <1>1, <1>2, <1>11 DEF InsertPromotion, NamesPrincipal
  <2> QED
    BY <1>1, <1>11, <2>1 DEF InsertPromotion, GoTo, locks, TypeOK
<1> QED
  BY <1>3, <1>4, <1>5, <1>6, <1>7, <1>8, <1>9, <1>10, <1>11 DEF Moves

LEMMA EndedUseNothing ==
  ASSUME NEW s \in Slots, Finish(s)
  PROVE  UsesLocks(s)'
  BY NamesAssumption DEF Finish, UsesLocks

LEMMA StepLocks == IInv /\ LocksInv /\ [Next]_vars => LocksInv'
<1> SUFFICES ASSUME IInv, LocksInv, [Next]_vars PROVE LocksInv'
  OBVIOUS
<1>1. ASSUME NEW s \in Slots, StepOf(s) PROVE LocksInv'
  <2>1. UsesLocks(s)'
    BY <1>1, StepKinds, MoversUse, EndedUseNothing DEF LocksInv, Refuse
  <2> QED
    BY <1>1, <2>1, OthersUse DEF LocksInv
<1>2. ASSUME ~\E s \in Slots : StepOf(s) PROVE LocksInv'
  <2>1. UNCHANGED <<calls, locks>>
    BY <1>2, WorldKeeps DEF Next, StepOf
  <2> QED
    BY <2>1 DEF LocksInv, UsesLocks, OwnsRepository, Shares, OwnsPlan, OwnsRequest, Writes,
       Promotes, Asks, calls, locks
<1> QED
  BY <1>1, <1>2

\* Promotion t waits for the plan u has, u for the change request t has.
CrossWait(t, u) ==
  /\ pc[t] = "plan" /\ Asks(t, "promote") /\ WaitsFor(t) = {u}
  /\ pc[u] = "cr" /\ ~Asks(u, "promote") /\ WaitsFor(u) = {t}
  /\ req[t].plan = req[u].plan

OnlyCrossWaits ==
  \A s \in Slots : Deadlocked(s) => \E t, u \in Slots : CrossWait(t, u)

LEMMA WritersCrossPromotions ==
  ASSUME IInv, LocksInv, NEW u \in Slots, pc[u] = "cr", ~Asks(u, "promote"),
         NEW t \in Slots, crOwner[req[u].plan] = t, WaitsFor(t) # {}
  PROVE  CrossWait(t, u)
<1>1. req[u] \in Request /\ req[u].plan \in Plans
  BY RequestFields DEF IInv, TypeOK, SlotInv, IsWhole
<1>2. OwnsRequest(t) /\ req[t].plan = req[u].plan
  BY <1>1 DEF LocksInv, UsesLocks
<1>3. pc[t] = "plan" /\ Asks(t, "promote")
  BY <1>2 DEF OwnsRequest, Promotes, WaitsFor
<1>4. planOwner[req[u].plan] = u
  BY <1>1 DEF IInv, SlotInv, IsWhole, HoldsLocks, OwnsPlan, Writes, Asks, PcOf
<1> QED
  BY <1>2, <1>3, <1>4 DEF CrossWait, WaitsFor

LEMMA CirclesCross == IInv /\ LocksInv => OnlyCrossWaits
<1> SUFFICES ASSUME IInv, LocksInv,
                    NEW C \in SUBSET Slots, NEW s \in C, \A t \in C : WaitsFor(t) \cap C # {}
             PROVE  \E t, u \in Slots : CrossWait(t, u)
  BY DEF OnlyCrossWaits, Deadlocked
<1>1. ASSUME NEW u \in C, pc[u] = "cr", ~Asks(u, "promote")
      PROVE  \E t, v \in Slots : CrossWait(t, v)
  <2>1. PICK t \in C : t = crOwner[req[u].plan]
    BY <1>1 DEF WaitsFor
  <2> QED
    BY <1>1, <2>1, WritersCrossPromotions
<1>2. ASSUME NEW u \in C, pc[u] = "plan"
      PROVE  \E t, v \in Slots : CrossWait(t, v)
  <2>1. PICK t \in C : t = planOwner[req[u].plan]
    BY <1>2 DEF WaitsFor
  <2>2. req[u].plan \in Plans
    BY <1>2, RequestFields DEF IInv, TypeOK, SlotInv, IsWhole
  <2>3. OwnsPlan(t) /\ WaitsFor(t) # {}
    BY <2>1, <2>2 DEF LocksInv, UsesLocks
  <2>4. pc[t] = "cr" /\ ~Asks(t, "promote")
    BY <2>3 DEF OwnsPlan, Writes, Promotes, WaitsFor
  <2> QED
    BY <1>1, <2>4
<1>3. ASSUME NEW u \in C, NEW t \in C, repoOwner = t
      PROVE  \E v, w \in Slots : CrossWait(v, w)
  <2>1. OwnsRepository(t) /\ WaitsFor(t) # {}
    BY <1>3 DEF LocksInv, UsesLocks
  <2>2. pc[t] \in {"cr", "plan"} /\ Asks(t, "promote")
    BY <2>1 DEF OwnsRepository, WaitsFor
  <2>3. CASE pc[t] = "cr"
    <3>1. PICK v \in C : v = crOwner[req[t].plan]
      BY <2>3 DEF WaitsFor
    <3>2. req[t].plan \in Plans
      BY <2>3, RequestFields DEF IInv, TypeOK, SlotInv, IsWhole
    <3>3. OwnsRequest(v)
      BY <3>1, <3>2 DEF LocksInv, UsesLocks
    <3>4. OwnsRepository(v)
      BY <3>3 DEF OwnsRequest, OwnsRepository, Promotes
    <3>5. v = t
      BY <1>3, <3>4 DEF IInv, SlotInv, HoldsLocks
    <3> QED
      BY <2>3, <3>3, <3>5 DEF OwnsRequest, Promotes
  <2> QED
    BY <1>2, <2>2, <2>3
<1>4. CASE pc[s] = "repo"
  <2>1. ASSUME NEW t \in C, t \in sharers PROVE FALSE
    <3>1. Shares(t)
      BY <2>1 DEF LocksInv, UsesLocks
    <3> QED
      BY <3>1, <2>1 DEF Shares, WaitsFor
  <2> QED
    BY <1>3, <1>4, <2>1 DEF WaitsFor
<1>5. CASE pc[s] = "cr" /\ Asks(s, "promote")
  <2>1. repoOwner = s
    BY <1>5 DEF IInv, SlotInv, HoldsLocks, OwnsRepository
  <2> QED
    BY <1>3, <2>1
<1>6. pc[s] \in {"repo", "plan", "cr"}
  BY DEF WaitsFor
<1> QED
  BY <1>1, <1>2, <1>4, <1>5, <1>6

\* Requests wait in a circle in one way only: a promotion has the change request
\* and wants the plan (loadPromotionEnvelope), another writer has the plan and
\* wants the change request (getAuthorityEnvelope after the writer's own SELECT
\* ... FOR UPDATE).  Everything else is locked in an order.
THEOREM CirclesAreCrossWaits == Spec => []OnlyCrossWaits
  BY Inductive, InitLocks, StepLocks, CirclesCross, PTL DEF Spec

-----------------------------------------------------------------------------
(* The history of the live policy *)

\* Promotion records are a chain from the first governed policy to the live one:
\* no version is replaced twice, or promoted twice.
PromotionsChain ==
  /\ \A r \in promotions :
       /\ r.previous # binding
       /\ r.previous = None \/ \E q \in promotions : q.plan = r.previous
  /\ \A r, q \in promotions : r.previous = q.previous \/ r.plan = q.plan => r = q
  /\ IF binding = None THEN promotions = {} ELSE \E r \in promotions : r.plan = binding

ChainInv == PromotionsChain /\ \A r \in promotions : status[r.plan] = "promoted"

LEMMA PromotedStays ==
  ASSUME IInv, [Next]_vars, NEW p \in Plans, status[p] = "promoted"
  PROVE  status'[p] = "promoted"
<1> DEFINE stage(x) == [q \in Plans |-> StageOf(x[q])]
<1>1. Register!RegisterNext \/ UNCHANGED Register!registerVars
  BY StepMaps
<1>2. StageOf(status[p]) = "installed"
  BY DEF StageOf
<1>3. StageOf(status'[p]) = "installed"
  BY <1>1, <1>2 DEF StageOf, Register!RegisterNext, Register!registerVars, Register!Propose,
     Register!Close, Register!Install
<1> QED
  BY <1>3 DEF StageOf

LEMMA PromotionChains ==
  ASSUME IInv, ChainInv, NEW s \in Slots, CommitPromotion(s)
  PROVE  ChainInv'
<1> DEFINE p == req[s].plan
           r == [plan |-> p, previous |-> binding, author |-> author[p],
                 approver |-> seen[s], promoter |-> who[s]]
<1>1. /\ promotions' = promotions \cup {r} /\ binding' = p
      /\ status' = [status EXCEPT ![p] = "promoted"]
  BY DEF CommitPromotion
<1>2. p \in Plans /\ p # None
  BY RequestFields, NamesAssumption DEF CommitPromotion, IInv, TypeOK, SlotInv, IsWhole
<1>3. status[p] = "approved"
  BY DEF CommitPromotion, IInv, SlotInv, ReadsCurrent, Promotes, Promotable
<1>4. \A q \in promotions : q.plan # p /\ q.previous # p
  BY <1>2, <1>3 DEF ChainInv, PromotionsChain
<1>5. binding # p
  BY <1>2, <1>4 DEF ChainInv, PromotionsChain
<1>6. r.plan = p /\ r.previous = binding
  OBVIOUS
<1>7. \A q \in promotions' : q = r \/ q \in promotions
  BY <1>1
<1> HIDE DEF r
<1>8. \A q \in promotions' : status'[q.plan] = "promoted"
  BY <1>1, <1>2, <1>6, <1>7 DEF ChainInv, IInv, TypeOK, Promotion
<1>9. \A q \in promotions' : /\ q.previous # binding'
                             /\ q.previous = None \/ \E x \in promotions' : x.plan = q.previous
  BY <1>1, <1>4, <1>5, <1>6, <1>7 DEF ChainInv, PromotionsChain
<1>10. \A q, x \in promotions' : q.previous = x.previous \/ q.plan = x.plan => q = x
  BY <1>1, <1>4, <1>6, <1>7 DEF ChainInv, PromotionsChain
<1>11. binding' # None /\ \E q \in promotions' : q.plan = binding'
  BY <1>1, <1>2, <1>6
<1> QED
  BY <1>8, <1>9, <1>10, <1>11 DEF ChainInv, PromotionsChain

LEMMA StepChains == IInv /\ ChainInv /\ [Next]_vars => ChainInv'
<1> SUFFICES ASSUME IInv, ChainInv, [Next]_vars PROVE ChainInv'
  OBVIOUS
<1>1. CASE \E s \in Slots : CommitPromotion(s)
  BY <1>1, PromotionChains
<1>2. CASE ~\E s \in Slots : CommitPromotion(s)
  <2>1. ASSUME NEW s \in Slots, StepOf(s) PROVE UNCHANGED <<promotions, binding>>
    BY <1>2, <2>1, StepKinds
    DEF Moves, Refuse, Commits, Create, Move, Attach, EnterReview, Decide, live
  <2>2. (\A s \in Slots : ~StepOf(s)) => UNCHANGED <<promotions, binding>>
    BY WorldKeeps DEF Next, StepOf, live
  <2>3. UNCHANGED <<promotions, binding>>
    BY <2>1, <2>2
  <2>4. \A r \in promotions : status'[r.plan] = "promoted"
    BY PromotedStays DEF ChainInv, IInv, TypeOK, Promotion
  <2> QED
    BY <2>3, <2>4 DEF ChainInv, PromotionsChain
<1> QED
  BY <1>1, <1>2

\* No update of the live policy is lost, however many plans are promoted at once:
\* each promotion replaced the version its plan was opened on, and no other
\* promotion did (assertCurrentBase under lockActivePolicyState).
THEOREM PromotionsAreAChain == Spec => []PromotionsChain
<1>1. Init => ChainInv
  BY DEF Init, ChainInv, PromotionsChain
<1>2. ChainInv => PromotionsChain
  BY DEF ChainInv
<1> QED
  BY Inductive, <1>1, StepChains, <1>2, PTL DEF Spec
=============================================================================

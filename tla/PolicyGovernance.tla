-------------------------- MODULE PolicyGovernance --------------------------
(***************************************************************************)
(* How a policy becomes live in one repository: the governed writers of    *)
(* governedPolicyWriterService.js over policyAuthorityService.js, and the  *)
(* promotion of policyPromotionService.js, as requests that run at the     *)
(* same time.  Each request is one transaction (READ COMMITTED): its       *)
(* writes are private until COMMIT, so the tables below change only in a   *)
(* request's last step, and rows are protected by locks on rows, never     *)
(* by the isolation level.  Each lock request and each authorization is a  *)
(* step; statements in between work on locked rows.  Checks that storage   *)
(* repeats (CHECK constraints, most triggers of migrations 045 and 046)    *)
(* are not repeated here.                                                  *)
(***************************************************************************)
EXTENDS Naturals, FiniteSets

CONSTANTS
  Slots,        \* requests in progress at a time; a slot is used again
  Principals,
  Plans,        \* rollout plans; a plan has one policy version, named alike
  Evidence,     \* what decisions tell apart of the evidence: the verdict of the
                \* validation result; the other three types travel with it
  PoolSize,     \* database connections of the process
  MaxLost,      \* bound: assignments and approvals that come to an end
  Legacy,       \* a live configuration from before governance
  None

ASSUME NamesAssumption ==
  None \notin Plans \cup Principals \cup Slots \cup {Legacy} /\ Legacy \notin Plans
ASSUME EvidenceAssumption == Evidence \subseteq {"valid", "invalid"}
ASSUME BoundsAssumption == PoolSize \in Nat \ {0} /\ MaxLost \in Nat

Statuses == {"none", "draft", "validated", "review_ready", "approved",
             "rejected", "cancelled", "promoted"}

\* VALID_TRANSITIONS, without the edges that have an endpoint of their own
EdgeTo(old) ==
  CASE old = "draft"     -> {"validated", "cancelled"}
    [] old = "validated" -> {"review_ready", "cancelled"}
    [] old \in {"review_ready", "approved"} -> {"cancelled"}
    [] OTHER -> {}

Decision == [by: Principals, verdict: {"approved", "rejected"},
             manifest: SUBSET Evidence]
Promotion == [plan: Plans, previous: Plans \cup {None}, author: Principals,
              approver: Principals, promoter: Principals]
Request ==
  LET Asking(ops, args) == [op: ops, plan: Plans, arg: args] IN
  Asking({"create", "approve", "reject", "promote"}, {None})
    \cup Asking({"attach"}, Evidence)
    \cup Asking({"transition"}, {"validated", "review_ready", "cancelled"})

ASSUME RequestAssumption == None \notin Request

VARIABLES
  \* plans, change requests and evidence
  status, author, base,
  shown,        \* evidence columns of the plan
  recorded,     \* immutable evidence records
  decisions,    \* immutable approval records
  lapsed,       \* plans whose approval is past its expires_at
  \* the live policy
  promotions,   \* immutable promotion records
  binding,      \* active_policy_bindings
  config,       \* repo_config
  \* authority: each principal's role assignment
  grant,
  \* requests: where each is, what it asks, who makes it (named when first
  \* looked at: nothing before depends on it), what it read (a create the base
  \* it builds on, a promotion the approver it relies on)
  pc, req, who, seen,
  \* locks on the repository row, plans, change requests and assignments
  sharers, repoOwner, planOwner, crOwner, pinned

tables == <<status, author, base, shown, recorded, decisions>>
live == <<promotions, binding, config>>
world == <<grant, lapsed>>
locks == <<sharers, repoOwner, planOwner, crOwner, pinned>>
calls == <<pc, req, who, seen>>
vars == <<tables, live, world, calls, locks>>

Init ==
  /\ status = [p \in Plans |-> "none"]
  /\ author = [p \in Plans |-> None]
  /\ base = [p \in Plans |-> None]
  /\ shown = [p \in Plans |-> {}]
  /\ recorded = [p \in Plans |-> {}]
  /\ decisions = [p \in Plans |-> {}]
  /\ lapsed = {}
  /\ promotions = {} /\ binding = None /\ config \in {None, Legacy}
  /\ grant = [u \in Principals |-> "current"]
  /\ pc = [s \in Slots |-> "idle"]
  /\ req = [s \in Slots |-> None]
  /\ who = [s \in Slots |-> None]
  /\ seen = [s \in Slots |-> None]
  /\ sharers = {} /\ repoOwner = None
  /\ planOwner = [p \in Plans |-> None]
  /\ crOwner = [p \in Plans |-> None]
  /\ pinned = [s \in Slots |-> {}]
-----------------------------------------------------------------------------
(* Requests, their connection and their locks *)

Connected == {s \in Slots : pc[s] # "idle"}
FreeConnection == Cardinality(Connected) < PoolSize

GoTo(s, l) == pc' = [pc EXCEPT ![s] = l]
Asks(s, o) == req[s] # None /\ req[s].op = o

\* COMMIT or ROLLBACK, then the answer: every lock is released.
Finish(s) ==
  /\ GoTo(s, "idle")
  /\ req' = [req EXCEPT ![s] = None]
  /\ who' = [who EXCEPT ![s] = None]
  /\ seen' = [seen EXCEPT ![s] = None]
  /\ sharers' = sharers \ {s}
  /\ repoOwner' = IF repoOwner = s THEN None ELSE repoOwner
  /\ planOwner' = [p \in Plans |-> IF planOwner[p] = s THEN None ELSE planOwner[p]]
  /\ crOwner' = [p \in Plans |-> IF crOwner[p] = s THEN None ELSE crOwner[p]]
  /\ pinned' = [pinned EXCEPT ![s] = {}]

\* s is refused: nothing it wrote stays.
Refuse(s) == Finish(s) /\ UNCHANGED <<tables, live, world>>

\* A plan that is created gets an id no other request has.
Creates(p) == \E s \in Slots : Asks(s, "create") /\ req[s].plan = p

\* A request arrives and BEGINs on a connection of the pool.
Start(s) ==
  /\ pc[s] = "idle" /\ FreeConnection
  /\ \E r \in Request :
       /\ r.op = "create" => status[r.plan] = "none" /\ ~Creates(r.plan)
       /\ status[r.plan] = "none" => r.op = "create"
       /\ req' = [req EXCEPT ![s] = r]
       /\ GoTo(s, CASE r.op \in {"create", "promote"} -> "repo"
                    [] OTHER -> "plan")
  /\ UNCHANGED <<tables, live, world, who, seen, locks>>

\* createGovernedRolloutPlan: FOR SHARE on the repository, and the active
\* version is read, which only the owner of that row can change.
ShareRepository(s) ==
  /\ pc[s] = "repo" /\ Asks(s, "create") /\ repoOwner = None
  /\ sharers' = sharers \cup {s}
  /\ seen' = [seen EXCEPT ![s] = binding]
  /\ GoTo(s, "authorize")
  /\ UNCHANGED <<tables, live, world, req, who, repoOwner, planOwner, crOwner, pinned>>

\* lockActivePolicyState: FOR UPDATE on the repository and the live policy
OwnRepository(s) ==
  /\ pc[s] = "repo" /\ Asks(s, "promote") /\ repoOwner = None /\ sharers = {}
  /\ repoOwner' = s
  /\ GoTo(s, "promoter")
  /\ UNCHANGED <<tables, live, world, req, who, seen, sharers, planOwner, crOwner, pinned>>

\* authorizeControlled for principal u on another connection of the pool:
\* nothing stays locked.
Authorized(s, u) == pc[s] = "authorize" /\ FreeConnection /\ grant[u] = "current"

Denied(s) ==
  /\ pc[s] = "update" \/ (pc[s] = "authorize" /\ FreeConnection)
  /\ \E u \in Principals : grant[u] # "current"
  /\ Refuse(s)

\* The author is allowed to, and the plan is inserted with its version and its
\* change request; it is not visible before.
Create(s) ==
  LET p == req[s].plan IN
  /\ Asks(s, "create")
  /\ \E u \in Principals : Authorized(s, u) /\ author' = [author EXCEPT ![p] = u]
  /\ status' = [status EXCEPT ![p] = "draft"]
  /\ base' = [base EXCEPT ![p] = seen[s]]
  /\ Finish(s)
  /\ UNCHANGED <<shown, recorded, decisions, live, world>>
-----------------------------------------------------------------------------
(* attach, transition, approve, reject: the plan's row, then the change request *)

\* What the writers check of the plan they have locked
PlanAllows(r) ==
  CASE r.op = "attach" -> status[r.plan] \in {"draft", "validated"}
    [] r.op = "transition" ->
         /\ r.arg \in EdgeTo(status[r.plan])
         /\ r.arg = "review_ready" => shown[r.plan] # {}
    [] r.op = "approve" -> status[r.plan] = "review_ready" /\ shown[r.plan] = {"valid"}
    [] r.op = "reject" -> status[r.plan] = "review_ready"
    [] OTHER -> FALSE

\* SELECT ... FOR UPDATE of the plan
LockPlan(s) ==
  LET r == req[s] IN
  /\ pc[s] = "plan" /\ r.op # "promote" /\ planOwner[r.plan] = None
  /\ IF PlanAllows(r)
     THEN /\ planOwner' = [planOwner EXCEPT ![r.plan] = s]
          /\ GoTo(s, IF r.op = "transition" /\ r.arg # "review_ready"
                     THEN "update" ELSE "authorize")
          /\ UNCHANGED <<tables, live, world, req, who, seen, sharers, repoOwner, crOwner, pinned>>
     ELSE Refuse(s)

\* What needs the change request as well; only a decision remembers who made it.
Authorize(s) ==
  /\ ~Asks(s, "create")
  /\ \E u \in Principals :
       /\ Authorized(s, u)
       /\ who' = [who EXCEPT ![s] = IF req[s].op \in {"approve", "reject"} THEN u ELSE None]
  /\ GoTo(s, "cr")
  /\ UNCHANGED <<tables, live, world, req, seen, locks>>

\* requireRolloutUpdateAuthorization on the transaction's own connection, and
\* the plan is moved.
Move(s) ==
  /\ pc[s] = "update"
  /\ \E u \in Principals : grant[u] = "current"
  /\ status' = [status EXCEPT ![req[s].plan] = req[s].arg]
  /\ Finish(s)
  /\ UNCHANGED <<author, base, shown, recorded, decisions, live, world>>

\* getAuthorityEnvelope FOR UPDATE OF cr, p.  With both rows locked nobody can
\* tell the statements that follow from their COMMIT.
HoldsRequest(s, o) == pc[s] = "cr" /\ Asks(s, o) /\ crOwner[req[s].plan] = None

\* appendPolicyEvidenceForRollout: evidence is frozen by a decision
MayRecord(s) ==
  status[req[s].plan] \in {"draft", "validated"} /\ decisions[req[s].plan] = {}

Attach(s) ==
  LET p == req[s].plan  e == req[s].arg IN
  /\ HoldsRequest(s, "attach") /\ MayRecord(s)
  /\ shown' = [shown EXCEPT ![p] = {e}]
  /\ recorded' = [recorded EXCEPT ![p] = @ \cup {e}]
  /\ Finish(s)
  /\ UNCHANGED <<status, author, base, decisions, live, world>>

\* Entering review records what is attached.
EnterReview(s) ==
  LET p == req[s].plan IN
  /\ HoldsRequest(s, "transition") /\ MayRecord(s)
  /\ status' = [status EXCEPT ![p] = req[s].arg]
  /\ recorded' = [recorded EXCEPT ![p] = @ \cup shown[p]]
  /\ Finish(s)
  /\ UNCHANGED <<author, base, shown, decisions, live, world>>

\* recordPolicyApprovalForRollout: who may decide, and on what
MayDecide(s) ==
  LET p == req[s].plan IN
  /\ status[p] = "review_ready" /\ \A d \in decisions[p] : d.by # who[s]
  /\ shown[p] \subseteq recorded[p]
  /\ Asks(s, "approve") => who[s] # author[p] /\ shown[p] = {"valid"}

\* Mutant: the record is written, the plan's own row is not.
DecideOnRecordOnly(s) ==
  /\ HoldsRequest(s, "approve") \/ HoldsRequest(s, "reject")
  /\ MayDecide(s)
  /\ decisions' = [decisions EXCEPT ![req[s].plan] = @ \cup
       {[by |-> who[s], verdict |-> IF Asks(s, "approve") THEN "approved" ELSE "rejected",
         manifest |-> shown[req[s].plan]]}]
  /\ Finish(s)
  /\ UNCHANGED <<status, author, base, shown, recorded, live, world>>

Decide(s) ==
  LET p == req[s].plan
      verdict == IF Asks(s, "approve") THEN "approved" ELSE "rejected" IN
  /\ HoldsRequest(s, "approve") \/ HoldsRequest(s, "reject")
  /\ MayDecide(s)
  /\ status' = [status EXCEPT ![p] = verdict]
  /\ decisions' = [decisions EXCEPT ![p] = @ \cup
       {[by |-> who[s], verdict |-> verdict, manifest |-> shown[p]]}]
  /\ Finish(s)
  /\ UNCHANGED <<author, base, shown, recorded, live, world>>

\* What the authority service refuses with the change request locked
RefuseRequest(s) ==
  /\ \/ (HoldsRequest(s, "attach") \/ HoldsRequest(s, "transition")) /\ ~MayRecord(s)
     \/ (HoldsRequest(s, "approve") \/ HoldsRequest(s, "reject")) /\ ~MayDecide(s)
  /\ Refuse(s)
-----------------------------------------------------------------------------
(* promotePolicyRollout *)

\* The promoter is authorized inside the transaction: the assignment stays locked
\* FOR SHARE.  A promoter without authority is told so; the denial is all that
\* commits.  The second time round the principal is known and the plan locked.
AuthorizePromoter(s) ==
  /\ pc[s] = "promoter"
  /\ \E u \in IF who[s] = None THEN Principals ELSE {who[s]} :
       IF grant[u] = "current"
       THEN /\ who' = [who EXCEPT ![s] = u]
            /\ pinned' = [pinned EXCEPT ![s] = @ \cup {u}]
            /\ GoTo(s, IF who[s] = None THEN "cr" ELSE "select")
            /\ UNCHANGED <<tables, live, world, req, seen, sharers, repoOwner, planOwner, crOwner>>
       ELSE Refuse(s)

\* loadPromotionEnvelope locks the change request before the plan.
LockRequestForPromotion(s) ==
  /\ pc[s] = "cr" /\ Asks(s, "promote") /\ crOwner[req[s].plan] = None
  /\ crOwner' = [crOwner EXCEPT ![req[s].plan] = s]
  /\ GoTo(s, "plan")
  /\ UNCHANGED <<tables, live, world, req, who, seen, sharers, repoOwner, planOwner, pinned>>

\* assertCurrentBase
BaseIsCurrent(p) == base[p] = binding /\ (binding # None => config = binding)

\* Mutant: an approval outlives the cancellation of its plan.
EverApproved(p, u) ==
  (\E d \in decisions[p] : d.verdict = "approved") /\ BaseIsCurrent(p) /\ u # author[p]

\* What the promotion checks of the plan it has locked
Promotable(p, u) == status[p] = "approved" /\ BaseIsCurrent(p) /\ u # author[p]

LockPlanForPromotion(s) ==
  LET p == req[s].plan IN
  /\ pc[s] = "plan" /\ Asks(s, "promote") /\ planOwner[p] = None
  /\ IF Promotable(p, who[s])
     THEN /\ planOwner' = [planOwner EXCEPT ![p] = s]
          /\ GoTo(s, "select")
          /\ UNCHANGED <<tables, live, world, req, who, seen, sharers, repoOwner, crOwner, pinned>>
     ELSE Refuse(s)

\* Mutant: the promoter's own approval counts.
UsableByAnyone(p, u) ==
  {d \in decisions[p] : /\ d.verdict = "approved" /\ p \notin lapsed
                        /\ d.by # author[p] /\ "valid" \in d.manifest}

\* Approvals that a promotion by u may rely on
Usable(p, u) ==
  {d \in decisions[p] : /\ d.verdict = "approved" /\ p \notin lapsed
                        /\ d.by \notin {author[p], u} /\ "valid" \in d.manifest}

\* Mutant: the approver is authorized without locking the assignment.
SelectUnlocked(s) ==
  LET found == {d \in Usable(req[s].plan, who[s]) : grant[d.by] = "current"} IN
  /\ pc[s] = "select" /\ found # {}
  /\ \E d \in found : seen' = [seen EXCEPT ![s] = d.by]
  /\ GoTo(s, "insert")
  /\ UNCHANGED <<tables, live, world, req, who, locks>>

\* Mutant: the approval is taken for its approver.
SelectRecord(s) ==
  /\ pc[s] = "select"
  /\ \E d \in Usable(req[s].plan, who[s]) : seen' = [seen EXCEPT ![s] = d]
  /\ GoTo(s, "commit")
  /\ UNCHANGED <<tables, live, world, req, who, locks>>

\* selectCurrentAuthorizedApproval: the first usable approval whose approver is
\* authorized now, with that authority locked
SelectApproval(s) ==
  LET p == req[s].plan
      found == {d \in Usable(p, who[s]) : grant[d.by] = "current"} IN
  /\ pc[s] = "select"
  /\ IF (\A d \in decisions[p] : d.verdict # "rejected") /\ found # {}
     THEN \E d \in found :
            /\ seen' = [seen EXCEPT ![s] = d.by]
            /\ pinned' = [pinned EXCEPT ![s] = @ \cup {d.by}]
            /\ GoTo(s, "insert")
            /\ UNCHANGED <<tables, live, world, req, who, sharers, repoOwner, planOwner, crOwner>>
     ELSE Refuse(s)

\* The promotion record is inserted if both assignments are still current; if
\* not, both sides are authorized again.  The trigger refuses a lapsed approval.
InsertPromotion(s) ==
  /\ pc[s] = "insert"
  /\ IF grant[who[s]] = "current" /\ grant[seen[s]] = "current"
     THEN IF req[s].plan \notin lapsed
          THEN /\ GoTo(s, "commit")
               /\ UNCHANGED <<tables, live, world, req, who, seen, locks>>
          ELSE Refuse(s)
     ELSE /\ GoTo(s, "promoter")
          /\ UNCHANGED <<tables, live, world, req, who, seen, locks>>

\* Mutant: any document passes once there is a binding.
BoundEndState(doc, bound, byPromotion) == bound # None

\* The deferred trigger of migration 047: what repo_config is left at
GovernedEndState(doc, bound, byPromotion) == bound # None /\ doc = bound /\ byPromotion

CommitPromotion(s) ==
  LET p == req[s].plan IN
  /\ pc[s] = "commit" /\ Asks(s, "promote")
  /\ promotions' = promotions \cup
       {[plan |-> p, previous |-> binding, author |-> author[p],
         approver |-> seen[s], promoter |-> who[s]]}
  /\ binding' = p
  /\ config' = p
  /\ GovernedEndState(p, p, TRUE)
  /\ status' = [status EXCEPT ![p] = "promoted"]
  /\ Finish(s)
  /\ UNCHANGED <<author, base, shown, recorded, decisions, world>>

\* setConfigOverrides: the row is written directly, and its COMMIT decides.  A
\* promotion locks the row first, if there is one.
Override(doc) ==
  /\ repoOwner = None
  /\ config' = IF GovernedEndState(doc, binding, FALSE) THEN doc ELSE config
  /\ UNCHANGED <<tables, promotions, binding, world, calls, locks>>
-----------------------------------------------------------------------------
(* Failures and the world *)

\* Any statement may fail; the transaction rolls back and the caller is told.
Fail(s) == pc[s] # "idle" /\ Refuse(s)

\* The requests whose locks s waits for
WaitsFor(s) ==
  CASE pc[s] = "repo" -> {repoOwner} \cup (IF Asks(s, "promote") THEN sharers ELSE {})
    [] pc[s] = "plan" -> {planOwner[req[s].plan]}
    [] pc[s] = "cr"   -> {crOwner[req[s].plan]}
    [] OTHER          -> {}

\* PostgreSQL ends a wait in a circle after deadlock_timeout.
Deadlocked(s) ==
  \E C \in SUBSET Slots : s \in C /\ \A t \in C : WaitsFor(t) \cap C # {}

\* Mutant: a wait for a connection has no limit.
NeverStarved(s) == FALSE

\* The pool ends a wait for a connection after connectionTimeoutMillis.
Starved(s) == pc[s] = "authorize" /\ ~FreeConnection

GiveUp(s) == (Deadlocked(s) \/ Starved(s)) /\ Refuse(s)

MayLose ==
  Cardinality({u \in Principals : grant[u] # "current"}) + Cardinality(lapsed) < MaxLost

\* An administrator's UPDATE waits for the locks on the assignment.
Revoke(u) ==
  /\ MayLose /\ grant[u] = "current" /\ \A s \in Slots : u \notin pinned[s]
  /\ grant' = [grant EXCEPT ![u] = "revoked"]
  /\ UNCHANGED <<tables, live, lapsed, calls, locks>>

\* Time passes whatever is locked.
Expire(u) ==
  /\ MayLose /\ grant[u] = "current"
  /\ grant' = [grant EXCEPT ![u] = "expired"]
  /\ UNCHANGED <<tables, live, lapsed, calls, locks>>

Lapse(p) ==
  /\ MayLose /\ p \notin lapsed /\ \E d \in decisions[p] : d.verdict = "approved"
  /\ lapsed' = lapsed \cup {p}
  /\ UNCHANGED <<tables, live, grant, calls, locks>>

Run(s) ==
  \/ ShareRepository(s) \/ OwnRepository(s) \/ Denied(s) \/ Create(s)
  \/ LockPlan(s) \/ Authorize(s) \/ Move(s)
  \/ Attach(s) \/ EnterReview(s) \/ Decide(s) \/ RefuseRequest(s)
  \/ AuthorizePromoter(s) \/ LockRequestForPromotion(s) \/ LockPlanForPromotion(s)
  \/ SelectApproval(s) \/ InsertPromotion(s) \/ CommitPromotion(s)

Next ==
  \/ \E s \in Slots : Start(s) \/ Run(s) \/ Fail(s) \/ GiveUp(s)
  \/ \E u \in Principals : Revoke(u) \/ Expire(u)
  \/ \E p \in Plans : Lapse(p)
  \/ \E doc \in Plans \cup {Legacy} : Override(doc)

Spec == Init /\ [][Next]_vars

\* A request runs on: PostgreSQL and the pool serve those who wait in the order
\* they came (strong fairness), and end the waits that would not end.  Nobody
\* has to make a request.
FairSpec == Spec /\ \A s \in Slots : SF_vars(Run(s) \/ GiveUp(s))
-----------------------------------------------------------------------------
(* Properties *)

\* Rows, requests and locks have their types.
TypeOK ==
  /\ status \in [Plans -> Statuses]
  /\ author \in [Plans -> Principals \cup {None}]
  /\ base \in [Plans -> Plans \cup {None}]
  /\ shown \in [Plans -> SUBSET Evidence] /\ recorded \in [Plans -> SUBSET Evidence]
  /\ decisions \in [Plans -> SUBSET Decision] /\ lapsed \subseteq Plans
  /\ promotions \subseteq Promotion
  /\ binding \in Plans \cup {None} /\ config \in Plans \cup {None, Legacy}
  /\ grant \in [Principals -> {"current", "expired", "revoked"}]
  /\ pc \in [Slots -> {"idle", "repo", "authorize", "promoter", "plan",
                       "update", "cr", "commit", "select", "insert"}]
  /\ req \in [Slots -> Request \cup {None}] /\ who \in [Slots -> Principals \cup {None}]
  /\ seen \in [Slots -> Plans \cup Principals \cup {None}]
  /\ sharers \subseteq Slots /\ repoOwner \in Slots \cup {None}
  /\ planOwner \in [Plans -> Slots \cup {None}]
  /\ crOwner \in [Plans -> Slots \cup {None}]
  /\ pinned \in [Slots -> SUBSET Principals]

\* Whatever went live was written, approved and promoted by three different
\* principals, and the approver had the validation result in front of them.
SeparationOfDuties ==
  \A r \in promotions :
    /\ r.author = author[r.plan]
    /\ r.author # r.approver /\ r.author # r.promoter /\ r.approver # r.promoter
    /\ \E d \in decisions[r.plan] : /\ d.by = r.approver /\ d.verdict = "approved"
                                    /\ d.manifest = {"valid"}

\* A plan is decided once, and what was decided on is still what it shows and
\* what was recorded: no evidence slips in beside a decision.
DecidedOnWhatIsShown ==
  \A p \in Plans :
    /\ Cardinality(decisions[p]) <= 1
    /\ \A d \in decisions[p] : d.manifest = shown[p] /\ d.manifest \subseteq recorded[p]

\* Once a policy is governed, repo_config is the document of the version the
\* binding names, whoever else writes to it.
MaterializationMatches == binding # None => config = binding

\* The live policy only changes from the version a plan was opened on to that
\* plan, once, and never to a plan that was rejected or cancelled.
Register == INSTANCE PolicyRegister WITH
  active <- binding,
  stage <- [p \in Plans |->
    CASE status[p] = "none" -> "unused"
      [] status[p] = "promoted" -> "installed"
      [] status[p] \in {"rejected", "cancelled"} -> "closed"
      [] OTHER -> "open"],
  basis <- base

ImplementsPolicyRegister == Register!RegisterSpec

\* Neither the promoter's nor the approver's authority is revoked at the moment
\* a promotion becomes visible (expiry is only checked when it is inserted).
PromotedUnderAuthority ==
  [][\A r \in promotions' \ promotions :
       grant[r.promoter] # "revoked" /\ grant[r.approver] # "revoked"]_vars

\* Every request returns, whatever it waits for.
RequestsReturn == \A s \in Slots : pc[s] # "idle" ~> pc[s] = "idle"
=============================================================================

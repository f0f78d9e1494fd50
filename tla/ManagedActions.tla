--------------------------- MODULE ManagedActions ---------------------------
(***************************************************************************)
(* The lifecycle of the rows of managed_actions: the guarded transitions   *)
(* of services/actionStateMachine.js as the jobs that change GitHub use    *)
(* them (ciHeal, issueFix, triage, custom rules), and the operators of     *)
(* routes/actions.js and the sweep of workers/reconciliationWorker.js.     *)
(*                                                                         *)
(* A transition is two statements: transition() SELECTs the row, checks    *)
(* the edge, then UPDATEs by id alone, so other callers can write between  *)
(* the two.  propose() and retry() are several statements without a        *)
(* transaction.  A caller may die between any two statements.              *)
(***************************************************************************)
EXTENDS Naturals, FiniteSets

CONSTANTS
  Workers,      \* jobs; a job's name is the id of the row it proposes
  Operators,    \* API calls; a retry call's name is the id of its child row
  Sweeper,      \* the periodic reconciliation
  Recorders,    \* jobs whose row records what they have already done on GitHub
                \* (triage's comment, the label, reviewer and branch of a heal PR)
  Keys,         \* dedup keys (repo, action_key, target_number)
  PatchKeys,    \* those of the patch PRs of ciHeal (one per kind of failure)
  MaxRetries,   \* max_retries of a row (3 in the code)
  MaxDeaths,    \* bound: callers that die
  None

Callers == Workers \cup Operators \cup {Sweeper}
Actions == Workers \cup Operators

ASSUME CallersAssumption ==
  /\ Workers \cap Operators = {} /\ IsFiniteSet(Operators)
  /\ Sweeper \notin Actions
ASSUME KindsAssumption == Recorders \subseteq Workers /\ PatchKeys \subseteq Keys
ASSUME BoundsAssumption == MaxRetries \in Nat /\ MaxDeaths \in Nat

Statuses == {"proposed", "approved", "executing", "succeeded", "failed",
             "retrying", "blocked", "cancelled", "reconciled"}

\* Where a caller can be: before the statement, or the step, of that name
Places == {"start", "dedup", "insert", "approved", "mutate", "check", "read", "write", "reason", "child",
           "count", "mark", "expire", "confirm", "done"}

\* NULL, nobody, nowhere: a value of none of these.
ASSUME NoneAssumption == None \notin Callers \cup Keys \cup Statuses \cup Places

\* STATES[s].next
NextOf(s) ==
  CASE s = "proposed"  -> {"approved", "cancelled", "blocked"}
    [] s = "approved"  -> {"executing", "cancelled", "blocked"}
    [] s = "executing" -> {"succeeded", "failed", "cancelled"}
    [] s = "succeeded" -> {"reconciled"}
    [] s = "failed"    -> {"retrying", "cancelled"}
    [] s = "retrying"  -> {"executing", "cancelled", "blocked"}
    [] s = "blocked"   -> {"cancelled"}
    [] OTHER           -> {}

Terminal == {"succeeded", "cancelled", "reconciled", "blocked"}

VARIABLES
  \* the table, with None for the status of a row not inserted yet
  status, active, key, parent, retries,
  reasoned,     \* rows whose blocked_reason is set
  aged,         \* rows whose last timestamp is older than its time-out
  github,       \* actions whose effect GitHub has accepted
  \* the callers: where each is, the row and the status it works for
  pc, row, goal,
  todo,         \* the sweep's list of rows and edges still to handle
  \* history
  dead,         \* the caller's place when it died
  stopped,      \* rows cancelled while no other call was half-way on them
  rivals        \* pairs of proposals of one key, or retries of one row, that
                \* overlapped

table == <<status, active, key, parent, retries, reasoned, aged>>
callers == <<pc, row, goal, todo>>
history == <<dead, stopped, rivals>>
vars == <<table, github, callers, history>>

-----------------------------------------------------------------------------
(* transition(): read and check, then write *)

\* p goes on to transition row a to g; cancel() and block() look first.
Begin(p, a, g) ==
  /\ row' = [row EXCEPT ![p] = a]
  /\ goal' = [goal EXCEPT ![p] = g]
  /\ pc' = [pc EXCEPT ![p] =
              IF g \in {"cancelled", "blocked"} THEN "check" ELSE "read"]

\* The sweep takes its next row, of the list it is working on.
NextRow(g) == IF g = "reconciled" THEN "confirm" ELSE "expire"

\* Where p goes once its transition is written.
After(p) ==
  IF p = Sweeper THEN NextRow(goal[p])
  ELSE CASE goal[p] = "approved"  -> "approved"
         [] goal[p] = "executing" -> "mutate"
         [] goal[p] = "blocked"   -> "reason"
         [] OTHER                 -> "done"

\* p's call throws: a job or an API call ends, the sweep takes its next row,
\* and a job that could not record the success of its call tries to record a
\* failure.
Throw(p) ==
  IF p \in Workers \ Recorders /\ goal[p] = "succeeded"
  THEN goal' = [goal EXCEPT ![p] = "failed"] /\ pc' = [pc EXCEPT ![p] = "read"]
  ELSE /\ pc' = [pc EXCEPT ![p] =
                   IF p = Sweeper THEN NextRow(goal[p]) ELSE "done"]
       /\ UNCHANGED goal

\* The terminal check of cancel() and block().
Check(p) ==
  /\ pc[p] = "check"
  /\ IF status[row[p]] \in Terminal
     THEN Throw(p)
     ELSE pc' = [pc EXCEPT ![p] = "read"] /\ UNCHANGED goal
  /\ UNCHANGED <<table, github, row, todo, history>>

\* SELECT the row: the edge must be one of STATES.
Read(p) ==
  /\ pc[p] = "read"
  /\ IF goal[p] \in NextOf(status[row[p]])
     THEN pc' = [pc EXCEPT ![p] = "write"] /\ UNCHANGED goal
     ELSE Throw(p)
  /\ UNCHANGED <<table, github, row, todo, history>>

\* Calls that have looked at row a and will now write it, or change GitHub.
MidWay(a) == {q \in Callers : row[q] = a /\ pc[q] \in {"write", "mutate", "count", "mark"}}

\* UPDATE managed_actions SET status = goal WHERE id = row: no guard on status.
Write(p) ==
  LET a == row[p] IN
  /\ pc[p] = "write"
  /\ status' = [status EXCEPT ![a] = goal[p]]
  /\ aged' = aged \ {a}
  /\ pc' = [pc EXCEPT ![p] = After(p)]
  /\ stopped' = IF goal[p] = "cancelled" /\ MidWay(a) = {p} /\ a \notin github
                THEN stopped \cup {a} ELSE stopped
  /\ UNCHANGED <<active, key, parent, retries, reasoned, github,
                 row, goal, todo, dead, rivals>>

\* block(): the second UPDATE.
Reason(p) ==
  /\ pc[p] = "reason"
  /\ reasoned' = reasoned \cup {row[p]}
  /\ pc' = [pc EXCEPT ![p] = "done"]
  /\ UNCHANGED <<status, active, key, parent, retries, aged, github,
                 row, goal, todo, history>>

-----------------------------------------------------------------------------
(* A worker's job: propose, approve, execute, change GitHub, record it *)

\* The other jobs of key k that are between their look, or their first
\* statement, and the INSERT
Proposing(w, k) == {u \in Workers \ {w} : pc[u] \in {"dedup", "insert"} /\ key[u] = k}
Rivals(w, k) == {{w, u} : u \in Proposing(w, k)}

\* Mutant: the deduplication of propose() is thought to be enough.
LookNowhere(w) ==
  /\ w \notin Recorders /\ pc[w] = "start"
  /\ \E k \in PatchKeys :
       /\ key' = [key EXCEPT ![w] = k]
       /\ rivals' = rivals \cup Rivals(w, k)
  /\ pc' = [pc EXCEPT ![w] = "dedup"]
  /\ UNCHANGED <<status, active, parent, retries, reasoned, aged, github,
                 row, goal, todo, dead, stopped>>

\* healByPatchPR(): a job looks for a row of its failure, active or not (older
\* than seven days it would not count: so much time does not pass here), and
\* leaves the failure to it.
Look(w) ==
  /\ w \notin Recorders /\ pc[w] = "start"
  /\ \E k \in PatchKeys :
       \/ /\ \E a \in Workers : key[a] = k /\ status[a] # None
          /\ pc' = [pc EXCEPT ![w] = "done"]
          /\ UNCHANGED <<key, rivals>>
       \/ /\ \A a \in Workers : key[a] = k => status[a] = None
          /\ pc' = [pc EXCEPT ![w] = "dedup"]
          /\ key' = [key EXCEPT ![w] = k]
          /\ rivals' = rivals \cup Rivals(w, k)
  /\ UNCHANGED <<status, active, parent, retries, reasoned, aged, github,
                 row, goal, todo, dead, stopped>>

\* Where propose() is called, and for which keys
Proposes(w, k) ==
  \/ pc[w] = "start" /\ k \notin PatchKeys
  \/ pc[w] = "dedup" /\ k = key[w]

\* What a recorder proposes has been done.
DoneFirst(w) == IF w \in Recorders THEN {w} ELSE {}

\* Mutant: the deactivation misses the rows it should match.
DedupMatchesNothing(w) ==
  /\ \E k \in Keys :
       /\ Proposes(w, k)
       /\ key' = [key EXCEPT ![w] = k]
       /\ rivals' = rivals \cup Rivals(w, k)
  /\ github' = github \cup DoneFirst(w)
  /\ pc' = [pc EXCEPT ![w] = "insert"]
  /\ UNCHANGED <<status, active, parent, retries, reasoned, aged,
                 row, goal, todo, dead, stopped>>

\* propose(): deactivate the active rows of the key ...
Dedup(w) ==
  /\ \E k \in Keys :
       /\ Proposes(w, k)
       /\ key' = [key EXCEPT ![w] = k]
       /\ active' = active \ {a \in active : key[a] = k}
       /\ rivals' = rivals \cup Rivals(w, k)
  /\ github' = github \cup DoneFirst(w)
  /\ pc' = [pc EXCEPT ![w] = "insert"]
  /\ UNCHANGED <<status, parent, retries, reasoned, aged,
                 row, goal, todo, dead, stopped>>

\* ... then INSERT the proposed row.  A dry run cancels it, a failed check of
\* customRulesService blocks it, the others approve it.
Insert(w) ==
  /\ w \in Workers /\ pc[w] = "insert"
  /\ status' = [status EXCEPT ![w] = "proposed"]
  /\ active' = active \cup {w}
  /\ \/ Begin(w, w, "approved")
     \/ w \notin Recorders /\ \E g \in {"cancelled", "blocked"} : Begin(w, w, g)
  /\ UNCHANGED <<key, parent, retries, reasoned, aged, github, todo, history>>

\* Mutant: the job goes to GitHub without execute().
ApprovedSkipsExecute(w) ==
  /\ pc[w] = "approved"
  /\ pc' = [pc EXCEPT ![w] = "mutate"]
  /\ UNCHANGED <<table, github, row, goal, todo, history>>

Approved(w) ==
  /\ pc[w] = "approved"
  /\ Begin(w, w, "executing")
  /\ UNCHANGED <<table, github, todo, history>>

\* Mutant: an error of the GitHub call is swallowed.
MutateSwallowsError(w) ==
  /\ pc[w] = "mutate"
  /\ github' \in {github, github \cup {w}}
  /\ Begin(w, w, "succeeded")
  /\ UNCHANGED <<table, todo, history>>

\* A recorder says it is done.  The others call GitHub: done and answered, done
\* with its answer lost, refused, or given up because the target moved
\* (supersedeFix); healByPatchPR returns without a word when it has no fix to
\* propose.
Mutate(w) ==
  /\ pc[w] = "mutate"
  /\ \/ github' = github \cup {w} /\ Begin(w, w, "succeeded")
     \/ /\ w \notin Recorders
        /\ \/ github' = github \cup {w} /\ Begin(w, w, "failed")
           \/ UNCHANGED github /\ \E g \in {"failed", "cancelled"} : Begin(w, w, g)
           \/ /\ key[w] \in PatchKeys
              /\ pc' = [pc EXCEPT ![w] = "done"]
              /\ UNCHANGED <<github, row, goal>>
  /\ UNCHANGED <<table, todo, history>>

-----------------------------------------------------------------------------
(* routes/actions.js *)

\* POST /api/actions/:id/cancel and /reconcile.
Request(o) ==
  /\ o \in Operators /\ pc[o] = "start"
  /\ \E a \in Actions, g \in {"cancelled", "reconciled"} :
       status[a] # None /\ Begin(o, a, g)
  /\ UNCHANGED <<table, github, todo, history>>

\* Mutant: off by one in the budget.
RetryOneMore(o) ==
  /\ o \in Operators /\ pc[o] = "start"
  /\ \E a \in Actions :
       /\ status[a] = "failed" /\ retries[a] <= MaxRetries
       /\ parent' = [parent EXCEPT ![o] = a]
       /\ rivals' = rivals \cup
            {{o, q} : q \in {r \in Operators : parent[r] = a /\ pc[r] \in {"child", "count"}}}
  /\ pc' = [pc EXCEPT ![o] = "child"]
  /\ row' = [row EXCEPT ![o] = o]
  /\ UNCHANGED <<status, active, key, retries, reasoned, aged, github,
                 goal, todo, dead, stopped>>

\* POST /api/actions/:id/retry: a failed row with retries left ...
Retry(o) ==
  /\ o \in Operators /\ pc[o] = "start"
  /\ \E a \in Actions :
       /\ status[a] = "failed" /\ retries[a] < MaxRetries
       /\ parent' = [parent EXCEPT ![o] = a]
       /\ rivals' = rivals \cup
            {{o, q} : q \in {r \in Operators : parent[r] = a /\ pc[r] \in {"child", "count"}}}
  /\ pc' = [pc EXCEPT ![o] = "child"]
  /\ row' = [row EXCEPT ![o] = o]
  /\ UNCHANGED <<status, active, key, retries, reasoned, aged, github,
                 goal, todo, dead, stopped>>

\* ... gets a child row (proposed without a key) ...
InsertChild(o) ==
  /\ pc[o] = "child"
  /\ status' = [status EXCEPT ![o] = "proposed"]
  /\ active' = active \cup {o}
  /\ pc' = [pc EXCEPT ![o] = "count"]
  /\ UNCHANGED <<key, parent, retries, reasoned, aged, github,
                 row, goal, todo, history>>

\* ... is counted ...
CountRetry(o) ==
  /\ pc[o] = "count"
  /\ retries' = [retries EXCEPT ![parent[o]] = @ + 1]
  /\ pc' = [pc EXCEPT ![o] = "mark"]
  /\ UNCHANGED <<status, active, key, parent, reasoned, aged, github,
                 row, goal, todo, history>>

\* Mutant: a status STATES does not have.
MarkChildUnknown(o) ==
  /\ pc[o] = "mark"
  /\ status' = [status EXCEPT ![o] = "retried"]
  /\ aged' = aged \ {o}
  /\ pc' = [pc EXCEPT ![o] = "done"]
  /\ UNCHANGED <<active, key, parent, retries, reasoned, github,
                 row, goal, todo, history>>

\* ... and the child becomes 'retrying', whatever it was.
MarkChild(o) ==
  /\ pc[o] = "mark"
  /\ status' = [status EXCEPT ![o] = "retrying"]
  /\ aged' = aged \ {o}
  /\ pc' = [pc EXCEPT ![o] = "done"]
  /\ UNCHANGED <<active, key, parent, retries, reasoned, github,
                 row, goal, todo, history>>

-----------------------------------------------------------------------------
(* workers/reconciliationWorker.js *)

\* Mutant: approved rows are never stale.
StaleNotApproved ==
  {<<a, IF status[a] = "executing" THEN "failed" ELSE "cancelled">> :
     a \in {b \in aged : status[b] \in {"executing", "proposed"}}}

\* getStaleActions and getActionsNeedingReconciliation: the rows to handle and
\* the status each is to get.
Stale ==
  {<<a, IF status[a] = "executing" THEN "failed" ELSE "cancelled">> :
     a \in {b \in aged : status[b] \in {"executing", "approved", "proposed"}}}
Reconcilable == {<<a, "reconciled">> : a \in {b \in aged : status[b] = "succeeded"}}

\* A round with nothing to do changes nothing and is left out.
StartSweep ==
  /\ pc[Sweeper] = "start"
  /\ Stale \cup Reconcilable # {}
  /\ todo' = Stale
  /\ pc' = [pc EXCEPT ![Sweeper] = "expire"]
  /\ UNCHANGED <<table, github, row, goal, history>>

\* A row the sweep cannot check on GitHub is skipped.
SweepRow ==
  /\ pc[Sweeper] \in {"expire", "confirm"}
  /\ \E t \in todo :
       /\ todo' = todo \ {t}
       /\ \/ Begin(Sweeper, t[1], t[2])
          \/ pc[Sweeper] = "confirm" /\ UNCHANGED <<row, goal, pc>>
  /\ UNCHANGED <<table, github, history>>

StartConfirm ==
  /\ pc[Sweeper] = "expire" /\ todo = {}
  /\ todo' = Reconcilable
  /\ pc' = [pc EXCEPT ![Sweeper] = "confirm"]
  /\ UNCHANGED <<table, github, row, goal, history>>

EndSweep ==
  /\ pc[Sweeper] = "confirm" /\ todo = {}
  /\ pc' = [pc EXCEPT ![Sweeper] = "start"]
  /\ UNCHANGED <<table, github, row, goal, todo, history>>

\* The row's time-out passes (6 h executing or succeeded, 12 h approved, 24 h
\* proposed): the statements of one call are never that far apart, only the
\* work on GitHub can be.
Age(a) ==
  /\ status[a] \in {"executing", "approved", "proposed", "succeeded"}
  /\ a \notin aged
  /\ \A q \in Callers : row[q] = a => pc[q] \in {"start", "done", "mutate", "expire", "confirm"}
  /\ aged' = aged \cup {a}
  /\ UNCHANGED <<status, active, key, parent, retries, reasoned, github,
                 callers, history>>

-----------------------------------------------------------------------------
\* The process running p dies; the sweep starts again with the next process.
Die(p) ==
  /\ pc[p] \notin {"start", "done"}
  /\ Cardinality({q \in Callers : dead[q] # None}) < MaxDeaths
  /\ dead' = [dead EXCEPT ![p] = pc[p]]
  /\ pc' = [pc EXCEPT ![p] = IF p = Sweeper THEN "start" ELSE "done"]
  /\ todo' = IF p = Sweeper THEN {} ELSE todo
  /\ UNCHANGED <<table, github, row, goal, stopped, rivals>>

Init ==
  /\ status = [a \in Actions |-> None]
  /\ active = {}
  /\ key = [a \in Actions |-> None]
  /\ parent = [a \in Actions |-> None]
  /\ retries = [a \in Actions |-> 0]
  /\ reasoned = {} /\ aged = {} /\ github = {}
  /\ pc = [p \in Callers |-> "start"]
  /\ row = [p \in Callers |-> None]
  /\ goal = [p \in Callers |-> None]
  /\ todo = {}
  /\ dead = [p \in Callers |-> None]
  /\ stopped = {} /\ rivals = {}

WorkerStep(w) ==
  Look(w) \/ Dedup(w) \/ Insert(w) \/ Approved(w) \/ Mutate(w)
OperatorStep(o) == InsertChild(o) \/ CountRetry(o) \/ MarkChild(o)
CallStep(p) == Check(p) \/ Read(p) \/ Write(p) \/ Reason(p)
SweepStep == StartSweep \/ SweepRow \/ StartConfirm \/ EndSweep

Next ==
  \/ \E w \in Workers : WorkerStep(w)
  \/ \E o \in Operators : Request(o) \/ Retry(o) \/ OperatorStep(o)
  \/ \E p \in Callers : CallStep(p) \/ Die(p)
  \/ SweepStep
  \/ \E a \in Actions : Age(a)

\* Calls run on, time passes, and the sweep's timer fires: nobody is obliged
\* to start a job or to press a button.
Fairness ==
  /\ \A w \in Workers : WF_vars((pc[w] = "dedup" /\ Dedup(w)) \/ Insert(w) \/ Approved(w) \/ Mutate(w))
  /\ \A o \in Operators : WF_vars(OperatorStep(o))
  /\ \A p \in Callers : WF_vars(CallStep(p))
  /\ WF_vars(SweepStep)
  /\ \A a \in Actions : WF_vars(Age(a))

Spec == Init /\ [][Next]_vars
FairSpec == Spec /\ Fairness
-----------------------------------------------------------------------------
(* Properties *)

TypeOK ==
  /\ status \in [Actions -> Statuses \cup {None}]
  /\ active \subseteq Actions /\ reasoned \subseteq Actions
  /\ aged \subseteq Actions /\ github \subseteq Workers
  /\ key \in [Actions -> Keys \cup {None}]
  /\ parent \in [Actions -> Actions \cup {None}]
  /\ retries \in [Actions -> Nat]
  /\ pc \in [Callers -> Places]
  /\ row \in [Callers -> Actions \cup {None}]
  /\ goal \in [Callers -> Statuses \cup {None}]
  /\ todo \subseteq Actions \X Statuses
  /\ dead \in [Callers -> {None} \cup (Places \ {"start", "done"})]
  /\ stopped \subseteq Actions /\ rivals \subseteq SUBSET Actions

\* A cancel that lands while no other call is between its look at the row and
\* its write is final, and the action's effect never reaches GitHub: the job
\* that was about to execute it is stopped by the edge check (cancel, execute).
QuietCancelIsFinal ==
  \A a \in stopped : status[a] = "cancelled" /\ a \notin github

\* A row that claims success has its effect on GitHub, and a blocked row has
\* none ("the action was never attempted", block) and says why, except while
\* or because block() was cut between its two updates.
StatusTellsEffect ==
  \A a \in Actions :
    /\ status[a] \in {"succeeded", "reconciled"} => a \in github
    /\ status[a] = "blocked" =>
         /\ a \notin github
         /\ a \in reasoned \/ "reason" \in {pc[a], dead[a]}

\* A row is retried more often than max_retries allows only by calls that
\* overlapped, or after a call died before counting its child (retry).
Children(a) == {o \in Operators : parent[o] = a /\ status[o] # None}

RetryBudget ==
  \A a \in Actions :
    Cardinality(Children(a)) > MaxRetries =>
      \/ \E o \in Children(a) : dead[o] = "count"
      \/ \E o, q \in Children(a) : {o, q} \in rivals /\ o # q

\* Two rows of one dedup key are active together, and two patches of one failure
\* are proposed at all, only by jobs that overlapped: propose() deactivates and
\* inserts in two statements, and healByPatchPR looks and proposes.
ActiveKeyUnique ==
  \A a, b \in Actions :
    /\ a # b /\ key[a] = key[b] /\ key[a] # None
    /\ \/ {a, b} \subseteq active
       \/ key[a] \in PatchKeys /\ status[a] # None /\ status[b] # None
    => {a, b} \in rivals

\* Whatever dies and however calls overlap, no row stays proposed, approved or
\* executing for ever: the sweep settles what its job left behind.
StaleActionsSettle ==
  \A a \in Actions :
    (status[a] \in {"proposed", "approved", "executing"})
      ~> (status[a] \notin {"proposed", "approved", "executing"})

\* "Terminal states - no further transitions possible" (actionStateMachine.js,
\* TERMINAL_STATES): what the code says of a cancelled row.
CancelledIsFinal ==
  [][\A a \in Actions : status[a] = "cancelled" => status'[a] = "cancelled"]_vars
=============================================================================

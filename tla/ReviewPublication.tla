-------------------------- MODULE ReviewPublication --------------------------
(***************************************************************************)
(* AI reviews of one pull request head: the phase-4 worker's ai-review,    *)
(* ai-review-manual and supersede-review jobs (workers/phase4Worker.js),   *)
(* reviewPR and the publication of its review (services/aiReviewService),  *)
(* and the conclusion of the GitWire check (services/checkRunFinalizer).   *)
(*                                                                         *)
(* Every job of the head works on one row of ai_reviews, unique by         *)
(* (repo, pull request, head).  A step is one call to GitHub, PostgreSQL   *)
(* or Redis and what follows it up to the next call that others can see.   *)
(* The review itself, its findings and verdict, and the dedicated check    *)
(* each invocation opens for its own progress are left out; a verdict that *)
(* blocks and one that passes are the same conclusion here, "review".      *)
(* Redis answers: its errors are not modelled.                             *)
(***************************************************************************)
EXTENDS Naturals, FiniteSets

CONSTANTS
  Hooks,        \* webhook jobs: opened, reopened, ready_for_review
  Commands,     \* jobs of "/gitwire run review"
  Dashboards,   \* jobs of the dashboard's review trigger
  Slots,        \* attempts that run at a time
  MaxAttempts,  \* attempts of a job (3 in compat/queue.js)
  MaxStalls,    \* bound: locks that are lost
  None

Jobs == Hooks \cup Commands \cup Dashboards

ASSUME KindsAssumption ==
  /\ Hooks \cap Commands = {} /\ Hooks \cap Dashboards = {} /\ Commands \cap Dashboards = {}
ASSUME BoundsAssumption == MaxAttempts \in Nat \ {0} /\ MaxStalls \in Nat

States == {"none", "computed", "submitting", "published", "failed"}
Conclusions == {"review", "neutral", "error", "interrupted"}

\* NULL, or nobody: a value of none of these.
ASSUME NoneAssumption == None \notin Jobs \cup Slots \cup Conclusions

VARIABLES
  row,         \* of ai_reviews: publication_state (none: NULL), github_review_id (0: NULL),
               \* integrity_state = 'SUPERSEDED', terminal_reason that a repeated attempt retries
  stale,       \* publication_claimed_at is older than ten minutes
  reviews,     \* GitHub reviews with the row's publication marker, numbered from 1
  check,       \* conclusion of each webhook job's GitWire check
  outcome,     \* gitwire:check:retry:... of each check
  pointer,     \* gitwire:check:... of the head: the check last created
  marked,      \* the idempotency key of the head
  comments,    \* pillars.ai_review.comment_findings
  moved,       \* the pull request has another head
  sync,        \* the supersede-review job of that push
  notices,     \* supersession notices on GitHub
  job, attempts, lost, owner,   \* the queue, as in RepairProposal
  pc, task,    \* of each slot
  own,         \* the review an attempt has posted
  answer,      \* the conclusion it is about to give
  target,      \* and the check it gives it to
  slow,        \* history: an invocation rested ten minutes amid its publication
  unanswered,  \* history: GitHub took a review and the answer was lost
  suppressed,  \* history: an invocation left the publication to another
  missed       \* history: the supersession job did not see a publication under way

queue == <<job, attempts, lost, owner>>
slots == <<pc, task, own, answer, target>>
checks == <<check, outcome, pointer>>
push == <<moved, sync, notices, missed>>
history == <<slow, unanswered, suppressed>>
vars == <<row, stale, reviews, checks, marked, comments, push, queue, slots, history>>

Init ==
  /\ row = [state |-> "none", review |-> 0, superseded |-> FALSE, retryable |-> FALSE]
  /\ stale = FALSE /\ reviews = 0 /\ marked = FALSE
  /\ check = [h \in Hooks |-> "queued"]
  /\ outcome = [h \in Hooks |-> None]
  /\ pointer = None
  /\ comments \in BOOLEAN
  /\ moved = FALSE /\ sync = "none" /\ notices = 0 /\ missed = FALSE
  /\ job = [j \in Jobs |-> "absent"]
  /\ attempts = [j \in Jobs |-> 0]
  /\ lost = {}
  /\ owner = [j \in Jobs |-> None]
  /\ pc = [w \in Slots |-> "idle"]
  /\ task = [w \in Slots |-> None]
  /\ own = [w \in Slots |-> 0]
  /\ answer = [w \in Slots |-> None]
  /\ target = [w \in Slots |-> None]
  /\ slow = FALSE /\ unanswered = FALSE /\ suppressed = FALSE
-----------------------------------------------------------------------------
(* The queue *)

\* handlePullRequest after the webhook route created the check and its pointer;
\* handlePRManualRun after it cleared the idempotency key; the dashboard route.
\* They name the head there is.
Queue(j) ==
  /\ job[j] = "absent" /\ ~moved
  /\ job' = [job EXCEPT ![j] = "waiting"]
  /\ pointer' = IF j \in Hooks THEN j ELSE pointer
  /\ marked' = (marked /\ j \notin Commands)
  /\ UNCHANGED <<row, stale, reviews, check, outcome, comments, push, attempts, lost, owner,
                 slots, history>>

Take(w, j) ==
  /\ pc[w] = "idle" /\ job[j] = "waiting"
  /\ job' = [job EXCEPT ![j] = "active"]
  /\ owner' = [owner EXCEPT ![j] = w]
  /\ pc' = [pc EXCEPT ![w] = IF j \in Dashboards THEN "upsert" ELSE "start"]
  /\ task' = [task EXCEPT ![w] = j]
  /\ target' = [target EXCEPT ![w] = IF j \in Hooks THEN j ELSE None]
  /\ UNCHANGED <<row, stale, reviews, checks, marked, comments, push, attempts, lost, own,
                 answer, history>>

GoTo(w, l) == pc' = [pc EXCEPT ![w] = l] /\ UNCHANGED <<task, own, answer, target, queue>>

Free(w) ==
  /\ pc' = [pc EXCEPT ![w] = "idle"]
  /\ task' = [task EXCEPT ![w] = None]
  /\ own' = [own EXCEPT ![w] = 0]
  /\ answer' = [answer EXCEPT ![w] = None]
  /\ target' = [target EXCEPT ![w] = None]

\* w's attempt is over: its job, if w still has the lock, is now in state s.
Leave(w, s) ==
  /\ job' = [j \in Jobs |-> IF owner[j] = w THEN s ELSE job[j]]
  /\ owner' = [j \in Jobs |-> IF owner[j] = w THEN None ELSE owner[j]]
  /\ Free(w)
  /\ UNCHANGED lost

Return(w) == Leave(w, "completed") /\ UNCHANGED attempts

\* Mutant: a failed attempt is always followed by another.
ThrowForever(w) ==
  LET j == task[w] IN
  /\ attempts' = IF owner[j] = w THEN [attempts EXCEPT ![j] = @ + 1] ELSE attempts
  /\ Leave(w, "waiting")

Throw(w) ==
  LET j == task[w]  n == attempts[j] + 1 IN
  /\ attempts' = IF owner[j] = w THEN [attempts EXCEPT ![j] = n] ELSE attempts
  /\ Leave(w, IF n < MaxAttempts THEN "waiting" ELSE "failed")

\* A job's lock is not renewed in time, because its process died or is slow:
\* BullMQ delivers it once more, and fails it the second time.
LoseLock(j) ==
  LET again == <<j, 1>> \in lost IN
  /\ owner[j] # None /\ Cardinality(lost) < MaxStalls
  /\ job' = [job EXCEPT ![j] = IF again THEN "failed" ELSE "waiting"]
  /\ lost' = lost \cup {<<j, IF again THEN 2 ELSE 1>>}
  /\ owner' = [owner EXCEPT ![j] = None]
  /\ Free(owner[j]) \/ UNCHANGED slots
  /\ UNCHANGED <<row, stale, reviews, checks, marked, comments, push, attempts, history>>

\* attemptsMade > 0 or attemptsStarted > 1
IsRepeated(j) == attempts[j] > 0 \/ <<j, 1>> \in lost
-----------------------------------------------------------------------------
(* How an attempt ends *)

\* finalizeOwn and finalizeOwnFailure give conclusion a to the check the job owns.
\* A command's job owns none: the head's pointer says which one it is.
Conclude(w, a) ==
  /\ pc' = [pc EXCEPT ![w] = IF task[w] \in Commands THEN "resolve" ELSE "conclude"]
  /\ answer' = [answer EXCEPT ![w] = a]
  /\ UNCHANGED <<task, own, target, queue>>

\* What reviewPR returns, and what it or a call before it throws.  The dashboard's
\* job has no check, and retries transient errors of the provider alone.
Answer(w, a) == IF task[w] \in Dashboards THEN Return(w) ELSE Conclude(w, a)
Raise(w, transient) ==
  IF task[w] \notin Dashboards THEN Conclude(w, "error")
  ELSE IF transient THEN Throw(w) ELSE Return(w)

\* finalizeGitwireCheck without checkRunId
ResolvePointer(w) ==
  /\ pc[w] = "resolve"
  /\ IF pointer # None
     THEN /\ target' = [target EXCEPT ![w] = pointer]
          /\ pc' = [pc EXCEPT ![w] = "conclude"]
          /\ UNCHANGED <<task, own, answer, queue>>
     ELSE IF answer[w] = "error" THEN Throw(w) ELSE Return(w)
  /\ UNCHANGED <<row, stale, reviews, checks, marked, comments, push, history>>

\* _applyCheckConclusion: GitHub takes conclusion a for check h.
Patched(h, a) ==
  /\ check' = [check EXCEPT ![h] = a]
  /\ outcome' = [outcome EXCEPT ![h] = None]
  /\ pointer' = IF pointer = h THEN None ELSE pointer

\* It refuses, or its answer is lost: the conclusion is kept for the next attempt.
NotPatched(h, a) ==
  /\ check' = check \/ check' = [check EXCEPT ![h] = a]
  /\ outcome' = [outcome EXCEPT ![h] = a]
  /\ UNCHANGED pointer

\* Mutant: a conclusion GitHub did not confirm is taken for an error of the review.
ApplyConclusionThenFail(w) ==
  LET h == target[w]  a == answer[w] IN
  /\ pc[w] = "conclude"
  /\ \/ Patched(h, a) /\ (IF a = "error" THEN Throw(w) ELSE Return(w))
     \/ NotPatched(h, a) /\ (IF a = "review" THEN Conclude(w, "error") ELSE Throw(w))
  /\ UNCHANGED <<row, stale, reviews, marked, comments, push, history>>

ApplyConclusion(w) ==
  LET h == target[w]  a == answer[w] IN
  /\ pc[w] = "conclude"
  /\ \/ Patched(h, a) /\ (IF a = "error" THEN Throw(w) ELSE Return(w))
     \/ NotPatched(h, a) /\ Throw(w)
  /\ UNCHANGED <<row, stale, reviews, marked, comments, push, history>>
-----------------------------------------------------------------------------
(* Before the review *)

\* A conclusion stored by an earlier attempt is replayed, and ends the job unless
\* the review failed in a way that is retried.
Start(w) ==
  LET j == task[w] IN
  /\ pc[w] = "start"
  /\ IF j \notin Hooks \/ outcome[j] = None THEN GoTo(w, "check") /\ UNCHANGED checks
     ELSE \/ /\ Patched(j, outcome[j])
             /\ IF IsRepeated(j) /\ row.retryable THEN GoTo(w, "check") ELSE Return(w)
          \/ NotPatched(j, outcome[j]) /\ Throw(w)
  /\ UNCHANGED <<row, stale, reviews, marked, comments, push, history>>

\* checkAndMark finds the head's key.
MeetMark(w) ==
  LET j == task[w] IN
  IF IsRepeated(j)
  THEN IF row.retryable THEN GoTo(w, "upsert")
       ELSE IF j \in Hooks THEN GoTo(w, "peek") ELSE Return(w)
  ELSE Conclude(w, "neutral")

\* A skipReason, the repository's policy or a waiver declines the review, or
\* checkAndMark looks for the key.
Check(w) ==
  /\ pc[w] = "check"
  /\ \/ Conclude(w, "neutral")
     \/ Conclude(w, "error")
     \/ marked /\ MeetMark(w)
     \/ ~marked /\ GoTo(w, "mark")
  /\ UNCHANGED <<row, stale, reviews, checks, marked, comments, push, history>>

\* checkAndMark sets it.  A dry run, a bot's pull request and a repository without
\* activated reviews end here.
Mark(w) ==
  /\ pc[w] = "mark"
  /\ marked' = TRUE
  /\ GoTo(w, "upsert") \/ Conclude(w, "neutral")
  /\ UNCHANGED <<row, stale, reviews, checks, comments, push, history>>

\* Mutant: a check that is in progress is left to whoever is working on it.
PeekTrusting(w) ==
  /\ pc[w] = "peek"
  /\ Return(w)
  /\ UNCHANGED <<row, stale, reviews, checks, marked, comments, push, history>>

\* A repeated attempt reads its check: completed, or not, or GitHub does not say.
Peek(w) ==
  /\ pc[w] = "peek"
  /\ \/ check[task[w]] # "queued" /\ Return(w)
     \/ Conclude(w, "interrupted")
  /\ UNCHANGED <<row, stale, reviews, checks, marked, comments, push, history>>
-----------------------------------------------------------------------------
(* reviewPR: what an earlier invocation left *)

Write(r) == row' = r /\ UNCHANGED <<stale, reviews>>
SameRow == UNCHANGED <<row, stale, reviews>>
Others == UNCHANGED <<checks, marked, comments, push>>
NoHistory == UNCHANGED history

\* The row is inserted or found.
Upsert(w) ==
  /\ pc[w] = "upsert"
  /\ \/ row.state = "published" /\ Answer(w, "review")
     \/ row.state = "submitting" /\ GoTo(w, "lookup")
     \/ row.state \notin {"published", "submitting"} /\ GoTo(w, "model")
     \/ Raise(w, FALSE)
  /\ SameRow /\ Others /\ NoHistory

\* Mutant: a marker that is not among the first pages counts as absent.
LookupFirstPages(w) ==
  /\ pc[w] = "lookup"
  /\ \/ Raise(w, FALSE) /\ SameRow
     \/ reviews = 1 /\ GoTo(w, "adopt") /\ SameRow
     \/ reviews > 1 /\ Raise(w, FALSE) /\ Write([row EXCEPT !.state = "failed", !.retryable = FALSE])
     \/ GoTo(w, "release") /\ SameRow
  /\ Others /\ NoHistory

\* findMarkerMatches: none, one, or more than one; a lookup that is not complete
\* throws.
Lookup(w) ==
  /\ pc[w] = "lookup"
  /\ \/ Raise(w, FALSE) /\ SameRow
     \/ reviews = 0 /\ GoTo(w, "release") /\ SameRow
     \/ reviews = 1 /\ GoTo(w, "adopt") /\ SameRow
     \/ /\ reviews > 1 /\ Raise(w, FALSE)
        /\ SameRow \/ Write([row EXCEPT !.state = "failed", !.retryable = FALSE])
  /\ Others /\ NoHistory

Adopt(w) ==
  /\ pc[w] = "adopt"
  /\ \/ /\ Write([row EXCEPT !.state = "published", !.review = 1, !.retryable = FALSE])
        /\ Answer(w, "review")
     \/ SameRow /\ Raise(w, FALSE)
  /\ Others /\ NoHistory

\* suppressConcurrentPublication, whose error of the database is swallowed
Suppress(w) ==
  /\ SameRow \/ Write([row EXCEPT !.retryable = FALSE])
  /\ Answer(w, "review")
  /\ suppressed' = TRUE
  /\ UNCHANGED <<slow, unanswered>>

\* No review has the marker: the claim is released if it is old, and respected
\* otherwise.
Release(w) ==
  LET old == row.state = "submitting" /\ stale IN
  /\ pc[w] = "release"
  /\ \/ old /\ Write([row EXCEPT !.state = "computed"]) /\ GoTo(w, "model") /\ NoHistory
     \/ ~old /\ Suppress(w)
     \/ SameRow /\ Raise(w, FALSE) /\ NoHistory
  /\ Others
-----------------------------------------------------------------------------
(* reviewPR: the review and its publication *)

\* The broad catch: the error is receipted, if the database takes it, and thrown
\* on or turned into an unavailable review.
Receipt(w, retryable, throws) ==
  \/ /\ Write([row EXCEPT !.retryable = retryable])
     /\ IF throws THEN Raise(w, retryable) ELSE Answer(w, "neutral")
  \/ SameRow /\ Raise(w, FALSE)

\* The files are read, the evidence is admitted and the models are asked.  No
\* files and an answer without a review are neutral, transient errors of the
\* provider and an exceeded budget are thrown.
Model(w) ==
  /\ pc[w] = "model"
  /\ \/ GoTo(w, "head") /\ SameRow
     \/ Answer(w, "neutral") /\ SameRow
     \/ \E transient, throws \in BOOLEAN : (transient => throws) /\ Receipt(w, transient, throws)
  /\ Others /\ NoHistory

\* Mutant: the head is not read again.
ConfirmNothing(w) ==
  /\ pc[w] = "head"
  /\ GoTo(w, "claim")
  /\ SameRow /\ Others /\ NoHistory

\* The pull request's head is read again just before the publication.
ConfirmHead(w) ==
  /\ pc[w] = "head"
  /\ \/ ~moved /\ GoTo(w, "claim") /\ SameRow
     \/ /\ moved /\ Answer(w, "neutral")
        /\ SameRow \/ Write([row EXCEPT !.superseded = TRUE, !.retryable = FALSE])
     \/ Receipt(w, FALSE, TRUE)
  /\ Others /\ NoHistory

\* comment_findings; the dashboard's reviews are always posted
Posts(w) == task[w] \in Dashboards \/ comments

\* Only one invocation moves the row to submitting.
Claim(w) ==
  /\ pc[w] = "claim"
  /\ \/ /\ row.state \in {"none", "computed"}
        /\ row' = [row EXCEPT !.state = "submitting", !.superseded = FALSE]
        /\ stale' = FALSE
        /\ GoTo(w, IF Posts(w) THEN "post" ELSE "persist")
        /\ UNCHANGED reviews
     \/ row.state \notin {"none", "computed"} /\ GoTo(w, "lost") /\ SameRow
     \/ Receipt(w, FALSE, FALSE)
  /\ Others /\ NoHistory

\* The loser reads the row again.
LoseClaim(w) ==
  /\ pc[w] = "lost"
  /\ \/ row.state = "published" /\ Answer(w, "review") /\ SameRow /\ NoHistory
     \/ row.state = "submitting" /\ Suppress(w)
     \/ row.state = "failed" /\ Answer(w, "neutral") /\ SameRow /\ NoHistory
     \/ row.state \in {"none", "computed"} /\ Receipt(w, FALSE, TRUE) /\ NoHistory
     \/ Receipt(w, FALSE, FALSE) /\ NoHistory
  /\ Others

\* Mutant: a review GitHub refused is recorded as if comments were off.
PostSwallowsError(w) ==
  /\ pc[w] = "post"
  /\ \/ /\ reviews' = reviews + 1
        /\ own' = [own EXCEPT ![w] = reviews + 1]
        /\ pc' = [pc EXCEPT ![w] = "persist"]
        /\ UNCHANGED <<task, answer, target, queue>>
     \/ GoTo(w, "persist") /\ UNCHANGED reviews
  /\ UNCHANGED <<row, stale, history>> /\ Others

\* postGitHubReview: GitHub takes the review, or takes it and the answer is lost,
\* or refuses it.
Post(w) ==
  /\ pc[w] = "post"
  /\ \/ /\ reviews' = reviews + 1
        /\ own' = [own EXCEPT ![w] = reviews + 1]
        /\ pc' = [pc EXCEPT ![w] = "persist"]
        /\ UNCHANGED <<task, answer, target, queue, history>>
     \/ /\ reviews' = reviews + 1
        /\ unanswered' = TRUE
        /\ GoTo(w, "undelivered")
        /\ UNCHANGED <<slow, suppressed>>
     \/ GoTo(w, "undelivered") /\ UNCHANGED <<reviews, history>>
  /\ UNCHANGED <<row, stale>> /\ Others

\* E_REVIEW_DELIVERY is receipted, if the database takes it, and thrown.
Undelivered(w) ==
  /\ pc[w] = "undelivered"
  /\ \/ SameRow
     \/ Write([row EXCEPT !.retryable = FALSE,
                          !.state = IF @ = "submitting" THEN "failed" ELSE @])
  /\ Raise(w, FALSE)
  /\ Others /\ NoHistory

\* The row learns of the review; an error is receipted and the claim stays.
Persist(w) ==
  /\ pc[w] = "persist"
  /\ \/ /\ Write([row EXCEPT !.state = IF own[w] # 0 THEN "published" ELSE "computed",
                             !.review = own[w], !.retryable = FALSE])
        /\ Answer(w, "review")
     \/ Receipt(w, FALSE, FALSE)
  /\ Others /\ NoHistory

Run(w) ==
  \/ ResolvePointer(w) \/ ApplyConclusion(w)
  \/ Start(w) \/ Check(w) \/ Mark(w) \/ Peek(w)
  \/ Upsert(w) \/ Lookup(w) \/ Adopt(w) \/ Release(w)
  \/ Model(w) \/ ConfirmHead(w) \/ Claim(w) \/ LoseClaim(w)
  \/ Post(w) \/ Undelivered(w) \/ Persist(w)

\* Invocations that own the claim, or rely on there being no review
Publishing(w) == pc[w] \in {"post", "persist", "undelivered"}
Rests(w) == Publishing(w) \/ pc[w] = "release"

\* Ten minutes pass after a claim.
Age ==
  /\ row.state = "submitting" /\ ~stale
  /\ stale' = TRUE
  /\ slow' = (slow \/ \E w \in Slots : Rests(w))
  /\ UNCHANGED <<row, reviews, checks, marked, comments, push, queue, slots, unanswered, suppressed>>
-----------------------------------------------------------------------------
(* supersedePublishedReviewForPr *)

Unsynced == UNCHANGED <<stale, reviews, checks, marked, comments, queue, slots, history>>

\* A commit is pushed; "synchronize" queues the supersession job.
Push ==
  /\ ~moved
  /\ moved' = TRUE /\ sync' = "queued"
  /\ UNCHANGED <<row, notices, missed>> /\ Unsynced

\* A failed attempt of the job is repeated, the last one is not.
Resync == sync' \in {"queued", "failed"}

UnderWay == row.state = "submitting" \/ \E w \in Slots : pc[w] \in {"claim", "persist", "lookup", "adopt"}

\* The published row, and the pull request's head
SyncSelect ==
  /\ sync = "queued"
  /\ \/ /\ row.state = "published"
        /\ sync' = IF row.superseded THEN "done" ELSE "lookup"
        /\ UNCHANGED missed
     \/ row.state # "published" /\ sync' = "done" /\ missed' = (missed \/ UnderWay)
     \/ Resync /\ UNCHANGED missed
  /\ UNCHANGED <<row, moved, notices>> /\ Unsynced

\* A lookup that fails ends the job.
SyncLookup ==
  /\ sync = "lookup"
  /\ \/ sync' = (IF notices > 0 THEN "mark" ELSE "notice") /\ UNCHANGED missed
     \/ sync' = "done" /\ missed' = TRUE
  /\ UNCHANGED <<row, moved, notices>> /\ Unsynced

SyncNotice ==
  /\ sync = "notice"
  /\ \/ notices' = notices + 1 /\ (sync' = "mark" \/ Resync)
     \/ Resync /\ UNCHANGED notices
  /\ UNCHANGED <<row, moved, missed>> /\ Unsynced

SyncMark ==
  /\ sync = "mark"
  /\ \/ /\ row' = IF row.superseded THEN row
                 ELSE [row EXCEPT !.superseded = TRUE, !.retryable = FALSE]
        /\ sync' = "done"
     \/ Resync /\ UNCHANGED row
  /\ UNCHANGED <<moved, notices, missed>> /\ Unsynced

Sync == SyncSelect \/ SyncLookup \/ SyncNotice \/ SyncMark

Next ==
  \/ \E j \in Jobs : Queue(j) \/ LoseLock(j)
  \/ \E w \in Slots, j \in Jobs : Take(w, j)
  \/ \E w \in Slots : Run(w)
  \/ Age \/ Push \/ Sync

Spec == Init /\ [][Next]_vars

\* The workers take jobs and go on with them, and BullMQ redelivers.
Fairness ==
  /\ WF_vars(\E w \in Slots, j \in Jobs : Take(w, j))
  /\ \A w \in Slots : WF_vars(Run(w))

FairSpec == Spec /\ Fairness
-----------------------------------------------------------------------------
TypeOK ==
  /\ row \in [state : States, review : Nat, superseded : BOOLEAN, retryable : BOOLEAN]
  /\ stale \in BOOLEAN /\ reviews \in Nat
  /\ check \in [Hooks -> Conclusions \cup {"queued"}]
  /\ outcome \in [Hooks -> Conclusions \cup {None}]
  /\ pointer \in Hooks \cup {None}
  /\ marked \in BOOLEAN /\ comments \in BOOLEAN
  /\ moved \in BOOLEAN /\ missed \in BOOLEAN /\ notices \in Nat
  /\ sync \in {"none", "queued", "lookup", "notice", "mark", "done", "failed"}
  /\ job \in [Jobs -> {"absent", "waiting", "active", "completed", "failed"}]
  /\ attempts \in [Jobs -> 0..MaxAttempts]
  /\ lost \subseteq Jobs \X {1, 2}
  /\ owner \in [Jobs -> Slots \cup {None}]
  /\ pc \in [Slots -> {"idle", "start", "check", "mark", "peek", "upsert", "lookup", "adopt",
                       "release", "model", "head", "claim", "lost", "post", "undelivered",
                       "persist", "resolve", "conclude"}]
  /\ task \in [Slots -> Jobs \cup {None}]
  /\ own \in [Slots -> Nat]
  /\ answer \in [Slots -> Conclusions \cup {None}]
  /\ target \in [Slots -> Hooks \cup {None}]
  /\ slow \in BOOLEAN /\ unanswered \in BOOLEAN /\ suppressed \in BOOLEAN

\* The head's review is posted at most once, whoever crashed or raced, and the row
\* tells: it invites a publication only while there is none, names the review
\* once it is published, and calls a publication failed only if GitHub refused it
\* or did not answer.  Unless an invocation rests for ten minutes amid its
\* publication, which the stale-claim rule takes for a crash.
StateTellsPublication ==
  ~slow =>
    /\ reviews <= 1
    /\ row.state \in {"none", "computed"} => reviews = 0
    /\ row.state = "published" => reviews = 1 /\ row.review = 1
    /\ row.state = "failed" /\ reviews = 1 => unanswered

\* A review published for a head the pull request has left is marked superseded
\* once the supersession job is through, unless it was under way when that job
\* looked or the job's lookup failed.
StaleReviewIsMarked ==
  moved /\ sync = "done" /\ row.state = "published" /\ ~missed /\ ~slow => row.superseded

\* A check that concludes with a review has one behind it, unless comments are
\* off or an invocation left the publication to another.
ReviewedMeansReview ==
  \A h \in Hooks : check[h] = "review" => reviews > 0 \/ ~comments \/ suppressed

\* A job that has the head to itself never replaces the conclusion of a review by
\* an error, however often GitHub refuses the conclusion or loses its answer and
\* the job's attempts repeat; unless its lock was lost, or an attempt respected the
\* claim an earlier one had left.  A second job may: the row they share can ask for
\* a retry that the replayed conclusion no longer needs.
ConclusionsStand ==
  [][\A h \in Hooks :
       check[h] = "review" /\ check'[h] \in {"error", "interrupted"} =>
         lost # {} \/ suppressed \/ \E j \in Jobs \ {h} : job[j] # "absent"]_vars

\* The check of every webhook job gets its conclusion, unless the job fails for good.
CheckIsAnswered ==
  \A h \in Hooks : job[h] # "absent" ~> check[h] # "queued" \/ job[h] = "failed"
=============================================================================

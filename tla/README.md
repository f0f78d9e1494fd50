# GitWire in TLA+

GitWire is a self-hosted governance service for GitHub repositories: webhooks
and API requests become BullMQ jobs, workers act on GitHub through Octokit, and
PostgreSQL and Redis hold what they know. This directory holds TLA+ models of
the parts where several jobs, requests and GitHub itself act on the same state,
TLC configurations that check them on small instances, and TLAPS proofs.

Paths below are relative to `packages/web/` unless they start with `packages/`.

## Inventory

| Component | State | Operations | How it interacts | What is hard | What makes it correct |
|---|---|---|---|---|---|
| Mutation commands: `services/mutationCommandService.js`, `mutationLifecycleService.js`, migrations 048/049 | `mutation_commands`, `mutation_outbox`, `mutation_command_transitions`, the decision log | create or replay a command, claim an edge and advance a command | calls `authorize()`, runs in `transaction()` | racing creators and transitions, READ COMMITTED, failures at every statement, a lost COMMIT answer | one command per identity, intents commit whole, an unbroken journal, answers that agree with the tables |
| Managed actions: `services/actionStateMachine.js` | `managed_actions` | propose, approve, execute, succeed, fail, block, cancel, retry, reconcile | called by ciHeal, issueFix, triage and custom rules, by `routes/actions.js` and by `workers/reconciliationWorker.js` | reads and writes are separate statements without a lock, workers die, GitHub's answers get lost | terminal rows stay, a status tells what happened on GitHub, the retry budget, one active row per key, one patch per failure, nothing stays half-way |
| Triage: `workers/triageWorker.js`, `services/idempotencyService.js`, `lib/commentMarkers.js` | Redis leases and complete markers, the summary comment | begin, work, comment, complete, abandon; clear by `/gitwire run`; retry by an operator | BullMQ delivers and repeats jobs | leases that lapse or stay behind, redelivery, find-then-create | a lease excludes, a marker is earned, one comment, every job answered |
| Merge queue: `services/mergeQueueService.js`, `workers/phase2Worker.js` | `merge_queue_entries`, `merge_queue_config` | admit, update checks, process, remove, rebalance | reads and merges pull requests on GitHub | updates by id after a GitHub call, pushes meanwhile, recursion, a catch block that also covers what follows the merge | only checked heads merge, removals last, order and depth |
| Policy governance: `services/policyAuthorityService.js`, `governedPolicyWriterService.js`, `policyPromotionService.js`, `routes/rollouts.js`, migrations 045-047 | plans, change requests, evidence, approvals, bindings, `repo_config` | create, attach, transition, approve, reject, promote; direct writes of `repo_config` | `authorize()` on a second connection, row locks, a deferred trigger | stale bases, approvals and assignments that lapse, two promotions, lock order, the pool at its limit | the register of live policies, three principals, the configuration is the governed one, nobody waits for ever |
| Repair proposals: `services/repairProposalService.js` and its workers | `repair_proposals` with versions, evidence, artifacts, receipts | create, attach evidence, record diagnosis, patch and verification | four queues, each stage queues the next | repeated deliveries, an attempt that lost its lock beside its successor, a crash between recording and queueing | each stage once, from what the stage before recorded; nothing lost in silence |
| AI review: `services/aiReviewService.js`, `checkRunFinalizer.js`, `workers/phase4Worker.js` | the row in `ai_reviews`, Redis keys, the check, the review on GitHub | review, publish, recover by marker, supersede, conclude the check | webhook, command and dashboard jobs on one head | lost answers of POST and PATCH, crashes amid publication, a moving head, repeated jobs | one review per head, the row tells, a left head's review is marked, a check gets one conclusion |
| CI healing and issue fixing: `workers/ciHealWorker.js`, `workers/issueFix/` | `heal_prs`, runs, branches | diagnose, patch, open a pull request, supersede | managed actions, LLM | duplicated runs | one patch per failure |
| Authorization: `services/auth/` | principals, roles, assignments | evaluate, log the decision | every governed writer | revocation between decision and use, a second pool connection inside a transaction | decisions match assignments |
| Webhook intake: `routes/webhooks.js`, `workers/webhookWorker.js` | deliveries | verify, record, route | all queues | repeated deliveries | a delivery is queued once |
| Executor service, receipts: `packages/executor-service`, `lib/executionReceiptStore.js`, `lib/validatorReceiptGate.js` | containers, write-once receipts | run, report, gate | HTTP | process I/O | a gate passes only on a matching receipt |
| Rules: `packages/rules` | none | parse, resolve, evaluate gates | configuration | defaults and overrides | resolution is deterministic |
| Others: sync, maintainer, phase 3/4 workers, waivers, quality gates, feedback, error recovery, GitHub rate limit and cache, bot, dashboards | mirrors of GitHub, counters, views | | | a counter at its limit (rate limit) | |

`PROJECT.json` lists every component with its status and every hazard at its line.

## Modules

A component has its module, a module of proofs (`...Proofs`), and, where the
runs need scenes or symmetry, a module for TLC (`MC...`).

| Module | Models | State | Actions |
|---|---|---|---|
| `CommandLedger` | what the mutation-command tables promise | the set of registered commands | `Register`, `Move` |
| `MutationLedger` | `createMutationCommand` and `transitionMutationCommand` over the tables, unique indexes and triggers | committed tables; per call its place, request, uncommitted writes and answer; row locks | one per statement: `Lookup`, `Authorize`, `InsertCommand`, `InsertEvent`, `CommitCreate`, `ResolveWinner`, `FailCreate`; `Preflight`, `Fetch`, `ClaimEdge`, `Advance`, `CommitMove`, `Classify`, `FailMove`; `Revoke` |
| `ManagedActions` | `actionStateMachine.js` with its callers | the rows; per caller its place, row and wanted status; the sweep's list; GitHub's effects | `Check`, `Read`, `Write`, `Reason` are `transition()`, `cancel()`, `block()`; `Look`, `Dedup`, `Insert`, `Approved`, `Mutate` a job; `Request`, `Retry`, `InsertChild`, `CountRetry`, `MarkChild` the API; `StartSweep` .. `EndSweep` the reconciliation; `Age`, `Die` |
| `TriageOperation` | the triage of one target | leases and markers in Redis, comments, jobs with their attempts | `Acquire`, `Skip`, `StoreUnavailable` are `beginOperation`; `Work`, `Find`, `Create`, `Update`, `Complete`, `Abandon` the worker; `Enqueue`, `Clear`, `Requeue` where jobs come from; `LeaseExpires`, `MarkerExpires`, `Crash` |
| `MergeQueue` | the queue of one repository and its pull requests | the rows, pull requests with heads and passed checks, per call what it read | one per statement or GitHub call of `admitToQueue`, `onChecksUpdated`, `processQueue`, `removeFromQueue`; `Push`, `PassChecks`, `Close`, `Die` |
| `PolicyRegister` | what the governed policy tables promise | the live version, each proposal's stage and basis | `Propose`, `Close`, `Install` |
| `PolicyGovernance` | the governed writers and the promotion of one repository, as transactions on a pool of connections | plans, evidence, decisions, promotions, the binding and `repo_config`; assignments; per request its place and what it read; row locks | `Start`, `ShareRepository`, `Create`, `LockPlan`, `Authorize`, `Attach`, `Move`, `EnterReview`, `Decide`; `OwnRepository`, `AuthorizePromoter`, `LockRequestForPromotion`, `LockPlanForPromotion`, `SelectApproval`, `InsertPromotion`, `CommitPromotion`; `Override`; `Fail`, `GiveUp`, `Revoke`, `Expire`, `Lapse` |
| `RepairRecord` | what a repair proposal promises | one record per proposal | `Detect`, `Collect`, `Diagnose`, `Propose`, `Conclude` |
| `RepairProposal` | the pipeline from a failed run to its verification | the rows, the jobs with attempts and locks, per slot what it read and made | `CreateProposal`, `Read...`, `Record...`, `Queue...` of the four stages; `Deliver`, `Take`, `LoseLock`, `Fail`; `SetPolicy` |
| `ReviewPublication` | the AI review of one head | the row, the idempotency key, checks with stored outcomes and the pointer, GitHub's reviews and notices, the jobs and their attempts | `Start`, `Check`, `Mark`, `Peek`, `ResolvePointer`, `ApplyConclusion` the worker; `Upsert`, `Lookup`, `Adopt`, `Release`, `Model`, `ConfirmHead`, `Claim`, `LoseClaim`, `Post`, `Undelivered`, `Persist` are `reviewPR`; `Push`, `Sync...` the supersession; `Queue`, `Take`, `LoseLock`, `Age` |

Conventions. A call is a process and each awaited statement is one step, so
everything another call can do between two awaits is explored. Data is
abstracted to what the properties tell apart: an identity, a hash, a key or a
head is a model value or a number; texts, payloads, comments other than the
triage summary, and telemetry are left out. Variables named as history record
what happened and are read by properties only. A definition whose comment says
"Mutant" is a changed copy of the one below it; it shows that a property notices
that mistake and is used by no specification.

Modelling decisions worth knowing:

* `MutationLedger`: what a transaction wrote is private until its COMMIT; the
  entry in a unique index makes a second inserter wait; the claim trigger's
  `FOR UPDATE` is `rowLock`; the deferred checks of migration 049 are part of
  `CommitMove`. A row is named by the call that inserted it, since its uuid is
  fresh.
* `ManagedActions`: rows are named by their proposers. `Age` abstracts the
  time-outs of the sweep (6, 12, 24 hours) and is kept from passing in the
  middle of a database call, but not in the middle of work on GitHub. The
  workers are one process with every branch they take (dry run, blocked check,
  superseded fix, lost response). A `Recorder` does its work on GitHub before it
  proposes the row that tells of it (the triage comment; the labels, reviewer
  and branch of a heal pull request). A job with one of `PatchKeys` is
  `healByPatchPR`: it looks for an earlier patch of the failure before it
  proposes (`Look`), and may return from a row it is executing without recording
  anything (no fix found), which leaves the row to the sweep. The look covers the
  last seven days; they do not pass here. `cleanupPR` and `reconcileHealActions`
  select by `pr_number`, which `propose()` never writes, so they match none of
  these rows.
* `TriageOperation`: BullMQ and the stalled-job redelivery are external and
  modelled from how `packages/runtime/compat/queue.js` sets them up: three
  attempts, one redelivery after a crash, then failed. A process that is only
  slow (its lock lost while it still runs) is not modelled here, as it is in the
  two modules below. The label action is a managed action and its failure is
  swallowed, so it is not repeated here. A PR job is an issue job that takes the
  branch without a comment.
* `MergeQueue`: required checks are configured; `green` is GitHub's verdict on a
  head. An error in a place without a catch is `Die`. Closed pull requests are
  not reopened.
* `PolicyGovernance`: tables change only in a transaction's last step, since
  rows are protected by locks and not by the isolation level; the lock that comes
  just before the commit is taken in the same step. A request's principal is
  named when it is first looked at, because nothing before depends on it. What
  storage repeats of a check (CHECK constraints, most triggers of 045 and 046) is
  not repeated; the deferred trigger of 047 is, since it alone guards direct
  writes (`GovernedEndState`). `authorize()` needs a connection of its own while
  the transaction holds one; the pool's time-out and PostgreSQL's deadlock
  detection are `GiveUp`.
* `RepairProposal`: a recording transaction locks one row and is one step. Of the
  evidence the log excerpts are kept, which decide what a diagnosis rests on;
  `head_sha`, the envelope and the plan never change. A job that loses its lock
  is delivered again while the old attempt may still run. `recordCriticReview`
  and `transitionProposal` have no caller and are not modelled.
* `ReviewPublication`: the review's content, and the check each invocation opens
  for its own progress, are left out; a verdict that blocks and one that passes
  are the same conclusion `review`. Redis answers. GitHub's listing of reviews is
  up to date. Replaying a stored outcome and the read of the row that follows it
  are one step. `slow` records that an invocation rested ten minutes between two
  adjacent steps of its publication, which is what the stale-claim rule takes for
  a crash. Whether a repeated job may review again is read from the row all
  invocations of the head share (`phase4Worker.js:110-118`), not from the job.

## Runs

| Run | Question | Bounds |
|---|---|---|
| `ledger` | Do racing creators leave one whole command per identity; is the journal an unbroken chain; are the answers true; do the tables implement `CommandLedger`; does every call return? | two scenes: 2 creators over 2 identities, principals and hashes (a winner and a loser with every kind of mismatch), or 3 transitions on one command up to version 2 (two rivals for an edge and one for the next) |
| `actions` | What does a status tell, when is a cancel final, when does the budget hold, when are two rows of a key active or two patches proposed, does every row settle? | scenes: 1 job, 2 operators and the sweep (1 operator if the job is a patch); 2 jobs on the same or other keys and 1 operator, before time-outs; 1 recorder, 1 operator and the sweep. 1 death, budget 1 |
| `actions_cancelled` (violation) | Is a cancelled row final? | 1 job, 1 operator |
| `triage` | Does the lease exclude, is the marker earned, is there one comment, is every job answered? | 2 jobs, 2 attempts each; 2 keys, or 1 key and a crash or an operator's retry |
| `triage_lost` (violation) | Can triage be lost without a trace? | 1 job |
| `merge` | Which heads merge, what does merged mean, when is a removal final, what keeps order and depth? | 2 pull requests, 1 push each, 4 calls two at a time (the worker's concurrency), 1 death, depth 1 or 2 |
| `merge_unchecked` (violation) | Can an unchecked head merge? | 1 pull request, 1 push, 3 calls |
| `policy_register` | Do the tables implement `PolicyRegister`; do three principals stand behind what is live; does a decision match what is shown; is the configuration the governed one? | 2 plans (one is approved on a base the other replaces), 3 principals, valid and invalid evidence, 2 requests at a time |
| `policy_authority` | Is nothing promoted under a revoked authority; does every request return? | 1 plan, 2 requests that may take both connections, 1 assignment or approval that ends |
| `repair` | Is each stage recorded once, from what the one before recorded; is a proposal lost in silence? | 1 run, 2 attempts at a time, 2 attempts per job, 2 lost locks (an attempt overlaps its successor; a job that loses it twice fails) |
| `repair_pass` (violation) | Can a passing verification be recorded? | 1 run, one retry |
| `review` | Is the review posted once, does the row tell, is a left head's review marked, has a reported review one behind it, does the conclusion stand, does every check get one? | one job that may lose its lock while the head moves, or two of {webhook, command, dashboard}, 2 attempts each |

Two rivals and a third party show every interleaving the code distinguishes: no
decision depends on more than one other call, and each identity, row or target
is independent of the others. A death, a crash or a retry more repeats a
situation already met. The scenes of the `MC` modules keep apart kinds of trouble
whose product is too large; the proofs below hold without them. Deadlock checking
is off in the runs where the system may really stop (every call over, nothing
left to sweep or expire); the cfg or this file says so: `actions`, `triage`,
`review` and their violations end so.

What the runs show where the code has a race: the passing property says exactly
what still holds, with the race as its only exception.

* A quiet cancel is final (`QuietCancelIsFinal`); one that lands inside another
  transition is not (`actions_cancelled`).
* Two active rows of a key, or two patches of one failure, need overlapping jobs
  (`ActiveKeyUnique`).
* A second summary comment needs two jobs about to create it
  (`OneSummaryComment`).
* An unchecked head merges only if it moved between a look and an act
  (`QuietMergesAreChecked`, `merge_unchecked`); only irregular entries break order
  or depth (`QueueIsInOrder`).
* No promotion relies on a revoked assignment (`PromotedUnderAuthority`), because
  the rows are locked to the commit; expiry is only looked at when the promotion
  is inserted.
* A second review of a head needs an invocation that rests ten minutes amid its
  publication (`StateTellsPublication`). A review of a left head stays unmarked
  only if the supersession job missed it: it looks at published rows alone, and a
  lookup that fails ends it (`StaleReviewIsMarked`).
* A job that has the head to itself keeps its review's conclusion however often
  GitHub refuses it (`ConclusionsStand`); with a second job, the row they share
  may ask for a retry that replaces a replayed `review` by an error.

### Findings

* `actions_cancelled`: `transition()` updates by id alone, so a terminal row can
  move on.
* `triage_lost`: a redelivered job takes its own dead attempt's lease for
  another worker and completes without triage and without a failure.
* `merge_unchecked`: the merge call does not name the head that was compared.
* `repair_pass`: `recordVerificationResult` locks the proposal without the join
  that gives the repository's name, looks the source snapshot up without it, and
  so refuses every passing result.

Seen in the code and not settled by a run: a POST of the review whose answer is
lost marks the row failed although the review is there (`StateTellsPublication`
allows it by `unanswered`); an invocation that writes SUPERSEDED itself leaves the
supersession job nothing to announce; `classifyConflict` may call an edge illegal
that was legal at another version (`TransitionAnswersAgree` says what remains
true); the CI-heal circuit breaker (`workers/ciHealWorker.js:57-60`) is reset
(`:423`) after every failure it counts (`:906`).

## Fairness

Safety needs none. Fairness is never on a failure, a death, a lost lock or a
crash, and nobody is obliged to start a call, press a button or deliver a
webhook.

* `MutationLedger!FairSpec`: a started call goes on when it can (the driver
  returns or fails, PostgreSQL grants a freed lock).
* `ManagedActions!FairSpec`: calls run on, time passes, and the repeatable
  reconciliation job fires.
* `TriageOperation!FairSpec`: a queued job is delivered and its attempt runs on;
  no lease need ever expire, and operators need not act.
* `PolicyGovernance!FairSpec`: a request runs on, with strong fairness, because
  PostgreSQL's lock queues and the pool's waiting list are served in order, so a
  request that waits again and again for something that becomes free gets it;
  waits in a circle and waits for the pool end by their time limits (`GiveUp`).
* `RepairProposal!FairSpec`, `ReviewPublication!FairSpec`: attempts run on and
  waiting jobs are taken by the workers. `LoseLock` is BullMQ's redelivery of a
  job whose process died; a process that neither runs on nor loses its lock does
  not exist.

## Proofs

Seven modules prove, for every value of the constants, the safety properties the
runs check. The assumptions are those named in the modules: `None` is none of
the other values, kinds of callers are disjoint, bounds are numbers, inputs are
not empty. Every invariant follows from the inductive `IInv` of its module
(`Inductive`: `InitIInv`, one lemma per part or per action, then PTL). The
properties alone are not inductive; what each lacks:

* `MutationLedgerProofs` (`TypeCorrect`, `IdentityIsUnique`,
  `IntentCommitsWhole`, `JournalChains`): uniqueness needs that uncommitted rows
  are in the index too and never twice (`IndexIsUnique`); wholeness that what a
  transaction holds privately is fixed by how far it got (`WritesFollowPc`); the
  chain that a transition past its claim holds the row lock and its claim is
  still valid (`ClaimsAreLocked`), which is what the trigger's `FOR UPDATE` buys;
  movers only work on what they were given (`MoversKnow`). `AnswersAreTrue` and
  `TransitionAnswersAreTrue` add that a call has no answer before it is done.
  `Implementation` proves the refinement of `CommandLedger`: the initial states
  and every step, of which only the two COMMITs are not stutters.
  `HoldersDoNotWait`: whoever holds a row lock is between its claim and its end
  (`LocksEnd`) and whoever holds an index entry is past its insert, so nobody
  waits for a call that waits; a loser finds its winner (`WinnersAreFound`),
  because identities never leave the table.
* `ManagedActionsProofs` (`TypeCorrect`, `CancelIsFinal`, `StatusIsTold`,
  `KeysAreUnique`, `BudgetIsKept`): the sweep's list and the calls hold edges of
  `STATES` (`SweepFits`, `CallsFit`); a success is about to be written only for an
  effect GitHub has, a block only for one it has not (`EffectsFit`); no call past
  its look works on a quietly cancelled row (`StopsFit`); a job that is about to
  propose is a rival of every job of its key that is about to as well or has its
  row there (`KeysFit`); every counted child used up a retry, and retries of one
  row under way together are rivals (`RetriesFit`). `NoActionIsDropped` needs
  that a job at work on an unsettled row is about to take an edge of `STATES`
  from where the row is, so its call cannot throw (`RowFits`), and that whoever
  writes the row of another settles it (`GoalFits`).
* `TriageOperationProofs` (`TypeCorrect`, `LeaseExcludes`, `MarkersAreEarned`,
  `CommentIsSingle`): attempts past the limit were granted by operators
  (`AttemptsAreGranted`); a lost lease is not held again in the same attempt
  (`LostIsLost`), leases stay under their holder's key (`LeasesFollowKeys`), work
  comes before completion (`WorkComesFirst`), and a creator without rivals is
  alone and found no comment (`CreatorsAreAlone`). `OnlyLeftLeasesLose` is the
  exact condition of the finding `triage_lost`: for a key whose lease no attempt
  left behind, a lease has a live holder, complete means done, and a job that
  returned without the work done left it to one that is waiting, at work or failed
  (`LInv`).
* `MergeQueueProofs` (`TypeCorrect`, `QuietMergesChecked`, `MergedIsTrue`,
  `RemovalsAreFinal`, `OrderIsKept`): unless its pull request moved, what a call
  saw is the head of its entry and its checks passed (`ChecksFit`); a call that
  records a merge has merged (`MergesFit`); only admissions and other removals are
  at work on an entry removed in quiet (`RemovalsFit`); a place taken before the
  insert is behind every regular entry (`OrderFits`). The proof showed a case the
  instance is too small for: a renumbering during an admission, which
  `irregular` now names. `OnlyDeathsLeaveMerging` counts: the entries that are
  merging with no call at work on them are no more than the deaths
  (`StuckByDeaths`).
* `PolicyGovernanceProofs` (`TypeCorrect`, `DutiesAreSeparate`, `DecisionsMatch`,
  `ConfigIsGoverned`, `PromotionsAreAuthorized`, `Implementation`): a request
  that is past a lock holds it (`HoldsLocks`) and what it read under it is still
  so (`ReadsCurrent`); shared and exclusive holders of the repository exclude each
  other (`OwnerExcludesSharers`); a promotion pins the assignments it relies on
  (`PinsAuthority`); a plan is decided once, on what it shows
  (`DecisionsAreFinal`). The refinement of `PolicyRegister` follows: a create reads
  the base it records under the shared lock, a promotion compares the base under
  the exclusive one. `PromotionsAreAChain` adds that the promotions that happened
  form one chain of versions (`ChainInv`). `CirclesAreCrossWaits`: from what each
  place in the code already holds (`UsesLocks`), every wait but one follows an
  order of the locks; the one is a promotion that has the change request and wants
  the plan while a writer has them the other way round
  (`services/policyPromotionService.js:194`), which PostgreSQL has to break.
* `RepairProposalProofs` (`TypeCorrect`, `Implementation`): a row is blank from
  the stage it has not reached on (`IsStaged`), and a diagnosis about to be
  recorded rests on the evidence the row still has, whatever was recorded since
  it was read (`FitsStage`). Every `Record...` is then a step of `RepairRecord`
  or a stutter, for any number of duplicated and late attempts. From it follow,
  in the concrete rows, that each stage rests on the one before
  (`ProposalsAreBound`), that a record is never rewritten (`RecordsStay`) and that
  none is ever verified (`NothingIsVerified`, the finding `repair_pass` seen from
  the other side). `NoProposalIsDropped`: a job that is complete has
  queued the next one, and a row has come as far as it has by a job (`HandInv`).
* `ReviewPublicationProofs` (`TypeCorrect`, `PublicationIsTold`,
  `StaleReviewsAreMarked`, `ReviewsMeanReview`): one attempt publishes at a time,
  the claim is fresh while it does, and an old claim is released only where there
  is no review (`ClaimIsHeld`); a supersession job past its look at the row works
  on a published one (`SyncIsAware`); who is about to report a review has one, or
  an excuse (`ReviewsAreCovered`). `ConclusionsAreKept`: while a webhook job has
  the head to itself, a check that got the conclusion `review` has it in store for
  the next attempt, or there is none, and the row then asks for no retry, so that
  attempt replays it and ends (`SInv`). `ChecksAreAnswered`: a webhook job's
  attempt concludes the job's own check, and a job that completes has it concluded
  (`AInv`). `PublicationIsFinal`: every UPDATE of a
  published row keeps its state and its review.

Only model-checked: liveness (`CallsReturn`, `StaleActionsSettle`,
`TriageIsAnswered`, `RequestsReturn`, `Settles`, `CheckIsAnswered`) is out of the
prover's reach; the properties of the violation runs are false, and
`PassIsVerified` uses ENABLED. Of each liveness property the safety part is
proved, which says that nothing is dropped or waits in a circle whatever the
scheduling: `HoldersDoNotWait`, `NoActionIsDropped`, `OnlyLeftLeasesLose`,
`CirclesAreCrossWaits`, `NoProposalIsDropped` and `ChecksAreAnswered`. What TLC
adds is that, under the fairness stated, who has the work in hand gets on with it.
These statements stand in the `Proofs` modules only; they were checked by TLC on
the instances of the runs before they were proved.

## Plan

Done: the mutation ledger, managed actions, triage, the merge queue, policy
governance, the repair pipeline and the publication of reviews, with their proofs.
Next, in this order; each should share a run or replace one, to keep the time
model checking takes within bounds:

1. Merge queue: liveness with checks events as the only source of progress
   (`services/mergeQueueService.js:184`: a call that finds its row taken looks no
   further).
2. CI healing: the circuit breaker, cool-downs and the pull-request bookkeeping
   around the managed actions.
3. Webhook intake (deduplication of deliveries) and the rate-limit budget at its
   limit.
4. Pure operators for gate resolution (`packages/rules`), the receipt gate and the
   authorization decision, against a reference definition over bounded inputs.

## Not modelled, and why

The executor service, the dashboards, the demo and the bot are process I/O and
user interface, and make up most of the lines of the repository together with
validation of inputs, SQL for reading, prompts and presentation; the map covers
the lines that decide about shared state, about a tenth of the whole. Sync,
maintainer and the rest of the phase 3/4 workers mirror GitHub into tables and
decide little. Of the review, the evidence budget, the adversarial passes and the
publication policy compute a verdict from one review's data and share no state.
The critic stage and `transitionProposal` of `repairProposalService.js` have no
caller. `services/policyRolloutService.js` is unreachable from the routes, which
use the governed services. Waivers, gates, feedback and error recovery are
sequential reads and writes. The outbox (migration 048) has no consumer in the
repository. The remaining components wait for the steps of the plan.

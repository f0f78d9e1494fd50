--------------------------- MODULE RepairProposal ---------------------------
(***************************************************************************)
(* The repair pipeline of failed CI runs: the workers ciEvidenceWorker,    *)
(* diagnosisWorker, patchWorker and verificationWorker over the rows of    *)
(* repair_proposals (services/repairProposalService.js).                   *)
(*                                                                         *)
(* Each stage is a BullMQ job: it reads the row, works outside the         *)
(* database, records what it made in one transaction (SELECT ... FOR       *)
(* UPDATE, checks on the locked row, UPDATE ... WHERE version = the one it *)
(* read, an event) and queues the next stage.  A transaction is one step:  *)
(* it locks a single row.  Jobs are retried, a job whose lock is lost is   *)
(* delivered again, and the attempt that lost it may still be running.     *)
(* Of the evidence, the log excerpts are kept: they decide the confidence  *)
(* of the diagnosis.  head_sha, envelope and plan never change and every   *)
(* stage takes them from the row.                                          *)
(***************************************************************************)
EXTENDS Naturals, FiniteSets

CONSTANTS
  Proposals,    \* failed workflow runs: a run's fingerprint is unique
  Deliveries,   \* webhook deliveries of one run
  Slots,        \* attempts that run at a time
  Excerpts,     \* log excerpts GitHub may have for a run
  MaxAttempts,  \* attempts of a job (3 in compat/queue.js)
  MaxStalls,    \* bound: locks that are lost
  None

ASSUME BoundsAssumption == MaxAttempts \in Nat \ {0} /\ MaxStalls \in Nat

Outcomes == {"pass", "fail", "inconclusive"}
Statuses == {"none", "detected", "evidence_collected", "proposed", "verified", "failed"}

\* Jobs by jobId: "ci-evidence-<delivery>", "diagnosis-<id>", "patch-<id>", "verify-<id>"
Job(stage, p) == [stage |-> stage, of |-> p, delivery |-> None]
Jobs ==
  [stage : {"collect"}, of : Proposals, delivery : Deliveries]
    \cup [stage : {"diagnose", "patch", "verify"}, of : Proposals, delivery : {None}]

Evidence == SUBSET Excerpts
Diagnosis == SUBSET Excerpts    \* the excerpts a diagnosis rests on
Patch == [diagnosis : Diagnosis, refs : Evidence]
Result == [patch : Patch, overall : Outcomes]
Row == [status : Statuses, version : Nat, refs : Evidence \cup {None},
        diagnosis : Diagnosis \cup {None}, patch : Patch \cup {None},
        result : Result \cup {None}]
\* NULL, or nobody: a value of none of these.
ASSUME NoneAssumption ==
  /\ None \notin Slots /\ None \notin Jobs
  /\ \A e \in Evidence : e # None
  /\ None \notin Patch /\ None \notin Result

\* What the stages make
Makes == [refs : Evidence] \cup [diagnosis : Diagnosis] \cup Patch \cup Result

VARIABLES
  row,          \* repair_proposals
  autoPatch,    \* ci_healing.auto_patch of the repository
  job, attempts, \* the queues: state and failed attempts of jobs
  lost,         \* jobs that lost their lock, once or twice
  owner,        \* the slot that holds a job's lock
  pc, task,     \* of each slot
  seen,         \* the version it read
  made,         \* what it is about to record
  skipped       \* history: proposals for which no patch was queued

queues == <<job, attempts, lost, owner>>
slots == <<pc, task, seen, made>>
vars == <<row, autoPatch, queues, slots, skipped>>

Init ==
  /\ row = [p \in Proposals |-> [status |-> "none", version |-> 0, refs |-> None,
              diagnosis |-> None, patch |-> None, result |-> None]]
  /\ autoPatch \in BOOLEAN
  /\ job = [j \in Jobs |-> "absent"]
  /\ attempts = [j \in Jobs |-> 0]
  /\ lost = {}
  /\ owner = [j \in Jobs |-> None]
  /\ pc = [w \in Slots |-> "idle"]
  /\ task = [w \in Slots |-> None]
  /\ seen = [w \in Slots |-> 0]
  /\ made = [w \in Slots |-> None]
  /\ skipped = {}
-----------------------------------------------------------------------------
(* The queues *)

\* handleWorkflowRun: a delivery queues one job however often it is repeated.
Deliver(j) ==
  /\ j.stage = "collect" /\ job[j] = "absent"
  /\ job' = [job EXCEPT ![j] = "waiting"]
  /\ UNCHANGED <<row, autoPatch, attempts, lost, owner, slots, skipped>>

Take(w, j) ==
  /\ pc[w] = "idle" /\ job[j] = "waiting"
  /\ job' = [job EXCEPT ![j] = "active"]
  /\ owner' = [owner EXCEPT ![j] = w]
  /\ pc' = [pc EXCEPT ![w] = "read"]
  /\ task' = [task EXCEPT ![w] = j]
  /\ UNCHANGED <<row, autoPatch, attempts, lost, seen, made, skipped>>

GoTo(w, l) == pc' = [pc EXCEPT ![w] = l] /\ UNCHANGED task

Free(w) ==
  /\ pc' = [pc EXCEPT ![w] = "idle"]
  /\ task' = [task EXCEPT ![w] = None]
  /\ seen' = [seen EXCEPT ![w] = 0]
  /\ made' = [made EXCEPT ![w] = None]

\* w's attempt is over: its job, if w still has the lock, is now in state s, and
\* the jobs in added are queued unless their jobId is known.
Leave(w, s, added) ==
  /\ job' = [j \in Jobs |->
       IF owner[j] = w THEN s
       ELSE IF j \in added /\ job[j] = "absent" THEN "waiting" ELSE job[j]]
  /\ owner' = [j \in Jobs |-> IF owner[j] = w THEN None ELSE owner[j]]
  /\ Free(w)
  /\ UNCHANGED lost

Return(w, added) == Leave(w, "completed", added) /\ UNCHANGED attempts

\* Mutant: a failed attempt is always followed by another.
ThrowForever(w) ==
  LET j == task[w] IN
  /\ attempts' = IF owner[j] = w THEN [attempts EXCEPT ![j] = @ + 1] ELSE attempts
  /\ Leave(w, "waiting", {})

Throw(w) ==
  LET j == task[w]  n == attempts[j] + 1 IN
  /\ attempts' = IF owner[j] = w THEN [attempts EXCEPT ![j] = n] ELSE attempts
  /\ Leave(w, IF n < MaxAttempts THEN "waiting" ELSE "failed", {})

\* The lock of a job is not renewed in time, because its process died or is slow:
\* BullMQ delivers the job once more, and fails it the second time.
LoseLock(j) ==
  LET again == <<j, 1>> \in lost IN
  /\ owner[j] # None /\ Cardinality(lost) < MaxStalls
  /\ job' = [job EXCEPT ![j] = IF again THEN "failed" ELSE "waiting"]
  /\ lost' = lost \cup {<<j, IF again THEN 2 ELSE 1>>}
  /\ owner' = [owner EXCEPT ![j] = None]
  /\ Free(owner[j]) \/ UNCHANGED slots
  /\ UNCHANGED <<row, autoPatch, attempts, skipped>>
-----------------------------------------------------------------------------
(* What an attempt reads *)

Of(w) == task[w].of
Runs(w, stage, l) == pc[w] = l /\ task[w].stage = stage

\* checkPatchPolicy: auto_patch, and a diagnosis that is at least of medium
\* confidence, for which it takes an excerpt
PolicyAllows(diagnosis) == autoPatch /\ diagnosis # {}

\* collectEvidenceRefs: a log that cannot be read, or is past the size cap, is
\* left out; no error of GitHub's ends it.
CollectEvidence == SUBSET Excerpts

\* diagnoseFromEvidence: follows from the evidence and cites all of it.
Diagnose(refs) == refs

\* generateCandidatePatch: follows from the input bundle.
GeneratePatch(diagnosis, refs) == [diagnosis |-> diagnosis, refs |-> refs]

\* runSandboxVerification: the patch may apply or not, the commands pass or not,
\* and whether a pass counts depends on the backend and the validator image.
RunSandbox(patch) == [patch : {patch}, overall : Outcomes]

\* createProposal inserts the row, or returns the one there is.
Created(p) ==
  IF row[p].status # "none" THEN row[p]
  ELSE [row[p] EXCEPT !.status = "detected", !.version = 1]

\* collectForFailedRun up to the recording: the row, then the evidence.
CreateProposal(w) ==
  LET p == Of(w)  r == Created(p) IN
  /\ Runs(w, "collect", "read")
  /\ row' = [row EXCEPT ![p] = r]
  /\ seen' = [seen EXCEPT ![w] = r.version]
  /\ \E x \in CollectEvidence : made' = [made EXCEPT ![w] = [refs |-> x]]
  /\ GoTo(w, "record")
  /\ UNCHANGED <<autoPatch, queues, skipped>>

\* diagnoseProposal
ReadEvidence(w) ==
  LET r == row[Of(w)] IN
  /\ Runs(w, "diagnose", "read")
  /\ IF r.status # "evidence_collected" THEN Throw(w)
     ELSE /\ IF r.diagnosis # None THEN GoTo(w, "next") /\ UNCHANGED <<seen, made>>
             ELSE /\ seen' = [seen EXCEPT ![w] = r.version]
                  /\ made' = [made EXCEPT ![w] = [diagnosis |-> Diagnose(r.refs)]]
                  /\ GoTo(w, "record")
          /\ UNCHANGED queues
  /\ UNCHANGED <<row, autoPatch, skipped>>

\* Mutant: there is nothing left to do for a proposal that has a patch.
ReadDiagnosisQuietly(w) ==
  LET r == row[Of(w)] IN
  /\ Runs(w, "patch", "read")
  /\ IF r.status # "evidence_collected" THEN Return(w, {})
     ELSE IF r.diagnosis = None \/ ~PolicyAllows(r.diagnosis) THEN Throw(w)
     ELSE /\ seen' = [seen EXCEPT ![w] = r.version]
          /\ made' = [made EXCEPT ![w] = GeneratePatch(r.diagnosis, r.refs)]
          /\ GoTo(w, "record")
          /\ UNCHANGED queues
  /\ UNCHANGED <<row, autoPatch, skipped>>

\* generatePatchForProposal
ReadDiagnosis(w) ==
  LET r == row[Of(w)] IN
  /\ Runs(w, "patch", "read")
  /\ IF \/ r.status # "evidence_collected" \/ r.diagnosis = None
        \/ ~PolicyAllows(r.diagnosis)
     THEN Throw(w)
     ELSE /\ seen' = [seen EXCEPT ![w] = r.version]
          /\ made' = [made EXCEPT ![w] = GeneratePatch(r.diagnosis, r.refs)]
          /\ GoTo(w, "record")
          /\ UNCHANGED queues
  /\ UNCHANGED <<row, autoPatch, skipped>>

\* verifyProposal
ReadPatch(w) ==
  LET r == row[Of(w)] IN
  /\ Runs(w, "verify", "read")
  /\ IF r.status # "proposed" THEN Throw(w)
     ELSE /\ seen' = [seen EXCEPT ![w] = r.version]
          /\ \E x \in RunSandbox(r.patch) : made' = [made EXCEPT ![w] = x]
          /\ GoTo(w, "record")
          /\ UNCHANGED queues
  /\ UNCHANGED <<row, autoPatch, skipped>>
-----------------------------------------------------------------------------
(* What it records *)

\* A recording transaction answers with the row as it was (replay), refuses, or
\* writes r, if the version is still the one w read.
Record(w, replay, refuse, r) ==
  LET p == Of(w)
      done == IF task[w].stage = "verify" THEN Return(w, {})
              ELSE GoTo(w, "next") /\ UNCHANGED <<queues, seen, made>> IN
  /\ IF replay THEN done /\ UNCHANGED row
     ELSE IF refuse \/ row[p].version # seen[w] THEN Throw(w) /\ UNCHANGED row
     ELSE row' = [row EXCEPT ![p] = [r EXCEPT !.version = @ + 1]] /\ done
  /\ UNCHANGED <<autoPatch, skipped>>

\* Mutant: no check of the status under the lock.
RecordEvidenceAnyStatus(w) ==
  LET r == row[Of(w)] IN
  /\ Runs(w, "collect", "record")
  /\ Record(w, FALSE, FALSE,
            [r EXCEPT !.status = "evidence_collected", !.refs = made[w].refs])

\* recordCiEvidenceCollection
RecordEvidence(w) ==
  LET r == row[Of(w)] IN
  /\ Runs(w, "collect", "record")
  /\ Record(w, r.status = "evidence_collected", r.status # "detected",
            [r EXCEPT !.status = "evidence_collected", !.refs = made[w].refs])

\* attachEvidence for the diagnosis worker: what the diagnosis cites must be in
\* the evidence.
RecordDiagnosis(w) ==
  LET r == row[Of(w)] IN
  /\ Runs(w, "diagnose", "record")
  /\ Record(w, r.status = "evidence_collected" /\ r.diagnosis # None,
            r.status # "evidence_collected" \/ ~(made[w].diagnosis \subseteq r.refs),
            [r EXCEPT !.diagnosis = made[w].diagnosis])

\* recordPatchProposal: the patch is bound to the locked diagnosis and evidence,
\* and the policy is looked at again.
RecordPatch(w) ==
  LET r == row[Of(w)] IN
  /\ Runs(w, "patch", "record")
  /\ Record(w, r.status = "proposed" /\ r.patch = made[w],
            \/ r.status # "evidence_collected"
            \/ made[w].diagnosis # r.diagnosis \/ made[w].refs # r.refs
            \/ ~PolicyAllows(r.diagnosis),
            [r EXCEPT !.status = "proposed", !.patch = made[w]])

\* The repository's name in the row a transaction locks: recordPatchProposal
\* joins repositories, recordVerificationResult selects the row alone.
LockedRepository(stage) == IF stage = "patch" THEN "repository" ELSE None

\* verifyExecutionReceiptAgainstLockedProposal: of its checks, the one on the
\* source snapshot, which is stored under the repository's name
ReceiptHolds == LockedRepository("verify") # None

\* recordVerificationResult: the fingerprint binds the patch, not the outcome.
RecordResult(w) ==
  LET r == row[Of(w)] IN
  /\ Runs(w, "verify", "record")
  /\ Record(w, r.status \in {"verified", "failed"} /\ r.result.patch = made[w].patch,
            \/ r.status # "proposed" \/ made[w].patch # r.patch
            \/ made[w].overall = "pass" /\ ~ReceiptHolds,
            [r EXCEPT !.status = IF made[w].overall = "pass" THEN "verified" ELSE "failed",
                      !.result = made[w]])
-----------------------------------------------------------------------------
(* What it queues *)

QueueDiagnosis(w) ==
  /\ Runs(w, "collect", "next")
  /\ Return(w, {Job("diagnose", Of(w))})
  /\ UNCHANGED <<row, autoPatch, skipped>>

\* The diagnosis worker reads the row again and asks the policy; an error is
\* logged and no patch is queued.
QueuePatch(w) ==
  LET p == Of(w)  r == row[p] IN
  /\ Runs(w, "diagnose", "next")
  /\ IF r.status = "evidence_collected"
     THEN \/ /\ PolicyAllows(r.diagnosis)
             /\ Return(w, {Job("patch", p)}) /\ UNCHANGED skipped
          \/ Return(w, {}) /\ skipped' = skipped \cup {p}
     ELSE Return(w, {}) /\ UNCHANGED skipped
  /\ UNCHANGED <<row, autoPatch>>

QueueVerification(w) ==
  /\ Runs(w, "patch", "next")
  /\ Return(w, {Job("verify", Of(w))})
  /\ UNCHANGED <<row, autoPatch, skipped>>

\* The database, GitHub, the sandbox or Redis fails, except where the diagnosis
\* worker catches it.
Fail(w) ==
  /\ pc[w] # "idle" /\ ~Runs(w, "diagnose", "next")
  /\ Throw(w)
  /\ UNCHANGED <<row, autoPatch, skipped>>

\* An administrator changes the configuration.
SetPolicy == autoPatch' = ~autoPatch /\ UNCHANGED <<row, queues, slots, skipped>>

Run(w) ==
  \/ CreateProposal(w) \/ ReadEvidence(w) \/ ReadDiagnosis(w) \/ ReadPatch(w)
  \/ RecordEvidence(w) \/ RecordDiagnosis(w) \/ RecordPatch(w) \/ RecordResult(w)
  \/ QueueDiagnosis(w) \/ QueuePatch(w) \/ QueueVerification(w)

Next ==
  \/ \E j \in Jobs : Deliver(j) \/ LoseLock(j) \/ \E w \in Slots : Take(w, j)
  \/ \E w \in Slots : Run(w) \/ Fail(w)
  \/ SetPolicy

Spec == Init /\ [][Next]_vars

\* Attempts run on and waiting jobs are taken; nobody has to deliver a webhook,
\* lose a lock or change the policy.
FairSpec ==
  /\ Spec
  /\ \A w \in Slots : WF_vars(Run(w))
  /\ \A j \in Jobs : WF_vars(\E w \in Slots : Take(w, j))
-----------------------------------------------------------------------------
(* Properties *)

\* Rows, jobs and attempts have their types, and attempts are limited.
TypeOK ==
  /\ row \in [Proposals -> Row] /\ autoPatch \in BOOLEAN
  /\ job \in [Jobs -> {"absent", "waiting", "active", "completed", "failed"}]
  /\ attempts \in [Jobs -> 0..MaxAttempts] /\ lost \subseteq Jobs \X {1, 2}
  /\ owner \in [Jobs -> Slots \cup {None}]
  /\ pc \in [Slots -> {"idle", "read", "record", "next"}]
  /\ task \in [Slots -> Jobs \cup {None}] /\ seen \in [Slots -> Nat]
  /\ made \in [Slots -> Makes \cup {None}]
  /\ skipped \subseteq Proposals

\* Whatever attempts overlap, each stage is recorded once, in order, and made
\* from what the stage before it recorded.
Pipeline == INSTANCE RepairRecord WITH
  record <- [p \in Proposals |->
    [status |-> row[p].status, refs |-> row[p].refs, diagnosis |-> row[p].diagnosis,
     patch |-> row[p].patch, result |-> row[p].result]]

ImplementsRepairRecord == Pipeline!RecordSpec

\* No proposal is lost in silence: it gets its result, or one of its jobs is
\* listed as failed, or no patch was wanted or could be queued for it.
Settles ==
  \A p \in Proposals : row[p].status # "none" ~>
    \/ row[p].status \in {"verified", "failed"} \/ p \in skipped
    \/ \E j \in Jobs : j.of = p /\ job[j] = "failed"

\* "overall: "pass" -> proposed -> verified" (repairProposalService.js:1983): the
\* transaction can record a pass for the patch the locked proposal holds.
PassIsVerified ==
  \A w \in Slots :
    Runs(w, "verify", "record") /\ made[w].overall = "pass"
      /\ row[Of(w)].status = "proposed" /\ row[Of(w)].version = seen[w]
      => ENABLED (RecordResult(w) /\ row'[Of(w)].status = "verified")
=============================================================================

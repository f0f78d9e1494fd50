------------------------ MODULE RepairProposalProofs ------------------------
(***************************************************************************)
(* Proofs about RepairProposal, for any number of failed runs, attempts,   *)
(* retries and lost locks: the rows implement RepairRecord, and no         *)
(* proposal is dropped between two stages.                                 *)
(***************************************************************************)
EXTENDS RepairProposal, TLAPS

-----------------------------------------------------------------------------
(* The inductive invariant *)

\* The lock of a job is held by the slot that works on it.
HoldsJob(j) ==
  owner[j] # None =>
    job[j] = "active" /\ pc[owner[j]] # "idle" /\ task[owner[j]] = j

\* A job that may still run has an attempt left.
HasAttempt(j) == job[j] \in {"absent", "waiting", "active"} => attempts[j] < MaxAttempts

\* A row is blank from the stage on that it has not reached.
IsStaged(r) ==
  /\ r.refs = None <=> r.status \in {"none", "detected"}
  /\ r.status \in {"none", "detected"} => r.diagnosis = None
  /\ r.patch = None <=> r.status \in {"none", "detected", "evidence_collected"}
  /\ r.status \notin {"verified", "failed"} => r.result = None

\* What an attempt is about to record fits its stage; a diagnosis rests on the
\* evidence of the row, whatever was recorded since it was read.
FitsStage(w) ==
  /\ pc[w] # "idle" => task[w] \in Jobs
  /\ Runs(w, "collect", "record") => made[w] \in [refs : Evidence]
  /\ Runs(w, "diagnose", "record") =>
       made[w] \in [diagnosis : Diagnosis] /\ made[w].diagnosis = row[Of(w)].refs
  /\ Runs(w, "patch", "record") => made[w] \in Patch
  /\ Runs(w, "verify", "record") => made[w] \in Result

IInv ==
  /\ TypeOK
  /\ \A j \in Jobs : HoldsJob(j) /\ HasAttempt(j)
  /\ \A p \in Proposals : IsStaged(row[p])
  /\ \A w \in Slots : FitsStage(w)

-----------------------------------------------------------------------------
(* What the queue operations do *)

\* The jobs, their attempts and the slots, after any of them
QueuesFit ==
  /\ job \in [Jobs -> {"absent", "waiting", "active", "completed", "failed"}]
  /\ attempts \in [Jobs -> 0..MaxAttempts] /\ lost \subseteq Jobs \X {1, 2}
  /\ owner \in [Jobs -> Slots \cup {None}]
  /\ pc \in [Slots -> {"idle", "read", "record", "next"}]
  /\ task \in [Slots -> Jobs \cup {None}] /\ seen \in [Slots -> Nat]
  /\ made \in [Slots -> Makes \cup {None}]
  /\ \A j \in Jobs : HoldsJob(j) /\ HasAttempt(j)

\* An attempt that is over leaves the queues as they should be and nothing to record.
LEMMA LeaveFits ==
  ASSUME IInv, NEW w \in Slots, pc[w] # "idle", NEW added \in SUBSET Jobs,
         \/ Return(w, added) \/ Throw(w)
  PROVE  /\ QueuesFit'
         /\ \A v \in Slots \ {w} : pc'[v] = pc[v] /\ task'[v] = task[v] /\ made'[v] = made[v]
         /\ pc'[w] = "idle"
<1> USE DEF IInv, TypeOK, QueuesFit, HoldsJob, HasAttempt, FitsStage, Leave, Free
<1> USE NoneAssumption, BoundsAssumption
<1>1. CASE Return(w, added)
  BY <1>1 DEF Return
<1>2. CASE Throw(w)
  <2> DEFINE j == task[w]
  <2>1. j \in Jobs
    OBVIOUS
  <2>2. attempts' \in [Jobs -> 0..MaxAttempts]
    BY <1>2, <2>1 DEF Throw
  <2>3. \A i \in Jobs : owner[i] = w => i = j
    OBVIOUS
  <2>4. \A i \in Jobs : HoldsJob(i)'
    BY <1>2, <2>1, <2>3 DEF Throw
  <2>5. \A i \in Jobs : HasAttempt(i)'
    BY <1>2, <2>1, <2>2, <2>3 DEF Throw
  <2> QED
    BY <1>2, <2>1, <2>2, <2>4, <2>5 DEF Throw
<1> QED
  BY <1>1, <1>2

\* A slot that works on keeps what it is about to record, while the evidence of
\* a row, once there, stays what it is.
LEMMA FitStays ==
  ASSUME IInv, NEW v \in Slots, pc'[v] = pc[v], task'[v] = task[v], made'[v] = made[v],
         \A p \in Proposals : row[p].refs # None => row'[p].refs = row[p].refs
  PROVE  FitsStage(v)'
<1> SUFFICES ASSUME Runs(v, "diagnose", "record")
             PROVE  made[v].diagnosis = row'[Of(v)].refs
  BY DEF IInv, FitsStage, Runs, Of
<1>1. Of(v) \in Proposals
  BY DEF IInv, FitsStage, Runs, Of, Jobs
<1>2. made[v].diagnosis \in Evidence /\ made[v].diagnosis = row[Of(v)].refs
  BY DEF IInv, FitsStage, Diagnosis, Evidence
<1> QED
  BY <1>1, <1>2, NoneAssumption

\* The rows are as they should be, and their evidence is what it was.
RowsFit ==
  /\ row' \in [Proposals -> Row]
  /\ \A p \in Proposals : IsStaged(row[p])'
  /\ \A p \in Proposals : row[p].refs # None => row'[p].refs = row[p].refs

\* Enough for a step of slot w: it has nothing left to record.
LEMMA StepFits ==
  ASSUME IInv, QueuesFit', RowsFit, autoPatch' \in BOOLEAN, skipped' \subseteq Proposals,
         NEW w \in Slots,
         \A v \in Slots \ {w} : pc'[v] = pc[v] /\ task'[v] = task[v] /\ made'[v] = made[v],
         FitsStage(w)'
  PROVE  IInv'
<1>1. \A v \in Slots : FitsStage(v)'
  BY FitStays DEF RowsFit
<1> QED
  BY <1>1 DEF IInv, TypeOK, QueuesFit, RowsFit

LEMMA SameRowsFit ==
  ASSUME IInv, UNCHANGED row
  PROVE  RowsFit
BY DEF IInv, TypeOK, RowsFit, IsStaged

-----------------------------------------------------------------------------
(* The steps of the queues *)

LEMMA DeliverKeeps ==
  ASSUME IInv, NEW j \in Jobs, Deliver(j)
  PROVE  IInv'
<1>1. QueuesFit'
  BY DEF IInv, TypeOK, QueuesFit, Deliver, slots, HoldsJob, HasAttempt
<1>2. \A v \in Slots : FitsStage(v)'
  BY FitStays DEF Deliver, slots
<1> QED
  BY <1>1, <1>2 DEF IInv, TypeOK, QueuesFit, Deliver, IsStaged

LEMMA TakeKeeps ==
  ASSUME IInv, NEW j \in Jobs, NEW w \in Slots, Take(w, j)
  PROVE  IInv'
<1>1. QueuesFit'
  BY NoneAssumption DEF IInv, TypeOK, QueuesFit, Take, HoldsJob, HasAttempt
<1>2. FitsStage(w)'
  BY DEF IInv, TypeOK, Take, FitsStage, Runs
<1> QED
  BY <1>1, <1>2, StepFits, SameRowsFit DEF IInv, TypeOK, Take

LEMMA LoseLockKeeps ==
  ASSUME IInv, NEW j \in Jobs, LoseLock(j)
  PROVE  IInv'
<1>1. PICK w \in Slots : w = owner[j]
  BY DEF IInv, TypeOK, LoseLock
<1>2. QueuesFit'
  <2>1. /\ job' \in [Jobs -> {"absent", "waiting", "active", "completed", "failed"}]
        /\ lost' \subseteq Jobs \X {1, 2}
        /\ owner' \in [Jobs -> Slots \cup {None}]
    BY DEF IInv, TypeOK, LoseLock
  <2>2. /\ pc' \in [Slots -> {"idle", "read", "record", "next"}]
        /\ task' \in [Slots -> Jobs \cup {None}] /\ seen' \in [Slots -> Nat]
        /\ made' \in [Slots -> Makes \cup {None}]
    BY DEF IInv, TypeOK, LoseLock, Free, slots
  <2>3. \A i \in Jobs : owner'[i] # None => owner[i] # w
    BY <1>1 DEF IInv, TypeOK, LoseLock, HoldsJob
  <2>4. \A i \in Jobs : HoldsJob(i)'
    BY <1>1, <2>3 DEF IInv, TypeOK, LoseLock, HoldsJob, Free, slots
  <2>5. \A i \in Jobs : HasAttempt(i)'
    BY DEF IInv, TypeOK, LoseLock, HoldsJob, HasAttempt
  <2> QED
    BY <2>1, <2>2, <2>4, <2>5 DEF IInv, TypeOK, QueuesFit, LoseLock
<1>3. CASE Free(w)
  <2>1. FitsStage(w)'
    BY <1>3 DEF IInv, TypeOK, Free, FitsStage, Runs
  <2> QED
    BY <1>2, <1>3, <2>1, StepFits, SameRowsFit DEF IInv, TypeOK, LoseLock, Free
<1>4. CASE UNCHANGED slots
  <2>1. \A v \in Slots : FitsStage(v)'
    BY <1>4, FitStays DEF LoseLock, slots
  <2> QED
    BY <1>2, <2>1 DEF IInv, TypeOK, QueuesFit, LoseLock, IsStaged
<1> QED
  BY <1>1, <1>3, <1>4 DEF LoseLock, Free

\* An attempt that returns or throws, on rows that are as they should be.
LEMMA LeaveKeeps ==
  ASSUME IInv, RowsFit, autoPatch' \in BOOLEAN, skipped' \subseteq Proposals,
         NEW w \in Slots, pc[w] # "idle", NEW added \in SUBSET Jobs,
         \/ Return(w, added) \/ Throw(w)
  PROVE  IInv'
<1>1. FitsStage(w)'
  BY LeaveFits DEF FitsStage, Runs
<1> QED
  BY <1>1, LeaveFits, StepFits

\* An attempt that goes on, with something to record or not.
LEMMA GoToKeeps ==
  ASSUME IInv, RowsFit, autoPatch' \in BOOLEAN, skipped' \subseteq Proposals,
         NEW w \in Slots, pc[w] # "idle", NEW l \in {"record", "next"}, GoTo(w, l),
         UNCHANGED queues, seen' \in [Slots -> Nat], made' \in [Slots -> Makes \cup {None}],
         \A v \in Slots \ {w} : made'[v] = made[v],
         FitsStage(w)'
  PROVE  IInv'
<1>1. QueuesFit'
  <2>1. job' = job /\ attempts' = attempts /\ lost' = lost /\ owner' = owner /\ task' = task
    BY DEF GoTo, queues
  <2>2. pc' \in [Slots -> {"idle", "read", "record", "next"}]
    BY DEF IInv, TypeOK, GoTo
  <2>3. \A v \in Slots : pc[v] # "idle" => pc'[v] # "idle"
    BY DEF IInv, TypeOK, GoTo
  <2>4. \A j \in Jobs : HoldsJob(j)' /\ HasAttempt(j)'
    BY <2>1, <2>3 DEF IInv, TypeOK, HoldsJob, HasAttempt
  <2> QED
    BY <2>1, <2>2, <2>4 DEF IInv, TypeOK, QueuesFit
<1>2. \A v \in Slots \ {w} : pc'[v] = pc[v] /\ task'[v] = task[v] /\ made'[v] = made[v]
  BY DEF IInv, TypeOK, GoTo
<1> QED
  BY <1>1, <1>2, StepFits

-----------------------------------------------------------------------------
(* The steps that read *)

LEMMA RunsOfIsProposal ==
  ASSUME IInv, NEW w \in Slots, NEW stage, NEW l \in {"read", "record", "next"},
         Runs(w, stage, l)
  PROVE  /\ pc[w] # "idle" /\ task[w] \in Jobs /\ Of(w) \in Proposals
         /\ row[Of(w)] \in Row /\ IsStaged(row[Of(w)])
BY DEF IInv, TypeOK, FitsStage, Runs, Of, Jobs

LEMMA CreateProposalKeeps ==
  ASSUME IInv, NEW w \in Slots, CreateProposal(w)
  PROVE  IInv'
<1> DEFINE p == Of(w)
<1>1. pc[w] # "idle" /\ task[w] \in Jobs /\ p \in Proposals /\ row[p] \in Row /\ IsStaged(row[p])
  BY RunsOfIsProposal DEF CreateProposal
<1>2. PICK r \in Row : r = Created(p)
  BY <1>1 DEF Created, Row, Statuses
<1>3. r.refs = row[p].refs /\ IsStaged(r)
  BY <1>1, <1>2 DEF Created, Row, IsStaged
<1>4. row' = [row EXCEPT ![p] = r]
  BY <1>2 DEF CreateProposal
<1>5. RowsFit
  BY <1>1, <1>3, <1>4 DEF IInv, TypeOK, RowsFit
<1>6. PICK x \in Evidence : made' = [made EXCEPT ![w] = [refs |-> x]]
  BY DEF CreateProposal, CollectEvidence, Evidence
<1>7. made' \in [Slots -> Makes \cup {None}]
  BY <1>6 DEF IInv, TypeOK, Makes
<1>8. seen' \in [Slots -> Nat]
  BY <1>2 DEF IInv, TypeOK, CreateProposal, Row
<1>9. FitsStage(w)'
  BY <1>1, <1>6 DEF IInv, TypeOK, CreateProposal, FitsStage, Runs, GoTo
<1>10. GoTo(w, "record") /\ UNCHANGED queues /\ UNCHANGED <<autoPatch, skipped>>
  BY DEF CreateProposal
<1>11. \A v \in Slots \ {w} : made'[v] = made[v]
  BY <1>6 DEF IInv, TypeOK
<1> QED
  BY <1>1, <1>5, <1>7, <1>8, <1>9, <1>10, <1>11, GoToKeeps DEF IInv, TypeOK

LEMMA ReadEvidenceKeeps ==
  ASSUME IInv, NEW w \in Slots, ReadEvidence(w)
  PROVE  IInv'
<1>1. pc[w] # "idle" /\ task[w] \in Jobs /\ Of(w) \in Proposals
      /\ row[Of(w)] \in Row /\ IsStaged(row[Of(w)])
  BY RunsOfIsProposal DEF ReadEvidence
<1>2. RowsFit /\ autoPatch' \in BOOLEAN /\ skipped' \subseteq Proposals
  BY SameRowsFit DEF IInv, TypeOK, ReadEvidence
<1>3. CASE Throw(w)
  BY <1>1, <1>2, <1>3, LeaveKeeps
<1>4. CASE GoTo(w, "next") /\ UNCHANGED <<seen, made>> /\ UNCHANGED queues
  <2>1. FitsStage(w)'
    BY <1>1, <1>4 DEF IInv, TypeOK, FitsStage, Runs, GoTo
  <2> QED
    BY <1>1, <1>2, <1>4, <2>1, GoToKeeps DEF IInv, TypeOK
<1>5. CASE /\ row[Of(w)].status = "evidence_collected"
           /\ seen' = [seen EXCEPT ![w] = row[Of(w)].version]
           /\ made' = [made EXCEPT ![w] = [diagnosis |-> Diagnose(row[Of(w)].refs)]]
           /\ GoTo(w, "record")
           /\ UNCHANGED queues
  <2>1. row[Of(w)].refs \in Diagnosis
    BY <1>1, <1>5 DEF Row, IsStaged, Diagnosis, Evidence
  <2>2. made' \in [Slots -> Makes \cup {None}] /\ seen' \in [Slots -> Nat]
    BY <1>1, <1>5, <2>1 DEF IInv, TypeOK, Makes, Row, Diagnose
  <2>3. FitsStage(w)'
    BY <1>1, <1>5, <2>1 DEF IInv, TypeOK, ReadEvidence, FitsStage, Runs, GoTo, Of, Diagnose
  <2>4. \A v \in Slots \ {w} : made'[v] = made[v]
    BY <1>5 DEF IInv, TypeOK
  <2> QED
    BY <1>1, <1>2, <1>5, <2>2, <2>3, <2>4, GoToKeeps
<1> QED
  BY <1>3, <1>4, <1>5 DEF ReadEvidence

LEMMA ReadDiagnosisKeeps ==
  ASSUME IInv, NEW w \in Slots, ReadDiagnosis(w)
  PROVE  IInv'
<1>1. pc[w] # "idle" /\ task[w] \in Jobs /\ Of(w) \in Proposals
      /\ row[Of(w)] \in Row /\ IsStaged(row[Of(w)])
  BY RunsOfIsProposal DEF ReadDiagnosis
<1>2. RowsFit /\ autoPatch' \in BOOLEAN /\ skipped' \subseteq Proposals
  BY SameRowsFit DEF IInv, TypeOK, ReadDiagnosis
<1>3. CASE Throw(w)
  BY <1>1, <1>2, <1>3, LeaveKeeps
<1>4. CASE /\ row[Of(w)].status = "evidence_collected" /\ row[Of(w)].diagnosis # None
           /\ seen' = [seen EXCEPT ![w] = row[Of(w)].version]
           /\ made' = [made EXCEPT ![w] = GeneratePatch(row[Of(w)].diagnosis, row[Of(w)].refs)]
           /\ GoTo(w, "record")
           /\ UNCHANGED queues
  <2>1. PICK x \in Patch : x = GeneratePatch(row[Of(w)].diagnosis, row[Of(w)].refs)
    BY <1>1, <1>4 DEF Row, IsStaged, Patch, GeneratePatch
  <2>2. made' \in [Slots -> Makes \cup {None}] /\ seen' \in [Slots -> Nat]
    BY <1>1, <1>4, <2>1 DEF IInv, TypeOK, Makes, Row
  <2>3. FitsStage(w)'
    BY <1>1, <1>4, <2>1 DEF IInv, TypeOK, ReadDiagnosis, FitsStage, Runs, GoTo
  <2>4. \A v \in Slots \ {w} : made'[v] = made[v]
    BY <1>4 DEF IInv, TypeOK
  <2> QED
    BY <1>1, <1>2, <1>4, <2>2, <2>3, <2>4, GoToKeeps
<1> QED
  BY <1>3, <1>4 DEF ReadDiagnosis

LEMMA ReadPatchKeeps ==
  ASSUME IInv, NEW w \in Slots, ReadPatch(w)
  PROVE  IInv'
<1>1. pc[w] # "idle" /\ task[w] \in Jobs /\ Of(w) \in Proposals
      /\ row[Of(w)] \in Row /\ IsStaged(row[Of(w)])
  BY RunsOfIsProposal DEF ReadPatch
<1>2. RowsFit /\ autoPatch' \in BOOLEAN /\ skipped' \subseteq Proposals
  BY SameRowsFit DEF IInv, TypeOK, ReadPatch
<1>3. CASE Throw(w)
  BY <1>1, <1>2, <1>3, LeaveKeeps
<1>4. ASSUME NEW x \in RunSandbox(row[Of(w)].patch), row[Of(w)].status = "proposed",
             seen' = [seen EXCEPT ![w] = row[Of(w)].version],
             made' = [made EXCEPT ![w] = x], GoTo(w, "record"), UNCHANGED queues,
             row[Of(w)].patch # None
      PROVE  IInv'
  <2>1. x \in Result
    BY <1>1, <1>4 DEF Row, RunSandbox, Result
  <2>2. made' \in [Slots -> Makes \cup {None}] /\ seen' \in [Slots -> Nat]
    BY <1>1, <1>4, <2>1 DEF IInv, TypeOK, Makes, Row
  <2>3. FitsStage(w)'
    BY <1>1, <1>4, <2>1 DEF IInv, TypeOK, ReadPatch, FitsStage, Runs, GoTo
  <2>4. \A v \in Slots \ {w} : made'[v] = made[v]
    BY <1>4 DEF IInv, TypeOK
  <2> QED
    BY <1>1, <1>2, <1>4, <2>2, <2>3, <2>4, GoToKeeps
<1>5. row[Of(w)].status = "proposed" => row[Of(w)].patch # None
  BY <1>1 DEF IsStaged
<1> QED
  BY <1>3, <1>4, <1>5 DEF ReadPatch

-----------------------------------------------------------------------------
(* The recording transactions *)

\* What a recording transaction does besides the row, when it leaves w at most
\* with something to queue.
LEMMA RecordKeeps ==
  ASSUME IInv, NEW w \in Slots, NEW stage, Runs(w, stage, "record"), RowsFit,
         UNCHANGED <<autoPatch, skipped>>,
         \/ Throw(w)
         \/ Return(w, {})
         \/ GoTo(w, "next") /\ UNCHANGED <<queues, seen, made>>
  PROVE  IInv'
<1>1. pc[w] # "idle" /\ task[w] \in Jobs
  BY RunsOfIsProposal
<1>2. autoPatch' \in BOOLEAN /\ skipped' \subseteq Proposals
  BY DEF IInv, TypeOK
<1>3. CASE Throw(w) \/ Return(w, {})
  BY <1>1, <1>2, <1>3, LeaveKeeps
<1>4. CASE GoTo(w, "next") /\ UNCHANGED <<queues, seen, made>>
  <2>1. FitsStage(w)'
    BY <1>1, <1>4 DEF IInv, TypeOK, FitsStage, Runs, GoTo
  <2> QED
    BY <1>1, <1>2, <1>4, <2>1, GoToKeeps DEF IInv, TypeOK
<1> QED
  BY <1>3, <1>4

\* A row that is replaced by one that is as it should be
LEMMA RowFits ==
  ASSUME IInv, NEW p \in Proposals, NEW r \in Row, IsStaged(r),
         row[p].refs # None => r.refs = row[p].refs,
         row' = [row EXCEPT ![p] = [r EXCEPT !.version = @ + 1]]
  PROVE  RowsFit
<1>1. PICK x \in Row : x = [r EXCEPT !.version = @ + 1]
  <2>1. r.version + 1 \in Nat
    BY DEF Row
  <2>2. [r EXCEPT !.version = @ + 1] \in Row
    BY <2>1 DEF Row
  <2> QED
    BY <2>2
<1>2. x.refs = r.refs /\ IsStaged(x)
  BY <1>1 DEF Row, IsStaged
<1> QED
  BY <1>1, <1>2 DEF IInv, TypeOK, RowsFit

\* What RecordEvidence may write
LEMMA EvidenceRow ==
  ASSUME IInv, NEW w \in Slots, Runs(w, "collect", "record"), row[Of(w)].status = "detected"
  PROVE  LET r == [row[Of(w)] EXCEPT !.status = "evidence_collected", !.refs = made[w].refs]
         IN  r \in Row /\ IsStaged(r)
<1>1. row[Of(w)] \in Row /\ IsStaged(row[Of(w)])
  BY RunsOfIsProposal
<1>2. made[w].refs \in Evidence
  BY DEF IInv, FitsStage
<1> QED
  BY <1>1, <1>2, NoneAssumption DEF Row, Statuses, IsStaged

LEMMA RecordEvidenceKeeps ==
  ASSUME IInv, NEW w \in Slots, RecordEvidence(w)
  PROVE  IInv'
<1>1. Runs(w, "collect", "record") /\ Of(w) \in Proposals /\ IsStaged(row[Of(w)])
  BY RunsOfIsProposal DEF RecordEvidence
<1>2. CASE UNCHANGED row
  BY <1>1, <1>2, SameRowsFit, RecordKeeps DEF RecordEvidence, Record
<1>3. CASE row[Of(w)].status = "detected" /\ ~UNCHANGED row
  <2>1. PICK r \in Row : /\ r = [row[Of(w)] EXCEPT !.status = "evidence_collected",
                                                   !.refs = made[w].refs]
                         /\ IsStaged(r)
    BY <1>1, <1>3, EvidenceRow
  <2>2. RowsFit
    BY <1>1, <1>3, <2>1, RowFits DEF RecordEvidence, Record, IsStaged
  <2> QED
    BY <1>1, <1>3, <2>2, RecordKeeps DEF RecordEvidence, Record
<1> QED
  BY <1>2, <1>3 DEF RecordEvidence, Record

LEMMA RecordDiagnosisKeeps ==
  ASSUME IInv, NEW w \in Slots, RecordDiagnosis(w)
  PROVE  IInv'
<1>1. /\ Runs(w, "diagnose", "record") /\ Of(w) \in Proposals
      /\ row[Of(w)] \in Row /\ IsStaged(row[Of(w)])
  BY RunsOfIsProposal DEF RecordDiagnosis
<1>2. CASE UNCHANGED row
  BY <1>1, <1>2, SameRowsFit, RecordKeeps DEF RecordDiagnosis, Record
<1>3. CASE row[Of(w)].status = "evidence_collected" /\ ~UNCHANGED row
  <2>1. made[w].diagnosis \in Diagnosis
    BY <1>1 DEF IInv, FitsStage
  <2>2. PICK r \in Row : /\ r = [row[Of(w)] EXCEPT !.diagnosis = made[w].diagnosis]
                         /\ IsStaged(r)
    <3>1. [row[Of(w)] EXCEPT !.diagnosis = made[w].diagnosis] \in Row
      BY <1>1, <2>1 DEF Row, Statuses
    <3>2. IsStaged([row[Of(w)] EXCEPT !.diagnosis = made[w].diagnosis])
      BY <1>1, <1>3, <2>1, NoneAssumption DEF Row, IsStaged
    <3> QED
      BY <3>1, <3>2
  <2>3. r.refs = row[Of(w)].refs
    BY <1>1, <2>2 DEF Row
  <2>4. RowsFit
    BY <1>1, <1>3, <2>2, <2>3, RowFits DEF RecordDiagnosis, Record
  <2> QED
    BY <1>1, <1>3, <2>4, RecordKeeps DEF RecordDiagnosis, Record
<1> QED
  BY <1>2, <1>3 DEF RecordDiagnosis, Record

LEMMA RecordPatchKeeps ==
  ASSUME IInv, NEW w \in Slots, RecordPatch(w)
  PROVE  IInv'
<1>1. /\ Runs(w, "patch", "record") /\ Of(w) \in Proposals
      /\ row[Of(w)] \in Row /\ IsStaged(row[Of(w)])
  BY RunsOfIsProposal DEF RecordPatch
<1>2. CASE UNCHANGED row
  BY <1>1, <1>2, SameRowsFit, RecordKeeps DEF RecordPatch, Record
<1>3. CASE row[Of(w)].status = "evidence_collected" /\ ~UNCHANGED row
  <2>1. made[w] \in Patch
    BY <1>1 DEF IInv, FitsStage
  <2>2. PICK r \in Row : /\ r = [row[Of(w)] EXCEPT !.status = "proposed", !.patch = made[w]]
                         /\ IsStaged(r)
    <3>1. [row[Of(w)] EXCEPT !.status = "proposed", !.patch = made[w]] \in Row
      BY <1>1, <2>1 DEF Row, Statuses
    <3>2. IsStaged([row[Of(w)] EXCEPT !.status = "proposed", !.patch = made[w]])
      BY <1>1, <1>3, <2>1, NoneAssumption DEF Row, IsStaged
    <3> QED
      BY <3>1, <3>2
  <2>3. r.refs = row[Of(w)].refs
    BY <1>1, <2>2 DEF Row
  <2>4. RowsFit
    BY <1>1, <1>3, <2>2, <2>3, RowFits DEF RecordPatch, Record
  <2> QED
    BY <1>1, <1>3, <2>4, RecordKeeps DEF RecordPatch, Record
<1> QED
  BY <1>2, <1>3 DEF RecordPatch, Record

LEMMA RecordResultKeeps ==
  ASSUME IInv, NEW w \in Slots, RecordResult(w)
  PROVE  IInv'
<1>1. /\ Runs(w, "verify", "record") /\ Of(w) \in Proposals
      /\ row[Of(w)] \in Row /\ IsStaged(row[Of(w)])
  BY RunsOfIsProposal DEF RecordResult
<1>2. CASE UNCHANGED row
  BY <1>1, <1>2, SameRowsFit, RecordKeeps DEF RecordResult, Record
<1>3. CASE row[Of(w)].status = "proposed" /\ ~UNCHANGED row
  <2>1. made[w] \in Result
    BY <1>1 DEF IInv, FitsStage
  <2>2. PICK s \in {"verified", "failed"} :
           s = IF made[w].overall = "pass" THEN "verified" ELSE "failed"
    OBVIOUS
  <2>3. PICK r \in Row : /\ r = [row[Of(w)] EXCEPT !.status = s, !.result = made[w]]
                         /\ IsStaged(r)
    <3>1. [row[Of(w)] EXCEPT !.status = s, !.result = made[w]] \in Row
      BY <1>1, <2>1 DEF Row, Statuses
    <3>2. IsStaged([row[Of(w)] EXCEPT !.status = s, !.result = made[w]])
      BY <1>1, <1>3, <2>1, NoneAssumption DEF Row, IsStaged
    <3> QED
      BY <3>1, <3>2
  <2>4. r.refs = row[Of(w)].refs
    BY <1>1, <2>3 DEF Row
  <2>5. RowsFit
    BY <1>1, <1>3, <2>2, <2>3, <2>4, RowFits DEF RecordResult, Record
  <2> QED
    BY <1>1, <1>3, <2>5, RecordKeeps DEF RecordResult, Record
<1> QED
  BY <1>2, <1>3 DEF RecordResult, Record

-----------------------------------------------------------------------------
(* The steps that queue, and the whole *)

LEMMA QueueKeeps ==
  ASSUME IInv, NEW w \in Slots, QueueDiagnosis(w) \/ QueuePatch(w) \/ QueueVerification(w)
  PROVE  IInv'
<1> DEFINE p == Of(w)
<1>1. pc[w] # "idle" /\ p \in Proposals
  BY RunsOfIsProposal DEF QueueDiagnosis, QueuePatch, QueueVerification
<1>2. RowsFit
  BY SameRowsFit DEF QueueDiagnosis, QueuePatch, QueueVerification
<1>3. autoPatch' \in BOOLEAN /\ skipped' \subseteq Proposals
  BY <1>1 DEF IInv, TypeOK, QueueDiagnosis, QueuePatch, QueueVerification
<1>4. \A stage \in {"diagnose", "patch", "verify"} : {Job(stage, p)} \subseteq Jobs
  BY <1>1 DEF Job, Jobs
<1>5. PICK added \in SUBSET Jobs : Return(w, added)
  <2>1. CASE QueueDiagnosis(w)
    BY <1>4, <2>1 DEF QueueDiagnosis
  <2>2. CASE QueuePatch(w)
    BY <1>4, <2>2 DEF QueuePatch
  <2>3. CASE QueueVerification(w)
    BY <1>4, <2>3 DEF QueueVerification
  <2> QED
    BY <2>1, <2>2, <2>3
<1> QED
  BY <1>1, <1>2, <1>3, <1>5, LeaveKeeps

LEMMA FailKeeps ==
  ASSUME IInv, NEW w \in Slots, Fail(w)
  PROVE  IInv'
BY SameRowsFit, LeaveKeeps DEF Fail, IInv, TypeOK

\* Nothing but the policy changes.
LEMMA SetPolicyKeeps ==
  ASSUME IInv, SetPolicy \/ UNCHANGED vars
  PROVE  IInv'
<1>1. /\ UNCHANGED <<row, job, attempts, lost, owner, pc, task, seen, made, skipped>>
      /\ autoPatch' \in BOOLEAN
  BY DEF IInv, TypeOK, SetPolicy, vars, queues, slots
<1>2. \A w \in Slots : FitsStage(w)'
  BY <1>1, FitStays
<1> QED
  BY <1>1, <1>2 DEF IInv, TypeOK, HoldsJob, HasAttempt, IsStaged

LEMMA InitFits == Init => IInv
<1> SUFFICES ASSUME Init PROVE IInv
  OBVIOUS
<1>1. TypeOK
  BY BoundsAssumption DEF Init, TypeOK, Row, Statuses
<1> QED
  BY <1>1, BoundsAssumption DEF Init, IInv, HoldsJob, HasAttempt, IsStaged, FitsStage, Runs

LEMMA NextKeeps == IInv /\ [Next]_vars => IInv'
<1> SUFFICES ASSUME IInv, [Next]_vars PROVE IInv'
  OBVIOUS
<1>1. ASSUME NEW w \in Slots, Run(w) PROVE IInv'
  BY <1>1, CreateProposalKeeps, ReadEvidenceKeeps, ReadDiagnosisKeeps, ReadPatchKeeps,
     RecordEvidenceKeeps, RecordDiagnosisKeeps, RecordPatchKeeps, RecordResultKeeps, QueueKeeps
     DEF Run
<1> QED
  BY <1>1, DeliverKeeps, LoseLockKeeps, TakeKeeps, FailKeeps, SetPolicyKeeps DEF Next

\* Whatever attempts overlap, a lock is held by the slot that works on the job, a
\* row is blank from the stage on it has not reached, and what is about to be
\* recorded fits its stage.
THEOREM Inductive == Spec => []IInv
BY InitFits, NextKeeps, PTL DEF Spec

\* Rows, jobs and attempts have their types, and no job has more attempts than
\* the queue allows.
THEOREM TypeCorrect == Spec => []TypeOK
<1>1. IInv => TypeOK
  BY DEF IInv
<1> QED
  BY <1>1, Inductive, PTL

-----------------------------------------------------------------------------
(* The rows implement RepairRecord *)

\* What RepairRecord sees of the rows
Rec(r) == [status |-> r.status, refs |-> r.refs, diagnosis |-> r.diagnosis,
           patch |-> r.patch, result |-> r.result]
records == [p \in Proposals |-> Rec(row[p])]

LEMMA RecordsChange ==
  ASSUME IInv, NEW p \in Proposals, NEW r, row' = [row EXCEPT ![p] = r]
  PROVE  records' = [records EXCEPT ![p] = Rec(r)]
BY DEF IInv, TypeOK, records

LEMMA CreateMaps ==
  ASSUME IInv, NEW w \in Slots, CreateProposal(w)
  PROVE  Pipeline!RecordNext \/ UNCHANGED records
<1>1. PICK p \in Proposals : p = Of(w) /\ row[p] \in Row /\ IsStaged(row[p])
  BY RunsOfIsProposal DEF CreateProposal
<1>2. row' = [row EXCEPT ![p] = Created(p)]
  BY <1>1 DEF CreateProposal
<1>3. records' = [records EXCEPT ![p] = Rec(Created(p))]
  BY <1>2, RecordsChange
<1>4. CASE row[p].status # "none"
  BY <1>3, <1>4 DEF Created, records
<1>5. CASE row[p].status = "none"
  <2>1. records[p] = Pipeline!Blank
    BY <1>1, <1>5 DEF records, Rec, IsStaged, Pipeline!Blank
  <2>2. Rec(Created(p)) = [records[p] EXCEPT !.status = "detected"]
    BY <1>1, <1>5 DEF Created, Row, Rec, records
  <2>3. Pipeline!Detect(p)
    BY <1>3, <2>1, <2>2 DEF Pipeline!Detect, records, Rec
  <2> QED
    BY <2>3 DEF Pipeline!RecordNext
<1> QED
  BY <1>4, <1>5

LEMMA EvidenceMaps ==
  ASSUME IInv, NEW w \in Slots, RecordEvidence(w)
  PROVE  Pipeline!RecordNext \/ UNCHANGED records
<1>1. PICK p \in Proposals : p = Of(w) /\ row[p] \in Row /\ IsStaged(row[p])
  BY RunsOfIsProposal DEF RecordEvidence
<1>2. made[w].refs \in SUBSET Excerpts
  BY DEF IInv, FitsStage, RecordEvidence, Evidence
<1>3. CASE UNCHANGED row
  BY <1>3 DEF records
<1>4. CASE ~UNCHANGED row
  <2>1. PICK r : /\ r = [[row[p] EXCEPT !.status = "evidence_collected", !.refs = made[w].refs]
                           EXCEPT !.version = @ + 1]
                 /\ row' = [row EXCEPT ![p] = r]
    BY <1>1, <1>4 DEF RecordEvidence, Record
  <2>2. row[p].status = "detected"
    BY <1>1, <1>4 DEF RecordEvidence, Record
  <2>3. records' = [records EXCEPT ![p] = Rec(r)]
    BY <2>1, RecordsChange
  <2>4. /\ r.status = "evidence_collected" /\ r.refs = made[w].refs
        /\ r.diagnosis = row[p].diagnosis /\ r.patch = row[p].patch
        /\ r.result = row[p].result
    BY <1>1, <2>1 DEF Row
  <2>5. Rec(r) = [records[p] EXCEPT !.status = "evidence_collected", !.refs = made[w].refs]
    <3>1. PICK y : y = [records[p] EXCEPT !.status = "evidence_collected"]
      OBVIOUS
    <3>2. y = [status |-> "evidence_collected", refs |-> row[p].refs, diagnosis |-> row[p].diagnosis,
               patch |-> row[p].patch, result |-> row[p].result]
      BY <3>1 DEF records, Rec
    <3>3. Rec(r) = [y EXCEPT !.refs = made[w].refs]
      BY <2>4, <3>2 DEF Rec
    <3> QED
      BY <3>1, <3>3
  <2>6. records' = [records EXCEPT ![p].status = "evidence_collected",
                                   ![p].refs = made[w].refs]
    BY <2>3, <2>5
  <2>7. Pipeline!Collect(p)
    BY <1>2, <2>2, <2>6 DEF Pipeline!Collect, records, Rec
  <2> QED
    BY <2>7 DEF Pipeline!RecordNext
<1> QED
  BY <1>3, <1>4

LEMMA DiagnosisMaps ==
  ASSUME IInv, NEW w \in Slots, RecordDiagnosis(w)
  PROVE  Pipeline!RecordNext \/ UNCHANGED records
<1>1. PICK p \in Proposals : p = Of(w) /\ row[p] \in Row /\ IsStaged(row[p])
  BY RunsOfIsProposal DEF RecordDiagnosis
<1>2. made[w].diagnosis = row[p].refs
  BY <1>1 DEF IInv, FitsStage, RecordDiagnosis
<1>3. CASE UNCHANGED row
  BY <1>3 DEF records
<1>4. CASE ~UNCHANGED row
  <2>1. PICK r : /\ r = [[row[p] EXCEPT !.diagnosis = made[w].diagnosis]
                           EXCEPT !.version = @ + 1]
                 /\ row' = [row EXCEPT ![p] = r]
    BY <1>1, <1>4 DEF RecordDiagnosis, Record
  <2>2. row[p].status = "evidence_collected" /\ row[p].diagnosis = None
    BY <1>1, <1>4 DEF RecordDiagnosis, Record
  <2>3. records' = [records EXCEPT ![p] = Rec(r)]
    BY <2>1, RecordsChange
  <2>4. Rec(r) = [records[p] EXCEPT !.diagnosis = records[p].refs]
    BY <1>1, <1>2, <2>1 DEF Row, Rec, records
  <2>5. Pipeline!Diagnose(p)
    BY <2>2, <2>3, <2>4 DEF Pipeline!Diagnose, records, Rec
  <2> QED
    BY <2>5 DEF Pipeline!RecordNext
<1> QED
  BY <1>3, <1>4

LEMMA PatchMaps ==
  ASSUME IInv, NEW w \in Slots, RecordPatch(w)
  PROVE  Pipeline!RecordNext \/ UNCHANGED records
<1>1. PICK p \in Proposals : p = Of(w) /\ row[p] \in Row /\ IsStaged(row[p])
  BY RunsOfIsProposal DEF RecordPatch
<1>2. made[w] \in Patch
  BY DEF IInv, FitsStage, RecordPatch
<1>3. CASE UNCHANGED row
  BY <1>3 DEF records
<1>4. CASE ~UNCHANGED row
  <2>1. PICK r : /\ r = [[row[p] EXCEPT !.status = "proposed", !.patch = made[w]]
                           EXCEPT !.version = @ + 1]
                 /\ row' = [row EXCEPT ![p] = r]
    BY <1>1, <1>4 DEF RecordPatch, Record
  <2>2. /\ row[p].status = "evidence_collected"
        /\ made[w].diagnosis = row[p].diagnosis /\ made[w].refs = row[p].refs
    BY <1>1, <1>4 DEF RecordPatch, Record
  <2>3. records' = [records EXCEPT ![p] = Rec(r)]
    BY <2>1, RecordsChange
  <2>4. PICK x : x = [diagnosis |-> row[p].diagnosis, refs |-> row[p].refs] /\ made[w] = x
    BY <1>2, <2>2 DEF Patch
  <2>5. /\ r.status = "proposed" /\ r.patch = x
        /\ r.refs = row[p].refs /\ r.diagnosis = row[p].diagnosis
        /\ r.result = row[p].result
    BY <1>1, <2>1, <2>4 DEF Row
  <2>6. row[p].diagnosis # None
    BY <1>2, <2>2, NoneAssumption DEF Patch, Diagnosis, Evidence
  <2>7. Rec(r) = [records[p] EXCEPT !.status = "proposed", !.patch = x]
    <3>1. PICK y : y = [records[p] EXCEPT !.status = "proposed"]
      OBVIOUS
    <3>2. y = [status |-> "proposed", refs |-> row[p].refs, diagnosis |-> row[p].diagnosis,
               patch |-> row[p].patch, result |-> row[p].result]
      BY <3>1 DEF records, Rec
    <3>3. Rec(r) = [y EXCEPT !.patch = x]
      BY <2>5, <3>2 DEF Rec
    <3> QED
      BY <3>1, <3>3
  <2>8. records' = [records EXCEPT ![p].status = "proposed", ![p].patch = x]
    BY <2>3, <2>7
  <2>9. Pipeline!Propose(p)
    BY <2>2, <2>4, <2>6, <2>8 DEF Pipeline!Propose, records, Rec
  <2> QED
    BY <2>9 DEF Pipeline!RecordNext
<1> QED
  BY <1>3, <1>4

LEMMA ResultMaps ==
  ASSUME IInv, NEW w \in Slots, RecordResult(w)
  PROVE  Pipeline!RecordNext \/ UNCHANGED records
<1>1. PICK p \in Proposals : p = Of(w) /\ row[p] \in Row /\ IsStaged(row[p])
  BY RunsOfIsProposal DEF RecordResult
<1>2. made[w] \in Result
  BY DEF IInv, FitsStage, RecordResult
<1>3. CASE UNCHANGED row
  BY <1>3 DEF records
<1>4. CASE ~UNCHANGED row
  <2>1. PICK s : s = IF made[w].overall = "pass" THEN "verified" ELSE "failed"
    OBVIOUS
  <2>2. PICK r : /\ r = [[row[p] EXCEPT !.status = s, !.result = made[w]]
                           EXCEPT !.version = @ + 1]
                 /\ row' = [row EXCEPT ![p] = r]
    BY <1>1, <1>4, <2>1 DEF RecordResult, Record
  <2>3. row[p].status = "proposed" /\ made[w].patch = row[p].patch
    BY <1>1, <1>4 DEF RecordResult, Record
  <2>4. records' = [records EXCEPT ![p] = Rec(r)]
    BY <2>2, RecordsChange
  <2>5. PICK o \in Outcomes, x \in {made[w]} : x = [patch |-> row[p].patch, overall |-> o]
    BY <1>2, <2>3 DEF Result
  <2>6. /\ r.status = s /\ r.result = x
        /\ r.refs = row[p].refs /\ r.diagnosis = row[p].diagnosis
        /\ r.patch = row[p].patch
    BY <1>1, <2>2, <2>5 DEF Row
  <2>7. Rec(r) = [records[p] EXCEPT !.status = s, !.result = x]
    <3>1. PICK y : y = [records[p] EXCEPT !.status = s]
      OBVIOUS
    <3>2. y = [status |-> s, refs |-> row[p].refs, diagnosis |-> row[p].diagnosis,
               patch |-> row[p].patch, result |-> row[p].result]
      BY <3>1 DEF records, Rec
    <3>3. Rec(r) = [y EXCEPT !.result = x]
      BY <2>6, <3>2 DEF Rec
    <3> QED
      BY <3>1, <3>3
  <2>8. records' = [records EXCEPT ![p].status = s, ![p].result = x]
    BY <2>4, <2>7
  <2>9. s = IF o = "pass" THEN "verified" ELSE "failed"
    BY <2>1, <2>5
  <2>10. records[p].status = "proposed" /\ records[p].patch = row[p].patch
    BY <2>3 DEF records, Rec
  <2>11. records' = [records EXCEPT
           ![p].status = IF o = "pass" THEN "verified" ELSE "failed",
           ![p].result = [patch |-> records[p].patch, overall |-> o]]
    BY <2>5, <2>8, <2>9, <2>10
  <2>12. Pipeline!Conclude(p)
    BY <2>10, <2>11 DEF Pipeline!Conclude, Pipeline!Outcomes, Outcomes, records, Rec
  <2> QED
    BY <2>12 DEF Pipeline!RecordNext
<1> QED
  BY <1>3, <1>4

LEMMA NextMaps ==
  ASSUME IInv, [Next]_vars
  PROVE  Pipeline!RecordNext \/ UNCHANGED records
<1>1. ASSUME NEW w \in Slots, Run(w) PROVE Pipeline!RecordNext \/ UNCHANGED records
  <2>1. CASE \/ ReadEvidence(w) \/ ReadDiagnosis(w) \/ ReadPatch(w)
             \/ QueueDiagnosis(w) \/ QueuePatch(w) \/ QueueVerification(w)
    BY <2>1 DEF ReadEvidence, ReadDiagnosis, ReadPatch, QueueDiagnosis, QueuePatch,
                QueueVerification, records
  <2> QED
    BY <1>1, <2>1, CreateMaps, EvidenceMaps, DiagnosisMaps, PatchMaps, ResultMaps DEF Run
<1>2. CASE UNCHANGED row
  BY <1>2 DEF records
<1> QED
  BY <1>1, <1>2 DEF Next, Deliver, LoseLock, Take, Fail, SetPolicy, vars

LEMMA InitMaps == Init => Pipeline!RecordInit
BY DEF Init, Pipeline!RecordInit, Pipeline!Blank

\* Whatever attempts overlap, fail or lose their locks: each stage of a proposal is
\* recorded once, after the one before it, and made from what that one recorded.
THEOREM Implementation == Spec => ImplementsRepairRecord
<1>1. IInv /\ [Next]_vars => [Pipeline!RecordNext]_records
  BY NextMaps
<1>2. [Pipeline!RecordNext]_records =>
        [Pipeline!RecordNext]_([p \in Proposals |->
          [status |-> row[p].status, refs |-> row[p].refs, diagnosis |-> row[p].diagnosis,
           patch |-> row[p].patch, result |-> row[p].result]])
  BY DEF records, Rec
<1> QED
  BY InitMaps, Inductive, <1>1, <1>2, PTL DEF Spec, ImplementsRepairRecord, Pipeline!RecordSpec

-----------------------------------------------------------------------------
(* What the record promises of every row *)

Final == {"verified", "failed"}

\* r stands still or takes one of the five steps of a proposal, to s.
StepsTo(r, s) ==
  LET sameRefs == s.refs = r.refs
      sameDiagnosis == s.diagnosis = r.diagnosis
      samePatch == s.patch = r.patch
      sameResult == s.result = r.result IN
  \/ s.status = r.status /\ sameRefs /\ sameDiagnosis /\ samePatch /\ sameResult
  \/ /\ r.status = "none" /\ s.status = "detected"
     /\ sameRefs /\ sameDiagnosis /\ samePatch /\ sameResult
  \/ /\ r.status = "detected" /\ s.status = "evidence_collected"
     /\ sameDiagnosis /\ samePatch /\ sameResult
  \/ /\ r.status = "evidence_collected" /\ s.status = "evidence_collected"
     /\ r.diagnosis = None /\ s.diagnosis = r.refs
     /\ sameRefs /\ samePatch /\ sameResult
  \/ /\ r.status = "evidence_collected" /\ s.status = "proposed"
     /\ s.patch = [diagnosis |-> r.diagnosis, refs |-> r.refs]
     /\ sameRefs /\ sameDiagnosis /\ sameResult
  \/ /\ r.status = "proposed" /\ s.status \in Final
     /\ s.result \in Result /\ s.result.patch = r.patch
     /\ s.status = "verified" <=> s.result.overall = "pass"
     /\ sameRefs /\ sameDiagnosis /\ samePatch

LEMMA OneRowSteps ==
  ASSUME IInv, NEW q \in Proposals, NEW r, row' = [row EXCEPT ![q] = r], StepsTo(row[q], r)
  PROVE  \A p \in Proposals : StepsTo(row[p], row'[p])
<1>1. \A p \in Proposals : row'[p] = IF p = q THEN r ELSE row[p]
  BY DEF IInv, TypeOK
<1>2. \A p \in Proposals : StepsTo(row[p], row[p])
  BY DEF StepsTo
<1> QED
  BY <1>1, <1>2

LEMMA RunSteps ==
  ASSUME IInv, NEW w \in Slots,
         \/ CreateProposal(w) \/ RecordEvidence(w) \/ RecordDiagnosis(w)
         \/ RecordPatch(w) \/ RecordResult(w),
         row' # row
  PROVE  \A p \in Proposals : StepsTo(row[p], row'[p])
<1>1. PICK q \in Proposals : q = Of(w) /\ row[q] \in Row /\ IsStaged(row[q])
  BY RunsOfIsProposal
     DEF CreateProposal, RecordEvidence, RecordDiagnosis, RecordPatch, RecordResult
<1>2. CASE CreateProposal(w)
  <2>1. row' = [row EXCEPT ![q] = Created(q)]
    BY <1>1, <1>2 DEF CreateProposal
  <2>2. StepsTo(row[q], Created(q))
    BY <1>1 DEF Created, Row, StepsTo
  <2> QED
    BY <2>1, <2>2, OneRowSteps
<1>3. CASE RecordEvidence(w)
  <2>1. /\ row[q].status = "detected"
        /\ row' = [row EXCEPT ![q] =
             [[row[q] EXCEPT !.status = "evidence_collected", !.refs = made[w].refs]
               EXCEPT !.version = @ + 1]]
    BY <1>1, <1>3 DEF RecordEvidence, Record
  <2>2. PICK r : /\ row' = [row EXCEPT ![q] = r]
                 /\ r = [[row[q] EXCEPT !.status = "evidence_collected", !.refs = made[w].refs]
                           EXCEPT !.version = @ + 1]
    BY <2>1
  <2>3. StepsTo(row[q], r)
    BY <1>1, <2>1, <2>2 DEF Row, StepsTo
  <2> QED
    BY <2>2, <2>3, OneRowSteps
<1>4. CASE RecordDiagnosis(w)
  <2>1. /\ row[q].status = "evidence_collected" /\ row[q].diagnosis = None
        /\ made[w].diagnosis = row[q].refs
        /\ row' = [row EXCEPT ![q] =
             [[row[q] EXCEPT !.diagnosis = made[w].diagnosis] EXCEPT !.version = @ + 1]]
    BY <1>1, <1>4 DEF RecordDiagnosis, Record, IInv, FitsStage
  <2>2. PICK r : /\ row' = [row EXCEPT ![q] = r]
                 /\ r = [[row[q] EXCEPT !.diagnosis = made[w].diagnosis] EXCEPT !.version = @ + 1]
    BY <2>1
  <2>3. StepsTo(row[q], r)
    BY <1>1, <2>1, <2>2 DEF Row, StepsTo
  <2> QED
    BY <2>2, <2>3, OneRowSteps
<1>5. CASE RecordPatch(w)
  <2>1. /\ row[q].status = "evidence_collected" /\ made[w] \in Patch
        /\ made[w].diagnosis = row[q].diagnosis /\ made[w].refs = row[q].refs
        /\ row' = [row EXCEPT ![q] =
             [[row[q] EXCEPT !.status = "proposed", !.patch = made[w]] EXCEPT !.version = @ + 1]]
    BY <1>1, <1>5 DEF RecordPatch, Record, IInv, FitsStage
  <2>2. PICK r : /\ row' = [row EXCEPT ![q] = r]
                 /\ r = [[row[q] EXCEPT !.status = "proposed", !.patch = made[w]]
                           EXCEPT !.version = @ + 1]
    BY <2>1
  <2>3. made[w] = [diagnosis |-> row[q].diagnosis, refs |-> row[q].refs]
    BY <2>1 DEF Patch
  <2>4. /\ r.status = "proposed" /\ r.patch = made[w] /\ r.refs = row[q].refs
        /\ r.diagnosis = row[q].diagnosis /\ r.result = row[q].result
    BY <1>1, <2>2 DEF Row
  <2>5. StepsTo(row[q], r)
    BY <2>1, <2>3, <2>4 DEF StepsTo
  <2> QED
    BY <2>2, <2>5, OneRowSteps
<1>6. CASE RecordResult(w)
  <2>1. PICK s \in Final : s = IF made[w].overall = "pass" THEN "verified" ELSE "failed"
    BY DEF Final
  <2>2. /\ row[q].status = "proposed" /\ made[w] \in Result /\ made[w].patch = row[q].patch
        /\ row' = [row EXCEPT ![q] =
             [[row[q] EXCEPT !.status = s, !.result = made[w]] EXCEPT !.version = @ + 1]]
    BY <1>1, <1>6, <2>1 DEF RecordResult, Record, IInv, FitsStage
  <2>3. PICK r : /\ row' = [row EXCEPT ![q] = r]
                 /\ r = [[row[q] EXCEPT !.status = s, !.result = made[w]] EXCEPT !.version = @ + 1]
    BY <2>2
  <2>4. /\ r.status = s /\ r.result = made[w] /\ r.patch = row[q].patch /\ r.refs = row[q].refs
        /\ r.diagnosis = row[q].diagnosis
    BY <1>1, <2>3 DEF Row
  <2>5. r.status = "verified" <=> r.result.overall = "pass"
    BY <2>1, <2>4
  <2>6. StepsTo(row[q], r)
    BY <2>1, <2>2, <2>4, <2>5 DEF StepsTo
  <2> QED
    BY <2>3, <2>6, OneRowSteps
<1> QED
  BY <1>2, <1>3, <1>4, <1>5, <1>6

LEMMA RowsStep ==
  ASSUME IInv, [Next]_vars, NEW p \in Proposals
  PROVE  StepsTo(row[p], row'[p])
<1>1. CASE row' = row
  BY <1>1 DEF StepsTo
<1>2. CASE row' # row
  <2>1. PICK w \in Slots : Run(w)
    BY <1>2 DEF Next, Deliver, LoseLock, Take, Fail, SetPolicy, vars
  <2> QED
    BY <1>2, <2>1, RunSteps
       DEF Run, ReadEvidence, ReadDiagnosis, ReadPatch, QueueDiagnosis, QueuePatch, QueueVerification
<1> QED
  BY <1>1, <1>2

\* The diagnosis rests on the evidence there is, the patch on that diagnosis, and
\* the result is of that patch.
IsBound(r) ==
  /\ r.diagnosis # None => r.diagnosis = r.refs
  /\ r.patch # None => r.patch = [diagnosis |-> r.diagnosis, refs |-> r.refs]
  /\ r.result # None => r.result.patch = r.patch
  /\ r.status = "verified" => r.result # None /\ r.result.overall = "pass"

BoundToEvidence == \A p \in Proposals : IsBound(row[p])

LEMMA BindingStays ==
  ASSUME IInv, BoundToEvidence, [Next]_vars
  PROVE  BoundToEvidence'
<1> SUFFICES ASSUME NEW p \in Proposals PROVE IsBound(row'[p])
  BY DEF BoundToEvidence
<1>1. /\ StepsTo(row[p], row'[p]) /\ IsBound(row[p]) /\ IsStaged(row[p]) /\ row[p] \in Row
  BY RowsStep DEF BoundToEvidence, IInv, TypeOK
<1>2. None \notin Result
  BY NoneAssumption
<1>3. PICK r, s : r = row[p] /\ s = row'[p]
  OBVIOUS
<1>4. StepsTo(r, s) /\ IsBound(r) /\ IsStaged(r)
  BY <1>1, <1>3
<1>5. IsBound(s)
  BY <1>2, <1>4 DEF StepsTo, IsBound, IsStaged, Final
<1> QED
  BY <1>3, <1>5

\* Whatever attempts were repeated or overlapped, the result of a proposal is of its
\* patch, the patch of its diagnosis, and the diagnosis of its evidence
\* (recordCiEvidenceCollection to recordVerificationResult).
THEOREM ProposalsAreBound == Spec => []BoundToEvidence
<1>1. Init => BoundToEvidence
  BY DEF Init, BoundToEvidence, IsBound
<1> QED
  BY <1>1, BindingStays, Inductive, PTL DEF Spec

\* What was recorded in r is in s, and the status has not gone back.
Stays(r, s) ==
  /\ r.refs # None => s.refs = r.refs
  /\ r.diagnosis # None => s.diagnosis = r.diagnosis
  /\ r.patch # None => s.patch = r.patch
  /\ r.result # None => s.result = r.result
  /\ r.status \in Final => s.status = r.status
  /\ r.status # "none" => s.status # "none"

\* Evidence, diagnosis, patch and result of a proposal are written once; a late or
\* repeated attempt leaves them as they are (the version and status checks of
\* repairProposalService.js).
THEOREM RecordsStay == Spec => [][\A p \in Proposals : Stays(row[p], row'[p])]_vars
<1>1. ASSUME IInv, [Next]_vars, NEW p \in Proposals PROVE Stays(row[p], row'[p])
  <2>1. StepsTo(row[p], row'[p]) /\ IsStaged(row[p])
    BY <1>1, RowsStep DEF IInv
  <2>2. PICK r, s : r = row[p] /\ s = row'[p]
    OBVIOUS
  <2>3. Stays(r, s)
    BY <2>1, <2>2 DEF StepsTo, Stays, IsStaged, Final
  <2> QED
    BY <2>2, <2>3
<1>2. IInv /\ [Next]_vars => [\A p \in Proposals : Stays(row[p], row'[p])]_vars
  BY <1>1
<1> QED
  BY <1>2, Inductive, PTL DEF Spec

\* The other side of the finding: no proposal ever becomes "verified", however its
\* sandbox ran, since the row recordVerificationResult locks has no repository name
\* for its receipt check to compare (verifyExecutionReceiptAgainstLockedProposal).
THEOREM NothingIsVerified == Spec => [](\A p \in Proposals : row[p].status # "verified")
<1> DEFINE Unverified == \A p \in Proposals : row[p].status # "verified"
<1>1. Init => Unverified
  BY DEF Init
<1>2. IInv /\ Unverified /\ [Next]_vars => Unverified'
  <2> SUFFICES ASSUME IInv, Unverified, [Next]_vars, NEW p \in Proposals,
                      row'[p].status = "verified"
               PROVE  FALSE
    OBVIOUS
  <2>1. row[p].status = "proposed" /\ row' # row
    BY RowsStep DEF StepsTo, Final
  <2>2. PICK w \in Slots : Run(w)
    BY <2>1 DEF Next, Deliver, LoseLock, Take, Fail, SetPolicy, vars
  <2>3. /\ Of(w) \in Proposals /\ row[Of(w)] \in Row /\ IsStaged(row[Of(w)])
        /\ RecordResult(w) => made[w] \in Result
    <3>1. RecordResult(w) => Runs(w, "verify", "record")
      BY DEF RecordResult
    <3>2. RecordResult(w) => made[w] \in Result
      BY <3>1 DEF IInv, FitsStage
    <3> QED
      BY <2>1, <2>2, <3>2, RunsOfIsProposal
         DEF Run, CreateProposal, RecordEvidence, RecordDiagnosis, RecordPatch, RecordResult,
             ReadEvidence, ReadDiagnosis, ReadPatch, QueueDiagnosis, QueuePatch, QueueVerification
  <2>4. ~RecordResult(w)
    <3> SUFFICES ASSUME RecordResult(w) PROVE FALSE
      OBVIOUS
    <3>1. made[w].overall # "pass"
      BY <2>1 DEF RecordResult, Record, ReceiptHolds, LockedRepository
    <3>2. row' = [row EXCEPT ![Of(w)] =
            [[row[Of(w)] EXCEPT !.status = "failed", !.result = made[w]] EXCEPT !.version = @ + 1]]
      BY <2>1, <3>1 DEF RecordResult, Record
    <3> QED
      BY <2>1, <2>3, <3>2 DEF IInv, TypeOK, Row
  <2>5. CASE CreateProposal(w)
    <3>1. row'[Of(w)].status # "verified"
      BY <2>1, <2>3, <2>5 DEF CreateProposal, Created, Row, IInv, TypeOK
    <3> QED
      BY <2>1, <2>3, <2>5, <3>1 DEF CreateProposal, IInv, TypeOK
  <2>6. CASE RecordEvidence(w) \/ RecordDiagnosis(w) \/ RecordPatch(w)
    <3>1. Of(w) # p
      BY <2>1, <2>6 DEF RecordEvidence, RecordDiagnosis, RecordPatch, Record
    <3> QED
      BY <2>1, <2>3, <2>6, <3>1 DEF RecordEvidence, RecordDiagnosis, RecordPatch, Record, IInv, TypeOK
  <2> QED
    BY <2>1, <2>2, <2>4, <2>5, <2>6
       DEF Run, ReadEvidence, ReadDiagnosis, ReadPatch, QueueDiagnosis, QueuePatch, QueueVerification
<1> QED
  BY <1>1, <1>2, Inductive, PTL DEF Spec

-----------------------------------------------------------------------------
(* Every proposal is in somebody's hands *)

\* A job that is over has handed its proposal on.
HandedOn(j) ==
  /\ j.stage = "collect" => job[Job("diagnose", j.of)] # "absent"
  /\ j.stage = "diagnose" => job[Job("patch", j.of)] # "absent" \/ j.of \in skipped
  /\ j.stage = "patch" => job[Job("verify", j.of)] # "absent"
  /\ j.stage = "verify" => row[j.of].status \in Final

\* A row has come as far as it has by a job.
CameBy(p) ==
  /\ row[p].status # "none" =>
       \E j \in Jobs : j.stage = "collect" /\ j.of = p /\ job[j] # "absent"
  /\ row[p].status \in {"proposed"} \cup Final => job[Job("patch", p)] # "absent"

\* So has an attempt; and who is about to queue the patch has seen evidence.
WorksOn(w) ==
  /\ pc[w] # "idle" => job[task[w]] # "absent"
  /\ Runs(w, "diagnose", "next") => row[Of(w)].status \notin {"none", "detected"}

HandInv ==
  /\ \A j \in Jobs : job[j] = "completed" => HandedOn(j)
  /\ \A p \in Proposals : CameBy(p)
  /\ \A w \in Slots : WorksOn(w)

\* A proposal without its result has a job that will run, runs or is listed as
\* failed, or no patch was wanted or could be queued for it.
NothingIsDropped ==
  \A p \in Proposals : row[p].status # "none" =>
    \/ row[p].status \in Final \/ p \in skipped
    \/ \E j \in Jobs : j.of = p /\ job[j] \in {"waiting", "active", "failed"}

LEMMA JobsOf ==
  ASSUME NEW p \in Proposals, NEW stage \in {"diagnose", "patch", "verify"}
  PROVE  /\ Job(stage, p) \in Jobs /\ Job(stage, p).of = p /\ Job(stage, p).stage = stage
         /\ \A j \in Jobs : j.of = p /\ j.stage = stage => j = Job(stage, p)
BY DEF Job, Jobs

LEMMA JobFields ==
  ASSUME NEW j \in Jobs
  PROVE  j.of \in Proposals /\ j.stage \in {"collect", "diagnose", "patch", "verify"}
BY DEF Jobs

LEMMA HandsSuffice ==
  ASSUME IInv, HandInv
  PROVE  NothingIsDropped
<1> SUFFICES ASSUME NEW p \in Proposals, row[p].status # "none", p \notin skipped,
                    \A j \in Jobs : j.of = p => job[j] \in {"absent", "completed"}
             PROVE  row[p].status \in Final
  BY DEF NothingIsDropped, IInv, TypeOK
<1>1. PICK j \in Jobs : j.stage = "collect" /\ j.of = p /\ job[j] = "completed"
  BY DEF HandInv, CameBy
<1>2. job[Job("diagnose", p)] = "completed"
  BY <1>1, JobsOf DEF HandInv, HandedOn
<1>3. job[Job("patch", p)] = "completed"
  BY <1>2, JobsOf DEF HandInv, HandedOn
<1>4. job[Job("verify", p)] = "completed"
  BY <1>3, JobsOf DEF HandInv, HandedOn
<1> QED
  BY <1>4, JobsOf DEF HandInv, HandedOn

\* Jobs are never forgotten, nor what was skipped.
Remembers ==
  /\ \A j \in Jobs : job[j] # "absent" => job'[j] # "absent"
  /\ skipped \subseteq skipped'

LEMMA HandedStays ==
  ASSUME IInv, [Next]_vars, Remembers, NEW j \in Jobs, HandedOn(j)
  PROVE  HandedOn(j)'
<1>1. StepsTo(row[j.of], row'[j.of])
  BY RowsStep, JobFields
<1>2. row[j.of].status \in Final => row'[j.of].status \in Final
  BY <1>1 DEF StepsTo, Final
<1> QED
  BY <1>2, JobsOf, JobFields DEF HandedOn, Remembers

\* Enough for a step: what it completes is handed on, what it records came by a job
\* that is there, and its own slot works on one.
LEMMA HandsKeep ==
  ASSUME IInv, HandInv, [Next]_vars, Remembers,
         \A j \in Jobs : job'[j] = "completed" => job[j] = "completed" \/ HandedOn(j)',
         \A p \in Proposals : row'[p].status = row[p].status \/ CameBy(p)',
         \A w \in Slots : (pc'[w] = pc[w] /\ task'[w] = task[w]) \/ WorksOn(w)'
  PROVE  HandInv'
<1>1. \A j \in Jobs : job'[j] = "completed" => HandedOn(j)'
  BY HandedStays DEF HandInv
<1>2. ASSUME NEW p \in Proposals PROVE CameBy(p)'
  BY <1>2, JobsOf DEF HandInv, CameBy, Remembers
<1>3. ASSUME NEW w \in Slots, pc'[w] = pc[w], task'[w] = task[w] PROVE WorksOn(w)'
  <2>1. pc[w] # "idle" => task[w] \in Jobs
    BY DEF IInv, FitsStage
  <2>2. Runs(w, "diagnose", "next") => StepsTo(row[Of(w)], row'[Of(w)])
    BY <2>1, RowsStep, JobFields DEF Runs, Of
  <2> QED
    BY <1>3, <2>1, <2>2 DEF HandInv, WorksOn, Remembers, Runs, Of, StepsTo, Final
<1> QED
  BY <1>1, <1>2, <1>3 DEF HandInv

LEMMA DeliverHands ==
  ASSUME IInv, HandInv, [Next]_vars, NEW j \in Jobs, Deliver(j)
  PROVE  HandInv'
BY HandsKeep DEF IInv, TypeOK, Deliver, slots, Remembers

LEMMA TakeHands ==
  ASSUME IInv, HandInv, [Next]_vars, NEW j \in Jobs, NEW w \in Slots, Take(w, j)
  PROVE  HandInv'
<1>1. WorksOn(w)'
  BY DEF IInv, TypeOK, Take, WorksOn, Runs
<1>2. \A v \in Slots \ {w} : pc'[v] = pc[v] /\ task'[v] = task[v]
  BY DEF IInv, TypeOK, Take
<1>3. Remembers /\ \A i \in Jobs : job'[i] = "completed" => job[i] = "completed"
  BY DEF IInv, TypeOK, Take, Remembers
<1> QED
  BY <1>1, <1>2, <1>3, HandsKeep DEF Take

LEMMA LoseLockHands ==
  ASSUME IInv, HandInv, [Next]_vars, NEW j \in Jobs, LoseLock(j)
  PROVE  HandInv'
<1>1. Remembers /\ \A i \in Jobs : job'[i] = "completed" => job[i] = "completed"
  BY DEF IInv, TypeOK, LoseLock, Remembers
<1>2. ASSUME NEW v \in Slots PROVE (pc'[v] = pc[v] /\ task'[v] = task[v]) \/ WorksOn(v)'
  BY <1>2 DEF IInv, TypeOK, LoseLock, Free, slots, WorksOn, Runs
<1> QED
  BY <1>1, <1>2, HandsKeep DEF LoseLock

\* w's attempt is over.
LEMMA LeaveRemembers ==
  ASSUME IInv, NEW w \in Slots, pc[w] # "idle", NEW s \in {"waiting", "completed", "failed"},
         NEW added \in SUBSET Jobs, Leave(w, s, added)
  PROVE  /\ \A j \in Jobs : job[j] # "absent" => job'[j] # "absent"
         /\ \A j \in added : job'[j] # "absent"
         /\ \A j \in Jobs : job'[j] = "completed" =>
              job[j] = "completed" \/ (j = task[w] /\ s = "completed")
         /\ \A v \in Slots \ {w} : pc'[v] = pc[v] /\ task'[v] = task[v]
         /\ WorksOn(w)'
<1>1. \A j \in Jobs : owner[j] = w => j = task[w]
  BY NoneAssumption DEF IInv, HoldsJob
<1> QED
  BY <1>1 DEF IInv, TypeOK, Leave, Free, WorksOn, Runs

LEMMA ThrowHands ==
  ASSUME IInv, HandInv, [Next]_vars, NEW w \in Slots, pc[w] # "idle", Throw(w),
         UNCHANGED <<row, skipped>>
  PROVE  HandInv'
<1>1. PICK s \in {"waiting", "failed"} : Leave(w, s, {})
  BY DEF Throw
<1>2. /\ Remembers /\ WorksOn(w)'
      /\ \A j \in Jobs : job'[j] = "completed" => job[j] = "completed"
      /\ \A v \in Slots \ {w} : pc'[v] = pc[v] /\ task'[v] = task[v]
  BY <1>1, LeaveRemembers DEF Remembers
<1> QED
  BY <1>2, HandsKeep

LEMMA ReturnHands ==
  ASSUME IInv, HandInv, [Next]_vars, NEW w \in Slots, pc[w] # "idle", NEW added \in SUBSET Jobs,
         Return(w, added), skipped \subseteq skipped',
         \A p \in Proposals : row'[p].status = row[p].status \/ CameBy(p)',
         NEW i \in Jobs, i = task[w], (\A j \in added : job'[j] # "absent") => HandedOn(i)'
  PROVE  HandInv'
<1>1. /\ Remembers /\ WorksOn(w)' /\ \A j \in added : job'[j] # "absent"
      /\ \A j \in Jobs : job'[j] = "completed" => job[j] = "completed" \/ j = i
      /\ \A v \in Slots \ {w} : pc'[v] = pc[v] /\ task'[v] = task[v]
  BY LeaveRemembers DEF Return, Remembers
<1> QED
  BY <1>1, HandsKeep

\* w's attempt goes on.
LEMMA GoToHands ==
  ASSUME IInv, HandInv, [Next]_vars, NEW w \in Slots, pc[w] # "idle", NEW l, GoTo(w, l),
         UNCHANGED <<job, skipped>>,
         \A p \in Proposals : row'[p].status = row[p].status \/ CameBy(p)',
         l = "next" /\ task[w].stage = "diagnose" =>
           row'[Of(w)].status \notin {"none", "detected"}
  PROVE  HandInv'
<1>1. Remembers
  BY DEF Remembers
<1>2. \A v \in Slots \ {w} : pc'[v] = pc[v] /\ task'[v] = task[v]
  BY DEF IInv, TypeOK, GoTo
<1>3. pc'[w] = l /\ task' = task
  BY DEF IInv, TypeOK, GoTo
<1>4. WorksOn(w)'
  BY <1>3 DEF HandInv, WorksOn, Runs, Of
<1> QED
  BY <1>1, <1>2, <1>4, HandsKeep

LEMMA WhoRuns ==
  ASSUME IInv, HandInv, NEW w \in Slots, pc[w] # "idle"
  PROVE  /\ task[w] \in Jobs /\ Of(w) \in Proposals /\ job[task[w]] # "absent"
         /\ row[Of(w)] \in Row
BY JobFields DEF IInv, TypeOK, FitsStage, HandInv, WorksOn, Of

\* The row of w's proposal alone has changed.
LEMMA OtherRowsStay ==
  ASSUME IInv, NEW q \in Proposals, NEW r, row' = [row EXCEPT ![q] = r]
  PROVE  row'[q] = r /\ \A p \in Proposals \ {q} : row'[p] = row[p]
BY DEF IInv, TypeOK

LEMMA ReadHands ==
  ASSUME IInv, HandInv, [Next]_vars, NEW w \in Slots,
         ReadEvidence(w) \/ ReadDiagnosis(w) \/ ReadPatch(w)
  PROVE  HandInv'
<1>1. pc[w] # "idle" /\ UNCHANGED <<row, skipped>>
  BY DEF ReadEvidence, ReadDiagnosis, ReadPatch, Runs
<1>2. CASE Throw(w)
  BY <1>1, <1>2, ThrowHands
<1>3. CASE GoTo(w, "record") /\ UNCHANGED queues
  BY <1>1, <1>3, GoToHands DEF queues
<1>4. CASE GoTo(w, "next") /\ UNCHANGED queues /\ row[Of(w)].status = "evidence_collected"
  BY <1>1, <1>4, GoToHands DEF queues
<1> QED
  BY <1>2, <1>3, <1>4 DEF ReadEvidence, ReadDiagnosis, ReadPatch

LEMMA CreateHands ==
  ASSUME IInv, HandInv, [Next]_vars, NEW w \in Slots, CreateProposal(w)
  PROVE  HandInv'
<1>1. /\ pc[w] # "idle" /\ task[w].stage = "collect" /\ GoTo(w, "record")
      /\ UNCHANGED <<job, skipped>>
  BY DEF CreateProposal, Runs, queues
<1>2. PICK q \in Proposals : q = Of(w)
  BY <1>1, WhoRuns
<1>3. \A p \in Proposals \ {q} : row'[p] = row[p]
  BY <1>2, OtherRowsStay DEF CreateProposal
<1>4. row'[q].status \in {row[q].status, "detected"}
  <2>1. row'[q] = Created(q)
    BY <1>2, OtherRowsStay DEF CreateProposal
  <2> QED
    BY <1>1, <1>2, <2>1, WhoRuns DEF Created, Row
<1>5. \E j \in Jobs : j.stage = "collect" /\ j.of = q /\ job'[j] # "absent"
  BY <1>1, <1>2, WhoRuns DEF Of
<1>6. row'[q].status = row[q].status \/ CameBy(q)'
  BY <1>4, <1>5 DEF CameBy, Final
<1> QED
  BY <1>1, <1>3, <1>6, GoToHands

LEMMA RecordHands ==
  ASSUME IInv, HandInv, [Next]_vars, NEW w \in Slots,
         RecordEvidence(w) \/ RecordDiagnosis(w) \/ RecordPatch(w)
  PROVE  HandInv'
<1>1. /\ pc[w] # "idle" /\ UNCHANGED skipped
      /\ task[w].stage \in {"collect", "diagnose", "patch"}
  BY DEF RecordEvidence, RecordDiagnosis, RecordPatch, Record, Runs
<1>2. PICK q \in Proposals : q = Of(w) /\ row[q] \in Row
  BY <1>1, WhoRuns
<1>3. CASE Throw(w)
  <2>1. UNCHANGED row
    <3>1. ~GoTo(w, "next")
      BY <1>1, <1>3 DEF Throw, Leave, Free, GoTo, IInv, TypeOK
    <3> QED
      BY <1>1, <3>1 DEF RecordEvidence, RecordDiagnosis, RecordPatch, Record, Runs
  <2> QED
    BY <1>1, <1>3, <2>1, ThrowHands
<1>4. CASE ~Throw(w)
  <2>1. GoTo(w, "next") /\ UNCHANGED job
    BY <1>4 DEF RecordEvidence, RecordDiagnosis, RecordPatch, Record, Runs, queues
  <2>2. \A p \in Proposals \ {q} : row'[p].status = row[p].status
    BY <1>2, OtherRowsStay DEF RecordEvidence, RecordDiagnosis, RecordPatch, Record
  <2>3. CASE RecordEvidence(w)
    <3>1. /\ task[w].stage = "collect"
          /\ row' = row \/ row'[q].status = "evidence_collected"
      <4>1. task[w].stage = "collect"
        BY <2>3 DEF RecordEvidence, Runs
      <4>2. CASE row' = row
        BY <4>1, <4>2
      <4>3. CASE row' # row
        <5>1. PICK r : /\ row' = [row EXCEPT ![q] = r]
                       /\ r = [[row[q] EXCEPT !.status = "evidence_collected",
                                              !.refs = made[w].refs]
                                 EXCEPT !.version = @ + 1]
          BY <1>2, <2>3, <4>3 DEF RecordEvidence, Record
        <5>2. r.status = "evidence_collected"
          BY <1>2, <5>1 DEF Row
        <5>3. row'[q] = r
          BY <1>2, <5>1, OtherRowsStay
        <5> QED
          BY <4>1, <5>2, <5>3
      <4> QED
        BY <4>2, <4>3
    <3>2. \E j \in Jobs : j.stage = "collect" /\ j.of = q /\ job'[j] # "absent"
      BY <1>1, <1>2, <2>1, <3>1, WhoRuns DEF Of
    <3>3. row'[q].status = row[q].status \/ CameBy(q)'
      BY <3>1, <3>2 DEF CameBy, Final
    <3> QED
      BY <1>1, <2>1, <2>2, <3>1, <3>3, GoToHands
  <2>4. CASE RecordDiagnosis(w)
    <3>1. row[q].status = "evidence_collected"
      BY <1>2, <1>4, <2>4 DEF RecordDiagnosis, Record
    <3>2. ASSUME row' # row PROVE row'[q].status = "evidence_collected"
      <4>1. PICK r : /\ row' = [row EXCEPT ![q] = r]
                     /\ r = [[row[q] EXCEPT !.diagnosis = made[w].diagnosis]
                               EXCEPT !.version = @ + 1]
        BY <1>2, <2>4, <3>2 DEF RecordDiagnosis, Record
      <4>2. r.status = "evidence_collected"
        BY <1>2, <3>1, <4>1 DEF Row
      <4> QED
        BY <1>2, <4>1, <4>2, OtherRowsStay
    <3>3. row'[q].status = "evidence_collected"
      BY <3>1, <3>2
    <3> QED
      BY <1>1, <1>2, <2>1, <2>2, <3>1, <3>3, GoToHands
  <2>5. CASE RecordPatch(w)
    <3>1. task[w].stage = "patch"
      BY <2>5 DEF RecordPatch, Runs
    <3>2. job'[Job("patch", q)] # "absent"
      BY <1>1, <1>2, <2>1, <3>1, WhoRuns, JobsOf DEF Of
    <3>3. (row[q].status # "none" => CameBy(q))
      BY DEF HandInv
    <3>4. row' = row \/ row[q].status = "evidence_collected"
      BY <1>2, <1>4, <2>5 DEF RecordPatch, Record
    <3>5. row'[q].status = row[q].status \/ CameBy(q)'
      BY <2>1, <3>2, <3>3, <3>4 DEF CameBy
    <3> QED
      BY <1>1, <2>1, <2>2, <3>1, <3>5, GoToHands
  <2> QED
    BY <2>3, <2>4, <2>5
<1> QED
  BY <1>3, <1>4

LEMMA RecordResultHands ==
  ASSUME IInv, HandInv, [Next]_vars, NEW w \in Slots, RecordResult(w)
  PROVE  HandInv'
<1>1. pc[w] # "idle" /\ UNCHANGED skipped /\ task[w].stage = "verify"
  BY DEF RecordResult, Record, Runs
<1>2. PICK q \in Proposals, j \in Jobs : q = Of(w) /\ j = task[w] /\ row[q] \in Row
  BY <1>1, WhoRuns
<1>3. CASE Throw(w) /\ UNCHANGED row
  BY <1>1, <1>3, ThrowHands
<1>4. CASE /\ Return(w, {})
           /\ row' = row /\ row[q].status \in Final
  <2>1. HandedOn(j)'
    BY <1>1, <1>2, <1>4 DEF HandedOn, Of
  <2> QED
    BY <1>1, <1>2, <1>4, <2>1, ReturnHands
<1>5. CASE /\ Return(w, {}) /\ row[q].status = "proposed"
           /\ \E s \in Final : row' = [row EXCEPT ![q] =
                [[row[q] EXCEPT !.status = s, !.result = made[w]] EXCEPT !.version = @ + 1]]
  <2>1. row'[q].status \in Final /\ \A p \in Proposals \ {q} : row'[p] = row[p]
    <3>1. PICK s \in Final :
            row' = [row EXCEPT ![q] =
              [[row[q] EXCEPT !.status = s, !.result = made[w]] EXCEPT !.version = @ + 1]]
      BY <1>5
    <3>2. PICK r : /\ row' = [row EXCEPT ![q] = r]
                   /\ r = [[row[q] EXCEPT !.status = s, !.result = made[w]]
                             EXCEPT !.version = @ + 1]
      BY <3>1
    <3>3. r.status = s
      BY <1>2, <3>2 DEF Row
    <3> QED
      BY <1>2, <3>1, <3>2, <3>3, OtherRowsStay
  <2>2. HandedOn(j)'
    BY <1>1, <1>2, <2>1 DEF HandedOn, Of
  <2>3. \A i \in Jobs : job[i] # "absent" => job'[i] # "absent"
    BY <1>1, <1>5, LeaveRemembers DEF Return
  <2>4. CameBy(q)'
    BY <1>5, <2>3, JobsOf DEF HandInv, CameBy
  <2> QED
    BY <1>1, <1>2, <1>5, <2>1, <2>2, <2>4, ReturnHands
<1> QED
  BY <1>1, <1>2, <1>3, <1>4, <1>5 DEF RecordResult, Record, Final

LEMMA QueueHands ==
  ASSUME IInv, HandInv, [Next]_vars, NEW w \in Slots,
         QueueDiagnosis(w) \/ QueuePatch(w) \/ QueueVerification(w)
  PROVE  HandInv'
<1>1. pc[w] # "idle" /\ UNCHANGED row
  BY DEF QueueDiagnosis, QueuePatch, QueueVerification, Runs
<1>2. PICK q \in Proposals, j \in Jobs : q = Of(w) /\ j = task[w] /\ j.of = q
  BY <1>1, WhoRuns DEF Of
<1>3. CASE QueueDiagnosis(w)
  BY <1>1, <1>2, <1>3, ReturnHands, JobsOf DEF QueueDiagnosis, Runs, HandedOn
<1>4. CASE QueueVerification(w)
  BY <1>1, <1>2, <1>4, ReturnHands, JobsOf DEF QueueVerification, Runs, HandedOn
<1>5. CASE QueuePatch(w)
  <2>1. j.stage = "diagnose"
    BY <1>2, <1>5 DEF QueuePatch, Runs
  <2>2. CASE Return(w, {Job("patch", q)}) /\ UNCHANGED skipped
    BY <1>1, <1>2, <2>1, <2>2, ReturnHands, JobsOf DEF HandedOn
  <2>3. CASE Return(w, {}) /\ skipped' = skipped \cup {q}
    BY <1>1, <1>2, <2>1, <2>3, ReturnHands DEF HandedOn
  <2>4. CASE Return(w, {}) /\ UNCHANGED skipped /\ row[q].status # "evidence_collected"
    <3>1. row[q].status \in {"proposed"} \cup Final
      BY <1>2, <1>5, <2>4, WhoRuns, <1>1
         DEF QueuePatch, HandInv, WorksOn, Row, Statuses, Final
    <3>2. job[Job("patch", q)] # "absent"
      BY <3>1 DEF HandInv, CameBy
    <3>3. job'[Job("patch", q)] # "absent"
      BY <1>1, <2>4, <3>2, LeaveRemembers, JobsOf DEF Return
    <3>4. HandedOn(j)'
      BY <1>2, <2>1, <3>3 DEF HandedOn
    <3> QED
      BY <1>1, <1>2, <2>4, <3>4, ReturnHands
  <2> QED
    BY <1>2, <1>5, <2>2, <2>3, <2>4 DEF QueuePatch
<1> QED
  BY <1>3, <1>4, <1>5

LEMMA StepHands == IInv /\ HandInv /\ [Next]_vars => HandInv'
<1> SUFFICES ASSUME IInv, HandInv, [Next]_vars PROVE HandInv'
  OBVIOUS
<1>1. ASSUME NEW w \in Slots, Run(w) PROVE HandInv'
  BY <1>1, CreateHands, ReadHands, RecordHands, RecordResultHands, QueueHands DEF Run
<1>2. ASSUME NEW w \in Slots, Fail(w) PROVE HandInv'
  BY <1>2, ThrowHands DEF Fail
<1>3. CASE SetPolicy \/ UNCHANGED vars
  <2>1. UNCHANGED <<row, job, pc, task, skipped>>
    BY <1>3 DEF SetPolicy, vars, queues, slots
  <2> QED
    BY <2>1 DEF HandInv, HandedOn, CameBy, WorksOn, Runs, Of
<1> QED
  BY <1>1, <1>2, <1>3, DeliverHands, TakeHands, LoseLockHands DEF Next

\* No proposal is dropped between two stages, at any moment: whatever attempts
\* failed, lost their locks or were repeated, somebody has it in hand, or a failed
\* job tells (the queueing at the end of each worker, and BullMQ's jobIds).  It is
\* the safety part of Settles.
THEOREM NoProposalIsDropped == Spec => []NothingIsDropped
<1>1. Init => HandInv
  BY DEF Init, HandInv, CameBy, WorksOn, Runs, Final
<1>2. IInv /\ HandInv => NothingIsDropped
  BY HandsSuffice
<1> QED
  BY <1>1, <1>2, StepHands, Inductive, PTL DEF Spec
=============================================================================

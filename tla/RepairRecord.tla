---------------------------- MODULE RepairRecord ----------------------------
(***************************************************************************)
(* What a repair proposal promises: each stage is recorded once, after the *)
(* one before it, and made from what that one recorded.                    *)
(***************************************************************************)
CONSTANTS Proposals, Excerpts, None

VARIABLE record

Outcomes == {"pass", "fail", "inconclusive"}

Blank == [status |-> "none", refs |-> None, diagnosis |-> None,
          patch |-> None, result |-> None]

Detect(p) == record[p] = Blank /\ record' = [record EXCEPT ![p].status = "detected"]

Collect(p) ==
  /\ record[p].status = "detected"
  /\ \E x \in SUBSET Excerpts :
       record' = [record EXCEPT ![p].status = "evidence_collected", ![p].refs = x]

Diagnose(p) ==
  /\ record[p].status = "evidence_collected" /\ record[p].diagnosis = None
  /\ record' = [record EXCEPT ![p].diagnosis = record[p].refs]

Propose(p) ==
  LET r == record[p] IN
  /\ r.status = "evidence_collected" /\ r.diagnosis # None
  /\ record' = [record EXCEPT ![p].status = "proposed",
       ![p].patch = [diagnosis |-> r.diagnosis, refs |-> r.refs]]

Conclude(p) ==
  LET r == record[p] IN
  /\ r.status = "proposed"
  /\ \E o \in Outcomes :
       record' = [record EXCEPT ![p].status = IF o = "pass" THEN "verified" ELSE "failed",
                    ![p].result = [patch |-> r.patch, overall |-> o]]

RecordInit == record = [p \in Proposals |-> Blank]
RecordNext ==
  \E p \in Proposals : Detect(p) \/ Collect(p) \/ Diagnose(p) \/ Propose(p) \/ Conclude(p)
RecordSpec == RecordInit /\ [][RecordNext]_record
=============================================================================

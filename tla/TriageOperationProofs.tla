----------------------- MODULE TriageOperationProofs -----------------------
(***************************************************************************)
(* Proofs about TriageOperation, for any number of jobs, keys, attempts,   *)
(* crashes and retries: an attempt at work keeps its lease, a complete     *)
(* marker is earned, only two simultaneous creators double the summary     *)
(* comment, and only a lease left behind loses a triage.                   *)
(***************************************************************************)
EXTENDS TriageOperation, TLAPS

-----------------------------------------------------------------------------
(* The inductive invariant *)

\* A job on its way has a key.
JobsHaveKeys == \A j \in Jobs : pc[j] # "none" => key[j] \in Keys

\* Attempts made beyond the limit were granted by operators, one each.
AttemptsAreGranted ==
  \A j \in Jobs :
    /\ attempts[j] <= MaxAttempts + requeues
    /\ pc[j] # "failed" => attempts[j] < MaxAttempts + requeues

\* A lease is held under the holder's own key, by a job that was queued.
LeasesFollowKeys ==
  \A k \in Keys, j \in Jobs :
    active[k] = j => key[j] = k /\ pc[j] \notin {"none", "clear"}

\* A lease lost on the way is not got back in the same attempt.
LostIsLost == \A j \in Jobs : pc[j] \in Working /\ j \in lapsed => ~Holds(j)

\* Who is about to complete has done the work.
WorkComesFirst == \A j \in Jobs : pc[j] = "complete" => key[j] \in done

\* Without rivals, a job about to create the comment is alone and there is
\* none yet.
CreatorsAreAlone ==
  rivals = {} =>
    /\ comments \in {0, 1}
    /\ \A i, j \in Jobs : pc[i] = "create" /\ pc[j] = "create" => i = j
    /\ \A j \in Jobs : pc[j] = "create" => comments = 0

IInv ==
  /\ TypeOK /\ JobsHaveKeys /\ AttemptsAreGranted
  /\ HolderKeepsLease /\ LeasesFollowKeys /\ LostIsLost
  /\ WorkComesFirst /\ CreatorsAreAlone

-----------------------------------------------------------------------------
(* Initial states *)

LEMMA InitIInv == Init => IInv
  BY KeysAssumption, BoundsAssumption
  DEF Init, IInv, TypeOK, JobsHaveKeys, AttemptsAreGranted, HolderKeepsLease,
      LeasesFollowKeys, LostIsLost, WorkComesFirst, CreatorsAreAlone, Working

-----------------------------------------------------------------------------
(* How a job goes on after an error *)

\* A failed attempt is queued again or its job failed for good.
LEMMA FailEnds ==
  ASSUME TypeOK, NEW j \in Jobs, Fail(j)
  PROVE  /\ \A i \in Jobs \ {j} : pc'[i] = pc[i] /\ attempts'[i] = attempts[i]
         /\ pc'[j] \in {"waiting", "failed"}
         /\ pc'[j] = "waiting" => attempts[j] + 1 < MaxAttempts
         /\ attempts'[j] = attempts[j] + 1
         /\ pc' = [pc EXCEPT ![j] = pc'[j]]
         /\ attempts' = [attempts EXCEPT ![j] = attempts[j] + 1]
         /\ UNCHANGED <<key, stalled, crashes, requeues>>
<1>1. attempts' = [attempts EXCEPT ![j] = attempts[j] + 1]
  BY DEF Fail
<1>2. attempts'[j] = attempts[j] + 1
  BY <1>1 DEF TypeOK
<1>3. pc' = [pc EXCEPT ![j] = IF pc[j] # "discard" /\ attempts'[j] < MaxAttempts
                                THEN "waiting" ELSE "failed"]
  BY DEF Fail
<1>4. /\ pc'[j] = IF pc[j] # "discard" /\ attempts'[j] < MaxAttempts
                    THEN "waiting" ELSE "failed"
      /\ pc' = [pc EXCEPT ![j] = pc'[j]]
  BY <1>3 DEF TypeOK
<1>5. \A i \in Jobs \ {j} : pc'[i] = pc[i] /\ attempts'[i] = attempts[i]
  BY <1>1, <1>3 DEF TypeOK
<1>6. UNCHANGED <<key, stalled, crashes, requeues>>
  BY DEF Fail
<1> QED
  BY <1>1, <1>2, <1>4, <1>5, <1>6

\* An error at work leads to the catch block.
LEMMA ThrowLeads ==
  ASSUME TypeOK, NEW j \in Jobs, Throw(j)
  PROVE  pc' = [pc EXCEPT ![j] = "abandon"] \/ pc' = [pc EXCEPT ![j] = "discard"]
  BY DEF Throw

-----------------------------------------------------------------------------
(* One lemma per conjunct, one step per action *)

LEMMA StepKeys == TypeOK /\ JobsHaveKeys /\ [Next]_vars => JobsHaveKeys'
<1> SUFFICES ASSUME TypeOK, JobsHaveKeys, [Next]_vars PROVE JobsHaveKeys'
  OBVIOUS
<1> USE DEF TypeOK, redis, queue, history, JobsHaveKeys
<1>1. ASSUME NEW j \in Jobs, Enqueue(j) PROVE JobsHaveKeys'
  BY <1>1 DEF Enqueue
<1>2. ASSUME NEW j \in Jobs, Clear(j) PROVE JobsHaveKeys'
  BY <1>2 DEF Clear
<1>3. ASSUME NEW j \in Jobs, Requeue(j) PROVE JobsHaveKeys'
  BY <1>3 DEF Requeue
<1>4. ASSUME NEW j \in Jobs, Acquire(j) PROVE JobsHaveKeys'
  BY <1>4 DEF Acquire
<1>5. ASSUME NEW j \in Jobs, Skip(j) PROVE JobsHaveKeys'
  BY <1>5 DEF Skip
<1>6. ASSUME NEW j \in Jobs, StoreUnavailable(j) PROVE JobsHaveKeys'
  BY <1>6 DEF StoreUnavailable, Fail
<1>7. ASSUME NEW j \in Jobs, Work(j) PROVE JobsHaveKeys'
  BY <1>7 DEF Work, Throw
<1>8. ASSUME NEW j \in Jobs, Find(j) PROVE JobsHaveKeys'
  BY <1>8 DEF Find, Throw
<1>9. ASSUME NEW j \in Jobs, Create(j) PROVE JobsHaveKeys'
  BY <1>9 DEF Create, Throw
<1>10. ASSUME NEW j \in Jobs, Update(j) PROVE JobsHaveKeys'
  BY <1>10 DEF Update, Throw
<1>11. ASSUME NEW j \in Jobs, Complete(j) PROVE JobsHaveKeys'
  BY <1>11 DEF Complete
<1>12. ASSUME NEW j \in Jobs, Abandon(j) PROVE JobsHaveKeys'
  BY <1>12 DEF Abandon, Fail
<1>13. ASSUME NEW j \in Jobs, Crash(j) PROVE JobsHaveKeys'
  <2>1. pc[j] # "none" /\ key' = key /\ \A i \in Jobs \ {j} : pc'[i] = pc[i]
    BY <1>13 DEF Crash, Working
  <2> QED
    BY <1>13, <2>1
<1>14. ASSUME NEW k \in Keys, LeaseExpires(k) PROVE JobsHaveKeys'
  BY <1>14 DEF LeaseExpires
<1>15. ASSUME NEW k \in Keys, MarkerExpires(k) PROVE JobsHaveKeys'
  BY <1>15 DEF MarkerExpires
<1>16. CASE UNCHANGED vars
  BY <1>16 DEF vars
<1> QED
  BY <1>1, <1>2, <1>3, <1>4, <1>5, <1>6, <1>7, <1>8,
     <1>9, <1>10, <1>11, <1>12, <1>13, <1>14, <1>15, <1>16 DEF Next, Attempt

LEMMA StepAttempts ==
  TypeOK /\ JobsHaveKeys /\ AttemptsAreGranted /\ [Next]_vars => AttemptsAreGranted'
<1> SUFFICES ASSUME TypeOK, JobsHaveKeys, AttemptsAreGranted, [Next]_vars
             PROVE  AttemptsAreGranted'
  OBVIOUS
<1> USE DEF TypeOK, redis, queue, history, AttemptsAreGranted, Working
<1>1. ASSUME NEW j \in Jobs, Enqueue(j) PROVE AttemptsAreGranted'
  BY <1>1 DEF Enqueue
<1>2. ASSUME NEW j \in Jobs, Clear(j) PROVE AttemptsAreGranted'
  BY <1>2 DEF Clear
<1>3. ASSUME NEW j \in Jobs, Requeue(j) PROVE AttemptsAreGranted'
  <2>1. requeues' = requeues + 1 /\ attempts' = attempts
        /\ requeues \in Nat /\ MaxAttempts \in Nat
    BY <1>3, BoundsAssumption DEF Requeue
  <2>2. \A i \in Jobs : attempts[i] \in Nat
    BY BoundsAssumption
  <2> QED
    BY <2>1, <2>2
<1>4. ASSUME NEW j \in Jobs, Acquire(j) PROVE AttemptsAreGranted'
  BY <1>4 DEF Acquire
<1>5. ASSUME NEW j \in Jobs, Skip(j) PROVE AttemptsAreGranted'
  BY <1>5 DEF Skip
<1>6. ASSUME NEW j \in Jobs, StoreUnavailable(j) PROVE AttemptsAreGranted'
  <2>1. Fail(j) /\ pc[j] # "failed"
    BY <1>6 DEF StoreUnavailable
  <2>2. \A i \in Jobs \ {j} : pc'[i] = pc[i] /\ attempts'[i] = attempts[i]
    BY <2>1, FailEnds
  <2>3. /\ attempts'[j] = attempts[j] + 1 /\ requeues' = requeues
        /\ pc'[j] # "failed" => attempts[j] + 1 < MaxAttempts
    BY <2>1, FailEnds
  <2>4. /\ attempts[j] < MaxAttempts + requeues
        /\ attempts[j] \in Nat /\ requeues \in Nat /\ MaxAttempts \in Nat
    BY <2>1, BoundsAssumption
  <2>5. /\ attempts'[j] <= MaxAttempts + requeues'
        /\ pc'[j] # "failed" => attempts'[j] < MaxAttempts + requeues'
    BY <2>3, <2>4
  <2> QED
    BY <2>2, <2>3, <2>5
<1>7. ASSUME NEW j \in Jobs, Work(j) PROVE AttemptsAreGranted'
  BY <1>7 DEF Work, Throw
<1>8. ASSUME NEW j \in Jobs, Find(j) PROVE AttemptsAreGranted'
  BY <1>8 DEF Find, Throw
<1>9. ASSUME NEW j \in Jobs, Create(j) PROVE AttemptsAreGranted'
  BY <1>9 DEF Create, Throw
<1>10. ASSUME NEW j \in Jobs, Update(j) PROVE AttemptsAreGranted'
  BY <1>10 DEF Update, Throw
<1>11. ASSUME NEW j \in Jobs, Complete(j) PROVE AttemptsAreGranted'
  BY <1>11 DEF Complete
<1>12. ASSUME NEW j \in Jobs, Abandon(j) PROVE AttemptsAreGranted'
  <2>1. Fail(j) /\ pc[j] # "failed"
    BY <1>12 DEF Abandon
  <2>2. \A i \in Jobs \ {j} : pc'[i] = pc[i] /\ attempts'[i] = attempts[i]
    BY <2>1, FailEnds
  <2>3. /\ attempts'[j] = attempts[j] + 1 /\ requeues' = requeues
        /\ pc'[j] # "failed" => attempts[j] + 1 < MaxAttempts
    BY <2>1, FailEnds
  <2>4. /\ attempts[j] < MaxAttempts + requeues
        /\ attempts[j] \in Nat /\ requeues \in Nat /\ MaxAttempts \in Nat
    BY <2>1, BoundsAssumption
  <2>5. /\ attempts'[j] <= MaxAttempts + requeues'
        /\ pc'[j] # "failed" => attempts'[j] < MaxAttempts + requeues'
    BY <2>3, <2>4
  <2> QED
    BY <2>2, <2>3, <2>5
<1>13. ASSUME NEW j \in Jobs, Crash(j) PROVE AttemptsAreGranted'
  BY <1>13 DEF Crash
<1>14. ASSUME NEW k \in Keys, LeaseExpires(k) PROVE AttemptsAreGranted'
  BY <1>14 DEF LeaseExpires
<1>15. ASSUME NEW k \in Keys, MarkerExpires(k) PROVE AttemptsAreGranted'
  BY <1>15 DEF MarkerExpires
<1>16. CASE UNCHANGED vars
  BY <1>16 DEF vars
<1> QED
  BY <1>1, <1>2, <1>3, <1>4, <1>5, <1>6, <1>7, <1>8,
     <1>9, <1>10, <1>11, <1>12, <1>13, <1>14, <1>15, <1>16 DEF Next, Attempt

LEMMA StepType ==
  TypeOK /\ JobsHaveKeys /\ AttemptsAreGranted /\ [Next]_vars => TypeOK'
<1> SUFFICES ASSUME TypeOK, JobsHaveKeys, AttemptsAreGranted, [Next]_vars
             PROVE  TypeOK'
  OBVIOUS
<1> USE DEF TypeOK, redis, queue, history, Working, Over
<1>1. ASSUME NEW j \in Jobs, Enqueue(j) PROVE TypeOK'
  BY <1>1 DEF Enqueue
<1>2. ASSUME NEW j \in Jobs, Clear(j) PROVE TypeOK'
  BY <1>2 DEF Clear
<1>3. ASSUME NEW j \in Jobs, Requeue(j) PROVE TypeOK'
  <2>1. requeues' \in 0..MaxRequeues
    BY <1>3, BoundsAssumption DEF Requeue
  <2> QED
    BY <1>3, <2>1 DEF Requeue
<1>4. ASSUME NEW j \in Jobs, Acquire(j) PROVE TypeOK'
  BY <1>4 DEF Acquire
<1>5. ASSUME NEW j \in Jobs, Skip(j) PROVE TypeOK'
  BY <1>5 DEF Skip
<1>6. ASSUME NEW j \in Jobs, StoreUnavailable(j) PROVE TypeOK'
  <2>1. Fail(j) /\ pc[j] # "failed" /\ key[j] \in Keys
    BY <1>6 DEF StoreUnavailable, JobsHaveKeys
  <2>2. attempts[j] + 1 \in 0..(MaxAttempts + MaxRequeues)
    BY <2>1, BoundsAssumption DEF AttemptsAreGranted
  <2>3. pc' \in [Jobs -> Working \cup Over \cup {"none", "clear", "waiting"}]
    BY <2>1, FailEnds
  <2>4. /\ attempts' \in [Jobs -> 0..(MaxAttempts + MaxRequeues)]
        /\ UNCHANGED <<key, stalled, crashes, requeues>>
    BY <2>1, <2>2, FailEnds
  <2>5. active' \in [Keys -> Jobs \cup {None}] /\ orphaned' \subseteq Keys
    BY <1>6, <2>1 DEF StoreUnavailable
  <2> QED
    BY <1>6, <2>3, <2>4, <2>5 DEF StoreUnavailable
<1>7. ASSUME NEW j \in Jobs, Work(j) PROVE TypeOK'
  <2>1. key[j] \in Keys
    BY <1>7 DEF Work, JobsHaveKeys
  <2>2. pc' \in [Jobs -> Working \cup Over \cup {"none", "clear", "waiting"}]
    BY <1>7, ThrowLeads DEF Work
  <2>3. done' \subseteq Keys
    BY <1>7, <2>1 DEF Work
  <2> QED
    BY <1>7, <2>2, <2>3 DEF Work
<1>8. ASSUME NEW j \in Jobs, Find(j) PROVE TypeOK'
  BY <1>8 DEF Find, Throw
<1>9. ASSUME NEW j \in Jobs, Create(j) PROVE TypeOK'
  <2>1. key[j] \in Keys
    BY <1>9 DEF Create, JobsHaveKeys
  <2>2. pc' \in [Jobs -> Working \cup Over \cup {"none", "clear", "waiting"}]
    BY <1>9, ThrowLeads DEF Create
  <2>3. done' \subseteq Keys /\ comments' \in Nat
    BY <1>9, <2>1 DEF Create
  <2> QED
    BY <1>9, <2>2, <2>3 DEF Create
<1>10. ASSUME NEW j \in Jobs, Update(j) PROVE TypeOK'
  <2>1. key[j] \in Keys
    BY <1>10 DEF Update, JobsHaveKeys
  <2>2. pc' \in [Jobs -> Working \cup Over \cup {"none", "clear", "waiting"}]
    BY <1>10, ThrowLeads DEF Update
  <2>3. done' \subseteq Keys
    BY <1>10, <2>1 DEF Update
  <2> QED
    BY <1>10, <2>2, <2>3 DEF Update
<1>11. ASSUME NEW j \in Jobs, Complete(j) PROVE TypeOK'
  <2>1. key[j] \in Keys
    BY <1>11 DEF Complete, JobsHaveKeys
  <2>2. pc' \in [Jobs -> Working \cup Over \cup {"none", "clear", "waiting"}]
    BY <1>11 DEF Complete
  <2>3. active' \in [Keys -> Jobs \cup {None}] /\ complete' \subseteq Keys
    BY <1>11, <2>1 DEF Complete
  <2> QED
    BY <1>11, <2>2, <2>3 DEF Complete
<1>12. ASSUME NEW j \in Jobs, Abandon(j) PROVE TypeOK'
  <2>1. Fail(j) /\ pc[j] # "failed" /\ key[j] \in Keys
    BY <1>12 DEF Abandon, JobsHaveKeys
  <2>2. attempts[j] + 1 \in 0..(MaxAttempts + MaxRequeues)
    BY <2>1, BoundsAssumption DEF AttemptsAreGranted
  <2>3. pc' \in [Jobs -> Working \cup Over \cup {"none", "clear", "waiting"}]
    BY <2>1, FailEnds
  <2>4. /\ attempts' \in [Jobs -> 0..(MaxAttempts + MaxRequeues)]
        /\ UNCHANGED <<key, stalled, crashes, requeues>>
    BY <2>1, <2>2, FailEnds
  <2>5. active' \in [Keys -> Jobs \cup {None}] /\ orphaned' \subseteq Keys
    BY <1>12, <2>1 DEF Abandon
  <2> QED
    BY <1>12, <2>3, <2>4, <2>5 DEF Abandon
<1>13. ASSUME NEW j \in Jobs, Crash(j) PROVE TypeOK'
  <2>1. key[j] \in Keys
    BY <1>13 DEF Crash, JobsHaveKeys
  <2>2. pc' \in [Jobs -> Working \cup Over \cup {"none", "clear", "waiting"}]
    BY <1>13, BoundsAssumption DEF Crash
  <2>3. orphaned' \subseteq Keys /\ comments' \in Nat /\ crashes' \in 0..MaxCrashes
    BY <1>13, <2>1, BoundsAssumption DEF Crash
  <2> QED
    BY <1>13, <2>2, <2>3 DEF Crash
<1>14. ASSUME NEW k \in Keys, LeaseExpires(k) PROVE TypeOK'
  BY <1>14 DEF LeaseExpires
<1>15. ASSUME NEW k \in Keys, MarkerExpires(k) PROVE TypeOK'
  BY <1>15 DEF MarkerExpires
<1>16. CASE UNCHANGED vars
  BY <1>16 DEF vars
<1> QED
  BY <1>1, <1>2, <1>3, <1>4, <1>5, <1>6, <1>7, <1>8,
     <1>9, <1>10, <1>11, <1>12, <1>13, <1>14, <1>15, <1>16 DEF Next, Attempt

LEMMA StepHolder ==
  TypeOK /\ JobsHaveKeys /\ HolderKeepsLease /\ [Next]_vars => HolderKeepsLease'
<1> SUFFICES ASSUME TypeOK, JobsHaveKeys, HolderKeepsLease, [Next]_vars
             PROVE  HolderKeepsLease'
  OBVIOUS
<1> USE DEF TypeOK, redis, queue, history, HolderKeepsLease, Working, Holds
<1>1. ASSUME NEW j \in Jobs, Enqueue(j) PROVE HolderKeepsLease'
  BY <1>1, KeysAssumption DEF Enqueue
<1>2. ASSUME NEW j \in Jobs, Clear(j) PROVE HolderKeepsLease'
  <2> SUFFICES ASSUME NEW i \in Jobs, pc'[i] \in Working
               PROVE  active'[key'[i]] = i \/ i \in lapsed'
    OBVIOUS
  <2>1. i # j /\ pc[i] = pc'[i] /\ key' = key /\ key[i] \in Keys
    BY <1>2 DEF Clear, JobsHaveKeys
  <2> QED
    BY <1>2, <2>1 DEF Clear
<1>3. ASSUME NEW j \in Jobs, Requeue(j) PROVE HolderKeepsLease'
  BY <1>3, KeysAssumption DEF Requeue
<1>4. ASSUME NEW j \in Jobs, Acquire(j) PROVE HolderKeepsLease'
  <2> SUFFICES ASSUME NEW i \in Jobs, pc'[i] \in Working
               PROVE  active'[key'[i]] = i \/ i \in lapsed'
    OBVIOUS
  <2>1. key' = key /\ key[i] \in Keys /\ key[j] \in Keys
    BY <1>4 DEF Acquire, JobsHaveKeys
  <2>2. CASE i = j
    BY <1>4, <2>1, <2>2 DEF Acquire
  <2>3. CASE i # j
    <3>1. pc[i] = pc'[i] /\ (active[key[i]] = i \/ i \in lapsed)
      BY <1>4, <2>3 DEF Acquire
    <3> QED
      BY <1>4, <2>1, <2>3, <3>1, KeysAssumption DEF Acquire
  <2> QED
    BY <2>2, <2>3
<1>5. ASSUME NEW j \in Jobs, Skip(j) PROVE HolderKeepsLease'
  BY <1>5, KeysAssumption DEF Skip
<1>6. ASSUME NEW j \in Jobs, StoreUnavailable(j) PROVE HolderKeepsLease'
  <2> SUFFICES ASSUME NEW i \in Jobs, pc'[i] \in Working
               PROVE  active'[key'[i]] = i \/ i \in lapsed'
    OBVIOUS
  <2>1. Fail(j)
    BY <1>6 DEF StoreUnavailable
  <2>2. i # j /\ pc[i] = pc'[i] /\ key' = key
    BY <2>1, FailEnds
  <2>3. key[i] \in Keys /\ (active[key[i]] = i \/ i \in lapsed)
    BY <2>2 DEF JobsHaveKeys
  <2> QED
    BY <1>6, <2>2, <2>3, KeysAssumption DEF StoreUnavailable
<1>7. ASSUME NEW j \in Jobs, Work(j) PROVE HolderKeepsLease'
  BY <1>7, KeysAssumption DEF Work, Throw
<1>8. ASSUME NEW j \in Jobs, Find(j) PROVE HolderKeepsLease'
  BY <1>8, KeysAssumption DEF Find, Throw
<1>9. ASSUME NEW j \in Jobs, Create(j) PROVE HolderKeepsLease'
  BY <1>9, KeysAssumption DEF Create, Throw
<1>10. ASSUME NEW j \in Jobs, Update(j) PROVE HolderKeepsLease'
  BY <1>10, KeysAssumption DEF Update, Throw
<1>11. ASSUME NEW j \in Jobs, Complete(j) PROVE HolderKeepsLease'
  <2> SUFFICES ASSUME NEW i \in Jobs, pc'[i] \in Working
               PROVE  active'[key'[i]] = i \/ i \in lapsed'
    OBVIOUS
  <2>1. key' = key /\ (i # j => pc'[i] = pc[i])
    BY <1>11 DEF Complete
  <2>2. CASE i # j
    <3>1. key[i] \in Keys /\ key' = key /\ (active[key[i]] = i \/ i \in lapsed)
      BY <2>1, <2>2 DEF JobsHaveKeys
    <3> QED
      BY <1>11, <2>2, <3>1 DEF Complete
  <2>3. CASE i = j
    <3>1. pc[j] = "complete" /\ pc'[j] # "completed" /\ UNCHANGED <<active, lapsed>>
      BY <1>11, <2>3 DEF Complete
    <3> QED
      BY <2>1, <2>3, <3>1
  <2> QED
    BY <2>2, <2>3
<1>12. ASSUME NEW j \in Jobs, Abandon(j) PROVE HolderKeepsLease'
  <2> SUFFICES ASSUME NEW i \in Jobs, pc'[i] \in Working
               PROVE  active'[key'[i]] = i \/ i \in lapsed'
    OBVIOUS
  <2>1. Fail(j)
    BY <1>12 DEF Abandon
  <2>2. i # j /\ pc[i] = pc'[i] /\ key' = key
    BY <2>1, FailEnds
  <2>3. key[i] \in Keys /\ (active[key[i]] = i \/ i \in lapsed)
    BY <2>2 DEF JobsHaveKeys
  <2> QED
    BY <1>12, <2>2, <2>3 DEF Abandon
<1>13. ASSUME NEW j \in Jobs, Crash(j) PROVE HolderKeepsLease'
  BY <1>13, KeysAssumption DEF Crash
<1>14. ASSUME NEW k \in Keys, LeaseExpires(k) PROVE HolderKeepsLease'
  BY <1>14, KeysAssumption DEF LeaseExpires
<1>15. ASSUME NEW k \in Keys, MarkerExpires(k) PROVE HolderKeepsLease'
  BY <1>15, KeysAssumption DEF MarkerExpires
<1>16. CASE UNCHANGED vars
  BY <1>16 DEF vars
<1> QED
  BY <1>1, <1>2, <1>3, <1>4, <1>5, <1>6, <1>7, <1>8,
     <1>9, <1>10, <1>11, <1>12, <1>13, <1>14, <1>15, <1>16 DEF Next, Attempt

LEMMA StepLeases ==
  TypeOK /\ JobsHaveKeys /\ LeasesFollowKeys /\ [Next]_vars => LeasesFollowKeys'
<1> SUFFICES ASSUME TypeOK, JobsHaveKeys, LeasesFollowKeys, [Next]_vars
             PROVE  LeasesFollowKeys'
  OBVIOUS
<1> USE DEF TypeOK, redis, queue, history, LeasesFollowKeys, JobsHaveKeys, Working, Holds
<1>1. ASSUME NEW j \in Jobs, Enqueue(j) PROVE LeasesFollowKeys'
  BY <1>1, KeysAssumption DEF Enqueue
<1>2. ASSUME NEW j \in Jobs, Clear(j) PROVE LeasesFollowKeys'
  BY <1>2, KeysAssumption DEF Clear
<1>3. ASSUME NEW j \in Jobs, Requeue(j) PROVE LeasesFollowKeys'
  BY <1>3, KeysAssumption DEF Requeue
<1>4. ASSUME NEW j \in Jobs, Acquire(j) PROVE LeasesFollowKeys'
  BY <1>4, KeysAssumption DEF Acquire
<1>5. ASSUME NEW j \in Jobs, Skip(j) PROVE LeasesFollowKeys'
  BY <1>5, KeysAssumption DEF Skip
<1>6. ASSUME NEW j \in Jobs, StoreUnavailable(j) PROVE LeasesFollowKeys'
  BY <1>6, KeysAssumption DEF StoreUnavailable, Fail
<1>7. ASSUME NEW j \in Jobs, Work(j) PROVE LeasesFollowKeys'
  BY <1>7, KeysAssumption DEF Work, Throw
<1>8. ASSUME NEW j \in Jobs, Find(j) PROVE LeasesFollowKeys'
  BY <1>8, KeysAssumption DEF Find, Throw
<1>9. ASSUME NEW j \in Jobs, Create(j) PROVE LeasesFollowKeys'
  BY <1>9, KeysAssumption DEF Create, Throw
<1>10. ASSUME NEW j \in Jobs, Update(j) PROVE LeasesFollowKeys'
  BY <1>10, KeysAssumption DEF Update, Throw
<1>11. ASSUME NEW j \in Jobs, Complete(j) PROVE LeasesFollowKeys'
  BY <1>11, KeysAssumption DEF Complete
<1>12. ASSUME NEW j \in Jobs, Abandon(j) PROVE LeasesFollowKeys'
  BY <1>12, KeysAssumption DEF Abandon, Fail
<1>13. ASSUME NEW j \in Jobs, Crash(j) PROVE LeasesFollowKeys'
  BY <1>13, KeysAssumption DEF Crash
<1>14. ASSUME NEW k \in Keys, LeaseExpires(k) PROVE LeasesFollowKeys'
  BY <1>14, KeysAssumption DEF LeaseExpires
<1>15. ASSUME NEW k \in Keys, MarkerExpires(k) PROVE LeasesFollowKeys'
  BY <1>15, KeysAssumption DEF MarkerExpires
<1>16. CASE UNCHANGED vars
  BY <1>16 DEF vars
<1> QED
  BY <1>1, <1>2, <1>3, <1>4, <1>5, <1>6, <1>7, <1>8,
     <1>9, <1>10, <1>11, <1>12, <1>13, <1>14, <1>15, <1>16 DEF Next, Attempt

LEMMA StepLost ==
  TypeOK /\ JobsHaveKeys /\ LeasesFollowKeys /\ LostIsLost /\ [Next]_vars
    => LostIsLost'
<1> SUFFICES ASSUME TypeOK, JobsHaveKeys, LeasesFollowKeys, LostIsLost, [Next]_vars
             PROVE  LostIsLost'
  OBVIOUS
<1> USE DEF TypeOK, redis, queue, history, LostIsLost, Working, Holds
<1>1. ASSUME NEW j \in Jobs, Enqueue(j) PROVE LostIsLost'
  BY <1>1, KeysAssumption DEF Enqueue
<1>2. ASSUME NEW j \in Jobs, Clear(j) PROVE LostIsLost'
  <2> SUFFICES ASSUME NEW i \in Jobs, pc'[i] \in Working, i \in lapsed'
               PROVE  active'[key'[i]] # i
    OBVIOUS
  <2>1. pc[i] = pc'[i] /\ key' = key /\ key[i] \in Keys
    BY <1>2 DEF Clear, JobsHaveKeys
  <2>2. CASE key[j] = key[i]
    BY <1>2, <2>1, <2>2, KeysAssumption DEF Clear
  <2>3. CASE key[j] # key[i]
    <3>1. active[key[j]] # i /\ active'[key[i]] = active[key[i]]
      BY <1>2, <2>1, <2>3 DEF Clear, LeasesFollowKeys, JobsHaveKeys
    <3>2. i \in lapsed
      BY <1>2, <3>1 DEF Clear
    <3> QED
      BY <2>1, <3>1, <3>2
  <2> QED
    BY <2>2, <2>3
<1>3. ASSUME NEW j \in Jobs, Requeue(j) PROVE LostIsLost'
  BY <1>3, KeysAssumption DEF Requeue
<1>4. ASSUME NEW j \in Jobs, Acquire(j) PROVE LostIsLost'
  BY <1>4, KeysAssumption DEF Acquire
<1>5. ASSUME NEW j \in Jobs, Skip(j) PROVE LostIsLost'
  BY <1>5, KeysAssumption DEF Skip
<1>6. ASSUME NEW j \in Jobs, StoreUnavailable(j) PROVE LostIsLost'
  <2> SUFFICES ASSUME NEW i \in Jobs, pc'[i] \in Working, i \in lapsed'
               PROVE  active'[key'[i]] # i
    OBVIOUS
  <2>1. Fail(j) /\ lapsed' = lapsed
    BY <1>6 DEF StoreUnavailable
  <2>2. i # j /\ pc[i] = pc'[i] /\ key' = key
    BY <2>1, FailEnds
  <2>3. key[i] \in Keys /\ active[key[i]] # i
    BY <2>1, <2>2 DEF JobsHaveKeys
  <2> QED
    BY <1>6, <2>2, <2>3 DEF StoreUnavailable
<1>7. ASSUME NEW j \in Jobs, Work(j) PROVE LostIsLost'
  BY <1>7, KeysAssumption DEF Work, Throw
<1>8. ASSUME NEW j \in Jobs, Find(j) PROVE LostIsLost'
  BY <1>8, KeysAssumption DEF Find, Throw
<1>9. ASSUME NEW j \in Jobs, Create(j) PROVE LostIsLost'
  BY <1>9, KeysAssumption DEF Create, Throw
<1>10. ASSUME NEW j \in Jobs, Update(j) PROVE LostIsLost'
  BY <1>10, KeysAssumption DEF Update, Throw
<1>11. ASSUME NEW j \in Jobs, Complete(j) PROVE LostIsLost'
  <2> SUFFICES ASSUME NEW i \in Jobs, pc'[i] \in Working, i \in lapsed'
               PROVE  active'[key'[i]] # i
    OBVIOUS
  <2>1. pc[i] \in Working /\ key' = key /\ lapsed' = lapsed
    BY <1>11 DEF Complete
  <2>2. key[i] \in Keys /\ active[key[i]] # i
    BY <2>1 DEF JobsHaveKeys
  <2> QED
    BY <1>11, <2>1, <2>2, KeysAssumption DEF Complete
<1>12. ASSUME NEW j \in Jobs, Abandon(j) PROVE LostIsLost'
  <2> SUFFICES ASSUME NEW i \in Jobs, pc'[i] \in Working, i \in lapsed'
               PROVE  active'[key'[i]] # i
    OBVIOUS
  <2>1. Fail(j) /\ lapsed' = lapsed
    BY <1>12 DEF Abandon
  <2>2. i # j /\ pc[i] = pc'[i] /\ key' = key
    BY <2>1, FailEnds
  <2>3. key[i] \in Keys /\ active[key[i]] # i
    BY <2>1, <2>2 DEF JobsHaveKeys
  <2> QED
    BY <1>12, <2>2, <2>3, KeysAssumption DEF Abandon
<1>13. ASSUME NEW j \in Jobs, Crash(j) PROVE LostIsLost'
  BY <1>13, KeysAssumption DEF Crash
<1>14. ASSUME NEW k \in Keys, LeaseExpires(k) PROVE LostIsLost'
  <2> SUFFICES ASSUME NEW i \in Jobs, pc'[i] \in Working, i \in lapsed'
               PROVE  active'[key'[i]] # i
    OBVIOUS
  <2>1. pc[i] = pc'[i] /\ key' = key /\ key[i] \in Keys
    BY <1>14 DEF LeaseExpires, JobsHaveKeys
  <2>2. CASE k = key[i]
    BY <1>14, <2>1, <2>2, KeysAssumption DEF LeaseExpires
  <2>3. CASE k # key[i]
    <3>1. active[k] # i /\ active'[key[i]] = active[key[i]]
      BY <1>14, <2>1, <2>3 DEF LeaseExpires, LeasesFollowKeys
    <3>2. i \in lapsed
      BY <1>14, <3>1 DEF LeaseExpires
    <3> QED
      BY <2>1, <3>1, <3>2
  <2> QED
    BY <2>2, <2>3
<1>15. ASSUME NEW k \in Keys, MarkerExpires(k) PROVE LostIsLost'
  BY <1>15, KeysAssumption DEF MarkerExpires
<1>16. CASE UNCHANGED vars
  BY <1>16 DEF vars
<1> QED
  BY <1>1, <1>2, <1>3, <1>4, <1>5, <1>6, <1>7, <1>8,
     <1>9, <1>10, <1>11, <1>12, <1>13, <1>14, <1>15, <1>16 DEF Next, Attempt

LEMMA StepWork ==
  TypeOK /\ JobsHaveKeys /\ WorkComesFirst /\ [Next]_vars => WorkComesFirst'
<1> SUFFICES ASSUME TypeOK, JobsHaveKeys, WorkComesFirst, [Next]_vars
             PROVE  WorkComesFirst'
  OBVIOUS
<1> USE DEF TypeOK, redis, queue, history, WorkComesFirst, Working
<1>1. ASSUME NEW j \in Jobs, Enqueue(j) PROVE WorkComesFirst'
  BY <1>1 DEF Enqueue
<1>2. ASSUME NEW j \in Jobs, Clear(j) PROVE WorkComesFirst'
  BY <1>2 DEF Clear
<1>3. ASSUME NEW j \in Jobs, Requeue(j) PROVE WorkComesFirst'
  BY <1>3 DEF Requeue
<1>4. ASSUME NEW j \in Jobs, Acquire(j) PROVE WorkComesFirst'
  BY <1>4 DEF Acquire
<1>5. ASSUME NEW j \in Jobs, Skip(j) PROVE WorkComesFirst'
  BY <1>5 DEF Skip
<1>6. ASSUME NEW j \in Jobs, StoreUnavailable(j) PROVE WorkComesFirst'
  BY <1>6 DEF StoreUnavailable, Fail
<1>7. ASSUME NEW j \in Jobs, Work(j) PROVE WorkComesFirst'
  BY <1>7 DEF Work, Throw
<1>8. ASSUME NEW j \in Jobs, Find(j) PROVE WorkComesFirst'
  BY <1>8 DEF Find, Throw
<1>9. ASSUME NEW j \in Jobs, Create(j) PROVE WorkComesFirst'
  BY <1>9 DEF Create, Throw
<1>10. ASSUME NEW j \in Jobs, Update(j) PROVE WorkComesFirst'
  BY <1>10 DEF Update, Throw
<1>11. ASSUME NEW j \in Jobs, Complete(j) PROVE WorkComesFirst'
  BY <1>11 DEF Complete
<1>12. ASSUME NEW j \in Jobs, Abandon(j) PROVE WorkComesFirst'
  BY <1>12 DEF Abandon, Fail
<1>13. ASSUME NEW j \in Jobs, Crash(j) PROVE WorkComesFirst'
  BY <1>13 DEF Crash
<1>14. ASSUME NEW k \in Keys, LeaseExpires(k) PROVE WorkComesFirst'
  BY <1>14 DEF LeaseExpires
<1>15. ASSUME NEW k \in Keys, MarkerExpires(k) PROVE WorkComesFirst'
  BY <1>15 DEF MarkerExpires
<1>16. CASE UNCHANGED vars
  BY <1>16 DEF vars
<1> QED
  BY <1>1, <1>2, <1>3, <1>4, <1>5, <1>6, <1>7, <1>8,
     <1>9, <1>10, <1>11, <1>12, <1>13, <1>14, <1>15, <1>16 DEF Next, Attempt

LEMMA StepCreators == TypeOK /\ CreatorsAreAlone /\ [Next]_vars => CreatorsAreAlone'
<1> SUFFICES ASSUME TypeOK, CreatorsAreAlone, [Next]_vars PROVE CreatorsAreAlone'
  OBVIOUS
<1> USE DEF TypeOK, redis, queue, history, CreatorsAreAlone, Working
<1>1. ASSUME NEW j \in Jobs, Enqueue(j) PROVE CreatorsAreAlone'
  BY <1>1 DEF Enqueue
<1>2. ASSUME NEW j \in Jobs, Clear(j) PROVE CreatorsAreAlone'
  BY <1>2 DEF Clear
<1>3. ASSUME NEW j \in Jobs, Requeue(j) PROVE CreatorsAreAlone'
  BY <1>3 DEF Requeue
<1>4. ASSUME NEW j \in Jobs, Acquire(j) PROVE CreatorsAreAlone'
  BY <1>4 DEF Acquire
<1>5. ASSUME NEW j \in Jobs, Skip(j) PROVE CreatorsAreAlone'
  BY <1>5 DEF Skip
<1>6. ASSUME NEW j \in Jobs, StoreUnavailable(j) PROVE CreatorsAreAlone'
  BY <1>6 DEF StoreUnavailable, Fail
<1>7. ASSUME NEW j \in Jobs, Work(j) PROVE CreatorsAreAlone'
  BY <1>7 DEF Work, Throw
<1>8. ASSUME NEW j \in Jobs, Find(j) PROVE CreatorsAreAlone'
  <2>1. CASE pc' = [pc EXCEPT ![j] = "create"] /\ comments = 0
             /\ rivals' = rivals \cup {{i, j} : i \in {h \in Jobs : pc[h] = "create"}}
    <3> SUFFICES ASSUME rivals' = {}
                 PROVE  /\ comments' \in {0, 1}
                        /\ \A i, h \in Jobs : pc'[i] = "create" /\ pc'[h] = "create" => i = h
                        /\ \A i \in Jobs : pc'[i] = "create" => comments' = 0
      OBVIOUS
    <3>1. rivals = {} /\ \A h \in Jobs : pc[h] # "create"
      <4>1. \A h \in Jobs : pc[h] = "create" => {h, j} \in rivals'
        BY <2>1
      <4> QED
        BY <2>1, <4>1
    <3>2. comments' = comments
      BY <1>8 DEF Find
    <3> QED
      BY <2>1, <3>1, <3>2
  <2>2. CASE rivals' = rivals /\ \E p \in {"abandon", "discard", "update"} :
                                   pc' = [pc EXCEPT ![j] = p]
    <3>1. comments' = comments /\ \A i \in Jobs : pc'[i] = "create" => pc[i] = "create"
      BY <1>8, <2>2 DEF Find
    <3> QED
      BY <2>2, <3>1
  <2> QED
    BY <1>8, <2>1, <2>2 DEF Find, Throw
<1>9. ASSUME NEW j \in Jobs, Create(j) PROVE CreatorsAreAlone'
  BY <1>9 DEF Create, Throw
<1>10. ASSUME NEW j \in Jobs, Update(j) PROVE CreatorsAreAlone'
  BY <1>10 DEF Update, Throw
<1>11. ASSUME NEW j \in Jobs, Complete(j) PROVE CreatorsAreAlone'
  BY <1>11 DEF Complete
<1>12. ASSUME NEW j \in Jobs, Abandon(j) PROVE CreatorsAreAlone'
  BY <1>12 DEF Abandon, Fail
<1>13. ASSUME NEW j \in Jobs, Crash(j) PROVE CreatorsAreAlone'
  BY <1>13 DEF Crash
<1>14. ASSUME NEW k \in Keys, LeaseExpires(k) PROVE CreatorsAreAlone'
  BY <1>14 DEF LeaseExpires
<1>15. ASSUME NEW k \in Keys, MarkerExpires(k) PROVE CreatorsAreAlone'
  BY <1>15 DEF MarkerExpires
<1>16. CASE UNCHANGED vars
  BY <1>16 DEF vars
<1> QED
  BY <1>1, <1>2, <1>3, <1>4, <1>5, <1>6, <1>7, <1>8,
     <1>9, <1>10, <1>11, <1>12, <1>13, <1>14, <1>15, <1>16 DEF Next, Attempt

-----------------------------------------------------------------------------
(* The invariants *)

THEOREM Inductive == Spec => []IInv
<1>1. IInv /\ [Next]_vars => IInv'
  BY StepKeys, StepAttempts, StepType, StepHolder, StepLeases, StepLost,
     StepWork, StepCreators
  DEF IInv
<1> QED
  BY InitIInv, <1>1, PTL DEF Spec

\* Every variable keeps its type; in particular a job never makes more attempts
\* than BullMQ allows plus one per operator's retry (createQueue, POST
\* /failures/:jobId/retry).
THEOREM TypeCorrect == Spec => []TypeOK
<1>1. IInv => TypeOK
  BY DEF IInv
<1> QED
  BY Inductive, <1>1, PTL

\* An attempt at work loses its lease only to its expiry or to a manual run,
\* never to what another job does (COMPLETE_SCRIPT, ABANDON_SCRIPT).
THEOREM LeaseExcludes == Spec => []HolderKeepsLease
<1>1. IInv => HolderKeepsLease
  BY DEF IInv
<1> QED
  BY Inductive, <1>1, PTL

\* More than one summary comment means that two jobs were about to create one
\* at the same time (postMarkedComment).
THEOREM CommentIsSingle == Spec => []OneSummaryComment
<1>1. IInv => OneSummaryComment
  BY DEF IInv, CreatorsAreAlone, OneSummaryComment
<1> QED
  BY Inductive, <1>1, PTL

\* What a step that adds a complete marker must be.
EarnsMarkers ==
  \A k \in complete' \ complete :
    \E j \in Jobs \ lapsed :
      key[j] = k /\ k \in done /\ pc[j] = "complete" /\ pc'[j] = "completed"

LEMMA OnlyCompleteMarks ==
  ASSUME [Next]_vars, ~(complete' \subseteq complete)
  PROVE  \E j \in Jobs : Complete(j)
<1>1. ASSUME NEW j \in Jobs, Enqueue(j) PROVE complete' \subseteq complete
  BY <1>1 DEF Enqueue, redis
<1>2. ASSUME NEW j \in Jobs, Clear(j) PROVE complete' \subseteq complete
  BY <1>2 DEF Clear, redis
<1>3. ASSUME NEW j \in Jobs, Requeue(j) PROVE complete' \subseteq complete
  BY <1>3 DEF Requeue, redis
<1>4. ASSUME NEW j \in Jobs, Acquire(j) PROVE complete' \subseteq complete
  BY <1>4 DEF Acquire, redis
<1>5. ASSUME NEW j \in Jobs, Skip(j) PROVE complete' \subseteq complete
  BY <1>5 DEF Skip, redis
<1>6. ASSUME NEW j \in Jobs, StoreUnavailable(j) PROVE complete' \subseteq complete
  BY <1>6 DEF StoreUnavailable, redis
<1>7. ASSUME NEW j \in Jobs, Work(j) PROVE complete' \subseteq complete
  BY <1>7 DEF Work, redis
<1>8. ASSUME NEW j \in Jobs, Find(j) PROVE complete' \subseteq complete
  BY <1>8 DEF Find, redis
<1>9. ASSUME NEW j \in Jobs, Create(j) PROVE complete' \subseteq complete
  BY <1>9 DEF Create, redis
<1>10. ASSUME NEW j \in Jobs, Update(j) PROVE complete' \subseteq complete
  BY <1>10 DEF Update, redis
<1>11. ASSUME NEW j \in Jobs, Abandon(j) PROVE complete' \subseteq complete
  BY <1>11 DEF Abandon, redis
<1>12. ASSUME NEW j \in Jobs, Crash(j) PROVE complete' \subseteq complete
  BY <1>12 DEF Crash, redis
<1>13. ASSUME NEW k \in Keys, LeaseExpires(k) PROVE complete' \subseteq complete
  BY <1>13 DEF LeaseExpires, redis
<1>14. ASSUME NEW k \in Keys, MarkerExpires(k) PROVE complete' \subseteq complete
  BY <1>14 DEF MarkerExpires, redis
<1>15. UNCHANGED vars => complete' \subseteq complete
  BY DEF vars, redis
<1> QED
  BY <1>1, <1>2, <1>3, <1>4, <1>5, <1>6, <1>7, <1>8,
     <1>9, <1>10, <1>11, <1>12, <1>13, <1>14, <1>15 DEF Next, Attempt

LEMMA CompleteEarns ==
  ASSUME IInv, NEW j \in Jobs, Complete(j)
  PROVE  EarnsMarkers
<1> SUFFICES ASSUME NEW k \in complete', k \notin complete
             PROVE  j \notin lapsed /\ key[j] = k /\ k \in done
                    /\ pc[j] = "complete" /\ pc'[j] = "completed"
  BY DEF EarnsMarkers
<1>1. Holds(j) /\ complete' = complete \cup {key[j]}
      /\ pc' = [pc EXCEPT ![j] = "completed"]
  BY DEF Complete, redis
<1>2. pc[j] = "complete" /\ pc[j] \in Working
  BY DEF Complete, Working
<1> QED
  BY <1>1, <1>2 DEF IInv, TypeOK, LostIsLost, WorkComesFirst

\* A complete marker appears only when an attempt that did all its work and
\* kept its lease ends (completeOperation).
THEOREM MarkersAreEarned == Spec => MarkerIsEarned
<1>1. ASSUME IInv, [Next]_vars PROVE EarnsMarkers
  <2>1. CASE complete' \subseteq complete
    BY <2>1 DEF EarnsMarkers
  <2>2. CASE ~(complete' \subseteq complete)
    <3>1. PICK j \in Jobs : Complete(j)
      BY <1>1, <2>2, OnlyCompleteMarks
    <3> QED
      BY <1>1, <3>1, CompleteEarns
  <2> QED
    BY <2>1, <2>2
<1>2. IInv /\ [Next]_vars => [EarnsMarkers]_vars
  BY <1>1
<1> QED
  BY Inductive, <1>2, PTL DEF Spec, MarkerIsEarned, EarnsMarkers

-----------------------------------------------------------------------------
(* How a triage can be lost *)

\* A job that can still get its key's triage done, or tells that it did not
Cares(i) == pc[i] \in Working \cup {"waiting", "failed"}

\* NothingIsLost, but for the keys whose lease was left behind by an attempt that
\* ended.
LostByLeftLease ==
  \A k \in Keys \ orphaned :
    LET ofKey == {j \in Jobs : key[j] = k} IN
    ofKey # {} /\ (\A j \in ofKey : pc[j] \in Over)
      => k \in done \/ \E j \in ofKey : pc[j] = "failed"

\* A lease that is not left behind is held by an attempt at work, a marker means
\* that the work was done, and a job of a key that is not done returned because
\* another job cared.
LeasesLive ==
  \A k \in Keys \ orphaned, i \in Jobs : active[k] = i => pc[i] \in Working
SomebodyCares ==
  \A j \in Jobs :
    pc[j] = "completed" /\ key[j] \notin done \cup orphaned =>
      \E i \in Jobs : key[i] = key[j] /\ Cares(i)

LInv == LeasesLive /\ complete \subseteq done /\ SomebodyCares

LEMMA StepLives == IInv /\ LeasesLive /\ [Next]_vars => LeasesLive'
<1> SUFFICES ASSUME IInv, LeasesLive, [Next]_vars PROVE LeasesLive'
  OBVIOUS
<1> USE DEF IInv, TypeOK, redis, queue, history, LeasesLive, LeasesFollowKeys, JobsHaveKeys,
            Holds, Working
<1>1. ASSUME NEW j \in Jobs, Enqueue(j) PROVE LeasesLive'
  BY <1>1 DEF Enqueue
<1>2. ASSUME NEW j \in Jobs, Clear(j) PROVE LeasesLive'
  BY <1>2, KeysAssumption DEF Clear
<1>3. ASSUME NEW j \in Jobs, Requeue(j) PROVE LeasesLive'
  BY <1>3 DEF Requeue
<1>4. ASSUME NEW j \in Jobs, Acquire(j) PROVE LeasesLive'
  BY <1>4 DEF Acquire
<1>5. ASSUME NEW j \in Jobs, Skip(j) PROVE LeasesLive'
  BY <1>5 DEF Skip
<1>6. ASSUME NEW j \in Jobs, StoreUnavailable(j) PROVE LeasesLive'
  BY <1>6 DEF StoreUnavailable, Fail
<1>7. ASSUME NEW j \in Jobs, Work(j) PROVE LeasesLive'
  BY <1>7 DEF Work, Throw
<1>8. ASSUME NEW j \in Jobs, Find(j) PROVE LeasesLive'
  BY <1>8 DEF Find, Throw
<1>9. ASSUME NEW j \in Jobs, Create(j) PROVE LeasesLive'
  BY <1>9 DEF Create, Throw
<1>10. ASSUME NEW j \in Jobs, Update(j) PROVE LeasesLive'
  BY <1>10 DEF Update, Throw
<1>11. ASSUME NEW j \in Jobs, Complete(j) PROVE LeasesLive'
  BY <1>11, KeysAssumption DEF Complete
<1>12. ASSUME NEW j \in Jobs, Abandon(j) PROVE LeasesLive'
  BY <1>12, KeysAssumption DEF Abandon, Fail
<1>13. ASSUME NEW j \in Jobs, Crash(j) PROVE LeasesLive'
  BY <1>13 DEF Crash
<1>14. ASSUME NEW k \in Keys, LeaseExpires(k) PROVE LeasesLive'
  BY <1>14, KeysAssumption DEF LeaseExpires
<1>15. ASSUME NEW k \in Keys, MarkerExpires(k) PROVE LeasesLive'
  BY <1>15 DEF MarkerExpires
<1>16. CASE UNCHANGED vars
  BY <1>16 DEF vars
<1> QED
  BY <1>1, <1>2, <1>3, <1>4, <1>5, <1>6, <1>7, <1>8,
     <1>9, <1>10, <1>11, <1>12, <1>13, <1>14, <1>15, <1>16 DEF Next, Attempt

LEMMA StepMarks ==
  ASSUME IInv, complete \subseteq done, [Next]_vars
  PROVE  complete' \subseteq done'
<1>1. done \subseteq done'
  BY DEF Next, Attempt, Enqueue, Clear, Requeue, Acquire, Skip, StoreUnavailable, Work, Find,
     Create, Update, Complete, Abandon, Crash, LeaseExpires, MarkerExpires, vars, history
<1>2. CASE complete' \subseteq complete
  BY <1>1, <1>2
<1>3. CASE ~(complete' \subseteq complete)
  <2>1. PICK j \in Jobs : Complete(j)
    BY <1>3, OnlyCompleteMarks
  <2>2. key[j] \in done /\ complete' \subseteq complete \cup {key[j]}
    BY <2>1 DEF Complete, IInv, WorkComesFirst, redis
  <2> QED
    BY <1>1, <2>2
<1> QED
  BY <1>2, <1>3

\* Enough for a step of job j: it goes on, is about to be queued, or has been
\* relieved.
LEMMA OneJobCares ==
  ASSUME SomebodyCares, NEW j \in Jobs,
         \A i \in Jobs \ {j} : pc'[i] = pc[i] /\ key'[i] = key[i],
         done \subseteq done', orphaned \subseteq orphaned',
         \/ pc[j] \in {"none", "clear"} /\ pc'[j] # "completed"
         \/ key'[j] = key[j] /\ pc'[j] \in Working \cup {"waiting", "failed"}
         \/ /\ key'[j] = key[j]
            /\ \/ key[j] \in done \cup orphaned
               \/ \E i \in Jobs \ {j} : key[i] = key[j] /\ Cares(i)
  PROVE  SomebodyCares'
<1>1. SUFFICES ASSUME NEW h \in Jobs, pc'[h] = "completed", key'[h] \notin done' \cup orphaned'
               PROVE  \E i \in Jobs : key'[i] = key'[h] /\ Cares(i)'
  BY DEF SomebodyCares
<1>2. CASE h # j
  <2>1. PICK i \in Jobs : key[i] = key[h] /\ Cares(i)
    BY <1>1, <1>2 DEF SomebodyCares
  <2>2. CASE i # j
    BY <1>2, <2>1, <2>2 DEF Cares
  <2>3. CASE i = j
    <3>1. pc[j] \notin {"none", "clear"}
      BY <2>1, <2>3 DEF Cares, Working
    <3> QED
      BY <1>1, <1>2, <2>1, <2>3, <3>1 DEF Cares
  <2> QED
    BY <2>2, <2>3
<1>3. CASE h = j
  BY <1>1, <1>3 DEF Cares, Working
<1> QED
  BY <1>2, <1>3

LEMMA StepCares == IInv /\ LInv /\ [Next]_vars => SomebodyCares'
<1> SUFFICES ASSUME IInv, LInv, [Next]_vars PROVE SomebodyCares'
  OBVIOUS
<1> USE DEF LInv, redis, queue, history
<1>1. TypeOK
  BY DEF IInv
<1>2. ASSUME NEW j \in Jobs, Enqueue(j) PROVE SomebodyCares'
  BY <1>1, <1>2, OneJobCares DEF Enqueue, TypeOK
<1>3. ASSUME NEW j \in Jobs, Clear(j) PROVE SomebodyCares'
  BY <1>1, <1>3, OneJobCares DEF Clear, TypeOK
<1>4. ASSUME NEW j \in Jobs, Requeue(j) PROVE SomebodyCares'
  BY <1>1, <1>4, OneJobCares DEF Requeue, TypeOK
<1>5. ASSUME NEW j \in Jobs, Acquire(j) PROVE SomebodyCares'
  BY <1>1, <1>5, OneJobCares DEF Acquire, TypeOK, Working
<1>6. ASSUME NEW j \in Jobs, Skip(j) PROVE SomebodyCares'
  <2>1. pc[j] = "waiting" /\ key[j] \in Keys
    BY <1>6 DEF Skip, IInv, JobsHaveKeys
  <2>2. \/ key[j] \in done \cup orphaned
        \/ \E i \in Jobs \ {j} : key[i] = key[j] /\ Cares(i)
    <3>1. CASE key[j] \in complete
      BY <3>1
    <3>2. CASE active[key[j]] # None
      <4>1. PICK i \in Jobs : active[key[j]] = i
        BY <1>1, <2>1, <3>2 DEF TypeOK
      <4>2. key[i] = key[j]
        BY <2>1, <4>1 DEF IInv, LeasesFollowKeys
      <4>3. pc[i] \in Working \/ key[j] \in orphaned
        BY <2>1, <4>1 DEF LeasesLive
      <4> QED
        BY <2>1, <4>2, <4>3 DEF Cares, Working
    <3> QED
      BY <1>6, <3>1, <3>2 DEF Skip
  <2>3. /\ \A i \in Jobs \ {j} : pc'[i] = pc[i]
        /\ UNCHANGED <<key, done, orphaned>>
    BY <1>1, <1>6 DEF Skip, TypeOK
  <2> QED
    BY <2>2, <2>3, OneJobCares
<1>7. ASSUME NEW j \in Jobs, StoreUnavailable(j) PROVE SomebodyCares'
  <2>1. orphaned \subseteq orphaned' /\ UNCHANGED done
    BY <1>7 DEF StoreUnavailable
  <2>2. Fail(j)
    BY <1>7 DEF StoreUnavailable
  <2> QED
    BY <1>1, <2>1, <2>2, FailEnds, OneJobCares
<1>8. ASSUME NEW j \in Jobs, Work(j) PROVE SomebodyCares'
  BY <1>1, <1>8, OneJobCares DEF Work, Throw, TypeOK, Working
<1>9. ASSUME NEW j \in Jobs, Find(j) PROVE SomebodyCares'
  BY <1>1, <1>9, OneJobCares DEF Find, Throw, TypeOK, Working
<1>10. ASSUME NEW j \in Jobs, Create(j) PROVE SomebodyCares'
  BY <1>1, <1>10, OneJobCares DEF Create, Throw, TypeOK, Working
<1>11. ASSUME NEW j \in Jobs, Update(j) PROVE SomebodyCares'
  BY <1>1, <1>11, OneJobCares DEF Update, Throw, TypeOK, Working
<1>12. ASSUME NEW j \in Jobs, Complete(j) PROVE SomebodyCares'
  <2>1. key[j] \in done
    BY <1>12 DEF Complete, IInv, WorkComesFirst
  <2> QED
    BY <1>1, <1>12, <2>1, OneJobCares DEF Complete, TypeOK
<1>13. ASSUME NEW j \in Jobs, Abandon(j) PROVE SomebodyCares'
  <2>1. Fail(j) /\ orphaned \subseteq orphaned' /\ UNCHANGED done
    BY <1>13 DEF Abandon
  <2> QED
    BY <1>1, <2>1, FailEnds, OneJobCares
<1>14. ASSUME NEW j \in Jobs, Crash(j) PROVE SomebodyCares'
  BY <1>1, <1>14, OneJobCares DEF Crash, TypeOK
<1>15. CASE UNCHANGED <<pc, key, done, orphaned>>
  BY <1>15 DEF SomebodyCares, Cares
<1>16. (\E k \in Keys : LeaseExpires(k) \/ MarkerExpires(k)) \/ UNCHANGED vars =>
         UNCHANGED <<pc, key, done, orphaned>>
  BY DEF LeaseExpires, MarkerExpires, vars
<1> QED
  BY <1>2, <1>3, <1>4, <1>5, <1>6, <1>7, <1>8, <1>9, <1>10, <1>11, <1>12, <1>13, <1>14, <1>15,
     <1>16 DEF Next, Attempt

\* When every job of a key is over, its triage is done or a job of it is in the
\* failed set, unless an attempt left its lease behind: that is the only way in
\* which what triageWorker and idempotencyService promise of failures comes to
\* nothing (the finding of run triage_lost).  Expired and cleared leases, second
\* deliveries, lost markers and retries by operators lose no triage.
THEOREM OnlyLeftLeasesLose == Spec => []LostByLeftLease
<1>1. Init => LInv
  BY KeysAssumption DEF Init, LInv, LeasesLive, SomebodyCares
<1>2. IInv /\ LInv /\ [Next]_vars => LInv'
  BY StepLives, StepMarks, StepCares DEF LInv
<1>3. IInv /\ LInv => LostByLeftLease
  BY DEF LInv, SomebodyCares, Cares, LostByLeftLease, Working, Over
<1> QED
  BY <1>1, <1>2, <1>3, Inductive, PTL DEF Spec
=============================================================================

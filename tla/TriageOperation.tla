--------------------------- MODULE TriageOperation ---------------------------
(***************************************************************************)
(* Success-bound triage of one target: the jobs of workers/triageWorker.js *)
(* under the Redis leases of services/idempotencyService.js, the marker    *)
(* comments of lib/commentMarkers.js, "/gitwire run" (handleManualRun.js)  *)
(* and the operators' retry (routes/triageOperations.js).                  *)
(*                                                                         *)
(* Several jobs work for one target: GitHub delivers a webhook twice, an   *)
(* edit follows the opening, somebody comments "/gitwire run".  Jobs of    *)
(* one action share an operation key and are kept apart by its lease; all  *)
(* jobs of the target share the summary comment.                           *)
(*                                                                         *)
(* An attempt's token is unique.  The attempts of a job follow one another *)
(* and none starts while the token of an earlier one is in place, so the   *)
(* token is written as its job.                                            *)
(***************************************************************************)
EXTENDS Naturals, FiniteSets

CONSTANTS
  Jobs,         \* BullMQ jobs of the queue "triage" for one target
  Keys,         \* operation keys: one per action
  ManualKeys,   \* those of action manual-run
  MaxAttempts,  \* attempts of a job (3 in compat/queue.js)
  MaxCrashes,   \* bound: processes that die
  MaxRequeues,  \* bound: retries by operators
  None

ASSUME KeysAssumption == ManualKeys \subseteq Keys /\ None \notin Jobs \cup Keys
ASSUME BoundsAssumption ==
  /\ MaxAttempts \in Nat \ {0}
  /\ MaxCrashes \in Nat /\ MaxRequeues \in Nat

VARIABLES
  active,       \* Redis: operation key -> the job whose token is its lease
  complete,     \* Redis: operation keys with a complete marker
  comments,     \* GitHub: comments that carry the target's marker
  pc, key,      \* of each job
  attempts,     \* failed attempts of a job
  stalled,      \* jobs BullMQ delivered again after a process died
  crashes, requeues,
  \* history
  lapsed,       \* working jobs whose lease expired or was cleared
  done,         \* keys for which an attempt got to the end of its work
  orphaned,     \* keys whose lease was left behind by an attempt that ended
  rivals        \* pairs of jobs that were both about to create the comment

redis == <<active, complete>>
queue == <<key, attempts, stalled, crashes, requeues>>
history == <<lapsed, done, orphaned, rivals>>
vars == <<redis, comments, pc, queue, history>>

Working == {"work", "find", "create", "update", "complete", "abandon", "discard"}
Over == {"completed", "failed"}

Holds(j) == active[key[j]] = j

-----------------------------------------------------------------------------
(* Where jobs come from *)

\* A webhook (opened, reopened, edited) queues a job; "/gitwire run" first
\* clears its key.
Enqueue(j) ==
  /\ pc[j] = "none"
  /\ \E k \in Keys :
       /\ key' = [key EXCEPT ![j] = k]
       /\ pc' = [pc EXCEPT ![j] = IF k \in ManualKeys THEN "clear" ELSE "waiting"]
  /\ UNCHANGED <<redis, comments, attempts, stalled, crashes, requeues, history>>

\* clearTriageOperation: DEL active, complete; an error ends the command.
Clear(j) ==
  LET k == key[j] IN
  /\ pc[j] = "clear"
  /\ \/ /\ active' = [active EXCEPT ![k] = None]
        /\ complete' = complete \ {k}
        /\ lapsed' = lapsed \cup {i \in Jobs : pc[i] \in Working /\ active[k] = i}
        /\ pc' = [pc EXCEPT ![j] = "waiting"]
     \/ pc' = [pc EXCEPT ![j] = "none"] /\ UNCHANGED <<redis, lapsed>>
  /\ UNCHANGED <<comments, queue, done, orphaned, rivals>>

\* POST /failures/:jobId/retry: a failed job whose key is not complete.  The
\* attempts it made still count.
Requeue(j) ==
  /\ pc[j] = "failed" /\ requeues < MaxRequeues
  /\ key[j] \notin complete
  /\ pc' = [pc EXCEPT ![j] = "waiting"]
  /\ requeues' = requeues + 1
  /\ UNCHANGED <<redis, comments, key, attempts, stalled, crashes, history>>

\* Mutant: BullMQ never gives up.
FailForever(j) ==
  /\ attempts' = [attempts EXCEPT ![j] = @ + 1]
  /\ pc' = [pc EXCEPT ![j] = IF pc[j] # "discard" THEN "waiting" ELSE "failed"]
  /\ UNCHANGED <<key, stalled, crashes, requeues>>

\* BullMQ: an attempt that threw is tried again until its job has used its
\* attempts up or the worker has discarded it.
Fail(j) ==
  /\ attempts' = [attempts EXCEPT ![j] = @ + 1]
  /\ pc' = [pc EXCEPT ![j] =
              IF pc[j] # "discard" /\ attempts'[j] < MaxAttempts THEN "waiting" ELSE "failed"]
  /\ UNCHANGED <<key, stalled, crashes, requeues>>

-----------------------------------------------------------------------------
(* triageIssue *)

\* beginOperation takes the lease, ...
Acquire(j) ==
  /\ pc[j] = "waiting"
  /\ active[key[j]] = None /\ key[j] \notin complete
  /\ active' = [active EXCEPT ![key[j]] = j]
  /\ lapsed' = lapsed \ {j}
  /\ pc' = [pc EXCEPT ![j] = "work"]
  /\ UNCHANGED <<complete, comments, queue, done, orphaned, rivals>>

\* ... or finds it taken or the key complete, and the job returns, ...
Skip(j) ==
  /\ pc[j] = "waiting"
  /\ active[key[j]] # None \/ key[j] \in complete
  /\ pc' = [pc EXCEPT ![j] = "completed"]
  /\ UNCHANGED <<redis, comments, queue, history>>

\* ... or throws, and the script may have run before the error.
StoreUnavailable(j) ==
  /\ pc[j] = "waiting"
  /\ \/ UNCHANGED <<active, orphaned>>
     \/ /\ active[key[j]] = None /\ key[j] \notin complete
        /\ active' = [active EXCEPT ![key[j]] = j]
        /\ orphaned' = orphaned \cup {key[j]}
  /\ Fail(j)
  /\ UNCHANGED <<complete, comments, lapsed, done, rivals>>

\* An error goes to the catch block; BullMQ will not repeat the job when the
\* LLM or GitHub refused our credentials.
Throw(j) == \E p \in {"abandon", "discard"} : pc' = [pc EXCEPT ![j] = p]

\* Configuration, waiver, LLM call, labels, saveTriage, decision log.  A skip
\* and a repository without summary comments need no comment.
Work(j) ==
  /\ pc[j] = "work"
  /\ \/ pc' = [pc EXCEPT ![j] = "find"] /\ UNCHANGED done
     \/ pc' = [pc EXCEPT ![j] = "complete"] /\ done' = done \cup {key[j]}
     \/ Throw(j) /\ UNCHANGED done
  /\ UNCHANGED <<redis, comments, queue, lapsed, orphaned, rivals>>

\* Mutant: the marker is never found.
FindNothing(j) ==
  /\ pc[j] = "find"
  /\ pc' = [pc EXCEPT ![j] = "create"]
  /\ rivals' = rivals \cup {{i, j} : i \in {h \in Jobs : pc[h] = "create"}}
  /\ UNCHANGED <<redis, comments, queue, lapsed, done, orphaned>>

\* findCommentByMarker: none is created, one is updated, more block the job.
Find(j) ==
  /\ pc[j] = "find"
  /\ \/ Throw(j) /\ UNCHANGED rivals
     \/ /\ comments = 0
        /\ pc' = [pc EXCEPT ![j] = "create"]
        /\ rivals' = rivals \cup {{i, j} : i \in {h \in Jobs : pc[h] = "create"}}
     \/ comments = 1 /\ pc' = [pc EXCEPT ![j] = "update"] /\ UNCHANGED rivals
     \/ comments > 1 /\ pc' = [pc EXCEPT ![j] = "abandon"] /\ UNCHANGED rivals
  /\ UNCHANGED <<redis, comments, queue, lapsed, done, orphaned>>

\* POST or PATCH, then the managed action of the comment: the comment may be
\* there although the attempt fails.
Create(j) ==
  /\ pc[j] = "create"
  /\ \/ /\ comments' = comments + 1
        /\ pc' = [pc EXCEPT ![j] = "complete"]
        /\ done' = done \cup {key[j]}
     \/ comments' \in {comments, comments + 1} /\ Throw(j) /\ UNCHANGED done
  /\ UNCHANGED <<redis, queue, lapsed, orphaned, rivals>>

Update(j) ==
  /\ pc[j] = "update"
  /\ \/ pc' = [pc EXCEPT ![j] = "complete"] /\ done' = done \cup {key[j]}
     \/ Throw(j) /\ UNCHANGED done
  /\ UNCHANGED <<redis, comments, queue, lapsed, orphaned, rivals>>

\* Mutant: COMPLETE_SCRIPT without the token.
CompleteAnyLease(j) ==
  /\ pc[j] = "complete"
  /\ \/ /\ complete' = complete \cup {key[j]}
        /\ active' = [active EXCEPT ![key[j]] = None]
        /\ pc' = [pc EXCEPT ![j] = "completed"]
     \/ pc' = [pc EXCEPT ![j] = "abandon"] /\ UNCHANGED redis
  /\ UNCHANGED <<comments, queue, history>>

\* completeOperation: only the holder of the lease writes the marker; the job
\* ends whatever the answer, unless Redis fails.
Complete(j) ==
  /\ pc[j] = "complete"
  /\ \/ /\ Holds(j)
        /\ complete' = complete \cup {key[j]}
        /\ active' = [active EXCEPT ![key[j]] = None]
        /\ pc' = [pc EXCEPT ![j] = "completed"]
     \/ ~Holds(j) /\ pc' = [pc EXCEPT ![j] = "completed"] /\ UNCHANGED redis
     \/ pc' = [pc EXCEPT ![j] = "abandon"] /\ UNCHANGED redis
  /\ UNCHANGED <<comments, queue, history>>

\* Mutant: the catch block leaves the lease in place.
AbandonKeepsLease(j) ==
  /\ pc[j] \in {"abandon", "discard"}
  /\ Fail(j)
  /\ UNCHANGED <<redis, comments, history>>

\* Mutant: ABANDON_SCRIPT without the token.
AbandonAnyLease(j) ==
  /\ pc[j] \in {"abandon", "discard"}
  /\ active' = [active EXCEPT ![key[j]] = None]
  /\ Fail(j)
  /\ UNCHANGED <<complete, comments, history>>

\* The catch block: abandonOperation releases the job's own lease; an error of
\* Redis is logged and the lease stays.
Abandon(j) ==
  /\ pc[j] \in {"abandon", "discard"}
  /\ \/ /\ active' = [active EXCEPT ![key[j]] = IF Holds(j) THEN None ELSE @]
        /\ UNCHANGED orphaned
     \/ /\ orphaned' = IF Holds(j) THEN orphaned \cup {key[j]} ELSE orphaned
        /\ UNCHANGED active
  /\ Fail(j)
  /\ UNCHANGED <<complete, comments, lapsed, done, rivals>>

-----------------------------------------------------------------------------
(* Time and crashes *)

\* The lease's two minutes pass; nothing renews it while the job works.
LeaseExpires(k) ==
  /\ active[k] # None
  /\ lapsed' = lapsed \cup {j \in Jobs : pc[j] \in Working /\ active[k] = j}
  /\ active' = [active EXCEPT ![k] = None]
  /\ UNCHANGED <<complete, comments, pc, queue, done, orphaned, rivals>>

\* The marker's hour passes.
MarkerExpires(k) ==
  /\ k \in complete
  /\ complete' = complete \ {k}
  /\ UNCHANGED <<active, comments, pc, queue, history>>

\* The process dies in an attempt.  BullMQ finds the job stalled after 30 s
\* and delivers it again, once (maxStalledCount).
Crash(j) ==
  /\ pc[j] \in Working /\ crashes < MaxCrashes
  /\ crashes' = crashes + 1
  /\ stalled' = stalled \cup {j}
  /\ pc' = [pc EXCEPT ![j] = IF j \in stalled THEN "failed" ELSE "waiting"]
  /\ comments' \in IF pc[j] = "create" THEN {comments, comments + 1} ELSE {comments}
  /\ orphaned' = IF Holds(j) THEN orphaned \cup {key[j]} ELSE orphaned
  /\ UNCHANGED <<redis, key, attempts, requeues, lapsed, done, rivals>>

-----------------------------------------------------------------------------
Init ==
  /\ active = [k \in Keys |-> None] /\ complete = {}
  /\ comments = 0
  /\ pc = [j \in Jobs |-> "none"]
  /\ key = [j \in Jobs |-> None]
  /\ attempts = [j \in Jobs |-> 0]
  /\ stalled = {} /\ crashes = 0 /\ requeues = 0
  /\ lapsed = {} /\ done = {} /\ orphaned = {} /\ rivals = {}

Attempt(j) ==
  \/ Acquire(j) \/ Skip(j) \/ StoreUnavailable(j) \/ Work(j) \/ Find(j)
  \/ Create(j) \/ Update(j) \/ Complete(j) \/ Abandon(j)

Next ==
  \/ \E j \in Jobs : Enqueue(j) \/ Clear(j) \/ Requeue(j) \/ Attempt(j) \/ Crash(j)
  \/ \E k \in Keys : LeaseExpires(k) \/ MarkerExpires(k)

\* A queued job is delivered and its attempt runs on; leases need not expire.
Spec == Init /\ [][Next]_vars
FairSpec == Spec /\ \A j \in Jobs : WF_vars(Attempt(j))
-----------------------------------------------------------------------------
(* Properties *)

TypeOK ==
  /\ active \in [Keys -> Jobs \cup {None}] /\ complete \subseteq Keys
  /\ comments \in Nat
  /\ pc \in [Jobs -> Working \cup Over \cup {"none", "clear", "waiting"}]
  /\ key \in [Jobs -> Keys \cup {None}]
  /\ attempts \in [Jobs -> 0..(MaxAttempts + MaxRequeues)]
  /\ stalled \subseteq Jobs
  /\ crashes \in 0..MaxCrashes /\ requeues \in 0..MaxRequeues
  /\ lapsed \subseteq Jobs /\ done \subseteq Keys /\ orphaned \subseteq Keys
  /\ rivals \subseteq SUBSET Jobs

\* An attempt at work keeps its lease until the lease expires or a manual run
\* clears it: no other job's failure or success takes it away, so two jobs of
\* one key work at once only after that (abandonOperation, completeOperation).
HolderKeepsLease ==
  \A j \in Jobs : pc[j] \in Working => Holds(j) \/ j \in lapsed

\* The complete marker appears only when an attempt that did all its work, and
\* never lost its lease on the way, ends (completeOperation as race arbiter).
MarkerIsEarned ==
  [][\A k \in complete' \ complete :
       \E j \in Jobs \ lapsed :
         key[j] = k /\ k \in done /\ pc[j] = "complete" /\ pc'[j] = "completed"]_vars

\* The target gets a second summary comment only from two jobs that were about
\* to create one at the same time; a retry, a lost answer or a crash after the
\* POST never adds one (postMarkedComment).
OneSummaryComment == comments > 1 => rivals # {}

\* A queued job is answered: its key's triage gets done or a job of the key
\* fails where an operator sees it, unless a lease was left behind.
TriageIsAnswered ==
  \A j \in Jobs, k \in Keys :
    (pc[j] = "waiting" /\ key[j] = k)
      ~> \/ k \in done \cup orphaned
         \/ \E i \in Jobs : pc[i] = "failed" /\ key[i] = k

\* "failures release the active lease so retries can proceed" (triageWorker)
\* and "the exhaustion stays visible as a retained failed job"
\* (idempotencyService): when every job of a key is over, its triage is done
\* or some job of it is in the failed set.
NothingIsLost ==
  \A k \in Keys :
    LET ofKey == {j \in Jobs : key[j] = k} IN
    ofKey # {} /\ (\A j \in ofKey : pc[j] \in Over)
      => k \in done \/ \E j \in ofKey : pc[j] = "failed"
=============================================================================

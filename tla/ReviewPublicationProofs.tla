---------------------- MODULE ReviewPublicationProofs ----------------------
(***************************************************************************)
(* Proofs about ReviewPublication, for any number of jobs, attempts,       *)
(* retries and lost locks.                                                 *)
(***************************************************************************)
EXTENDS ReviewPublication, TLAPS

-----------------------------------------------------------------------------
(* The inductive invariant *)

Pcs == {"idle", "start", "check", "mark", "peek", "upsert", "lookup", "adopt", "release",
        "model", "head", "claim", "lost", "post", "undelivered", "persist", "resolve",
        "conclude"}
Rows == [state : States, review : Nat, superseded : BOOLEAN, retryable : BOOLEAN]

\* Everything but the queue and the slots has its type.
DataFits ==
  /\ row \in Rows /\ stale \in BOOLEAN /\ reviews \in Nat
  /\ check \in [Hooks -> Conclusions \cup {"queued"}]
  /\ outcome \in [Hooks -> Conclusions \cup {None}]
  /\ pointer \in Hooks \cup {None}
  /\ marked \in BOOLEAN /\ comments \in BOOLEAN
  /\ moved \in BOOLEAN /\ missed \in BOOLEAN /\ notices \in Nat
  /\ sync \in {"none", "queued", "lookup", "notice", "mark", "done", "failed"}
  /\ slow \in BOOLEAN /\ unanswered \in BOOLEAN /\ suppressed \in BOOLEAN

\* A lock is held by the slot that works on the job, a job that may still run has
\* an attempt left, and an attempt that concludes has a conclusion.
QueueFits ==
  /\ job \in [Jobs -> {"absent", "waiting", "active", "completed", "failed"}]
  /\ attempts \in [Jobs -> 0..MaxAttempts] /\ lost \subseteq Jobs \X {1, 2}
  /\ owner \in [Jobs -> Slots \cup {None}]
  /\ pc \in [Slots -> Pcs] /\ task \in [Slots -> Jobs \cup {None}]
  /\ own \in [Slots -> Nat] /\ answer \in [Slots -> Conclusions \cup {None}]
  /\ target \in [Slots -> Hooks \cup {None}]
  /\ \A j \in Jobs :
       /\ owner[j] # None =>
            job[j] = "active" /\ pc[owner[j]] # "idle" /\ task[owner[j]] = j
       /\ job[j] \in {"absent", "waiting", "active"} => attempts[j] < MaxAttempts
  /\ \A w \in Slots :
       /\ pc[w] # "idle" => task[w] \in Jobs
       /\ pc[w] \in {"resolve", "conclude"} => answer[w] \in Conclusions

\* What an attempt amid a publication knows of GitHub's reviews
FitsSlot(w) ==
  /\ Publishing(w) => (row.state = "submitting" /\ ~stale) \/ row.state = "published"
  /\ pc[w] = "post" => reviews = 0
  /\ pc[w] = "persist" => own[w] = reviews
  /\ pc[w] = "undelivered" => reviews = 0 \/ unanswered
  /\ pc[w] = "adopt" => reviews = 1
  /\ pc[w] = "release" /\ row.state = "submitting" /\ stale => reviews = 0

\* One attempt publishes at a time, the claim is fresh while it does, and an old
\* claim is released only where there is no review.
ClaimIsHeld ==
  ~slow =>
    /\ \A w \in Slots : FitsSlot(w)
    /\ \A v, w \in Slots : Publishing(v) /\ Publishing(w) => v = w

\* Once the supersession job is past its look at the row, the row is published and
\* stays so, or nobody can publish for the head any more.
SyncIsAware ==
  /\ ~moved => sync = "none"
  /\ ~slow /\ ~missed =>
       /\ sync \in {"lookup", "notice", "mark"} => row.state = "published"
       /\ sync = "done" =>
            \/ row.state = "published" /\ row.superseded
            \/ /\ row.state \notin {"published", "submitting"}
               /\ \A w \in Slots : pc[w] \notin {"claim", "persist", "lookup", "adopt"}

\* A review is there, or need not be
Covered == reviews > 0 \/ ~comments \/ suppressed

\* The conclusion "review" is given, kept or applied only where it is covered.
ReviewsAreCovered ==
  /\ row.state = "published" => reviews > 0
  /\ \A w \in Slots :
       /\ own[w] <= reviews
       /\ pc[w] = "adopt" => reviews > 0
       /\ pc[w] = "persist" /\ own[w] = 0 => ~comments
       /\ answer[w] = "review" => Covered
  /\ \A h \in Hooks : check[h] = "review" \/ outcome[h] = "review" => Covered

TInv == DataFits /\ QueueFits
IInv == TInv /\ StateTellsPublication /\ ClaimIsHeld /\ SyncIsAware /\ ReviewsAreCovered

-----------------------------------------------------------------------------
(* What the moves of a slot do *)

SameOthers(w) ==
  \A v \in Slots \ {w} : pc'[v] = pc[v] /\ own'[v] = own[v] /\ answer'[v] = answer[v]

\* w goes on to l.
Went(w, l) == QueueFits' /\ SameOthers(w) /\ pc'[w] = l /\ own'[w] = own[w] /\ answer'[w] = answer[w]

\* w's work on the review is over; a is its conclusion, if it has one.
Ended(w, a) ==
  /\ QueueFits' /\ SameOthers(w)
  /\ pc'[w] \in {"idle", "resolve", "conclude"} /\ own'[w] \in {0, own[w]}
  /\ answer'[w] \in {a, None}

LEMMA GoToFits ==
  ASSUME QueueFits, NEW w \in Slots, pc[w] # "idle",
         NEW l \in Pcs \ {"idle", "resolve", "conclude"}, GoTo(w, l)
  PROVE  Went(w, l)
<1>1. pc' = [pc EXCEPT ![w] = l] /\ UNCHANGED <<task, own, answer, target, job, attempts, lost, owner>>
  BY DEF GoTo, queue
<1>2. pc' \in [Slots -> Pcs]
  BY <1>1 DEF QueueFits
<1>3. \A v \in Slots : pc'[v] = IF v = w THEN l ELSE pc[v]
  BY <1>1 DEF QueueFits
<1>4. QueueFits'
  BY <1>1, <1>2, <1>3 DEF QueueFits
<1> QED
  BY <1>1, <1>3, <1>4 DEF Went, SameOthers

LEMMA ReturnFits ==
  ASSUME QueueFits, NEW w \in Slots, pc[w] # "idle", Return(w), NEW a
  PROVE  Ended(w, a)
BY NoneAssumption DEF QueueFits, Return, Leave, Free, Ended, SameOthers, Pcs

LEMMA ThrowFits ==
  ASSUME QueueFits, NEW w \in Slots, pc[w] # "idle", Throw(w), NEW a
  PROVE  Ended(w, a)
<1>1. PICK j \in Jobs : j = task[w]
  BY DEF QueueFits
<1>2. \A i \in Jobs : owner[i] = w => i = j
  BY <1>1, NoneAssumption DEF QueueFits
<1>3. attempts' \in [Jobs -> 0..MaxAttempts]
  BY <1>1, NoneAssumption, BoundsAssumption DEF QueueFits, Throw
<1>4. PICK s \in {"waiting", "failed"} :
        /\ s = "waiting" => attempts[j] + 1 < MaxAttempts
        /\ Leave(w, s)
  BY <1>1 DEF Throw
<1>5. \A i \in Jobs : attempts'[i] = IF owner[j] = w /\ i = j THEN attempts[j] + 1 ELSE attempts[i]
  BY <1>1 DEF QueueFits, Throw
<1>6. \A i \in Jobs : job'[i] = (IF owner[i] = w THEN s ELSE job[i])
                      /\ owner'[i] = (IF owner[i] = w THEN None ELSE owner[i])
  BY <1>4 DEF Leave
<1>7. /\ job' \in [Jobs -> {"absent", "waiting", "active", "completed", "failed"}]
      /\ owner' \in [Jobs -> Slots \cup {None}] /\ lost' = lost
  BY <1>4 DEF QueueFits, Leave
<1>8. \A i \in Jobs : job'[i] \in {"absent", "waiting", "active"} => attempts'[i] < MaxAttempts
  BY <1>2, <1>4, <1>5, <1>6 DEF QueueFits
<1>9. Free(w)
  BY <1>4 DEF Leave
<1>10. \A i \in Jobs : owner'[i] # None =>
         job'[i] = "active" /\ pc'[owner'[i]] # "idle" /\ task'[owner'[i]] = i
  BY <1>6, <1>9 DEF QueueFits, Free
<1>11. QueueFits'
  BY <1>3, <1>7, <1>8, <1>9, <1>10 DEF QueueFits, Free, Pcs
<1> QED
  BY <1>9, <1>11 DEF QueueFits, Free, Ended, SameOthers

LEMMA ConcludeFits ==
  ASSUME QueueFits, NEW w \in Slots, pc[w] # "idle", NEW a \in Conclusions, Conclude(w, a)
  PROVE  Ended(w, a)
<1>1. PICK l \in {"resolve", "conclude"} :
        pc' = [pc EXCEPT ![w] = l] /\ answer' = [answer EXCEPT ![w] = a]
  BY DEF Conclude
<1>2. UNCHANGED <<task, own, target, job, attempts, lost, owner>>
  BY DEF Conclude, queue
<1>3. pc' \in [Slots -> Pcs] /\ answer' \in [Slots -> Conclusions \cup {None}]
  BY <1>1 DEF QueueFits, Pcs
<1>4. \A v \in Slots : /\ pc'[v] = IF v = w THEN l ELSE pc[v]
                       /\ answer'[v] = IF v = w THEN a ELSE answer[v]
  BY <1>1 DEF QueueFits
<1>5. QueueFits'
  BY <1>2, <1>3, <1>4 DEF QueueFits
<1> QED
  BY <1>2, <1>4, <1>5 DEF Ended, SameOthers

LEMMA AnswerFits ==
  ASSUME QueueFits, NEW w \in Slots, pc[w] # "idle", NEW a \in Conclusions, Answer(w, a)
  PROVE  Ended(w, a)
BY ReturnFits, ConcludeFits DEF Answer

LEMMA RaiseFits ==
  ASSUME QueueFits, NEW w \in Slots, pc[w] # "idle", NEW transient, Raise(w, transient)
  PROVE  Ended(w, "error")
BY ReturnFits, ThrowFits, ConcludeFits DEF Raise, Conclusions

-----------------------------------------------------------------------------
(* Steps that change nothing the publication depends on *)

\* Of the row, only what is superseded or retryable changes; a check may be given
\* a conclusion that is covered.
CalmData ==
  /\ DataFits'
  /\ row'.state = row.state /\ row'.review = row.review
  /\ row.superseded => row'.superseded
  /\ UNCHANGED <<stale, reviews, slow, comments, moved, sync, missed, unanswered>>
  /\ suppressed => suppressed'
  /\ \A h \in Hooks : check'[h] = "review" \/ outcome'[h] = "review" => Covered'

\* Enough for a step of slot w that does not leave it amid a publication.
LEMMA CalmKeeps ==
  ASSUME IInv, CalmData, QueueFits', NEW w \in Slots, SameOthers(w),
         own'[w] <= reviews, answer'[w] = "review" => Covered',
         pc'[w] \notin {"post", "persist", "undelivered"},
         pc'[w] = "adopt" => reviews = 1,
         pc'[w] = "release" => reviews = 0,
         pc'[w] \in {"claim", "lookup", "adopt"} =>
           ~moved \/ row.state = "submitting" \/ pc[w] \in {"claim", "lookup", "adopt"}
  PROVE  IInv'
<1>1. StateTellsPublication'
  BY DEF IInv, CalmData, StateTellsPublication
<1>2. ClaimIsHeld'
  BY DEF IInv, CalmData, ClaimIsHeld, SameOthers, FitsSlot, Publishing
<1>3. SyncIsAware'
  BY DEF IInv, TInv, DataFits, CalmData, SyncIsAware, SameOthers
<1>4. ReviewsAreCovered'
  BY DEF IInv, CalmData, ReviewsAreCovered, SameOthers, Covered
<1> QED
  BY <1>1, <1>2, <1>3, <1>4 DEF IInv, TInv, CalmData

LEMMA CalmEnd ==
  ASSUME IInv, CalmData, NEW w \in Slots, NEW a, Ended(w, a), a = "review" => Covered'
  PROVE  IInv'
<1>1. own'[w] <= reviews
  BY DEF IInv, TInv, DataFits, Ended, ReviewsAreCovered
<1>2. answer'[w] = "review" => Covered'
  BY NoneAssumption DEF Ended, Conclusions
<1> QED
  BY <1>1, <1>2, CalmKeeps DEF Ended

LEMMA CalmGo ==
  ASSUME IInv, CalmData, NEW w \in Slots, NEW l, Went(w, l),
         l \notin {"post", "persist", "undelivered"},
         l = "adopt" => reviews = 1,
         l = "release" => reviews = 0,
         l \in {"claim", "lookup", "adopt"} =>
           ~moved \/ row.state = "submitting" \/ pc[w] \in {"claim", "lookup", "adopt"}
  PROVE  IInv'
<1>1. own'[w] <= reviews
  BY DEF IInv, Went, ReviewsAreCovered
<1>2. answer'[w] = "review" => Covered'
  BY DEF IInv, CalmData, Went, ReviewsAreCovered, Covered
<1> QED
  BY <1>1, <1>2, CalmKeeps DEF Went

-----------------------------------------------------------------------------
(* The queue, the clock and the push *)

\* A step in which no slot moves
LEMMA StillKeeps ==
  ASSUME IInv, CalmData, QueueFits', UNCHANGED slots
  PROVE  IInv'
<1>1. StateTellsPublication'
  BY DEF IInv, CalmData, StateTellsPublication
<1>2. ClaimIsHeld'
  BY DEF IInv, CalmData, ClaimIsHeld, slots, FitsSlot, Publishing
<1>3. SyncIsAware'
  BY DEF IInv, TInv, DataFits, CalmData, SyncIsAware, slots
<1>4. ReviewsAreCovered'
  BY DEF IInv, CalmData, ReviewsAreCovered, slots, Covered
<1> QED
  BY <1>1, <1>2, <1>3, <1>4 DEF IInv, TInv, CalmData

\* Checks, the row and GitHub as they were, but for the key and the pointer
LEMMA SameDataIsCalm ==
  ASSUME IInv, marked' \in BOOLEAN, pointer' \in Hooks \cup {None},
         UNCHANGED <<row, stale, reviews, check, outcome, comments, moved, sync, notices,
                     missed, slow, unanswered, suppressed>>
  PROVE  CalmData
BY DEF IInv, TInv, DataFits, CalmData, ReviewsAreCovered, Covered

LEMMA QueueKeeps ==
  ASSUME IInv, NEW j \in Jobs, Queue(j)
  PROVE  IInv'
<1>1. QueueFits'
  BY DEF IInv, TInv, QueueFits, Queue, slots
<1>2. pointer' \in Hooks \cup {None} /\ marked' \in BOOLEAN
  BY DEF IInv, TInv, DataFits, Queue
<1>3. CalmData
  BY <1>2, SameDataIsCalm DEF Queue, push, history
<1> QED
  BY <1>1, <1>3, StillKeeps DEF Queue

LEMMA TakeKeeps ==
  ASSUME IInv, NEW j \in Jobs, NEW w \in Slots, Take(w, j)
  PROVE  IInv'
<1>1. PICK l \in {"upsert", "start"} : pc' = [pc EXCEPT ![w] = l]
  BY DEF Take
<1>2. PICK h \in Hooks \cup {None} : target' = [target EXCEPT ![w] = h]
  BY DEF Take
<1>3. QueueFits'
  <2>1. \A i \in Jobs : owner[i] # w
    BY NoneAssumption DEF IInv, TInv, QueueFits, Take
  <2>2. /\ pc' \in [Slots -> Pcs] /\ task' \in [Slots -> Jobs \cup {None}]
        /\ target' \in [Slots -> Hooks \cup {None}]
    BY <1>1, <1>2 DEF IInv, TInv, QueueFits, Take, Pcs
  <2>3. /\ job' \in [Jobs -> {"absent", "waiting", "active", "completed", "failed"}]
        /\ owner' \in [Jobs -> Slots \cup {None}]
    BY DEF IInv, TInv, QueueFits, Take
  <2>4. \A i \in Jobs :
          /\ owner'[i] # None =>
               job'[i] = "active" /\ pc'[owner'[i]] # "idle" /\ task'[owner'[i]] = i
          /\ job'[i] \in {"absent", "waiting", "active"} => attempts[i] < MaxAttempts
    BY <1>1, <2>1 DEF IInv, TInv, QueueFits, Take
  <2> QED
    BY <1>1, <2>2, <2>3, <2>4 DEF IInv, TInv, QueueFits, Take
<1>4. CalmData
  BY SameDataIsCalm DEF IInv, TInv, DataFits, Take, checks, push, history
<1>5. Went(w, l)
  BY <1>1, <1>3 DEF IInv, TInv, QueueFits, Went, SameOthers, Take
<1> QED
  BY <1>4, <1>5, CalmGo

LEMMA LoseLockKeeps ==
  ASSUME IInv, NEW j \in Jobs, LoseLock(j)
  PROVE  IInv'
<1>1. PICK w \in Slots : w = owner[j]
  BY DEF IInv, TInv, QueueFits, LoseLock
<1>2. \A i \in Jobs : owner'[i] # None => owner[i] # w /\ owner'[i] = owner[i] /\ job'[i] = job[i]
  BY <1>1 DEF IInv, TInv, QueueFits, LoseLock
<1>3. /\ job' \in [Jobs -> {"absent", "waiting", "active", "completed", "failed"}]
      /\ owner' \in [Jobs -> Slots \cup {None}] /\ lost' \subseteq Jobs \X {1, 2}
      /\ \A i \in Jobs : job'[i] \in {"absent", "waiting", "active"} => attempts[i] < MaxAttempts
  BY <1>1 DEF IInv, TInv, QueueFits, LoseLock
<1>4. CalmData
  BY SameDataIsCalm DEF IInv, TInv, DataFits, LoseLock, checks, push, history
<1>5. CASE UNCHANGED slots
  <2>1. QueueFits'
    BY <1>2, <1>3, <1>5 DEF IInv, TInv, QueueFits, LoseLock, slots
  <2> QED
    BY <1>4, <1>5, <2>1, StillKeeps
<1>6. CASE Free(w)
  <2>1. QueueFits'
    BY <1>2, <1>3, <1>6 DEF IInv, TInv, QueueFits, LoseLock, Free, Pcs
  <2>2. Ended(w, None)
    BY <1>6, <2>1 DEF IInv, TInv, QueueFits, Free, Ended, SameOthers
  <2> QED
    BY <1>4, <2>2, CalmEnd, NoneAssumption DEF Conclusions
<1> QED
  BY <1>1, <1>5, <1>6 DEF LoseLock, Free

\* Whoever rests amid a publication for ten minutes is remembered.
LEMMA AgeKeeps ==
  ASSUME IInv, Age
  PROVE  IInv'
<1>1. TInv'
  BY DEF IInv, TInv, DataFits, QueueFits, Age, checks, push, queue, slots
<1>2. ~slow' => ~slow /\ \A w \in Slots : ~Rests(w)
  BY DEF Age
<1>3. StateTellsPublication'
  BY <1>2 DEF IInv, Age, StateTellsPublication
<1>4. ClaimIsHeld'
  BY <1>2 DEF IInv, Age, slots, ClaimIsHeld, FitsSlot, Publishing, Rests
<1>5. SyncIsAware'
  BY <1>2 DEF IInv, Age, slots, push, SyncIsAware
<1>6. ReviewsAreCovered'
  BY DEF IInv, Age, slots, checks, ReviewsAreCovered, Covered
<1> QED
  BY <1>1, <1>3, <1>4, <1>5, <1>6 DEF IInv

LEMMA PushKeeps ==
  ASSUME IInv, Push
  PROVE  IInv'
<1>1. TInv'
  BY DEF IInv, TInv, DataFits, QueueFits, Push, Unsynced, checks, queue, slots, history
<1>2. StateTellsPublication' /\ ClaimIsHeld'
  BY DEF IInv, Push, Unsynced, slots, history, StateTellsPublication, ClaimIsHeld, FitsSlot,
         Publishing
<1>3. SyncIsAware'
  BY DEF Push, SyncIsAware
<1>4. ReviewsAreCovered'
  BY DEF IInv, Push, Unsynced, slots, checks, history, ReviewsAreCovered, Covered
<1> QED
  BY <1>1, <1>2, <1>3, <1>4 DEF IInv

\* The supersession job: it writes nothing but the mark.
LEMMA SyncKeeps ==
  ASSUME IInv, Sync
  PROVE  IInv'
<1>1. /\ row'.state = row.state /\ row'.review = row.review
      /\ row' = row \/ row' = [row EXCEPT !.superseded = TRUE, !.retryable = FALSE]
  BY DEF IInv, TInv, DataFits, Rows, Sync, SyncSelect, SyncLookup, SyncNotice, SyncMark
<1>2. row' \in Rows /\ (row.superseded => row'.superseded)
  BY <1>1 DEF IInv, TInv, DataFits, Rows
<1>3. UNCHANGED <<stale, reviews, check, outcome, pointer, marked, comments, moved,
                  job, attempts, lost, owner, pc, task, own, answer, target,
                  slow, unanswered, suppressed>>
  BY DEF Sync, SyncSelect, SyncLookup, SyncNotice, SyncMark, Unsynced, checks, queue, slots,
         history
<1>4. QueueFits'
  BY <1>3 DEF IInv, TInv, QueueFits
<1>5. /\ sync' \in {"none", "queued", "lookup", "notice", "mark", "done", "failed"}
      /\ missed' \in BOOLEAN /\ notices' \in Nat
  <2>1. CASE SyncSelect
    BY <2>1 DEF IInv, TInv, DataFits, SyncSelect, Resync, UnderWay
  <2>2. CASE SyncLookup
    BY <2>2 DEF IInv, TInv, DataFits, SyncLookup
  <2>3. CASE SyncNotice
    BY <2>3 DEF IInv, TInv, DataFits, SyncNotice, Resync
  <2>4. CASE SyncMark
    BY <2>4 DEF IInv, TInv, DataFits, SyncMark, Resync
  <2> QED
    BY <2>1, <2>2, <2>3, <2>4 DEF Sync
<1>6. DataFits'
  BY <1>2, <1>3, <1>5 DEF IInv, TInv, DataFits
<1>7. StateTellsPublication' /\ ClaimIsHeld'
  BY <1>1, <1>3 DEF IInv, StateTellsPublication, ClaimIsHeld, FitsSlot, Publishing
<1>8. ReviewsAreCovered'
  BY <1>1, <1>3 DEF IInv, ReviewsAreCovered, Covered
<1>9. SyncIsAware'
  <2>1. CASE SyncSelect
    BY <1>3, <2>1 DEF IInv, TInv, DataFits, SyncIsAware, SyncSelect, Resync, UnderWay
  <2>2. CASE SyncLookup
    BY <1>3, <2>2 DEF IInv, TInv, DataFits, SyncIsAware, SyncLookup
  <2>3. CASE SyncNotice
    BY <1>3, <2>3 DEF IInv, TInv, DataFits, SyncIsAware, SyncNotice, Resync
  <2>4. CASE SyncMark
    <3>1. sync' = "done" => row'.superseded
      BY <2>4 DEF IInv, TInv, DataFits, Rows, SyncMark, Resync
    <3>2. sync = "mark" /\ sync' \in {"queued", "failed", "done"} /\ missed' = missed
      BY <2>4 DEF SyncMark, Resync
    <3> QED
      BY <1>1, <1>3, <3>1, <3>2 DEF IInv, TInv, DataFits, SyncIsAware
  <2> QED
    BY <2>1, <2>2, <2>3, <2>4 DEF Sync
<1> QED
  BY <1>4, <1>6, <1>7, <1>8, <1>9 DEF IInv, TInv

-----------------------------------------------------------------------------
(* How an attempt starts and ends *)

\* What most steps of an attempt leave alone
Quiet == UNCHANGED <<stale, reviews, comments, moved, sync, notices, missed, slow, unanswered>>

\* The row may have become retryable, or stopped to be.
LEMMA QuietIsCalm ==
  ASSUME IInv, Quiet, UNCHANGED <<check, outcome, pointer>>, marked' \in BOOLEAN,
         NEW b \in BOOLEAN, row' = row \/ row' = [row EXCEPT !.retryable = b],
         suppressed' \in BOOLEAN, suppressed => suppressed'
  PROVE  CalmData
<1>1. /\ row' \in Rows /\ row'.state = row.state /\ row'.review = row.review
      /\ row'.superseded = row.superseded
  BY DEF IInv, TInv, DataFits, Rows
<1> QED
  BY <1>1 DEF IInv, TInv, DataFits, Quiet, CalmData, ReviewsAreCovered, Covered

\* A conclusion that is covered is applied, or kept for later.
LEMMA ApplyIsCalm ==
  ASSUME IInv, NEW h, NEW a \in Conclusions, a = "review" => Covered,
         Patched(h, a) \/ NotPatched(h, a), Quiet, UNCHANGED <<row, marked, suppressed>>
  PROVE  CalmData
<1>1. /\ check' \in [Hooks -> Conclusions \cup {"queued"}]
      /\ outcome' \in [Hooks -> Conclusions \cup {None}]
      /\ pointer' \in Hooks \cup {None}
  BY DEF IInv, TInv, DataFits, Patched, NotPatched
<1>2. \A i \in Hooks : /\ check'[i] \in {check[i], a}
                       /\ outcome'[i] \in {outcome[i], a, None}
  BY DEF IInv, TInv, DataFits, Patched, NotPatched
<1>3. \A i \in Hooks : check'[i] = "review" \/ outcome'[i] = "review" => Covered
  BY <1>2, NoneAssumption DEF IInv, ReviewsAreCovered, Conclusions
<1> QED
  BY <1>1, <1>3 DEF IInv, TInv, DataFits, Quiet, CalmData, Covered

LEMMA ResolvePointerKeeps ==
  ASSUME IInv, NEW w \in Slots, ResolvePointer(w)
  PROVE  IInv'
<1>1. QueueFits /\ pc[w] = "resolve"
  BY DEF IInv, TInv, ResolvePointer
<1>2. CalmData
  BY SameDataIsCalm DEF IInv, TInv, DataFits, ResolvePointer, checks, push, history
<1>3. CASE Throw(w) \/ Return(w)
  <2>1. Ended(w, None)
    BY <1>1, <1>3, ThrowFits, ReturnFits
  <2> QED
    BY <1>2, <2>1, CalmEnd, NoneAssumption DEF Conclusions
<1>4. CASE /\ pointer # None
           /\ target' = [target EXCEPT ![w] = pointer] /\ pc' = [pc EXCEPT ![w] = "conclude"]
           /\ UNCHANGED <<task, own, answer, queue>>
  <2>1. UNCHANGED <<task, own, answer, job, attempts, lost, owner>>
    BY <1>4 DEF queue
  <2>2. /\ pc' \in [Slots -> Pcs] /\ target' \in [Slots -> Hooks \cup {None}]
    BY <1>1, <1>4 DEF IInv, TInv, DataFits, QueueFits, Pcs
  <2>3. \A v \in Slots : pc'[v] = IF v = w THEN "conclude" ELSE pc[v]
    BY <1>1, <1>4 DEF QueueFits
  <2>4. QueueFits'
    BY <1>1, <2>1, <2>2, <2>3 DEF QueueFits
  <2>5. Went(w, "conclude")
    BY <2>1, <2>3, <2>4 DEF Went, SameOthers
  <2> QED
    BY <1>2, <2>5, CalmGo
<1> QED
  BY <1>3, <1>4 DEF ResolvePointer

LEMMA ApplyConclusionKeeps ==
  ASSUME IInv, NEW w \in Slots, ApplyConclusion(w)
  PROVE  IInv'
<1>1. QueueFits /\ pc[w] = "conclude" /\ answer[w] \in Conclusions
  BY DEF IInv, TInv, QueueFits, ApplyConclusion
<1>2. answer[w] = "review" => Covered
  BY DEF IInv, ReviewsAreCovered
<1>3. CalmData
  BY <1>1, <1>2, ApplyIsCalm DEF ApplyConclusion, Quiet, push, history
<1>4. Ended(w, None)
  BY <1>1, ThrowFits, ReturnFits DEF ApplyConclusion
<1> QED
  BY <1>3, <1>4, CalmEnd, NoneAssumption DEF Conclusions

LEMMA StartKeeps ==
  ASSUME IInv, NEW w \in Slots, Start(w)
  PROVE  IInv'
<1>1. QueueFits /\ pc[w] = "start"
  BY DEF IInv, TInv, Start
<1>2. GoTo(w, "check") => Went(w, "check")
  BY <1>1, GoToFits DEF Pcs
<1>3. Throw(w) \/ Return(w) => Ended(w, None)
  BY <1>1, ThrowFits, ReturnFits
<1>4. Went(w, "check") \/ Ended(w, None)
  BY <1>2, <1>3 DEF Start
<1>5. CalmData
  <2>1. CASE UNCHANGED checks
    BY <2>1, SameDataIsCalm DEF IInv, TInv, DataFits, Start, checks, push, history
  <2>2. CASE ~UNCHANGED checks
    <3>1. PICK j \in Hooks : /\ outcome[j] # None
                             /\ Patched(j, outcome[j]) \/ NotPatched(j, outcome[j])
      BY <2>2 DEF Start
    <3>2. outcome[j] \in Conclusions /\ (outcome[j] = "review" => Covered)
      BY <3>1 DEF IInv, TInv, DataFits, ReviewsAreCovered
    <3> QED
      BY <3>1, <3>2, ApplyIsCalm DEF Start, Quiet, push, history
  <2> QED
    BY <2>1, <2>2
<1> QED
  BY <1>4, <1>5, CalmGo, CalmEnd, NoneAssumption DEF Conclusions

LEMMA BeforeReviewKeeps ==
  ASSUME IInv, NEW w \in Slots, Check(w) \/ Mark(w) \/ Peek(w)
  PROVE  IInv'
<1>1. QueueFits /\ pc[w] # "idle"
  BY DEF IInv, TInv, Check, Mark, Peek
<1>2. CalmData
  BY SameDataIsCalm DEF IInv, TInv, DataFits, Check, Mark, Peek, checks, push, history
<1>3. \/ \E l \in {"mark", "upsert", "peek"} : GoTo(w, l)
      \/ Return(w)
      \/ \E a \in {"neutral", "error", "interrupted"} : Conclude(w, a)
  BY DEF Check, MeetMark, Mark, Peek
<1>4. \/ \E l \in {"mark", "upsert", "peek"} : Went(w, l)
      \/ \E a \in {"neutral", "error", "interrupted"} : Ended(w, a)
  BY <1>1, <1>3, GoToFits, ReturnFits, ConcludeFits DEF Pcs, Conclusions
<1> QED
  BY <1>2, <1>4, CalmGo, CalmEnd

-----------------------------------------------------------------------------
(* reviewPR, but for the publication *)

\* An attempt that raises or answers, and at most makes the row retryable or not
LEMMA EndKeeps ==
  ASSUME IInv, NEW w \in Slots, pc[w] # "idle",
         NEW a \in Conclusions, Answer(w, a) \/ (\E t \in BOOLEAN : Raise(w, t)),
         a = "review" => Covered,
         SameRow \/ (\E b \in BOOLEAN : Write([row EXCEPT !.retryable = b])),
         Others, NoHistory
  PROVE  IInv'
<1>1. QueueFits
  BY DEF IInv, TInv
<1>2. \E c \in {a, "error"} : Ended(w, c)
  BY <1>1, AnswerFits, RaiseFits
<1>3. PICK b \in BOOLEAN : row' = row \/ row' = [row EXCEPT !.retryable = b]
  BY DEF SameRow, Write
<1>4. Quiet /\ UNCHANGED <<check, outcome, pointer, marked, suppressed>>
  BY DEF Quiet, SameRow, Write, Others, NoHistory, checks, push, history
<1>5. CalmData
  BY <1>3, <1>4, QuietIsCalm DEF IInv, TInv, DataFits
<1>6. a = "review" => Covered'
  BY <1>4 DEF Quiet, Covered
<1> QED
  BY <1>2, <1>5, <1>6, CalmEnd

\* An attempt that goes on and writes nothing
LEMMA GoKeeps ==
  ASSUME IInv, NEW w \in Slots, pc[w] # "idle",
         NEW l \in Pcs \ {"idle", "resolve", "conclude", "post", "persist", "undelivered"},
         GoTo(w, l), SameRow, Others, NoHistory,
         l = "adopt" => reviews = 1,
         l = "release" => reviews = 0,
         l \in {"claim", "lookup", "adopt"} =>
           ~moved \/ row.state = "submitting" \/ pc[w] \in {"claim", "lookup", "adopt"}
  PROVE  IInv'
<1>1. Went(w, l)
  BY GoToFits DEF IInv, TInv
<1>2. CalmData
  BY SameDataIsCalm
     DEF IInv, TInv, DataFits, SameRow, Others, NoHistory, checks, push, history
<1> QED
  BY <1>1, <1>2, CalmGo

LEMMA ReceiptKeeps ==
  ASSUME IInv, NEW w \in Slots, pc[w] # "idle", NEW t \in BOOLEAN, NEW throws \in BOOLEAN,
         Receipt(w, t, throws), Others, NoHistory
  PROVE  IInv'
<1>1. Answer(w, "neutral") \/ (\E b \in BOOLEAN : Raise(w, b))
  BY DEF Receipt
<1>2. SameRow \/ (\E b \in BOOLEAN : Write([row EXCEPT !.retryable = b]))
  BY DEF Receipt
<1> QED
  BY <1>1, <1>2, EndKeeps DEF Conclusions

LEMMA SuppressKeeps ==
  ASSUME IInv, NEW w \in Slots, pc[w] # "idle", Suppress(w), Others
  PROVE  IInv'
<1>1. Ended(w, "review")
  BY AnswerFits DEF IInv, TInv, Suppress, Conclusions
<1>2. PICK b \in BOOLEAN : row' = row \/ row' = [row EXCEPT !.retryable = b]
  BY DEF Suppress, SameRow, Write
<1>3. Quiet /\ UNCHANGED <<check, outcome, pointer, marked>> /\ suppressed'
  BY DEF Quiet, Suppress, SameRow, Write, Others, checks, push
<1>4. CalmData
  BY <1>2, <1>3, QuietIsCalm DEF IInv, TInv, DataFits
<1> QED
  BY <1>1, <1>3, <1>4, CalmEnd DEF Covered

LEMMA UpsertKeeps ==
  ASSUME IInv, NEW w \in Slots, Upsert(w)
  PROVE  IInv'
<1>1. row.state = "published" => Covered
  BY DEF IInv, ReviewsAreCovered, Covered
<1>2. pc[w] # "idle" /\ SameRow /\ Others /\ NoHistory
  BY DEF Upsert
<1>3. CASE Raise(w, FALSE) \/ (Answer(w, "review") /\ row.state = "published")
  BY <1>1, <1>2, <1>3, EndKeeps DEF Conclusions
<1>4. CASE GoTo(w, "model")
  BY <1>2, <1>4, GoKeeps DEF Pcs
<1>5. CASE GoTo(w, "lookup") /\ row.state = "submitting"
  BY <1>2, <1>5, GoKeeps DEF Pcs
<1> QED
  BY <1>3, <1>4, <1>5 DEF Upsert

\* The row is failed where there are two reviews, which takes a slow invocation.
LEMMA AmbiguousKeeps ==
  ASSUME IInv, NEW w \in Slots, pc[w] = "lookup", reviews > 1, Raise(w, FALSE),
         Write([row EXCEPT !.state = "failed", !.retryable = FALSE]), Others, NoHistory
  PROVE  IInv'
<1>1. Ended(w, "error")
  BY RaiseFits DEF IInv, TInv
<1>2. slow /\ slow'
  BY DEF IInv, TInv, DataFits, StateTellsPublication, NoHistory, history
<1>3. PICK r \in Rows : r = [row EXCEPT !.state = "failed", !.retryable = FALSE]
  BY DEF IInv, TInv, DataFits, Rows, States
<1>4. row' = r /\ r.state = "failed"
  BY <1>3 DEF IInv, TInv, DataFits, Rows, Write
<1>5. DataFits'
  BY <1>4 DEF IInv, TInv, DataFits, Write, Others, NoHistory, checks, push, history
<1>6. StateTellsPublication' /\ ClaimIsHeld'
  BY <1>2 DEF StateTellsPublication, ClaimIsHeld
<1>7. SyncIsAware'
  BY <1>2 DEF IInv, SyncIsAware, Others, push
<1>8. ReviewsAreCovered'
  BY <1>1, <1>4, NoneAssumption
     DEF IInv, TInv, DataFits, ReviewsAreCovered, Covered, Ended, SameOthers, Write, Others,
         NoHistory, checks, history, Conclusions
<1> QED
  BY <1>1, <1>5, <1>6, <1>7, <1>8 DEF IInv, TInv, Ended

LEMMA LookupKeeps ==
  ASSUME IInv, NEW w \in Slots, Lookup(w)
  PROVE  IInv'
<1>1. pc[w] = "lookup" /\ Others /\ NoHistory
  BY DEF Lookup
<1>2. CASE Raise(w, FALSE) /\ SameRow
  BY <1>1, <1>2, EndKeeps DEF Conclusions
<1>3. CASE reviews = 0 /\ GoTo(w, "release") /\ SameRow
  BY <1>1, <1>3, GoKeeps DEF Pcs
<1>4. CASE reviews = 1 /\ GoTo(w, "adopt") /\ SameRow
  BY <1>1, <1>4, GoKeeps DEF Pcs
<1>5. CASE /\ reviews > 1 /\ Raise(w, FALSE)
           /\ Write([row EXCEPT !.state = "failed", !.retryable = FALSE])
  BY <1>1, <1>5, AmbiguousKeeps
<1> QED
  BY <1>2, <1>3, <1>4, <1>5 DEF Lookup

LEMMA ModelKeeps ==
  ASSUME IInv, NEW w \in Slots, Model(w)
  PROVE  IInv'
<1>1. pc[w] # "idle" /\ Others /\ NoHistory
  BY DEF Model
<1>2. CASE GoTo(w, "head") /\ SameRow
  BY <1>1, <1>2, GoKeeps DEF Pcs
<1>3. CASE Answer(w, "neutral") /\ SameRow
  BY <1>1, <1>3, EndKeeps DEF Conclusions
<1>4. ASSUME NEW t \in BOOLEAN, NEW throws \in BOOLEAN, Receipt(w, t, throws) PROVE IInv'
  BY <1>1, <1>4, ReceiptKeeps
<1> QED
  BY <1>2, <1>3, <1>4 DEF Model

LEMMA ConfirmHeadKeeps ==
  ASSUME IInv, NEW w \in Slots, ConfirmHead(w)
  PROVE  IInv'
<1>1. pc[w] # "idle" /\ Others /\ NoHistory
  BY DEF ConfirmHead
<1>2. CASE ~moved /\ GoTo(w, "claim") /\ SameRow
  BY <1>1, <1>2, GoKeeps DEF Pcs
<1>3. CASE Answer(w, "neutral") /\ SameRow
  BY <1>1, <1>3, EndKeeps DEF Conclusions
<1>4. CASE Answer(w, "neutral") /\ Write([row EXCEPT !.superseded = TRUE, !.retryable = FALSE])
  <2>1. Ended(w, "neutral")
    BY <1>1, <1>4, AnswerFits DEF IInv, TInv, Conclusions
  <2>2. /\ row' \in Rows /\ row'.state = row.state /\ row'.review = row.review
        /\ row'.superseded
    BY <1>4 DEF IInv, TInv, DataFits, Rows, Write
  <2>3. CalmData
    BY <1>1, <1>4, <2>2 DEF IInv, TInv, DataFits, CalmData, ReviewsAreCovered, Covered, Write,
                           Others, NoHistory, checks, push, history
  <2> QED
    BY <2>1, <2>3, CalmEnd
<1>5. CASE Receipt(w, FALSE, TRUE)
  BY <1>1, <1>5, ReceiptKeeps
<1> QED
  BY <1>2, <1>3, <1>4, <1>5 DEF ConfirmHead

LEMMA LoseClaimKeeps ==
  ASSUME IInv, NEW w \in Slots, LoseClaim(w)
  PROVE  IInv'
<1>1. pc[w] # "idle" /\ Others
  BY DEF LoseClaim
<1>2. row.state = "published" => Covered
  BY DEF IInv, ReviewsAreCovered, Covered
<1>3. CASE row.state = "published" /\ Answer(w, "review") /\ SameRow /\ NoHistory
  BY <1>1, <1>2, <1>3, EndKeeps DEF Conclusions
<1>4. CASE Suppress(w)
  BY <1>1, <1>4, SuppressKeeps
<1>5. CASE Answer(w, "neutral") /\ SameRow /\ NoHistory
  BY <1>1, <1>5, EndKeeps DEF Conclusions
<1>6. CASE NoHistory /\ (Receipt(w, FALSE, TRUE) \/ Receipt(w, FALSE, FALSE))
  BY <1>1, <1>6, ReceiptKeeps
<1> QED
  BY <1>3, <1>4, <1>5, <1>6 DEF LoseClaim

-----------------------------------------------------------------------------
(* The publication *)

LEMMA AdoptKeeps ==
  ASSUME IInv, NEW w \in Slots, Adopt(w)
  PROVE  IInv'
<1>1. pc[w] = "adopt" /\ Others /\ NoHistory
  BY DEF Adopt
<1>2. CASE SameRow /\ Raise(w, FALSE)
  BY <1>1, <1>2, EndKeeps DEF Conclusions
<1>3. CASE /\ Write([row EXCEPT !.state = "published", !.review = 1, !.retryable = FALSE])
           /\ Answer(w, "review")
  <2>1. Ended(w, "review")
    BY <1>1, <1>3, AnswerFits DEF IInv, TInv, Conclusions
  <2>2. /\ row' \in Rows /\ row'.state = "published" /\ row'.review = 1
        /\ row'.superseded = row.superseded
    BY <1>3 DEF IInv, TInv, DataFits, Rows, States, Write
  <2>3. UNCHANGED <<stale, reviews, check, outcome, pointer, marked, comments, moved, sync,
                    notices, missed, slow, unanswered, suppressed>>
    BY <1>1, <1>3 DEF Write, Others, NoHistory, checks, push, history
  <2>4. reviews > 0 /\ (~slow => reviews = 1)
    BY <1>1 DEF IInv, ReviewsAreCovered, ClaimIsHeld, FitsSlot
  <2>5. DataFits'
    BY <2>2, <2>3 DEF IInv, TInv, DataFits
  <2>6. StateTellsPublication'
    BY <2>2, <2>3, <2>4 DEF StateTellsPublication
  <2>7. ClaimIsHeld'
    BY <2>1, <2>2, <2>3 DEF IInv, ClaimIsHeld, FitsSlot, Publishing, Ended, SameOthers
  <2>8. SyncIsAware'
    BY <1>1, <2>2, <2>3 DEF IInv, SyncIsAware
  <2>9. ReviewsAreCovered'
    BY <2>1, <2>2, <2>3, <2>4
       DEF IInv, TInv, DataFits, ReviewsAreCovered, Covered, Ended, SameOthers
  <2> QED
    BY <2>1, <2>5, <2>6, <2>7, <2>8, <2>9 DEF IInv, TInv, Ended
<1> QED
  BY <1>2, <1>3 DEF Adopt

\* An old claim is released only where there is no review and nobody publishes.
LEMMA ReleaseKeeps ==
  ASSUME IInv, NEW w \in Slots, Release(w)
  PROVE  IInv'
<1>1. pc[w] = "release" /\ Others
  BY DEF Release
<1>2. CASE SameRow /\ Raise(w, FALSE) /\ NoHistory
  BY <1>1, <1>2, EndKeeps DEF Conclusions
<1>3. CASE Suppress(w)
  BY <1>1, <1>3, SuppressKeeps
<1>4. CASE /\ row.state = "submitting" /\ stale
           /\ Write([row EXCEPT !.state = "computed"]) /\ GoTo(w, "model") /\ NoHistory
  <2>1. Went(w, "model")
    BY <1>1, <1>4, GoToFits DEF IInv, TInv, Pcs
  <2>2. row' \in Rows /\ row'.state = "computed"
    BY <1>4 DEF IInv, TInv, DataFits, Rows, States, Write
  <2>3. UNCHANGED <<stale, reviews, check, outcome, pointer, marked, comments, moved, sync,
                    notices, missed, slow, unanswered, suppressed>>
    BY <1>1, <1>4 DEF Write, Others, NoHistory, checks, push, history
  <2>4. ~slow => reviews = 0 /\ \A v \in Slots : ~Publishing(v)
    BY <1>1, <1>4 DEF IInv, ClaimIsHeld, FitsSlot
  <2>5. DataFits'
    BY <2>2, <2>3 DEF IInv, TInv, DataFits
  <2>6. StateTellsPublication'
    BY <2>2, <2>3, <2>4 DEF StateTellsPublication
  <2>7. ClaimIsHeld'
    BY <2>1, <2>2, <2>3, <2>4 DEF IInv, ClaimIsHeld, FitsSlot, Publishing, Went, SameOthers
  <2>8. SyncIsAware'
    BY <1>4, <2>3 DEF IInv, SyncIsAware
  <2>9. ReviewsAreCovered'
    BY <2>1, <2>2, <2>3 DEF IInv, ReviewsAreCovered, Covered, Went, SameOthers
  <2> QED
    BY <2>1, <2>5, <2>6, <2>7, <2>8, <2>9 DEF IInv, TInv, Went
<1> QED
  BY <1>2, <1>3, <1>4 DEF Release

LEMMA ClaimKeeps ==
  ASSUME IInv, NEW w \in Slots, Claim(w)
  PROVE  IInv'
<1>1. pc[w] = "claim" /\ Others /\ NoHistory
  BY DEF Claim
<1>2. CASE GoTo(w, "lost") /\ SameRow
  BY <1>1, <1>2, GoKeeps DEF Pcs
<1>3. CASE Receipt(w, FALSE, FALSE)
  BY <1>1, <1>3, ReceiptKeeps
<1>4. CASE /\ row.state \in {"none", "computed"}
           /\ row' = [row EXCEPT !.state = "submitting", !.superseded = FALSE]
           /\ stale' = FALSE
           /\ GoTo(w, IF Posts(w) THEN "post" ELSE "persist")
           /\ UNCHANGED reviews
  <2>1. PICK l \in {"post", "persist"} : GoTo(w, l) /\ (l = "persist" => ~comments)
    BY <1>4 DEF Posts
  <2>2. Went(w, l)
    BY <1>1, <2>1, GoToFits DEF IInv, TInv, Pcs
  <2>3. row' \in Rows /\ row'.state = "submitting"
    BY <1>4 DEF IInv, TInv, DataFits, Rows, States
  <2>4. UNCHANGED <<reviews, check, outcome, pointer, marked, comments, moved, sync,
                    notices, missed, slow, unanswered, suppressed>>
    BY <1>1, <1>4 DEF Others, NoHistory, checks, push, history
  <2>5. ~slow => reviews = 0 /\ \A v \in Slots : ~Publishing(v)
    BY <1>1, <1>4 DEF IInv, StateTellsPublication, ClaimIsHeld, FitsSlot
  <2>6. own[w] \in Nat /\ own[w] <= reviews
    BY DEF IInv, TInv, QueueFits, ReviewsAreCovered
  <2>7. DataFits'
    BY <1>4, <2>3, <2>4 DEF IInv, TInv, DataFits
  <2>8. StateTellsPublication'
    BY <2>3, <2>4, <2>5 DEF StateTellsPublication
  <2>9. ClaimIsHeld'
    BY <1>4, <2>2, <2>3, <2>4, <2>5, <2>6
       DEF IInv, ClaimIsHeld, FitsSlot, Publishing, Went, SameOthers
  <2>10. SyncIsAware'
    BY <1>1, <1>4, <2>4 DEF IInv, SyncIsAware
  <2>11. ReviewsAreCovered'
    BY <2>1, <2>2, <2>3, <2>4 DEF IInv, ReviewsAreCovered, Covered, Went, SameOthers
  <2> QED
    BY <2>2, <2>7, <2>8, <2>9, <2>10, <2>11 DEF IInv, TInv, Went
<1> QED
  BY <1>2, <1>3, <1>4 DEF Claim

\* GitHub is asked for a review only where it has none.
LEMMA PostKeeps ==
  ASSUME IInv, NEW w \in Slots, Post(w)
  PROVE  IInv'
<1>1. pc[w] = "post" /\ Others /\ UNCHANGED <<row, stale, slow, suppressed, answer>>
  BY DEF Post, GoTo, history
<1>2. UNCHANGED <<row, stale, check, outcome, pointer, marked, comments, moved, sync, notices,
                  missed, slow, suppressed>>
  BY <1>1 DEF Others, checks, push
<1>3. ~slow => reviews = 0 /\ row.state = "submitting" /\ ~stale
  BY <1>1 DEF IInv, StateTellsPublication, ClaimIsHeld, FitsSlot, Publishing
<1>4. QueueFits /\ reviews \in Nat /\ own[w] \in Nat /\ own[w] <= reviews
  BY DEF IInv, TInv, DataFits, QueueFits, ReviewsAreCovered
<1>5. /\ QueueFits' /\ SameOthers(w) /\ answer'[w] = answer[w]
      /\ \/ /\ pc'[w] = "persist" /\ reviews' = reviews + 1 /\ own'[w] = reviews + 1
            /\ unanswered' = unanswered
         \/ /\ pc'[w] = "undelivered" /\ reviews' = reviews + 1 /\ own'[w] = own[w]
            /\ unanswered' = TRUE
         \/ /\ pc'[w] = "undelivered" /\ reviews' = reviews /\ own'[w] = own[w]
            /\ unanswered' = unanswered
  <2>1. CASE /\ reviews' = reviews + 1
             /\ own' = [own EXCEPT ![w] = reviews + 1]
             /\ pc' = [pc EXCEPT ![w] = "persist"]
             /\ UNCHANGED <<task, answer, target, queue, history>>
    <3>1. pc' \in [Slots -> Pcs] /\ own' \in [Slots -> Nat]
      BY <1>4, <2>1 DEF QueueFits, Pcs
    <3>2. \A v \in Slots : /\ pc'[v] = IF v = w THEN "persist" ELSE pc[v]
                           /\ own'[v] = IF v = w THEN reviews + 1 ELSE own[v]
      BY <1>4, <2>1 DEF QueueFits
    <3>3. QueueFits'
      BY <1>1, <1>4, <2>1, <3>1, <3>2 DEF QueueFits, queue
    <3> QED
      BY <2>1, <3>2, <3>3 DEF SameOthers, history
  <2>2. CASE reviews' = reviews + 1 /\ unanswered' = TRUE /\ GoTo(w, "undelivered")
    BY <1>1, <1>4, <2>2, GoToFits DEF Went, Pcs
  <2>3. CASE GoTo(w, "undelivered") /\ UNCHANGED <<reviews, history>>
    BY <1>1, <1>4, <2>3, GoToFits DEF Went, Pcs, history
  <2> QED
    BY <2>1, <2>2, <2>3 DEF Post
<1>6. DataFits'
  <2>1. reviews' \in Nat
    BY <1>4, <1>5
  <2>2. unanswered' \in BOOLEAN
    BY <1>5, Zenon DEF IInv, TInv, DataFits
  <2> QED
    BY <1>2, <2>1, <2>2 DEF IInv, TInv, DataFits
<1>7. StateTellsPublication'
  BY <1>2, <1>3, <1>5 DEF StateTellsPublication
<1>8. ClaimIsHeld'
  BY <1>1, <1>2, <1>3, <1>5 DEF IInv, ClaimIsHeld, FitsSlot, Publishing, SameOthers
<1>9. SyncIsAware'
  BY <1>2, <1>3, <1>5 DEF IInv, SyncIsAware, SameOthers
<1>10. ReviewsAreCovered'
  <2>1. \A v \in Slots : own[v] \in Nat
    BY <1>4 DEF QueueFits
  <2>2. Covered => Covered'
    BY <1>2, <1>4, <1>5 DEF Covered
  <2>3. \A v \in Slots : own'[v] <= reviews'
    BY <1>4, <1>5, <2>1 DEF IInv, ReviewsAreCovered, SameOthers
  <2>4. \A v \in Slots : pc'[v] = "persist" /\ own'[v] = 0 => ~comments
    BY <1>4, <1>5 DEF IInv, ReviewsAreCovered, SameOthers
  <2> QED
    BY <1>2, <1>4, <1>5, <2>2, <2>3, <2>4 DEF IInv, ReviewsAreCovered, SameOthers
<1> QED
  BY <1>5, <1>6, <1>7, <1>8, <1>9, <1>10 DEF IInv, TInv

LEMMA UndeliveredKeeps ==
  ASSUME IInv, NEW w \in Slots, Undelivered(w)
  PROVE  IInv'
<1>1. pc[w] = "undelivered" /\ Others /\ NoHistory /\ Raise(w, FALSE)
  BY DEF Undelivered
<1>2. CASE SameRow
  BY <1>1, <1>2, EndKeeps DEF Conclusions
<1>3. CASE Write([row EXCEPT !.retryable = FALSE,
                             !.state = IF @ = "submitting" THEN "failed" ELSE @])
  <2>1. Ended(w, "error")
    BY <1>1, RaiseFits DEF IInv, TInv
  <2>2. /\ row' \in Rows /\ row'.review = row.review /\ row'.superseded = row.superseded
        /\ row'.state = IF row.state = "submitting" THEN "failed" ELSE row.state
    BY <1>3 DEF IInv, TInv, DataFits, Rows, States, Write
  <2>3. UNCHANGED <<stale, reviews, check, outcome, pointer, marked, comments, moved, sync,
                    notices, missed, slow, unanswered, suppressed>>
    BY <1>1, <1>3 DEF Write, Others, NoHistory, checks, push, history
  <2>4. ~slow => /\ reviews = 0 \/ unanswered
                 /\ \A v \in Slots : Publishing(v) => v = w
    BY <1>1 DEF IInv, ClaimIsHeld, FitsSlot, Publishing
  <2>5. DataFits'
    BY <2>2, <2>3 DEF IInv, TInv, DataFits
  <2>6. StateTellsPublication'
    BY <2>2, <2>3, <2>4 DEF IInv, TInv, DataFits, StateTellsPublication
  <2>7. ClaimIsHeld'
    BY <2>1, <2>2, <2>3, <2>4 DEF IInv, ClaimIsHeld, FitsSlot, Publishing, Ended, SameOthers
  <2>8. SyncIsAware'
    BY <2>1, <2>2, <2>3 DEF IInv, SyncIsAware, Ended, SameOthers
  <2>9. ReviewsAreCovered'
    BY <2>1, <2>2, <2>3, NoneAssumption
       DEF IInv, TInv, DataFits, ReviewsAreCovered, Covered, Ended, SameOthers, Conclusions
  <2> QED
    BY <2>1, <2>5, <2>6, <2>7, <2>8, <2>9 DEF IInv, TInv, Ended
<1> QED
  BY <1>2, <1>3 DEF Undelivered

LEMMA PersistKeeps ==
  ASSUME IInv, NEW w \in Slots, Persist(w)
  PROVE  IInv'
<1>1. pc[w] = "persist" /\ Others /\ NoHistory
  BY DEF Persist
<1>2. CASE Receipt(w, FALSE, FALSE)
  BY <1>1, <1>2, ReceiptKeeps
<1>3. CASE /\ Write([row EXCEPT !.state = IF own[w] # 0 THEN "published" ELSE "computed",
                                !.review = own[w], !.retryable = FALSE])
           /\ Answer(w, "review")
  <2>1. Ended(w, "review")
    BY <1>1, <1>3, AnswerFits DEF IInv, TInv, Conclusions
  <2>2. own[w] \in Nat /\ own[w] <= reviews /\ reviews \in Nat
    BY DEF IInv, TInv, DataFits, QueueFits, ReviewsAreCovered
  <2>3. /\ row' \in Rows /\ row'.review = own[w] /\ row'.superseded = row.superseded
        /\ row'.state = IF own[w] # 0 THEN "published" ELSE "computed"
    BY <1>3, <2>2 DEF IInv, TInv, DataFits, Rows, States, Write
  <2>4. UNCHANGED <<stale, reviews, check, outcome, pointer, marked, comments, moved, sync,
                    notices, missed, slow, unanswered, suppressed>>
    BY <1>1, <1>3 DEF Write, Others, NoHistory, checks, push, history
  <2>5. ~slow => /\ own[w] = reviews /\ reviews <= 1
                 /\ \A v \in Slots : Publishing(v) => v = w
                 /\ row.state = "published" => reviews = 1
    BY <1>1 DEF IInv, ClaimIsHeld, FitsSlot, Publishing, StateTellsPublication
  <2>6. own[w] = 0 => ~comments
    BY <1>1 DEF IInv, ReviewsAreCovered
  <2>7. DataFits'
    BY <2>3, <2>4 DEF IInv, TInv, DataFits
  <2>8. StateTellsPublication'
    BY <2>2, <2>3, <2>4, <2>5 DEF StateTellsPublication
  <2>9. ClaimIsHeld'
    BY <2>1, <2>3, <2>4, <2>5 DEF IInv, ClaimIsHeld, FitsSlot, Publishing, Ended, SameOthers
  <2>10. SyncIsAware'
    BY <1>1, <2>3, <2>4, <2>5 DEF IInv, SyncIsAware
  <2>11. ReviewsAreCovered'
    <3>1. Covered /\ (row'.state = "published" => reviews > 0)
      BY <2>2, <2>3, <2>6 DEF Covered
    <3> QED
      BY <2>1, <2>2, <2>4, <3>1 DEF IInv, ReviewsAreCovered, Covered, Ended, SameOthers
  <2> QED
    BY <2>1, <2>7, <2>8, <2>9, <2>10, <2>11 DEF IInv, TInv, Ended
<1> QED
  BY <1>2, <1>3 DEF Persist

-----------------------------------------------------------------------------
(* The theorems *)

LEMMA InitFits ==
  ASSUME Init
  PROVE  IInv
<1>1. DataFits
  BY DEF Init, DataFits, Rows, States
<1>2. QueueFits
  BY BoundsAssumption DEF Init, QueueFits, Pcs
<1>3. StateTellsPublication /\ ClaimIsHeld /\ SyncIsAware
  BY DEF Init, StateTellsPublication, ClaimIsHeld, FitsSlot, Publishing, SyncIsAware
<1>4. ReviewsAreCovered
  BY NoneAssumption DEF Init, ReviewsAreCovered, Covered, Conclusions
<1> QED
  BY <1>1, <1>2, <1>3, <1>4 DEF IInv, TInv

LEMMA NextKeeps ==
  ASSUME IInv, [Next]_vars
  PROVE  IInv'
<1>1. ASSUME NEW j \in Jobs, Queue(j) \/ LoseLock(j) PROVE IInv'
  BY <1>1, QueueKeeps, LoseLockKeeps
<1>2. ASSUME NEW w \in Slots, NEW j \in Jobs, Take(w, j) PROVE IInv'
  BY <1>2, TakeKeeps
<1>3. ASSUME NEW w \in Slots, Run(w) PROVE IInv'
  BY <1>3, ResolvePointerKeeps, ApplyConclusionKeeps, StartKeeps, BeforeReviewKeeps,
     UpsertKeeps, LookupKeeps, AdoptKeeps, ReleaseKeeps, ModelKeeps, ConfirmHeadKeeps,
     ClaimKeeps, LoseClaimKeeps, PostKeeps, UndeliveredKeeps, PersistKeeps DEF Run
<1>4. CASE Age \/ Push \/ Sync
  BY <1>4, AgeKeeps, PushKeeps, SyncKeeps
<1>5. CASE UNCHANGED vars
  <2>1. CalmData
    BY <1>5, SameDataIsCalm DEF IInv, TInv, DataFits, vars, checks, push, history
  <2>2. QueueFits'
    BY <1>5 DEF IInv, TInv, QueueFits, vars, queue, slots
  <2> QED
    BY <1>5, <2>1, <2>2, StillKeeps DEF vars
<1> QED
  BY <1>1, <1>2, <1>3, <1>4, <1>5 DEF Next

\* The strengthening behind every theorem below: phase4Worker.js and
\* aiReviewService.js keep at most one invocation publishing a head's review.
THEOREM Inductive == Spec => []IInv
<1>1. Init => IInv
  BY InitFits
<1>2. IInv /\ [Next]_vars => IInv'
  BY NextKeeps
<1> QED
  BY <1>1, <1>2, PTL DEF Spec

\* Every variable keeps its type, whatever the jobs, the crashes and the order.
THEOREM TypeCorrect == Spec => []TypeOK
<1>1. IInv => TypeOK
  BY DEF IInv, TInv, DataFits, QueueFits, TypeOK, Pcs, Rows
<1> QED
  BY <1>1, Inductive, PTL

\* publication_state tells of the one review a head gets (claimPublication, the
\* marker lookup and the receipts of aiReviewService.js), for any number of jobs,
\* crashes and repeated attempts.
THEOREM PublicationIsTold == Spec => []StateTellsPublication
<1>1. IInv => StateTellsPublication
  BY DEF IInv
<1> QED
  BY <1>1, Inductive, PTL

\* supersedePublishedReviewForPr leaves no published review of a left head unmarked,
\* but for the two cases the property names.
THEOREM StaleReviewsAreMarked == Spec => []StaleReviewIsMarked
<1>1. IInv => StaleReviewIsMarked
  BY DEF IInv, SyncIsAware, StaleReviewIsMarked
<1> QED
  BY <1>1, Inductive, PTL

\* finalizeGitwireCheck gives the conclusion of a review only where one was posted,
\* comments are off, or another invocation was left to post it.
THEOREM ReviewsMeanReview == Spec => []ReviewedMeansReview
<1>1. IInv => ReviewedMeansReview
  BY DEF IInv, ReviewsAreCovered, Covered, ReviewedMeansReview
<1> QED
  BY <1>1, Inductive, PTL

-----------------------------------------------------------------------------
(* A job that has the head to itself *)

Alone(h) == lost = {} /\ ~suppressed /\ \A j \in Jobs \ {h} : job[j] = "absent"

\* Only an attempt that lost its job's lock works without it.
LocksHeld == lost = {} => \A w \in Slots : pc[w] # "idle" => owner[task[w]] = w

AnswersAreLast == \A w \in Slots : answer[w] # None => pc[w] \in {"resolve", "conclude"}

\* A published row, and the conclusion of a review, ask for no retry.
RowFits ==
  /\ row.state = "published" => ~row.retryable
  /\ \A w \in Slots : /\ pc[w] = "model" => row.state # "published"
                      /\ answer[w] = "review" => ~row.retryable

\* A check with the conclusion of a review has it in store for the next attempt,
\* which replays it and ends, or there is no next attempt.
ConclusionIsKept(h) ==
  /\ outcome[h] = "review" => ~row.retryable /\ \A w \in Slots : pc[w] \in {"idle", "start"}
  /\ check[h] = "review" => outcome[h] = "review" \/ job[h] \in {"completed", "failed"}

SInv ==
  /\ LocksHeld /\ AnswersAreLast
  /\ \A h \in Hooks : Alone(h) => RowFits /\ ConclusionIsKept(h)

\* What a step of w's attempt does to the jobs and to the other slots
Turn(w) ==
  /\ lost' = lost /\ AnswersAreLast'
  /\ \A v \in Slots \ {w} : pc'[v] = pc[v] /\ task'[v] = task[v] /\ answer'[v] = answer[v]
  /\ pc'[w] # "idle" => task'[w] = task[w] /\ owner' = owner
  /\ \A j \in Jobs : /\ owner'[j] = owner[j] \/ owner[j] = w
                     /\ job'[j] = "absent" <=> job[j] = "absent"

LEMMA GoToTurns ==
  ASSUME IInv, SInv, NEW w \in Slots, pc[w] \notin {"idle", "resolve", "conclude"},
         NEW l \in Pcs, GoTo(w, l)
  PROVE  Turn(w) /\ pc'[w] = l /\ answer'[w] = None
BY DEF IInv, TInv, QueueFits, SInv, AnswersAreLast, GoTo, Turn, queue

LEMMA ConcludeTurns ==
  ASSUME IInv, SInv, NEW w \in Slots, pc[w] # "idle", NEW a \in Conclusions, Conclude(w, a)
  PROVE  Turn(w) /\ pc'[w] \in {"resolve", "conclude"} /\ answer'[w] = a
<1>1. PICK l \in {"resolve", "conclude"} :
        /\ pc' = [pc EXCEPT ![w] = l] /\ answer' = [answer EXCEPT ![w] = a]
        /\ UNCHANGED <<task, own, target, job, attempts, lost, owner>>
  BY DEF Conclude, queue
<1> QED
  BY <1>1 DEF IInv, TInv, QueueFits, SInv, AnswersAreLast, Turn

LEMMA LeaveTurns ==
  ASSUME IInv, SInv, NEW w \in Slots, pc[w] # "idle", NEW s \in {"waiting", "completed", "failed"},
         Leave(w, s)
  PROVE  /\ Turn(w) /\ pc'[w] = "idle" /\ answer'[w] = None
         /\ \A j \in Jobs : owner[j] = w => job'[j] = s
<1>1. \A j \in Jobs : owner[j] = w => job[j] = "active"
  BY NoneAssumption DEF IInv, TInv, QueueFits
<1> QED
  BY <1>1 DEF IInv, TInv, QueueFits, SInv, AnswersAreLast, Leave, Free, Turn

LEMMA EndTurns ==
  ASSUME IInv, SInv, NEW w \in Slots, pc[w] # "idle", Return(w) \/ Throw(w)
  PROVE  /\ Turn(w) /\ pc'[w] = "idle" /\ answer'[w] = None
         /\ Return(w) => \A j \in Jobs : owner[j] = w => job'[j] = "completed"
<1>1. CASE Return(w)
  BY <1>1, LeaveTurns DEF Return
<1>2. CASE Throw(w)
  <2>1. \E s \in {"waiting", "failed"} : Leave(w, s)
    BY <1>2 DEF Throw
  <2>2. CASE Return(w)
    BY <1>1, <2>2
  <2> QED
    BY <2>1, <2>2, LeaveTurns
<1> QED
  BY <1>1, <1>2

LEMMA AnswerTurns ==
  ASSUME IInv, SInv, NEW w \in Slots, pc[w] # "idle", NEW a \in Conclusions,
         Answer(w, a) \/ (a = "error" /\ \E t \in BOOLEAN : Raise(w, t))
  PROVE  Turn(w) /\ pc'[w] # "model" /\ answer'[w] \in {a, None}
BY EndTurns, ConcludeTurns DEF Answer, Raise, Conclusions

\* A job with the head to itself has the only attempt there is.
LEMMA AloneWorks ==
  ASSUME IInv, SInv, NEW h \in Hooks, Alone(h), NEW w \in Slots, pc[w] # "idle"
  PROVE  /\ task[w] = h /\ owner[h] = w /\ job[h] = "active"
         /\ \A v \in Slots \ {w} : pc[v] = "idle" /\ answer[v] = None
<1>1. \A v \in Slots : pc[v] # "idle" => task[v] = h /\ owner[h] = v /\ job[h] = "active"
  BY NoneAssumption DEF IInv, TInv, QueueFits, SInv, LocksHeld, Alone, Jobs
<1> QED
  BY <1>1 DEF SInv, AnswersAreLast

LEMMA TurnsKeepLocks ==
  ASSUME IInv, SInv, NEW w \in Slots, pc[w] # "idle", Turn(w)
  PROVE  LocksHeld'
<1>1. SUFFICES ASSUME lost = {}, NEW v \in Slots, pc'[v] # "idle"
               PROVE  owner'[task'[v]] = v
  BY DEF LocksHeld, Turn
<1>2. pc[v] # "idle" /\ task'[v] = task[v]
  BY <1>1 DEF Turn
<1>3. owner[task[v]] = v /\ task[v] \in Jobs
  BY <1>1, <1>2 DEF SInv, LocksHeld, IInv, TInv, QueueFits
<1>4. owner'[task[v]] = owner[task[v]]
  BY <1>1, <1>3 DEF Turn
<1> QED
  BY <1>2, <1>3, <1>4

LEMMA TurnsKeepCompany ==
  ASSUME NEW w \in Slots, Turn(w), suppressed => suppressed', NEW h \in Hooks, Alone(h)'
  PROVE  Alone(h)
BY DEF Turn, Alone, Jobs

\* Enough for a step of the review, which leaves the checks alone.
LEMMA SoloKeeps ==
  ASSUME IInv, SInv, NEW w \in Slots, pc[w] \notin {"idle", "start"}, Turn(w),
         UNCHANGED <<check, outcome>>, suppressed => suppressed',
         RowFits /\ ~suppressed' =>
           /\ row'.state = "published" => ~row'.retryable
           /\ pc'[w] = "model" => row'.state # "published"
           /\ answer'[w] = "review" => ~row'.retryable
  PROVE  SInv'
<1>1. ASSUME NEW h \in Hooks, Alone(h)' PROVE (RowFits /\ ConclusionIsKept(h))'
  <2>1. Alone(h) /\ RowFits /\ ConclusionIsKept(h) /\ ~suppressed'
    BY <1>1, TurnsKeepCompany DEF SInv, Alone
  <2>2. /\ job[h] = "active"
        /\ \A v \in Slots \ {w} : pc[v] = "idle" /\ answer[v] = None
    BY <2>1, AloneWorks
  <2>3. outcome[h] # "review" /\ check[h] # "review"
    BY <2>1, <2>2 DEF ConclusionIsKept
  <2>4. RowFits'
    BY <2>1, <2>2, NoneAssumption DEF RowFits, Turn, Conclusions
  <2> QED
    BY <2>3, <2>4 DEF ConclusionIsKept
<1> QED
  BY <1>1, TurnsKeepLocks DEF SInv, Turn

LEMMA StartSolo ==
  ASSUME IInv, SInv, NEW w \in Slots, Start(w)
  PROVE  SInv'
<1>1. pc[w] = "start" /\ answer[w] = None /\ UNCHANGED <<row, suppressed>>
  BY DEF SInv, AnswersAreLast, Start, history
<1>2. /\ Turn(w) /\ answer'[w] = None
      /\ Return(w) \/ Throw(w) => pc'[w] = "idle"
      /\ GoTo(w, "check") => pc'[w] = "check"
      /\ Return(w) => \A j \in Jobs : owner[j] = w => job'[j] = "completed"
  BY <1>1, GoToTurns, EndTurns DEF Start, Pcs
<1>3. ASSUME NEW h \in Hooks, Alone(h)' PROVE (RowFits /\ ConclusionIsKept(h))'
  <2>1. Alone(h) /\ RowFits /\ ConclusionIsKept(h)
    BY <1>1, <1>2, <1>3, TurnsKeepCompany DEF SInv
  <2>2. /\ task[w] = h /\ owner[h] = w /\ job[h] = "active"
        /\ \A v \in Slots \ {w} : pc[v] = "idle" /\ answer[v] = None
    BY <1>1, <2>1, AloneWorks
  <2>3. RowFits'
    BY <1>1, <1>2, <2>1, <2>2, NoneAssumption DEF RowFits, Turn, Conclusions, Start
  <2>4. CASE outcome[h] = "review"
    <3>1. ~row.retryable /\ outcome[h] # None
      BY <2>1, <2>4, NoneAssumption DEF ConclusionIsKept, Conclusions
    <3>2. \/ Patched(h, "review") /\ Return(w)
          \/ NotPatched(h, "review") /\ Throw(w)
      BY <2>2, <2>4, <3>1 DEF Start
    <3>3. CASE Patched(h, "review") /\ Return(w)
      <4>1. outcome'[h] = None
        BY <3>3 DEF IInv, TInv, DataFits, Patched
      <4>2. job'[h] = "completed"
        BY <1>2, <2>2, <3>3 DEF Jobs
      <4>3. None # "review"
        BY NoneAssumption DEF Conclusions
      <4> QED
        BY <2>3, <4>1, <4>2, <4>3 DEF ConclusionIsKept
    <3>4. CASE NotPatched(h, "review") /\ Throw(w)
      <4>1. outcome'[h] = "review"
        BY <3>4 DEF IInv, TInv, DataFits, NotPatched
      <4>2. \A v \in Slots : pc'[v] = "idle"
        BY <1>2, <2>2, <3>4 DEF Turn
      <4>3. row' = row
        BY <1>1
      <4> QED
        BY <2>3, <3>1, <4>1, <4>2, <4>3 DEF ConclusionIsKept
    <3> QED
      BY <3>2, <3>3, <3>4
  <2>5. CASE outcome[h] # "review"
    <3>1. check[h] # "review"
      BY <2>1, <2>2, <2>5 DEF ConclusionIsKept
    <3>2. check'[h] # "review" /\ outcome'[h] # "review"
      BY <2>2, <2>5, <3>1, NoneAssumption
         DEF IInv, TInv, DataFits, Start, checks, Patched, NotPatched, Conclusions
    <3> QED
      BY <3>2, <2>3 DEF ConclusionIsKept
  <2> QED
    BY <2>3, <2>4, <2>5
<1> QED
  BY <1>1, <1>2, <1>3, TurnsKeepLocks DEF SInv, Turn

LEMMA ApplyConclusionSolo ==
  ASSUME IInv, SInv, NEW w \in Slots, ApplyConclusion(w)
  PROVE  SInv'
<1>1. pc[w] = "conclude" /\ answer[w] \in Conclusions /\ UNCHANGED <<row, suppressed>>
  BY DEF IInv, TInv, QueueFits, ApplyConclusion, history
<1>2. /\ Turn(w) /\ answer'[w] = None /\ pc'[w] = "idle"
      /\ Return(w) => \A j \in Jobs : owner[j] = w => job'[j] = "completed"
  BY <1>1, EndTurns DEF ApplyConclusion
<1>3. ASSUME NEW h \in Hooks, Alone(h)' PROVE (RowFits /\ ConclusionIsKept(h))'
  <2>1. Alone(h) /\ RowFits /\ ConclusionIsKept(h)
    BY <1>1, <1>2, <1>3, TurnsKeepCompany DEF SInv
  <2>2. /\ owner[h] = w /\ job[h] = "active"
        /\ \A v \in Slots \ {w} : pc[v] = "idle" /\ answer[v] = None
    BY <1>1, <2>1, AloneWorks
  <2>3. RowFits'
    BY <1>1, <1>2, <2>1, <2>2, NoneAssumption DEF RowFits, Turn, Conclusions
  <2>4. outcome[h] # "review" /\ check[h] # "review"
    BY <1>1, <2>1, <2>2 DEF ConclusionIsKept
  <2>5. answer[w] = "review" => ~row.retryable
    BY <2>1 DEF RowFits
  <2>6. CASE Patched(target[w], answer[w]) /\ (IF answer[w] = "error" THEN Throw(w) ELSE Return(w))
    <3>1. outcome'[h] # "review" /\ check'[h] \in {check[h], answer[w]}
      BY <2>4, <2>6, NoneAssumption DEF IInv, TInv, DataFits, Patched, Conclusions
    <3>2. answer[w] = "review" => job'[h] = "completed"
      BY <1>2, <2>2, <2>6 DEF Jobs
    <3> QED
      BY <2>3, <2>4, <3>1, <3>2 DEF ConclusionIsKept
  <2>7. CASE NotPatched(target[w], answer[w]) /\ Throw(w)
    <3>1. \/ UNCHANGED <<check[h], outcome[h]>>
          \/ outcome'[h] = answer[w] /\ check'[h] \in {check[h], answer[w]}
      BY <2>7 DEF IInv, TInv, DataFits, NotPatched
    <3>2. \A v \in Slots : pc'[v] = "idle"
      BY <1>2, <2>2 DEF Turn
    <3> QED
      BY <1>1, <2>3, <2>4, <2>5, <3>1, <3>2 DEF ConclusionIsKept
  <2> QED
    BY <2>6, <2>7 DEF ApplyConclusion
<1> QED
  BY <1>1, <1>2, <1>3, TurnsKeepLocks DEF SInv, Turn

\* An attempt goes on.
LEMMA SoloGo ==
  ASSUME IInv, SInv, NEW w \in Slots, pc[w] \notin {"idle", "start", "resolve", "conclude"},
         NEW l \in Pcs, GoTo(w, l), UNCHANGED <<check, outcome>>, suppressed => suppressed',
         RowFits => /\ row'.state = "published" => ~row'.retryable
                    /\ l = "model" => row'.state # "published"
  PROVE  SInv'
<1>1. Turn(w) /\ pc'[w] = l /\ answer'[w] = None
  BY GoToTurns
<1>2. None # "review"
  BY NoneAssumption DEF Conclusions
<1> QED
  BY <1>1, <1>2, SoloKeeps

\* An attempt gives its answer.
LEMMA SoloAnswer ==
  ASSUME IInv, SInv, NEW w \in Slots, pc[w] \notin {"idle", "start"}, NEW a \in Conclusions,
         Answer(w, a) \/ (a = "error" /\ \E t \in BOOLEAN : Raise(w, t)),
         UNCHANGED <<check, outcome>>, suppressed => suppressed',
         RowFits /\ ~suppressed' =>
           /\ row'.state = "published" => ~row'.retryable
           /\ a = "review" => ~row'.retryable
  PROVE  SInv'
<1>1. Turn(w) /\ pc'[w] # "model" /\ answer'[w] \in {a, None}
  BY AnswerTurns
<1>2. None # "review"
  BY NoneAssumption DEF Conclusions
<1> QED
  BY <1>1, <1>2, SoloKeeps

LEMMA ResolvePointerSolo ==
  ASSUME IInv, SInv, NEW w \in Slots, ResolvePointer(w)
  PROVE  SInv'
<1>1. pc[w] = "resolve" /\ UNCHANGED <<row, suppressed, check, outcome>>
  BY DEF ResolvePointer, checks, history
<1>2. CASE pointer # None
  <2>1. Turn(w) /\ pc'[w] = "conclude" /\ answer'[w] = answer[w]
    BY <1>1, <1>2 DEF ResolvePointer, IInv, TInv, QueueFits, SInv, AnswersAreLast, Turn, queue
  <2>2. RowFits => (row'.state = "published" => ~row'.retryable)
                   /\ (answer'[w] = "review" => ~row'.retryable)
    BY <1>1, <2>1 DEF RowFits
  <2> QED
    BY <1>1, <2>1, <2>2, SoloKeeps
<1>3. CASE pointer = None
  <2>1. Turn(w) /\ pc'[w] = "idle" /\ answer'[w] = None
    BY <1>1, <1>3, EndTurns DEF ResolvePointer
  <2>2. RowFits => (row'.state = "published" => ~row'.retryable)
    BY <1>1 DEF RowFits
  <2>3. None # "review"
    BY NoneAssumption DEF Conclusions
  <2> QED
    BY <1>1, <2>1, <2>2, <2>3, SoloKeeps
<1> QED
  BY <1>2, <1>3

\* Nothing before the review writes the row.
LEMMA BeforeReviewSolo ==
  ASSUME IInv, SInv, NEW w \in Slots, Check(w) \/ Mark(w) \/ Peek(w)
  PROVE  SInv'
<1>1. pc[w] \in {"check", "mark", "peek"} /\ UNCHANGED <<row, suppressed, check, outcome>>
  BY DEF Check, Mark, Peek, checks, history
<1>2. \/ \E l \in {"upsert", "peek", "mark"} : GoTo(w, l)
      \/ \E a \in {"neutral", "error", "interrupted"} : Conclude(w, a)
      \/ Return(w)
  BY DEF Check, Mark, Peek, MeetMark
<1>3. ASSUME NEW l \in {"upsert", "peek", "mark"}, GoTo(w, l) PROVE SInv'
  BY <1>1, <1>3, SoloGo DEF Pcs, RowFits
<1>4. ASSUME NEW a \in {"neutral", "error", "interrupted"}, Conclude(w, a) PROVE SInv'
  <2>1. Turn(w) /\ pc'[w] \in {"resolve", "conclude"} /\ answer'[w] = a
    BY <1>1, <1>4, ConcludeTurns DEF Conclusions
  <2> QED
    BY <1>1, <2>1, SoloKeeps DEF RowFits
<1>5. CASE Return(w)
  <2>1. Turn(w) /\ pc'[w] = "idle" /\ answer'[w] = None
    BY <1>1, <1>5, EndTurns
  <2>2. None # "review"
    BY NoneAssumption DEF Conclusions
  <2> QED
    BY <1>1, <2>1, <2>2, SoloKeeps DEF RowFits
<1> QED
  BY <1>2, <1>3, <1>4, <1>5

LEMMA UpsertSolo ==
  ASSUME IInv, SInv, NEW w \in Slots, Upsert(w)
  PROVE  SInv'
<1>1. pc[w] = "upsert" /\ UNCHANGED <<row, suppressed, check, outcome>>
  BY DEF Upsert, SameRow, Others, NoHistory, checks, history
<1>2. CASE row.state = "published" /\ Answer(w, "review")
  BY <1>1, <1>2, SoloAnswer DEF RowFits, Conclusions
<1>3. CASE GoTo(w, "lookup")
  BY <1>1, <1>3, SoloGo DEF RowFits, Pcs
<1>4. CASE row.state # "published" /\ GoTo(w, "model")
  BY <1>1, <1>4, SoloGo DEF RowFits, Pcs
<1>5. CASE Raise(w, FALSE)
  BY <1>1, <1>5, SoloAnswer DEF RowFits, Conclusions
<1> QED
  BY <1>2, <1>3, <1>4, <1>5 DEF Upsert

LEMMA LookupSolo ==
  ASSUME IInv, SInv, NEW w \in Slots, Lookup(w)
  PROVE  SInv'
<1>1. pc[w] = "lookup" /\ UNCHANGED <<suppressed, check, outcome>>
  BY DEF Lookup, Others, NoHistory, checks, history
<1>2. row \in Rows
  BY DEF IInv, TInv, DataFits
<1>3. CASE SameRow /\ \E l \in {"release", "adopt"} : GoTo(w, l)
  BY <1>1, <1>3, SoloGo DEF RowFits, Pcs, SameRow
<1>4. CASE Raise(w, FALSE) /\ (SameRow \/ Write([row EXCEPT !.state = "failed", !.retryable = FALSE]))
  <2>1. RowFits => (row'.state = "published" => ~row'.retryable)
    BY <1>2, <1>4 DEF RowFits, SameRow, Write, Rows
  <2> QED
    BY <1>1, <1>4, <2>1, SoloAnswer DEF Conclusions
<1> QED
  BY <1>3, <1>4 DEF Lookup

LEMMA AdoptSolo ==
  ASSUME IInv, SInv, NEW w \in Slots, Adopt(w)
  PROVE  SInv'
<1>1. pc[w] = "adopt" /\ UNCHANGED <<suppressed, check, outcome>>
  BY DEF Adopt, Others, NoHistory, checks, history
<1>2. CASE ~row'.retryable /\ Answer(w, "review")
  BY <1>1, <1>2, SoloAnswer DEF Conclusions
<1>3. CASE SameRow /\ Raise(w, FALSE)
  BY <1>1, <1>3, SoloAnswer DEF RowFits, SameRow, Conclusions
<1> QED
  BY <1>2, <1>3 DEF Adopt, Write, IInv, TInv, DataFits, Rows

\* An invocation that leaves the publication to another is excepted.
LEMMA SuppressSolo ==
  ASSUME IInv, SInv, NEW w \in Slots, pc[w] \in {"release", "lost"}, Suppress(w), Others
  PROVE  SInv'
BY SoloAnswer DEF Suppress, Others, checks, Conclusions

LEMMA ReceiptSolo ==
  ASSUME IInv, SInv, NEW w \in Slots, pc[w] \in {"model", "head", "claim", "lost", "persist"},
         NEW r \in BOOLEAN, NEW t \in BOOLEAN, Receipt(w, r, t), Others, NoHistory,
         r => pc[w] = "model"
  PROVE  SInv'
<1>1. UNCHANGED <<suppressed, check, outcome>> /\ row \in Rows
  BY DEF Others, NoHistory, checks, history, IInv, TInv, DataFits
<1>2. PICK a \in {"error", "neutral"} : Answer(w, a) \/ (a = "error" /\ \E u \in BOOLEAN : Raise(w, u))
  BY DEF Receipt
<1>3. RowFits => (row'.state = "published" => ~row'.retryable)
  BY <1>1 DEF Receipt, RowFits, Write, SameRow, Rows
<1> QED
  BY <1>1, <1>2, <1>3, SoloAnswer DEF Conclusions

LEMMA ReleaseSolo ==
  ASSUME IInv, SInv, NEW w \in Slots, Release(w)
  PROVE  SInv'
<1>1. pc[w] = "release" /\ UNCHANGED <<check, outcome>> /\ Others /\ row \in Rows
  BY DEF Release, Others, checks, IInv, TInv, DataFits
<1>2. CASE Write([row EXCEPT !.state = "computed"]) /\ GoTo(w, "model") /\ NoHistory
  <2>1. row'.state = "computed" /\ suppressed' = suppressed
    BY <1>1, <1>2 DEF Write, Rows, NoHistory, history
  <2> QED
    BY <1>1, <1>2, <2>1, SoloGo DEF Pcs
<1>3. CASE Suppress(w)
  BY <1>1, <1>3, SuppressSolo
<1>4. CASE SameRow /\ Raise(w, FALSE) /\ NoHistory
  BY <1>1, <1>4, SoloAnswer DEF RowFits, SameRow, NoHistory, history, Conclusions
<1> QED
  BY <1>2, <1>3, <1>4 DEF Release

LEMMA ModelSolo ==
  ASSUME IInv, SInv, NEW w \in Slots, Model(w)
  PROVE  SInv'
<1>1. pc[w] = "model" /\ UNCHANGED <<suppressed, check, outcome>> /\ Others /\ NoHistory
  BY DEF Model, Others, NoHistory, checks, history
<1>2. CASE GoTo(w, "head") /\ SameRow
  BY <1>1, <1>2, SoloGo DEF RowFits, SameRow, Pcs
<1>3. CASE Answer(w, "neutral") /\ SameRow
  BY <1>1, <1>3, SoloAnswer DEF RowFits, SameRow, Conclusions
<1>4. ASSUME NEW t \in BOOLEAN, NEW u \in BOOLEAN, Receipt(w, t, u) PROVE SInv'
  BY <1>1, <1>4, ReceiptSolo
<1> QED
  BY <1>2, <1>3, <1>4 DEF Model

LEMMA ConfirmHeadSolo ==
  ASSUME IInv, SInv, NEW w \in Slots, ConfirmHead(w)
  PROVE  SInv'
<1>1. pc[w] = "head" /\ UNCHANGED <<suppressed, check, outcome>> /\ Others /\ NoHistory
  BY DEF ConfirmHead, Others, NoHistory, checks, history
<1>2. CASE GoTo(w, "claim") /\ SameRow
  BY <1>1, <1>2, SoloGo DEF RowFits, SameRow, Pcs
<1>3. CASE /\ Answer(w, "neutral")
           /\ SameRow \/ Write([row EXCEPT !.superseded = TRUE, !.retryable = FALSE])
  <2>1. RowFits => (row'.state = "published" => ~row'.retryable)
    BY <1>3 DEF RowFits, SameRow, Write, IInv, TInv, DataFits, Rows
  <2> QED
    BY <1>1, <1>3, <2>1, SoloAnswer DEF Conclusions
<1>4. CASE Receipt(w, FALSE, TRUE)
  BY <1>1, <1>4, ReceiptSolo
<1> QED
  BY <1>2, <1>3, <1>4 DEF ConfirmHead

LEMMA ClaimSolo ==
  ASSUME IInv, SInv, NEW w \in Slots, Claim(w)
  PROVE  SInv'
<1>1. pc[w] = "claim" /\ UNCHANGED <<suppressed, check, outcome>> /\ Others /\ NoHistory
  BY DEF Claim, Others, NoHistory, checks, history
<1>2. CASE /\ row' = [row EXCEPT !.state = "submitting", !.superseded = FALSE]
           /\ \E l \in {"post", "persist"} : GoTo(w, l)
  <2>1. row'.state = "submitting"
    BY <1>2 DEF IInv, TInv, DataFits, Rows
  <2> QED
    BY <1>1, <1>2, <2>1, SoloGo DEF Pcs
<1>3. CASE GoTo(w, "lost") /\ SameRow
  BY <1>1, <1>3, SoloGo DEF RowFits, SameRow, Pcs
<1>4. CASE Receipt(w, FALSE, FALSE)
  BY <1>1, <1>4, ReceiptSolo
<1> QED
  BY <1>2, <1>3, <1>4 DEF Claim

LEMMA LoseClaimSolo ==
  ASSUME IInv, SInv, NEW w \in Slots, LoseClaim(w)
  PROVE  SInv'
<1>1. pc[w] = "lost" /\ UNCHANGED <<check, outcome>> /\ Others
  BY DEF LoseClaim, Others, checks
<1>2. CASE row.state = "published" /\ Answer(w, "review") /\ SameRow /\ NoHistory
  BY <1>1, <1>2, SoloAnswer DEF RowFits, SameRow, NoHistory, history, Conclusions
<1>3. CASE Suppress(w)
  BY <1>1, <1>3, SuppressSolo
<1>4. CASE Answer(w, "neutral") /\ SameRow /\ NoHistory
  BY <1>1, <1>4, SoloAnswer DEF RowFits, SameRow, NoHistory, history, Conclusions
<1>5. CASE \E t \in BOOLEAN : Receipt(w, FALSE, t) /\ NoHistory
  BY <1>1, <1>5, ReceiptSolo
<1> QED
  BY <1>2, <1>3, <1>4, <1>5 DEF LoseClaim

LEMMA PostSolo ==
  ASSUME IInv, SInv, NEW w \in Slots, Post(w)
  PROVE  SInv'
<1>1. pc[w] = "post" /\ UNCHANGED <<row, suppressed, check, outcome>>
  BY DEF Post, Others, checks, history
<1>2. CASE pc' = [pc EXCEPT ![w] = "persist"] /\ UNCHANGED <<task, answer, target, queue>>
  <2>1. Turn(w) /\ pc'[w] = "persist" /\ answer'[w] = answer[w]
    BY <1>1, <1>2 DEF IInv, TInv, QueueFits, SInv, AnswersAreLast, Turn, queue
  <2> QED
    BY <1>1, <2>1, SoloKeeps DEF RowFits
<1>3. CASE GoTo(w, "undelivered")
  BY <1>1, <1>3, SoloGo DEF RowFits, Pcs
<1> QED
  BY <1>2, <1>3 DEF Post

LEMMA UndeliveredSolo ==
  ASSUME IInv, SInv, NEW w \in Slots, Undelivered(w)
  PROVE  SInv'
<1>1. pc[w] = "undelivered" /\ UNCHANGED <<suppressed, check, outcome>>
  BY DEF Undelivered, Others, NoHistory, checks, history
<1>2. RowFits => (row'.state = "published" => ~row'.retryable)
  BY DEF Undelivered, RowFits, SameRow, Write, IInv, TInv, DataFits, Rows
<1> QED
  BY <1>1, <1>2, SoloAnswer DEF Undelivered, Conclusions

LEMMA PersistSolo ==
  ASSUME IInv, SInv, NEW w \in Slots, Persist(w)
  PROVE  SInv'
<1>1. pc[w] = "persist" /\ UNCHANGED <<suppressed, check, outcome>> /\ Others /\ NoHistory
  BY DEF Persist, Others, NoHistory, checks, history
<1>2. CASE ~row'.retryable /\ Answer(w, "review")
  BY <1>1, <1>2, SoloAnswer DEF Conclusions
<1>3. CASE Receipt(w, FALSE, FALSE)
  BY <1>1, <1>3, ReceiptSolo
<1> QED
  BY <1>2, <1>3 DEF Persist, Write, IInv, TInv, DataFits, Rows

\* A job that joins the head is not the one that has it to itself, unless it is the
\* first: its check has had no review then.
LEMMA QueueSolo ==
  ASSUME IInv, SInv, NEW j \in Jobs, Queue(j)
  PROVE  SInv'
<1>1. /\ job[j] = "absent" /\ job' = [job EXCEPT ![j] = "waiting"]
      /\ UNCHANGED <<row, check, outcome, lost, owner, pc, task, answer, suppressed>>
  BY DEF Queue, slots, history
<1>2. job'[j] = "waiting"
  BY <1>1 DEF IInv, TInv, QueueFits
<1>3. ASSUME NEW h \in Hooks, Alone(h)' PROVE (RowFits /\ ConclusionIsKept(h))'
  <2>1. h = j
    BY <1>2, <1>3 DEF Alone, Jobs
  <2>2. \A i \in Jobs \ {h} : job[i] = "absent"
    BY <1>1, <1>3, <2>1 DEF Alone, IInv, TInv, QueueFits
  <2>3. Alone(h)
    BY <1>1, <1>3, <2>2 DEF Alone
  <2>4. RowFits /\ ConclusionIsKept(h)
    BY <2>3 DEF SInv
  <2>5. check[h] = "review" => outcome[h] = "review"
    BY <1>1, <2>1, <2>4 DEF ConclusionIsKept
  <2> QED
    BY <1>1, <2>4, <2>5 DEF RowFits, ConclusionIsKept
<1> QED
  BY <1>1, <1>3 DEF SInv, LocksHeld, AnswersAreLast

LEMMA TakeSolo ==
  ASSUME IInv, SInv, NEW w \in Slots, NEW j \in Jobs, Take(w, j)
  PROVE  SInv'
<1>1. /\ pc[w] = "idle" /\ job[j] = "waiting" /\ j \in Hooks \cup Commands \cup Dashboards
      /\ job' = [job EXCEPT ![j] = "active"] /\ owner' = [owner EXCEPT ![j] = w]
      /\ pc' = [pc EXCEPT ![w] = IF j \in Dashboards THEN "upsert" ELSE "start"]
      /\ task' = [task EXCEPT ![w] = j]
      /\ UNCHANGED <<row, check, outcome, lost, answer, suppressed>>
  BY DEF Take, checks, history, Jobs
<1>2. owner[j] = None
  BY <1>1 DEF IInv, TInv, QueueFits
<1>3. LocksHeld'
  BY <1>1, <1>2, NoneAssumption DEF IInv, TInv, QueueFits, SInv, LocksHeld
<1>4. AnswersAreLast'
  BY <1>1 DEF IInv, TInv, QueueFits, SInv, AnswersAreLast
<1>5. ASSUME NEW h \in Hooks, Alone(h)' PROVE (RowFits /\ ConclusionIsKept(h))'
  <2>1. job'[j] = "active" /\ \A i \in Jobs : (job'[i] = "absent" <=> job[i] = "absent")
    BY <1>1 DEF IInv, TInv, QueueFits
  <2>2. h = j /\ Alone(h)
    BY <1>1, <1>5, <2>1 DEF Alone, Jobs
  <2>3. RowFits /\ ConclusionIsKept(h)
    BY <2>2 DEF SInv
  <2>4. pc'[w] = "start" /\ \A v \in Slots \ {w} : pc'[v] = pc[v]
    BY <1>1, <2>2, KindsAssumption DEF IInv, TInv, QueueFits
  <2>5. check[h] = "review" => outcome[h] = "review"
    BY <1>1, <2>2, <2>3 DEF ConclusionIsKept
  <2>6. RowFits'
    BY <1>1, <2>3, <2>4 DEF RowFits
  <2> QED
    BY <1>1, <2>3, <2>4, <2>5, <2>6 DEF ConclusionIsKept
<1> QED
  BY <1>3, <1>4, <1>5 DEF SInv

LEMMA LoseLockSolo ==
  ASSUME IInv, SInv, NEW j \in Jobs, LoseLock(j)
  PROVE  SInv'
<1>1. lost' # {}
  BY DEF LoseLock
<1>2. AnswersAreLast'
  BY DEF LoseLock, Free, slots, IInv, TInv, QueueFits, SInv, AnswersAreLast
<1> QED
  BY <1>1, <1>2 DEF SInv, LocksHeld, Alone

\* Time, a push and the supersession job leave the queue and the checks alone.
LEMMA OutsideSolo ==
  ASSUME IInv, SInv, Age \/ Push \/ Sync \/ UNCHANGED vars
  PROVE  SInv'
<1>1. UNCHANGED <<check, outcome, suppressed, job, attempts, lost, owner, pc, task, own, answer>>
  BY DEF Age, Push, Sync, SyncSelect, SyncLookup, SyncNotice, SyncMark, Unsynced, vars, checks,
         queue, slots, history
<1>2. row'.state = row.state /\ (row'.retryable => row.retryable)
  BY DEF Age, Push, Sync, SyncSelect, SyncLookup, SyncNotice, SyncMark, Unsynced, vars,
         IInv, TInv, DataFits, Rows
<1>3. RowFits => RowFits'
  BY <1>1, <1>2 DEF RowFits
<1>4. \A h \in Hooks : ConclusionIsKept(h) => ConclusionIsKept(h)'
  BY <1>1, <1>2 DEF ConclusionIsKept
<1> QED
  BY <1>1, <1>3, <1>4 DEF SInv, LocksHeld, AnswersAreLast, Alone

LEMMA InitSolo == Init => SInv
BY NoneAssumption DEF Init, SInv, LocksHeld, AnswersAreLast, RowFits, ConclusionIsKept, Conclusions

LEMMA NextSolo ==
  ASSUME IInv, SInv, [Next]_vars
  PROVE  SInv'
<1>1. ASSUME NEW w \in Slots, Run(w) PROVE SInv'
  BY <1>1, ResolvePointerSolo, ApplyConclusionSolo, StartSolo, BeforeReviewSolo, UpsertSolo,
     LookupSolo, AdoptSolo, ReleaseSolo, ModelSolo, ConfirmHeadSolo, ClaimSolo, LoseClaimSolo,
     PostSolo, UndeliveredSolo, PersistSolo DEF Run
<1> QED
  BY <1>1, QueueSolo, LoseLockSolo, TakeSolo, OutsideSolo DEF Next

\* Only two steps conclude a check, and neither brings an error after the review of
\* a job that has the head to itself.
LEMMA NextConcludes ==
  ASSUME IInv, SInv, [Next]_vars, NEW h \in Hooks, check[h] = "review",
         check'[h] \in {"error", "interrupted"}
  PROVE  lost # {} \/ suppressed \/ \E j \in Jobs \ {h} : job[j] # "absent"
<1>1. SUFFICES ASSUME Alone(h) PROVE FALSE
  BY DEF Alone
<1>2. ConclusionIsKept(h)
  BY <1>1 DEF SInv
<1>3. PICK w \in Slots : Start(w) \/ ApplyConclusion(w)
  <2>1. check' # check
    OBVIOUS
  <2> QED
    BY <2>1 DEF Next, vars, checks, Run, Queue, LoseLock, Take, ResolvePointer, Check, Mark, Peek,
       Upsert, Lookup, Adopt, Release, Model, ConfirmHead, Claim, LoseClaim, Post, Undelivered,
       Persist, Others, Age, Push, Sync, SyncSelect, SyncLookup, SyncNotice, SyncMark, Unsynced
<1>4. pc[w] \in {"start", "conclude"} /\ pc[w] # "idle"
  BY <1>3 DEF Start, ApplyConclusion
<1>5. task[w] = h /\ job[h] = "active"
  BY <1>1, <1>4, AloneWorks
<1>6. outcome[h] = "review" /\ pc[w] \in {"idle", "start"}
  BY <1>2, <1>5 DEF ConclusionIsKept
<1>7. Start(w)
  BY <1>3, <1>4, <1>6 DEF ApplyConclusion
<1>8. check'[h] \in {check[h], "review"}
  BY <1>5, <1>6, <1>7, NoneAssumption
     DEF Start, Patched, NotPatched, checks, IInv, TInv, DataFits, Conclusions
<1> QED
  BY <1>8

\* A webhook job that has the head to itself never has the conclusion of its review
\* replaced by an error: the conclusion stays in store until GitHub has confirmed it
\* or the job is over, and nothing asks for a retry meanwhile (services/checkRunFinalizer,
\* the replay at the head of ai-review in workers/phase4Worker.js).
THEOREM ConclusionsAreKept == Spec => ConclusionsStand
<1>1. Init => SInv
  BY InitSolo
<1>2. IInv /\ SInv /\ [Next]_vars => SInv'
  BY NextSolo
<1>3. IInv /\ SInv /\ [Next]_vars =>
        [\A h \in Hooks :
           check[h] = "review" /\ check'[h] \in {"error", "interrupted"} =>
             lost # {} \/ suppressed \/ \E j \in Jobs \ {h} : job[j] # "absent"]_vars
  BY NextConcludes
<1> QED
  BY <1>1, <1>2, <1>3, Inductive, PTL DEF Spec, ConclusionsStand

-----------------------------------------------------------------------------
(* Every check gets its conclusion *)

\* An attempt holds h's lock.
AtWork(h) == \E w \in Slots : owner[h] = w /\ pc[w] # "idle" /\ task[w] = h

\* A webhook job whose check has no conclusion yet is still to be run, is being
\* run under its lock, or has failed for good.
NoCheckIsDropped ==
  \A h \in Hooks :
    check[h] = "queued" =>
      job[h] \in {"absent", "waiting", "failed"} \/ (job[h] = "active" /\ AtWork(h))

\* A webhook job's attempt concludes the job's own check, a job that runs has its
\* lock held, and a job that is complete has its check concluded.
AInv ==
  /\ \A w \in Slots : task[w] \in Hooks => target[w] = task[w] /\ pc[w] # "resolve"
  /\ \A j \in Jobs : job[j] = "active" => owner[j] # None
  /\ \A h \in Hooks : job[h] = "completed" => check[h] # "queued"

\* What a step of w's attempt does to the jobs: it goes on, or it leaves the job
\* for another attempt, failed, or complete.
Moves(w) ==
  /\ \A v \in Slots \ {w} : UNCHANGED <<pc[v], task[v], target[v]>>
  /\ \/ task'[w] = None
     \/ /\ task'[w] = task[w] /\ (task[w] \in Hooks => target'[w] = target[w])
        /\ task[w] \in Hooks => pc'[w] # "resolve"
  /\ \A j \in Jobs :
       \/ owner'[j] = owner[j] /\ job'[j] = job[j]
       \/ owner[j] = w /\ job'[j] \in {"waiting", "failed"}
       \/ owner[j] = w /\ job'[j] = "completed" /\ (j \in Hooks => check'[j] # "queued")

\* No conclusion is taken back.
Concluded == \A h \in Hooks : check[h] # "queued" => check'[h] # "queued"

LEMMA MovesAnswer ==
  ASSUME IInv, AInv, NEW w \in Slots, Moves(w), Concluded
  PROVE  AInv'
<1>1. ASSUME NEW v \in Slots, task'[v] \in Hooks
      PROVE  target'[v] = task'[v] /\ pc'[v] # "resolve"
  BY <1>1, NoneAssumption DEF AInv, Moves, Jobs
<1>2. ASSUME NEW j \in Jobs, job'[j] = "active" PROVE owner'[j] # None
  BY <1>2 DEF AInv, Moves
<1>3. ASSUME NEW h \in Hooks, job'[h] = "completed" PROVE check'[h] # "queued"
  BY <1>3 DEF AInv, Moves, Concluded, Jobs
<1> QED
  BY <1>1, <1>2, <1>3 DEF AInv

LEMMA GoToMoves ==
  ASSUME IInv, AInv, NEW w \in Slots, NEW l \in Pcs \ {"resolve"},
         pc' = [pc EXCEPT ![w] = l], UNCHANGED <<task, target, queue>>
  PROVE  Moves(w)
BY DEF Moves, IInv, TInv, QueueFits, queue

LEMMA ConcludeMoves ==
  ASSUME IInv, AInv, NEW w \in Slots, NEW a, Conclude(w, a)
  PROVE  Moves(w)
<1>1. task[w] \in Hooks => task[w] \notin Commands
  BY KindsAssumption
<1> QED
  BY <1>1 DEF Moves, Conclude, IInv, TInv, QueueFits, queue

LEMMA LeaveMoves ==
  ASSUME IInv, AInv, NEW w \in Slots, NEW s \in {"waiting", "failed", "completed"}, Leave(w, s),
         s = "completed" /\ task[w] \in Hooks => check'[task[w]] # "queued"
  PROVE  Moves(w)
<1>1. \A j \in Jobs : owner[j] = w => j = task[w]
  BY NoneAssumption DEF IInv, TInv, QueueFits
<1> QED
  BY <1>1 DEF Moves, Leave, Free, IInv, TInv, QueueFits

LEMMA ReturnMoves ==
  ASSUME IInv, AInv, NEW w \in Slots, Return(w),
         task[w] \in Hooks => check'[task[w]] # "queued"
  PROVE  Moves(w)
BY LeaveMoves DEF Return

LEMMA ThrowMoves ==
  ASSUME IInv, AInv, NEW w \in Slots, Throw(w)
  PROVE  Moves(w)
BY LeaveMoves DEF Throw

\* Only the dashboard's jobs end with the review; they have no check.
LEMMA AnswerMoves ==
  ASSUME IInv, AInv, NEW w \in Slots,
         (\E a : Answer(w, a)) \/ (\E t : Raise(w, t))
  PROVE  Moves(w)
<1>1. task[w] \in Dashboards => task[w] \notin Hooks
  BY KindsAssumption
<1> QED
  BY <1>1, ConcludeMoves, ReturnMoves, ThrowMoves DEF Answer, Raise

\* GitHub's answers leave the check of an attempt concluded, or as it was.
LEMMA PatchConcludes ==
  ASSUME IInv, NEW h \in Hooks, NEW a \in Conclusions, Patched(h, a) \/ NotPatched(h, a)
  PROVE  Concluded /\ (Patched(h, a) => check'[h] # "queued")
BY DEF Patched, NotPatched, Concluded, IInv, TInv, DataFits, Conclusions

LEMMA StartAnswers ==
  ASSUME IInv, AInv, NEW w \in Slots, Start(w)
  PROVE  AInv'
<1>1. pc[w] = "start" /\ "check" \in Pcs \ {"resolve"}
  BY DEF Start, Pcs
<1>2. CASE GoTo(w, "check") /\ UNCHANGED checks
  BY <1>1, <1>2, GoToMoves, MovesAnswer DEF GoTo, checks, Concluded
<1>3. CASE task[w] \in Hooks /\ outcome[task[w]] # None
  <2>1. PICK h \in Hooks, a \in Conclusions : h = task[w] /\ a = outcome[h]
    BY <1>3 DEF IInv, TInv, DataFits
  <2>2. CASE Patched(h, a) /\ (GoTo(w, "check") \/ Return(w))
    <3>1. Concluded /\ check'[h] # "queued"
      BY <2>2, PatchConcludes
    <3>2. Moves(w)
      BY <1>1, <2>1, <2>2, <3>1, GoToMoves, ReturnMoves DEF GoTo
    <3> QED
      BY <3>1, <3>2, MovesAnswer
  <2>3. CASE NotPatched(h, a) /\ Throw(w)
    BY <2>3, PatchConcludes, ThrowMoves, MovesAnswer
  <2> QED
    BY <1>3, <2>1, <2>2, <2>3 DEF Start
<1> QED
  BY <1>2, <1>3 DEF Start

LEMMA ApplyConclusionAnswers ==
  ASSUME IInv, AInv, NEW w \in Slots, ApplyConclusion(w)
  PROVE  AInv'
<1>1. pc[w] = "conclude" /\ answer[w] \in Conclusions
  BY DEF ApplyConclusion, IInv, TInv, QueueFits
<1>2. CASE target[w] \in Hooks
  <2>1. Concluded /\ (Patched(target[w], answer[w]) => check'[target[w]] # "queued")
    BY <1>1, <1>2, PatchConcludes DEF ApplyConclusion
  <2>2. task[w] \in Hooks => target[w] = task[w]
    BY DEF AInv
  <2>3. Moves(w)
    BY <2>1, <2>2, ReturnMoves, ThrowMoves DEF ApplyConclusion
  <2> QED
    BY <2>1, <2>3, MovesAnswer
<1>3. CASE target[w] \notin Hooks
  <2>1. task[w] \notin Hooks
    BY <1>3 DEF AInv
  <2>2. \A h \in Hooks : check'[h] = check[h]
    BY <1>3 DEF ApplyConclusion, Patched, NotPatched, IInv, TInv, DataFits
  <2>3. Moves(w)
    BY <2>1, ReturnMoves, ThrowMoves DEF ApplyConclusion
  <2> QED
    BY <2>2, <2>3, MovesAnswer DEF Concluded
<1> QED
  BY <1>2, <1>3

LEMMA ResolvePointerAnswers ==
  ASSUME IInv, AInv, NEW w \in Slots, ResolvePointer(w)
  PROVE  AInv'
<1>1. /\ pc[w] = "resolve" /\ task[w] \notin Hooks /\ UNCHANGED check
  BY DEF ResolvePointer, AInv, checks
<1>2. Moves(w)
  <2>1. CASE pointer # None
    BY <1>1, <2>1 DEF ResolvePointer, Moves, IInv, TInv, QueueFits, queue
  <2>2. CASE pointer = None
    BY <1>1, <2>2, ReturnMoves, ThrowMoves DEF ResolvePointer
  <2> QED
    BY <2>1, <2>2
<1> QED
  BY <1>1, <1>2, MovesAnswer DEF Concluded

\* A repeated attempt that meets the mark looks at its check before it returns.
LEMMA BeforeReviewAnswers ==
  ASSUME IInv, AInv, NEW w \in Slots, Check(w) \/ Mark(w) \/ Peek(w)
  PROVE  AInv'
<1>1. UNCHANGED check
  BY DEF Check, Mark, Peek, checks
<1>2. \/ \E l \in {"upsert", "peek", "mark"} : GoTo(w, l)
      \/ \E a : Conclude(w, a)
      \/ Return(w) /\ (task[w] \in Hooks => check[task[w]] # "queued")
  BY DEF Check, Mark, Peek, MeetMark
<1>3. Moves(w)
  <2>1. ASSUME NEW l \in {"upsert", "peek", "mark"}, GoTo(w, l) PROVE Moves(w)
    BY <2>1, GoToMoves DEF GoTo, Pcs
  <2> QED
    BY <1>1, <1>2, <2>1, ConcludeMoves, ReturnMoves
<1> QED
  BY <1>1, <1>3, MovesAnswer DEF Concluded

\* The review itself ends no webhook job.
LEMMA ReviewMoves ==
  ASSUME IInv, AInv, NEW w \in Slots,
         \/ Upsert(w) \/ Lookup(w) \/ Adopt(w) \/ Release(w) \/ Model(w) \/ ConfirmHead(w)
         \/ Claim(w) \/ LoseClaim(w) \/ Post(w) \/ Undelivered(w) \/ Persist(w)
  PROVE  Moves(w)
<1> DEFINE Goes == \E l \in Pcs \ {"resolve"} :
                     pc' = [pc EXCEPT ![w] = l] /\ UNCHANGED <<task, target, queue>>
           Ends == (\E a : Answer(w, a)) \/ (\E t : Raise(w, t))
<1> SUFFICES Goes \/ Ends
  BY GoToMoves, AnswerMoves
<1>1. ASSUME NEW l \in Pcs \ {"resolve"}, GoTo(w, l) PROVE Goes
  BY <1>1 DEF GoTo
<1>2. \A r, t : Receipt(w, r, t) => Ends
  BY DEF Receipt
<1>3. Suppress(w) => Ends
  BY DEF Suppress
<1>4. CASE Upsert(w) \/ Lookup(w) \/ Adopt(w)
  BY <1>4, <1>1 DEF Upsert, Lookup, Adopt, Pcs
<1>5. CASE Release(w) \/ Model(w) \/ ConfirmHead(w)
  BY <1>5, <1>1, <1>2, <1>3 DEF Release, Model, ConfirmHead, Pcs
<1>6. CASE Claim(w) \/ LoseClaim(w)
  BY <1>6, <1>1, <1>2, <1>3 DEF Claim, LoseClaim, Pcs
<1>7. CASE Post(w)
  BY <1>7, <1>1 DEF Post, Pcs
<1>8. CASE Undelivered(w) \/ Persist(w)
  BY <1>8, <1>2 DEF Undelivered, Persist
<1> QED
  BY <1>4, <1>5, <1>6, <1>7, <1>8

LEMMA ReviewAnswers ==
  ASSUME IInv, AInv, NEW w \in Slots, Run(w)
  PROVE  AInv'
<1>1. CASE Start(w) \/ ApplyConclusion(w) \/ ResolvePointer(w) \/ Check(w) \/ Mark(w) \/ Peek(w)
  BY <1>1, StartAnswers, ApplyConclusionAnswers, ResolvePointerAnswers, BeforeReviewAnswers
<1>2. CASE \/ Upsert(w) \/ Lookup(w) \/ Adopt(w) \/ Release(w) \/ Model(w) \/ ConfirmHead(w)
           \/ Claim(w) \/ LoseClaim(w) \/ Post(w) \/ Undelivered(w) \/ Persist(w)
  <2>1. UNCHANGED check
    BY <1>2 DEF Upsert, Lookup, Adopt, Release, Model, ConfirmHead, Claim, LoseClaim, Post,
       Undelivered, Persist, Others, checks
  <2> QED
    BY <1>2, <2>1, ReviewMoves, MovesAnswer DEF Concluded
<1> QED
  BY <1>1, <1>2 DEF Run

LEMMA NextAnswers == IInv /\ AInv /\ [Next]_vars => AInv'
<1> SUFFICES ASSUME IInv, AInv, [Next]_vars PROVE AInv'
  OBVIOUS
<1>1. ASSUME NEW j \in Jobs, Queue(j) PROVE AInv'
  BY <1>1 DEF Queue, slots, AInv, IInv, TInv, QueueFits, Jobs
<1>2. ASSUME NEW j \in Jobs, LoseLock(j) PROVE AInv'
  <2>1. /\ job' = [job EXCEPT ![j] = IF <<j, 1>> \in lost THEN "failed" ELSE "waiting"]
        /\ owner' = [owner EXCEPT ![j] = None] /\ UNCHANGED check
    BY <1>2 DEF LoseLock, checks
  <2>2. \A v \in Slots : \/ task'[v] = None
                         \/ UNCHANGED <<pc[v], task[v], target[v]>>
    BY <1>2 DEF LoseLock, Free, slots, IInv, TInv, QueueFits
  <2> QED
    BY <2>1, <2>2, NoneAssumption DEF AInv, IInv, TInv, QueueFits, Jobs
<1>3. ASSUME NEW w \in Slots, NEW j \in Jobs, Take(w, j) PROVE AInv'
  BY <1>3, NoneAssumption DEF Take, checks, AInv, IInv, TInv, QueueFits, Jobs
<1>4. CASE Age \/ Push \/ Sync \/ UNCHANGED vars
  <2>1. UNCHANGED <<check, job, owner, pc, task, target>>
    BY <1>4 DEF Age, Push, Sync, SyncSelect, SyncLookup, SyncNotice, SyncMark, Unsynced, vars,
       checks, queue, slots
  <2> QED
    BY <2>1 DEF AInv
<1> QED
  BY <1>1, <1>2, <1>3, <1>4, ReviewAnswers DEF Next

\* No webhook job ends while its check is still queued: whatever was refused, lost
\* or repeated, the check is concluded, or somebody has the job in hand, or the job
\* has failed for good (finalizeOwn and finalizeOwnFailure in workers/phase4Worker.js).
\* It is the safety part of CheckIsAnswered.
THEOREM ChecksAreAnswered == Spec => []NoCheckIsDropped
<1>1. Init => AInv
  BY NoneAssumption DEF Init, AInv, Jobs
<1>2. IInv /\ AInv => NoCheckIsDropped
  <2>1. SUFFICES ASSUME IInv, AInv, NEW h \in Hooks, check[h] = "queued"
                 PROVE  \/ job[h] \in {"absent", "waiting", "failed"}
                        \/ job[h] = "active" /\ AtWork(h)
    BY DEF NoCheckIsDropped
  <2> QED
    BY <2>1 DEF AInv, AtWork, IInv, TInv, QueueFits, Jobs
<1> QED
  BY <1>1, <1>2, NextAnswers, Inductive, PTL DEF Spec

-----------------------------------------------------------------------------
(* A publication is final *)

PublicationStands ==
  [][~slow /\ row.state = "published" => row'.state = "published" /\ row'.review = row.review]_vars

LEMMA NextPublishes ==
  ASSUME IInv, [Next]_vars, ~slow, row.state = "published"
  PROVE  row'.state = "published" /\ row'.review = row.review
<1>1. row \in Rows /\ reviews = 1 /\ row.review = 1
  BY DEF IInv, TInv, DataFits, StateTellsPublication
<1>2. \A r, t : \A w : Receipt(w, r, t) => row'.state = row.state /\ row'.review = row.review
  BY <1>1 DEF Receipt, SameRow, Write, Rows
<1>3. ASSUME NEW w \in Slots, Run(w) PROVE row'.state = "published" /\ row'.review = row.review
  <2>1. FitsSlot(w)
    BY DEF IInv, ClaimIsHeld
  <2>2. CASE ResolvePointer(w) \/ ApplyConclusion(w) \/ Start(w) \/ Check(w) \/ Mark(w)
             \/ Peek(w) \/ Upsert(w) \/ Post(w)
    BY <2>2 DEF ResolvePointer, ApplyConclusion, Start, Check, Mark, Peek, Upsert, Post, SameRow
  <2>3. CASE Lookup(w)
    <3>1. ~(reviews > 1)
      BY <1>1
    <3>2. SameRow
      BY <2>3, <3>1 DEF Lookup
    <3> QED
      BY <3>2 DEF SameRow
  <2>8. CASE Adopt(w)
    <3>1. row' = row \/ row' = [row EXCEPT !.state = "published", !.review = 1,
                                          !.retryable = FALSE]
      BY <2>8 DEF Adopt, SameRow, Write
    <3> QED
      BY <1>1, <3>1 DEF Rows
  <2>4. CASE Release(w) \/ LoseClaim(w)
    BY <1>1, <1>2, <2>4 DEF Release, LoseClaim, Suppress, SameRow, Write, Rows
  <2>5. CASE Model(w) \/ ConfirmHead(w) \/ Claim(w)
    BY <1>1, <1>2, <2>5 DEF Model, ConfirmHead, Claim, SameRow, Write, Rows
  <2>6. CASE Undelivered(w)
    BY <1>1, <2>6 DEF Undelivered, SameRow, Write, Rows
  <2>7. CASE Persist(w)
    <3>1. own[w] = 1
      BY <1>1, <2>1, <2>7 DEF Persist, FitsSlot
    <3>2. CASE Receipt(w, FALSE, FALSE)
      BY <1>1, <1>2, <3>2
    <3>3. CASE row' = [row EXCEPT !.state = IF own[w] # 0 THEN "published" ELSE "computed",
                                  !.review = own[w], !.retryable = FALSE]
      BY <1>1, <3>1, <3>3 DEF Rows
    <3> QED
      BY <2>7, <3>2, <3>3 DEF Persist, Write
  <2> QED
    BY <1>3, <2>2, <2>3, <2>4, <2>5, <2>6, <2>7, <2>8 DEF Run
<1>4. CASE Age \/ Push \/ Sync \/ UNCHANGED vars
  BY <1>1, <1>4 DEF Age, Push, Sync, SyncSelect, SyncLookup, SyncNotice, SyncMark, Unsynced, vars,
     Rows
<1> QED
  BY <1>3, <1>4 DEF Next, Queue, LoseLock, Take

\* Once a row is published it stays so and keeps its review, whatever late or
\* repeated invocation writes to it afterwards, until one has rested for ten minutes
\* amid its publication (the guards of the UPDATEs of services/aiReviewService.js).
THEOREM PublicationIsFinal == Spec => PublicationStands
<1>1. IInv /\ [Next]_vars =>
        [~slow /\ row.state = "published" =>
           row'.state = "published" /\ row'.review = row.review]_vars
  BY NextPublishes
<1> QED
  BY <1>1, Inductive, PTL DEF Spec, PublicationStands
=============================================================================

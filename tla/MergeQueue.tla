------------------------------ MODULE MergeQueue ------------------------------
(***************************************************************************)
(* The auto-merge queue of one repository: services/mergeQueueService.js   *)
(* over merge_queue_entries, as the jobs of workers/phase2Worker.js and    *)
(* the requests of routes/phase2.js call it, and the pull requests on      *)
(* GitHub, which authors push to and close meanwhile.                      *)
(*                                                                         *)
(* Every statement and every GitHub call of a call is a step.  Except for  *)
(* ready -> merging and for removals, a row is updated by id alone.        *)
(***************************************************************************)
EXTENDS Naturals, FiniteSets, FiniteSetsExt

CONSTANTS
  Calls,     \* what runs at the same time: a caller makes one call after another
  Prs,
  MaxDepth,  \* bound: largest max_queue_depth
  MaxHead,   \* bound: pushes to a pull request
  MaxCalls,  \* bound: calls made
  MaxDeaths, \* bound: calls that die
  None

ASSUME PrsAssumption == IsFiniteSet(Prs)
ASSUME BoundsAssumption ==
  MaxDepth \in Nat \ {0} /\ {MaxHead, MaxCalls, MaxDeaths} \subseteq Nat

Statuses == {"pending", "ready", "merging", "merged", "blocked", "removed"}

\* No row, or nothing read yet: a value of none of these.
ASSUME NoneAssumption == None \notin Prs \cup Nat \cup Statuses

VARIABLES
  \* merge_queue_entries, with status None where there is no row
  status, sha, position,
  admitted,     \* admitted_at, as the row's place in the order of the INSERTs
  limit,        \* max_queue_depth of the repository's merge_queue_config
  \* GitHub
  state, head,  \* of each pull request; a head is the number of pushes
  green,        \* heads <<pr, h>> whose required checks have passed
  call,         \* of each caller: where it is, its pull request, the head it
                \* read, the position it will give
  made, deaths, \* how many calls were made, and died
  \* history
  mergedHead,   \* the head the queue merged
  moved,        \* head or head_sha changed while a call relied on it
  dequeued,     \* removed while no other call was at work on it
  irregular     \* entries that entered the queue by more than one admission,
                \* with another one, or without one, or whose place a
                \* renumbering gave away before the INSERT

rows == <<status, sha, position, admitted, limit>>
github == <<state, head, green>>
history == <<mergedHead, moved, dequeued, irregular>>
bounds == <<made, deaths>>
vars == <<rows, github, call, bounds, history>>

Live == {p \in Prs : status[p] \in {"pending", "ready", "merging"}}
\* What the calls of the others than c are doing to p.
Others(c, p) == {call[q].at : q \in {o \in Calls \ {c} : call[o].pr = p}}

\* p, if another call than c has read its row and relies on its head.
Relied(c, p) == {q \in {p} : Others(c, p) \cap {"verdict", "ready"} # {}}

Idle == [at |-> "idle", pr |-> None, seen |-> None, place |-> 0]
At(c, l) == call[c].at = l

\* Call c goes on at l; returning, it forgets what it read.
Goto(c, l) ==
  call' = [call EXCEPT ![c] = IF l = "idle" THEN Idle ELSE [call[c] EXCEPT !.at = l]]
Look(c, p, h, l) ==
  call' = [call EXCEPT ![c] = [at |-> l, pr |-> p, seen |-> h, place |-> 0]]

\* Caller c makes a new call.
Start(c) ==
  /\ At(c, "idle") /\ made < MaxCalls
  /\ made' = made + 1
  /\ UNCHANGED deaths

\* Call c writes status s into the row of its pull request.
SetStatus(c, s) == status' = [status EXCEPT ![call[c].pr] = s]

\* An entry that a write brings back into the queue.
Revived(c) == {call[c].pr} \ Live

-----------------------------------------------------------------------------
(* admitToQueue *)

\* An eligible pull request, as the webhook or the request saw it.
StartAdmit(c) ==
  /\ Start(c)
  /\ \E p \in Prs :
       /\ state[p] = "open"
       /\ Look(c, p, head[p], "count")
  /\ UNCHANGED <<rows, github, history>>

CountEntries(c) ==
  /\ At(c, "count")
  /\ Goto(c, IF Cardinality(Live) < limit THEN "place" ELSE "idle")
  /\ UNCHANGED <<rows, github, bounds, history>>

\* Mutant: the last position that is taken.
LastPlace(c) ==
  /\ At(c, "place")
  /\ call' = [call EXCEPT ![c].at = "insert",
                           ![c].place = Max({position[p] : p \in Live} \cup {0})]
  /\ UNCHANGED <<rows, github, bounds, history>>

\* max_pos + 1; then the required checks are read from GitHub.
FindPlace(c) ==
  /\ At(c, "place")
  /\ call' = [call EXCEPT ![c].at = "insert",
                           ![c].place = Max({position[p] : p \in Live} \cup {0}) + 1]
  /\ UNCHANGED <<rows, github, bounds, history>>

\* INSERT ... ON CONFLICT (repo_id, pr_number) DO UPDATE head_sha and status:
\* a row that is there keeps its position and admitted_at.
InsertEntry(c) ==
  LET p == call[c].pr
      new == status[p] = None
      rivals == {q \in Calls \ {c} : call[q].at \in {"place", "insert"}} IN
  /\ At(c, "insert")
  /\ status' = [status EXCEPT ![p] = "pending"]
  /\ sha' = [sha EXCEPT ![p] = call[c].seen]
  /\ position' = IF new THEN [position EXCEPT ![p] = call[c].place] ELSE position
  /\ admitted' = IF new
                 THEN [admitted EXCEPT
                         ![p] = 1 + Cardinality({q \in Prs : status[q] # None})]
                 ELSE admitted
  /\ Goto(c, "idle")
  /\ dequeued' = dequeued \ {p}
  /\ moved' = IF sha[p] # call[c].seen THEN moved \cup Relied(c, p) ELSE moved
  /\ irregular' = irregular
       \cup (IF rivals = {} THEN {} ELSE {p} \cup {call[q].pr : q \in rivals})
       \cup (IF new THEN {} ELSE {p})
  /\ UNCHANGED <<limit, github, bounds, mergedHead>>

-----------------------------------------------------------------------------
(* onChecksUpdated *)

\* Mutant: the SELECT takes entries of any status.
SelectAnyEntry(c) ==
  /\ Start(c)
  /\ \E p \in Prs :
       /\ status[p] # None
       /\ Look(c, p, sha[p], "verdict")
  /\ UNCHANGED <<rows, github, history>>

\* SELECT the pending or ready entry with the head the webhook names.
SelectEntry(c) ==
  /\ Start(c)
  /\ \E p \in Prs :
       /\ status[p] \in {"pending", "ready"}
       /\ Look(c, p, sha[p], "verdict")
  /\ UNCHANGED <<rows, github, history>>

\* Mutant: checks that have not failed count as passed.
VerdictNotFailed(c) ==
  /\ At(c, "verdict")
  /\ \E l \in {"ready", "block"} : Goto(c, l)
  /\ UNCHANGED <<rows, github, bounds, history>>

\* GET the check runs of that head: all required ones passed, one failed (a
\* re-run may), or neither.
Verdict(c) ==
  /\ At(c, "verdict")
  /\ \/ <<call[c].pr, call[c].seen>> \in green /\ Goto(c, "ready")
     \/ Goto(c, "block")
     \/ <<call[c].pr, call[c].seen>> \notin green /\ Goto(c, "idle")
  /\ UNCHANGED <<rows, github, bounds, history>>

\* UPDATE ... WHERE id.
WriteReady(c) ==
  /\ At(c, "ready")
  /\ SetStatus(c, "ready")
  /\ irregular' = irregular \cup Revived(c)
  /\ Goto(c, "front")
  /\ UNCHANGED <<sha, position, admitted, limit, github, bounds,
                 mergedHead, moved, dequeued>>

\* Failed checks, and the catch block of processQueue.
WriteBlocked(c) ==
  /\ At(c, "block")
  /\ SetStatus(c, "blocked")
  /\ Goto(c, "idle")
  /\ UNCHANGED <<sha, position, admitted, limit, github, bounds, history>>

-----------------------------------------------------------------------------
(* processQueue *)

\* SELECT the ready entry with the lowest position, ...
Front(c) ==
  LET ready == {p \in Prs : status[p] = "ready"} IN
  /\ At(c, "front")
  /\ \/ ready = {} /\ Goto(c, "idle")
     \/ \E p \in ready :
          /\ \A q \in ready : position[p] <= position[q]
          /\ Look(c, p, sha[p], "take")
  /\ UNCHANGED <<rows, github, bounds, history>>

\* ... and take it, if it is still ready.
Take(c) ==
  /\ At(c, "take")
  /\ IF status[call[c].pr] = "ready"
     THEN SetStatus(c, "merging") /\ Goto(c, "live")
     ELSE Goto(c, "idle") /\ UNCHANGED status
  /\ UNCHANGED <<sha, position, admitted, limit, github, bounds, history>>

\* GET the pull request.
GetLive(c) ==
  LET p == call[c].pr IN
  /\ At(c, "live")
  /\ \/ state[p] # "open" /\ Goto(c, "drop")
     \/ state[p] = "open" /\ head[p] # call[c].seen /\ Look(c, p, head[p], "resync")
     \/ state[p] = "open" /\ head[p] = call[c].seen /\ Goto(c, "put")
     \/ Goto(c, "block")
  /\ UNCHANGED <<rows, github, bounds, history>>

WriteRemoved(c) ==
  /\ At(c, "drop")
  /\ SetStatus(c, "removed")
  /\ Goto(c, "idle")
  /\ UNCHANGED <<sha, position, admitted, limit, github, bounds, history>>

\* The head moved: wait for its checks.
Resync(c) ==
  /\ At(c, "resync")
  /\ SetStatus(c, "pending")
  /\ sha' = [sha EXCEPT ![call[c].pr] = call[c].seen]
  /\ moved' = moved \cup Relied(c, call[c].pr)
  /\ irregular' = irregular \cup Revived(c)
  /\ Goto(c, "idle")
  /\ UNCHANGED <<position, admitted, limit, github, bounds,
                 mergedHead, dequeued>>

\* Mutant: a refused merge is taken for a merge.
PutSwallowsError(c) ==
  LET p == call[c].pr IN
  /\ At(c, "put")
  /\ IF state[p] = "open"
     THEN /\ state' \in {state, [state EXCEPT ![p] = "merged"]}
          /\ mergedHead' = [mergedHead EXCEPT ![p] = head[p]]
     ELSE UNCHANGED <<state, mergedHead>>
  /\ Goto(c, "merged")
  /\ UNCHANGED <<rows, head, green, bounds, moved, dequeued, irregular>>

\* PUT the merge, without a sha: GitHub merges whatever the head is now, and
\* its answer may be lost, or it refuses.
PutMerge(c) ==
  LET p == call[c].pr IN
  /\ At(c, "put")
  /\ \/ /\ state[p] = "open"
        /\ state' = [state EXCEPT ![p] = "merged"]
        /\ mergedHead' = [mergedHead EXCEPT ![p] = head[p]]
        /\ \E l \in {"merged", "block"} : Goto(c, l)
     \/ Goto(c, "block") /\ UNCHANGED <<state, mergedHead>>
  /\ UNCHANGED <<rows, head, green, bounds, moved, dequeued, irregular>>

WriteMerged(c) ==
  /\ At(c, "merged")
  /\ SetStatus(c, "merged")
  /\ Goto(c, "rebalance")
  /\ UNCHANGED <<sha, position, admitted, limit, github, bounds, history>>

\* rebalancePositions numbers the live entries by admitted_at; after a merge
\* the queue goes on, or the event or the feedback fails and the catch block
\* blocks the merged entry.
Rebalance(c) ==
  /\ call[c].at \in {"rebalance", "tidy"}
  /\ position' = [p \in Prs |->
       IF p \in Live THEN Cardinality({q \in Live : admitted[q] <= admitted[p]})
       ELSE position[p]]
  /\ irregular' = irregular \cup
       {call[q].pr : q \in {o \in Calls :
          At(o, "insert") /\ \E p \in Live : position'[p] >= call[o].place}}
  /\ IF At(c, "tidy") THEN Goto(c, "idle") ELSE \E l \in {"front", "block"} : Goto(c, l)
  /\ UNCHANGED <<status, sha, admitted, limit, github, bounds, mergedHead, moved, dequeued>>

-----------------------------------------------------------------------------
\* Mutant: the reason, whatever it says, is written as the status.
RemoveForReason(c) ==
  /\ Start(c)
  /\ \E p \in Prs :
       /\ status[p] # None
       /\ Look(c, p, None, "tidy")
       /\ status' = [status EXCEPT ![p] = IF @ = "merged" THEN @ ELSE "unlabeled"]
  /\ UNCHANGED <<sha, position, admitted, limit, github, history>>

\* removeFromQueue: the label was taken off, the pull request was closed, or
\* POST /queue/:owner/:repo/:pr/remove.
Remove(c) ==
  /\ Start(c)
  /\ \E p \in Prs :
       /\ status[p] # None
       /\ Look(c, p, None, "tidy")
       /\ status' = [status EXCEPT ![p] = IF @ = "merged" THEN @ ELSE "removed"]
       /\ dequeued' = IF Others(c, p) = {} /\ status'[p] = "removed"
                      THEN dequeued \cup {p} ELSE dequeued
  /\ UNCHANGED <<sha, position, admitted, limit, github,
                 mergedHead, moved, irregular>>

\* A call throws where nothing catches it, or its process dies.
Die(c) ==
  /\ ~At(c, "idle") /\ deaths < MaxDeaths
  /\ Goto(c, "idle")
  /\ deaths' = deaths + 1
  /\ UNCHANGED <<rows, github, made, history>>

-----------------------------------------------------------------------------
(* GitHub: pushes, checks, closing *)

Push(p) ==
  /\ state[p] = "open" /\ head[p] < MaxHead
  /\ head' = [head EXCEPT ![p] = @ + 1]
  /\ moved' = moved \cup {q \in {p} : \E c \in Calls : call[c].pr = p /\ At(c, "put")}
  /\ UNCHANGED <<rows, state, green, call, bounds, mergedHead, dequeued, irregular>>

PassChecks(p) ==
  /\ green' = green \cup {<<p, head[p]>>}
  /\ UNCHANGED <<rows, state, head, call, bounds, history>>

Close(p) ==
  /\ state[p] = "open"
  /\ state' = [state EXCEPT ![p] = "closed"]
  /\ UNCHANGED <<rows, head, green, call, bounds, history>>

Init ==
  /\ status = [p \in Prs |-> None] /\ sha = [p \in Prs |-> None]
  /\ position = [p \in Prs |-> 0] /\ admitted = [p \in Prs |-> 0]
  /\ limit \in 1..MaxDepth
  /\ state = [p \in Prs |-> "open"] /\ head = [p \in Prs |-> 0] /\ green = {}
  /\ call = [c \in Calls |-> Idle]
  /\ made = 0 /\ deaths = 0
  /\ mergedHead = [p \in Prs |-> None]
  /\ moved = {} /\ dequeued = {} /\ irregular = {}

Admission(c) == StartAdmit(c) \/ CountEntries(c) \/ FindPlace(c) \/ InsertEntry(c)
ChecksUpdate(c) == SelectEntry(c) \/ Verdict(c) \/ WriteReady(c) \/ WriteBlocked(c)
Processing(c) ==
  \/ Front(c) \/ Take(c) \/ GetLive(c) \/ WriteRemoved(c) \/ Resync(c)
  \/ PutMerge(c) \/ WriteMerged(c) \/ Rebalance(c)

Next ==
  \/ \E c \in Calls :
       Admission(c) \/ ChecksUpdate(c) \/ Processing(c) \/ Remove(c) \/ Die(c)
  \/ \E p \in Prs : Push(p) \/ PassChecks(p) \/ Close(p)

Spec == Init /\ [][Next]_vars
-----------------------------------------------------------------------------
(* Properties *)

TypeOK ==
  /\ status \in [Prs -> Statuses \cup {None}]
  /\ sha \in [Prs -> 0..MaxHead \cup {None}]
  /\ position \in [Prs -> Nat] /\ admitted \in [Prs -> Nat]
  /\ limit \in 1..MaxDepth
  /\ state \in [Prs -> {"open", "closed", "merged"}]
  /\ head \in [Prs -> 0..MaxHead] /\ green \subseteq Prs \X (0..MaxHead)
  /\ call \in [Calls -> [at : {"idle", "count", "place", "insert", "verdict", "ready",
                              "block", "front", "take", "live", "drop", "resync",
                              "put", "merged", "rebalance", "tidy"},
                        pr : Prs \cup {None}, seen : 0..MaxHead \cup {None},
                        place : Nat]]
  /\ made \in 0..MaxCalls /\ deaths \in 0..MaxDeaths
  /\ mergedHead \in [Prs -> 0..MaxHead \cup {None}]
  /\ moved \subseteq Prs /\ dequeued \subseteq Prs /\ irregular \subseteq Prs

\* The queue merges a head whose required checks never passed only if that head
\* moved while a call was between looking and acting: between the checks and
\* their UPDATE by id (onChecksUpdated), or between GET and PUT (processQueue).
QuietMergesAreChecked ==
  \A p \in Prs :
    mergedHead[p] # None /\ <<p, mergedHead[p]>> \notin green => p \in moved

\* An entry that says merged was merged by the queue, whatever calls overlap.
MergedMeansMerged ==
  \A p \in Prs : status[p] = "merged" => state[p] = "merged" /\ mergedHead[p] # None

\* A removal no other call is in the middle of is final: nothing but a new
\* admission brings the entry back, and no call goes on to merge it.
QuietRemovalIsFinal ==
  \A p \in dequeued :
    /\ status[p] = "removed"
    /\ \A c \in Calls : call[c].pr = p => call[c].at \notin {"put", "merged"}

\* Entries admitted once, one after the other, stand in the queue in the order
\* of their admissions, each at its own position, however often the queue is
\* renumbered, and only irregular entries make it deeper than max_queue_depth.
QueueIsInOrder ==
  /\ \A p, q \in Live \ irregular :
       admitted[p] < admitted[q] => position[p] < position[q]
  /\ Cardinality(Live) > limit => irregular # {}

\* "waiting to be merged automatically once all required checks pass" and the
\* commit message "Approved and all checks passed" (mergeQueueService.js).
MergedIsChecked ==
  \A p \in Prs : mergedHead[p] # None => <<p, mergedHead[p]>> \in green
=============================================================================

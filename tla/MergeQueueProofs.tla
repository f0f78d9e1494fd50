--------------------------- MODULE MergeQueueProofs ---------------------------
(***************************************************************************)
(* Proofs about MergeQueue, for any number of calls, pull requests, pushes *)
(* and deaths.                                                             *)
(***************************************************************************)
EXTENDS MergeQueue, FiniteSetTheorems, WellFoundedInduction, TLAPS

-----------------------------------------------------------------------------
(* The largest position *)

LEMMA MaxIsLargest ==
  ASSUME NEW S \in SUBSET Nat, S # {}, NEW b \in Nat, \A x \in S : x <= b
  PROVE  Max(S) \in S /\ \A x \in S : x <= Max(S)
<1> DEFINE Less == {ss \in Nat \X Nat : ss[1] < ss[2]}
           Bounds == {n \in Nat : \A x \in S : x <= n}
<1>1. IsWellFoundedOn(Less, Nat)
  BY NatLessThanWellFounded DEF OpToRel
<1>2. Bounds \subseteq Nat /\ Bounds # {}
  OBVIOUS
<1>3. PICK m \in Bounds : \A y \in Bounds : <<y, m>> \notin Less
  <2> HIDE DEF Less, Bounds
  <2> QED
    BY <1>1, <1>2, WFMin
<1>4. \A y \in Bounds : ~(y < m)
  BY <1>3
<1>5. m \in S
  <2>1. CASE m = 0
    <3>1. PICK x \in S : x <= m
      BY <1>3
    <3> QED
      BY <2>1, <3>1
  <2>2. CASE m # 0
    <3>1. m - 1 \in Nat /\ m - 1 \notin Bounds
      BY <2>2, <1>4
    <3> QED
      BY <3>1
  <2> QED
    BY <2>1, <2>2
<1>6. \E x \in S : \A y \in S : x >= y
  BY <1>5
<1>7. Max(S) \in S /\ \A y \in S : Max(S) >= y
  BY <1>6 DEF Max
<1> QED
  BY <1>7

-----------------------------------------------------------------------------
(* The inductive invariant *)

Ats == {"idle", "count", "place", "insert", "verdict", "ready", "block", "front", "take",
        "live", "drop", "resync", "put", "merged", "rebalance", "tidy"}
Heads == 0..MaxHead \cup {None}
Frames == [at : Ats, pr : Prs \cup {None}, seen : Heads, place : Nat]

\* A call that is under way has a pull request, with an entry unless it is about to
\* make one, and positions are bounded.
CallsFit ==
  /\ \A c \in Calls :
       /\ call[c].at # "idle" => call[c].pr \in Prs
       /\ call[c].at \notin {"idle", "count", "place", "insert"} => status[call[c].pr] # None
  /\ \A c \in Calls : call[c].at = "resync" => call[c].seen # None
  /\ \E b \in Nat : \A p \in Prs : position[p] <= b

\* What a call knows of GitHub when it merges, and when it records the merge
MergesFit ==
  /\ \A c \in Calls :
       call[c].at = "merged" =>
         state[call[c].pr] = "merged" /\ mergedHead[call[c].pr] # None
  /\ MergedMeansMerged

\* A call that looked at checks, or at a head, looked at those of its entry's head,
\* unless that moved; an entry is ready when the checks of its head have passed.
ChecksFit ==
  /\ \A p \in Prs : status[p] = "ready" => <<p, sha[p]>> \in green \/ p \in moved
  /\ \A c \in Calls :
       call[c].pr \notin moved =>
         /\ call[c].at \in {"verdict", "ready"} => sha[call[c].pr] = call[c].seen
         /\ call[c].at \in {"ready", "take", "live", "put"} =>
              <<call[c].pr, call[c].seen>> \in green
         /\ call[c].at = "put" => head[call[c].pr] = call[c].seen
  /\ QuietMergesAreChecked

\* Only an admission or another removal is at work on an entry that was removed
\* while nobody was.
RemovalsFit ==
  \A p \in dequeued :
    /\ status[p] = "removed"
    /\ \A c \in Calls : call[c].pr = p => call[c].at \in {"count", "place", "insert", "tidy"}

Entered == {p \in Prs : status[p] # None}

\* A regular entry's place is behind those of the regular entries before it, and a
\* call that may still admit one has seen that there is room.
OrderFits ==
  /\ \A p \in Entered : admitted[p] <= Cardinality(Entered)
  /\ \A p, q \in Live \ irregular : admitted[p] < admitted[q] => position[p] < position[q]
  /\ \A c \in Calls :
       call[c].at = "insert" /\ call[c].pr \notin irregular =>
         \A p \in Live \ irregular : position[p] < call[c].place
  /\ irregular = {} =>
       /\ Cardinality(Live) <= limit
       /\ \A c \in Calls : call[c].at \in {"place", "insert"} => Cardinality(Live) < limit

IInv == TypeOK /\ CallsFit /\ MergesFit /\ ChecksFit /\ RemovalsFit /\ OrderFits

-----------------------------------------------------------------------------
(* What a step does to its call *)

Moves(c, l) ==
  /\ call' \in [Calls -> Frames]
  /\ \A o \in Calls \ {c} : call'[o] = call[o]
  /\ call'[c].at = l

LEMMA LookMoves ==
  ASSUME TypeOK, NEW c \in Calls, NEW p \in Prs, NEW h \in Heads, NEW l \in Ats, Look(c, p, h, l)
  PROVE  Moves(c, l) /\ call'[c].pr = p /\ call'[c].seen = h
BY DEF TypeOK, Look, Moves, Frames, Ats, Heads

LEMMA GotoMoves ==
  ASSUME TypeOK, NEW c \in Calls, NEW l \in Ats, Goto(c, l)
  PROVE  /\ Moves(c, l)
         /\ IF l = "idle" THEN call'[c].pr = None
            ELSE /\ call'[c].pr = call[c].pr /\ call'[c].seen = call[c].seen
                 /\ call'[c].place = call[c].place
BY DEF TypeOK, Goto, Idle, Moves, Frames, Ats, Heads

-----------------------------------------------------------------------------
(* The order of the queue where no entry is admitted and none renumbered *)

LEMMA LiveIsFinite ==
  /\ IsFiniteSet(Live) /\ Cardinality(Live) \in Nat
  /\ IsFiniteSet(Entered) /\ Cardinality(Entered) \in Nat
  /\ \A S \in SUBSET Live : IsFiniteSet(S) /\ Cardinality(S) \in Nat
<1>1. Live \subseteq Prs /\ Entered \subseteq Prs
  BY DEF Live, Entered
<1> QED
  BY <1>1, PrsAssumption, FS_Subset, FS_CardinalityType

\* Entries may leave the queue; one that comes back is irregular.
LEMMA OrderStays ==
  ASSUME TypeOK, OrderFits, UNCHANGED <<position, admitted, limit>>, Entered' = Entered,
         irregular \subseteq irregular', Live' \ irregular' \subseteq Live,
         \A c \in Calls :
           /\ call'[c].at = "insert" => call[c].at = "insert" /\ call'[c] = call[c]
           /\ call'[c].at = "place" =>
                call[c].at = "place" \/ (irregular = {} => Cardinality(Live) < limit)
  PROVE  OrderFits'
<1>1. \A p \in Live' \ irregular' : p \in Live \ irregular
  OBVIOUS
<1>2. ASSUME irregular' = {}
      PROVE  irregular = {} /\ Cardinality(Live') \in Nat /\ Cardinality(Live') <= Cardinality(Live)
  BY <1>2, LiveIsFinite, FS_Subset
<1>3. limit \in Nat /\ Cardinality(Live) \in Nat
  BY LiveIsFinite DEF TypeOK
<1>4. /\ \A p \in Entered' : admitted'[p] <= Cardinality(Entered')
      /\ \A p, q \in Live' \ irregular' : admitted'[p] < admitted'[q] => position'[p] < position'[q]
  BY <1>1 DEF OrderFits
<1>5. \A c \in Calls :
        call'[c].at = "insert" /\ call'[c].pr \notin irregular' =>
          \A p \in Live' \ irregular' : position'[p] < call'[c].place
  BY <1>1 DEF OrderFits
<1>6. irregular' = {} =>
        /\ Cardinality(Live') <= limit'
        /\ \A c \in Calls : call'[c].at \in {"place", "insert"} => Cardinality(Live') < limit'
  BY <1>2, <1>3 DEF OrderFits
<1> QED
  BY <1>4, <1>5, <1>6 DEF OrderFits

-----------------------------------------------------------------------------
(* Steps that change nothing but the call *)

\* What a frame must know where it is
FrameFits(f) ==
  /\ f.at # "idle" => f.pr \in Prs
  /\ f.at \notin {"idle", "count", "place", "insert"} => status[f.pr] # None
  /\ f.at = "resync" => f.seen # None
  /\ f.at = "merged" => state[f.pr] = "merged" /\ mergedHead[f.pr] # None
  /\ f.pr \notin moved =>
       /\ f.at \in {"verdict", "ready"} => sha[f.pr] = f.seen
       /\ f.at \in {"ready", "take", "live", "put"} => <<f.pr, f.seen>> \in green
       /\ f.at = "put" => head[f.pr] = f.seen
  /\ f.pr \in dequeued => f.at \in {"count", "place", "insert", "tidy"}
  /\ f.at = "place" => (irregular = {} => Cardinality(Live) < limit)

LEMMA MoveKeeps ==
  ASSUME IInv, NEW c \in Calls, NEW l \in Ats \ {"insert"}, Moves(c, l), FrameFits(call'[c]),
         UNCHANGED <<rows, github, history>>, made' \in 0..MaxCalls, deaths' \in 0..MaxDeaths
  PROVE  IInv'
<1>1. UNCHANGED <<status, sha, position, admitted, limit, state, head, green,
                  mergedHead, moved, dequeued, irregular>>
  BY DEF rows, github, history
<1>2. TypeOK'
  BY <1>1 DEF IInv, TypeOK, Moves, Frames, Ats, Heads
<1>3. CallsFit'
  BY <1>1 DEF IInv, CallsFit, Moves, FrameFits
<1>4. MergesFit'
  BY <1>1 DEF IInv, MergesFit, MergedMeansMerged, Moves, FrameFits
<1>5. ChecksFit'
  BY <1>1 DEF IInv, ChecksFit, QuietMergesAreChecked, Moves, FrameFits
<1>6. RemovalsFit'
  BY <1>1 DEF IInv, RemovalsFit, Moves, FrameFits
<1>7. OrderFits'
  <2>1. Live' = Live /\ Entered' = Entered
    BY <1>1 DEF Live, Entered
  <2>2. \A o \in Calls :
          /\ call'[o].at = "insert" => call[o].at = "insert" /\ call'[o] = call[o]
          /\ call'[o].at = "place" =>
               call[o].at = "place" \/ (irregular = {} => Cardinality(Live) < limit)
    BY DEF Moves, FrameFits
  <2> QED
    BY <1>1, <2>1, <2>2, OrderStays DEF IInv
<1> QED
  BY <1>2, <1>3, <1>4, <1>5, <1>6, <1>7 DEF IInv

LEMMA StartAdmitKeeps ==
  ASSUME IInv, NEW c \in Calls, StartAdmit(c)
  PROVE  IInv'
<1>1. PICK p \in Prs : Look(c, p, head[p], "count")
  BY DEF StartAdmit
<1>2. Moves(c, "count") /\ call'[c].pr = p
  BY <1>1, LookMoves DEF IInv, TypeOK, Heads, Ats
<1>3. FrameFits(call'[c])
  BY <1>2 DEF FrameFits, Moves
<1>4. made' \in 0..MaxCalls /\ deaths' \in 0..MaxDeaths
  BY BoundsAssumption DEF IInv, TypeOK, StartAdmit, Start
<1> QED
  BY <1>2, <1>3, <1>4, MoveKeeps DEF StartAdmit, Ats

LEMMA CountEntriesKeeps ==
  ASSUME IInv, NEW c \in Calls, CountEntries(c)
  PROVE  IInv'
<1>1. PICK l \in {"place", "idle"} : Goto(c, l) /\ (l = "place" => Cardinality(Live) < limit)
  BY DEF CountEntries
<1>2. Moves(c, l) /\ (l = "place" => call'[c].pr = call[c].pr) /\ (l = "idle" => call'[c].pr = None)
  BY <1>1, GotoMoves DEF IInv, Ats
<1>3. call[c].pr \in Prs
  BY DEF IInv, CallsFit, CountEntries, At
<1>4. FrameFits(call'[c])
  BY <1>1, <1>2, <1>3, NoneAssumption DEF IInv, TypeOK, FrameFits, Moves
<1> QED
  BY <1>2, <1>4, MoveKeeps DEF IInv, TypeOK, CountEntries, bounds, Ats

LEMMA SelectEntryKeeps ==
  ASSUME IInv, NEW c \in Calls, SelectEntry(c)
  PROVE  IInv'
<1>1. PICK p \in Prs : status[p] \in {"pending", "ready"} /\ Look(c, p, sha[p], "verdict")
  BY DEF SelectEntry
<1>2. Moves(c, "verdict") /\ call'[c].pr = p /\ call'[c].seen = sha[p]
  BY <1>1, LookMoves DEF IInv, TypeOK, Heads, Ats
<1>3. FrameFits(call'[c])
  BY <1>1, <1>2, NoneAssumption DEF IInv, RemovalsFit, FrameFits, Moves, Statuses
<1>4. made' \in 0..MaxCalls /\ deaths' \in 0..MaxDeaths
  BY BoundsAssumption DEF IInv, TypeOK, SelectEntry, Start
<1> QED
  BY <1>2, <1>3, <1>4, MoveKeeps DEF SelectEntry, Ats

LEMMA VerdictKeeps ==
  ASSUME IInv, NEW c \in Calls, Verdict(c)
  PROVE  IInv'
<1>1. PICK l \in {"ready", "block", "idle"} :
        Goto(c, l) /\ (l = "ready" => <<call[c].pr, call[c].seen>> \in green)
  BY DEF Verdict
<1>2. /\ Moves(c, l) /\ (l = "idle" => call'[c].pr = None)
      /\ l # "idle" => call'[c].pr = call[c].pr /\ call'[c].seen = call[c].seen
  BY <1>1, GotoMoves DEF IInv, Ats
<1>3. call[c].pr \in Prs \ dequeued /\ status[call[c].pr] # None
  BY DEF IInv, CallsFit, RemovalsFit, Verdict, At
<1>4. call[c].pr \notin moved => sha[call[c].pr] = call[c].seen
  BY DEF IInv, ChecksFit, Verdict, At
<1>5. FrameFits(call'[c])
  BY <1>1, <1>2, <1>3, <1>4, NoneAssumption DEF IInv, TypeOK, FrameFits, Moves
<1> QED
  BY <1>2, <1>5, MoveKeeps DEF IInv, TypeOK, Verdict, bounds, Ats

LEMMA FrontKeeps ==
  ASSUME IInv, NEW c \in Calls, Front(c)
  PROVE  IInv'
<1>1. CASE Goto(c, "idle")
  <2>1. Moves(c, "idle") /\ call'[c].pr = None
    BY <1>1, GotoMoves DEF IInv, Ats
  <2>2. FrameFits(call'[c])
    BY <2>1, NoneAssumption DEF IInv, TypeOK, FrameFits, Moves
  <2> QED
    BY <2>1, <2>2, MoveKeeps DEF IInv, TypeOK, Front, bounds, Ats
<1>2. ASSUME NEW p \in Prs, status[p] = "ready", Look(c, p, sha[p], "take")
      PROVE  IInv'
  <2>1. Moves(c, "take") /\ call'[c].pr = p /\ call'[c].seen = sha[p]
    BY <1>2, LookMoves DEF IInv, TypeOK, Heads, Ats
  <2>2. FrameFits(call'[c])
    BY <1>2, <2>1, NoneAssumption
       DEF IInv, RemovalsFit, ChecksFit, FrameFits, Moves, Statuses
  <2> QED
    BY <2>1, <2>2, MoveKeeps DEF IInv, TypeOK, Front, bounds, Ats
<1> QED
  BY <1>1, <1>2 DEF Front

LEMMA GetLiveKeeps ==
  ASSUME IInv, NEW c \in Calls, GetLive(c)
  PROVE  IInv'
<1>1. call[c].pr \in Prs \ dequeued /\ status[call[c].pr] # None
  BY DEF IInv, CallsFit, RemovalsFit, GetLive, At
<1>2. CASE Look(c, call[c].pr, head[call[c].pr], "resync")
  <2>1. Moves(c, "resync") /\ call'[c].pr = call[c].pr /\ call'[c].seen = head[call[c].pr]
    BY <1>1, <1>2, LookMoves DEF IInv, TypeOK, Heads, Ats
  <2>2. head[call[c].pr] # None
    BY <1>1, NoneAssumption DEF IInv, TypeOK
  <2>3. FrameFits(call'[c])
    BY <1>1, <2>1, <2>2 DEF FrameFits, Moves
  <2> QED
    BY <2>1, <2>3, MoveKeeps DEF IInv, TypeOK, GetLive, bounds, Ats
<1>3. ASSUME NEW l \in {"drop", "put", "block"}, Goto(c, l),
             l = "put" => head[call[c].pr] = call[c].seen
      PROVE  IInv'
  <2>1. Moves(c, l) /\ call'[c].pr = call[c].pr /\ call'[c].seen = call[c].seen
    BY <1>3, GotoMoves DEF IInv, Ats
  <2>2. call[c].pr \notin moved => <<call[c].pr, call[c].seen>> \in green
    BY DEF IInv, ChecksFit, GetLive, At
  <2>3. FrameFits(call'[c])
    BY <1>1, <1>3, <2>1, <2>2 DEF FrameFits, Moves
  <2> QED
    BY <2>1, <2>3, MoveKeeps DEF IInv, TypeOK, GetLive, bounds, Ats
<1> QED
  BY <1>2, <1>3 DEF GetLive

LEMMA DieKeeps ==
  ASSUME IInv, NEW c \in Calls, Die(c)
  PROVE  IInv'
<1>1. Moves(c, "idle") /\ call'[c].pr = None
  BY GotoMoves DEF IInv, Ats, Die
<1>2. FrameFits(call'[c])
  BY <1>1, NoneAssumption DEF IInv, TypeOK, FrameFits, Moves
<1>3. made' \in 0..MaxCalls /\ deaths' \in 0..MaxDeaths
  BY BoundsAssumption DEF IInv, TypeOK, Die
<1> QED
  BY <1>1, <1>2, <1>3, MoveKeeps DEF Die, Ats

\* The place behind all that are live
LEMMA FindPlaceKeeps ==
  ASSUME IInv, NEW c \in Calls, FindPlace(c)
  PROVE  IInv'
<1> DEFINE Taken == {position[p] : p \in Live} \cup {0}
<1>1. Taken \in SUBSET Nat /\ Taken # {} /\ \E b \in Nat : \A x \in Taken : x <= b
  BY DEF IInv, TypeOK, CallsFit, Live
<1>2. Max(Taken) \in Nat /\ \A p \in Live : position[p] <= Max(Taken)
  BY <1>1, MaxIsLargest
<1> HIDE DEF Taken
<1>3. PICK n \in Nat : n = Max(Taken) + 1 /\ \A p \in Live : position[p] < n
  BY <1>2 DEF IInv, TypeOK, Live
<1>4. call' = [call EXCEPT ![c].at = "insert", ![c].place = n]
  BY <1>3 DEF FindPlace, Taken
<1>5. PICK f \in Frames : f = [at |-> "insert", pr |-> call[c].pr, seen |-> call[c].seen, place |-> n]
  BY DEF IInv, TypeOK, Frames, Ats, Heads
<1>6. call' = [call EXCEPT ![c] = f]
  <2>1. PICK g : g = [call EXCEPT ![c].at = "insert"]
    OBVIOUS
  <2>2. call' = [g EXCEPT ![c].place = n]
    BY <1>4, <2>1 DEF IInv, TypeOK
  <2>3. g \in [Calls -> Frames]
    BY <2>1 DEF IInv, TypeOK, Frames, Ats, Heads
  <2>4. /\ g[c] \in Frames /\ g[c].at = "insert" /\ g[c].pr = call[c].pr
        /\ g[c].seen = call[c].seen /\ \A o \in Calls \ {c} : g[o] = call[o]
    BY <2>1, <2>3 DEF IInv, TypeOK
  <2>5. f = [g[c] EXCEPT !.place = n]
    BY <1>5, <2>4 DEF Frames
  <2> QED
    BY <2>2, <2>3, <2>4, <2>5 DEF IInv, TypeOK
<1>7. Moves(c, "insert") /\ call'[c] = f
  BY <1>5, <1>6 DEF IInv, TypeOK, Moves, Frames, Ats, Heads
<1>8. UNCHANGED <<status, sha, position, admitted, limit, state, head, green, made, deaths,
                  mergedHead, moved, dequeued, irregular>>
  BY DEF FindPlace, rows, github, bounds, history
<1>9. call[c].at = "place" /\ call[c].pr \in Prs
  BY DEF IInv, CallsFit, FindPlace, At
<1>10. TypeOK'
  BY <1>7, <1>8 DEF IInv, TypeOK, Moves, Frames, Ats, Heads
<1>11. CallsFit'
  BY <1>5, <1>7, <1>8, <1>9 DEF IInv, CallsFit, Moves
<1>12. MergesFit' /\ ChecksFit' /\ RemovalsFit'
  BY <1>5, <1>7, <1>8, <1>9
     DEF IInv, MergesFit, MergedMeansMerged, ChecksFit, QuietMergesAreChecked, RemovalsFit, Moves
<1>13. OrderFits'
  <2>1. Live' = Live /\ Entered' = Entered
    BY <1>8 DEF Live, Entered
  <2> QED
    BY <1>3, <1>5, <1>7, <1>8, <1>9, <2>1 DEF IInv, OrderFits, Moves
<1> QED
  BY <1>10, <1>11, <1>12, <1>13 DEF IInv

-----------------------------------------------------------------------------
(* Steps that write the status of an entry *)

\* The entry of c gets status s; if that brings it back, it is irregular.
LEMMA StatusKeeps ==
  ASSUME IInv, NEW c \in Calls, NEW l \in Ats \ {"insert", "place"}, Moves(c, l),
         FrameFits(call'[c]), NEW s \in Statuses,
         call[c].pr \in Prs \ dequeued, status[call[c].pr] # None,
         SetStatus(c, s), s \in {"pending", "ready", "merging"} => irregular' = irregular \cup Revived(c),
         irregular \subseteq irregular', irregular' \subseteq Prs,
         s = "ready" => <<call[c].pr, sha[call[c].pr]>> \in green \/ call[c].pr \in moved,
         s = "merged" => state[call[c].pr] = "merged" /\ mergedHead[call[c].pr] # None,
         UNCHANGED <<sha, position, admitted, limit, github, bounds, mergedHead, moved, dequeued>>
  PROVE  IInv'
<1>1. /\ status' = [status EXCEPT ![call[c].pr] = s] /\ s # None
      /\ UNCHANGED <<state, head, green, made, deaths>>
  BY NoneAssumption DEF SetStatus, github, bounds
<1>2. TypeOK'
  BY <1>1 DEF IInv, TypeOK, Moves, Frames, Ats, Heads
<1>3. CallsFit'
  BY <1>1 DEF IInv, TypeOK, CallsFit, Moves, FrameFits
<1>4. MergesFit'
  BY <1>1 DEF IInv, TypeOK, MergesFit, MergedMeansMerged, Moves, FrameFits
<1>5. ChecksFit'
  BY <1>1 DEF IInv, TypeOK, ChecksFit, QuietMergesAreChecked, Moves, FrameFits
<1>6. RemovalsFit'
  BY <1>1 DEF IInv, TypeOK, RemovalsFit, Moves, FrameFits
<1>7. OrderFits'
  <2>1. Entered' = Entered
    BY <1>1 DEF IInv, TypeOK, Entered
  <2>2. Live' \ irregular' \subseteq Live
    BY <1>1 DEF IInv, TypeOK, Live, Revived
  <2>3. \A o \in Calls :
          /\ call'[o].at = "insert" => call[o].at = "insert" /\ call'[o] = call[o]
          /\ call'[o].at = "place" => call[o].at = "place"
    BY DEF Moves
  <2> QED
    BY <2>1, <2>2, <2>3, OrderStays DEF IInv
<1> QED
  BY <1>2, <1>3, <1>4, <1>5, <1>6, <1>7 DEF IInv

\* What such a step knows of its call
LEMMA AtWork ==
  ASSUME IInv, NEW c \in Calls,
         call[c].at \in {"ready", "block", "take", "live", "drop", "resync", "put", "merged"}
  PROVE  call[c].pr \in Prs \ dequeued /\ status[call[c].pr] # None
BY DEF IInv, CallsFit, RemovalsFit

LEMMA WriteReadyKeeps ==
  ASSUME IInv, NEW c \in Calls, WriteReady(c)
  PROVE  IInv'
<1>1. call[c].at = "ready" /\ call[c].pr \in Prs \ dequeued /\ status[call[c].pr] # None
  BY AtWork DEF WriteReady, At
<1>2. Moves(c, "front") /\ call'[c].pr = call[c].pr
  BY GotoMoves DEF IInv, WriteReady, Ats
<1>3. FrameFits(call'[c])
  BY <1>1, <1>2 DEF FrameFits, Moves
<1>4. <<call[c].pr, sha[call[c].pr]>> \in green \/ call[c].pr \in moved
  BY <1>1 DEF IInv, ChecksFit
<1>5. irregular' \subseteq Prs
  BY <1>1 DEF IInv, TypeOK, WriteReady, Revived
<1> QED
  BY <1>1, <1>2, <1>3, <1>4, <1>5, StatusKeeps DEF WriteReady, Ats, Statuses

LEMMA WriteBlockedKeeps ==
  ASSUME IInv, NEW c \in Calls, WriteBlocked(c)
  PROVE  IInv'
<1>1. call[c].pr \in Prs \ dequeued /\ status[call[c].pr] # None
  BY AtWork DEF WriteBlocked, At
<1>2. Moves(c, "idle") /\ call'[c].pr = None
  BY GotoMoves DEF IInv, WriteBlocked, Ats
<1>3. FrameFits(call'[c])
  BY <1>2, NoneAssumption DEF IInv, TypeOK, FrameFits, Moves
<1> QED
  BY <1>1, <1>2, <1>3, StatusKeeps DEF IInv, TypeOK, WriteBlocked, history, Ats, Statuses

LEMMA TakeKeeps ==
  ASSUME IInv, NEW c \in Calls, Take(c)
  PROVE  IInv'
<1>1. call[c].at = "take" /\ call[c].pr \in Prs \ dequeued /\ status[call[c].pr] # None
  BY AtWork DEF Take, At
<1>2. CASE status[call[c].pr] = "ready"
  <2>1. Moves(c, "live") /\ call'[c].pr = call[c].pr /\ call'[c].seen = call[c].seen
    BY <1>2, GotoMoves DEF IInv, Take, Ats
  <2>2. FrameFits(call'[c])
    BY <1>1, <2>1 DEF IInv, ChecksFit, FrameFits, Moves
  <2>3. irregular' = irregular \cup Revived(c)
    BY <1>1, <1>2 DEF Take, history, Revived, Live
  <2> QED
    BY <1>1, <1>2, <2>1, <2>2, <2>3, StatusKeeps DEF IInv, TypeOK, Take, history, Ats, Statuses
<1>3. CASE status[call[c].pr] # "ready"
  <2>1. Moves(c, "idle") /\ call'[c].pr = None
    BY <1>3, GotoMoves DEF IInv, Take, Ats
  <2>2. FrameFits(call'[c])
    BY <2>1, NoneAssumption DEF IInv, TypeOK, FrameFits, Moves
  <2> QED
    BY <1>3, <2>1, <2>2, MoveKeeps DEF IInv, TypeOK, Take, rows, bounds, Ats
<1> QED
  BY <1>2, <1>3

LEMMA WriteRemovedKeeps ==
  ASSUME IInv, NEW c \in Calls, WriteRemoved(c)
  PROVE  IInv'
<1>1. call[c].pr \in Prs \ dequeued /\ status[call[c].pr] # None
  BY AtWork DEF WriteRemoved, At
<1>2. Moves(c, "idle") /\ call'[c].pr = None
  BY GotoMoves DEF IInv, WriteRemoved, Ats
<1>3. FrameFits(call'[c])
  BY <1>2, NoneAssumption DEF IInv, TypeOK, FrameFits, Moves
<1> QED
  BY <1>1, <1>2, <1>3, StatusKeeps DEF IInv, TypeOK, WriteRemoved, history, Ats, Statuses

LEMMA WriteMergedKeeps ==
  ASSUME IInv, NEW c \in Calls, WriteMerged(c)
  PROVE  IInv'
<1>1. call[c].at = "merged" /\ call[c].pr \in Prs \ dequeued /\ status[call[c].pr] # None
  BY AtWork DEF WriteMerged, At
<1>2. Moves(c, "rebalance") /\ call'[c].pr = call[c].pr
  BY GotoMoves DEF IInv, WriteMerged, Ats
<1>3. FrameFits(call'[c])
  BY <1>1, <1>2 DEF FrameFits, Moves
<1>4. state[call[c].pr] = "merged" /\ mergedHead[call[c].pr] # None
  BY <1>1 DEF IInv, MergesFit
<1> QED
  BY <1>1, <1>2, <1>3, <1>4, StatusKeeps DEF IInv, TypeOK, WriteMerged, history, Ats, Statuses

\* A head that moves under a call that relied on it is remembered.
LEMMA ResyncKeeps ==
  ASSUME IInv, NEW c \in Calls, Resync(c)
  PROVE  IInv'
<1> DEFINE p == call[c].pr
<1>1. call[c].at = "resync" /\ p \in Prs \ dequeued /\ status[p] # None
  BY AtWork DEF Resync, At
<1>2. Moves(c, "idle") /\ call'[c].pr = None
  BY GotoMoves DEF IInv, Resync, Ats
<1>3. /\ status' = [status EXCEPT ![p] = "pending"] /\ sha' = [sha EXCEPT ![p] = call[c].seen]
      /\ moved' = moved \cup Relied(c, p) /\ irregular' = irregular \cup Revived(c)
      /\ UNCHANGED <<position, admitted, limit, state, head, green, made, deaths, mergedHead,
                     dequeued>>
  BY DEF Resync, SetStatus, github, bounds
<1>4. Relied(c, p) \subseteq {p} /\ Revived(c) \subseteq {p} /\ call[c].seen \in Heads
  BY DEF IInv, TypeOK, Relied, Revived, Heads
<1>5. \A o \in Calls \ {c} : call[o].pr = p /\ call[o].at \in {"verdict", "ready"} => p \in moved'
  BY <1>3 DEF Relied, Others
<1>6. TypeOK'
  BY <1>1, <1>2, <1>3, <1>4 DEF IInv, TypeOK, Moves, Frames, Ats, Heads, Statuses
<1>7. CallsFit'
  BY <1>1, <1>2, <1>3, NoneAssumption DEF IInv, TypeOK, CallsFit, Moves, Statuses
<1>8. MergesFit'
  BY <1>1, <1>2, <1>3 DEF IInv, TypeOK, MergesFit, MergedMeansMerged, Moves
<1>9. ChecksFit'
  <2>1. \A q \in Prs : status'[q] = "ready" => <<q, sha'[q]>> \in green' \/ q \in moved'
    BY <1>1, <1>3 DEF IInv, TypeOK, ChecksFit
  <2>2. ASSUME NEW o \in Calls, call'[o].pr \notin moved', call'[o].at \in {"verdict", "ready"}
        PROVE  sha'[call'[o].pr] = call'[o].seen
    <3>1. o # c /\ call'[o] = call[o]
      BY <1>2, <2>2 DEF Moves
    <3>2. call[o].pr \in Prs /\ call[o].pr # p
      BY <1>5, <2>2, <3>1 DEF IInv, CallsFit
    <3>3. sha'[call[o].pr] = sha[call[o].pr]
      BY <1>3, <3>2 DEF IInv, TypeOK
    <3>4. call[o].pr \notin moved
      BY <1>3, <2>2, <3>1
    <3> QED
      BY <2>2, <3>1, <3>3, <3>4 DEF IInv, ChecksFit
  <2>3. \A o \in Calls : call'[o].pr \notin moved' =>
          /\ call'[o].at \in {"ready", "take", "live", "put"} =>
               <<call'[o].pr, call'[o].seen>> \in green'
          /\ call'[o].at = "put" => head'[call'[o].pr] = call'[o].seen
    BY <1>1, <1>2, <1>3 DEF IInv, ChecksFit, Moves
  <2>4. QuietMergesAreChecked'
    BY <1>3 DEF IInv, ChecksFit, QuietMergesAreChecked
  <2> QED
    BY <2>1, <2>2, <2>3, <2>4 DEF ChecksFit
<1>10. RemovalsFit'
  BY <1>1, <1>2, <1>3, NoneAssumption DEF IInv, TypeOK, RemovalsFit, Moves
<1>11. OrderFits'
  <2>1. Entered' = Entered
    BY <1>1, <1>3, NoneAssumption DEF IInv, TypeOK, Entered, Statuses
  <2>2. Live' \ irregular' \subseteq Live
    BY <1>3 DEF IInv, TypeOK, Live, Revived
  <2>3. \A o \in Calls :
          /\ call'[o].at = "insert" => call[o].at = "insert" /\ call'[o] = call[o]
          /\ call'[o].at = "place" => call[o].at = "place"
    BY <1>2 DEF Moves
  <2> QED
    BY <1>3, <2>1, <2>2, <2>3, OrderStays DEF IInv
<1> QED
  BY <1>6, <1>7, <1>8, <1>9, <1>10, <1>11 DEF IInv

LEMMA PutMergeKeeps ==
  ASSUME IInv, NEW c \in Calls, PutMerge(c)
  PROVE  IInv'
<1> DEFINE p == call[c].pr
<1>1. call[c].at = "put" /\ p \in Prs \ dequeued /\ status[p] # None
  BY AtWork DEF PutMerge, At
<1>2. CASE Goto(c, "block") /\ UNCHANGED <<state, mergedHead>>
  <2>1. Moves(c, "block") /\ call'[c].pr = p
    BY <1>2, GotoMoves DEF IInv, Ats
  <2>2. FrameFits(call'[c])
    BY <1>1, <2>1 DEF FrameFits, Moves
  <2> QED
    BY <1>2, <2>1, <2>2, MoveKeeps DEF IInv, TypeOK, PutMerge, github, history, bounds, Ats
<1>3. ASSUME state[p] = "open", state' = [state EXCEPT ![p] = "merged"],
             mergedHead' = [mergedHead EXCEPT ![p] = head[p]],
             NEW l \in {"merged", "block"}, Goto(c, l)
      PROVE  IInv'
  <2>1. Moves(c, l) /\ call'[c].pr = p
    BY <1>3, GotoMoves DEF IInv, Ats
  <2>2. UNCHANGED <<status, sha, position, admitted, limit, head, green, made, deaths, moved,
                    dequeued, irregular>>
    BY DEF PutMerge, rows, bounds
  <2>3. head[p] \in 0..MaxHead /\ head[p] # None
    BY <1>1, NoneAssumption DEF IInv, TypeOK
  <2>4. <<p, head[p]>> \in green \/ p \in moved
    BY <1>1 DEF IInv, ChecksFit
  <2>5. TypeOK'
    BY <1>1, <1>3, <2>1, <2>2, <2>3 DEF IInv, TypeOK, Moves, Frames, Ats, Heads
  <2>6. CallsFit'
    BY <1>1, <2>1, <2>2 DEF IInv, CallsFit, Moves
  <2>7. MergesFit'
    BY <1>1, <1>3, <2>1, <2>2, <2>3 DEF IInv, TypeOK, CallsFit, MergesFit, MergedMeansMerged, Moves
  <2>8. ChecksFit'
    <3>1. QuietMergesAreChecked'
      BY <1>1, <1>3, <2>2, <2>4 DEF IInv, TypeOK, ChecksFit, QuietMergesAreChecked
    <3>2. \A o \in Calls : (call'[o].at = call[o].at /\ call'[o] = call[o]) \/ call'[o].at \in {"merged", "block"}
      BY <2>1 DEF Moves
    <3> QED
      BY <2>2, <3>1, <3>2 DEF IInv, ChecksFit
  <2>9. RemovalsFit'
    BY <1>1, <2>1, <2>2 DEF IInv, RemovalsFit, Moves
  <2>10. OrderFits'
    <3>1. Live' = Live /\ Entered' = Entered
      BY <2>2 DEF Live, Entered
    <3> QED
      BY <1>3, <2>1, <2>2, <3>1, OrderStays DEF IInv, Moves
  <2> QED
    BY <2>5, <2>6, <2>7, <2>8, <2>9, <2>10 DEF IInv
<1> QED
  BY <1>2, <1>3 DEF PutMerge

LEMMA RemoveKeeps ==
  ASSUME IInv, NEW c \in Calls, Remove(c)
  PROVE  IInv'
<1>1. PICK p \in Prs :
        /\ status[p] # None /\ Look(c, p, None, "tidy")
        /\ status' = [status EXCEPT ![p] = IF @ = "merged" THEN @ ELSE "removed"]
        /\ dequeued' = IF Others(c, p) = {} /\ status'[p] = "removed"
                       THEN dequeued \cup {p} ELSE dequeued
  BY DEF Remove
<1>2. Moves(c, "tidy") /\ call'[c].pr = p
  BY <1>1, LookMoves DEF IInv, Heads, Ats
<1>3. /\ UNCHANGED <<sha, position, admitted, limit, state, head, green, deaths, mergedHead,
                     moved, irregular>>
      /\ made' \in 0..MaxCalls
  BY BoundsAssumption DEF IInv, TypeOK, Remove, Start, github
<1>4. \A q \in Prs : status'[q] = IF q = p /\ status[q] # "merged" THEN "removed" ELSE status[q]
  BY <1>1 DEF IInv, TypeOK
<1>5. TypeOK'
  BY <1>1, <1>2, <1>3 DEF IInv, TypeOK, Moves, Frames, Ats, Heads, Statuses
<1>6. CallsFit'
  BY <1>1, <1>2, <1>3, <1>4, NoneAssumption DEF IInv, CallsFit, Moves, Statuses
<1>7. MergesFit'
  BY <1>2, <1>3, <1>4 DEF IInv, MergesFit, MergedMeansMerged, Moves
<1>8. ChecksFit'
  BY <1>2, <1>3, <1>4 DEF IInv, ChecksFit, QuietMergesAreChecked, Moves
<1>9. RemovalsFit'
  <2>1. ASSUME NEW q \in dequeued
        PROVE  /\ status'[q] = "removed"
               /\ \A o \in Calls : call'[o].pr = q => call'[o].at \in {"count", "place", "insert", "tidy"}
    BY <1>2, <1>4 DEF IInv, TypeOK, RemovalsFit, Moves
  <2>2. ASSUME Others(c, p) = {}, status'[p] = "removed"
        PROVE  \A o \in Calls : call'[o].pr = p => call'[o].at \in {"count", "place", "insert", "tidy"}
    BY <1>2, <2>2 DEF Others, Moves
  <2> QED
    BY <1>1, <2>1, <2>2 DEF RemovalsFit
<1>10. OrderFits'
  <2>1. Entered' = Entered
    BY <1>1, <1>4, NoneAssumption DEF Entered, Statuses
  <2>2. Live' \subseteq Live
    BY <1>4 DEF Live
  <2> QED
    BY <1>2, <1>3, <2>1, <2>2, OrderStays DEF IInv, Moves
<1> QED
  BY <1>5, <1>6, <1>7, <1>8, <1>9, <1>10 DEF IInv

-----------------------------------------------------------------------------
(* GitHub *)

LEMMA PushKeeps ==
  ASSUME IInv, NEW p \in Prs, Push(p)
  PROVE  IInv'
<1>1. /\ head' = [head EXCEPT ![p] = @ + 1] /\ head[p] + 1 \in 0..MaxHead
      /\ UNCHANGED <<status, sha, position, admitted, limit, state, green, call, made, deaths,
                     mergedHead, dequeued, irregular>>
      /\ moved \subseteq moved' /\ moved' \subseteq Prs
  BY BoundsAssumption DEF IInv, TypeOK, Push, rows, bounds
<1>2. \A o \in Calls : call[o].pr = p /\ call[o].at = "put" => p \in moved'
  BY DEF Push, At
<1>3. TypeOK' /\ CallsFit' /\ MergesFit' /\ RemovalsFit'
  BY <1>1 DEF IInv, TypeOK, CallsFit, MergesFit, MergedMeansMerged, RemovalsFit
<1>4. ChecksFit'
  BY <1>1, <1>2 DEF IInv, TypeOK, CallsFit, ChecksFit, QuietMergesAreChecked
<1>5. OrderFits'
  <2>1. Live' = Live /\ Entered' = Entered
    BY <1>1 DEF Live, Entered
  <2> QED
    BY <1>1, <2>1, OrderStays DEF IInv
<1> QED
  BY <1>3, <1>4, <1>5 DEF IInv

LEMMA GitHubKeeps ==
  ASSUME IInv, NEW p \in Prs, PassChecks(p) \/ Close(p)
  PROVE  IInv'
<1>1. /\ UNCHANGED <<status, sha, position, admitted, limit, head, call, made, deaths,
                     mergedHead, moved, dequeued, irregular>>
      /\ green \subseteq green' /\ green' \subseteq Prs \X (0..MaxHead)
      /\ state' = state \/ (state[p] = "open" /\ state' = [state EXCEPT ![p] = "closed"])
  BY DEF IInv, TypeOK, PassChecks, Close, rows, bounds, history
<1>2. TypeOK' /\ CallsFit' /\ MergesFit' /\ RemovalsFit'
  BY <1>1 DEF IInv, TypeOK, CallsFit, MergesFit, MergedMeansMerged, RemovalsFit
<1>3. ChecksFit'
  BY <1>1 DEF IInv, ChecksFit, QuietMergesAreChecked
<1>4. OrderFits'
  <2>1. Live' = Live /\ Entered' = Entered
    BY <1>1 DEF Live, Entered
  <2> QED
    BY <1>1, <2>1, OrderStays DEF IInv
<1> QED
  BY <1>2, <1>3, <1>4 DEF IInv

-----------------------------------------------------------------------------
(* Renumbering and admission *)

\* Of two live entries, the one admitted first has the smaller number.
UpTo(p) == {q \in Live : admitted[q] <= admitted[p]}

LEMMA UpToIsOrdered ==
  ASSUME TypeOK
  PROVE  /\ \A p \in Live : Cardinality(UpTo(p)) \in Nat /\ Cardinality(UpTo(p)) <= Cardinality(Live)
         /\ \A p, q \in Live : admitted[p] < admitted[q] => Cardinality(UpTo(p)) < Cardinality(UpTo(q))
<1>1. \A p \in Live : UpTo(p) \in SUBSET Live /\ p \in UpTo(p) /\ admitted[p] \in Nat
  BY DEF TypeOK, UpTo, Live
<1>2. \A p \in Live : Cardinality(UpTo(p)) \in Nat /\ Cardinality(UpTo(p)) <= Cardinality(Live)
  BY <1>1, LiveIsFinite, FS_Subset
<1>3. ASSUME NEW p \in Live, NEW q \in Live, admitted[p] < admitted[q]
      PROVE  Cardinality(UpTo(p)) < Cardinality(UpTo(q))
  <2>1. UpTo(p) \subseteq UpTo(q) /\ q \notin UpTo(p) /\ q \in UpTo(q)
    BY <1>1, <1>3 DEF UpTo
  <2>2. IsFiniteSet(UpTo(q))
    BY <1>1, LiveIsFinite
  <2>3. Cardinality(UpTo(p)) <= Cardinality(UpTo(q)) /\ Cardinality(UpTo(p)) # Cardinality(UpTo(q))
    BY <2>1, <2>2, FS_Subset
  <2> QED
    BY <1>2, <2>3
<1> QED
  BY <1>2, <1>3

LEMMA RebalanceKeeps ==
  ASSUME IInv, NEW c \in Calls, Rebalance(c)
  PROVE  IInv'
<1> DEFINE Lost == {call[q].pr : q \in {o \in Calls :
                      At(o, "insert") /\ \E p \in Live : position'[p] >= call[o].place}}
<1>1. PICK l \in {"idle", "front", "block"} :
        Goto(c, l) /\ (l = "block" => call[c].at = "rebalance")
  BY DEF Rebalance, At
<1>2. /\ Moves(c, l) /\ (l = "idle" => call'[c].pr = None)
      /\ l # "idle" => call'[c].pr = call[c].pr /\ call'[c].seen = call[c].seen
  BY <1>1, GotoMoves DEF IInv, Ats
<1>3. call[c].pr \in Prs /\ status[call[c].pr] # None
  BY DEF IInv, CallsFit, Rebalance
<1>4. l # "idle" => call[c].at = "rebalance"
  BY <1>1, <1>2 DEF Rebalance, At, Moves, Goto, Idle
<1>5. /\ irregular' = irregular \cup Lost
      /\ \A p \in Prs : position'[p] = IF p \in Live THEN Cardinality(UpTo(p)) ELSE position[p]
      /\ UNCHANGED <<status, sha, admitted, limit, state, head, green, made, deaths,
                     mergedHead, moved, dequeued>>
  BY DEF Rebalance, UpTo, github, bounds
<1>6. Lost \subseteq Prs
  BY DEF IInv, CallsFit, At
<1>7. \A o \in Calls : call[o].at = "insert" /\ call[o].pr \notin Lost =>
        \A p \in Live : ~(position'[p] >= call[o].place)
  BY DEF At
<1> HIDE DEF Lost
<1>8. \A p \in Live : position'[p] \in Nat
  BY <1>5, UpToIsOrdered DEF IInv, Live
<1>9. TypeOK'
  <2>1. position' \in [Prs -> Nat]
    <3>1. DOMAIN position' = Prs /\ position' = [p \in Prs |-> position'[p]]
      BY DEF Rebalance
    <3> QED
      BY <1>5, <1>8, <3>1 DEF IInv, TypeOK
  <2> QED
    BY <1>2, <1>5, <1>6, <2>1 DEF IInv, TypeOK, Moves, Frames, Ats, Heads
<1>10. CallsFit'
  <2>1. PICK b \in Nat : \A p \in Prs : position[p] <= b
    BY DEF IInv, CallsFit
  <2>2. PICK n \in Nat : n = Cardinality(Live) + b
    BY LiveIsFinite
  <2>3. \A p \in Prs : position'[p] <= n
    BY <1>5, <2>1, <2>2, UpToIsOrdered, LiveIsFinite DEF IInv, TypeOK
  <2> QED
    BY <1>2, <1>3, <1>5, <2>3 DEF IInv, CallsFit, Moves
<1>11. MergesFit' /\ ChecksFit'
  BY <1>2, <1>5 DEF IInv, MergesFit, MergedMeansMerged, ChecksFit, QuietMergesAreChecked, Moves
<1>12. RemovalsFit'
  BY <1>2, <1>4, <1>5, NoneAssumption DEF IInv, TypeOK, RemovalsFit, Moves
<1>13. OrderFits'
  <2>1. Live' = Live /\ Entered' = Entered /\ Live \subseteq Prs
    BY <1>5 DEF Live, Entered
  <2>2. \A p, q \in Live : admitted[p] < admitted[q] => position'[p] < position'[q]
    BY <1>5, <2>1, UpToIsOrdered DEF IInv
  <2>3. ASSUME NEW o \in Calls, call'[o].at = "insert", call'[o].pr \notin irregular'
        PROVE  \A p \in Live : position'[p] < call'[o].place
    <3>1. call'[o] = call[o] /\ call[o].place \in Nat
      BY <1>2, <2>3 DEF IInv, TypeOK, Moves
    <3> QED
      BY <1>5, <1>7, <1>8, <2>3, <3>1
  <2>4. \A o \in Calls : call'[o].at \in {"place", "insert"} => call[o].at \in {"place", "insert"}
    BY <1>2 DEF Moves
  <2>5. irregular' = {} => irregular = {}
    BY <1>5
  <2>6. irregular' = {} =>
          /\ Cardinality(Live') <= limit'
          /\ \A o \in Calls : call'[o].at \in {"place", "insert"} => Cardinality(Live') < limit'
    BY <1>5, <2>1, <2>4, <2>5 DEF IInv, OrderFits
  <2>7. \A p \in Entered' : admitted'[p] <= Cardinality(Entered')
    BY <1>5, <2>1 DEF IInv, OrderFits
  <2> QED
    BY <1>5, <2>1, <2>2, <2>3, <2>6, <2>7 DEF OrderFits
<1> QED
  BY <1>9, <1>10, <1>11, <1>12, <1>13 DEF IInv

\* An admission that no other overlapped is behind all regular entries.
LEMMA InsertEntryKeeps ==
  ASSUME IInv, NEW c \in Calls, InsertEntry(c)
  PROVE  IInv'
<1> DEFINE p == call[c].pr
           n == 1 + Cardinality(Entered)
           rivals == {o \in Calls \ {c} : call[o].at \in {"place", "insert"}}
<1>1. call[c].at = "insert" /\ p \in Prs
  BY DEF IInv, CallsFit, InsertEntry, At
<1>2. Moves(c, "idle") /\ call'[c].pr = None
  BY GotoMoves DEF IInv, InsertEntry, Ats
<1>3. /\ status' = [status EXCEPT ![p] = "pending"] /\ sha' = [sha EXCEPT ![p] = call[c].seen]
      /\ position' = IF status[p] = None THEN [position EXCEPT ![p] = call[c].place] ELSE position
      /\ dequeued' = dequeued \ {p}
      /\ moved' = IF sha[p] # call[c].seen THEN moved \cup Relied(c, p) ELSE moved
      /\ UNCHANGED <<limit, state, head, green, made, deaths, mergedHead>>
  BY DEF InsertEntry, github, bounds
<1>4. admitted' = IF status[p] = None THEN [admitted EXCEPT ![p] = n] ELSE admitted
  BY DEF InsertEntry, Entered
<1>5. /\ irregular \subseteq irregular'
      /\ rivals # {} => p \in irregular' /\ \A o \in rivals : call[o].pr \in irregular'
      /\ status[p] # None => p \in irregular'
  BY DEF InsertEntry
<1>6. irregular' \subseteq Prs
  BY <1>1 DEF IInv, CallsFit, TypeOK, InsertEntry
<1>7. n \in Nat /\ call[c].place \in Nat /\ call[c].seen \in Heads
  BY LiveIsFinite DEF IInv, TypeOK, Heads
<1> HIDE DEF n
<1>8. TypeOK'
  <2>1. position' \in [Prs -> Nat] /\ admitted' \in [Prs -> Nat]
    BY <1>1, <1>3, <1>4, <1>7 DEF IInv, TypeOK
  <2>2. moved' \subseteq Prs
    BY <1>1, <1>3 DEF IInv, TypeOK, Relied
  <2> QED
    BY <1>1, <1>2, <1>3, <1>6, <1>7, <2>1, <2>2
       DEF IInv, TypeOK, Moves, Frames, Ats, Heads, Statuses
<1>9. CallsFit'
  <2>1. PICK b \in Nat : \A q \in Prs : position[q] <= b
    BY DEF IInv, CallsFit
  <2>2. \A q \in Prs : position'[q] <= b + call[c].place
    BY <1>1, <1>3, <1>7, <2>1 DEF IInv, TypeOK
  <2>3. b + call[c].place \in Nat
    BY <1>7, <2>1
  <2>4. \E m \in Nat : \A q \in Prs : position'[q] <= m
    BY <2>2, <2>3
  <2>5. \A q \in Prs : status'[q] = IF q = p THEN "pending" ELSE status[q]
    BY <1>3 DEF IInv, TypeOK
  <2> QED
    BY <1>2, <2>4, <2>5, NoneAssumption DEF IInv, CallsFit, Moves, Statuses
<1>10. MergesFit'
  BY <1>1, <1>2, <1>3 DEF IInv, TypeOK, MergesFit, MergedMeansMerged, Moves
<1>11. ChecksFit'
  <2>1. moved \subseteq moved'
    BY <1>3
  <2>2. \A q \in Prs : status'[q] = "ready" => <<q, sha'[q]>> \in green' \/ q \in moved'
    BY <1>1, <1>3 DEF IInv, TypeOK, ChecksFit
  <2>3. ASSUME NEW o \in Calls, call'[o].pr \notin moved', call'[o].at \in {"verdict", "ready"}
        PROVE  sha'[call'[o].pr] = call'[o].seen
    <3>1. o # c /\ call'[o] = call[o] /\ call[o].pr \in Prs /\ call[o].pr \notin moved
      BY <1>2, <2>1, <2>3 DEF IInv, CallsFit, Moves
    <3>2. sha[call[o].pr] = call[o].seen
      BY <2>3, <3>1 DEF IInv, ChecksFit
    <3>3. CASE call[o].pr # p
      BY <1>3, <3>1, <3>2, <3>3 DEF IInv, TypeOK
    <3>4. CASE call[o].pr = p
      <4>1. p \in Relied(c, p)
        BY <2>3, <3>1, <3>4 DEF Relied, Others
      <4>2. sha[p] = call[c].seen
        BY <1>3, <2>3, <3>1, <3>4, <4>1
      <4> QED
        BY <1>1, <1>3, <3>1, <3>2, <3>4, <4>2 DEF IInv, TypeOK
    <3> QED
      BY <3>3, <3>4
  <2>4. \A o \in Calls : call'[o].pr \notin moved' =>
          /\ call'[o].at \in {"ready", "take", "live", "put"} =>
               <<call'[o].pr, call'[o].seen>> \in green'
          /\ call'[o].at = "put" => head'[call'[o].pr] = call'[o].seen
    BY <1>2, <1>3, <2>1 DEF IInv, ChecksFit, Moves
  <2>5. QuietMergesAreChecked'
    BY <1>3, <2>1 DEF IInv, ChecksFit, QuietMergesAreChecked
  <2> QED
    BY <2>2, <2>3, <2>4, <2>5 DEF ChecksFit
<1>12. RemovalsFit'
  BY <1>2, <1>3, NoneAssumption DEF IInv, TypeOK, RemovalsFit, Moves
<1>13. OrderFits'
  <2>1. /\ Entered' = Entered \cup {p} /\ Live' = Live \cup {p}
        /\ status[p] # None <=> p \in Entered
    BY <1>1, <1>3, NoneAssumption DEF IInv, TypeOK, Entered, Live, Statuses
  <2>2. Cardinality(Entered') = IF p \in Entered THEN Cardinality(Entered) ELSE n
    BY <2>1, LiveIsFinite, FS_AddElement DEF n
  <2>3. Cardinality(Live') \in Nat /\ Cardinality(Live') <= Cardinality(Live) + 1
    <3>1. Cardinality(Live') = IF p \in Live THEN Cardinality(Live) ELSE Cardinality(Live) + 1
      BY <2>1, LiveIsFinite, FS_AddElement
    <3> QED
      BY <3>1, LiveIsFinite
  <2>4. \A q \in Entered : admitted[q] \in Nat /\ admitted[q] < n
    BY LiveIsFinite DEF IInv, TypeOK, OrderFits, Entered, n
  <2>5. \A q \in Entered' : admitted'[q] <= Cardinality(Entered')
    BY <1>1, <1>4, <1>7, <2>1, <2>2, <2>4 DEF IInv, TypeOK, OrderFits, Entered
  <2>6. Live \subseteq Entered /\ Live \subseteq Prs
    BY NoneAssumption DEF Live, Entered, Statuses
  <2>7. \A q \in Live \ {p} : position'[q] = position[q] /\ admitted'[q] = admitted[q]
    BY <1>3, <1>4, <2>6 DEF IInv, TypeOK
  <2>8. ASSUME p \notin irregular'
        PROVE  /\ p \notin Live /\ position'[p] = call[c].place /\ admitted'[p] = n
               /\ \A q \in Live \ irregular : position[q] < call[c].place
    BY <1>1, <1>3, <1>4, <1>5, <2>1, <2>6, <2>8 DEF IInv, TypeOK, OrderFits
  <2>9. \A q, r \in Live' \ irregular' : admitted'[q] < admitted'[r] => position'[q] < position'[r]
    <3> SUFFICES ASSUME NEW q \in Live' \ irregular', NEW r \in Live' \ irregular',
                        admitted'[q] < admitted'[r]
                 PROVE  position'[q] < position'[r]
      OBVIOUS
    <3>1. CASE q # p /\ r # p
      BY <1>5, <2>1, <2>7, <3>1 DEF IInv, OrderFits
    <3>2. CASE q # p /\ r = p
      BY <1>5, <2>1, <2>7, <2>8, <3>2
    <3>3. CASE q = p
      <4>1. CASE r = p
        BY <1>7, <2>8, <3>3, <4>1
      <4>2. CASE r # p
        BY <1>7, <2>1, <2>4, <2>6, <2>7, <2>8, <3>3, <4>2
      <4> QED
        BY <4>1, <4>2
    <3> QED
      BY <3>1, <3>2, <3>3
  <2>10. ASSUME NEW o \in Calls, call'[o].at = "insert", call'[o].pr \notin irregular'
         PROVE  \A q \in Live' \ irregular' : position'[q] < call'[o].place
    <3>1. o \in rivals /\ call'[o] = call[o]
      BY <1>2, <2>10 DEF Moves
    <3> QED
      BY <1>5, <2>10, <3>1
  <2>11. ASSUME irregular' = {}
         PROVE  /\ Cardinality(Live') <= limit
                /\ \A o \in Calls : call'[o].at \notin {"place", "insert"}
    <3>1. irregular = {} /\ rivals = {}
      BY <1>5, <2>11
    <3>2. Cardinality(Live) < limit
      BY <1>1, <3>1 DEF IInv, OrderFits
    <3>3. limit \in Nat
      BY DEF IInv, TypeOK
    <3> QED
      BY <1>2, <2>3, <3>1, <3>2, <3>3, LiveIsFinite DEF Moves
  <2> QED
    BY <1>3, <2>5, <2>9, <2>10, <2>11 DEF OrderFits
<1> QED
  BY <1>8, <1>9, <1>10, <1>11, <1>12, <1>13 DEF IInv

-----------------------------------------------------------------------------
(* The theorems *)

LEMMA InitFits ==
  ASSUME Init
  PROVE  IInv
<1>1. TypeOK
  BY BoundsAssumption DEF Init, TypeOK, Idle
<1>2. CallsFit
  BY DEF Init, CallsFit, Idle
<1>3. MergesFit /\ ChecksFit /\ RemovalsFit
  BY NoneAssumption
     DEF Init, MergesFit, MergedMeansMerged, ChecksFit, QuietMergesAreChecked, RemovalsFit, Idle,
         Statuses
<1>4. OrderFits
  <2>1. Live = {} /\ Entered = {}
    BY NoneAssumption DEF Init, Live, Entered, Statuses
  <2>2. Cardinality(Live) = 0 /\ limit \in Nat /\ limit > 0
    BY <2>1, FS_EmptySet, BoundsAssumption DEF Init
  <2> QED
    BY <2>1, <2>2 DEF Init, OrderFits, Idle
<1> QED
  BY <1>1, <1>2, <1>3, <1>4 DEF IInv

LEMMA NextKeeps ==
  ASSUME IInv, [Next]_vars
  PROVE  IInv'
<1>1. ASSUME NEW c \in Calls, Admission(c) PROVE IInv'
  BY <1>1, StartAdmitKeeps, CountEntriesKeeps, FindPlaceKeeps, InsertEntryKeeps DEF Admission
<1>2. ASSUME NEW c \in Calls, ChecksUpdate(c) PROVE IInv'
  BY <1>2, SelectEntryKeeps, VerdictKeeps, WriteReadyKeeps, WriteBlockedKeeps DEF ChecksUpdate
<1>3. ASSUME NEW c \in Calls, Processing(c) PROVE IInv'
  BY <1>3, FrontKeeps, TakeKeeps, GetLiveKeeps, WriteRemovedKeeps, ResyncKeeps, PutMergeKeeps,
     WriteMergedKeeps, RebalanceKeeps DEF Processing
<1>4. ASSUME NEW c \in Calls, Remove(c) \/ Die(c) PROVE IInv'
  BY <1>4, RemoveKeeps, DieKeeps
<1>5. ASSUME NEW p \in Prs, Push(p) \/ PassChecks(p) \/ Close(p) PROVE IInv'
  BY <1>5, PushKeeps, GitHubKeeps
<1>6. CASE UNCHANGED vars
  <2>1. UNCHANGED <<status, sha, position, admitted, limit, state, head, green, call, made,
                    deaths, mergedHead, moved, dequeued, irregular>>
    BY <1>6 DEF vars, rows, github, bounds, history
  <2>2. TypeOK' /\ CallsFit' /\ MergesFit' /\ ChecksFit' /\ RemovalsFit'
    BY <2>1 DEF IInv, TypeOK, CallsFit, MergesFit, MergedMeansMerged, ChecksFit,
                QuietMergesAreChecked, RemovalsFit
  <2>3. Live' = Live /\ Entered' = Entered
    BY <2>1 DEF Live, Entered
  <2> QED
    BY <2>1, <2>2, <2>3, OrderStays DEF IInv
<1> QED
  BY <1>1, <1>2, <1>3, <1>4, <1>5, <1>6 DEF Next

\* The strengthening behind every theorem below: what each call of
\* mergeQueueService.js still knows of its entry when it writes.
THEOREM Inductive == Spec => []IInv
<1>1. Init => IInv
  BY InitFits
<1>2. IInv /\ [Next]_vars => IInv'
  BY NextKeeps
<1> QED
  BY <1>1, <1>2, PTL DEF Spec

\* Every variable keeps its type; positions stay natural numbers because the
\* largest position of a queue is always there to be found.
THEOREM TypeCorrect == Spec => []TypeOK
<1>1. IInv => TypeOK
  BY DEF IInv
<1> QED
  BY <1>1, Inductive, PTL

\* onChecksUpdated and processQueue merge an unchecked head only if it moved under
\* a call that relied on it.
THEOREM QuietMergesChecked == Spec => []QuietMergesAreChecked
<1>1. IInv => QuietMergesAreChecked
  BY DEF IInv, ChecksFit
<1> QED
  BY <1>1, Inductive, PTL

\* An entry processQueue calls merged was merged by it.
THEOREM MergedIsTrue == Spec => []MergedMeansMerged
<1>1. IInv => MergedMeansMerged
  BY DEF IInv, MergesFit
<1> QED
  BY <1>1, Inductive, PTL

\* removeFromQueue is final where no other call was at work on the entry.
THEOREM RemovalsAreFinal == Spec => []QuietRemovalIsFinal
<1>1. IInv => QuietRemovalIsFinal
  BY DEF IInv, RemovalsFit, QuietRemovalIsFinal
<1> QED
  BY <1>1, Inductive, PTL

\* admitToQueue and rebalancePositions keep the order of the admissions, and the
\* depth of the queue, for every number of callers and pull requests.
THEOREM OrderIsKept == Spec => []QueueIsInOrder
<1>1. IInv => QueueIsInOrder
  BY LiveIsFinite DEF IInv, TypeOK, OrderFits, QueueIsInOrder
<1> QED
  BY <1>1, Inductive, PTL

-----------------------------------------------------------------------------
(* Entries that stay merging *)

\* Where a call is that has taken an entry and not yet written what became of it
Merging == {"live", "drop", "resync", "block", "put", "merged"}
WorksOn(c, p) == call[c].pr = p /\ call[c].at \in Merging

\* Entries that are merging though no call is at work on them: no call will take
\* them up again, and they count against max_queue_depth.
Stuck == {p \in Prs : status[p] = "merging" /\ \A c \in Calls : ~WorksOn(c, p)}

StuckByDeaths == IsFiniteSet(Stuck) /\ Cardinality(Stuck) <= deaths

\* Enough for a step of call c
LEMMA FewerStuck ==
  ASSUME NEW c \in Calls, \A o \in Calls \ {c} : call'[o] = call[o],
         \A p \in Prs : status'[p] = "merging" =>
           WorksOn(c, p)' \/ (status[p] = "merging" /\ ~WorksOn(c, p))
  PROVE  Stuck' \subseteq Stuck
BY DEF Stuck, WorksOn

\* Calls that have taken no entry leave none of them merging, ...
LEMMA OutsideStuck ==
  ASSUME IInv, NEW c \in Calls,
         \/ Admission(c) \/ SelectEntry(c) \/ Verdict(c) \/ WriteReady(c) \/ Front(c)
         \/ Rebalance(c) \/ Remove(c)
  PROVE  Stuck' \subseteq Stuck
<1>1. call[c].at \notin Merging
  BY DEF Admission, StartAdmit, CountEntries, FindPlace, InsertEntry, SelectEntry, Verdict,
         WriteReady, Front, Rebalance, Remove, Start, At, Merging
<1>2. \A o \in Calls \ {c} : call'[o] = call[o]
  BY DEF Admission, StartAdmit, CountEntries, FindPlace, InsertEntry, SelectEntry, Verdict,
         WriteReady, Front, Rebalance, Remove, Goto, Look, IInv, TypeOK
<1>3. \A p \in Prs : status'[p] = "merging" => status[p] = "merging"
  BY DEF Admission, StartAdmit, CountEntries, FindPlace, InsertEntry, SelectEntry, Verdict,
         WriteReady, SetStatus, Front, Rebalance, Remove, rows, IInv, TypeOK
<1> QED
  BY <1>1, <1>2, <1>3, FewerStuck DEF WorksOn

\* ... a call that takes one goes to work on it, ...
LEMMA TakeStuck ==
  ASSUME IInv, NEW c \in Calls, Take(c)
  PROVE  Stuck' \subseteq Stuck
<1>1. call[c].at \notin Merging /\ call[c].pr \in Prs
  BY DEF Take, At, Merging, IInv, CallsFit
<1>2. CASE Goto(c, "idle") /\ UNCHANGED status
  BY <1>1, <1>2, GotoMoves, FewerStuck DEF IInv, Ats, Moves, WorksOn
<1>3. CASE SetStatus(c, "merging") /\ Goto(c, "live")
  <2>1. Moves(c, "live") /\ call'[c].pr = call[c].pr
    BY <1>3, GotoMoves DEF IInv, Ats
  <2>2. \A p \in Prs \ {call[c].pr} : status'[p] = status[p]
    BY <1>3 DEF SetStatus, IInv, TypeOK
  <2>3. \A o \in Calls \ {c} : call'[o] = call[o]
    BY <2>1 DEF Moves
  <2>4. \A p \in Prs : status'[p] = "merging" =>
          (call'[c].pr = p /\ call'[c].at \in Merging) \/ (status[p] = "merging" /\ ~WorksOn(c, p))
    BY <1>1, <2>1, <2>2 DEF WorksOn, Moves, Merging
  <2> QED
    BY <2>3, <2>4, FewerStuck DEF WorksOn
<1> QED
  BY <1>2, <1>3 DEF Take

\* ... and stays at work on it until it writes what became of it.
LEMMA InsideStuck ==
  ASSUME IInv, NEW c \in Calls,
         \/ GetLive(c) \/ PutMerge(c)
         \/ WriteBlocked(c) \/ WriteRemoved(c) \/ Resync(c) \/ WriteMerged(c)
  PROVE  Stuck' \subseteq Stuck
<1>1. call[c].pr \in Prs
  BY DEF GetLive, PutMerge, WriteBlocked, WriteRemoved, Resync, WriteMerged, At, IInv, CallsFit
<1>2. CASE GetLive(c) \/ PutMerge(c)
  <2>1. PICK l \in Merging : Goto(c, l) \/ Look(c, call[c].pr, head[call[c].pr], l)
    BY <1>2 DEF GetLive, PutMerge, Merging
  <2>2. Moves(c, l) /\ call'[c].pr = call[c].pr
    BY <1>1, <2>1, GotoMoves, LookMoves DEF IInv, TypeOK, Ats, Heads, Merging
  <2>3. UNCHANGED status
    BY <1>2 DEF GetLive, PutMerge, rows
  <2> QED
    BY <2>2, <2>3, FewerStuck DEF Moves, WorksOn
<1>3. CASE WriteBlocked(c) \/ WriteRemoved(c) \/ Resync(c) \/ WriteMerged(c)
  <2>1. PICK s \in {"blocked", "removed", "pending", "merged"} : SetStatus(c, s)
    BY <1>3 DEF WriteBlocked, WriteRemoved, Resync, WriteMerged
  <2>2. PICK l \in {"idle", "rebalance"} : Goto(c, l)
    BY <1>3 DEF WriteBlocked, WriteRemoved, Resync, WriteMerged
  <2>3. \A o \in Calls \ {c} : call'[o] = call[o]
    BY <2>2, GotoMoves DEF IInv, Ats, Moves
  <2>4. \A p \in Prs : status'[p] = IF p = call[c].pr THEN s ELSE status[p]
    BY <2>1 DEF SetStatus, IInv, TypeOK
  <2> QED
    BY <2>3, <2>4, FewerStuck DEF WorksOn
<1> QED
  BY <1>2, <1>3

LEMMA StepStuck == IInv /\ StuckByDeaths /\ [Next]_vars => StuckByDeaths'
<1> SUFFICES ASSUME IInv, StuckByDeaths, [Next]_vars PROVE StuckByDeaths'
  OBVIOUS
<1>1. deaths \in Nat /\ IsFiniteSet(Stuck) /\ Cardinality(Stuck) \in Nat
  BY BoundsAssumption, FS_CardinalityType DEF IInv, TypeOK, StuckByDeaths
<1>2. ASSUME Stuck' \subseteq Stuck, deaths' = deaths PROVE StuckByDeaths'
  <2>1. /\ IsFiniteSet(Stuck') /\ Cardinality(Stuck') \in Nat
        /\ Cardinality(Stuck') <= Cardinality(Stuck)
    BY <1>1, <1>2, FS_Subset, FS_CardinalityType
  <2> QED
    BY <1>1, <1>2, <2>1 DEF StuckByDeaths
<1>3. ASSUME NEW c \in Calls, Die(c) PROVE StuckByDeaths'
  <2> DEFINE p == call[c].pr
  <2>1. deaths' = deaths + 1 /\ UNCHANGED status
    BY <1>3 DEF Die, rows
  <2>2. \A o \in Calls \ {c} : call'[o] = call[o]
    BY <1>3, GotoMoves DEF Die, IInv, Ats, Moves
  <2>3. Stuck' \subseteq Stuck \cup {p}
    BY <2>1, <2>2 DEF Stuck, WorksOn
  <2>4. /\ IsFiniteSet(Stuck \cup {p}) /\ Cardinality(Stuck \cup {p}) <= Cardinality(Stuck) + 1
        /\ Cardinality(Stuck \cup {p}) \in Nat
    <3> HIDE DEF p
    <3>1. IsFiniteSet(Stuck \cup {p})
      BY <1>1, FS_AddElement
    <3>2. Cardinality(Stuck \cup {p}) \in {Cardinality(Stuck), Cardinality(Stuck) + 1}
      BY <1>1, FS_AddElement
    <3> QED
      BY <1>1, <3>1, <3>2
  <2>5. /\ IsFiniteSet(Stuck') /\ Cardinality(Stuck') \in Nat
        /\ Cardinality(Stuck') <= Cardinality(Stuck \cup {p})
    BY <2>3, <2>4, FS_Subset, FS_CardinalityType
  <2> QED
    BY <1>1, <2>1, <2>4, <2>5 DEF StuckByDeaths
<1>4. ASSUME NEW c \in Calls, Admission(c) \/ ChecksUpdate(c) \/ Processing(c) \/ Remove(c)
      PROVE  StuckByDeaths'
  <2>1. Stuck' \subseteq Stuck
    BY <1>4, OutsideStuck, TakeStuck, InsideStuck DEF ChecksUpdate, Processing
  <2>2. deaths' = deaths
    BY <1>4 DEF Admission, StartAdmit, CountEntries, FindPlace, InsertEntry, ChecksUpdate,
       SelectEntry, Verdict, WriteReady, WriteBlocked, Processing, Front, Take, GetLive,
       WriteRemoved, Resync, PutMerge, WriteMerged, Rebalance, Remove, Start, bounds
  <2> QED
    BY <1>2, <2>1, <2>2
<1>5. ASSUME UNCHANGED <<status, call, deaths>> PROVE StuckByDeaths'
  BY <1>2, <1>5 DEF Stuck, WorksOn
<1>6. (\E p \in Prs : Push(p) \/ PassChecks(p) \/ Close(p)) \/ UNCHANGED vars =>
        UNCHANGED <<status, call, deaths>>
  BY DEF Push, PassChecks, Close, vars, rows, bounds
<1> QED
  BY <1>3, <1>4, <1>5, <1>6 DEF Next

\* A call that dies after taking an entry leaves it merging and nothing takes it up
\* again (processQueue, mergeQueueService.js): no more entries are left so than calls
\* died.  Whatever else calls do to each other's entries, one that is merging has a
\* call that will still write what became of it.
THEOREM OnlyDeathsLeaveMerging == Spec => []StuckByDeaths
<1>1. Init => StuckByDeaths
  <2> SUFFICES ASSUME Init PROVE StuckByDeaths
    OBVIOUS
  <2>1. Stuck = {}
    BY NoneAssumption DEF Init, Stuck, Statuses
  <2> QED
    BY <2>1, FS_EmptySet DEF Init, StuckByDeaths
<1> QED
  BY <1>1, StepStuck, Inductive, PTL DEF Spec
=============================================================================

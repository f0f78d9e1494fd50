------------------------- MODULE ManagedActionsProofs -------------------------
(***************************************************************************)
(* Proofs about ManagedActions, for any number of jobs, API calls, keys,   *)
(* retries and deaths.                                                     *)
(***************************************************************************)
EXTENDS ManagedActions, FiniteSetTheorems, TLAPS

-----------------------------------------------------------------------------
(* The inductive invariant *)

\* Who can be where, and what a caller that is about to write a row knows of it
CallFits(p) ==
  /\ pc[p] \in {"check", "read", "write", "reason"} => row[p] \in Actions /\ goal[p] \in Statuses
  /\ pc[p] = "write" => status[row[p]] # None /\ (goal[p] = "reconciled" => row[p] \in github)
  /\ pc[p] \in {"dedup", "insert", "approved", "mutate", "reason"} => p \in Workers
  /\ p \in Workers /\ pc[p] \in {"start", "dedup", "insert"} => goal[p] = None
  /\ pc[p] \in {"child", "count", "mark"} => p \in Operators /\ row[p] = p /\ parent[p] \in Actions
  /\ pc[p] \in {"expire", "confirm"} => p = Sweeper
  /\ p \in Workers => row[p] \in {p, None}
  /\ pc[p] \in {"approved", "mutate"} => row[p] = p
  /\ p \in Actions /\ pc[p] \in {"start", "dedup", "insert", "child"} => status[p] = None
  /\ pc[p] \in {"count", "mark"} => status[p] # None
  /\ goal[p] = "succeeded" => p \in github
  /\ goal[p] \in {"approved", "executing", "blocked"} => p \in Workers
  /\ p \in Actions /\ dead[p] # None => pc[p] = "done"

CallsFit == \A p \in Callers : CallFits(p)

\* A job whose effect GitHub has is on its way to say so, a success has its effect,
\* and a row is blocked by the job that never got to GitHub.
Tells(w) ==
  IF w \in Recorders
  THEN goal[w] \notin {"cancelled", "blocked"} /\ pc[w] \notin {"check", "reason"}
  ELSE goal[w] \in {"succeeded", "failed"} /\ pc[w] \in {"read", "write", "done"}

EffectsFit ==
  /\ \A w \in github : Tells(w)
  /\ \A a \in Actions :
       /\ status[a] \in {"succeeded", "reconciled"} => a \in github
       /\ status[a] = "blocked" =>
            /\ a \in Workers /\ goal[a] = "blocked" /\ pc[a] \in {"reason", "done"}
            /\ a \in reasoned \/ "reason" \in {pc[a], dead[a]}

\* Nobody is about to write a row that was cancelled while nobody was.
StopsFit ==
  \A a \in stopped :
    /\ status[a] = "cancelled" /\ a \notin github
    /\ \A q \in Callers : row[q] = a => pc[q] \notin {"write", "mutate", "count", "mark"}

\* Whoever is about to propose, or between the two statements of propose(), is a
\* rival of every row of its key that is, or will be, there with it.
Open(w) == pc[w] \in {"dedup", "insert"}
Meets(b) == Open(b) \/ b \in active \/ (key[b] \in PatchKeys /\ status[b] # None)

KeysFit ==
  /\ \A a \in active : status[a] # None
  /\ \A a \in Actions : key[a] # None => a \in Workers
  /\ \A w \in Workers :
       /\ Open(w) => key[w] \in Keys
       /\ pc[w] = "dedup" => key[w] \in PatchKeys
  /\ \A w, b \in Workers :
       Open(w) /\ w # b /\ key[b] = key[w] /\ Meets(b) => {w, b} \in rivals
  /\ ActiveKeyUnique

\* The children of a row that were counted
Counted(a) == {o \in Children(a) : pc[o] # "count" /\ dead[o] # "count"}

Retrying(o) == pc[o] \in {"child", "count"}
IsRival(o, S) == \E q \in S : q # o /\ {o, q} \in rivals

\* Every counted child used up a retry, and the budget is exceeded only by rivals.
RetriesFit ==
  /\ \A a \in Actions :
       /\ Cardinality(Counted(a)) <= retries[a]
       /\ retries[a] <= MaxRetries \/ \E o \in Children(a) : IsRival(o, Children(a))
  /\ \A o \in Operators :
       Retrying(o) => retries[parent[o]] < MaxRetries \/ IsRival(o, Children(parent[o]))
  /\ \A o, q \in Operators :
       Retrying(o) /\ Retrying(q) /\ o # q /\ parent[o] = parent[q] => {o, q} \in rivals

\* What the sweep is to do to the rows on its list
Ends == {"failed", "cancelled", "reconciled"}
SweepFits == todo \subseteq Actions \X Ends

IInv == TypeOK /\ SweepFits /\ CallsFit /\ EffectsFit /\ StopsFit /\ KeysFit /\ RetriesFit

-----------------------------------------------------------------------------
(* Where keys and retries are not concerned *)

SameRows == \A a \in Actions : status'[a] = None <=> status[a] = None

LEMMA KeysStay ==
  ASSUME KeysFit, UNCHANGED <<active, key>>, rivals \subseteq rivals', SameRows, active \subseteq Actions,
         \A w \in Workers : Open(w)' => pc'[w] = pc[w]
  PROVE  KeysFit'
BY DEF KeysFit, ActiveKeyUnique, SameRows, Open, Meets, Actions

LEMMA RetriesStay ==
  ASSUME RetriesFit, UNCHANGED <<parent, retries>>, rivals \subseteq rivals',
         \A o \in Operators :
           /\ status'[o] = None <=> status[o] = None
           /\ Retrying(o)' => pc'[o] = pc[o]
           /\ pc[o] = "count" => "count" \in {pc'[o], dead'[o]}
           /\ dead[o] = "count" => dead'[o] = "count",
         retries \in [Actions -> Nat]
  PROVE  RetriesFit'
<1>1. \A a : Children(a)' = Children(a)
  BY DEF Children
<1>2. \A a : Counted(a)' \subseteq Counted(a) /\ Counted(a) \subseteq Operators
  BY <1>1 DEF Counted, Children
<1>3. \A a : Cardinality(Counted(a)') <= Cardinality(Counted(a))
             /\ Cardinality(Counted(a)) \in Nat /\ Cardinality(Counted(a)') \in Nat
  <2>1. \A a : IsFiniteSet(Counted(a))
    BY <1>2, CallersAssumption, FS_Subset
  <2> QED
    BY <1>2, <2>1, FS_Subset, FS_CardinalityType
<1>4. \A a \in Actions : Cardinality(Counted(a)') <= retries'[a]
  BY <1>3 DEF RetriesFit
<1>5. \A o, S : IsRival(o, S) => IsRival(o, S)'
  BY DEF IsRival
<1>6. \A a \in Actions :
        retries'[a] <= MaxRetries \/ \E o \in Children(a)' : IsRival(o, Children(a))'
  BY <1>1, <1>5 DEF RetriesFit, IsRival
<1>7. \A o \in Operators :
        Retrying(o)' => retries'[parent'[o]] < MaxRetries \/ IsRival(o, Children(parent[o]))'
  BY <1>1, <1>5 DEF RetriesFit, Retrying, IsRival
<1>8. \A o, q \in Operators :
        Retrying(o)' /\ Retrying(q)' /\ o # q /\ parent'[o] = parent'[q] => {o, q} \in rivals'
  BY DEF RetriesFit, Retrying
<1> QED
  BY <1>4, <1>6, <1>7, <1>8 DEF RetriesFit

-----------------------------------------------------------------------------
(* Steps that move a caller and nothing else *)

Moves(p) ==
  /\ pc' \in [Callers -> Places] /\ row' \in [Callers -> Actions \cup {None}]
  /\ goal' \in [Callers -> Statuses \cup {None}]
  /\ \A q \in Callers \ {p} : pc'[q] = pc[q] /\ row'[q] = row[q] /\ goal'[q] = goal[q]

LEMMA BeginMoves ==
  ASSUME TypeOK, NEW p \in Callers, NEW a \in Actions, NEW g \in Statuses, Begin(p, a, g)
  PROVE  /\ Moves(p) /\ row'[p] = a /\ goal'[p] = g
         /\ pc'[p] = IF g \in {"cancelled", "blocked"} THEN "check" ELSE "read"
BY DEF TypeOK, Begin, Moves, Places

LEMMA ThrowMoves ==
  ASSUME TypeOK, NEW p \in Callers, Throw(p), row' = row
  PROVE  /\ Moves(p)
         /\ IF p \in Workers \ Recorders /\ goal[p] = "succeeded"
            THEN goal'[p] = "failed" /\ pc'[p] = "read"
            ELSE /\ goal'[p] = goal[p]
                 /\ pc'[p] = IF p = Sweeper THEN NextRow(goal[p]) ELSE "done"
BY DEF TypeOK, Throw, Moves, Places, Statuses, NextRow

LEMMA MoveKeeps ==
  ASSUME IInv, NEW p \in Callers, Moves(p), UNCHANGED <<table, github, stopped, rivals>>,
         todo' \subseteq Actions \X Ends,
         dead' = dead \/ (pc[p] \notin {"start", "done"} /\ dead' = [dead EXCEPT ![p] = pc[p]]),
         pc'[p] \in {"start", "check", "read", "write", "expire", "confirm", "done"},
         CallFits(p)', pc'[p] = "write" => row'[p] \notin stopped,
         p \in github => Tells(p)',
         p \in Actions /\ status[p] = "blocked" =>
           goal'[p] = goal[p] /\ pc'[p] = "done" /\ (pc[p] = "reason" => dead'[p] = "reason"),
         pc[p] = "count" => dead'[p] = "count"
  PROVE  IInv'
<1>1. UNCHANGED <<status, active, key, parent, retries, reasoned, aged>>
  BY DEF table
<1>2. dead' \in [Callers -> {None} \cup (Places \ {"start", "done"})]
  BY DEF IInv, TypeOK, Places
<1>3. \A q \in Callers \ {p} : dead'[q] = dead[q]
  BY DEF IInv, TypeOK
<1>4. \A a \in Actions : dead[a] # None => pc[a] = "done" /\ dead'[a] = dead[a]
  BY <1>3 DEF IInv, TypeOK, CallsFit, CallFits, Callers, Actions
<1>5. TypeOK' /\ SweepFits'
  BY <1>1, <1>2 DEF IInv, TypeOK, SweepFits, Ends, Statuses, Moves, Places
<1>6. CallsFit'
  <2>1. ASSUME NEW q \in Callers \ {p} PROVE CallFits(q)'
    BY <1>1, <1>3 DEF IInv, CallsFit, CallFits, Moves
  <2> QED
    BY <2>1 DEF CallsFit
<1>7. EffectsFit'
  <2>1. \A w \in github' : Tells(w)'
    BY DEF IInv, TypeOK, EffectsFit, Tells, Moves, Callers
  <2>2. ASSUME NEW a \in Actions, status'[a] = "blocked"
        PROVE  /\ a \in Workers /\ goal'[a] = "blocked" /\ pc'[a] \in {"reason", "done"}
               /\ a \in reasoned' \/ "reason" \in {pc'[a], dead'[a]}
    BY <1>1, <1>3, <1>4, <2>2, NoneAssumption DEF IInv, EffectsFit, Moves, Callers
  <2> QED
    BY <1>1, <2>1, <2>2 DEF IInv, EffectsFit
<1>8. StopsFit'
  BY <1>1 DEF IInv, StopsFit, Moves
<1>9. SameRows
  BY <1>1 DEF SameRows
<1>10. KeysFit'
  <2>1. \A w \in Workers : Open(w)' => pc'[w] = pc[w]
    BY DEF Moves, Callers, Open
  <2> QED
    BY <1>1, <1>9, <2>1, KeysStay DEF IInv, TypeOK
<1>11. RetriesFit'
  <2>1. ASSUME NEW o \in Operators
        PROVE  /\ status'[o] = None <=> status[o] = None
               /\ Retrying(o)' => pc'[o] = pc[o]
               /\ pc[o] = "count" => "count" \in {pc'[o], dead'[o]}
               /\ dead[o] = "count" => dead'[o] = "count"
    BY <1>1, <1>4, NoneAssumption DEF Moves, Retrying, Callers, Actions, Places
  <2> QED
    BY <1>1, <2>1, RetriesStay DEF IInv, TypeOK
<1> QED
  BY <1>5, <1>6, <1>7, <1>8, <1>10, <1>11 DEF IInv

LEMMA EdgesKnow ==
  ASSUME NEW s, NEW g \in NextOf(s)
  PROVE  /\ s \in Statuses /\ g \in Statuses /\ s \notin {"cancelled", "reconciled"}
         /\ g = "reconciled" => s = "succeeded"
BY DEF NextOf, Statuses

\* A caller whose call throws gives up, or records the failure instead.
LEMMA ThrowKeeps ==
  ASSUME IInv, NEW p \in Callers, pc[p] \in {"check", "read"}, Throw(p),
         UNCHANGED <<table, github, row, todo, history>>
  PROVE  IInv'
<1>1. /\ Moves(p) /\ row'[p] = row[p]
      /\ IF p \in Workers \ Recorders /\ goal[p] = "succeeded"
         THEN goal'[p] = "failed" /\ pc'[p] = "read"
         ELSE /\ goal'[p] = goal[p]
              /\ pc'[p] = IF p = Sweeper THEN NextRow(goal[p]) ELSE "done"
  BY ThrowMoves DEF IInv
<1>2. UNCHANGED <<status, parent, dead, stopped, rivals>>
  BY DEF table, history
<1>3. CallFits(p)
  BY DEF IInv, CallsFit
<1>4. CallFits(p)'
  BY <1>1, <1>2, <1>3, CallersAssumption
     DEF IInv, TypeOK, CallFits, NextRow, Callers, Actions, Statuses
<1>5. p \in Actions => status[p] # "blocked"
  BY DEF IInv, EffectsFit
<1>6. p \in github => Tells(p)'
  BY <1>1, CallersAssumption DEF IInv, TypeOK, EffectsFit, Tells, Actions
<1> QED
  BY <1>1, <1>2, <1>4, <1>5, <1>6, MoveKeeps DEF IInv, SweepFits, NextRow

LEMMA CheckKeeps ==
  ASSUME IInv, NEW p \in Callers, Check(p)
  PROVE  IInv'
<1>1. pc[p] = "check"
  BY DEF Check
<1>2. CASE Throw(p)
  BY <1>1, <1>2, ThrowKeeps DEF Check
<1>3. CASE pc' = [pc EXCEPT ![p] = "read"] /\ goal' = goal
  <2>1. UNCHANGED <<row, status, parent, dead, stopped, rivals>>
    BY DEF Check, table, history
  <2>2. Moves(p) /\ pc'[p] = "read"
    BY <1>3, <2>1 DEF IInv, TypeOK, Moves, Places
  <2>3. CallFits(p)'
    BY <1>1, <1>3, <2>1, <2>2 DEF IInv, CallsFit, CallFits, Check
  <2>4. (p \in Actions => status[p] # "blocked") /\ p \notin github
    BY <1>1 DEF IInv, EffectsFit, Tells
  <2> QED
    BY <1>1, <2>1, <2>2, <2>3, <2>4, MoveKeeps DEF IInv, SweepFits, Check
<1> QED
  BY <1>2, <1>3 DEF Check

LEMMA ReadKeeps ==
  ASSUME IInv, NEW p \in Callers, Read(p)
  PROVE  IInv'
<1>1. pc[p] = "read"
  BY DEF Read
<1>2. CASE Throw(p)
  BY <1>1, <1>2, ThrowKeeps DEF Read
<1>3. CASE goal[p] \in NextOf(status[row[p]]) /\ pc' = [pc EXCEPT ![p] = "write"] /\ goal' = goal
  <2>1. UNCHANGED <<row, status, parent, dead, stopped, rivals, github>>
    BY DEF Read, table, history
  <2>2. Moves(p) /\ pc'[p] = "write"
    BY <1>3, <2>1 DEF IInv, TypeOK, Moves, Places
  <2>3. /\ status[row[p]] \in Statuses \ {"cancelled"}
        /\ goal[p] = "reconciled" => status[row[p]] = "succeeded"
    BY <1>3, EdgesKnow
  <2>4. CallFits(p) /\ row[p] \in Actions
    BY <1>1 DEF IInv, CallsFit, CallFits
  <2>5. CallFits(p)'
    BY <1>1, <1>3, <2>1, <2>2, <2>3, <2>4, NoneAssumption DEF IInv, EffectsFit, CallFits
  <2>6. row'[p] \notin stopped
    BY <2>1, <2>3 DEF IInv, StopsFit
  <2>7. (p \in Actions => status[p] # "blocked") /\ (p \in github => Tells(p)')
    BY <1>1, <1>3, <2>2 DEF IInv, EffectsFit, Tells
  <2> QED
    BY <1>1, <1>3, <2>1, <2>2, <2>5, <2>6, <2>7, MoveKeeps DEF IInv, SweepFits, Read
<1> QED
  BY <1>2, <1>3 DEF Read

\* A call or the sweep takes up row a, to transition it to g.
LEMMA TakeUpKeeps ==
  ASSUME IInv, NEW p \in Callers, NEW a \in Actions, NEW g \in Statuses \ {"succeeded", "blocked"},
         Begin(p, a, g), pc[p] \in {"start", "approved", "expire", "confirm"},
         p \in Workers => a = p /\ pc[p] = "approved" /\ g = "executing",
         p \notin Workers => g \notin {"approved", "executing"},
         UNCHANGED <<table, github, history>>, todo' \subseteq Actions \X Ends
  PROVE  IInv'
<1>1. /\ Moves(p) /\ row'[p] = a /\ goal'[p] = g /\ pc'[p] \in {"check", "read"}
      /\ g \notin {"cancelled", "blocked"} => pc'[p] = "read"
  BY BeginMoves DEF IInv
<1>2. UNCHANGED <<status, parent, dead, stopped, rivals>>
  BY DEF table, history
<1>3. CallFits(p)'
  BY <1>1, <1>2 DEF IInv, CallsFit, CallFits
<1>4. p \in Actions => status[p] # "blocked"
  BY DEF IInv, EffectsFit
<1>5. p \in github => Tells(p)'
  <2>1. ASSUME p \in github PROVE p \in Workers /\ p \in Recorders /\ g \notin {"cancelled", "blocked"}
    BY <1>1, <2>1 DEF IInv, TypeOK, EffectsFit, Tells
  <2> QED
    BY <1>1, <2>1 DEF Tells
<1> QED
  BY <1>1, <1>2, <1>3, <1>4, <1>5, MoveKeeps DEF IInv, SweepFits

LEMMA ApprovedKeeps ==
  ASSUME IInv, NEW w \in Workers, Approved(w)
  PROVE  IInv'
BY TakeUpKeeps DEF Approved, Callers, Actions, Statuses, IInv, SweepFits

LEMMA RequestKeeps ==
  ASSUME IInv, NEW o \in Operators, Request(o)
  PROVE  IInv'
<1>1. o \notin Workers
  BY CallersAssumption
<1> QED
  BY <1>1, TakeUpKeeps DEF Request, Callers, Statuses, IInv, SweepFits

LEMMA SweepKeeps ==
  ASSUME IInv, SweepStep
  PROVE  IInv'
<1>1. /\ Sweeper \in Callers /\ Sweeper \notin Actions /\ Sweeper \notin github
      /\ Sweeper \notin Workers
  BY CallersAssumption DEF IInv, TypeOK, Callers, Actions
<1>2. todo \subseteq Actions \X Ends /\ Stale \cup Reconcilable \subseteq Actions \X Ends
  BY DEF IInv, TypeOK, SweepFits, Stale, Reconcilable, Ends
<1>3. ASSUME NEW l \in {"start", "expire", "confirm"}, pc' = [pc EXCEPT ![Sweeper] = l],
             pc[Sweeper] \in {"start", "expire", "confirm"},
             UNCHANGED <<table, github, row, goal, history>>, todo' \subseteq Actions \X Ends
      PROVE  IInv'
  <2>1. UNCHANGED <<status, parent, dead, stopped, rivals>>
    BY <1>3 DEF table, history
  <2>2. Moves(Sweeper) /\ pc'[Sweeper] = l
    BY <1>1, <1>3 DEF IInv, TypeOK, Moves, Places
  <2>3. CallFits(Sweeper)'
    BY <1>1, <1>3, <2>1, <2>2 DEF IInv, CallsFit, CallFits
  <2> QED
    BY <1>1, <1>3, <2>1, <2>2, <2>3, MoveKeeps
<1>4. CASE StartSweep \/ StartConfirm \/ EndSweep
  BY <1>2, <1>3, <1>4 DEF StartSweep, StartConfirm, EndSweep
<1>5. CASE SweepRow
  <2>1. PICK t \in todo :
          /\ todo' = todo \ {t}
          /\ \/ Begin(Sweeper, t[1], t[2])
             \/ pc[Sweeper] = "confirm" /\ UNCHANGED <<row, goal, pc>>
    BY <1>5 DEF SweepRow
  <2>2. pc[Sweeper] \in {"expire", "confirm"} /\ todo' \subseteq Actions \X Ends
    BY <1>2, <1>5, <2>1 DEF SweepRow
  <2>3. CASE Begin(Sweeper, t[1], t[2])
    <3>1. t[1] \in Actions /\ t[2] \in Ends
      BY <1>2
    <3> QED
      BY <1>1, <1>5, <2>2, <2>3, <3>1, TakeUpKeeps DEF SweepRow, Ends, Statuses
  <2>4. CASE pc[Sweeper] = "confirm" /\ UNCHANGED <<row, goal, pc>>
    BY <1>3, <1>5, <2>2, <2>4 DEF SweepRow, IInv, TypeOK
  <2> QED
    BY <2>1, <2>3, <2>4
<1> QED
  BY <1>4, <1>5 DEF SweepStep

LEMMA DieKeeps ==
  ASSUME IInv, NEW p \in Callers, Die(p)
  PROVE  IInv'
<1>1. /\ pc[p] \notin {"start", "done"} /\ dead' = [dead EXCEPT ![p] = pc[p]]
      /\ UNCHANGED <<row, goal, status, parent, table, github, stopped, rivals>>
      /\ todo' \subseteq Actions \X Ends
  BY DEF IInv, SweepFits, Die, table
<1>2. Moves(p) /\ pc'[p] = IF p = Sweeper THEN "start" ELSE "done"
  BY <1>1 DEF IInv, TypeOK, Die, Moves, Places
<1>3. dead'[p] = pc[p]
  BY <1>1 DEF IInv, TypeOK
<1>4. CallFits(p)'
  BY <1>1, <1>2, CallersAssumption DEF IInv, CallsFit, CallFits, Callers, Actions
<1>5. p \in Actions \/ p \in github => p # Sweeper
  BY CallersAssumption DEF IInv, TypeOK, Actions
<1>6. p \in github => Tells(p)'
  BY <1>1, <1>2, <1>5 DEF IInv, EffectsFit, Tells, Moves
<1> QED
  BY <1>1, <1>2, <1>3, <1>4, <1>5, <1>6, MoveKeeps

-----------------------------------------------------------------------------
(* Steps that write *)

\* Where the retries of a row are not concerned
SameChildren(p) ==
  \A o \in Operators :
    /\ status'[o] = None <=> status[o] = None
    /\ dead'[o] = dead[o]
    /\ o # p => pc'[o] = pc[o]

LEMMA RetriesKept ==
  ASSUME IInv, NEW p \in Callers, SameChildren(p), UNCHANGED <<parent, retries>>,
         rivals \subseteq rivals', {pc[p], pc'[p]} \cap {"child", "count"} = {}
  PROVE  RetriesFit'
<1>1. ASSUME NEW o \in Operators
      PROVE  /\ status'[o] = None <=> status[o] = None
             /\ Retrying(o)' => pc'[o] = pc[o]
             /\ pc[o] = "count" => "count" \in {pc'[o], dead'[o]}
             /\ dead[o] = "count" => dead'[o] = "count"
  BY DEF SameChildren, Retrying
<1> QED
  BY <1>1, RetriesStay DEF IInv, TypeOK

LEMMA WriteKeeps ==
  ASSUME IInv, NEW p \in Callers, Write(p)
  PROVE  IInv'
<1> DEFINE a == row[p]
<1>1. /\ pc[p] = "write" /\ a \in Actions /\ goal[p] \in Statuses /\ status[a] # None
      /\ CallFits(p)
  BY DEF IInv, CallsFit, CallFits, Write
<1>2. /\ status' = [status EXCEPT ![a] = goal[p]] /\ aged' = aged \ {a}
      /\ pc' = [pc EXCEPT ![p] = After(p)]
      /\ UNCHANGED <<active, key, parent, retries, reasoned, github, row, goal, todo, dead, rivals>>
  BY DEF Write
<1>3. stopped' = stopped \/ (/\ stopped' = stopped \cup {a} /\ goal[p] = "cancelled"
                             /\ MidWay(a) = {p} /\ a \notin github)
  BY DEF Write
<1>4. /\ After(p) \in {"approved", "mutate", "reason", "done", "expire", "confirm"}
      /\ After(p) \in {"expire", "confirm"} <=> p = Sweeper
      /\ After(p) \in {"approved", "mutate"} => p \in Workers /\ a = p /\ goal[p] \in {"approved", "executing"}
      /\ After(p) = "reason" <=> p # Sweeper /\ goal[p] = "blocked"
  BY <1>1, NoneAssumption DEF After, NextRow, CallFits, Callers, Actions
<1>5. /\ \A b \in Actions : status'[b] = IF b = a THEN goal[p] ELSE status[b]
      /\ \A q \in Callers : pc'[q] = IF q = p THEN After(p) ELSE pc[q]
  BY <1>2 DEF IInv, TypeOK
<1>6. SameRows
  BY <1>1, <1>5, NoneAssumption DEF SameRows
<1>7. TypeOK' /\ SweepFits'
  BY <1>1, <1>2, <1>3, <1>4 DEF IInv, TypeOK, SweepFits, Places
<1>8. CallsFit'
  <2>1. CallFits(p)'
    BY <1>1, <1>2, <1>4, <1>5, CallersAssumption DEF CallFits, Callers, Actions
  <2>2. ASSUME NEW q \in Callers \ {p} PROVE CallFits(q)'
    BY <1>1, <1>2, <1>5, <1>6, NoneAssumption DEF IInv, CallsFit, CallFits, SameRows, Actions
  <2> QED
    BY <2>1, <2>2 DEF CallsFit
<1>9. EffectsFit'
  <2>1. \A w \in github' : Tells(w)'
    BY <1>1, <1>2, <1>4, <1>5, CallersAssumption DEF IInv, TypeOK, EffectsFit, Tells, After, Callers, Actions
  <2>2. /\ goal[p] \in {"succeeded", "reconciled"} => a \in github
        /\ goal[p] = "blocked" => a = p /\ p \in Workers /\ p # Sweeper
    BY <1>1, CallersAssumption, NoneAssumption DEF IInv, TypeOK, CallFits, Callers, Actions
  <2>3. ASSUME NEW b \in Actions
        PROVE  /\ status'[b] \in {"succeeded", "reconciled"} => b \in github'
               /\ status'[b] = "blocked" =>
                    /\ b \in Workers /\ goal'[b] = "blocked" /\ pc'[b] \in {"reason", "done"}
                    /\ b \in reasoned' \/ "reason" \in {pc'[b], dead'[b]}
    BY <1>1, <1>2, <1>4, <1>5, <2>2 DEF IInv, EffectsFit, Callers, Actions
  <2> QED
    BY <2>1, <2>3 DEF EffectsFit
<1>10. StopsFit'
  <2>1. a \notin stopped
    BY <1>1 DEF IInv, StopsFit
  <2>2. ASSUME NEW b \in stopped
        PROVE  /\ status'[b] = "cancelled" /\ b \notin github'
               /\ \A q \in Callers : row'[q] = b => pc'[q] \notin {"write", "mutate", "count", "mark"}
    BY <1>2, <1>4, <1>5, <2>1 DEF IInv, TypeOK, StopsFit
  <2>3. ASSUME goal[p] = "cancelled", MidWay(a) = {p}, a \notin github
        PROVE  /\ status'[a] = "cancelled" /\ a \notin github'
               /\ \A q \in Callers : row'[q] = a => pc'[q] \notin {"write", "mutate", "count", "mark"}
    <3>1. \A q \in Callers \ {p} : row[q] = a => pc[q] \notin {"write", "mutate", "count", "mark"}
      BY <2>3 DEF MidWay
    <3>2. After(p) \notin {"write", "mutate", "count", "mark"}
      BY <1>4, <2>3
    <3> QED
      BY <1>1, <1>2, <1>5, <2>3, <3>1, <3>2
  <2> QED
    BY <1>3, <2>2, <2>3 DEF StopsFit
<1>11. KeysFit'
  BY <1>2, <1>4, <1>5, <1>6, KeysStay DEF IInv, TypeOK, Callers, Open
<1>12. RetriesFit'
  <2>1. SameChildren(p)
    BY <1>2, <1>5, <1>6 DEF SameChildren, SameRows, Callers, Actions
  <2> QED
    BY <1>1, <1>2, <1>4, <1>5, <2>1, RetriesKept
<1> QED
  BY <1>7, <1>8, <1>9, <1>10, <1>11, <1>12 DEF IInv

LEMMA ReasonKeeps ==
  ASSUME IInv, NEW p \in Callers, Reason(p)
  PROVE  IInv'
<1>1. pc[p] = "reason" /\ p \in Workers /\ row[p] = p
  BY NoneAssumption DEF IInv, CallsFit, CallFits, Reason, Callers, Actions
<1>2. /\ reasoned' = reasoned \cup {p} /\ pc' = [pc EXCEPT ![p] = "done"]
      /\ UNCHANGED <<status, active, key, parent, retries, aged, github, row, goal, todo, dead,
                     stopped, rivals>>
  BY <1>1 DEF Reason, history
<1>3. \A q \in Callers : pc'[q] = IF q = p THEN "done" ELSE pc[q]
  BY <1>2 DEF IInv, TypeOK
<1>4. TypeOK' /\ SweepFits'
  BY <1>1, <1>2 DEF IInv, TypeOK, SweepFits, Places, Actions
<1>5. CallsFit'
  BY <1>1, <1>2, <1>3 DEF IInv, CallsFit, CallFits
<1>6. EffectsFit' /\ StopsFit'
  BY <1>1, <1>2, <1>3 DEF IInv, TypeOK, EffectsFit, Tells, StopsFit, Callers, Actions
<1>7. KeysFit'
  BY <1>2, <1>3, KeysStay DEF IInv, TypeOK, Callers, SameRows, Open
<1>8. RetriesFit'
  BY <1>1, <1>2, <1>3, RetriesKept DEF SameChildren, Callers
<1> QED
  BY <1>4, <1>5, <1>6, <1>7, <1>8 DEF IInv

LEMMA AgeKeeps ==
  ASSUME IInv, NEW a \in Actions, Age(a)
  PROVE  IInv'
<1>1. /\ aged' = aged \cup {a}
      /\ UNCHANGED <<status, active, key, parent, retries, reasoned, github, pc, row, goal, todo,
                     dead, stopped, rivals>>
  BY DEF Age, callers, history
<1>2. TypeOK' /\ SweepFits' /\ CallsFit' /\ EffectsFit' /\ StopsFit'
  BY <1>1 DEF IInv, TypeOK, SweepFits, CallsFit, CallFits, EffectsFit, Tells, StopsFit
<1>3. KeysFit'
  BY <1>1, KeysStay DEF IInv, TypeOK, SameRows
<1>4. RetriesFit'
  BY <1>1, RetriesStay DEF IInv, TypeOK, Retrying
<1> QED
  BY <1>2, <1>3, <1>4 DEF IInv

\* Job w opens key k: it is about to propose, and knows its rivals.
LEMMA OpenFits ==
  ASSUME IInv, NEW w \in Workers, NEW k \in Keys, key' = [key EXCEPT ![w] = k],
         rivals' = rivals \cup Rivals(w, k), status[w] = None,
         active' \subseteq active, status' = status,
         Open(w)', pc'[w] = "dedup" => k \in PatchKeys,
         \A v \in Workers \ {w} : pc'[v] = pc[v],
         \A b \in active' : key[b] # k \/ k \in PatchKeys,
         k \in PatchKeys =>
           \A a \in Workers \ {w} : key[a] = k /\ status[a] # None => {w, a} \in rivals
  PROVE  KeysFit'
<1>1. \A a \in Actions : key'[a] = IF a = w THEN k ELSE key[a]
  BY DEF IInv, TypeOK
<1>2. w \in Actions /\ w \notin active /\ rivals \subseteq rivals' /\ active' \subseteq Actions
  BY DEF Actions, IInv, TypeOK, KeysFit
<1>3. (\A a \in active' : status'[a] # None) /\ (\A a \in Actions : key'[a] # None => a \in Workers)
  BY <1>1 DEF IInv, KeysFit
<1>4. \A v \in Workers : (Open(v)' => key'[v] \in Keys) /\ (pc'[v] = "dedup" => key'[v] \in PatchKeys)
  BY <1>1 DEF IInv, KeysFit, Open, Actions
<1>5. ASSUME NEW b \in Workers, b # w, key[b] = k, Meets(b)'
      PROVE  {w, b} \in rivals'
  <2>1. CASE Open(b)'
    <3>1. b \in Proposing(w, k)
      BY <1>5, <2>1 DEF Proposing, Open
    <3> QED
      BY <3>1 DEF Rivals
  <2>2. CASE b \in active'
    <3>1. k \in PatchKeys /\ status[b] # None
      BY <1>5, <2>2 DEF IInv, KeysFit
    <3> QED
      BY <1>2, <1>5, <3>1
  <2>3. CASE key'[b] \in PatchKeys /\ status'[b] # None
    BY <1>1, <1>2, <1>5, <2>3 DEF Actions
  <2> QED
    BY <1>5, <2>1, <2>2, <2>3 DEF Meets
<1>6. ASSUME NEW v \in Workers, NEW b \in Workers, Open(v)', v # b, key'[b] = key'[v], Meets(b)'
      PROVE  {v, b} \in rivals'
  <2>1. CASE v = w
    BY <1>1, <1>5, <1>6, <2>1 DEF Actions
  <2>2. CASE b = w
    <3>1. key[v] = k /\ Meets(v)'
      BY <1>1, <1>6, <2>2 DEF Actions, Meets
    <3>2. {v, b} = {w, v}
      BY <2>2
    <3> QED
      BY <1>5, <1>6, <2>2, <3>1, <3>2
  <2>3. CASE v # w /\ b # w
    <3>1. Open(v) /\ key[b] = key[v] /\ Meets(b)
      BY <1>1, <1>6, <2>3 DEF Open, Meets, Actions
    <3> QED
      BY <1>2, <1>6, <3>1 DEF IInv, KeysFit
  <2> QED
    BY <2>1, <2>2, <2>3
<1>7. ActiveKeyUnique'
  <2>1. ASSUME NEW a \in Actions, NEW b \in Actions, a # b, key'[a] = key'[b], key'[a] # None,
               {a, b} \subseteq active' \/ (key'[a] \in PatchKeys /\ status'[a] # None /\ status'[b] # None)
        PROVE  {a, b} \in rivals'
    <3>1. a # w /\ b # w
      BY <1>2, <2>1
    <3> QED
      BY <1>1, <1>2, <2>1, <3>1 DEF IInv, KeysFit, ActiveKeyUnique
  <2> QED
    BY <2>1 DEF ActiveKeyUnique
<1> QED
  BY <1>3, <1>4, <1>6, <1>7 DEF KeysFit

LEMMA LookKeeps ==
  ASSUME IInv, NEW w \in Workers, Look(w)
  PROVE  IInv'
<1>1. /\ pc[w] = "start" /\ w \notin Recorders
      /\ UNCHANGED <<status, active, parent, retries, reasoned, aged, github, row, goal, todo, dead,
                     stopped>>
  BY DEF Look
<1>2. /\ w \in Actions /\ w \in Callers /\ CallFits(w) /\ status[w] = None /\ w \notin github
      /\ w \notin Operators
  BY <1>1, CallersAssumption DEF IInv, CallsFit, CallFits, EffectsFit, Tells, Actions, Callers
<1>3. CASE /\ pc' = [pc EXCEPT ![w] = "done"]
           /\ UNCHANGED <<key, rivals>>
  <2>1. Moves(w) /\ pc'[w] = "done"
    BY <1>1, <1>2, <1>3 DEF IInv, TypeOK, Moves, Places
  <2>2. CallFits(w)'
    BY <1>1, <1>2, <1>3, <2>1 DEF CallFits
  <2>3. status[w] # "blocked"
    BY <1>1, <1>2 DEF IInv, EffectsFit
  <2> QED
    BY <1>1, <1>2, <1>3, <2>1, <2>2, <2>3, MoveKeeps DEF table, IInv, SweepFits
<1>4. ASSUME NEW k \in PatchKeys, \A a \in Workers : key[a] = k => status[a] = None,
             pc' = [pc EXCEPT ![w] = "dedup"], key' = [key EXCEPT ![w] = k],
             rivals' = rivals \cup Rivals(w, k)
      PROVE  IInv'
  <2>1. \A q \in Callers : pc'[q] = IF q = w THEN "dedup" ELSE pc[q]
    BY <1>4 DEF IInv, TypeOK
  <2>2. k \in Keys
    BY KindsAssumption
  <2>3. TypeOK' /\ SweepFits'
    <3>1. rivals' \subseteq SUBSET Actions
      BY <1>2, <1>4 DEF IInv, TypeOK, Rivals, Proposing, Actions
    <3> QED
      BY <1>1, <1>4, <2>2, <3>1 DEF IInv, TypeOK, SweepFits, Places
  <2>4. CallsFit'
    BY <1>1, <1>2, <2>1 DEF IInv, CallsFit, CallFits
  <2>5. EffectsFit' /\ StopsFit'
    BY <1>1, <1>2, <2>1, NoneAssumption DEF IInv, TypeOK, EffectsFit, Tells, StopsFit, Callers, Actions
  <2>6. KeysFit'
    <3>1. Open(w)' /\ \A v \in Workers \ {w} : pc'[v] = pc[v]
      BY <1>2, <2>1 DEF Open, Callers, Actions
    <3> QED
      BY <1>1, <1>2, <1>4, <2>2, <3>1, OpenFits
  <2>7. RetriesFit'
    BY <1>1, <1>2, <1>4, <2>1, RetriesKept DEF SameChildren, Callers
  <2> QED
    BY <2>3, <2>4, <2>5, <2>6, <2>7 DEF IInv
<1> QED
  BY <1>3, <1>4 DEF Look

LEMMA DedupKeeps ==
  ASSUME IInv, NEW w \in Workers, Dedup(w)
  PROVE  IInv'
<1>1. PICK k \in Keys :
        /\ Proposes(w, k)
        /\ key' = [key EXCEPT ![w] = k]
        /\ active' = active \ {a \in active : key[a] = k}
        /\ rivals' = rivals \cup Rivals(w, k)
  BY DEF Dedup
<1>2. /\ pc[w] \in {"start", "dedup"} /\ pc' = [pc EXCEPT ![w] = "insert"]
      /\ github' = github \cup DoneFirst(w)
      /\ UNCHANGED <<status, parent, retries, reasoned, aged, row, goal, todo, dead, stopped>>
  BY <1>1 DEF Dedup, Proposes
<1>3. w \in Actions /\ w \in Callers /\ CallFits(w) /\ status[w] = None /\ goal[w] = None
  BY <1>2 DEF IInv, CallsFit, CallFits, Actions, Callers
<1>4. \A q \in Callers : pc'[q] = IF q = w THEN "insert" ELSE pc[q]
  BY <1>2 DEF IInv, TypeOK
<1>5. /\ github \subseteq github' /\ github' \subseteq github \cup {w}
      /\ w \in github' => w \in Recorders
  <2>1. w \in github => w \in Recorders
    BY <1>2 DEF IInv, EffectsFit, Tells
  <2> QED
    BY <1>2, <2>1 DEF DoneFirst
<1>6. TypeOK' /\ SweepFits'
  <2>1. rivals' \subseteq SUBSET Actions
    BY <1>1, <1>3 DEF IInv, TypeOK, Rivals, Proposing, Actions
  <2> QED
    BY <1>1, <1>2, <1>5, <2>1 DEF IInv, TypeOK, SweepFits, Places
<1>7. CallsFit'
  BY <1>2, <1>3, <1>4, <1>5, CallersAssumption DEF IInv, CallsFit, CallFits, Actions
<1>8. EffectsFit'
  <2>1. Tells(w)' \/ w \notin github'
    BY <1>2, <1>3, <1>4, <1>5, NoneAssumption DEF Tells, Statuses
  <2>2. \A v \in github' \ {w} : Tells(v)'
    BY <1>2, <1>4, <1>5 DEF IInv, TypeOK, EffectsFit, Tells, Callers, Actions
  <2>3. \A a \in Actions : status'[a] = "blocked" => a # w
    BY <1>2, <1>3, NoneAssumption DEF Statuses
  <2> QED
    BY <1>2, <1>4, <1>5, <2>1, <2>2, <2>3 DEF IInv, EffectsFit, Callers, Actions
<1>9. StopsFit'
  <2>1. w \notin stopped
    BY <1>3, NoneAssumption DEF IInv, StopsFit, Statuses
  <2> QED
    BY <1>2, <1>4, <1>5, <2>1 DEF IInv, TypeOK, StopsFit
<1>10. KeysFit'
  <2>1. Open(w)' /\ pc'[w] # "dedup" /\ \A v \in Workers \ {w} : pc'[v] = pc[v]
    BY <1>3, <1>4 DEF Open, Callers, Actions
  <2>2. ASSUME k \in PatchKeys, NEW a \in Workers \ {w}, key[a] = k, status[a] # None
        PROVE  {w, a} \in rivals
    <3>1. Open(w) /\ key[w] = k /\ Meets(a)
      BY <1>1, <2>2 DEF Proposes, Open, Meets
    <3> QED
      BY <2>2, <3>1 DEF IInv, KeysFit
  <2> QED
    BY <1>1, <1>2, <1>3, <2>1, <2>2, OpenFits
<1>11. RetriesFit'
  <2>1. SameChildren(w)
    BY <1>2, <1>4 DEF SameChildren, Callers, Actions
  <2> QED
    BY <1>1, <1>2, <1>3, <1>4, <2>1, RetriesKept
<1> QED
  BY <1>6, <1>7, <1>8, <1>9, <1>10, <1>11 DEF IInv

LEMMA InsertKeeps ==
  ASSUME IInv, NEW w \in Workers, Insert(w)
  PROVE  IInv'
<1>1. PICK g \in {"approved", "cancelled", "blocked"} :
        Begin(w, w, g) /\ (w \in Recorders => g = "approved")
  BY DEF Insert
<1>2. /\ pc[w] = "insert" /\ status' = [status EXCEPT ![w] = "proposed"] /\ active' = active \cup {w}
      /\ UNCHANGED <<key, parent, retries, reasoned, aged, github, todo, dead, stopped, rivals>>
  BY DEF Insert, history
<1>3. w \in Actions /\ w \in Callers /\ CallFits(w) /\ status[w] = None /\ w \notin Operators
  BY <1>2, CallersAssumption DEF IInv, CallsFit, CallFits, Actions, Callers
<1>4. /\ Moves(w) /\ row'[w] = w /\ goal'[w] = g /\ pc'[w] \in {"check", "read"}
      /\ g = "approved" => pc'[w] = "read"
  BY <1>1, <1>3, BeginMoves DEF IInv, Statuses
<1>5. \A a \in Actions : status'[a] = IF a = w THEN "proposed" ELSE status[a]
  BY <1>2 DEF IInv, TypeOK
<1>6. TypeOK' /\ SweepFits'
  BY <1>2, <1>3, <1>4 DEF IInv, TypeOK, SweepFits, Moves, Statuses
<1>7. CallsFit'
  <2>1. CallFits(w)'
    BY <1>2, <1>3, <1>4, NoneAssumption DEF CallFits, Statuses
  <2>2. ASSUME NEW q \in Callers \ {w} PROVE CallFits(q)'
    BY <1>2, <1>3, <1>4, <1>5, NoneAssumption DEF IInv, CallsFit, CallFits, Moves, Statuses
  <2> QED
    BY <2>1, <2>2 DEF CallsFit
<1>8. EffectsFit'
  <2>1. w \in github => Tells(w)'
    BY <1>1, <1>2, <1>4 DEF IInv, EffectsFit, Tells
  <2>2. \A v \in github \ {w} : Tells(v)'
    BY <1>2, <1>4 DEF IInv, TypeOK, EffectsFit, Tells, Moves, Callers
  <2> QED
    BY <1>2, <1>3, <1>4, <1>5, <2>1, <2>2 DEF IInv, EffectsFit, Moves, Callers, Actions
<1>9. StopsFit'
  <2>1. w \notin stopped
    BY <1>3, NoneAssumption DEF IInv, StopsFit, Statuses
  <2>2. \A q \in Callers : row'[q] \in stopped => q # w /\ row'[q] = row[q] /\ pc'[q] = pc[q]
    BY <1>4, <2>1 DEF Moves
  <2> QED
    BY <1>2, <1>5, <2>1, <2>2 DEF IInv, TypeOK, StopsFit
<1>10. KeysFit'
  <2>1. \A a \in active' : status'[a] # None
    <3>1. "proposed" # None
      BY NoneAssumption DEF Statuses
    <3>2. \A a \in active : a \in Actions /\ status[a] # None
      BY DEF IInv, TypeOK, KeysFit
    <3>3. active' = active \cup {w}
      BY <1>2
    <3> QED
      BY <1>3, <1>5, <3>1, <3>2, <3>3
  <2>2. \A v \in Workers : Open(v)' => v # w /\ pc'[v] = pc[v] /\ Open(v)
    BY <1>4 DEF Moves, Callers, Actions, Open
  <2>3. Open(w) /\ key[w] \in Keys
    BY <1>2 DEF Open, IInv, KeysFit
  <2>4. ASSUME NEW b \in Workers, b # w, key[b] = key[w], Meets(b)
        PROVE  {w, b} \in rivals
    BY <2>3, <2>4 DEF IInv, KeysFit
  <2>5. \A b \in Workers : Meets(b)' => b = w \/ Meets(b)
    BY <1>2, <1>5, <2>2 DEF Meets, Actions
  <2>6. ActiveKeyUnique'
    <3>1. ASSUME NEW a \in Actions, NEW b \in Actions, a # b, key[a] = key[b], key[a] # None,
                 \/ {a, b} \subseteq active'
                 \/ key[a] \in PatchKeys /\ status'[a] # None /\ status'[b] # None
          PROVE  {a, b} \in rivals
      <4>1. a \in Workers /\ b \in Workers
        BY <3>1 DEF IInv, KeysFit
      <4>2. CASE a = w
        BY <1>2, <1>5, <2>4, <3>1, <4>1, <4>2 DEF Meets
      <4>3. CASE b = w
        <5>1. {w, a} \in rivals /\ {a, b} = {w, a}
          BY <1>2, <1>5, <2>4, <3>1, <4>1, <4>3 DEF Meets
        <5> QED
          BY <5>1
      <4>4. CASE a # w /\ b # w
        BY <1>2, <1>5, <3>1, <4>4 DEF IInv, KeysFit, ActiveKeyUnique
      <4> QED
        BY <4>2, <4>3, <4>4
    <3> QED
      BY <1>2, <3>1 DEF ActiveKeyUnique
  <2>7. ASSUME NEW v \in Workers, NEW b \in Workers, Open(v)', v # b, key[b] = key[v], Meets(b)'
        PROVE  {v, b} \in rivals
    <3>1. v # w /\ Open(v)
      BY <2>2, <2>7
    <3>2. CASE b = w
      <4>1. {w, v} \in rivals /\ {v, b} = {w, v}
        BY <2>4, <2>7, <3>1, <3>2 DEF Meets
      <4> QED
        BY <4>1
    <3>3. CASE b # w
      BY <2>5, <2>7, <3>1, <3>3 DEF IInv, KeysFit
    <3> QED
      BY <3>2, <3>3
  <2> QED
    BY <1>2, <2>1, <2>2, <2>6, <2>7 DEF IInv, KeysFit, Open
<1>11. RetriesFit'
  <2>1. SameChildren(w)
    BY <1>2, <1>3, <1>4, <1>5 DEF SameChildren, Moves, Callers, Actions
  <2> QED
    BY <1>2, <1>3, <1>4, <2>1, RetriesKept
<1> QED
  BY <1>6, <1>7, <1>8, <1>9, <1>10, <1>11 DEF IInv

LEMMA MutateKeeps ==
  ASSUME IInv, NEW w \in Workers, Mutate(w)
  PROVE  IInv'
<1>1. /\ pc[w] = "mutate"
      /\ UNCHANGED <<status, active, key, parent, retries, reasoned, aged, todo, dead, stopped, rivals>>
  BY DEF Mutate, table, history
<1>2. w \in Actions /\ w \in Callers /\ CallFits(w) /\ row[w] = w
  BY <1>1 DEF IInv, CallsFit, CallFits, Actions, Callers
<1>3. /\ w \in github => w \in Recorders
      /\ w \notin stopped /\ status[w] # "blocked"
  BY <1>1, <1>2 DEF IInv, EffectsFit, Tells, StopsFit
<1>4. ASSUME NEW g \in {"succeeded", "failed", "cancelled"}, Begin(w, w, g),
             \/ github' = github \cup {w} /\ g \in {"succeeded", "failed"}
             \/ github' = github /\ g # "succeeded",
             w \in Recorders => g = "succeeded"
      PROVE  IInv'
  <2>1. Moves(w) /\ row'[w] = w /\ goal'[w] = g /\ pc'[w] \in {"check", "read"}
        /\ (pc'[w] = "check" <=> g = "cancelled")
    BY <1>2, <1>4, BeginMoves DEF IInv, Statuses
  <2>2. TypeOK' /\ SweepFits'
    BY <1>1, <1>4, <2>1 DEF IInv, TypeOK, SweepFits, Moves
  <2>3. CallsFit'
    <3>1. CallFits(w)'
      BY <1>1, <1>2, <1>4, <2>1, NoneAssumption DEF CallFits, Statuses
    <3>2. ASSUME NEW q \in Callers \ {w} PROVE CallFits(q)'
      BY <1>1, <1>4, <2>1 DEF IInv, CallsFit, CallFits, Moves
    <3> QED
      BY <3>1, <3>2 DEF CallsFit
  <2>4. EffectsFit'
    <3>1. Tells(w)' \/ w \notin github'
      BY <1>3, <1>4, <2>1 DEF Tells
    <3>2. \A v \in github' \ {w} : Tells(v)'
      BY <1>4, <2>1 DEF IInv, TypeOK, EffectsFit, Tells, Moves, Callers
    <3> QED
      BY <1>1, <1>2, <1>3, <1>4, <2>1, <3>1, <3>2 DEF IInv, EffectsFit, Moves, Callers, Actions
  <2>5. StopsFit'
    BY <1>1, <1>3, <1>4, <2>1 DEF IInv, StopsFit, Moves
  <2>6. KeysFit'
    BY <1>1, <2>1, KeysStay DEF IInv, TypeOK, SameRows, Moves, Callers, Open
  <2>7. RetriesFit'
    BY <1>1, <1>2, <2>1, RetriesKept DEF SameChildren, Moves, Callers
  <2> QED
    BY <2>2, <2>3, <2>4, <2>5, <2>6, <2>7 DEF IInv
<1>5. ASSUME w \notin Recorders, pc' = [pc EXCEPT ![w] = "done"], UNCHANGED <<github, row, goal>>
      PROVE  IInv'
  <2>1. Moves(w) /\ pc'[w] = "done"
    BY <1>1, <1>2, <1>5 DEF IInv, TypeOK, Moves, Places
  <2>2. CallFits(w)'
    BY <1>1, <1>2, <1>5, <2>1 DEF CallFits
  <2> QED
    BY <1>1, <1>2, <1>3, <1>5, <2>1, <2>2, MoveKeeps DEF table, IInv, SweepFits
<1> QED
  BY <1>4, <1>5 DEF Mutate

LEMMA RetryKeeps ==
  ASSUME IInv, NEW o \in Operators, Retry(o)
  PROVE  IInv'
<1>1. PICK a \in Actions :
        /\ retries[a] < MaxRetries
        /\ parent' = [parent EXCEPT ![o] = a]
        /\ rivals' = rivals \cup
             {{o, q} : q \in {r \in Operators : parent[r] = a /\ pc[r] \in {"child", "count"}}}
  BY DEF Retry
<1>2. /\ pc[o] = "start" /\ pc' = [pc EXCEPT ![o] = "child"] /\ row' = [row EXCEPT ![o] = o]
      /\ UNCHANGED <<status, active, key, retries, reasoned, aged, github, goal, todo, dead, stopped>>
  BY DEF Retry
<1>3. o \in Actions /\ o \in Callers /\ CallFits(o) /\ status[o] = None /\ o \notin Workers
  BY <1>2, CallersAssumption DEF IInv, CallsFit, CallFits, Actions, Callers
<1>4. /\ \A q \in Callers : /\ pc'[q] = IF q = o THEN "child" ELSE pc[q]
                           /\ row'[q] = IF q = o THEN o ELSE row[q]
      /\ \A b \in Actions : parent'[b] = IF b = o THEN a ELSE parent[b]
  BY <1>1, <1>2 DEF IInv, TypeOK
<1>5. TypeOK' /\ SweepFits'
  <2>1. rivals' \subseteq SUBSET Actions
    BY <1>1, <1>3 DEF IInv, TypeOK, Actions
  <2> QED
    BY <1>1, <1>2, <1>3, <2>1 DEF IInv, TypeOK, SweepFits, Places
<1>6. CallsFit'
  BY <1>2, <1>3, <1>4, CallersAssumption DEF IInv, CallsFit, CallFits, Actions
<1>7. EffectsFit' /\ StopsFit'
  BY <1>2, <1>3, <1>4 DEF IInv, TypeOK, EffectsFit, Tells, StopsFit, Callers, Actions
<1>8. KeysFit'
  BY <1>1, <1>2, <1>4, KeysStay DEF IInv, TypeOK, SameRows, Callers, Open
<1>9. RetriesFit'
  <2>1. \A b : Children(b)' = Children(b) /\ Counted(b)' = Counted(b)
    BY <1>2, <1>3, <1>4 DEF Children, Counted, Actions, Callers
  <2>2. \A q, T : IsRival(q, T) => IsRival(q, T)'
    BY <1>1 DEF IsRival
  <2>3. \A b \in Actions :
          /\ Cardinality(Counted(b)') <= retries'[b]
          /\ retries'[b] <= MaxRetries \/ \E q \in Children(b)' : IsRival(q, Children(b))'
    BY <1>2, <2>1, <2>2 DEF IInv, RetriesFit, IsRival
  <2>4. ASSUME NEW q \in Operators, Retrying(q)'
        PROVE  retries'[parent'[q]] < MaxRetries \/ IsRival(q, Children(parent[q]))'
    <3>1. CASE q = o
      BY <1>1, <1>2, <1>3, <1>4, <3>1
    <3>2. CASE q # o
      BY <1>2, <1>4, <2>1, <2>2, <2>4, <3>2 DEF IInv, RetriesFit, Retrying, IsRival, Actions, Callers
    <3> QED
      BY <3>1, <3>2
  <2>5. ASSUME NEW q \in Operators, NEW r \in Operators,
               Retrying(q)', Retrying(r)', q # r, parent'[q] = parent'[r]
        PROVE  {q, r} \in rivals'
    <3>1. ASSUME NEW u \in Operators, u # o, Retrying(u)', parent'[u] = a PROVE {o, u} \in rivals'
      BY <1>1, <1>4, <3>1 DEF Retrying, Actions, Callers
    <3>2. CASE q = o
      BY <1>3, <1>4, <2>5, <3>1, <3>2
    <3>3. CASE r = o
      <4>1. {o, q} \in rivals' /\ {q, r} = {o, q}
        BY <1>3, <1>4, <2>5, <3>1, <3>3
      <4> QED
        BY <4>1
    <3>4. CASE q # o /\ r # o
      BY <1>1, <1>4, <2>5, <3>4 DEF IInv, RetriesFit, Retrying, Actions, Callers
    <3> QED
      BY <3>2, <3>3, <3>4
  <2> QED
    BY <2>3, <2>4, <2>5 DEF RetriesFit
<1> QED
  BY <1>5, <1>6, <1>7, <1>8, <1>9 DEF IInv

LEMMA InsertChildKeeps ==
  ASSUME IInv, NEW o \in Operators, InsertChild(o)
  PROVE  IInv'
<1>1. /\ pc[o] = "child" /\ status' = [status EXCEPT ![o] = "proposed"] /\ active' = active \cup {o}
      /\ pc' = [pc EXCEPT ![o] = "count"]
      /\ UNCHANGED <<key, parent, retries, reasoned, aged, github, row, goal, todo, dead, stopped, rivals>>
  BY DEF InsertChild, history
<1>2. o \in Actions /\ o \in Callers /\ CallFits(o) /\ status[o] = None /\ o \notin Workers
  BY <1>1, CallersAssumption DEF IInv, CallsFit, CallFits, Actions, Callers
<1>3. /\ \A q \in Callers : pc'[q] = IF q = o THEN "count" ELSE pc[q]
      /\ \A a \in Actions : status'[a] = IF a = o THEN "proposed" ELSE status[a]
  BY <1>1 DEF IInv, TypeOK
<1>4. "proposed" # None
  BY NoneAssumption DEF Statuses
<1>5. TypeOK' /\ SweepFits'
  BY <1>1, <1>2 DEF IInv, TypeOK, SweepFits, Places, Statuses
<1>6. CallsFit'
  BY <1>1, <1>2, <1>3, <1>4, CallersAssumption DEF IInv, CallsFit, CallFits, Actions
<1>7. EffectsFit'
  BY <1>1, <1>2, <1>3 DEF IInv, TypeOK, EffectsFit, Tells, Callers, Actions
<1>8. StopsFit'
  <2>1. o \notin stopped
    BY <1>2, NoneAssumption DEF IInv, StopsFit, Statuses
  <2>2. row[o] = o
    BY <1>1, <1>2 DEF CallFits
  <2> QED
    BY <1>1, <1>3, <2>1, <2>2 DEF IInv, TypeOK, StopsFit
<1>9. KeysFit'
  <2>1. key[o] = None
    BY <1>2 DEF IInv, KeysFit
  <2>2. \A a \in active' : status'[a] # None
    <3>1. \A a \in active : a \in Actions /\ status[a] # None
      BY DEF IInv, TypeOK, KeysFit
    <3>2. active' = active \cup {o}
      BY <1>1
    <3> QED
      BY <1>2, <1>3, <1>4, <3>1, <3>2
  <2>3. ActiveKeyUnique'
    BY <1>1, <2>1 DEF IInv, KeysFit, ActiveKeyUnique
  <2>4. \A w \in Workers : (Open(w)' <=> Open(w)) /\ (Meets(w)' <=> Meets(w)) /\ pc'[w] = pc[w]
    BY <1>1, <1>2, <1>3 DEF Open, Meets, Callers, Actions
  <2> QED
    BY <1>1, <2>2, <2>3, <2>4 DEF IInv, KeysFit
<1>10. RetriesFit'
  <2>1. \A a : Children(a) \subseteq Children(a)' /\ Counted(a)' = Counted(a)
    BY <1>1, <1>2, <1>3, <1>4 DEF Children, Counted, Actions, Callers
  <2>2. \A q \in Operators : Retrying(q)' <=> Retrying(q)
    BY <1>1, <1>3 DEF Retrying, Callers, Actions
  <2>3. \A a, q : IsRival(q, Children(a)) => IsRival(q, Children(a))'
    BY <1>1, <2>1 DEF IsRival
  <2>4. \A a \in Actions :
          /\ Cardinality(Counted(a)') <= retries'[a]
          /\ retries'[a] <= MaxRetries \/ \E q \in Children(a)' : IsRival(q, Children(a))'
    BY <1>1, <2>1, <2>3 DEF IInv, RetriesFit
  <2>5. \A q \in Operators :
          Retrying(q)' => retries'[parent'[q]] < MaxRetries \/ IsRival(q, Children(parent[q]))'
    BY <1>1, <2>2, <2>3 DEF IInv, RetriesFit
  <2>6. \A q, r \in Operators :
          Retrying(q)' /\ Retrying(r)' /\ q # r /\ parent'[q] = parent'[r] => {q, r} \in rivals'
    BY <1>1, <2>2 DEF IInv, RetriesFit
  <2>7. \A q : Children(parent[q])' = {x \in Operators : parent'[x] = parent'[q] /\ status'[x] # None}
    BY DEF Children
  <2> QED
    BY <2>4, <2>5, <2>6 DEF RetriesFit
<1> QED
  BY <1>5, <1>6, <1>7, <1>8, <1>9, <1>10 DEF IInv

LEMMA CountRetryKeeps ==
  ASSUME IInv, NEW o \in Operators, CountRetry(o)
  PROVE  IInv'
<1> DEFINE a == parent[o]
<1>1. /\ pc[o] = "count" /\ retries' = [retries EXCEPT ![a] = @ + 1] /\ pc' = [pc EXCEPT ![o] = "mark"]
      /\ UNCHANGED <<status, active, key, parent, reasoned, aged, github, row, goal, todo, dead,
                     stopped, rivals>>
  BY DEF CountRetry, history
<1>2. /\ o \in Actions /\ o \in Callers /\ CallFits(o) /\ a \in Actions /\ status[o] # None
      /\ o \notin Workers
  BY <1>1, CallersAssumption DEF IInv, CallsFit, CallFits, Actions, Callers
<1>3. /\ \A q \in Callers : pc'[q] = IF q = o THEN "mark" ELSE pc[q]
      /\ \A b \in Actions : retries'[b] = IF b = a THEN retries[b] + 1 ELSE retries[b]
      /\ \A b \in Actions : retries[b] \in Nat
  BY <1>1 DEF IInv, TypeOK
<1>4. TypeOK' /\ SweepFits'
  BY <1>1, <1>2 DEF IInv, TypeOK, SweepFits, Places
<1>5. CallsFit'
  BY <1>1, <1>2, <1>3, CallersAssumption DEF IInv, CallsFit, CallFits, Actions
<1>6. EffectsFit' /\ StopsFit'
  BY <1>1, <1>2, <1>3 DEF IInv, TypeOK, CallFits, EffectsFit, Tells, StopsFit, Callers, Actions
<1>7. KeysFit'
  BY <1>1, <1>3, KeysStay DEF IInv, TypeOK, SameRows, Callers, Open
<1>8. RetriesFit'
  <2>1. \A b : Children(b)' = Children(b)
    BY <1>1 DEF Children
  <2>2. \A q, T : IsRival(q, T)' <=> IsRival(q, T)
    BY <1>1 DEF IsRival
  <2>3. ASSUME NEW b \in Actions
        PROVE  Cardinality(Counted(b)') <= retries'[b]
    <3>1. IsFiniteSet(Counted(b)) /\ Cardinality(Counted(b)) \in Nat /\ Cardinality(Counted(b)) <= retries[b]
      <4>1. IsFiniteSet(Counted(b))
        BY CallersAssumption, FS_Subset DEF Counted, Children
      <4> QED
        BY <4>1, FS_CardinalityType DEF IInv, RetriesFit
    <3>2. CASE b = a
      <4>1. Counted(b)' \subseteq Counted(b) \cup {o} 
        BY <1>1, <1>3, <2>1 DEF Counted, Children, Callers, Actions
      <4>2. IsFiniteSet(Counted(b) \cup {o}) /\ Cardinality(Counted(b) \cup {o}) <= Cardinality(Counted(b)) + 1
            /\ Cardinality(Counted(b) \cup {o}) \in Nat
        <5>1. /\ IsFiniteSet(Counted(b) \cup {o})
              /\ \/ Cardinality(Counted(b) \cup {o}) = Cardinality(Counted(b))
                 \/ Cardinality(Counted(b) \cup {o}) = Cardinality(Counted(b)) + 1
          BY <3>1, FS_AddElement
        <5> QED
          BY <3>1, <5>1
      <4>3. Cardinality(Counted(b)') <= Cardinality(Counted(b) \cup {o}) /\ Cardinality(Counted(b)') \in Nat
        BY <4>1, <4>2, FS_Subset, FS_CardinalityType
      <4> QED
        BY <1>3, <3>1, <3>2, <4>2, <4>3
    <3>3. CASE b # a
      <4>1. Counted(b)' = Counted(b)
        BY <1>1, <1>3, <2>1, <3>3 DEF Counted, Children, Callers, Actions
      <4> QED
        BY <1>3, <3>1, <3>3, <4>1
    <3> QED
      BY <3>2, <3>3
  <2>4. retries[a] < MaxRetries \/ (o \in Children(a) /\ IsRival(o, Children(a)))
    BY <1>1, <1>2 DEF IInv, RetriesFit, Retrying, Children, IsRival
  <2>5. ASSUME NEW b \in Actions
        PROVE  retries'[b] <= MaxRetries \/ \E q \in Children(b)' : IsRival(q, Children(b))'
    <3>1. retries[b] <= MaxRetries \/ \E q \in Children(b) : IsRival(q, Children(b))
      BY DEF IInv, RetriesFit
    <3>2. \A q : IsRival(q, Children(b))' <=> IsRival(q, Children(b))
      BY <1>1, <2>1 DEF IsRival
    <3>3. CASE \E q \in Children(b) : IsRival(q, Children(b))
      BY <2>1, <3>2, <3>3
    <3>4. CASE b = a /\ retries[a] < MaxRetries
      BY <1>3, <3>4, BoundsAssumption
    <3>5. CASE b # a /\ retries[b] <= MaxRetries
      BY <1>3, <3>5
    <3> QED
      BY <2>4, <3>1, <3>3, <3>4, <3>5
  <2>6. ASSUME NEW q \in Operators, Retrying(q)'
        PROVE  retries'[parent'[q]] < MaxRetries \/ IsRival(q, Children(parent[q]))'
    <3>1. q # o /\ Retrying(q) /\ q \in Callers /\ parent[q] \in Actions
      BY <1>3, <2>6 DEF IInv, CallsFit, CallFits, Retrying, Callers, Actions
    <3>2. retries[parent[q]] < MaxRetries \/ IsRival(q, Children(parent[q]))
      BY <3>1 DEF IInv, RetriesFit
    <3>3. IsRival(q, Children(parent[q]))' <=> IsRival(q, Children(parent[q]))
      BY <1>1, <2>1 DEF IsRival
    <3>4. parent[q] = a => IsRival(q, Children(parent[q]))
      <4>1. Retrying(o) /\ o \in Children(a)
        BY <1>1, <1>2 DEF Retrying, Children
      <4> QED
        BY <3>1, <4>1 DEF IInv, RetriesFit, IsRival
    <3> QED
      BY <1>1, <1>3, <3>1, <3>2, <3>3, <3>4
  <2>7. \A q, r \in Operators :
          Retrying(q)' /\ Retrying(r)' /\ q # r /\ parent'[q] = parent'[r] => {q, r} \in rivals'
    BY <1>1, <1>3 DEF IInv, RetriesFit, Retrying, Callers, Actions
  <2> QED
    BY <2>3, <2>5, <2>6, <2>7 DEF RetriesFit
<1> QED
  BY <1>4, <1>5, <1>6, <1>7, <1>8 DEF IInv

LEMMA MarkChildKeeps ==
  ASSUME IInv, NEW o \in Operators, MarkChild(o)
  PROVE  IInv'
<1>1. /\ pc[o] = "mark" /\ status' = [status EXCEPT ![o] = "retrying"] /\ aged' = aged \ {o}
      /\ pc' = [pc EXCEPT ![o] = "done"]
      /\ UNCHANGED <<active, key, parent, retries, reasoned, github, row, goal, todo, dead,
                     stopped, rivals>>
  BY DEF MarkChild, history
<1>2. /\ o \in Actions /\ o \in Callers /\ CallFits(o) /\ status[o] # None /\ o \notin Workers
      /\ row[o] = o
  BY <1>1, CallersAssumption DEF IInv, CallsFit, CallFits, Actions, Callers
<1>3. /\ \A q \in Callers : pc'[q] = IF q = o THEN "done" ELSE pc[q]
      /\ \A a \in Actions : status'[a] = IF a = o THEN "retrying" ELSE status[a]
  BY <1>1 DEF IInv, TypeOK
<1>4. "retrying" # None
  BY NoneAssumption DEF Statuses
<1>5. SameRows
  BY <1>2, <1>3, <1>4 DEF SameRows
<1>6. TypeOK' /\ SweepFits'
  BY <1>1, <1>2 DEF IInv, TypeOK, SweepFits, Places, Statuses
<1>7. CallsFit'
  BY <1>1, <1>2, <1>3, <1>4, CallersAssumption DEF IInv, CallsFit, CallFits, Actions
<1>8. EffectsFit'
  BY <1>1, <1>2, <1>3 DEF IInv, TypeOK, EffectsFit, Tells, Callers, Actions
<1>9. StopsFit'
  <2>1. o \notin stopped
    BY <1>1, <1>2 DEF IInv, StopsFit
  <2> QED
    BY <1>1, <1>3, <2>1 DEF IInv, TypeOK, StopsFit
<1>10. KeysFit'
  BY <1>1, <1>3, <1>5, KeysStay DEF IInv, TypeOK, Callers, Open
<1>11. RetriesFit'
  <2>1. SameChildren(o)
    BY <1>1, <1>3, <1>5 DEF SameChildren, SameRows, Callers, Actions
  <2> QED
    BY <1>1, <1>2, <1>3, <2>1, RetriesKept
<1> QED
  BY <1>6, <1>7, <1>8, <1>9, <1>10, <1>11 DEF IInv

-----------------------------------------------------------------------------
(* The theorems *)

LEMMA InitFits == Init => IInv
<1> SUFFICES ASSUME Init PROVE IInv
  OBVIOUS
<1>1. TypeOK /\ SweepFits
  BY NoneAssumption DEF Init, TypeOK, SweepFits, Places
<1>2. CallsFit
  <2>1. None \notin Statuses
    BY NoneAssumption
  <2> QED
    BY <2>1 DEF Init, CallsFit, CallFits, Callers, Actions, Statuses
<1>3. EffectsFit
  BY NoneAssumption DEF Init, EffectsFit, Statuses
<1>4. StopsFit /\ KeysFit
  BY DEF Init, StopsFit, KeysFit, ActiveKeyUnique, Open, Callers, Actions
<1>5. RetriesFit
  <2>1. \A a : Counted(a) = {}
    BY DEF Init, Counted, Children, Actions
  <2>2. \A o \in Operators : ~Retrying(o)
    BY DEF Init, Retrying, Callers, Actions
  <2> QED
    BY <2>1, <2>2, FS_EmptySet, BoundsAssumption DEF Init, RetriesFit
<1> QED
  BY <1>1, <1>2, <1>3, <1>4, <1>5 DEF IInv

LEMMA NextKeeps == IInv /\ [Next]_vars => IInv'
<1> SUFFICES ASSUME IInv, [Next]_vars PROVE IInv'
  OBVIOUS
<1>1. ASSUME NEW w \in Workers, WorkerStep(w) PROVE IInv'
  BY <1>1, LookKeeps, DedupKeeps, InsertKeeps, ApprovedKeeps, MutateKeeps DEF WorkerStep
<1>2. ASSUME NEW o \in Operators, Request(o) \/ Retry(o) \/ OperatorStep(o) PROVE IInv'
  BY <1>2, RequestKeeps, RetryKeeps, InsertChildKeeps, CountRetryKeeps, MarkChildKeeps DEF OperatorStep
<1>3. ASSUME NEW p \in Callers, CallStep(p) \/ Die(p) PROVE IInv'
  BY <1>3, CheckKeeps, ReadKeeps, WriteKeeps, ReasonKeeps, DieKeeps DEF CallStep
<1>4. CASE SweepStep
  BY <1>4, SweepKeeps
<1>5. ASSUME NEW a \in Actions, Age(a) PROVE IInv'
  BY <1>5, AgeKeeps
<1>6. CASE UNCHANGED vars
  <2>1. UNCHANGED <<status, active, key, parent, retries, reasoned, aged, github, pc, row, goal, todo,
                    dead, stopped, rivals>>
    BY <1>6 DEF vars, table, callers, history
  <2>2. TypeOK' /\ SweepFits' /\ CallsFit' /\ EffectsFit' /\ StopsFit'
    BY <2>1 DEF IInv, TypeOK, SweepFits, CallsFit, CallFits, EffectsFit, Tells, StopsFit
  <2>3. KeysFit'
    BY <2>1, KeysStay DEF IInv, TypeOK, SameRows
  <2>4. RetriesFit'
    BY <2>1, RetriesStay DEF IInv, TypeOK, Retrying
  <2> QED
    BY <2>2, <2>3, <2>4 DEF IInv
<1> QED
  BY <1>1, <1>2, <1>3, <1>4, <1>5, <1>6 DEF Next

\* In every reachable state, what callers know of the rows they are about to
\* write, the effects on GitHub, the dedup keys and the retries fit together
\* (actionStateMachine.js, all transitions).
THEOREM Inductive == Spec => []IInv
BY InitFits, NextKeeps, PTL DEF Spec

\* Every row and every caller of the state machine stays within its type.
THEOREM TypeCorrect == Spec => []TypeOK
<1>1. IInv => TypeOK
  BY DEF IInv
<1> QED
  BY <1>1, Inductive, PTL

\* cancel() while no other call was half-way on the row is final and stops the
\* action before GitHub, whatever jobs, API calls and sweeps follow.
THEOREM CancelIsFinal == Spec => []QuietCancelIsFinal
<1>1. IInv => QuietCancelIsFinal
  BY DEF IInv, StopsFit, QuietCancelIsFinal
<1> QED
  BY <1>1, Inductive, PTL

\* A row that claims success has its effect on GitHub and a blocked one has none
\* (succeed, reconcile, block), although the UPDATE does not look at the status.
THEOREM StatusIsTold == Spec => []StatusTellsEffect
<1>1. IInv => StatusTellsEffect
  <2> SUFFICES ASSUME IInv, NEW a \in Actions
               PROVE  /\ status[a] \in {"succeeded", "reconciled"} => a \in github
                      /\ status[a] = "blocked" =>
                           /\ a \notin github
                           /\ a \in reasoned \/ "reason" \in {pc[a], dead[a]}
    BY DEF StatusTellsEffect
  <2> QED
    BY DEF IInv, EffectsFit, Tells
<1> QED
  BY <1>1, Inductive, PTL

\* propose(): two rows of one dedup key are active together only if their
\* proposals overlapped.
THEOREM KeysAreUnique == Spec => []ActiveKeyUnique
<1>1. IInv => ActiveKeyUnique
  BY DEF IInv, KeysFit
<1> QED
  BY <1>1, Inductive, PTL

\* retry(): the budget of a row is exceeded only by overlapping retries, or
\* after a call died between inserting its child and counting it.
THEOREM BudgetIsKept == Spec => []RetryBudget
<1>1. IInv => RetryBudget
  <2> SUFFICES ASSUME IInv, NEW a \in Actions, Cardinality(Children(a)) > MaxRetries,
                      \A o \in Children(a) : dead[o] # "count",
                      \A o, q \in Children(a) : o # q => {o, q} \notin rivals
               PROVE  FALSE
    BY DEF RetryBudget
  <2>1. \A o \in Children(a) : ~IsRival(o, Children(a))
    BY DEF IsRival
  <2>2. /\ IsFiniteSet(Counted(a)) /\ Cardinality(Counted(a)) \in Nat
        /\ Cardinality(Counted(a)) <= retries[a] /\ retries[a] <= MaxRetries /\ retries[a] \in Nat
    <3>1. IsFiniteSet(Counted(a))
      BY CallersAssumption, FS_Subset DEF Counted, Children
    <3> QED
      BY <2>1, <3>1, FS_CardinalityType DEF IInv, TypeOK, RetriesFit
  <2>3. CASE \A o \in Children(a) : pc[o] # "count"
    <3>1. Children(a) = Counted(a)
      BY <2>3 DEF Counted
    <3> QED
      BY <2>2, <3>1, BoundsAssumption
  <2>4. CASE \E o \in Children(a) : pc[o] = "count"
    <3>1. PICK o \in Children(a) : pc[o] = "count"
      BY <2>4
    <3>2. o \in Operators /\ parent[o] = a /\ Retrying(o)
      BY <3>1 DEF Children, Retrying
    <3>3. retries[a] < MaxRetries
      BY <2>1, <3>2 DEF IInv, RetriesFit
    <3>4. \A q \in Children(a) : q = o \/ pc[q] # "count"
      BY <3>2 DEF IInv, RetriesFit, Children, Retrying
    <3>5. Children(a) = Counted(a) \cup {o}
      BY <3>4 DEF Counted
    <3>6. \/ Cardinality(Children(a)) = Cardinality(Counted(a))
          \/ Cardinality(Children(a)) = Cardinality(Counted(a)) + 1
      BY <2>2, <3>5, FS_AddElement
    <3> QED
      BY <2>2, <3>3, <3>6, BoundsAssumption
  <2> QED
    BY <2>3, <2>4
<1> QED
  BY <1>1, Inductive, PTL

-----------------------------------------------------------------------------
(* The safety part of StaleActionsSettle: who leaves a row unsettled *)

Unsettled == {"proposed", "approved", "executing"}

\* Its job died, or is a patch whose fix was empty (healByPatchPR returns without
\* a word).
LeftByItsJob(a) ==
  dead[a] # None \/ (status[a] = "executing" /\ key[a] \in PatchKeys)

\* A row is proposed, approved or executing only while its own call is at work on
\* it, or when that call left it: this is all the sweep has to settle.
UnsettledIsHandled ==
  \A a \in Actions : status[a] \in Unsettled => pc[a] # "done" \/ LeftByItsJob(a)

\* A job at work on its unsettled row is about to take an edge of STATES.
OnItsWay(w) ==
  \/ pc[w] = "approved" /\ status[w] = "approved"
  \/ pc[w] = "mutate" /\ status[w] = "executing"
  \/ pc[w] \in {"check", "read", "write"} /\ goal[w] \in NextOf(status[w])
  \/ pc[w] = "done" /\ LeftByItsJob(w)

RowFits(a) ==
  status[a] \in Unsettled =>
    IF a \in Workers THEN OnItsWay(a) ELSE pc[a] \in {"count", "mark"} \/ dead[a] # None

\* Whoever writes the row of another settles it.
GoalFits(p) ==
  pc[p] \in {"check", "read", "write"} =>
    IF p \in Workers THEN goal[p] # "proposed" ELSE goal[p] \in Ends

UInv == (\A p \in Callers : GoalFits(p)) /\ (\A a \in Actions : RowFits(a))

\* A step of p that settles what it writes of others
LEMMA OthersKeep ==
  ASSUME UInv, NEW p \in Callers,
         \A q \in Callers \ {p} : pc'[q] = pc[q] /\ goal'[q] = goal[q] /\ dead'[q] = dead[q],
         \A a \in Actions \ {p} :
           key'[a] = key[a] /\ (status'[a] = status[a] \/ status'[a] \notin Unsettled),
         GoalFits(p)', p \in Actions => RowFits(p)'
  PROVE  UInv'
<1>1. ASSUME NEW q \in Callers \ {p} PROVE GoalFits(q)'
  BY DEF UInv, GoalFits
<1>2. ASSUME NEW a \in Actions \ {p} PROVE RowFits(a)'
  <2>1. a \in Callers /\ RowFits(a)
    BY DEF UInv, Actions, Callers
  <2> QED
    BY <2>1 DEF RowFits, OnItsWay, LeftByItsJob
<1> QED
  BY <1>1, <1>2 DEF UInv

\* A step that moves p and nothing else
LEMMA MoveHandles ==
  ASSUME TypeOK, UInv, NEW p \in Callers, Moves(p), UNCHANGED <<status, key, dead>>,
         GoalFits(p)', p \in Actions => RowFits(p)'
  PROVE  UInv'
BY OthersKeep DEF Moves

LEMMA NewRowIsFree ==
  ASSUME IInv, NEW w \in Actions, pc[w] \in {"start", "dedup", "insert", "child"}
  PROVE  status[w] = None /\ None \notin Unsettled
BY NoneAssumption DEF IInv, CallsFit, CallFits, Actions, Callers, Unsettled, Statuses

LEMMA LookDedupHandle ==
  ASSUME IInv, UInv, NEW w \in Workers, Look(w) \/ Dedup(w)
  PROVE  UInv'
<1>1. w \in Callers /\ w \in Actions /\ pc[w] \in {"start", "dedup"}
  BY DEF Look, Dedup, Proposes, Callers, Actions
<1>2. UNCHANGED <<status, goal, dead>>
  BY DEF Look, Dedup
<1>3. /\ \A q \in Callers \ {w} : pc'[q] = pc[q]
      /\ \A a \in Actions \ {w} : key'[a] = key[a]
      /\ pc'[w] \in {"done", "dedup", "insert"}
  BY <1>1 DEF Look, Dedup, IInv, TypeOK
<1>4. GoalFits(w)' /\ RowFits(w)'
  BY <1>1, <1>2, <1>3, NewRowIsFree DEF GoalFits, RowFits
<1> QED
  BY <1>1, <1>2, <1>3, <1>4, OthersKeep

LEMMA InsertHandles ==
  ASSUME IInv, UInv, NEW w \in Workers, Insert(w)
  PROVE  UInv'
<1>1. PICK g \in {"approved", "cancelled", "blocked"} : Begin(w, w, g)
  BY DEF Insert
<1>2. w \in Callers /\ w \in Actions
  BY DEF Callers, Actions
<1>3. Moves(w) /\ goal'[w] = g /\ pc'[w] \in {"check", "read"}
  BY <1>1, <1>2, BeginMoves DEF IInv, Statuses
<1>4. UNCHANGED <<key, dead>> /\ status' = [status EXCEPT ![w] = "proposed"]
  BY DEF Insert, history
<1>5. status'[w] = "proposed" /\ \A a \in Actions \ {w} : status'[a] = status[a]
  BY <1>2, <1>4 DEF IInv, TypeOK
<1>6. GoalFits(w)' /\ RowFits(w)'
  BY <1>3, <1>5 DEF GoalFits, RowFits, OnItsWay, NextOf
<1> QED
  BY <1>2, <1>3, <1>4, <1>5, <1>6, OthersKeep DEF Moves

\* A caller takes up row a; a job takes the next edge of its own.
LEMMA TakeUpHandles ==
  ASSUME IInv, UInv, NEW p \in Callers, NEW a \in Actions, NEW g \in Statuses, Begin(p, a, g),
         UNCHANGED <<status, key, dead>>,
         p \in Workers => g # "proposed" /\ (status[p] \in Unsettled => g \in NextOf(status[p])),
         p \notin Workers => g \in Ends /\ (p \in Actions => pc[p] = "start")
  PROVE  UInv'
<1>1. Moves(p) /\ goal'[p] = g /\ pc'[p] \in {"check", "read"}
  BY BeginMoves DEF IInv
<1>2. GoalFits(p)'
  BY <1>1 DEF GoalFits
<1>3. p \in Actions => RowFits(p)'
  BY <1>1, NewRowIsFree DEF RowFits, OnItsWay
<1> QED
  BY <1>1, <1>2, <1>3, MoveHandles DEF IInv

LEMMA ApprovedHandles ==
  ASSUME IInv, UInv, NEW w \in Workers, Approved(w)
  PROVE  UInv'
<1>1. /\ w \in Callers /\ w \in Actions /\ pc[w] = "approved" /\ Begin(w, w, "executing")
      /\ UNCHANGED <<status, key, dead>>
  BY DEF Approved, Callers, Actions, table, history
<1>2. status[w] \in Unsettled => "executing" \in NextOf(status[w])
  BY <1>1 DEF UInv, RowFits, OnItsWay, NextOf
<1> QED
  BY <1>1, <1>2, TakeUpHandles DEF Statuses

LEMMA MutateHandles ==
  ASSUME IInv, UInv, NEW w \in Workers, Mutate(w)
  PROVE  UInv'
<1>1. /\ w \in Callers /\ w \in Actions /\ pc[w] = "mutate"
      /\ UNCHANGED <<status, key, dead>>
  BY DEF Mutate, Callers, Actions, table, history
<1>2. status[w] \in Unsettled => status[w] = "executing"
  BY <1>1 DEF UInv, RowFits, OnItsWay
<1>3. ASSUME NEW g \in {"succeeded", "failed", "cancelled"}, Begin(w, w, g) PROVE UInv'
  <2>1. g \in Statuses /\ g # "proposed" /\ g \in NextOf("executing")
    BY <1>3 DEF Statuses, NextOf
  <2> QED
    BY <1>1, <1>2, <1>3, <2>1, TakeUpHandles
<1>4. CASE key[w] \in PatchKeys /\ pc' = [pc EXCEPT ![w] = "done"] /\ UNCHANGED <<row, goal>>
  <2>1. Moves(w) /\ pc'[w] = "done"
    BY <1>1, <1>4 DEF IInv, TypeOK, Moves, Places
  <2>2. GoalFits(w)' /\ RowFits(w)'
    BY <1>1, <1>2, <1>4, <2>1 DEF GoalFits, RowFits, OnItsWay, LeftByItsJob
  <2> QED
    BY <1>1, <2>1, <2>2, MoveHandles DEF IInv
<1> QED
  BY <1>3, <1>4 DEF Mutate

LEMMA RequestHandles ==
  ASSUME IInv, UInv, NEW o \in Operators, Request(o)
  PROVE  UInv'
<1>1. o \in Callers /\ o \notin Workers /\ pc[o] = "start"
  BY CallersAssumption DEF Request, Callers
<1>2. PICK a \in Actions, g \in {"cancelled", "reconciled"} : Begin(o, a, g)
  BY DEF Request
<1>3. UNCHANGED <<status, key, dead>>
  BY DEF Request, table, history
<1> QED
  BY <1>1, <1>2, <1>3, TakeUpHandles DEF Ends, Statuses

LEMMA RetryHandles ==
  ASSUME IInv, UInv, NEW o \in Operators,
         Retry(o) \/ InsertChild(o) \/ CountRetry(o) \/ MarkChild(o)
  PROVE  UInv'
<1>1. o \in Callers /\ o \in Actions /\ o \notin Workers
  BY CallersAssumption DEF Callers, Actions
<1>2. UNCHANGED <<key, goal, dead>>
  BY DEF Retry, InsertChild, CountRetry, MarkChild, history
<1>3. /\ \A q \in Callers \ {o} : pc'[q] = pc[q]
      /\ \A a \in Actions \ {o} : status'[a] = status[a]
  BY DEF Retry, InsertChild, CountRetry, MarkChild, IInv, TypeOK
<1>4. pc'[o] \in {"child", "count", "mark", "done"}
  BY <1>1 DEF Retry, InsertChild, CountRetry, MarkChild, IInv, TypeOK
<1>5. GoalFits(o)'
  BY <1>4 DEF GoalFits
<1>6. RowFits(o)'
  <2>1. CASE Retry(o)
    <3>1. pc[o] = "start" /\ status' = status
      BY <2>1 DEF Retry
    <3> QED
      BY <1>1, <3>1, NewRowIsFree DEF RowFits
  <2>2. CASE InsertChild(o) \/ CountRetry(o)
    <3>1. pc'[o] \in {"count", "mark"}
      BY <1>1, <2>2 DEF InsertChild, CountRetry, IInv, TypeOK
    <3> QED
      BY <1>1, <3>1 DEF RowFits
  <2>3. CASE MarkChild(o)
    <3>1. status'[o] = "retrying"
      BY <1>1, <2>3 DEF MarkChild, IInv, TypeOK
    <3> QED
      BY <3>1 DEF RowFits, Unsettled
  <2> QED
    BY <2>1, <2>2, <2>3
<1> QED
  BY <1>1, <1>2, <1>3, <1>5, <1>6, OthersKeep

\* A call throws only when its row is settled, or is not its own.
LEMMA ThrowHandles ==
  ASSUME IInv, UInv, NEW p \in Callers, pc[p] \in {"check", "read"}, Throw(p),
         UNCHANGED <<row, status, key, dead>>,
         p \in Workers => status[p] \notin Unsettled
  PROVE  UInv'
<1>1. /\ Moves(p)
      /\ IF p \in Workers \ Recorders /\ goal[p] = "succeeded"
         THEN goal'[p] = "failed" /\ pc'[p] = "read"
         ELSE /\ goal'[p] = goal[p]
              /\ pc'[p] = IF p = Sweeper THEN NextRow(goal[p]) ELSE "done"
  BY ThrowMoves DEF IInv
<1>2. GoalFits(p)'
  BY <1>1, CallersAssumption DEF GoalFits, NextRow, Actions
<1>3. ASSUME p \in Operators PROVE pc[p] \notin {"count", "mark"} /\ dead[p] = None
  BY <1>3 DEF IInv, CallsFit, CallFits, Actions
<1>4. p \in Actions => RowFits(p)'
  BY <1>3 DEF UInv, RowFits, Actions
<1> QED
  BY <1>1, <1>2, <1>4, MoveHandles DEF IInv

\* A job in one of its calls works on its own row.
LEMMA OwnRow ==
  ASSUME IInv, NEW w \in Workers, pc[w] \in {"check", "read", "write", "reason"}
  PROVE  /\ row[w] = w /\ w \in Callers /\ w \in Actions
         /\ goal[w] \in Statuses
<1>1. w \in Callers /\ CallFits(w) /\ None \notin Actions
  BY NoneAssumption DEF IInv, CallsFit, Callers, Actions
<1> QED
  BY <1>1 DEF CallFits, Actions

\* An operator in one of its calls has no child, and works on a row of others.
LEMMA OthersRow ==
  ASSUME IInv, UInv, NEW o \in Operators, pc[o] \in {"check", "read", "write"}
  PROVE  status[o] \notin Unsettled
<1>1. o \in Callers /\ o \in Actions /\ o \notin Workers /\ CallFits(o) /\ RowFits(o)
  BY CallersAssumption DEF IInv, UInv, CallsFit, Callers, Actions
<1> QED
  BY <1>1 DEF RowFits, CallFits

LEMMA CheckHandles ==
  ASSUME IInv, UInv, NEW p \in Callers, Check(p)
  PROVE  UInv'
<1>1. pc[p] = "check" /\ UNCHANGED <<row, status, key, dead>>
  BY DEF Check, table, history
<1>2. CASE status[row[p]] \in Terminal /\ Throw(p)
  <2>1. p \in Workers => status[p] \notin Unsettled
    BY <1>1, <1>2, OwnRow DEF Terminal, Unsettled
  <2> QED
    BY <1>1, <1>2, <2>1, ThrowHandles
<1>3. CASE pc' = [pc EXCEPT ![p] = "read"] /\ goal' = goal
  <2>1. Moves(p) /\ pc'[p] = "read" /\ goal'[p] = goal[p]
    BY <1>1, <1>3 DEF IInv, TypeOK, Moves, Places
  <2>2. GoalFits(p)'
    BY <1>1, <2>1 DEF UInv, GoalFits
  <2>3. p \in Actions => RowFits(p)'
    BY <1>1, <2>1 DEF UInv, RowFits, OnItsWay
  <2> QED
    BY <1>1, <2>1, <2>2, <2>3, MoveHandles DEF IInv
<1> QED
  BY <1>2, <1>3 DEF Check

LEMMA ReadHandles ==
  ASSUME IInv, UInv, NEW p \in Callers, Read(p)
  PROVE  UInv'
<1>1. pc[p] = "read" /\ UNCHANGED <<row, status, key, dead>>
  BY DEF Read, table, history
<1>2. CASE goal[p] \notin NextOf(status[row[p]]) /\ Throw(p)
  <2>1. ASSUME p \in Workers PROVE status[p] \notin Unsettled
    BY <1>1, <1>2, <2>1, OwnRow DEF UInv, RowFits, OnItsWay
  <2> QED
    BY <1>1, <1>2, <2>1, ThrowHandles
<1>3. CASE goal[p] \in NextOf(status[row[p]]) /\ pc' = [pc EXCEPT ![p] = "write"] /\ goal' = goal
  <2>1. Moves(p) /\ pc'[p] = "write" /\ goal'[p] = goal[p]
    BY <1>1, <1>3 DEF IInv, TypeOK, Moves, Places
  <2>2. GoalFits(p)'
    BY <1>1, <2>1 DEF UInv, GoalFits
  <2>3. p \in Actions => RowFits(p)'
    BY <1>1, <2>1 DEF UInv, RowFits, OnItsWay
  <2> QED
    BY <1>1, <2>1, <2>2, <2>3, MoveHandles DEF IInv
<1> QED
  BY <1>2, <1>3 DEF Read

LEMMA WriteHandles ==
  ASSUME IInv, UInv, NEW p \in Callers, Write(p)
  PROVE  UInv'
<1>1. /\ pc[p] = "write" /\ status' = [status EXCEPT ![row[p]] = goal[p]]
      /\ pc' = [pc EXCEPT ![p] = After(p)] /\ UNCHANGED <<goal, key, dead>>
  BY DEF Write
<1>2. /\ \A q \in Callers \ {p} : pc'[q] = pc[q]
      /\ pc'[p] = After(p)
      /\ \A a \in Actions : status'[a] = IF a = row[p] THEN goal[p] ELSE status[a]
  BY <1>1 DEF IInv, TypeOK
<1>3. GoalFits(p)'
  BY <1>2 DEF GoalFits, After, NextRow
<1>4. ASSUME p \in Workers PROVE UInv'
  <2>1. row[p] = p /\ p \in Actions /\ goal[p] # "proposed"
    BY <1>1, <1>4, OwnRow DEF UInv, GoalFits
  <2>2. p # Sweeper
    BY <2>1, CallersAssumption
  <2>3. status'[p] \in Unsettled => pc'[p] = (IF goal[p] = "approved" THEN "approved" ELSE "mutate")
    BY <1>2, <2>1, <2>2 DEF Unsettled, After
  <2>4. RowFits(p)'
    BY <1>2, <1>4, <2>1, <2>3 DEF RowFits, OnItsWay, Unsettled
  <2> QED
    BY <1>1, <1>2, <1>3, <2>1, <2>4, OthersKeep
<1>5. ASSUME p \notin Workers PROVE UInv'
  <2>1. goal[p] \in Ends /\ goal[p] \notin Unsettled
    BY <1>1, <1>5 DEF UInv, GoalFits, Ends, Unsettled
  <2>2. ASSUME p \in Actions PROVE status[p] \notin Unsettled
    BY <1>1, <1>5, <2>2, OthersRow DEF Actions
  <2>3. p \in Actions => RowFits(p)'
    BY <1>2, <2>1, <2>2 DEF RowFits
  <2> QED
    BY <1>1, <1>2, <1>3, <2>1, <2>3, OthersKeep
<1> QED
  BY <1>4, <1>5

LEMMA ReasonHandles ==
  ASSUME IInv, UInv, NEW p \in Callers, Reason(p)
  PROVE  UInv'
<1>1. pc[p] = "reason" /\ UNCHANGED <<row, status, key, goal, dead>>
  BY DEF Reason, history
<1>2. Moves(p) /\ pc'[p] = "done"
  BY <1>1 DEF Reason, IInv, TypeOK, Moves, Places
<1>3. p \in Workers /\ status[p] \notin Unsettled
  BY <1>1 DEF IInv, CallsFit, CallFits, UInv, RowFits, OnItsWay, Actions
<1>4. GoalFits(p)' /\ RowFits(p)'
  BY <1>1, <1>2, <1>3 DEF GoalFits, RowFits
<1> QED
  BY <1>1, <1>2, <1>4, MoveHandles DEF IInv

LEMMA DieHandles ==
  ASSUME IInv, UInv, NEW p \in Callers, Die(p)
  PROVE  UInv'
<1>1. /\ pc[p] \notin {"start", "done"} /\ dead' = [dead EXCEPT ![p] = pc[p]]
      /\ UNCHANGED <<goal, status, key>>
  BY DEF Die, table
<1>2. /\ \A q \in Callers \ {p} : pc'[q] = pc[q] /\ dead'[q] = dead[q]
      /\ pc'[p] = IF p = Sweeper THEN "start" ELSE "done"
      /\ dead'[p] = pc[p]
  BY <1>1 DEF Die, IInv, TypeOK
<1>3. pc[p] # None
  BY NoneAssumption DEF IInv, TypeOK
<1>4. GoalFits(p)'
  BY <1>2 DEF GoalFits
<1>5. ASSUME p \in Actions PROVE RowFits(p)'
  BY <1>2, <1>3, <1>5, CallersAssumption DEF RowFits, OnItsWay, LeftByItsJob
<1> QED
  BY <1>1, <1>2, <1>4, <1>5, OthersKeep

LEMMA SweepHandles ==
  ASSUME IInv, UInv, SweepStep
  PROVE  UInv'
<1>1. Sweeper \in Callers /\ Sweeper \notin Actions /\ Sweeper \notin Workers
  BY CallersAssumption DEF Callers, Actions
<1>2. UNCHANGED <<status, key, dead>>
  BY DEF SweepStep, StartSweep, SweepRow, StartConfirm, EndSweep, table, history
<1>3. ASSUME NEW l \in {"start", "expire", "confirm"}, pc' = [pc EXCEPT ![Sweeper] = l],
             UNCHANGED <<row, goal>>
      PROVE  UInv'
  <2>1. Moves(Sweeper) /\ pc'[Sweeper] = l
    BY <1>1, <1>3 DEF IInv, TypeOK, Moves, Places
  <2>2. GoalFits(Sweeper)'
    BY <2>1 DEF GoalFits
  <2> QED
    BY <1>1, <1>2, <2>1, <2>2, MoveHandles DEF IInv
<1>4. CASE StartSweep \/ StartConfirm \/ EndSweep
  BY <1>3, <1>4 DEF StartSweep, StartConfirm, EndSweep
<1>5. CASE SweepRow
  <2>1. PICK t \in todo :
          \/ Begin(Sweeper, t[1], t[2])
          \/ pc[Sweeper] = "confirm" /\ UNCHANGED <<row, goal, pc>>
    BY <1>5 DEF SweepRow
  <2>2. CASE Begin(Sweeper, t[1], t[2])
    <3>1. t[1] \in Actions /\ t[2] \in Ends /\ t[2] \in Statuses
      BY DEF IInv, SweepFits, Ends, Statuses
    <3> QED
      BY <1>1, <1>2, <2>2, <3>1, TakeUpHandles
  <2>3. CASE pc[Sweeper] = "confirm" /\ UNCHANGED <<row, goal, pc>>
    BY <1>3, <2>3 DEF IInv, TypeOK
  <2> QED
    BY <2>1, <2>2, <2>3
<1> QED
  BY <1>4, <1>5 DEF SweepStep

LEMMA NextHandles == IInv /\ UInv /\ [Next]_vars => UInv'
<1> SUFFICES ASSUME IInv, UInv, [Next]_vars PROVE UInv'
  OBVIOUS
<1>1. ASSUME NEW w \in Workers, WorkerStep(w) PROVE UInv'
  BY <1>1, LookDedupHandle, InsertHandles, ApprovedHandles, MutateHandles DEF WorkerStep
<1>2. ASSUME NEW o \in Operators, Request(o) \/ Retry(o) \/ OperatorStep(o) PROVE UInv'
  BY <1>2, RequestHandles, RetryHandles DEF OperatorStep
<1>3. ASSUME NEW p \in Callers, CallStep(p) \/ Die(p) PROVE UInv'
  BY <1>3, CheckHandles, ReadHandles, WriteHandles, ReasonHandles, DieHandles DEF CallStep
<1>4. CASE SweepStep
  BY <1>4, SweepHandles
<1>5. CASE UNCHANGED <<status, key, pc, goal, dead>>
  BY <1>5 DEF UInv, GoalFits, RowFits, OnItsWay, LeftByItsJob
<1>6. ASSUME NEW a \in Actions, Age(a) PROVE UInv'
  BY <1>5, <1>6 DEF Age, callers, history
<1>7. CASE UNCHANGED vars
  BY <1>5, <1>7 DEF vars, table, callers, history
<1> QED
  BY <1>1, <1>2, <1>3, <1>4, <1>6, <1>7 DEF Next

\* However jobs, API calls, sweeps and deaths interleave, an action that nobody
\* works on is proposed, approved or executing only because its caller died on it,
\* or its patch was empty: the unguarded UPDATE of transition() never puts an
\* action that was settled back to work without its job at work on it.
THEOREM NoActionIsDropped == Spec => []UnsettledIsHandled
<1>1. Init => UInv
  <2>1. None \notin Unsettled
    BY NoneAssumption DEF Unsettled, Statuses
  <2> QED
    BY <2>1 DEF Init, UInv, GoalFits, RowFits
<1>2. IInv /\ UInv => UnsettledIsHandled
  BY DEF UInv, UnsettledIsHandled, RowFits, OnItsWay, LeftByItsJob
<1> QED
  BY <1>1, <1>2, Inductive, NextHandles, PTL DEF Spec
=============================================================================

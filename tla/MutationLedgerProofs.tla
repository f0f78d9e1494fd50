------------------------ MODULE MutationLedgerProofs ------------------------
(***************************************************************************)
(* Proofs about MutationLedger, for every number of calls, identities and  *)
(* commands: the tables keep one command per idempotency identity, the     *)
(* journal of every command is an unbroken chain of legal edges, the       *)
(* answers are true, and no calls wait in a circle.                        *)
(***************************************************************************)
EXTENDS MutationLedger, TLAPS

-----------------------------------------------------------------------------
(* Type correctness *)

LEMMA InitType == Init => TypeOK
<1> SUFFICES ASSUME Init PROVE TypeOK
  OBVIOUS
<1>1. Request # {} /\ Args # {}
  <2>1. PICK c \in Creators, i \in Idents, p \in Principals, h \in Hashes,
             s \in Wanted : TRUE
    BY InputsAssumption
  <2>2. [ident |-> i, principal |-> p, hash |-> h] \in Request
    BY <2>1 DEF Request
  <2>3. [command |-> c, expected |-> 1, next |-> s] \in Args
    BY <2>1, MaxVersionAssumption DEF Args
  <2> QED
    BY <2>2, <2>3
<1>2. AnyRequest \in Request /\ AnyArgs \in Args
  BY <1>1 DEF AnyRequest, AnyArgs
<1>3. commands \in [DOMAIN commands -> Row] /\ DOMAIN commands = {}
  BY DEF Init
<1>4. "created" \in Statuses
  BY DEF Statuses
<1> QED
  BY <1>2, <1>3, <1>4 DEF Init, TypeOK, NoReply

LEMMA RowMoves ==
  ASSUME NEW row \in Row, NEW s \in Statuses
  PROVE  [row EXCEPT !.status = s, !.version = row.version + 1] \in Row
<1>1. row.version + 1 \in Nat
  BY DEF Row
<1>2. ASSUME NEW n \in Nat
      PROVE  [row EXCEPT !.status = s, !.version = n] \in Row
  BY DEF Row
<1> QED
  BY <1>1, <1>2

\* A call past its preflight works on a committed command.
MoversKnow ==
  \A m \in Movers : mpc[m] \in {"fetch", "claim", "advance", "commit", "classify"}
                    => margs[m].command \in DOMAIN commands

LEMMA StepType == TypeOK /\ MoversKnow /\ [Next]_vars => TypeOK'
<1> SUFFICES ASSUME TypeOK, MoversKnow, [Next]_vars PROVE TypeOK'
  OBVIOUS
<1> USE DEF TypeOK, tables, cvars, mvars
<1>1. ASSUME NEW p \in Creators, StartCreate(p) PROVE TypeOK'
  BY <1>1 DEF StartCreate
<1>2. ASSUME NEW p \in Creators, Lookup(p) PROVE TypeOK'
  BY <1>2 DEF Lookup, CreateReturns, Resolve, Under
<1>3. ASSUME NEW p \in Creators, Authorize(p) PROVE TypeOK'
  <2>1. evidence' \subseteq Decision
    BY <1>3 DEF Authorize, Request, Decision
  <2> QED
    BY <1>3, <2>1 DEF Authorize, CreateReturns
<1>4. ASSUME NEW p \in Creators, InsertCommand(p) PROVE TypeOK'
  BY <1>4 DEF InsertCommand
<1>5. ASSUME NEW p \in Creators, InsertEvent(p) PROVE TypeOK'
  BY <1>5 DEF InsertEvent
<1>6. ASSUME NEW p \in Creators, CommitCreate(p) PROVE TypeOK'
  <2>1. DOMAIN commands' \subseteq Creators
        /\ commands' \in [DOMAIN commands' -> Row]
    BY <1>6 DEF CommitCreate, Request, Row, Statuses
  <2>2. outbox' \subseteq Event /\ evidence' \subseteq Decision
    BY <1>6 DEF CommitCreate, Request, Event, Decision
  <2>3. creply' \in [Creators ->
          [kind : {"none", "created", "replay", "conflict",
                   "principal_mismatch", "denied", "error"},
           command : Creators \cup {Nobody}]]
    BY <1>6 DEF CommitCreate, CreateReturns
  <2>4. cpc' = [cpc EXCEPT ![p] = "done"]
    BY <1>6 DEF CommitCreate, CreateReturns
  <2> QED
    BY <1>6, <2>1, <2>2, <2>3, <2>4 DEF CommitCreate
<1>7. ASSUME NEW p \in Creators, ResolveWinner(p) PROVE TypeOK'
  BY <1>7 DEF ResolveWinner, CreateReturns, Resolve, Under
<1>8. ASSUME NEW p \in Creators, FailCreate(p) PROVE TypeOK'
  BY <1>8 DEF FailCreate, CreateReturns
<1>9. ASSUME NEW pr \in Principals, Revoke(pr) PROVE TypeOK'
  BY <1>9 DEF Revoke
<1>10. ASSUME NEW m \in Movers, StartMove(m) PROVE TypeOK'
  BY <1>10 DEF StartMove
<1>11. ASSUME NEW m \in Movers, Preflight(m) PROVE TypeOK'
  BY <1>11 DEF Preflight, MoveReturns
<1>12. ASSUME NEW m \in Movers, Fetch(m) PROVE TypeOK'
  <2>1. commands[margs[m].command].status \in Statuses
    BY <1>12 DEF Fetch, MoversKnow, Row
  <2> QED
    BY <1>12, <2>1 DEF Fetch
<1>13. ASSUME NEW m \in Movers, ClaimEdge(m) PROVE TypeOK'
  <2>1. rowLock' \in [Creators -> Movers \cup {Nobody}]
    BY <1>13 DEF ClaimEdge
  <2>2. mpc' = [mpc EXCEPT ![m] = "advance"] \/ mpc' = [mpc EXCEPT ![m] = "classify"]
    BY <1>13 DEF ClaimEdge
  <2> QED
    BY <1>13, <2>1, <2>2 DEF ClaimEdge
<1>14. ASSUME NEW m \in Movers, Advance(m) PROVE TypeOK'
  BY <1>14 DEF Advance, Unlock
<1>15. ASSUME NEW m \in Movers, CommitMove(m) PROVE TypeOK'
  <2> DEFINE c == margs[m].command
  <2>1. margs[m] \in Args /\ c \in Creators /\ margs[m].next \in Statuses
        /\ margs[m].expected \in Nat
    BY InputsAssumption, MaxVersionAssumption DEF Args
  <2>2. commands' \in [DOMAIN commands -> Row] /\ DOMAIN commands' = DOMAIN commands
    <3>1. c \in DOMAIN commands /\ commands[c] \in Row
      BY <1>15 DEF CommitMove, MoversKnow
    <3>2. [commands[c] EXCEPT !.status = margs[m].next,
                              !.version = commands[c].version + 1] \in Row
      BY <2>1, <3>1, RowMoves
    <3>3. commands' = [commands EXCEPT ![c] =
              [commands[c] EXCEPT !.status = margs[m].next,
                                  !.version = commands[c].version + 1]]
      BY <1>15 DEF CommitMove
    <3> QED
      BY <3>1, <3>2, <3>3
  <2>3. journal' \subseteq Claim
    BY <1>15, <2>1 DEF CommitMove, Claim
  <2>4. mreply' \in [Movers -> {"none", "ok", "command_not_found",
                     "stale_version", "illegal_transition", "error"}]
        /\ mpc' = [mpc EXCEPT ![m] = "done"]
    BY <1>15 DEF CommitMove, MoveReturns
  <2>5. rowLock' \in [Creators -> Movers \cup {Nobody}]
    BY <1>15 DEF CommitMove, Unlock
  <2> QED
    BY <1>15, <2>2, <2>3, <2>4, <2>5 DEF CommitMove
<1>16. ASSUME NEW m \in Movers, Classify(m) PROVE TypeOK'
  BY <1>16 DEF Classify, MoveReturns
<1>17. ASSUME NEW m \in Movers, FailMove(m) PROVE TypeOK'
  BY <1>17 DEF FailMove, MoveReturns, Unlock
<1>18. CASE UNCHANGED vars
  BY <1>18 DEF vars
<1> QED
  BY <1>1, <1>2, <1>3, <1>4, <1>5, <1>6, <1>7, <1>8, <1>9, <1>10, <1>11,
     <1>12, <1>13, <1>14, <1>15, <1>16, <1>17, <1>18
     DEF Next, CreateStep, MoveStep, AllReturned

-----------------------------------------------------------------------------
(* The inductive invariant *)

\* What a creating transaction has written follows from where it stands.
WritesFollowPc ==
  \A p \in Creators :
    /\ "evidence" \in cwrites[p] <=> cpc[p] \in {"insert", "event", "commit"}
    /\ "command" \in cwrites[p] <=> cpc[p] \in {"event", "commit"}
    /\ "event" \in cwrites[p] <=> cpc[p] = "commit"
    /\ p \in DOMAIN commands => cpc[p] = "done"

\* The unique index covers pending rows as well as committed ones.
IndexIsUnique ==
  /\ \A c, d \in DOMAIN commands : commands[c].ident = commands[d].ident => c = d
  /\ \A p \in Creators : "command" \in cwrites[p] =>
       /\ \A c \in DOMAIN commands : commands[c].ident # creq[p].ident
       /\ \A q \in Creators : "command" \in cwrites[q] /\ q # p =>
            creq[q].ident # creq[p].ident

\* A claim that passed its guard stays good until its transaction ends: the
\* row it was checked against is locked.
ClaimsAreLocked ==
  \A m \in Movers : mpc[m] \in {"advance", "commit"} =>
    rowLock[margs[m].command] = m /\ ClaimHolds(m)

IInv ==
  /\ TypeOK /\ MoversKnow
  /\ WritesFollowPc /\ IndexIsUnique /\ IntentIsWhole
  /\ ClaimsAreLocked /\ JournalIsChain

\* Only a COMMIT changes what other transactions see of the commands.
LEMMA TablesChange ==
  ASSUME [Next]_vars
  PROVE  \/ \E p \in Creators : CommitCreate(p)
         \/ \E m \in Movers : CommitMove(m)
         \/ UNCHANGED <<commands, outbox, journal>>
BY DEF Next, vars, tables, cvars, mvars, CreateStep, MoveStep, AllReturned,
       StartCreate, Lookup, Authorize, InsertCommand, InsertEvent,
       ResolveWinner, FailCreate, Revoke, StartMove, Preflight, Fetch,
       ClaimEdge, Advance, Classify, FailMove

\* A step is a step of one transition call or leaves all of them alone.
LEMMA MoverOrNot ==
  ASSUME [Next]_vars
  PROVE  \/ \E m \in Movers : StartMove(m) \/ MoveStep(m) \/ FailMove(m)
         \/ UNCHANGED mvars
BY DEF Next, vars, AllReturned, CreateStep, StartCreate, Lookup, Authorize,
       InsertCommand, InsertEvent, CommitCreate, ResolveWinner, FailCreate,
       Revoke

\* A creating COMMIT adds p's row and touches no other.
LEMMA CreateCommits ==
  ASSUME IInv, NEW p \in Creators, CommitCreate(p)
  PROVE  /\ p \notin DOMAIN commands
         /\ DOMAIN commands' = DOMAIN commands \cup {p}
         /\ \A c \in DOMAIN commands : commands'[c] = commands[c]
         /\ commands'[p] = [ident |-> creq[p].ident,
                            principal |-> creq[p].principal,
                            hash |-> creq[p].hash,
                            status |-> "created", version |-> 1]
         /\ outbox' = outbox \cup {[command |-> p, hash |-> creq[p].hash]}
         /\ evidence' = evidence \cup
              {[call |-> p, principal |-> creq[p].principal, verdict |-> "allow"]}
<1>1. cpc[p] = "commit" /\ p \notin DOMAIN commands
  BY DEF CommitCreate, IInv, WritesFollowPc
<1>2. "command" \in cwrites[p] /\ "event" \in cwrites[p] /\ "evidence" \in cwrites[p]
  BY <1>1 DEF IInv, WritesFollowPc
<1> QED
  BY <1>1, <1>2 DEF CommitCreate

\* A moving COMMIT changes status and version of one row and nothing else.
LEMMA MoveCommits ==
  ASSUME IInv, NEW m \in Movers, CommitMove(m)
  PROVE  LET c == margs[m].command IN
         /\ c \in DOMAIN commands
         /\ DOMAIN commands' = DOMAIN commands
         /\ \A d \in DOMAIN commands \ {c} : commands'[d] = commands[d]
         /\ commands'[c].status = margs[m].next
         /\ commands'[c].version = commands[c].version + 1
         /\ commands'[c].ident = commands[c].ident
         /\ commands'[c].principal = commands[c].principal
         /\ commands'[c].hash = commands[c].hash
<1> DEFINE c == margs[m].command
<1>1. c \in DOMAIN commands /\ commands[c] \in Row
  BY DEF CommitMove, IInv, MoversKnow, TypeOK
<1>2. commands' = [commands EXCEPT ![c] =
          [commands[c] EXCEPT !.status = margs[m].next,
                              !.version = commands[c].version + 1]]
  BY DEF CommitMove
<1> QED
  BY <1>1, <1>2 DEF Row

LEMMA StepKnow == IInv /\ [Next]_vars => MoversKnow'
<1> SUFFICES ASSUME IInv, [Next]_vars PROVE MoversKnow'
  OBVIOUS
<1>1. DOMAIN commands \subseteq DOMAIN commands'
  BY TablesChange, CreateCommits, MoveCommits
<1> DEFINE Past == {"fetch", "claim", "advance", "commit", "classify"}
<1>2. \A m \in Movers : mpc'[m] \in Past => margs'[m].command \in DOMAIN commands
  <2> USE DEF IInv, TypeOK, MoversKnow
  <2>1. CASE UNCHANGED <<mpc, margs>>
    BY <2>1
  <2>2. ASSUME NEW m \in Movers, StartMove(m) PROVE <1>2
    BY <2>2 DEF StartMove
  <2>3. ASSUME NEW m \in Movers, Preflight(m) PROVE <1>2
    BY <2>3 DEF Preflight, MoveReturns
  <2>4. ASSUME NEW m \in Movers, Fetch(m) \/ ClaimEdge(m) \/ Advance(m) PROVE <1>2
    BY <2>4 DEF Fetch, ClaimEdge, Advance
  <2>5. ASSUME NEW m \in Movers, CommitMove(m) \/ Classify(m) \/ FailMove(m)
        PROVE <1>2
    BY <2>5 DEF CommitMove, Classify, FailMove, MoveReturns
  <2> QED
    BY <2>1, <2>2, <2>3, <2>4, <2>5, MoverOrNot DEF MoveStep, mvars
<1> QED
  BY <1>1, <1>2 DEF MoversKnow

LEMMA StepWrites == IInv /\ [Next]_vars => WritesFollowPc'
<1> SUFFICES ASSUME IInv, [Next]_vars PROVE WritesFollowPc'
  OBVIOUS
<1>a. \A p \in Creators : CommitCreate(p) => DOMAIN commands' = DOMAIN commands \cup {p}
  BY CreateCommits
<1>b. \A m \in Movers : CommitMove(m) => DOMAIN commands' = DOMAIN commands
  BY MoveCommits
<1> USE DEF IInv, TypeOK, WritesFollowPc
<1>1. CASE UNCHANGED <<cpc, cwrites, commands>>
  BY <1>1
<1>2. ASSUME NEW p \in Creators, StartCreate(p) \/ Lookup(p) \/ ResolveWinner(p)
      PROVE  WritesFollowPc'
  BY <1>2 DEF StartCreate, Lookup, ResolveWinner, CreateReturns, tables
<1>3. ASSUME NEW p \in Creators, Authorize(p) PROVE WritesFollowPc'
  BY <1>3 DEF Authorize, CreateReturns
<1>4. ASSUME NEW p \in Creators, InsertCommand(p) \/ InsertEvent(p)
      PROVE  WritesFollowPc'
  BY <1>4 DEF InsertCommand, InsertEvent, tables
<1>5. ASSUME NEW p \in Creators, CommitCreate(p) PROVE WritesFollowPc'
  <2>1. cpc' = [cpc EXCEPT ![p] = "done"] /\ cwrites' = [cwrites EXCEPT ![p] = {}]
    BY <1>5 DEF CommitCreate, CreateReturns
  <2> QED
    <3>1. DOMAIN commands' = DOMAIN commands \cup {p}
      BY <1>5, <1>a
    <3> QED
      BY <2>1, <3>1
<1>6. ASSUME NEW p \in Creators, FailCreate(p) PROVE WritesFollowPc'
  BY <1>6 DEF FailCreate, CreateReturns, tables
<1>7. ASSUME NEW m \in Movers, CommitMove(m) PROVE WritesFollowPc'
  BY <1>7, <1>b DEF CommitMove, cvars
<1> QED
  BY <1>1, <1>2, <1>3, <1>4, <1>5, <1>6, <1>7
     DEF Next, vars, tables, cvars, CreateStep, MoveStep, AllReturned, Revoke,
         StartMove, Preflight, Fetch, ClaimEdge, Advance, Classify, FailMove

LEMMA StepUnique == IInv /\ [Next]_vars => IndexIsUnique'
<1> SUFFICES ASSUME IInv, [Next]_vars PROVE IndexIsUnique'
  OBVIOUS
<1>a. ASSUME NEW p \in Creators, CommitCreate(p)
      PROVE  /\ DOMAIN commands' = DOMAIN commands \cup {p}
             /\ \A c \in DOMAIN commands : commands'[c] = commands[c]
             /\ commands'[p].ident = creq[p].ident
  <2>1. commands'[p] = [ident |-> creq[p].ident, principal |-> creq[p].principal,
                        hash |-> creq[p].hash, status |-> "created", version |-> 1]
    BY <1>a, CreateCommits
  <2> QED
    BY <1>a, <2>1, CreateCommits
<1>b. ASSUME NEW m \in Movers, CommitMove(m)
      PROVE  /\ DOMAIN commands' = DOMAIN commands
             /\ \A c \in DOMAIN commands : commands'[c].ident = commands[c].ident
  BY <1>b, MoveCommits
<1> USE DEF IInv, TypeOK, IndexIsUnique
<1>1. CASE UNCHANGED <<creq, cwrites, commands>>
  BY <1>1
<1>2. ASSUME NEW p \in Creators, StartCreate(p) PROVE IndexIsUnique'
  BY <1>2 DEF StartCreate, WritesFollowPc, tables
<1>3. ASSUME NEW p \in Creators, Authorize(p) \/ InsertEvent(p) \/ FailCreate(p)
      PROVE  IndexIsUnique'
  <2>1. /\ creq' = creq /\ commands' = commands
        /\ \A q \in Creators : "command" \in cwrites'[q] => "command" \in cwrites[q]
    BY <1>3 DEF Authorize, InsertEvent, FailCreate, tables
  <2> QED
    BY <2>1
<1>4. ASSUME NEW p \in Creators, InsertCommand(p) PROVE IndexIsUnique'
  BY <1>4 DEF InsertCommand, InsertPending, Under, tables
<1>5. ASSUME NEW p \in Creators, CommitCreate(p) PROVE IndexIsUnique'
  <2>1. cwrites' = [cwrites EXCEPT ![p] = {}] /\ creq' = creq
    BY <1>5 DEF CommitCreate
  <2>2. "command" \in cwrites[p]
    BY <1>5 DEF CommitCreate, WritesFollowPc
  <2> QED
    <3>1. /\ DOMAIN commands' = DOMAIN commands \cup {p}
          /\ \A c \in DOMAIN commands : commands'[c] = commands[c]
          /\ commands'[p].ident = creq[p].ident
      BY <1>5, <1>a
    <3> QED
      BY <2>1, <2>2, <3>1
<1>6. ASSUME NEW m \in Movers, CommitMove(m) PROVE IndexIsUnique'
  <2>1. creq' = creq /\ cwrites' = cwrites
    BY <1>6 DEF CommitMove, cvars
  <2> QED
    BY <1>6, <2>1, <1>b
<1> QED
  BY <1>1, <1>2, <1>3, <1>4, <1>5, <1>6
     DEF Next, vars, tables, cvars, CreateStep, MoveStep, AllReturned, Revoke,
         Lookup, ResolveWinner, StartMove, Preflight, Fetch, ClaimEdge, Advance,
         Classify, FailMove

LEMMA StepIntent == IInv /\ [Next]_vars => IntentIsWhole'
<1> SUFFICES ASSUME IInv, [Next]_vars PROVE IntentIsWhole'
  OBVIOUS
<1>0. IntentIsWhole
  BY DEF IInv
<1>1. CASE UNCHANGED <<commands, outbox, evidence>>
  BY <1>0, <1>1 DEF IntentIsWhole
<1>2. ASSUME NEW p \in Creators, Authorize(p) PROVE IntentIsWhole'
  <2>1. commands' = commands /\ outbox' = outbox
    BY <1>2 DEF Authorize
  <2>2. evidence \subseteq evidence'
        /\ \A d \in evidence' : d.verdict = "allow" => d \in evidence
    BY <1>2 DEF Authorize
  <2> QED
    BY <1>0, <2>1, <2>2 DEF IntentIsWhole
<1>3. ASSUME NEW p \in Creators, CommitCreate(p) PROVE IntentIsWhole'
  <2> DEFINE ev == [command |-> p, hash |-> creq[p].hash]
             dec == [call |-> p, principal |-> creq[p].principal,
                     verdict |-> "allow"]
  <2>1. /\ p \notin DOMAIN commands
        /\ DOMAIN commands' = DOMAIN commands \cup {p}
        /\ \A c \in DOMAIN commands : commands'[c] = commands[c]
        /\ commands'[p].principal = creq[p].principal
        /\ commands'[p].hash = creq[p].hash
        /\ outbox' = outbox \cup {ev}
        /\ evidence' = evidence \cup {dec}
    <3>1. commands'[p] = [ident |-> creq[p].ident, principal |-> creq[p].principal,
                          hash |-> creq[p].hash, status |-> "created", version |-> 1]
      BY <1>3, CreateCommits
    <3> QED
      BY <1>3, <3>1, CreateCommits
  <2>2. ASSUME NEW c \in DOMAIN commands, c # p
        PROVE  /\ [call |-> c, principal |-> commands'[c].principal,
                   verdict |-> "allow"] \in evidence'
               /\ {e \in outbox' : e.command = c} =
                    {[command |-> c, hash |-> commands'[c].hash]}
    <3>1. {e \in outbox' : e.command = c} = {e \in outbox : e.command = c}
      BY <2>1, <2>2
    <3> QED
      BY <1>0, <2>1, <3>1 DEF IntentIsWhole
  <2>3. {e \in outbox' : e.command = p} = {ev}
    <3>1. \A e \in outbox : e.command # p
      BY <1>0, <2>1 DEF IntentIsWhole
    <3> QED
      BY <2>1, <3>1
  <2>4. \A e \in outbox' : e.command \in DOMAIN commands'
    BY <1>0, <2>1 DEF IntentIsWhole
  <2>5. \A d \in evidence' : d.verdict = "allow" => d.call \in DOMAIN commands'
    BY <1>0, <2>1 DEF IntentIsWhole
  <2> QED
    BY <2>1, <2>2, <2>3, <2>4, <2>5 DEF IntentIsWhole
<1>4. ASSUME NEW m \in Movers, CommitMove(m) PROVE IntentIsWhole'
  <2>1. /\ DOMAIN commands' = DOMAIN commands
        /\ \A c \in DOMAIN commands : /\ commands'[c].principal = commands[c].principal
                                      /\ commands'[c].hash = commands[c].hash
    BY <1>4, MoveCommits
  <2>2. outbox' = outbox /\ evidence' = evidence
    BY <1>4 DEF CommitMove
  <2> QED
    BY <1>0, <2>1, <2>2 DEF IntentIsWhole
<1> QED
  BY <1>1, <1>2, <1>3, <1>4
     DEF Next, vars, tables, CreateStep, MoveStep, AllReturned, StartCreate, Lookup,
         InsertCommand, InsertEvent, ResolveWinner, FailCreate, Revoke, StartMove,
         Preflight, Fetch, ClaimEdge, Advance, Classify, FailMove

LEMMA StepLocked == IInv /\ [Next]_vars => ClaimsAreLocked'
<1> SUFFICES ASSUME IInv, [Next]_vars PROVE ClaimsAreLocked'
  OBVIOUS
<1>0. TypeOK /\ MoversKnow /\ ClaimsAreLocked
  BY DEF IInv
<1> DEFINE Holding(m) == mpc[m] \in {"advance", "commit"}
\* 1. A mover that starts holding has just passed the guard; one that keeps
\*    holding keeps its arguments, what it saw, and its lock.
<1>1. ASSUME NEW m \in Movers, Holding(m)', ~ ClaimEdge(m)
      PROVE  /\ Holding(m) /\ margs'[m] = margs[m] /\ mseen'[m] = mseen[m]
             /\ rowLock'[margs[m].command] = m
  <2> DEFINE Keeps == /\ Holding(m) /\ margs'[m] = margs[m] /\ mseen'[m] = mseen[m]
                      /\ rowLock'[margs[m].command] = m
  <2>1. CASE UNCHANGED mvars
    BY <1>0, <1>1, <2>1 DEF mvars, ClaimsAreLocked
  <2>2. ASSUME NEW n \in Movers,
               StartMove(n) \/ Preflight(n) \/ Fetch(n) \/ Classify(n)
        PROVE  Keeps
    BY <1>0, <1>1, <2>2 DEF StartMove, Preflight, Fetch, Classify, MoveReturns,
       ClaimsAreLocked, TypeOK
  <2>3. ASSUME NEW n \in Movers, ClaimEdge(n) PROVE Keeps
    BY <1>0, <1>1, <2>3, NobodyAssumption DEF ClaimEdge, ClaimsAreLocked, TypeOK, Args
  <2>4. ASSUME NEW n \in Movers, Advance(n) \/ CommitMove(n) \/ FailMove(n)
        PROVE  Keeps
    BY <1>0, <1>1, <2>4 DEF Advance, CommitMove, FailMove, Unlock, MoveReturns,
       ClaimsAreLocked, TypeOK, Args
  <2> QED
    BY <2>1, <2>2, <2>3, <2>4, MoverOrNot DEF MoveStep, Keeps
\* 2. A locked row does not change while its holder still holds it.
<1>2. ASSUME NEW m \in Movers, Holding(m), Holding(m)',
             margs'[m] = margs[m], mseen'[m] = mseen[m]
      PROVE  commands'[margs[m].command] = commands[margs[m].command]
  <2> DEFINE c == margs[m].command
  <2>1. c \in DOMAIN commands /\ rowLock[c] = m
    BY <1>0, <1>2 DEF MoversKnow, ClaimsAreLocked
  <2>2. ASSUME NEW p \in Creators, CommitCreate(p) PROVE commands'[c] = commands[c]
    BY <2>1, <2>2, CreateCommits
  <2>3. ASSUME NEW n \in Movers, CommitMove(n) PROVE commands'[c] = commands[c]
    <3>1. n # m
      BY <1>0, <1>2, <2>3 DEF CommitMove, MoveReturns, TypeOK
    <3>2. rowLock[margs[n].command] = n
      BY <1>0, <2>3 DEF CommitMove, ClaimsAreLocked
    <3> QED
      BY <2>1, <2>3, <3>1, <3>2, MoveCommits
  <2> QED
    BY <2>2, <2>3, TablesChange
<1>3. ASSUME NEW m \in Movers, ClaimEdge(m), Holding(m)'
      PROVE  rowLock'[margs'[m].command] = m /\ ClaimHolds(m)'
  <2>1. /\ ClaimHolds(m) /\ UNCHANGED <<commands, margs, mseen>>
        /\ rowLock' = [rowLock EXCEPT ![margs[m].command] = m]
    BY <1>0, <1>3 DEF ClaimEdge, tables, TypeOK
  <2>2. margs[m].command \in Creators
    BY <1>0 DEF TypeOK, Args
  <2> QED
    BY <1>0, <2>1, <2>2 DEF ClaimHolds, TypeOK
<1>4. ASSUME NEW m \in Movers, Holding(m)', ~ ClaimEdge(m)
      PROVE  rowLock'[margs'[m].command] = m /\ ClaimHolds(m)'
  <2>1. /\ Holding(m) /\ margs'[m] = margs[m] /\ mseen'[m] = mseen[m]
        /\ rowLock'[margs[m].command] = m
    BY <1>1, <1>4
  <2>2. commands'[margs[m].command] = commands[margs[m].command]
    BY <1>2, <1>4, <2>1
  <2>3. ClaimHolds(m)
    BY <1>0, <2>1 DEF ClaimsAreLocked
  <2> QED
    BY <2>1, <2>2, <2>3 DEF ClaimHolds
<1> QED
  BY <1>3, <1>4 DEF ClaimsAreLocked

\* The chain of one command, so that a step can be checked command by command.
ChainOf(c) ==
  LET v == commands[c].version IN
  /\ \A n \in 1..(v - 1) : \E j \in Claims(c) : j.fromVersion = n
  /\ v = 1 => commands[c].status = "created"
  /\ \A j \in Claims(c) :
       /\ j.fromVersion \in 1..(v - 1)
       /\ <<j.from, j.to>> \in Legal
       /\ j.fromVersion = 1 => j.from = "created"
       /\ j.fromVersion = v - 1 => j.to = commands[c].status
  /\ \A j, k \in Claims(c) :
       /\ j.fromVersion = k.fromVersion => j = k
       /\ k.fromVersion = j.fromVersion + 1 => k.from = j.to

LEMMA ChainIsPerCommand ==
  JournalIsChain <=> /\ \A j \in journal : j.command \in DOMAIN commands
                     /\ \A c \in DOMAIN commands : ChainOf(c)
BY DEF JournalIsChain, ChainOf

LEMMA StepChain == IInv /\ [Next]_vars => JournalIsChain'
<1> SUFFICES ASSUME IInv, [Next]_vars PROVE JournalIsChain'
  OBVIOUS
<1>0. JournalIsChain
  BY DEF IInv
<1>1. CASE UNCHANGED <<commands, outbox, journal>>
  BY <1>0, <1>1 DEF JournalIsChain, Claims
<1>2. ASSUME NEW p \in Creators, CommitCreate(p) PROVE JournalIsChain'
  <2>1. /\ p \notin DOMAIN commands
        /\ DOMAIN commands' = DOMAIN commands \cup {p}
        /\ \A c \in DOMAIN commands : commands'[c] = commands[c]
        /\ journal' = journal
    BY <1>2, CreateCommits DEF CommitCreate
  <2>2. commands'[p].status = "created" /\ commands'[p].version = 1
    <3>1. commands'[p] = [ident |-> creq[p].ident, principal |-> creq[p].principal,
                          hash |-> creq[p].hash, status |-> "created", version |-> 1]
      BY <1>2, CreateCommits
    <3> QED
      BY <3>1
  <2>3. \A j \in journal' : j.command \in DOMAIN commands'
    BY <1>0, <2>1 DEF JournalIsChain
  <2>4. Claims(p)' = {}
    BY <1>0, <2>1 DEF JournalIsChain, Claims
  <2>5. ChainOf(p)'
    BY <2>2, <2>4 DEF ChainOf
  <2>6. ASSUME NEW c \in DOMAIN commands PROVE ChainOf(c)'
    <3>1. Claims(c)' = Claims(c) /\ commands'[c] = commands[c]
      BY <2>1 DEF Claims
    <3>2. ChainOf(c)
      BY <1>0, ChainIsPerCommand
    <3> QED
      BY <3>1, <3>2 DEF ChainOf
  <2>7. \A c \in DOMAIN commands' : ChainOf(c)'
    BY <2>1, <2>5, <2>6
  <2> QED
    BY <2>3, <2>7 DEF JournalIsChain, ChainOf
<1>3. ASSUME NEW m \in Movers, CommitMove(m) PROVE JournalIsChain'
  <2>a. margs[m].command \in DOMAIN commands /\ TypeOK
    BY <1>3, MoveCommits DEF IInv
  <2>b. PICK c \in DOMAIN commands : c = margs[m].command
    BY <2>a
  <2>c. PICK v \in Nat : v = commands[c].version
    BY <2>a, <2>b DEF TypeOK, Row
  <2> DEFINE e == [command |-> c, from |-> mseen[m], to |-> margs[m].next,
                   fromVersion |-> margs[m].expected, by |-> m]
  <2>1. /\ c \in DOMAIN commands
        /\ DOMAIN commands' = DOMAIN commands
        /\ \A d \in DOMAIN commands \ {c} : commands'[d] = commands[d]
        /\ commands'[c].status = margs[m].next
        /\ commands'[c].version = v + 1
    BY <1>3, <2>b, <2>c, MoveCommits
  <2>2. journal' = journal \cup {e}
    BY <1>3, <2>b DEF CommitMove
  <2>3. /\ margs[m].expected = v /\ mseen[m] = commands[c].status
        /\ <<mseen[m], margs[m].next>> \in Legal
    BY <1>3, <2>b, <2>c DEF CommitMove, IInv, ClaimsAreLocked, ClaimHolds
  <2>4. ChainOf(c) /\ v \in Nat /\ v = commands[c].version
    BY <1>0, <2>c, ChainIsPerCommand
  <2>5. Claims(c)' = Claims(c) \cup {e}
    BY <2>2 DEF Claims
  <2>6. \A j \in Claims(c) : j.fromVersion \in 1..(v - 1)
    BY <2>4 DEF ChainOf
  <2>7. v # 0
    <3>1. margs[m].expected \in 1..MaxVersion
      BY <2>a DEF TypeOK, Args
    <3> QED
      BY <2>3, <3>1, MaxVersionAssumption
  <2>8. ChainOf(c)'
    <3>1. \A n \in 1..(commands'[c].version - 1) :
            \E j \in Claims(c)' : j.fromVersion = n
      <4>1. ASSUME NEW n \in 1..(commands'[c].version - 1)
            PROVE  n \in 1..(v - 1) \/ n = v
        BY <2>1, <2>4, <4>1
      <4>2. ASSUME NEW n \in 1..(v - 1) PROVE \E j \in Claims(c)' : j.fromVersion = n
        BY <2>4, <2>5, <4>2 DEF ChainOf
      <4>3. e \in Claims(c)' /\ e.fromVersion = v
        BY <2>3, <2>5
      <4> QED
        BY <4>1, <4>2, <4>3
    <3>2. commands'[c].version # 1
      BY <2>1, <2>4, <2>7
    <3>3. ASSUME NEW j \in Claims(c)'
          PROVE  /\ j.fromVersion \in 1..(commands'[c].version - 1)
                 /\ <<j.from, j.to>> \in Legal
                 /\ j.fromVersion = 1 => j.from = "created"
                 /\ j.fromVersion = commands'[c].version - 1 =>
                      j.to = commands'[c].status
      <4>1. CASE j = e
        BY <2>1, <2>3, <2>4, <2>7, <4>1 DEF ChainOf
      <4>2. CASE j \in Claims(c)
        BY <2>1, <2>4, <2>6, <4>2 DEF ChainOf
      <4> QED
        BY <2>5, <4>1, <4>2
    <3>4. ASSUME NEW j \in Claims(c)', NEW k \in Claims(c)'
          PROVE  /\ j.fromVersion = k.fromVersion => j = k
                 /\ k.fromVersion = j.fromVersion + 1 => k.from = j.to
      <4>1. CASE j \in Claims(c) /\ k \in Claims(c)
        BY <2>4, <4>1 DEF ChainOf
      <4>2. CASE j = e /\ k \in Claims(c)
        BY <2>3, <2>4, <2>6, <4>2
      <4>3. CASE j \in Claims(c) /\ k = e
        <5>1. j.fromVersion = v - 1 => j.to = commands[c].status
          BY <2>4, <4>3 DEF ChainOf
        <5> QED
          BY <2>3, <2>4, <2>6, <4>3, <5>1
      <4>4. CASE j = e /\ k = e
        BY <2>3, <2>4, <4>4
      <4> QED
        BY <2>5, <4>1, <4>2, <4>3, <4>4
    <3> QED
      BY <3>1, <3>2, <3>3, <3>4 DEF ChainOf
  <2>9. ASSUME NEW d \in DOMAIN commands, d # c PROVE ChainOf(d)'
    <3>1. Claims(d)' = Claims(d) /\ commands'[d] = commands[d]
      BY <2>1, <2>2, <2>9 DEF Claims
    <3>2. ChainOf(d)
      BY <1>0, ChainIsPerCommand
    <3> QED
      BY <3>1, <3>2 DEF ChainOf
  <2>10. \A d \in DOMAIN commands' : ChainOf(d)'
    BY <2>1, <2>8, <2>9
  <2>11. \A j \in journal' : j.command \in DOMAIN commands'
    BY <1>0, <2>1, <2>2 DEF JournalIsChain
  <2> QED
    BY <2>10, <2>11 DEF JournalIsChain, ChainOf
<1> QED
  BY <1>1, <1>2, <1>3, TablesChange

-----------------------------------------------------------------------------
(* Theorems *)

LEMMA InitInv == Init => IInv
<1> SUFFICES ASSUME Init PROVE IInv
  OBVIOUS
<1>1. DOMAIN commands = {} /\ outbox = {} /\ evidence = {} /\ journal = {}
  BY DEF Init
<1>2. TypeOK
  BY InitType
<1>3. MoversKnow /\ ClaimsAreLocked /\ WritesFollowPc
  BY <1>1 DEF Init, MoversKnow, ClaimsAreLocked, WritesFollowPc
<1>4. IndexIsUnique /\ IntentIsWhole /\ JournalIsChain
  BY <1>1 DEF Init, IndexIsUnique, IntentIsWhole, JournalIsChain
<1> QED
  BY <1>2, <1>3, <1>4 DEF IInv

LEMMA StepInv == IInv /\ [Next]_vars => IInv'
<1> SUFFICES ASSUME IInv, [Next]_vars PROVE IInv'
  OBVIOUS
<1>1. TypeOK'
  BY StepType DEF IInv
<1> QED
  BY <1>1, StepKnow, StepWrites, StepUnique, StepIntent, StepLocked, StepChain
     DEF IInv

\* In every behaviour the tables keep the strengthened invariant.
THEOREM Inductive == Spec => []IInv
BY InitInv, StepInv, PTL DEF Spec

\* The rows, locks and calls have their types, the rows of committed commands
\* included (mutation_commands, mutation_command_transitions).
THEOREM TypeCorrect == Spec => []TypeOK
<1>1. IInv => TypeOK
  BY DEF IInv
<1> QED
  BY <1>1, Inductive, PTL

\* However many calls race under an identity, one command is stored under it
\* (uq_mutation_commands_idempotency).
THEOREM IdentityIsUnique == Spec => []OneCommandPerIdentity
<1>1. IInv => OneCommandPerIdentity
  BY DEF IInv, IndexIsUnique, OneCommandPerIdentity
<1> QED
  BY <1>1, Inductive, PTL

\* Command, evidence and initial event are committed together or not at all
\* (createMutationCommand's transaction).
THEOREM IntentCommitsWhole == Spec => []IntentIsWhole
<1>1. IInv => IntentIsWhole
  BY DEF IInv
<1> QED
  BY <1>1, Inductive, PTL

\* Every command's journal is an unbroken chain of legal edges ending in its
\* row, for any number of racing, failing and retried transition calls.
THEOREM JournalChains == Spec => []JournalIsChain
<1>1. IInv => JournalIsChain
  BY DEF IInv
<1> QED
  BY <1>1, Inductive, PTL

-----------------------------------------------------------------------------
(* The answers *)

\* A call that has not returned has answered nothing and, a transition call,
\* has left nothing in the journal.
Unanswered ==
  /\ \A p \in Creators : cpc[p] # "done" => creply[p] = NoReply
  /\ \A m \in Movers : mpc[m] # "done" =>
       mreply[m] = "none" /\ \A j \in journal : j.by # m

AInv == IInv /\ Unanswered /\ AnswersAgreeWithLedger /\ TransitionAnswersAgree

\* What a committed row says of its intent stays.
LEMMA IntentsStay ==
  ASSUME IInv, [Next]_vars
  PROVE  /\ DOMAIN commands \subseteq DOMAIN commands'
         /\ \A c \in DOMAIN commands : /\ commands'[c].ident = commands[c].ident
                                       /\ commands'[c].principal = commands[c].principal
                                       /\ commands'[c].hash = commands[c].hash
BY TablesChange, CreateCommits, MoveCommits

\* A step is a step of one creating call or leaves all of them alone.
LEMMA CreatorOrNot ==
  ASSUME [Next]_vars
  PROVE  \/ \E p \in Creators : StartCreate(p) \/ CreateStep(p) \/ FailCreate(p)
         \/ UNCHANGED cvars
BY DEF Next, vars, AllReturned, MoveStep, StartMove, Preflight, Fetch, ClaimEdge, Advance,
       CommitMove, Classify, FailMove, Revoke

\* What the answer r to call p says of the ledger
Agrees(p, r) ==
  LET d == r.command IN
  /\ r.kind \in {"created", "replay", "conflict"} =>
       /\ d \in DOMAIN commands
       /\ commands[d].ident = creq[p].ident
       /\ commands[d].principal = creq[p].principal
       /\ (r.kind = "conflict") <=> (commands[d].hash # creq[p].hash)
  /\ r.kind = "created" => d = p
  /\ r.kind \in {"replay", "conflict", "principal_mismatch", "denied"} =>
       d # p /\ p \notin DOMAIN commands

LEMMA AgreesPerCall == AnswersAgreeWithLedger <=> \A p \in Creators : Agrees(p, creply[p])
BY DEF AnswersAgreeWithLedger, Agrees

LEMMA ResolveAgrees ==
  ASSUME NEW p \in Creators, p \notin DOMAIN commands, Nobody # p, NEW c \in Under(creq[p].ident)
  PROVE  Agrees(p, Resolve(creq[p], c))
BY DEF Agrees, Resolve, Under

\* How the answers of creating calls change
AnswersMove ==
  \A p \in Creators :
    \/ creply'[p] = creply[p] /\ (cpc'[p] = "done" <=> cpc[p] = "done")
       /\ (cpc[p] # "idle" => creq'[p] = creq[p])
       /\ (p \in DOMAIN commands' => p \in DOMAIN commands)
    \/ cpc[p] # "done" /\ cpc'[p] = "done" /\ Agrees(p, creply[p])'

LEMMA StartAnswers ==
  ASSUME AInv, NEW p \in Creators, StartCreate(p)
  PROVE  AnswersMove
BY DEF AInv, IInv, TypeOK, StartCreate, AnswersMove, tables

LEMMA StepAnswers ==
  ASSUME AInv, NEW p \in Creators, CreateStep(p)
  PROVE  AnswersMove
<1>0. /\ DOMAIN cpc = Creators /\ DOMAIN creply = Creators
      /\ cpc = [q \in Creators |-> cpc[q]] /\ creply = [q \in Creators |-> creply[q]]
      /\ WritesFollowPc /\ IInv
  BY DEF AInv, IInv, TypeOK
<1>1. /\ cpc[p] \notin {"idle", "done"} /\ p \notin DOMAIN commands /\ Nobody # p /\ creq' = creq
      /\ \A q \in Creators \ {p} : cpc'[q] = cpc[q] /\ creply'[q] = creply[q]
      /\ DOMAIN commands' \subseteq DOMAIN commands \cup {p}
  <2>1. cpc[p] \notin {"idle", "done"}
    BY DEF CreateStep, Lookup, Authorize, InsertCommand, InsertEvent, CommitCreate, ResolveWinner
  <2>2. creq' = creq /\ \A q \in Creators \ {p} : cpc'[q] = cpc[q] /\ creply'[q] = creply[q]
    BY <1>0 DEF CreateStep, Lookup, Authorize, InsertCommand, InsertEvent, CommitCreate, ResolveWinner,
                CreateReturns
  <2>3. DOMAIN commands' \subseteq DOMAIN commands \cup {p}
    BY <1>0, CreateCommits DEF CreateStep, Lookup, Authorize, InsertCommand, InsertEvent, ResolveWinner, tables
  <2> QED
    BY <1>0, <2>1, <2>2, <2>3, NobodyAssumption DEF WritesFollowPc
<1> DEFINE Moved == cpc'[p] # "done" /\ creply'[p] = creply[p] /\ DOMAIN commands' = DOMAIN commands
           Told == cpc'[p] = "done" /\ Agrees(p, creply[p])'
<1>2. ASSUME NEW r, CreateReturns(p, r)
      PROVE  cpc'[p] = "done" /\ creply'[p] = r
  BY <1>0, <1>2 DEF CreateReturns
<1>3. ASSUME NEW s, s # "done", cpc' = [cpc EXCEPT ![p] = s], UNCHANGED <<commands, creply>>
      PROVE  Moved
  BY <1>0, <1>3
<1>4. ASSUME NEW r, Agrees(p, r), UNCHANGED commands PROVE Agrees(p, r)'
  <2>1. creq'[p] = creq[p] /\ r' = r
    BY <1>1
  <2> QED
    BY <1>4, <2>1 DEF Agrees
<1>5. Moved \/ Told
  <2>1. CASE Lookup(p) \/ ResolveWinner(p)
    <3>1. UNCHANGED commands
      BY <2>1 DEF Lookup, ResolveWinner, tables
    <3>2. ASSUME NEW c \in Under(creq[p].ident), CreateReturns(p, Resolve(creq[p], c)) PROVE Told
      <4>1. PICK r : r = Resolve(creq[p], c)
        OBVIOUS
      <4>2. Agrees(p, r)
        BY <1>1, <4>1, ResolveAgrees
      <4>3. cpc'[p] = "done" /\ creply'[p] = r
        BY <1>2, <3>2, <4>1
      <4> QED
        BY <1>1, <3>1, <4>2, <4>3 DEF Agrees
    <3> QED
      BY <1>3, <2>1, <3>1, <3>2 DEF Lookup, ResolveWinner
  <2>2. CASE Authorize(p)
    <3>1. UNCHANGED commands
      BY <2>2 DEF Authorize
    <3>2. CASE CreateReturns(p, [kind |-> "denied", command |-> Nobody])
      BY <1>1, <1>2, <3>1, <3>2 DEF Agrees
    <3>3. CASE cpc' = [cpc EXCEPT ![p] = "insert"] /\ creply' = creply
      BY <1>3, <3>1, <3>3
    <3> QED
      BY <2>2, <3>2, <3>3 DEF Authorize
  <2>3. CASE InsertCommand(p) \/ InsertEvent(p)
    BY <1>3, <2>3 DEF InsertCommand, InsertEvent, tables
  <2>4. CASE CommitCreate(p)
    <3>1. commands'[p] = [ident |-> creq[p].ident, principal |-> creq[p].principal,
                          hash |-> creq[p].hash, status |-> "created", version |-> 1]
          /\ p \in DOMAIN commands'
      BY <1>0, <2>4, CreateCommits
    <3>2. cpc'[p] = "done" /\ creply'[p] \in {[kind |-> "created", command |-> p],
                                            [kind |-> "error", command |-> Nobody]}
      BY <1>2, <2>4 DEF CommitCreate
    <3> QED
      BY <1>1, <3>1, <3>2 DEF Agrees
  <2> QED
    BY <2>1, <2>2, <2>3, <2>4 DEF CreateStep
<1> QED
  BY <1>1, <1>5 DEF AnswersMove

LEMMA FailAnswers ==
  ASSUME AInv, NEW p \in Creators, FailCreate(p)
  PROVE  AnswersMove
<1>1. /\ creply' = [creply EXCEPT ![p] = [kind |-> "error", command |-> Nobody]]
      /\ cpc' = [cpc EXCEPT ![p] = "done"] /\ cpc[p] # "done"
      /\ UNCHANGED <<commands, creq>>
  BY DEF FailCreate, CreateReturns, tables
<1>2. creply'[p] = [kind |-> "error", command |-> Nobody]
  BY <1>1 DEF AInv, IInv, TypeOK
<1>3. Agrees(p, creply[p])'
  BY <1>2 DEF Agrees
<1> QED
  BY <1>1, <1>3 DEF AInv, IInv, TypeOK, AnswersMove

LEMMA CreateAnswers ==
  ASSUME AInv, [Next]_vars
  PROVE  AnswersAgreeWithLedger' /\ \A p \in Creators : cpc'[p] # "done" => creply'[p] = NoReply
<1>1. AnswersMove
  <2>1. CASE UNCHANGED cvars
    <3>1. \A p \in Creators : ~CommitCreate(p)
      BY <2>1 DEF CommitCreate, CreateReturns, cvars, AInv, IInv, TypeOK
    <3>2. DOMAIN commands' = DOMAIN commands
      BY <3>1, TablesChange, MoveCommits DEF AInv
    <3> QED
      BY <2>1, <3>2 DEF AnswersMove, cvars
  <2> QED
    BY <2>1, CreatorOrNot, StartAnswers, StepAnswers, FailAnswers
<1>2. ASSUME NEW p \in Creators PROVE Agrees(p, creply[p])' /\ (cpc'[p] # "done" => creply'[p] = NoReply)
  <2>1. CASE cpc[p] # "done" /\ cpc'[p] = "done" /\ Agrees(p, creply[p])'
    BY <2>1
  <2>2. CASE /\ creply'[p] = creply[p] /\ (cpc'[p] = "done" <=> cpc[p] = "done")
             /\ (cpc[p] # "idle" => creq'[p] = creq[p])
             /\ (p \in DOMAIN commands' => p \in DOMAIN commands)
    <3>1. Agrees(p, creply[p])
      BY AgreesPerCall DEF AInv
    <3>2. CASE cpc[p] = "idle"
      <4>1. creply'[p].kind = "none"
        BY <2>2, <3>2 DEF AInv, Unanswered, NoReply
      <4> QED
        BY <2>2, <3>2, <4>1 DEF AInv, Unanswered, Agrees
    <3>3. CASE cpc[p] # "idle"
      <4>1. Agrees(p, creply[p])'
        BY <2>2, <3>1, <3>3, IntentsStay DEF AInv, Agrees
      <4> QED
        BY <2>2, <4>1 DEF AInv, Unanswered
    <3> QED
      BY <3>2, <3>3
  <2> QED
    BY <1>1, <2>1, <2>2 DEF AnswersMove
<1> QED
  BY <1>2 DEF AnswersAgreeWithLedger, Agrees

LEMMA MoveAnswers ==
  ASSUME AInv, [Next]_vars
  PROVE  TransitionAnswersAgree' /\ \A m \in Movers : mpc'[m] # "done" =>
                                      mreply'[m] = "none" /\ \A j \in journal' : j.by # m
<1> DEFINE Mine(m) == {j \in journal : j.by = m}
           Ok(m) == /\ mreply[m] = "ok" =>
                         \E j \in Mine(m) : /\ j.command = margs[m].command
                                            /\ j.fromVersion = margs[m].expected
                                            /\ j.to = margs[m].next
                    /\ Mine(m) # {} => mreply[m] \in {"ok", "error"}
                    /\ mpc[m] # "done" => mreply[m] = "none" /\ Mine(m) = {}
<1>1. \A m \in Movers : Ok(m)
  BY DEF AInv, Unanswered, TransitionAnswersAgree
<1>2. (\A m \in Movers : Ok(m)') =>
        /\ TransitionAnswersAgree'
        /\ \A m \in Movers : mpc'[m] # "done" => mreply'[m] = "none" /\ \A j \in journal' : j.by # m
  BY DEF TransitionAnswersAgree
<1> USE DEF AInv, IInv, TypeOK
<1>3. CASE UNCHANGED mvars
  <2>1. \A m \in Movers : ~CommitMove(m)
    BY <1>3 DEF CommitMove, MoveReturns, mvars
  <2>2. journal' = journal
    BY <2>1, TablesChange DEF CommitCreate
  <2> QED
    BY <1>1, <1>2, <1>3, <2>2 DEF mvars
<1>4. ASSUME NEW m \in Movers, StartMove(m) \/ MoveStep(m) \/ FailMove(m)
      PROVE  \A n \in Movers : Ok(n)'
  <2>1. /\ mpc[m] # "done"
        /\ \A n \in Movers \ {m} : mpc'[n] = mpc[n] /\ mreply'[n] = mreply[n] /\ margs'[n] = margs[n]
    BY <1>4 DEF StartMove, MoveStep, FailMove, Preflight, Fetch, ClaimEdge, Advance, CommitMove, Classify,
                MoveReturns
  <2>2. mreply[m] = "none" /\ Mine(m) = {}
    BY <1>1, <2>1
  <2>3. CASE CommitMove(m)
    <3>1. journal' = journal \cup {[command |-> margs[m].command, from |-> mseen[m], to |-> margs[m].next,
                                   fromVersion |-> margs[m].expected, by |-> m]}
      BY <2>3 DEF CommitMove
    <3>2. mpc'[m] = "done" /\ mreply'[m] \in {"ok", "error"} /\ margs' = margs
      BY <2>3 DEF CommitMove, MoveReturns
    <3>3. Ok(m)'
      <4>1. PICK j \in Mine(m)' : /\ j.command = margs[m].command /\ j.to = margs[m].next
                                 /\ j.fromVersion = margs[m].expected
        <5> DEFINE j == [command |-> margs[m].command, from |-> mseen[m], to |-> margs[m].next,
                         fromVersion |-> margs[m].expected, by |-> m]
        <5>1. j \in journal' /\ j.by = m
          BY <3>1
        <5>2. j \in Mine(m)'
          BY <5>1
        <5>3. j.command = margs[m].command /\ j.to = margs[m].next /\ j.fromVersion = margs[m].expected
          OBVIOUS
        <5> QED
          BY <5>2, <5>3
      <4> QED
        BY <3>2, <4>1
    <3>4. \A n \in Movers \ {m} : Mine(n)' = Mine(n)
      BY <3>1
    <3> QED
      BY <1>1, <2>1, <3>3, <3>4
  <2>4. CASE ~CommitMove(m)
    <3>1. journal' = journal
      BY <1>4, <2>4 DEF StartMove, MoveStep, FailMove, Preflight, Fetch, ClaimEdge, Advance, Classify,
                        tables
    <3>2. mreply'[m] # "ok" /\ (mpc'[m] # "done" => mreply'[m] = "none")
      BY <1>4, <2>2, <2>4 DEF StartMove, MoveStep, FailMove, Preflight, Fetch, ClaimEdge, Advance, Classify,
                              MoveReturns
    <3> QED
      BY <1>1, <2>1, <2>2, <3>1, <3>2
  <2> QED
    BY <2>3, <2>4
<1> QED
  BY <1>2, <1>3, <1>4, MoverOrNot

LEMMA AnswersInv == Spec => []AInv
<1>1. Init => AInv
  BY InitInv DEF Init, AInv, Unanswered, AnswersAgreeWithLedger, TransitionAnswersAgree, NoReply
<1>2. AInv /\ [Next]_vars => AInv'
  BY StepInv, CreateAnswers, MoveAnswers DEF AInv, Unanswered
<1> QED
  BY <1>1, <1>2, PTL DEF Spec

\* What a caller of createMutationCommand is told agrees with the ledger, for
\* any number of racing calls, lost answers and revoked principals.
THEOREM AnswersAreTrue == Spec => []AnswersAgreeWithLedger
<1>1. AInv => AnswersAgreeWithLedger
  BY DEF AInv
<1> QED
  BY <1>1, AnswersInv, PTL

\* What a caller of transitionMutationCommand is told agrees with the journal.
THEOREM TransitionAnswersAreTrue == Spec => []TransitionAnswersAgree
<1>1. AInv => TransitionAnswersAgree
  BY DEF AInv
<1> QED
  BY <1>1, AnswersInv, PTL

-----------------------------------------------------------------------------
(* The refinement *)

LEMMA InitRegister == Init => Abstract!Init
BY DEF Init, Abstract!Init

LEMMA StepRegister == IInv /\ [Next]_vars => Abstract!Next \/ UNCHANGED {commands[c] : c \in DOMAIN commands}
<1> SUFFICES ASSUME IInv, [Next]_vars
             PROVE  Abstract!Next \/ UNCHANGED {commands[c] : c \in DOMAIN commands}
  OBVIOUS
<1> DEFINE ledger == {commands[c] : c \in DOMAIN commands}
<1>1. CASE UNCHANGED <<commands, outbox, journal>>
  BY <1>1
<1>2. ASSUME NEW p \in Creators, CommitCreate(p) PROVE Abstract!Next
  <2> DEFINE row == [ident |-> creq[p].ident, principal |-> creq[p].principal,
                     hash |-> creq[p].hash, status |-> "created", version |-> 1]
  <2>1. /\ DOMAIN commands' = DOMAIN commands \cup {p} /\ commands'[p] = row
        /\ \A c \in DOMAIN commands : commands'[c] = commands[c]
    BY <1>2, CreateCommits
  <2>2. ledger' = ledger \cup {row}
    BY <2>1
  <2>3. \A e \in ledger : e.ident # creq[p].ident
    BY <1>2 DEF CommitCreate, IInv, WritesFollowPc, IndexIsUnique
  <2>4. creq[p].ident \in Idents /\ creq[p].principal \in Principals /\ creq[p].hash \in Hashes
    BY DEF IInv, TypeOK, Request
  <2> HIDE DEF ledger
  <2>5. \E i \in Idents, r \in Principals, h \in Hashes :
          /\ \A e \in ledger : e.ident # i
          /\ ledger' = ledger \cup
               {[ident |-> i, principal |-> r, hash |-> h, status |-> "created", version |-> 1]}
    BY <2>2, <2>3, <2>4
  <2> QED
    BY <2>5 DEF ledger, Abstract!Next, Abstract!Register
<1>3. ASSUME NEW m \in Movers, CommitMove(m) PROVE Abstract!Next
  <2> DEFINE c == margs[m].command
             e == commands[c]
             s == margs[m].next
             new == [e EXCEPT !.status = s, !.version = @ + 1]
  <2>1. /\ c \in DOMAIN commands /\ DOMAIN commands' = DOMAIN commands
        /\ \A d \in DOMAIN commands \ {c} : commands'[d] = commands[d]
    BY <1>3, MoveCommits
  <2>2. commands'[c] = new
    BY <1>3, <2>1 DEF CommitMove, IInv, TypeOK
  <2>3. \A d \in DOMAIN commands \ {c} : commands[d] # e
    BY <2>1 DEF IInv, IndexIsUnique
  <2>4. ledger' = (ledger \ {e}) \cup {new}
    BY <2>1, <2>2, <2>3
  <2>5. <<e.status, s>> \in Legal
    BY <1>3 DEF CommitMove, IInv, ClaimsAreLocked, ClaimHolds
  <2>6. s \in Abstract!Statuses /\ e \in ledger
    BY <2>1, InputsAssumption DEF IInv, TypeOK, Args, Statuses, Abstract!Statuses
  <2> HIDE DEF ledger
  <2>7. \E f \in ledger, t \in Abstract!Statuses :
          /\ <<f.status, t>> \in Abstract!Legal
          /\ ledger' = (ledger \ {f}) \cup {[f EXCEPT !.status = t, !.version = @ + 1]}
    BY <2>4, <2>5, <2>6 DEF Legal, Abstract!Legal
  <2> QED
    BY <2>7 DEF ledger, Abstract!Next, Abstract!Move
<1> QED
  BY <1>1, <1>2, <1>3, TablesChange

\* The two services over their tables implement the abstract ledger of commands.
THEOREM Implementation == Spec => ImplementsCommandLedger
<1>1. IInv /\ [Next]_vars => [Abstract!Next]_({commands[c] : c \in DOMAIN commands})
  BY StepRegister
<1> QED
  BY <1>1, Inductive, InitRegister, PTL DEF Spec, ImplementsCommandLedger, Abstract!Spec

-----------------------------------------------------------------------------
(* The safety part of CallsReturn: what a call waits for *)

\* The lock of a row is held between the claim and the end of its transaction,
\* by nobody who has ended.
LocksEnd ==
  \A c \in Creators : rowLock[c] # Nobody =>
    mpc[rowLock[c]] \in {"advance", "commit"} /\ margs[rowLock[c]].command = c

\* A call whose INSERT was a unique violation finds the command that won: the raw
\* error behind "if (winner)" is never thrown.
WinnersAreFound ==
  \A p \in Creators : cpc[p] = "resolve" => Under(creq[p].ident) # {}

\* Who waits for an index entry or a row lock waits for a transaction that is past
\* all its waits; who has nothing to wait for has what its next statement reads.
WaitsEnd ==
  /\ \A p, q \in Creators :
       cpc[p] = "insert" /\ q # p /\ "command" \in cwrites[q] /\ creq[q].ident = creq[p].ident =>
         cpc[q] \in {"event", "commit"}
  /\ \A m \in Movers :
       LET h == rowLock[margs[m].command] IN
       mpc[m] = "claim" /\ h # Nobody => mpc[h] \in {"advance", "commit"}
  /\ WinnersAreFound

\* The end of a transaction gives back every lock it held.
LEMMA UnlockFrees ==
  ASSUME IInv, LocksEnd, NEW m \in Movers, Unlock(m),
         mpc' \in [Movers -> {"idle", "preflight", "fetch", "claim", "advance", "commit", "classify", "done"}],
         \A n \in Movers \ {m} : mpc'[n] = mpc[n], margs' = margs
  PROVE  LocksEnd'
<1> SUFFICES ASSUME NEW c \in Creators, rowLock'[c] # Nobody
             PROVE  mpc'[rowLock'[c]] \in {"advance", "commit"} /\ margs'[rowLock'[c]].command = c
  BY DEF LocksEnd
<1>1. rowLock'[c] = rowLock[c] /\ rowLock[c] # m
  BY DEF Unlock
<1>2. rowLock[c] \in Movers
  BY <1>1 DEF IInv, TypeOK
<1> QED
  BY <1>1, <1>2 DEF LocksEnd

LEMMA StepLocksEnd == IInv /\ LocksEnd /\ [Next]_vars => LocksEnd'
<1> SUFFICES ASSUME IInv, LocksEnd, [Next]_vars PROVE LocksEnd'
  OBVIOUS
<1>1. CASE UNCHANGED mvars
  BY <1>1 DEF mvars, LocksEnd
<1>2. ASSUME NEW m \in Movers, StartMove(m) \/ Preflight(m) \/ Fetch(m) \/ Classify(m)
      PROVE  LocksEnd'
  <2>1. /\ rowLock' = rowLock /\ mpc[m] \notin {"advance", "commit"}
        /\ \A n \in Movers \ {m} : mpc'[n] = mpc[n] /\ margs'[n] = margs[n]
    BY <1>2 DEF StartMove, Preflight, Fetch, Classify, MoveReturns, IInv, TypeOK
  <2>2. \A c \in Creators : rowLock[c] # Nobody => rowLock[c] \in Movers \ {m}
    BY <2>1 DEF LocksEnd, IInv, TypeOK
  <2> QED
    BY <2>1, <2>2 DEF LocksEnd
<1>3. ASSUME NEW m \in Movers, ClaimEdge(m) PROVE LocksEnd'
  <2>1. /\ mpc[m] = "claim" /\ margs' = margs
        /\ \A n \in Movers \ {m} : mpc'[n] = mpc[n]
    BY <1>3 DEF ClaimEdge, IInv, TypeOK
  <2>2. \A c \in Creators : rowLock[c] # Nobody => rowLock[c] \in Movers \ {m}
    BY <2>1 DEF LocksEnd, IInv, TypeOK
  <2>3. CASE rowLock' = rowLock
    BY <2>1, <2>2, <2>3 DEF LocksEnd
  <2>4. CASE rowLock' = [rowLock EXCEPT ![margs[m].command] = m] /\ mpc' = [mpc EXCEPT ![m] = "advance"]
    <3>1. mpc'[m] = "advance"
      BY <2>4 DEF IInv, TypeOK
    <3>2. \A c \in Creators : rowLock'[c] = IF c = margs[m].command THEN m ELSE rowLock[c]
      BY <2>4 DEF IInv, TypeOK
    <3> QED
      BY <2>1, <2>2, <3>1, <3>2 DEF LocksEnd
  <2> QED
    BY <1>3, <2>3, <2>4 DEF ClaimEdge
<1>4. ASSUME NEW m \in Movers, Advance(m) PROVE LocksEnd'
  <2>1. margs' = margs /\ \A n \in Movers \ {m} : mpc'[n] = mpc[n]
    BY <1>4 DEF Advance, IInv, TypeOK
  <2>2. CASE rowLock' = rowLock /\ mpc' = [mpc EXCEPT ![m] = "commit"]
    <3>1. mpc'[m] = "commit"
      BY <2>2 DEF IInv, TypeOK
    <3>2. \A c \in Creators : rowLock[c] # Nobody => rowLock[c] \in Movers
      BY DEF IInv, TypeOK
    <3> QED
      BY <2>1, <2>2, <3>1, <3>2 DEF LocksEnd
  <2>3. CASE Unlock(m)
    BY <2>1, <2>3, StepInv, UnlockFrees DEF IInv, TypeOK
  <2> QED
    BY <1>4, <2>2, <2>3 DEF Advance
<1>5. ASSUME NEW m \in Movers, CommitMove(m) \/ FailMove(m) PROVE LocksEnd'
  <2>1. Unlock(m) /\ margs' = margs /\ \A n \in Movers \ {m} : mpc'[n] = mpc[n]
    BY <1>5 DEF CommitMove, FailMove, MoveReturns, IInv, TypeOK
  <2>2. TypeOK'
    BY StepInv DEF IInv
  <2> QED
    BY <2>1, <2>2, UnlockFrees DEF TypeOK
<1> QED
  BY <1>1, <1>2, <1>3, <1>4, <1>5, MoverOrNot DEF MoveStep

LEMMA StepWinners == IInv /\ WinnersAreFound /\ [Next]_vars => WinnersAreFound'
<1> SUFFICES ASSUME IInv, WinnersAreFound, [Next]_vars, NEW p \in Creators, cpc'[p] = "resolve"
             PROVE  Under(creq[p].ident)' # {}
  BY DEF WinnersAreFound
<1>1. \A i : Under(i) \subseteq Under(i)'
  BY IntentsStay DEF Under
<1>2. CASE UNCHANGED cvars
  BY <1>1, <1>2 DEF cvars, WinnersAreFound
<1>3. ASSUME NEW q \in Creators, StartCreate(q) \/ CreateStep(q) \/ FailCreate(q)
      PROVE  Under(creq[p].ident)' # {}
  <2>1. creq'[p] = creq[p] /\ Under(creq[p].ident) # {}
    <3>1. CASE q # p
      <4>1. cpc'[p] = cpc[p] /\ creq'[p] = creq[p]
        BY <1>3, <3>1 DEF StartCreate, CreateStep, FailCreate, Lookup, Authorize, InsertCommand,
           InsertEvent, CommitCreate, ResolveWinner, CreateReturns, IInv, TypeOK
      <4> QED
        BY <4>1 DEF WinnersAreFound
    <3>2. CASE q = p /\ InsertCommand(p)
      BY <3>2 DEF InsertCommand, IInv, TypeOK
    <3>3. CASE q = p /\ ~InsertCommand(p)
      <4>1. cpc'[p] # "resolve"
        BY <1>3, <3>3 DEF StartCreate, CreateStep, FailCreate, Lookup, Authorize,
           InsertEvent, CommitCreate, ResolveWinner, CreateReturns, IInv, TypeOK
      <4> QED
        BY <4>1
    <3> QED
      BY <3>1, <3>2, <3>3
  <2> QED
    BY <1>1, <2>1
<1> QED
  BY <1>2, <1>3, CreatorOrNot

\* No calls wait in a circle, and no lock outlives the call that took it: whoever
\* a call waits for only has its own next statement, or its ROLLBACK, before it
\* (uq_mutation_commands_idempotency, the FOR UPDATE of migration 049), however
\* many calls race and fail.  A loser always finds its winner (findByIdentity).
\* It is the safety part of CallsReturn.
THEOREM HoldersDoNotWait == Spec => [](LocksEnd /\ WaitsEnd)
<1>1. Init => LocksEnd /\ WinnersAreFound
  BY DEF Init, LocksEnd, WinnersAreFound
<1>2. IInv /\ LocksEnd /\ WinnersAreFound => WaitsEnd
  <2> SUFFICES ASSUME IInv, LocksEnd, WinnersAreFound PROVE WaitsEnd
    OBVIOUS
  <2>1. \A q \in Creators : "command" \in cwrites[q] => cpc[q] \in {"event", "commit"}
    BY DEF IInv, WritesFollowPc
  <2>2. \A m \in Movers : margs[m].command \in Creators
    BY DEF IInv, TypeOK, Args
  <2> QED
    BY <2>1, <2>2 DEF LocksEnd, WaitsEnd
<1> QED
  BY <1>1, <1>2, Inductive, StepLocksEnd, StepWinners, PTL DEF Spec
=============================================================================

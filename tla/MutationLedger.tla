--------------------------- MODULE MutationLedger ---------------------------
(***************************************************************************)
(* The mutation-command substrate of packages/web: createMutationCommand   *)
(* (services/mutationCommandService.js) and transitionMutationCommand      *)
(* (services/mutationLifecycleService.js) over the tables, unique indexes  *)
(* and triggers of migrations 048 and 049.                                 *)
(*                                                                         *)
(* Every call is a process.  Its statements interleave with those of the   *)
(* other calls; what it writes inside its transaction stays private until  *)
(* COMMIT; PostgreSQL (READ COMMITTED) makes it wait for the row lock or   *)
(* the unique-index entry that another open transaction holds.  A call may *)
(* fail at any statement, and may lose the answer to its COMMIT.           *)
(***************************************************************************)
EXTENDS Naturals, FiniteSets

CONSTANTS
  Creators,     \* calls of createMutationCommand; a call's uuid names its row
  Movers,       \* calls of transitionMutationCommand
  Idents,       \* (namespace, resource_identity, idempotency_key, operation)
  Principals,
  Hashes,       \* canonical request hashes
  Wanted,       \* bound: the statuses callers ask for
  MaxVersion,   \* bound: largest expectedVersion a caller passes
  Nobody        \* no lock holder, no command

Statuses ==
  {"created", "claimed", "executing", "completed", "failed", "cancelled"}

\* The rows of public.mutation_transition_legality.
Legal == { <<"created", "claimed">>,   <<"created", "cancelled">>,
           <<"claimed", "executing">>, <<"claimed", "cancelled">>,
           <<"executing", "completed">>, <<"executing", "failed">> }

ASSUME NobodyAssumption == Nobody \notin Creators \cup Movers
ASSUME MaxVersionAssumption == MaxVersion \in Nat \ {0}
ASSUME InputsAssumption ==
  /\ Creators # {} /\ Idents # {} /\ Principals # {} /\ Hashes # {}
  /\ Wanted # {} /\ Wanted \subseteq Statuses

VARIABLES
  \* committed tables
  commands,     \* mutation_commands: command id -> row
  outbox,       \* mutation_outbox: the mutation.command.created events
  evidence,     \* auth_decision_log rows of these calls
  journal,      \* mutation_command_transitions
  granted,      \* principals whose role assignments allow the operation
  \* calls of createMutationCommand
  cpc, creq, cwrites, creply,
  \* calls of transitionMutationCommand
  mpc, margs, mseen, mreply,
  rowLock       \* command id -> the transaction holding its FOR UPDATE lock

tables == <<commands, outbox, evidence, journal, granted>>
cvars == <<cpc, creq, cwrites, creply>>
mvars == <<mpc, margs, mseen, mreply, rowLock>>
vars == <<tables, cvars, mvars>>

Request == [ident : Idents, principal : Principals, hash : Hashes]
Row == [ident : Idents, principal : Principals, hash : Hashes,
        status : Statuses, version : Nat]
Event == [command : Creators, hash : Hashes]
Decision == [call : Creators, principal : Principals, verdict : {"allow", "deny"}]
Claim == [command : Creators, from : Statuses, to : Statuses,
          fromVersion : Nat, by : Movers]
Args == [command : Creators, expected : 1..MaxVersion, next : Wanted]

-----------------------------------------------------------------------------
(* createMutationCommand *)

\* The committed commands under an idempotency identity.
Under(i) == {c \in DOMAIN commands : commands[c].ident = i}

\* Mutant: no unique index, an insert never waits.
InsertPendingNever(p, i) == FALSE

\* A transaction other than p's holds the unique-index entry of identity i.
InsertPending(p, i) ==
  \E q \in Creators \ {p} : "command" \in cwrites[q] /\ creq[q].ident = i

NoReply == [kind |-> "none", command |-> Nobody]

\* Mutant: a replay is answered whoever asks.
ResolveAnyPrincipal(req, c) ==
  [kind |-> IF commands[c].hash = req.hash THEN "replay" ELSE "conflict",
   command |-> c]

\* How a call answers when a command is already committed under its identity.
Resolve(req, c) ==
  IF commands[c].principal # req.principal
  THEN [kind |-> "principal_mismatch", command |-> Nobody]
  ELSE [kind |-> IF commands[c].hash = req.hash THEN "replay" ELSE "conflict",
        command |-> c]

CreateReturns(p, r) ==
  /\ cpc' = [cpc EXCEPT ![p] = "done"]
  /\ creply' = [creply EXCEPT ![p] = r]

StartCreate(p) ==
  /\ cpc[p] = "idle"
  /\ \E r \in Request : creq' = [creq EXCEPT ![p] = r]
  /\ cpc' = [cpc EXCEPT ![p] = "lookup"]
  /\ UNCHANGED <<tables, cwrites, creply, mvars>>

\* The lookup before the transaction: answer a replay without authorizing it.
Lookup(p) ==
  /\ cpc[p] = "lookup"
  /\ IF Under(creq[p].ident) = {}
     THEN cpc' = [cpc EXCEPT ![p] = "authorize"] /\ UNCHANGED creply
     ELSE \E c \in Under(creq[p].ident) :
            CreateReturns(p, Resolve(creq[p], c))
  /\ UNCHANGED <<tables, creq, cwrites, mvars>>

\* Mutant: the allowed decision is written at once, outside the transaction.
AuthorizeOnPool(p) ==
  LET pr == creq[p].principal
      verdict == IF pr \in granted THEN "allow" ELSE "deny"
  IN
  /\ cpc[p] = "authorize"
  /\ evidence' = evidence \cup {[call |-> p, principal |-> pr, verdict |-> verdict]}
  /\ IF verdict = "allow"
     THEN cpc' = [cpc EXCEPT ![p] = "insert"] /\ UNCHANGED creply
     ELSE CreateReturns(p, [kind |-> "denied", command |-> Nobody])
  /\ UNCHANGED <<commands, outbox, journal, granted, creq, cwrites, mvars>>

\* authorizeControlled: an allowed decision is written by the transaction, a
\* denied one at once on a connection of its own.
Authorize(p) ==
  LET pr == creq[p].principal IN
  /\ cpc[p] = "authorize"
  /\ IF pr \in granted
     THEN /\ cwrites' = [cwrites EXCEPT ![p] = {"evidence"}]
          /\ cpc' = [cpc EXCEPT ![p] = "insert"]
          /\ UNCHANGED <<evidence, creply>>
     ELSE /\ evidence' = evidence \cup
               {[call |-> p, principal |-> pr, verdict |-> "deny"]}
          /\ CreateReturns(p, [kind |-> "denied", command |-> Nobody])
          /\ UNCHANGED cwrites
  /\ UNCHANGED <<commands, outbox, journal, granted, creq, mvars>>

\* INSERT INTO mutation_commands: waits for a pending insert of the same
\* identity; a committed one is a unique violation and rolls p back.
InsertCommand(p) ==
  /\ cpc[p] = "insert"
  /\ ~ InsertPending(p, creq[p].ident)
  /\ IF Under(creq[p].ident) = {}
     THEN /\ cwrites' = [cwrites EXCEPT ![p] = @ \cup {"command"}]
          /\ cpc' = [cpc EXCEPT ![p] = "event"]
     ELSE /\ cwrites' = [cwrites EXCEPT ![p] = {}]
          /\ cpc' = [cpc EXCEPT ![p] = "resolve"]
  /\ UNCHANGED <<tables, creq, creply, mvars>>

InsertEvent(p) ==
  /\ cpc[p] = "event"
  /\ cwrites' = [cwrites EXCEPT ![p] = @ \cup {"event"}]
  /\ cpc' = [cpc EXCEPT ![p] = "commit"]
  /\ UNCHANGED <<tables, creq, creply, mvars>>

\* COMMIT publishes what the transaction wrote; its answer may be lost.
CommitCreate(p) ==
  LET w == cwrites[p]
      row == [ident |-> creq[p].ident, principal |-> creq[p].principal,
              hash |-> creq[p].hash, status |-> "created", version |-> 1]
  IN
  /\ cpc[p] = "commit"
  /\ commands' = IF "command" \in w
                 THEN [c \in DOMAIN commands \cup {p} |->
                         IF c = p THEN row ELSE commands[c]]
                 ELSE commands
  /\ outbox' = outbox \cup
       {e \in {[command |-> p, hash |-> creq[p].hash]} : "event" \in w}
  /\ evidence' = evidence \cup
       {d \in {[call |-> p, principal |-> creq[p].principal,
                verdict |-> "allow"]} : "evidence" \in w}
  /\ cwrites' = [cwrites EXCEPT ![p] = {}]
  /\ \/ CreateReturns(p, [kind |-> "created", command |-> p])
     \/ CreateReturns(p, [kind |-> "error", command |-> Nobody])
  /\ UNCHANGED <<journal, granted, creq, mvars>>

\* After a unique violation: the winner's command decides the answer.
ResolveWinner(p) ==
  /\ cpc[p] = "resolve"
  /\ \E c \in Under(creq[p].ident) : CreateReturns(p, Resolve(creq[p], c))
  /\ UNCHANGED <<tables, creq, cwrites, mvars>>

\* A statement fails or the process dies: ROLLBACK.
FailCreate(p) ==
  /\ cpc[p] \notin {"idle", "done"}
  /\ cwrites' = [cwrites EXCEPT ![p] = {}]
  /\ CreateReturns(p, [kind |-> "error", command |-> Nobody])
  /\ UNCHANGED <<tables, creq, mvars>>

\* An administrator removes the principal's role assignments.
Revoke(pr) ==
  /\ pr \in granted
  /\ granted' = granted \ {pr}
  /\ UNCHANGED <<commands, outbox, evidence, journal, cvars, mvars>>

-----------------------------------------------------------------------------
(* transitionMutationCommand *)

MoveReturns(m, kind) ==
  /\ mpc' = [mpc EXCEPT ![m] = "done"]
  /\ mreply' = [mreply EXCEPT ![m] = kind]

Unlock(m) ==
  rowLock' = [c \in Creators |-> IF rowLock[c] = m THEN Nobody ELSE rowLock[c]]

StartMove(m) ==
  /\ mpc[m] = "idle"
  /\ \E a \in Args : margs' = [margs EXCEPT ![m] = a]
  /\ mpc' = [mpc EXCEPT ![m] = "preflight"]
  /\ UNCHANGED <<tables, cvars, mseen, mreply, rowLock>>

\* Mutant: an answer the callers do not know.
PreflightUnknownAnswer(m) ==
  /\ mpc[m] = "preflight"
  /\ IF margs[m].command \in DOMAIN commands
     THEN mpc' = [mpc EXCEPT ![m] = "fetch"] /\ UNCHANGED mreply
     ELSE MoveReturns(m, "not_found")
  /\ UNCHANGED <<tables, cvars, margs, mseen, rowLock>>

\* The read before the transaction only decides whether the command exists.
Preflight(m) ==
  /\ mpc[m] = "preflight"
  /\ IF margs[m].command \in DOMAIN commands
     THEN mpc' = [mpc EXCEPT ![m] = "fetch"] /\ UNCHANGED mreply
     ELSE MoveReturns(m, "command_not_found")
  /\ UNCHANGED <<tables, cvars, margs, mseen, rowLock>>

\* The read inside the transaction takes no lock.
Fetch(m) ==
  /\ mpc[m] = "fetch"
  /\ mseen' = [mseen EXCEPT ![m] = commands[margs[m].command].status]
  /\ mpc' = [mpc EXCEPT ![m] = "claim"]
  /\ UNCHANGED <<tables, cvars, margs, mreply, rowLock>>

\* Mutant: the trigger does not look the edge up in the legality table.
ClaimHoldsAnyEdge(m) ==
  LET row == commands[margs[m].command] IN
  /\ margs[m].expected = row.version
  /\ mseen[m] = row.status

\* w3_02_validate_transition_claim, evaluated on the locked row.
ClaimHolds(m) ==
  LET row == commands[margs[m].command] IN
  /\ margs[m].expected = row.version
  /\ mseen[m] = row.status
  /\ <<mseen[m], margs[m].next>> \in Legal

\* Mutant: the trigger reads the command without FOR UPDATE.
ClaimEdgeNoLock(m) ==
  /\ mpc[m] = "claim"
  /\ mpc' = [mpc EXCEPT ![m] = IF ClaimHolds(m) THEN "advance" ELSE "classify"]
  /\ UNCHANGED <<tables, cvars, margs, mseen, mreply, rowLock>>

\* INSERT INTO mutation_command_transitions: the trigger waits for the row
\* lock, and a claim it rejects rolls the transaction back.
ClaimEdge(m) ==
  LET c == margs[m].command IN
  /\ mpc[m] = "claim"
  /\ rowLock[c] = Nobody
  /\ IF ClaimHolds(m)
     THEN /\ rowLock' = [rowLock EXCEPT ![c] = m]
          /\ mpc' = [mpc EXCEPT ![m] = "advance"]
     ELSE /\ mpc' = [mpc EXCEPT ![m] = "classify"]
          /\ UNCHANGED rowLock
  /\ UNCHANGED <<tables, cvars, margs, mseen, mreply>>

\* UPDATE mutation_commands ... AND version = expected, checked by the
\* transition guard; a row that does not match fails the transaction.
Advance(m) ==
  LET c == margs[m].command IN
  /\ mpc[m] = "advance"
  /\ IF commands[c].version = margs[m].expected
     THEN mpc' = [mpc EXCEPT ![m] = "commit"] /\ UNCHANGED rowLock
     ELSE mpc' = [mpc EXCEPT ![m] = "classify"] /\ Unlock(m)
  /\ UNCHANGED <<tables, cvars, margs, mseen, mreply>>

\* COMMIT publishes the claim and the advanced row; its answer may be lost.
CommitMove(m) ==
  LET c == margs[m].command
      row == commands[c]
  IN
  /\ mpc[m] = "commit"
  /\ journal' = journal \cup
       {[command |-> c, from |-> mseen[m], to |-> margs[m].next,
         fromVersion |-> margs[m].expected, by |-> m]}
  /\ commands' = [commands EXCEPT ![c] =
       [row EXCEPT !.status = margs[m].next, !.version = row.version + 1]]
  /\ Unlock(m)
  /\ \/ MoveReturns(m, "ok")
     \/ MoveReturns(m, "error")
  /\ UNCHANGED <<outbox, evidence, granted, cvars, margs, mseen>>

\* Mutant: a call that finds its goal reached by another answers "ok".
ClassifyAsDone(m) ==
  LET row == commands[margs[m].command] IN
  /\ mpc[m] = "classify"
  /\ MoveReturns(m, IF row.status = margs[m].next THEN "ok"
                    ELSE IF row.version = margs[m].expected
                    THEN "illegal_transition" ELSE "stale_version")
  /\ UNCHANGED <<tables, cvars, margs, mseen, rowLock>>

\* classifyConflict: a fresh read after the rollback names the reason.
Classify(m) ==
  /\ mpc[m] = "classify"
  /\ MoveReturns(m, IF commands[margs[m].command].version = margs[m].expected
                    THEN "illegal_transition" ELSE "stale_version")
  /\ UNCHANGED <<tables, cvars, margs, mseen, rowLock>>

\* Mutant: the connection of a failed call is never rolled back.
FailMoveKeepsLock(m) ==
  /\ mpc[m] \notin {"idle", "done"}
  /\ MoveReturns(m, "error")
  /\ UNCHANGED <<tables, cvars, margs, mseen, rowLock>>

\* A statement fails or the process dies: ROLLBACK.
FailMove(m) ==
  /\ mpc[m] \notin {"idle", "done"}
  /\ Unlock(m)
  /\ MoveReturns(m, "error")
  /\ UNCHANGED <<tables, cvars, margs, mseen>>

-----------------------------------------------------------------------------
AnyRequest == CHOOSE r \in Request : TRUE
AnyArgs == CHOOSE a \in Args : TRUE

Init ==
  /\ commands = [c \in {} |-> {}]
  /\ outbox = {} /\ evidence = {} /\ journal = {}
  /\ granted = Principals
  /\ cpc = [p \in Creators |-> "idle"]
  /\ creq = [p \in Creators |-> AnyRequest]
  /\ cwrites = [p \in Creators |-> {}]
  /\ creply = [p \in Creators |-> NoReply]
  /\ mpc = [m \in Movers |-> "idle"]
  /\ margs = [m \in Movers |-> AnyArgs]
  /\ mseen = [m \in Movers |-> "created"]
  /\ mreply = [m \in Movers |-> "none"]
  /\ rowLock = [c \in Creators |-> Nobody]

\* The next statement of a call, as opposed to its failure.
CreateStep(p) ==
  \/ Lookup(p) \/ Authorize(p) \/ InsertCommand(p) \/ InsertEvent(p)
  \/ CommitCreate(p) \/ ResolveWinner(p)

MoveStep(m) ==
  \/ Preflight(m) \/ Fetch(m) \/ ClaimEdge(m) \/ Advance(m)
  \/ CommitMove(m) \/ Classify(m)

AllReturned ==
  /\ \A p \in Creators : cpc[p] = "done"
  /\ \A m \in Movers : mpc[m] = "done"
  /\ UNCHANGED vars

Next ==
  \/ \E p \in Creators : StartCreate(p) \/ CreateStep(p) \/ FailCreate(p)
  \/ \E m \in Movers : StartMove(m) \/ MoveStep(m) \/ FailMove(m)
  \/ \E pr \in Principals : Revoke(pr)
  \/ AllReturned

\* A started call keeps executing its statements (the event loop runs every
\* ready continuation); nobody is obliged to start one.
Fairness ==
  /\ \A p \in Creators : WF_vars(CreateStep(p))
  /\ \A m \in Movers : WF_vars(MoveStep(m))

Spec == Init /\ [][Next]_vars
FairSpec == Spec /\ Fairness
-----------------------------------------------------------------------------
(* Properties *)

TypeOK ==
  /\ DOMAIN commands \subseteq Creators
  /\ commands \in [DOMAIN commands -> Row]
  /\ outbox \subseteq Event /\ evidence \subseteq Decision
  /\ journal \subseteq Claim /\ granted \subseteq Principals
  /\ cpc \in [Creators -> {"idle", "lookup", "authorize", "insert", "event",
                           "commit", "resolve", "done"}]
  /\ creq \in [Creators -> Request]
  /\ cwrites \in [Creators -> SUBSET {"evidence", "command", "event"}]
  /\ creply \in [Creators ->
       [kind : {"none", "created", "replay", "conflict", "principal_mismatch",
                "denied", "error"},
        command : Creators \cup {Nobody}]]
  /\ mpc \in [Movers -> {"idle", "preflight", "fetch", "claim", "advance",
                         "commit", "classify", "done"}]
  /\ margs \in [Movers -> Args]
  /\ mseen \in [Movers -> Statuses]
  /\ mreply \in [Movers -> {"none", "ok", "command_not_found",
                            "stale_version", "illegal_transition", "error"}]
  /\ rowLock \in [Creators -> Movers \cup {Nobody}]

\* However many calls race or retry under one idempotency identity, at most
\* one command is ever stored under it (uq_mutation_commands_idempotency).
OneCommandPerIdentity ==
  \A c, d \in DOMAIN commands : commands[c].ident = commands[d].ident => c = d

\* Command, authorization evidence and initial event commit together or not
\* at all: each command has its own allowed decision for its principal and
\* exactly one created event with its hash, and there are no others
\* (the header of mutationCommandService.js).
IntentIsWhole ==
  /\ \A c \in DOMAIN commands :
       /\ [call |-> c, principal |-> commands[c].principal, verdict |-> "allow"]
            \in evidence
       /\ {e \in outbox : e.command = c} =
            {[command |-> c, hash |-> commands[c].hash]}
  /\ \A e \in outbox : e.command \in DOMAIN commands
  /\ \A d \in evidence : d.verdict = "allow" => d.call \in DOMAIN commands

\* What a caller is told agrees with the ledger: "created" and "replay" name
\* the command that carries exactly its identity, principal and hash;
\* "conflict" names one of its own principal with another hash; every other
\* answer names no command and, the lost COMMIT apart, stores none.
AnswersAgreeWithLedger ==
  \A p \in Creators :
    LET r == creply[p]  d == r.command IN
    /\ r.kind \in {"created", "replay", "conflict"} =>
         /\ d \in DOMAIN commands
         /\ commands[d].ident = creq[p].ident
         /\ commands[d].principal = creq[p].principal
         /\ (r.kind = "conflict") <=> (commands[d].hash # creq[p].hash)
    /\ r.kind = "created" => d = p
    /\ r.kind \in {"replay", "conflict", "principal_mismatch", "denied"} =>
         d # p /\ p \notin DOMAIN commands

\* The journal of a command is one unbroken chain of legal edges from
\* "created" at version 1 to the row's status and version: no version is
\* left twice, none is skipped, no claim is orphaned.
Claims(c) == {j \in journal : j.command = c}

JournalIsChain ==
  /\ \A j \in journal : j.command \in DOMAIN commands
  /\ \A c \in DOMAIN commands :
       LET v == commands[c].version IN
       /\ \A n \in 1..(v - 1) : \E j \in Claims(c) : j.fromVersion = n
       /\ v = 1 => commands[c].status = "created"
       /\ \A j \in Claims(c) :
            /\ j.fromVersion \in 1..(v - 1)
            /\ <<j.from, j.to>> \in Legal
            /\ j.fromVersion = 1 => j.from = "created"
            /\ j.fromVersion = v - 1 => j.to = commands[c].status
       /\ \A j, k \in Claims(c) :
            /\ j.fromVersion = k.fromVersion => j = k
            /\ k.fromVersion = j.fromVersion + 1 => k.from = j.to

\* A transition call answers "ok" only when its edge is in the journal, and a
\* call that was refused left nothing there: only a lost COMMIT is ambiguous.
TransitionAnswersAgree ==
  \A m \in Movers :
    LET mine == {j \in journal : j.by = m} IN
    /\ mreply[m] = "ok" =>
         \E j \in mine : /\ j.command = margs[m].command
                         /\ j.fromVersion = margs[m].expected
                         /\ j.to = margs[m].next
    /\ mine # {} => mreply[m] \in {"ok", "error"}

\* The ledger the tables implement.
Abstract == INSTANCE CommandLedger
  WITH ledger <- {commands[c] : c \in DOMAIN commands}

\* Every step of the statements above is a step of the abstract ledger or
\* none at all: registered intents never change, statuses move only along
\* legal edges, one version at a time.
ImplementsCommandLedger == Abstract!Spec

\* Every started call returns: no call waits for ever for a row lock or an
\* index entry, and a failed holder releases what it held.
CallsReturn ==
  /\ \A p \in Creators : (cpc[p] # "idle") ~> (cpc[p] = "done")
  /\ \A m \in Movers : (mpc[m] # "idle") ~> (mpc[m] = "done")
=============================================================================

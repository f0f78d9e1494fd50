---------------------------- MODULE CommandLedger ----------------------------
(***************************************************************************)
(* What the mutation-command tables promise to their readers, whatever the *)
(* number of callers: a ledger of commands in which an idempotency         *)
(* identity is registered at most once, the registered intent never        *)
(* changes, and a command moves one version at a time along a legal edge.  *)
(***************************************************************************)
EXTENDS Naturals

CONSTANTS
  Idents,       \* idempotency identities (namespace, resource, key, operation)
  Principals,
  Hashes        \* canonical request hashes

VARIABLE ledger \* the set of registered commands

Statuses ==
  {"created", "claimed", "executing", "completed", "failed", "cancelled"}

\* The rows of public.mutation_transition_legality.
Legal == { <<"created", "claimed">>,   <<"created", "cancelled">>,
           <<"claimed", "executing">>, <<"claimed", "cancelled">>,
           <<"executing", "completed">>, <<"executing", "failed">> }

Entry == [ident : Idents, principal : Principals, hash : Hashes,
          status : Statuses, version : Nat]

Init == ledger = {}

Register(i, p, h) ==
  /\ \A e \in ledger : e.ident # i
  /\ ledger' = ledger \cup
       {[ident |-> i, principal |-> p, hash |-> h,
         status |-> "created", version |-> 1]}

Move(e, s) ==
  /\ <<e.status, s>> \in Legal
  /\ ledger' = (ledger \ {e}) \cup
       {[e EXCEPT !.status = s, !.version = @ + 1]}

Next ==
  \/ \E i \in Idents, p \in Principals, h \in Hashes : Register(i, p, h)
  \/ \E e \in ledger, s \in Statuses : Move(e, s)

Spec == Init /\ [][Next]_ledger
==============================================================================

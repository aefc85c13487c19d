----------------------------- MODULE ExactlyOnce -----------------------------
(***************************************************************************)
(* What the worker promises, with no broker, no transaction and no crash:  *)
(* a published event changes the ledger at most once, in one step, by      *)
(* exactly what its handler does (FR-003, contracts/events.md).  Worker    *)
(* implements this specification.                                          *)
(***************************************************************************)
EXTENDS Ledger

CONSTANT Messages    \* what producers may publish

VARIABLES ledger,    \* what a reader of the database sees
          published  \* messages some producer has published

vars == <<ledger, published>>

Init == ledger = EmptyLedger /\ published = {}

Publish == /\ \E m \in Messages : published' = published \cup {m}
           /\ UNCHANGED ledger

Seed == /\ ~Seeded(ledger)
        /\ ledger' = SeedWorld(ledger)
        /\ UNCHANGED published

Apply(m) == /\ IsNew(ledger, m)
            /\ ~Raises(ledger, m)
            /\ ledger' = Process(ledger, m)
            /\ UNCHANGED published

Next == Publish \/ Seed \/ \E m \in published : Apply(m)

Spec == Init /\ [][Next]_vars
=============================================================================

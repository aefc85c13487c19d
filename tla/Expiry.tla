------------------------------- MODULE Expiry -------------------------------
(***************************************************************************)
(* Expiry, and crash recovery over the in-process transport, as            *)
(* tests/integration drives them: one process, one connection.  Messages   *)
(* are published to MemoryTransport and consumed by the worker's handlers; *)
(* a consumer may die before its commit or before its acknowledgement; and *)
(* expire_overdue_hypotheses (worker/settlement_runner.py) runs in between.*)
(* Nothing suspends inside a delivery or a pass, so each is one step.      *)
(***************************************************************************)
EXTENDS Ledger, MemoryTransport, FiniteSetsExt

CONSTANTS Messages,  \* what can be published, any time and more than once
          Deadline,  \* deadline_ms of each hypothesis
          Horizon    \* bound: the clock stops there

SubjectOf(m) == IF m.kind = "outcome" THEN "outcomes" ELSE "forecasts"

ASSUME ExpiryAssumption ==
  /\ Messages \subseteq AllMessages
  /\ \A m \in Messages : SubjectOf(m) \in Subjects
  /\ Horizon \in Nat
  /\ Deadline \in [HypothesisIds -> Nat]

VARIABLES
  ledger,
  now,
  source,   \* history: what was published under each message id
  received  \* history: how often each message id was received, counted
            \* to one more than it should be

vars == <<ledger, now, transport, source, received>>

Init ==
  /\ InitTransport
  /\ ledger = SeedWorld(EmptyLedger) /\ now = 0
  /\ source = <<>> /\ received = <<>>

Tick ==
  /\ now < Horizon
  /\ now' = now + 1
  /\ UNCHANGED <<ledger, transport, source, received>>

Emit(m) ==
  /\ Publish(SubjectOf(m), m)
  /\ source' = Append(source, m) /\ received' = Append(received, 0)
  /\ UNCHANGED <<ledger, now>>

-----------------------------------------------------------------------------
(***************************************************************************)
(* consume_once, one message of a subject.                                 *)
(***************************************************************************)
Foremost(s) == Head(pending[s])

Counted(s) ==
  /\ received' = [received EXCEPT ![Foremost(s).id] = Min({@ + 1, MaxRedeliveries + 2})]
  /\ UNCHANGED <<now, source>>

Applied(m) == IF IsNew(ledger, m) THEN Process(ledger, m) ELSE ledger

Fails(m) == IsNew(ledger, m) /\ Raises(ledger, m)

(* Recorded, handled, committed; acknowledged unless it dies before that.  *)
Deliver(s, acknowledged) ==
  /\ Receive(s, acknowledged)
  /\ ~Fails(Foremost(s).payload)
  /\ ledger' = Applied(Foremost(s).payload)
  /\ Counted(s)

(* The handler raises, or the consumer dies, before the commit.  A handler *)
(* raises at its first write: on a connection that lives on, as the one of *)
(* the tests does, nobody rolls the event row back, and the next commit    *)
(* keeps it.                                                               *)
AcknowledgeFirst(s) ==                                             \* mutant
  /\ Receive(s, TRUE)
  /\ Counted(s)
  /\ UNCHANGED ledger

DieBeforeCommit(s) ==
  /\ Receive(s, FALSE)
  /\ Counted(s)
  /\ \/ UNCHANGED ledger
     \/ /\ Fails(Foremost(s).payload)
        /\ ledger' = WithEvent(ledger, Foremost(s).payload)

Consume(s) ==
  \/ DieBeforeCommit(s)
  \/ \E acknowledged \in BOOLEAN : Deliver(s, acknowledged)

Redeliver(s) == SimulateCrash(s) /\ UNCHANGED <<ledger, now, source, received>>

-----------------------------------------------------------------------------
(* list_expired_hypotheses: open, and the deadline lies in the past.       *)
RepeatedlyOverdue ==                                               \* mutant
  {h \in HypothesisIds : ledger.status[h] # "absent" /\ Deadline[h] < now}
Overdue ==
  {h \in HypothesisIds : ledger.status[h] = "open" /\ Deadline[h] < now}

(* The loop body of the pass: the stakes go back, the rows stay.           *)
ForfeitStakes(before, h) ==                                        \* mutant
  [before EXCEPT
     !.status[h] = "expired",
     !.staked = [a \in AgentIds |-> @[a] - before.forecast[h][a].stake]]
ReturnStakes(before, h) ==
  LET stake(a) == before.forecast[h][a].stake
  IN [before EXCEPT
        !.status[h] = "expired",
        !.available = [a \in AgentIds |-> @[a] + stake(a)],
        !.staked = [a \in AgentIds |-> @[a] - stake(a)]]

Expire ==
  /\ Overdue # {}
  /\ ledger' = FoldSet(LAMBDA h, before : ReturnStakes(before, h), ledger, Overdue)
  /\ UNCHANGED <<now, transport, source, received>>

Next ==
  \/ Tick \/ Expire
  \/ \E m \in Messages : Emit(m)
  \/ \E s \in Subjects : Consume(s) \/ Redeliver(s)

(* A test subscribes until nothing is pending, and redelivers what a       *)
(* consumer that died has left in flight.  Consumers may all die.          *)
Spec ==
  /\ Init /\ [][Next]_vars
  /\ \A s \in Subjects : WF_vars(Consume(s)) /\ WF_vars(Redeliver(s))

-----------------------------------------------------------------------------
(***************************************************************************)
(* Expiring returns stakes in full: like a resubmission it moves credits   *)
(* between the two balances, and only a settlement changes their sum.      *)
(***************************************************************************)
CreditsAreConserved == [][Conserves(ledger, ledger')]_vars

(***************************************************************************)
(* A pass never takes back a resolution: what was settled stays settled,   *)
(* at the outcome it was settled against.                                  *)
(***************************************************************************)
ResolutionIsFinal == [][KeepsResolutions(ledger, ledger')]_vars

(***************************************************************************)
(* A message that no subject holds any more, and that was not given up,    *)
(* has been recorded: an acknowledgement never comes before the commit.    *)
(***************************************************************************)
GoneAreRecorded ==
  \A id \in DOMAIN source :
    LET s == SubjectOf(source[id])
    IN id \notin Outstanding(s) \cup GivenUp(s) => source[id].id \in ledger.events

(***************************************************************************)
(* A message is received once and redelivered max_redeliveries times, and  *)
(* not before that is it a dead letter.                                    *)
(***************************************************************************)
GivenUpInTime ==
  \A id \in DOMAIN source :
    /\ received[id] <= MaxRedeliveries + 1
    /\ id \in GivenUp(SubjectOf(source[id])) => received[id] = MaxRedeliveries + 1

(***************************************************************************)
(* No message circulates for ever, not even one whose handler always       *)
(* raises: the difference from the durable consumers of JetStream.         *)
(***************************************************************************)
NoneCirculates ==
  \A id \in 1..MaxPublished : []<>(\A s \in Subjects : id \notin Outstanding(s))

=============================================================================

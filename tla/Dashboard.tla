------------------------------ MODULE Dashboard ------------------------------
(***************************************************************************)
(* The scenario endpoints of dashboard/main.py, beside the worker process  *)
(* (worker/run_worker.py) and the simulator (simulator/run_simulator.py)   *)
(* of the same deployment.  Dashboard and worker have one database file    *)
(* and a connection each.                                                  *)
(*                                                                         *)
(* A request publishes to an in-process transport (transport/memory.py)    *)
(* and consumes what is pending there with the worker's own handlers.      *)
(* Nothing in it suspends before its last commit, so requests do not       *)
(* overlap; but it is several transactions, and the worker's may come in   *)
(* between any two.  A handler is run statement by statement, and one that *)
(* raises ends the request where it is.  Nobody rolls back, so what the    *)
(* failed transaction has written stays on the connection for the next     *)
(* commit, and so does SQLite's write lock; the rest of the batch stays    *)
(* pending; and the message that raised stays in flight for good, as only  *)
(* tests redeliver it.                                                     *)
(*                                                                         *)
(* What the worker does inside one transaction is module Worker; here one  *)
(* message of its batch is one step, as it is for the other connection.    *)
(***************************************************************************)
EXTENDS Ledger, Sequences, Functions

CONSTANTS SourceIds,   \* source_event_id of whatever is published
          World,       \* forecasts of generate_world, in order
          Injections,  \* what inject_sybils or inject_correlated may inject
          Resolutions, \* hypotheses POST /api/scenario/resolve may name
          WorkerRuns,  \* TRUE when the worker and the simulator are deployed
          BatchSize,   \* FETCH_BATCH_SIZE
          MaxRequests, \* bound: POST requests and restarts of the dashboard
          MaxSecond    \* bound: the clock stops there

(* In a template, id stands for source_event_id.                           *)
Templates ==
  [kind : {"forecast"}, id : SourceIds, hypothesis : HypothesisIds,
   agent : AgentIds, stake : Int, probability : 0..100]

ASSUME DashboardAssumption ==
  /\ World \in Seq(Templates)
  /\ Injections \subseteq [agents : SUBSET AgentIds, forecasts : Seq(Templates)]
  /\ Resolutions \subseteq HypothesisIds \cap SourceIds
  /\ SourceIds \X (0..MaxSecond) \subseteq EventIds
  /\ WorkerRuns \in BOOLEAN
  /\ BatchSize \in Nat \ {0}
  /\ MaxRequests \in Nat /\ MaxSecond \in Nat

VARIABLES
  db,        \* the committed database
  tx,        \* the database as the dashboard's connection sees it
  pending,   \* MemoryTransport: forecasts published and not yet delivered
  job,       \* transactions the request in progress still has to make
  todo,      \* statements of the message it is consuming still to be run
  worker,    \* "down", "seeding" (it found no hypotheses) or "up"
  broker,    \* JetStream: forecasts published and not acknowledged
  batch,     \* messages the worker has fetched and not yet consumed
  second,    \* the clock of compute_event_id, in seconds
  requests,
  forgotten  \* history: stakes wiped by granting an agent again

vars == <<db, tx, pending, job, todo, worker, broker, batch, second, requests,
          forgotten>>

NothingForgotten == [a \in AgentIds |-> 0]

Init ==
  /\ db = EmptyLedger /\ tx = EmptyLedger
  /\ pending = <<>> /\ job = <<>> /\ todo = <<>>
  /\ worker = "down" /\ broker = {} /\ batch = <<>>
  /\ second = 0 /\ requests = 0
  /\ forgotten = NothingForgotten

-----------------------------------------------------------------------------
(* compute_event_id: the source's own id and the second.                   *)
StampAt(m, s) == [m EXCEPT !.id = <<@, s>>]

Stamp(m) == StampAt(m, second)

Stamped(templates) == [i \in DOMAIN templates |-> Stamp(templates[i])]

(* upsert_hypothesis: ON CONFLICT (id) DO NOTHING.                         *)
Reopened(ledger) ==                                                \* mutant
  [ledger EXCEPT !.status = [h \in HypothesisIds |->
     IF h \in Hypotheses THEN "open" ELSE @[h]]]

Opened(ledger) ==
  [ledger EXCEPT !.status = [h \in HypothesisIds |->
     IF h \in Hypotheses /\ @[h] = "absent" THEN "open" ELSE @[h]]]

(* upsert_agent overwrites what an agent already has.                      *)
Granted(ledger, agents) ==
  [ledger EXCEPT
     !.agents = @ \cup agents,
     !.available = [a \in AgentIds |-> IF a \in agents THEN Grant ELSE @[a]],
     !.staked = [a \in AgentIds |-> IF a \in agents THEN 0 ELSE @[a]],
     !.reputation = [a \in AgentIds |->
                       IF a \in agents THEN StartingReputation[a] ELSE @[a]]]

Forgets(ledger, agents) ==
  [a \in AgentIds |-> forgotten[a] + IF a \in agents THEN ledger.staked[a] ELSE 0]

(* SQLite's one write lock is taken by the first statement of a message,   *)
(* and kept by a failed transaction, which is still open.                  *)
LockFree == tx = db /\ todo = <<>>

Commits(ledger) == db' = ledger /\ tx' = ledger

-----------------------------------------------------------------------------
(***************************************************************************)
(* The statements a handler runs after insert_event, in its order.  A      *)
(* message that is known already, and a resolution that is recorded        *)
(* already, have none but consume_once's commit.                           *)
(***************************************************************************)
Upsert(m) == [do |-> "upsert", message |-> m]
Adjust(a, credits) == [do |-> "adjust", agent |-> a, credits |-> credits]
Reject(m) == [do |-> "reject", message |-> m]
RecordOutcome(m) == [do |-> "outcome", message |-> m]
SettleForecasts(m) == [do |-> "settle", message |-> m]
Commit == [do |-> "commit"]

ChargedFirst(ledger, m) ==                                         \* mutant
  <<Adjust(m.agent, LockedHere(ledger, m)), Adjust(m.agent, -m.stake), Upsert(m),
    Commit>>

Acceptance(ledger, m) ==
  <<Upsert(m), Adjust(m.agent, LockedHere(ledger, m)), Adjust(m.agent, -m.stake),
    Commit>>

Statements(ledger, m) ==
  IF ~IsNew(ledger, m) THEN <<Commit>>
  ELSE IF m.kind = "outcome"
       THEN IF AlreadyResolved(ledger, m.hypothesis) THEN <<Commit>>
            ELSE <<RecordOutcome(m), SettleForecasts(m), Commit>>
       ELSE IF Accepts(ledger, m) THEN Acceptance(ledger, m)
            ELSE <<Reject(m), Commit>>

(* Foreign keys are checked as a statement is run.                         *)
Fails(ledger, s) ==
  \/ /\ s.do = "upsert"
     /\ \/ ledger.status[s.message.hypothesis] = "absent"
        \/ <<s.message.hypothesis, s.message.agent>> \in ledger.settled
  \/ s.do = "outcome" /\ ledger.status[s.message.hypothesis] = "absent"

(* adjust_agent_credits moves credits between an agent's two balances.     *)
Written(ledger, s) ==
  CASE s.do = "upsert" ->
         [ledger EXCEPT !.forecast[s.message.hypothesis][s.message.agent] =
            [stake |-> s.message.stake,
             probability |-> ClampProbability(s.message.probability)]]
    [] s.do = "adjust" ->
         [ledger EXCEPT !.available[s.agent] = @ + s.credits,
                        !.staked[s.agent] = @ - s.credits]
    [] s.do = "reject" -> RejectForecast(ledger, s.message)
    [] s.do = "outcome" ->
         [ledger EXCEPT !.outcome[s.message.hypothesis] = s.message.outcome]
    [] s.do = "settle" ->
         SettleHypothesis(ledger, s.message.hypothesis, s.message.outcome)
    [] OTHER -> ledger

-----------------------------------------------------------------------------
(***************************************************************************)
(* A request: what it publishes at its start, and the transactions it is   *)
(* about to make.                                                          *)
(***************************************************************************)
Request ==
  /\ job = <<>> /\ todo = <<>> /\ requests < MaxRequests
  /\ requests' = requests + 1
  /\ UNCHANGED <<db, tx, todo, worker, broker, batch, second, forgotten>>

Grants(agents) == [do |-> "grant", agents |-> agents]
Consumes == [do |-> "consume"]

(* POST /api/scenario/run_normal: reset_tenant, then the scenario.         *)
RunNormal ==
  /\ Request
  /\ job' = <<[do |-> "reset"], [do |-> "open"], Grants(Agents), Consumes>>
  /\ pending' = pending \o Stamped(World)

(* POST /api/scenario/inject_sybils and inject_correlated.                 *)
Inject(injection) ==
  /\ Request
  /\ job' = <<Grants(injection.agents), Consumes>>
  /\ pending' = pending \o Stamped(injection.forecasts)

(* POST /api/scenario/resolve: its one message is the only one pending on  *)
(* outcomes.resolved.                                                      *)
Resolve(h, o) ==
  LET m == Stamp([kind |-> "outcome", id |-> h, hypothesis |-> h, outcome |-> o])
  IN /\ Request
     /\ job' = <<[do |-> "settle", message |-> m]>>
     /\ UNCHANGED pending

-----------------------------------------------------------------------------
(***************************************************************************)
(* The transactions of a request.                                          *)
(***************************************************************************)
Doing(what) == todo = <<>> /\ job # <<>> /\ Head(job).do = what

Elsewhere == UNCHANGED <<worker, broker, batch, second, requests>>

ResetTenant ==
  /\ Doing("reset")
  /\ Commits(EmptyLedger)
  /\ job' = Tail(job)
  /\ forgotten' = NothingForgotten
  /\ UNCHANGED <<pending, todo>> /\ Elsewhere

OpenHypotheses ==
  /\ Doing("open")
  /\ Commits(Opened(tx))
  /\ job' = Tail(job)
  /\ UNCHANGED <<pending, todo, forgotten>> /\ Elsewhere

IngestAgents ==
  /\ Doing("grant")
  /\ Commits(Granted(tx, Head(job).agents))
  /\ forgotten' = Forgets(tx, Head(job).agents)
  /\ job' = Tail(job)
  /\ UNCHANGED <<pending, todo>> /\ Elsewhere

(* consume_once takes a message: insert_event, and the handler's reads.    *)
Consume(m) ==
  /\ tx' = WithEvent(tx, m)
  /\ todo' = Statements(tx, m)
  /\ UNCHANGED <<db, forgotten>> /\ Elsewhere

IngestForecast ==
  /\ Doing("consume") /\ pending # <<>>
  /\ Consume(Head(pending))
  /\ pending' = Tail(pending)
  /\ UNCHANGED job

Settle ==
  /\ Doing("settle")
  /\ Consume(Head(job).message)
  /\ job' = Tail(job)
  /\ UNCHANGED pending

(* The next statement is run, is the commit, or raises and takes the rest  *)
(* of the request with it.                                                 *)
RunStatement ==
  LET s == Head(todo) IN
  /\ todo # <<>>
  /\ \/ /\ ~Fails(tx, s)
        /\ tx' = Written(tx, s)
        /\ db' = IF s.do = "commit" THEN tx ELSE db
        /\ todo' = Tail(todo)
        /\ UNCHANGED job
     \/ /\ Fails(tx, s)
        /\ todo' = <<>> /\ job' = <<>>
        /\ UNCHANGED <<db, tx>>
  /\ UNCHANGED <<pending, forgotten>> /\ Elsewhere

(* The queue is drained: the request ranks, broadcasts and answers.        *)
Answer ==
  /\ Doing("consume") /\ pending = <<>>
  /\ job' = Tail(job)
  /\ UNCHANGED <<db, tx, pending, todo, forgotten>> /\ Elsewhere

Work ==
  \/ ResetTenant \/ OpenHypotheses \/ IngestAgents
  \/ IngestForecast \/ Settle \/ RunStatement \/ Answer

(* The dashboard process ends and is started again.                        *)
Restart ==
  /\ requests < MaxRequests
  /\ requests' = requests + 1
  /\ tx' = db
  /\ pending' = <<>> /\ job' = <<>> /\ todo' = <<>>
  /\ UNCHANGED <<db, worker, broker, batch, second, forgotten>>

-----------------------------------------------------------------------------
(***************************************************************************)
(* The other processes.                                                    *)
(***************************************************************************)
Here == UNCHANGED <<pending, job, todo, second, requests>>

(* The simulator starts, and publishes the forecasts of the same world.    *)
SimulatorMessages ==
  {StampAt(World[i], s) : i \in DOMAIN World, s \in 0..MaxSecond}

Simulate ==
  /\ WorkerRuns
  /\ broker' = broker \cup {Stamp(World[i]) : i \in DOMAIN World}
  /\ UNCHANGED <<db, tx, worker, batch, forgotten>> /\ Here

(* _seed_world looks for hypotheses, and a reader waits for no lock ...    *)
WorkerStart ==
  /\ WorkerRuns /\ worker = "down"
  /\ worker' = IF Seeded(db) THEN "up" ELSE "seeding"
  /\ UNCHANGED <<db, tx, broker, batch, forgotten>> /\ Here

(* ... and, having found none, writes the scenario in one transaction.     *)
WorkerSeed ==
  /\ worker = "seeding" /\ LockFree
  /\ Commits(Granted(Opened(db), Agents))
  /\ forgotten' = Forgets(db, Agents)
  /\ worker' = "up"
  /\ UNCHANGED <<broker, batch>> /\ Here

(* One bounded fetch, whose messages are consumed in the order they come.  *)
WorkerFetch(fetched) ==
  /\ worker = "up" /\ batch = <<>>
  /\ batch' = fetched
  /\ UNCHANGED <<db, tx, worker, broker, forgotten>> /\ Here

Batches(messages) ==
  {fetched \in UNION {[1..n -> messages] : n \in 1..BatchSize} :
     IsInjective(fetched)}

(* consume_once in the worker.  The acknowledgement may be lost.           *)
Consuming == worker = "up" /\ LockFree /\ batch # <<>>

IgnoreDuplicates(m, acknowledged) ==                               \* mutant
  /\ Consuming /\ m = Head(batch)
  /\ IsNew(db, m) => ~Raises(db, m)
  /\ Commits(IF IsNew(db, m) THEN Process(db, m) ELSE db)
  /\ batch' = Tail(batch)
  /\ broker' = IF acknowledged /\ IsNew(db, m) THEN broker \ {m} ELSE broker
  /\ UNCHANGED <<worker, forgotten>> /\ Here

WorkerConsume(m, acknowledged) ==
  /\ Consuming /\ m = Head(batch)
  /\ IsNew(db, m) => ~Raises(db, m)
  /\ Commits(IF IsNew(db, m) THEN Process(db, m) ELSE db)
  /\ batch' = Tail(batch)
  /\ broker' = IF acknowledged THEN broker \ {m} ELSE broker
  /\ UNCHANGED <<worker, forgotten>> /\ Here

(* The process ends: SQLite rolls back what it had written, and what is    *)
(* left of its batch is delivered again some time.                         *)
WorkerEnds ==
  /\ worker' = "down" /\ batch' = <<>>
  /\ UNCHANGED <<db, tx, broker, forgotten>> /\ Here

Raising == Consuming /\ IsNew(db, Head(batch)) /\ Raises(db, Head(batch))

WorkerRaises == Raising /\ WorkerEnds

(* It is killed, or gives up waiting for the lock (_retrying).             *)
WorkerKilled == worker # "down" /\ WorkerEnds

Tick ==
  /\ second < MaxSecond
  /\ second' = second + 1
  /\ UNCHANGED <<db, tx, pending, job, todo, worker, broker, batch, requests,
                 forgotten>>

Next ==
  \/ RunNormal
  \/ \E injection \in Injections : Inject(injection)
  \/ \E h \in Resolutions, o \in {0, 1} : Resolve(h, o)
  \/ Work \/ Restart
  \/ Simulate \/ WorkerStart \/ WorkerSeed
  \/ \E fetched \in Batches(broker) : WorkerFetch(fetched)
  \/ \E m \in broker, acknowledged \in BOOLEAN : WorkerConsume(m, acknowledged)
  \/ WorkerRaises \/ WorkerKilled
  \/ Tick

(* A request runs on; a worker that is down is started again (restart:     *)
(* unless-stopped), and one whose handler raised does end.  What has not   *)
(* been acknowledged is delivered again and again: the stream is read in   *)
(* its order, and there is no limit on redeliveries.  And when the worker  *)
(* comes to a message of a batch, it is not killed, nor is the             *)
(* acknowledgement lost, each time it comes that far.  Which messages come *)
(* first in a batch, and whether they raise, is nobody's promise.          *)
Delivers(m) ==
  \E fetched \in Batches(broker) : m \in Range(fetched) /\ WorkerFetch(fetched)

Fairness ==
  /\ WF_vars(Work)
  /\ WF_vars(WorkerStart) /\ SF_vars(WorkerSeed)
  /\ WF_vars(WorkerRaises)
  /\ \A m \in SimulatorMessages : SF_vars(Delivers(m))
  /\ \A left \in Batches(SimulatorMessages) :
       SF_vars(batch = left /\ WorkerConsume(Head(left), TRUE))

Spec == Init /\ [][Next]_vars /\ Fairness

-----------------------------------------------------------------------------
(***************************************************************************)
(* A request that fails in a handler leaves event rows on the connection,  *)
(* and nothing that costs anybody anything, so that the next commit makes  *)
(* no half effect permanent: in handle_forecast_created and in             *)
(* settle_hypothesis, the statement that can fail comes before those that  *)
(* move credits.                                                           *)
(***************************************************************************)
FailuresMoveNoCredits ==
  todo = <<>> => tx = [db EXCEPT !.events = tx.events]

(***************************************************************************)
(* Granting an agent again is the only thing that puts the staked column   *)
(* and the live forecasts at odds, and by exactly what it wiped: whichever *)
(* process applies a forecast, and whatever scenario it was meant for.     *)
(***************************************************************************)
BackedButForGrants ==
  \A a \in AgentIds :
    db.staked[a] + forgotten[a] = Cardinality(LockedCredits(db, a))

(***************************************************************************)
(* Settlements can be recomputed from what they were made from, whatever   *)
(* was injected again, and whatever failed, in between.                    *)
(***************************************************************************)
SettlementsReplay == Replayable(db)

(***************************************************************************)
(* Only a reset takes a resolution back; a second click on resolve, in the *)
(* same second or later, for the same outcome or the other, does not, nor  *)
(* does a worker that seeds late.                                          *)
(***************************************************************************)
OnlyResetsUndo == [][ResetTenant \/ KeepsResolutions(db, db')]_vars

(***************************************************************************)
(* A delivery comes to an end beside the dashboard's requests, and beside  *)
(* the other messages of its batch, whether or not a reset took its events *)
(* away: unless a failed request keeps the write lock for good, or, again  *)
(* and again, the handler raises for it or for one before it in its batch, *)
(* and ends the worker.                                                    *)
(***************************************************************************)
DeliveriesEnd ==
  \A m \in SimulatorMessages :
    \/ []<>(m \notin broker)
    \/ <>[]~LockFree
    \/ []<>(Raising /\ m \in Range(batch))

(***************************************************************************)
(* "available_credits >= 0 and staked_credits >= 0 at all times."          *)
(***************************************************************************)
CreditsNonNegative == NonNegative(db)
=============================================================================

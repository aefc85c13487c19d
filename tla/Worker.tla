------------------------------- MODULE Worker -------------------------------
(***************************************************************************)
(* The market worker: worker/run_worker.py polling three subjects through  *)
(* durable JetStream pull consumers (transport/jetstream.py), consume_once *)
(* (worker/main.py) recording each event and its effect in one SQLite      *)
(* transaction and acknowledging only after the commit, the ranking pass   *)
(* at the end of an iteration, and a process that may die at any point and *)
(* is restarted (docker-compose.yml, restart: unless-stopped).             *)
(*                                                                         *)
(* The broker redelivers what has not been acknowledged, after a wait the  *)
(* worker does not control; an acknowledgement may be lost.                *)
(***************************************************************************)
EXTENDS Ledger, Sequences

CONSTANTS Messages,     \* what the producers may publish
          MaxPublished, \* bound: length of the stream
          MaxCrashes,   \* bound: crashes from outside, in one behaviour
          BatchSize     \* FETCH_BATCH_SIZE

ASSUME WorkerAssumption ==
  /\ Messages \subseteq AllMessages
  /\ MaxPublished \in Nat
  /\ MaxCrashes \in Nat
  /\ BatchSize \in Nat \ {0}

VARIABLES
  stream,    \* the JetStream stream: every message ever published, in order
  acked,     \* sequence numbers the broker holds an acknowledgement of
  inflight,  \* delivered, not acknowledged, acknowledgement wait running
  db,        \* the committed database
  tx,        \* the database as the worker's connection sees it
  pc,        \* where the worker is
  subject,   \* position in the round-robin of run()
  batch,     \* messages of the current fetch still to be consumed
  current,   \* the one being consumed, 0 when none
  dirty,     \* applied or resolved something in this iteration
  queue,     \* ranking inputs the last attention decisions were made from
  crashes

brokerVars == <<stream, acked, inflight>>
loopVars == <<subject, batch, dirty>>
vars == <<stream, acked, inflight, db, tx, pc, subject, batch, current, dirty,
          queue, crashes>>

Subjects == <<"signal", "forecast", "outcome">>

Locations == {"down", "fetch", "insert", "handle", "commit", "ack", "rank"}

(***************************************************************************)
(* What run_ranking_pass reads: the open hypotheses, their live forecasts  *)
(* and the agents' reputations.                                            *)
(***************************************************************************)
RankingInputs(ledger) ==
  LET open == {h \in HypothesisIds : ledger.status[h] = "open"}
  IN [forecast |-> [h \in open |-> ledger.forecast[h]],
      reputation |-> ledger.reputation]

Init ==
  /\ stream = <<>> /\ acked = {} /\ inflight = {}
  /\ db = EmptyLedger /\ tx = EmptyLedger
  /\ pc = "down" /\ subject = 1 /\ batch = {} /\ current = 0
  /\ dirty = FALSE
  /\ queue = RankingInputs(EmptyLedger)
  /\ crashes = 0

-----------------------------------------------------------------------------
(***************************************************************************)
(* Producers and broker.                                                   *)
(***************************************************************************)
Publish(m) ==
  /\ Len(stream) < MaxPublished
  /\ stream' = Append(stream, m)
  /\ UNCHANGED <<acked, inflight, db, tx, pc, loopVars, current, queue, crashes>>

Deliverable ==
  {s \in DOMAIN stream : /\ stream[s].kind = Subjects[subject]
                         /\ s \notin acked \cup inflight}

(* ACK_WAIT_SECONDS passed: the broker will deliver the message again,     *)
(* whether its consumer died or is merely slow.                            *)
AckWaitOver(s) ==
  /\ s \in inflight
  /\ inflight' = inflight \ {s}
  /\ UNCHANGED <<stream, acked, db, tx, pc, loopVars, current, queue, crashes>>

-----------------------------------------------------------------------------
(***************************************************************************)
(* The worker process.                                                     *)
(***************************************************************************)
(* run(): open the database, seed it if it is empty, connect.              *)
Start ==
  /\ pc = "down"
  /\ db' = SeedWorld(db)
  /\ tx' = db'
  /\ pc' = "fetch"
  /\ subject' = 1
  /\ dirty' = FALSE
  /\ UNCHANGED <<brokerVars, batch, current, queue, crashes>>

AutoAckFetch ==                                                    \* mutant
  /\ pc = "fetch"
  /\ \E fetched \in SUBSET Deliverable :
       /\ fetched # {}
       /\ Cardinality(fetched) <= BatchSize
       /\ batch' = fetched
       /\ acked' = acked \cup fetched
  /\ pc' = "insert"
  /\ UNCHANGED <<stream, inflight, db, tx, subject, current, dirty, queue, crashes>>

(* One bounded fetch; what it returns is in flight.                        *)
Fetch ==
  /\ pc = "fetch"
  /\ \E fetched \in SUBSET Deliverable :
       /\ fetched # {}
       /\ Cardinality(fetched) <= BatchSize
       /\ batch' = fetched
       /\ inflight' = inflight \cup fetched
  /\ pc' = "insert"
  /\ UNCHANGED <<stream, acked, db, tx, subject, current, dirty, queue, crashes>>

(* After the last message of a batch: the next subject, or the ranking.    *)
SkipLastSubject ==                                                 \* mutant
  IF subject + 1 < Len(Subjects)
  THEN subject' = subject + 1 /\ pc' = "fetch"
  ELSE subject' = subject /\ pc' = "rank"

OverrunSubjects ==                                                 \* mutant
  IF subject <= Len(Subjects)
  THEN subject' = subject + 1 /\ pc' = "fetch"
  ELSE subject' = subject /\ pc' = "rank"

NextSubject ==
  IF subject < Len(Subjects)
  THEN subject' = subject + 1 /\ pc' = "fetch"
  ELSE subject' = subject /\ pc' = "rank"

(* TimeoutError: nothing to deliver on this subject.                       *)
FetchTimeout ==
  /\ pc = "fetch"
  /\ Deliverable = {}
  /\ NextSubject
  /\ UNCHANGED <<brokerVars, db, tx, batch, current, dirty, queue, crashes>>

(* insert_event opens the transaction; a duplicate skips the handler.      *)
UncheckedInsertEvent ==                                            \* mutant
  /\ pc = "insert"
  /\ \E s \in batch :
       /\ \A t \in batch : s <= t
       /\ current' = s
       /\ tx' = WithEvent(tx, stream[s])
  /\ pc' = "handle"
  /\ UNCHANGED <<brokerVars, db, loopVars, queue, crashes>>

DropDuplicates ==                                                  \* mutant
  /\ pc = "insert"
  /\ \E s \in batch :
       /\ \A t \in batch : s <= t
       /\ \/ /\ IsNew(tx, stream[s])
             /\ tx' = WithEvent(tx, stream[s])
             /\ current' = s
             /\ pc' = "handle"
             /\ UNCHANGED <<batch, subject>>
          \/ /\ ~IsNew(tx, stream[s])
             /\ batch' = batch \ {s}
             /\ IF batch' = {} THEN NextSubject
                               ELSE pc' = pc /\ UNCHANGED subject
             /\ UNCHANGED <<tx, current>>
  /\ UNCHANGED <<brokerVars, db, dirty, queue, crashes>>

InsertEvent ==
  /\ pc = "insert"
  /\ \E s \in batch :
       /\ \A t \in batch : s <= t
       /\ current' = s
       /\ \/ /\ IsNew(tx, stream[s])
             /\ tx' = WithEvent(tx, stream[s])
             /\ pc' = "handle"
          \/ /\ ~IsNew(tx, stream[s])
             /\ tx' = tx
             /\ pc' = "commit"
  /\ UNCHANGED <<brokerVars, db, loopVars, queue, crashes>>

(* The handler returns.  settle_hypothesis commits by itself when it       *)
(* settles; nothing else of a handler is committed before consume_once     *)
(* commits.  A signal counts as neither applied nor resolved.              *)
SettlesNow(ledger, m) ==
  m.kind = "outcome" /\ ~AlreadyResolved(ledger, m.hypothesis)

ForgetsResolved ==                                                 \* mutant
  LET m == stream[current] IN
  /\ pc = "handle"
  /\ ~Raises(tx, m)
  /\ tx' = Handle(tx, m)
  /\ db' = IF SettlesNow(tx, m) THEN Handle(tx, m) ELSE db
  /\ dirty' = (dirty \/ m.kind = "forecast")
  /\ pc' = "commit"
  /\ UNCHANGED <<brokerVars, subject, batch, current, queue, crashes>>

RunHandler ==
  LET m == stream[current] IN
  /\ pc = "handle"
  /\ ~Raises(tx, m)
  /\ tx' = Handle(tx, m)
  /\ db' = IF SettlesNow(tx, m) THEN Handle(tx, m) ELSE db
  /\ dirty' = (dirty \/ m.kind # "signal")
  /\ pc' = "commit"
  /\ UNCHANGED <<brokerVars, subject, batch, current, queue, crashes>>

(* The process is gone: its connection rolls back, its batch is forgotten. *)
Stop ==
  /\ pc' = "down"
  /\ tx' = db
  /\ subject' = 1
  /\ batch' = {}
  /\ current' = 0
  /\ dirty' = FALSE
  /\ UNCHANGED <<brokerVars, db, queue>>

(* An IntegrityError leaves the loop and closes the repository.            *)
HandlerRaises ==
  /\ pc = "handle"
  /\ Raises(tx, stream[current])
  /\ Stop
  /\ UNCHANGED crashes

Crash ==
  /\ pc # "down"
  /\ crashes < MaxCrashes
  /\ crashes' = crashes + 1
  /\ Stop

Commit ==
  /\ pc = "commit"
  /\ db' = tx
  /\ pc' = "ack"
  /\ UNCHANGED <<brokerVars, tx, loopVars, current, queue, crashes>>

(* Once the broker has the acknowledgement, or it got lost, consume_once   *)
(* goes on with the batch.                                                 *)
Consumed ==
  /\ pc = "ack"
  /\ batch' = batch \ {current}
  /\ current' = 0
  /\ IF batch' = {} THEN NextSubject
                    ELSE pc' = "insert" /\ UNCHANGED subject
  /\ UNCHANGED <<stream, db, tx, dirty, queue, crashes>>

Ack ==
  /\ Consumed
  /\ acked' = acked \cup {current}
  /\ inflight' = inflight \ {current}

AckLost == Consumed /\ UNCHANGED <<acked, inflight>>

(* if applied or resolved: run_ranking_pass over the committed state, in a *)
(* transaction of its own, then publish.                                   *)
RankingPass ==
  /\ pc = "rank"
  /\ queue' = IF dirty THEN RankingInputs(db) ELSE queue
  /\ dirty' = FALSE
  /\ subject' = 1
  /\ pc' = "fetch"
  /\ UNCHANGED <<brokerVars, db, tx, batch, current, crashes>>

-----------------------------------------------------------------------------
WorkerStep ==
  \/ Start \/ Fetch \/ FetchTimeout \/ InsertEvent \/ RunHandler
  \/ HandlerRaises \/ Commit \/ Ack \/ RankingPass

Next ==
  \/ \E m \in Messages : Publish(m)
  \/ \E s \in inflight : AckWaitOver(s)
  \/ WorkerStep
  \/ AckLost
  \/ Crash

Spec == Init /\ [][Next]_vars

(***************************************************************************)
(* A running worker keeps going and a stopped one is restarted (restart:   *)
(* unless-stopped); the broker keeps redelivering; and acknowledgements do *)
(* not get lost for ever.  Nothing makes a producer publish.               *)
(***************************************************************************)
Fairness ==
  /\ WF_vars(WorkerStep)
  /\ SF_vars(Ack)
  /\ \A s \in 1..MaxPublished : WF_vars(AckWaitOver(s))

FairSpec == Spec /\ Fairness

-----------------------------------------------------------------------------
TypeOK ==
  /\ stream \in Seq(Messages) /\ Len(stream) <= MaxPublished
  /\ acked \subseteq DOMAIN stream /\ inflight \subseteq DOMAIN stream
  /\ db \in Ledgers /\ tx \in Ledgers
  /\ pc \in Locations /\ subject \in DOMAIN Subjects
  /\ batch \subseteq DOMAIN stream
  /\ current \in {0} \cup DOMAIN stream
  /\ dirty \in BOOLEAN /\ crashes \in 0..MaxCrashes

(***************************************************************************)
(* Nothing is lost: the broker never holds an acknowledgement of an event  *)
(* that a crash could still undo (contracts/events.md, "acknowledge only   *)
(* after the commit").                                                     *)
(***************************************************************************)
AckedAreRecorded == \A s \in acked : stream[s].id \in db.events

(***************************************************************************)
(* An agent's staked balance is exactly what its unsettled live forecasts  *)
(* lock, whatever was redelivered, resubmitted, settled or rolled back.    *)
(***************************************************************************)
StakesAreBacked == Backed(db)

(***************************************************************************)
(* No agent can stake or lose credits it does not have (data-model.md,     *)
(* available_credits >= 0 and staked_credits >= 0 at all times).           *)
(***************************************************************************)
NoOverdraft == NonNegative(db)

(***************************************************************************)
(* A settlements row can be recomputed from the rows it was made from: the *)
(* forecast it references is still the one that was scored, and the        *)
(* outcome is still the one it was scored against.                         *)
(***************************************************************************)
SettlementsReplay == Replayable(db)

(***************************************************************************)
(* A hypothesis resolves once.  From then on neither its outcome, nor its  *)
(* status, nor a settled forecast on it changes.                           *)
(***************************************************************************)
ResolutionIsFinal == [][KeepsResolutions(db, db')]_vars

(***************************************************************************)
(* available + staked changes only by the delta of a settlements row       *)
(* inserted in the same transaction, once per row (data-model.md), or by   *)
(* the grant when the scenario is seeded.                                  *)
(***************************************************************************)
CreditsAreConserved == [][Conserves(db, db')]_vars

(***************************************************************************)
(* Reputation moves only when a forecast is settled, and never against the *)
(* credits of that settlement (FR-027, SC-008).                            *)
(***************************************************************************)
ReputationIsEarned == [][EarnsReputation(db, db')]_vars

(***************************************************************************)
(* The worker implements the abstract market: crashes, redeliveries, lost  *)
(* acknowledgements and duplicate publications change nothing a reader of  *)
(* the database could tell from each event being applied at most once.     *)
(***************************************************************************)
Published == {stream[s] : s \in DOMAIN stream}

Market == INSTANCE ExactlyOnce WITH ledger <- db, published <- Published

ImplementsExactlyOnce == Market!Spec

(***************************************************************************)
(* Every published event is eventually recorded, and every delivery        *)
(* eventually acknowledged (FR-004, SC-005: zero lost signals).            *)
(***************************************************************************)
EveryEventRecorded ==
  \A m \in Messages : m \in Published ~> m.id \in db.events

EveryMessageAcked ==
  \A s \in 1..MaxPublished : s \in DOMAIN stream ~> s \in acked

(***************************************************************************)
(* "Given a worker restart during an open hypothesis, when processing      *)
(* resumes, then aggregated probabilities ... match the values that a      *)
(* single uninterrupted run would have produced": the decisions keep       *)
(* coming back to what the ledger says, once anybody has staked.           *)
(***************************************************************************)
QueueIsCurrent ==
  \/ queue = RankingInputs(db)
  \/ RankingInputs(db) = RankingInputs(SeedWorld(EmptyLedger))

QueueCatchesUp == []<>QueueIsCurrent

(***************************************************************************)
(* As long as nothing kills the worker, that is what happens: no event is  *)
(* applied without a ranking pass to follow (run(), if applied or          *)
(* resolved).                                                              *)
(***************************************************************************)
QueueKeepsUp == []<>(crashes > 0 \/ QueueIsCurrent)

(***************************************************************************)
(* Credits are locked against open hypotheses only (data-model.md): once   *)
(* resolved, a hypothesis locks nothing.                                   *)
(***************************************************************************)
ResolvedLocksNothing ==
  \A h \in HypothesisIds, a \in AgentIds :
    db.status[h] = "resolved" => LockedOn(db, h, a) = 0
=============================================================================

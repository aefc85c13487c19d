---------------------------- MODULE WorkerProofs ----------------------------
(***************************************************************************)
(* The worker keeps its promises for every set of messages, agents and     *)
(* hypotheses, any batch size and any number of crashes.                   *)
(*                                                                         *)
(* The argument: TxInv says what an open transaction can hold, so the      *)
(* committed database only ever changes by a seed or by the whole effect   *)
(* of one event (DatabaseStep); what each of these keeps is proved, ledger *)
(* by ledger, in LedgerProofs.                                             *)
(***************************************************************************)
EXTENDS Worker, LedgerProofs

(***************************************************************************)
(* What the worker's connection sees: the committed database, except in a  *)
(* transaction, where the event row precedes the handler and the handler   *)
(* precedes the commit.                                                    *)
(***************************************************************************)
Consuming == stream[current]

TxInv ==
  /\ pc \notin {"handle", "commit"} => tx = db
  /\ pc \in {"handle", "commit", "ack"} => current \in DOMAIN stream
  /\ pc = "handle" => IsNew(db, Consuming) /\ tx = WithEvent(db, Consuming)
  /\ pc = "commit" =>
       /\ Consuming.id \in tx.events
       /\ \/ tx = db
          \/ /\ IsNew(db, Consuming) /\ ~Raises(db, Consuming)
             /\ tx = Process(db, Consuming)
  /\ pc = "ack" => Consuming.id \in db.events

Inv ==
  /\ TypeOK
  /\ TxInv
  /\ LedgerInv(db)
  /\ AckedAreRecorded

-----------------------------------------------------------------------------
LEMMA NextSubjectType ==
  ASSUME subject \in DOMAIN Subjects, NextSubject
  PROVE  subject' \in DOMAIN Subjects /\ pc' \in {"fetch", "rank"}
BY DEF NextSubject, Subjects

LEMMA StreamMessages ==
  ASSUME TypeOK, NEW s \in DOMAIN stream
  PROVE  stream[s] \in Messages /\ stream[s] \in AllMessages /\ stream[s].id \in EventIds
<1>1. stream[s] \in Messages
  BY DEF TypeOK
<1>2. stream[s] \in AllMessages
  BY <1>1, WorkerAssumption
<1> QED
  BY <1>1, <1>2 DEF AllMessages, SignalMessages, ForecastMessages, OutcomeMessages

LEMMA AppendKeeps ==
  ASSUME TypeOK, NEW m \in Messages, stream' = Append(stream, m)
  PROVE  /\ stream' \in Seq(Messages) /\ Len(stream') = Len(stream) + 1
         /\ DOMAIN stream \subseteq DOMAIN stream'
         /\ \A s \in DOMAIN stream : stream'[s] = stream[s]
         /\ stream'[Len(stream) + 1] = m
         /\ DOMAIN stream' = DOMAIN stream \cup {Len(stream) + 1}
BY DEF TypeOK

(***************************************************************************)
(* Every variable keeps its type.                                          *)
(***************************************************************************)
LEMMA InitType == Init => TypeOK
<1> SUFFICES ASSUME Init PROVE TypeOK
  OBVIOUS
<1>1. stream \in Seq(Messages) /\ Len(stream) <= MaxPublished
  BY WorkerAssumption DEF Init
<1>2. db \in Ledgers /\ tx \in Ledgers
  BY EmptyLedgerType DEF Init
<1>3. pc \in Locations /\ subject \in DOMAIN Subjects
  BY DEF Init, Locations, Subjects
<1>4. crashes \in 0..MaxCrashes
  BY WorkerAssumption DEF Init
<1>5. dirty \in BOOLEAN
  BY Zenon DEF Init
<1> QED BY <1>1, <1>2, <1>3, <1>4, <1>5 DEF Init, TypeOK

LEMMA TypeStep ==
  ASSUME TypeOK, TxInv, [Next]_vars
  PROVE  TypeOK'
<1> USE DEF brokerVars, loopVars
<1>1. ASSUME NEW m \in Messages, Publish(m) PROVE TypeOK'
  <2>1. Len(stream') <= MaxPublished
    BY <1>1, AppendKeeps, WorkerAssumption DEF Publish, TypeOK
  <2> QED BY <1>1, <2>1, AppendKeeps DEF Publish, TypeOK
<1>2. ASSUME NEW s \in inflight, AckWaitOver(s) PROVE TypeOK'
  BY <1>2 DEF AckWaitOver, TypeOK
<1>3. CASE Start
  <2>1. db' \in Ledgers /\ tx' \in Ledgers
    BY <1>3, SeedWorldType DEF Start, TypeOK
  <2>2. dirty' \in BOOLEAN
    BY <1>3, Zenon DEF Start
  <2>3. pc' \in Locations /\ subject' \in DOMAIN Subjects
    BY <1>3 DEF Start, Subjects, Locations
  <2> QED BY <1>3, <2>1, <2>2, <2>3 DEF Start, TypeOK
<1>4. CASE Fetch
  BY <1>4 DEF Fetch, Deliverable, TypeOK, Locations
<1>5. CASE FetchTimeout
  BY <1>5, NextSubjectType DEF FetchTimeout, TypeOK, Locations
<1>6. CASE InsertEvent
  <2>1. PICK s \in batch : InsertEvent /\ current' = s
                           /\ (tx' = WithEvent(tx, stream[s]) \/ tx' = tx)
                           /\ pc' \in {"handle", "commit"}
    BY <1>6 DEF InsertEvent
  <2>2. s \in DOMAIN stream
    BY DEF TypeOK
  <2>3. tx' \in Ledgers
    BY <2>1, <2>2, StreamMessages, WithEventType DEF TypeOK
  <2> QED BY <1>6, <2>1, <2>2, <2>3 DEF InsertEvent, TypeOK, Locations
<1>7. CASE RunHandler
  <2>1. stream[current] \in AllMessages
    BY <1>7, StreamMessages DEF RunHandler, TxInv
  <2>2. Handle(tx, stream[current]) \in Ledgers
    BY <2>1, HandleType DEF TypeOK
  <2>3. db' \in Ledgers /\ tx' \in Ledgers
    BY <1>7, <2>2 DEF RunHandler, TypeOK
  <2>4. pc' \in Locations /\ dirty' \in BOOLEAN
    BY <1>7 DEF RunHandler, Locations, TypeOK
  <2> QED BY <1>7, <2>3, <2>4 DEF RunHandler, TypeOK
<1>8. ASSUME Stop, crashes' \in 0..MaxCrashes PROVE TypeOK'
  <2>1. dirty' \in BOOLEAN
    BY <1>8, Zenon DEF Stop
  <2>2. pc' \in Locations /\ subject' \in DOMAIN Subjects
    BY <1>8 DEF Stop, Subjects, Locations
  <2> QED BY <1>8, <2>1, <2>2 DEF Stop, TypeOK
<1>9. CASE HandlerRaises
  BY <1>8, <1>9 DEF HandlerRaises, TypeOK
<1>10. CASE Crash
  <2>1. crashes' \in 0..MaxCrashes
    BY <1>10, WorkerAssumption DEF Crash, TypeOK
  <2> QED BY <1>8, <1>10, <2>1 DEF Crash
<1>11. CASE Commit
  BY <1>11 DEF Commit, TypeOK, Locations
<1>12. ASSUME Consumed,
              acked' \subseteq acked \cup {current}, inflight' \subseteq inflight
       PROVE  TypeOK'
  <2>1. pc' \in Locations /\ subject' \in DOMAIN Subjects
    BY <1>12, NextSubjectType DEF Consumed, TypeOK, Locations
  <2>2. current \in DOMAIN stream
    BY <1>12 DEF Consumed, TxInv
  <2> QED BY <1>12, <2>1, <2>2 DEF Consumed, TypeOK
<1>13. CASE Ack
  BY <1>12, <1>13 DEF Ack
<1>14. CASE AckLost
  BY <1>12, <1>14 DEF AckLost
<1>15. CASE RankingPass
  <2>1. dirty' \in BOOLEAN
    BY <1>15, Zenon DEF RankingPass
  <2>2. pc' \in Locations /\ subject' \in DOMAIN Subjects
    BY <1>15 DEF RankingPass, Subjects, Locations
  <2> QED BY <1>15, <2>1, <2>2 DEF RankingPass, TypeOK
<1>16. CASE UNCHANGED vars
  BY <1>16 DEF vars, TypeOK
<1> QED
  BY <1>1, <1>2, <1>3, <1>4, <1>5, <1>6, <1>7, <1>9, <1>10, <1>11, <1>13, <1>14,
     <1>15, <1>16 DEF Next, WorkerStep

-----------------------------------------------------------------------------
(***************************************************************************)
(* What the handler leaves in the transaction is the whole effect of the   *)
(* event.                                                                  *)
(***************************************************************************)
LEMMA HandlerEffect ==
  ASSUME TypeOK, TxInv, RunHandler
  PROVE  /\ IsNew(db, Consuming) /\ ~Raises(db, Consuming)
         /\ tx' = Process(db, Consuming)
         /\ Consuming.id \in tx'.events
         /\ db' = db \/ db' = tx'
         /\ pc' = "commit"
         /\ stream' = stream /\ current' = current /\ acked' = acked
<1>1. /\ current \in DOMAIN stream /\ IsNew(db, Consuming)
      /\ tx = WithEvent(db, Consuming)
  BY DEF RunHandler, TxInv
<1>2. Consuming \in AllMessages /\ db \in Ledgers /\ tx \in Ledgers
  BY <1>1, StreamMessages DEF Consuming, TypeOK
<1>3. /\ ~Raises(tx, Consuming) /\ tx' = Handle(tx, Consuming)
      /\ db' = db \/ db' = Handle(tx, Consuming)
  BY DEF RunHandler, Consuming
<1>4. ~Raises(db, Consuming)
  BY <1>1, <1>2, <1>3, WithEventSameBooks, SameBooksRaise
<1>5. tx' = Process(db, Consuming)
  BY <1>1, <1>3 DEF Process
<1>6. tx'.events = db.events \cup {Consuming.id}
  BY <1>1, <1>2, <1>3, HandleEvents, WithEventEvents
<1> QED BY <1>1, <1>3, <1>4, <1>5, <1>6 DEF RunHandler, brokerVars

LEMMA TxStep ==
  ASSUME TypeOK, TxInv, [Next]_vars
  PROVE  TxInv'
<1> USE DEF brokerVars, loopVars
<1>1. ASSUME NEW m \in Messages, Publish(m) PROVE TxInv'
  <2>1. pc' = pc /\ tx' = tx /\ db' = db /\ current' = current
    BY <1>1 DEF Publish
  <2>2. current \in DOMAIN stream => /\ current' \in DOMAIN stream'
                                    /\ Consuming' = Consuming
    BY <1>1, <2>1, AppendKeeps DEF Publish, Consuming
  <2> QED BY <2>1, <2>2 DEF TxInv
<1>2. ASSUME NEW s \in inflight, AckWaitOver(s) PROVE TxInv'
  BY <1>2 DEF AckWaitOver, TxInv, Consuming
<1>3. CASE Start
  BY <1>3 DEF Start, TxInv
<1>4. CASE Fetch
  BY <1>4 DEF Fetch, TxInv
<1>5. CASE FetchTimeout
  BY <1>5 DEF FetchTimeout, NextSubject, TxInv
<1>6. CASE InsertEvent
  <2>1. tx = db
    BY <1>6 DEF InsertEvent, TxInv
  <2>2. PICK s \in batch :
          /\ current' = s
          /\ \/ IsNew(tx, stream[s]) /\ tx' = WithEvent(tx, stream[s]) /\ pc' = "handle"
             \/ ~IsNew(tx, stream[s]) /\ tx' = tx /\ pc' = "commit"
    BY <1>6 DEF InsertEvent
  <2>3. s \in DOMAIN stream /\ stream' = stream /\ db' = db
    BY <1>6 DEF InsertEvent, TypeOK
  <2>4. Consuming' = stream[s]
    BY <2>2, <2>3 DEF Consuming
  <2> QED BY <2>1, <2>2, <2>3, <2>4 DEF TxInv, IsNew
<1>7. CASE RunHandler
  <2>1. /\ IsNew(db, Consuming) /\ ~Raises(db, Consuming)
        /\ tx' = Process(db, Consuming) /\ Consuming.id \in tx'.events
        /\ db' = db \/ db' = tx'
        /\ pc' = "commit" /\ stream' = stream /\ current' = current
    BY <1>7, HandlerEffect
  <2>2. current \in DOMAIN stream
    BY <1>7 DEF RunHandler, TxInv
  <2>3. Consuming' = Consuming
    BY <2>1 DEF Consuming
  <2> QED BY <2>1, <2>2, <2>3 DEF TxInv
<1>8. ASSUME Stop PROVE TxInv'
  BY <1>8 DEF Stop, TxInv
<1>9. CASE HandlerRaises
  BY <1>8, <1>9 DEF HandlerRaises
<1>10. CASE Crash
  BY <1>8, <1>10 DEF Crash
<1>11. CASE Commit
  BY <1>11 DEF Commit, TxInv, Consuming
<1>12. ASSUME Consumed PROVE TxInv'
  <2>1. tx = db /\ tx' = tx /\ db' = db
    BY <1>12 DEF Consumed, TxInv
  <2>2. pc' \in {"insert", "fetch", "rank"}
    BY <1>12 DEF Consumed, NextSubject
  <2> QED BY <2>1, <2>2 DEF TxInv
<1>13. CASE Ack
  BY <1>12, <1>13 DEF Ack
<1>14. CASE AckLost
  BY <1>12, <1>14 DEF AckLost
<1>15. CASE RankingPass
  BY <1>15 DEF RankingPass, TxInv
<1>16. CASE UNCHANGED vars
  BY <1>16 DEF vars, TxInv, Consuming
<1> QED
  BY <1>1, <1>2, <1>3, <1>4, <1>5, <1>6, <1>7, <1>9, <1>10, <1>11, <1>13, <1>14,
     <1>15, <1>16 DEF Next, WorkerStep

(***************************************************************************)
(* The committed database changes by nothing, by the seed, or by the whole *)
(* transaction of one published event it did not have.                     *)
(***************************************************************************)
Applied(s) == /\ IsNew(db, stream[s]) /\ ~Raises(db, stream[s])
              /\ db' = Process(db, stream[s])

LEMMA DatabaseStep ==
  ASSUME TypeOK, TxInv, [Next]_vars
  PROVE  \/ db' = db
         \/ db' = SeedWorld(db) /\ stream' = stream /\ acked' = acked
         \/ /\ \E s \in DOMAIN stream : Applied(s)
            /\ stream' = stream /\ acked' = acked
<1> USE DEF brokerVars
<1>1. CASE \E m \in Messages : Publish(m)
  BY <1>1 DEF Publish
<1>2. CASE \E s \in inflight : AckWaitOver(s)
  BY <1>2 DEF AckWaitOver
<1>3. CASE Start
  BY <1>3 DEF Start
<1>4. CASE RunHandler
  <2>1. current \in DOMAIN stream
    BY <1>4 DEF RunHandler, TxInv
  <2> QED BY <1>4, <2>1, HandlerEffect DEF Applied, Consuming
<1>5. CASE Commit
  <2>1. current \in DOMAIN stream /\ db' = tx /\ stream' = stream /\ acked' = acked
    BY <1>5 DEF Commit, TxInv
  <2>2. \/ tx = db
        \/ /\ IsNew(db, Consuming) /\ ~Raises(db, Consuming)
           /\ tx = Process(db, Consuming)
    BY <1>5 DEF Commit, TxInv
  <2> QED BY <2>1, <2>2 DEF Applied, Consuming
<1>6. CASE Fetch \/ FetchTimeout \/ InsertEvent \/ RankingPass
  BY <1>6 DEF Fetch, FetchTimeout, InsertEvent, RankingPass
<1>7. CASE HandlerRaises \/ Crash
  BY <1>7 DEF HandlerRaises, Crash, Stop
<1>8. CASE Ack \/ AckLost
  BY <1>8 DEF Ack, AckLost, Consumed
<1>9. CASE UNCHANGED vars
  BY <1>9 DEF vars
<1> QED
  BY <1>1, <1>2, <1>3, <1>4, <1>5, <1>6, <1>7, <1>8, <1>9 DEF Next, WorkerStep

(***************************************************************************)
(* So whatever the seed and every transaction keep, the worker keeps.      *)
(***************************************************************************)
LEMMA LedgerStep ==
  ASSUME TypeOK, TxInv, LedgerInv(db), [Next]_vars
  PROVE  /\ LedgerInv(db')
         /\ KeepsResolutions(db, db') /\ Conserves(db, db') /\ EarnsReputation(db, db')
         /\ db.events \subseteq db'.events
<1>1. db \in Ledgers
  BY DEF TypeOK
<1>2. CASE db' = db
  <2>1. SameBooks(db, db')
    BY <1>1, <1>2 DEF SameBooks
  <2> QED BY <1>2, <2>1, SameBooksKeep DEF LedgerInv
<1>3. CASE db' = SeedWorld(db)
  BY <1>1, <1>3, SeedKeeps, SeedWorldEvents
<1>4. CASE \E s \in DOMAIN stream : Applied(s)
  <2>1. PICK s \in DOMAIN stream : Applied(s)
    BY <1>4
  <2>2. stream[s] \in AllMessages
    BY StreamMessages
  <2>3. WithEvent(db, stream[s]) \in Ledgers
    BY <1>1, <2>2, WithEventType
  <2>4. db'.events = db.events \cup {stream[s].id}
    BY <1>1, <2>1, <2>2, <2>3, HandleEvents, WithEventEvents DEF Applied, Process
  <2> QED BY <2>1, <2>2, <2>4, ProcessKeeps DEF Applied
<1> QED BY <1>2, <1>3, <1>4, DatabaseStep

(***************************************************************************)
(* An acknowledgement is only sent in "ack", after the commit.             *)
(***************************************************************************)
LEMMA AckStep ==
  ASSUME TypeOK, TxInv, LedgerInv(db), AckedAreRecorded, [Next]_vars
  PROVE  AckedAreRecorded'
<1> USE DEF brokerVars, loopVars
<1>1. db.events \subseteq db'.events
  BY LedgerStep
<1>2. ASSUME NEW m \in Messages, Publish(m) PROVE AckedAreRecorded'
  <2>1. acked \subseteq DOMAIN stream /\ acked' = acked
    BY <1>2 DEF Publish, TypeOK
  <2>2. \A s \in DOMAIN stream : stream'[s] = stream[s]
    BY <1>2, AppendKeeps DEF Publish
  <2> QED BY <1>1, <2>1, <2>2 DEF AckedAreRecorded
<1>3. CASE Ack
  BY <1>1, <1>3 DEF Ack, Consumed, TxInv, Consuming, AckedAreRecorded
<1>4. CASE stream' = stream /\ acked' = acked
  BY <1>1, <1>4 DEF AckedAreRecorded
<1>5. ASSUME [Next]_vars, ~Ack, \A m \in Messages : ~Publish(m)
      PROVE  stream' = stream /\ acked' = acked
  BY <1>5 DEF Next, WorkerStep, AckWaitOver, Start, Fetch, FetchTimeout, InsertEvent,
              RunHandler, HandlerRaises, Crash, Stop, Commit, AckLost, Consumed,
              RankingPass, vars
<1> QED BY <1>2, <1>3, <1>4, <1>5

-----------------------------------------------------------------------------
LEMMA InitInv == Init => Inv
<1> SUFFICES ASSUME Init PROVE Inv
  OBVIOUS
<1>1. TypeOK
  BY InitType
<1>2. TxInv
  BY DEF Init, TxInv
<1>3. LedgerInv(db)
  BY EmptyLedgerInv DEF Init
<1>4. AckedAreRecorded
  BY DEF Init, AckedAreRecorded
<1> QED BY <1>1, <1>2, <1>3, <1>4 DEF Inv

LEMMA InvStep == Inv /\ [Next]_vars => Inv'
<1> SUFFICES ASSUME Inv, [Next]_vars PROVE Inv'
  OBVIOUS
<1>1. TypeOK'
  BY TypeStep DEF Inv
<1>2. TxInv'
  BY TxStep DEF Inv
<1>3. LedgerInv(db)'
  BY LedgerStep DEF Inv
<1>4. AckedAreRecorded'
  BY AckStep DEF Inv
<1> QED BY <1>1, <1>2, <1>3, <1>4 DEF Inv

(***************************************************************************)
(* The inductive invariant: types, what an open transaction holds, and the *)
(* invariant of the committed ledger.                                      *)
(***************************************************************************)
THEOREM Invariance == Spec => []Inv
BY InitInv, InvStep, PTL DEF Spec

(***************************************************************************)
(* Every variable keeps its type; the two databases keep the schema's.     *)
(***************************************************************************)
THEOREM TypeCorrect == Spec => []TypeOK
<1>1. Inv => TypeOK
  BY DEF Inv
<1> QED BY <1>1, Invariance, PTL

(***************************************************************************)
(* No acknowledged event is lost, whatever crashes after it: consume_once  *)
(* acknowledges after the commit only.                                     *)
(***************************************************************************)
THEOREM NothingAckedIsLost == Spec => []AckedAreRecorded
<1>1. Inv => AckedAreRecorded
  BY DEF Inv
<1> QED BY <1>1, Invariance, PTL

(***************************************************************************)
(* Staked balances are exactly the stakes of unsettled live forecasts.     *)
(***************************************************************************)
THEOREM EveryStakeIsBacked == Spec => []StakesAreBacked
<1>1. Inv => StakesAreBacked
  BY LedgerInvHas DEF Inv, StakesAreBacked
<1> QED BY <1>1, Invariance, PTL

(***************************************************************************)
(* No balance of any agent is ever negative in the committed database.     *)
(***************************************************************************)
THEOREM NobodyOverdraws == Spec => []NoOverdraft
<1>1. Inv => NoOverdraft
  BY BackedAndSolvent DEF Inv, NoOverdraft
<1> QED BY <1>1, Invariance, PTL

(***************************************************************************)
(* Every settlements row follows from the rows it references.              *)
(***************************************************************************)
THEOREM EverySettlementReplays == Spec => []SettlementsReplay
<1>1. Inv => SettlementsReplay
  BY LedgerInvHas DEF Inv, SettlementsReplay
<1> QED BY <1>1, Invariance, PTL

(***************************************************************************)
(* A resolved hypothesis keeps its outcome, its status and its settled     *)
(* forecasts: the first recorded outcome wins.                             *)
(***************************************************************************)
THEOREM OutcomesAreFinal == Spec => ResolutionIsFinal
<1>1. Inv /\ [Next]_vars => [KeepsResolutions(db, db')]_vars
  BY LedgerStep DEF Inv
<1> QED BY <1>1, Invariance, PTL DEF Spec, ResolutionIsFinal

(***************************************************************************)
(* Credits appear and disappear by settlement deltas and the one grant.    *)
(***************************************************************************)
THEOREM CreditsOnlyMove == Spec => CreditsAreConserved
<1>1. Inv /\ [Next]_vars => [Conserves(db, db')]_vars
  BY LedgerStep DEF Inv
<1> QED BY <1>1, Invariance, PTL DEF Spec, CreditsAreConserved

(***************************************************************************)
(* Reputation moves by settlements only, and with their credits.           *)
(***************************************************************************)
THEOREM ReputationFollowsCredits == Spec => ReputationIsEarned
<1>1. Inv /\ [Next]_vars => [EarnsReputation(db, db')]_vars
  BY LedgerStep DEF Inv
<1> QED BY <1>1, Invariance, PTL DEF Spec, ReputationIsEarned

-----------------------------------------------------------------------------
(***************************************************************************)
(* The worker implements ExactlyOnce, where the ledger is the committed    *)
(* database and the published messages are those of the stream: every step *)
(* publishes, seeds, applies one event, or changes nothing.                *)
(***************************************************************************)
LEMMA SameLedgerOperators ==
  ASSUME NEW ledger, NEW m
  PROVE  /\ Market!EmptyLedger = EmptyLedger
         /\ Market!Seeded(ledger) = Seeded(ledger)
         /\ Market!SeedWorld(ledger) = SeedWorld(ledger)
         /\ Market!IsNew(ledger, m) = IsNew(ledger, m)
         /\ Market!Raises(ledger, m) = Raises(ledger, m)
         /\ Market!Process(ledger, m) = Process(ledger, m)
<1>1. Market!EmptyLedger = EmptyLedger
  BY DEF Market!EmptyLedger, EmptyLedger, Market!NoForecast, NoForecast,
         Market!NoOutcome, NoOutcome
<1>2. Market!Seeded(ledger) = Seeded(ledger)
  BY DEF Market!Seeded, Seeded
<1>3. Market!SeedWorld(ledger) = SeedWorld(ledger)
  BY <1>2 DEF Market!SeedWorld, SeedWorld
<1>4. Market!IsNew(ledger, m) = IsNew(ledger, m)
  BY DEF Market!IsNew, IsNew
<1> USE DEF Market!Accepts, Accepts, Market!LockedHere, LockedHere
<1>5. Market!Raises(ledger, m) = Raises(ledger, m)
  BY DEF Market!Raises, Raises
<1>6. Market!Process(ledger, m) = Process(ledger, m)
  BY DEF Market!Process, Process, Market!WithEvent, WithEvent, Market!Handle, Handle,
         Market!HandleForecast, HandleForecast, Market!AcceptForecast, AcceptForecast,
         Market!RejectForecast, RejectForecast, Market!HandleOutcome, HandleOutcome,
         Market!AlreadyResolved, AlreadyResolved, Market!NoOutcome, NoOutcome,
         Market!SettleHypothesis, SettleHypothesis, Market!Due, Due,
         Market!SettlementOf, SettlementOf, Market!CreditDelta, CreditDelta,
         Market!Improvement, Improvement, Market!BrierScore, BrierScore,
         Market!RoundHalfEven, RoundHalfEven, Market!Scale, Scale,
         Market!UpdateReputation, UpdateReputation, Market!RepFloor, RepFloor,
         Market!RepCeil, RepCeil, Market!ClampProbability, ClampProbability,
         Market!ProbFloor, ProbFloor, Market!ProbCeil, ProbCeil, Market!Clamp, Clamp
<1> QED BY <1>1, <1>2, <1>3, <1>4, <1>5, <1>6

LEMMA RefinesInit == Init => Market!Init
<1> SUFFICES ASSUME Init PROVE Market!Init
  OBVIOUS
<1>1. Published = {}
  BY DEF Init, Published
<1> QED BY <1>1, SameLedgerOperators DEF Init, Market!Init

LEMMA RefinesStep ==
  ASSUME TypeOK, TxInv, [Next]_vars
  PROVE  [Market!Next]_(Market!vars)
<1>1. ASSUME NEW m \in Messages, Publish(m) PROVE Market!Next
  <2>1. Published' = Published \cup {m}
    <3>1. /\ DOMAIN stream' = DOMAIN stream \cup {Len(stream) + 1}
          /\ \A s \in DOMAIN stream : stream'[s] = stream[s]
          /\ stream'[Len(stream) + 1] = m
      BY <1>1, AppendKeeps DEF Publish
    <3> QED BY <3>1 DEF Published
  <2>2. db' = db
    BY <1>1 DEF Publish
  <2> QED BY <2>1, <2>2 DEF Market!Next, Market!Publish
<1>2. ASSUME stream' = stream PROVE Published' = Published
  BY <1>2 DEF Published
<1>3. ASSUME \A m \in Messages : ~Publish(m) PROVE stream' = stream
  BY <1>3 DEF Next, WorkerStep, AckWaitOver, Start, Fetch, FetchTimeout, InsertEvent,
              RunHandler, HandlerRaises, Crash, Stop, Commit, Ack, AckLost, Consumed,
              RankingPass, vars, brokerVars
<1>4. CASE db' = db /\ stream' = stream
  BY <1>2, <1>4 DEF Market!vars
<1>5. CASE db' = SeedWorld(db) /\ stream' = stream
  <2>1. CASE Seeded(db)
    <3>1. db' = db
      BY <1>5, <2>1 DEF SeedWorld
    <3> QED BY <1>4, <1>5, <3>1
  <2>2. CASE ~Seeded(db)
    BY <1>2, <1>5, <2>2, SameLedgerOperators DEF Market!Next, Market!Seed
  <2> QED BY <2>1, <2>2
<1>6. CASE (\E s \in DOMAIN stream : Applied(s)) /\ stream' = stream
  <2>1. PICK s \in DOMAIN stream : Applied(s)
    BY <1>6
  <2>2. stream[s] \in Published
    BY DEF Published
  <2>3. Market!Apply(stream[s])
    BY <1>2, <1>6, <2>1, SameLedgerOperators DEF Applied, Market!Apply
  <2> QED BY <2>2, <2>3 DEF Market!Next
<1> QED BY <1>1, <1>3, <1>4, <1>5, <1>6, DatabaseStep

THEOREM WorkerImplementsExactlyOnce == Spec => ImplementsExactlyOnce
<1>1. Inv /\ [Next]_vars => [Market!Next]_(Market!vars)
  BY RefinesStep DEF Inv
<1> QED
  BY <1>1, RefinesInit, Invariance, PTL DEF Spec, ImplementsExactlyOnce, Market!Spec
=============================================================================

--------------------------- MODULE DashboardProofs ---------------------------
(***************************************************************************)
(* What the scenario endpoints and the worker keep between them, for every *)
(* scenario, every set of injections and any number of requests, restarts, *)
(* deaths and redeliveries.                                                *)
(*                                                                         *)
(* The argument: in the middle of a message, the dashboard's connection    *)
(* holds what the statements run so far make of the committed books        *)
(* (Midway), and the last of them makes the whole effect; a statement that *)
(* raises is the first of its handler to write, so a failed transaction    *)
(* leaves nothing but event rows; and each transaction, of whichever       *)
(* process, keeps the books up to what granting an agent again has wiped.  *)
(***************************************************************************)
EXTENDS Dashboard, LedgerProofs

Jobs ==
  [do : {"reset", "open", "consume"}]
    \cup [do : {"grant"}, agents : SUBSET AgentIds]
    \cup [do : {"settle"}, message : OutcomeMessages]

ControlOK ==
  /\ tx.events \subseteq EventIds
  /\ pending \in Seq(ForecastMessages)
  /\ job \in Seq(Jobs)
  /\ broker \subseteq ForecastMessages
  /\ second \in 0..MaxSecond

(* What is committed, with the events of the open transaction.             *)
Base == [db EXCEPT !.events = tx.events]

(***************************************************************************)
(* How far the open transaction has come.                                  *)
(***************************************************************************)
Idle == todo = <<>> /\ tx = Base

ForecastStage(m) ==
  /\ m \in ForecastMessages /\ Accepts(Base, m)
  /\ \/ todo = Acceptance(Base, m) /\ tx = Base
     \/ /\ ~Raises(Base, m)
        /\ todo = <<Adjust(m.agent, LockedHere(Base, m)),
                     Adjust(m.agent, -m.stake), Commit>>
        /\ tx = Written(Base, Upsert(m))
     \/ /\ ~Raises(Base, m)
        /\ todo = <<Adjust(m.agent, -m.stake), Commit>>
        /\ tx = Written(Written(Base, Upsert(m)),
                        Adjust(m.agent, LockedHere(Base, m)))

RejectStage(m) ==
  /\ m \in ForecastMessages /\ ~Accepts(Base, m)
  /\ todo = <<Reject(m), Commit>> /\ tx = Base

OutcomeStage(m) ==
  /\ m \in OutcomeMessages /\ ~AlreadyResolved(Base, m.hypothesis)
  /\ \/ todo = <<RecordOutcome(m), SettleForecasts(m), Commit>> /\ tx = Base
     \/ /\ ~Raises(Base, m)
        /\ todo = <<SettleForecasts(m), Commit>>
        /\ tx = Written(Base, RecordOutcome(m))

CommitStage ==
  /\ todo = <<Commit>>
  /\ \/ tx = Base
     \/ \E m \in AllMessages : ~Raises(Base, m) /\ tx = Handle(Base, m)

Midway ==
  \/ Idle \/ CommitStage
  \/ \E m \in AllMessages : ForecastStage(m) \/ RejectStage(m) \/ OutcomeStage(m)

Inv ==
  /\ ControlOK
  /\ BooksInv(db, forgotten)
  /\ Midway

-----------------------------------------------------------------------------
(***************************************************************************)
(* Opening a scenario, granting, and the empty database.                   *)
(***************************************************************************)
LEMMA OpenedKeeps ==
  ASSUME NEW ledger, NEW missing, BooksInv(ledger, missing)
  PROVE  /\ BooksInv(Opened(ledger), missing)
         /\ KeepsResolutions(ledger, Opened(ledger))
<1> DEFINE after == Opened(ledger)
           status == [h \in HypothesisIds |->
                        IF h \in Hypotheses /\ ledger.status[h] = "absent"
                        THEN "open" ELSE ledger.status[h]]
<1>1. ledger \in Ledgers
  BY DEF BooksInv
<1>2. after = [ledger EXCEPT !.status = status]
  BY DEF Opened
<1>3. status \in [HypothesisIds -> Statuses]
  BY <1>1 DEF Ledgers, Statuses
<1>4. \A h \in HypothesisIds : ledger.status[h] # "absent" => status[h] = ledger.status[h]
  OBVIOUS
<1> HIDE DEF after, status
<1>5. /\ after \in Ledgers /\ after.status = status
      /\ after.agents = ledger.agents /\ after.available = ledger.available
      /\ after.staked = ledger.staked /\ after.reputation = ledger.reputation
      /\ after.forecast = ledger.forecast /\ after.outcome = ledger.outcome
      /\ after.settled = ledger.settled /\ after.delta = ledger.delta
  BY <1>1, <1>2, <1>3 DEF Ledgers
<1>6. BackedBut(after, missing)
  <2>1. \A a \in AgentIds : LockedCredits(after, a) = LockedCredits(ledger, a)
    BY <1>5 DEF LockedCredits, LockedOn
  <2> QED BY <1>5, <2>1 DEF BooksInv, BackedBut
<1>7. Solvent(after) /\ ReputationsInRange(after)
  BY <1>5 DEF BooksInv, Solvent, ReputationsInRange
<1>8. Replayable(after) /\ OutcomesResolve(after)
  BY <1>4, <1>5 DEF BooksInv, Replayable, OutcomesResolve
<1>9. KeepsResolutions(ledger, after)
  BY <1>4, <1>5 DEF BooksInv, OutcomesResolve, KeepsResolutions
<1> QED BY <1>5, <1>6, <1>7, <1>8, <1>9 DEF BooksInv, after

LEMMA GrantedKeeps ==
  ASSUME NEW ledger, NEW missing, BooksInv(ledger, missing),
         NEW agents \in SUBSET AgentIds
  PROVE  /\ BooksInv(Granted(ledger, agents),
                     [a \in AgentIds |->
                        missing[a] + IF a \in agents THEN ledger.staked[a] ELSE 0])
         /\ KeepsResolutions(ledger, Granted(ledger, agents))
<1> DEFINE after == Granted(ledger, agents)
           more == [a \in AgentIds |->
                      missing[a] + IF a \in agents THEN ledger.staked[a] ELSE 0]
           available == [a \in AgentIds |->
                           IF a \in agents THEN Grant ELSE ledger.available[a]]
           staked == [a \in AgentIds |-> IF a \in agents THEN 0 ELSE ledger.staked[a]]
           reputation == [a \in AgentIds |->
                            IF a \in agents THEN StartingReputation[a]
                                            ELSE ledger.reputation[a]]
<1>1. ledger \in Ledgers /\ missing \in [AgentIds -> Int]
  BY DEF BooksInv
<1>2. after = [ledger EXCEPT !.agents = ledger.agents \cup agents,
                             !.available = available, !.staked = staked,
                             !.reputation = reputation]
  BY Zenon DEF Granted
<1>3. RepFloor..RepCeil \subseteq Int
  OBVIOUS
<1>4. /\ available \in [AgentIds -> Int] /\ staked \in [AgentIds -> Int]
      /\ reputation \in [AgentIds -> Int] /\ ledger.agents \cup agents \subseteq AgentIds
      /\ more \in [AgentIds -> Int]
  BY <1>1, <1>3, LedgerAssumption DEF Ledgers
<1>5. \A a \in AgentIds : staked[a] + more[a] = ledger.staked[a] + missing[a]
  BY <1>1 DEF Ledgers
<1>6. /\ \A a \in AgentIds : available[a] = IF a \in agents THEN Grant
                                            ELSE ledger.available[a]
      /\ \A a \in AgentIds : reputation[a] = IF a \in agents THEN StartingReputation[a]
                                             ELSE ledger.reputation[a]
  OBVIOUS
<1> HIDE DEF after, more, available, staked, reputation
<1>7. /\ after \in Ledgers
      /\ after.agents = ledger.agents \cup agents /\ after.available = available
      /\ after.staked = staked /\ after.reputation = reputation
      /\ after.status = ledger.status
      /\ after.forecast = ledger.forecast /\ after.outcome = ledger.outcome
      /\ after.settled = ledger.settled /\ after.delta = ledger.delta
  BY <1>1, <1>2, <1>4 DEF Ledgers
<1>8. BackedBut(after, more)
  <2>1. \A a \in AgentIds : LockedCredits(after, a) = LockedCredits(ledger, a)
    BY <1>7 DEF LockedCredits, LockedOn
  <2> QED BY <1>5, <1>7, <2>1 DEF BooksInv, BackedBut
<1>9. Solvent(after)
  BY <1>6, <1>7, LedgerAssumption DEF BooksInv, Solvent
<1>10. ReputationsInRange(after)
  <2> SUFFICES ASSUME NEW a \in after.agents
               PROVE  after.reputation[a] \in RepFloor..RepCeil
    BY DEF ReputationsInRange
  <2>1. a \in AgentIds
    BY <1>4, <1>7
  <2>2. CASE a \in agents
    BY <1>6, <1>7, <2>1, <2>2, LedgerAssumption
  <2>3. CASE a \notin agents
    BY <1>6, <1>7, <2>1, <2>3 DEF BooksInv, ReputationsInRange
  <2> QED BY <2>2, <2>3
<1>11. Replayable(after) /\ OutcomesResolve(after)
  BY <1>7 DEF BooksInv, Replayable, OutcomesResolve
<1>12. KeepsResolutions(ledger, after)
  BY <1>7 DEF KeepsResolutions
<1> QED BY <1>4, <1>7, <1>8, <1>9, <1>10, <1>11, <1>12 DEF BooksInv, after, more

LEMMA EmptyBooks == BooksInv(EmptyLedger, NothingForgotten)
BY EmptyLedgerInv DEF LedgerInv, NothingForgotten, NothingMissing

-----------------------------------------------------------------------------
(***************************************************************************)
(* The open transaction: other events, the same books.                     *)
(***************************************************************************)
LEMMA BaseBooks ==
  ASSUME Inv
  PROVE  /\ db \in Ledgers /\ Base \in Ledgers /\ SameBooks(db, Base)
         /\ BooksInv(Base, forgotten)
         /\ Base.events = tx.events /\ Base.rejected = db.rejected
<1>1. db \in Ledgers /\ tx.events \subseteq EventIds
  BY DEF Inv, BooksInv, ControlOK
<1>2. /\ Base \in Ledgers /\ SameBooks(db, Base)
      /\ Base.events = tx.events /\ Base.rejected = db.rejected
  BY <1>1 DEF Base, Ledgers, SameBooks
<1> QED BY <1>1, <1>2, SameBooksKeep DEF Inv

(* A commit leaves no transaction open.                                    *)
LEMMA CommitLeavesNothingOpen ==
  ASSUME NEW ledger \in Ledgers, Commits(ledger), todo' = <<>>
  PROVE  Midway' /\ tx'.events \subseteq EventIds
<1>1. tx' = [db' EXCEPT !.events = tx'.events] /\ tx'.events \subseteq EventIds
  BY DEF Commits, Ledgers
<1> QED BY <1>1 DEF Midway, Idle, Base

(* What keeps the books from what the connection saw keeps them from what  *)
(* was committed.                                                          *)
LEMMA ResolutionsSeen ==
  ASSUME Inv, NEW after \in Ledgers, KeepsResolutions(Base, after)
  PROVE  KeepsResolutions(db, after)
BY BaseBooks, SameBooksChange

LEMMA NothingTodo ==
  ASSUME Inv, todo = <<>>
  PROVE  tx = Base
<1>1. \A m \in AllMessages : ~(ForecastStage(m) \/ RejectStage(m) \/ OutcomeStage(m))
  BY DEF ForecastStage, RejectStage, OutcomeStage, Acceptance
<1> QED BY <1>1 DEF Inv, Midway, Idle, CommitStage

LEMMA StampedMessages ==
  ASSUME NEW m \in Templates, NEW s \in 0..MaxSecond
  PROVE  StampAt(m, s) \in ForecastMessages
BY DashboardAssumption DEF StampAt, Templates, ForecastMessages

LEMMA StampedBatches ==
  ASSUME NEW templates \in Seq(Templates), second \in 0..MaxSecond
  PROVE  Stamped(templates) \in Seq(ForecastMessages)
BY StampedMessages DEF Stamped, Stamp

-----------------------------------------------------------------------------
(***************************************************************************)
(* What a step does to the databases.  Every step but a reset leaves the   *)
(* books in order and every resolution in place; a reset leaves none.      *)
(***************************************************************************)
Keeps ==
  /\ BooksInv(db, forgotten)'
  /\ tx'.events \subseteq EventIds
  /\ Midway'
  /\ ResetTenant \/ KeepsResolutions(db, db')

LEMMA NothingCommittedKeeps ==
  ASSUME Inv, UNCHANGED <<db, forgotten>>, tx'.events \subseteq EventIds, Midway'
  PROVE  Keeps
<1>1. SameBooks(db, db)
  BY BaseBooks DEF SameBooks
<1>2. KeepsResolutions(db, db)
  BY <1>1, SameBooksKeep DEF Inv
<1> QED BY <1>2 DEF Inv, Keeps

LEMMA NothingKeeps ==
  ASSUME Inv, UNCHANGED <<db, tx, todo, forgotten>>
  PROVE  Keeps
<1>1. Midway' /\ tx'.events \subseteq EventIds
  BY DEF Inv, ControlOK, Midway, Idle, CommitStage, ForecastStage, RejectStage,
         OutcomeStage, Base
<1> QED BY <1>1, NothingCommittedKeeps

LEMMA CommitKeeps ==
  ASSUME Inv, NEW after, Commits(after), BooksInv(after, forgotten'), todo' = <<>>,
         ResetTenant \/ KeepsResolutions(db, after)
  PROVE  Keeps
<1>1. after \in Ledgers
  BY DEF BooksInv
<1> QED BY <1>1, CommitLeavesNothingOpen DEF Commits, Keeps

-----------------------------------------------------------------------------
(***************************************************************************)
(* A message, from insert_event to the commit.                             *)
(***************************************************************************)
LEMMA ConsumeKeeps ==
  ASSUME Inv, NEW m \in ForecastMessages \cup OutcomeMessages, todo = <<>>, Consume(m)
  PROVE  Keeps
<1>1. db \in Ledgers /\ Base \in Ledgers /\ tx = Base
  BY BaseBooks, NothingTodo
<1>2. m \in AllMessages
  BY DEF AllMessages
<1>3. tx' = WithEvent(tx, m) /\ tx' \in Ledgers /\ UNCHANGED <<db, forgotten>>
  BY <1>1, <1>2, WithEventType DEF Consume
<1>4. tx' = Base'
  BY <1>1, <1>3 DEF Base, WithEvent, Ledgers
<1>5. /\ \A n \in ForecastMessages :
           /\ Accepts(tx, n) = Accepts(Base', n)
           /\ LockedHere(tx, n) = LockedHere(Base', n)
      /\ \A h \in HypothesisIds : AlreadyResolved(tx, h) = AlreadyResolved(Base', h)
  <2>1. SameBooks(tx, tx')
    BY <1>1, <1>2, <1>3, WithEventSameBooks
  <2> QED BY <1>4, <2>1 DEF SameBooks, Accepts, LockedHere, AlreadyResolved
<1>6. Midway'
  <2>1. CASE todo' = <<Commit>>
    BY <1>4, <2>1 DEF Midway, CommitStage
  <2>2. CASE todo' # <<Commit>> /\ m \in OutcomeMessages
    <3>1. /\ todo' = <<RecordOutcome(m), SettleForecasts(m), Commit>>
          /\ ~AlreadyResolved(tx, m.hypothesis)
      BY <2>2 DEF Consume, Statements, OutcomeMessages
    <3>2. m.hypothesis \in HypothesisIds
      BY <2>2 DEF OutcomeMessages
    <3>3. OutcomeStage(m)'
      BY <1>4, <1>5, <2>2, <3>1, <3>2 DEF OutcomeStage
    <3> QED BY <1>2, <3>3 DEF Midway
  <2>3. CASE todo' # <<Commit>> /\ m \in ForecastMessages
    <3>1. m.kind = "forecast"
      BY <2>3 DEF ForecastMessages
    <3>2. CASE Accepts(tx, m)
      <4>1. todo' = Acceptance(tx, m)
        BY <2>3, <3>1, <3>2 DEF Consume, Statements
      <4>2. Acceptance(tx, m) = Acceptance(Base', m)
        BY <1>5, <2>3 DEF Acceptance
      <4>3. ForecastStage(m)'
        BY <1>4, <1>5, <2>3, <3>2, <4>1, <4>2 DEF ForecastStage
      <4> QED BY <1>2, <4>3 DEF Midway
    <3>3. CASE ~Accepts(tx, m)
      <4>1. todo' = <<Reject(m), Commit>>
        BY <2>3, <3>1, <3>3 DEF Consume, Statements
      <4>2. RejectStage(m)'
        BY <1>4, <1>5, <2>3, <3>3, <4>1 DEF RejectStage
      <4> QED BY <1>2, <4>2 DEF Midway
    <3> QED BY <3>2, <3>3
  <2> QED BY <2>1, <2>2, <2>3
<1>7. tx'.events \subseteq EventIds
  BY <1>3 DEF Ledgers
<1> QED BY <1>3, <1>6, <1>7, NothingCommittedKeeps

Adjusted(ledger, a, credits) ==
  [ledger EXCEPT
     !.available = [ledger.available EXCEPT ![a] = ledger.available[a] + credits],
     !.staked = [ledger.staked EXCEPT ![a] = ledger.staked[a] - credits]]

LEMMA AdjustEffect ==
  ASSUME NEW ledger, NEW a, NEW credits
  PROVE  Written(ledger, Adjust(a, credits)) = Adjusted(ledger, a, credits)
<1>1. /\ Adjust(a, credits).do = "adjust" /\ Adjust(a, credits).agent = a
      /\ Adjust(a, credits).credits = credits
  BY DEF Adjust
<1>2. /\ Adjust(a, credits).do # "upsert" /\ Adjust(a, credits).do # "reject"
      /\ Adjust(a, credits).do # "outcome" /\ Adjust(a, credits).do # "settle"
  BY <1>1
<1> QED BY <1>1, <1>2 DEF Written, Adjusted

LEMMA SameFieldsSameLedger ==
  ASSUME NEW before \in Ledgers, NEW after \in Ledgers, SameBooks(before, after),
         after.events = before.events, after.rejected = before.rejected
  PROVE  after = before
BY DEF Ledgers, SameBooks

(* The three statements of an accepted forecast make its effect ...        *)
LEMMA AcceptanceComplete ==
  ASSUME NEW ledger \in Ledgers, NEW m \in ForecastMessages
  PROVE  LET upserted == Written(ledger, Upsert(m))
             released == Written(upserted, Adjust(m.agent, LockedHere(ledger, m)))
         IN /\ upserted.events = ledger.events /\ released.events = ledger.events
            /\ Written(released, Adjust(m.agent, -m.stake)) = AcceptForecast(ledger, m)
<1> DEFINE h == m.hypothesis
           a == m.agent
           locked == LockedHere(ledger, m)
           f == [stake |-> m.stake, probability |-> ClampProbability(m.probability)]
           forecast == [ledger.forecast EXCEPT ![h] = [ledger.forecast[h] EXCEPT ![a] = f]]
           upserted == Written(ledger, Upsert(m))
           released == Written(upserted, Adjust(a, locked))
           complete == Written(released, Adjust(a, -m.stake))
<1>1. /\ a \in AgentIds /\ h \in HypothesisIds /\ m.stake \in Int
      /\ ledger.available \in [AgentIds -> Int] /\ ledger.staked \in [AgentIds -> Int]
  BY DEF ForecastMessages, Ledgers
<1>2. locked \in Int
  BY <1>1, LedgerAssumption DEF LockedHere, Ledgers, Forecasts
<1>3. upserted = [ledger EXCEPT !.forecast = forecast]
  BY <1>1 DEF Written, Upsert, Ledgers
<1> HIDE DEF forecast, locked
<1> HIDE DEF upserted
<1>4. released = Adjusted(upserted, a, locked)
  BY AdjustEffect
<1> HIDE DEF released
<1>5. complete = Adjusted(released, a, -m.stake)
  BY AdjustEffect
<1> HIDE DEF complete
<1> DEFINE available == [ledger.available EXCEPT ![a] = ledger.available[a] + locked - m.stake]
           staked == [ledger.staked EXCEPT ![a] = ledger.staked[a] - locked + m.stake]
           released1 == [ledger.available EXCEPT ![a] = ledger.available[a] + locked]
           released2 == [ledger.staked EXCEPT ![a] = ledger.staked[a] - locked]
<1>6. /\ released = [upserted EXCEPT !.available = released1, !.staked = released2]
      /\ upserted.events = ledger.events
  BY <1>3, <1>4 DEF Ledgers, Adjusted
<1>7. /\ released.available = released1 /\ released.staked = released2
      /\ released.events = ledger.events
  BY <1>3, <1>6 DEF Ledgers
<1>8. /\ [released.available EXCEPT ![a] = released.available[a] + (-m.stake)] = available
      /\ [released.staked EXCEPT ![a] = released.staked[a] - (-m.stake)] = staked
  BY <1>1, <1>2, <1>7
<1> HIDE DEF available, staked, released1, released2
<1>9. complete = [ledger EXCEPT !.forecast = forecast, !.available = available,
                                !.staked = staked]
  BY <1>3, <1>5, <1>6, <1>8 DEF Ledgers, Adjusted
<1>10. AcceptForecast(ledger, m) = [ledger EXCEPT !.forecast = forecast,
                                      !.available = available, !.staked = staked]
  BY Zenon DEF AcceptForecast, forecast, available, staked, locked
<1> QED BY <1>6, <1>7, <1>9, <1>10 DEF upserted, released, complete, locked

(* ... and the two of a resolution make its.                               *)
LEMMA SettlementComplete ==
  ASSUME NEW ledger \in Ledgers, NEW m \in OutcomeMessages
  PROVE  LET recorded == Written(ledger, RecordOutcome(m))
         IN /\ recorded.events = ledger.events
            /\ Written(recorded, SettleForecasts(m))
                 = SettleHypothesis(ledger, m.hypothesis, m.outcome)
<1> DEFINE h == m.hypothesis
           recorded == Written(ledger, RecordOutcome(m))
<1>1. h \in HypothesisIds /\ m.outcome \in {0, 1}
  BY DEF OutcomeMessages
<1>2. recorded = [ledger EXCEPT !.outcome = [ledger.outcome EXCEPT ![h] = m.outcome]]
  BY DEF Written, RecordOutcome
<1>3. Written(recorded, SettleForecasts(m)) = SettleHypothesis(recorded, h, m.outcome)
  BY DEF Written, SettleForecasts
<1> HIDE DEF recorded
<1>4. /\ recorded \in Ledgers
      /\ recorded.outcome = [ledger.outcome EXCEPT ![h] = m.outcome]
      /\ recorded.events = ledger.events /\ recorded.agents = ledger.agents
      /\ recorded.available = ledger.available /\ recorded.staked = ledger.staked
      /\ recorded.reputation = ledger.reputation /\ recorded.status = ledger.status
      /\ recorded.forecast = ledger.forecast /\ recorded.settled = ledger.settled
      /\ recorded.delta = ledger.delta /\ recorded.rejected = ledger.rejected
  BY <1>1, <1>2 DEF Ledgers
<1>5. Due(recorded, h) = Due(ledger, h)
  BY <1>4 DEF Due
<1>6. \A a \in Due(ledger, h) :
        SettlementOf(recorded, h, a, m.outcome) = SettlementOf(ledger, h, a, m.outcome)
  BY <1>4 DEF SettlementOf
<1>7. SettleHypothesis(recorded, h, m.outcome) = SettleHypothesis(ledger, h, m.outcome)
  <2> DEFINE before == SettleHypothesis(ledger, h, m.outcome)
             after == SettleHypothesis(recorded, h, m.outcome)
  <2>1. before \in Ledgers /\ after \in Ledgers
    BY <1>1, <1>4, SettleHypothesisType
  <2>2. after.rejected = before.rejected
    BY <1>4 DEF SettleHypothesis, Ledgers
  <2>3. /\ before.events = ledger.events /\ before.agents = ledger.agents
        /\ before.forecast = ledger.forecast
        /\ before.settled = ledger.settled \cup ({h} \X Due(ledger, h))
        /\ after.events = ledger.events /\ after.agents = ledger.agents
        /\ after.forecast = ledger.forecast
        /\ after.settled = ledger.settled \cup ({h} \X Due(ledger, h))
    BY <1>1, <1>4, <1>5, SettleHypothesisEffect
  <2>4. \A g \in HypothesisIds : /\ after.outcome[g] = before.outcome[g]
                                 /\ after.status[g] = before.status[g]
    <3> TAKE g \in HypothesisIds
    <3>1. /\ before.outcome[g] = IF g = h THEN m.outcome ELSE ledger.outcome[g]
          /\ before.status[g] = IF g = h THEN "resolved" ELSE ledger.status[g]
      BY <1>1, SettleHypothesisEffect
    <3>2. /\ after.outcome[g] = IF g = h THEN m.outcome ELSE recorded.outcome[g]
          /\ after.status[g] = IF g = h THEN "resolved" ELSE recorded.status[g]
      <4>1. recorded \in Ledgers
        BY <1>4
      <4> QED BY <1>1, <4>1, SettleHypothesisEffect
    <3>3. /\ g # h => recorded.outcome[g] = ledger.outcome[g]
          /\ recorded.status[g] = ledger.status[g]
      BY <1>1, <1>4 DEF Ledgers
    <3> HIDE DEF before, after, recorded
    <3> QED BY <3>1, <3>2, <3>3
  <2>5. \A g \in HypothesisIds, a \in AgentIds :
          /\ before.delta[g][a] = IF g = h /\ a \in Due(ledger, h)
                                  THEN SettlementOf(ledger, h, a, m.outcome).delta
                                  ELSE ledger.delta[g][a]
          /\ after.delta[g][a] = IF g = h /\ a \in Due(recorded, h)
                                 THEN SettlementOf(recorded, h, a, m.outcome).delta
                                 ELSE recorded.delta[g][a]
    BY <1>1, <1>4, SettleHypothesisEffect
  <2>6. \A a \in AgentIds : /\ after.reputation[a] = before.reputation[a]
                            /\ after.available[a] = before.available[a]
                            /\ after.staked[a] = before.staked[a]
    BY <1>1, <1>4, <1>5, <1>6, SettleHypothesisEffect
  <2> HIDE DEF before, after
  <2>7. /\ after.outcome = before.outcome /\ after.status = before.status
        /\ after.reputation = before.reputation
        /\ after.available = before.available /\ after.staked = before.staked
    BY <1>1, <1>4, <2>1, <2>4, <2>6 DEF Ledgers
  <2>8. after.delta = before.delta
    <3>1. \A g \in HypothesisIds, a \in AgentIds : after.delta[g][a] = before.delta[g][a]
      BY <1>4, <1>5, <1>6, <2>5
    <3> QED BY <2>1, <3>1 DEF Ledgers
  <2>9. after = before
    BY <2>1, <2>2, <2>3, <2>7, <2>8, SameFieldsSameLedger DEF SameBooks
  <2> QED BY <2>9 DEF before, after
<1> QED BY <1>3, <1>4, <1>7 DEF recorded

(* A statement that is not the commit leaves everything committed alone.   *)
LEMMA StatementRun ==
  ASSUME Inv, RunStatement, ~Fails(tx, Head(todo)), Head(todo).do # "commit"
  PROVE  /\ tx' = Written(tx, Head(todo)) /\ todo' = Tail(todo)
         /\ UNCHANGED <<db, forgotten>>
         /\ tx'.events = tx.events => Base' = Base
BY DEF RunStatement, Base

LEMMA ForecastStatementKeeps ==
  ASSUME Inv, RunStatement, NEW m \in AllMessages, ForecastStage(m)
  PROVE  Keeps
<1> DEFINE release == Adjust(m.agent, LockedHere(Base, m))
           lock == Adjust(m.agent, -m.stake)
<1>1. /\ m \in ForecastMessages /\ m.kind = "forecast" /\ Accepts(Base, m)
      /\ Base \in Ledgers /\ Base.events = tx.events /\ tx.events \subseteq EventIds
  BY BaseBooks DEF ForecastStage, ForecastMessages, Inv, ControlOK
<1>2. /\ Written(Base, Upsert(m)).events = Base.events
      /\ Written(Written(Base, Upsert(m)), release).events = Base.events
      /\ Written(Written(Written(Base, Upsert(m)), release), lock) = AcceptForecast(Base, m)
  BY <1>1, AcceptanceComplete
<1>3. CASE todo = Acceptance(Base, m) /\ tx = Base
  <2>1. /\ Head(todo) = Upsert(m) /\ Tail(todo) = <<release, lock, Commit>>
        /\ Upsert(m).do = "upsert" /\ Upsert(m).message = m
    BY <1>3 DEF Acceptance, Upsert
  <2>2. CASE Fails(tx, Upsert(m))
    <3>1. todo' = <<>> /\ UNCHANGED <<db, tx, forgotten>>
      BY <2>1, <2>2 DEF RunStatement
    <3>2. Idle'
      BY <1>3, <3>1 DEF Idle, Base
    <3> QED BY <1>1, <3>1, <3>2, NothingCommittedKeeps DEF Midway
  <2>3. CASE ~Fails(tx, Upsert(m))
    <3>1. ~Raises(Base, m)
      BY <1>1, <1>3, <2>1, <2>3 DEF Fails, Raises
    <3>2. /\ tx' = Written(Base, Upsert(m)) /\ todo' = <<release, lock, Commit>>
          /\ UNCHANGED <<db, forgotten>> /\ Base' = Base
      BY <1>1, <1>2, <1>3, <2>1, <2>3, StatementRun
    <3>3. ForecastStage(m)'
      BY <1>1, <3>1, <3>2 DEF ForecastStage
    <3>4. Midway' /\ tx'.events \subseteq EventIds
      BY <1>1, <1>2, <3>2, <3>3 DEF Midway
    <3> QED BY <3>2, <3>4, NothingCommittedKeeps
  <2> QED BY <2>2, <2>3
<1>4. CASE /\ ~Raises(Base, m) /\ todo = <<release, lock, Commit>>
           /\ tx = Written(Base, Upsert(m))
  <2>1. /\ Head(todo) = release /\ Tail(todo) = <<lock, Commit>>
        /\ release.do = "adjust" /\ ~Fails(tx, release)
    BY <1>4 DEF Fails, Adjust
  <2>2. /\ tx' = Written(Written(Base, Upsert(m)), release) /\ todo' = <<lock, Commit>>
        /\ UNCHANGED <<db, forgotten>> /\ Base' = Base
    BY <1>1, <1>2, <1>4, <2>1, StatementRun
  <2>3. ForecastStage(m)'
    BY <1>1, <1>4, <2>2 DEF ForecastStage
  <2>4. Midway' /\ tx'.events \subseteq EventIds
    BY <1>1, <1>2, <2>2, <2>3 DEF Midway
  <2> QED BY <2>2, <2>4, NothingCommittedKeeps
<1>5. CASE /\ ~Raises(Base, m) /\ todo = <<lock, Commit>>
           /\ tx = Written(Written(Base, Upsert(m)), release)
  <2>1. /\ Head(todo) = lock /\ Tail(todo) = <<Commit>>
        /\ lock.do = "adjust" /\ ~Fails(tx, lock)
    BY <1>5 DEF Fails, Adjust
  <2>2. Handle(Base, m) = AcceptForecast(Base, m)
    BY <1>1 DEF Handle, HandleForecast
  <2>3. Handle(Base, m).events = Base.events
    BY <1>1, HandleEvents DEF AllMessages
  <2>4. /\ tx' = Handle(Base, m) /\ todo' = <<Commit>>
        /\ UNCHANGED <<db, forgotten>> /\ Base' = Base
    BY <1>1, <1>2, <1>5, <2>1, <2>2, <2>3, StatementRun
  <2>5. CommitStage'
    BY <1>5, <2>4 DEF CommitStage
  <2>6. Midway' /\ tx'.events \subseteq EventIds
    BY <1>1, <2>3, <2>4, <2>5 DEF Midway
  <2> QED BY <2>4, <2>6, NothingCommittedKeeps
<1> QED BY <1>3, <1>4, <1>5 DEF ForecastStage

LEMMA RejectStatementKeeps ==
  ASSUME Inv, RunStatement, NEW m \in AllMessages, RejectStage(m)
  PROVE  Keeps
<1>1. /\ m \in ForecastMessages /\ m.kind = "forecast" /\ ~Accepts(Base, m)
      /\ todo = <<Reject(m), Commit>> /\ tx = Base
      /\ Base \in Ledgers /\ Base.events = tx.events /\ tx.events \subseteq EventIds
  BY BaseBooks DEF RejectStage, ForecastMessages, Inv, ControlOK
<1>2. /\ Head(todo) = Reject(m) /\ Tail(todo) = <<Commit>>
      /\ Reject(m).do = "reject" /\ ~Fails(tx, Reject(m))
  BY <1>1 DEF Fails, Reject
<1>3. Written(Base, Reject(m)) = Handle(Base, m) /\ ~Raises(Base, m)
  BY <1>1 DEF Written, Reject, Handle, HandleForecast, Raises
<1>4. Handle(Base, m).events = Base.events
  BY <1>1, HandleEvents DEF AllMessages
<1>5. /\ tx' = Handle(Base, m) /\ todo' = <<Commit>>
      /\ UNCHANGED <<db, forgotten>> /\ Base' = Base
  BY <1>1, <1>2, <1>3, <1>4, StatementRun
<1>6. CommitStage'
  BY <1>3, <1>5 DEF CommitStage
<1>7. Midway' /\ tx'.events \subseteq EventIds
  BY <1>1, <1>4, <1>5, <1>6 DEF Midway
<1> QED BY <1>5, <1>7, NothingCommittedKeeps

LEMMA OutcomeStatementKeeps ==
  ASSUME Inv, RunStatement, NEW m \in AllMessages, OutcomeStage(m)
  PROVE  Keeps
<1>1. /\ m \in OutcomeMessages /\ m.kind = "outcome" /\ ~AlreadyResolved(Base, m.hypothesis)
      /\ Base \in Ledgers /\ Base.events = tx.events /\ tx.events \subseteq EventIds
  BY BaseBooks DEF OutcomeStage, OutcomeMessages, Inv, ControlOK
<1>2. /\ Written(Base, RecordOutcome(m)).events = Base.events
      /\ Written(Written(Base, RecordOutcome(m)), SettleForecasts(m))
           = SettleHypothesis(Base, m.hypothesis, m.outcome)
  BY <1>1, SettlementComplete
<1>3. CASE todo = <<RecordOutcome(m), SettleForecasts(m), Commit>> /\ tx = Base
  <2>1. /\ Head(todo) = RecordOutcome(m) /\ Tail(todo) = <<SettleForecasts(m), Commit>>
        /\ RecordOutcome(m).do = "outcome" /\ RecordOutcome(m).message = m
    BY <1>3 DEF RecordOutcome
  <2>2. CASE Fails(tx, RecordOutcome(m))
    <3>1. todo' = <<>> /\ UNCHANGED <<db, tx, forgotten>>
      BY <2>1, <2>2 DEF RunStatement
    <3>2. Idle'
      BY <1>3, <3>1 DEF Idle, Base
    <3> QED BY <1>1, <3>1, <3>2, NothingCommittedKeeps DEF Midway
  <2>3. CASE ~Fails(tx, RecordOutcome(m))
    <3>1. ~Raises(Base, m)
      BY <1>1, <1>3, <2>1, <2>3 DEF Fails, Raises
    <3>2. /\ tx' = Written(Base, RecordOutcome(m))
          /\ todo' = <<SettleForecasts(m), Commit>>
          /\ UNCHANGED <<db, forgotten>> /\ Base' = Base
      BY <1>1, <1>2, <1>3, <2>1, <2>3, StatementRun
    <3>3. OutcomeStage(m)'
      BY <1>1, <3>1, <3>2 DEF OutcomeStage
    <3>4. Midway' /\ tx'.events \subseteq EventIds
      BY <1>1, <1>2, <3>2, <3>3 DEF Midway
    <3> QED BY <3>2, <3>4, NothingCommittedKeeps
  <2> QED BY <2>2, <2>3
<1>4. CASE /\ ~Raises(Base, m) /\ todo = <<SettleForecasts(m), Commit>>
           /\ tx = Written(Base, RecordOutcome(m))
  <2>1. /\ Head(todo) = SettleForecasts(m) /\ Tail(todo) = <<Commit>>
        /\ SettleForecasts(m).do = "settle" /\ ~Fails(tx, SettleForecasts(m))
    BY <1>4 DEF Fails, SettleForecasts
  <2>2. Handle(Base, m) = SettleHypothesis(Base, m.hypothesis, m.outcome)
    BY <1>1 DEF Handle, HandleOutcome
  <2>3. Handle(Base, m).events = Base.events
    BY <1>1, HandleEvents DEF AllMessages
  <2>4. /\ tx' = Handle(Base, m) /\ todo' = <<Commit>>
        /\ UNCHANGED <<db, forgotten>> /\ Base' = Base
    BY <1>1, <1>2, <1>4, <2>1, <2>2, <2>3, StatementRun
  <2>5. CommitStage'
    BY <1>4, <2>4 DEF CommitStage
  <2>6. Midway' /\ tx'.events \subseteq EventIds
    BY <1>1, <2>3, <2>4, <2>5 DEF Midway
  <2> QED BY <2>4, <2>6, NothingCommittedKeeps
<1> QED BY <1>3, <1>4 DEF OutcomeStage

LEMMA CommitStatementKeeps ==
  ASSUME Inv, RunStatement, CommitStage
  PROVE  Keeps
<1>1. /\ Head(todo) = Commit /\ Tail(todo) = <<>>
      /\ Commit.do = "commit" /\ ~Fails(tx, Commit) /\ Written(tx, Commit) = tx
  BY DEF CommitStage, Commit, Fails, Written
<1>2. Commits(tx) /\ todo' = <<>> /\ forgotten' = forgotten
  BY <1>1 DEF RunStatement, Commits
<1>3. Base \in Ledgers /\ BooksInv(Base, forgotten)
  BY BaseBooks
<1>4. BooksInv(tx, forgotten) /\ KeepsResolutions(Base, tx)
  <2>1. CASE tx = Base
    <3>1. SameBooks(Base, Base)
      BY <1>3 DEF SameBooks
    <3> QED BY <1>3, <2>1, <3>1, SameBooksKeep
  <2>2. CASE \E m \in AllMessages : ~Raises(Base, m) /\ tx = Handle(Base, m)
    BY <1>3, <2>2, HandleKeeps
  <2> QED BY <2>1, <2>2 DEF CommitStage
<1>5. KeepsResolutions(db, tx)
  BY <1>4, ResolutionsSeen DEF BooksInv
<1> QED BY <1>2, <1>4, <1>5, CommitKeeps

LEMMA StatementKeeps ==
  ASSUME Inv, RunStatement
  PROVE  Keeps
<1>1. ~Idle
  BY DEF RunStatement, Idle
<1> QED BY <1>1, ForecastStatementKeeps, RejectStatementKeeps, OutcomeStatementKeeps,
           CommitStatementKeeps DEF Inv, Midway

-----------------------------------------------------------------------------
LEMMA RequestKeeps ==
  ASSUME Inv, Work
  PROVE  Keeps
<1>1. CASE ResetTenant
  BY <1>1, EmptyBooks, CommitKeeps DEF ResetTenant, Doing
<1>2. ASSUME todo = <<>>
      PROVE  tx \in Ledgers /\ BooksInv(tx, forgotten) /\ tx = Base
  BY <1>2, BaseBooks, NothingTodo
<1>3. CASE OpenHypotheses
  <2>1. todo = <<>> /\ todo' = <<>> /\ Commits(Opened(tx)) /\ forgotten' = forgotten
    BY <1>3 DEF OpenHypotheses, Doing
  <2>2. BooksInv(Opened(tx), forgotten) /\ KeepsResolutions(tx, Opened(tx))
    BY <1>2, <2>1, OpenedKeeps
  <2>3. KeepsResolutions(db, Opened(tx))
    BY <1>2, <2>1, <2>2, ResolutionsSeen DEF BooksInv
  <2> QED BY <2>1, <2>2, <2>3, CommitKeeps
<1>4. CASE IngestAgents
  <2>1. Head(job).agents \in SUBSET AgentIds
    BY <1>4 DEF IngestAgents, Doing, Inv, ControlOK, Jobs
  <2> DEFINE after == Granted(tx, Head(job).agents)
  <2>2. /\ todo = <<>> /\ todo' = <<>>
        /\ Commits(after) /\ forgotten' = Forgets(tx, Head(job).agents)
    BY <1>4 DEF IngestAgents, Doing
  <2>3. BooksInv(after, Forgets(tx, Head(job).agents)) /\ KeepsResolutions(tx, after)
    BY <1>2, <2>1, <2>2, GrantedKeeps DEF Forgets
  <2>4. KeepsResolutions(db, after)
    BY <1>2, <2>2, <2>3, ResolutionsSeen DEF BooksInv
  <2> QED BY <2>2, <2>3, <2>4, CommitKeeps
<1>5. CASE IngestForecast
  <2>1. Head(pending) \in ForecastMessages
    BY <1>5 DEF IngestForecast, Inv, ControlOK
  <2> QED BY <1>5, <2>1, ConsumeKeeps DEF IngestForecast, Doing
<1>6. CASE Settle
  <2>1. Head(job).message \in OutcomeMessages
    BY <1>6 DEF Settle, Doing, Inv, ControlOK, Jobs
  <2> QED BY <1>6, <2>1, ConsumeKeeps DEF Settle, Doing
<1>7. CASE Answer
  BY <1>7, NothingKeeps DEF Answer
<1> QED BY <1>1, <1>3, <1>4, <1>5, <1>6, <1>7, StatementKeeps DEF Work

LEMMA WorkerKeeps ==
  ASSUME Inv
  PROVE  /\ WorkerSeed => Keeps
         /\ \A m \in broker, acknowledged \in BOOLEAN :
              WorkerConsume(m, acknowledged) => Keeps
<1>1. db \in Ledgers /\ BooksInv(db, forgotten)
  BY BaseBooks DEF Inv
<1>2. ASSUME WorkerSeed PROVE Keeps
  <2> DEFINE after == Granted(Opened(db), Agents)
             before == Opened(db)
  <2>1. BooksInv(before, forgotten) /\ KeepsResolutions(db, before)
    BY <1>1, OpenedKeeps
  <2>2. before.staked = db.staked
    BY <1>1 DEF Opened, Ledgers
  <2>3. Forgets(db, Agents) = Forgets(before, Agents)
    BY <2>2 DEF Forgets
  <2>4. Agents \in SUBSET AgentIds
    BY LedgerAssumption
  <2>5. BooksInv(after, Forgets(db, Agents)) /\ KeepsResolutions(before, after)
    BY <2>1, <2>3, <2>4, GrantedKeeps DEF Forgets
  <2>6. KeepsResolutions(db, after)
    BY <2>1, <2>5 DEF KeepsResolutions
  <2>7. Commits(after) /\ forgotten' = Forgets(db, Agents) /\ todo' = <<>>
    BY <1>2 DEF WorkerSeed, LockFree, Here
  <2> QED BY <2>5, <2>6, <2>7, CommitKeeps
<1>3. ASSUME NEW m \in broker, NEW acknowledged \in BOOLEAN,
             WorkerConsume(m, acknowledged)
      PROVE  Keeps
  <2>1. m \in AllMessages
    BY DEF Inv, ControlOK, AllMessages
  <2>2. forgotten' = forgotten /\ todo' = <<>>
    BY <1>3 DEF WorkerConsume, Consuming, LockFree, Here
  <2>3. CASE ~Raises(db, m) /\ Commits(Process(db, m))
    BY <1>1, <2>1, <2>2, <2>3, ProcessKeepsBooks, CommitKeeps
  <2>4. CASE Commits(db)
    <3>1. KeepsResolutions(db, db)
      BY <1>1, SameBooksKeep DEF SameBooks
    <3> QED BY <1>1, <2>2, <2>4, <3>1, CommitKeeps
  <2> QED BY <1>3, <2>3, <2>4 DEF WorkerConsume
<1> QED BY <1>2, <1>3

LEMMA StepKeeps ==
  ASSUME Inv, [Next]_vars
  PROVE  Keeps
<1>1. CASE UNCHANGED <<db, tx, todo, forgotten>>
  BY <1>1, NothingKeeps
<1>2. CASE Restart
  <2>1. tx' = db /\ db' = db /\ forgotten' = forgotten /\ todo' = <<>>
    BY <1>2 DEF Restart
  <2>2. KeepsResolutions(db, db)
    BY BaseBooks, SameBooksKeep DEF SameBooks, Inv
  <2>3. Commits(db)
    BY <2>1 DEF Commits
  <2> QED BY <2>1, <2>2, <2>3, CommitKeeps DEF Inv
<1>3. CASE \/ RunNormal \/ \E injection \in Injections : Inject(injection)
           \/ \E h \in Resolutions, o \in {0, 1} : Resolve(h, o)
  BY <1>1, <1>3 DEF RunNormal, Inject, Resolve, Request
<1>4. CASE \/ Simulate \/ WorkerStart \/ WorkerRaises \/ WorkerKilled \/ Tick
           \/ \E fetched \in Batches(broker) : WorkerFetch(fetched)
  BY <1>1, <1>4 DEF Simulate, WorkerStart, WorkerFetch, WorkerRaises, WorkerKilled,
                    WorkerEnds, Tick, Here
<1>5. CASE UNCHANGED vars
  BY <1>1, <1>5 DEF vars
<1> QED BY <1>2, <1>3, <1>4, <1>5, RequestKeeps, WorkerKeeps DEF Next

-----------------------------------------------------------------------------
(***************************************************************************)
(* Queues, jobs and the clock keep their types.                            *)
(***************************************************************************)
LEMMA RequestControl ==
  ASSUME ControlOK,
         \/ RunNormal
         \/ \E injection \in Injections : Inject(injection)
         \/ \E h \in Resolutions, o \in {0, 1} : Resolve(h, o)
  PROVE  job' \in Seq(Jobs) /\ pending' \in Seq(ForecastMessages)
<1>1. CASE RunNormal
  <2>1. Stamped(World) \in Seq(ForecastMessages)
    BY StampedBatches, DashboardAssumption DEF ControlOK
  <2>2. /\ [do |-> "reset"] \in Jobs /\ [do |-> "open"] \in Jobs
        /\ Grants(Agents) \in Jobs /\ Consumes \in Jobs
    BY LedgerAssumption DEF Jobs, Grants, Consumes
  <2> QED BY <1>1, <2>1, <2>2 DEF RunNormal, ControlOK
<1>2. CASE \E injection \in Injections : Inject(injection)
  <2>1. PICK injection \in Injections : Inject(injection)
    BY <1>2
  <2>2. injection.agents \in SUBSET AgentIds /\ injection.forecasts \in Seq(Templates)
    BY DashboardAssumption
  <2>3. Stamped(injection.forecasts) \in Seq(ForecastMessages)
    BY <2>2, StampedBatches DEF ControlOK
  <2>4. Grants(injection.agents) \in Jobs /\ Consumes \in Jobs
    BY <2>2 DEF Jobs, Grants, Consumes
  <2> QED BY <2>1, <2>3, <2>4 DEF Inject, ControlOK
<1>3. CASE \E h \in Resolutions, o \in {0, 1} : Resolve(h, o)
  <2>1. PICK h \in Resolutions, o \in {0, 1} : Resolve(h, o)
    BY <1>3
  <2> DEFINE m == Stamp([kind |-> "outcome", id |-> h, hypothesis |-> h, outcome |-> o])
  <2>2. m = [kind |-> "outcome", id |-> <<h, second>>, hypothesis |-> h, outcome |-> o]
    BY DEF Stamp, StampAt
  <2>3. <<h, second>> \in EventIds /\ h \in HypothesisIds
    BY DashboardAssumption DEF ControlOK
  <2>6. m \in OutcomeMessages
    BY <2>2, <2>3 DEF OutcomeMessages
  <2> HIDE DEF m
  <2>4. [do |-> "settle", message |-> m] \in Jobs
    BY <2>6 DEF Jobs
  <2>5. job' = <<[do |-> "settle", message |-> m]>> /\ pending' = pending
    BY <2>1 DEF Resolve, m
  <2> QED BY <2>4, <2>5 DEF ControlOK
<1> QED BY <1>1, <1>2, <1>3

LEMMA WorkControl ==
  ASSUME ControlOK, Work
  PROVE  job' \in Seq(Jobs) /\ pending' \in Seq(ForecastMessages)
<1>1. job # <<>> => Tail(job) \in Seq(Jobs)
  BY DEF ControlOK
<1>2. pending # <<>> => Tail(pending) \in Seq(ForecastMessages)
  BY DEF ControlOK
<1>3. <<>> \in Seq(Jobs)
  OBVIOUS
<1>4. CASE ResetTenant \/ OpenHypotheses \/ IngestAgents \/ Answer
  BY <1>1, <1>4 DEF ControlOK, ResetTenant, OpenHypotheses, IngestAgents, Answer, Doing
<1>5. CASE IngestForecast
  BY <1>2, <1>5 DEF ControlOK, IngestForecast
<1>6. CASE Settle
  BY <1>1, <1>6 DEF ControlOK, Settle, Doing
<1>7. CASE RunStatement
  BY <1>3, <1>7 DEF ControlOK, RunStatement
<1> QED BY <1>4, <1>5, <1>6, <1>7 DEF Work

LEMMA ControlStep ==
  ASSUME ControlOK, tx'.events \subseteq EventIds, [Next]_vars
  PROVE  ControlOK'
<1>1. CASE \/ RunNormal
           \/ \E injection \in Injections : Inject(injection)
           \/ \E h \in Resolutions, o \in {0, 1} : Resolve(h, o)
  <2>1. UNCHANGED <<broker, second>>
    BY <1>1 DEF RunNormal, Inject, Resolve, Request
  <2> QED BY <1>1, <2>1, RequestControl DEF ControlOK
<1>2. CASE Work
  <2>1. UNCHANGED <<broker, second>>
    BY <1>2 DEF Work, ResetTenant, OpenHypotheses, IngestAgents, IngestForecast,
                Answer, Settle, RunStatement, Consume, Elsewhere
  <2> QED BY <1>2, <2>1, WorkControl DEF ControlOK
<1>3. CASE Restart
  BY <1>3 DEF Restart, ControlOK
<1>4. CASE Simulate
  <2>1. \A i \in DOMAIN World : Stamp(World[i]) \in ForecastMessages
    BY StampedMessages, DashboardAssumption DEF Stamp, ControlOK
  <2> QED BY <1>4, <2>1 DEF Simulate, Here, ControlOK
<1>5. CASE \/ WorkerStart \/ WorkerSeed \/ WorkerRaises \/ WorkerKilled
           \/ \E fetched \in Batches(broker) : WorkerFetch(fetched)
  BY <1>5 DEF WorkerStart, WorkerSeed, WorkerFetch, WorkerRaises, WorkerKilled,
              WorkerEnds, Here, ControlOK
<1>6. CASE \E m \in broker, acknowledged \in BOOLEAN : WorkerConsume(m, acknowledged)
  BY <1>6 DEF WorkerConsume, Here, ControlOK
<1>7. CASE Tick
  BY <1>7, DashboardAssumption DEF Tick, ControlOK
<1>8. CASE UNCHANGED vars
  BY <1>8 DEF vars, ControlOK
<1> QED BY <1>1, <1>2, <1>3, <1>4, <1>5, <1>6, <1>7, <1>8 DEF Next

-----------------------------------------------------------------------------
LEMMA InitInv == Init => Inv
<1> SUFFICES ASSUME Init PROVE Inv
  OBVIOUS
<1>1. ControlOK
  BY EmptyLedgerType, DashboardAssumption DEF Init, ControlOK, Ledgers
<1>2. BooksInv(db, forgotten)
  BY EmptyBooks DEF Init
<1>3. Midway
  BY EmptyLedgerType DEF Init, Midway, Idle, Base, Ledgers
<1> QED BY <1>1, <1>2, <1>3 DEF Inv

LEMMA InvStep == Inv /\ [Next]_vars => Inv'
<1> SUFFICES ASSUME Inv, [Next]_vars PROVE Inv'
  OBVIOUS
<1>1. Keeps
  BY StepKeeps
<1>2. ControlOK'
  BY <1>1, ControlStep DEF Inv, Keeps
<1> QED BY <1>1, <1>2 DEF Inv, Keeps

THEOREM Invariance == Spec => []Inv
BY InitInv, InvStep, PTL DEF Spec

(***************************************************************************)
(* A request that fails in a handler has charged nobody, wherever in its   *)
(* batch and at whichever statement it failed, and no later commit makes   *)
(* half an effect permanent.                                               *)
(***************************************************************************)
THEOREM FailedRequestsChargeNobody == Spec => []FailuresMoveNoCredits
<1>1. Inv => FailuresMoveNoCredits
  BY NothingTodo DEF FailuresMoveNoCredits, Base
<1> QED BY <1>1, Invariance, PTL

(***************************************************************************)
(* The staked column and the live forecasts agree but for the stakes that  *)
(* granting an agent again has wiped, under both processes at once.        *)
(***************************************************************************)
THEOREM OnlyGrantsUnback == Spec => []BackedButForGrants
<1>1. Inv => BackedButForGrants
  BY DEF Inv, BooksInv, BackedBut, BackedButForGrants
<1> QED BY <1>1, Invariance, PTL

(***************************************************************************)
(* Every settlements row follows from the rows it references, whatever was *)
(* injected again, failed or was redelivered in between.                   *)
(***************************************************************************)
THEOREM EverySettlementReplays == Spec => []SettlementsReplay
<1>1. Inv => SettlementsReplay
  BY DEF Inv, BooksInv, SettlementsReplay
<1> QED BY <1>1, Invariance, PTL

(***************************************************************************)
(* Nothing but a reset takes a resolution back.                            *)
(***************************************************************************)
THEOREM OnlyResetsTakeBack == Spec => OnlyResetsUndo
<1>1. Inv /\ [Next]_vars => [ResetTenant \/ KeepsResolutions(db, db')]_vars
  BY StepKeeps DEF Keeps
<1> QED BY <1>1, Invariance, PTL DEF Spec, OnlyResetsUndo
=============================================================================

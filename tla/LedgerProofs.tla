---------------------------- MODULE LedgerProofs ----------------------------
(***************************************************************************)
(* What the writes of the seed and of the handlers preserve, for every     *)
(* ledger they may meet.  Worker's theorems are proved from these lemmas.  *)
(***************************************************************************)
EXTENDS Ledger, SettlementProofs, FiniteSetTheorems

(***************************************************************************)
(* Every write keeps the ledger one the schema allows.                     *)
(***************************************************************************)
LEMMA EmptyLedgerType == EmptyLedger \in Ledgers
BY LedgerAssumption DEF EmptyLedger, Ledgers, Forecasts, NoForecast, NoOutcome, Statuses

LEMMA SeedWorldType ==
  ASSUME NEW ledger \in Ledgers
  PROVE  SeedWorld(ledger) \in Ledgers
<1> DEFINE status == [h \in HypothesisIds |->
                        IF h \in Hypotheses THEN "open" ELSE ledger.status[h]]
           available == [a \in AgentIds |->
                           IF a \in Agents THEN Grant ELSE ledger.available[a]]
           staked == [a \in AgentIds |->
                        IF a \in Agents THEN 0 ELSE ledger.staked[a]]
           reputation == [a \in AgentIds |->
                            IF a \in Agents THEN StartingReputation[a]
                                             ELSE ledger.reputation[a]]
<1>1. SeedWorld(ledger) =
        IF Seeded(ledger) THEN ledger
        ELSE [ledger EXCEPT !.agents = Agents, !.status = status,
                            !.available = available, !.staked = staked,
                            !.reputation = reputation]
  BY Zenon DEF SeedWorld, Ledgers
<1>2. status \in [HypothesisIds -> Statuses]
  BY DEF Ledgers, Statuses
<1>3. available \in [AgentIds -> Int] /\ staked \in [AgentIds -> Int]
  BY LedgerAssumption DEF Ledgers
<1>4. reputation \in [AgentIds -> Int]
  <2>1. RepFloor \in Int /\ RepCeil \in Int
    BY DEF RepFloor, RepCeil
  <2> QED BY <2>1, LedgerAssumption DEF Ledgers
<1> HIDE DEF status, available, staked, reputation
<1>5. Agents \in SUBSET AgentIds
  BY LedgerAssumption
<1>6. CASE Seeded(ledger)
  BY <1>1, <1>6
<1>7. CASE ~Seeded(ledger)
  <2>1. SeedWorld(ledger) =
          [ledger EXCEPT !.agents = Agents, !.status = status,
                         !.available = available, !.staked = staked,
                         !.reputation = reputation]
    BY <1>1, <1>7
  <2> QED BY <2>1, <1>2, <1>3, <1>4, <1>5 DEF Ledgers
<1> QED BY <1>6, <1>7

LEMMA WithEventType ==
  ASSUME NEW ledger \in Ledgers, NEW m \in AllMessages
  PROVE  WithEvent(ledger, m) \in Ledgers
BY DEF WithEvent, Ledgers, AllMessages, SignalMessages, ForecastMessages, OutcomeMessages

LEMMA AcceptForecastType ==
  ASSUME NEW ledger \in Ledgers, NEW m \in ForecastMessages, Accepts(ledger, m)
  PROVE  AcceptForecast(ledger, m) \in Ledgers
<1> DEFINE h == m.hypothesis
           a == m.agent
           f == [stake |-> m.stake, probability |-> ClampProbability(m.probability)]
           forecast == [ledger.forecast EXCEPT ![h] = [ledger.forecast[h] EXCEPT ![a] = f]]
           available == [ledger.available EXCEPT
                           ![a] = ledger.available[a] + LockedHere(ledger, m) - m.stake]
           staked == [ledger.staked EXCEPT
                        ![a] = ledger.staked[a] - LockedHere(ledger, m) + m.stake]
<1>1. AcceptForecast(ledger, m) =
        [ledger EXCEPT !.forecast = forecast, !.available = available, !.staked = staked]
  BY Zenon DEF AcceptForecast, Ledgers
<1>2. h \in HypothesisIds /\ a \in AgentIds /\ m.stake \in Int
  BY DEF ForecastMessages
<1>3. f \in Forecasts
  <2>1. ClampProbability(m.probability) \in 0..100
    BY ClampProbabilityRange DEF ForecastMessages
  <2>2. m.stake \in 0..StakeMax
    BY <1>2, LedgerAssumption DEF Accepts
  <2> QED BY <2>1, <2>2 DEF Forecasts
<1> HIDE DEF f, h, a
<1>4. forecast \in [HypothesisIds -> [AgentIds -> Forecasts]]
  BY <1>2, <1>3 DEF Ledgers
<1>5. LockedHere(ledger, m) \in Int
  BY <1>2 DEF LockedHere, Ledgers, Forecasts, h, a
<1>6. available \in [AgentIds -> Int] /\ staked \in [AgentIds -> Int]
  BY <1>2, <1>5 DEF Ledgers
<1> HIDE DEF forecast, available, staked
<1> QED BY <1>1, <1>4, <1>6 DEF Ledgers

LEMMA RejectForecastType ==
  ASSUME NEW ledger \in Ledgers, NEW m \in ForecastMessages
  PROVE  RejectForecast(ledger, m) \in Ledgers
<1> DEFINE rejected == ledger.rejected + 1
<1>1. RejectForecast(ledger, m) = [ledger EXCEPT !.rejected = rejected]
  BY Zenon DEF RejectForecast
<1>2. rejected \in Nat
  BY DEF Ledgers
<1> HIDE DEF rejected
<1> QED BY <1>1, <1>2 DEF Ledgers

LEMMA DueType ==
  ASSUME NEW ledger \in Ledgers, NEW h \in HypothesisIds
  PROVE  Due(ledger, h) \subseteq ledger.agents /\ Due(ledger, h) \subseteq AgentIds
BY DEF Due, Ledgers

LEMMA SettlementOfType ==
  ASSUME NEW ledger \in Ledgers, NEW h \in HypothesisIds, NEW a \in AgentIds,
         NEW o \in {0, 1}
  PROVE  /\ SettlementOf(ledger, h, a, o).delta \in Int
         /\ SettlementOf(ledger, h, a, o).reputation \in Int
<1> DEFINE f == ledger.forecast[h][a]
           gain == Improvement(Prior[h], f.probability, o)
<1>1. /\ f.stake \in Nat /\ f.probability \in 0..100 /\ Prior[h] \in 0..100
      /\ ledger.reputation[a] \in Int
  BY LedgerAssumption DEF Ledgers, Forecasts
<1>2. gain \in Int
  BY <1>1, ImprovementRange
<1>3. CreditDelta(f.stake, Prior[h], f.probability, o) \in Int
  <2>1. CreditDelta(f.stake, Prior[h], f.probability, o) \in (-f.stake)..f.stake
    BY <1>1, CreditDeltaRange
  <2> HIDE DEF f
  <2> QED BY <1>1, <2>1
<1> HIDE DEF gain
<1>4. UpdateReputation(ledger.reputation[a], gain) \in Int
  <2>1. RepFloor \in Int /\ RepCeil \in Int
    BY DEF RepFloor, RepCeil
  <2> QED BY <1>1, <1>2, <2>1 DEF UpdateReputation, Clamp
<1> QED BY <1>3, <1>4 DEF SettlementOf, gain

LEMMA SettleHypothesisType ==
  ASSUME NEW ledger \in Ledgers, NEW h \in HypothesisIds, NEW o \in {0, 1}
  PROVE  SettleHypothesis(ledger, h, o) \in Ledgers
<1> DEFINE due == Due(ledger, h)
           row == [a \in due |-> SettlementOf(ledger, h, a, o)]
           outcome == [ledger.outcome EXCEPT ![h] = o]
           status == [ledger.status EXCEPT ![h] = "resolved"]
           settled == ledger.settled \cup ({h} \X due)
           deltas == [a \in AgentIds |->
                        IF a \in due THEN row[a].delta ELSE ledger.delta[h][a]]
           delta == [ledger.delta EXCEPT ![h] = deltas]
           reputation == [a \in AgentIds |->
                            IF a \in due THEN row[a].reputation
                                         ELSE ledger.reputation[a]]
           available == [a \in AgentIds |->
                           IF a \in due
                           THEN ledger.available[a] + ledger.forecast[h][a].stake
                                  + row[a].delta
                           ELSE ledger.available[a]]
           staked == [a \in AgentIds |->
                        IF a \in due
                        THEN ledger.staked[a] - ledger.forecast[h][a].stake
                        ELSE ledger.staked[a]]
<1>1. SettleHypothesis(ledger, h, o) =
        [ledger EXCEPT !.outcome = outcome, !.status = status, !.settled = settled,
                       !.delta = delta, !.reputation = reputation,
                       !.available = available, !.staked = staked]
  BY Zenon DEF SettleHypothesis
<1>2. \A a \in due : row[a].delta \in Int /\ row[a].reputation \in Int
  BY DueType, SettlementOfType
<1>3. due \subseteq AgentIds
  BY DueType
<1> HIDE DEF due, row
<1>4. outcome \in [HypothesisIds -> {NoOutcome, 0, 1}]
  BY DEF Ledgers
<1>5. status \in [HypothesisIds -> Statuses]
  BY DEF Ledgers, Statuses
<1>6. settled \in SUBSET (HypothesisIds \X AgentIds)
  BY <1>3 DEF Ledgers
<1>7. delta \in [HypothesisIds -> [AgentIds -> Int]]
  <2>1. deltas \in [AgentIds -> Int]
    BY <1>2 DEF Ledgers
  <2> HIDE DEF deltas
  <2> QED BY <2>1 DEF Ledgers
<1>8. reputation \in [AgentIds -> Int]
  BY <1>2 DEF Ledgers
<1>9. available \in [AgentIds -> Int] /\ staked \in [AgentIds -> Int]
  BY <1>2 DEF Ledgers, Forecasts
<1> HIDE DEF outcome, status, settled, delta, reputation, available, staked
<1> QED BY <1>1, <1>4, <1>5, <1>6, <1>7, <1>8, <1>9 DEF Ledgers

LEMMA HandleType ==
  ASSUME NEW ledger \in Ledgers, NEW m \in AllMessages
  PROVE  Handle(ledger, m) \in Ledgers
<1>1. CASE m \in ForecastMessages
  <2>1. Handle(ledger, m) = HandleForecast(ledger, m)
    BY <1>1 DEF Handle, ForecastMessages
  <2> QED BY <1>1, <2>1, AcceptForecastType, RejectForecastType DEF HandleForecast
<1>2. CASE m \in OutcomeMessages
  <2>1. Handle(ledger, m) = HandleOutcome(ledger, m)
    BY <1>2 DEF Handle, OutcomeMessages
  <2>2. m.hypothesis \in HypothesisIds /\ m.outcome \in {0, 1}
    BY <1>2 DEF OutcomeMessages
  <2> QED BY <2>1, <2>2, SettleHypothesisType DEF HandleOutcome
<1>3. CASE m \in SignalMessages
  BY <1>3 DEF Handle, SignalMessages
<1> QED BY <1>1, <1>2, <1>3 DEF AllMessages

-----------------------------------------------------------------------------
(***************************************************************************)
(* The credits an agent has locked are finitely many, and their number     *)
(* changes with what is locked on a hypothesis by exactly that much.       *)
(***************************************************************************)
LEMMA LockedOnType ==
  ASSUME NEW ledger \in Ledgers, NEW h \in HypothesisIds, NEW a \in AgentIds
  PROVE  LockedOn(ledger, h, a) \in 0..StakeMax
BY LedgerAssumption DEF LockedOn, Ledgers, Forecasts

LEMMA LockedCreditsFinite ==
  ASSUME NEW ledger \in Ledgers, NEW a \in AgentIds
  PROVE  /\ IsFiniteSet(LockedCredits(ledger, a))
         /\ Cardinality(LockedCredits(ledger, a)) \in Nat
<1> DEFINE All == HypothesisIds \X (1..StakeMax)
<1>1. IsFiniteSet(All)
  <2>1. IsFiniteSet(1..StakeMax)
    BY FS_Interval, LedgerAssumption
  <2>2. IsFiniteSet(HypothesisIds)
    BY LedgerAssumption
  <2> QED BY <2>1, <2>2, FS_Product
<1>2. LockedCredits(ledger, a) \subseteq All
  <2> SUFFICES ASSUME NEW h \in HypothesisIds
               PROVE  {h} \X (1..LockedOn(ledger, h, a)) \subseteq All
    BY DEF LockedCredits
  <2>1. 1..LockedOn(ledger, h, a) \subseteq 1..StakeMax
    BY LockedOnType, LedgerAssumption
  <2> QED BY <2>1
<1> QED BY <1>1, <1>2, FS_Subset, FS_CardinalityType

LEMMA LockedSplit ==
  ASSUME NEW ledger \in Ledgers, NEW a \in AgentIds, NEW h \in HypothesisIds
  PROVE  LET others == UNION {{g} \X (1..LockedOn(ledger, g, a)) :
                                g \in HypothesisIds \ {h}}
         IN /\ IsFiniteSet(others)
            /\ Cardinality(others) \in Nat
            /\ Cardinality(LockedCredits(ledger, a)) =
                 Cardinality(others) + LockedOn(ledger, h, a)
<1> DEFINE here == {h} \X (1..LockedOn(ledger, h, a))
           others == UNION {{g} \X (1..LockedOn(ledger, g, a)) :
                              g \in HypothesisIds \ {h}}
<1>1. LockedCredits(ledger, a) = others \cup here
  BY DEF LockedCredits
<1>2. others \cap here = {}
  OBVIOUS
<1>3. IsFiniteSet(others) /\ IsFiniteSet(here)
  BY <1>1, LockedCreditsFinite, FS_Subset
<1>4. Cardinality(here) = LockedOn(ledger, h, a)
  <2>1. LockedOn(ledger, h, a) \in Nat
    BY LockedOnType, LedgerAssumption
  <2>2. /\ IsFiniteSet(1..LockedOn(ledger, h, a))
        /\ Cardinality(1..LockedOn(ledger, h, a)) = LockedOn(ledger, h, a)
    BY <2>1, FS_Interval
  <2>3. IsFiniteSet({h}) /\ Cardinality({h}) = 1
    BY FS_Singleton
  <2>4. Cardinality(here) = 1 * LockedOn(ledger, h, a)
    BY <2>2, <2>3, FS_Product
  <2> QED BY <2>1, <2>4
<1>5. Cardinality(others) \in Nat
  BY <1>3, FS_CardinalityType
<1>6. Cardinality(others \cup here) =
        Cardinality(others) + Cardinality(here) - Cardinality(others \cap here)
  BY <1>3, FS_Union
<1>7. Cardinality(others \cap here) = 0
  BY <1>2, FS_EmptySet
<1>8. LockedOn(ledger, h, a) \in Nat
  BY LockedOnType, LedgerAssumption
<1> HIDE DEF others, here
<1>9. Cardinality(others \cup here) = Cardinality(others) + LockedOn(ledger, h, a)
  BY <1>4, <1>5, <1>6, <1>7, <1>8
<1> QED BY <1>1, <1>3, <1>5, <1>9 DEF others

LEMMA LockedChange ==
  ASSUME NEW before \in Ledgers, NEW after \in Ledgers,
         NEW a \in AgentIds, NEW h \in HypothesisIds,
         \A g \in HypothesisIds \ {h} : LockedOn(after, g, a) = LockedOn(before, g, a)
  PROVE  Cardinality(LockedCredits(after, a)) =
           Cardinality(LockedCredits(before, a))
             + LockedOn(after, h, a) - LockedOn(before, h, a)
<1> DEFINE others(ledger) == UNION {{g} \X (1..LockedOn(ledger, g, a)) :
                                      g \in HypothesisIds \ {h}}
<1>1. others(after) = others(before)
  OBVIOUS
<1>2. /\ Cardinality(others(before)) \in Nat
      /\ Cardinality(LockedCredits(before, a)) =
           Cardinality(others(before)) + LockedOn(before, h, a)
  BY LockedSplit
<1>3. Cardinality(LockedCredits(after, a)) =
        Cardinality(others(after)) + LockedOn(after, h, a)
  BY LockedSplit
<1>4. LockedOn(before, h, a) \in Nat /\ LockedOn(after, h, a) \in Nat
  BY LockedOnType, LedgerAssumption
<1> HIDE DEF others
<1> QED BY <1>1, <1>2, <1>3, <1>4

-----------------------------------------------------------------------------
(***************************************************************************)
(* What each write does, column by column.                                 *)
(***************************************************************************)
LEMMA SeedWorldEffect ==
  ASSUME NEW ledger \in Ledgers, ~Seeded(ledger)
  PROVE  LET after == SeedWorld(ledger)
         IN /\ after.events = ledger.events /\ after.agents = Agents
            /\ after.forecast = ledger.forecast /\ after.outcome = ledger.outcome
            /\ after.settled = ledger.settled /\ after.delta = ledger.delta
            /\ \A h \in HypothesisIds : after.status[h] =
                 IF h \in Hypotheses THEN "open" ELSE ledger.status[h]
            /\ \A a \in AgentIds :
                 /\ after.available[a] = IF a \in Agents THEN Grant
                                                         ELSE ledger.available[a]
                 /\ after.staked[a] = IF a \in Agents THEN 0 ELSE ledger.staked[a]
                 /\ after.reputation[a] = IF a \in Agents THEN StartingReputation[a]
                                                          ELSE ledger.reputation[a]
BY DEF SeedWorld, Ledgers

LEMMA AcceptForecastEffect ==
  ASSUME NEW ledger \in Ledgers, NEW m \in ForecastMessages
  PROVE  LET after == AcceptForecast(ledger, m)
         IN /\ after.events = ledger.events /\ after.agents = ledger.agents
            /\ after.reputation = ledger.reputation /\ after.status = ledger.status
            /\ after.outcome = ledger.outcome /\ after.settled = ledger.settled
            /\ after.delta = ledger.delta
            /\ \A h \in HypothesisIds, a \in AgentIds : after.forecast[h][a] =
                 IF h = m.hypothesis /\ a = m.agent
                 THEN [stake |-> m.stake,
                       probability |-> ClampProbability(m.probability)]
                 ELSE ledger.forecast[h][a]
            /\ \A a \in AgentIds :
                 /\ after.available[a] =
                      IF a = m.agent
                      THEN ledger.available[a] + LockedHere(ledger, m) - m.stake
                      ELSE ledger.available[a]
                 /\ after.staked[a] =
                      IF a = m.agent
                      THEN ledger.staked[a] - LockedHere(ledger, m) + m.stake
                      ELSE ledger.staked[a]
BY DEF AcceptForecast, Ledgers, ForecastMessages

LEMMA RejectForecastEffect ==
  ASSUME NEW ledger \in Ledgers, NEW m \in ForecastMessages
  PROVE  LET after == RejectForecast(ledger, m)
         IN /\ after.events = ledger.events /\ after.agents = ledger.agents
            /\ after.available = ledger.available /\ after.staked = ledger.staked
            /\ after.reputation = ledger.reputation /\ after.status = ledger.status
            /\ after.forecast = ledger.forecast /\ after.outcome = ledger.outcome
            /\ after.settled = ledger.settled /\ after.delta = ledger.delta
BY DEF RejectForecast, Ledgers

LEMMA SettleHypothesisEffect ==
  ASSUME NEW ledger \in Ledgers, NEW h \in HypothesisIds, NEW o \in {0, 1}
  PROVE  LET after == SettleHypothesis(ledger, h, o)
             due == Due(ledger, h)
         IN /\ after.events = ledger.events /\ after.agents = ledger.agents
            /\ after.forecast = ledger.forecast
            /\ \A g \in HypothesisIds :
                 /\ after.outcome[g] = IF g = h THEN o ELSE ledger.outcome[g]
                 /\ after.status[g] = IF g = h THEN "resolved" ELSE ledger.status[g]
            /\ after.settled = ledger.settled \cup ({h} \X due)
            /\ \A g \in HypothesisIds, a \in AgentIds : after.delta[g][a] =
                 IF g = h /\ a \in due THEN SettlementOf(ledger, h, a, o).delta
                                       ELSE ledger.delta[g][a]
            /\ \A a \in AgentIds :
                 /\ after.reputation[a] =
                      IF a \in due THEN SettlementOf(ledger, h, a, o).reputation
                                   ELSE ledger.reputation[a]
                 /\ after.available[a] =
                      IF a \in due
                      THEN ledger.available[a] + ledger.forecast[h][a].stake
                             + SettlementOf(ledger, h, a, o).delta
                      ELSE ledger.available[a]
                 /\ after.staked[a] =
                      IF a \in due
                      THEN ledger.staked[a] - ledger.forecast[h][a].stake
                      ELSE ledger.staked[a]
BY DEF SettleHypothesis, Ledgers

-----------------------------------------------------------------------------
(***************************************************************************)
(* The inductive invariant of a ledger.  Besides what is wanted (staked    *)
(* credits are backed, no negative balance, Replayable) it needs that an   *)
(* outcome row and the status go together, and that an agent's reputation  *)
(* is within its bounds.  `missing' is what each staked column falls short *)
(* of the live forecasts: nothing, unless an agent was granted again.      *)
(***************************************************************************)
Solvent(ledger) == \A a \in AgentIds : ledger.available[a] >= 0

OutcomesResolve(ledger) ==
  \A h \in HypothesisIds :
    ledger.outcome[h] # NoOutcome => ledger.status[h] = "resolved"

NothingBeforeSeed(ledger) ==
  ~Seeded(ledger) =>
    /\ ledger.agents = {} /\ ledger.settled = {}
    /\ \A a \in AgentIds : ledger.available[a] = 0 /\ ledger.staked[a] = 0

ReputationsInRange(ledger) ==
  \A a \in ledger.agents : ledger.reputation[a] \in RepFloor..RepCeil

BackedBut(ledger, missing) ==
  \A a \in AgentIds :
    ledger.staked[a] + missing[a] = Cardinality(LockedCredits(ledger, a))

BooksInv(ledger, missing) ==
  /\ ledger \in Ledgers
  /\ missing \in [AgentIds -> Int]
  /\ BackedBut(ledger, missing)
  /\ Solvent(ledger)
  /\ Replayable(ledger)
  /\ OutcomesResolve(ledger)
  /\ ReputationsInRange(ledger)

(* The worker's database: nothing is missing, nothing precedes the seed.   *)
NothingMissing == [a \in AgentIds |-> 0]

LedgerInv(ledger) == BooksInv(ledger, NothingMissing) /\ NothingBeforeSeed(ledger)

LEMMA NothingMissingMeansBacked ==
  ASSUME NEW ledger \in Ledgers
  PROVE  BackedBut(ledger, NothingMissing) <=> Backed(ledger)
BY DEF BackedBut, Backed, NothingMissing, Ledgers

LEMMA LedgerInvHas ==
  ASSUME NEW ledger, LedgerInv(ledger)
  PROVE  ledger \in Ledgers /\ Backed(ledger) /\ Solvent(ledger) /\ Replayable(ledger)
BY NothingMissingMeansBacked DEF LedgerInv, BooksInv

LEMMA BackedAndSolvent ==
  ASSUME NEW ledger, LedgerInv(ledger)
  PROVE  NonNegative(ledger)
<1>1. ledger \in Ledgers /\ Backed(ledger) /\ Solvent(ledger)
  BY LedgerInvHas
<1> QED BY <1>1, LockedCreditsFinite DEF Backed, Solvent, NonNegative

LEMMA EmptyLedgerInv == LedgerInv(EmptyLedger)
<1>1. \A a \in AgentIds : LockedCredits(EmptyLedger, a) = {}
  BY DEF LockedCredits, LockedOn, EmptyLedger, NoForecast
<1>2. Backed(EmptyLedger)
  BY <1>1, FS_EmptySet DEF Backed, EmptyLedger
<1>3. Solvent(EmptyLedger) /\ Replayable(EmptyLedger)
  BY DEF Solvent, Replayable, EmptyLedger
<1>4. /\ OutcomesResolve(EmptyLedger) /\ NothingBeforeSeed(EmptyLedger)
      /\ ReputationsInRange(EmptyLedger)
  BY DEF OutcomesResolve, NothingBeforeSeed, ReputationsInRange, EmptyLedger
<1>5. NothingMissing \in [AgentIds -> Int]
  BY DEF NothingMissing
<1> QED
  BY <1>2, <1>3, <1>4, <1>5, EmptyLedgerType, NothingMissingMeansBacked
     DEF LedgerInv, BooksInv

(***************************************************************************)
(* A change that touches neither a balance, nor a forecast, nor a          *)
(* settlement, nor an outcome.                                             *)
(***************************************************************************)
SameBooks(before, after) ==
  /\ after \in Ledgers
  /\ after.agents = before.agents
  /\ after.available = before.available /\ after.staked = before.staked
  /\ after.reputation = before.reputation /\ after.status = before.status
  /\ after.forecast = before.forecast /\ after.outcome = before.outcome
  /\ after.settled = before.settled /\ after.delta = before.delta

LEMMA SameBooksKeep ==
  ASSUME NEW before, NEW after, NEW missing, BooksInv(before, missing),
         SameBooks(before, after)
  PROVE  /\ BooksInv(after, missing)
         /\ NothingBeforeSeed(before) => NothingBeforeSeed(after)
         /\ KeepsResolutions(before, after)
         /\ Conserves(before, after)
         /\ EarnsReputation(before, after)
<1> USE DEF BooksInv, SameBooks
<1>1. BackedBut(after, missing)
  <2>1. \A h \in HypothesisIds, a \in AgentIds :
          LockedOn(after, h, a) = LockedOn(before, h, a)
    BY DEF LockedOn
  <2>2. \A a \in AgentIds : LockedCredits(after, a) = LockedCredits(before, a)
    BY <2>1 DEF LockedCredits
  <2> QED BY <2>2 DEF BackedBut
<1>2. Solvent(after) /\ OutcomesResolve(after) /\ ReputationsInRange(after)
  BY DEF Solvent, OutcomesResolve, ReputationsInRange
<1>3. Replayable(after)
  BY DEF Replayable
<1>4. Seeded(after) = Seeded(before)
  BY DEF Seeded
<1>5. NothingBeforeSeed(before) => NothingBeforeSeed(after)
  BY <1>4 DEF NothingBeforeSeed
<1>6. KeepsResolutions(before, after)
  BY DEF KeepsResolutions
<1>7. \A a \in AgentIds : FreshlySettled(before, after, a) = {}
  BY DEF FreshlySettled
<1>8. Conserves(before, after)
  <2>1. \A a \in AgentIds : Total(after, a) - Total(before, a) = 0
    BY DEF Total, Ledgers
  <2> QED BY <1>4, <1>7, <2>1 DEF Conserves
<1>9. EarnsReputation(before, after)
  <2>1. \A a \in AgentIds : after.reputation[a] - before.reputation[a] = 0
    BY DEF Ledgers
  <2> QED BY <1>7, <2>1 DEF EarnsReputation
<1> QED BY <1>1, <1>2, <1>3, <1>5, <1>6, <1>8, <1>9

LEMMA SeedKeeps ==
  ASSUME NEW ledger, LedgerInv(ledger)
  PROVE  /\ LedgerInv(SeedWorld(ledger))
         /\ KeepsResolutions(ledger, SeedWorld(ledger))
         /\ Conserves(ledger, SeedWorld(ledger))
         /\ EarnsReputation(ledger, SeedWorld(ledger))
<1> DEFINE after == SeedWorld(ledger)
<1>0. ledger \in Ledgers /\ BooksInv(ledger, NothingMissing)
  BY DEF LedgerInv, BooksInv
<1>1. CASE Seeded(ledger)
  <2>1. SameBooks(ledger, after)
    BY <1>1, <1>0 DEF SameBooks, SeedWorld
  <2> QED BY <1>0, <2>1, SameBooksKeep DEF LedgerInv
<1>2. CASE ~Seeded(ledger)
  <2>1. /\ ledger.agents = {} /\ ledger.settled = {}
        /\ \A a \in AgentIds : ledger.available[a] = 0 /\ ledger.staked[a] = 0
    BY <1>2 DEF LedgerInv, NothingBeforeSeed
  <2>2. after \in Ledgers
    BY <1>0, SeedWorldType
  <2>3. /\ after.agents = Agents /\ after.forecast = ledger.forecast
        /\ after.outcome = ledger.outcome /\ after.settled = {}
        /\ \A h \in HypothesisIds : after.status[h] =
             IF h \in Hypotheses THEN "open" ELSE ledger.status[h]
        /\ \A a \in AgentIds :
             /\ after.available[a] = IF a \in Agents THEN Grant ELSE 0
             /\ after.staked[a] = 0
             /\ after.reputation[a] = IF a \in Agents THEN StartingReputation[a]
                                                      ELSE ledger.reputation[a]
    BY <1>0, <1>2, <2>1, SeedWorldEffect
  <2>4. Seeded(after)
    BY <2>3, LedgerAssumption DEF Seeded
  <2>5. \A h \in HypothesisIds : ledger.outcome[h] = NoOutcome
    BY <1>2 DEF LedgerInv, BooksInv, OutcomesResolve, Seeded
  <2> HIDE DEF after
  <2>6. Backed(after)
    <3>1. \A h \in HypothesisIds, a \in AgentIds :
            LockedOn(after, h, a) = LockedOn(ledger, h, a)
      BY <2>1, <2>3 DEF LockedOn
    <3>2. \A a \in AgentIds : LockedCredits(after, a) = LockedCredits(ledger, a)
      BY <3>1 DEF LockedCredits
    <3> QED BY <1>0, <2>1, <2>3, <3>2, LedgerInvHas DEF Backed
  <2>7. Solvent(after)
    BY <2>3, LedgerAssumption DEF Solvent
  <2>8. Replayable(after) /\ OutcomesResolve(after) /\ NothingBeforeSeed(after)
    BY <2>3, <2>4, <2>5 DEF Replayable, OutcomesResolve, NothingBeforeSeed
  <2>9. ReputationsInRange(after)
    BY <2>3, LedgerAssumption DEF ReputationsInRange
  <2>10. KeepsResolutions(ledger, after)
    BY <2>5 DEF KeepsResolutions
  <2>11. Conserves(ledger, after)
    <3>1. \A a \in AgentIds :
            Total(after, a) - Total(ledger, a) = IF a \in Agents THEN Grant ELSE 0
      BY <2>1, <2>3, LedgerAssumption DEF Total
    <3> QED BY <1>2, <2>4, <3>1 DEF Conserves
  <2>12. EarnsReputation(ledger, after)
    BY <1>2 DEF EarnsReputation
  <2> QED
    BY <1>0, <2>2, <2>6, <2>7, <2>8, <2>9, <2>10, <2>11, <2>12,
       NothingMissingMeansBacked
       DEF LedgerInv, BooksInv, after
<1> QED BY <1>1, <1>2

(***************************************************************************)
(* An accepted forecast: the agent's balance covers it, net of what it     *)
(* replaces, and no settlements row references what it replaces.           *)
(***************************************************************************)
LEMMA AcceptKeeps ==
  ASSUME NEW ledger, NEW missing, BooksInv(ledger, missing), NEW m \in ForecastMessages,
         Accepts(ledger, m), <<m.hypothesis, m.agent>> \notin ledger.settled,
         ledger.status[m.hypothesis] # "absent"
  PROVE  /\ BooksInv(AcceptForecast(ledger, m), missing)
         /\ NothingBeforeSeed(AcceptForecast(ledger, m))
         /\ KeepsResolutions(ledger, AcceptForecast(ledger, m))
         /\ Conserves(ledger, AcceptForecast(ledger, m))
         /\ EarnsReputation(ledger, AcceptForecast(ledger, m))
<1> DEFINE after == AcceptForecast(ledger, m)
           h == m.hypothesis
           b == m.agent
           previous == LockedHere(ledger, m)
<1>1. ledger \in Ledgers /\ after \in Ledgers
  BY AcceptForecastType DEF BooksInv
<1>2. h \in HypothesisIds /\ b \in AgentIds /\ m.stake \in Int
  BY DEF ForecastMessages
<1>3. previous \in Nat
  BY <1>1, <1>2, LedgerAssumption DEF Ledgers, Forecasts, LockedHere
<1>4. ledger.forecast[h][b].stake = previous
  BY DEF LockedHere
<1>5. /\ after.agents = ledger.agents /\ after.reputation = ledger.reputation
      /\ after.status = ledger.status /\ after.outcome = ledger.outcome
      /\ after.settled = ledger.settled /\ after.delta = ledger.delta
      /\ after.forecast[h][b].stake = m.stake
      /\ \A g \in HypothesisIds, a \in AgentIds :
           g # h \/ a # b => after.forecast[g][a] = ledger.forecast[g][a]
      /\ \A a \in AgentIds \ {b} : /\ after.available[a] = ledger.available[a]
                                   /\ after.staked[a] = ledger.staked[a]
      /\ after.available[b] = ledger.available[b] + previous - m.stake
      /\ after.staked[b] = ledger.staked[b] - previous + m.stake
  <2>1. /\ after.agents = ledger.agents /\ after.reputation = ledger.reputation
        /\ after.status = ledger.status /\ after.outcome = ledger.outcome
        /\ after.settled = ledger.settled /\ after.delta = ledger.delta
    BY <1>1, AcceptForecastEffect
  <2>2. \A g \in HypothesisIds, a \in AgentIds : after.forecast[g][a] =
          IF g = h /\ a = b
          THEN [stake |-> m.stake, probability |-> ClampProbability(m.probability)]
          ELSE ledger.forecast[g][a]
    BY <1>1, AcceptForecastEffect
  <2>3. \A a \in AgentIds :
          /\ after.available[a] = IF a = b THEN ledger.available[a] + previous - m.stake
                                          ELSE ledger.available[a]
          /\ after.staked[a] = IF a = b THEN ledger.staked[a] - previous + m.stake
                                       ELSE ledger.staked[a]
    BY <1>1, AcceptForecastEffect
  <2> HIDE DEF after, h, b, previous
  <2>4. after.forecast[h][b].stake = m.stake
    BY <1>2, <2>2
  <2> QED BY <1>2, <2>1, <2>2, <2>3, <2>4
<1>6. b \in ledger.agents /\ m.stake <= ledger.available[b] + previous
  BY DEF Accepts
<1>7. <<h, b>> \notin ledger.settled
  OBVIOUS
<1>8. /\ ledger.available \in [AgentIds -> Int] /\ ledger.staked \in [AgentIds -> Int]
      /\ ledger.reputation \in [AgentIds -> Int]
  BY <1>1 DEF Ledgers
<1> HIDE DEF after, previous, h, b
<1>9. BackedBut(after, missing)
  <2>1. LockedOn(after, h, b) = m.stake /\ LockedOn(ledger, h, b) = previous
    BY <1>4, <1>5, <1>7 DEF LockedOn
  <2>2. \A g \in HypothesisIds, a \in AgentIds :
          g # h \/ a # b => LockedOn(after, g, a) = LockedOn(ledger, g, a)
    BY <1>5 DEF LockedOn
  <2>3. ASSUME NEW a \in AgentIds
        PROVE  after.staked[a] + missing[a] = Cardinality(LockedCredits(after, a))
    <3>1. ledger.staked[a] + missing[a] = Cardinality(LockedCredits(ledger, a))
      BY DEF BooksInv, BackedBut
    <3> missing[a] \in Int
      BY DEF BooksInv
    <3>2. CASE a = b
      <4>1. Cardinality(LockedCredits(after, b)) =
              Cardinality(LockedCredits(ledger, b))
                + LockedOn(after, h, b) - LockedOn(ledger, h, b)
        BY <1>1, <1>2, <2>2, LockedChange
      <4>2. Cardinality(LockedCredits(after, b)) = ledger.staked[b] + missing[b] + m.stake - previous
        BY <2>1, <3>1, <3>2, <4>1
      <4> QED BY <1>2, <1>3, <1>5, <1>8, <3>2, <4>2
    <3>3. CASE a # b
      <4>1. LockedCredits(after, a) = LockedCredits(ledger, a)
        BY <2>2, <3>3 DEF LockedCredits
      <4> QED BY <1>5, <3>1, <3>3, <4>1
    <3> QED BY <3>2, <3>3
  <2> QED BY <2>3 DEF BackedBut
<1>10. Solvent(after)
  <2>1. after.available[b] >= 0
    BY <1>2, <1>3, <1>5, <1>6, <1>8
  <2> QED BY <1>5, <2>1 DEF BooksInv, Solvent
<1>11. Replayable(after)
  <2>1. \A g \in HypothesisIds, a \in AgentIds :
          <<g, a>> \in ledger.settled => after.forecast[g][a] = ledger.forecast[g][a]
    BY <1>5, <1>7
  <2> QED BY <1>5, <2>1 DEF BooksInv, Replayable
<1>12. Seeded(ledger) /\ Seeded(after)
  BY <1>2, <1>5 DEF Seeded, h
<1>13. OutcomesResolve(after) /\ NothingBeforeSeed(after) /\ ReputationsInRange(after)
  BY <1>5, <1>12 DEF BooksInv, OutcomesResolve, NothingBeforeSeed, ReputationsInRange
<1>14. KeepsResolutions(ledger, after)
  BY <1>5, <1>7 DEF KeepsResolutions
<1>15. \A a \in AgentIds : FreshlySettled(ledger, after, a) = {}
  BY <1>5 DEF FreshlySettled
<1>16. Conserves(ledger, after)
  <2>1. ASSUME NEW a \in AgentIds
        PROVE  Total(after, a) - Total(ledger, a) = 0
    <3>1. CASE a = b
      BY <1>2, <1>3, <1>5, <1>8, <3>1 DEF Total
    <3>2. CASE a # b
      BY <1>5, <1>8, <3>2 DEF Total
    <3> QED BY <3>1, <3>2
  <2> QED BY <1>12, <1>15, <2>1 DEF Conserves
<1>17. EarnsReputation(ledger, after)
  <2>1. \A a \in AgentIds : after.reputation[a] - ledger.reputation[a] = 0
    BY <1>5, <1>8
  <2> QED BY <1>15, <2>1 DEF EarnsReputation
<1> QED
  BY <1>1, <1>9, <1>10, <1>11, <1>13, <1>14, <1>16, <1>17 DEF BooksInv, after

(***************************************************************************)
(* A settlements row: its delta takes at most the stake, and the agent's   *)
(* reputation stays in range and never moves against the delta.            *)
(***************************************************************************)
LEMMA SettlementOfBounds ==
  ASSUME NEW ledger, NEW missing, BooksInv(ledger, missing), NEW h \in HypothesisIds, NEW o \in {0, 1},
         NEW a \in Due(ledger, h)
  PROVE  LET row == SettlementOf(ledger, h, a, o)
             change == row.reputation - ledger.reputation[a]
         IN /\ row.delta \in Int /\ ledger.forecast[h][a].stake + row.delta >= 0
            /\ row.reputation \in RepFloor..RepCeil
            /\ change \in Int
            /\ row.delta > 0 => change >= 0
            /\ row.delta < 0 => change <= 0
<1> DEFINE f == ledger.forecast[h][a]
           gain == Improvement(Prior[h], f.probability, o)
           row == SettlementOf(ledger, h, a, o)
<1>1. a \in AgentIds /\ a \in ledger.agents
  BY DueType DEF BooksInv
<1>2. /\ f.stake \in Nat /\ f.probability \in 0..100 /\ Prior[h] \in 0..100
  BY <1>1, LedgerAssumption DEF BooksInv, Ledgers, Forecasts
<1>3. ledger.reputation[a] \in RepFloor..RepCeil
  BY <1>1 DEF BooksInv, ReputationsInRange
<1>4. /\ row.delta = CreditDelta(f.stake, Prior[h], f.probability, o)
      /\ row.reputation = UpdateReputation(ledger.reputation[a], gain)
  BY DEF SettlementOf
<1>5. gain \in Int
  BY <1>2, ImprovementRange
<1>6. /\ row.delta \in (-f.stake)..f.stake
      /\ gain >= 0 => row.delta >= 0
      /\ gain <= 0 => row.delta <= 0
  BY <1>2, <1>4, CreditDeltaRange
<1> HIDE DEF gain, row, f
<1>7. /\ row.reputation \in RepFloor..RepCeil
      /\ gain >= 0 => row.reputation >= ledger.reputation[a]
      /\ gain <= 0 => row.reputation <= ledger.reputation[a]
  BY <1>3, <1>4, <1>5, ReputationMoves
<1>8. RepFloor \in Int /\ RepCeil \in Int
  BY DEF RepFloor, RepCeil
<1>9. row.delta \in Int /\ f.stake + row.delta >= 0
  BY <1>2, <1>6
<1>10. row.reputation - ledger.reputation[a] \in Int
  BY <1>3, <1>7, <1>8
<1>11. /\ row.delta > 0 => row.reputation - ledger.reputation[a] >= 0
       /\ row.delta < 0 => row.reputation - ledger.reputation[a] <= 0
  BY <1>3, <1>5, <1>6, <1>7, <1>8, <1>9
<1> QED BY <1>7, <1>9, <1>10, <1>11 DEF row, f

(***************************************************************************)
(* The settlement of a hypothesis that is there and not resolved.          *)
(***************************************************************************)
LEMMA SettleKeeps ==
  ASSUME NEW ledger, NEW missing, BooksInv(ledger, missing), NEW h \in HypothesisIds, NEW o \in {0, 1},
         ~AlreadyResolved(ledger, h), ledger.status[h] # "absent"
  PROVE  /\ BooksInv(SettleHypothesis(ledger, h, o), missing)
         /\ NothingBeforeSeed(SettleHypothesis(ledger, h, o))
         /\ KeepsResolutions(ledger, SettleHypothesis(ledger, h, o))
         /\ Conserves(ledger, SettleHypothesis(ledger, h, o))
         /\ EarnsReputation(ledger, SettleHypothesis(ledger, h, o))
<1> DEFINE after == SettleHypothesis(ledger, h, o)
           due == Due(ledger, h)
           row(a) == SettlementOf(ledger, h, a, o)
           stake(a) == ledger.forecast[h][a].stake
<1>1. ledger \in Ledgers /\ after \in Ledgers
  BY SettleHypothesisType DEF BooksInv
<1>2. /\ after.agents = ledger.agents /\ after.forecast = ledger.forecast
      /\ after.settled = ledger.settled \cup ({h} \X due)
  BY <1>1, SettleHypothesisEffect
<1>3. \A g \in HypothesisIds :
        /\ after.outcome[g] = IF g = h THEN o ELSE ledger.outcome[g]
        /\ after.status[g] = IF g = h THEN "resolved" ELSE ledger.status[g]
  BY <1>1, SettleHypothesisEffect
<1>4. \A g \in HypothesisIds, a \in AgentIds : after.delta[g][a] =
        IF g = h /\ a \in due THEN row(a).delta ELSE ledger.delta[g][a]
  BY <1>1, SettleHypothesisEffect
<1>5. \A a \in AgentIds :
        /\ after.reputation[a] = IF a \in due THEN row(a).reputation
                                              ELSE ledger.reputation[a]
        /\ after.available[a] =
             IF a \in due THEN ledger.available[a] + stake(a) + row(a).delta
                         ELSE ledger.available[a]
        /\ after.staked[a] = IF a \in due THEN ledger.staked[a] - stake(a)
                                          ELSE ledger.staked[a]
  BY <1>1, SettleHypothesisEffect
<1>6. \A a \in due : /\ a \in AgentIds /\ a \in ledger.agents
                     /\ <<h, a>> \notin ledger.settled
                     /\ stake(a) \in Nat
  BY <1>1, DueType, LedgerAssumption DEF Due, Ledgers, Forecasts
<1>7. \A a \in due :
        /\ row(a).delta \in Int /\ stake(a) + row(a).delta >= 0
        /\ row(a).reputation \in RepFloor..RepCeil
        /\ row(a).reputation - ledger.reputation[a] \in Int
        /\ row(a).delta > 0 => row(a).reputation - ledger.reputation[a] >= 0
        /\ row(a).delta < 0 => row(a).reputation - ledger.reputation[a] <= 0
  BY SettlementOfBounds
<1>8. /\ ledger.available \in [AgentIds -> Int] /\ ledger.staked \in [AgentIds -> Int]
      /\ ledger.reputation \in [AgentIds -> Int] /\ ledger.agents \subseteq AgentIds
  BY <1>1 DEF Ledgers
<1>9. /\ Seeded(ledger) /\ Seeded(after)
  BY <1>3 DEF Seeded
<1>10. ledger.outcome[h] = NoOutcome /\ o # NoOutcome
  BY DEF AlreadyResolved, NoOutcome
<1>11. \A a \in due : row(a).delta =
         CreditDelta(stake(a), Prior[h], ledger.forecast[h][a].probability, o)
  BY DEF SettlementOf
<1>12. \A a \in AgentIds : <<h, a>> \notin ledger.settled
  BY <1>10 DEF BooksInv, Replayable, NoOutcome
<1> HIDE DEF after, due, row
<1>13. BackedBut(after, missing)
  <2> SUFFICES ASSUME NEW a \in AgentIds
               PROVE  after.staked[a] + missing[a] = Cardinality(LockedCredits(after, a))
    BY DEF BackedBut
  <2>1. /\ ledger.staked[a] + missing[a] = Cardinality(LockedCredits(ledger, a))
        /\ missing[a] \in Int
    BY DEF BooksInv, BackedBut
  <2>2. \A g \in HypothesisIds \ {h} : LockedOn(after, g, a) = LockedOn(ledger, g, a)
    BY <1>2 DEF LockedOn
  <2>3. CASE a \in due
    <3>1. LockedOn(after, h, a) = 0 /\ LockedOn(ledger, h, a) = stake(a)
      BY <1>2, <1>6, <2>3 DEF LockedOn
    <3>2. Cardinality(LockedCredits(after, a)) =
            Cardinality(LockedCredits(ledger, a))
              + LockedOn(after, h, a) - LockedOn(ledger, h, a)
      BY <1>1, <2>2, LockedChange
    <3>3. Cardinality(LockedCredits(after, a)) = ledger.staked[a] + missing[a] + 0 - stake(a)
      BY <2>1, <3>1, <3>2
    <3>4. after.staked[a] = ledger.staked[a] - stake(a)
      BY <1>5, <2>3
    <3>5. ledger.staked[a] \in Int /\ stake(a) \in Nat
      BY <1>6, <1>8, <2>3
    <3> HIDE DEF stake
    <3> QED BY <2>1, <3>3, <3>4, <3>5
  <2>4. CASE a \notin due
    <3>1. LockedOn(after, h, a) = LockedOn(ledger, h, a)
      BY <1>2, <2>4 DEF LockedOn
    <3>2. LockedCredits(after, a) = LockedCredits(ledger, a)
      BY <2>2, <3>1 DEF LockedCredits
    <3> QED BY <1>5, <2>1, <2>4, <3>2
  <2> QED BY <2>3, <2>4
<1>14. Solvent(after)
  <2> SUFFICES ASSUME NEW a \in AgentIds PROVE after.available[a] >= 0
    BY DEF Solvent
  <2>1. ledger.available[a] >= 0
    BY DEF BooksInv, Solvent
  <2>2. CASE a \in due
    <3>1. after.available[a] = ledger.available[a] + stake(a) + row(a).delta
      BY <1>5, <2>2
    <3>2. ledger.available[a] \in Int /\ stake(a) \in Nat /\ row(a).delta \in Int
      BY <1>6, <1>7, <1>8, <2>2
    <3>3. stake(a) + row(a).delta >= 0
      BY <1>7, <2>2
    <3> HIDE DEF stake
    <3> QED BY <2>1, <3>1, <3>2, <3>3
  <2>3. CASE a \notin due
    BY <1>5, <2>1, <2>3
  <2> QED BY <2>2, <2>3
<1>15. Replayable(after)
  <2> SUFFICES ASSUME NEW g \in HypothesisIds, NEW a \in AgentIds,
                      <<g, a>> \in after.settled
               PROVE  /\ after.status[g] = "resolved" /\ after.outcome[g] \in {0, 1}
                      /\ after.delta[g][a] =
                           CreditDelta(after.forecast[g][a].stake, Prior[g],
                                       after.forecast[g][a].probability,
                                       after.outcome[g])
    BY DEF Replayable
  <2>1. CASE g = h
    <3>1. a \in due
      BY <1>2, <1>12, <2>1
    <3> QED BY <1>2, <1>3, <1>4, <1>11, <2>1, <3>1
  <2>2. CASE g # h
    <3>1. <<g, a>> \in ledger.settled
      BY <1>2, <2>2
    <3> QED BY <1>2, <1>3, <1>4, <2>2, <3>1 DEF BooksInv, Replayable
  <2> QED BY <2>1, <2>2
<1>16. OutcomesResolve(after) /\ NothingBeforeSeed(after)
  BY <1>3, <1>9 DEF BooksInv, OutcomesResolve, NothingBeforeSeed
<1>17. ReputationsInRange(after)
  BY <1>2, <1>5, <1>7, <1>8 DEF BooksInv, ReputationsInRange
<1>18. KeepsResolutions(ledger, after)
  BY <1>2, <1>3, <1>4, <1>10 DEF KeepsResolutions
<1>19. \A a \in AgentIds : FreshlySettled(ledger, after, a) =
                             IF a \in due THEN {h} ELSE {}
  BY <1>2, <1>6 DEF FreshlySettled
<1>20. Conserves(ledger, after)
  <2>1. ASSUME NEW a \in AgentIds, a \in due
        PROVE  Total(after, a) - Total(ledger, a) = after.delta[h][a]
    <3>1. after.delta[h][a] = row(a).delta
      BY <1>4, <2>1
    <3>2. /\ after.available[a] = ledger.available[a] + stake(a) + row(a).delta
          /\ after.staked[a] = ledger.staked[a] - stake(a)
      BY <1>5, <2>1
    <3>3. /\ ledger.available[a] \in Int /\ ledger.staked[a] \in Int
          /\ stake(a) \in Nat /\ row(a).delta \in Int
      BY <1>6, <1>7, <1>8, <2>1
    <3> HIDE DEF stake
    <3> QED BY <3>1, <3>2, <3>3 DEF Total
  <2>2. ASSUME NEW a \in AgentIds, a \notin due
        PROVE  Total(after, a) - Total(ledger, a) = 0
    BY <1>5, <1>8, <2>2 DEF Total
  <2> QED BY <1>9, <1>19, <2>1, <2>2 DEF Conserves
<1>21. EarnsReputation(ledger, after)
  <2>1. ASSUME NEW a \in AgentIds, a \in due
        PROVE  LET change == after.reputation[a] - ledger.reputation[a]
               IN /\ after.delta[h][a] > 0 => change >= 0
                  /\ after.delta[h][a] < 0 => change <= 0
    BY <1>4, <1>5, <1>7, <2>1
  <2>2. ASSUME NEW a \in AgentIds, a \notin due
        PROVE  after.reputation[a] - ledger.reputation[a] = 0
    BY <1>5, <1>8, <2>2
  <2> QED BY <1>19, <2>1, <2>2 DEF EarnsReputation
<1> QED
  BY <1>1, <1>13, <1>14, <1>15, <1>16, <1>17, <1>18, <1>20, <1>21 DEF BooksInv, after

LEMMA HandleKeeps ==
  ASSUME NEW ledger, NEW missing, BooksInv(ledger, missing), NEW m \in AllMessages, ~Raises(ledger, m)
  PROVE  /\ BooksInv(Handle(ledger, m), missing)
         /\ NothingBeforeSeed(ledger) => NothingBeforeSeed(Handle(ledger, m))
         /\ KeepsResolutions(ledger, Handle(ledger, m))
         /\ Conserves(ledger, Handle(ledger, m))
         /\ EarnsReputation(ledger, Handle(ledger, m))
<1>1. ledger \in Ledgers
  BY DEF BooksInv
<1>2. CASE m \in ForecastMessages
  <2>1. Handle(ledger, m) = HandleForecast(ledger, m) /\ m.kind = "forecast"
    BY <1>2 DEF Handle, ForecastMessages
  <2>2. CASE Accepts(ledger, m)
    <3>1. /\ <<m.hypothesis, m.agent>> \notin ledger.settled
          /\ ledger.status[m.hypothesis] # "absent"
      BY <2>1, <2>2 DEF Raises
    <3> QED BY <1>2, <2>1, <2>2, <3>1, AcceptKeeps DEF HandleForecast
  <2>3. CASE ~Accepts(ledger, m)
    <3>1. SameBooks(ledger, RejectForecast(ledger, m))
      BY <1>1, <1>2, RejectForecastType, RejectForecastEffect DEF SameBooks
    <3> QED BY <2>1, <2>3, <3>1, SameBooksKeep DEF HandleForecast
  <2> QED BY <2>2, <2>3
<1>3. CASE m \in OutcomeMessages
  <2>1. Handle(ledger, m) = HandleOutcome(ledger, m) /\ m.kind = "outcome"
    BY <1>3 DEF Handle, OutcomeMessages
  <2>2. m.hypothesis \in HypothesisIds /\ m.outcome \in {0, 1}
    BY <1>3 DEF OutcomeMessages
  <2>3. CASE AlreadyResolved(ledger, m.hypothesis)
    <3>1. SameBooks(ledger, ledger)
      BY <1>1 DEF SameBooks
    <3> QED BY <2>1, <2>3, <3>1, SameBooksKeep DEF HandleOutcome
  <2>4. CASE ~AlreadyResolved(ledger, m.hypothesis)
    <3>1. ledger.status[m.hypothesis] # "absent"
      BY <2>1 DEF Raises
    <3> QED BY <2>1, <2>2, <2>4, <3>1, SettleKeeps DEF HandleOutcome
  <2> QED BY <2>3, <2>4
<1>4. CASE m \in SignalMessages
  <2>1. Handle(ledger, m) = ledger
    BY <1>4 DEF Handle, SignalMessages
  <2>2. SameBooks(ledger, ledger)
    BY <1>1 DEF SameBooks
  <2> QED BY <2>1, <2>2, SameBooksKeep
<1> QED BY <1>2, <1>3, <1>4 DEF AllMessages

(***************************************************************************)
(* The event row changes no book: a handler sees the same books, raises in *)
(* the same cases, and its change is a change of the books before it.      *)
(***************************************************************************)
LEMMA WithEventSameBooks ==
  ASSUME NEW ledger \in Ledgers, NEW m \in AllMessages
  PROVE  SameBooks(ledger, WithEvent(ledger, m))
<1>1. WithEvent(ledger, m) \in Ledgers
  BY WithEventType
<1> QED BY <1>1 DEF SameBooks, WithEvent, Ledgers

LEMMA SameBooksRaise ==
  ASSUME NEW before \in Ledgers, NEW after \in Ledgers, SameBooks(before, after),
         NEW m \in AllMessages
  PROVE  Raises(after, m) = Raises(before, m)
BY DEF SameBooks, Raises, Accepts, LockedHere

LEMMA SameBooksChange ==
  ASSUME NEW before \in Ledgers, NEW middle \in Ledgers, NEW after \in Ledgers,
         SameBooks(before, middle)
  PROVE  /\ KeepsResolutions(middle, after) => KeepsResolutions(before, after)
         /\ Conserves(middle, after) => Conserves(before, after)
         /\ EarnsReputation(middle, after) => EarnsReputation(before, after)
<1> USE DEF SameBooks
<1>1. Seeded(middle) = Seeded(before)
  BY DEF Seeded
<1>2. \A a \in AgentIds : /\ FreshlySettled(middle, after, a) =
                               FreshlySettled(before, after, a)
                          /\ Total(middle, a) = Total(before, a)
  BY DEF FreshlySettled, Total
<1>3. KeepsResolutions(middle, after) => KeepsResolutions(before, after)
  BY DEF KeepsResolutions
<1>4. Conserves(middle, after) => Conserves(before, after)
  BY <1>1, <1>2 DEF Conserves
<1>5. EarnsReputation(middle, after) => EarnsReputation(before, after)
  BY <1>1, <1>2 DEF EarnsReputation
<1> QED BY <1>3, <1>4, <1>5

(***************************************************************************)
(* The transaction of one event.                                           *)
(***************************************************************************)
LEMMA ProcessKeepsBooks ==
  ASSUME NEW ledger, NEW missing, BooksInv(ledger, missing), NEW m \in AllMessages, ~Raises(ledger, m)
  PROVE  /\ BooksInv(Process(ledger, m), missing)
         /\ NothingBeforeSeed(ledger) => NothingBeforeSeed(Process(ledger, m))
         /\ KeepsResolutions(ledger, Process(ledger, m))
         /\ Conserves(ledger, Process(ledger, m))
         /\ EarnsReputation(ledger, Process(ledger, m))
<1> DEFINE middle == WithEvent(ledger, m)
           after == Process(ledger, m)
<1>1. ledger \in Ledgers /\ middle \in Ledgers
  BY WithEventType DEF BooksInv
<1>2. SameBooks(ledger, middle)
  BY <1>1, WithEventSameBooks
<1>3. /\ BooksInv(middle, missing)
      /\ NothingBeforeSeed(ledger) => NothingBeforeSeed(middle)
  BY <1>2, SameBooksKeep
<1>4. ~Raises(middle, m)
  BY <1>1, <1>2, SameBooksRaise
<1>5. after = Handle(middle, m)
  BY DEF Process
<1> HIDE DEF middle, after
<1>6. /\ BooksInv(after, missing)
      /\ NothingBeforeSeed(ledger) => NothingBeforeSeed(after)
      /\ KeepsResolutions(middle, after)
      /\ Conserves(middle, after) /\ EarnsReputation(middle, after)
  BY <1>3, <1>4, <1>5, HandleKeeps
<1>7. after \in Ledgers
  BY <1>6 DEF BooksInv
<1>8. /\ KeepsResolutions(ledger, after) /\ Conserves(ledger, after)
      /\ EarnsReputation(ledger, after)
  BY <1>1, <1>2, <1>6, <1>7, SameBooksChange
<1> QED BY <1>6, <1>8 DEF after

LEMMA ProcessKeeps ==
  ASSUME NEW ledger, LedgerInv(ledger), NEW m \in AllMessages, ~Raises(ledger, m)
  PROVE  /\ LedgerInv(Process(ledger, m))
         /\ KeepsResolutions(ledger, Process(ledger, m))
         /\ Conserves(ledger, Process(ledger, m))
         /\ EarnsReputation(ledger, Process(ledger, m))
BY ProcessKeepsBooks DEF LedgerInv

(***************************************************************************)
(* Handlers never take an event row away, nor add one.                     *)
(***************************************************************************)
LEMMA HandleEvents ==
  ASSUME NEW ledger \in Ledgers, NEW m \in AllMessages
  PROVE  Handle(ledger, m).events = ledger.events
<1>1. CASE m \in ForecastMessages
  <2>1. Handle(ledger, m) = HandleForecast(ledger, m)
    BY <1>1 DEF Handle, ForecastMessages
  <2>2. /\ AcceptForecast(ledger, m).events = ledger.events
        /\ RejectForecast(ledger, m).events = ledger.events
    BY <1>1, AcceptForecastEffect, RejectForecastEffect
  <2> QED BY <2>1, <2>2 DEF HandleForecast
<1>2. CASE m \in OutcomeMessages
  <2>1. Handle(ledger, m) = HandleOutcome(ledger, m)
    BY <1>2 DEF Handle, OutcomeMessages
  <2>2. m.hypothesis \in HypothesisIds /\ m.outcome \in {0, 1}
    BY <1>2 DEF OutcomeMessages
  <2>3. SettleHypothesis(ledger, m.hypothesis, m.outcome).events = ledger.events
    BY <2>2, SettleHypothesisEffect
  <2> QED BY <2>1, <2>3 DEF HandleOutcome
<1>3. CASE m \in SignalMessages
  BY <1>3 DEF Handle, SignalMessages
<1> QED BY <1>1, <1>2, <1>3 DEF AllMessages

LEMMA WithEventEvents ==
  ASSUME NEW ledger \in Ledgers, NEW m \in AllMessages
  PROVE  WithEvent(ledger, m).events = ledger.events \cup {m.id}
BY DEF WithEvent, Ledgers

LEMMA SeedWorldEvents ==
  ASSUME NEW ledger \in Ledgers
  PROVE  SeedWorld(ledger).events = ledger.events
BY SeedWorldEffect DEF SeedWorld
=============================================================================

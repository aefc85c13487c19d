------------------------------- MODULE Ledger -------------------------------
(***************************************************************************)
(* The economic state of one tenant, as the tables of storage/schema.sql   *)
(* hold it, and what the handlers of worker/main.py and                    *)
(* worker/settlement_runner.py do to it.  This module has no variables: a  *)
(* ledger is a record, an operator takes a ledger to the ledger its writes *)
(* leave.  Modules that have a database EXTEND it.                         *)
(*                                                                         *)
(*   events      ids in the events table (the idempotency boundary)        *)
(*   agents      ids of the registered agents                              *)
(*   available, staked, reputation    columns of agents                    *)
(*   status      column of hypotheses, "absent" when there is no row       *)
(*   forecast    the live row of a (hypothesis, agent), stake 0 when none: *)
(*               no accepted forecast has stake 0, as StakeMin > 0         *)
(*   outcome     the outcomes row, NoOutcome when there is none            *)
(*   settled     (hypothesis, agent) pairs whose forecast has a            *)
(*               settlements row                                           *)
(*   delta       credit_delta of that row                                  *)
(*   rejected    number of rejected_forecasts rows                         *)
(***************************************************************************)
EXTENDS Settlement, FiniteSets

CONSTANTS EventIds,     \* idempotency keys an event can carry
          AgentIds,     \* agents a forecast can name
          HypothesisIds,\* hypotheses a message can name
          Agents,       \* agents of the scenario (_seed_world)
          Hypotheses,   \* hypotheses of the scenario
          Prior,        \* prior_probability of each hypothesis, in hundredths
          StartingReputation,
          Grant,        \* EPOCH_GRANT
          StakeMin,     \* STAKE_MIN
          StakeMax      \* STAKE_MAX

ASSUME LedgerAssumption ==
  /\ Agents \subseteq AgentIds
  /\ Hypotheses \subseteq HypothesisIds /\ Hypotheses # {}
  /\ IsFiniteSet(HypothesisIds)
  /\ Prior \in [HypothesisIds -> 0..100]
  /\ StartingReputation \in [AgentIds -> RepFloor..RepCeil]
  /\ Grant \in Nat
  /\ StakeMin \in Nat \ {0}
  /\ StakeMax \in Nat

NoOutcome == -1
NoForecast == [stake |-> 0, probability |-> 0]

Statuses == {"absent", "open", "resolved", "expired"}

Forecasts == [stake : 0..StakeMax, probability : 0..100]

Ledgers ==
  [events : SUBSET EventIds,
   agents : SUBSET AgentIds,
   available : [AgentIds -> Int],
   staked : [AgentIds -> Int],
   reputation : [AgentIds -> Int],
   status : [HypothesisIds -> Statuses],
   forecast : [HypothesisIds -> [AgentIds -> Forecasts]],
   outcome : [HypothesisIds -> {NoOutcome, 0, 1}],
   settled : SUBSET (HypothesisIds \X AgentIds),
   delta : [HypothesisIds -> [AgentIds -> Int]],
   rejected : Nat]

EmptyLedger ==
  [events |-> {},
   agents |-> {},
   available |-> [a \in AgentIds |-> 0],
   staked |-> [a \in AgentIds |-> 0],
   reputation |-> [a \in AgentIds |-> 0],
   status |-> [h \in HypothesisIds |-> "absent"],
   forecast |-> [h \in HypothesisIds |-> [a \in AgentIds |-> NoForecast]],
   outcome |-> [h \in HypothesisIds |-> NoOutcome],
   settled |-> {},
   delta |-> [h \in HypothesisIds |-> [a \in AgentIds |-> 0]],
   rejected |-> 0]

(***************************************************************************)
(* Messages: signals.raw, forecasts.created, outcomes.resolved.            *)
(***************************************************************************)
SignalMessages == [kind : {"signal"}, id : EventIds]
ForecastMessages ==
  [kind : {"forecast"}, id : EventIds, hypothesis : HypothesisIds,
   agent : AgentIds, stake : Int, probability : 0..100]
OutcomeMessages ==
  [kind : {"outcome"}, id : EventIds, hypothesis : HypothesisIds,
   outcome : {0, 1}]

AllMessages == SignalMessages \cup ForecastMessages \cup OutcomeMessages

-----------------------------------------------------------------------------
(***************************************************************************)
(* _seed_world: a genuine first start inserts the scenario; any later one  *)
(* finds hypotheses and resumes.                                           *)
(***************************************************************************)
Seeded(ledger) == \E h \in HypothesisIds : ledger.status[h] # "absent"

Regranted(ledger) ==                                               \* mutant
  [ledger EXCEPT
     !.agents = Agents,
     !.status = [h \in HypothesisIds |->
                   IF h \in Hypotheses /\ @[h] = "absent" THEN "open" ELSE @[h]],
     !.available = [a \in AgentIds |-> IF a \in Agents THEN Grant ELSE @[a]],
     !.staked = [a \in AgentIds |-> IF a \in Agents THEN 0 ELSE @[a]]]

SeedWorld(ledger) ==
  IF Seeded(ledger) THEN ledger
  ELSE [ledger EXCEPT
          !.agents = Agents,
          !.status = [h \in HypothesisIds |->
                        IF h \in Hypotheses THEN "open" ELSE @[h]],
          !.available = [a \in AgentIds |-> IF a \in Agents THEN Grant ELSE @[a]],
          !.staked = [a \in AgentIds |-> IF a \in Agents THEN 0 ELSE @[a]],
          !.reputation = [a \in AgentIds |->
                            IF a \in Agents THEN StartingReputation[a] ELSE @[a]]]

(***************************************************************************)
(* insert_event: ON CONFLICT (event_id) DO NOTHING.                        *)
(***************************************************************************)
IsNew(ledger, m) == m.id \notin ledger.events

WithEvent(ledger, m) == [ledger EXCEPT !.events = @ \cup {m.id}]

-----------------------------------------------------------------------------
(***************************************************************************)
(* handle_forecast_created.  Accepted means registered agent, stake in     *)
(* range, and stake covered by the agent's balance plus what this agent    *)
(* already has locked on this hypothesis.                                  *)
(***************************************************************************)
LockedHere(ledger, m) == ledger.forecast[m.hypothesis][m.agent].stake

GrossAccepts(ledger, m) ==                                         \* mutant
  /\ m.agent \in ledger.agents
  /\ m.stake \in StakeMin..StakeMax

Accepts(ledger, m) ==
  /\ m.agent \in ledger.agents
  /\ m.stake \in StakeMin..StakeMax
  /\ m.stake <= ledger.available[m.agent] + LockedHere(ledger, m)

(* upsert_forecast, then adjust_agent_credits to release the stake of the  *)
(* replaced row and to lock the new one.                                   *)
AccumulatedForecast(ledger, m) ==                                  \* mutant
  [ledger EXCEPT
     !.forecast[m.hypothesis][m.agent] =
        [stake |-> m.stake, probability |-> ClampProbability(m.probability)],
     !.available[m.agent] = @ - m.stake,
     !.staked[m.agent] = @ + m.stake]

AcceptForecast(ledger, m) ==
  LET previous == LockedHere(ledger, m) IN
  [ledger EXCEPT
     !.forecast[m.hypothesis][m.agent] =
        [stake |-> m.stake, probability |-> ClampProbability(m.probability)],
     !.available[m.agent] = @ + previous - m.stake,
     !.staked[m.agent] = @ - previous + m.stake]

RejectForecast(ledger, m) == [ledger EXCEPT !.rejected = @ + 1]

HandleForecast(ledger, m) ==
  IF Accepts(ledger, m) THEN AcceptForecast(ledger, m)
                        ELSE RejectForecast(ledger, m)

-----------------------------------------------------------------------------
(***************************************************************************)
(* settle_hypothesis.  A recorded outcome makes it a no-op; otherwise the  *)
(* live forecasts without a settlements row are scored against the stored  *)
(* prior, one update per agent: there is one forecast per agent here.      *)
(***************************************************************************)
Due(ledger, h) ==
  {a \in ledger.agents : /\ ledger.forecast[h][a].stake > 0
                         /\ <<h, a>> \notin ledger.settled}

MissignedSettlementOf(ledger, h, a, o) ==                          \* mutant
  LET f == ledger.forecast[h][a]
  IN [delta |-> CreditDelta(f.stake, Prior[h], f.probability, o),
      reputation |-> UpdateReputation(ledger.reputation[a],
                                      BrierScore(f.probability, o)
                                        - BrierScore(Prior[h], o))]

SettlementOf(ledger, h, a, o) ==
  LET f == ledger.forecast[h][a]
  IN [delta |-> CreditDelta(f.stake, Prior[h], f.probability, o),
      reputation |-> UpdateReputation(ledger.reputation[a],
                                      Improvement(Prior[h], f.probability, o))]

SettleHypothesis(ledger, h, o) ==
  LET due == Due(ledger, h)
      row == [a \in due |-> SettlementOf(ledger, h, a, o)]
  IN [ledger EXCEPT
        !.outcome[h] = o,
        !.status[h] = "resolved",
        !.settled = @ \cup ({h} \X due),
        !.delta[h] = [a \in AgentIds |-> IF a \in due THEN row[a].delta ELSE @[a]],
        !.reputation = [a \in AgentIds |->
            IF a \in due THEN row[a].reputation ELSE @[a]],
        !.available = [a \in AgentIds |->
            IF a \in due THEN @[a] + ledger.forecast[h][a].stake + row[a].delta
                         ELSE @[a]],
        !.staked = [a \in AgentIds |->
            IF a \in due THEN @[a] - ledger.forecast[h][a].stake ELSE @[a]]]

OverwrittenOutcome(ledger, h) == FALSE                             \* mutant
AlreadyResolved(ledger, h) == ledger.outcome[h] # NoOutcome

HandleOutcome(ledger, m) ==
  IF AlreadyResolved(ledger, m.hypothesis) THEN ledger
  ELSE SettleHypothesis(ledger, m.hypothesis, m.outcome)

-----------------------------------------------------------------------------
(***************************************************************************)
(* A handler that violates a foreign key raises IntegrityError: a forecast *)
(* or an outcome on a hypothesis that is not there, or the DELETE of a     *)
(* forecast row that a settlements row references.                         *)
(***************************************************************************)
CascadingRaises(ledger, m) ==                                      \* mutant
  /\ m.kind = "outcome" \/ (m.kind = "forecast" /\ Accepts(ledger, m))
  /\ ledger.status[m.hypothesis] = "absent"

Raises(ledger, m) ==
  \/ /\ m.kind = "forecast"
     /\ Accepts(ledger, m)
     /\ \/ ledger.status[m.hypothesis] = "absent"
        \/ <<m.hypothesis, m.agent>> \in ledger.settled
  \/ m.kind = "outcome" /\ ledger.status[m.hypothesis] = "absent"

(***************************************************************************)
(* What the handler of a message does to the ledger when it does not       *)
(* raise.  handle_signal does nothing.                                     *)
(***************************************************************************)
Handle(ledger, m) ==
  CASE m.kind = "forecast" -> HandleForecast(ledger, m)
    [] m.kind = "outcome" -> HandleOutcome(ledger, m)
    [] OTHER -> ledger

(***************************************************************************)
(* The event row and the effect of its handler, as one transaction.        *)
(***************************************************************************)
Process(ledger, m) == Handle(WithEvent(ledger, m), m)

-----------------------------------------------------------------------------
(***************************************************************************)
(* What a ledger, and a change of it, should satisfy.                      *)
(***************************************************************************)
LockedOn(ledger, h, a) ==
  IF <<h, a>> \in ledger.settled THEN 0 ELSE ledger.forecast[h][a].stake

(* Every credit an agent has locked, as a point <<h, i>>: the i-th credit  *)
(* on hypothesis h.  Their number is the sum over h of LockedOn.           *)
LockedCredits(ledger, a) ==
  UNION {{h} \X (1..LockedOn(ledger, h, a)) : h \in HypothesisIds}

Backed(ledger) ==
  \A a \in AgentIds : ledger.staked[a] = Cardinality(LockedCredits(ledger, a))

NonNegative(ledger) ==
  \A a \in AgentIds : ledger.available[a] >= 0 /\ ledger.staked[a] >= 0

(* A settlements row follows from the rows it was made from.               *)
Replayable(ledger) ==
  \A h \in HypothesisIds, a \in AgentIds :
    <<h, a>> \in ledger.settled =>
      LET f == ledger.forecast[h][a]
          o == ledger.outcome[h]
      IN /\ ledger.status[h] = "resolved"
         /\ o \in {0, 1}
         /\ ledger.delta[h][a] = CreditDelta(f.stake, Prior[h], f.probability, o)

(* A recorded outcome, its status and what was settled on it stay.         *)
KeepsResolutions(before, after) ==
  \A h \in HypothesisIds :
    before.outcome[h] # NoOutcome =>
      /\ after.outcome[h] = before.outcome[h]
      /\ after.status[h] = before.status[h]
      /\ \A a \in AgentIds :
           <<h, a>> \in before.settled =>
             /\ <<h, a>> \in after.settled
             /\ after.forecast[h][a] = before.forecast[h][a]
             /\ after.delta[h][a] = before.delta[h][a]

FreshlySettled(before, after, a) ==
  {h \in HypothesisIds : <<h, a>> \in after.settled \ before.settled}

Total(ledger, a) == ledger.available[a] + ledger.staked[a]

(* available + staked moves by the delta of the one settlements row that   *)
(* appears, or by the grant when the scenario is seeded.                   *)
Conserves(before, after) ==
  \A a \in AgentIds :
    LET fresh == FreshlySettled(before, after, a)
        change == Total(after, a) - Total(before, a)
    IN IF Seeded(before)
       THEN \/ fresh = {} /\ change = 0
            \/ \E h \in fresh : fresh = {h} /\ change = after.delta[h][a]
       ELSE change = IF Seeded(after) /\ a \in Agents THEN Grant ELSE 0

(* Reputation moves with a settlement, in the direction of its delta.      *)
EarnsReputation(before, after) ==
  Seeded(before) =>
    \A a \in AgentIds :
      LET change == after.reputation[a] - before.reputation[a]
          fresh == FreshlySettled(before, after, a)
      IN /\ fresh = {} => change = 0
         /\ \A h \in fresh : /\ after.delta[h][a] > 0 => change >= 0
                             /\ after.delta[h][a] < 0 => change <= 0
=============================================================================

------------------------------ MODULE AttackCost ------------------------------
(***************************************************************************)
(* The closed forms of core/attack.py, against the mechanism they invert:  *)
(* forecasts are submitted on a hypothesis, analysis/cost_of_attack.py     *)
(* prices its promotion to rank 1, and then identities join one by one,    *)
(* as inject_sybils and inject_correlated would add them.                  *)
(***************************************************************************)
EXTENDS Market

CONSTANTS Prior,       \* prior_probability of the target
          Submissions, \* forecasts honest agents may submit on it
          Rivals,      \* the best of the other hypotheses, per strategy
          Reputations, \* REPUTATION_SWEEP: what an identity may have earned
          Stake,       \* stake_per_identity
          MaxJoined    \* bound: identities that join, per reputation

(* Honest agents may share evidence among themselves.  Identities are      *)
(* numbered, and neither they nor their clusters are of an honest agent.   *)
ASSUME AttackCostAssumption ==
  /\ Prior \in ProbFloor..ProbCeil
  /\ \A f \in Submissions :
       /\ f.probability \in ProbFloor..ProbCeil
       /\ f.reputation \in Nat \ {0} /\ f.stake \in DOMAIN Root
       /\ f.agent \notin Nat /\ f.cluster \notin Nat
       /\ LET citing == {g \in Submissions : g.cluster = f.cluster}
          IN IsFiniteSet(citing) /\ Cardinality(citing) <= MaxSharing
  /\ \A b \in Rivals :
       /\ b.market.num \in Nat \ {0} /\ b.market.den \in Nat \ {0}
       /\ b.majority.num \in Nat /\ b.majority.den \in Nat \ {0}
       /\ b.confidence \in 0..100
  /\ Reputations \subseteq Nat \ {0}
  /\ Stake \in DOMAIN Root /\ 4 * Stake \in DOMAIN Root
  /\ Root[4 * Stake] = 2 * Root[Stake]
  /\ MaxJoined \in [Reputations -> Nat]

VARIABLES honest,     \* the live forecasts on the target
          rival,      \* the scores at rank 1 among the other hypotheses
          cluster,    \* shared_evidence_cluster
          reputation, \* reputation_per_identity
          joined      \* identities that have joined

prices == <<honest, rival, cluster, reputation, joined>>

InitPrices ==
  /\ honest = {}
  /\ rival \in Rivals
  /\ cluster \in BOOLEAN
  /\ reputation \in Reputations
  /\ joined = 0

-----------------------------------------------------------------------------
(* upsert_forecast: one live forecast per agent.                           *)
Submit(f) ==
  /\ honest' = {g \in honest : g.agent # f.agent} \cup {f}
  /\ UNCHANGED <<rival, cluster, reputation, joined>>

(* The forecasts of n identities, on evidence of their own (inject_sybils) *)
(* or all on the same (inject_correlated), with the probability and the    *)
(* equal stakes and reputations the closed forms assume of them.           *)
Identities(n, share) ==
  {[agent |-> i, probability |-> ProbCeil, stake |-> Stake,
    reputation |-> reputation, cluster |-> IF share THEN 0 ELSE i] : i \in 1..n}

Join ==
  /\ joined < MaxJoined[reputation]
  /\ joined' = joined + 1
  /\ UNCHANGED <<honest, rival, cluster, reputation>>

NextPrices == Join \/ \E f \in Submissions : Submit(f)

PricesSpec == InitPrices /\ [][NextPrices]_prices

-----------------------------------------------------------------------------
(* The price of what cannot be bought: None, or feasible = False.          *)
Unreachable == -1

CeilDiv(n, d) == -((-n) \div d)

(* _honest_weight, and the moment that makes honest_probability            *)
(* moment / weight.                                                        *)
HonestInfluence(f) == InfluenceWeight(f, ClusterSizes(honest)[f])
Honest ==
  [weight |-> SumFunction([f \in honest |-> HonestInfluence(f)]),
   moment |-> SumFunction([f \in honest |-> HonestInfluence(f) * f.probability])]

(* required_probability, for an equal scale of the two hypotheses or not.  *)
RequiredProbability(defenderPriority, gain) == [num |-> defenderPriority, den |-> gain]

AlreadyLeading(t) ==
  IF honest = {} THEN Prior * t.den >= t.num
                 ELSE Honest.moment * t.den >= t.num * Honest.weight

(* required_adversary_weight, a fraction.                                  *)
GapOnly(t) ==                                                      \* mutant
  CASE AlreadyLeading(t) \/ Honest.weight = 0 -> [num |-> 0, den |-> 1]
    [] OTHER -> [num |-> t.num * Honest.weight - t.den * Honest.moment,
                 den |-> ProbCeil * t.den]
RequiredAdversaryWeight(t) ==
  CASE AlreadyLeading(t) \/ Honest.weight = 0 -> [num |-> 0, den |-> 1]
    [] OTHER -> [num |-> t.num * Honest.weight - t.den * Honest.moment,
                 den |-> ProbCeil * t.den - t.num]

(* sybil_identities_required, for a positive reputation and stake.         *)
LinearInStake(w, earned, stake, share) ==                          \* mutant
  LET unit == w.den * earned * stake * Independence[1]
  IN IF w.num = 0 THEN 0
     ELSE IF share THEN CeilDiv(w.num * w.num, unit * unit)
     ELSE CeilDiv(w.num, unit)
SybilIdentitiesRequired(w, earned, stake, share) ==
  LET unit == w.den * earned * Root[stake] * Independence[1]
  IN IF w.num = 0 THEN 0
     ELSE IF share THEN CeilDiv(w.num * w.num, unit * unit)
     ELSE CeilDiv(w.num, unit)

(* attack_settlement_loss: what the identities lose when the target turns  *)
(* out false.                                                              *)
LossIfTrue(identities, stake) ==                                   \* mutant
  -identities * CreditDelta(stake, Prior, ProbCeil, 1)
AttackSettlementLoss(identities, stake) ==
  -identities * CreditDelta(stake, Prior, ProbCeil, 0)

(* The fields of an AttackCost that the report prints.                     *)
Infeasible == [feasible |-> FALSE, identities |-> 0, credits |-> 0, loss |-> 0]
Cost(identities, stake, loss) ==
  [feasible |-> TRUE, identities |-> identities,
   credits |-> identities * stake, loss |-> loss]

StakerouteAttackCost(t, earned, stake, share) ==
  LET w == RequiredAdversaryWeight(t)
      computed == SybilIdentitiesRequired(w, earned, stake, share)
      identities == IF computed = 0 /\ ~AlreadyLeading(t) THEN 1 ELSE computed
  IN IF w.den <= 0 THEN Infeasible
     ELSE Cost(identities, stake, AttackSettlementLoss(identities, stake))

AttackFrontier(t, stake, share) ==
  [r \in Reputations |-> StakerouteAttackCost(t, r, stake, share)]

(* majority_vote_identities_required.                                      *)
TiesOfVotes(t) ==                                                  \* mutant
  LET n == Cardinality(honest)
      votes == 100 * t.den * Cardinality(VotesTrue(honest))
      done == IF n > 0 THEN votes > n * t.num ELSE t.num <= 0
  IN CASE done -> 0
       [] ~done /\ t.num >= 100 * t.den -> Unreachable
       [] OTHER -> Max({1, CeilDiv(n * t.num - votes, 100 * t.den - t.num)})
MajorityVoteIdentitiesRequired(t) ==
  LET n == Cardinality(honest)
      votes == 100 * t.den * Cardinality(VotesTrue(honest))
      done == IF n > 0 THEN votes > n * t.num ELSE t.num <= 0
  IN CASE done -> 0
       [] ~done /\ t.num >= 100 * t.den -> Unreachable
       [] OTHER -> Max({1, (n * t.num - votes) \div (100 * t.den - t.num) + 1})

(* highest_confidence_identities_required.                                 *)
HighestConfidenceIdentitiesRequired(t) ==
  CASE HighestConfidence(honest, Prior) > t -> 0
    [] HighestConfidence(honest, Prior) <= t /\ t >= ProbCeil -> Unreachable
    [] OTHER -> 1

(* _baseline_defender_probability: the score at rank 1 under that very     *)
(* strategy, which is the target's own once it leads.                      *)
MajorityBar ==
  LET own == MajorityVote(honest, Prior)
  IN IF Above(own, rival.majority) THEN own ELSE rival.majority
ConfidenceBar == Max({HighestConfidence(honest, Prior), rival.confidence})

(* baseline_attack_cost, which asks for no stake.                          *)
BaselineAttackCost(strategy) ==
  LET identities ==
        IF strategy = "majority_vote"
          THEN MajorityVoteIdentitiesRequired(MajorityBar)
          ELSE HighestConfidenceIdentitiesRequired(ConfidenceBar)
  IN IF identities = Unreachable THEN Infeasible ELSE Cost(identities, 0, 0)

-----------------------------------------------------------------------------
Pool == honest \cup Identities(joined, cluster)

(* Those who share the evidence of the attack.                             *)
Crowd == IF cluster THEN Identities(joined, cluster) ELSE {}

(* The price is the least number of identities that do it.                 *)
Prices(cost, done) == done <=> cost.feasible /\ joined >= cost.identities

MarketBar == RequiredProbability(rival.market.num, rival.market.den)

(***************************************************************************)
(* The number of identities that attack_frontier lists at the reputation   *)
(* of those who join reaches the defender's priority, and one fewer does   *)
(* not, on shared evidence and on distinct ("the count is a threshold, not *)
(* a loose over-estimate", test_attack.py).  One case is left out, where   *)
(* it is not: with no forecast to overcome and a bar above the ceiling,    *)
(* required_adversary_weight answers 0 before it looks at the ceiling, and *)
(* one identity is the price of what no probability reaches.               *)
(***************************************************************************)
MarketPriceIsLeast ==
  (honest # {} \/ MarketBar.num <= ProbCeil * MarketBar.den) =>
    Prices(AttackFrontier(MarketBar, Stake, cluster)[reputation],
           Reaches(Pool, Crowd, Prior, MarketBar))

(* The target is strictly above every other hypothesis under a baseline.   *)
Flipped(strategy) ==
  IF strategy = "majority_vote" THEN Above(MajorityVote(honest, Prior), rival.majority)
  ELSE HighestConfidence(honest, Prior) > rival.confidence

(***************************************************************************)
(* While a baseline has not been flipped, the count for it takes rank 1    *)
(* strictly, and one fewer does not: a tie would go to the hypothesis of   *)
(* higher impact.  For highest confidence that is one identity or cannot   *)
(* be had, as the ceiling leaves no room to assert a larger number.        *)
(***************************************************************************)
BaselinePricesAreLeast ==
  /\ ~ Flipped("majority_vote") =>
       Prices(BaselineAttackCost("majority_vote"),
              Above(MajorityVote(Pool, Prior), rival.majority))
  /\ ~ Flipped("highest_confidence") =>
       Prices(BaselineAttackCost("highest_confidence"),
              HighestConfidence(Pool, Prior) > rival.confidence)

(***************************************************************************)
(* "Whatever sits at rank 1 under the baseline is the bar, even when that  *)
(* is already the false hypothesis: a strategy that has been flipped       *)
(* reports a cost of zero" (_baseline_defender_probability).  It does not: *)
(* the bar is then the target's own score, and no score is above itself,   *)
(* so that it is priced at one identity more or said to be unreachable.    *)
(***************************************************************************)
FlippedIsFree ==
  \A strategy \in {"majority_vote", "highest_confidence"} :
    Flipped(strategy) => BaselineAttackCost(strategy) = Cost(0, 0, 0)

Small == StakerouteAttackCost(MarketBar, reputation, Stake, FALSE)
Large == StakerouteAttackCost(MarketBar, reputation, 4 * Stake, FALSE)

(***************************************************************************)
(* Influence is sub-linear in stake (FR-014): one identity with four times *)
(* the stake does what two do, and so the same effect costs twice the      *)
(* credits, at least, in the larger forecasts.                             *)
(***************************************************************************)
SpreadingCostsNoMore ==
  Small.feasible => Large.feasible /\ 2 * Small.credits <= Large.credits

(***************************************************************************)
(* "Concentrating capital in fewer, larger forecasts costs less than       *)
(* spreading it" (build_report, of its default stake): where an attack     *)
(* takes more than one forecast to begin with, larger ones cost more.      *)
(***************************************************************************)
ConcentratingCostsLess ==
  Small.identities > 1 /\ Large.feasible => Large.credits < Small.credits

(***************************************************************************)
(* "An attack that succeeds today is still paid for tomorrow": whatever    *)
(* the stake is cut into, the forecasts that bought rank 1 lose more than  *)
(* half of what they staked once the target turns out false, and never     *)
(* more than all of it.  The credits of each forecast are rounded for      *)
(* itself, so an attack in small stakes might escape the rounding.         *)
(***************************************************************************)
AttacksArePaidFor ==
  \A stake \in DOMAIN Root :
    LET cost == StakerouteAttackCost(MarketBar, reputation, stake, cluster)
    IN cost.identities > 0 =>
         cost.loss <= cost.credits /\ 2 * cost.loss > cost.credits
=============================================================================

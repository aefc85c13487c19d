-------------------------------- MODULE Market --------------------------------
(***************************************************************************)
(* What the three strategies make of the live forecasts of one hypothesis: *)
(* core/market.py, core/independence.py and core/baselines.py.  A pool is  *)
(* a set of forecasts                                                      *)
(*   [agent, probability, stake, reputation, cluster],                     *)
(* probabilities are hundredths, reputations may have any unit, and a bar  *)
(* [num, den] stands for the probability num/den, in hundredths too.       *)
(*                                                                         *)
(* The code computes in floats.  Root and Independence are the roots and   *)
(* the discounts it computes, in any unit and to any number of digits;     *)
(* their products and sums are exact here.                                 *)
(***************************************************************************)
EXTENDS Settlement, FiniteSetsExt, Functions

CONSTANTS Root,         \* math.sqrt of a stake
          Independence, \* independence_factor of the size of a cluster
          MaxSharing    \* the largest cluster Independence is given for

ASSUME MarketAssumption ==
  /\ DOMAIN Root \subseteq Nat \ {0}
  /\ \A stake \in DOMAIN Root : Root[stake] \in Nat \ {0}
  /\ MaxSharing \in Nat \ {0}
  /\ Independence \in [1..MaxSharing -> Nat \ {0}]

InfluenceWeight(f, size) == f.reputation * Root[f.stake] * Independence[size]

(* cluster_sizes of aggregate_probability.                                 *)
ClusterSizes(pool) ==
  [f \in pool |-> Cardinality({g \in pool : g.cluster = f.cluster})]

(* The weights of a pool times how far each forecast is above the bar.     *)
Pull(pool, sizes, bar) ==
  SumFunction([f \in pool |->
                 InfluenceWeight(f, sizes[f]) * (f.probability * bar.den - bar.num)])

SignedSquare(x) == IF x < 0 THEN -(x * x) ELSE x * x

(* Whether alone + shared / sqrt(size) is at least 0.                      *)
Discounted(alone, shared, size) ==
  SignedSquare(alone) * size + SignedSquare(shared) >= 0

(***************************************************************************)
(* Whether aggregate_probability is at least the bar.  That the weights    *)
(* are divided by their total, which is positive, makes no difference.  A  *)
(* crowd is a cluster of the pool that may be larger than MaxSharing: its  *)
(* discount is the root of its size, and exact.                            *)
(***************************************************************************)
Reaches(pool, crowd, prior, bar) ==
  IF pool = {} THEN prior * bar.den >= bar.num
  ELSE Discounted(Pull(pool \ crowd, ClusterSizes(pool), bar),
                  Pull(crowd, [f \in crowd |-> 1], bar),
                  IF crowd = {} THEN 1 ELSE Cardinality(crowd))

VotesTrue(pool) == {f \in pool : f.probability > 50}

(* majority_vote_probability, a fraction.                                  *)
MajorityVote(pool, prior) ==
  IF pool = {} THEN [num |-> prior, den |-> 1]
  ELSE [num |-> 100 * Cardinality(VotesTrue(pool)), den |-> Cardinality(pool)]

Above(score, bar) == score.num * bar.den > bar.num * score.den

(* highest_confidence_probability.                                         *)
HighestConfidence(pool, prior) ==
  IF pool = {} THEN prior ELSE Max({f.probability : f \in pool})
===============================================================================

---------------------------- MODULE ScoringProofs ----------------------------
(***************************************************************************)
(* What settle_forecast and update_reputation promise of every claim, for  *)
(* every choice of stakes, priors, probabilities and reputations.          *)
(***************************************************************************)
EXTENDS Scoring, SettlementProofs

(***************************************************************************)
(* A claim is made of a stake, probabilities and a reputation the settings *)
(* allow, however often it is reconsidered.                                *)
(***************************************************************************)
THEOREM TypeCorrect == ScoringSpec => []ClaimOK
<1>1. InitScoring => ClaimOK
  BY DEF InitScoring, ClaimOK, Claim
<1>2. ClaimOK /\ [Reconsider]_claim => ClaimOK'
  BY DEF ClaimOK, Claim, Reconsider
<1> QED BY <1>1, <1>2, PTL DEF ScoringSpec

LEMMA ClaimParts ==
  ASSUME ClaimOK
  PROVE  /\ claim.stake \in Nat
         /\ claim.prior \in 0..100 /\ claim.p \in 0..100 /\ claim.belief \in 0..100
         /\ claim.outcome \in {0, 1}
         /\ claim.reputation \in RepFloor..RepCeil
BY ScoringAssumption DEF ClaimOK, Claim

(***************************************************************************)
(* settle_forecast never takes more than the stake, nor pays more.         *)
(***************************************************************************)
THEOREM LossIsCapped == ScoringSpec => []LossCapped
<1>1. ClaimOK => LossCapped
  <2> SUFFICES ASSUME ClaimOK PROVE LossCapped
    OBVIOUS
  <2>1. Delta \in (-claim.stake)..claim.stake
    BY ClaimParts, CreditDeltaRange DEF Delta
  <2> QED BY <2>1, ClaimParts DEF LossCapped
<1> QED BY <1>1, TypeCorrect, PTL

(***************************************************************************)
(* Credits and reputation both follow the sign of the improvement over the *)
(* prior, through every rounding and every clamp.                          *)
(***************************************************************************)
THEOREM MovesTogether == ScoringSpec => []SameDirection
<1>1. ClaimOK => SameDirection
  <2> SUFFICES ASSUME ClaimOK PROVE SameDirection
    OBVIOUS
  <2>1. /\ Gain \in Int
        /\ Gain >= 0 => Delta >= 0
        /\ Gain <= 0 => Delta <= 0
    BY ClaimParts, ImprovementRange, CreditDeltaRange DEF Gain, Delta
  <2>2. /\ Gain >= 0 => NewReputation >= claim.reputation
        /\ Gain <= 0 => NewReputation <= claim.reputation
    BY <2>1, ClaimParts, ReputationMoves DEF NewReputation
  <2> QED BY <2>1, <2>2 DEF SameDirection
<1> QED BY <1>1, TypeCorrect, PTL

(***************************************************************************)
(* Both numbers a settlement rounds, the improvement and the stake times   *)
(* the rounded improvement, go to the nearest whole, and ties to even.     *)
(***************************************************************************)
THEOREM QuantizeIsHalfEven == ScoringSpec => []RoundsToNearestEven
<1>1. ASSUME ClaimOK, NEW n \in {Gain, claim.stake * RoundHalfEven(Gain, Scale)}
      PROVE  LET r == RoundHalfEven(n, Scale)
                 twiceOff == 2 * (r * Scale - n)
             IN /\ -Scale <= twiceOff /\ twiceOff <= Scale
                /\ (twiceOff = Scale \/ twiceOff = -Scale) => r % 2 = 0
  <2>1. /\ claim.stake \in Nat /\ claim.prior \in 0..100 /\ claim.p \in 0..100
        /\ claim.outcome \in {0, 1}
    BY <1>1, ClaimParts
  <2>2. Gain \in Int
    BY <2>1, ImprovementRange DEF Gain
  <2>3. claim.stake * RoundHalfEven(Gain, Scale) \in Int
    BY <2>1, <2>2, RoundNear
  <2>4. n \in Int
    BY <1>1, <2>2, <2>3
  <2>5. RoundHalfEven(n, Scale) * Scale = Scale * RoundHalfEven(n, Scale)
    BY <2>4, RoundNear DEF Scale
  <2> QED BY <2>4, <2>5, RoundNear, RoundTies
<1>2. ClaimOK => RoundsToNearestEven
  BY <1>1 DEF RoundsToNearestEven
<1> QED BY <1>2, TypeCorrect, PTL

(***************************************************************************)
(* What settle_forecast books is the exact improvement times the stake, to *)
(* within half a credit and half a hundredth of the stake.                 *)
(***************************************************************************)
THEOREM DeltaIsNearExact == ScoringSpec => []DeltaNearExact
<1>1. ClaimOK => DeltaNearExact
  <2> SUFFICES ASSUME ClaimOK PROVE DeltaNearExact
    OBVIOUS
  <2>1. /\ claim.stake \in Nat /\ claim.prior \in 0..100 /\ claim.p \in 0..100
        /\ claim.outcome \in {0, 1}
    BY ClaimParts
  <2>2. NearExact(claim.stake, Delta, Gain)
    BY <2>1, CreditDeltaNear DEF Delta, Gain
  <2> QED BY <2>2 DEF NearExact, DeltaNearExact
<1> QED BY <1>1, TypeCorrect, PTL

(***************************************************************************)
(* Rounding turns the scoring rule round nowhere: of two reports for the   *)
(* same stake the one closer to the outcome is never paid less.            *)
(***************************************************************************)
THEOREM CloserIsNeverPaidLess == ScoringSpec => []CloserNeverPaysLess
<1>1. ClaimOK => CloserNeverPaysLess
  <2> SUFFICES ASSUME ClaimOK,
                      (IF claim.outcome = 1 THEN 100 - claim.p ELSE claim.p)
                        <= (IF claim.outcome = 1 THEN 100 - claim.belief ELSE claim.belief)
               PROVE  CreditDelta(claim.stake, claim.prior, claim.p, claim.outcome)
                        >= CreditDelta(claim.stake, claim.prior, claim.belief, claim.outcome)
    BY DEF CloserNeverPaysLess
  <2>1. /\ claim.outcome = 1 => 100 - claim.p <= 100 - claim.belief
        /\ claim.outcome = 0 => claim.p <= claim.belief
    OBVIOUS
  <2> QED BY <2>1, ClaimParts, CreditDeltaMonotone
<1> QED BY <1>1, TypeCorrect, PTL

(***************************************************************************)
(* Expected credits are as near to the exact expectation as credits are.   *)
(***************************************************************************)
LEMMA ExpectedNear ==
  ASSUME NEW s \in Nat, NEW b \in 0..100, NEW slack \in Int,
         NEW d1 \in Int, NEW g1 \in Int, NEW d0 \in Int, NEW g0 \in Int,
         -slack <= 2 * (10000 * d1 - s * g1), 2 * (10000 * d1 - s * g1) <= slack,
         -slack <= 2 * (10000 * d0 - s * g0), 2 * (10000 * d0 - s * g0) <= slack
  PROVE  LET twiceOff == 2 * (10000 * (b * d1 + (100 - b) * d0)
                                - s * (b * g1 + (100 - b) * g0))
         IN -(100 * slack) <= twiceOff /\ twiceOff <= 100 * slack
<1> DEFINE c == 100 - b
           x == 2 * (10000 * d1 - s * g1)
           y == 2 * (10000 * d0 - s * g0)
<1>1. c \in Int /\ c >= 0 /\ b \in Int /\ b >= 0 /\ b + c = 100
  OBVIOUS
<1>2. /\ x \in Int /\ y \in Int
      /\ -slack <= x /\ x <= slack /\ -slack <= y /\ y <= slack
  OBVIOUS
<1> HIDE DEF c
<1>3. s * (b * g1 + c * g0) = b * (s * g1) + c * (s * g0)
  BY <1>1
<1>4. b * x = 2 * (10000 * (b * d1) - b * (s * g1))
      /\ c * y = 2 * (10000 * (c * d0) - c * (s * g0))
  <2> DEFINE u == s * g1
             v == s * g0
  <2>1. u \in Int /\ v \in Int
    OBVIOUS
  <2> HIDE DEF u, v
  <2>2. b * (2 * (10000 * d1 - u)) = 2 * (10000 * (b * d1) - b * u)
        /\ c * (2 * (10000 * d0 - v)) = 2 * (10000 * (c * d0) - c * v)
    BY <1>1, <2>1
  <2> QED BY <2>2 DEF u, v
<1>5. /\ b * d1 \in Int /\ c * d0 \in Int /\ b * (s * g1) \in Int /\ c * (s * g0) \in Int
  BY <1>1
<1>6. 2 * (10000 * (b * d1 + c * d0) - s * (b * g1 + c * g0)) = b * x + c * y
  BY <1>3, <1>4, <1>5
<1> HIDE DEF x, y
<1>7. /\ b * x <= b * slack /\ b * (-slack) <= b * x
      /\ c * y <= c * slack /\ c * (-slack) <= c * y
  BY <1>1, <1>2
<1>8. b * slack + c * slack = 100 * slack /\ b * (-slack) + c * (-slack) = -(100 * slack)
  <2>1. (b + c) * slack = b * slack + c * slack
        /\ (b + c) * (-slack) = b * (-slack) + c * (-slack)
    BY <1>1
  <2> QED BY <1>1, <2>1
<1>9. /\ b * x \in Int /\ c * y \in Int /\ b * slack \in Int /\ c * slack \in Int
      /\ b * (-slack) \in Int /\ c * (-slack) \in Int
  BY <1>1, <1>2
<1>10. -(100 * slack) <= b * x + c * y /\ b * x + c * y <= 100 * slack
  BY <1>7, <1>8, <1>9
<1> QED BY <1>6, <1>10 DEF c

(***************************************************************************)
(* By an agent's own belief a false report is expected to gain at most     *)
(* what two roundings can add: one credit and a hundredth of the stake.    *)
(***************************************************************************)
THEOREM HonestyIsPaid == ScoringSpec => []HonestyPays
<1>1. ClaimOK => HonestyPays
  <2> SUFFICES ASSUME ClaimOK PROVE HonestyPays
    OBVIOUS
  <2> DEFINE s == claim.stake
             b == claim.belief
             D(p, o) == CreditDelta(s, claim.prior, p, o)
             G(p, o) == Improvement(claim.prior, p, o)
             slack == 10000 + 100 * s
  <2>1. s \in Nat /\ b \in 0..100 /\ claim.p \in 0..100 /\ claim.prior \in 0..100
    BY ClaimParts
  <2>2. ASSUME NEW p \in 0..100, NEW o \in {0, 1}
        PROVE  /\ D(p, o) \in Int /\ G(p, o) \in Int
               /\ -slack <= 2 * (10000 * D(p, o) - s * G(p, o))
               /\ 2 * (10000 * D(p, o) - s * G(p, o)) <= slack
    <3>1. D(p, o) \in (-s)..s
      BY <2>1, CreditDeltaRange
    <3>2. G(p, o) \in Int
      BY <2>1, ImprovementRange
    <3>3. /\ -slack <= 2 * (10000 * D(p, o) - s * G(p, o))
          /\ 2 * (10000 * D(p, o) - s * G(p, o)) <= slack
      <4>1. NearExact(s, D(p, o), G(p, o))
        BY <2>1, CreditDeltaNear
      <4> HIDE DEF s, D, G
      <4> QED BY <4>1 DEF NearExact
    <3>4. D(p, o) \in Int
      <4> HIDE DEF D
      <4> QED BY <2>1, <3>1
    <3> QED BY <3>2, <3>3, <3>4
  <2> DEFINE E(p) == b * D(p, 1) + (100 - b) * D(p, 0)
             M(p) == b * G(p, 1) + (100 - b) * G(p, 0)
  <2>3. M(claim.p) <= M(b)
    BY <2>1, BrierProper
  <2>4. HonestyPays <=> E(claim.p) <= E(b) + 100 + s
    BY DEF HonestyPays
  <2> HIDE DEF D, G
  <2>5. ASSUME NEW p \in 0..100
        PROVE  /\ E(p) \in Int /\ M(p) \in Int
               /\ -(100 * slack) <= 2 * (10000 * E(p) - s * M(p))
               /\ 2 * (10000 * E(p) - s * M(p)) <= 100 * slack
    <3>1. /\ D(p, 1) \in Int /\ G(p, 1) \in Int /\ D(p, 0) \in Int /\ G(p, 0) \in Int
          /\ -slack <= 2 * (10000 * D(p, 1) - s * G(p, 1))
          /\ 2 * (10000 * D(p, 1) - s * G(p, 1)) <= slack
          /\ -slack <= 2 * (10000 * D(p, 0) - s * G(p, 0))
          /\ 2 * (10000 * D(p, 0) - s * G(p, 0)) <= slack
      BY <2>2
    <3>2. slack \in Int
      BY <2>1
    <3>3. E(p) \in Int /\ M(p) \in Int
      BY <2>1, <3>1
    <3> HIDE DEF slack
    <3> QED BY <2>1, <3>1, <3>2, <3>3, ExpectedNear
  <2>6. /\ E(claim.p) \in Int /\ M(claim.p) \in Int /\ E(b) \in Int /\ M(b) \in Int
        /\ 2 * (10000 * E(claim.p) - s * M(claim.p)) <= 100 * slack
        /\ -(100 * slack) <= 2 * (10000 * E(b) - s * M(b))
    <3> HIDE DEF E, M, s, b, slack
    <3> QED BY <2>1, <2>5
  <2> HIDE DEF E, M
  <2>7. /\ s * M(claim.p) \in Int /\ s * M(b) \in Int
        /\ s * M(claim.p) <= s * M(b)
    BY <2>1, <2>3, <2>6
  <2>8. E(claim.p) <= E(b) + 100 + s
    <3> HIDE DEF s
    <3>1. s \in Int
      BY <2>1
    <3> QED BY <2>6, <2>7, <3>1
  <2> QED BY <2>4, <2>8
<1> QED BY <1>1, TypeCorrect, PTL
=============================================================================

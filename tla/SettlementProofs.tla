-------------------------- MODULE SettlementProofs --------------------------
(***************************************************************************)
(* What the settlement arithmetic does for every stake, every prior and    *)
(* every forecast: facts about the operators of Settlement, cited by the   *)
(* proofs about the modules that use them.                                 *)
(***************************************************************************)
EXTENDS Settlement, FiniteSetTheorems, WellFoundedInduction, TLAPS

(***************************************************************************)
(* Rounding returns an integer within half a unit of the quotient.         *)
(***************************************************************************)
LEMMA RoundNear ==
  ASSUME NEW n \in Int
  PROVE  /\ RoundHalfEven(n, Scale) \in Int
         /\ 2 * (Scale * RoundHalfEven(n, Scale) - n) <= Scale
         /\ -Scale <= 2 * (Scale * RoundHalfEven(n, Scale) - n)
<1> DEFINE q == n \div 100
           r == n % 100
<1>1. q \in Int /\ r \in 0..99 /\ n = 100 * q + r
  OBVIOUS
<1> HIDE DEF q, r
<1>2. CASE 2 * r < 100 \/ (2 * r = 100 /\ q % 2 = 0)
  <2>1. RoundHalfEven(n, Scale) = q
    BY <1>2 DEF RoundHalfEven, Scale, q, r
  <2> QED BY <2>1, <1>1, <1>2 DEF Scale
<1>3. CASE ~(2 * r < 100 \/ (2 * r = 100 /\ q % 2 = 0))
  <2>1. RoundHalfEven(n, Scale) = q + 1
    BY <1>3 DEF RoundHalfEven, Scale, q, r
  <2>2. 2 * r >= 100
    BY <1>1, <1>3
  <2> QED BY <2>1, <2>2, <1>1 DEF Scale
<1> QED BY <1>2, <1>3

(***************************************************************************)
(* A tie between two integers is the only case the sign of the argument    *)
(* does not decide: rounding preserves weak signs.                         *)
(***************************************************************************)
LEMMA RoundSign ==
  ASSUME NEW n \in Int
  PROVE  /\ n >= 0 => RoundHalfEven(n, Scale) >= 0
         /\ n <= 0 => RoundHalfEven(n, Scale) <= 0
<1>1. RoundHalfEven(n, Scale) \in Int
  BY RoundNear
<1>2. 2 * (100 * RoundHalfEven(n, Scale) - n) <= 100
  BY RoundNear DEF Scale
<1>3. -100 <= 2 * (100 * RoundHalfEven(n, Scale) - n)
  BY RoundNear DEF Scale
<1> QED BY <1>1, <1>2, <1>3

(***************************************************************************)
(* A multiple of the scale is its own rounding, so rounding respects       *)
(* bounds that are multiples of the scale.                                 *)
(***************************************************************************)
LEMMA RoundBounds ==
  ASSUME NEW n \in Int, NEW k \in Int
  PROVE  /\ n <= Scale * k => RoundHalfEven(n, Scale) <= k
         /\ n >= Scale * k => RoundHalfEven(n, Scale) >= k
<1>1. RoundHalfEven(n, Scale) \in Int
  BY RoundNear
<1>2. 2 * (100 * RoundHalfEven(n, Scale) - n) <= 100
  BY RoundNear DEF Scale
<1>3. -100 <= 2 * (100 * RoundHalfEven(n, Scale) - n)
  BY RoundNear DEF Scale
<1> QED BY <1>1, <1>2, <1>3 DEF Scale

(***************************************************************************)
(* Of two integers equally near, it is the even one.                       *)
(***************************************************************************)
LEMMA RoundTies ==
  ASSUME NEW n \in Int,
         \/ 2 * (RoundHalfEven(n, Scale) * Scale - n) = Scale
         \/ 2 * (RoundHalfEven(n, Scale) * Scale - n) = -Scale
  PROVE  RoundHalfEven(n, Scale) % 2 = 0
<1> DEFINE q == n \div 100
           r == n % 100
<1>1. q \in Int /\ r \in 0..99 /\ n = 100 * q + r
  OBVIOUS
<1>2. RoundHalfEven(n, Scale) = IF 2 * r < 100 \/ (2 * r = 100 /\ q % 2 = 0) THEN q ELSE q + 1
  BY DEF RoundHalfEven, Scale
<1> HIDE DEF q, r
<1>3. r = 50
  BY <1>1, <1>2 DEF Scale
<1>4. q % 2 = 0 \/ (q + 1) % 2 = 0
  BY <1>1
<1> QED BY <1>1, <1>2, <1>3, <1>4

(***************************************************************************)
(* Rounding keeps the order.                                               *)
(***************************************************************************)
LEMMA RoundMonotone ==
  ASSUME NEW m \in Int, NEW n \in Int, m <= n
  PROVE  RoundHalfEven(m, Scale) <= RoundHalfEven(n, Scale)
<1> DEFINE a == RoundHalfEven(m, Scale)
           b == RoundHalfEven(n, Scale)
<1>1. a \in Int /\ b \in Int /\ 2 * (100 * a - m) <= 100 /\ -100 <= 2 * (100 * b - n)
  BY RoundNear DEF Scale
<1>2. m = n => a = b
  OBVIOUS
<1> HIDE DEF a, b
<1>3. m < n => a <= b
  BY <1>1
<1>4. a <= b
  BY <1>1, <1>2, <1>3
<1> QED BY <1>4 DEF a, b

-----------------------------------------------------------------------------
(***************************************************************************)
(* A Brier score lies between 0 and 1, so an improvement between -1 and 1. *)
(***************************************************************************)
LEMMA BrierRange ==
  ASSUME NEW p \in 0..100, NEW o \in {0, 1}
  PROVE  /\ BrierScore(p, o) \in Int
         /\ 0 <= BrierScore(p, o) /\ BrierScore(p, o) <= 10000
<1>1. ASSUME NEW x \in 0..100
      PROVE  x * x \in Int /\ 0 <= x * x /\ x * x <= 10000
  <2>1. x * x <= 100 * 100 /\ x * x >= 0 /\ x * x \in Int
    BY <1>1
  <2> QED BY <2>1
<1>2. CASE o = 0
  <2>1. BrierScore(p, o) = p * p
    BY <1>2 DEF BrierScore
  <2> QED BY <2>1, <1>1
<1>3. CASE o = 1
  <2>1. 100 - p \in 0..100 /\ p - 100 = -(100 - p)
    OBVIOUS
  <2>2. (p - 100) * (p - 100) = (100 - p) * (100 - p)
    OBVIOUS
  <2>3. BrierScore(p, o) = (100 - p) * (100 - p)
    BY <1>3, <2>2 DEF BrierScore
  <2> QED BY <2>1, <2>3, <1>1
<1> QED BY <1>2, <1>3

LEMMA ImprovementRange ==
  ASSUME NEW prior \in 0..100, NEW p \in 0..100, NEW o \in {0, 1}
  PROVE  /\ Improvement(prior, p, o) \in Int
         /\ Improvement(prior, p, o) >= Scale * (-100)
         /\ Improvement(prior, p, o) <= Scale * 100
<1> DEFINE b == BrierScore(prior, o)
           c == BrierScore(p, o)
<1>1. b \in Int /\ 0 <= b /\ b <= 10000
  BY BrierRange
<1>2. c \in Int /\ 0 <= c /\ c <= 10000
  BY BrierRange
<1>3. Improvement(prior, p, o) = b - c
  BY DEF Improvement
<1> HIDE DEF b, c
<1> QED BY <1>1, <1>2, <1>3 DEF Scale

(***************************************************************************)
(* settle_forecast never takes more than the stake nor pays more, and its  *)
(* delta has the sign of the improvement, or is 0.                         *)
(***************************************************************************)
LEMMA CreditDeltaRange ==
  ASSUME NEW stake \in Nat, NEW prior \in 0..100, NEW p \in 0..100,
         NEW o \in {0, 1}
  PROVE  /\ CreditDelta(stake, prior, p, o) \in (-stake)..stake
         /\ Improvement(prior, p, o) >= 0 => CreditDelta(stake, prior, p, o) >= 0
         /\ Improvement(prior, p, o) <= 0 => CreditDelta(stake, prior, p, o) <= 0
<1> DEFINE gain == Improvement(prior, p, o)
<1>1. gain \in Int /\ gain >= Scale * (-100) /\ gain <= Scale * 100
  BY ImprovementRange
<1> DEFINE q == RoundHalfEven(gain, Scale)
           exact == stake * q
           d == RoundHalfEven(exact, Scale)
<1> HIDE DEF gain
<1>2. q \in Int
  BY <1>1, RoundNear
<1>3. q <= 100 /\ q >= -100
  BY <1>1, RoundBounds
<1>4. (gain >= 0 => q >= 0) /\ (gain <= 0 => q <= 0)
  BY <1>1, RoundSign
<1> HIDE DEF q
<1>5. exact \in Int
  BY <1>2
<1>6. exact <= Scale * stake /\ exact >= Scale * (-stake)
  BY <1>2, <1>3 DEF Scale
<1>7. (q >= 0 => exact >= 0) /\ (q <= 0 => exact <= 0)
  BY <1>2
<1> HIDE DEF exact
<1>8. d \in Int /\ d <= stake /\ d >= -stake
  BY <1>5, <1>6, RoundNear, RoundBounds
<1>9. (exact >= 0 => d >= 0) /\ (exact <= 0 => d <= 0)
  BY <1>5, RoundSign
<1>10. CreditDelta(stake, prior, p, o) = IF d < -stake THEN -stake ELSE d
  BY DEF CreditDelta, d, exact, q, gain
<1> HIDE DEF d
<1>11. CreditDelta(stake, prior, p, o) = d
  BY <1>8, <1>10
<1> QED BY <1>11, <1>8, <1>9, <1>7, <1>4 DEF gain

(***************************************************************************)
(* The cap never bites, and the two roundings leave the delta near the     *)
(* exact stake-weighted improvement.                                       *)
(***************************************************************************)
LEMMA CreditDeltaUncapped ==
  ASSUME NEW stake \in Nat, NEW prior \in 0..100, NEW p \in 0..100,
         NEW o \in {0, 1}
  PROVE  CreditDelta(stake, prior, p, o) =
           RoundHalfEven(stake * RoundHalfEven(Improvement(prior, p, o), Scale), Scale)
<1> DEFINE gain == Improvement(prior, p, o)
           q == RoundHalfEven(gain, Scale)
           d == RoundHalfEven(stake * q, Scale)
<1>0. gain \in Int /\ gain >= Scale * (-100)
  BY ImprovementRange
<1> HIDE DEF gain
<1>1. q \in Int /\ q >= -100
  BY <1>0, RoundNear, RoundBounds
<1>2. CreditDelta(stake, prior, p, o) = IF d < -stake THEN -stake ELSE d
  BY DEF CreditDelta, gain
<1> HIDE DEF q
<1>3. stake * q \in Int /\ stake * q >= Scale * (-stake)
  BY <1>1 DEF Scale
<1>4. d \in Int /\ d >= -stake
  BY <1>3, RoundNear, RoundBounds
<1> HIDE DEF d
<1>5. CreditDelta(stake, prior, p, o) = d
  BY <1>2, <1>4
<1> QED BY <1>5 DEF d, q, gain

NearExact(stake, delta, gain) ==
  LET twiceOff == 2 * (10000 * delta - stake * gain)
      slack == 10000 + 100 * stake
  IN -slack <= twiceOff /\ twiceOff <= slack

LEMMA CreditDeltaNear ==
  ASSUME NEW stake \in Nat, NEW prior \in 0..100, NEW p \in 0..100,
         NEW o \in {0, 1}
  PROVE  NearExact(stake, CreditDelta(stake, prior, p, o), Improvement(prior, p, o))
<1> DEFINE gain == Improvement(prior, p, o)
           q == RoundHalfEven(gain, Scale)
           d == RoundHalfEven(stake * q, Scale)
<1>1. gain \in Int
  BY ImprovementRange
<1> HIDE DEF gain
<1>2. q \in Int /\ -100 <= 2 * (100 * q - gain) /\ 2 * (100 * q - gain) <= 100
  BY <1>1, RoundNear DEF Scale
<1> HIDE DEF q
<1>3. stake * q \in Int
  BY <1>2
<1>4. d \in Int /\ -100 <= 2 * (100 * d - stake * q) /\ 2 * (100 * d - stake * q) <= 100
  BY <1>3, RoundNear DEF Scale
<1>5. CreditDelta(stake, prior, p, o) = d
  BY CreditDeltaUncapped DEF d, q, gain
<1> HIDE DEF d
<1> DEFINE e == 100 * q - gain
<1>6. e \in Int /\ -50 <= e /\ e <= 50
  BY <1>1, <1>2
<1>7. stake * e = 100 * (stake * q) - stake * gain /\ stake * gain \in Int
  BY <1>1, <1>2
<1> HIDE DEF e
<1>8. stake * e \in Int /\ -(50 * stake) <= stake * e /\ stake * e <= 50 * stake
  BY <1>6
<1>9. 2 * (10000 * d - stake * gain) = 100 * (2 * (100 * d - stake * q)) + 2 * (stake * e)
  BY <1>3, <1>4, <1>7
<1>10. /\ -(10000 + 100 * stake) <= 2 * (10000 * d - stake * gain)
       /\ 2 * (10000 * d - stake * gain) <= 10000 + 100 * stake
  BY <1>3, <1>4, <1>7, <1>8, <1>9
<1> QED BY <1>5, <1>10 DEF gain, NearExact

(***************************************************************************)
(* A report at least as close to the outcome is paid at least as much.     *)
(***************************************************************************)
LEMMA CreditDeltaMonotone ==
  ASSUME NEW stake \in Nat, NEW prior \in 0..100, NEW p \in 0..100, NEW b \in 0..100,
         NEW o \in {0, 1},
         o = 1 => 100 - p <= 100 - b,
         o = 0 => p <= b
  PROVE  CreditDelta(stake, prior, p, o) >= CreditDelta(stake, prior, b, o)
<1>1. ASSUME NEW x \in 0..100, NEW y \in 0..100, x <= y
      PROVE  x * x <= y * y
  BY <1>1
<1>2. BrierScore(p, o) <= BrierScore(b, o)
  <2>1. CASE o = 0
    <3>1. BrierScore(p, o) = p * p /\ BrierScore(b, o) = b * b
      BY <2>1 DEF BrierScore
    <3> QED BY <1>1, <2>1, <3>1
  <2>2. CASE o = 1
    <3>1. /\ BrierScore(p, o) = (100 - p) * (100 - p)
          /\ BrierScore(b, o) = (100 - b) * (100 - b)
      BY <2>2 DEF BrierScore
    <3>2. 100 - p \in 0..100 /\ 100 - b \in 0..100
      OBVIOUS
    <3> QED BY <1>1, <2>2, <3>1, <3>2
  <2> QED BY <2>1, <2>2
<1> DEFINE G(x) == Improvement(prior, x, o)
           Q(x) == RoundHalfEven(G(x), Scale)
<1>3. G(b) \in Int /\ G(p) \in Int
  BY ImprovementRange
<1>4. G(b) <= G(p)
  <2>1. /\ BrierScore(p, o) \in Int /\ BrierScore(b, o) \in Int
        /\ BrierScore(prior, o) \in Int
    BY BrierRange
  <2> QED BY <1>2, <2>1 DEF Improvement
<1> HIDE DEF G
<1>5. Q(b) \in Int /\ Q(p) \in Int /\ Q(b) <= Q(p)
  BY <1>3, <1>4, RoundNear, RoundMonotone
<1> HIDE DEF Q
<1>6. stake * Q(b) \in Int /\ stake * Q(p) \in Int /\ stake * Q(b) <= stake * Q(p)
  BY <1>5
<1>7. RoundHalfEven(stake * Q(b), Scale) <= RoundHalfEven(stake * Q(p), Scale)
  BY <1>6, RoundMonotone
<1>8. /\ CreditDelta(stake, prior, p, o) = RoundHalfEven(stake * Q(p), Scale)
      /\ CreditDelta(stake, prior, b, o) = RoundHalfEven(stake * Q(b), Scale)
  BY CreditDeltaUncapped DEF Q, G
<1>9. /\ CreditDelta(stake, prior, p, o) \in Int
      /\ CreditDelta(stake, prior, b, o) \in Int
  BY <1>6, <1>8, RoundNear
<1> QED BY <1>7, <1>8, <1>9

(***************************************************************************)
(* The Brier score is proper: by an agent's own belief b, no report is     *)
(* expected to do better than b.                                           *)
(***************************************************************************)
LEMMA BrierProper ==
  ASSUME NEW prior \in 0..100, NEW p \in 0..100, NEW b \in 0..100
  PROVE  b * Improvement(prior, p, 1) + (100 - b) * Improvement(prior, p, 0)
           <= b * Improvement(prior, b, 1) + (100 - b) * Improvement(prior, b, 0)
<1> DEFINE c1 == BrierScore(prior, 1)
           c0 == BrierScore(prior, 0)
<1>1. c1 \in Int /\ c0 \in Int
  BY BrierRange
<1>2. \A x \in 0..100 : /\ Improvement(prior, x, 1) = c1 - (x - 100) * (x - 100)
                        /\ Improvement(prior, x, 0) = c0 - x * x
  BY DEF Improvement, BrierScore
<1> HIDE DEF c1, c0
<1>3. \A x \in 0..100 :
        b * ((x - 100) * (x - 100)) + (100 - b) * (x * x)
          = 100 * ((x - b) * (x - b)) + (10000 * b - 100 * (b * b))
  OBVIOUS
<1>4. \A x \in 0..100 :
        b * Improvement(prior, x, 1) + (100 - b) * Improvement(prior, x, 0)
          = (b * c1 + (100 - b) * c0)
              - (100 * ((x - b) * (x - b)) + (10000 * b - 100 * (b * b)))
  <2> SUFFICES ASSUME NEW x \in 0..100
               PROVE  b * (c1 - (x - 100) * (x - 100)) + (100 - b) * (c0 - x * x)
                        = (b * c1 + (100 - b) * c0)
                            - (b * ((x - 100) * (x - 100)) + (100 - b) * (x * x))
    BY <1>2, <1>3
  <2> DEFINE u == (x - 100) * (x - 100)
             v == x * x
  <2>1. u \in Int /\ v \in Int
    OBVIOUS
  <2> HIDE DEF u, v
  <2>2. b * (c1 - u) + (100 - b) * (c0 - v)
          = (b * c1 + (100 - b) * c0) - (b * u + (100 - b) * v)
    BY <1>1, <2>1
  <2> QED BY <2>2 DEF u, v
<1>5. (p - b) * (p - b) \in Int /\ (p - b) * (p - b) >= 0 /\ (b - b) * (b - b) = 0
  OBVIOUS
<1>6. b * c1 + (100 - b) * c0 \in Int /\ 10000 * b - 100 * (b * b) \in Int
  BY <1>1
<1> QED BY <1>4, <1>5, <1>6

(***************************************************************************)
(* update_reputation keeps a reputation within its bounds and moves it in  *)
(* the direction of the improvement, or not at all.                        *)
(***************************************************************************)
LEMMA ReputationMoves ==
  ASSUME NEW current \in RepFloor..RepCeil, NEW gain \in Int
  PROVE  /\ UpdateReputation(current, gain) \in RepFloor..RepCeil
         /\ gain >= 0 => UpdateReputation(current, gain) >= current
         /\ gain <= 0 => UpdateReputation(current, gain) <= current
<1> DEFINE moved == current + 3 * gain
<1>1. RepFloor \in Int /\ RepCeil \in Int /\ RepFloor <= RepCeil
  BY DEF RepFloor, RepCeil
<1>2. current \in Int /\ RepFloor <= current /\ current <= RepCeil
  BY <1>1
<1>3. /\ moved \in Int
      /\ gain >= 0 => moved >= current
      /\ gain <= 0 => moved <= current
  BY <1>2
<1>4. UpdateReputation(current, gain) =
        IF moved < RepFloor THEN RepFloor
        ELSE IF moved > RepCeil THEN RepCeil ELSE moved
  BY DEF UpdateReputation, Clamp
<1> HIDE DEF moved
<1> QED BY <1>1, <1>2, <1>3, <1>4

LEMMA ClampProbabilityRange ==
  ASSUME NEW p \in Int
  PROVE  ClampProbability(p) \in 0..100
BY DEF ClampProbability, Clamp, ProbFloor, ProbCeil

-----------------------------------------------------------------------------
(***************************************************************************)
(* Induction over the subsets of a finite set, stated with a set of them   *)
(* for the property: what holds of a subset whenever it holds of all its   *)
(* proper subsets holds of the whole.  It is what a fold over a finite set *)
(* is reasoned about with.                                                 *)
(***************************************************************************)
LEMMA SubsetInduction ==
  ASSUME NEW S, IsFiniteSet(S), NEW P,
         \A T \in SUBSET S : (\A U \in SUBSET T : U # T => U \in P) => T \in P
  PROVE  S \in P
<1> DEFINE Left == FiniteSubsetsOf(S) \ P
<1> SUFFICES ASSUME S \notin P PROVE FALSE
  OBVIOUS
<1>1. S \in FiniteSubsetsOf(S)
  BY DEF FiniteSubsetsOf
<1>2. IsWellFoundedOn(StrictSubsetOrdering(S), FiniteSubsetsOf(S))
  BY FS_StrictSubsetOrderingWellFounded
<1>3. Left \subseteq FiniteSubsetsOf(S) /\ Left # {}
  BY <1>1
<1> HIDE DEF Left
<1>4. PICK T \in Left : \A U \in Left : <<U, T>> \notin StrictSubsetOrdering(S)
  BY <1>2, <1>3, WFMin
<1>5. T \in SUBSET S /\ IsFiniteSet(T) /\ T \notin P
  BY <1>4 DEF Left, FiniteSubsetsOf
<1>6. PICK U \in SUBSET T : U # T /\ U \notin P
  BY <1>5
<1>7. U \in FiniteSubsetsOf(S)
  BY <1>5, FS_Subset DEF FiniteSubsetsOf
<1>8. <<U, T>> \in StrictSubsetOrdering(S)
  BY <1>5, <1>6 DEF StrictSubsetOrdering
<1> QED BY <1>4, <1>6, <1>7, <1>8 DEF Left

(* The element a fold takes next.                                          *)
Chosen(S) == CHOOSE x \in S : TRUE

LEMMA ChosenIn ==
  ASSUME NEW S, S # {}
  PROVE  Chosen(S) \in S
BY DEF Chosen
=============================================================================

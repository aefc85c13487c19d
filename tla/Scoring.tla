------------------------------- MODULE Scoring -------------------------------
(***************************************************************************)
(* The settlement arithmetic put to the question: the state is one claim   *)
(* about to be settled, and the invariants are what settle_forecast and    *)
(* update_reputation promise of every claim.                               *)
(***************************************************************************)
EXTENDS Settlement

CONSTANTS Stakes,        \* stakes a live forecast can carry
          Priors,        \* prior probabilities, in hundredths
          Probabilities, \* reported probabilities, in hundredths
          Earned         \* reputations before the settlement

ASSUME ScoringAssumption ==
  /\ Stakes \subseteq Nat
  /\ Priors \subseteq 0..100
  /\ Probabilities \subseteq 0..100
  /\ Earned \subseteq RepFloor..RepCeil

VARIABLE claim

Claim == [stake : Stakes, prior : Priors, p : Probabilities,
          belief : Probabilities, outcome : {0, 1}, reputation : Earned]

InitScoring == claim \in {c \in Claim : c.p = c.belief /\ c.outcome = 0}

(* Another report, another truth, for the same stake on the same prior.    *)
Reconsider == \E p \in Probabilities, o \in {0, 1} :
                /\ claim.p = claim.belief
                /\ claim' = [claim EXCEPT !.p = p, !.outcome = o]

ScoringSpec == InitScoring /\ [][Reconsider]_claim

ClaimOK == claim \in Claim

Delta == CreditDelta(claim.stake, claim.prior, claim.p, claim.outcome)
Gain == Improvement(claim.prior, claim.p, claim.outcome)
NewReputation == UpdateReputation(claim.reputation, Gain)

(***************************************************************************)
(* quantize(..., ROUND_HALF_EVEN): the result is the nearest multiple, and *)
(* a tie goes to the even neighbour, at both roundings of a settlement     *)
(* (core/settlement.py:39-45): of the improvement, and of what the rounded *)
(* improvement comes to for the stake.                                     *)
(***************************************************************************)
RoundsToNearestEven ==
  \A n \in {Gain, claim.stake * RoundHalfEven(Gain, Scale)} :
    LET r == RoundHalfEven(n, Scale)
        twiceOff == 2 * (r * Scale - n)
    IN /\ -Scale <= twiceOff /\ twiceOff <= Scale
       /\ (twiceOff = Scale \/ twiceOff = -Scale) => r % 2 = 0

(***************************************************************************)
(* No claim loses more than its stake (SC-009), nor wins more than it.     *)
(***************************************************************************)
LossCapped == -claim.stake <= Delta /\ Delta <= claim.stake

(***************************************************************************)
(* Two roundings never move a delta by as much as half a credit and half a *)
(* hundredth of the stake together: what is stored is the exact            *)
(* stake-weighted improvement to within that.                              *)
(***************************************************************************)
DeltaNearExact ==
  LET twiceOff == 2 * (10000 * Delta - claim.stake * Gain)
      slack == 10000 + 100 * claim.stake
  IN -slack <= twiceOff /\ twiceOff <= slack

(***************************************************************************)
(* Credits and reputation never move in opposite directions, and both      *)
(* follow the sign of the improvement over the prior (SC-008).             *)
(***************************************************************************)
SameDirection ==
  /\ Gain >= 0 => Delta >= 0 /\ NewReputation >= claim.reputation
  /\ Gain <= 0 => Delta <= 0 /\ NewReputation <= claim.reputation

(***************************************************************************)
(* A report at least as close to the truth is never paid less: rounding    *)
(* must not turn the scoring rule round anywhere.                          *)
(***************************************************************************)
CloserNeverPaysLess ==
  LET Paid(p) == CreditDelta(claim.stake, claim.prior, p, claim.outcome)
      Off(p) == IF claim.outcome = 1 THEN 100 - p ELSE p
  IN Off(claim.p) <= Off(claim.belief) => Paid(claim.p) >= Paid(claim.belief)

(***************************************************************************)
(* The Brier score is proper, and rounding leaves little to gain from      *)
(* misreporting: in expectation under an agent's own belief, a false       *)
(* report beats the honest one by at most what two roundings can add.      *)
(* (Expected credits are counted in hundredths: belief of outcome 1 is a   *)
(* number of hundredths.)                                                  *)
(***************************************************************************)
HonestyPays ==
  LET Expected(p) ==
        claim.belief * CreditDelta(claim.stake, claim.prior, p, 1)
        + (100 - claim.belief) * CreditDelta(claim.stake, claim.prior, p, 0)
  IN Expected(claim.p) <= Expected(claim.belief) + 100 + claim.stake
=============================================================================

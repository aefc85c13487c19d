----------------------------- MODULE MCAttention -----------------------------
EXTENDS Attention

CONSTANTS h1, h2, h3

MCImpact == [h \in Hypotheses |-> IF h = h3 THEN 2 ELSE 1]
MCIdOrder == [h \in Hypotheses |-> IF h = h1 THEN 1 ELSE IF h = h2 THEN 2 ELSE 3]
MCStrategies == <<"stakeroute", "majority_vote", "highest_confidence">>

(* With forecasts heard at different times every order and tie comes up.   *)
MCWorlds == {"early", "late"}
MCScores ==
  [early |-> [h \in Hypotheses |-> IF h = h1 THEN 2 ELSE 1],
   late |-> [h \in Hypotheses |-> IF h = h1 THEN 1 ELSE 2]]
MCScore ==
  [s \in {MCStrategies[i] : i \in 1..3} |->
     IF s = "majority_vote" THEN [early |-> MCScores.late, late |-> MCScores.early]
                            ELSE MCScores]
=============================================================================

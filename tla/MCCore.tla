-------------------------------- MODULE MCCore --------------------------------
(***************************************************************************)
(* What a settlement pays, what an attack costs, how a pass ranks, and how *)
(* the pages hear of it.  The four have no variable in common, so one run  *)
(* checks them all: it starts in one scene and stays there, with the rest  *)
(* at rest.  Their product would only repeat each in every state of the    *)
(* others.                                                                 *)
(***************************************************************************)
EXTENDS MCScoring, MCAttackCost, MCAttention, LiveQueue

CONSTANTS p1, p2

MCMaxConnects == [p \in Pages |-> IF p = p1 THEN 2 ELSE 1]

VARIABLE scene

CoreInit ==
  /\ scene \in {"settlement", "price", "ranking", "pages"}
  /\ IF scene = "settlement" THEN InitScoring
     ELSE claim = CHOOSE c \in Claim : TRUE
  /\ IF scene = "price" THEN InitPrices
     ELSE /\ honest = {} /\ joined = 0 /\ cluster = FALSE
          /\ rival = CHOOSE r \in Rivals : TRUE
          /\ reputation = CHOOSE r \in Reputations : TRUE
  /\ Init /\ (scene # "ranking" => world = "early")
  /\ InitLive

CoreNext ==
  /\ \/ scene = "settlement" /\ Reconsider /\ UNCHANGED <<prices, vars, live>>
     \/ scene = "price" /\ NextPrices /\ UNCHANGED <<claim, vars, live>>
     \/ scene = "ranking" /\ Next /\ UNCHANGED <<claim, prices, live>>
     \/ scene = "pages" /\ NextLive /\ UNCHANGED <<claim, prices, vars>>
  /\ UNCHANGED scene

CoreSpec == CoreInit /\ [][CoreNext]_<<claim, prices, vars, live, scene>>
===============================================================================

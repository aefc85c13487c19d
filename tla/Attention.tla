------------------------------ MODULE Attention ------------------------------
(***************************************************************************)
(* The attention queue: run_ranking_pass (worker/pipeline.py) ranks the    *)
(* open hypotheses under each strategy in turn, allocate_attention         *)
(* (core/ranking.py) routes the first Budget of them, the decisions are    *)
(* inserted row by row and committed at the end of the pass.  GET          *)
(* /api/queue shows the latest "stakeroute" decision of each hypothesis    *)
(* and GET /api/comparison those of every strategy (latest_decisions,      *)
(* storage/repository.py).                                                 *)
(*                                                                         *)
(* When the worker process ranks, a reader has a connection of its own and *)
(* sees committed rows; when the dashboard ranks, its GETs run in a thread *)
(* pool on the connection that is inserting, and see every row.            *)
(*                                                                         *)
(* A pass reads the forecasts of each hypothesis anew for each strategy.   *)
(* Its first insert takes SQLite's write lock; until then another process  *)
(* may commit between any two of its reads.                                *)
(***************************************************************************)
EXTENDS Integers, FiniteSets, Sequences

CONSTANTS Hypotheses,
          Impact,      \* impact_minor_units of each hypothesis
          IdOrder,     \* position of each hypothesis id in string order
          Strategies,  \* STRATEGIES, "stakeroute" first
          Worlds,      \* states of the forecasts, as far as scores go
          Priorities,  \* values a score can take
          Score,       \* what a strategy makes of each hypothesis in each
          Budget,      \* ATTENTION_BUDGET
          MaxNow,      \* bound: the clock stops there
          MaxResolved  \* bound: hypotheses that get resolved

ASSUME AttentionAssumption ==
  /\ IsFiniteSet(Hypotheses)
  /\ Impact \in [Hypotheses -> Nat]
  /\ IdOrder \in [Hypotheses -> Nat]
  /\ \A g, h \in Hypotheses : IdOrder[g] = IdOrder[h] => g = h
  /\ Strategies \in Seq(STRING) /\ Strategies # <<>>
  /\ \A i, j \in DOMAIN Strategies : Strategies[i] = Strategies[j] => i = j
  /\ Priorities \subseteq Int
  /\ \A i \in DOMAIN Strategies, w \in Worlds :
       Score[Strategies[i]][w] \in [Hypotheses -> Priorities]
  /\ Budget \in Nat
  /\ MaxNow \in Nat /\ MaxResolved \in Nat

VARIABLES
  open,      \* hypotheses with status "open"
  world,     \* the forecasts committed so far
  committed, \* committed rows of attention_decisions
  written,   \* the rows as the ranking connection sees them
  pass,      \* the ranking pass in progress
  now        \* the clock of decided_at_ms

vars == <<open, world, committed, written, pass, now>>

StrategyNames == {Strategies[i] : i \in DOMAIN Strategies}
Baselines == StrategyNames \ {Strategies[1]}

Decisions == [strategy : StrategyNames, hypothesis : Hypotheses,
              priority : Priorities, rank : 1..Cardinality(Hypotheses),
              routed : BOOLEAN, at : 0..MaxNow, world : Worlds]

(* turn: the strategy whose turn it is.  heard: the forecasts it has read, *)
(* per hypothesis.  todo: its decisions still to be inserted.              *)
Passes == [turn : 1..Len(Strategies) + 1, hypotheses : SUBSET Hypotheses,
           heard : UNION {[hs -> Worlds] : hs \in SUBSET Hypotheses},
           todo : SUBSET Decisions, at : 0..MaxNow]

NoPass == [turn |-> 0]

Init ==
  /\ open = Hypotheses
  /\ world \in Worlds
  /\ committed = {} /\ written = {}
  /\ pass = NoPass
  /\ now = 0

-----------------------------------------------------------------------------
(***************************************************************************)
(* allocate_attention: sorted by (-priority, -impact, hypothesis_id); the  *)
(* first Budget ranks are routed, the rest recorded as withheld.           *)
(***************************************************************************)
AscendingPrecedes(priority, g, h) ==                               \* mutant
  \/ priority[g] < priority[h]
  \/ priority[g] = priority[h] /\ IdOrder[g] < IdOrder[h]

TiedPrecedes(priority, g, h) ==                                    \* mutant
  \/ priority[g] > priority[h]
  \/ priority[g] = priority[h] /\ Impact[g] > Impact[h]

Precedes(priority, g, h) ==
  \/ priority[g] > priority[h]
  \/ /\ priority[g] = priority[h]
     /\ \/ Impact[g] > Impact[h]
        \/ Impact[g] = Impact[h] /\ IdOrder[g] < IdOrder[h]

RankFromZero(priority, h) ==                                       \* mutant
  Cardinality({g \in DOMAIN priority : Precedes(priority, g, h)})
Rank(priority, h) ==
  1 + Cardinality({g \in DOMAIN priority : Precedes(priority, g, h)})

RoutesOneMore(rank) == rank <= Budget + 1                          \* mutant
Routed(rank) == rank <= Budget

(* The decisions of one strategy, from the forecasts it has heard.         *)
Allocation(strategy, heard, at) ==
  LET priority == [h \in DOMAIN heard |-> Score[strategy][heard[h]][h]]
  IN {[strategy |-> strategy, hypothesis |-> h, priority |-> priority[h],
       rank |-> Rank(priority, h), routed |-> Routed(Rank(priority, h)),
       at |-> at, world |-> heard[h]] : h \in DOMAIN heard}

-----------------------------------------------------------------------------
(***************************************************************************)
(* What other processes commit; a pass holds the write lock from its first *)
(* row on.                                                                 *)
(***************************************************************************)
LockFree == written = committed

(* settle_hypothesis.                                                      *)
Resolve(h) ==
  /\ h \in open /\ LockFree
  /\ Cardinality(Hypotheses \ open) < MaxResolved
  /\ open' = open \ {h}
  /\ UNCHANGED <<world, committed, written, pass, now>>

(* Forecasts and reputations change.                                       *)
Forecast ==
  /\ LockFree
  /\ world' \in Worlds \ {world}
  /\ UNCHANGED <<open, committed, written, pass, now>>

Tick ==
  /\ now < MaxNow
  /\ now' = now + 1
  /\ UNCHANGED <<open, world, committed, written, pass>>

-----------------------------------------------------------------------------
(***************************************************************************)
(* run_ranking_pass.  It reads the open hypotheses and the agents first.   *)
(* A pass takes more than a millisecond, so the next has a later           *)
(* decided_at_ms.  Without an open hypothesis it does nothing.             *)
(***************************************************************************)
BeginPass ==
  /\ pass = NoPass /\ open # {}
  /\ \A d \in committed : d.at < now
  /\ pass' = [turn |-> 1, hypotheses |-> open, heard |-> <<>>, todo |-> {},
              at |-> now]
  /\ UNCHANGED <<open, world, committed, written, now>>

(* _forecast_snapshots, hypothesis by hypothesis in the order of their     *)
(* ids; after the last comes allocate_attention.                           *)
ReadForecasts(h) ==
  LET heard == [g \in DOMAIN pass.heard \cup {h} |->
                  IF g = h THEN world ELSE pass.heard[g]]
  IN /\ pass.turn \in DOMAIN Strategies /\ pass.todo = {}
     /\ h \in pass.hypotheses \ DOMAIN pass.heard
     /\ \A g \in pass.hypotheses : IdOrder[g] < IdOrder[h] => g \in DOMAIN pass.heard
     /\ pass' = [pass EXCEPT
          !.heard = heard,
          !.todo = IF DOMAIN heard = pass.hypotheses
                     THEN Allocation(Strategies[pass.turn], heard, pass.at) ELSE {}]
     /\ UNCHANGED <<open, world, committed, written, now>>

(* insert_attention_decision, in the order of the ranks; after the last    *)
(* comes the next strategy.                                                *)
InsertDecision ==
  /\ pass # NoPass
  /\ \E d \in pass.todo :
       /\ \A e \in pass.todo : d.rank <= e.rank
       /\ written' = written \cup {d}
       /\ pass' = IF pass.todo # {d}
                    THEN [pass EXCEPT !.todo = @ \ {d}]
                    ELSE [pass EXCEPT !.todo = {}, !.turn = @ + 1, !.heard = <<>>]
  /\ UNCHANGED <<open, world, committed, now>>

CommitPerStrategy ==                                               \* mutant
  /\ pass # NoPass /\ pass.todo = {} /\ ~LockFree
  /\ committed' = written
  /\ pass' = IF pass.turn > Len(Strategies) THEN NoPass ELSE pass
  /\ UNCHANGED <<open, world, written, now>>

CommitPass ==
  /\ pass.turn > Len(Strategies)
  /\ committed' = written
  /\ pass' = NoPass
  /\ UNCHANGED <<open, world, written, now>>

(* The process is killed, and SQLite rolls back; or aggregate_probability  *)
(* meets a forecast of an agent that was not there yet when the pass read  *)
(* the agents.  Nobody rolls back then, nor need they: only the first turn *)
(* looks at agents, and it computes every aggregate before its first row.  *)
BreakOff ==
  /\ pass # NoPass
  /\ written' = committed
  /\ pass' = NoPass
  /\ UNCHANGED <<open, world, committed, now>>

Next ==
  \/ \E h \in Hypotheses : Resolve(h) \/ ReadForecasts(h)
  \/ Forecast \/ Tick
  \/ BeginPass \/ InsertDecision \/ CommitPass \/ BreakOff

Spec == Init /\ [][Next]_vars

-----------------------------------------------------------------------------
(* latest_decisions: for each hypothesis its rows with the greatest        *)
(* decided_at_ms, whatever has become of the hypothesis.                   *)
LastPassDecisions(rows, strategy) ==                               \* mutant
  {d \in rows : d.strategy = strategy /\ \A e \in rows : e.at <= d.at}

LatestDecisions(rows, strategy) ==
  LET of == {d \in rows : d.strategy = strategy}
  IN {d \in of : \A e \in of : e.hypothesis = d.hypothesis => e.at <= d.at}

(* GET /api/queue, on a connection that sees these rows.                   *)
Queue(rows) == {d \in LatestDecisions(rows, Strategies[1]) : d.routed}

(* GET /api/comparison: which decision of which hypothesis stands in the   *)
(* column of a strategy.                                                   *)
Comparison(rows) ==
  [strategy \in StrategyNames |->
     {[hypothesis |-> d.hypothesis, at |-> d.at] : d \in LatestDecisions(rows, strategy)}]

RoutedBy(decisions) == {d.hypothesis : d \in {e \in decisions : e.routed}}

TypeOK ==
  /\ open \subseteq Hypotheses
  /\ world \in Worlds
  /\ committed \subseteq Decisions /\ written \subseteq Decisions
  /\ pass = NoPass \/ pass \in Passes
  /\ now \in 0..MaxNow

(***************************************************************************)
(* Among the hypotheses still open, the queue never routes more than the   *)
(* budget: their latest decisions all come from one pass.                  *)
(***************************************************************************)
OpenWithinBudget ==
  Cardinality({d \in Queue(committed) : d.hypothesis \in open}) <= Budget

(***************************************************************************)
(* The decisions of one pass rank their hypotheses 1, 2, 3, ... without a  *)
(* gap or a tie, so withheld ones are all accounted for (FR-022) and the   *)
(* order does not depend on the order of the input.                        *)
(***************************************************************************)
PassOf(d) == {e \in committed : e.at = d.at /\ e.strategy = d.strategy}
RanksAreAPermutation ==
  \A d \in committed :
    /\ {e.rank : e \in PassOf(d)} = 1..Cardinality(PassOf(d))
    /\ Cardinality({e.hypothesis : e \in PassOf(d)}) = Cardinality(PassOf(d))

(***************************************************************************)
(* No hypothesis is withheld in favour of one that matters less, and none  *)
(* is withheld while a slot is free.                                       *)
(***************************************************************************)
NothingOutranked ==
  \A d, e \in committed :
    e \in PassOf(d) /\ d.routed /\ ~e.routed =>
      /\ d.priority >= e.priority
      /\ Cardinality({f \in PassOf(d) : f.routed}) = Budget

(***************************************************************************)
(* A GET that reads the ranking connection in the middle of a pass shows a *)
(* mixture of two passes, but what both route is there all the time, and   *)
(* nothing is that neither routes.                                         *)
(***************************************************************************)
NoFlicker ==
  pass.turn = 1 /\ pass.todo # {} =>
    LET before == RoutedBy(Queue(committed))
        after == RoutedBy((written \ committed) \cup pass.todo)
        seen == RoutedBy(Queue(written))
    IN before \cap after \subseteq seen /\ seen \subseteq before \cup after

(***************************************************************************)
(* The comparison puts decisions of the same passes side by side, also     *)
(* after a pass that broke off half-way: a pass is one transaction for all *)
(* strategies (FR-023, FR-032).                                            *)
(***************************************************************************)
ComparesLikeWithLike ==
  \A s, t \in StrategyNames : Comparison(committed)[s] = Comparison(committed)[t]

(***************************************************************************)
(* The baselines of one pass have heard the same forecasts, for every      *)
(* hypothesis: by their turn the pass holds the write lock.  (It is only   *)
(* the first strategy that may have heard earlier ones, and different ones *)
(* for different hypotheses.)                                              *)
(***************************************************************************)
BaselinesHearTheSame ==
  \A d, e \in committed :
    d.at = e.at /\ {d.strategy, e.strategy} \subseteq Baselines => d.world = e.world

(***************************************************************************)
(* "An operator with a review budget of 2 is presented with at most 2      *)
(* hypotheses regardless of how many candidates exist" (SC-004).           *)
(***************************************************************************)
QueueWithinBudget == Cardinality(Queue(committed)) <= Budget
=============================================================================

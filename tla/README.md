# A TLA+ development of StakeRoute

StakeRoute is a prediction market for operational hypotheses. Agents stake
credits on forecasts, an operator with a finite review budget looks at the
hypotheses the market ranks first, and outcomes settle the stakes. This
directory holds TLA+ models of its economic core, the TLC configurations that
check them on small instances, and proofs, checked by TLAPS, of the main
properties for every instance.

Source paths below are relative to `src/stakeroute/` in the repository unless
they start with `specs/` or `.specify/`.

## 1. The system

| Component | Where | State | Operations |
|---|---|---|---|
| Settlement arithmetic | `core/settlement.py`, `core/scoring.py`, `core/reputation.py`, `core/types.py` | none | Brier score, quantised credit delta, reputation update, probability clamp |
| Ledger | `storage/schema.sql`, `storage/repository.py` | the SQLite tables | idempotent inserts, forecast upsert, credit adjustment, status changes, reset |
| Handlers | `worker/main.py`, `worker/settlement_runner.py` | none of their own | signal, forecast, outcome; expiry |
| Worker process | `worker/run_worker.py` | the position in its poll loop, the open transaction | seed, poll three subjects, consume, rank, publish |
| JetStream delivery | `transport/jetstream.py` and the NATS server | stream, consumer positions, deliveries in flight | publish, fetch, acknowledge, redeliver |
| In-process transport | `transport/memory.py` | pending, in flight, dead letters | the same, inside the dashboard process |
| Aggregation and baselines | `core/market.py`, `core/independence.py`, `core/baselines.py` | none | weigh forecasts into one probability |
| Ranking and attention | `core/ranking.py`, `worker/pipeline.py` | `attention_decisions` rows | rank, route within the budget, record |
| Dashboard | `dashboard/main.py` | one shared `Repository`, `MemoryTransport`, WebSocket clients | scenario endpoints, queue, explanations, metrics, live updates |
| Attack economics | `core/attack.py`, `analysis/cost_of_attack.py` | none | price of reaching rank 1 under each strategy |
| Simulator, metrics | `simulator/`, `metrics.py` | none | inputs, and averages for display |

How they interact. Producers (simulator, dashboard) publish events. The worker
fetches them from durable pull consumers; `consume_once` inserts the event row
and applies the handler in one transaction, commits, then acknowledges. The
handlers change the ledger; `settle_hypothesis` also commits. An iteration that
applied something ends in a ranking pass, which writes decision rows and
publishes updates. The dashboard opens the same database file with a connection
of its own, and its scenario endpoints run the same handlers and passes, over an
in-process transport, on that one connection; its GET endpoints share it, in a
thread pool. So there are two writers on one file, and SQLite has one write
lock. Pages learn of a new queue by a WebSocket notice without data, and ask.

What is hard here: at-least-once delivery against exactly-once effects; a
process that dies between a commit and what should follow it; messages that
arrive after the state they were meant for is gone; a balance kept in two
columns that must agree with a third table; rounding that must preserve
incentives; a reader in the middle of a multi-row write; a reset, a re-seeding
or a failed request of one process under the other; a set of sockets that
changes while a broadcast iterates over it. `PROJECT.json` lists
each hazard at its line with the properties aimed at it; those nobody watches
yet say why.

What makes each part correct:

* settlement: nobody loses more than the stake; credits and reputation follow
  the improvement over the prior; a better report is never paid less;
* ledger: staked credits equal what live unsettled forecasts lock; no negative
  balance; credits change only by recorded settlements; a resolution is final;
* worker: each published event has its effect exactly once, whatever fails;
  nothing acknowledged can be undone; everything published is handled;
* in-process transport: nothing is lost but what was redelivered often enough,
  and nothing circulates for ever;
* aggregation and prices: influence is sub-linear in stake and in shared
  evidence; the closed forms that price an outcome agree with it, to the last
  identity, and an attack in any denomination is paid for;
* attention: never more than the budget; the order is total and fair; the
  strategies compared are those of one pass; a reader in the middle of a pass
  loses nothing that both passes route; what is shown catches up;
* dashboard beside the worker: a request that fails half-way charges nobody;
  only a reset takes a resolution back; the books agree but for what a second
  grant wiped; deliveries come to an end.

## 2. The modules

```
Settlement ─┬─ Scoring ── MCScoring                     ScoringProofs, SettlementProofs
            ├─ Market ── AttackCost ── MCAttackCost     AttackCostProofs
            └─ Ledger ─┬─ ExactlyOnce                   LedgerProofs
                       ├─ Worker ── MCWorker            WorkerProofs
                       ├─ Expiry ── MCExpiry            ExpiryProofs
                       │    └ MemoryTransport
                       └─ Dashboard ── MCDashboard      DashboardProofs
Attention ── MCAttention                                AttentionProofs
LiveQueue                                               AttentionProofs
MCCore = MCScoring, MCAttackCost, MCAttention and LiveQueue
```

**Settlement** has the arithmetic as operators on exact integers: probabilities
in hundredths, Brier scores and improvements in ten-thousandths, reputations in
hundred-thousandths. `RoundHalfEven(n, d)` is `Decimal.quantize` with
`ROUND_HALF_EVEN`; `CreditDelta` rounds twice, as the code does, and caps a
loss. The grid is a real restriction. The code takes floats, whose last digits
are noise. On the grid the improvement is never a tie of the first rounding
(the difference of two squares is never 50 modulo 100), so the noise decides
nothing; off the grid it may, and the model does not say.

**Scoring** asks questions of that arithmetic. Its state is one claim about to
be settled, together with an alternative report for the same stake.

**Ledger** is the economic part of the database as a record, and each handler
as an operator from a ledger to a ledger: `SeedWorld` (`_seed_world`),
`WithEvent` (`insert_event`), `HandleForecast` (`handle_forecast_created` with
`upsert_forecast` and the two calls of `adjust_agent_credits`), `HandleOutcome`
(`settle_hypothesis`), and `Raises`, the foreign keys SQLite enforces. Foreign
keys matter: a `settlements` row references its forecast, so a settled forecast
cannot be replaced. It has no variables. It ends with the predicates on
ledgers, and on pairs of ledgers, that the other modules turn into properties.

**Worker** is the poll loop against a broker that redelivers. One action per
step at which something else can happen: `Start`, `Fetch`, `FetchTimeout`,
`InsertEvent`, `RunHandler`, `HandlerRaises`, `Commit`, `Ack`, `RankingPass`,
and from outside `Publish`, `AckWaitOver`, `AckLost`, `Crash`. `db` is the
committed database; `tx` is what the worker's connection sees, the open
transaction included. A stop sets `tx` back to `db`. `RunHandler` writes `db`
too when it settles, because `settle_hypothesis` commits by itself. `queue` is
a history of what the last ranking pass read.

**ExactlyOnce** is what the worker promises: a market with no broker, no
transaction and no crash, in which a published event is applied in one step or
not at all. Worker implements it with `ledger <- db` and
`published <-` the messages in the stream.

**MemoryTransport** is the in-process stand-in for JetStream: per subject a
queue, the deliveries in flight, and the dead letters. `Receive` is one turn of
the loop in `subscribe`, `SimulateCrash` the redelivery of everything in flight
(in the order of the ids, behind what is pending) or its removal to the dead
letters.

**Expiry** composes that transport with the handlers and with
`expire_overdue_hypotheses` on one ledger, as the integration tests do, but in
every order: a consumer may die before its commit, before its acknowledgement or
not at all, at any message, and expiry may come between any two deliveries. A
pass of expiry is one action, a fold over all overdue hypotheses, since it runs
on one connection in one transaction. Nobody rolls back when a handler raises: on
a connection that lives on, as the one the tests have, the event row stays
(`DieBeforeCommit`), and the redelivered message is then a duplicate. Two
histories, `source` and `received`, say what was published under an id and how
often it came.

**Dashboard** is the scenario endpoints, the worker process and the simulator on
one database file. A request publishes, then makes its transactions one by one
(`job` is what it has left to do): reset, open the scenario, grant the agents,
one transaction per message of the batch. Nothing in it awaits another request,
but the worker's transactions may come between any two of its own. `db` is the
committed database, `tx` what the dashboard's connection sees, and `todo` the
statements its handler has still to run for the message it is consuming:
`Statements` lists them in the order of the handlers (`Acceptance` is the upsert,
then the two adjustments), `Written` is what each does, `Fails` the foreign keys
that are checked as it runs. A statement that fails ends the request where it is:
nobody rolls back, so `tx` keeps what was written until the next commit, and the
worker cannot write until then (`LockFree`); the rest of the batch stays in
`pending` for the next request, across a reset. The worker looks for hypotheses
without a lock (`WorkerStart`) and seeds later (`WorkerSeed`). It fetches a batch
of what is not acknowledged, in any order a redelivery can make, and consumes it
from the front (`WorkerFetch`, `WorkerConsume`); a message whose handler raises
ends it, with the rest of the batch unread (`WorkerRaises`). A message is one
step of the worker here, because module Worker refines it. Event ids are the
source's id and the second they are computed in. `forgotten` is a history of the
stakes wiped by granting an agent again, which makes "nothing else goes wrong"
sayable. The signals of a scenario are left out, since their handler does
nothing.

**Market** is aggregation and the baselines for one hypothesis, as questions:
does the aggregate reach a bar? Ranking asks nothing else. The weights are
`reputation * sqrt(stake) / sqrt(cluster size)`. `Root` and `Independence` are
constants: the roots and the discounts as the code computes them, in any unit and
to any number of digits, for any stakes and for clusters up to `MaxSharing`. Only
the crowd of an attack on shared evidence, whose size is what a price is about,
has its exact discount: `Discounted` squares both sides. What is lost is the last
bits of the sums.

**AttackCost** has the closed forms of `core/attack.py` beside that mechanism.
Honest forecasts are submitted and resubmitted, on evidence of their own or on
the same, and identities of one earned reputation join one by one; in each state
the price computed from the honest forecasts, as `attack_frontier` and
`baseline_attack_cost` list it, must say whether the target is there yet. `rival`
is what the best of the other hypotheses has under each strategy. The bar of a
baseline is the leader over all of them, the target included (`MajorityBar`,
`ConfidenceBar`), as `_baseline_defender_probability` takes it. The settlement
loss of the price is computed with the settlement arithmetic itself. What the
report prints of these records, and how it picks its hypotheses, is left out; and
the evidence an attack shares is its own, as the closed forms assume.

**Attention** is the ranking pass, read by read and row by row, for the
strategies in turn, and what `GET /api/queue` and `GET /api/comparison` read of
it, on a connection of their own or on the one that is inserting. What a
strategy makes of the forecasts is an input: `world` stands for the forecasts
committed so far, and `Score` for what each strategy makes of them. A pass reads
the open hypotheses once and the forecasts of each hypothesis anew for each
strategy (`ReadForecasts`); it takes the write lock with its first row, so other
processes can resolve a hypothesis or commit a forecast between any two reads of
the first strategy, and not later. `BreakOff` is a crash, which SQLite rolls
back, or the `KeyError` of a forecast by an agent that came after the pass had
read the agents. Nobody rolls that back, but there is nothing to roll back: only
the first strategy looks at agents, before its first row.

**LiveQueue** is the set of open WebSockets in the dashboard, the broadcast that
iterates over that very set and suspends at each send, and the pages: sockets
open, close and are replaced while any number of broadcasts are under way. The
iterator of a set fails only when the size has changed. While it has not, `add`
and `difference_update` may still have moved the elements within the table
(`NewTable`), and then a broadcast may come to its end without having visited
everyone (`EndBroadcast`, `PassedOver`). A queue is a number, that of the pass
that made it.

Definitions marked `mutant` are not part of the models. Each is a plausible bug
in the definition below it, and substituting it must break a property; the
pairs are in `PROJECT.json`.

## 3. The runs

| Run | Question | Bounds |
|---|---|---|
| `core`, settlement | Do rounding, capping and clamping keep what settlement promises? | stakes 1, 2, 3, 7, 25, 50; priors and reports at the ends, the clamps and on both sides of a rounding step |
| `core`, price | Is each closed-form count the least number of identities that really does it, and is the attack paid for? | 5 forecasts of 3 agents, two on shared evidence; stakes 1 to 50, squares and not; reputations 0.1 and 0.5 with 16 and 6 identities; 6 rivals: market bars below the prior, level with a report, between, half a hundredth off, at the ceiling, above it, and likewise for the baselines |
| `core`, ranking | Are the decisions of a pass a fair permutation within the budget, what may a reader see in the middle of one, and which strategies does the comparison set side by side? | 3 hypotheses, 3 strategies, 2 states of the forecasts in which every pair changes order, budget 2, 2 passes, 2 resolutions |
| `core`, pages | Do pages catch up with what was announced? | 2 pages, 3 sockets, 1 new queue, 2 broadcasts |
| `worker` | Is the ledger consistent after any redelivery, resubmission, double resolution and crash, and is it the abstract market `ExactlyOnce`? | one agent competing with itself, 6 messages, 3 published, 1 crash, batches of 2 |
| `worker_live` | Is everything recorded and acknowledged, and does the queue keep up? | messages none of which raises, a rejected one and a signal among them; 2 published, 1 crash |
| `expiry` | Does expiry only move credits, is nothing lost on the in-process transport, and does nothing circulate there? | 4 messages, a resubmission and a resolution among them, 3 published, 1 redelivery, 2 deadlines, clock to 2 |
| `dashboard` | Do scenario requests, failing at any statement or not, beside a worker that seeds, consumes and dies, leave the ledger consistent, and do deliveries end, also behind a poison message in one batch? | 2 requests or restarts, 2 seconds, 3 injections that overlap in agents, one of them on a hypothesis that is not there; the forecast of the simulator in 2 seconds, batches of 2 in either order; the worker dies and the simulator starts any number of times |

Why the bounds suffice. Three published messages give every pair of handlers in
both orders with a redelivery of either, and the sequence forecast, outcome,
resubmission. A second crash finds the worker in a state some first crash
already left, since a stop forgets everything but `db` and the broker. Grant 5
and stakes up to 4 let two stakes together exceed the balance and a
resubmission be covered only by what it replaces. The reputations 0.99 and 0.15
reach both clamps. In `expiry` a message that is redelivered once and given up
the second time meets both sides of the limit, and three of them overtake each
other in every way. In `dashboard`, two requests are an injection
that fails and a reset that commits what it left, or an injection and a
resolution of what it forecast, with the worker, which seeds and takes
forecasts for itself, at any point between; two seconds make equal and different ids for the
same click, and the simulator's forecasts may carry the ids of the dashboard's
or others. A forecast that comes after its like was settled is a poison message,
and the other one of the batch comes before it or behind it.
Longer sequences, such as an injection, a resolution and another injection, are
left to the proofs of the four safety properties; `reinjected` has five requests.

The prices of the bars in `core` lie inside the numbers that may join for most
pools, so that one fewer and one more are both reached; roots are given in
halves and discounts in thirds, as TLC's numbers have 32 bits and squares of sums
must fit (the proofs take any). In the ranking scene two hypotheses tie in
priority and impact, one more than the budget is open, and two passes are what a
mixture is made of. Two pages are enough for one socket to be exchanged for
another while the other page waits for its notice. One new queue is enough for
any number of them: whether some page has an older queue than one that was
announced is a matter of which queues are at least that one, and every other
pass is then a broadcast of what was there, or nothing. The four scenes of
`core` share no variable, and a behaviour of the run is one of them (MCCore).

The proofs below remove the bounds from all safety properties of all passing
runs. Deadlock checking is off where a run really stops: `core` (one
reconsideration; identities, broadcasts and sockets used up) and `expiry` (clock
and messages used up).

Runs that must find a violation, each of a sentence in the repository:

| Run | What TLC finds |
|---|---|
| `late_stake` | A forecast delivered after the resolution is accepted; its stake is never released (`data-model.md:35`, FR-009). |
| `poison` | A resubmission after settlement raises on the foreign key, the worker stops, and the restarted worker gets the same message (SC-005). |
| `queue_stale` | A crash between commit and ranking pass: the redelivered event is a duplicate, so no pass follows (`spec.md:84`). |
| `reinjected` | Injecting the same agents twice wipes their stakes but not their forecasts; a settlement, or a resubmission of less, drives `staked_credits` below zero (`data-model.md:41`). |
| `queue_resolved` | A resolved hypothesis keeps its routed row beside the budget of the next pass (SC-004). |
| `flipped` | A flipped baseline is priced at one identity, or as unreachable, and not at zero: its bar is the target's own score (`analysis/cost_of_attack.py:225`). |
| `concentrated` | Three small forecasts cost less than the two large ones that do the same (`analysis/cost_of_attack.py:69`). |

Each of these runs uses the constants of a passing one, or fewer of its actors:
`reinjected` has no worker and five requests, `flipped` a rival that the target
passes.

Other disagreements have no run of their own. They show in how a property had
to be stated:

* `PagesCatchUp` leaves out a page that a broadcast passed over. One socket is
  discarded and another added during a send: the set has its old size, so that no
  error is raised, and the broadcast may run to its end without having come to a
  page that was connected all the while, against "push a lightweight "something
  changed" notice to every connected WS client" (`dashboard/main.py:73`).
* `MarketPriceIsLeast` leaves out a bar above the ceiling on a target without
  forecasts. One identity is quoted for it, which does not reach it, because
  `required_adversary_weight` returns 0 before it looks at the ceiling, against
  "returns None when the attack is infeasible at any weight"
  (`core/attack.py:128`).
* `CreditsAreConserved` of `expiry` is about the sum of the two balances, since an
  outcome after the expiry releases the returned stakes again and makes
  `staked_credits` negative (`data-model.md:41`). It also makes `resolved` of
  `expired` (`data-model.md:108`), which `ResolutionIsFinal` does not forbid.
* `DeliveriesEnd` excuses a write lock that is never given back. After a failed
  request the dashboard holds it until somebody posts again, and every delivery
  of the worker waits, gives up and restarts until then. It also excuses a poison
  message, and one that is behind a poison message in its batch again and again.
* `BackedButForGrants` needs `forgotten` for the worker too: one that found no
  hypotheses when it started, and was overtaken by a scenario of the dashboard,
  grants its agents again, although `_seed_world` promises to seed "only on a
  genuine first start".
* `BaselinesHearTheSame` cannot include the market. Its forecasts are read
  before the pass holds the lock, theirs after, so one forecast committed in
  between is in the baselines' columns and not in the market's, against "the
  identical event stream" (FR-023).
* `OpenWithinBudget` speaks of committed rows. A GET on the connection that
  ranks may show more than the budget for a moment; `NoFlicker` is what is left.
* `PagesCatchUp` is about queues that were announced. A pass of the worker is
  published on `hypotheses.updated`, which no page's server consumes, so a page
  shows it when something else makes it ask.

Fairness, in `worker_live`, `queue_stale` and `poison`. `WF(WorkerStep)`: the
loop never blocks for ever (fetch has a timeout), and Docker restarts a stopped
worker (`restart: unless-stopped`). `WF(AckWaitOver)`: the broker's timer.
`SF(Ack)`: acknowledgements do not get lost for ever. `RankingPass`, `Commit`
and the rest need nothing of their own: the worker is sequential, so while it is
up exactly one of its steps is enabled. Crashes are finite because `MaxCrashes`
bounds them; a worker killed in every iteration makes no progress and no
property claims it does. No fairness makes a producer publish.

In `dashboard` a worker may die any number of times. `WF(Work)`: a request that
runs goes on. `WF(WorkerStart)`: restart. `WF(WorkerRaises)`: a handler that
raises ends the process. `SF(WorkerSeed)`: if the lock is free again and again,
it is not killed every time before it seeds. `SF(Delivers(m))`: what is not
acknowledged is delivered again without limit, so it is in a batch again and
again; which messages are before it there is nobody's promise. And for each rest
of a batch, `SF` of consuming its first message with the acknowledgement
arriving: a worker that comes that far again and again is not killed, nor is the
acknowledgement lost, every time. None of this takes a message past one that
raises before it. In `expiry`,
`WF(Consume(s))` and `WF(Redeliver(s))` per subject: tests subscribe until a
queue is empty and then simulate the crash. The consumers may all die, which is
why `NoneCirculates` needs the limit.

## 4. The proofs

All proofs are for arbitrary finite sets of agents and hypotheses, arbitrary
messages, priors, stakes, batch sizes and numbers of crashes, and for arbitrary
scores, budgets, pages and broadcasts. The assumptions are those the modules
name: the ranges of the constants; `StakeMin > 0`, which is what lets stake 0
stand for "no forecast"; that no two hypotheses have one place in the order of
ids; that no strategy is listed twice; and, for the prices, that roots and
discounts are positive, that no more than `MaxSharing` honest agents cite the
same evidence, that the identities' evidence is not an honest agent's, and that
the root of four times the stake per identity is twice its root. One theorem has
a hypothesis of its own, `Prior <= 48` of `AttacksPaidForHold`. It is exact: from
a prior of 0.49 on, an identity with a stake of two credits loses one, and "more
than half" fails.

* **SettlementProofs** has the lemmas on rounding and capping: the result of
  `RoundHalfEven` is within half a unit, has the sign of its argument, and
  bounds on a product carry over the second rounding; ties go to even; rounding
  and the delta are monotone; the Brier score is proper. It also has
  `SubsetInduction`, the induction over a finite set that the folds need.
* **ScoringProofs**: the six properties of the settlement in run `core`, for all stakes and
  probabilities on the grid.
* **LedgerProofs**: each ledger operator preserves `BooksInv`, and its effect on
  credits, reputation and resolutions. `BooksInv(ledger, missing)` lets the
  staked column fall short of the live forecasts by `missing`, so that the same
  lemmas serve the worker (nothing is missing) and the dashboard (what a second
  grant wiped is). The balance property counts credits
  as elements of a set, one point per locked credit, so that replacing the
  forecast of one hypothesis changes one slice of that set and no sum is needed.
* **WorkerProofs**: the inductive invariant and the nine properties of run
  `worker`, `WorkerImplementsExactlyOnce` among them.
* **DashboardProofs**: the inductive invariant and the four safety properties of
  run `dashboard`.
* **ExpiryProofs**: the inductive invariant and the four safety properties of
  run `expiry`.
* **AttentionProofs**: the inductive invariant and the seven properties of the
  ranking pass in run `core`, and `PagesCatchUp` of LiveQueue.
* **AttackCostProofs**: the inductive invariant and the four properties of the
  prices in run `core`.

The inductive invariant `Inv` of the worker has four parts. `TypeOK`.
`LedgerInv(db)`: `BackedBut` and `Replayable`, with what makes them inductive:
`Solvent` (no available balance is negative, which with `Backed` gives
`NonNegative`), `OutcomesResolve`, `NothingBeforeSeed` and
`ReputationsInRange`. `TxInv`: what `tx`
can be in each location of the worker, namely `db`, or `db` with one more event,
or `db` with one more event and its handler's effect; so a commit is always one
application of `Process`. And `AckedAreRecorded`, which needs `TxInv`: at `ack`
the current event is already in `db`. `DatabaseStep` then says that every step
of the worker leaves `db` alone, seeds it, or applies one new event that does
not raise. The action properties and the refinement follow from that lemma
alone.

The inductive invariant of the dashboard has three parts: types of the queues
and jobs; `BooksInv(db, forgotten)`; and `Midway`, which says how far the open
transaction has come. `Base` is the committed database with the event rows of the
connection. Between messages `tx` is `Base` (`Idle`, which gives
`FailuresMoveNoCredits`). Within one, for each statement that is next, `tx` is
what those before it have made of `Base`, and whatever comes after the statement
with the foreign key presupposes that it did not fail. So a failure leaves `Base`,
and the last statement leaves `Handle` of it (`AcceptanceComplete`,
`SettlementComplete`): statement by statement the handlers do what Ledger says
they do in one step. Each transaction, of the dashboard on `tx` or of the worker
on `db`, then starts from books in order, and `StepKeeps` is one lemma per
transaction: `Process` from LedgerProofs, and `OpenedKeeps` and `GrantedKeeps`
here. Only a reset is not monotone, and it leaves the empty books.

Two definitions needed an induction: a pass of expiry is a fold over the overdue
hypotheses, and the influence in a pool is a sum over forecasts. The library's
induction theorems take an operator as a parameter and cannot be used here. What
can is well-foundedness of the proper subsets of a finite set: a non-empty set
of subsets has a minimal one (`WFMin`). `SubsetInduction` is that fact, with the
property given as the set of the subsets that have it. A fold is then unfolded
in three steps: its recursion has a solution on the subsets of any finite set
(`PassesExists`, `AddsExists`), two solutions agree where both are defined
(`PassesAgree`, `AddsAgree`), and so the fold over a set is its step applied to
one element and the fold over the rest (`PassStep`, `SumChosen`).

The inductive invariant of the expiry run has three parts. `TransportInv`: a
message has at most one delivery, pending or in flight, whose count is how often
the message was received, so that what is given up was received
`MaxRedeliveries + 1` times. `Books`: the ledger is in order but for staked
columns that the live forecasts no longer back, because expiry returns stakes and
leaves the rows; it says that *some* amount is missing, and the lemmas of
LedgerProofs carry it. And `GoneAreRecorded` itself, inductive once `TransportInv`
says that a redelivery puts back exactly what was in flight. `AfterPassEffect` is
the induction over a pass: the hypotheses are expired, no agent has less
available, the sum of available and staked is what it was for every agent, and
nothing else has moved. The order in which a crash puts deliveries back is stated
by what it satisfies, not by a sort: the sequences of them with ascending ids.

The prices rest on one equation, `PullPool`: the pull of a pool of honest
forecasts and `j` identities is `j * Push - Gap`, where `Gap` is what the honest
forecasts lack and `Push` what one identity adds. It needs that a sum does not
depend on the order of a fold (`SumRemove`), splits over disjoint sets
(`SumUnion`) and is linear (`SumCombination`); the invariant (finitely many
forecasts, one per agent) makes the sets disjoint. `MarketReaches` turns
`aggregate_probability` into an inequality in `j`, with `j` times squares on both
sides where the evidence is shared, and `LeastReaching` says that the rounded-up
quotient is its least solution. The four cases of `MarketPrice` are those of the
code: nobody to overcome, nothing to overcome, a bar out of reach, and the closed
form. The honest forecasts keep their discounts when identities join, since these
cite no evidence of theirs (`PoolClusters`). `IdentityLoses` bounds both roundings
for every stake. A baseline's bar is the best rival until the target passes it,
which is where `BaselinePricesAreLeast` ends.

The argument for the queue has two halves. A rank counts the hypotheses that
precede in a strict total order, so it is injective and at most their number,
and by counting onto (`RanksFill`): that is what one strategy makes of any
scores. The inductive invariant `IInv` then says that whatever is committed is
made of whole passes (`OnlyWholePasses`): for every strategy one such ranking of
the same hypotheses, among them all that are open now. None of the properties is
inductive without it: the queue fits the budget because the latest decisions on
the open hypotheses are of one pass, and the columns of the comparison agree
because a pass that decided for one strategy decided for all. To keep it, the
invariant follows a pass turn by turn (`PassInProgress`): earlier turns are
complete, later ones empty, and in the present one the rows inserted and those
still to be inserted are together an allocation. A pass past its first turn has
written rows, which gives the write lock, which gives `HearsOneWorld`.

`PagesCatchUp` needs to know what a broadcast has still to do: an open page with
nothing under way to it and an older queue than the broadcast's is among the
sockets the broadcast started with and has not visited (`ToBeVisited`), and the
socket of a page that is not closed is registered. When the iterator comes to its
end, such a page has been passed over, and `Announced` leaves it out.

`HonestyPays` follows from properness of the exact score and from
`CreditDeltaNear` for both outcomes, weighted with the belief (`ExpectedNear`).

Only model-checked: liveness (`EveryEventRecorded`, `EveryMessageAcked`,
`QueueKeepsUp`, `DeliveriesEnd`, `NoneCirculates`), since TLAPS proves nothing
under fairness or about ENABLED here. Every invariant and every action property
of the passing runs is a theorem.

## 5. Not modelled

* Two processes that rank at once, and passes within one millisecond of each
  other or after a clock that stepped back: `Attention` has one ranker and a
  clock that only advances.
* The values of the aggregate and of its explanation in floats, and reports off
  the grid of hundredths: what the last bits of a float decide is out of reach.
* The number and length of the retries in `_retrying`, and how long SQLite waits
  for a lock: a worker that cannot write may give up at any time instead.
* A subject of JetStream that is busy for ever: publications are bounded, so the
  liveness of the worker says that no subject is left out of the round, not how
  one fares beside a trickle that never ends.
* Answers to two GETs of one page that overtake each other, and the back-off of
  a page's reconnect.
* How `build_report` picks defender and target. It takes scores from the rows of
  the last pass and votes from the forecasts of now, so after a forecast that no
  pass has followed it compares two populations; `AttackCost` prices one.
* Which forecasts a simulator seed generates, and signals: inputs without effect
  on any state. Epochs, provenance, reasons and timestamps other than
  `decided_at_ms` and deadlines: no modelled decision depends on them. Evidence
  clusters outside `Market` and `AttackCost`.
* Metrics, explanations and the other endpoints that only read.

## 6. Plan

The system's operations that change state are modelled, and every safety property
the runs check is proved. What is left, in this order:

1. The safety halves of the liveness properties, as invariants: what a delivery
   that has not ended is waiting for (`DeliveriesEnd`), and that the redeliveries
   a message has left bound how long it circulates (`NoneCirculates`).
2. Stronger forms of what is proved: `AttacksArePaidFor` for every prior, as a
   bound on the loss that depends on it.
3. Fewer assumptions: an attack on evidence that honest agents already cite, or
   that an earlier attack shares.

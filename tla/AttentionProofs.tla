--------------------------- MODULE AttentionProofs ---------------------------
(***************************************************************************)
(* What the ranking pass keeps, for any hypotheses, impacts, strategies,   *)
(* scores and budget; and, at the end, that the pages catch up with it,    *)
(* for any pages, sockets, passes and broadcasts.                          *)
(*                                                                         *)
(* The argument: the rank of a hypothesis counts those that precede it in  *)
(* a strict total order, so the decisions of one strategy are a bijection  *)
(* onto an initial segment (AllocationRanks).  What is committed is made   *)
(* of whole passes, each of which gave every strategy the same hypotheses, *)
(* among them all that are open now (OnlyWholePasses); for that the        *)
(* invariant follows the pass in progress turn by turn (PassInProgress).   *)
(***************************************************************************)
EXTENDS Attention, LiveQueue, FiniteSetTheorems, FunctionTheorems, TLAPS

-----------------------------------------------------------------------------
(***************************************************************************)
(* allocate_attention.                                                     *)
(***************************************************************************)
LEMMA PrecedesOrders ==
  ASSUME NEW hs \in SUBSET Hypotheses, NEW priority \in [hs -> Int]
  PROVE  /\ \A g \in hs : ~Precedes(priority, g, g)
         /\ \A g, h \in hs : g # h => Precedes(priority, g, h) \/ Precedes(priority, h, g)
         /\ \A f, g, h \in hs : Precedes(priority, f, g) /\ Precedes(priority, g, h)
                                  => Precedes(priority, f, h)
BY AttentionAssumption DEF Precedes

LEMMA RankMonotone ==
  ASSUME NEW hs \in SUBSET Hypotheses, NEW priority \in [hs -> Int]
  PROVE  /\ \A h \in hs : Rank(priority, h) \in 1..Cardinality(hs)
         /\ \A g, h \in hs : Precedes(priority, g, h) => Rank(priority, g) < Rank(priority, h)
<1> DEFINE Before(h) == {g \in hs : Precedes(priority, g, h)}
<1>1. IsFiniteSet(hs)
  BY AttentionAssumption, FS_Subset
<1>2. \A h \in hs : /\ Before(h) \subseteq hs
                    /\ IsFiniteSet(Before(h)) /\ Cardinality(Before(h)) \in Nat
  BY <1>1, FS_Subset, FS_CardinalityType
<1>3. \A h \in hs : Rank(priority, h) = 1 + Cardinality(Before(h))
  BY DEF Rank
<1>4. ASSUME NEW h \in hs PROVE Rank(priority, h) \in 1..Cardinality(hs)
  <2>1. h \notin Before(h)
    BY PrecedesOrders
  <2>2. Before(h) # hs
    BY <2>1
  <2> HIDE DEF Before
  <2>3. Cardinality(hs) \in Nat
    BY <1>1, FS_CardinalityType
  <2>4. Cardinality(Before(h)) < Cardinality(hs)
    BY <1>1, <1>2, <2>2, <2>3, FS_Subset
  <2> QED BY <1>2, <1>3, <2>3, <2>4
<1>5. ASSUME NEW g \in hs, NEW h \in hs, Precedes(priority, g, h)
      PROVE  Rank(priority, g) < Rank(priority, h)
  <2>1. Before(g) \subseteq Before(h)
    BY <1>5, PrecedesOrders
  <2>2. g \in Before(h) /\ g \notin Before(g)
    BY <1>5, PrecedesOrders
  <2> HIDE DEF Before
  <2>3. Cardinality(Before(g)) < Cardinality(Before(h))
    BY <1>2, <2>1, <2>2, FS_Subset
  <2> QED BY <1>2, <1>3, <2>3
<1> QED BY <1>4, <1>5

LEMMA RankOrders ==
  ASSUME NEW hs \in SUBSET Hypotheses, NEW priority \in [hs -> Int],
         NEW g \in hs, NEW h \in hs
  PROVE  /\ Rank(priority, g) = Rank(priority, h) => g = h
         /\ Rank(priority, g) < Rank(priority, h) => priority[g] >= priority[h]
<1>1. Rank(priority, g) \in Int /\ Rank(priority, h) \in Int
  BY RankMonotone
<1>2. g # h => \/ Rank(priority, g) < Rank(priority, h)
               \/ Rank(priority, h) < Rank(priority, g) /\ Precedes(priority, h, g)
  BY PrecedesOrders, RankMonotone
<1>3. Precedes(priority, g, h) => priority[g] >= priority[h]
  BY DEF Precedes
<1>4. g # h => Precedes(priority, g, h) \/ Rank(priority, h) < Rank(priority, g)
  BY PrecedesOrders, RankMonotone
<1> QED BY <1>1, <1>2, <1>3, <1>4

LEMMA RanksFill ==
  ASSUME NEW hs \in SUBSET Hypotheses, NEW priority \in [hs -> Int]
  PROVE  {Rank(priority, h) : h \in hs} = 1..Cardinality(hs)
<1> DEFINE n == Cardinality(hs)
           f == [h \in hs |-> Rank(priority, h)]
<1>1. IsFiniteSet(hs) /\ n \in Nat
  BY AttentionAssumption, FS_Subset, FS_CardinalityType
<1>2. IsFiniteSet(1..n) /\ Cardinality(1..n) = n
  BY <1>1, FS_Interval
<1>3. f \in [hs -> 1..n]
  BY RankMonotone
<1>4. \A g, h \in hs : f[g] = f[h] => g = h
  BY RankOrders
<1> HIDE DEF f
<1>5. f \in Injection(hs, 1..n)
  BY <1>3, <1>4 DEF Injection, IsInjective
<1>6. f \in Surjection(hs, 1..n)
  BY <1>2, <1>5, FS_Injection
<1>7. \A i \in 1..n : \E h \in hs : f[h] = i
  BY <1>6 DEF Surjection
<1>8. {f[h] : h \in hs} = 1..n
  BY <1>3, <1>7
<1> QED BY <1>8 DEF f

(* What allocate_attention is given and what it makes of one hypothesis.   *)
PriorityOf(s, heard) == [h \in DOMAIN heard |-> Score[s][heard[h]][h]]

DecisionOn(s, heard, at, h) ==
  [strategy |-> s, hypothesis |-> h, priority |-> PriorityOf(s, heard)[h],
   rank |-> Rank(PriorityOf(s, heard), h),
   routed |-> Routed(Rank(PriorityOf(s, heard), h)),
   at |-> at, world |-> heard[h]]

LEMMA AllocationMembers ==
  ASSUME NEW s, NEW heard, NEW at
  PROVE  Allocation(s, heard, at) = {DecisionOn(s, heard, at, h) : h \in DOMAIN heard}
BY DEF Allocation, DecisionOn, PriorityOf

LEMMA PrioritiesTyped ==
  ASSUME NEW s \in StrategyNames, NEW hs \in SUBSET Hypotheses,
         NEW heard \in [hs -> Worlds]
  PROVE  PriorityOf(s, heard) \in [hs -> Priorities] /\ PriorityOf(s, heard) \in [hs -> Int]
<1>1. \A w \in Worlds : Score[s][w] \in [Hypotheses -> Priorities]
  BY AttentionAssumption DEF StrategyNames
<1>2. \A h \in hs : Score[s][heard[h]][h] \in Priorities
  BY <1>1
<1>3. Priorities \subseteq Int
  BY AttentionAssumption
<1> QED BY <1>2, <1>3 DEF PriorityOf

(* The decisions D rank exactly the hypotheses hs.                         *)
IsRanking(D, hs) ==
  /\ \A h \in hs : \E d \in D : d.hypothesis = h
  /\ \A d \in D : /\ d.hypothesis \in hs /\ d.rank \in 1..Cardinality(hs)
                  /\ d.priority \in Int
                  /\ d.routed <=> d.rank <= Budget
  /\ \A d, e \in D : d.hypothesis = e.hypothesis => d = e
  /\ \A d, e \in D : d.rank = e.rank => d = e
  /\ \A d, e \in D : d.rank < e.rank => d.priority >= e.priority
  /\ {d.rank : d \in D} = 1..Cardinality(hs)

LEMMA AllocationRanks ==
  ASSUME NEW s \in StrategyNames, NEW hs \in SUBSET Hypotheses, NEW at,
         NEW heard \in [hs -> Worlds]
  PROVE  IsRanking(Allocation(s, heard, at), hs)
<1> DEFINE D == Allocation(s, heard, at)
           p == PriorityOf(s, heard)
<1>1. p \in [hs -> Int]
  BY PrioritiesTyped
<1>2. D = {DecisionOn(s, heard, at, h) : h \in hs}
  BY AllocationMembers
<1>3. \A h \in hs : LET d == DecisionOn(s, heard, at, h)
                    IN /\ d.hypothesis = h /\ d.rank = Rank(p, h) /\ d.priority = p[h]
                       /\ d.routed <=> Rank(p, h) <= Budget
  BY DEF DecisionOn, Routed
<1> HIDE DEF D, p
<1>4. \A d \in D : /\ d.hypothesis \in hs /\ d = DecisionOn(s, heard, at, d.hypothesis)
                   /\ d.rank = Rank(p, d.hypothesis) /\ d.priority = p[d.hypothesis]
                   /\ d.routed <=> d.rank <= Budget
  BY <1>2, <1>3
<1>5. \A h \in hs : \E d \in D : d.hypothesis = h
  BY <1>2, <1>3
<1>6. \A d, e \in D : d.hypothesis = e.hypothesis => d = e
  BY <1>4
<1>7. \A g, h \in hs : /\ Rank(p, g) = Rank(p, h) => g = h
                       /\ Rank(p, g) < Rank(p, h) => p[g] >= p[h]
  BY <1>1, RankOrders
<1>8. \A d, e \in D : /\ d.rank = e.rank => d = e
                      /\ d.rank < e.rank => d.priority >= e.priority
  BY <1>4, <1>6, <1>7
<1>9. {Rank(p, h) : h \in hs} = 1..Cardinality(hs)
  BY <1>1, RanksFill
<1>10. {d.rank : d \in D} = {Rank(p, h) : h \in hs}
  BY <1>4, <1>5
<1>11. \A d \in D : d.rank \in 1..Cardinality(hs) /\ d.priority \in Int
  BY <1>1, <1>4, RankMonotone
<1> QED BY <1>4, <1>5, <1>6, <1>8, <1>9, <1>10, <1>11 DEF IsRanking, D

LEMMA AllocationTyped ==
  ASSUME NEW s \in StrategyNames, NEW hs \in SUBSET Hypotheses, NEW at \in 0..MaxNow,
         NEW heard \in [hs -> Worlds], NEW d \in Allocation(s, heard, at)
  PROVE  /\ d \in Decisions
         /\ d.strategy = s /\ d.at = at
         /\ d.hypothesis \in hs /\ d.world = heard[d.hypothesis]
<1> DEFINE p == PriorityOf(s, heard)
<1>1. p \in [hs -> Priorities] /\ p \in [hs -> Int]
  BY PrioritiesTyped
<1>2. Cardinality(hs) <= Cardinality(Hypotheses) /\ Cardinality(hs) \in Nat
      /\ Cardinality(Hypotheses) \in Nat
  BY AttentionAssumption, FS_Subset, FS_CardinalityType
<1>3. \A h \in hs : Rank(p, h) \in 1..Cardinality(Hypotheses)
  BY <1>1, <1>2, RankMonotone
<1>4. \A h \in hs : Routed(Rank(p, h)) \in BOOLEAN
  BY DEF Routed
<1>5. PICK h \in hs : d = DecisionOn(s, heard, at, h)
  BY AllocationMembers
<1> QED BY <1>1, <1>3, <1>4, <1>5 DEF DecisionOn, Decisions

(* Sets of decisions are counted by their ranks.                           *)
LEMMA CountByRank ==
  ASSUME NEW E, NEW n \in Nat,
         \A d \in E : d.rank \in 1..n,
         \A d, e \in E : d.rank = e.rank => d = e
  PROVE  /\ Cardinality(E) <= n
         /\ {d.rank : d \in E} = 1..n => Cardinality(E) = n
<1> DEFINE f == [d \in E |-> d.rank]
<1>1. IsFiniteSet(1..n) /\ Cardinality(1..n) = n
  BY FS_Interval
<1>2. f \in [E -> 1..n] /\ \A d, e \in E : f[d] = f[e] => d = e
  OBVIOUS
<1>3. {d.rank : d \in E} = 1..n => \A i \in 1..n : \E d \in E : f[d] = i
  OBVIOUS
<1> HIDE DEF f
<1>4. f \in Injection(E, 1..n)
  BY <1>2 DEF Injection, IsInjective
<1>5. {d.rank : d \in E} = 1..n => f \in Surjection(E, 1..n)
  BY <1>2, <1>3 DEF Surjection
<1> QED BY <1>1, <1>4, <1>5, FS_Injection

LEMMA RankingCounts ==
  ASSUME NEW hs \in SUBSET Hypotheses, NEW D, IsRanking(D, hs)
  PROVE  /\ {d.rank : d \in D} = 1..Cardinality(D)
         /\ Cardinality({d.hypothesis : d \in D}) = Cardinality(D)
         /\ \A E \in SUBSET D : (\A d \in E : d.routed) => Cardinality(E) <= Budget
         /\ \A e \in D : ~e.routed => Cardinality({d \in D : d.routed}) = Budget
<1>1. Budget \in Nat /\ Cardinality(hs) \in Nat
  BY AttentionAssumption, FS_Subset, FS_CardinalityType
<1>2. Cardinality(D) = Cardinality(hs)
  BY <1>1, CountByRank DEF IsRanking
<1>3. {d.hypothesis : d \in D} = hs
  BY DEF IsRanking
<1>4. ASSUME NEW E \in SUBSET D, \A d \in E : d.routed
      PROVE  Cardinality(E) <= Budget
  <2>1. \A d \in E : d.rank \in 1..Budget
    BY <1>1, <1>4 DEF IsRanking
  <2>2. \A d, e \in E : d.rank = e.rank => d = e
    BY DEF IsRanking
  <2> QED BY <1>1, <2>1, <2>2, CountByRank
<1>5. ASSUME NEW e \in D, ~e.routed
      PROVE  Cardinality({d \in D : d.routed}) = Budget
  <2> DEFINE E == {d \in D : d.routed}
  <2>1. \A d \in D : d.routed <=> d.rank <= Budget
    BY DEF IsRanking
  <2>2. Budget < Cardinality(hs)
    BY <1>1, <1>5, <2>1 DEF IsRanking
  <2>3. \A i \in 1..Budget : \E d \in D : d.rank = i
    <3>1. 1..Budget \subseteq {d.rank : d \in D}
      BY <1>1, <2>2 DEF IsRanking
    <3> QED BY <3>1
  <2>4. \A d \in E : d.rank \in 1..Budget
    BY <1>1, <2>1 DEF IsRanking
  <2>5. \A i \in 1..Budget : \E d \in E : d.rank = i
    BY <1>1, <2>1, <2>3
  <2>6. {d.rank : d \in E} = 1..Budget
    BY <2>4, <2>5
  <2>7. \A d, f \in E : d.rank = f.rank => d = f
    BY DEF IsRanking
  <2> QED BY <1>1, <2>4, <2>6, <2>7, CountByRank
<1> QED BY <1>2, <1>3, <1>4, <1>5 DEF IsRanking

-----------------------------------------------------------------------------
(***************************************************************************)
(* The inductive invariant.                                                *)
(***************************************************************************)
Rows(rows, s, at) == {d \in rows : d.strategy = s /\ d.at = at}

IsAllocation(D, s, at, hs) ==
  \E heard \in [hs -> Worlds] : D = Allocation(s, heard, at)

(* Every pass that has left a row has left all of its rows, for every      *)
(* strategy on the same hypotheses, among them all that are open now.      *)
WholePass(at) ==
  \E hs \in SUBSET Hypotheses :
    /\ open \subseteq hs
    /\ \A s \in StrategyNames : IsAllocation(Rows(committed, s, at), s, at, hs)

OnlyWholePasses == \A d \in committed : WholePass(d.at)

(* How far the pass in progress has come.  The rows it has inserted and    *)
(* those it has to insert are together what allocate_attention has made.   *)
TurnInProgress ==
  LET s == Strategies[pass.turn]
  IN IF pass.todo = {}
       THEN Rows(written, s, pass.at) = {}
       ELSE /\ pass.heard \in [pass.hypotheses -> Worlds]
            /\ Rows(written, s, pass.at) \cup pass.todo = Allocation(s, pass.heard, pass.at)
            /\ Rows(written, s, pass.at) \cap pass.todo = {}

PassInProgress ==
  /\ pass.at <= now /\ \A d \in committed : d.at < pass.at
  /\ open \subseteq pass.hypotheses /\ pass.hypotheses # {}
  /\ committed \subseteq written
  /\ \A d \in written : d \in committed \/ d.at = pass.at
  /\ \A i \in DOMAIN Strategies :
       LET rows == Rows(written, Strategies[i], pass.at)
       IN /\ i < pass.turn => IsAllocation(rows, Strategies[i], pass.at, pass.hypotheses)
          /\ i > pass.turn => rows = {}
  /\ IF pass.turn \in DOMAIN Strategies THEN TurnInProgress ELSE pass.todo = {}

(* From its first row on a pass holds the write lock and hears one world.  *)
HearsOneWorld ==
  /\ BaselinesHearTheSame
  /\ pass # NoPass =>
       /\ \A d \in (written \ committed) \cup pass.todo :
            d.strategy \in Baselines => d.world = world
       /\ pass.turn > 1 => \A h \in DOMAIN pass.heard : pass.heard[h] = world

IInv ==
  /\ TypeOK
  /\ OnlyWholePasses
  /\ IF pass = NoPass THEN written = committed ELSE PassInProgress
  /\ HearsOneWorld

(***************************************************************************)
(* What the invariant says about the rows.                                 *)
(***************************************************************************)
LEMMA PassesRank ==
  ASSUME IInv, NEW d \in committed
  PROVE  \E hs \in SUBSET Hypotheses :
           /\ open \subseteq hs
           /\ \A s \in StrategyNames : IsRanking(Rows(committed, s, d.at), hs)
<1>1. PICK hs \in SUBSET Hypotheses :
        /\ open \subseteq hs
        /\ \A s \in StrategyNames : IsAllocation(Rows(committed, s, d.at), s, d.at, hs)
  BY DEF IInv, OnlyWholePasses, WholePass
<1>2. \A s \in StrategyNames : IsRanking(Rows(committed, s, d.at), hs)
  BY <1>1, AllocationRanks DEF IsAllocation
<1> QED BY <1>1, <1>2

LEMMA PassOfRows ==
  ASSUME TypeOK, NEW d \in committed
  PROVE  PassOf(d) = Rows(committed, d.strategy, d.at) /\ d.strategy \in StrategyNames
BY DEF PassOf, Rows, TypeOK, Decisions

LEMMA RanksPermute == IInv => RanksAreAPermutation
<1> SUFFICES ASSUME IInv, NEW d \in committed
             PROVE  /\ {e.rank : e \in PassOf(d)} = 1..Cardinality(PassOf(d))
                    /\ Cardinality({e.hypothesis : e \in PassOf(d)}) = Cardinality(PassOf(d))
  BY DEF RanksAreAPermutation
<1>1. PICK hs \in SUBSET Hypotheses : IsRanking(PassOf(d), hs)
  BY PassesRank, PassOfRows DEF IInv
<1> QED BY <1>1, RankingCounts

LEMMA NoneOutranked == IInv => NothingOutranked
<1> SUFFICES ASSUME IInv, NEW d \in committed, NEW e \in PassOf(d), d.routed, ~e.routed
             PROVE  /\ d.priority >= e.priority
                    /\ Cardinality({f \in PassOf(d) : f.routed}) = Budget
  BY DEF NothingOutranked
<1>1. PICK hs \in SUBSET Hypotheses : IsRanking(PassOf(d), hs)
  BY PassesRank, PassOfRows DEF IInv
<1>2. d \in PassOf(d)
  BY DEF PassOf
<1>3. d.rank \in Int /\ e.rank \in Int /\ d.rank <= Budget /\ ~(e.rank <= Budget)
  BY <1>1, <1>2 DEF IsRanking
<1>4. d.rank < e.rank
  BY <1>3, AttentionAssumption
<1> QED BY <1>1, <1>2, <1>4, RankingCounts DEF IsRanking

(* A pass has decided under every strategy on all it has decided on under  *)
(* one, and on all that are open.                                          *)
LEMMA PassesDecide ==
  ASSUME IInv, NEW d \in committed, NEW s \in StrategyNames,
         NEW h \in open \cup {d.hypothesis}
  PROVE  \E e \in committed : e.strategy = s /\ e.at = d.at /\ e.hypothesis = h
<1>1. PICK hs \in SUBSET Hypotheses :
        open \subseteq hs /\ \A t \in StrategyNames : IsRanking(Rows(committed, t, d.at), hs)
  BY PassesRank
<1>2. d \in Rows(committed, d.strategy, d.at) /\ d.strategy \in StrategyNames
  BY DEF Rows, IInv, TypeOK, Decisions
<1>3. h \in hs
  BY <1>1, <1>2 DEF IsRanking
<1>4. \E e \in Rows(committed, s, d.at) : e.hypothesis = h
  BY <1>1, <1>3 DEF IsRanking
<1> QED BY <1>4 DEF Rows

(* The latest decisions of one strategy on the open hypotheses are of one  *)
(* pass: any pass has decided on all of them.                              *)
LEMMA LatestOfOpen ==
  ASSUME IInv, NEW s \in StrategyNames,
         NEW d \in LatestDecisions(committed, s), d.hypothesis \in open,
         NEW e \in LatestDecisions(committed, s), e.hypothesis \in open
  PROVE  d.at = e.at
<1>1. \A c \in committed : \A h \in open : \E f \in committed :
        f.strategy = s /\ f.at = c.at /\ f.hypothesis = h
  BY PassesDecide
<1>2. d \in committed /\ e \in committed /\ d.at \in Int /\ e.at \in Int
  BY DEF LatestDecisions, IInv, TypeOK, Decisions
<1>3. d.at <= e.at
  <2>1. PICK f \in committed : f.strategy = s /\ f.at = d.at /\ f.hypothesis = e.hypothesis
    BY <1>1, <1>2
  <2> QED BY <2>1 DEF LatestDecisions
<1>4. e.at <= d.at
  <2>1. PICK f \in committed : f.strategy = s /\ f.at = e.at /\ f.hypothesis = d.hypothesis
    BY <1>1, <1>2
  <2> QED BY <2>1 DEF LatestDecisions
<1> QED BY <1>2, <1>3, <1>4

LEMMA OpenFitBudget == IInv => OpenWithinBudget
<1> SUFFICES ASSUME IInv PROVE OpenWithinBudget
  OBVIOUS
<1> DEFINE Q == {d \in Queue(committed) : d.hypothesis \in open}
<1>1. Strategies[1] \in StrategyNames
  BY AttentionAssumption DEF StrategyNames
<1>2. CASE Q = {}
  <2>1. Cardinality({}) <= Budget
    BY AttentionAssumption, FS_EmptySet
  <2> QED BY <1>2, <2>1 DEF OpenWithinBudget
<1>3. CASE Q # {}
  <2>1. PICK d \in Q : TRUE
    BY <1>3
  <2>2. d \in committed
    BY DEF Queue, LatestDecisions
  <2>3. PICK hs \in SUBSET Hypotheses : IsRanking(Rows(committed, Strategies[1], d.at), hs)
    BY <1>1, <2>2, PassesRank
  <2>4. \A e \in Q : e \in Rows(committed, Strategies[1], d.at) /\ e.routed
    BY <1>1, LatestOfOpen DEF Queue, LatestDecisions, Rows
  <2> HIDE DEF Q
  <2>5. Cardinality(Q) <= Budget
    BY <2>3, <2>4, RankingCounts
  <2> QED BY <2>5 DEF OpenWithinBudget, Q
<1> QED BY <1>2, <1>3

LEMMA LikeWithLike == IInv => ComparesLikeWithLike
<1> SUFFICES ASSUME IInv, NEW s \in StrategyNames, NEW t \in StrategyNames
             PROVE  Comparison(committed)[s] \subseteq Comparison(committed)[t]
  BY DEF ComparesLikeWithLike
<1>1. ASSUME NEW q \in StrategyNames, NEW c \in committed
      PROVE  \E f \in committed :
               f.strategy = q /\ f.at = c.at /\ f.hypothesis = c.hypothesis
  <2>1. c.hypothesis \in open \cup {c.hypothesis}
    OBVIOUS
  <2> QED BY <2>1, PassesDecide
<1>2. ASSUME NEW d \in LatestDecisions(committed, s)
      PROVE  \E e \in LatestDecisions(committed, t) :
               e.hypothesis = d.hypothesis /\ e.at = d.at
  <2>1. d \in committed /\ d.strategy = s
    BY DEF LatestDecisions
  <2>2. PICK e \in committed :
          e.strategy = t /\ e.at = d.at /\ e.hypothesis = d.hypothesis
    BY <1>1, <2>1
  <2>3. ASSUME NEW f \in committed, f.strategy = t, f.hypothesis = e.hypothesis
        PROVE  f.at <= e.at
    <3>1. PICK g \in committed : g.strategy = s /\ g.at = f.at /\ g.hypothesis = f.hypothesis
      BY <1>1, <2>3
    <3> QED BY <2>2, <2>3, <3>1 DEF LatestDecisions
  <2> QED BY <2>2, <2>3 DEF LatestDecisions
<1> QED BY <1>2 DEF Comparison

LEMMA Steady == IInv => NoFlicker
<1> SUFFICES ASSUME IInv, pass.turn = 1, pass.todo # {}
             PROVE  NoFlicker
  BY DEF NoFlicker
<1> DEFINE s == Strategies[1]
           A == Allocation(s, pass.heard, pass.at)
           before == RoutedBy(Queue(committed))
           after == RoutedBy((written \ committed) \cup pass.todo)
           seen == RoutedBy(Queue(written))
<1>0. pass # NoPass /\ 1 \in DOMAIN Strategies /\ s \in StrategyNames
  BY AttentionAssumption DEF NoPass, StrategyNames
<1>1. /\ PassInProgress /\ TurnInProgress /\ pass \in Passes
  BY <1>0 DEF IInv, PassInProgress, TypeOK
<1>2. /\ pass.heard \in [pass.hypotheses -> Worlds]
      /\ Rows(written, s, pass.at) \cup pass.todo = A
  BY <1>1 DEF TurnInProgress
<1>3. pass.hypotheses \subseteq Hypotheses /\ pass.at \in 0..MaxNow
  BY <1>1 DEF Passes
<1>4. IsRanking(A, pass.hypotheses)
  BY <1>0, <1>2, <1>3, AllocationRanks
<1>5. \A d \in written \ committed : d.strategy = s /\ d.at = pass.at
  <2>1. \A i \in DOMAIN Strategies : i > 1 => Rows(written, Strategies[i], pass.at) = {}
    BY <1>1 DEF PassInProgress
  <2>2. \A d \in written \ committed : d.at = pass.at /\ d \in Decisions
    BY <1>1 DEF PassInProgress, IInv, TypeOK
  <2>3. ASSUME NEW d \in written \ committed PROVE d.strategy = s
    <3>1. PICK i \in DOMAIN Strategies : d.strategy = Strategies[i]
      BY <2>2 DEF Decisions, StrategyNames
    <3>2. ~(i > 1)
      BY <2>1, <2>2, <3>1 DEF Rows
    <3>3. i = 1
      BY <3>2, AttentionAssumption
    <3> QED BY <3>1, <3>3
  <2> QED BY <2>2, <2>3
<1>6. \A d \in committed : d.at < pass.at /\ d.at \in Int
  BY <1>1 DEF PassInProgress, IInv, TypeOK, Decisions
<1>7. Rows(written, s, pass.at) = written \ committed /\ committed \subseteq written
  BY <1>1, <1>5, <1>6, <1>3 DEF Rows, PassInProgress
<1>8. (written \ committed) \cup pass.todo = A
  BY <1>2, <1>7
<1> DEFINE In(h) == \E d \in written \ committed : d.hypothesis = h
<1>9. ASSUME NEW d \in written \ committed
      PROVE  /\ d \in LatestDecisions(written, s)
             /\ \A e \in LatestDecisions(written, s) : e.hypothesis = d.hypothesis => e = d
  <2>1. \A e \in written : e.at <= d.at
    BY <1>3, <1>5, <1>6, <1>7
  <2>2. d \in LatestDecisions(written, s)
    BY <1>5, <2>1 DEF LatestDecisions
  <2>3. ASSUME NEW e \in LatestDecisions(written, s), e.hypothesis = d.hypothesis
        PROVE  e = d
    <3>1. e \in written /\ d.at <= e.at
      BY <1>5, <2>3 DEF LatestDecisions
    <3>2. e \notin committed
      BY <1>3, <1>5, <1>6, <3>1
    <3>3. e \in A /\ d \in A
      BY <1>8, <3>1, <3>2
    <3> QED BY <1>4, <2>3, <3>3 DEF IsRanking
  <2> QED BY <2>2, <2>3
<1>10. ASSUME NEW d \in committed, ~In(d.hypothesis)
       PROVE  d \in Queue(written) <=> d \in Queue(committed)
  BY <1>7, <1>10 DEF Queue, LatestDecisions
<1>11. \A d \in Queue(written) : d \in written /\ d.routed /\ d \in LatestDecisions(written, s)
  BY DEF Queue, LatestDecisions
<1>12. seen \subseteq before \cup after
  <2> SUFFICES ASSUME NEW d \in Queue(written)
               PROVE  d.hypothesis \in before \cup after
    BY DEF RoutedBy, Queue
  <2>1. CASE d \in written \ committed
    BY <1>11, <2>1 DEF RoutedBy
  <2>2. CASE d \in committed
    <3>1. ~In(d.hypothesis)
      BY <1>9, <1>11, <2>2
    <3> QED BY <1>10, <1>11, <2>2, <3>1 DEF RoutedBy
  <2> QED BY <1>11, <2>1, <2>2
<1>13. before \cap after \subseteq seen
  <2> SUFFICES ASSUME NEW d \in Queue(committed), NEW e \in A, e.routed,
                      d.hypothesis = e.hypothesis
               PROVE  d.hypothesis \in seen
    BY <1>8 DEF RoutedBy, Queue
  <2>1. d \in committed /\ d.routed
    BY DEF Queue, LatestDecisions
  <2>2. CASE In(d.hypothesis)
    <3>1. PICK f \in written \ committed : f.hypothesis = d.hypothesis
      BY <2>2
    <3>2. f = e
      BY <1>4, <1>8, <3>1 DEF IsRanking
    <3>3. f \in Queue(written) /\ f.routed
      BY <1>9, <3>2 DEF Queue
    <3> QED BY <3>1, <3>3 DEF RoutedBy
  <2>3. CASE ~In(d.hypothesis)
    BY <1>10, <2>1, <2>3 DEF RoutedBy
  <2> QED BY <2>2, <2>3
<1> QED BY <1>12, <1>13 DEF NoFlicker

-----------------------------------------------------------------------------
(***************************************************************************)
(* Every step keeps the invariant.                                         *)
(***************************************************************************)
LEMMA PassTyped ==
  /\ NoPass.turn = 0
  /\ Len(Strategies) \in Nat /\ Len(Strategies) > 0
  /\ DOMAIN Strategies = 1..Len(Strategies)
  /\ TypeOK /\ pass # NoPass => pass \in Passes /\ pass.turn \in 1..Len(Strategies) + 1
BY AttentionAssumption DEF NoPass, TypeOK, Passes

(* From its second turn on, a pass has written rows.                       *)
LEMMA LaterTurnsHoldTheLock ==
  ASSUME IInv, pass # NoPass, pass.turn > 1
  PROVE  ~LockFree
<1>1. PassInProgress /\ pass \in Passes /\ 1 \in DOMAIN Strategies
  BY PassTyped DEF IInv
<1>2. IsAllocation(Rows(written, Strategies[1], pass.at), Strategies[1], pass.at, pass.hypotheses)
  BY <1>1 DEF PassInProgress
<1>3. PICK heard \in [pass.hypotheses -> Worlds] :
        Rows(written, Strategies[1], pass.at) = Allocation(Strategies[1], heard, pass.at)
  BY <1>2 DEF IsAllocation
<1>4. PICK h \in pass.hypotheses : TRUE
  BY <1>1 DEF PassInProgress
<1>5. DecisionOn(Strategies[1], heard, pass.at, h) \in Rows(written, Strategies[1], pass.at)
  BY <1>3, AllocationMembers
<1>6. \E d \in written : d.at = pass.at
  BY <1>5 DEF Rows
<1>7. pass.at \in Int
  BY <1>1 DEF Passes
<1> QED BY <1>1, <1>6, <1>7 DEF PassInProgress, LockFree

(* The decisions still to be inserted are of the strategy whose turn it is.*)
LEMMA TodoOfTurn ==
  ASSUME IInv, pass # NoPass, NEW d \in pass.todo
  PROVE  /\ pass.turn \in DOMAIN Strategies /\ d \in Decisions
         /\ d.strategy = Strategies[pass.turn] /\ d.at = pass.at
         /\ pass.heard \in [pass.hypotheses -> Worlds] /\ d \notin written
<1>1. PassInProgress /\ pass \in Passes
  BY PassTyped DEF IInv
<1>2. pass.turn \in DOMAIN Strategies /\ TurnInProgress
  BY <1>1 DEF PassInProgress
<1>3. /\ pass.heard \in [pass.hypotheses -> Worlds]
      /\ d \in Allocation(Strategies[pass.turn], pass.heard, pass.at)
      /\ d \notin Rows(written, Strategies[pass.turn], pass.at)
  BY <1>2 DEF TurnInProgress
<1>4. /\ pass.hypotheses \in SUBSET Hypotheses /\ pass.at \in 0..MaxNow
      /\ Strategies[pass.turn] \in StrategyNames
  BY <1>1, <1>2 DEF Passes, StrategyNames
<1>5. d \in Decisions /\ d.strategy = Strategies[pass.turn] /\ d.at = pass.at
  BY <1>3, <1>4, AllocationTyped
<1> QED BY <1>2, <1>3, <1>5 DEF Rows

LEMMA BaselinesCome ==
  ASSUME NEW i \in DOMAIN Strategies
  PROVE  Strategies[i] \in Baselines <=> i # 1
BY AttentionAssumption, PassTyped DEF Baselines, StrategyNames

LEMMA InitKeeps == Init => IInv
BY AttentionAssumption DEF Init, IInv, TypeOK, OnlyWholePasses, HearsOneWorld,
   BaselinesHearTheSame

LEMMA ResolveKeeps ==
  ASSUME IInv, NEW h \in Hypotheses, Resolve(h)
  PROVE  IInv'
<1>1. TypeOK'
  BY DEF IInv, TypeOK, Resolve
<1>2. OnlyWholePasses'
  BY DEF IInv, OnlyWholePasses, WholePass, Resolve
<1>3. (IF pass = NoPass THEN written = committed ELSE PassInProgress)'
  BY DEF IInv, PassInProgress, TurnInProgress, Resolve
<1>4. HearsOneWorld'
  BY DEF IInv, HearsOneWorld, BaselinesHearTheSame, Resolve
<1> QED BY <1>1, <1>2, <1>3, <1>4 DEF IInv

LEMMA ForecastKeeps ==
  ASSUME IInv, Forecast
  PROVE  IInv'
<1>1. TypeOK'
  BY DEF IInv, TypeOK, Forecast
<1>2. OnlyWholePasses'
  BY DEF IInv, OnlyWholePasses, WholePass, Forecast
<1>3. (IF pass = NoPass THEN written = committed ELSE PassInProgress)'
  BY DEF IInv, PassInProgress, TurnInProgress, Forecast
<1>4. ASSUME pass # NoPass
      PROVE  /\ ~(pass.turn > 1) /\ written \ committed = {}
             /\ \A d \in pass.todo : d.strategy \notin Baselines
  <2>1. ~(pass.turn > 1) /\ written \ committed = {}
    BY <1>4, LaterTurnsHoldTheLock DEF Forecast, LockFree
  <2>2. pass.turn = 1
    BY <1>4, <2>1, PassTyped DEF IInv
  <2> QED BY <1>4, <2>1, <2>2, TodoOfTurn, BaselinesCome
<1>5. HearsOneWorld'
  BY <1>4 DEF IInv, HearsOneWorld, BaselinesHearTheSame, Forecast
<1> QED BY <1>1, <1>2, <1>3, <1>5 DEF IInv

LEMMA TickKeeps ==
  ASSUME IInv, Tick
  PROVE  IInv'
<1>1. TypeOK' /\ now <= now'
  BY AttentionAssumption DEF IInv, TypeOK, Tick
<1>2. OnlyWholePasses'
  BY DEF IInv, OnlyWholePasses, WholePass, Tick
<1>3. (IF pass = NoPass THEN written = committed ELSE PassInProgress)'
  <2>1. pass # NoPass => pass.at \in Int /\ now \in Int
    BY PassTyped DEF IInv, TypeOK, Passes
  <2> QED BY <1>1, <2>1 DEF IInv, PassInProgress, TurnInProgress, Tick
<1>4. HearsOneWorld'
  BY DEF IInv, HearsOneWorld, BaselinesHearTheSame, Tick
<1> QED BY <1>1, <1>2, <1>3, <1>4 DEF IInv

LEMMA BreakOffKeeps ==
  ASSUME IInv, BreakOff
  PROVE  IInv'
<1>1. TypeOK'
  BY DEF IInv, TypeOK, BreakOff
<1>2. OnlyWholePasses'
  BY DEF IInv, OnlyWholePasses, WholePass, BreakOff
<1>3. HearsOneWorld'
  BY DEF IInv, HearsOneWorld, BaselinesHearTheSame, BreakOff
<1> QED BY <1>1, <1>2, <1>3 DEF IInv, BreakOff

LEMMA BeginPassKeeps ==
  ASSUME IInv, BeginPass
  PROVE  IInv'
<1>1. <<>> \in [{} -> Worlds]
  OBVIOUS
<1>2. pass' \in Passes /\ pass' # NoPass
  <2>1. 1 \in 1..Len(Strategies) + 1 /\ now \in 0..MaxNow /\ open \subseteq Hypotheses
    BY PassTyped DEF IInv, TypeOK
  <2>2. <<>> \in UNION {[hs -> Worlds] : hs \in SUBSET Hypotheses}
    BY <1>1
  <2>3. {} \in SUBSET Decisions
    OBVIOUS
  <2>4. pass'.turn # NoPass.turn
    BY DEF BeginPass, NoPass
  <2> QED BY <2>1, <2>2, <2>3, <2>4 DEF BeginPass, Passes
<1>3. TypeOK'
  BY <1>2 DEF IInv, TypeOK, BeginPass
<1>4. OnlyWholePasses'
  BY DEF IInv, OnlyWholePasses, WholePass, BeginPass
<1>5. /\ pass'.at = now /\ pass'.hypotheses = open /\ pass'.turn = 1 /\ pass'.todo = {}
      /\ pass'.heard = <<>>
      /\ written' = committed /\ committed' = committed /\ open' = open /\ now' = now
  BY DEF BeginPass, IInv
<1>6. \A d \in committed : d.at < now
  BY DEF BeginPass
<1>7. now \in Int
  BY DEF IInv, TypeOK
<1>8. \A s : Rows(committed, s, now) = {}
  BY <1>6, <1>7 DEF Rows
<1>9. PassInProgress'
  <2>1. open # {}
    BY DEF BeginPass
  <2>2. \A i \in DOMAIN Strategies : ~(i < 1)
    BY PassTyped
  <2> QED BY <1>5, <1>6, <1>7, <1>8, <2>1, <2>2, PassTyped DEF PassInProgress, TurnInProgress
<1>10. HearsOneWorld'
  BY <1>5 DEF IInv, HearsOneWorld, BaselinesHearTheSame, BeginPass
<1> QED BY <1>2, <1>3, <1>4, <1>9, <1>10 DEF IInv

LEMMA ReadForecastsKeeps ==
  ASSUME IInv, NEW h \in Hypotheses, ReadForecasts(h)
  PROVE  IInv'
<1> DEFINE heard == [g \in DOMAIN pass.heard \cup {h} |-> IF g = h THEN world ELSE pass.heard[g]]
           todo == IF DOMAIN heard = pass.hypotheses
                     THEN Allocation(Strategies[pass.turn], heard, pass.at) ELSE {}
<1>1. /\ pass.turn \in DOMAIN Strategies /\ pass.todo = {}
      /\ pass' = [pass EXCEPT !.heard = heard, !.todo = todo]
      /\ UNCHANGED <<open, world, committed, written, now>>
  BY DEF ReadForecasts
<1>2. pass # NoPass /\ pass \in Passes /\ PassInProgress
  BY <1>1, PassTyped DEF IInv
<1>3. heard \in [DOMAIN pass.heard \cup {h} -> Worlds] /\ DOMAIN pass.heard \subseteq Hypotheses
  BY <1>2 DEF Passes, IInv, TypeOK
<1> HIDE DEF heard
<1>4. DOMAIN heard \subseteq Hypotheses /\ heard \in [DOMAIN heard -> Worlds]
  BY <1>3
<1>5. /\ Strategies[pass.turn] \in StrategyNames /\ pass.at \in 0..MaxNow
      /\ pass.hypotheses \in SUBSET Hypotheses
  BY <1>1, <1>2 DEF Passes, StrategyNames
<1>6. ASSUME NEW d \in todo
      PROVE  /\ d \in Decisions /\ d.strategy = Strategies[pass.turn]
             /\ d.hypothesis \in DOMAIN heard /\ d.world = heard[d.hypothesis]
  <2>1. /\ d \in Allocation(Strategies[pass.turn], heard, pass.at)
        /\ heard \in [pass.hypotheses -> Worlds] /\ DOMAIN heard = pass.hypotheses
    BY <1>4
  <2> QED BY <1>5, <2>1, AllocationTyped
<1> HIDE DEF todo
<1>7. /\ pass' \in Passes /\ pass'.heard = heard /\ pass'.todo = todo
      /\ pass'.turn = pass.turn /\ pass'.at = pass.at /\ pass'.hypotheses = pass.hypotheses
  <2>1. heard \in UNION {[hs -> Worlds] : hs \in SUBSET Hypotheses}
    BY <1>4
  <2> QED BY <1>1, <1>2, <1>6, <2>1 DEF Passes
<1>8. TypeOK' /\ pass' # NoPass
  <2>1. pass'.turn # 0
    BY <1>1, <1>7, PassTyped
  <2> QED BY <1>1, <1>7, <2>1 DEF IInv, TypeOK, NoPass
<1>9. OnlyWholePasses'
  BY <1>1 DEF IInv, OnlyWholePasses, WholePass
<1>10. TurnInProgress'
  <2>1. Rows(written, Strategies[pass.turn], pass.at) = {}
    BY <1>1, <1>2 DEF PassInProgress, TurnInProgress
  <2>2. todo # {} => /\ heard \in [pass.hypotheses -> Worlds]
                     /\ todo = Allocation(Strategies[pass.turn], heard, pass.at)
    BY <1>4 DEF todo
  <2> QED BY <1>1, <1>7, <2>1, <2>2 DEF TurnInProgress
<1>11. PassInProgress'
  BY <1>1, <1>2, <1>7, <1>10 DEF PassInProgress
<1>12. HearsOneWorld'
  <2>1. pass.turn > 1 => \A g \in DOMAIN heard : heard[g] = world
    BY <1>2, <1>3 DEF IInv, HearsOneWorld, heard
  <2>2. \A d \in todo : d.strategy \in Baselines => d.world = world
    <3>1. Strategies[pass.turn] \in Baselines => pass.turn > 1
      BY <1>1, BaselinesCome, PassTyped
    <3> QED BY <1>6, <2>1, <3>1
  <2>3. /\ BaselinesHearTheSame'
        /\ \A d \in written \ committed : d.strategy \in Baselines => d.world = world
    BY <1>1, <1>2 DEF IInv, HearsOneWorld, BaselinesHearTheSame
  <2> QED BY <1>1, <1>7, <2>1, <2>2, <2>3 DEF HearsOneWorld
<1> QED BY <1>8, <1>9, <1>11, <1>12 DEF IInv

LEMMA InsertDecisionKeeps ==
  ASSUME IInv, InsertDecision
  PROVE  IInv'
<1>1. pass # NoPass /\ pass \in Passes /\ PassInProgress
  BY PassTyped DEF InsertDecision, IInv
<1>2. PICK d \in pass.todo :
        /\ written' = written \cup {d}
        /\ pass' = IF pass.todo # {d}
                     THEN [pass EXCEPT !.todo = @ \ {d}]
                     ELSE [pass EXCEPT !.todo = {}, !.turn = @ + 1, !.heard = <<>>]
        /\ UNCHANGED <<open, world, committed, now>>
  BY DEF InsertDecision
<1> DEFINE s == Strategies[pass.turn]
<1>3. /\ pass.turn \in DOMAIN Strategies /\ d \in Decisions
      /\ d.strategy = s /\ d.at = pass.at /\ d \notin written
      /\ pass.heard \in [pass.hypotheses -> Worlds]
  BY <1>1, TodoOfTurn
<1>4. /\ pass.turn \in Int /\ pass.turn + 1 \in 1..Len(Strategies) + 1
      /\ pass.turn >= 1
  BY <1>3, PassTyped
<1>5. <<>> \in UNION {[hs -> Worlds] : hs \in SUBSET Hypotheses}
  <2>1. <<>> \in [{} -> Worlds]
    OBVIOUS
  <2> QED BY <2>1
<1>6. /\ pass' \in Passes /\ pass'.at = pass.at /\ pass'.hypotheses = pass.hypotheses
      /\ pass'.todo = pass.todo \ {d} /\ pass'.turn >= 1
      /\ pass.todo # {d} => pass'.turn = pass.turn /\ pass'.heard = pass.heard
      /\ pass.todo = {d} => pass'.turn = pass.turn + 1 /\ pass'.heard = <<>>
  <2>1. CASE pass.todo # {d}
    BY <1>1, <1>2, <1>4, <2>1 DEF Passes
  <2>2. CASE pass.todo = {d}
    <3>1. pass' = [pass EXCEPT !.todo = {}, !.turn = @ + 1, !.heard = <<>>]
      BY <1>2, <2>2
    <3>2. /\ pass'.todo = {} /\ pass'.turn = pass.turn + 1 /\ pass'.heard = <<>>
          /\ pass'.at = pass.at /\ pass'.hypotheses = pass.hypotheses
      BY <1>1, <3>1 DEF Passes
    <3>3. pass' \in Passes
      <4> DEFINE Heard == UNION {[hs -> Worlds] : hs \in SUBSET Hypotheses}
                 Turns == 1..Len(Strategies) + 1
      <4>1. <<>> \in Heard /\ pass.turn + 1 \in Turns
        BY <1>4, <1>5
      <4> HIDE DEF Heard, Turns
      <4> QED BY <1>1, <3>1, <4>1 DEF Passes, Heard, Turns
    <3> QED BY <1>4, <2>2, <3>2, <3>3
  <2> QED BY <2>1, <2>2
<1>7. TypeOK' /\ pass' # NoPass
  <2>1. pass' # NoPass
    BY <1>6 DEF NoPass
  <2>2. written' \subseteq Decisions
    BY <1>2, <1>3 DEF IInv, TypeOK
  <2> QED BY <1>2, <1>6, <2>1, <2>2 DEF IInv, TypeOK
<1>8. OnlyWholePasses'
  BY <1>2 DEF IInv, OnlyWholePasses, WholePass
<1>9. /\ TurnInProgress /\ Rows(written, s, pass.at) \cup pass.todo = Allocation(s, pass.heard, pass.at)
      /\ Rows(written, s, pass.at) \cap pass.todo = {}
  BY <1>1, <1>3 DEF PassInProgress, TurnInProgress
<1>10. /\ Rows(written', s, pass.at) = Rows(written, s, pass.at) \cup {d}
       /\ \A i \in DOMAIN Strategies : i # pass.turn =>
            Rows(written', Strategies[i], pass.at) = Rows(written, Strategies[i], pass.at)
  <2>1. \A i \in DOMAIN Strategies : i # pass.turn => Strategies[i] # d.strategy
    BY <1>3, AttentionAssumption
  <2> QED BY <1>2, <1>3, <2>1 DEF Rows
<1>11. PassInProgress'
  <2>1. /\ pass'.at <= now' /\ \A e \in committed' : e.at < pass'.at
        /\ open' \subseteq pass'.hypotheses /\ pass'.hypotheses # {}
        /\ committed' \subseteq written'
        /\ \A e \in written' : e \in committed' \/ e.at = pass'.at
    BY <1>1, <1>2, <1>3, <1>6 DEF PassInProgress
  <2>2. CASE pass.todo # {d}
    <3>1. TurnInProgress'
      <4> DEFINE rows == Rows(written, s, pass.at)
                 A == Allocation(s, pass.heard, pass.at)
      <4>1. pass'.todo # {}
        BY <1>6, <2>2
      <4>2. rows \cup pass.todo = A /\ rows \cap pass.todo = {}
            /\ Rows(written', s, pass.at) = rows \cup {d}
        BY <1>9, <1>10
      <4> HIDE DEF rows, A
      <4>3. /\ Rows(written', s, pass.at) \cup pass'.todo = A
            /\ Rows(written', s, pass.at) \cap pass'.todo = {}
        BY <1>6, <4>2
      <4> QED BY <1>3, <1>6, <2>2, <4>1, <4>3 DEF TurnInProgress, A
    <3>2. \A i \in DOMAIN Strategies :
            LET rows == Rows(written', Strategies[i], pass.at)
            IN /\ i < pass.turn => IsAllocation(rows, Strategies[i], pass.at, pass.hypotheses)
               /\ i > pass.turn => rows = {}
      BY <1>1, <1>4, <1>10, PassTyped DEF PassInProgress
    <3> QED BY <1>3, <1>6, <2>1, <2>2, <3>1, <3>2 DEF PassInProgress
  <2>3. CASE pass.todo = {d}
    <3>1. IsAllocation(Rows(written', s, pass.at), s, pass.at, pass.hypotheses)
      BY <1>3, <1>9, <1>10, <2>3 DEF IsAllocation
    <3>2. \A i \in DOMAIN Strategies :
            LET rows == Rows(written', Strategies[i], pass.at)
            IN /\ i <= pass.turn => IsAllocation(rows, Strategies[i], pass.at, pass.hypotheses)
               /\ i > pass.turn => rows = {}
      <4> SUFFICES ASSUME NEW i \in DOMAIN Strategies
                   PROVE  LET rows == Rows(written', Strategies[i], pass.at)
                          IN /\ i <= pass.turn => IsAllocation(rows, Strategies[i], pass.at, pass.hypotheses)
                             /\ i > pass.turn => rows = {}
        OBVIOUS
      <4>1. CASE i = pass.turn
        BY <1>4, <3>1, <4>1
      <4>2. CASE i # pass.turn
        BY <1>1, <1>4, <1>10, <4>2, PassTyped DEF PassInProgress
      <4> QED BY <4>1, <4>2
    <3>3. pass'.turn = pass.turn + 1 /\ pass'.todo = {}
      BY <1>6, <2>3
    <3>4. \A i \in DOMAIN Strategies :
            /\ i < pass'.turn => i <= pass.turn
            /\ i > pass'.turn \/ i = pass'.turn => i > pass.turn
      BY <1>4, <3>3, PassTyped
    <3>5. \A i \in DOMAIN Strategies :
            LET rows == Rows(written', Strategies[i], pass.at)
            IN /\ i < pass'.turn => IsAllocation(rows, Strategies[i], pass.at, pass.hypotheses)
               /\ i > pass'.turn \/ i = pass'.turn => rows = {}
      BY <3>2, <3>4
    <3>6. pass'.turn \in DOMAIN Strategies => TurnInProgress'
      BY <1>6, <3>3, <3>5 DEF TurnInProgress
    <3> QED BY <1>6, <2>1, <3>3, <3>5, <3>6 DEF PassInProgress
  <2> QED BY <2>2, <2>3
<1>12. HearsOneWorld'
  <2>1. \A e \in (written' \ committed') \cup pass'.todo :
          e \in (written \ committed) \cup pass.todo
    BY <1>2, <1>6
  <2>2. pass'.turn > 1 => \A h \in DOMAIN pass'.heard : pass'.heard[h] = world
    <3>1. CASE pass.todo # {d}
      BY <1>1, <1>6, <3>1 DEF IInv, HearsOneWorld
    <3>2. CASE pass.todo = {d}
      BY <1>6, <3>2
    <3> QED BY <3>1, <3>2
  <2>3. BaselinesHearTheSame'
    BY <1>2 DEF IInv, HearsOneWorld, BaselinesHearTheSame
  <2> QED BY <1>1, <1>2, <2>1, <2>2, <2>3 DEF IInv, HearsOneWorld
<1> QED BY <1>7, <1>8, <1>11, <1>12 DEF IInv

LEMMA CommitPassKeeps ==
  ASSUME IInv, CommitPass
  PROVE  IInv'
<1>1. pass # NoPass
  BY PassTyped DEF CommitPass
<1>2. /\ pass \in Passes /\ PassInProgress /\ pass.turn > Len(Strategies)
      /\ committed' = written /\ written' = written /\ pass' = NoPass
      /\ open' = open /\ world' = world
  BY <1>1, PassTyped DEF IInv, CommitPass
<1>3. TypeOK'
  BY DEF IInv, TypeOK, CommitPass
<1>4. pass.at \in Int /\ \A d \in committed : d.at < pass.at /\ d.at \in Int
  BY <1>2 DEF PassInProgress, Passes, IInv, TypeOK, Decisions
<1>5. ASSUME NEW d \in written
      PROVE  WholePass(d.at)'
  <2>1. CASE d \in committed
    <3>1. \A t : Rows(written, t, d.at) = Rows(committed, t, d.at)
      BY <1>2, <1>4, <2>1 DEF Rows, PassInProgress
    <3>2. WholePass(d.at)
      BY <2>1 DEF IInv, OnlyWholePasses
    <3> QED BY <1>2, <3>1, <3>2 DEF WholePass
  <2>2. CASE d \notin committed
    <3>1. d.at = pass.at
      BY <1>2, <2>2 DEF PassInProgress
    <3>2. \A i \in DOMAIN Strategies :
            IsAllocation(Rows(written, Strategies[i], pass.at), Strategies[i], pass.at, pass.hypotheses)
      BY <1>2, PassTyped DEF PassInProgress, Passes
    <3>3. pass.hypotheses \in SUBSET Hypotheses /\ open \subseteq pass.hypotheses
      BY <1>2 DEF PassInProgress, Passes
    <3> QED BY <1>2, <3>1, <3>2, <3>3 DEF WholePass, StrategyNames
  <2> QED BY <2>1, <2>2
<1>6. OnlyWholePasses'
  BY <1>2, <1>5 DEF OnlyWholePasses
<1>7. BaselinesHearTheSame'
  <2> SUFFICES ASSUME NEW d \in written, NEW e \in written, d.at = e.at,
                      d.strategy \in Baselines, e.strategy \in Baselines
               PROVE  d.world = e.world
    BY <1>2 DEF BaselinesHearTheSame
  <2>1. d \in committed <=> e \in committed
    BY <1>2, <1>4 DEF PassInProgress
  <2>2. CASE d \in committed
    BY <2>1, <2>2 DEF IInv, HearsOneWorld, BaselinesHearTheSame
  <2>3. CASE d \notin committed
    BY <1>1, <2>1, <2>3 DEF IInv, HearsOneWorld
  <2> QED BY <2>2, <2>3
<1>8. HearsOneWorld'
  BY <1>2, <1>7 DEF HearsOneWorld
<1> QED BY <1>2, <1>3, <1>6, <1>8 DEF IInv

LEMMA StepKeeps == IInv /\ [Next]_vars => IInv'
<1> SUFFICES ASSUME IInv, [Next]_vars PROVE IInv'
  OBVIOUS
<1>1. CASE \E h \in Hypotheses : Resolve(h) \/ ReadForecasts(h)
  BY <1>1, ResolveKeeps, ReadForecastsKeeps
<1>2. CASE Forecast \/ Tick
  BY <1>2, ForecastKeeps, TickKeeps
<1>3. CASE BeginPass \/ InsertDecision \/ CommitPass \/ BreakOff
  BY <1>3, BeginPassKeeps, InsertDecisionKeeps, CommitPassKeeps, BreakOffKeeps
<1>4. CASE UNCHANGED vars
  <2>1. TypeOK' /\ OnlyWholePasses'
    BY <1>4 DEF IInv, TypeOK, OnlyWholePasses, WholePass, vars
  <2>2. (IF pass = NoPass THEN written = committed ELSE PassInProgress)'
    BY <1>4 DEF IInv, PassInProgress, TurnInProgress, vars
  <2>3. HearsOneWorld'
    BY <1>4 DEF IInv, HearsOneWorld, BaselinesHearTheSame, vars
  <2> QED BY <2>1, <2>2, <2>3 DEF IInv
<1> QED BY <1>1, <1>2, <1>3, <1>4 DEF Next

(***************************************************************************)
(* The invariant holds in every behaviour.                                 *)
(***************************************************************************)
THEOREM Invariance == Spec => []IInv
BY InitKeeps, StepKeeps, PTL DEF Spec

-----------------------------------------------------------------------------
(***************************************************************************)
(* Every state has the types of TypeOK: in particular a rank is at most    *)
(* the number of hypotheses, whatever ties the priorities have.            *)
(***************************************************************************)
THEOREM TypeCorrect == Spec => []TypeOK
<1>1. IInv => TypeOK
  BY DEF IInv
<1> QED BY <1>1, Invariance, PTL

(***************************************************************************)
(* allocate_attention numbers the hypotheses of a pass without a gap or a  *)
(* tie, and every pass leaves all of its rows or none.                     *)
(***************************************************************************)
THEOREM RanksNumberThePass == Spec => []RanksAreAPermutation
BY RanksPermute, Invariance, PTL

(***************************************************************************)
(* No hypothesis is withheld for one of a lesser priority, nor while a     *)
(* slot of the budget is free.                                             *)
(***************************************************************************)
THEOREM NothingIsOutranked == Spec => []NothingOutranked
BY NoneOutranked, Invariance, PTL

(***************************************************************************)
(* GET /api/queue routes at most Budget of the open hypotheses, after any  *)
(* number of passes, settlements and crashes.                              *)
(***************************************************************************)
THEOREM OpenOnesFitTheBudget == Spec => []OpenWithinBudget
BY OpenFitBudget, Invariance, PTL

(***************************************************************************)
(* GET /api/comparison shows decisions of the same passes for every        *)
(* strategy, also of hypotheses that are resolved by now.                  *)
(***************************************************************************)
THEOREM ComparisonIsFair == Spec => []ComparesLikeWithLike
BY LikeWithLike, Invariance, PTL

(***************************************************************************)
(* From its first row on a pass holds the write lock, so all strategies    *)
(* but the first rank by the same forecasts.                               *)
(***************************************************************************)
THEOREM BaselinesAgree == Spec => []BaselinesHearTheSame
<1>1. IInv => BaselinesHearTheSame
  BY DEF IInv, HearsOneWorld
<1> QED BY <1>1, Invariance, PTL

(***************************************************************************)
(* A reader on the ranking connection never loses sight of a hypothesis    *)
(* that the pass before and the pass in progress both route.               *)
(***************************************************************************)
THEOREM QueueIsSteady == Spec => []NoFlicker
BY Steady, Invariance, PTL

-----------------------------------------------------------------------------
(***************************************************************************)
(* LiveQueue.                                                              *)
(*                                                                         *)
(* The argument: the socket of a page that is not closed is registered,    *)
(* and an open page that has nothing under way to it and has received an   *)
(* older queue than a broadcast was started for is one the broadcast was   *)
(* started with and has not visited so far.  So when the broadcast ends,   *)
(* the only such pages left are those it passed over.                      *)
(***************************************************************************)
Sockets == Pages \X Nat

Broadcast == [active : {TRUE}, queue : Nat, from : SUBSET Sockets,
              visited : SUBSET Sockets, moved : BOOLEAN]

LiveTypes ==
  /\ queue \in Nat /\ announced \in [Pages -> Nat]
  /\ link \in [Pages -> {"closed", "opening", "open"}]
  /\ connects \in [Pages -> Nat]
  /\ registered \subseteq Sockets
  /\ broadcasts \in Seq(Broadcast \cup {Over})
  /\ asking \subseteq Pages
  /\ newest \in [Pages -> Nat]

SocketOf(p) == <<p, connects[p]>>

LiveSocketsRegistered ==
  \A p \in Pages : link[p] # "closed" => SocketOf(p) \in registered

NothingFromTheFuture ==
  /\ \A p \in Pages : announced[p] <= queue
  /\ \A i \in DOMAIN broadcasts : broadcasts[i].active => broadcasts[i].queue <= queue

ToBeVisited ==
  \A i \in DOMAIN broadcasts, p \in Pages :
    broadcasts[i].active /\ Settled(p) /\ newest[p] < broadcasts[i].queue =>
      SocketOf(p) \in broadcasts[i].from \ broadcasts[i].visited

LiveInv ==
  LiveTypes /\ LiveSocketsRegistered /\ NothingFromTheFuture /\ ToBeVisited /\ PagesCatchUp

LEMMA MaxOfTwo ==
  ASSUME NEW a \in Nat, NEW b \in Nat
  PROVE  Max({a, b}) = IF a >= b THEN a ELSE b
BY DEF Max

LEMMA ActiveBroadcasts ==
  ASSUME LiveTypes, NEW i \in DOMAIN broadcasts
  PROVE  IF broadcasts[i].active THEN broadcasts[i] \in Broadcast ELSE broadcasts[i] = Over
<1>1. broadcasts[i] \in Broadcast \cup {Over}
  BY DEF LiveTypes
<1>2. \A b \in Broadcast : b.active = TRUE
  BY DEF Broadcast
<1>3. Over.active = FALSE
  BY DEF Over
<1> QED BY <1>1, <1>2, <1>3

(* Broadcasts that go on in `new', where they were in `old'.               *)
Carried(new, old) ==
  \A i \in DOMAIN new : new[i].active =>
    /\ i \in DOMAIN old /\ old[i].active
    /\ new[i].queue = old[i].queue
    /\ new[i].from = old[i].from /\ new[i].visited = old[i].visited

LEMMA NewTableCarries ==
  ASSUME NEW bs \in Seq(Broadcast \cup {Over})
  PROVE  NewTable(bs) \in Seq(Broadcast \cup {Over}) /\ Carried(NewTable(bs), bs)
<1>1. \A b \in Broadcast : /\ [b EXCEPT !.moved = TRUE] \in Broadcast
                           /\ b.active = TRUE
                           /\ [b EXCEPT !.moved = TRUE].queue = b.queue
                           /\ [b EXCEPT !.moved = TRUE].from = b.from
                           /\ [b EXCEPT !.moved = TRUE].visited = b.visited
  BY DEF Broadcast
<1>2. Over.active = FALSE
  BY DEF Over
<1> HIDE DEF Over
<1> DEFINE moved(i) == [bs[i] EXCEPT !.moved = TRUE]
           new(i) == IF bs[i].active THEN moved(i) ELSE bs[i]
<1>3. NewTable(bs) = [i \in DOMAIN bs |-> new(i)]
  BY DEF NewTable
<1>4. \A i \in DOMAIN bs : bs[i] \in Broadcast \cup {Over}
  OBVIOUS
<1>5. \A i \in DOMAIN bs : bs[i].active =>
        /\ moved(i) \in Broadcast /\ moved(i).queue = bs[i].queue
        /\ moved(i).from = bs[i].from /\ moved(i).visited = bs[i].visited
  BY <1>1, <1>2, <1>4
<1> HIDE DEF moved
<1>6. \A i \in DOMAIN bs : new(i) \in Broadcast \cup {Over}
  BY <1>4, <1>5
<1>7. \A i \in DOMAIN bs : new(i).active =>
        /\ bs[i].active /\ new(i).queue = bs[i].queue
        /\ new(i).from = bs[i].from /\ new(i).visited = bs[i].visited
  BY <1>5
<1> HIDE DEF new
<1>8. NewTable(bs) \in Seq(Broadcast \cup {Over})
  BY <1>3, <1>6
<1> QED BY <1>3, <1>7, <1>8 DEF Carried

(* What was said of the broadcasts before is said of those carried on.     *)
LEMMA CarriedOn ==
  ASSUME LiveInv, Carried(broadcasts', broadcasts), queue' = queue,
         \A p \in Pages : Settled(p)' =>
           Settled(p) /\ connects'[p] = connects[p] /\ newest'[p] = newest[p]
  PROVE  /\ ToBeVisited'
         /\ \A i \in DOMAIN broadcasts' : broadcasts'[i].active => broadcasts'[i].queue <= queue'
BY DEF LiveInv, NothingFromTheFuture, ToBeVisited, SocketOf, Carried

LEMMA InitLiveKeeps == InitLive => LiveInv
<1> SUFFICES ASSUME InitLive PROVE LiveInv
  OBVIOUS
<1>1. DOMAIN broadcasts = {}
  BY DEF InitLive
<1>2. LiveTypes
  BY DEF InitLive, LiveTypes
<1> QED BY <1>1, <1>2 DEF InitLive, LiveInv, LiveSocketsRegistered,
           NothingFromTheFuture, ToBeVisited, PagesCatchUp

LEMMA LivePages ==
  ASSUME LiveInv, NEW p \in Pages, Connect(p) \/ OnOpen(p) \/ OnClose(p)
  PROVE  LiveInv'
<1>0. /\ broadcasts' \in Seq(Broadcast \cup {Over}) /\ Carried(broadcasts', broadcasts)
      /\ UNCHANGED <<queue, announced>>
  <2>1. broadcasts \in Seq(Broadcast \cup {Over})
    BY DEF LiveInv, LiveTypes
  <2>2. Carried(broadcasts, broadcasts)
    BY DEF Carried
  <2>3. broadcasts' = NewTable(broadcasts) \/ broadcasts' = broadcasts
    BY DEF Connect, OnOpen, OnClose
  <2>4. UNCHANGED <<queue, announced>>
    BY DEF Connect, OnOpen, OnClose
  <2> QED BY <2>1, <2>2, <2>3, <2>4, NewTableCarries
<1>1. LiveTypes'
  <2>1. <<p, connects[p] + 1>> \in Sockets
    BY DEF LiveInv, LiveTypes, Sockets
  <2>2. connects[p] + 1 \in Nat
    BY DEF LiveInv, LiveTypes
  <2>3. CASE Connect(p)
    BY <1>0, <2>1, <2>2, <2>3 DEF LiveInv, LiveTypes, Connect
  <2>4. CASE OnOpen(p)
    BY <2>4 DEF LiveInv, LiveTypes, OnOpen
  <2>5. CASE OnClose(p)
    BY <2>5 DEF LiveInv, LiveTypes, OnClose
  <2> QED BY <2>3, <2>4, <2>5
<1>2. LiveSocketsRegistered'
  BY DEF LiveInv, LiveTypes, LiveSocketsRegistered, SocketOf, Connect, OnOpen, OnClose
<1>4. \A r \in Pages : Settled(r)' =>
        Settled(r) /\ connects'[r] = connects[r] /\ newest'[r] = newest[r]
  BY DEF LiveInv, LiveTypes, Settled, Connect, OnOpen, OnClose
<1>6. ToBeVisited' /\ NothingFromTheFuture'
  BY <1>0, <1>4, CarriedOn DEF LiveInv, NothingFromTheFuture
<1>7. PagesCatchUp'
  BY <1>0, <1>4 DEF LiveInv, PagesCatchUp
<1> QED BY <1>1, <1>2, <1>6, <1>7 DEF LiveInv

LEMMA LiveRefresh ==
  ASSUME LiveInv, NEW p \in Pages, Refresh(p)
  PROVE  LiveInv'
<1>0. /\ queue \in Nat /\ newest[p] \in Nat /\ announced \in [Pages -> Nat]
      /\ newest \in [Pages -> Nat]
  BY DEF LiveInv, LiveTypes
<1>1. newest' \in [Pages -> Nat] /\ newest'[p] >= queue
      /\ \A r \in Pages : r # p => newest'[r] = newest[r]
  BY <1>0, MaxOfTwo DEF Refresh
<1>2. LiveTypes'
  BY <1>1 DEF LiveInv, LiveTypes, Refresh
<1>3. LiveSocketsRegistered' /\ NothingFromTheFuture'
  BY DEF LiveInv, LiveSocketsRegistered, NothingFromTheFuture, SocketOf, Refresh
<1>4. \A r \in Pages : r # p /\ Settled(r)' => Settled(r)
  BY DEF Settled, Refresh
<1>5. UNCHANGED <<broadcasts, announced, connects>>
  BY DEF Refresh
<1>6. ToBeVisited'
  <2> SUFFICES ASSUME NEW i \in DOMAIN broadcasts, NEW r \in Pages, broadcasts[i].active,
                      Settled(r)', newest'[r] < broadcasts[i].queue
               PROVE  SocketOf(r) \in broadcasts[i].from \ broadcasts[i].visited
    BY <1>5 DEF ToBeVisited, SocketOf
  <2>1. broadcasts[i].queue \in Nat /\ broadcasts[i].queue <= queue
    BY ActiveBroadcasts DEF LiveInv, NothingFromTheFuture, Broadcast
  <2>2. r # p
    BY <1>0, <1>1, <2>1
  <2> QED BY <1>1, <1>4, <2>2 DEF LiveInv, ToBeVisited
<1>7. PagesCatchUp'
  BY <1>0, <1>1, <1>4, <1>5 DEF LiveInv, PagesCatchUp, Settled, NothingFromTheFuture
<1> QED BY <1>2, <1>3, <1>6, <1>7 DEF LiveInv

LEMMA AnnouncedTyped ==
  ASSUME LiveInv, NEW b, b.queue \in Nat, b.queue <= queue'
  PROVE  /\ Announced(b) \in [Pages -> Nat]
         /\ queue <= queue' /\ queue' \in Nat =>
              \A p \in Pages : Announced(b)[p] <= queue'
         /\ \A p \in Pages :
              \/ Announced(b)[p] = announced[p]
              \/ Announced(b)[p] = b.queue /\ ~PassedOver(b, p)
<1>1. /\ queue \in Nat /\ announced \in [Pages -> Nat]
      /\ \A p \in Pages : announced[p] <= queue
  BY DEF LiveInv, LiveTypes, NothingFromTheFuture
<1>2. \A p \in Pages : Max({announced[p], b.queue}) =
        IF announced[p] >= b.queue THEN announced[p] ELSE b.queue
  BY <1>1, MaxOfTwo
<1> QED BY <1>1, <1>2 DEF Announced

LEMMA NotifiedPages ==
  ASSUME LiveInv, NEW socket \in registered
  PROVE  /\ asking \subseteq Notified(socket) /\ Notified(socket) \subseteq Pages
         /\ \A p \in Pages : socket = SocketOf(p) /\ link[p] # "closed" => p \in Notified(socket)
<1>1. socket \in Sockets
  BY DEF LiveInv, LiveTypes
<1> QED BY <1>1 DEF Notified, Gone, SocketOf, Sockets, LiveInv, LiveTypes

LEMMA LiveStart ==
  ASSUME LiveInv, NEW of \in Nat, queue' \in Nat, of <= queue', queue <= queue',
         StartBroadcast(of)
  PROVE  LiveInv'
<1> DEFINE begun(visited) == [active |-> TRUE, queue |-> of, from |-> registered,
                              visited |-> visited, moved |-> FALSE]
<1>1. /\ broadcasts \in Seq(Broadcast \cup {Over}) /\ registered \subseteq Sockets
      /\ queue \in Nat /\ newest \in [Pages -> Nat] /\ announced \in [Pages -> Nat]
      /\ \A p \in Pages : announced[p] <= queue
      /\ \A i \in DOMAIN broadcasts : broadcasts[i].active =>
           broadcasts[i].queue \in Nat /\ broadcasts[i].queue <= queue
  BY ActiveBroadcasts DEF LiveInv, LiveTypes, NothingFromTheFuture, Broadcast
<1>2. UNCHANGED <<link, connects, registered, newest>>
  BY DEF StartBroadcast
<1>3. LiveSocketsRegistered'
  BY <1>2 DEF LiveInv, LiveSocketsRegistered, SocketOf
<1>4. CASE /\ registered = {}
           /\ broadcasts' = Append(broadcasts, Over)
           /\ announced' = Announced(begun({}))
           /\ UNCHANGED asking
  <2>1. /\ begun({}).queue = of /\ begun({}).from = {}
    BY <1>4
  <2> HIDE DEF begun
  <2>2. Over.active = FALSE
    BY DEF Over
  <2> HIDE DEF Over
  <2>3. /\ broadcasts' \in Seq(Broadcast \cup {Over})
        /\ \A i \in DOMAIN broadcasts' : broadcasts'[i].active =>
             i \in DOMAIN broadcasts /\ broadcasts'[i] = broadcasts[i]
    BY <1>1, <1>4, <2>2
  <2>4. /\ announced' \in [Pages -> Nat] /\ \A p \in Pages : announced'[p] <= queue'
    BY <1>4, <2>1, AnnouncedTyped
  <2>5. LiveTypes'
    BY <1>2, <1>4, <2>3, <2>4 DEF LiveInv, LiveTypes
  <2>6. NothingFromTheFuture'
    BY <1>1, <2>3, <2>4 DEF NothingFromTheFuture
  <2>7. ToBeVisited'
    BY <1>2, <1>4, <2>3 DEF LiveInv, ToBeVisited, SocketOf, Settled
  <2>8. \A p \in Pages : ~Settled(p)'
    BY <1>2, <1>4 DEF LiveInv, LiveSocketsRegistered, Settled
  <2> QED BY <1>3, <2>5, <2>6, <2>7, <2>8 DEF LiveInv, PagesCatchUp
<1>5. ASSUME NEW socket \in registered,
             broadcasts' = Append(broadcasts, begun({socket})),
             asking' = Notified(socket), UNCHANGED announced
      PROVE  LiveInv'
  <2> DEFINE b == begun({socket})
  <2>1. /\ b \in Broadcast /\ b.queue = of /\ b.from = registered /\ b.visited = {socket}
    BY <1>1 DEF Broadcast
  <2> HIDE DEF b
  <2>2. broadcasts' = Append(broadcasts, b)
    BY <1>5 DEF b
  <2>3. /\ broadcasts' \in Seq(Broadcast \cup {Over})
        /\ \A i \in DOMAIN broadcasts' :
             (i \in DOMAIN broadcasts /\ broadcasts'[i] = broadcasts[i]) \/ broadcasts'[i] = b
    BY <1>1, <2>1, <2>2
  <2>4. /\ asking \subseteq asking' /\ asking' \subseteq Pages
        /\ \A p \in Pages : socket = SocketOf(p) /\ link[p] # "closed" => p \in asking'
    BY <1>5, NotifiedPages
  <2>5. LiveTypes'
    BY <1>2, <1>5, <2>3, <2>4 DEF LiveInv, LiveTypes
  <2>6. NothingFromTheFuture'
    BY <1>1, <1>5, <2>1, <2>3 DEF NothingFromTheFuture
  <2>7. ToBeVisited'
    <3> SUFFICES ASSUME NEW i \in DOMAIN broadcasts', NEW p \in Pages,
                        broadcasts'[i].active, Settled(p)',
                        newest[p] < broadcasts'[i].queue
                 PROVE  SocketOf(p) \in broadcasts'[i].from \ broadcasts'[i].visited
      BY <1>2 DEF ToBeVisited, SocketOf
    <3>1. Settled(p) /\ SocketOf(p) # socket
      BY <1>2, <2>4 DEF Settled
    <3>2. CASE i \in DOMAIN broadcasts /\ broadcasts'[i] = broadcasts[i]
      BY <3>1, <3>2 DEF LiveInv, ToBeVisited
    <3>3. CASE broadcasts'[i] = b
      BY <2>1, <3>1, <3>3 DEF LiveInv, LiveSocketsRegistered, Settled
    <3> QED BY <2>3, <3>2, <3>3
  <2>8. PagesCatchUp'
    BY <1>2, <1>5, <2>4 DEF LiveInv, PagesCatchUp, Settled
  <2> QED BY <1>3, <2>5, <2>6, <2>7, <2>8 DEF LiveInv
<1> QED BY <1>4, <1>5 DEF StartBroadcast

(* A socket that is gone is that of no page, so it may go.                 *)
LEMMA GoneMayGo ==
  ASSUME LiveInv, NEW dead \in SUBSET Sockets, \A socket \in dead : Gone(socket)
  PROVE  /\ registered \ dead \subseteq Sockets
         /\ \A p \in Pages : link[p] # "closed" => SocketOf(p) \in registered \ dead
BY DEF LiveInv, LiveTypes, LiveSocketsRegistered, SocketOf, Gone

LEMMA LiveDiscard ==
  ASSUME LiveInv, NEW socket \in registered, Discard(socket)
  PROVE  LiveInv'
<1>1. {socket} \in SUBSET Sockets /\ Gone(socket)
  BY DEF LiveInv, LiveTypes, Discard
<1>2. /\ registered \ {socket} \subseteq Sockets
      /\ \A p \in Pages : link[p] # "closed" => SocketOf(p) \in registered \ {socket}
  BY <1>1, GoneMayGo
<1>3. registered' = registered \ {socket}
      /\ UNCHANGED <<queue, link, connects, broadcasts, asking, newest, announced>>
  BY DEF Discard
<1> QED BY <1>2, <1>3 DEF LiveInv, LiveTypes, LiveSocketsRegistered, SocketOf,
           NothingFromTheFuture, ToBeVisited, Settled, PagesCatchUp

LEMMA LiveSend ==
  ASSUME LiveInv, NEW i \in DOMAIN broadcasts, broadcasts[i].active,
         NEW socket \in registered, Send(i, socket)
  PROVE  LiveInv'
<1> DEFINE b == [broadcasts[i] EXCEPT !.visited = @ \cup {socket}]
<1>1. socket \in Sockets /\ broadcasts[i] \in Broadcast
  BY ActiveBroadcasts DEF LiveInv, LiveTypes
<1>2. /\ b \in Broadcast /\ b.active /\ b.queue = broadcasts[i].queue
      /\ b.from = broadcasts[i].from /\ b.visited = broadcasts[i].visited \cup {socket}
  BY <1>1 DEF Broadcast
<1>3. broadcasts' = [broadcasts EXCEPT ![i] = b]
      /\ UNCHANGED <<queue, link, connects, registered, newest, announced>>
  BY DEF Send
<1> HIDE DEF b
<1>4. /\ broadcasts' \in Seq(Broadcast \cup {Over}) /\ DOMAIN broadcasts' = DOMAIN broadcasts
      /\ broadcasts'[i] = b /\ \A j \in DOMAIN broadcasts : j # i => broadcasts'[j] = broadcasts[j]
  BY <1>2, <1>3 DEF LiveInv, LiveTypes
<1>5. asking \subseteq asking' /\ asking' \subseteq Pages
      /\ \A p \in Pages : socket = SocketOf(p) /\ link[p] # "closed" => p \in asking'
  BY NotifiedPages DEF Send
<1>6. LiveTypes' /\ LiveSocketsRegistered'
  BY <1>3, <1>4, <1>5 DEF LiveInv, LiveTypes, LiveSocketsRegistered, SocketOf
<1>7. NothingFromTheFuture'
  BY <1>2, <1>3, <1>4 DEF LiveInv, NothingFromTheFuture
<1>8. ToBeVisited'
  <2> SUFFICES ASSUME NEW j \in DOMAIN broadcasts, NEW p \in Pages, broadcasts'[j].active,
                      Settled(p)', newest[p] < broadcasts'[j].queue
               PROVE  SocketOf(p) \in broadcasts'[j].from \ broadcasts'[j].visited
    BY <1>3, <1>4 DEF ToBeVisited, SocketOf
  <2>1. Settled(p) /\ SocketOf(p) # socket
    BY <1>3, <1>5 DEF Settled
  <2>2. CASE j = i
    BY <1>2, <1>4, <2>1, <2>2 DEF LiveInv, ToBeVisited
  <2>3. CASE j # i
    BY <1>4, <2>1, <2>3 DEF LiveInv, ToBeVisited
  <2> QED BY <2>2, <2>3
<1>9. PagesCatchUp'
  BY <1>3, <1>5 DEF LiveInv, PagesCatchUp, Settled
<1> QED BY <1>6, <1>7, <1>8, <1>9 DEF LiveInv

LEMMA OverIsOver ==
  ASSUME LiveInv, NEW i \in DOMAIN broadcasts
  PROVE  LET ended == [broadcasts EXCEPT ![i] = Over]
         IN ended \in Seq(Broadcast \cup {Over}) /\ Carried(ended, broadcasts)
<1>1. Over.active = FALSE
  BY DEF Over
<1> HIDE DEF Over
<1> QED BY <1>1 DEF LiveInv, LiveTypes, Carried

LEMMA LiveBreak ==
  ASSUME LiveInv, NEW i \in DOMAIN broadcasts, BreakBroadcast(i)
  PROVE  LiveInv'
<1>1. broadcasts' = [broadcasts EXCEPT ![i] = Over]
      /\ UNCHANGED <<queue, link, connects, registered, asking, newest, announced>>
  BY DEF BreakBroadcast
<1>2. broadcasts' \in Seq(Broadcast \cup {Over}) /\ Carried(broadcasts', broadcasts)
  BY <1>1, OverIsOver
<1>3. LiveTypes' /\ LiveSocketsRegistered' /\ PagesCatchUp'
  BY <1>1, <1>2 DEF LiveInv, LiveTypes, LiveSocketsRegistered, SocketOf, PagesCatchUp, Settled
<1>4. \A p \in Pages : Settled(p)' => Settled(p)
  BY <1>1 DEF Settled
<1>5. NothingFromTheFuture' /\ ToBeVisited'
  BY <1>1, <1>2, <1>4, CarriedOn DEF LiveInv, NothingFromTheFuture
<1> QED BY <1>3, <1>5 DEF LiveInv

LEMMA LiveEnd ==
  ASSUME LiveInv, NEW i \in DOMAIN broadcasts, broadcasts[i].active, EndBroadcast(i)
  PROVE  LiveInv'
<1> DEFINE b == broadcasts[i]
           ended == [broadcasts EXCEPT ![i] = Over]
<1>1. b \in Broadcast /\ b.queue \in Nat /\ b.queue <= queue /\ b.visited \subseteq Sockets
  BY ActiveBroadcasts DEF LiveInv, Broadcast, NothingFromTheFuture
<1>2. /\ broadcasts' = NewTable(ended)
      /\ announced' = Announced(b)
      /\ UNCHANGED <<queue, link, connects, asking, newest>>
  BY DEF EndBroadcast
<1>3. PICK dead \in SUBSET {socket \in b.visited : Gone(socket)} : registered' = registered \ dead
  BY DEF EndBroadcast
<1>4. /\ registered' \subseteq Sockets
      /\ \A p \in Pages : link[p] # "closed" => SocketOf(p) \in registered'
  BY <1>1, <1>3, GoneMayGo
<1>5. broadcasts' \in Seq(Broadcast \cup {Over}) /\ Carried(broadcasts', broadcasts)
  <2>1. ended \in Seq(Broadcast \cup {Over}) /\ Carried(ended, broadcasts)
    BY OverIsOver
  <2> HIDE DEF ended
  <2>2. NewTable(ended) \in Seq(Broadcast \cup {Over}) /\ Carried(NewTable(ended), ended)
    BY <2>1, NewTableCarries
  <2> QED BY <1>2, <2>1, <2>2 DEF Carried
<1>6. queue \in Nat /\ newest \in [Pages -> Nat]
  BY DEF LiveInv, LiveTypes
<1> HIDE DEF b, ended
<1>7. /\ announced' \in [Pages -> Nat] /\ \A p \in Pages : announced'[p] <= queue'
      /\ \A p \in Pages :
           \/ announced'[p] = announced[p]
           \/ announced'[p] = b.queue /\ ~PassedOver(b, p)
  BY <1>1, <1>2, <1>6, AnnouncedTyped
<1>8. LiveTypes' /\ LiveSocketsRegistered'
  BY <1>2, <1>4, <1>5, <1>7 DEF LiveInv, LiveTypes, LiveSocketsRegistered, SocketOf
<1>9. \A p \in Pages : Settled(p)' => Settled(p)
  BY <1>2 DEF Settled
<1>10. NothingFromTheFuture' /\ ToBeVisited'
  BY <1>2, <1>5, <1>7, <1>9, CarriedOn DEF LiveInv, NothingFromTheFuture
<1>11. PagesCatchUp'
  <2> SUFFICES ASSUME NEW p \in Pages, Settled(p) PROVE newest[p] >= announced'[p]
    BY <1>2, <1>9 DEF PagesCatchUp
  <2>1. CASE announced'[p] = announced[p]
    BY <2>1 DEF LiveInv, PagesCatchUp
  <2>2. CASE announced'[p] = b.queue /\ ~PassedOver(b, p)
    <3>1. newest[p] < b.queue => SocketOf(p) \in b.from \ b.visited
      BY DEF LiveInv, ToBeVisited, b
    <3> QED BY <1>1, <1>6, <2>2, <3>1 DEF PassedOver, SocketOf
  <2> QED BY <1>7, <2>1, <2>2
<1> QED BY <1>8, <1>10, <1>11 DEF LiveInv

(* A pass that nobody announces.                                           *)
LEMMA LiveQuietly ==
  ASSUME LiveInv, queue' \in Nat, queue <= queue',
         UNCHANGED <<link, connects, registered, broadcasts, asking, newest, announced>>
  PROVE  LiveInv'
<1>1. LiveTypes' /\ LiveSocketsRegistered' /\ PagesCatchUp' /\ ToBeVisited'
  BY DEF LiveInv, LiveTypes, LiveSocketsRegistered, SocketOf, PagesCatchUp, ToBeVisited, Settled
<1>2. NothingFromTheFuture'
  <2>1. \A i \in DOMAIN broadcasts : broadcasts[i].active =>
          broadcasts[i].queue \in Nat /\ broadcasts[i].queue <= queue
    BY ActiveBroadcasts DEF LiveInv, NothingFromTheFuture, Broadcast
  <2>2. queue \in Nat /\ announced \in [Pages -> Nat] /\ \A p \in Pages : announced[p] <= queue
    BY DEF LiveInv, LiveTypes, NothingFromTheFuture
  <2> QED BY <2>1, <2>2 DEF NothingFromTheFuture
<1> QED BY <1>1, <1>2 DEF LiveInv

LEMMA LiveStepKeeps == LiveInv /\ [NextLive]_live => LiveInv'
<1> SUFFICES ASSUME LiveInv, [NextLive]_live PROVE LiveInv'
  OBVIOUS
<1>0. queue \in Nat
  BY DEF LiveInv, LiveTypes
<1>1. CASE ShowNewQueue
  <2>1. queue' = queue + 1
    BY <1>1 DEF ShowNewQueue
  <2>2. \/ StartBroadcast(queue')
        \/ UNCHANGED <<link, connects, registered, broadcasts, asking, newest, announced>>
    BY <1>1 DEF ShowNewQueue
  <2>3. queue' \in Nat /\ queue <= queue' /\ queue' <= queue'
    BY <1>0, <2>1
  <2> QED BY <2>2, <2>3, LiveStart, LiveQuietly
<1>2. CASE Announce
  <2>1. StartBroadcast(queue) /\ queue' = queue
    BY <1>2 DEF Announce
  <2> QED BY <1>0, <2>1, LiveStart
<1>3. CASE \E p \in Pages : Connect(p) \/ OnOpen(p) \/ OnClose(p) \/ Refresh(p)
  BY <1>3, LivePages, LiveRefresh
<1>4. CASE \E socket \in registered : Discard(socket)
  BY <1>4, LiveDiscard
<1>5. CASE \E i \in DOMAIN broadcasts : Broadcasting(i)
  BY <1>5, LiveSend, LiveEnd, LiveBreak DEF Broadcasting
<1>6. CASE UNCHANGED live
  BY <1>6 DEF live, LiveInv, LiveTypes, LiveSocketsRegistered, SocketOf,
     NothingFromTheFuture, ToBeVisited, Settled, PagesCatchUp
<1> QED BY <1>1, <1>2, <1>3, <1>4, <1>5, <1>6 DEF NextLive

(***************************************************************************)
(* A page whose socket is open, with nothing on its way to it, has         *)
(* received a queue at least as new as any that a broadcast ran to its end *)
(* for without passing over that page, although live() and the broadcasts  *)
(* themselves change the set of sockets while broadcasts iterate over it.  *)
(***************************************************************************)
THEOREM EveryPageCatchesUp == LiveSpec => []PagesCatchUp
<1>1. LiveSpec => []LiveInv
  BY InitLiveKeeps, LiveStepKeeps, PTL DEF LiveSpec
<1>2. LiveInv => PagesCatchUp
  BY DEF LiveInv
<1> QED BY <1>1, <1>2, PTL
===============================================================================

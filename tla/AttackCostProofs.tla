--------------------------- MODULE AttackCostProofs ---------------------------
(***************************************************************************)
(* The prices of core/attack.py, for all forecasts, rivals, reputations,   *)
(* roots, discounts and numbers of identities that AttackCost allows.      *)
(*                                                                         *)
(* The weights of a pool add up over its parts whatever the order in which *)
(* a fold takes them (SumRemove, SumUnion), so a pool of honest forecasts  *)
(* and j equal identities pulls by j * Push - Gap (PullPool).  Reaching a  *)
(* bar is then an inequality in j, and the closed forms are the least      *)
(* integers that satisfy it (LeastReaching, LeastAbove).  The invariant    *)
(* says what makes the parts a partition: forecasts are finitely many and  *)
(* one per agent.  That identities cite evidence of their own leaves the   *)
(* discounts of honest forecasts as they are (PoolClusters).               *)
(***************************************************************************)
EXTENDS AttackCost, SettlementProofs

-----------------------------------------------------------------------------
(* Sums over a finite set.                                                 *)

(* A function on the subsets of S with the recursion of the fold. *)
Adds(iter, fun, S) ==
  iter = [s \in SUBSET S |-> IF s = {} THEN 0 ELSE fun[Chosen(s)] + iter[s \ {Chosen(s)}]]

LEMMA SumIs ==
  ASSUME NEW fun, NEW S
  PROVE  SumFunctionOnSet(fun, S) = (CHOOSE iter : Adds(iter, fun, S))[S]
BY DEF SumFunctionOnSet, FoldFunctionOnSet, MapThenFoldSet, Adds, Chosen

LEMMA AddsNone ==
  ASSUME NEW fun, NEW S, NEW iter, Adds(iter, fun, S)
  PROVE  iter[{}] = 0
BY DEF Adds

LEMMA AddsNext ==
  ASSUME NEW fun, NEW S, NEW iter, Adds(iter, fun, S), NEW s \in SUBSET S, s # {}
  PROVE  iter[s] = fun[Chosen(s)] + iter[s \ {Chosen(s)}]
BY DEF Adds

LEMMA AddsAgree ==
  ASSUME NEW fun, NEW S, NEW g, Adds(g, fun, S),
         NEW T \in SUBSET S, IsFiniteSet(T), NEW h, Adds(h, fun, T)
  PROVE  g[T] = h[T]
<1> DEFINE P == {U \in SUBSET T : g[U] = h[U]}
<1>1. ASSUME NEW U \in SUBSET T, \A V \in SUBSET U : V # U => V \in P
      PROVE  U \in P
  <2>1. CASE U = {}
    BY <2>1, AddsNone
  <2>2. CASE U # {}
    <3>1. Chosen(U) \in U
      BY <2>2, ChosenIn
    <3>2. U \ {Chosen(U)} \in P
      BY <1>1, <3>1
    <3>3. U \in SUBSET S
      OBVIOUS
    <3>4. /\ g[U] = fun[Chosen(U)] + g[U \ {Chosen(U)}]
          /\ h[U] = fun[Chosen(U)] + h[U \ {Chosen(U)}]
      BY <2>2, <3>3, AddsNext
    <3> QED BY <3>2, <3>4
  <2> QED BY <2>1, <2>2
<1>2. T \in P
  <2> HIDE DEF P
  <2> QED BY <1>1, SubsetInduction
<1> QED BY <1>2

LEMMA AddsExists ==
  ASSUME NEW fun, NEW S, IsFiniteSet(S)
  PROVE  \E iter : Adds(iter, fun, S)
<1> DEFINE P == {T \in SUBSET S : \E iter : Adds(iter, fun, T)}
           sum(s) == SumFunctionOnSet(fun, s)
<1>1. ASSUME NEW T \in SUBSET S, \A U \in SUBSET T : U # T => U \in P
      PROVE  T \in P
  <2>1. ASSUME NEW U \in SUBSET T, U # T
        PROVE  \E iter : Adds(iter, fun, U) /\ sum(U) = iter[U]
    <3>1. U \in P
      BY <1>1, <2>1
    <3> QED BY <3>1, SumIs
  <2>2. ASSUME NEW U \in SUBSET T, U # T, U # {}
        PROVE  sum(U) = fun[Chosen(U)] + sum(U \ {Chosen(U)})
    <3>1. PICK g : Adds(g, fun, U) /\ sum(U) = g[U]
      BY <2>1, <2>2
    <3>2. Chosen(U) \in U
      BY <2>2, ChosenIn
    <3>3. /\ U \ {Chosen(U)} \in SUBSET T /\ U \ {Chosen(U)} # T
          /\ U \ {Chosen(U)} \in SUBSET U
      BY <2>2, <3>2
    <3>4. PICK h : Adds(h, fun, U \ {Chosen(U)}) /\ sum(U \ {Chosen(U)}) = h[U \ {Chosen(U)}]
      BY <2>1, <3>3
    <3>5. IsFiniteSet(U \ {Chosen(U)})
      BY FS_Subset
    <3>6. g[U \ {Chosen(U)}] = h[U \ {Chosen(U)}]
      BY <3>1, <3>3, <3>4, <3>5, AddsAgree
    <3>7. g[U] = fun[Chosen(U)] + g[U \ {Chosen(U)}]
      BY <2>2, <3>1, AddsNext
    <3> QED BY <3>1, <3>4, <3>6, <3>7
  <2>3. ASSUME {} # T
        PROVE  sum({}) = 0
    <3>1. PICK g : Adds(g, fun, {}) /\ sum({}) = g[{}]
      BY <2>1, <2>3
    <3> QED BY <3>1, AddsNone
  <2> HIDE DEF sum
  <2> DEFINE iter == [s \in SUBSET T |->
                        IF s = {} THEN 0 ELSE fun[Chosen(s)] + sum(s \ {Chosen(s)})]
  <2>4. ASSUME NEW s \in SUBSET T, s # {}
        PROVE  iter[s \ {Chosen(s)}] = sum(s \ {Chosen(s)})
    <3>1. Chosen(s) \in s
      BY <2>4, ChosenIn
    <3>2. s \ {Chosen(s)} \in SUBSET T /\ s \ {Chosen(s)} # T
      BY <3>1
    <3>3. CASE s \ {Chosen(s)} = {}
      BY <2>3, <3>2, <3>3
    <3>4. CASE s \ {Chosen(s)} # {}
      BY <2>2, <3>2, <3>4
    <3> QED BY <3>3, <3>4
  <2>5. iter = [s \in SUBSET T |->
                        IF s = {} THEN 0 ELSE fun[Chosen(s)] + iter[s \ {Chosen(s)}]]
    BY <2>4
  <2>6. Adds(iter, fun, T)
    BY <2>5 DEF Adds
  <2> HIDE DEF iter
  <2> QED BY <2>6
<1>2. S \in P
  <2> HIDE DEF P
  <2> QED BY <1>1, SubsetInduction
<1> QED BY <1>2

LEMMA SumEmpty ==
  ASSUME NEW fun
  PROVE  SumFunctionOnSet(fun, {}) = 0
<1>1. \E iter : Adds(iter, fun, {})
  BY AddsExists, FS_EmptySet
<1>2. PICK g : Adds(g, fun, {}) /\ SumFunctionOnSet(fun, {}) = g[{}]
  BY <1>1, SumIs
<1> QED BY <1>2, AddsNone

LEMMA SumChosen ==
  ASSUME NEW fun, NEW S, IsFiniteSet(S), S # {}
  PROVE  SumFunctionOnSet(fun, S) =
           fun[Chosen(S)] + SumFunctionOnSet(fun, S \ {Chosen(S)})
<1>1. Chosen(S) \in S /\ IsFiniteSet(S \ {Chosen(S)}) /\ S \ {Chosen(S)} \in SUBSET S
  BY ChosenIn, FS_Subset
<1>2. PICK g : Adds(g, fun, S) /\ SumFunctionOnSet(fun, S) = g[S]
  BY AddsExists, SumIs
<1>3. PICK h : /\ Adds(h, fun, S \ {Chosen(S)})
               /\ SumFunctionOnSet(fun, S \ {Chosen(S)}) = h[S \ {Chosen(S)}]
  BY <1>1, AddsExists, SumIs
<1>4. g[S \ {Chosen(S)}] = h[S \ {Chosen(S)}]
  BY <1>1, <1>2, <1>3, AddsAgree
<1>5. g[S] = fun[Chosen(S)] + g[S \ {Chosen(S)}]
  BY <1>2, AddsNext
<1> QED BY <1>2, <1>3, <1>4, <1>5

LEMMA SumType ==
  ASSUME NEW S, IsFiniteSet(S), NEW fun, \A x \in S : fun[x] \in Int
  PROVE  SumFunctionOnSet(fun, S) \in Int
<1> DEFINE P == {T \in SUBSET S : SumFunctionOnSet(fun, T) \in Int}
<1>1. ASSUME NEW T \in SUBSET S, \A U \in SUBSET T : U # T => U \in P
      PROVE  T \in P
  <2>1. CASE T = {}
    BY <2>1, SumEmpty
  <2>2. CASE T # {}
    <3>1. Chosen(T) \in T /\ IsFiniteSet(T)
      BY <2>2, ChosenIn, FS_Subset
    <3>2. T \ {Chosen(T)} \in P
      BY <1>1, <3>1
    <3>3. SumFunctionOnSet(fun, T) =
            fun[Chosen(T)] + SumFunctionOnSet(fun, T \ {Chosen(T)})
      BY <2>2, <3>1, SumChosen
    <3> QED BY <3>1, <3>2, <3>3
  <2> QED BY <2>1, <2>2
<1>2. S \in P
  <2> HIDE DEF P
  <2> QED BY <1>1, SubsetInduction
<1> QED BY <1>2

(* The order in which a fold takes the elements does not matter to a sum. *)
LEMMA SumRemove ==
  ASSUME NEW S, IsFiniteSet(S), NEW fun, \A y \in S : fun[y] \in Int, NEW x \in S
  PROVE  SumFunctionOnSet(fun, S) = fun[x] + SumFunctionOnSet(fun, S \ {x})
<1> DEFINE sum(T) == SumFunctionOnSet(fun, T)
           P == {T \in SUBSET S : \A y \in T : sum(T) = fun[y] + sum(T \ {y})}
<1>0. ASSUME NEW T \in SUBSET S
      PROVE  sum(T) \in Int /\ IsFiniteSet(T)
  BY FS_Subset, SumType
<1>1. ASSUME NEW T \in SUBSET S, \A U \in SUBSET T : U # T => U \in P
      PROVE  T \in P
  <2> SUFFICES ASSUME NEW y \in T, y # Chosen(T) PROVE sum(T) = fun[y] + sum(T \ {y})
    <3>1. ASSUME T # {} PROVE sum(T) = fun[Chosen(T)] + sum(T \ {Chosen(T)})
      BY <1>0, <3>1, SumChosen
    <3> QED BY <3>1
  <2> DEFINE c == Chosen(T)
  <2>1. c \in T
    BY ChosenIn
  <2>2. sum(T) = fun[c] + sum(T \ {c})
    BY <1>0, SumChosen
  <2> HIDE DEF sum, c
  <2>3. T \ {c} \in P /\ T \ {y} \in P
    BY <1>1, <2>1
  <2>4. /\ sum(T \ {c}) = fun[y] + sum((T \ {c}) \ {y})
        /\ sum(T \ {y}) = fun[c] + sum((T \ {y}) \ {c})
    BY <2>1, <2>3 DEF c
  <2>5. (T \ {c}) \ {y} = (T \ {y}) \ {c}
    OBVIOUS
  <2>6. fun[c] \in Int /\ fun[y] \in Int /\ sum((T \ {y}) \ {c}) \in Int
    <3>1. (T \ {y}) \ {c} \in SUBSET S
      OBVIOUS
    <3> QED BY <1>0, <2>1, <3>1
  <2>7. sum(T) = fun[c] + (fun[y] + sum((T \ {y}) \ {c}))
    BY <2>2, <2>4, <2>5
  <2>8. fun[y] + sum(T \ {y}) = fun[y] + (fun[c] + sum((T \ {y}) \ {c}))
    BY <2>4
  <2>9. ASSUME NEW i \in Int, NEW j \in Int, NEW k \in Int
        PROVE  i + (j + k) = j + (i + k)
    OBVIOUS
  <2> QED BY <2>6, <2>7, <2>8, <2>9
<1>2. S \in P
  <2> HIDE DEF P
  <2> QED BY <1>1, SubsetInduction
<1> QED BY <1>2

LEMMA SumSame ==
  ASSUME NEW S, IsFiniteSet(S), NEW f, NEW g, \A x \in S : f[x] = g[x]
  PROVE  SumFunctionOnSet(f, S) = SumFunctionOnSet(g, S)
<1> DEFINE P == {T \in SUBSET S : SumFunctionOnSet(f, T) = SumFunctionOnSet(g, T)}
<1>1. ASSUME NEW T \in SUBSET S, \A U \in SUBSET T : U # T => U \in P
      PROVE  T \in P
  <2>1. CASE T = {}
    BY <2>1, SumEmpty
  <2>2. CASE T # {}
    <3>1. Chosen(T) \in T /\ IsFiniteSet(T)
      BY <2>2, ChosenIn, FS_Subset
    <3>2. T \ {Chosen(T)} \in P
      BY <1>1, <3>1
    <3>3. /\ SumFunctionOnSet(f, T) = f[Chosen(T)] + SumFunctionOnSet(f, T \ {Chosen(T)})
          /\ SumFunctionOnSet(g, T) = g[Chosen(T)] + SumFunctionOnSet(g, T \ {Chosen(T)})
      BY <2>2, <3>1, SumChosen
    <3>4. f[Chosen(T)] = g[Chosen(T)]
      BY <3>1
    <3> QED BY <3>2, <3>3, <3>4
  <2> QED BY <2>1, <2>2
<1>2. S \in P
  <2> HIDE DEF P
  <2> QED BY <1>1, SubsetInduction
<1> QED BY <1>2

LEMMA SumUnion ==
  ASSUME NEW S, IsFiniteSet(S), NEW T, IsFiniteSet(T), S \cap T = {},
         NEW f, \A x \in S \cup T : f[x] \in Int
  PROVE  SumFunctionOnSet(f, S \cup T) = SumFunctionOnSet(f, S) + SumFunctionOnSet(f, T)
<1> DEFINE sum(U) == SumFunctionOnSet(f, U)
           P == {U \in SUBSET T : sum(S \cup U) = sum(S) + sum(U)}
<1>0. ASSUME NEW U \in SUBSET (S \cup T)
      PROVE  sum(U) \in Int /\ IsFiniteSet(U)
  BY FS_Union, FS_Subset, SumType
<1>1. ASSUME NEW U \in SUBSET T, \A V \in SUBSET U : V # U => V \in P
      PROVE  U \in P
  <2>1. CASE U = {}
    <3>1. sum(S) \in Int /\ sum(U) = 0
      BY <2>1, <1>0, SumEmpty
    <3>2. S \cup U = S
      BY <2>1
    <3> HIDE DEF sum
    <3>3. sum(S \cup U) = sum(S) + sum(U)
      BY <3>1, <3>2
    <3> QED BY <3>3
  <2>2. CASE U # {}
    <3> DEFINE c == Chosen(U)
    <3>1. c \in U
      BY <2>2, ChosenIn
    <3>2. U \ {c} \in P
      BY <1>1, <3>1
    <3>3. sum(U) = f[c] + sum(U \ {c})
      BY <1>0, <2>2, SumChosen
    <3>4. sum(S \cup U) = f[c] + sum((S \cup U) \ {c})
      <4>1. IsFiniteSet(S \cup U) /\ c \in S \cup U /\ \A x \in S \cup U : f[x] \in Int
        BY <1>0, <3>1
      <4> HIDE DEF c
      <4> QED BY <4>1, SumRemove
    <3>5. (S \cup U) \ {c} = S \cup (U \ {c})
      BY <3>1
    <3>6. f[c] \in Int /\ sum(S) \in Int /\ sum(U \ {c}) \in Int
      BY <1>0, <3>1
    <3> HIDE DEF sum, c
    <3>7. ASSUME NEW i \in Int, NEW j \in Int, NEW k \in Int
          PROVE  i + (j + k) = j + (i + k)
      OBVIOUS
    <3>8. sum(S \cup U) = f[c] + (sum(S) + sum(U \ {c}))
      BY <3>2, <3>4, <3>5
    <3> QED BY <3>3, <3>6, <3>7, <3>8
  <2> QED BY <2>1, <2>2
<1>2. T \in P
  <2> HIDE DEF P
  <2> QED BY <1>1, SubsetInduction
<1> QED BY <1>2

LEMMA SumConstant ==
  ASSUME NEW S, IsFiniteSet(S), NEW c \in Int, NEW f, \A x \in S : f[x] = c
  PROVE  SumFunctionOnSet(f, S) = Cardinality(S) * c
<1> DEFINE P == {T \in SUBSET S : SumFunctionOnSet(f, T) = Cardinality(T) * c}
<1>1. ASSUME NEW T \in SUBSET S, \A U \in SUBSET T : U # T => U \in P
      PROVE  T \in P
  <2>1. CASE T = {}
    BY <2>1, SumEmpty, FS_EmptySet
  <2>2. CASE T # {}
    <3>1. Chosen(T) \in T /\ IsFiniteSet(T)
      BY <2>2, ChosenIn, FS_Subset
    <3>2. T \ {Chosen(T)} \in P
      BY <1>1, <3>1
    <3>3. SumFunctionOnSet(f, T) = f[Chosen(T)] + SumFunctionOnSet(f, T \ {Chosen(T)})
      BY <2>2, <3>1, SumChosen
    <3>4. /\ Cardinality(T) \in Nat
          /\ Cardinality(T \ {Chosen(T)}) = Cardinality(T) - 1
      BY <3>1, FS_RemoveElement, FS_CardinalityType
    <3>5. ASSUME NEW n \in Nat
          PROVE  n * c = c + (n - 1) * c
      OBVIOUS
    <3> QED BY <3>1, <3>2, <3>3, <3>4, <3>5
  <2> QED BY <2>1, <2>2
<1>2. S \in P
  <2> HIDE DEF P
  <2> QED BY <1>1, SubsetInduction
<1> QED BY <1>2

LEMMA Combines ==
  ASSUME NEW a \in Int, NEW b \in Int, NEW i \in Int, NEW j \in Int,
         NEW k \in Int, NEW l \in Int
  PROVE  (a * i - b * j) + (a * k - b * l) = a * (i + k) - b * (j + l)
<1>1. a * (i + k) = a * i + a * k /\ b * (j + l) = b * j + b * l
  OBVIOUS
<1>2. a * i \in Int /\ a * k \in Int /\ b * j \in Int /\ b * l \in Int
  OBVIOUS
<1> QED BY <1>1, <1>2

LEMMA SumCombination ==
  ASSUME NEW S, IsFiniteSet(S), NEW a \in Int, NEW b \in Int, NEW f, NEW g, NEW h,
         \A x \in S : f[x] \in Int /\ g[x] \in Int /\ h[x] = a * f[x] - b * g[x]
  PROVE  SumFunctionOnSet(h, S) =
           a * SumFunctionOnSet(f, S) - b * SumFunctionOnSet(g, S)
<1> DEFINE P == {T \in SUBSET S :
                   SumFunctionOnSet(h, T) =
                     a * SumFunctionOnSet(f, T) - b * SumFunctionOnSet(g, T)}
<1>1. ASSUME NEW T \in SUBSET S, \A U \in SUBSET T : U # T => U \in P
      PROVE  T \in P
  <2>1. CASE T = {}
    BY <2>1, SumEmpty
  <2>2. CASE T # {}
    <3> DEFINE c == Chosen(T)
               U == T \ {c}
    <3>1. c \in T /\ IsFiniteSet(T) /\ IsFiniteSet(U) /\ U \in SUBSET S
      BY <2>2, ChosenIn, FS_Subset
    <3>2. U \in P
      BY <1>1, <3>1
    <3>3. /\ SumFunctionOnSet(f, T) = f[c] + SumFunctionOnSet(f, U)
          /\ SumFunctionOnSet(g, T) = g[c] + SumFunctionOnSet(g, U)
          /\ SumFunctionOnSet(h, T) = h[c] + SumFunctionOnSet(h, U)
      BY <2>2, <3>1, SumChosen
    <3>4. SumFunctionOnSet(f, U) \in Int /\ SumFunctionOnSet(g, U) \in Int
      BY <3>1, SumType
    <3>5. f[c] \in Int /\ g[c] \in Int /\ h[c] = a * f[c] - b * g[c]
      BY <3>1
    <3> HIDE DEF c, U
    <3>6. SumFunctionOnSet(h, T) =
            (a * f[c] - b * g[c])
              + (a * SumFunctionOnSet(f, U) - b * SumFunctionOnSet(g, U))
      BY <3>2, <3>3, <3>5
    <3>7. SumFunctionOnSet(h, T) =
            a * (f[c] + SumFunctionOnSet(f, U)) - b * (g[c] + SumFunctionOnSet(g, U))
      BY <3>4, <3>5, <3>6, Combines
    <3> QED BY <3>3, <3>7
  <2> QED BY <2>1, <2>2
<1>2. S \in P
  <2> HIDE DEF P
  <2> QED BY <1>1, SubsetInduction
<1> QED BY <1>2

LEMMA SumPositive ==
  ASSUME NEW S, IsFiniteSet(S), NEW f, \A x \in S : f[x] \in Nat \ {0}
  PROVE  /\ SumFunctionOnSet(f, S) \in Nat
         /\ S # {} => SumFunctionOnSet(f, S) > 0
<1> DEFINE P == {T \in SUBSET S : /\ SumFunctionOnSet(f, T) \in Nat
                                  /\ T # {} => SumFunctionOnSet(f, T) > 0}
<1>1. ASSUME NEW T \in SUBSET S, \A U \in SUBSET T : U # T => U \in P
      PROVE  T \in P
  <2>1. CASE T = {}
    BY <2>1, SumEmpty
  <2>2. CASE T # {}
    <3>1. Chosen(T) \in T /\ IsFiniteSet(T)
      BY <2>2, ChosenIn, FS_Subset
    <3>2. T \ {Chosen(T)} \in P
      BY <1>1, <3>1
    <3>3. SumFunctionOnSet(f, T) = f[Chosen(T)] + SumFunctionOnSet(f, T \ {Chosen(T)})
      BY <2>2, <3>1, SumChosen
    <3> QED BY <3>1, <3>2, <3>3
  <2> QED BY <2>1, <2>2
<1>2. S \in P
  <2> HIDE DEF P
  <2> QED BY <1>1, SubsetInduction
<1> QED BY <1>2

LEMMA SumNat ==
  ASSUME NEW S, IsFiniteSet(S), NEW f, \A x \in S : f[x] \in Nat
  PROVE  SumFunctionOnSet(f, S) \in Nat
<1> DEFINE P == {T \in SUBSET S : SumFunctionOnSet(f, T) \in Nat}
<1>1. ASSUME NEW T \in SUBSET S, \A U \in SUBSET T : U # T => U \in P
      PROVE  T \in P
  <2>1. CASE T = {}
    BY <2>1, SumEmpty
  <2>2. CASE T # {}
    <3>1. Chosen(T) \in T /\ IsFiniteSet(T)
      BY <2>2, ChosenIn, FS_Subset
    <3>2. T \ {Chosen(T)} \in P
      BY <1>1, <3>1
    <3>3. SumFunctionOnSet(f, T) = f[Chosen(T)] + SumFunctionOnSet(f, T \ {Chosen(T)})
      BY <2>2, <3>1, SumChosen
    <3> QED BY <3>1, <3>2, <3>3
  <2> QED BY <2>1, <2>2
<1>2. S \in P
  <2> HIDE DEF P
  <2> QED BY <1>1, SubsetInduction
<1> QED BY <1>2

-----------------------------------------------------------------------------
(***************************************************************************)
(* Roots, maxima and rounded quotients.                                    *)
(***************************************************************************)
LEMMA RootOf ==
  ASSUME NEW stake \in DOMAIN Root
  PROVE  stake \in Nat \ {0} /\ Root[stake] \in Nat \ {0}
BY MarketAssumption

LEMMA IndependenceOf ==
  ASSUME NEW size \in 1..MaxSharing
  PROVE  Independence[size] \in Nat \ {0}
BY MarketAssumption

LEMMA Undiscounted == Independence[1] \in Nat \ {0}
<1>1. 1 \in 1..MaxSharing
  BY MarketAssumption
<1> QED BY <1>1, IndependenceOf

(* The weight of an identity that shares its evidence with nobody.         *)
Unit(r, stake) == r * Root[stake] * Independence[1]

LEMMA UnitType ==
  ASSUME NEW r \in Nat \ {0}, NEW stake \in DOMAIN Root
  PROVE  Unit(r, stake) \in Nat \ {0}
<1>1. PICK s \in Nat \ {0} : s = Root[stake]
  BY RootOf
<1>2. PICK i \in Nat \ {0} : i = Independence[1]
  BY Undiscounted
<1>3. r * s \in Nat \ {0}
  OBVIOUS
<1>4. (r * s) * i \in Nat \ {0}
  BY <1>3
<1> QED BY <1>1, <1>2, <1>4 DEF Unit

LEMMA MaxIs ==
  ASSUME NEW S, IsFiniteSet(S), S # {}, \A x \in S : x \in Int
  PROVE  Max(S) \in S /\ \A y \in S : Max(S) >= y
<1> DEFINE P == {T \in SUBSET S : T # {} => \E x \in T : \A y \in T : x >= y}
<1>1. ASSUME NEW T \in SUBSET S, \A U \in SUBSET T : U # T => U \in P
      PROVE  T \in P
  <2> SUFFICES ASSUME T # {} PROVE \E x \in T : \A y \in T : x >= y
    OBVIOUS
  <2>1. PICK c \in T : TRUE
    OBVIOUS
  <2>2. T \ {c} \in P
    BY <1>1
  <2>3. CASE T = {c}
    BY <2>3
  <2>4. CASE T # {c}
    <3>1. PICK x \in T \ {c} : \A y \in T \ {c} : x >= y
      BY <2>2, <2>4
    <3>2. x \in Int /\ c \in Int /\ \A y \in T : y \in Int
      OBVIOUS
    <3>3. CASE x >= c
      <4>1. \A y \in T : x >= y
        BY <3>1, <3>3
      <4> QED BY <4>1
    <3>4. CASE c > x
      <4>1. ASSUME NEW y \in T PROVE c >= y
        <5>1. y = c \/ x >= y
          BY <3>1
        <5> QED BY <3>2, <3>4, <5>1
      <4> QED BY <4>1
    <3> QED BY <3>2, <3>3, <3>4
  <2> QED BY <2>3, <2>4
<1>2. S \in P
  <2> HIDE DEF P
  <2> QED BY <1>1, SubsetInduction
<1> QED BY <1>2 DEF Max

LEMMA MaxOfTwo ==
  ASSUME NEW a \in Int, NEW b \in Int
  PROVE  Max({a, b}) = IF a >= b THEN a ELSE b
BY DEF Max

LEMMA Floor ==
  ASSUME NEW n \in Int, NEW d \in Nat \ {0}
  PROVE  n \div d \in Int /\ d * (n \div d) <= n /\ n < d * (n \div d) + d
OBVIOUS

LEMMA LargestFactor ==
  ASSUME NEW d \in Nat \ {0}, NEW i \in Int, NEW j \in Int, d * i < d * j
  PROVE  i < j
<1>1. CASE i >= j
  <2>1. PICK k \in Nat : i = j + k
    BY <1>1
  <2>2. d * i = d * j + d * k /\ d * k \in Nat /\ d * j \in Int
    BY <2>1
  <2> QED BY <2>2
<1> QED BY <1>1

LEMMA FactorsOrder ==
  ASSUME NEW d \in Nat \ {0}, NEW i \in Int, NEW j \in Int, i <= j
  PROVE  d * i <= d * j
<1>1. PICK k \in Nat : j = i + k
  <2>1. j - i \in Nat /\ j = i + (j - i)
    OBVIOUS
  <2> QED BY <2>1
<1>2. d * j = d * i + d * k /\ d * k \in Nat /\ d * i \in Int
  BY <1>1
<1> QED BY <1>2

(***************************************************************************)
(* The least integers that reach and that exceed n / d.                    *)
(***************************************************************************)
LEMMA LeastAbove ==
  ASSUME NEW n \in Int, NEW d \in Nat \ {0}, NEW j \in Int
  PROVE  n \div d + 1 <= j <=> n < d * j
<1>1. PICK q : q = n \div d
  OBVIOUS
<1>2. q \in Int /\ d * q <= n /\ n < d * q + d
  BY <1>1, Floor
<1>3. d * (q + 1) = d * q + d /\ d * q \in Int /\ d * j \in Int
  BY <1>2
<1>4. ASSUME q + 1 <= j PROVE n < d * j
  <2>1. d * (q + 1) <= d * j
    BY <1>2, <1>4, FactorsOrder
  <2> QED BY <1>2, <1>3, <2>1
<1>5. ASSUME n < d * j PROVE q + 1 <= j
  <2>1. d * q < d * j
    BY <1>2, <1>3, <1>5
  <2> QED BY <1>2, <2>1, LargestFactor
<1> QED BY <1>1, <1>4, <1>5

LEMMA LeastReaching ==
  ASSUME NEW n \in Int, NEW d \in Nat \ {0}, NEW j \in Int
  PROVE  /\ CeilDiv(n, d) \in Int
         /\ CeilDiv(n, d) <= j <=> n <= d * j
<1>1. PICK q : q = (-n) \div d
  OBVIOUS
<1>2. q \in Int /\ d * q <= -n /\ -n < d * q + d
  BY <1>1, Floor
<1>3. CeilDiv(n, d) = -q
  BY <1>1 DEF CeilDiv
<1>4. /\ d * (q + 1) = d * q + d /\ d * (-q) = -(d * q) /\ d * (-j) = -(d * j)
      /\ d * q \in Int /\ d * j \in Int
  BY <1>2
<1>5. ASSUME -q <= j PROVE n <= d * j
  <2>1. d * (-q) <= d * j
    BY <1>2, <1>5, FactorsOrder
  <2> QED BY <1>2, <1>4, <2>1
<1>6. ASSUME n <= d * j PROVE -q <= j
  <2>1. d * (-j) < d * (q + 1)
    BY <1>2, <1>4, <1>6
  <2>2. -j < q + 1
    BY <1>2, <2>1, LargestFactor
  <2> QED BY <1>2, <2>2
<1> QED BY <1>2, <1>3, <1>5, <1>6

-----------------------------------------------------------------------------
(***************************************************************************)
(* The inductive invariant: forecasts are finitely many and one per agent. *)
(***************************************************************************)
AttackCostInv ==
  /\ honest \subseteq Submissions /\ IsFiniteSet(honest)
  /\ \A f, g \in honest : f.agent = g.agent => f = g
  /\ rival \in Rivals
  /\ cluster \in BOOLEAN
  /\ reputation \in Reputations
  /\ joined \in Nat

LEMMA InitAttackCost ==
  ASSUME InitPrices
  PROVE  AttackCostInv
BY FS_EmptySet DEF InitPrices, AttackCostInv

LEMMA SubmitKeeps ==
  ASSUME AttackCostInv, NEW f \in Submissions, Submit(f)
  PROVE  AttackCostInv'
<1> DEFINE others == {g \in honest : g.agent # f.agent}
<1>1. honest' = others \cup {f}
  BY DEF Submit
<1>2. IsFiniteSet(others)
  BY FS_Subset DEF AttackCostInv
<1>3. IsFiniteSet(others \cup {f})
  BY <1>2, FS_AddElement
<1>4. \A g, h \in others \cup {f} : g.agent = h.agent => g = h
  BY DEF AttackCostInv
<1>5. others \cup {f} \subseteq Submissions
  BY DEF AttackCostInv
<1> HIDE DEF others
<1> QED BY <1>1, <1>3, <1>4, <1>5 DEF AttackCostInv, Submit

LEMMA NextAttackCost ==
  ASSUME AttackCostInv, [NextPrices]_prices
  PROVE  AttackCostInv'
<1>1. CASE Join
  BY <1>1 DEF AttackCostInv, Join
<1>2. CASE \E f \in Submissions : Submit(f)
  BY <1>2, SubmitKeeps
<1>3. CASE UNCHANGED prices
  BY <1>3 DEF AttackCostInv, prices
<1> QED BY <1>1, <1>2, <1>3 DEF NextPrices

(***************************************************************************)
(* Whatever is submitted and however many identities join, an agent has    *)
(* one live forecast on the target and the pool is finite.                 *)
(***************************************************************************)
THEOREM AttackCostInvariant == PricesSpec => []AttackCostInv
<1>1. InitPrices => AttackCostInv
  BY InitAttackCost
<1>2. AttackCostInv /\ [NextPrices]_prices => AttackCostInv'
  BY NextAttackCost
<1> QED BY <1>1, <1>2, PTL DEF PricesSpec

-----------------------------------------------------------------------------
(***************************************************************************)
(* The pool of honest forecasts and identities.                            *)
(***************************************************************************)
LEMMA HonestForecast ==
  ASSUME AttackCostInv, NEW f \in honest
  PROVE  /\ f \in Submissions /\ f.probability \in 1..99
         /\ f.reputation \in Nat \ {0} /\ f.stake \in DOMAIN Root
         /\ f.agent \notin Nat /\ f.cluster \notin Nat
BY AttackCostAssumption DEF AttackCostInv, ProbFloor, ProbCeil

LEMMA IdentityFields ==
  ASSUME NEW n \in Nat, NEW share \in BOOLEAN, NEW f \in Identities(n, share)
  PROVE  /\ f.agent \in 1..n /\ f.probability = 99 /\ f.stake = Stake
         /\ f.reputation = reputation /\ f.cluster = IF share THEN 0 ELSE f.agent
BY DEF Identities, ProbCeil

LEMMA CountIdentities ==
  ASSUME NEW n \in Nat, NEW share \in BOOLEAN
  PROVE  /\ IsFiniteSet(Identities(n, share)) /\ Cardinality(Identities(n, share)) = n
         /\ Identities(n, share) = {} <=> n = 0
<1> DEFINE I == Identities(n, share)
           F == [i \in 1..n |->
                   [agent |-> i, probability |-> ProbCeil, stake |-> Stake,
                    reputation |-> reputation, cluster |-> IF share THEN 0 ELSE i]]
<1>1. \A i \in 1..n : F[i] \in I /\ F[i].agent = i
  BY DEF Identities
<1>2. \A f \in I : \E i \in 1..n : F[i] = f
  BY DEF Identities
<1>3. F \in [1..n -> I]
  BY <1>1
<1> HIDE DEF F, I
<1>4. F \in Surjection(1..n, I)
  BY <1>2, <1>3 DEF Surjection
<1>5. F \in Injection(1..n, I)
  BY <1>1, <1>3 DEF Injection, IsInjective
<1>6. IsFiniteSet(1..n) /\ Cardinality(1..n) = n
  BY FS_Interval
<1>7. IsFiniteSet(I) /\ Cardinality(I) = n
  BY <1>4, <1>5, <1>6, FS_Surjection
<1> QED BY <1>7, FS_EmptySet DEF I

LEMMA PoolParts ==
  ASSUME AttackCostInv
  PROVE  /\ IsFiniteSet(Pool) /\ honest \cap Identities(joined, cluster) = {}
         /\ Pool = {} <=> honest = {} /\ joined = 0
<1>1. /\ IsFiniteSet(honest) /\ joined \in Nat /\ cluster \in BOOLEAN
      /\ IsFiniteSet(Identities(joined, cluster))
      /\ Identities(joined, cluster) = {} <=> joined = 0
  BY CountIdentities DEF AttackCostInv
<1>2. \A f \in honest : f \notin Identities(joined, cluster)
  BY <1>1, HonestForecast, IdentityFields
<1> QED BY <1>1, <1>2, FS_Union DEF Pool

LEMMA CountDisjoint ==
  ASSUME NEW S, IsFiniteSet(S), NEW T, IsFiniteSet(T), S \cap T = {}
  PROVE  Cardinality(S \cup T) = Cardinality(S) + Cardinality(T)
<1>1. PICK both : both = S \cap T
  OBVIOUS
<1>2. both = {}
  BY <1>1
<1>3. Cardinality(both) = 0
  BY <1>2, FS_EmptySet
<1>4. Cardinality(S \cup T) = Cardinality(S) + Cardinality(T) - Cardinality(both)
  BY <1>1, FS_Union
<1>5. Cardinality(S) \in Nat /\ Cardinality(T) \in Nat
  BY FS_CardinalityType
<1> QED BY <1>3, <1>4, <1>5

LEMMA CountPool ==
  ASSUME AttackCostInv
  PROVE  /\ Cardinality(honest) \in Nat /\ Cardinality(VotesTrue(honest)) \in Nat
         /\ Cardinality(VotesTrue(honest)) <= Cardinality(honest)
         /\ Cardinality(Pool) = Cardinality(honest) + joined
         /\ Cardinality(VotesTrue(Pool)) = Cardinality(VotesTrue(honest)) + joined
<1> DEFINE I == Identities(joined, cluster)
           V == VotesTrue(honest)
<1>1. /\ IsFiniteSet(honest) /\ IsFiniteSet(I) /\ honest \cap I = {}
      /\ Cardinality(I) = joined /\ joined \in Nat /\ cluster \in BOOLEAN
  BY CountIdentities, PoolParts DEF AttackCostInv
<1>2. V \in SUBSET honest
  BY DEF VotesTrue
<1>3. \A f \in I : f.probability > 50
  BY <1>1, IdentityFields
<1>4. VotesTrue(Pool) = V \cup I
  BY <1>3 DEF VotesTrue, Pool
<1>5. Pool = honest \cup I
  BY DEF Pool
<1> HIDE DEF I, V
<1>6. IsFiniteSet(V) /\ Cardinality(V) <= Cardinality(honest) /\ V \cap I = {}
  BY <1>1, <1>2, FS_Subset
<1>7. /\ Cardinality(honest) \in Nat /\ Cardinality(V) \in Nat
      /\ Cardinality({}) = 0
  BY <1>1, <1>6, FS_CardinalityType, FS_EmptySet
<1>8. Cardinality(honest \cup I) = Cardinality(honest) + joined
  BY <1>1, CountDisjoint
<1>9. Cardinality(V \cup I) = Cardinality(V) + joined
  BY <1>1, <1>6, CountDisjoint
<1> QED BY <1>4, <1>5, <1>6, <1>7, <1>8, <1>9 DEF V

-----------------------------------------------------------------------------
(***************************************************************************)
(* The baselines.  With v true votes among n, j identities are above       *)
(* num / den iff j * (100 * den - num) exceeds n * num - 100 * v * den.    *)
(***************************************************************************)
LEMMA MajorityGap ==
  ASSUME NEW n \in Nat, NEW v \in Nat, NEW j \in Nat, NEW num \in Nat, NEW den \in Nat
  PROVE  100 * (v + j) * den > num * (n + j)
           <=> n * num - 100 * den * v < (100 * den - num) * j
<1>1. 100 * (v + j) * den = 100 * den * v + 100 * den * j
  OBVIOUS
<1>2. num * (n + j) = n * num + num * j
  OBVIOUS
<1>3. (100 * den - num) * j = 100 * den * j - num * j
  OBVIOUS
<1>4. /\ 100 * den * v \in Int /\ 100 * den * j \in Int /\ n * num \in Int
      /\ num * j \in Int
  OBVIOUS
<1> QED BY <1>1, <1>2, <1>3, <1>4

LEMMA MajorityReached ==
  ASSUME AttackCostInv, NEW t, t = rival.majority, ~ Flipped("majority_vote"),
         NEW n, n = Cardinality(honest), NEW v, v = Cardinality(VotesTrue(honest))
  PROVE  Above(MajorityVote(Pool, Prior), t)
           <=> n * t.num - 100 * t.den * v < (100 * t.den - t.num) * joined
<1>1. /\ t.num \in Nat /\ t.den \in Nat \ {0}
      /\ Prior \in 1..99 /\ joined \in Nat
  BY AttackCostAssumption DEF AttackCostInv, ProbFloor, ProbCeil
<1>2. /\ n \in Nat /\ v \in Nat /\ Cardinality(Pool) = n + joined
      /\ Cardinality(VotesTrue(Pool)) = v + joined /\ v <= n
  BY CountPool
<1>3. CASE Pool = {}
  <2>1. honest = {} /\ joined = 0
    BY <1>3, PoolParts
  <2>2. n = 0 /\ v = 0
    BY <1>2, <2>1, FS_EmptySet
  <2>3. ~ Above(MajorityVote(Pool, Prior), t)
    BY <1>3, <2>1 DEF Flipped
  <2> QED BY <1>1, <2>1, <2>2, <2>3
<1>4. CASE Pool # {}
  <2>1. Above(MajorityVote(Pool, Prior), t)
          <=> 100 * (v + joined) * t.den > t.num * (n + joined)
    BY <1>2, <1>4 DEF MajorityVote, Above
  <2> QED BY <1>1, <1>2, <2>1, MajorityGap
<1> QED BY <1>3, <1>4

LEMMA MajorityPrice ==
  ASSUME AttackCostInv
  PROVE  ~ Flipped("majority_vote") =>
           Prices(BaselineAttackCost("majority_vote"),
                  Above(MajorityVote(Pool, Prior), rival.majority))
<1> SUFFICES ASSUME ~ Flipped("majority_vote")
             PROVE  Prices(BaselineAttackCost("majority_vote"),
                           Above(MajorityVote(Pool, Prior), rival.majority))
  OBVIOUS
<1>0. MajorityBar = rival.majority
  BY DEF Flipped, MajorityBar
<1> DEFINE t == rival.majority
           n == Cardinality(honest)
           v == Cardinality(VotesTrue(honest))
<1>1. PICK c : c = 100 * t.den - t.num
  OBVIOUS
<1>2. PICK g : g = n * t.num - 100 * t.den * v
  OBVIOUS
<1>3. /\ t.num \in Nat /\ t.den \in Nat \ {0}
      /\ Prior \in 1..99 /\ joined \in Nat
  BY AttackCostAssumption DEF AttackCostInv, ProbFloor, ProbCeil
<1>4. n \in Nat /\ v \in Nat /\ v <= n /\ (n = 0 => v = 0)
  BY CountPool
<1>5. n = 0 => t.num > 0
  <2>1. n = 0 => honest = {}
    BY FS_EmptySet DEF AttackCostInv
  <2>2. honest = {} => ~ (Prior * t.den > t.num * 1)
    BY DEF Flipped, MajorityVote, Above
  <2>3. Prior * t.den \in Nat \ {0}
    BY <1>3
  <2> QED BY <1>3, <2>1, <2>2, <2>3
<1> DEFINE votes == 100 * t.den * v
           done == IF n > 0 THEN votes > n * t.num ELSE t.num <= 0
<1>6. /\ c \in Int /\ g \in Int /\ votes \in Int /\ n * t.num \in Int
      /\ g = n * t.num - votes
  BY <1>1, <1>2, <1>3, <1>4
<1>7. done <=> g < 0
  <2>1. CASE n = 0
    <3>1. v = 0 /\ 0 * t.num = 0 /\ 100 * t.den * 0 = 0
      BY <1>3, <1>4, <2>1
    <3> HIDE DEF t, n, v
    <3>2. g = 0
      BY <1>2, <2>1, <3>1
    <3>3. ~ done
      BY <1>3, <1>5, <2>1
    <3> QED BY <3>2, <3>3
  <2>2. CASE n > 0
    <3> HIDE DEF votes, t, n, v
    <3> QED BY <1>6, <2>2
  <2>3. n = 0 \/ n > 0
    BY <1>4
  <2> QED BY <2>1, <2>2, <2>3
<1>8. g < 0 => c > 0
  <2>1. ASSUME c <= 0 PROVE g >= 0
    <3>1. 100 * t.den <= t.num /\ 100 * t.den \in Nat
      BY <1>1, <1>3, <2>1
    <3>2. PICK k \in Nat : t.num = 100 * t.den + k
      <4>1. t.num - 100 * t.den \in Nat /\ t.num = 100 * t.den + (t.num - 100 * t.den)
        BY <1>3, <3>1
      <4> QED BY <4>1
    <3>3. n * t.num = 100 * t.den * n + n * k /\ n * k \in Nat
      BY <1>4, <3>1, <3>2, <1>3
    <3>4. 100 * t.den * v <= 100 * t.den * n
      <4>1. 100 * t.den \in Nat \ {0}
        BY <1>3
      <4> QED BY <1>4, <4>1, FactorsOrder
    <3>5. 100 * t.den * v \in Int /\ 100 * t.den * n \in Int
      BY <1>3, <1>4
    <3> QED BY <1>2, <3>3, <3>4, <3>5
  <2> QED BY <1>6, <2>1
<1>9. Above(MajorityVote(Pool, Prior), t) <=> g < c * joined
  BY <1>1, <1>2, MajorityReached
<1>10. MajorityVoteIdentitiesRequired(t) =
         CASE done -> 0
           [] ~done /\ t.num >= 100 * t.den -> Unreachable
           [] OTHER -> Max({1, g \div c + 1})
  BY <1>1, <1>2 DEF MajorityVoteIdentitiesRequired
<1>11. t.num >= 100 * t.den <=> c <= 0
  BY <1>1, <1>3
<1> HIDE DEF done, t, n, v
<1>12. CASE done
  <2>1. BaselineAttackCost("majority_vote") = Cost(0, 0, 0)
    BY <1>0, <1>10, <1>12 DEF BaselineAttackCost, Unreachable, t
  <2>2. g < c * joined
    <3>1. c \in Nat /\ g < 0
      BY <1>6, <1>7, <1>8, <1>12
    <3>2. c * joined \in Nat
      BY <1>3, <3>1
    <3> QED BY <1>6, <3>1, <3>2
  <2> QED BY <1>3, <1>9, <2>1, <2>2 DEF Prices, Cost, t
<1>13. CASE ~done /\ c <= 0
  <2>1. BaselineAttackCost("majority_vote") = Infeasible
    BY <1>0, <1>10, <1>11, <1>13 DEF BaselineAttackCost, Unreachable, t
  <2>2. ~ (g < c * joined)
    <3>1. -c \in Nat /\ g >= 0
      BY <1>6, <1>7, <1>13
    <3>2. (-c) * joined \in Nat /\ c * joined = -((-c) * joined)
      BY <1>3, <1>6, <3>1
    <3> QED BY <1>6, <3>1, <3>2
  <2> QED BY <1>9, <2>1, <2>2 DEF Prices, Infeasible, t
<1>14. CASE ~done /\ c > 0
  <2>1. c \in Nat \ {0} /\ g \in Nat
    BY <1>6, <1>7, <1>14
  <2>2. PICK q : q = g \div c
    OBVIOUS
  <2>3. q \in Nat
    BY <2>1, <2>2
  <2>4. Max({1, q + 1}) = q + 1
    BY <2>3, MaxOfTwo
  <2>5. BaselineAttackCost("majority_vote") = Cost(q + 1, 0, 0)
    BY <1>0, <1>10, <1>11, <1>6, <1>14, <2>2, <2>3, <2>4 DEF BaselineAttackCost, Unreachable, t
  <2>6. q + 1 <= joined <=> g < c * joined
    BY <1>3, <2>1, <2>2, LeastAbove
  <2> QED BY <1>3, <1>9, <2>3, <2>5, <2>6 DEF Prices, Cost, t
<1> QED BY <1>6, <1>12, <1>13, <1>14

LEMMA HighestIs ==
  ASSUME NEW pool, IsFiniteSet(pool), pool # {}, \A f \in pool : f.probability \in 1..99
  PROVE  /\ HighestConfidence(pool, Prior) \in 1..99
         /\ \A f \in pool : HighestConfidence(pool, Prior) >= f.probability
<1> DEFINE S == {f.probability : f \in pool}
<1>1. S \in SUBSET (1..99) /\ S # {}
  OBVIOUS
<1>2. IsFiniteSet(S) /\ \A y \in S : y \in Int
  <2>1. PICK a \in Int, b \in Int : a = 1 /\ b = 99
    OBVIOUS
  <2>2. IsFiniteSet(a..b)
    BY FS_Interval
  <2>3. S \in SUBSET (a..b)
    BY <1>1, <2>1
  <2> HIDE DEF S
  <2>4. IsFiniteSet(S)
    BY <2>2, <2>3, FS_Subset
  <2> QED BY <1>1, <2>4
<1>3. Max(S) \in S /\ \A y \in S : Max(S) >= y
  <2> HIDE DEF S
  <2> QED BY <1>1, <1>2, MaxIs
<1>4. HighestConfidence(pool, Prior) = Max(S)
  BY DEF HighestConfidence
<1> QED BY <1>1, <1>3, <1>4

LEMMA HighestPrice ==
  ASSUME AttackCostInv
  PROVE  ~ Flipped("highest_confidence") =>
           Prices(BaselineAttackCost("highest_confidence"),
                  HighestConfidence(Pool, Prior) > rival.confidence)
<1> SUFFICES ASSUME ~ Flipped("highest_confidence")
             PROVE  Prices(BaselineAttackCost("highest_confidence"),
                           HighestConfidence(Pool, Prior) > rival.confidence)
  OBVIOUS
<1> DEFINE t == rival.confidence
           now == HighestConfidence(honest, Prior)
           then == HighestConfidence(Pool, Prior)
<1>1. /\ t \in 0..100 /\ joined \in Nat /\ cluster \in BOOLEAN /\ Prior \in 1..99
      /\ IsFiniteSet(honest) /\ IsFiniteSet(Pool)
  BY AttackCostAssumption, PoolParts DEF AttackCostInv, ProbFloor, ProbCeil
<1>2. now \in 1..99
  <2>1. CASE honest = {}
    BY <1>1, <2>1 DEF HighestConfidence
  <2>2. CASE honest # {}
    BY <1>1, <2>2, HonestForecast, HighestIs
  <2> QED BY <2>1, <2>2
<1>0. ConfidenceBar = t /\ now <= t
  <2>1. now \in Int /\ t \in Int /\ ~ (now > t)
    BY <1>1, <1>2 DEF Flipped
  <2> HIDE DEF now, t
  <2>2. Max({now, t}) = t
    BY <2>1, MaxOfTwo
  <2> QED BY <2>1, <2>2 DEF ConfidenceBar, now, t
<1>3. CASE joined = 0
  <2>1. Pool = honest
    BY <1>1, <1>3, CountIdentities DEF Pool
  <2>2. BaselineAttackCost("highest_confidence")
          \in {Infeasible, Cost(IF now > t THEN 0 ELSE 1, 0, 0)}
        /\ (now > t => BaselineAttackCost("highest_confidence") = Cost(0, 0, 0))
    <3> HIDE DEF now, t
    <3> QED BY <1>0, <1>1, <1>2
        DEF BaselineAttackCost, HighestConfidenceIdentitiesRequired, Unreachable, now, t
  <2> QED BY <1>1, <1>2, <1>3, <2>1, <2>2 DEF Prices, Cost, Infeasible
<1>4. CASE joined > 0
  <2>1. PICK f \in Identities(joined, cluster) : TRUE
    BY <1>1, <1>4, CountIdentities
  <2>2. f \in Pool /\ f.probability = 99
    BY <1>1, IdentityFields DEF Pool
  <2>3. \A g \in Pool : g.probability \in 1..99
    BY <1>1, HonestForecast, IdentityFields DEF Pool
  <2>4. then = 99
    BY <1>1, <2>2, <2>3, HighestIs
  <2>5. BaselineAttackCost("highest_confidence") =
          IF now > t THEN Cost(0, 0, 0)
          ELSE IF t >= 99 THEN Infeasible ELSE Cost(1, 0, 0)
    <3> HIDE DEF now, t
    <3>1. now > t => now > t /\ ~ (now <= t)
      BY <1>1, <1>2
    <3>2. ~ (now > t) => now <= t
      BY <1>1, <1>2
    <3>3. HighestConfidenceIdentitiesRequired(t) =
            IF now > t THEN 0 ELSE IF t >= 99 THEN Unreachable ELSE 1
      BY <3>1, <3>2 DEF HighestConfidenceIdentitiesRequired, now, ProbCeil
    <3> QED BY <1>0, <3>3 DEF BaselineAttackCost, Unreachable, t
  <2> QED BY <1>1, <1>2, <1>4, <2>4, <2>5 DEF Prices, Cost, Infeasible
<1> QED BY <1>1, <1>3, <1>4

(***************************************************************************)
(* BaselinePricesAreLeast: for any forecasts, rivals and number of         *)
(* identities, as long as the honest forecasts alone do not put the target *)
(* strictly above the others, baseline_attack_cost counts exactly those it *)
(* takes to be there, by majority vote and by highest confidence.  Once    *)
(* they do, the count is wrong (FlippedIsFree).                            *)
(***************************************************************************)
THEOREM BaselinePricesHold == PricesSpec => []BaselinePricesAreLeast
<1>1. AttackCostInv => BaselinePricesAreLeast
  BY MajorityPrice, HighestPrice DEF BaselinePricesAreLeast
<1> QED BY <1>1, AttackCostInvariant, PTL

-----------------------------------------------------------------------------
(***************************************************************************)
(* The market.  Gap is how far the honest forecasts are below a bar, times *)
(* their weight, and Push how far one identity lifts them.                 *)
(***************************************************************************)
Gap(t) == t.num * Honest.weight - t.den * Honest.moment
Push(t) == Unit(reputation, Stake) * (ProbCeil * t.den - t.num)
Lift(f, size, t) == InfluenceWeight(f, size) * (f.probability * t.den - t.num)

LEMMA HonestClusters ==
  ASSUME AttackCostInv, NEW f \in honest
  PROVE  ClusterSizes(honest)[f] \in 1..MaxSharing
<1> DEFINE citing == {g \in honest : g.cluster = f.cluster}
           all == {g \in Submissions : g.cluster = f.cluster}
<1>1. IsFiniteSet(all) /\ Cardinality(all) <= MaxSharing
  BY AttackCostAssumption, HonestForecast
<1>2. citing \in SUBSET all
  BY DEF AttackCostInv
<1>3. f \in citing
  OBVIOUS
<1>4. ClusterSizes(honest)[f] = Cardinality(citing)
  BY DEF ClusterSizes
<1> HIDE DEF citing, all
<1>5. /\ IsFiniteSet(citing) /\ Cardinality(citing) <= Cardinality(all)
      /\ Cardinality(citing) \in Nat /\ Cardinality(all) \in Nat
  BY <1>1, <1>2, FS_Subset, FS_CardinalityType
<1>6. Cardinality(citing) # 0
  BY <1>3, <1>5, FS_EmptySet
<1> QED BY <1>1, <1>4, <1>5, <1>6, MarketAssumption

(***************************************************************************)
(* Identities cite no evidence of the honest forecasts, and those that do  *)
(* not share a cluster are alone on theirs.                                *)
(***************************************************************************)
LEMMA PoolClusters ==
  ASSUME AttackCostInv
  PROVE  /\ \A f \in honest : ClusterSizes(Pool)[f] = ClusterSizes(honest)[f]
         /\ ~cluster => \A f \in Identities(joined, cluster) : ClusterSizes(Pool)[f] = 1
<1> DEFINE I == Identities(joined, cluster)
<1>1. joined \in Nat /\ cluster \in BOOLEAN /\ Pool = honest \cup I
  BY DEF AttackCostInv, Pool
<1>2. \A h \in I : h.agent \in 1..joined /\ h.cluster = IF cluster THEN 0 ELSE h.agent
  BY <1>1, IdentityFields
<1>3. \A h \in I : h.cluster \in Nat
  BY <1>1, <1>2
<1>4. \A h \in honest : h.cluster \notin Nat
  BY HonestForecast
<1>5. ASSUME NEW f \in honest
      PROVE  ClusterSizes(Pool)[f] = ClusterSizes(honest)[f]
  <2> HIDE DEF I
  <2>1. {g \in Pool : g.cluster = f.cluster} = {g \in honest : g.cluster = f.cluster}
    BY <1>1, <1>3, <1>4
  <2> QED BY <1>1, <2>1 DEF ClusterSizes
<1>6. ASSUME ~cluster, NEW f \in I
      PROVE  ClusterSizes(Pool)[f] = 1
  <2>1. \A h \in I : h = [agent |-> h.agent, probability |-> ProbCeil, stake |-> Stake,
                          reputation |-> reputation, cluster |-> h.cluster]
    BY DEF Identities
  <2> HIDE DEF I
  <2>2. ASSUME NEW g \in Pool, g.cluster = f.cluster
        PROVE  g = f
    <3>1. g \in I
      BY <1>1, <1>3, <1>4, <1>6, <2>2
    <3>2. g.agent = f.agent
      BY <1>2, <1>6, <2>2, <3>1
    <3> QED BY <1>6, <2>1, <2>2, <3>1, <3>2
  <2>3. {g \in Pool : g.cluster = f.cluster} = {f}
    BY <1>1, <1>6, <2>2
  <2>4. Cardinality({f}) = 1
    BY FS_Singleton
  <2>5. f \in Pool
    BY <1>1, <1>6
  <2> QED BY <2>3, <2>4, <2>5 DEF ClusterSizes
<1> QED BY <1>5, <1>6

LEMMA HonestWeight ==
  ASSUME AttackCostInv, NEW f \in honest
  PROVE  HonestInfluence(f) \in Nat \ {0}
<1>1. PICK a \in Nat \ {0} : a = f.reputation
  BY HonestForecast
<1>2. PICK b \in Nat \ {0} : b = Root[f.stake]
  BY HonestForecast, RootOf
<1>3. PICK c \in Nat \ {0} : c = Independence[ClusterSizes(honest)[f]]
  BY HonestClusters, IndependenceOf
<1>4. a * b \in Nat \ {0}
  OBVIOUS
<1>5. (a * b) * c \in Nat \ {0}
  BY <1>4
<1> QED BY <1>1, <1>2, <1>3, <1>5 DEF HonestInfluence, InfluenceWeight

LEMMA HonestSums ==
  ASSUME AttackCostInv
  PROVE  /\ Honest.weight \in Nat /\ Honest.moment \in Nat
         /\ honest = {} => Honest.weight = 0 /\ Honest.moment = 0
         /\ honest # {} => Honest.weight > 0
         /\ Honest.moment <= 99 * Honest.weight
<1> DEFINE w == [f \in honest |-> HonestInfluence(f)]
           m == [f \in honest |-> HonestInfluence(f) * f.probability]
           h == [f \in honest |-> 99 * w[f] - 1 * m[f]]
           W == SumFunctionOnSet(w, honest)
           M == SumFunctionOnSet(m, honest)
<1>1. Honest.weight = W /\ Honest.moment = M
  BY DEF Honest, SumFunction
<1>2. IsFiniteSet(honest)
  BY DEF AttackCostInv
<1>3. ASSUME NEW f \in honest
      PROVE  w[f] \in Nat \ {0} /\ m[f] \in Nat /\ h[f] \in Nat
  <2>1. PICK a \in Nat \ {0} : a = HonestInfluence(f)
    BY HonestWeight
  <2>2. PICK p \in 1..99 : p = f.probability
    BY HonestForecast
  <2>3. a * p \in Nat /\ 99 * a - 1 * (a * p) = a * (99 - p)
    OBVIOUS
  <2>4. a * (99 - p) \in Nat
    <3>1. 99 - p \in Nat
      OBVIOUS
    <3> QED BY <3>1
  <2>5. w[f] = a /\ m[f] = a * p /\ h[f] = a * (99 - p)
    BY <2>1, <2>2, <2>3
  <2> QED BY <2>3, <2>4, <2>5
<1>4. \A f \in honest : w[f] \in Int /\ m[f] \in Int /\ h[f] = 99 * w[f] - 1 * m[f]
  BY <1>3
<1> HIDE DEF w, m, h
<1>5. W \in Nat /\ (honest # {} => W > 0) /\ M \in Nat
      /\ SumFunctionOnSet(h, honest) \in Nat
  BY <1>2, <1>3, SumPositive, SumNat
<1>6. SumFunctionOnSet(h, honest) = 99 * W - 1 * M
  BY <1>2, <1>4, SumCombination
<1>7. honest = {} => W = 0 /\ M = 0
  BY SumEmpty
<1> HIDE DEF W, M
<1>8. M <= 99 * W
  BY <1>5, <1>6
<1> QED BY <1>1, <1>5, <1>7, <1>8

LEMMA PullIs ==
  ASSUME NEW t, NEW pool, IsFiniteSet(pool), NEW sizes,
         NEW f, \A x \in pool : f[x] = Lift(x, sizes[x], t)
  PROVE  Pull(pool, sizes, t) = SumFunctionOnSet(f, pool)
<1> DEFINE g == [x \in pool |->
                   InfluenceWeight(x, sizes[x]) * (x.probability * t.den - t.num)]
<1>1. Pull(pool, sizes, t) = SumFunctionOnSet(g, pool)
  BY DEF Pull, SumFunction
<1>2. \A x \in pool : g[x] = f[x]
  BY DEF Lift
<1> HIDE DEF g
<1> QED BY <1>1, <1>2, SumSame

LEMMA PullNone ==
  ASSUME NEW t, NEW sizes
  PROVE  Pull({}, sizes, t) = 0
<1> DEFINE f == [x \in {} |-> Lift(x, sizes[x], t)]
<1>1. Pull({}, sizes, t) = SumFunctionOnSet(f, {})
  BY PullIs, FS_EmptySet
<1> QED BY <1>1, SumEmpty

LEMMA PullHonest ==
  ASSUME AttackCostInv, NEW t, t.num \in Int, t.den \in Int,
         NEW sizes, \A f \in honest : sizes[f] = ClusterSizes(honest)[f]
  PROVE  Pull(honest, sizes, t) = -Gap(t)
<1> DEFINE w == [f \in honest |-> HonestInfluence(f)]
           m == [f \in honest |-> HonestInfluence(f) * f.probability]
           h == [f \in honest |-> Lift(f, sizes[f], t)]
           W == SumFunctionOnSet(w, honest)
           M == SumFunctionOnSet(m, honest)
<1>1. Honest.weight = W /\ Honest.moment = M
  BY DEF Honest, SumFunction
<1>2. IsFiniteSet(honest)
  BY DEF AttackCostInv
<1>3. ASSUME NEW f \in honest
      PROVE  /\ w[f] \in Int /\ m[f] \in Int
             /\ h[f] = t.den * m[f] - t.num * w[f]
  <2>1. PICK a \in Nat : a = HonestInfluence(f)
    BY HonestWeight
  <2>2. PICK p \in Nat : p = f.probability
    BY HonestForecast
  <2>3. PICK d \in Int : d = t.den
    OBVIOUS
  <2>4. PICK n \in Int : n = t.num
    OBVIOUS
  <2>5. a * p \in Int /\ a * (p * d - n) = d * (a * p) - n * a
    OBVIOUS
  <2>6. InfluenceWeight(f, sizes[f]) = a
    BY <2>1 DEF HonestInfluence
  <2> QED BY <2>1, <2>2, <2>3, <2>4, <2>5, <2>6 DEF Lift
<1> HIDE DEF w, m
<1>4. Pull(honest, sizes, t) = SumFunctionOnSet(h, honest)
  BY <1>2, PullIs
<1> HIDE DEF h
<1>5. SumFunctionOnSet(h, honest) = t.den * M - t.num * W
  BY <1>2, <1>3, SumCombination
<1>6. W \in Int /\ M \in Int
  BY <1>1, HonestSums
<1> HIDE DEF W, M
<1>7. t.den * M - t.num * W = -(t.num * W - t.den * M)
  BY <1>6
<1> QED BY <1>1, <1>4, <1>5, <1>7 DEF Gap

LEMMA PushType ==
  ASSUME AttackCostInv, NEW t, t.num \in Int, t.den \in Int
  PROVE  /\ Unit(reputation, Stake) \in Nat \ {0}
         /\ Push(t) = Unit(reputation, Stake) * (99 * t.den - t.num)
         /\ Push(t) \in Int
<1>1. PICK u \in Nat \ {0} : u = Unit(reputation, Stake)
  BY AttackCostAssumption, UnitType DEF AttackCostInv
<1>2. PICK d \in Int : d = 99 * t.den - t.num
  OBVIOUS
<1>3. u * d \in Int
  OBVIOUS
<1>4. Push(t) = u * d
  BY <1>1, <1>2 DEF Push, ProbCeil
<1> QED BY <1>1, <1>2, <1>3, <1>4

LEMMA IdentityLift ==
  ASSUME AttackCostInv, NEW t, NEW f \in Identities(joined, cluster)
  PROVE  Lift(f, 1, t) = Push(t)
<1>1. joined \in Nat /\ cluster \in BOOLEAN
  BY DEF AttackCostInv
<1>2. f.probability = 99 /\ f.stake = Stake /\ f.reputation = reputation
  BY <1>1, IdentityFields
<1> QED BY <1>2 DEF Lift, Push, Unit, InfluenceWeight, ProbCeil

LEMMA PullIdentities ==
  ASSUME AttackCostInv, NEW t, t.num \in Int, t.den \in Int,
         NEW sizes, \A f \in Identities(joined, cluster) : sizes[f] = 1
  PROVE  Pull(Identities(joined, cluster), sizes, t) = joined * Push(t)
<1> DEFINE I == Identities(joined, cluster)
           h == [f \in I |-> Lift(f, sizes[f], t)]
<1>1. /\ IsFiniteSet(I) /\ Cardinality(I) = joined /\ joined \in Nat
      /\ cluster \in BOOLEAN
  BY CountIdentities DEF AttackCostInv
<1>2. \A f \in I : h[f] = Push(t) /\ h[f] = Lift(f, sizes[f], t)
  BY IdentityLift
<1> HIDE DEF I, h
<1>3. Pull(I, sizes, t) = SumFunctionOnSet(h, I)
  BY <1>1, <1>2, PullIs
<1>4. SumFunctionOnSet(h, I) = Cardinality(I) * Push(t)
  BY <1>1, <1>2, PushType, SumConstant
<1> QED BY <1>1, <1>3, <1>4 DEF I

LEMMA PullPool ==
  ASSUME AttackCostInv, ~cluster, NEW t, t.num \in Int, t.den \in Int
  PROVE  Pull(Pool, ClusterSizes(Pool), t) = joined * Push(t) - Gap(t)
<1> DEFINE I == Identities(joined, cluster)
           sizes == ClusterSizes(Pool)
           h == [f \in Pool |-> Lift(f, sizes[f], t)]
<1>1. /\ IsFiniteSet(I) /\ IsFiniteSet(honest) /\ IsFiniteSet(Pool)
      /\ honest \cap I = {} /\ Pool = honest \cup I
      /\ joined \in Nat /\ cluster \in BOOLEAN
  BY CountIdentities, PoolParts DEF AttackCostInv, Pool
<1>2. /\ \A f \in honest : sizes[f] = ClusterSizes(honest)[f]
      /\ \A f \in I : sizes[f] = 1
  BY PoolClusters
<1>3. ASSUME NEW f \in Pool
      PROVE  Lift(f, sizes[f], t) \in Int
  <2>1. CASE f \in honest
    <3>1. PICK a \in Int : a = HonestInfluence(f)
      BY <2>1, HonestWeight
    <3>2. PICK p \in Int : p = f.probability
      BY <2>1, HonestForecast
    <3>3. PICK d \in Int, n \in Int : d = t.den /\ n = t.num
      OBVIOUS
    <3>4. a * (p * d - n) \in Int
      OBVIOUS
    <3>5. InfluenceWeight(f, sizes[f]) = a
      BY <1>2, <2>1, <3>1 DEF HonestInfluence
    <3> QED BY <3>2, <3>3, <3>4, <3>5 DEF Lift
  <2>2. CASE f \in I
    <3>1. Lift(f, sizes[f], t) = Push(t)
      BY <1>2, <2>2, IdentityLift
    <3> QED BY <3>1, PushType
  <2> QED BY <1>1, <2>1, <2>2
<1>4. \A f \in honest \cup I : h[f] \in Int /\ h[f] = Lift(f, sizes[f], t)
  BY <1>1, <1>3
<1> HIDE DEF I, h, sizes
<1>5. /\ Pull(honest, sizes, t) = SumFunctionOnSet(h, honest)
      /\ Pull(I, sizes, t) = SumFunctionOnSet(h, I)
      /\ Pull(honest \cup I, sizes, t) = SumFunctionOnSet(h, honest \cup I)
  BY <1>1, <1>4, PullIs
<1>6. SumFunctionOnSet(h, honest \cup I)
        = SumFunctionOnSet(h, honest) + SumFunctionOnSet(h, I)
  BY <1>1, <1>4, SumUnion
<1>7. Pull(honest, sizes, t) = -Gap(t) /\ Pull(I, sizes, t) = joined * Push(t)
  BY <1>2, PullHonest, PullIdentities DEF I
<1>8. Gap(t) \in Int /\ joined * Push(t) \in Int
  <2>1. Honest.weight \in Int /\ Honest.moment \in Int /\ Push(t) \in Int
    BY HonestSums, PushType
  <2>2. Gap(t) \in Int
    BY <2>1 DEF Gap
  <2> QED BY <1>1, <2>1, <2>2
<1> QED BY <1>1, <1>5, <1>6, <1>7, <1>8 DEF sizes

LEMMA Squares ==
  ASSUME NEW x \in Int
  PROVE  /\ x * x \in Nat /\ (-x) * (-x) = x * x
         /\ SignedSquare(x) \in Int
         /\ x >= 0 => SignedSquare(x) = x * x
         /\ x <= 0 => SignedSquare(x) = -(x * x)
         /\ SignedSquare(x) >= 0 <=> x >= 0
<1>1. x * x \in Int /\ (-x) * (-x) = x * x
  OBVIOUS
<1>2. CASE x = 0
  <2>1. x * x = 0 /\ SignedSquare(x) = 0
    BY <1>2 DEF SignedSquare
  <2> QED BY <1>1, <1>2, <2>1
<1>3. CASE x > 0
  <2>1. x * x > 0
    BY <1>3
  <2> QED BY <1>1, <1>3, <2>1 DEF SignedSquare
<1>4. CASE x < 0
  <2>1. -x \in Nat \ {0}
    BY <1>4
  <2>2. (-x) * (-x) > 0
    BY <2>1
  <2>3. x * x > 0
    BY <1>1, <2>2
  <2> QED BY <1>1, <1>4, <2>3 DEF SignedSquare
<1> QED BY <1>2, <1>3, <1>4

(***************************************************************************)
(* aggregate_probability at least the bar, in terms of Gap and Push.       *)
(***************************************************************************)
LEMMA MarketReaches ==
  ASSUME AttackCostInv, NEW t, t.num \in Int, t.den \in Int,
         NEW g, g = Gap(t), NEW p, p = Push(t)
  PROVE  /\ g \in Int /\ p \in Int
         /\ honest = {} /\ joined = 0 =>
              (Reaches(Pool, Crowd, Prior, t) <=> Prior * t.den >= t.num)
         /\ ~ (honest = {} /\ joined = 0) /\ ~ (cluster /\ joined > 0) =>
              (Reaches(Pool, Crowd, Prior, t) <=> g <= joined * p)
         /\ cluster /\ joined > 0 =>
              (Reaches(Pool, Crowd, Prior, t)
                 <=> SignedSquare(-g) * joined + SignedSquare(joined * p) >= 0)
<1> DEFINE I == Identities(joined, cluster)
           sizes == ClusterSizes(Pool)
           ones == [f \in Crowd |-> 1]
<1>1. /\ joined \in Nat /\ Honest.weight \in Int /\ Honest.moment \in Int /\ p \in Int
      /\ Pool = {} <=> honest = {} /\ joined = 0
      /\ cluster \in BOOLEAN
  BY HonestSums, PushType, PoolParts DEF AttackCostInv
<1>2. g \in Int /\ joined * p \in Int
  BY <1>1 DEF Gap
<1>3. /\ Pool = honest \cup I /\ honest \cap I = {}
      /\ Cardinality(I) = joined /\ (I = {} <=> joined = 0)
  BY <1>1, PoolParts, CountIdentities DEF Pool
<1>4. ASSUME honest = {} /\ joined = 0
      PROVE  Reaches(Pool, Crowd, Prior, t) <=> Prior * t.den >= t.num
  BY <1>1, <1>4 DEF Reaches
<1>5. ASSUME Pool # {}, ~ (cluster /\ joined > 0)
      PROVE  Reaches(Pool, Crowd, Prior, t) <=> g <= joined * p
  <2>1. Crowd = {}
    BY <1>1, <1>3, <1>5 DEF Crowd
  <2>2. Pool \ {} = Pool
    OBVIOUS
  <2>3. Reaches(Pool, Crowd, Prior, t)
          <=> Discounted(Pull(Pool, sizes, t), Pull({}, ones, t), 1)
    BY <1>5, <2>1, <2>2 DEF Reaches
  <2>4. Pull(Pool, sizes, t) = joined * p - g
    <3>1. CASE ~cluster
      BY <3>1, PullPool
    <3>2. CASE joined = 0
      <4>1. Pool = honest
        BY <1>3, <3>2
      <4>2. Pull(honest, sizes, t) = -g
        BY PoolClusters, PullHonest
      <4>3. joined * p - g = -g
        BY <1>1, <1>2, <3>2
      <4> QED BY <4>1, <4>2, <4>3
    <3> QED BY <1>1, <1>5, <3>1, <3>2
  <2>5. Pull({}, ones, t) = 0
    BY PullNone
  <2>6. PICK x \in Int : x = joined * p - g
    BY <1>2
  <2>7. Discounted(x, 0, 1) <=> SignedSquare(x) >= 0
    <3>1. SignedSquare(x) \in Int /\ SignedSquare(0) = 0
      BY Squares
    <3> QED BY <3>1 DEF Discounted
  <2>8. SignedSquare(x) >= 0 <=> x >= 0
    BY Squares
  <2> QED BY <1>2, <2>3, <2>4, <2>5, <2>6, <2>7, <2>8
<1>6. ASSUME cluster, joined > 0
      PROVE  Reaches(Pool, Crowd, Prior, t)
               <=> SignedSquare(-g) * joined + SignedSquare(joined * p) >= 0
  <2>1. Crowd = I /\ I # {} /\ Pool \ I = honest /\ Pool # {}
    <3>1. Crowd = I
      BY <1>6 DEF Crowd
    <3> HIDE DEF I
    <3> QED BY <1>1, <1>3, <1>6, <3>1
  <2>2. Pull(honest, sizes, t) = -g
    BY PoolClusters, PullHonest
  <2>3. Pull(I, ones, t) = joined * p
    <3>1. \A f \in I : ones[f] = 1
      BY <2>1
    <3> HIDE DEF ones
    <3> QED BY <3>1, PullIdentities
  <2>4. Reaches(Pool, Crowd, Prior, t)
          <=> Discounted(Pull(honest, sizes, t), Pull(I, ones, t), joined)
    <3>1. Cardinality(Crowd) = joined
      BY <1>3, <2>1
    <3> HIDE DEF I
    <3> QED BY <2>1, <3>1 DEF Reaches
  <2> QED BY <2>2, <2>3, <2>4 DEF Discounted
<1> QED BY <1>1, <1>2, <1>4, <1>5, <1>6

(***************************************************************************)
(* The closed forms, in terms of Gap and Push.                             *)
(***************************************************************************)
LEMMA MarketBarFacts ==
  ASSUME AttackCostInv
  PROVE  /\ MarketBar.num \in Nat \ {0} /\ MarketBar.den \in Nat \ {0}
         /\ Prior \in 1..99 /\ joined \in Nat
BY AttackCostAssumption
   DEF AttackCostInv, MarketBar, RequiredProbability, ProbFloor, ProbCeil

LEMMA LeadingIs ==
  ASSUME AttackCostInv, NEW t, t.num \in Int, t.den \in Int, honest # {}
  PROVE  /\ AlreadyLeading(t) <=> Gap(t) <= 0
         /\ Honest.weight # 0
<1>1. Honest.weight \in Int /\ Honest.moment \in Int /\ Honest.weight > 0
  BY HonestSums
<1>2. PICK a \in Int : a = Honest.moment * t.den
  BY <1>1
<1>3. PICK b \in Int : b = t.num * Honest.weight
  BY <1>1
<1>4. t.den * Honest.moment = a
  BY <1>1, <1>2
<1> QED BY <1>1, <1>2, <1>3, <1>4 DEF AlreadyLeading, Gap

LEMMA PriceWithoutGap ==
  ASSUME NEW t, AlreadyLeading(t) \/ Honest.weight = 0, NEW r, NEW stake, NEW share
  PROVE  /\ StakerouteAttackCost(t, r, stake, share).feasible
         /\ StakerouteAttackCost(t, r, stake, share).identities =
              IF AlreadyLeading(t) THEN 0 ELSE 1
<1>1. RequiredAdversaryWeight(t) = [num |-> 0, den |-> 1]
  BY DEF RequiredAdversaryWeight
<1>2. SybilIdentitiesRequired(RequiredAdversaryWeight(t), r, stake, share) = 0
  BY <1>1 DEF SybilIdentitiesRequired
<1> QED BY <1>1, <1>2 DEF StakerouteAttackCost, Cost

LEMMA PriceOfGap ==
  ASSUME NEW t, t.num \in Int, t.den \in Int, ~ AlreadyLeading(t), Honest.weight # 0,
         NEW g \in Nat \ {0}, g = Gap(t), NEW r, NEW stake, NEW share,
         NEW d \in Int, d = 99 * t.den - t.num
  PROVE  /\ RequiredAdversaryWeight(t) = [num |-> g, den |-> d]
         /\ d <= 0 => ~ StakerouteAttackCost(t, r, stake, share).feasible
         /\ d > 0 => StakerouteAttackCost(t, r, stake, share).feasible
<1>1. RequiredAdversaryWeight(t) = [num |-> g, den |-> d]
  BY DEF RequiredAdversaryWeight, Gap, ProbCeil
<1> QED BY <1>1 DEF StakerouteAttackCost, Cost, Infeasible

LEMMA CeilDivPositive ==
  ASSUME NEW n \in Nat \ {0}, NEW d \in Nat \ {0}
  PROVE  CeilDiv(n, d) \in Nat \ {0}
<1>1. PICK z \in Int : z = 0
  OBVIOUS
<1>2. CeilDiv(n, d) \in Int /\ (CeilDiv(n, d) <= z <=> n <= d * z)
  BY LeastReaching
<1>3. d * z = 0
  BY <1>1
<1> QED BY <1>1, <1>2, <1>3

LEMMA CountForGap ==
  ASSUME NEW t, t.num \in Int, t.den \in Int, ~ AlreadyLeading(t), Honest.weight # 0,
         NEW g \in Nat \ {0}, g = Gap(t), NEW r \in Nat \ {0}, NEW stake \in DOMAIN Root,
         NEW share \in BOOLEAN, NEW d \in Nat \ {0}, d = 99 * t.den - t.num,
         NEW p, p = Unit(r, stake) * d
  PROVE  /\ p \in Nat \ {0}
         /\ StakerouteAttackCost(t, r, stake, share).identities =
              IF share THEN CeilDiv(g * g, p * p) ELSE CeilDiv(g, p)
         /\ StakerouteAttackCost(t, r, stake, share).identities \in Nat \ {0}
<1>1. PICK s \in Nat \ {0} : s = Root[stake]
  BY RootOf
<1>2. PICK i \in Nat \ {0} : i = Independence[1]
  BY Undiscounted
<1>3. p \in Nat \ {0} /\ d * r * Root[stake] * Independence[1] = p
  <2>1. PICK u \in Nat \ {0} : u = Unit(r, stake)
    BY UnitType
  <2>2. u * d \in Nat \ {0}
    OBVIOUS
  <2>3. d * r * s * i = r * s * i * d
    OBVIOUS
  <2> QED BY <1>1, <1>2, <2>1, <2>2, <2>3 DEF Unit
<1>4. p * p \in Nat \ {0} /\ g * g \in Nat \ {0}
  BY <1>3
<1>5. RequiredAdversaryWeight(t) = [num |-> g, den |-> d]
  BY PriceOfGap
<1> DEFINE count == IF share THEN CeilDiv(g * g, p * p) ELSE CeilDiv(g, p)
<1>6. SybilIdentitiesRequired(RequiredAdversaryWeight(t), r, stake, share) = count
  BY <1>3, <1>5 DEF SybilIdentitiesRequired
<1>7. count \in Int /\ count > 0
  <2>1. PICK a \in Nat \ {0} : a = g * g
    BY <1>4
  <2>2. PICK b \in Nat \ {0} : b = p * p
    BY <1>4
  <2>3. PICK c \in Nat \ {0} : c = p
    BY <1>3
  <2>4. CeilDiv(a, b) \in Nat \ {0} /\ CeilDiv(g, c) \in Nat \ {0}
    BY CeilDivPositive, Zenon
  <2>5. count \in {CeilDiv(a, b), CeilDiv(g, c)}
    BY <2>1, <2>2, <2>3
  <2> HIDE DEF count
  <2> QED BY <2>4, <2>5
<1> HIDE DEF count
<1>8. StakerouteAttackCost(t, r, stake, share).identities = count
  BY <1>5, <1>6, <1>7 DEF StakerouteAttackCost, Cost
<1> QED BY <1>3, <1>7, <1>8 DEF count

-----------------------------------------------------------------------------
(***************************************************************************)
(* Every case of the market: nobody to overcome, nothing to overcome, a    *)
(* bar out of reach, and the closed forms.                                 *)
(***************************************************************************)
LEMMA PriceAgainstNobody ==
  ASSUME AttackCostInv, honest = {}, MarketBar.num <= ProbCeil * MarketBar.den
  PROVE  Prices(StakerouteAttackCost(MarketBar, reputation, Stake, cluster),
                Reaches(Pool, Crowd, Prior, MarketBar))
<1> DEFINE t == MarketBar
<1>1. /\ t.num \in Nat \ {0} /\ t.den \in Nat \ {0} /\ Prior \in 1..99 /\ joined \in Nat
  BY MarketBarFacts
<1>2. Honest.weight = 0 /\ Honest.moment = 0
  BY HonestSums
<1>3. /\ StakerouteAttackCost(t, reputation, Stake, cluster).feasible
      /\ StakerouteAttackCost(t, reputation, Stake, cluster).identities =
           IF AlreadyLeading(t) THEN 0 ELSE 1
  BY <1>2, PriceWithoutGap
<1>4. AlreadyLeading(t) <=> Prior * t.den >= t.num
  BY DEF AlreadyLeading
<1>5. PICK g : g = Gap(t)
  OBVIOUS
<1>6. PICK p : p = Push(t)
  OBVIOUS
<1>7. g = 0
  BY <1>1, <1>2, <1>5 DEF Gap
<1>8. PICK u \in Nat \ {0} : u = Unit(reputation, Stake)
  BY <1>1, PushType
<1>9. PICK d \in Nat : d = 99 * t.den - t.num
  <2>1. 99 * t.den - t.num \in Nat
    BY <1>1 DEF ProbCeil
  <2> QED BY <2>1
<1>10. p = u * d
  BY <1>1, <1>6, <1>8, <1>9, PushType
<1>11. p \in Nat
  BY <1>8, <1>9, <1>10
<1>12. joined * p \in Nat
  BY <1>1, <1>11
<1> HIDE DEF t
<1>13. joined > 0 => Reaches(Pool, Crowd, Prior, t)
  <2> SUFFICES ASSUME joined > 0 PROVE Reaches(Pool, Crowd, Prior, t)
    OBVIOUS
  <2>1. CASE ~ (cluster /\ joined > 0)
    <3>1. Reaches(Pool, Crowd, Prior, t) <=> g <= joined * p
      BY <1>1, <1>5, <1>6, <2>1, MarketReaches
    <3> QED BY <1>7, <1>12, <3>1
  <2>2. CASE cluster /\ joined > 0
    <3>1. Reaches(Pool, Crowd, Prior, t)
            <=> SignedSquare(-g) * joined + SignedSquare(joined * p) >= 0
      BY <1>1, <1>5, <1>6, <2>2, MarketReaches
    <3>2. SignedSquare(-g) = 0
      BY <1>7 DEF SignedSquare
    <3>3. SignedSquare(joined * p) >= 0 /\ SignedSquare(joined * p) \in Int
      BY <1>12, Squares
    <3> QED BY <1>1, <3>1, <3>2, <3>3
  <2> QED BY <2>1, <2>2
<1>14. joined = 0 => (Reaches(Pool, Crowd, Prior, t) <=> AlreadyLeading(t))
  BY <1>1, <1>4, <1>5, <1>6, MarketReaches
<1> QED BY <1>1, <1>3, <1>13, <1>14 DEF Prices, t

LEMMA PriceOfLead ==
  ASSUME AttackCostInv, honest # {}, Gap(MarketBar) <= 0
  PROVE  Prices(StakerouteAttackCost(MarketBar, reputation, Stake, cluster),
                Reaches(Pool, Crowd, Prior, MarketBar))
<1> DEFINE t == MarketBar
<1>1. /\ t.num \in Nat \ {0} /\ t.den \in Nat \ {0} /\ joined \in Nat
  BY MarketBarFacts
<1> HIDE DEF t
<1>2. AlreadyLeading(t)
  BY <1>1, LeadingIs DEF t
<1>3. /\ StakerouteAttackCost(t, reputation, Stake, cluster).feasible
      /\ StakerouteAttackCost(t, reputation, Stake, cluster).identities = 0
  BY <1>2, PriceWithoutGap
<1>4. PICK g : g = Gap(t)
  OBVIOUS
<1>5. PICK p : p = Push(t)
  OBVIOUS
<1>6. PICK w \in Nat \ {0} : w = Honest.weight
  BY HonestSums
<1>7. PICK m \in Nat : m = Honest.moment /\ m <= 99 * w
  BY <1>6, HonestSums
<1>8. PICK n \in Nat : n = t.num
  BY <1>1
<1>9. PICK e \in Nat \ {0} : e = t.den
  BY <1>1
<1>10. n * w <= e * m
  <2>1. n * w - e * m <= 0
    BY <1>6, <1>7, <1>8, <1>9 DEF Gap, t
  <2>2. n * w \in Int /\ e * m \in Int
    OBVIOUS
  <2> QED BY <2>1, <2>2
<1>11. n <= 99 * e
  <2>1. e * m <= e * (99 * w)
    BY <1>7, FactorsOrder
  <2>2. e * (99 * w) = w * (99 * e) /\ n * w = w * n /\ w * (99 * e) \in Int
        /\ e * m \in Int /\ w * n \in Int
    OBVIOUS
  <2>3. w * n <= w * (99 * e)
    BY <1>10, <2>1, <2>2
  <2>4. CASE n > 99 * e
    <3>1. w * (99 * e) < w * n
      <4>1. PICK k \in Nat \ {0} : n = 99 * e + k
        <5>1. n - 99 * e \in Nat \ {0} /\ n = 99 * e + (n - 99 * e)
          BY <2>4
        <5> QED BY <5>1
      <4>2. w * n = w * (99 * e) + w * k /\ w * k \in Nat \ {0}
        BY <4>1
      <4> QED BY <2>2, <4>2
    <3> QED BY <2>2, <2>3, <3>1
  <2> QED BY <2>4
<1>12. PICK u \in Nat \ {0} : u = Unit(reputation, Stake)
  BY <1>1, PushType
<1>13. PICK d \in Nat : d = 99 * t.den - t.num
  <2>1. 99 * e - n \in Nat
    BY <1>11
  <2> QED BY <1>8, <1>9, <2>1
<1>14. p = u * d
  BY <1>1, <1>5, <1>12, <1>13, PushType
<1>15. p \in Nat
  BY <1>14
<1>16. joined * p \in Nat
  BY <1>1, <1>15
<1>17. g \in Int /\ g <= 0
  BY <1>1, <1>4, <1>5, MarketReaches DEF t
<1>18. Reaches(Pool, Crowd, Prior, t)
  <2>1. CASE ~ (cluster /\ joined > 0)
    <3>1. Reaches(Pool, Crowd, Prior, t) <=> g <= joined * p
      BY <1>1, <1>4, <1>5, <2>1, MarketReaches
    <3> QED BY <1>16, <1>17, <3>1
  <2>2. CASE cluster /\ joined > 0
    <3>1. Reaches(Pool, Crowd, Prior, t)
            <=> SignedSquare(-g) * joined + SignedSquare(joined * p) >= 0
      BY <1>1, <1>4, <1>5, <2>2, MarketReaches
    <3>2. PICK a \in Nat : a = SignedSquare(-g)
      <4>1. -g \in Int /\ -g >= 0
        BY <1>17
      <4>2. SignedSquare(-g) \in Int /\ SignedSquare(-g) >= 0
        BY <4>1, Squares
      <4> QED BY <4>2
    <3>3. PICK b \in Nat : b = SignedSquare(joined * p)
      <4>1. SignedSquare(joined * p) \in Int /\ SignedSquare(joined * p) >= 0
        BY <1>16, Squares
      <4> QED BY <4>1
    <3>4. a * joined \in Nat
      BY <1>1
    <3> QED BY <3>1, <3>2, <3>3, <3>4
  <2> QED BY <2>1, <2>2
<1> QED BY <1>1, <1>3, <1>18 DEF Prices, t

LEMMA PriceOutOfReach ==
  ASSUME AttackCostInv, honest # {}, Gap(MarketBar) > 0,
         99 * MarketBar.den - MarketBar.num <= 0
  PROVE  Prices(StakerouteAttackCost(MarketBar, reputation, Stake, cluster),
                Reaches(Pool, Crowd, Prior, MarketBar))
<1> DEFINE t == MarketBar
<1>1. /\ t.num \in Nat \ {0} /\ t.den \in Nat \ {0} /\ joined \in Nat
  BY MarketBarFacts
<1> HIDE DEF t
<1>2. PICK p : p = Push(t)
  OBVIOUS
<1>3. PICK g \in Nat \ {0} : g = Gap(t)
  <2>1. Gap(t) \in Int
    BY <1>1, <1>2, MarketReaches
  <2> QED BY <2>1 DEF t
<1>4. ~ AlreadyLeading(t) /\ Honest.weight # 0
  BY <1>1, <1>3, LeadingIs
<1>5. PICK d \in Int : d = 99 * t.den - t.num /\ d <= 0
  BY <1>1 DEF t
<1>6. ~ StakerouteAttackCost(t, reputation, Stake, cluster).feasible
  BY <1>1, <1>3, <1>4, <1>5, PriceOfGap
<1>7. PICK u \in Nat \ {0} : u = Unit(reputation, Stake)
  BY <1>1, PushType
<1>8. -p \in Nat /\ p \in Int
  <2>1. p = u * d
    BY <1>1, <1>2, <1>5, <1>7, PushType
  <2>2. -d \in Nat /\ -(u * d) = u * (-d)
    BY <1>5
  <2>3. u * (-d) \in Nat
    BY <2>2
  <2> QED BY <2>1, <2>2, <2>3
<1>9. joined * p \in Int /\ joined * p <= 0
  <2>1. joined * (-p) \in Nat /\ joined * (-p) = -(joined * p)
    BY <1>1, <1>8
  <2> QED BY <1>1, <1>8, <2>1
<1>10. ~ Reaches(Pool, Crowd, Prior, t)
  <2>1. CASE ~ (cluster /\ joined > 0)
    <3>1. Reaches(Pool, Crowd, Prior, t) <=> g <= joined * p
      BY <1>1, <1>2, <1>3, <2>1, MarketReaches
    <3> QED BY <1>9, <3>1
  <2>2. CASE cluster /\ joined > 0
    <3>1. Reaches(Pool, Crowd, Prior, t)
            <=> SignedSquare(-g) * joined + SignedSquare(joined * p) >= 0
      BY <1>1, <1>2, <1>3, <2>2, MarketReaches
    <3>2. PICK a \in Nat \ {0} : SignedSquare(-g) = -a
      <4>1. SignedSquare(-g) = -((-g) * (-g)) /\ (-g) * (-g) = g * g
        BY Squares
      <4>2. g * g \in Nat \ {0}
        OBVIOUS
      <4> QED BY <4>1, <4>2
    <3>3. PICK b \in Nat : SignedSquare(joined * p) = -b
      <4>1. PICK x \in Int : x = joined * p /\ x <= 0
        BY <1>9
      <4>2. SignedSquare(x) = -(x * x) /\ x * x \in Nat
        BY <4>1, Squares
      <4> QED BY <4>1, <4>2
    <3>4. (-a) * joined = -(a * joined) /\ a * joined \in Nat \ {0}
      BY <1>1, <2>2
    <3> QED BY <3>1, <3>2, <3>3, <3>4
  <2> QED BY <2>1, <2>2
<1> QED BY <1>6, <1>10 DEF Prices, t

LEMMA PriceOfClosedForm ==
  ASSUME AttackCostInv, honest # {}, Gap(MarketBar) > 0,
         99 * MarketBar.den - MarketBar.num > 0
  PROVE  Prices(StakerouteAttackCost(MarketBar, reputation, Stake, cluster),
                Reaches(Pool, Crowd, Prior, MarketBar))
<1> DEFINE t == MarketBar
<1>1. /\ t.num \in Nat \ {0} /\ t.den \in Nat \ {0} /\ joined \in Nat
      /\ cluster \in BOOLEAN /\ reputation \in Nat \ {0} /\ Stake \in DOMAIN Root
  BY MarketBarFacts, AttackCostAssumption DEF AttackCostInv
<1> HIDE DEF t
<1>2. PICK p : p = Push(t)
  OBVIOUS
<1>3. PICK g \in Nat \ {0} : g = Gap(t)
  <2>1. Gap(t) \in Int
    BY <1>1, <1>2, MarketReaches
  <2> QED BY <2>1 DEF t
<1>4. ~ AlreadyLeading(t) /\ Honest.weight # 0
  BY <1>1, <1>3, LeadingIs
<1>5. PICK d \in Nat \ {0} : d = 99 * t.den - t.num
  <2>1. 99 * t.den - t.num \in Nat \ {0}
    BY <1>1 DEF t
  <2> QED BY <2>1
<1>6. StakerouteAttackCost(t, reputation, Stake, cluster).feasible
  BY <1>1, <1>3, <1>4, <1>5, PriceOfGap
<1>7. p = Unit(reputation, Stake) * d
  BY <1>1, <1>2, <1>5, PushType
<1>8. /\ p \in Nat \ {0}
      /\ StakerouteAttackCost(t, reputation, Stake, cluster).identities =
           IF cluster THEN CeilDiv(g * g, p * p) ELSE CeilDiv(g, p)
  BY <1>1, <1>3, <1>4, <1>5, <1>7, CountForGap
<1>9. p * p \in Nat \ {0} /\ g * g \in Nat \ {0} /\ p * joined \in Nat
      /\ p * joined = joined * p
  BY <1>1, <1>8
<1>10. CASE ~cluster
  <2>1. CeilDiv(g, p) \in Int /\ (CeilDiv(g, p) <= joined <=> g <= p * joined)
    <3>1. p \in Nat \ {0} /\ joined \in Int /\ g \in Int
      BY <1>1, <1>8
    <3> QED BY <3>1, LeastReaching
  <2>2. Reaches(Pool, Crowd, Prior, t) <=> g <= joined * p
    BY <1>1, <1>2, <1>3, <1>10, MarketReaches
  <2> QED BY <1>1, <1>6, <1>8, <1>9, <1>10, <2>1, <2>2 DEF Prices, t
<1>11. CASE cluster
  <2>1. /\ CeilDiv(g * g, p * p) \in Int
        /\ CeilDiv(g * g, p * p) <= joined <=> g * g <= (p * p) * joined
    <3>1. PICK a \in Int : a = g * g
      OBVIOUS
    <3>2. PICK b \in Nat \ {0} : b = p * p
      BY <1>9
    <3>3. joined \in Int
      BY <1>1
    <3>4. CeilDiv(a, b) \in Int /\ (CeilDiv(a, b) <= joined <=> a <= b * joined)
      BY <3>3, LeastReaching
    <3> QED BY <3>1, <3>2, <3>4
  <2>2. CASE joined = 0
    <3>1. (p * p) * joined = 0 /\ joined * p = 0
      BY <1>8, <1>9, <2>2
    <3>2. Reaches(Pool, Crowd, Prior, t) <=> g <= joined * p
      BY <1>1, <1>2, <1>3, <2>2, MarketReaches
    <3> QED BY <1>1, <1>6, <1>8, <1>9, <1>11, <2>1, <3>1, <3>2 DEF Prices, t
  <2>3. CASE joined > 0
    <3>1. Reaches(Pool, Crowd, Prior, t)
            <=> SignedSquare(-g) * joined + SignedSquare(joined * p) >= 0
      BY <1>1, <1>2, <1>3, <1>11, <2>3, MarketReaches
    <3>2. SignedSquare(-g) = -(g * g)
      <4>1. SignedSquare(-g) = -((-g) * (-g)) /\ (-g) * (-g) = g * g
        BY Squares
      <4> QED BY <4>1
    <3>3. SignedSquare(joined * p) = (joined * p) * (joined * p)
      BY <1>9, Squares
    <3>4. PICK j \in Nat \ {0} : j = joined
      BY <1>1, <2>3
    <3>5. PICK a \in Int : a = g * g
      OBVIOUS
    <3>6. PICK b \in Int : b = (p * p) * j
      BY <1>9
    <3>7. /\ (j * p) * (j * p) = j * b
          /\ (-a) * j = -(j * a) /\ j * a \in Int /\ j * b \in Int
      <4>1. (j * p) * (j * p) = j * ((p * p) * j)
        BY <1>8
      <4>2. (-a) * j = -(j * a) /\ j * a \in Int /\ j * b \in Int
        OBVIOUS
      <4> QED BY <3>6, <4>1, <4>2
    <3>8. Reaches(Pool, Crowd, Prior, t) <=> -(j * a) + j * b >= 0
      BY <3>1, <3>2, <3>3, <3>4, <3>5, <3>7
    <3>9. j * a <= j * b <=> a <= b
      <4>1. a <= b => j * a <= j * b
        BY FactorsOrder
      <4>2. ASSUME b < a PROVE j * b < j * a
        <5>1. PICK k \in Nat \ {0} : a = b + k
          <6>1. a - b \in Nat \ {0} /\ a = b + (a - b)
            BY <4>2
          <6> QED BY <6>1
        <5>2. j * a = j * b + j * k /\ j * k \in Nat \ {0}
          BY <5>1
        <5> QED BY <3>7, <5>2
      <4> QED BY <3>7, <4>1, <4>2
    <3>10. Reaches(Pool, Crowd, Prior, t) <=> a <= b
      BY <3>7, <3>8, <3>9
    <3>11. CeilDiv(g * g, p * p) <= joined <=> a <= b
      BY <2>1, <3>4, <3>5, <3>6
    <3>12. StakerouteAttackCost(t, reputation, Stake, cluster).identities
             = CeilDiv(g * g, p * p)
      BY <1>8, <1>11
    <3> QED BY <1>1, <1>6, <2>1, <3>10, <3>11, <3>12 DEF Prices, t
  <2> QED BY <1>1, <2>2, <2>3
<1> QED BY <1>10, <1>11

LEMMA MarketPrice ==
  ASSUME AttackCostInv
  PROVE  MarketPriceIsLeast
<1>1. AttackFrontier(MarketBar, Stake, cluster)[reputation]
        = StakerouteAttackCost(MarketBar, reputation, Stake, cluster)
  BY DEF AttackFrontier, AttackCostInv
<1>2. MarketBar.num \in Int /\ MarketBar.den \in Int
  BY MarketBarFacts
<1>3. Gap(MarketBar) \in Int
  BY <1>2, MarketReaches
<1>4. CASE honest = {}
  BY <1>1, <1>4, PriceAgainstNobody DEF MarketPriceIsLeast
<1>5. CASE honest # {}
  <2>1. CASE Gap(MarketBar) <= 0
    BY <1>1, <1>5, <2>1, PriceOfLead DEF MarketPriceIsLeast
  <2>2. CASE Gap(MarketBar) > 0 /\ 99 * MarketBar.den - MarketBar.num <= 0
    BY <1>1, <1>5, <2>2, PriceOutOfReach DEF MarketPriceIsLeast
  <2>3. CASE Gap(MarketBar) > 0 /\ 99 * MarketBar.den - MarketBar.num > 0
    BY <1>1, <1>5, <2>3, PriceOfClosedForm DEF MarketPriceIsLeast
  <2> QED BY <1>2, <1>3, <2>1, <2>2, <2>3
<1> QED BY <1>4, <1>5

(***************************************************************************)
(* MarketPriceIsLeast: for any rival, reputation, stake, roots and         *)
(* discounts, and any forecasts or, while there are none, any bar up to    *)
(* the ceiling, the number of identities attack_frontier lists is the      *)
(* least that takes aggregate_probability to the defender's priority, on   *)
(* shared evidence and on distinct, and "infeasible" means that no number  *)
(* does.  Without forecasts and above the ceiling the price is wrong, and  *)
(* the property leaves it out.                                             *)
(***************************************************************************)
THEOREM MarketPriceHolds == PricesSpec => []MarketPriceIsLeast
<1>1. AttackCostInv => MarketPriceIsLeast
  BY MarketPrice
<1> QED BY <1>1, AttackCostInvariant, PTL

-----------------------------------------------------------------------------
(***************************************************************************)
(* Larger stakes and losses.                                               *)
(***************************************************************************)
LEMMA HalfAsMany ==
  ASSUME NEW g \in Nat \ {0}, NEW p \in Nat \ {0}
  PROVE  CeilDiv(g, p) <= 2 * CeilDiv(g, 2 * p)
<1>1. PICK k \in Nat \ {0} : k = CeilDiv(g, 2 * p)
  <2>1. 2 * p \in Nat \ {0}
    OBVIOUS
  <2> QED BY <2>1, CeilDivPositive
<1>2. PICK b \in Nat \ {0} : b = 2 * p
  OBVIOUS
<1>3. CeilDiv(g, b) <= k <=> g <= b * k
  BY LeastReaching
<1>4. g <= b * k
  BY <1>1, <1>2, <1>3
<1>5. PICK j \in Nat : j = 2 * k
  OBVIOUS
<1>6. CeilDiv(g, p) <= j <=> g <= p * j
  BY LeastReaching
<1>7. b * k = p * j
  BY <1>2, <1>5
<1> QED BY <1>1, <1>4, <1>5, <1>6, <1>7

LEMMA CostFields ==
  ASSUME NEW t, NEW r, NEW stake, NEW share
  PROVE  LET cost == StakerouteAttackCost(t, r, stake, share)
         IN  /\ cost.feasible => /\ cost.credits = cost.identities * stake
                                 /\ cost.loss = AttackSettlementLoss(cost.identities, stake)
             /\ ~ cost.feasible => cost.identities = 0
BY DEF StakerouteAttackCost, Cost, Infeasible

LEMMA SpreadingCounts ==
  ASSUME AttackCostInv, NEW t, t = MarketBar,
         NEW share \in BOOLEAN, ~ share,
         NEW small, small = StakerouteAttackCost(t, reputation, Stake, share),
         NEW large, large = StakerouteAttackCost(t, reputation, 4 * Stake, share),
         small.feasible
  PROVE  /\ large.feasible /\ small.identities \in Int /\ large.identities \in Int
         /\ small.identities <= 2 * large.identities
<1>1. t.num \in Int /\ t.den \in Int
  BY MarketBarFacts
<1>2. Gap(t) \in Int
  BY <1>1, MarketReaches
<1>3. CASE AlreadyLeading(t) \/ Honest.weight = 0
  <2>1. PICK i \in {0, 1} : i = IF AlreadyLeading(t) THEN 0 ELSE 1
    OBVIOUS
  <2>2. small.identities = i /\ large.feasible /\ large.identities = i
    BY <1>3, <2>1, PriceWithoutGap
  <2>3. i \in Int /\ i <= 2 * i
    BY <2>1
  <2> QED BY <2>2, <2>3
<1>4. CASE ~ (AlreadyLeading(t) \/ Honest.weight = 0)
  <2>1. honest # {}
    BY <1>4, HonestSums
  <2>2. PICK g \in Nat \ {0} : g = Gap(t)
    BY <1>1, <1>2, <1>4, <2>1, LeadingIs
  <2>3. PICK d \in Int : d = 99 * t.den - t.num
    BY <1>1
  <2>4. d > 0
    BY <1>1, <1>4, <2>2, <2>3, PriceOfGap
  <2>5. d \in Nat \ {0}
    BY <2>4
  <2>6. large.feasible
    BY <1>1, <1>4, <2>2, <2>3, <2>4, PriceOfGap
  <2>7. PICK r \in Nat \ {0} : r = reputation
    BY AttackCostAssumption DEF AttackCostInv
  <2>8. /\ Stake \in DOMAIN Root /\ 4 * Stake \in DOMAIN Root
        /\ Root[4 * Stake] = 2 * Root[Stake]
    BY AttackCostAssumption
  <2>9. PICK p : p = Unit(r, Stake) * d
    OBVIOUS
  <2>10. PICK o : o = Unit(r, 4 * Stake) * d
    OBVIOUS
  <2>11. /\ p \in Nat \ {0} /\ small.identities = CeilDiv(g, p)
         /\ small.identities \in Nat \ {0}
    BY <1>1, <1>4, <2>2, <2>3, <2>5, <2>7, <2>8, <2>9, CountForGap
  <2>12. /\ o \in Nat \ {0} /\ large.identities = CeilDiv(g, o)
         /\ large.identities \in Nat \ {0}
    BY <1>1, <1>4, <2>2, <2>3, <2>5, <2>7, <2>8, <2>10, CountForGap
  <2>13. o = 2 * p
    <3>1. PICK s \in Nat \ {0} : s = Root[Stake]
      BY <2>8, RootOf
    <3>2. PICK i \in Nat \ {0} : i = Independence[1]
      BY Undiscounted
    <3>3. r * (2 * s) * i * d = 2 * (r * s * i * d)
      OBVIOUS
    <3> QED BY <2>8, <2>9, <2>10, <3>1, <3>2, <3>3 DEF Unit
  <2>14. CeilDiv(g, p) <= 2 * CeilDiv(g, 2 * p)
    BY <2>11, HalfAsMany
  <2> QED BY <2>6, <2>11, <2>12, <2>13, <2>14
<1> QED BY <1>3, <1>4

LEMMA Spreading ==
  ASSUME AttackCostInv
  PROVE  SpreadingCostsNoMore
<1>0. PICK share \in BOOLEAN : share = FALSE
  OBVIOUS
<1>1. PICK small : small = StakerouteAttackCost(MarketBar, reputation, Stake, share)
  OBVIOUS
<1>2. PICK large : large = StakerouteAttackCost(MarketBar, reputation, 4 * Stake, share)
  OBVIOUS
<1>3. SUFFICES ASSUME small.feasible
               PROVE  large.feasible /\ 2 * small.credits <= large.credits
  BY <1>0, <1>1, <1>2 DEF SpreadingCostsNoMore, Small, Large
<1>4. /\ large.feasible /\ small.identities \in Int /\ large.identities \in Int
      /\ small.identities <= 2 * large.identities
  BY <1>0, <1>1, <1>2, <1>3, SpreadingCounts
<1>5. PICK i \in Int : i = small.identities
  BY <1>4
<1>6. PICK j \in Int : j = large.identities
  BY <1>4
<1>7. PICK stake \in Nat \ {0} : stake = Stake
  BY AttackCostAssumption, RootOf
<1>8. small.credits = i * stake /\ large.credits = j * (4 * stake)
  BY <1>1, <1>2, <1>3, <1>4, <1>5, <1>6, <1>7, CostFields
<1>9. (2 * stake) * i <= (2 * stake) * (2 * j)
  <2>1. 2 * stake \in Nat \ {0} /\ 2 * j \in Int /\ i <= 2 * j
    BY <1>4, <1>5, <1>6
  <2> QED BY <2>1, FactorsOrder
<1>10. (2 * stake) * i = 2 * (i * stake) /\ (2 * stake) * (2 * j) = j * (4 * stake)
  OBVIOUS
<1> QED BY <1>4, <1>8, <1>9, <1>10

(***************************************************************************)
(* SpreadingCostsNoMore: for any forecasts, rival, reputation and stake    *)
(* whose root doubles when it is taken fourfold, fourfold stakes buy the   *)
(* same rank for no fewer than twice the credits.                          *)
(***************************************************************************)
THEOREM SpreadingHolds == PricesSpec => []SpreadingCostsNoMore
<1>1. AttackCostInv => SpreadingCostsNoMore
  BY Spreading
<1> QED BY <1>1, AttackCostInvariant, PTL

(***************************************************************************)
(* An identity asserts the ceiling.  From a prior of 0.48 or less it is    *)
(* wrong by at least 0.75 more than the prior is, and what rounding to     *)
(* credits gives back is less than the quarter of the stake above a half.  *)
(***************************************************************************)
LEMMA IdentityLoses ==
  ASSUME NEW stake \in Nat \ {0}, Prior \in 1..48
  PROVE  LET delta == CreditDelta(stake, Prior, ProbCeil, 0)
         IN  delta \in Int /\ -delta <= stake /\ -2 * delta > stake
<1>1. PICK gain : gain = Improvement(Prior, ProbCeil, 0)
  OBVIOUS
<1>2. gain \in Int /\ gain <= -7497
  <2>1. gain = Prior * Prior - 9801
    BY <1>1 DEF Improvement, BrierScore, ProbCeil
  <2>2. Prior * Prior <= 48 * 48 /\ Prior * Prior \in Nat
    <3>1. PICK x \in 1..48 : x = Prior
      OBVIOUS
    <3>2. x * x <= x * 48 /\ 48 * x <= 48 * 48
      <4>1. x \in Nat \ {0} /\ 48 \in Nat \ {0} /\ x <= 48
        OBVIOUS
      <4> QED BY <4>1, FactorsOrder
    <3>3. x * x \in Nat
      OBVIOUS
    <3> QED BY <3>1, <3>2, <3>3
  <2> QED BY <2>1, <2>2
<1>3. PICK q : q = RoundHalfEven(gain, Scale)
  OBVIOUS
<1>4. q \in Int /\ q <= -75
  <2>1. q \in Int /\ 2 * (100 * q - gain) <= 100
    BY <1>2, <1>3, RoundNear DEF Scale
  <2> QED BY <1>2, <2>1
<1>5. PICK x \in Int : x = stake * q
  BY <1>4
<1>6. x <= -75 * stake
  <2>1. PICK k \in Nat : q = -75 - k
    <3>1. -75 - q \in Nat /\ q = -75 - (-75 - q)
      BY <1>4
    <3> QED BY <3>1
  <2>2. stake * (-75 - k) = -75 * stake - stake * k /\ stake * k \in Nat
    OBVIOUS
  <2> QED BY <1>5, <2>1, <2>2
<1>7. PICK delta : delta = CreditDelta(stake, Prior, ProbCeil, 0)
  OBVIOUS
<1>8. Prior \in 0..100 /\ ProbCeil \in 0..100 /\ 0 \in {0, 1}
  BY DEF ProbCeil
<1>9. delta \in (-stake)..stake
  BY <1>7, <1>8, CreditDeltaRange
<1>10. delta = RoundHalfEven(x, Scale)
  BY <1>1, <1>3, <1>5, <1>7, <1>8, CreditDeltaUncapped
<1>11. delta \in Int /\ 2 * (100 * delta - x) <= 100
  BY <1>10, RoundNear DEF Scale
<1>12. -2 * delta > stake
  <2>1. CASE stake # 2
    BY <1>6, <1>11, <2>1
  <2>2. CASE stake = 2
    <3>1. CASE x = -150
      <4>1. PICK q2 : q2 = x \div 100
        OBVIOUS
      <4>2. PICK r2 : r2 = x % 100
        OBVIOUS
      <4>3. q2 \in Int /\ r2 \in 0..99 /\ x = 100 * q2 + r2
        BY <4>1, <4>2
      <4>4. r2 = 50 /\ q2 = -2
        BY <3>1, <4>3
      <4>5. PICK half : half = q2 \div 2
        OBVIOUS
      <4>6. PICK odd : odd = q2 % 2
        OBVIOUS
      <4>7. half \in Int /\ odd \in 0..1 /\ q2 = 2 * half + odd
        BY <4>3, <4>5, <4>6
      <4>8. odd = 0
        BY <4>4, <4>7
      <4>9. RoundHalfEven(x, Scale) = q2
        BY <4>1, <4>2, <4>4, <4>6, <4>8 DEF RoundHalfEven, Scale
      <4> QED BY <1>10, <2>2, <4>4, <4>9
    <3>2. CASE x # -150
      <4>1. x <= -151
        BY <1>6, <2>2, <3>2
      <4>2. delta <= -2
        BY <1>11, <4>1
      <4> QED BY <1>11, <2>2, <4>2
    <3> QED BY <3>1, <3>2
  <2> QED BY <2>1, <2>2
<1> QED BY <1>7, <1>9, <1>12

LEMMA Priced ==
  ASSUME AttackCostInv, NEW stake \in DOMAIN Root
  PROVE  StakerouteAttackCost(MarketBar, reputation, stake, cluster).identities \in Nat
<1> DEFINE t == MarketBar
           cost == StakerouteAttackCost(t, reputation, stake, cluster)
<1>1. /\ t.num \in Nat \ {0} /\ t.den \in Nat \ {0} /\ reputation \in Nat \ {0}
      /\ cluster \in BOOLEAN
  BY MarketBarFacts, AttackCostAssumption DEF AttackCostInv
<1> HIDE DEF t
<1>2. Gap(t) \in Int
  BY <1>1, MarketReaches
<1>3. CASE AlreadyLeading(t) \/ Honest.weight = 0
  BY <1>3, PriceWithoutGap DEF t
<1>4. CASE ~ (AlreadyLeading(t) \/ Honest.weight = 0)
  <2>1. honest # {}
    BY <1>4, HonestSums
  <2>2. PICK g \in Nat \ {0} : g = Gap(t)
    BY <1>1, <1>2, <1>4, <2>1, LeadingIs
  <2>3. PICK d \in Int : d = 99 * t.den - t.num
    BY <1>1
  <2>4. CASE d <= 0
    <3>1. ~ cost.feasible
      BY <1>1, <1>4, <2>2, <2>3, <2>4, PriceOfGap
    <3> QED BY <3>1, CostFields DEF t
  <2>5. CASE d > 0
    <3>1. d \in Nat \ {0}
      BY <2>5
    <3>2. PICK p : p = Unit(reputation, stake) * d
      OBVIOUS
    <3>3. cost.identities \in Nat \ {0}
      BY <1>1, <1>4, <2>2, <2>3, <3>1, <3>2, CountForGap
    <3> QED BY <3>3 DEF t
  <2> QED BY <2>4, <2>5
<1> QED BY <1>3, <1>4

LEMMA PaidFor ==
  ASSUME AttackCostInv, Prior <= 48, NEW stake \in DOMAIN Root,
         NEW cost, cost = StakerouteAttackCost(MarketBar, reputation, stake, cluster),
         cost.identities > 0
  PROVE  cost.loss <= cost.credits /\ 2 * cost.loss > cost.credits
<1>1. stake \in Nat \ {0}
  BY RootOf
<1>2. PICK delta : delta = CreditDelta(stake, Prior, ProbCeil, 0)
  OBVIOUS
<1>3. Prior \in 1..48
  BY MarketBarFacts
<1>4. delta \in Int /\ -delta <= stake /\ -2 * delta > stake
  BY <1>1, <1>2, <1>3, IdentityLoses
<1>5. PICK s \in Nat \ {0} : s = stake
  BY <1>1
<1>6. PICK n \in Nat \ {0} : n = cost.identities
  BY Priced
<1>7. cost.credits = n * s /\ cost.loss = -n * delta
  BY <1>2, <1>5, <1>6, CostFields DEF AttackSettlementLoss
<1>8. -n * delta = n * (-delta) /\ 2 * (-n * delta) = n * (-2 * delta)
  BY <1>4
<1>9. n * (-delta) <= n * s
  BY <1>4, <1>5, FactorsOrder
<1>10. n * s < n * (-2 * delta)
  <2>1. PICK k \in Nat \ {0} : -2 * delta = s + k
    <3>1. -2 * delta - s \in Nat \ {0} /\ -2 * delta = s + (-2 * delta - s)
      BY <1>4, <1>5
    <3> QED BY <3>1
  <2>2. n * (s + k) = n * s + n * k /\ n * k \in Nat \ {0} /\ n * s \in Nat
    OBVIOUS
  <2> QED BY <2>1, <2>2
<1> QED BY <1>7, <1>8, <1>9, <1>10

(***************************************************************************)
(* AttacksArePaidFor: for a prior of at most 0.48 and any forecasts,       *)
(* rival, reputation and stake, the identities that take rank 1 lose more  *)
(* than half of their stakes when the target turns out false.  From 0.49   *)
(* on a stake of two credits loses exactly one.                            *)
(***************************************************************************)
THEOREM AttacksPaidForHold ==
  ASSUME Prior <= 48
  PROVE  PricesSpec => []AttacksArePaidFor
<1>1. AttackCostInv => AttacksArePaidFor
  BY PaidFor DEF AttacksArePaidFor
<1> QED BY <1>1, AttackCostInvariant, PTL
===============================================================================

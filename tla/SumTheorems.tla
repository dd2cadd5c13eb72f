----------------------------- MODULE SumTheorems -----------------------------
(***************************************************************************)
(* Sums of finite functions, which ledgers, escrows and accruals are made  *)
(* of, and at the end loops, which the slot machine's features are.        *)
(* SumFunction takes the arguments in an order CHOOSE decides; the lemmas  *)
(* say that the order does not matter and what a sum becomes when one      *)
(* argument changes or comes in, which is all a step does to one.          *)
(*                                                                         *)
(* The recursion is justified here: a finite set has no infinite chain of  *)
(* smaller subsets, so a set of subsets for which a claim fails has a      *)
(* smallest member, which shows up the claim for the next smaller one.     *)
(***************************************************************************)
EXTENDS Integers, Functions, FiniteSetTheorems, TLAPS

LEMMA SmallestSubset ==
  ASSUME NEW S, IsFiniteSet(S), NEW Bad \in SUBSET SUBSET S, Bad # {}
  PROVE  \E T \in Bad : \A U \in Bad : U \subseteq T => U = T
<1>1. IsWellFoundedOn(StrictSubsetOrdering(S), FiniteSubsetsOf(S))
  BY FS_StrictSubsetOrderingWellFounded
<1>2. Bad \subseteq FiniteSubsetsOf(S)
  BY FS_FiniteSubsetsOfFinite
<1>3. \E T \in Bad : \A U \in Bad : <<U, T>> \notin StrictSubsetOrdering(S)
  BY <1>1, <1>2, WFMin
<1>4. QED BY <1>3 DEF StrictSubsetOrdering

-----------------------------------------------------------------------------
(* The recursive definition defines a function.                            *)

picked(s) == CHOOSE x \in s : TRUE
rest(s) == s \ {picked(s)}

LEMMA PickedIsElement ==
  ASSUME NEW s, s # {}
  PROVE  picked(s) \in s /\ rest(s) \subseteq s /\ rest(s) # s
<1>1. picked(s) \in s
  BY DEF picked
<1>2. QED BY <1>1 DEF rest

summand(f, g, s) == IF s = {} THEN 0 ELSE f[picked(s)] + g[rest(s)]

\* g sums f over the subsets of S.
IsSum(f, S, g) == g = [s \in SUBSET S |-> summand(f, g, s)]

LEMMA IsSumUnfold ==
  ASSUME NEW f, NEW S, NEW g, IsSum(f, S, g), NEW s \in SUBSET S
  PROVE  g[s] = IF s = {} THEN 0 ELSE f[picked(s)] + g[rest(s)]
<1>1. g = [t \in SUBSET S |-> summand(f, g, t)]
  BY DEF IsSum
<1>2. g[s] = summand(f, g, s)
  BY <1>1
<1>3. QED BY <1>2 DEF summand

LEMMA SumIsRecursive ==
  ASSUME NEW f, NEW S
  PROVE  SumFunctionOnSet(f, S) = (CHOOSE g : IsSum(f, S, g))[S]
  BY DEF SumFunctionOnSet, FoldFunctionOnSet, MapThenFoldSet, IsSum, summand,
         picked, rest

LEMMA SumsAgree ==
  ASSUME NEW f, NEW U, NEW V, NEW g, NEW h, IsFiniteSet(U),
         IsSum(f, U, g), IsSum(f, V, h)
  PROVE  \A s \in SUBSET (U \cap V) : g[s] = h[s]
<1> DEFINE Bad == {s \in SUBSET (U \cap V) : g[s] # h[s]}
<1>1. SUFFICES ASSUME Bad # {} PROVE FALSE
  OBVIOUS
<1>2. PICK T \in Bad : \A W \in Bad : W \subseteq T => W = T
  <2>1. IsFiniteSet(U \cap V) /\ Bad \in SUBSET SUBSET (U \cap V)
    BY FS_Intersection
  <2> HIDE DEF Bad
  <2>2. QED BY <1>1, <2>1, SmallestSubset
<1>3. T # {}
  BY <1>2, IsSumUnfold
<1>4. rest(T) \subseteq T /\ rest(T) # T
  BY <1>3, PickedIsElement
<1>5. rest(T) \notin Bad
  BY <1>2, <1>4
<1>6. g[rest(T)] = h[rest(T)]
  BY <1>4, <1>5
<1>7. g[T] = f[picked(T)] + g[rest(T)] /\ h[T] = f[picked(T)] + h[rest(T)]
  BY <1>2, <1>3, IsSumUnfold
<1>8. QED BY <1>6, <1>7

LEMMA SumExists ==
  ASSUME NEW f, NEW S, IsFiniteSet(S), \A x \in S : f[x] \in Int
  PROVE  \E g \in [SUBSET S -> Int] : IsSum(f, S, g)
<1> DEFINE Sums(U) == {g \in [SUBSET U -> Int] : IsSum(f, U, g)}
           Bad == {U \in SUBSET S : Sums(U) = {}}
<1>1. SUFFICES ASSUME Bad # {} PROVE FALSE
  OBVIOUS
<1>2. PICK T \in Bad : \A U \in Bad : U \subseteq T => U = T
  <2>1. Bad \in SUBSET SUBSET S
    OBVIOUS
  <2> HIDE DEF Bad
  <2>2. QED BY <1>1, <2>1, SmallestSubset
<1> DEFINE part(U) == CHOOSE g : g \in Sums(U)
           g == [s \in SUBSET T |-> summand(f, part(rest(s)), s)]
<1>3. ASSUME NEW U \in SUBSET T, U # T
      PROVE  part(U) \in [SUBSET U -> Int] /\ IsSum(f, U, part(U))
  <2>1. Sums(U) # {}
    BY <1>2, <1>3
  <2>2. part(U) \in Sums(U)
    BY <2>1
  <2>3. QED BY <2>2
<1>4. ASSUME NEW s \in SUBSET T, s # {}
      PROVE  /\ rest(s) \in SUBSET T /\ rest(s) # T
             /\ part(rest(s)) \in [SUBSET rest(s) -> Int]
             /\ IsSum(f, rest(s), part(rest(s)))
             /\ f[picked(s)] \in Int
  <2>1. rest(s) \in SUBSET T /\ rest(s) # T /\ picked(s) \in T
    BY <1>4, PickedIsElement
  <2> HIDE DEF part
  <2>2. QED BY <2>1, <1>2, <1>3
<1>5. IsFiniteSet(T)
  BY <1>2, FS_Subset
<1>6. g \in [SUBSET T -> Int]
  <2>1. ASSUME NEW s \in SUBSET T PROVE summand(f, part(rest(s)), s) \in Int
    <3> HIDE DEF part
    <3>1. CASE s = {}
      BY <3>1 DEF summand
    <3>2. CASE s # {}
      <4>1. part(rest(s))[rest(s)] \in Int
        BY <3>2, <1>4
      <4>2. f[picked(s)] \in Int
        BY <3>2, <1>4
      <4>3. QED BY <3>2, <4>1, <4>2 DEF summand
    <3>3. QED BY <3>1, <3>2
  <2> HIDE DEF part
  <2>2. QED BY <2>1
<1>7. ASSUME NEW s \in SUBSET T PROVE g[s] = summand(f, g, s)
  <2> HIDE DEF part
  <2>1. CASE s = {}
    BY <2>1 DEF summand
  <2>2. CASE s # {}
    <3> DEFINE r == rest(s)
    <3>1. r \in SUBSET T /\ IsSum(f, r, part(r))
      BY <2>2, <1>4
    <3>2. g[r] = part(r)[r]
      <4>1. CASE r = {}
        <5>1. part(r)[r] = 0
          BY <3>1, <4>1, IsSumUnfold
        <5>2. g[r] = 0
          BY <3>1, <4>1 DEF summand
        <5>3. QED BY <5>1, <5>2
      <4>2. CASE r # {}
        <5> HIDE DEF r
        <5>1. /\ IsSum(f, rest(r), part(rest(r)))
              /\ rest(r) \subseteq r
          BY <3>1, <4>2, <1>4, PickedIsElement
        <5>2. IsFiniteSet(r)
          BY <3>1, <1>5, FS_Subset
        <5>3. part(r)[rest(r)] = part(rest(r))[rest(r)]
          BY <3>1, <5>1, <5>2, SumsAgree
        <5>4. part(r)[r] = f[picked(r)] + part(r)[rest(r)]
          BY <3>1, <4>2, IsSumUnfold
        <5>5. g[r] = f[picked(r)] + part(rest(r))[rest(r)]
          BY <3>1, <4>2 DEF summand
        <5>6. QED BY <5>3, <5>4, <5>5
      <4>3. QED BY <4>1, <4>2
    <3>3. g[s] = f[picked(s)] + part(r)[r]
      BY <2>2 DEF summand
    <3>4. QED BY <2>2, <3>2, <3>3 DEF summand
  <2>3. QED BY <2>1, <2>2
<1>8. IsSum(f, T, g)
  <2> HIDE DEF part
  <2>1. g = [s \in SUBSET T |-> g[s]]
    OBVIOUS
  <2> HIDE DEF g
  <2>2. QED BY <2>1, <1>7 DEF IsSum
<1>9. g \in Sums(T)
  BY <1>6, <1>8
<1>10. QED BY <1>2, <1>9

-----------------------------------------------------------------------------
(* Sums over a set of arguments.                                           *)

LEMMA SumOfNothing ==
  ASSUME NEW f
  PROVE  SumFunctionOnSet(f, {}) = 0
<1>1. \E g \in [SUBSET {} -> Int] : IsSum(f, {}, g)
  BY SumExists, FS_EmptySet
<1> DEFINE g == CHOOSE g : IsSum(f, {}, g)
<1>2. IsSum(f, {}, g)
  BY <1>1
<1> HIDE DEF g
<1>3. g[{}] = 0
  BY <1>2, IsSumUnfold
<1>4. QED BY <1>3, SumIsRecursive DEF g

LEMMA SumSolves ==
  ASSUME NEW f, NEW S, IsFiniteSet(S), \A x \in S : f[x] \in Int,
         NEW g, IsSum(f, S, g), NEW T \in SUBSET S
  PROVE  g[T] = SumFunctionOnSet(f, T) /\ g[T] \in Int
<1> DEFINE sum(U) == CHOOSE h : IsSum(f, U, h)
<1>1. ASSUME NEW U \in SUBSET S
      PROVE  \E h \in [SUBSET U -> Int] : IsSum(f, U, h)
  <2>1. IsFiniteSet(U) /\ \A x \in U : f[x] \in Int
    BY FS_Subset
  <2>2. QED BY <2>1, SumExists
<1>2. IsSum(f, T, sum(T))
  BY <1>1
<1>3. SumFunctionOnSet(f, T) = sum(T)[T]
  BY SumIsRecursive
<1> HIDE DEF sum
<1>4. g[T] = sum(T)[T]
  <2>1. T \in SUBSET (S \cap T)
    OBVIOUS
  <2>2. QED BY <1>2, <2>1, SumsAgree
<1>5. g[T] \in Int
  <2>1. PICK h \in [SUBSET S -> Int] : IsSum(f, S, h)
    BY <1>1
  <2>2. T \in SUBSET (S \cap S)
    OBVIOUS
  <2>3. g[T] = h[T]
    BY <2>1, <2>2, SumsAgree
  <2>4. QED BY <2>1, <2>3
<1>6. QED BY <1>3, <1>4, <1>5

LEMMA SumPicks ==
  ASSUME NEW f, NEW S, IsFiniteSet(S), S # {}, \A x \in S : f[x] \in Int
  PROVE  SumFunctionOnSet(f, S) = f[picked(S)] + SumFunctionOnSet(f, rest(S))
<1>1. PICK g \in [SUBSET S -> Int] : IsSum(f, S, g)
  BY SumExists
<1>2. S \in SUBSET S /\ rest(S) \in SUBSET S
  BY PickedIsElement
<1>3. g[S] = f[picked(S)] + g[rest(S)]
  BY <1>1, <1>2, IsSumUnfold
<1>4. QED BY <1>1, <1>2, <1>3, SumSolves

\* A sum of integers is an integer.
LEMMA SumType ==
  ASSUME NEW f, NEW S, IsFiniteSet(S), \A x \in S : f[x] \in Int
  PROVE  SumFunctionOnSet(f, S) \in Int
<1>1. PICK g \in [SUBSET S -> Int] : IsSum(f, S, g)
  BY SumExists
<1>2. QED BY <1>1, SumSolves

\* Any element may be taken out first.
LEMMA SumTakeOut ==
  ASSUME NEW f, NEW S, IsFiniteSet(S), \A x \in S : f[x] \in Int, NEW x \in S
  PROVE  SumFunctionOnSet(f, S) = f[x] + SumFunctionOnSet(f, S \ {x})
<1> DEFINE Total(U) == SumFunctionOnSet(f, U)
           Bad == {U \in SUBSET S : \E y \in U : Total(U) # f[y] + Total(U \ {y})}
<1>1. SUFFICES Bad = {}
  OBVIOUS
<1>2. SUFFICES ASSUME Bad # {} PROVE FALSE
  OBVIOUS
<1>3. PICK T \in Bad : \A U \in Bad : U \subseteq T => U = T
  <2>1. Bad \in SUBSET SUBSET S
    OBVIOUS
  <2> HIDE DEF Bad
  <2>2. QED BY <1>2, <2>1, SmallestSubset
<1>4. T \in SUBSET S
  BY <1>3
<1>5. PICK y \in T : Total(T) # f[y] + Total(T \ {y})
  BY <1>3
<1> DEFINE c == picked(T)
           U == T \ {y}
           V == T \ {c}
           W == (T \ {y}) \ {c}
<1>6. c \in T /\ V = rest(T)
  BY <1>5, PickedIsElement DEF rest
<1>7. Total(T) = f[c] + Total(V)
  <2>1. IsFiniteSet(T) /\ T # {} /\ \A z \in T : f[z] \in Int
    BY <1>4, <1>5, FS_Subset
  <2>2. QED BY <2>1, <1>6, SumPicks
<1>8. c # y
  BY <1>5, <1>7
<1>9. /\ Total(U) = f[c] + Total(W)
      /\ Total(V) = f[y] + Total(W)
  <2>1. U \notin Bad /\ V \notin Bad
    <3>1. U \subseteq T /\ V \subseteq T /\ U # T /\ V # T
      BY <1>5, <1>6
    <3> HIDE DEF Bad, U, V
    <3>2. QED BY <3>1, <1>3
  <2>2. U \in SUBSET S /\ V \in SUBSET S /\ c \in U /\ y \in V
    BY <1>4, <1>5, <1>6, <1>8
  <2>3. W = U \ {c} /\ W = V \ {y}
    OBVIOUS
  <2> HIDE DEF U, V, W, c
  <2>4. QED BY <2>1, <2>2, <2>3
<1>10. Total(W) \in Int /\ f[c] \in Int /\ f[y] \in Int
  <2>1. W \in SUBSET S /\ c \in S /\ y \in S
    BY <1>4, <1>5, <1>6
  <2> HIDE DEF W, c
  <2>2. IsFiniteSet(W) /\ \A z \in W : f[z] \in Int
    BY <2>1, FS_Subset
  <2>3. QED BY <2>1, <2>2, SumType
<1>11. QED BY <1>5, <1>7, <1>9, <1>10

\* Two functions that agree have the same sum.
LEMMA SumSame ==
  ASSUME NEW f, NEW g, NEW S, IsFiniteSet(S),
         \A x \in S : f[x] \in Int /\ g[x] = f[x]
  PROVE  SumFunctionOnSet(g, S) = SumFunctionOnSet(f, S)
<1> DEFINE Bad == {U \in SUBSET S : SumFunctionOnSet(g, U) # SumFunctionOnSet(f, U)}
<1>1. SUFFICES ASSUME Bad # {} PROVE FALSE
  OBVIOUS
<1>2. PICK T \in Bad : \A U \in Bad : U \subseteq T => U = T
  <2>1. Bad \in SUBSET SUBSET S
    OBVIOUS
  <2> HIDE DEF Bad
  <2>2. QED BY <1>1, <2>1, SmallestSubset
<1>3. T # {}
  BY <1>2, SumOfNothing
<1>4. rest(T) \notin Bad
  <2>1. rest(T) \subseteq T /\ rest(T) # T
    BY <1>3, PickedIsElement
  <2>2. QED BY <1>2, <2>1
<1>5. /\ picked(T) \in S /\ rest(T) \in SUBSET S
      /\ IsFiniteSet(T) /\ \A x \in T : f[x] \in Int /\ g[x] \in Int
  BY <1>2, <1>3, PickedIsElement, FS_Subset
<1>6. /\ SumFunctionOnSet(f, T) = f[picked(T)] + SumFunctionOnSet(f, rest(T))
      /\ SumFunctionOnSet(g, T) = g[picked(T)] + SumFunctionOnSet(g, rest(T))
  BY <1>3, <1>5, SumPicks
<1>7. QED BY <1>2, <1>4, <1>5, <1>6

\* The sum of two sums.
LEMMA SumPointwise ==
  ASSUME NEW f, NEW g, NEW h, NEW S, IsFiniteSet(S),
         \A x \in S : f[x] \in Int /\ g[x] \in Int /\ h[x] = f[x] + g[x]
  PROVE  SumFunctionOnSet(h, S) = SumFunctionOnSet(f, S) + SumFunctionOnSet(g, S)
<1> DEFINE Total(k, U) == SumFunctionOnSet(k, U)
           Bad == {U \in SUBSET S : Total(h, U) # Total(f, U) + Total(g, U)}
<1>1. SUFFICES ASSUME Bad # {} PROVE FALSE
  OBVIOUS
<1>2. PICK T \in Bad : \A U \in Bad : U \subseteq T => U = T
  <2>1. Bad \in SUBSET SUBSET S
    OBVIOUS
  <2> HIDE DEF Bad
  <2>2. QED BY <1>1, <2>1, SmallestSubset
<1>3. T # {}
  <2>1. Total(f, {}) = 0 /\ Total(g, {}) = 0 /\ Total(h, {}) = 0
    BY SumOfNothing
  <2>2. Total(h, {}) = Total(f, {}) + Total(g, {})
    BY <2>1
  <2> HIDE DEF Total
  <2>3. QED BY <1>2, <2>2
<1>4. rest(T) \notin Bad
  <2>1. rest(T) \subseteq T /\ rest(T) # T
    BY <1>3, PickedIsElement
  <2>2. QED BY <1>2, <2>1
<1>5. /\ picked(T) \in S /\ rest(T) \in SUBSET S
      /\ IsFiniteSet(T) /\ IsFiniteSet(rest(T))
  BY <1>2, <1>3, PickedIsElement, FS_Subset
<1>6. /\ Total(f, T) = f[picked(T)] + Total(f, rest(T))
      /\ Total(g, T) = g[picked(T)] + Total(g, rest(T))
      /\ Total(h, T) = h[picked(T)] + Total(h, rest(T))
  <2>1. \A x \in T : f[x] \in Int /\ g[x] \in Int /\ h[x] \in Int
    BY <1>2
  <2>2. QED BY <1>3, <1>5, <2>1, SumPicks
<1>7. Total(f, rest(T)) \in Int /\ Total(g, rest(T)) \in Int
  <2>1. \A x \in rest(T) : f[x] \in Int /\ g[x] \in Int
    BY <1>5
  <2>2. QED BY <1>5, <2>1, SumType
<1>8. QED BY <1>2, <1>4, <1>5, <1>6, <1>7

\* A sum of naturals is a natural, no smaller than any of them.
LEMMA SumOfNaturals ==
  ASSUME NEW f, NEW S, IsFiniteSet(S), \A x \in S : f[x] \in Nat
  PROVE  /\ SumFunctionOnSet(f, S) \in Nat
         /\ \A x \in S : f[x] <= SumFunctionOnSet(f, S)
<1> DEFINE Bad == {U \in SUBSET S : SumFunctionOnSet(f, U) \notin Nat}
<1>1. Bad = {}
  <2>1. SUFFICES ASSUME Bad # {} PROVE FALSE
    OBVIOUS
  <2>2. PICK T \in Bad : \A U \in Bad : U \subseteq T => U = T
    <3>1. Bad \in SUBSET SUBSET S
      OBVIOUS
    <3> HIDE DEF Bad
    <3>2. QED BY <2>1, <3>1, SmallestSubset
  <2>3. T # {}
    <3>1. SumFunctionOnSet(f, {}) \in Nat
      BY SumOfNothing
    <3>2. QED BY <2>2, <3>1
  <2>4. /\ rest(T) \notin Bad /\ rest(T) \in SUBSET S
        /\ picked(T) \in S /\ IsFiniteSet(T)
    <3>1. rest(T) \subseteq T /\ rest(T) # T /\ picked(T) \in T
      BY <2>3, PickedIsElement
    <3>2. QED BY <2>2, <3>1, FS_Subset
  <2>5. SumFunctionOnSet(f, T) = f[picked(T)] + SumFunctionOnSet(f, rest(T))
    <3>1. \A x \in T : f[x] \in Int
      BY <2>2
    <3>2. QED BY <2>3, <2>4, <3>1, SumPicks
  <2>6. QED BY <2>2, <2>4, <2>5
<1>2. ASSUME NEW x \in S PROVE f[x] <= SumFunctionOnSet(f, S)
  <2>1. SumFunctionOnSet(f, S) = f[x] + SumFunctionOnSet(f, S \ {x})
    <3>1. \A y \in S : f[y] \in Int
      OBVIOUS
    <3>2. QED BY <3>1, SumTakeOut
  <2>2. SumFunctionOnSet(f, S \ {x}) \in Nat
    BY <1>1
  <2>3. QED BY <2>1, <2>2
<1>3. QED BY <1>1, <1>2

\* The same summand everywhere.
LEMMA SumOfConstant ==
  ASSUME NEW f, NEW S, IsFiniteSet(S), NEW c \in Int, \A x \in S : f[x] = c
  PROVE  SumFunctionOnSet(f, S) = c * Cardinality(S)
<1> DEFINE Bad == {U \in SUBSET S : SumFunctionOnSet(f, U) # c * Cardinality(U)}
<1>1. SUFFICES ASSUME Bad # {} PROVE FALSE
  OBVIOUS
<1>2. PICK T \in Bad : \A U \in Bad : U \subseteq T => U = T
  <2>1. Bad \in SUBSET SUBSET S
    OBVIOUS
  <2> HIDE DEF Bad
  <2>2. QED BY <1>1, <2>1, SmallestSubset
<1>3. T # {}
  <2>1. c * Cardinality({}) = 0
    BY FS_EmptySet
  <2>2. QED BY <1>2, <2>1, SumOfNothing
<1>4. /\ rest(T) \notin Bad /\ rest(T) \in SUBSET S
      /\ picked(T) \in T /\ IsFiniteSet(T) /\ rest(T) = T \ {picked(T)}
  <2>1. rest(T) \subseteq T /\ rest(T) # T /\ picked(T) \in T
    BY <1>3, PickedIsElement
  <2>2. QED BY <1>2, <2>1, FS_Subset DEF rest
<1>5. SumFunctionOnSet(f, T) = f[picked(T)] + SumFunctionOnSet(f, rest(T))
  <2>1. \A x \in T : f[x] \in Int
    BY <1>2
  <2>2. QED BY <1>3, <1>4, <2>1, SumPicks
<1>6. /\ Cardinality(T) \in Nat
      /\ Cardinality(rest(T)) = Cardinality(T) - 1
  BY <1>4, FS_RemoveElement, FS_CardinalityType
<1>7. SumFunctionOnSet(f, T) = c + c * (Cardinality(T) - 1)
  BY <1>2, <1>4, <1>5, <1>6
<1>8. c + c * (Cardinality(T) - 1) = c * Cardinality(T)
  BY <1>6
<1>9. QED BY <1>2, <1>7, <1>8

\* The sum over two sets that share nothing.
LEMMA SumUnion ==
  ASSUME NEW f, NEW S, NEW R, IsFiniteSet(S), IsFiniteSet(R), S \cap R = {},
         \A x \in S \cup R : f[x] \in Int
  PROVE  SumFunctionOnSet(f, S \cup R)
           = SumFunctionOnSet(f, S) + SumFunctionOnSet(f, R)
<1> DEFINE Total(U) == SumFunctionOnSet(f, U)
           Bad == {U \in SUBSET R : Total(S \cup U) # Total(S) + Total(U)}
<1>1. SUFFICES ASSUME Bad # {} PROVE FALSE
  OBVIOUS
<1>2. PICK T \in Bad : \A U \in Bad : U \subseteq T => U = T
  <2>1. Bad \in SUBSET SUBSET R
    OBVIOUS
  <2> HIDE DEF Bad
  <2>2. QED BY <1>1, <2>1, SmallestSubset
<1>3. Total(S) \in Int /\ Total({}) = 0
  BY SumType, SumOfNothing
<1>4. PICK x \in T : x \in R
  <2>1. S \cup {} = S
    OBVIOUS
  <2>2. Total(S \cup {}) = Total(S) + Total({})
    BY <1>3, <2>1
  <2> HIDE DEF Total
  <2>3. T # {}
    BY <1>2, <2>2
  <2>4. QED BY <1>2, <2>3
<1> DEFINE U == T \ {x}
<1>5. /\ T \in SUBSET R /\ U \in SUBSET R /\ U # T /\ U \notin Bad
      /\ (S \cup T) \ {x} = S \cup U
  <2>1. T \in SUBSET R /\ U \in SUBSET R /\ U # T /\ U \subseteq T
    BY <1>2
  <2>2. (S \cup T) \ {x} = S \cup U
    BY <1>4
  <2> HIDE DEF U, Bad
  <2>3. QED BY <1>2, <2>1, <2>2
<1> HIDE DEF U
<1>6. /\ IsFiniteSet(T) /\ IsFiniteSet(U) /\ IsFiniteSet(S \cup T)
      /\ x \in S \cup T /\ \A y \in S \cup T : f[y] \in Int
      /\ \A y \in T : f[y] \in Int
      /\ \A y \in U : f[y] \in Int
  BY <1>4, <1>5, FS_Subset, FS_Union
<1>7. /\ Total(S \cup T) = f[x] + Total(S \cup U)
      /\ Total(T) = f[x] + Total(U)
  <2>1. SumFunctionOnSet(f, S \cup T) = f[x] + SumFunctionOnSet(f, (S \cup T) \ {x})
    BY <1>6, SumTakeOut
  <2>2. SumFunctionOnSet(f, T) = f[x] + SumFunctionOnSet(f, T \ {x})
    BY <1>6, SumTakeOut
  <2>3. QED BY <1>5, <2>1, <2>2 DEF U
<1>8. Total(S \cup U) = Total(S) + Total(U) /\ Total(S \cup T) # Total(S) + Total(T)
  BY <1>2, <1>5
<1>9. Total(U) \in Int /\ f[x] \in Int
  BY <1>6, SumType
<1> HIDE DEF Total, Bad
<1>10. QED BY <1>3, <1>7, <1>8, <1>9

-----------------------------------------------------------------------------
(* Sums of functions, as the modules write them.                           *)

Summable(f) == IsFiniteSet(DOMAIN f) /\ \A x \in DOMAIN f : f[x] \in Int

\* One argument comes in.
LEMMA SumExtended ==
  ASSUME NEW f, NEW g, NEW x, Summable(f), x \notin DOMAIN f, g[x] \in Int,
         DOMAIN g = DOMAIN f \cup {x}, \A y \in DOMAIN f : g[y] = f[y]
  PROVE  SumFunction(g) = SumFunction(f) + g[x]
<1>1. IsFiniteSet(DOMAIN g) /\ \A y \in DOMAIN g : g[y] \in Int
  BY FS_AddElement DEF Summable
<1>2. SumFunctionOnSet(g, DOMAIN g) = g[x] + SumFunctionOnSet(g, DOMAIN g \ {x})
  BY <1>1, SumTakeOut
<1>3. DOMAIN g \ {x} = DOMAIN f
  OBVIOUS
<1>4. SumFunctionOnSet(g, DOMAIN f) = SumFunctionOnSet(f, DOMAIN f)
  BY SumSame DEF Summable
<1>5. SumFunctionOnSet(f, DOMAIN f) \in Int
  BY SumType DEF Summable
<1>6. QED BY <1>2, <1>3, <1>4, <1>5 DEF SumFunction

\* One argument changes its value.
LEMMA SumChanged ==
  ASSUME NEW f, NEW g, NEW x \in DOMAIN f, Summable(f), g[x] \in Int,
         DOMAIN g = DOMAIN f, \A y \in DOMAIN f \ {x} : g[y] = f[y]
  PROVE  SumFunction(g) = SumFunction(f) - f[x] + g[x]
<1> DEFINE R == DOMAIN f \ {x}
<1>1. /\ IsFiniteSet(DOMAIN f) /\ IsFiniteSet(R)
      /\ \A y \in DOMAIN f : f[y] \in Int /\ g[y] \in Int
  BY FS_RemoveElement DEF Summable
<1>2. /\ SumFunctionOnSet(f, DOMAIN f) = f[x] + SumFunctionOnSet(f, R)
      /\ SumFunctionOnSet(g, DOMAIN f) = g[x] + SumFunctionOnSet(g, R)
  BY <1>1, SumTakeOut
<1>3. /\ SumFunctionOnSet(g, R) = SumFunctionOnSet(f, R)
      /\ SumFunctionOnSet(f, R) \in Int
  <2>1. \A y \in R : f[y] \in Int /\ g[y] = f[y]
    BY <1>1
  <2> HIDE DEF R
  <2>2. QED BY <1>1, <2>1, SumSame, SumType
<1>4. QED BY <1>1, <1>2, <1>3 DEF SumFunction

LEMMA SumIsInteger ==
  ASSUME NEW f, Summable(f)
  PROVE  SumFunction(f) \in Int
  BY SumType DEF SumFunction, Summable

\* A sum of nothing but zeros.
LEMMA SumOfZeros ==
  ASSUME NEW f, IsFiniteSet(DOMAIN f), \A x \in DOMAIN f : f[x] = 0
  PROVE  SumFunction(f) = 0
<1>1. SumFunctionOnSet(f, DOMAIN f) = 0 * Cardinality(DOMAIN f)
  BY SumOfConstant
<1>2. Cardinality(DOMAIN f) \in Nat
  BY FS_CardinalityType
<1>3. QED BY <1>1, <1>2 DEF SumFunction

\* Two functions on sets that share nothing, joined into one.
LEMMA SumJoined ==
  ASSUME NEW f, NEW g, NEW h, Summable(f), Summable(g),
         DOMAIN f \cap DOMAIN g = {}, DOMAIN h = DOMAIN f \cup DOMAIN g,
         \A x \in DOMAIN f : h[x] = f[x], \A x \in DOMAIN g : h[x] = g[x]
  PROVE  Summable(h) /\ SumFunction(h) = SumFunction(f) + SumFunction(g)
<1>1. Summable(h)
  BY FS_Union DEF Summable
<1>2. SumFunctionOnSet(h, DOMAIN h)
        = SumFunctionOnSet(h, DOMAIN f) + SumFunctionOnSet(h, DOMAIN g)
  BY <1>1, SumUnion DEF Summable
<1>3. /\ SumFunctionOnSet(h, DOMAIN f) = SumFunctionOnSet(f, DOMAIN f)
      /\ SumFunctionOnSet(h, DOMAIN g) = SumFunctionOnSet(g, DOMAIN g)
  BY SumSame DEF Summable
<1>4. QED BY <1>1, <1>2, <1>3 DEF SumFunction

\* Two functions on the same set, added argument by argument.
LEMMA SumAdded ==
  ASSUME NEW f, NEW g, NEW h, Summable(f), Summable(g),
         DOMAIN g = DOMAIN f, DOMAIN h = DOMAIN f,
         \A x \in DOMAIN f : h[x] = f[x] + g[x]
  PROVE  Summable(h) /\ SumFunction(h) = SumFunction(f) + SumFunction(g)
<1>1. SumFunctionOnSet(h, DOMAIN f)
        = SumFunctionOnSet(f, DOMAIN f) + SumFunctionOnSet(g, DOMAIN f)
  BY SumPointwise DEF Summable
<1>2. QED BY <1>1 DEF SumFunction, Summable

LEMMA SumOfNats ==
  ASSUME NEW f, IsFiniteSet(DOMAIN f), \A x \in DOMAIN f : f[x] \in Nat
  PROVE  /\ Summable(f) /\ SumFunction(f) \in Nat
         /\ \A x \in DOMAIN f : f[x] <= SumFunction(f)
  BY SumOfNaturals DEF SumFunction, Summable

\* The same number on some arguments and nothing on the others.
LEMMA SumOfEqualParts ==
  ASSUME NEW f, IsFiniteSet(DOMAIN f), NEW S, S \subseteq DOMAIN f, NEW c \in Int,
         \A x \in S : f[x] = c, \A x \in DOMAIN f \ S : f[x] = 0
  PROVE  SumFunction(f) = c * Cardinality(S)
<1> DEFINE R == DOMAIN f \ S
<1>1. /\ IsFiniteSet(S) /\ IsFiniteSet(R) /\ S \cap R = {} /\ S \cup R = DOMAIN f
      /\ \A x \in S \cup R : f[x] \in Int
      /\ \A x \in R : f[x] = 0
  <2>1. IsFiniteSet(S) /\ IsFiniteSet(R)
    BY FS_Subset
  <2>2. \A x \in R : f[x] = 0
    OBVIOUS
  <2>3. S \cap R = {} /\ S \cup R = DOMAIN f
    OBVIOUS
  <2>4. \A x \in S \cup R : f[x] \in Int
    <3>1. ASSUME NEW x \in S \cup R PROVE f[x] = c \/ f[x] = 0
      BY <2>2
    <3>2. QED BY <3>1
  <2>5. QED BY <2>1, <2>2, <2>3, <2>4
<1> HIDE DEF R
<1>2. SumFunctionOnSet(f, S \cup R) = SumFunctionOnSet(f, S) + SumFunctionOnSet(f, R)
  BY <1>1, SumUnion
<1>3. SumFunctionOnSet(f, S) = c * Cardinality(S)
  BY <1>1, SumOfConstant
<1>4. SumFunctionOnSet(f, R) = 0 * Cardinality(R)
  BY <1>1, SumOfConstant
<1>5. Cardinality(R) \in Nat /\ Cardinality(S) \in Nat
  BY <1>1, FS_CardinalityType
<1>6. QED BY <1>1, <1>2, <1>3, <1>4, <1>5 DEF SumFunction

\* Every summand multiplied by the same number.
LEMMA SumScaled ==
  ASSUME NEW f, NEW g, NEW S, IsFiniteSet(S), NEW c \in Int,
         \A x \in S : f[x] \in Int /\ g[x] = c * f[x]
  PROVE  SumFunctionOnSet(g, S) = c * SumFunctionOnSet(f, S)
<1> DEFINE Bad == {U \in SUBSET S : SumFunctionOnSet(g, U) # c * SumFunctionOnSet(f, U)}
<1>1. SUFFICES ASSUME Bad # {} PROVE FALSE
  OBVIOUS
<1>2. PICK T \in Bad : \A U \in Bad : U \subseteq T => U = T
  <2>1. Bad \in SUBSET SUBSET S
    OBVIOUS
  <2> HIDE DEF Bad
  <2>2. QED BY <1>1, <2>1, SmallestSubset
<1>3. T # {}
  <2>1. c * 0 = 0
    OBVIOUS
  <2>2. QED BY <1>2, <2>1, SumOfNothing
<1>4. rest(T) \notin Bad
  <2>1. rest(T) \subseteq T /\ rest(T) # T
    BY <1>3, PickedIsElement
  <2>2. QED BY <1>2, <2>1
<1>5. /\ picked(T) \in S /\ rest(T) \in SUBSET S
      /\ IsFiniteSet(T) /\ IsFiniteSet(rest(T))
  BY <1>2, <1>3, PickedIsElement, FS_Subset
<1>6. ASSUME NEW x \in S PROVE f[x] \in Int /\ g[x] \in Int
  <2>1. c * f[x] \in Int
    OBVIOUS
  <2>2. QED BY <2>1
<1>7. /\ SumFunctionOnSet(f, T) = f[picked(T)] + SumFunctionOnSet(f, rest(T))
      /\ SumFunctionOnSet(g, T) = g[picked(T)] + SumFunctionOnSet(g, rest(T))
  <2>1. \A x \in T : f[x] \in Int /\ g[x] \in Int
    BY <1>2, <1>6
  <2>2. QED BY <1>3, <1>5, <2>1, SumPicks
<1>8. SumFunctionOnSet(f, rest(T)) \in Int
  <2>1. \A x \in rest(T) : f[x] \in Int
    BY <1>5
  <2>2. QED BY <1>5, <2>1, SumType
<1>9. SumFunctionOnSet(g, rest(T)) = c * SumFunctionOnSet(f, rest(T))
  BY <1>4, <1>5
<1>10. \A y, z \in Int : c * (y + z) = c * y + c * z
  OBVIOUS
<1>11. SumFunctionOnSet(g, T) = c * SumFunctionOnSet(f, T)
  BY <1>5, <1>7, <1>8, <1>9, <1>10
<1>12. QED BY <1>2, <1>11

\* No summand larger, no larger a sum.
LEMMA SumOrdered ==
  ASSUME NEW f, NEW g, NEW S, IsFiniteSet(S),
         \A x \in S : f[x] \in Int /\ g[x] \in Int /\ f[x] <= g[x]
  PROVE  SumFunctionOnSet(f, S) <= SumFunctionOnSet(g, S)
<1> DEFINE d == [x \in S |-> g[x] - f[x]]
<1>1. \A x \in S : d[x] \in Nat /\ g[x] = f[x] + d[x]
  OBVIOUS
<1> HIDE DEF d
<1>2. SumFunctionOnSet(g, S) = SumFunctionOnSet(f, S) + SumFunctionOnSet(d, S)
  BY <1>1, SumPointwise
<1>3. SumFunctionOnSet(d, S) \in Nat
  BY <1>1, SumOfNaturals
<1>4. SumFunctionOnSet(f, S) \in Int
  BY SumType
<1>5. QED BY <1>2, <1>3, <1>4

\* Arguments of value 0 may be left out.
LEMMA SumOfSupport ==
  ASSUME NEW f, IsFiniteSet(DOMAIN f), NEW S, S \subseteq DOMAIN f,
         \A x \in S : f[x] \in Int, \A x \in DOMAIN f \ S : f[x] = 0
  PROVE  SumFunction(f) = SumFunctionOnSet(f, S)
<1> DEFINE R == DOMAIN f \ S
<1>1. /\ IsFiniteSet(S) /\ IsFiniteSet(R) /\ S \cap R = {} /\ S \cup R = DOMAIN f
      /\ \A x \in R : f[x] = 0
  BY FS_Subset
<1> HIDE DEF R
<1>2. \A x \in S \cup R : f[x] \in Int
  BY <1>1
<1>3. SumFunctionOnSet(f, S \cup R) = SumFunctionOnSet(f, S) + SumFunctionOnSet(f, R)
  BY <1>1, <1>2, SumUnion
<1>4. SumFunctionOnSet(f, R) = 0 * Cardinality(R)
  BY <1>1, SumOfConstant
<1>5. Cardinality(R) \in Nat /\ SumFunctionOnSet(f, S) \in Int
  BY <1>1, FS_CardinalityType, SumType
<1>6. QED BY <1>1, <1>3, <1>4, <1>5 DEF SumFunction

-----------------------------------------------------------------------------
(* Quotients, which shares of a sum are cut with.                          *)

LEMMA QuotientIsNatural ==
  ASSUME NEW a \in Nat, NEW b \in Nat, NEW c \in Nat \ {0}
  PROVE  (a * b) \div c \in Nat
<1>1. a * b \in Nat
  OBVIOUS
<1>2. \A x \in Nat : x \div c \in Nat
  OBVIOUS
<1>3. QED BY <1>1, <1>2

LEMMA QuotientBounds ==
  ASSUME NEW a \in Nat, NEW b \in Nat \ {0}
  PROVE  a \div b \in Nat /\ b * (a \div b) <= a /\ a < b * ((a \div b) + 1)
  OBVIOUS

LEMMA ProductOrdered ==
  ASSUME NEW a \in Nat, NEW b \in Nat, NEW c \in Nat, a <= b
  PROVE  a * c <= b * c /\ c * a <= c * b
  OBVIOUS

\* A quotient is the largest number whose product with the divisor fits.
LEMMA QuotientIsLargest ==
  ASSUME NEW a \in Nat, NEW b \in Nat \ {0}, NEW q \in Nat, b * q <= a
  PROVE  q <= a \div b
<1> DEFINE d == a \div b
<1>1. d \in Nat /\ a < b * (d + 1)
  BY QuotientBounds
<1> HIDE DEF d
<1> SUFFICES ASSUME q > d PROVE FALSE
  BY <1>1 DEF d
<1>2. b * (d + 1) <= b * q
  BY <1>1, ProductOrdered
<1>3. b * q \in Nat /\ b * (d + 1) \in Nat
  BY <1>1
<1>4. QED BY <1>1, <1>2, <1>3

\* A smaller divisor leaves no smaller a quotient.
LEMMA QuotientOrdered ==
  ASSUME NEW a \in Nat, NEW b \in Nat \ {0}, NEW c \in Nat \ {0}, b <= c
  PROVE  a \div c <= a \div b
<1> DEFINE q == a \div c
<1>1. q \in Nat /\ c * q <= a
  BY QuotientBounds
<1> HIDE DEF q
<1>2. b * q <= c * q /\ b * q \in Nat /\ c * q \in Nat
  BY <1>1, ProductOrdered
<1>3. b * q <= a
  BY <1>1, <1>2
<1>4. q <= a \div b
  BY <1>1, <1>3, QuotientIsLargest
<1>5. QED BY <1>4 DEF q

-----------------------------------------------------------------------------
(* Loops: a recursive function over a number of rounds exists because a    *)
(* set of rounds without it would have a first one.                        *)

\* A set of numbers has a least member.
LEMMA LeastNumber ==
  ASSUME NEW N \in Nat, NEW S \in SUBSET (0..N), S # {}
  PROVE  \E k \in S : \A j \in S : k <= j
<1> DEFINE below(k) == 0..k
           B == {below(k) : k \in S}
<1>1. PICK T \in B : \A U \in B : U \subseteq T => U = T
  <2> DEFINE D == 0..N
  <2>1. IsFiniteSet(D)
    BY FS_Interval
  <2>2. \A k \in S : below(k) \subseteq D
    OBVIOUS
  <2>3. B \in SUBSET SUBSET D /\ B # {}
    <3> HIDE DEF D, below
    <3>1. QED BY <2>2
  <2> HIDE DEF B, D
  <2>4. QED BY <2>1, <2>3, SmallestSubset
<1>2. PICK k \in S : T = below(k)
  BY <1>1
<1>3. ASSUME NEW j \in S, ~(k <= j)
      PROVE  FALSE
  <2>1. below(j) \subseteq below(k) /\ k \notin below(j) /\ k \in below(k)
    BY <1>3
  <2>2. below(j) \in B
    OBVIOUS
  <2> HIDE DEF below, B
  <2>3. QED BY <1>1, <1>2, <2>1, <2>2
<1>4. QED BY <1>3

\* What holds before the first round and is kept by every round.
LEMMA LoopStays ==
  ASSUME NEW N \in Nat, NEW g, NEW P,
         g[0] \subseteq P[0],
         \A n \in 1..N : g[n - 1] \subseteq P[n - 1] => g[n] \subseteq P[n]
  PROVE  \A n \in 0..N : g[n] \subseteq P[n]
<1> DEFINE B == {n \in 0..N : ~(g[n] \subseteq P[n])}
<1> SUFFICES ASSUME B # {} PROVE FALSE
  OBVIOUS
<1>1. PICK k \in B : \A j \in B : k <= j
  <2>1. B \in SUBSET (0..N)
    OBVIOUS
  <2> HIDE DEF B
  <2>2. QED BY <2>1, LeastNumber
<1>2. k \in 1..N /\ k - 1 \in 0..N
  BY <1>1
<1>3. k - 1 \notin B
  <2> HIDE DEF B
  <2>1. QED BY <1>1, <1>2
<1>4. QED BY <1>1, <1>2, <1>3

\* f has the values after each of N rounds from a first one.
isLoop(N, U, first, next, f) ==
  f \in [0..N -> U] /\ f[0] = first /\ \A n \in 1..N : f[n] = next[n][f[n - 1]]

LEMMA LoopExists ==
  ASSUME NEW N \in Nat, NEW U, NEW first \in U, NEW next \in [1..N -> [U -> U]]
  PROVE  \E f : isLoop(N, U, first, next, f)
<1> DEFINE loop(f, m) == f[0] = first /\ \A n \in 1..m : f[n] = next[n][f[n - 1]]
           B == {m \in 0..N : ~ \E f \in [0..m -> U] : loop(f, m)}
<1>1. SUFFICES ASSUME B # {} PROVE FALSE
  <2>0. SUFFICES \E f \in [0..N -> U] : loop(f, N)
    BY DEF isLoop
  <2>1. N \notin B => \E f \in [0..N -> U] : loop(f, N)
    <3> HIDE DEF loop
    <3>1. QED OBVIOUS
  <2> HIDE DEF B
  <2>2. QED BY <2>1
<1>2. PICK k \in B : \A j \in B : k <= j
  <2>1. B \in SUBSET (0..N)
    OBVIOUS
  <2> HIDE DEF B
  <2>2. QED BY <1>1, <2>1, LeastNumber
<1>3. k # 0
  <2> SUFFICES ASSUME k = 0 PROVE FALSE
    OBVIOUS
  <2> DEFINE f == [n \in 0..0 |-> first]
  <2>1. f \in [0..k -> U] /\ f[0] = first /\ 1..k = {}
    OBVIOUS
  <2>2. loop(f, k)
    BY <2>1
  <2> HIDE DEF f, loop
  <2>3. QED BY <1>2, <2>1, <2>2
<1>4. k \in 1..N /\ k - 1 \in 0..N
  BY <1>2, <1>3
<1>5. PICK f \in [0..(k - 1) -> U] : loop(f, k - 1)
  <2>1. k - 1 \notin B
    <3> HIDE DEF B
    <3>1. QED BY <1>2, <1>4
  <2> HIDE DEF loop
  <2>2. QED BY <1>4, <2>1
<1> DEFINE more == next[k][f[k - 1]]
           g == [n \in 0..k |-> IF n = k THEN more ELSE f[n]]
<1>6. more \in U
  <2>1. f[k - 1] \in U /\ next[k] \in [U -> U]
    BY <1>4
  <2>2. QED BY <2>1
<1> HIDE DEF more
<1>7. g \in [0..k -> U]
  BY <1>4, <1>6
<1>8. loop(g, k)
  <2>1. g[0] = first
    BY <1>4, <1>5
  <2>2. ASSUME NEW n \in 1..k
        PROVE  g[n] = next[n][g[n - 1]]
    <3>1. g[n - 1] = f[n - 1]
      BY <1>4
    <3>2. CASE n = k
      BY <1>4, <3>1, <3>2 DEF more
    <3>3. CASE n # k
      <4>1. n \in 1..(k - 1) /\ g[n] = f[n]
        BY <1>4, <3>3
      <4>2. QED BY <1>5, <3>1, <4>1
    <3>4. QED BY <3>2, <3>3
  <2> HIDE DEF g
  <2>3. QED BY <2>1, <2>2
<1> HIDE DEF g, loop
<1>9. QED BY <1>2, <1>7, <1>8

\* The same for sets of values, when a round takes a value to any of several.
isSetLoop(N, U, first, next, f) ==
  /\ f \in [0..N -> SUBSET U] /\ f[0] = {first}
  /\ \A n \in 1..N : f[n] = UNION {next[s] : s \in f[n - 1]}

LEMMA LoopOfSets ==
  ASSUME NEW N \in Nat, NEW U, NEW first \in U, NEW next \in [U -> SUBSET U]
  PROVE  \E f : isSetLoop(N, U, first, next, f)
<1> DEFINE D == SUBSET U
           all == [S \in D |-> UNION {next[s] : s \in S}]
           each == [n \in 1..N |-> all]
<1>1. all \in [D -> D]
  <2>1. ASSUME NEW S \in D PROVE UNION {next[s] : s \in S} \in D
    OBVIOUS
  <2>2. QED BY <2>1
<1> DEFINE one == {first}
<1>2. one \in D
  OBVIOUS
<1>3. \A S \in D : all[S] = UNION {next[s] : s \in S}
  OBVIOUS
<1> HIDE DEF all
<1>4. each \in [1..N -> [D -> D]] /\ \A n \in 1..N : each[n] = all
  BY <1>1
<1> HIDE DEF each
<1> HIDE DEF one, D
<1>5. PICK f : isLoop(N, D, one, each, f)
  BY <1>2, <1>4, LoopExists
<1>6. /\ f \in [0..N -> D] /\ f[0] = one
      /\ \A n \in 1..N : f[n] = each[n][f[n - 1]]
  BY <1>5 DEF isLoop
<1>7. \A n \in 1..N : f[n - 1] \in D
  BY <1>6
<1>8. \A n \in 1..N : f[n] = UNION {next[s] : s \in f[n - 1]}
  BY <1>3, <1>4, <1>6, <1>7
<1>9. QED BY <1>6, <1>8 DEF one, D, isSetLoop
=============================================================================

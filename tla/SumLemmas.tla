------------------------------- MODULE SumLemmas -------------------------------
(***************************************************************************)
(* Facts about SumFunctionOnSet(f, S), the sum of f[x] over the members x of *)
(* a finite set S, which the statistics of the gateway, the spend of a cycle *)
(* and the calls under way at the budget gate are stated with.  The operator *)
(* is a fold: it chooses a member, adds its value and goes on with the rest. *)
(* Nothing here takes an operator as a parameter; where one would argue by   *)
(* induction on S, a least set that breaks the claim is refuted (SetMin).    *)
(* At the end: sets of naturals have a largest and a smallest member,        *)
(* quotients compare as their parts do, and a function that is given by its  *)
(* start and by a step exists and is the only one.                           *)
(***************************************************************************)
EXTENDS Functions, FiniteSets, Integers, FiniteSetTheorems, WellFoundedInduction, TLAPS

\* The member the fold takes first.
Chosen(S) == CHOOSE x \in S : TRUE

\* The fold's recursion: what its function g says of a set s.
FoldStep(f, g, s) == IF s = {} THEN 0 ELSE f[Chosen(s)] + g[s \ {Chosen(s)}]

\* g is the function of the recursion over the subsets of S.
Solves(f, S, g) == g = [s \in SUBSET S |-> FoldStep(f, g, s)]

\* The sum over s is what the recursion says, in terms of a smaller sum.
Unfolded(f, s) ==
    SumFunctionOnSet(f, s) =
        IF s = {} THEN 0 ELSE f[Chosen(s)] + SumFunctionOnSet(f, s \ {Chosen(s)})

-----------------------------------------------------------------------------
\* The sum is the function of its recursion, applied to the whole set.
LEMMA SumIsFold ==
  ASSUME NEW f, NEW S
  PROVE  SumFunctionOnSet(f, S) = (CHOOSE g : Solves(f, S, g))[S]
  BY DEF SumFunctionOnSet, FoldFunctionOnSet, MapThenFoldSet, FoldStep, Chosen, Solves

\* Among sets of subsets of a finite set there is a least one: induction over
\* finite sets, without a predicate as a parameter.
LEMMA SetMin ==
  ASSUME NEW S, IsFiniteSet(S), NEW Bad \in SUBSET SUBSET S, Bad # {}
  PROVE  \E T \in Bad : \A U \in Bad : U \subseteq T => U = T
<1>1. Bad \subseteq FiniteSubsetsOf(S)
  BY FS_FiniteSubsetsOfFinite
<1>2. PICK T \in Bad : \A U \in Bad : ~ (<<U, T>> \in StrictSubsetOrdering(S))
  BY <1>1, FS_StrictSubsetOrderingWellFounded, WFMin
<1>3. QED
  BY <1>2 DEF StrictSubsetOrdering

\* What is chosen from a set is in it, and without it less is left.
LEMMA ChosenIn ==
  ASSUME NEW S, S # {}
  PROVE  Chosen(S) \in S /\ S \ {Chosen(S)} # S
  BY DEF Chosen

\* Induction over the subsets of a finite set: a property, given as the set of
\* subsets that have it, passes from the smaller subsets to each subset.
LEMMA SubsetInduction ==
  ASSUME NEW S, IsFiniteSet(S), NEW Good,
         \A T \in SUBSET S : (\A U \in SUBSET T : U # T => U \in Good) => T \in Good
  PROVE  S \in Good
<1> DEFINE Bad == {T \in SUBSET S : T \notin Good}
<1>1. ASSUME Bad # {} PROVE FALSE
  <2>1. PICK T \in Bad : \A U \in Bad : U \subseteq T => U = T
    <3>1. Bad \in SUBSET SUBSET S
      OBVIOUS
    <3>2. QED
      <4> HIDE DEF Bad
      <4>1. QED BY <1>1, <3>1, SetMin
  <2>2. \A U \in SUBSET T : U # T => U \in Good
    BY <2>1
  <2>3. QED
    BY <2>1, <2>2
<1>2. QED
  BY <1>1

\* Induction along the fold: from nothing, one chosen member after the other.
LEMMA ChosenInduction ==
  ASSUME NEW S, IsFiniteSet(S), NEW Good, {} \in Good,
         \A T \in SUBSET S : T # {} /\ T \ {Chosen(T)} \in Good => T \in Good
  PROVE  S \in Good
<1>1. ASSUME NEW T \in SUBSET S, \A U \in SUBSET T : U # T => U \in Good
      PROVE  T \in Good
  BY <1>1, ChosenIn
<1>2. QED
  BY <1>1, SubsetInduction

\* The recursion has one solution at most.
LEMMA SolutionUnique ==
  ASSUME NEW f, NEW S, IsFiniteSet(S), NEW g, NEW h, Solves(f, S, g), Solves(f, S, h)
  PROVE  g = h
<1> USE DEF Solves
<1> DEFINE Same == {T \in SUBSET S : g[T] = h[T]}
<1>1. ASSUME NEW U \in SUBSET S PROVE U \in Same
  <2>1. {} \in Same
    BY DEF FoldStep
  <2>2. ASSUME NEW T \in SUBSET U, T # {}, T \ {Chosen(T)} \in Same
        PROVE  T \in Same
    BY <2>2 DEF FoldStep
  <2>3. IsFiniteSet(U)
    BY FS_Subset
  <2> HIDE DEF Same
  <2>4. QED
    BY <2>1, <2>2, <2>3, ChosenInduction
<1>2. g = [s \in SUBSET S |-> g[s]] /\ h = [s \in SUBSET S |-> h[s]]
  OBVIOUS
<1>3. QED
  BY <1>1, <1>2

\* If the sums over the smaller sets unfold, so does the sum over S: they and
\* the value for S make up a solution, so the recursion has one.
LEMMA UnfoldStep ==
  ASSUME NEW f, NEW S, IsFiniteSet(S),
         \A U \in SUBSET S : U # S => Unfolded(f, U)
  PROVE  Unfolded(f, S)
<1> DEFINE Sum(s) == SumFunctionOnSet(f, s)
           h == [s \in SUBSET S |->
                   IF s # S THEN Sum(s)
                   ELSE IF S = {} THEN 0 ELSE f[Chosen(S)] + Sum(S \ {Chosen(S)})]
           g == CHOOSE k : Solves(f, S, k)
<1>1. ASSUME NEW s \in SUBSET S
      PROVE  h[s] = FoldStep(f, h, s)
  <2>1. CASE s = {}
    <3>1. CASE s = S
      BY <2>1, <3>1 DEF FoldStep
    <3>2. CASE s # S
      BY <2>1, <3>2 DEF FoldStep, Unfolded
    <3>3. QED BY <3>1, <3>2
  <2>2. CASE s # {}
    <3>1. s \ {Chosen(s)} \in SUBSET S /\ s \ {Chosen(s)} # S
      BY <2>2, ChosenIn
    <3>2. h[s \ {Chosen(s)}] = Sum(s \ {Chosen(s)})
      BY <3>1
    <3>3. h[s] = f[Chosen(s)] + Sum(s \ {Chosen(s)})
      <4>1. CASE s = S
        BY <4>1, <2>2
      <4>2. CASE s # S
        BY <4>2, <2>2 DEF Unfolded
      <4>3. QED BY <4>1, <4>2
    <3>4. QED
      BY <2>2, <3>2, <3>3 DEF FoldStep
  <2>3. QED BY <2>1, <2>2
<1>2. Solves(f, S, h)
  BY <1>1 DEF Solves
<1>3. Solves(f, S, g)
  <2> HIDE DEF h
  <2>1. QED BY <1>2
<1>4. g = h
  <2> HIDE DEF h, g
  <2>1. QED BY <1>2, <1>3, SolutionUnique
<1>5. Sum(S) = g[S]
  BY SumIsFold
<1>6. Sum(S) = h[S]
  BY <1>4, <1>5
<1>7. QED
  BY <1>6 DEF Unfolded

\* A sum is the value of the chosen member and the sum over the others.
LEMMA SumUnfold ==
  ASSUME NEW f, NEW S, IsFiniteSet(S)
  PROVE  Unfolded(f, S)
<1> DEFINE Good == {T \in SUBSET S : Unfolded(f, T)}
<1>1. ASSUME NEW T \in SUBSET S, \A U \in SUBSET T : U # T => U \in Good
      PROVE  T \in Good
  BY <1>1, FS_Subset, UnfoldStep
<1>2. S \in Good
  <2> HIDE DEF Good
  <2>1. QED BY <1>1, SubsetInduction
<1>3. QED
  BY <1>2

-----------------------------------------------------------------------------
\* The sum over nothing is 0.
LEMMA SumEmpty ==
  ASSUME NEW f
  PROVE  SumFunctionOnSet(f, {}) = 0
  BY SumUnfold, FS_EmptySet DEF Unfolded

\* A sum of integers is an integer, a sum of naturals a natural.
LEMMA SumType ==
  ASSUME NEW f, NEW S, IsFiniteSet(S), NEW D \in {Nat, Int}, \A x \in S : f[x] \in D
  PROVE  SumFunctionOnSet(f, S) \in D
<1> DEFINE Good == {T \in SUBSET S : SumFunctionOnSet(f, T) \in D}
<1>1. {} \in Good
  BY SumEmpty
<1>2. ASSUME NEW T \in SUBSET S, T # {}, T \ {Chosen(T)} \in Good
      PROVE  T \in Good
  <2>1. SumFunctionOnSet(f, T) = f[Chosen(T)] + SumFunctionOnSet(f, T \ {Chosen(T)})
    BY <1>2, FS_Subset, SumUnfold DEF Unfolded
  <2>2. f[Chosen(T)] \in D
    BY <1>2, ChosenIn
  <2>3. QED
    BY <1>2, <2>1, <2>2
<1>3. S \in Good
  <2> HIDE DEF Good
  <2>1. QED BY <1>1, <1>2, ChosenInduction
<1>4. QED
  BY <1>3

\* f and g have the same sum over S, if they agree on S.
LEMMA SumSame ==
  ASSUME NEW f, NEW g, NEW S, IsFiniteSet(S), \A x \in S : f[x] = g[x]
  PROVE  SumFunctionOnSet(f, S) = SumFunctionOnSet(g, S)
<1> DEFINE Good == {T \in SUBSET S : SumFunctionOnSet(f, T) = SumFunctionOnSet(g, T)}
<1>1. {} \in Good
  BY SumEmpty
<1>2. ASSUME NEW T \in SUBSET S, T # {}, T \ {Chosen(T)} \in Good
      PROVE  T \in Good
  <2>1. Unfolded(f, T) /\ Unfolded(g, T)
    BY FS_Subset, SumUnfold
  <2>2. f[Chosen(T)] = g[Chosen(T)]
    BY <1>2, ChosenIn
  <2>3. QED
    BY <1>2, <2>1, <2>2 DEF Unfolded
<1>3. S \in Good
  <2> HIDE DEF Good
  <2>1. QED BY <1>1, <1>2, ChosenInduction
<1>4. QED
  BY <1>3

\* What SumRemove says of one set.
Removable(f, T) ==
    \A x \in T : SumFunctionOnSet(f, T) = f[x] + SumFunctionOnSet(f, T \ {x})

\* Any member may be taken first: the order of the fold does not matter.
LEMMA SumRemove ==
  ASSUME NEW f, NEW S, IsFiniteSet(S), \A x \in S : f[x] \in Int
  PROVE  Removable(f, S)
<1> DEFINE Good == {T \in SUBSET S : Removable(f, T)}
           Sum(T) == SumFunctionOnSet(f, T)
<1>1. ASSUME NEW T \in SUBSET S, \A U \in SUBSET T : U # T => U \in Good
      PROVE  T \in Good
  <2> SUFFICES ASSUME NEW x \in T
               PROVE  Sum(T) = f[x] + Sum(T \ {x})
    BY DEF Removable
  <2> DEFINE c == Chosen(T)
             rest == (T \ {x}) \ {c}
  <2>1. c \in T
    BY ChosenIn
  <2>2. Sum(T) = f[c] + Sum(T \ {c})
    BY FS_Subset, SumUnfold DEF Unfolded
  <2> HIDE DEF c
  <2>3. CASE c = x
    BY <2>2, <2>3
  <2>4. CASE c # x
    <3>1. Removable(f, T \ {c}) /\ Removable(f, T \ {x})
      BY <1>1, <2>1
    <3>2. Sum(T \ {c}) = f[x] + Sum((T \ {c}) \ {x}) /\ Sum(T \ {x}) = f[c] + Sum(rest)
      BY <2>1, <2>4, <3>1 DEF Removable
    <3>3. (T \ {c}) \ {x} = rest
      OBVIOUS
    <3>4. IsFiniteSet(rest) /\ \A y \in rest : f[y] \in Int
      BY FS_Subset
    <3> HIDE DEF rest
    <3>5. Sum(rest) \in Int
      BY <3>4, SumType
    <3>6. f[x] \in Int /\ f[c] \in Int
      BY <2>1
    <3> HIDE DEF Sum
    <3>7. Sum(T) = f[c] + (f[x] + Sum(rest))
      BY <2>2, <3>2, <3>3
    <3>8. QED
      BY <3>2, <3>5, <3>6, <3>7
  <2>5. QED
    BY <2>3, <2>4
<1>2. S \in Good
  <2> HIDE DEF Good
  <2>1. QED BY <1>1, SubsetInduction
<1>3. QED
  BY <1>2

\* A new member adds its value.
LEMMA SumAdd ==
  ASSUME NEW f, NEW S, IsFiniteSet(S), NEW x, x \notin S, \A y \in S \cup {x} : f[y] \in Int
  PROVE  SumFunctionOnSet(f, S \cup {x}) = f[x] + SumFunctionOnSet(f, S)
<1>1. IsFiniteSet(S \cup {x}) /\ (S \cup {x}) \ {x} = S
  BY FS_AddElement
<1>2. QED
  BY <1>1, SumRemove DEF Removable

\* Changing the value of one member changes the sum by as much.
LEMMA SumChange ==
  ASSUME NEW f, NEW g, NEW S, IsFiniteSet(S), NEW x \in S,
         \A y \in S : f[y] \in Int /\ g[y] \in Int,
         \A y \in S \ {x} : f[y] = g[y]
  PROVE  SumFunctionOnSet(g, S) = SumFunctionOnSet(f, S) + (g[x] - f[x])
<1> DEFINE rest == SumFunctionOnSet(f, S \ {x})
<1>1. IsFiniteSet(S \ {x})
  BY FS_Subset
<1>2. rest \in Int
  BY <1>1, SumType
<1>3. SumFunctionOnSet(g, S \ {x}) = rest
  BY <1>1, SumSame
<1>4. SumFunctionOnSet(f, S) = f[x] + rest /\ SumFunctionOnSet(g, S) = g[x] + rest
  BY <1>3, SumRemove DEF Removable
<1> HIDE DEF rest
<1>5. QED
  BY <1>2, <1>4

\* A sum of zeros is 0.
LEMMA SumZero ==
  ASSUME NEW f, NEW S, IsFiniteSet(S), \A x \in S : f[x] = 0
  PROVE  SumFunctionOnSet(f, S) = 0
<1> DEFINE Good == {T \in SUBSET S : SumFunctionOnSet(f, T) = 0}
<1>1. {} \in Good
  BY SumEmpty
<1>2. ASSUME NEW T \in SUBSET S, T # {}, T \ {Chosen(T)} \in Good
      PROVE  T \in Good
  <2>1. Unfolded(f, T)
    BY FS_Subset, SumUnfold
  <2>2. f[Chosen(T)] = 0
    BY <1>2, ChosenIn
  <2>3. QED
    BY <1>2, <2>1, <2>2 DEF Unfolded
<1>3. S \in Good
  <2> HIDE DEF Good
  <2>1. QED BY <1>1, <1>2, ChosenInduction
<1>4. QED
  BY <1>3

\* A sum of naturals that are c at most is c for each member at most.
LEMMA SumBound ==
  ASSUME NEW f, NEW S, IsFiniteSet(S), NEW c \in Nat, \A x \in S : f[x] \in 0 .. c
  PROVE  SumFunctionOnSet(f, S) <= c * Cardinality(S)
<1> DEFINE Good == {T \in SUBSET S : SumFunctionOnSet(f, T) <= c * Cardinality(T)}
<1>1. {} \in Good
  BY SumEmpty, FS_EmptySet
<1>2. ASSUME NEW T \in SUBSET S, T # {}, T \ {Chosen(T)} \in Good
      PROVE  T \in Good
  <2> DEFINE rest == T \ {Chosen(T)}
  <2>1. IsFiniteSet(T) /\ Chosen(T) \in T
    BY <1>2, FS_Subset, ChosenIn
  <2>2. SumFunctionOnSet(f, T) = f[Chosen(T)] + SumFunctionOnSet(f, rest)
    BY <1>2, <2>1, SumUnfold DEF Unfolded
  <2>3. SumFunctionOnSet(f, rest) <= c * Cardinality(rest)
    BY <1>2
  <2>4. IsFiniteSet(rest)
    BY <2>1, FS_RemoveElement
  <2>5. Cardinality(rest) = Cardinality(T) - 1 /\ Cardinality(T) \in Nat
    BY <2>1, FS_RemoveElement, FS_CardinalityType
  <2>6. Cardinality(rest) \in Nat
    BY <2>4, FS_CardinalityType
  <2>7. SumFunctionOnSet(f, rest) \in Int
    BY <2>4, SumType
  <2>8. f[Chosen(T)] \in 0 .. c
    BY <2>1
  <2> HIDE DEF rest
  <2> DEFINE n == Cardinality(rest)
  <2>9. c * Cardinality(T) = c * n + c /\ c * n \in Nat
    BY <2>5, <2>6
  <2> HIDE DEF n
  <2>10. QED
    BY <2>2, <2>3, <2>7, <2>8, <2>9 DEF n
<1>3. S \in Good
  <2> HIDE DEF Good
  <2>1. QED BY <1>1, <1>2, ChosenInduction
<1>4. QED
  BY <1>3

\* A sum of naturals over a part is at most the sum over the whole.
LEMMA SumSubset ==
  ASSUME NEW f, NEW S, IsFiniteSet(S), \A x \in S : f[x] \in Nat, NEW T \in SUBSET S
  PROVE  SumFunctionOnSet(f, T) <= SumFunctionOnSet(f, S)
<1> DEFINE Sum(s) == SumFunctionOnSet(f, s)
           Good == {W \in SUBSET S : \A U \in SUBSET W : Sum(U) <= Sum(W)}
<1>1. {} \in Good
  BY SumEmpty
<1>2. ASSUME NEW W \in SUBSET S, W # {}, W \ {Chosen(W)} \in Good
      PROVE  W \in Good
  <2> SUFFICES ASSUME NEW U \in SUBSET W
               PROVE  Sum(U) <= Sum(W)
    OBVIOUS
  <2> DEFINE c == Chosen(W)
  <2>1. c \in W /\ f[c] \in Nat
    BY <1>2, ChosenIn
  <2>2. IsFiniteSet(W) /\ IsFiniteSet(U) /\ IsFiniteSet(U \ {c}) /\ IsFiniteSet(W \ {c})
    BY FS_Subset
  <2>3. \A V \in SUBSET W : IsFiniteSet(V) => Sum(V) \in Nat
    BY SumType
  <2>4. Removable(f, W) /\ Removable(f, U)
    BY <2>2, SumRemove
  <2>5. Sum(W) = f[c] + Sum(W \ {c})
    BY <2>1, <2>4 DEF Removable
  <2>6. c \in U => Sum(U) = f[c] + Sum(U \ {c})
    BY <2>4 DEF Removable
  <2>7. Sum(U \ {c}) <= Sum(W \ {c})
    BY <1>2
  <2>8. c \notin U => U \ {c} = U
    OBVIOUS
  <2>9. Sum(W \ {c}) \in Nat /\ Sum(U \ {c}) \in Nat
    BY <2>2, <2>3
  <2>11. Sum(U \ {c}) + f[c] <= Sum(W \ {c}) + f[c] /\ Sum(W \ {c}) <= f[c] + Sum(W \ {c})
    BY <2>1, <2>7, <2>9
  <2>12. CASE c \in U
    BY <2>11, <2>12, <2>1, <2>5, <2>6, <2>9
  <2>13. CASE c \notin U
    <3>1. Sum(U) <= Sum(W \ {c})
      BY <2>7, <2>8, <2>13
    <3>2. Sum(U) \in Nat
      BY <2>2, <2>3
    <3>3. QED BY <3>1, <3>2, <2>11, <2>5, <2>9, <2>1
  <2>10. QED
    BY <2>12, <2>13
<1>3. S \in Good
  <2> HIDE DEF Good
  <2>1. QED BY <1>1, <1>2, ChosenInduction
<1>4. QED BY <1>3

\* A larger value for every member makes a larger sum.
LEMMA SumMono ==
  ASSUME NEW f, NEW g, NEW S, IsFiniteSet(S),
         \A x \in S : f[x] \in Int /\ g[x] \in Int /\ f[x] <= g[x]
  PROVE  SumFunctionOnSet(f, S) <= SumFunctionOnSet(g, S)
<1> DEFINE Good == {T \in SUBSET S : SumFunctionOnSet(f, T) <= SumFunctionOnSet(g, T)}
<1>1. {} \in Good
  BY SumEmpty
<1>2. ASSUME NEW T \in SUBSET S, T # {}, T \ {Chosen(T)} \in Good
      PROVE  T \in Good
  <2> DEFINE c == Chosen(T)
             rest == T \ {c}
  <2>1. c \in T /\ c \in S /\ rest \in SUBSET S
    BY <1>2, ChosenIn
  <2>2. /\ SumFunctionOnSet(f, T) = f[c] + SumFunctionOnSet(f, rest)
        /\ SumFunctionOnSet(g, T) = g[c] + SumFunctionOnSet(g, rest)
    BY <1>2, FS_Subset, SumUnfold DEF Unfolded
  <2>3. SumFunctionOnSet(f, rest) \in Int /\ SumFunctionOnSet(g, rest) \in Int
    BY <2>1, FS_Subset, SumType
  <2>4. SumFunctionOnSet(f, rest) <= SumFunctionOnSet(g, rest)
    BY <1>2
  <2>5. f[c] \in Int /\ g[c] \in Int /\ f[c] <= g[c]
    BY <2>1
  <2> HIDE DEF c, rest
  <2>6. SumFunctionOnSet(f, T) <= SumFunctionOnSet(g, T)
    BY <2>2, <2>3, <2>4, <2>5
  <2>7. QED BY <2>6
<1>3. S \in Good
  <2> HIDE DEF Good
  <2>1. QED BY <1>1, <1>2, ChosenInduction
<1>4. QED BY <1>3

\* The sum of two functions is the sum of their sums.
LEMMA SumPlus ==
  ASSUME NEW f, NEW g, NEW h, NEW S, IsFiniteSet(S),
         \A x \in S : f[x] \in Int /\ g[x] \in Int /\ h[x] = f[x] + g[x]
  PROVE  SumFunctionOnSet(h, S) = SumFunctionOnSet(f, S) + SumFunctionOnSet(g, S)
<1> DEFINE Good == {T \in SUBSET S : SumFunctionOnSet(h, T)
                                       = SumFunctionOnSet(f, T) + SumFunctionOnSet(g, T)}
<1>1. {} \in Good
  BY SumEmpty
<1>2. ASSUME NEW T \in SUBSET S, T # {}, T \ {Chosen(T)} \in Good
      PROVE  T \in Good
  <2> DEFINE c == Chosen(T)
             rest == T \ {c}
  <2>1. c \in T /\ c \in S /\ rest \in SUBSET S
    BY <1>2, ChosenIn
  <2>2. /\ SumFunctionOnSet(f, T) = f[c] + SumFunctionOnSet(f, rest)
        /\ SumFunctionOnSet(g, T) = g[c] + SumFunctionOnSet(g, rest)
        /\ SumFunctionOnSet(h, T) = h[c] + SumFunctionOnSet(h, rest)
    BY <1>2, FS_Subset, SumUnfold DEF Unfolded
  <2>3. SumFunctionOnSet(f, rest) \in Int /\ SumFunctionOnSet(g, rest) \in Int
    BY <2>1, FS_Subset, SumType
  <2>4. SumFunctionOnSet(h, rest) = SumFunctionOnSet(f, rest) + SumFunctionOnSet(g, rest)
    BY <1>2
  <2>5. f[c] \in Int /\ g[c] \in Int /\ h[c] = f[c] + g[c]
    BY <2>1
  <2> HIDE DEF c, rest
  <2>6. SumFunctionOnSet(h, T) = SumFunctionOnSet(f, T) + SumFunctionOnSet(g, T)
    BY <2>2, <2>3, <2>4, <2>5
  <2>7. QED BY <2>6
<1>3. S \in Good
  <2> HIDE DEF Good
  <2>1. QED BY <1>1, <1>2, ChosenInduction
<1>4. QED BY <1>3

\* A common factor of all members is a factor of the sum.
LEMMA SumScale ==
  ASSUME NEW f, NEW g, NEW S, IsFiniteSet(S), NEW k \in Int,
         \A x \in S : f[x] \in Int /\ g[x] = k * f[x]
  PROVE  SumFunctionOnSet(g, S) = k * SumFunctionOnSet(f, S)
<1> DEFINE Good == {T \in SUBSET S : SumFunctionOnSet(g, T) = k * SumFunctionOnSet(f, T)}
<1>1. {} \in Good
  BY SumEmpty
<1>2. ASSUME NEW T \in SUBSET S, T # {}, T \ {Chosen(T)} \in Good
      PROVE  T \in Good
  <2> DEFINE c == Chosen(T)
             rest == T \ {c}
             sum == SumFunctionOnSet(f, rest)
  <2>1. c \in T /\ c \in S /\ rest \in SUBSET S
    BY <1>2, ChosenIn
  <2>2. /\ SumFunctionOnSet(f, T) = f[c] + sum
        /\ SumFunctionOnSet(g, T) = g[c] + SumFunctionOnSet(g, rest)
    BY <1>2, FS_Subset, SumUnfold DEF Unfolded
  <2>3. sum \in Int
    BY <2>1, FS_Subset, SumType
  <2>4. SumFunctionOnSet(g, rest) = k * sum
    BY <1>2
  <2>5. f[c] \in Int /\ g[c] = k * f[c]
    BY <2>1
  <2> HIDE DEF c, rest, sum
  <2>6. k * (f[c] + sum) = k * f[c] + k * sum
    BY <2>3, <2>5
  <2>7. SumFunctionOnSet(g, T) = k * SumFunctionOnSet(f, T)
    BY <2>2, <2>4, <2>5, <2>6
  <2>8. QED BY <2>7
<1>3. S \in Good
  <2> HIDE DEF Good
  <2>1. QED BY <1>1, <1>2, ChosenInduction
<1>4. QED BY <1>3

\* A sum over a part is a sum over the whole with zeros for the rest.
LEMMA SumFilter ==
  ASSUME NEW f, NEW g, NEW S, IsFiniteSet(S), NEW P \in SUBSET S,
         \A x \in P : f[x] \in Int /\ g[x] = f[x],
         \A x \in S \ P : g[x] = 0
  PROVE  SumFunctionOnSet(g, S) = SumFunctionOnSet(f, P)
<1> DEFINE Good == {T \in SUBSET S : SumFunctionOnSet(g, T) = SumFunctionOnSet(f, T \cap P)}
<1>1. {} \in Good
  BY SumEmpty
<1>2. ASSUME NEW T \in SUBSET S, T # {}, T \ {Chosen(T)} \in Good
      PROVE  T \in Good
  <2> DEFINE c == Chosen(T)
             rest == T \ {c}
  <2>1. c \in T /\ c \in S /\ rest \in SUBSET S
    BY <1>2, ChosenIn
  <2>2. SumFunctionOnSet(g, T) = g[c] + SumFunctionOnSet(g, rest)
    BY <1>2, FS_Subset, SumUnfold DEF Unfolded
  <2>3. SumFunctionOnSet(g, rest) = SumFunctionOnSet(f, rest \cap P)
    BY <1>2
  <2>4. CASE c \in P
    <3>1. T \cap P = (rest \cap P) \cup {c} /\ c \notin rest \cap P
      BY <2>1, <2>4
    <3>2. IsFiniteSet(rest \cap P) /\ \A y \in (rest \cap P) \cup {c} : f[y] \in Int
      BY <2>1, <2>4, FS_Subset
    <3> HIDE DEF c, rest
    <3>3. SumFunctionOnSet(f, (rest \cap P) \cup {c}) = f[c] + SumFunctionOnSet(f, rest \cap P)
      BY <3>1, <3>2, SumAdd
    <3>4. SumFunctionOnSet(g, T) = SumFunctionOnSet(f, T \cap P)
      BY <2>2, <2>3, <2>4, <3>1, <3>3
    <3>5. QED BY <3>4
  <2>5. CASE c \notin P
    <3>1. T \cap P = rest \cap P /\ g[c] = 0
      BY <2>1, <2>5
    <3>2. SumFunctionOnSet(f, rest \cap P) \in Int
      <4>1. IsFiniteSet(rest \cap P) /\ \A y \in rest \cap P : f[y] \in Int
        BY <2>1, FS_Subset
      <4> HIDE DEF rest
      <4>2. QED BY <4>1, SumType
    <3> HIDE DEF c, rest
    <3>3. SumFunctionOnSet(f, T \cap P) = SumFunctionOnSet(f, rest \cap P)
      BY Zenon, <3>1
    <3>4. SumFunctionOnSet(g, T) = SumFunctionOnSet(f, rest \cap P)
      BY <2>2, <2>3, <3>1, <3>2
    <3>5. QED BY Zenon, <3>3, <3>4
  <2>6. QED BY <2>4, <2>5
<1>3. S \in Good
  <2> HIDE DEF Good
  <2>1. QED BY <1>1, <1>2, ChosenInduction
<1>4. S \cap P = P
  OBVIOUS
<1>5. QED BY <1>3, <1>4

\* A table may be added up by rows or by columns.
LEMMA SumExchange ==
  ASSUME NEW S, IsFiniteSet(S), NEW T, IsFiniteSet(T), NEW F,
         \A x \in S, y \in T : F[x][y] \in Int
  PROVE  SumFunctionOnSet([x \in S |-> SumFunctionOnSet([y \in T |-> F[x][y]], T)], S)
           = SumFunctionOnSet([y \in T |-> SumFunctionOnSet([x \in S |-> F[x][y]], S)], T)
<1> DEFINE Row(x) == SumFunctionOnSet([y \in T |-> F[x][y]], T)
           rows == [x \in S |-> Row(x)]
           Column(y) == [x \in S |-> F[x][y]]
           columns(U) == [y \in T |-> SumFunctionOnSet(Column(y), U)]
           Good == {U \in SUBSET S : SumFunctionOnSet(rows, U) = SumFunctionOnSet(columns(U), T)}
<1>1. {} \in Good
  <2>1. \A y \in T : columns({})[y] = 0
    BY SumEmpty
  <2> HIDE DEF columns
  <2>2. SumFunctionOnSet(columns({}), T) = 0
    BY <2>1, SumZero
  <2>3. QED BY <2>2, SumEmpty
<1>2. ASSUME NEW U \in SUBSET S, U # {}, U \ {Chosen(U)} \in Good
      PROVE  U \in Good
  <2> DEFINE c == Chosen(U)
             rest == U \ {c}
             line == [y \in T |-> F[c][y]]
  <2>1. c \in U /\ c \in S /\ rest \in SUBSET S /\ IsFiniteSet(U) /\ IsFiniteSet(rest)
    BY <1>2, ChosenIn, FS_Subset
  <2>2. SumFunctionOnSet(rows, U) = rows[c] + SumFunctionOnSet(rows, rest)
    BY <1>2, <2>1, SumUnfold DEF Unfolded
  <2>3. \A y \in T : SumFunctionOnSet(Column(y), U) = Column(y)[c] + SumFunctionOnSet(Column(y), rest)
    BY <1>2, <2>1, SumUnfold DEF Unfolded
  <2>4. \A y \in T : SumFunctionOnSet(Column(y), rest) \in Int
    <3> SUFFICES ASSUME NEW y \in T PROVE SumFunctionOnSet(Column(y), rest) \in Int
      OBVIOUS
    <3>1. \A x \in rest : Column(y)[x] \in Int
      BY <2>1
    <3> HIDE DEF rest, Column
    <3>2. QED BY <2>1, <3>1, SumType
  <2>5. \A y \in T : Column(y)[c] = line[y] /\ line[y] \in Int
    BY <2>1
  <2>6. \A y \in T : /\ columns(U)[y] = SumFunctionOnSet(Column(y), U)
                     /\ columns(rest)[y] = SumFunctionOnSet(Column(y), rest)
    OBVIOUS
  <2>7. rows[c] = SumFunctionOnSet(line, T)
    BY <2>1
  <2>8. SumFunctionOnSet(rows, rest) = SumFunctionOnSet(columns(rest), T)
    BY <1>2
  <2> HIDE DEF c, rest, line, rows, columns, Column
  <2>9. \A y \in T : /\ line[y] \in Int /\ columns(rest)[y] \in Int
                     /\ columns(U)[y] = line[y] + columns(rest)[y]
    BY <2>3, <2>4, <2>5, <2>6
  <2>10. SumFunctionOnSet(columns(U), T) = SumFunctionOnSet(line, T) + SumFunctionOnSet(columns(rest), T)
    BY <2>9, SumPlus
  <2>11. QED BY <2>2, <2>7, <2>8, <2>10
<1>3. S \in Good
  <2> HIDE DEF Good
  <2>1. QED BY <1>1, <1>2, ChosenInduction
<1>4. QED BY <1>3

\* What is added up class by class is what is added up at once.
LEMMA SumPartition ==
  ASSUME NEW f, NEW S, IsFiniteSet(S), NEW C, IsFiniteSet(C), NEW class \in [S -> C],
         \A x \in S : f[x] \in Int
  PROVE  SumFunctionOnSet([c \in C |-> SumFunctionOnSet(f, {x \in S : class[x] = c})], C)
           = SumFunctionOnSet(f, S)
<1> DEFINE F == [c \in C |-> [x \in S |-> IF class[x] = c THEN f[x] ELSE 0]]
           byClass == [c \in C |-> SumFunctionOnSet(f, {x \in S : class[x] = c})]
           rows == [c \in C |-> SumFunctionOnSet([x \in S |-> F[c][x]], S)]
           columns == [x \in S |-> SumFunctionOnSet([c \in C |-> F[c][x]], C)]
<1>1. \A c \in C, x \in S : F[c][x] \in Int
  OBVIOUS
<1>2. ASSUME NEW c \in C PROVE rows[c] = byClass[c]
  <2> DEFINE g == [x \in S |-> F[c][x]]
             part == {x \in S : class[x] = c}
  <2>1. /\ \A x \in part : f[x] \in Int /\ g[x] = f[x]
        /\ \A x \in S \ part : g[x] = 0
        /\ part \in SUBSET S
    OBVIOUS
  <2>2. rows[c] = SumFunctionOnSet(g, S) /\ byClass[c] = SumFunctionOnSet(f, part)
    OBVIOUS
  <2> HIDE DEF g, part, rows, byClass
  <2>3. QED BY <2>1, <2>2, SumFilter
<1>3. ASSUME NEW x \in S PROVE columns[x] = f[x]
  <2> DEFINE g == [c \in C |-> F[c][x]]
             own == {class[x]}
             one == [c \in own |-> f[x]]
  <2>1. /\ \A c \in own : one[c] \in Int /\ g[c] = one[c]
        /\ \A c \in C \ own : g[c] = 0
        /\ own \in SUBSET C
    OBVIOUS
  <2>2. columns[x] = SumFunctionOnSet(g, C)
    OBVIOUS
  <2>3. SumFunctionOnSet(one, {} \cup own) = f[x]
    <3>1. one[class[x]] = f[x] /\ class[x] \notin {} /\ \A y \in {} \cup own : one[y] \in Int
      OBVIOUS
    <3> HIDE DEF one
    <3>2. SumFunctionOnSet(one, {} \cup {class[x]}) = one[class[x]] + SumFunctionOnSet(one, {})
      BY <3>1, SumAdd, FS_EmptySet
    <3>3. QED BY <3>1, <3>2, SumEmpty
  <2>4. {} \cup own = own
    OBVIOUS
  <2> HIDE DEF g, own, one, columns
  <2>5. SumFunctionOnSet(g, C) = SumFunctionOnSet(one, own)
    BY <2>1, SumFilter
  <2>6. QED BY <2>2, <2>3, <2>4, <2>5
<1>4. SumFunctionOnSet(rows, C) = SumFunctionOnSet(columns, S)
  <2> HIDE DEF F
  <2>1. QED BY <1>1, SumExchange
<1> HIDE DEF F, rows, columns, byClass
<1>5. SumFunctionOnSet(rows, C) = SumFunctionOnSet(byClass, C)
  BY <1>2, SumSame
<1>6. SumFunctionOnSet(columns, S) = SumFunctionOnSet(f, S)
  BY <1>3, SumSame
<1>7. QED BY <1>4, <1>5, <1>6 DEF byClass

-----------------------------------------------------------------------------
\* Of finitely many naturals one is the largest.
LEMMA LargestExists ==
  ASSUME NEW S \in SUBSET Nat, IsFiniteSet(S), S # {}
  PROVE  \E m \in S : \A x \in S : m >= x
<1> DEFINE Good == {T \in SUBSET S : T # {} => \E m \in T : \A x \in T : m >= x}
<1>1. {} \in Good
  OBVIOUS
<1>2. ASSUME NEW T \in SUBSET S, T # {}, T \ {Chosen(T)} \in Good
      PROVE  T \in Good
  <2>1. Chosen(T) \in T
    BY <1>2, ChosenIn
  <2>2. CASE T \ {Chosen(T)} = {}
    <3>1. \A x \in T : x = Chosen(T)
      BY <2>2
    <3>2. Chosen(T) \in Nat
      BY <2>1
    <3>3. QED BY <2>1, <3>1, <3>2
  <2>3. CASE T \ {Chosen(T)} # {}
    <3>1. PICK m \in T : \A x \in T \ {Chosen(T)} : m >= x
      BY <1>2, <2>3
    <3>2. m \in Nat /\ Chosen(T) \in Nat
      BY <2>1
    <3>3. CASE m >= Chosen(T)
      BY <3>1, <3>3
    <3>4. CASE Chosen(T) >= m
      <4>1. \A x \in T : Chosen(T) >= x
        BY <3>1, <3>2, <3>4
      <4>2. QED BY <2>1, <4>1
    <3>5. QED BY <3>2, <3>3, <3>4
  <2>4. QED BY <2>2, <2>3
<1> HIDE DEF Good
<1>3. S \in Good
  BY <1>1, <1>2, ChosenInduction
<1>4. QED BY <1>3 DEF Good

\* Of naturals one is the smallest.
LEMMA SmallestExists ==
  ASSUME NEW S \in SUBSET Nat, S # {}
  PROVE  \E m \in S : \A x \in S : m <= x
<1> DEFINE R == OpToRel(<, Nat)
<1>1. IsWellFoundedOn(R, Nat)
  BY NatLessThanWellFounded
<1>2. \A x, y \in Nat : y < x => <<y, x>> \in R
  BY DEF OpToRel
<1> HIDE DEF R
<1>3. PICK m \in S : \A y \in S : <<y, m>> \notin R
  BY <1>1, WFMin
<1>4. \A y \in S : y \in Nat /\ ~ (y < m)
  BY <1>2, <1>3
<1>5. QED BY <1>4

-----------------------------------------------------------------------------
(* Quotients *)

\* A share grows when as much is added to the part as to the whole.
LEMMA ShareGrows ==
  ASSUME NEW k \in Nat, NEW a \in Nat, NEW s \in Nat, NEW d \in Nat, a <= s, s > 0
  PROVE  /\ (k * a) \div s \in 0 .. k
         /\ (k * (a + d)) \div (s + d) \in Nat
         /\ (k * a) \div s <= (k * (a + d)) \div (s + d)
<1>1. PICK q \in Int, r \in Int : q = (k * a) \div s /\ r = (k * (a + d)) \div (s + d)
  OBVIOUS
<1>2. s * q <= k * a /\ k * a < s * (q + 1)
  BY <1>1
<1>3. (s + d) * r <= k * (a + d) /\ k * (a + d) < (s + d) * (r + 1)
  BY <1>1
<1>4. k * a >= 0 /\ k * (a + d) >= 0 /\ k * a <= k * s
  OBVIOUS
<1>5. q >= 0
  <2>1. SUFFICES ASSUME q + 1 <= 0 PROVE FALSE
    BY <1>1
  <2>2. s * (q + 1) <= 0
    BY <2>1
  <2>3. QED BY <1>2, <1>4, <2>2
<1>6. r >= 0
  <2>1. SUFFICES ASSUME r + 1 <= 0 PROVE FALSE
    BY <1>1
  <2>2. (s + d) * (r + 1) <= 0
    BY <2>1
  <2>3. QED BY <1>3, <1>4, <2>2
<1>7. q <= k
  <2>1. SUFFICES ASSUME q >= k + 1 PROVE FALSE
    BY <1>1
  <2>2. s * q >= s * (k + 1)
    BY <2>1
  <2>3. s * (k + 1) = k * s + s
    OBVIOUS
  <2>4. QED BY <1>2, <1>4, <2>2, <2>3
<1>8. q <= r
  <2>1. SUFFICES ASSUME q >= r + 1 PROVE FALSE
    BY <1>1
  <2>2. (s + d) * q >= (s + d) * (r + 1)
    BY <2>1
  <2>3. (s + d) * q = s * q + d * q
    OBVIOUS
  <2>4. d * q <= d * k
    BY <1>7
  <2>5. k * (a + d) = k * a + d * k
    OBVIOUS
  <2>6. QED BY <1>2, <1>3, <2>2, <2>3, <2>4, <2>5
<1>9. QED BY <1>1, <1>5, <1>6, <1>7, <1>8

\* A quotient is no smaller with the smaller of two divisors.
LEMMA QuotientShrinks ==
  ASSUME NEW x \in Nat, NEW s \in Nat, s > 0
  PROVE  x \div s \in Nat /\ x \div (s + 1) \in Nat /\ x \div (s + 1) <= x \div s
<1>1. PICK q \in Int, r \in Int : q = x \div s /\ r = x \div (s + 1)
  OBVIOUS
<1>2. s * q <= x /\ x < s * (q + 1)
  BY <1>1
<1>3. (s + 1) * r <= x /\ x < (s + 1) * (r + 1)
  BY <1>1
<1>4. q >= 0
  <2>1. SUFFICES ASSUME q + 1 <= 0 PROVE FALSE
    BY <1>1
  <2>2. s * (q + 1) <= 0
    BY <2>1
  <2>3. QED BY <1>2, <2>2
<1>5. r >= 0
  <2>1. SUFFICES ASSUME r + 1 <= 0 PROVE FALSE
    BY <1>1
  <2>2. (s + 1) * (r + 1) <= 0
    BY <2>1
  <2>3. QED BY <1>3, <2>2
<1>6. r <= q
  <2>1. SUFFICES ASSUME r >= q + 1 PROVE FALSE
    BY <1>1
  <2>2. s * r >= s * (q + 1)
    BY <2>1
  <2>3. (s + 1) * r = s * r + r
    OBVIOUS
  <2>4. QED BY <1>2, <1>3, <1>5, <2>2, <2>3
<1>7. QED BY <1>1, <1>4, <1>5, <1>6

\* A quotient of naturals: it fits, the next number does not, and it grows with its
\* numerator.
LEMMA QuotientFits ==
  ASSUME NEW x \in Nat, NEW y \in Nat, NEW r \in Nat, r > 0, x <= y
  PROVE  /\ x \div r \in Nat /\ y \div r \in Nat
         /\ (x \div r) * r <= x /\ x < (x \div r + 1) * r
         /\ x \div r <= y \div r
<1>1. PICK q \in Int, p \in Int : q = x \div r /\ p = y \div r
  OBVIOUS
<1>2. r * q <= x /\ x < r * (q + 1)
  BY <1>1
<1>3. r * p <= y /\ y < r * (p + 1)
  BY <1>1
<1>4. q >= 0
  <2>1. SUFFICES ASSUME q + 1 <= 0 PROVE FALSE
    OBVIOUS
  <2>2. r * (q + 1) <= 0
    BY <2>1
  <2>3. QED BY <1>2, <2>2
<1>5. q <= p
  <2>1. SUFFICES ASSUME p + 1 <= q PROVE FALSE
    OBVIOUS
  <2>2. r * (p + 1) <= r * q
    BY <2>1
  <2>3. r * (p + 1) \in Int /\ r * q \in Int
    OBVIOUS
  <2>4. QED BY <1>2, <1>3, <2>2, <2>3
<1>6. q \in Nat /\ p \in Nat
  BY <1>4, <1>5
<1>7. q * r = r * q /\ (q + 1) * r = r * (q + 1)
  OBVIOUS
<1>8. QED BY <1>1, <1>2, <1>5, <1>6, <1>7

-----------------------------------------------------------------------------
(* Sums of multiples, of equal values, of the first numbers *)

\* The sum over one member is its value.
LEMMA SumSingle ==
  ASSUME NEW f, NEW x, f[x] \in Int
  PROVE  SumFunctionOnSet(f, {x}) = f[x]
<1>1. IsFiniteSet({}) /\ {} \cup {x} = {x}
  BY FS_EmptySet
<1>2. SumFunctionOnSet(f, {} \cup {x}) = f[x] + SumFunctionOnSet(f, {})
  <2>1. \A y \in {} \cup {x} : f[y] \in Int
    OBVIOUS
  <2>2. x \notin {}
    OBVIOUS
  <2>3. QED BY <1>1, <2>1, <2>2, SumAdd
<1>3. QED BY <1>1, <1>2, SumEmpty

\* A sum of multiples of two functions.
Combines(h, a, f, b, g, S) ==
    \A x \in S : f[x] \in Int /\ g[x] \in Int /\ h[x] = a * f[x] + b * g[x]
LEMMA SumCombine ==
  ASSUME NEW f, NEW g, NEW h, NEW S, IsFiniteSet(S), NEW a \in Int, NEW b \in Int,
         Combines(h, a, f, b, g, S)
  PROVE  SumFunctionOnSet(h, S) = a * SumFunctionOnSet(f, S) + b * SumFunctionOnSet(g, S)
<1>1. PICK p : p = [x \in S |-> a * f[x]]
  OBVIOUS
<1>2. PICK q : q = [x \in S |-> b * g[x]]
  OBVIOUS
<1>3. \A x \in S : f[x] \in Int /\ p[x] = a * f[x]
  BY <1>1 DEF Combines
<1>4. \A x \in S : g[x] \in Int /\ q[x] = b * g[x]
  BY <1>2 DEF Combines
<1>5. \A x \in S : p[x] \in Int /\ q[x] \in Int /\ h[x] = p[x] + q[x]
  BY <1>3, <1>4 DEF Combines
<1>6. SumFunctionOnSet(p, S) = a * SumFunctionOnSet(f, S)
  BY <1>3, SumScale
<1>7. SumFunctionOnSet(q, S) = b * SumFunctionOnSet(g, S)
  BY <1>4, SumScale
<1>8. SumFunctionOnSet(h, S) = SumFunctionOnSet(p, S) + SumFunctionOnSet(q, S)
  BY <1>5, SumPlus
<1>9. QED BY <1>6, <1>7, <1>8

\* A sum of equal values.
LEMMA SumConst ==
  ASSUME NEW f, NEW S, IsFiniteSet(S), NEW k \in Int, \A x \in S : f[x] = k
  PROVE  SumFunctionOnSet(f, S) = k * Cardinality(S)
<1> DEFINE Good == {T \in SUBSET S : SumFunctionOnSet(f, T) = k * Cardinality(T)}
<1>1. {} \in Good
  BY SumEmpty, FS_EmptySet
<1>2. ASSUME NEW T \in SUBSET S, T # {}, T \ {Chosen(T)} \in Good PROVE T \in Good
  <2>1. IsFiniteSet(T) /\ Chosen(T) \in T
    BY <1>2, FS_Subset, ChosenIn
  <2>2. SumFunctionOnSet(f, T) = f[Chosen(T)] + SumFunctionOnSet(f, T \ {Chosen(T)})
    BY <1>2, <2>1, SumUnfold DEF Unfolded
  <2>3. Cardinality(T \ {Chosen(T)}) = Cardinality(T) - 1 /\ Cardinality(T) \in Nat
    BY <2>1, FS_RemoveElement, FS_CardinalityType
  <2>4. f[Chosen(T)] = k
    BY <2>1
  <2>5. SumFunctionOnSet(f, T \ {Chosen(T)}) = k * Cardinality(T \ {Chosen(T)})
    BY <1>2
  <2>6. PICK c \in Int : c = Cardinality(T)
    BY <2>3
  <2>7. k + k * (c - 1) = k * c
    OBVIOUS
  <2>8. QED BY <2>2, <2>3, <2>4, <2>5, <2>6, <2>7
<1>3. S \in Good
  <2> HIDE DEF Good
  <2>1. QED BY <1>1, <1>2, ChosenInduction
<1>4. QED BY <1>3

\* The sums of the first numbers and of their squares.
LEMMA NumbersSum ==
  ASSUME NEW n \in Nat
  PROVE  /\ 2 * SumFunctionOnSet([i \in Nat |-> i], 0 .. n - 1) = n * (n - 1)
         /\ 6 * SumFunctionOnSet([i \in Nat |-> i * i], 0 .. n - 1) = n * (n - 1) * (2 * n - 1)
<1>1. PICK f : f = [i \in Nat |-> i]
  OBVIOUS
<1>2. PICK g : g = [i \in Nat |-> i * i]
  OBVIOUS
<1> DEFINE Holds(k) == /\ 2 * SumFunctionOnSet(f, 0 .. k - 1) = k * (k - 1)
                       /\ 6 * SumFunctionOnSet(g, 0 .. k - 1) = k * (k - 1) * (2 * k - 1)
           Bad == {k \in Nat : ~ Holds(k)}
<1>3. SUFFICES Bad = {}
  <2>1. Holds(n)
    OBVIOUS
  <2>2. QED BY <1>1, <1>2, <2>1
<1>4. SUFFICES ASSUME Bad # {} PROVE FALSE
  OBVIOUS
<1>5. PICK k \in Bad : \A j \in Bad : k <= j
  <2>1. Bad \in SUBSET Nat
    OBVIOUS
  <2> HIDE DEF Bad
  <2>2. QED BY <1>4, <2>1, SmallestExists
<1>6. k # 0
  <2>1. 0 .. 0 - 1 = {}
    OBVIOUS
  <2>2. SumFunctionOnSet(f, 0 .. 0 - 1) = 0 /\ SumFunctionOnSet(g, 0 .. 0 - 1) = 0
    BY <2>1, SumEmpty
  <2>3. Holds(0)
    BY <2>2
  <2>4. QED BY <1>5, <2>3
<1>7. PICK m \in Nat : k = m + 1
  <2>1. k \in Nat
    BY <1>5
  <2>2. k - 1 \in Nat /\ k = (k - 1) + 1
    BY <1>6, <2>1
  <2>3. QED BY <2>2
<1>8. Holds(m)
  <2>1. ~ (k <= m)
    BY <1>7
  <2>2. m \notin Bad
    <3> HIDE DEF Bad
    <3>1. QED BY <1>5, <2>1
  <2>3. QED BY <2>2
<1>9. /\ 0 .. k - 1 = (0 .. m - 1) \cup {m} /\ m \notin 0 .. m - 1
      /\ IsFiniteSet(0 .. m - 1) /\ \A i \in 0 .. m - 1 : i \in Nat
  <2>1. IsFiniteSet(0 .. m - 1)
    <3>1. 0 \in Int /\ m - 1 \in Int
      OBVIOUS
    <3>2. QED BY <3>1, FS_Interval
  <2>2. k - 1 = m
    BY <1>7
  <2>3. 0 .. m = (0 .. m - 1) \cup {m} /\ m \notin 0 .. m - 1 /\ \A i \in 0 .. m - 1 : i \in Nat
    OBVIOUS
  <2>4. QED BY <2>1, <2>2, <2>3
<1>10. /\ SumFunctionOnSet(f, 0 .. k - 1) = m + SumFunctionOnSet(f, 0 .. m - 1)
       /\ SumFunctionOnSet(f, 0 .. m - 1) \in Int
  <2>1. \A y \in (0 .. m - 1) \cup {m} : f[y] \in Int
    BY <1>1, <1>9
  <2>2. f[m] = m
    BY <1>1
  <2>3. SumFunctionOnSet(f, (0 .. m - 1) \cup {m}) = f[m] + SumFunctionOnSet(f, 0 .. m - 1)
    BY <1>9, <2>1, SumAdd
  <2>4. SumFunctionOnSet(f, 0 .. m - 1) \in Int
    BY <1>9, <2>1, SumType
  <2>5. QED BY <1>9, <2>2, <2>3, <2>4
<1>11. /\ SumFunctionOnSet(g, 0 .. k - 1) = m * m + SumFunctionOnSet(g, 0 .. m - 1)
       /\ SumFunctionOnSet(g, 0 .. m - 1) \in Int
  <2>1. \A y \in (0 .. m - 1) \cup {m} : g[y] \in Int
    BY <1>2, <1>9
  <2>2. g[m] = m * m
    BY <1>2
  <2>3. SumFunctionOnSet(g, (0 .. m - 1) \cup {m}) = g[m] + SumFunctionOnSet(g, 0 .. m - 1)
    BY <1>9, <2>1, SumAdd
  <2>4. SumFunctionOnSet(g, 0 .. m - 1) \in Int
    BY <1>9, <2>1, SumType
  <2>5. QED BY <1>9, <2>2, <2>3, <2>4
<1>12. PICK p \in Int, q \in Int : p = SumFunctionOnSet(f, 0 .. m - 1) /\ q = SumFunctionOnSet(g, 0 .. m - 1)
  BY <1>10, <1>11
<1>13. 2 * p = m * (m - 1) /\ 6 * q = m * (m - 1) * (2 * m - 1)
  BY <1>8, <1>12
<1>14. 2 * (m + p) = (m + 1) * ((m + 1) - 1)
  BY <1>13
<1>15. 6 * (m * m + q) = (m + 1) * ((m + 1) - 1) * (2 * (m + 1) - 1)
  <2>1. 6 * (m * m + q) = 6 * (m * m) + m * (m - 1) * (2 * m - 1)
    BY <1>13
  <2>2. 6 * (m * m) + m * (m - 1) * (2 * m - 1) = (m + 1) * ((m + 1) - 1) * (2 * (m + 1) - 1)
    OBVIOUS
  <2>3. QED BY <2>1, <2>2
<1>16. Holds(k)
  BY <1>7, <1>10, <1>11, <1>12, <1>14, <1>15
<1>17. QED BY <1>5, <1>16

-----------------------------------------------------------------------------
(* Recursion along a sequence *)

\* A function of the first n numbers that is given by its start and by a step.
IsChain(f, A, start, n, Step) ==
    f \in [0 .. n -> A] /\ f[0] = start /\ \A i \in 1 .. n : f[i] = Step[i][f[i - 1]]
LEMMA ChainExists ==
  ASSUME NEW A, NEW start \in A, NEW n \in Nat, NEW Step \in [1 .. n -> [A -> A]]
  PROVE  \E f : IsChain(f, A, start, n, Step)
<1> SUFFICES \E f \in [0 .. n -> A] : f[0] = start /\ \A i \in 1 .. n : f[i] = Step[i][f[i - 1]]
  BY DEF IsChain
<1> DEFINE Upto(k, f) == f[0] = start /\ \A i \in 1 .. k : f[i] = Step[i][f[i - 1]]
           Made(k) == \E f \in [0 .. k -> A] : Upto(k, f)
           Bad == {k \in 0 .. n : ~ Made(k)}
<1>1. SUFFICES Bad = {}
  <2>1. n \in 0 .. n
    OBVIOUS
  <2>2. QED BY <2>1
<1>2. SUFFICES ASSUME Bad # {} PROVE FALSE
  OBVIOUS
<1>3. PICK k \in Bad : \A j \in Bad : k <= j
  <2>1. Bad \in SUBSET Nat
    OBVIOUS
  <2> HIDE DEF Bad
  <2>2. QED BY <1>2, <2>1, SmallestExists
<1>4. k # 0
  <2>1. [i \in 0 .. 0 |-> start] \in [0 .. 0 -> A] /\ Upto(0, [i \in 0 .. 0 |-> start])
    OBVIOUS
  <2>2. 0 \notin Bad
    BY <2>1
  <2>3. QED BY <1>3, <2>2
<1>5. k \in 1 .. n /\ k - 1 \in 0 .. n
  BY <1>3, <1>4
<1>6. PICK g \in [0 .. k - 1 -> A] : Upto(k - 1, g)
  <2> HIDE DEF Made
  <2>1. k - 1 \notin Bad
    <3> HIDE DEF Bad
    <3>1. QED BY <1>3, <1>5
  <2>2. Made(k - 1)
    BY <1>5, <2>1
  <2>3. QED BY <2>2 DEF Made
<1> DEFINE h == [i \in 0 .. k |-> IF i = k THEN Step[k][g[k - 1]] ELSE g[i]]
<1>7. h \in [0 .. k -> A]
  <2>1. g[k - 1] \in A
    BY <1>5
  <2>2. Step[k] \in [A -> A]
    BY <1>5
  <2>3. Step[k][g[k - 1]] \in A
    BY <2>1, <2>2
  <2>4. \A i \in 0 .. k : i # k => g[i] \in A
    BY <1>5
  <2>5. QED BY <2>3, <2>4
<1>8. Upto(k, h)
  <2>1. h[0] = start
    BY <1>5, <1>6
  <2>2. ASSUME NEW i \in 1 .. k PROVE h[i] = Step[i][h[i - 1]]
    <3>1. h[i - 1] = g[i - 1]
      BY <1>5
    <3>2. CASE i = k
      BY <1>5, <3>1, <3>2
    <3>3. CASE i # k
      <4>1. i \in 1 .. k - 1
        BY <1>5, <3>3
      <4>2. h[i] = g[i]
        BY <1>5, <3>3
      <4>3. QED BY <1>6, <3>1, <4>1, <4>2
    <3>4. QED BY <3>2, <3>3
  <2>3. QED BY <2>1, <2>2
<1>9. k \notin Bad
  BY <1>7, <1>8
<1>10. QED BY <1>3, <1>9

\* Two such functions agree as far as both go.
LEMMA ChainUnique ==
  ASSUME NEW A, NEW start, NEW n \in Nat, NEW m \in Nat, NEW Step, NEW Other, NEW f, NEW g,
         IsChain(f, A, start, n, Step), IsChain(g, A, start, m, Other),
         \A i \in Nat : i \in 1 .. n /\ i \in 1 .. m => Step[i] = Other[i]
  PROVE  \A i \in Nat : i <= n /\ i <= m => f[i] = g[i]
<1> DEFINE Bad == {i \in Nat : i <= n /\ i <= m /\ f[i] # g[i]}
<1>1. SUFFICES ASSUME Bad # {} PROVE FALSE
  OBVIOUS
<1>2. PICK k \in Bad : \A j \in Bad : k <= j
  <2>1. Bad \in SUBSET Nat
    OBVIOUS
  <2> HIDE DEF Bad
  <2>2. QED BY <1>1, <2>1, SmallestExists
<1>3. k # 0
  BY <1>2 DEF IsChain
<1>4. k - 1 \in Nat /\ k - 1 <= n /\ k - 1 <= m /\ ~ (k <= k - 1)
  BY <1>2, <1>3
<1>5. f[k - 1] = g[k - 1]
  <2>1. k - 1 \notin Bad
    <3> HIDE DEF Bad
    <3>1. QED BY <1>2, <1>4
  <2>2. QED BY <1>4, <2>1
<1>6. k \in 1 .. n /\ k \in 1 .. m /\ k \in Nat
  BY <1>2, <1>3
<1>7. Step[k] = Other[k]
  BY <1>6
<1>8. f[k] = Step[k][f[k - 1]] /\ g[k] = Other[k][g[k - 1]]
  BY <1>6 DEF IsChain
<1>9. QED BY <1>2, <1>5, <1>7, <1>8
===============================================================================

--------------------------------- MODULE Sums ---------------------------------
(***************************************************************************)
(* What the proofs need to know of SumFunction (community module           *)
(* Functions), the sum of the values of an integer function over its       *)
(* finite domain: it is well defined, an element may be taken out of it,   *)
(* and how it changes with one value or with all of them. Induction is     *)
(* over a set that contains the empty set and is closed under adding an    *)
(* element, so that no fact here has an operator for a parameter.          *)
(***************************************************************************)
EXTENDS Integers, FiniteSets, Functions, FiniteSetTheorems, WellFoundedInduction,
        NaturalsInduction, TLAPS

\* Induction on the natural numbers: a set that contains 0 and every successor
\* of its elements contains them all.
LEMMA NaturalInduction ==
    ASSUME NEW P, 0 \in P, \A n \in Nat : n \in P => n + 1 \in P
    PROVE  Nat \subseteq P
<1> SUFFICES ASSUME Nat \ P # {}
             PROVE  FALSE
  OBVIOUS
<1>1. IsWellFoundedOn(OpToRel(<, Nat), Nat)
  BY NatLessThanWellFounded
<1>2. PICK n \in Nat \ P : \A m \in Nat \ P : <<m, n>> \notin OpToRel(<, Nat)
  BY <1>1, WFMin
<1>3. \A m \in Nat \ P : ~(m < n)
  BY <1>2 DEF OpToRel
<1>4. n \in Nat /\ n \notin P
  BY <1>2, Zenon
<1>5. n # 0
  BY <1>4
<1>6. n - 1 \in Nat /\ n - 1 < n /\ (n - 1) + 1 = n
  BY <1>4, <1>5
<1>7. n - 1 \in P
  BY <1>3, <1>6
<1> QED
  BY <1>4, <1>6, <1>7

\* One element fewer.
LEMMA OneElementFewer ==
    ASSUME NEW T, IsFiniteSet(T), NEW n \in Nat, Cardinality(T) = n + 1
    PROVE  T # {} /\ \A x \in T : Cardinality(T \ {x}) = n
<1>1. T # {}
  BY FS_EmptySet
<1>2. \A x \in T : Cardinality(T \ {x}) = Cardinality(T) - 1
  BY FS_RemoveElement
<1> QED
  BY <1>1, <1>2

\* Induction on a finite set: what holds of the empty set and survives one more
\* element of S holds of S.
LEMMA FiniteSetInduction ==
    ASSUME NEW S, IsFiniteSet(S), NEW P, {} \in P,
           \A T \in SUBSET S : \A x \in S \ T : T \in P => T \cup {x} \in P
    PROVE  S \in P
<1> DEFINE Sizes == {n \in Nat : \A T \in SUBSET S : Cardinality(T) = n => T \in P}
<1>1. 0 \in Sizes
  BY FS_Subset, FS_EmptySet
<1>2. \A n \in Nat : n \in Sizes => n + 1 \in Sizes
  <2> SUFFICES ASSUME NEW n \in Sizes, NEW T \in SUBSET S, Cardinality(T) = n + 1
               PROVE  T \in P
    OBVIOUS
  <2>0. n \in Nat
    OBVIOUS
  <2>1. IsFiniteSet(T) /\ T # {}
    BY <2>0, FS_Subset, OneElementFewer
  <2>2. PICK x \in T : TRUE
    BY <2>1
  <2>3. Cardinality(T \ {x}) = n
    BY <2>0, <2>1, <2>2, OneElementFewer
  <2>4. T \ {x} \in P /\ T \ {x} \in SUBSET S /\ x \in S \ (T \ {x})
    BY <2>2, <2>3
  <2>5. (T \ {x}) \cup {x} \in P
    BY <2>4
  <2>6. (T \ {x}) \cup {x} = T
    BY <2>2
  <2> QED
    BY <2>5, <2>6
<1>3. Cardinality(S) \in Sizes
  <2> HIDE DEF Sizes
  <2> QED
    BY <1>1, <1>2, NaturalInduction, FS_CardinalityType
<1> QED
  BY <1>3

-----------------------------------------------------------------------------
(* SumFunctionOnSet is well defined *)

\* The element that the sum over T takes out first, and the equation that
\* defines a sum g of f over the subsets of a family.
First(T) == CHOOSE x \in T : TRUE
IsSumOver(g, f, family) ==
    g = [T \in family |-> IF T = {} THEN 0 ELSE f[First(T)] + g[T \ {First(T)}]]

\* A set that is not empty has a first element.
LEMMA FirstIsElement == ASSUME NEW T, T # {} PROVE First(T) \in T
BY DEF First

\* The definitions of the community modules, unfolded to such a g.
LEMMA SumUnfolds ==
    ASSUME NEW f, NEW S
    PROVE  SumFunctionOnSet(f, S) = (CHOOSE g : IsSumOver(g, f, SUBSET S))[S]
BY DEF SumFunctionOnSet, FoldFunctionOnSet, MapThenFoldSet, IsSumOver, First

\* The subsets of S with at most n elements have a sum, for every n.
LEMMA SumExists ==
    ASSUME NEW S, IsFiniteSet(S), NEW f
    PROVE  \E g : IsSumOver(g, f, SUBSET S)
<1> DEFINE Upto(n) == {T \in SUBSET S : Cardinality(T) <= n}
           Sizes == {n \in Nat : \E g : IsSumOver(g, f, Upto(n))}
           Plus(g, T) == IF T = {} THEN 0 ELSE f[First(T)] + g[T \ {First(T)}]
<1>0. \A T \in SUBSET S : IsFiniteSet(T) /\ Cardinality(T) \in Nat /\ Cardinality(T) <= Cardinality(S)
  BY FS_Subset, FS_CardinalityType
<1>1. 0 \in Sizes
  <2> DEFINE g == [T \in Upto(0) |-> 0]
  <2>1. \A T \in Upto(0) : T = {}
    BY <1>0, FS_EmptySet
  <2>2. IsSumOver(g, f, Upto(0))
    BY <2>1 DEF IsSumOver
  <2> QED
    BY <2>2
<1>2. \A n \in Nat : n \in Sizes => n + 1 \in Sizes
  <2> TAKE n \in Nat
  <2> HAVE n \in Sizes
  <2> PICK g : IsSumOver(g, f, Upto(n))
    OBVIOUS
  <2> DEFINE k == [T \in Upto(n + 1) |-> Plus(g, T)]
  <2>0. \A T \in Upto(n) : T \in Upto(n + 1) /\ g[T] = Plus(g, T)
    <3>1. \A T \in Upto(n) : T \in Upto(n + 1)
      BY <1>0
    <3>2. \A T \in Upto(n) : g[T] = Plus(g, T)
      <4> HIDE DEF Upto
      <4> QED
        BY DEF IsSumOver
    <3> QED
      BY <3>1, <3>2
  <2>1. \A T \in Upto(n) : T \in Upto(n + 1) /\ k[T] = g[T]
    BY <2>0
  <2>2. ASSUME NEW T \in Upto(n + 1), T # {}
        PROVE  T \ {First(T)} \in Upto(n)
    BY <2>2, <1>0, FirstIsElement, FS_RemoveElement
  <2>3. \A T \in Upto(n + 1) : Plus(g, T) = Plus(k, T)
    BY <2>1, <2>2
  <2>4. k = [T \in Upto(n + 1) |-> Plus(k, T)]
    BY <2>3
  <2>5. IsSumOver(k, f, Upto(n + 1))
    <3> HIDE DEF Upto, k
    <3> QED
      BY <2>4 DEF IsSumOver
  <2>6. \E m : IsSumOver(m, f, Upto(n + 1))
    <3> HIDE DEF Upto, k
    <3> QED
      BY <2>5, Zenon
  <2>7. n + 1 \in Nat
    OBVIOUS
  <2> HIDE DEF Upto
  <2> QED
    BY <2>6, <2>7, Zenon
<1>3. Cardinality(S) \in Sizes
  <2> HIDE DEF Sizes
  <2> QED
    BY <1>1, <1>2, NaturalInduction, FS_CardinalityType
<1>4. Upto(Cardinality(S)) = SUBSET S
  BY <1>0
<1> QED
  BY <1>3, <1>4

\* ... and only one.
LEMMA SumIsUnique ==
    ASSUME NEW S, IsFiniteSet(S), NEW f, NEW g, NEW k, NEW R \in SUBSET S,
           IsSumOver(g, f, SUBSET S), IsSumOver(k, f, SUBSET R)
    PROVE  g[R] = k[R]
<1> DEFINE Sizes == {n \in Nat : \A T \in SUBSET R : Cardinality(T) = n => g[T] = k[T]}
<1>0. IsFiniteSet(R) /\ \A T \in SUBSET R : IsFiniteSet(T) /\ Cardinality(T) \in Nat
  BY FS_Subset, FS_CardinalityType
<1>1. 0 \in Sizes
  BY <1>0, FS_EmptySet DEF IsSumOver
<1>2. \A n \in Nat : n \in Sizes => n + 1 \in Sizes
  <2> SUFFICES ASSUME NEW n \in Sizes, NEW T \in SUBSET R, Cardinality(T) = n + 1
               PROVE  g[T] = k[T]
    OBVIOUS
  <2>0. n \in Nat
    OBVIOUS
  <2>1. T # {}
    BY <1>0, <2>0, OneElementFewer
  <2>2. T \ {First(T)} \in SUBSET R /\ Cardinality(T \ {First(T)}) = n
    BY <1>0, <2>0, <2>1, FirstIsElement, OneElementFewer
  <2>3. g[T \ {First(T)}] = k[T \ {First(T)}]
    BY <2>2
  <2>4. g[T] = f[First(T)] + g[T \ {First(T)}]
    BY <2>1 DEF IsSumOver
  <2>5. k[T] = f[First(T)] + k[T \ {First(T)}]
    BY <2>1 DEF IsSumOver
  <2> QED
    BY <2>3, <2>4, <2>5
<1>3. Cardinality(R) \in Sizes
  <2> HIDE DEF Sizes
  <2> QED
    BY <1>0, <1>1, <1>2, NaturalInduction
<1> QED
  BY <1>3
-----------------------------------------------------------------------------
(* The sum over a subset, and over the domain *)

\* The sum over the empty set, its type, and one element taken out of it.
LEMMA SumOfNothing == ASSUME NEW f PROVE SumFunctionOnSet(f, {}) = 0
<1>1. IsFiniteSet({})
  BY FS_EmptySet
<1>2. PICK g : g = (CHOOSE k : IsSumOver(k, f, SUBSET {})) /\ IsSumOver(g, f, SUBSET {})
  BY <1>1, SumExists
<1>3. g[{}] = 0
  BY <1>2 DEF IsSumOver
<1> QED
  BY <1>2, <1>3, SumUnfolds

\* All the sums of f over subsets of S are values of one function.
GivesSums(g, f, S) ==
    IsSumOver(g, f, SUBSET S) /\ \A R \in SUBSET S : SumFunctionOnSet(f, R) = g[R]

LEMMA SumsAreOneFunction ==
    ASSUME NEW S, IsFiniteSet(S), NEW f
    PROVE  \E g : GivesSums(g, f, S)
<1>1. PICK g : IsSumOver(g, f, SUBSET S)
  BY SumExists
<1>2. ASSUME NEW R \in SUBSET S
      PROVE  SumFunctionOnSet(f, R) = g[R]
  <2>1. IsFiniteSet(R)
    BY FS_Subset
  <2>2. PICK k : k = (CHOOSE m : IsSumOver(m, f, SUBSET R)) /\ IsSumOver(k, f, SUBSET R)
    BY <2>1, SumExists
  <2>3. g[R] = k[R]
    BY <1>1, <2>2, SumIsUnique
  <2> QED
    BY <2>2, <2>3, SumUnfolds
<1> QED
  BY <1>1, <1>2 DEF GivesSums

\* The equation that defines the sum.
LEMMA SumFirst ==
    ASSUME NEW S, IsFiniteSet(S), NEW f, NEW T \in SUBSET S, T # {}
    PROVE  SumFunctionOnSet(f, T) = f[First(T)] + SumFunctionOnSet(f, T \ {First(T)})
<1>1. PICK g : GivesSums(g, f, S)
  BY SumsAreOneFunction
<1>2. g[T] = f[First(T)] + g[T \ {First(T)}]
  BY <1>1 DEF GivesSums, IsSumOver
<1> QED
  BY <1>1, <1>2 DEF GivesSums

\* A sum of whole numbers is one.
LEMMA SumOnSetType ==
    ASSUME NEW S, IsFiniteSet(S), NEW f \in [S -> Int], NEW T \in SUBSET S
    PROVE  SumFunctionOnSet(f, T) \in Int
<1> DEFINE Sum(R) == SumFunctionOnSet(f, R)
           Sizes == {n \in Nat : \A R \in SUBSET S : Cardinality(R) = n => Sum(R) \in Int}
<1>0. \A R \in SUBSET S : IsFiniteSet(R) /\ Cardinality(R) \in Nat
  BY FS_Subset, FS_CardinalityType
<1>1. 0 \in Sizes
  BY <1>0, FS_EmptySet, SumOfNothing
<1>2. \A n \in Nat : n \in Sizes => n + 1 \in Sizes
  <2> SUFFICES ASSUME NEW n \in Nat, n \in Sizes, NEW R \in SUBSET S, Cardinality(R) = n + 1
               PROVE  Sum(R) \in Int
    OBVIOUS
  <2>1. R # {} /\ First(R) \in R /\ Cardinality(R \ {First(R)}) = n
    BY <1>0, OneElementFewer, FirstIsElement
  <2>2. Sum(R \ {First(R)}) \in Int /\ f[First(R)] \in Int
    BY <2>1
  <2> HIDE DEF Sum
  <2> QED
    BY <2>1, <2>2, SumFirst DEF Sum
<1>3. Cardinality(T) \in Sizes
  <2> HIDE DEF Sizes
  <2> QED
    BY <1>0, <1>1, <1>2, NaturalInduction
<1> QED
  BY <1>3

\* Whichever element is taken out of the sum.
LEMMA SumTakesOut ==
    ASSUME NEW S, IsFiniteSet(S), NEW f \in [S -> Int], NEW T \in SUBSET S, NEW x \in T
    PROVE  SumFunctionOnSet(f, T) = f[x] + SumFunctionOnSet(f, T \ {x})
<1> DEFINE Sum(R) == SumFunctionOnSet(f, R)
           Sizes == {n \in Nat : \A R \in SUBSET S : Cardinality(R) = n =>
                                    \A y \in R : Sum(R) = f[y] + Sum(R \ {y})}
<1>0. \A R \in SUBSET S : IsFiniteSet(R) /\ Cardinality(R) \in Nat
  BY FS_Subset, FS_CardinalityType
<1>1. 0 \in Sizes
  BY <1>0, FS_EmptySet
<1>2. \A n \in Nat : n \in Sizes => n + 1 \in Sizes
  <2> SUFFICES ASSUME NEW n \in Nat, n \in Sizes, NEW R \in SUBSET S, Cardinality(R) = n + 1,
                      NEW y \in R
               PROVE  Sum(R) = f[y] + Sum(R \ {y})
    OBVIOUS
  <2>1. PICK z \in R : z = First(R)
    BY FirstIsElement
  <2>2. Sum(R) = f[z] + Sum(R \ {z})
    BY <2>1, SumFirst
  <2>3. CASE y = z
    BY <2>2, <2>3
  <2>4. CASE y # z
    <3>1. Cardinality(R \ {z}) = n /\ Cardinality(R \ {y}) = n
      BY <1>0, OneElementFewer
    <3>2. Sum(R \ {z}) = f[y] + Sum((R \ {z}) \ {y})
      BY <2>4, <3>1
    <3>3. Sum(R \ {y}) = f[z] + Sum((R \ {y}) \ {z})
      BY <2>4, <3>1
    <3>4. (R \ {z}) \ {y} = (R \ {y}) \ {z}
      OBVIOUS
    <3>5. f[y] \in Int /\ f[z] \in Int /\ Sum((R \ {y}) \ {z}) \in Int
      BY SumOnSetType
    <3>6. Sum((R \ {z}) \ {y}) = Sum((R \ {y}) \ {z})
      BY <3>4
    <3> HIDE DEF Sum
    <3> QED
      BY <2>2, <3>2, <3>3, <3>5, <3>6
  <2> QED
    BY <2>3, <2>4
<1>3. Cardinality(T) \in Sizes
  <2> HIDE DEF Sizes
  <2> QED
    BY <1>0, <1>1, <1>2, NaturalInduction
<1> QED
  BY <1>3

\* One element more.
LEMMA SumPutsIn ==
    ASSUME NEW S, IsFiniteSet(S), NEW f \in [S -> Int], NEW T \in SUBSET S, NEW x \in S \ T
    PROVE  SumFunctionOnSet(f, T \cup {x}) = f[x] + SumFunctionOnSet(f, T)
<1>1. T \cup {x} \in SUBSET S /\ x \in T \cup {x} /\ (T \cup {x}) \ {x} = T
  OBVIOUS
<1>2. SumFunctionOnSet(f, T \cup {x}) = f[x] + SumFunctionOnSet(f, (T \cup {x}) \ {x})
  BY <1>1, SumTakesOut
<1> QED
  BY <1>1, <1>2

\* Functions that agree on a set, that are ordered on it, or that add up on it,
\* have sums over it that do.
LEMMA SumsOnSet ==
    ASSUME NEW S, IsFiniteSet(S), NEW f \in [S -> Int], NEW g \in [S -> Int],
           NEW T \in SUBSET S
    PROVE  /\ (\A x \in T : f[x] = g[x]) => SumFunctionOnSet(f, T) = SumFunctionOnSet(g, T)
           /\ (\A x \in T : f[x] <= g[x]) => SumFunctionOnSet(f, T) <= SumFunctionOnSet(g, T)
<1> DEFINE F(R) == SumFunctionOnSet(f, R)
           G(R) == SumFunctionOnSet(g, R)
           P == {R \in SUBSET T : /\ (\A x \in R : f[x] = g[x]) => F(R) = G(R)
                                  /\ (\A x \in R : f[x] <= g[x]) => F(R) <= G(R)}
<1>1. {} \in P
  BY SumOfNothing
<1>2. ASSUME NEW R \in SUBSET T, NEW y \in T \ R, R \in P
      PROVE  R \cup {y} \in P
  <2>1. /\ F(R \cup {y}) = f[y] + F(R) /\ G(R \cup {y}) = g[y] + G(R)
    BY SumPutsIn
  <2>2. F(R) \in Int /\ G(R) \in Int /\ f[y] \in Int /\ g[y] \in Int
    BY SumOnSetType
  <2>3. R \cup {y} \in SUBSET T
    OBVIOUS
  <2>4. ASSUME \A x \in R \cup {y} : f[x] = g[x]
        PROVE  F(R \cup {y}) = G(R \cup {y})
    <3>1. F(R) = G(R) /\ f[y] = g[y]
      BY <1>2, <2>4
    <3> HIDE DEF F, G
    <3> QED
      BY <2>1, <3>1
  <2>5. ASSUME \A x \in R \cup {y} : f[x] <= g[x]
        PROVE  F(R \cup {y}) <= G(R \cup {y})
    <3>1. F(R) <= G(R) /\ f[y] <= g[y]
      BY <1>2, <2>5
    <3> HIDE DEF F, G
    <3> QED
      BY <2>1, <2>2, <3>1
  <2> QED
    BY <2>3, <2>4, <2>5
<1>3. IsFiniteSet(T)
  BY FS_Subset
<1>4. T \in P
  <2> HIDE DEF P
  <2> QED
    BY <1>1, <1>2, <1>3, FiniteSetInduction
<1> QED
  BY <1>4

\* The sum of two functions, point by point, has the sum of their sums.
LEMMA SumsAddUpOnSet ==
    ASSUME NEW S, IsFiniteSet(S), NEW f \in [S -> Int], NEW g \in [S -> Int],
           NEW k \in [S -> Int], \A x \in S : k[x] = f[x] + g[x]
    PROVE  SumFunctionOnSet(k, S) = SumFunctionOnSet(f, S) + SumFunctionOnSet(g, S)
<1> DEFINE F(R) == SumFunctionOnSet(f, R)
           G(R) == SumFunctionOnSet(g, R)
           K(R) == SumFunctionOnSet(k, R)
           P == {R \in SUBSET S : K(R) = F(R) + G(R)}
<1>1. {} \in P
  BY SumOfNothing
<1>2. ASSUME NEW R \in SUBSET S, NEW y \in S \ R, R \in P
      PROVE  R \cup {y} \in P
  <2>1. /\ F(R \cup {y}) = f[y] + F(R) /\ G(R \cup {y}) = g[y] + G(R)
        /\ K(R \cup {y}) = k[y] + K(R)
    BY SumPutsIn
  <2>2. F(R) \in Int /\ G(R) \in Int /\ f[y] \in Int /\ g[y] \in Int
    BY SumOnSetType
  <2>3. K(R) = F(R) + G(R) /\ k[y] = f[y] + g[y]
    BY <1>2
  <2>4. K(R \cup {y}) = F(R \cup {y}) + G(R \cup {y})
    <3> HIDE DEF F, G, K
    <3> QED
      BY <2>1, <2>2, <2>3
  <2> QED
    BY <2>4
<1>3. S \in P
  <2> HIDE DEF P
  <2> QED
    BY <1>1, <1>2, FiniteSetInduction
<1> QED
  BY <1>3

\* The sum of an integer function over its domain.
LEMMA SumIsOverDomain ==
    ASSUME NEW S, NEW f \in [S -> Int]
    PROVE  SumFunction(f) = SumFunctionOnSet(f, S)
<1>1. DOMAIN f = S
  OBVIOUS
<1> QED
  BY <1>1 DEF SumFunction

\* It is a whole number, ...
LEMMA SumType ==
    ASSUME NEW S, IsFiniteSet(S), NEW f \in [S -> Int]
    PROVE  SumFunction(f) \in Int
BY SumIsOverDomain, SumOnSetType

\* ... it is ordered as its values are, ...
LEMMA SumMonotone ==
    ASSUME NEW S, IsFiniteSet(S), NEW f \in [S -> Int], NEW g \in [S -> Int],
           \A x \in S : f[x] <= g[x]
    PROVE  SumFunction(f) <= SumFunction(g)
BY SumIsOverDomain, SumsOnSet

\* ... and it adds up as its values do.
LEMMA SumsAddUp ==
    ASSUME NEW S, IsFiniteSet(S), NEW f \in [S -> Int], NEW g \in [S -> Int],
           NEW k \in [S -> Int], \A x \in S : k[x] = f[x] + g[x]
    PROVE  SumFunction(k) = SumFunction(f) + SumFunction(g)
BY SumIsOverDomain, SumsAddUpOnSet

\* One value changes.
LEMMA SumChange ==
    ASSUME NEW S, IsFiniteSet(S), NEW f \in [S -> Int], NEW g \in [S -> Int],
           NEW x \in S, \A y \in S \ {x} : g[y] = f[y]
    PROVE  SumFunction(g) = SumFunction(f) + (g[x] - f[x])
<1> DEFINE rest == SumFunctionOnSet(f, S \ {x})
<1>1. SumFunctionOnSet(g, S \ {x}) = rest
  BY SumsOnSet
<1>2. SumFunction(f) = f[x] + rest
  BY SumIsOverDomain, SumTakesOut
<1>3. SumFunction(g) = g[x] + SumFunctionOnSet(g, S \ {x})
  BY SumIsOverDomain, SumTakesOut
<1>4. rest \in Int /\ f[x] \in Int /\ g[x] \in Int
  BY SumOnSetType
<1> HIDE DEF rest
<1> QED
  BY <1>1, <1>2, <1>3, <1>4

\* A function and its extension have one sum over the smaller domain.
LEMMA SumsAgree ==
    ASSUME NEW S, NEW U, IsFiniteSet(U), S \subseteq U,
           NEW f \in [S -> Int], NEW g \in [U -> Int], \A y \in S : g[y] = f[y]
    PROVE  SumFunctionOnSet(f, S) = SumFunctionOnSet(g, S)
<1> DEFINE F(R) == SumFunctionOnSet(f, R)
           G(R) == SumFunctionOnSet(g, R)
           P == {R \in SUBSET S : F(R) = G(R)}
<1>1. {} \in P
  BY SumOfNothing
<1>2. IsFiniteSet(S)
  BY FS_Subset
<1>3. ASSUME NEW R \in SUBSET S, NEW y \in S \ R, R \in P
      PROVE  R \cup {y} \in P
  <2>1. F(R \cup {y}) = f[y] + F(R)
    BY <1>2, SumPutsIn
  <2>2. G(R \cup {y}) = g[y] + G(R)
    BY SumPutsIn
  <2> QED
    BY <1>3, <2>1, <2>2
<1>4. S \in P
  <2> HIDE DEF P
  <2> QED
    BY <1>1, <1>2, <1>3, FiniteSetInduction
<1> QED
  BY <1>4

\* Values that are all zero.
LEMMA SumOfZeros ==
    ASSUME NEW S, IsFiniteSet(S), NEW f \in [S -> Int], \A x \in S : f[x] = 0
    PROVE  SumFunction(f) = 0
<1>1. SumFunction(f) = SumFunction(f) + SumFunction(f)
  BY SumsAddUp
<1> QED
  BY <1>1, SumType

\* Values that are not negative have a sum that is not.
LEMMA SumNat ==
    ASSUME NEW S, IsFiniteSet(S), NEW f \in [S -> Int], \A x \in S : f[x] >= 0
    PROVE  SumFunction(f) \in Nat
<1> DEFINE zero == [x \in S |-> 0]
<1>1. SumFunction(zero) = 0
  BY SumOfZeros
<1>2. SumFunction(zero) <= SumFunction(f)
  BY SumMonotone
<1> QED
  BY <1>1, <1>2, SumType

\* A sum of nothing, of one value, and of two.
LEMMA SumOfFew ==
    ASSUME NEW S, NEW f \in [S -> Int]
    PROVE  /\ S = {} => SumFunction(f) = 0
           /\ \A x : S = {x} => SumFunction(f) = f[x]
           /\ \A x, y : x # y /\ S = {x, y} => SumFunction(f) = f[x] + f[y]
<1>1. S = {} => SumFunction(f) = 0
  BY SumIsOverDomain, SumOfNothing
<1>2. ASSUME NEW x, S = {x} PROVE SumFunction(f) = f[x]
  <2>1. IsFiniteSet(S) /\ S \ {x} = {}
    BY <1>2, FS_Singleton
  <2>2. SumFunctionOnSet(f, S) = f[x] + SumFunctionOnSet(f, {})
    BY <1>2, <2>1, SumTakesOut
  <2>3. f[x] \in Int
    BY <1>2
  <2> QED  BY <2>2, <2>3, SumIsOverDomain, SumOfNothing
<1>3. ASSUME NEW x, NEW y, x # y, S = {x, y} PROVE SumFunction(f) = f[x] + f[y]
  <2>1. IsFiniteSet({x}) /\ IsFiniteSet(S) /\ S \ {x} = {y} /\ {y} \ {y} = {} /\ {y} \in SUBSET S
    <3>1. S = {x} \cup {y} /\ S \ {x} = {y} /\ {y} \ {y} = {} /\ {y} \in SUBSET S
      BY <1>3
    <3>2. IsFiniteSet({x})
      BY FS_Singleton
    <3>3. IsFiniteSet({x} \cup {y})
      BY <3>2, FS_AddElement
    <3> QED  BY <3>1, <3>2, <3>3
  <2>2. SumFunctionOnSet(f, S) = f[x] + SumFunctionOnSet(f, {y})
    BY <1>3, <2>1, SumTakesOut
  <2>3. SumFunctionOnSet(f, {y}) = f[y] + SumFunctionOnSet(f, {})
    BY <2>1, SumTakesOut
  <2>4. f[x] \in Int /\ f[y] \in Int
    BY <1>3
  <2> QED  BY <2>2, <2>3, <2>4, SumIsOverDomain, SumOfNothing
<1> QED  BY <1>1, <1>2, <1>3

\* A sum of values that are not negative is at least any of them, and any two.
LEMMA SumHolds ==
    ASSUME NEW S, IsFiniteSet(S), NEW f \in [S -> Int], \A x \in S : f[x] >= 0
    PROVE  /\ \A x \in S : f[x] <= SumFunction(f)
           /\ \A x, y \in S : x # y => f[x] + f[y] <= SumFunction(f)
<1>1. ASSUME NEW T \in SUBSET S PROVE SumFunctionOnSet(f, T) >= 0 /\ SumFunctionOnSet(f, T) \in Int
  <2> DEFINE g == [x \in T |-> f[x]]
  <2>1. g \in [T -> Int] /\ IsFiniteSet(T) /\ \A x \in T : g[x] >= 0
    BY FS_Subset
  <2>2. SumFunction(g) \in Nat /\ SumFunction(g) = SumFunctionOnSet(g, T)
    <3> HIDE DEF g
    <3> QED  BY <2>1, SumNat, SumIsOverDomain
  <2>3. \A x \in T : f[x] = g[x]
    OBVIOUS
  <2>4. SumFunctionOnSet(g, T) = SumFunctionOnSet(f, T)
    <3> HIDE DEF g
    <3> QED  BY <2>1, <2>3, SumsAgree
  <2> HIDE DEF g
  <2> QED  BY <2>2, <2>4
<1>2. ASSUME NEW x \in S PROVE f[x] <= SumFunction(f)
  <2>1. SumFunction(f) = f[x] + SumFunctionOnSet(f, S \ {x})
    BY SumIsOverDomain, SumTakesOut
  <2>2. SumFunctionOnSet(f, S \ {x}) >= 0 /\ SumFunctionOnSet(f, S \ {x}) \in Int
    BY <1>1
  <2> QED  BY <2>1, <2>2
<1>3. ASSUME NEW x \in S, NEW y \in S, x # y PROVE f[x] + f[y] <= SumFunction(f)
  <2>1. SumFunction(f) = f[x] + SumFunctionOnSet(f, S \ {x})
    BY SumIsOverDomain, SumTakesOut
  <2>2. SumFunctionOnSet(f, S \ {x}) = f[y] + SumFunctionOnSet(f, (S \ {x}) \ {y})
    BY <1>3, SumTakesOut
  <2>3. /\ SumFunctionOnSet(f, (S \ {x}) \ {y}) >= 0 /\ SumFunctionOnSet(f, (S \ {x}) \ {y}) \in Int
        /\ f[x] \in Int /\ f[y] \in Int
    BY <1>1
  <2> QED  BY <2>1, <2>2, <2>3
<1> QED  BY <1>2, <1>3

\* Where one value changes by any amount and no other one grows, the sum grows by no
\* more than that value.
LEMMA SumChangeBelow ==
    ASSUME NEW S, IsFiniteSet(S), NEW f \in [S -> Int], NEW g \in [S -> Int],
           NEW x \in S, \A y \in S \ {x} : g[y] <= f[y]
    PROVE  SumFunction(g) <= SumFunction(f) + (g[x] - f[x])
<1> DEFINE h == [y \in S |-> IF y = x THEN g[x] ELSE f[y]]
<1>1. h \in [S -> Int] /\ h[x] = g[x] /\ (\A y \in S \ {x} : h[y] = f[y]) /\ \A y \in S : g[y] <= h[y]
  OBVIOUS
<1> HIDE DEF h
<1>2. SumFunction(h) = SumFunction(f) + (h[x] - f[x])
  BY <1>1, SumChange
<1>3. SumFunction(g) <= SumFunction(h)
  BY <1>1, SumMonotone
<1> QED
  BY <1>1, <1>2, <1>3, SumType

\* One more element adds its value to the sum.
LEMMA SumAdds ==
    ASSUME NEW S, IsFiniteSet(S), NEW x, x \notin S, NEW f \in [S -> Int], NEW g \in [S \cup {x} -> Int],
           \A y \in S : g[y] = f[y]
    PROVE  SumFunction(g) = SumFunction(f) + g[x]
<1>1. IsFiniteSet(S \cup {x}) /\ S \subseteq S \cup {x} /\ (S \cup {x}) \ {x} = S
  BY FS_AddElement
<1>2. SumFunctionOnSet(g, S \cup {x}) = g[x] + SumFunctionOnSet(g, S)
  BY <1>1, SumTakesOut
<1>3. SumFunctionOnSet(f, S) = SumFunctionOnSet(g, S)
  BY <1>1, SumsAgree
<1>4. SumFunction(g) = SumFunctionOnSet(g, S \cup {x}) /\ SumFunction(f) = SumFunctionOnSet(f, S)
  BY SumIsOverDomain
<1>5. g[x] \in Int /\ SumFunctionOnSet(g, S) \in Int
  BY <1>1, SumOnSetType
<1> QED
  BY <1>2, <1>3, <1>4, <1>5

\* What has no value does not count.
LEMMA SumOfSupport ==
    ASSUME NEW U, IsFiniteSet(U), NEW S \in SUBSET U,
           NEW f \in [S -> Int], NEW g \in [U -> Int],
           \A x \in S : g[x] = f[x], \A x \in U \ S : g[x] = 0
    PROVE  SumFunction(g) = SumFunction(f)
<1> DEFINE G(R) == SumFunctionOnSet(g, R)
           P == {R \in SUBSET (U \ S) : G(S \cup R) = G(S)}
<1>1. {} \in P
  BY DEF P
<1>2. ASSUME NEW R \in SUBSET (U \ S), NEW y \in (U \ S) \ R, R \in P
      PROVE  R \cup {y} \in P
  <2>1. S \cup R \in SUBSET U /\ y \in U \ (S \cup R) /\ S \cup (R \cup {y}) = (S \cup R) \cup {y}
    OBVIOUS
  <2>2. G((S \cup R) \cup {y}) = g[y] + G(S \cup R)
    BY <2>1, SumPutsIn
  <2>3. g[y] = 0 /\ G(S \cup R) = G(S) /\ G(S) \in Int
    BY <1>2, SumOnSetType
  <2>4. PICK n \in Int : n = G(S)
    BY <2>3
  <2>5. G(S \cup (R \cup {y})) = G(S)
    <3> HIDE DEF G
    <3>1. S \cup (R \cup {y}) = (S \cup R) \cup {y}
      BY <2>1
    <3>2. G((S \cup R) \cup {y}) = 0 + n
      BY <2>2, <2>3, <2>4
    <3>3. 0 + n = n
      OBVIOUS
    <3> QED  BY <3>1, <3>2, <3>3, <2>4, Zenon
  <2> QED  BY <1>2, <2>5
<1>3. IsFiniteSet(U \ S)
  BY FS_Subset
<1>4. U \ S \in P
  <2> HIDE DEF P
  <2> QED  BY <1>1, <1>2, <1>3, FiniteSetInduction
<1>5. S \cup (U \ S) = U
  OBVIOUS
<1>6. G(U) = G(S)
  BY <1>4, <1>5
<1> QED  BY <1>6, SumIsOverDomain, SumsAgree

=============================================================================

----------------------------- MODULE SumTheorems -----------------------------
(***************************************************************************)
(* Sums over finite sets: what SumFunctionOnSet of the community modules        *)
(* computes, for every finite set of indices, and what that makes of the        *)
(* balances of the Ledger.  The induction is over sets of sets (a set that has   *)
(* every set whose smaller ones it has), so that no theorem has an operator for  *)
(* a parameter.                                                              *)
(***************************************************************************)
EXTENDS Ledger, FiniteSets, FiniteSetTheorems, WellFoundedInduction, TLAPS

\* A set of numbers that has 0 and the successors of its own has them all.
LEMMA NumberInduction ==
  ASSUME NEW A \in SUBSET Nat, 0 \in A, \A n \in A : n + 1 \in A
  PROVE  A = Nat
<1> DEFINE R == OpToRel(<, Nat)
           B == Nat \ A
<1>1. IsWellFoundedOn(R, Nat)
  BY NatLessThanWellFounded
<1>2. \A x, y \in Nat : <<y, x>> \in R <=> y < x
  BY DEF OpToRel
<1>3. SUFFICES ASSUME B # {} PROVE FALSE
  OBVIOUS
<1>4. B \subseteq Nat
  OBVIOUS
<1>5. PICK x \in B : \A y \in B : ~ (<<y, x>> \in R)
  <2> HIDE DEF R, B
  <2> QED BY <1>1, <1>3, <1>4, WFMin
<1>6. x \in Nat /\ x # 0 /\ x \notin A
  OBVIOUS
<1>7. x - 1 \in Nat /\ x - 1 < x
  BY <1>6
<1>8. x - 1 \in A
  <2> HIDE DEF R
  <2> QED BY <1>2, <1>5, <1>6, <1>7
<1> QED BY <1>6, <1>7, <1>8

\* A collection of subsets of a finite set that has each one whose strict subsets it has, has them all.
LEMMA SubsetInduction ==
  ASSUME NEW S, IsFiniteSet(S), NEW A \in SUBSET SUBSET S,
         \A T \in SUBSET S : (\A U \in SUBSET T : U # T => U \in A) => T \in A
  PROVE  A = SUBSET S
<1> DEFINE B == (SUBSET S) \ A
           R == StrictSubsetOrdering(S)
<1>1. IsWellFoundedOn(R, SUBSET S)
  BY FS_StrictSubsetOrderingWellFounded, FS_FiniteSubsetsOfFinite
<1>2. SUFFICES ASSUME B # {} PROVE FALSE
  OBVIOUS
<1>3. B \subseteq SUBSET S
  OBVIOUS
<1>4. PICK T \in B : \A U \in B : ~ (<<U, T>> \in R)
  <2> HIDE DEF R, B
  <2> QED BY <1>1, <1>2, <1>3, WFMin
<1>5. \A U \in SUBSET T : U # T => U \in A
  BY <1>4 DEF StrictSubsetOrdering
<1> QED BY <1>4, <1>5

(***************************************************************************)
(* The recursive function behind a sum exists, and there is one only.         *)
(***************************************************************************)
AnyOf(s) == CHOOSE x \in s : TRUE
IsSumOf(g, f, S) == g = [s \in SUBSET S |-> IF s = {} THEN 0 ELSE f[CHOOSE x \in s : TRUE] + g[s \ {CHOOSE x \in s : TRUE}]]

LEMMA AnyIsIn == ASSUME NEW s, s # {} PROVE AnyOf(s) \in s
  BY DEF AnyOf

LEMMA SumExists ==
  ASSUME NEW f, NEW S, IsFiniteSet(S)
  PROVE  \E g : IsSumOf(g, f, S)
<1> DEFINE Upto(n) == {s \in SUBSET S : Cardinality(s) <= n}
           Step(s, g) == IF s = {} THEN 0 ELSE f[AnyOf(s)] + g[s \ {AnyOf(s)}]
           A == {n \in Nat : \E g : g = [s \in Upto(n) |-> Step(s, g)]}
<1>1. \A s \in SUBSET S : /\ Cardinality(s) \in Nat /\ (Cardinality(s) = 0 <=> s = {}) /\ Cardinality(s) <= Cardinality(S)
                          /\ s # {} => /\ s \ {AnyOf(s)} \in SUBSET S
                                       /\ Cardinality(s \ {AnyOf(s)}) = Cardinality(s) - 1
  <2> TAKE s \in SUBSET S
  <2>1. IsFiniteSet(s) /\ Cardinality(s) <= Cardinality(S)
    BY FS_Subset
  <2>2. Cardinality(s) \in Nat /\ (Cardinality(s) = 0 <=> s = {})
    BY <2>1, FS_CardinalityType, FS_EmptySet
  <2>3. s # {} => Cardinality(s \ {AnyOf(s)}) = Cardinality(s) - 1
    BY <2>1, FS_RemoveElement, AnyIsIn
  <2> QED BY <2>1, <2>2, <2>3
<1>2. 0 \in A
  <2> DEFINE g == [s \in Upto(0) |-> 0]
  <2>1. \A s \in Upto(0) : s = {}
    <3> TAKE s \in Upto(0)
    <3>1. s \in SUBSET S /\ Cardinality(s) <= 0
      OBVIOUS
    <3>2. Cardinality(s) \in Nat /\ (Cardinality(s) = 0 <=> s = {})
      BY <1>1, <3>1
    <3> QED BY <3>1, <3>2
  <2>2. g = [s \in Upto(0) |-> Step(s, g)]
    BY <2>1
  <2> QED BY <2>2
<1>3. ASSUME NEW n \in A PROVE n + 1 \in A
  <2>1. PICK g : g = [s \in Upto(n) |-> Step(s, g)]
    BY <1>3
  <2> DEFINE h == [s \in Upto(n + 1) |-> Step(s, g)]
  <2>2. \A s \in Upto(n) : s \in Upto(n + 1) /\ h[s] = g[s]
    <3>1. \A s \in Upto(n) : s \in Upto(n + 1)
      <4> TAKE s \in Upto(n)
      <4>1. s \in SUBSET S /\ Cardinality(s) <= n /\ Cardinality(s) \in Nat /\ n \in Nat
        BY <1>1
      <4> QED BY <4>1
    <3>2. \A s \in Upto(n) : g[s] = Step(s, g)
      <4> HIDE DEF Step, Upto
      <4> QED BY <2>1
    <3>3. \A s \in Upto(n) : h[s] = Step(s, g)
      <4> HIDE DEF Step, Upto
      <4> QED BY <3>1
    <3> QED BY <3>1, <3>2, <3>3
  <2>3. \A s \in Upto(n + 1) : s # {} => s \ {AnyOf(s)} \in Upto(n)
    BY <1>1
  <2>4. \A s \in Upto(n + 1) : Step(s, g) = Step(s, h)
    <3> HIDE DEF h, Upto
    <3> QED BY <2>2, <2>3
  <2>5. h = [s \in Upto(n + 1) |-> Step(s, h)]
    <3> HIDE DEF Step, Upto
    <3> QED BY <2>4
  <2>6. \E k : k = [s \in Upto(n + 1) |-> Step(s, k)]
    <3> HIDE DEF Step, Upto, h
    <3> QED BY <2>5
  <2>7. n + 1 \in Nat
    OBVIOUS
  <2> HIDE DEF Step, Upto
  <2> QED BY <2>6, <2>7
<1>4. A = Nat
  <2>1. A \in SUBSET Nat /\ \A n \in A : n + 1 \in A
    BY <1>3
  <2> HIDE DEF A
  <2> QED BY <1>2, <2>1, NumberInduction
<1>5. PICK g : g = [s \in Upto(Cardinality(S)) |-> Step(s, g)]
  BY <1>1, <1>4
<1>6. Upto(Cardinality(S)) = SUBSET S
  BY <1>1
<1>7. g = [s \in SUBSET S |-> Step(s, g)]
  <2> HIDE DEF Upto, Step
  <2> QED BY <1>5, <1>6
<1> QED BY <1>7 DEF IsSumOf, AnyOf

LEMMA SumIsUnique ==
  ASSUME NEW f, NEW S, IsFiniteSet(S), NEW g, NEW h, IsSumOf(g, f, S), IsSumOf(h, f, S)
  PROVE  g = h
<1> DEFINE A == {T \in SUBSET S : g[T] = h[T]}
<1>1. ASSUME NEW T \in SUBSET S, \A U \in SUBSET T : U # T => U \in A PROVE T \in A
  <2>1. CASE T = {}
    BY <2>1 DEF IsSumOf
  <2>2. CASE T # {}
    <3>1. T \ {AnyOf(T)} \in A
      BY <1>1, <2>2, AnyIsIn
    <3>2. g[T] = f[AnyOf(T)] + g[T \ {AnyOf(T)}] /\ h[T] = f[AnyOf(T)] + h[T \ {AnyOf(T)}]
      BY <2>2 DEF IsSumOf, AnyOf
    <3> QED BY <3>1, <3>2
  <2> QED BY <2>1, <2>2
<1>2. A = SUBSET S
  <2>1. A \in SUBSET SUBSET S /\ \A T \in SUBSET S : (\A U \in SUBSET T : U # T => U \in A) => T \in A
    BY <1>1
  <2> HIDE DEF A
  <2> QED BY <2>1, SubsetInduction
<1>3. \A T \in SUBSET S : g[T] = h[T]
  BY <1>2
<1> QED BY <1>3 DEF IsSumOf

\* On the subsets of a finite set one function has all the sums.
LEMMA SumUnfolds ==
  ASSUME NEW f, NEW S, IsFiniteSet(S), NEW g, IsSumOf(g, f, S), NEW T \in SUBSET S
  PROVE  SumFunctionOnSet(f, T) = g[T]
<1> DEFINE r == [s \in SUBSET T |-> g[s]]
           it == CHOOSE iter : iter = [s \in SUBSET T |-> IF s = {} THEN 0
                                                         ELSE f[CHOOSE x \in s : TRUE] + iter[s \ {CHOOSE x \in s : TRUE}]]
<1>1. \A s \in SUBSET T : s # {} => s \ {CHOOSE x \in s : TRUE} \in SUBSET T
  OBVIOUS
<1>2. IsSumOf(r, f, T)
  BY <1>1 DEF IsSumOf
<1>3. SumFunctionOnSet(f, T) = it[T]
  BY DEF SumFunctionOnSet, FoldFunctionOnSet, MapThenFoldSet
<1>4. IsSumOf(it, f, T)
  <2>1. \E g2 : g2 = [s \in SUBSET T |-> IF s = {} THEN 0 ELSE f[CHOOSE x \in s : TRUE] + g2[s \ {CHOOSE x \in s : TRUE}]]
    <3> HIDE DEF r
    <3> QED BY <1>2, ZenonT(40) DEF IsSumOf
  <2>2. it = [s \in SUBSET T |-> IF s = {} THEN 0 ELSE f[CHOOSE x \in s : TRUE] + it[s \ {CHOOSE x \in s : TRUE}]]
    BY <2>1
  <2> QED BY <2>2 DEF IsSumOf
<1>5. it = r
  <2>1. IsFiniteSet(T)
    BY FS_Subset
  <2> HIDE DEF it, r
  <2> QED BY <1>2, <1>4, <2>1, SumIsUnique
<1> QED BY <1>3, <1>5

\* A sum, one index at a time: any one and the sum of the rest.
THEOREM SumRecursion ==
  ASSUME NEW f, NEW S, IsFiniteSet(S)
  PROVE  /\ S = {} => SumFunctionOnSet(f, S) = 0
         /\ S # {} => SumFunctionOnSet(f, S) = f[AnyOf(S)] + SumFunctionOnSet(f, S \ {AnyOf(S)})
<1>1. PICK g : IsSumOf(g, f, S)
  BY SumExists
<1>2. SumFunctionOnSet(f, S) = g[S] /\ SumFunctionOnSet(f, S \ {AnyOf(S)}) = g[S \ {AnyOf(S)}]
  BY <1>1, SumUnfolds
<1>3. g[S] = IF S = {} THEN 0 ELSE f[AnyOf(S)] + g[S \ {AnyOf(S)}]
  BY <1>1 DEF IsSumOf, AnyOf
<1> QED BY <1>2, <1>3

\* The sum of integers is one.
THEOREM SumType ==
  ASSUME NEW f, NEW S, IsFiniteSet(S), \A x \in S : f[x] \in Int
  PROVE  SumFunctionOnSet(f, S) \in Int
<1> DEFINE A == {T \in SUBSET S : SumFunctionOnSet(f, T) \in Int}
<1>1. ASSUME NEW T \in SUBSET S, \A U \in SUBSET T : U # T => U \in A PROVE T \in A
  <2>1. IsFiniteSet(T)
    BY FS_Subset
  <2>2. T # {} => f[AnyOf(T)] \in Int /\ SumFunctionOnSet(f, T \ {AnyOf(T)}) \in Int
    BY <1>1, AnyIsIn
  <2>3. SumFunctionOnSet(f, T) \in Int
    BY <2>1, <2>2, SumRecursion
  <2> QED BY <2>3
<1>2. A \in SUBSET SUBSET S /\ \A T \in SUBSET S : (\A U \in SUBSET T : U # T => U \in A) => T \in A
  BY <1>1
<1>3. A = SUBSET S
  <2> HIDE DEF A
  <2> QED BY <1>2, SubsetInduction
<1> QED BY <1>3

\* Only the values at the indices count.
THEOREM SumDependsOnValues ==
  ASSUME NEW f, NEW g, NEW S, IsFiniteSet(S), \A x \in S : f[x] = g[x]
  PROVE  SumFunctionOnSet(f, S) = SumFunctionOnSet(g, S)
<1> DEFINE A == {T \in SUBSET S : SumFunctionOnSet(f, T) = SumFunctionOnSet(g, T)}
<1>1. ASSUME NEW T \in SUBSET S, \A U \in SUBSET T : U # T => U \in A PROVE T \in A
  <2>1. IsFiniteSet(T)
    BY FS_Subset
  <2>2. T # {} => AnyOf(T) \in T /\ T \ {AnyOf(T)} \in A
    BY <1>1, AnyIsIn
  <2>3. CASE T = {}
    BY <2>1, <2>3, SumRecursion
  <2>4. CASE T # {}
    <3>1. /\ SumFunctionOnSet(f, T) = f[AnyOf(T)] + SumFunctionOnSet(f, T \ {AnyOf(T)})
          /\ SumFunctionOnSet(g, T) = g[AnyOf(T)] + SumFunctionOnSet(g, T \ {AnyOf(T)})
      BY <2>1, <2>4, SumRecursion
    <3>2. f[AnyOf(T)] = g[AnyOf(T)] /\ SumFunctionOnSet(f, T \ {AnyOf(T)}) = SumFunctionOnSet(g, T \ {AnyOf(T)})
      BY <2>2, <2>4
    <3> QED BY <3>1, <3>2
  <2> QED BY <2>3, <2>4
<1>2. A \in SUBSET SUBSET S /\ \A T \in SUBSET S : (\A U \in SUBSET T : U # T => U \in A) => T \in A
  BY <1>1
<1>3. A = SUBSET S
  <2> HIDE DEF A
  <2> QED BY <1>2, SubsetInduction
<1> QED BY <1>3

\* Any index may be taken first.
THEOREM SumTakesAny ==
  ASSUME NEW f, NEW S, IsFiniteSet(S), \A x \in S : f[x] \in Int, NEW x \in S
  PROVE  SumFunctionOnSet(f, S) = f[x] + SumFunctionOnSet(f, S \ {x})
<1> DEFINE A == {T \in SUBSET S : \A y \in T : SumFunctionOnSet(f, T) = f[y] + SumFunctionOnSet(f, T \ {y})}
<1>1. ASSUME NEW T \in SUBSET S, \A U \in SUBSET T : U # T => U \in A, NEW y \in T
      PROVE  SumFunctionOnSet(f, T) = f[y] + SumFunctionOnSet(f, T \ {y})
  <2> DEFINE z == AnyOf(T)
  <2>1. IsFiniteSet(T) /\ z \in T
    BY FS_Subset, AnyIsIn
  <2>2. SumFunctionOnSet(f, T) = f[z] + SumFunctionOnSet(f, T \ {z})
    BY <2>1, SumRecursion
  <2>3. CASE z = y
    BY <2>2, <2>3
  <2>4. CASE z # y
    <3> HIDE DEF z
    <3>1. T \ {z} \in A /\ T \ {y} \in A
      BY <1>1, <2>1
    <3>2. /\ SumFunctionOnSet(f, T \ {z}) = f[y] + SumFunctionOnSet(f, (T \ {z}) \ {y})
          /\ SumFunctionOnSet(f, T \ {y}) = f[z] + SumFunctionOnSet(f, (T \ {y}) \ {z})
      BY <2>1, <2>4, <3>1
    <3>3. (T \ {z}) \ {y} = (T \ {y}) \ {z}
      OBVIOUS
    <3>4. IsFiniteSet((T \ {z}) \ {y}) /\ (T \ {z}) \ {y} \subseteq S
      BY <2>1, FS_RemoveElement
    <3>5. f[y] \in Int /\ f[z] \in Int /\ SumFunctionOnSet(f, (T \ {z}) \ {y}) \in Int
      BY <2>1, <3>4, SumType
    <3> DEFINE rest == SumFunctionOnSet(f, (T \ {z}) \ {y})
    <3>6. SumFunctionOnSet(f, T) = f[z] + (f[y] + rest) /\ SumFunctionOnSet(f, T \ {y}) = f[z] + rest
      BY <2>2, <3>2, <3>3
    <3>7. rest \in Int
      BY <3>5
    <3> HIDE DEF rest
    <3> QED BY <3>5, <3>6, <3>7
  <2> QED BY <2>3, <2>4
<1>2. A \in SUBSET SUBSET S /\ \A T \in SUBSET S : (\A U \in SUBSET T : U # T => U \in A) => T \in A
  BY <1>1
<1>3. A = SUBSET S
  <2> HIDE DEF A
  <2> QED BY <1>2, SubsetInduction
<1> QED BY <1>3

\* One more index adds its value.
THEOREM SumAdds ==
  ASSUME NEW f, NEW S, IsFiniteSet(S), \A x \in S : f[x] \in Int, NEW y, y \notin S, f[y] \in Int
  PROVE  SumFunctionOnSet(f, S \cup {y}) = SumFunctionOnSet(f, S) + f[y]
<1>1. IsFiniteSet(S \cup {y}) /\ y \in S \cup {y} /\ \A x \in S \cup {y} : f[x] \in Int
  BY FS_AddElement
<1>2. (S \cup {y}) \ {y} = S
  OBVIOUS
<1>3. SumFunctionOnSet(f, S \cup {y}) = f[y] + SumFunctionOnSet(f, S)
  <2>1. SumFunctionOnSet(f, S \cup {y}) = f[y] + SumFunctionOnSet(f, (S \cup {y}) \ {y})
    BY <1>1, SumTakesAny
  <2> QED BY <1>2, <2>1
<1>4. SumFunctionOnSet(f, S) \in Int
  BY SumType
<1> QED BY <1>3, <1>4

\* When one value changes the sum changes by as much.
THEOREM SumChanges ==
  ASSUME NEW f, NEW g, NEW S, IsFiniteSet(S), \A x \in S : f[x] \in Int, NEW y \in S, g[y] \in Int,
         \A x \in S \ {y} : g[x] = f[x]
  PROVE  SumFunctionOnSet(g, S) = SumFunctionOnSet(f, S) - f[y] + g[y]
<1>1. SumFunctionOnSet(f, S) = f[y] + SumFunctionOnSet(f, S \ {y})
  BY SumTakesAny
<1>2. \A x \in S : g[x] \in Int
  OBVIOUS
<1>3. SumFunctionOnSet(g, S) = g[y] + SumFunctionOnSet(g, S \ {y})
  BY <1>2, SumTakesAny
<1>4. IsFiniteSet(S \ {y})
  BY FS_RemoveElement
<1>5. SumFunctionOnSet(g, S \ {y}) = SumFunctionOnSet(f, S \ {y})
  BY <1>4, SumDependsOnValues
<1>6. SumFunctionOnSet(f, S \ {y}) \in Int
  BY <1>4, SumType
<1> QED BY <1>1, <1>3, <1>5, <1>6

\* The sum over two disjoint sets.
THEOREM SumOfUnion ==
  ASSUME NEW f, NEW S, NEW T, IsFiniteSet(S), IsFiniteSet(T), S \cap T = {}, \A x \in S \cup T : f[x] \in Int
  PROVE  SumFunctionOnSet(f, S \cup T) = SumFunctionOnSet(f, S) + SumFunctionOnSet(f, T)
<1> DEFINE A == {U \in SUBSET T : SumFunctionOnSet(f, S \cup U) = SumFunctionOnSet(f, S) + SumFunctionOnSet(f, U)}
<1>1. ASSUME NEW U \in SUBSET T, \A V \in SUBSET U : V # U => V \in A
      PROVE  SumFunctionOnSet(f, S \cup U) = SumFunctionOnSet(f, S) + SumFunctionOnSet(f, U)
  <2>1. IsFiniteSet(U) /\ SumFunctionOnSet(f, S) \in Int
    BY FS_Subset, SumType
  <2>2. CASE U = {}
    <3>1. SumFunctionOnSet(f, U) = 0 /\ S \cup U = S
      BY <2>1, <2>2, SumRecursion
    <3>2. SumFunctionOnSet(f, S \cup U) = SumFunctionOnSet(f, S)
      BY <3>1, Zenon
    <3> QED BY <2>1, <3>1, <3>2
  <2>3. CASE U # {}
    <3>1. PICK y \in U : TRUE
      BY <2>3
    <3> DEFINE V == U \ {y}
    <3>2. V \in A /\ y \notin S \cup V /\ y \notin V /\ f[y] \in Int
      BY <1>1, <3>1
    <3>3. U = V \cup {y} /\ S \cup U = (S \cup V) \cup {y}
      BY <3>1
    <3>4. IsFiniteSet(V) /\ IsFiniteSet(S \cup V) /\ V \subseteq T
      BY <2>1, FS_RemoveElement, FS_Union
    <3>5. SumFunctionOnSet(f, S \cup V) = SumFunctionOnSet(f, S) + SumFunctionOnSet(f, V)
      BY <3>2
    <3> HIDE DEF V, A
    <3>6. SumFunctionOnSet(f, (S \cup V) \cup {y}) = SumFunctionOnSet(f, S \cup V) + f[y]
      BY <3>2, <3>4, SumAdds
    <3>7. SumFunctionOnSet(f, V \cup {y}) = SumFunctionOnSet(f, V) + f[y]
      BY <3>2, <3>4, SumAdds
    <3>8. SumFunctionOnSet(f, V) \in Int
      BY <3>4, SumType
    <3>9. SumFunctionOnSet(f, S \cup U) = SumFunctionOnSet(f, S \cup V) + f[y]
      BY <3>3, <3>6, Zenon
    <3>10. SumFunctionOnSet(f, U) = SumFunctionOnSet(f, V) + f[y]
      BY <3>3, <3>7, Zenon
    <3> QED BY <2>1, <3>2, <3>5, <3>8, <3>9, <3>10
  <2> QED BY <2>2, <2>3
<1>2. A \in SUBSET SUBSET T /\ \A U \in SUBSET T : (\A V \in SUBSET U : V # U => V \in A) => U \in A
  BY <1>1
<1>3. A = SUBSET T
  <2> HIDE DEF A
  <2> QED BY <1>2, SubsetInduction
<1> QED BY <1>3

\* The sum of what is not negative is not less than the sum of a part of it.
THEOREM SumBounds ==
  ASSUME NEW f, NEW S, IsFiniteSet(S), \A x \in S : f[x] \in Nat
  PROVE  /\ SumFunctionOnSet(f, S) \in Nat
         /\ \A T \in SUBSET S : SumFunctionOnSet(f, T) \in Nat /\ SumFunctionOnSet(f, T) <= SumFunctionOnSet(f, S)
<1> DEFINE A == {T \in SUBSET S : SumFunctionOnSet(f, T) \in Nat}
<1>1. ASSUME NEW T \in SUBSET S, \A U \in SUBSET T : U # T => U \in A PROVE T \in A
  <2>1. IsFiniteSet(T)
    BY FS_Subset
  <2>2. T # {} => f[AnyOf(T)] \in Nat /\ SumFunctionOnSet(f, T \ {AnyOf(T)}) \in Nat
    BY <1>1, AnyIsIn
  <2>3. SumFunctionOnSet(f, T) \in Nat
    BY <2>1, <2>2, SumRecursion
  <2> QED BY <2>3
<1>2. A \in SUBSET SUBSET S /\ \A T \in SUBSET S : (\A U \in SUBSET T : U # T => U \in A) => T \in A
  BY <1>1
<1>3. A = SUBSET S
  <2> HIDE DEF A
  <2> QED BY <1>2, SubsetInduction
<1>4. ASSUME NEW T \in SUBSET S PROVE SumFunctionOnSet(f, T) <= SumFunctionOnSet(f, S)
  <2>1. S = T \cup (S \ T) /\ T \cap (S \ T) = {}
    OBVIOUS
  <2>2. IsFiniteSet(T) /\ IsFiniteSet(S \ T)
    BY FS_Subset
  <2>3. SumFunctionOnSet(f, T \cup (S \ T)) = SumFunctionOnSet(f, T) + SumFunctionOnSet(f, S \ T)
    BY <2>2, SumOfUnion
  <2>4. SumFunctionOnSet(f, T) \in Nat /\ SumFunctionOnSet(f, S \ T) \in Nat
    BY <1>3
  <2>5. SumFunctionOnSet(f, S) = SumFunctionOnSet(f, T) + SumFunctionOnSet(f, S \ T)
    BY <2>1, <2>3
  <2> QED BY <2>4, <2>5
<1> QED BY <1>3, <1>4

\* Nothing adds up to nothing.
THEOREM SumOfZeros ==
  ASSUME NEW f, NEW S, IsFiniteSet(S), \A x \in S : f[x] = 0
  PROVE  SumFunctionOnSet(f, S) = 0
<1> DEFINE A == {T \in SUBSET S : SumFunctionOnSet(f, T) = 0}
<1>1. ASSUME NEW T \in SUBSET S, \A U \in SUBSET T : U # T => U \in A PROVE T \in A
  <2>1. IsFiniteSet(T)
    BY FS_Subset
  <2>2. CASE T = {}
    BY <2>1, <2>2, SumRecursion
  <2>3. CASE T # {}
    <3>1. AnyOf(T) \in T /\ T \ {AnyOf(T)} \in SUBSET T /\ T \ {AnyOf(T)} # T
      BY <2>3, AnyIsIn
    <3>2. SumFunctionOnSet(f, T \ {AnyOf(T)}) = 0 /\ f[AnyOf(T)] = 0
      BY <1>1, <3>1
    <3> QED BY <2>1, <2>3, <3>2, SumRecursion
  <2> QED BY <2>2, <2>3
<1>2. A \in SUBSET SUBSET S
  OBVIOUS
<1>3. A = SUBSET S
  <2> HIDE DEF A
  <2> QED BY <1>1, <1>2, SubsetInduction
<1>4. S \in A
  BY <1>3
<1> QED BY <1>4

\* One index more, or one less, and otherwise the same values.
THEOREM SumGains ==
  ASSUME NEW f, NEW g, NEW S, IsFiniteSet(S), \A x \in S : f[x] \in Int /\ g[x] = f[x], NEW y, y \notin S, g[y] \in Int
  PROVE  SumFunctionOnSet(g, S \cup {y}) = SumFunctionOnSet(f, S) + g[y]
<1>1. SumFunctionOnSet(g, S) = SumFunctionOnSet(f, S)
  BY SumDependsOnValues
<1>2. \A x \in S : g[x] \in Int
  OBVIOUS
<1>3. SumFunctionOnSet(g, S \cup {y}) = SumFunctionOnSet(g, S) + g[y]
  BY <1>2, SumAdds
<1> QED BY <1>1, <1>3

THEOREM SumLoses ==
  ASSUME NEW f, NEW g, NEW S, IsFiniteSet(S), \A x \in S : f[x] \in Int, NEW y \in S, \A x \in S \ {y} : g[x] = f[x]
  PROVE  SumFunctionOnSet(g, S \ {y}) = SumFunctionOnSet(f, S) - f[y]
<1>1. IsFiniteSet(S \ {y})
  BY FS_Subset
<1>2. SumFunctionOnSet(g, S \ {y}) = SumFunctionOnSet(f, S \ {y})
  BY <1>1, SumDependsOnValues
<1>3. SumFunctionOnSet(f, S) = f[y] + SumFunctionOnSet(f, S \ {y})
  BY SumTakesAny
<1>4. SumFunctionOnSet(f, S \ {y}) \in Int
  BY <1>1, SumType
<1> QED BY <1>2, <1>3, <1>4

\* Without an element: its value less.
THEOREM SumDrops ==
  ASSUME NEW f, NEW S, IsFiniteSet(S), \A x \in S : f[x] \in Int, NEW y \in S
  PROVE  SumFunctionOnSet(f, S \ {y}) = SumFunctionOnSet(f, S) - f[y]
<1>1. IsFiniteSet(S \ {y})
  BY FS_Subset
<1>2. SumFunctionOnSet(f, S \ {y}) \in Int /\ f[y] \in Int
  BY <1>1, SumType
<1>3. SumFunctionOnSet(f, S) = f[y] + SumFunctionOnSet(f, S \ {y})
  BY SumTakesAny
<1>. QED
  BY <1>2, <1>3

\* A sum of natural numbers is at least each of them.
THEOREM SumCovers ==
  ASSUME NEW f, NEW S, IsFiniteSet(S), \A x \in S : f[x] \in Nat, NEW y \in S
  PROVE  f[y] <= SumFunctionOnSet(f, S)
<1>1. \A x \in S : f[x] \in Int
  OBVIOUS
<1>2. SumFunctionOnSet(f, S) = f[y] + SumFunctionOnSet(f, S \ {y})
  BY <1>1, SumTakesAny
<1>3. SumFunctionOnSet(f, S \ {y}) \in Nat
  BY SumBounds
<1> QED BY <1>2, <1>3

(***************************************************************************)
(* The ledger: what a journal adds to a balance.                              *)
(***************************************************************************)
\* A book has finitely many journals, of numbers.
IsBook(book) ==
  /\ IsFiniteSet(DOMAIN book)
  /\ \A reference \in DOMAIN book : \A account \in DOMAIN book[reference] : book[reference][account] \in Int

Amount(postings, account) == IF account \in DOMAIN postings THEN postings[account] ELSE 0
Entries(book, account) == [reference \in DOMAIN book |-> Amount(book[reference], account)]

LEMMA BalanceIsSum ==
  ASSUME NEW book, NEW account
  PROVE  accountBalance(book, account) = SumFunctionOnSet(Entries(book, account), DOMAIN book)
BY DEF accountBalance, SumFunction, Entries, Amount

LEMMA BalanceType ==
  ASSUME NEW book, IsBook(book), NEW account
  PROVE  accountBalance(book, account) \in Int
<1>1. \A reference \in DOMAIN book : Entries(book, account)[reference] \in Int
  BY DEF IsBook, Entries, Amount
<1> QED BY <1>1, BalanceIsSum, SumType DEF IsBook

\* A journal under a new reference changes each balance by its posting.
Posts(new, book, reference, postings) ==
  /\ IsBook(new) /\ DOMAIN new = DOMAIN book \cup {reference}
  /\ \A account : accountBalance(new, account) = accountBalance(book, account) + Amount(postings, account)
LEMMA PostedBalance ==
  ASSUME NEW book, IsBook(book), NEW reference, reference \notin DOMAIN book,
         NEW postings, \A account \in DOMAIN postings : postings[account] \in Int
  PROVE  Posts(postJournal(book, reference, postings), book, reference, postings)
<1> DEFINE new == postJournal(book, reference, postings)
<1>1. new = [known \in DOMAIN book \cup {reference} |-> IF known = reference THEN postings ELSE book[known]]
  BY DEF postJournal
<1>2. DOMAIN new = DOMAIN book \cup {reference} /\ new[reference] = postings /\ \A known \in DOMAIN book : new[known] = book[known]
  BY <1>1
<1> HIDE DEF new
<1>3. IsBook(new)
  <2>1. IsFiniteSet(DOMAIN book \cup {reference})
    BY FS_AddElement DEF IsBook
  <2>2. IsFiniteSet(DOMAIN new)
    BY <1>2, <2>1
  <2> QED BY <1>2, <2>2 DEF IsBook
<1>4. ASSUME NEW account PROVE accountBalance(new, account) = accountBalance(book, account) + Amount(postings, account)
  <2> DEFINE old == Entries(book, account)
             f == Entries(new, account)
  <2>1. \A known \in DOMAIN book : f[known] = old[known] /\ old[known] \in Int
    BY <1>2 DEF Entries, IsBook, Amount
  <2>2. f[reference] = Amount(postings, account) /\ f[reference] \in Int
    BY <1>2 DEF Entries, Amount
  <2>3. IsFiniteSet(DOMAIN book)
    BY DEF IsBook
  <2> HIDE DEF f, old
  <2>4. SumFunctionOnSet(f, DOMAIN book \cup {reference}) = SumFunctionOnSet(f, DOMAIN book) + f[reference]
    BY <2>1, <2>2, <2>3, SumAdds
  <2>5. SumFunctionOnSet(f, DOMAIN book) = SumFunctionOnSet(old, DOMAIN book)
    BY <2>1, <2>3, SumDependsOnValues
  <2>6. accountBalance(new, account) = SumFunctionOnSet(f, DOMAIN new) /\ accountBalance(book, account) = SumFunctionOnSet(old, DOMAIN book)
    BY BalanceIsSum DEF f, old
  <2>7. SumFunctionOnSet(f, DOMAIN new) = SumFunctionOnSet(f, DOMAIN book \cup {reference})
    BY <1>2
  <2> QED BY <2>2, <2>4, <2>5, <2>6, <2>7
<1>5. Posts(new, book, reference, postings)
  BY <1>2, <1>3, <1>4 DEF Posts
<1> QED BY <1>5 DEF new

\* What moves into one account, or into two.
IsMoveIntoOne(postings, from, to, amount) ==
  DOMAIN postings = {from, to} /\ postings[from] = amount /\ postings[to] = 0 - amount
Halves(one, two, x, y) == [to \in {one, two} |-> IF to = two THEN y ELSE x]
IsMoveIntoTwo(postings, from, one, two, x, y) ==
  DOMAIN postings = {from, one, two} /\ postings[from] = x + y /\ postings[one] = 0 - x /\ postings[two] = 0 - y

LEMMA MovedIntoOne ==
  ASSUME NEW from, NEW to, from # to, NEW amount \in Int
  PROVE  IsMoveIntoOne(Move(from, Into(to, amount)), from, to, amount)
<1> DEFINE into == Into(to, amount)
<1>1. DOMAIN into = {to} /\ into[to] = amount
  BY DEF Into
<1>2. SumFunctionOnSet(into, {to}) = amount
  <2>1. IsFiniteSet({to}) /\ IsFiniteSet({to} \ {to}) /\ {to} \ {to} = {}
    BY FS_Singleton, FS_EmptySet
  <2>2. SumFunctionOnSet(into, {to}) = into[to] + SumFunctionOnSet(into, {to} \ {to})
    BY <1>1, <2>1, SumTakesAny
  <2>3. SumFunctionOnSet(into, {to} \ {to}) = 0
    BY <2>1, SumRecursion
  <2> QED BY <1>1, <2>2, <2>3
<1>3. SumFunction(into) = amount
  BY <1>1, <1>2 DEF SumFunction
<1> HIDE DEF into
<1>4. Move(from, into) = [account \in {from, to} |-> IF account = from THEN amount ELSE 0 - into[account]]
  <2>1. {from} \cup DOMAIN into = {from, to}
    BY <1>1
  <2> QED BY <1>3, <2>1 DEF Move
<1>5. IsMoveIntoOne(Move(from, into), from, to, amount)
  BY <1>1, <1>4 DEF IsMoveIntoOne
<1> QED BY <1>5 DEF into

LEMMA MovedIntoTwo ==
  ASSUME NEW from, NEW one, NEW two, from # one, from # two, one # two, NEW x \in Int, NEW y \in Int
  PROVE  IsMoveIntoTwo(Move(from, Halves(one, two, x, y)), from, one, two, x, y)
<1> DEFINE into == Halves(one, two, x, y)
<1>1. DOMAIN into = {one, two} /\ into[one] = x /\ into[two] = y
  BY DEF Halves
<1>2. SumFunctionOnSet(into, {one, two}) = x + y
  <2> HIDE DEF into
  <2>1. /\ IsFiniteSet({one, two}) /\ IsFiniteSet({two}) /\ IsFiniteSet({})
        /\ {one, two} \ {one} = {two} /\ {two} \ {two} = {}
    <3>1. IsFiniteSet({two}) /\ IsFiniteSet({})
      BY FS_Singleton, FS_EmptySet
    <3>2. IsFiniteSet({two} \cup {one}) /\ {two} \cup {one} = {one, two}
      BY <3>1, FS_AddElement
    <3> QED BY <3>1, <3>2
  <2>2. SumFunctionOnSet(into, {one, two}) = x + SumFunctionOnSet(into, {one, two} \ {one})
    BY <1>1, <2>1, SumTakesAny
  <2>3. SumFunctionOnSet(into, {two}) = y + SumFunctionOnSet(into, {two} \ {two})
    BY <1>1, <2>1, SumTakesAny
  <2>4. SumFunctionOnSet(into, {two} \ {two}) = 0
    BY <2>1, SumRecursion
  <2>5. SumFunctionOnSet(into, {one, two} \ {one}) = SumFunctionOnSet(into, {two})
    BY <2>1
  <2> QED BY <2>2, <2>3, <2>4, <2>5
<1>3. SumFunction(into) = x + y
  BY <1>1, <1>2 DEF SumFunction
<1> HIDE DEF into
<1>4. Move(from, into) = [account \in {from, one, two} |-> IF account = from THEN x + y ELSE 0 - into[account]]
  <2>1. {from} \cup DOMAIN into = {from, one, two}
    BY <1>1
  <2> QED BY <1>3, <2>1 DEF Move
<1>5. IsMoveIntoTwo(Move(from, into), from, one, two, x, y)
  BY <1>1, <1>4 DEF IsMoveIntoTwo
<1> QED BY <1>5 DEF into

\* What such journals do to every balance.
Shifts(new, book, reference, from, to, amount) ==
  /\ IsBook(new) /\ DOMAIN new = DOMAIN book \cup {reference}
  /\ \A account : accountBalance(new, account)
                  = accountBalance(book, account) + (IF account = from THEN amount ELSE IF account = to THEN 0 - amount ELSE 0)
LEMMA PostedIntoOne ==
  ASSUME NEW book, IsBook(book), NEW reference, reference \notin DOMAIN book,
         NEW from, NEW to, from # to, NEW amount \in Int
  PROVE  Shifts(postJournal(book, reference, Move(from, Into(to, amount))), book, reference, from, to, amount)
<1> DEFINE postings == Move(from, Into(to, amount))
           new == postJournal(book, reference, postings)
<1>1. IsMoveIntoOne(postings, from, to, amount)
  BY MovedIntoOne, Zenon
<1> HIDE DEF postings
<1>2. /\ \A account \in DOMAIN postings : postings[account] \in Int
      /\ \A account : Amount(postings, account) = IF account = from THEN amount ELSE IF account = to THEN 0 - amount ELSE 0
  BY <1>1 DEF Amount, IsMoveIntoOne, IsMoveIntoTwo
<1>posted. Posts(new, book, reference, postings)
  BY <1>2, PostedBalance, Zenon
<1>3. /\ IsBook(new) /\ DOMAIN new = DOMAIN book \cup {reference}
      /\ \A account : accountBalance(new, account) = accountBalance(book, account) + Amount(postings, account)
  BY <1>posted DEF Posts
<1> HIDE DEF new
<1>4. \A account : accountBalance(new, account)
                   = accountBalance(book, account) + (IF account = from THEN amount ELSE IF account = to THEN 0 - amount ELSE 0)
  BY <1>2, <1>3
<1>5. Shifts(new, book, reference, from, to, amount)
  BY <1>3, <1>4 DEF Shifts
<1> QED BY <1>5 DEF new, postings

Divides(postings, from, one, two, x, y) ==
  /\ \A account \in DOMAIN postings : postings[account] \in Int
  /\ \A account : Amount(postings, account)
                  = IF account = from THEN x + y ELSE IF account = one THEN 0 - x ELSE IF account = two THEN 0 - y ELSE 0
LEMMA PostedIntoTwo ==
  ASSUME NEW from, NEW one, NEW two, from # one, from # two, one # two, NEW x \in Int, NEW y \in Int
  PROVE  Divides(Move(from, Halves(one, two, x, y)), from, one, two, x, y)
<1> DEFINE postings == Move(from, Halves(one, two, x, y))
<1>1. IsMoveIntoTwo(postings, from, one, two, x, y)
  BY MovedIntoTwo, Zenon
<1> HIDE DEF postings
<1>2. \A account \in DOMAIN postings : postings[account] \in Int
  BY <1>1 DEF IsMoveIntoTwo
<1>3. \A account : Amount(postings, account)
                   = IF account = from THEN x + y ELSE IF account = one THEN 0 - x ELSE IF account = two THEN 0 - y ELSE 0
  BY <1>1 DEF Amount, IsMoveIntoOne, IsMoveIntoTwo
<1>4. Divides(postings, from, one, two, x, y)
  BY <1>2, <1>3 DEF Divides
<1> QED BY <1>4 DEF postings
=============================================================================

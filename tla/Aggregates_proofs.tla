-------------------------- MODULE Aggregates_proofs --------------------------
(***************************************************************************)
(* What a sum over a finite set is, and what a filtered list is, for every *)
(* set and list.  Both are recursive functions, so first they have to be   *)
(* shown to exist; the inductions are over sets of numbers, which is the   *)
(* form the provers can instantiate.                                       *)
(***************************************************************************)
EXTENDS Aggregates, FiniteSetTheorems, SequenceTheorems, WellFoundedInduction, TLAPS

(* A set of naturals that is not empty has a least member.                  *)
LEMMA LeastNatural ==
  ASSUME NEW S \in SUBSET Nat, S # {}
  PROVE  \E n \in S : \A m \in S : n <= m
<1> DEFINE R == OpToRel(<, Nat)
<1>1. IsWellFoundedOn(R, Nat)
  BY NatLessThanWellFounded
<1>2. \A m, n \in Nat : m < n => << m, n >> \in R
  BY DEF OpToRel
<1> HIDE DEF R
<1>3. PICK n \in S : \A m \in S : ~ (<< m, n >> \in R)
  BY <1>1, WFMin
<1>4. \A m \in S : m \in Nat /\ n \in Nat /\ ~(m < n)
  BY <1>2, <1>3
<1>5. \A m \in S : n <= m
  BY <1>4
<1> QED
  BY <1>5

(* Induction over the naturals, for a set instead of a predicate.           *)
LEMMA NatSetInduction ==
  ASSUME NEW S, 0 \in S, \A n \in Nat : n \in S => n + 1 \in S
  PROVE  Nat \subseteq S
<1> SUFFICES ASSUME ~(Nat \subseteq S) PROVE FALSE
  OBVIOUS
<1> DEFINE T == Nat \ S
<1>1. T \in SUBSET Nat /\ T # {}
  OBVIOUS
<1>2. PICK n \in T : \A m \in T : n <= m
  BY <1>1, LeastNatural
<1>3. n \in Nat /\ n # 0 /\ n \notin S
  BY <1>2
<1>4. n - 1 \in Nat /\ (n - 1) + 1 = n /\ ~(n <= n - 1)
  BY <1>3
<1>5. n - 1 \notin T
  BY <1>2, <1>4
<1> QED
  BY <1>3, <1>4, <1>5

(* The subsets of a finite set are reached by their size.                   *)
LEMMA SubsetsBySize ==
  ASSUME NEW S, IsFiniteSet(S), NEW F,
         \A T \in SUBSET S : (\A U \in SUBSET T : U # T => U \in F) => T \in F
  PROVE  \A T \in SUBSET S : T \in F
<1> DEFINE N == {n \in Nat : \A T \in SUBSET S : Cardinality(T) <= n => T \in F}
<1>1. \A T \in SUBSET S : IsFiniteSet(T) /\ Cardinality(T) \in Nat
  BY FS_Subset, FS_CardinalityType
<1>2. \A T \in SUBSET S : \A U \in SUBSET T : U # T => Cardinality(U) < Cardinality(T)
  <2> SUFFICES ASSUME NEW T \in SUBSET S, NEW U \in SUBSET T, U # T
               PROVE  Cardinality(U) < Cardinality(T)
    OBVIOUS
  <2>1. Cardinality(U) <= Cardinality(T) /\ (Cardinality(U) = Cardinality(T) => U = T)
    BY <1>1, FS_Subset
  <2>2. Cardinality(U) \in Nat /\ Cardinality(T) \in Nat
    BY <1>1
  <2> QED
    BY <2>1, <2>2
<1>3. 0 \in N
  <2> SUFFICES ASSUME NEW T \in SUBSET S, Cardinality(T) <= 0 PROVE T \in F
    OBVIOUS
  <2>1. \A U \in SUBSET T : U # T => FALSE
    <3> SUFFICES ASSUME NEW U \in SUBSET T, U # T PROVE FALSE
      OBVIOUS
    <3>1. Cardinality(U) < Cardinality(T) /\ Cardinality(U) \in Nat /\ Cardinality(T) \in Nat
      BY <1>1, <1>2
    <3> QED
      BY <3>1
  <2> QED
    BY <2>1
<1>4. ASSUME NEW n \in Nat, n \in N PROVE n + 1 \in N
  <2> SUFFICES ASSUME NEW T \in SUBSET S, Cardinality(T) <= n + 1 PROVE T \in F
    OBVIOUS
  <2>1. \A U \in SUBSET T : U # T => U \in F
    <3> SUFFICES ASSUME NEW U \in SUBSET T, U # T PROVE U \in F
      OBVIOUS
    <3>1. U \in SUBSET S
      OBVIOUS
    <3>2. Cardinality(U) < Cardinality(T)
      BY <1>2
    <3>3. Cardinality(U) \in Nat /\ Cardinality(T) \in Nat
      BY <3>1, <1>1
    <3>4. Cardinality(U) <= n
      BY <3>2, <3>3
    <3> QED
      BY <1>4, <3>1, <3>4
  <2> QED
    BY <2>1
<1> HIDE DEF N
<1>5. Nat \subseteq N
  BY <1>3, <1>4, NatSetInduction
<1> SUFFICES ASSUME NEW T \in SUBSET S PROVE T \in F
  OBVIOUS
<1>6. Cardinality(T) \in N /\ Cardinality(T) <= Cardinality(T)
  BY <1>1, <1>5
<1> QED
  BY <1>6 DEF N

-----------------------------------------------------------------------------
(* Sums *)

AnyOf(T) == CHOOSE x \in T : TRUE

\* What the fold behind Total gives for T, when g is what it gives for less.
Added(g, f, T) == IF T = {} THEN 0 ELSE f[AnyOf(T)] + g[T \ {AnyOf(T)}]

Adds(g, f, D) == g = [T \in D |-> Added(g, f, T)]

\* The sum of f over some of its arguments.
Sums(f, S) == CHOOSE g : Adds(g, f, SUBSET S)

SumOn(f, S) == Sums(f, S)[S]

LEMMA TotalIsSum ==
  ASSUME NEW f PROVE Total(f) = SumOn(f, DOMAIN f)
BY DEF Total, MapThenSumSet, MapThenFoldSet, SumOn, Sums, Adds, Added, AnyOf

LEMMA AnyIsMember ==
  ASSUME NEW T, T # {} PROVE AnyOf(T) \in T
BY DEF AnyOf

(* The recursion has a solution on the subsets of a finite set.             *)
LEMMA SumExists ==
  ASSUME NEW f, NEW S, IsFiniteSet(S)
  PROVE  \E g : Adds(g, f, SUBSET S)
<1> DEFINE Small(n) == {T \in SUBSET S : Cardinality(T) <= n}
           N == {n \in Nat : \E g : Adds(g, f, Small(n))}
<1>1. \A T \in SUBSET S : IsFiniteSet(T) /\ Cardinality(T) \in Nat
  BY FS_Subset, FS_CardinalityType
<1>2. \A T \in SUBSET S : T # {} =>
        /\ T \ {AnyOf(T)} \in SUBSET S
        /\ Cardinality(T \ {AnyOf(T)}) = Cardinality(T) - 1
  BY <1>1, AnyIsMember, FS_RemoveElement
<1>3. 0 \in N
  <2> DEFINE g == [T \in Small(0) |-> 0]
  <2>1. \A T \in Small(0) : T = {}
    <3> SUFFICES ASSUME NEW T \in SUBSET S, Cardinality(T) <= 0 PROVE T = {}
      OBVIOUS
    <3>1. IsFiniteSet(T) /\ Cardinality(T) = 0
      BY <1>1
    <3> QED
      BY <3>1, FS_EmptySet
  <2>2. \A T \in Small(0) : Added(g, f, T) = 0
    BY <2>1 DEF Added
  <2>3. Adds(g, f, Small(0))
    BY <2>2 DEF Adds
  <2> QED
    BY <2>3
<1>4. ASSUME NEW n \in Nat, n \in N PROVE n + 1 \in N
  <2>1. PICK g : Adds(g, f, Small(n))
    BY <1>4
  <2> DEFINE h == [T \in Small(n + 1) |-> Added(g, f, T)]
  <2>2. \A T \in Small(n) : g[T] = Added(g, f, T)
    BY <2>1 DEF Adds
  <2>3. \A T \in Small(n) : T \in Small(n + 1)
    <3> SUFFICES ASSUME NEW T \in SUBSET S, Cardinality(T) <= n PROVE Cardinality(T) <= n + 1
      OBVIOUS
    <3> QED
      BY <1>1
  <2>4. \A T \in Small(n) : h[T] = g[T]
    <3>1. \A T \in Small(n + 1) : h[T] = Added(g, f, T)
      OBVIOUS
    <3> HIDE DEF h, Small
    <3> QED
      BY <2>2, <2>3, <3>1
  <2>5. \A T \in Small(n + 1) : T # {} => T \ {AnyOf(T)} \in Small(n)
    <3> SUFFICES ASSUME NEW T \in SUBSET S, Cardinality(T) <= n + 1, T # {}
                 PROVE  T \ {AnyOf(T)} \in SUBSET S /\ Cardinality(T \ {AnyOf(T)}) <= n
      OBVIOUS
    <3> QED
      BY <1>1, <1>2
  <2>6. \A T \in Small(n + 1) : Added(h, f, T) = Added(g, f, T)
    <3> HIDE DEF h, Small
    <3> QED
      BY <2>4, <2>5 DEF Added
  <2>7. Adds(h, f, Small(n + 1))
    BY <2>6 DEF Adds
  <2> HIDE DEF h, Small
  <2>8. \E k : Adds(k, f, Small(n + 1))
    BY <2>7
  <2>9. n + 1 \in Nat
    OBVIOUS
  <2> QED
    BY <2>8, <2>9
<1>5. Nat \subseteq N
  <2> HIDE DEF N
  <2> QED
    BY <1>3, <1>4, NatSetInduction
<1>6. \A T \in SUBSET S : Cardinality(T) <= Cardinality(S)
  BY FS_Subset
<1>7. Small(Cardinality(S)) = SUBSET S
  BY <1>6
<1>8. Cardinality(S) \in N
  BY <1>1, <1>5
<1> QED
  BY <1>7, <1>8

(* And one only: two solutions agree on a set that both are defined for.     *)
LEMMA SumIsUnique ==
  ASSUME NEW f, NEW S, NEW T, NEW g, NEW h,
         IsFiniteSet(S), T \subseteq S, Adds(g, f, SUBSET S), Adds(h, f, SUBSET T)
  PROVE  g[T] = h[T]
<1> DEFINE F == {U \in SUBSET T : g[U] = h[U]}
<1>1. IsFiniteSet(T)
  BY FS_Subset
<1>2. ASSUME NEW U \in SUBSET T, \A V \in SUBSET U : V # U => V \in F
      PROVE  U \in F
  <2>1. U \in SUBSET S
    OBVIOUS
  <2>2. g[U] = Added(g, f, U) /\ h[U] = Added(h, f, U)
    BY <2>1 DEF Adds
  <2>3. CASE U = {}
    BY <2>2, <2>3 DEF Added
  <2>4. CASE U # {}
    <3>1. U \ {AnyOf(U)} \in SUBSET U /\ U \ {AnyOf(U)} # U
      BY <2>4, AnyIsMember
    <3>2. g[U \ {AnyOf(U)}] = h[U \ {AnyOf(U)}]
      BY <3>1, <1>2
    <3> QED
      BY <2>2, <2>4, <3>2 DEF Added
  <2> QED
    BY <2>3, <2>4
<1> HIDE DEF F
<1>3. \A U \in SUBSET T : U \in F
  BY <1>1, <1>2, SubsetsBySize
<1> QED
  BY <1>3 DEF F

(* So the recursion may be read off.                                        *)
LEMMA SumUnfolds ==
  ASSUME NEW f, NEW S, IsFiniteSet(S)
  PROVE  SumOn(f, S) = IF S = {} THEN 0 ELSE f[AnyOf(S)] + SumOn(f, S \ {AnyOf(S)})
<1> DEFINE T == S \ {AnyOf(S)}
<1>1. \A U : IsFiniteSet(U) => Adds(Sums(f, U), f, SUBSET U)
  BY SumExists DEF Sums
<1>2. T \subseteq S
  OBVIOUS
<1>3. Sums(f, S)[T] = Sums(f, T)[T]
  <2> HIDE DEF T
  <2>1. IsFiniteSet(T)
    BY <1>2, FS_Subset
  <2>2. Adds(Sums(f, S), f, SUBSET S)
    BY <1>1
  <2>3. Adds(Sums(f, T), f, SUBSET T)
    BY <1>1, <2>1
  <2> QED
    BY <1>2, <2>2, <2>3, SumIsUnique
<1>4. Sums(f, S)[S] = Added(Sums(f, S), f, S)
  BY <1>1 DEF Adds
<1> QED
  BY <1>3, <1>4 DEF Added, SumOn

LEMMA SumOfNothing ==
  ASSUME NEW f PROVE SumOn(f, {}) = 0
BY SumUnfolds, FS_EmptySet

(* A sum is of the kind of its parts.                                       *)
LEMMA SumStaysIn ==
  ASSUME NEW f, NEW S, NEW V, IsFiniteSet(S), 0 \in V, \A a, b \in V : a + b \in V,
         \A x \in S : f[x] \in V
  PROVE  SumOn(f, S) \in V
<1> DEFINE F == {T \in SUBSET S : SumOn(f, T) \in V}
<1>1. ASSUME NEW T \in SUBSET S, \A U \in SUBSET T : U # T => U \in F
      PROVE  T \in F
  <2>1. IsFiniteSet(T)
    BY FS_Subset
  <2>2. CASE T = {}
    BY <2>2, SumOfNothing
  <2>3. CASE T # {}
    <3>1. AnyOf(T) \in T
      BY <2>3, AnyIsMember
    <3>2. T \ {AnyOf(T)} \in F
      BY <3>1, <1>1
    <3>3. SumOn(f, T) = f[AnyOf(T)] + SumOn(f, T \ {AnyOf(T)})
      BY <2>1, <2>3, SumUnfolds
    <3> QED
      BY <3>1, <3>2, <3>3
  <2> QED
    BY <2>2, <2>3
<1> HIDE DEF F
<1>2. \A T \in SUBSET S : T \in F
  BY <1>1, SubsetsBySize
<1> QED
  BY <1>2 DEF F

LEMMA SumIsInt ==
  ASSUME NEW f, NEW S, IsFiniteSet(S), \A x \in S : f[x] \in Int
  PROVE  SumOn(f, S) \in Int
<1>1. 0 \in Int /\ \A a, b \in Int : a + b \in Int
  OBVIOUS
<1> QED
  BY <1>1, SumStaysIn

LEMMA SumIsNat ==
  ASSUME NEW f, NEW S, IsFiniteSet(S), \A x \in S : f[x] \in Nat
  PROVE  SumOn(f, S) \in Nat
<1>1. 0 \in Nat /\ \A a, b \in Nat : a + b \in Nat
  OBVIOUS
<1> QED
  BY <1>1, SumStaysIn

LEMMA SumOfZeros ==
  ASSUME NEW f, NEW S, IsFiniteSet(S), \A x \in S : f[x] = 0
  PROVE  SumOn(f, S) = 0
<1> DEFINE Z == {0}
<1>1. (\A x \in S : f[x] \in Z) /\ 0 \in Z
  OBVIOUS
<1>2. \A a, b \in Z : a + b \in Z
  OBVIOUS
<1> HIDE DEF Z
<1>3. SumOn(f, S) \in Z
  BY <1>1, <1>2, SumStaysIn
<1> QED
  BY <1>3 DEF Z

(* The order does not matter: any member may be taken out.                  *)
LEMMA SumTakesOut ==
  ASSUME NEW f, NEW S, NEW x \in S, IsFiniteSet(S), \A y \in S : f[y] \in Int
  PROVE  SumOn(f, S) = f[x] + SumOn(f, S \ {x})
<1> DEFINE F == {T \in SUBSET S : \A y \in T : SumOn(f, T) = f[y] + SumOn(f, T \ {y})}
<1>1. ASSUME NEW T \in SUBSET S, \A U \in SUBSET T : U # T => U \in F
      PROVE  T \in F
  <2> SUFFICES ASSUME NEW y \in T PROVE SumOn(f, T) = f[y] + SumOn(f, T \ {y})
    OBVIOUS
  <2> DEFINE p == AnyOf(T)
             R == (T \ {p}) \ {y}
  <2>1. IsFiniteSet(T) /\ T # {}
    BY FS_Subset
  <2>2. p \in T
    BY <2>1, AnyIsMember
  <2>3. SumOn(f, T) = f[p] + SumOn(f, T \ {p})
    BY <2>1, SumUnfolds
  <2> HIDE DEF p
  <2>4. CASE p = y
    BY <2>3, <2>4
  <2>5. CASE p # y
    <3>1. T \ {p} \in F /\ y \in T \ {p}
      BY <1>1, <2>2, <2>5
    <3>2. SumOn(f, T \ {p}) = f[y] + SumOn(f, R)
      BY <3>1
    <3>3. T \ {y} \in F /\ p \in T \ {y}
      BY <1>1, <2>2, <2>5
    <3>4. SumOn(f, T \ {y}) = f[p] + SumOn(f, (T \ {y}) \ {p})
      BY <3>3
    <3>5. (T \ {y}) \ {p} = R
      OBVIOUS
    <3>6. SumOn(f, R) \in Int
      <4>1. R \subseteq T /\ R \subseteq S
        OBVIOUS
      <4> HIDE DEF R
      <4>2. IsFiniteSet(R)
        BY <2>1, <4>1, FS_Subset
      <4>3. \A z \in R : f[z] \in Int
        BY <4>1
      <4> QED
        BY <4>2, <4>3, SumIsInt
    <3>7. f[p] \in Int /\ f[y] \in Int
      BY <2>2
    <3>8. SumOn(f, T \ {y}) = f[p] + SumOn(f, R)
      BY <3>4, <3>5
    <3> HIDE DEF R
    <3> QED
      BY <2>3, <3>2, <3>6, <3>7, <3>8
  <2> QED
    BY <2>4, <2>5
<1> HIDE DEF F
<1>2. S \in F
  BY <1>1, SubsetsBySize
<1> QED
  BY <1>2 DEF F

(* A sum depends on the values only, and grows with them.                   *)
LEMMA SumsCompare ==
  ASSUME NEW f, NEW g, NEW S, IsFiniteSet(S),
         \A x \in S : f[x] \in Int /\ g[x] \in Int /\ f[x] <= g[x]
  PROVE  SumOn(f, S) <= SumOn(g, S)
<1> DEFINE F == {T \in SUBSET S : SumOn(f, T) <= SumOn(g, T)}
<1>1. ASSUME NEW T \in SUBSET S, \A U \in SUBSET T : U # T => U \in F
      PROVE  T \in F
  <2>1. IsFiniteSet(T)
    BY FS_Subset
  <2>2. CASE T = {}
    BY <2>2, SumOfNothing
  <2>3. CASE T # {}
    <3> DEFINE p == AnyOf(T)
               R == T \ {p}
    <3>1. p \in T
      BY <2>3, AnyIsMember
    <3>2. R \in F /\ R \subseteq S
      BY <3>1, <1>1
    <3>3. SumOn(f, T) = f[p] + SumOn(f, R) /\ SumOn(g, T) = g[p] + SumOn(g, R)
      BY <2>1, <2>3, SumUnfolds
    <3>4. f[p] \in Int /\ g[p] \in Int /\ f[p] <= g[p]
      BY <3>1
    <3> HIDE DEF p
    <3>5. IsFiniteSet(R)
      BY <2>1, FS_Subset
    <3> HIDE DEF R
    <3>6. SumOn(f, R) \in Int /\ SumOn(g, R) \in Int
      BY <3>2, <3>5, SumIsInt
    <3>7. SumOn(f, R) <= SumOn(g, R)
      BY <3>2
    <3> QED
      BY <3>3, <3>4, <3>6, <3>7
  <2> QED
    BY <2>2, <2>3
<1> HIDE DEF F
<1>2. S \in F
  BY <1>1, SubsetsBySize
<1> QED
  BY <1>2 DEF F

LEMMA SumsAgree ==
  ASSUME NEW f, NEW g, NEW S, IsFiniteSet(S), \A x \in S : f[x] \in Int /\ g[x] = f[x]
  PROVE  SumOn(f, S) = SumOn(g, S)
<1>1. \A x \in S : g[x] \in Int /\ f[x] <= g[x] /\ g[x] <= f[x]
  OBVIOUS
<1>2. SumOn(f, S) <= SumOn(g, S) /\ SumOn(g, S) <= SumOn(f, S)
  BY <1>1, SumsCompare
<1>3. SumOn(f, S) \in Int /\ SumOn(g, S) \in Int
  BY <1>1, SumIsInt
<1> QED
  BY <1>2, <1>3

(* Two parts that have nothing in common.                                   *)
LEMMA SumOfParts ==
  ASSUME NEW f, NEW S, NEW T, IsFiniteSet(S), IsFiniteSet(T), S \cap T = {},
         \A x \in S \cup T : f[x] \in Int
  PROVE  SumOn(f, S \cup T) = SumOn(f, S) + SumOn(f, T)
<1> DEFINE F == {U \in SUBSET T : SumOn(f, S \cup U) = SumOn(f, S) + SumOn(f, U)}
<1>1. SumOn(f, S) \in Int
  BY SumIsInt
<1>2. ASSUME NEW U \in SUBSET T, \A V \in SUBSET U : V # U => V \in F
      PROVE  U \in F
  <2>1. IsFiniteSet(U) /\ IsFiniteSet(S \cup U)
    BY FS_Subset, FS_Union
  <2>2. CASE U = {}
    <3>1. S \cup U = S
      BY <2>2
    <3> QED
      BY <1>1, <2>2, <3>1, SumOfNothing
  <2>3. CASE U # {}
    <3> DEFINE p == AnyOf(U)
               R == U \ {p}
    <3>1. p \in U
      BY <2>3, AnyIsMember
    <3> HIDE DEF p
    <3>2. R \in F /\ R \subseteq T
      BY <3>1, <1>2
    <3>3. SumOn(f, U) = f[p] + SumOn(f, R)
      <4>1. \A y \in U : f[y] \in Int
        OBVIOUS
      <4> QED
        BY <2>1, <3>1, <4>1, SumTakesOut
    <3>4. SumOn(f, S \cup U) = f[p] + SumOn(f, (S \cup U) \ {p})
      <4> DEFINE W == S \cup U
      <4>1. p \in W /\ IsFiniteSet(W)
        BY <2>1, <3>1
      <4>2. \A y \in W : f[y] \in Int
        OBVIOUS
      <4> HIDE DEF W
      <4>3. SumOn(f, W) = f[p] + SumOn(f, W \ {p})
        BY <4>1, <4>2, SumTakesOut
      <4> QED
        BY <4>3 DEF W
    <3>5. (S \cup U) \ {p} = S \cup R
      BY <3>1
    <3>6. f[p] \in Int
      BY <3>1
    <3>7. IsFiniteSet(R)
      BY <2>1, FS_Subset
    <3> HIDE DEF R
    <3>8. SumOn(f, R) \in Int
      <4>1. \A y \in R : f[y] \in Int
        BY <3>2
      <4> QED
        BY <3>7, <4>1, SumIsInt
    <3>9. SumOn(f, S \cup R) = SumOn(f, S) + SumOn(f, R)
      BY <3>2
    <3>10. SumOn(f, S \cup U) = f[p] + SumOn(f, S \cup R)
      BY <3>4, <3>5
    <3>11. SumOn(f, S \cup U) = SumOn(f, S) + SumOn(f, U)
      BY <1>1, <3>3, <3>6, <3>8, <3>9, <3>10
    <3> QED
      BY <3>11
  <2> QED
    BY <2>2, <2>3
<1> HIDE DEF F
<1>3. T \in F
  BY <1>2, SubsetsBySize
<1> QED
  BY <1>3 DEF F

(* Sums are added argument by argument.                                     *)
LEMMA SumOfSums ==
  ASSUME NEW f, NEW g, NEW h, NEW S, IsFiniteSet(S),
         \A x \in S : f[x] \in Int /\ g[x] \in Int /\ h[x] = f[x] + g[x]
  PROVE  SumOn(h, S) = SumOn(f, S) + SumOn(g, S)
<1> DEFINE F == {T \in SUBSET S : SumOn(h, T) = SumOn(f, T) + SumOn(g, T)}
<1>1. ASSUME NEW T \in SUBSET S, \A U \in SUBSET T : U # T => U \in F
      PROVE  T \in F
  <2>1. CASE T = {}
    BY <2>1, SumOfNothing
  <2>2. CASE T # {}
    <3> DEFINE p == AnyOf(T)
               R == T \ {p}
    <3>1. p \in T
      BY <2>2, AnyIsMember
    <3> HIDE DEF p
    <3>2. R \in F
      BY <3>1, <1>1
    <3>0. IsFiniteSet(T)
      BY FS_Subset
    <3>3. /\ \A x \in T : f[x] \in Int
          /\ \A x \in T : g[x] \in Int
          /\ \A x \in T : h[x] \in Int
      OBVIOUS
    <3>4. SumOn(f, T) = f[p] + SumOn(f, R)
      <4>1. \A x \in T : f[x] \in Int
        BY <3>3
      <4> QED
        BY ONLY <3>0, <3>1, <4>1, SumTakesOut
    <3>5. SumOn(g, T) = g[p] + SumOn(g, R)
      <4>1. \A x \in T : g[x] \in Int
        BY <3>3
      <4> QED
        BY ONLY <3>0, <3>1, <4>1, SumTakesOut
    <3>6. SumOn(h, T) = h[p] + SumOn(h, R)
      <4>1. \A x \in T : h[x] \in Int
        BY <3>3
      <4> QED
        BY ONLY <3>0, <3>1, <4>1, SumTakesOut
    <3>7. IsFiniteSet(R) /\ \A x \in R : f[x] \in Int /\ g[x] \in Int
      BY <3>0, <3>3, FS_Subset
    <3>8. SumOn(f, R) \in Int
      BY <3>7, SumIsInt
    <3>9. SumOn(g, R) \in Int
      BY <3>7, SumIsInt
    <3>10. SumOn(h, R) = SumOn(f, R) + SumOn(g, R)
      BY <3>2
    <3>11. f[p] \in Int /\ g[p] \in Int /\ h[p] = f[p] + g[p]
      BY <3>1
    <3> HIDE DEF R
    <3>12. SumOn(h, T) = SumOn(f, T) + SumOn(g, T)
      BY <3>4, <3>5, <3>6, <3>8, <3>9, <3>10, <3>11
    <3> QED
      BY <3>12
  <2> QED
    BY <2>1, <2>2
<1> HIDE DEF F
<1>2. S \in F
  BY <1>1, SubsetsBySize
<1> QED
  BY <1>2 DEF F

(* Arguments on which the function is 0 may be left out.                    *)
LEMMA SumOfSupport ==
  ASSUME NEW f, NEW S, NEW T, IsFiniteSet(T), S \subseteq T,
         \A x \in T : f[x] \in Int, \A x \in T \ S : f[x] = 0
  PROVE  SumOn(f, T) = SumOn(f, S)
<1> DEFINE R == T \ S
<1>1. IsFiniteSet(S) /\ IsFiniteSet(R)
  BY FS_Subset
<1>2. S \cap R = {} /\ S \cup R = T /\ \A x \in R : f[x] = 0
  OBVIOUS
<1> HIDE DEF R
<1>3. SumOn(f, S \cup R) = SumOn(f, S) + SumOn(f, R)
  BY <1>1, <1>2, SumOfParts
<1>4. SumOn(f, R) = 0
  BY <1>1, <1>2, SumOfZeros
<1>5. SumOn(f, S) \in Int
  BY <1>1, SumIsInt
<1>6. SumOn(f, T) = SumOn(f, S) + SumOn(f, R)
  BY ONLY <1>2, <1>3, Zenon
<1> QED
  BY ONLY <1>4, <1>5, <1>6

(* Natural numbers that add up to 0 are 0.                                  *)
LEMMA SumIsZero ==
  ASSUME NEW f, NEW S, IsFiniteSet(S), \A x \in S : f[x] \in Nat, SumOn(f, S) <= 0
  PROVE  \A x \in S : f[x] = 0
<1> SUFFICES ASSUME NEW x \in S PROVE f[x] = 0
  OBVIOUS
<1> DEFINE R == S \ {x}
<1>1. SumOn(f, S) = f[x] + SumOn(f, R)
  BY SumTakesOut
<1>2. IsFiniteSet(R) /\ \A y \in R : f[y] \in Nat
  BY FS_Subset
<1> HIDE DEF R
<1>3. SumOn(f, R) \in Nat
  BY <1>2, SumIsNat
<1> QED
  BY <1>1, <1>3

(* More arguments give no less, where the values are natural numbers.       *)
LEMMA SumOfMore ==
  ASSUME NEW f, NEW S, NEW T, IsFiniteSet(T), S \subseteq T, \A x \in T : f[x] \in Nat
  PROVE  SumOn(f, S) <= SumOn(f, T)
<1> DEFINE R == T \ S
<1>1. IsFiniteSet(S) /\ IsFiniteSet(R)
  BY FS_Subset
<1>2. /\ S \cap R = {} /\ S \cup R = T
      /\ \A x \in S \cup R : f[x] \in Int
      /\ \A x \in S : f[x] \in Nat
      /\ \A x \in R : f[x] \in Nat
  OBVIOUS
<1> HIDE DEF R
<1>3. SumOn(f, S \cup R) = SumOn(f, S) + SumOn(f, R)
  BY ONLY <1>1, <1>2, SumOfParts
<1>4. SumOn(f, S) \in Nat
  BY ONLY <1>1, <1>2, SumIsNat
<1>5. SumOn(f, R) \in Nat
  BY ONLY <1>1, <1>2, SumIsNat
<1>6. SumOn(f, T) = SumOn(f, S) + SumOn(f, R)
  BY ONLY <1>2, <1>3, Zenon
<1> QED
  BY ONLY <1>4, <1>5, <1>6

\* The images of some arguments.
ImageOf(h, T) == {h[x] : x \in T}

(* There are no more of them than there are arguments.                      *)
LEMMA ImageIsFinite ==
  ASSUME NEW h, NEW S, IsFiniteSet(S)
  PROVE  IsFiniteSet(ImageOf(h, S))
<1> DEFINE F == {T \in SUBSET S : IsFiniteSet(ImageOf(h, T))}
<1>1. ASSUME NEW T \in SUBSET S, \A U \in SUBSET T : U # T => U \in F
      PROVE  T \in F
  <2>1. CASE T = {}
    <3>1. ImageOf(h, T) = {}
      BY <2>1 DEF ImageOf
    <3> QED
      BY <3>1, FS_EmptySet
  <2>2. CASE T # {}
    <3> DEFINE p == AnyOf(T)
               R == T \ {p}
    <3>1. p \in T
      BY <2>2, AnyIsMember
    <3> HIDE DEF p
    <3>2. IsFiniteSet(ImageOf(h, R))
      BY <3>1, <1>1
    <3>3. ImageOf(h, T) = ImageOf(h, R) \cup {h[p]}
      BY <3>1 DEF ImageOf
    <3>4. IsFiniteSet(ImageOf(h, R) \cup {h[p]})
      BY ONLY <3>2, FS_AddElement
    <3> QED
      BY <3>3, <3>4
  <2> QED
    BY <2>1, <2>2
<1> HIDE DEF F
<1>2. S \in F
  BY <1>1, SubsetsBySize
<1> QED
  BY <1>2 DEF F

(* A sum moved along a function that takes no value twice.                  *)
LEMMA SumAlong ==
  ASSUME NEW f, NEW g, NEW h, NEW S, IsFiniteSet(S),
         \A x \in S : f[x] \in Int /\ g[h[x]] = f[x],
         \A x, y \in S : h[x] = h[y] => x = y
  PROVE  IsFiniteSet(ImageOf(h, S)) /\ SumOn(g, ImageOf(h, S)) = SumOn(f, S)
<1> DEFINE F == {T \in SUBSET S : /\ IsFiniteSet(ImageOf(h, T))
                                  /\ SumOn(g, ImageOf(h, T)) = SumOn(f, T)}
<1>1. ASSUME NEW T \in SUBSET S, \A U \in SUBSET T : U # T => U \in F
      PROVE  T \in F
  <2>1. CASE T = {}
    <3>1. ImageOf(h, T) = {}
      BY <2>1 DEF ImageOf
    <3> QED
      BY <2>1, <3>1, SumOfNothing, FS_EmptySet
  <2>2. CASE T # {}
    <3> DEFINE p == AnyOf(T)
               R == T \ {p}
               I == ImageOf(h, T)
               J == ImageOf(h, R)
    <3>1. p \in T
      BY <2>2, AnyIsMember
    <3> HIDE DEF p
    <3>2. R \in F
      BY <3>1, <1>1
    <3>3. IsFiniteSet(J) /\ SumOn(g, J) = SumOn(f, R)
      BY <3>2
    <3>4. I = J \cup {h[p]} /\ I \ {h[p]} = J /\ h[p] \in I
      BY <3>1 DEF ImageOf
    <3>5. \A y \in I : g[y] \in Int
      BY DEF ImageOf
    <3>6. IsFiniteSet(T) /\ \A y \in T : f[y] \in Int
      BY FS_Subset
    <3>7. g[h[p]] = f[p]
      BY <3>1
    <3> HIDE DEF R, I, J, F
    <3>8. IsFiniteSet(I)
      BY <3>3, <3>4, FS_AddElement
    <3>9. SumOn(g, I) = g[h[p]] + SumOn(g, I \ {h[p]})
      <4> DEFINE q == h[p]
      <4>1. q \in I
        BY <3>4
      <4> HIDE DEF q
      <4>2. SumOn(g, I) = g[q] + SumOn(g, I \ {q})
        BY ONLY <4>1, <3>5, <3>8, SumTakesOut
      <4> QED
        BY <4>2 DEF q
    <3>10. SumOn(f, T) = f[p] + SumOn(f, T \ {p})
      BY ONLY <3>1, <3>6, SumTakesOut
    <3>11. SumOn(g, I) = SumOn(f, T)
      BY <3>3, <3>4, <3>7, <3>9, <3>10 DEF R
    <3> QED
      BY <3>8, <3>11 DEF I, F
  <2> QED
    BY <2>1, <2>2
<1> HIDE DEF F
<1>2. S \in F
  BY <1>1, SubsetsBySize
<1> QED
  BY <1>2 DEF F

\* The members of some of the sets.
UnionOf(R, T) == UNION {R[k] : k \in T}

(* A sum over a set taken apart into sets that have nothing in common.      *)
LEMMA SumOfFibres ==
  ASSUME NEW f, NEW g, NEW R, NEW K, IsFiniteSet(K),
         \A k \in K : IsFiniteSet(R[k]) /\ g[k] = SumOn(f, R[k]),
         \A k \in K : \A x \in R[k] : f[x] \in Int,
         \A k, l \in K : k # l => R[k] \cap R[l] = {}
  PROVE  IsFiniteSet(UnionOf(R, K)) /\ SumOn(f, UnionOf(R, K)) = SumOn(g, K)
<1> DEFINE F == {T \in SUBSET K : /\ IsFiniteSet(UnionOf(R, T))
                                  /\ SumOn(f, UnionOf(R, T)) = SumOn(g, T)}
<1>0. \A k \in K : g[k] \in Int
  <2> TAKE k \in K
  <2>1. IsFiniteSet(R[k]) /\ \A x \in R[k] : f[x] \in Int
    OBVIOUS
  <2>2. SumOn(f, R[k]) \in Int
    BY <2>1, SumIsInt
  <2> QED
    BY <2>2
<1>1. ASSUME NEW T \in SUBSET K, \A U \in SUBSET T : U # T => U \in F
      PROVE  T \in F
  <2>1. CASE T = {}
    <3>1. UnionOf(R, T) = {}
      BY <2>1 DEF UnionOf
    <3> QED
      BY <2>1, <3>1, SumOfNothing, FS_EmptySet
  <2>2. CASE T # {}
    <3> DEFINE p == AnyOf(T)
               L == T \ {p}
               V == UnionOf(R, L)
               W == R[p]
    <3>1. p \in T
      BY <2>2, AnyIsMember
    <3> HIDE DEF p
    <3>2. L \in F
      BY <3>1, <1>1
    <3>3. IsFiniteSet(V) /\ SumOn(f, V) = SumOn(g, L)
      BY <3>2
    <3>4. UnionOf(R, T) = V \cup W /\ V \cap W = {}
      BY <3>1 DEF UnionOf
    <3>5. \A x \in V \cup W : f[x] \in Int
      BY <3>1 DEF UnionOf
    <3>6. IsFiniteSet(W) /\ g[p] = SumOn(f, W)
      BY <3>1
    <3>7. IsFiniteSet(T) /\ \A y \in T : g[y] \in Int
      BY <1>0, FS_Subset
    <3>8. SumOn(g, T) = g[p] + SumOn(g, L)
      BY ONLY <3>1, <3>7, SumTakesOut
    <3> HIDE DEF V, W, F
    <3>9. IsFiniteSet(V \cup W)
      BY <3>3, <3>6, FS_Union
    <3>10. SumOn(f, V \cup W) = SumOn(f, V) + SumOn(f, W)
      BY ONLY <3>3, <3>4, <3>5, <3>6, SumOfParts
    <3>11. SumOn(f, V) \in Int /\ SumOn(f, W) \in Int
      <4>1. \A x \in V : f[x] \in Int
        BY <3>5
      <4>2. \A x \in W : f[x] \in Int
        BY <3>5
      <4> QED
        BY ONLY <3>3, <3>6, <4>1, <4>2, SumIsInt
    <3>12. SumOn(f, V \cup W) = SumOn(g, T)
      BY <3>3, <3>6, <3>8, <3>10, <3>11
    <3> QED
      BY <3>4, <3>9, <3>12 DEF F
  <2> QED
    BY <2>1, <2>2
<1> HIDE DEF F
<1>2. K \in F
  BY <1>1, SubsetsBySize
<1> QED
  BY <1>2 DEF F

(* The same facts of a function as a whole.                                 *)
LEMMA TotalOfNothing ==
  ASSUME NEW f, DOMAIN f = {} PROVE Total(f) = 0
BY TotalIsSum, SumOfNothing

LEMMA TotalIsInt ==
  ASSUME NEW f, IsFiniteSet(DOMAIN f), \A x \in DOMAIN f : f[x] \in Int
  PROVE  Total(f) \in Int
<1>1. SumOn(f, DOMAIN f) \in Int
  BY SumIsInt
<1> QED
  BY <1>1, TotalIsSum

LEMMA TotalOfZeros ==
  ASSUME NEW f, IsFiniteSet(DOMAIN f), \A x \in DOMAIN f : f[x] = 0
  PROVE  Total(f) = 0
<1>1. SumOn(f, DOMAIN f) = 0
  BY SumOfZeros
<1> QED
  BY <1>1, TotalIsSum

(* A sum of one function over a set, as a sum of another that has the set as
   its domain.                                                              *)
LEMMA TotalIsSumOn ==
  ASSUME NEW f, NEW g, NEW S, IsFiniteSet(S), DOMAIN f = S,
         \A x \in S : f[x] \in Int /\ g[x] = f[x]
  PROVE  Total(f) = SumOn(g, S)
<1>1. SumOn(f, S) = SumOn(g, S)
  BY SumsAgree
<1> QED
  BY <1>1, TotalIsSum

(* A list of numbers with one more at its end, and one with its head off.   *)
LEMMA TotalOfOneMore ==
  ASSUME NEW n \in Nat, NEW f, f \in [1..(n + 1) -> Int], NEW g, g \in [1..n -> Int],
         \A k \in 1..n : g[k] = f[k]
  PROVE  Total(f) = Total(g) + f[n + 1]
<1> DEFINE m == n + 1
           S == 1..m
           T == 1..n
<1>1. m \in S /\ S \ {m} = T
  OBVIOUS
<1>2. IsFiniteSet(S) /\ IsFiniteSet(T) /\ \A k \in S : f[k] \in Int
  BY FS_Interval
<1>3. DOMAIN f = S /\ DOMAIN g = T
  OBVIOUS
<1>4. \A k \in T : g[k] \in Int /\ f[k] = g[k]
  BY g \in [1..n -> Int], \A k \in 1..n : g[k] = f[k]
<1> HIDE DEF S, T, m
<1>5. SumOn(f, S) = f[m] + SumOn(f, S \ {m})
  <2>1. m \in S
    BY <1>1
  <2>2. IsFiniteSet(S)
    BY <1>2
  <2>3. \A k \in S : f[k] \in Int
    BY <1>2
  <2> QED
    BY ONLY <2>1, <2>2, <2>3, SumTakesOut
<1>6. SumOn(g, T) = SumOn(f, T)
  BY ONLY <1>2, <1>4, SumsAgree
<1>7. SumOn(g, T) \in Int
  BY ONLY <1>2, <1>4, SumIsInt
<1>8. Total(f) = SumOn(f, S) /\ Total(g) = SumOn(g, T)
  BY <1>3, TotalIsSum
<1>9. f[m] \in Int
  BY <1>1, <1>2
<1>10. SumOn(f, S) = f[m] + SumOn(f, T)
  BY ONLY <1>1, <1>5
<1>11. Total(f) = Total(g) + f[m]
  BY ONLY <1>6, <1>7, <1>8, <1>9, <1>10
<1> QED
  BY <1>11 DEF m

LEMMA TotalOfTail ==
  ASSUME NEW n \in Nat, NEW f, f \in [1..(n + 1) -> Int], NEW g, g \in [1..n -> Int],
         \A k \in 1..n : g[k] = f[k + 1]
  PROVE  Total(f) = f[1] + Total(g)
<1> DEFINE S == 1..(n + 1)
           h == [k \in 1..n |-> k + 1]
           I == ImageOf(h, 1..n)
<1>1. 1 \in S /\ DOMAIN f = S /\ DOMAIN g = 1..n
  OBVIOUS
<1>2. I = S \ {1}
  <2>1. \A x \in S \ {1} : x - 1 \in 1..n /\ h[x - 1] = x
    OBVIOUS
  <2>2. \A k \in 1..n : h[k] \in S \ {1}
    OBVIOUS
  <2> HIDE DEF h, S
  <2> QED
    BY <2>1, <2>2 DEF ImageOf
<1>3. \A k \in 1..n : g[k] \in Int /\ f[h[k]] = g[k]
  <2>1. \A k \in 1..n : h[k] = k + 1 /\ g[k] \in Int /\ g[k] = f[k + 1]
    OBVIOUS
  <2> HIDE DEF h, S, I
  <2> QED
    BY ONLY <2>1
<1>4. \A j, k \in 1..n : h[j] = h[k] => j = k
  OBVIOUS
<1>5. IsFiniteSet(S) /\ IsFiniteSet(1..n) /\ \A k \in S : f[k] \in Int
  BY FS_Interval
<1> HIDE DEF S, h, I
<1>6. SumOn(f, S) = f[1] + SumOn(f, S \ {1})
  <2> DEFINE one == 1
  <2>0. IsFiniteSet(S) /\ \A k \in S : f[k] \in Int
    BY <1>5
  <2>1. one \in S
    BY <1>1
  <2> HIDE DEF one
  <2>2. SumOn(f, S) = f[one] + SumOn(f, S \ {one})
    BY ONLY <2>1, <2>0, SumTakesOut
  <2> QED
    BY <2>2 DEF one
<1>7. SumOn(f, I) = SumOn(g, 1..n)
  <2> DEFINE T == 1..n
  <2>1. IsFiniteSet(T)
    BY <1>5
  <2> HIDE DEF T
  <2>2. \A k \in T : g[k] \in Int /\ f[h[k]] = g[k]
    BY <1>3 DEF T
  <2>3. \A j, k \in T : h[j] = h[k] => j = k
    BY <1>4 DEF T
  <2>4. SumOn(f, ImageOf(h, T)) = SumOn(g, T)
    BY ONLY <2>1, <2>2, <2>3, SumAlong
  <2> QED
    BY <2>4 DEF I, T
<1>8. Total(f) = SumOn(f, S) /\ Total(g) = SumOn(g, 1..n)
  BY ONLY <1>1, TotalIsSum
<1>9. SumOn(f, S) = f[1] + SumOn(f, I)
  BY ONLY <1>2, <1>6, Zenon
<1> QED
  BY ONLY <1>7, <1>8, <1>9

-----------------------------------------------------------------------------
(* Filtered lists *)

\* What the fold behind Picked gives for the indices T.
Picking(g, list, set, T) ==
  IF T = {} THEN << >>
  ELSE IF list[Max(T)] \in set THEN Append(g[T \ {Max(T)}], list[Max(T)])
  ELSE g[T \ {Max(T)}]

Picker(g, list, set, D) == g = [T \in D |-> Picking(g, list, set, T)]

LEMMA PickedIsFold ==
  ASSUME NEW list, NEW set
  PROVE  Picked(list, set)
           = (CHOOSE g : Picker(g, list, set, SUBSET (DOMAIN list)))[DOMAIN list]
BY DEF Picked, FoldLeft, MapThenFoldSet, Picker, Picking

LEMMA MaxIsMember ==
  ASSUME NEW n \in Nat, NEW T \in SUBSET (1 .. n), T # {}
  PROVE  Max(T) \in T /\ \A y \in T : y <= Max(T)
<1> DEFINE U == {m \in Nat : \A y \in T : y <= m}
           D == {n - m : m \in U}
<1>1. PICK m \in U : \A k \in U : m <= k
  <2>1. U \in SUBSET Nat /\ n \in U
    OBVIOUS
  <2> HIDE DEF U
  <2> QED
    BY <2>1, LeastNatural
<1>2. m \in T
  <2> SUFFICES ASSUME m \notin T PROVE FALSE
    OBVIOUS
  <2>0. m \in Nat /\ \A y \in T : y \in 1 .. n /\ y <= m
    BY <1>1
  <2>1. \A y \in T : y \in Nat /\ y <= m - 1 /\ 1 <= y
    BY <2>0
  <2>2. m - 1 \in Nat
    <3>1. PICK y \in T : TRUE
      OBVIOUS
    <3> QED
      BY <2>0, <2>1, <3>1
  <2>3. m - 1 \in U
    BY <2>1, <2>2
  <2> QED
    BY <2>3, <1>1
<1>3. \E x \in T : \A y \in T : x >= y
  BY <1>1, <1>2
<1>4. Max(T) \in T /\ \A y \in T : Max(T) >= y
  BY <1>3 DEF Max
<1> QED
  BY <1>4

LEMMA MaxOfSegment ==
  ASSUME NEW n \in Nat \ {0} PROVE Max(1 .. n) = n
<1> DEFINE T == 1 .. n
<1>1. T \in SUBSET (1 .. n) /\ T # {} /\ n \in T
  OBVIOUS
<1> HIDE DEF T
<1>2. Max(T) \in T /\ \A y \in T : y <= Max(T)
  BY <1>1, MaxIsMember
<1>3. Max(T) \in 1 .. n /\ n <= Max(T)
  BY <1>1, <1>2
<1> QED
  BY <1>3 DEF T

(* The recursion has a solution on the indices of a list.                   *)
LEMMA PickerExists ==
  ASSUME NEW list, NEW set, NEW n \in Nat
  PROVE  \E g : Picker(g, list, set, SUBSET (1 .. n))
<1> DEFINE D(m) == SUBSET (1 .. m)
           N == {m \in Nat : \E g : Picker(g, list, set, D(m))}
<1>1. 0 \in N
  <2> DEFINE g == [T \in D(0) |-> << >>]
  <2>1. \A T \in D(0) : T = {}
    OBVIOUS
  <2>2. \A T \in D(0) : Picking(g, list, set, T) = << >>
    BY <2>1 DEF Picking
  <2>3. Picker(g, list, set, D(0))
    BY <2>2 DEF Picker
  <2> QED
    BY <2>3
<1>2. ASSUME NEW m \in Nat, m \in N PROVE m + 1 \in N
  <2>1. PICK g : Picker(g, list, set, D(m))
    BY <1>2
  <2> DEFINE h == [T \in D(m + 1) |-> Picking(g, list, set, T)]
  <2>2. \A T \in D(m) : g[T] = Picking(g, list, set, T)
    BY <2>1 DEF Picker
  <2>3. D(m) \subseteq D(m + 1)
    OBVIOUS
  <2>4. \A T \in D(m) : h[T] = g[T]
    <3>1. \A T \in D(m + 1) : h[T] = Picking(g, list, set, T)
      OBVIOUS
    <3> HIDE DEF h, D
    <3> QED
      BY <2>2, <2>3, <3>1
  <2>5. \A T \in D(m + 1) : T # {} => T \ {Max(T)} \in D(m)
    <3> SUFFICES ASSUME NEW T \in D(m + 1), T # {} PROVE T \ {Max(T)} \subseteq 1 .. m
      OBVIOUS
    <3> DEFINE x == Max(T)
    <3>1. m + 1 \in Nat /\ T \in SUBSET (1 .. m + 1)
      OBVIOUS
    <3>2. x \in T /\ \A y \in T : y <= x
      BY <3>1, MaxIsMember
    <3> HIDE DEF x
    <3>3. x \in 1 .. m + 1 /\ \A y \in T : y \in 1 .. m + 1
      BY <3>1, <3>2
    <3>4. \A y \in T \ {x} : y \in 1 .. m
      BY <3>2, <3>3
    <3> QED
      BY <3>4 DEF x
  <2>6. \A T \in D(m + 1) : Picking(h, list, set, T) = Picking(g, list, set, T)
    <3> HIDE DEF h, D
    <3> QED
      BY <2>4, <2>5 DEF Picking
  <2>7. Picker(h, list, set, D(m + 1))
    BY <2>6 DEF Picker
  <2> HIDE DEF h, D
  <2>8. \E k : Picker(k, list, set, D(m + 1))
    BY <2>7
  <2>9. m + 1 \in Nat
    OBVIOUS
  <2> QED
    BY <2>8, <2>9
<1> HIDE DEF N
<1>3. n \in N
  BY <1>1, <1>2, NatSetInduction
<1> QED
  BY <1>3 DEF N

\* What has been picked after the first n items.
PickedOf(list, set, n) ==
  (CHOOSE g : Picker(g, list, set, SUBSET (DOMAIN list)))[1 .. n]

LEMMA PickedStepwise ==
  ASSUME NEW X, NEW list \in Seq(X), NEW set
  PROVE  /\ Picked(list, set) = PickedOf(list, set, Len(list))
         /\ PickedOf(list, set, 0) = << >>
         /\ \A n \in 1 .. Len(list) :
              PickedOf(list, set, n) =
                IF list[n] \in set THEN Append(PickedOf(list, set, n - 1), list[n])
                ELSE PickedOf(list, set, n - 1)
<1> DEFINE g == CHOOSE g : Picker(g, list, set, SUBSET (DOMAIN list))
<1>1. DOMAIN list = 1 .. Len(list) /\ Len(list) \in Nat
  OBVIOUS
<1>2. Picker(g, list, set, SUBSET (DOMAIN list))
  <2>1. \E h : Picker(h, list, set, SUBSET (DOMAIN list))
    BY <1>1, PickerExists
  <2> QED
    BY <2>1
<1>3. \A n : PickedOf(list, set, n) = g[1 .. n]
  BY DEF PickedOf
<1>4. Picked(list, set) = g[1 .. Len(list)]
  BY <1>1, PickedIsFold
<1> HIDE DEF g
<1>5. \A T \in SUBSET (DOMAIN list) : g[T] = Picking(g, list, set, T)
  BY <1>2 DEF Picker
<1>6. PickedOf(list, set, 0) = << >>
  <2>1. 1 .. 0 = {} /\ 1 .. 0 \in SUBSET (DOMAIN list)
    OBVIOUS
  <2> QED
    BY <1>3, <1>5, <2>1 DEF Picking
<1>7. ASSUME NEW n \in 1 .. Len(list)
      PROVE  PickedOf(list, set, n) =
               IF list[n] \in set THEN Append(PickedOf(list, set, n - 1), list[n])
               ELSE PickedOf(list, set, n - 1)
  <2> DEFINE T == 1 .. n
  <2>1. T \in SUBSET (DOMAIN list) /\ T # {}
    BY <1>1
  <2>2. Max(T) = n
    BY MaxOfSegment
  <2>3. T \ {n} = 1 .. n - 1
    OBVIOUS
  <2> HIDE DEF T
  <2>4. g[T] = IF list[n] \in set THEN Append(g[1 .. n - 1], list[n]) ELSE g[1 .. n - 1]
    BY <1>5, <2>1, <2>2, <2>3 DEF Picking
  <2> QED
    BY <1>3, <2>4 DEF T
<1> QED
  BY <1>3, <1>4, <1>6, <1>7

\* p is, by way of e, the items of the first n of the list that are in the set.
Embedded(e, p, list, set, n) ==
  /\ e \in [1 .. Len(p) -> 1 .. n]
  /\ \A j \in 1 .. Len(p) : p[j] = list[e[j]] /\ list[e[j]] \in set
  /\ \A j, k \in 1 .. Len(p) : j < k => e[j] < e[k]
  /\ \A i \in 1 .. n : list[i] \in set => \E j \in 1 .. Len(p) : e[j] = i

LEMMA EmbeddedSkips ==
  ASSUME NEW X, NEW p \in Seq(X), NEW list, NEW set, NEW n \in Nat, NEW e,
         Embedded(e, p, list, set, n), list[n + 1] \notin set
  PROVE  Embedded(e, p, list, set, n + 1)
<1>1. e \in [1 .. Len(p) -> 1 .. n + 1]
  BY DEF Embedded
<1>2. \A i \in 1 .. n + 1 : i \in 1 .. n \/ i = n + 1
  OBVIOUS
<1> QED
  BY <1>1, <1>2 DEF Embedded

LEMMA EmbeddedTakes ==
  ASSUME NEW X, NEW p \in Seq(X), NEW list, NEW set, NEW n \in Nat, NEW e,
         Embedded(e, p, list, set, n), list[n + 1] \in set, list[n + 1] \in X
  PROVE  \E d : Embedded(d, Append(p, list[n + 1]), list, set, n + 1)
<1> DEFINE x == list[n + 1]
           q == Append(p, x)
           l == Len(p)
           d == [j \in 1 .. l + 1 |-> IF j <= l THEN e[j] ELSE n + 1]
<1>1. /\ q \in Seq(X) /\ Len(q) = l + 1
      /\ \A j \in 1 .. l : q[j] = p[j]
      /\ q[l + 1] = x
  BY AppendProperties
<1>2. l \in Nat
  OBVIOUS
<1>3. e \in [1 .. l -> 1 .. n]
  BY DEF Embedded
<1>4. /\ \A j \in 1 .. l : d[j] = e[j] /\ d[j] \in 1 .. n
      /\ d[l + 1] = n + 1
      /\ d \in [1 .. l + 1 -> 1 .. n + 1]
  BY <1>2, <1>3
<1>5. \A j \in 1 .. l + 1 : j \in 1 .. l \/ j = l + 1
  BY <1>2
<1>6. 1 .. Len(q) = 1 .. l + 1
  BY <1>1
<1>e1. \A j \in 1 .. l : p[j] = list[e[j]] /\ list[e[j]] \in set
  BY DEF Embedded
<1>e2. \A j, k \in 1 .. l : j < k => e[j] < e[k]
  BY DEF Embedded
<1>e3. \A i \in 1 .. n : list[i] \in set => \E j \in 1 .. l : e[j] = i
  BY DEF Embedded
<1> HIDE DEF q, d, l
<1>7. \A j \in 1 .. l + 1 : q[j] = list[d[j]] /\ list[d[j]] \in set
  BY <1>1, <1>4, <1>5, <1>e1
<1>8. ASSUME NEW j \in 1 .. l + 1, NEW k \in 1 .. l + 1, j < k PROVE d[j] < d[k]
  <2>1. j \in 1 .. l
    BY <1>2, <1>8
  <2>2. CASE k \in 1 .. l
    BY <1>4, <1>8, <1>e2, <2>1, <2>2
  <2>3. CASE k = l + 1
    BY <1>4, <2>1, <2>3
  <2> QED
    BY <1>5, <2>2, <2>3
<1>9. ASSUME NEW i \in 1 .. n + 1, list[i] \in set PROVE \E j \in 1 .. l + 1 : d[j] = i
  <2>1. CASE i \in 1 .. n
    <3>1. PICK j \in 1 .. l : e[j] = i
      BY <1>9, <1>e3, <2>1
    <3>2. j \in 1 .. l + 1
      BY <1>2
    <3> QED
      BY <1>4, <3>1, <3>2
  <2>2. CASE i = n + 1
    <3>1. l + 1 \in 1 .. l + 1
      BY <1>2
    <3> QED
      BY <1>4, <2>2, <3>1
  <2> QED
    BY <2>1, <2>2
<1>10. Embedded(d, q, list, set, n + 1)
  BY <1>4, <1>6, <1>7, <1>8, <1>9 DEF Embedded
<1> QED
  BY <1>10 DEF q

(* What is picked out of a list is the list's own items that are in the     *)
(* set, all of them, each once and in their order.                          *)
LEMMA PickedProperties ==
  ASSUME NEW X, NEW list \in Seq(X), NEW set
  PROVE  /\ Picked(list, set) \in Seq(X)
         /\ Len(Picked(list, set)) <= Len(list)
         /\ \E e : Embedded(e, Picked(list, set), list, set, Len(list))
<1> DEFINE P(n) == PickedOf(list, set, n)
           N == {n \in Nat : n <= Len(list) =>
                               /\ P(n) \in Seq(X)
                               /\ Len(P(n)) <= n
                               /\ \E e : Embedded(e, P(n), list, set, n)}
<1>0. \A m \in 1 .. Len(list) :
        P(m) = IF list[m] \in set THEN Append(P(m - 1), list[m]) ELSE P(m - 1)
  BY PickedStepwise
<1>1. 0 \in N
  <2>1. P(0) = << >>
    BY PickedStepwise
  <2> DEFINE e == [j \in 1 .. 0 |-> 0]
  <2>2. Embedded(e, << >>, list, set, 0)
    <3>1. e \in [1 .. Len(<< >>) -> 1 .. 0] /\ 1 .. Len(<< >>) = {} /\ 1 .. 0 = {}
      OBVIOUS
    <3> HIDE DEF e
    <3> QED
      BY <3>1 DEF Embedded
  <2>3. \E d : Embedded(d, P(0), list, set, 0)
    BY <2>1, <2>2
  <2>4. P(0) \in Seq(X) /\ Len(P(0)) <= 0
    <3>1. << >> \in Seq(X) /\ Len(<< >>) <= 0
      OBVIOUS
    <3> HIDE DEF P
    <3> QED
      BY <2>1, <3>1
  <2> HIDE DEF P
  <2> QED
    BY <2>3, <2>4
<1>2. ASSUME NEW n \in Nat, n \in N PROVE n + 1 \in N
  <2>0. n + 1 \in Nat
    OBVIOUS
  <2> SUFFICES ASSUME n + 1 <= Len(list)
               PROVE  /\ P(n + 1) \in Seq(X)
                      /\ Len(P(n + 1)) <= n + 1
                      /\ \E e : Embedded(e, P(n + 1), list, set, n + 1)
    <3> HIDE DEF P
    <3> QED
      BY <2>0
  <2>1. P(n) \in Seq(X) /\ Len(P(n)) <= n
    BY <1>2
  <2>2. PICK e : Embedded(e, P(n), list, set, n)
    <3>1. n <= Len(list)
      OBVIOUS
    <3> HIDE DEF P
    <3> QED
      BY <1>2, <3>1
  <2>3. n + 1 \in 1 .. Len(list) /\ (n + 1) - 1 = n /\ list[n + 1] \in X
    OBVIOUS
  <2>4. P(n + 1) = IF list[n + 1] \in set THEN Append(P(n), list[n + 1]) ELSE P(n)
    <3> DEFINE m == n + 1
    <3>1. m \in 1 .. Len(list) /\ m - 1 = n
      BY <2>3
    <3> HIDE DEF m
    <3>2. P(m) = IF list[m] \in set THEN Append(P(m - 1), list[m]) ELSE P(m - 1)
      BY <3>1, <1>0
    <3> QED
      BY <3>1, <3>2 DEF m
  <2> HIDE DEF P
  <2>5. CASE list[n + 1] \in set
    <3> DEFINE q == Append(P(n), list[n + 1])
    <3>1. q \in Seq(X) /\ Len(q) = Len(P(n)) + 1
      BY <2>1, <2>3, AppendProperties
    <3>2. \E d : Embedded(d, q, list, set, n + 1)
      BY <2>1, <2>2, <2>3, <2>5, EmbeddedTakes
    <3>3. Len(P(n)) \in Nat
      BY <2>1
    <3>4. P(n + 1) = q
      BY <2>4, <2>5
    <3> HIDE DEF q
    <3>5. Len(q) <= n + 1
      BY <2>1, <3>1, <3>3
    <3> QED
      BY <3>1, <3>2, <3>4, <3>5
  <2>6. CASE list[n + 1] \notin set
    <3>1. Embedded(e, P(n), list, set, n + 1)
      BY <2>1, <2>2, <2>6, EmbeddedSkips
    <3>2. P(n + 1) = P(n) /\ Len(P(n)) \in Nat
      BY <2>1, <2>4, <2>6
    <3> QED
      BY <2>1, <3>1, <3>2
  <2> QED
    BY <2>5, <2>6
<1>3. Len(list) \in Nat /\ Picked(list, set) = P(Len(list))
  BY PickedStepwise
<1> HIDE DEF N
<1>4. Len(list) \in N
  BY <1>1, <1>2, <1>3, NatSetInduction
<1> HIDE DEF P
<1> QED
  BY <1>3, <1>4 DEF N

(* Out of a list without repetition every member of the set is picked once. *)
LEMMA PickedOnce ==
  ASSUME NEW X, NEW list \in Seq(X), NEW set \in SUBSET X,
         \A x \in set : \E i \in DOMAIN list : list[i] = x,
         \A i, j \in DOMAIN list : list[i] = list[j] => i = j
  PROVE  /\ Picked(list, set) \in Seq(set)
         /\ ImageOf(Picked(list, set), DOMAIN Picked(list, set)) = set
         /\ \A j, k \in DOMAIN Picked(list, set) :
              Picked(list, set)[j] = Picked(list, set)[k] => j = k
<1> DEFINE p == Picked(list, set)
           l == Len(p)
<1>1. p \in Seq(X) /\ \E e : Embedded(e, p, list, set, Len(list))
  BY PickedProperties
<1>2. PICK e : Embedded(e, p, list, set, Len(list))
  BY <1>1
<1> HIDE DEF p
<1>3. DOMAIN p = 1 .. l /\ l \in Nat /\ DOMAIN list = 1 .. Len(list)
  BY <1>1
<1>4. /\ e \in [1 .. l -> DOMAIN list]
      /\ \A j \in 1 .. l : p[j] = list[e[j]] /\ p[j] \in set
  BY <1>2, <1>3 DEF Embedded
<1>5. \A j, k \in 1 .. l : j < k => e[j] < e[k]
  BY <1>2 DEF Embedded
<1>6. \A i \in DOMAIN list : list[i] \in set => \E j \in 1 .. l : e[j] = i
  BY <1>2, <1>3 DEF Embedded
<1>7. p \in Seq(set)
  BY <1>1, <1>3, <1>4
<1>8. ImageOf(p, DOMAIN p) = set
  <2>1. ASSUME NEW x \in set PROVE \E j \in 1 .. l : p[j] = x
    <3>1. PICK i \in DOMAIN list : list[i] = x
      OBVIOUS
    <3>2. PICK j \in 1 .. l : e[j] = i
      BY <1>6, <3>1
    <3> QED
      BY <1>4, <3>1, <3>2
  <2> QED
    BY <1>3, <1>4, <2>1 DEF ImageOf
<1>9. ASSUME NEW j \in 1 .. l, NEW k \in 1 .. l, p[j] = p[k] PROVE j = k
  <2>1. e[j] \in DOMAIN list /\ e[k] \in DOMAIN list /\ list[e[j]] = list[e[k]]
    BY <1>4, <1>9
  <2>2. e[j] = e[k]
    BY <2>1
  <2>3. e[j] \in Int /\ e[k] \in Int
    BY <1>3, <2>1
  <2>4. ~(e[j] < e[k]) /\ ~(e[k] < e[j])
    BY <2>2, <2>3
  <2>5. ~(j < k) /\ ~(k < j)
    BY <1>5, <2>4
  <2> QED
    BY <1>3, <2>5
<1> QED
  BY <1>3, <1>7, <1>8, <1>9 DEF p
=============================================================================

--------------------------------- MODULE Sums ---------------------------------
(* Sums over finite sets, as the fold of the community modules computes      *)
(* them: the quantities the models add up (OrderStock, AiQuota) are such     *)
(* sums, and the proofs about them use what is stated here.                  *)
EXTENDS Integers, FiniteSetsExt, FiniteSetTheorems, WellFoundedInduction, TLAPS

\* A set of naturals has a least element.
LEMMA Least ==
    ASSUME NEW D \in SUBSET Nat, D # {}
    PROVE  \E k \in D : \A j \in D : k <= j
<1> DEFINE R == OpToRel(<, Nat)
<1>1. \A j, k \in Nat : j < k => <<j, k>> \in R
  BY DEF OpToRel
<1>2. IsWellFoundedOn(R, Nat)
  BY NatLessThanWellFounded
<1> HIDE DEF R
<1>3. PICK k \in D : \A j \in D : <<j, k>> \notin R
  BY <1>2, WFMin
<1>4. ASSUME NEW j \in D PROVE k <= j
  <2>1. j \in Nat /\ k \in Nat
    OBVIOUS
  <2>2. ~ (j < k)
    BY <1>1, <1>3, <2>1
  <2> QED  BY <2>1, <2>2
<1> QED  BY <1>4

\* A function takes its maximum over a finite set, by descent on cardinality.
LEMMA FiniteMax ==
    ASSUME NEW T, IsFiniteSet(T), T # {}, NEW f, \A x \in T : f[x] \in Nat
    PROVE  \E x \in T : \A y \in T : f[y] <= f[x]
<1> DEFINE Maxed(P) == \E x \in P : \A y \in P : f[y] <= f[x]
           D == {k \in Nat : \E P \in SUBSET T : P # {} /\ Cardinality(P) = k /\ ~ Maxed(P)}
<1> SUFFICES ASSUME ~ Maxed(T) PROVE FALSE
  OBVIOUS
<1>1. \A P \in SUBSET T : IsFiniteSet(P) /\ Cardinality(P) \in Nat
  BY FS_Subset, FS_CardinalityType
<1>2. D # {}
  <2>1. Cardinality(T) \in D
    BY <1>1
  <2> QED BY <2>1
<1>3. PICK k \in D : \A j \in D : k <= j
  <2> HIDE DEF D
  <2>1. D \in SUBSET Nat
    BY DEF D
  <2> QED  BY <2>1, <1>2, Least
<1>4. PICK P \in SUBSET T : P # {} /\ Cardinality(P) = k /\ ~ Maxed(P)
  BY <1>3
<1>5. PICK a \in P : TRUE
  BY <1>4
<1> DEFINE Q == P \ {a}
<1>6. IsFiniteSet(Q) /\ Cardinality(Q) \in Nat /\ Cardinality(Q) < k
  BY <1>1, <1>4, <1>5, FS_RemoveElement
<1>7. CASE Q = {}
  BY <1>4, <1>5, <1>7
<1>8. CASE Q # {}
  <2>1. Maxed(Q)
    <3> SUFFICES ASSUME ~ Maxed(Q) PROVE FALSE
      OBVIOUS
    <3>1. Cardinality(Q) \in D
      BY <1>6, <1>8
    <3>2. k <= Cardinality(Q) /\ k \in Nat
      BY <1>3, <3>1
    <3> QED  BY <3>2, <1>6
  <2>2. PICK b \in Q : \A y \in Q : f[y] <= f[b]
    BY <2>1
  <2>3. CASE f[a] <= f[b]
    BY <2>2, <2>3, <1>4
  <2>4. CASE ~ (f[a] <= f[b])
    BY <2>2, <2>4, <1>4, <1>5
  <2> QED  BY <2>3, <2>4
<1> QED  BY <1>7, <1>8

\* Induction over the subsets of a finite set, the induction hypothesis a set G
\* of subsets: one that has every subset whose proper subsets it has, has all.
LEMMA SubsetInduction ==
    ASSUME NEW S, IsFiniteSet(S), NEW G,
           \A P \in SUBSET S : (\A Q \in SUBSET P : Q # P => Q \in G) => P \in G
    PROVE  \A P \in SUBSET S : P \in G
<1> DEFINE D == {k \in Nat : \E P \in SUBSET S : P \notin G /\ Cardinality(P) = k}
<1> SUFFICES ASSUME NEW P0 \in SUBSET S, P0 \notin G PROVE FALSE
  OBVIOUS
<1>1. \A P \in SUBSET S : IsFiniteSet(P) /\ Cardinality(P) \in Nat
  BY FS_Subset, FS_CardinalityType
<1>2. PICK k \in D : \A j \in D : k <= j
  <2>1. Cardinality(P0) \in D
    BY <1>1
  <2> HIDE DEF D
  <2>2. D \in SUBSET Nat
    BY DEF D
  <2> QED  BY <2>1, <2>2, Least
<1>3. PICK P \in SUBSET S : P \notin G /\ Cardinality(P) = k
  BY <1>2
<1>4. ASSUME NEW Q \in SUBSET P, Q # P PROVE Q \in G
  <2>1. Cardinality(Q) < k /\ Cardinality(Q) \in Nat /\ k \in Nat
    BY <1>1, <1>3, <1>4, FS_Subset
  <2>2. ~ (k <= Cardinality(Q))
    BY <2>1
  <2> QED  BY <1>2, <2>1, <2>2
<1> QED  BY <1>3, <1>4

-----------------------------------------------------------------------------
\* The sum of f over a finite set, and the function over its subsets that the
\* fold of the library unfolds into.
Sum(f, S) == MapThenSumSet(LAMBDA x : f[x], S)
AnyOf(s) == CHOOSE x \in s : TRUE
Unfolds(it, f, S) ==
    it = [s \in SUBSET S |-> IF s = {} THEN 0 ELSE f[AnyOf(s)] + it[s \ {AnyOf(s)}]]

LEMMA AnyOfIn == \A s : s # {} => AnyOf(s) \in s
BY DEF AnyOf

\* The fold is that function's value.
LEMMA SumUnfolds == ASSUME NEW f, NEW S PROVE Sum(f, S) = (CHOOSE it : Unfolds(it, f, S))[S]
BY DEF Sum, MapThenSumSet, MapThenFoldSet, Unfolds, AnyOf

\* The function exists: over the subsets of at most n elements, for each n.
LEMMA UnfoldingExists ==
    ASSUME NEW f, NEW S, IsFiniteSet(S)
    PROVE  \E it : Unfolds(it, f, S)
<1> DEFINE Upto(n) == {s \in SUBSET S : Cardinality(s) <= n}
           Part(it, n) == it = [s \in Upto(n) |-> IF s = {} THEN 0
                                   ELSE f[AnyOf(s)] + it[s \ {AnyOf(s)}]]
           D == {n \in Nat : ~ \E it : Part(it, n)}
<1>1. \A s \in SUBSET S : /\ IsFiniteSet(s) /\ Cardinality(s) \in Nat
                          /\ Cardinality(s) <= Cardinality(S)
  BY FS_Subset, FS_CardinalityType
<1>2. ASSUME NEW s \in SUBSET S, s # {}
      PROVE  /\ AnyOf(s) \in s /\ s \ {AnyOf(s)} \in SUBSET S
             /\ Cardinality(s \ {AnyOf(s)}) = Cardinality(s) - 1
  BY <1>1, <1>2, AnyOfIn, FS_RemoveElement
<1>3. D = {}
  <2> SUFFICES ASSUME D # {} PROVE FALSE
    OBVIOUS
  <2>1. PICK n \in D : \A j \in D : n <= j
    <3> HIDE DEF D
    <3>1. D \in SUBSET Nat
      BY DEF D
    <3> QED  BY <3>1, Least
  <2>2. n \in Nat /\ ~ \E it : Part(it, n)
    BY <2>1
  <2>3. CASE n = 0
    <3>1. Upto(0) = {{}}
      BY <1>1, FS_EmptySet
    <3>2. Part([s \in Upto(0) |-> 0], 0)
      BY <3>1
    <3> QED  BY <2>2, <2>3, <3>2
  <2>4. CASE n # 0
    <3>1. n - 1 \in Nat /\ n - 1 \notin D
      <4>1. n - 1 \in Nat /\ ~ (n <= n - 1)
        BY <2>2, <2>4
      <4> HIDE DEF D
      <4> QED  BY <2>1, <4>1
    <3>2. PICK it : Part(it, n - 1)
      BY <3>1
    <3> DEFINE g == [s \in Upto(n) |-> IF s = {} THEN 0
                                       ELSE f[AnyOf(s)] + it[s \ {AnyOf(s)}]]
    <3>3. ASSUME NEW s \in Upto(n - 1) PROVE s \in Upto(n) /\ g[s] = it[s]
      <4>1. s \in Upto(n)
        BY <1>1, <2>2
      <4>2. g[s] = IF s = {} THEN 0 ELSE f[AnyOf(s)] + it[s \ {AnyOf(s)}]
        BY <4>1
      <4> QED  BY <3>2, <4>1, <4>2
    <3>4. ASSUME NEW s \in Upto(n), s # {}
          PROVE  g[s \ {AnyOf(s)}] = it[s \ {AnyOf(s)}]
      <4>1. s \ {AnyOf(s)} \in Upto(n - 1)
        BY <1>1, <1>2, <2>2, <3>4
      <4> HIDE DEF g, Upto
      <4> QED  BY <3>3, <4>1
    <3>5. Part(g, n)
      <4>1. \A s \in Upto(n) : g[s] = IF s = {} THEN 0
                                       ELSE f[AnyOf(s)] + g[s \ {AnyOf(s)}]
        <5> HIDE DEF Upto
        <5> QED  BY <3>4
      <4>2. g = [s \in Upto(n) |-> g[s]]
        OBVIOUS
      <4> HIDE DEF g, Upto
      <4> QED  BY <4>1, <4>2
    <3> QED  BY <2>2, <3>5
  <2> QED  BY <2>3, <2>4
<1>4. PICK it : Part(it, Cardinality(S))
  <2>1. Cardinality(S) \in Nat
    BY FS_CardinalityType
  <2> HIDE DEF Part
  <2> QED  BY <1>3, <2>1
<1>5. Upto(Cardinality(S)) = SUBSET S
  BY <1>1
<1>6. Unfolds(it, f, S)
  <2> HIDE DEF Upto
  <2> QED  BY <1>4, <1>5 DEF Unfolds
<1> QED  BY <1>6

\* The unfolding of the sum over S, and its value on a smaller set whose terms
\* are the same.
LEMMA UnfoldingsAgree ==
    ASSUME NEW f, NEW S, NEW g, NEW T, NEW it, NEW jt, Unfolds(it, f, S), Unfolds(jt, g, T),
           NEW P, P \subseteq S, P \subseteq T, IsFiniteSet(P), \A x \in P : f[x] = g[x]
    PROVE  it[P] = jt[P]
<1> DEFINE G == {Q \in SUBSET P : it[Q] = jt[Q]}
<1>1. ASSUME NEW Q \in SUBSET P, \A R \in SUBSET Q : R # Q => R \in G
      PROVE  Q \in G
  <2>1. /\ it[Q] = IF Q = {} THEN 0 ELSE f[AnyOf(Q)] + it[Q \ {AnyOf(Q)}]
        /\ jt[Q] = IF Q = {} THEN 0 ELSE g[AnyOf(Q)] + jt[Q \ {AnyOf(Q)}]
    BY DEF Unfolds
  <2>2. CASE Q = {}
    BY <2>1, <2>2
  <2>3. CASE Q # {}
    <3>1. AnyOf(Q) \in Q
      BY <2>3, AnyOfIn
    <3>2. Q \ {AnyOf(Q)} \in G /\ f[AnyOf(Q)] = g[AnyOf(Q)]
      BY <1>1, <3>1
    <3> QED  BY <2>1, <2>3, <3>2
  <2> QED  BY <2>2, <2>3
<1> HIDE DEF G
<1>2. P \in G
  BY <1>1, SubsetInduction
<1> QED  BY <1>2 DEF G

LEMMA SumUnfolding ==
    ASSUME NEW f, NEW S, IsFiniteSet(S)
    PROVE  \E it : /\ Unfolds(it, f, S)
                   /\ \A P \in SUBSET S : it[P] = Sum(f, P)
<1> DEFINE it(T) == CHOOSE i : Unfolds(i, f, T)
<1>1. \A T \in SUBSET S : IsFiniteSet(T) /\ Unfolds(it(T), f, T) /\ Sum(f, T) = it(T)[T]
  BY FS_Subset, UnfoldingExists, SumUnfolds
<1>2. ASSUME NEW P \in SUBSET S PROVE it(S)[P] = it(P)[P]
  <2> HIDE DEF it
  <2> QED  BY <1>1, UnfoldingsAgree
<1> HIDE DEF it
<1> QED  BY <1>1, <1>2

\* The same terms have the same sum.
LEMMA SumSame ==
    ASSUME NEW f, NEW g, NEW S, IsFiniteSet(S), \A x \in S : f[x] = g[x]
    PROVE  Sum(f, S) = Sum(g, S)
<1>1. PICK it : Unfolds(it, f, S) /\ it[S] = Sum(f, S)
  BY SumUnfolding
<1>2. PICK jt : Unfolds(jt, g, S) /\ jt[S] = Sum(g, S)
  BY SumUnfolding
<1> QED  BY <1>1, <1>2, UnfoldingsAgree

\* The sum over no terms.
LEMMA SumEmpty == ASSUME NEW f PROVE Sum(f, {}) = 0
<1>1. PICK it : Unfolds(it, f, {}) /\ it[{}] = Sum(f, {})
  BY SumUnfolding, FS_EmptySet
<1> QED  BY <1>1 DEF Unfolds

\* One term is taken out of the sum: the one the fold takes first.
LEMMA SumFirst ==
    ASSUME NEW f, NEW S, IsFiniteSet(S), S # {}
    PROVE  AnyOf(S) \in S /\ Sum(f, S) = f[AnyOf(S)] + Sum(f, S \ {AnyOf(S)})
<1>1. PICK it : Unfolds(it, f, S) /\ \A P \in SUBSET S : it[P] = Sum(f, P)
  BY SumUnfolding
<1>2. it[S] = f[AnyOf(S)] + it[S \ {AnyOf(S)}]
  BY <1>1 DEF Unfolds
<1> QED  BY <1>1, <1>2, AnyOfIn

\* A sum of integers is an integer.
LEMMA SumTyped ==
    ASSUME NEW f, NEW S, IsFiniteSet(S), \A x \in S : f[x] \in Int
    PROVE  Sum(f, S) \in Int
<1> DEFINE G == {P \in SUBSET S : Sum(f, P) \in Int}
<1>1. ASSUME NEW P \in SUBSET S, \A Q \in SUBSET P : Q # P => Q \in G
      PROVE  P \in G
  <2>1. CASE P = {}
    BY <2>1, SumEmpty
  <2>2. CASE P # {}
    <3>1. /\ AnyOf(P) \in P
          /\ Sum(f, P) = f[AnyOf(P)] + Sum(f, P \ {AnyOf(P)})
      BY <2>2, FS_Subset, SumFirst
    <3>2. P \ {AnyOf(P)} \in G
      BY <1>1, <3>1
    <3> QED  BY <3>1, <3>2
  <2> QED  BY <2>1, <2>2
<1> HIDE DEF G
<1>2. S \in G
  BY <1>1, SubsetInduction
<1> QED  BY <1>2 DEF G

\* A sum of naturals is a natural (see SumTyped).
LEMMA SumNat ==
    ASSUME NEW f, NEW S, IsFiniteSet(S), \A x \in S : f[x] \in Nat
    PROVE  Sum(f, S) \in Nat
<1> DEFINE G == {P \in SUBSET S : Sum(f, P) \in Nat}
<1>1. ASSUME NEW P \in SUBSET S, \A Q \in SUBSET P : Q # P => Q \in G
      PROVE  P \in G
  <2>1. CASE P = {}
    BY <2>1, SumEmpty
  <2>2. CASE P # {}
    <3>1. /\ AnyOf(P) \in P
          /\ Sum(f, P) = f[AnyOf(P)] + Sum(f, P \ {AnyOf(P)})
      BY <2>2, FS_Subset, SumFirst
    <3>2. P \ {AnyOf(P)} \in G
      BY <1>1, <3>1
    <3> QED  BY <3>1, <3>2
  <2> QED  BY <2>1, <2>2
<1> HIDE DEF G
<1>2. S \in G
  BY <1>1, SubsetInduction
<1> QED  BY <1>2 DEF G

\* Any term may be taken out of the sum.
LEMMA SumRemove ==
    ASSUME NEW f, NEW S, IsFiniteSet(S), \A x \in S : f[x] \in Int, NEW a \in S
    PROVE  Sum(f, S) = f[a] + Sum(f, S \ {a})
<1> DEFINE G == {P \in SUBSET S : \A x \in P : Sum(f, P) = f[x] + Sum(f, P \ {x})}
<1>1. ASSUME NEW P \in SUBSET S, \A Q \in SUBSET P : Q # P => Q \in G
      PROVE  P \in G
  <2> SUFFICES ASSUME NEW x \in P PROVE Sum(f, P) = f[x] + Sum(f, P \ {x})
    OBVIOUS
  <2> DEFINE y == AnyOf(P)
  <2>1. y \in P /\ Sum(f, P) = f[y] + Sum(f, P \ {y})
    BY FS_Subset, SumFirst
  <2>2. CASE x = y
    BY <2>1, <2>2
  <2>3. CASE x # y
    <3> HIDE DEF y
    <3>1. x \in P \ {y} /\ y \in P \ {x} /\ P \ {y} \in G /\ P \ {x} \in G
      BY <1>1, <2>1, <2>3
    <3>2. /\ Sum(f, P \ {y}) = f[x] + Sum(f, (P \ {y}) \ {x})
          /\ Sum(f, P \ {x}) = f[y] + Sum(f, (P \ {x}) \ {y})
      BY <3>1
    <3>3. (P \ {y}) \ {x} = (P \ {x}) \ {y}
      OBVIOUS
    <3>4. Sum(f, (P \ {y}) \ {x}) \in Int /\ f[x] \in Int /\ f[y] \in Int
      <4>1. (P \ {y}) \ {x} \in SUBSET S /\ IsFiniteSet((P \ {y}) \ {x})
        BY FS_Subset
      <4>2. Sum(f, (P \ {y}) \ {x}) \in Int
        BY <4>1, SumTyped
      <4>3. x \in S /\ y \in S
        BY <2>1
      <4> QED  BY <4>2, <4>3
    <3>5. PICK z \in Int : z = Sum(f, (P \ {y}) \ {x})
      BY <3>4
    <3>6. Sum(f, P) = f[y] + (f[x] + z) /\ Sum(f, P \ {x}) = f[y] + z
      BY <2>1, <3>2, <3>3, <3>5
    <3> QED  BY <3>4, <3>5, <3>6
  <2> QED  BY <2>2, <2>3
<1> HIDE DEF G
<1>2. S \in G
  BY <1>1, SubsetInduction
<1> QED  BY <1>2 DEF G

\* One more term.
LEMMA SumAdd ==
    ASSUME NEW f, NEW S, IsFiniteSet(S), NEW a, a \notin S, \A x \in S \cup {a} : f[x] \in Int
    PROVE  Sum(f, S \cup {a}) = Sum(f, S) + f[a]
<1>1. IsFiniteSet(S \cup {a}) /\ (S \cup {a}) \ {a} = S
  BY FS_AddElement
<1>2. Sum(f, S \cup {a}) = f[a] + Sum(f, S)
  <2>1. Sum(f, S \cup {a}) = f[a] + Sum(f, (S \cup {a}) \ {a})
    <3> DEFINE U == S \cup {a}
    <3>1. a \in U /\ IsFiniteSet(U) /\ \A x \in U : f[x] \in Int
      BY <1>1
    <3> HIDE DEF U
    <3>2. Sum(f, U) = f[a] + Sum(f, U \ {a})
      BY <3>1, SumRemove
    <3> QED  BY <3>2 DEF U
  <2> QED  BY <1>1, <2>1
<1>3. Sum(f, S) \in Int /\ f[a] \in Int
  BY SumTyped
<1> QED  BY <1>2, <1>3

\* The terms of two disjoint sets.
LEMMA SumDisjoint ==
    ASSUME NEW f, NEW S, NEW T, IsFiniteSet(S), IsFiniteSet(T), S \cap T = {},
           \A x \in S \cup T : f[x] \in Int
    PROVE  Sum(f, S \cup T) = Sum(f, S) + Sum(f, T)
<1> DEFINE G == {P \in SUBSET T : Sum(f, S \cup P) = Sum(f, S) + Sum(f, P)}
<1>1. ASSUME NEW P \in SUBSET T, \A Q \in SUBSET P : Q # P => Q \in G
      PROVE  P \in G
  <2>1. Sum(f, S) \in Int
    BY SumTyped
  <2>2. CASE P = {}
    <3>1. S \cup P = S
      BY <2>2
    <3> QED  BY <2>1, <2>2, <3>1, SumEmpty
  <2>3. CASE P # {}
    <3>1. PICK a \in P : TRUE
      BY <2>3
    <3> DEFINE Q == P \ {a}
    <3>2. Q \in G /\ IsFiniteSet(Q) /\ IsFiniteSet(S \cup Q) /\ a \notin S \cup Q
      BY <1>1, <3>1, FS_Subset, FS_Union
    <3>3. P = Q \cup {a} /\ S \cup P = (S \cup Q) \cup {a} /\ f[a] \in Int
      BY <3>1
    <3>4. Sum(f, S \cup Q) = Sum(f, S) + Sum(f, Q) /\ Q \in SUBSET T
      BY <3>2
    <3> HIDE DEF Q, G
    <3>5. Sum(f, P) = Sum(f, Q) + f[a]
      BY <3>2, <3>3, <3>4, SumAdd
    <3>6. Sum(f, S \cup P) = Sum(f, S \cup Q) + f[a]
      <4> DEFINE U == S \cup Q
      <4>1. IsFiniteSet(U) /\ a \notin U /\ \A x \in U \cup {a} : f[x] \in Int
        BY <3>2, <3>3, <3>4
      <4> HIDE DEF U
      <4>2. Sum(f, U \cup {a}) = Sum(f, U) + f[a]
        BY <4>1, SumAdd
      <4> QED  BY <3>3, <4>2 DEF U
    <3>7. Sum(f, Q) \in Int
      BY <3>2, <3>4, SumTyped
    <3> QED  BY <2>1, <3>3, <3>4, <3>5, <3>6, <3>7 DEF G
  <2> QED  BY <2>2, <2>3
<1> HIDE DEF G
<1>2. T \in G
  BY <1>1, SubsetInduction
<1> QED  BY <1>2 DEF G

\* The sum of the sums, term by term.
LEMMA SumPlus ==
    ASSUME NEW f, NEW g, NEW h, NEW S, IsFiniteSet(S),
           \A x \in S : f[x] \in Int /\ g[x] \in Int /\ h[x] = f[x] + g[x]
    PROVE  Sum(h, S) = Sum(f, S) + Sum(g, S)
<1> DEFINE G == {P \in SUBSET S : Sum(h, P) = Sum(f, P) + Sum(g, P)}
<1>1. ASSUME NEW P \in SUBSET S, \A Q \in SUBSET P : Q # P => Q \in G
      PROVE  P \in G
  <2>1. CASE P = {}
    BY <2>1, SumEmpty
  <2>2. CASE P # {}
    <3> DEFINE a == AnyOf(P)
               Q == P \ {a}
    <3>1. a \in P /\ IsFiniteSet(P) /\ IsFiniteSet(Q)
      BY <2>2, AnyOfIn, FS_Subset
    <3>2. /\ Sum(f, P) = f[a] + Sum(f, Q) /\ Sum(g, P) = g[a] + Sum(g, Q)
          /\ Sum(h, P) = h[a] + Sum(h, Q)
      BY <2>2, <3>1, SumFirst
    <3>3. Q \in G
      BY <1>1, <3>1
    <3>4. Sum(f, Q) \in Int /\ Sum(g, Q) \in Int
      BY <3>1, SumTyped
    <3>5. f[a] \in Int /\ g[a] \in Int /\ h[a] = f[a] + g[a]
      BY <3>1
    <3>6. Sum(h, Q) = Sum(f, Q) + Sum(g, Q)
      BY <3>3
    <3> HIDE DEF a, Q
    <3> QED  BY <3>2, <3>4, <3>5, <3>6
  <2> QED  BY <2>1, <2>2
<1> HIDE DEF G
<1>2. S \in G
  BY <1>1, SubsetInduction
<1> QED  BY <1>2 DEF G

\* Smaller terms have a smaller sum.
LEMMA SumMonotone ==
    ASSUME NEW f, NEW g, NEW S, IsFiniteSet(S),
           \A x \in S : f[x] \in Int /\ g[x] \in Int /\ f[x] <= g[x]
    PROVE  Sum(f, S) <= Sum(g, S)
<1> DEFINE d == [x \in S |-> g[x] - f[x]]
<1>1. \A x \in S : d[x] \in Nat /\ g[x] = f[x] + d[x]
  OBVIOUS
<1> HIDE DEF d
<1>2. Sum(d, S) \in Nat /\ Sum(f, S) \in Int
  BY <1>1, SumNat, SumTyped
<1>3. Sum(g, S) = Sum(f, S) + Sum(d, S)
  BY <1>1, SumPlus
<1> QED  BY <1>2, <1>3

\* Terms that are zero.
LEMMA SumZero ==
    ASSUME NEW f, NEW S, IsFiniteSet(S), \A x \in S : f[x] = 0
    PROVE  Sum(f, S) = 0
<1>1. \A x \in S : f[x] \in Nat /\ f[x] \in Int
  OBVIOUS
<1>2. Sum(f, S) \in Nat
  BY <1>1, SumNat
<1> DEFINE d == [x \in S |-> -1]
           e == [x \in S |-> f[x] + d[x]]
<1>3. \A x \in S : d[x] \in Int /\ e[x] = f[x] + d[x] /\ e[x] = d[x]
  OBVIOUS
<1> HIDE DEF d, e
<1>4. Sum(d, S) \in Int /\ Sum(e, S) = Sum(d, S)
  BY <1>3, SumTyped, SumSame
<1>5. Sum(e, S) = Sum(f, S) + Sum(d, S)
  BY <1>1, <1>3, SumPlus
<1> QED  BY <1>2, <1>4, <1>5

\* A sum over a part, as a sum over the whole.
LEMMA SumOfPart ==
    ASSUME NEW f, NEW g, NEW S, IsFiniteSet(S), NEW T \in SUBSET S,
           \A x \in T : f[x] \in Int, \A x \in S : g[x] = IF x \in T THEN f[x] ELSE 0
    PROVE  Sum(f, T) = Sum(g, S)
<1> DEFINE R == S \ T
<1>1. IsFiniteSet(T) /\ IsFiniteSet(R) /\ S = T \cup R /\ T \cap R = {}
  BY FS_Subset
<1>2. \A x \in T \cup R : g[x] \in Int
  OBVIOUS
<1>3. Sum(g, R) = 0
  BY <1>1, SumZero
<1>4. Sum(g, T) = Sum(f, T) /\ Sum(f, T) \in Int
  BY <1>1, SumSame, SumTyped
<1> HIDE DEF R
<1>5. Sum(g, T \cup R) = Sum(g, T) + Sum(g, R)
  BY <1>1, <1>2, SumDisjoint
<1> QED  BY <1>1, <1>3, <1>4, <1>5

\* One term changes.
LEMMA SumChange ==
    ASSUME NEW f, NEW g, NEW S, IsFiniteSet(S), NEW a \in S,
           \A x \in S : f[x] \in Int /\ g[x] \in Int, \A x \in S \ {a} : g[x] = f[x]
    PROVE  Sum(g, S) = Sum(f, S) + (g[a] - f[a])
<1>1. IsFiniteSet(S \ {a})
  BY FS_Subset
<1>2. Sum(f, S) = f[a] + Sum(f, S \ {a}) /\ Sum(g, S) = g[a] + Sum(g, S \ {a})
  BY SumRemove
<1>3. Sum(g, S \ {a}) = Sum(f, S \ {a}) /\ Sum(f, S \ {a}) \in Int
  BY <1>1, SumSame, SumTyped
<1> QED  BY <1>2, <1>3

=============================================================================

---------------------------- MODULE FoldTheorems ----------------------------
(***************************************************************************)
(* Facts about sums over finite sets and about the least members of sets,  *)
(* for the proofs of the modules that fold over their data.  The provers   *)
(* have no induction over data: every fact is shown by a least             *)
(* counterexample.                                                         *)
(***************************************************************************)
EXTENDS Integers, FiniteSetsExt, FiniteSetTheorems, WellFoundedInduction, TLAPS

-----------------------------------------------------------------------------
(* Least and greatest members. *)

\* A set of natural numbers that is not empty has a least member.
LEMMA MinOfNats ==
  ASSUME NEW S \in SUBSET Nat, S # {}
  PROVE  Min(S) \in S /\ \A x \in S : Min(S) <= x
<1> DEFINE Less == {ss \in Nat \X Nat : ss[1] < ss[2]}
<1>1. IsWellFoundedOn(Less, Nat)
  BY NatLessThanWellFounded DEF OpToRel
<1>2. PICK m \in S : \A x \in S : ~(<<x, m>> \in Less)
  BY <1>1, WFMin
<1>3. \A x \in S : m <= x
  <2> TAKE x \in S
  <2>1. x \in Nat /\ m \in Nat /\ <<x, m>> \in Nat \X Nat
    OBVIOUS
  <2>2. ~(x < m)
    BY <1>2, <2>1
  <2> QED
    BY <2>1, <2>2
<1> QED
  BY <1>3 DEF Min

\* A set of natural numbers up to n that is not empty has a greatest member.
LEMMA MaxOfNats ==
  ASSUME NEW n \in Nat, NEW S \in SUBSET (0..n), S # {}
  PROVE  Max(S) \in S /\ \A x \in S : Max(S) >= x
<1> DEFINE T == {n - x : x \in S}
<1>1. T \in SUBSET Nat /\ T # {}
  <2>1. \A x \in S : n - x \in Nat
    OBVIOUS
  <2> QED
    BY <2>1
<1>2. PICK m \in S : n - m = Min(T)
  BY <1>1, MinOfNats
<1>3. \A x \in S : m >= x
  <2> TAKE x \in S
  <2>1. Min(T) <= n - x
    BY <1>1, MinOfNats
  <2>2. x \in Nat /\ m \in Nat
    OBVIOUS
  <2> QED
    BY <1>2, <2>1, <2>2
<1> QED
  BY <1>3 DEF Max

-----------------------------------------------------------------------------
(* Sums over finite sets. *)

Pick(s) == CHOOSE x \in s : TRUE

\* A set of subsets of a finite set has a least one.
LEMMA LeastSubset ==
  ASSUME NEW S, IsFiniteSet(S), NEW C, C \subseteq SUBSET S, C # {}
  PROVE  \E T \in C : \A U \in C : U \subseteq T => U = T
<1> DEFINE R == StrictSubsetOrdering(S)
           F == FiniteSubsetsOf(S)
<1>1. IsWellFoundedOn(R, F)
  BY FS_StrictSubsetOrderingWellFounded
<1>2. C \subseteq F
  BY FS_Subset DEF FiniteSubsetsOf
<1> HIDE DEF R, F
<1>3. PICK T \in C : \A U \in C : ~(<<U, T>> \in R)
  BY <1>1, <1>2, WFMin
<1> QED
  BY <1>3 DEF R, StrictSubsetOrdering

\* g tabulates the sums of w over the subsets of S.
IsSum(g, w, S) ==
  g = [s \in SUBSET S |-> IF s = {} THEN 0 ELSE w[Pick(s)] + g[s \ {Pick(s)}]]

SumOf(w, S) == (CHOOSE g : IsSum(g, w, S))[S]

\* Two tables agree where both are defined.
LEMMA SumUnique ==
  ASSUME NEW S, IsFiniteSet(S), NEW w, NEW g, NEW h, IsSum(g, w, S),
         NEW T \in SUBSET S, IsSum(h, w, T)
  PROVE  \A s \in SUBSET T : g[s] = h[s]
<1> DEFINE C == {s \in SUBSET T : g[s] # h[s]}
<1> SUFFICES ASSUME C # {} PROVE FALSE
  OBVIOUS
<1>0. C \subseteq SUBSET S
  OBVIOUS
<1>1. PICK s \in C : \A u \in C : u \subseteq s => u = s
  <2> HIDE DEF C
  <2> QED
    BY <1>0, LeastSubset
<1>2. s \in SUBSET S /\ s \in SUBSET T
  OBVIOUS
<1>3. g[s] = IF s = {} THEN 0 ELSE w[Pick(s)] + g[s \ {Pick(s)}]
  BY <1>2 DEF IsSum
<1>4. h[s] = IF s = {} THEN 0 ELSE w[Pick(s)] + h[s \ {Pick(s)}]
  BY <1>2 DEF IsSum
<1>5. CASE s # {}
  <2>1. Pick(s) \in s
    BY <1>5 DEF Pick
  <2>2. s \ {Pick(s)} \notin C
    BY <1>1, <2>1
  <2>3. g[s \ {Pick(s)}] = h[s \ {Pick(s)}]
    BY <1>2, <2>2
  <2> QED
    BY <1>1, <1>3, <1>4, <1>5, <2>3
<1> QED
  BY <1>1, <1>3, <1>4, <1>5

\* Every finite set has its table.
LEMMA SumExists ==
  ASSUME NEW S, IsFiniteSet(S), NEW w
  PROVE  \E g : IsSum(g, w, S)
<1> DEFINE C == {T \in SUBSET S : ~\E g : IsSum(g, w, T)}
<1> SUFFICES ASSUME C # {} PROVE FALSE
  OBVIOUS
<1>0. C \subseteq SUBSET S
  OBVIOUS
<1>1. PICK T \in C : \A U \in C : U \subseteq T => U = T
  <2> HIDE DEF C
  <2> QED
    BY <1>0, LeastSubset
<1> DEFINE Table(U) == CHOOSE g : IsSum(g, w, U)
           Of(U) == Table(U)[U]
           f == [s \in SUBSET T |-> IF s = {} THEN 0 ELSE w[Pick(s)] + Of(s \ {Pick(s)})]
<1>2. \A U \in SUBSET T : U # T => IsSum(Table(U), w, U)
  BY <1>1
<1> HIDE DEF Table
<1>3. ASSUME NEW u \in SUBSET T, u # T PROVE f[u] = Of(u)
  <2>1. IsSum(Table(u), w, u)
    BY <1>2, <1>3
  <2>2. Table(u)[u] = IF u = {} THEN 0 ELSE w[Pick(u)] + Table(u)[u \ {Pick(u)}]
    BY <2>1 DEF IsSum
  <2>3. CASE u # {}
    <3> DEFINE v == u \ {Pick(u)}
    <3>1. Pick(u) \in u
      BY <2>3 DEF Pick
    <3>2. v \in SUBSET u /\ v \in SUBSET T /\ v # T /\ IsFiniteSet(u)
      BY <3>1, FS_Subset
    <3>3. IsSum(Table(v), w, v)
      BY <1>2, <3>2
    <3> HIDE DEF v
    <3>4. Table(u)[v] = Table(v)[v]
      BY <2>1, <3>2, <3>3, SumUnique
    <3> QED
      BY <2>2, <2>3, <3>4 DEF v
  <2> QED
    BY <2>2, <2>3
<1>4. ASSUME NEW s \in SUBSET T
      PROVE  f[s] = IF s = {} THEN 0 ELSE w[Pick(s)] + f[s \ {Pick(s)}]
  <2>1. CASE s # {}
    <3>1. Pick(s) \in s
      BY <2>1 DEF Pick
    <3>2. s \ {Pick(s)} \in SUBSET T /\ s \ {Pick(s)} # T
      BY <3>1
    <3>3. f[s \ {Pick(s)}] = Of(s \ {Pick(s)})
      BY <1>3, <3>2
    <3> QED
      BY <2>1, <3>3
  <2> QED
    BY <2>1
<1> HIDE DEF Of
<1>5. IsSum(f, w, T)
  BY <1>4, Zenon DEF IsSum
<1> QED
  BY <1>1, <1>5

\* The sum over a set is a member's share and the sum over the others: here
\* for the member that is picked.
LEMMA SumPicked ==
  ASSUME NEW S, IsFiniteSet(S), NEW w
  PROVE  /\ SumOf(w, {}) = 0
         /\ S # {} => SumOf(w, S) = w[Pick(S)] + SumOf(w, S \ {Pick(S)})
<1> DEFINE Table(U) == CHOOSE g : IsSum(g, w, U)
<1>1. \A U \in SUBSET S : IsSum(Table(U), w, U)
  BY SumExists, FS_Subset
<1>2. \A U \in SUBSET S : SumOf(w, U) = Table(U)[U]
  BY DEF SumOf
<1> HIDE DEF Table
<1>3. SumOf(w, {}) = 0
  <2>1. IsSum(Table({}), w, {}) /\ SumOf(w, {}) = Table({})[{}]
    BY <1>1, <1>2
  <2> QED
    BY <2>1 DEF IsSum
<1>4. ASSUME S # {} PROVE SumOf(w, S) = w[Pick(S)] + SumOf(w, S \ {Pick(S)})
  <2> DEFINE v == S \ {Pick(S)}
  <2>1. v \in SUBSET S /\ S \in SUBSET S /\ v \in SUBSET v
    OBVIOUS
  <2>2. IsSum(Table(S), w, S) /\ IsSum(Table(v), w, v)
    BY <1>1, <2>1
  <2>3. Table(S)[S] = w[Pick(S)] + Table(S)[v]
    BY <1>4, <2>1, <2>2 DEF IsSum
  <2> HIDE DEF v
  <2>4. Table(S)[v] = Table(v)[v]
    BY <2>1, <2>2, SumUnique
  <2> QED
    BY <1>2, <2>1, <2>3, <2>4 DEF v
<1> QED
  BY <1>3, <1>4

\* A sum of natural numbers is one.
LEMMA SumType ==
  ASSUME NEW S, IsFiniteSet(S), NEW w \in [S -> Nat]
  PROVE  \A T \in SUBSET S : SumOf(w, T) \in Nat
<1> DEFINE C == {T \in SUBSET S : SumOf(w, T) \notin Nat}
<1> SUFFICES ASSUME C # {} PROVE FALSE
  OBVIOUS
<1>0. C \subseteq SUBSET S
  OBVIOUS
<1>1. PICK T \in C : \A U \in C : U \subseteq T => U = T
  <2> HIDE DEF C
  <2> QED
    BY <1>0, LeastSubset
<1>2. IsFiniteSet(T)
  BY FS_Subset
<1>3. T # {}
  <2>1. SumOf(w, {}) = 0
    BY FS_EmptySet, SumPicked
  <2>2. SumOf(w, {}) \in Nat
    BY <2>1
  <2> QED
    BY <2>2
<1>4. Pick(T) \in T
  BY <1>3 DEF Pick
<1>5. T \ {Pick(T)} \notin C
  BY <1>1, <1>4
<1>6. SumOf(w, T \ {Pick(T)}) \in Nat /\ w[Pick(T)] \in Nat
  BY <1>4, <1>5
<1>7. SumOf(w, T) = w[Pick(T)] + SumOf(w, T \ {Pick(T)})
  BY <1>2, <1>3, SumPicked
<1> QED
  BY <1>6, <1>7

\* The same for every member.
LEMMA SumWithout ==
  ASSUME NEW S, IsFiniteSet(S), NEW w \in [S -> Nat]
  PROVE  \A T \in SUBSET S : \A t \in T : SumOf(w, T) = w[t] + SumOf(w, T \ {t})
<1> DEFINE Splits(T) == \A t \in T : SumOf(w, T) = w[t] + SumOf(w, T \ {t})
           C == {T \in SUBSET S : ~Splits(T)}
<1> SUFFICES ASSUME C # {} PROVE FALSE
  OBVIOUS
<1>0. C \subseteq SUBSET S
  OBVIOUS
<1>1. PICK T \in C : \A U \in C : U \subseteq T => U = T
  <2> HIDE DEF C
  <2> QED
    BY <1>0, LeastSubset
<1>2. IsFiniteSet(T)
  BY FS_Subset
<1>3. \A U \in SUBSET T : U # T => Splits(U)
  BY <1>1
<1>4. PICK t \in T : SumOf(w, T) # w[t] + SumOf(w, T \ {t})
  BY <1>1
<1> HIDE DEF Splits
<1>5. Pick(T) \in T /\ SumOf(w, T) = w[Pick(T)] + SumOf(w, T \ {Pick(T)})
  BY <1>2, <1>4, SumPicked DEF Pick
<1>6. t # Pick(T)
  BY <1>4, <1>5
<1> DEFINE c == Pick(T)
           U == (T \ {c}) \ {t}
<1>7. SumOf(w, T \ {c}) = w[t] + SumOf(w, U)
  <2>1. Splits(T \ {c})
    BY <1>3, <1>5
  <2> QED
    BY <1>4, <1>6, <2>1 DEF Splits
<1>8. SumOf(w, T \ {t}) = w[c] + SumOf(w, U)
  <2>1. Splits(T \ {t}) /\ (T \ {t}) \ {c} = U
    BY <1>3, <1>4
  <2> QED
    BY <1>5, <1>6, <2>1 DEF Splits
<1>9. w[c] \in Nat /\ w[t] \in Nat /\ SumOf(w, U) \in Nat
  BY <1>4, <1>5, SumType
<1> HIDE DEF c, U
<1> QED
  BY <1>4, <1>5, <1>7, <1>8, <1>9 DEF c

\* A sum grows with its shares.
LEMMA SumMonotone ==
  ASSUME NEW S, IsFiniteSet(S), NEW w \in [S -> Nat], NEW v \in [S -> Nat]
  PROVE  \A T \in SUBSET S : (\A t \in T : w[t] <= v[t]) => SumOf(w, T) <= SumOf(v, T)
<1> DEFINE C == {T \in SUBSET S : (\A t \in T : w[t] <= v[t]) /\ ~(SumOf(w, T) <= SumOf(v, T))}
<1> SUFFICES ASSUME C # {} PROVE FALSE
  OBVIOUS
<1>0. C \subseteq SUBSET S
  OBVIOUS
<1>1. PICK T \in C : \A U \in C : U \subseteq T => U = T
  <2> HIDE DEF C
  <2> QED
    BY <1>0, LeastSubset
<1>2. T \in SUBSET S /\ \A t \in T : w[t] <= v[t]
  OBVIOUS
<1>3. T # {}
  BY <1>2, SumPicked, FS_EmptySet
<1>4. PICK t : t \in T
  BY <1>3
<1>5. T \ {t} \notin C
  BY <1>1, <1>4
<1>6. SumOf(w, T \ {t}) <= SumOf(v, T \ {t})
  BY <1>2, <1>5
<1>7. SumOf(w, T) = w[t] + SumOf(w, T \ {t}) /\ SumOf(v, T) = v[t] + SumOf(v, T \ {t})
  BY <1>2, <1>4, SumWithout
<1>8. /\ SumOf(w, T \ {t}) \in Nat /\ SumOf(v, T \ {t}) \in Nat
      /\ w[t] \in Nat /\ v[t] \in Nat /\ w[t] <= v[t]
  BY <1>2, <1>4, SumType
<1>9. SumOf(w, T) <= SumOf(v, T)
  BY <1>6, <1>7, <1>8
<1> QED
  BY <1>1, <1>9

\* And with its set.
LEMMA SumSubset ==
  ASSUME NEW S, IsFiniteSet(S), NEW w \in [S -> Nat], NEW B \in SUBSET S
  PROVE  SumOf(w, B) <= SumOf(w, S)
<1> DEFINE C == {T \in SUBSET S : B \subseteq T /\ ~(SumOf(w, B) <= SumOf(w, T))}
<1> SUFFICES ASSUME C # {} PROVE FALSE
  OBVIOUS
<1>0. C \subseteq SUBSET S
  OBVIOUS
<1>1. PICK T \in C : \A U \in C : U \subseteq T => U = T
  <2> HIDE DEF C
  <2> QED
    BY <1>0, LeastSubset
<1>2. T \in SUBSET S /\ B \subseteq T /\ ~(SumOf(w, B) <= SumOf(w, T))
  OBVIOUS
<1>3. SumOf(w, B) \in Nat /\ SumOf(w, T) \in Nat
  BY <1>2, SumType
<1>4. PICK t \in T : t \notin B
  BY <1>2, <1>3
<1>5. T \ {t} \notin C /\ B \subseteq T \ {t}
  BY <1>1, <1>2, <1>4
<1>6. SumOf(w, B) <= SumOf(w, T \ {t})
  BY <1>2, <1>5
<1>7. SumOf(w, T) = w[t] + SumOf(w, T \ {t}) /\ SumOf(w, T \ {t}) \in Nat /\ w[t] \in Nat
  BY <1>2, <1>4, SumWithout, SumType
<1> QED
  BY <1>2, <1>3, <1>6, <1>7

\* Changing one share changes the sum by as much.
LEMMA SumExcept ==
  ASSUME NEW S, IsFiniteSet(S), NEW w \in [S -> Nat], NEW v \in [S -> Nat], NEW t \in S,
         \A s \in S \ {t} : v[s] = w[s]
  PROVE  SumOf(v, S) = SumOf(w, S) - w[t] + v[t]
<1>1. SumOf(v, S \ {t}) <= SumOf(w, S \ {t}) /\ SumOf(w, S \ {t}) <= SumOf(v, S \ {t})
  <2>1. \A s \in S \ {t} : v[s] <= w[s] /\ w[s] <= v[s]
    OBVIOUS
  <2> QED
    BY <2>1, SumMonotone
<1>2. SumOf(v, S \ {t}) \in Nat /\ SumOf(w, S \ {t}) \in Nat /\ v[t] \in Nat /\ w[t] \in Nat
  BY SumType
<1>3. SumOf(w, S) = w[t] + SumOf(w, S \ {t}) /\ SumOf(v, S) = v[t] + SumOf(v, S \ {t})
  BY SumWithout
<1> QED
  BY <1>1, <1>2, <1>3

\* A sum depends on the shares of its members only.
LEMMA SumSame ==
  ASSUME NEW S, IsFiniteSet(S), NEW w, NEW v, \A s \in S : w[s] = v[s]
  PROVE  SumOf(w, S) = SumOf(v, S)
<1>1. ASSUME NEW s \in SUBSET S, s # {} PROVE w[Pick(s)] = v[Pick(s)]
  BY <1>1 DEF Pick
<1>2. \A g : IsSum(g, w, S) <=> IsSum(g, v, S)
  BY <1>1 DEF IsSum
<1>3. (CHOOSE g : IsSum(g, w, S)) = (CHOOSE g : IsSum(g, v, S))
  BY <1>2
<1> QED
  BY <1>3 DEF SumOf

\* SumFunction is the sum over the domain.
LEMMA SumFunctionIs ==
  ASSUME NEW f, IsFiniteSet(DOMAIN f)
  PROVE  SumFunction(f) = SumOf(f, DOMAIN f)
<1> DEFINE S == DOMAIN f
           IsSumOf(g) == g = [s \in SUBSET S |->
             IF s = {} THEN 0 ELSE f[CHOOSE x \in s : TRUE] + g[s \ {CHOOSE x \in s : TRUE}]]
<1>1. SumFunction(f) = (CHOOSE g : IsSumOf(g))[S]
  BY DEF SumFunction, SumFunctionOnSet, FoldFunctionOnSet, MapThenFoldSet
<1>2. \A h : IsSum(h, f, S) <=> IsSumOf(h)
  BY DEF IsSum, Pick
<1> HIDE DEF IsSumOf
<1>3. (CHOOSE h : IsSumOf(h)) = (CHOOSE h : IsSum(h, f, S))
  BY <1>2
<1> QED
  BY <1>1, <1>3 DEF SumOf

\* Nothing adds up to nothing.
LEMMA SumZero ==
  ASSUME NEW S, IsFiniteSet(S), NEW w \in [S -> Nat], \A s \in S : w[s] = 0
  PROVE  SumOf(w, S) = 0
<1> DEFINE C == {T \in SUBSET S : SumOf(w, T) # 0}
<1> SUFFICES ASSUME C # {} PROVE FALSE
  OBVIOUS
<1>0. C \subseteq SUBSET S
  OBVIOUS
<1>1. PICK T \in C : \A U \in C : U \subseteq T => U = T
  <2> HIDE DEF C
  <2> QED
    BY <1>0, LeastSubset
<1>2. T # {}
  BY <1>1, SumPicked, FS_EmptySet
<1>3. PICK t : t \in T
  BY <1>2
<1>4. T \ {t} \notin C
  BY <1>1, <1>3
<1>5. SumOf(w, T) = w[t] + SumOf(w, T \ {t}) /\ w[t] = 0 /\ SumOf(w, T \ {t}) = 0
  BY <1>0, <1>3, <1>4, SumWithout
<1> QED
  BY <1>1, <1>5

\* The sum over a set is the sum, over the values of k, of the sums over the
\* members with that value.
LEMMA SumFibres ==
  ASSUME NEW L, IsFiniteSet(L), NEW w \in [L -> Nat], NEW K, IsFiniteSet(K), NEW k \in [L -> K],
         NEW v \in [K -> Nat], \A x \in K : v[x] = SumOf(w, {l \in L : k[l] = x})
  PROVE  SumOf(v, K) = SumOf(w, L)
<1> DEFINE Fibre(T, x) == {l \in T : k[l] = x}
           V(T) == [x \in K |-> SumOf(w, Fibre(T, x))]
           C == {T \in SUBSET L : SumOf(V(T), K) # SumOf(w, T)}
<1>0. ASSUME NEW T \in SUBSET L PROVE V(T) \in [K -> Nat]
  <2>1. \A x \in K : SumOf(w, Fibre(T, x)) \in Nat
    BY SumType
  <2> QED
    BY <2>1
<1>1. C = {}
  <2> SUFFICES ASSUME C # {} PROVE FALSE
    OBVIOUS
  <2>0. C \subseteq SUBSET L
    OBVIOUS
  <2>1. PICK T \in C : \A U \in C : U \subseteq T => U = T
    <3> HIDE DEF C
    <3> QED
      BY <2>0, LeastSubset
  <2>2. T \in SUBSET L /\ SumOf(V(T), K) # SumOf(w, T)
    OBVIOUS
  <2>3. T # {}
    <3> SUFFICES ASSUME T = {} PROVE FALSE
      OBVIOUS
    <3>1. SumOf(w, {}) = 0
      BY SumPicked, FS_EmptySet
    <3>2. \A x \in K : V(T)[x] = 0
      <4>1. \A x \in K : Fibre(T, x) = {}
        OBVIOUS
      <4> QED
        BY <3>1, <4>1
    <3>3. V(T) \in [K -> Nat]
      BY <1>0
    <3> HIDE DEF V
    <3>4. SumOf(V(T), K) = 0
      BY <3>2, <3>3, SumZero
    <3> QED
      BY <2>2, <3>1, <3>4
  <2>4. PICK t : t \in T
    BY <2>3
  <2> DEFINE U == T \ {t}
  <2>5. U \in SUBSET L /\ U \notin C /\ t \in L /\ k[t] \in K
    BY <2>1, <2>4
  <2>6. SumOf(V(U), K) = SumOf(w, U)
    BY <2>5
  <2>7. \A x \in K \ {k[t]} : V(T)[x] = V(U)[x]
    <3>1. \A x \in K \ {k[t]} : Fibre(T, x) = Fibre(U, x)
      OBVIOUS
    <3> QED
      BY <3>1
  <2>8. V(T)[k[t]] = w[t] + V(U)[k[t]]
    <3> DEFINE F == Fibre(T, k[t])
    <3>1. F \in SUBSET L /\ t \in F /\ F \ {t} = Fibre(U, k[t])
      BY <2>4, <2>5
    <3>2. SumOf(w, F) = w[t] + SumOf(w, F \ {t})
      BY <3>1, SumWithout
    <3> QED
      BY <2>5, <3>1, <3>2
  <2>9. V(T) \in [K -> Nat] /\ V(U) \in [K -> Nat]
    BY <1>0, <2>5
  <2>10. SumOf(w, T) = w[t] + SumOf(w, U) /\ SumOf(w, U) \in Nat /\ w[t] \in Nat
    BY <2>2, <2>4, <2>5, SumWithout, SumType
  <2> HIDE DEF V, U
  <2>11. SumOf(V(T), K) = SumOf(V(U), K) - V(U)[k[t]] + V(T)[k[t]]
    BY <2>5, <2>7, <2>9, SumExcept
  <2>12. V(U)[k[t]] \in Nat /\ SumOf(V(U), K) \in Nat
    BY <2>5, <2>9, SumType
  <2> QED
    BY <2>2, <2>6, <2>8, <2>10, <2>11, <2>12
<1>2. SumOf(V(L), K) = SumOf(w, L)
  BY <1>1
<1>3. \A x \in K : v[x] = V(L)[x]
  OBVIOUS
<1> HIDE DEF V
<1> QED
  BY <1>2, <1>3, SumSame

\* A factor that all shares have.
LEMMA SumScaled ==
  ASSUME NEW S, IsFiniteSet(S), NEW w \in [S -> Nat], NEW v \in [S -> Nat], NEW c \in Nat,
         \A s \in S : v[s] = w[s] * c
  PROVE  SumOf(v, S) = SumOf(w, S) * c
<1> DEFINE C == {T \in SUBSET S : SumOf(v, T) # SumOf(w, T) * c}
<1> SUFFICES ASSUME C # {} PROVE FALSE
  OBVIOUS
<1>0. C \subseteq SUBSET S
  OBVIOUS
<1>1. PICK T \in C : \A U \in C : U \subseteq T => U = T
  <2> HIDE DEF C
  <2> QED
    BY <1>0, LeastSubset
<1>2. T # {}
  <2>1. SumOf(v, {}) = 0 /\ SumOf(w, {}) = 0
    BY SumPicked, FS_EmptySet
  <2>2. 0 * c = 0
    OBVIOUS
  <2>3. SumOf(v, T) # SumOf(w, T) * c
    OBVIOUS
  <2> QED
    BY <2>1, <2>2, <2>3
<1>3. PICK t : t \in T
  BY <1>2
<1>4. T \ {t} \notin C
  BY <1>1, <1>3
<1> DEFINE a == w[t]
           b == SumOf(w, T \ {t})
<1>5. /\ SumOf(w, T) = a + b /\ SumOf(v, T) = v[t] + SumOf(v, T \ {t})
      /\ v[t] = a * c /\ SumOf(v, T \ {t}) = b * c /\ a \in Nat /\ b \in Nat
  BY <1>0, <1>3, <1>4, SumWithout, SumType
<1> HIDE DEF a, b
<1>6. (a + b) * c = a * c + b * c
  BY <1>5
<1> QED
  BY <1>1, <1>5, <1>6

\* A cardinality counts one for every member.
LEMMA SumOnes ==
  ASSUME NEW S, IsFiniteSet(S), NEW w \in [S -> Nat], \A s \in S : w[s] = 1
  PROVE  SumOf(w, S) = Cardinality(S)
<1> DEFINE C == {T \in SUBSET S : SumOf(w, T) # Cardinality(T)}
<1> SUFFICES ASSUME C # {} PROVE FALSE
  OBVIOUS
<1>0. C \subseteq SUBSET S
  OBVIOUS
<1>1. PICK T \in C : \A U \in C : U \subseteq T => U = T
  <2> HIDE DEF C
  <2> QED
    BY <1>0, LeastSubset
<1>2. T # {}
  BY <1>1, SumPicked, FS_EmptySet
<1>3. PICK t : t \in T
  BY <1>2
<1>4. T \ {t} \notin C
  BY <1>1, <1>3
<1>5. IsFiniteSet(T)
  BY <1>0, FS_Subset
<1>6. Cardinality(T \ {t}) = Cardinality(T) - 1 /\ Cardinality(T) \in Nat
  BY <1>3, <1>5, FS_RemoveElement, FS_CardinalityType
<1>7. SumOf(w, T) = w[t] + SumOf(w, T \ {t}) /\ w[t] = 1 /\ SumOf(w, T \ {t}) = Cardinality(T \ {t})
  BY <1>0, <1>3, <1>4, SumWithout
<1> QED
  BY <1>1, <1>6, <1>7
=============================================================================

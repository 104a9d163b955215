----------------------------- MODULE SumTheorems ------------------------------
(***************************************************************************)
(* The sum of a function over a finite domain, as the community modules    *)
(* fold it: one element after the other, in an order nobody knows.  The    *)
(* order does not matter.  The inductions are on the least counterexample. *)
(***************************************************************************)
EXTENDS Integers, Functions, FiniteSetTheorems, WellFoundedInduction, TLAPS

\* Of some subsets of a finite set, one has none of the others below it.
LEMMA LeastSubset ==
  ASSUME NEW S, IsFiniteSet(S), NEW T, T \subseteq SUBSET S, T # {}
  PROVE  \E s \in T : \A t \in T : t \subseteq s => t = s
  <1>1. T \subseteq FiniteSubsetsOf(S)
    BY FS_Subset DEF FiniteSubsetsOf
  <1>2. PICK s \in T : \A t \in T : <<t, s>> \notin StrictSubsetOrdering(S)
    BY <1>1, FS_StrictSubsetOrderingWellFounded, WFMin
  <1> QED
    BY <1>2 DEF StrictSubsetOrdering

\* Of some natural numbers, one is the least.
LEMMA LeastNatural ==
  ASSUME NEW T, T \subseteq Nat, T # {}
  PROVE  \E n \in T : \A m \in T : n <= m
  <1> PICK k \in T : TRUE
    OBVIOUS
  <1> DEFINE below == {m \in T : m <= k}
             segments == {1..m : m \in below}
  <1>1. IsFiniteSet(1..k)
    BY FS_Interval
  <1>2. segments \subseteq SUBSET (1..k) /\ segments # {}
    OBVIOUS
  <1>3. PICK s \in segments : \A t \in segments : t \subseteq s => t = s
    <2>1. ASSUME NEW U, NEW V, U = segments, V = 1..k
          PROVE  \E u \in U : \A t \in U : t \subseteq u => t = u
      <3>1. IsFiniteSet(V) /\ U \subseteq SUBSET V /\ U # {}
        BY <1>1, <1>2, <2>1
      <3> HIDE DEF below, segments
      <3> QED
        BY <3>1, LeastSubset, SMT
    <2>2. \E u \in segments : \A t \in segments : t \subseteq u => t = u
      <3> HIDE DEF below, segments
      <3> QED
        BY <2>1
    <2> QED
      BY <2>2
  <1>4. PICK n \in below : s = 1..n
    BY <1>3
  <1>5. ASSUME NEW m \in T, m < n PROVE FALSE
    <2>1. m \in below /\ 1..m \subseteq 1..n
      BY <1>5
    <2>2. 1..m = 1..n
      BY <1>3, <1>4, <2>1
    <2> QED
      BY <1>5, <2>2
  <1> QED
    BY <1>4, <1>5

\* Of finitely many numbers, one is the greatest.
LEMMA GreatestNatural ==
  ASSUME NEW T, T \subseteq Nat, T # {}, IsFiniteSet(T)
  PROVE  \E n \in T : \A m \in T : m <= n
  <1> DEFINE over(n) == {m \in T : n < m}
             tops == {over(n) : n \in T}
  <1>1. tops \subseteq SUBSET T /\ tops # {}
    OBVIOUS
  <1>2. \E s \in tops : \A t \in tops : t \subseteq s => t = s
    <2>1. ASSUME NEW U, NEW V, U = tops, V = T
          PROVE  \E s \in U : \A t \in U : t \subseteq s => t = s
      <3>1. IsFiniteSet(V) /\ U \subseteq SUBSET V /\ U # {}
        BY <1>1, <2>1
      <3> HIDE DEF tops, over
      <3> QED
        BY <3>1, LeastSubset, SMT
    <2> HIDE DEF tops, over
    <2> QED
      BY <2>1
  <1>3. PICK n \in T : \A t \in tops : t \subseteq over(n) => t = over(n)
    BY <1>2
  <1>4. ASSUME NEW m \in T, ~(m <= n) PROVE FALSE
    <2>1. n < m /\ m \in Nat /\ n \in Nat
      BY <1>4
    <2>2. over(m) \subseteq over(n)
      <3>1. \A k \in T : m < k => n < k
        BY <2>1
      <3> QED
        BY <3>1
    <2>3. m \in over(n) /\ m \notin over(m)
      BY <2>1
    <2> QED
      BY <1>3, <2>2, <2>3
  <1> QED
    BY <1>4

Chosen(s) == CHOOSE x \in s : TRUE

\* it adds up f over the subsets of S, as the fold does.
Adds(it, f, S) ==
  it = [s \in SUBSET S |-> IF s = {} THEN 0 ELSE f[Chosen(s)] + it[s \ {Chosen(s)}]]

\* There is such a function: it can be had for ever larger subsets.
LEMMA SumExists ==
  ASSUME NEW f, NEW S, IsFiniteSet(S)
  PROVE  \E it : Adds(it, f, S)
  <1> DEFINE Step(it, s) == IF s = {} THEN 0 ELSE f[Chosen(s)] + it[s \ {Chosen(s)}]
             UpTo(it, n) == \A s \in SUBSET S : Cardinality(s) <= n => it[s] = Step(it, s)
             bad == {n \in Nat : ~\E it : UpTo(it, n)}
  <1>1. \A s \in SUBSET S : IsFiniteSet(s) /\ Cardinality(s) \in Nat
    BY FS_Subset, FS_CardinalityType
  <1>2. \A s \in SUBSET S : s # {} =>
          Chosen(s) \in s /\ Cardinality(s \ {Chosen(s)}) = Cardinality(s) - 1
    BY <1>1, FS_RemoveElement DEF Chosen
  <1>3. ASSUME bad # {} PROVE FALSE
    <2>1. PICK n \in bad : \A m \in bad : n <= m
      <3> HIDE DEF bad
      <3>1. bad \subseteq Nat
        BY DEF bad
      <3> QED
        BY <1>3, <3>1, LeastNatural
    <2>2. CASE n = 0
      <3> DEFINE it == [s \in SUBSET S |-> 0]
      <3>1. \A s \in SUBSET S : Cardinality(s) <= 0 => s = {}
        BY <1>1, FS_EmptySet
      <3>2. UpTo(it, 0)
        BY <3>1
      <3> QED
        BY <2>1, <2>2, <3>2
    <2>3. CASE n # 0
      <3>1. n - 1 \in Nat /\ n - 1 \notin bad
        <4>1. n \in Nat /\ n - 1 \in Nat /\ ~(n <= n - 1)
          BY <2>3
        <4> HIDE DEF bad
        <4> QED
          BY <2>1, <4>1
      <3>2. PICK old : UpTo(old, n - 1)
        BY <3>1
      <3> DEFINE it == [s \in SUBSET S |-> IF Cardinality(s) <= n - 1 THEN old[s] ELSE Step(old, s)]
      <3>3. ASSUME NEW s \in SUBSET S, Cardinality(s) <= n PROVE it[s] = Step(it, s)
        <4>1. CASE s = {}
          <5>1. Cardinality(s) <= n - 1
            BY <3>1, <4>1, FS_EmptySet
          <5> QED
            BY <3>2, <4>1, <5>1
        <4>2. CASE s # {}
          <5>1. /\ s \ {Chosen(s)} \in SUBSET S
                /\ Cardinality(s \ {Chosen(s)}) <= n - 1
            BY <1>1, <1>2, <3>1, <3>3, <4>2
          <5>2. it[s \ {Chosen(s)}] = old[s \ {Chosen(s)}]
            BY <5>1
          <5>3. it[s] = Step(old, s)
            BY <3>2
          <5> QED
            BY <4>2, <5>2, <5>3
        <4> QED
          BY <4>1, <4>2
      <3>4. UpTo(it, n)
        BY <3>3
      <3> QED
        BY <2>1, <3>4
    <2> QED
      BY <2>2, <2>3
  <1>4. PICK it : UpTo(it, Cardinality(S))
    BY <1>1, <1>3
  <1>5. \A s \in SUBSET S : Cardinality(s) <= Cardinality(S)
    BY FS_Subset
  <1> DEFINE sum == [s \in SUBSET S |-> it[s]]
  <1>6. Adds(sum, f, S)
    BY <1>4, <1>5 DEF Adds
  <1> QED
    BY <1>6

\* The sum of the community modules is such a function's value.
LEMMA SumUnfolds ==
  ASSUME NEW f, NEW S, IsFiniteSet(S)
  PROVE  \E it : Adds(it, f, S) /\ SumFunctionOnSet(f, S) = it[S]
  <1> DEFINE Body(it) == [s \in SUBSET S |->
                            IF s = {} THEN 0
                            ELSE f[CHOOSE x \in s : TRUE] + it[s \ {CHOOSE x \in s : TRUE}]]
             iter == CHOOSE it : it = Body(it)
  <1>1. SumFunctionOnSet(f, S) = iter[S]
    BY DEF SumFunctionOnSet, FoldFunctionOnSet, MapThenFoldSet
  <1>2. \A it : Adds(it, f, S) <=> it = Body(it)
    BY DEF Adds, Chosen
  <1>3. \E it : it = Body(it)
    <2>1. PICK it : Adds(it, f, S)
      BY SumExists
    <2> HIDE DEF Body
    <2> QED
      BY <1>2, <2>1
  <1>4. iter = Body(iter)
    <2> HIDE DEF Body
    <2> QED
      BY <1>3
  <1>5. Adds(iter, f, S)
    BY <1>2, <1>4
  <1> QED
    BY <1>1, <1>5

\* The sums over a set agree where the functions do.
LEMMA SumsAgree ==
  ASSUME NEW f, NEW it, NEW S, IsFiniteSet(S), Adds(it, f, S),
         NEW g, NEW jt, NEW T, Adds(jt, g, T),
         NEW R, R \subseteq S, R \subseteq T, \A x \in R : f[x] = g[x]
  PROVE  it[R] = jt[R]
  <1> DEFINE bad == {s \in SUBSET R : it[s] # jt[s]}
  <1>1. IsFiniteSet(R)
    BY FS_Subset
  <1>2. ASSUME bad # {} PROVE FALSE
    <2>1. bad \subseteq SUBSET R
      OBVIOUS
    <2>2. PICK s \in bad : \A t \in bad : t \subseteq s => t = s
      <3> HIDE DEF bad
      <3> QED
        BY <1>1, <1>2, <2>1, LeastSubset
    <2>3. s # {}
      BY DEF Adds
    <2>4. Chosen(s) \in s
      BY <2>3 DEF Chosen
    <2>5. s \ {Chosen(s)} \subseteq s /\ s \ {Chosen(s)} # s /\ s \ {Chosen(s)} \in SUBSET R
      BY <2>4
    <2>6. it[s \ {Chosen(s)}] = jt[s \ {Chosen(s)}]
      BY <2>2, <2>5
    <2>7. /\ it[s] = f[Chosen(s)] + it[s \ {Chosen(s)}]
          /\ jt[s] = g[Chosen(s)] + jt[s \ {Chosen(s)}]
      BY <2>3 DEF Adds
    <2> QED
      BY <2>4, <2>6, <2>7
  <1> QED
    BY <1>2

\* Whichever element is taken first, the sum is the same.
LEMMA AnyOrder ==
  ASSUME NEW f, NEW it, NEW S, IsFiniteSet(S), Adds(it, f, S), \A x \in S : f[x] \in Int
  PROVE  \A s \in SUBSET S : it[s] \in Int /\ \A y \in s : it[s] = f[y] + it[s \ {y}]
  <1> DEFINE Good(s) == it[s] \in Int /\ \A y \in s : it[s] = f[y] + it[s \ {y}]
             bad == {s \in SUBSET S : ~Good(s)}
  <1>1. ASSUME bad # {} PROVE FALSE
    <2>1. bad \subseteq SUBSET S
      OBVIOUS
    <2>2. PICK s \in bad : \A t \in bad : t \subseteq s => t = s
      <3> HIDE DEF bad
      <3> QED
        BY <1>1, <2>1, LeastSubset
    <2> DEFINE x == Chosen(s)
    <2>3. s # {}
      BY DEF Adds
    <2>4. x \in s
      BY <2>3 DEF Chosen
    <2> HIDE DEF x
    <2>5. \A y \in s : s \ {y} \in SUBSET S /\ Good(s \ {y})
      <3>1. \A y \in s : s \ {y} \subseteq s /\ s \ {y} # s /\ s \ {y} \in SUBSET S
        OBVIOUS
      <3> HIDE DEF Good
      <3> QED
        BY <2>2, <3>1
    <2>6. it[s] = f[x] + it[s \ {x}]
      BY <2>3 DEF Adds, x
    <2>7. ASSUME NEW y \in s, y # x PROVE it[s] = f[y] + it[s \ {y}]
      <3>1. y \in s \ {x} /\ x \in s \ {y}
        BY <2>4, <2>7
      <3>2. (s \ {x}) \ {y} = (s \ {y}) \ {x}
        OBVIOUS
      <3> DEFINE rest == it[(s \ {x}) \ {y}]
      <3>3. it[s \ {x}] = f[y] + rest
        BY <2>4, <2>5, <3>1
      <3>4. it[s \ {y}] = f[x] + rest
        <4>1. Good(s \ {y})
          BY <2>5
        <4>2. it[s \ {y}] = f[x] + it[(s \ {y}) \ {x}]
          BY <3>1, <4>1
        <4> QED
          BY <3>2, <4>2
      <3>5. f[x] \in Int /\ f[y] \in Int
        BY <2>4
      <3>6. rest \in Int
        <4>1. (s \ {x}) \ {y} \subseteq s /\ (s \ {x}) \ {y} # s /\ (s \ {x}) \ {y} \in SUBSET S
          BY <2>4
        <4>2. Good((s \ {x}) \ {y})
          <5> HIDE DEF Good
          <5> QED
            BY <2>2, <4>1
        <4> QED
          BY <4>2
      <3> HIDE DEF rest
      <3> QED
        BY <2>6, <3>3, <3>4, <3>5, <3>6
    <2>8. it[s] \in Int
      BY <2>4, <2>5, <2>6
    <2> QED
      BY <2>2, <2>6, <2>7, <2>8
  <1> QED
    BY <1>1

\* The sum over nothing; a sum is any of its values and the sum of the others.
LEMMA SumOfNone ==
  ASSUME NEW f
  PROVE  SumFunctionOnSet(f, {}) = 0
  <1>1. IsFiniteSet({})
    BY FS_EmptySet
  <1>2. PICK it : Adds(it, f, {}) /\ SumFunctionOnSet(f, {}) = it[{}]
    BY <1>1, SumUnfolds
  <1>3. it[{}] = 0
    BY <1>2 DEF Adds
  <1> QED
    BY <1>2, <1>3

LEMMA SumWithout ==
  ASSUME NEW f, NEW S, IsFiniteSet(S), \A x \in S : f[x] \in Int, NEW y \in S
  PROVE  SumFunctionOnSet(f, S) = f[y] + SumFunctionOnSet(f, S \ {y})
  <1>1. PICK it : Adds(it, f, S) /\ SumFunctionOnSet(f, S) = it[S]
    BY SumUnfolds
  <1>2. IsFiniteSet(S \ {y})
    BY FS_Subset
  <1>3. PICK jt : Adds(jt, f, S \ {y}) /\ SumFunctionOnSet(f, S \ {y}) = jt[S \ {y}]
    BY <1>2, SumUnfolds
  <1>4. it[S \ {y}] = jt[S \ {y}]
    BY <1>1, <1>3, SumsAgree
  <1>5. \A s \in SUBSET S : \A x \in s : it[s] = f[x] + it[s \ {x}]
    <2>1. Adds(it, f, S)
      BY <1>1
    <2>2. \A s \in SUBSET S : it[s] \in Int /\ \A x \in s : it[s] = f[x] + it[s \ {x}]
      BY <2>1, AnyOrder, SMTT(30)
    <2> QED
      BY <2>2
  <1>6. it[S] = f[y] + it[S \ {y}]
    BY <1>5
  <1> QED
    BY <1>1, <1>3, <1>4, <1>6

LEMMA SumType ==
  ASSUME NEW f, NEW S, IsFiniteSet(S), \A x \in S : f[x] \in Int
  PROVE  SumFunctionOnSet(f, S) \in Int
  <1>1. PICK it : Adds(it, f, S) /\ SumFunctionOnSet(f, S) = it[S]
    BY SumUnfolds
  <1> QED
    BY <1>1, AnyOrder

\* A sum depends on the values alone.
LEMMA SumOfSame ==
  ASSUME NEW f, NEW g, NEW S, IsFiniteSet(S), \A x \in S : f[x] = g[x]
  PROVE  SumFunctionOnSet(f, S) = SumFunctionOnSet(g, S)
  <1>1. PICK it : Adds(it, f, S) /\ SumFunctionOnSet(f, S) = it[S]
    BY SumUnfolds
  <1>2. PICK jt : Adds(jt, g, S) /\ SumFunctionOnSet(g, S) = jt[S]
    BY SumUnfolds
  <1> QED
    BY <1>1, <1>2, SumsAgree

\* Natural numbers add up to one that no part of them exceeds.
LEMMA SumOfNaturals ==
  ASSUME NEW f, NEW S, IsFiniteSet(S), \A x \in S : f[x] \in Nat
  PROVE  /\ SumFunctionOnSet(f, S) \in Nat
         /\ \A R \in SUBSET S : SumFunctionOnSet(f, R) <= SumFunctionOnSet(f, S)
  <1> DEFINE Total(s) == SumFunctionOnSet(f, s)
  <1>1. \A s \in SUBSET S : IsFiniteSet(s) /\ Total(s) \in Int
    BY FS_Subset, SumType
  <1>2. \A s \in SUBSET S : \A x \in s : Total(s) = f[x] + Total(s \ {x})
    <2> TAKE s \in SUBSET S
    <2> TAKE x \in s
    <2>1. \A y \in s : f[y] \in Int
      OBVIOUS
    <2> QED
      BY <1>1, <2>1, SumWithout
  <1>3. Total({}) = 0
    BY SumOfNone
  <1> HIDE DEF Total
  <1> DEFINE bad == {s \in SUBSET S : ~(Total(s) \in Nat /\ \A R \in SUBSET s : Total(R) <= Total(s))}
  <1>4. ASSUME bad # {} PROVE FALSE
    <2>1. bad \subseteq SUBSET S
      OBVIOUS
    <2>2. PICK s \in bad : \A t \in bad : t \subseteq s => t = s
      <3> HIDE DEF bad
      <3> QED
        BY <1>4, <2>1, LeastSubset
    <2>3. s # {}
      BY <1>3
    <2>4. \A x \in s : /\ Total(s) = f[x] + Total(s \ {x}) /\ f[x] \in Nat
                       /\ Total(s \ {x}) \in Nat
                       /\ \A R \in SUBSET (s \ {x}) : Total(R) <= Total(s \ {x})
      <3> TAKE x \in s
      <3>1. s \ {x} \subseteq s /\ s \ {x} # s /\ s \ {x} \in SUBSET S
        OBVIOUS
      <3>2. s \ {x} \notin bad
        BY <2>2, <3>1
      <3> QED
        BY <1>2, <3>1, <3>2
    <2>5. Total(s) \in Nat
      <3>1. PICK x \in s : TRUE
        BY <2>3
      <3>2. Total(s) = f[x] + Total(s \ {x}) /\ f[x] \in Nat /\ Total(s \ {x}) \in Nat
        BY <2>4
      <3> QED
        BY <3>2
    <2>6. ASSUME NEW R \in SUBSET s, R # s PROVE Total(R) <= Total(s)
      <3>1. PICK x \in s : R \subseteq s \ {x}
        BY <2>6
      <3>2. Total(R) <= Total(s \ {x}) /\ Total(s) = f[x] + Total(s \ {x})
            /\ f[x] \in Nat /\ Total(s \ {x}) \in Nat /\ Total(R) \in Int
        BY <1>1, <2>4, <3>1
      <3> QED
        BY <3>2
    <2>7. Total(s) <= Total(s)
      BY <2>5
    <2> QED
      BY <2>2, <2>5, <2>6, <2>7
  <1>5. Total(S) \in Nat /\ \A R \in SUBSET S : Total(R) <= Total(S)
    BY <1>4
  <1> QED
    BY <1>5 DEF Total

\* What holds of no elements, and of some if it does of all but one of them, holds of all.
LEMMA SubsetInduction ==
  ASSUME NEW S, IsFiniteSet(S), NEW Good, {} \in Good,
         \A T \in SUBSET S : \A x \in T : T \ {x} \in Good => T \in Good
  PROVE  S \in Good
  <1> DEFINE bad == {T \in SUBSET S : T \notin Good}
  <1>1. ASSUME bad # {} PROVE FALSE
    <2>1. bad \subseteq SUBSET S
      OBVIOUS
    <2>2. PICK T \in bad : \A R \in bad : R \subseteq T => R = T
      <3> HIDE DEF bad
      <3> QED
        BY <1>1, <2>1, LeastSubset
    <2>3. PICK x \in T : TRUE
      OBVIOUS
    <2>4. T \ {x} \subseteq T /\ T \ {x} # T /\ T \ {x} \in SUBSET S
      BY <2>3
    <2>5. T \ {x} \in Good
      BY <2>2, <2>4
    <2> QED
      BY <2>3, <2>5
  <1> QED
    BY <1>1

\* Numbers that are all 0 add up to 0.
LEMMA SumOfZeros ==
  ASSUME NEW f, NEW S, IsFiniteSet(S), \A x \in S : f[x] = 0
  PROVE  SumFunctionOnSet(f, S) = 0
  <1> DEFINE Good == {T \in SUBSET S : SumFunctionOnSet(f, T) = 0}
  <1>1. {} \in Good
    BY SumOfNone
  <1>2. ASSUME NEW T \in SUBSET S, NEW x \in T, T \ {x} \in Good PROVE T \in Good
    <2>1. IsFiniteSet(T) /\ (\A y \in T : f[y] \in Int) /\ f[x] = 0
      BY FS_Subset
    <2>2. SumFunctionOnSet(f, T) = f[x] + SumFunctionOnSet(f, T \ {x})
      BY <2>1, SumWithout
    <2> QED
      BY <1>2, <2>1, <2>2
  <1> HIDE DEF Good
  <1>3. S \in Good
    BY <1>1, <1>2, SubsetInduction
  <1> QED
    BY <1>3 DEF Good

\* Sums of two functions, and of multiples of one.
LEMMA SumPlus ==
  ASSUME NEW f, NEW g, NEW h, NEW S, IsFiniteSet(S),
         \A x \in S : f[x] \in Int /\ g[x] \in Int /\ h[x] = f[x] + g[x]
  PROVE  SumFunctionOnSet(h, S) = SumFunctionOnSet(f, S) + SumFunctionOnSet(g, S)
  <1> DEFINE Good == {T \in SUBSET S :
               SumFunctionOnSet(h, T) = SumFunctionOnSet(f, T) + SumFunctionOnSet(g, T)}
  <1>1. {} \in Good
    BY SumOfNone
  <1>2. ASSUME NEW T \in SUBSET S, NEW x \in T, T \ {x} \in Good PROVE T \in Good
    <2>1. /\ IsFiniteSet(T) /\ IsFiniteSet(T \ {x}) /\ f[x] \in Int /\ g[x] \in Int
          /\ h[x] = f[x] + g[x]
      BY FS_Subset
    <2>2. SumFunctionOnSet(f, T) = f[x] + SumFunctionOnSet(f, T \ {x})
      BY <2>1, SumWithout
    <2>3. SumFunctionOnSet(g, T) = g[x] + SumFunctionOnSet(g, T \ {x})
      BY <2>1, SumWithout
    <2>4. SumFunctionOnSet(h, T) = h[x] + SumFunctionOnSet(h, T \ {x})
      <3>1. \A y \in T : h[y] \in Int
        OBVIOUS
      <3> QED
        BY <2>1, <3>1, SumWithout
    <2>5. SumFunctionOnSet(f, T \ {x}) \in Int /\ SumFunctionOnSet(g, T \ {x}) \in Int
      BY <2>1, SumType
    <2>6. SumFunctionOnSet(h, T \ {x})
            = SumFunctionOnSet(f, T \ {x}) + SumFunctionOnSet(g, T \ {x})
      BY <1>2
    <2> QED
      BY <2>1, <2>2, <2>3, <2>4, <2>5, <2>6
  <1> HIDE DEF Good
  <1>3. S \in Good
    BY <1>1, <1>2, SubsetInduction
  <1> QED
    BY <1>3 DEF Good

LEMMA SumTimes ==
  ASSUME NEW f, NEW h, NEW k \in Int, NEW S, IsFiniteSet(S),
         \A x \in S : f[x] \in Int /\ h[x] = f[x] * k
  PROVE  SumFunctionOnSet(h, S) = SumFunctionOnSet(f, S) * k
  <1> DEFINE Good == {T \in SUBSET S : SumFunctionOnSet(h, T) = SumFunctionOnSet(f, T) * k}
  <1>1. {} \in Good
    BY SumOfNone
  <1>2. ASSUME NEW T \in SUBSET S, NEW x \in T, T \ {x} \in Good PROVE T \in Good
    <2>1. IsFiniteSet(T) /\ IsFiniteSet(T \ {x}) /\ f[x] \in Int /\ h[x] = f[x] * k
      BY FS_Subset
    <2>2. SumFunctionOnSet(f, T) = f[x] + SumFunctionOnSet(f, T \ {x})
      BY <2>1, SumWithout
    <2>3. SumFunctionOnSet(h, T) = h[x] + SumFunctionOnSet(h, T \ {x})
      <3>1. \A y \in T : h[y] \in Int
        OBVIOUS
      <3> QED
        BY <2>1, <3>1, SumWithout
    <2>4. SumFunctionOnSet(f, T \ {x}) \in Int
      BY <2>1, SumType
    <2>5. SumFunctionOnSet(h, T \ {x}) = SumFunctionOnSet(f, T \ {x}) * k
      BY <1>2
    <2>6. \A i, j \in Int : (i + j) * k = i * k + j * k
      OBVIOUS
    <2> QED
      BY <2>1, <2>2, <2>3, <2>4, <2>5, <2>6
  <1> HIDE DEF Good
  <1>3. S \in Good
    BY <1>1, <1>2, SubsetInduction
  <1> QED
    BY <1>3 DEF Good

\* Elements whose value is 0 may be left out.
LEMMA SumOfPart ==
  ASSUME NEW f, NEW S, IsFiniteSet(S), NEW R, R \subseteq S, \A x \in S : f[x] \in Int,
         \A x \in S \ R : f[x] = 0
  PROVE  SumFunctionOnSet(f, S) = SumFunctionOnSet(f, R)
  <1> DEFINE Good == {T \in SUBSET (S \ R) :
                        SumFunctionOnSet(f, R \cup T) = SumFunctionOnSet(f, R)}
  <1>0. IsFiniteSet(R) /\ IsFiniteSet(S \ R)
    BY FS_Subset
  <1>1. {} \in Good
    <2>1. R \cup {} = R
      OBVIOUS
    <2> QED
      BY <2>1
  <1>2. ASSUME NEW T \in SUBSET (S \ R), NEW x \in T, T \ {x} \in Good PROVE T \in Good
    <2>1. R \cup T \subseteq S /\ x \in R \cup T /\ (R \cup T) \ {x} = R \cup (T \ {x})
      BY <1>2
    <2>2. IsFiniteSet(R \cup T) /\ (\A y \in R \cup T : f[y] \in Int) /\ f[x] = 0
      BY <2>1, FS_Subset
    <2>3. SumFunctionOnSet(f, R \cup T) = f[x] + SumFunctionOnSet(f, (R \cup T) \ {x})
      BY <2>1, <2>2, SumWithout
    <2>4. SumFunctionOnSet(f, R \cup (T \ {x})) = SumFunctionOnSet(f, R)
      BY <1>2
    <2>5. SumFunctionOnSet(f, R) \in Int
      BY <1>0, SumType
    <2>6. SumFunctionOnSet(f, R \cup T) = SumFunctionOnSet(f, R)
      <3>1. SumFunctionOnSet(f, R \cup T) = 0 + SumFunctionOnSet(f, R)
        BY <2>1, <2>2, <2>3, <2>4
      <3> QED
        BY <2>5, <3>1
    <2> QED
      BY <2>6
  <1> HIDE DEF Good
  <1>3. S \ R \in Good
    BY <1>0, <1>1, <1>2, SubsetInduction
  <1>4. R \cup (S \ R) = S
    OBVIOUS
  <1> QED
    BY <1>3, <1>4 DEF Good

\* The sum over one element, and over two.
LEMMA SumOfOne ==
  ASSUME NEW f, NEW x, f[x] \in Int
  PROVE  SumFunctionOnSet(f, {x}) = f[x]
  <1>1. IsFiniteSet({x}) /\ {x} \ {x} = {}
    BY FS_Singleton
  <1>2. SumFunctionOnSet(f, {x}) = f[x] + SumFunctionOnSet(f, {x} \ {x})
    BY <1>1, SumWithout
  <1> QED
    BY <1>1, <1>2, SumOfNone

LEMMA SumOfTwo ==
  ASSUME NEW f, NEW x, NEW y, x # y, f[x] \in Int, f[y] \in Int
  PROVE  SumFunctionOnSet(f, {x, y}) = f[x] + f[y]
  <1>1. IsFiniteSet({x, y}) /\ {x, y} \ {x} = {y}
    <2>1. IsFiniteSet({y}) /\ {x, y} = {y} \cup {x}
      BY FS_Singleton
    <2> QED
      BY <2>1, FS_AddElement
  <1>2. SumFunctionOnSet(f, {x, y}) = f[x] + SumFunctionOnSet(f, {x, y} \ {x})
    BY <1>1, SumWithout
  <1> QED
    BY <1>1, <1>2, SumOfOne

\* SumWithout, of all subsets of a set.
NumbersOn(f, S) == \A x \in S : f[x] \in Int
SumStepsOn(f, S) ==
  \A T \in SUBSET S : \A x \in T :
    SumFunctionOnSet(f, T) = f[x] + SumFunctionOnSet(f, T \ {x})

LEMMA SumStep ==
  ASSUME NEW f, NEW S, IsFiniteSet(S), NumbersOn(f, S)
  PROVE  SumStepsOn(f, S)
  <1> SUFFICES ASSUME NEW T \in SUBSET S, NEW x \in T
               PROVE  SumFunctionOnSet(f, T) = f[x] + SumFunctionOnSet(f, T \ {x})
    BY DEF SumStepsOn
  <1>1. IsFiniteSet(T) /\ \A y \in T : f[y] \in Int
    BY FS_Subset DEF NumbersOn
  <1> QED
    BY <1>1, SumWithout

\* f gives, for each of A, the sum of its row over R.
RowSums(f, row, A, R) == \A a \in A : f[a] = SumFunctionOnSet(row[a], R)

\* A table of numbers has one sum, row by row or column by column.
LEMMA SumsSwap ==
  ASSUME NEW A, IsFiniteSet(A), NEW R, IsFiniteSet(R), NEW row \in [A -> [R -> Int]],
         NEW column \in [R -> [A -> Int]], \A a \in A : \A r \in R : column[r][a] = row[a][r],
         NEW f, RowSums(f, row, A, R), NEW g, RowSums(g, column, R, A)
  PROVE  SumFunctionOnSet(f, A) = SumFunctionOnSet(g, R)
  <1>1. \A a \in A : \A r \in R : row[a][r] \in Int /\ column[r][a] \in Int
    OBVIOUS
  <1>2. \A a \in A : f[a] \in Int
    BY <1>1, SumType DEF RowSums
  <1>3. SumStepsOn(f, A)
    <2>1. NumbersOn(f, A)
      BY <1>2 DEF NumbersOn
    <2> QED
      BY <2>1, SumStep
  <1> DEFINE Part(T) == [r \in R |-> SumFunctionOnSet(column[r], T)]
             Good == {T \in SUBSET A : SumFunctionOnSet(f, T) = SumFunctionOnSet(Part(T), R)}
  <1>4. {} \in Good
    <2>1. \A r \in R : Part({})[r] = 0
      BY SumOfNone
    <2>2. SumFunctionOnSet(Part({}), R) = 0
      <3> HIDE DEF Part
      <3> QED
        BY <2>1, SumOfZeros
    <2>3. SumFunctionOnSet(f, {}) = 0
      BY SumOfNone
    <2> QED
      BY <2>2, <2>3
  <1>5. ASSUME NEW T \in SUBSET A, NEW x \in T, T \ {x} \in Good PROVE T \in Good
    <2>1. IsFiniteSet(T) /\ IsFiniteSet(T \ {x}) /\ T \subseteq A /\ x \in A
      BY FS_Subset
    <2>3. SumFunctionOnSet(f, T) = f[x] + SumFunctionOnSet(f, T \ {x})
      BY <1>3 DEF SumStepsOn
    <2>4. \A r \in R : /\ row[x][r] \in Int /\ Part(T \ {x})[r] \in Int
                       /\ Part(T)[r] = row[x][r] + Part(T \ {x})[r]
      <3> TAKE r \in R
      <3>1. \A a \in T : column[r][a] \in Int
        BY <1>1, <2>1
      <3>2. column[r][x] = row[x][r] /\ row[x][r] \in Int
        BY <1>1, <2>1
      <3>3. /\ Part(T)[r] = SumFunctionOnSet(column[r], T)
            /\ Part(T \ {x})[r] = SumFunctionOnSet(column[r], T \ {x})
        OBVIOUS
      <3> HIDE DEF Part
      <3>4. SumFunctionOnSet(column[r], T) = column[r][x] + SumFunctionOnSet(column[r], T \ {x})
        BY <2>1, <3>1, SumWithout
      <3>5. SumFunctionOnSet(column[r], T \ {x}) \in Int
        BY <2>1, <3>1, SumType
      <3> QED
        BY <3>2, <3>3, <3>4, <3>5
    <2>5. f[x] = SumFunctionOnSet(row[x], R)
      BY <2>1 DEF RowSums
    <2>6. SumFunctionOnSet(f, T \ {x}) = SumFunctionOnSet(Part(T \ {x}), R)
      BY <1>5
    <2>7. SumFunctionOnSet(Part(T), R)
            = SumFunctionOnSet(row[x], R) + SumFunctionOnSet(Part(T \ {x}), R)
      <3> HIDE DEF Part, Good
      <3>1. ASSUME NEW before, NEW after, NEW new, before = Part(T \ {x}), after = Part(T),
                   new = row[x]
            PROVE  SumFunctionOnSet(after, R)
                     = SumFunctionOnSet(new, R) + SumFunctionOnSet(before, R)
        <4>1. \A r \in R : new[r] \in Int /\ before[r] \in Int /\ after[r] = new[r] + before[r]
          BY <2>4, <3>1
        <4> QED
          BY <4>1, SumPlus, SMT
      <3> QED
        BY <3>1
    <2>8. SumFunctionOnSet(f, T) = SumFunctionOnSet(Part(T), R)
      BY <2>3, <2>5, <2>6, <2>7
    <2> QED
      BY <2>8
  <1>6. A \in Good
    <2> HIDE DEF Good
    <2> QED
      BY <1>4, <1>5, SubsetInduction
  <1>7. SumFunctionOnSet(f, A) = SumFunctionOnSet(Part(A), R)
    BY <1>6
  <1>8. \A r \in R : Part(A)[r] = g[r]
    BY DEF RowSums
  <1> HIDE DEF Part
  <1>9. SumFunctionOnSet(Part(A), R) = SumFunctionOnSet(g, R)
    BY <1>8, SumOfSame
  <1> QED
    BY <1>7, <1>9

\* What a finite set is mapped to is finite.
LEMMA FiniteImage ==
  ASSUME NEW S, IsFiniteSet(S), NEW f
  PROVE  IsFiniteSet({f[x] : x \in S})
  <1> DEFINE T == {f[x] : x \in S}
             g == [x \in S |-> f[x]]
  <1>1. g \in Surjection(S, T)
    BY DEF Surjection
  <1> HIDE DEF g, T
  <1>2. IsFiniteSet(T)
    BY <1>1, FS_Surjection
  <1> QED
    BY <1>2 DEF T

\* A sum over two sets without a common element is the sum of theirs.
LEMMA SumOfBoth ==
  ASSUME NEW f, NEW A, NEW B, IsFiniteSet(A), IsFiniteSet(B), A \cap B = {},
         \A x \in A \cup B : f[x] \in Int
  PROVE  SumFunctionOnSet(f, A \cup B) = SumFunctionOnSet(f, A) + SumFunctionOnSet(f, B)
  <1> DEFINE Good == {T \in SUBSET B :
                        SumFunctionOnSet(f, A \cup T) = SumFunctionOnSet(f, A) + SumFunctionOnSet(f, T)}
  <1>1. {} \in Good
    <2>1. SumFunctionOnSet(f, {}) = 0 /\ SumFunctionOnSet(f, A) \in Int /\ A \cup {} = A
      BY SumOfNone, SumType
    <2> QED
      BY <2>1
  <1>2. ASSUME NEW T \in SUBSET B, NEW x \in T, T \ {x} \in Good PROVE T \in Good
    <2> DEFINE rest == T \ {x}
    <2>1. IsFiniteSet(T) /\ IsFiniteSet(A \cup T) /\ IsFiniteSet(rest)
      BY FS_Subset, FS_Union
    <2>2. (A \cup T) \ {x} = A \cup rest /\ x \in A \cup T
      OBVIOUS
    <2>3. SumFunctionOnSet(f, T) = f[x] + SumFunctionOnSet(f, rest)
      BY <2>1, SumWithout
    <2>4. SumFunctionOnSet(f, A \cup T) = f[x] + SumFunctionOnSet(f, (A \cup T) \ {x})
      BY <2>1, <2>2, SumWithout
    <2>5. SumFunctionOnSet(f, A \cup rest) = SumFunctionOnSet(f, A) + SumFunctionOnSet(f, rest)
      BY <1>2
    <2>8. SumFunctionOnSet(f, A \cup T) = f[x] + SumFunctionOnSet(f, A \cup rest)
      BY <2>2, <2>4
    <2>6. SumFunctionOnSet(f, A) \in Int /\ SumFunctionOnSet(f, rest) \in Int /\ f[x] \in Int
      BY <2>1, SumType
    <2> HIDE DEF rest
    <2>7. SumFunctionOnSet(f, A \cup T) = SumFunctionOnSet(f, A) + SumFunctionOnSet(f, T)
      BY <2>3, <2>5, <2>6, <2>8
    <2> QED
      BY <2>7
  <1> HIDE DEF Good
  <1>3. B \in Good
    BY <1>1, <1>2, SubsetInduction
  <1> QED
    BY <1>3 DEF Good

\* A sum is the sum of the sums of its groups, however its terms are grouped.
LEMMA SumByGroup ==
  ASSUME NEW f, NEW S, IsFiniteSet(S), \A x \in S : f[x] \in Int,
         NEW key, NEW K, IsFiniteSet(K), \A x \in S : key[x] \in K,
         NEW g, \A k \in K : g[k] = SumFunctionOnSet(f, {x \in S : key[x] = k})
  PROVE  SumFunctionOnSet(g, K) = SumFunctionOnSet(f, S)
  <1> DEFINE In(T) == {x \in S : key[x] \in T}
             Good == {T \in SUBSET K : SumFunctionOnSet(g, T) = SumFunctionOnSet(f, In(T))}
  <1>1. {} \in Good
    <2>1. In({}) = {}
      OBVIOUS
    <2>2. SumFunctionOnSet(g, {}) = 0 /\ SumFunctionOnSet(f, {}) = 0
      BY SumOfNone
    <2> QED
      BY <2>1, <2>2
  <1>2. \A T : IsFiniteSet(In(T)) /\ (\A x \in In(T) : f[x] \in Int)
    BY FS_Subset
  <1>3. ASSUME NEW T \in SUBSET K, NEW k \in T, T \ {k} \in Good PROVE T \in Good
    <2> DEFINE rest == T \ {k}
               group == {x \in S : key[x] = k}
    <2>1. In(T) = group \cup In(rest) /\ group \cap In(rest) = {} /\ group = In({k})
      OBVIOUS
    <2>2. g[k] = SumFunctionOnSet(f, group)
      OBVIOUS
    <2>3. SumFunctionOnSet(g, rest) = SumFunctionOnSet(f, In(rest))
      BY <1>3
    <2>4. IsFiniteSet(T) /\ \A j \in T : g[j] \in Int
      <3>1. ASSUME NEW j \in K PROVE g[j] \in Int
        <4>1. g[j] = SumFunctionOnSet(f, {x \in S : key[x] = j}) /\ {x \in S : key[x] = j} = In({j})
          OBVIOUS
        <4> HIDE DEF In
        <4>2. g[j] = SumFunctionOnSet(f, In({j}))
          BY <4>1
        <4> QED
          BY <1>2, <4>2, SumType
      <3> QED
        BY <3>1, FS_Subset
    <2>5. SumFunctionOnSet(g, T) = g[k] + SumFunctionOnSet(g, rest)
      BY <2>4, SumWithout
    <2>6. \A x \in group \cup In(rest) : f[x] \in Int
      OBVIOUS
    <2>9. IsFiniteSet(group) /\ IsFiniteSet(In(rest))
      BY <1>2, <2>1
    <2> HIDE DEF In, rest, group, Good
    <2>7. SumFunctionOnSet(f, In(T)) = SumFunctionOnSet(f, group) + SumFunctionOnSet(f, In(rest))
      <3>1. SumFunctionOnSet(f, group \cup In(rest))
              = SumFunctionOnSet(f, group) + SumFunctionOnSet(f, In(rest))
        BY <2>1, <2>6, <2>9, SumOfBoth
      <3> QED
        BY <2>1, <3>1
    <2>8. SumFunctionOnSet(g, T) = SumFunctionOnSet(f, In(T))
      BY <2>2, <2>3, <2>5, <2>7
    <2> QED
      BY <2>8 DEF Good
  <1> HIDE DEF Good
  <1>4. K \in Good
    BY <1>1, <1>3, SubsetInduction
  <1>5. In(K) = S
    OBVIOUS
  <1> QED
    BY <1>4, <1>5 DEF Good
===============================================================================

------------------------------- MODULE DataLemmas -------------------------------
(***************************************************************************)
(* Least and greatest elements of sets of numbers; removing an element of  *)
(* a sequence; sums over finite sets, as FiniteSetsExt folds them, and     *)
(* counting by classes.                                                    *)
(***************************************************************************)
EXTENDS Integers, Sequences, FiniteSets, WellFoundedInduction, FiniteSetTheorems, TLAPS
Folds == INSTANCE FiniteSetsExt

LEMMA LeastNumber ==
    ASSUME NEW S \in SUBSET Nat, S # {}
    PROVE  \E m \in S : \A k \in S : m <= k
<1> DEFINE R == OpToRel(<, Nat)
<1>1. \A x, y \in Nat : <<y, x>> \in R <=> y < x
  BY DEF OpToRel
<1>2. IsWellFoundedOn(R, Nat)
  BY NatLessThanWellFounded
<1> HIDE DEF R
<1>3. PICK m \in S : \A y \in S : ~ (<<y, m>> \in R)
  BY <1>2, WFMin
<1>4. \A y \in S : y \in Nat /\ m \in Nat
  OBVIOUS
<1>5. \A y \in S : ~(y < m)
  BY Zenon, <1>1, <1>3, <1>4
<1> QED
  BY <1>4, <1>5

LEMMA GreatestNumber ==
    ASSUME NEW n \in Nat, NEW S \in SUBSET (0 .. n), S # {}
    PROVE  \E m \in S : \A k \in S : m >= k
<1> DEFINE T == {n - k : k \in S}
<1>1. \A k \in S : k \in 0 .. n /\ n - k \in Nat
  OBVIOUS
<1>2. T \in SUBSET Nat
  BY <1>1
<1>3. T # {}
  OBVIOUS
<1>4. PICK t \in T : \A k \in T : t <= k
  <2> HIDE DEF T
  <2> QED
    BY <1>2, <1>3, LeastNumber
<1>5. PICK m \in S : t = n - m
  OBVIOUS
<1>6. \A k \in S : n - m <= n - k
  BY <1>4, <1>5
<1> QED
  BY <1>1, <1>6

\* SequencesExt's RemoveAt, under a name that can be left unexpanded.
Without(s, i) == SubSeq(s, 1, i - 1) \o SubSeq(s, i + 1, Len(s))

\* Taking an element out of a sequence: the others stay, in their order.
LEMMA ElementRemoved ==
    ASSUME NEW S, NEW s \in Seq(S), NEW i \in DOMAIN s
    PROVE  /\ Without(s, i) \in Seq(S) /\ Len(Without(s, i)) = Len(s) - 1
           /\ \A j \in 1 .. i - 1 : Without(s, i)[j] = s[j]
           /\ \A j \in i .. Len(s) - 1 : Without(s, i)[j] = s[j + 1]
           /\ \A j \in DOMAIN Without(s, i) : \E k \in DOMAIN s : s[k] = Without(s, i)[j]
           /\ \A k \in DOMAIN s \ {i} :
                \E j \in DOMAIN Without(s, i) : s[k] = Without(s, i)[j]
<1> DEFINE u == SubSeq(s, 1, i - 1)
           v == SubSeq(s, i + 1, Len(s))
           r == Without(s, i)
<1>1. r = u \o v
  BY DEF Without
<1> HIDE DEF r
<1>2. i \in 1 .. Len(s) /\ Len(s) \in Nat
  OBVIOUS
<1>3. u \in Seq(S) /\ Len(u) = i - 1 /\ \A j \in 1 .. i - 1 : u[j] = s[j]
  BY <1>2
<1>4. v \in Seq(S) /\ Len(v) = Len(s) - i /\ \A j \in 1 .. Len(s) - i : v[j] = s[i + j]
  BY <1>2
<1> HIDE DEF u, v
<1>5. /\ r \in Seq(S) /\ Len(r) = Len(s) - 1
      /\ \A j \in 1 .. i - 1 : r[j] = s[j]
      /\ \A j \in 1 .. Len(s) - i : r[i - 1 + j] = s[i + j]
  <2>1. /\ r \in Seq(S) /\ Len(r) = Len(u) + Len(v)
        /\ \A j \in 1 .. Len(u) : r[j] = u[j]
        /\ \A j \in 1 .. Len(v) : r[Len(u) + j] = v[j]
    <3>1. u \in Seq(S) /\ v \in Seq(S) /\ Len(u) \in Nat /\ Len(v) \in Nat
      BY <1>3, <1>4
    <3>2. u \o v \in Seq(S) /\ Len(u \o v) = Len(u) + Len(v)
      BY <3>1
    <3>3. ASSUME NEW j \in 1 .. Len(u) PROVE (u \o v)[j] = u[j]
      BY <3>1
    <3>4. ASSUME NEW j \in 1 .. Len(v) PROVE (u \o v)[Len(u) + j] = v[j]
      BY <3>1
    <3>5. /\ \A j \in 1 .. Len(u) : r[j] = u[j]
          /\ \A j \in 1 .. Len(v) : r[Len(u) + j] = v[j]
      BY <1>1, <3>3, <3>4
    <3> QED
      BY <1>1, <3>2, <3>5
  <2>2. (i - 1) + (Len(s) - i) = Len(s) - 1
    BY <1>2
  <2>3. Len(r) = Len(s) - 1
    BY <2>1, <2>2, <1>3, <1>4
  <2>4. \A j \in 1 .. i - 1 : r[j] = s[j]
    BY <2>1, <1>3
  <2>5. \A j \in 1 .. Len(s) - i : r[i - 1 + j] = s[i + j]
    BY <2>1, <1>3, <1>4
  <2> QED
    BY <2>1, <2>3, <2>4, <2>5
<1>6. \A j \in i .. Len(s) - 1 : r[j] = s[j + 1]
  <2> SUFFICES ASSUME NEW j \in i .. Len(s) - 1 PROVE r[j] = s[j + 1]
    OBVIOUS
  <2> DEFINE n == Len(s)
  <2>1. i \in 1 .. n /\ n \in Nat /\ j \in i .. n - 1
    BY <1>2
  <2> HIDE DEF n
  <2>2. j - i + 1 \in 1 .. n - i /\ i - 1 + (j - i + 1) = j /\ i + (j - i + 1) = j + 1
    BY <2>1
  <2> QED
    BY <1>5, <2>2 DEF n
<1>7. DOMAIN r = 1 .. Len(s) - 1 /\ DOMAIN s = 1 .. Len(s)
  BY <1>2, <1>5
<1>8. ASSUME NEW j \in 1 .. Len(s) - 1 PROVE \E k \in 1 .. Len(s) : s[k] = r[j]
  <2>1. CASE j < i
    <3>1. j \in 1 .. i - 1 /\ j \in 1 .. Len(s)
      BY <1>2, <2>1
    <3>2. r[j] = s[j]
      BY <1>5, <3>1
    <3> QED
      BY <3>1, <3>2
  <2>2. CASE j >= i
    <3>1. j \in i .. Len(s) - 1 /\ j + 1 \in 1 .. Len(s)
      BY <1>2, <2>2
    <3>2. r[j] = s[j + 1]
      BY <1>6, <3>1
    <3> QED
      BY <3>1, <3>2
  <2> QED
    BY <1>2, <2>1, <2>2
<1>9. ASSUME NEW k \in 1 .. Len(s), k # i PROVE \E j \in 1 .. Len(s) - 1 : s[k] = r[j]
  <2>1. CASE k < i
    <3>1. k \in 1 .. i - 1 /\ k \in 1 .. Len(s) - 1
      BY <1>2, <2>1
    <3>2. r[k] = s[k]
      BY <1>5, <3>1
    <3> QED
      BY <3>1, <3>2
  <2>2. CASE k > i
    <3>1. k - 1 \in i .. Len(s) - 1 /\ k - 1 \in 1 .. Len(s) - 1 /\ (k - 1) + 1 = k
      BY <1>2, <2>2
    <3>2. r[k - 1] = s[k]
      BY <1>6, <3>1
    <3> QED
      BY <3>1, <3>2
  <2> QED
    BY <1>2, <1>9, <2>1, <2>2
<1> QED
  BY <1>5, <1>6, <1>7, <1>8, <1>9 DEF r

-------------------------------------------------------------------------------
\* Induction over the subsets of a finite set.  The library's rule takes the
\* property as an operator; here it is the set of the subsets that have it.
LEMMA SubsetInduction ==
    ASSUME NEW S, IsFiniteSet(S), NEW Good,
           \A t \in SUBSET S : (\A x \in t : t \ {x} \in Good) => t \in Good
    PROVE  \A t \in SUBSET S : t \in Good
<1> SUFFICES ASSUME \E t \in SUBSET S : t \notin Good
             PROVE  FALSE
  OBVIOUS
<1> DEFINE Bad == {t \in SUBSET S : t \notin Good}
           Sizes == {Cardinality(t) : t \in Bad}
<1>1. \A t \in SUBSET S : IsFiniteSet(t) /\ Cardinality(t) \in Nat
  BY FS_Subset, FS_CardinalityType
<1>2. Sizes \in SUBSET Nat /\ Sizes # {}
  BY <1>1
<1>3. PICK n \in Sizes : \A k \in Sizes : n <= k
  <2> HIDE DEF Sizes
  <2> QED
    BY <1>2, LeastNumber
<1>4. PICK t \in Bad : Cardinality(t) = n
  OBVIOUS
<1>5. ASSUME NEW x \in t PROVE t \ {x} \in Good
  <2>1. t \in SUBSET S /\ t \ {x} \in SUBSET S
    OBVIOUS
  <2>2. Cardinality(t \ {x}) = n - 1 /\ n \in Nat
    BY <1>1, <1>4, <2>1, FS_RemoveElement
  <2>3. t \ {x} \notin Bad
    BY <1>3, <2>2
  <2> QED
    BY <2>1, <2>3
<1> QED
  BY <1>4, <1>5

-------------------------------------------------------------------------------
\* The sum of the values of a function over a set, by the fold of FiniteSetsExt.
SumOver(g, S) == Folds!MapThenSumSet(LAMBDA x : g[x], S)

Pick(s) == CHOOSE x \in s : TRUE
\* it[s] is the sum of g over s, taken in the order of the fold.
Sums(it, g, S) ==
    it = [s \in SUBSET S |-> IF s = {} THEN 0 ELSE g[Pick(s)] + it[s \ {Pick(s)}]]

LEMMA Picked == \A s : s # {} => Pick(s) \in s
  BY DEF Pick

\* The subsets of S with at most n elements, the functions that sum over them.
Small(S, n) == {s \in SUBSET S : Cardinality(s) <= n}
SumsOf(it, g, D) ==
    it = [s \in D |-> IF s = {} THEN 0 ELSE g[Pick(s)] + it[s \ {Pick(s)}]]

\* There is such a function ...
LEMMA SumsExist ==
    ASSUME NEW S, IsFiniteSet(S), NEW g
    PROVE  \E it : Sums(it, g, S)
<1> DEFINE Missing == {n \in Nat : ~ \E it : SumsOf(it, g, Small(S, n))}
<1>0. \A s \in SUBSET S : IsFiniteSet(s) /\ Cardinality(s) \in Nat
  BY FS_Subset, FS_CardinalityType
<1>1. 0 \notin Missing
  <2> DEFINE it == [s \in Small(S, 0) |-> 0]
  <2>1. \A s \in Small(S, 0) : s = {}
    BY <1>0, FS_EmptySet DEF Small
  <2>2. SumsOf(it, g, Small(S, 0))
    BY <2>1 DEF SumsOf
  <2> QED
    BY <2>2
<1>2. ASSUME NEW n \in Nat, n \notin Missing PROVE n + 1 \notin Missing
  <2>1. PICK it : SumsOf(it, g, Small(S, n))
    BY <1>2
  <2> DEFINE D == Small(S, n + 1)
             it2 == [s \in D |-> IF s = {} THEN 0 ELSE g[Pick(s)] + it[s \ {Pick(s)}]]
  <2>2. \A s \in Small(S, n) : s \in D /\ it2[s] = it[s]
    <3> SUFFICES ASSUME NEW s \in Small(S, n) PROVE s \in D /\ it2[s] = it[s]
      OBVIOUS
    <3>1. s \in D
      BY <1>0 DEF Small
    <3>2. it2[s] = IF s = {} THEN 0 ELSE g[Pick(s)] + it[s \ {Pick(s)}]
      BY <3>1
    <3>3. it[s] = IF s = {} THEN 0 ELSE g[Pick(s)] + it[s \ {Pick(s)}]
      BY <2>1 DEF SumsOf
    <3> QED
      BY <3>1, <3>2, <3>3
  <2>3. ASSUME NEW s \in D, s # {} PROVE s \ {Pick(s)} \in Small(S, n)
    <3>1. Pick(s) \in s /\ s \in SUBSET S /\ Cardinality(s) <= n + 1
      BY <2>3, Picked DEF Small
    <3>2. Cardinality(s \ {Pick(s)}) = Cardinality(s) - 1
      BY <1>0, <3>1, FS_RemoveElement
    <3> QED
      BY <1>0, <3>1, <3>2 DEF Small
  <2>4. \A s \in D : it2[s] = IF s = {} THEN 0 ELSE g[Pick(s)] + it2[s \ {Pick(s)}]
    BY <2>2, <2>3
  <2>5. SumsOf(it2, g, D)
    <3>1. it2 = [s \in D |-> it2[s]]
      OBVIOUS
    <3> QED
      BY <2>4, <3>1 DEF SumsOf
  <2> QED
    BY <2>5
<1>3. Missing = {}
  <2> SUFFICES ASSUME Missing # {} PROVE FALSE
    OBVIOUS
  <2>1. Missing \in SUBSET Nat
    OBVIOUS
  <2> HIDE DEF Missing
  <2>2. PICK m \in Missing : \A k \in Missing : m <= k
    BY <2>1, LeastNumber
  <2>3. m \in Nat /\ m # 0 /\ m - 1 \in Nat /\ m - 1 \notin Missing /\ m = (m - 1) + 1
    BY <1>1, <2>1, <2>2
  <2> QED
    BY <1>2, <2>3
<1>4. Cardinality(S) \in Nat /\ Small(S, Cardinality(S)) = SUBSET S
  <2>1. \A s \in SUBSET S : Cardinality(s) <= Cardinality(S)
    BY FS_Subset
  <2> QED
    BY <1>0, <2>1 DEF Small
<1>5. PICK it : SumsOf(it, g, SUBSET S)
  BY <1>3, <1>4
<1> QED
  BY <1>5 DEF SumsOf, Sums

\* ... and any such function adds up, in whatever order.
LEMMA SumsTyped ==
    ASSUME NEW S, IsFiniteSet(S), NEW g, \A y \in S : g[y] \in Int, NEW it, Sums(it, g, S)
    PROVE  \A s \in SUBSET S : it[s] \in Int
<1> DEFINE Good == {s \in SUBSET S : it[s] \in Int}
<1>1. ASSUME NEW s \in SUBSET S, \A x \in s : s \ {x} \in Good PROVE s \in Good
  <2>1. it[s] = IF s = {} THEN 0 ELSE g[Pick(s)] + it[s \ {Pick(s)}]
    BY DEF Sums
  <2>2. s # {} => g[Pick(s)] \in Int /\ it[s \ {Pick(s)}] \in Int
    BY <1>1, Picked
  <2> QED
    BY <2>1, <2>2
<1> HIDE DEF Good
<1>2. \A s \in SUBSET S : s \in Good
  BY <1>1, SubsetInduction
<1> QED
  BY <1>2 DEF Good

LEMMA SumsAddUp ==
    ASSUME NEW S, IsFiniteSet(S), NEW g, \A y \in S : g[y] \in Int, NEW it, Sums(it, g, S)
    PROVE  \A s \in SUBSET S : \A x \in s : it[s] = g[x] + it[s \ {x}]
<1> DEFINE Good == {s \in SUBSET S : \A x \in s : it[s] = g[x] + it[s \ {x}]}
<1>1. ASSUME NEW s \in SUBSET S, \A x \in s : s \ {x} \in Good, NEW x \in s
      PROVE  it[s] = g[x] + it[s \ {x}]
  <2> DEFINE p == Pick(s)
             t == s \ {p}
             u == t \ {x}
  <2>1. p \in s /\ it[s] = g[p] + it[t] /\ t \in Good
    BY <1>1, Picked DEF Sums
  <2>2. CASE x = p
    BY <2>1, <2>2
  <2>3. CASE x # p
    <3>1. x \in t /\ p \in s \ {x} /\ u = (s \ {x}) \ {p}
      BY <2>1, <2>3
    <3>2. s \ {x} \in Good
      BY <1>1
    <3>3. it[t] = g[x] + it[u] /\ it[s \ {x}] = g[p] + it[u]
      BY <2>1, <3>1, <3>2
    <3>4. g[x] \in Int /\ g[p] \in Int /\ it[u] \in Int
      BY <2>1, SumsTyped
    <3> QED
      BY <2>1, <3>3, <3>4
  <2> QED
    BY <2>2, <2>3
<1>2. \A s \in SUBSET S : (\A x \in s : s \ {x} \in Good) => s \in Good
  BY <1>1
<1> HIDE DEF Good
<1>3. \A s \in SUBSET S : s \in Good
  BY <1>2, SubsetInduction
<1> QED
  BY <1>3 DEF Good

\* Two of them agree where the summed functions do.
LEMMA SumsAgree ==
    ASSUME NEW S, NEW T \in SUBSET S, IsFiniteSet(T), NEW g, NEW h, NEW it, NEW jt,
           Sums(it, g, S), Sums(jt, h, T), \A x \in T : g[x] = h[x]
    PROVE  it[T] = jt[T]
<1> DEFINE Good == {s \in SUBSET T : it[s] = jt[s]}
<1>1. ASSUME NEW s \in SUBSET T, \A x \in s : s \ {x} \in Good PROVE s \in Good
  <2>1. /\ it[s] = IF s = {} THEN 0 ELSE g[Pick(s)] + it[s \ {Pick(s)}]
        /\ jt[s] = IF s = {} THEN 0 ELSE h[Pick(s)] + jt[s \ {Pick(s)}]
    BY DEF Sums
  <2>2. s # {} => g[Pick(s)] = h[Pick(s)] /\ it[s \ {Pick(s)}] = jt[s \ {Pick(s)}]
    BY <1>1, Picked
  <2> QED
    BY <2>1, <2>2
<1> HIDE DEF Good
<1>2. \A s \in SUBSET T : s \in Good
  BY <1>1, SubsetInduction
<1> QED
  BY <1>2 DEF Good

\* What the fold of FiniteSetsExt computes.
LEMMA FoldSums ==
    ASSUME NEW S, IsFiniteSet(S), NEW g
    PROVE  \E it : Sums(it, g, S) /\ SumOver(g, S) = it[S]
<1> DEFINE it == CHOOSE it : it = [s \in SUBSET S |->
                    IF s = {} THEN 0 ELSE LET x == CHOOSE x \in s : TRUE IN g[x] + it[s \ {x}]]
<1>1. \E jt : jt = [s \in SUBSET S |->
                    IF s = {} THEN 0 ELSE LET x == CHOOSE x \in s : TRUE IN g[x] + jt[s \ {x}]]
  <2>1. PICK k : Sums(k, g, S)
    BY SumsExist
  <2>2. k = [s \in SUBSET S |->
                    IF s = {} THEN 0 ELSE LET x == CHOOSE x \in s : TRUE IN g[x] + k[s \ {x}]]
    BY <2>1 DEF Sums, Pick
  <2> QED
    BY <2>2, Zenon
<1>2. it = [s \in SUBSET S |->
                    IF s = {} THEN 0 ELSE LET x == CHOOSE x \in s : TRUE IN g[x] + it[s \ {x}]]
  BY <1>1, Zenon
<1>3. SumOver(g, S) = it[S]
  BY DEF SumOver, Folds!MapThenSumSet, Folds!MapThenFoldSet
<1> HIDE DEF it
<1>4. Sums(it, g, S)
  BY <1>2 DEF Sums, Pick
<1> QED
  BY <1>3, <1>4

LEMMA SumSame ==
    ASSUME NEW S, IsFiniteSet(S), NEW g, NEW h, \A x \in S : g[x] = h[x]
    PROVE  SumOver(g, S) = SumOver(h, S)
<1>1. PICK it : Sums(it, g, S) /\ SumOver(g, S) = it[S]
  BY FoldSums
<1>2. PICK jt : Sums(jt, h, S) /\ SumOver(h, S) = jt[S]
  BY FoldSums
<1> QED
  BY <1>1, <1>2, SumsAgree

LEMMA SumEmpty == \A g : SumOver(g, {}) = 0
<1> SUFFICES ASSUME NEW g PROVE SumOver(g, {}) = 0
  OBVIOUS
<1>1. IsFiniteSet({})
  BY FS_EmptySet
<1>2. PICK it : Sums(it, g, {}) /\ SumOver(g, {}) = it[{}]
  BY <1>1, FoldSums
<1> QED
  BY <1>2 DEF Sums

LEMMA SumTyped ==
    ASSUME NEW S, IsFiniteSet(S), NEW g, \A y \in S : g[y] \in Int
    PROVE  SumOver(g, S) \in Int
<1>1. PICK it : Sums(it, g, S) /\ SumOver(g, S) = it[S]
  BY FoldSums
<1> QED
  BY <1>1, SumsTyped

\* One summand more, or less.
LEMMA SumSplit ==
    ASSUME NEW S, IsFiniteSet(S), NEW g, \A y \in S : g[y] \in Int, NEW x \in S
    PROVE  SumOver(g, S) = g[x] + SumOver(g, S \ {x})
<1>1. PICK it : Sums(it, g, S) /\ SumOver(g, S) = it[S]
  BY FoldSums
<1>2. IsFiniteSet(S \ {x})
  BY FS_Subset
<1>3. PICK jt : Sums(jt, g, S \ {x}) /\ SumOver(g, S \ {x}) = jt[S \ {x}]
  BY <1>2, FoldSums
<1>4. it[S \ {x}] = jt[S \ {x}]
  BY <1>1, <1>2, <1>3, SumsAgree
<1>5. it[S] = g[x] + it[S \ {x}]
  BY <1>1, SumsAddUp
<1> QED
  BY <1>1, <1>3, <1>4, <1>5

\* The sum of two functions.
LEMMA SumAdds ==
    ASSUME NEW S, IsFiniteSet(S), NEW g, \A y \in S : g[y] \in Int,
           NEW h, \A y \in S : h[y] \in Int, NEW k, \A y \in S : k[y] = g[y] + h[y]
    PROVE  SumOver(k, S) = SumOver(g, S) + SumOver(h, S)
<1> DEFINE Good == {s \in SUBSET S : SumOver(k, s) = SumOver(g, s) + SumOver(h, s)}
<1>1. ASSUME NEW s \in SUBSET S, \A x \in s : s \ {x} \in Good PROVE s \in Good
  <2>1. CASE s = {}
    BY <2>1, SumEmpty
  <2>2. CASE s # {}
    <3>1. PICK x \in s : TRUE
      BY <2>2
    <3>2. IsFiniteSet(s) /\ IsFiniteSet(s \ {x}) /\ \A y \in s : k[y] \in Int
      BY FS_Subset
    <3>3. /\ SumOver(k, s) = k[x] + SumOver(k, s \ {x})
          /\ SumOver(g, s) = g[x] + SumOver(g, s \ {x})
          /\ SumOver(h, s) = h[x] + SumOver(h, s \ {x})
      BY <3>1, <3>2, SumSplit
    <3>4. SumOver(k, s \ {x}) = SumOver(g, s \ {x}) + SumOver(h, s \ {x})
      BY <1>1, <3>1
    <3>5. SumOver(g, s \ {x}) \in Int /\ SumOver(h, s \ {x}) \in Int /\ g[x] \in Int /\ h[x] \in Int
      BY <3>1, <3>2, SumTyped
    <3> QED
      BY <3>1, <3>3, <3>4, <3>5
  <2> QED
    BY <2>1, <2>2
<1>2. \A s \in SUBSET S : (\A x \in s : s \ {x} \in Good) => s \in Good
  BY <1>1
<1> HIDE DEF Good
<1>3. \A s \in SUBSET S : s \in Good
  BY <1>2, SubsetInduction
<1> QED
  BY <1>3 DEF Good

LEMMA DisjointCounted ==
    ASSUME NEW A, IsFiniteSet(A), NEW B, IsFiniteSet(B), A \cap B = {}
    PROVE  Cardinality(A \cup B) = Cardinality(A) + Cardinality(B)
<1>1. Cardinality(A \cup B) = Cardinality(A) + Cardinality(B) - Cardinality(A \cap B)
  BY FS_Union
<1>2. Cardinality(A \cap B) = 0
  BY FS_EmptySet
<1>3. Cardinality(A) \in Nat /\ Cardinality(B) \in Nat
  BY FS_CardinalityType
<1> QED
  BY <1>1, <1>2, <1>3

\* Counting by classes.
LEMMA CountedByKey ==
    ASSUME NEW U, IsFiniteSet(U), NEW S, IsFiniteSet(S), NEW key \in [U -> S],
           NEW n, \A x \in S : n[x] = Cardinality({u \in U : key[u] = x})
    PROVE  Cardinality(U) = SumOver(n, S)
<1> DEFINE Class(x) == {u \in U : key[u] = x}
           With(s) == {u \in U : key[u] \in s}
           Good == {s \in SUBSET S : Cardinality(With(s)) = SumOver(n, s)}
<1>1. /\ \A x : IsFiniteSet(Class(x)) /\ Cardinality(Class(x)) \in Nat
      /\ \A s : IsFiniteSet(With(s)) /\ Cardinality(With(s)) \in Nat
  BY FS_Subset, FS_CardinalityType
<1>2. ASSUME NEW s \in SUBSET S, \A x \in s : s \ {x} \in Good PROVE s \in Good
  <2>1. CASE s = {}
    <3>1. With(s) = {}
      BY <2>1
    <3> QED
      BY <2>1, <3>1, SumEmpty, FS_EmptySet
  <2>2. CASE s # {}
    <3>1. PICK x \in s : TRUE
      BY <2>2
    <3>2. With(s) = With(s \ {x}) \cup Class(x) /\ With(s \ {x}) \cap Class(x) = {}
      BY <3>1
    <3> DEFINE A == With(s \ {x})
               B == Class(x)
               C == With(s)
    <3>3. Cardinality(C) = Cardinality(A) + Cardinality(B)
      <4>1. IsFiniteSet(A) /\ IsFiniteSet(B)
        BY <1>1
      <4>2. C = A \cup B /\ A \cap B = {}
        BY <3>2
      <4> HIDE DEF A, B, C
      <4> QED
        BY <4>1, <4>2, DisjointCounted
    <3>4. Cardinality(With(s \ {x})) = SumOver(n, s \ {x})
      BY <1>2, <3>1
    <3>5. IsFiniteSet(s) /\ \A y \in s : n[y] \in Int
      <4>1. \A y \in s : n[y] = Cardinality(Class(y))
        OBVIOUS
      <4>2. \A y \in s : Cardinality(Class(y)) \in Int
        BY <1>1
      <4> QED
        BY <4>1, <4>2, FS_Subset, Zenon
    <3>6. SumOver(n, s) = n[x] + SumOver(n, s \ {x})
      BY <3>1, <3>5, SumSplit
    <3>7. n[x] = Cardinality(B) /\ Cardinality(A) \in Nat /\ Cardinality(B) \in Nat
      BY <1>1, <3>1
    <3>8. Cardinality(A) = SumOver(n, s \ {x})
      BY <3>4
    <3>9. Cardinality(C) = SumOver(n, s)
      <4> HIDE DEF A, B, C
      <4> QED
        BY <3>3, <3>6, <3>7, <3>8
    <3> QED
      BY <3>9
  <2> QED
    BY <2>1, <2>2
<1>3. \A s \in SUBSET S : (\A x \in s : s \ {x} \in Good) => s \in Good
  BY <1>2
<1>4. S \in Good
  <2> HIDE DEF Good
  <2>1. \A s \in SUBSET S : s \in Good
    BY <1>3, SubsetInduction
  <2> QED
    BY <2>1
<1>5. With(S) = U
  OBVIOUS
<1> QED
  BY <1>4, <1>5
===============================================================================

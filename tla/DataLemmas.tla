------------------------------- MODULE DataLemmas ------------------------------
(***************************************************************************)
(* Lemmas about sums, selections and lists, for the proofs of the other    *)
(* modules.                                                                *)
(***************************************************************************)
EXTENDS Functions, Selection, FiniteSetTheorems, SequenceTheorems, TLAPS

One(s) == CHOOSE x \in s : TRUE

\* What a fold adds up for a set, and that g is such a fold of f over all subsets of S.
SumStep(g, f, s) == IF s = {} THEN 0 ELSE f[One(s)] + g[s \ {One(s)}]
IsSum(g, f, S) == g = [s \in SUBSET S |-> SumStep(g, f, s)]
UpTo(S, n) == {s \in SUBSET S : Cardinality(s) <= n}

LEMMA OneIsMember == ASSUME NEW s, s # {} PROVE One(s) \in s
BY DEF One

\* The rest of a nonempty set is smaller.
LEMMA RestIsSmaller ==
    ASSUME NEW S, IsFiniteSet(S), NEW s \in SUBSET S, s # {}
    PROVE  /\ One(s) \in S
           /\ s \ {One(s)} \in SUBSET S
           /\ Cardinality(s) \in Nat
           /\ Cardinality(s \ {One(s)}) = Cardinality(s) - 1
           /\ Cardinality(s \ {One(s)}) \in Nat
<1>1. One(s) \in s
  BY OneIsMember
<1>2. IsFiniteSet(s) /\ IsFiniteSet(s \ {One(s)})
  BY FS_Subset
<1>3. Cardinality(s \ {One(s)}) = Cardinality(s) - 1
  BY <1>1, <1>2, FS_RemoveElement
<1> QED BY <1>1, <1>2, <1>3, FS_CardinalityType

\* The fold exists on the subsets of every size: the least size without it would
\* have it from the size below.
LEMMA SumExists ==
    ASSUME NEW S, IsFiniteSet(S), NEW f \in [S -> Int]
    PROVE  \E g \in [SUBSET S -> Int] : IsSum(g, f, S)
<1> DEFINE Has(n) == \E g \in [UpTo(S, n) -> Int] : g = [s \in UpTo(S, n) |-> SumStep(g, f, s)]
           Lacking == {n \in Nat : ~Has(n)}
<1>1. Has(0)
  <2> DEFINE g == [s \in UpTo(S, 0) |-> 0]
  <2>1. \A s \in UpTo(S, 0) : s = {}
    <3> SUFFICES ASSUME NEW s \in UpTo(S, 0), s # {} PROVE FALSE
      OBVIOUS
    <3>1. s \in SUBSET S /\ Cardinality(s) <= 0
      BY DEF UpTo
    <3>2. Cardinality(s) - 1 \in Nat /\ Cardinality(s) \in Nat
      BY <3>1, RestIsSmaller
    <3> QED BY <3>1, <3>2
  <2>2. g = [s \in UpTo(S, 0) |-> SumStep(g, f, s)]
    BY <2>1 DEF SumStep
  <2> QED BY <2>2
<1>2. ASSUME NEW n \in Nat \ {0}, Has(n - 1) PROVE Has(n)
  <2>1. PICK g \in [UpTo(S, n - 1) -> Int] : g = [s \in UpTo(S, n - 1) |-> SumStep(g, f, s)]
    BY <1>2
  <2> DEFINE h == [s \in UpTo(S, n) |-> SumStep(g, f, s)]
  <2>2. ASSUME NEW s \in UpTo(S, n), s # {} 
        PROVE  /\ One(s) \in S
               /\ s \ {One(s)} \in UpTo(S, n - 1)
               /\ s \ {One(s)} \in UpTo(S, n)
    BY <2>2, RestIsSmaller DEF UpTo
  <2>3. h \in [UpTo(S, n) -> Int]
    <3> SUFFICES ASSUME NEW s \in UpTo(S, n) PROVE SumStep(g, f, s) \in Int
      OBVIOUS
    <3>1. CASE s = {}
      BY <3>1 DEF SumStep
    <3>2. CASE s # {}
      <4>1. g[s \ {One(s)}] \in Int /\ f[One(s)] \in Int
        BY <3>2, <2>2
      <4> QED BY <3>2, <4>1 DEF SumStep
    <3> QED BY <3>1, <3>2
  <2>4. ASSUME NEW s \in UpTo(S, n) PROVE SumStep(g, f, s) = SumStep(h, f, s)
    <3>1. CASE s = {}
      BY <3>1 DEF SumStep
    <3>2. CASE s # {}
      <4> DEFINE r == s \ {One(s)}
      <4>1. r \in UpTo(S, n - 1) /\ r \in UpTo(S, n)
        BY <3>2, <2>2
      <4>2. g[r] = SumStep(g, f, r)
        BY <4>1, <2>1
      <4>3. h[r] = g[r]
        BY <4>1, <4>2
      <4> QED BY <3>2, <4>3 DEF SumStep
    <3> QED BY <3>1, <3>2
  <2>5. h = [s \in UpTo(S, n) |-> SumStep(h, f, s)]
    BY <2>4
  <2> QED BY <2>3, <2>5
<1>3. Lacking = {}
  <2> SUFFICES ASSUME Lacking # {} PROVE FALSE
    OBVIOUS
  <2>1. PICK n \in Lacking : \A m \in Lacking : << m, n >> \notin OpToRel(<, Nat)
    BY NatLessThanWellFounded, WFMin
  <2>2. n \in Nat \ {0} /\ ~Has(n)
    BY <1>1
  <2>3. n - 1 \in Nat /\ n - 1 < n
    BY <2>2
  <2>4. << n - 1, n >> \in OpToRel(<, Nat)
    BY <2>2, <2>3 DEF OpToRel
  <2>5. Has(n - 1)
    BY <2>1, <2>3, <2>4
  <2> QED BY <1>2, <2>2, <2>5
<1>4. UpTo(S, Cardinality(S)) = SUBSET S
  BY FS_Subset DEF UpTo
<1>5. Has(Cardinality(S))
  BY <1>3, FS_CardinalityType
<1> QED BY <1>4, <1>5 DEF IsSum

\* Two folds differ by what their functions differ in, at one element at most.
LEMMA SumChanges ==
    ASSUME NEW S, IsFiniteSet(S), NEW t \in S,
           NEW f \in [S -> Int], NEW g, IsSum(g, f, S),
           NEW k \in [S -> Int], NEW h, IsSum(h, k, S),
           \A u \in S \ {t} : f[u] = k[u]
    PROVE  g[S] \in Int /\ h[S] = g[S] + k[t] - f[t]
<1> DEFINE Fits(s) == g[s] \in Int /\ h[s] = g[s] + (IF t \in s THEN k[t] - f[t] ELSE 0)
           Odd == {s \in SUBSET S : ~Fits(s)}
<1>1. Odd = {}
  <2> SUFFICES ASSUME Odd # {} PROVE FALSE
    OBVIOUS
  <2>1. PICK s \in Odd : \A r \in Odd : << r, s >> \notin StrictSubsetOrdering(S)
    <3>1. IsWellFoundedOn(StrictSubsetOrdering(S), SUBSET S)
      BY FS_StrictSubsetOrderingWellFounded, FS_FiniteSubsetsOfFinite
    <3>2. Odd \subseteq SUBSET S
      OBVIOUS
    <3> HIDE DEF Odd
    <3> QED BY <3>1, <3>2, WFMin
  <2>2. s \in SUBSET S
    OBVIOUS
  <2>3. g[s] = SumStep(g, f, s) /\ h[s] = SumStep(h, k, s)
    BY <2>2 DEF IsSum
  <2>4. s # {}
    BY <2>3 DEF SumStep
  <2> DEFINE x == One(s)
             r == s \ {x}
  <2>5. x \in s /\ x \in S /\ r \in SUBSET S
    BY <2>2, <2>4, OneIsMember
  <2>6. << r, s >> \in StrictSubsetOrdering(S)
    BY <2>5 DEF StrictSubsetOrdering
  <2>7. Fits(r)
    BY <2>1, <2>5, <2>6
  <2>8. g[s] = f[x] + g[r] /\ h[s] = k[x] + h[r]
    BY <2>3, <2>4 DEF SumStep
  <2>9. f[x] \in Int /\ k[x] \in Int /\ f[t] \in Int /\ k[t] \in Int
    BY <2>5
  <2>10. Fits(s)
    <3>1. CASE x = t
      <4>1. t \in s /\ t \notin r
        BY <3>1, <2>5
      <4> QED BY <4>1, <3>1, <2>7, <2>8, <2>9
    <3>2. CASE x # t
      <4>1. f[x] = k[x] /\ (t \in s <=> t \in r)
        BY <3>2, <2>5
      <4> QED BY <4>1, <2>7, <2>8, <2>9
    <3> QED BY <3>1, <3>2
  <2> QED BY <2>10
<1> QED BY <1>1

LEMMA SumIsInt ==
    ASSUME NEW S, IsFiniteSet(S), NEW f \in [S -> Int], NEW g, IsSum(g, f, S)
    PROVE  g[S] \in Int
<1>1. CASE S = {}
  BY <1>1 DEF IsSum, SumStep
<1>2. CASE S # {}
  <2>1. PICK t \in S : TRUE
    BY <1>2
  <2> QED BY <2>1, SumChanges
<1> QED BY <1>1, <1>2

\* The community modules' sum of a function is such a fold.
LEMMA SumFunctionIsInt ==
    ASSUME NEW S, IsFiniteSet(S), NEW f \in [S -> Int]
    PROVE  SumFunction(f) \in Int
<1> DEFINE Folds(h) == h = [s \in SUBSET S |->
                                IF s = {} THEN 0 ELSE f[One(s)] + h[s \ {One(s)}]]
           fold == CHOOSE h : Folds(h)
<1>1. ASSUME NEW h PROVE Folds(h) <=> IsSum(h, f, S)
  BY DEF IsSum, SumStep
<1>2. Folds(fold)
  <2>1. \E h : Folds(h)
    <3> HIDE DEF Folds
    <3> QED BY <1>1, SumExists
  <2> HIDE DEF Folds
  <2> QED BY <2>1
<1>3. SumFunction(f) = fold[S]
  BY DEF SumFunction, SumFunctionOnSet, FoldFunctionOnSet, MapThenFoldSet, One
<1> HIDE DEF fold, Folds
<1> QED BY <1>1, <1>2, <1>3, SumIsInt
----------------------------------------------------------------------------
(* Selections *)

\* The positions of a selection get one place each, in their order.
LEMMA PlacesAreBijective ==
    ASSUME NEW K \in SUBSET Int, IsFiniteSet(K)
    PROVE  /\ Cardinality(K) \in Nat
           /\ \A i \in K : Place(K, i) \in 1..Cardinality(K)
           /\ \A i, j \in K : i < j => Place(K, i) < Place(K, j)
           /\ \A n \in 1..Cardinality(K) : \E i \in K : Place(K, i) = n
<1>0. \A i \in K : i \in Int
  OBVIOUS
<1> DEFINE Upto(i) == {j \in K : j <= i}
<1>1. ASSUME NEW i \in K
      PROVE  /\ IsFiniteSet(Upto(i)) /\ Cardinality(Upto(i)) \in 1..Cardinality(K)
             /\ Place(K, i) = Cardinality(Upto(i))
  <2>1. IsFiniteSet(Upto(i)) /\ Cardinality(Upto(i)) <= Cardinality(K)
    BY FS_Subset
  <2>2. i \in Upto(i)
    OBVIOUS
  <2>3. Cardinality(Upto(i)) # 0
    BY <2>1, <2>2, FS_EmptySet
  <2>4. Cardinality(Upto(i)) \in Nat /\ Cardinality(K) \in Nat
    BY <2>1, FS_CardinalityType
  <2>5. Place(K, i) = Cardinality(Upto(i))
    BY DEF Place
  <2> QED BY <2>1, <2>3, <2>4, <2>5
<1>2. ASSUME NEW i \in K, NEW j \in K, i < j PROVE Place(K, i) < Place(K, j)
  <2>1. Upto(i) \subseteq Upto(j) /\ j \in Upto(j) /\ j \notin Upto(i)
    <3>1. i \in Int /\ j \in Int /\ i <= j /\ j <= j /\ ~(j <= i)
      BY <1>0, <1>2
    <3>2. \A k \in K : k <= i => k <= j
      BY <1>0, <3>1
    <3> QED BY <3>1, <3>2
  <2>2. Cardinality(Upto(i)) < Cardinality(Upto(j))
    BY <1>1, <2>1, FS_Subset
  <2> QED BY <1>1, <2>2
<1>3. Cardinality(K) \in Nat
  BY FS_CardinalityType
<1>4. ASSUME NEW n \in 1..Cardinality(K) PROVE \E i \in K : Place(K, i) = n
  <2> DEFINE place == [i \in K |-> Place(K, i)]
             N == 1..Cardinality(K)
  <2>1. place \in [K -> N]
    BY <1>1
  <2>2. \A i, j \in K : place[i] = place[j] => i = j
    <3>1. ASSUME NEW i \in K, NEW j \in K, i # j PROVE Place(K, i) # Place(K, j)
      <4>1. i \in Int /\ j \in Int
        BY <1>0
      <4>2. Place(K, i) \in Int /\ Place(K, j) \in Int
        <5>1. \A m : \A k \in 1..m : k \in Int
          OBVIOUS
        <5> QED BY <1>1, <5>1
      <4> QED BY <1>2, <3>1, <4>1, <4>2
    <3> QED BY <3>1
  <2>3. place \in Injection(K, N)
    BY <2>1, <2>2 DEF Injection, IsInjective
  <2>4. IsFiniteSet(N) /\ Cardinality(N) = Cardinality(K)
    BY <1>3, FS_Interval
  <2>5. place \in Surjection(K, N)
    <3> HIDE DEF place, N
    <3> QED BY <2>3, <2>4, FS_Injection
  <2>6. PICK i \in K : place[i] = n
    BY <2>5 DEF Surjection
  <2> QED BY <2>6
<1> QED BY <1>1, <1>2, <1>3, <1>4

\* A selection has the elements at its positions, once each and in their order.
LEMMA OnlyIs ==
    ASSUME NEW S, NEW s \in Seq(S), NEW K \in SUBSET DOMAIN s
    PROVE  /\ Only(s, K) \in Seq(S)
           /\ DOMAIN Only(s, K) = 1..Cardinality(K) /\ Cardinality(K) \in Nat
           /\ \E at \in [1..Cardinality(K) -> K] :
                /\ \A m, n \in 1..Cardinality(K) : m < n => at[m] < at[n]
                /\ \A n \in 1..Cardinality(K) : Only(s, K)[n] = s[at[n]]
                /\ \A i \in K : \E n \in 1..Cardinality(K) : at[n] = i
<1>1. DOMAIN s = 1..Len(s) /\ Len(s) \in Nat
  OBVIOUS
<1>2. K \in SUBSET Int /\ IsFiniteSet(K)
  <2>1. DOMAIN s \in SUBSET Int /\ IsFiniteSet(DOMAIN s)
    BY <1>1, FS_Interval
  <2> QED BY <2>1, FS_Subset
<1>3. /\ Cardinality(K) \in Nat
      /\ \A i \in K : Place(K, i) \in 1..Cardinality(K)
      /\ \A i, j \in K : i < j => Place(K, i) < Place(K, j)
      /\ \A n \in 1..Cardinality(K) : \E i \in K : Place(K, i) = n
  BY <1>2, PlacesAreBijective
<1> DEFINE at == [n \in 1..Cardinality(K) |-> CHOOSE i \in K : Place(K, i) = n]
<1>4. ASSUME NEW n \in 1..Cardinality(K)
      PROVE  at[n] \in K /\ Place(K, at[n]) = n /\ Only(s, K)[n] = s[at[n]]
  BY <1>3 DEF Only
<1>5. at \in [1..Cardinality(K) -> K]
  BY <1>4
<1> HIDE DEF at
<1>6. ASSUME NEW m \in 1..Cardinality(K), NEW n \in 1..Cardinality(K), m < n
      PROVE  at[m] < at[n]
  <2>1. at[m] \in K /\ at[n] \in K /\ at[m] \in Int /\ at[n] \in Int
    BY <1>2, <1>5
  <2>2. ~(at[n] < at[m]) /\ at[n] # at[m]
    BY <1>3, <1>4, <1>6, <2>1
  <2> QED BY <2>1, <2>2
<1>7. ASSUME NEW i \in K PROVE \E n \in 1..Cardinality(K) : at[n] = i
  <2>1. Place(K, i) \in 1..Cardinality(K)
    BY <1>3
  <2>2. at[Place(K, i)] \in K /\ Place(K, at[Place(K, i)]) = Place(K, i)
    BY <1>4, <2>1
  <2>3. at[Place(K, i)] \in Int /\ i \in Int
    BY <1>2, <2>2
  <2>4. Place(K, i) \in Int
    BY <2>1
  <2>5. at[Place(K, i)] = i
    BY <1>3, <2>2, <2>3, <2>4
  <2> QED BY <2>1, <2>5
<1>8. Only(s, K) \in [1..Cardinality(K) -> S]
  <2>1. \A i \in K : s[i] \in S
    BY <1>1, ElementOfSeq
  <2>2. ASSUME NEW n \in 1..Cardinality(K) PROVE s[CHOOSE i \in K : Place(K, i) = n] \in S
    BY <1>3, <2>1
  <2> QED BY <2>2 DEF Only
<1>9. Only(s, K) \in Seq(S)
  BY <1>3, <1>8
<1> QED BY <1>3, <1>4, <1>5, <1>6, <1>7, <1>8, <1>9

\* Of integers that are finitely many one is the least.
LEMMA LeastIs ==
    ASSUME NEW K \in SUBSET Int, IsFiniteSet(K), K # {}
    PROVE  \E i \in K : \A j \in K : i <= j
<1>1. /\ Cardinality(K) \in Nat
      /\ \A i \in K : Place(K, i) \in 1..Cardinality(K)
      /\ \A i, j \in K : i < j => Place(K, i) < Place(K, j)
      /\ \A n \in 1..Cardinality(K) : \E i \in K : Place(K, i) = n
  BY PlacesAreBijective
<1>2. Cardinality(K) # 0
  BY FS_EmptySet
<1>3. PICK i \in K : Place(K, i) = 1
  BY <1>1, <1>2
<1>4. ASSUME NEW j \in K PROVE i <= j
  <2>1. ~(Place(K, j) < 1) /\ i \in Int /\ j \in Int
    BY <1>1
  <2> QED BY <1>1, <1>3, <2>1
<1> QED BY <1>4

\* What is selected is a matter of the selected elements alone.
LEMMA OnlyAgrees ==
    ASSUME NEW s, NEW t, NEW K \in SUBSET Int, IsFiniteSet(K), \A i \in K : t[i] = s[i]
    PROVE  Only(t, K) = Only(s, K)
<1>1. \A n \in 1..Cardinality(K) : \E i \in K : Place(K, i) = n
  BY PlacesAreBijective
<1>2. ASSUME NEW n \in 1..Cardinality(K)
      PROVE  t[CHOOSE i \in K : Place(K, i) = n] = s[CHOOSE i \in K : Place(K, i) = n]
  BY <1>1
<1> QED BY <1>2 DEF Only
----------------------------------------------------------------------------
(* Lists without repetition *)

Lists(S) == {s \in Seq(S) : IsInjective(s)}

\* What is selected of such a list is one.
LEMMA OnlyOfList ==
    ASSUME NEW S, NEW s \in Lists(S), NEW K \in SUBSET DOMAIN s
    PROVE  Only(s, K) \in Lists(S) /\ Range(Only(s, K)) = {s[i] : i \in K}
<1>1. s \in Seq(S) /\ K \in SUBSET DOMAIN s
  BY DEF Lists
<1>0. IsInjective(s) /\ DOMAIN s = 1..Len(s)
  BY DEF Lists
<1>3. PICK at \in [1..Cardinality(K) -> K] :
        /\ \A m, n \in 1..Cardinality(K) : m < n => at[m] < at[n]
        /\ \A n \in 1..Cardinality(K) : Only(s, K)[n] = s[at[n]]
        /\ \A i \in K : \E n \in 1..Cardinality(K) : at[n] = i
  BY <1>1, OnlyIs
<1> DEFINE N == 1..Cardinality(K)
           t == Only(s, K)
<1>2. t \in Seq(S) /\ DOMAIN t = N
  BY <1>1, OnlyIs
<1> HIDE DEF t
<1>4. ASSUME NEW m \in N, NEW n \in N, t[m] = t[n] PROVE m = n
  <2>0. \A k \in N : t[k] = s[at[k]]
    BY <1>3 DEF t
  <2>1. at[m] \in DOMAIN s /\ at[n] \in DOMAIN s /\ at[m] \in Int /\ at[n] \in Int
    BY <1>0
  <2>2. at[m] = at[n]
    BY <1>0, <1>4, <2>0, <2>1 DEF IsInjective
  <2>3. m \in Int /\ n \in Int
    OBVIOUS
  <2> QED BY <1>3, <2>1, <2>2, <2>3
<1>5. t \in Lists(S)
  BY <1>2, <1>4 DEF Lists, IsInjective
<1>6. Range(t) = {s[i] : i \in K}
  <2>1. \A n \in N : t[n] = s[at[n]] /\ at[n] \in K
    BY <1>3 DEF t
  <2>2. \A i \in K : \E n \in N : at[n] = i
    BY <1>3
  <2> HIDE DEF N
  <2> QED BY <1>2, <2>1, <2>2 DEF Range
<1> QED BY <1>5, <1>6 DEF t

\* Two of them that have nothing in common make one.
LEMMA JoinOfLists ==
    ASSUME NEW S, NEW a \in Lists(S), NEW b \in Lists(S), Range(a) \cap Range(b) = {}
    PROVE  a \o b \in Lists(S) /\ Range(a \o b) = Range(a) \cup Range(b)
<1> DEFINE t == a \o b
<1>1. /\ a \in Seq(S) /\ b \in Seq(S) /\ t \in Seq(S) /\ Len(t) = Len(a) + Len(b)
      /\ Len(a) \in Nat /\ Len(b) \in Nat
      /\ DOMAIN a = 1..Len(a) /\ DOMAIN b = 1..Len(b) /\ DOMAIN t = 1..Len(t)
  BY DEF Lists
<1>2. \A i \in DOMAIN t : t[i] = IF i <= Len(a) THEN a[i] ELSE b[i - Len(a)]
  BY <1>1
<1> HIDE DEF t
<1>3. /\ \A i \in DOMAIN a : a[i] \in Range(a) /\ i \in DOMAIN t /\ t[i] = a[i]
      /\ \A i \in DOMAIN b :
            b[i] \in Range(b) /\ i + Len(a) \in DOMAIN t /\ t[i + Len(a)] = b[i]
  <2>1. (\A i \in DOMAIN a : a[i] \in Range(a)) /\ \A i \in DOMAIN b : b[i] \in Range(b)
    BY DEF Range
  <2>2. \A i \in DOMAIN a : i \in DOMAIN t /\ i <= Len(a)
    BY <1>1
  <2>3. \A i \in DOMAIN b : i + Len(a) \in DOMAIN t /\ ~(i + Len(a) <= Len(a)) /\ (i + Len(a)) - Len(a) = i
    BY <1>1
  <2> QED BY <1>2, <2>1, <2>2, <2>3
<1>4. \A i \in DOMAIN t : IF i <= Len(a) THEN i \in DOMAIN a ELSE i - Len(a) \in DOMAIN b
  BY <1>1
<1>5. ASSUME NEW i \in DOMAIN t, NEW j \in DOMAIN t, t[i] = t[j] PROVE i = j
  <2>1. i \in Int /\ j \in Int
    BY <1>1
  <2>2. CASE i <= Len(a) /\ j <= Len(a)
    BY <1>2, <1>4, <1>5, <2>2 DEF Lists, IsInjective
  <2>3. CASE ~(i <= Len(a)) /\ ~(j <= Len(a))
    <3>1. i - Len(a) = j - Len(a)
      BY <1>2, <1>4, <1>5, <2>3 DEF Lists, IsInjective
    <3> QED BY <1>1, <2>1, <3>1
  <2>4. CASE (i <= Len(a)) # (j <= Len(a))
    <3>1. \E x \in Range(a) : x \in Range(b)
      BY <1>2, <1>3, <1>4, <1>5, <2>4
    <3> QED BY <3>1
  <2> QED BY <2>2, <2>3, <2>4
<1>6. Range(t) = Range(a) \cup Range(b)
  <2>1. Range(t) \subseteq Range(a) \cup Range(b)
    BY <1>2, <1>3, <1>4 DEF Range
  <2>2. Range(a) \subseteq Range(t) /\ Range(b) \subseteq Range(t)
    BY <1>3 DEF Range
  <2> QED BY <2>1, <2>2
<1> QED BY <1>1, <1>5, <1>6 DEF t, Lists, IsInjective

\* Two of them with the same elements are equally long.
LEMMA ListsOfOneSet ==
    ASSUME NEW S, NEW a \in Lists(S), NEW b \in Lists(S), Range(a) = Range(b)
    PROVE  Len(a) = Len(b)
<1>1. ASSUME NEW s \in Lists(S)
      PROVE  Cardinality(Range(s)) = Len(s)
  <2>1. s \in [1..Len(s) -> S] /\ Len(s) \in Nat /\ IsInjective(s)
    BY <1>1 DEF Lists
  <2>2. s \in [1..Len(s) -> Range(s)] /\ \A x \in Range(s) : \E i \in 1..Len(s) : s[i] = x
    BY <2>1 DEF Range
  <2>3. ExistsBijection(1..Len(s), Range(s))
    BY <2>1, <2>2 DEF ExistsBijection, Bijection, Injection, Surjection, IsInjective
  <2> QED BY <2>1, <2>3, FS_CountingElements
<1> QED BY <1>1
================================================================================

---------------------------- MODULE RetrievalProofs ----------------------------
(***************************************************************************)
(* Proofs about Retrieval, for any corpus and owners, any rankings of the  *)
(* chunks by the external services, any scores and any limits.             *)
(***************************************************************************)
EXTENDS Retrieval, FiniteSetTheorems, FunctionTheorems, SequenceTheorems,
        WellFoundedInduction, TLAPS

------------------------------------------------------------------------------
(* Induction, by the least counterexample.                                 *)

LEMMA Least ==
    ASSUME NEW T, T \subseteq Nat, T # {}
    PROVE  \E n \in T : \A m \in T : n <= m
<1>1. PICK n \in T : \A m \in T : ~ (<<m, n>> \in OpToRel(<, Nat))
  BY NatLessThanWellFounded, WFMin
<1>2. OpToRel(<, Nat) = {p \in Nat \X Nat : p[1] < p[2]}
  BY DEF OpToRel
<1>3. ASSUME NEW m \in T
      PROVE  n <= m
  <2>1. ~ (<<m, n>> \in {p \in Nat \X Nat : p[1] < p[2]})
    BY <1>1, <1>2
  <2> QED
    BY <2>1
<1> QED
  BY <1>3

LEMMA ByInduction ==
    ASSUME NEW T, 0 \in T, \A n \in Nat : n \in T => n + 1 \in T
    PROVE  \A n \in Nat : n \in T
<1> SUFFICES ASSUME Nat \ T # {}
             PROVE  FALSE
  OBVIOUS
<1>1. PICK n \in Nat \ T : \A m \in Nat \ T : n <= m
  BY Least
<1>2. n - 1 \in Nat \cap T
  BY <1>1
<1> QED
  BY <1>2

------------------------------------------------------------------------------
(* Picking elements of a sequence in an order.                             *)

\* R orders I strictly and totally.
Orders(R, I) ==
    /\ \A i \in I : <<i, i>> \notin R
    /\ \A i, j \in I : i # j => <<i, j>> \in R \/ <<j, i>> \in R
    /\ \A i, j, k \in I : <<i, j>> \in R /\ <<j, k>> \in R => <<i, k>> \in R

\* The n-th index exists, for each n, and a later one is later in the order.
LEMMA OrderedIsOrder ==
    ASSUME NEW I, IsFiniteSet(I), NEW R, Orders(R, I)
    PROVE  /\ Cardinality(I) \in Nat
           /\ Ordered(I, R) \in [1..Cardinality(I) -> I]
           /\ \A i \in I : \E n \in 1..Cardinality(I) : Ordered(I, R)[n] = i
           /\ \A m, n \in 1..Cardinality(I) :
                m < n => <<Ordered(I, R)[m], Ordered(I, R)[n]>> \in R
<1> DEFINE Below(i) == {j \in I : <<j, i>> \in R}
           N == Cardinality(I)
           at == Ordered(I, R)
<1>1. N \in Nat
  BY FS_CardinalityType
<1>2. ASSUME NEW i \in I
      PROVE  IsFiniteSet(Below(i)) /\ Cardinality(Below(i)) \in 0..(N - 1)
  <2>1. IsFiniteSet(I \ {i}) /\ Cardinality(I \ {i}) = N - 1
    BY FS_RemoveElement
  <2>2. Below(i) \in SUBSET (I \ {i})
    BY DEF Orders
  <2>3. IsFiniteSet(Below(i)) /\ Cardinality(Below(i)) <= N - 1
    <3>1. PICK others : others = I \ {i}
      OBVIOUS
    <3>2. PICK below : below = Below(i)
      OBVIOUS
    <3>3. IsFiniteSet(below) /\ Cardinality(below) <= Cardinality(others)
      <4>1. IsFiniteSet(others) /\ below \in SUBSET others
        BY <2>1, <2>2, <3>1, <3>2
      <4> HIDE DEF N, Below
      <4> QED
        BY ONLY <4>1, FS_Subset
    <3> QED
      BY <2>1, <3>1, <3>2, <3>3
  <2>4. Cardinality(Below(i)) \in Nat
    BY <2>3, FS_CardinalityType
  <2> QED
    BY <1>1, <2>3, <2>4
<1>0. \A i \in I : Cardinality(Below(i)) \in Nat /\ Cardinality(Below(i)) <= N - 1
  <2> SUFFICES ASSUME NEW i \in I
               PROVE  Cardinality(Below(i)) \in Nat /\ Cardinality(Below(i)) <= N - 1
    OBVIOUS
  <2>1. Cardinality(Below(i)) \in 0..(N - 1)
    BY <1>2
  <2> HIDE DEF Below
  <2> QED
    BY <1>1, <2>1
<1>3. ASSUME NEW i \in I, NEW k \in I, <<i, k>> \in R
      PROVE  Cardinality(Below(i)) < Cardinality(Below(k))
  <2>1. i \notin Below(i)
    BY DEF Orders
  <2>2. Below(i) \cup {i} \in SUBSET Below(k)
    BY <1>3 DEF Orders
  <2>3. Cardinality(Below(i) \cup {i}) = Cardinality(Below(i)) + 1
    BY <1>2, <2>1, FS_AddElement
  <2>4. Cardinality(Below(i) \cup {i}) <= Cardinality(Below(k))
    BY <1>2, <2>2, FS_Subset
  <2> HIDE DEF Below
  <2> QED
    BY <1>1, <1>2, <2>3, <2>4
<1>4. \A n \in 1..N : \E i \in I : Cardinality(Below(i)) = n - 1
  <2> DEFINE rank == [i \in I |-> Cardinality(Below(i)) + 1]
  <2>1. rank \in [I -> 1..N]
    <3> HIDE DEF Below
    <3> QED
      BY <1>0, <1>1
  <2>2. \A i, k \in I : rank[i] = rank[k] => i = k
    <3> SUFFICES ASSUME NEW i \in I, NEW k \in I, i # k
                 PROVE  rank[i] # rank[k]
      OBVIOUS
    <3>1. <<i, k>> \in R \/ <<k, i>> \in R
      BY DEF Orders
    <3>2. Cardinality(Below(i)) # Cardinality(Below(k))
      <4>1. Cardinality(Below(i)) \in Int /\ Cardinality(Below(k)) \in Int
        BY <1>0
      <4>2. \/ Cardinality(Below(i)) < Cardinality(Below(k))
            \/ Cardinality(Below(k)) < Cardinality(Below(i))
        BY <1>3, <3>1
      <4> HIDE DEF Below
      <4> QED
        BY <4>1, <4>2
    <3>3. Cardinality(Below(i)) \in Int /\ Cardinality(Below(k)) \in Int
      BY <1>0
    <3> HIDE DEF Below
    <3> QED
      BY <3>2, <3>3
  <2>3. rank \in Injection(I, 1..N)
    BY <2>1, <2>2, Fun_IsInj
  <2>4. IsFiniteSet(1..N) /\ Cardinality(1..N) = N
    BY <1>1, FS_Interval
  <2>5. rank \in Surjection(I, 1..N)
    BY <2>3, <2>4, FS_Injection
  <2>6. \A n \in 1..N : \E i \in I : rank[i] = n
    BY <2>5 DEF Surjection
  <2> SUFFICES ASSUME NEW n \in 1..N
               PROVE  \E i \in I : Cardinality(Below(i)) = n - 1
    OBVIOUS
  <2>7. PICK i \in I : rank[i] = n
    BY <2>6
  <2>8. Cardinality(Below(i)) + 1 = n /\ Cardinality(Below(i)) \in Int
    BY <1>0, <2>7
  <2> HIDE DEF Below
  <2> QED
    BY <2>8
<1>5. \A n \in 1..N : at[n] \in I /\ Cardinality(Below(at[n])) = n - 1
  BY <1>4 DEF Ordered
<1>6. at \in [1..N -> I]
  BY <1>5 DEF Ordered
<1>7. ASSUME NEW i \in I
      PROVE  \E n \in 1..N : at[n] = i
  <2> DEFINE n == Cardinality(Below(i)) + 1
  <2>1. n \in 1..N /\ n - 1 = Cardinality(Below(i))
    <3>1. Cardinality(Below(i)) \in Nat /\ Cardinality(Below(i)) <= N - 1
      BY <1>0
    <3>2. PICK c : c = Cardinality(Below(i))
      OBVIOUS
    <3> QED
      BY <1>1, <3>1, <3>2
  <2>2. at[n] \in I /\ Cardinality(Below(at[n])) = Cardinality(Below(i))
    BY <1>5, <2>1
  <2>3. Cardinality(Below(i)) \in Int
    BY <1>0
  <2>4. ASSUME at[n] # i PROVE FALSE
    <3>1. <<at[n], i>> \in R \/ <<i, at[n]>> \in R
      BY <2>2, <2>4 DEF Orders
    <3>2. \/ Cardinality(Below(at[n])) < Cardinality(Below(i))
          \/ Cardinality(Below(i)) < Cardinality(Below(at[n]))
      BY <1>3, <2>2, <3>1
    <3> HIDE DEF Below, n, at
    <3> QED
      BY <2>2, <2>3, <3>2
  <2> HIDE DEF n
  <2> QED
    BY <2>1, <2>4
<1>8. ASSUME NEW m \in 1..N, NEW n \in 1..N, m < n
      PROVE  <<at[m], at[n]>> \in R
  <2>1. at[m] \in I /\ at[n] \in I
    BY <1>5
  <2>2. Cardinality(Below(at[m])) = m - 1 /\ Cardinality(Below(at[n])) = n - 1
    BY <1>5
  <2>3. at[m] # at[n]
    <3> HIDE DEF Below, at
    <3> QED
      BY <1>1, <1>8, <2>2
  <2>4. <<at[n], at[m]>> \notin R
    <3> SUFFICES ASSUME <<at[n], at[m]>> \in R
                 PROVE  FALSE
      OBVIOUS
    <3>1. Cardinality(Below(at[n])) < Cardinality(Below(at[m]))
      BY <1>3, <2>1
    <3> HIDE DEF Below, at
    <3> QED
      BY <1>1, <1>8, <2>2, <3>1
  <2> QED
    BY <2>1, <2>3, <2>4 DEF Orders
<1> QED
  BY <1>1, <1>6, <1>7, <1>8

LEMMA UpToLen ==
    ASSUME NEW n \in Nat
    PROVE  IsFiniteSet(1..n) /\ Cardinality(1..n) = n
<1>1. 1 \in Int /\ n \in Int
  OBVIOUS
<1>2. /\ IsFiniteSet(1..n)
      /\ Cardinality(1..n) = IF 1 > n THEN 0 ELSE n - 1 + 1
  BY <1>1, FS_Interval
<1>3. (IF 1 > n THEN 0 ELSE n - 1 + 1) = n
  OBVIOUS
<1> QED
  BY <1>2, <1>3

\* What is picked out of s, in whatever order.
LEMMA Picked ==
    ASSUME NEW S, NEW s \in Seq(S), NEW I, I \subseteq DOMAIN s, NEW R, Orders(R, I)
    PROVE  /\ IsFiniteSet(I)
           /\ Pick(s, I, R) \in Seq(S)
           /\ Len(Pick(s, I, R)) = Cardinality(I) /\ Cardinality(I) <= Len(s)
           /\ I = DOMAIN s => Len(Pick(s, I, R)) = Len(s)
           /\ DOMAIN Pick(s, I, R) = 1..Cardinality(I)
           /\ \A n \in 1..Cardinality(I) : Pick(s, I, R)[n] = s[Ordered(I, R)[n]]
<1>1. DOMAIN s = 1..Len(s) /\ Len(s) \in Nat
  OBVIOUS
<1>2. IsFiniteSet(1..Len(s)) /\ Cardinality(1..Len(s)) = Len(s)
  BY <1>1, UpToLen
<1>3. IsFiniteSet(I) /\ Cardinality(I) <= Len(s)
  BY <1>1, <1>2, FS_Subset
<1>4. /\ Cardinality(I) \in Nat
      /\ Ordered(I, R) \in [1..Cardinality(I) -> I]
  BY <1>3, OrderedIsOrder
<1>5. Pick(s, I, R) = [n \in 1..Cardinality(I) |-> s[Ordered(I, R)[n]]]
  BY <1>4 DEF Pick
<1>6. \A n \in 1..Cardinality(I) : s[Ordered(I, R)[n]] \in S
  BY <1>1, <1>4
<1>7. Pick(s, I, R) \in Seq(S) /\ Len(Pick(s, I, R)) = Cardinality(I)
  BY <1>4, <1>5, <1>6
<1> QED
  BY <1>1, <1>2, <1>3, <1>5, <1>7

LEMMA EarlierOrders ==
    ASSUME NEW S, NEW s \in Seq(S), NEW I, I \subseteq DOMAIN s
    PROVE  Orders(Earlier(s), I)
<1>1. I \subseteq 1..Len(s) /\ DOMAIN s = 1..Len(s) /\ Len(s) \in Nat
  OBVIOUS
<1> QED
  BY <1>1 DEF Orders, Earlier

\* What a loop that keeps the elements at the indices I makes of s.
LEMMA Kept ==
    ASSUME NEW S, NEW s \in Seq(S), NEW I, I \subseteq DOMAIN s,
           NEW t, t = Pick(s, I, Earlier(s))
    PROVE  /\ t \in Seq(S) /\ Len(t) <= Len(s)
           /\ I = DOMAIN s => Len(t) = Len(s)
           /\ \A n \in DOMAIN t : \E i \in I : t[n] = s[i]
           /\ \A i \in I : \E n \in DOMAIN t : t[n] = s[i]
<1>1. Orders(Earlier(s), I)
  BY EarlierOrders
<1>2. /\ IsFiniteSet(I)
      /\ t \in Seq(S)
      /\ Len(t) = Cardinality(I) /\ Cardinality(I) <= Len(s)
      /\ I = DOMAIN s => Len(t) = Len(s)
      /\ DOMAIN t = 1..Cardinality(I)
      /\ \A n \in 1..Cardinality(I) : t[n] = s[Ordered(I, Earlier(s))[n]]
  BY <1>1, Picked
<1>3. /\ Ordered(I, Earlier(s)) \in [1..Cardinality(I) -> I]
      /\ \A i \in I : \E n \in 1..Cardinality(I) : Ordered(I, Earlier(s))[n] = i
  BY <1>1, <1>2, OrderedIsOrder
<1> QED
  BY <1>2, <1>3

\* What sorting makes of s: the same elements, the greatest keys first.
LEMMA SortedIsSorted ==
    ASSUME NEW S, NEW s \in Seq(S), NEW key \in [DOMAIN s -> Int]
    PROVE  /\ Sorted(s, key) \in Seq(S) /\ Len(Sorted(s, key)) = Len(s)
           /\ DOMAIN Sorted(s, key) = DOMAIN s
           /\ \E from \in [DOMAIN s -> DOMAIN s] :
                /\ \A n \in DOMAIN s : Sorted(s, key)[n] = s[from[n]]
                /\ \A i \in DOMAIN s : \E n \in DOMAIN s : from[n] = i
                /\ \A m, n \in DOMAIN s : m < n => key[from[m]] >= key[from[n]]
<1> DEFINE R == {p \in (DOMAIN s) \X (DOMAIN s) :
                   key[p[1]] > key[p[2]] \/ (key[p[1]] = key[p[2]] /\ p[1] < p[2])}
           from == Ordered(DOMAIN s, R)
<1>1. DOMAIN s = 1..Len(s) /\ Len(s) \in Nat
  OBVIOUS
<1>2. \A i, j \in DOMAIN s :
        (<<i, j>> \in R) <=> (key[i] > key[j] \/ (key[i] = key[j] /\ i < j))
  OBVIOUS
<1>3. \A i \in DOMAIN s : key[i] \in Int /\ i \in Int
  BY <1>1
<1> HIDE DEF R
<1>4. Orders(R, DOMAIN s)
  <2>1. \A i \in DOMAIN s : <<i, i>> \notin R
    BY <1>2, <1>3
  <2>2. \A i, j \in DOMAIN s : i # j => <<i, j>> \in R \/ <<j, i>> \in R
    BY <1>2, <1>3
  <2>3. ASSUME NEW i \in DOMAIN s, NEW j \in DOMAIN s, NEW k \in DOMAIN s,
               <<i, j>> \in R, <<j, k>> \in R
        PROVE  <<i, k>> \in R
    BY <1>2, <1>3, <2>3
  <2> QED
    BY <2>1, <2>2, <2>3 DEF Orders
<1>5. IsFiniteSet(DOMAIN s) /\ Cardinality(DOMAIN s) = Len(s)
  BY <1>1, UpToLen
<1>6. Sorted(s, key) = Pick(s, DOMAIN s, R)
  BY DEF Sorted, R
<1>7. /\ Sorted(s, key) \in Seq(S) /\ Len(Sorted(s, key)) = Len(s)
      /\ DOMAIN Sorted(s, key) = DOMAIN s
      /\ \A n \in DOMAIN s : Sorted(s, key)[n] = s[from[n]]
  BY <1>1, <1>4, <1>5, <1>6, Picked
<1>8. /\ from \in [DOMAIN s -> DOMAIN s]
      /\ \A i \in DOMAIN s : \E n \in DOMAIN s : from[n] = i
      /\ \A m, n \in DOMAIN s : m < n => <<from[m], from[n]>> \in R
  <2>1. 1..Cardinality(DOMAIN s) = DOMAIN s
    BY <1>1, <1>5
  <2>2. PICK I : I = DOMAIN s
    OBVIOUS
  <2>3. IsFiniteSet(I) /\ Orders(R, I)
    BY <1>4, <1>5, <2>2
  <2>4. /\ Ordered(I, R) \in [1..Cardinality(I) -> I]
        /\ \A i \in I : \E n \in 1..Cardinality(I) : Ordered(I, R)[n] = i
        /\ \A m, n \in 1..Cardinality(I) : m < n => <<Ordered(I, R)[m], Ordered(I, R)[n]>> \in R
    BY <2>3, OrderedIsOrder
  <2> QED
    BY <2>1, <2>2, <2>4
<1> HIDE DEF from
<1>9. ASSUME NEW m \in DOMAIN s, NEW n \in DOMAIN s, m < n
      PROVE  key[from[m]] >= key[from[n]]
  <2>1. from[m] \in DOMAIN s /\ from[n] \in DOMAIN s /\ <<from[m], from[n]>> \in R
    BY <1>8, <1>9
  <2>2. key[from[m]] \in Int /\ key[from[n]] \in Int
    BY <1>3, <2>1
  <2>3. key[from[m]] > key[from[n]] \/ key[from[m]] = key[from[n]]
    BY <1>2, <2>1
  <2> QED
    BY <2>2, <2>3
<1> QED
  BY <1>7, <1>8, <1>9

\* The first n elements.
LEMMA Taken ==
    ASSUME NEW S, NEW s \in Seq(S), NEW n \in Nat
    PROVE  /\ Take(s, n) \in Seq(S)
           /\ Len(Take(s, n)) = (IF n <= Len(s) THEN n ELSE Len(s))
           /\ Len(Take(s, n)) <= n /\ Len(Take(s, n)) <= Len(s)
           /\ \A i \in DOMAIN Take(s, n) : i \in DOMAIN s /\ i <= n /\ Take(s, n)[i] = s[i]
           /\ \A i \in DOMAIN s : i <= n => i \in DOMAIN Take(s, n)
<1> DEFINE m == Min({n, Len(s)})
<1>1. m = IF n <= Len(s) THEN n ELSE Len(s)
  BY DEF Min
<1>2. m \in Nat /\ m <= Len(s) /\ m <= n /\ Take(s, n) = SubSeq(s, 1, m)
  BY <1>1 DEF Take
<1> HIDE DEF m
<1>3. \A i \in 1..m : s[i] \in S
  BY <1>2
<1>4. /\ SubSeq(s, 1, m) \in Seq(S) /\ Len(SubSeq(s, 1, m)) = m
      /\ \A i \in 1..m : SubSeq(s, 1, m)[i] = s[i]
  BY <1>2, <1>3, SubSeqProperties
<1> QED
  BY <1>1, <1>2, <1>4

------------------------------------------------------------------------------
(* Every list is what its step makes of the earlier ones.                  *)

Computed ==
    /\ setting \in Settings /\ query \in Queries
    /\ stage \in {"keyword", "dense", "fuse", "rerank", "relevant", "done", "failed"}
    /\ stage = "keyword" => setting.keyword
    /\ \/ keywordHits = <<>>
       \/ setting.keyword /\ keywordHits = KeywordHits
    /\ \/ denseHits = <<>> /\ stage \in {"keyword", "dense", "failed"}
       \/ denseHits = DenseHits
    /\ IF stage \in {"rerank", "relevant", "done"}
       THEN found = Deduplicate(ResolveParents(Fused)) /\ candidates = Candidates(found)
       ELSE found = <<>> /\ candidates = <<>>
    /\ IF stage \in {"relevant", "done"}
       THEN \/ judged \in [DOMAIN candidates -> 0..MaxScore] /\ reranked = Ranked(judged)
            \/ judged = <<>> /\ reranked = Take(candidates, EffectiveTopK)
       ELSE judged = <<>> /\ reranked = <<>>
    /\ cited = IF stage = "done" THEN Relevant(reranked) ELSE <<>>

LEMMA SameHits ==
    ASSUME UNCHANGED <<setting, query>>
    PROVE  KeywordHits' = KeywordHits /\ DenseHits' = DenseHits
<1>1. PostgresHits' = PostgresHits
  BY DEF PostgresHits, Visible, Filter, SortedBy
<1>2. PickleHits' = PickleHits
  BY DEF PickleHits, Filter
<1>3. KeywordHits' = KeywordHits
  BY <1>1, <1>2 DEF KeywordHits
<1>4. NearestSections' = NearestSections
  BY DEF NearestSections, UniqueBy
<1>5. DenseHits' = DenseHits
  BY <1>4 DEF DenseHits, Visible, Filter
<1> QED
  BY <1>3, <1>5

LEMMA SameFound ==
    ASSUME UNCHANGED <<setting, query, keywordHits, denseHits>>
    PROVE  Deduplicate(ResolveParents(Fused))' = Deduplicate(ResolveParents(Fused))
<1>1. Fused' = Fused
  BY DEF Fused, SortedBy, UniqueBy
<1>2. ResolveParents(Fused)' = ResolveParents(Fused)
  BY <1>1 DEF ResolveParents, Visible
<1> QED
  BY <1>2 DEF Deduplicate, UniqueBy

LEMMA SameCandidates ==
    ASSUME UNCHANGED <<setting, query>>
    PROVE  Candidates(found)' = Candidates(found')
BY DEF Candidates, PrioritizeSourceFilenameMatches, SortedBy, Named

LEMMA SameRanking ==
    ASSUME UNCHANGED <<query, candidates>>
    PROVE  Ranked(judged)' = Ranked(judged') /\ EffectiveTopK' = EffectiveTopK
<1>1. EffectiveTopK' = EffectiveTopK
  BY DEF EffectiveTopK
<1> QED
  BY <1>1 DEF Ranked, SortedBy

LEMMA SameRelevant ==
    ASSUME UNCHANGED <<query, reranked>>
    PROVE  Relevant(reranked)' = Relevant(reranked)
BY DEF Relevant, DocumentMatchesEntity, Named, Filter, SortedBy

LEMMA EveryListComputed == Spec => []Computed
<1>1. Init => Computed
  BY DEF Init, Computed
<1>2. Computed /\ [Next]_vars => Computed'
  <2> SUFFICES ASSUME Computed, [Next]_vars
               PROVE  Computed'
    OBVIOUS
  <2> USE DEF Computed
  <2>1. CASE SearchKeyword
    BY <2>1, SameHits DEF SearchKeyword
  <2>2. CASE SearchDense
    BY <2>2, SameHits DEF SearchDense
  <2>3. CASE SearchFails
    BY <2>3, SameHits DEF SearchFails
  <2>4. CASE Fuse
    <3>1. UNCHANGED <<setting, query, keywordHits, denseHits>>
      BY <2>4 DEF Fuse
    <3>2. found' = Deduplicate(ResolveParents(Fused))' /\ candidates' = Candidates(found)'
      BY <2>4, <3>1, SameFound, SameCandidates DEF Fuse
    <3>3. UNCHANGED <<KeywordHits, DenseHits>>
      BY <3>1, SameHits
    <3> QED
      BY <2>4, <3>2, <3>3 DEF Fuse
  <2>5. CASE Rerank
    <3>1. UNCHANGED <<setting, query, keywordHits, denseHits, found, candidates, cited>>
      BY <2>5 DEF Rerank
    <3>2. UNCHANGED <<KeywordHits, DenseHits>>
      BY <3>1, SameHits
    <3>3. found' = Deduplicate(ResolveParents(Fused))' /\ candidates' = Candidates(found)'
      BY <2>5, <3>1, SameFound, SameCandidates DEF Rerank
    <3>4. judged' \in [DOMAIN candidates -> 0..MaxScore] /\ reranked' = Ranked(judged)'
      BY <2>5, <3>1, SameRanking DEF Rerank
    <3> QED
      BY <2>5, <3>1, <3>2, <3>3, <3>4 DEF Rerank
  <2>6. CASE RerankFails
    <3>1. UNCHANGED <<setting, query, keywordHits, denseHits, found, candidates, cited, judged>>
      BY <2>6 DEF RerankFails
    <3>2. UNCHANGED <<KeywordHits, DenseHits>>
      BY <3>1, SameHits
    <3>3. found' = Deduplicate(ResolveParents(Fused))' /\ candidates' = Candidates(found)'
      BY <2>6, <3>1, SameFound, SameCandidates DEF RerankFails
    <3>4. reranked' = Take(candidates, EffectiveTopK)'
      BY <2>6, <3>1, SameRanking DEF RerankFails
    <3> QED
      BY <2>6, <3>1, <3>2, <3>3, <3>4 DEF RerankFails
  <2>7. CASE KeepRelevant
    <3>1. UNCHANGED <<setting, query, keywordHits, denseHits, found, candidates, reranked, judged>>
      BY <2>7 DEF KeepRelevant
    <3>2. UNCHANGED <<KeywordHits, DenseHits>>
      BY <3>1, SameHits
    <3>3. found' = Deduplicate(ResolveParents(Fused))' /\ candidates' = Candidates(found)'
      BY <2>7, <3>1, SameFound, SameCandidates DEF KeepRelevant
    <3>4. UNCHANGED <<Ranked(judged), EffectiveTopK>>
      BY <3>1, SameRanking
    <3>5. cited' = Relevant(reranked)'
      BY <2>7, <3>1, SameRelevant DEF KeepRelevant
    <3> QED
      BY <2>7, <3>1, <3>2, <3>3, <3>4, <3>5 DEF KeepRelevant
  <2>8. CASE UNCHANGED vars
    <3>1. UNCHANGED <<setting, query, stage, keywordHits, denseHits, found, candidates, reranked, cited, judged>>
      BY <2>8 DEF vars
    <3>2. UNCHANGED <<KeywordHits, DenseHits, Deduplicate(ResolveParents(Fused)), Candidates(found),
                      Ranked(judged), EffectiveTopK, Relevant(reranked)>>
      BY <3>1, SameHits, SameFound, SameCandidates, SameRanking, SameRelevant
    <3> QED
      BY <3>1, <3>2
  <2> QED
    BY <2>1, <2>2, <2>3, <2>4, <2>5, <2>6, <2>7, <2>8 DEF Next
<1> QED
  BY <1>1, <1>2, PTL DEF Spec
------------------------------------------------------------------------------
(* What the retrievers return.                                             *)

\* Passages as the retrievers make them, of sections the asker may see.
Seen == {p \in Passage : p.doc_id = None /\ p.score = None /\ Visible(p.section)}

LEMMA InputFacts ==
    ASSUME setting \in Settings, query \in Queries
    PROVE  /\ setting.postgres \in BOOLEAN /\ setting.keyword \in BOOLEAN
           /\ setting.limit \in Nat \ {0}
           /\ query.near \in Seq(Chunks) /\ IsInjective(query.near) /\ ToSet(query.near) = Chunks
           /\ query.words.lexical \in Seq(Chunks)
           /\ query.words.named \in [Files -> Nat]
           /\ query.broad \in BOOLEAN
<1>1. IsQuery(query) /\ setting \in [postgres : BOOLEAN, keyword : BOOLEAN, limit : Nat \ {0}]
  BY RetrievalAssumption
<1> QED
  BY <1>1 DEF IsQuery

LEMMA ConstantFacts ==
    /\ FetchK \in Nat \ {0} /\ BM25K \in Nat \ {0} /\ TopK \in Nat \ {0} /\ Relaxed \in Nat \ {0}
    /\ WideTopK \in Nat /\ MaxScore \in Nat /\ Floor \in 0..MaxScore
    /\ SectionOf \in [Chunks -> Sections]
    /\ None \notin Sections /\ None \notin 0..MaxScore
BY RetrievalAssumption

LEMMA MadePassages ==
    ASSUME NEW x \in Sections \cup Chunks, NEW s \in Sections, Visible(s)
    PROVE  /\ MakePassage(x, s) \in Seen
           /\ MakePassage(x, s).text = TextOf[x] /\ MakePassage(x, s).section = s
BY DEF MakePassage, Seen, Passage, Texts

\* A list of elements in T is one over T.
LEMMA Narrowed ==
    ASSUME NEW S, NEW s \in Seq(S), NEW T, \A i \in DOMAIN s : s[i] \in T
    PROVE  s \in Seq(T)
<1>1. DOMAIN s = 1..Len(s) /\ Len(s) \in Nat
  OBVIOUS
<1>2. s = [i \in 1..Len(s) |-> s[i]]
  OBVIOUS
<1> QED
  BY <1>1, <1>2

LEMMA KeywordHitsSeen ==
    ASSUME setting \in Settings, query \in Queries
    PROVE  KeywordHits \in Seq(Seen) /\ Len(KeywordHits) <= BM25K
<1> DEFINE Own == {c \in Chunks : Visible(SectionOf[c])}
           hits == IF setting.postgres THEN PostgresHits ELSE PickleHits
<1>1. query.words.lexical \in Seq(Chunks) /\ BM25K \in Nat
  BY InputFacts, ConstantFacts
<1>2. PostgresHits \in Seq(Own) /\ Len(PostgresHits) <= BM25K
  <2> DEFINE s == query.words.lexical
             own == Filter(LAMBDA c : Visible(SectionOf[c]), s)
             full == Filter(LAMBDA c : c \in query.words.matched, own)
             InName(c) == PlaceOf[SectionOf[c]][1] \in query.words.entity
             fallback == Filter(LAMBDA c : InName(c) \/ TextOf[c] \in query.words.mentioned, own)
             key == [i \in DOMAIN fallback |-> IF InName(fallback[i]) THEN 1 ELSE 0]
  <2>1. own \in Seq(Own)
    <3> DEFINE I == {i \in DOMAIN s : Visible(SectionOf[s[i]])}
    <3>1. own = Pick(s, I, Earlier(s))
      BY DEF Filter
    <3>2. s \in Seq(Chunks) /\ I \subseteq DOMAIN s /\ \A i \in I : s[i] \in Own
      BY <1>1
    <3> HIDE DEF own, I, s, Own
    <3>3. own \in Seq(Chunks) /\ \A n \in DOMAIN own : own[n] \in Own
      BY <3>1, <3>2, Kept
    <3> QED
      BY <3>3, Narrowed
  <2>2. full \in Seq(Own)
    <3> DEFINE I == {i \in DOMAIN own : own[i] \in query.words.matched}
    <3>1. full = Pick(own, I, Earlier(own)) /\ I \subseteq DOMAIN own
      BY DEF Filter
    <3> HIDE DEF own, I, full, Own
    <3> QED
      BY <2>1, <3>1, Kept
  <2>3. fallback \in Seq(Own)
    <3> DEFINE I == {i \in DOMAIN own : InName(own[i]) \/ TextOf[own[i]] \in query.words.mentioned}
    <3>1. fallback = Pick(own, I, Earlier(own)) /\ I \subseteq DOMAIN own
      BY DEF Filter
    <3> HIDE DEF own, I, fallback, Own
    <3> QED
      BY <2>1, <3>1, Kept
  <2>4. PostgresHits = Take(IF full # <<>> THEN full ELSE Sorted(fallback, key), BM25K)
    BY DEF PostgresHits, SortedBy
  <2> HIDE DEF own, full, fallback, Own
  <2>5. key \in [DOMAIN fallback -> Int]
    OBVIOUS
  <2> HIDE DEF key
  <2>6. Sorted(fallback, key) \in Seq(Own)
    BY <2>3, <2>5, SortedIsSorted
  <2> QED
    BY <1>1, <2>2, <2>4, <2>6, Taken
<1>3. PickleHits \in Seq(Chunks) /\ Len(PickleHits) <= BM25K
  <2> DEFINE s == Take(query.words.lexical, BM25K)
             I == {i \in DOMAIN s : s[i] \in query.words.matched}
  <2>1. PickleHits = Pick(s, I, Earlier(s)) /\ I \subseteq DOMAIN s
    BY DEF PickleHits, Filter
  <2>2. s \in Seq(Chunks) /\ Len(s) <= BM25K /\ Len(s) \in Nat
    BY <1>1, Taken
  <2> HIDE DEF s, I
  <2>3. PickleHits \in Seq(Chunks) /\ Len(PickleHits) <= Len(s)
    BY <2>1, <2>2, Kept
  <2> QED
    BY <1>1, <2>2, <2>3
<1>4. ~ setting.postgres => PickleHits \in Seq(Own)
  BY <1>3, Narrowed DEF Visible
<1>5. hits \in Seq(Own) /\ Len(hits) <= BM25K
  BY <1>2, <1>3, <1>4
<1>6. KeywordHits = [i \in DOMAIN hits |-> ChunkPassage(hits[i])]
  BY DEF KeywordHits
<1> HIDE DEF hits
<1>7. DOMAIN hits = 1..Len(hits) /\ Len(hits) \in Nat /\ \A i \in DOMAIN hits : hits[i] \in Own
  BY <1>5
<1>8. \A i \in DOMAIN hits : ChunkPassage(hits[i]) \in Seen
  BY <1>7, MadePassages, ConstantFacts DEF ChunkPassage
<1> HIDE DEF Own
<1> QED
  BY <1>5, <1>6, <1>7, <1>8

\* The first element with a given key.
LEMMA FirstOf ==
    ASSUME NEW I, I \subseteq Nat, NEW f, NEW i \in I
    PROVE  \E k \in I : f[k] = f[i] /\ \A j \in I : f[j] = f[k] => k <= j
<1> DEFINE T == {j \in I : f[j] = f[i]}
<1>1. T \subseteq Nat /\ T # {}
  OBVIOUS
<1>2. PICK k \in T : \A j \in T : k <= j
  BY <1>1, Least
<1> QED
  BY <1>2

LEMMA NearestSectionsFirst ==
    ASSUME setting \in Settings, query \in Queries
    PROVE  /\ NearestSections \in Seq(Sections) /\ Len(NearestSections) <= FetchK
           /\ \A i \in DOMAIN query.near : i <= FetchK =>
                \E n \in DOMAIN NearestSections : NearestSections[n] = SectionOf[query.near[i]]
<1> DEFINE t == Take(query.near, FetchK)
           s == [i \in DOMAIN t |-> SectionOf[query.near[i]]]
           I == {i \in DOMAIN s : \A j \in DOMAIN s : s[j] = s[i] => i <= j}
<1>1. query.near \in Seq(Chunks) /\ FetchK \in Nat
  BY InputFacts, ConstantFacts
<1>2. /\ t \in Seq(Chunks) /\ Len(t) <= FetchK
      /\ \A i \in DOMAIN t : i \in DOMAIN query.near
      /\ \A i \in DOMAIN query.near : i <= FetchK => i \in DOMAIN t
  BY <1>1, Taken
<1>3. NearestSections = Pick(s, I, Earlier(s))
  BY DEF NearestSections, UniqueBy
<1> HIDE DEF t
<1>4. DOMAIN t = 1..Len(t) /\ Len(t) \in Nat
  BY <1>2
<1>5. \A i \in DOMAIN t : SectionOf[query.near[i]] \in Sections
  BY <1>1, <1>2, ConstantFacts
<1>6. s \in Seq(Sections) /\ Len(s) = Len(t) /\ DOMAIN s = DOMAIN t /\ I \subseteq DOMAIN s
      /\ \A i \in DOMAIN s : s[i] = SectionOf[query.near[i]]
  BY <1>4, <1>5
<1> HIDE DEF s
<1>7. ASSUME NEW i \in DOMAIN s
      PROVE  \E k \in I : s[k] = s[i]
  <2>1. DOMAIN s \subseteq Nat
    BY <1>4, <1>6
  <2>2. PICK k \in DOMAIN s : s[k] = s[i] /\ \A j \in DOMAIN s : s[j] = s[k] => k <= j
    BY <2>1, FirstOf
  <2> QED
    BY <2>2
<1> HIDE DEF I
<1>8. /\ NearestSections \in Seq(Sections) /\ Len(NearestSections) <= Len(s)
      /\ \A i \in I : \E n \in DOMAIN NearestSections : NearestSections[n] = s[i]
  BY <1>3, <1>6, Kept
<1>9. Len(NearestSections) <= FetchK
  BY <1>1, <1>2, <1>4, <1>6, <1>8
<1>10. ASSUME NEW i \in DOMAIN query.near, i <= FetchK
       PROVE  \E n \in DOMAIN NearestSections : NearestSections[n] = SectionOf[query.near[i]]
  <2>1. i \in DOMAIN s /\ s[i] = SectionOf[query.near[i]]
    BY <1>2, <1>6, <1>10
  <2> QED
    BY <1>7, <1>8, <2>1
<1> QED
  BY <1>8, <1>9, <1>10

LEMMA DenseHitsSeen ==
    ASSUME setting \in Settings, query \in Queries
    PROVE  /\ DenseHits \in Seq(Seen) /\ Len(DenseHits) <= FetchK
           /\ \A i \in DOMAIN query.near :
                i <= FetchK /\ Visible(SectionOf[query.near[i]]) =>
                    \E n \in DOMAIN DenseHits :
                        DenseHits[n].text = TextOf[SectionOf[query.near[i]]]
<1> DEFINE s == NearestSections
           I == {i \in DOMAIN s : Visible(s[i])}
           own == Filter(Visible, s)
           Own == {x \in Sections : Visible(x)}
<1>1. s \in Seq(Sections) /\ Len(s) <= FetchK /\ Len(s) \in Nat /\ FetchK \in Nat
  BY NearestSectionsFirst, ConstantFacts
<1>2. own = Pick(s, I, Earlier(s)) /\ I \subseteq DOMAIN s
  BY DEF Filter
<1>3. DenseHits = [i \in DOMAIN own |-> MakePassage(own[i], own[i])]
  BY DEF DenseHits
<1> HIDE DEF s, own
<1>4. \A i \in I : s[i] \in Own
  BY <1>1
<1>5. \A i \in DOMAIN s : Visible(s[i]) => i \in I
  OBVIOUS
<1> HIDE DEF I, Own
<1>6. /\ own \in Seq(Sections) /\ Len(own) <= Len(s)
      /\ \A n \in DOMAIN own : own[n] \in Own
      /\ \A i \in I : \E n \in DOMAIN own : own[n] = s[i]
  BY <1>1, <1>2, <1>4, Kept
<1>7. DOMAIN own = 1..Len(own) /\ Len(own) \in Nat
  BY <1>6
<1>8. \A n \in DOMAIN own : /\ MakePassage(own[n], own[n]) \in Seen
                            /\ MakePassage(own[n], own[n]).text = TextOf[own[n]]
  BY <1>6, MadePassages DEF Own
<1>9. DenseHits \in Seq(Seen) /\ Len(DenseHits) = Len(own) /\ DOMAIN DenseHits = DOMAIN own
      /\ \A n \in DOMAIN own : DenseHits[n].text = TextOf[own[n]]
  BY <1>3, <1>7, <1>8
<1>10. Len(DenseHits) <= FetchK
  BY <1>1, <1>6, <1>7, <1>9
<1>11. ASSUME NEW i \in DOMAIN query.near, i <= FetchK, Visible(SectionOf[query.near[i]])
       PROVE  \E n \in DOMAIN DenseHits :
                DenseHits[n].text = TextOf[SectionOf[query.near[i]]]
  <2>1. PICK k \in DOMAIN s : s[k] = SectionOf[query.near[i]]
    BY <1>11, NearestSectionsFirst DEF s
  <2>2. PICK n \in DOMAIN own : own[n] = s[k]
    BY <1>5, <1>6, <1>11, <2>1
  <2> QED
    BY <1>9, <2>1, <2>2
<1> QED
  BY <1>9, <1>10, <1>11

------------------------------------------------------------------------------
(* Fusion, deduplication and the cut.                                      *)

\* The loop over a list of hits adds up a number.
LEMMA SharesAreNumbers ==
    ASSUME NEW hits \in Seq(Seen), NEW weight \in Nat, NEW text
    PROVE  Share(hits, weight, text) \in Int
<1> DEFINE add(i) == IF hits[i].text = text THEN (weight * Denominator) \div (60 + i) ELSE 0
           L == Len(hits)
           IsSum(g, m) == g = [i \in 0..m |-> IF i = 0 THEN 0 ELSE g[i - 1] + add(i)]
           T == {m \in Nat : \E g : IsSum(g, m) /\ \A i \in 0..m : g[i] \in Int}
<1>1. \A i \in Nat \ {0} : add(i) \in Int
  BY RetrievalAssumption
<1> HIDE DEF add
<1>2. 0 \in T
  <2> DEFINE g == [i \in 0..0 |-> 0]
  <2>1. IsSum(g, 0) /\ \A i \in 0..0 : g[i] \in Int
    OBVIOUS
  <2> QED
    BY <2>1
<1>3. ASSUME NEW m \in Nat, m \in T
      PROVE  m + 1 \in T
  <2>1. PICK g : IsSum(g, m) /\ \A i \in 0..m : g[i] \in Int
    BY <1>3
  <2> DEFINE h == [i \in 0..(m + 1) |-> IF i <= m THEN g[i] ELSE g[m] + add(m + 1)]
  <2>2. \A i \in 0..(m + 1) : h[i] \in Int
    BY <1>1, <2>1
  <2>3. ASSUME NEW i \in 0..(m + 1)
        PROVE  h[i] = IF i = 0 THEN 0 ELSE h[i - 1] + add(i)
    <3>1. CASE i = 0
      BY <2>1, <3>1
    <3>2. CASE i \in 1..m
      BY <2>1, <3>2
    <3>3. CASE i = m + 1
      BY <3>3
    <3> QED
      BY <3>1, <3>2, <3>3
  <2>4. IsSum(h, m + 1)
    BY <2>3
  <2> HIDE DEF h, IsSum
  <2> QED
    BY <2>2, <2>4
<1>4. L \in Nat
  OBVIOUS
<1>5. L \in T
  <2> HIDE DEF T, L
  <2> QED
    BY <1>2, <1>3, <1>4, ByInduction
<1>6. PICK g : IsSum(g, L) /\ \A i \in 0..L : g[i] \in Int
  BY <1>5
<1> DEFINE sum == CHOOSE g0 : IsSum(g0, L)
<1>7. IsSum(sum, L)
  BY <1>6
<1>8. Share(hits, weight, text) = sum[L]
  BY DEF Share, add
<1> DEFINE U == {m \in Nat : m <= L => sum[m] \in Int}
<1> HIDE DEF sum
<1>9. sum[0] \in Int /\ \A m \in Nat : m + 1 <= L => sum[m + 1] = sum[m] + add(m + 1)
  BY <1>4, <1>7
<1>10. 0 \in U /\ \A m \in Nat : m \in U => m + 1 \in U
  BY <1>1, <1>4, <1>9
<1>11. L \in U
  <2> HIDE DEF U
  <2> QED
    BY <1>4, <1>10, ByInduction
<1> QED
  BY <1>4, <1>8, <1>11

LEMMA HitsSeen ==
    ASSUME Computed
    PROVE  /\ keywordHits \in Seq(Seen) /\ Len(keywordHits) <= BM25K
           /\ denseHits \in Seq(Seen) /\ Len(denseHits) <= FetchK
<1>1. setting \in Settings /\ query \in Queries
  BY DEF Computed
<1>2. keywordHits \in Seq(Seen) /\ Len(keywordHits) <= BM25K
  <2>1. CASE keywordHits = <<>>
    BY <2>1, ConstantFacts
  <2>2. CASE keywordHits = KeywordHits
    BY <1>1, <2>2, KeywordHitsSeen
  <2> QED
    BY <2>1, <2>2 DEF Computed
<1>3. denseHits \in Seq(Seen) /\ Len(denseHits) <= FetchK
  <2>1. CASE denseHits = <<>>
    BY <2>1, ConstantFacts
  <2>2. CASE denseHits = DenseHits
    BY <1>1, <2>2, DenseHitsSeen
  <2> QED
    BY <2>1, <2>2 DEF Computed
<1> QED
  BY <1>2, <1>3

LEMMA FusedKeepsTexts ==
    ASSUME Computed
    PROVE  /\ Fused \in Seq(Seen) /\ Len(Fused) <= BM25K + FetchK
           /\ \A n \in DOMAIN denseHits : \E m \in DOMAIN Fused : Fused[m].text = denseHits[n].text
<1> DEFINE Rank(p) == Share(keywordHits, Weights[1], p.text) + Share(denseHits, Weights[2], p.text)
           s == keywordHits \o denseHits
           I == {i \in DOMAIN s : \A j \in DOMAIN s : s[j].text = s[i].text => i <= j}
           t == Pick(s, I, Earlier(s))
           key == [i \in DOMAIN t |-> Rank(t[i])]
<1>1. /\ keywordHits \in Seq(Seen) /\ denseHits \in Seq(Seen)
      /\ Len(keywordHits) \in Nat /\ Len(denseHits) \in Nat
      /\ Len(keywordHits) <= BM25K /\ Len(denseHits) <= FetchK
      /\ BM25K \in Nat /\ FetchK \in Nat
  BY HitsSeen, ConstantFacts
<1>2. CASE ~ setting.keyword
  <2>1. Fused = denseHits
    BY <1>2 DEF Fused
  <2>2. Len(denseHits) <= BM25K + FetchK
    BY <1>1
  <2> QED
    BY <1>1, <2>1, <2>2
<1>3. CASE setting.keyword
  <2>1. Fused = Sorted(t, key)
    BY <1>3 DEF Fused, SortedBy, UniqueBy
  <2>2. /\ s \in Seq(Seen) /\ Len(s) = Len(keywordHits) + Len(denseHits)
        /\ \A n \in DOMAIN denseHits :
             Len(keywordHits) + n \in DOMAIN s /\ s[Len(keywordHits) + n] = denseHits[n]
    BY <1>1
  <2> HIDE DEF s
  <2>3. ASSUME NEW i \in DOMAIN s
        PROVE  \E k \in I : s[k].text = s[i].text
    <3> DEFINE f == [j \in DOMAIN s |-> s[j].text]
    <3>1. DOMAIN s \subseteq Nat
      BY <2>2
    <3>2. PICK k \in DOMAIN s : f[k] = f[i] /\ \A j \in DOMAIN s : f[j] = f[k] => k <= j
      <4> HIDE DEF f
      <4> QED
        BY <3>1, FirstOf
    <3> QED
      BY <3>2
  <2>4. I \subseteq DOMAIN s
    OBVIOUS
  <2> HIDE DEF I
  <2>5. /\ t \in Seq(Seen) /\ Len(t) <= Len(s) /\ Len(t) \in Nat
        /\ \A i \in I : \E n \in DOMAIN t : t[n] = s[i]
    BY <2>2, <2>4, Kept
  <2>6. key \in [DOMAIN t -> Int]
    <3>1. \A i \in DOMAIN t : Rank(t[i]) \in Int
      <4> SUFFICES ASSUME NEW i \in DOMAIN t
                   PROVE  Rank(t[i]) \in Int
        OBVIOUS
      <4>1. Weights[1] \in Nat /\ Weights[2] \in Nat
        BY RetrievalAssumption
      <4>2. Share(keywordHits, Weights[1], t[i].text) \in Int
        BY <1>1, <4>1, SharesAreNumbers
      <4>3. Share(denseHits, Weights[2], t[i].text) \in Int
        BY <1>1, <4>1, SharesAreNumbers
      <4> QED
        BY <4>2, <4>3
    <3> QED
      BY <3>1
  <2> HIDE DEF t, key
  <2>7. /\ Fused \in Seq(Seen) /\ Len(Fused) = Len(t) /\ DOMAIN Fused = DOMAIN t
        /\ \A i \in DOMAIN t : \E n \in DOMAIN t : Fused[n] = t[i]
    BY <2>1, <2>5, <2>6, SortedIsSorted
  <2>8. Len(Fused) <= BM25K + FetchK
    BY <1>1, <2>2, <2>5, <2>7
  <2>9. ASSUME NEW n \in DOMAIN denseHits
        PROVE  \E m \in DOMAIN Fused : Fused[m].text = denseHits[n].text
    <3>1. PICK i \in DOMAIN s : s[i] = denseHits[n]
      BY <2>2
    <3>2. PICK k \in I : s[k].text = s[i].text
      BY <2>3
    <3>3. PICK l \in DOMAIN t : t[l] = s[k]
      BY <2>5
    <3> QED
      BY <2>7, <3>1, <3>2, <3>3
  <2> QED
    BY <2>7, <2>8, <2>9
<1> QED
  BY <1>1, <1>2, <1>3

LEMMA FoundKeepsTexts ==
    ASSUME Computed, stage \in {"rerank", "relevant", "done"}
    PROVE  /\ found \in Seq(Seen) /\ Len(found) <= BM25K + FetchK
           /\ \A n \in DOMAIN denseHits : \E m \in DOMAIN found : found[m].text = denseHits[n].text
<1> DEFINE s == Fused
           I == {i \in DOMAIN s : \A j \in DOMAIN s :
                    <<s[j].place, s[j].text>> = <<s[i].place, s[i].text>> => i <= j}
<1>1. /\ s \in Seq(Seen) /\ Len(s) <= BM25K + FetchK
      /\ \A n \in DOMAIN denseHits : \E m \in DOMAIN s : s[m].text = denseHits[n].text
  BY FusedKeepsTexts
<1>2. ResolveParents(s) = s
  <2>1. \A i \in DOMAIN s : s[i].doc_id = None
    BY <1>1 DEF Seen
  <2>2. ResolveParents(s) = [i \in DOMAIN s |-> s[i]]
    BY <2>1 DEF ResolveParents
  <2> HIDE DEF s
  <2> QED
    BY <1>1, <2>2
<1>3. found = Pick(s, I, Earlier(s))
  BY <1>2 DEF Computed, Deduplicate, UniqueBy
<1> HIDE DEF s
<1>4. ASSUME NEW i \in DOMAIN s
      PROVE  \E k \in I : s[k].text = s[i].text
  <2> DEFINE f == [j \in DOMAIN s |-> <<s[j].place, s[j].text>>]
  <2>1. DOMAIN s \subseteq Nat
    BY <1>1
  <2>2. PICK k \in DOMAIN s : f[k] = f[i] /\ \A j \in DOMAIN s : f[j] = f[k] => k <= j
    <3>1. PICK D : D = DOMAIN s
      OBVIOUS
    <3> HIDE DEF f
    <3>2. \E k \in D : f[k] = f[i] /\ \A j \in D : f[j] = f[k] => k <= j
      BY <2>1, <3>1, FirstOf
    <3> QED
      BY <3>1, <3>2
  <2> QED
    BY <2>2
<1>5. I \subseteq DOMAIN s
  OBVIOUS
<1> HIDE DEF I
<1>6. /\ found \in Seq(Seen) /\ Len(found) <= Len(s)
      /\ \A i \in I : \E n \in DOMAIN found : found[n] = s[i]
  BY <1>1, <1>3, <1>5, Kept
<1>7. Len(found) <= BM25K + FetchK
  <2>1. Len(found) \in Int /\ Len(s) \in Int /\ BM25K + FetchK \in Int
    BY <1>1, <1>6, ConstantFacts
  <2> QED
    BY <1>1, <1>6, <2>1
<1>8. ASSUME NEW n \in DOMAIN denseHits
      PROVE  \E m \in DOMAIN found : found[m].text = denseHits[n].text
  <2>1. PICK i \in DOMAIN s : s[i].text = denseHits[n].text
    BY <1>1
  <2>2. PICK k \in I : s[k].text = s[i].text
    BY <1>4
  <2>3. PICK l \in DOMAIN found : found[l] = s[k]
    BY <1>6
  <2> QED
    BY <2>1, <2>2, <2>3
<1> QED
  BY <1>6, <1>7, <1>8

LEMMA CandidatesAreNamed ==
    ASSUME Computed, stage \in {"rerank", "relevant", "done"}
    PROVE  /\ candidates \in Seq(Seen) /\ Len(candidates) <= setting.limit
           /\ \A p \in ToSet(candidates) : p \in ToSet(found)
           /\ Len(found) <= setting.limit => \A p \in ToSet(found) : p \in ToSet(candidates)
           /\ \A p \in ToSet(found) : p \in ToSet(candidates)
                                      \/ \A q \in ToSet(candidates) : Named(q) >= Named(p)
           /\ \A m, n \in DOMAIN candidates : m < n => Named(candidates[m]) >= Named(candidates[n])
<1> DEFINE key == [i \in DOMAIN found |-> Named(found[i])]
           s == Sorted(found, key)
           limit == setting.limit
<1>1. found \in Seq(Seen) /\ limit \in Nat
  BY FoundKeepsTexts, InputFacts DEF Computed
<1>2. candidates = Take(s, limit)
  BY DEF Computed, Candidates, PrioritizeSourceFilenameMatches, SortedBy
<1>3. \A i \in DOMAIN found : Named(found[i]) \in Nat
  <2>1. query.words.named \in [Files -> Nat]
    BY InputFacts DEF Computed
  <2>2. \A i \in DOMAIN found : found[i].place[1] \in Files
    BY <1>1 DEF Seen, Passage, Files
  <2> QED
    BY <2>1, <2>2 DEF Named
<1>4. key \in [DOMAIN found -> Int] /\ \A i \in DOMAIN found : key[i] = Named(found[i])
  BY <1>3
<1> HIDE DEF key
<1>5. /\ s \in Seq(Seen) /\ Len(s) = Len(found) /\ DOMAIN s = DOMAIN found
      /\ \E from \in [DOMAIN found -> DOMAIN found] :
            /\ \A n \in DOMAIN found : s[n] = found[from[n]]
            /\ \A i \in DOMAIN found : \E n \in DOMAIN found : from[n] = i
            /\ \A m, n \in DOMAIN found : m < n => key[from[m]] >= key[from[n]]
  BY <1>1, <1>4, SortedIsSorted
<1> HIDE DEF s
<1>6. PICK from \in [DOMAIN found -> DOMAIN found] :
            /\ \A n \in DOMAIN found : s[n] = found[from[n]]
            /\ \A i \in DOMAIN found : \E n \in DOMAIN found : from[n] = i
            /\ \A m, n \in DOMAIN found : m < n => key[from[m]] >= key[from[n]]
  BY <1>5
<1>7. /\ candidates \in Seq(Seen) /\ Len(candidates) <= limit
      /\ \A i \in DOMAIN candidates : i \in DOMAIN s /\ i <= limit /\ candidates[i] = s[i]
      /\ \A i \in DOMAIN s : i <= limit => i \in DOMAIN candidates
  BY <1>1, <1>2, <1>5, Taken
<1>8. \A m, n \in DOMAIN found : m < n => Named(s[m]) >= Named(s[n])
  BY <1>4, <1>6
<1>9. \A p \in ToSet(found) : \E n \in DOMAIN s : s[n] = p
  BY <1>5, <1>6 DEF ToSet
<1>10. ASSUME NEW p \in ToSet(candidates)
       PROVE  p \in ToSet(found)
  <2>1. PICK n \in DOMAIN candidates : candidates[n] = p
    BY DEF ToSet
  <2>2. n \in DOMAIN found /\ p = found[from[n]]
    BY <1>5, <1>6, <1>7, <2>1
  <2> QED
    BY <1>6, <2>2 DEF ToSet
<1>11. ASSUME Len(found) <= limit, NEW p \in ToSet(found)
       PROVE  p \in ToSet(candidates)
  <2>1. PICK n \in DOMAIN s : s[n] = p
    BY <1>9
  <2>2. n <= limit
    BY <1>1, <1>5, <1>11
  <2> QED
    BY <1>7, <2>1, <2>2 DEF ToSet
<1>12. ASSUME NEW p \in ToSet(found), p \notin ToSet(candidates), NEW q \in ToSet(candidates)
       PROVE  Named(q) >= Named(p)
  <2>1. PICK n \in DOMAIN s : s[n] = p
    BY <1>9
  <2>2. PICK m \in DOMAIN candidates : candidates[m] = q
    BY DEF ToSet
  <2>3. m \in DOMAIN s /\ m <= limit /\ q = s[m]
    BY <1>7, <2>2
  <2>4. n > limit
    <3>1. ~ (n <= limit)
      BY <1>7, <1>12, <2>1 DEF ToSet
    <3>2. n \in Nat
      BY <1>5
    <3> QED
      BY <1>1, <3>1, <3>2
  <2>5. m < n
    <3>1. m \in Nat /\ n \in Nat /\ limit \in Nat
      <4>1. limit \in Nat
        BY <1>1
      <4>2. s \in Seq(Seen)
        BY <1>5
      <4>3. DOMAIN s \subseteq Nat
        BY ONLY <4>2
      <4> QED
        BY <2>1, <2>3, <4>1, <4>3
    <3> QED
      BY <2>3, <2>4, <3>1
  <2> QED
    BY <1>5, <1>8, <2>1, <2>3, <2>5
<1>13. \A m, n \in DOMAIN candidates : m < n => Named(candidates[m]) >= Named(candidates[n])
  BY <1>5, <1>7, <1>8
<1> QED
  BY <1>7, <1>10, <1>11, <1>12, <1>13

------------------------------------------------------------------------------
(* The reranker and the floor.                                             *)

LEMMA TopKFacts ==
    ASSUME Computed
    PROVE  EffectiveTopK \in Nat \ {0}
<1>1. query.broad \in BOOLEAN
  BY InputFacts DEF Computed
<1>2. Max({TopK, WideTopK}) \in Nat \ {0}
  <2>1. TopK \in Nat \ {0} /\ WideTopK \in Nat
    BY ConstantFacts
  <2>2. Max({TopK, WideTopK}) = IF TopK >= WideTopK THEN TopK ELSE WideTopK
    BY <2>1 DEF Max
  <2> QED
    BY <2>1, <2>2
<1> QED
  BY <1>1, <1>2, ConstantFacts DEF EffectiveTopK

Scored(i) == [candidates[i] EXCEPT !.score = judged[i]]

LEMMA ScoredFacts ==
    ASSUME Computed, stage \in {"relevant", "done"}, judged \in [DOMAIN candidates -> 0..MaxScore],
           NEW i \in DOMAIN candidates
    PROVE  /\ Scored(i) \in Passage /\ Scored(i).score = judged[i] /\ judged[i] \in 0..MaxScore
           /\ Scored(i).text = candidates[i].text /\ Scored(i).place = candidates[i].place
<1>1. candidates[i] \in Passage
  BY CandidatesAreNamed DEF Seen
<1>2. judged[i] \in 0..MaxScore
  OBVIOUS
<1> QED
  BY <1>1, <1>2 DEF Scored, Passage

\* With scores, the best are taken; without, the first.
LEMMA RankedFacts ==
    ASSUME Computed, stage \in {"relevant", "done"}, judged \in [DOMAIN candidates -> 0..MaxScore],
           reranked = Ranked(judged)
    PROVE  /\ reranked \in Seq(Passage) /\ Len(reranked) <= Len(candidates)
           /\ \A p \in ToSet(reranked) : p.score \in 0..MaxScore
           /\ \A i \in DOMAIN candidates :
                \/ Scored(i) \in ToSet(reranked)
                \/ Len(reranked) = EffectiveTopK
                   /\ \A p \in ToSet(reranked) : p.score >= judged[i]
<1> DEFINE s == [i \in DOMAIN candidates |-> Scored(i)]
           key == [i \in DOMAIN s |-> s[i].score]
           t == Sorted(s, key)
           K == EffectiveTopK
<1>1. candidates \in Seq(Seen) /\ DOMAIN candidates = 1..Len(candidates) /\ Len(candidates) \in Nat
  BY CandidatesAreNamed
<1>2. \A i \in DOMAIN candidates : Scored(i) \in Passage /\ Scored(i).score = judged[i]
                                   /\ judged[i] \in 0..MaxScore
  BY ScoredFacts
<1>3. reranked = Take(t, K)
  BY DEF Ranked, SortedBy, Scored
<1>4. /\ s \in Seq(Passage) /\ DOMAIN s = DOMAIN candidates /\ Len(s) = Len(candidates)
      /\ \A i \in DOMAIN candidates : s[i] = Scored(i)
  BY <1>1, <1>2
<1>5. key \in [DOMAIN s -> Int] /\ \A i \in DOMAIN candidates : key[i] = judged[i]
  BY <1>2, <1>4, ConstantFacts
<1>6. K \in Nat
  BY TopKFacts
<1> HIDE DEF s, key, K
<1>7. /\ t \in Seq(Passage) /\ Len(t) = Len(s) /\ DOMAIN t = DOMAIN s
      /\ \E from \in [DOMAIN s -> DOMAIN s] :
            /\ \A n \in DOMAIN s : t[n] = s[from[n]]
            /\ \A i \in DOMAIN s : \E n \in DOMAIN s : from[n] = i
            /\ \A m, n \in DOMAIN s : m < n => key[from[m]] >= key[from[n]]
  <2>1. s \in Seq(Passage) /\ key \in [DOMAIN s -> Int]
    BY <1>4, <1>5
  <2> QED
    <3>1. PICK list : list = s
      OBVIOUS
    <3>2. PICK keys : keys = key
      OBVIOUS
    <3>3. list \in Seq(Passage) /\ keys \in [DOMAIN list -> Int]
      BY <2>1, <3>1, <3>2
    <3>4. /\ Sorted(list, keys) \in Seq(Passage) /\ Len(Sorted(list, keys)) = Len(list)
          /\ DOMAIN Sorted(list, keys) = DOMAIN list
          /\ \E from \in [DOMAIN list -> DOMAIN list] :
               /\ \A n \in DOMAIN list : Sorted(list, keys)[n] = list[from[n]]
               /\ \A i \in DOMAIN list : \E n \in DOMAIN list : from[n] = i
               /\ \A m, n \in DOMAIN list : m < n => keys[from[m]] >= keys[from[n]]
      BY ONLY <3>3, SortedIsSorted
    <3>5. t = Sorted(list, keys)
      BY <3>1, <3>2
    <3> HIDE DEF t
    <3>6. t \in Seq(Passage) /\ Len(t) = Len(s) /\ DOMAIN t = DOMAIN s
      BY <3>1, <3>4, <3>5
    <3>7. PICK from \in [DOMAIN list -> DOMAIN list] :
            /\ \A n \in DOMAIN list : t[n] = list[from[n]]
            /\ \A i \in DOMAIN list : \E n \in DOMAIN list : from[n] = i
            /\ \A m, n \in DOMAIN list : m < n => keys[from[m]] >= keys[from[n]]
      BY <3>4, <3>5
    <3>8. /\ from \in [DOMAIN s -> DOMAIN s]
          /\ \A n \in DOMAIN s : t[n] = s[from[n]]
          /\ \A i \in DOMAIN s : \E n \in DOMAIN s : from[n] = i
          /\ \A m, n \in DOMAIN s : m < n => key[from[m]] >= key[from[n]]
      BY <3>1, <3>2, <3>7
    <3> QED
      BY <3>6, <3>8
<1> HIDE DEF t
<1>8. PICK from \in [DOMAIN s -> DOMAIN s] :
            /\ \A n \in DOMAIN s : t[n] = s[from[n]]
            /\ \A i \in DOMAIN s : \E n \in DOMAIN s : from[n] = i
            /\ \A m, n \in DOMAIN s : m < n => key[from[m]] >= key[from[n]]
  BY <1>7
<1>9. /\ reranked \in Seq(Passage)
      /\ Len(reranked) = (IF K <= Len(t) THEN K ELSE Len(t)) /\ Len(reranked) <= Len(t)
      /\ \A i \in DOMAIN reranked : i \in DOMAIN t /\ i <= K /\ reranked[i] = t[i]
      /\ \A i \in DOMAIN t : i <= K => i \in DOMAIN reranked
  BY <1>3, <1>6, <1>7, Taken
<1>10. ASSUME NEW n \in DOMAIN candidates
       PROVE  from[n] \in DOMAIN candidates /\ t[n] = Scored(from[n]) /\ t[n].score = judged[from[n]]
  <2>1. from[n] \in DOMAIN candidates /\ t[n] = s[from[n]]
    BY <1>4, <1>8
  <2>2. t[n] = Scored(from[n])
    BY <1>4, <2>1
  <2> QED
    BY <1>2, <2>1, <2>2
<1>11. \A p \in ToSet(reranked) : p.score \in 0..MaxScore
  <2> SUFFICES ASSUME NEW n \in DOMAIN reranked
               PROVE  reranked[n].score \in 0..MaxScore
    BY DEF ToSet
  <2>1. n \in DOMAIN candidates /\ reranked[n] = t[n]
    BY <1>4, <1>7, <1>9
  <2> QED
    BY <1>2, <1>10, <2>1
<1>12. ASSUME NEW i \in DOMAIN candidates, Scored(i) \notin ToSet(reranked)
       PROVE  Len(reranked) = K /\ \A p \in ToSet(reranked) : p.score >= judged[i]
  <2>1. PICK n \in DOMAIN candidates : from[n] = i
    BY <1>4, <1>8
  <2>2. t[n] = Scored(i) /\ n \in DOMAIN t
    BY <1>4, <1>7, <1>10, <2>1
  <2>3. n \notin DOMAIN reranked
    BY <1>9, <1>12, <2>2 DEF ToSet
  <2>4. n > K
    <3>1. ~ (n <= K)
      BY <1>9, <2>2, <2>3
    <3>2. n \in Nat
      BY <1>1
    <3> QED
      BY <1>6, <3>1, <3>2
  <2>5. Len(reranked) = K
    <3>1. n <= Len(t) /\ n \in Nat /\ Len(t) \in Nat
      BY <1>1, <1>4, <1>7
    <3> QED
      BY <1>6, <1>9, <2>4, <3>1
  <2>6. ASSUME NEW m \in DOMAIN reranked
        PROVE  reranked[m].score >= judged[i]
    <3>1. m \in DOMAIN candidates /\ m <= K /\ reranked[m] = t[m]
      BY <1>4, <1>7, <1>9
    <3>2. m < n
      <4>1. m \in Nat /\ n \in Nat
        BY <1>1, <3>1
      <4> QED
        BY <1>6, <2>4, <3>1, <4>1
    <3>3. key[from[m]] >= key[from[n]]
      BY <1>4, <1>8, <3>1, <3>2
    <3> QED
      BY <1>5, <1>10, <2>1, <3>1, <3>3
  <2> QED
    BY <2>5, <2>6 DEF ToSet
<1>13. Len(reranked) <= Len(candidates)
  BY <1>4, <1>7, <1>9
<1> QED
  BY <1>9, <1>11, <1>12, <1>13 DEF K

LEMMA UnrankedFacts ==
    ASSUME Computed, stage \in {"relevant", "done"}, reranked = Take(candidates, EffectiveTopK)
    PROVE  /\ reranked \in Seq(Seen)
           /\ \A p \in ToSet(reranked) : p \in ToSet(candidates) /\ p.score = None
           /\ \A p \in ToSet(candidates) : p \in ToSet(reranked)
                                           \/ \A q \in ToSet(reranked) : Named(q) >= Named(p)
<1> DEFINE K == EffectiveTopK
<1>1. /\ candidates \in Seq(Seen) /\ K \in Nat
      /\ \A m, n \in DOMAIN candidates : m < n => Named(candidates[m]) >= Named(candidates[n])
  BY CandidatesAreNamed, TopKFacts
<1> HIDE DEF K
<1>2. /\ reranked \in Seq(Seen)
      /\ \A i \in DOMAIN reranked : i \in DOMAIN candidates /\ i <= K /\ reranked[i] = candidates[i]
      /\ \A i \in DOMAIN candidates : i <= K => i \in DOMAIN reranked
  BY <1>1, Taken DEF K
<1>3. ASSUME NEW p \in ToSet(reranked)
      PROVE  p \in ToSet(candidates) /\ p.score = None
  <2>1. PICK n \in DOMAIN reranked : reranked[n] = p
    BY DEF ToSet
  <2>2. p \in Seen
    BY <1>2, <2>1
  <2> QED
    BY <1>2, <2>1, <2>2 DEF ToSet, Seen
<1>4. ASSUME NEW p \in ToSet(candidates), p \notin ToSet(reranked), NEW q \in ToSet(reranked)
      PROVE  Named(q) >= Named(p)
  <2>1. PICK n \in DOMAIN candidates : candidates[n] = p
    BY DEF ToSet
  <2>2. PICK m \in DOMAIN reranked : reranked[m] = q
    BY DEF ToSet
  <2>3. m \in DOMAIN candidates /\ m <= K /\ candidates[m] = q
    BY <1>2, <2>2
  <2>4. ~ (n <= K)
    BY <1>2, <1>4, <2>1 DEF ToSet
  <2>5. m < n
    <3>1. m \in Nat /\ n \in Nat
      BY <1>1, <2>3
    <3> QED
      BY <1>1, <2>3, <2>4, <3>1
  <2> QED
    BY <1>1, <2>1, <2>3, <2>5
<1> QED
  BY <1>2, <1>3, <1>4

\* The two ways a list comes back: nothing is judged, or every candidate is.
LEMMA RerankedFacts ==
    ASSUME Computed, stage \in {"relevant", "done"}
    PROVE  \/ judged = <<>> /\ reranked = Take(candidates, EffectiveTopK)
           \/ /\ judged \in [DOMAIN candidates -> 0..MaxScore] /\ judged # <<>>
              /\ reranked = Ranked(judged)
<1>1. CASE judged = <<>> /\ reranked = Take(candidates, EffectiveTopK)
  BY <1>1
<1>2. CASE judged \in [DOMAIN candidates -> 0..MaxScore] /\ reranked = Ranked(judged)
  <2>1. CASE judged # <<>>
    BY <1>2, <2>1
  <2>2. CASE judged = <<>>
    <3>1. candidates \in Seq(Seen) /\ EffectiveTopK \in Nat
      BY CandidatesAreNamed, TopKFacts
    <3>2. DOMAIN candidates = {} /\ Len(candidates) = 0
      BY <1>2, <2>2, <3>1
    <3>3. reranked \in Seq(Passage) /\ Len(reranked) <= Len(candidates)
      BY <1>2, RankedFacts
    <3>4. reranked = <<>>
      BY <3>2, <3>3
    <3>5. Take(candidates, EffectiveTopK) \in Seq(Seen)
          /\ Len(Take(candidates, EffectiveTopK)) <= Len(candidates)
      BY <3>1, Taken
    <3>6. Take(candidates, EffectiveTopK) = <<>>
      BY <3>2, <3>5
    <3> QED
      BY <2>2, <3>4, <3>6
  <2> QED
    BY <2>1, <2>2
<1> QED
  BY <1>1, <1>2 DEF Computed

\* What is cited of a list without scores, and of one with scores.
LEMMA UnscoredAreCited ==
    ASSUME NEW s \in Seq(Passage), \A p \in ToSet(s) : p.score = None
    PROVE  Relevant(s) = s
<1> DEFINE I == {i \in DOMAIN s : s[i].score # None}
           scored == Filter(LAMBDA p : p.score # None, s)
<1>1. scored = Pick(s, I, Earlier(s))
  BY DEF Filter
<1>2. I = {}
  BY DEF ToSet
<1>3. /\ scored \in Seq(Passage)
      /\ \A n \in DOMAIN scored : \E i \in I : scored[n] = s[i]
  <2> HIDE DEF scored, I
  <2>1. I \subseteq DOMAIN s
    BY <1>2
  <2> QED
    BY <1>1, <2>1, Kept
<1>4. scored = <<>>
  <2> HIDE DEF scored, I
  <2>1. DOMAIN scored = {}
    BY <1>2, <1>3
  <2>2. Len(scored) = 0
    BY <1>3, <2>1
  <2> QED
    BY <1>3, <2>2
<1> QED
  BY <1>4 DEF Relevant

LEMMA ScoredAreCited ==
    ASSUME NEW s \in Seq(Passage), s # <<>>, \A p \in ToSet(s) : p.score \in 0..MaxScore
    PROVE  /\ Relevant(s) \in Seq(Passage) /\ ToSet(Relevant(s)) \subseteq ToSet(s)
           /\ (\E p \in ToSet(s) : p.score >= Floor) =>
                /\ ToSet(Relevant(s)) = {p \in ToSet(s) : p.score >= Floor}
                /\ (\A p \in ToSet(s) : p.score >= Floor) => Len(Relevant(s)) = Len(s)
           /\ (\A p \in ToSet(s) : p.score < Floor) =>
                /\ \A p \in ToSet(Relevant(s)) : DocumentMatchesEntity(p)
                /\ Relevant(s) = <<>> => \A p \in ToSet(s) : ~ DocumentMatchesEntity(p)
<1> DEFINE I == {i \in DOMAIN s : s[i].score # None}
           scored == Filter(LAMBDA p : p.score # None, s)
           J == {i \in DOMAIN scored : scored[i].score >= Floor}
           relevant == Filter(LAMBDA p : p.score >= Floor, scored)
           M == {i \in DOMAIN scored : DocumentMatchesEntity(scored[i])}
           matched == Filter(DocumentMatchesEntity, scored)
           key == [i \in DOMAIN matched |-> matched[i].score]
           best == Take(Sorted(matched, key), Relaxed)
<1>1. /\ scored = Pick(s, I, Earlier(s)) /\ relevant = Pick(scored, J, Earlier(scored))
      /\ matched = Pick(scored, M, Earlier(scored))
      /\ Relevant(s) = IF scored = <<>> THEN s ELSE IF relevant # <<>> THEN relevant ELSE best
  BY DEF Filter, Relevant, SortedBy
<1>2. /\ I = DOMAIN s /\ J \subseteq DOMAIN scored /\ M \subseteq DOMAIN scored
      /\ \A i \in DOMAIN scored : scored[i].score >= Floor => i \in J
      /\ \A i \in J : scored[i].score >= Floor
      /\ \A i \in DOMAIN scored : DocumentMatchesEntity(scored[i]) => i \in M
      /\ \A i \in M : DocumentMatchesEntity(scored[i])
  <2>1. \A i \in DOMAIN s : s[i].score # None
    BY ConstantFacts DEF ToSet
  <2> HIDE DEF scored
  <2> QED
    BY <2>1
<1> HIDE DEF scored, relevant, matched, I, J, M
<1>3. /\ scored \in Seq(Passage) /\ Len(scored) = Len(s)
      /\ \A n \in DOMAIN scored : \E i \in DOMAIN s : scored[n] = s[i]
      /\ \A i \in DOMAIN s : \E n \in DOMAIN scored : scored[n] = s[i]
  BY <1>1, <1>2, Kept
<1>4. scored # <<>>
  BY <1>3
<1>5. /\ relevant \in Seq(Passage) /\ (J = DOMAIN scored => Len(relevant) = Len(scored))
      /\ \A n \in DOMAIN relevant : \E i \in J : relevant[n] = scored[i]
      /\ \A i \in J : \E n \in DOMAIN relevant : relevant[n] = scored[i]
  <2>1. scored \in Seq(Passage) /\ J \subseteq DOMAIN scored
        /\ relevant = Pick(scored, J, Earlier(scored))
    BY <1>1, <1>2, <1>3
  <2> QED
    BY <2>1, Kept
<1>6. /\ matched \in Seq(Passage)
      /\ \A n \in DOMAIN matched : \E i \in M : matched[n] = scored[i]
      /\ \A i \in M : \E n \in DOMAIN matched : matched[n] = scored[i]
  <2>1. scored \in Seq(Passage) /\ M \subseteq DOMAIN scored
        /\ matched = Pick(scored, M, Earlier(scored))
    BY <1>1, <1>2, <1>3
  <2> QED
    BY <2>1, Kept
<1>7. ToSet(scored) = ToSet(s)
  BY <1>3 DEF ToSet
<1>8. ToSet(relevant) = {p \in ToSet(s) : p.score >= Floor}
  <2>1. ASSUME NEW p \in ToSet(relevant)
        PROVE  p \in ToSet(s) /\ p.score >= Floor
    <3>1. PICK n \in DOMAIN relevant : relevant[n] = p
      BY DEF ToSet
    <3>2. PICK i \in J : p = scored[i]
      BY <1>5, <3>1
    <3> QED
      BY <1>2, <1>7, <3>2 DEF ToSet
  <2>2. ASSUME NEW p \in ToSet(s), p.score >= Floor
        PROVE  p \in ToSet(relevant)
    <3>1. PICK i \in DOMAIN scored : scored[i] = p
      BY <1>7 DEF ToSet
    <3>2. i \in J
      BY <1>2, <2>2, <3>1
    <3> QED
      BY <1>5, <3>1, <3>2 DEF ToSet
  <2> QED
    BY <2>1, <2>2
<1>9. ToSet(matched) = {p \in ToSet(s) : DocumentMatchesEntity(p)}
  <2>1. ASSUME NEW p \in ToSet(matched)
        PROVE  p \in ToSet(s) /\ DocumentMatchesEntity(p)
    <3>1. PICK n \in DOMAIN matched : matched[n] = p
      BY DEF ToSet
    <3>2. PICK i \in M : p = scored[i]
      BY <1>6, <3>1
    <3> QED
      BY <1>2, <1>7, <3>2 DEF ToSet
  <2>2. ASSUME NEW p \in ToSet(s), DocumentMatchesEntity(p)
        PROVE  p \in ToSet(matched)
    <3>1. PICK i \in DOMAIN scored : scored[i] = p
      BY <1>7 DEF ToSet
    <3>2. i \in M
      BY <1>2, <2>2, <3>1
    <3> QED
      BY <1>6, <3>1, <3>2 DEF ToSet
  <2> QED
    BY <2>1, <2>2
<1>10. key \in [DOMAIN matched -> Int]
  <2>1. ASSUME NEW i \in DOMAIN matched
        PROVE  matched[i].score \in Int
    <3>1. matched[i] \in ToSet(s)
      BY <1>9 DEF ToSet
    <3> QED
      BY <3>1, ConstantFacts
  <2> QED
    BY <2>1
<1> DEFINE t == Sorted(matched, key)
<1>11. /\ t \in Seq(Passage) /\ Len(t) = Len(matched)
       /\ \A n \in DOMAIN t : \E i \in DOMAIN matched : t[n] = matched[i]
  <2> HIDE DEF key
  <2> QED
    BY <1>6, <1>10, SortedIsSorted
<1> HIDE DEF t
<1>12. /\ best \in Seq(Passage)
       /\ Len(best) = IF Relaxed <= Len(t) THEN Relaxed ELSE Len(t)
       /\ \A n \in DOMAIN best : n \in DOMAIN t /\ best[n] = t[n]
  <2>1. Relaxed \in Nat /\ best = Take(t, Relaxed)
    BY ConstantFacts DEF t
  <2> HIDE DEF best
  <2> QED
    BY <1>11, <2>1, Taken
<1> HIDE DEF best
<1>13. ToSet(best) \subseteq ToSet(matched)
  BY <1>11, <1>12 DEF ToSet
<1>14. best = <<>> => ToSet(matched) = {}
  <2> SUFFICES ASSUME best = <<>>
               PROVE  DOMAIN matched = {}
    BY DEF ToSet
  <2>1. Len(best) = 0 /\ Len(matched) \in Nat
    BY <1>6
  <2> QED
    BY <1>6, <1>11, <1>12, <2>1, ConstantFacts
<1>15. CASE relevant # <<>>
  <2>1. Relevant(s) = relevant
    BY <1>1, <1>4, <1>15
  <2>2. \E p \in ToSet(s) : p.score >= Floor
    <3>1. 1 \in DOMAIN relevant
      BY <1>5, <1>15
    <3> QED
      BY <1>8, <3>1 DEF ToSet
  <2>3. ~ \A p \in ToSet(s) : p.score < Floor
    <3>1. \A p \in ToSet(s) : p.score \in Int /\ Floor \in Int
      BY ConstantFacts
    <3> QED
      BY <2>2, <3>1
  <2>4. (\A p \in ToSet(s) : p.score >= Floor) => Len(Relevant(s)) = Len(s)
    <3> SUFFICES ASSUME \A p \in ToSet(s) : p.score >= Floor
                 PROVE  Len(relevant) = Len(s)
      BY <2>1
    <3>1. \A i \in DOMAIN scored : scored[i] \in ToSet(s)
      BY <1>7 DEF ToSet
    <3>2. J = DOMAIN scored
      BY <1>2, <3>1
    <3> QED
      BY <1>3, <1>5, <3>2
  <2> QED
    BY <1>5, <1>8, <2>1, <2>3, <2>4
<1>16. CASE relevant = <<>>
  <2>1. Relevant(s) = best
    BY <1>1, <1>4, <1>16
  <2>2. ToSet(relevant) = {}
    BY <1>16 DEF ToSet
  <2>3. ~ \E p \in ToSet(s) : p.score >= Floor
    BY <1>8, <2>2
  <2> QED
    BY <1>9, <1>12, <1>13, <1>14, <2>1, <2>3
<1> QED
  BY <1>15, <1>16

------------------------------------------------------------------------------
(* The properties.                                                         *)

\* Every list holds passages, as many as the limits of its step, and a list of
\* scores goes with the candidates it judges.
THEOREM SearchTypeCorrect == Spec => []TypeOK
<1>1. Computed => TypeOK
  <2> SUFFICES ASSUME Computed
               PROVE  TypeOK
    OBVIOUS
  <2>1. keywordHits \in Seq(Seen) /\ denseHits \in Seq(Seen)
        /\ Len(keywordHits) <= BM25K /\ Len(denseHits) <= FetchK
    BY HitsSeen
  <2>2. found \in Seq(Seen) /\ candidates \in Seq(Seen) /\ Len(candidates) <= setting.limit
    <3>1. CASE stage \in {"rerank", "relevant", "done"}
      BY <3>1, FoundKeepsTexts, CandidatesAreNamed
    <3>2. CASE stage \notin {"rerank", "relevant", "done"}
      <4>1. found = <<>> /\ candidates = <<>> /\ setting.limit \in Nat
        BY <3>2, InputFacts DEF Computed
      <4> QED
        BY <4>1
    <3> QED
      BY <3>1, <3>2
  <2>3. /\ reranked \in Seq(Passage)
        /\ \A p, q \in ToSet(reranked) : (p.score = None) <=> (q.score = None)
        /\ ToSet(judged) \subseteq 0..MaxScore
        /\ judged # <<>> => Len(judged) = Len(candidates)
    <3>1. CASE stage \notin {"relevant", "done"}
      <4>1. reranked = <<>> /\ judged = <<>>
        BY <3>1 DEF Computed
      <4> QED
        BY <4>1 DEF ToSet
    <3>2. CASE stage \in {"relevant", "done"} /\ judged = <<>>
               /\ reranked = Take(candidates, EffectiveTopK)
      <4>1. reranked \in Seq(Seen) /\ \A p \in ToSet(reranked) : p.score = None
        BY <3>2, UnrankedFacts
      <4>2. reranked \in Seq(Passage)
        BY <4>1 DEF Seen
      <4>3. ToSet(judged) = {}
        BY <3>2 DEF ToSet
      <4> QED
        BY <3>2, <4>1, <4>2, <4>3
    <3>3. CASE stage \in {"relevant", "done"} /\ judged \in [DOMAIN candidates -> 0..MaxScore]
               /\ reranked = Ranked(judged)
      <4>1. reranked \in Seq(Passage) /\ \A p \in ToSet(reranked) : p.score \in 0..MaxScore
        BY <3>3, RankedFacts
      <4>2. \A p \in ToSet(reranked) : p.score # None
        BY <4>1, ConstantFacts
      <4>3. Len(judged) = Len(candidates)
        BY <2>2, <3>3
      <4>4. ToSet(judged) \subseteq 0..MaxScore
        BY <3>3 DEF ToSet
      <4> QED
        BY <4>1, <4>2, <4>3, <4>4
    <3> QED
      BY <3>1, <3>2, <3>3, RerankedFacts
  <2>4. cited \in Seq(Passage)
    <3>1. CASE stage # "done"
      BY <3>1 DEF Computed
    <3>2. CASE stage = "done" /\ \A p \in ToSet(reranked) : p.score = None
      BY <2>3, <3>2, UnscoredAreCited DEF Computed
    <3>3. CASE stage = "done" /\ \E p \in ToSet(reranked) : p.score # None
      <4>1. \A p \in ToSet(reranked) : p.score # None
        BY <2>3, <3>3
      <4>2. judged \in [DOMAIN candidates -> 0..MaxScore] /\ reranked = Ranked(judged)
        BY <3>3, RerankedFacts, UnrankedFacts
      <4>3. \A p \in ToSet(reranked) : p.score \in 0..MaxScore
        BY <3>3, <4>2, RankedFacts
      <4>4. reranked # <<>>
        BY <3>3 DEF ToSet
      <4> QED
        BY <2>3, <3>3, <4>3, <4>4, ScoredAreCited DEF Computed
    <3> QED
      BY <3>1, <3>2, <3>3
  <2>5. {keywordHits, denseHits, found, candidates, reranked, cited} \subseteq Seq(Passage)
    <3>1. Seen \subseteq Passage
      BY DEF Seen
    <3> QED
      BY <2>1, <2>2, <2>3, <2>4, <3>1
  <2>6. \A p \in ToSet(keywordHits \o denseHits \o found \o candidates) : p.score = None
    <3>1. keywordHits \o denseHits \o found \o candidates \in Seq(Seen)
      BY <2>1, <2>2
    <3> QED
      BY <3>1 DEF ToSet, Seen
  <2> QED
    BY <2>1, <2>2, <2>3, <2>5, <2>6 DEF TypeOK, Computed
<1> QED
  BY <1>1, EveryListComputed, PTL

\* On Postgres nothing found belongs to another tenant, whatever the one
\* collection of everybody's points ranks nearest.
THEOREM OwnPassages == Spec => []OwnPassagesOnly
<1>1. Computed => OwnPassagesOnly
  <2> SUFFICES ASSUME Computed, setting.postgres, NEW p \in ToSet(found)
               PROVE  OwnerOf[p.section] = Asker
    BY DEF OwnPassagesOnly
  <2>1. found \in Seq(Seen)
    <3>1. CASE stage \in {"rerank", "relevant", "done"}
      BY <3>1, FoundKeepsTexts
    <3>2. CASE found = <<>>
      BY <3>2
    <3> QED
      BY <3>1, <3>2 DEF Computed
  <2> QED
    BY <2>1 DEF ToSet, Seen, Visible
<1> QED
  BY <1>1, EveryListComputed, PTL

\* The nearest section of the asker goes to the reranker, through fusion,
\* deduplication and cut, unless FetchK points of others are nearer.
THEOREM NearestIsFound == Spec => []NearestFoundUnlessCrowded
<1>1. Computed => NearestFoundUnlessCrowded
  <2> DEFINE nearer(c) == {d \in Chunks : Position(d) < Position(c)}
  <2> SUFFICES ASSUME Computed, NEW c \in Chunks,
                      stage \in {"rerank", "relevant", "done"},
                      setting.limit >= FetchK + BM25K, Visible(SectionOf[c]),
                      ~ (Cardinality(nearer(c)) >= FetchK)
               PROVE  \E p \in ToSet(candidates) : p.text = TextOf[SectionOf[c]]
    BY DEF NearestFoundUnlessCrowded
  <2> DEFINE near == query.near
             P == Position(c)
             f == [i \in 1..(P - 1) |-> near[i]]
  <2>1. /\ setting \in Settings /\ query \in Queries /\ denseHits = DenseHits
        /\ near \in Seq(Chunks) /\ DOMAIN near = 1..Len(near) /\ Len(near) \in Nat
        /\ \A i, j \in DOMAIN near : near[i] = near[j] => i = j
        /\ \A d \in Chunks : \E i \in DOMAIN near : near[i] = d
    <3>1. setting \in Settings /\ query \in Queries /\ denseHits = DenseHits
      BY DEF Computed
    <3> QED
      BY <3>1, InputFacts DEF IsInjective, ToSet
  <2>2. \A d \in Chunks : Position(d) \in DOMAIN near /\ near[Position(d)] = d
    BY <2>1 DEF Position
  <2>3. ASSUME NEW i \in DOMAIN near
        PROVE  Position(near[i]) = i
    <3>1. near[i] \in Chunks
      BY <2>1
    <3>2. Position(near[i]) \in DOMAIN near /\ near[Position(near[i])] = near[i]
      BY <2>2, <3>1
    <3> HIDE DEF near
    <3> QED
      BY <2>1, <3>2
  <2> HIDE DEF near
  <2>4. P \in 1..Len(near) /\ near[P] = c
    BY <2>1, <2>2
  <2> HIDE DEF P
  <2>5. \A i \in 1..(P - 1) : near[i] \in Chunks /\ Position(near[i]) = i
    BY <2>1, <2>3, <2>4
  <2>6. nearer(c) = {d \in Chunks : Position(d) < P}
    BY DEF P
  <2>7. \A d \in nearer(c) : Position(d) \in 1..(P - 1) /\ near[Position(d)] = d
    BY <2>1, <2>2, <2>4, <2>6
  <2>8. f \in [1..(P - 1) -> nearer(c)]
    BY <2>4, <2>5, <2>6
  <2> HIDE DEF nearer
  <2>9. f \in Surjection(1..(P - 1), nearer(c)) /\ f \in Injection(1..(P - 1), nearer(c))
    <3>1. \A d \in nearer(c) : \E i \in 1..(P - 1) : f[i] = d
      BY <2>7
    <3>2. \A i, j \in 1..(P - 1) : f[i] = f[j] => i = j
      BY <2>5
    <3> HIDE DEF f
    <3> QED
      BY <2>8, <3>1, <3>2, Fun_IsInj, Fun_IsSurj
  <2>10. IsFiniteSet(1..(P - 1)) /\ Cardinality(1..(P - 1)) = P - 1
    <3>1. P - 1 \in Nat
      BY <2>4
    <3> QED
      BY <3>1, UpToLen
  <2>11. Cardinality(nearer(c)) = P - 1
    <3> HIDE DEF f
    <3> QED
      BY <2>9, <2>10, FS_Surjection
  <2>12. P <= FetchK
    BY <2>4, <2>11, ConstantFacts
  <2>13. \E n \in DOMAIN denseHits : denseHits[n].text = TextOf[SectionOf[c]]
    <3>1. P \in DOMAIN query.near /\ query.near[P] = c
      BY <2>1, <2>4 DEF near
    <3> QED
      BY <2>1, <2>12, <3>1, DenseHitsSeen
  <2>14. PICK m \in DOMAIN found : found[m].text = TextOf[SectionOf[c]]
    BY <2>13, FoundKeepsTexts
  <2>15. Len(found) <= setting.limit
    <3>1. Len(found) \in Nat /\ Len(found) <= BM25K + FetchK
      BY FoundKeepsTexts
    <3>2. setting.limit \in Nat
      BY <2>1, InputFacts
    <3> QED
      BY <3>1, <3>2, ConstantFacts
  <2>16. found[m] \in ToSet(candidates)
    BY <2>15, CandidatesAreNamed DEF ToSet
  <2> QED
    BY <2>14, <2>16
<1> QED
  BY <1>1, EveryListComputed, PTL

\* No passage is cut while one stays whose file the question names less, neither
\* for the reranker nor in its absence.
THEOREM NamedStay == Spec => []NamedSurviveCuts
<1>1. Computed => NamedSurviveCuts
  <2> SUFFICES ASSUME Computed, NEW p \in ToSet(found), NEW kept \in {candidates, reranked},
                      stage \in {"relevant", "done"}, kept = reranked => judged = <<>>,
                      p \notin ToSet(kept), NEW q \in ToSet(kept)
               PROVE  Named(q) >= Named(p)
    BY DEF NamedSurviveCuts
  <2>1. \A r \in ToSet(candidates) : p \in ToSet(candidates) \/ Named(r) >= Named(p)
    BY CandidatesAreNamed
  <2>2. CASE kept = candidates
    BY <2>1, <2>2
  <2>3. CASE kept = reranked
    <3>1. reranked = Take(candidates, EffectiveTopK)
      BY <2>3, RerankedFacts
    <3>2. q \in ToSet(candidates)
      BY <2>3, <3>1, UnrankedFacts
    <3>3. p \in ToSet(candidates) => Named(q) >= Named(p)
      BY <2>3, <3>1, UnrankedFacts
    <3> QED
      BY <2>1, <3>2, <3>3
  <2> QED
    BY <2>2, <2>3
<1> QED
  BY <1>1, EveryListComputed, PTL

\* A candidate at the floor or above is cited, unless the request's number is
\* reached with candidates no worse.
THEOREM BestCited == Spec => []BestAreCited
<1>1. Computed => BestAreCited
  <2> SUFFICES ASSUME Computed, stage = "done", NEW i \in DOMAIN judged, judged[i] >= Floor
               PROVE  \/ \E p \in ToSet(cited) :
                            p.text = candidates[i].text /\ p.place = candidates[i].place
                      \/ Len(cited) = EffectiveTopK /\ \A p \in ToSet(cited) : p.score >= judged[i]
    BY DEF BestAreCited
  <2>1. judged \in [DOMAIN candidates -> 0..MaxScore] /\ reranked = Ranked(judged)
    BY RerankedFacts
  <2>2. /\ i \in DOMAIN candidates
        /\ Scored(i).score = judged[i]
        /\ Scored(i).text = candidates[i].text /\ Scored(i).place = candidates[i].place
    BY <2>1, ScoredFacts
  <2>3. /\ reranked \in Seq(Passage)
        /\ \A p \in ToSet(reranked) : p.score \in 0..MaxScore
        /\ \/ Scored(i) \in ToSet(reranked)
           \/ Len(reranked) = EffectiveTopK /\ \A p \in ToSet(reranked) : p.score >= judged[i]
    BY <2>1, <2>2, RankedFacts
  <2>4. cited = Relevant(reranked)
    BY DEF Computed
  <2>5. CASE Scored(i) \in ToSet(reranked)
    <3>1. reranked # <<>>
      BY <2>5 DEF ToSet
    <3>2. ToSet(cited) = {p \in ToSet(reranked) : p.score >= Floor}
      BY <2>2, <2>3, <2>4, <2>5, <3>1, ScoredAreCited
    <3>3. Scored(i) \in ToSet(cited)
      BY <2>2, <2>5, <3>2
    <3> QED
      BY <2>2, <3>3
  <2>6. CASE Len(reranked) = EffectiveTopK /\ \A p \in ToSet(reranked) : p.score >= judged[i]
    <3>1. 1 \in DOMAIN reranked /\ reranked # <<>>
      BY <2>3, <2>6, TopKFacts
    <3>2. reranked[1] \in ToSet(reranked)
      BY <3>1 DEF ToSet
    <3>3. \A p \in ToSet(reranked) : p.score >= Floor
      <4>1. Floor \in Int /\ judged[i] \in Int /\ \A p \in ToSet(reranked) : p.score \in Int
        BY <2>1, <2>2, <2>3, ConstantFacts
      <4> QED
        BY <2>6, <4>1
    <3>4. Len(cited) = Len(reranked) /\ ToSet(cited) \subseteq ToSet(reranked)
      BY <2>3, <2>4, <3>1, <3>2, <3>3, ScoredAreCited
    <3> QED
      BY <2>6, <3>4
  <2> QED
    BY <2>3, <2>5, <2>6
<1> QED
  BY <1>1, EveryListComputed, PTL

\* Below the floor only what the question names is cited, and only if nothing
\* reached the floor; an answer is declined only if nothing of that is left.
THEOREM FloorYields == Spec => []FloorYieldsToNames
<1>1. Computed => FloorYieldsToNames
  <2> SUFFICES ASSUME Computed, stage = "done"
               PROVE  /\ \A p \in ToSet(cited) : p.score # None /\ p.score < Floor =>
                            DocumentMatchesEntity(p) /\ \A i \in DOMAIN judged : judged[i] < Floor
                      /\ cited = <<>> => \A p \in ToSet(reranked) :
                            p.score # None /\ p.score < Floor /\ ~ DocumentMatchesEntity(p)
    BY DEF FloorYieldsToNames
  <2>1. cited = Relevant(reranked)
    BY DEF Computed
  <2>2. CASE reranked = Take(candidates, EffectiveTopK)
    <3>1. /\ reranked \in Seq(Passage)
          /\ \A p \in ToSet(reranked) : p.score = None
      BY <2>2, UnrankedFacts DEF Seen
    <3>2. cited = reranked
      BY <2>1, <3>1, UnscoredAreCited
    <3> QED
      BY <3>1, <3>2 DEF ToSet
  <2>3. CASE reranked = <<>>
    <3>1. \A p \in ToSet(reranked) : p.score = None
      BY <2>3 DEF ToSet
    <3>2. reranked \in Seq(Passage)
      BY <2>3
    <3>3. cited = reranked
      BY <2>1, <3>1, <3>2, UnscoredAreCited
    <3> QED
      BY <2>3, <3>3 DEF ToSet
  <2>4. CASE judged \in [DOMAIN candidates -> 0..MaxScore] /\ reranked = Ranked(judged)
             /\ reranked # <<>>
    <3>1. /\ reranked \in Seq(Passage)
          /\ \A p \in ToSet(reranked) : p.score \in 0..MaxScore
          /\ \A i \in DOMAIN candidates :
                \/ Scored(i) \in ToSet(reranked)
                \/ \A p \in ToSet(reranked) : p.score >= judged[i]
      BY <2>4, RankedFacts
    <3>2. Floor \in Int /\ \A p \in ToSet(reranked) : p.score \in Int /\ p.score # None
      BY <3>1, ConstantFacts
    <3>3. PICK top \in ToSet(reranked) : TRUE
      <4>1. 1 \in DOMAIN reranked
        BY <2>4, <3>1
      <4> QED
        BY <4>1 DEF ToSet
    <3>4. CASE \E p \in ToSet(reranked) : p.score >= Floor
      <4>1. ToSet(cited) = {p \in ToSet(reranked) : p.score >= Floor}
        BY <2>1, <2>4, <3>1, <3>4, ScoredAreCited
      <4>2. cited # <<>>
        BY <3>4, <4>1 DEF ToSet
      <4>3. \A p \in ToSet(cited) : ~ (p.score < Floor)
        BY <3>2, <4>1
      <4> QED
        BY <4>2, <4>3
    <3>5. CASE \A p \in ToSet(reranked) : p.score < Floor
      <4>1. /\ ToSet(cited) \subseteq ToSet(reranked)
            /\ \A p \in ToSet(cited) : DocumentMatchesEntity(p)
            /\ cited = <<>> => \A p \in ToSet(reranked) : ~ DocumentMatchesEntity(p)
        BY <2>1, <2>4, <3>1, <3>5, ScoredAreCited
      <4>2. ASSUME NEW i \in DOMAIN judged
            PROVE  judged[i] < Floor
        <5>1. i \in DOMAIN candidates /\ judged[i] \in Int
          BY <2>4, ConstantFacts
        <5>2. CASE Scored(i) \in ToSet(reranked)
          <6>1. Scored(i).score = judged[i]
            BY <2>4, <5>1, ScoredFacts
          <6> QED
            BY <3>5, <5>2, <6>1
        <5>3. CASE \A p \in ToSet(reranked) : p.score >= judged[i]
          <6>1. top.score < Floor /\ top.score >= judged[i] /\ top.score \in Int
            BY <3>2, <3>3, <3>5, <5>3
          <6> QED
            BY <3>2, <5>1, <6>1
        <5> QED
          BY <3>1, <5>1, <5>2, <5>3
      <4> QED
        BY <3>2, <3>5, <4>1, <4>2
    <3> QED
      BY <3>2, <3>4, <3>5
  <2> QED
    BY <2>2, <2>3, <2>4, RerankedFacts
<1> QED
  BY <1>1, EveryListComputed, PTL

==============================================================================

---------------------------- MODULE Ranking_proofs ----------------------------
(***************************************************************************)
(* What Ranking's operators return, for every table, query and limit: the  *)
(* comics with points, best first and none twice, and the same comics over *)
(* the index as in SQL when no word occurs twice.                          *)
(***************************************************************************)
EXTENDS Ranking, FiniteSetTheorems, FunctionTheorems, SequenceTheorems, TLAPS

\* Points are counted for finitely many comics, whose ids are integers.
IsScore(score) ==
  /\ IsFiniteSet(DOMAIN score)
  /\ DOMAIN score \subseteq Int
  /\ score \in [DOMAIN score -> Int]

-----------------------------------------------------------------------------
(***************************************************************************)
(* RankSeq                                                                 *)
(***************************************************************************)
LEMMA WithPointsFinite ==
  ASSUME NEW score, IsScore(score)
  PROVE  /\ IsFiniteSet(WithPoints(score))
         /\ Cardinality(WithPoints(score)) \in Nat
BY FS_Subset, FS_CardinalityType DEF WithPoints, IsScore

\* Of two comics one comes first.
LEMMA OutranksTotal ==
  ASSUME NEW score, IsScore(score),
         NEW a \in WithPoints(score), NEW b \in WithPoints(score), a # b
  PROVE  Outranks(score, a, b) \/ Outranks(score, b, a)
BY DEF Outranks, WithPoints, IsScore

\* Fewer comics than there are come before a comic.
LEMMA AboveBound ==
  ASSUME NEW score, IsScore(score), NEW a \in WithPoints(score)
  PROVE  /\ IsFiniteSet(Above(score, a))
         /\ Cardinality(Above(score, a)) \in 0..(Cardinality(WithPoints(score)) - 1)
<1> DEFINE S == WithPoints(score)
<1>1. IsFiniteSet(S) /\ Cardinality(S) \in Nat
  BY WithPointsFinite
<1>2. IsFiniteSet(S \ {a}) /\ Cardinality(S \ {a}) = Cardinality(S) - 1
  BY <1>1, FS_RemoveElement
<1>3. Above(score, a) \in SUBSET (S \ {a})
  BY DEF Above, Outranks, WithPoints, IsScore
<1>4. /\ IsFiniteSet(Above(score, a))
      /\ Cardinality(Above(score, a)) <= Cardinality(S \ {a})
      /\ Cardinality(Above(score, a)) \in Nat
  BY <1>2, <1>3, FS_Subset, FS_CardinalityType
<1> QED BY <1>1, <1>2, <1>4

\* A better comic has fewer before it.
LEMMA AboveGrows ==
  ASSUME NEW score, IsScore(score),
         NEW a \in WithPoints(score), NEW b \in WithPoints(score), Outranks(score, a, b)
  PROVE  Cardinality(Above(score, a)) < Cardinality(Above(score, b))
<1> DEFINE A == Above(score, a)
           B == Above(score, b)
<1>1. IsFiniteSet(B) /\ Cardinality(B) \in Nat /\ Cardinality(A) \in Nat
  BY AboveBound
<1>2. a \in B /\ A \in SUBSET (B \ {a})
  BY DEF Above, Outranks, WithPoints, IsScore
<1>3. IsFiniteSet(B \ {a}) /\ Cardinality(B \ {a}) = Cardinality(B) - 1
  BY <1>1, <1>2, FS_RemoveElement
<1>4. Cardinality(A) <= Cardinality(B \ {a})
  BY <1>2, <1>3, FS_Subset
<1> QED BY <1>1, <1>3, <1>4

\* So the number of those before it tells which comic it is.
LEMMA AboveTells ==
  ASSUME NEW score, IsScore(score),
         NEW a \in WithPoints(score), NEW b \in WithPoints(score),
         Cardinality(Above(score, a)) = Cardinality(Above(score, b))
  PROVE  a = b
<1> SUFFICES ASSUME a # b PROVE FALSE
  OBVIOUS
<1>1. Outranks(score, a, b) \/ Outranks(score, b, a)
  BY OutranksTotal
<1>2. Cardinality(Above(score, a)) \in Int /\ Cardinality(Above(score, b)) \in Int
  BY AboveBound, WithPointsFinite
<1> QED BY <1>1, <1>2, AboveGrows

\* Every place is taken.
LEMMA PlaceTaken ==
  ASSUME NEW score, IsScore(score), NEW n \in 1..Cardinality(WithPoints(score))
  PROVE  \E id \in WithPoints(score) : Cardinality(Above(score, id)) = n - 1
<1> DEFINE S == WithPoints(score)
           N == Cardinality(S)
           place == [id \in S |-> Cardinality(Above(score, id)) + 1]
<1>1. N \in Nat /\ IsFiniteSet(S)
  BY WithPointsFinite
<1>2. \A id \in S : Cardinality(Above(score, id)) \in 0..(N - 1)
  BY AboveBound
<1>3. place \in [S -> 1..N]
  BY <1>1, <1>2
<1>4. \A a, b \in S : place[a] = place[b] => a = b
  BY <1>1, <1>2, AboveTells
<1>5. place \in Injection(S, 1..N)
  BY <1>3, <1>4, Fun_IsInj
<1>6. IsFiniteSet(1..N) /\ Cardinality(1..N) = N
  BY <1>1, FS_Interval
<1>7. place \in Surjection(S, 1..N)
  BY <1>5, <1>6, FS_Injection
<1>8. \A m \in 1..N : \E id \in S : place[id] = m
  <2> HIDE DEF place, N
  <2> QED BY <1>7 DEF Surjection
<1>9. PICK id \in S : place[id] = n
  BY <1>8
<1> QED BY <1>1, <1>2, <1>9

\* At place n of the ranking is the comic with n - 1 before it.
LEMMA RankSeqAt ==
  ASSUME NEW score, IsScore(score), NEW n \in 1..Cardinality(WithPoints(score))
  PROVE  /\ RankSeq(score)[n] \in WithPoints(score)
         /\ Cardinality(Above(score, RankSeq(score)[n])) = n - 1
BY PlaceTaken DEF RankSeq

\* The comics with points, each once, the better before the worse.
THEOREM RankSeqRanks ==
  ASSUME NEW score, IsScore(score)
  PROVE  /\ RankSeq(score) \in Seq(WithPoints(score))
         /\ Len(RankSeq(score)) = Cardinality(WithPoints(score))
         /\ ToSet(RankSeq(score)) = WithPoints(score)
         /\ \A i, j \in 1..Len(RankSeq(score)) :
              i < j => Outranks(score, RankSeq(score)[i], RankSeq(score)[j])
<1> DEFINE S == WithPoints(score)
           N == Cardinality(S)
           s == RankSeq(score)
<1>1. N \in Nat
  BY WithPointsFinite
<1>2. s \in [1..N -> S]
  BY RankSeqAt DEF RankSeq
<1>3. s \in Seq(S) /\ Len(s) = N /\ DOMAIN s = 1..N
  BY <1>1, <1>2, SeqDef, LenProperties
<1>4. ASSUME NEW id \in S PROVE \E n \in 1..N : s[n] = id
  <2>1. Cardinality(Above(score, id)) + 1 \in 1..N
    BY <1>1, AboveBound
  <2>2. s[Cardinality(Above(score, id)) + 1] = id
    <3> DEFINE n == Cardinality(Above(score, id)) + 1
    <3>1. s[n] \in S /\ Cardinality(Above(score, s[n])) = n - 1
      BY <2>1, RankSeqAt
    <3>2. Cardinality(Above(score, id)) \in Nat
      BY <1>1, AboveBound
    <3> HIDE DEF s
    <3> QED BY <3>1, <3>2, AboveTells
  <2> QED BY <2>1, <2>2
<1>5. ToSet(s) = S
  BY <1>2, <1>3, <1>4 DEF ToSet
<1>6. ASSUME NEW i \in 1..N, NEW j \in 1..N, i < j PROVE Outranks(score, s[i], s[j])
  <2>1. /\ s[i] \in S /\ Cardinality(Above(score, s[i])) = i - 1
        /\ s[j] \in S /\ Cardinality(Above(score, s[j])) = j - 1
    BY RankSeqAt
  <2> HIDE DEF s
  <2>2. s[i] # s[j] /\ ~Outranks(score, s[j], s[i])
    BY <1>6, <2>1, AboveGrows
  <2> QED BY <2>1, <2>2, OutranksTotal
<1> QED BY <1>3, <1>5, <1>6

\* The order depends on nothing but the points of the comics that have some.
LEMMA SameRanking ==
  ASSUME NEW s, NEW t, IsScore(s), IsScore(t), WithPoints(s) = WithPoints(t),
         \A id \in WithPoints(s) : s[id] = t[id]
  PROVE  RankSeq(s) = RankSeq(t)
<1> DEFINE N == Cardinality(WithPoints(s))
<1>1. \A id \in WithPoints(s) : Above(s, id) = Above(t, id)
  BY DEF Above, Outranks
<1>2. ASSUME NEW n \in 1..N PROVE RankSeq(s)[n] = RankSeq(t)[n]
  <2>1. /\ RankSeq(s)[n] \in WithPoints(s) /\ Cardinality(Above(s, RankSeq(s)[n])) = n - 1
        /\ RankSeq(t)[n] \in WithPoints(s) /\ Cardinality(Above(t, RankSeq(t)[n])) = n - 1
    BY RankSeqAt
  <2> QED BY <1>1, <2>1, AboveTells
<1>3. RankSeq(s) = [n \in 1..N |-> RankSeq(s)[n]] /\ RankSeq(t) = [n \in 1..N |-> RankSeq(t)[n]]
  BY DEF RankSeq
<1> QED BY <1>2, <1>3

-----------------------------------------------------------------------------
(***************************************************************************)
(* AtMost                                                                  *)
(***************************************************************************)
LEMMA AtMostProperties ==
  ASSUME NEW T, NEW s \in Seq(T), NEW limit \in Nat
  PROVE  /\ AtMost(limit, s) \in Seq(T)
         /\ Len(AtMost(limit, s)) = IF limit < Len(s) THEN limit ELSE Len(s)
         /\ \A i \in 1..Len(AtMost(limit, s)) : AtMost(limit, s)[i] = s[i]
<1> DEFINE n == IF limit < Len(s) THEN limit ELSE Len(s)
<1>1. Len(s) \in Nat /\ n \in 0..Len(s)
  BY LenProperties
<1>2. \A i \in 1..n : s[i] \in T
  BY <1>1, ElementOfSeq
<1>3. /\ SubSeq(s, 1, n) \in Seq(T)
      /\ Len(SubSeq(s, 1, n)) = IF 1 <= n THEN n - 1 + 1 ELSE 0
      /\ \A i \in 1..(n - 1 + 1) : SubSeq(s, 1, n)[i] = s[1 + i - 1]
  <2>1. 1 \in Int /\ n \in Int
    BY <1>1
  <2> HIDE DEF n
  <2> QED BY <1>2, <2>1, SubSeqProperties
<1>4. Len(SubSeq(s, 1, n)) = n
  BY <1>1, <1>3
<1>5. \A i \in 1..n : SubSeq(s, 1, n)[i] = s[i]
  BY <1>1, <1>3
<1> QED BY <1>3, <1>4, <1>5 DEF AtMost

\* What is given are comics with points, the better before the worse; when
\* some are left out, as many are given as the limit allows and each is better.
THEOREM GivenBest ==
  ASSUME NEW score, IsScore(score), NEW limit \in Nat, NEW given,
         given = AtMost(limit, RankSeq(score))
  PROVE  /\ given \in Seq(WithPoints(score))
         /\ Len(given) <= limit
         /\ \A i, j \in 1..Len(given) : i < j => Outranks(score, given[i], given[j])
         /\ \A id \in WithPoints(score) \ ToSet(given) :
              /\ Len(given) = limit
              /\ \A other \in ToSet(given) : Outranks(score, other, id)
<1> DEFINE S == WithPoints(score)
           s == RankSeq(score)
<1>1. /\ s \in Seq(S)
      /\ ToSet(s) = S
      /\ \A i, j \in 1..Len(s) : i < j => Outranks(score, s[i], s[j])
  BY RankSeqRanks
<1>2. Len(s) \in Nat /\ DOMAIN s = 1..Len(s)
  BY <1>1, LenProperties
<1> HIDE DEF s, S
<1>3. /\ given \in Seq(S)
      /\ Len(given) = IF limit < Len(s) THEN limit ELSE Len(s)
      /\ \A i \in 1..Len(given) : given[i] = s[i]
  BY <1>1, AtMostProperties DEF s
<1>4. DOMAIN given = 1..Len(given)
  BY <1>3, LenProperties
<1>5. \A i, j \in 1..Len(given) : i < j => Outranks(score, given[i], given[j])
  BY <1>1, <1>2, <1>3
<1>6. ASSUME NEW id \in S \ ToSet(given)
      PROVE  Len(given) = limit /\ \A other \in ToSet(given) : Outranks(score, other, id)
  <2>1. PICK j \in 1..Len(s) : s[j] = id
    BY <1>1, <1>2 DEF ToSet
  <2>2. j > Len(given)
    BY <1>2, <1>3, <1>4, <2>1 DEF ToSet
  <2>3. Len(given) = limit
    <3>1. Len(given) < Len(s)
      BY <1>2, <2>1, <2>2, <1>4, <1>3, LenProperties
    <3>2. Len(given) = limit \/ Len(given) = Len(s)
      BY <1>3
    <3> QED BY <1>2, <3>1, <3>2
  <2>4. ASSUME NEW i \in 1..Len(given) PROVE Outranks(score, given[i], id)
    BY <1>1, <1>2, <1>3, <2>1, <2>2
  <2> QED BY <1>4, <2>3, <2>4 DEF ToSet
<1>7. Len(given) <= limit
  <2>1. (limit < Len(s) /\ Len(given) = limit) \/ (~(limit < Len(s)) /\ Len(given) = Len(s))
    BY <1>3
  <2> QED BY <1>2, <2>1
<1> QED BY <1>3, <1>5, <1>6, <1>7 DEF S

\* A limit that is no smaller than their number leaves no comic out.
LEMMA AllGiven ==
  ASSUME NEW score, IsScore(score), NEW limit \in Nat, Cardinality(WithPoints(score)) <= limit
  PROVE  ToSet(AtMost(limit, RankSeq(score))) = WithPoints(score)
<1> DEFINE s == RankSeq(score)
<1>1. /\ s \in Seq(WithPoints(score))
      /\ Len(s) <= limit
      /\ ToSet(s) = WithPoints(score)
  BY RankSeqRanks
<1>2. Len(s) \in Nat /\ SubSeq(s, 1, Len(s)) = s
  BY <1>1, LenProperties, SubSeqFull
<1> HIDE DEF s
<1>3. (IF limit < Len(s) THEN limit ELSE Len(s)) = Len(s)
  <2>1. limit \in Int /\ Len(s) \in Int /\ Len(s) <= limit
    BY <1>1, <1>2
  <2>2. ~(limit < Len(s))
    BY <2>1
  <2> QED BY <2>2, Zenon
<1>4. AtMost(limit, s) = s
  BY <1>2, <1>3 DEF AtMost
<1> QED BY <1>1, <1>4 DEF s

-----------------------------------------------------------------------------
(***************************************************************************)
(* Points and Matches                                                      *)
(***************************************************************************)
\* The places of a sequence without duplicates that hold a member of a set.
LEMMA PlacesOf ==
  ASSUME NEW T, NEW s \in Seq(T), IsInjective(s), NEW X
  PROVE  /\ IsFiniteSet({i \in DOMAIN s : s[i] \in X})
         /\ Cardinality({i \in DOMAIN s : s[i] \in X}) = Cardinality(ToSet(s) \cap X)
<1> DEFINE P == {i \in DOMAIN s : s[i] \in X}
           f == [i \in P |-> s[i]]
<1>1. DOMAIN s = 1..Len(s) /\ Len(s) \in Nat
  BY LenProperties
<1>2. IsFiniteSet(P)
  <2>1. IsFiniteSet(1..Len(s))
    BY <1>1, FS_Interval
  <2>2. P \in SUBSET (1..Len(s))
    BY <1>1
  <2> QED BY <2>1, <2>2, FS_Subset
<1>3. f \in [P -> ToSet(s) \cap X]
  BY DEF ToSet
<1>4. \A a, b \in P : f[a] = f[b] => a = b
  BY DEF IsInjective
<1>5. \A t \in ToSet(s) \cap X : \E a \in P : f[a] = t
  BY DEF ToSet
<1> HIDE DEF f, P
<1>6. f \in Bijection(P, ToSet(s) \cap X)
  BY <1>3, <1>4, <1>5, Fun_IsBij
<1>7. ExistsBijection(P, ToSet(s) \cap X)
  BY <1>6 DEF ExistsBijection
<1>8. Cardinality(ToSet(s) \cap X) = Cardinality(P)
  BY <1>2, <1>7, FS_Bijection
<1> QED BY <1>2, <1>8 DEF P

\* A table whose comics have no word twice.
IsTable(rows) ==
  /\ IsFiniteSet(DOMAIN rows)
  /\ DOMAIN rows \subseteq Int
  /\ \A id \in DOMAIN rows : rows[id] \in Seq(Vocab) /\ IsInjective(rows[id])

\* Over such a table, both ways of counting count the words that a query
\* without duplicates shares with the comic.
LEMMA CountsShared ==
  ASSUME NEW rows, IsTable(rows), NEW query \in Seq(Vocab), IsInjective(query),
         NEW id \in DOMAIN rows
  PROVE  /\ Points(Postings(rows), query, id) = Cardinality(ToSet(query) \cap ToSet(rows[id]))
         /\ Matches(rows, query, id) = Cardinality(ToSet(query) \cap ToSet(rows[id]))
         /\ Cardinality(ToSet(query) \cap ToSet(rows[id])) \in Nat
<1>1. \A i \in DOMAIN query : id \in Postings(rows)[query[i]] <=> query[i] \in ToSet(rows[id])
  <2>1. \A i \in DOMAIN query : query[i] \in Vocab
    BY LenProperties, ElementOfSeq
  <2> QED BY <2>1 DEF Postings
<1>2. {i \in DOMAIN query : id \in Postings(rows)[query[i]]} = {i \in DOMAIN query : query[i] \in ToSet(rows[id])}
  BY <1>1
<1>3. Points(Postings(rows), query, id) = Cardinality(ToSet(query) \cap ToSet(rows[id]))
  BY <1>2, PlacesOf DEF Points
<1>4. Matches(rows, query, id) = Cardinality(ToSet(rows[id]) \cap ToSet(query))
  BY PlacesOf DEF Matches, IsTable
<1>5. ToSet(rows[id]) \cap ToSet(query) = ToSet(query) \cap ToSet(rows[id])
  OBVIOUS
<1>6. Points(Postings(rows), query, id) \in Nat
  <2>1. IsFiniteSet({i \in DOMAIN query : query[i] \in ToSet(rows[id])})
    BY PlacesOf
  <2> QED BY <1>2, <2>1, FS_CardinalityType DEF Points
<1> QED BY <1>3, <1>4, <1>5, <1>6

\* The points of a comic: the words it shares with the query.
SharedWords(rows, query) ==
  [id \in DOMAIN rows |-> Cardinality(ToSet(query) \cap ToSet(rows[id]))]

\* The index and SQL find the same comics in the same order: the best by the
\* number of shared words.
THEOREM SameIds ==
  ASSUME NEW rows, IsTable(rows), NEW query \in Seq(Vocab), IsInjective(query), NEW limit
  PROVE  /\ IndexIds(rows, query, limit) = AtMost(limit, RankSeq(SharedWords(rows, query)))
         /\ SelectIds(rows, query, limit) = AtMost(limit, RankSeq(SharedWords(rows, query)))
         /\ IsScore(SharedWords(rows, query))
<1>1. [id \in DOMAIN rows |-> Points(Postings(rows), query, id)] = SharedWords(rows, query)
  BY CountsShared DEF SharedWords
<1>2. [id \in DOMAIN rows |-> Matches(rows, query, id)] = SharedWords(rows, query)
  BY CountsShared DEF SharedWords
<1>3. IsScore(SharedWords(rows, query))
  BY CountsShared DEF SharedWords, IsScore, IsTable
<1> QED BY <1>1, <1>2, <1>3 DEF IndexIds, SelectIds
=============================================================================

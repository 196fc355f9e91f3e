-------------------------- MODULE RankedSearch_proofs --------------------------
(***************************************************************************)
(* Proofs about RankedSearch: what Norm returns for every phrase, that the  *)
(* two searches agree, and that they answer by meaning.                    *)
(***************************************************************************)
EXTENDS RankedSearch, Ranking_proofs

-----------------------------------------------------------------------------
(***************************************************************************)
(* Norm is a fold over the places of the phrase: the value of a set of      *)
(* places comes from that of the set without its last.                     *)
(***************************************************************************)
Keep(res, word) ==
  IF word \in StopWords \/ Stem[word] \in ToSet(res) THEN res ELSE Append(res, Stem[word])

FoldStep(phrase, iter, s) ==
  IF s = {} THEN <<>> ELSE Keep(iter[s \ {Max(s)}], phrase[Max(s)])

IsFold(phrase, places, iter) ==
  iter = [s \in SUBSET places |-> FoldStep(phrase, iter, s)]

\* Norm is the fold over all places of the phrase.
LEMMA NormIsFold ==
  ASSUME NEW phrase
  PROVE  Norm(phrase) = (CHOOSE iter : IsFold(phrase, DOMAIN phrase, iter))[DOMAIN phrase]
BY DEF Norm, FoldLeft, MapThenFoldSet, IsFold, FoldStep, Keep

\* A set of numbers that is not empty has a least one: this takes the place of
\* an induction below.
LEMMA LeastOf ==
  ASSUME NEW T \in SUBSET Nat, T # {}
  PROVE  \E m \in T : \A k \in T : m <= k
<1> DEFINE R == OpToRel(<, Nat)
<1>1. IsWellFoundedOn(R, Nat)
  BY NatLessThanWellFounded
<1>2. \A x, y \in Nat : <<y, x>> \in R <=> y < x
  BY DEF OpToRel
<1> HIDE DEF R
<1>3. PICK x \in T : \A y \in T : ~ (<<y, x>> \in R)
  BY <1>1, WFMin
<1>4. \A y \in T : ~ (y < x)
  BY <1>2, <1>3
<1> QED BY <1>4

\* The last of the places up to m is m.
LEMMA LastPlace ==
  ASSUME NEW m \in Nat, NEW s \in SUBSET (1..m), m \in s
  PROVE  Max(s) = m
<1>1. \A y \in s : m >= y
  OBVIOUS
<1>2. \A x \in s : (\A y \in s : x >= y) => x = m
  OBVIOUS
<1> QED BY <1>1, <1>2 DEF Max

\* A fold over the first places can be extended by the next one.
LEMMA FoldGrows ==
  ASSUME NEW phrase, NEW m \in Nat, m > 0, NEW h, IsFold(phrase, 1..(m - 1), h)
  PROVE  \E g : IsFold(phrase, 1..m, g)
<1> DEFINE g == [s \in SUBSET (1..m) |->
                   IF m \in s THEN Keep(h[s \ {m}], phrase[m]) ELSE h[s]]
<1>1. ASSUME NEW s \in SUBSET (1..m), m \notin s PROVE g[s] = h[s] /\ s \in SUBSET (1..(m - 1))
  <2>1. g[s] = h[s]
    BY <1>1
  <2>2. s \in SUBSET (1..(m - 1))
    BY <1>1
  <2> QED BY <2>1, <2>2
<1>2. ASSUME NEW s \in SUBSET (1..m) PROVE g[s] = FoldStep(phrase, g, s)
  <2>1. CASE m \in s
    <3>1. s \ {m} \in SUBSET (1..m) /\ m \notin s \ {m}
      OBVIOUS
    <3>2. g[s \ {m}] = h[s \ {m}]
      BY <3>1, <1>1
    <3>3. Max(s) = m /\ s # {}
      BY <2>1, LastPlace
    <3>4. g[s] = Keep(h[s \ {m}], phrase[m])
      BY <2>1
    <3> HIDE DEF g
    <3> QED BY <3>2, <3>3, <3>4 DEF FoldStep
  <2>2. CASE m \notin s
    <3>1. s \in SUBSET (1..(m - 1)) /\ g[s] = h[s]
      BY <2>2, <1>1
    <3>2. h[s] = FoldStep(phrase, h, s)
      BY <3>1 DEF IsFold
    <3>3. s \ {Max(s)} \in SUBSET (1..m) /\ m \notin s \ {Max(s)}
      BY <2>2
    <3>4. g[s \ {Max(s)}] = h[s \ {Max(s)}]
      BY <3>3, <1>1
    <3> HIDE DEF g
    <3> QED BY <3>1, <3>2, <3>4 DEF FoldStep
  <2> QED BY <2>1, <2>2
<1>3. g = [s \in SUBSET (1..m) |-> g[s]]
  OBVIOUS
<1> HIDE DEF g
<1>4. g = [s \in SUBSET (1..m) |-> FoldStep(phrase, g, s)]
  BY <1>2, <1>3
<1> QED BY <1>4 DEF IsFold

\* There is a fold over any number of places: none is the least without one.
LEMMA FoldExists ==
  ASSUME NEW phrase, NEW n \in Nat
  PROVE  \E g : IsFold(phrase, 1..n, g)
<1> DEFINE Without == {m \in Nat : ~ \E g : IsFold(phrase, 1..m, g)}
<1> SUFFICES ASSUME Without # {} PROVE FALSE
  OBVIOUS
<1>1. PICK m \in Without : \A k \in Without : m <= k
  <2>1. Without \in SUBSET Nat /\ Without # {}
    OBVIOUS
  <2> HIDE DEF Without
  <2> QED BY <2>1, LeastOf
<1>2. m > 0
  <2> SUFFICES ASSUME m = 0 PROVE FALSE
    BY <1>1
  <2> DEFINE g == [s \in SUBSET (1..0) |-> <<>>]
  <2>1. \A s \in SUBSET (1..0) : s = {}
    OBVIOUS
  <2>2. g = [s \in SUBSET (1..0) |-> FoldStep(phrase, g, s)]
    BY <2>1 DEF FoldStep
  <2> HIDE DEF g
  <2> QED BY <1>1, <2>2 DEF IsFold
<1>3. m - 1 \in Nat /\ m - 1 \notin Without
  BY <1>1, <1>2
<1>4. PICK h : IsFold(phrase, 1..(m - 1), h)
  BY <1>3
<1> QED BY <1>1, <1>2, <1>4, FoldGrows

-----------------------------------------------------------------------------
\* The stems of the words in the first k places that are no stop words.
StemsUpTo(phrase, k) == {Stem[phrase[i]] : i \in {j \in 1..k : phrase[j] \notin StopWords}}

KeptUpTo(phrase, k, res) ==
  /\ res \in Seq(Vocab)
  /\ IsInjective(res)
  /\ ToSet(res) = StemsUpTo(phrase, k)

\* One more word keeps the result without duplicates.
LEMMA KeepNext ==
  ASSUME NEW phrase \in Seq(RawWords), NEW k \in 1..Len(phrase), NEW res,
         KeptUpTo(phrase, k - 1, res)
  PROVE  KeptUpTo(phrase, k, Keep(res, phrase[k]))
<1>1. phrase[k] \in RawWords /\ Len(phrase) \in Nat
  BY ElementOfSeq, LenProperties
<1>2. \A j : j \in 1..k <=> j \in 1..(k - 1) \/ j = k
  BY <1>1
<1>3. CASE phrase[k] \in StopWords
  <2>1. StemsUpTo(phrase, k) = StemsUpTo(phrase, k - 1)
    BY <1>2, <1>3 DEF StemsUpTo
  <2> QED BY <1>3, <2>1 DEF Keep, KeptUpTo
<1>4. CASE phrase[k] \notin StopWords
  <2>1. StemsUpTo(phrase, k) = StemsUpTo(phrase, k - 1) \cup {Stem[phrase[k]]}
    BY <1>2, <1>4 DEF StemsUpTo
  <2>2. CASE Stem[phrase[k]] \in ToSet(res)
    BY <2>1, <2>2 DEF Keep, KeptUpTo
  <2>3. CASE Stem[phrase[k]] \notin ToSet(res)
    <3> DEFINE w == Stem[phrase[k]]
               new == Append(res, w)
    <3>1. w \in Vocab
      BY <1>1, <1>4, RankedSearchAssumption
    <3>2. res \in Seq(Vocab) /\ IsInjective(res)
      BY DEF KeptUpTo
    <3>3. Len(res) \in Nat /\ DOMAIN res = 1..Len(res)
      BY <3>2, LenProperties
    <3>4. /\ new \in Seq(Vocab)
          /\ Len(new) = Len(res) + 1
          /\ \A i \in 1..Len(res) : new[i] = res[i]
          /\ new[Len(res) + 1] = w
      BY <3>1, <3>2, AppendProperties
    <3>5. DOMAIN new = 1..(Len(res) + 1)
      BY <3>4, LenProperties
    <3>6. \A i \in DOMAIN res : res[i] # w
      BY <2>3 DEF ToSet
    <3>7. Keep(res, phrase[k]) = new
      BY <1>4, <2>3 DEF Keep
    <3> HIDE DEF new, w
    <3>8. \A i : i \in DOMAIN new <=> i \in DOMAIN res \/ i = Len(res) + 1
      BY <3>3, <3>5
    <3>9. IsInjective(new)
      BY <3>2, <3>3, <3>4, <3>6, <3>8 DEF IsInjective
    <3>10. ToSet(new) = ToSet(res) \cup {w}
      BY <3>3, <3>4, <3>8 DEF ToSet
    <3> QED BY <2>1, <3>4, <3>7, <3>9, <3>10 DEF KeptUpTo, w
  <2> QED BY <2>2, <2>3
<1> QED BY <1>3, <1>4

\* What Norm returns: the stems of the words that are no stop words, each once.
THEOREM NormStems ==
  ASSUME NEW phrase \in Seq(RawWords)
  PROVE  /\ Norm(phrase) \in Seq(Vocab)
         /\ IsInjective(Norm(phrase))
         /\ ToSet(Norm(phrase)) = {Stem[word] : word \in ToSet(phrase) \ StopWords}
<1> DEFINE n == Len(phrase)
           iter == CHOOSE g : IsFold(phrase, DOMAIN phrase, g)
<1>1. n \in Nat /\ DOMAIN phrase = 1..n
  BY LenProperties
<1>2. IsFold(phrase, 1..n, iter) /\ Norm(phrase) = iter[1..n]
  BY <1>1, FoldExists, NormIsFold
<1> HIDE DEF iter, n
<1>3. iter[1..0] = <<>>
  BY <1>1, <1>2 DEF IsFold, FoldStep
<1>4. ASSUME NEW k \in 1..n PROVE iter[1..k] = Keep(iter[1..(k - 1)], phrase[k])
  <2>1. k \in Nat /\ k \in 1..k
    BY <1>1
  <2>4. 1..k \in SUBSET (1..n) /\ 1..k # {}
    BY <1>1, <2>1
  <2>2. Max(1..k) = k
    BY <2>1, LastPlace
  <2>3. (1..k) \ {k} = 1..(k - 1)
    BY <2>1
  <2> QED BY <1>2, <2>1, <2>2, <2>3, <2>4 DEF IsFold, FoldStep
<1> DEFINE Wrong == {k \in 0..n : ~ KeptUpTo(phrase, k, iter[1..k])}
<1>5. Wrong = {}
  <2> SUFFICES ASSUME Wrong # {} PROVE FALSE
    OBVIOUS
  <2>1. PICK k \in Wrong : \A j \in Wrong : k <= j
    <3>1. Wrong \in SUBSET Nat
      BY <1>1
    <3> HIDE DEF Wrong
    <3> QED BY <3>1, LeastOf
  <2>2. KeptUpTo(phrase, 0, iter[1..0])
    <3>1. StemsUpTo(phrase, 0) = {}
      BY DEF StemsUpTo
    <3>2. <<>> \in Seq(Vocab) /\ DOMAIN <<>> = {}
      BY EmptySeq, LenProperties
    <3> QED BY <1>3, <3>1, <3>2 DEF KeptUpTo, IsInjective, ToSet
  <2>3. k \in 1..n
    BY <1>1, <2>1, <2>2
  <2>4. KeptUpTo(phrase, k - 1, iter[1..(k - 1)])
    BY <1>1, <2>1, <2>3
  <2>5. KeptUpTo(phrase, k, iter[1..k])
    BY <1>4, <2>3, <2>4, KeepNext DEF n
  <2> QED BY <2>1, <2>5
<1>6. KeptUpTo(phrase, n, Norm(phrase))
  BY <1>1, <1>2, <1>5
<1>7. StemsUpTo(phrase, n) = {Stem[word] : word \in ToSet(phrase) \ StopWords}
  <2>1. ASSUME NEW i \in {j \in 1..n : phrase[j] \notin StopWords}
        PROVE  phrase[i] \in ToSet(phrase) \ StopWords
    BY <1>1 DEF ToSet
  <2>2. ASSUME NEW word \in ToSet(phrase) \ StopWords
        PROVE  \E i \in {j \in 1..n : phrase[j] \notin StopWords} : phrase[i] = word
    BY <1>1 DEF ToSet
  <2> QED BY <2>1, <2>2 DEF StemsUpTo
<1> QED BY <1>6, <1>7 DEF KeptUpTo

-----------------------------------------------------------------------------
(***************************************************************************)
(* The invariant: the table has the normal form of each text, and the two   *)
(* answers are those for the last search, over the table as it still is.    *)
(***************************************************************************)
TextsOK ==
  /\ DOMAIN texts \subseteq ComicIds
  /\ IsFiniteSet(DOMAIN texts)
  /\ \A id \in DOMAIN texts : texts[id] \in Phrases /\ Accepted(texts[id])

RowsOK == rows = [id \in DOMAIN texts |-> Norm(texts[id])]

AnswersOK ==
  \/ request = NoRequest /\ viaIndex = <<>> /\ viaSQL = <<>>
  \/ /\ request.phrase \in Phrases
     /\ request.limit \in Limits
     /\ viaIndex = IndexIds(rows, Norm(request.phrase), request.limit)
     /\ viaSQL = SelectIds(rows, Norm(request.phrase), request.limit)

RankedInv == TextsOK /\ RowsOK /\ AnswersOK

\* Adding a comic and searching keep rows and answers what the texts make them.
THEOREM RankedInvariance == Spec => []RankedInv
<1>1. Init => RankedInv
  <2>1. IsFiniteSet({})
    BY FS_EmptySet
  <2> QED BY <2>1 DEF Init, RankedInv, TextsOK, RowsOK, AnswersOK, NoRows
<1>2. RankedInv /\ [Next]_vars => RankedInv'
  <2> SUFFICES ASSUME RankedInv, [Next]_vars PROVE RankedInv'
    OBVIOUS
  <2>1. ASSUME NEW id \in ComicIds, NEW text \in Phrases, AddComic(id, text)
        PROVE  RankedInv'
    <3>1. DOMAIN texts' = DOMAIN texts \cup {id}
      BY <2>1 DEF AddComic
    <3>2. IsFiniteSet(DOMAIN texts')
      BY <3>1, FS_AddElement DEF RankedInv, TextsOK
    <3>3. TextsOK'
      BY <2>1, <3>1, <3>2 DEF AddComic, RankedInv, TextsOK
    <3>4. RowsOK'
      BY <2>1, <3>1 DEF AddComic, RankedInv, RowsOK
    <3>5. AnswersOK'
      BY <2>1 DEF AddComic, AnswersOK
    <3> QED BY <3>3, <3>4, <3>5 DEF RankedInv
  <2>2. ASSUME NEW phrase \in Phrases, NEW limit \in Limits, Search(phrase, limit)
        PROVE  RankedInv'
    <3>1. AnswersOK'
      BY <2>2 DEF Search, AnswersOK
    <3>2. TextsOK' /\ RowsOK'
      BY <2>2 DEF Search, RankedInv, TextsOK, RowsOK
    <3> QED BY <3>1, <3>2 DEF RankedInv
  <2>3. CASE UNCHANGED vars
    BY <2>3 DEF vars, RankedInv, TextsOK, RowsOK, AnswersOK
  <2> QED BY <2>1, <2>2, <2>3 DEF Next
<1> QED BY <1>1, <1>2, PTL DEF Spec

-----------------------------------------------------------------------------
(***************************************************************************)
(* What follows from it in a single state.                                 *)
(***************************************************************************)
LEMMA RowsAreTable ==
  ASSUME RankedInv
  PROVE  /\ IsTable(rows)
         /\ DOMAIN rows = DOMAIN texts
         /\ \A id \in DOMAIN texts : ToSet(rows[id]) = Meaning(texts[id])
<1>1. \A id \in DOMAIN texts : texts[id] \in Seq(RawWords)
  BY RankedSearchAssumption DEF RankedInv, TextsOK
<1>2. DOMAIN rows = DOMAIN texts /\ \A id \in DOMAIN texts : rows[id] = Norm(texts[id])
  BY DEF RankedInv, RowsOK
<1>3. \A id \in DOMAIN texts : /\ rows[id] \in Seq(Vocab)
                               /\ IsInjective(rows[id])
                               /\ ToSet(rows[id]) = Meaning(texts[id])
  BY <1>1, <1>2, NormStems DEF Meaning
<1>4. DOMAIN texts \subseteq Int /\ IsFiniteSet(DOMAIN texts)
  BY RankedSearchAssumption DEF RankedInv, TextsOK
<1> QED BY <1>2, <1>3, <1>4 DEF IsTable

\* The points both searches rank by: how many stems a text shares with the phrase.
MeaningPoints == [id \in DOMAIN texts |-> Shared(id)]

\* The answer of the index is the best of the comics by the points of the texts.
LEMMA AnswersBest ==
  ASSUME RankedInv, request.phrase \in Phrases, request.limit \in Limits,
         viaIndex = IndexIds(rows, Norm(request.phrase), request.limit),
         viaSQL = SelectIds(rows, Norm(request.phrase), request.limit)
  PROVE  /\ viaIndex = AtMost(request.limit, RankSeq(MeaningPoints))
         /\ viaSQL = viaIndex
         /\ IsScore(MeaningPoints)
         /\ request.limit \in Nat
<1> DEFINE query == Norm(request.phrase)
<1>1. request.phrase \in Seq(RawWords) /\ request.limit \in Nat
  BY RankedSearchAssumption
<1>2. query \in Seq(Vocab) /\ IsInjective(query) /\ ToSet(query) = Meaning(request.phrase)
  BY <1>1, NormStems DEF Meaning
<1> HIDE DEF query
<1>3. /\ IndexIds(rows, query, request.limit) = AtMost(request.limit, RankSeq(SharedWords(rows, query)))
      /\ SelectIds(rows, query, request.limit) = AtMost(request.limit, RankSeq(SharedWords(rows, query)))
      /\ IsScore(SharedWords(rows, query))
  BY <1>2, RowsAreTable, SameIds
<1>4. SharedWords(rows, query) = MeaningPoints
  <2>1. \A id \in DOMAIN texts :
          Meaning(texts[id]) \cap Meaning(request.phrase) = ToSet(query) \cap ToSet(rows[id])
    BY <1>2, RowsAreTable
  <2> QED BY <2>1, RowsAreTable DEF SharedWords, MeaningPoints, Shared
<1> QED BY <1>1, <1>3, <1>4 DEF query

\* Both queries return the same ids, all of known comics.
LEMMA AnswersTyped ==
  ASSUME RankedInv
  PROVE  viaIndex \in Seq(ComicIds) /\ viaSQL = viaIndex
<1>1. CASE viaIndex = <<>> /\ viaSQL = <<>>
  BY <1>1, EmptySeq
<1>2. CASE ~ (viaIndex = <<>> /\ viaSQL = <<>>)
  <2>1. /\ viaIndex = AtMost(request.limit, RankSeq(MeaningPoints))
        /\ viaSQL = viaIndex
        /\ IsScore(MeaningPoints)
        /\ request.limit \in Nat
    BY <1>2, AnswersBest DEF RankedInv, AnswersOK
  <2>2. viaIndex \in Seq(WithPoints(MeaningPoints))
    BY <2>1, GivenBest
  <2>3. WithPoints(MeaningPoints) \subseteq ComicIds
    BY DEF WithPoints, MeaningPoints, RankedInv, TextsOK
  <2> QED BY <2>1, <2>2, <2>3, SeqMonotonic
<1> QED BY <1>1, <1>2

\* The types of the variables.
LEMMA RankedInvTypes == RankedInv => TypeOK
<1> SUFFICES ASSUME RankedInv PROVE TypeOK
  OBVIOUS
<1>1. DOMAIN texts \subseteq ComicIds /\ \A id \in DOMAIN texts : Accepted(texts[id])
  BY DEF RankedInv, TextsOK
<1>2. DOMAIN rows = DOMAIN texts /\ \A id \in DOMAIN rows : rows[id] \in Seq(Vocab)
  BY RowsAreTable DEF IsTable
<1>3. ASSUME NEW id \in DOMAIN rows PROVE ToSet(rows[id]) \subseteq Vocab
  BY <1>2, LenProperties, ElementOfSeq DEF ToSet
<1>4. request.phrase \in Phrases \cup {<<>>}
  BY DEF RankedInv, AnswersOK, NoRequest
<1> QED BY <1>1, <1>2, <1>3, <1>4, AnswersTyped DEF TypeOK

\* The points of the rows are those of the texts.
LEMMA RankedInvMeaning == RankedInv => AnswersByMeaning
<1> SUFFICES ASSUME RankedInv, request # NoRequest PROVE AnswersByMeaning
  BY DEF AnswersByMeaning
<1> DEFINE S == WithPoints(MeaningPoints)
<1>1. /\ viaIndex = AtMost(request.limit, RankSeq(MeaningPoints))
      /\ IsScore(MeaningPoints)
      /\ request.limit \in Nat
  BY AnswersBest DEF RankedInv, AnswersOK
<1>2. /\ viaIndex \in Seq(S)
      /\ \A i, j \in 1..Len(viaIndex) : i < j => Outranks(MeaningPoints, viaIndex[i], viaIndex[j])
      /\ \A id \in S \ ToSet(viaIndex) :
           /\ Len(viaIndex) = request.limit
           /\ \A other \in ToSet(viaIndex) : Outranks(MeaningPoints, other, id)
  BY <1>1, GivenBest
<1>3. S = {id \in DOMAIN texts : Shared(id) > 0}
  BY DEF WithPoints, MeaningPoints
<1>4. \A a, b \in S : Outranks(MeaningPoints, a, b) <=> Better(a, b)
  BY <1>3 DEF Outranks, MeaningPoints, Better
<1> HIDE DEF S
<1>5. DOMAIN viaIndex = 1..Len(viaIndex) /\ \A i \in DOMAIN viaIndex : viaIndex[i] \in S
  BY <1>2, LenProperties, ElementOfSeq
<1>6. ToSet(viaIndex) \subseteq S
  BY <1>5 DEF ToSet
<1>7. \A i, j \in DOMAIN viaIndex : i < j => Better(viaIndex[i], viaIndex[j])
  BY <1>2, <1>4, <1>5
<1>8. \A id \in S \ ToSet(viaIndex) :
        Len(viaIndex) = request.limit /\ \A other \in ToSet(viaIndex) : Better(other, id)
  BY <1>2, <1>4, <1>6
<1> QED BY <1>3, <1>6, <1>7, <1>8 DEF AnswersByMeaning

-----------------------------------------------------------------------------
\* The table holds normalised words of known comics, the answers known comics.
THEOREM RankedTypeCorrect == Spec => []TypeOK
BY RankedInvariance, RankedInvTypes, PTL

\* Search and SearchIndex find the same comics in the same order.
THEOREM BothSearchesAgree == Spec => []SearchesAgree
<1>1. RankedInv => SearchesAgree
  BY AnswersTyped DEF SearchesAgree
<1> QED BY <1>1, RankedInvariance, PTL

\* They find the comics that share a meaningful word with the phrase, the more
\* the better, and leave out only worse ones than those they give.
THEOREM AnswersAreByMeaning == Spec => []AnswersByMeaning
BY RankedInvariance, RankedInvMeaning, PTL
=============================================================================

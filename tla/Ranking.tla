------------------------------- MODULE Ranking -------------------------------
(***************************************************************************)
(* How the search service ranks comics, twice: over the inverted index      *)
(* (search/adapters/index/index.go) and in SQL                             *)
(* (search/adapters/db/storage.go).  A table of comics is a function from  *)
(* the stored ids to the words of the comic, a sequence; a query is the    *)
(* sequence of words that Words.Norm returned.                             *)
(***************************************************************************)
EXTENDS Integers, Sequences, FiniteSets, SequencesExt

CONSTANT Vocab  \* normalised words

\* Index.Rebuild: the ids of the comics a word occurs in.  The code keeps the
\* ids of a word once each, and sorted.
Postings(rows) == [t \in Vocab |-> {id \in DOMAIN rows : t \in ToSet(rows[id])}]

\* Index.Search: one point for each word of the query that has the comic in
\* its postings.
Points(postings, query, id) == Cardinality({i \in DOMAIN query : id \in postings[query[i]]})

\* DB.IDs: one point for each word of the comic that is in the query.
Matches(rows, query, id) ==
  Cardinality({i \in DOMAIN rows[id] : rows[id][i] \in ToSet(query)})

\* More points first, then the lower id.
Outranks(score, a, b) == score[a] > score[b] \/ (score[a] = score[b] /\ a < b)

\* Comics without points are not found.
WithPoints(score) == {id \in DOMAIN score : score[id] > 0}

\* The comics that come before a comic.
Above(score, id) == {other \in WithPoints(score) : Outranks(score, other, id)}

\* Mutant: the lower id first, whatever the points.
RankSeqById(score) == SetToSortSeq(WithPoints(score), LAMBDA a, b : a < b)

\* The comics that have points, best first: the n-th has n - 1 above it.
RankSeq(score) ==
  [n \in 1..Cardinality(WithPoints(score)) |->
     CHOOSE id \in WithPoints(score) : Cardinality(Above(score, id)) = n - 1]

AtMost(limit, seq) == SubSeq(seq, 1, IF limit < Len(seq) THEN limit ELSE Len(seq))

\* The ids Index.Search looks up, for a positive limit.
IndexIds(rows, query, limit) ==
  AtMost(limit, RankSeq([id \in DOMAIN rows |-> Points(Postings(rows), query, id)]))

\* The ids DB.IDs returns, for a limit that is not negative.
SelectIds(rows, query, limit) ==
  AtMost(limit, RankSeq([id \in DOMAIN rows |-> Matches(rows, query, id)]))
=============================================================================

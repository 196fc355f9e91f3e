-------------------------- MODULE SearchIndexPromise --------------------------
(***************************************************************************)
(* SearchIndex implements SearchPromise: a search is scored in the step    *)
(* that releases the read lock, and a copy of the table is read and        *)
(* installed by the steps of Rebuild that do so.                           *)
(***************************************************************************)
EXTENDS SearchIndex

StageOf(c) ==
  IF pc[c] = "idle" THEN "idle" ELSE IF pc[c] = "fetch" THEN "scored" ELSE "asked"

\* Points that are still being counted are nobody else's business.
ScoreOf(c) == IF pc[c] = "fetch" THEN counts[c] ELSE NoPoints

TheStage == [c \in Searchers |-> StageOf(c)]
TheScore == [c \in Searchers |-> ScoreOf(c)]

TheIndex(ids) == Postings(Rows(ids))
ThePoints(index, query) == [id \in ComicIds |-> Points(index, query, id)]
TheHits(points) == Cardinality({id \in ComicIds : points[id] > 0})
TheBest(limit, points) == ToSet(AtMost(limit, RankSeq(points)))
TheSelected(ids, query, limit) == SelectIds(Rows(ids), query, limit)

Promise == INSTANCE SearchPromise WITH
  index    <- Tokens,
  copy     <- tmp,
  stage    <- TheStage,
  score    <- TheScore,
  IndexOf  <- TheIndex,
  Scored   <- ThePoints,
  Hits     <- TheHits,
  Best     <- TheBest,
  Orders   <- SetToSeqs,
  Selected <- TheSelected

\* Whatever Rebuilds run beside it: each search is answered as if it had
\* looked at one index in a single step, and with rows of the table only.
ImplementsSearchPromise == Promise!Spec
=============================================================================

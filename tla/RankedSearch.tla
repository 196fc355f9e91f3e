----------------------------- MODULE RankedSearch -----------------------------
(***************************************************************************)
(* Words and Ranking together, from the text of a comic to the ids a search *)
(* finds, with an index that is up to date.  Search asks the database,     *)
(* SearchIndex the index; both promise the same comics in the same order.  *)
(***************************************************************************)
EXTENDS Words, Ranking

CONSTANTS
  ComicIds,
  Phrases,  \* texts of comics and phrases of clients
  Limits    \* those that are not refused before the search

ASSUME RankedSearchAssumption ==
  /\ ComicIds \subseteq Nat
  /\ Phrases \subseteq Seq(RawWords)
  /\ Limits \subseteq Nat
  /\ \A word \in RawWords \ StopWords : Stem[word] \in Vocab

VARIABLES
  texts,    \* the text of each stored comic
  rows,     \* its words, as they are in the table
  request,  \* the last search
  viaIndex, \* the ids that SearchIndex looks up for it
  viaSQL    \* the ids that Search selects for it

vars == <<texts, rows, request, viaIndex, viaSQL>>

NoRows == [id \in {} |-> <<>>]
NoRequest == [phrase |-> <<>>, limit |-> 0]

TypeOK ==
  /\ DOMAIN texts \subseteq ComicIds /\ \A id \in DOMAIN texts : Accepted(texts[id])
  /\ DOMAIN rows = DOMAIN texts
  /\ \A id \in DOMAIN rows : ToSet(rows[id]) \subseteq Vocab
  /\ request.phrase \in Phrases \cup {<<>>}
  /\ viaIndex \in Seq(ComicIds)
  /\ viaSQL \in Seq(ComicIds)

Init ==
  /\ texts = NoRows
  /\ rows = NoRows
  /\ request = NoRequest
  /\ viaIndex = <<>>
  /\ viaSQL = <<>>

\* Update stores a comic whose text the words service accepts.
AddComic(id, text) ==
  /\ id \notin DOMAIN texts
  /\ Accepted(text)
  /\ texts' = [i \in DOMAIN texts \cup {id} |-> IF i = id THEN text ELSE texts[i]]
  /\ rows' = [i \in DOMAIN rows \cup {id} |-> IF i = id THEN Norm(text) ELSE rows[i]]
  /\ request' = NoRequest
  /\ viaIndex' = <<>>
  /\ viaSQL' = <<>>

Search(phrase, limit) ==
  /\ Accepted(phrase)
  /\ request' = [phrase |-> phrase, limit |-> limit]
  /\ viaIndex' = IndexIds(rows, Norm(phrase), limit)
  /\ viaSQL' = SelectIds(rows, Norm(phrase), limit)
  /\ UNCHANGED <<texts, rows>>

Next ==
  \/ \E id \in ComicIds, text \in Phrases : AddComic(id, text)
  \/ \E phrase \in Phrases, limit \in Limits : Search(phrase, limit)

Spec == Init /\ [][Next]_vars

(***************************************************************************)
(* Properties                                                              *)
(***************************************************************************)
\* Both searches find the same comics in the same order.  The index counts
\* words of the query and SQL words of the comic, so this rests on Norm
\* leaving no word twice in either.
SearchesAgree == viaIndex = viaSQL

\* What a reader would say of the texts: a comic is found if it shares a
\* meaningful word with the phrase, whatever its form, and is better the more
\* such words it shares.
Meaning(text) == {Stem[word] : word \in ToSet(text) \ StopWords}
Shared(id)    == Cardinality(Meaning(texts[id]) \cap Meaning(request.phrase))
Better(a, b)  == Shared(a) > Shared(b) \/ (Shared(a) = Shared(b) /\ a < b)

\* The answer has the comics that share a word with the phrase, best first,
\* and when there are more than the limit, those that are left out are worse.
AnswersByMeaning ==
  request # NoRequest =>
  LET found == {id \in DOMAIN texts : Shared(id) > 0}
      given == ToSet(viaIndex)
  IN /\ given \subseteq found
     /\ \A i, j \in DOMAIN viaIndex : i < j => Better(viaIndex[i], viaIndex[j])
     /\ \A id \in found \ given :
          Len(viaIndex) = request.limit /\ \A other \in given : Better(other, id)
=============================================================================

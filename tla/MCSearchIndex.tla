---------------------------- MODULE MCSearchIndex ----------------------------
(***************************************************************************)
(* Small instances of SearchIndex for TLC: comic 2 has all the words of    *)
(* comic 1 and one more.  The instance for liveness has comic 1 alone.     *)
(***************************************************************************)
EXTENDS SearchIndexPromise

CONSTANTS go, sql

MCVocab   == {go, sql}
MCWordsOf == <<<<sql>>, <<go, sql>>>>
MCQueries == {<<go, sql>>, <<sql>>, <<>>}
MCLimits  == {-1, 1, 2}

OneWordOf == <<<<sql>>>>
OneQuery  == {<<sql>>}
=============================================================================

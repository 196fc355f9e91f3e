---------------------------- MODULE MCRankedSearch ----------------------------
(***************************************************************************)
(* Texts of up to two words out of four, two of which have the same stem.  *)
(***************************************************************************)
EXTENDS RankedSearch

CONSTANTS tree, trees, go, the

MCRawWords == {tree, trees, go, the}
MCVocab    == {tree, go, the}
MCStem     == [word \in MCRawWords |-> IF word = trees THEN tree ELSE word]
MCPhrases  == UNION {[1..n -> MCRawWords] : n \in 0..3}
=============================================================================

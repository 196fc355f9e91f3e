------------------------------ MODULE MCPipeline ------------------------------
(***************************************************************************)
(* A small instance of Pipeline for TLC: every comic has the one word.     *)
(***************************************************************************)
EXTENDS Pipeline

CONSTANTS sql, u1, d1, r1

MCWordsOf == [id \in 1..MaxId |-> <<sql>>]
MCQueries == {<<sql>>}
=============================================================================

------------------------------ MODULE MCGateway ------------------------------
(***************************************************************************)
(* Small instances of Gateway for TLC: a limit on the wire has 3 bits, so  *)
(* -5 becomes 3, 4 becomes -4 and 9 becomes 1.                             *)
(***************************************************************************)
EXTENDS Gateway

MCLimits  == {-1, 0, 2, 4, 9}
FewLimits == {-5, 1, 2, 4}
OneLimit  == {2}
=============================================================================

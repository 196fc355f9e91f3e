-------------------------- MODULE UpdateServiceStore --------------------------
(***************************************************************************)
(* UpdateService implements ComicStore: mu is the ownership of the table,   *)
(* the ids an Update has read and the newest comic it has been told of are  *)
(* its plan, and a call is answered in the step that makes it return.      *)
(***************************************************************************)
EXTENDS UpdateService

TheTarget == IF mu = NoCaller THEN 0 ELSE last[mu]
ThePlan   == IF mu = NoCaller THEN {} ELSE (1..last[mu]) \ existing[mu]
TheAnswer == [c \in Updaters \cup Droppers |-> IF pc[c] = "idle" THEN reply[c] ELSE "pending"]

Promise == INSTANCE ComicStore WITH
  table  <- db,
  told   <- announced,
  newest <- xkcdLast,
  owner  <- mu,
  target <- TheTarget,
  plan   <- ThePlan,
  answer <- TheAnswer

\* Whatever interleaving of handlers and workers: the clients of Update and
\* Drop see one owner at a time, complete and announced successes, and no
\* row that is not part of the owner's plan.
ImplementsComicStore == Promise!Spec
=============================================================================

----------------------------- MODULE ComicStore ------------------------------
(***************************************************************************)
(* What the update service promises its clients, with no goroutines, no    *)
(* status field and no channels.  At most one client owns the table at a   *)
(* time.  An owner plans which comics to fetch from one look at the table  *)
(* and one at xkcd.com, adds rows of its plan one by one or empties the    *)
(* table, tells the readers of events, and is answered "ok" only when the  *)
(* job is done: an Update has left no gap below the newest comic it saw,   *)
(* and a Drop has left nothing, and the readers of events were told.  Any  *)
(* failure is answered with something else, and may leave the job half     *)
(* done.                                                                   *)
(***************************************************************************)
EXTENDS Integers

CONSTANTS
  Updaters,  \* clients that update the store
  Droppers,  \* clients that empty it
  MaxId,     \* bound: the highest comic xkcd.com ever publishes
  Skipped,   \* ids that no Update is expected to store
  NoCaller   \* nobody owns the store

Clients  == Updaters \cup Droppers
Comics == 1..MaxId

VARIABLES
  table,   \* ids of the stored comics
  told,    \* the readers of events have been told since table last changed
  newest,  \* the newest comic on xkcd.com
  owner,   \* the client whose call owns the store, or NoCaller
  target,  \* the newest comic the owner knows of, 0 before it has asked
  plan,    \* the ids the owner set out to store
  answer   \* what each client was answered last, "pending" until it is

vars == <<table, told, newest, owner, target, plan, answer>>

Failures == {"drop_update", "failed_publish", "error"}
Answers  == Failures \cup {"none", "pending", "ok", "already_exists", "unavailable"}

TypeOK ==
  /\ table \subseteq Comics
  /\ told \in BOOLEAN
  /\ newest \in Comics
  /\ owner \in Clients \cup {NoCaller}
  /\ target \in 0..MaxId
  /\ plan \subseteq Comics
  /\ answer \in [Clients -> Answers]

Init ==
  /\ newest \in Comics
  /\ table \in SUBSET ((1..newest) \ Skipped)
  /\ told \in BOOLEAN
  /\ owner = NoCaller
  /\ target = 0
  /\ plan = {}
  /\ answer = [c \in Clients |-> "none"]

Answer(c, what) == answer' = [answer EXCEPT ![c] = what]

Request(c) ==
  /\ answer[c] # "pending"
  /\ Answer(c, "pending")
  /\ UNCHANGED <<table, told, newest, owner, target, plan>>

\* Somebody else is at work: an Update does not wait.
Refuse(c) ==
  /\ c \in Updaters
  /\ owner # c
  /\ answer[c] = "pending"
  /\ Answer(c, "already_exists")
  /\ UNCHANGED <<table, told, newest, owner, target, plan>>

Begin(c) ==
  /\ owner = NoCaller
  /\ answer[c] = "pending"
  /\ owner' = c
  /\ UNCHANGED <<table, told, newest, target, plan, answer>>

Plan(c) ==
  /\ owner = c
  /\ c \in Updaters
  /\ target = 0
  /\ target' = newest
  /\ plan' = (1..newest) \ table
  /\ UNCHANGED <<table, told, newest, owner, answer>>

Insert(c) ==
  /\ owner = c
  /\ \E id \in plan \ (table \cup Skipped) : table' = table \cup {id}
  /\ told' = FALSE
  /\ UNCHANGED <<newest, owner, target, plan, answer>>

Empty(c) ==
  /\ owner = c
  /\ c \in Droppers
  /\ table' = {}
  /\ told' = IF table = {} THEN told ELSE FALSE
  /\ UNCHANGED <<newest, owner, target, plan, answer>>

Tell(c) ==
  /\ owner = c
  /\ told' = TRUE
  /\ UNCHANGED <<table, newest, owner, target, plan, answer>>

\* The job of client c is done.
Updated(c) ==
  /\ c \in Updaters
  /\ target > 0
  /\ (1..target) \ Skipped \subseteq table
  /\ plan = {} \/ told

Dropped(c) ==
  /\ c \in Droppers
  /\ table = {}
  /\ told

End(c) ==
  /\ owner = c
  /\ \/ (Updated(c) \/ Dropped(c)) /\ Answer(c, "ok")
     \/ \E failure \in Failures : Answer(c, failure)
  /\ owner' = NoCaller
  /\ target' = 0
  /\ plan' = {}
  /\ UNCHANGED <<table, told, newest>>

Publish ==
  /\ newest' \in (newest + 1)..MaxId
  /\ UNCHANGED <<table, told, owner, target, plan, answer>>

\* The service is restarted; nobody learns how far its calls came.
Restart ==
  /\ owner' = NoCaller
  /\ target' = 0
  /\ plan' = {}
  /\ answer' = [c \in Clients |-> IF answer[c] = "pending" THEN "unavailable" ELSE answer[c]]
  /\ UNCHANGED <<table, told, newest>>

Next ==
  \/ \E c \in Clients :
       \/ Request(c) \/ Refuse(c) \/ Begin(c) \/ Plan(c)
       \/ Insert(c) \/ Empty(c) \/ Tell(c) \/ End(c)
  \/ Publish
  \/ Restart

Spec == Init /\ [][Next]_vars
=============================================================================

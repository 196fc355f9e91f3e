------------------------------- MODULE Pipeline -------------------------------
(***************************************************************************)
(* The update service and the search service together.  They share the     *)
(* table comics, which only the update service writes, and the events it   *)
(* publishes travel through NATS, which keeps their order and may lose     *)
(* them.  The update service is here what it promises, ComicStore, which   *)
(* UpdateServiceStore shows the code to implement; what SearchIndex takes  *)
(* for its surroundings (InsertRow, TruncateTable, Deliver) is what        *)
(* ComicStore and NATS do.                                                 *)
(***************************************************************************)
EXTENDS SearchIndex

CONSTANTS
  Updaters, Droppers, MaxId, Skipped, NoCaller,  \* as in ComicStore
  MaxWire  \* bound: events NATS holds

ASSUME PipelineAssumption ==
  /\ MaxId \in Nat \ {0}
  /\ ComicIds = 1..MaxId
  /\ MaxWire \in Nat
  /\ NoCaller \notin Updaters \cup Droppers
  /\ Updaters \cap Droppers = {}

VARIABLES
  told, newest, owner, target, plan, reply,  \* ComicStore; reply is its answer
  wire,     \* events NATS has and has not passed on
  excuse,   \* the index is behind the table for a reason that has passed
  settled   \* ids stored by Updates that returned ok, no Drop called since

Store == INSTANCE ComicStore WITH table <- db, answer <- reply

storeOwn    == <<told, newest, owner, target, plan, reply>>
searchOwn   == <<Tokens, lockVars, hintVars, lifeVars, pc, tmp, searchVars>>
historyVars == <<excuse, settled>>
pipeVars    == <<vars, storeOwn, wire, historyVars>>

updatedSubject == "xkcd.db.updated"
droppedSubject == "xkcd.db.dropped"

\* What the subject xkcd.db.* stands for; a mutant takes the updates alone.
SubscribedToUpdates(subject) == subject = updatedSubject
Subscribed(subject) == subject \in {updatedSubject, droppedSubject}

PipeInit ==
  /\ Init
  /\ Store!Init
  /\ wire = <<>>
  /\ excuse = TRUE
  /\ settled = {}

-----------------------------------------------------------------------------
Publish(subject) == Len(wire) < MaxWire /\ wire' = Append(wire, subject)

\* Mutant: publish does not flush, and the event stays where it is.
PublishNoFlush(c) == Store!Tell(c) /\ UNCHANGED <<searchOwn, wire>>

\* The owner of the table publishes what it has done to it.
PublishEvent(c) ==
  /\ Store!Tell(c)
  /\ Publish(IF c \in Updaters THEN updatedSubject ELSE droppedSubject)
  /\ UNCHANGED searchOwn

\* The call returns; which of the failures it reports makes no difference here.
EndCall(c) == Store!End(c) /\ reply'[c] \in {"ok", "error"}

StoreStep(c) ==
  /\ \/ Store!Request(c) \/ Store!Refuse(c) \/ Store!Begin(c)
     \/ Store!Plan(c) \/ Store!Insert(c) \/ Store!Empty(c) \/ EndCall(c)
  /\ UNCHANGED <<searchOwn, wire>>

\* xkcd.com publishes a comic, or the update service is restarted.
StoreOutside == (Store!Publish \/ Store!Restart) /\ UNCHANGED <<searchOwn, wire>>

\* Everything the search service does itself.
SearchSide ==
  /\ \/ \E r \in Rebuilders : RebuildStep(r) \/ CallRebuild(r)
     \/ Tick \/ TakeTick \/ TakeMessage
     \/ \E c \in Searchers : Ask(c) \/ SearchStep(c)
     \/ Interrupt \/ Exit \/ Crash
  /\ UNCHANGED <<storeOwn, wire>>

PassOn ==
  /\ wire # <<>>
  /\ Subscribed(Head(wire))
  /\ wire' = Tail(wire)
  /\ Deliver
  /\ UNCHANGED storeOwn

\* Nobody has subscribed to it, or the subscriber is away, or it is slow.
Lose ==
  /\ wire # <<>>
  /\ wire' = Tail(wire)
  /\ UNCHANGED <<vars, storeOwn>>

-----------------------------------------------------------------------------
(***************************************************************************)
(* What an observer of both services writes down.                          *)
(***************************************************************************)
Behind == Tokens # Postings(Rows(db))

\* Why the index may stay behind the table although the event was sent: NATS
\* lost it, the subscriber could not read the table, the search service ended,
\* or a slower Rebuild replaced a newer index.
Reason ==
  \/ wire # <<>> /\ wire' = Tail(wire) /\ pending' = pending /\ Subscribed(Head(wire))
  \/ pc[subscriber] = "load" /\ pc'[subscriber] \notin {"load", "lock"}
  \/ restarts' # restarts
  \/ Tokens' # Tokens /\ ~Behind

DropCalled == \E c \in Droppers : reply'[c] = "pending"

\* What an Update that returns ok in this step has answered for.
Promised ==
  {id \in ComicIds \ Skipped : \E c \in Updaters :
     owner = c /\ owner' = NoCaller /\ reply'[c] = "ok" /\ id <= target}

Observe ==
  /\ excuse' = (Behind' /\ (excuse \/ Reason))
  /\ settled' = IF DropCalled THEN {} ELSE settled \cup Promised

PipeNext ==
  /\ \/ \E c \in Updaters \cup Droppers : StoreStep(c) \/ PublishEvent(c)
     \/ StoreOutside
     \/ SearchSide
     \/ PassOn \/ Lose
  /\ Observe

PipeSpec == PipeInit /\ [][PipeNext]_pipeVars

-----------------------------------------------------------------------------
(***************************************************************************)
(* Properties                                                              *)
(***************************************************************************)
\* A change not announced, an event on its way, a Rebuild it has caused.
CatchingUp ==
  \/ ~told
  \/ wire # <<>>
  \/ pending > 0
  \/ pc[subscriber] \in RebuildPcs

\* Events alone keep the index equal to the table, whatever the order of
\* publishing, loading and installing: when it is behind and nothing of an
\* event is under way, an event was lost, its Rebuild failed or was overtaken
\* by an older one, or the search service was restarted.
StalenessExplained == Behind => CatchingUp \/ excuse

\* What an Update that returned ok found or stored is in the index as soon as
\* its event has been followed up, for every word of it and until a Drop is
\* called, whatever other Updates, Rebuilds and restarts are under way.
UpdatedIsSearchable ==
  ~CatchingUp /\ ~excuse =>
    \A id \in settled : \A t \in ToSet(WordsOf[id]) : id \in Tokens[t]

\* The inductive invariant behind them: a Rebuild that is all that is left of
\* an event brings the index up to date, and nothing takes away what an Update
\* has answered for but a Drop, which has been called by then.
FollowedUp ==
  Behind /\ ~excuse /\ told /\ wire = <<>> /\ pending = 0 =>
    \/ pc[subscriber] = "load"
    \/ pc[subscriber] \in {"lock", "drain"} /\ tmp[subscriber] = Postings(Rows(db))

PipeIInv ==
  /\ wire \in Seq({updatedSubject, droppedSubject})
  /\ target \in Nat
  /\ FollowedUp
  /\ settled \subseteq db
  /\ owner # NoCaller => reply[owner] = "pending"
  /\ settled # {} => \A c \in Droppers : reply[c] # "pending"
=============================================================================

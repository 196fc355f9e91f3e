----------------------------- MODULE SearchIndex -----------------------------
(***************************************************************************)
(* The search service: core/service.go, the inverted index behind a        *)
(* read-write lock (adapters/index), the initiator that rebuilds it on     *)
(* every tick (adapters/initiator), the subscriber that rebuilds it on     *)
(* every event (adapters/events), and the gRPC calls Rebuild, Search and   *)
(* SearchIndex.                                                            *)
(*                                                                         *)
(* sync.RWMutex is modelled by what it does: a writer that has called Lock *)
(* keeps new readers out, waits for those inside, and its Unlock lets in   *)
(* every reader that waited, before another writer can go on.              *)
(***************************************************************************)
EXTENDS Ranking

CONSTANTS
  Searchers,    \* clients that call Search and SearchIndex
  Rpcs,         \* clients that call Rebuild
  initiator,    \* the goroutine Initiator.Start
  subscriber,   \* the goroutine Subscriber.Start
  NoOne,        \* nobody has called Lock
  ComicIds,
  WordsOf,      \* the words of each comic
  Queries,      \* what the phrases of clients are normalised to
  Limits,       \* the limits clients send
  MaxPending,   \* bound: messages a subscription holds
  MaxRestarts   \* bound: how often the process ends and is restarted

Loops      == {initiator, subscriber}
Rebuilders == Loops \cup Rpcs
Clients    == Searchers \cup Rpcs

ASSUME ProcessesAssumption ==
  /\ initiator # subscriber
  /\ Searchers \cap Rebuilders = {}
  /\ Loops \cap Rpcs = {}
  /\ NoOne \notin Rebuilders

ASSUME DataAssumption ==
  /\ ComicIds \in SUBSET Nat
  /\ IsFiniteSet(ComicIds)
  /\ WordsOf \in [ComicIds -> Seq(Vocab)]
  /\ Queries \subseteq Seq(Vocab)
  /\ Limits \subseteq Int
  /\ MaxPending \in Nat
  /\ MaxRestarts \in Nat

VARIABLES
  db,        \* ids in table comics
  Tokens,    \* Index.Tokens
  writer,    \* who has called mu.Lock and not yet Unlock
  readers,   \* who holds mu.RLock
  queued,    \* who waits in mu.RLock
  tick,      \* the ticker's channel holds a tick
  pending,   \* messages in the subscription
  stopping,  \* the process has been interrupted
  restarts,  \* how often the process has ended
  pc,        \* where each loop and each call stands
  tmp,       \* local of Rebuild: the new index
  asked,     \* the request of each search
  at,        \* position in the query of the next word to count
  counts,    \* local of Index.Search: points of each comic
  answer     \* what each search returned last, Failed until it returns

lockVars   == <<writer, readers, queued>>
hintVars   == <<tick, pending>>
lifeVars   == <<stopping, restarts>>
searchVars == <<asked, at, counts, answer>>
vars == <<db, Tokens, lockVars, hintVars, lifeVars, pc, tmp, searchVars>>

Rows(ids)  == [id \in ids |-> WordsOf[id]]
EmptyIndex == Postings(Rows({}))
NoPoints   == [id \in ComicIds |-> 0]

Failed == [err |-> TRUE, comics |-> <<>>, total |-> 0]
Found(comics, total) == [err |-> FALSE, comics |-> comics, total |-> total]

RebuildPcs == {"load", "lock", "drain"}
SearchPcs  == {"norm", "rlock", "count", "fetch", "dbcount", "dbselect"}

\* The state, but for the answers.
StateOK ==
  /\ db \in SUBSET ComicIds
  /\ Tokens \in [Vocab -> SUBSET ComicIds]
  /\ writer \in Rebuilders \cup {NoOne}
  /\ readers \in SUBSET Searchers
  /\ queued \in SUBSET Searchers
  /\ tick \in BOOLEAN
  /\ pending \in 0..MaxPending
  /\ stopping \in BOOLEAN
  /\ restarts \in 0..MaxRestarts
  /\ pc \in [Rebuilders \cup Searchers -> RebuildPcs \cup SearchPcs \cup {"wait", "stopped", "idle"}]
  /\ tmp \in [Rebuilders -> [Vocab -> SUBSET ComicIds]]
  /\ asked \in [Searchers -> [via : {"search", "isearch"}, query : Seq(Vocab), limit : Int]]
  /\ at \in [Searchers -> Nat \ {0}]
  /\ counts \in [Searchers -> [ComicIds -> Nat]]

\* A search is at a word of its query, or past the last one.
WithinQuery == \A c \in Searchers : at[c] <= Len(asked[c].query) + 1

TypeOK ==
  /\ StateOK
  /\ WithinQuery
  /\ answer \in [Searchers -> [err : BOOLEAN, comics : Seq(ComicIds), total : Nat]]

\* The initiator begins with a rebuild, the subscriber waits.
Started == [p \in Rebuilders \cup Searchers |->
              CASE p = initiator -> "load" [] p = subscriber -> "wait" [] OTHER -> "idle"]

Init ==
  /\ db \in SUBSET ComicIds
  /\ Tokens = EmptyIndex
  /\ writer = NoOne
  /\ readers = {}
  /\ queued = {}
  /\ tick = FALSE
  /\ pending = 0
  /\ stopping = FALSE
  /\ restarts = 0
  /\ pc = Started
  /\ tmp = [r \in Rebuilders |-> EmptyIndex]
  /\ asked = [c \in Searchers |-> [via |-> "isearch", query |-> <<>>, limit |-> 0]]
  /\ at = [c \in Searchers |-> 1]
  /\ counts = [c \in Searchers |-> NoPoints]
  /\ answer = [c \in Searchers |-> Failed]

Goto(p, from, to) == pc[p] = from /\ pc' = [pc EXCEPT ![p] = to]

-----------------------------------------------------------------------------
(***************************************************************************)
(* Index.Rebuild, for whoever calls it.  The table is read before the lock *)
(* is taken, so the copy that is installed may be an old one.              *)
(***************************************************************************)
\* What comes after Rebuild: a loop goes on waiting, a call returns.
Resting(r) == IF r \in Loops THEN "wait" ELSE "idle"

\* The context of the loops is done once the process is stopping.
LoadOK(r) ==
  /\ r \in Loops => ~stopping
  /\ Goto(r, "load", "lock")
  /\ tmp' = [tmp EXCEPT ![r] = Postings(Rows(db))]
  /\ UNCHANGED <<db, Tokens, lockVars, hintVars, lifeVars, searchVars>>

\* Mutant: a loop ends with its first error.
LoadErrEndsLoop(r) ==
  /\ Goto(r, "load", IF r \in Loops THEN "stopped" ELSE "idle")
  /\ UNCHANGED <<db, Tokens, lockVars, hintVars, lifeVars, tmp, searchVars>>

\* Mutant: Lock comes before AllComics, Unlock is not deferred.
LoadErrKeepsLock(r) ==
  /\ Goto(r, "load", Resting(r))
  /\ writer' = IF writer = NoOne THEN r ELSE writer
  /\ UNCHANGED <<db, Tokens, readers, queued, hintVars, lifeVars, tmp, searchVars>>

LoadErr(r) ==
  /\ Goto(r, "load", Resting(r))
  /\ UNCHANGED <<db, Tokens, lockVars, hintVars, lifeVars, tmp, searchVars>>

\* mu.Lock, up to the point where new readers are kept out.
Lock(r) ==
  /\ writer = NoOne
  /\ Goto(r, "lock", "drain")
  /\ writer' = r
  /\ UNCHANGED <<db, Tokens, readers, queued, hintVars, lifeVars, tmp, searchVars>>

\* Mutant: the index is replaced while readers hold the lock.
InstallEarly(r) ==
  /\ writer = r
  /\ Goto(r, "drain", Resting(r))
  /\ Tokens' = tmp[r]
  /\ tmp' = [tmp EXCEPT ![r] = EmptyIndex]
  /\ writer' = NoOne
  /\ readers' = readers \cup queued
  /\ queued' = {}
  /\ UNCHANGED <<db, hintVars, lifeVars, searchVars>>

\* The readers inside have left: replace the index, Unlock.
Install(r) ==
  /\ writer = r
  /\ readers = {}
  /\ Goto(r, "drain", Resting(r))
  /\ Tokens' = tmp[r]
  /\ tmp' = [tmp EXCEPT ![r] = EmptyIndex]
  /\ writer' = NoOne
  /\ readers' = queued
  /\ queued' = {}
  /\ UNCHANGED <<db, hintVars, lifeVars, searchVars>>

RebuildStep(r) == LoadOK(r) \/ LoadErr(r) \/ Lock(r) \/ Install(r)

-----------------------------------------------------------------------------
(***************************************************************************)
(* Who calls Rebuild                                                       *)
(***************************************************************************)
\* time.Ticker: a tick that finds the channel full is dropped.
Tick ==
  /\ ~tick
  /\ tick' = TRUE
  /\ UNCHANGED <<db, Tokens, lockVars, pending, lifeVars, pc, tmp, searchVars>>

\* The select of Initiator.Start; with both cases ready it takes either.
TakeTick ==
  /\ \/ stopping /\ Goto(initiator, "wait", "stopped") /\ UNCHANGED tick
     \/ tick /\ Goto(initiator, "wait", "load") /\ tick' = FALSE
  /\ UNCHANGED <<db, Tokens, lockVars, pending, lifeVars, tmp, searchVars>>

\* NATS delivers a message; a subscription that is full drops it.  Nothing
\* says that the message of an event is ever delivered.
Deliver ==
  /\ pending < MaxPending
  /\ pending' = pending + 1
  /\ UNCHANGED <<db, Tokens, lockVars, tick, lifeVars, pc, tmp, searchVars>>

\* NextMsgWithContext in Subscriber.Start.
TakeMessage ==
  /\ \/ stopping /\ Goto(subscriber, "wait", "stopped") /\ UNCHANGED pending
     \/ pending > 0 /\ Goto(subscriber, "wait", "load") /\ pending' = pending - 1
  /\ UNCHANGED <<db, Tokens, lockVars, tick, lifeVars, tmp, searchVars>>

CallRebuild(r) ==
  /\ r \in Rpcs
  /\ ~stopping
  /\ Goto(r, "idle", "load")
  /\ UNCHANGED <<db, Tokens, lockVars, hintVars, lifeVars, tmp, searchVars>>

-----------------------------------------------------------------------------
(***************************************************************************)
(* Searches                                                                *)
(***************************************************************************)
\* Mutant: the position in the query is a field that outlives the search.
ReturnKeepsPosition(c, from, what) ==
  /\ Goto(c, from, "idle")
  /\ answer' = [answer EXCEPT ![c] = what]
  /\ counts' = [counts EXCEPT ![c] = NoPoints]
  /\ UNCHANGED <<asked, at>>

Return(c, from, what) ==
  /\ Goto(c, from, "idle")
  /\ answer' = [answer EXCEPT ![c] = what]
  /\ at' = [at EXCEPT ![c] = 1]
  /\ counts' = [counts EXCEPT ![c] = NoPoints]
  /\ UNCHANGED asked

Ask(c) ==
  /\ ~stopping
  /\ Goto(c, "idle", "norm")
  /\ \E via \in {"search", "isearch"}, query \in Queries, limit \in Limits :
       asked' = [asked EXCEPT ![c] = [via |-> via, query |-> query, limit |-> limit]]
  /\ answer' = [answer EXCEPT ![c] = Failed]
  /\ UNCHANGED <<db, Tokens, lockVars, hintVars, lifeVars, tmp, at, counts>>

\* Words.Norm answers; Index.Search has nothing to do for no words.
Norm(c) ==
  /\ \/ asked[c].via = "search" /\ Goto(c, "norm", "dbcount") /\ UNCHANGED searchVars
     \/ /\ asked[c].via = "isearch"
        /\ asked[c].query # <<>>
        /\ Goto(c, "norm", "rlock")
        /\ UNCHANGED searchVars
     \/ /\ asked[c].via = "isearch"
        /\ asked[c].query = <<>>
        /\ Return(c, "norm", Found(<<>>, 0))
     \/ Return(c, "norm", Failed)
  /\ UNCHANGED <<db, Tokens, lockVars, hintVars, lifeVars, tmp>>

RLock(c) ==
  /\ Goto(c, "rlock", "count")
  /\ IF writer = NoOne
       THEN readers' = readers \cup {c} /\ UNCHANGED queued
       ELSE queued' = queued \cup {c} /\ UNCHANGED readers
  /\ UNCHANGED <<db, Tokens, writer, hintVars, lifeVars, tmp, searchVars>>

\* for _, t := range tokens
CountWord(c) ==
  /\ pc[c] = "count"
  /\ c \in readers
  /\ at[c] <= Len(asked[c].query)
  /\ counts' = [counts EXCEPT ![c] =
       [id \in ComicIds |->
          counts[c][id] + IF id \in Tokens[asked[c].query[at[c]]] THEN 1 ELSE 0]]
  /\ at' = [at EXCEPT ![c] = @ + 1]
  /\ UNCHANGED <<db, Tokens, lockVars, hintVars, lifeVars, pc, tmp, asked, answer>>

Total(c) == Cardinality({id \in ComicIds : counts[c][id] > 0})

\* Mutant: the search that has found nothing returns with the lock.
RUnlockLate(c) ==
  /\ at[c] > Len(asked[c].query)
  /\ c \in readers
  /\ \/ /\ Total(c) = 0
        /\ Return(c, "count", Found(<<>>, 0))
        /\ UNCHANGED readers
     \/ /\ Total(c) > 0 /\ asked[c].limit > 0
        /\ Goto(c, "count", "fetch")
        /\ readers' = readers \ {c}
        /\ UNCHANGED searchVars
  /\ UNCHANGED <<db, Tokens, writer, queued, hintVars, lifeVars, tmp>>

RUnlock(c) ==
  /\ at[c] > Len(asked[c].query)
  /\ c \in readers
  /\ readers' = readers \ {c}
  /\ \/ /\ Total(c) = 0 \/ asked[c].limit <= 0
        /\ Return(c, "count", Found(<<>>, Total(c)))
     \/ /\ Total(c) > 0 /\ asked[c].limit > 0
        /\ Goto(c, "count", "fetch")
        /\ UNCHANGED searchVars
  /\ UNCHANGED <<db, Tokens, writer, queued, hintVars, lifeVars, tmp>>

\* Mutant: items is not cut at the limit.
BestIdsAll(c) == {id \in ComicIds : counts[c][id] > 0}

\* The ids in items[:limit], where limit is at most total.
BestIds(c) == ToSet(AtMost(asked[c].limit, RankSeq(counts[c])))

\* Mutant: the comics come from the index, as old as it is.
FetchIndexed(c) ==
  /\ \/ \E comics \in SetToSeqs(BestIds(c)) : Return(c, "fetch", Found(comics, Total(c)))
     \/ Return(c, "fetch", Failed)
  /\ UNCHANGED <<db, Tokens, lockVars, hintVars, lifeVars, tmp>>

\* DB.GetComicsByIDs has no ORDER BY: any order of the rows it finds.
FetchComics(c) ==
  /\ \/ \E comics \in SetToSeqs(BestIds(c) \cap db) :
          Return(c, "fetch", Found(comics, Total(c)))
     \/ Return(c, "fetch", Failed)
  /\ UNCHANGED <<db, Tokens, lockVars, hintVars, lifeVars, tmp>>

\* DB.IDs counts the matching comics first, and has no use for the number.
CountRows(c) ==
  /\ \/ Goto(c, "dbcount", "dbselect") /\ UNCHANGED searchVars
     \/ Return(c, "dbcount", Failed)
  /\ UNCHANGED <<db, Tokens, lockVars, hintVars, lifeVars, tmp>>

\* The service reports as total how many comics it got.  PostgreSQL refuses a
\* negative LIMIT.
SelectRows(c) ==
  /\ \/ /\ asked[c].limit >= 0
        /\ LET comics == SelectIds(Rows(db), asked[c].query, asked[c].limit)
           IN Return(c, "dbselect", Found(comics, Len(comics)))
     \/ Return(c, "dbselect", Failed)
  /\ UNCHANGED <<db, Tokens, lockVars, hintVars, lifeVars, tmp>>

SearchStep(c) ==
  \/ Norm(c)
  \/ RLock(c) \/ CountWord(c) \/ RUnlock(c) \/ FetchComics(c)
  \/ CountRows(c) \/ SelectRows(c)

-----------------------------------------------------------------------------
(***************************************************************************)
(* The surroundings: the update service writes the table; the process is   *)
(* interrupted, crashes, and is restarted.                                 *)
(***************************************************************************)
InsertRow ==
  /\ \E id \in ComicIds \ db : db' = db \cup {id}
  /\ UNCHANGED <<Tokens, lockVars, hintVars, lifeVars, pc, tmp, searchVars>>

TruncateTable ==
  /\ db # {}
  /\ db' = {}
  /\ UNCHANGED <<Tokens, lockVars, hintVars, lifeVars, pc, tmp, searchVars>>

\* SIGINT: the loops' context is done and the gRPC server takes no new calls.
Interrupt ==
  /\ restarts < MaxRestarts
  /\ ~stopping
  /\ stopping' = TRUE
  /\ UNCHANGED <<db, Tokens, lockVars, hintVars, restarts, pc, tmp, searchVars>>

\* The process is gone, with all that it held, and a new one starts.
Restart ==
  /\ restarts < MaxRestarts
  /\ restarts' = restarts + 1
  /\ stopping' = FALSE
  /\ Tokens' = EmptyIndex
  /\ writer' = NoOne
  /\ readers' = {}
  /\ queued' = {}
  /\ tick' = FALSE
  /\ pending' = 0
  /\ pc' = Started
  /\ tmp' = [r \in Rebuilders |-> EmptyIndex]
  /\ at' = [c \in Searchers |-> 1]
  /\ counts' = [c \in Searchers |-> NoPoints]
  /\ UNCHANGED <<db, asked, answer>>

Crash == Restart

\* GracefulStop has waited for the calls in progress.
Exit == stopping /\ (\A c \in Clients : pc[c] = "idle") /\ Restart

Next ==
  \/ \E r \in Rebuilders : RebuildStep(r) \/ CallRebuild(r)
  \/ Tick \/ TakeTick
  \/ Deliver \/ TakeMessage
  \/ \E c \in Searchers : Ask(c) \/ SearchStep(c)
  \/ InsertRow \/ TruncateTable
  \/ Interrupt \/ Exit \/ Crash

Spec == Init /\ [][Next]_vars

(***************************************************************************)
(* Goroutines run and remote calls are answered; the ticker ticks for      *)
(* ever; RWMutex serves writers in the order they came, so none is passed  *)
(* over for ever; and PostgreSQL does not fail every read of the           *)
(* initiator.  Events, clients, changes and crashes are not forced.        *)
(***************************************************************************)
Fairness ==
  /\ \A r \in Rebuilders : WF_vars(RebuildStep(r)) /\ SF_vars(Lock(r))
  /\ SF_vars(LoadOK(initiator))
  /\ WF_vars(Tick)
  /\ WF_vars(TakeTick)
  /\ WF_vars(TakeMessage)
  /\ \A c \in Searchers : WF_vars(SearchStep(c))
  /\ WF_vars(Exit)

FairSpec == Spec /\ Fairness

-----------------------------------------------------------------------------
(***************************************************************************)
(* Properties                                                              *)
(***************************************************************************)
\* The words a search has counted so far were all counted in the one index
\* that is in use as long as the search holds the read lock: no Rebuild gets
\* in between two words.
CountsOneIndex ==
  \A c \in readers : \A id \in ComicIds :
    counts[c][id] = Cardinality({i \in 1..(at[c] - 1) : id \in Tokens[asked[c].query[i]]})

\* The inductive invariant behind it: who the lock thinks is inside or waiting
\* is there, nobody waits for a lock that is free, and a search that has not
\* got the lock has counted nothing.
LockSound ==
  /\ \A r \in Rebuilders : writer = r <=> pc[r] = "drain"
  /\ readers \cup queued = {c \in Searchers : pc[c] = "count"}
  /\ readers \cap queued = {}
  /\ queued # {} => writer # NoOne

NothingCounted ==
  \A c \in Searchers :
    pc[c] \notin {"count", "fetch"} \/ c \in queued => at[c] = 1 /\ counts[c] = NoPoints

IInv == LockSound /\ NothingCounted /\ WithinQuery /\ CountsOneIndex

\* A page has no comic twice, and no more comics than its limit or than the
\* total that is reported with it: the total is of the index, the comics are
\* those the table still has when they are looked up.
PagesFit ==
  \A c \in Searchers :
    LET page == answer[c].comics
    IN /\ IsInjective(page)
       /\ Len(page) <= answer[c].total
       /\ page # <<>> => Len(page) <= asked[c].limit

\* The index catches up with the table once nobody writes to it any more:
\* whatever events were lost or came late, whichever Rebuild failed, however
\* old a copy another Rebuild installs, and in spite of restarts.
FreshIndex ==
  <>[][db' = db]_db => <>[](Tokens = Postings(Rows(db)))

\* Every Search, SearchIndex and Rebuild call returns, although a waiting
\* writer keeps new readers out and readers keep the writer waiting.
CallReturns == \A c \in Clients : pc[c] # "idle" ~> pc[c] = "idle"

\* index_test.go calls what Index.Search returns "ranked comics": none comes
\* after one that has fewer words of the query.
RankedComics ==
  \A c \in Searchers :
    pc[c] = "idle" /\ ~answer[c].err =>
      LET score  == [id \in ComicIds |-> Points(Postings(Rows(ComicIds)), asked[c].query, id)]
          comics == answer[c].comics
      IN \A i, j \in DOMAIN comics : i < j => score[comics[i]] >= score[comics[j]]
=============================================================================

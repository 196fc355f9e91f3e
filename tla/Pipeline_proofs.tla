--------------------------- MODULE Pipeline_proofs ---------------------------
(***************************************************************************)
(* Theorems about Pipeline, for every number of comics, clients and        *)
(* messages: the two services compose, and events keep the index fresh.    *)
(***************************************************************************)
EXTENDS Pipeline, SearchIndex_proofs

USE DEF storeOwn, searchOwn, lockVars, hintVars, lifeVars, searchVars

-----------------------------------------------------------------------------
(***************************************************************************)
(* The composition adds no behaviour to either service                     *)
(***************************************************************************)
\* What an owner does to the table is what SearchIndex takes it to do.
LEMMA StoreWrites ==
  ASSUME NEW c, Store!Insert(c) \/ Store!Empty(c), db \in SUBSET ComicIds,
         plan \subseteq ComicIds, UNCHANGED searchOwn
  PROVE  InsertRow \/ TruncateTable \/ UNCHANGED vars
  <1>1. CASE Store!Insert(c)
    BY <1>1 DEF Store!Insert, InsertRow
  <1>2. CASE Store!Empty(c)
    BY <1>2 DEF Store!Empty, TruncateTable, vars
  <1> QED BY <1>1, <1>2

StoreOK == Store!TypeOK

\* A step of the composition is one of SearchIndex, or none.
LEMMA SearchRefined ==
  ASSUME StateOK, StoreOK, [PipeNext]_pipeVars
  PROVE  [Next]_vars
  <1>1. CASE UNCHANGED pipeVars
    BY <1>1 DEF pipeVars, vars
  <1>2. CASE \E c \in Updaters \cup Droppers : StoreStep(c)
    <2>1. PICK c \in Updaters \cup Droppers : StoreStep(c)
      BY <1>2
    <2>2. CASE Store!Insert(c) \/ Store!Empty(c)
      <3>1. InsertRow \/ TruncateTable \/ UNCHANGED vars
        BY <2>1, <2>2, StoreWrites, PipelineAssumption DEF StoreStep, StateOK, StoreOK, Store!TypeOK, Store!Comics
      <3> QED BY <3>1 DEF Next
    <2>3. CASE Store!Request(c) \/ Store!Refuse(c) \/ Store!Begin(c) \/ Store!Plan(c) \/ EndCall(c)
      BY <2>1, <2>3 DEF StoreStep, EndCall, Store!Request, Store!Refuse, Store!Begin,
         Store!Plan, Store!End, vars
    <2> QED BY <2>1, <2>2, <2>3 DEF StoreStep
  <1>3. CASE \E c \in Updaters \cup Droppers : PublishEvent(c)
    BY <1>3 DEF PublishEvent, Store!Tell, vars
  <1>4. CASE StoreOutside
    BY <1>4 DEF StoreOutside, Store!Publish, Store!Restart, vars
  <1>5. CASE SearchSide
    BY <1>5 DEF SearchSide, Next
  <1>6. CASE PassOn
    BY <1>6 DEF PassOn, Next
  <1>7. CASE Lose
    BY <1>7 DEF Lose
  <1> QED BY <1>1, <1>2, <1>3, <1>4, <1>5, <1>6, <1>7 DEF PipeNext

\* A search changes neither the table nor the index, nor what a loop is at.
LEMMA SearchRests ==
  ASSUME StateOK, NEW c \in Searchers, Ask(c) \/ SearchStep(c)
  PROVE  UNCHANGED <<db, Tokens, tmp, hintVars, lifeVars>> /\ pc'[subscriber] = pc[subscriber]
  <1>1. UNCHANGED <<db, Tokens, tmp, hintVars, lifeVars>> /\ \E to : pc' = [pc EXCEPT ![c] = to]
    <2>1. CASE Ask(c)
      BY <2>1 DEF Ask, Goto
    <2>2. CASE Norm(c)
      BY <2>2 DEF Norm, Return, Goto
    <2>3. CASE RLock(c)
      BY <2>3 DEF RLock, Goto
    <2>4. CASE CountWord(c)
      <3>1. pc' = [pc EXCEPT ![c] = pc[c]]
        BY <2>4 DEF CountWord, StateOK
      <3> QED BY <2>4, <3>1 DEF CountWord
    <2>5. CASE RUnlock(c)
      BY <2>5 DEF RUnlock, Return, Goto
    <2>6. CASE FetchComics(c)
      BY <2>6 DEF FetchComics, Return, Goto
    <2>7. CASE CountRows(c)
      BY <2>7 DEF CountRows, Return, Goto
    <2>8. CASE SelectRows(c)
      BY <2>8 DEF SelectRows, Return, Goto
    <2> QED BY <2>1, <2>2, <2>3, <2>4, <2>5, <2>6, <2>7, <2>8 DEF SearchStep
  <1>2. subscriber # c
    BY Apart DEF Rebuilders, Loops
  <1> QED BY <1>1, <1>2 DEF StateOK

\* The search service only reads the table.
LEMMA SearchSideReads ==
  ASSUME StateOK, SearchSide
  PROVE  UNCHANGED db
  BY SearchRests
     DEF SearchSide, RebuildStep, LoadOK, LoadErr, Lock, Install, CallRebuild, Tick, TakeTick,
         TakeMessage, Interrupt, Exit, Crash, Restart

\* The composition keeps the types of ComicStore.
LEMMA StoreTypeNext ==
  ASSUME StateOK, StoreOK, [PipeNext]_pipeVars
  PROVE  StoreOK'
  <1> USE DEF StoreOK, Store!TypeOK, Store!Comics
  <1>1. CASE UNCHANGED storeOwn
    <2>1. StateOK'
      BY SearchRefined, StateNext
    <2> QED BY <1>1, <2>1, PipelineAssumption DEF StateOK
  <1>2. ASSUME NEW c \in Updaters \cup Droppers, StoreStep(c) PROVE StoreOK'
    <2> USE <1>2, PipelineAssumption DEF Store!Clients, Store!Answer, Store!Answers, Store!Failures
    <2>1. CASE Store!Request(c) \/ Store!Refuse(c) \/ Store!Begin(c)
      BY <2>1 DEF Store!Request, Store!Refuse, Store!Begin
    <2>2. CASE Store!Plan(c)
      BY <2>2 DEF Store!Plan
    <2>3. CASE Store!Insert(c) \/ Store!Empty(c)
      BY <2>3 DEF Store!Insert, Store!Empty
    <2>4. CASE EndCall(c)
      BY <2>4 DEF EndCall, Store!End
    <2> QED BY <2>1, <2>2, <2>3, <2>4 DEF StoreStep
  <1>3. CASE StoreOutside
    <2>1. CASE Store!Publish
      BY <2>1, PipelineAssumption DEF Store!Publish
    <2>2. CASE Store!Restart
      BY <2>2, PipelineAssumption DEF Store!Restart, Store!Answers, Store!Failures
    <2> QED BY <1>3, <2>1, <2>2 DEF StoreOutside
  <1>4. ASSUME NEW c \in Updaters \cup Droppers, PublishEvent(c) PROVE StoreOK'
    BY <1>4 DEF PublishEvent, Store!Tell
  <1>5. CASE SearchSide \/ PassOn \/ Lose
    BY <1>1, <1>5 DEF SearchSide, PassOn, Lose
  <1>6. CASE UNCHANGED pipeVars
    BY <1>1, <1>6 DEF pipeVars
  <1> QED
    BY <1>2, <1>3, <1>4, <1>5, <1>6 DEF PipeNext

\* The composition implements SearchIndex, in every surrounding it can make:
\* what is proved and checked of SearchIndex holds with the real update service
\* beside it.
THEOREM PipelineImplementsSearchIndex == PipeSpec => Spec
  <1>1. PipeInit => Init /\ StoreOK
    BY PipelineAssumption DEF PipeInit, Store!Init, Store!Comics, Store!Answers, StoreOK, Store!TypeOK
  <1>2. Init => StateOK
    BY StateInit
  <1>3. StateOK /\ StoreOK /\ [PipeNext]_pipeVars => [Next]_vars /\ StoreOK'
    BY SearchRefined, StoreTypeNext
  <1>4. StateOK /\ [Next]_vars => StateOK'
    BY StateNext
  <1> QED BY <1>1, <1>2, <1>3, <1>4, PTL DEF PipeSpec, Spec

\* The types of both services together.
LEMMA PipelineTyped == PipeSpec => [](StateOK /\ StoreOK)
  <1>1. PipeInit => StateOK /\ StoreOK
    BY StateInit, PipelineAssumption
       DEF PipeInit, Store!Init, Store!Comics, Store!Answers, StoreOK, Store!TypeOK
  <1>2. StateOK /\ StoreOK /\ [PipeNext]_pipeVars => StateOK' /\ StoreOK'
    BY SearchRefined, StateNext, StoreTypeNext
  <1> QED BY <1>1, <1>2, PTL DEF PipeSpec

\* And it implements ComicStore: the search service and NATS take nothing away
\* from what the update service promises.
THEOREM PipelineImplementsComicStore == PipeSpec => Store!Spec
  <1>1. PipeInit => Store!Init
    BY DEF PipeInit
  <1>2. ASSUME StateOK, [PipeNext]_pipeVars PROVE [Store!Next]_(Store!vars)
    <2>1. CASE UNCHANGED pipeVars
      BY <2>1 DEF pipeVars, vars, Store!vars
    <2>2. ASSUME NEW c \in Updaters \cup Droppers, StoreStep(c) \/ PublishEvent(c)
          PROVE  Store!Next
      BY <2>2 DEF StoreStep, EndCall, PublishEvent, Store!Next, Store!Clients
    <2>3. CASE StoreOutside
      BY <2>3 DEF StoreOutside, Store!Next
    <2>4. CASE SearchSide
      <3>1. UNCHANGED db
        BY <1>2, <2>4, SearchSideReads
      <3> QED BY <2>4, <3>1 DEF SearchSide, Store!vars
    <2>5. CASE PassOn
      BY <2>5 DEF PassOn, Deliver, Store!vars
    <2>6. CASE Lose
      BY <2>6 DEF Lose, vars, Store!vars
    <2> QED BY <1>2, <2>1, <2>2, <2>3, <2>4, <2>5, <2>6 DEF PipeNext
  <1> QED BY <1>1, <1>2, PipelineTyped, PTL DEF PipeSpec, Store!Spec

-----------------------------------------------------------------------------
(***************************************************************************)
(* Events keep the index fresh                                             *)
(***************************************************************************)
\* The initial states: the index is behind with an excuse.
LEMMA PipeIInvInit == PipeInit => PipeIInv
  BY PipelineAssumption DEF PipeInit, Store!Init, PipeIInv, FollowedUp

\* A step of the update service: what it changes it has not announced, what it
\* announces is on the wire, and only a Drop that is called takes away.
LEMMA StoreStepKeeps ==
  ASSUME StateOK, StoreOK, PipeIInv, Observe, NEW c \in Updaters \cup Droppers, StoreStep(c)
  PROVE  PipeIInv'
  <1>1. UNCHANGED <<wire, pending, pc, tmp, Tokens, restarts>>
    BY DEF StoreStep
  <1>2. StoreOK'
    BY StoreTypeNext DEF PipeNext
  <1>3. db' # db => ~told'
    BY DEF StoreStep, EndCall, Store!Request, Store!Refuse, Store!Begin, Store!Plan,
       Store!Insert, Store!Empty, Store!End
  <1>4. told' => told
    BY DEF StoreStep, EndCall, Store!Request, Store!Refuse, Store!Begin, Store!Plan,
       Store!Insert, Store!Empty, Store!End
  <1>5. FollowedUp'
    BY <1>1, <1>3, <1>4 DEF PipeIInv, FollowedUp, Behind, Observe
  <1>6. settled' \subseteq db'
    <2>1. CASE Store!Empty(c)
      <3>1. c \in Droppers /\ owner = c /\ reply' = reply
        BY <2>1 DEF Store!Empty
      <3> QED BY <3>1, PipelineAssumption DEF PipeIInv, Observe, DropCalled
    <2>2. CASE EndCall(c)
      <3>1. db' = db /\ owner = c
        BY <2>2 DEF EndCall, Store!End
      <3>2. ASSUME c \in Updaters, reply'[c] = "ok" PROVE (1..target) \ Skipped \subseteq db
        BY <2>2, <3>2, PipelineAssumption
           DEF StoreOK, Store!TypeOK, Store!Clients, EndCall, Store!End, Store!Updated,
               Store!Dropped, Store!Answer, Store!Failures
      <3>3. Promised \subseteq db
        BY <3>1, <3>2, PipelineAssumption DEF Promised
      <3> QED BY <3>1, <3>3 DEF PipeIInv, Observe
    <2>3. CASE Store!Request(c) \/ Store!Refuse(c) \/ Store!Begin(c) \/ Store!Plan(c) \/ Store!Insert(c)
      <3>1. db \subseteq db' /\ (owner' = owner \/ owner = NoCaller)
        BY <2>3 DEF Store!Request, Store!Refuse, Store!Begin, Store!Plan, Store!Insert
      <3>2. Promised = {}
        BY <3>1, PipelineAssumption DEF Promised
      <3> QED BY <3>1, <3>2 DEF PipeIInv, Observe
    <2> QED BY <2>1, <2>2, <2>3 DEF StoreStep
  <1>7. owner' # NoCaller => reply'[owner'] = "pending"
    BY PipelineAssumption
       DEF PipeIInv, StoreOK, Store!TypeOK, Store!Clients, StoreStep, EndCall, Store!Request,
           Store!Refuse, Store!Begin, Store!Plan, Store!Insert, Store!Empty, Store!End, Store!Answer
  <1>8. settled' # {} => \A d \in Droppers : reply'[d] # "pending"
    BY DEF Observe, DropCalled
  <1> QED
    BY <1>1, <1>2, <1>5, <1>6, <1>7, <1>8 DEF PipeIInv, StoreOK, Store!TypeOK
\* An event is published: it is on the wire, and that is what is under way.
LEMMA PublishEventKeeps ==
  ASSUME StateOK, StoreOK, PipeIInv, Observe, NEW c \in Updaters \cup Droppers, PublishEvent(c)
  PROVE  PipeIInv'
  <1>1. UNCHANGED <<db, owner, reply, target>>
    BY DEF PublishEvent, Store!Tell
  <1>2. wire' \in Seq({updatedSubject, droppedSubject}) /\ wire' # <<>>
    BY DEF PipeIInv, PublishEvent, Publish
  <1>3. Promised = {}
    BY <1>1, PipelineAssumption DEF Promised
  <1> QED
    BY <1>1, <1>2, <1>3 DEF PipeIInv, FollowedUp, Observe, DropCalled

\* xkcd.com and the restarts of the update service leave the table alone.
LEMMA StoreOutsideKeeps ==
  ASSUME StateOK, StoreOK, PipeIInv, Observe, StoreOutside
  PROVE  PipeIInv'
  <1>1. UNCHANGED <<db, told, wire, pending, pc, tmp, Tokens, restarts>>
    BY DEF StoreOutside, Store!Publish, Store!Restart
  <1>2. target' \in Nat
    BY PipelineAssumption DEF StoreOK, Store!TypeOK, StoreOutside, Store!Publish, Store!Restart
  <1>3. Promised = {}
    BY PipelineAssumption
       DEF PipeIInv, Promised, StoreOK, Store!TypeOK, Store!Clients, StoreOutside, Store!Publish,
           Store!Restart
  <1>4. owner' # NoCaller => reply'[owner'] = "pending"
    BY PipelineAssumption DEF PipeIInv, StoreOutside, Store!Publish, Store!Restart
  <1>5. FollowedUp'
    BY <1>1 DEF PipeIInv, FollowedUp, Behind, Observe
  <1> QED
    BY <1>1, <1>2, <1>3, <1>4, <1>5 DEF PipeIInv, Observe, DropCalled

\* Where the update service is not involved, only the freshness is at stake.
LEMMA StoreRests ==
  ASSUME PipeIInv, Observe, UNCHANGED <<db, storeOwn>>,
         wire' \in Seq({updatedSubject, droppedSubject}), FollowedUp'
  PROVE  PipeIInv'
  <1>1. Promised = {}
    BY PipelineAssumption DEF Promised
  <1> QED
    BY <1>1 DEF PipeIInv, Observe, DropCalled

\* A message on its way is passed on, and waits in the subscription.
LEMMA PassOnKeeps ==
  ASSUME StateOK, PipeIInv, Observe, PassOn
  PROVE  PipeIInv'
  <1>1. pending' # 0
    BY DEF StateOK, PassOn, Deliver
  <1>2. wire' \in Seq({updatedSubject, droppedSubject})
    BY DEF PipeIInv, PassOn
  <1> QED
    BY <1>1, <1>2, StoreRests DEF PassOn, Deliver, FollowedUp

\* A message that is lost, when the subscriber wants it, is an excuse; and it
\* wants every message there is.
LEMMA LoseKeeps ==
  ASSUME StateOK, PipeIInv, Observe, Lose
  PROVE  PipeIInv'
  <1>1. wire' \in Seq({updatedSubject, droppedSubject})
    BY DEF PipeIInv, Lose
  <1>2. Reason
    <2>1. Subscribed(Head(wire))
      BY DEF PipeIInv, Lose, Subscribed
    <2> QED BY <2>1 DEF Reason, Lose, vars
  <1> QED
    BY <1>1, <1>2, StoreRests DEF Lose, vars, FollowedUp, Observe

\* The search service: what the subscriber loads is the table as it is, and what
\* it then installs makes up for whatever others have installed.
LEMMA SearchSideKeeps ==
  ASSUME StateOK, PipeIInv, Observe, SearchSide
  PROVE  PipeIInv'
  <1> SUFFICES ASSUME Behind', ~excuse', told', wire' = <<>>, pending' = 0
               PROVE  \/ pc'[subscriber] = "load"
                      \/ /\ pc'[subscriber] \in {"lock", "drain"}
                         /\ tmp'[subscriber] = Postings(Rows(db))
    <2>1. UNCHANGED <<db, storeOwn, wire>>
      BY SearchSideReads DEF SearchSide
    <2> QED BY <2>1, StoreRests DEF PipeIInv, FollowedUp
  <1> USE ProcessesAssumption DEF Loops, Rebuilders, StateOK
  <1>1. ~Reason
    BY DEF Observe
  <1>2. UNCHANGED <<told, wire>>
    BY DEF SearchSide
  <1>3. ASSUME NEW r \in Rebuilders, LoadOK(r) \/ LoadErr(r) \/ Lock(r) \/ CallRebuild(r)
        PROVE  \/ pc'[subscriber] = "load"
               \/ /\ pc'[subscriber] \in {"lock", "drain"}
                  /\ tmp'[subscriber] = Postings(Rows(db))
    BY <1>1, <1>2, <1>3
       DEF PipeIInv, FollowedUp, Behind, Observe, Reason, LoadOK, LoadErr, Lock, CallRebuild,
           Goto, Resting
  <1>4. ASSUME NEW r \in Rebuilders, Install(r)
        PROVE  \/ pc'[subscriber] = "load"
               \/ /\ pc'[subscriber] \in {"lock", "drain"}
                  /\ tmp'[subscriber] = Postings(Rows(db))
    <2>1. UNCHANGED <<db, pending>> /\ Tokens' = tmp[r] /\ pc[r] = "drain"
      BY <1>4 DEF Install, Goto
    <2>2. Behind
      BY <1>1, <2>1 DEF Reason, Behind
    <2>3. FollowedUp /\ ~excuse
      BY <2>2 DEF PipeIInv, Observe
    <2>4. r # subscriber
      BY <1>2, <2>1, <2>2, <2>3 DEF FollowedUp, Behind
    <2> QED
      BY <1>2, <1>4, <2>1, <2>2, <2>3, <2>4 DEF FollowedUp, Install, Goto
  <1>5. CASE Tick \/ TakeTick \/ TakeMessage \/ Interrupt
    BY <1>2, <1>5
       DEF PipeIInv, FollowedUp, Behind, Observe, Tick, TakeTick, TakeMessage, Interrupt, Goto
  <1>6. CASE Exit \/ Crash
    BY <1>1, <1>6 DEF Exit, Crash, Restart, Reason
  <1>7. ASSUME NEW c \in Searchers, Ask(c) \/ SearchStep(c)
        PROVE  \/ pc'[subscriber] = "load"
               \/ /\ pc'[subscriber] \in {"lock", "drain"}
                  /\ tmp'[subscriber] = Postings(Rows(db))
    <2>1. UNCHANGED <<db, Tokens, tmp, pending>> /\ pc'[subscriber] = pc[subscriber]
      BY <1>7, SearchRests
    <2> QED BY <1>1, <1>2, <2>1 DEF PipeIInv, FollowedUp, Behind, Observe
  <1> QED
    BY <1>3, <1>4, <1>5, <1>6, <1>7 DEF SearchSide, RebuildStep

\* Every step preserves the invariant.
LEMMA PipeIInvNext ==
  StateOK /\ StoreOK /\ PipeIInv /\ [PipeNext]_pipeVars => PipeIInv'
  <1> SUFFICES ASSUME StateOK, StoreOK, PipeIInv, [PipeNext]_pipeVars PROVE PipeIInv'
    OBVIOUS
  <1>1. CASE UNCHANGED pipeVars
    <2>1. FollowedUp' = FollowedUp
      BY <1>1 DEF pipeVars, historyVars, vars, FollowedUp, Behind
    <2> QED BY <1>1, <2>1 DEF pipeVars, historyVars, vars, PipeIInv
  <1>2. CASE PipeNext
    BY <1>2, StoreStepKeeps, PublishEventKeeps, StoreOutsideKeeps, SearchSideKeeps, PassOnKeeps,
       LoseKeeps DEF PipeNext
  <1> QED BY <1>1, <1>2

\* The invariant implies both properties.
LEMMA PipeIInvEnough == StateOK /\ PipeIInv => StalenessExplained /\ UpdatedIsSearchable
  <1> SUFFICES ASSUME StateOK, PipeIInv PROVE StalenessExplained /\ UpdatedIsSearchable
    OBVIOUS
  <1>1. StalenessExplained
    BY DEF StateOK, PipeIInv, FollowedUp, StalenessExplained, CatchingUp, RebuildPcs
  <1>2. UpdatedIsSearchable
    <2> SUFFICES ASSUME ~CatchingUp, ~excuse, NEW id \in settled, NEW t \in ToSet(WordsOf[id])
                 PROVE  id \in Tokens[t]
      BY DEF UpdatedIsSearchable
    <2>1. Tokens = Postings(Rows(db))
      BY <1>1 DEF StalenessExplained, Behind
    <2>2. id \in db /\ id \in ComicIds
      BY DEF StateOK, PipeIInv
    <2>3. t \in Vocab
      BY <2>2, DataAssumption DEF ToSet
    <2> QED
      BY <2>1, <2>2, <2>3 DEF Postings, Rows
  <1> QED BY <1>1, <1>2

\* The inductive invariant holds.
THEOREM PipelineInvariant == PipeSpec => []PipeIInv
  BY PipelineTyped, PipeIInvInit, PipeIInvNext, PTL DEF PipeSpec

\* An index that is behind the table is explained, for every number of comics,
\* clients and messages on the way.
THEOREM PipelineStalenessExplained == PipeSpec => []StalenessExplained
  BY PipelineTyped, PipelineInvariant, PipeIInvEnough, PTL

\* What an Update has answered for is found in the index.
THEOREM PipelineUpdatedIsSearchable == PipeSpec => []UpdatedIsSearchable
  BY PipelineTyped, PipelineInvariant, PipeIInvEnough, PTL

\* With the update service writing the table and its events on their way
\* through NATS, searches are still answered from one index each.
THEOREM PipelineImplementsSearchPromise == PipeSpec => ImplementsSearchPromise
  BY PipelineImplementsSearchIndex, SearchIndexImplementsPromise, PTL

-----------------------------------------------------------------------------
(***************************************************************************)
(* From an Update to a search                                              *)
(***************************************************************************)
\* A search that has counted its last word, with no event to be followed up:
\* what an Update has answered for and shares a word with the query has points
\* and is in the table, and is among the ids to look up unless they are too many.
UpdatedIsFound ==
  ~CatchingUp /\ ~excuse =>
    \A c \in readers : \A id \in settled :
      at[c] > Len(asked[c].query) /\ ToSet(WordsOf[id]) \cap ToSet(asked[c].query) # {} =>
        /\ counts[c][id] > 0
        /\ id \in db
        /\ Total(c) <= asked[c].limit => id \in BestIds(c)

\* A comic that is in the index with a word of the query has points for it.
LEMMA IndexedIsFound ==
  ASSUME PromiseInv, UpdatedIsSearchable, ~CatchingUp, ~excuse, settled \subseteq db,
         NEW c \in readers, NEW id \in settled, at[c] > Len(asked[c].query),
         ToSet(WordsOf[id]) \cap ToSet(asked[c].query) # {}
  PROVE  /\ counts[c][id] > 0
         /\ Total(c) <= asked[c].limit => id \in BestIds(c)
  <1> DEFINE query == asked[c].query
             P == {i \in DOMAIN query : id \in Tokens[query[i]]}
  <1>1. /\ c \in Searchers /\ id \in ComicIds
        /\ query \in Seq(Vocab) /\ asked[c].limit \in Int
        /\ counts[c] \in [ComicIds -> Nat]
    BY DEF PromiseInv, StateOK
  <1>2. DOMAIN query = 1..Len(query) /\ Len(query) \in Nat
    BY <1>1, LenProperties
  <1>3. PICK i \in DOMAIN query : query[i] \in ToSet(WordsOf[id])
    BY DEF ToSet
  <1>4. i \in P
    BY <1>3 DEF UpdatedIsSearchable
  <1>5. IsFiniteSet(P)
    <2>1. IsFiniteSet(1..Len(query)) /\ P \in SUBSET (1..Len(query))
      BY <1>2, FS_Interval
    <2> QED BY <2>1, FS_Subset
  <1>6. Cardinality(P) \in Nat /\ Cardinality(P) # 0
    BY <1>4, <1>5, FS_CardinalityType, FS_EmptySet
  <1>7. counts[c][id] = Cardinality(P)
    <2>1. counts[c] = ThePoints(Tokens, query)
      BY <1>1, CountedAll
    <2> QED BY <1>1, <2>1 DEF ThePoints, Points
  <1> HIDE DEF P
  <1>8. counts[c][id] > 0
    BY <1>6, <1>7
  <1>9. ASSUME Total(c) <= asked[c].limit PROVE id \in BestIds(c)
    <2>1. /\ Total(c) = Cardinality(WithPoints(counts[c]))
          /\ Total(c) \in Nat
          /\ IsScore(counts[c])
      BY <1>1, TotalType, CountsAreScore DEF PromiseInv
    <2>2. asked[c].limit \in Nat
      BY <1>1, <1>9, <2>1
    <2>3. BestIds(c) = WithPoints(counts[c])
      BY <1>9, <2>1, <2>2, AllGiven DEF BestIds
    <2> QED BY <1>1, <1>8, <2>3, CountsAreScore
  <1> QED BY <1>8, <1>9

\* For any number of comics, clients and messages: once the event of an Update
\* has been followed up, the comics it has answered for are found by every
\* search of the index that has a word of theirs, until a Drop is called.
THEOREM PipelineUpdatedIsFound == PipeSpec => []UpdatedIsFound
  <1>1. PromiseInv /\ PipeIInv /\ UpdatedIsSearchable => UpdatedIsFound
    BY IndexedIsFound DEF UpdatedIsFound, PipeIInv
  <1> QED
    BY <1>1, PipelineInvariant, PipelineUpdatedIsSearchable, PipelineImplementsSearchIndex,
       PromiseInvariant, PTL
=============================================================================

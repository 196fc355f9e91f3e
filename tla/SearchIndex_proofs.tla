-------------------------- MODULE SearchIndex_proofs --------------------------
(***************************************************************************)
(* Theorems about SearchIndex, for every set of clients, vocabulary, set   *)
(* of comics and set of queries: types, the lock and the counts, what is   *)
(* answered, and that it implements SearchPromise.                         *)
(***************************************************************************)
EXTENDS SearchIndexPromise, Ranking_proofs

USE DEF lockVars, hintVars, lifeVars, searchVars

\* How many of the first n + 1 numbers are in a set.
LEMMA OneMore ==
  ASSUME NEW S, NEW n \in Nat
  PROVE  Cardinality({i \in 1..(n + 1) : i \in S}) =
           Cardinality({i \in 1..n : i \in S}) + (IF n + 1 \in S THEN 1 ELSE 0)
  <1> DEFINE A == {i \in 1..n : i \in S}
             B == {i \in 1..(n + 1) : i \in S}
  <1>1. IsFiniteSet(A)
    <2>1. IsFiniteSet(1..n) BY FS_Interval
    <2> QED BY <2>1, FS_Subset, A \subseteq 1..n
  <1>2. CASE n + 1 \in S
    <2>1. B = A \cup {n + 1} BY <1>2
    <2>2. n + 1 \notin A OBVIOUS
    <2>3. Cardinality(A \cup {n + 1}) = Cardinality(A) + 1
      BY <1>1, <2>2, FS_AddElement
    <2> QED BY <1>2, <2>1, <2>3
  <1>3. CASE n + 1 \notin S
    <2>1. B = A BY <1>3
    <2>2. Cardinality(A) \in Nat BY <1>1, FS_CardinalityType
    <2>3. Cardinality(B) = Cardinality(A) + 0 BY <2>1, <2>2
    <2> QED BY <1>3, <2>3
  <1> QED BY <1>2, <1>3

\* The lists of the index hold ids of comics.
LEMMA PostingsType ==
  ASSUME NEW ids \in SUBSET ComicIds
  PROVE  Postings(Rows(ids)) \in [Vocab -> SUBSET ComicIds]
  BY DEF Postings, Rows

\* The same, of the index a process starts with.
LEMMA EmptyIndexType == EmptyIndex \in [Vocab -> SUBSET ComicIds]
  BY PostingsType DEF EmptyIndex

\* The points a search starts with.
LEMMA NoPointsType == NoPoints \in [ComicIds -> Nat]
  BY DEF NoPoints

-----------------------------------------------------------------------------
(***************************************************************************)
(* Types                                                                   *)
(***************************************************************************)
\* Where a process starts: no search is in progress, no writer in the lock.
LEMMA StartedType ==
  /\ Started \in [Rebuilders \cup Searchers -> {"load", "wait", "idle"}]
  /\ \A c \in Searchers : Started[c] = "idle"
  /\ \A r \in Rebuilders : Started[r] # "drain"
  BY ProcessesAssumption DEF Started, Rebuilders, Loops

\* The initial states are of the right type.
LEMMA StateInit == Init => StateOK
  <1> SUFFICES ASSUME Init PROVE StateOK
    OBVIOUS
  <1>1. asked \in [Searchers -> [via : {"search", "isearch"}, query : Seq(Vocab), limit : Int]]
    BY DEF Init
  <1>2. pc \in [Rebuilders \cup Searchers -> RebuildPcs \cup SearchPcs \cup {"wait", "stopped", "idle"}]
    BY StartedType DEF Init, RebuildPcs
  <1>3. tmp \in [Rebuilders -> [Vocab -> SUBSET ComicIds]] /\ counts \in [Searchers -> [ComicIds -> Nat]]
    BY EmptyIndexType, NoPointsType DEF Init
  <1>4. pending \in 0..MaxPending /\ restarts \in 0..MaxRestarts
    BY DataAssumption DEF Init
  <1>5. Tokens \in [Vocab -> SUBSET ComicIds] /\ at \in [Searchers -> Nat \ {0}]
    BY EmptyIndexType DEF Init
  <1> QED
    BY <1>1, <1>2, <1>3, <1>4, <1>5 DEF Init, StateOK

\* The end of a search leaves a state of the right type.
LEMMA ReturnType ==
  ASSUME StateOK, NEW c \in Searchers, NEW from, NEW what, Return(c, from, what)
  PROVE  /\ pc' \in [Rebuilders \cup Searchers -> RebuildPcs \cup SearchPcs \cup {"wait", "stopped", "idle"}]
         /\ asked' = asked
         /\ at' \in [Searchers -> Nat \ {0}]
         /\ counts' \in [Searchers -> [ComicIds -> Nat]]
  BY NoPointsType DEF StateOK, Return, Goto

\* Every step leaves a state of the right type.
LEMMA StateNext == StateOK /\ [Next]_vars => StateOK'
  <1> SUFFICES ASSUME StateOK, [Next]_vars PROVE StateOK'
    OBVIOUS
  <1>1. ASSUME NEW r \in Rebuilders, RebuildStep(r) PROVE StateOK'
    <2>1. CASE LoadOK(r)
      BY <2>1, PostingsType DEF StateOK, LoadOK, Goto, RebuildPcs
    <2>2. CASE LoadErr(r)
      BY <2>2 DEF StateOK, LoadErr, Goto, Resting
    <2>3. CASE Lock(r)
      BY <2>3 DEF StateOK, Lock, Goto, RebuildPcs
    <2>4. CASE Install(r)
      BY <2>4, EmptyIndexType DEF StateOK, Install, Goto, Resting
    <2> QED BY <1>1, <2>1, <2>2, <2>3, <2>4 DEF RebuildStep
  <1>2. ASSUME NEW r \in Rebuilders, CallRebuild(r) PROVE StateOK'
    BY <1>2 DEF StateOK, CallRebuild, Goto, RebuildPcs
  <1>3. CASE Tick \/ TakeTick \/ Deliver \/ TakeMessage
    <2>1. CASE Tick BY <2>1 DEF StateOK, Tick
    <2>2. CASE TakeTick BY <2>2 DEF StateOK, TakeTick, Goto, RebuildPcs
    <2>3. CASE Deliver BY <2>3, DataAssumption DEF StateOK, Deliver
    <2>4. CASE TakeMessage
      <3>1. pending' \in 0..MaxPending
        <4>1. pending \in 0..MaxPending BY DEF StateOK
        <4> QED BY <2>4, <4>1, DataAssumption DEF TakeMessage
      <3> QED BY <2>4, <3>1 DEF StateOK, TakeMessage, Goto, RebuildPcs
    <2> QED BY <1>3, <2>1, <2>2, <2>3, <2>4
  <1>4. ASSUME NEW c \in Searchers, Ask(c) PROVE StateOK'
    <2>1. PICK via \in {"search", "isearch"}, query \in Queries, limit \in Limits :
            asked' = [asked EXCEPT ![c] = [via |-> via, query |-> query, limit |-> limit]]
      BY <1>4 DEF Ask
    <2>2. query \in Seq(Vocab) /\ limit \in Int /\ Len(query) \in Nat
      BY DataAssumption
    <2>3. asked' \in [Searchers -> [via : {"search", "isearch"}, query : Seq(Vocab), limit : Int]]
      BY <2>1, <2>2 DEF StateOK
    <2>4. pc[c] = "idle" /\ UNCHANGED <<at, counts>>
      BY <1>4 DEF Ask, Goto
    <2> QED
      BY <1>4, <2>1, <2>2, <2>3, <2>4 DEF StateOK, Ask, Goto, SearchPcs
  <1>5. ASSUME NEW c \in Searchers, SearchStep(c) PROVE StateOK'
    <2>0. ASSUME NEW from, NEW what, Return(c, from, what),
                 UNCHANGED <<db, Tokens, writer, queued, hintVars, lifeVars, tmp>>,
                 readers' \in SUBSET Searchers
          PROVE  StateOK'
      BY <2>0, ReturnType DEF StateOK
    <2>1. CASE Norm(c)
      BY <2>0, <2>1 DEF StateOK, Norm, Goto, SearchPcs
    <2>2. CASE RLock(c)
      BY <2>2 DEF StateOK, RLock, Goto, SearchPcs
    <2>3. CASE CountWord(c)
      <3>1. counts' \in [Searchers -> [ComicIds -> Nat]]
        BY <2>3 DEF StateOK, CountWord
      <3>2. at' \in [Searchers -> Nat \ {0}]
        BY <2>3 DEF StateOK, CountWord
      <3> QED BY <2>3, <3>1, <3>2 DEF StateOK, CountWord
    <2>4. CASE RUnlock(c)
      BY <2>0, <2>4 DEF StateOK, RUnlock, Goto, SearchPcs
    <2>5. CASE FetchComics(c)
      BY <2>0, <2>5 DEF StateOK, FetchComics
    <2>6. CASE CountRows(c)
      BY <2>0, <2>6 DEF StateOK, CountRows, Goto, SearchPcs
    <2>7. CASE SelectRows(c)
      BY <2>0, <2>7 DEF StateOK, SelectRows
    <2> QED BY <1>5, <2>1, <2>2, <2>3, <2>4, <2>5, <2>6, <2>7 DEF SearchStep
  <1>6. CASE InsertRow \/ TruncateTable \/ Interrupt
    BY <1>6 DEF StateOK, InsertRow, TruncateTable, Interrupt
  <1>7. CASE Restart
    <2>1. restarts' \in 0..MaxRestarts /\ pending' \in 0..MaxPending
      <3>1. restarts \in 0..MaxRestarts BY DEF StateOK
      <3> QED BY <1>7, <3>1, DataAssumption DEF Restart
    <2>2. pc' \in [Rebuilders \cup Searchers -> RebuildPcs \cup SearchPcs \cup {"wait", "stopped", "idle"}]
      BY <1>7, StartedType DEF Restart, RebuildPcs
    <2>3. /\ Tokens' \in [Vocab -> SUBSET ComicIds]
          /\ tmp' \in [Rebuilders -> [Vocab -> SUBSET ComicIds]]
      BY <1>7, EmptyIndexType DEF Restart
    <2>4. /\ at' \in [Searchers -> Nat \ {0}]
          /\ counts' \in [Searchers -> [ComicIds -> Nat]]
      BY <1>7, NoPointsType DEF Restart
    <2> QED
      BY <1>7, <2>1, <2>2, <2>3, <2>4 DEF StateOK, Restart
  <1>8. CASE UNCHANGED vars
    BY <1>8 DEF StateOK, vars
  <1> QED
    BY <1>1, <1>2, <1>3, <1>4, <1>5, <1>6, <1>7, <1>8 DEF Next, Exit, Crash
-----------------------------------------------------------------------------
(***************************************************************************)
(* The lock and the counts                                                 *)
(***************************************************************************)
\* A client that searches is no rebuilder: their steps do not touch each other's pc.
LEMMA Apart == \A c \in Searchers : c \notin Rebuilders
  BY ProcessesAssumption

\* Nothing has been counted at the start of a query.
LEMMA CountedNone ==
  ASSUME NEW T, NEW q, NEW id
  PROVE  Cardinality({i \in 1..(1 - 1) : id \in T[q[i]]}) = 0
  <1>1. {i \in 1..(1 - 1) : id \in T[q[i]]} = {}
    OBVIOUS
  <1> QED BY <1>1, FS_EmptySet

\* The inductive invariant holds at the start.
LEMMA IInvInit == Init => IInv
  <1> SUFFICES ASSUME Init PROVE IInv
    OBVIOUS
  <1>1. LockSound
    BY StartedType, ProcessesAssumption DEF Init, LockSound
  <1>2. NothingCounted
    BY DEF Init, NothingCounted
  <1>3. WithinQuery
    BY DEF Init, WithinQuery
  <1>4. CountsOneIndex
    BY DEF Init, CountsOneIndex
  <1> QED BY <1>1, <1>2, <1>3, <1>4 DEF IInv

\* A step of a rebuilder that has nothing to do with the lock.
LEMMA RebuilderMoves ==
  ASSUME StateOK, IInv, NEW r \in Rebuilders, NEW to,
         pc' = [pc EXCEPT ![r] = to], pc[r] # "drain", to # "drain",
         UNCHANGED <<Tokens, writer, readers, queued, asked, at, counts>>
  PROVE  IInv'
  <1>1. \A c \in Searchers : pc'[c] = pc[c]
    BY Apart DEF StateOK
  <1>2. \A s \in Rebuilders : pc'[s] = "drain" <=> pc[s] = "drain"
    BY DEF StateOK
  <1>3. LockSound'
    BY <1>1, <1>2 DEF IInv, LockSound
  <1>4. NothingCounted' /\ WithinQuery' /\ CountsOneIndex'
    BY <1>1 DEF IInv, NothingCounted, WithinQuery, CountsOneIndex
  <1> QED BY <1>3, <1>4 DEF IInv

\* A step of a search outside the read lock.
LEMMA SearcherMoves ==
  ASSUME StateOK, IInv, NEW c \in Searchers, NEW to,
         pc' = [pc EXCEPT ![c] = to], pc[c] # "count", to # "count",
         UNCHANGED <<Tokens, writer, readers, queued>>,
         \A s \in Searchers \ {c} : asked'[s] = asked[s] /\ at'[s] = at[s] /\ counts'[s] = counts[s],
         to # "fetch" => at'[c] = 1 /\ counts'[c] = NoPoints,
         at'[c] <= Len(asked'[c].query) + 1
  PROVE  IInv'
  <1>1. \A s \in Searchers : pc'[s] = "count" <=> pc[s] = "count"
    BY DEF StateOK
  <1>2. \A r \in Rebuilders : pc'[r] = pc[r]
    BY Apart DEF StateOK
  <1>3. c \notin readers /\ c \notin queued
    BY DEF IInv, LockSound
  <1>4. LockSound'
    BY <1>1, <1>2 DEF IInv, LockSound
  <1>5. NothingCounted'
    BY <1>3 DEF StateOK, IInv, NothingCounted
  <1>6. WithinQuery'
    BY DEF IInv, WithinQuery
  <1>7. CountsOneIndex'
    <2> SUFFICES ASSUME NEW s \in readers, NEW id \in ComicIds
                 PROVE  counts'[s][id] =
                          Cardinality({i \in 1..(at'[s] - 1) : id \in Tokens[asked'[s].query[i]]})
      BY DEF CountsOneIndex
    <2>1. s \in Searchers \ {c}
      BY <1>3 DEF StateOK
    <2>2. counts[s][id] = Cardinality({i \in 1..(at[s] - 1) : id \in Tokens[asked[s].query[i]]})
      BY DEF IInv, CountsOneIndex
    <2> QED BY <2>1, <2>2
  <1> QED BY <1>4, <1>5, <1>6, <1>7 DEF IInv

\* A search that returns from outside the read lock.
LEMMA SearcherReturns ==
  ASSUME StateOK, IInv, NEW c \in Searchers, NEW from, NEW what,
         Return(c, from, what), from # "count",
         UNCHANGED <<Tokens, writer, readers, queued>>
  PROVE  IInv'
  <1>1. pc' = [pc EXCEPT ![c] = "idle"] /\ pc[c] # "count"
    BY DEF Return, Goto
  <1>2. /\ at'[c] = 1 /\ counts'[c] = NoPoints /\ asked' = asked
        /\ \A s \in Searchers \ {c} : at'[s] = at[s] /\ counts'[s] = counts[s]
    BY DEF StateOK, Return
  <1>3. at'[c] <= Len(asked'[c].query) + 1
    <2>1. Len(asked[c].query) \in Nat
      BY DEF StateOK
    <2> QED BY <1>2, <2>1
  <1>4. \A s \in Searchers \ {c} : asked'[s] = asked[s] /\ at'[s] = at[s] /\ counts'[s] = counts[s]
    BY <1>2
  <1> QED
    BY <1>1, <1>2, <1>3, <1>4, SearcherMoves

\* The index is replaced: the readers have left, and those let in by Unlock have
\* counted nothing in the old one.
LEMMA InstallKeeps ==
  ASSUME StateOK, IInv, NEW r \in Rebuilders, Install(r)
  PROVE  IInv'
  <1>1. \A c \in Searchers : pc'[c] = pc[c]
    BY Apart DEF StateOK, Install, Goto
  <1>2. /\ writer' = NoOne /\ readers' = queued /\ queued' = {} /\ readers = {}
        /\ UNCHANGED <<asked, at, counts>>
    BY DEF Install
  <1>3. LockSound'
    <2>1. \A s \in Rebuilders : pc'[s] # "drain"
      BY DEF StateOK, IInv, LockSound, Install, Goto, Resting
    <2> QED
      BY <1>1, <1>2, <2>1, ProcessesAssumption DEF IInv, LockSound
  <1>4. NothingCounted' /\ WithinQuery'
    BY <1>1, <1>2 DEF IInv, NothingCounted, WithinQuery
  <1>5. CountsOneIndex'
    <2> SUFFICES ASSUME NEW c \in queued, NEW id \in ComicIds
                 PROVE  counts[c][id] = Cardinality({i \in 1..(at[c] - 1) : id \in Tokens'[asked[c].query[i]]})
      BY <1>2 DEF CountsOneIndex
    <2>1. at[c] = 1 /\ counts[c] = NoPoints
      BY DEF StateOK, IInv, NothingCounted
    <2> QED
      BY <2>1, CountedNone DEF NoPoints
  <1> QED BY <1>3, <1>4, <1>5 DEF IInv

\* A search enters, or waits for the writer, with nothing counted.
LEMMA RLockKeeps ==
  ASSUME StateOK, IInv, NEW c \in Searchers, RLock(c)
  PROVE  IInv'
  <1>1. /\ pc[c] = "rlock" /\ pc'[c] = "count"
        /\ \A p \in (Rebuilders \cup Searchers) \ {c} : pc'[p] = pc[p]
        /\ UNCHANGED <<Tokens, writer, asked, at, counts>>
    BY DEF StateOK, RLock, Goto
  <1>2. c \notin readers /\ c \notin queued /\ at[c] = 1 /\ counts[c] = NoPoints
    BY <1>1 DEF IInv, LockSound, NothingCounted
  <1>3. \/ writer = NoOne /\ readers' = readers \cup {c} /\ queued' = queued
        \/ writer # NoOne /\ queued' = queued \cup {c} /\ readers' = readers
    BY DEF RLock
  <1>4. LockSound'
    <2>1. \A r \in Rebuilders : pc'[r] = pc[r]
      BY <1>1, Apart
    <2>2. readers' \cup queued' = readers \cup queued \cup {c}
      BY <1>3
    <2>3. {s \in Searchers : pc'[s] = "count"} = {s \in Searchers : pc[s] = "count"} \cup {c}
      BY <1>1
    <2> QED
      BY <1>1, <1>2, <1>3, <2>1, <2>2, <2>3 DEF IInv, LockSound
  <1>5. NothingCounted' /\ WithinQuery'
    BY <1>1, <1>2, <1>3 DEF IInv, NothingCounted, WithinQuery
  <1>6. CountsOneIndex'
    <2> SUFFICES ASSUME NEW s \in readers', NEW id \in ComicIds
                 PROVE  counts[s][id] = Cardinality({i \in 1..(at[s] - 1) : id \in Tokens[asked[s].query[i]]})
      BY <1>1 DEF CountsOneIndex
    <2>1. CASE s = c
      BY <1>2, <2>1, CountedNone DEF NoPoints
    <2>2. CASE s # c
      BY <1>3, <2>2 DEF IInv, CountsOneIndex
    <2> QED BY <2>1, <2>2
  <1> QED BY <1>4, <1>5, <1>6 DEF IInv

\* One more word is counted in the same index.
LEMMA CountWordKeeps ==
  ASSUME StateOK, IInv, NEW c \in Searchers, CountWord(c)
  PROVE  IInv'
  <1>1. /\ c \in readers
        /\ UNCHANGED <<Tokens, writer, readers, queued, pc, asked>>
        /\ at[c] \in Nat \ {0} /\ at[c] <= Len(asked[c].query) /\ at'[c] = at[c] + 1
        /\ \A s \in Searchers \ {c} : at'[s] = at[s] /\ counts'[s] = counts[s]
        /\ \A id \in ComicIds : counts'[c][id] =
             counts[c][id] + IF id \in Tokens[asked[c].query[at[c]]] THEN 1 ELSE 0
    BY DEF StateOK, CountWord
  <1>2. LockSound'
    BY <1>1 DEF IInv, LockSound
  <1>3. c \notin queued /\ pc[c] = "count"
    BY <1>1 DEF IInv, LockSound
  <1>4. NothingCounted'
    BY <1>1, <1>3 DEF IInv, NothingCounted
  <1>5. WithinQuery'
    <2>1. Len(asked[c].query) \in Nat
      BY DEF StateOK
    <2> QED BY <1>1, <2>1 DEF IInv, WithinQuery
  <1>6. CountsOneIndex'
    <2> SUFFICES ASSUME NEW s \in readers, NEW id \in ComicIds
                 PROVE  counts'[s][id] =
                          Cardinality({i \in 1..(at'[s] - 1) : id \in Tokens[asked[s].query[i]]})
      BY <1>1 DEF CountsOneIndex
    <2>0. s \in Searchers
      BY DEF StateOK
    <2>1. CASE s # c
      BY <1>1, <2>0, <2>1 DEF IInv, CountsOneIndex
    <2>2. CASE s = c
      <3> DEFINE n == at[c] - 1
                 S == {i \in Nat : id \in Tokens[asked[c].query[i]]}
      <3>1. n \in Nat /\ n + 1 = at[c] /\ at'[c] - 1 = n + 1
        BY <1>1
      <3>2. {i \in 1..n : id \in Tokens[asked[c].query[i]]} = {i \in 1..n : i \in S}
        BY <3>1
      <3>3. {i \in 1..(n + 1) : id \in Tokens[asked[c].query[i]]} = {i \in 1..(n + 1) : i \in S}
        BY <3>1
      <3>4. counts[c][id] = Cardinality({i \in 1..n : i \in S})
        BY <1>1, <3>2 DEF IInv, CountsOneIndex
      <3>5. Cardinality({i \in 1..(n + 1) : i \in S}) =
              Cardinality({i \in 1..n : i \in S}) + (IF n + 1 \in S THEN 1 ELSE 0)
        BY <3>1, OneMore
      <3>6. n + 1 \in S <=> id \in Tokens[asked[c].query[at[c]]]
        BY <3>1
      <3> HIDE DEF S, n
      <3> QED
        BY <1>1, <2>2, <3>1, <3>3, <3>4, <3>5, <3>6
    <2> QED BY <2>1, <2>2
  <1> QED BY <1>2, <1>4, <1>5, <1>6 DEF IInv

\* A search leaves the lock; the counts of the others are not touched.
LEMMA RUnlockKeeps ==
  ASSUME StateOK, IInv, NEW c \in Searchers, RUnlock(c)
  PROVE  IInv'
  <1>1. /\ c \in readers /\ readers' = readers \ {c}
        /\ UNCHANGED <<Tokens, writer, queued, asked>>
        /\ pc[c] = "count" /\ pc'[c] \in {"idle", "fetch"}
        /\ \A p \in (Rebuilders \cup Searchers) \ {c} : pc'[p] = pc[p]
        /\ \A s \in Searchers \ {c} : at'[s] = at[s] /\ counts'[s] = counts[s]
        /\ pc'[c] = "idle" => at'[c] = 1 /\ counts'[c] = NoPoints
        /\ pc'[c] = "fetch" => at'[c] = at[c]
    BY DEF StateOK, RUnlock, Return, Goto
  <1>2. c \notin queued
    BY <1>1 DEF IInv, LockSound
  <1>3. LockSound'
    <2>1. \A r \in Rebuilders : pc'[r] = pc[r]
      BY <1>1, Apart
    <2>2. {s \in Searchers : pc'[s] = "count"} = {s \in Searchers : pc[s] = "count"} \ {c}
      BY <1>1
    <2> QED
      BY <1>1, <1>2, <2>1, <2>2 DEF IInv, LockSound
  <1>4. NothingCounted'
    BY <1>1, <1>2 DEF IInv, NothingCounted
  <1>5. WithinQuery'
    <2>1. Len(asked[c].query) \in Nat
      BY DEF StateOK
    <2> QED BY <1>1, <2>1 DEF IInv, WithinQuery
  <1>6. CountsOneIndex'
    <2> SUFFICES ASSUME NEW s \in readers \ {c}, NEW id \in ComicIds
                 PROVE  counts'[s][id] =
                          Cardinality({i \in 1..(at'[s] - 1) : id \in Tokens[asked[s].query[i]]})
      BY <1>1 DEF CountsOneIndex
    <2>1. s \in Searchers \ {c}
      BY DEF StateOK
    <2>2. counts[s][id] = Cardinality({i \in 1..(at[s] - 1) : id \in Tokens[asked[s].query[i]]})
      BY DEF IInv, CountsOneIndex
    <2> QED BY <1>1, <2>1, <2>2
  <1> QED BY <1>3, <1>4, <1>5, <1>6 DEF IInv

\* A client asks: the query is new, and nothing of it has been counted.
LEMMA AskKeeps ==
  ASSUME StateOK, IInv, NEW c \in Searchers, Ask(c)
  PROVE  IInv'
  <1>1. /\ pc' = [pc EXCEPT ![c] = "norm"] /\ pc[c] # "count"
        /\ UNCHANGED <<Tokens, writer, readers, queued, at, counts>>
    BY DEF Ask, Goto
  <1>2. at'[c] = 1 /\ counts'[c] = NoPoints
    BY DEF IInv, NothingCounted, Ask, Goto
  <1>3. PICK via \in {"search", "isearch"}, query \in Queries, limit \in Limits :
          asked' = [asked EXCEPT ![c] = [via |-> via, query |-> query, limit |-> limit]]
    BY DEF Ask
  <1>4. asked'[c].query = query /\ \A s \in Searchers \ {c} : asked'[s] = asked[s]
    BY <1>3 DEF StateOK
  <1>5. at'[c] <= Len(asked'[c].query) + 1
    <2>1. Len(query) \in Nat
      BY DataAssumption
    <2> QED BY <1>2, <1>4, <2>1
  <1>6. \A s \in Searchers \ {c} : asked'[s] = asked[s] /\ at'[s] = at[s] /\ counts'[s] = counts[s]
    BY <1>1, <1>4
  <1> QED
    BY <1>1, <1>2, <1>5, <1>6, SearcherMoves

\* A search goes on, outside the read lock, to a step that leaves what it has
\* counted alone.
LEMMA SearcherGoesOn ==
  ASSUME StateOK, IInv, NEW c \in Searchers, NEW from, NEW to,
         Goto(c, from, to), from \notin {"count", "fetch"}, to # "count",
         UNCHANGED <<Tokens, writer, readers, queued, asked, at, counts>>
  PROVE  IInv'
  <1>1. pc' = [pc EXCEPT ![c] = to] /\ pc[c] \notin {"count", "fetch"}
    BY DEF Goto
  <1>2. at'[c] = 1 /\ counts'[c] = NoPoints
    BY <1>1 DEF IInv, NothingCounted
  <1>3. at'[c] <= Len(asked'[c].query) + 1
    BY DEF IInv, WithinQuery
  <1>4. \A s \in Searchers \ {c} : asked'[s] = asked[s] /\ at'[s] = at[s] /\ counts'[s] = counts[s]
    OBVIOUS
  <1> QED
    BY <1>1, <1>2, <1>3, <1>4, SearcherMoves

\* Every step of a search preserves the inductive invariant.
LEMMA SearchStepKeeps ==
  ASSUME StateOK, IInv, NEW c \in Searchers, SearchStep(c)
  PROVE  IInv'
  <1>1. CASE Norm(c)
    BY <1>1, SearcherGoesOn, SearcherReturns DEF Norm
  <1>2. CASE RLock(c)
    BY <1>2, RLockKeeps
  <1>3. CASE CountWord(c)
    BY <1>3, CountWordKeeps
  <1>4. CASE RUnlock(c)
    BY <1>4, RUnlockKeeps
  <1>5. CASE FetchComics(c)
    BY <1>5, SearcherReturns DEF FetchComics
  <1>6. CASE CountRows(c)
    BY <1>6, SearcherGoesOn, SearcherReturns DEF CountRows
  <1>7. CASE SelectRows(c)
    BY <1>7, SearcherReturns DEF SelectRows
  <1> QED
    BY <1>1, <1>2, <1>3, <1>4, <1>5, <1>6, <1>7 DEF SearchStep

\* A writer enters: it keeps new readers out, and disturbs none.
LEMMA LockKeeps ==
  ASSUME StateOK, IInv, NEW r \in Rebuilders, Lock(r)
  PROVE  IInv'
  <1>1. /\ writer = NoOne /\ writer' = r /\ pc'[r] = "drain"
        /\ \A p \in (Rebuilders \cup Searchers) \ {r} : pc'[p] = pc[p]
        /\ UNCHANGED <<Tokens, readers, queued, asked, at, counts>>
    BY DEF StateOK, Lock, Goto
  <1>2. \A c \in Searchers : pc'[c] = pc[c]
    BY <1>1, Apart
  <1>3. LockSound'
    BY <1>1, <1>2, ProcessesAssumption DEF IInv, LockSound
  <1>4. NothingCounted' /\ WithinQuery' /\ CountsOneIndex'
    BY <1>1, <1>2 DEF IInv, NothingCounted, WithinQuery, CountsOneIndex
  <1> QED BY <1>3, <1>4 DEF IInv

\* A new process has no readers and no writer.
LEMMA RestartKeeps ==
  ASSUME StateOK, IInv, Restart
  PROVE  IInv'
  <1>1. LockSound'
    BY StartedType, ProcessesAssumption DEF Restart, LockSound
  <1>2. NothingCounted'
    BY DEF Restart, NothingCounted
  <1>3. WithinQuery'
    <2>1. \A c \in Searchers : Len(asked[c].query) \in Nat
      BY DEF StateOK
    <2> QED BY <2>1 DEF Restart, WithinQuery
  <1>4. CountsOneIndex'
    BY DEF Restart, CountsOneIndex
  <1> QED BY <1>1, <1>2, <1>3, <1>4 DEF IInv

\* A step that touches neither the lock, nor the index, nor a search.
LEMMA OthersKeep ==
  ASSUME IInv, UNCHANGED <<Tokens, writer, readers, queued, pc, asked, at, counts>>
  PROVE  IInv'
  BY DEF IInv, LockSound, NothingCounted, WithinQuery, CountsOneIndex

\* Every step preserves the inductive invariant.
LEMMA IInvNext == StateOK /\ IInv /\ [Next]_vars => IInv'
  <1> SUFFICES ASSUME StateOK, IInv, [Next]_vars PROVE IInv'
    OBVIOUS
  <1>1. ASSUME NEW r \in Rebuilders, RebuildStep(r) PROVE IInv'
    <2>1. CASE LoadOK(r)
      BY <2>1, RebuilderMoves DEF LoadOK, Goto
    <2>2. CASE LoadErr(r)
      BY <2>2, RebuilderMoves DEF LoadErr, Goto, Resting
    <2>3. CASE Lock(r)
      BY <2>3, LockKeeps
    <2>4. CASE Install(r)
      BY <2>4, InstallKeeps
    <2> QED BY <1>1, <2>1, <2>2, <2>3, <2>4 DEF RebuildStep
  <1>2. ASSUME NEW r \in Rebuilders, CallRebuild(r) PROVE IInv'
    BY <1>2, RebuilderMoves DEF CallRebuild, Goto
  <1>3. CASE TakeTick
    <2>1. initiator \in Rebuilders
      BY DEF Rebuilders, Loops
    <2> QED BY <1>3, <2>1, RebuilderMoves DEF TakeTick, Goto
  <1>4. CASE TakeMessage
    <2>1. subscriber \in Rebuilders
      BY DEF Rebuilders, Loops
    <2> QED BY <1>4, <2>1, RebuilderMoves DEF TakeMessage, Goto
  <1>5. ASSUME NEW c \in Searchers, Ask(c) PROVE IInv'
    BY <1>5, AskKeeps
  <1>6. ASSUME NEW c \in Searchers, SearchStep(c) PROVE IInv'
    BY <1>6, SearchStepKeeps
  <1>7. CASE Tick \/ Deliver \/ InsertRow \/ TruncateTable \/ Interrupt
    BY <1>7, OthersKeep DEF Tick, Deliver, InsertRow, TruncateTable, Interrupt
  <1>8. CASE Restart
    BY <1>8, RestartKeeps
  <1>9. CASE UNCHANGED vars
    BY <1>9, OthersKeep DEF vars
  <1> QED
    BY <1>1, <1>2, <1>3, <1>4, <1>5, <1>6, <1>7, <1>8, <1>9 DEF Next, Exit, Crash

-----------------------------------------------------------------------------
(***************************************************************************)
(* The theorems                                                            *)
(***************************************************************************)
\* Every variable but the answers keeps its type.
THEOREM StateTyped == Spec => []StateOK
  BY StateInit, StateNext, PTL DEF Spec

\* The read-write lock of Index is sound at all times: the goroutine it takes
\* for the writer is in its critical section and no other is, the searches it
\* takes for readers are between RLock and RUnlock, and nobody waits for a
\* lock that is free.
THEOREM LockDiscipline == Spec => []IInv
  BY IInvInit, IInvNext, StateTyped, PTL DEF Spec

\* What a search has counted so far, it has counted in the index that is in
\* use: no Rebuild comes between two words of one search.
THEOREM SearchSeesOneIndex == Spec => []CountsOneIndex
  <1>1. IInv => CountsOneIndex
    BY DEF IInv
  <1> QED
    BY <1>1, LockDiscipline, PTL

-----------------------------------------------------------------------------
(***************************************************************************)
(* The answers                                                             *)
(***************************************************************************)
\* Nothing of a search has moved.
SearchesRest ==
  /\ \A c \in Searchers : pc'[c] = pc[c]
  /\ UNCHANGED searchVars

\* The steps of whoever rebuilds, and of the surroundings, leave searches alone.
LEMMA RebuildersApart ==
  ASSUME StateOK,
         \/ \E r \in Rebuilders : RebuildStep(r) \/ CallRebuild(r)
         \/ Tick \/ TakeTick \/ Deliver \/ TakeMessage
         \/ InsertRow \/ TruncateTable \/ Interrupt
  PROVE  SearchesRest
  <1> USE DEF SearchesRest, StateOK, Goto
  <1>1. ASSUME NEW r \in Rebuilders, RebuildStep(r) \/ CallRebuild(r) PROVE SearchesRest
    BY <1>1, Apart DEF RebuildStep, LoadOK, LoadErr, Lock, Install, CallRebuild
  <1>2. initiator \in Rebuilders /\ subscriber \in Rebuilders
    BY DEF Rebuilders, Loops
  <1>3. CASE TakeTick \/ TakeMessage
    BY <1>2, <1>3, Apart DEF TakeTick, TakeMessage
  <1>4. CASE Tick \/ Deliver \/ InsertRow \/ TruncateTable \/ Interrupt
    BY <1>4 DEF Tick, Deliver, InsertRow, TruncateTable, Interrupt
  <1> QED BY <1>1, <1>3, <1>4

AnswerTyped == answer \in [Searchers -> [err : BOOLEAN, comics : Seq(ComicIds), total : Nat]]

\* Comics are looked up only for a limit that leaves some.
FetchWanted == \A c \in Searchers : pc[c] = "fetch" => asked[c].limit > 0

AnswerInv == AnswerTyped /\ PagesFit /\ FetchWanted

\* An answer that may be given to a search with this limit.
Fits(what, limit) ==
  /\ what \in [err : BOOLEAN, comics : Seq(ComicIds), total : Nat]
  /\ IsInjective(what.comics)
  /\ Len(what.comics) <= what.total
  /\ what.comics # <<>> => Len(what.comics) <= limit

\* A page without comics fits any limit.
LEMMA EmptyFits ==
  ASSUME NEW limit, NEW total \in Nat
  PROVE  Fits(Found(<<>>, total), limit) /\ Fits(Failed, limit)
  <1>1. <<>> \in Seq(ComicIds) /\ Len(<<>>) = 0 /\ DOMAIN <<>> = {}
    BY EmptySeq, LenProperties
  <1> QED BY <1>1 DEF Fits, Found, Failed, IsInjective

\* A sequence names no more things than it is long.
LEMMA NamesBound ==
  ASSUME NEW T, NEW s \in Seq(T)
  PROVE  IsFiniteSet(ToSet(s)) /\ Cardinality(ToSet(s)) <= Len(s)
  <1>1. DOMAIN s = 1..Len(s) /\ Len(s) \in Nat
    BY LenProperties
  <1>2. s \in [1..Len(s) -> ToSet(s)] /\ \A t \in ToSet(s) : \E i \in 1..Len(s) : s[i] = t
    BY <1>1, LenProperties DEF ToSet
  <1>3. s \in Surjection(1..Len(s), ToSet(s))
    BY <1>2, Fun_IsSurj
  <1>4. IsFiniteSet(1..Len(s)) /\ Cardinality(1..Len(s)) = Len(s)
    BY <1>1, FS_Interval
  <1> QED BY <1>3, <1>4, FS_Surjection

\* The points of a search can be ranked.
LEMMA CountsAreScore ==
  ASSUME NEW points \in [ComicIds -> Nat]
  PROVE  /\ IsScore(points)
         /\ WithPoints(points) = {id \in ComicIds : points[id] > 0}
  BY DataAssumption DEF IsScore, WithPoints

LEMMA TotalType ==
  ASSUME StateOK, NEW c \in Searchers
  PROVE  /\ Total(c) = Cardinality(WithPoints(counts[c]))
         /\ Total(c) \in Nat
  <1>1. counts[c] \in [ComicIds -> Nat]
    BY DEF StateOK
  <1> QED BY <1>1, CountsAreScore, WithPointsFinite DEF Total

\* What DB.GetComicsByIDs returns for the ids of Index.Search fits.
LEMMA FetchedFits ==
  ASSUME StateOK, NEW c \in Searchers, asked[c].limit > 0,
         NEW comics \in SetToSeqs(BestIds(c) \cap db)
  PROVE  Fits(Found(comics, Total(c)), asked[c].limit)
  <1> DEFINE given == AtMost(asked[c].limit, RankSeq(counts[c]))
             X == BestIds(c) \cap db
  <1>1. counts[c] \in [ComicIds -> Nat] /\ asked[c].limit \in Nat
    BY DEF StateOK
  <1>2. /\ given \in Seq(WithPoints(counts[c]))
        /\ Len(given) <= asked[c].limit
    BY <1>1, CountsAreScore, GivenBest
  <1>3. /\ IsFiniteSet(BestIds(c))
        /\ Cardinality(BestIds(c)) <= Len(given)
    BY <1>2, NamesBound DEF BestIds
  <1>4. BestIds(c) \subseteq WithPoints(counts[c])
    BY <1>2, LenProperties, ElementOfSeq DEF BestIds, ToSet
  <1>5. /\ IsFiniteSet(X) /\ Cardinality(X) \in Nat
        /\ Cardinality(X) <= Cardinality(BestIds(c))
        /\ Cardinality(BestIds(c)) \in Nat
    BY <1>3, FS_Subset, FS_CardinalityType
  <1>6. Cardinality(X) <= Total(c)
    <2>1. IsFiniteSet(WithPoints(counts[c])) /\ Total(c) = Cardinality(WithPoints(counts[c]))
      BY <1>1, CountsAreScore, WithPointsFinite, TotalType
    <2>2. X \in SUBSET WithPoints(counts[c])
      BY <1>4
    <2> QED BY <2>1, <2>2, FS_Subset
  <1>7. /\ comics \in [1..Cardinality(X) -> X]
        /\ \A i, j \in 1..Cardinality(X) : i # j => comics[i] # comics[j]
    BY DEF SetToSeqs
  <1> HIDE DEF X, given
  <1>8. comics \in Seq(X) /\ Len(comics) = Cardinality(X)
    BY <1>5, <1>7, SeqDef, LenProperties
  <1>9. IsInjective(comics)
    BY <1>7 DEF IsInjective
  <1>10. X \subseteq ComicIds
    BY DEF X, StateOK
  <1>11. comics \in Seq(ComicIds)
    BY <1>8, <1>10, SeqMonotonic
  <1>12. Len(given) \in Nat /\ Total(c) \in Nat
    BY <1>2, LenProperties, TotalType
  <1>13. Len(comics) <= Total(c) /\ Len(comics) <= asked[c].limit
    BY <1>1, <1>2, <1>3, <1>5, <1>6, <1>8, <1>12
  <1> QED BY <1>9, <1>11, <1>12, <1>13 DEF Fits, Found

\* The ids DB.IDs selects fit.
LEMMA SelectedFits ==
  ASSUME StateOK, NEW c \in Searchers, asked[c].limit >= 0, NEW comics,
         comics = SelectIds(Rows(db), asked[c].query, asked[c].limit)
  PROVE  Fits(Found(comics, Len(comics)), asked[c].limit)
  <1> DEFINE score == [id \in db |-> Matches(Rows(db), asked[c].query, id)]
  <1>1. asked[c].limit \in Nat /\ db \in SUBSET ComicIds
    BY DEF StateOK
  <1>2. \A id \in db : Matches(Rows(db), asked[c].query, id) \in Nat
    <2> SUFFICES ASSUME NEW id \in db PROVE Matches(Rows(db), asked[c].query, id) \in Nat
      OBVIOUS
    <2> DEFINE words == Rows(db)[id]
               P == {i \in DOMAIN words : words[i] \in ToSet(asked[c].query)}
    <2>1. words \in Seq(Vocab)
      BY <1>1, DataAssumption DEF Rows
    <2>2. DOMAIN words = 1..Len(words) /\ Len(words) \in Nat
      BY <2>1, LenProperties
    <2>3. IsFiniteSet(1..Len(words)) /\ P \in SUBSET (1..Len(words))
      BY <2>2, FS_Interval
    <2>4. IsFiniteSet(P)
      BY <2>3, FS_Subset
    <2> QED BY <2>4, FS_CardinalityType DEF Matches
  <1>3. IsScore(score)
    <2>1. IsFiniteSet(db)
      BY <1>1, DataAssumption, FS_Subset
    <2>2. db \subseteq Int
      BY <1>1, DataAssumption
    <2> QED BY <1>2, <2>1, <2>2 DEF IsScore
  <1>4. comics = AtMost(asked[c].limit, RankSeq(score))
    BY DEF SelectIds, Rows
  <1>5. WithPoints(score) \subseteq ComicIds
    BY <1>1 DEF WithPoints
  <1> HIDE DEF score
  <1>6. /\ comics \in Seq(WithPoints(score))
        /\ Len(comics) <= asked[c].limit
        /\ \A i, j \in 1..Len(comics) : i < j => Outranks(score, comics[i], comics[j])
    BY <1>1, <1>3, <1>4, GivenBest
  <1>7. comics \in Seq(ComicIds)
    BY <1>5, <1>6, SeqMonotonic
  <1>8. Len(comics) \in Nat /\ DOMAIN comics = 1..Len(comics)
    BY <1>6, LenProperties
  <1>9. \A i, j \in 1..Len(comics) : i < j => comics[i] # comics[j]
    <2>1. \A i \in 1..Len(comics) : comics[i] \in WithPoints(score)
      BY <1>6, ElementOfSeq
    <2>2. \A id \in WithPoints(score) : ~Outranks(score, id, id)
      BY <1>3 DEF Outranks, IsScore, WithPoints
    <2> QED BY <1>6, <2>1, <2>2
  <1>10. IsInjective(comics)
    BY <1>8, <1>9 DEF IsInjective
  <1> QED BY <1>6, <1>7, <1>8, <1>10 DEF Fits, Found

\* A return with an answer that fits.
LEMMA ReturnFits ==
  ASSUME StateOK, AnswerInv, NEW c \in Searchers, NEW from, NEW what,
         Return(c, from, what), Fits(what, asked[c].limit)
  PROVE  AnswerInv'
  <1>1. /\ asked' = asked
        /\ answer' = [answer EXCEPT ![c] = what]
        /\ pc' = [pc EXCEPT ![c] = "idle"]
    BY DEF Return, Goto
  <1>2. AnswerTyped'
    BY <1>1 DEF AnswerInv, AnswerTyped, Fits
  <1>3. \A s \in Searchers : answer'[s] = IF s = c THEN what ELSE answer[s]
    BY <1>1 DEF AnswerInv, AnswerTyped
  <1>4. PagesFit'
    BY <1>1, <1>3 DEF AnswerInv, PagesFit, Fits
  <1>5. FetchWanted'
    BY <1>1 DEF AnswerInv, FetchWanted, StateOK
  <1> QED BY <1>2, <1>4, <1>5 DEF AnswerInv

\* A search goes on, with its question.
LEMMA GoOnFits ==
  ASSUME StateOK, AnswerInv, UNCHANGED <<asked, answer>>, NEW c \in Searchers,
         \A s \in Searchers \ {c} : pc'[s] = pc[s],
         pc'[c] = "fetch" => pc[c] = "fetch" \/ asked[c].limit > 0
  PROVE  AnswerInv'
  BY DEF AnswerInv, AnswerTyped, PagesFit, FetchWanted

LEMMA AnswerInvNext == StateOK /\ AnswerInv /\ [Next]_vars => AnswerInv'
  <1> SUFFICES ASSUME StateOK, AnswerInv, [Next]_vars PROVE AnswerInv'
    OBVIOUS
  <1>1. CASE SearchesRest
    BY <1>1 DEF SearchesRest, searchVars, AnswerInv, AnswerTyped, PagesFit, FetchWanted
  <1>2. ASSUME NEW c \in Searchers, Ask(c) PROVE AnswerInv'
    <2>1. /\ answer' = [answer EXCEPT ![c] = Failed]
          /\ pc' = [pc EXCEPT ![c] = "norm"]
          /\ \A s \in Searchers \ {c} : asked'[s] = asked[s]
      BY <1>2 DEF Ask, Goto, StateOK
    <2>2. Fits(Failed, asked'[c].limit)
      BY EmptyFits
    <2>3. AnswerTyped'
      BY <2>1, <2>2 DEF AnswerInv, AnswerTyped, Fits
    <2>4. \A s \in Searchers : answer'[s] = IF s = c THEN Failed ELSE answer[s]
      BY <2>1 DEF AnswerInv, AnswerTyped
    <2>5. PagesFit'
      BY <2>1, <2>2, <2>4 DEF AnswerInv, PagesFit, Fits
    <2>6. FetchWanted'
      BY <2>1 DEF AnswerInv, FetchWanted, StateOK
    <2> QED BY <2>3, <2>5, <2>6 DEF AnswerInv
  <1>3. ASSUME NEW c \in Searchers, SearchStep(c) PROVE AnswerInv'
    <2>0. ASSUME NEW from, Return(c, from, Failed) PROVE AnswerInv'
      BY <2>0, EmptyFits, ReturnFits
    <2>1. ASSUME NEW from, NEW to, Goto(c, from, to), to # "fetch" \/ asked[c].limit > 0,
                 UNCHANGED <<asked, answer>>
          PROVE  AnswerInv'
      BY <2>1, GoOnFits DEF Goto, StateOK
    <2>2. CASE Norm(c)
      <3>1. CASE Return(c, "norm", Found(<<>>, 0))
        BY <3>1, EmptyFits, ReturnFits
      <3>2. CASE \E to \in {"dbcount", "rlock"} : Goto(c, "norm", to) /\ UNCHANGED searchVars
        BY <3>2, <2>1 DEF searchVars
      <3> QED BY <2>0, <2>2, <3>1, <3>2 DEF Norm
    <2>3. CASE RLock(c)
      BY <2>1, <2>3 DEF RLock, searchVars
    <2>4. CASE CountWord(c)
      BY <2>4, GoOnFits DEF CountWord
    <2>5. CASE RUnlock(c)
      <3>1. CASE Return(c, "count", Found(<<>>, Total(c)))
        BY <3>1, EmptyFits, ReturnFits, TotalType
      <3>2. CASE asked[c].limit > 0 /\ Goto(c, "count", "fetch") /\ UNCHANGED searchVars
        BY <3>2, <2>1 DEF searchVars
      <3> QED BY <2>5, <3>1, <3>2 DEF RUnlock
    <2>6. CASE FetchComics(c)
      <3>1. ASSUME NEW comics \in SetToSeqs(BestIds(c) \cap db),
                   Return(c, "fetch", Found(comics, Total(c)))
            PROVE  AnswerInv'
        <4>1. asked[c].limit > 0
          BY <3>1 DEF Return, Goto, AnswerInv, FetchWanted
        <4> QED BY <3>1, <4>1, FetchedFits, ReturnFits
      <3> QED BY <2>0, <2>6, <3>1 DEF FetchComics
    <2>7. CASE CountRows(c)
      BY <2>0, <2>1, <2>7 DEF CountRows, searchVars
    <2>8. CASE SelectRows(c)
      <3> DEFINE comics == SelectIds(Rows(db), asked[c].query, asked[c].limit)
      <3>1. CASE asked[c].limit >= 0 /\ Return(c, "dbselect", Found(comics, Len(comics)))
        <4>1. Fits(Found(comics, Len(comics)), asked[c].limit)
          BY <3>1, SelectedFits
        <4> QED BY <3>1, <4>1, ReturnFits
      <3> QED BY <2>0, <2>8, <3>1 DEF SelectRows
    <2> QED BY <1>3, <2>2, <2>3, <2>4, <2>5, <2>6, <2>7, <2>8 DEF SearchStep
  <1>4. CASE Exit \/ Crash
    BY <1>4, StartedType DEF Exit, Crash, Restart, AnswerInv, AnswerTyped, PagesFit, FetchWanted
  <1>5. CASE UNCHANGED vars
    BY <1>5 DEF vars, SearchesRest, searchVars, AnswerInv, AnswerTyped, PagesFit, FetchWanted
  <1> QED BY <1>1, <1>2, <1>3, <1>4, <1>5, RebuildersApart DEF Next

LEMMA AnswerInvInit == Init => AnswerInv
  <1> SUFFICES ASSUME Init PROVE AnswerInv
    OBVIOUS
  <1>1. \A c \in Searchers : answer[c] = Failed /\ Fits(answer[c], asked[c].limit) /\ pc[c] = "idle"
    BY EmptyFits, StartedType DEF Init
  <1>2. AnswerTyped
    BY <1>1 DEF Init, AnswerTyped, Fits
  <1> QED BY <1>1, <1>2 DEF AnswerInv, PagesFit, FetchWanted, Fits

\* Every answer is well formed, and a search that looks comics up has found some
\* and may return some.
THEOREM AnswersSound == Spec => []AnswerInv
  BY AnswerInvInit, AnswerInvNext, StateTyped, PTL DEF Spec

\* Every variable keeps its type, the answers among them, and no search runs
\* past the end of its query.
THEOREM SearchTypeCorrect == Spec => []TypeOK
  <1>1. StateOK /\ IInv /\ AnswerInv => TypeOK
    BY DEF TypeOK, IInv, AnswerInv, AnswerTyped
  <1> QED BY <1>1, StateTyped, LockDiscipline, AnswersSound, PTL

\* A page never has a comic twice, nor more comics than the limit or the total
\* that is reported with it, although the total is taken from the index, the
\* comics from the table, and the table changes in between.
THEOREM PagesAlwaysFit == Spec => []PagesFit
  <1>1. AnswerInv => PagesFit
    BY DEF AnswerInv
  <1> QED BY <1>1, AnswersSound, PTL


-----------------------------------------------------------------------------
(***************************************************************************)
(* The promise                                                             *)
(***************************************************************************)
\* A search is on the way of the handler that serves it.
Routed ==
  \A c \in Searchers :
    /\ pc[c] \in {"rlock", "count", "fetch"} => asked[c].via = "isearch"
    /\ pc[c] \in {"dbcount", "dbselect"} => asked[c].via = "search"

PromiseInv == StateOK /\ IInv /\ Routed

\* The next stage of a search and of no other.
LEMMA OthersRest ==
  ASSUME StateOK, NEW c \in Searchers, Ask(c) \/ SearchStep(c)
  PROVE  /\ \A s \in Searchers \ {c} : pc'[s] = pc[s] /\ asked'[s] = asked[s] /\ counts'[s] = counts[s]
         /\ SearchStep(c) => asked' = asked
         /\ UNCHANGED <<db, Tokens, tmp>>
  BY DEF StateOK, Goto, Return, Ask, SearchStep, Norm, RLock, CountWord, RUnlock, FetchComics,
         CountRows, SelectRows, searchVars

LEMMA RoutedInit == Init => Routed
  BY StartedType DEF Init, Routed

LEMMA RoutedNext == StateOK /\ Routed /\ [Next]_vars => Routed'
  <1> SUFFICES ASSUME StateOK, Routed, [Next]_vars PROVE Routed'
    OBVIOUS
  <1>1. CASE SearchesRest
    BY <1>1 DEF Routed, SearchesRest, searchVars
  <1>2. ASSUME NEW c \in Searchers, Ask(c) PROVE Routed'
    <2>1. pc'[c] = "norm"
      BY <1>2 DEF Ask, Goto, StateOK
    <2> QED BY <1>2, <2>1, OthersRest DEF Routed
  <1>3. ASSUME NEW c \in Searchers, SearchStep(c) PROVE Routed'
    <2>1. asked' = asked
      BY <1>3, OthersRest
    <2>2. /\ pc'[c] \in {"rlock", "count", "fetch"} => asked[c].via = "isearch"
          /\ pc'[c] \in {"dbcount", "dbselect"} => asked[c].via = "search"
      BY <1>3 DEF Routed, StateOK, Goto, Return, SearchStep, Norm, RLock, CountWord, RUnlock,
                  FetchComics, CountRows, SelectRows
    <2> QED BY <1>3, <2>1, <2>2, OthersRest DEF Routed
  <1>4. CASE Exit \/ Crash
    BY <1>4, StartedType DEF Exit, Crash, Restart, Routed
  <1>5. CASE UNCHANGED vars
    BY <1>5 DEF vars, SearchesRest, Routed, searchVars
  <1> QED BY <1>1, <1>2, <1>3, <1>4, <1>5, RebuildersApart DEF Next

LEMMA PromiseInvariant == Spec => []PromiseInv
  <1>1. Init => PromiseInv
    BY StateInit, IInvInit, RoutedInit DEF PromiseInv
  <1>2. PromiseInv /\ [Next]_vars => PromiseInv'
    BY StateNext, IInvNext, RoutedNext DEF PromiseInv
  <1> QED BY <1>1, <1>2, PTL DEF Spec

-----------------------------------------------------------------------------
(***************************************************************************)
(* What a step shows of the searches                                       *)
(***************************************************************************)
LEMMA ViewRests ==
  ASSUME SearchesRest
  PROVE  UNCHANGED <<TheStage, TheScore, asked, answer>>
  BY DEF SearchesRest, TheStage, TheScore, StageOf, ScoreOf, searchVars

LEMMA ViewMoves ==
  ASSUME StateOK, NEW c \in Searchers, Ask(c) \/ SearchStep(c)
  PROVE  /\ TheStage' = [TheStage EXCEPT ![c] = StageOf(c)']
         /\ TheScore' = [TheScore EXCEPT ![c] = ScoreOf(c)']
  <1>1. \A s \in Searchers \ {c} : StageOf(s)' = StageOf(s) /\ ScoreOf(s)' = ScoreOf(s)
    BY OthersRest DEF StageOf, ScoreOf
  <1> QED BY <1>1 DEF TheStage, TheScore

\* A search goes on behind the scenes.
LEMMA Unseen ==
  ASSUME StateOK, NEW c \in Searchers, SearchStep(c), UNCHANGED <<StageOf(c), ScoreOf(c), answer>>
  PROVE  UNCHANGED Promise!vars
  <1>1. TheStage' = TheStage /\ TheScore' = TheScore
    BY ViewMoves DEF TheStage, TheScore
  <1> QED BY <1>1, OthersRest DEF Promise!vars

\* A search returns: the step is a reply.
LEMMA Replies ==
  ASSUME StateOK, NEW c \in Searchers, SearchStep(c), NEW from, NEW what, Return(c, from, what)
  PROVE  Promise!Reply(c, what) /\ pc[c] = from
  <1>1. StageOf(c)' = "idle" /\ ScoreOf(c)' = NoPoints /\ pc[c] = from
    BY DEF Return, Goto, StateOK, StageOf, ScoreOf
  <1>2. answer' = [answer EXCEPT ![c] = what]
    BY DEF Return
  <1> QED BY <1>1, <1>2, ViewMoves, OthersRest DEF Promise!Reply, NoPoints, Promise!NoPoints

LEMMA Failing ==
  ASSUME StateOK, NEW c \in Searchers, SearchStep(c), NEW from, from # "idle", Return(c, from, Failed)
  PROVE  Promise!Next
  <1>1. Promise!Reply(c, Promise!Failed) /\ TheStage[c] # "idle"
    BY Replies DEF Failed, Promise!Failed, TheStage, StageOf
  <1> QED BY <1>1 DEF Promise!Next, Promise!Fail

-----------------------------------------------------------------------------
(***************************************************************************)
(* Scoring                                                                 *)
(***************************************************************************)
\* At its last word a search has counted the points of the index in use.
LEMMA CountedAll ==
  ASSUME PromiseInv, NEW c \in Searchers, c \in readers, at[c] > Len(asked[c].query)
  PROVE  counts[c] = ThePoints(Tokens, asked[c].query)
  <1> DEFINE q == asked[c].query
  <1>1. q \in Seq(Vocab) /\ at[c] \in Nat /\ counts[c] \in [ComicIds -> Nat]
    BY DEF PromiseInv, StateOK
  <1>2. at[c] <= Len(q) + 1
    BY DEF PromiseInv, IInv, WithinQuery
  <1>3. at[c] - 1 = Len(q) /\ DOMAIN q = 1..Len(q)
    BY <1>1, <1>2
  <1>4. \A id \in ComicIds : counts[c][id] = Cardinality({i \in 1..(at[c] - 1) : id \in Tokens[q[i]]})
    BY DEF PromiseInv, IInv, CountsOneIndex
  <1>5. \A id \in ComicIds : counts[c][id] = Points(Tokens, q, id)
    BY <1>3, <1>4 DEF Points
  <1> QED BY <1>1, <1>5 DEF ThePoints

\* A phrase of no words finds nothing.
LEMMA NothingAsked ==
  ASSUME NEW index
  PROVE  TheHits(ThePoints(index, <<>>)) = 0
  <1>1. \A id \in ComicIds : Points(index, <<>>, id) = 0
    <2> SUFFICES ASSUME NEW id \in ComicIds PROVE Points(index, <<>>, id) = 0
      OBVIOUS
    <2>1. {i \in DOMAIN <<>> : id \in index[<<>>[i]]} = {}
      OBVIOUS
    <2> QED BY <2>1, FS_EmptySet DEF Points
  <1>2. {id \in ComicIds : ThePoints(index, <<>>)[id] > 0} = {}
    BY <1>1 DEF ThePoints
  <1> QED BY <1>2, FS_EmptySet DEF TheHits

LEMMA NormRefines ==
  ASSUME PromiseInv, NEW c \in Searchers, Norm(c)
  PROVE  [Promise!Next]_(Promise!vars)
  <1> USE DEF PromiseInv
  <1>1. SearchStep(c) /\ pc[c] = "norm"
    BY DEF SearchStep, Norm, Return, Goto
  <1>2. CASE \E to \in {"dbcount", "rlock"} : Goto(c, "norm", to) /\ UNCHANGED searchVars
    BY <1>1, <1>2, Unseen DEF Goto, StateOK, StageOf, ScoreOf, searchVars
  <1>3. CASE asked[c].via = "isearch" /\ asked[c].query = <<>> /\ Return(c, "norm", Found(<<>>, 0))
    <2>1. Promise!Reply(c, Promise!Found(<<>>, TheHits(ThePoints(Tokens, asked[c].query))))
      BY <1>1, <1>3, Replies, NothingAsked DEF Found, Promise!Found
    <2>2. TheHits(ThePoints(Tokens, asked[c].query)) = 0
      BY <1>3, NothingAsked
    <2>3. TheStage[c] = "asked"
      BY <1>1 DEF TheStage, StageOf
    <2>4. Promise!ReplyEmpty(c)
      BY <1>3, <2>1, <2>2, <2>3 DEF Promise!ReplyEmpty
    <2> QED BY <2>4 DEF Promise!Next
  <1>4. CASE Return(c, "norm", Failed)
    BY <1>1, <1>4, Failing
  <1> QED BY <1>2, <1>3, <1>4 DEF Norm

LEMMA RUnlockRefines ==
  ASSUME PromiseInv, NEW c \in Searchers, RUnlock(c)
  PROVE  [Promise!Next]_(Promise!vars)
  <1> USE DEF PromiseInv
  <1>1. SearchStep(c) /\ pc[c] = "count"
    BY DEF SearchStep, RUnlock, Return, Goto
  <1>2. /\ counts[c] = ThePoints(Tokens, asked[c].query)
        /\ Total(c) = TheHits(ThePoints(Tokens, asked[c].query))
    BY CountedAll DEF RUnlock, Total, TheHits
  <1>3. TheStage[c] = "asked" /\ asked[c].via = "isearch"
    BY <1>1 DEF TheStage, StageOf, Routed
  <1>4. CASE (Total(c) = 0 \/ asked[c].limit <= 0) /\ Return(c, "count", Found(<<>>, Total(c)))
    <2>1. Promise!Reply(c, Promise!Found(<<>>, Total(c)))
      BY <1>1, <1>4, Replies DEF Found, Promise!Found
    <2>2. Promise!ReplyEmpty(c)
      BY <1>2, <1>3, <1>4, <2>1 DEF Promise!ReplyEmpty
    <2> QED BY <2>2 DEF Promise!Next
  <1>5. CASE Goto(c, "count", "fetch") /\ UNCHANGED searchVars
    <2>1. StageOf(c)' = "scored" /\ ScoreOf(c)' = counts[c] /\ UNCHANGED answer
      BY <1>5 DEF Goto, StateOK, StageOf, ScoreOf, searchVars
    <2>2. Promise!Score(c)
      BY <1>1, <1>2, <1>3, <2>1, ViewMoves, OthersRest DEF Promise!Score
    <2> QED BY <2>2 DEF Promise!Next
  <1> QED BY <1>4, <1>5 DEF RUnlock

LEMMA FetchRefines ==
  ASSUME PromiseInv, NEW c \in Searchers, FetchComics(c)
  PROVE  [Promise!Next]_(Promise!vars)
  <1> USE DEF PromiseInv
  <1>1. SearchStep(c) /\ pc[c] = "fetch"
    BY DEF SearchStep, FetchComics, Return, Goto
  <1>2. TheStage[c] = "scored" /\ TheScore[c] = counts[c]
    BY <1>1 DEF TheStage, StageOf, TheScore, ScoreOf
  <1>3. ASSUME NEW comics \in SetToSeqs(BestIds(c) \cap db), Return(c, "fetch", Found(comics, Total(c)))
        PROVE  Promise!Next
    <2>1. Promise!Reply(c, Promise!Found(comics, TheHits(TheScore[c])))
      BY <1>1, <1>2, <1>3, Replies DEF Found, Promise!Found, Total, TheHits
    <2>2. comics \in SetToSeqs(TheBest(asked[c].limit, TheScore[c]) \cap db)
      BY <1>2, <1>3 DEF BestIds, TheBest
    <2>3. Promise!ReplyScored(c)
      BY <1>2, <2>1, <2>2 DEF Promise!ReplyScored
    <2> QED BY <2>3 DEF Promise!Next
  <1>4. CASE Return(c, "fetch", Failed)
    BY <1>1, <1>4, Failing
  <1> QED BY <1>3, <1>4 DEF FetchComics

LEMMA SelectRefines ==
  ASSUME PromiseInv, NEW c \in Searchers, CountRows(c) \/ SelectRows(c)
  PROVE  [Promise!Next]_(Promise!vars)
  <1> USE DEF PromiseInv
  <1>1. SearchStep(c) /\ pc[c] \in {"dbcount", "dbselect"}
    BY DEF SearchStep, CountRows, SelectRows, Return, Goto
  <1>2. CASE Goto(c, "dbcount", "dbselect") /\ UNCHANGED searchVars
    BY <1>1, <1>2, Unseen DEF Goto, StateOK, StageOf, ScoreOf, searchVars
  <1>3. CASE Return(c, "dbcount", Failed) \/ Return(c, "dbselect", Failed)
    BY <1>1, <1>3, Failing
  <1> DEFINE comics == SelectIds(Rows(db), asked[c].query, asked[c].limit)
  <1>4. CASE asked[c].limit >= 0 /\ Return(c, "dbselect", Found(comics, Len(comics)))
    <2>1. Promise!Reply(c, Promise!Found(comics, Len(comics)))
      BY <1>1, <1>4, Replies DEF Found, Promise!Found
    <2>2. TheStage[c] = "asked" /\ asked[c].via = "search"
      BY <1>1 DEF TheStage, StageOf, Routed
    <2>3. comics = TheSelected(db, asked[c].query, asked[c].limit)
      BY DEF TheSelected
    <2>4. Promise!ReplySelected(c)
      BY <1>4, <2>1, <2>2, <2>3 DEF Promise!ReplySelected
    <2> QED BY <2>4 DEF Promise!Next
  <1> QED BY <1>2, <1>3, <1>4 DEF CountRows, SelectRows

LEMMA SearchRefines ==
  ASSUME PromiseInv, NEW c \in Searchers, Ask(c) \/ SearchStep(c)
  PROVE  [Promise!Next]_(Promise!vars)
  <1>1. CASE Ask(c)
    <2>1. /\ StageOf(c) = "idle" /\ StageOf(c)' = "asked"
          /\ ScoreOf(c) = NoPoints /\ ScoreOf(c)' = NoPoints
      BY <1>1 DEF Ask, Goto, PromiseInv, StateOK, StageOf, ScoreOf
    <2>2. TheStage[c] = "idle" /\ TheStage' = [TheStage EXCEPT ![c] = "asked"] /\ TheScore' = TheScore
      BY <1>1, <2>1, ViewMoves DEF PromiseInv, TheStage, TheScore
    <2>3. Promise!Ask(c)
      BY <1>1, <2>2 DEF Promise!Ask, Ask, Failed, Promise!Failed
    <2> QED BY <2>3 DEF Promise!Next
  <1>2. CASE RLock(c) \/ CountWord(c)
    <2>1. SearchStep(c) /\ UNCHANGED <<StageOf(c), ScoreOf(c), answer>>
      BY <1>2 DEF RLock, CountWord, SearchStep, Goto, PromiseInv, StateOK, StageOf, ScoreOf, searchVars
    <2> QED BY <2>1, Unseen DEF PromiseInv
  <1> QED
    BY <1>1, <1>2, NormRefines, RUnlockRefines, FetchRefines, SelectRefines DEF SearchStep

LEMMA RebuildRefines ==
  ASSUME PromiseInv, NEW r \in Rebuilders, RebuildStep(r) \/ CallRebuild(r)
  PROVE  [Promise!Next]_(Promise!vars)
  <1>1. UNCHANGED <<TheStage, TheScore, asked, answer>>
    BY RebuildersApart, ViewRests DEF PromiseInv
  <1>2. CASE LoadOK(r)
    <2>1. Promise!Read(r)
      BY <1>1, <1>2 DEF LoadOK, Promise!Read, TheIndex
    <2> QED BY <2>1 DEF Promise!Next
  <1>3. CASE Install(r)
    <2>1. Promise!Install(r)
      BY <1>1, <1>3 DEF Install, Promise!Install, TheIndex, EmptyIndex
    <2> QED BY <2>1 DEF Promise!Next
  <1>4. CASE LoadErr(r) \/ Lock(r) \/ CallRebuild(r)
    BY <1>1, <1>4 DEF LoadErr, Lock, CallRebuild, Promise!vars
  <1> QED BY <1>2, <1>3, <1>4 DEF RebuildStep

LEMMA OutsideRefines ==
  ASSUME PromiseInv,
         \/ Tick \/ TakeTick \/ Deliver \/ TakeMessage
         \/ InsertRow \/ TruncateTable \/ Interrupt \/ Exit \/ Crash
  PROVE  [Promise!Next]_(Promise!vars)
  <1>1. CASE Exit \/ Crash
    <2>1. Restart
      BY <1>1 DEF Exit, Crash
    <2>2. \A c \in Searchers : pc'[c] = "idle"
      BY <2>1, StartedType DEF Restart
    <2>3. /\ TheStage' = [c \in Searchers |-> "idle"]
          /\ TheScore' = [c \in Searchers |-> Promise!NoPoints]
      BY <2>2 DEF TheStage, TheScore, StageOf, ScoreOf, NoPoints, Promise!NoPoints
    <2>4. Promise!Restart
      BY <2>1, <2>3 DEF Restart, Promise!Restart, TheIndex, EmptyIndex
    <2> QED BY <2>4 DEF Promise!Next
  <1>2. CASE InsertRow \/ TruncateTable
    <2>1. UNCHANGED <<TheStage, TheScore, asked, answer>>
      BY <1>2, RebuildersApart, ViewRests DEF PromiseInv
    <2>2. db' \in SUBSET ComicIds
      BY <1>2 DEF InsertRow, TruncateTable, PromiseInv, StateOK
    <2>3. Promise!Change
      BY <1>2, <2>1, <2>2 DEF InsertRow, TruncateTable, Promise!Change
    <2> QED BY <2>3 DEF Promise!Next
  <1>3. CASE Tick \/ TakeTick \/ Deliver \/ TakeMessage \/ Interrupt
    <2>1. UNCHANGED <<TheStage, TheScore, asked, answer>>
      BY <1>3, RebuildersApart, ViewRests DEF PromiseInv
    <2> QED
      BY <1>3, <2>1 DEF Tick, TakeTick, Deliver, TakeMessage, Interrupt, Promise!vars
  <1> QED BY <1>1, <1>2, <1>3

LEMMA PromiseStep == PromiseInv /\ [Next]_vars => [Promise!Next]_(Promise!vars)
  <1> SUFFICES ASSUME PromiseInv, [Next]_vars PROVE [Promise!Next]_(Promise!vars)
    OBVIOUS
  <1>1. CASE UNCHANGED vars
    <2>1. SearchesRest /\ UNCHANGED <<db, Tokens, tmp>>
      BY <1>1 DEF vars, SearchesRest, searchVars
    <2> QED BY <2>1, ViewRests DEF Promise!vars
  <1>2. CASE Next
    BY <1>2, RebuildRefines, SearchRefines, OutsideRefines DEF Next
  <1> QED BY <1>1, <1>2

LEMMA PromiseInit == Init => Promise!Init
  <1> SUFFICES ASSUME Init PROVE Promise!Init
    OBVIOUS
  <1>1. \A c \in Searchers : pc[c] = "idle"
    BY StartedType DEF Init
  <1>2. /\ TheStage = [c \in Searchers |-> "idle"]
        /\ TheScore = [c \in Searchers |-> Promise!NoPoints]
    BY <1>1 DEF TheStage, TheScore, StageOf, ScoreOf, NoPoints, Promise!NoPoints
  <1> QED
    BY <1>2 DEF Init, Promise!Init, TheIndex, EmptyIndex, Failed, Promise!Failed

\* For any number of clients, rebuilds, comics and words, whatever Rebuilds
\* run beside it and whatever is written to the table: each search is answered
\* as if it had looked at one index in a single step, and with comics that are
\* in the table when it looks them up.
THEOREM SearchIndexImplementsPromise == Spec => ImplementsSearchPromise
  <1>1. Spec => [][Promise!Next]_(Promise!vars)
    BY PromiseInvariant, PromiseStep, PTL DEF Spec
  <1> QED BY <1>1, PromiseInit, PTL DEF Spec, ImplementsSearchPromise, Promise!Spec

-----------------------------------------------------------------------------
(***************************************************************************)
(* An index that is up to date                                             *)
(***************************************************************************)
\* An index of some rows gives points to no other comic.
LEMMA PointsWithin ==
  ASSUME NEW ids \in SUBSET ComicIds, NEW query \in Seq(Vocab), NEW id \in ComicIds
  PROVE  /\ Points(Postings(Rows(ids)), query, id) \in Nat
         /\ id \notin ids => Points(Postings(Rows(ids)), query, id) = 0
  <1> DEFINE P == {i \in DOMAIN query : id \in Postings(Rows(ids))[query[i]]}
  <1>1. DOMAIN query = 1..Len(query) /\ Len(query) \in Nat /\ \A i \in DOMAIN query : query[i] \in Vocab
    BY LenProperties, ElementOfSeq
  <1>2. IsFiniteSet(P)
    <2>1. IsFiniteSet(1..Len(query)) /\ P \in SUBSET (1..Len(query))
      BY <1>1, FS_Interval
    <2> QED BY <2>1, FS_Subset
  <1>3. id \notin ids => P = {}
    BY <1>1 DEF Postings, Rows
  <1> QED BY <1>2, <1>3, FS_CardinalityType, FS_EmptySet DEF Points

\* The ids a search takes from an index of some rows are those Index.Search
\* ranks over these rows.
LEMMA BestOfIndex ==
  ASSUME NEW ids \in SUBSET ComicIds, NEW query \in Seq(Vocab), NEW limit
  PROVE  TheBest(limit, ThePoints(TheIndex(ids), query)) = ToSet(IndexIds(Rows(ids), query, limit))
  <1> DEFINE wide == ThePoints(TheIndex(ids), query)
             narrow == [id \in DOMAIN Rows(ids) |-> Points(Postings(Rows(ids)), query, id)]
  <1>1. DOMAIN Rows(ids) = ids
    BY DEF Rows
  <1>2. /\ wide \in [ComicIds -> Nat]
        /\ \A id \in ComicIds : wide[id] = Points(Postings(Rows(ids)), query, id)
    BY PointsWithin DEF ThePoints, TheIndex
  <1>3. narrow \in [ids -> Nat] /\ \A id \in ids : narrow[id] = wide[id]
    BY <1>1, <1>2
  <1>4. \A id \in ComicIds \ ids : wide[id] = 0
    BY <1>2, PointsWithin
  <1> HIDE DEF wide, narrow
  <1>5. IsScore(wide)
    BY <1>2, CountsAreScore
  <1>6. IsScore(narrow)
    <2>1. IsFiniteSet(ids) /\ ids \subseteq Int
      <3>1. IsFiniteSet(ids)
        BY DataAssumption, FS_Subset
      <3>2. ids \subseteq Int
        BY DataAssumption
      <3> QED BY <3>1, <3>2
    <2> QED BY <1>3, <2>1 DEF IsScore
  <1>7. WithPoints(wide) = WithPoints(narrow)
    BY <1>2, <1>3, <1>4 DEF WithPoints
  <1>8. \A id \in WithPoints(wide) : wide[id] = narrow[id]
    BY <1>2, <1>3, <1>4 DEF WithPoints
  <1>9. RankSeq(wide) = RankSeq(narrow)
    BY <1>5, <1>6, <1>7, <1>8, SameRanking
  <1> QED BY <1>9 DEF TheBest, IndexIds, wide, narrow

\* No word occurs twice, as Words.Norm sees to.
NoWordTwice == \A id \in ComicIds : IsInjective(WordsOf[id])

\* The best by an index of the table are those SQL selects.
LEMMA BestIsSelected ==
  ASSUME NoWordTwice, NEW ids \in SUBSET ComicIds, NEW query \in Seq(Vocab), IsInjective(query),
         NEW limit
  PROVE  TheBest(limit, ThePoints(TheIndex(ids), query)) = ToSet(TheSelected(ids, query, limit))
  <1>1. IsFiniteSet(ids)
    BY DataAssumption, FS_Subset
  <1>2. IsTable(Rows(ids))
    BY <1>1, DataAssumption DEF IsTable, Rows, NoWordTwice
  <1>3. IndexIds(Rows(ids), query, limit) = SelectIds(Rows(ids), query, limit)
    BY <1>2, SameIds
  <1> QED BY <1>3, BestOfIndex DEF TheSelected

\* A search that has counted its last word in an index that is up to date.
FreshSearchesAgree ==
  \A c \in readers :
    /\ at[c] > Len(asked[c].query)
    /\ Tokens = Postings(Rows(db))
    /\ IsInjective(asked[c].query)
    => BestIds(c) = ToSet(SelectIds(Rows(db), asked[c].query, asked[c].limit))

\* When no word occurs twice, a search over an index that is up to date will
\* look up the very comics that Search would select in SQL.
THEOREM FreshIndexAgreesWithSQL ==
  ASSUME NoWordTwice
  PROVE  Spec => []FreshSearchesAgree
  <1>1. PromiseInv => FreshSearchesAgree
    <2> SUFFICES ASSUME PromiseInv, NEW c \in readers,
                        at[c] > Len(asked[c].query), Tokens = Postings(Rows(db)),
                        IsInjective(asked[c].query)
                 PROVE  BestIds(c) = ToSet(SelectIds(Rows(db), asked[c].query, asked[c].limit))
      BY DEF FreshSearchesAgree
    <2>1. c \in Searchers /\ db \in SUBSET ComicIds /\ asked[c].query \in Seq(Vocab)
      BY DEF PromiseInv, StateOK
    <2>2. counts[c] = ThePoints(TheIndex(db), asked[c].query)
      BY <2>1, CountedAll DEF TheIndex
    <2>3. BestIds(c) = TheBest(asked[c].limit, counts[c])
      BY DEF BestIds, TheBest
    <2> QED BY <2>1, <2>2, <2>3, BestIsSelected DEF TheSelected
  <1> QED BY <1>1, PromiseInvariant, PTL
=============================================================================

---------------------- MODULE UpdateServiceStore_proofs ----------------------
(***************************************************************************)
(* UpdateService implements ComicStore for any number of clients, workers, *)
(* comics and crashes, and the numbers of Stats never contradict each      *)
(* other.                                                                  *)
(***************************************************************************)
EXTENDS UpdateServiceStore, UpdateService_proofs

-----------------------------------------------------------------------------
(***************************************************************************)
(* What the refinement needs beside IInv: which calls are whose, what a    *)
(* call about to return has to say, and that nothing lies beyond the       *)
(* newest comic.                                                           *)
(***************************************************************************)
Role(c) ==
  /\ pc[c] \in UpdatePcs => c \in Updaters
  /\ pc[c] \in DropPcs   => c \in Droppers
  /\ pc[c] \in StatsPcs  => c \in Readers

Verdict(c) ==
  /\ pc[c] \in {"setidle", "unlock", "dunlock"} =>
       reply[c] \in {"ok", "error", "failed_publish", "drop_update"}
  /\ pc[c] \in {"fetch", "publish"} => last[c] > 0 /\ cap[c] > 0
  /\ pc[c] \in {"setidle", "unlock"} /\ reply[c] = "ok" =>
       last[c] > 0 /\ (cap[c] > 0 \/ Wanted(c) = {})

\* The id a worker is about to insert, and every id in the table, has been
\* published.
Bounded ==
  /\ db \subseteq 1..xkcdLast
  /\ \A c \in Callers : last[c] <= xkcdLast

\* The rows Stats has counted are no more than the comics it will hear of.
Counted(r) ==
  /\ pc[r] = "statslast" => got[r] <= xkcdLast
  /\ pc[r] = "idle" /\ reply[r] = "ok" => got[r] <= last[r]

LEMMA RoleNext ==
  ASSUME TypeOK, NEW c \in Callers, Step(c), NEW d \in Callers, Role(d)
  PROVE  Role(d)'
  <1>1. CASE d # c
    BY <1>1, OthersUntouched DEF Role, Untouched
  <1>2. CASE d = c
    <2> USE <1>2 DEF Role, UpdatePcs, DropPcs, StatsPcs, Resolve, Return
    <2>1. CASE Invoke(c)
      BY <2>1, PcAfter DEF Invoke, InvokeUpdate, InvokeDrop, InvokeStats, AskStatus
    <2>2. CASE Cancel(c)
      BY <2>2 DEF Cancel
    <2>3. CASE \/ MarkRunning(c) \/ TryLockOK(c) \/ TryLockFail(c) \/ TryLockFailEarly(c)
               \/ MarkRunningLate(c) \/ StartRun(c) \/ ReadIDs(c) \/ JoinWorkers(c)
      BY <2>3, PcAfter DEF MarkRunning, TryLockOK, TryLockFail, TryLockFailEarly,
                           MarkRunningLate, StartRun, ReadIDs, JoinWorkers
    <2>4. CASE ReadLastID(c) \/ PublishUpdated(c) \/ SetIdle(c) \/ UnlockUpdate(c)
      BY <2>4, PcAfter DEF ReadLastID, PublishUpdated, SetIdle, UnlockUpdate
    <2>5. CASE DropStep(c)
      BY <2>5, PcAfter DEF DropStep, DropLock, CheckStatus, DropTable, PublishDropped, UnlockDrop
    <2>6. CASE StatsStep(c)
      BY <2>6, PcAfter DEF StatsStep, StatsDB, StatsLastID
    <2>7. CASE \E w \in Workers : WorkerStep(c, w)
      BY <2>7 DEF WorkerStep, TakeTask, RangeDone, FetchComic, AddComic, callVars
    <2> QED BY <2>1, <2>2, <2>3, <2>4, <2>5, <2>6, <2>7 DEF Step, UpdateStep
  <1> QED BY <1>1, <1>2

LEMMA VerdictNext ==
  ASSUME TypeOK, WorkersInFetch, NEW c \in Callers, Fresh(c), Step(c),
         NEW d \in Callers, Verdict(d)
  PROVE  Verdict(d)'
  <1>1. CASE d # c
    BY <1>1, OthersUntouched DEF Verdict, Untouched, Wanted
  <1>2. CASE d = c
    <2> USE <1>2 DEF Verdict, Resolve, Return, Wanted, TypeOK
    <2>1. CASE Invoke(c)
      BY <2>1, PcAfter DEF Invoke, InvokeUpdate, InvokeDrop, InvokeStats, AskStatus
    <2>2. CASE Cancel(c)
      BY <2>2 DEF Cancel, fetchVars, localVars
    <2>3. CASE \/ MarkRunning(c) \/ TryLockOK(c) \/ TryLockFail(c) \/ TryLockFailEarly(c)
               \/ MarkRunningLate(c) \/ StartRun(c)
      BY <2>3, PcAfter DEF MarkRunning, TryLockOK, TryLockFail, TryLockFailEarly,
                           MarkRunningLate, StartRun
    <2>4. CASE ReadIDs(c)
      BY <2>4, PcAfter DEF ReadIDs
    <2>5. CASE ReadLastID(c)
      <3> DEFINE missing == (1..xkcdLast) \ existing[c]
      <3>1. xkcdLast \in Nat /\ xkcdLast > 0
        BY ConstantsAssumption DEF ComicIds
      <3>2. CASE missing = {} /\ last' = [last EXCEPT ![c] = xkcdLast]
                 /\ Resolve(c, "lastid", "setidle", "ok") /\ UNCHANGED fetchVars
        BY <2>5, <3>1, <3>2, PcAfter DEF ReadLastID, localVars, fetchVars
      <3>3. CASE missing # {} /\ last' = [last EXCEPT ![c] = xkcdLast]
                 /\ Goto(c, "lastid", "fetch") /\ Spawn(c, missing)
        <4>2. Cardinality(missing) > 0
          <5>1. IsFiniteSet(1..xkcdLast)
            BY <3>1, FS_Interval
          <5>2. IsFiniteSet(missing)
            BY <5>1, FS_Subset
          <5>3. Cardinality(missing) \in Nat /\ Cardinality(missing) # 0
            BY <3>3, <5>2, FS_CardinalityType, FS_EmptySet
          <5> QED BY <5>3
        <4>3. pc'[c] = "fetch" /\ last'[c] = xkcdLast /\ cap'[c] = Cardinality(missing)
          BY <3>3, PcAfter DEF Spawn
        <4> QED BY <3>1, <4>2, <4>3
      <3>4. CASE Resolve(c, "lastid", "setidle", "error")
        <4>1. pc'[c] = "setidle" /\ reply'[c] = "error"
          BY <3>4, PcAfter
        <4> QED BY <4>1
      <3> QED BY <2>5, <3>2, <3>3, <3>4 DEF ReadLastID
    <2>6. CASE JoinWorkers(c)
      BY <2>6, PcAfter DEF JoinWorkers, fetchVars, localVars
    <2>7. CASE PublishUpdated(c)
      BY <2>7, PcAfter DEF PublishUpdated, fetchVars, localVars
    <2>8. CASE SetIdle(c) \/ UnlockUpdate(c)
      BY <2>8, PcAfter DEF SetIdle, UnlockUpdate, fetchVars, localVars
    <2>9. CASE DropStep(c)
      BY <2>9, PcAfter DEF DropStep, DropLock, CheckStatus, DropTable, PublishDropped, UnlockDrop
    <2>10. CASE StatsStep(c)
      BY <2>10, PcAfter DEF StatsStep, StatsDB, StatsLastID
    <2>11. CASE \E w \in Workers : WorkerStep(c, w)
      BY <2>11 DEF WorkerStep, TakeTask, RangeDone, FetchComic, AddComic, callVars, localVars
    <2> QED
      BY <2>1, <2>2, <2>3, <2>4, <2>5, <2>6, <2>7, <2>8, <2>9, <2>10, <2>11
      DEF Step, UpdateStep
  <1> QED BY <1>1, <1>2

LEMMA BoundedNext ==
  ASSUME TypeOK, WorkersInFetch, Bounded, NEW c \in Callers, Disjoint(c), Step(c)
  PROVE  Bounded' /\ xkcdLast' = xkcdLast
  <1>0. xkcdLast' = xkcdLast
    BY DEF Step, Invoke, InvokeUpdate, InvokeDrop, InvokeStats, AskStatus, Cancel,
           UpdateStep, MarkRunning, TryLockOK, TryLockFail, TryLockFailEarly, MarkRunningLate,
           StartRun, ReadIDs, ReadLastID, JoinWorkers, PublishUpdated, SetIdle, UnlockUpdate,
           DropStep, DropLock, CheckStatus, DropTable, PublishDropped, UnlockDrop,
           StatsStep, StatsDB, StatsLastID,
           WorkerStep, TakeTask, RangeDone, FetchComic, AddComic, worldVars
  <1>1. \A d \in Callers : last'[d] <= xkcdLast
    <2>1. xkcdLast \in Nat /\ xkcdLast > 0
      BY ConstantsAssumption DEF TypeOK, ComicIds
    <2>2. \A d \in Callers \ {c} : last'[d] <= xkcdLast
      BY OthersUntouched DEF Bounded, Untouched
    <2>3. last'[c] = last[c] \/ last'[c] = 0 \/ last'[c] = xkcdLast
      BY DEF TypeOK, Step, Invoke, InvokeUpdate, InvokeDrop, InvokeStats, AskStatus, Cancel,
             UpdateStep, MarkRunning, TryLockOK, TryLockFail, TryLockFailEarly, MarkRunningLate,
             StartRun, ReadIDs, ReadLastID, JoinWorkers, PublishUpdated, SetIdle, UnlockUpdate,
             DropStep, DropLock, CheckStatus, DropTable, PublishDropped, UnlockDrop,
             StatsStep, StatsDB, StatsLastID,
             WorkerStep, TakeTask, RangeDone, FetchComic, AddComic, localVars
    <2> QED BY <2>1, <2>2, <2>3 DEF Bounded
  <1>2. db' \subseteq 1..xkcdLast
    <2>1. CASE \E w \in Workers : AddComic(c, w)
      <3>1. PICK w \in Workers : AddComic(c, w)
        BY <2>1
      <3>2. wpc[c][w] = "add"
        BY <3>1 DEF AddComic, NextTask, SendErr, WorkerGoto
      <3>3. job[c][w] \in Wanted(c)
        BY <3>2 DEF WorkersInFetch, Disjoint, Busy
      <3>4. job[c][w] \in 1..xkcdLast
        <4>1. job[c][w] \in 1..last[c]
          BY <3>3 DEF Wanted
        <4>2. last[c] \in Int /\ xkcdLast \in Int
          BY ConstantsAssumption DEF TypeOK, ComicIds
        <4>3. last[c] <= xkcdLast
          BY DEF Bounded
        <4> QED BY <4>1, <4>2, <4>3
      <3>5. db' = db \/ db' = db \cup {job[c][w]}
        BY <3>1 DEF AddComic, AddOK, AddErr, Store
      <3> QED BY <3>4, <3>5 DEF Bounded
    <2>2. CASE DropTable(c)
      BY <2>2 DEF DropTable, TruncateOK, TruncateErr, Store, Bounded
    <2>3. CASE ~DropTable(c) /\ ~\E w \in Workers : AddComic(c, w)
      <3>1. UNCHANGED db
        BY <2>3 DEF Step, Invoke, InvokeUpdate, InvokeDrop, InvokeStats, AskStatus, Cancel,
             UpdateStep, MarkRunning, TryLockOK, TryLockFail, TryLockFailEarly, MarkRunningLate,
             StartRun, ReadIDs, ReadLastID, JoinWorkers, PublishUpdated, SetIdle, UnlockUpdate,
             DropStep, DropLock, CheckStatus, PublishDropped, UnlockDrop,
             StatsStep, StatsDB, StatsLastID,
             WorkerStep, TakeTask, RangeDone, FetchComic, storeVars
      <3> QED BY <3>1 DEF Bounded
    <2> QED BY <2>1, <2>2, <2>3
  <1> QED BY <1>0, <1>1, <1>2 DEF Bounded

\* The table has no more rows than there are comics.
LEMMA RowsCounted ==
  ASSUME TypeOK, Bounded
  PROVE  Cardinality(db) \in Nat /\ Cardinality(db) <= xkcdLast
  <1>1. xkcdLast \in Nat /\ xkcdLast > 0
    BY ConstantsAssumption DEF TypeOK, ComicIds
  <1>2. IsFiniteSet(1..xkcdLast) /\ Cardinality(1..xkcdLast) = xkcdLast
    BY <1>1, FS_Interval
  <1>3. IsFiniteSet(db) /\ Cardinality(db) <= Cardinality(1..xkcdLast)
    BY <1>2, FS_Subset DEF Bounded
  <1>4. Cardinality(db) \in Nat
    BY <1>3, FS_CardinalityType
  <1> QED BY <1>2, <1>3, <1>4

\* No other step touches what Stats has counted.
LEMMA GotUntouched ==
  ASSUME TypeOK, NEW c \in Callers, Step(c), NEW d \in Callers \ {c}
  PROVE  got'[d] = got[d]
  BY DEF TypeOK, Step, Invoke, InvokeUpdate, InvokeDrop, InvokeStats, AskStatus, Cancel,
         UpdateStep, MarkRunning, TryLockOK, TryLockFail, TryLockFailEarly, MarkRunningLate,
         StartRun, ReadIDs, ReadLastID, JoinWorkers, PublishUpdated, SetIdle, UnlockUpdate,
         DropStep, DropLock, CheckStatus, DropTable, PublishDropped, UnlockDrop,
         StatsStep, StatsDB, StatsLastID,
         WorkerStep, TakeTask, RangeDone, FetchComic, AddComic, localVars

LEMMA CountedNext ==
  ASSUME TypeOK, Bounded, NEW c \in Callers, Step(c), Role(c), xkcdLast' = xkcdLast,
         NEW r \in Readers, Counted(r)
  PROVE  Counted(r)'
  <1>1. r \in Callers /\ r \notin Updaters \cup Droppers
    BY ReadersAssumption DEF Callers
  <1>2. CASE r # c
    <2>1. got'[r] = got[r] /\ Untouched(r)
      BY <1>1, <1>2, GotUntouched, OthersUntouched
    <2> QED BY <2>1 DEF Counted, Untouched
  <1>3. CASE r = c
    <2>1. pc[c] \in StatsPcs \cup {"idle"}
      BY <1>1, <1>3 DEF Role, TypeOK
    <2> USE <1>3 DEF Counted, Resolve, Return
    <2>2. CASE Invoke(c)
      BY <1>1, <2>2, PcAfter DEF Invoke, InvokeUpdate, InvokeDrop, InvokeStats, AskStatus, TypeOK
    <2>3. CASE Cancel(c)
      BY <2>3 DEF Cancel, localVars
    <2>4. CASE StatsDB(c)
      <3>1. CASE Goto(c, "statsdb", "statslast") /\ got' = [got EXCEPT ![c] = Cardinality(db)]
        <4>1. pc'[c] = "statslast" /\ got'[c] = Cardinality(db)
          BY <3>1, PcAfter DEF TypeOK
        <4> QED BY <4>1, RowsCounted
      <3>2. CASE Return(c, "statsdb", "error")
        <4>1. pc'[c] = "idle" /\ reply'[c] = "error"
          BY <3>2, PcAfter DEF TypeOK
        <4> QED BY <4>1
      <3> QED BY <2>4, <3>1, <3>2 DEF StatsDB
    <2>5. CASE StatsLastID(c)
      <3>1. CASE Return(c, "statslast", "ok") /\ last' = [last EXCEPT ![c] = xkcdLast]
        <4>1. pc[c] = "statslast" /\ pc'[c] = "idle" /\ last'[c] = xkcdLast /\ got'[c] = got[c]
          BY <2>5, <3>1, PcAfter DEF TypeOK, StatsLastID
        <4> QED BY <4>1
      <3>2. CASE Return(c, "statslast", "error")
        <4>1. pc'[c] = "idle" /\ reply'[c] = "error"
          BY <3>2, PcAfter DEF TypeOK
        <4> QED BY <4>1
      <3> QED BY <2>5, <3>1, <3>2 DEF StatsLastID
    <2>6. ~UpdateStep(c) /\ ~DropStep(c)
      BY <2>1 DEF StatsPcs, Goto, UpdateStep, MarkRunning, TryLockOK, TryLockFail,
        TryLockFailEarly, MarkRunningLate, StartRun, ReadIDs, ReadLastID, JoinWorkers,
        PublishUpdated, SetIdle, UnlockUpdate, DropStep, DropLock, CheckStatus, DropTable,
        PublishDropped, UnlockDrop
    <2>7. CASE \E w \in Workers : WorkerStep(c, w)
      BY <2>7 DEF WorkerStep, TakeTask, RangeDone, FetchComic, AddComic, callVars, localVars
    <2> QED BY <2>2, <2>3, <2>4, <2>5, <2>6, <2>7 DEF Step, StatsStep
  <1> QED BY <1>2, <1>3

StoreInv ==
  /\ \A c \in Callers : Role(c) /\ Verdict(c)
  /\ Bounded
  /\ \A r \in Readers : Counted(r)

LEMMA StoreInvInit == Init => StoreInv
  BY ConstantsAssumption
  DEF Init, StoreInv, Role, Verdict, Bounded, Counted, Callers, ComicIds,
      UpdatePcs, DropPcs, StatsPcs

LEMMA StoreInvNext == TypeOK /\ IInv /\ StoreInv /\ [Next]_vars => StoreInv'
  <1> SUFFICES ASSUME TypeOK, IInv, StoreInv, [Next]_vars PROVE StoreInv'
    OBVIOUS
  <1>1. ASSUME NEW c \in Callers, Step(c) PROVE StoreInv'
    <2>1. WorkersInFetch /\ Fresh(c) /\ Disjoint(c)
      BY DEF IInv
    <2>2. Bounded' /\ xkcdLast' = xkcdLast
      BY <1>1, <2>1, BoundedNext DEF StoreInv
    <2>3. \A d \in Callers : Role(d)' /\ Verdict(d)'
      BY <1>1, <2>1, RoleNext, VerdictNext DEF StoreInv
    <2>4. \A r \in Readers : Counted(r)'
      BY <1>1, <2>2, CountedNext DEF StoreInv
    <2> QED BY <2>2, <2>3, <2>4 DEF StoreInv
  <1>2. CASE NewComic
    <2>1. UNCHANGED <<db, pc, reply, last, cap, existing, got>> /\ xkcdLast' = xkcdLast + 1
      BY <1>2 DEF NewComic, storeVars, callVars, fetchVars, localVars
    <2>2. /\ xkcdLast \in Nat
          /\ \A c \in Callers : last[c] \in Nat /\ got[c] \in Nat
      BY ConstantsAssumption DEF TypeOK, ComicIds
    <2>3. Bounded'
      BY <2>1, <2>2 DEF StoreInv, Bounded
    <2>4. \A r \in Readers : Counted(r)'
      BY <2>1, <2>2 DEF StoreInv, Counted, Callers
    <2> QED BY <2>1, <2>3, <2>4 DEF StoreInv, Role, Verdict, Wanted
  <1>3. CASE Crash
    <2>1. /\ UNCHANGED <<db, xkcdLast>>
          /\ \A c \in Callers :
               /\ pc'[c] = "idle"
               /\ reply'[c] = IF pc[c] = "idle" THEN reply[c] ELSE "unavailable"
               /\ last'[c] = IF pc[c] = "idle" THEN last[c] ELSE 0
               /\ got'[c] = IF pc[c] = "idle" THEN got[c] ELSE 0
      BY <1>3 DEF Crash, storeVars
    <2>2. xkcdLast \in Nat
      BY ConstantsAssumption DEF TypeOK, ComicIds
    <2>3. Bounded'
      BY <2>1, <2>2 DEF StoreInv, Bounded
    <2>4. \A r \in Readers : Counted(r)'
      BY <2>1 DEF StoreInv, Counted, Callers
    <2>5. \A c \in Callers : Role(c)' /\ Verdict(c)'
      BY <2>1 DEF Role, Verdict, UpdatePcs, DropPcs, StatsPcs
    <2> QED BY <2>3, <2>4, <2>5 DEF StoreInv
  <1>4. CASE UNCHANGED vars
    BY <1>4 DEF vars, storeVars, worldVars, callVars, fetchVars, localVars, StoreInv, Role,
                Verdict, Bounded, Counted, Wanted
  <1> QED BY <1>1, <1>2, <1>3, <1>4 DEF Next, Step

\* All that the refinement rests on.
StoreIInv == TypeOK /\ IInv /\ StoreInv

\* The inductive invariant of the refinement holds.
THEOREM StoreInvariance == Spec => []StoreIInv
  <1>1. Init => StoreIInv
    BY TypeInit, InvInit, StoreInvInit DEF StoreIInv
  <1>2. StoreIInv /\ [Next]_vars => StoreIInv'
    BY TypeNext, InvNext, StoreInvNext DEF StoreIInv
  <1> QED BY <1>1, <1>2, PTL DEF Spec

\* Stats never says that more comics are fetched than there are, although an
\* Update, a Drop and xkcd.com may change both numbers between its two looks.
THEOREM StatsAddUp == Spec => []StatsConsistent
  <1>1. StoreIInv => StatsConsistent
    BY DEF StoreIInv, StoreInv, Counted, StatsConsistent
  <1> QED BY <1>1, StoreInvariance, PTL

-----------------------------------------------------------------------------
(***************************************************************************)
(* What clients see of a step                                              *)
(***************************************************************************)
Shown(c) == IF pc[c] = "idle" THEN reply[c] ELSE "pending"

LEMMA OwnAnswer ==
  ASSUME TypeOK, NEW c \in Callers, Step(c)
  PROVE  TheAnswer' = [TheAnswer EXCEPT ![c] = Shown(c)']
  <1>1. \A d \in (Updaters \cup Droppers) \ {c} : Shown(d)' = Shown(d)
    BY OthersUntouched DEF Shown, Untouched, Callers
  <1> QED BY <1>1 DEF TheAnswer, Shown

\* A call that does not own the table leaves the owner's plan alone.
LEMMA PlanKept ==
  ASSUME TypeOK, NEW c \in Callers, Step(c), mu # c, mu' = mu
  PROVE  UNCHANGED <<TheTarget, ThePlan>>
  <1>1. CASE mu = NoCaller
    BY <1>1 DEF TheTarget, ThePlan
  <1>2. CASE mu # NoCaller
    <2>1. mu \in Callers \ {c}
      BY <1>2 DEF TypeOK
    <2>2. Untouched(mu)
      BY <2>1, OthersUntouched
    <2> QED BY <2>2 DEF TheTarget, ThePlan, Untouched
  <1> QED BY <1>1, <1>2

\* The owner's plan is the one it made, while it keeps its locals.
LEMMA PlanOfOwner ==
  ASSUME NEW c \in Callers, mu = c, mu' = c, last'[c] = last[c],
         existing'[c] = existing[c] \/ last[c] = 0
  PROVE  UNCHANGED <<TheTarget, ThePlan>>
  BY ConstantsAssumption DEF TheTarget, ThePlan

LEMMA MuUntouched ==
  ASSUME NEW c \in Callers, Step(c), ~TryLockOK(c), ~UnlockUpdate(c), ~DropLock(c), ~UnlockDrop(c)
  PROVE  mu' = mu
  BY DEF Step, Invoke, InvokeUpdate, InvokeDrop, InvokeStats, AskStatus, Cancel,
         UpdateStep, MarkRunning, TryLockFail, TryLockFailEarly, MarkRunningLate,
         StartRun, ReadIDs, ReadLastID, JoinWorkers, PublishUpdated, SetIdle,
         DropStep, CheckStatus, DropTable, PublishDropped,
         StatsStep, StatsDB, StatsLastID,
         WorkerStep, TakeTask, RangeDone, FetchComic, AddComic, lockVars

LEMMA WorldUntouched ==
  ASSUME NEW c \in Callers, Step(c)
  PROVE  xkcdLast' = xkcdLast
  BY DEF Step, Invoke, InvokeUpdate, InvokeDrop, InvokeStats, AskStatus, Cancel,
         UpdateStep, MarkRunning, TryLockOK, TryLockFail, TryLockFailEarly, MarkRunningLate,
         StartRun, ReadIDs, ReadLastID, JoinWorkers, PublishUpdated, SetIdle, UnlockUpdate,
         DropStep, DropLock, CheckStatus, DropTable, PublishDropped, UnlockDrop,
         StatsStep, StatsDB, StatsLastID,
         WorkerStep, TakeTask, RangeDone, FetchComic, AddComic, worldVars

\* A step that is nobody's business but the caller's.
LEMMA Invisible ==
  ASSUME TypeOK, NEW c \in Callers, Step(c), UNCHANGED <<db, announced, mu, TheTarget, ThePlan>>,
         Shown(c)' = Shown(c)
  PROVE  UNCHANGED Promise!vars
  <1>1. TheAnswer' = TheAnswer
    BY OwnAnswer DEF TheAnswer, Shown
  <1> QED BY <1>1, WorldUntouched DEF Promise!vars

-----------------------------------------------------------------------------
(***************************************************************************)
(* Every step is one of ComicStore, or invisible                           *)
(***************************************************************************)
Served(c) == c \in Updaters \cup Droppers

LEMMA InvokeRefines ==
  ASSUME StoreIInv, NEW c \in Callers, Invoke(c)
  PROVE  [Promise!Next]_(Promise!vars)
  <1> USE DEF StoreIInv, IInv
  <1>1. Step(c) /\ pc[c] = "idle"
    BY DEF Step, Invoke, InvokeUpdate, InvokeDrop, InvokeStats, AskStatus, Resolve, Goto
  <1>2. mu # c
    BY <1>1 DEF LockOwned, Updating, Dropping
  <1>3. mu' = mu /\ UNCHANGED <<db, announced>>
    BY <1>1, <1>2, StoreNeedsLock DEF Invoke, InvokeUpdate, InvokeDrop, InvokeStats, AskStatus, lockVars
  <1>4. UNCHANGED <<TheTarget, ThePlan>>
    BY <1>1, <1>2, <1>3, PlanKept
  <1>5. TheAnswer' = [TheAnswer EXCEPT ![c] = Shown(c)'] /\ xkcdLast' = xkcdLast
    BY <1>1, OwnAnswer, WorldUntouched
  <1>6. CASE c \in Readers
    <2>1. c \notin Updaters \cup Droppers
      BY <1>6, ReadersAssumption
    <2>2. TheAnswer' = TheAnswer
      BY <1>5, <2>1 DEF TheAnswer
    <2> QED BY <1>3, <1>4, <1>5, <2>2 DEF Promise!vars
  <1>7. CASE InvokeUpdate(c) \/ InvokeDrop(c)
    <2>1. c \in Updaters \cup Droppers /\ pc'[c] # "idle"
      BY <1>7, PcAfter DEF InvokeUpdate, InvokeDrop, Resolve
    <2>2. TheAnswer[c] # "pending"
      BY <1>1, <2>1 DEF TheAnswer, TypeOK, Replies
    <2>3. Promise!Request(c)
      BY <1>3, <1>4, <1>5, <2>1, <2>2 DEF Promise!Request, Promise!Answer, Shown
    <2> QED BY <2>1, <2>3 DEF Promise!Next, Promise!Clients
  <1> QED BY <1>6, <1>7 DEF Invoke, InvokeStats, AskStatus

LEMMA StatsRefines ==
  ASSUME StoreIInv, NEW c \in Callers, StatsStep(c)
  PROVE  [Promise!Next]_(Promise!vars)
  <1> USE DEF StoreIInv, IInv
  <1>1. Step(c) /\ pc[c] \in StatsPcs
    BY DEF Step, StatsStep, StatsDB, StatsLastID, StatsPcs, Return, Goto
  <1>2. mu # c /\ c \in Readers
    BY <1>1 DEF LockOwned, Updating, Dropping, StatsPcs, StoreInv, Role
  <1>3. mu' = mu /\ UNCHANGED <<db, announced>>
    BY <1>1, <1>2, StoreNeedsLock DEF StatsStep, StatsDB, StatsLastID, lockVars
  <1>4. UNCHANGED <<TheTarget, ThePlan>>
    BY <1>1, <1>2, <1>3, PlanKept
  <1>5. c \notin Updaters \cup Droppers
    BY <1>2, ReadersAssumption
  <1>6. TheAnswer' = TheAnswer
    BY <1>1, <1>5, OwnAnswer DEF TheAnswer
  <1> QED BY <1>1, <1>3, <1>4, <1>6, WorldUntouched DEF Promise!vars

\* Before a call owns the table: it is refused, begins, or waits.
LEMMA EntryRefines ==
  ASSUME StoreIInv, NEW c \in Callers,
         \/ MarkRunning(c) \/ TryLockOK(c) \/ TryLockFail(c)
         \/ TryLockFailEarly(c) \/ MarkRunningLate(c) \/ DropLock(c)
  PROVE  [Promise!Next]_(Promise!vars)
  <1> USE DEF StoreIInv, IInv
  <1>1. Step(c)
    BY DEF Step, UpdateStep, DropStep
  <1>2. /\ pc[c] \in {"mark", "trylock", "late", "lock"}
        /\ UNCHANGED <<db, announced, last, existing>>
    BY DEF MarkRunning, TryLockOK, TryLockFail, TryLockFailEarly, MarkRunningLate, DropLock,
           Goto, Return, storeVars, localVars
  <1>3. mu # c /\ last[c] = 0
    BY <1>2 DEF LockOwned, Updating, Dropping, Fresh
  <1>4. Served(c) /\ TheAnswer[c] = "pending"
    BY <1>2 DEF StoreInv, Role, UpdatePcs, DropPcs, Served, TheAnswer
  <1>5. TheAnswer' = [TheAnswer EXCEPT ![c] = Shown(c)'] /\ xkcdLast' = xkcdLast
    BY <1>1, OwnAnswer, WorldUntouched
  <1>6. CASE MarkRunning(c) \/ TryLockFailEarly(c)
    <2>1. mu' = mu /\ pc'[c] # "idle"
      BY <1>6, PcAfter DEF MarkRunning, TryLockFailEarly, lockVars
    <2> QED BY <1>1, <1>2, <1>3, <2>1, PlanKept, Invisible DEF Shown
  <1>7. CASE TryLockFail(c) \/ MarkRunningLate(c)
    <2>1. mu' = mu /\ pc'[c] = "idle" /\ reply'[c] = "already_exists"
      BY <1>7, PcAfter DEF TryLockFail, MarkRunningLate, lockVars, Return, TypeOK
    <2>2. c \in Updaters
      BY <1>7 DEF StoreInv, Role, UpdatePcs, TryLockFail, MarkRunningLate, Return, Goto
    <2>3. Promise!Refuse(c)
      BY <1>1, <1>2, <1>3, <1>4, <1>5, <2>1, <2>2, PlanKept DEF Promise!Refuse, Promise!Answer, Shown
    <2> QED BY <2>2, <2>3 DEF Promise!Next, Promise!Clients
  <1>8. CASE TryLockOK(c) \/ DropLock(c)
    <2>1. mu = NoCaller /\ mu' = c /\ pc'[c] # "idle"
      BY <1>8, PcAfter DEF TryLockOK, DropLock
    <2>2. TheAnswer' = TheAnswer
      BY <1>4, <1>5, <2>1 DEF Shown, TheAnswer
    <2>3. UNCHANGED <<TheTarget, ThePlan>>
      BY <1>2, <1>3, <2>1, ConstantsAssumption DEF TheTarget, ThePlan
    <2>4. Promise!Begin(c)
      BY <1>2, <1>4, <1>5, <2>1, <2>2, <2>3 DEF Promise!Begin
    <2> QED BY <1>4, <2>4 DEF Promise!Next, Promise!Clients, Served
  <1> QED BY <1>6, <1>7, <1>8

\* An owner that looks, decides or waits for its workers.
LEMMA ThinkingRefines ==
  ASSUME StoreIInv, NEW c \in Callers,
         \/ StartRun(c) \/ ReadIDs(c) \/ JoinWorkers(c) \/ SetIdle(c) \/ CheckStatus(c)
         \/ Cancel(c)
         \/ \E w \in Workers : TakeTask(c, w) \/ RangeDone(c, w) \/ FetchComic(c, w)
  PROVE  [Promise!Next]_(Promise!vars)
  <1> USE DEF StoreIInv, IInv
  <1>1. Step(c)
    BY DEF Step, UpdateStep, DropStep, WorkerStep
  <1>2. UNCHANGED <<db, announced, mu, last>>
    BY DEF StartRun, ReadIDs, JoinWorkers, SetIdle, CheckStatus, Cancel, TakeTask, RangeDone,
           FetchComic, storeVars, lockVars, localVars
  <1>3. existing'[c] = existing[c] \/ last[c] = 0
    BY DEF StartRun, ReadIDs, JoinWorkers, SetIdle, CheckStatus, Cancel, TakeTask, RangeDone,
           FetchComic, localVars, Fresh, Goto, Resolve
  <1>4. UNCHANGED <<TheTarget, ThePlan>>
    BY <1>1, <1>2, <1>3, PlanKept, PlanOfOwner
  <1>5. Shown(c)' = Shown(c)
    <2>1. CASE StartRun(c) \/ ReadIDs(c) \/ JoinWorkers(c) \/ SetIdle(c) \/ CheckStatus(c)
      BY <2>1, PcAfter DEF StartRun, ReadIDs, JoinWorkers, SetIdle, CheckStatus, Resolve, Shown
    <2>2. CASE UNCHANGED <<pc, reply>>
      BY <2>2 DEF Shown
    <2> QED BY <2>1, <2>2 DEF Cancel, TakeTask, RangeDone, FetchComic, callVars
  <1> QED BY <1>1, <1>2, <1>4, <1>5, Invisible

\* The owner asks xkcd.com for the newest comic: that makes its plan.
LEMMA PlanRefines ==
  ASSUME StoreIInv, NEW c \in Callers, ReadLastID(c)
  PROVE  [Promise!Next]_(Promise!vars)
  <1> USE DEF StoreIInv, IInv
  <1>1. Step(c) /\ pc[c] = "lastid" /\ UNCHANGED <<db, announced, mu, existing>>
    BY DEF Step, UpdateStep, ReadLastID, Goto, Resolve, storeVars, lockVars
  <1>2. mu = c /\ last[c] = 0 /\ existing[c] = db /\ c \in Updaters
    BY <1>1 DEF LockOwned, Updating, Fresh, StoreInv, Role, UpdatePcs
  <1>3. Shown(c)' = Shown(c)
    BY <1>1, PcAfter DEF ReadLastID, Resolve, Shown
  <1>4. CASE UNCHANGED last
    BY <1>1, <1>2, <1>3, <1>4, PlanOfOwner, Invisible
  <1>5. CASE last' = [last EXCEPT ![c] = xkcdLast]
    <2>1. TheTarget = 0 /\ TheTarget' = xkcdLast
      BY <1>1, <1>2, <1>5, ConstantsAssumption DEF TheTarget, TypeOK
    <2>2. ThePlan' = (1..xkcdLast) \ db
      BY <1>1, <1>2, <1>5, ConstantsAssumption DEF ThePlan, TypeOK
    <2>3. TheAnswer' = TheAnswer
      BY <1>1, <1>3, OwnAnswer DEF TheAnswer, Shown
    <2>4. Promise!Plan(c)
      BY <1>1, <1>2, <2>1, <2>2, <2>3, WorldUntouched DEF Promise!Plan
    <2> QED BY <1>2, <2>4 DEF Promise!Next, Promise!Clients
  <1> QED BY <1>4, <1>5 DEF ReadLastID

\* A worker of the owner inserts an id of the plan, or fails to.
LEMMA InsertRefines ==
  ASSUME StoreIInv, NEW c \in Callers, NEW w \in Workers, AddComic(c, w)
  PROVE  [Promise!Next]_(Promise!vars)
  <1> USE DEF StoreIInv, IInv
  <1>1. /\ Step(c) /\ wpc[c][w] = "add"
        /\ UNCHANGED <<mu, last, existing, pc, reply, xkcdLast>>
    BY DEF Step, WorkerStep, AddComic, NextTask, SendErr, WorkerGoto, lockVars, localVars,
           callVars, worldVars
  <1>2. pc[c] = "fetch" /\ mu = c /\ c \in Updaters
    BY <1>1 DEF WorkersInFetch, LockOwned, Updating, StoreInv, Role, UpdatePcs
  <1>3. job[c][w] \in Wanted(c) \ (db \cup Skipped)
    BY <1>1, <1>2 DEF Disjoint, Busy
  <1>4. UNCHANGED <<TheTarget, ThePlan>> /\ job[c][w] \in ThePlan
    BY <1>1, <1>2, <1>3, PlanOfOwner, ConstantsAssumption DEF ThePlan, Wanted
  <1>5. TheAnswer' = TheAnswer /\ Shown(c)' = Shown(c)
    BY <1>1 DEF TheAnswer, Shown
  <1>6. CASE Store(db)
    BY <1>1, <1>4, <1>5, <1>6, Invisible DEF Store
  <1>7. CASE Store(db \cup {job[c][w]})
    <2>1. db' = db \cup {job[c][w]} /\ announced' = FALSE
      BY <1>3, <1>7 DEF Store
    <2>2. Promise!Insert(c)
      BY <1>1, <1>2, <1>3, <1>4, <1>5, <2>1 DEF Promise!Insert
    <2> QED BY <1>2, <2>2 DEF Promise!Next, Promise!Clients
  <1> QED BY <1>6, <1>7 DEF AddComic, AddOK, AddErr

\* Drop truncates the table, or fails to.
LEMMA EmptyRefines ==
  ASSUME StoreIInv, NEW c \in Callers, DropTable(c)
  PROVE  [Promise!Next]_(Promise!vars)
  <1> USE DEF StoreIInv, IInv
  <1>1. Step(c) /\ pc[c] = "truncate" /\ UNCHANGED <<mu, last, existing, xkcdLast>>
    BY DEF Step, DropStep, DropTable, Goto, Resolve, lockVars, localVars, worldVars
  <1>2. mu = c /\ c \in Droppers
    BY <1>1 DEF LockOwned, Dropping, StoreInv, Role, DropPcs
  <1>3. UNCHANGED <<TheTarget, ThePlan>>
    BY <1>1, <1>2, PlanOfOwner
  <1>4. Shown(c)' = Shown(c)
    BY <1>1, PcAfter DEF DropTable, Resolve, Shown
  <1>5. TheAnswer' = TheAnswer
    BY <1>1, <1>4, OwnAnswer DEF TheAnswer, Shown
  <1>6. CASE Store(db)
    BY <1>1, <1>3, <1>4, <1>6, Invisible DEF Store
  <1>7. CASE Store({})
    <2>1. Promise!Empty(c)
      BY <1>1, <1>2, <1>3, <1>5, <1>7 DEF Promise!Empty, Store
    <2> QED BY <1>2, <2>1 DEF Promise!Next, Promise!Clients
  <1> QED BY <1>6, <1>7 DEF DropTable, TruncateOK, TruncateErr

\* The owner publishes, or fails to.
LEMMA TellRefines ==
  ASSUME StoreIInv, NEW c \in Callers, PublishUpdated(c) \/ PublishDropped(c)
  PROVE  [Promise!Next]_(Promise!vars)
  <1> USE DEF StoreIInv, IInv
  <1>1. /\ Step(c) /\ pc[c] \in {"publish", "announce"}
        /\ UNCHANGED <<db, mu, last, existing, xkcdLast>>
    BY DEF Step, UpdateStep, DropStep, PublishUpdated, PublishDropped, Goto, Resolve, lockVars,
           localVars, worldVars
  <1>2. mu = c /\ Served(c)
    BY <1>1 DEF LockOwned, Updating, Dropping, StoreInv, Role, UpdatePcs, DropPcs, Served
  <1>3. UNCHANGED <<TheTarget, ThePlan>>
    BY <1>1, <1>2, PlanOfOwner
  <1>4. Shown(c)' = Shown(c)
    BY <1>1, PcAfter DEF PublishUpdated, PublishDropped, Resolve, Shown
  <1>5. TheAnswer' = TheAnswer
    BY <1>1, <1>4, OwnAnswer DEF TheAnswer, Shown
  <1>6. announced' = announced \/ announced' = TRUE
    BY DEF PublishUpdated, PublishDropped, PublishOK, PublishErr
  <1>7. CASE announced' = TRUE
    <2>1. Promise!Tell(c)
      BY <1>1, <1>2, <1>3, <1>5, <1>7 DEF Promise!Tell
    <2> QED BY <1>2, <2>1 DEF Promise!Next, Promise!Clients, Served
  <1>8. CASE announced' = announced
    BY <1>1, <1>3, <1>4, <1>8, Invisible
  <1> QED BY <1>6, <1>7, <1>8

\* The owner gives the table back, with an answer that is deserved.
LEMMA EndRefines ==
  ASSUME StoreIInv, NEW c \in Callers, UnlockUpdate(c) \/ UnlockDrop(c)
  PROVE  [Promise!Next]_(Promise!vars)
  <1> USE DEF StoreIInv, IInv
  <1>1. /\ Step(c) /\ pc[c] \in {"unlock", "dunlock"} /\ mu' = NoCaller
        /\ UNCHANGED <<db, announced, xkcdLast>>
    BY DEF Step, UpdateStep, DropStep, UnlockUpdate, UnlockDrop, Goto, Return, storeVars, worldVars
  <1>2. pc'[c] = "idle" /\ reply'[c] = reply[c]
    BY PcAfter DEF UnlockUpdate, UnlockDrop, Return, TypeOK
  <1>3. mu = c /\ Served(c) /\ NoCaller \notin Callers
    BY <1>1, ConstantsAssumption
    DEF LockOwned, Updating, Dropping, StoreInv, Role, UpdatePcs, DropPcs, Served
  <1>4. TheAnswer' = [TheAnswer EXCEPT ![c] = reply[c]]
    BY <1>1, <1>2, OwnAnswer DEF Shown
  <1>5. TheTarget' = 0 /\ ThePlan' = {}
    BY <1>1 DEF TheTarget, ThePlan
  <1>6. reply[c] \in Promise!Failures \/ reply[c] = "ok"
    BY <1>1 DEF StoreInv, Verdict, Promise!Failures
  <1>7. ASSUME reply[c] = "ok" PROVE Promise!Updated(c) \/ Promise!Dropped(c)
    <2>1. CASE pc[c] = "unlock"
      <3>1. c \in Updaters /\ TheTarget = last[c] /\ ThePlan = Wanted(c)
        BY <1>3, <2>1 DEF StoreInv, Role, UpdatePcs, TheTarget, ThePlan, Wanted
      <3>2. last[c] > 0 /\ (1..last[c]) \ Skipped \subseteq db /\ (Wanted(c) = {} \/ announced)
        <4>1. last[c] > 0 /\ (cap[c] > 0 \/ Wanted(c) = {})
          BY <1>7, <2>1 DEF StoreInv, Verdict
        <4>2. (1..last[c]) \ Skipped \subseteq db /\ (cap[c] > 0 => announced)
          BY <1>7, <2>1 DEF OkMeansDone, Done
        <4> QED BY <4>1, <4>2
      <3> QED BY <3>1, <3>2 DEF Promise!Updated
    <2>2. CASE pc[c] = "dunlock"
      BY <1>7, <2>2 DEF StoreInv, Role, DropPcs, OkMeansDone, Done, Promise!Dropped
    <2> QED BY <1>1, <2>1, <2>2
  <1>8. Promise!End(c)
    BY <1>1, <1>3, <1>4, <1>5, <1>6, <1>7 DEF Promise!End, Promise!Answer
  <1> QED BY <1>3, <1>8 DEF Promise!Next, Promise!Clients, Served

\* xkcd.com publishes, or the process is restarted.
LEMMA SurroundingsRefine ==
  ASSUME StoreIInv, NewComic \/ Crash
  PROVE  [Promise!Next]_(Promise!vars)
  <1> USE DEF StoreIInv, IInv
  <1>1. CASE NewComic
    <2>1. /\ UNCHANGED <<db, announced, mu, last, existing, pc, reply>>
          /\ xkcdLast' = xkcdLast + 1 /\ xkcdLast < MaxId
      BY <1>1 DEF NewComic, storeVars, lockVars, callVars, localVars
    <2>2. xkcdLast' \in (xkcdLast + 1)..MaxId
      BY <2>1, ConstantsAssumption DEF TypeOK, ComicIds
    <2>3. Promise!Publish
      BY <2>1, <2>2 DEF Promise!Publish, TheTarget, ThePlan, TheAnswer
    <2> QED BY <2>3 DEF Promise!Next
  <1>2. CASE Crash
    <2>1. /\ UNCHANGED <<db, announced, xkcdLast>> /\ mu' = NoCaller
          /\ \A c \in Callers :
               /\ pc'[c] = "idle"
               /\ reply'[c] = IF pc[c] = "idle" THEN reply[c] ELSE "unavailable"
      BY <1>2 DEF Crash, storeVars
    <2>2. \A c \in Callers : reply[c] # "pending"
      BY DEF TypeOK, Replies
    <2>3. TheAnswer' = [c \in Updaters \cup Droppers |->
                         IF TheAnswer[c] = "pending" THEN "unavailable" ELSE TheAnswer[c]]
      BY <2>1, <2>2 DEF TheAnswer, Callers
    <2>4. TheTarget' = 0 /\ ThePlan' = {}
      BY <2>1 DEF TheTarget, ThePlan
    <2>5. Promise!Restart
      BY <2>1, <2>3, <2>4 DEF Promise!Restart, Promise!Clients
    <2> QED BY <2>5 DEF Promise!Next
  <1> QED BY <1>1, <1>2

LEMMA StoreStepRefines == StoreIInv /\ [Next]_vars => [Promise!Next]_(Promise!vars)
  <1> SUFFICES ASSUME StoreIInv, [Next]_vars PROVE [Promise!Next]_(Promise!vars)
    OBVIOUS
  <1>1. ASSUME NEW c \in Callers, UpdateStep(c) PROVE [Promise!Next]_(Promise!vars)
    BY <1>1, EntryRefines, ThinkingRefines, PlanRefines, TellRefines, EndRefines DEF UpdateStep
  <1>2. ASSUME NEW c \in Callers, DropStep(c) PROVE [Promise!Next]_(Promise!vars)
    BY <1>2, EntryRefines, ThinkingRefines, EmptyRefines, TellRefines, EndRefines DEF DropStep
  <1>3. ASSUME NEW c \in Callers, NEW w \in Workers, WorkerStep(c, w)
        PROVE  [Promise!Next]_(Promise!vars)
    BY <1>3, ThinkingRefines, InsertRefines DEF WorkerStep
  <1>4. ASSUME NEW c \in Callers, Invoke(c) \/ StatsStep(c) \/ Cancel(c)
        PROVE  [Promise!Next]_(Promise!vars)
    BY <1>4, InvokeRefines, StatsRefines, ThinkingRefines
  <1>5. CASE NewComic \/ Crash
    BY <1>5, SurroundingsRefine
  <1>6. CASE UNCHANGED vars
    BY <1>6 DEF vars, storeVars, worldVars, lockVars, callVars, localVars, Promise!vars,
                TheTarget, ThePlan, TheAnswer
  <1> QED BY <1>1, <1>2, <1>3, <1>4, <1>5, <1>6 DEF Next

LEMMA StoreInitRefines == Init => Promise!Init
  BY DEF Init, Promise!Init, Promise!Comics, Promise!Clients, ComicIds, TheTarget, ThePlan,
         TheAnswer, Callers

\* For any number of clients, workers, comics and crashes, what clients of
\* Update and Drop see is what ComicStore allows: one owner of the table at a
\* time, rows only from its plan, and "ok" only for a job that is done.
THEOREM UpdateServiceImplementsStore == Spec => ImplementsComicStore
  <1>1. Spec => [][Promise!Next]_(Promise!vars)
    BY StoreInvariance, StoreStepRefines, PTL DEF Spec
  <1> QED BY <1>1, StoreInitRefines, PTL DEF Spec, ImplementsComicStore, Promise!Spec
=============================================================================

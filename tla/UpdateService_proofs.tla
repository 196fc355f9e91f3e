------------------------- MODULE UpdateService_proofs -------------------------
(***************************************************************************)
(* Theorems about UpdateService, for every set of clients and workers,     *)
(* every bound and every set of absent comics.                             *)
(***************************************************************************)
EXTENDS UpdateService, FiniteSetTheorems, TLAPS

USE DEF storeVars, worldVars, lockVars, callVars, fetchVars, localVars

\* The number of elements of a set of comic ids is a number.
LEMMA ComicSets ==
  ASSUME NEW S, S \subseteq ComicIds
  PROVE  Cardinality(S) \in Nat
  <1>1. IsFiniteSet(ComicIds)
    BY FS_Interval, ConstantsAssumption DEF ComicIds
  <1>2. IsFiniteSet(S)
    BY <1>1, FS_Subset
  <1> QED
    BY <1>2, FS_CardinalityType

\* What becomes of a table kept by caller and worker when one entry is set.
LEMMA SetEntry ==
  ASSUME NEW S, NEW f \in [Callers -> [Workers -> S]],
         NEW c \in Callers, NEW w \in Workers, NEW v \in S
  PROVE  /\ [f EXCEPT ![c][w] = v] \in [Callers -> [Workers -> S]]
         /\ \A d \in Callers : \A x \in Workers :
              [f EXCEPT ![c][w] = v][d][x] = IF d = c /\ x = w THEN v ELSE f[d][x]
  OBVIOUS

-----------------------------------------------------------------------------
(***************************************************************************)
(* Types                                                                   *)
(***************************************************************************)
LEMMA TypeInit == Init => TypeOK
  <1> SUFFICES ASSUME Init PROVE TypeOK
    OBVIOUS
  <1>1. xkcdLast \in Nat /\ 1..xkcdLast \subseteq ComicIds
    BY ConstantsAssumption DEF Init, ComicIds
  <1> QED
    BY <1>1, ConstantsAssumption DEF Init, TypeOK, NewStatus, ComicIds, Replies

LEMMA TypeNext == TypeOK /\ [Next]_vars => TypeOK'
  <1> SUFFICES ASSUME TypeOK, [Next]_vars PROVE TypeOK'
    OBVIOUS
  <1> USE DEF TypeOK, UpdatePcs, DropPcs, StatsPcs, Replies, Goto, Resolve, Return
  <1>1. ASSUME NEW c \in Callers, Invoke(c) PROVE TypeOK'
    <2>1. CASE InvokeUpdate(c) BY <2>1, <1>1, ConstantsAssumption DEF InvokeUpdate
    <2>2. CASE InvokeDrop(c) BY <2>2, <1>1, ConstantsAssumption DEF InvokeDrop
    <2>3. CASE InvokeStats(c) BY <2>3, <1>1, ConstantsAssumption DEF InvokeStats
    <2>4. CASE AskStatus(c) BY <2>4, <1>1, ConstantsAssumption DEF AskStatus
    <2> QED BY <1>1, <2>1, <2>2, <2>3, <2>4 DEF Invoke
  <1>2. ASSUME NEW c \in Callers, UpdateStep(c) PROVE TypeOK'
    <2>1. CASE MarkRunning(c) BY <2>1, <1>2 DEF MarkRunning
    <2>2. CASE TryLockOK(c) BY <2>2, <1>2 DEF TryLockOK
    <2>3. CASE TryLockFail(c) BY <2>3, <1>2 DEF TryLockFail
    <2>4. CASE TryLockFailEarly(c) BY <2>4, <1>2 DEF TryLockFailEarly
    <2>5. CASE MarkRunningLate(c) BY <2>5, <1>2 DEF MarkRunningLate
    <2>6. CASE StartRun(c) BY <2>6, <1>2 DEF StartRun
    <2>7. CASE ReadIDs(c) BY <2>7, <1>2 DEF ReadIDs
    <2>8. CASE ReadLastID(c)
      <3> DEFINE missing == (1..xkcdLast) \ existing[c]
      <3>1. missing \subseteq ComicIds /\ Cardinality(missing) \in Nat
        BY ConstantsAssumption, ComicSets DEF ComicIds
      <3>2. xkcdLast \in ComicIds
        OBVIOUS
      <3> HIDE DEF missing
      <3>3. UNCHANGED <<fetchVars, last>> \/ (last' = [last EXCEPT ![c] = xkcdLast] /\ UNCHANGED fetchVars)
              \/ (last' = [last EXCEPT ![c] = xkcdLast] /\ Spawn(c, missing))
        BY <2>8 DEF ReadLastID, missing
      <3>4. last' \in [Callers -> ComicIds \cup {0}]
        BY <3>2, <3>3 DEF Spawn
      <3>5. tasks' \in [Callers -> SUBSET ComicIds] /\ cap' \in [Callers -> Nat]
        BY <3>1, <3>3 DEF Spawn
      <3>6. /\ wpc' \in [Callers -> [Workers -> {"exit", "range", "fetch", "add"}]]
            /\ \A d \in Callers : \A x \in Workers :
                 wpc'[d][x] \in {"fetch", "add"} => wpc'[d][x] = wpc[d][x]
            /\ UNCHANGED <<errs, job>>
        <4> DEFINE spawned == [w \in Workers |-> "range"]
        <4>1. wpc \in [Callers -> [Workers -> {"exit", "range", "fetch", "add"}]]
          OBVIOUS
        <4>2. (UNCHANGED wpc \/ wpc' = [wpc EXCEPT ![c] = spawned]) /\ UNCHANGED <<errs, job>>
          BY <3>3 DEF Spawn
        <4>3. /\ spawned \in [Workers -> {"exit", "range", "fetch", "add"}]
              /\ \A x \in Workers : spawned[x] = "range"
          OBVIOUS
        <4> HIDE DEF TypeOK, spawned
        <4> QED BY <4>1, <4>2, <4>3
      <3>7. pc' \in [Callers -> UpdatePcs \cup DropPcs \cup StatsPcs \cup {"idle"}]
        BY <2>8 DEF ReadLastID
      <3>8. reply' \in [Callers -> Replies] /\ canceled' \in [Callers -> BOOLEAN]
        BY <2>8 DEF ReadLastID
      <3> QED BY <2>8, <3>4, <3>5, <3>6, <3>7, <3>8 DEF ReadLastID
    <2>9. CASE JoinWorkers(c) BY <2>9, <1>2 DEF JoinWorkers
    <2>10. CASE PublishUpdated(c) BY <2>10, <1>2 DEF PublishUpdated, PublishOK, PublishErr
    <2>11. CASE SetIdle(c) BY <2>11, <1>2 DEF SetIdle
    <2>12. CASE UnlockUpdate(c) BY <2>12, <1>2, ConstantsAssumption DEF UnlockUpdate
    <2> QED
      BY <1>2, <2>1, <2>2, <2>3, <2>4, <2>5, <2>6, <2>7, <2>8, <2>9, <2>10, <2>11, <2>12
      DEF UpdateStep
  <1>3. ASSUME NEW c \in Callers, NEW w \in Workers, WorkerStep(c, w) PROVE TypeOK'
    <2> DEFINE WorkerPcs == {"exit", "range", "fetch", "add"}
               JobIds == ComicIds \cup {0}
               Holds(wp, jb) == \A d \in Callers : \A x \in Workers :
                                 wp[d][x] \in {"fetch", "add"} => jb[d][x] \in ComicIds
    <2>1. /\ wpc \in [Callers -> [Workers -> WorkerPcs]]
          /\ job \in [Callers -> [Workers -> JobIds]]
          /\ Holds(wpc, job)
          /\ errs \in [Callers -> Nat]
          /\ tasks \in [Callers -> SUBSET ComicIds]
          /\ db \in SUBSET ComicIds /\ announced \in BOOLEAN
      OBVIOUS
    <2> HIDE DEF TypeOK
    <2>2. ASSUME NEW from, NEW to \in WorkerPcs, WorkerGoto(c, w, from, to),
                 NEW id \in JobIds, job' = [job EXCEPT ![c][w] = id],
                 to \in {"fetch", "add"} => id \in ComicIds
          PROVE  /\ wpc' \in [Callers -> [Workers -> WorkerPcs]]
                 /\ job' \in [Callers -> [Workers -> JobIds]]
                 /\ Holds(wpc', job')
      <3>1. /\ wpc' \in [Callers -> [Workers -> WorkerPcs]]
            /\ \A d \in Callers : \A x \in Workers :
                 wpc'[d][x] = IF d = c /\ x = w THEN to ELSE wpc[d][x]
        BY <2>1, <2>2, SetEntry DEF WorkerGoto
      <3>2. /\ job' \in [Callers -> [Workers -> JobIds]]
            /\ \A d \in Callers : \A x \in Workers :
                 job'[d][x] = IF d = c /\ x = w THEN id ELSE job[d][x]
        BY <2>1, <2>2, SetEntry
      <3> QED BY <2>1, <2>2, <3>1, <3>2
    <2>3. ASSUME NEW from, NEW to \in {"exit", "add"}, WorkerGoto(c, w, from, to),
                 UNCHANGED job, to = "add" => job[c][w] \in ComicIds
          PROVE  wpc' \in [Callers -> [Workers -> WorkerPcs]] /\ Holds(wpc', job')
      <3>1. /\ wpc' \in [Callers -> [Workers -> WorkerPcs]]
            /\ \A d \in Callers : \A x \in Workers :
                 wpc'[d][x] = IF d = c /\ x = w THEN to ELSE wpc[d][x]
        BY <2>1, <2>3, SetEntry DEF WorkerGoto
      <3> QED BY <2>1, <2>3, <3>1
    <2>4. ASSUME NEW from, SendErr(c, w, from) \/ NextTask(c, w, from)
          PROVE  /\ wpc' \in [Callers -> [Workers -> WorkerPcs]]
                 /\ job' \in [Callers -> [Workers -> JobIds]]
                 /\ Holds(wpc', job')
                 /\ errs' \in [Callers -> Nat]
      <3>1. WorkerGoto(c, w, from, "range") /\ job' = [job EXCEPT ![c][w] = 0]
        BY <2>4 DEF SendErr, NextTask
      <3>2. errs' = [errs EXCEPT ![c] = @ + 1] \/ UNCHANGED errs
        BY <2>4 DEF SendErr, NextTask
      <3>3. errs' \in [Callers -> Nat]
        BY <2>1, <3>2
      <3> HIDE DEF Holds
      <3> QED BY <2>2, <3>1, <3>3
    <2> HIDE DEF Holds
    <2>5. CASE TakeTask(c, w)
      <3>1. PICK id \in tasks[c] :
              /\ tasks' = [tasks EXCEPT ![c] = @ \ {id}]
              /\ \/ WorkerGoto(c, w, "range", "exit") /\ UNCHANGED job
                 \/ WorkerGoto(c, w, "range", "fetch") /\ job' = [job EXCEPT ![c][w] = id]
        BY <2>5 DEF TakeTask
      <3>2. id \in ComicIds
        BY <2>1
      <3>3. tasks' \in [Callers -> SUBSET ComicIds]
        BY <2>1, <3>1
      <3>4. /\ wpc' \in [Callers -> [Workers -> WorkerPcs]]
            /\ job' \in [Callers -> [Workers -> JobIds]]
            /\ Holds(wpc', job')
        <4>1. CASE WorkerGoto(c, w, "range", "exit") /\ UNCHANGED job
          <5>1. job' \in [Callers -> [Workers -> JobIds]]
            BY <2>1, <4>1
          <5> QED BY <2>3, <4>1, <5>1
        <4>2. CASE WorkerGoto(c, w, "range", "fetch") /\ job' = [job EXCEPT ![c][w] = id]
          BY <2>2, <3>2, <4>2
        <4> QED BY <3>1, <4>1, <4>2
      <3> QED BY <2>5, <3>3, <3>4 DEF TakeTask, Holds, TypeOK
    <2>6. CASE RangeDone(c, w)
      <3>1. wpc' \in [Callers -> [Workers -> WorkerPcs]] /\ Holds(wpc', job')
        BY <2>3, <2>6 DEF RangeDone
      <3> QED BY <2>6, <3>1 DEF RangeDone, Holds, TypeOK
    <2>7. CASE FetchComic(c, w)
      <3>1. CASE WorkerGoto(c, w, "fetch", "add") /\ UNCHANGED <<errs, job>>
        <4>1. job[c][w] \in ComicIds
          BY <2>1, <3>1 DEF WorkerGoto, Holds
        <4>2. wpc' \in [Callers -> [Workers -> WorkerPcs]] /\ Holds(wpc', job')
          BY <2>3, <3>1, <4>1
        <4> QED BY <2>7, <3>1, <4>2 DEF FetchComic, Holds, TypeOK
      <3>2. CASE SendErr(c, w, "fetch") \/ NextTask(c, w, "fetch")
        BY <2>4, <2>7, <3>2 DEF FetchComic, Holds, TypeOK
      <3> QED BY <2>7, <3>1, <3>2 DEF FetchComic
    <2>8. CASE AddComic(c, w)
      <3>1. SendErr(c, w, "add") \/ NextTask(c, w, "add")
        BY <2>8 DEF AddComic
      <3>2. job[c][w] \in ComicIds
        BY <2>1, <3>1 DEF SendErr, NextTask, WorkerGoto, Holds
      <3>3. db' = db \/ db' = db \cup {job[c][w]}
        BY <2>8 DEF AddComic, AddOK, AddErr, Store
      <3>4. db' \in SUBSET ComicIds /\ announced' \in BOOLEAN
        BY <2>1, <2>8, <3>2, <3>3 DEF AddComic, AddOK, AddErr, Store
      <3> QED BY <2>4, <2>8, <3>1, <3>4 DEF AddComic, Holds, TypeOK
    <2> QED BY <1>3, <2>5, <2>6, <2>7, <2>8 DEF WorkerStep
  <1>4. ASSUME NEW c \in Callers, DropStep(c) PROVE TypeOK'
    <2>1. CASE DropLock(c) BY <2>1, <1>4 DEF DropLock
    <2>2. CASE CheckStatus(c) BY <2>2, <1>4 DEF CheckStatus
    <2>3. CASE DropTable(c) BY <2>3, <1>4 DEF DropTable, TruncateOK, TruncateErr, Store
    <2>4. CASE PublishDropped(c) BY <2>4, <1>4 DEF PublishDropped, PublishOK, PublishErr
    <2>5. CASE UnlockDrop(c) BY <2>5, <1>4 DEF UnlockDrop
    <2> QED BY <1>4, <2>1, <2>2, <2>3, <2>4, <2>5 DEF DropStep
  <1>5. ASSUME NEW c \in Callers, StatsStep(c) PROVE TypeOK'
    <2>1. CASE StatsDB(c)
      <3>1. Cardinality(db) \in Nat
        BY ComicSets
      <3>2. got' \in [Callers -> Nat]
        BY <2>1, <3>1 DEF StatsDB
      <3>3. pc' \in [Callers -> UpdatePcs \cup DropPcs \cup StatsPcs \cup {"idle"}]
        BY <2>1 DEF StatsDB
      <3>4. reply' \in [Callers -> Replies] /\ canceled' \in [Callers -> BOOLEAN]
        BY <2>1 DEF StatsDB
      <3> QED BY <2>1, <3>2, <3>3, <3>4 DEF StatsDB
    <2>2. CASE StatsLastID(c)
      <3>1. xkcdLast \in ComicIds
        OBVIOUS
      <3>2. last' \in [Callers -> ComicIds \cup {0}]
        BY <2>2, <3>1 DEF StatsLastID
      <3>3. pc' \in [Callers -> UpdatePcs \cup DropPcs \cup StatsPcs \cup {"idle"}]
        BY <2>2 DEF StatsLastID
      <3>4. reply' \in [Callers -> Replies] /\ canceled' \in [Callers -> BOOLEAN]
        BY <2>2 DEF StatsLastID
      <3> QED BY <2>2, <3>2, <3>3, <3>4 DEF StatsLastID
    <2> QED BY <1>5, <2>1, <2>2 DEF StatsStep
  <1>6. ASSUME NEW c \in Callers, Cancel(c) PROVE TypeOK'
    BY <1>6 DEF Cancel
  <1>7. CASE NewComic
    BY <1>7, ConstantsAssumption DEF NewComic, ComicIds
  <1>8. CASE Crash
    BY <1>8, ConstantsAssumption DEF Crash, NewStatus
  <1>9. CASE UNCHANGED vars
    BY <1>9 DEF vars
  <1> QED
    BY <1>1, <1>2, <1>3, <1>4, <1>5, <1>6, <1>7, <1>8, <1>9 DEF Next

\* Every variable has its type in every reachable state.
THEOREM TypeCorrect == Spec => []TypeOK
  <1> QED
    BY TypeInit, TypeNext, PTL DEF Spec

-----------------------------------------------------------------------------
(***************************************************************************)
(* The mutex                                                               *)
(***************************************************************************)
\* Where the calls stand after one of them has moved.
LEMMA PcAfter ==
  ASSUME TypeOK, NEW c \in Callers, NEW from, NEW to, Goto(c, from, to)
  PROVE  pc[c] = from /\ \A d \in Callers : pc'[d] = IF d = c THEN to ELSE pc[d]
  BY DEF TypeOK, Goto

LEMMA LockOwnedNext == TypeOK /\ LockOwned /\ [Next]_vars => LockOwned'
  <1> SUFFICES ASSUME TypeOK, LockOwned, [Next]_vars PROVE LockOwned'
    OBVIOUS
  <1> USE DEF LockOwned, Updating, Dropping, Resolve, Return
  <1>0. NoCaller \notin Callers
    BY ConstantsAssumption
  <1>1. ASSUME NEW c \in Callers, Invoke(c) PROVE LockOwned'
    BY <1>0, <1>1, PcAfter DEF Invoke, InvokeUpdate, InvokeDrop, InvokeStats, AskStatus
  <1>2. ASSUME NEW c \in Callers, UpdateStep(c) PROVE LockOwned'
    <2>1. CASE TryLockOK(c) BY <1>0, <2>1, PcAfter DEF TryLockOK
    <2>2. CASE UnlockUpdate(c) BY <1>0, <2>2, PcAfter DEF UnlockUpdate
    <2>3. CASE \/ MarkRunning(c) \/ TryLockFail(c) \/ TryLockFailEarly(c) \/ MarkRunningLate(c)
      BY <2>3, PcAfter DEF MarkRunning, TryLockFail, TryLockFailEarly, MarkRunningLate
    <2>4. CASE StartRun(c) \/ ReadIDs(c) \/ JoinWorkers(c)
      BY <2>4, PcAfter DEF StartRun, ReadIDs, JoinWorkers
    <2>5. CASE ReadLastID(c) \/ PublishUpdated(c) \/ SetIdle(c)
      BY <2>5, PcAfter DEF ReadLastID, PublishUpdated, SetIdle
    <2> QED BY <1>2, <2>1, <2>2, <2>3, <2>4, <2>5 DEF UpdateStep
  <1>3. ASSUME NEW c \in Callers, NEW w \in Workers, WorkerStep(c, w) PROVE LockOwned'
    BY <1>3 DEF WorkerStep, TakeTask, RangeDone, FetchComic, AddComic
  <1>4. ASSUME NEW c \in Callers, DropStep(c) PROVE LockOwned'
    <2>1. CASE DropLock(c) BY <1>0, <2>1, PcAfter DEF DropLock
    <2>2. CASE UnlockDrop(c) BY <1>0, <2>2, PcAfter DEF UnlockDrop
    <2>3. CASE CheckStatus(c) \/ DropTable(c) \/ PublishDropped(c)
      BY <2>3, PcAfter DEF CheckStatus, DropTable, PublishDropped
    <2> QED BY <1>4, <2>1, <2>2, <2>3 DEF DropStep
  <1>5. ASSUME NEW c \in Callers, StatsStep(c) PROVE LockOwned'
    BY <1>5, PcAfter DEF StatsStep, StatsDB, StatsLastID
  <1>6. ASSUME NEW c \in Callers, Cancel(c) PROVE LockOwned'
    BY <1>6 DEF Cancel
  <1>7. CASE NewComic BY <1>7 DEF NewComic
  <1>8. CASE Crash BY <1>0, <1>8 DEF Crash
  <1>9. CASE UNCHANGED vars BY <1>9 DEF vars
  <1> QED
    BY <1>1, <1>2, <1>3, <1>4, <1>5, <1>6, <1>7, <1>8, <1>9 DEF Next

-----------------------------------------------------------------------------
(***************************************************************************)
(* Workers live within the fetch of the Update that spawned them.          *)
(***************************************************************************)
LEMMA WorkersInFetchNext ==
  TypeOK /\ WorkersInFetch /\ [Next]_vars => WorkersInFetch'
  <1> SUFFICES ASSUME TypeOK, WorkersInFetch, [Next]_vars PROVE WorkersInFetch'
    OBVIOUS
  <1> USE DEF WorkersInFetch, Resolve, Return
  <1>1. ASSUME NEW c \in Callers, Invoke(c) PROVE WorkersInFetch'
    BY <1>1, PcAfter DEF Invoke, InvokeUpdate, InvokeDrop, InvokeStats, AskStatus
  <1>2. ASSUME NEW c \in Callers, UpdateStep(c) PROVE WorkersInFetch'
    <2>1. CASE \/ MarkRunning(c) \/ TryLockOK(c) \/ TryLockFail(c)
               \/ TryLockFailEarly(c) \/ MarkRunningLate(c)
      BY <2>1, PcAfter
      DEF MarkRunning, TryLockOK, TryLockFail, TryLockFailEarly, MarkRunningLate
    <2>2. CASE StartRun(c) \/ ReadIDs(c) \/ PublishUpdated(c) \/ SetIdle(c) \/ UnlockUpdate(c)
      BY <2>2, PcAfter DEF StartRun, ReadIDs, PublishUpdated, SetIdle, UnlockUpdate
    <2>3. CASE ReadLastID(c)
      <3>1. CASE UNCHANGED wpc
        BY <2>3, <3>1, PcAfter DEF ReadLastID
      <3>2. CASE wpc' = [wpc EXCEPT ![c] = [w \in Workers |-> "range"]] /\ Goto(c, "lastid", "fetch")
        BY <3>2, PcAfter DEF TypeOK
      <3> QED BY <2>3, <3>1, <3>2 DEF ReadLastID, Spawn
    <2>4. CASE JoinWorkers(c) BY <2>4, PcAfter DEF JoinWorkers
    <2> QED BY <1>2, <2>1, <2>2, <2>3, <2>4 DEF UpdateStep
  <1>3. ASSUME NEW c \in Callers, NEW w \in Workers, WorkerStep(c, w) PROVE WorkersInFetch'
    <2>1. wpc[c][w] # "exit" /\ UNCHANGED pc
      BY <1>3 DEF WorkerStep, TakeTask, RangeDone, FetchComic, AddComic, SendErr, NextTask,
                  WorkerGoto, callVars
    <2>2. \A d \in Callers : \A x \in Workers : wpc'[d][x] # "exit" => wpc[d][x] # "exit"
      <3>1. PICK from, to : WorkerGoto(c, w, from, to)
        BY <1>3 DEF WorkerStep, TakeTask, RangeDone, FetchComic, AddComic, SendErr, NextTask
      <3> QED BY <2>1, <3>1 DEF WorkerGoto, TypeOK
    <2> QED BY <2>1, <2>2
  <1>4. ASSUME NEW c \in Callers, DropStep(c) PROVE WorkersInFetch'
    BY <1>4, PcAfter
    DEF DropStep, DropLock, CheckStatus, DropTable, PublishDropped, UnlockDrop
  <1>5. ASSUME NEW c \in Callers, StatsStep(c) PROVE WorkersInFetch'
    BY <1>5, PcAfter DEF StatsStep, StatsDB, StatsLastID
  <1>6. ASSUME NEW c \in Callers, Cancel(c) PROVE WorkersInFetch'
    BY <1>6 DEF Cancel
  <1>7. CASE NewComic BY <1>7 DEF NewComic
  <1>8. CASE Crash BY <1>8 DEF Crash
  <1>9. CASE UNCHANGED vars BY <1>9 DEF vars
  <1> QED
    BY <1>1, <1>2, <1>3, <1>4, <1>5, <1>6, <1>7, <1>8, <1>9 DEF Next

-----------------------------------------------------------------------------
(***************************************************************************)
(* Status says "running" while an Update works.                            *)
(***************************************************************************)
LEMMA RunningNext ==
  TypeOK /\ LockOwned /\ RunningWhileUpdating /\ [Next]_vars => RunningWhileUpdating'
  <1> SUFFICES ASSUME TypeOK, LockOwned, RunningWhileUpdating, [Next]_vars
               PROVE  RunningWhileUpdating'
    OBVIOUS
  <1> USE DEF RunningWhileUpdating, Resolve, Return
  <1>1. ASSUME NEW c \in Callers, Invoke(c) PROVE RunningWhileUpdating'
    BY <1>1, PcAfter DEF Invoke, InvokeUpdate, InvokeDrop, InvokeStats, AskStatus
  <1>2. ASSUME NEW c \in Callers, UpdateStep(c) PROVE RunningWhileUpdating'
    <2>1. CASE \/ MarkRunning(c) \/ TryLockOK(c) \/ TryLockFail(c)
               \/ TryLockFailEarly(c) \/ MarkRunningLate(c)
      BY <2>1, PcAfter
      DEF MarkRunning, TryLockOK, TryLockFail, TryLockFailEarly, MarkRunningLate
    <2>2. CASE StartRun(c) \/ ReadIDs(c) \/ PublishUpdated(c) \/ UnlockUpdate(c)
      BY <2>2, PcAfter DEF StartRun, ReadIDs, PublishUpdated, UnlockUpdate
    <2>3. CASE ReadLastID(c) \/ JoinWorkers(c)
      BY <2>3, PcAfter DEF ReadLastID, JoinWorkers
    <2>4. CASE SetIdle(c)
      <3>1. \A d \in Callers : d # c => ~Updating(d)
        BY <2>4 DEF SetIdle, Goto, LockOwned, Updating
      <3> QED BY <2>4, <3>1, PcAfter DEF SetIdle, Updating
    <2> QED BY <1>2, <2>1, <2>2, <2>3, <2>4 DEF UpdateStep
  <1>3. ASSUME NEW c \in Callers, NEW w \in Workers, WorkerStep(c, w) PROVE RunningWhileUpdating'
    BY <1>3 DEF WorkerStep, TakeTask, RangeDone, FetchComic, AddComic
  <1>4. ASSUME NEW c \in Callers, DropStep(c) PROVE RunningWhileUpdating'
    BY <1>4, PcAfter
    DEF DropStep, DropLock, CheckStatus, DropTable, PublishDropped, UnlockDrop
  <1>5. ASSUME NEW c \in Callers, StatsStep(c) PROVE RunningWhileUpdating'
    BY <1>5, PcAfter DEF StatsStep, StatsDB, StatsLastID
  <1>6. ASSUME NEW c \in Callers, Cancel(c) PROVE RunningWhileUpdating'
    BY <1>6 DEF Cancel
  <1>7. CASE NewComic BY <1>7 DEF NewComic
  <1>8. CASE Crash BY <1>8 DEF Crash
  <1>9. CASE UNCHANGED vars BY <1>9 DEF vars
  <1> QED
    BY <1>1, <1>2, <1>3, <1>4, <1>5, <1>6, <1>7, <1>8, <1>9 DEF Next

-----------------------------------------------------------------------------
(***************************************************************************)
(* What a step of one call leaves alone: the locals of every other call,   *)
(* and the table, unless the call owns it.                                 *)
(***************************************************************************)
Step(c) ==
  \/ Invoke(c) \/ Cancel(c) \/ UpdateStep(c) \/ DropStep(c) \/ StatsStep(c)
  \/ \E w \in Workers : WorkerStep(c, w)

Untouched(d) ==
  /\ pc'[d] = pc[d] /\ reply'[d] = reply[d] /\ canceled'[d] = canceled[d]
  /\ existing'[d] = existing[d] /\ last'[d] = last[d] /\ tasks'[d] = tasks[d]
  /\ cap'[d] = cap[d] /\ errs'[d] = errs[d] /\ wpc'[d] = wpc[d] /\ job'[d] = job[d]

LEMMA OthersUntouched ==
  ASSUME TypeOK, NEW c \in Callers, Step(c), NEW d \in Callers \ {c}
  PROVE  Untouched(d)
  <1> USE DEF Untouched, Goto, Resolve, Return, TypeOK
  <1>1. CASE Invoke(c)
    BY <1>1 DEF Invoke, InvokeUpdate, InvokeDrop, InvokeStats, AskStatus
  <1>2. CASE Cancel(c)
    BY <1>2 DEF Cancel
  <1>3. CASE UpdateStep(c)
    <2>1. CASE \/ MarkRunning(c) \/ TryLockOK(c) \/ TryLockFail(c)
               \/ TryLockFailEarly(c) \/ MarkRunningLate(c)
      BY <2>1 DEF MarkRunning, TryLockOK, TryLockFail, TryLockFailEarly, MarkRunningLate
    <2>2. CASE StartRun(c) \/ ReadIDs(c) \/ PublishUpdated(c) \/ SetIdle(c)
      BY <2>2 DEF StartRun, ReadIDs, PublishUpdated, SetIdle
    <2>3. CASE ReadLastID(c)
      BY <2>3 DEF ReadLastID, Spawn
    <2>4. CASE JoinWorkers(c)
      BY <2>4 DEF JoinWorkers
    <2>5. CASE UnlockUpdate(c)
      BY <2>5 DEF UnlockUpdate
    <2> QED BY <1>3, <2>1, <2>2, <2>3, <2>4, <2>5 DEF UpdateStep
  <1>4. CASE DropStep(c)
    BY <1>4 DEF DropStep, DropLock, CheckStatus, DropTable, PublishDropped, UnlockDrop
  <1>5. CASE StatsStep(c)
    BY <1>5 DEF StatsStep, StatsDB, StatsLastID
  <1>6. ASSUME NEW w \in Workers, WorkerStep(c, w) PROVE Untouched(d)
    <2> USE DEF WorkerGoto, SendErr, NextTask
    <2>1. CASE TakeTask(c, w) BY <2>1 DEF TakeTask
    <2>2. CASE RangeDone(c, w) BY <2>2 DEF RangeDone
    <2>3. CASE FetchComic(c, w) BY <2>3 DEF FetchComic
    <2>4. CASE AddComic(c, w) BY <2>4 DEF AddComic
    <2> QED BY <1>6, <2>1, <2>2, <2>3, <2>4 DEF WorkerStep
  <1> QED
    BY <1>1, <1>2, <1>3, <1>4, <1>5, <1>6 DEF Step

LEMMA StoreNeedsLock ==
  ASSUME TypeOK, LockOwned, WorkersInFetch, NEW c \in Callers, Step(c), mu # c
  PROVE  UNCHANGED <<db, announced>>
  <1>1. ~Updating(c) /\ ~Dropping(c)
    BY DEF LockOwned
  <1>2. \A w \in Workers : wpc[c][w] = "exit"
    BY <1>1 DEF WorkersInFetch, Updating
  <1> USE DEF Goto, Resolve, Return
  <1>3. CASE Invoke(c) \/ Cancel(c) \/ StatsStep(c)
    BY <1>3 DEF Invoke, InvokeUpdate, InvokeDrop, InvokeStats, AskStatus, Cancel,
                StatsStep, StatsDB, StatsLastID
  <1>4. CASE UpdateStep(c)
    <2>1. CASE PublishUpdated(c)
      BY <1>1, <2>1 DEF PublishUpdated, Updating
    <2> QED
      BY <1>4, <2>1 DEF UpdateStep, MarkRunning, TryLockOK, TryLockFail, TryLockFailEarly,
        MarkRunningLate, StartRun, ReadIDs, ReadLastID, JoinWorkers, SetIdle, UnlockUpdate
  <1>5. CASE DropStep(c)
    BY <1>1, <1>5
    DEF DropStep, DropLock, CheckStatus, DropTable, PublishDropped, UnlockDrop, Dropping
  <1>6. ASSUME NEW w \in Workers, WorkerStep(c, w) PROVE FALSE
    BY <1>2, <1>6 DEF WorkerStep, TakeTask, RangeDone, FetchComic, AddComic, SendErr,
                      NextTask, WorkerGoto
  <1> QED
    BY <1>3, <1>4, <1>5, <1>6 DEF Step

-----------------------------------------------------------------------------
(***************************************************************************)
(* The data of an Update                                                   *)
(***************************************************************************)
Data(c) == Fresh(c) /\ Disjoint(c) /\ Accounted(c) /\ Done(c)

LEMMA OthersKeepData ==
  ASSUME TypeOK, LockOwned, WorkersInFetch, NEW c \in Callers, Step(c),
         NEW d \in Callers \ {c}, Data(d)
  PROVE  Data(d)'
  <1>1. Untouched(d)
    BY OthersUntouched
  <1>2. CASE Updating(d) \/ Dropping(d)
    <2>1. mu # c
      BY <1>2 DEF LockOwned
    <2>2. UNCHANGED <<db, announced>>
      BY <2>1, StoreNeedsLock
    <2>3. Fresh(d)' /\ Done(d)'
      BY <1>1, <2>2 DEF Data, Fresh, Done, Untouched
    <2>4. Disjoint(d)'
      BY <1>1, <2>2 DEF Data, Disjoint, Wanted, Busy, Untouched
    <2>5. Accounted(d)'
      BY <1>1, <2>2 DEF Data, Accounted, InHand, Busy, Untouched
    <2> QED BY <2>3, <2>4, <2>5 DEF Data
  <1>3. CASE ~Updating(d) /\ ~Dropping(d)
    BY <1>1, <1>3
    DEF Data, Fresh, Disjoint, Accounted, Done, Untouched, Updating, Dropping
  <1> QED BY <1>2, <1>3

\* The steps of a call that holds no lock and stays without one, and those
\* that take it or give it back.
LEMMA OutsideKeepsData ==
  ASSUME TypeOK, NEW c \in Callers, Data(c),
         \/ Invoke(c) \/ StatsStep(c)
         \/ MarkRunning(c) \/ TryLockOK(c) \/ TryLockFail(c)
         \/ TryLockFailEarly(c) \/ MarkRunningLate(c) \/ StartRun(c)
         \/ UnlockUpdate(c) \/ DropLock(c) \/ UnlockDrop(c)
  PROVE  Data(c)'
  <1> USE DEF Data, Fresh, Disjoint, Accounted, Done, Resolve, Return
  <1>1. CASE Invoke(c)
    BY <1>1, PcAfter DEF Invoke, InvokeUpdate, InvokeDrop, InvokeStats, AskStatus, TypeOK
  <1>2. CASE StatsStep(c)
    BY <1>2, PcAfter DEF StatsStep, StatsDB, StatsLastID
  <1>3. CASE \/ MarkRunning(c) \/ TryLockOK(c) \/ TryLockFail(c)
             \/ TryLockFailEarly(c) \/ MarkRunningLate(c) \/ StartRun(c)
    BY <1>3, PcAfter
    DEF MarkRunning, TryLockOK, TryLockFail, TryLockFailEarly, MarkRunningLate, StartRun
  <1>4. CASE UnlockUpdate(c)
    BY <1>4, PcAfter DEF UnlockUpdate, TypeOK
  <1>5. CASE DropLock(c) \/ UnlockDrop(c)
    BY <1>5, PcAfter DEF DropLock, UnlockDrop
  <1> QED
    BY <1>1, <1>2, <1>3, <1>4, <1>5

LEMMA DropKeepsData ==
  ASSUME TypeOK, NEW c \in Callers, Data(c),
         CheckStatus(c) \/ DropTable(c) \/ PublishDropped(c)
  PROVE  Data(c)'
  <1> USE DEF Data, Fresh, Disjoint, Accounted, Done, Resolve
  <1>1. CASE CheckStatus(c)
    BY <1>1, PcAfter DEF CheckStatus, TypeOK
  <1>2. CASE DropTable(c)
    <2>1. CASE TruncateOK(c) /\ Goto(c, "truncate", "announce")
      BY <1>2, <2>1, PcAfter DEF DropTable, TruncateOK, Store
    <2>2. CASE Resolve(c, "truncate", "dunlock", "error")
      <3>1. pc[c] = "truncate" /\ pc'[c] = "dunlock" /\ reply'[c] = "error"
        BY <2>2, PcAfter DEF TypeOK
      <3> QED BY <1>2, <3>1 DEF DropTable
    <2> QED BY <1>2, <2>1, <2>2 DEF DropTable
  <1>3. CASE PublishDropped(c)
    BY <1>3, PcAfter DEF PublishDropped, PublishOK, TypeOK
  <1> QED
    BY <1>1, <1>2, <1>3

LEMMA UpdateKeepsData ==
  ASSUME TypeOK, NEW c \in Callers, Data(c),
         ReadIDs(c) \/ ReadLastID(c) \/ JoinWorkers(c) \/ PublishUpdated(c) \/ SetIdle(c)
  PROVE  Data(c)'
  <1>1. CASE ReadIDs(c)
    BY <1>1, PcAfter DEF ReadIDs, Resolve, Data, Fresh, Disjoint, Accounted, Done, TypeOK
  <1>2. CASE ReadLastID(c)
    <2> DEFINE missing == (1..xkcdLast) \ existing[c]
    <2>1. existing[c] = db /\ cap[c] = 0 /\ errs[c] = 0 /\ pc[c] = "lastid"
      BY <1>2, PcAfter DEF ReadLastID, Resolve, Data, Fresh
    <2>2. CASE Resolve(c, "lastid", "setidle", "error")
      BY <1>2, <2>2, PcAfter
      DEF Resolve, Data, Fresh, Disjoint, Accounted, Done, TypeOK
    <2>3. CASE /\ last' = [last EXCEPT ![c] = xkcdLast]
               /\ missing = {}
               /\ Resolve(c, "lastid", "setidle", "ok")
               /\ UNCHANGED fetchVars
      <3>1. last'[c] = xkcdLast /\ UNCHANGED db
        BY <1>2, <2>3 DEF TypeOK, ReadLastID
      <3>2. (1..last'[c]) \ Skipped \subseteq db'
        BY <2>1, <2>3, <3>1
      <3> QED
        BY <2>1, <2>3, <3>2, PcAfter
        DEF Resolve, Data, Fresh, Disjoint, Accounted, Done, TypeOK
    <2>4. CASE /\ last' = [last EXCEPT ![c] = xkcdLast]
               /\ Goto(c, "lastid", "fetch")
               /\ Spawn(c, missing)
      <3>1. last'[c] = xkcdLast /\ UNCHANGED <<db, existing, errs, job>>
        BY <1>2, <2>4 DEF TypeOK, ReadLastID, Spawn
      <3>2. tasks'[c] = missing /\ \A w \in Workers : wpc'[c][w] = "range"
        BY <2>4 DEF TypeOK, Spawn
      <3>3. pc'[c] = "fetch"
        BY <2>4, PcAfter
      <3>4. Fresh(c)' /\ Done(c)'
        BY <3>3 DEF Fresh, Done
      <3>5. Disjoint(c)'
        BY <2>1, <3>1, <3>2, <3>3 DEF Disjoint, Wanted, Busy
      <3>6. Accounted(c)'
        BY <2>1, <3>1, <3>2, <3>3 DEF Accounted, InHand
      <3> QED BY <3>4, <3>5, <3>6 DEF Data
    <2> QED
      BY <1>2, <2>2, <2>3, <2>4 DEF ReadLastID
  <1>3. CASE JoinWorkers(c)
    <2>1. PICK w \in Workers : wpc[c][w] = "exit"
      BY <1>3, ConcurrencyAssumption DEF JoinWorkers
    <2>2. CASE Resolve(c, "fetch", "setidle", "error")
      BY <1>3, <2>2, PcAfter DEF Resolve, Data, Fresh, Disjoint, Accounted, Done, TypeOK
    <2>3. CASE errs[c] = 0 /\ Goto(c, "fetch", "publish") /\ UNCHANGED <<reply, canceled>>
      <3>1. pc[c] = "fetch" /\ pc'[c] = "publish"
        BY <2>3, PcAfter
      <3>2. canceled[c] \/ (1..last[c]) \ Skipped \subseteq db
        <4>1. \A x \in Workers : ~Busy(c, x)
          BY <1>3 DEF JoinWorkers, Busy
        <4> QED BY <2>1, <2>3, <3>1, <4>1 DEF Data, Accounted, InHand
      <3> QED
        BY <1>3, <2>3, <3>1, <3>2 DEF JoinWorkers, Data, Fresh, Disjoint, Accounted, Done
    <2> QED
      BY <1>3, <2>2, <2>3 DEF JoinWorkers
  <1>4. CASE PublishUpdated(c)
    BY <1>4, PcAfter
    DEF PublishUpdated, PublishOK, Resolve, Data, Fresh, Disjoint, Accounted, Done, TypeOK
  <1>5. CASE SetIdle(c)
    BY <1>5, PcAfter DEF SetIdle, Data, Fresh, Disjoint, Accounted, Done
  <1> QED
    BY <1>1, <1>2, <1>3, <1>4, <1>5

\* Worker w is the only one that moves.
LEMMA WorkerAfter ==
  ASSUME TypeOK, NEW c \in Callers, NEW w \in Workers, NEW from, NEW to, WorkerGoto(c, w, from, to)
  PROVE  wpc[c][w] = from /\ \A x \in Workers : wpc'[c][x] = IF x = w THEN to ELSE wpc[c][x]
  BY DEF TypeOK, WorkerGoto

LEMMA JobAfter ==
  ASSUME TypeOK, NEW c \in Callers, NEW w \in Workers, NEW id, job' = [job EXCEPT ![c][w] = id]
  PROVE  \A x \in Workers : job'[c][x] = IF x = w THEN id ELSE job[c][x]
  BY DEF TypeOK

LEMMA WorkerKeepsData ==
  ASSUME TypeOK, WorkersInFetch, NEW c \in Callers, Data(c),
         NEW w \in Workers, WorkerStep(c, w)
  PROVE  Data(c)'
  <1>0. /\ pc[c] = "fetch"
        /\ UNCHANGED <<pc, reply, canceled, existing, last, cap>>
    BY DEF WorkersInFetch, WorkerStep, TakeTask, RangeDone, FetchComic, AddComic, SendErr,
           NextTask, WorkerGoto
  <1>1. Fresh(c)' /\ Done(c)'
    BY <1>0 DEF Fresh, Done
  <1>2. Disjoint(c) /\ Accounted(c)
    BY DEF Data
  <1>3. errs[c] \in Nat /\ DOMAIN errs = Callers
    BY DEF TypeOK
  \* The task in hand is stored, skipped or given up with an error.
  <1>4. ASSUME NEW from, wpc[c][w] \in {"fetch", "add"},
               SendErr(c, w, from) \/ (NextTask(c, w, from) /\ (job[c][w] \in db' \/ job[c][w] \in Skipped)),
               UNCHANGED tasks,
               db' = db \/ db' = db \cup {job[c][w]}
        PROVE  Disjoint(c)' /\ Accounted(c)'
    <2>1. /\ \A x \in Workers : wpc'[c][x] = IF x = w THEN "range" ELSE wpc[c][x]
          /\ \A x \in Workers : job'[c][x] = IF x = w THEN 0 ELSE job[c][x]
      BY <1>4, WorkerAfter, JobAfter DEF SendErr, NextTask
    <2>2. Disjoint(c)'
      BY <1>0, <1>2, <1>4, <2>1 DEF Disjoint, Wanted, Busy
    <2>3. CASE SendErr(c, w, from)
      <3>1. errs'[c] > 0
        BY <1>3, <2>3 DEF SendErr
      <3>2. Accounted(c)'
        BY <1>0, <3>1 DEF Accounted
      <3> QED BY <2>2, <3>2
    <2>4. CASE NextTask(c, w, from) /\ (job[c][w] \in db' \/ job[c][w] \in Skipped)
      <3>1. UNCHANGED errs
        BY <2>4 DEF NextTask
      <3>2. ASSUME errs[c] > 0 \/ canceled[c] PROVE Accounted(c)'
        BY <1>0, <3>1, <3>2 DEF Accounted
      <3>3. ASSUME \A id \in (1..last[c]) \ Skipped : id \in db \/ InHand(c, id),
                   (\E x \in Workers : wpc[c][x] = "exit") => tasks[c] = {}
            PROVE  Accounted(c)'
        <4>1. \A id \in (1..last[c]) \ Skipped : id \in db' \/ InHand(c, id)'
          BY <1>4, <2>1, <2>4, <3>3 DEF InHand, Busy
        <4>2. (\E x \in Workers : wpc'[c][x] = "exit") => tasks'[c] = {}
          BY <1>4, <2>1, <3>3
        <4> QED BY <1>0, <4>1, <4>2 DEF Accounted
      <3>4. Accounted(c)'
        BY <1>0, <1>2, <3>2, <3>3 DEF Accounted
      <3> QED BY <2>2, <3>4
    <2> QED BY <1>4, <2>3, <2>4
  <1>5. CASE TakeTask(c, w)
    <2>1. PICK id \in tasks[c] :
            /\ tasks' = [tasks EXCEPT ![c] = @ \ {id}]
            /\ \/ canceled[c] /\ WorkerGoto(c, w, "range", "exit") /\ UNCHANGED job
               \/ WorkerGoto(c, w, "range", "fetch") /\ job' = [job EXCEPT ![c][w] = id]
      BY <1>5 DEF TakeTask
    <2>2. tasks'[c] = tasks[c] \ {id} /\ UNCHANGED <<db, errs>>
      BY <1>5, <2>1 DEF TakeTask, TypeOK
    <2>3. CASE canceled[c] /\ WorkerGoto(c, w, "range", "exit") /\ UNCHANGED job
      <3>1. \A x \in Workers : wpc'[c][x] = IF x = w THEN "exit" ELSE wpc[c][x]
        BY <2>3, WorkerAfter
      <3>2. Disjoint(c)'
        BY <1>0, <1>2, <2>2, <2>3, <3>1 DEF Disjoint, Wanted, Busy
      <3>3. Accounted(c)'
        BY <1>0, <2>3 DEF Accounted
      <3> QED BY <1>1, <3>2, <3>3 DEF Data
    <2>4. CASE WorkerGoto(c, w, "range", "fetch") /\ job' = [job EXCEPT ![c][w] = id]
      <3>0. \A x \in Workers : job'[c][x] = IF x = w THEN id ELSE job[c][x]
        BY <2>4 DEF TypeOK
      <3>1. /\ wpc[c][w] = "range"
            /\ \A x \in Workers : wpc'[c][x] = IF x = w THEN "fetch" ELSE wpc[c][x]
            /\ \A x \in Workers : job'[c][x] = IF x = w THEN id ELSE job[c][x]
        BY <2>4, <3>0, WorkerAfter
      <3>2. Disjoint(c)'
        BY <1>0, <1>2, <2>2, <3>1 DEF Disjoint, Wanted, Busy
      <3>3. \A i : InHand(c, i) => InHand(c, i)'
        BY <2>2, <3>1 DEF InHand, Busy
      <3>4. (\E x \in Workers : wpc'[c][x] = "exit") => (\E x \in Workers : wpc[c][x] = "exit")
        BY <3>1
      <3>5. Accounted(c)'
        BY <1>0, <1>2, <2>2, <3>3, <3>4 DEF Accounted
      <3> QED BY <1>1, <3>2, <3>5 DEF Data
    <2> QED BY <2>1, <2>3, <2>4
  <1>6. CASE RangeDone(c, w)
    <2>1. /\ tasks[c] = {} /\ UNCHANGED <<db, tasks, errs, job>>
          /\ wpc[c][w] = "range"
          /\ \A x \in Workers : wpc'[c][x] = IF x = w THEN "exit" ELSE wpc[c][x]
      BY <1>6, WorkerAfter DEF RangeDone
    <2>2. Disjoint(c)'
      BY <1>0, <1>2, <2>1 DEF Disjoint, Wanted, Busy
    <2>3. \A i : InHand(c, i) => InHand(c, i)'
      BY <2>1 DEF InHand, Busy
    <2>4. Accounted(c)'
      BY <1>0, <1>2, <2>1, <2>3 DEF Accounted
    <2> QED BY <1>1, <2>2, <2>4 DEF Data
  <1>7. CASE FetchComic(c, w)
    <2>1. CASE WorkerGoto(c, w, "fetch", "add") /\ Fetchable(job[c][w]) /\ UNCHANGED <<errs, job>>
      <3>1. /\ wpc[c][w] = "fetch"
            /\ \A x \in Workers : wpc'[c][x] = IF x = w THEN "add" ELSE wpc[c][x]
            /\ UNCHANGED <<db, tasks>>
        BY <1>7, <2>1, WorkerAfter DEF FetchComic
      <3>2. job[c][w] \notin Skipped
        BY <2>1 DEF Fetchable, Skipped
      <3>3. Disjoint(c)'
        BY <1>0, <1>2, <2>1, <3>1, <3>2 DEF Disjoint, Wanted, Busy
      <3>4. \A i : InHand(c, i) => InHand(c, i)'
        BY <2>1, <3>1 DEF InHand, Busy
      <3>5. Accounted(c)'
        BY <1>0, <1>2, <2>1, <3>1, <3>4 DEF Accounted
      <3> QED BY <1>1, <3>3, <3>5 DEF Data
    <2>2. CASE SendErr(c, w, "fetch") \/ (NextTask(c, w, "fetch") /\ ~Fetchable(job[c][w]))
      <3>1. wpc[c][w] = "fetch" /\ UNCHANGED <<db, tasks>>
        BY <1>7, <2>2 DEF FetchComic, SendErr, NextTask, WorkerGoto
      <3>2. job[c][w] \in Skipped \/ Fetchable(job[c][w])
        BY DEF Fetchable, Skipped
      <3> QED BY <1>1, <1>4, <2>2, <3>1, <3>2 DEF Data
    <2> QED BY <1>7, <2>1, <2>2 DEF FetchComic
  <1>8. CASE AddComic(c, w)
    <2>1. wpc[c][w] = "add" /\ UNCHANGED tasks
      BY <1>8 DEF AddComic, SendErr, NextTask, WorkerGoto
    <2>2. /\ db' = db \/ db' = db \cup {job[c][w]}
          /\ SendErr(c, w, "add") \/ (NextTask(c, w, "add") /\ job[c][w] \in db')
      BY <1>8 DEF AddComic, AddOK, AddErr, Store
    <2> QED BY <1>1, <1>4, <2>1, <2>2 DEF Data
  <1> QED
    BY <1>5, <1>6, <1>7, <1>8 DEF WorkerStep

-----------------------------------------------------------------------------
(***************************************************************************)
(* The channel errs                                                        *)
(***************************************************************************)
BusyOf(c) == {w \in Workers : Busy(c, w)}

\* Sets of ids and of workers can be counted.
LEMMA Countable ==
  ASSUME TypeOK, NEW c \in Callers
  PROVE  /\ IsFiniteSet(tasks[c]) /\ Cardinality(tasks[c]) \in Nat
         /\ IsFiniteSet(BusyOf(c)) /\ Cardinality(BusyOf(c)) \in Nat
         /\ errs[c] \in Nat /\ cap[c] \in Nat
  <1>1. IsFiniteSet(ComicIds)
    BY FS_Interval, ConstantsAssumption DEF ComicIds
  <1>2. tasks[c] \subseteq ComicIds /\ BusyOf(c) \subseteq Workers /\ errs[c] \in Nat /\ cap[c] \in Nat
    BY DEF TypeOK, BusyOf
  <1>3. IsFiniteSet(tasks[c]) /\ IsFiniteSet(BusyOf(c))
    BY <1>1, <1>2, FS_Subset, ConcurrencyAssumption
  <1> QED
    BY <1>2, <1>3, FS_CardinalityType

LEMMA OthersKeepRoom ==
  ASSUME TypeOK, NEW c \in Callers, Step(c), NEW d \in Callers \ {c}, Roomy(d)
  PROVE  Roomy(d)'
  BY OthersUntouched DEF Roomy, Untouched, Busy

LEMMA WorkerKeepsRoom ==
  ASSUME TypeOK, WorkersInFetch, NEW c \in Callers, Roomy(c),
         NEW w \in Workers, WorkerStep(c, w)
  PROVE  Roomy(c)'
  <1>0. pc[c] = "fetch" /\ UNCHANGED <<pc, cap>>
    BY DEF WorkersInFetch, WorkerStep, TakeTask, RangeDone, FetchComic, AddComic, SendErr,
           NextTask, WorkerGoto
  <1>1. errs[c] + Cardinality(tasks[c]) + Cardinality(BusyOf(c)) <= cap[c]
    BY <1>0 DEF Roomy, BusyOf
  <1>2. SUFFICES errs'[c] + Cardinality(tasks'[c]) + Cardinality(BusyOf(c)') <= cap'[c]
    BY DEF Roomy, BusyOf
  <1>3. PICK from, to : WorkerGoto(c, w, from, to)
    BY DEF WorkerStep, TakeTask, RangeDone, FetchComic, AddComic, SendErr, NextTask
  <1>4. wpc[c][w] = from /\ \A x \in Workers : wpc'[c][x] = IF x = w THEN to ELSE wpc[c][x]
    BY <1>3, WorkerAfter
  <1>5. CASE TakeTask(c, w)
    <2>1. PICK id \in tasks[c] : tasks' = [tasks EXCEPT ![c] = @ \ {id}]
      BY <1>5 DEF TakeTask
    <2>2. tasks'[c] = tasks[c] \ {id} /\ UNCHANGED errs
      BY <1>5, <2>1 DEF TakeTask, TypeOK
    <2>3. Cardinality(tasks'[c]) = Cardinality(tasks[c]) - 1
      BY <2>1, <2>2, Countable, FS_RemoveElement
    <2>4. BusyOf(c)' \subseteq BusyOf(c) \cup {w}
      BY <1>4 DEF BusyOf, Busy
    <2>5. /\ IsFiniteSet(BusyOf(c) \cup {w})
          /\ Cardinality(BusyOf(c) \cup {w}) <= Cardinality(BusyOf(c)) + 1
      <3>1. IsFiniteSet(BusyOf(c)) /\ Cardinality(BusyOf(c)) \in Nat
        BY Countable
      <3>2. /\ IsFiniteSet(BusyOf(c) \cup {w})
            /\ Cardinality(BusyOf(c) \cup {w}) =
                 IF w \in BusyOf(c) THEN Cardinality(BusyOf(c)) ELSE Cardinality(BusyOf(c)) + 1
        BY <3>1, FS_AddElement
      <3> QED BY <3>1, <3>2
    <2>6. Cardinality(BusyOf(c)') <= Cardinality(BusyOf(c) \cup {w})
      BY <2>4, <2>5, FS_Subset
    <2>7. Cardinality(BusyOf(c)') \in Nat /\ Cardinality(BusyOf(c) \cup {w}) \in Nat
      BY <2>4, <2>5, FS_Subset, FS_CardinalityType
    <2> QED
      BY <1>0, <1>1, <2>2, <2>3, <2>5, <2>6, <2>7, Countable
  <1>6. CASE RangeDone(c, w)
    <2>1. UNCHANGED <<tasks, errs>> /\ from = "range" /\ to = "exit"
      BY <1>3, <1>4, <1>6, WorkerAfter DEF RangeDone
    <2>2. BusyOf(c)' = BusyOf(c)
      BY <1>4, <2>1 DEF BusyOf, Busy
    <2> QED
      BY <1>0, <1>1, <2>1, <2>2
  <1>7. CASE WorkerGoto(c, w, "fetch", "add") /\ UNCHANGED <<tasks, errs>>
    <2>1. BusyOf(c)' = BusyOf(c)
      BY <1>7, WorkerAfter DEF BusyOf, Busy
    <2> QED
      BY <1>0, <1>1, <1>7, <2>1
  <1>8. ASSUME NEW here \in {"fetch", "add"}, UNCHANGED tasks,
               SendErr(c, w, here) \/ NextTask(c, w, here)
        PROVE  errs'[c] + Cardinality(tasks'[c]) + Cardinality(BusyOf(c)') <= cap'[c]
    <2>1. wpc[c][w] = here /\ \A x \in Workers : wpc'[c][x] = IF x = w THEN "range" ELSE wpc[c][x]
      BY <1>8, WorkerAfter DEF SendErr, NextTask
    <2>2. w \in BusyOf(c) /\ BusyOf(c)' = BusyOf(c) \ {w}
      BY <2>1 DEF BusyOf, Busy
    <2>3. Cardinality(BusyOf(c)') = Cardinality(BusyOf(c)) - 1
      BY <2>2, Countable, FS_RemoveElement
    <2>4. errs'[c] = errs[c] + 1 \/ errs'[c] = errs[c]
      BY <1>8 DEF SendErr, NextTask, TypeOK
    <2> QED
      BY <1>0, <1>1, <1>8, <2>3, <2>4, Countable
  <1> QED
    BY <1>5, <1>6, <1>7, <1>8 DEF WorkerStep, FetchComic, AddComic

LEMMA OwnRoom ==
  ASSUME TypeOK, WorkersInFetch, NEW c \in Callers, Fresh(c), Roomy(c), Step(c)
  PROVE  Roomy(c)'
  <1> USE DEF Resolve, Return
  <1>1. CASE Invoke(c) \/ StatsStep(c)
    <2>1. pc'[c] # "fetch"
      BY <1>1, PcAfter DEF Invoke, InvokeUpdate, InvokeDrop, InvokeStats, AskStatus,
                           StatsStep, StatsDB, StatsLastID
    <2> QED BY <2>1 DEF Roomy
  <1>2. CASE Cancel(c)
    BY <1>2 DEF Cancel, Roomy, Busy
  <1>3. CASE UpdateStep(c)
    <2>1. CASE ReadLastID(c) /\ pc'[c] = "fetch"
      <3> DEFINE missing == (1..xkcdLast) \ existing[c]
      <3>1. Spawn(c, missing) /\ pc[c] = "lastid"
        BY <2>1, PcAfter DEF ReadLastID
      <3>2. tasks'[c] = missing /\ cap'[c] = Cardinality(missing) /\ errs'[c] = 0
        BY <3>1 DEF Spawn, TypeOK, Fresh
      <3>3. {w \in Workers : Busy(c, w)'} = {}
        BY <3>1 DEF Spawn, TypeOK, Busy
      <3>4. Cardinality(missing) \in Nat
        <4>1. missing \subseteq ComicIds
          BY ConstantsAssumption DEF TypeOK, ComicIds
        <4> QED BY <4>1, ComicSets
      <3> HIDE DEF missing
      <3>5. errs'[c] + Cardinality(tasks'[c]) + Cardinality({w \in Workers : Busy(c, w)'}) <= cap'[c]
        BY <3>2, <3>3, <3>4, FS_EmptySet
      <3> QED
        BY <3>5 DEF Roomy
    <2>2. CASE pc'[c] # "fetch"
      BY <2>2 DEF Roomy
    <2>3. ReadLastID(c) \/ pc'[c] # "fetch"
      <3>1. CASE \/ MarkRunning(c) \/ TryLockOK(c) \/ TryLockFail(c)
                 \/ TryLockFailEarly(c) \/ MarkRunningLate(c)
        BY <3>1, PcAfter
        DEF MarkRunning, TryLockOK, TryLockFail, TryLockFailEarly, MarkRunningLate
      <3>2. CASE \/ StartRun(c) \/ ReadIDs(c) \/ JoinWorkers(c)
                 \/ PublishUpdated(c) \/ SetIdle(c) \/ UnlockUpdate(c)
        BY <3>2, PcAfter DEF StartRun, ReadIDs, JoinWorkers, PublishUpdated, SetIdle, UnlockUpdate
      <3> QED BY <1>3, <3>1, <3>2 DEF UpdateStep
    <2> QED BY <2>1, <2>2, <2>3
  <1>4. CASE DropStep(c)
    <2>1. pc'[c] # "fetch"
      BY <1>4, PcAfter
      DEF DropStep, DropLock, CheckStatus, DropTable, PublishDropped, UnlockDrop
    <2> QED BY <2>1 DEF Roomy
  <1>5. ASSUME NEW w \in Workers, WorkerStep(c, w) PROVE Roomy(c)'
    BY <1>5, WorkerKeepsRoom
  <1> QED
    BY <1>1, <1>2, <1>3, <1>4, <1>5 DEF Step

-----------------------------------------------------------------------------
(***************************************************************************)
(* The inductive invariant                                                 *)
(***************************************************************************)
LEMMA InvInit == Init => IInv
  BY ConstantsAssumption
  DEF Init, IInv, LockOwned, WorkersInFetch, RunningWhileUpdating, OkMeansDone, Updating,
      Dropping, Fresh, Disjoint, Accounted, Roomy, Done

LEMMA OwnData ==
  ASSUME TypeOK, WorkersInFetch, NEW c \in Callers, Data(c), Step(c)
  PROVE  Data(c)'
  <1>1. CASE Cancel(c)
    <2>1. /\ UNCHANGED <<db, announced, pc, reply, existing, last, tasks, cap, errs, wpc, job>>
          /\ canceled[c] => canceled'[c]
      BY <1>1 DEF Cancel, TypeOK
    <2>2. Fresh(c)' /\ Done(c)'
      BY <2>1 DEF Data, Fresh, Done
    <2>3. Disjoint(c)'
      BY <2>1 DEF Data, Disjoint, Wanted, Busy
    <2>4. Accounted(c)'
      BY <2>1 DEF Data, Accounted, InHand, Busy
    <2> QED BY <2>2, <2>3, <2>4 DEF Data
  <1>2. CASE Invoke(c) \/ StatsStep(c)
    BY <1>2, OutsideKeepsData
  <1>3. CASE UpdateStep(c)
    BY <1>3, OutsideKeepsData, UpdateKeepsData DEF UpdateStep
  <1>4. CASE DropStep(c)
    BY <1>4, OutsideKeepsData, DropKeepsData DEF DropStep
  <1>5. ASSUME NEW w \in Workers, WorkerStep(c, w) PROVE Data(c)'
    BY <1>5, WorkerKeepsData
  <1> QED
    BY <1>1, <1>2, <1>3, <1>4, <1>5 DEF Step

LEMMA InvNext == TypeOK /\ IInv /\ [Next]_vars => IInv'
  <1> SUFFICES ASSUME TypeOK, IInv, [Next]_vars PROVE IInv'
    OBVIOUS
  <1>1. LockOwned' /\ WorkersInFetch' /\ RunningWhileUpdating'
    BY LockOwnedNext, WorkersInFetchNext, RunningNext DEF IInv
  <1>2. LockOwned /\ WorkersInFetch /\ \A d \in Callers : Data(d) /\ Roomy(d)
    BY DEF IInv, OkMeansDone, Data
  <1>3. ASSUME NEW d \in Callers PROVE Data(d)' /\ Roomy(d)'
    <2>1. ASSUME NEW c \in Callers, Step(c) PROVE Data(d)' /\ Roomy(d)'
      <3>1. CASE d = c
        BY <1>2, <2>1, <3>1, OwnData, OwnRoom DEF Data
      <3>2. CASE d # c
        BY <1>2, <2>1, <3>2, OthersKeepData, OthersKeepRoom
      <3> QED BY <3>1, <3>2
    <2>2. CASE NewComic
      BY <1>2, <2>2
      DEF NewComic, Data, Fresh, Disjoint, Accounted, Roomy, Done, Wanted, InHand, Busy
    <2>3. CASE Crash
      BY <2>3 DEF Crash, Data, Fresh, Disjoint, Accounted, Roomy, Done
    <2>4. CASE UNCHANGED vars
      BY <1>2, <2>4
      DEF vars, Data, Fresh, Disjoint, Accounted, Roomy, Done, Wanted, InHand, Busy
    <2> QED
      BY <2>1, <2>2, <2>3, <2>4 DEF Next, Step
  <1> QED
    BY <1>1, <1>3 DEF IInv, OkMeansDone, Data

\* The invariant that the safety theorems below follow from.
THEOREM Invariance == Spec => [](TypeOK /\ IInv)
  <1>1. Init => TypeOK /\ IInv
    BY TypeInit, InvInit
  <1>2. (TypeOK /\ IInv) /\ [Next]_vars => (TypeOK /\ IInv)'
    BY TypeNext, InvNext
  <1> QED
    BY <1>1, <1>2, PTL DEF Spec

\* For any number of clients, workers and comics: a nil from Update means a
\* complete table and an announced change, a nil from Drop an empty one.
THEOREM SuccessIsReal == Spec => []OkMeansDone
  <1>1. TypeOK /\ IInv => OkMeansDone
    BY DEF IInv
  <1> QED
    BY <1>1, Invariance, PTL

\* Status never says "idle" while an Update is at work.
THEOREM StatusIsTrue == Spec => []RunningWhileUpdating
  <1>1. TypeOK /\ IInv => RunningWhileUpdating
    BY DEF IInv
  <1> QED
    BY <1>1, Invariance, PTL

\* DB.Add never meets its own primary key, with any number of workers.
THEOREM InsertsAreNew == Spec => []NoConflictingInsert
  <1>1. TypeOK /\ IInv => NoConflictingInsert
    BY DEF IInv, NoConflictingInsert, WorkersInFetch, Disjoint, Wanted, Busy
  <1> QED
    BY <1>1, Invariance, PTL

\* A worker that has an error to report never waits for room in errs, so the
\* drain after wg.Wait may come as late as it does.
THEOREM ErrorsHaveRoom == Spec => []ErrsNeverFull
  <1>1. ASSUME TypeOK, IInv PROVE ErrsNeverFull
    <2> SUFFICES ASSUME NEW c \in Callers, NEW w \in Workers, wpc[c][w] \in {"fetch", "add"}
                 PROVE  errs[c] < cap[c]
      BY DEF ErrsNeverFull
    <2>1. pc[c] = "fetch" /\ w \in BusyOf(c)
      BY <1>1 DEF IInv, WorkersInFetch, BusyOf, Busy
    <2>2. Cardinality(BusyOf(c)) # 0
      BY <1>1, <2>1, Countable, FS_EmptySet
    <2>3. errs[c] + Cardinality(tasks[c]) + Cardinality(BusyOf(c)) <= cap[c]
      BY <1>1, <2>1 DEF IInv, Roomy, BusyOf
    <2> QED
      BY <1>1, <2>2, <2>3, Countable
  <1> QED
    BY <1>1, Invariance, PTL

\* The table loses rows only when no Update holds the mutex.
THEOREM TruncateIsExclusive == Spec => TruncateExcludesUpdate
  <1> DEFINE Safe == ~(db \subseteq db') => \A c \in Callers : ~Updating(c)
  <1>1. ASSUME TypeOK, IInv, [Next]_vars PROVE Safe
    <2>0. LockOwned /\ WorkersInFetch
      BY <1>1 DEF IInv
    <2>1. ASSUME NEW c \in Callers, Step(c) PROVE Safe
      <3>1. CASE mu # c
        BY <1>1, <2>0, <2>1, <3>1, StoreNeedsLock
      <3>2. CASE mu = c /\ Updating(c)
        <4>1. CASE UNCHANGED db
          BY <4>1
        <4>2. ASSUME NEW w \in Workers, AddComic(c, w) PROVE Safe
          BY <4>2 DEF AddComic, AddOK, AddErr, Store
        <4> QED
          BY <2>1, <3>2, <4>1, <4>2
          DEF Step, Invoke, InvokeUpdate, InvokeDrop, InvokeStats, AskStatus, Cancel, UpdateStep,
              MarkRunning, TryLockOK, TryLockFail, TryLockFailEarly, MarkRunningLate, StartRun,
              ReadIDs, ReadLastID, JoinWorkers, PublishUpdated, SetIdle, UnlockUpdate, DropStep,
              DropLock, CheckStatus, DropTable, PublishDropped, UnlockDrop, StatsStep, StatsDB,
              StatsLastID, WorkerStep, TakeTask, RangeDone, FetchComic, Updating, Resolve, Return,
              Goto
      <3>3. CASE mu = c /\ ~Updating(c)
        <4>1. \A d \in Callers : ~Updating(d)
          BY <2>0, <3>3 DEF LockOwned
        <4> QED BY <4>1
      <3> QED BY <3>1, <3>2, <3>3
    <2>2. CASE NewComic \/ Crash \/ UNCHANGED vars
      BY <2>2 DEF NewComic, Crash, vars
    <2> QED
      BY <1>1, <2>1, <2>2 DEF Next, Step
  <1>2. TypeOK /\ IInv /\ [Next]_vars => [Safe]_vars
    BY <1>1
  <1> QED
    BY <1>2, Invariance, PTL DEF Spec, TruncateExcludesUpdate
=============================================================================

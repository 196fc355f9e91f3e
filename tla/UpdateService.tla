---------------------------- MODULE UpdateService ----------------------------
(***************************************************************************)
(* The update service: update/core/service.go with the adapters it calls.  *)
(* Clients call Update, Drop, Stats and Status concurrently; each call is a *)
(* gRPC handler goroutine.  Update and Drop serialise on the mutex mu, an  *)
(* Update fans the missing comics out to worker goroutines, and status is  *)
(* a plain field that Update writes before it owns the mutex.              *)
(*                                                                         *)
(* A comic is its id: url and words are functions of it.  A call to        *)
(* PostgreSQL, xkcd.com, Words or NATS is one step with every outcome the  *)
(* caller can see; a statement that is answered with an error may have     *)
(* been executed.                                                          *)
(***************************************************************************)
EXTENDS Integers, FiniteSets

CONSTANTS
  Updaters,       \* clients that call Update
  Droppers,       \* clients that call Drop
  Readers,        \* clients that call Stats and Status
  Workers,        \* the goroutines of one Update, Service.concurrency of them
  MaxId,          \* bound: the highest comic xkcd.com ever publishes
  failedComicId,  \* the comic xkcd.com has no page for (404)
  Absent,         \* the ids xkcd.com answers with status 404
  MaxCrashes,     \* bound: how often the process may crash and be restarted
  NoCaller        \* mu is free

Callers  == Updaters \cup Droppers \cup Readers
ComicIds == 1..MaxId

\* An id the crawl passes over: Get says ErrNotFound and it is not comic 404.
Skipped == Absent \ {failedComicId}

ASSUME ConstantsAssumption ==
  /\ MaxId \in Nat \ {0}
  /\ failedComicId \in Nat \ {0}
  /\ MaxCrashes \in Nat
  /\ NoCaller \notin Callers

\* A client that asks for statistics is a caller of its own.
ASSUME ReadersAssumption == Readers \cap (Updaters \cup Droppers) = {}

\* NewService refuses a concurrency below one.
ASSUME ConcurrencyAssumption == IsFiniteSet(Workers) /\ Workers # {}

VARIABLES
  db,         \* ids in table comics
  announced,  \* NATS has been given an event since db last changed
  xkcdLast,   \* the newest comic on xkcd.com
  crashes,    \* crashes so far
  mu,         \* Service.mu: NoCaller or the call that holds it
  status,     \* Service.status
  pc,         \* where each call stands; "idle" when the client has none
  reply,      \* what the client's last call returned, or is about to
  canceled,   \* the call's context is done (client gone, server stopping)
  existing,   \* local of Update: ids found in the database
  last,       \* local lastId of Update, lastID of Stats
  tasks,      \* the channel of ids still to fetch, received lowest first
  cap,        \* capacity of the channels tasks and errs: len(missing)
  errs,       \* errors buffered in the channel errs
  wpc,        \* where each worker of an Update stands
  job,        \* the id a worker holds, 0 if none
  got         \* local stat of Stats: number of rows

storeVars  == <<db, announced>>
worldVars  == <<xkcdLast, crashes>>
lockVars   == <<mu, status>>
callVars   == <<pc, reply, canceled>>
fetchVars  == <<tasks, cap, errs, wpc, job>>
localVars  == <<existing, last, got>>
vars == <<storeVars, worldVars, lockVars, callVars, fetchVars, localVars>>

UpdatePcs == {"mark", "trylock", "late", "locked", "ids", "lastid", "fetch",
              "publish", "setidle", "unlock"}
DropPcs   == {"lock", "check", "truncate", "announce", "dunlock"}
StatsPcs  == {"statsdb", "statslast"}
Replies   == {"none", "ok", "already_exists", "drop_update", "failed_publish",
              "error", "unavailable", "running", "idle"}

TypeOK ==
  /\ db \in SUBSET ComicIds
  /\ announced \in BOOLEAN
  /\ xkcdLast \in ComicIds
  /\ crashes \in 0..MaxCrashes
  /\ mu \in Callers \cup {NoCaller}
  /\ status \in {"running", "idle"}
  /\ pc \in [Callers -> UpdatePcs \cup DropPcs \cup StatsPcs \cup {"idle"}]
  /\ reply \in [Callers -> Replies]
  /\ canceled \in [Callers -> BOOLEAN]
  /\ existing \in [Callers -> SUBSET ComicIds]
  /\ last \in [Callers -> ComicIds \cup {0}]
  /\ tasks \in [Callers -> SUBSET ComicIds]
  /\ cap \in [Callers -> Nat]
  /\ errs \in [Callers -> Nat]
  /\ wpc \in [Callers -> [Workers -> {"exit", "range", "fetch", "add"}]]
  /\ job \in [Callers -> [Workers -> ComicIds \cup {0}]]
  /\ \A c \in Callers : \A w \in Workers :
       wpc[c][w] \in {"fetch", "add"} => job[c][w] \in ComicIds
  /\ got \in [Callers -> Nat]

\* NewService starts idle; a mutant forgets to, which leaves the zero value.
ZeroStatus == ""
NewStatus == "idle"

\* A freshly started process over whatever an earlier one left in the table.
Init ==
  /\ xkcdLast \in ComicIds
  /\ db \in SUBSET ((1..xkcdLast) \ Skipped)
  /\ announced \in BOOLEAN
  /\ crashes = 0
  /\ mu = NoCaller
  /\ status = NewStatus
  /\ pc = [c \in Callers |-> "idle"]
  /\ reply = [c \in Callers |-> "none"]
  /\ canceled = [c \in Callers |-> FALSE]
  /\ existing = [c \in Callers |-> {}]
  /\ last = [c \in Callers |-> 0]
  /\ tasks = [c \in Callers |-> {}]
  /\ cap = [c \in Callers |-> 0]
  /\ errs = [c \in Callers |-> 0]
  /\ wpc = [c \in Callers |-> [w \in Workers |-> "exit"]]
  /\ job = [c \in Callers |-> [w \in Workers |-> 0]]
  /\ got = [c \in Callers |-> 0]

-----------------------------------------------------------------------------
(***************************************************************************)
(* Building blocks: control flow of a call, and the ports.                 *)
(***************************************************************************)
Goto(c, from, to) == pc[c] = from /\ pc' = [pc EXCEPT ![c] = to]

Return(c, from, answer) ==
  /\ Goto(c, from, "idle")
  /\ reply' = [reply EXCEPT ![c] = answer]
  /\ canceled' = [canceled EXCEPT ![c] = FALSE]

\* Go on to label "to" with the value that the call will return.
Resolve(c, from, to, answer) ==
  /\ Goto(c, from, to)
  /\ reply' = [reply EXCEPT ![c] = answer]
  /\ UNCHANGED canceled

\* The database takes on newDb; readers of events have not been told.
Store(newDb) ==
  /\ db' = newDb
  /\ announced' = IF newDb = db THEN announced ELSE FALSE

\* DB.Add inserts one row.  An id that is there is a primary key violation.
AddOK(c, id) == ~canceled[c] /\ id \notin db /\ Store(db \cup {id})
AddErr(id)   == Store(db) \/ Store(db \cup {id})

\* DB.Drop truncates the table.
TruncateOK(c) == ~canceled[c] /\ Store({})
TruncateErr   == Store(db) \/ Store({})

\* Mutant: publish does not look at the context.
PublishAnyway(c) == announced' = TRUE

\* Publisher.publish: nil only when the event reached NATS, and a context
\* that is done is noticed before anything is sent.  A failed flush may still
\* have delivered the event.
PublishOK(c)  == ~canceled[c] /\ announced' = TRUE
PublishErr(c) == announced' = announced \/ (~canceled[c] /\ announced' = TRUE)

\* Client.Get knows the comic; comic 404 is never asked for.
Fetchable(id) == id = failedComicId \/ id \notin Absent

-----------------------------------------------------------------------------
(***************************************************************************)
(* Update.  Line 49 writes status without holding mu.  The write races     *)
(* with the other writers and readers of the field, so it may also become  *)
(* visible only after the TryLock that follows it has failed.              *)
(***************************************************************************)
InvokeUpdate(c) ==
  /\ c \in Updaters
  /\ Resolve(c, "idle", "mark", "none")
  /\ last' = [last EXCEPT ![c] = 0]
  /\ got' = [got EXCEPT ![c] = 0]
  /\ UNCHANGED <<storeVars, worldVars, lockVars, fetchVars, existing>>

MarkRunning(c) ==
  /\ Goto(c, "mark", "trylock")
  /\ status' = "running"
  /\ UNCHANGED <<storeVars, worldVars, mu, reply, canceled, fetchVars, localVars>>

TryLockOK(c) ==
  /\ mu = NoCaller
  /\ Goto(c, "trylock", "locked")
  /\ mu' = c
  /\ UNCHANGED <<storeVars, worldVars, status, reply, canceled, fetchVars, localVars>>

\* sync.Mutex.TryLock fails when mu is held.  A failure while Unlock hands mu
\* to a Drop that is queued in Lock is one after that DropLock.
LockBusy == mu # NoCaller

\* Mutant: the refused call sets status back.
TryLockFailResets(c) ==
  /\ LockBusy
  /\ Return(c, "trylock", "already_exists")
  /\ status' = "idle"
  /\ UNCHANGED <<storeVars, worldVars, mu, fetchVars, localVars>>

TryLockFail(c) ==
  /\ LockBusy
  /\ Return(c, "trylock", "already_exists")
  /\ UNCHANGED <<storeVars, worldVars, lockVars, fetchVars, localVars>>

\* The same two steps with the racy write seen late.
TryLockFailEarly(c) ==
  /\ LockBusy
  /\ Goto(c, "mark", "late")
  /\ UNCHANGED <<storeVars, worldVars, lockVars, reply, canceled, fetchVars, localVars>>

MarkRunningLate(c) ==
  /\ Return(c, "late", "already_exists")
  /\ status' = "running"
  /\ UNCHANGED <<storeVars, worldVars, mu, fetchVars, localVars>>

StartRun(c) ==
  /\ Goto(c, "locked", "ids")
  /\ status' = "running"
  /\ UNCHANGED <<storeVars, worldVars, mu, reply, canceled, fetchVars, localVars>>

\* Mutant: an error from DB.IDs is not returned.
ReadIDsIgnoringError(c) ==
  /\ Goto(c, "ids", "lastid")
  /\ \/ ~canceled[c] /\ existing' = [existing EXCEPT ![c] = db]
     \/ UNCHANGED existing
  /\ UNCHANGED <<storeVars, worldVars, lockVars, reply, canceled, fetchVars, last, got>>

\* Mutant: an error from DB.IDs is returned before Unlock has been deferred.
ReadIDsBeforeDefer(c) ==
  /\ \/ /\ ~canceled[c]
        /\ Goto(c, "ids", "lastid")
        /\ existing' = [existing EXCEPT ![c] = db]
        /\ UNCHANGED <<reply, canceled>>
     \/ Return(c, "ids", "error") /\ UNCHANGED existing
  /\ UNCHANGED <<storeVars, worldVars, lockVars, fetchVars, last, got>>

ReadIDs(c) ==
  /\ \/ /\ ~canceled[c]
        /\ Goto(c, "ids", "lastid")
        /\ existing' = [existing EXCEPT ![c] = db]
        /\ UNCHANGED <<reply, canceled>>
     \/ Resolve(c, "ids", "setidle", "error") /\ UNCHANGED existing
  /\ UNCHANGED <<storeVars, worldVars, lockVars, fetchVars, last, got>>

\* Mutant: errs has room for one error of each worker.
SpawnErrPerWorker(c, missing) ==
  /\ tasks' = [tasks EXCEPT ![c] = missing]
  /\ cap' = [cap EXCEPT ![c] = Cardinality(Workers)]
  /\ wpc' = [wpc EXCEPT ![c] = [w \in Workers |-> "range"]]
  /\ UNCHANGED <<errs, job>>

\* The missing ids go into a channel that is closed before the workers start.
Spawn(c, missing) ==
  /\ tasks' = [tasks EXCEPT ![c] = missing]
  /\ cap' = [cap EXCEPT ![c] = Cardinality(missing)]
  /\ wpc' = [wpc EXCEPT ![c] = [w \in Workers |-> "range"]]
  /\ UNCHANGED <<errs, job>>

ReadLastID(c) ==
  LET missing == (1..xkcdLast) \ existing[c] IN
  /\ \/ /\ ~canceled[c]
        /\ last' = [last EXCEPT ![c] = xkcdLast]
        /\ \/ /\ missing = {}
              /\ Resolve(c, "lastid", "setidle", "ok")
              /\ UNCHANGED fetchVars
           \/ /\ missing # {}
              /\ Goto(c, "lastid", "fetch")
              /\ Spawn(c, missing)
              /\ UNCHANGED <<reply, canceled>>
     \/ Resolve(c, "lastid", "setidle", "error") /\ UNCHANGED <<fetchVars, last>>
  /\ UNCHANGED <<storeVars, worldVars, lockVars, existing, got>>

(***************************************************************************)
(* A worker: receive an id, give up if the context is done, fetch and      *)
(* normalise the comic, insert it.                                         *)
(***************************************************************************)
WorkerGoto(c, w, from, to) ==
  /\ wpc[c][w] = from
  /\ wpc' = [wpc EXCEPT ![c][w] = to]

\* errs <- err; continue.  The send blocks while the channel is full.
SendErr(c, w, from) ==
  /\ errs[c] < cap[c]
  /\ errs' = [errs EXCEPT ![c] = @ + 1]
  /\ WorkerGoto(c, w, from, "range")
  /\ job' = [job EXCEPT ![c][w] = 0]

\* continue, with nothing to report.
NextTask(c, w, from) ==
  /\ WorkerGoto(c, w, from, "range")
  /\ job' = [job EXCEPT ![c][w] = 0]
  /\ UNCHANGED errs

TakeTask(c, w) ==
  /\ \E id \in tasks[c] :
       /\ \A other \in tasks[c] : id <= other
       /\ tasks' = [tasks EXCEPT ![c] = @ \ {id}]
       /\ \/ /\ canceled[c]
             /\ WorkerGoto(c, w, "range", "exit")
             /\ UNCHANGED job
          \/ /\ ~canceled[c]
             /\ WorkerGoto(c, w, "range", "fetch")
             /\ job' = [job EXCEPT ![c][w] = id]
  /\ UNCHANGED <<storeVars, worldVars, lockVars, callVars, localVars, cap, errs>>

RangeDone(c, w) ==
  /\ tasks[c] = {}
  /\ WorkerGoto(c, w, "range", "exit")
  /\ UNCHANGED <<storeVars, worldVars, lockVars, callVars, localVars, tasks, cap, errs, job>>

\* Mutant: a comic that is not there ends the worker, not the task.
FetchComicReturns(c, w) ==
  /\ \/ /\ ~canceled[c]
        /\ Fetchable(job[c][w])
        /\ WorkerGoto(c, w, "fetch", "add")
        /\ UNCHANGED <<errs, job>>
     \/ /\ ~canceled[c]
        /\ ~Fetchable(job[c][w])
        /\ WorkerGoto(c, w, "fetch", "exit")
        /\ job' = [job EXCEPT ![c][w] = 0]
        /\ UNCHANGED errs
     \/ SendErr(c, w, "fetch")
  /\ UNCHANGED <<storeVars, worldVars, lockVars, callVars, localVars, tasks, cap>>

FetchComic(c, w) ==
  /\ \/ /\ ~canceled[c]
        /\ Fetchable(job[c][w])
        /\ WorkerGoto(c, w, "fetch", "add")
        /\ UNCHANGED <<errs, job>>
     \/ /\ ~canceled[c]
        /\ ~Fetchable(job[c][w])
        /\ NextTask(c, w, "fetch")
     \/ SendErr(c, w, "fetch")
  /\ UNCHANGED <<storeVars, worldVars, lockVars, callVars, localVars, tasks, cap>>

AddComic(c, w) ==
  /\ \/ AddOK(c, job[c][w]) /\ NextTask(c, w, "add")
     \/ AddErr(job[c][w])   /\ SendErr(c, w, "add")
  /\ UNCHANGED <<worldVars, lockVars, callVars, localVars, tasks, cap>>

\* Mutant: errors are logged and forgotten.
JoinWorkersForgiving(c) ==
  /\ \A w \in Workers : wpc[c][w] = "exit"
  /\ Goto(c, "fetch", "publish")
  /\ UNCHANGED <<storeVars, worldVars, lockVars, reply, canceled, fetchVars, localVars>>

\* wg.Wait() returns; the first error, if any, is what Update returns.
JoinWorkers(c) ==
  /\ \A w \in Workers : wpc[c][w] = "exit"
  /\ \/ errs[c] > 0 /\ Resolve(c, "fetch", "setidle", "error")
     \/ errs[c] = 0 /\ Goto(c, "fetch", "publish") /\ UNCHANGED <<reply, canceled>>
  /\ UNCHANGED <<storeVars, worldVars, lockVars, fetchVars, localVars>>

PublishUpdated(c) ==
  /\ \/ PublishOK(c)  /\ Resolve(c, "publish", "setidle", "ok")
     \/ PublishErr(c) /\ Resolve(c, "publish", "setidle", "failed_publish")
  /\ UNCHANGED <<db, worldVars, lockVars, fetchVars, localVars>>

\* The deferred function: status first, then the mutex.
SetIdle(c) ==
  /\ Goto(c, "setidle", "unlock")
  /\ status' = "idle"
  /\ UNCHANGED <<storeVars, worldVars, mu, reply, canceled, fetchVars, localVars>>

UnlockUpdate(c) ==
  /\ Return(c, "unlock", reply[c])
  /\ mu' = NoCaller
  /\ existing' = [existing EXCEPT ![c] = {}]
  /\ last' = [last EXCEPT ![c] = 0]
  /\ tasks' = [tasks EXCEPT ![c] = {}]
  /\ cap' = [cap EXCEPT ![c] = 0]
  /\ errs' = [errs EXCEPT ![c] = 0]
  /\ UNCHANGED <<storeVars, worldVars, status, wpc, job, got>>

-----------------------------------------------------------------------------
(***************************************************************************)
(* Drop                                                                    *)
(***************************************************************************)
InvokeDrop(c) ==
  /\ c \in Droppers
  /\ Resolve(c, "idle", "lock", "none")
  /\ last' = [last EXCEPT ![c] = 0]
  /\ got' = [got EXCEPT ![c] = 0]
  /\ UNCHANGED <<storeVars, worldVars, lockVars, fetchVars, existing>>

\* Mutant: Drop relies on status alone.
DropLockNone(c) ==
  /\ Goto(c, "lock", "check")
  /\ UNCHANGED <<storeVars, worldVars, lockVars, reply, canceled, fetchVars, localVars>>

\* Lock waits, whatever becomes of the context.
DropLock(c) ==
  /\ mu = NoCaller
  /\ Goto(c, "lock", "check")
  /\ mu' = c
  /\ UNCHANGED <<storeVars, worldVars, status, reply, canceled, fetchVars, localVars>>

CheckStatus(c) ==
  /\ \/ status = "running" /\ Resolve(c, "check", "dunlock", "drop_update")
     \/ status # "running" /\ Goto(c, "check", "truncate") /\ UNCHANGED <<reply, canceled>>
  /\ UNCHANGED <<storeVars, worldVars, lockVars, fetchVars, localVars>>

DropTable(c) ==
  /\ \/ TruncateOK(c) /\ Goto(c, "truncate", "announce") /\ UNCHANGED <<reply, canceled>>
     \/ TruncateErr /\ Resolve(c, "truncate", "dunlock", "error")
  /\ UNCHANGED <<worldVars, lockVars, fetchVars, localVars>>

PublishDropped(c) ==
  /\ \/ PublishOK(c)  /\ Resolve(c, "announce", "dunlock", "ok")
     \/ PublishErr(c) /\ Resolve(c, "announce", "dunlock", "failed_publish")
  /\ UNCHANGED <<db, worldVars, lockVars, fetchVars, localVars>>

UnlockDrop(c) ==
  /\ Return(c, "dunlock", reply[c])
  /\ mu' = NoCaller
  /\ UNCHANGED <<storeVars, worldVars, status, fetchVars, localVars>>

-----------------------------------------------------------------------------
(***************************************************************************)
(* Stats reads the table, then asks xkcd.com.  Status reads the field.     *)
(***************************************************************************)
InvokeStats(c) ==
  /\ c \in Readers
  /\ Resolve(c, "idle", "statsdb", "none")
  /\ last' = [last EXCEPT ![c] = 0]
  /\ got' = [got EXCEPT ![c] = 0]
  /\ UNCHANGED <<storeVars, worldVars, lockVars, fetchVars, existing>>

StatsDB(c) ==
  /\ \/ /\ ~canceled[c]
        /\ Goto(c, "statsdb", "statslast")
        /\ got' = [got EXCEPT ![c] = Cardinality(db)]
        /\ UNCHANGED <<reply, canceled>>
     \/ Return(c, "statsdb", "error") /\ UNCHANGED got
  /\ UNCHANGED <<storeVars, worldVars, lockVars, fetchVars, existing, last>>

StatsLastID(c) ==
  /\ \/ /\ ~canceled[c]
        /\ Return(c, "statslast", "ok")
        /\ last' = [last EXCEPT ![c] = xkcdLast]
     \/ Return(c, "statslast", "error") /\ UNCHANGED last
  /\ UNCHANGED <<storeVars, worldVars, lockVars, fetchVars, existing, got>>

AskStatus(c) ==
  /\ c \in Readers
  /\ Resolve(c, "idle", "idle", status)
  /\ last' = [last EXCEPT ![c] = 0]
  /\ got' = [got EXCEPT ![c] = 0]
  /\ UNCHANGED <<storeVars, worldVars, lockVars, fetchVars, existing>>

-----------------------------------------------------------------------------
(***************************************************************************)
(* The surroundings: contexts, xkcd.com and the container runtime.         *)
(***************************************************************************)
Cancel(c) ==
  /\ pc[c] # "idle"
  /\ ~canceled[c]
  /\ canceled' = [canceled EXCEPT ![c] = TRUE]
  /\ UNCHANGED <<storeVars, worldVars, lockVars, pc, reply, fetchVars, localVars>>

NewComic ==
  /\ xkcdLast < MaxId
  /\ xkcdLast' = xkcdLast + 1
  /\ UNCHANGED <<storeVars, crashes, lockVars, callVars, fetchVars, localVars>>

\* The process dies and is restarted: the table is all that survives.
Crash ==
  /\ crashes < MaxCrashes
  /\ crashes' = crashes + 1
  /\ mu' = NoCaller
  /\ status' = NewStatus
  /\ pc' = [c \in Callers |-> "idle"]
  /\ reply' = [c \in Callers |-> IF pc[c] = "idle" THEN reply[c] ELSE "unavailable"]
  /\ canceled' = [c \in Callers |-> FALSE]
  /\ existing' = [c \in Callers |-> {}]
  /\ last' = [c \in Callers |-> IF pc[c] = "idle" THEN last[c] ELSE 0]
  /\ tasks' = [c \in Callers |-> {}]
  /\ cap' = [c \in Callers |-> 0]
  /\ errs' = [c \in Callers |-> 0]
  /\ wpc' = [c \in Callers |-> [w \in Workers |-> "exit"]]
  /\ job' = [c \in Callers |-> [w \in Workers |-> 0]]
  /\ got' = [c \in Callers |-> IF pc[c] = "idle" THEN got[c] ELSE 0]
  /\ UNCHANGED <<storeVars, xkcdLast>>

Invoke(c) == InvokeUpdate(c) \/ InvokeDrop(c) \/ InvokeStats(c) \/ AskStatus(c)

UpdateStep(c) ==
  \/ MarkRunning(c) \/ TryLockOK(c) \/ TryLockFail(c)
  \/ TryLockFailEarly(c) \/ MarkRunningLate(c)
  \/ StartRun(c) \/ ReadIDs(c) \/ ReadLastID(c) \/ JoinWorkers(c)
  \/ PublishUpdated(c) \/ SetIdle(c) \/ UnlockUpdate(c)

WorkerStep(c, w) ==
  TakeTask(c, w) \/ RangeDone(c, w) \/ FetchComic(c, w) \/ AddComic(c, w)

DropStep(c) ==
  \/ DropLock(c) \/ CheckStatus(c) \/ DropTable(c)
  \/ PublishDropped(c) \/ UnlockDrop(c)

\* Mutant: Stats asks xkcd.com first.
StatsStepSwapped(c) ==
  \/ /\ ~canceled[c]
     /\ Goto(c, "statsdb", "statslast")
     /\ last' = [last EXCEPT ![c] = xkcdLast]
     /\ UNCHANGED <<storeVars, worldVars, lockVars, reply, canceled, fetchVars, existing, got>>
  \/ /\ ~canceled[c]
     /\ Return(c, "statslast", "ok")
     /\ got' = [got EXCEPT ![c] = Cardinality(db)]
     /\ UNCHANGED <<storeVars, worldVars, lockVars, fetchVars, existing, last>>

StatsStep(c) == StatsDB(c) \/ StatsLastID(c)

Next ==
  \/ \E c \in Callers :
       \/ Invoke(c) \/ Cancel(c)
       \/ UpdateStep(c) \/ DropStep(c) \/ StatsStep(c)
       \/ \E w \in Workers : WorkerStep(c, w)
  \/ NewComic
  \/ Crash

Spec == Init /\ [][Next]_vars

(***************************************************************************)
(* The Go scheduler runs every goroutine that can run, every remote call   *)
(* is answered, and sync.Mutex hands itself to a waiter that has been      *)
(* passed over, so a Drop whose Lock is enabled again and again gets it.   *)
(* Clients, cancellations, new comics and crashes are not forced.          *)
(***************************************************************************)
Fairness ==
  \A c \in Callers :
    /\ WF_vars(UpdateStep(c))
    /\ WF_vars(DropStep(c))
    /\ SF_vars(DropLock(c))
    /\ WF_vars(StatsStep(c))
    /\ \A w \in Workers : WF_vars(WorkerStep(c, w))

FairSpec == Spec /\ Fairness

-----------------------------------------------------------------------------
(***************************************************************************)
(* Properties                                                              *)
(***************************************************************************)
\* An Update past its TryLock, up to the moment it gives the mutex back.
Updating(c) == pc[c] \in {"locked", "ids", "lastid", "fetch", "publish", "setidle", "unlock"}
Dropping(c) == pc[c] \in {"check", "truncate", "announce", "dunlock"}

\* While an Update works, status says so: no refused Update, no other call
\* and no late write makes Status answer "idle" (or lets the check in Drop
\* pass) before the deferred function of that Update has run.
RunningWhileUpdating ==
  \A c \in Callers :
    pc[c] \in {"ids", "lastid", "fetch", "publish", "setidle"} => status = "running"

\* The nil that Update returns means that every comic up to the newest it saw
\* is stored, but for those xkcd.com has no page for, and that what it stored
\* was announced, whichever worker failed, was canceled or came last.  The
\* nil that Drop returns means the table is empty and that was announced.
Done(c) ==
  reply[c] = "ok" =>
    /\ pc[c] \in {"setidle", "unlock"} =>
         /\ (1..last[c]) \ Skipped \subseteq db
         /\ cap[c] > 0 => announced
    /\ pc[c] = "dunlock" => db = {} /\ announced

OkMeansDone == \A c \in Callers : Done(c)

\* No INSERT meets a row that is there: neither another worker nor another
\* Update has taken the same id, so DB.Add never fails on the primary key.
NoConflictingInsert ==
  \A c \in Callers : \A w \in Workers : wpc[c][w] = "add" =>
    /\ job[c][w] \notin db
    /\ \A other \in Workers \ {w} :
         wpc[c][other] \in {"fetch", "add"} => job[c][other] # job[c][w]

\* The channel errs is drained only after wg.Wait, so a worker that could
\* meet a full channel would wait for ever and Update would never return.
ErrsNeverFull ==
  \A c \in Callers : \A w \in Workers :
    wpc[c][w] \in {"fetch", "add"} => errs[c] < cap[c]

\* Rows disappear only when no Update is between TryLock and Unlock: the ids
\* that an Update has found in the table stay there until it returns.
TruncateExcludesUpdate ==
  [][~(db \subseteq db') => \A c \in Callers : ~Updating(c)]_vars

\* Stats never reports more comics fetched than comics in total, although it
\* takes the two numbers at two moments and Update may run between them.
StatsConsistent ==
  \A r \in Readers : pc[r] = "idle" /\ reply[r] = "ok" => got[r] <= last[r]

(***************************************************************************)
(* The inductive invariant behind them.  The mutex makes everything an     *)
(* Update has read of the table stay true until it returns; every id it    *)
(* set out to fetch is stored, in the channel, in the hands of one worker, *)
(* or lost to an error or a cancellation that Update will hear of.         *)
(***************************************************************************)
LockOwned == \A c \in Callers : Updating(c) \/ Dropping(c) <=> mu = c

WorkersInFetch ==
  \A c \in Callers : \A w \in Workers : wpc[c][w] # "exit" => pc[c] = "fetch"

Busy(c, w) == wpc[c][w] \in {"fetch", "add"}

Wanted(c) == (1..last[c]) \ existing[c]

\* The locals of an Update are as declared until it assigns them.
Fresh(c) ==
  /\ pc[c] \notin {"idle", "fetch", "publish", "setidle", "unlock"} => last[c] = 0
  /\ pc[c] \notin {"fetch", "publish", "setidle", "unlock"} => cap[c] = 0 /\ errs[c] = 0
  /\ pc[c] = "lastid" => existing[c] = db

\* No id is in two places, and none that is in hand is in the table.
Disjoint(c) ==
  pc[c] = "fetch" =>
    /\ tasks[c] \subseteq Wanted(c) \ db
    /\ \A w \in Workers : Busy(c, w) =>
         /\ job[c][w] \in (Wanted(c) \ db) \ tasks[c]
         /\ wpc[c][w] = "add" => job[c][w] \notin Skipped
         /\ \A other \in Workers \ {w} : Busy(c, other) => job[c][other] # job[c][w]

InHand(c, id) == id \in tasks[c] \/ \E w \in Workers : Busy(c, w) /\ job[c][w] = id

Accounted(c) ==
  /\ pc[c] = "fetch" =>
       \/ errs[c] > 0
       \/ canceled[c]
       \/ /\ \A id \in (1..last[c]) \ Skipped : id \in db \/ InHand(c, id)
          /\ (\E w \in Workers : wpc[c][w] = "exit") => tasks[c] = {}
  /\ pc[c] = "publish" => canceled[c] \/ (1..last[c]) \ Skipped \subseteq db
  /\ pc[c] = "announce" => db = {}

\* Every error still to come has its place in the channel errs.
Roomy(c) ==
  pc[c] = "fetch" =>
    errs[c] + Cardinality(tasks[c]) + Cardinality({w \in Workers : Busy(c, w)}) <= cap[c]

IInv ==
  /\ LockOwned
  /\ WorkersInFetch
  /\ RunningWhileUpdating
  /\ \A c \in Callers : Fresh(c) /\ Disjoint(c) /\ Accounted(c) /\ Roomy(c)
  /\ OkMeansDone

\* Every call returns, whatever fails, is canceled or is going on beside it.
CallReturns == \A c \in Callers : pc[c] # "idle" ~> pc[c] = "idle"

\* errors.go calls ErrDropUpdate "cant drop during update": a Drop is refused
\* with it only while some call of Update is in progress.
DropRefusedOnlyDuringUpdate ==
  [][\A d \in Droppers :
       pc[d] = "check" /\ pc'[d] = "dunlock" /\ reply'[d] = "drop_update"
         => \E c \in Updaters : pc[c] # "idle"]_vars

=============================================================================

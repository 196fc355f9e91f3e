# xkcd-comics-parser in TLA+

TLA+ modules, TLC configurations and TLAPS proofs for the Go services under
`search-services/`. Paths below are relative to that directory.

## 1. The system

| Component | State it keeps | Operations | Talks to |
| --- | --- | --- | --- |
| **Update service** (`update/`) | table `comics` in PostgreSQL; in memory a mutex `mu` and a field `status` | `Update`, `Drop`, `Stats`, `Status` (gRPC) | xkcd.com over HTTP, Words over gRPC, PostgreSQL, NATS (publishes `xkcd.db.updated`, `xkcd.db.dropped`) |
| **Search service** (`search/`) | an inverted index in memory behind an `RWMutex`; nothing on disk | `Search` (asks the table), `SearchIndex` (asks the index), `Rebuild` (gRPC); a ticker loop and a NATS subscriber that rebuild the index | PostgreSQL (the same table), Words, NATS |
| **Words service** (`words/`) | none | `Norm`: stop words, stems, no duplicates, a limit on the phrase | - |
| **API gateway** (`api/`) | slots of a semaphore, a rate limiter; tokens are held by clients | HTTP handlers for search, update, drop, stats, status, login, ping; web pages | the three services over gRPC |
| **Contracts** (`proto/`) | - | generated | - |
| **Deployment** (`compose.yaml`) | which containers run; the version `golang-migrate` keeps in the database; each NATS connection | start, migration, SIGINT, kill, restart | everything above, PostgreSQL and NATS |
| **Metrics and build** (`metrics/`, `Makefile`) | - | - | - |

Search and Update share the table and nothing else. The only thing the update
service ever tells the search service is a NATS message without content, which
core NATS delivers at most once; the search service then reads the whole table.

### What is hard

* **Update**: handlers run concurrently and write `status` before they own the
  mutex; an `Update` spreads its work over goroutines that share two channels;
  each comic costs three remote calls that may fail, be cancelled, or succeed
  without the caller learning of it; `Drop` wants the same table; the process
  may die anywhere, and only the table survives.
* **Search**: three kinds of callers rebuild the index concurrently and read
  the table before they take the lock; searches read under the read lock, look
  the comics up after releasing it, and see the table in another state; events
  get lost; the process is interrupted, dies and starts with an empty index.
* **Ranking**: the index and SQL compute the same rank in two different ways.
* **Gateway**: bounded concurrency, a 64-bit limit squeezed into 32 bits,
  errors that are mapped to statuses or to nothing, tokens that expire.
* **The two services together**: a change of the table and the event about it
  are two steps, the event may be lost, and a Rebuild it causes may be overtaken
  by an older one.
* **Deployment**: services need PostgreSQL and NATS to start and die without
  them; a migration may be cut off; whatever dies leaves requests behind, and no
  request has a deadline.

### What makes each part correct

* *Update*: success means that the table is complete (or empty) and that this
  was announced; two calls never work on the table at once; no insert collides;
  `Status` does not deny a running `Update`; every call returns.
* *Search*: an answer is scored against one state of the index; the lock never
  forgets a reader or a writer; the index catches up with the table whatever
  was lost; every call returns.
* *Ranking and words*: both searches find the same comics in the same order,
  and that is the order a reader of the texts would expect.
* *Gateway*: a slot comes back on every way out of a handler; a valid limit is
  the limit that is used; an answer that looks like data is data; a token lets
  a client in from login to expiry and no longer.
* *Together*: the index is behind the table only while an event is under way or
  for a reason that can be named; what an `Update` answered for is found.
* *Deployment*: no service serves a table that is not made; what can come up
  does, however it went down; every request ends; a service that is asked to
  stop cuts nobody off; a ping says `ok` only of what has served meanwhile.

`PROJECT.json` lists every component with what is left out of it, every hazard
with its line and the properties aimed at it, and the source lines each
definition models.

## 2. The modules

| Module | Role |
| --- | --- |
| `ComicStore` | abstract: what clients of `Update` and `Drop` are promised |
| `UpdateService` | the update service, one action per step between two points where another goroutine can get in |
| `UpdateServiceStore` | refinement mapping from `UpdateService` to `ComicStore` |
| `UpdateService_proofs` | theorems about `UpdateService` |
| `UpdateServiceStore_proofs` | that `UpdateService` implements `ComicStore`, and `StatsConsistent` |
| `Ranking` | pure: postings, scores, order, limit; of the index and of SQL |
| `SearchPromise` | abstract: what clients of the two searches are promised |
| `SearchIndex` | the search service |
| `SearchIndexPromise` | refinement mapping from `SearchIndex` to `SearchPromise` |
| `SearchIndex_proofs` | theorems about `SearchIndex`, and that it implements `SearchPromise` |
| `Words` | pure: `Norm` and its limit |
| `RankedSearch` | `Words` and `Ranking` composed, from texts to answers |
| `Ranking_proofs`, `RankedSearch_proofs` | theorems about `Ranking`, and about `Words` and `RankedSearch` |
| `Gateway` | the API gateway: middleware, handlers, tokens, gRPC clients |
| `Gateway_proofs` | theorems about `Gateway` |
| `Pipeline` | `SearchIndex` composed with `ComicStore` over the table and NATS |
| `Pipeline_proofs` | theorems about `Pipeline` |
| `Deployment` | the stack: start, stop and restart of every process, and what becomes of requests |
| `Deployment_proofs` | theorems about `Deployment` |
| `MCUpdateService`, `MCSearchIndex`, `MCRankedSearch`, `MCGateway`, `MCPipeline`, `MCDeployment` | instances for TLC |

Operators whose comment begins with "Mutant" are not part of a specification.
Each is a wrong version of the definition below it, the kind of mistake this
code could have had, and breaks one of the properties when it takes that
definition's place.

### UpdateService and the code

A client of the service is a constant; its call is a handler goroutine whose
position is `pc`. The locals of `Update` (`existing`, `lastId`, the channels
`tasks` and `errs`) are functions over clients, and the workers of one `Update`
have their own `wpc` and `job`. `db`, `mu` and `status` are shared.

* A comic is its id: `ParseXKCD` takes the id from the same document that was
  asked for, and url and words are functions of it.
* `tasks` is a set received lowest first: it is filled in that order and closed
  before the first worker starts. Of `errs` only the number matters, because
  `Update` returns the first and clients see any error alike. The capacity is
  `cap`; a send blocks when it is reached.
* `FetchComic` is `xkcd.Get` and `words.Norm` together: neither changes anything
  another process can see. Comic 404 has no `Get`; ids for which xkcd.com
  answers 404 are `Absent` and are passed over, comic 404 itself is stored.
* A statement may fail after it was executed (`AddErr`, `TruncateErr`), a flush
  after the event was sent (`PublishErr`). It has taken effect, or never will,
  by the time the caller sees the error: a statement that PostgreSQL executes
  after that is not modelled.
* `canceled` is the handler's context. A call on a context that is done fails,
  a worker that finds it done leaves without an error.
* **The race on `status`.** `Update` writes it before `TryLock`, so that write
  races with every other access. A string is two words and a torn read could
  mix the length of one constant with the bytes of the other. Such a value is
  not equal to `"running"`, which is the only thing anybody compares with, so
  it acts as idle. The write may also become visible late: that is
  `TryLockFailEarly` followed by `MarkRunningLate`.
* `TryLock` fails exactly when `mu` is held. A failure in the moment in which
  `Unlock` hands the mutex over to a queued `Lock` is the same as one after it.
* `Drop` waits for a running `Update` and is not refused by it: `mu.Lock` comes
  before the look at `status`.
* `Crash` is the death of the container followed by its restart.
* `ReadersAssumption`: a client of `Stats` and `Status` is not one of `Update`
  or `Drop`. Clients are calls, so this only says which call is which.

### SearchIndex and the code

`Rebuilders` are the two loops and the clients of the RPC `Rebuild`, `Searchers`
the clients of the two searches. `LoadOK`/`LoadErr`, `Lock`, `Install` are
`Index.Rebuild` cut where others can get in; `Norm`, `RLock`, `CountWord` (one
turn of the loop over the words), `RUnlock` and `FetchComics` are
`SearchService.SearchIndex` with `Index.Search`; `Norm`, `CountRows`,
`SelectRows` are `SearchService.Search` with `DB.IDs`.

* `RWMutex` is `writer`, `readers` and `queued`, by its documented behaviour: a
  writer that has called `Lock` keeps new readers out and waits for those
  inside; `Unlock` lets in all readers that waited.
* `tick` is the ticker's channel of one element, `pending` the subscription.
  `Deliver` may happen at any time or never. So events may be lost, duplicated,
  late, or never come again because the NATS client has given up reconnecting.
* `Interrupt` is SIGINT: the context of the loops is done, the server takes no
  new calls and `Exit` follows when those in progress are over. `Crash` needs no
  such notice. Either is followed by a new process with an empty index.
* The update service is `InsertRow` and `TruncateTable`, at any time.
* Limits are any integers: the handler passes on what the wire has.
* `answer` is kept until the client asks again.
* `SearchPromise` knows nothing of words: how an index is made, scored and
  ranked are operators among its constants, and `SearchIndexPromise` gives them
  the operators of `Ranking`. That `SearchIndex` implements it therefore does
  not depend on how comics are ranked.

### Words and Ranking

A phrase is a sequence of lower-case words; splitting and case are left out.
`Stem` is any function and `StopWords` any set. Text and phrase are normalised
by the same operator. `Points` (index) counts words of the query that have the
comic in their postings, `Matches` (SQL) counts words of the comic that are in
the query; that the two orders agree rests on `Norm`. `RankSeq` is what
`sort.Slice` and `ORDER BY` leave behind: at place n stands the comic that
exactly n - 1 others outrank. `Norm` is the loop over the words of the phrase, a
fold that keeps a stem it has not kept yet.

### Gateway and the code

Each client has one request at a time, the goroutine that serves it is at `pc`;
`Entry` is the routing of `main`: `/api/search` begins at the semaphore,
`/api/isearch` at the limiter, the guarded routes at the token check, and the
search page, as in the code, passes none of them.

* `sema` is the number of elements in the channel of `Concurrency`; the deferred
  receive is part of `Answer`, which is how every handler ends.
* The limiter is `go.uber.org/ratelimit` as `rate.go` uses it: `Take` gives the
  next permit and sleeps until it is due, whether or not the client has left.
  `ahead` is how far the last permit lies in the future, a tick is the time
  between two permits.
* Validation is `Acceptable`. A limit that is missing is `minLim`; one that is
  no number is answered like any other that is not positive. `WireLimit` is what
  the clients of the search service send, `Narrow` is `int32(limit)`, with `Half`
  for 2^31. A request without a phrase has the default limit: the API looks at
  the phrase first, and the page shows its form again either way.
* The services answer as their own modules let them: `Selected` and `Indexed`
  say how many comics come back (the total, which the handlers pass on, is left
  to `PagesFit` of `SearchIndex`), `Outcomes` how a call of the update service
  may end. A call whose context is done, because the client has gone or the
  process is interrupted, does not succeed.
* `resp` is what the client gets, with the error of the call behind it, which
  for `Client.Stats` and the forms of the admin page is all that is left of it.
* A token is what is left of its lifetime (`left`) and, for the properties
  only, its age. A client holds one at most; a forged one and one that was
  given up are like one that has expired.
* `Interrupt` is SIGINT. `main` returns as soon as `ListenAndServe` does, so
  `Exit` cuts requests off. `docker restart` sends SIGTERM, which the process
  does not catch: a `Crash`. Requests may still arrive between the interrupt and
  the exit.

`/api/ping` is in `Deployment`; `/metrics` changes nothing and is left out.

### Pipeline and the code

`Pipeline` EXTENDS `SearchIndex` and takes an instance of `ComicStore` for the
update service: the two share `db`. `ComicStore` may stand for `UpdateService`
because that implements it (`UpdateServiceImplementsStore`).

* In `SearchIndex` alone the table changes and events arrive at any time. Here
  rows come from `Store!Insert` and `Store!Empty`, and `Deliver` is only taken by
  `PassOn`, for an event that `PublishEvent` has put on `wire`.
* `wire` is what NATS holds, in order. `Lose` is any reason it has not to pass an
  event on: nobody has subscribed, the subscriber is away or slow.
* `Subscribed` is the pattern `xkcd.db.*` of the subscriber against the two
  subjects of the publisher, literals in two programs.
* A failed publish after which the event still arrives is `PublishEvent` followed
  by `EndCall` with an error; one after which it does not is `EndCall` alone. All
  errors count as one: the search service sees none of them.
* The search service does all that it does in `SearchIndex`, searches included.
  The run has no searcher: a search holds the read lock for a while and so delays
  `Install`, a call in progress delays `Exit`, and both may be late anyway. With
  one searcher and without the `Rebuild` call the instance has 11,771,248 states,
  too many for a run of five minutes (`PipeIInv`, `PagesFit` and `UpdatedIsFound`
  hold in all of them); the theorems cover any number.
* `excuse` and `settled` are what an observer of both services writes down: that
  the index is behind for a reason that has passed, and which ids were answered
  for by an `Update` since a `Drop` was last called.

### Deployment and the code

`phase` is where the run function of each process stands: before its next call
that can fail. `db`, `index`, `migrate`, `migrating`, `broker` are those calls in
the order of `main.go`; gRPC clients connect when they are first used and cannot
fail to be made. A process whose call fails is `off`, and `Start`s again.

* `Migrate` is `golang-migrate`'s `Up`: it marks the version dirty, runs the
  file, marks it clean; it does nothing for a version that is there and fails
  for a dirty one.
* `conn` is the NATS connection: made once at the start, lost when NATS goes
  down, made again by `nats.go` or given up for good.
* `Interrupt` is SIGINT to a gRPC service: `GracefulStop` refuses new calls,
  `Exit` waits until `Handling` is empty and runs the deferred functions. `Kill`
  is a crash, which waits for nothing. The gateway has no such patience, see
  above. A container that somebody stops by hand stays stopped under
  `unless-stopped`; that is not in the model.
* `initiator.New` answers a TTL it cannot parse with a nil pointer. `run` starts
  the goroutine and serves; `NilInitiator` is the panic that follows.
* A request is `asking` before its gRPC call, `handled` in the service,
  `answered` on its way back, `orphaned` when the gateway is gone and the handler
  is not. `Cut` is what becomes of it when a process ends: how `grpc-go` and
  `net/http` behave is assumed, not shown. What the handler does is the business
  of the other modules. A connection ends with a process; one that is cut while
  both ends live (a partition) is not in the model.
* A ping is `pinging`; each of its goroutines is `Ping`, which writes one entry of
  `replies`; `PingReply` is what follows `wg.Wait`. `seen` is for the properties.

## 3. What TLC checks

Times are with two workers on a small machine.

| Run | Instance | States | Shows |
| --- | --- | --- | --- |
| `update_drop` | 2 `Update`s of 2 workers, a `Drop`, 3 comics, one of them 404 and one absent, 1 crash; symmetric clients and workers | 348,063 (20 s) | type invariant, inductive invariant, `RunningWhileUpdating`, `OkMeansDone`, `NoConflictingInsert`, `ErrsNeverFull`, `TruncateExcludesUpdate`, and that `UpdateService` implements `ComicStore` |
| `update_live` | an `Update` of 2 workers, a `Drop`, a client of `Stats` and `Status`, 2 comics, one of them 404 and absent | 141,933 (110 s) | `CallReturns`: nothing waits for ever, neither on `mu` nor on a channel; `StatsConsistent`: the two numbers of `Stats`, taken at two moments, never say that more comics are stored than exist |
| `stale_running` | 2 `Update`s, a `Drop`, 1 worker, 1 comic | | violation, see section 5 |
| `search_index` | 1 search, both loops, 2 comics of which one has all the words of the other, queries of 0 to 2 words, limits -1, 1, 2 | 787,200 (60 s) | `CountsOneIndex`, the lock and count invariant `IInv`, `PagesFit`: no page names a comic twice or outgrows its limit or its total; and that `SearchIndex` implements `SearchPromise` |
| `search_live` | 1 search, both loops, a `Rebuild` call, 1 comic, 1 interrupt or crash | 145,952 (90 s) | `FreshIndex`: the index catches up with a table that is left alone; `CallReturns` |
| `lost_rank` | 1 search, 2 comics | | violation, see section 5 |
| `ranked_search` | texts and phrases of up to 3 words out of 4 (one a stop word, two with one stem), 2 comics, a limit of 2 words on a phrase, limits 0 to 2 | 30,492 (10 s) | `SearchesAgree`, `AnswersByMeaning` |
| `gateway` | 2 clients of all kinds of routes, 1 slot, 1 unused permit kept, tokens of less than a tick, limits -5, 1, 2, 4 on a wire of 3 bits, searches that find up to 2 comics, 1 restart | 712,916 (115 s) | `SlotsExact`, `RefusedOnlyWhenFull`, `AnswersFit`, `PermitsDistinct`, `TokensLastTheirTime`; `GateReopens`: a full semaphore gets free again |
| `lost_limit` | 1 client, limits -1, 0, 2, 4, 9 | | violation, see section 5 |
| `silent_stats` | 1 client | | violation, see section 5 |
| `pipeline` | an `Update`, a `Drop`, both loops and a `Rebuild` call, 1 comic, 1 event on the wire and 1 in the subscription, a restart of either service | 3,702,822 (100 s) | inductive invariant `PipeIInv`; `StalenessExplained`: an index behind the table has an event under way or a known reason; `UpdatedIsSearchable`: what an `Update` answered for is in the index once its event has been followed up |
| `deployment` | 1 user of the update and the search service and of pings, a new or an old volume, a good or a bad TTL, 3 faults | 146,352 (35 s) | `ServingMeansMigrated`, `PingTruthful`, `CutOffOnlyByFault`; `StackComesUp`, `NoServiceWithoutInitiator`, `RequestsEnd` |

`ComicStore` and `SearchPromise` are the strongest statements: they have no
lock, no status, no channel and no loop, and the runs check that every step of
the detailed specification is one of theirs or invisible to the client.

### Bounds

* **Clients.** What two `Update`s and a `Drop` can do to each other goes through
  `mu` and `status`. A third `Update` could only be refused once more. The
  theorems cover any number. For the liveness one `Update` is enough: a second
  never waits for the first, `TryLock` refuses it at once. What can wait is a
  `Drop`, for any `Update`, and the parts of one `Update` for each other.
* **Workers and comics.** Two workers and three ids are enough for one worker to
  fail while the other stores, for a worker to leave on a done context while
  the other has work, and for more errors than workers: a capacity of one error
  per worker is found out.
* **Restarts** (`MaxCrashes`, `MaxRestarts`). Nothing but the table survives a
  restart, so the state after the second is one that is possible after the
  first.
* **Messages** (`MaxPending`). A message has no content; more of them only make
  the subscriber rebuild again.
* **Comics of the index.** Two, one contained in the other, give equal and
  different scores, ties broken by id, limits that cut and limits that do not.
* **Requests at the gate.** Two for one slot: full, refused, and both on their
  way at once. `SemaphoreIsExact` and `RefusalIsTrue` cover any number of either.
* **The wire.** Three bits hold -4 to 3: 4 becomes negative and 9 becomes 1, as
  2^31 and 2^32 + 1 do in the code, and -5, were it let through, would become 3.
  `MaxFound`, the most comics a search finds, is above the smallest limit, so a
  page for limit 1 is too long if the service was asked for the default.
* **Time.** Two clients can both wait for the limiter, with permits after one
  that was used up before. A token of `TokenTTL` 0 is good until the next tick
  and expired after it; `TokensExpireOnTime` covers any lifetime.
* **The pipeline.** One comic, inserted and dropped, makes the table and the index
  differ in both directions, and a `Rebuild` with the older copy can come last.
  The theorems cover any number of comics, clients and messages.
* **Faults** (`MaxFaults`). Three: enough for a migration that is cut off, a
  service that dies at its next start and NATS away besides. The invariants are
  proved for any number.
* **`MaxId`** is where xkcd.com stops publishing; it bounds `NewComic`.

Deadlock is checked in every run. A client can always call again, so there is
no state in which the system may stop.

### Fairness

`FairSpec` of `UpdateService`: weak fairness for every step of a call and of a
worker, because the Go scheduler runs every goroutine that can run and the
remote calls have timeouts or are answered; strong fairness for `DropLock`,
because `sync.Mutex` switches to hand-off after a waiter has been passed over
for a millisecond. Clients, cancellation, new comics and crashes are not
forced.

`FairSpec` of `SearchIndex`: the same for searches and rebuilds; strong
fairness for `Lock`, because `RWMutex` queues its writers on such a mutex; weak
fairness for `Tick`, `TakeTick`, `TakeMessage` and `Exit`. Strong fairness for
`LoadOK(initiator)` is the assumption about PostgreSQL: a read that is tried
for ever does not fail for ever. `Deliver` and the reads of the subscriber and
of the RPC have none: `FreshIndex` holds even if no event ever arrives.

`FairSpec` of `Gateway`: weak fairness for the steps of each request and for
time. The gateway sets no deadline on its calls (`ReadTimeout` ends with the
request's body), so this includes the assumption that the services answer, which
`CallReturns` of their own modules supports. Clients and the process are not
forced.

`FairSpec` of `Deployment`: weak fairness for every process's next call of its
start, because Docker restarts what has ended (`restart: unless-stopped`) and
each call succeeds or fails; for `Exit`; for `nats.go` trying again or giving up;
for the return of PostgreSQL, which has such a policy too; and for every request,
because calls of the services return (`CallReturns`). NATS has no restart policy,
so its `Up` is not forced, and `StackComesUp` promises a service only what NATS
allows. Users and faults are not forced; that faults are finitely many is what
"in the end" of `StackComesUp` rests on.

## 4. What is proved

For every number of clients, workers, comics, words, messages and faults. The assumptions are the
named ones of the modules, which TLC evaluates in every run.

`UpdateService_proofs`

| Theorem | |
| --- | --- |
| `TypeCorrect` | `TypeOK` |
| `Invariance` | `TypeOK /\ IInv`, the inductive invariant |
| `SuccessIsReal` | `OkMeansDone` |
| `StatusIsTrue` | `RunningWhileUpdating` |
| `InsertsAreNew` | `NoConflictingInsert` |
| `ErrorsHaveRoom` | `ErrsNeverFull` |
| `TruncateIsExclusive` | `TruncateExcludesUpdate`, an action property |

The argument: whoever is between lock and unlock is the one `mu` names
(`LockOwned`), so no two of them are; therefore what an `Update` read of the
table stays true (`Fresh`, `Disjoint`) but for the rows its own workers add.
Every id it set out for is stored, in the channel, in the hands of exactly one
worker, or lost to an error or a done context (`Accounted`); the error stops
success in `JoinWorkers`, the done context in `PublishOK`. `OkMeansDone` alone
is not inductive: it says nothing of the ids still on their way. The room in
`errs` is counted over the ids in the channel, those in hand and the errors
already there (`Roomy`): their sum never grows.

`UpdateServiceStore_proofs`

| Theorem | |
| --- | --- |
| `StoreInvariance` | `StoreIInv`, the inductive invariant behind the other two |
| `UpdateServiceImplementsStore` | `ImplementsComicStore`, a refinement |
| `StatsAddUp` | `StatsConsistent` |

The argument: each action is a step of the store or invisible, and which one is
decided by where the call stands. This needs more than `IInv`: `Role`, which
calls can stand where; `Verdict`, what the value about to be returned says of the
work done; `Bounded`, that `lastId` never exceeds what xkcd.com has; and for
`Stats`, `Counted`: what it has counted stays below what it will ask for, because
rows have ids up to the newest one and xkcd.com takes no comic back.

`SearchIndex_proofs`

| Theorem | |
| --- | --- |
| `StateTyped` | `StateOK`: the types of all variables but `answer` |
| `LockDiscipline` | `IInv` |
| `SearchSeesOneIndex` | `CountsOneIndex` |
| `AnswersSound` | `AnswerInv`: the type of `answer`, `PagesFit`, and what a search has found when it goes to look it up |
| `SearchTypeCorrect`, `PagesAlwaysFit` | `TypeOK`, `PagesFit` |
| `SearchIndexImplementsPromise` | `ImplementsSearchPromise`, a refinement |
| `FreshIndexAgreesWithSQL` | if no comic has a word twice: a search that has counted the last word of a query without duplicates, in an index that is up to date, looks up the comics SQL would select |

The argument: the lock knows who is inside and who waits (`LockSound`), so the
index is replaced only when nobody is inside; whoever is let in by that
`Unlock` has counted nothing yet (`NothingCounted`), and has therefore counted
nothing in the old index. One more word raises the count of exactly the comics
that have it (`OneMore`).

`PagesFit` is about the moment the answer is made, but a page is made of what was
chosen before the lock was released. `FetchWanted` carries over what the early
returns of `Index.Search` have established: whoever looks comics up has found
some and may return some. With that, and because the ids are the first of a
ranking that has each comic once (`GivenBest`), there are no more of them than
the limit or the total, whatever has become of the table.

For the refinement, a search is scored in the step that releases the read lock.
By then it has counted every word of its query in one index (`CountsOneIndex`),
which is what the promise scores in one step (`CountedAll`). `Routed` keeps a
search of the index and one of the table on their own paths.

`Ranking_proofs`

| Theorem | |
| --- | --- |
| `RankSeqRanks` | the ranking has every comic with points once, and each before those it outranks |
| `GivenBest` | cut at a limit, it has the best: a comic that is left out has no points, or the page is full of comics that outrank it |
| `SameIds` | the index and SQL give the same ids in the same order, if no comic and no query has a word twice |

The argument: a comic outranks another if it is above it for points or, with
equal points, for its id; so no two comics have the same number of comics above
them, and of n comics that number is below n. A one-to-one map of a finite set
into one of its own size is onto: every place is taken, by one comic. For
`SameIds`, both counts are the number of words the comic and the query share
(`CountsShared`), each counted over places that are one-to-one with these words.

`RankedSearch_proofs`

| Theorem | |
| --- | --- |
| `NormStems` | `Norm` returns the stems of the words that are no stop words, each once |
| `RankedInvariance` | `RankedInv`: rows are the normal forms of the texts, the two answers those to the last phrase over the rows as they still are |
| `RankedTypeCorrect` | `TypeOK` |
| `BothSearchesAgree` | `SearchesAgree` |
| `AnswersAreByMeaning` | `AnswersByMeaning` |

The argument: neither agreement nor meaning is inductive, because the next answer
depends on the rows, so `RankedInv` says where the rows come from. `NormStems`
then gives what `SameIds` and `GivenBest` ask for. It is about a fold over a
phrase of any length. That the fold is defined (`FoldExists`) and that it keeps
the stems of the first k words, each once (`KeptUpTo`), are inductions, and the
library's induction theorems cannot be used here; both are proved by the least k
for which they would fail, which exists because the numbers are well-founded.

`Gateway_proofs`

| Theorem | |
| --- | --- |
| `GatewayInvariant` | `IInv`, which the others rest on: `TypeOK`, `SlotsExact`, and `Stages` and `Asked`, which only the proofs need |
| `SemaphoreIsExact` | `SlotsExact` |
| `RefusalIsTrue` | `RefusedOnlyWhenFull`, an action property |
| `AnswersAlwaysFit` | `AnswersFit`, an action property |
| `GatewayTyped` | `TypeOK` |
| `PermitsAreDistinct` | `PermitsDistinct` |
| `TokensExpireOnTime` | `TokensLastTheirTime`, an action property |

The argument: a request of `/api/search` has a slot from the gate to its answer,
and `Stages` keeps every other request out of the gate, so the set of those who
have one grows and shrinks with `sema`, one at a time. `SlotsExact` alone is not
inductive: it does not know that whoever leaves the gate is a search. That an
answer fits rests on `Asked` (what is sent was looked at, then narrowed) and on
`NarrowShrinks`: narrowing never makes a limit larger. That two searches never wait
for one permit needs `Due`: whoever waits has a permit no later than the last
one given, so the next one is later than all. That a token lasts its time needs
`LifetimeKept`: what is left of it and its age always add up to `TokenTTL`.

`Pipeline_proofs`

| Theorem | |
| --- | --- |
| `PipelineImplementsSearchIndex` | the composition is a `SearchIndex`: all that is proved of that holds in it |
| `PipelineImplementsComicStore` | and a `ComicStore` |
| `PipelineInvariant` | `PipeIInv` |
| `PipelineStalenessExplained` | `StalenessExplained` |
| `PipelineUpdatedIsSearchable` | `UpdatedIsSearchable` |
| `PipelineImplementsSearchPromise` | `ImplementsSearchPromise`, in the composition |
| `PipelineUpdatedIsFound` | `UpdatedIsFound`: from the `Update` to the page of a search |

The argument: `StalenessExplained` says nothing of what the last `Rebuild` under
way has in its hands. `FollowedUp` does: if a `Rebuild` of the subscriber is all
that is left of an event, it has yet to read the table or holds a copy that is
up to date. An owner that changes the table clears `told`, so until it publishes
there is nothing to show; an older copy installed over a newer one is what
`excuse` records. `UpdatedIsSearchable` follows, because only a `Drop` takes
away what was `settled`. `UpdatedIsFound` adds the search: a search that has
counted its last word has counted all of them in the index that is in use
(`CountedAll`), which by then has the comic.

`Deployment_proofs`

| Theorem | |
| --- | --- |
| `DeploymentInvariant` | `DeployIInv`, which the others rest on: `TypeOK`, `ServingMeansMigrated`, and `RepliesSound` and `Attended`, which only the proofs need |
| `DeploymentTyped` | `TypeOK` |
| `MigratedBeforeServing` | `ServingMeansMigrated` |
| `PingsTruthful` | `PingTruthful`, an action property |
| `OnlyFaultsCutOff` | `CutOffOnlyByFault`, an action property |

The argument: there are three kinds of steps. What happens to the stack without
ending a process moves one process forward (`Orderly`) and no request; the end of
a process finds somebody else for each request or ends it (`CutFacts`,
`EndPreserves`); a request's own step leaves the stack alone. `PingTruthful`
looks at the moment of the answer, `RepliesSound` at the map while it is being
filled. `CutOffOnlyByFault` needs `Attended`: the process a request is handled by
is there, so if it is off a step later, that step ended it; `Exit` would have
waited.

Every invariant and every action property of the runs that pass is proved. Not
proved, only model-checked, is liveness, because its proofs need `ENABLED`, which
the prover does not support: `CallReturns` of both services, `FreshIndex`,
`GateReopens`, `StackComesUp`, `NoServiceWithoutInitiator` and `RequestsEnd`.

## 5. Where the code and what is said of it differ

* **`status` stays `running`** (run `stale_running`). `Update` sets it before
  `TryLock` and, when refused, leaves it. If the mutex was held by a `Drop`, or
  by an `Update` past its `status = idle`, nobody resets it. From then on
  `Status` says running and `Drop` answers "cant drop during update", with no
  `Update` in progress, until another `Update` gets the mutex.
* **The rank is lost** (run `lost_rank`). `Index.Search` ranks ids and then
  looks them up with `WHERE id = ANY($1)`, which has no order; the score is
  discarded. The test calls the result ranked comics.
* **The limit is not the one asked for** (run `lost_limit`). A limit is read as
  a 64-bit `int` and sent as `int32(limit)`. 2^31 becomes negative: the search of
  the index answers with a total and no comics, the one of the table with an
  error. 2^32 + 1 becomes 1. The test says "index search uses requested limit".
* **Stats that are not there** (run `silent_stats`). `Client.Stats` returns zeros
  and no error when the call fails, so `/api/db/stats` answers 200. The admin
  page ignores answers that are not ok and waits until as many comics are fetched
  as there are; 0 of 0 ends its waiting.

Met on the way, and not a contradiction of anything the repository says: when
the comics are stored but publishing fails, the next `Update` finds nothing
missing and returns without an event, so that event is never sent. The ticker of
the search service makes up for it (`FreshIndex`); in `Pipeline` such an
index is behind while `told` is false.

## 6. Done, left and left out

Done: every component of section 1 that keeps state or decides anything, with
safety theorems for each; both refinements, checked and
proved; the composition of the two services that share the table; start, stop
and restart of the stack.

Left for later:

1. Permits and tokens of more than one gateway, if the deployment gets one; today
   `compose.yaml` runs one container of each service.
2. The word statistics of `Stats`, which SQL computes from the rows.
3. Names, passwords and signatures in `Login`, taken as right or wrong.

### Not modelled

* **Generated code** (`proto/`): encoding and decoding that the handlers do not
  look into. The width of the limit field, which matters, is `Half`.
* **Words clients and configuration** of each service: a remote call whose
  outcomes are the steps that use it (`FetchComic`, `Norm`), and a file that is
  read once.
* **`update/adapters/search`**: nothing calls it.
* **Metrics, logging, templates and styles**: observation and presentation.
* **Integration tests**: a source of what the system is expected to do, quoted in
  section 5.
* **`GET /` outside the bounds**: the search page passes neither the semaphore
  nor the limiter. It is modelled so (`Entry`), but the code makes no promise
  about the sum that could be checked.

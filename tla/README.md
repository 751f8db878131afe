# Verification of cdn-go

TLA+ models of `cdn-go`, a content delivery service in Go that keeps files on
disk, their metadata in MongoDB, and serves originals and processed copies.
TLC checks the models on small instances; TLAPS proves the main results for
every value of the constants. `PROJECT.json` maps every definition to source
lines; paths below are relative to the repository.

## The system

| Component | State | Operations | Talks to |
|---|---|---|---|
| File handlers, `internal/cdn` (`cdn_handler.go`, `cdn_service.go`, `cdn_repo.go`), `internal/fs`, `internal/formdata` | the collection `file`; `<buckets-path>/<bucket>/<uuid>/` with `data.<ext>` (the original) and one file per processed copy, named by the SHA1 of its query | `Upload`, `Get`, `Delete` | dealer for disk operations, MongoDB, file cache, modules |
| Bucket store: `CreateBucket`, `InitBuckets`, `pkg/cache/bucket` | the collection `bucket`, the bucket's folder and its `meta` file, a map in memory | create, load at start, look up | the disk, MongoDB, every handler |
| Dealer, `pkg/dealer` | a buffered channel of jobs, the `started` flag, a WaitGroup, a semaphore | `Start`, `Run`, `Wait`, `Stop` | called by every disk operation of the service |
| File cache, `pkg/cache/file` over `gokyle/filecache` | hit counters, cached contents | `Increment`, `Lookup`, flush, `Stop` | `Get` |
| Modules, `internal/modules` | none; resolvers work on a buffer | `Parse`, `Raw`, `UseResolvers` | `Get` |
| Authorization, `internal/auth`, `pkg/middleware/jwt` | none | decide whether a request may pass | bucket cache |
| Error mapping, `internal/cdn/errors` | none | error to status code | every handler |
| Lifecycle, `cmd/main.go` | the order of start and shutdown | boot, signal, shutdown | everything |

What is hard: MongoDB and the disk are updated one after the other with no
transaction between them, by goroutines that share no lock, and any call can
fail or be the last one before a crash. Retry loops, an answer that is written
before the copy is saved, deferred removals and `Delete`, which only marks the
document, all interleave with readers that look at the disk first. The dealer
sits under every disk operation and has to stop while callers are inside it.
The bucket cache and the file cache are maps that are read without the mutex
their writers take. The file cache hands out its own arrays, and a resolver
writes into what it is given. At shutdown all of these are closed, while
handlers that outlived `srv.Shutdown` go on. `PROJECT.json` lists the hazards
line by line.

What makes each component correct:

- *File handlers*: an acknowledged file is never lost; the document and the
  original agree; no part of an original is served; what is left over on disk
  has a known cause; a deleted file is gone; requests end.
- *Bucket store*: folder, document and cache entry of a bucket agree after
  failures and restarts; a bucket can be created once and only once.
- *Dealer*: a job runs at most once, an accepted one exactly once, with bounded
  parallelism, and neither callers nor `Stop` hang.
- *File cache*: a hit returns the bytes on disk; counters and the size limit hold.
- *Modules*: the name of a copy depends on the query's meaning and nothing else.
- *Authorization*, *error mapping*: the table the repository's README gives.
- *Lifecycle*: shutdown lets requests in flight end, then releases everything.

## Modules

| Module | What it is |
|---|---|
| `ObjectStore` | abstract: a file is readable as a whole, promised to a client, and taken away only by a Delete |
| `FileStore` | the three file handlers over the two stores; implements `ObjectStore` |
| `FileStoreClaims` | what the README says of Delete that the code does not do |
| `FileStore_proofs`, `FileStoreTraces_proofs` | the inductive invariant of `FileStore`, its theorems and the refinement |
| `BucketRegistry` | abstract: a name is registered once, a process knows only what is registered and forgets nothing before it ends |
| `BucketStore` | `CreateBucket`, `InitBuckets` and the lookups of requests, with restarts; implements `BucketRegistry` |
| `BucketStore_proofs` | its inductive invariant, theorems and the refinement |
| `Executor` | abstract: an accepted job is taken up once and run before its caller is answered, none is refused before the stop, none is left behind at rest |
| `Dealer` | the dealer with both strategies, one caller per job, and a concurrent `Stop`; implements `Executor` |
| `Dealer_proofs` | its inductive invariant, theorems and the refinement |
| `FileCache` | which files are kept in memory: `Increment`, flush, `Stop` and the library's goroutines |
| `FileCache_proofs` | its invariants, as lemmas for `Lifecycle_proofs` |
| `Lifecycle` | `main`: start, requests, shutdown; extends `FileCache` |
| `Lifecycle_proofs` | theorems about `Lifecycle` and the `FileCache` in it |
| `CachedReads` | the bytes `Get` serves: the arrays of the cache, of the disk and of the resolvers |
| `CachedReads_proofs` | its inductive invariant and theorems |
| `Gateway` | what a request passes before its handler: the Auth middleware and the parse of the query |
| `Gateway_proofs` | theorems about `Gateway` |
| `MCFileStore`, `MCBucketStore`, `MCDealer`, `MCLifecycle`, `MCCachedReads`, `MCGateway` | values of the constants for TLC |

How they fit together. The modules share no variable but those of `FileCache`,
which `Lifecycle` extends; elsewhere one takes from another what that one shows:

- `Lifecycle` takes of the dealer that an accepted job is answered and that
  `Stop` waits for the jobs (`AcceptedIsAnswered`, `StopDrains`), and that this
  ends nothing else (`CleanStop`, for a pool that has been launched by then); it
  keeps one flag of it and the handlers inside a job.
- `FileStore` leaves the dealer out: a job is a call that may fail.
- `CachedReads` takes one file of `FileStore` with its disk, and leaves the choice
  of what is promoted, `FileCache`'s, open: it may promote any file at any time.
- `Gateway` takes the bucket of `BucketStore`: `OnePolicyPerRequest` is why the
  bucket Auth looked at and the one the handler uses can be one variable.

### FileStore and the code

A step is one call that leaves the goroutine: a MongoDB command, or a system
call on the disk. `os.WriteFile` is two steps, opening with truncation
(`CreateOriginal`, `SaveCreate`) and writing (`WriteOriginal`, `SaveWrite`).
`doc[u]` is the document of a UUID with its `is_deletable` field, which is
*unset* for a document the code inserted: `SaveFileDto` has no such field.
`dirs` and `content` are the disk, below the buckets path and below the working
directory, because `cdnpath.ToDir` makes a path relative to the latter
(`docker/dev.Dockerfile` starts the service with another buckets path, hence
`DeployAssumption`). Bytes are abstracted to absent, partial or complete. A
processed copy made from complete bytes counts as complete.

| Code | Actions |
|---|---|
| `Handler.Upload`, `UploadMany` | `StartUpload`, `NextFile`, `MakeDir`, `CreateOriginal`, `WriteOriginal`, `InsertDoc`, `Cleanup`, `FinishUpload` |
| `Handler.Get`, `ReadExisting`, `ReadFile`, `TryDeleteLocally`, `MustSave` | `StartGet`, `CheckExists`, `ReadExisting`, `FindMeta`, `LocalDelete`, `ReadOriginal`, `Resolve`, `SaveCreate`, `SaveWrite` |
| `Handler.Delete`, `MarkAsDeletable` | `StartDelete`, `FindForDelete`, `MarkDoc` |
| net/http, the process | `Return`, `Crash` |

Each call may fail. A failed insert or update may have been applied all the
same (a lost reply, a cancelled context). The 409 for a duplicate cannot come: a
UUID is new when it is inserted. A form that does not parse is answered before
anything is stored. A failed `os.RemoveAll` may have
removed any part of the directory. `DeleteAll` has no `break` and makes all its
attempts; `Cleanup` does too.

`Seeded` files were stored by an earlier process and carry `is_deletable:
false`, as the filter of `MarkAsDeletable` expects. They are there to look at
`Delete` where it works; for files this code uploads it does not (below).

Six variables are history: `issued`, `crashes`, `acked`, `deleted`, `lost`,
`abandoned`. No guard reads the last four.

### Dealer and the code

A step is one channel, WaitGroup or atomic operation. `CheckStarted` and `Send`
are the two halves of `addJob`, between which `Stop` can run; a send on the
closed channel panics, also when it was waiting for room. `resultch` is
unbuffered, so `Deliver` is a rendezvous with the caller in `Wait`. The pool is
launched by a goroutine that `Start` does not wait for (`LaunchWorker`), so
`Stop` can find the WaitGroup at 0 before there is a worker: `manned` records
that, and `StopDrains` is stated for the other case. Callers and `Stop` overlap
in the program when `srv.Shutdown` gives up after 5 seconds.

The WaitGroup is not a counter only. A `Wait` that finds it above 0 sleeps
(`WaitSleeps`); the `Done` that brings it to 0 (`SignalDone`) wakes it in a step
of its own (`Wake`), and the woken goroutine looks at the counter once more
(`WaitWoken`). An `Add` that comes between these panics, or makes `Wait` panic:
"WaitGroup is reused before previous Wait has returned". Nobody recovers it, the
process ends (`Dead`), and jobs that were accepted stay unanswered; the liveness
properties are stated up to that, and `CleanStop` says when it cannot happen.

### BucketStore and the code

| Code | Actions |
|---|---|
| `InitBuckets` | `InitBuckets` |
| `Handler.CreateBucket`, `fs.CreateBucket`, `SaveBucketDB`, `bc.Add` | `StartCreate`, `ReadDir`, `MkDir`, `CreateMeta`, `Insert`, `AddBegin`, `AddEnd` |
| `bc.Get` in Auth, then in the handler | `StartRequest`, `AuthLookup`, `HandlerLookup` |
| net/http, the process, the Go runtime | `Return`, `Crash`, `MapRace` |

The folder of a bucket is absent, empty or in use; `docs[n]` are the documents
with a name, of which the index of `migrations/` admits one. An insert that is
reported as failed may have been applied. `InitBuckets` may load a part of the
documents, because an error of the cursor is not asked for, and main goes on
after its error. `bc.Get` does not lock: during a write it sees the map before
or after it (`Seen`), or the Go runtime notices and ends the process (`MapRace`).
Validation is abstracted to a set of valid definitions; a body that is no JSON is
answered 500. History: `crashes`,
`complete`, `oks`, `promised`, `spoiled`.

### FileCache, Lifecycle and the code

| Code | Actions |
|---|---|
| `Start` and the library's `Start` | `StartCache`, a step of `BootStep` |
| `Increment` | `Call`, `CheckCached`, `ReadHits`, `Lock`, `SetFirst`, `SetNext`, `MakeRoom`, `SendPath`, `DeleteHits`, `Finish` |
| `flushing` | `Tick`, `FlushLock`, `Flush`, `FlusherExits` |
| `Stop` and the library's `Stop` | `StopBegins`, `StopClears`, `StopCloses`, `LibraryStops`, `LibraryDrops`, `StopReturns` |
| the library's `itemListener` and `vacuum` | `Fetch`, `Store`, `ListenerExits`, `Vacuum` |
| `main` | `BootStep`, `Refuse`, `Signal`, `Drained`, `GiveUp`, `CloseMongo`, `StopCache`, `StopDealer`, `Exit` |
| a handler | `Arrive`, `CallMongo`, `RunJob`, `JobReturns`, `CallCache`, `ReturnFromCache`, `Recover` |
| the Go runtime | `Die` |

A step is one access to the hits map, one operation on the mutex or a channel,
or one call of the library. The library is modelled from how its source behaves
where `file_cache.go` depends on it: it makes room when the number of items
*equals* the limit, adds the file later in its own goroutine, and its `Stop` does
not wait for that goroutine before it sets the items to nil. A write to the nil
map panics between `Lock` and `Unlock`, and net/http recovers it: `SetHits` keeps
the mutex. `MapRace` is an access to the map that overlaps a write of another
goroutine; two goroutines that hold the mutex never meet. The library looks for
an item, and for the oldest, without its own lock (`AccessesItems`), while its
listener stores one or `vacuum` deletes one: that ends the process too. A handler is the
sequence of its calls of MongoDB, of the dealer and of `Increment`.

### CachedReads and the code

`Lookup` is `InCache` (an item whose file changed is dropped) and `GetItem` (which
hands out the array); a miss reads the file into a new array (`ReadDisk`); a
processed copy that does not exist is made from the original's array by its
resolvers, in any order (`Resolve`, `Overwrite` for each; an error ends the
request), answered (`Respond`) and saved (`SaveCreate`,
`SaveWrite`). `heap` holds the arrays something refers to, so that two references
to one array are two references to one set of bytes. `bytes.Buffer.Reset` keeps
the array, and a result that fits is written over what was in it: `Fits` are the
results for which this happens. `FetchBegin` and `FetchEnd` are the library's
stat and read of a file. An image is the set of resolvers that were applied to
the original.

The clock of the file system is coarse, as the kernel's is: a change of a file
may leave its modification time as it was. The truncation and the write of one
`os.WriteFile` mostly have one time, and the library, which compares times, then
takes an item with the truncated file for good. `had[n]` is all the file was
while it had its present time; `during[h]` is what it was since the request
began, and before, for as long as its time was the same.

### Gateway and the code

`LookAtOp` is one round of the middleware's loop over the operations, `TryKey`
one round of the loop over the keys, `ParseKey` one round of `Parse`'s loop over
the query, which is a Go map and comes in any order. A token is a record of its
form, the key it was signed with and its two claims; whether a signature
verifies is whether the keys agree. A query key is the sequence of its parts
between dots. The resolvers are those of the one module the code has. The name
of a copy is the SHA1 of the sorted resolvers and arguments: `modmap`.

## Runs

| Run | Instance | Shows |
|---|---|---|
| `filestore_uploads` | 2 handlers, 2 files, 1 variant, batches up to 2, 2 retries, 1 crash | `TypeOK`, `AckedIsDurable`, `MetaHasBits`, `NoTornOriginal`, `LeftoverHasCause` |
| `filestore_seeded` | the same with one seeded file | `ImplementsObjectStore` |
| `filestore_live` | 2 handlers, 1 file | `RequestsFinish` |
| `bucket_store` | 2 creators, 1 reader, 2 names, 2 valid definitions and an invalid one, 2 crashes | `TypeOK`, `CreatedOnce`, `CacheIsStored`, `CreatedIsKnown`, `OnePolicyPerRequest`, `StuckHasCause`, `ImplementsRegistry` |
| `dealer_pool` | 4 callers, 2 workers | `TypeOK`, `RunsOnce`, `StopDrains`, `ImplementsExecutor`, `AcceptedIsAnswered`, `NobodyHangs`, `CleanStop` |
| `dealer_semaphore` | 4 callers, 2 tokens | `RunsOnce`, `BoundedIO`, `AcceptedIsAnswered`, `NobodyHangs`, `CleanStop` |
| `lifecycle` | 2 handlers, 2 paths, threshold 2, 1 item, 2 requests, 1 tick | `TypeOK`, `PromotionIsEarned`, `MutexIsHeld`, `GracefulIsClean`, `ShutdownEnds`, `IncrementReturns` |
| `cached_reads` | 2 handlers, 2 resolvers, the original and the copy both make, of results that fit and do not, 3 requests | `TypeOK`, `FreshRead`, `OnlyReuseCorrupts` |
| `gateway` | buckets with up to 2 operations of up to 2 keys, queries with up to 3 of 7 keys | `TypeOK`, `AccessIsEarned`, `GoodTokenPasses`, `NameIsCanonical`, `BadQueryIsRefused` |

Bounds. Two handlers give every pair of racing operations; the handlers do not
coordinate, so a third adds no new kind of race on one file, and the proofs
hold for any number. Two files make a form that fails at its second file. Two
retries distinguish the first attempt, a later one and giving up. One crash
splits any two steps; as nothing is redone after a restart, a second one meets
a state the first already made. In `bucket_store` there are two: one that cuts a
creation short, and one in the process that has loaded what the first left.
`MaxBatch`, `MaxCrashes`, `MaxRequests`, `MaxTicks`, `MaxOps`, `MaxKeys` and
`MaxPairs` are the bounds with no counterpart in the code. Four callers against a queue of two
and two workers fill the queue, the workers and leave a caller waiting for room.

`lifecycle`: with a threshold of 2, two requests for one path promote it, with
all interleavings of their reads and writes, a flush and `Stop`; the channel to
the library has room for one. `cached_reads`: one request makes and saves the
copy while another reads it or the original, and a third meets what the two left
in the cache and on disk; two resolvers leave a half-made image between
them. `gateway`: one operation can match while another does not, or both can;
three query keys put two spellings of one resolver beside another key.

Handlers are symmetric, and so are files when none is seeded; in `bucket_store`
creators, names and valid definitions, in `cached_reads`
handlers, in `gateway` the two keys that are not
empty. Runs with liveness use no symmetry.

Fairness. `FileStore`: weak fairness of a handler's own steps: a goroutine runs
on and its calls return; nobody has to send a request. `Dealer`: weak fairness
of the goroutines (with it, that `j.f()` returns) and strong fairness of the
sends, since the Go runtime serves senders blocked on a channel in the order of
their arrival. Nobody has to submit a job or call `Stop`. `Lifecycle`: weak
fairness of main, of each handler, of the flusher and of the library's listener.
The ticker need not tick, nobody has to send a request or a signal, and
`Shutdown` need not time out. Weak fairness is enough for the mutex there,
because the requests and ticks that could take it are bounded.

### Where code and documentation differ

TLC finds a counterexample in each of these runs.

- `claim_delete_unmarked`: `README.md:177` has Delete answer 200 when the
  resource is deleted. The filter of `MarkAsDeletable` (`cdn_repo.go:155`) needs
  a field uploads do not store, and the match count is dropped: Delete answers
  200 and changes nothing.
- `claim_cached_original`: `README.md:150` has a Get without a query return the
  original. `Get` hands the array of the cached original to the resolvers
  (`cdn_handler.go:227`), which reset it and write their result
  (`image.go:56,83`); the next Get of the original is served that result.
  `OnlyReuseCorrupts` shows that this is the one way to a wrong answer.
- `claim_cleanup`: `main.go:127` cleans up although `Shutdown` failed ("No fatal
  error to make clean up"). A handler that is still inside `Increment` writes the
  map `Stop` has set to nil (`file_cache.go:129`, `66-69`), the panic leaves the
  mutex locked, the flusher waits for it and `Stop` waits for the flusher: the
  dealer is never stopped and the process does not end.

Other behaviour of the code that the models follow and a reader may not expect:

- A save that fails may leave a part of a processed copy, which is found and
  served from then on (`cdn_handler.go:239` expects the next Get to process the
  file again). A part that the cache took between the truncation and the write
  of a save that succeeds is served too, for as long as the item lives, if the
  two have one modification time. `FreshRead` says no more than that what is
  served was on disk, and nothing outlives a change that its time shows.
- With the semaphore, which is the default and which main does not choose, a
  `Stop` while jobs are in the queue may end the process: the `wg.Add` for the
  next job (`dealer.go:109`) comes between the last `wg.Done` and the return of
  `wg.Wait`. The pool is exposed to it only while its workers are launched
  (`dealer.go:93`). `CleanStop` shows that these are the only occasions.
- A `Stop` that comes before the first worker is launched returns at once, with
  jobs in the queue that workers launched later still run.
- A processed copy of a marked file is served before the database is asked
  (`entities/file.go:24` has a marked file inaccessible).
- `cdn_handler.go:192` means to delete a file with no document from disk; the
  path is relative to the working directory and nothing of the file is removed.
  The path is also what keeps this removal from racing an upload between its
  write and its insert: with the buckets path in `ToDir` (the mutant of
  `MetaHasBits`) an acknowledged file could lose its original.
- A form without a file is answered 500, not 400: `formdata.ErrNoFiles` is
  another value than the `entities.ErrNoFiles` the table looks for
  (`errors.go:102`).
- A second Delete of a marked file answers 404; `cdn_handler_test.go:338` has a
  mock return `ErrFileAlreadyDeleted`, which `GetFileDB` never does.
- A token with a good signature and a payload that is no JSON, or with another
  algorithm, is answered 500 (`README.md:307` has 403), and an empty key in an
  operation makes the middleware panic on every token (`auth.go:65`).
- The library's goroutine panics when `Stop` drops the items while it reads a
  file, which ends the process before the dealer is stopped.
- The cache can hold more than `max_items`, which `config.yaml:3` has as the
  "maximum amount of files to be cached": the library makes room when the number
  of items *equals* the limit and stores the file later (`MakeRoom`, `Store`), so
  files promoted before the first of them is stored all find room. The instance
  of `lifecycle` is too small for it: two paths have to reach the threshold.
- A signal that comes after `signal.Notify` and before main receives is lost.

## Proofs

`FileStore_proofs` proves, by the inductive invariant below and for all values
of the constants that meet the named assumptions of `FileStore`:

- `TypeCorrect`: `Spec => []TypeOK`
- `AckedFilesAreDurable`: `Spec => []AckedIsDurable`
- `DocumentsHaveBits`: `Spec => []MetaHasBits`
- `OriginalsAreNotTorn`: `Spec => []NoTornOriginal`
- `FileStoreIsAnObjectStore`: `Spec => ImplementsObjectStore`

None of these is inductive. The invariant `IInv` is `TypeOK` with

- `Control`: what the place of a handler says of its local variables;
- `Ownership`: every UUID a handler holds for an upload was issued, to it only,
  and none of these was acknowledged. A UUID is generated for one form of one
  handler (`formdata.go:45`), so there is no lock to rely on, and this is what
  takes its place;
- `Storage`: what has been stored stays stored, and an upload between its write
  and its insert still has the original it wrote. Only the owner touches an
  original: a Get writes under a variant's name, and `TryDeleteLocally` works
  below the working directory (`DeployAssumption`);
- `Reads`: what a Get holds of an original is complete;
- `Marks`: a marked document stays marked, needed for the refinement only.

Each lemma takes one part of `IInv` through one step per action. `TryDelete` and
`TryDeleteFails` appear as the lemmas that a removal in one directory changes no
other. The refinement maps `present` to the files with a live document and a
whole original, `promised` to `acked`, `removed` to the marked documents: an
insert is `Store` or, for an insert reported as failed, `Store` followed by
`Rollback` in `Cleanup`; the 201 is `Promise`; the mark is `Remove`; every other
step is a stutter.

`FileStoreTraces_proofs` adds `LeftoversHaveCause` (`LeftoverHasCause` with: the
directory of an upload whose removal succeeded is gone until it returns, as no
other handler makes it) and `DeletedOriginalsAreHidden` (`DeleteHidesOriginal`
with: a file a Delete answered 200 for is marked if it carries the field, and a
late request is for such a file). `DeleteHidesOriginal` is proved and checked in
no run: it speaks of files that carry the field only, which no upload of this
code stores.

`Dealer_proofs` proves `TypeOK`, `RunsOnce`, `BoundedIO`, `StopDrains` and
`CleanStop` for any set of jobs, number of workers and strategy. Its `IInv` adds

- `Shape`: the states a goroutine takes under each strategy;
- `Counts`: the WaitGroup and the semaphore are the cardinalities of the sets of
  goroutines they stand for. This is why neither falls below 0 (the WaitGroup
  would panic), and why `Wait` returning says that nobody runs a job. A goroutine
  that has counted down and not yet woken `Wait` counts no more;
- `Placed`: a job is in one place: its caller's hands, the queue, the
  dispatcher's hand or one goroutine;
- `Counted`: that place says how often it ran;
- `Drained`: a waiting caller's job is in one of these places, and a worker of
  the pool ends only when the queue is closed and empty;
- `Waker`: one goroutine at a time wakes `Wait`, which is asleep with the counter
  at 0 as long as it has not. The WaitGroup can panic only over an `Add` in that
  time, so there is no panic once nothing is left that adds: `StopIsClean`.

`DealerIsAnExecutor` is the refinement of `Executor`. A job is *new* until it is
in the queue, *taken* while a goroutine holds it and has not called its
function, *run* until the rendezvous with its caller: a send that succeeds is
`Accept`, `Receive` of the pool and `Spawn` of the semaphore are `Take`, and the
dispatcher's steps are stutters. That a job in the queue is held by nobody
(`Placed`) makes a `Take` take it once; that as many jobs are taken as
goroutines hold one makes `Take` keep to the limit. A caller is refused only
after `Stop` has lowered the flag (`Order`, inductive by itself), and the return
of `Wait` to a manned pool is `Rest`, by `Drained`. `Executor` promises no
liveness; that is `AcceptedIsAnswered`, which TLC checks.

`BucketStore_proofs` proves, for any sets of creators, readers, names and
definitions and any number of ends of the process:

- `TypeCorrect`, `BucketsAreCreatedOnce` (`CreatedOnce`),
  `CacheHoldsStoredBuckets` (`CacheIsStored`), `CreatedBucketsAreKnown`
  (`CreatedIsKnown`), `RequestsHaveOnePolicy` (`OnePolicyPerRequest`),
  `StuckNamesHaveCause` (`StuckHasCause`);
- `BucketStoreIsARegistry`: `Spec => ImplementsRegistry`.

Its `IInv` is the type invariant with `Control` and

- `Storage`: a name has at most one document, and a creation between its insert
  and its 201 is the only one of that name that got this far, has answered
  nothing yet, and stored the document. The folder is no part of this: two
  creations may both find it empty, and it is the index that decides;
- `Serving`: the document of the name is what a request's Auth has seen, and an
  empty map is what a process starts with. `SeenIsStored` is the step that makes
  the unlocked read harmless: before and after the write in progress, what the
  map holds of a name is the name's one document or nothing.

`StuckHasCause` is inductive beside the types. The refinement maps `registered`
to the documents, `known` to the map and `serving` to `server = "up"`: an insert
that is applied is `Register`, reported or not; the write of the map is `Learn`;
`InitBuckets` is `Boot`; a restart of a serving process is `End`.

`FileCache_proofs` and `Lifecycle_proofs` prove, for any sets of handlers and
paths, any threshold, limit, channel, number of requests and ticks:

- `TypeCorrect`, `PromotionsAreEarned` (`PromotionIsEarned`), `MutexIsSound`
  (`MutexIsHeld`), `GracefulShutdownIsClean` (`GracefulIsClean`);
- `CacheIsFileCache`: inside the process the cache starts as `FileCache` does
  and moves by that module's steps only.

The map of hits is read and deleted from without its mutex, so a handler may
write back a number that was flushed or deleted long ago, and there is no
invariant of the map alone. `Earning` counts instead: a counter, or the number a
handler is about to write, and the calls of that path still to be counted,
together never exceed the calls made. A handler's own call is among those still
to be counted until the write that counts it, which is why the first hit, written
twice, does not count twice. `MutexIsHeld` is inductive beside the types.
The lemma `NextCache`, that every step of `Lifecycle` moves the cache's variables
by a step of `FileCache` or not at all, takes these over, and gives
`CacheIsFileCache`. `GracefulIsClean` needs
`Order`, which parts exist where `main` is, that a request in flight behind the
drain has outlived it, and that only `Stop` sets the map to nil or closes the
channel; and `InCall`, that who is inside `Increment` is a request in flight.

`CachedReads_proofs` proves, for any sets of handlers, resolvers and copies,
any choice of the results that fit into the original's array and any number of
requests:

- `TypeCorrect`, `CopiesAreFresh` (`FreshRead`, with changes of a file that its
  time does not show), `OnlyReuseDoesHarm` (`OnlyReuseCorrupts`);
- `CopiesAreNeverWritten`, an action property: no step writes an array of a copy
  that the cache or a handler holds, nor the original on disk.

Arrays are shared by references, so what an array holds is no function of who
asks. The invariant (each part was checked with TLC first) goes by name instead:

- `Types`: `TypeOK`, and that finitely many arrays are in use, so that there is a
  new one (`NewArrayIsNew`);
- `Control`, `Stored`: the places of the handlers; the original stays;
- `Apart`: who refers to one array looks up one name. A resolver works on arrays
  of the original only, so with `Apart` the array of a copy is never written
  (`CopyKept`);
- `Timed`: an item of a copy that has its file's time has bytes the file had with
  that time. The library stats before it reads: when a save comes between the two
  and the time shows it, the item is out of date from the start and is dropped by
  the next `Lookup`;
- `Fresh`: the bytes a handler may yet serve of a copy were on disk since its
  request began, or before with the time the file had then.
  `Timed` brings them in at `InCache`, `CopyKept` keeps them;
- `Honest`: until the first reuse of an array others refer to, items, arrays and
  results hold what they are taken for. The step that needs it is a write in
  place: either nobody else refers to the array (`InPlaceUnseen`), or `reused`
  becomes true.

Each step is seen three times, by the files (`FilesStep`), the items and
references (`ItemsStep`, `RefsStep`) and the heap (`HeapStep`): one of a few
shapes, of which `Apart`, `Timed`, `Fresh` and `Honest` are then proved. A step
of others is a `Bystander` for a handler.

`Gateway_proofs` proves, for any signing keys, any tokens, and any bounds on the
operations of a bucket, the keys of an operation and the keys of a query:

- `TypeCorrect` (`TypeOK`), `AccessIsSound` (`AccessIsEarned`),
  `TokensAreHonoured` (`GoodTokenPasses`),
  `NamesAreCanonical` (`NameIsCanonical`), `QueriesAreChecked`
  (`BadQueryIsRefused`).

`Asked` says where the keys being tried come from and what a verified token
proves; `Trying` that a good token's key is still ahead of the loop until it has
verified the token; `Parsing` that the arguments are a function of the *set* of
keys visited so far, which is what makes the order of the Go map irrelevant.
`Counted` bounds the differences found by the keys still to visit, for which a
query has finitely many keys (`Pairs`).

The assumptions are those the modules name: disjoint sets of goroutines, special
values outside the sets, bounds in `Nat`, and what the configuration guarantees
(`DeployAssumption`, `ConfigAssumption`). A negative setting passes the check of
`config.go` and is not considered.

`TypeOK` of `Dealer` is checked with the pool, proved for both strategies.
Model-checked only: the liveness properties (`RequestsFinish`,
`AcceptedIsAnswered`, `NobodyHangs`, `ShutdownEnds`, `IncrementReturns`), which
are beyond this prover, and the counterexamples of the claims. Every invariant
and every refinement that a run checks is a theorem.

## Not modelled

- Image codecs, SHA1, the JWT library and the MongoDB driver, which are taken by
  what they return; of the races inside `gokyle/filecache`, those over the size
  and the access times it keeps of its items.
- The debug goroutine of the file cache, which only logs, and the no-op cache,
  which does nothing.
- Configuration (but that no cache setting is zero), logging, metrics and
  response formatting: pure I/O with no state that outlives a call.
- Several hosts: `AvailableIn` is read (`cdn_service.go:242`) and the branch that
  would download from another host is empty.
- `DeleteFile` of the repository, which nothing calls.
- The texts of the error table; of its rows, those that the modelled paths meet.

## Plan

1. `FileStore`, `ObjectStore`, `Dealer`, `BucketStore` and `BucketRegistry`, with
   their proofs. Done.
2. `FileCache` inside `Lifecycle`, `CachedReads`, `Gateway`. Done.
3. `FileCache`, `Lifecycle`, `Gateway` and `CachedReads` proved; `Executor` and
   its refinement by `Dealer`. Done.
4. `CacheIsFileCache` and `CopiesAreNeverWritten`, what the steps of `Lifecycle`
   and of `CachedReads` may do, as theorems. Done.
5. The panics of the WaitGroup in `Dealer` (`CleanStop`, `StopIsClean`), the
   coarse clock and resolvers one by one in `CachedReads`, `Start` and the
   library's unlocked accesses in `FileCache`. Done.
6. Next: more action properties of this kind from the invariants at hand (which
   handlers may move a file of `FileStore`, who may close the jobs of `Dealer`).

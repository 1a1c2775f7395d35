# Verification of FNYSFD

FNYSFD is a reverse proxy in front of the media server fnOS. It rewrites the
answers to PlaybackInfo requests, resolves the URLs in `.strm` files ahead of
playback, and answers stream requests with redirects. This directory holds TLA+
models of its concurrent and stateful parts, TLC runs over small instances, and
proofs for every value of the constants that TLAPS checks.

    tlc -workers 2 -config MCPreload.cfg MCPreload      # one run
    tlapm PreloadProofs.tla                             # one module of proofs

## The system

| component | state | operations | hard behaviour |
|---|---|---|---|
| preload engine, `handler/stream.go` | `inflight` (path → channel), two task queues, worker goroutines, stream-URL cache | PreloadStrmSync, PreloadMediaSource, executePreload, parallelResolve, WaitForURLResolution, Stop | handlers, workers, goroutines and waiting requests interleave; channels closed once; full queues; starvation |
| cache, `cache/cache.go` | media sources, index by item, stream URLs, one LRU list, settings | Set, Get, GetByItemID, Delete, SetStreamURLWithTTL, GetStreamURL, cleanup, UpdateTTL, UpdateMaxItems, Clear | three maps and a list must agree after any sequence of calls; deadlines; the limit |
| cache cleaner, `cache/cache.go` | stop channel, two flags, goroutines | cleaner, UpdateTTL, Stop | a field read without the mutex; double close; cleaners that outlive a restart |
| URL caches, `handler/stream.go` | `urlCache` and its list, negative cache, breaker | setURLCache, refreshHalfLifeURL, canProceed, markFailed | list and map, keys, half-open breaker |
| stream requests, `handler/stream.go` | `validateRecent`, what each request has in its hand | handleStream, validatePlayableURL, deleteURLCacheValue, parallelResolve, resolveURLWithRetry | copies of one URL in several places; URLs that die; checks and waits that time out |
| playback handler, `handler/playback.go` | `processing` | Handle | check and claim are two steps |
| batch prefetcher, `proxy/batch_prefetch.go` | semaphore, de-duplication marks, stop channel | PrefetchItem, PrefetchBatch, Stop | partial failure, cancellation, stop |
| library scanner, `proxy/library_scan.go` | scan lock, status, wait group | Start, TriggerScan, scanOnceLocked, scanIncremental, Stop | batches and retries, triggers during stop |
| proxy server, `proxy/server.go` | prefetch marks, components | handleResponse, prefetch functions, shouldSkipPrefetch, Reload, Stop | prefetches that set off prefetches, marks that age, order of shutdown |
| auth store, `proxy/auth_store.go` | login and captured tokens | CaptureFromRequest, LoginViaEmby, Get | priority |
| configuration, `config/config.go` | Config, viper's copies, watcher | Load, UpdateConfigWithStatus, AddStrmVolume, saveConfigLocked, polling | edits by hand beside saves, partial updates, failed saves |
| dashboard, `dashboard/dashboard.go` | sessions, pending notification | login, config update, scan notification | merging of notifications |
| logger, `logger/logger.go` | channel, the day's file and its slices | log, asyncWriter, rotateLogFile, doCleanup, Close | drain on close; renames that fail one by one; files removed beside it |
| program, `cmd/main.go` | `httpServer`, `stopOnce`, the signal's channel | start, signal, Server.Stop, exit | two goroutines stop; signals early and late |

How they interact: an answer to PlaybackInfo goes to the playback handler, which
stores the sources in the cache, calls the preload engine for each, and then
calls back into the server, which prefetches the next episodes through the batch
prefetcher. Stream requests look into the cache, wait for a preload through
`inflight`, or resolve the URL themselves. The library scanner walks the library
and drives the batch prefetcher, whose requests come back as PlaybackInfo
answers. The dashboard changes the configuration, whose watcher calls the
server's Reload and so the cache's UpdateTTL and UpdateMaxItems.

## The modules

Every definition that stands for code names its lines in `PROJECT.json`, "map".

### Preload: the preload engine

`Preload` models `PreloadStrmSync`, `PreloadMediaSource`, `executePreload`,
`preloadWorker`, `parallelResolve` and `WaitForURLResolution` of
`handler/stream.go`. `inflight` is the map from paths to channels; `highQ` and
`normalQ` are the two task queues; `closed` says which channels are closed. The
threads are the callers (handlers of PlaybackInfo answers), the workers, the
goroutines of parallel resolution, each named by the channel it owns, and the
requests that wait. An action is what one thread does between two points where
others can interleave: a critical section of `inflightMu`, a send to a queue, a
receive from one, a close. Whether a resolution succeeds is a free choice.

`SingleFlight` is the abstract specification: a path is idle or claimed under a
promise, a promise is kept, or lost when a queue is full, and who waits on a kept
promise goes on. `Preload` refines it (`ImplementsPromises`).

### Cache, LRUList, TTLMap, CacheCleaner: the cache

`Cache` has the two maps, the index by item and the LRU list of `cache.go` and one
action per public operation, each a critical section of the one mutex, so atomic.
`LRUList` is the list of `container/list` as this cache and `urlCache` use it: a
sequence of keys from which `Unlink` takes one and to whose end `Touch` brings one;
`Rest` is what is left when several go, in its old order.
`TTLMap` is the abstract specification of the stream URLs: a map whose entries
have deadlines, may be evicted at any time and are never returned after their
deadline (`StreamsImplementTTLMap`). `CacheCleaner` is the same file's goroutine:
`stopCleaner`, the flags, `UpdateTTL` and `Stop`, with the read of the channel
outside of the mutex as a step of its own.

### LibraryScan: the scanner and the batch prefetcher

`LibraryScan` models `library_scan.go` and `batch_prefetch.go` and the part of
`Server.Stop` that ends them. A thread is a scheduler (`cron`, `inc`) or a
goroutine started by a trigger; it goes through the scan page by page, item by
item, flush by flush, and each flush starts one task per item, which puts a token into
the semaphore, makes its request and takes a token out. `sem` is how many tokens are in
the channel, apart from the tasks: a path that forgets to take one out, or takes out
one too many, is a state of the model. Whether an item is in the cache or
marked already is a free choice, as is the failure of any query or request.
What a listing still has to look at is a set of places in the library, an entry and
the place of an item inside it, and a page is the next `PageSize` of the entries. A
failed query for the seasons or the episodes of a series leaves places out.
Merged: the compare-and-swap and the `wg.Add` after it. Not modelled: a
schedule that does not parse (its scheduler ends at once), and `UpdateConcurrency`, which
nothing calls.

### URLCache: lifetimes of resolved URLs

`URLCache` models `urlCache` and its list (again an `LRUList`), the negative cache, the half-life
refresh and the circuit breaker of `handler/stream.go`, and what is stored for a
source in the cache: `setURLCache`, `getURLCache`, the dynamic lifetime with its
floor of a minute, `refreshHalfLifeURL`, `canProceed`, `markFailed`,
`markSuccess`. Time is a counter of minutes. A URL is a record of the file it
serves, whether it is a final URL, and the minute its signature ends (0: never).
`enable_smart_ttl` is taken to be on. A scan for URLs past half of their life is
one step, and begins only when the refreshes of the last are done: a refresh
gives up after 5 s and scans are 30 s apart.

### Playback: answers to PlaybackInfo and what they set off

`Playback` models `Handle` of `handler/playback.go` and the requests of
`proxy/server.go` whose answers it gets: the proxied answer (`handleResponse`) and
its retry, the proactive request, the prefetch for a detail page, the fallback of a
stream request, the prefetch of the next episodes, and one prefetch of the scanner.
A thread is the goroutine of one request; its kind says whether it is made once,
repeated, or follows a stream request that missed. The look into the cache
(`Check`), the claim in `processing` (`Claim`), storing and preloading are steps of
their own. The header `X-Fnysfd-Next-Prefetch` is the field `chained`. An item has
one source; whether a mark of `prefetchRecent` holds is a free choice;
`enable_preload` is on. `FollowUp`, which lists the next episodes and starts a
prefetch for each, is one step and waits for free threads, which are bounded.

### Config: the configuration and its reloading

`Config` has the file, viper's two copies (`override`, set by every save, goes
before `read`, the file), `Global` (`mem`), and what the server works with
(`applied`). The watcher is a program counter: `Poll` and the debounce time,
`ReadInConfig` without the mutex, `Unmarshal` under it, and the three steps of
`Reload`. The handlers of the dashboard hold the mutex from end to end and are one
step each. `cache_ttl`, `target` and `strm_volumes` stand for the settings; a
setting that does not decode is a kind of file. Writing the file is one step, which
may fail; the fallback that writes it directly, which a crash can cut short, is
taken to be like the renaming. Start is one step: an edit between `Load` and the
watcher's first look at the file, which the code does miss, is left out.

### StreamRequest: how a stream request is answered

`StreamRequest` models `handleStream` and `parallelResolve` of `handler/stream.go`. A
request is a program counter with the source and the URL in its hand; each critical
section of the cache, of `urlMutex`, of `validateMu` and of `inflightMu` is a step,
and so is each network call. The caches are reduced to what is in them: `streams`
(GetStreamURL), `urlCache`, the marks of `validateRecent`. Entries vanish at any time
(`Lose` stands for lifetimes and eviction, which `URLCache` and `Cache` have),
preloads begin and end at any time (their steps are in `Preload`), and the origin may
let a URL die (`Die`). What the settings and the text of a URL decide, whether it is
given to the player as it is, after a look at `urlCache`, or resolved, is the kind of
the file and stays fixed. Left open: whether the source is known, the file can be
read, and the negative cache has it.

### ScanRounds: one scan after another

`ScanRounds` has the marks of `prefetchRecent` with their two ways of trimming
(`shouldSkipPrefetch`, `markPrefetchDone`) and the scans that depend on them, on the
cache, on what the media server has probed, on the credentials (`waitForAuth`), and on
the media server's answers to the listings: when the libraries cannot be listed the scan
ends, when one of them cannot the scan goes on without its items. Items appear at any
time; a notification that follows starts a full scan after its delay, or is dropped when a
scan runs, whether or not that scan has already listed the item's library.
Inside a scan the items go one by one; the goroutines are in `LibraryScan`. A mark is
its age, and the limits (200, 500, 300 marks; 120 s; 60 s to 3600 s) are constants.

### Logger and Lifecycle: the log and the end of the program

`Logger` is `logger/logger.go`: entries are numbers in the order in which they enter the
channel, a file is the sequence of its entries, and the directory maps a day and a slot
to a file. The writer takes one entry at a time, with all that this sets off (a new
day's file, the rotation), and any subset of the file operations inside may fail.
`Logger` has no next-state relation of its own. `Lifecycle` runs it inside the program:
`main`, the goroutine that waits for a signal, and the steps of `Server.Stop` in their
order inside `stopOnce`. The stops of the scanner, the workers and the cache are one
step here; `LibraryScan`, `Preload` and `CacheCleaner` have their insides.

## The runs

| run | instance | shows |
|---|---|---|
| preload | two movies, one queue place, two handlers, one worker, one request, three channels | `OneTaskPerPath`, `CloseOnce`, `WaiterNotStranded` |
| preload_live | a movie and an episode, one handler, two channels | `MovieReleased`, `SeriesReleased`, `ImplementsPromises` |
| cache | two sources of one item, one URL, lifetimes 1 and 12, limits 0 to 2 | `LRUMatchesMaps`, `ReadsKeepLive`, `InsertKeepsNew`, `StreamsImplementTTLMap` |
| cleaner | four channels, so three changes of the lifetime | `NoPanic`, `StillCleaning`, `AllEnd` |
| scan | two libraries, three items, two schedulers, a trigger | `OneScan`, `SemaphoreKept`, `NoTaskAfterStop`, `AllServed`, `ScanEnds`, `StopEnds` |
| urls | one file, one source, signatures of 1 and 4 minutes, a clock up to 3 | `ListMatchesMap`, `DeadAtMostAMinute`, `PausedAfterFailures` |
| playback | a season of three, a movie, a local file, two requests at a time, two arrivals, two attempts | `OneAtATime`, `StormEnds`, `ViewerFollowed` |
| config | one volume, two lifetimes, a target that does not parse, two edits, one change, two starts | `SaveNotUndone`, `ReloadConverges` |
| stream | one file with two sources, one URL it resolves to, two requests, all three kinds of files | `AnswerFits`, `Answered`, `DeadLeaves`, `Settles` |
| rounds | one item, there from the beginning or later, a key of another caller, trimming over one and over two marks | `ForgottenOnlyOld`, `TriedAgain` |
| lifecycle | two days, two kept slices, files rotated beyond one entry, six entries, a queue of two, one faulty moment or one file cleared, one signal | `WrittenBeforeExit`, `NewestKept`, `SlicesInOrder`, `ShutdownExits` |
| config_edit | as config, one edit | violates `HandEditApplied` |

Every module has a type invariant besides: `TypeOK`, or `CleanerTypeOK`, `PlaybackTypeOK`
and `ConfigTypeOK` where a module of proofs takes in two components, and `LogTypeOK`,
which is a part of that of `Lifecycle`. TLC checks those of `cache`, `scan` and
`lifecycle`; all of them are proved.

Why the bounds are enough. Two paths and one queue place make a full queue, and a drop
beside a claim; two handlers and a worker are the pairs of runners that could share a
channel; a third channel lets a path be claimed anew while the old channel still has a
waiter. Two entries and limits from 0 to 2 reach every comparison of the cache with its
limit, and lifetimes of 1 and 12 with a clock up to 2 an expired entry beside a live
one. Four channels let a cleaner be overtaken by two changes while it is in `cleanup`.
Three items with batches and retries of two make a full and a short last batch; one
place of the semaphore makes tasks wait. A clock up to 3 with signatures of 1 and of 4
has an entry hit at half of its life, refreshed, hit at the very end of its signature
and kept past it; a threshold of two and two refreshes per scan reach the breaker's
limit. A season of three has an episode with a next one and a last one, and two arrivals
let a prefetch of the chain meet a viewer. Two edits and a change put a change of the
file into every gap of the watcher's reading and reloading. One URL under two sources,
in `urlCache`, under a mark and in two hands is every copy that `DeadLeaves` is about;
the second source makes a request wait for a preload that stores nothing for it. That
URLs of two files are not mixed up needs a second file, which makes the instance too
large: there `AnswerFits` rests on its proof. `rounds` has keys of three prefixes and
another, so four marks against limits of one and two: both ways of trimming happen, and the
times to live lie on both sides of the age of trimming. Files are rotated after two
entries, so six entries make three rotations of a day, and the third drops the older of
the two slices: entries 1 and 2 are pushed out by full slices of newer ones, which is
what `NewestKept` is about. The faulty moment leaves any subset of a rotation's renames
undone; it and the clearing of a file share one bound and so are not combined. Counters
that the code leaves unbounded are capped at the value the guards compare them with, and
each bound is a named constant of its module. Views leave out of the state only fields
that no guard will read again.

### Fairness

Weak fairness of each thread's own steps: goroutines run, and every request to another
server ends by an answer or its timeout (20 s and 120 s in the scanner, the preload's
own deadline in the engine). Strong fairness where Go's `select` chooses at random among
ready cases (`TakeNormal`), where a scheduler notices a closed channel beside its timer,
where a semaphore place is contended and where `wg.Wait` returns. In `Playback` too
every request is answered or times out (20 s, 60 s for all attempts, 120 s for a
prefetch), and in `Config` the watcher's goroutine runs and its timers fire. In
`StreamRequest` a request's own steps are weakly fair (2 s for a check, 1.2 s or 3 s of
waiting, the timeouts of the resolution) and marks get old; in `ScanRounds` time passes,
the scan in progress goes on, and the ticker of the incremental scans fires; nothing is
assumed of notifications. That the credentials hold and the media server answers the
listings from some time on is the premise of `TriedAgain`, not fairness: without it
scans that end early, or pass over a library, may be all there are. In `Lifecycle` every
goroutine runs; the writer's fairness is over `taken` and `writer` alone, so that other
steps do not count as its own, and `Closed` waits for it. None is assumed of the
environment: handlers, triggers, edits and the stop may come or not.

`SeriesReleased` has the premise that the high-priority queue is empty from some
time on. It fails without it: a worker looks at the high queue first, and a steady
supply of movies holds back the episodes for ever, as the comment at
`stream.go:830` intends.

## What is proved

The proofs hold for any number of files, threads, queue places, sources,
libraries, URLs and lifetimes.

| module | theorems | assumptions |
|---|---|---|
| PreloadProofs | `TypeCorrect`, `OneTask`, `Safety`, `NoDoubleClose`, `NotStranded`, `Implements` | `PathsAssumption`, `SourcesAssumption`, `ChansAssumption`, `CapAssumption` |
| CacheProofs | `TypeCorrect`, `ListIsExact`, `LookupsKeepLive`, `NewStays`, `StreamURLs` | `TtlsAssumption`, `LimitsAssumption`, `ClockAssumption` |
| | `CleanerTypeCorrect`, `NeverPanics`, `AllReached`, `AlwaysCleaned` | `ChansAssumption` |
| LibraryScanProofs | `TypeCorrect`, `OneScanAtATime`, `SemaphoreHolds`, `QuietAfterStop`, `EverythingServed` | `ThreadsAssumption`, `SizesAssumption`, `LibrariesAssumption` |
| HandlerProofs | `TypeCorrect`, `ListIsExact`, `BreakerHolds`, `DeadSoonGone` | `DurationsAssumption`, `IdsAssumption` |
| | `PlaybackTypeCorrect`, `OneWorker` | `BoundsAssumption` |
| StreamRequestProofs | `TypeCorrect`, `RightURL` | `UrlsAssumption` |
| ScanRoundsProofs | `TypeCorrect`, `ForgottenLate` | `LimitsAssumption`, `ItemsAssumption`, `KeysAssumption` |
| ProgramProofs | `TypeCorrect`, `NothingUnwritten`, `RotationInOrder`, `NewestStay` | `LoggerAssumption`, `SignalsAssumption` |
| | `SavesStay`, `ConfigTypeCorrect` | `DocsAssumption`, `BoundsAssumption` |
| LRUListProofs | lemmas about `LRUList`, which CacheProofs and HandlerProofs cite | none |

Every invariant and every action property that a run checks is stated by a theorem, and
so are the two refinements: `Preload` implements `SingleFlight`, and the stream URLs of
`Cache` implement `TTLMap`.

*Preload.* `OneTaskPerPath` is not inductive: it does not say who may take a
path out of the map. The invariant adds Ownership (a claimed path has exactly one
owner: a caller about to send or drop, a place in a queue, or a runner) and
Channels (the runner's channel is the map's and open until the runner has taken
the path out, no two closers share one, every channel in the map is open).
`CloseOnce`, `WaiterNotStranded` and the refinement follow.

*Cache.* The evictions take keys from the front of the list until few enough entries are
left. A node without an entry would make them take nothing, an entry without a node
could never be taken, and `UpdateMaxItems` would not end: what an insertion keeps
follows only when the list is exact. `CacheInv` is the types, `Matched` (the list holds
the keys of the entries of both maps, each once) and `Lives` (an entry's life is not
over when it begins). Every call is shown once to be a `StepOK`: it keeps `CacheInv`, is
what the two action properties say, and is a step of `TTLMap` or none. `UpdateMaxItems`
and `cleanup` remove many entries at once; what the evictions take is a prefix of the
list, so `Rest` is a subsequence given by an order-preserving map of places, about which
the counting lemmas of `LRUListProofs` reason without induction.

*Cleaner.* The flag is set exactly while the current channel is open; channels
not yet made are used by nobody; the newest cleaner waits on the current channel.

*LibraryScan.* `ScanInv` says where each thread's locals are defined, ties the running
flag to the one thread inside a scan, orders the phases of the stop, and keeps the books
(Debts): until a stop, whatever a scan owes is in its pending batch, in the list of
failures, or in the batch that runs. The tokens in the semaphore are as many as the
tasks that make a request, since each puts one in before and takes one out after, on
every way out; what is to be kept is an equality between a number and a set that change
in different conjuncts. The types rest on one more part: what a listing still has to
visit are places of the library it is in, so that what it hands on are items, and less
than a batch of them is pending before a flush.

*URLCache.* BreakerInv: closed means fewer errors than the threshold; open with
that many means it stays open for `OpenFor` after the last; half-open means that
time is over. LifeInv: an entry under a file's key does not outlive its
signature, one under a source by at most the floor of a minute. That the latter may outlive
it at all is a finding: the invariant with 0 in the place of the minute fails, when a hit
falls on the last moment of a signature. `Listed` is to the
map and its list what `Matched` is to the cache, together with the capacity.

*Playback.* `OneAtATime` needs to know that `processing` holds exactly the items of
the threads inside `Handle`, and that what gets there is a `.strm` item.

*Config.* `SaveNotUndone` speaks of a file that holds what was saved; what is
inductive is `OverridesRule`, which says the same of any file: memory is what was
set last, since `Unmarshal` puts it before whatever the watcher has read. That is
also why an edit by hand has no effect (below): the code pays for the one with the
other.

*StreamRequest.* A redirect is right because whatever lies in the two caches is: an entry
of a source, and an entry of a file, is a URL meant for that file, and so is what a
request has in its hand once it has looked. The invariant says this of all three, for
then a step that carries a URL from one to another keeps it.

*ScanRounds.* `ForgottenOnlyOld` counts the keys marked since a forgotten one. A trimming
that drops by number keeps `Keep` others that are no older, so the count is reached when a
mark is forgotten; a key marked later only adds to it, a key already in it stays, and
time makes all of them older alike. Only ages cut off at `Horizon` could upset the order,
and a mark of that age is older than `TrimAge` anyway.

*Logger and Lifecycle.* Files are views of one directory before and after each of the
writer's operations, and `Sound` says that each is well typed and in order: going from
the last slot of a day down to the open file, entries only get later. Rotation begins
with the oldest slice, so a file whose rename fails is replaced by the next newer one or
stays where it is, and none is moved past it: order survives any subset of failures.
`Stops` ties how far `Server.Stop` has come to what is closed and what the writer has
taken: who leaves `main` by itself comes after the writer's end, and the writer's end
after the last entry that was due. `NewestKept` is about runs without faults; there
`Quiet` adds that the slots in use are the first ones, that rotated slices are full, and
that an entry of the day is either in a slot or has been pushed out by as many full
slices of newer entries as are kept.

Only model-checked: liveness under fairness, which the prover does not reach
(`MovieReleased`, `SeriesReleased`, `AllEnd`, `ScanEnds`, `StopEnds`, `StormEnds`,
`ViewerFollowed`, `ReloadConverges`, `Answered`, `DeadLeaves`, `Settles`, `TriedAgain`,
`ShutdownExits`).

## Where code and documents disagree

The findings in `PROJECT.json` give the lines. A run shows that after one save by the
dashboard an edit of the file never comes into force (`HandEditApplied`).

Found while modelling, without a run. Preload: a task that a full queue drops leaves its
channel open for ever; a signed URL taken for direct is kept past its signature.
Lifetimes: near the end of a signature the entry lives as long as the signature, and
with nothing left a minute, so a resolved URL too may be handed out dead for that long,
against README.md:114. Stream requests: a refused URL can come back through `urlCache`;
a request that waits for the preload of another source of its file resolves the URL once
more; a redirect may be kept past the signature. Cache: inserting sources beside URLs
exceeds the limit; removing one version of an item hides another; a cleaner that was in
`cleanup` while the lifetime changed goes on beside its successor; the configured limit
is applied only by a reload. Scanner: a trigger that comes late runs a scan after the
stop; a folder in a page ends the listing of a library; marks meant for an hour are
trimmed after two minutes; notifications are not merged; a captured token goes before
the login's. Refresh: it never lengthens the life of the entry it refreshes, a refused
one deletes under a key that nothing has, and one URL under two keys is refreshed twice
in a scan. Playback: a viewer who opens an episode while a prefetch has claimed it is
turned away, and nobody prefetches the next ones; a stream request for a local file is
refused after 18 attempts. Configuration: a refused update stays half-done, and a
`cache_ttl` of 0 ends the process. Program and log: a signal before the HTTP server is
set leaves it serving without workers and deaf to further signals; a graceful stop is
reported as a failure; an entry may be enqueued after the drain; after a clearing the
writer goes on in a file without a name; the fallback of the log page shows the oldest
slice; a session's cookie is not renewed.

## Not modelled, and why

The poster prefetcher's entry points return at once (`poster_prefetch.go:113`,
`343`). The docker manager and the utilities are calls to other programs and pure
I/O. Templates are text. Statistics, wording and the levels of the log are left out
everywhere. Rewriting of JSON bodies is reduced to which sources and items an
answer names. Of the stream handler: settings that change during a request,
`enable_smart_ttl` off, the cache of `.strm` contents, warm-ups and their marks, which
only shorten the wait for a first byte. Of the auth store: which of several tokens goes
out. Of the dashboard: sessions and the limit on logins. Of the logger: the console, and
`Sync`, which matters only when the machine itself fails. Of the program: the memory
monitor.

## Plan

The order follows what a viewer notices first. Done: the preload engine, the cache
and its cleaner, the scanner with the batch prefetcher, the URL caches, the playback
handler, the configuration, stream requests, the marks from scan to scan, the logger and
the life of the program. To come:

1. `Dashboard`: sessions with their clean-up and renewal, the limit on logins,
   notifications as timers; the tokens of the auth store.
2. Abstract specifications: a single-worker lock that `Playback` implements
   (`processing`), and a register that `Config` implements as long as nobody edits
   the file.
3. Theorems: these refinements; that `DeadLeaves`' safety part, a URL that was found dead
   is not handed out again from where it was removed, holds for any number of requests.

------------------------------- MODULE Preload -------------------------------
(***************************************************************************)
(* The preload engine of internal/handler/stream.go: URLs of .strm files   *)
(* are resolved ahead of playback by a pool of workers and by goroutines   *)
(* of their own, and stream requests wait for a resolution in progress on  *)
(* a channel ("promise") that the engine keeps in the map inflight.        *)
(*                                                                         *)
(* Threads of the model:                                                   *)
(*   Callers   PlaybackInfo handlers: PreloadStrmSync, PreloadMediaSource  *)
(*   Workers   the goroutines of preloadWorker                             *)
(*   Chans     goroutines started by "go h.executePreload(task)"; each is  *)
(*             named by the channel its caller has just made               *)
(*   Requests  stream requests (parallelResolve) and the fallback for      *)
(*             unknown sources (WaitForURLResolution)                      *)
(*                                                                         *)
(* A step is what a thread does between two points where another thread    *)
(* can see a difference: a critical section, a channel operation, or an    *)
(* HTTP resolution.  Channels are garbage collected: a channel that no     *)
(* thread and no map refers to may be made again.                          *)
(***************************************************************************)
EXTENDS Naturals, Sequences, FiniteSets

CONSTANTS
    Paths,      (* paths of .strm files                                    *)
    Movies,     (* those whose path holds "movie": the high queue is theirs *)
    Sources,    (* MediaSource ids                                         *)
    PathOf,     (* the path of every source; sources may share one         *)
    Callers, Workers, Requests,
    Chans,      (* channels, and the goroutines named by them              *)
    NoChan,     (* nil                                                     *)
    NoSource,   (* what an idle thread works on                            *)
    HighCap,    (* capacity of highPriorityQueue                           *)
    NormalCap   (* capacity of preloadQueue                                *)

ASSUME PathsAssumption == /\ Movies \subseteq Paths
                          /\ PathOf \in [Sources -> Paths]
ASSUME SourcesAssumption == NoSource \notin Sources
ASSUME ChansAssumption == /\ NoChan \notin Chans
                          /\ Workers \cap Chans = {}
ASSUME CapAssumption   == HighCap \in Nat /\ NormalCap \in Nat

VARIABLES
    inflight,   (* path -> channel of the task in progress, or NoChan       *)
    closed,     (* the channels that have been closed                       *)
    dropped,    (* the channels whose task was dropped by a full queue      *)
    highQ, normalQ, (* the two buffered channels of tasks                   *)
    streams,    (* sources with a fresh URL in cache.streamURLs             *)
    shutdown,   (* the channel shutdown has been closed                     *)
    caller,     (* state of every PlaybackInfo handler                      *)
    run,        (* state of every worker and preload goroutine              *)
    req         (* state of every stream request                            *)

flightVars == <<inflight, closed, dropped>>
queueVars  == <<highQ, normalQ>>
vars == <<flightVars, queueVars, streams, shutdown, caller, run, req>>

Runners == Workers \cup Chans

(* The steps of executePreload during which the task owns inflight[path].  *)
Executing == {"start", "check", "resolve", "delete"}
WaitPC    == {"fgWait", "bgWait"}

(* What a thread with nothing to do looks like.                            *)
CallerIdle == [pc |-> "idle", ms |-> NoSource]
RunIdle(pc) == [pc |-> pc, ms |-> NoSource, done |-> NoChan]
ReqIdle    == [pc |-> "idle", ms |-> NoSource, ch |-> NoChan]

CallerState ==
    {CallerIdle}
      \cup [pc: {"syncClaim", "media", "send", "drop"}, ms: Sources]
RunState ==
    {RunIdle("gone"), RunIdle("poll"), RunIdle("select")}
      \cup [pc: {"start"}, ms: Sources, done: {NoChan}]
      \cup [pc: {"check", "resolve", "delete", "close"}, ms: Sources,
            done: Chans \cup {NoChan}]
ReqState ==
    {ReqIdle}
      \cup [pc: {"fgLookup", "fgResolve", "bgLookup"}, ms: Sources, ch: {NoChan}]
      \cup [pc: WaitPC, ms: Sources, ch: Chans]

TypeOK ==
    /\ inflight \in [Paths -> Chans \cup {NoChan}]
    /\ closed \subseteq Chans /\ dropped \subseteq Chans
    /\ highQ \in Seq(Sources) /\ normalQ \in Seq(Sources)
    /\ Len(highQ) <= HighCap /\ Len(normalQ) <= NormalCap
    /\ streams \subseteq Sources
    /\ shutdown \in BOOLEAN
    /\ caller \in [Callers -> CallerState]
    /\ run \in [Runners -> RunState]
    /\ req \in [Requests -> ReqState]

Init ==
    /\ inflight = [p \in Paths |-> NoChan]
    /\ closed = {} /\ dropped = {}
    /\ highQ = <<>> /\ normalQ = <<>>
    /\ streams = {}
    /\ shutdown = FALSE
    /\ caller = [k \in Callers |-> CallerIdle]
    /\ run = [r \in Runners |-> RunIdle(IF r \in Workers THEN "poll" ELSE "gone")]
    /\ req = [q \in Requests |-> ReqIdle]

-----------------------------------------------------------------------------
(* Channels.                                                               *)

(* A channel to which nothing refers: what make(chan struct{}) may return.  *)
Fresh(c) ==
    /\ \A p \in Paths : inflight[p] # c
    /\ \A q \in Requests : req[q].ch # c
    /\ \A r \in Runners : run[r].done # c
    /\ run[c].pc = "gone"

(* inflight[p] = make(chan struct{}), under inflightMu.                     *)
Claim(p, c) ==
    /\ Fresh(c)
    /\ inflight' = [inflight EXCEPT ![p] = c]
    /\ closed'   = closed \ {c}
    /\ dropped'  = dropped \ {c}

(* The next state of a worker or preload goroutine; go h.executePreload.     *)
RunTo(r, pc, s, c) ==
    run' = [run EXCEPT ![r] = [pc |-> pc, ms |-> s, done |-> c]]
RunDone(r, pc) == run' = [run EXCEPT ![r] = RunIdle(pc)]
Start(r, s)    == RunTo(r, "start", s, NoChan)

-----------------------------------------------------------------------------
(* PlaybackInfo handlers: for every source PreloadStrmSync, then           *)
(* PreloadMediaSource.                                                     *)

CallerTo(k, pc, s) == caller' = [caller EXCEPT ![k] = [pc |-> pc, ms |-> s]]
CallerDone(k)      == caller' = [caller EXCEPT ![k] = CallerIdle]

(* PreloadStrmSync up to its first write: nothing to do when the URL is     *)
(* cached or the file cannot be read; a URL that needs no resolution        *)
(* (passthrough, direct, LAN) is cached at once.  Which of these a path is  *)
(* depends on the file and on settings that can change at any time.         *)
SyncRead(k) ==
    /\ caller[k].pc = "idle"
    /\ \E s \in Sources :
         \/ /\ CallerTo(k, "media", s)
            /\ UNCHANGED streams
         \/ /\ s \notin streams
            /\ CallerTo(k, "media", s)
            /\ streams' = streams \cup {s}
         \/ /\ s \notin streams
            /\ CallerTo(k, "syncClaim", s)
            /\ UNCHANGED streams
    /\ UNCHANGED <<flightVars, queueVars, shutdown, run, req>>

BugSyncClaim(k) ==   \* claims a path that is already claimed
    /\ caller[k].pc = "syncClaim"
    /\ \E c \in Chans :
         /\ Claim(PathOf[caller[k].ms], c)
         /\ Start(c, caller[k].ms)
    /\ CallerTo(k, "media", caller[k].ms)
    /\ UNCHANGED <<queueVars, streams, shutdown, req>>

(* The claim at the end of PreloadStrmSync: the goroutine that resolves the *)
(* URL is started outside the pool.                                         *)
SyncClaim(k) ==
    /\ caller[k].pc = "syncClaim"
    /\ LET p == PathOf[caller[k].ms] IN
         \/ /\ inflight[p] # NoChan
            /\ UNCHANGED <<flightVars, run>>
         \/ /\ inflight[p] = NoChan
            /\ \E c \in Chans :
                 /\ Claim(p, c)
                 /\ Start(c, caller[k].ms)
    /\ CallerTo(k, "media", caller[k].ms)
    /\ UNCHANGED <<queueVars, streams, shutdown, req>>

BugMediaClaim(k) ==  \* queues a second task for a claimed path
    /\ caller[k].pc = "media"
    /\ LET p == PathOf[caller[k].ms] IN
         \/ inflight[p] # NoChan /\ UNCHANGED flightVars
         \/ inflight[p] = NoChan /\ \E c \in Chans : Claim(p, c)
    /\ CallerTo(k, "send", caller[k].ms)
    /\ UNCHANGED <<queueVars, streams, shutdown, run, req>>

(* PreloadMediaSource: nothing to do when preloading is switched off or the *)
(* path is claimed; the check and the claim are one critical section, the   *)
(* send to the queue comes after it.                                        *)
MediaClaim(k) ==
    /\ caller[k].pc = "media"
    /\ LET p == PathOf[caller[k].ms] IN
         \/ /\ CallerDone(k)
            /\ UNCHANGED flightVars
         \/ /\ inflight[p] = NoChan
            /\ \E c \in Chans : Claim(p, c)
            /\ CallerTo(k, "send", caller[k].ms)
    /\ UNCHANGED <<queueVars, streams, shutdown, run, req>>

(* The non-blocking send: movies to the high queue, the rest to the normal. *)
MediaSend(k) ==
    /\ caller[k].pc = "send"
    /\ LET s == caller[k].ms
           isMovie == PathOf[s] \in Movies
       IN \/ /\ isMovie /\ Len(highQ) < HighCap
             /\ highQ' = Append(highQ, s)
             /\ CallerDone(k)
             /\ UNCHANGED normalQ
          \/ /\ ~isMovie /\ Len(normalQ) < NormalCap
             /\ normalQ' = Append(normalQ, s)
             /\ CallerDone(k)
             /\ UNCHANGED highQ
          \/ /\ IF isMovie THEN Len(highQ) = HighCap ELSE Len(normalQ) = NormalCap
             /\ CallerTo(k, "drop", caller[k].ms)
             /\ UNCHANGED queueVars
    /\ UNCHANGED <<flightVars, streams, shutdown, run, req>>

(* The full queue: the path is given back, its channel is left open.        *)
MediaDrop(k) ==
    /\ caller[k].pc = "drop"
    /\ LET p == PathOf[caller[k].ms] IN
         /\ inflight' = [inflight EXCEPT ![p] = NoChan]
         /\ dropped' = dropped \cup ({inflight[p]} \ {NoChan})
    /\ CallerDone(k)
    /\ UNCHANGED <<closed, queueVars, streams, shutdown, run, req>>

-----------------------------------------------------------------------------
(* Workers and preload goroutines.                                         *)

PathOfRun(r) == PathOf[run[r].ms]

(* The outer select of preloadWorker: high-priority tasks and the shutdown  *)
(* are looked at first, and only if neither is ready (default) the worker   *)
(* goes on to the fair select.                                              *)
WorkerPoll(w) ==
    /\ run[w].pc = "poll"
    /\ \/ /\ highQ # <<>>
          /\ highQ' = Tail(highQ)
          /\ Start(w, Head(highQ))
       \/ /\ shutdown
          /\ RunDone(w, "gone")
          /\ UNCHANGED highQ
       \/ /\ highQ = <<>> /\ ~shutdown
          /\ RunDone(w, "select")
          /\ UNCHANGED highQ
    /\ UNCHANGED <<flightVars, normalQ, streams, shutdown, caller, req>>

BugWorkerSelect(w) ==   \* forgets the normal queue
    /\ run[w].pc = "select"
    /\ \/ /\ highQ # <<>>
          /\ highQ' = Tail(highQ)
          /\ Start(w, Head(highQ))
       \/ /\ shutdown
          /\ RunDone(w, "gone")
          /\ UNCHANGED highQ
    /\ UNCHANGED <<flightVars, normalQ, streams, shutdown, caller, req>>

(* The inner select: blocks until a task or the shutdown is ready.          *)
WorkerSelect(w) ==
    /\ run[w].pc = "select"
    /\ \/ /\ highQ # <<>>
          /\ highQ' = Tail(highQ)
          /\ Start(w, Head(highQ))
          /\ UNCHANGED normalQ
       \/ /\ normalQ # <<>>
          /\ normalQ' = Tail(normalQ)
          /\ Start(w, Head(normalQ))
          /\ UNCHANGED highQ
       \/ /\ shutdown
          /\ RunDone(w, "gone")
          /\ UNCHANGED queueVars
    /\ UNCHANGED <<flightVars, streams, shutdown, caller, req>>

(* executePreload reads its channel from inflight ...                       *)
ExecStart(r) ==
    /\ run[r].pc = "start"
    /\ RunTo(r, "check", run[r].ms, inflight[PathOfRun(r)])
    /\ UNCHANGED <<flightVars, queueVars, streams, shutdown, caller, req>>

(* ... returns at once when the URL is cached, the file is unreadable or    *)
(* its URL failed lately, caches a URL that needs no resolution, and        *)
(* otherwise resolves it.                                                   *)
ExecCheck(r) ==
    /\ run[r].pc = "check"
    /\ \/ /\ RunTo(r, "delete", run[r].ms, run[r].done)
          /\ UNCHANGED streams
       \/ /\ run[r].ms \notin streams
          /\ RunTo(r, "delete", run[r].ms, run[r].done)
          /\ streams' = streams \cup {run[r].ms}
       \/ /\ run[r].ms \notin streams
          /\ RunTo(r, "resolve", run[r].ms, run[r].done)
          /\ UNCHANGED streams
    /\ UNCHANGED <<flightVars, queueVars, shutdown, caller, req>>

(* The end of resolveURLWithRetry: a URL, or a failure (whose record in the *)
(* negative cache only makes the outcomes of the checks likelier).          *)
ExecResolve(r) ==
    /\ run[r].pc = "resolve"
    /\ streams' = streams \cup {run[r].ms} \/ UNCHANGED streams
    /\ RunTo(r, "delete", run[r].ms, run[r].done)
    /\ UNCHANGED <<flightVars, queueVars, shutdown, caller, req>>

BugExecDelete(r) ==  \* leaves the entry in the map
    /\ run[r].pc = "delete"
    /\ RunTo(r, "close", run[r].ms, run[r].done)
    /\ UNCHANGED <<flightVars, queueVars, streams, shutdown, caller, req>>

BugDeleteLate(r) ==  \* closes the channel while the map still holds it
    /\ run[r].pc = "delete"
    /\ closed' = closed \cup {run[r].done}
    /\ RunTo(r, "close", run[r].ms, run[r].done)
    /\ UNCHANGED <<inflight, dropped, queueVars, streams, shutdown, caller, req>>

(* The deferred function: the entry goes first, under the lock ...          *)
ExecDelete(r) ==
    /\ run[r].pc = "delete"
    /\ inflight' = [inflight EXCEPT ![PathOfRun(r)] = NoChan]
    /\ RunTo(r, "close", run[r].ms, run[r].done)
    /\ UNCHANGED <<closed, dropped, queueVars, streams, shutdown, caller, req>>

BugExecClose(r) ==   \* never closes the channel
    /\ run[r].pc = "close"
    /\ RunDone(r, IF r \in Workers THEN "poll" ELSE "gone")
    /\ UNCHANGED <<flightVars, queueVars, streams, shutdown, caller, req>>

(* ... then the channel is closed.  A worker goes back to its loop.         *)
ExecClose(r) ==
    /\ run[r].pc = "close"
    /\ closed' = closed \cup ({run[r].done} \ {NoChan})
    /\ RunDone(r, IF r \in Workers THEN "poll" ELSE "gone")
    /\ UNCHANGED <<inflight, dropped, queueVars, streams, shutdown, caller, req>>

-----------------------------------------------------------------------------
(* Stream requests.                                                        *)

ReqTo(q, pc, s, c) == req' = [req EXCEPT ![q] = [pc |-> pc, ms |-> s, ch |-> c]]
ReqDone(q)         == req' = [req EXCEPT ![q] = ReqIdle]
PathOfReq(q) == PathOf[req[q].ms]

(* handleStream and parallelResolve up to the point where an HTTP           *)
(* resolution is needed: a cached stream URL, an entry of urlCache, a URL   *)
(* in the negative cache or one that needs no resolution ends the request   *)
(* (LAN URLs are not put into urlCache).                                    *)
FgBegin(q) ==
    /\ req[q].pc = "idle"
    /\ \E s \in Sources \ streams :
         \/ /\ streams' = streams \cup {s}
            /\ UNCHANGED req
         \/ /\ ReqTo(q, "fgLookup", s, NoChan)
            /\ UNCHANGED streams
    /\ UNCHANGED <<flightVars, queueVars, shutdown, caller, run>>

(* doneCh := inflight[path], under inflightMu.                              *)
FgLookup(q) ==
    /\ req[q].pc = "fgLookup"
    /\ LET c == inflight[PathOfReq(q)]
       IN \/ c = NoChan /\ ReqTo(q, "fgResolve", req[q].ms, NoChan)
          \/ c # NoChan /\ ReqTo(q, "fgWait", req[q].ms, c)
    /\ UNCHANGED <<flightVars, queueVars, streams, shutdown, caller, run>>

(* The preload has finished: its result is used if the cache holds it.      *)
FgWake(q) ==
    /\ req[q].pc = "fgWait"
    /\ req[q].ch \in closed
    /\ \/ req[q].ms \in streams /\ ReqDone(q)
       \/ req[q].ms \notin streams /\ ReqTo(q, "fgResolve", req[q].ms, NoChan)
    /\ UNCHANGED <<flightVars, queueVars, streams, shutdown, caller, run>>

(* After 1.2 s, 3 s for a retry: the request resolves the URL itself.       *)
FgTimeout(q) ==
    /\ req[q].pc = "fgWait"
    /\ ReqTo(q, "fgResolve", req[q].ms, NoChan)
    /\ UNCHANGED <<flightVars, queueVars, streams, shutdown, caller, run>>

(* The resolution in the foreground, its second attempt included.           *)
FgResolve(q) ==
    /\ req[q].pc = "fgResolve"
    /\ streams' = streams \cup {req[q].ms} \/ UNCHANGED streams
    /\ ReqDone(q)
    /\ UNCHANGED <<flightVars, queueVars, shutdown, caller, run>>

(* WaitForURLResolution: no URL yet, so it looks for a task to wait for ... *)
BgBegin(q) ==
    /\ req[q].pc = "idle"
    /\ \E s \in Sources \ streams :
         ReqTo(q, "bgLookup", s, NoChan)
    /\ UNCHANGED <<flightVars, queueVars, streams, shutdown, caller, run>>

(* ... returns when there is none ...                                       *)
BgLookup(q) ==
    /\ req[q].pc = "bgLookup"
    /\ LET c == inflight[PathOfReq(q)]
       IN \/ c = NoChan /\ ReqDone(q)
          \/ c # NoChan /\ ReqTo(q, "bgWait", req[q].ms, c)
    /\ UNCHANGED <<flightVars, queueVars, streams, shutdown, caller, run>>

(* ... or when the channel is closed, or after five seconds.                *)
BgWake(q) ==
    /\ req[q].pc = "bgWait"
    /\ req[q].ch \in closed
    /\ ReqDone(q)
    /\ UNCHANGED <<flightVars, queueVars, streams, shutdown, caller, run>>

BgTimeout(q) ==
    /\ req[q].pc = "bgWait"
    /\ ReqDone(q)
    /\ UNCHANGED <<flightVars, queueVars, streams, shutdown, caller, run>>

-----------------------------------------------------------------------------
(* What the rest of the program does to this state.                        *)

(* Entries of the caches expire, are evicted, deleted or cleared.           *)
Lose ==
    /\ \E s \in streams : streams' = streams \ {s}
    /\ UNCHANGED <<flightVars, queueVars, shutdown, caller, run, req>>

(* Stop closes the channel shutdown; workers notice it in their selects.    *)
Stop ==
    /\ ~shutdown
    /\ shutdown' = TRUE
    /\ UNCHANGED <<flightVars, queueVars, streams, caller, run, req>>

Call(k) == \/ SyncClaim(k) \/ MediaClaim(k)
           \/ MediaSend(k) \/ MediaDrop(k)

Work(r) == \/ ExecStart(r) \/ ExecCheck(r) \/ ExecResolve(r)
           \/ ExecDelete(r) \/ ExecClose(r)

Wait(q) == \/ FgLookup(q) \/ FgWake(q) \/ FgResolve(q)
           \/ BgLookup(q) \/ BgWake(q)

Next ==
    \/ \E k \in Callers : SyncRead(k) \/ Call(k)
    \/ \E w \in Workers : WorkerPoll(w) \/ WorkerSelect(w)
    \/ \E r \in Runners : Work(r)
    \/ \E q \in Requests : \/ FgBegin(q) \/ BgBegin(q) \/ Wait(q)
                           \/ FgTimeout(q) \/ BgTimeout(q)
    \/ Lose
    \/ Stop

Spec == Init /\ [][Next]_vars

(* A thread that can go on does (the Go scheduler), HTTP requests have      *)
(* timeouts, and a select does not ignore a ready normal queue for ever     *)
(* (Go chooses among the ready cases at random).  Calls, timeouts and the   *)
(* shutdown need never come.                                                *)
TakeNormal(w) == WorkerSelect(w) /\ normalQ' # normalQ

Fairness ==
    /\ \A k \in Callers : WF_vars(Call(k))
    /\ \A r \in Runners : WF_vars(Work(r))
    /\ \A w \in Workers : /\ WF_vars(WorkerPoll(w))
                          /\ WF_vars(WorkerSelect(w))
                          /\ SF_vars(TakeNormal(w))
    /\ \A q \in Requests : WF_vars(Wait(q))

FairSpec == Spec /\ Fairness

-----------------------------------------------------------------------------
(* Who is responsible for inflight[p]: a handler between its claim and its  *)
(* send (or drop), a task in a queue, or a task being executed.             *)
Owners(p) ==
    {<<"caller", k>> : k \in {k \in Callers : /\ caller[k].pc \in {"send", "drop"}
                                              /\ PathOf[caller[k].ms] = p}}
    \cup {<<"high", i>> : i \in {i \in DOMAIN highQ : PathOf[highQ[i]] = p}}
    \cup {<<"normal", i>> : i \in {i \in DOMAIN normalQ : PathOf[normalQ[i]] = p}}
    \cup {<<"run", r>> : r \in {r \in Runners : /\ run[r].pc \in Executing
                                                /\ PathOfRun(r) = p}}

(* A path is claimed exactly while one task for it exists, from the claim   *)
(* over the queue to the end of executePreload: no file is preloaded twice  *)
(* at a time, and no entry is left behind that would refuse every later     *)
(* preload of its file (stream.go:1552-1560, 1586-1589, 852-860).           *)
OneTaskPerPath ==
    \A p \in Paths :
        /\ inflight[p] = NoChan => Owners(p) = {}
        /\ inflight[p] # NoChan => \E o \in Owners(p) : Owners(p) = {o}

(* close(doneCh) never meets a closed channel, which would bring the        *)
(* process down: a runner about to close holds an open channel that no      *)
(* other runner will close and no path refers to (stream.go:854-860).       *)
CloseOnce ==
    \A r \in Runners : run[r].pc = "close" =>
        /\ run[r].done \in Chans \ closed
        /\ \A p \in Paths : inflight[p] # run[r].done
        /\ \A o \in Runners \ {r} :
              run[o].pc \in Executing \cup {"close"} => run[o].done # run[r].done

(* The channel a request waits on, and what makes it end.                   *)
Waiting(q) == req[q].pc \in {"fgWait", "bgWait"}
Pending(c) ==
    \/ c \in closed
    \/ \E p \in Paths : inflight[p] = c
    \/ \E r \in Runners : run[r].pc = "close" /\ run[r].done = c

(* A request waits on a channel that somebody is going to close, as the     *)
(* struct promises (stream.go:114): only a task that a full queue dropped   *)
(* leaves requests waiting for nobody (stream.go:1585-1589).                *)
WaiterNotStranded ==
    \A q \in Requests : Waiting(q) => Pending(req[q].ch) \/ req[q].ch \in dropped

(* A movie's path is given back: its task is executed or dropped, unless    *)
(* the engine stops, however the requests behave (stream.go:816-822).       *)
MovieReleased ==
    \A p \in Movies : inflight[p] # NoChan ~> (inflight[p] = NoChan \/ shutdown)

(* Any other path is given back too, provided that movies do not keep the   *)
(* workers busy for ever: the normal queue is served only when the high     *)
(* queue is found empty (stream.go:819-841).                                *)
SeriesReleased ==
    <>[](highQ = <<>>) =>
        \A p \in Paths \ Movies :
            inflight[p] # NoChan ~> (inflight[p] = NoChan \/ shutdown)

(* The engine implements the promises of SingleFlight: a file is claimed    *)
(* only when it is free, given back before its channel is closed, and its   *)
(* channel is closed at most once (stream.go:848-860, 1522-1531, 1554-1560). *)
Promises == INSTANCE SingleFlight WITH
    flight <- inflight,
    done   <- closed,
    waits  <- [q \in Requests |-> req[q].ch]

ImplementsPromises == Promises!Spec

=============================================================================

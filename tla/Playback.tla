------------------------------ MODULE Playback ------------------------------
(***************************************************************************)
(* What happens around an answer to PlaybackInfo: the playback handler     *)
(* (internal/handler/playback.go) and the requests of internal/proxy/      *)
(* server.go that lead to it: the proxied answer, its retry, the proactive  *)
(* request, the prefetch for a detail page, the fallback of a stream        *)
(* request, the prefetch of the episodes that follow, and one prefetch of   *)
(* the library scan (internal/proxy/batch_prefetch.go).                    *)
(*                                                                         *)
(* A thread is the goroutine of one request.  It asks the media server,     *)
(* and hands the answer to Handle, which looks into the cache, claims the   *)
(* item, stores its source and preloads it.  The header                    *)
(* X-Fnysfd-Next-Prefetch, which keeps a prefetch from starting the next    *)
(* one, is the field "chained".                                            *)
(*                                                                         *)
(* An item has one source.  A mark of prefetchRecent counts for a time      *)
(* only (3 to 3600 s) and is trimmed, so whether it holds when it is asked  *)
(* for is left open.  The switch enable_preload is on.                     *)
(***************************************************************************)
EXTENDS Naturals, FiniteSets

CONSTANTS
    LastEpisode,    (* the season has the episodes 1 .. LastEpisode         *)
    Movies,         (* items with a .strm file in a movie's path            *)
    Locals,         (* items whose file is no .strm file                    *)
    Threads,        (* bound: requests under way at a time                  *)
    MaxArrivals,    (* bound: what viewers and the library scan ask for     *)
    MaxAttempts     (* of a request that is repeated: 5, 30 and 18          *)

Episodes == 1 .. LastEpisode
Strms    == Episodes \cup Movies
Items    == Strms \cup Locals

ASSUME ItemsAssumption == /\ LastEpisode \in Nat
                          /\ Episodes \cap Movies = {}
                          /\ Strms \cap Locals = {}
ASSUME BoundsAssumption == {MaxArrivals, MaxAttempts} \subseteq Nat

VARIABLES
    cached,         (* the items whose source is in the cache               *)
    processing,     (* the map of that name: items Handle has claimed       *)
    follow,         (* episodes with a goroutine of                         *)
                    (* prefetchNextEpisodesBestEffort                       *)
    arrivals,       (* how much has been asked for                          *)
    th              (* the threads                                          *)

playbackVars == <<cached, processing, follow, arrivals, th>>

(* Once: the proxied request, the proactive one, a prefetch of the library   *)
(* scan.  Repeated: the retry and the prefetch for a detail page.           *)
Kinds    == {"once", "repeated", "miss"}
Places   == {"answer", "begin", "ask", "check", "claim", "store", "preload", "look", "ready"}
Active   == [kind: Kinds, item: Items, chained: BOOLEAN, pc: Places, tries: Nat]
Idle     == [pc |-> "idle"]

(* Handle has claimed the item and not given it back.                       *)
Inside == {"store", "preload"}
Holds(t, i) == th[t].pc \in Inside /\ th[t].item = i

PlaybackTypeOK ==
    /\ cached \subseteq Strms
    /\ processing \subseteq Strms
    /\ follow \subseteq Episodes
    /\ arrivals \in 0 .. MaxArrivals
    /\ th \in [Threads -> Active \cup {Idle}]

Free == {t \in Threads : th[t] = Idle}

Thread(kind, i, chained, pc) ==
    [kind |-> kind, item |-> i, chained |-> chained, pc |-> pc, tries |-> 1]

At(t, pc)    == th[t].pc = pc
Goto(t, pc)  == th' = [th EXCEPT ![t].pc = pc]
End(t)       == th' = [th EXCEPT ![t] = Idle]

PlaybackInit ==
    /\ cached = {}
    /\ processing = {}
    /\ follow = {}
    /\ arrivals = 0
    /\ th = [t \in Threads |-> Idle]

-----------------------------------------------------------------------------
(* What comes from outside.                                                *)

Arrive(t, thread) == /\ arrivals < MaxArrivals
                     /\ t \in Free
                     /\ arrivals' = arrivals + 1
                     /\ th' = [th EXCEPT ![t] = thread]
                     /\ UNCHANGED <<cached, processing, follow>>

(* A request for a detail page starts a prefetch unless a mark holds.       *)
OpenDetail(t, i) == Arrive(t, Thread("repeated", i, FALSE, "ask"))

(* The proxy has forwarded a request for PlaybackInfo ...                    *)
AskPlayback(t, i) == Arrive(t, Thread("once", i, FALSE, "answer"))

(* ... and, if it was a GET, has made one of its own beside it.  When the    *)
(* item is in the cache with a URL, or a mark holds, it has not.             *)
AskPlaybackGet(t, u, i) ==
    /\ arrivals < MaxArrivals
    /\ t # u /\ {t, u} \subseteq Free
    /\ arrivals' = arrivals + 1
    /\ th' = [th EXCEPT ![t] = Thread("once", i, FALSE, "answer"),
                        ![u] = Thread("once", i, FALSE, "ask")]
    /\ UNCHANGED <<cached, processing, follow>>

(* A stream request that does not find its source.  One that does is        *)
(* answered without any of this.                                            *)
StreamRequest(t, i) == i \notin cached /\ Arrive(t, Thread("miss", i, FALSE, "begin"))

(* PrefetchItem of the library scan, past its marks and its semaphore.      *)
PrefetchItem(t, i) == Arrive(t, Thread("once", i, TRUE, "ask"))

(* An entry is evicted, expires or is cleared.                              *)
Evict(i) == /\ i \in cached
            /\ cached' = cached \ {i}
            /\ UNCHANGED <<processing, follow, arrivals, th>>

-----------------------------------------------------------------------------
(* Requests to the media server.                                           *)

(* handleResponse: another status than 200 starts retryPlaybackInfo, which   *)
(* goes on here in the place of the proxied request; an answer that cannot  *)
(* be read is the end of it.                                                *)
HandleResponse(t) ==
    /\ At(t, "answer")
    /\ \/ Goto(t, "check")
       \/ End(t)
       \/ th' = [th EXCEPT ![t].kind = "repeated", ![t].pc = "ask"]
    /\ UNCHANGED <<cached, processing, follow, arrivals>>

(* prefetchForMediaSourceMiss looks once more before it asks.               *)
BeginMiss(t) ==
    /\ At(t, "begin")
    /\ Goto(t, IF th[t].item \in cached THEN "ready" ELSE "ask")
    /\ UNCHANGED <<cached, processing, follow, arrivals>>

AskOK(t) == /\ At(t, "ask")
            /\ Goto(t, "check")
            /\ UNCHANGED <<cached, processing, follow, arrivals>>

(* The request fails, or is answered with another status than 200.          *)
Again(t) == IF th[t].kind # "once" /\ th[t].tries < MaxAttempts
            THEN th' = [th EXCEPT ![t].pc = "ask", ![t].tries = @ + 1]
            ELSE End(t)

AskFailed(t) == /\ At(t, "ask")
                /\ Again(t)
                /\ UNCHANGED <<cached, processing, follow, arrivals>>

(* The body cannot be read, or is empty: only the fallback tries again.      *)
AskUnreadable(t) == /\ At(t, "ask")
                    /\ IF th[t].kind = "miss" THEN Again(t) ELSE End(t)
                    /\ UNCHANGED <<cached, processing, follow, arrivals>>

-----------------------------------------------------------------------------
(* PlaybackHandler.Handle.                                                 *)

(* Where a thread goes after Handle.                                        *)
Return(t) == IF th[t].kind = "miss" THEN Goto(t, "look") ELSE End(t)

(* onPlaybackCached: unless the request was itself a prefetch of the chain, *)
(* the episodes after this one come next.  Movies have none.                *)
Callback(t) == follow' = IF th[t].chained THEN follow
                         ELSE follow \cup ({th[t].item} \cap Episodes)

(* The look into the cache.                                                 *)
CheckOther(t)  == /\ th[t].item \in Locals
                  /\ Return(t)
                  /\ UNCHANGED follow
BugCheckCached(t) == /\ th[t].item \in cached
                     /\ Return(t)
                     /\ UNCHANGED follow
CheckCached(t) == /\ th[t].item \in cached
                  /\ Callback(t)
                  /\ Return(t)
CheckNew(t)    == /\ th[t].item \in Strms \ cached
                  /\ Goto(t, "claim")
                  /\ UNCHANGED follow
Check(t) == /\ At(t, "check")
            /\ CheckOther(t) \/ CheckCached(t) \/ CheckNew(t)
            /\ UNCHANGED <<cached, processing, arrivals>>

BugClaim(t) == /\ At(t, "claim")
               /\ processing' = processing \cup {th[t].item}
               /\ Goto(t, "store")
               /\ UNCHANGED <<cached, follow, arrivals>>

(* processing.LoadOrStore.                                                  *)
Claim(t) == /\ At(t, "claim")
            /\ IF th[t].item \in processing
               THEN Return(t) /\ UNCHANGED processing
               ELSE /\ processing' = processing \cup {th[t].item}
                    /\ Goto(t, "store")
            /\ UNCHANGED <<cached, follow, arrivals>>

Store(t) == /\ At(t, "store")
            /\ cached' = cached \cup {th[t].item}
            /\ Goto(t, "preload")
            /\ UNCHANGED <<processing, follow, arrivals>>

(* PreloadStrmSync and PreloadMediaSource (module Preload) have returned:    *)
(* the callback, and the deferred Delete.                                   *)
Preloaded(t) == /\ At(t, "preload")
                /\ Callback(t)
                /\ processing' = processing \ {th[t].item}
                /\ Return(t)
                /\ UNCHANGED <<cached, arrivals>>

-----------------------------------------------------------------------------
(* After Handle.                                                           *)

(* The fallback has its source, and waits for its URL; or it tries again;    *)
(* after the last attempt the stream request is refused.                    *)
Look(t) == /\ At(t, "look")
           /\ IF th[t].item \in cached THEN Goto(t, "ready") ELSE Again(t)
           /\ UNCHANGED <<cached, processing, follow, arrivals>>

(* WaitForURLResolution has returned (within 5 s): the stream request is     *)
(* handled once more, this time without the fallback.                       *)
Ready(t) == /\ At(t, "ready")
            /\ End(t)
            /\ UNCHANGED <<cached, processing, follow, arrivals>>

(* The episodes after e that are not in the cache.  Without numbers, and    *)
(* when the season's list does not hold e, all others are taken for later.  *)
Following(e, numbered) ==
    {f \in Episodes \ cached : IF numbered THEN f > e ELSE f # e}

(* The first two of them.                                                   *)
FirstTwo(S) == {f \in S : Cardinality({g \in S : g < f}) < 2}

BugFollowUp(e) ==
    /\ e \in follow
    /\ follow' = follow \ {e}
    /\ \E numbered \in BOOLEAN :
          LET F == FirstTwo(Following(e, numbered)) IN
             \E b \in [F -> Free] :
                /\ \A f, g \in F : b[f] = b[g] => f = g
                /\ th' = [t \in Threads |->
                            IF \E f \in F : b[f] = t
                            THEN Thread("repeated", CHOOSE f \in F : b[f] = t, FALSE, "ask")
                            ELSE th[t]]
    /\ UNCHANGED <<cached, processing, arrivals>>

(* The lists have been read: a prefetch for each of the first two.  It does *)
(* not ask for the mark of a detail page, only sets it.                     *)
FollowUp(e) ==
    /\ e \in follow
    /\ follow' = follow \ {e}
    /\ \E numbered \in BOOLEAN :
          LET F == FirstTwo(Following(e, numbered)) IN
             \E b \in [F -> Free] :
                /\ \A f, g \in F : b[f] = b[g] => f = g
                /\ th' = [t \in Threads |->
                            IF \E f \in F : b[f] = t
                            THEN Thread("repeated", CHOOSE f \in F : b[f] = t, TRUE, "ask")
                            ELSE th[t]]
    /\ UNCHANGED <<cached, processing, arrivals>>

(* A mark holds, or one of the queries has failed, or there is no list.      *)
FollowUpNot(e) == /\ e \in follow
                  /\ follow' = follow \ {e}
                  /\ UNCHANGED <<cached, processing, arrivals, th>>

-----------------------------------------------------------------------------
Run(t) == \/ HandleResponse(t) \/ BeginMiss(t)
          \/ AskOK(t) \/ AskFailed(t) \/ AskUnreadable(t)
          \/ Check(t) \/ Claim(t) \/ Store(t) \/ Preloaded(t)
          \/ Look(t) \/ Ready(t)

Environment ==
    \/ \E t \in Threads, i \in Items : \/ OpenDetail(t, i) \/ AskPlayback(t, i)
                                       \/ StreamRequest(t, i) \/ PrefetchItem(t, i)
    \/ \E t, u \in Threads, i \in Items : AskPlaybackGet(t, u, i)
    \/ \E i \in Items : Evict(i)

PlaybackNext ==
    \/ Environment
    \/ \E t \in Threads : Run(t)
    \/ \E e \in Episodes : FollowUp(e) \/ FollowUpNot(e)

PlaybackSpec == PlaybackInit /\ [][PlaybackNext]_playbackVars

(* Goroutines run, and requests are answered or time out (20 s, 60 s for     *)
(* all attempts together, 120 s in a batch).                                *)
PlaybackFairness ==
    /\ \A t \in Threads : WF_playbackVars(Run(t))
    /\ \A e \in Episodes : WF_playbackVars(FollowUp(e) \/ FollowUpNot(e))

PlaybackFairSpec == PlaybackSpec /\ PlaybackFairness

-----------------------------------------------------------------------------
(* One thread at a time stores and preloads an item, and an item stays      *)
(* claimed exactly as long: no return from Handle leaves its claim behind   *)
(* (playback.go:116-126; a claim left behind would turn every later request *)
(* for the item away).                                                      *)
OneAtATime ==
    /\ \A t, u \in Threads : \A i \in Strms : Holds(t, i) /\ Holds(u, i) => t = u
    /\ processing = {i \in Strms : \E t \in Threads : Holds(t, i)}

(* Every request comes to an end, and with it all that it has set off: a    *)
(* prefetch that followed a prefetch would keep the chain alive as long as  *)
(* entries are evicted again (the storm of callbacks that README.md:420     *)
(* says has been repaired).                                                 *)
Quiet == follow = {} /\ \A t \in Threads : th[t] = Idle
StormEnds == []<>Quiet

(* A viewer's request for an episode in the hands of Handle ...              *)
Viewed(e) == \E t \in Threads :
                /\ At(t, "check") /\ th[t].item = e /\ ~th[t].chained

(* ... is followed by a prefetch of the episodes after it, whatever the     *)
(* cache holds (playback.go:98-112), if no prefetch of the chain or of the *)
(* library scan has claimed the item at that moment.                        *)
ClaimedByPrefetch(e) == \E t \in Threads : Holds(t, e) /\ th[t].chained
ViewerFollowed == \A e \in Episodes : Viewed(e) ~> (e \in follow \/ ClaimedByPrefetch(e))
=============================================================================

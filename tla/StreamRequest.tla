---------------------------- MODULE StreamRequest ----------------------------
(***************************************************************************)
(* internal/handler/stream.go: how a stream request is answered            *)
(* (handleStream, parallelResolve).  Requests run concurrently with one    *)
(* another and with the preload engine; between two steps of a request the *)
(* URL in its hand may leave the caches, enter them again, or die.         *)
(*                                                                         *)
(* Of the caches it only matters here what is in them.  Lifetimes are in   *)
(* module URLCache, with the refresh at half-life, which stores nothing    *)
(* where a request would find it; the inner steps of a preload are in      *)
(* Preload, those of the handler for unknown media sources in Playback.    *)
(* Whether a media source is in the cache, a .strm file can be read, and a *)
(* file is in the negative cache, is left open.                            *)
(***************************************************************************)
EXTENDS Naturals, FiniteSets

CONSTANTS
    Requests,
    Sources, FileOf,    (* media sources of one item, and their .strm files *)
    Finals, FinalOf,    (* URLs the origin redirects to, and for which file *)
    None                (* no URL, no source                                *)

Files == {FileOf[s] : s \in Sources}

(* The URL in a .strm file stands for the file itself.  A URL in Finals is *)
(* what resolving gives: where the origin redirects to or, when it does not,*)
(* the URL in the file once more, under another name here.                 *)
Urls == Files \cup Finals

ASSUME SourcesAssumption == None \notin Sources
ASSUME FilesAssumption   == FileOf \in [Sources -> Files]
ASSUME FinalsAssumption  == FinalOf \in [Finals -> Files]
ASSUME UrlsAssumption    == None \notin Urls /\ Files \cap Finals = {}

VARIABLES
    kind,       (* what the settings say of a file, see Kinds               *)
    streams,    (* source -> URL, as GetStreamURL has it                    *)
    urlCache,   (* file -> URL, by the URL in the file                      *)
    validated,  (* URLs marked in validateRecent, for 60 s                  *)
    preloads,   (* files with an entry in inflight                          *)
    req,        (* the stream requests                                      *)
    dead        (* URLs that cannot be played any more                      *)

vars == <<kind, streams, urlCache, validated, preloads, req, dead>>

(* The URL in the file is given to the player, at once if it is in the     *)
(* local network (isLanURL) and else after a look at urlCache (passthrough, *)
(* or isDirectURL), or it is resolved.                                     *)
Kinds == {"lan", "direct", "resolve"}

(* The URLs that a request for a file is meant to be given.                *)
Given(f) == IF kind[f] = "resolve" THEN {u \in Finals : FinalOf[u] = f} ELSE {f}

(* Steps of a request, named after what is done or known before them.      *)
Steps == {"find", "miss", "lookup", "check", "playable", "refused", "purge", "read",
          "query", "found", "join", "wait", "resolve", "resolved", "stored", "fallback", "done"}

(* A redirect to a URL, or to the URL in the file because nothing better   *)
(* could be had; or the request is forwarded, or refused with 503.         *)
Answers == {"redirect", "fallback", "none"}

ReqState == [pc : Steps, source : Sources \cup {None}, url : Urls \cup {None},
             closed : BOOLEAN, answer : Answers]

Idle == [pc |-> "done", source |-> None, url |-> None, closed |-> FALSE, answer |-> "none"]

TypeOK == /\ kind \in [Files -> Kinds]
          /\ streams \in [Sources -> Urls \cup {None}]
          /\ urlCache \in [Files -> Urls \cup {None}]
          /\ validated \subseteq Urls /\ dead \subseteq Urls
          /\ preloads \subseteq Files
          /\ req \in [Requests -> ReqState]

Init == /\ kind \in [Files -> Kinds]
        /\ streams = [s \in Sources |-> None]
        /\ urlCache = [f \in Files |-> None]
        /\ validated = {} /\ preloads = {}
        /\ req = [q \in Requests |-> Idle]
        /\ dead = {}

-----------------------------------------------------------------------------
At(q, pc)  == req[q].pc = pc
FileFor(q) == FileOf[req[q].source]

Goto(q, pc)    == req' = [req EXCEPT ![q].pc = pc]
With(q, pc, u) == req' = [req EXCEPT ![q].pc = pc, ![q].url = u]
Reply(q, a, u) == req' = [req EXCEPT ![q] = [Idle EXCEPT !.answer = a, !.url = u]]

SameCaches == UNCHANGED <<streams, urlCache, validated>>
SameWorld  == UNCHANGED <<kind, preloads, dead>>

(* A request for any of the item's sources.                                *)
Handle(q) == /\ At(q, "done")
             /\ req' = [req EXCEPT ![q] = [Idle EXCEPT !.pc = "find"]]
             /\ SameCaches /\ SameWorld

Found(q) == \E s \in Sources : req' = [req EXCEPT ![q].pc = "lookup", ![q].source = s]

(* findInCacheUltraFast: the source that is asked for, or another one of the *)
(* item, or none.                                                          *)
FindSource(q) ==
    /\ At(q, "find")
    /\ Found(q) \/ Goto(q, "miss")
    /\ SameCaches /\ SameWorld

(* The handler for unknown sources fetches some, and the request is tried  *)
(* once more; or it gives up and the request is refused.  Still unknown the *)
(* second time, or when its path names no item, the request is forwarded.  *)
Miss(q) ==
    /\ At(q, "miss")
    /\ Found(q) \/ Reply(q, "none", None)
    /\ SameCaches /\ SameWorld

(* GetStreamURL, and shouldSkipURLValidation for what it finds.            *)
Lookup(q) ==
    LET u == streams[req[q].source] IN
    /\ At(q, "lookup")
    /\ \/ u = None /\ Goto(q, "read")
       \/ u \in validated /\ Reply(q, "redirect", u)
       \/ u \notin validated \cup {None} /\ With(q, "check", u)
    /\ SameCaches /\ SameWorld

BugValidate(q) ==          \* no answer counts as a refusal
    /\ At(q, "check")
    /\ \/ req[q].url \notin dead /\ Goto(q, "playable")
       \/ Goto(q, "refused")
    /\ SameCaches /\ SameWorld

(* validatePlayableURL: a dead URL is refused, unless there is no answer   *)
(* within 2 s, which counts as playable.                                   *)
Validate(q) ==
    /\ At(q, "check")
    /\ \/ req[q].url \in dead /\ Goto(q, "refused")
       \/ Goto(q, "playable")
    /\ SameCaches /\ SameWorld

(* markURLValidated                                                        *)
Mark(q) ==
    /\ At(q, "playable")
    /\ validated' = validated \cup {req[q].url}
    /\ Reply(q, "redirect", req[q].url)
    /\ UNCHANGED <<streams, urlCache>> /\ SameWorld

(* DeleteStreamURL, whatever the source has by now.                        *)
DeleteStream(q) ==
    /\ At(q, "refused")
    /\ streams' = [streams EXCEPT ![req[q].source] = None]
    /\ Goto(q, "purge")
    /\ UNCHANGED <<urlCache, validated>> /\ SameWorld

BugPurge(q) ==             \* leaves it in urlCache
    /\ At(q, "purge")
    /\ validated' = validated \ {req[q].url}
    /\ With(q, "read", None)
    /\ UNCHANGED <<streams, urlCache>> /\ SameWorld

(* deleteURLCacheValue                                                     *)
Purge(q) ==
    /\ At(q, "purge")
    /\ urlCache' = [f \in Files |-> IF urlCache[f] = req[q].url THEN None ELSE urlCache[f]]
    /\ validated' = validated \ {req[q].url}
    /\ With(q, "read", None)
    /\ UNCHANGED streams /\ SameWorld

-----------------------------------------------------------------------------
(* parallelResolve.                                                        *)

(* readStrmWithCache                                                       *)
ReadStrm(q) ==
    /\ At(q, "read")
    /\ Goto(q, "query") \/ Goto(q, "fallback")
    /\ SameCaches /\ SameWorld

AnswerLan(q) ==
    /\ At(q, "query") /\ kind[FileFor(q)] = "lan"
    /\ streams' = [streams EXCEPT ![req[q].source] = FileFor(q)]
    /\ Reply(q, "redirect", FileFor(q))
    /\ UNCHANGED <<urlCache, validated>> /\ SameWorld

(* getURLCache; after a miss the negative cache and the mode are looked at. *)
GetURLCache(q) ==
    LET f == FileFor(q)
        u == urlCache[f]
    IN /\ At(q, "query") /\ kind[f] # "lan"
       /\ \/ u # None /\ With(q, "found", u)
          \/ u = None /\ Goto(q, "fallback")
          \/ u = None /\ kind[f] = "direct" /\ With(q, "resolved", f)
          \/ u = None /\ kind[f] = "resolve" /\ Goto(q, "join")
       /\ SameCaches /\ SameWorld

(* What urlCache has is stored for the source.                             *)
StoreFound(q) ==
    /\ At(q, "found")
    /\ streams' = [streams EXCEPT ![req[q].source] = req[q].url]
    /\ Reply(q, "redirect", req[q].url)
    /\ UNCHANGED <<urlCache, validated>> /\ SameWorld

(* inflight[source.Path]                                                   *)
Join(q) ==
    /\ At(q, "join")
    /\ Goto(q, IF FileFor(q) \in preloads THEN "wait" ELSE "resolve")
    /\ SameCaches /\ SameWorld

BugTimeout(q) ==           \* waits as long as it takes
    FALSE

Timeout(q) ==
    /\ At(q, "wait")
    /\ Goto(q, "resolve")
    /\ SameCaches /\ SameWorld

BugWoken(q) ==             \* takes for granted that the URL is there
    /\ At(q, "wait") /\ req[q].closed
    /\ Reply(q, "redirect", streams[req[q].source])
    /\ SameCaches /\ SameWorld

(* The channel is closed.  A preload of another source with this file has  *)
(* stored nothing for this one.                                            *)
Woken(q) ==
    /\ At(q, "wait") /\ req[q].closed
    /\ LET u == streams[req[q].source] IN
       IF u = None THEN Goto(q, "resolve") ELSE Reply(q, "redirect", u)
    /\ SameCaches /\ SameWorld

(* resolveURLWithRetry, after some errors twice.                           *)
Resolve(q) ==
    /\ At(q, "resolve")
    /\ \/ \E u \in Given(FileFor(q)) \ dead : With(q, "resolved", u)
       \/ Goto(q, "fallback")
    /\ SameCaches /\ SameWorld

(* setStreamURLSmart, then setURLCache.                                    *)
StoreStream(q) ==
    /\ At(q, "resolved")
    /\ streams' = [streams EXCEPT ![req[q].source] = req[q].url]
    /\ Goto(q, "stored")
    /\ UNCHANGED <<urlCache, validated>> /\ SameWorld

StoreURL(q) ==
    /\ At(q, "stored")
    /\ urlCache' = [urlCache EXCEPT ![FileFor(q)] = req[q].url]
    /\ Reply(q, "redirect", req[q].url)
    /\ UNCHANGED <<streams, validated>> /\ SameWorld

BugFallback(q) ==          \* and remembers it
    /\ At(q, "fallback")
    /\ \/ /\ streams' = [streams EXCEPT ![req[q].source] = FileFor(q)]
          /\ Reply(q, "fallback", FileFor(q))
       \/ Reply(q, "none", None) /\ UNCHANGED streams
    /\ UNCHANGED <<urlCache, validated>> /\ SameWorld

(* The player gets the URL in the file if it can be read, and otherwise the *)
(* media server gets the request.                                          *)
Fallback(q) ==
    /\ At(q, "fallback")
    /\ Reply(q, "fallback", FileFor(q)) \/ Reply(q, "none", None)
    /\ SameCaches /\ SameWorld

Step(q) == \/ FindSource(q) \/ Miss(q) \/ Lookup(q) \/ Validate(q) \/ Mark(q)
           \/ DeleteStream(q) \/ Purge(q)
           \/ ReadStrm(q) \/ AnswerLan(q) \/ GetURLCache(q) \/ StoreFound(q)
           \/ Join(q) \/ Timeout(q) \/ Woken(q) \/ Resolve(q)
           \/ StoreStream(q) \/ StoreURL(q) \/ Fallback(q)

-----------------------------------------------------------------------------
(* The preload engine, as far as requests can tell.                        *)

PreloadBegins(f) ==
    /\ f \notin preloads
    /\ preloads' = preloads \cup {f}
    /\ SameCaches /\ UNCHANGED <<kind, req, dead>>

(* The entry of inflight goes, and the requests that wait are told.        *)
Ends(f, told) ==
    /\ f \in preloads
    /\ preloads' = preloads \ {f}
    /\ req' = [q \in Requests |->
                 IF told /\ At(q, "wait") /\ FileFor(q) = f
                 THEN [req[q] EXCEPT !.closed = TRUE] ELSE req[q]]
    /\ UNCHANGED <<kind, dead>>

PreloadStores(s) ==
    LET f == FileOf[s] IN
    /\ Ends(f, TRUE)
    /\ \E u \in Given(f) \ (IF kind[f] = "resolve" THEN dead ELSE {}) :
          /\ streams'  = [streams EXCEPT ![s] = u]
          /\ urlCache' = [urlCache EXCEPT ![f] = u]
    /\ UNCHANGED validated

(* It fails; or a full queue drops the task, and its channel stays open.   *)
PreloadFails(f) ==
    /\ \E told \in BOOLEAN : Ends(f, told)
    /\ SameCaches

-----------------------------------------------------------------------------
(* What happens to URLs and to entries.                                    *)

Die(f) == /\ \E u \in Given(f) \ dead : dead' = dead \cup {u}
          /\ SameCaches /\ UNCHANGED <<kind, preloads, req>>

(* A mark counts for 60 s.                                                 *)
MarkExpires(u) == /\ u \in validated
                  /\ validated' = validated \ {u}
                  /\ UNCHANGED <<streams, urlCache, req>> /\ SameWorld

(* An entry expires or is evicted, or the caches are cleared.              *)
Lose == /\ \/ /\ \E s \in Sources : streams' = [streams EXCEPT ![s] = None]
              /\ UNCHANGED <<urlCache, validated>>
           \/ /\ \E f \in Files : urlCache' = [urlCache EXCEPT ![f] = None]
              /\ UNCHANGED <<streams, validated>>
           \/ /\ streams' = [s \in Sources |-> None]
              /\ urlCache' = [f \in Files |-> None]
              /\ validated' = {}
        /\ UNCHANGED req /\ SameWorld

Next == \/ \E q \in Requests : Handle(q) \/ Step(q)
        \/ \E f \in Files : PreloadBegins(f) \/ PreloadFails(f) \/ Die(f)
        \/ \E s \in Sources : PreloadStores(s)
        \/ \E u \in Urls : MarkExpires(u)
        \/ Lose

Spec == Init /\ [][Next]_vars

(* A request runs: its network calls have timeouts.  Marks get old.        *)
Fairness == /\ \A q \in Requests : WF_vars(Step(q))
            /\ \A u \in Urls : WF_vars(MarkExpires(u))
FairSpec == Spec /\ Fairness

-----------------------------------------------------------------------------
(* A step that answers a request with u.                                   *)
Serves(q, u) == ~At(q, "done") /\ req'[q].answer = "redirect" /\ req'[q].url = u

(* Whatever dies, expires or is dropped meanwhile, a request is redirected *)
(* to a URL meant for its source: where URLs are resolved, one that resolving*)
(* its own file has given, and the unresolved URL only as the fallback.  It*)
(* may have come through the caches, from another request or a preload     *)
(* (stream.go:1747-1800, 1923-2054); and what it takes from them after a   *)
(* wait is a URL at all (stream.go:1983-1991).                             *)
AnswerFits == [][\A q \in Requests, u \in Urls \cup {None} :
                    Serves(q, u) => u \in Given(FileFor(q))]_vars

(* Every request is answered, even if the preload it waits for has been    *)
(* dropped, and however often its source is not found.                     *)
Answered == \A q \in Requests : ~At(q, "done") ~> At(q, "done")

NothingLost == <>[][~Lose]_vars

(* A URL that has died leaves the caches: requests are redirected there for *)
(* a while only, unless checks get no answer, or its source is dropped again *)
(* and again while urlCache, which is not checked, keeps it.  Copies of it *)
(* are under several sources, in urlCache and in the hands of requests, and *)
(* a mark may vouch for it.                                                *)
NoVerdict(u) == \E q \in Requests : At(q, "playable") /\ req[q].url = u
DeadLeaves == \A u \in Finals :
    (NothingLost /\ <>[](u \in dead) /\ <>[]~NoVerdict(u))
       => <>[][\A q \in Requests : ~Serves(q, u)]_vars

(* A file is resolved and then served from the caches: if from some time on *)
(* nothing is lost and no resolution fails, they come to an end, even when *)
(* no check gets an answer any more.                                       *)
Settles == (NothingLost /\ <>[](\A q \in Requests : ~At(q, "fallback")))
              => <>[](\A q \in Requests : ~At(q, "resolve"))

=============================================================================

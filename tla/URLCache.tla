------------------------------ MODULE URLCache ------------------------------
(***************************************************************************)
(* internal/handler/stream.go: the cache of resolved URLs (urlCache, its   *)
(* list and index), what it stores for the sources in the stream-URL cache *)
(* of cache.go, the negative cache, and the half-life refresh with its     *)
(* circuit breaker.  Time counts in minutes.  A URL may carry a signature  *)
(* that ends its life; the setting enable_smart_ttl is on, its default.    *)
(***************************************************************************)
EXTENDS Integers, Sequences, FiniteSets, SequencesExt, LRUList

CONSTANTS
    Sources, FileOf,  (* media sources, and the .strm URL that each one has  *)
    StrmUntil,        (* the end of the signature in a .strm URL; 0: none    *)
    Validities,       (* for how long the origin signs a resolved URL        *)
    CacheTTL, MinTTL, (* the setting, and the shortest life of a signed URL  *)
    Margin,           (* refresh nothing with no more than this left         *)
    NegFor,           (* a failed URL is not tried again for this long       *)
    Threshold, OpenFor,   (* the breaker: errors to open, time it stays open *)
    Capacity,         (* maxURLCacheSize                                    *)
    MaxNow            (* the bound of the clock                             *)

ASSUME DurationsAssumption ==
    /\ {CacheTTL, MinTTL, Threshold, Capacity} \subseteq Nat \ {0}
    /\ {StrmUntil, Margin, NegFor, OpenFor, MaxNow} \subseteq Nat
    /\ Validities \subseteq Nat \ {0}

Files == {FileOf[s] : s \in Sources}
Url   == [file : Files, final : BOOLEAN, until : Nat]

(* Both are strings, but no id of a source is a URL.                       *)
ASSUME IdsAssumption == Sources \cap Url = {}

VARIABLES
    urls,       (* URL -> [url, expire, created]                            *)
    lru,        (* its keys, the one used longest ago first                 *)
    streams,    (* source -> [url, expire], as Cache keeps them             *)
    neg,        (* .strm URL that failed -> when it may be tried again      *)
    breaker,    (* [state, errors, openUntil, lastErrorAt]                  *)
    refreshing, (* the running refreshHalfLifeURL: [key, url, since]        *)
    now

vars == <<urls, lru, streams, neg, breaker, refreshing, now>>

(* A URL: the one in the file, or one the origin has redirected it to.     *)
Strm(s)     == [file |-> FileOf[s], final |-> FALSE, until |-> StrmUntil]
Final(f, n) == [file |-> f, final |-> TRUE, until |-> n]
Signed(u)   == u.until # 0

Least(i, j)    == IF i < j THEN i ELSE j
Greatest(i, j) == IF i < j THEN j ELSE i
Expired(e)     == now > e.expire
Without(f, S)  == Restrict(f, DOMAIN f \ S)
Put(f, k, v)   == [x \in DOMAIN f \cup {k} |-> IF x = k THEN v ELSE f[x]]
Absent(f, k)   == k \in DOMAIN f => Expired(f[k])
Rejected(u)    == u \in DOMAIN neg /\ now < neg[u]

Closed == [state |-> "closed", errors |-> 0, openUntil |-> 0, lastErrorAt |-> 0]

(* The list has the type that ListMatchesMap says.                         *)
TypeOK ==
    /\ DOMAIN urls \subseteq Url
    /\ \A k \in DOMAIN urls : urls[k] \in [url : Url, expire : Nat, created : Nat]
    /\ DOMAIN streams \subseteq Sources \cup Url
    /\ \A i \in DOMAIN streams : streams[i] \in [url : Url, expire : Nat]
    /\ DOMAIN neg \subseteq Url /\ \A u \in DOMAIN neg : neg[u] \in Nat
    /\ breaker \in [state : {"closed", "open", "halfOpen"}, errors : 0..Threshold,
                    openUntil : Nat, lastErrorAt : Nat]
    /\ refreshing \subseteq [key : Url, url : Url, since : Nat]
    /\ now \in 0..MaxNow

Init ==
    /\ urls = << >> /\ lru = << >> /\ streams = << >> /\ neg = << >>
    /\ breaker = Closed
    /\ refreshing = {}
    /\ now = 0

-----------------------------------------------------------------------------
(* detectSignedURLTTL and computeSignedTTL: half of what the signature has *)
(* left, at least a minute of it, and a minute when nothing is left.       *)
SmartTTL(u) ==
    LET left == u.until - now IN
    IF ~Signed(u) THEN CacheTTL
    ELSE IF left <= 0 THEN MinTTL
    ELSE Least(CacheTTL, Least(left, Greatest(MinTTL, left \div 2)))

StoreStream(i, u, ttl) == Put(streams, i, [url |-> u, expire |-> now + ttl])

(* setStreamURLSmart                                                       *)
StoreSmart(i, u) == streams' = StoreStream(i, u, SmartTTL(u))

BugSetURLCache(k, u) ==    \* evicts from the map only
    LET new == k \notin DOMAIN urls
        e == [url |-> u, expire |-> now + SmartTTL(u),
              created |-> IF new THEN now ELSE urls[k].created]
        over == new /\ Len(lru) + 1 > Capacity
    IN /\ urls' = Put(IF over THEN Without(urls, {Head(lru)}) ELSE urls, k, e)
       /\ lru' = Touch(lru, k)

(* setURLCache: an entry that is there keeps the time of its creation; a   *)
(* new one may drive out the one used longest ago.                         *)
SetURLCache(k, u) ==
    LET new == k \notin DOMAIN urls
        e == [url |-> u, expire |-> now + SmartTTL(u),
              created |-> IF new THEN now ELSE urls[k].created]
        list == Touch(lru, k)
        gone == IF new /\ Len(list) > Capacity THEN {Head(list)} ELSE {}
    IN /\ urls' = Without(Put(urls, k, e), gone)
       /\ lru' = IF gone = {} THEN list ELSE Tail(list)

(* The end of a resolution that succeeded, of a request or of a preload.   *)
Resolved(s) ==
    /\ \E n \in Validities :
         LET u == Final(FileOf[s], now + n) IN
         /\ StoreSmart(s, u)
         /\ SetURLCache(Strm(s), u)
    /\ UNCHANGED <<neg, breaker, refreshing, now>>

(* markFailed, unless the origin has answered 403.                         *)
ResolveFailed(s) ==
    /\ neg' = Put(neg, Strm(s), now + NegFor)
    /\ UNCHANGED <<urls, lru, streams, breaker, refreshing, now>>

CleanupNegative ==
    /\ neg' = Without(neg, {u \in DOMAIN neg : now > neg[u]})
    /\ UNCHANGED <<urls, lru, streams, breaker, refreshing, now>>

(* A URL that is taken for direct, or passed through: by PreloadStrmSync,  *)
(* or by a request that has not found it in urlCache.                      *)
PassOn(s) ==
    /\ \/ Absent(streams, s)
       \/ Strm(s) \notin DOMAIN urls /\ ~Rejected(Strm(s))
    /\ StoreSmart(s, Strm(s))
    /\ SetURLCache(Strm(s), Strm(s))
    /\ UNCHANGED <<neg, breaker, refreshing, now>>

(* The same by executePreload, which stores it for the full cache_ttl: where *)
(* PreloadStrmSync before it could not read the file, or resolved in another *)
(* mode, or what it stored is gone.                                        *)
PreloadDirect(s) ==
    /\ Absent(streams, s) /\ ~Rejected(Strm(s))
    /\ streams' = StoreStream(s, Strm(s), CacheTTL)
    /\ SetURLCache(Strm(s), Strm(s))
    /\ UNCHANGED <<neg, breaker, refreshing, now>>

(* A request for a source in the local network, with enable_lan_strm off.  *)
PassLan(s) ==
    /\ StoreSmart(s, Strm(s))
    /\ UNCHANGED <<urls, lru, neg, breaker, refreshing, now>>

BugHit(s) ==               \* stores what it finds for the full time
    /\ ~Absent(urls, Strm(s))
    /\ lru' = Touch(lru, Strm(s))
    /\ streams' = StoreStream(s, urls[Strm(s)].url, CacheTTL)
    /\ UNCHANGED <<urls, neg, breaker, refreshing, now>>

(* getURLCache and its use by parallelResolve.                             *)
Hit(s) ==
    /\ ~Absent(urls, Strm(s))
    /\ lru' = Touch(lru, Strm(s))
    /\ StoreSmart(s, urls[Strm(s)].url)
    /\ UNCHANGED <<urls, neg, breaker, refreshing, now>>

DropURLs(S) ==
    /\ urls' = Without(urls, S)
    /\ lru' \in Rest(lru, S)

MissExpired(s) ==
    /\ Strm(s) \in DOMAIN urls /\ Expired(urls[Strm(s)])
    /\ DropURLs({Strm(s)})
    /\ UNCHANGED <<streams, neg, breaker, refreshing, now>>

(* A request finds that the URL stored for its source cannot be played.    *)
Refused(s) ==
    /\ ~Absent(streams, s)
    /\ streams' = Without(streams, {s})
    /\ DropURLs({k \in DOMAIN urls : urls[k].url = streams[s].url})
    /\ UNCHANGED <<neg, breaker, refreshing, now>>

(* cache.go drops entries of its own: eviction, expiry, deletion.          *)
LoseStream(s) ==
    /\ s \in DOMAIN streams
    /\ streams' = Without(streams, {s})
    /\ UNCHANGED <<urls, lru, neg, breaker, refreshing, now>>

(* Both caches are cleared, by hand or when memory is short.               *)
ClearExternalCaches ==
    /\ urls' = << >> /\ lru' = << >> /\ streams' = << >> /\ neg' = << >>
    /\ breaker' = [breaker EXCEPT !.state = "closed", !.errors = 0, !.openUntil = 0]
    /\ UNCHANGED <<refreshing, now>>

-----------------------------------------------------------------------------
(* circuitBreakerCanProceed, and the state it leaves behind.               *)
CanProceed == breaker.state = "open" => now > breaker.openUntil
Proceed    == breaker' = [breaker EXCEPT !.state = IF @ = "open" THEN "halfOpen" ELSE @]

BugRecordError ==          \* only a closed breaker opens
    LET n == Least(breaker.errors + 1, Threshold)
        opens == n = Threshold /\ breaker.state = "closed"
    IN breaker' = [state     |-> IF opens THEN "open" ELSE breaker.state,
                   errors    |-> n,
                   openUntil |-> IF opens THEN now + OpenFor ELSE breaker.openUntil,
                   lastErrorAt |-> now]

(* circuitBreakerRecordError: it opens at the threshold and again with     *)
(* every error after it.  The count stops at Threshold, beyond which the   *)
(* code makes no difference.                                               *)
RecordError ==
    LET n == Least(breaker.errors + 1, Threshold) IN
    breaker' = [state     |-> IF n = Threshold THEN "open" ELSE breaker.state,
                errors    |-> n,
                openUntil |-> IF n = Threshold THEN now + OpenFor ELSE breaker.openUntil,
                lastErrorAt |-> now]

(* circuitBreakerRecordSuccess: closes it only from half open.             *)
RecordSuccess ==
    breaker' = [breaker EXCEPT !.errors = 0,
                               !.state = IF @ = "halfOpen" THEN "closed" ELSE @]

HalfGone(e) ==
    /\ e.expire > e.created
    /\ 2 * (now - e.created) >= e.expire - e.created
    /\ e.expire - now > Margin

(* scanAndRefreshURLs.  It runs every 30 seconds and a refresh gives up    *)
(* after 5, so that none is left of the scan before.                       *)
Scan ==
    /\ refreshing = {} /\ CanProceed
    /\ Proceed
    /\ refreshing' = {[key |-> k, url |-> urls[k].url, since |-> now] :
                        k \in {k \in DOMAIN urls : HalfGone(urls[k]) /\ ~Rejected(urls[k].url)}}
    /\ UNCHANGED <<urls, lru, streams, neg, now>>

(* The same with enable_preload off.                                       *)
ScanNothing ==
    /\ refreshing = {} /\ CanProceed
    /\ Proceed
    /\ UNCHANGED <<urls, lru, streams, neg, refreshing, now>>

(* refreshHalfLifeURL, an answer of 200 or 206, after a redirect or not:   *)
(* the content is not looked at.  The key is taken for the id of a source. *)
RefreshOK(r) ==
    /\ \E u \in {r.url} \cup {Final(r.url.file, now + n) : n \in Validities} :
         /\ StoreSmart(r.key, u)
         /\ SetURLCache(u, u)
    /\ RecordSuccess
    /\ refreshing' = refreshing \ {r}
    /\ UNCHANGED <<neg, now>>

(* 401 or 403                                                              *)
RefreshRefused(r) ==
    /\ streams' = Without(streams, {r.key})
    /\ refreshing' = refreshing \ {r}
    /\ UNCHANGED <<urls, lru, neg, breaker, now>>

(* A network error or any other answer.                                    *)
RefreshError(r) ==
    /\ RecordError
    /\ refreshing' = refreshing \ {r}
    /\ UNCHANGED <<urls, lru, streams, neg, now>>

Tick ==
    /\ now < MaxNow
    /\ \A r \in refreshing : r.since = now
    /\ now' = now + 1
    /\ UNCHANGED <<urls, lru, streams, neg, breaker, refreshing>>

Next ==
    \/ \E s \in Sources : \/ Resolved(s) \/ ResolveFailed(s)
                          \/ PassOn(s) \/ PreloadDirect(s) \/ PassLan(s)
                          \/ Hit(s) \/ MissExpired(s)
                          \/ Refused(s) \/ LoseStream(s)
    \/ CleanupNegative
    \/ ClearExternalCaches
    \/ Scan \/ ScanNothing
    \/ \E r \in refreshing : RefreshOK(r) \/ RefreshRefused(r) \/ RefreshError(r)
    \/ Tick

Spec == Init /\ [][Next]_vars

-----------------------------------------------------------------------------
(* urlCache and its list have the same keys, each once, and no more than   *)
(* the limit, whatever order insertions, expiry, refusals and refreshes    *)
(* come in (stream.go:1599-1690, 3030-3042).                               *)
ListMatchesMap ==
    /\ ToSet(lru) = DOMAIN urls
    /\ IsInjective(lru)
    /\ Len(lru) <= Capacity

(* src/README.md:114 promises that an entry always expires before the      *)
(* signature of its URL.  The code does not keep that: near its end a      *)
(* lifetime is all that the signature has left (stream.go:2352), and with  *)
(* nothing left it is a minute (2335), so that a hit in urlCache at the last *)
(* moment puts a URL that is dead under its source.  What does hold,       *)
(* whichever way the URL of a file that is resolved gets from urlCache to  *)
(* the sources (1930), is that such an entry goes after that minute.       *)
DeadAtMostAMinute ==
    \A e \in {streams[s] : s \in DOMAIN streams \cap Sources} \cup
             {urls[k] : k \in {Strm(s) : s \in Sources} \cap DOMAIN urls} :
        e.url.final /\ Signed(e.url) => e.expire <= e.url.until + MinTTL

(* After Threshold refreshes in a row have failed none is started until    *)
(* OpenFor has passed since the last failure, also of those that were under *)
(* way when the breaker opened (stream.go:970-976, 1112-1180).             *)
PausedAfterFailures ==
    [][~(refreshing' \subseteq refreshing) =>
         \/ breaker.errors < Threshold
         \/ now > breaker.lastErrorAt + OpenFor]_vars

=============================================================================

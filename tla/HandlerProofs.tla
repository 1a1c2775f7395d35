---------------------------- MODULE HandlerProofs ----------------------------
(***************************************************************************)
(* Proofs about two parts of internal/handler.                             *)
(*                                                                         *)
(* URLCache: the map of URLs and its list agree, the breaker holds         *)
(* refreshes back, and no request is given a resolved URL more than a      *)
(* minute after its signature ended.                                       *)
(*                                                                         *)
(* Playback: for any season, any number of requests and of attempts, one   *)
(* thread at a time stores and preloads an item, and no claim is left      *)
(* behind.                                                                 *)
(***************************************************************************)
EXTENDS URLCache, Playback, LRUListProofs, TLAPS

UrlEntry    == [url : Url, expire : Nat, created : Nat]
StreamEntry == [url : Url, expire : Nat]

(* The types of what the proofs compute with; the list is not among it.    *)
UrlShapes ==
    /\ DOMAIN urls \subseteq Url
    /\ \A k \in DOMAIN urls : urls[k] \in UrlEntry

StreamShapes == \A i \in DOMAIN streams : streams[i] \in StreamEntry

Shapes ==
    /\ UrlShapes /\ StreamShapes
    /\ refreshing \subseteq [key : Url, url : Url, since : Nat]
    /\ now \in Nat

Breaker == [state : {"closed", "open", "halfOpen"}, errors : 0..Threshold,
            openUntil : Nat, lastErrorAt : Nat]
BreakerTypes == breaker \in Breaker

(* How each state of the breaker accounts for Threshold failures in a row. *)
BreakerInv ==
    /\ BreakerTypes /\ now \in Nat
    /\ breaker.state = "closed" => breaker.errors < Threshold
    /\ breaker.state = "open" /\ breaker.errors = Threshold =>
            breaker.openUntil = breaker.lastErrorAt + OpenFor
    /\ breaker.state = "halfOpen" /\ breaker.errors = Threshold =>
            now > breaker.lastErrorAt + OpenFor

(* A resolved URL lives in urlCache, under the URL of the file, no longer  *)
(* than its signature, and for a source a minute more at most.             *)
Mortal(e, grace) == e.url.final /\ Signed(e.url) => e.expire <= e.url.until + grace
FilesMortal   == \A s \in Sources : Strm(s) \in DOMAIN urls => Mortal(urls[Strm(s)], 0)
SourcesMortal == \A s \in Sources : s \in DOMAIN streams => Mortal(streams[s], MinTTL)

LifeInv == Shapes /\ FilesMortal /\ SourcesMortal

-----------------------------------------------------------------------------
(* The breaker, and the clock that its state refers to.                    *)
LEMMA BreakerInit == Init => BreakerInv
BY DurationsAssumption DEF Init, BreakerInv, BreakerTypes, Breaker, Closed

LEMMA ErrorRecorded ==
    ASSUME BreakerInv, RecordError, now' = now
    PROVE  BreakerInv'
BY DurationsAssumption DEF BreakerInv, BreakerTypes, Breaker, RecordError, Least

LEMMA SuccessRecorded ==
    ASSUME BreakerInv, RecordSuccess, now' = now
    PROVE  BreakerInv'
<1> USE DurationsAssumption
<1> DEFINE st == IF breaker.state = "halfOpen" THEN "closed" ELSE breaker.state
<1>1. breaker' = [state |-> st, errors |-> 0, openUntil |-> breaker.openUntil,
                  lastErrorAt |-> breaker.lastErrorAt]
  BY DEF BreakerInv, BreakerTypes, Breaker, RecordSuccess
<1>2. st \in {"closed", "open"}
  BY DEF BreakerInv, BreakerTypes, Breaker
<1> QED
  BY <1>1, <1>2 DEF BreakerInv, BreakerTypes, Breaker

LEMMA Proceeds ==
    ASSUME BreakerInv, CanProceed, Proceed, now' = now
    PROVE  BreakerInv'
<1> DEFINE st == IF breaker.state = "open" THEN "halfOpen" ELSE breaker.state
<1>1. breaker' = [state |-> st, errors |-> breaker.errors, openUntil |-> breaker.openUntil,
                  lastErrorAt |-> breaker.lastErrorAt]
  BY DEF BreakerInv, BreakerTypes, Breaker, Proceed
<1>2. st \in {"closed", "halfOpen"}
  BY DEF BreakerInv, BreakerTypes, Breaker
<1> QED
  BY <1>1, <1>2, DurationsAssumption DEF BreakerInv, BreakerTypes, Breaker, CanProceed

LEMMA BreakerStep ==
    ASSUME BreakerInv, [Next]_vars
    PROVE  BreakerInv'
<1>1. CASE UNCHANGED <<breaker, now>>
  BY <1>1 DEF BreakerInv, BreakerTypes, Breaker
<1>2. CASE ClearExternalCaches
  <2>1. breaker' = [state |-> "closed", errors |-> 0, openUntil |-> 0,
                    lastErrorAt |-> breaker.lastErrorAt]
    BY <1>2 DEF ClearExternalCaches, BreakerInv, BreakerTypes, Breaker
  <2> QED
    BY <1>2, <2>1, DurationsAssumption
    DEF ClearExternalCaches, BreakerInv, BreakerTypes, Breaker
<1>3. CASE Scan \/ ScanNothing
  BY <1>3, Proceeds DEF Scan, ScanNothing
<1>4. ASSUME NEW r \in refreshing, RefreshOK(r)
      PROVE  BreakerInv'
  BY <1>4, SuccessRecorded DEF RefreshOK
<1>5. ASSUME NEW r \in refreshing, RefreshError(r)
      PROVE  BreakerInv'
  BY <1>5, ErrorRecorded DEF RefreshError
<1>6. CASE Tick
  BY <1>6, DurationsAssumption DEF Tick, BreakerInv, BreakerTypes, Breaker
<1>7. ASSUME NEW r \in refreshing, RefreshRefused(r)
      PROVE  UNCHANGED <<breaker, now>>
  BY <1>7 DEF RefreshRefused
<1>8. ASSUME NEW s \in Sources,
             \/ Resolved(s) \/ ResolveFailed(s) \/ PassOn(s) \/ PreloadDirect(s)
             \/ PassLan(s) \/ Hit(s) \/ MissExpired(s) \/ Refused(s) \/ LoseStream(s)
      PROVE  UNCHANGED <<breaker, now>>
  BY <1>8 DEF Resolved, ResolveFailed, PassOn, PreloadDirect, PassLan, Hit, MissExpired,
              Refused, LoseStream
<1>9. CleanupNegative => UNCHANGED <<breaker, now>>
  BY DEF CleanupNegative
<1> QED
  BY <1>1, <1>2, <1>3, <1>4, <1>5, <1>6, <1>7, <1>8, <1>9 DEF Next, vars

(* Only a scan starts a refresh, and only past the breaker.                *)
LEMMA OnlyScansStart ==
    ASSUME [Next]_vars, ~(refreshing' \subseteq refreshing)
    PROVE  CanProceed
<1>1. ASSUME NEW r \in refreshing, RefreshOK(r) \/ RefreshRefused(r) \/ RefreshError(r)
      PROVE  refreshing' \subseteq refreshing
  BY <1>1 DEF RefreshOK, RefreshRefused, RefreshError
<1>2. ASSUME NEW s \in Sources,
             \/ Resolved(s) \/ ResolveFailed(s) \/ PassOn(s) \/ PreloadDirect(s)
             \/ PassLan(s) \/ Hit(s) \/ MissExpired(s) \/ Refused(s) \/ LoseStream(s)
      PROVE  refreshing' = refreshing
  BY <1>2 DEF Resolved, ResolveFailed, PassOn, PreloadDirect, PassLan, Hit, MissExpired,
              Refused, LoseStream
<1>3. CleanupNegative \/ ClearExternalCaches \/ ScanNothing \/ Tick \/ UNCHANGED vars
        => refreshing' = refreshing
  BY DEF CleanupNegative, ClearExternalCaches, ScanNothing, Tick, vars
<1>4. Scan => CanProceed
  BY DEF Scan
<1> QED
  BY <1>1, <1>2, <1>3, <1>4 DEF Next

LEMMA Held ==
    ASSUME BreakerInv, CanProceed
    PROVE  breaker.errors < Threshold \/ now > breaker.lastErrorAt + OpenFor
BY DurationsAssumption DEF BreakerInv, BreakerTypes, Breaker, CanProceed

(* However refreshes, failures, successes and clearing interleave, after   *)
(* Threshold failures in a row no refresh starts before OpenFor has passed *)
(* since the last one (stream.go:970-976, 1112-1180).                      *)
THEOREM BreakerHolds == Spec => PausedAfterFailures
<1>1. BreakerInv /\ [Next]_vars =>
        [~(refreshing' \subseteq refreshing) =>
            \/ breaker.errors < Threshold
            \/ now > breaker.lastErrorAt + OpenFor]_vars
  BY OnlyScansStart, Held
<1>2. Init => BreakerInv
  BY BreakerInit
<1>3. BreakerInv /\ [Next]_vars => BreakerInv'
  BY BreakerStep
<1> QED
  BY <1>1, <1>2, <1>3, PTL DEF Spec, PausedAfterFailures

-----------------------------------------------------------------------------
(* How long an entry is meant to live.                                     *)
LEMMA TTLIsNat ==
    ASSUME now \in Nat, NEW u \in Url
    PROVE  SmartTTL(u) \in Nat
BY DurationsAssumption DEF SmartTTL, Least, Greatest, Signed, Url

LEMMA TTLWithin ==
    ASSUME now \in Nat, NEW u \in Url, Signed(u)
    PROVE  /\ now < u.until => now + SmartTTL(u) <= u.until
           /\ now <= u.until => now + SmartTTL(u) <= u.until + MinTTL
BY DurationsAssumption DEF SmartTTL, Least, Greatest, Signed, Url

(* What the helpers do to the two maps.                                    *)
LEMMA StoredURL ==
    ASSUME Shapes, NEW k \in Url, NEW u \in Url, SetURLCache(k, u)
    PROVE  /\ DOMAIN urls' \subseteq DOMAIN urls \cup {k}
           /\ \A j \in DOMAIN urls' : j # k => urls'[j] = urls[j]
           /\ k \in DOMAIN urls' => urls'[k] \in UrlEntry /\ urls'[k].url = u
                                   /\ urls'[k].expire = now + SmartTTL(u)
<1> DEFINE e == [url |-> u, expire |-> now + SmartTTL(u),
                 created |-> IF k \notin DOMAIN urls THEN now ELSE urls[k].created]
           list == Touch(lru, k)
           gone == IF k \notin DOMAIN urls /\ Len(list) > Capacity THEN {Head(list)} ELSE {}
           all  == Put(urls, k, e)
<1>1. urls' = Without(all, gone)
  BY DEF SetURLCache
<1>2. e \in UrlEntry
  BY TTLIsNat DEF Shapes, UrlShapes, UrlEntry
<1>3. DOMAIN urls' = (DOMAIN urls \cup {k}) \ gone
  <2> HIDE DEF e, gone
  <2> QED
    BY <1>1 DEF Without, Restrict, Put
<1>4. \A j \in DOMAIN urls' : urls'[j] = all[j]
  <2> HIDE DEF e, gone
  <2>1. DOMAIN all = DOMAIN urls \cup {k}
    BY DEF Put
  <2> HIDE DEF all
  <2> QED
    BY <1>1, <1>3, <2>1 DEF Without, Restrict
<1>5. all[k] = e /\ \A j \in DOMAIN urls : j # k => all[j] = urls[j]
  <2> HIDE DEF e
  <2> QED
    BY DEF Put
<1> HIDE DEF all, gone
<1> QED
  BY <1>2, <1>3, <1>4, <1>5

LEMMA StoredStream ==
    ASSUME Shapes, NEW i, NEW u \in Url, NEW ttl \in Nat,
           streams' = StoreStream(i, u, ttl)
    PROVE  /\ DOMAIN streams' = DOMAIN streams \cup {i}
           /\ \A j \in DOMAIN streams : j # i => streams'[j] = streams[j]
           /\ streams'[i] = [url |-> u, expire |-> now + ttl]
           /\ streams'[i] \in StreamEntry
<1> DEFINE e == [url |-> u, expire |-> now + ttl]
<1>1. e \in StreamEntry
  BY DEF Shapes, StreamEntry
<1>2. streams' = Put(streams, i, e)
  BY DEF StoreStream
<1> HIDE DEF e
<1>3. streams'[i] = e /\ DOMAIN streams' = DOMAIN streams \cup {i}
  BY <1>2 DEF Put
<1>4. \A j \in DOMAIN streams : j # i => streams'[j] = streams[j]
  BY <1>2 DEF Put
<1> QED
  BY <1>1, <1>3, <1>4 DEF e

LEMMA StrmIsUrl ==
    ASSUME NEW s \in Sources
    PROVE  Strm(s) \in Url /\ ~Strm(s).final /\ Strm(s).file \in Files
BY DurationsAssumption DEF Strm, Url, Files

LEMMA FinalIsUrl ==
    ASSUME NEW g \in Files, NEW n \in Nat
    PROVE  /\ Final(g, n) \in Url /\ Final(g, n).final /\ Final(g, n).until = n
           /\ \A s \in Sources : Final(g, n) # Strm(s)
BY DEF Strm, Final, Url

-----------------------------------------------------------------------------
(* What is stored under the URL of a file must be alive if it was resolved; *)
(* what is stored for a source may be dead for the rest of a minute.       *)
LEMMA FilesStayMortal ==
    ASSUME LifeInv, NEW k \in Url, NEW u \in Url, SetURLCache(k, u), now' = now,
           (\E s \in Sources : k = Strm(s)) /\ u.final /\ Signed(u) => now < u.until
    PROVE  UrlShapes' /\ FilesMortal'
<1>1. UrlShapes'
  BY StoredURL DEF LifeInv, Shapes, UrlShapes
<1>2. ASSUME NEW s \in Sources, Strm(s) \in DOMAIN urls', Strm(s) = k
      PROVE  Mortal(urls'[k], 0)
  <2>1. urls'[k].url = u /\ urls'[k].expire = now + SmartTTL(u)
    BY <1>2, StoredURL DEF LifeInv
  <2>2. u.final /\ Signed(u) => now + SmartTTL(u) <= u.until + 0
    BY <1>2, TTLWithin DEF LifeInv, Shapes, Url
  <2> QED
    BY <2>1, <2>2 DEF Mortal, Signed
<1>3. ASSUME NEW s \in Sources, Strm(s) \in DOMAIN urls', Strm(s) # k
      PROVE  Mortal(urls'[Strm(s)], 0)
  BY <1>3, StoredURL DEF LifeInv, FilesMortal
<1> QED
  BY <1>1, <1>2, <1>3 DEF FilesMortal, Strm, Mortal, Signed

LEMMA SourcesStayMortal ==
    ASSUME LifeInv, NEW i, NEW u \in Url, NEW ttl \in Nat, now' = now,
           streams' = StoreStream(i, u, ttl),
           i \in Sources /\ u.final /\ Signed(u) => now + ttl <= u.until + MinTTL
    PROVE  StreamShapes' /\ SourcesMortal'
<1>1. StreamShapes'
  BY StoredStream DEF LifeInv, Shapes, StreamShapes
<1>2. streams'[i] = [url |-> u, expire |-> now + ttl]
  BY StoredStream DEF LifeInv
<1>3. i \in Sources => Mortal(streams'[i], MinTTL)
  BY <1>2 DEF Mortal
<1>4. /\ DOMAIN streams' = DOMAIN streams \cup {i}
      /\ \A j \in DOMAIN streams : j # i => streams'[j] = streams[j]
  BY StoredStream DEF LifeInv
<1>5. \A s \in Sources : s # i /\ s \in DOMAIN streams' => Mortal(streams'[s], MinTTL)
  BY <1>4 DEF LifeInv, SourcesMortal
<1> QED
  BY <1>1, <1>3, <1>5 DEF SourcesMortal, Mortal, Signed

LEMMA URLsDropped ==
    ASSUME LifeInv, NEW S, DropURLs(S)
    PROVE  UrlShapes' /\ FilesMortal'
<1>1. DOMAIN urls' \subseteq DOMAIN urls /\ \A k \in DOMAIN urls' : urls'[k] = urls[k]
  BY DEF DropURLs, Without, Restrict
<1> QED
  BY <1>1 DEF LifeInv, Shapes, UrlShapes, FilesMortal, Strm, Mortal, Signed

LEMMA StreamsDropped ==
    ASSUME LifeInv, NEW S, streams' = Without(streams, S)
    PROVE  StreamShapes' /\ SourcesMortal'
<1>1. DOMAIN streams' \subseteq DOMAIN streams
      /\ \A i \in DOMAIN streams' : streams'[i] = streams[i]
  BY DEF Without, Restrict
<1> QED
  BY <1>1 DEF LifeInv, Shapes, StreamShapes, SourcesMortal, Mortal, Signed

LEMMA URLsUnchanged ==
    ASSUME LifeInv, UNCHANGED urls
    PROVE  UrlShapes' /\ FilesMortal'
BY DEF LifeInv, Shapes, UrlShapes, FilesMortal, Strm, Mortal, Signed

LEMMA StreamsUnchanged ==
    ASSUME LifeInv, UNCHANGED streams
    PROVE  StreamShapes' /\ SourcesMortal'
BY DEF LifeInv, Shapes, StreamShapes, SourcesMortal, Mortal, Signed

LEMMA LifeInit == Init => LifeInv
BY DEF Init, LifeInv, Shapes, UrlShapes, StreamShapes, FilesMortal, SourcesMortal

LEMMA LifeStep ==
    ASSUME LifeInv, [Next]_vars
    PROVE  LifeInv'
<1> DEFINE Remainder == now' \in Nat /\ refreshing' \subseteq [key : Url, url : Url, since : Nat]
<1>1. SUFFICES Remainder /\ (UrlShapes /\ FilesMortal)' /\ (StreamShapes /\ SourcesMortal)'
  BY DEF LifeInv, Shapes
<1>2. now \in Nat /\ refreshing \subseteq [key : Url, url : Url, since : Nat]
  BY DEF LifeInv, Shapes
<1>3. ASSUME NEW s \in Sources, Resolved(s)
      PROVE  Remainder /\ (UrlShapes /\ FilesMortal)' /\ (StreamShapes /\ SourcesMortal)'
  <2>1. PICK n \in Validities : /\ StoreSmart(s, Final(FileOf[s], now + n))
                               /\ SetURLCache(Strm(s), Final(FileOf[s], now + n))
    BY <1>3 DEF Resolved
  <2> DEFINE u == Final(FileOf[s], now + n)
  <2>2. n \in Nat \ {0} /\ now + n \in Nat
    BY <1>2, DurationsAssumption
  <2>3. u \in Url /\ u.until = now + n
    BY <2>2, FinalIsUrl DEF Files
  <2>4. SmartTTL(u) \in Nat /\ (Signed(u) => now + SmartTTL(u) <= u.until + MinTTL)
    BY <1>2, <2>2, <2>3, TTLIsNat, TTLWithin
  <2>5. Remainder
    BY <1>2, <1>3 DEF Resolved
  <2>6. now' = now
    BY <1>3 DEF Resolved
  <2>7. (UrlShapes /\ FilesMortal)'
    BY <1>2, <2>1, <2>2, <2>3, <2>6, StrmIsUrl, FilesStayMortal
  <2>8. (StreamShapes /\ SourcesMortal)'
    BY <2>1, <2>3, <2>4, <2>6, SourcesStayMortal DEF StoreSmart
  <2> QED
    BY <2>5, <2>7, <2>8
<1>4. ASSUME NEW s \in Sources, PassOn(s) \/ PreloadDirect(s) \/ PassLan(s)
      PROVE  Remainder /\ (UrlShapes /\ FilesMortal)' /\ (StreamShapes /\ SourcesMortal)'
  <2>1. Remainder /\ now' = now
    BY <1>2, <1>4 DEF PassOn, PreloadDirect, PassLan
  <2>2. Strm(s) \in Url /\ ~Strm(s).final
    BY StrmIsUrl
  <2>3. SetURLCache(Strm(s), Strm(s)) \/ UNCHANGED urls
    BY <1>4 DEF PassOn, PreloadDirect, PassLan
  <2>4. (UrlShapes /\ FilesMortal)'
    BY <2>1, <2>2, <2>3, FilesStayMortal, URLsUnchanged
  <2>5. PICK ttl \in Nat : streams' = StoreStream(s, Strm(s), ttl)
    BY <1>2, <1>4, <2>2, TTLIsNat, DurationsAssumption
    DEF PassOn, PreloadDirect, PassLan, StoreSmart
  <2>6. (StreamShapes /\ SourcesMortal)'
    BY <2>1, <2>2, <2>5, SourcesStayMortal
  <2> QED
    BY <2>1, <2>4, <2>6
<1>5. ASSUME NEW s \in Sources, Hit(s)
      PROVE  Remainder /\ (UrlShapes /\ FilesMortal)' /\ (StreamShapes /\ SourcesMortal)'
  <2> DEFINE e == urls[Strm(s)]
             u == e.url
  <2>1. Strm(s) \in DOMAIN urls /\ now <= e.expire /\ e \in UrlEntry
    BY <1>2, <1>5 DEF Hit, Absent, Expired, LifeInv, Shapes, UrlShapes, UrlEntry
  <2>2. u \in Url /\ u.until \in Nat /\ e.expire \in Nat
    BY <2>1 DEF UrlEntry, Url
  <2>3. u.final /\ Signed(u) => now <= u.until
    BY <1>2, <2>1, <2>2 DEF LifeInv, FilesMortal, Mortal
  <2>4. SmartTTL(u) \in Nat /\ (u.final /\ Signed(u) => now + SmartTTL(u) <= u.until + MinTTL)
    BY <1>2, <2>2, <2>3, TTLIsNat, TTLWithin
  <2>5. Remainder /\ now' = now /\ UNCHANGED urls /\ streams' = StoreStream(s, u, SmartTTL(u))
    BY <1>2, <1>5 DEF Hit, StoreSmart
  <2> HIDE DEF u
  <2>6. (StreamShapes /\ SourcesMortal)'
    BY <2>2, <2>4, <2>5, SourcesStayMortal
  <2> QED
    BY <2>5, <2>6, URLsUnchanged
<1>6. ASSUME NEW s \in Sources, MissExpired(s)
      PROVE  Remainder /\ (UrlShapes /\ FilesMortal)' /\ (StreamShapes /\ SourcesMortal)'
  BY <1>2, <1>6, URLsDropped, StreamsUnchanged DEF MissExpired
<1>7. ASSUME NEW s \in Sources, Refused(s)
      PROVE  Remainder /\ (UrlShapes /\ FilesMortal)' /\ (StreamShapes /\ SourcesMortal)'
  BY <1>2, <1>7, URLsDropped, StreamsDropped DEF Refused
<1>8. ASSUME NEW s \in Sources, LoseStream(s)
      PROVE  Remainder /\ (UrlShapes /\ FilesMortal)' /\ (StreamShapes /\ SourcesMortal)'
  BY <1>2, <1>8, URLsUnchanged, StreamsDropped DEF LoseStream
<1>9. CASE ClearExternalCaches
  BY <1>2, <1>9 DEF ClearExternalCaches, UrlShapes, FilesMortal, StreamShapes, SourcesMortal
<1>10. CASE Scan
  <2>1. refreshing' \subseteq [key : Url, url : Url, since : Nat]
    BY <1>2, <1>10 DEF Scan, LifeInv, Shapes, UrlShapes, UrlEntry
  <2> QED
    BY <1>2, <1>10, <2>1, URLsUnchanged, StreamsUnchanged DEF Scan
<1>11. ASSUME NEW r \in refreshing, RefreshOK(r)
       PROVE  Remainder /\ (UrlShapes /\ FilesMortal)' /\ (StreamShapes /\ SourcesMortal)'
  <2>1. Remainder /\ now' = now
    BY <1>2, <1>11 DEF RefreshOK
  <2>2. r.key \notin Sources /\ r.url \in Url /\ r.url.file \in Files
    BY <1>2, IdsAssumption DEF Url
  <2>3. PICK u \in {r.url} \cup {Final(r.url.file, now + n) : n \in Validities} :
            StoreSmart(r.key, u) /\ SetURLCache(u, u)
    BY <1>11 DEF RefreshOK
  <2>4. u \in Url
    BY <1>2, <2>2, FinalIsUrl, DurationsAssumption
  <2>5. (UrlShapes /\ FilesMortal)'
    BY <2>1, <2>3, <2>4, StrmIsUrl, FilesStayMortal
  <2>6. SmartTTL(u) \in Nat /\ streams' = StoreStream(r.key, u, SmartTTL(u))
    BY <1>2, <2>3, <2>4, TTLIsNat DEF StoreSmart
  <2>7. (StreamShapes /\ SourcesMortal)'
    BY <2>1, <2>2, <2>4, <2>6, SourcesStayMortal
  <2> QED
    BY <2>1, <2>5, <2>7
<1>12. ASSUME NEW r \in refreshing, RefreshRefused(r)
       PROVE  Remainder /\ (UrlShapes /\ FilesMortal)' /\ (StreamShapes /\ SourcesMortal)'
  BY <1>2, <1>12, URLsUnchanged, StreamsDropped DEF RefreshRefused
<1>13. ASSUME NEW r \in refreshing, RefreshError(r)
       PROVE  Remainder /\ (UrlShapes /\ FilesMortal)' /\ (StreamShapes /\ SourcesMortal)'
  BY <1>2, <1>13, URLsUnchanged, StreamsUnchanged DEF RefreshError
<1>14. ASSUME UNCHANGED <<urls, streams, refreshing>>, now' \in Nat
       PROVE  Remainder /\ (UrlShapes /\ FilesMortal)' /\ (StreamShapes /\ SourcesMortal)'
  BY <1>2, <1>14, URLsUnchanged, StreamsUnchanged
<1>15. ASSUME CleanupNegative \/ ScanNothing \/ Tick \/ UNCHANGED vars
              \/ \E s \in Sources : ResolveFailed(s)
       PROVE  UNCHANGED <<urls, streams, refreshing>> /\ now' \in Nat
  BY <1>2, <1>15 DEF CleanupNegative, ScanNothing, Tick, vars, ResolveFailed
<1> QED
  BY <1>3, <1>4, <1>5, <1>6, <1>7, <1>8, <1>9, <1>10, <1>11, <1>12, <1>13, <1>14, <1>15 DEF Next

(* Through whichever of the caches, and by whatever order of resolutions,  *)
(* hits, refreshes and losses it comes, a resolved URL that a request can be *)
(* given has been dead for a minute at most (stream.go:2332-2361, 1930).   *)
THEOREM DeadSoonGone == Spec => []DeadAtMostAMinute
<1>1. LifeInv => DeadAtMostAMinute
  <2> SUFFICES ASSUME LifeInv,
                      NEW e \in {streams[s] : s \in DOMAIN streams \cap Sources} \cup
                                {urls[k] : k \in {Strm(s) : s \in Sources} \cap DOMAIN urls},
                      e.url.final /\ Signed(e.url)
               PROVE  e.expire <= e.url.until + MinTTL
    BY DEF DeadAtMostAMinute
  <2>1. CASE \E s \in DOMAIN streams \cap Sources : e = streams[s]
    BY <2>1 DEF LifeInv, SourcesMortal, Mortal
  <2>2. ASSUME NEW s \in Sources, Strm(s) \in DOMAIN urls, e = urls[Strm(s)]
        PROVE  e.expire <= e.url.until + MinTTL
    <3>1. e.expire \in Nat /\ e.url.until \in Nat /\ e.expire <= e.url.until + 0
      BY <2>2 DEF LifeInv, FilesMortal, Mortal, Shapes, UrlShapes, UrlEntry, Url
    <3> QED
      BY <3>1, DurationsAssumption
  <2> QED
    BY <2>1, <2>2
<1>2. LifeInv /\ [Next]_vars => LifeInv'
  BY LifeStep
<1> QED
  BY <1>1, <1>2, LifeInit, PTL DEF Spec

-----------------------------------------------------------------------------
(* The types: those of the parts above, and those that no other proof needs. *)
RestTyped ==
    /\ DOMAIN streams \subseteq Sources \cup Url
    /\ DOMAIN neg \subseteq Url /\ \A u \in DOMAIN neg : neg[u] \in Nat
    /\ now \in 0 .. MaxNow

LEMMA TypeParts == LifeInv /\ BreakerInv /\ RestTyped => TypeOK
BY DEF LifeInv, BreakerInv, BreakerTypes, Breaker, RestTyped, Shapes, UrlShapes, StreamShapes,
       UrlEntry, StreamEntry, TypeOK

LEMMA WithoutDomain ==
    ASSUME NEW fn, NEW S
    PROVE  /\ DOMAIN Without(fn, S) \subseteq DOMAIN fn
           /\ \A x \in DOMAIN Without(fn, S) : Without(fn, S)[x] = fn[x]
BY DEF Without, Restrict

LEMMA RestStep ==
    ASSUME LifeInv, RestTyped, [Next]_vars
    PROVE  RestTyped'
<1> USE DEF RestTyped
<1>1. ASSUME NEW i \in Sources \cup Url, NEW u, NEW ttl, streams' = StoreStream(i, u, ttl)
      PROVE  DOMAIN streams' \subseteq Sources \cup Url
  BY <1>1 DEF StoreStream, Put
<1>2. ASSUME NEW s \in Sources,
             \/ Resolved(s) \/ PassOn(s) \/ PreloadDirect(s) \/ PassLan(s) \/ Hit(s)
      PROVE  RestTyped'
  <2>1. UNCHANGED <<neg, now>>
    BY <1>2 DEF Resolved, PassOn, PreloadDirect, PassLan, Hit
  <2>2. \E u, ttl : streams' = StoreStream(s, u, ttl)
    BY <1>2 DEF Resolved, PassOn, PreloadDirect, PassLan, Hit, StoreSmart
  <2> QED
    BY <1>1, <2>1, <2>2
<1>3. ASSUME NEW s \in Sources, ResolveFailed(s)
      PROVE  RestTyped'
  <2>1. neg' = Put(neg, Strm(s), now + NegFor) /\ UNCHANGED <<streams, now>>
    BY <1>3 DEF ResolveFailed
  <2>2. Strm(s) \in Url /\ now + NegFor \in Nat
    BY StrmIsUrl, DurationsAssumption
  <2> QED
    BY <2>1, <2>2 DEF Put
<1>4. CASE CleanupNegative
  <2>1. neg' = Without(neg, {u \in DOMAIN neg : now > neg[u]}) /\ UNCHANGED <<streams, now>>
    BY <1>4 DEF CleanupNegative
  <2>2. DOMAIN neg' \subseteq DOMAIN neg /\ \A u \in DOMAIN neg' : neg'[u] = neg[u]
    BY <2>1, WithoutDomain
  <2> QED
    BY <2>1, <2>2
<1>5. ASSUME NEW r \in refreshing, RefreshOK(r)
      PROVE  RestTyped'
  <2>1. r.key \in Url
    BY DEF LifeInv, Shapes
  <2>2. UNCHANGED <<neg, now>> /\ \E u, ttl : streams' = StoreStream(r.key, u, ttl)
    BY <1>5 DEF RefreshOK, StoreSmart
  <2> QED
    BY <1>1, <2>1, <2>2
<1>6. ASSUME UNCHANGED <<neg, now>>, NEW S, streams' = Without(streams, S)
      PROVE  RestTyped'
  BY <1>6, WithoutDomain
<1>7. ASSUME NEW s \in Sources, Refused(s) \/ LoseStream(s)
      PROVE  RestTyped'
  BY <1>6, <1>7 DEF Refused, LoseStream
<1>8. ASSUME NEW r \in refreshing, RefreshRefused(r)
      PROVE  RestTyped'
  BY <1>6, <1>8 DEF RefreshRefused
<1>9. CASE ClearExternalCaches
  BY <1>9 DEF ClearExternalCaches
<1>10. CASE Tick
  BY <1>10, DurationsAssumption DEF Tick
<1>11. ASSUME \/ Scan \/ ScanNothing \/ UNCHANGED vars \/ \E s \in Sources : MissExpired(s)
              \/ \E r \in refreshing : RefreshError(r)
       PROVE  RestTyped'
  BY <1>11 DEF Scan, ScanNothing, vars, MissExpired, RefreshError
<1> QED
  BY <1>2, <1>3, <1>4, <1>5, <1>7, <1>8, <1>9, <1>10, <1>11 DEF Next

(* The variables keep their types; the breaker's count stays within the    *)
(* threshold, and half-life refreshes know only URLs.                      *)
THEOREM TypeCorrect == Spec => []TypeOK
<1>1. Init => RestTyped
  BY DurationsAssumption DEF Init, RestTyped
<1>2. LifeInv /\ BreakerInv /\ RestTyped /\ [Next]_vars => (LifeInv /\ BreakerInv /\ RestTyped)'
  BY LifeStep, BreakerStep, RestStep
<1> QED
  BY <1>1, <1>2, LifeInit, BreakerInit, TypeParts, PTL DEF Spec

-----------------------------------------------------------------------------
(* The list of the keys of urlCache.                                       *)
Listed == DOMAIN urls \subseteq Url /\ lru \in Seq(Url) /\ ListMatchesMap

LEMMA StoredKeys ==
    ASSUME NEW k, NEW u, SetURLCache(k, u)
    PROVE  LET gone == IF k \notin DOMAIN urls /\ Len(Touch(lru, k)) > Capacity
                       THEN {Head(Touch(lru, k))} ELSE {} IN
           /\ DOMAIN urls' = (DOMAIN urls \cup {k}) \ gone
           /\ lru' = IF gone = {} THEN Touch(lru, k) ELSE Tail(Touch(lru, k))
<1> DEFINE e == [url |-> u, expire |-> now + SmartTTL(u),
                 created |-> IF k \notin DOMAIN urls THEN now ELSE urls[k].created]
           gone == IF k \notin DOMAIN urls /\ Len(Touch(lru, k)) > Capacity
                   THEN {Head(Touch(lru, k))} ELSE {}
<1>1. urls' = Without(Put(urls, k, e), gone)
  BY DEF SetURLCache
<1>2. lru' = IF gone = {} THEN Touch(lru, k) ELSE Tail(Touch(lru, k))
  BY DEF SetURLCache
<1> HIDE DEF e, gone
<1>3. DOMAIN urls' = (DOMAIN urls \cup {k}) \ gone
  BY <1>1 DEF Without, Restrict, Put
<1> QED
  BY <1>2, <1>3 DEF gone

(* An insertion: the key is the last of the list, and a new one beyond the *)
(* limit costs the first.                                                  *)
LEMMA InsertionListed ==
    ASSUME Listed, NEW k \in Url, NEW u, SetURLCache(k, u)
    PROVE  Listed'
<1>1. PICK l : l = Touch(lru, k)
  OBVIOUS
<1>2. /\ lru \in Seq(Url) /\ ToSet(lru) = DOMAIN urls /\ IsInjective(lru)
      /\ Len(lru) <= Capacity /\ Len(lru) \in Nat /\ DOMAIN urls \subseteq Url
  BY DEF Listed, ListMatchesMap
<1>3. l \in Seq(Url) /\ l # << >> /\ IsInjective(l)
  BY <1>1, <1>2, Touched
<1>4. ToSet(l) = DOMAIN urls \cup {k}
  BY <1>1, <1>2, TouchedSet
<1>5. Len(l) = IF k \in DOMAIN urls THEN Len(lru) ELSE Len(lru) + 1
  BY <1>1, <1>2, TouchedLen
<1>6. Capacity \in Nat
  BY DurationsAssumption
<1>7. CASE k \notin DOMAIN urls /\ Len(l) > Capacity
  <2>1. DOMAIN urls' = (DOMAIN urls \cup {k}) \ {Head(l)} /\ lru' = Tail(l)
    BY <1>1, <1>7, StoredKeys
  <2>2. /\ Tail(l) \in Seq(Url) /\ ToSet(Tail(l)) = ToSet(l) \ {Head(l)}
        /\ IsInjective(Tail(l)) /\ Len(Tail(l)) = Len(l) - 1
    BY <1>3, Behead
  <2>3. Len(lru') <= Capacity
    BY <1>2, <1>5, <1>6, <1>7, <2>1, <2>2
  <2> QED
    BY <1>2, <1>4, <2>1, <2>2, <2>3 DEF Listed, ListMatchesMap
<1>8. CASE ~(k \notin DOMAIN urls /\ Len(l) > Capacity)
  <2>1. DOMAIN urls' = DOMAIN urls \cup {k} /\ lru' = l
    BY <1>1, <1>8, StoredKeys
  <2>2. Len(l) <= Capacity
    BY <1>2, <1>5, <1>6, <1>8
  <2> QED
    BY <1>2, <1>3, <1>4, <2>1, <2>2 DEF Listed, ListMatchesMap
<1> QED
  BY <1>7, <1>8

LEMMA RemovalListed ==
    ASSUME Listed, NEW S, DropURLs(S)
    PROVE  Listed'
<1>1. /\ lru \in Seq(Url) /\ ToSet(lru) = DOMAIN urls /\ IsInjective(lru)
      /\ Len(lru) <= Capacity /\ Len(lru) \in Nat /\ DOMAIN urls \subseteq Url
  BY DEF Listed, ListMatchesMap
<1>2. DOMAIN urls' = DOMAIN urls \ S
  BY DEF DropURLs, Without, Restrict
<1>3. lru' \in Rest(lru, S)
  BY DEF DropURLs
<1>4. lru' \in Seq(Url) /\ ToSet(lru') = ToSet(lru) \ S /\ IsInjective(lru')
  BY <1>1, <1>3, Filtered
<1>5. Len(lru') <= Len(lru) /\ Len(lru') \in Nat
  BY <1>1, <1>3, <1>4, FilteredLen
<1>6. Len(lru') <= Capacity
  BY <1>1, <1>5, DurationsAssumption
<1> QED
  BY <1>1, <1>2, <1>4, <1>6 DEF Listed, ListMatchesMap

LEMMA UseListed ==
    ASSUME Listed, NEW k \in Url, k \in DOMAIN urls, urls' = urls, lru' = Touch(lru, k)
    PROVE  Listed'
<1>1. /\ lru \in Seq(Url) /\ ToSet(lru) = DOMAIN urls /\ IsInjective(lru)
      /\ Len(lru) <= Capacity /\ DOMAIN urls \subseteq Url
  BY DEF Listed, ListMatchesMap
<1>2. PICK l : l = Touch(lru, k)
  OBVIOUS
<1>3. l \in Seq(Url) /\ IsInjective(l)
  BY <1>1, <1>2, Touched
<1>4. ToSet(l) = DOMAIN urls
  <2>1. ToSet(l) = DOMAIN urls \cup {k}
    BY <1>1, <1>2, TouchedSet
  <2> QED
    BY <2>1
<1>5. Len(l) = Len(lru)
  BY <1>1, <1>2, TouchedLen
<1>6. lru' = l
  BY <1>2
<1> QED
  BY <1>1, <1>3, <1>4, <1>5, <1>6 DEF Listed, ListMatchesMap

LEMMA ListedInit == Init => Listed
<1> SUFFICES ASSUME Init PROVE Listed
  OBVIOUS
<1>1. urls = << >> /\ lru = << >> /\ DOMAIN urls = {}
  BY DEF Init
<1>2. lru \in Seq(Url) /\ IsInjective(lru) /\ ToSet(lru) = {} /\ Len(lru) = 0
  BY <1>1 DEF IsInjective, ToSet
<1> QED
  BY <1>1, <1>2, DurationsAssumption DEF Listed, ListMatchesMap

LEMMA ListedStep ==
    ASSUME LifeInv, Listed, [Next]_vars
    PROVE  Listed'
<1>1. ASSUME NEW s \in Sources, Resolved(s)
      PROVE  Listed'
  <2>1. \E u : SetURLCache(Strm(s), u)
    BY <1>1 DEF Resolved
  <2> QED
    BY <2>1, StrmIsUrl, InsertionListed
<1>2. ASSUME NEW s \in Sources, PassOn(s) \/ PreloadDirect(s)
      PROVE  Listed'
  BY <1>2, StrmIsUrl, InsertionListed DEF PassOn, PreloadDirect
<1>3. ASSUME NEW s \in Sources, Hit(s)
      PROVE  Listed'
  <2>1. Strm(s) \in DOMAIN urls /\ urls' = urls /\ lru' = Touch(lru, Strm(s))
    BY <1>3 DEF Hit, Absent
  <2> QED
    BY <2>1, StrmIsUrl, UseListed
<1>4. ASSUME NEW s \in Sources, MissExpired(s) \/ Refused(s)
      PROVE  Listed'
  <2>1. \E S : DropURLs(S)
    BY <1>4 DEF MissExpired, Refused
  <2> QED
    BY <2>1, RemovalListed
<1>5. CASE ClearExternalCaches
  <2>1. urls' = << >> /\ lru' = << >> /\ DOMAIN urls' = {}
    BY <1>5 DEF ClearExternalCaches
  <2>2. lru' \in Seq(Url) /\ IsInjective(lru') /\ ToSet(lru') = {} /\ Len(lru') = 0
    BY <2>1 DEF IsInjective, ToSet
  <2> QED
    BY <2>1, <2>2, DurationsAssumption DEF Listed, ListMatchesMap
<1>6. ASSUME NEW r \in refreshing, RefreshOK(r)
      PROVE  Listed'
  <2>1. r.url \in Url /\ r.url.file \in Files /\ now \in Nat
    BY DEF LifeInv, Shapes, Url
  <2>2. PICK u \in {r.url} \cup {Final(r.url.file, now + n) : n \in Validities} :
            SetURLCache(u, u)
    BY <1>6 DEF RefreshOK
  <2>3. u \in Url
    BY <2>1, <2>2, FinalIsUrl, DurationsAssumption
  <2> QED
    BY <2>2, <2>3, InsertionListed
<1>7. ASSUME UNCHANGED <<urls, lru>>
      PROVE  Listed'
  BY <1>7 DEF Listed, ListMatchesMap
<1>8. ASSUME NEW s \in Sources, ResolveFailed(s) \/ PassLan(s) \/ LoseStream(s)
      PROVE  UNCHANGED <<urls, lru>>
  BY <1>8 DEF ResolveFailed, PassLan, LoseStream
<1>9. ASSUME NEW r \in refreshing, RefreshRefused(r) \/ RefreshError(r)
      PROVE  UNCHANGED <<urls, lru>>
  BY <1>9 DEF RefreshRefused, RefreshError
<1>10. CleanupNegative \/ Scan \/ ScanNothing \/ Tick \/ UNCHANGED vars
         => UNCHANGED <<urls, lru>>
  BY DEF CleanupNegative, Scan, ScanNothing, Tick, vars
<1> QED
  BY <1>1, <1>2, <1>3, <1>4, <1>5, <1>6, <1>7, <1>8, <1>9, <1>10 DEF Next

(* The keys of urlCache and the nodes of its list are the same, each node  *)
(* once, and no more than maxURLCacheSize, for any capacity, any URLs and  *)
(* any order of insertions, hits, expiry, refusals and refreshes            *)
(* (stream.go:1599-1690, 3030-3042).                                       *)
THEOREM ListIsExact == Spec => []ListMatchesMap
<1>1. Listed => ListMatchesMap
  BY DEF Listed
<1>2. LifeInv /\ Listed /\ [Next]_vars => (LifeInv /\ Listed)'
  BY LifeStep, ListedStep
<1> QED
  BY <1>1, <1>2, LifeInit, ListedInit, PTL DEF Spec

-----------------------------------------------------------------------------
(* The playback handler.                                                   *)

(* Handle gets past the look into the cache with .strm items only.         *)
StrmsOnly == \A t \in Threads :
                th[t].pc \in {"claim"} \cup Inside => th[t].item \in Strms

PlaybackInv == PlaybackTypeOK /\ StrmsOnly /\ OneAtATime

(* What a step that leaves the claims alone has to respect: it moves the   *)
(* threads T, none of which is inside Handle's claim before or after.      *)
LEMMA OthersKeep ==
    ASSUME PlaybackInv, NEW T \in SUBSET Threads,
           th' \in [Threads -> Active \cup {Idle}],
           processing' = processing,
           \A t \in Threads \ T : th'[t] = th[t],
           \A t \in T : th[t].pc \notin Inside /\ th'[t].pc \notin Inside,
           \A t \in T : th'[t].pc = "claim" => th'[t].item \in Strms
    PROVE  StrmsOnly' /\ OneAtATime'
<1>1. \A t \in Threads : th'[t].pc \in Inside \/ th[t].pc \in Inside => th'[t] = th[t]
  OBVIOUS
<1>2. \A t \in Threads, i \in Strms : Holds(t, i)' <=> Holds(t, i)
  BY <1>1 DEF Holds
<1>3. OneAtATime'
  BY <1>2 DEF PlaybackInv, OneAtATime
<1>4. StrmsOnly'
  BY <1>1 DEF PlaybackInv, StrmsOnly
<1> QED BY <1>3, <1>4

LEMMA PlaybackStart == PlaybackInit => PlaybackInv
<1> SUFFICES ASSUME PlaybackInit PROVE PlaybackInv
  OBVIOUS
<1>1. PlaybackTypeOK
  BY BoundsAssumption DEF PlaybackInit, PlaybackTypeOK
<1>2. \A t \in Threads : th[t].pc = "idle"
  BY DEF PlaybackInit, Idle
<1>3. StrmsOnly
  BY <1>2 DEF StrmsOnly, Inside
<1>4. OneAtATime
  <2>1. \A t \in Threads, i \in Strms : ~Holds(t, i)
    BY <1>2 DEF Holds, Inside
  <2> QED BY <2>1 DEF OneAtATime, PlaybackInit
<1> QED BY <1>1, <1>3, <1>4 DEF PlaybackInv

(* A thread that is not idle is a record with all fields.                  *)
LEMMA Running ==
    ASSUME PlaybackTypeOK, NEW t \in Threads, th[t].pc # "idle"
    PROVE  th[t] \in Active
BY DEF PlaybackTypeOK, Idle

(* The record of a thread that is sent to another place, tries again, or   *)
(* goes on as a retry.                                                     *)
LEMMA Records ==
    ASSUME PlaybackTypeOK, NEW t \in Threads, th[t].pc # "idle"
    PROVE  /\ \A p \in Places : [th[t] EXCEPT !.pc = p] \in Active
           /\ [th[t] EXCEPT !.pc = "ask", !.tries = @ + 1] \in Active
           /\ [th[t] EXCEPT !.kind = "repeated", !.pc = "ask"] \in Active
<1>1. th[t] \in Active
  BY Running
<1>2. \A p \in Places : [th[t] EXCEPT !.pc = p] \in Active
  BY <1>1 DEF Active
<1>3. "ask" \in Places /\ "repeated" \in Kinds
  BY DEF Places, Kinds
<1>4. th[t].tries + 1 \in Nat
  BY <1>1 DEF Active
<1>5. [th[t] EXCEPT !.pc = "ask", !.tries = @ + 1] \in Active
  BY <1>1, <1>3, <1>4 DEF Active
<1>6. [th[t] EXCEPT !.kind = "repeated", !.pc = "ask"] \in Active
  BY <1>1, <1>3 DEF Active
<1> QED BY <1>2, <1>5, <1>6

(* A step of one thread outside of its claim.                              *)
LEMMA OneMoves ==
    ASSUME PlaybackInv, NEW t \in Threads, NEW r \in Active \cup {Idle},
           th' = [th EXCEPT ![t] = r],
           th[t].pc \notin Inside, r.pc \notin Inside,
           r.pc = "claim" => r.item \in Strms,
           cached' \subseteq Strms, processing' = processing,
           follow' \subseteq Episodes, arrivals' \in 0 .. MaxArrivals
    PROVE  PlaybackInv'
<1>1. th \in [Threads -> Active \cup {Idle}]
  BY DEF PlaybackInv, PlaybackTypeOK
<1>2. th' \in [Threads -> Active \cup {Idle}] /\ th'[t] = r
  BY <1>1
<1>3. \A u \in Threads \ {t} : th'[u] = th[u]
  BY <1>1
<1>4. PlaybackTypeOK'
  BY <1>2 DEF PlaybackInv, PlaybackTypeOK
<1>5. StrmsOnly' /\ OneAtATime'
  BY <1>2, <1>3, OthersKeep, {t} \in SUBSET Threads
<1> QED BY <1>4, <1>5 DEF PlaybackInv

(* Sending a thread somewhere changes its record only.                     *)
LEMMA GotoRecord ==
    ASSUME PlaybackTypeOK, NEW t \in Threads, NEW p \in Places, th[t].pc # "idle", Goto(t, p)
    PROVE  \E r \in Active : /\ th' = [th EXCEPT ![t] = r]
                             /\ r.pc = p /\ r.item = th[t].item
<1> DEFINE r == [th[t] EXCEPT !.pc = p]
<1>1. r \in Active
  BY Records
<1>2. r.pc = p /\ r.item = th[t].item
  BY Running DEF Active
<1>3. th' = [th EXCEPT ![t] = r]
  BY DEF Goto
<1> HIDE DEF r
<1> QED BY <1>1, <1>2, <1>3

(* Wherever a thread goes from outside of its claim, other than to claim an *)
(* item, it does not take the claim along.                                 *)
LEMMA Leaves ==
    ASSUME PlaybackTypeOK, NEW t \in Threads, th[t].pc # "idle",
           \/ Return(t) \/ Again(t) \/ End(t)
           \/ \E p \in Places \ ({"claim"} \cup Inside) : Goto(t, p)
           \/ th' = [th EXCEPT ![t].kind = "repeated", ![t].pc = "ask"]
    PROVE  \E r \in Active \cup {Idle} :
              th' = [th EXCEPT ![t] = r] /\ r.pc \notin {"claim"} \cup Inside
<1>1. CASE \E p \in Places \ ({"claim"} \cup Inside) : Goto(t, p)
  BY <1>1, GotoRecord
<1>2. CASE End(t)
  <2>1. Idle.pc \notin {"claim"} \cup Inside
    BY DEF Idle, Inside
  <2> QED BY <1>2, <2>1 DEF End
<1>3. CASE Return(t)
  <2>1. "look" \in Places \ ({"claim"} \cup Inside)
    BY DEF Places, Inside
  <2> QED BY <1>1, <1>2, <1>3, <2>1 DEF Return
<1>4. CASE Again(t)
  <2>1. CASE th' = [th EXCEPT ![t].pc = "ask", ![t].tries = @ + 1]
    <3> DEFINE r == [th[t] EXCEPT !.pc = "ask", !.tries = @ + 1]
    <3>1. r \in Active
      BY Records
    <3>2. r.pc = "ask"
      BY Running DEF Active
    <3>3. th' = [th EXCEPT ![t] = r]
      BY <2>1 DEF PlaybackTypeOK
    <3>4. "ask" \notin {"claim"} \cup Inside
      BY DEF Inside
    <3> HIDE DEF r
    <3> QED BY <3>1, <3>2, <3>3, <3>4
  <2> QED BY <1>2, <1>4, <2>1 DEF Again
<1>5. CASE th' = [th EXCEPT ![t].kind = "repeated", ![t].pc = "ask"]
  <2> DEFINE r == [th[t] EXCEPT !.kind = "repeated", !.pc = "ask"]
  <2>1. r \in Active
    BY Records
  <2>2. r.pc = "ask"
    BY Running DEF Active
  <2>3. th' = [th EXCEPT ![t] = r]
    BY <1>5 DEF PlaybackTypeOK
  <2>4. "ask" \notin {"claim"} \cup Inside
    BY DEF Inside
  <2> HIDE DEF r
  <2> QED BY <2>1, <2>2, <2>3, <2>4
<1> QED BY <1>1, <1>2, <1>3, <1>4, <1>5

-----------------------------------------------------------------------------
(* The steps that leave the claims alone.                                  *)

LEMMA Arriving ==
    ASSUME PlaybackInv, NEW t \in Threads, NEW r \in Active, Arrive(t, r),
           r.pc \notin {"claim"} \cup Inside
    PROVE  PlaybackInv'
<1>1. th[t].pc \notin Inside
  BY DEF Arrive, Free, Idle, Inside
<1>2. arrivals' \in 0 .. MaxArrivals
  BY BoundsAssumption DEF PlaybackInv, PlaybackTypeOK, Arrive
<1>3. th' = [th EXCEPT ![t] = r]
  BY DEF Arrive
<1>4. /\ cached' \subseteq Strms /\ follow' \subseteq Episodes
      /\ processing' = processing
  BY DEF Arrive, PlaybackInv, PlaybackTypeOK
<1> QED BY <1>1, <1>2, <1>3, <1>4, OneMoves

LEMMA NewThread ==
    ASSUME NEW k \in Kinds, NEW i \in Items, NEW c \in BOOLEAN, NEW p \in Places
    PROVE  Thread(k, i, c, p) \in Active /\ Thread(k, i, c, p).pc = p
BY DEF Thread, Active

LEMMA Arrivals ==
    ASSUME PlaybackInv, NEW t \in Threads, NEW i \in Items,
           \/ OpenDetail(t, i) \/ AskPlayback(t, i)
           \/ StreamRequest(t, i) \/ PrefetchItem(t, i)
    PROVE  PlaybackInv'
<1>1. /\ {"once", "repeated", "miss"} \subseteq Kinds
      /\ {"ask", "answer", "begin"} \subseteq Places \ ({"claim"} \cup Inside)
  BY DEF Kinds, Places, Inside
<1>2. CASE OpenDetail(t, i)
  BY <1>1, <1>2, NewThread, Arriving DEF OpenDetail
<1>3. CASE AskPlayback(t, i)
  BY <1>1, <1>3, NewThread, Arriving DEF AskPlayback
<1>4. CASE StreamRequest(t, i)
  BY <1>1, <1>4, NewThread, Arriving DEF StreamRequest
<1>5. CASE PrefetchItem(t, i)
  BY <1>1, <1>5, NewThread, Arriving DEF PrefetchItem
<1> QED BY <1>2, <1>3, <1>4, <1>5

LEMMA ArrivalOfTwo ==
    ASSUME PlaybackInv, NEW t \in Threads, NEW u \in Threads, NEW i \in Items,
           AskPlaybackGet(t, u, i)
    PROVE  PlaybackInv'
<1> DEFINE a == Thread("once", i, FALSE, "answer")
           b == Thread("once", i, FALSE, "ask")
<1>1. /\ a \in Active /\ a.pc = "answer"
      /\ b \in Active /\ b.pc = "ask"
  <2>1. "once" \in Kinds /\ "answer" \in Places /\ "ask" \in Places
    BY DEF Kinds, Places
  <2> QED BY <2>1, NewThread
<1>2. /\ t # u
      /\ th[t].pc = "idle" /\ th[u].pc = "idle"
      /\ th' = [th EXCEPT ![t] = a, ![u] = b]
      /\ cached' = cached /\ processing' = processing /\ follow' = follow
      /\ arrivals' \in 0 .. MaxArrivals
  BY BoundsAssumption DEF AskPlaybackGet, Free, Idle, PlaybackInv, PlaybackTypeOK
<1> HIDE DEF a, b
<1>3. /\ th' \in [Threads -> Active \cup {Idle}]
      /\ th'[t] = a /\ th'[u] = b
      /\ \A v \in Threads \ {t, u} : th'[v] = th[v]
  BY <1>1, <1>2 DEF PlaybackInv, PlaybackTypeOK
<1>4. PlaybackTypeOK'
  BY <1>2, <1>3 DEF PlaybackInv, PlaybackTypeOK
<1>5. \A v \in {t, u} : /\ th[v].pc \notin Inside /\ th'[v].pc \notin Inside
                        /\ th'[v].pc # "claim"
  BY <1>1, <1>2, <1>3 DEF Inside
<1>6. StrmsOnly' /\ OneAtATime'
  BY <1>2, <1>3, <1>5, OthersKeep, {t, u} \in SUBSET Threads
<1> QED BY <1>4, <1>6 DEF PlaybackInv

(* Requests, answers and the return from the fallback.                     *)
LEMMA Outside ==
    ASSUME PlaybackInv, NEW t \in Threads,
           \/ HandleResponse(t) \/ BeginMiss(t) \/ AskOK(t) \/ AskFailed(t)
           \/ AskUnreadable(t) \/ Look(t) \/ Ready(t)
    PROVE  PlaybackInv'
<1>1. /\ {"ask", "check", "ready"} \subseteq Places \ ({"claim"} \cup Inside)
  BY DEF Places, Inside
<1>2. /\ th[t].pc # "idle" /\ th[t].pc \notin Inside
      /\ UNCHANGED <<cached, processing, follow, arrivals>>
  BY DEF HandleResponse, BeginMiss, AskOK, AskFailed, AskUnreadable, Look, Ready, At, Inside
<1>3. \/ Return(t) \/ Again(t) \/ End(t)
      \/ \E p \in Places \ ({"claim"} \cup Inside) : Goto(t, p)
      \/ th' = [th EXCEPT ![t].kind = "repeated", ![t].pc = "ask"]
  BY <1>1 DEF HandleResponse, BeginMiss, AskOK, AskFailed, AskUnreadable, Look, Ready
<1>4. PICK r \in Active \cup {Idle} :
        th' = [th EXCEPT ![t] = r] /\ r.pc \notin {"claim"} \cup Inside
  BY <1>2, <1>3, Leaves DEF PlaybackInv
<1>5. /\ cached' \subseteq Strms /\ follow' \subseteq Episodes
      /\ arrivals' \in 0 .. MaxArrivals
  BY <1>2 DEF PlaybackInv, PlaybackTypeOK
<1> QED BY <1>2, <1>4, <1>5, OneMoves

LEMMA Checks ==
    ASSUME PlaybackInv, NEW t \in Threads, Check(t)
    PROVE  PlaybackInv'
<1>1. /\ th[t].pc # "idle" /\ th[t].pc \notin Inside
      /\ cached' = cached /\ processing' = processing /\ arrivals' = arrivals
  BY DEF Check, At, Inside
<1>2. follow' \subseteq Episodes
  BY DEF Check, CheckOther, CheckCached, CheckNew, Callback, PlaybackInv, PlaybackTypeOK
<1>3. PICK r \in Active \cup {Idle} :
        /\ th' = [th EXCEPT ![t] = r]
        /\ r.pc \notin Inside
        /\ r.pc = "claim" => r.item \in Strms
  <2>1. CASE Return(t)
    BY <1>1, <2>1, Leaves DEF PlaybackInv
  <2>2. CASE CheckNew(t)
    <3>1. "claim" \in Places /\ "claim" \notin Inside
      BY DEF Places, Inside
    <3> QED BY <1>1, <2>2, <3>1, GotoRecord DEF CheckNew, PlaybackInv
  <2> QED BY <2>1, <2>2 DEF Check, CheckOther, CheckCached
<1> QED BY <1>1, <1>2, <1>3, OneMoves DEF PlaybackInv, PlaybackTypeOK

LEMMA NoThreadMoves ==
    ASSUME PlaybackInv, th' = th, processing' = processing, arrivals' = arrivals,
           cached' \subseteq Strms, follow' \subseteq Episodes
    PROVE  PlaybackInv'
BY DEF PlaybackInv, PlaybackTypeOK, StrmsOnly, OneAtATime, Holds

LEMMA FollowsUp ==
    ASSUME PlaybackInv, NEW e \in Episodes, FollowUp(e)
    PROVE  PlaybackInv'
<1>0. PICK numbered \in BOOLEAN :
         \E b \in [FirstTwo(Following(e, numbered)) -> Free] :
            th' = [t \in Threads |->
                     IF \E f \in FirstTwo(Following(e, numbered)) : b[f] = t
                     THEN Thread("repeated",
                                 CHOOSE f \in FirstTwo(Following(e, numbered)) : b[f] = t,
                                 TRUE, "ask")
                     ELSE th[t]]
  BY DEF FollowUp
<1>1. PICK b \in [FirstTwo(Following(e, numbered)) -> Free] :
         th' = [t \in Threads |->
                  IF \E f \in FirstTwo(Following(e, numbered)) : b[f] = t
                  THEN Thread("repeated",
                              CHOOSE f \in FirstTwo(Following(e, numbered)) : b[f] = t,
                              TRUE, "ask")
                  ELSE th[t]]
  BY <1>0
<1> DEFINE F == FirstTwo(Following(e, numbered))
           T == {b[f] : f \in F}
           New(t) == Thread("repeated", CHOOSE f \in F : b[f] = t, TRUE, "ask")
<1>2. F \subseteq Items
  BY DEF FirstTwo, Following, Items, Strms
<1>3. T \subseteq Free /\ T \subseteq Threads
  BY DEF Free
<1>4. \A t \in T : th'[t] = New(t)
  BY <1>1, <1>3
<1>5. \A t \in Threads \ T : th'[t] = th[t]
  BY <1>1
<1>6. \A t \in T : New(t) \in Active /\ New(t).pc = "ask"
  <2>1. \A t \in T : (CHOOSE f \in F : b[f] = t) \in Items
    BY <1>2
  <2>2. "repeated" \in Kinds /\ "ask" \in Places /\ TRUE \in BOOLEAN
    BY DEF Kinds, Places
  <2>3. \A i \in Items : /\ Thread("repeated", i, TRUE, "ask") \in Active
                         /\ Thread("repeated", i, TRUE, "ask").pc = "ask"
    BY <2>2, NewThread
  <2> HIDE DEF F, T
  <2> QED BY <2>1, <2>3
<1>7. \A t \in T : th[t].pc = "idle"
  BY <1>3 DEF Free, Idle
<1>8. th' \in [Threads -> Active \cup {Idle}]
  <2>1. th' = [t \in Threads |-> th'[t]]
    BY <1>1
  <2> HIDE DEF F, T, New
  <2>2. \A t \in T : th'[t] \in Active
    BY <1>4, <1>6
  <2>3. \A t \in Threads \ T : th'[t] \in Active \cup {Idle}
    BY <1>5 DEF PlaybackInv, PlaybackTypeOK
  <2>4. \A t \in Threads : th'[t] \in Active \cup {Idle}
    BY <2>2, <2>3
  <2> QED BY <2>1, <2>4
<1>9. processing' = processing /\ cached' = cached /\ arrivals' = arrivals
      /\ follow' \subseteq Episodes
  BY DEF FollowUp, PlaybackInv, PlaybackTypeOK
<1>10. \A t \in T : /\ th[t].pc \notin Inside /\ th'[t].pc \notin Inside
                    /\ th'[t].pc # "claim"
  BY <1>4, <1>6, <1>7 DEF Inside
<1>11. T \in SUBSET Threads
  BY <1>3
<1> HIDE DEF F, T, New
<1>12. StrmsOnly' /\ OneAtATime'
  BY <1>5, <1>8, <1>9, <1>10, <1>11, OthersKeep
<1>13. PlaybackTypeOK'
  BY <1>8, <1>9 DEF PlaybackInv, PlaybackTypeOK
<1> QED BY <1>12, <1>13 DEF PlaybackInv

-----------------------------------------------------------------------------
(* The steps that take a claim, use it and give it back.                   *)

LEMMA Claims ==
    ASSUME PlaybackInv, NEW t \in Threads, Claim(t)
    PROVE  PlaybackInv'
<1>1. /\ th[t].pc = "claim" /\ th[t].pc # "idle" /\ th[t].pc \notin Inside
      /\ th[t].item \in Strms
      /\ cached' = cached /\ follow' = follow /\ arrivals' = arrivals
  BY DEF Claim, At, Inside, PlaybackInv, StrmsOnly
<1>2. CASE Return(t) /\ processing' = processing
  BY <1>1, <1>2, Leaves, OneMoves DEF PlaybackInv, PlaybackTypeOK
<1>3. CASE /\ th[t].item \notin processing
           /\ processing' = processing \cup {th[t].item}
           /\ Goto(t, "store")
  <2>1. PICK r \in Active : /\ th' = [th EXCEPT ![t] = r]
                            /\ r.pc = "store" /\ r.item = th[t].item
    BY <1>1, <1>3, GotoRecord DEF Places, PlaybackInv
  <2>2. /\ th' \in [Threads -> Active \cup {Idle}] /\ th'[t] = r
        /\ \A u \in Threads \ {t} : th'[u] = th[u]
    BY <2>1 DEF PlaybackInv, PlaybackTypeOK
  <2>3. PlaybackTypeOK'
    BY <1>1, <1>3, <2>2 DEF PlaybackInv, PlaybackTypeOK
  <2>4. StrmsOnly'
    BY <1>1, <2>1, <2>2 DEF PlaybackInv, StrmsOnly
  <2>5. \A i \in Strms : Holds(t, i)' <=> i = th[t].item
    BY <2>1, <2>2 DEF Holds, Inside
  <2>6. \A u \in Threads \ {t}, i \in Strms : Holds(u, i)' <=> Holds(u, i)
    BY <2>2 DEF Holds
  <2>7. \A i \in Strms : ~Holds(t, i)
    BY <1>1 DEF Holds
  <2>8. \A u \in Threads : ~Holds(u, th[t].item)
    BY <1>1, <1>3 DEF PlaybackInv, OneAtATime
  <2>9. OneAtATime'
    BY <1>1, <1>3, <2>5, <2>6, <2>7, <2>8 DEF PlaybackInv, OneAtATime
  <2> QED BY <2>3, <2>4, <2>9 DEF PlaybackInv
<1> QED BY <1>2, <1>3 DEF Claim

LEMMA Stores ==
    ASSUME PlaybackInv, NEW t \in Threads, Store(t)
    PROVE  PlaybackInv'
<1>1. /\ th[t].pc = "store" /\ th[t].item \in Strms
      /\ cached' = cached \cup {th[t].item}
      /\ processing' = processing /\ follow' = follow /\ arrivals' = arrivals
  BY DEF Store, At, Inside, PlaybackInv, StrmsOnly
<1>2. PICK r \in Active : /\ th' = [th EXCEPT ![t] = r]
                          /\ r.pc = "preload" /\ r.item = th[t].item
  BY <1>1, GotoRecord DEF Store, Places, PlaybackInv
<1>3. /\ th' \in [Threads -> Active \cup {Idle}] /\ th'[t] = r
      /\ \A u \in Threads \ {t} : th'[u] = th[u]
  BY <1>2 DEF PlaybackInv, PlaybackTypeOK
<1>4. PlaybackTypeOK'
  BY <1>1, <1>3 DEF PlaybackInv, PlaybackTypeOK
<1>5. StrmsOnly'
  BY <1>1, <1>2, <1>3 DEF PlaybackInv, StrmsOnly
<1>6. \A u \in Threads, i \in Strms : Holds(u, i)' <=> Holds(u, i)
  BY <1>1, <1>2, <1>3 DEF Holds, Inside
<1>7. OneAtATime'
  BY <1>1, <1>6 DEF PlaybackInv, OneAtATime
<1> QED BY <1>4, <1>5, <1>7 DEF PlaybackInv

LEMMA GivesBack ==
    ASSUME PlaybackInv, NEW t \in Threads, Preloaded(t)
    PROVE  PlaybackInv'
<1>1. /\ th[t].pc = "preload" /\ th[t].pc # "idle" /\ th[t].item \in Strms
      /\ processing' = processing \ {th[t].item}
      /\ cached' = cached /\ arrivals' = arrivals
  BY DEF Preloaded, At, Inside, PlaybackInv, StrmsOnly
<1>2. follow' \subseteq Episodes
  BY DEF Preloaded, Callback, PlaybackInv, PlaybackTypeOK
<1>3. PICK r \in Active \cup {Idle} :
        th' = [th EXCEPT ![t] = r] /\ r.pc \notin {"claim"} \cup Inside
  BY <1>1, Leaves DEF Preloaded, PlaybackInv
<1>4. /\ th' \in [Threads -> Active \cup {Idle}] /\ th'[t] = r
      /\ \A u \in Threads \ {t} : th'[u] = th[u]
  BY <1>3 DEF PlaybackInv, PlaybackTypeOK
<1>5. PlaybackTypeOK'
  BY <1>1, <1>2, <1>4 DEF PlaybackInv, PlaybackTypeOK
<1>6. StrmsOnly'
  BY <1>3, <1>4 DEF PlaybackInv, StrmsOnly
<1>7. \A i \in Strms : ~Holds(t, i)'
  BY <1>3, <1>4 DEF Holds
<1>8. \A u \in Threads \ {t}, i \in Strms : Holds(u, i)' <=> Holds(u, i)
  BY <1>4 DEF Holds
<1>9. Holds(t, th[t].item)
  BY <1>1 DEF Holds, Inside
<1>10. \A i \in Strms : Holds(t, i) => i = th[t].item
  BY DEF Holds
<1>11. \A u \in Threads \ {t} : ~Holds(u, th[t].item)
  BY <1>1, <1>9 DEF PlaybackInv, OneAtATime
<1>12. OneAtATime'
  BY <1>1, <1>7, <1>8, <1>9, <1>10, <1>11 DEF PlaybackInv, OneAtATime
<1> QED BY <1>5, <1>6, <1>12 DEF PlaybackInv

-----------------------------------------------------------------------------
LEMMA PlaybackStep == PlaybackInv /\ [PlaybackNext]_playbackVars => PlaybackInv'
<1> SUFFICES ASSUME PlaybackInv, [PlaybackNext]_playbackVars PROVE PlaybackInv'
  OBVIOUS
<1>1. CASE \E t \in Threads, i \in Items : \/ OpenDetail(t, i) \/ AskPlayback(t, i)
                                         \/ StreamRequest(t, i) \/ PrefetchItem(t, i)
  BY <1>1, Arrivals
<1>2. CASE \E t, u \in Threads, i \in Items : AskPlaybackGet(t, u, i)
  BY <1>2, ArrivalOfTwo
<1>3. CASE \E i \in Items : Evict(i)
  BY <1>3, NoThreadMoves DEF Evict, PlaybackInv, PlaybackTypeOK
<1>4. ASSUME NEW t \in Threads, Run(t) PROVE PlaybackInv'
  BY <1>4, Outside, Checks, Claims, Stores, GivesBack DEF Run
<1>5. ASSUME NEW e \in Episodes, FollowUp(e) \/ FollowUpNot(e) PROVE PlaybackInv'
  <2>1. CASE FollowUpNot(e)
    BY <2>1, NoThreadMoves DEF FollowUpNot, PlaybackInv, PlaybackTypeOK
  <2> QED BY <1>5, <2>1, FollowsUp
<1>6. CASE UNCHANGED playbackVars
  BY <1>6, NoThreadMoves DEF playbackVars, PlaybackInv, PlaybackTypeOK
<1> QED BY <1>1, <1>2, <1>3, <1>4, <1>5, <1>6 DEF PlaybackNext, Environment

(* The variables keep their types: what is cached or claimed has a .strm   *)
(* file, and every thread is idle or somewhere in a request.               *)
THEOREM PlaybackTypeCorrect == PlaybackSpec => []PlaybackTypeOK
<1>1. PlaybackInv => PlaybackTypeOK
  BY DEF PlaybackInv
<1> QED BY PlaybackStart, PlaybackStep, <1>1, PTL DEF PlaybackSpec

(* Handle works on an item in one thread at a time, and gives back every   *)
(* claim: for any season, any number of threads, arrivals and attempts.    *)
THEOREM OneWorker == PlaybackSpec => []OneAtATime
<1>1. PlaybackInv => OneAtATime
  BY DEF PlaybackInv
<1> QED BY PlaybackStart, PlaybackStep, <1>1, PTL DEF PlaybackSpec

=============================================================================

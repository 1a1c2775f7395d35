------------------------------ MODULE ScanRounds ------------------------------
(***************************************************************************)
(* Scan after scan: how the marks of recent requests (prefetchRecent in    *)
(* internal/proxy/server.go), the cache and the credentials decide which   *)
(* items a scan of internal/proxy/library_scan.go requests again.          *)
(*                                                                         *)
(* One scan at a time, and within it one item at a time: what concurrent   *)
(* scans and the goroutines of a batch do is in module LibraryScan.  Marks *)
(* are kept by their age, in a unit of time of which all durations are     *)
(* multiples.                                                              *)
(***************************************************************************)
EXTENDS Naturals, FiniteSets

CONSTANTS
    Items, Latest,  (* items of the libraries, those of Items/Latest        *)
    NoItem,
    Others,         (* keys of other callers: detail pages, next episodes   *)
    LibraryTTL, RetryTTL, OtherTTL, (* how long a mark keeps a request back *)
    TrimOver,       (* with more marks, 200, the old ones are dropped ...   *)
    TrimAge,        (* ... that are older than this, 120 s                  *)
    DropOver,       (* with still more, 500, ...                            *)
    Keep,           (* ... as many of the newest are kept, 300              *)
    Horizon         (* bound: ages from here on are not told apart          *)

ASSUME LimitsAssumption ==
    /\ {LibraryTTL, RetryTTL, OtherTTL, TrimOver, TrimAge, DropOver, Keep, Horizon} \subseteq Nat
    /\ TrimAge < Horizon
    /\ \A d \in {LibraryTTL, RetryTTL, OtherTTL} : d <= Horizon
ASSUME KeepAssumption == Keep < DropOver
ASSUME ItemsAssumption == Latest \subseteq Items /\ NoItem \notin Items

(* buildPrefetchKey                                                        *)
Prefixes == {"library", "library_inc", "library_retry"}
Keys == (Prefixes \X Items) \cup Others

ASSUME KeysAssumption == IsFiniteSet(Keys) /\ (Prefixes \X Items) \cap Others = {}

TTL(k) == IF k \in Others THEN OtherTTL
          ELSE IF k[1] = "library_retry" THEN RetryTTL ELSE LibraryTTL

VARIABLES
    recent,         (* the keys with a mark                                 *)
    age,            (* of every key: how long ago it was marked last        *)
    cached,         (* items in the cache with their URL                    *)
    probed,         (* items the media server has probed                    *)
    present,        (* items that the media server has found so far         *)
    notified,       (* a notification waits out its delay                   *)
    authorized,     (* authStore has credentials that have not expired      *)
    lists,          (* the media server answers the queries of a scan       *)
    scan            (* the scan in progress                                 *)

markVars == <<recent, age>>
itemVars == <<cached, probed>>
serverVars == <<present, authorized, lists>>
vars == <<markVars, itemVars, serverVars, notified, scan>>

(* The item is being requested for the scan or, in its retry, once more.   *)
NoScan == [kind |-> "none", phase |-> "none", todo |-> {}, failed |-> {}, item |-> NoItem]

TypeOK ==
    /\ recent \subseteq Keys
    /\ age \in [Keys -> 0 .. Horizon]
    /\ cached \subseteq Items /\ probed \subseteq Items /\ present \subseteq Items
    /\ notified \in BOOLEAN /\ authorized \in BOOLEAN /\ lists \in BOOLEAN
    /\ scan \in [kind : {"none", "full", "incremental"},
                 phase : {"none", "auth", "items", "retry"},
                 todo : SUBSET Items, failed : SUBSET Items, item : Items \cup {NoItem}]

Init ==
    /\ recent = {} /\ age = [k \in Keys |-> Horizon]
    /\ present \in SUBSET Items /\ probed \in SUBSET present /\ cached = {}
    /\ authorized \in BOOLEAN       \* LoginViaEmby has succeeded
    /\ lists \in BOOLEAN /\ notified = FALSE
    /\ scan = NoScan

-----------------------------------------------------------------------------
(* shouldSkipPrefetch and markPrefetchDone.                                *)

Skip(k) == k \in recent /\ age[k] < TTL(k)

BugTrimmed(S, a) ==        \* keeps the oldest
    LET young == {k \in S : a[k] <= TrimAge} IN
    IF Cardinality(S) <= TrimOver THEN {S}
    ELSE IF Cardinality(young) <= DropOver THEN {young}
    ELSE {K \in SUBSET young : /\ Cardinality(K) = Keep
                               /\ \A x \in K, y \in young \ K : a[y] <= a[x]}

(* What may be left of the marks S.  Keys of the same age are dropped in any *)
(* order.                                                                  *)
Trimmed(S, a) ==
    LET young == {k \in S : a[k] <= TrimAge} IN
    IF Cardinality(S) <= TrimOver THEN {S}
    ELSE IF Cardinality(young) <= DropOver THEN {young}
    ELSE {K \in SUBSET young : /\ Cardinality(K) = Keep
                               /\ \A x \in K, y \in young \ K : a[x] <= a[y]}

Mark(k) == /\ age' = [age EXCEPT ![k] = 0]
           /\ recent' \in Trimmed(recent \cup {k}, age')

SameMarks == UNCHANGED markVars
SameServer == UNCHANGED <<serverVars, notified>>

(* Another caller asks for one of its keys; a skip changes nothing.        *)
Browse(k) == /\ ~Skip(k) /\ Mark(k)
             /\ SameServer /\ UNCHANGED <<itemVars, scan>>

(* A detail page that is requested for the sake of another.                *)
MarkPrefetchDone(k) == /\ age' = [age EXCEPT ![k] = 0]
                       /\ recent' = recent \cup {k}
                       /\ SameServer /\ UNCHANGED <<itemVars, scan>>

-----------------------------------------------------------------------------
(* Scans.                                                                  *)

Started(kind) == [NoScan EXCEPT !.kind = kind, !.phase = "auth"]

(* A scheduler's timer or the dashboard: while a scan runs it does nothing. *)
Begin(kind) == /\ scan.kind = "none"
               /\ scan' = Started(kind)
               /\ SameMarks /\ SameServer /\ UNCHANGED itemVars

(* A notification's delay is over.  While a scan runs it is dropped.       *)
NotifyEnd == /\ notified /\ notified' = FALSE
             /\ scan' = IF scan.kind = "none" THEN Started("full") ELSE scan
             /\ SameMarks /\ UNCHANGED <<itemVars, serverVars>>

Wanted(i) == scan.kind = "full" \/ i \in Latest

(* waitForAuth and queryViews.  Without credentials the scan gives up after *)
(* 10 min, without an answer at once.  The libraries are listed one after  *)
(* the other; todo holds what the listings to come would give now.         *)
Prepare ==
    /\ scan.phase = "auth"
    /\ scan' = IF authorized /\ lists
               THEN [scan EXCEPT !.phase = "items", !.todo = {i \in present : Wanted(i)}]
               ELSE NoScan
    /\ SameMarks /\ SameServer /\ UNCHANGED itemVars

(* queryLatestItems or queryAllItems of a library fails, or a series is not *)
(* expanded: the scan goes on without what is in it.                       *)
ListingFails ==
    /\ scan.phase = "items" /\ ~lists
    /\ \E lost \in SUBSET scan.todo \ {{}} : scan' = [scan EXCEPT !.todo = @ \ lost]
    /\ SameMarks /\ SameServer /\ UNCHANGED itemVars

Prefix == IF scan.phase = "retry" THEN "library_retry"
          ELSE IF scan.kind = "full" THEN "library" ELSE "library_inc"

(* An item that is cached, or (the first time) probed, is passed over.     *)
PassOver(i) == i \in cached \/ (scan.phase = "items" /\ i \in probed)

BugPrefetchItem(i) ==      \* a skip renews the mark
    LET k == <<Prefix, i>>
        next == [scan EXCEPT !.todo = @ \ {i}] IN
    /\ scan.item = NoItem /\ i \in scan.todo
    /\ \/ PassOver(i) /\ scan' = next /\ SameMarks
       \/ ~PassOver(i) /\ Skip(k) /\ scan' = next /\ Mark(k)
       \/ ~PassOver(i) /\ ~Skip(k) /\ Mark(k) /\ scan' = [next EXCEPT !.item = i]
    /\ SameServer /\ UNCHANGED itemVars

(* Judging an item and PrefetchItem up to its request.  The mark is set    *)
(* before the request is made, and stays whatever becomes of it.           *)
PrefetchItem(i) ==
    LET k == <<Prefix, i>>
        next == [scan EXCEPT !.todo = @ \ {i}] IN
    /\ scan.item = NoItem /\ i \in scan.todo
    /\ \/ (PassOver(i) \/ Skip(k)) /\ scan' = next /\ SameMarks
       \/ ~PassOver(i) /\ ~Skip(k) /\ Mark(k) /\ scan' = [next EXCEPT !.item = i]
    /\ SameServer /\ UNCHANGED itemVars

(* The answer, and what the playback handler makes of it; or an error.  The *)
(* media server may have probed the item, or not, in any case.             *)
Answer ==
    LET i == scan.item
        back == [scan EXCEPT !.item = NoItem] IN
    /\ i # NoItem
    /\ \/ scan' = back /\ cached' \in {cached, cached \cup {i}}
       \/ scan' = [back EXCEPT !.failed = @ \cup {i}] /\ UNCHANGED cached
    /\ probed' \in {probed, probed \cup {i}}
    /\ SameMarks /\ SameServer

(* finishScan: a full scan requests once more what has failed.  The items  *)
(* that were in a batch with them, requested again too, are in LibraryScan. *)
Finish ==
    /\ scan.phase \in {"items", "retry"} /\ scan.item = NoItem /\ scan.todo = {}
    /\ scan' = IF scan.kind = "full" /\ scan.phase = "items" /\ scan.failed # {}
               THEN [scan EXCEPT !.phase = "retry", !.todo = scan.failed, !.failed = {}]
               ELSE NoScan
    /\ SameMarks /\ SameServer /\ UNCHANGED itemVars

ScanStep == Prepare \/ ListingFails \/ (\E i \in Items : PrefetchItem(i)) \/ Answer \/ Finish

-----------------------------------------------------------------------------
(* CaptureFromRequest; six hours without a request of a user.              *)
Authorize == /\ authorized' \in BOOLEAN
             /\ SameMarks /\ UNCHANGED <<itemVars, present, lists, notified, scan>>

(* The media server stops or begins to answer.                             *)
Reach == /\ lists' = ~lists
         /\ SameMarks /\ UNCHANGED <<itemVars, present, authorized, notified, scan>>

(* The media server finds an item, and whoever has made it sends a         *)
(* notification, or not.  The scan that runs may have listed its library.  *)
Appear(i) ==
    /\ i \notin present /\ present' = present \cup {i}
    /\ notified' \in {notified, TRUE}
    /\ \/ UNCHANGED scan
       \/ /\ scan.phase = "items" /\ Wanted(i)
          /\ scan' = [scan EXCEPT !.todo = @ \cup {i}]
    /\ SameMarks /\ UNCHANGED <<itemVars, authorized, lists>>

(* A cached entry expires or is evicted.                                   *)
Lose(i) == /\ cached' = cached \ {i}
           /\ SameMarks /\ SameServer /\ UNCHANGED <<probed, scan>>

Tick == /\ age' = [k \in Keys |-> IF age[k] < Horizon THEN age[k] + 1 ELSE age[k]]
        /\ SameServer /\ UNCHANGED <<recent, itemVars, scan>>

Next == \/ \E k \in Others : Browse(k) \/ MarkPrefetchDone(k)
        \/ \E kind \in {"full", "incremental"} : Begin(kind)
        \/ NotifyEnd
        \/ ScanStep
        \/ Authorize \/ Reach
        \/ \E i \in Items : Lose(i) \/ Appear(i)
        \/ Tick

Spec == Init /\ [][Next]_vars

(* The ticker of the incremental scans; a scan's requests have timeouts.   *)
Fairness == /\ WF_vars(Begin("incremental"))
            /\ WF_vars(ScanStep)
            /\ WF_vars(Tick)
FairSpec == Spec /\ Fairness

-----------------------------------------------------------------------------
(* How many other keys have been marked since, or when, k was.             *)
Since(k) == {j \in Keys \ {k} : age[j] <= age[k]}

(* A mark is forgotten only when it is older than TrimAge, or as many keys *)
(* as are kept have been marked since: so no caller repeats a request within *)
(* its time to live before that.  Two ways of trimming, callers that never *)
(* trim, and marks set again while they count lead to what is left.        *)
ForgottenOnlyOld ==
    \A k \in Keys \ recent : age[k] > TrimAge \/ Cardinality(Since(k)) >= Keep

(* A recent item that has no URL and is not probed is requested again and  *)
(* again, as long as there are credentials and the media server answers the *)
(* queries of the scans: the marks of scans that come more often than a mark *)
(* ends, the trimming, the mark that a failed request has left behind keep *)
(* it back for a while only, and so do listings that failed before and a   *)
(* notification that was dropped because a scan ran which had passed its   *)
(* library.                                                                *)
TriedAgain == <>[](authorized /\ lists) =>
    \A i \in Latest : <>(i \in present) => []<>(i \in cached \cup probed \/ scan.item = i)

=============================================================================

-------------------------------- MODULE Cache --------------------------------
(***************************************************************************)
(* internal/cache/cache.go: media sources by id, an index of them by item  *)
(* id, stream URLs by media source id, and one LRU list over both kinds of *)
(* entry.  Every method holds the mutex from beginning to end, so each is  *)
(* one action; what can go wrong is that a long sequence of calls brings   *)
(* the three maps, the list and the limit apart.                           *)
(***************************************************************************)
EXTENDS Integers, Sequences, FiniteSets, SequencesExt, LRUList

CONSTANTS
    Ids,        (* MediaSource ids                                          *)
    ItemIds,    (* item ids; a source belongs to the item it was read for   *)
    NoItem,     (* the empty item id                                        *)
    Urls, NoUrl,
    Ttls,       (* lifetimes: the setting and what URL signatures ask for   *)
    Limits,     (* values of the setting max_cache_items; 0 is ignored       *)
    MaxNow      (* the bound of the clock                                   *)

ASSUME TtlsAssumption   == Ttls # {} /\ Ttls \subseteq Nat \ {0}
ASSUME LimitsAssumption == Limits \subseteq Nat /\ Limits \ {0} # {}
ASSUME ClockAssumption  == MaxNow \in Nat

VARIABLES
    c,          (* the maps and the list, see Empty                         *)
    ttl, maxItems,
    now,
    ret         (* the last call and what it returned                       *)

vars == <<c, ttl, maxItems, now, ret>>

(* A node of the LRU list: the id of a source, or of a stream URL (whose     *)
(* list value carries streamPrefix).                                        *)
ItemKey(id)   == <<"item", id>>
StreamKey(id) == <<"stream", id>>

Empty == [items |-> << >>, itemIndex |-> << >>, streamURLs |-> << >>, lruList |-> << >>]

ItemEntry   == [item: ItemIds \cup {NoItem}, expire: Nat]
StreamEntry == [url: Urls, expire: Nat, created: Nat]
LruKeys     == {ItemKey(id) : id \in Ids} \cup {StreamKey(id) : id \in Ids}

(* Maps with some of the members of S as keys, and the shape of the state.   *)
IsMap(f, S, T) == DOMAIN f \subseteq S /\ f \in [DOMAIN f -> T]
HasFields(s) == s = [items |-> s.items, itemIndex |-> s.itemIndex,
                     streamURLs |-> s.streamURLs, lruList |-> s.lruList]
IsCache(s) ==
    /\ HasFields(s)
    /\ IsMap(s.items, Ids, ItemEntry)
    /\ IsMap(s.itemIndex, ItemIds, Ids)
    /\ IsMap(s.streamURLs, Ids, StreamEntry)
    /\ s.lruList \in Seq(LruKeys)

(* The keys of all entries, and whether an entry has expired.               *)
Entries(s) == {ItemKey(id) : id \in DOMAIN s.items} \cup
           {StreamKey(id) : id \in DOMAIN s.streamURLs}
Size(s) == Cardinality(DOMAIN s.items) + Cardinality(DOMAIN s.streamURLs)
Expired(e) == now > e.expire

(* Without and with some of the keys.                                       *)
Without(f, S)  == Restrict(f, DOMAIN f \ S)
With(f, x, e)  == [y \in DOMAIN f \cup {x} |-> IF y = x THEN e ELSE f[y]]

ItemsIn(s, K)   == {id \in DOMAIN s.items : ItemKey(id) \in K}
StreamsIn(s, K) == {id \in DOMAIN s.streamURLs : StreamKey(id) \in K}

(* s without the entries of K, l being what is left of the list: a source    *)
(* takes the index entry of its item with it.                               *)
Dropped(s, K, l) ==
    [items      |-> Without(s.items, ItemsIn(s, K)),
     itemIndex  |-> Without(s.itemIndex, {s.items[id].item : id \in ItemsIn(s, K)}),
     streamURLs |-> Without(s.streamURLs, StreamsIn(s, K)),
     lruList    |-> l]

BugRemoveItem(s, k) ==     \* leaves the node of a stream URL in the list
    IF k \in Entries(s)
    THEN Dropped(s, {k}, IF k[1] = "stream" THEN s.lruList ELSE Unlink(s.lruList, k))
    ELSE s

(* removeItemLocked, of either kind.                                         *)
RemoveItem(s, k) ==
    IF k \in Entries(s) THEN Dropped(s, {k}, Unlink(s.lruList, k)) ELSE s

BugEvictOldest(s) ==       \* evicts from the wrong end
    IF s.lruList = << >> THEN s ELSE RemoveItem(s, Last(s.lruList))

EvictOldest(s) ==
    IF s.lruList = << >> THEN s ELSE RemoveItem(s, Head(s.lruList))

(* evictOldest again and again until n entries are left.                    *)
EvictTo(s, n) ==
    LET l == s.lruList
        d == Len(l) - n
    IN IF d <= 0 THEN s
       ELSE Dropped(s, ToSet(SubSeq(l, 1, d)), SubSeq(l, d + 1, Len(l)))

Reply(op, hit, url, fresh) ==
    [op |-> op, hit |-> hit, url |-> url, fresh |-> fresh]
Done(op)     == ret' = Reply(op, FALSE, NoUrl, FALSE)
Lookup(hit)  == ret' = Reply("lookup", hit, NoUrl, FALSE)
SameSettings == UNCHANGED <<ttl, maxItems, now>>

TypeOK ==
    /\ IsCache(c)
    /\ ttl \in Ttls /\ maxItems \in Limits \ {0} /\ now \in 0..MaxNow

Init ==
    /\ c = Empty
    /\ ttl \in Ttls /\ maxItems \in Limits \ {0}
    /\ now = 0
    /\ ret = Reply("new", FALSE, NoUrl, FALSE)

-----------------------------------------------------------------------------
(* Set: a source that is there already only becomes the most recent (and    *)
(* keeps its contents and its deadline); the limit counts sources only.     *)
Set(id, item) ==
    LET known   == id \in DOMAIN c.items
        stored  == IF known THEN c.items
                   ELSE With(c.items, id, [item |-> item, expire |-> now + ttl])
        indexed == IF item = NoItem THEN c.itemIndex ELSE With(c.itemIndex, item, id)
        s == [c EXCEPT !.items = stored, !.itemIndex = indexed,
                       !.lruList = Touch(@, ItemKey(id))]
    IN /\ c' = IF Cardinality(DOMAIN s.items) > maxItems THEN EvictOldest(s) ELSE s
       /\ Done("insert")
       /\ SameSettings

(* What Get and GetByItemID do with a source they have found in the map.    *)
Use(id) ==
    \/ /\ Expired(c.items[id])
       /\ c' = RemoveItem(c, ItemKey(id))
       /\ Lookup(FALSE)
    \/ /\ ~Expired(c.items[id])
       /\ c' = [c EXCEPT !.lruList = Touch(@, ItemKey(id))]
       /\ Lookup(TRUE)

Get(id) ==
    /\ \/ id \notin DOMAIN c.items /\ Lookup(FALSE) /\ UNCHANGED c
       \/ id \in DOMAIN c.items /\ Use(id)
    /\ SameSettings

(* A lookup by item follows the index, which may lead to a source that is   *)
(* gone; such an index entry is dropped.                                    *)
GetByItemID(item) ==
    /\ \/ item \notin DOMAIN c.itemIndex /\ Lookup(FALSE) /\ UNCHANGED c
       \/ /\ item \in DOMAIN c.itemIndex
          /\ c.itemIndex[item] \notin DOMAIN c.items
          /\ c' = [c EXCEPT !.itemIndex = Without(@, {item})]
          /\ Lookup(FALSE)
       \/ /\ item \in DOMAIN c.itemIndex
          /\ c.itemIndex[item] \in DOMAIN c.items
          /\ Use(c.itemIndex[item])
    /\ SameSettings

Delete(id) ==
    /\ c' = RemoveItem(c, ItemKey(id))
    /\ Done("delete")
    /\ SameSettings

(* SetStreamURLWithTTL: contents and deadline are replaced; the limit        *)
(* counts the entries of both kinds.                                        *)
SetStreamURL(id, url, t) ==
    LET e == [url |-> url, created |-> now, expire |-> now + t]
        s == [c EXCEPT !.streamURLs = With(@, id, e), !.lruList = Touch(@, StreamKey(id))]
    IN /\ c' = IF Size(s) > maxItems THEN EvictOldest(s) ELSE s
       /\ Done("insert")
       /\ SameSettings

BugStale(e) == 10 * (e.expire - now) < ttl    \* by the global setting

(* An entry with less than a tenth of its life left is returned as stale.   *)
Stale(e) == e.expire > e.created /\ 10 * (e.expire - now) < e.expire - e.created

GetStreamURL(id) ==
    /\ \/ id \notin DOMAIN c.streamURLs /\ Done("find") /\ UNCHANGED c
       \/ /\ id \in DOMAIN c.streamURLs /\ Expired(c.streamURLs[id])
          /\ c' = RemoveItem(c, StreamKey(id))
          /\ Done("find")
       \/ /\ id \in DOMAIN c.streamURLs /\ ~Expired(c.streamURLs[id])
          /\ c' = [c EXCEPT !.lruList = Touch(@, StreamKey(id))]
          /\ ret' = LET e == c.streamURLs[id] IN Reply("find", TRUE, e.url, ~Stale(e))
    /\ SameSettings

DeleteStreamURL(id) ==
    /\ c' = RemoveItem(c, StreamKey(id))
    /\ Done("delete")
    /\ SameSettings

Clear ==
    /\ c' = Empty
    /\ Done("delete")
    /\ SameSettings

BugOverdue(s) ==       \* the comparison with the deadline the wrong way round
    {ItemKey(id) : id \in {x \in DOMAIN s.items : ~Expired(s.items[x])}} \cup
    {StreamKey(id) : id \in {x \in DOMAIN s.streamURLs : ~Expired(s.streamURLs[x])}}

Overdue(s) ==
    {ItemKey(id) : id \in {x \in DOMAIN s.items : Expired(s.items[x])}} \cup
    {StreamKey(id) : id \in {x \in DOMAIN s.streamURLs : Expired(s.streamURLs[x])}}

(* The cleaner's pass over both maps.                                       *)
Cleanup ==
    /\ \E l \in Rest(c.lruList, Overdue(c)) : c' = Dropped(c, Overdue(c), l)
    /\ Done("cleanup")
    /\ SameSettings

(* UpdateTTL as far as the entries go: only later insertions are affected.  *)
UpdateTTL(t) ==
    /\ t # ttl
    /\ ttl' = t
    /\ Done("setting")
    /\ UNCHANGED <<c, maxItems, now>>

BugUpdateMaxItems(n) ==    \* takes 0 for a limit
    /\ n # maxItems
    /\ maxItems' = n
    /\ c' = IF n < maxItems /\ Cardinality(DOMAIN c.items) > n THEN EvictTo(c, n) ELSE c
    /\ Done("setting")
    /\ UNCHANGED <<ttl, now>>

(* A lower limit evicts down to it, provided the sources alone exceed it.   *)
UpdateMaxItems(n) ==
    /\ n > 0 /\ n # maxItems
    /\ maxItems' = n
    /\ c' = IF n < maxItems /\ Cardinality(DOMAIN c.items) > n THEN EvictTo(c, n) ELSE c
    /\ Done("setting")
    /\ UNCHANGED <<ttl, now>>

Tick ==
    /\ now < MaxNow
    /\ now' = now + 1
    /\ Done("tick")
    /\ UNCHANGED <<c, ttl, maxItems>>

Next ==
    \/ \E id \in Ids : \/ \E item \in ItemIds \cup {NoItem} : Set(id, item)
                       \/ \E url \in Urls, t \in Ttls : SetStreamURL(id, url, t)
                       \/ Get(id) \/ Delete(id)
                       \/ GetStreamURL(id) \/ DeleteStreamURL(id)
    \/ \E item \in ItemIds : GetByItemID(item)
    \/ Clear
    \/ Cleanup
    \/ \E t \in Ttls : UpdateTTL(t)
    \/ \E n \in Limits : UpdateMaxItems(n)
    \/ Tick

Spec == Init /\ [][Next]_vars

-----------------------------------------------------------------------------
(* Every entry has one node in the LRU list and every node an entry: an     *)
(* entry without a node would never be evicted, and a node without an entry *)
(* would make UpdateMaxItems evict for ever (cache.go:278-315, 529-533).    *)
LRUMatchesMaps ==
    /\ ToSet(c.lruList) = Entries(c)
    /\ IsInjective(c.lruList)

(* A lookup or a cleaning pass removes nothing that has not expired and     *)
(* changes no entry, wherever the shared list and index lead it             *)
(* (cache.go:179-203, 233-267, 360-405, 437-457).                           *)
KeepsLive ==
    ret'.op \in {"lookup", "find", "cleanup"} =>
        /\ \A id \in DOMAIN c.items :
              ~Expired(c.items[id]) => id \in DOMAIN c'.items
        /\ \A id \in DOMAIN c.streamURLs :
              ~Expired(c.streamURLs[id]) => id \in DOMAIN c'.streamURLs
        /\ \A id \in DOMAIN c'.items :
              id \in DOMAIN c.items /\ c'.items[id] = c.items[id]
        /\ \A id \in DOMAIN c'.streamURLs :
              id \in DOMAIN c.streamURLs /\ c'.streamURLs[id] = c.streamURLs[id]
ReadsKeepLive == [][KeepsLive]_vars

(* An insertion costs at most one entry, the one of the others that was     *)
(* used longest ago, of whichever kind, and never the entry just written    *)
(* (cache.go:168-170, 350-352).                                             *)
KeepsNew ==
    ret'.op = "insert" =>
        LET new == Last(c'.lruList) IN
        /\ new \in Entries(c') /\ Entries(c') \subseteq Entries(c) \cup {new}
        /\ \A k \in Entries(c) \ Entries(c') : k = Head(Unlink(c.lruList, new))
InsertKeepsNew == [][KeepsNew]_vars

(* The stream URLs are a map with deadlines in the sense of TTLMap.         *)
URLs == INSTANCE TTLMap WITH
    Keys  <- Ids,
    map   <- c.streamURLs,
    clock <- now,
    reply <- [hit |-> ret.op = "find" /\ ret.hit, url |-> ret.url, fresh |-> ret.fresh]

StreamsImplementTTLMap == URLs!Spec

=============================================================================

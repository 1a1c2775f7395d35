----------------------------- MODULE CacheProofs -----------------------------
(***************************************************************************)
(* Proofs about the cache of internal/cache/cache.go: its maps and list    *)
(* for any ids, lifetimes and limits (Cache), that its stream URLs are     *)
(* what TTLMap promises, and its cleaner for any number of changes of the  *)
(* lifetime (CacheCleaner).                                                *)
(***************************************************************************)
EXTENDS Cache, CacheCleaner, LRUListProofs, TLAPS

-----------------------------------------------------------------------------
(* Maps.                                                                   *)
LEMMA WithoutMap ==
    ASSUME NEW S, NEW T, NEW f, IsMap(f, S, T), NEW D
    PROVE  IsMap(Without(f, D), S, T)
BY DEF IsMap, Without, Restrict

LEMMA WithoutKeys ==
    ASSUME NEW f, NEW D
    PROVE  DOMAIN Without(f, D) = DOMAIN f \ D
BY DEF Without, Restrict

LEMMA WithoutValues ==
    ASSUME NEW f, NEW D, NEW x \in DOMAIN f \ D
    PROVE  Without(f, D)[x] = f[x]
BY DEF Without, Restrict

LEMMA WithoutNothing ==
    ASSUME NEW S, NEW T, NEW f, IsMap(f, S, T), NEW D, D \cap DOMAIN f = {}
    PROVE  Without(f, D) = f
BY DEF IsMap, Without, Restrict

LEMMA WithMap ==
    ASSUME NEW S, NEW T, NEW f, IsMap(f, S, T), NEW x \in S, NEW e \in T
    PROVE  IsMap(With(f, x, e), S, T)
BY DEF With, IsMap

LEMMA WithKeys ==
    ASSUME NEW f, NEW x, NEW e
    PROVE  DOMAIN With(f, x, e) = DOMAIN f \cup {x}
BY DEF With

LEMMA WithValues ==
    ASSUME NEW f, NEW x, NEW e
    PROVE  /\ With(f, x, e)[x] = e
           /\ \A y \in DOMAIN f \ {x} : With(f, x, e)[y] = f[y]
BY DEF With

(* What EXCEPT does to the fields.                                         *)
LEMMA ListChanged ==
    ASSUME NEW s, HasFields(s), NEW l, NEW t, t = [s EXCEPT !.lruList = l]
    PROVE  /\ HasFields(t) /\ t.lruList = l
           /\ t.items = s.items /\ t.itemIndex = s.itemIndex /\ t.streamURLs = s.streamURLs
<1>1. t = [items |-> s.items, itemIndex |-> s.itemIndex,
           streamURLs |-> s.streamURLs, lruList |-> l]
  BY DEF HasFields
<1>2. QED
  BY <1>1 DEF HasFields

LEMMA IndexChanged ==
    ASSUME NEW s, HasFields(s), NEW a, NEW t, t = [s EXCEPT !.itemIndex = a]
    PROVE  /\ HasFields(t) /\ t.itemIndex = a
           /\ t.items = s.items /\ t.lruList = s.lruList /\ t.streamURLs = s.streamURLs
<1>1. t = [items |-> s.items, itemIndex |-> a,
           streamURLs |-> s.streamURLs, lruList |-> s.lruList]
  BY DEF HasFields
<1>2. QED
  BY <1>1 DEF HasFields

-----------------------------------------------------------------------------
(* The list holds the keys of the entries and each of them once; an entry's *)
(* life is not over when it begins.                                        *)
Matched(s) == ToSet(s.lruList) = Entries(s) /\ IsInjective(s.lruList)
Lives(s)   == \A id \in DOMAIN s.streamURLs :
                 s.streamURLs[id].created < s.streamURLs[id].expire
Sound(s)   == IsCache(s) /\ Matched(s) /\ Lives(s)

CacheInv == TypeOK /\ Sound(c)

LEMMA Keys ==
    ASSUME NEW x, NEW y
    PROVE  /\ ItemKey(x) # StreamKey(y)
           /\ ItemKey(x) = ItemKey(y) => x = y
           /\ StreamKey(x) = StreamKey(y) => x = y
BY DEF ItemKey, StreamKey

LEMMA EntryKeys ==
    ASSUME NEW s, NEW x
    PROVE  /\ ItemKey(x) \in Entries(s) <=> x \in DOMAIN s.items
           /\ StreamKey(x) \in Entries(s) <=> x \in DOMAIN s.streamURLs
BY Keys DEF Entries

LEMMA EntriesAreKeys ==
    ASSUME NEW s, IsCache(s)
    PROVE  Entries(s) \subseteq LruKeys
BY DEF Entries, LruKeys, IsCache, IsMap

(* What is left when entries go: the others, unchanged.                     *)
LEMMA DroppedFields ==
    ASSUME NEW s, IsCache(s), NEW K, NEW l \in Seq(LruKeys), NEW t, t = Dropped(s, K, l)
    PROVE  /\ IsCache(t) /\ t.lruList = l
           /\ t.items = Without(s.items, ItemsIn(s, K))
           /\ t.streamURLs = Without(s.streamURLs, StreamsIn(s, K))
<1> DEFINE idx  == {s.items[id].item : id \in ItemsIn(s, K)}
<1>1. t = [items |-> Without(s.items, ItemsIn(s, K)),
           itemIndex |-> Without(s.itemIndex, idx),
           streamURLs |-> Without(s.streamURLs, StreamsIn(s, K)), lruList |-> l]
  BY DEF Dropped
<1> HIDE DEF idx
<1>2. /\ t.items = Without(s.items, ItemsIn(s, K))
      /\ t.itemIndex = Without(s.itemIndex, idx)
      /\ t.streamURLs = Without(s.streamURLs, StreamsIn(s, K)) /\ t.lruList = l
  BY <1>1
<1>3. HasFields(t)
  BY <1>1 DEF HasFields
<1>4. IsMap(t.items, Ids, ItemEntry)
  BY <1>2, WithoutMap DEF IsCache
<1>5. IsMap(t.itemIndex, ItemIds, Ids)
  BY <1>2, WithoutMap DEF IsCache
<1>6. IsMap(t.streamURLs, Ids, StreamEntry)
  BY <1>2, WithoutMap DEF IsCache
<1>7. IsCache(t)
  BY <1>2, <1>3, <1>4, <1>5, <1>6 DEF IsCache
<1>8. QED
  BY <1>2, <1>7

LEMMA DroppedKeeps ==
    ASSUME NEW s, IsCache(s), NEW K, NEW l \in Seq(LruKeys), NEW t, t = Dropped(s, K, l)
    PROVE  /\ DOMAIN t.items = DOMAIN s.items \ ItemsIn(s, K)
           /\ DOMAIN t.streamURLs = DOMAIN s.streamURLs \ StreamsIn(s, K)
           /\ \A id \in DOMAIN t.items : t.items[id] = s.items[id]
           /\ \A id \in DOMAIN t.streamURLs : t.streamURLs[id] = s.streamURLs[id]
<1>1. /\ t.items = Without(s.items, ItemsIn(s, K))
      /\ t.streamURLs = Without(s.streamURLs, StreamsIn(s, K))
  BY DroppedFields
<1>2. DOMAIN t.items = DOMAIN s.items \ ItemsIn(s, K)
  BY <1>1, WithoutKeys
<1>3. DOMAIN t.streamURLs = DOMAIN s.streamURLs \ StreamsIn(s, K)
  BY <1>1, WithoutKeys
<1>4. \A id \in DOMAIN t.items : t.items[id] = s.items[id]
  BY <1>1, <1>2, WithoutValues
<1>5. \A id \in DOMAIN t.streamURLs : t.streamURLs[id] = s.streamURLs[id]
  BY <1>1, <1>3, WithoutValues
<1>6. QED
  BY <1>2, <1>3, <1>4, <1>5

LEMMA DroppedEntries ==
    ASSUME NEW s, IsCache(s), NEW K, NEW l \in Seq(LruKeys), NEW t, t = Dropped(s, K, l)
    PROVE  Entries(t) = Entries(s) \ K
<1>1. DOMAIN t.items = DOMAIN s.items \ ItemsIn(s, K)
  BY DroppedKeeps
<1>2. DOMAIN t.streamURLs = DOMAIN s.streamURLs \ StreamsIn(s, K)
  BY DroppedKeeps
<1>3. \A id : id \in DOMAIN t.items <=> id \in DOMAIN s.items /\ ItemKey(id) \notin K
  BY <1>1 DEF ItemsIn
<1>4. \A id : id \in DOMAIN t.streamURLs
                <=> id \in DOMAIN s.streamURLs /\ StreamKey(id) \notin K
  BY <1>2 DEF StreamsIn
<1>5. \A k : k \in Entries(t) <=> k \in Entries(s) /\ k \notin K
  BY <1>3, <1>4 DEF Entries
<1>6. QED
  BY <1>5

LEMMA DroppedSound ==
    ASSUME NEW s, Sound(s), NEW K, NEW l \in Seq(LruKeys),
           ToSet(l) = Entries(s) \ K, IsInjective(l)
    PROVE  Sound(Dropped(s, K, l))
<1>1. IsCache(s) /\ Lives(s)
  BY DEF Sound
<1>2. PICK t : t = Dropped(s, K, l)
  OBVIOUS
<1>3. IsCache(t) /\ t.lruList = l
  BY <1>1, <1>2, DroppedFields
<1>4. Entries(t) = Entries(s) \ K
  BY <1>1, <1>2, DroppedEntries
<1>5. Lives(t)
  BY <1>1, <1>2, DroppedKeeps DEF Lives
<1>6. Matched(t)
  BY <1>3, <1>4 DEF Matched
<1>7. QED
  BY <1>2, <1>3, <1>5, <1>6 DEF Sound

LEMMA RemoveItemSound ==
    ASSUME NEW s, Sound(s), NEW k, NEW t, t = RemoveItem(s, k)
    PROVE  /\ Sound(t) /\ Entries(t) = Entries(s) \ {k}
           /\ t.lruList = Unlink(s.lruList, k)
<1>1. /\ s.lruList \in Seq(LruKeys) /\ IsInjective(s.lruList) /\ IsCache(s)
      /\ ToSet(s.lruList) = Entries(s)
  BY DEF Sound, IsCache, Matched
<1>2. PICK u : u = Unlink(s.lruList, k)
  OBVIOUS
<1>3. u \in Seq(LruKeys) /\ IsInjective(u) /\ ToSet(u) = Entries(s) \ {k}
  BY <1>1, <1>2, Unlinked
<1>4. CASE k \in Entries(s)
  <2>1. t = Dropped(s, {k}, u)
    BY <1>2, <1>4 DEF RemoveItem
  <2>2. Sound(t)
    BY <1>3, <2>1, DroppedSound
  <2>3. t.lruList = u
    BY <1>1, <1>3, <2>1, DroppedFields
  <2>4. Entries(t) = Entries(s) \ {k}
    BY <1>1, <1>3, <2>1, DroppedEntries
  <2>5. QED
    BY <1>2, <2>2, <2>3, <2>4
<1>5. CASE k \notin Entries(s)
  <2>1. t = s
    BY <1>5 DEF RemoveItem
  <2>2. Unlink(s.lruList, k) = s.lruList
    BY <1>1, <1>5 DEF Unlink
  <2>3. QED
    BY <1>5, <2>1, <2>2
<1>6. QED
  BY <1>4, <1>5

(* A removal touches the entry of its key alone.                            *)
ItemsOf(s, k)   == ItemsIn(s, {k})
StreamsOf(s, k) == StreamsIn(s, {k})

LEMMA RemoveItemKeeps ==
    ASSUME NEW s, Sound(s), NEW k, NEW t, t = RemoveItem(s, k)
    PROVE  /\ DOMAIN t.items = DOMAIN s.items \ ItemsOf(s, k)
           /\ DOMAIN t.streamURLs = DOMAIN s.streamURLs \ StreamsOf(s, k)
           /\ \A id \in DOMAIN t.items : t.items[id] = s.items[id]
           /\ \A id \in DOMAIN t.streamURLs : t.streamURLs[id] = s.streamURLs[id]
           /\ t.streamURLs = Without(s.streamURLs, StreamsOf(s, k))
<1>1. IsCache(s) /\ s.lruList \in Seq(LruKeys) /\ IsInjective(s.lruList)
  BY DEF Sound, IsCache, Matched
<1>2. CASE k \in Entries(s)
  <2>1. PICK u \in Seq(LruKeys) : t = Dropped(s, {k}, u)
    BY <1>1, <1>2, Unlinked DEF RemoveItem
  <2>2. QED
    BY <1>1, <2>1, DroppedKeeps, DroppedFields DEF ItemsOf, StreamsOf
<1>3. CASE k \notin Entries(s)
  <2>1. t = s
    BY <1>3 DEF RemoveItem
  <2>2. ItemsOf(s, k) = {} /\ StreamsOf(s, k) = {}
    BY <1>3 DEF ItemsOf, StreamsOf, ItemsIn, StreamsIn, Entries
  <2>3. IsMap(s.streamURLs, Ids, StreamEntry)
    BY <1>1 DEF IsCache
  <2>4. Without(s.streamURLs, {}) = s.streamURLs
    BY <2>3, WithoutNothing
  <2>5. QED
    BY <2>1, <2>2, <2>4
<1>4. QED
  BY <1>2, <1>3

-----------------------------------------------------------------------------
(* Entries that are used or written: their nodes go to the end of the list. *)
LEMMA TouchedKeys ==
    ASSUME NEW s, Sound(s), NEW k \in LruKeys, NEW l, l = Touch(s.lruList, k)
    PROVE  /\ l \in Seq(LruKeys) /\ IsInjective(l) /\ ToSet(l) = Entries(s) \cup {k}
           /\ l # << >> /\ Last(l) = k
<1>1. s.lruList \in Seq(LruKeys) /\ IsInjective(s.lruList) /\ ToSet(s.lruList) = Entries(s)
  BY DEF Sound, IsCache, Matched
<1>2. PICK m : m = s.lruList
  OBVIOUS
<1>3. m \in Seq(LruKeys) /\ IsInjective(m) /\ l = Touch(m, k)
  BY <1>1, <1>2
<1>4. /\ Touch(m, k) \in Seq(LruKeys) /\ IsInjective(Touch(m, k)) /\ Touch(m, k) # << >>
      /\ Last(Touch(m, k)) = k
  BY <1>3, Touched
<1>5. ToSet(Touch(m, k)) = ToSet(m) \cup {k}
  BY <1>3, TouchedSet
<1>6. QED
  BY <1>1, <1>2, <1>3, <1>4, <1>5

LEMMA UsedSound ==
    ASSUME NEW s, Sound(s), NEW k \in Entries(s), NEW t,
           t = [s EXCEPT !.lruList = Touch(s.lruList, k)]
    PROVE  /\ Sound(t) /\ Entries(t) = Entries(s)
           /\ t.items = s.items /\ t.streamURLs = s.streamURLs
<1>1. IsCache(s) /\ HasFields(s) /\ k \in LruKeys /\ Lives(s)
  BY EntriesAreKeys DEF Sound, IsCache
<1>2. /\ HasFields(t) /\ t.lruList = Touch(s.lruList, k)
      /\ t.items = s.items /\ t.itemIndex = s.itemIndex /\ t.streamURLs = s.streamURLs
  BY <1>1, ListChanged
<1>3. t.lruList \in Seq(LruKeys) /\ IsInjective(t.lruList) /\ ToSet(t.lruList) = Entries(s)
  <2>1. PICK l : l = Touch(s.lruList, k)
    OBVIOUS
  <2>2. l \in Seq(LruKeys) /\ IsInjective(l) /\ ToSet(l) = Entries(s) \cup {k}
    BY <1>1, <2>1, TouchedKeys
  <2>3. QED
    BY <1>2, <2>1, <2>2
<1>4. IsCache(t)
  BY <1>1, <1>2, <1>3 DEF IsCache
<1>5. Entries(t) = Entries(s)
  BY <1>2 DEF Entries
<1>6. Matched(t)
  BY <1>3, <1>5 DEF Matched
<1>7. Lives(t)
  BY <1>1, <1>2 DEF Lives
<1>8. QED
  BY <1>2, <1>4, <1>5, <1>6, <1>7 DEF Sound

(* What an insertion has done before it evicts anything.                    *)
Placed(s, t, k) ==
    /\ Sound(t) /\ Entries(t) = Entries(s) \cup {k}
    /\ t.lruList = Touch(s.lruList, k)

LEMMA PlacedItem ==
    ASSUME CacheInv, NEW id \in Ids, NEW item \in ItemIds \cup {NoItem},
           NEW stored, NEW indexed, NEW t, HasFields(t),
           stored = IF id \in DOMAIN c.items THEN c.items
                    ELSE With(c.items, id, [item |-> item, expire |-> now + ttl]),
           indexed = IF item = NoItem THEN c.itemIndex ELSE With(c.itemIndex, item, id),
           t.items = stored, t.itemIndex = indexed, t.streamURLs = c.streamURLs,
           t.lruList = Touch(c.lruList, ItemKey(id))
    PROVE  Placed(c, t, ItemKey(id))
<1>1. IsCache(c) /\ Lives(c) /\ Sound(c) /\ ItemKey(id) \in LruKeys
  BY DEF CacheInv, Sound, LruKeys
<1>2. /\ t.lruList \in Seq(LruKeys) /\ IsInjective(t.lruList)
      /\ ToSet(t.lruList) = Entries(c) \cup {ItemKey(id)}
  BY <1>1, TouchedKeys
<1>3. PICK e : e = [item |-> item, expire |-> now + ttl]
  OBVIOUS
<1>4. e \in ItemEntry
  BY <1>3, TtlsAssumption, ClockAssumption DEF ItemEntry, CacheInv, TypeOK
<1>5. IsMap(t.items, Ids, ItemEntry) /\ DOMAIN t.items = DOMAIN c.items \cup {id}
  <2>1. CASE id \in DOMAIN c.items
    BY <1>1, <2>1 DEF IsCache
  <2>2. CASE id \notin DOMAIN c.items
    <3>1. t.items = With(c.items, id, e) /\ IsMap(c.items, Ids, ItemEntry)
      BY <1>1, <1>3, <2>2 DEF IsCache
    <3>2. IsMap(With(c.items, id, e), Ids, ItemEntry)
      BY <1>4, <3>1, WithMap
    <3>3. DOMAIN With(c.items, id, e) = DOMAIN c.items \cup {id}
      BY WithKeys
    <3>4. QED
      BY <3>1, <3>2, <3>3
  <2>3. QED
    BY <2>1, <2>2
<1>6. IsMap(t.itemIndex, ItemIds, Ids)
  <2>1. CASE item = NoItem
    BY <1>1, <2>1 DEF IsCache
  <2>2. CASE item # NoItem
    <3>1. t.itemIndex = With(c.itemIndex, item, id) /\ IsMap(c.itemIndex, ItemIds, Ids)
      BY <1>1, <2>2 DEF IsCache
    <3>2. QED
      BY <2>2, <3>1, WithMap
  <2>3. QED
    BY <2>1, <2>2
<1>7. IsCache(t)
  BY <1>1, <1>2, <1>5, <1>6 DEF IsCache
<1>8. Entries(t) = Entries(c) \cup {ItemKey(id)}
  <2>1. \A x : x \in Entries(t) <=> x \in Entries(c) \/ x = ItemKey(id)
    BY <1>5 DEF Entries
  <2>2. QED
    BY <2>1
<1>9. Matched(t) /\ Lives(t)
  BY <1>1, <1>2, <1>8 DEF Matched, Lives
<1>10. QED
  BY <1>7, <1>8, <1>9 DEF Sound, Placed

LEMMA PlacedStream ==
    ASSUME CacheInv, NEW id \in Ids, NEW e \in StreamEntry, e.created < e.expire,
           NEW t, HasFields(t), t.items = c.items, t.itemIndex = c.itemIndex,
           t.streamURLs = With(c.streamURLs, id, e),
           t.lruList = Touch(c.lruList, StreamKey(id))
    PROVE  Placed(c, t, StreamKey(id))
<1>1. IsCache(c) /\ Lives(c) /\ Sound(c) /\ StreamKey(id) \in LruKeys
  BY DEF CacheInv, Sound, LruKeys
<1>2. /\ t.lruList \in Seq(LruKeys) /\ IsInjective(t.lruList)
      /\ ToSet(t.lruList) = Entries(c) \cup {StreamKey(id)}
  BY <1>1, TouchedKeys
<1>3. IsMap(t.streamURLs, Ids, StreamEntry)
  <2>1. IsMap(c.streamURLs, Ids, StreamEntry)
    BY <1>1 DEF IsCache
  <2>2. IsMap(With(c.streamURLs, id, e), Ids, StreamEntry)
    BY <2>1, WithMap
  <2>3. QED
    BY <2>2
<1>4. DOMAIN t.streamURLs = DOMAIN c.streamURLs \cup {id}
  <2>1. DOMAIN With(c.streamURLs, id, e) = DOMAIN c.streamURLs \cup {id}
    BY WithKeys
  <2>2. QED
    BY <2>1
<1>5. /\ t.streamURLs[id] = e
      /\ \A x \in DOMAIN c.streamURLs \ {id} : t.streamURLs[x] = c.streamURLs[x]
  BY WithValues
<1>6. IsCache(t)
  BY <1>1, <1>2, <1>3 DEF IsCache
<1>7. Entries(t) = Entries(c) \cup {StreamKey(id)}
  <2>1. \A x : x \in Entries(t) <=> x \in Entries(c) \/ x = StreamKey(id)
    BY <1>4 DEF Entries
  <2>2. QED
    BY <2>1
<1>8. Matched(t)
  BY <1>2, <1>7 DEF Matched
<1>9. Lives(t)
  BY <1>1, <1>4, <1>5 DEF Lives
<1>10. QED
  BY <1>6, <1>7, <1>8, <1>9 DEF Sound, Placed

(* A cache beyond its limit holds another entry than the one just written.  *)
LEMMA AnotherItem ==
    ASSUME NEW s, NEW id \in DOMAIN s.items, NEW n \in Nat \ {0},
           Cardinality(DOMAIN s.items) > n
    PROVE  \E x \in Entries(s) : x # ItemKey(id)
<1>1. DOMAIN s.items # {id}
  <2>1. Cardinality({id}) = 1
    BY FS_Singleton
  <2>2. ~(1 > n)
    OBVIOUS
  <2>3. QED
    BY <2>1, <2>2
<1>2. PICK x \in DOMAIN s.items : x # id
  BY <1>1
<1>3. ItemKey(x) \in Entries(s) /\ ItemKey(x) # ItemKey(id)
  BY <1>2, Keys DEF Entries
<1>4. QED
  BY <1>3

LEMMA AnotherEntry ==
    ASSUME NEW s, NEW id \in DOMAIN s.streamURLs, NEW n \in Nat \ {0}, Size(s) > n
    PROVE  \E x \in Entries(s) : x # StreamKey(id)
<1>1. CASE DOMAIN s.items = {} /\ DOMAIN s.streamURLs = {id}
  <2>1. Cardinality({}) = 0 /\ Cardinality({id}) = 1
    BY FS_EmptySet, FS_Singleton
  <2>2. Size(s) = 1
    BY <1>1, <2>1 DEF Size
  <2>3. QED
    BY <2>2
<1>2. CASE DOMAIN s.items # {}
  <2>1. PICK x \in DOMAIN s.items : TRUE
    BY <1>2
  <2>2. ItemKey(x) \in Entries(s) /\ ItemKey(x) # StreamKey(id)
    BY Keys DEF Entries
  <2>3. QED
    BY <2>2
<1>3. CASE DOMAIN s.streamURLs # {id}
  <2>1. PICK x \in DOMAIN s.streamURLs : x # id
    BY <1>3
  <2>2. StreamKey(x) \in Entries(s) /\ StreamKey(x) # StreamKey(id)
    BY <2>1, Keys DEF Entries
  <2>3. QED
    BY <2>2
<1>4. QED
  BY <1>1, <1>2, <1>3

(* The end of an insertion: nothing goes, or the entry that was used longest *)
(* ago does, which is not the new one.                                      *)
Evicted(t, u, k) ==
    \/ u = t
    \/ \E x \in LruKeys \ {k} :
         u.streamURLs = Without(t.streamURLs, StreamsOf(t, x))

LEMMA Inserted ==
    ASSUME NEW s, Sound(s), NEW k \in LruKeys, NEW t, Placed(s, t, k), NEW u,
           \/ u = t
           \/ u = EvictOldest(t) /\ \E x \in Entries(t) : x # k
    PROVE  /\ Sound(u)
           /\ k \in Entries(u) /\ Entries(u) \subseteq Entries(s) \cup {k}
           /\ Last(u.lruList) = k
           /\ \A x \in Entries(s) \ Entries(u) : x = Head(Unlink(s.lruList, k))
           /\ Evicted(t, u, k)
<1>1. s.lruList \in Seq(LruKeys) /\ IsInjective(s.lruList) /\ ToSet(s.lruList) = Entries(s)
  BY DEF Sound, IsCache, Matched
<1>2. /\ Sound(t) /\ Entries(t) = Entries(s) \cup {k} /\ t.lruList = Touch(s.lruList, k)
      /\ t.lruList \in Seq(LruKeys)
  BY DEF Placed, Sound, IsCache
<1>3. t.lruList # << >> /\ Last(t.lruList) = k
  BY <1>1, <1>2, Touched
<1>4. CASE u = t
  BY <1>2, <1>3, <1>4 DEF Evicted
<1>5. CASE u = EvictOldest(t) /\ \E x \in Entries(t) : x # k
  <2>1. PICK x \in Entries(s) : x # k
    BY <1>2, <1>5
  <2>2. Unlink(s.lruList, k) # << >>
    <3>1. x \in ToSet(Unlink(s.lruList, k))
      BY <1>1, <2>1, Unlinked
    <3>2. ToSet(<< >>) = {}
      BY DEF ToSet
    <3>3. QED
      BY <3>1, <3>2
  <2>3. PICK h : h = Head(Unlink(s.lruList, k))
    OBVIOUS
  <2>4. h = Head(t.lruList)
    BY <1>1, <1>2, <2>2, <2>3, TouchedHead
  <2>5. h \in Entries(s) /\ h # k
    BY <1>1, <2>2, <2>3, Unlinked, Heads
  <2>6. u = RemoveItem(t, h)
    BY <1>3, <1>5, <2>4 DEF EvictOldest
  <2>7. Sound(u) /\ Entries(u) = Entries(t) \ {h} /\ u.lruList = Unlink(t.lruList, h)
    BY <1>2, <2>6, RemoveItemSound
  <2>8. Last(u.lruList) = k
    BY <1>2, <1>3, <2>5, <2>7, UnlinkedLast
  <2>9. u.streamURLs = Without(t.streamURLs, StreamsOf(t, h))
    BY <1>2, <2>6, RemoveItemKeeps
  <2>10. h \in LruKeys
    BY <1>1, <2>5, EntriesAreKeys DEF Sound
  <2>11. QED
    BY <1>2, <2>3, <2>5, <2>7, <2>8, <2>9, <2>10 DEF Evicted
<1>6. QED
  BY <1>4, <1>5

-----------------------------------------------------------------------------
(* What every call of the cache does: it keeps the invariant, it is what     *)
(* KeepsLive and KeepsNew say of it, and to the stream URLs it is a step of *)
(* TTLMap.                                                                  *)
StepOK == CacheInv' /\ KeepsLive /\ KeepsNew /\ URLs!Next

(* The answer says nothing of a stream URL.                                 *)
NothingFound ==
    ret'.url = NoUrl /\ ret'.fresh = FALSE /\ (ret'.op = "find" => ret'.hit = FALSE)

LEMMA Answers ==
    ASSUME NEW op, NEW hit \in BOOLEAN, op = "find" => hit = FALSE,
           ret' = Reply(op, hit, NoUrl, FALSE)
    PROVE  NothingFound /\ ret'.op = op
BY DEF NothingFound, Reply

LEMMA StreamsLost ==
    ASSUME NEW S \in SUBSET DOMAIN c.streamURLs,
           c'.streamURLs = Without(c.streamURLs, S), now' = now, NothingFound
    PROVE  URLs!Next
<1>1. c'.streamURLs = URLs!Without(S)
  BY DEF URLs!Without, URLs!Restrict, Without, Restrict
<1>2. [hit |-> ret'.op = "find" /\ ret'.hit, url |-> ret'.url, fresh |-> ret'.fresh]
        = URLs!Miss
  <2>1. (ret'.op = "find" /\ ret'.hit) = FALSE
    BY DEF NothingFound
  <2>2. QED
    BY <2>1 DEF URLs!Miss, NothingFound
<1>3. URLs!Lose(S)
  BY <1>1, <1>2 DEF URLs!Lose
<1>4. QED
  BY <1>3 DEF URLs!Next

LEMMA StreamsSame ==
    ASSUME IsMap(c.streamURLs, Ids, StreamEntry),
           c'.streamURLs = c.streamURLs, now' = now, NothingFound
    PROVE  URLs!Next
<1>1. Without(c.streamURLs, {}) = c.streamURLs
  BY WithoutNothing
<1>2. QED
  BY <1>1, StreamsLost

LEMMA InvParts ==
    ASSUME CacheInv
    PROVE  /\ Sound(c) /\ IsCache(c) /\ HasFields(c) /\ Lives(c)
           /\ IsMap(c.items, Ids, ItemEntry) /\ IsMap(c.streamURLs, Ids, StreamEntry)
           /\ ttl \in Ttls /\ ttl \in Nat /\ maxItems \in Limits /\ maxItems \in Nat \ {0}
           /\ now \in Nat /\ now \in 0 .. MaxNow
BY TtlsAssumption, LimitsAssumption, ClockAssumption
DEF CacheInv, TypeOK, Sound, IsCache

LEMMA InvStays ==
    ASSUME CacheInv, Sound(c'), SameSettings
    PROVE  CacheInv'
<1>1. TypeOK'
  BY DEF CacheInv, TypeOK, SameSettings, Sound
<1>2. Sound(c)'
  OBVIOUS
<1>3. QED
  BY <1>1, <1>2 DEF CacheInv

LEMMA SetStep ==
    ASSUME CacheInv, NEW id \in Ids, NEW item \in ItemIds \cup {NoItem}, Set(id, item)
    PROVE  StepOK
<1> DEFINE k == ItemKey(id)
           stored  == IF id \in DOMAIN c.items THEN c.items
                      ELSE With(c.items, id, [item |-> item, expire |-> now + ttl])
           indexed == IF item = NoItem THEN c.itemIndex ELSE With(c.itemIndex, item, id)
           s == [c EXCEPT !.items = stored, !.itemIndex = indexed,
                          !.lruList = Touch(c.lruList, k)]
<1>1. /\ c' = IF Cardinality(DOMAIN s.items) > maxItems THEN EvictOldest(s) ELSE s
      /\ Done("insert") /\ SameSettings
  BY DEF Set
<1>2. PICK t : t = s
  OBVIOUS
<1>3. /\ HasFields(t) /\ t.items = stored /\ t.itemIndex = indexed
      /\ t.streamURLs = c.streamURLs /\ t.lruList = Touch(c.lruList, k)
  <2>1. HasFields(c)
    BY InvParts
  <2> HIDE DEF stored, indexed, k
  <2>2. t = [items |-> stored, itemIndex |-> indexed, streamURLs |-> c.streamURLs,
             lruList |-> Touch(c.lruList, k)]
    BY <1>2, <2>1 DEF HasFields
  <2> HIDE DEF s
  <2>3. QED
    BY <2>2 DEF HasFields
<1>4. Placed(c, t, k)
  BY <1>3, PlacedItem
<1>5. id \in DOMAIN t.items
  <2>1. CASE id \in DOMAIN c.items
    BY <1>3, <2>1
  <2>2. CASE id \notin DOMAIN c.items
    BY <1>3, <2>2 DEF With
  <2>3. QED
    BY <2>1, <2>2
<1>6. c' = IF Cardinality(DOMAIN t.items) > maxItems THEN EvictOldest(t) ELSE t
  BY <1>1, <1>2
<1> HIDE DEF s, stored, indexed
<1>7. c' = t \/ (c' = EvictOldest(t) /\ \E x \in Entries(t) : x # k)
  BY <1>5, <1>6, InvParts, AnotherItem
<1>8. k \in LruKeys
  BY DEF LruKeys
<1> HIDE DEF k
<1>9. /\ Sound(c') /\ k \in Entries(c') /\ Entries(c') \subseteq Entries(c) \cup {k}
      /\ Last(c'.lruList) = k
      /\ \A x \in Entries(c) \ Entries(c') : x = Head(Unlink(c.lruList, k))
      /\ Evicted(t, c', k)
  <2>1. PICK u : u = c'
    OBVIOUS
  <2>2. u = t \/ (u = EvictOldest(t) /\ \E x \in Entries(t) : x # k)
    BY <1>7, <2>1
  <2>3. Sound(c)
    BY InvParts
  <2>4. /\ Sound(u) /\ k \in Entries(u) /\ Entries(u) \subseteq Entries(c) \cup {k}
        /\ Last(u.lruList) = k
    BY <1>4, <1>8, <2>2, <2>3, Inserted
  <2>5. \A x \in Entries(c) \ Entries(u) : x = Head(Unlink(c.lruList, k))
    BY <1>4, <1>8, <2>2, <2>3, Inserted
  <2>6. Evicted(t, u, k)
    BY <1>4, <1>8, <2>2, <2>3, Inserted
  <2>7. QED
    BY <2>1, <2>4, <2>5, <2>6
<1>10. CacheInv'
  BY <1>1, <1>9, InvStays
<1>11. NothingFound /\ ret'.op = "insert"
  BY <1>1, Answers DEF Done
<1>12. KeepsLive /\ KeepsNew
  BY <1>9, <1>11 DEF KeepsLive, KeepsNew
<1>13. URLs!Next
  <2>1. now' = now
    BY <1>1 DEF SameSettings
  <2>2. CASE c' = t
    BY <1>3, <1>11, <2>1, <2>2, InvParts, StreamsSame
  <2>3. CASE \E x \in LruKeys \ {k} : c'.streamURLs = Without(t.streamURLs, StreamsOf(t, x))
    <3>1. PICK x \in LruKeys \ {k} : c'.streamURLs = Without(c.streamURLs, StreamsOf(t, x))
      BY <1>3, <2>3
    <3>2. StreamsOf(t, x) \in SUBSET DOMAIN c.streamURLs
      BY <1>3 DEF StreamsOf, StreamsIn
    <3>3. QED
      BY <1>11, <2>1, <3>1, <3>2, StreamsLost
  <2>4. QED
    BY <1>9, <2>2, <2>3 DEF Evicted
<1>14. QED
  BY <1>10, <1>12, <1>13 DEF StepOK

LEMMA FewStreams ==
    ASSUME NEW s, NEW k, NEW x \in StreamsOf(s, k), NEW y \in StreamsOf(s, k)
    PROVE  x = y
BY Keys DEF StreamsOf, StreamsIn

LEMMA PutStep ==
    ASSUME NEW id \in Ids, NEW url \in Urls, NEW life \in Ttls, NEW e,
           e = [url |-> url, created |-> now, expire |-> now + life],
           NEW lost \in SUBSET (DOMAIN c.streamURLs \ {id}), \A x, y \in lost : x = y,
           c'.streamURLs = Without(With(c.streamURLs, id, e), lost),
           now' = now, NothingFound
    PROVE  URLs!Next
<1>1. c'.streamURLs = URLs!With(URLs!Without(lost), id, e)
  BY DEF Without, With, Restrict, URLs!With, URLs!Without, URLs!Restrict
<1>2. [hit |-> ret'.op = "find" /\ ret'.hit, url |-> ret'.url, fresh |-> ret'.fresh]
        = URLs!Miss
  <2>1. (ret'.op = "find" /\ ret'.hit) = FALSE
    BY DEF NothingFound
  <2>2. QED
    BY <2>1 DEF URLs!Miss, NothingFound
<1>3. URLs!Put(id, url, life)
  BY <1>1, <1>2 DEF URLs!Put
<1>4. QED
  BY <1>3 DEF URLs!Next

LEMMA SetStreamURLStep ==
    ASSUME CacheInv, NEW id \in Ids, NEW url \in Urls, NEW life \in Ttls,
           SetStreamURL(id, url, life)
    PROVE  StepOK
<1> DEFINE k == StreamKey(id)
<1>1. PICK e : e = [url |-> url, created |-> now, expire |-> now + life]
  OBVIOUS
<1>2. PICK t : t = [c EXCEPT !.streamURLs = With(c.streamURLs, id, e),
                             !.lruList = Touch(c.lruList, k)]
  OBVIOUS
<1>3. /\ c' = IF Size(t) > maxItems THEN EvictOldest(t) ELSE t
      /\ Done("insert") /\ SameSettings
  BY <1>1, <1>2 DEF SetStreamURL
<1>4. e \in StreamEntry /\ e.created < e.expire
  <2>1. life \in Nat /\ life > 0 /\ now \in Nat
    BY InvParts, TtlsAssumption
  <2>2. QED
    BY <1>1, <2>1 DEF StreamEntry
<1>5. /\ HasFields(t) /\ t.streamURLs = With(c.streamURLs, id, e)
      /\ t.lruList = Touch(c.lruList, k)
      /\ t.items = c.items /\ t.itemIndex = c.itemIndex
  <2>1. HasFields(c)
    BY InvParts
  <2> HIDE DEF k
  <2>2. t = [items |-> c.items, itemIndex |-> c.itemIndex,
             streamURLs |-> With(c.streamURLs, id, e), lruList |-> Touch(c.lruList, k)]
    BY <1>2, <2>1 DEF HasFields
  <2>3. QED
    BY <2>2 DEF HasFields
<1>6. Placed(c, t, k)
  BY <1>4, <1>5, PlacedStream
<1>7. id \in DOMAIN t.streamURLs
  BY <1>5 DEF With
<1>8. c' = t \/ (c' = EvictOldest(t) /\ \E x \in Entries(t) : x # k)
  BY <1>3, <1>7, InvParts, AnotherEntry
<1>9. k \in LruKeys
  BY DEF LruKeys
<1>10. \A x : StreamKey(x) = k => x = id
  BY Keys
<1> HIDE DEF k
<1>11. /\ Sound(c') /\ k \in Entries(c') /\ Entries(c') \subseteq Entries(c) \cup {k}
       /\ Last(c'.lruList) = k
       /\ \A x \in Entries(c) \ Entries(c') : x = Head(Unlink(c.lruList, k))
       /\ Evicted(t, c', k)
  <2>1. PICK u : u = c'
    OBVIOUS
  <2>2. u = t \/ (u = EvictOldest(t) /\ \E x \in Entries(t) : x # k)
    BY <1>8, <2>1
  <2>3. Sound(c)
    BY InvParts
  <2>4. /\ Sound(u) /\ k \in Entries(u) /\ Entries(u) \subseteq Entries(c) \cup {k}
        /\ Last(u.lruList) = k
    BY <1>6, <1>9, <2>2, <2>3, Inserted
  <2>5. \A x \in Entries(c) \ Entries(u) : x = Head(Unlink(c.lruList, k))
    BY <1>6, <1>9, <2>2, <2>3, Inserted
  <2>6. Evicted(t, u, k)
    BY <1>6, <1>9, <2>2, <2>3, Inserted
  <2>7. QED
    BY <2>1, <2>4, <2>5, <2>6
<1>12. CacheInv'
  BY <1>3, <1>11, InvStays
<1>13. NothingFound /\ ret'.op = "insert"
  BY <1>3, Answers DEF Done
<1>14. KeepsLive /\ KeepsNew
  BY <1>11, <1>13 DEF KeepsLive, KeepsNew
<1>15. URLs!Next
  <2>1. now' = now
    BY <1>3 DEF SameSettings
  <2>2. CASE c' = t
    <3>1. IsMap(With(c.streamURLs, id, e), Ids, StreamEntry)
      BY <1>4, InvParts, WithMap
    <3>2. Without(With(c.streamURLs, id, e), {}) = With(c.streamURLs, id, e)
      BY <3>1, WithoutNothing
    <3>3. c'.streamURLs = Without(With(c.streamURLs, id, e), {})
      BY <1>5, <2>2, <3>2
    <3>4. {} \in SUBSET (DOMAIN c.streamURLs \ {id}) /\ \A x, y \in {} : x = y
      OBVIOUS
    <3>5. QED
      BY <1>1, <1>13, <2>1, <3>3, <3>4, PutStep
  <2>3. CASE \E x \in LruKeys \ {k} : c'.streamURLs = Without(t.streamURLs, StreamsOf(t, x))
    <3>1. PICK x \in LruKeys \ {k} : c'.streamURLs = Without(t.streamURLs, StreamsOf(t, x))
      BY <2>3
    <3>2. DOMAIN t.streamURLs = DOMAIN c.streamURLs \cup {id}
      BY <1>5 DEF With
    <3>3. StreamsOf(t, x) \in SUBSET (DOMAIN c.streamURLs \ {id})
      <4>1. \A y \in StreamsOf(t, x) : y \in DOMAIN t.streamURLs /\ StreamKey(y) = x
        BY DEF StreamsOf, StreamsIn
      <4>2. StreamKey(id) # x
        BY DEF k
      <4>3. QED
        BY <3>2, <4>1, <4>2
    <3>4. \A y, z \in StreamsOf(t, x) : y = z
      BY FewStreams
    <3>5. PICK lost : lost = StreamsOf(t, x)
      OBVIOUS
    <3>6. c'.streamURLs = Without(With(c.streamURLs, id, e), lost)
      BY <1>5, <3>1, <3>5
    <3>7. QED
      BY <1>1, <1>13, <2>1, <3>3, <3>4, <3>5, <3>6, PutStep
  <2>4. QED
    BY <1>11, <2>2, <2>3 DEF Evicted
<1>16. QED
  BY <1>12, <1>14, <1>15 DEF StepOK

-----------------------------------------------------------------------------
(* Removals and uses of one entry.                                         *)
(* A removal with an answer that finds nothing, of an expired entry if it   *)
(* is part of a lookup.                                                     *)
LEMMA RemovalStep ==
    ASSUME CacheInv, NEW k, c' = RemoveItem(c, k), SameSettings,
           NothingFound, ret'.op # "insert",
           ret'.op \in {"lookup", "find", "cleanup"} =>
             /\ \A id \in DOMAIN c.items : ItemKey(id) = k => Expired(c.items[id])
             /\ \A id \in DOMAIN c.streamURLs : StreamKey(id) = k => Expired(c.streamURLs[id])
    PROVE  StepOK
<1>1. PICK u : u = c'
  OBVIOUS
<1>2. Sound(c) /\ u = RemoveItem(c, k)
  BY <1>1, InvParts
<1>3. Sound(u)
  BY <1>2, RemoveItemSound
<1>4. /\ DOMAIN u.items = DOMAIN c.items \ ItemsOf(c, k)
      /\ DOMAIN u.streamURLs = DOMAIN c.streamURLs \ StreamsOf(c, k)
      /\ \A id \in DOMAIN u.items : u.items[id] = c.items[id]
      /\ \A id \in DOMAIN u.streamURLs : u.streamURLs[id] = c.streamURLs[id]
  BY <1>2, RemoveItemKeeps
<1>5. u.streamURLs = Without(c.streamURLs, StreamsOf(c, k))
  BY <1>2, RemoveItemKeeps
<1>6. CacheInv'
  BY <1>1, <1>3, InvStays
<1>7. KeepsNew
  BY DEF KeepsNew
<1>8. KeepsLive
  <2>1. \A id \in ItemsOf(c, k) : id \in DOMAIN c.items /\ ItemKey(id) = k
    BY DEF ItemsOf, ItemsIn
  <2>2. \A id \in StreamsOf(c, k) : id \in DOMAIN c.streamURLs /\ StreamKey(id) = k
    BY DEF StreamsOf, StreamsIn
  <2>3. QED
    BY <1>1, <1>4, <2>1, <2>2 DEF KeepsLive
<1>9. StreamsOf(c, k) \in SUBSET DOMAIN c.streamURLs
  BY DEF StreamsOf, StreamsIn
<1>10. URLs!Next
  BY <1>1, <1>5, <1>9, StreamsLost DEF SameSettings
<1>11. QED
  BY <1>6, <1>7, <1>8, <1>10 DEF StepOK

(* A step that leaves the sources and the stream URLs as they are.          *)
LEMMA QuietStep ==
    ASSUME CacheInv, Sound(c'), c'.items = c.items, c'.streamURLs = c.streamURLs,
           SameSettings, NothingFound, ret'.op # "insert"
    PROVE  StepOK
<1>1. CacheInv'
  BY InvStays
<1>2. KeepsNew /\ KeepsLive
  BY DEF KeepsNew, KeepsLive
<1>3. URLs!Next
  BY InvParts, StreamsSame DEF SameSettings
<1>4. QED
  BY <1>1, <1>2, <1>3 DEF StepOK

LEMMA UseStep ==
    ASSUME CacheInv, NEW id \in DOMAIN c.items, Use(id), SameSettings
    PROVE  StepOK
<1>1. CASE Expired(c.items[id]) /\ c' = RemoveItem(c, ItemKey(id)) /\ Lookup(FALSE)
  <2>1. NothingFound /\ ret'.op = "lookup"
    BY <1>1, Answers DEF Lookup
  <2>2. \A x \in DOMAIN c.items : ItemKey(x) = ItemKey(id) => Expired(c.items[x])
    BY <1>1, Keys
  <2>3. \A x \in DOMAIN c.streamURLs : StreamKey(x) # ItemKey(id)
    BY Keys
  <2>4. QED
    BY <1>1, <2>1, <2>2, <2>3, RemovalStep
<1>2. CASE /\ c' = [c EXCEPT !.lruList = Touch(c.lruList, ItemKey(id))]
           /\ Lookup(TRUE)
  <2>1. NothingFound /\ ret'.op = "lookup"
    BY <1>2, Answers DEF Lookup
  <2>2. PICK u : u = c'
    OBVIOUS
  <2>3. ItemKey(id) \in Entries(c) /\ Sound(c)
    BY InvParts, EntryKeys
  <2>4. u = [c EXCEPT !.lruList = Touch(c.lruList, ItemKey(id))]
    BY <1>2, <2>2
  <2>5. Sound(u) /\ u.items = c.items /\ u.streamURLs = c.streamURLs
    BY <2>3, <2>4, UsedSound
  <2>6. QED
    BY <2>1, <2>2, <2>5, QuietStep
<1>3. QED
  BY <1>1, <1>2 DEF Use

LEMMA GetStep ==
    ASSUME CacheInv, NEW id \in Ids, Get(id)
    PROVE  StepOK
<1>1. CASE id \notin DOMAIN c.items /\ Lookup(FALSE) /\ UNCHANGED c
  <2>1. NothingFound /\ ret'.op = "lookup"
    BY <1>1, Answers DEF Lookup
  <2>2. SameSettings /\ Sound(c)
    BY InvParts DEF Get
  <2>3. QED
    BY <1>1, <2>1, <2>2, QuietStep
<1>2. CASE id \in DOMAIN c.items /\ Use(id)
  BY <1>2, UseStep DEF Get
<1>3. QED
  BY <1>1, <1>2 DEF Get

(* An index entry that leads nowhere goes; no source and no URL does.       *)
LEMMA GetByItemIDStep ==
    ASSUME CacheInv, NEW item \in ItemIds, GetByItemID(item)
    PROVE  StepOK
<1>1. SameSettings /\ Sound(c) /\ IsCache(c) /\ HasFields(c) /\ Lives(c)
  BY InvParts DEF GetByItemID
<1>2. CASE Lookup(FALSE) /\ UNCHANGED c
  <2>1. NothingFound /\ ret'.op = "lookup"
    BY <1>2, Answers DEF Lookup
  <2>2. QED
    BY <1>1, <1>2, <2>1, QuietStep
<1>3. CASE /\ c' = [c EXCEPT !.itemIndex = Without(c.itemIndex, {item})]
           /\ Lookup(FALSE)
  <2>1. NothingFound /\ ret'.op = "lookup"
    BY <1>3, Answers DEF Lookup
  <2>2. PICK a : a = Without(c.itemIndex, {item})
    OBVIOUS
  <2>3. PICK u : u = c'
    OBVIOUS
  <2>4. u = [c EXCEPT !.itemIndex = a]
    BY <1>3, <2>2, <2>3
  <2>5. /\ HasFields(u) /\ u.itemIndex = a
        /\ u.items = c.items /\ u.lruList = c.lruList /\ u.streamURLs = c.streamURLs
    BY <1>1, <2>4, IndexChanged
  <2>6. IsMap(a, ItemIds, Ids)
    BY <1>1, <2>2, WithoutMap DEF IsCache
  <2>7. IsCache(u) /\ Lives(u)
    BY <1>1, <2>5, <2>6 DEF IsCache, Lives
  <2>8. Matched(u)
    BY <1>1, <2>5 DEF Sound, Matched, Entries
  <2>9. Sound(u)
    BY <2>7, <2>8 DEF Sound
  <2>10. QED
    BY <1>1, <2>1, <2>3, <2>5, <2>9, QuietStep
<1>4. CASE c.itemIndex[item] \in DOMAIN c.items /\ Use(c.itemIndex[item])
  BY <1>1, <1>4, UseStep
<1>5. QED
  BY <1>2, <1>3, <1>4 DEF GetByItemID

LEMMA DeleteStep ==
    ASSUME CacheInv, NEW k, c' = RemoveItem(c, k), Done("delete"), SameSettings
    PROVE  StepOK
<1>1. NothingFound /\ ret'.op = "delete"
  BY Answers DEF Done
<1>2. QED
  BY <1>1, RemovalStep

(* The age of a URL is judged by its own lifetime, which is not 0.          *)
LEMMA GetStreamURLStep ==
    ASSUME CacheInv, NEW id \in Ids, GetStreamURL(id)
    PROVE  StepOK
<1>1. SameSettings /\ Sound(c)
  BY InvParts DEF GetStreamURL
<1>2. CASE Done("find") /\ UNCHANGED c
  <2>1. NothingFound /\ ret'.op = "find"
    BY <1>2, Answers DEF Done
  <2>2. QED
    BY <1>1, <1>2, <2>1, QuietStep
<1>3. CASE /\ id \in DOMAIN c.streamURLs /\ Expired(c.streamURLs[id])
           /\ c' = RemoveItem(c, StreamKey(id)) /\ Done("find")
  <2>1. NothingFound /\ ret'.op = "find"
    BY <1>3, Answers DEF Done
  <2>2. \A x \in DOMAIN c.items : ItemKey(x) # StreamKey(id)
    BY Keys
  <2>3. \A x \in DOMAIN c.streamURLs :
          StreamKey(x) = StreamKey(id) => Expired(c.streamURLs[x])
    BY <1>3, Keys
  <2>4. QED
    BY <1>1, <1>3, <2>1, <2>2, <2>3, RemovalStep
<1>4. CASE /\ id \in DOMAIN c.streamURLs /\ ~Expired(c.streamURLs[id])
           /\ c' = [c EXCEPT !.lruList = Touch(c.lruList, StreamKey(id))]
           /\ ret' = Reply("find", TRUE, c.streamURLs[id].url, ~Stale(c.streamURLs[id]))
  <2>1. PICK e : e = c.streamURLs[id]
    OBVIOUS
  <2>2. e \in StreamEntry /\ e.created < e.expire /\ now \in Nat
    BY <1>4, <2>1, InvParts DEF IsMap, Lives
  <2>3. PICK u : u = c'
    OBVIOUS
  <2>4. StreamKey(id) \in Entries(c)
    BY <1>4, EntryKeys
  <2>5. u = [c EXCEPT !.lruList = Touch(c.lruList, StreamKey(id))]
    BY <1>4, <2>3
  <2>6. Sound(u) /\ u.items = c.items /\ u.streamURLs = c.streamURLs
    BY <1>1, <2>4, <2>5, UsedSound
  <2>7. CacheInv'
    BY <1>1, <2>3, <2>6, InvStays
  <2>8. /\ ret'.op = "find" /\ ret'.hit = TRUE /\ ret'.url = e.url
        /\ ret'.fresh = ~Stale(e)
    BY <1>4, <2>1 DEF Reply
  <2>9. KeepsNew /\ KeepsLive
    BY <2>3, <2>6, <2>8 DEF KeepsNew, KeepsLive
  <2>10. now <= e.expire
    BY <1>4, <2>1, <2>2 DEF Expired, StreamEntry
  <2>11. ~Stale(e) <=> 10 * (e.expire - now) >= e.expire - e.created
    BY <2>2 DEF Stale, StreamEntry
  <2>12. [hit |-> ret'.op = "find" /\ ret'.hit, url |-> ret'.url, fresh |-> ret'.fresh]
           = URLs!Found(e, 10 * (e.expire - now) >= e.expire - e.created)
    <3>1. ret'.fresh = (10 * (e.expire - now) >= e.expire - e.created)
      BY <2>8, <2>11
    <3>2. (ret'.op = "find" /\ ret'.hit) = TRUE
      BY <2>8
    <3>3. QED
      BY <2>8, <3>1, <3>2 DEF URLs!Found
  <2>13. now' = now
    BY <1>1 DEF SameSettings
  <2>14. URLs!Find(id)
    BY <1>4, <2>1, <2>3, <2>6, <2>10, <2>12, <2>13 DEF URLs!Find
  <2>15. URLs!Next
    BY <2>14 DEF URLs!Next
  <2>16. QED
    BY <2>7, <2>9, <2>15 DEF StepOK
<1>5. QED
  BY <1>2, <1>3, <1>4 DEF GetStreamURL

-----------------------------------------------------------------------------
(* Removals of many entries.                                               *)
LEMMA DropStep ==
    ASSUME CacheInv, NEW K, NEW l \in Seq(LruKeys), IsInjective(l),
           ToSet(l) = Entries(c) \ K, c' = Dropped(c, K, l),
           now' = now, NothingFound, ret'.op \notin {"insert", "lookup", "find"},
           ret'.op = "cleanup" => K \cap Entries(c) = Overdue(c)
    PROVE  Sound(c') /\ KeepsLive /\ KeepsNew /\ URLs!Next
<1>1. PICK u : u = c'
  OBVIOUS
<1>2. u = Dropped(c, K, l) /\ Sound(c) /\ IsCache(c)
  BY <1>1, InvParts
<1>3. Sound(u)
  BY <1>2, DroppedSound
<1>4. /\ DOMAIN u.items = DOMAIN c.items \ ItemsIn(c, K)
      /\ DOMAIN u.streamURLs = DOMAIN c.streamURLs \ StreamsIn(c, K)
      /\ \A id \in DOMAIN u.items : u.items[id] = c.items[id]
      /\ \A id \in DOMAIN u.streamURLs : u.streamURLs[id] = c.streamURLs[id]
  BY <1>2, DroppedKeeps
<1>5. u.streamURLs = Without(c.streamURLs, StreamsIn(c, K))
  BY <1>2, DroppedFields
<1>6. StreamsIn(c, K) \in SUBSET DOMAIN c.streamURLs
  BY DEF StreamsIn
<1>7. URLs!Next
  BY <1>1, <1>5, <1>6, StreamsLost
<1>8. KeepsNew
  BY DEF KeepsNew
<1>9. KeepsLive
  <2>1. CASE ret'.op = "cleanup"
    <3>1. \A id \in DOMAIN c.items : ~Expired(c.items[id]) => ItemKey(id) \notin Overdue(c)
      BY Keys DEF Overdue
    <3>2. \A id \in DOMAIN c.streamURLs :
             ~Expired(c.streamURLs[id]) => StreamKey(id) \notin Overdue(c)
      BY Keys DEF Overdue
    <3>3. \A id \in DOMAIN c.items : ~Expired(c.items[id]) => id \notin ItemsIn(c, K)
      BY <2>1, <3>1, EntryKeys DEF ItemsIn
    <3>4. \A id \in DOMAIN c.streamURLs :
             ~Expired(c.streamURLs[id]) => id \notin StreamsIn(c, K)
      BY <2>1, <3>2, EntryKeys DEF StreamsIn
    <3>5. QED
      BY <1>1, <1>4, <3>3, <3>4 DEF KeepsLive
  <2>2. CASE ret'.op # "cleanup"
    BY <2>2 DEF KeepsLive
  <2>3. QED
    BY <2>1, <2>2
<1>10. QED
  BY <1>1, <1>3, <1>7, <1>8, <1>9

LEMMA CleanupStep ==
    ASSUME CacheInv, Cleanup
    PROVE  StepOK
<1>1. Done("cleanup") /\ SameSettings
  BY DEF Cleanup
<1>2. PICK K : K = Overdue(c)
  OBVIOUS
<1>3. PICK l \in Rest(c.lruList, K) : c' = Dropped(c, K, l)
  BY <1>2 DEF Cleanup
<1>4. c.lruList \in Seq(LruKeys) /\ IsInjective(c.lruList) /\ ToSet(c.lruList) = Entries(c)
  BY InvParts DEF Sound, IsCache, Matched
<1>5. l \in Seq(LruKeys) /\ ToSet(l) = ToSet(c.lruList) \ K /\ IsInjective(l)
  BY <1>4, Filtered
<1>6. NothingFound /\ ret'.op = "cleanup"
  BY <1>1, Answers DEF Done
<1>7. K \cap Entries(c) = Overdue(c)
  <2>1. Overdue(c) \subseteq Entries(c)
    BY DEF Overdue, Entries
  <2>2. QED
    BY <1>2, <2>1
<1>8. ToSet(l) = Entries(c) \ K
  BY <1>4, <1>5
<1>9. now' = now
  BY <1>1 DEF SameSettings
<1>10. Sound(c') /\ KeepsLive /\ KeepsNew /\ URLs!Next
  BY <1>3, <1>5, <1>6, <1>7, <1>8, <1>9, DropStep
<1>11. QED
  BY <1>1, <1>10, InvStays DEF StepOK

LEMMA ClearStep ==
    ASSUME CacheInv, Clear
    PROVE  StepOK
<1>1. c' = Empty /\ Done("delete") /\ SameSettings
  BY DEF Clear
<1>2. /\ c'.items = << >> /\ c'.itemIndex = << >> /\ c'.streamURLs = << >>
      /\ c'.lruList = << >> /\ HasFields(c')
  BY <1>1 DEF Empty, HasFields
<1>3. DOMAIN << >> = {}
  OBVIOUS
<1>4. IsCache(c')
  BY <1>2, <1>3 DEF IsCache, IsMap
<1>5. Matched(c') /\ Lives(c')
  BY <1>2, <1>3 DEF Matched, Lives, Entries, ToSet, IsInjective
<1>6. CacheInv'
  BY <1>1, <1>4, <1>5, InvStays DEF Sound
<1>7. NothingFound /\ ret'.op = "delete"
  BY <1>1, Answers DEF Done
<1>8. c'.streamURLs = Without(c.streamURLs, DOMAIN c.streamURLs)
  BY <1>2, <1>3 DEF Without, Restrict
<1>9. URLs!Next
  BY <1>1, <1>7, <1>8, StreamsLost DEF SameSettings
<1>10. KeepsLive /\ KeepsNew
  BY <1>7 DEF KeepsLive, KeepsNew
<1>11. QED
  BY <1>6, <1>9, <1>10 DEF StepOK

LEMMA UpdateTTLStep ==
    ASSUME CacheInv, NEW t \in Ttls, UpdateTTL(t)
    PROVE  StepOK
<1>1. /\ ttl' = t /\ c' = c /\ maxItems' = maxItems /\ now' = now
      /\ Done("setting")
  BY DEF UpdateTTL
<1>2. CacheInv'
  <2>1. Sound(c)'
    BY <1>1, InvParts
  <2>2. TypeOK'
    BY <1>1, <2>1 DEF CacheInv, TypeOK, Sound
  <2>3. QED
    BY <2>1, <2>2 DEF CacheInv
<1>3. NothingFound /\ ret'.op = "setting"
  BY <1>1, Answers DEF Done
<1>4. URLs!Next
  BY <1>1, <1>3, InvParts, StreamsSame
<1>5. KeepsLive /\ KeepsNew
  BY <1>3 DEF KeepsLive, KeepsNew
<1>6. QED
  BY <1>2, <1>4, <1>5 DEF StepOK

(* The evictions down to a lower limit take the beginning of the list.       *)
LEMMA UpdateMaxItemsStep ==
    ASSUME CacheInv, NEW n \in Limits, UpdateMaxItems(n)
    PROVE  StepOK
<1>1. /\ n \in Nat \ {0} /\ maxItems' = n /\ ttl' = ttl /\ now' = now /\ Done("setting")
      /\ c' = c \/ c' = EvictTo(c, n)
  BY LimitsAssumption DEF UpdateMaxItems
<1>2. NothingFound /\ ret'.op = "setting"
  BY <1>1, Answers DEF Done
<1>3. CASE c' = c
  <2>1. Sound(c)'
    BY <1>3, InvParts
  <2>2. TypeOK'
    BY <1>1, <2>1 DEF CacheInv, TypeOK, Sound
  <2>3. URLs!Next
    BY <1>1, <1>2, <1>3, InvParts, StreamsSame
  <2>4. KeepsLive /\ KeepsNew
    BY <1>2 DEF KeepsLive, KeepsNew
  <2>5. QED
    BY <2>1, <2>2, <2>3, <2>4 DEF StepOK, CacheInv
<1>4. CASE c' = EvictTo(c, n) /\ c' # c
  <2>1. PICK l : l = c.lruList
    OBVIOUS
  <2>2. l \in Seq(LruKeys) /\ IsInjective(l) /\ ToSet(l) = Entries(c) /\ Len(l) \in Nat
    BY <2>1, InvParts DEF Sound, IsCache, Matched
  <2>3. PICK d : d = Len(l) - n
    OBVIOUS
  <2>4. d \in 0 .. Len(l) /\ d > 0
    BY <1>1, <1>4, <2>1, <2>2, <2>3 DEF EvictTo
  <2>5. PICK K : K = ToSet(SubSeq(l, 1, d))
    OBVIOUS
  <2>6. PICK r : r = SubSeq(l, d + 1, Len(l))
    OBVIOUS
  <2>7. c' = Dropped(c, K, r)
    BY <1>4, <2>1, <2>3, <2>4, <2>5, <2>6 DEF EvictTo
  <2>8. r \in Seq(LruKeys) /\ ToSet(r) = Entries(c) \ K /\ IsInjective(r)
    BY <2>2, <2>4, <2>5, <2>6, Shortened
  <2>9. Sound(c') /\ KeepsLive /\ KeepsNew /\ URLs!Next
    BY <1>1, <1>2, <2>7, <2>8, DropStep
  <2>10. TypeOK'
    BY <1>1, <2>9 DEF CacheInv, TypeOK, Sound
  <2>11. Sound(c)'
    BY <2>9
  <2>12. QED
    BY <2>9, <2>10, <2>11 DEF StepOK, CacheInv
<1>5. QED
  BY <1>1, <1>3, <1>4

LEMMA TickStep ==
    ASSUME CacheInv, Tick
    PROVE  StepOK
<1>1. /\ now < MaxNow /\ now' = now + 1 /\ c' = c /\ ttl' = ttl /\ maxItems' = maxItems
      /\ Done("tick")
  BY DEF Tick
<1>2. NothingFound /\ ret'.op = "tick"
  BY <1>1, Answers DEF Done
<1>3. Sound(c)'
  BY <1>1, InvParts
<1>4. now' \in 0 .. MaxNow
  BY <1>1, InvParts, ClockAssumption
<1>5. TypeOK'
  BY <1>1, <1>3, <1>4 DEF CacheInv, TypeOK, Sound
<1>6. KeepsLive /\ KeepsNew
  BY <1>2 DEF KeepsLive, KeepsNew
<1>7. URLs!Tick
  <2>1. (ret'.op = "find" /\ ret'.hit) = FALSE
    BY <1>2 DEF NothingFound
  <2>2. [hit |-> ret'.op = "find" /\ ret'.hit, url |-> ret'.url, fresh |-> ret'.fresh]
          = URLs!Miss
    BY <1>2, <2>1 DEF URLs!Miss, NothingFound
  <2>3. QED
    BY <1>1, <2>2 DEF URLs!Tick
<1>8. QED
  BY <1>3, <1>5, <1>6, <1>7 DEF StepOK, CacheInv, URLs!Next

-----------------------------------------------------------------------------
LEMMA CacheStart == Init => CacheInv /\ URLs!Init
<1> SUFFICES ASSUME Init PROVE CacheInv /\ URLs!Init
  OBVIOUS
<1>1. /\ c.items = << >> /\ c.itemIndex = << >> /\ c.streamURLs = << >>
      /\ c.lruList = << >> /\ HasFields(c)
  BY DEF Init, Empty, HasFields
<1>2. DOMAIN << >> = {}
  OBVIOUS
<1>3. IsCache(c)
  BY <1>1, <1>2 DEF IsCache, IsMap
<1>4. Matched(c) /\ Lives(c)
  BY <1>1, <1>2 DEF Matched, Lives, Entries, ToSet, IsInjective
<1>5. TypeOK
  BY <1>3, ClockAssumption DEF Init, TypeOK
<1>6. [hit |-> ret.op = "find" /\ ret.hit, url |-> ret.url, fresh |-> ret.fresh] = URLs!Miss
  BY DEF Init, Reply, URLs!Miss
<1>7. URLs!Init
  BY <1>1, <1>6 DEF Init, URLs!Init
<1>8. QED
  BY <1>3, <1>4, <1>5, <1>7 DEF CacheInv, Sound

LEMMA CacheStep == CacheInv /\ Next => StepOK
<1> SUFFICES ASSUME CacheInv, Next PROVE StepOK
  OBVIOUS
<1>1. ASSUME NEW id \in Ids, NEW item \in ItemIds \cup {NoItem}, Set(id, item)
      PROVE  StepOK
  BY <1>1, SetStep
<1>2. ASSUME NEW id \in Ids, NEW url \in Urls, NEW t \in Ttls, SetStreamURL(id, url, t)
      PROVE  StepOK
  BY <1>2, SetStreamURLStep
<1>3. ASSUME NEW id \in Ids, Get(id)
      PROVE  StepOK
  BY <1>3, GetStep
<1>4. ASSUME NEW id \in Ids, Delete(id)
      PROVE  StepOK
  BY <1>4, DeleteStep DEF Delete
<1>5. ASSUME NEW id \in Ids, GetStreamURL(id)
      PROVE  StepOK
  BY <1>5, GetStreamURLStep
<1>6. ASSUME NEW id \in Ids, DeleteStreamURL(id)
      PROVE  StepOK
  BY <1>6, DeleteStep DEF DeleteStreamURL
<1>7. ASSUME NEW item \in ItemIds, GetByItemID(item)
      PROVE  StepOK
  BY <1>7, GetByItemIDStep
<1>8. CASE Clear
  BY <1>8, ClearStep
<1>9. CASE Cleanup
  BY <1>9, CleanupStep
<1>10. ASSUME NEW t \in Ttls, UpdateTTL(t)
       PROVE  StepOK
  BY <1>10, UpdateTTLStep
<1>11. ASSUME NEW n \in Limits, UpdateMaxItems(n)
       PROVE  StepOK
  BY <1>11, UpdateMaxItemsStep
<1>12. CASE Tick
  BY <1>12, TickStep
<1>13. QED
  BY <1>1, <1>2, <1>3, <1>4, <1>5, <1>6, <1>7, <1>8, <1>9, <1>10, <1>11, <1>12 DEF Next

LEMMA CacheStutter == CacheInv /\ UNCHANGED vars => CacheInv' /\ UNCHANGED URLs!vars
<1> SUFFICES ASSUME CacheInv, UNCHANGED vars PROVE CacheInv' /\ UNCHANGED URLs!vars
  OBVIOUS
<1>1. c' = c /\ ttl' = ttl /\ maxItems' = maxItems /\ now' = now /\ ret' = ret
  BY DEF vars
<1>2. CacheInv'
  BY <1>1 DEF CacheInv, TypeOK, Sound
<1>3. UNCHANGED URLs!vars
  BY <1>1 DEF URLs!vars
<1>4. QED
  BY <1>2, <1>3

LEMMA CacheSafety == Spec => []CacheInv
<1>1. CacheInv /\ [Next]_vars => CacheInv'
  BY CacheStep, CacheStutter DEF StepOK
<1>2. QED
  BY <1>1, CacheStart, PTL DEF Spec

(* The maps, the list and the settings keep their types (cache.go:95-112).   *)
THEOREM TypeCorrect == Spec => []TypeOK
<1>1. CacheInv => TypeOK
  BY DEF CacheInv
<1>2. QED
  BY <1>1, CacheSafety, PTL

(* However the calls are ordered, each entry has one node in the LRU list   *)
(* and each node an entry, so that the evictions of UpdateMaxItems end       *)
(* (cache.go:278-315, 529-533).                                             *)
THEOREM ListIsExact == Spec => []LRUMatchesMaps
<1>1. CacheInv => LRUMatchesMaps
  BY DEF CacheInv, Sound, Matched, LRUMatchesMaps
<1>2. QED
  BY <1>1, CacheSafety, PTL

(* Lookups and cleaning passes cost no entry that has not expired           *)
(* (cache.go:179-203, 233-267, 360-405, 437-457).                           *)
THEOREM LookupsKeepLive == Spec => ReadsKeepLive
<1>1. CacheInv /\ [Next]_vars => [KeepsLive]_vars
  BY CacheStep DEF StepOK
<1>2. QED
  BY <1>1, CacheSafety, PTL DEF Spec, ReadsKeepLive

(* An insertion evicts one entry at most, the one used longest ago, and not *)
(* the new one, for any limit from 1 on (cache.go:168-170, 350-352).        *)
THEOREM NewStays == Spec => InsertKeepsNew
<1>1. CacheInv /\ [Next]_vars => [KeepsNew]_vars
  BY CacheStep DEF StepOK
<1>2. QED
  BY <1>1, CacheSafety, PTL DEF Spec, InsertKeepsNew

(* The cache implements the map with deadlines that its users rely on, step *)
(* by step (the comments at cache.go:322-325 and 357-359).                  *)
THEOREM StreamURLs == Spec => StreamsImplementTTLMap
<1>1. Init => URLs!Init
  BY CacheStart
<1>2. CacheInv /\ [Next]_vars => [URLs!Next]_(URLs!vars)
  BY CacheStep, CacheStutter DEF StepOK
<1>3. QED
  BY <1>1, <1>2, CacheSafety, PTL DEF Spec, StreamsImplementTTLMap, URLs!Spec

-----------------------------------------------------------------------------
(* The cleaner and the calls that stop and restart it.                    *)

(* The flag says whether the current channel is closed, and no call closes *)
(* it twice because each looks at the flag.                                *)
FlagExact ==
    /\ cleanerClosed <=> stopCleaner \in closed
    /\ ~(updating /\ stopped)
    /\ cleanerClosed <=> updating \/ stopped

(* A channel that has not been made is neither current nor closed.         *)
UnbornUnused ==
    \A g \in Chans : pc[g] = "unborn" => g # stopCleaner /\ g \notin closed

(* The cleaner made with the current channel still runs while it is open.  *)
CurrentRuns ==
    stopCleaner \notin closed =>
        \/ pc[stopCleaner] \in {"read", "cleanup"}
        \/ pc[stopCleaner] = "select" /\ held[stopCleaner] = stopCleaner

CleanerInv ==
    CleanerTypeOK /\ NoPanic /\ FlagExact /\ UnbornUnused /\ NoLostCleaner /\ CurrentRuns

LEMMA CleanerStart == CleanerInit => CleanerInv
BY ChansAssumption
DEF CleanerInit, CleanerInv, CleanerTypeOK, NoPanic, FlagExact, UnbornUnused, NoLostCleaner, CurrentRuns

LEMMA CleanerKept == CleanerInv /\ [CleanerNext]_cleanerVars => CleanerInv'
<1> SUFFICES ASSUME CleanerInv, [CleanerNext]_cleanerVars PROVE CleanerInv'
  OBVIOUS
<1> USE ChansAssumption DEF CleanerInv, CleanerTypeOK, NoPanic, FlagExact, UnbornUnused,
        NoLostCleaner, CurrentRuns
<1>1. CASE UpdateClose
  BY <1>1 DEF UpdateClose, Close
<1>2. CASE UpdateMake
  <2>1. PICK ch \in Chans : /\ pc[ch] = "unborn" /\ stopCleaner' = ch
                            /\ pc' = [pc EXCEPT ![ch] = "read"]
    BY <1>2 DEF UpdateMake
  <2>2. UNCHANGED <<closed, stopped, panicked, held>> /\ ~updating' /\ ~cleanerClosed'
    BY <1>2 DEF UpdateMake
  <2>3. stopCleaner \in closed
    BY <1>2 DEF UpdateMake
  <2>4. CleanerTypeOK' /\ NoPanic' /\ FlagExact'
    <3>1. ~stopped /\ updating' = FALSE /\ cleanerClosed' = FALSE
      BY <1>2 DEF UpdateMake
    <3>2. CleanerTypeOK'
      BY <2>1, <2>2, <3>1
    <3>3. FlagExact'
      BY <2>1, <2>2, <3>1
    <3>4. QED
      BY <2>2, <3>2, <3>3
  <2>5. UnbornUnused'
    BY <2>1, <2>2, <2>3
  <2>6. NoLostCleaner'
    BY <2>1, <2>2, <2>3
  <2>7. CurrentRuns'
    BY <2>1, <2>2
  <2>8. QED
    BY <2>4, <2>5, <2>6, <2>7
<1>3. CASE Stop
  BY <1>3 DEF Stop, Close
<1>4. ASSUME NEW g \in Chans, Read(g)
      PROVE  CleanerInv'
  BY <1>4 DEF Read, fieldVars
<1>5. ASSUME NEW g \in Chans, TickerFires(g)
      PROVE  CleanerInv'
  BY <1>5 DEF TickerFires, Leave, fieldVars
<1>6. ASSUME NEW g \in Chans, Exit(g)
      PROVE  CleanerInv'
  BY <1>6 DEF Exit, Leave, fieldVars
<1>7. ASSUME NEW g \in Chans, Clean(g)
      PROVE  CleanerInv'
  BY <1>7 DEF Clean, fieldVars
<1>8. CASE UNCHANGED cleanerVars
  BY <1>8 DEF cleanerVars, fieldVars
<1>9. QED
  BY <1>1, <1>2, <1>3, <1>4, <1>5, <1>6, <1>7, <1>8 DEF CleanerNext

LEMMA CleanerSafety == CleanerSpec => []CleanerInv
BY CleanerStart, CleanerKept, PTL DEF CleanerSpec

(* The variables keep their types, and a cleaner holds a channel while it  *)
(* selects, and only then (cache.go:460-472).                              *)
THEOREM CleanerTypeCorrect == CleanerSpec => []CleanerTypeOK
<1>1. CleanerInv => CleanerTypeOK
  BY DEF CleanerInv
<1>2. QED
  BY <1>1, CleanerSafety, PTL

(* However often the lifetime changes and Stop is called, no channel is    *)
(* closed twice (cache.go:476-515).                                        *)
THEOREM NeverPanics == CleanerSpec => []NoPanic
<1>1. CleanerInv => NoPanic
  BY DEF CleanerInv
<1>2. QED
  BY <1>1, CleanerSafety, PTL

(* No cleaner waits on a channel that is neither closed nor the one that the *)
(* next UpdateTTL or Stop will close (cache.go:460-472, 505-515).          *)
THEOREM AllReached == CleanerSpec => []NoLostCleaner
<1>1. CleanerInv => NoLostCleaner
  BY DEF CleanerInv
<1>2. QED
  BY <1>1, CleanerSafety, PTL

(* A cache that has not been stopped is cleaned (cache.go:491-515).        *)
THEOREM AlwaysCleaned == CleanerSpec => []StillCleaning
<1>1. CleanerInv => StillCleaning
  <2> SUFFICES ASSUME CleanerInv, ~stopped, ~updating PROVE StillCleaning
    BY DEF StillCleaning
  <2>1. stopCleaner \in Chans /\ stopCleaner \notin closed
    BY DEF CleanerInv, CleanerTypeOK, FlagExact
  <2>2. \/ pc[stopCleaner] \in {"read", "cleanup"}
        \/ pc[stopCleaner] = "select" /\ held[stopCleaner] = stopCleaner
    BY <2>1 DEF CleanerInv, CurrentRuns
  <2>3. QED
    BY <2>1, <2>2 DEF StillCleaning
<1>2. QED
  BY <1>1, CleanerSafety, PTL

=============================================================================

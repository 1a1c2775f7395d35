------------------------- MODULE StreamRequestProofs -------------------------
(***************************************************************************)
(* Proofs about StreamRequest for any number of requests, sources, files   *)
(* and URLs: a request is redirected only where it is meant to be.         *)
(***************************************************************************)
EXTENDS StreamRequest, TLAPS

(* Steps at which a request has a URL in its hand that it may give away.   *)
Holding == {"check", "playable", "found", "resolved", "stored"}

Fits(r) ==
    /\ r \in ReqState
    /\ r.pc # "done" => r.answer = "none"
    /\ r.pc \notin {"find", "miss", "done"} => r.source \in Sources
    /\ r.pc \in Holding => r.url \in Given(FileOf[r.source])

(* Each cache has under its key what the file of the key may be given.     *)
CachesFit ==
    /\ \A s \in Sources : streams[s] # None => streams[s] \in Given(FileOf[s])
    /\ \A f \in Files : urlCache[f] # None => urlCache[f] \in Given(f)

Inv == TypeOK /\ CachesFit /\ \A q \in Requests : Fits(req[q])

(* What a step leaves of everything but the requests.                      *)
World ==
    /\ kind' = kind
    /\ streams' \in [Sources -> Urls \cup {None}]
    /\ urlCache' \in [Files -> Urls \cup {None}]
    /\ validated' \subseteq Urls /\ dead' \subseteq Urls /\ preloads' \subseteq Files
    /\ CachesFit'

LEMMA SameCachesFit == ASSUME Inv, SameCaches, SameWorld PROVE World
BY DEF Inv, TypeOK, CachesFit, World, SameCaches, SameWorld, Given

LEMMA StoredForSource ==
    ASSUME Inv, NEW s \in Sources, NEW u \in Given(FileOf[s]) \cup {None},
           streams' = [streams EXCEPT ![s] = u], UNCHANGED <<urlCache, validated>>, SameWorld
    PROVE  World
<1>1. u \in Urls \cup {None}
  BY DEF Given, Urls, Files
<1>2. /\ streams' \in [Sources -> Urls \cup {None}]
      /\ \A x \in Sources : streams'[x] # None => streams'[x] \in Given(FileOf[x])
  BY <1>1 DEF Inv, TypeOK, CachesFit
<1> QED
  BY <1>2 DEF Inv, TypeOK, CachesFit, World, SameWorld, Given

LEMMA StoredForFile ==
    ASSUME Inv, NEW f \in Files, NEW u \in Given(f),
           urlCache' = [urlCache EXCEPT ![f] = u], UNCHANGED <<streams, validated>>, SameWorld
    PROVE  World
<1>1. u \in Urls
  BY DEF Given, Urls
<1>2. /\ urlCache' \in [Files -> Urls \cup {None}]
      /\ \A x \in Files : urlCache'[x] # None => urlCache'[x] \in Given(x)
  BY <1>1 DEF Inv, TypeOK, CachesFit
<1> QED
  BY <1>2 DEF Inv, TypeOK, CachesFit, World, SameWorld, Given

LEMMA GivenAreUrls == \A f \in Files : Given(f) \subseteq Urls
BY DEF Given, Urls

LEMMA FileOfSource == \A s \in Sources : FileOf[s] \in Files
BY DEF Files

-----------------------------------------------------------------------------
(* What a step of request q makes of its state.                            *)
Becomes(q, r) == /\ req' \in [Requests -> ReqState]
                 /\ req'[q] = r
                 /\ \A p \in Requests \ {q} : req'[p] = req[p]
Moves(q) == /\ Becomes(q, req'[q])
            /\ Fits(req'[q])
            /\ req'[q].answer = "redirect" => req'[q].url \in Given(FileFor(q))

LEMMA Hand ==
    ASSUME Inv, NEW q \in Requests
    PROVE  req[q] \in ReqState /\ Fits(req[q]) /\ req \in [Requests -> ReqState]
BY DEF Inv, TypeOK

LEMMA IdleState ==
    /\ Idle \in ReqState
    /\ Idle.pc = "done" /\ Idle.source = None /\ Idle.url = None
    /\ Idle.closed = FALSE /\ Idle.answer = "none"
BY DEF Idle, ReqState, Steps, Answers

LEMMA Becoming ==
    ASSUME Inv, NEW q \in Requests, NEW r \in ReqState, req' = [req EXCEPT ![q] = r]
    PROVE  Becomes(q, r)
BY DEF Becomes, Inv, TypeOK

LEMMA Gone ==
    ASSUME Inv, NEW q \in Requests, NEW pc \in Steps \ {"done", "find"}, Goto(q, pc),
           req[q].pc # "done", pc # "miss" => req[q].source \in Sources,
           pc \in Holding => req[q].url \in Given(FileFor(q))
    PROVE  Moves(q)
<1> DEFINE r == [req[q] EXCEPT !.pc = pc]
<1>1. req[q] \in ReqState /\ req[q].answer = "none"
  BY Hand DEF Fits
<1>2. r \in ReqState
  BY <1>1 DEF ReqState
<1>3. r.pc = pc /\ r.source = req[q].source /\ r.url = req[q].url /\ r.answer = "none"
  BY <1>1 DEF ReqState
<1>4. req' = [req EXCEPT ![q] = r]
  BY DEF Goto
<1> HIDE DEF r
<1>5. Becomes(q, r)
  BY <1>2, <1>4, Becoming
<1>6. Fits(r)
  BY <1>2, <1>3 DEF Fits, FileFor
<1> QED
  BY <1>3, <1>5, <1>6 DEF Moves, Becomes

LEMMA Taken ==
    ASSUME Inv, NEW q \in Requests, NEW pc \in Steps \ {"done", "find", "miss"},
           NEW u, With(q, pc, u), req[q].pc # "done", req[q].source \in Sources,
           u \in Given(FileFor(q)) \/ (u = None /\ pc \notin Holding)
    PROVE  Moves(q)
<1> DEFINE r == [req[q] EXCEPT !.pc = pc, !.url = u]
<1>1. req[q] \in ReqState /\ req[q].answer = "none"
  BY Hand DEF Fits
<1>2. u \in Urls \cup {None}
  BY GivenAreUrls, FileOfSource DEF FileFor
<1>3. r \in ReqState
  BY <1>1, <1>2 DEF ReqState
<1>4. r.pc = pc /\ r.source = req[q].source /\ r.url = u /\ r.answer = "none"
  BY <1>1 DEF ReqState
<1>5. req' = [req EXCEPT ![q] = r]
  BY DEF With
<1> HIDE DEF r
<1>6. Becomes(q, r)
  BY <1>3, <1>5, Becoming
<1>7. Fits(r)
  BY <1>3, <1>4 DEF Fits, FileFor
<1> QED
  BY <1>4, <1>6, <1>7 DEF Moves, Becomes

LEMMA Replied ==
    ASSUME Inv, NEW q \in Requests, NEW a \in Answers, NEW u \in Urls \cup {None},
           Reply(q, a, u), a = "redirect" => u \in Given(FileFor(q))
    PROVE  Moves(q)
<1> DEFINE r == [Idle EXCEPT !.answer = a, !.url = u]
<1>1. r \in ReqState
  BY IdleState DEF ReqState
<1>2. r.pc = "done" /\ r.url = u /\ r.answer = a
  BY IdleState DEF ReqState
<1>3. req' = [req EXCEPT ![q] = r]
  BY DEF Reply
<1> HIDE DEF r
<1>4. Becomes(q, r)
  BY <1>1, <1>3, Becoming
<1>5. Fits(r)
  BY <1>1, <1>2 DEF Fits, Holding
<1> QED
  BY <1>2, <1>4, <1>5 DEF Moves, Becomes

LEMMA Redirected ==
    ASSUME Inv, NEW q \in Requests, req[q].source \in Sources, NEW u \in Given(FileFor(q)),
           Reply(q, "redirect", u)
    PROVE  Moves(q)
<1>1. u \in Urls
  BY GivenAreUrls, FileOfSource DEF FileFor
<1> QED
  BY <1>1, Replied DEF Answers

(* The steps before a URL is looked for.                                   *)
LEMMA Finds ==
    ASSUME Inv, NEW q \in Requests, FindSource(q) \/ Miss(q)
    PROVE  Moves(q)
<1>1. ASSUME Found(q), req[q].pc # "done" PROVE Moves(q)
  <2>1. PICK s \in Sources : req' = [req EXCEPT ![q].pc = "lookup", ![q].source = s]
    BY <1>1 DEF Found
  <2> DEFINE r == [req[q] EXCEPT !.pc = "lookup", !.source = s]
  <2>2. req[q] \in ReqState /\ req[q].answer = "none"
    BY <1>1, Hand DEF Fits
  <2>3. r \in ReqState
    BY <2>2 DEF ReqState, Steps
  <2>4. r.pc = "lookup" /\ r.source = s /\ r.answer = "none"
    BY <2>2 DEF ReqState
  <2>5. req' = [req EXCEPT ![q] = r]
    BY <2>1
  <2> HIDE DEF r
  <2>6. Becomes(q, r)
    BY <2>3, <2>5, Becoming
  <2>7. Fits(r)
    BY <2>3, <2>4 DEF Fits, Holding
  <2> QED
    BY <2>4, <2>6, <2>7 DEF Moves, Becomes
<1>2. ASSUME Goto(q, "miss"), req[q].pc # "done" PROVE Moves(q)
  BY <1>2, Gone DEF Steps, Holding
<1>3. ASSUME Reply(q, "none", None) PROVE Moves(q)
  BY <1>3, Replied DEF Answers
<1> QED
  BY <1>1, <1>2, <1>3 DEF FindSource, Miss, At

(* The steps that look a URL up, check it and drop it.                     *)
LEMMA Checks ==
    ASSUME Inv, NEW q \in Requests,
           Lookup(q) \/ Validate(q) \/ Mark(q) \/ DeleteStream(q) \/ Purge(q)
    PROVE  Moves(q) /\ World
<1>1. req[q].source \in Sources /\ req[q].pc # "done"
  BY Hand DEF Lookup, Validate, Mark, DeleteStream, Purge, At, Fits
<1>2. CASE Lookup(q)
  <2> DEFINE u == streams[req[q].source]
  <2>1. u # None => u \in Given(FileFor(q))
    BY <1>1 DEF Inv, CachesFit, FileFor
  <2>2. ASSUME Goto(q, "read") PROVE Moves(q)
    BY <1>1, <2>2, Gone DEF Steps, Holding
  <2>3. ASSUME u \in validated, Reply(q, "redirect", u) PROVE Moves(q)
    <3>1. u # None
      BY <2>3, UrlsAssumption DEF Inv, TypeOK
    <3> QED
      BY <1>1, <2>1, <2>3, <3>1, Redirected
  <2>4. ASSUME u # None, With(q, "check", u) PROVE Moves(q)
    BY <1>1, <2>1, <2>4, Taken DEF Steps, Holding
  <2> QED
    BY <1>2, <2>2, <2>3, <2>4, SameCachesFit DEF Lookup
<1>3. CASE Validate(q)
  <2>1. req[q].url \in Given(FileFor(q))
    BY <1>3, Hand DEF Validate, At, Fits, Holding, FileFor
  <2> QED
    BY <1>1, <1>3, <2>1, Gone, SameCachesFit DEF Validate, Steps
<1>4. CASE Mark(q)
  <2>1. req[q].url \in Given(FileFor(q))
    BY <1>4, Hand DEF Mark, At, Fits, Holding, FileFor
  <2>2. Moves(q)
    BY <1>1, <1>4, <2>1, Redirected DEF Mark
  <2>3. req[q].url \in Urls
    BY <1>1, <2>1, GivenAreUrls, FileOfSource DEF FileFor
  <2>4. World
    BY <1>4, <2>3 DEF Mark, Inv, TypeOK, CachesFit, World, SameWorld, Given
  <2> QED
    BY <2>2, <2>4
<1>5. CASE DeleteStream(q)
  <2>1. Moves(q)
    BY <1>1, <1>5, Gone DEF DeleteStream, Steps, Holding
  <2> QED
    BY <1>1, <1>5, <2>1, StoredForSource DEF DeleteStream
<1>6. CASE Purge(q)
  <2>1. Moves(q)
    BY <1>1, <1>6, Taken DEF Purge, Steps, Holding
  <2> QED
    BY <1>6, <2>1 DEF Purge, Inv, TypeOK, CachesFit, World, SameWorld, Given
<1> QED
  BY <1>2, <1>3, <1>4, <1>5, <1>6

(* parallelResolve, without its waiting.                                   *)
LEMMA Reads ==
    ASSUME Inv, NEW q \in Requests,
           ReadStrm(q) \/ AnswerLan(q) \/ GetURLCache(q) \/ StoreFound(q) \/ Fallback(q)
    PROVE  Moves(q) /\ World
<1>1. req[q].source \in Sources /\ req[q].pc # "done"
  BY Hand DEF ReadStrm, AnswerLan, GetURLCache, StoreFound, Fallback, At, Fits
<1>2. FileFor(q) \in Files /\ FileFor(q) \in Urls
  BY <1>1, FileOfSource DEF FileFor, Urls
<1>3. CASE ReadStrm(q)
  BY <1>1, <1>3, Gone, SameCachesFit DEF ReadStrm, Steps, Holding
<1>4. CASE AnswerLan(q)
  <2>1. FileFor(q) \in Given(FileFor(q))
    BY <1>4 DEF AnswerLan, Given
  <2>2. Moves(q)
    BY <1>1, <1>4, <2>1, Redirected DEF AnswerLan
  <2>3. World
    BY <1>1, <1>4, <2>1, StoredForSource DEF AnswerLan, FileFor
  <2> QED
    BY <2>2, <2>3
<1>5. CASE GetURLCache(q)
  <2> DEFINE f == FileFor(q)
             u == urlCache[f]
  <2>1. CASE u # None /\ With(q, "found", u)
    <3>1. u \in Given(f)
      BY <1>2, <2>1 DEF Inv, CachesFit
    <3> QED
      BY <1>1, <1>5, <2>1, <3>1, Taken, SameCachesFit DEF GetURLCache, Steps
  <2>2. CASE Goto(q, "fallback") \/ Goto(q, "join")
    BY <1>1, <1>5, <2>2, Gone, SameCachesFit DEF GetURLCache, Steps, Holding
  <2>3. CASE kind[f] = "direct" /\ With(q, "resolved", f)
    <3>1. f \in Given(f)
      BY <2>3 DEF Given
    <3> QED
      BY <1>1, <1>5, <2>3, <3>1, Taken, SameCachesFit DEF GetURLCache, Steps
  <2> QED
    BY <1>5, <2>1, <2>2, <2>3 DEF GetURLCache
<1>6. CASE StoreFound(q)
  <2>1. req[q].url \in Given(FileFor(q))
    BY <1>6, Hand DEF StoreFound, At, Fits, Holding, FileFor
  <2>2. Moves(q)
    BY <1>1, <1>6, <2>1, Redirected DEF StoreFound
  <2>3. World
    BY <1>1, <1>6, <2>1, StoredForSource DEF StoreFound, FileFor
  <2> QED
    BY <2>2, <2>3
<1>7. CASE Fallback(q)
  <2>1. Moves(q)
    BY <1>2, <1>7, Replied DEF Fallback, Answers
  <2> QED
    BY <1>7, <2>1, SameCachesFit DEF Fallback
<1> QED
  BY <1>3, <1>4, <1>5, <1>6, <1>7

(* Waiting for a preload, and resolving.                                   *)
LEMMA Resolves ==
    ASSUME Inv, NEW q \in Requests,
           \/ Join(q) \/ Timeout(q) \/ Woken(q) \/ Resolve(q)
           \/ StoreStream(q) \/ StoreURL(q)
    PROVE  Moves(q) /\ World
<1>1. req[q].source \in Sources /\ req[q].pc # "done"
  BY Hand DEF Join, Timeout, Woken, Resolve, StoreStream, StoreURL, At, Fits
<1>2. CASE Join(q) \/ Timeout(q)
  BY <1>1, <1>2, Gone, SameCachesFit DEF Join, Timeout, Steps, Holding
<1>3. CASE Woken(q)
  <2> DEFINE u == streams[req[q].source]
  <2>1. u # None => u \in Given(FileFor(q))
    BY <1>1 DEF Inv, CachesFit, FileFor
  <2>2. CASE u = None
    BY <1>1, <1>3, <2>2, Gone, SameCachesFit DEF Woken, Steps, Holding
  <2>3. CASE u # None
    BY <1>1, <1>3, <2>1, <2>3, Redirected, SameCachesFit DEF Woken
  <2> QED
    BY <2>2, <2>3
<1>4. CASE Resolve(q)
  <2>1. ASSUME NEW u \in Given(FileFor(q)), With(q, "resolved", u) PROVE Moves(q)
    BY <1>1, <2>1, Taken DEF Steps
  <2>2. Goto(q, "fallback") => Moves(q)
    BY <1>1, Gone DEF Steps, Holding
  <2> QED
    BY <1>4, <2>1, <2>2, SameCachesFit DEF Resolve
<1>5. ASSUME StoreStream(q) \/ StoreURL(q) PROVE req[q].url \in Given(FileFor(q))
  BY <1>5, Hand DEF StoreStream, StoreURL, At, Fits, Holding, FileFor
<1>6. CASE StoreStream(q)
  <2>1. Moves(q)
    BY <1>1, <1>5, <1>6, Gone DEF StoreStream, Steps
  <2>2. World
    BY <1>1, <1>5, <1>6, StoredForSource DEF StoreStream, FileFor
  <2> QED
    BY <2>1, <2>2
<1>7. CASE StoreURL(q)
  <2>1. Moves(q)
    BY <1>1, <1>5, <1>7, Redirected DEF StoreURL
  <2>2. World
    BY <1>1, <1>5, <1>7, StoredForFile, FileOfSource DEF StoreURL, FileFor
  <2> QED
    BY <2>1, <2>2
<1> QED
  BY <1>2, <1>3, <1>4, <1>6, <1>7

LEMMA StepMoves ==
    ASSUME Inv, NEW q \in Requests, Step(q)
    PROVE  Moves(q) /\ World /\ req[q].pc # "done"
<1>1. req[q].pc # "done"
  BY DEF Step, FindSource, Miss, Lookup, Validate, Mark, DeleteStream, Purge, ReadStrm,
         AnswerLan, GetURLCache, StoreFound, Join, Timeout, Woken, Resolve, StoreStream,
         StoreURL, Fallback, At
<1>2. FindSource(q) \/ Miss(q) => World
  BY SameCachesFit DEF FindSource, Miss
<1> QED
  BY <1>1, <1>2, Finds, Checks, Reads, Resolves DEF Step

-----------------------------------------------------------------------------
(* The steps of everybody else.                                            *)

(* Requests that stay as they are, or learn that a channel is closed.      *)
Told == \A q \in Requests :
           \E b \in BOOLEAN : req'[q] = [req[q] EXCEPT !.closed = b]

LEMMA ToldFits ==
    ASSUME Inv, World, Told, req' \in [Requests -> ReqState]
    PROVE  Inv' /\ \A q \in Requests : /\ req'[q].pc = req[q].pc
                                       /\ req'[q].answer = req[q].answer
<1>1. ASSUME NEW q \in Requests
      PROVE  /\ Fits(req[q])'
             /\ req'[q].pc = req[q].pc /\ req'[q].answer = req[q].answer
  <2>1. PICK b \in BOOLEAN : req'[q] = [req[q] EXCEPT !.closed = b]
    BY DEF Told
  <2> DEFINE r == [req[q] EXCEPT !.closed = b]
  <2>2. req[q] \in ReqState /\ Fits(req[q])
    BY Hand
  <2>3. r \in ReqState
    BY <2>2 DEF ReqState
  <2>4. /\ r.pc = req[q].pc /\ r.source = req[q].source /\ r.url = req[q].url
        /\ r.answer = req[q].answer
    BY <2>2 DEF ReqState
  <2> HIDE DEF r
  <2>5. Fits(r)
    BY <2>2, <2>3, <2>4 DEF Fits
  <2>6. req'[q] = r
    BY <2>1 DEF r
  <2> QED
    BY <2>4, <2>5, <2>6 DEF Fits, Given, World
<1>2. TypeOK'
  BY DEF World, Inv, TypeOK
<1> QED
  BY <1>1, <1>2 DEF Inv, World

LEMMA SameRequests == ASSUME Inv, UNCHANGED req PROVE Told /\ req' \in [Requests -> ReqState]
<1>1. ASSUME NEW q \in Requests PROVE req'[q] = [req[q] EXCEPT !.closed = req[q].closed]
  <2>1. req[q] \in ReqState
    BY Hand
  <2> QED
    BY <2>1 DEF ReqState
<1>2. \A q \in Requests : req[q].closed \in BOOLEAN
  BY Hand DEF ReqState
<1> QED
  BY <1>1, <1>2 DEF Told, Inv, TypeOK

LEMMA PreloadTold ==
    ASSUME Inv, NEW f, NEW told, Ends(f, told)
    PROVE  Told /\ req' \in [Requests -> ReqState]
<1>1. ASSUME NEW q \in Requests
      PROVE  /\ \E b \in BOOLEAN : req'[q] = [req[q] EXCEPT !.closed = b]
             /\ req'[q] \in ReqState
  <2>1. req[q] = [req[q] EXCEPT !.closed = req[q].closed] /\ req[q].closed \in BOOLEAN
    BY Hand DEF ReqState
  <2>2. req'[q] = [req[q] EXCEPT !.closed = TRUE] \/ req'[q] = req[q]
    BY DEF Ends
  <2>3. [req[q] EXCEPT !.closed = TRUE] \in ReqState
    BY Hand DEF ReqState
  <2> QED
    BY <2>1, <2>2, <2>3, Hand
<1>2. DOMAIN req' = Requests /\ req' = [q \in Requests |-> req'[q]]
  BY DEF Ends
<1> QED
  BY <1>1, <1>2 DEF Told

LEMMA PreloadsFit ==
    ASSUME Inv,
           \/ \E f \in Files : PreloadBegins(f) \/ PreloadFails(f)
           \/ \E s \in Sources : PreloadStores(s)
    PROVE  World /\ Told /\ req' \in [Requests -> ReqState]
<1>1. ASSUME NEW f \in Files, PreloadBegins(f)
      PROVE  World /\ Told /\ req' \in [Requests -> ReqState]
  <2>1. World
    BY <1>1 DEF PreloadBegins, SameCaches, Inv, TypeOK, CachesFit, World, Given
  <2> QED
    BY <1>1, <2>1, SameRequests DEF PreloadBegins
<1>2. ASSUME NEW f \in Files, PreloadFails(f)
      PROVE  World /\ Told /\ req' \in [Requests -> ReqState]
  <2>1. PICK told \in BOOLEAN : Ends(f, told)
    BY <1>2 DEF PreloadFails
  <2>2. World
    BY <1>2, <2>1 DEF PreloadFails, Ends, SameCaches, Inv, TypeOK, CachesFit, World, Given
  <2> QED
    BY <2>1, <2>2, PreloadTold
<1>3. ASSUME NEW s \in Sources, PreloadStores(s)
      PROVE  World /\ Told /\ req' \in [Requests -> ReqState]
  <2> DEFINE f == FileOf[s]
  <2>1. Ends(f, TRUE) /\ UNCHANGED validated
    BY <1>3 DEF PreloadStores
  <2>2. PICK u \in Given(f) : /\ streams' = [streams EXCEPT ![s] = u]
                             /\ urlCache' = [urlCache EXCEPT ![f] = u]
    BY <1>3 DEF PreloadStores
  <2>3. f \in Files /\ u \in Urls
    BY <2>2, FileOfSource, GivenAreUrls
  <2>4. kind' = kind /\ dead' = dead /\ preloads' \subseteq Files
    BY <2>1 DEF Ends, Inv, TypeOK
  <2>5. /\ streams' \in [Sources -> Urls \cup {None}]
        /\ \A x \in Sources : streams'[x] # None => streams'[x] \in Given(FileOf[x])
    BY <2>2, <2>3 DEF Inv, TypeOK, CachesFit
  <2>6. /\ urlCache' \in [Files -> Urls \cup {None}]
        /\ \A x \in Files : urlCache'[x] # None => urlCache'[x] \in Given(x)
    BY <2>2, <2>3 DEF Inv, TypeOK, CachesFit
  <2>7. World
    BY <2>1, <2>4, <2>5, <2>6 DEF Inv, TypeOK, CachesFit, World, Given
  <2> QED
    BY <2>1, <2>7, PreloadTold
<1> QED
  BY <1>1, <1>2, <1>3

LEMMA EntriesFit ==
    ASSUME Inv,
           \/ \E f \in Files : Die(f)
           \/ \E u \in Urls : MarkExpires(u)
           \/ Lose
           \/ UNCHANGED vars
    PROVE  World /\ Told /\ req' \in [Requests -> ReqState]
<1>1. ASSUME NEW f \in Files, Die(f) PROVE World
  BY <1>1, GivenAreUrls DEF Die, SameCaches, Inv, TypeOK, CachesFit, World, Given
<1>2. ASSUME NEW u \in Urls, MarkExpires(u) PROVE World
  BY <1>2 DEF MarkExpires, SameWorld, Inv, TypeOK, CachesFit, World, Given
<1>3. ASSUME Lose PROVE World
  <2>1. /\ streams' \in [Sources -> Urls \cup {None}]
        /\ \A x \in Sources : streams'[x] = streams[x] \/ streams'[x] = None
    BY <1>3 DEF Lose, Inv, TypeOK
  <2>2. /\ urlCache' \in [Files -> Urls \cup {None}]
        /\ \A x \in Files : urlCache'[x] = urlCache[x] \/ urlCache'[x] = None
    BY <1>3 DEF Lose, Inv, TypeOK
  <2>3. validated' \subseteq Urls /\ SameWorld
    BY <1>3 DEF Lose, Inv, TypeOK
  <2> QED
    BY <2>1, <2>2, <2>3 DEF Inv, TypeOK, CachesFit, World, SameWorld, Given
<1>4. ASSUME UNCHANGED vars PROVE World
  BY <1>4, SameCachesFit DEF vars, SameCaches, SameWorld
<1>5. UNCHANGED req
  BY DEF Die, MarkExpires, Lose, vars
<1> QED
  BY <1>1, <1>2, <1>3, <1>4, <1>5, SameRequests

(* A new request.                                                          *)
LEMMA Arrives ==
    ASSUME Inv, NEW q \in Requests, Handle(q)
    PROVE  Moves(q) /\ World
<1> DEFINE r == [Idle EXCEPT !.pc = "find"]
<1>1. r \in ReqState /\ r.pc = "find" /\ r.answer = "none"
  BY IdleState DEF ReqState, Steps
<1>2. req' = [req EXCEPT ![q] = r]
  BY DEF Handle
<1> HIDE DEF r
<1>3. Becomes(q, r) /\ Fits(r)
  BY <1>1, <1>2, Becoming DEF Fits, Holding
<1>4. Moves(q)
  BY <1>1, <1>3 DEF Moves, Becomes
<1> QED
  BY <1>4, SameCachesFit DEF Handle

LEMMA MovesFit ==
    ASSUME Inv, NEW q \in Requests, Moves(q), World
    PROVE  Inv'
<1>2. req' \in [Requests -> ReqState] /\ \A p \in Requests : Fits(req'[p])
  BY Hand DEF Moves, Becomes
<1>3. \A p \in Requests : Fits(req[p])'
  BY <1>2 DEF Fits, Given, World
<1>4. TypeOK'
  BY <1>2 DEF World, Inv, TypeOK
<1> QED
  BY <1>3, <1>4 DEF Inv, World

-----------------------------------------------------------------------------
LEMMA StreamInit == Init => Inv
<1> SUFFICES ASSUME Init PROVE Inv
  OBVIOUS
<1>1. TypeOK
  BY DEF Init, TypeOK, Idle, ReqState, Steps, Answers
<1>2. CachesFit
  BY DEF Init, CachesFit
<1>3. \A q \in Requests : Fits(req[q])
  BY <1>1 DEF Init, Idle, Fits, TypeOK, Holding
<1> QED
  BY <1>1, <1>2, <1>3 DEF Inv

(* What a step can be: of one request, or one that leaves the answers alone. *)
LEMMA WhatMoves ==
    ASSUME Inv, [Next]_vars
    PROVE  \/ \E q \in Requests : (Handle(q) \/ Step(q)) /\ Moves(q) /\ World
           \/ World /\ Told /\ req' \in [Requests -> ReqState]
BY Arrives, StepMoves, PreloadsFit, EntriesFit DEF Next

LEMMA StreamNext == Inv /\ [Next]_vars => Inv'
BY WhatMoves, MovesFit, ToldFits

(* The type invariant, for any number of everything (stream.go:1693-2056). *)
THEOREM TypeCorrect == Spec => []TypeOK
<1>1. Inv => TypeOK
  BY DEF Inv
<1> QED
  BY <1>1, StreamInit, StreamNext, PTL DEF Spec

(* A request is redirected to a URL meant for its source, or to the URL in *)
(* the file as the fallback: whatever other requests, preloads, expiry and *)
(* refusals do to the caches between its steps (stream.go:1693-2056).      *)
THEOREM RightURL == Spec => AnswerFits
<1>1. ASSUME Inv, [Next]_vars, NEW q \in Requests, NEW u \in Urls \cup {None}, Serves(q, u)
      PROVE  u \in Given(FileFor(q))
  <2>1. req[q].pc # "done" /\ req'[q].answer = "redirect" /\ req'[q].url = u
    BY <1>1 DEF Serves, At
  <2>2. req[q].answer = "none"
    BY <1>1, <2>1 DEF Inv, Fits
  <2>3. CASE \E p \in Requests : Moves(p)
    <3>1. PICK p \in Requests : Moves(p)
      BY <2>3
    <3>2. p = q
      BY <2>1, <2>2, <3>1 DEF Moves, Becomes
    <3> QED
      BY <2>1, <3>1, <3>2 DEF Moves
  <2>4. CASE World /\ Told /\ req' \in [Requests -> ReqState]
    BY <1>1, <2>1, <2>2, <2>4, ToldFits
  <2> QED
    BY <1>1, <2>3, <2>4, WhatMoves
<1>2. Inv /\ [Next]_vars => [\A q \in Requests, u \in Urls \cup {None} :
                                   Serves(q, u) => u \in Given(FileFor(q))]_vars
  BY <1>1
<1> QED
  BY <1>2, StreamInit, StreamNext, PTL DEF Spec, AnswerFits

=============================================================================

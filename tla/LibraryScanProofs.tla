-------------------------- MODULE LibraryScanProofs --------------------------
(* Proofs about LibraryScan for any libraries, threads and sizes.           *)
EXTENDS LibraryScan, FiniteSetTheorems, SequenceTheorems, TLAPS

(***************************************************************************)
(* Sequences, whatever they hold, and what becomes of their elements.      *)
(***************************************************************************)
IsSequence(s) == s \in Seq(ToSet(s))

LEMMA AnySequence == ASSUME NEW S, NEW s \in Seq(S) PROVE IsSequence(s)
<1>1. s \in Seq(Range(s))
  BY SeqOfRange
<1>2. QED
  BY <1>1 DEF IsSequence, ToSet, Range

LEMMA SequenceOf ==
    ASSUME NEW f, f = [n \in DOMAIN f |-> f[n]], NEW k \in Nat, DOMAIN f = 1..k
    PROVE  IsSequence(f) /\ Len(f) = k
<1>1. f \in Seq(ToSet(f))
  BY DEF ToSet
<1>2. QED
  BY <1>1, AnySequence DEF IsSequence

LEMMA EmptySequence == IsSequence(<<>>) /\ ToSet(<<>>) = {}
<1>1. <<>> \in Seq({})
  OBVIOUS
<1>2. IsSequence(<<>>)
  BY <1>1, AnySequence
<1>3. QED
  BY <1>2 DEF ToSet

LEMMA ConcatSequence ==
    ASSUME NEW s, NEW r, IsSequence(s), IsSequence(r)
    PROVE  /\ IsSequence(s \o r)
           /\ ToSet(s \o r) = ToSet(s) \cup ToSet(r)
<1> DEFINE S == ToSet(s) \cup ToSet(r)
<1>1. s \in Seq(S) /\ r \in Seq(S)
  BY SeqMonotonic DEF IsSequence
<1> HIDE DEF S
<1>2. s \o r \in Seq(S)
  BY <1>1, ConcatProperties
<1>3. Range(s \o r) = Range(s) \cup Range(r)
  BY <1>1, RangeConcatenation
<1>4. QED
  BY <1>2, <1>3, AnySequence DEF ToSet, Range

LEMMA AppendSequence ==
    ASSUME NEW s, IsSequence(s), NEW e
    PROVE  /\ IsSequence(Append(s, e))
           /\ ToSet(Append(s, e)) = ToSet(s) \cup {e}
<1> DEFINE S == ToSet(s) \cup {e}
<1>1. s \in Seq(S) /\ e \in S
  BY SeqMonotonic DEF IsSequence
<1> HIDE DEF S
<1>2. Append(s, e) = s \o <<e>>
  BY <1>1, AppendIsConcat
<1>3. <<e>> \in Seq({e}) /\ ToSet(<<e>>) = {e}
  BY DEF ToSet
<1>4. IsSequence(<<e>>)
  BY <1>3, AnySequence
<1>5. QED
  BY <1>2, <1>3, <1>4, ConcatSequence

(* Cutting a sequence in two loses nothing.                                 *)
LEMMA CutSequence ==
    ASSUME NEW s, IsSequence(s), NEW n \in 0..Len(s)
    PROVE  /\ IsSequence(SubSeq(s, 1, n)) /\ IsSequence(SubSeq(s, n + 1, Len(s)))
           /\ ToSet(s) = ToSet(SubSeq(s, 1, n)) \cup ToSet(SubSeq(s, n + 1, Len(s)))
<1> DEFINE S == ToSet(s)
           a == SubSeq(s, 1, n)
           b == SubSeq(s, n + 1, Len(s))
<1>1. s \in Seq(S) /\ Len(s) \in Nat /\ n \in Nat
  BY DEF IsSequence
<1> HIDE DEF S
<1>2. a \in Seq(S) /\ b \in Seq(S)
  BY <1>1
<1>3. a \o b = SubSeq(s, 1, Len(s))
  <2>1. 1 \in 1..(Len(s) + 1) /\ n \in (1 - 1)..Len(s) /\ Len(s) \in n..Len(s)
    BY <1>1
  <2>2. QED
    BY <1>1, <2>1, ConcatAdjacentSubSeq
<1>4. SubSeq(s, 1, Len(s)) = s
  BY <1>1
<1>5. IsSequence(a) /\ IsSequence(b)
  BY <1>2, AnySequence
<1>6. ToSet(a \o b) = ToSet(a) \cup ToSet(b)
  BY <1>5, ConcatSequence
<1>7. QED
  BY <1>3, <1>4, <1>5, <1>6

(***************************************************************************)
(* What is true of the locals x of thread t at any time.                   *)
(***************************************************************************)
Joining == {"join", "lastJoin", "retryJoin"}

(* x is a record of the locals, whatever list of items it works on.         *)
Fields == {"pc", "lib", "todo", "visited", "pending", "failed", "tasks", "owed"}
IsRecord(x) == DOMAIN x = Fields /\ x = [k \in Fields |-> x[k]]

Locals(x) ==
    /\ IsRecord(x)
    /\ x.pc \in ScanPC \cup {"sleep", "gone"}
    /\ x.pc \notin ScanPC => x = Resting(x.pc)
    /\ IsSequence(x.pending) /\ IsSequence(x.failed) /\ IsSequence(x.tasks)
    /\ x.tasks = [n \in DOMAIN x.tasks |-> [item |-> x.tasks[n].item, pc |-> x.tasks[n].pc]]
    /\ x.pc \notin Joining => x.tasks = <<>>
    /\ x.pc \in {"retry", "retryJoin"} => x.pending = <<>>

(* What a full scan owes it has in its hands: the items of pending and      *)
(* failed, and during a batch the items of its tasks, which are those of    *)
(* pending.                                                                 *)
InHand(x) ==
    IF x.pc \in {"join", "lastJoin"}
    THEN /\ x.owed \subseteq ToSet(x.failed)
         /\ \A n \in DOMAIN x.tasks : x.tasks[n].item \in ToSet(x.pending)
    ELSE x.owed \subseteq ToSet(x.pending) \cup ToSet(x.failed)

(* Where the scan is, in which library and among which of its items.         *)
Unlisted(t, pc) ==
    \/ pc \in {"prepare", "lib", "list"}
    \/ t \in Incremental /\ pc \in {"flush", "join"}

Place(t, x) ==
    /\ x.lib \in 0..Len(Libraries)
    /\ x.pc = "list" => x.lib # 0
    /\ Unlisted(t, x.pc) => x.todo = {}
    /\ x.todo # {} => x.lib # 0 /\ x.todo \subseteq Expand(x.lib)
    /\ x.visited \in 0..MaxItems

(* What it has in its hands are items, and fewer than a batch until the      *)
(* batch is flushed.                                                        *)
Contents(t, x) ==
    /\ ToSet(x.pending) \subseteq Items /\ ToSet(x.failed) \subseteq Items
    /\ x.owed \subseteq Items
    /\ \A n \in DOMAIN x.tasks : x.tasks[n] \in Task
    /\ t \notin Incremental => Len(x.pending) <= FlushSize
    /\ t \notin Incremental /\ x.pc \notin {"flush", "join"} => Len(x.pending) < FlushSize

SamePlace(x, s) == s.lib = x.lib /\ s.todo = x.todo /\ s.visited = x.visited

LEMMA StaysInPlace ==
    ASSUME NEW t, NEW x, NEW s, SamePlace(x, s), Place(t, x), s.pc # "list",
           Unlisted(t, s.pc) => Unlisted(t, x.pc)
    PROVE  Place(t, s)
BY DEF SamePlace, Place, Unlisted

(* What is found at a place of a library is an item.                         *)
LEMMA ItemsExpanded ==
    ASSUME NEW l \in 0..Len(Libraries), l # 0, NEW p \in Expand(l)
    PROVE  Libraries[l][p[1]][p[2]] \in Items
<1>1. l \in 1..Len(Libraries)
  OBVIOUS
<1>2. Libraries[l] \in Seq(Seq(Items))
  BY <1>1, LibrariesAssumption
<1>3. PICK n \in DOMAIN Libraries[l] : p \in {n} \X DOMAIN Libraries[l][n]
  BY DEF Expand
<1>4. p[1] = n /\ p[2] \in DOMAIN Libraries[l][n]
  BY <1>3
<1>5. Libraries[l][n] \in Seq(Items)
  BY <1>2
<1>6. QED
  BY <1>4, <1>5

(* A scan that is left, or begins, after the stop has been waited for.      *)
Idle(t, x) ==
    /\ x.pc \in {"gone", "prepare", "lib", "finish", "retry"}
    /\ x.pending = <<>> /\ x.tasks = <<>>
    /\ t \in Schedulers => x.pc = "gone"

LEMMA RestingLocals ==
    ASSUME NEW pc \in {"sleep", "gone"}
    PROVE  /\ Locals(Resting(pc)) /\ InHand(Resting(pc))
           /\ \A t : Place(t, Resting(pc)) /\ Contents(t, Resting(pc))
<1> DEFINE x == Resting(pc)
<1>1. /\ x.pc = pc /\ x.tasks = <<>> /\ x.pending = <<>> /\ x.failed = <<>> /\ x.owed = {}
      /\ x.lib = 0 /\ x.todo = {} /\ x.visited = 0
  BY DEF Resting
<1>2. IsRecord(x)
  BY DEF Resting, IsRecord, Fields
<1>3. x = Resting(x.pc)
  BY <1>1
<1>4. x.tasks = [n \in DOMAIN x.tasks |-> [item |-> x.tasks[n].item, pc |-> x.tasks[n].pc]]
  BY <1>1
<1> HIDE DEF x
<1>5. Locals(x)
  BY <1>1, <1>2, <1>3, <1>4, EmptySequence DEF Locals, ScanPC, Joining
<1>6. InHand(x)
  BY <1>1 DEF InHand
<1>7. \A t : Place(t, x)
  BY <1>1, LibrariesAssumption DEF Place, Unlisted
<1>8. \A t : Contents(t, x)
  BY <1>1, EmptySequence, SizesAssumption DEF Contents
<1>9. QED
  BY <1>5, <1>6, <1>7, <1>8 DEF x

(* A step of one thread leaves the others alone.                            *)
LEMMA ToStep ==
    ASSUME th = [u \in Threads |-> th[u]], NEW t \in Threads, NEW s, To(t, s)
    PROVE  /\ th' = [u \in Threads |-> th'[u]]
           /\ th'[t] = s
           /\ \A u \in Threads \ {t} : th'[u] = th[u]
BY DEF To

(***************************************************************************)
(* The steps of a scan.  Result says what one leaves of the locals x.      *)
(***************************************************************************)
Result(t, x, s) ==
    /\ Locals(s)
    /\ \A n \in DOMAIN s.tasks : s.tasks[n].pc # "request"
    /\ t \notin Incremental /\ ~stopCh /\ ~batchStopped /\ InHand(x) => InHand(s)
    /\ Place(t, x) => Place(t, s)
    /\ Place(t, x) /\ Contents(t, x) => Contents(t, s)
    /\ stopCh /\ Idle(t, x) => Idle(t, s)

(* The tasks of a batch are started.                                        *)
LEMMA Started ==
    ASSUME NEW x, Locals(x), x.pc \in ScanPC, NEW batch, IsSequence(batch),
           NEW pc \in Joining, pc = "retryJoin" => x.pending = <<>>
    PROVE  LET s == StartTasks(x, batch, pc) IN
             /\ Locals(s) /\ s.pc = pc
             /\ s.pending = x.pending /\ s.failed = x.failed
             /\ s.owed = x.owed \ ToSet(batch) /\ SamePlace(x, s)
             /\ ToSet(batch) \subseteq Items => \A n \in DOMAIN s.tasks : s.tasks[n] \in Task
             /\ \A n \in DOMAIN s.tasks : /\ s.tasks[n].item \in ToSet(batch)
                                          /\ s.tasks[n].pc = "start"
<1> DEFINE ts == [n \in DOMAIN batch |-> [item |-> batch[n], pc |-> "start"]]
           s == StartTasks(x, batch, pc)
<1>1. ts = [n \in DOMAIN ts |-> [item |-> ts[n].item, pc |-> ts[n].pc]]
  OBVIOUS
<1>2. \A n \in DOMAIN ts : ts[n].item \in ToSet(batch) /\ ts[n].pc = "start"
  BY DEF ToSet
<1>3. s = [x EXCEPT !.pc = pc, !.owed = @ \ ToSet(batch), !.tasks = ts]
  BY DEF StartTasks
<1>4. IsSequence(ts)
  <2>1. DOMAIN ts = 1..Len(batch) /\ Len(batch) \in Nat
    BY DEF IsSequence
  <2>2. QED
    BY <2>1, SequenceOf
<1>5. ToSet(batch) \subseteq Items => \A n \in DOMAIN ts : ts[n] \in Task
  BY DEF ToSet, Task
<1> HIDE DEF ts, s
<1>6. /\ IsRecord(s) /\ s.pc = pc /\ s.tasks = ts
      /\ s.pending = x.pending /\ s.failed = x.failed /\ s.owed = x.owed \ ToSet(batch)
      /\ SamePlace(x, s)
  BY <1>3 DEF IsRecord, Fields, Locals, SamePlace
<1>7. Locals(s)
  BY <1>1, <1>4, <1>6 DEF Locals, Joining, ScanPC
<1>8. QED
  BY <1>2, <1>5, <1>6, <1>7 DEF s

(* A step that only moves the scan to another place or item.                *)
LEMMA Moved ==
    ASSUME NEW t, NEW x, Locals(x), x.pc \in ScanPC \ Joining,
           NEW s, IsRecord(s), s.pc \in ScanPC \ Joining,
           s.tasks = x.tasks, s.pending = x.pending, s.failed = x.failed, s.owed = x.owed,
           s.pc = "retry" => x.pending = <<>>,
           stopCh /\ Idle(t, x) => s.pc \in {"lib", "finish", "retry"},
           x.pc # "flush", Place(t, x) => Place(t, s)
    PROVE  Result(t, x, s)
<1>1. x.tasks = <<>>
  BY DEF Locals
<1>2. Locals(s)
  BY <1>1 DEF Locals, Joining
<1>3. InHand(x) => InHand(s)
  BY DEF InHand, Joining
<1>4. stopCh /\ Idle(t, x) => Idle(t, s)
  BY <1>1 DEF Idle, ScanPC
<1>5. Contents(t, x) => Contents(t, s)
  BY <1>1 DEF Contents, Joining
<1>6. QED
  BY <1>1, <1>2, <1>3, <1>4, <1>5 DEF Result

Goes(t) ==
    \E s : To(t, s) /\ Result(t, th[t], s) /\ s.pc \in ScanPC /\ SameControl

(* From one library to the next.                                            *)
LEMMA LibrarySteps ==
    ASSUME NEW t \in Threads, Locals(th[t]),
           Prepare(t) \/ NextLib(t) \/ List(t) \/ LastLib(t)
    PROVE  Leave(t) \/ Goes(t)
<1> DEFINE x == th[t]
<1>1. CASE Prepare(t)
  <2>1. SUFFICES ASSUME Update(t, "lib"), SameControl PROVE Goes(t)
    BY <1>1 DEF Prepare
  <2> DEFINE s == [x EXCEPT !.pc = "lib"]
  <2>2. /\ IsRecord(s) /\ s.pc = "lib" /\ s.tasks = x.tasks
        /\ s.pending = x.pending /\ s.failed = x.failed /\ s.owed = x.owed
        /\ SamePlace(x, s)
    BY DEF Locals, IsRecord, Fields, SamePlace
  <2>3. To(t, s) /\ x.pc \in ScanPC \ Joining /\ x.pc \in {"prepare", "lib"}
    BY <1>1, <2>1 DEF Update, Prepare, ScanPC, Joining
  <2> HIDE DEF s
  <2>4. Place(t, x) => Place(t, s)
    BY <2>2, <2>3, StaysInPlace DEF Unlisted
  <2>5. QED
    BY <2>1, <2>2, <2>3, <2>4, Moved DEF Goes, ScanPC, Joining
<1>2. CASE NextLib(t)
  <2> DEFINE s == [x EXCEPT !.pc = "list", !.lib = @ + 1]
  <2>1. /\ IsRecord(s) /\ s.pc = "list" /\ s.tasks = x.tasks
        /\ s.pending = x.pending /\ s.failed = x.failed /\ s.owed = x.owed
        /\ s.lib = x.lib + 1 /\ s.todo = x.todo /\ s.visited = x.visited
    BY DEF Locals, IsRecord, Fields
  <2>2. /\ To(t, s) /\ SameControl /\ ~stopCh /\ x.pc \in ScanPC \ Joining
        /\ x.pc = "lib" /\ x.lib < Len(Libraries)
    BY <1>2 DEF NextLib, ScanPC, Joining
  <2> HIDE DEF s
  <2>3. Place(t, x) => Place(t, s)
    BY <2>1, <2>2, LibrariesAssumption DEF Place, Unlisted
  <2>4. QED
    BY <2>1, <2>2, <2>3, Moved DEF Goes, ScanPC, Joining
<1>3. CASE List(t)
  <2>1. x.pc = "list" /\ x.pc \in ScanPC \ Joining /\ ~Idle(t, x) /\ SameControl
    BY <1>3 DEF List, ScanPC, Joining, Idle
  <2>2. CASE Update(t, "lib")
    <3> DEFINE s == [x EXCEPT !.pc = "lib"]
    <3>1. /\ IsRecord(s) /\ s.pc = "lib" /\ s.tasks = x.tasks
          /\ s.pending = x.pending /\ s.failed = x.failed /\ s.owed = x.owed
          /\ SamePlace(x, s)
      BY DEF Locals, IsRecord, Fields, SamePlace
    <3>2. To(t, s)
      BY <2>2 DEF Update
    <3> HIDE DEF s
    <3>3. Place(t, x) => Place(t, s)
      BY <2>1, <3>1, StaysInPlace DEF Unlisted
    <3>4. QED
      BY <2>1, <3>1, <3>2, <3>3, Moved DEF Goes, ScanPC, Joining
  <2>3. ASSUME NEW got \in SUBSET Expand(x.lib),
               To(t, [x EXCEPT !.pc = "judge", !.todo = Listing(t, got)])
        PROVE  Goes(t)
    <3> DEFINE todo == Listing(t, got)
               s == [x EXCEPT !.pc = "judge", !.todo = todo]
    <3>1. todo \subseteq Expand(x.lib)
      BY DEF Listing, QueryAll
    <3>2. To(t, s)
      BY <2>3
    <3> HIDE DEF todo
    <3>3. /\ IsRecord(s) /\ s.pc = "judge" /\ s.tasks = x.tasks
          /\ s.pending = x.pending /\ s.failed = x.failed /\ s.owed = x.owed
          /\ s.lib = x.lib /\ s.todo = todo /\ s.visited = x.visited
      BY DEF Locals, IsRecord, Fields
    <3> HIDE DEF s
    <3>4. Place(t, x) => Place(t, s)
      BY <2>1, <3>1, <3>3 DEF Place, Unlisted
    <3>5. QED
      BY <2>1, <3>2, <3>3, <3>4, Moved DEF Goes, ScanPC, Joining
  <2>4. QED
    BY <1>3, <2>2, <2>3 DEF List
<1>4. CASE LastLib(t)
  <2>1. SUFFICES ASSUME Update(t, "finish"), SameControl PROVE Goes(t)
    BY <1>4 DEF LastLib
  <2> DEFINE s == [x EXCEPT !.pc = "finish"]
  <2>2. /\ IsRecord(s) /\ s.pc = "finish" /\ s.tasks = x.tasks
        /\ s.pending = x.pending /\ s.failed = x.failed /\ s.owed = x.owed
        /\ SamePlace(x, s)
    BY DEF Locals, IsRecord, Fields, SamePlace
  <2>3. To(t, s) /\ x.pc \in ScanPC \ Joining /\ x.pc \in {"prepare", "lib"}
    BY <1>4, <2>1 DEF Update, LastLib, ScanPC, Joining
  <2> HIDE DEF s
  <2>4. Place(t, x) => Place(t, s)
    BY <2>2, <2>3, StaysInPlace DEF Unlisted
  <2>5. QED
    BY <2>1, <2>2, <2>3, <2>4, Moved DEF Goes, ScanPC, Joining
<1>5. QED
  BY <1>1, <1>2, <1>3, <1>4

(* The items of a library.                                                  *)
LEMMA JudgeSteps ==
    ASSUME NEW t \in Threads, Locals(th[t]), Judge(t) \/ Judged(t)
    PROVE  Goes(t)
<1> DEFINE x == th[t]
<1>0. x.pc = "judge" /\ x.pc \in ScanPC \ Joining /\ ~Idle(t, x) /\ SameControl
  BY DEF Judge, Judged, ScanPC, Joining, Idle
<1>1. ASSUME NEW pc \in {"finish", "flush", "lib"}, Update(t, pc),
             pc # "finish" => x.todo = {}
      PROVE  Goes(t)
  <2> DEFINE s == [x EXCEPT !.pc = pc]
  <2>1. /\ IsRecord(s) /\ s.pc = pc /\ s.tasks = x.tasks
        /\ s.pending = x.pending /\ s.failed = x.failed /\ s.owed = x.owed
        /\ SamePlace(x, s)
    BY DEF Locals, IsRecord, Fields, SamePlace
  <2>2. To(t, s)
    BY <1>1 DEF Update
  <2> HIDE DEF s
  <2>3. Place(t, x) => Place(t, s)
    BY <1>1, <2>1 DEF SamePlace, Place, Unlisted
  <2>4. QED
    BY <1>0, <2>1, <2>2, <2>3, Moved DEF Goes, ScanPC, Joining
<1>2. CASE Judged(t)
  BY <1>1, <1>2 DEF Judged
<1>3. CASE Judge(t)
  <2> DEFINE full == t \notin Incremental
             Item(p) == Libraries[x.lib][p[1]][p[2]]
             Seen(p) == [x EXCEPT !.todo = @ \ {p}, !.visited = IF full THEN @ + 1 ELSE @]
             Taken(p) == [Seen(p) EXCEPT !.pending = Append(@, Item(p)),
                                         !.owed = @ \cup {Item(p)}]
             Flushed(p) == [Taken(p) EXCEPT !.pc = "flush"]
  <2>1. PICK p \in x.todo :
          \/ Update(t, "finish")
          \/ /\ full => x.visited < MaxItems
             /\ \/ To(t, Seen(p))
                \/ ~(full /\ Len(Taken(p).pending) >= FlushSize) /\ To(t, Taken(p))
                \/ full /\ To(t, Flushed(p))
    BY <1>3 DEF Judge
  <2> DEFINE i == Item(p)
             seen == Seen(p)
             taken == Taken(p)
             flush == Flushed(p)
  <2>2. /\ IsRecord(seen) /\ seen.pc = x.pc /\ seen.tasks = x.tasks
        /\ seen.pending = x.pending /\ seen.failed = x.failed /\ seen.owed = x.owed
        /\ seen.lib = x.lib /\ seen.todo = x.todo \ {p}
        /\ seen.visited = IF full THEN x.visited + 1 ELSE x.visited
    BY DEF Locals, IsRecord, Fields
  <2>3. taken = [seen EXCEPT !.pending = Append(@, i), !.owed = @ \cup {i}]
    OBVIOUS
  <2>4. flush = [taken EXCEPT !.pc = "flush"]
    OBVIOUS
  <2>5. Place(t, x) => Item(p) \in Items
    <3> SUFFICES ASSUME Place(t, x) PROVE Item(p) \in Items
      OBVIOUS
    <3>1. x.lib \in 0..Len(Libraries) /\ x.lib # 0 /\ p \in Expand(x.lib)
      BY DEF Place, Unlisted
    <3>2. QED
      BY <3>1, ItemsExpanded
  <2> HIDE DEF Item
  <2>6. Place(t, x) /\ (full => x.visited < MaxItems) => Place(t, seen)
    <3> HIDE DEF seen
    <3>1. QED
      BY <1>0, <2>2, LibrariesAssumption DEF Place, Unlisted
  <2> HIDE DEF seen, Seen
  <2>7. /\ IsRecord(taken) /\ taken.pc = x.pc /\ taken.tasks = x.tasks
        /\ taken.failed = x.failed /\ SamePlace(seen, taken)
        /\ taken.pending = Append(x.pending, i) /\ taken.owed = x.owed \cup {i}
    BY <2>2, <2>3 DEF IsRecord, Fields, SamePlace
  <2> HIDE DEF taken, Taken
  <2>8. /\ IsRecord(flush) /\ flush.pc = "flush" /\ flush.tasks = x.tasks
        /\ flush.failed = x.failed /\ SamePlace(seen, flush)
        /\ flush.pending = Append(x.pending, i) /\ flush.owed = x.owed \cup {i}
    BY <2>4, <2>7 DEF IsRecord, Fields, SamePlace
  <2> HIDE DEF flush, Flushed
  <2>9. CASE To(t, seen) /\ (full => x.visited < MaxItems)
    BY <1>0, <2>2, <2>6, <2>9, Moved DEF Goes, ScanPC, Joining
  <2>10. ASSUME NEW s \in {taken, flush}, To(t, s), full => x.visited < MaxItems,
                (s = flush /\ full) \/ (s = taken /\ ~(full /\ Len(s.pending) >= FlushSize))
         PROVE  Goes(t)
    <3>1. /\ IsRecord(s) /\ s.pc \in {"judge", "flush"} /\ s.tasks = <<>>
          /\ s.failed = x.failed /\ SamePlace(seen, s)
          /\ s.pending = Append(x.pending, i) /\ s.owed = x.owed \cup {i}
          /\ s.pc = "judge" => ~(full /\ Len(s.pending) >= FlushSize)
          /\ s.pc = "flush" => full
      BY <1>0, <2>7, <2>8, <2>10 DEF Locals
    <3> HIDE DEF i
    <3>2. IsSequence(s.pending) /\ ToSet(s.pending) = ToSet(x.pending) \cup {i}
      BY <3>1, AppendSequence DEF Locals
    <3>3. Locals(s)
      BY <3>1, <3>2, EmptySequence DEF Locals, Joining, ScanPC
    <3>4. InHand(x) => InHand(s)
      BY <1>0, <3>1, <3>2 DEF InHand
    <3>5. Place(t, x) => Place(t, s)
      <4>1. Place(t, x) => Place(t, seen)
        BY <2>6, <2>10
      <4>2. s.pc # "list" /\ ~Unlisted(t, s.pc)
        BY <3>1 DEF Unlisted
      <4>3. QED
        BY <3>1, <4>1, <4>2, StaysInPlace DEF Unlisted
    <3>6. Place(t, x) /\ Contents(t, x) => Contents(t, s)
      <4> SUFFICES ASSUME Place(t, x), Contents(t, x) PROVE Contents(t, s)
        OBVIOUS
      <4>1. i \in Items
        BY <2>5 DEF i
      <4>2. Len(s.pending) = Len(x.pending) + 1 /\ Len(x.pending) \in Nat
        BY <3>1 DEF Locals, IsSequence
      <4>3. full => Len(s.pending) <= FlushSize /\ (s.pc = "judge" => Len(s.pending) < FlushSize)
        <5>1. FlushSize \in Nat
          BY SizesAssumption
        <5>2. full => Len(x.pending) < FlushSize
          BY <1>0 DEF Contents
        <5>3. full /\ s.pc = "judge" => ~(Len(s.pending) >= FlushSize)
          BY <3>1
        <5> HIDE DEF full
        <5>4. QED
          BY <4>2, <5>1, <5>2, <5>3
      <4>4. QED
        BY <3>1, <3>2, <4>1, <4>3 DEF Contents
    <3>7. Result(t, x, s)
      BY <1>0, <3>1, <3>3, <3>4, <3>5, <3>6 DEF Result
    <3>8. QED
      BY <1>0, <2>10, <3>1, <3>7 DEF Goes, ScanPC
  <2>11. QED
    BY <1>1, <2>1, <2>9, <2>10 DEF seen, taken, flush
<1>4. QED
  BY <1>2, <1>3

(* A batch is started, or is cancelled as a whole.                          *)
LEMMA FlushSteps ==
    ASSUME NEW t \in Threads, Locals(th[t]), Flush(t) \/ FlushLast(t)
    PROVE  Goes(t)
<1> DEFINE x == th[t]
<1>0. /\ x.pc \in {"flush", "finish"} /\ x.pc \in ScanPC \ Joining /\ SameControl
      /\ IsSequence(x.pending)
  BY DEF Flush, FlushLast, ScanPC, Joining, Locals
<1>1. ASSUME NEW pc \in {"join", "lastJoin"}, To(t, StartTasks(x, x.pending, pc)),
             ~Idle(t, x), x.pc = "flush" <=> pc = "join"
      PROVE  Goes(t)
  <2> DEFINE s == StartTasks(x, x.pending, pc)
  <2>1. /\ Locals(s) /\ s.pc = pc
        /\ s.pending = x.pending /\ s.failed = x.failed
        /\ s.owed = x.owed \ ToSet(x.pending) /\ SamePlace(x, s)
        /\ ToSet(x.pending) \subseteq Items => \A n \in DOMAIN s.tasks : s.tasks[n] \in Task
        /\ \A n \in DOMAIN s.tasks : /\ s.tasks[n].item \in ToSet(x.pending)
                                     /\ s.tasks[n].pc = "start"
    BY <1>0, Started DEF Joining
  <2>2. To(t, s)
    BY <1>1
  <2> HIDE DEF s
  <2>3. InHand(x) => InHand(s)
    BY <1>0, <2>1 DEF InHand
  <2>4. Place(t, x) => Place(t, s)
    BY <1>1, <2>1, StaysInPlace DEF Unlisted
  <2>5. ASSUME Contents(t, x) PROVE Contents(t, s)
    <3>1. ToSet(x.pending) \subseteq Items /\ x.owed \subseteq Items
      BY <2>5 DEF Contents
    <3>2. \A n \in DOMAIN s.tasks : s.tasks[n] \in Task
      BY <2>1, <3>1
    <3>3. s.pc # "join" => x.pc \notin {"flush", "join"}
      BY <1>0, <1>1, <2>1
    <3>4. QED
      BY <2>1, <2>5, <3>1, <3>2, <3>3 DEF Contents
  <2>6. Result(t, x, s)
    BY <1>1, <2>1, <2>3, <2>4, <2>5 DEF Result
  <2>7. QED
    BY <1>0, <2>1, <2>2, <2>6 DEF Goes, ScanPC
<1>2. ASSUME NEW pc \in {"judge", "retry"}, batchStopped, ~Idle(t, x),
             To(t, [x EXCEPT !.pc = pc, !.pending = <<>>])
      PROVE  Goes(t)
  <2> DEFINE s == [x EXCEPT !.pc = pc, !.pending = <<>>]
  <2>1. /\ IsRecord(s) /\ s.pc = pc /\ s.tasks = <<>>
        /\ s.pending = <<>> /\ s.failed = x.failed /\ s.owed = x.owed
        /\ SamePlace(x, s)
    BY <1>0 DEF Locals, IsRecord, Fields, SamePlace
  <2>2. To(t, s)
    BY <1>2
  <2> HIDE DEF s
  <2>3. Locals(s)
    BY <2>1, EmptySequence DEF Locals, Joining, ScanPC
  <2>4. Place(t, x) => Place(t, s)
    BY <2>1, StaysInPlace DEF Unlisted
  <2>5. Contents(t, x) => Contents(t, s)
    BY <2>1, EmptySequence, SizesAssumption DEF Contents
  <2>6. QED
    BY <1>0, <1>2, <2>1, <2>2, <2>3, <2>4, <2>5 DEF Goes, Result, ScanPC
<1>3. CASE Flush(t)
  <2>1. ~Idle(t, x)
    BY <1>3 DEF Flush, Idle
  <2>2. QED
    BY <1>1, <1>2, <1>3, <2>1 DEF Flush, PrefetchBatch
<1>4. CASE FlushLast(t)
  <2>1. CASE x.pending = <<>> /\ Update(t, "retry")
    <3> DEFINE s == [x EXCEPT !.pc = "retry"]
    <3>1. /\ IsRecord(s) /\ s.pc = "retry" /\ s.tasks = x.tasks
          /\ s.pending = x.pending /\ s.failed = x.failed /\ s.owed = x.owed
          /\ SamePlace(x, s)
      BY DEF Locals, IsRecord, Fields, SamePlace
    <3>2. To(t, s) /\ x.pc = "finish"
      BY <1>4, <2>1 DEF Update, FlushLast
    <3> HIDE DEF s
    <3>3. Place(t, x) => Place(t, s)
      BY <3>1, StaysInPlace DEF Unlisted
    <3>4. QED
      BY <1>0, <2>1, <3>1, <3>2, <3>3, Moved DEF Goes, ScanPC, Joining
  <2>2. CASE x.pending # <<>>
    <3>1. ~Idle(t, x)
      BY <2>2 DEF Idle
    <3>2. QED
      BY <1>1, <1>2, <1>4, <2>2, <3>1 DEF FlushLast, PrefetchBatch
  <2>3. QED
    BY <1>4, <2>1, <2>2 DEF FlushLast
<1>5. QED
  BY <1>3, <1>4

(* The tasks of a batch have ended.                                         *)
LEMMA JoinSteps ==
    ASSUME NEW t \in Threads, Locals(th[t]), Join(t) \/ JoinIncremental(t)
    PROVE  Leave(t) \/ Goes(t)
<1> DEFINE x == th[t]
<1>0. x.pc \in {"join", "lastJoin"} /\ x.pc \in ScanPC /\ ~Idle(t, x)
  BY DEF Join, JoinIncremental, ScanPC, Idle
<1>1. CASE Join(t)
  <2> DEFINE again == IF FailedIn(t) = {} THEN <<>> ELSE x.pending
             pc == IF x.pc = "join" THEN "judge" ELSE "retry"
             s == [x EXCEPT !.pc = pc, !.pending = <<>>, !.tasks = <<>>,
                            !.failed = @ \o again, !.owed = @ \cup FailedIn(t)]
  <2>1. To(t, s) /\ SameControl
    BY <1>1 DEF Join
  <2>2. /\ IsRecord(s) /\ s.pc = pc /\ s.tasks = <<>> /\ s.pending = <<>>
        /\ s.failed = x.failed \o again /\ s.owed = x.owed \cup FailedIn(t)
        /\ SamePlace(x, s)
    BY DEF Locals, IsRecord, Fields, SamePlace
  <2>3. IsSequence(again) /\ IsSequence(x.failed)
    BY EmptySequence DEF Locals
  <2>4. IsSequence(s.failed) /\ ToSet(s.failed) = ToSet(x.failed) \cup ToSet(again)
    BY <2>2, <2>3, ConcatSequence
  <2>5. InHand(x) => FailedIn(t) \subseteq ToSet(again)
    BY <1>0 DEF InHand, FailedIn
  <2>6. pc \in {"judge", "retry"} /\ again \in {<<>>, x.pending}
    OBVIOUS
  <2>7. Contents(t, x) => FailedIn(t) \subseteq Items
    BY DEF Contents, FailedIn, Task
  <2> HIDE DEF s, again, pc
  <2>8. Locals(s)
    BY <2>2, <2>4, <2>6, EmptySequence DEF Locals, Joining, ScanPC
  <2>9. InHand(x) => InHand(s)
    BY <1>0, <2>2, <2>4, <2>5, <2>6 DEF InHand
  <2>10. Place(t, x) => Place(t, s)
    BY <2>2, <2>6, StaysInPlace DEF Unlisted
  <2>11. Contents(t, x) => Contents(t, s)
    BY <2>2, <2>4, <2>6, <2>7, EmptySequence, SizesAssumption DEF Contents
  <2>12. QED
    BY <1>0, <2>1, <2>2, <2>6, <2>8, <2>9, <2>10, <2>11 DEF Goes, Result, ScanPC
<1>2. CASE JoinIncremental(t)
  <2> DEFINE s == [x EXCEPT !.pc = "lib", !.pending = <<>>, !.tasks = <<>>]
  <2>1. SUFFICES ASSUME To(t, s), SameControl PROVE Goes(t)
    BY <1>2 DEF JoinIncremental
  <2>2. /\ IsRecord(s) /\ s.pc = "lib" /\ s.tasks = <<>> /\ s.pending = <<>>
        /\ s.failed = x.failed /\ s.owed = x.owed /\ SamePlace(x, s)
    BY DEF Locals, IsRecord, Fields, SamePlace
  <2> HIDE DEF s
  <2>3. Locals(s)
    BY <2>2, EmptySequence DEF Locals, Joining, ScanPC
  <2>4. t \in Incremental /\ x.pc = "join"
    BY <1>2 DEF JoinIncremental
  <2>5. Place(t, x) => Place(t, s)
    BY <2>2, <2>4, StaysInPlace DEF Unlisted
  <2>6. Contents(t, x) => Contents(t, s)
    BY <2>2, <2>4, EmptySequence DEF Contents
  <2>7. QED
    BY <1>0, <2>1, <2>2, <2>3, <2>4, <2>5, <2>6 DEF Goes, Result, ScanPC
<1>3. QED
  BY <1>1, <1>2

(* The batches of retries.                                                  *)
LEMMA RetrySteps ==
    ASSUME NEW t \in Threads, Locals(th[t]), batchStopped => stopCh,
           Retry(t) \/ RetryJoin(t)
    PROVE  Goes(t)
<1> DEFINE x == th[t]
<1>0. x.pc \in {"retry", "retryJoin"} /\ x.pc \in ScanPC /\ SameControl /\ x.pending = <<>>
  BY DEF Retry, RetryJoin, ScanPC, Locals
<1>1. CASE Retry(t)
  <2> DEFINE n == IF RetrySize < Len(x.failed) THEN RetrySize ELSE Len(x.failed)
             batch == SubSeq(x.failed, 1, n)
             left == SubSeq(x.failed, n + 1, Len(x.failed))
             rest == [x EXCEPT !.failed = left]
             s == StartTasks(rest, batch, "retryJoin")
  <2>1. ~stopCh /\ ~batchStopped /\ x.pc = "retry" /\ To(t, s)
    BY <1>1 DEF Retry
  <2>2. n \in 0..Len(x.failed)
    BY SizesAssumption DEF Locals, IsSequence
  <2>3. /\ IsSequence(batch) /\ IsSequence(left)
        /\ ToSet(x.failed) = ToSet(batch) \cup ToSet(left)
    <3> HIDE DEF n
    <3>1. IsSequence(x.failed)
      BY DEF Locals
    <3>2. QED
      BY <2>2, <3>1, CutSequence
  <2> HIDE DEF n, batch, left
  <2>4. /\ IsRecord(rest) /\ rest.pc = x.pc /\ rest.tasks = x.tasks
        /\ rest.pending = x.pending /\ rest.failed = left /\ rest.owed = x.owed
        /\ SamePlace(x, rest)
    BY DEF Locals, IsRecord, Fields, SamePlace
  <2> HIDE DEF rest
  <2>5. Locals(rest) /\ rest.pc \in ScanPC /\ rest.pending = <<>>
    BY <1>0, <2>1, <2>3, <2>4 DEF Locals
  <2>6. /\ Locals(s) /\ s.pc = "retryJoin"
        /\ s.pending = rest.pending /\ s.failed = rest.failed
        /\ s.owed = rest.owed \ ToSet(batch) /\ SamePlace(rest, s)
        /\ ToSet(batch) \subseteq Items => \A m \in DOMAIN s.tasks : s.tasks[m] \in Task
        /\ \A m \in DOMAIN s.tasks : s.tasks[m].pc = "start"
    BY <2>3, <2>5, Started DEF Joining
  <2> HIDE DEF s
  <2>7. InHand(x) => InHand(s)
    BY <2>1, <2>3, <2>4, <2>6 DEF InHand
  <2>8. Place(t, x) => Place(t, s)
    <3>1. SamePlace(x, s)
      BY <2>4, <2>6 DEF SamePlace
    <3>2. QED
      BY <2>6, <3>1, StaysInPlace DEF Unlisted
  <2>9. Contents(t, x) => Contents(t, s)
    BY <1>0, <2>3, <2>4, <2>6, EmptySequence, SizesAssumption DEF Contents
  <2>10. QED
    BY <1>0, <2>1, <2>6, <2>7, <2>8, <2>9 DEF Goes, Result, ScanPC
<1>2. CASE RetryJoin(t)
  <2> DEFINE s == [x EXCEPT !.pc = "retry", !.tasks = <<>>]
  <2>1. To(t, s) /\ x.pc = "retryJoin"
    BY <1>2 DEF RetryJoin
  <2>2. /\ IsRecord(s) /\ s.pc = "retry" /\ s.tasks = <<>> /\ s.pending = x.pending
        /\ s.failed = x.failed /\ s.owed = x.owed /\ SamePlace(x, s)
    BY DEF Locals, IsRecord, Fields, SamePlace
  <2> HIDE DEF s
  <2>3. Locals(s)
    BY <1>0, <2>2, EmptySequence DEF Locals, Joining, ScanPC
  <2>4. InHand(x) => InHand(s)
    BY <2>1, <2>2 DEF InHand
  <2>5. ~Idle(t, x)
    BY <2>1 DEF Idle
  <2>6. Place(t, x) => Place(t, s)
    BY <2>2, StaysInPlace DEF Unlisted
  <2>7. Contents(t, x) => Contents(t, s)
    BY <1>0, <2>2, EmptySequence, SizesAssumption DEF Contents
  <2>8. QED
    BY <1>0, <2>1, <2>2, <2>3, <2>4, <2>5, <2>6, <2>7 DEF Goes, Result, ScanPC
<1>3. QED
  BY <1>1, <1>2

LEMMA ScanSteps ==
    ASSUME NEW t \in Threads, Locals(th[t]), batchStopped => stopCh, Scan(t)
    PROVE  Scanning(t) /\ (Leave(t) \/ Goes(t))
<1>1. Scanning(t)
  BY DEF Scan, Scanning, ScanPC, Prepare, NextLib, List, LastLib, Judge, Judged, Flush,
         FlushLast, Join, JoinIncremental, Retry, RetryJoin, Finish
<1>2. Leave(t) \/ Goes(t)
  BY LibrarySteps, JudgeSteps, FlushSteps, JoinSteps, RetrySteps DEF Scan, Finish
<1>3. QED
  BY <1>1, <1>2

(* A step of one of a scan's tasks.                                         *)
LEMMA TaskSteps ==
    ASSUME NEW t \in Threads, Locals(th[t]), NEW n \in DOMAIN th[t].tasks, NEW pc,
           TaskTo(t, n, pc)
    PROVE  \E s : /\ To(t, s) /\ Locals(s) /\ s.pc = th[t].pc /\ s.pc \in Joining
                  /\ DOMAIN s.tasks = DOMAIN th[t].tasks /\ s.tasks[n].pc = pc
                  /\ \A m \in DOMAIN s.tasks \ {n} : s.tasks[m] = th[t].tasks[m]
                  /\ InHand(th[t]) => InHand(s)
                  /\ Place(t, th[t]) => Place(t, s)
                  /\ pc \in {"start", "wait", "request"} \cup Outcomes /\ Contents(t, th[t]) => Contents(t, s)
<1> DEFINE x == th[t]
           ts == [x.tasks EXCEPT ![n] = [@ EXCEPT !.pc = pc]]
           s == [x EXCEPT !.tasks = ts]
<1>1. To(t, s)
  BY DEF TaskTo, To
<1>2. x.pc \in Joining
  BY DEF Locals
<1>3. /\ DOMAIN ts = DOMAIN x.tasks /\ ts[n].pc = pc
      /\ \A m \in DOMAIN ts : ts[m].item = x.tasks[m].item
      /\ \A m \in DOMAIN ts \ {n} : ts[m] = x.tasks[m]
      /\ ts = [m \in DOMAIN ts |-> [item |-> ts[m].item, pc |-> ts[m].pc]]
      /\ ts = [m \in DOMAIN ts |-> ts[m]]
  BY DEF Locals
<1> HIDE DEF ts
<1>4. /\ IsRecord(s) /\ s.pc = x.pc /\ s.tasks = ts /\ s.pending = x.pending
      /\ s.failed = x.failed /\ s.owed = x.owed /\ SamePlace(x, s)
  BY DEF Locals, IsRecord, Fields, SamePlace
<1> HIDE DEF s
<1>5. IsSequence(ts)
  <2>1. IsSequence(x.tasks)
    BY DEF Locals
  <2>2. DOMAIN ts = 1..Len(x.tasks) /\ Len(x.tasks) \in Nat
    BY <1>3, <2>1 DEF IsSequence
  <2>3. QED
    BY <1>3, <2>2, SequenceOf
<1>6. Locals(s)
  BY <1>2, <1>3, <1>4, <1>5 DEF Locals, Joining, ScanPC
<1>7. InHand(x) => InHand(s)
  BY <1>3, <1>4 DEF InHand
<1>8. Place(t, x) => Place(t, s)
  BY <1>2, <1>4, StaysInPlace DEF Unlisted, Joining
<1>9. ASSUME pc \in {"start", "wait", "request"} \cup Outcomes, Contents(t, x)
      PROVE  Contents(t, s)
  <2>1. \A m \in DOMAIN ts : ts[m] \in Task
    <3> TAKE m \in DOMAIN ts
    <3>1. x.tasks[m] \in Task
      BY <1>3, <1>9 DEF Contents
    <3>2. ts[m].item \in Items /\ ts[m].pc \in {"start", "wait", "request"} \cup Outcomes
      BY <1>3, <1>9, <3>1 DEF Task
    <3>3. ts[m] = [item |-> ts[m].item, pc |-> ts[m].pc]
      BY <1>3
    <3>4. QED
      BY <3>2, <3>3 DEF Task
  <2>2. QED
    BY <1>4, <1>9, <2>1 DEF Contents
<1>10. QED
  BY <1>1, <1>2, <1>3, <1>4, <1>6, <1>7, <1>8, <1>9

(***************************************************************************)
(* The inductive invariant.                                                *)
(***************************************************************************)
AllLocals == th = [t \in Threads |-> th[t]] /\ \A t \in Threads : Locals(th[t])

(* How far Server.Stop has come, and what it leaves of the scans.           *)
Order ==
    /\ stopper # "serving" => stopCh
    /\ batchStopped => stopper \notin {"serving", "scanner"}
    /\ stopper \notin {"serving", "scanner"} => \A t \in Threads : Idle(t, th[t])

Debts == ~stopCh => \A t \in Threads \ Incremental : InHand(th[t])

Semaphore == IsFiniteSet(Requesting) /\ SemaphoreKept

Flags ==
    /\ running \in BOOLEAN /\ stopCh \in BOOLEAN /\ batchStopped \in BOOLEAN
    /\ stopper \in {"serving", "scanner", "batches", "waiting", "stopped"}

Typed == \A t \in Threads : Place(t, th[t]) /\ Contents(t, th[t])

ScanInv == AllLocals /\ Flags /\ Typed /\ OneScan /\ Order /\ Debts /\ Semaphore

LEMMA RestingScanning ==
    ASSUME AllLocals, NEW t \in Threads, ~Scanning(t)
    PROVE  th[t].pc \in {"sleep", "gone"} /\ th[t] = Resting(th[t].pc)
BY DEF AllLocals, Locals, Scanning

LEMMA InRequesting ==
    ASSUME NEW r
    PROVE  r \in Requesting <=> \E t \in Threads : \E n \in DOMAIN th[t].tasks :
                                   r = <<t, n>> /\ th[t].tasks[n].pc = "request"
BY DEF Requesting, TaskPC

LEMMA ScanInit == Init => ScanInv
<1> SUFFICES ASSUME Init PROVE ScanInv
  OBVIOUS
<1>1. \A t \in Threads : \E pc \in {"sleep", "gone"} : th[t] = Resting(pc)
  BY DEF Init
<1>2. th = [t \in Threads |-> th[t]]
  BY DEF Init
<1>3. \A t \in Threads : /\ Locals(th[t]) /\ InHand(th[t])
                         /\ Place(t, th[t]) /\ Contents(t, th[t])
                         /\ th[t].pc \in {"sleep", "gone"} /\ th[t].tasks = <<>>
  BY <1>1, RestingLocals DEF Resting
<1>4. Requesting = {}
  BY <1>3, InRequesting
<1>5. Semaphore
  BY <1>4, FS_EmptySet, SizesAssumption DEF Semaphore, SemaphoreKept, Init
<1>6. AllLocals /\ Debts /\ Typed /\ Flags
  BY <1>2, <1>3 DEF AllLocals, Debts, Typed, Flags, Init
<1>7. OneScan /\ Order
  BY <1>3 DEF Init, OneScan, Order, Scanning, ScanPC
<1>8. QED
  BY <1>5, <1>6, <1>7 DEF ScanInv

(* A step that lets the same tasks go on requesting.                        *)
LEMMA SameRequests ==
    ASSUME Semaphore, Requesting' = Requesting, UNCHANGED sem
    PROVE  Semaphore'
BY DEF Semaphore, SemaphoreKept

LEMMA NoRequest ==
    ASSUME AllLocals, Semaphore, NEW t \in Threads, NEW s, To(t, s), UNCHANGED sem,
           \A n \in DOMAIN th[t].tasks : th[t].tasks[n].pc # "request",
           \A n \in DOMAIN s.tasks : s.tasks[n].pc # "request"
    PROVE  Semaphore'
<1>1. th'[t] = s /\ \A u \in Threads \ {t} : th'[u] = th[u]
  BY ToStep DEF AllLocals
<1>2. ASSUME NEW r \in Requesting' PROVE r \in Requesting
  <2>1. PICK u \in Threads : \E n \in DOMAIN th'[u].tasks :
                                r = <<u, n>> /\ th'[u].tasks[n].pc = "request"
    BY <1>2 DEF Requesting, TaskPC
  <2>2. u # t
    BY <1>1, <2>1
  <2>3. QED
    BY <1>1, <2>1, <2>2, InRequesting
<1>3. ASSUME NEW r \in Requesting PROVE r \in Requesting'
  <2>1. PICK u \in Threads : \E n \in DOMAIN th[u].tasks :
                                r = <<u, n>> /\ th[u].tasks[n].pc = "request"
    BY <1>3, InRequesting
  <2>2. u # t
    BY <2>1
  <2>3. PICK n \in DOMAIN th'[u].tasks : r = <<u, n>> /\ th'[u].tasks[n].pc = "request"
    BY <1>1, <2>1, <2>2
  <2>4. QED
    BY <2>3 DEF Requesting, TaskPC
<1>4. Requesting' = Requesting
  BY <1>2, <1>3
<1>5. QED
  BY <1>4, SameRequests

(* A scan goes on only when no task of it requests.                         *)
LEMMA ScanQuiet ==
    ASSUME NEW t \in Threads, Locals(th[t]), Scan(t)
    PROVE  \A n \in DOMAIN th[t].tasks : th[t].tasks[n].pc # "request"
<1>1. CASE th[t].pc \notin Joining
  BY <1>1 DEF Locals
<1>2. CASE th[t].pc \in Joining
  <2>1. Joined(t)
    BY <1>2 DEF Joining, Scan, Prepare, NextLib, List, LastLib, Judge, Judged, Flush,
                FlushLast, Join, JoinIncremental, Retry, RetryJoin, Finish
  <2>2. QED
    BY <2>1 DEF Joined, Outcomes
<1>3. QED
  BY <1>1, <1>2

(***************************************************************************)
(* Every step keeps it.                                                    *)
(***************************************************************************)
(* A step of thread t, apart from the flag and the semaphore.               *)
LEMMA ThreadStep ==
    ASSUME ScanInv, UNCHANGED stopVars, NEW t \in Threads, NEW s, To(t, s), Locals(s),
           ~stopCh /\ t \notin Incremental => InHand(s),
           stopper \notin {"serving", "scanner"} => Idle(t, s),
           Place(t, s) /\ Contents(t, s), running' \in BOOLEAN
    PROVE  AllLocals' /\ Order' /\ Debts' /\ Typed' /\ Flags'
<1>1. /\ th' = [u \in Threads |-> th'[u]] /\ th'[t] = s
      /\ \A u \in Threads \ {t} : th'[u] = th[u]
  BY ToStep DEF ScanInv, AllLocals
<1>2. AllLocals'
  BY <1>1 DEF ScanInv, AllLocals
<1>3. \A u \in Threads : Idle(u, th'[u]) <=> (IF u = t THEN Idle(t, s) ELSE Idle(u, th[u]))
  BY <1>1
<1>4. Order'
  <2>1. UNCHANGED <<stopCh, batchStopped, stopper>>
    BY DEF stopVars
  <2>2. stopper \notin {"serving", "scanner"} => \A u \in Threads : Idle(u, th'[u])
    BY <1>3 DEF ScanInv, Order
  <2>3. QED
    BY <2>1, <2>2 DEF ScanInv, Order, Idle
<1>5. \A u \in Threads : InHand(th'[u]) <=> (IF u = t THEN InHand(s) ELSE InHand(th[u]))
  BY <1>1
<1>6. Debts'
  <2>1. stopCh' = stopCh
    BY DEF stopVars
  <2>2. ~stopCh => \A u \in Threads \ Incremental : InHand(th'[u])
    BY <1>5 DEF ScanInv, Debts
  <2>3. QED
    BY <2>1, <2>2 DEF Debts, InHand
<1>7. \A u \in Threads : Place(u, th'[u]) /\ Contents(u, th'[u])
  BY <1>1 DEF ScanInv, Typed
<1>8. Typed'
  BY <1>7 DEF Typed, Place, Contents
<1>9. Flags'
  BY DEF ScanInv, Flags, stopVars
<1>10. QED
  BY <1>2, <1>4, <1>6, <1>8, <1>9

(* A scan begins.                                                           *)
LEMMA Enters ==
    ASSUME ScanInv, NEW t \in Threads, Begin(t) \/ TriggerScan(t)
    PROVE  ScanInv'
<1> DEFINE x == th[t]
           s == [x EXCEPT !.pc = "prepare"]
<1>1. /\ ~running /\ running' = TRUE /\ To(t, s) /\ UNCHANGED <<stopVars, sem>>
      /\ x.pc \in {"sleep", "gone"}
  BY DEF Begin, TriggerScan, Update
<1>2. x = Resting(x.pc)
  BY <1>1, RestingScanning DEF ScanInv, Scanning, ScanPC
<1>3. s = [Resting(x.pc) EXCEPT !.pc = "prepare"]
  BY <1>2
<1>4. /\ IsRecord(s) /\ s.pc = "prepare" /\ s.tasks = <<>> /\ s.pending = <<>>
      /\ s.failed = <<>> /\ s.owed = {}
      /\ s.lib = 0 /\ s.todo = {} /\ s.visited = 0
  BY <1>3 DEF IsRecord, Fields, Resting
<1> HIDE DEF s
<1>5. Locals(s) /\ InHand(s)
  BY <1>4, EmptySequence DEF Locals, InHand, ScanPC, Joining
<1>6. stopper \notin {"serving", "scanner"} => Idle(t, s)
  <2>1. SUFFICES ASSUME stopper \notin {"serving", "scanner"} PROVE t \notin Schedulers
    BY <1>4 DEF Idle
  <2>2. x.pc = "gone"
    BY <1>1, <2>1 DEF ScanInv, Order, Idle
  <2>3. QED
    BY <2>2, ThreadsAssumption DEF Begin, TriggerScan
<1>7. AllLocals' /\ Order' /\ Debts' /\ Typed' /\ Flags'
  <2>1. Place(t, s)
    BY <1>4, LibrariesAssumption DEF Place
  <2>2. Contents(t, s)
    BY <1>4, EmptySequence, SizesAssumption DEF Contents
  <2>3. QED
    BY <1>1, <1>5, <1>6, <2>1, <2>2, ThreadStep
<1>8. Semaphore'
  <2>1. x.tasks = <<>>
    BY <1>2 DEF Resting
  <2>2. QED
    BY <1>1, <1>4, <2>1, NoRequest DEF ScanInv
<1>9. OneScan'
  <2>1. th'[t] = s /\ \A u \in Threads \ {t} : th'[u] = th[u]
    BY <1>1, ToStep DEF ScanInv, AllLocals
  <2>2. \A u \in Threads : ~Scanning(u)
    BY <1>1 DEF ScanInv, OneScan
  <2>3. \A u \in Threads : Scanning(u)' <=> u = t
    BY <1>4, <2>1, <2>2 DEF Scanning, ScanPC
  <2>4. QED
    BY <1>1, <2>3 DEF OneScan
<1>10. QED
  BY <1>7, <1>8, <1>9 DEF ScanInv

(* A scheduler ends.                                                        *)
LEMMA Exits ==
    ASSUME ScanInv, NEW t \in Threads, SchedulerExit(t)
    PROVE  ScanInv'
<1> DEFINE x == th[t]
           s == [x EXCEPT !.pc = "gone"]
<1>1. SameControl /\ To(t, s) /\ x.pc = "sleep" /\ stopCh
  BY DEF SchedulerExit, Update
<1>2. x = Resting("sleep")
  BY <1>1, RestingScanning DEF ScanInv, Scanning, ScanPC
<1>3. s = Resting("gone")
  <2> DEFINE r == Resting("gone")
  <2>1. s = [Resting("sleep") EXCEPT !.pc = "gone"]
    BY <1>2
  <2>2. IsRecord(s) /\ IsRecord(r)
    BY <2>1 DEF Resting, IsRecord, Fields
  <2>3. /\ s.pc = r.pc /\ s.lib = r.lib /\ s.todo = r.todo /\ s.visited = r.visited
        /\ s.pending = r.pending /\ s.failed = r.failed /\ s.tasks = r.tasks /\ s.owed = r.owed
    BY <2>1 DEF Resting
  <2> HIDE DEF s, r
  <2>4. s = r
    BY <2>2, <2>3 DEF IsRecord, Fields
  <2>5. QED
    BY <2>4 DEF r
<1>4. /\ Locals(s) /\ s.pc = "gone" /\ s.tasks = <<>> /\ s.pending = <<>>
      /\ Place(t, s) /\ Contents(t, s)
  BY <1>3, RestingLocals DEF Resting
<1> HIDE DEF s
<1>5. AllLocals' /\ Order' /\ Debts' /\ Typed' /\ Flags'
  BY <1>1, <1>4, ThreadStep DEF SameControl, Idle, ScanInv, Flags
<1>6. Semaphore'
  <2>1. x.tasks = <<>>
    BY <1>2 DEF Resting
  <2>2. QED
    BY <1>1, <1>4, <2>1, NoRequest DEF ScanInv, SameControl
<1>7. OneScan'
  <2>1. th'[t] = s /\ \A u \in Threads \ {t} : th'[u] = th[u]
    BY <1>1, ToStep DEF ScanInv, AllLocals
  <2>2. \A u \in Threads : Scanning(u)' <=> Scanning(u)
    BY <1>1, <1>4, <2>1 DEF Scanning, ScanPC
  <2>3. QED
    BY <1>1, <2>2 DEF ScanInv, OneScan, SameControl
<1>8. QED
  BY <1>5, <1>6, <1>7 DEF ScanInv

(* A step of a scan.                                                        *)
LEMMA Scans ==
    ASSUME ScanInv, NEW t \in Threads, Scan(t)
    PROVE  ScanInv'
<1> DEFINE x == th[t]
<1>1. Locals(x) /\ (batchStopped => stopCh)
  BY DEF ScanInv, AllLocals, Order
<1>2. Scanning(t) /\ (Leave(t) \/ Goes(t))
  BY <1>1, ScanSteps
<1>3. \A u \in Threads : Scanning(u) <=> u = t
  BY <1>2 DEF ScanInv, OneScan
<1>quiet. \A n \in DOMAIN x.tasks : x.tasks[n].pc # "request"
  BY <1>1, ScanQuiet
<1>4. CASE Leave(t)
  <2> DEFINE pc == IF t \in Schedulers THEN "sleep" ELSE "gone"
             s == Resting(pc)
  <2>1. running' = FALSE /\ To(t, s) /\ UNCHANGED <<stopVars, sem>>
    BY <1>4 DEF Leave
  <2>2. /\ Locals(s) /\ InHand(s) /\ Place(t, s) /\ Contents(t, s)
        /\ s.pc = pc /\ pc \notin ScanPC /\ s.tasks = <<>> /\ s.pending = <<>>
    BY RestingLocals DEF Resting, ScanPC
  <2>3. stopper \notin {"serving", "scanner"} => Idle(t, s)
    BY <1>2, <2>2 DEF ScanInv, Order, Idle, Scanning, ScanPC
  <2> HIDE DEF s, pc
  <2>4. AllLocals' /\ Order' /\ Debts' /\ Typed' /\ Flags'
    BY <2>1, <2>2, <2>3, ThreadStep
  <2>5. Semaphore'
    BY <1>quiet, <2>1, <2>2, NoRequest DEF ScanInv
  <2>6. th'[t] = s /\ \A u \in Threads \ {t} : th'[u] = th[u]
    BY <2>1, ToStep DEF ScanInv, AllLocals
  <2>7. \A u \in Threads : ~Scanning(u)'
    BY <1>3, <2>2, <2>6 DEF Scanning
  <2>8. OneScan'
    BY <2>1, <2>7 DEF OneScan
  <2>9. QED
    BY <2>4, <2>5, <2>8 DEF ScanInv
<1>5. CASE Goes(t)
  <2>1. PICK s : To(t, s) /\ Result(t, x, s) /\ s.pc \in ScanPC /\ SameControl
    BY <1>5 DEF Goes
  <2>2. ~stopCh /\ t \notin Incremental => InHand(s)
    BY <1>1, <2>1 DEF ScanInv, Debts, Result, Order
  <2>3. stopper \notin {"serving", "scanner"} => Idle(t, s)
    BY <2>1 DEF ScanInv, Order, Result
  <2>4. AllLocals' /\ Order' /\ Debts' /\ Typed' /\ Flags'
    <3>1. Place(t, x) /\ Contents(t, x) /\ running' \in BOOLEAN
      BY <2>1 DEF ScanInv, Typed, Flags, SameControl
    <3>2. Place(t, s) /\ Contents(t, s)
      BY <2>1, <3>1 DEF Result
    <3>3. QED
      BY <2>1, <2>2, <2>3, <3>1, <3>2, ThreadStep DEF Result, SameControl
  <2>5. Semaphore'
    BY <1>quiet, <2>1, NoRequest DEF ScanInv, Result, SameControl
  <2>6. th'[t] = s /\ \A u \in Threads \ {t} : th'[u] = th[u]
    BY <2>1, ToStep DEF ScanInv, AllLocals
  <2>7. \A u \in Threads : Scanning(u)' <=> Scanning(u)
    BY <1>3, <2>1, <2>6 DEF Scanning
  <2>8. OneScan'
    BY <2>1, <2>7 DEF ScanInv, OneScan, SameControl
  <2>9. QED
    BY <2>4, <2>5, <2>8 DEF ScanInv
<1>6. QED
  BY <1>2, <1>4, <1>5

(* What happens to the tokens when a task goes from one place to another.    *)
TokenMoved(from, to) ==
    \/ from # "request" /\ to # "request" /\ UNCHANGED sem
    \/ from # "request" /\ to = "request" /\ sem < Concurrency /\ sem' = sem + 1
    \/ from = "request" /\ to # "request" /\ sem > 0 /\ sem' = sem - 1

LEMMA TokenCounted ==
    ASSUME Semaphore, NEW from, NEW to, TokenMoved(from, to), NEW r0,
           \A r : r # r0 => (r \in Requesting' <=> r \in Requesting),
           r0 \in Requesting <=> from = "request",
           r0 \in Requesting' <=> to = "request"
    PROVE  Semaphore'
<1>1. IsFiniteSet(Requesting) /\ sem = Cardinality(Requesting) /\ sem \in Nat /\ sem <= Concurrency
  BY FS_CardinalityType DEF Semaphore, SemaphoreKept
<1>2. CASE from # "request" /\ to # "request"
  <2>1. Requesting' = Requesting
    BY <1>2
  <2>2. QED
    BY <1>2, <2>1, SameRequests DEF TokenMoved
<1>3. CASE from # "request" /\ to = "request"
  <2>1. Requesting' = Requesting \cup {r0} /\ r0 \notin Requesting
    BY <1>3
  <2>2. sem < Concurrency /\ sem' = sem + 1
    BY <1>3 DEF TokenMoved
  <2>3. IsFiniteSet(Requesting') /\ Cardinality(Requesting') = Cardinality(Requesting) + 1
    BY <1>1, <2>1, FS_AddElement
  <2>4. QED
    BY <1>1, <2>2, <2>3, SizesAssumption DEF Semaphore, SemaphoreKept
<1>4. CASE from = "request" /\ to # "request"
  <2>1. Requesting' = Requesting \ {r0} /\ r0 \in Requesting
    BY <1>4
  <2>2. sem > 0 /\ sem' = sem - 1
    BY <1>4 DEF TokenMoved
  <2>3. IsFiniteSet(Requesting') /\ Cardinality(Requesting') = Cardinality(Requesting) - 1
    BY <1>1, <2>1, FS_RemoveElement
  <2>4. QED
    BY <1>1, <2>2, <2>3, SizesAssumption DEF Semaphore, SemaphoreKept
<1>5. QED
  BY <1>2, <1>3, <1>4 DEF TokenMoved

(* A step of a task.                                                        *)
LEMMA Tasks ==
    ASSUME ScanInv, NEW t \in Threads, NEW n \in DOMAIN th[t].tasks,
           TaskStep(t, n) \/ TaskAcquire(t, n)
    PROVE  ScanInv'
<1> DEFINE r0 == <<t, n>>
<1>1. /\ UNCHANGED <<running, stopVars>>
      /\ \E pc \in {"start", "wait", "request"} \cup Outcomes :
            TaskTo(t, n, pc) /\ TokenMoved(TaskPC(t, n), pc)
  BY DEF TaskStep, TaskStart, TaskAcquire, TaskAnswer, Outcomes, SameControl, TokenMoved
<1>2. PICK pc \in {"start", "wait", "request"} \cup Outcomes :
                TaskTo(t, n, pc) /\ TokenMoved(TaskPC(t, n), pc)
  BY <1>1
<1>3. Locals(th[t])
  BY DEF ScanInv, AllLocals
<1>4. PICK s : /\ To(t, s) /\ Locals(s) /\ s.pc = th[t].pc /\ s.pc \in Joining
               /\ DOMAIN s.tasks = DOMAIN th[t].tasks /\ s.tasks[n].pc = pc
               /\ \A m \in DOMAIN s.tasks \ {n} : s.tasks[m] = th[t].tasks[m]
               /\ InHand(th[t]) => InHand(s)
               /\ Place(t, th[t]) => Place(t, s)
               /\ Contents(t, th[t]) => Contents(t, s)
  BY <1>2, <1>3, TaskSteps
<1>5. ~Idle(t, th[t])
  BY <1>4 DEF Idle, Joining
<1>6. AllLocals' /\ Order' /\ Debts' /\ Typed' /\ Flags'
  <2>1. ~stopCh /\ t \notin Incremental => InHand(s)
    BY <1>4 DEF ScanInv, Debts
  <2>2. stopper \in {"serving", "scanner"}
    BY <1>5 DEF ScanInv, Order
  <2>3. Place(t, s) /\ Contents(t, s) /\ running' \in BOOLEAN
    BY <1>1, <1>4 DEF ScanInv, Typed, Flags
  <2>4. QED
    BY <1>1, <1>4, <2>1, <2>2, <2>3, ThreadStep
<1>7. th'[t] = s /\ \A u \in Threads \ {t} : th'[u] = th[u]
  BY <1>4, ToStep DEF ScanInv, AllLocals
<1>8. OneScan'
  <2>1. \A u \in Threads : Scanning(u)' <=> Scanning(u)
    BY <1>4, <1>7 DEF Scanning
  <2>2. QED
    BY <1>1, <2>1 DEF ScanInv, OneScan
<1>9. Semaphore'
  <2>1. \A r : r # r0 => (r \in Requesting' <=> r \in Requesting)
    <3>1. SUFFICES ASSUME NEW r, r # r0 PROVE r \in Requesting' <=> r \in Requesting
      OBVIOUS
    <3>2. ASSUME r \in Requesting' PROVE r \in Requesting
      <4>1. PICK u \in Threads : \E m \in DOMAIN th'[u].tasks :
                                    r = <<u, m>> /\ th'[u].tasks[m].pc = "request"
        BY <3>2 DEF Requesting, TaskPC
      <4>2. QED
        BY <1>4, <1>7, <3>1, <4>1, InRequesting
    <3>3. ASSUME r \in Requesting PROVE r \in Requesting'
      <4>1. PICK u \in Threads : \E m \in DOMAIN th[u].tasks :
                                    r = <<u, m>> /\ th[u].tasks[m].pc = "request"
        BY <3>3, InRequesting
      <4>2. PICK m \in DOMAIN th'[u].tasks : r = <<u, m>> /\ th'[u].tasks[m].pc = "request"
        BY <1>4, <1>7, <3>1, <4>1
      <4>3. QED
        BY <4>2 DEF Requesting, TaskPC
    <3>4. QED
      BY <3>2, <3>3
  <2>2. r0 \in Requesting <=> TaskPC(t, n) = "request"
    BY InRequesting DEF TaskPC
  <2>3. r0 \in Requesting' <=> pc = "request"
    <3>1. ASSUME r0 \in Requesting' PROVE pc = "request"
      <4>1. PICK u \in Threads : \E m \in DOMAIN th'[u].tasks :
                                    r0 = <<u, m>> /\ th'[u].tasks[m].pc = "request"
        BY <3>1 DEF Requesting, TaskPC
      <4>2. QED
        BY <1>4, <1>7, <4>1
    <3>2. ASSUME pc = "request" PROVE r0 \in Requesting'
      BY <1>4, <1>7, <3>2 DEF Requesting, TaskPC
    <3>3. QED
      BY <3>1, <3>2
  <2>4. QED
    BY <1>2, <2>1, <2>2, <2>3, TokenCounted DEF ScanInv
<1>10. QED
  BY <1>6, <1>8, <1>9 DEF ScanInv

(* A step of Server.Stop.                                                   *)
LEMMA Stops ==
    ASSUME ScanInv, Stopping
    PROVE  ScanInv'
<1>1. UNCHANGED <<running, sem, th>>
  BY DEF Stopping, StopScanner, ScannerStopped, StopBatches, BatchesStopped, SameScans
<1>2. AllLocals'
  BY <1>1 DEF ScanInv, AllLocals
<1>3. OneScan'
  BY <1>1 DEF ScanInv, OneScan, Scanning
<1>4. Semaphore'
  <2>1. Requesting' = Requesting
    BY <1>1 DEF Requesting, TaskPC
  <2>2. QED
    BY <1>1, <2>1, SameRequests DEF ScanInv
<1>5. Debts'
  <2>1. stopCh => stopCh'
    BY DEF Stopping, StopScanner, ScannerStopped, StopBatches, BatchesStopped
  <2>2. QED
    BY <1>1, <2>1 DEF ScanInv, Debts
<1>6. Order'
  <2>1. \A t \in Threads : Idle(t, th'[t]) <=> Idle(t, th[t])
    BY <1>1
  <2>2. CASE StopScanner
    BY <2>1, <2>2 DEF ScanInv, Order, StopScanner
  <2>3. CASE ScannerStopped
    <3>1. ASSUME NEW t \in Threads PROVE Idle(t, th[t])
      <4>1. th[t].pc = "gone" /\ ~Scanning(t)
        BY <2>3 DEF ScannerStopped, Scanning, ScanPC
      <4>2. th[t] = Resting("gone")
        BY <4>1, RestingScanning DEF ScanInv
      <4>3. QED
        BY <4>2 DEF Idle, Resting
    <3>2. QED
      BY <1>1, <2>3, <3>1 DEF ScanInv, Order, ScannerStopped
  <2>4. CASE StopBatches \/ BatchesStopped
    BY <1>1, <2>1, <2>4 DEF ScanInv, Order, StopBatches, BatchesStopped
  <2>5. QED
    BY <2>2, <2>3, <2>4 DEF Stopping
<1>7. Typed'
  <2>1. \A t \in Threads : Place(t, th'[t]) /\ Contents(t, th'[t])
    BY <1>1 DEF ScanInv, Typed
  <2>2. QED
    BY <2>1 DEF Typed, Place, Contents
<1>8. Flags'
  BY <1>1 DEF ScanInv, Flags, Stopping, StopScanner, ScannerStopped, StopBatches, BatchesStopped
<1>9. QED
  BY <1>2, <1>3, <1>4, <1>5, <1>6, <1>7, <1>8 DEF ScanInv

LEMMA ScanNext == ScanInv /\ [Next]_vars => ScanInv'
<1> SUFFICES ASSUME ScanInv, [Next]_vars PROVE ScanInv'
  OBVIOUS
<1>1. CASE UNCHANGED vars
  <2>1. UNCHANGED <<running, stopCh, batchStopped, stopper, sem, th>>
    BY <1>1 DEF vars, stopVars
  <2>2. Requesting' = Requesting
    BY <2>1 DEF Requesting, TaskPC
  <2>3. Semaphore'
    BY <2>1, <2>2, SameRequests DEF ScanInv
  <2>4. AllLocals' /\ OneScan' /\ Order' /\ Debts'
    BY <2>1 DEF ScanInv, AllLocals, OneScan, Scanning, Order, Debts
  <2>5. Typed'
    <3>1. \A t \in Threads : Place(t, th'[t]) /\ Contents(t, th'[t])
      BY <2>1 DEF ScanInv, Typed
    <3>2. QED
      BY <3>1 DEF Typed, Place, Contents
  <2>6. Flags'
    BY <2>1 DEF ScanInv, Flags
  <2>7. QED
    BY <2>3, <2>4, <2>5, <2>6 DEF ScanInv
<1>2. CASE Next
  BY <1>2, Enters, Exits, Scans, Tasks, Stops DEF Next
<1>3. QED
  BY <1>1, <1>2

(***************************************************************************)
(* The theorems.                                                           *)
(***************************************************************************)
LEMMA ScanInvariant == Spec => []ScanInv
<1>1. QED
  BY ScanInit, ScanNext, PTL DEF Spec

(* Whatever a scan works on are items of the libraries, of which it visits   *)
(* no more than the safety limit (library_scan.go:689-696), and a full scan  *)
(* never has more in its hands than a batch (library_scan.go:718-723).       *)
THEOREM TypeCorrect == Spec => []TypeOK
<1>1. ASSUME ScanInv, NEW t \in Threads
      PROVE  /\ th[t].pc \in ScanPC \cup {"sleep", "gone"}
             /\ ~Scanning(t) => th[t] = Resting(th[t].pc)
             /\ th[t].lib \in 0..Len(Libraries)
             /\ \/ th[t].todo = {}
                \/ th[t].lib \in DOMAIN Libraries /\ th[t].todo \subseteq Expand(th[t].lib)
             /\ th[t].visited \in 0..MaxItems
             /\ th[t].pending \in Seq(Items) /\ th[t].failed \in Seq(Items)
             /\ t \notin Incremental => Len(th[t].pending) <= FlushSize
             /\ th[t].tasks \in Seq(Task) /\ th[t].owed \subseteq Items
  <2>1. Locals(th[t]) /\ Place(t, th[t]) /\ Contents(t, th[t])
    BY <1>1 DEF ScanInv, AllLocals, Typed
  <2>2. th[t].lib # 0 => th[t].lib \in DOMAIN Libraries
    BY <2>1, LibrariesAssumption DEF Place
  <2>3. th[t].pending \in Seq(Items) /\ th[t].failed \in Seq(Items)
    BY <2>1, SeqMonotonic DEF Locals, Contents, IsSequence
  <2>4. th[t].tasks \in Seq(Task)
    <3>1. ToSet(th[t].tasks) \subseteq Task
      BY <2>1 DEF Contents, ToSet
    <3>2. QED
      BY <2>1, <3>1, SeqMonotonic DEF Locals, IsSequence
  <2>5. QED
    BY <2>1, <2>2, <2>3, <2>4 DEF Locals, Place, Contents, Scanning
<1>2. ScanInv => sem \in 0..Concurrency
  BY FS_CardinalityType, SizesAssumption DEF ScanInv, Semaphore, SemaphoreKept
<1>3. ScanInv => TypeOK
  BY <1>1, <1>2 DEF ScanInv, Flags, TypeOK
<1>4. QED
  BY <1>3, ScanInvariant, PTL

(* At most one scan at a time, and the flag is set exactly while one runs   *)
(* (the CompareAndSwap of library_scan.go:237, 484 and 540, and the deferred *)
(* Store): for any schedulers and triggers, however the scan ends.          *)
THEOREM OneScanAtATime == Spec => []OneScan
<1>1. ScanInv => OneScan
  BY DEF ScanInv
<1>2. QED
  BY <1>1, ScanInvariant, PTL

(* Every token in the semaphore is that of one task that makes a request,    *)
(* for any number of places, threads and batches: on no return of            *)
(* PrefetchItem is one left behind, none is taken out twice, and there are   *)
(* no more requests than places (batch_prefetch.go:136-146, 170-208).        *)
THEOREM SemaphoreHolds == Spec => []SemaphoreKept
<1>1. ScanInv => SemaphoreKept
  BY DEF ScanInv, Semaphore
<1>2. QED
  BY <1>1, ScanInvariant, PTL

(* Once Server.Stop is past the scanner no task is left and none starts,     *)
(* whatever TriggerScan still does (server.go:340-355).                     *)
THEOREM QuietAfterStop == Spec => []NoTaskAfterStop
<1>1. ScanInv => NoTaskAfterStop
  BY DEF ScanInv, Order, Idle, NoTaskAfterStop
<1>2. QED
  BY <1>1, ScanInvariant, PTL

(* A full scan that is not stopped leaves nothing it has found untried, and  *)
(* nothing that failed without another try (library_scan.go:579-649).       *)
THEOREM EverythingServed == Spec => AllServed
<1>1. ASSUME ScanInv, [Next]_vars, NEW t \in Threads \ Incremental,
             th[t].pc = "retry", ~Scanning(t)', ~stopCh
      PROVE  th[t].owed = {}
  <2>1. InHand(th[t]) /\ th[t].pending = <<>>
    BY <1>1 DEF ScanInv, Debts, AllLocals, Locals
  <2>2. th[t].owed \subseteq ToSet(th[t].failed)
    BY <1>1, <2>1, EmptySequence DEF InHand
  <2>3. th[t].failed = <<>>
    <3> SUFFICES ASSUME th[t].failed # <<>> PROVE FALSE
      OBVIOUS
    <3>1. Scanning(t)
      BY <1>1 DEF Scanning, ScanPC
    <3>2. th' # th
      BY <1>1, <3>1 DEF Scanning
    <3>3. Next /\ ~Stopping
      BY <1>1, <3>2 DEF vars, Stopping, StopScanner, ScannerStopped, StopBatches,
                        BatchesStopped, SameScans
    <3>4. PICK u \in Threads :
             \/ Begin(u) \/ SchedulerExit(u) \/ TriggerScan(u) \/ Scan(u)
             \/ \E n \in DOMAIN th[u].tasks : TaskStep(u, n) \/ TaskAcquire(u, n)
      BY <3>3 DEF Next
    <3>5. \E s : To(u, s)
      <4>1. Locals(th[u]) /\ (batchStopped => stopCh)
        BY <1>1 DEF ScanInv, AllLocals, Order
      <4>2. CASE Begin(u) \/ SchedulerExit(u) \/ TriggerScan(u)
        BY <4>2 DEF Begin, SchedulerExit, TriggerScan, Update
      <4>3. CASE Scan(u)
        BY <4>1, <4>3, ScanSteps DEF Leave, Goes
      <4>4. ASSUME NEW n \in DOMAIN th[u].tasks, TaskStep(u, n) \/ TaskAcquire(u, n)
            PROVE  \E s : To(u, s)
        <5>1. \E pc : TaskTo(u, n, pc)
          BY <4>4 DEF TaskStep, TaskStart, TaskAcquire, TaskAnswer
        <5>2. QED
          BY <4>1, <5>1, TaskSteps
      <4>5. QED
        BY <3>4, <4>2, <4>3, <4>4
    <3>6. \A w \in Threads \ {u} : th'[w] = th[w]
      BY <1>1, <3>5, ToStep DEF ScanInv, AllLocals
    <3>7. u = t
      BY <3>1, <3>6, <1>1 DEF Scanning
    <3>8. th[t].tasks = <<>>
      BY <1>1 DEF ScanInv, AllLocals, Locals, Joining
    <3>9. Scan(t)
      BY <1>1, <3>4, <3>7, <3>8 DEF Begin, SchedulerExit, TriggerScan
    <3>10. Retry(t)
      BY <1>1, <3>9 DEF Scan, Prepare, NextLib, List, LastLib, Judge, Judged, Flush,
         FlushLast, Join, JoinIncremental, Retry, RetryJoin, Finish
    <3>11. Goes(t)
      BY <1>1, <3>10, RetrySteps DEF ScanInv, AllLocals, Order
    <3>12. Scanning(t)'
      BY <1>1, <3>11, ToStep DEF Goes, Scanning, ScanInv, AllLocals
    <3>13. QED
      BY <1>1, <3>12
  <2>4. QED
    BY <2>2, <2>3, EmptySequence
<1>2. ScanInv /\ [Next]_vars =>
        [\A t \in Threads \ Incremental :
           th[t].pc = "retry" /\ ~Scanning(t)' /\ ~stopCh => th[t].owed = {}]_vars
  BY <1>1
<1>3. QED
  BY <1>2, ScanInvariant, PTL DEF Spec, AllServed

=============================================================================

---------------------------- MODULE ProgramProofs ----------------------------
(***************************************************************************)
(* Proofs about the program around the proxy: Lifecycle with its Logger,   *)
(* and Config, whose variables are other ones.                             *)
(***************************************************************************)
EXTENDS Lifecycle, Config, TLAPS

(* The directories of k entries, and the writer's view of such a one.      *)
Dirs(k)  == UNION {[S -> Seq(1 .. k)] : S \in SUBSET Names}
Views(k) == [date : 0 .. NoDate, handle : Handles, dir : Dirs(k), size : Nat]

(* The files of a day, from the last slot down, are in the order of their  *)
(* entries.                                                                *)
Ordered(f) ==
    \A d \in 0 .. Days, s, t \in Slots : <<d, s>> \in DOMAIN f /\ <<d, t>> \in DOMAIN f =>
        \A i \in DOMAIN f[<<d, s>>], j \in DOMAIN f[<<d, t>>] :
            s > t \/ (s = t /\ i < j) => f[<<d, s>>][i] < f[<<d, t>>][j]

LEMMA DirsDef ==
    ASSUME NEW k, NEW f
    PROVE  f \in Dirs(k) <=> DOMAIN f \subseteq Names /\ f \in [DOMAIN f -> Seq(1 .. k)]
BY DEF Dirs

LEMMA Pairs ==
    ASSUME NEW n \in Names
    PROVE  n[1] \in 0 .. Days /\ n[2] \in Slots /\ n = <<n[1], n[2]>>
BY DEF Names

LEMMA SeqFunction ==
    ASSUME NEW S, NEW n \in Nat, NEW s \in Seq(S), Len(s) = n
    PROVE  s \in [1 .. n -> S]
OBVIOUS

LEMMA FunctionSeq ==
    ASSUME NEW S, NEW n \in Nat, NEW s \in [1 .. n -> S]
    PROVE  s \in Seq(S) /\ Len(s) = n
OBVIOUS

LEMMA Naturals == QueueSize \in Nat /\ MaxLogFileSize \in Nat \ {0} /\ Slices \in Nat \ {0}
                  /\ MaxEntries \in Nat /\ Days \in Nat /\ MaxFaults \in Nat
BY LoggerAssumption

-----------------------------------------------------------------------------
(* The operators on files.                                                 *)
LEMMA OpenedCurrent ==
    ASSUME NEW f, NEW d
    PROVE  Current(d) \in DOMAIN Opened(f, d)
<1>1. CASE Current(d) \in DOMAIN f
  BY <1>1 DEF Opened
<1>2. CASE Current(d) \notin DOMAIN f
  <2>1. PICK g : g = Opened(f, d)
    OBVIOUS
  <2>2. g = [n \in DOMAIN f \cup {Current(d)} |-> IF n \in DOMAIN f THEN f[n] ELSE <<>>]
    BY <1>2, <2>1 DEF Opened
  <2>3. DOMAIN g = DOMAIN f \cup {Current(d)}
    BY <2>2
  <2>. QED  BY <2>1, <2>3
<1>. QED  BY <1>1, <1>2

LEMMA OpenedFile ==
    ASSUME NEW k \in Nat, NEW f \in Dirs(k), NEW d \in 0 .. Days
    PROVE  /\ Opened(f, d) \in Dirs(k)
           /\ Current(d) \in DOMAIN Opened(f, d) /\ DOMAIN f \subseteq DOMAIN Opened(f, d)
           /\ \A n \in DOMAIN Opened(f, d) :
                \/ n \in DOMAIN f /\ Opened(f, d)[n] = f[n]
                \/ n = Current(d) /\ n \notin DOMAIN f /\ Opened(f, d)[n] = <<>>
<1>1. DOMAIN f \subseteq Names /\ f \in [DOMAIN f -> Seq(1 .. k)]
  BY DirsDef
<1>2. Current(d) \in Names
  BY Naturals DEF Current, Names, Slots
<1>3. CASE Current(d) \in DOMAIN f
  BY <1>3 DEF Opened
<1>4. CASE Current(d) \notin DOMAIN f
  <2>1. Opened(f, d) = [n \in DOMAIN f \cup {Current(d)} |-> IF n \in DOMAIN f THEN f[n] ELSE <<>>]
    BY <1>4 DEF Opened
  <2>0. <<>> \in Seq(1 .. k)
    OBVIOUS
  <2>2. Opened(f, d) \in [DOMAIN f \cup {Current(d)} -> Seq(1 .. k)]
    BY <1>1, <2>0, <2>1
  <2>3. Opened(f, d) \in Dirs(k)
    BY <1>1, <1>2, <2>2 DEF Dirs
  <2>. QED  BY <1>4, <2>1, <2>3
<1>. QED  BY <1>3, <1>4

(* A file of the rotated day has moved up, or the move failed.             *)
LEMMA RotatedFiles ==
    ASSUME NEW k \in Nat, NEW f \in Dirs(k), NEW d \in 0 .. NoDate, NEW failing
    PROVE  /\ Rotated(f, d, failing) \in Dirs(k)
           /\ \A n \in Names : n[1] # d =>
                /\ n \in DOMAIN Rotated(f, d, failing) <=> n \in DOMAIN f
                /\ n \in DOMAIN f => Rotated(f, d, failing)[n] = f[n]
           /\ \A x \in Slots : <<d, x>> \in DOMAIN Rotated(f, d, failing) =>
                \/ /\ x > 0 /\ <<d, x - 1>> \in DOMAIN f /\ <<"move", x - 1>> \notin failing
                   /\ Rotated(f, d, failing)[<<d, x>>] = f[<<d, x - 1>>]
                \/ /\ <<d, x>> \in DOMAIN f /\ (x = Slices \/ <<"move", x>> \in failing)
                   /\ Rotated(f, d, failing)[<<d, x>>] = f[<<d, x>>]
           /\ \A x \in Slots : x < Slices /\ <<d, x>> \in DOMAIN f /\ <<"move", x>> \notin failing =>
                /\ <<d, x + 1>> \in DOMAIN Rotated(f, d, failing)
                /\ Rotated(f, d, failing)[<<d, x + 1>>] = f[<<d, x>>]
<1> DEFINE Has(s)   == <<d, s>> \in DOMAIN f
           Moves(s) == s < Slices /\ <<"move", s>> \notin failing /\ Has(s)
           Fills(s) == s > 0 /\ Moves(s - 1)
           Stays(s) == Has(s) /\ ~Moves(s) /\ (s < Slices \/ <<"move", s>> \in failing)
           Kept     == {n \in DOMAIN f : n[1] # d}
                       \cup {<<d, s>> : s \in {x \in Slots : Fills(x) \/ Stays(x)}}
           r        == [n \in Kept |-> IF n[1] = d /\ Fills(n[2]) THEN f[<<d, n[2] - 1>>] ELSE f[n]]
<1>1. Rotated(f, d, failing) = r
  BY DEF Rotated
<1>2. DOMAIN f \subseteq Names /\ f \in [DOMAIN f -> Seq(1 .. k)]
  BY DirsDef
<1>3. Slots = 0 .. Slices /\ Slices \in Nat
  BY Naturals DEF Slots
<1>4. ASSUME NEW n \in Kept
      PROVE  n \in Names /\ r[n] \in Seq(1 .. k)
  <2>1. CASE n[1] # d
    <3>1. \A s : n # <<d, s>>
      BY <2>1
    <3>2. n \in DOMAIN f /\ r[n] = f[n]
      BY <1>4, <2>1, <3>1
    <3>. QED  BY <1>2, <3>2
  <2>2. CASE n[1] = d
    <3>1. PICK x \in Slots : n = <<d, x>> /\ (Fills(x) \/ Stays(x))
      BY <1>4, <2>2
    <3>2. n[2] = x
      BY <3>1
    <3>3. d \in 0 .. Days
      BY <1>2, <3>1 DEF Names
    <3>4. n \in Names
      BY <3>1, <3>3 DEF Names
    <3>5. CASE Fills(x)
      <4>1. Has(x - 1) /\ r[n] = f[<<d, x - 1>>]
        BY <1>4, <2>2, <3>2, <3>5
      <4>2. f[<<d, x - 1>>] \in Seq(1 .. k)
        BY <1>2, <4>1
      <4>. QED  BY <3>4, <4>1, <4>2
    <3>6. CASE ~Fills(x)
      BY <1>2, <2>2, <3>1, <3>2, <3>4, <3>6
    <3>. QED  BY <3>5, <3>6
  <2>. QED  BY <2>1, <2>2
<1>5. Rotated(f, d, failing) \in Dirs(k)
  <2>1. r \in [Kept -> Seq(1 .. k)] /\ Kept \subseteq Names
    BY <1>4
  <2>. QED  BY <1>1, <2>1 DEF Dirs
<1>6. ASSUME NEW n \in Names, n[1] # d
      PROVE  /\ n \in DOMAIN r <=> n \in DOMAIN f
             /\ n \in DOMAIN f => r[n] = f[n]
  <2>1. \A s : n # <<d, s>>
    BY <1>6
  <2>2. n \in Kept <=> n \in DOMAIN f
    BY <1>6, <2>1
  <2>. QED  BY <2>2, <1>6
<1>7. ASSUME NEW x \in Slots, <<d, x>> \in DOMAIN r
      PROVE  \/ /\ x > 0 /\ <<d, x - 1>> \in DOMAIN f /\ <<"move", x - 1>> \notin failing
                /\ r[<<d, x>>] = f[<<d, x - 1>>]
             \/ /\ <<d, x>> \in DOMAIN f /\ (x = Slices \/ <<"move", x>> \in failing)
                /\ r[<<d, x>>] = f[<<d, x>>]
  <2>1. Fills(x) \/ Stays(x)
    BY <1>7
  <2>2. CASE Fills(x)
    BY <1>7, <2>2
  <2>3. CASE ~Fills(x)
    <3>1. r[<<d, x>>] = f[<<d, x>>] /\ Stays(x)
      BY <1>7, <2>1, <2>3
    <3>. QED  BY <1>3, <3>1
  <2>. QED  BY <2>2, <2>3
<1>8. ASSUME NEW x \in Slots, x < Slices, <<d, x>> \in DOMAIN f, <<"move", x>> \notin failing
      PROVE  <<d, x + 1>> \in DOMAIN r /\ r[<<d, x + 1>>] = f[<<d, x>>]
  <2>1. x + 1 \in Slots /\ x + 1 > 0 /\ (x + 1) - 1 = x
    BY <1>3, <1>8
  <2>2. Moves(x)
    BY <1>8
  <2>3. Fills(x + 1)
    BY <2>1, <2>2
  <2>4. x + 1 \in {y \in Slots : Fills(y) \/ Stays(y)}
    BY <2>1, <2>3
  <2>5. <<d, x + 1>> \in Kept
    BY <2>4
  <2>6. r[<<d, x + 1>>] = f[<<d, (x + 1) - 1>>]
    BY <2>3, <2>5
  <2>. QED  BY <2>1, <2>5, <2>6
<1>. QED  BY <1>1, <1>5, <1>6, <1>7, <1>8

LEMMA OpenedOrder ==
    ASSUME NEW k \in Nat, NEW f \in Dirs(k), NEW d \in 0 .. Days, Ordered(f)
    PROVE  Ordered(Opened(f, d))
<1> DEFINE o == Opened(f, d)
<1>1. ASSUME NEW n \in DOMAIN o
      PROVE  (n \in DOMAIN f /\ o[n] = f[n]) \/ o[n] = <<>>
  BY <1>1, OpenedFile
<1> SUFFICES ASSUME NEW e \in 0 .. Days, NEW s \in Slots, NEW t \in Slots,
                    <<e, s>> \in DOMAIN o, <<e, t>> \in DOMAIN o,
                    NEW i \in DOMAIN o[<<e, s>>], NEW j \in DOMAIN o[<<e, t>>],
                    s > t \/ (s = t /\ i < j)
             PROVE  o[<<e, s>>][i] < o[<<e, t>>][j]
  BY DEF Ordered
<1> HIDE DEF o
<1>2. <<e, s>> \in DOMAIN f /\ o[<<e, s>>] = f[<<e, s>>]
  BY <1>1
<1>3. <<e, t>> \in DOMAIN f /\ o[<<e, t>>] = f[<<e, t>>]
  BY <1>1
<1>. QED  BY <1>2, <1>3 DEF Ordered

(* No file is moved past one that stayed: what would be overwritten has    *)
(* moved first, or the move fails too.                                     *)
LEMMA RotatedOrder ==
    ASSUME NEW k \in Nat, NEW f \in Dirs(k), NEW d \in 0 .. NoDate, NEW failing, Ordered(f)
    PROVE  Ordered(Rotated(f, d, failing))
<1> DEFINE r == Rotated(f, d, failing)
<1> SUFFICES ASSUME NEW e \in 0 .. Days, NEW s \in Slots, NEW t \in Slots,
                    <<e, s>> \in DOMAIN r, <<e, t>> \in DOMAIN r,
                    NEW i \in DOMAIN r[<<e, s>>], NEW j \in DOMAIN r[<<e, t>>],
                    s > t \/ (s = t /\ i < j)
             PROVE  r[<<e, s>>][i] < r[<<e, t>>][j]
  BY DEF Ordered
<1>1. CASE e # d
  <2>1. <<e, s>> \in Names /\ <<e, t>> \in Names /\ <<e, s>>[1] # d /\ <<e, t>>[1] # d
    BY <1>1 DEF Names
  <2>2. /\ <<e, s>> \in DOMAIN f /\ r[<<e, s>>] = f[<<e, s>>]
        /\ <<e, t>> \in DOMAIN f /\ r[<<e, t>>] = f[<<e, t>>]
    BY <2>1, RotatedFiles
  <2> HIDE DEF r
  <2>. QED  BY <2>2 DEF Ordered
<1>2. CASE e = d
  <2>1. ASSUME NEW x \in Slots, <<e, x>> \in DOMAIN r
        PROVE  \/ /\ x > 0 /\ <<e, x - 1>> \in DOMAIN f /\ <<"move", x - 1>> \notin failing
                  /\ r[<<e, x>>] = f[<<e, x - 1>>]
               \/ /\ <<e, x>> \in DOMAIN f /\ (x = Slices \/ <<"move", x>> \in failing)
                  /\ r[<<e, x>>] = f[<<e, x>>]
    BY <1>2, <2>1, RotatedFiles
  <2> HIDE DEF r
  <2>2. Slots = 0 .. Slices /\ Slices \in Nat
    BY Naturals DEF Slots
  <2>3. ASSUME NEW z \in Slots, <<e, z>> \in DOMAIN r
        PROVE  \E x \in Slots : /\ <<e, x>> \in DOMAIN f /\ r[<<e, z>>] = f[<<e, x>>]
                               /\ \/ x = z /\ (z = Slices \/ <<"move", z>> \in failing)
                                  \/ x = z - 1 /\ <<"move", x>> \notin failing
    <3>1. CASE /\ z > 0 /\ <<e, z - 1>> \in DOMAIN f /\ <<"move", z - 1>> \notin failing
               /\ r[<<e, z>>] = f[<<e, z - 1>>]
      <4>1. z - 1 \in Slots
        BY <2>2, <3>1
      <4>. QED  BY <3>1, <4>1
    <3>. QED  BY <2>1, <2>3, <3>1
  <2>4. PICK x \in Slots : /\ <<e, x>> \in DOMAIN f /\ r[<<e, s>>] = f[<<e, x>>]
                           /\ \/ x = s /\ (s = Slices \/ <<"move", s>> \in failing)
                              \/ x = s - 1 /\ <<"move", x>> \notin failing
    BY <2>3
  <2>5. PICK y \in Slots : /\ <<e, y>> \in DOMAIN f /\ r[<<e, t>>] = f[<<e, y>>]
                           /\ \/ y = t /\ (t = Slices \/ <<"move", t>> \in failing)
                              \/ y = t - 1 /\ <<"move", y>> \notin failing
    BY <2>3
  <2>6. CASE s = t
    <3>1. i < j
      BY <2>2, <2>6
    <3>. QED  BY <2>4, <2>6, <3>1 DEF Ordered
  <2>7. CASE s > t
    <3>1. x > y
      BY <2>2, <2>4, <2>5, <2>7
    <3>. QED  BY <2>4, <2>5, <3>1 DEF Ordered
  <2>. QED  BY <2>2, <2>6, <2>7
<1>. QED  BY <1>1, <1>2

-----------------------------------------------------------------------------
(* The steps of the writer keep its view well formed and the files in order. *)
Sound(w, k) == w \in Views(k) /\ Ordered(w.dir)

LEMMA ClosedView ==
    ASSUME NEW k \in Nat, NEW w, Sound(w, k)
    PROVE  Sound(Close(w), k) /\ Close(w).dir = w.dir /\ Close(w).date = w.date
BY DEF Close, Sound, Views, Handles

LEMMA OpenView ==
    ASSUME NEW k \in Nat, NEW w, Sound(w, k), today \in 0 .. Days, NEW opens \in BOOLEAN
    PROVE  Sound(Open(w, opens), k)
<1>1. CASE opens
  <2> DEFINE f == Opened(w.dir, today)
  <2>1. f \in Dirs(k) /\ Ordered(f)
    BY OpenedFile, OpenedOrder DEF Sound, Views
  <2>2. Current(today) \in DOMAIN f
    <3>1. w.dir \in Dirs(k)
      BY DEF Sound, Views
    <3>. QED  BY <3>1, OpenedFile
  <2>3. f[Current(today)] \in Seq(1 .. k)
    BY <2>1, <2>2, DirsDef
  <2>4. Len(f[Current(today)]) \in Nat
    BY <2>3
  <2>5. Open(w, opens) = [date |-> today, handle |-> "open", dir |-> f,
                          size |-> Len(f[Current(today)])]
    BY <1>1 DEF Open
  <2>6. today \in 0 .. NoDate
    BY Naturals DEF NoDate
  <2> HIDE DEF f
  <2>. QED  BY <2>1, <2>4, <2>5, <2>6 DEF Sound, Views, Handles
<1>2. CASE ~opens
  BY <1>2 DEF Open
<1>. QED  BY <1>1, <1>2

LEMMA EnsureView ==
    ASSUME NEW k \in Nat, NEW w, Sound(w, k), today \in 0 .. Days, NEW failing
    PROVE  Sound(Ensure(w, failing), k)
<1>1. Sound(Close(w), k)
  BY ClosedView
<1>2. Sound(Open(Close(w), <<"ensure", 0>> \notin failing), k)
  BY <1>1, OpenView
<1>. QED  BY <1>2 DEF Ensure

(* The entry is a later one than any in the files, and slot 0 the last.    *)
LEMMA AppendView ==
    ASSUME NEW k \in Nat, NEW w, Sound(w, k), NEW failing
    PROVE  Sound(Append1(w, k + 1, failing), k + 1)
<1> DEFINE cur == Current(w.date)
           f   == w.dir
           g   == Appended(f, cur, k + 1)
<1>1. DOMAIN f \subseteq Names /\ f \in [DOMAIN f -> Seq(1 .. k)] /\ Ordered(f)
  BY DirsDef DEF Sound, Views
<1>2. \A s \in Seq(1 .. k) : s \in Seq(1 .. (k + 1)) /\ Append(s, k + 1) \in Seq(1 .. (k + 1))
  <2> SUFFICES ASSUME NEW s \in Seq(1 .. k)
               PROVE  s \in Seq(1 .. (k + 1)) /\ Append(s, k + 1) \in Seq(1 .. (k + 1))
    OBVIOUS
  <2>1. 1 .. k \subseteq 1 .. (k + 1) /\ k + 1 \in 1 .. (k + 1)
    OBVIOUS
  <2>2. s \in Seq(1 .. (k + 1))
    BY <2>1
  <2>. QED  BY <2>1, <2>2
<1>3. DOMAIN g = DOMAIN f /\ g \in [DOMAIN f -> Seq(1 .. (k + 1))]
  BY <1>1, <1>2 DEF Appended
<1>4. f \in Dirs(k + 1) /\ g \in Dirs(k + 1)
  BY <1>1, <1>2, <1>3 DEF Dirs
<1>5. Ordered(g)
  <2> SUFFICES ASSUME NEW e \in 0 .. Days, NEW s \in Slots, NEW t \in Slots,
                      <<e, s>> \in DOMAIN g, <<e, t>> \in DOMAIN g,
                      NEW i \in DOMAIN g[<<e, s>>], NEW j \in DOMAIN g[<<e, t>>],
                      s > t \/ (s = t /\ i < j)
               PROVE  g[<<e, s>>][i] < g[<<e, t>>][j]
    BY DEF Ordered
  <2>1. ASSUME NEW x \in Slots, <<e, x>> \in DOMAIN f, NEW h \in DOMAIN g[<<e, x>>]
        PROVE  \/ h \in DOMAIN f[<<e, x>>] /\ g[<<e, x>>][h] = f[<<e, x>>][h]
                  /\ g[<<e, x>>][h] \in 1 .. k
               \/ x = 0 /\ h = Len(f[<<e, x>>]) + 1 /\ g[<<e, x>>][h] = k + 1
                  /\ DOMAIN g[<<e, x>>] = 1 .. h
    <3>1. f[<<e, x>>] \in Seq(1 .. k)
      BY <1>1, <2>1
    <3>2. CASE <<e, x>> = cur
      <4>1. g[<<e, x>>] = Append(f[<<e, x>>], k + 1)
        BY <1>1, <2>1, <3>2 DEF Appended
      <4>2. x = 0
        BY <3>2 DEF Current
      <4> HIDE DEF f, g
      <4>. QED  BY <2>1, <3>1, <4>1, <4>2
    <3>3. CASE <<e, x>> # cur
      <4>1. g[<<e, x>>] = f[<<e, x>>]
        BY <1>1, <2>1, <3>3 DEF Appended
      <4> HIDE DEF f, g
      <4>. QED  BY <2>1, <3>1, <4>1
    <3>. QED  BY <3>2, <3>3
  <2> HIDE DEF f, g
  <2>2. Slots \subseteq Nat
    BY DEF Slots
  <2>3. /\ <<e, s>> \in DOMAIN f /\ <<e, t>> \in DOMAIN f
        /\ f[<<e, s>>] \in Seq(1 .. k) /\ f[<<e, t>>] \in Seq(1 .. k)
    BY <1>1, <1>3
  <2>4. CASE i \in DOMAIN f[<<e, s>>] /\ g[<<e, s>>][i] = f[<<e, s>>][i] /\ g[<<e, s>>][i] \in 1 .. k
    <3>1. CASE j \in DOMAIN f[<<e, t>>] /\ g[<<e, t>>][j] = f[<<e, t>>][j]
      BY <1>1, <2>3, <2>4, <3>1 DEF Ordered
    <3>2. CASE g[<<e, t>>][j] = k + 1
      BY <2>4, <3>2
    <3>. QED  BY <2>1, <2>3, <3>1, <3>2
  <2>5. CASE s = 0 /\ DOMAIN g[<<e, s>>] = 1 .. i /\ i = Len(f[<<e, s>>]) + 1
    BY <2>2, <2>3, <2>5
  <2>. QED  BY <2>1, <2>3, <2>4, <2>5
<1> DEFINE v == IF w.handle = "closed" \/ <<"write", 0>> \in failing
                THEN [w EXCEPT !.handle = "broken"]
                ELSE [w EXCEPT !.dir = g]
<1>6. w \in Views(k + 1)
  BY <1>4 DEF Sound, Views
<1>7. v \in Views(k + 1) /\ (v.dir = f \/ v.dir = g)
  <2> HIDE DEF g
  <2>. QED  BY <1>4, <1>6 DEF Views, Handles
<1>8. Append1(w, k + 1, failing) = [v EXCEPT !.size = @ + 1]
  BY DEF Append1
<1> HIDE DEF v
<1>9. Append1(w, k + 1, failing) \in Views(k + 1) /\ Append1(w, k + 1, failing).dir = v.dir
  BY <1>7, <1>8 DEF Views
<1>. QED  BY <1>1, <1>5, <1>7, <1>9 DEF Sound

LEMMA RotateView ==
    ASSUME NEW k \in Nat, NEW w, Sound(w, k), today \in 0 .. Days, NEW failing
    PROVE  Sound(Rotate(w, failing), k)
<1> DEFINE r == Rotated(w.dir, w.date, failing)
           v == [Close(w) EXCEPT !.dir = r]
<1>1. r \in Dirs(k) /\ Ordered(r)
  BY RotatedFiles, RotatedOrder DEF Sound, Views
<1>2. Sound(Close(w), k) /\ Close(w).dir = w.dir
  BY ClosedView
<1> HIDE DEF r
<1>3. Sound(v, k)
  BY <1>1, <1>2 DEF Sound, Views
<1>4. v = [Close(w) EXCEPT !.dir = Rotated(@, w.date, failing)]
  BY <1>2 DEF r, Sound, Views
<1> HIDE DEF v
<1>5. Sound(Open(v, <<"open", 0>> \notin failing), k)
  BY <1>3, OpenView
<1>. QED  BY <1>4, <1>5 DEF Rotate

LEMMA WrittenView ==
    ASSUME NEW k \in Nat, NEW w, Sound(w, k), today \in 0 .. Days, NEW failing
    PROVE  Sound(WriteToFile(w, k + 1, failing), k + 1)
<1> DEFINE v == Ensure(w, failing)
<1>1. Sound(v, k)
  BY EnsureView
<1> HIDE DEF v
<1>2. Dirs(k) \subseteq Dirs(k + 1)
  <2>1. \A S : S \in SUBSET Names => [S -> Seq(1 .. k)] \subseteq [S -> Seq(1 .. (k + 1))]
    <3>1. Seq(1 .. k) \subseteq Seq(1 .. (k + 1))
      <4>1. 1 .. k \subseteq 1 .. (k + 1)
        OBVIOUS
      <4>. QED  BY <4>1
    <3>. QED  BY <3>1
  <2>. QED  BY <2>1 DEF Dirs
<1>3. Sound(v, k + 1)
  BY <1>1, <1>2 DEF Sound, Views
<1>4. Sound(Append1(v, k + 1, failing), k + 1)
  BY <1>1, AppendView
<1>5. Sound(Rotate(Append1(v, k + 1, failing), failing), k + 1)
  BY <1>4, RotateView
<1>. QED  BY <1>3, <1>5 DEF WriteToFile, v

-----------------------------------------------------------------------------
(* The logger's part of a step of the program.                             *)
LogStep ==
    \/ \E g \in Loggers : Log(g) \/ Enqueue(g)
    \/ WriterTake \/ WriterDrain \/ WriterGone
    \/ CleanerRun \/ CleanerExit
    \/ CloseBegin \/ CloseTell
    \/ NewDay \/ (\E n \in Names : LogsClear(n))
    \/ UNCHANGED logVars

LEMMA NextLogs == [Next]_vars => LogStep
BY DEF Next, vars, LogStep, LoggerStep, Work, Surroundings, Signal, MainStep, StartServers, Listen,
       ServingEnds, MainStop, Exit, WatcherStep, Notify, Receive, WatcherStop, StopStep,
       StopHTTP, StopParts, StopLogger

LogInv == LogTypeOK /\ Ordered(dir)

(* What the writer, the cleaner and the dashboard can do to the directory. *)
LEMMA LostFiles ==
    ASSUME NEW k \in Nat, NEW f \in Dirs(k), Ordered(f), NEW S
    PROVE  Without(f, S) \in Dirs(k) /\ Ordered(Without(f, S))
<1>1. Without(f, S) \in [DOMAIN f \ S -> Seq(1 .. k)] /\ DOMAIN f \ S \in SUBSET Names
  BY DirsDef DEF Without
<1>. QED  BY <1>1 DEF Dirs, Ordered, Without

LEMMA TakenEntry ==
    ASSUME LogInv, WriterTake
    PROVE  LogInv'
<1> DEFINE w == [date |-> currentDate, handle |-> handle, dir |-> dir, size |-> size]
<1> USE Naturals
<1>1. taken \in Nat /\ today \in 0 .. Days /\ currentDate \in 0 .. NoDate /\ Days \in Nat
  BY DEF LogInv, LogTypeOK
<1>2. dir \in Dirs(taken)
  BY DirsDef DEF LogInv, LogTypeOK
<1>3. Sound(w, taken)
  <2>1. w \in Views(taken)
    BY <1>1, <1>2 DEF LogInv, LogTypeOK, Views
  <2>. QED  BY <2>1 DEF Sound, LogInv
<1> HIDE DEF w
<1>4. PICK failing : /\ currentDate' = WriteToFile(w, taken + 1, failing).date
                     /\ handle' = WriteToFile(w, taken + 1, failing).handle
                     /\ size' = WriteToFile(w, taken + 1, failing).size
                     /\ dir' = WriteToFile(w, taken + 1, failing).dir
                     /\ faults' \in {faults, faults + 1} /\ faults' \in 0 .. MaxFaults
  <2>1. PICK failing \in IF faults + clears < MaxFaults THEN SUBSET Operations ELSE {{}} :
            /\ currentDate' = WriteToFile(w, taken + 1, failing).date
            /\ handle' = WriteToFile(w, taken + 1, failing).handle
            /\ size' = WriteToFile(w, taken + 1, failing).size
            /\ dir' = WriteToFile(w, taken + 1, failing).dir
            /\ faults' = IF failing = {} THEN faults ELSE faults + 1
    BY DEF WriterTake, ProcessEntry, w
  <2>2. faults \in 0 .. MaxFaults /\ clears \in 0 .. MaxFaults
    BY DEF LogInv, LogTypeOK
  <2>3. failing = {} \/ faults + clears < MaxFaults
    BY <2>1
  <2>4. faults' \in {faults, faults + 1} /\ faults' \in 0 .. MaxFaults
    BY <2>1, <2>2, <2>3
  <2>. QED  BY <2>1, <2>4
<1> DEFINE v == WriteToFile(w, taken + 1, failing)
<1>5. Sound(v, taken + 1)
  BY <1>1, <1>3, WrittenView
<1> HIDE DEF v
<1>6. /\ currentDate' \in 0 .. NoDate /\ handle' \in Handles /\ size' \in Nat
      /\ dir' \in Dirs(taken + 1) /\ Ordered(dir')
  BY <1>4, <1>5 DEF Sound, Views, v
<1>7. /\ taken' = taken + 1 /\ dayOf' = Append(dayOf, today) /\ taken < sent
      /\ UNCHANGED <<queueVars, writer, cleaner, today, clears>>
  BY DEF WriterTake, ProcessEntry
<1>8. dayOf' \in [1 .. taken' -> 0 .. Days]
  <2>1. dayOf \in [1 .. taken -> 0 .. Days]
    BY DEF LogInv, LogTypeOK
  <2>2. dayOf \in Seq(0 .. Days) /\ Len(dayOf) = taken
    BY <1>1, <2>1, FunctionSeq
  <2>3. Append(dayOf, today) \in Seq(0 .. Days) /\ Len(Append(dayOf, today)) = taken + 1
    BY <1>1, <2>2
  <2>4. Append(dayOf, today) \in [1 .. (taken + 1) -> 0 .. Days]
    <3>1. taken + 1 \in Nat
      BY <1>1
    <3>. QED  BY <2>3, <3>1, SeqFunction
  <2>. QED  BY <1>7, <2>4
<1>9. DOMAIN dir' \subseteq Names /\ dir' \in [DOMAIN dir' -> Seq(1 .. taken')]
  BY <1>6, <1>7, DirsDef
<1>10. taken' \in 0 .. sent' /\ sent' - taken' <= QueueSize
  <2>1. sent \in Nat /\ taken \in 0 .. sent /\ sent - taken <= QueueSize
    BY DEF LogInv, LogTypeOK
  <2>2. sent' = sent
    BY <1>7 DEF queueVars
  <2>3. taken + 1 \in 0 .. sent
    BY <1>1, <1>7, <2>1
  <2>4. sent - (taken + 1) <= QueueSize
    BY <1>1, <2>1
  <2>. QED  BY <1>7, <2>2, <2>3, <2>4
<1>11. Ordered(dir)'
  BY <1>6 DEF Ordered
<1>. QED  BY <1>4, <1>6, <1>7, <1>8, <1>9, <1>10, <1>11 DEF LogInv, LogTypeOK, queueVars, NoDate

LEMMA LogStepInv ==
    ASSUME LogInv, LogStep
    PROVE  LogInv'
<1> USE Naturals
<1>0. /\ taken \in Nat /\ sent \in Nat /\ due \in Nat /\ today \in Nat
      /\ taken <= sent /\ due <= sent /\ sent <= MaxEntries /\ today <= Days
      /\ sent - taken <= QueueSize
  BY DEF LogInv, LogTypeOK
<1>a. dir \in Dirs(taken)
  BY DirsDef DEF LogInv, LogTypeOK
<1>1. ASSUME UNCHANGED <<taken, dir, dayOf>>
      PROVE  /\ Ordered(dir)'
             /\ DOMAIN dir' \subseteq Names /\ dir' \in [DOMAIN dir' -> Seq(1 .. taken')]
             /\ dayOf' \in [1 .. taken' -> 0 .. Days]
  BY <1>1 DEF LogInv, LogTypeOK, Ordered, NoDate, Names
<1>2. ASSUME NEW g \in Loggers, Log(g)
      PROVE  LogInv'
  BY <1>1, <1>2 DEF Log, LogInv, LogTypeOK, queueVars, fileVars, NoDate
<1>3. ASSUME NEW g \in Loggers, Enqueue(g)
      PROVE  LogInv'
  <2>1. /\ sent' \in 0 .. MaxEntries /\ due' \in 0 .. sent'
        /\ taken' \in 0 .. sent' /\ sent' - taken' <= QueueSize
    <3>1. UNCHANGED <<taken, due>>
      BY <1>3 DEF Enqueue
    <3>2. CASE sent - taken < QueueSize /\ sent < MaxEntries /\ sent' = sent + 1
      BY <1>0, <3>1, <3>2
    <3>3. CASE UNCHANGED sent
      BY <1>0, <3>1, <3>3
    <3>. QED  BY <1>3, <3>2, <3>3 DEF Enqueue
  <2>2. passing' \subseteq Loggers
    BY <1>3 DEF Enqueue, LogInv, LogTypeOK
  <2>. QED  BY <1>1, <1>3, <2>1, <2>2 DEF Enqueue, LogInv, LogTypeOK, fileVars, NoDate
<1>4. CASE WriterTake
  BY <1>4, TakenEntry
<1>5. CASE WriterDrain \/ WriterGone
  BY <1>1, <1>5 DEF WriterDrain, WriterGone, LogInv, LogTypeOK, queueVars, fileVars, NoDate, Handles
<1>6. ASSUME NEW S, dir' = Without(dir, S), taken' = taken
      PROVE  /\ Ordered(dir)'
             /\ DOMAIN dir' \subseteq Names /\ dir' \in [DOMAIN dir' -> Seq(1 .. taken')]
  <2>1. dir' \in Dirs(taken') /\ Ordered(dir')
    BY <1>0, <1>a, <1>6, LostFiles DEF LogInv
  <2>. QED  BY <2>1, DirsDef DEF Ordered
<1>7. CASE CleanerRun
  BY <1>6, <1>7 DEF CleanerRun, LogInv, LogTypeOK, queueVars, NoDate
<1>8. ASSUME NEW n \in Names, LogsClear(n)
      PROVE  LogInv'
  <2>1. clears' \in 0 .. MaxFaults
    <3>1. faults \in 0 .. MaxFaults /\ clears \in 0 .. MaxFaults
      BY DEF LogInv, LogTypeOK
    <3>2. faults + clears < MaxFaults /\ clears' = clears + 1
      BY <1>8 DEF LogsClear
    <3>. QED  BY <3>1, <3>2
  <2>2. /\ UNCHANGED <<queueVars, taken, writer, cleaner, today>>
        /\ UNCHANGED <<currentDate, handle, size, dayOf, faults>>
    BY <1>8 DEF LogsClear
  <2>3. /\ Ordered(dir)'
        /\ DOMAIN dir' \subseteq Names /\ dir' \in [DOMAIN dir' -> Seq(1 .. taken')]
    BY <1>6, <1>8, <2>2 DEF LogsClear
  <2>4. /\ passing \subseteq Loggers /\ writer \in {"select", "drain", "gone"}
        /\ {closed, shutdown, cleaner} \subseteq BOOLEAN /\ due \in 0 .. sent
        /\ sent \in 0 .. MaxEntries /\ taken \in 0 .. sent /\ sent - taken <= QueueSize
        /\ today \in 0 .. Days /\ currentDate \in 0 .. NoDate /\ handle \in Handles
        /\ size \in Nat /\ dayOf \in [1 .. taken -> 0 .. Days] /\ faults \in 0 .. MaxFaults
    BY DEF LogInv, LogTypeOK
  <2> HIDE DEF Naturals
  <2>. QED  BY <2>1, <2>2, <2>3, <2>4 DEF LogInv, LogTypeOK, queueVars, NoDate
<1>9. CASE CleanerExit
  BY <1>1, <1>9 DEF CleanerExit, LogInv, LogTypeOK, queueVars, fileVars, NoDate
<1>10. CASE CloseBegin \/ CloseTell
  <2>1. due' \in 0 .. sent'
    BY <1>0, <1>10 DEF CloseBegin, CloseTell
  <2>2. closed \in BOOLEAN /\ shutdown \in BOOLEAN /\ cleaner \in BOOLEAN
    BY DEF LogInv, LogTypeOK
  <2>3. {closed', shutdown', cleaner'} \subseteq BOOLEAN
    BY <1>10, <2>2 DEF CloseBegin, CloseTell
  <2>. QED  BY <1>1, <1>10, <2>1, <2>3 DEF CloseBegin, CloseTell, LogInv, LogTypeOK, fileVars, NoDate
<1>11. CASE NewDay
  <2>1. today' \in 0 .. Days
    BY <1>0, <1>11 DEF NewDay
  <2>. QED  BY <1>1, <1>11, <2>1 DEF NewDay, LogInv, LogTypeOK, queueVars, fileVars, NoDate
<1>12. CASE UNCHANGED logVars
  BY <1>1, <1>12 DEF logVars, LogInv, LogTypeOK, queueVars, fileVars, NoDate
<1>. QED  BY <1>2, <1>3, <1>4, <1>5, <1>7, <1>8, <1>9, <1>10, <1>11, <1>12 DEF LogStep

LEMMA LogInitInv == LogInit => LogInv
<1> SUFFICES ASSUME LogInit PROVE LogInv
  OBVIOUS
<1> USE Naturals
<1>1. dir = <<>> \/ dir = Opened(<<>>, 0)
  BY DEF LogInit
<1>2. <<>> \in Dirs(0) /\ Ordered(<<>>)
  <2>1. <<>> \in [{} -> Seq(1 .. 0)] /\ {} \in SUBSET Names
    OBVIOUS
  <2>. QED  BY <2>1 DEF Dirs, Ordered
<1>3. dir \in Dirs(0) /\ Ordered(dir)
  BY <1>1, <1>2, OpenedFile, OpenedOrder
<1>4. DOMAIN dir \subseteq Names /\ dir \in [DOMAIN dir -> Seq(1 .. 0)]
  BY <1>3, DirsDef
<1>5. <<>> \in [1 .. 0 -> 0 .. Days]
  OBVIOUS
<1>6. /\ handle \in Handles /\ currentDate \in 0 .. NoDate /\ faults \in 0 .. MaxFaults
      /\ today \in 0 .. Days
  BY DEF LogInit, Handles, NoDate
<1>7. /\ passing = {} /\ sent = 0 /\ taken = 0 /\ due = 0 /\ clears = 0 /\ size = 0
      /\ dayOf = <<>> /\ writer = "select"
      /\ closed = FALSE /\ shutdown = FALSE /\ cleaner = TRUE
  BY DEF LogInit
<1>8. {closed, shutdown, cleaner} \subseteq BOOLEAN
  BY <1>7
<1>9. sent - taken <= QueueSize /\ dayOf \in [1 .. taken -> 0 .. Days]
  BY <1>5, <1>7
<1>. QED  BY <1>3, <1>4, <1>6, <1>7, <1>8, <1>9 DEF LogInv, LogTypeOK

-----------------------------------------------------------------------------
(* The program.  How far Server.Stop is says what has been closed; nobody  *)
(* leaves it before the writer has gone, and the writer has not gone before *)
(* all that was due has been taken.                                        *)
Stops ==
    /\ stopper = "none" => stop = "idle"
    /\ shutdown <=> stop \in {"wait", "done"}
    /\ writer \in {"drain", "gone"} => shutdown
    /\ writer = "gone" => taken >= due
    /\ stop = "done" => writer = "gone"
    /\ main = "exit" => stop = "done"
    /\ ended = "exit" => main = "exit"

ProgramInv == TypeOK /\ Ordered(dir) /\ Stops

ProcTypes ==
    /\ main \in MainPC /\ watcher \in WatcherPC /\ stop \in StopPC
    /\ signals \in 0 .. MaxSignals
    /\ {pending, httpServer, inShutdown} \subseteq BOOLEAN
    /\ stopper \in {"none", "main", "watcher"}
    /\ ended \in {"no", "exit", "killed"}

LEMMA ProcTypesKept ==
    ASSUME ProcTypes, [Next]_vars
    PROVE  ProcTypes'
<1> USE SignalsAssumption DEF ProcTypes, MainPC, WatcherPC, StopPC
<1>1. CASE MainStep
  BY <1>1 DEF MainStep, StartServers, Listen, ServingEnds, MainStop, Exit
<1>2. CASE WatcherStep
  BY <1>2 DEF WatcherStep, Notify, Receive, WatcherStop
<1>3. CASE StopStep
  BY <1>3 DEF StopStep, StopHTTP, StopParts, StopLogger, SameProcess
<1>4. CASE UNCHANGED procVars
  BY <1>4 DEF procVars
<1>5. CASE Signal
  <2>1. signals' \in 0 .. MaxSignals
    BY <1>5 DEF Signal
  <2>2. {pending', httpServer', inShutdown'} \subseteq BOOLEAN
    BY <1>5 DEF Signal
  <2>. QED  BY <1>5, <2>1, <2>2 DEF Signal
<1>. QED  BY <1>1, <1>2, <1>3, <1>4, <1>5 DEF Next, LoggerStep, vars

LEMMA StopsKept ==
    ASSUME LogTypeOK, ProcTypes, Stops, [Next]_vars
    PROVE  Stops'
<1>0. taken \in Nat /\ sent \in Nat /\ due \in Nat /\ due <= sent
  <2>1. sent \in 0 .. MaxEntries /\ due \in 0 .. sent /\ taken \in 0 .. sent
    BY DEF LogTypeOK
  <2>. QED  BY <2>1, Naturals
<1>1. CASE MainStep
  <2>1. UNCHANGED <<shutdown, writer, taken, due>>
    BY <1>1 DEF MainStep, StartServers, Listen, ServingEnds, MainStop, Exit, logVars, queueVars
  <2>2. CASE StartServers \/ Listen \/ ServingEnds
    BY <2>1, <2>2 DEF StartServers, Listen, ServingEnds, Stops
  <2>3. CASE MainStop
    BY <2>1, <2>3 DEF MainStop, Stops
  <2>4. CASE Exit
    BY <2>1, <2>4 DEF Exit, Stops
  <2>. QED  BY <1>1, <2>2, <2>3, <2>4 DEF MainStep
<1>2. CASE WatcherStep
  <2>1. UNCHANGED <<shutdown, writer, taken, due, main, ended>>
    BY <1>2 DEF WatcherStep, Notify, Receive, WatcherStop, logVars, queueVars
  <2>2. \/ UNCHANGED <<stop, stopper>>
        \/ stopper = "none" /\ stop' = "http" /\ stopper' = "watcher"
    BY <1>2 DEF WatcherStep, Notify, Receive, WatcherStop
  <2>. QED  BY <2>1, <2>2 DEF Stops
<1>3. CASE StopHTTP \/ StopParts
  BY <1>3 DEF StopHTTP, StopParts, SameProcess, logVars, queueVars, Stops
<1>4. CASE StopLogger
  <2>1. CASE stop = "close" /\ CloseBegin /\ stop' = "tell" /\ SameProcess
    BY <2>1 DEF CloseBegin, SameProcess, Stops
  <2>2. CASE stop = "tell" /\ CloseTell /\ stop' = "wait" /\ SameProcess
    BY <2>2 DEF CloseTell, SameProcess, Stops
  <2>3. CASE stop = "wait" /\ Closed /\ stop' = "done" /\ UNCHANGED logVars /\ SameProcess
    BY <2>3 DEF Closed, SameProcess, logVars, queueVars, Stops
  <2>. QED  BY <1>4, <2>1, <2>2, <2>3 DEF StopLogger
<1>5. CASE Work /\ UNCHANGED procVars
  <2> USE <1>5 DEF procVars, Stops
  <2>1. ASSUME NEW g \in Loggers, Enqueue(g)
        PROVE  Stops'
    BY <2>1 DEF Enqueue
  <2>2. CASE WriterTake
    BY <1>0, <2>2 DEF WriterTake, ProcessEntry, queueVars
  <2>3. CASE WriterDrain
    BY <2>3 DEF WriterDrain, queueVars
  <2>4. CASE WriterGone
    BY <1>0, <2>4 DEF WriterGone, queueVars
  <2>5. CASE CleanerRun \/ CleanerExit
    BY <2>5 DEF CleanerRun, CleanerExit, queueVars
  <2>. QED  BY <2>1, <2>2, <2>3, <2>4, <2>5 DEF Work
<1>6. CASE Surroundings /\ UNCHANGED procVars
  <2>1. UNCHANGED <<shutdown, writer, taken, due>>
    BY <1>6 DEF Surroundings, Log, NewDay, LogsClear, queueVars
  <2>. QED  BY <1>6, <2>1 DEF procVars, Stops
<1>7. CASE Signal
  BY <1>7 DEF Signal, logVars, queueVars, Stops
<1>8. CASE UNCHANGED vars
  BY <1>8 DEF vars, logVars, queueVars, procVars, Stops
<1>. QED  BY <1>1, <1>2, <1>3, <1>4, <1>5, <1>6, <1>7, <1>8 DEF Next, StopStep, LoggerStep

LEMMA ProgramSafe == Spec => []ProgramInv
<1>1. Init => ProgramInv
  <2> SUFFICES ASSUME Init PROVE ProgramInv
    OBVIOUS
  <2>1. LogInv
    BY LogInitInv DEF Init
  <2>2. ProcTypes
    <3>1. pending = FALSE /\ httpServer = FALSE /\ inShutdown = FALSE /\ signals = 0
      BY DEF Init
    <3>2. {pending, httpServer, inShutdown} \subseteq BOOLEAN
      BY <3>1
    <3>3. signals \in 0 .. MaxSignals
      BY <3>1, SignalsAssumption
    <3>. QED  BY <3>2, <3>3 DEF Init, ProcTypes, MainPC, WatcherPC, StopPC
  <2>3. Stops
    BY DEF Init, LogInit, Stops
  <2>. QED  BY <2>1, <2>2, <2>3 DEF ProgramInv, LogInv, TypeOK, ProcTypes
<1>2. ProgramInv /\ [Next]_vars => ProgramInv'
  <2> SUFFICES ASSUME ProgramInv, [Next]_vars PROVE ProgramInv'
    OBVIOUS
  <2>1. LogInv /\ ProcTypes /\ Stops
    BY DEF ProgramInv, TypeOK, LogInv, ProcTypes
  <2>2. LogInv'
    BY <2>1, NextLogs, LogStepInv
  <2>3. ProcTypes' /\ Stops'
    BY <2>1, ProcTypesKept, StopsKept DEF LogInv
  <2>. QED  BY <2>2, <2>3 DEF ProgramInv, LogInv, TypeOK, ProcTypes
<1>. QED  BY <1>1, <1>2, PTL DEF Spec

(* The log, its files and the program keep their types, whatever fails.    *)
THEOREM TypeCorrect == Spec => []TypeOK
<1>1. ProgramInv => TypeOK
  BY DEF ProgramInv
<1>. QED  BY <1>1, ProgramSafe, PTL

(* The process ends by itself only when the writer has written, or failed   *)
(* to write, all that had been logged when Close began (main.go:99 and 111, *)
(* server.go:324-356, logger.go:232-247).                                  *)
THEOREM NothingUnwritten == Spec => []WrittenBeforeExit
<1>1. ProgramInv => WrittenBeforeExit
  BY DEF ProgramInv, Stops, WrittenBeforeExit
<1>. QED  BY <1>1, ProgramSafe, PTL

(* Whichever renames fail, rotation keeps the slices of a day in the order  *)
(* in which they were written (logger.go:296-323).                         *)
THEOREM RotationInOrder == Spec => []SlicesInOrder
<1>1. ProgramInv => SlicesInOrder
  <2> SUFFICES ASSUME ProgramInv, NEW d \in 0 .. Days, NEW s \in Slots, NEW t \in Slots,
                      NEW i \in DOMAIN Slot(d, s), NEW j \in DOMAIN Slot(d, t),
                      s > t \/ (s = t /\ i < j)
               PROVE  Slot(d, s)[i] < Slot(d, t)[j]
    BY DEF SlicesInOrder
  <2>1. DOMAIN <<>> = {}
    OBVIOUS
  <2>2. <<d, s>> \in DOMAIN dir /\ <<d, t>> \in DOMAIN dir
    BY <2>1 DEF Slot
  <2>. QED  BY <2>2 DEF Slot, ProgramInv, Ordered
<1>. QED  BY <1>1, ProgramSafe, PTL

-----------------------------------------------------------------------------
(* What rotation keeps while nothing fails.  The slots of the day that have *)
(* a file are the first ones, the rotated ones are full, and an entry of    *)
(* the day is in one of them, or as many newer full slices as are kept have *)
(* pushed it out.                                                          *)
Here(f, d, e) == \E s \in Slots : <<d, s>> \in DOMAIN f /\ \E i \in DOMAIN f[<<d, s>>] : f[<<d, s>>][i] = e
Out(f, d, e)  == \A s \in 1 .. Slices :
                    /\ <<d, s>> \in DOMAIN f /\ Len(f[<<d, s>>]) > MaxLogFileSize
                    /\ \A i \in DOMAIN f[<<d, s>>] : f[<<d, s>>][i] > e
Held(f, d, k, day) ==
    /\ \A s \in 1 .. Slices : <<d, s>> \in DOMAIN f => Len(f[<<d, s>>]) > MaxLogFileSize
    /\ \A s, t \in Slots : <<d, s>> \in DOMAIN f /\ t < s => <<d, t>> \in DOMAIN f
    /\ \A e \in 1 .. k : day[e] = d => Here(f, d, e) \/ Out(f, d, e)

LEMMA HeldAppended ==
    ASSUME NEW k \in Nat, NEW f \in Dirs(k), NEW d \in 0 .. Days, NEW day, NEW day2,
           Held(f, d, k, day), Current(d) \in DOMAIN f,
           \A e \in 1 .. k : day2[e] = day[e]
    PROVE  /\ Held(Appended(f, Current(d), k + 1), d, k + 1, day2)
           /\ DOMAIN Appended(f, Current(d), k + 1) = DOMAIN f
           /\ Len(Appended(f, Current(d), k + 1)[Current(d)]) = Len(f[Current(d)]) + 1
<1> DEFINE cur == Current(d)
           g   == Appended(f, cur, k + 1)
<1> USE Naturals
<1>1. f \in [DOMAIN f -> Seq(1 .. k)]
  BY DirsDef
<1>2. cur = <<d, 0>> /\ 0 \in Slots /\ Slots = 0 .. Slices
  BY DEF Current, Slots
<1>3. f[cur] \in Seq(1 .. k)
  BY <1>1
<1>4. DOMAIN g = DOMAIN f /\ g[cur] = Append(f[cur], k + 1) /\ \A n \in DOMAIN f : n # cur => g[n] = f[n]
  BY <1>1 DEF Appended
<1>5. /\ Len(g[cur]) = Len(f[cur]) + 1 /\ Len(f[cur]) + 1 \in DOMAIN g[cur]
      /\ g[cur][Len(f[cur]) + 1] = k + 1
      /\ \A i \in DOMAIN f[cur] : i \in DOMAIN g[cur] /\ g[cur][i] = f[cur][i]
  <2> HIDE DEF cur, g
  <2>. QED  BY <1>3, <1>4
<1> HIDE DEF cur, g
<1>6. \A s \in 1 .. Slices : <<d, s>> \in DOMAIN f => g[<<d, s>>] = f[<<d, s>>]
  BY <1>2, <1>4
<1>7. ASSUME NEW e \in 1 .. (k + 1), day2[e] = d
      PROVE  Here(g, d, e) \/ Out(g, d, e)
  <2>1. CASE e = k + 1
    <3>1. <<d, 0>> \in DOMAIN g /\ \E i \in DOMAIN g[<<d, 0>>] : g[<<d, 0>>][i] = e
      BY <1>2, <1>4, <1>5, <2>1 DEF cur
    <3>. QED  BY <1>2, <3>1 DEF Here
  <2>2. CASE e # k + 1
    <3>1. e \in 1 .. k /\ day[e] = d
      BY <1>7, <2>2
    <3>2. CASE Here(f, d, e)
      <4>1. PICK s \in Slots : <<d, s>> \in DOMAIN f /\ \E i \in DOMAIN f[<<d, s>>] : f[<<d, s>>][i] = e
        BY <3>2 DEF Here
      <4>2. \E i \in DOMAIN g[<<d, s>>] : g[<<d, s>>][i] = e
        BY <1>4, <1>5, <4>1
      <4>. QED  BY <1>4, <4>1, <4>2 DEF Here
    <3>3. CASE Out(f, d, e)
      BY <1>4, <1>6, <3>3 DEF Out
    <3>. QED  BY <3>1, <3>2, <3>3 DEF Held
  <2>. QED  BY <2>1, <2>2
<1>8. Held(g, d, k + 1, day2)
  <2>1. \A s \in 1 .. Slices : <<d, s>> \in DOMAIN g => Len(g[<<d, s>>]) > MaxLogFileSize
    BY <1>4, <1>6 DEF Held
  <2>2. \A s, t \in Slots : <<d, s>> \in DOMAIN g /\ t < s => <<d, t>> \in DOMAIN g
    BY <1>4 DEF Held
  <2>. QED  BY <1>7, <2>1, <2>2 DEF Held
<1>. QED  BY <1>4, <1>5, <1>8 DEF cur, g

(* A full file is rotated and the day's file opened anew: each slot has the *)
(* file of the one before, and only what the last slot held is gone.       *)
LEMMA HeldRotated ==
    ASSUME NEW k \in Nat, NEW f \in Dirs(k), NEW d \in 0 .. Days, NEW day, NEW failing,
           Ordered(f), Held(f, d, k, day), Current(d) \in DOMAIN f,
           Len(f[Current(d)]) > MaxLogFileSize, \A y : y \notin failing
    PROVE  Held(Opened(Rotated(f, d, failing), d), d, k, day)
<1> DEFINE r == Rotated(f, d, failing)
           o == Opened(r, d)
<1> USE Naturals
<1>1. Slots = 0 .. Slices /\ Current(d) = <<d, 0>> /\ d \in 0 .. NoDate
  BY DEF Slots, Current, NoDate
<1>2. f \in [DOMAIN f -> Seq(1 .. k)] /\ DOMAIN f \subseteq Names
  BY DirsDef
<1>3. r \in Dirs(k)
  BY <1>1, RotatedFiles
<1>a. ASSUME NEW x \in Slots, <<d, x>> \in DOMAIN r
      PROVE  \/ <<d, x - 1>> \in DOMAIN f /\ r[<<d, x>>] = f[<<d, x - 1>>]
             \/ <<d, x>> \in DOMAIN f /\ x = Slices /\ r[<<d, x>>] = f[<<d, x>>]
  <2>1. <<"move", x>> \notin failing /\ <<"move", x - 1>> \notin failing
    OBVIOUS
  <2>. QED  BY <1>1, <1>a, <2>1, RotatedFiles
<1>b. ASSUME NEW x \in Slots, x < Slices, <<d, x>> \in DOMAIN f
      PROVE  <<d, x + 1>> \in DOMAIN r /\ r[<<d, x + 1>>] = f[<<d, x>>]
  <2>1. <<"move", x>> \notin failing /\ <<"move", x - 1>> \notin failing
    OBVIOUS
  <2>. QED  BY <1>1, <1>b, <2>1, RotatedFiles
<1>4. ASSUME NEW s \in 1 .. Slices, <<d, s>> \in DOMAIN o
      PROVE  <<d, s - 1>> \in DOMAIN f /\ o[<<d, s>>] = f[<<d, s - 1>>]
  <2>1. <<d, s>> \in Names /\ <<d, s>> # Current(d) /\ s \in Slots /\ s > 0
    BY <1>1 DEF Names
  <2>2. <<d, s>> \in DOMAIN r /\ o[<<d, s>>] = r[<<d, s>>]
    <3> HIDE DEF r
    <3>. QED  BY <1>3, <1>4, <2>1, OpenedFile
  <2>3. \/ <<d, s - 1>> \in DOMAIN f /\ r[<<d, s>>] = f[<<d, s - 1>>]
        \/ <<d, s>> \in DOMAIN f /\ s = Slices /\ r[<<d, s>>] = f[<<d, s>>]
    BY <1>a, <2>1, <2>2
  <2>4. ASSUME <<d, s - 1>> \in DOMAIN f
        PROVE  r[<<d, s>>] = f[<<d, s - 1>>]
    <3>1. s - 1 \in Slots /\ s - 1 < Slices /\ (s - 1) + 1 = s
      BY <1>1
    <3>2. r[<<d, (s - 1) + 1>>] = f[<<d, s - 1>>]
      BY <1>b, <2>4, <3>1
    <3>. QED  BY <3>1, <3>2
  <2>5. <<d, s>> \in DOMAIN f => <<d, s - 1>> \in DOMAIN f
    <3>1. s - 1 \in Slots /\ s - 1 < s
      BY <1>1
    <3>. QED  BY <2>1, <3>1 DEF Held
  <2>. QED  BY <2>2, <2>3, <2>4, <2>5
<1>5. ASSUME NEW s \in 1 .. Slices, <<d, s - 1>> \in DOMAIN f
      PROVE  <<d, s>> \in DOMAIN o
  <2>1. s - 1 \in Slots /\ s - 1 < Slices /\ (s - 1) + 1 = s
    BY <1>1
  <2>a. <<d, (s - 1) + 1>> \in DOMAIN r
    BY <1>b, <1>5, <2>1
  <2>2. <<d, s>> \in DOMAIN r
    BY <2>1, <2>a
  <2> HIDE DEF r
  <2>. QED  BY <1>3, <2>2, OpenedFile
<1>6. <<d, 0>> \in DOMAIN o
  <2> HIDE DEF r
  <2>1. Current(d) \in DOMAIN o
    BY OpenedCurrent
  <2>. QED  BY <1>1, <2>1
<1> HIDE DEF r, o
<1>7. ASSUME NEW s \in 0 .. Slices, <<d, s>> \in DOMAIN f
      PROVE  Len(f[<<d, s>>]) > MaxLogFileSize
  BY <1>1, <1>7 DEF Held
<1>8. \A s \in 1 .. Slices : <<d, s>> \in DOMAIN o => Len(o[<<d, s>>]) > MaxLogFileSize
  <2> SUFFICES ASSUME NEW s \in 1 .. Slices, <<d, s>> \in DOMAIN o
               PROVE  Len(o[<<d, s>>]) > MaxLogFileSize
    OBVIOUS
  <2>1. s - 1 \in 0 .. Slices
    OBVIOUS
  <2>. QED  BY <1>4, <1>7, <2>1
<1>9. ASSUME NEW s \in Slots, NEW t \in Slots, <<d, s>> \in DOMAIN o, t < s
      PROVE  <<d, t>> \in DOMAIN o
  <2>1. CASE t = 0
    BY <1>6, <2>1
  <2>2. CASE t # 0
    <3>1. s \in 1 .. Slices /\ t \in 1 .. Slices /\ s - 1 \in Slots /\ t - 1 \in Slots /\ t - 1 < s - 1
      BY <1>1, <1>9, <2>2
    <3>2. <<d, s - 1>> \in DOMAIN f
      BY <1>4, <1>9, <3>1
    <3>3. <<d, t - 1>> \in DOMAIN f
      BY <3>1, <3>2 DEF Held
    <3>. QED  BY <1>5, <3>1, <3>3
  <2>. QED  BY <2>1, <2>2
<1>10. ASSUME NEW e \in 1 .. k, day[e] = d
       PROVE  Here(o, d, e) \/ Out(o, d, e)
  <2>1. CASE \E s \in Slots : /\ s < Slices /\ <<d, s>> \in DOMAIN f
                              /\ \E i \in DOMAIN f[<<d, s>>] : f[<<d, s>>][i] = e
    <3>1. PICK s \in Slots : /\ s < Slices /\ <<d, s>> \in DOMAIN f
                             /\ \E i \in DOMAIN f[<<d, s>>] : f[<<d, s>>][i] = e
      BY <2>1
    <3>2. s + 1 \in 1 .. Slices /\ s + 1 \in Slots /\ (s + 1) - 1 = s
      BY <1>1, <3>1
    <3>3. <<d, s + 1>> \in DOMAIN o /\ o[<<d, s + 1>>] = f[<<d, s>>]
      BY <1>4, <1>5, <3>1, <3>2
    <3>. QED  BY <3>1, <3>2, <3>3 DEF Here
  <2>2. CASE /\ <<d, Slices>> \in DOMAIN f
             /\ \E i \in DOMAIN f[<<d, Slices>>] : f[<<d, Slices>>][i] = e
    <3>1. \A s \in 1 .. Slices : <<d, s - 1>> \in DOMAIN f
      <4>1. \A s \in 1 .. Slices : s - 1 \in Slots /\ s - 1 < Slices /\ Slices \in Slots
        BY <1>1
      <4>. QED  BY <2>2, <4>1 DEF Held
    <3>2. ASSUME NEW s \in 1 .. Slices
          PROVE  /\ <<d, s>> \in DOMAIN o /\ Len(o[<<d, s>>]) > MaxLogFileSize
                 /\ \A i \in DOMAIN o[<<d, s>>] : o[<<d, s>>][i] > e
      <4>1. <<d, s>> \in DOMAIN o /\ o[<<d, s>>] = f[<<d, s - 1>>]
        BY <1>4, <1>5, <3>1
      <4>2. s - 1 \in Slots /\ Slices \in Slots /\ Slices > s - 1
        BY <1>1
      <4>3. \A i \in DOMAIN f[<<d, s - 1>>] : e < f[<<d, s - 1>>][i]
        BY <2>2, <3>1, <4>2 DEF Ordered
      <4>4. \A i \in DOMAIN f[<<d, s - 1>>] : f[<<d, s - 1>>][i] \in 1 .. k
        <5> DEFINE q == f[<<d, s - 1>>]
        <5>1. q \in Seq(1 .. k)
          BY <1>2, <3>1
        <5> HIDE DEF q
        <5>2. \A i \in DOMAIN q : q[i] \in 1 .. k
          BY <5>1
        <5>. QED  BY <5>2 DEF q
      <4>. QED  BY <1>8, <4>1, <4>3, <4>4
    <3>. QED  BY <3>2 DEF Out
  <2>3. CASE Out(f, d, e)
    <3> SUFFICES ASSUME NEW s \in 1 .. Slices
                 PROVE  /\ <<d, s>> \in DOMAIN o /\ Len(o[<<d, s>>]) > MaxLogFileSize
                        /\ \A i \in DOMAIN o[<<d, s>>] : o[<<d, s>>][i] > e
      BY DEF Out
    <3>1. CASE s > 1
      <4>1. s - 1 \in 1 .. Slices
        BY <3>1
      <4>2. <<d, s - 1>> \in DOMAIN f /\ \A i \in DOMAIN f[<<d, s - 1>>] : f[<<d, s - 1>>][i] > e
        BY <2>3, <4>1 DEF Out
      <4>. QED  BY <1>4, <1>5, <1>8, <4>2
    <3>2. CASE s = 1
      <4>1. <<d, 1>> \in DOMAIN f /\ Len(f[<<d, 1>>]) > MaxLogFileSize /\ 1 \in Slots /\ 0 \in Slots
        BY <1>1, <2>3 DEF Out
      <4>2. f[<<d, 1>>] \in Seq(1 .. k) /\ f[<<d, 0>>] \in Seq(1 .. k)
        BY <1>1, <1>2, <4>1
      <4>3. 1 \in DOMAIN f[<<d, 1>>]
        BY <4>1, <4>2
      <4>4. f[<<d, 1>>][1] > e
        BY <2>3, <4>3 DEF Out
      <4>5. \A i \in DOMAIN f[<<d, 0>>] : f[<<d, 1>>][1] < f[<<d, 0>>][i]
        BY <1>1, <4>1, <4>3 DEF Ordered
      <4>6. \A i \in DOMAIN f[<<d, 0>>] : f[<<d, 0>>][i] > e
        <5>1. f[<<d, 1>>][1] \in 1 .. k /\ \A i \in DOMAIN f[<<d, 0>>] : f[<<d, 0>>][i] \in 1 .. k
          BY <4>2, <4>3
        <5>. QED  BY <4>4, <4>5, <5>1
      <4>7. <<d, 1>> \in DOMAIN o /\ o[<<d, 1>>] = f[<<d, 0>>]
        BY <1>1, <1>4, <1>5
      <4>. QED  BY <1>8, <3>2, <4>6, <4>7
    <3>. QED  BY <3>1, <3>2
  <2>4. Here(f, d, e) \/ Out(f, d, e)
    BY <1>10 DEF Held
  <2>5. CASE Here(f, d, e)
    <3>1. PICK s \in Slots : <<d, s>> \in DOMAIN f /\ \E i \in DOMAIN f[<<d, s>>] : f[<<d, s>>][i] = e
      BY <2>5 DEF Here
    <3>2. s < Slices \/ s = Slices
      BY <1>1
    <3>. QED  BY <2>1, <2>2, <3>1, <3>2
  <2>. QED  BY <2>3, <2>4, <2>5
<1>. QED  BY <1>8, <1>9, <1>10 DEF Held, o, r

(* The writer's view while nothing has failed: it is of today, or nothing  *)
(* has been written since an earlier day.                                  *)
OfToday(w, k, day) ==
    /\ w.handle = "open" /\ w.date = today
    /\ \A n \in DOMAIN w.dir : n[1] <= today
    /\ \A e \in 1 .. k : day[e] <= today
    /\ Held(w.dir, today, k, day)
    /\ Current(today) \in DOMAIN w.dir /\ w.size = Len(w.dir[Current(today)])
OfEarlier(w, k, day) ==
    /\ w.handle = "open" /\ w.date \in 0 .. Days /\ w.date < today
    /\ \A n \in DOMAIN w.dir : n[1] <= w.date
    /\ \A e \in 1 .. k : day[e] <= w.date

LEMMA EnsuredToday ==
    ASSUME NEW k \in Nat, NEW w, Sound(w, k), today \in 0 .. Days, NEW failing, NEW day,
           \A e \in 1 .. k : day[e] \in Nat,
           OfToday(w, k, day) \/ OfEarlier(w, k, day), \A y : y \notin failing
    PROVE  OfToday(Ensure(w, failing), k, day)
<1>1. CASE OfToday(w, k, day)
  BY <1>1 DEF Ensure, OfToday
<1>2. CASE OfEarlier(w, k, day)
  <2> DEFINE v == Close(w)
             o == Opened(w.dir, today)
  <2>1. v.dir = w.dir
    BY ClosedView
  <2>2. w.dir \in Dirs(k)
    BY DEF Sound, Views
  <2>3. Ensure(w, failing) = [date |-> today, handle |-> "open", dir |-> o,
                              size |-> Len(o[Current(today)])]
    <3>1. w.date # today
      BY <1>2 DEF OfEarlier
    <3> HIDE DEF v
    <3>. QED  BY <2>1, <3>1 DEF Ensure, Open, v
  <2>4. /\ Current(today) \in DOMAIN o
        /\ \A n \in DOMAIN o : n \in DOMAIN w.dir \/ n = Current(today)
    BY <2>2, OpenedFile
  <2> HIDE DEF o
  <2>5. today \in Nat /\ w.date \in Nat /\ w.date < today
    BY <1>2 DEF OfEarlier
  <2>6. w.dir \in [DOMAIN w.dir -> Seq(1 .. k)] /\ DOMAIN w.dir \subseteq Names
    BY <2>2, DirsDef
  <2>7. \A n \in DOMAIN o : n[1] <= today
    <3>1. \A n \in DOMAIN w.dir : n[1] \in Nat /\ n[1] <= w.date
      BY <1>2, <2>6, Pairs DEF OfEarlier
    <3>2. Current(today)[1] = today
      BY DEF Current
    <3>. QED  BY <2>4, <2>5, <3>1, <3>2
  <2>8. \A s \in 1 .. Slices : <<today, s>> \notin DOMAIN o
    <3> SUFFICES ASSUME NEW s \in 1 .. Slices, <<today, s>> \in DOMAIN o PROVE FALSE
      OBVIOUS
    <3>1. <<today, s>> # Current(today)
      BY DEF Current
    <3>2. <<today, s>> \in DOMAIN w.dir /\ <<today, s>>[1] = today
      BY <2>4, <3>1
    <3>3. today <= w.date
      BY <1>2, <3>2 DEF OfEarlier
    <3>. QED  BY <2>5, <3>3
  <2>9. \A e \in 1 .. k : day[e] # today
    BY <1>2, <2>5 DEF OfEarlier
  <2>10. Held(o, today, k, day)
    <3>1. \A s, t \in Slots : <<today, s>> \in DOMAIN o /\ t < s => <<today, t>> \in DOMAIN o
      BY <2>8, Naturals DEF Slots
    <3>. QED  BY <2>8, <2>9, <3>1 DEF Held
  <2>11. \A e \in 1 .. k : day[e] <= today
    BY <1>2, <2>5 DEF OfEarlier
  <2>. QED  BY <2>3, <2>4, <2>7, <2>10, <2>11 DEF OfToday
<1>. QED  BY <1>1, <1>2

LEMMA AppendedToday ==
    ASSUME NEW k \in Nat, NEW w, Sound(w, k), today \in 0 .. Days, NEW failing, NEW day, NEW day2,
           day2[k + 1] = today, \A e \in 1 .. k : day2[e] = day[e],
           OfToday(w, k, day), \A y : y \notin failing
    PROVE  OfToday(Append1(w, k + 1, failing), k + 1, day2)
<1> DEFINE g == Appended(w.dir, Current(today), k + 1)
           u == [w EXCEPT !.dir = g]
           v == [u EXCEPT !.size = @ + 1]
<1>1. w.handle = "open" /\ w.date = today /\ w.dir \in Dirs(k) /\ w.size \in Nat
  BY DEF OfToday, Sound, Views
<1>2. Append1(w, k + 1, failing) = v
  BY <1>1 DEF Append1
<1>3. /\ Held(g, today, k + 1, day2) /\ DOMAIN g = DOMAIN w.dir
      /\ Len(g[Current(today)]) = Len(w.dir[Current(today)]) + 1
  <2>1. Held(w.dir, today, k, day) /\ Current(today) \in DOMAIN w.dir
    BY DEF OfToday
  <2>. QED  BY <1>1, <2>1, HeldAppended
<1> HIDE DEF g
<1>4. u.handle = w.handle /\ u.date = w.date /\ u.dir = g /\ u.size = w.size
      /\ DOMAIN u = {"date", "handle", "dir", "size"}
  BY DEF Sound, Views
<1> HIDE DEF u
<1>5. v.handle = "open" /\ v.date = today /\ v.dir = g /\ v.size = w.size + 1
  BY <1>1, <1>4
<1>6. \A n \in DOMAIN g : n[1] <= today
  BY <1>3 DEF OfToday
<1>7. \A e \in 1 .. (k + 1) : day2[e] <= today
  BY DEF OfToday
<1>8. v.size = Len(g[Current(today)]) /\ Current(today) \in DOMAIN g
  BY <1>3, <1>5 DEF OfToday
<1>. QED  BY <1>2, <1>3, <1>5, <1>6, <1>7, <1>8 DEF OfToday

LEMMA RotatedToday ==
    ASSUME NEW k \in Nat, NEW w, Sound(w, k), today \in 0 .. Days, NEW failing, NEW day,
           OfToday(w, k, day), \A y : y \notin failing
    PROVE  OfToday(Rotate(w, failing), k, day)
<1>1. CASE w.size <= MaxLogFileSize
  BY <1>1 DEF Rotate
<1>2. CASE ~(w.size <= MaxLogFileSize)
  <2> DEFINE r == Rotated(w.dir, today, failing)
             o == Opened(r, today)
             v == [Close(w) EXCEPT !.dir = Rotated(@, w.date, failing)]
  <2>1. w.date = today /\ w.dir \in Dirs(k) /\ Ordered(w.dir) /\ w.size \in Nat
    BY DEF OfToday, Sound, Views
  <2>2. Len(w.dir[Current(today)]) > MaxLogFileSize
    BY <1>2, <2>1, Naturals DEF OfToday
  <2>3. Held(o, today, k, day)
    BY <2>1, <2>2, HeldRotated DEF OfToday
  <2>4. r \in Dirs(k)
    <3>1. today \in 0 .. NoDate
      BY Naturals DEF NoDate
    <3>. QED  BY <2>1, <3>1, RotatedFiles
  <2>5. v.dir = r
    BY <2>1, ClosedView DEF Sound, Views
  <2>6. Rotate(w, failing) = [date |-> today, handle |-> "open", dir |-> o,
                              size |-> Len(o[Current(today)])]
    <3>1. Rotate(w, failing) = Open(v, <<"open", 0>> \notin failing)
      BY <1>2 DEF Rotate
    <3> HIDE DEF v
    <3>. QED  BY <2>5, <3>1 DEF Open
  <2>7. Current(today) \in DOMAIN o /\ \A n \in DOMAIN o : n \in DOMAIN r \/ n = Current(today)
    <3> HIDE DEF r
    <3>. QED  BY <2>4, OpenedFile
  <2>8. \A n \in DOMAIN o : n[1] <= today
    <3> SUFFICES ASSUME NEW n \in DOMAIN o PROVE n[1] <= today
      OBVIOUS
    <3>1. CASE n[1] = today
      BY <3>1
    <3>2. CASE n[1] # today
      <4>1. n \in DOMAIN r /\ n \in Names
        <5>1. n # Current(today)
          BY <3>2 DEF Current
        <5> HIDE DEF o, r
        <5>. QED  BY <2>4, <2>7, <5>1, DirsDef
      <4>2. n \in DOMAIN w.dir
        <5>1. today \in 0 .. NoDate
          BY Naturals DEF NoDate
        <5>. QED  BY <2>1, <3>2, <4>1, <5>1, RotatedFiles
      <4>. QED  BY <4>2 DEF OfToday
    <3>. QED  BY <3>1, <3>2
  <2>9. \A e \in 1 .. k : day[e] <= today
    BY DEF OfToday
  <2> HIDE DEF o
  <2>. QED  BY <2>3, <2>6, <2>7, <2>8, <2>9 DEF OfToday
<1>. QED  BY <1>1, <1>2

LEMMA WrittenToday ==
    ASSUME NEW k \in Nat, NEW w, Sound(w, k), today \in 0 .. Days, NEW failing, NEW day, NEW day2,
           day2[k + 1] = today, \A e \in 1 .. k : day[e] \in Nat /\ day2[e] = day[e],
           OfToday(w, k, day) \/ OfEarlier(w, k, day), \A y : y \notin failing
    PROVE  OfToday(WriteToFile(w, k + 1, failing), k + 1, day2)
<1> DEFINE v == Ensure(w, failing)
           u == Append1(v, k + 1, failing)
<1>1. Sound(v, k) /\ OfToday(v, k, day)
  BY EnsureView, EnsuredToday
<1> HIDE DEF v
<1>2. Sound(u, k + 1) /\ OfToday(u, k + 1, day2)
  BY <1>1, AppendView, AppendedToday
<1> HIDE DEF u
<1>3. OfToday(Rotate(u, failing), k + 1, day2)
  BY <1>2, RotatedToday
<1>. QED  BY <1>1, <1>3 DEF WriteToFile, OfToday, u, v

View  == [date |-> currentDate, handle |-> "open", dir |-> dir, size |-> size]
Quiet == faults = 0 /\ clears = 0 =>
            /\ writer # "gone" => handle = "open"
            /\ OfToday(View, taken, dayOf) \/ OfEarlier(View, taken, dayOf)

LEMMA QuietTaken ==
    ASSUME LogInv, Quiet, WriterTake
    PROVE  Quiet'
<1> SUFFICES ASSUME faults' = 0, clears' = 0
             PROVE  handle' = "open" /\ OfToday(View, taken, dayOf)'
  BY DEF Quiet
<1> DEFINE w == [date |-> currentDate, handle |-> handle, dir |-> dir, size |-> size]
<1>1. /\ taken \in Nat /\ today \in 0 .. Days /\ currentDate \in 0 .. NoDate
      /\ faults \in Nat /\ dayOf \in [1 .. taken -> 0 .. Days]
  BY DEF LogInv, LogTypeOK
<1>2. Sound(w, taken)
  <2>1. dir \in Dirs(taken)
    BY DirsDef DEF LogInv, LogTypeOK
  <2>2. w \in Views(taken)
    BY <1>1, <2>1 DEF LogInv, LogTypeOK, Views
  <2>. QED  BY <2>2 DEF Sound, LogInv
<1>3. PICK failing : /\ currentDate' = WriteToFile(w, taken + 1, failing).date
                     /\ handle' = WriteToFile(w, taken + 1, failing).handle
                     /\ size' = WriteToFile(w, taken + 1, failing).size
                     /\ dir' = WriteToFile(w, taken + 1, failing).dir
                     /\ faults' = IF failing = {} THEN faults ELSE faults + 1
                     /\ failing \in IF faults + clears < MaxFaults THEN SUBSET Operations ELSE {{}}
  BY DEF WriterTake, ProcessEntry
<1>4. faults = 0 /\ clears = 0 /\ \A y : y \notin failing
  <2>1. failing = {} /\ faults' = faults
    <3>1. faults' = 0 /\ faults + 1 # 0
      BY <1>1
    <3>. QED  BY <1>3, <3>1
  <2>. QED  BY <2>1 DEF WriterTake
<1>5. handle = "open" /\ (OfToday(w, taken, dayOf) \/ OfEarlier(w, taken, dayOf))
  BY <1>4 DEF Quiet, View, WriterTake
<1>6. /\ taken' = taken + 1 /\ dayOf' = Append(dayOf, today) /\ today' = today
  BY DEF WriterTake, ProcessEntry
<1>7. dayOf'[taken + 1] = today /\ \A e \in 1 .. taken : dayOf[e] \in Nat /\ dayOf'[e] = dayOf[e]
  <2>1. dayOf \in Seq(0 .. Days) /\ Len(dayOf) = taken
    BY <1>1, FunctionSeq
  <2>. QED  BY <1>1, <1>6, <2>1
<1> DEFINE v == WriteToFile(w, taken + 1, failing)
<1> HIDE DEF w
<1>8. OfToday(v, taken + 1, dayOf')
  BY <1>1, <1>2, <1>4, <1>5, <1>7, WrittenToday
<1> HIDE DEF v
<1>9. currentDate' = v.date /\ handle' = v.handle /\ size' = v.size /\ dir' = v.dir
  BY <1>3 DEF v
<1>10. /\ handle' = "open" /\ currentDate' = today'
       /\ \A n \in DOMAIN dir' : n[1] <= today'
       /\ \A e \in 1 .. taken' : dayOf'[e] <= today'
       /\ Held(dir', today', taken', dayOf')
       /\ Current(today') \in DOMAIN dir' /\ size' = Len(dir'[Current(today')])
  BY <1>6, <1>8, <1>9 DEF OfToday
<1>. QED  BY <1>10 DEF OfToday, View

(* Removing the files of earlier days takes nothing of today's.            *)
LEMMA QuietCleaned ==
    ASSUME LogInv, Quiet, CleanerRun
    PROVE  Quiet'
<1> SUFFICES ASSUME faults = 0, clears = 0
             PROVE  /\ writer # "gone" => handle = "open"
                    /\ OfToday(View, taken, dayOf)' \/ OfEarlier(View, taken, dayOf)'
  BY DEF Quiet, CleanerRun
<1>1. /\ dir' = Without(dir, {n \in DOMAIN dir : n[1] < today})
      /\ UNCHANGED <<taken, today, currentDate, handle, size, dayOf>>
  BY DEF CleanerRun
<1>2. today \in Nat /\ DOMAIN dir \subseteq Names
  BY DEF LogInv, LogTypeOK
<1>3. \A n \in DOMAIN dir' : n \in DOMAIN dir /\ dir'[n] = dir[n]
  BY <1>1 DEF Without
<1>4. \A s : <<today, s>> \in DOMAIN dir' <=> <<today, s>> \in DOMAIN dir
  BY <1>1, <1>2 DEF Without
<1>5. CASE OfEarlier(View, taken, dayOf)
  BY <1>1, <1>3, <1>5 DEF OfEarlier, View, Quiet
<1>6. CASE OfToday(View, taken, dayOf)
  <2>1. Held(dir, today, taken, dayOf)
    BY <1>6 DEF OfToday, View
  <2>2. \A e : Here(dir, today, e) => Here(dir', today, e)
    BY <1>3, <1>4 DEF Here
  <2>3. \A e : Out(dir, today, e) => Out(dir', today, e)
    BY <1>3, <1>4 DEF Out
  <2>4. Held(dir', today, taken, dayOf)
    BY <1>3, <1>4, <2>1, <2>2, <2>3 DEF Held
  <2>5. Current(today) \in DOMAIN dir' /\ dir'[Current(today)] = dir[Current(today)]
    BY <1>3, <1>4, <1>6 DEF OfToday, View, Current
  <2>6. /\ currentDate = today /\ size = Len(dir[Current(today)])
        /\ \A n \in DOMAIN dir : n[1] <= today
        /\ \A e \in 1 .. taken : dayOf[e] <= today
    BY <1>6 DEF OfToday, View
  <2>7. /\ currentDate' = today' /\ size' = Len(dir'[Current(today')])
        /\ \A n \in DOMAIN dir' : n[1] <= today'
        /\ \A e \in 1 .. taken' : dayOf'[e] <= today'
        /\ Held(dir', today', taken', dayOf') /\ Current(today') \in DOMAIN dir'
    BY <1>1, <1>3, <2>4, <2>5, <2>6
  <2>8. OfToday(View, taken, dayOf)'
    BY <2>7 DEF OfToday, View
  <2>. QED  BY <2>8 DEF Quiet
<1>. QED  BY <1>5, <1>6 DEF Quiet

LEMMA QuietKept ==
    ASSUME LogInv, Quiet, LogStep
    PROVE  Quiet'
<1>1. ASSUME UNCHANGED <<faults, clears, currentDate, dir, size, taken, dayOf, today>>,
             writer' # "gone" => writer # "gone" /\ UNCHANGED handle
      PROVE  Quiet'
  <2>1. UNCHANGED View
    BY <1>1 DEF View
  <2>. QED  BY <1>1, <2>1 DEF Quiet, OfToday, OfEarlier, Held, Here, Out, Current
<1>2. ASSUME NEW g \in Loggers, Log(g) \/ Enqueue(g)
      PROVE  Quiet'
  BY <1>1, <1>2 DEF Log, Enqueue, fileVars
<1>3. CASE WriterTake
  BY <1>3, QuietTaken
<1>4. CASE WriterDrain \/ WriterGone
  BY <1>1, <1>4 DEF WriterDrain, WriterGone, fileVars
<1>5. CASE CleanerRun
  BY <1>5, QuietCleaned
<1>6. CASE CleanerExit \/ CloseBegin \/ CloseTell
  BY <1>1, <1>6 DEF CleanerExit, CloseBegin, CloseTell, fileVars
<1>7. CASE NewDay
  <2> SUFFICES ASSUME faults = 0, clears = 0
               PROVE  /\ writer # "gone" => handle = "open"
                      /\ OfEarlier(View, taken, dayOf)'
    <3>1. UNCHANGED <<faults, clears, writer, handle>>
      BY <1>7 DEF NewDay, fileVars
    <3>. QED  BY <3>1 DEF Quiet
  <2>1. /\ today \in 0 .. Days /\ today' = today + 1 /\ UNCHANGED <<taken, dayOf, View>>
    BY <1>7 DEF NewDay, fileVars, View, LogInv, LogTypeOK
  <2>2. View.date \in 0 .. Days /\ View.date < today'
    BY <2>1 DEF Quiet, OfToday, OfEarlier
  <2>3. /\ \A n \in DOMAIN View.dir : n[1] <= View.date
        /\ \A e \in 1 .. taken : dayOf[e] <= View.date
    BY DEF Quiet, OfToday, OfEarlier
  <2>. QED  BY <2>1, <2>2, <2>3 DEF Quiet, OfToday, OfEarlier
<1>8. ASSUME NEW n \in Names, LogsClear(n)
      PROVE  Quiet'
  <2>1. clears' # 0
    BY <1>8 DEF LogsClear, LogInv, LogTypeOK
  <2>. QED  BY <2>1 DEF Quiet
<1>9. CASE UNCHANGED logVars
  BY <1>1, <1>9 DEF logVars, fileVars
<1>. QED  BY <1>2, <1>3, <1>4, <1>5, <1>6, <1>7, <1>8, <1>9 DEF LogStep

LEMMA QuietInit == LogInit => Quiet
<1> SUFFICES ASSUME LogInit, faults = 0
             PROVE  handle = "open" /\ OfToday(View, taken, dayOf)
  BY DEF Quiet
<1>1. /\ currentDate = 0 /\ today = 0 /\ handle = "open" /\ dir = Opened(<<>>, 0)
      /\ taken = 0 /\ size = 0
  BY DEF LogInit
<1>2. <<>> \in Dirs(0)
  <2>1. <<>> \in [{} -> Seq(1 .. 0)] /\ {} \in SUBSET Names
    OBVIOUS
  <2>. QED  BY <2>1 DEF Dirs
<1>3. DOMAIN dir = {<<0, 0>>} /\ dir[<<0, 0>>] = <<>>
  <2>1. /\ Current(0) \in DOMAIN dir
        /\ \A n \in DOMAIN dir : n \in DOMAIN <<>> \/ (n = Current(0) /\ dir[n] = <<>>)
    BY <1>1, <1>2, OpenedFile, Naturals
  <2>2. DOMAIN <<>> = {}
    OBVIOUS
  <2>. QED  BY <2>1, <2>2 DEF Current
<1>4. \A s \in 1 .. Slices : <<0, s>> \notin DOMAIN dir
  BY <1>3
<1>5. Held(dir, 0, 0, dayOf)
  <2>1. \A s, t \in Slots : <<0, s>> \in DOMAIN dir /\ t < s => <<0, t>> \in DOMAIN dir
    BY <1>4, Naturals DEF Slots
  <2>. QED  BY <1>4, <2>1 DEF Held
<1>. QED  BY <1>1, <1>3, <1>5 DEF OfToday, View, Current

LEMMA ProgramQuiet == Spec => []Quiet
<1>1. Init => Quiet
  BY QuietInit DEF Init
<1>2. ProgramInv /\ Quiet /\ [Next]_vars => Quiet'
  <2> SUFFICES ASSUME ProgramInv, Quiet, [Next]_vars PROVE Quiet'
    OBVIOUS
  <2>1. LogInv /\ LogStep
    BY NextLogs DEF ProgramInv, TypeOK, LogInv
  <2>. QED  BY <2>1, QuietKept
<1>. QED  BY <1>1, <1>2, ProgramSafe, PTL DEF Spec

(* While nothing fails and nobody clears, an entry of today is in the files *)
(* of today unless full slices of newer entries, as many as are kept, have  *)
(* pushed it out (logger.go:277-323).                                      *)
THEOREM NewestStay == Spec => []NewestKept
<1>1. ProgramInv /\ Quiet => NewestKept
  <2> SUFFICES ASSUME ProgramInv, Quiet, faults = 0, clears = 0, NEW e \in 1 .. taken,
                      ~(dayOf[e] < today), ~PushedOut(e)
               PROVE  e \in Present
    BY DEF NewestKept
  <2>1. today \in Nat /\ dayOf[e] \in Nat
    BY DEF ProgramInv, TypeOK, LogTypeOK
  <2>2. CASE OfEarlier(View, taken, dayOf)
    BY <2>1, <2>2 DEF OfEarlier
  <2>3. CASE OfToday(View, taken, dayOf)
    <3>1. dayOf[e] = today /\ Held(dir, today, taken, dayOf)
      BY <2>1, <2>3 DEF OfToday, View
    <3>2. ~Out(dir, today, e)
      <4> SUFFICES ASSUME Out(dir, today, e) PROVE PushedOut(e)
        OBVIOUS
      <4>. QED  BY <3>1 DEF Out, PushedOut, Slot, ToSet
    <3>3. PICK s \in Slots : /\ <<today, s>> \in DOMAIN dir
                             /\ \E i \in DOMAIN dir[<<today, s>>] : dir[<<today, s>>][i] = e
      BY <3>1, <3>2 DEF Held, Here
    <3>. QED  BY <3>3 DEF Present, ToSet
  <2>. QED  BY <2>2, <2>3 DEF Quiet
<1>. QED  BY <1>1, ProgramSafe, ProgramQuiet, PTL

-----------------------------------------------------------------------------
(* The configuration, for any documents and any number of changes.         *)

(* What memory holds while overrides are set and nothing is unsaved is what   *)
(* was set last: every step keeps it, whatever file the watcher has read.    *)
LEMMA OverridesKept == ASSUME OverridesRule, [ConfigNext]_configVars PROVE OverridesRule'
<1>1. CASE Start
  BY <1>1 DEF Start, Load, OverridesRule
<1>2. CASE Stop
  BY <1>2 DEF Stop, OverridesRule
<1>3. CASE HandEdit
  BY <1>3 DEF HandEdit, OverridesRule, process
<1>4. CASE UpdateConfig
  BY <1>4 DEF UpdateConfig, Change, SaveConfigLocked, OverridesRule
<1>5. CASE UpdateRefused
  BY <1>5 DEF UpdateRefused, Change, OverridesRule
<1>6. CASE AddStrmVolume
  BY <1>6 DEF AddStrmVolume, Change, SaveConfigLocked, OverridesRule
<1>7. CASE DeleteStrmVolume
  BY <1>7 DEF DeleteStrmVolume, Change, SaveConfigLocked, OverridesRule
<1>8. CASE Unmarshal
  BY <1>8 DEF Unmarshal, At, Mistyped, Merged, OverridesRule
<1>9. CASE Poll \/ ReadInConfig \/ ReloadTarget \/ ApplyTarget \/ ReloadCache
  BY <1>9 DEF Poll, ReadInConfig, ReloadTarget, ApplyTarget, ReloadCache, At, OverridesRule
<1>10. CASE UNCHANGED configVars
  BY <1>10 DEF configVars, process, OverridesRule
<1>. QED  BY <1>1, <1>2, <1>3, <1>4, <1>5, <1>6, <1>7, <1>8, <1>9, <1>10 DEF ConfigNext

(* The watcher never undoes a save with an older file.                       *)
THEOREM SavesStay == ConfigSpec => []SaveNotUndone
<1>1. ConfigInit => OverridesRule
  BY DEF ConfigInit, OverridesRule
<1>2. OverridesRule /\ [ConfigNext]_configVars => OverridesRule'
  BY OverridesKept
<1>3. OverridesRule => SaveNotUndone
  BY DEF OverridesRule, SaveNotUndone
<1>. QED  BY <1>1, <1>2, <1>3, PTL DEF ConfigSpec

(* The document a save leaves, and its file, are documents.                   *)
LEMMA SaveTyped ==
  ASSUME ConfigTypeOK, NEW d \in Docs, SaveConfigLocked(d)
  PROVE  /\ file' \in Files
         /\ mem' \in Docs /\ override' \in Docs
         /\ changed' \in BOOLEAN /\ overridden' \in BOOLEAN /\ unsaved' \in BOOLEAN
<1>1. Good(d) \in Files
  BY DEF Good, Files, Kinds
<1>2. file' \in Files /\ changed' \in BOOLEAN /\ unsaved' \in BOOLEAN
  BY <1>1 DEF ConfigTypeOK, SaveConfigLocked
<1>. QED  BY <1>2 DEF SaveConfigLocked

(* The type invariant; in particular the cache's time to live stays one of    *)
(* TTLs, as the watcher ends with a panic before it applies 0.               *)
THEOREM ConfigTypeCorrect == ConfigSpec => []ConfigTypeOK
<1>d. Default \in Docs /\ Default.ttl \in TTLs /\ Default.target \in Targets
  BY DocsAssumption DEF Docs, Targets
<1>0. 0 \notin TTLs
  BY DocsAssumption
<1>1. ASSUME ConfigInit PROVE ConfigTypeOK
  <2>1. [kind |-> "missing", doc |-> Default] \in Files /\ Good(Default) \in Files
    BY <1>d DEF Files, Kinds, Good
  <2>2. count \in [edits: 0 .. MaxEdits, changes: 0 .. MaxChanges, starts: 0 .. MaxStarts]
    BY <1>1, BoundsAssumption DEF ConfigInit
  <2>3. applied \in [ttl: TTLs, target: Targets]
    BY <1>1, <1>d DEF ConfigInit
  <2>. QED  BY <1>1, <1>d, <2>1, <2>2, <2>3 DEF ConfigInit, ConfigTypeOK
<1>2. ConfigTypeOK /\ [ConfigNext]_configVars => ConfigTypeOK'
  <2>. SUFFICES ASSUME ConfigTypeOK, [ConfigNext]_configVars PROVE ConfigTypeOK'
    OBVIOUS
  <2>. USE DEF ConfigTypeOK
  <2>1. CASE Start
    <3>1. PICK d \in Docs : Load(d) /\ d.ttl \in TTLs /\ d.target \in Targets
      <4>1. CASE Load(Default)
        BY <4>1, <1>d
      <4>2. CASE file.doc.ttl > 0 /\ Load(file.doc)
        <5>1. file.doc \in Docs
          BY DEF Files
        <5>2. file.doc.ttl \in TTLs
          BY <4>2, <5>1, <1>0, DocsAssumption DEF Docs
        <5>. QED  BY <4>2, <5>1, <5>2 DEF Docs
      <4>. QED  BY <2>1, <4>1, <4>2 DEF Start
    <3>2. count' \in [edits: 0 .. MaxEdits, changes: 0 .. MaxChanges, starts: 0 .. MaxStarts]
      BY <2>1, BoundsAssumption DEF Start
    <3>3. file' \in Files /\ read' \in Files /\ mem' = d /\ override' = d
      BY <3>1 DEF Load, Files, Kinds, Good
    <3>. QED  BY <2>1, <3>1, <3>2, <3>3 DEF Start, Load
  <2>2. CASE Stop
    BY <2>2, <1>d DEF Stop, Files, Kinds, Good
  <2>3. CASE HandEdit
    <3>1. file' \in Files
      BY <2>3, <1>d DEF HandEdit, Files
    <3>2. count' \in [edits: 0 .. MaxEdits, changes: 0 .. MaxChanges, starts: 0 .. MaxStarts]
      BY <2>3, BoundsAssumption DEF HandEdit
    <3>. QED  BY <2>3, <3>1, <3>2 DEF HandEdit, process
  <2>4. Change =>
           /\ count' \in [edits: 0 .. MaxEdits, changes: 0 .. MaxChanges, starts: 0 .. MaxStarts]
           /\ UNCHANGED <<up, read, pc, pendingChange, newTarget, applied>>
    BY BoundsAssumption DEF Change
  <2>5. CASE UpdateConfig
    <3>1. PICK d \in Docs : SaveConfigLocked(d)
      BY <2>5 DEF UpdateConfig, Updated
    <3>. QED  BY <2>4, <2>5, <3>1, SaveTyped DEF UpdateConfig
  <2>6. CASE UpdateRefused
    <3>1. mem' \in Docs
      BY <2>6 DEF UpdateRefused, Updated
    <3>. QED  BY <2>4, <2>6, <3>1 DEF UpdateRefused
  <2>7. CASE AddStrmVolume
    <3>1. PICK d \in Docs : SaveConfigLocked(d)
      BY <2>7 DEF AddStrmVolume, Docs
    <3>. QED  BY <2>4, <2>7, <3>1, SaveTyped DEF AddStrmVolume
  <2>8. CASE DeleteStrmVolume
    <3>1. PICK d \in Docs : SaveConfigLocked(d)
      BY <2>8 DEF DeleteStrmVolume, Docs
    <3>. QED  BY <2>4, <2>8, <3>1, SaveTyped DEF DeleteStrmVolume
  <2>9. CASE Poll \/ ReadInConfig
    BY <2>9 DEF Poll, ReadInConfig
  <2>10. CASE Unmarshal
    <3>1. Merged \in Docs
      BY DEF Merged, Files
    <3>2. mem' \in Docs
      BY <2>10, <3>1 DEF Unmarshal, Docs
    <3>. QED  BY <2>10, <3>2 DEF Unmarshal
  <2>11. CASE ReloadTarget
    BY <2>11 DEF ReloadTarget, Docs
  <2>12. CASE ApplyTarget
    BY <2>12 DEF ApplyTarget
  <2>13. CASE ReloadCache
    <3>1. mem.ttl \in TTLs \cup {0} /\ applied.ttl \in TTLs /\ applied.target \in Targets
      BY DEF Docs
    <3>2. mem.ttl > 0 => mem.ttl \in TTLs
      BY <3>1
    <3>3. applied' \in [ttl: TTLs, target: Targets]
      BY <2>13, <3>1, <3>2 DEF ReloadCache
    <3>. QED  BY <2>13, <3>3 DEF ReloadCache
  <2>14. CASE UNCHANGED configVars
    BY <2>14 DEF configVars, process
  <2>. QED  BY <2>1, <2>2, <2>3, <2>5, <2>6, <2>7, <2>8, <2>9, <2>10, <2>11, <2>12, <2>13, <2>14 DEF ConfigNext
<1>. QED  BY <1>1, <1>2, PTL DEF ConfigSpec

=============================================================================

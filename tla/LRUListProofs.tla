---------------------------- MODULE LRUListProofs ----------------------------
(***************************************************************************)
(* What the operations of LRUList do to a list in which nothing occurs     *)
(* twice, for the proofs about the caches.                                 *)
(***************************************************************************)
EXTENDS LRUList, FiniteSetTheorems, TLAPS

LEMMA FunctionSeq ==
    ASSUME NEW S, NEW n \in Nat, NEW s \in [1 .. n -> S]
    PROVE  s \in Seq(S) /\ DOMAIN s = 1 .. n
OBVIOUS

LEMMA InjectiveSeq ==
    ASSUME NEW n \in Nat, NEW r, DOMAIN r = 1 .. n,
           \A x, y \in 1 .. n : r[x] = r[y] => x = y
    PROVE  IsInjective(r)
BY DEF IsInjective

LEMMA LenDomain ==
    ASSUME NEW n \in Nat, NEW r, DOMAIN r = 1 .. n
    PROVE  Len(r) = n
OBVIOUS

LEMMA RemovedAt ==
    ASSUME NEW S, NEW l \in Seq(S), NEW i \in 1 .. Len(l)
    PROVE  /\ RemoveAt(l, i) \in Seq(S)
           /\ Len(RemoveAt(l, i)) = Len(l) - 1
           /\ \A j \in 1 .. Len(l) - 1 :
                RemoveAt(l, i)[j] = IF j < i THEN l[j] ELSE l[j + 1]
<1> DEFINE a == SubSeq(l, 1, i - 1)
           b == SubSeq(l, i + 1, Len(l))
<1>1. a \in Seq(S) /\ Len(a) = i - 1 /\ \A j \in 1 .. i - 1 : a[j] = l[j]
  OBVIOUS
<1>2. b \in Seq(S) /\ Len(b) = Len(l) - i /\ \A j \in 1 .. Len(l) - i : b[j] = l[i + j]
  OBVIOUS
<1>3. RemoveAt(l, i) = a \o b
  BY DEF RemoveAt
<1> HIDE DEF a, b
<1>4. a \o b \in Seq(S) /\ Len(a \o b) = Len(l) - 1
  <2>1. a \in Seq(S) /\ b \in Seq(S)
    BY <1>1, <1>2
  <2>2. a \o b \in Seq(S)
    BY <2>1
  <2>3. Len(a \o b) = Len(a) + Len(b)
    BY <2>1
  <2>4. (i - 1) + (Len(l) - i) = Len(l) - 1
    OBVIOUS
  <2>5. QED
    BY <1>1, <1>2, <2>2, <2>3, <2>4
<1>5. ASSUME NEW j \in 1 .. Len(l) - 1
      PROVE  (a \o b)[j] = IF j < i THEN l[j] ELSE l[j + 1]
  <2>1. CASE j < i
    BY <1>1, <1>2, <2>1
  <2>2. CASE ~(j < i)
    <3>1. j - (i - 1) \in 1 .. Len(l) - i
      BY <2>2
    <3>2. (a \o b)[j] = b[j - (i - 1)]
      BY <1>1, <1>2, <2>2
    <3>3. b[j - (i - 1)] = l[i + (j - (i - 1))]
      BY <1>2, <3>1
    <3>4. i + (j - (i - 1)) = j + 1
      OBVIOUS
    <3>5. QED
      BY <2>2, <3>2, <3>3, <3>4
  <2>3. QED
    BY <2>1, <2>2
<1>6. QED
  BY <1>3, <1>4, <1>5

(* Every place of the longer list but i is a place of the shorter one.     *)
LEMMA Unlinked ==
    ASSUME NEW S, NEW l \in Seq(S), IsInjective(l), NEW k
    PROVE  /\ Unlink(l, k) \in Seq(S)
           /\ ToSet(Unlink(l, k)) = ToSet(l) \ {k}
           /\ IsInjective(Unlink(l, k))
<1>1. CASE k \notin ToSet(l)
  BY <1>1 DEF Unlink
<1>2. CASE k \in ToSet(l)
  <2> DEFINE i == CHOOSE i \in DOMAIN l : l[i] = k
             r == RemoveAt(l, i)
  <2>1. i \in 1 .. Len(l) /\ l[i] = k
    BY <1>2 DEF ToSet
  <2>2. Unlink(l, k) = r
    BY <1>2 DEF Unlink
  <2> HIDE DEF i
  <2>3. /\ r \in Seq(S) /\ Len(r) = Len(l) - 1
        /\ \A j \in 1 .. Len(l) - 1 : r[j] = IF j < i THEN l[j] ELSE l[j + 1]
    BY <2>1, RemovedAt
  <2> HIDE DEF r
  <2>4. \A x, y \in 1 .. Len(l) : l[x] = l[y] => x = y
    BY DEF IsInjective
  <2>5. DOMAIN r = 1 .. Len(l) - 1
    BY <2>3
  <2>6. \A x \in DOMAIN r : r[x] \in ToSet(l) \ {k}
    <3> SUFFICES ASSUME NEW x \in 1 .. Len(l) - 1
                 PROVE  r[x] \in ToSet(l) \ {k}
      BY <2>5
    <3>1. CASE x < i
      BY <2>1, <2>3, <2>4, <3>1 DEF ToSet
    <3>2. CASE ~(x < i)
      BY <2>1, <2>3, <2>4, <3>2 DEF ToSet
    <3>3. QED
      BY <3>1, <3>2
  <2>7. \A y \in ToSet(l) \ {k} : \E x \in DOMAIN r : r[x] = y
    <3> SUFFICES ASSUME NEW z \in 1 .. Len(l), l[z] # k
                 PROVE  \E x \in 1 .. Len(l) - 1 : r[x] = l[z]
      BY <2>5 DEF ToSet
    <3>1. CASE z < i
      BY <2>1, <2>3, <3>1
    <3>2. CASE z > i
      <4>1. z - 1 \in 1 .. Len(l) - 1 /\ ~(z - 1 < i) /\ (z - 1) + 1 = z
        BY <2>1, <3>2
      <4>2. r[z - 1] = l[z]
        BY <2>3, <4>1
      <4>3. QED
        BY <4>1, <4>2
    <3>3. z # i
      BY <2>1
    <3>4. QED
      BY <2>1, <3>1, <3>2, <3>3
  <2>8. IsInjective(r)
    <3> SUFFICES ASSUME NEW x \in 1 .. Len(l) - 1, NEW y \in 1 .. Len(l) - 1, r[x] = r[y]
                 PROVE  x = y
      BY <2>5 DEF IsInjective
    <3>1. CASE x < i /\ y < i
      BY <2>3, <2>4, <3>1
    <3>2. CASE x < i /\ ~(y < i)
      BY <2>1, <2>3, <2>4, <3>2
    <3>3. CASE ~(x < i) /\ y < i
      BY <2>1, <2>3, <2>4, <3>3
    <3>4. CASE ~(x < i) /\ ~(y < i)
      BY <2>1, <2>3, <2>4, <3>4
    <3>5. QED
      BY <3>1, <3>2, <3>3, <3>4
  <2>9. ToSet(r) = ToSet(l) \ {k}
    BY <2>6, <2>7 DEF ToSet
  <2>10. QED
    BY <2>2, <2>3, <2>8, <2>9
<1>3. QED
  BY <1>1, <1>2

LEMMA Touched ==
    ASSUME NEW S, NEW l \in Seq(S), IsInjective(l), NEW k \in S
    PROVE  /\ Touch(l, k) \in Seq(S) /\ Touch(l, k) # << >>
           /\ IsInjective(Touch(l, k))
           /\ Last(Touch(l, k)) = k
<1> DEFINE u == Unlink(l, k)
           t == Append(u, k)
<1>1. u \in Seq(S) /\ ToSet(u) = ToSet(l) \ {k} /\ IsInjective(u)
  BY Unlinked
<1>2. Touch(l, k) = t
  BY DEF Touch
<1> HIDE DEF u
<1>3. /\ t \in Seq(S) /\ Len(t) = Len(u) + 1 /\ t[Len(t)] = k
      /\ \A x \in 1 .. Len(u) : t[x] = u[x]
  BY <1>1
<1> HIDE DEF t
<1>4. t # << >> /\ Last(t) = k
  BY <1>1, <1>3 DEF Last
<1>5. DOMAIN t = 1 .. Len(u) + 1 /\ DOMAIN u = 1 .. Len(u) /\ Len(u) \in Nat
  BY <1>1, <1>3
<1>6. \A x \in 1 .. Len(u) : u[x] # k
  BY <1>1, <1>5 DEF ToSet
<1>7. IsInjective(t)
  <2> SUFFICES ASSUME NEW x \in 1 .. Len(u) + 1, NEW y \in 1 .. Len(u) + 1, t[x] = t[y]
               PROVE  x = y
    BY <1>5 DEF IsInjective
  <2>1. CASE x <= Len(u) /\ y <= Len(u)
    BY <1>1, <1>3, <1>5, <2>1 DEF IsInjective
  <2>2. CASE x <= Len(u) /\ y = Len(u) + 1
    BY <1>3, <1>5, <1>6, <2>2
  <2>3. CASE x = Len(u) + 1 /\ y <= Len(u)
    BY <1>3, <1>5, <1>6, <2>3
  <2>4. QED
    BY <1>5, <2>1, <2>2, <2>3
<1>8. QED
  BY <1>2, <1>3, <1>4, <1>7

LEMMA TouchedSet ==
    ASSUME NEW S, NEW l \in Seq(S), IsInjective(l), NEW k \in S
    PROVE  ToSet(Touch(l, k)) = ToSet(l) \cup {k}
<1>1. PICK u : u = Unlink(l, k)
  OBVIOUS
<1>2. u \in Seq(S) /\ ToSet(u) = ToSet(l) \ {k}
  BY <1>1, Unlinked
<1>3. PICK t : t = Append(u, k)
  OBVIOUS
<1>4. Touch(l, k) = t
  BY <1>1, <1>3 DEF Touch
<1>5. DOMAIN t = 1 .. Len(u) + 1 /\ DOMAIN u = 1 .. Len(u) /\ Len(u) \in Nat
  BY <1>2, <1>3
<1>6. t[Len(u) + 1] = k /\ \A x \in 1 .. Len(u) : t[x] = u[x]
  BY <1>2, <1>3
<1>7. \A x \in DOMAIN t : t[x] \in ToSet(u) \cup {k}
  BY <1>5, <1>6 DEF ToSet
<1>8. \A y \in ToSet(u) \cup {k} : \E x \in DOMAIN t : t[x] = y
  BY <1>5, <1>6 DEF ToSet
<1>9. ToSet(t) = ToSet(u) \cup {k}
  BY <1>7, <1>8 DEF ToSet
<1>10. QED
  BY <1>2, <1>4, <1>9

LEMMA TouchedHead ==
    ASSUME NEW S, NEW l \in Seq(S), IsInjective(l), NEW k \in S, Unlink(l, k) # << >>
    PROVE  Head(Touch(l, k)) = Head(Unlink(l, k))
<1>1. PICK u : u = Unlink(l, k)
  OBVIOUS
<1>2. u \in Seq(S) /\ u # << >>
  BY <1>1, Unlinked
<1>3. Touch(l, k) = Append(u, k)
  BY <1>1 DEF Touch
<1>4. 1 \in 1 .. Len(u)
  BY <1>2
<1>5. Head(Append(u, k)) = Head(u)
  BY <1>2, <1>4
<1>6. QED
  BY <1>1, <1>3, <1>5

LEMMA TouchedLen ==
    ASSUME NEW S, NEW l \in Seq(S), NEW k \in S
    PROVE  Len(Touch(l, k)) = IF k \in ToSet(l) THEN Len(l) ELSE Len(l) + 1
<1>1. PICK u : u = Unlink(l, k)
  OBVIOUS
<1>2. Touch(l, k) = Append(u, k)
  BY <1>1 DEF Touch
<1>3. CASE k \notin ToSet(l)
  BY <1>1, <1>2, <1>3 DEF Unlink
<1>4. CASE k \in ToSet(l)
  <2> DEFINE place == CHOOSE i \in DOMAIN l : l[i] = k
  <2>1. place \in 1 .. Len(l) /\ u = RemoveAt(l, place)
    BY <1>1, <1>4 DEF ToSet, Unlink
  <2> HIDE DEF place
  <2>2. u \in Seq(S) /\ Len(u) = Len(l) - 1
    BY <2>1, RemovedAt
  <2>3. QED
    BY <1>2, <1>4, <2>2
<1>5. QED
  BY <1>3, <1>4

(* A removal leaves what is last where it is, unless it is what goes.       *)
LEMMA UnlinkedLast ==
    ASSUME NEW S, NEW l \in Seq(S), l # << >>, NEW k, Last(l) # k
    PROVE  Last(Unlink(l, k)) = Last(l)
<1>1. CASE k \notin ToSet(l)
  BY <1>1 DEF Unlink
<1>2. CASE k \in ToSet(l)
  <2> DEFINE place == CHOOSE i \in DOMAIN l : l[i] = k
  <2>0. place \in 1 .. Len(l) /\ l[place] = k /\ Unlink(l, k) = RemoveAt(l, place)
    BY <1>2 DEF ToSet, Unlink
  <2> HIDE DEF place
  <2>1. PICK i \in 1 .. Len(l) : l[i] = k /\ Unlink(l, k) = RemoveAt(l, i)
    BY <2>0
  <2>2. PICK r : r = RemoveAt(l, i)
    OBVIOUS
  <2>3. /\ r \in Seq(S) /\ Len(r) = Len(l) - 1
        /\ \A j \in 1 .. Len(l) - 1 : r[j] = IF j < i THEN l[j] ELSE l[j + 1]
    BY <2>2, RemovedAt
  <2>4. i < Len(l)
    BY <2>1 DEF Last
  <2>5. r[Len(l) - 1] = l[Len(l)]
    <3>1. Len(l) - 1 \in 1 .. Len(l) - 1 /\ ~(Len(l) - 1 < i) /\ (Len(l) - 1) + 1 = Len(l)
      BY <2>4
    <3>2. QED
      BY <2>3, <3>1
  <2>6. QED
    BY <2>1, <2>2, <2>3, <2>5 DEF Last
<1>3. QED
  BY <1>1, <1>2

LEMMA Heads ==
    ASSUME NEW S, NEW l \in Seq(S), l # << >>
    PROVE  Head(l) \in ToSet(l) /\ Head(l) = l[1] /\ 1 \in DOMAIN l
BY DEF ToSet

(* The end of a list from place d + 1 on.                                   *)
LEMMA Shortened ==
    ASSUME NEW S, NEW l \in Seq(S), IsInjective(l), NEW d \in 0 .. Len(l)
    PROVE  /\ SubSeq(l, d + 1, Len(l)) \in Seq(S)
           /\ ToSet(SubSeq(l, d + 1, Len(l))) = ToSet(l) \ ToSet(SubSeq(l, 1, d))
           /\ IsInjective(SubSeq(l, d + 1, Len(l)))
<1> DEFINE a == SubSeq(l, 1, d)
           b == SubSeq(l, d + 1, Len(l))
<1>1. a \in Seq(S) /\ DOMAIN a = 1 .. d /\ \A x \in 1 .. d : a[x] = l[x]
  OBVIOUS
<1>2. b \in Seq(S) /\ DOMAIN b = 1 .. Len(l) - d /\ \A x \in 1 .. Len(l) - d : b[x] = l[d + x]
  OBVIOUS
<1> HIDE DEF a, b
<1>3. \A x, y \in 1 .. Len(l) : l[x] = l[y] => x = y
  BY DEF IsInjective
<1>4. IsInjective(b)
  <2> SUFFICES ASSUME NEW x \in 1 .. Len(l) - d, NEW y \in 1 .. Len(l) - d, b[x] = b[y]
               PROVE  x = y
    BY <1>2 DEF IsInjective
  <2>1. d + x \in 1 .. Len(l) /\ d + y \in 1 .. Len(l) /\ l[d + x] = l[d + y]
    BY <1>2
  <2>2. QED
    BY <1>3, <2>1
<1>5. \A x \in 1 .. Len(l) - d : b[x] \in ToSet(l) /\ b[x] \notin ToSet(a)
  <2> TAKE x \in 1 .. Len(l) - d
  <2>1. d + x \in 1 .. Len(l) /\ b[x] = l[d + x]
    BY <1>2
  <2>2. \A y \in 1 .. d : a[y] # b[x]
    <3> TAKE y \in 1 .. d
    <3>1. y \in 1 .. Len(l) /\ a[y] = l[y] /\ y # d + x
      BY <1>1
    <3>2. QED
      BY <1>3, <2>1, <3>1
  <2>3. QED
    BY <1>1, <2>1, <2>2 DEF ToSet
<1>6. \A x \in 1 .. Len(l) : l[x] \notin ToSet(a) => \E y \in 1 .. Len(l) - d : b[y] = l[x]
  <2> SUFFICES ASSUME NEW x \in 1 .. Len(l), l[x] \notin ToSet(a)
               PROVE  \E y \in 1 .. Len(l) - d : b[y] = l[x]
    OBVIOUS
  <2>1. x \notin 1 .. d
    BY <1>1 DEF ToSet
  <2>2. x - d \in 1 .. Len(l) - d /\ d + (x - d) = x
    BY <2>1
  <2>3. QED
    BY <1>2, <2>2
<1>7. ToSet(b) = ToSet(l) \ ToSet(a)
  <2>1. \A y : y \in ToSet(b) <=> \E x \in 1 .. Len(l) - d : b[x] = y
    BY <1>2 DEF ToSet
  <2>2. \A y : y \in ToSet(l) <=> \E x \in 1 .. Len(l) : l[x] = y
    BY DEF ToSet
  <2>3. \A y : y \in ToSet(b) <=> y \in ToSet(l) /\ y \notin ToSet(a)
    BY <1>5, <1>6, <2>1, <2>2
  <2>4. QED
    BY <2>3
<1>8. QED
  BY <1>2, <1>4, <1>7 DEF a, b

LEMMA Behead ==
    ASSUME NEW S, NEW l \in Seq(S), l # << >>, IsInjective(l)
    PROVE  /\ Tail(l) \in Seq(S) /\ Len(Tail(l)) = Len(l) - 1
           /\ ToSet(Tail(l)) = ToSet(l) \ {Head(l)}
           /\ IsInjective(Tail(l))
<1>1. PICK t : t = Tail(l)
  OBVIOUS
<1>2. /\ t \in Seq(S) /\ Len(t) = Len(l) - 1 /\ Len(l) \in Nat \ {0}
      /\ \A x \in 1 .. Len(l) - 1 : t[x] = l[x + 1]
  BY <1>1
<1>3. DOMAIN t = 1 .. Len(l) - 1 /\ DOMAIN l = 1 .. Len(l) /\ Head(l) = l[1]
  BY <1>2
<1>4. \A x, y \in 1 .. Len(l) : l[x] = l[y] => x = y
  BY <1>3 DEF IsInjective
<1>5. IsInjective(t)
  <2>1. ASSUME NEW x \in 1 .. Len(l) - 1, NEW y \in 1 .. Len(l) - 1, t[x] = t[y]
        PROVE  x = y
    <3>1. x + 1 \in 1 .. Len(l) /\ y + 1 \in 1 .. Len(l) /\ l[x + 1] = l[y + 1]
      BY <1>2, <2>1
    <3>2. QED
      BY <1>4, <3>1
  <2>2. QED
    BY <1>2, <1>3, <2>1, InjectiveSeq
<1>6. \A x \in 1 .. Len(l) - 1 : t[x] \in ToSet(l) /\ t[x] # l[1]
  <2> TAKE x \in 1 .. Len(l) - 1
  <2>1. x + 1 \in 1 .. Len(l) /\ 1 \in 1 .. Len(l) /\ x + 1 # 1 /\ t[x] = l[x + 1]
    BY <1>2
  <2>2. QED
    BY <1>3, <1>4, <2>1 DEF ToSet
<1>7. \A y \in 2 .. Len(l) : \E x \in 1 .. Len(l) - 1 : t[x] = l[y]
  <2> TAKE y \in 2 .. Len(l)
  <2>1. y - 1 \in 1 .. Len(l) - 1 /\ (y - 1) + 1 = y
    BY <1>2
  <2>2. QED
    BY <1>2, <2>1
<1>8. ToSet(t) = ToSet(l) \ {l[1]}
  <2>1. \A z : z \in ToSet(t) <=> \E x \in 1 .. Len(l) - 1 : t[x] = z
    BY <1>3 DEF ToSet
  <2>2. \A z : z \in ToSet(l) <=> \E x \in 1 .. Len(l) : l[x] = z
    BY <1>3 DEF ToSet
  <2>3. \A z : z \in ToSet(l) /\ z # l[1] => z \in ToSet(t)
    <3> SUFFICES ASSUME NEW y \in 1 .. Len(l), l[y] # l[1]
                 PROVE  l[y] \in ToSet(t)
      BY <2>2
    <3>1. y \in 2 .. Len(l)
      BY <1>2
    <3>2. QED
      BY <1>7, <2>1, <3>1
  <2>4. QED
    BY <1>6, <2>1, <2>3
<1>9. QED
  BY <1>1, <1>2, <1>3, <1>5, <1>8

LEMMA RemainingFinite ==
    ASSUME NEW S, NEW l \in Seq(S), NEW K
    PROVE  Remaining(l, K) \subseteq 1 .. Len(l) /\ Cardinality(Remaining(l, K)) \in Nat
<1>1. Remaining(l, K) \subseteq 1 .. Len(l) /\ Len(l) \in Nat
  BY DEF Remaining
<1>2. IsFiniteSet(1 .. Len(l))
  BY <1>1, FS_Interval
<1>3. IsFiniteSet(Remaining(l, K))
  BY <1>1, <1>2, FS_Subset
<1>4. QED
  BY <1>1, <1>3, FS_CardinalityType

LEMMA Filtered ==
    ASSUME NEW S, NEW l \in Seq(S), IsInjective(l), NEW K, NEW r \in Rest(l, K)
    PROVE  r \in Seq(S) /\ ToSet(r) = ToSet(l) \ K /\ IsInjective(r)
<1>1. /\ \A i : i \in Remaining(l, K) <=> i \in 1 .. Len(l) /\ l[i] \notin K
      /\ DOMAIN l = 1 .. Len(l) /\ Len(l) \in Nat
  BY DEF Remaining
<1>2. PICK n \in Nat : n = Cardinality(Remaining(l, K))
  BY RemainingFinite
<1>3. PICK p \in [1 .. n -> Remaining(l, K)] :
        /\ \A i, j \in DOMAIN p : i < j => p[i] < p[j]
        /\ Range(p) = Remaining(l, K)
        /\ r = [i \in DOMAIN p |-> l[p[i]]]
  BY <1>2 DEF Rest
<1>4. /\ DOMAIN p = 1 .. n /\ DOMAIN r = 1 .. n /\ r = [i \in 1 .. n |-> l[p[i]]]
      /\ \A i \in 1 .. n : p[i] \in Remaining(l, K)
      /\ \A i \in 1 .. n : r[i] = l[p[i]]
      /\ \A i, j \in 1 .. n : i < j => p[i] < p[j]
  BY <1>3
<1>5. \A z \in Remaining(l, K) : \E i \in 1 .. n : p[i] = z
  BY <1>3, <1>4 DEF Range
<1>6. r \in Seq(S)
  <2>1. \A i \in 1 .. n : l[p[i]] \in S
    BY <1>1, <1>4
  <2>2. r \in [1 .. n -> S]
    BY <1>4, <2>1
  <2>3. QED
    BY <2>2, FunctionSeq
<1>7. IsInjective(r)
  <2>1. ASSUME NEW x \in 1 .. n, NEW y \in 1 .. n, r[x] = r[y]
        PROVE  x = y
    <3>1. p[x] \in 1 .. Len(l) /\ p[y] \in 1 .. Len(l) /\ l[p[x]] = l[p[y]]
      BY <1>1, <1>4, <2>1
    <3>2. p[x] = p[y]
      BY <1>1, <3>1 DEF IsInjective
    <3>3. ~(x < y) /\ ~(y < x)
      BY <1>4, <3>1, <3>2
    <3>4. QED
      BY <3>3
  <2>2. QED
    BY <1>4, <2>1, InjectiveSeq
<1>8. ToSet(r) = ToSet(l) \ K
  <2>1. \A y : y \in ToSet(r) <=> \E i \in 1 .. n : r[i] = y
    BY <1>4 DEF ToSet
  <2>2. \A y : y \in ToSet(l) <=> \E z \in 1 .. Len(l) : l[z] = y
    BY <1>1 DEF ToSet
  <2>3. \A y \in ToSet(r) : y \in ToSet(l) /\ y \notin K
    BY <1>1, <1>4, <2>1, <2>2
  <2>4. \A y \in ToSet(l) : y \notin K => y \in ToSet(r)
    <3> SUFFICES ASSUME NEW z \in 1 .. Len(l), l[z] \notin K
                 PROVE  l[z] \in ToSet(r)
      BY <2>2
    <3>1. z \in Remaining(l, K)
      BY <1>1
    <3>2. PICK i \in 1 .. n : p[i] = z
      BY <1>5, <3>1
    <3>3. r[i] = l[z]
      BY <1>4, <3>2
    <3>4. QED
      BY <2>1, <3>3
  <2>5. QED
    BY <2>3, <2>4
<1>9. QED
  BY <1>6, <1>7, <1>8

LEMMA FilteredLen ==
    ASSUME NEW S, NEW l \in Seq(S), NEW K, NEW r \in Rest(l, K)
    PROVE  Len(r) <= Len(l)
<1>1. PICK n \in Nat : n = Cardinality(Remaining(l, K))
  BY RemainingFinite
<1>2. DOMAIN r = 1 .. n
  <2>1. PICK p \in [1 .. n -> Remaining(l, K)] : r = [i \in DOMAIN p |-> l[p[i]]]
    BY <1>1 DEF Rest
  <2>2. DOMAIN p = 1 .. n
    BY <2>1
  <2>3. DOMAIN r = DOMAIN p
    BY <2>1
  <2>4. QED
    BY <2>2, <2>3
<1>3. PICK m \in Nat : m = Len(l)
  OBVIOUS
<1>4. IsFiniteSet(1 .. m) /\ Cardinality(1 .. m) = m
  BY FS_Interval
<1>5. n <= m
  BY <1>1, <1>3, <1>4, RemainingFinite, FS_Subset
<1>6. Len(r) = n
  BY <1>1, <1>2, LenDomain
<1>7. QED
  BY <1>3, <1>5, <1>6

=============================================================================

--------------------------- MODULE ScanRoundsProofs ---------------------------
(***************************************************************************)
(* Proofs about ScanRounds for any number of items and keys and for any    *)
(* limits: what is known of a mark that has been forgotten.                *)
(***************************************************************************)
EXTENDS ScanRounds, FiniteSetTheorems, TLAPS

MarksTyped == recent \subseteq Keys /\ age \in [Keys -> 0 .. Horizon]

Scan == [kind : {"none", "full", "incremental"}, phase : {"none", "auth", "items", "retry"},
         todo : SUBSET Items, failed : SUBSET Items, item : Items \cup {NoItem}]

RestTyped == /\ cached \subseteq Items /\ probed \subseteq Items /\ present \subseteq Items
             /\ notified \in BOOLEAN /\ authorized \in BOOLEAN /\ lists \in BOOLEAN
             /\ scan \in Scan

LEMMA TypeParts == (TypeOK <=> MarksTyped /\ RestTyped) /\ (TypeOK' <=> MarksTyped' /\ RestTyped')
BY DEF TypeOK, MarksTyped, RestTyped, Scan

LEMMA KeysFinite ==
    ASSUME NEW S \in SUBSET Keys, NEW T \in SUBSET S
    PROVE  /\ IsFiniteSet(S) /\ Cardinality(S) \in Nat
           /\ Cardinality(T) \in Nat /\ Cardinality(T) <= Cardinality(S)
<1>1. IsFiniteSet(S)
  BY KeysAssumption, FS_Subset
<1>2. IsFiniteSet(T) /\ Cardinality(T) <= Cardinality(S)
  BY <1>1, FS_Subset
<1> QED
  BY <1>1, <1>2, FS_CardinalityType

LEMMA Limits == /\ TrimAge \in Nat /\ Keep \in Nat /\ Horizon \in Nat
                /\ TrimAge < Horizon
BY LimitsAssumption

LEMMA KeysOfItems == ASSUME NEW p \in Prefixes, NEW i \in Items PROVE <<p, i>> \in Keys
BY DEF Keys

-----------------------------------------------------------------------------
(* A key without a mark stays one that may be without: it does not get     *)
(* younger, and no fewer keys have been marked since.                      *)
LEMMA StaysForgotten ==
    ASSUME MarksTyped, MarksTyped', ForgottenOnlyOld,
           NEW k \in Keys \ recent, age[k] <= age'[k],
           \A j \in Since(k) : age'[j] <= age'[k]
    PROVE  age'[k] > TrimAge \/ Cardinality(Since(k)') >= Keep
<1>1. Since(k) \subseteq Since(k)' /\ Since(k)' \subseteq Keys
  BY DEF Since
<1>2. /\ Cardinality(Since(k)) \in Nat /\ Cardinality(Since(k)') \in Nat
      /\ Cardinality(Since(k)) <= Cardinality(Since(k)')
  BY <1>1, KeysFinite
<1>3. CASE age[k] > TrimAge
  BY <1>3, Limits DEF MarksTyped
<1>4. CASE Cardinality(Since(k)) >= Keep
  BY <1>2, <1>4, Limits
<1> QED
  BY <1>3, <1>4 DEF ForgottenOnlyOld

(* What trimming drops is old, or follows the Keep newest.                 *)
LEMMA DroppedOnlyOld ==
    ASSUME NEW S \in SUBSET Keys, NEW a \in [Keys -> 0 .. Horizon], NEW R \in Trimmed(S, a),
           NEW k \in S \ R,
           NEW since, \A j : j \in since <=> j \in Keys /\ j # k /\ a[j] <= a[k]
    PROVE  a[k] > TrimAge \/ Cardinality(since) >= Keep
<1> DEFINE young == {j \in S : a[j] <= TrimAge}
<1>1. CASE R = S
  BY <1>1
<1>2. CASE R = young
  BY <1>2, Limits
<1>3. ASSUME R \in SUBSET young, Cardinality(R) = Keep, k \in young,
             \A x \in R, y \in young \ R : a[x] <= a[y]
      PROVE  Cardinality(since) >= Keep
  <2>1. R \subseteq since
    BY <1>3
  <2>2. Cardinality(R) <= Cardinality(since) /\ Cardinality(since) \in Nat
    BY <2>1, KeysFinite
  <2> QED
    BY <1>3, <2>2, Limits
<1>4. k \notin young => a[k] > TrimAge
  BY Limits
<1>5. \/ R = S \/ R = young
      \/ /\ R \in SUBSET young /\ Cardinality(R) = Keep
         /\ \A x \in R, y \in young \ R : a[x] <= a[y]
  BY DEF Trimmed
<1>6. a[k] > TrimAge \/ Cardinality(since) >= Keep
  BY <1>1, <1>2, <1>3, <1>4, <1>5
<1> QED
  BY <1>6

LEMMA TrimmedTyped ==
    ASSUME NEW S \in SUBSET Keys, NEW a \in [Keys -> 0 .. Horizon], NEW R \in Trimmed(S, a)
    PROVE  R \subseteq S
BY DEF Trimmed

-----------------------------------------------------------------------------
(* The steps that change the marks.                                        *)
LEMMA MarkKeeps ==
    ASSUME MarksTyped, ForgottenOnlyOld, NEW k \in Keys, Mark(k)
    PROVE  MarksTyped' /\ ForgottenOnlyOld'
<1> DEFINE S == recent \cup {k}
<1>1. age' = [age EXCEPT ![k] = 0] /\ recent' \in Trimmed(S, age')
  BY DEF Mark
<1>2. S \in SUBSET Keys
  BY DEF MarksTyped
<1>3. age' \in [Keys -> 0 .. Horizon]
  BY <1>1, Limits DEF MarksTyped
<1>4. recent' \subseteq S
  BY <1>1, <1>2, <1>3, TrimmedTyped
<1>5. MarksTyped'
  BY <1>2, <1>3, <1>4 DEF MarksTyped
<1>6. ASSUME NEW j \in Keys \ recent'
      PROVE  age'[j] > TrimAge \/ Cardinality(Since(j)') >= Keep
  <2>1. CASE j \in S
    <3>1. j \in S \ recent'
      BY <1>6, <2>1
    <3> HIDE DEF S
    <3>2. \A x : x \in Since(j)' <=> x \in Keys /\ x # j /\ age'[x] <= age'[j]
      BY DEF Since
    <3> DEFINE since == Since(j)'
               a == age'
               R == recent'
    <3>3. a \in [Keys -> 0 .. Horizon] /\ R \in Trimmed(S, a) /\ j \in S \ R
      BY <1>1, <1>3, <3>1
    <3>4. \A x : x \in since <=> x \in Keys /\ x # j /\ a[x] <= a[j]
      BY <3>2
    <3> HIDE DEF since, a, R
    <3>5. a[j] > TrimAge \/ Cardinality(since) >= Keep
      BY <1>2, <3>3, <3>4, DroppedOnlyOld
    <3> QED
      BY <3>5 DEF a, since
  <2>2. CASE j \notin S
    <3>1. j \in Keys \ recent /\ age'[j] = age[j]
      BY <1>1, <2>2 DEF MarksTyped
    <3>2. \A x \in Keys : age'[x] <= age[x] \/ x \notin Keys
      BY <1>1, Limits DEF MarksTyped
    <3>3. \A x \in Since(j) : age'[x] <= age'[j]
      <4> SUFFICES ASSUME NEW x \in Keys, age[x] <= age[j] PROVE age'[x] <= age'[j]
        BY DEF Since
      <4>1. age[x] \in Nat /\ age[j] \in Nat /\ age'[x] \in Nat /\ age'[x] <= age[x]
        BY <1>3, <3>2, Limits DEF MarksTyped
      <4> QED
        BY <3>1, <4>1
    <3>4. age[j] <= age'[j]
      BY <3>1, Limits DEF MarksTyped
    <3> QED
      BY <1>5, <3>1, <3>3, <3>4, StaysForgotten
  <2> QED
    BY <2>1, <2>2
<1> QED
  BY <1>5, <1>6 DEF ForgottenOnlyOld

LEMMA MarkDoneKeeps ==
    ASSUME MarksTyped, ForgottenOnlyOld, NEW k \in Others, MarkPrefetchDone(k)
    PROVE  MarksTyped' /\ ForgottenOnlyOld'
<1>1. age' = [age EXCEPT ![k] = 0] /\ recent' = recent \cup {k} /\ k \in Keys
  BY DEF MarkPrefetchDone, Keys
<1>2. MarksTyped'
  BY <1>1, Limits DEF MarksTyped
<1>3. ASSUME NEW j \in Keys \ recent'
      PROVE  age'[j] > TrimAge \/ Cardinality(Since(j)') >= Keep
  <2>1. j \in Keys \ recent /\ age'[j] = age[j] /\ age[j] \in Nat
    BY <1>1, <1>3, Limits DEF MarksTyped
  <2>2. ASSUME NEW x \in Since(j) PROVE age'[x] <= age'[j]
    <3>1. x \in Keys /\ age[x] <= age[j] /\ age[x] \in Nat
      BY <2>2, Limits DEF Since, MarksTyped
    <3>2. age'[x] = age[x] \/ age'[x] = 0
      BY <1>1, <3>1 DEF MarksTyped
    <3> QED
      BY <2>1, <3>1, <3>2
  <2> QED
    BY <1>2, <2>1, <2>2, StaysForgotten
<1> QED
  BY <1>2, <1>3 DEF ForgottenOnlyOld

LEMMA TickKeeps ==
    ASSUME MarksTyped, ForgottenOnlyOld, Tick
    PROVE  MarksTyped' /\ ForgottenOnlyOld'
<1>1. /\ age' = [k \in Keys |-> IF age[k] < Horizon THEN age[k] + 1 ELSE age[k]]
      /\ recent' = recent
  BY DEF Tick
<1>2. MarksTyped'
  BY <1>1, Limits DEF MarksTyped
<1>3. ASSUME NEW j \in Keys \ recent'
      PROVE  age'[j] > TrimAge \/ Cardinality(Since(j)') >= Keep
  <2>1. j \in Keys \ recent /\ age[j] \in 0 .. Horizon
        /\ age'[j] = IF age[j] < Horizon THEN age[j] + 1 ELSE age[j]
    BY <1>1, <1>3 DEF MarksTyped
  <2>2. ASSUME NEW x \in Since(j) PROVE age'[x] <= age'[j]
    <3>1. x \in Keys /\ age[x] <= age[j] /\ age[x] \in 0 .. Horizon
          /\ age'[x] = IF age[x] < Horizon THEN age[x] + 1 ELSE age[x]
      BY <1>1, <2>2 DEF Since, MarksTyped
    <3> QED
      BY <2>1, <3>1, Limits
  <2>3. age[j] <= age'[j]
    BY <2>1, Limits
  <2> QED
    BY <1>2, <2>1, <2>2, <2>3, StaysForgotten
<1> QED
  BY <1>2, <1>3 DEF ForgottenOnlyOld

LEMMA SameMarksKeep ==
    ASSUME MarksTyped, ForgottenOnlyOld, UNCHANGED markVars
    PROVE  MarksTyped' /\ ForgottenOnlyOld'
BY DEF markVars, MarksTyped, ForgottenOnlyOld, Since

LEMMA StartedTyped ==
    ASSUME NEW kind \in {"full", "incremental"}
    PROVE  Started(kind) \in Scan /\ NoScan \in Scan
<1>1. NoScan \in Scan
  BY DEF NoScan, Scan
<1> QED
  BY <1>1 DEF Scan, Started

(* A step of a scan.                                                       *)
LEMMA ScanKeeps ==
    ASSUME TypeOK, ForgottenOnlyOld, ScanStep
    PROVE  TypeOK' /\ ForgottenOnlyOld'
<1>0. MarksTyped /\ RestTyped
  BY TypeParts
<1>1. CASE Prepare \/ ListingFails \/ Answer \/ Finish
  <2>1. UNCHANGED markVars
    BY <1>1 DEF Prepare, ListingFails, Answer, Finish, SameMarks
  <2>2. CASE Prepare
    <3> DEFINE listed == {i \in present : Wanted(i)}
    <3>1. listed \in SUBSET Items /\ NoScan \in Scan
      BY <1>0 DEF RestTyped, Scan, NoScan
    <3>3. scan' = [scan EXCEPT !.phase = "items", !.todo = listed] \/ scan' = NoScan
      BY <2>2 DEF Prepare
    <3> HIDE DEF listed
    <3>4. scan' \in Scan
      BY <1>0, <3>1, <3>3 DEF RestTyped, Scan
    <3>2. RestTyped'
      BY <1>0, <2>2, <3>4 DEF Prepare, RestTyped, SameServer, serverVars, itemVars
    <3> QED
      BY <1>0, <2>1, <3>2, SameMarksKeep, TypeParts
  <2>3. CASE Answer
    <3>1. scan.item \in Items
      BY <1>0, <2>3 DEF Answer, RestTyped, Scan
    <3>2. [scan EXCEPT !.item = NoItem] \in Scan
      BY <1>0 DEF RestTyped, Scan
    <3>3. [[scan EXCEPT !.item = NoItem] EXCEPT !.failed = @ \cup {scan.item}] \in Scan
      <4> DEFINE r == [scan EXCEPT !.item = NoItem]
      <4>1. r \in Scan
        BY <3>2
      <4> HIDE DEF r
      <4>2. [r EXCEPT !.failed = @ \cup {scan.item}] \in Scan
        BY <3>1, <4>1 DEF Scan
      <4> QED
        BY <4>2 DEF r
    <3>4. RestTyped'
      BY <1>0, <2>3, <3>1, <3>2, <3>3 DEF Answer, RestTyped, SameServer, serverVars
    <3> QED
      BY <1>0, <2>1, <3>4, SameMarksKeep, TypeParts
  <2>4. CASE Finish
    <3>1. [scan EXCEPT !.phase = "retry", !.todo = scan.failed, !.failed = {}] \in Scan
      BY <1>0 DEF RestTyped, Scan
    <3>2. NoScan \in Scan
      BY DEF NoScan, Scan
    <3>3. RestTyped'
      BY <1>0, <2>4, <3>1, <3>2 DEF Finish, RestTyped, SameServer, serverVars, itemVars
    <3> QED
      BY <1>0, <2>1, <3>3, SameMarksKeep, TypeParts
  <2>5. CASE ListingFails
    <3>1. PICK lost : scan' = [scan EXCEPT !.todo = @ \ lost]
      BY <2>5 DEF ListingFails
    <3>2. RestTyped'
      BY <1>0, <2>5, <3>1 DEF ListingFails, RestTyped, Scan, SameServer, serverVars, itemVars
    <3> QED
      BY <1>0, <2>1, <3>2, SameMarksKeep, TypeParts
  <2> QED
    BY <1>1, <2>2, <2>3, <2>4, <2>5
<1>2. ASSUME NEW i \in Items, PrefetchItem(i) PROVE TypeOK' /\ ForgottenOnlyOld'
  <2> DEFINE next == [scan EXCEPT !.todo = @ \ {i}]
  <2>1. next \in Scan
    BY <1>0 DEF RestTyped, Scan
  <2>2. [next EXCEPT !.item = i] \in Scan
    <3> HIDE DEF next
    <3> QED
      BY <2>1 DEF Scan
  <2>3. RestTyped'
    BY <1>0, <1>2, <2>1, <2>2 DEF PrefetchItem, RestTyped, SameServer, serverVars, itemVars
  <2>4. Prefix \in Prefixes
    BY DEF Prefix, Prefixes
  <2>5. Mark(<<Prefix, i>>) \/ UNCHANGED markVars
    BY <1>2 DEF PrefetchItem, SameMarks
  <2>6. MarksTyped' /\ ForgottenOnlyOld'
    BY <1>0, <2>4, <2>5, KeysOfItems, MarkKeeps, SameMarksKeep
  <2> QED
    BY <2>3, <2>6, TypeParts
<1> QED
  BY <1>1, <1>2 DEF ScanStep

-----------------------------------------------------------------------------
LEMMA MarksInit == Init => TypeOK /\ ForgottenOnlyOld
<1> SUFFICES ASSUME Init PROVE TypeOK /\ ForgottenOnlyOld
  OBVIOUS
<1>1. NoScan \in Scan
  BY DEF NoScan, Scan
<1>2. RestTyped
  BY <1>1 DEF Init, RestTyped
<1>3. MarksTyped /\ ForgottenOnlyOld
  BY Limits DEF Init, MarksTyped, ForgottenOnlyOld
<1> QED
  BY <1>2, <1>3, TypeParts

LEMMA MarksNext == TypeOK /\ ForgottenOnlyOld /\ [Next]_vars => (TypeOK /\ ForgottenOnlyOld)'
<1> SUFFICES ASSUME TypeOK, ForgottenOnlyOld, [Next]_vars
             PROVE  TypeOK' /\ ForgottenOnlyOld'
  OBVIOUS
<1>0. MarksTyped /\ RestTyped
  BY TypeParts
<1>1. ASSUME NEW k \in Others, Browse(k) \/ MarkPrefetchDone(k)
      PROVE  TypeOK' /\ ForgottenOnlyOld'
  <2>1. RestTyped'
    BY <1>0, <1>1 DEF Browse, MarkPrefetchDone, RestTyped, SameServer, serverVars, itemVars
  <2>2. MarksTyped' /\ ForgottenOnlyOld'
    BY <1>0, <1>1, MarkKeeps, MarkDoneKeeps DEF Browse, Keys
  <2> QED
    BY <2>1, <2>2, TypeParts
<1>2. ASSUME (\E kind \in {"full", "incremental"} : Begin(kind)) \/ NotifyEnd
      PROVE  TypeOK' /\ ForgottenOnlyOld'
  <2>1. scan' \in Scan
    BY <1>0, <1>2, StartedTyped DEF Begin, NotifyEnd, RestTyped
  <2>2. RestTyped' /\ UNCHANGED markVars
    BY <1>0, <1>2, <2>1 DEF Begin, NotifyEnd, RestTyped, SameMarks, SameServer, serverVars, itemVars
  <2> QED
    BY <1>0, <2>2, SameMarksKeep, TypeParts
<1>3. CASE Authorize \/ Reach \/ \E i \in Items : Lose(i) \/ Appear(i)
  <2>1. CASE Authorize \/ Reach \/ \E i \in Items : Lose(i)
    <3>1. RestTyped' /\ UNCHANGED markVars
      BY <1>0, <2>1 DEF Authorize, Reach, Lose, RestTyped, SameMarks, SameServer, serverVars, itemVars
    <3> QED
      BY <1>0, <3>1, SameMarksKeep, TypeParts
  <2>2. ASSUME NEW i \in Items, Appear(i) PROVE TypeOK' /\ ForgottenOnlyOld'
    <3>1. [scan EXCEPT !.todo = @ \cup {i}] \in Scan
      BY <1>0 DEF RestTyped, Scan
    <3>2. RestTyped' /\ UNCHANGED markVars
      BY <1>0, <2>2, <3>1 DEF Appear, RestTyped, SameMarks, itemVars
    <3> QED
      BY <1>0, <3>2, SameMarksKeep, TypeParts
  <2> QED
    BY <1>3, <2>1, <2>2
<1>4. CASE Tick
  <2>1. RestTyped'
    BY <1>0, <1>4 DEF Tick, RestTyped, SameServer, serverVars, itemVars
  <2> QED
    BY <1>0, <1>4, <2>1, TickKeeps, TypeParts
<1>5. CASE UNCHANGED vars
  <2>1. RestTyped'
    BY <1>0, <1>5 DEF vars, RestTyped, serverVars, itemVars
  <2> QED
    BY <1>0, <1>5, <2>1, SameMarksKeep, TypeParts DEF vars
<1> QED
  BY <1>1, <1>2, <1>3, <1>4, <1>5, ScanKeeps DEF Next

(* The type invariant, for any limits.                                     *)
THEOREM TypeCorrect == Spec => []TypeOK
BY MarksInit, MarksNext, PTL DEF Spec

(* A mark that is gone was older than TrimAge, or Keep other keys have been *)
(* marked since, for the limits of the code and any others, and however many *)
(* callers mark and trim (server.go:1208-1255).                            *)
THEOREM ForgottenLate == Spec => []ForgottenOnlyOld
BY MarksInit, MarksNext, PTL DEF Spec

=============================================================================

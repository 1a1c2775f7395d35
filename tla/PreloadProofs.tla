---------------------------- MODULE PreloadProofs ----------------------------
(***************************************************************************)
(* Proofs about Preload for any number of threads, files and channels.     *)
(* The argument has these layers.                                          *)
(*                                                                         *)
(*   Types.                                                                *)
(*                                                                         *)
(*   Ownership: every claimed path has one owner, a handler that has not   *)
(*   yet sent its task, a place in a queue, or a runner.  So nobody but    *)
(*   the owner writes inflight[path].                                      *)
(*                                                                         *)
(*   Channels: while it executes, the owner's local doneCh is the channel  *)
(*   in the map; after it has taken the channel out, it alone knows it.    *)
(*                                                                         *)
(*   Refinement: every step is a step of SingleFlight, or changes none of  *)
(*   its variables.                                                        *)
(***************************************************************************)
EXTENDS Preload, TLAPS

(***************************************************************************)
(* Types.  What a thread that is at work has in its locals, and what a     *)
(* step that rewrites the state of one thread does to the whole.           *)
(***************************************************************************)
CallersOK == caller \in [Callers -> CallerState]
RunsOK    == run \in [Runners -> RunState]
ReqsOK    == req \in [Requests -> ReqState]

(* A thread that is at work works on a source.                              *)
LEMMA Active ==
    ASSUME CallersOK, RunsOK, ReqsOK
    PROVE  /\ \A k \in Callers : caller[k].pc # "idle" => caller[k].ms \in Sources
           /\ \A r \in Runners : run[r].pc \in Executing \cup {"close"} =>
                 run[r].ms \in Sources /\ run[r].done \in Chans \cup {NoChan}
           /\ \A q \in Requests : req[q].pc # "idle" => req[q].ms \in Sources
<1>1. ASSUME NEW x \in CallerState, x.pc # "idle" PROVE x.ms \in Sources
  BY <1>1 DEF CallerState, CallerIdle
<1>2. ASSUME NEW x \in RunState, x.pc \in Executing \cup {"close"}
      PROVE  x.ms \in Sources /\ x.done \in Chans \cup {NoChan}
  BY <1>2 DEF RunState, RunIdle, Executing
<1>3. ASSUME NEW x \in ReqState, x.pc # "idle" PROVE x.ms \in Sources
  BY <1>3 DEF ReqState, ReqIdle
<1>4. QED
  BY <1>1, <1>2, <1>3 DEF CallersOK, RunsOK, ReqsOK

(* A handler goes on to another step, or returns.                           *)
LEMMA CallerStep ==
    ASSUME CallersOK, NEW k \in Callers, NEW s \in Sources,
           NEW pc \in {"syncClaim", "media", "send", "drop"},
           CallerTo(k, pc, s) \/ CallerDone(k)
    PROVE  CallersOK'
<1>1. [pc |-> pc, ms |-> s] \in CallerState
  BY DEF CallerState
<1>2. CallerIdle \in CallerState
  BY DEF CallerState
<1>3. QED
  BY <1>1, <1>2 DEF CallersOK, CallerTo, CallerDone

(* A worker or goroutine starts a task, goes on with it, or ends.           *)
LEMMA RunStep ==
    ASSUME RunsOK, NEW r \in Runners, NEW s \in Sources, NEW c \in Chans \cup {NoChan},
           \/ \E pc \in {"check", "resolve", "delete", "close"} : RunTo(r, pc, s, c)
           \/ Start(r, s)
    PROVE  RunsOK'
<1>1. \A pc \in {"check", "resolve", "delete", "close"} :
         [pc |-> pc, ms |-> s, done |-> c] \in RunState
  BY DEF RunState
<1>2. [pc |-> "start", ms |-> s, done |-> NoChan] \in RunState
  BY DEF RunState
<1>3. QED
  BY <1>1, <1>2 DEF RunsOK, RunTo, Start

LEMMA RunEnd ==
    ASSUME RunsOK, NEW r \in Runners,
           \E pc \in {"gone", "poll", "select"} : RunDone(r, pc)
    PROVE  RunsOK'
<1>1. \A pc \in {"gone", "poll", "select"} : RunIdle(pc) \in RunState
  BY DEF RunState
<1>2. QED
  BY <1>1 DEF RunsOK, RunDone

(* A request looks for a promise, waits for it, resolves, or ends.          *)
LEMMA ReqStep ==
    ASSUME ReqsOK, NEW q \in Requests, NEW s \in Sources,
           \/ \E pc \in {"fgLookup", "fgResolve", "bgLookup"} : ReqTo(q, pc, s, NoChan)
           \/ \E pc \in WaitPC, c \in Chans : ReqTo(q, pc, s, c)
    PROVE  ReqsOK'
<1>1. \A pc \in {"fgLookup", "fgResolve", "bgLookup"} :
         [pc |-> pc, ms |-> s, ch |-> NoChan] \in ReqState
  BY DEF ReqState
<1>2. \A pc \in WaitPC, c \in Chans : [pc |-> pc, ms |-> s, ch |-> c] \in ReqState
  BY DEF ReqState
<1>3. QED
  BY <1>1, <1>2 DEF ReqsOK, ReqTo

LEMMA ReqEnd ==
    ASSUME ReqsOK, NEW q \in Requests, ReqDone(q)
    PROVE  ReqsOK'
<1>1. ReqIdle \in ReqState
  BY DEF ReqState
<1>2. QED
  BY <1>1 DEF ReqsOK, ReqDone

FlightOK == /\ inflight \in [Paths -> Chans \cup {NoChan}]
            /\ closed \subseteq Chans /\ dropped \subseteq Chans
QueuesOK == /\ highQ \in Seq(Sources) /\ Len(highQ) <= HighCap
            /\ normalQ \in Seq(Sources) /\ Len(normalQ) <= NormalCap

(* A claim, and giving the path back.                                       *)
LEMMA FlightStep ==
    ASSUME FlightOK, NEW p \in Paths, NEW c \in Chans,
           \/ Claim(p, c)
           \/ /\ inflight' = [inflight EXCEPT ![p] = NoChan]
              /\ closed' = closed
              /\ dropped' \in {dropped, dropped \cup ({inflight[p]} \ {NoChan})}
    PROVE  FlightOK'
BY DEF FlightOK, Claim

(* The path of a source is one of the paths.                                *)
LEMMA PathOfSource == \A s \in Sources : PathOf[s] \in Paths
BY PathsAssumption

LEMMA TypeParts ==
    TypeOK <=> /\ FlightOK /\ QueuesOK
               /\ streams \subseteq Sources /\ shutdown \in BOOLEAN
               /\ CallersOK /\ RunsOK /\ ReqsOK
BY DEF TypeOK, FlightOK, QueuesOK, CallersOK, RunsOK, ReqsOK

LEMMA TypePartsNext ==
    TypeOK' <=> /\ FlightOK' /\ QueuesOK'
                /\ streams' \subseteq Sources /\ shutdown' \in BOOLEAN
                /\ CallersOK' /\ RunsOK' /\ ReqsOK'
BY DEF TypeOK, FlightOK, QueuesOK, CallersOK, RunsOK, ReqsOK

LEMMA TypeInit == Init => TypeOK
<1> SUFFICES ASSUME Init PROVE TypeOK
  OBVIOUS
<1>1. FlightOK /\ streams \subseteq Sources /\ shutdown \in BOOLEAN
  BY DEF Init, FlightOK
<1>2. QueuesOK
  BY CapAssumption DEF Init, QueuesOK
<1>3. CallersOK
  BY DEF Init, CallersOK, CallerState
<1>4. RunsOK
  <2>1. RunIdle("poll") \in RunState /\ RunIdle("gone") \in RunState
    BY DEF RunState
  <2>2. QED
    BY <2>1 DEF Init, RunsOK
<1>5. ReqsOK
  BY DEF Init, ReqsOK, ReqState
<1>6. QED
  BY <1>1, <1>2, <1>3, <1>4, <1>5, TypeParts

(* The parts that a step leaves alone.                                      *)
LEMMA TypeUnchanged ==
    ASSUME TypeOK
    PROVE  /\ (UNCHANGED flightVars) => FlightOK'
           /\ (UNCHANGED queueVars) => QueuesOK'
           /\ (UNCHANGED caller) => CallersOK'
           /\ (UNCHANGED run) => RunsOK'
           /\ (UNCHANGED req) => ReqsOK'
BY TypeParts DEF flightVars, queueVars, FlightOK, QueuesOK, CallersOK, RunsOK, ReqsOK

LEMMA TypeCaller ==
    ASSUME TypeOK, NEW k \in Callers, SyncRead(k) \/ Call(k)
    PROVE  TypeOK'
<1> USE TypeParts, TypePartsNext, TypeUnchanged
<1>0. caller[k].pc # "idle" => caller[k].ms \in Sources
  BY Active
<1>1. CASE SyncRead(k)
  <2>1. PICK s \in Sources : \E pc \in {"syncClaim", "media"} : CallerTo(k, pc, s)
            /\ streams' \in {streams, streams \cup {s}}
    BY <1>1 DEF SyncRead
  <2>2. CallersOK'
    BY <2>1, CallerStep
  <2>3. QED
    BY <1>1, <2>1, <2>2 DEF SyncRead
<1>2. CASE SyncClaim(k)
  <2> DEFINE s == caller[k].ms
  <2>1. s \in Sources /\ CallerTo(k, "media", s)
    BY <1>0, <1>2 DEF SyncClaim
  <2>2. CallersOK'
    BY <2>1, CallerStep
  <2>3. FlightOK' /\ RunsOK'
    <3>1. CASE UNCHANGED <<flightVars, run>>
      BY <3>1
    <3>2. CASE \E c \in Chans : Claim(PathOf[s], c) /\ Start(c, s)
      <4>1. PICK c \in Chans : Claim(PathOf[s], c) /\ Start(c, s)
        BY <3>2
      <4>2. FlightOK'
        BY <2>1, <4>1, PathOfSource, FlightStep
      <4>3. RunsOK'
        BY <2>1, <4>1, RunStep DEF Runners
      <4>4. QED
        BY <4>2, <4>3
    <3>3. QED
      BY <1>2, <3>1, <3>2 DEF SyncClaim
  <2>4. QED
    BY <1>2, <2>2, <2>3 DEF SyncClaim
<1>3. CASE MediaClaim(k)
  <2>1. caller[k].ms \in Sources
    BY <1>0, <1>3 DEF MediaClaim
  <2>2. CallersOK'
    BY <1>3, <2>1, CallerStep DEF MediaClaim
  <2>3. FlightOK'
    BY <1>3, <2>1, PathOfSource, FlightStep DEF MediaClaim
  <2>4. QED
    BY <1>3, <2>2, <2>3 DEF MediaClaim
<1>4. CASE MediaSend(k)
  <2>1. caller[k].ms \in Sources
    BY <1>0, <1>4 DEF MediaSend
  <2>2. CallersOK'
    BY <1>4, <2>1, CallerStep DEF MediaSend
  <2>3. QueuesOK'
    <3> USE <2>1, CapAssumption DEF QueuesOK
    <3>1. CASE highQ' = Append(highQ, caller[k].ms) /\ Len(highQ) < HighCap /\ UNCHANGED normalQ
      BY <3>1
    <3>2. CASE normalQ' = Append(normalQ, caller[k].ms) /\ Len(normalQ) < NormalCap /\ UNCHANGED highQ
      BY <3>2
    <3>3. CASE UNCHANGED queueVars
      BY <3>3
    <3>4. QED
      BY <1>4, <3>1, <3>2, <3>3 DEF MediaSend
  <2>4. QED
    BY <1>4, <2>2, <2>3 DEF MediaSend
<1>5. CASE MediaDrop(k)
  <2>1. caller[k].ms \in Sources
    BY <1>0, <1>5 DEF MediaDrop
  <2>2. CallersOK'
    BY <1>5, <2>1, CallerStep DEF MediaDrop
  <2>3. FlightOK'
    BY <1>5, <2>1, PathOfSource DEF MediaDrop, FlightOK
  <2>4. QED
    BY <1>5, <2>2, <2>3 DEF MediaDrop
<1>6. QED
  BY <1>1, <1>2, <1>3, <1>4, <1>5 DEF Call

(* A task goes on: only its runner and the parts named here change.          *)
LEMMA TypeRunner ==
    ASSUME TypeOK, NEW r \in Runners, Work(r)
    PROVE  TypeOK'
<1> USE TypeParts, TypePartsNext, TypeUnchanged
<1> DEFINE s == run[r].ms
           d == run[r].done
<1>0. s \in Sources /\ d \in Chans \cup {NoChan} /\ PathOf[s] \in Paths
  BY Active, PathOfSource DEF Work, ExecStart, ExecCheck, ExecResolve, ExecDelete,
     ExecClose, Executing
<1> HIDE DEF s, d
<1>1. CASE ExecStart(r)
  <2>1. inflight[PathOf[s]] \in Chans \cup {NoChan}
    BY <1>0 DEF FlightOK
  <2>2. RunTo(r, "check", s, inflight[PathOf[s]])
    BY <1>1 DEF ExecStart, PathOfRun, s
  <2>3. RunsOK'
    BY <1>0, <2>1, <2>2, RunStep
  <2>4. QED
    BY <1>1, <2>3 DEF ExecStart
<1>2. CASE ExecCheck(r)
  <2>1. \E pc \in {"check", "resolve", "delete", "close"} : RunTo(r, pc, s, d)
    BY <1>2 DEF ExecCheck, s, d
  <2>2. RunsOK'
    BY <1>0, <2>1, RunStep
  <2>3. streams' \in {streams, streams \cup {s}}
    BY <1>2 DEF ExecCheck, s
  <2>4. QED
    BY <1>0, <1>2, <2>2, <2>3 DEF ExecCheck
<1>3. CASE ExecResolve(r)
  <2>1. RunTo(r, "delete", s, d) /\ streams' \in {streams, streams \cup {s}}
    BY <1>3 DEF ExecResolve, s, d
  <2>2. RunsOK'
    BY <1>0, <2>1, RunStep
  <2>3. QED
    BY <1>0, <1>3, <2>1, <2>2 DEF ExecResolve
<1>4. CASE ExecDelete(r)
  <2>1. RunTo(r, "close", s, d)
    BY <1>4 DEF ExecDelete, s, d
  <2>2. RunsOK'
    BY <1>0, <2>1, RunStep
  <2>3. FlightOK'
    BY <1>4 DEF ExecDelete, FlightOK
  <2>4. QED
    BY <1>4, <2>2, <2>3 DEF ExecDelete
<1>5. CASE ExecClose(r)
  <2>1. RunsOK'
    BY <1>5, RunEnd DEF ExecClose
  <2>2. FlightOK'
    BY <1>0, <1>5 DEF ExecClose, FlightOK, d
  <2>3. QED
    BY <1>5, <2>1, <2>2 DEF ExecClose
<1>6. QED
  BY <1>1, <1>2, <1>3, <1>4, <1>5 DEF Work

LEMMA TypeWorker ==
    ASSUME TypeOK, NEW w \in Workers, WorkerPoll(w) \/ WorkerSelect(w)
    PROVE  TypeOK'
<1> USE TypeParts, TypePartsNext, TypeUnchanged
<1>0. w \in Runners /\ highQ \in Seq(Sources) /\ normalQ \in Seq(Sources)
  BY DEF Runners, QueuesOK
<1>1. highQ # <<>> => Head(highQ) \in Sources /\ Tail(highQ) \in Seq(Sources)
                      /\ Len(Tail(highQ)) <= HighCap
  BY CapAssumption DEF QueuesOK
<1>2. normalQ # <<>> => Head(normalQ) \in Sources /\ Tail(normalQ) \in Seq(Sources)
                        /\ Len(Tail(normalQ)) <= NormalCap
  BY CapAssumption DEF QueuesOK
<1>3. RunsOK'
  <2>1. CASE \E pc \in {"gone", "poll", "select"} : RunDone(w, pc)
    BY <1>0, <2>1, RunEnd
  <2>2. CASE highQ # <<>> /\ Start(w, Head(highQ))
    BY <1>0, <1>1, <2>2, RunStep
  <2>3. CASE normalQ # <<>> /\ Start(w, Head(normalQ))
    BY <1>0, <1>2, <2>3, RunStep
  <2>4. QED
    BY <2>1, <2>2, <2>3 DEF WorkerPoll, WorkerSelect
<1>4. QueuesOK'
  BY <1>1, <1>2 DEF WorkerPoll, WorkerSelect, QueuesOK, queueVars
<1>5. QED
  BY <1>3, <1>4 DEF WorkerPoll, WorkerSelect

LEMMA TypeRequest ==
    ASSUME TypeOK, NEW q \in Requests,
           \/ FgBegin(q) \/ BgBegin(q) \/ Wait(q) \/ FgTimeout(q) \/ BgTimeout(q)
    PROVE  TypeOK'
<1> USE TypeParts, TypePartsNext, TypeUnchanged
<1>0. req[q].pc # "idle" => req[q].ms \in Sources
  BY Active
<1>1. CASE FgBegin(q) \/ BgBegin(q)
  <2>1. PICK s \in Sources : \/ streams' = streams \cup {s} /\ UNCHANGED req
                             \/ /\ streams' = streams
                                /\ \E pc \in {"fgLookup", "bgLookup"} : ReqTo(q, pc, s, NoChan)
    BY <1>1 DEF FgBegin, BgBegin
  <2>2. ReqsOK'
    BY <2>1, ReqStep
  <2>3. QED
    BY <1>1, <2>1, <2>2 DEF FgBegin, BgBegin
<1>2. CASE FgLookup(q) \/ BgLookup(q)
  <2>1. req[q].ms \in Sources
    BY <1>0, <1>2 DEF FgLookup, BgLookup
  <2>2. inflight[PathOfReq(q)] \in Chans \cup {NoChan}
    BY <2>1, PathOfSource DEF PathOfReq, FlightOK
  <2>3. ReqsOK'
    BY <1>2, <2>1, <2>2, ReqStep, ReqEnd DEF FgLookup, BgLookup, WaitPC
  <2>4. QED
    BY <1>2, <2>3 DEF FgLookup, BgLookup
<1>3. CASE FgWake(q) \/ FgTimeout(q) \/ BgWake(q) \/ BgTimeout(q) \/ FgResolve(q)
  <2>1. req[q].ms \in Sources
    BY <1>0, <1>3 DEF FgWake, FgTimeout, BgWake, BgTimeout, FgResolve
  <2>2. ReqDone(q) \/ ReqTo(q, "fgResolve", req[q].ms, NoChan)
    BY <1>3 DEF FgWake, FgTimeout, BgWake, BgTimeout, FgResolve
  <2>3. ReqsOK'
    BY <2>1, <2>2, ReqStep, ReqEnd
  <2>4. QED
    BY <1>3, <2>1, <2>3 DEF FgWake, FgTimeout, BgWake, BgTimeout, FgResolve
<1>4. QED
  BY <1>1, <1>2, <1>3 DEF Wait

(* Every variable keeps its type, whatever the interleaving of handlers,     *)
(* workers, preload goroutines and stream requests; in particular the        *)
(* queues never exceed the capacity they were made with                      *)
(* (stream.go:248-249).                                                      *)
LEMMA TypeNext == TypeOK /\ [Next]_vars => TypeOK'
<1> SUFFICES ASSUME TypeOK, [Next]_vars PROVE TypeOK'
  OBVIOUS
<1> USE TypeParts, TypePartsNext, TypeUnchanged
<1>1. CASE Lose
  BY <1>1 DEF Lose
<1>2. CASE Stop
  BY <1>2 DEF Stop
<1>3. CASE UNCHANGED vars
  BY <1>3 DEF vars
<1>4. QED
  BY <1>1, <1>2, <1>3, TypeCaller, TypeRunner, TypeWorker, TypeRequest DEF Next

THEOREM TypeCorrect == Spec => []TypeOK
BY TypeInit, TypeNext, PTL DEF Spec

-----------------------------------------------------------------------------
(* Ownership and channels.                                                  *)

CallerOwns(k, p) == caller[k].pc \in {"send", "drop"} /\ PathOf[caller[k].ms] = p
HighOwns(i, p)   == PathOf[highQ[i]] = p
NormalOwns(i, p) == PathOf[normalQ[i]] = p
RunOwns(r, p)    == run[r].pc \in Executing /\ PathOf[run[r].ms] = p

HighPlaces   == 1..Len(highQ)
NormalPlaces == 1..Len(normalQ)

(* Only a claimed path has an owner ...                                     *)
OwnedIsClaimed ==
    /\ \A k \in Callers, p \in Paths : CallerOwns(k, p) => inflight[p] # NoChan
    /\ \A i \in HighPlaces, p \in Paths : HighOwns(i, p) => inflight[p] # NoChan
    /\ \A i \in NormalPlaces, p \in Paths : NormalOwns(i, p) => inflight[p] # NoChan
    /\ \A r \in Runners, p \in Paths : RunOwns(r, p) => inflight[p] # NoChan

(* ... every claimed path has one ...                                       *)
ClaimedIsOwned ==
    \A p \in Paths : inflight[p] # NoChan =>
        \/ \E k \in Callers : CallerOwns(k, p)
        \/ \E i \in HighPlaces : HighOwns(i, p)
        \/ \E i \in NormalPlaces : NormalOwns(i, p)
        \/ \E r \in Runners : RunOwns(r, p)

(* ... and no two, of the same kind or of different kinds.                  *)
UniqueInKind ==
    \A p \in Paths :
        /\ \A k, l \in Callers : CallerOwns(k, p) /\ CallerOwns(l, p) => k = l
        /\ \A i, j \in HighPlaces : HighOwns(i, p) /\ HighOwns(j, p) => i = j
        /\ \A i, j \in NormalPlaces : NormalOwns(i, p) /\ NormalOwns(j, p) => i = j
        /\ \A r, o \in Runners : RunOwns(r, p) /\ RunOwns(o, p) => r = o

UniqueAmongKinds ==
    \A p \in Paths :
        /\ \A k \in Callers : CallerOwns(k, p) =>
              /\ \A i \in HighPlaces : ~HighOwns(i, p)
              /\ \A i \in NormalPlaces : ~NormalOwns(i, p)
              /\ \A r \in Runners : ~RunOwns(r, p)
        /\ \A i \in HighPlaces : HighOwns(i, p) =>
              /\ \A j \in NormalPlaces : ~NormalOwns(j, p)
              /\ \A r \in Runners : ~RunOwns(r, p)
        /\ \A i \in NormalPlaces : NormalOwns(i, p) =>
              \A r \in Runners : ~RunOwns(r, p)

Ownership == OwnedIsClaimed /\ ClaimedIsOwned /\ UniqueInKind /\ UniqueAmongKinds

LEMMA OwnershipInit == Init => Ownership
BY DEF Init, Ownership, OwnedIsClaimed, ClaimedIsOwned, UniqueInKind, UniqueAmongKinds,
       CallerOwns, HighOwns, NormalOwns, RunOwns, HighPlaces, NormalPlaces,
       CallerIdle, RunIdle, Executing

(* A step that changes no owner and no claim.                               *)
LEMMA SameOwners ==
    ASSUME Ownership, UNCHANGED <<inflight, highQ, normalQ>>,
           \A k \in Callers, p \in Paths : CallerOwns(k, p)' <=> CallerOwns(k, p),
           \A r \in Runners, p \in Paths : RunOwns(r, p)' <=> RunOwns(r, p)
    PROVE  Ownership'
BY DEF Ownership, OwnedIsClaimed, ClaimedIsOwned, UniqueInKind, UniqueAmongKinds,
       HighOwns, NormalOwns, HighPlaces, NormalPlaces

(* What a claim does to the map: the path was free, and only it changes.    *)
LEMMA ClaimFrame ==
    ASSUME TypeOK, NEW p \in Paths, NEW c \in Chans, Claim(p, c)
    PROVE  /\ inflight'[p] = c /\ c # NoChan
           /\ \A o \in Paths \ {p} : inflight'[o] = inflight[o]
           /\ \A o \in Paths : inflight[o] # c
           /\ \A r \in Runners : run[r].done # c
           /\ \A q \in Requests : req[q].ch # c
           /\ run[c].pc = "gone"
BY ChansAssumption DEF TypeOK, Claim, Fresh

LEMMA OwnershipCaller ==
    ASSUME TypeOK, Ownership, NEW k \in Callers, SyncRead(k) \/ Call(k)
    PROVE  Ownership'
<1> DEFINE s == caller[k].ms
           p == PathOf[s]
<1>0. caller[k].pc # "idle" => s \in Sources /\ p \in Paths
  BY Active, TypeParts, PathOfSource
<1>t. caller \in [Callers -> CallerState] /\ run \in [Runners -> RunState]
  BY DEF TypeOK
<1>1. CASE SyncRead(k)
  <2>0. caller[k].pc = "idle"
    BY <1>1 DEF SyncRead
  <2>1. PICK s1 \in Sources : CallerTo(k, "syncClaim", s1) \/ CallerTo(k, "media", s1)
    BY <1>1 DEF SyncRead
  <2>2. \A l \in Callers, o \in Paths : CallerOwns(l, o)' <=> CallerOwns(l, o)
    BY <2>0, <2>1, <1>t DEF CallerTo, CallerDone, CallerOwns
  <2>3. QED
    BY <1>1, <2>2, SameOwners DEF SyncRead, flightVars, queueVars, RunOwns
<1>2. CASE SyncClaim(k)
  <2>0. /\ s \in Sources /\ p \in Paths /\ caller[k].pc = "syncClaim"
        /\ CallerTo(k, "media", s) /\ UNCHANGED queueVars
    BY <1>0, <1>2 DEF SyncClaim
  <2>1. \A l \in Callers, o \in Paths : CallerOwns(l, o)' <=> CallerOwns(l, o)
    BY <2>0, <1>t DEF CallerTo, CallerDone, CallerOwns
  <2>2. CASE UNCHANGED <<flightVars, run>>
    BY <2>0, <2>1, <2>2, SameOwners DEF flightVars, queueVars, RunOwns
  <2>3. CASE inflight[p] = NoChan /\ \E c \in Chans : Claim(p, c) /\ Start(c, s)
    <3>1. PICK c \in Chans : Claim(p, c) /\ Start(c, s)
      BY <2>3
    <3>2. c \in Runners /\ RunTo(c, "start", s, NoChan)
      BY <3>1 DEF Runners, Start
    <3>3. run[c].pc = "gone" /\ run'[c] = [pc |-> "start", ms |-> s, done |-> NoChan]
      BY <1>t, <2>0, <3>1, <3>2, ClaimFrame DEF RunTo
    <3>4. \A r \in Runners \ {c} : run'[r] = run[r]
      BY <1>t, <3>2 DEF RunTo
    <3>5. \A r \in Runners, o \in Paths : RunOwns(r, o)' <=> RunOwns(r, o) \/ (r = c /\ o = p)
      BY <3>2, <3>3, <3>4 DEF RunOwns, Executing
    <3>6. /\ inflight[p] = NoChan /\ inflight'[p] # NoChan
          /\ \A o \in Paths \ {p} : inflight'[o] = inflight[o]
      BY <2>0, <2>3, <3>1, ClaimFrame
    <3>7. /\ HighPlaces' = HighPlaces /\ NormalPlaces' = NormalPlaces
          /\ \A i \in HighPlaces, o \in Paths : HighOwns(i, o)' <=> HighOwns(i, o)
          /\ \A i \in NormalPlaces, o \in Paths : NormalOwns(i, o)' <=> NormalOwns(i, o)
      BY <2>0 DEF HighOwns, NormalOwns, HighPlaces, NormalPlaces, queueVars
    <3> HIDE DEF s, p
    <3>8. OwnedIsClaimed'
      BY <2>0, <2>1, <3>5, <3>6, <3>7 DEF Ownership, OwnedIsClaimed
    <3>9. ClaimedIsOwned'
      BY <2>0, <2>1, <3>2, <3>5, <3>6, <3>7 DEF Ownership, ClaimedIsOwned
    <3>10. UniqueInKind'
      BY <2>0, <2>1, <3>5, <3>6, <3>7 DEF Ownership, OwnedIsClaimed, UniqueInKind
    <3>11. UniqueAmongKinds'
      BY <2>0, <2>1, <3>5, <3>6, <3>7 DEF Ownership, OwnedIsClaimed, UniqueAmongKinds
    <3>12. QED
      BY <3>8, <3>9, <3>10, <3>11 DEF Ownership
  <2>4. QED
    BY <1>2, <2>2, <2>3 DEF SyncClaim
<1>3. CASE MediaClaim(k)
  <2>0. /\ s \in Sources /\ p \in Paths /\ caller[k].pc = "media"
        /\ UNCHANGED <<queueVars, run>>
    BY <1>0, <1>3 DEF MediaClaim
  <2>1. CASE CallerDone(k) /\ UNCHANGED flightVars
    <3>1. \A l \in Callers, o \in Paths : CallerOwns(l, o)' <=> CallerOwns(l, o)
      BY <2>0, <2>1, <1>t DEF CallerTo, CallerDone, CallerOwns, CallerIdle
    <3>2. QED
      BY <2>0, <2>1, <3>1, SameOwners DEF flightVars, queueVars, RunOwns
  <2>2. CASE inflight[p] = NoChan /\ CallerTo(k, "send", s) /\ \E c \in Chans : Claim(p, c)
    <3>1. PICK c \in Chans : Claim(p, c)
      BY <2>2
    <3>2. \A l \in Callers, o \in Paths :
             CallerOwns(l, o)' <=> CallerOwns(l, o) \/ (l = k /\ o = p)
      BY <2>0, <2>2, <1>t DEF CallerTo, CallerDone, CallerOwns
    <3>3. /\ inflight[p] = NoChan /\ inflight'[p] # NoChan
          /\ \A o \in Paths \ {p} : inflight'[o] = inflight[o]
      BY <2>0, <2>2, <3>1, ClaimFrame
    <3>4. /\ HighPlaces' = HighPlaces /\ NormalPlaces' = NormalPlaces
          /\ \A i \in HighPlaces, o \in Paths : HighOwns(i, o)' <=> HighOwns(i, o)
          /\ \A i \in NormalPlaces, o \in Paths : NormalOwns(i, o)' <=> NormalOwns(i, o)
          /\ \A r \in Runners, o \in Paths : RunOwns(r, o)' <=> RunOwns(r, o)
      BY <2>0 DEF HighOwns, NormalOwns, HighPlaces, NormalPlaces, RunOwns, queueVars
    <3> HIDE DEF s, p
    <3>5. OwnedIsClaimed'
      BY <2>0, <3>2, <3>3, <3>4 DEF Ownership, OwnedIsClaimed
    <3>6. ClaimedIsOwned'
      BY <2>0, <3>2, <3>3, <3>4 DEF Ownership, ClaimedIsOwned
    <3>7. UniqueInKind'
      BY <2>0, <3>2, <3>3, <3>4 DEF Ownership, OwnedIsClaimed, UniqueInKind
    <3>8. UniqueAmongKinds'
      BY <2>0, <3>2, <3>3, <3>4 DEF Ownership, OwnedIsClaimed, UniqueAmongKinds
    <3>9. QED
      BY <3>5, <3>6, <3>7, <3>8 DEF Ownership
  <2>3. QED
    BY <1>3, <2>1, <2>2 DEF MediaClaim
<1>4. CASE MediaSend(k)
  <2>0. /\ s \in Sources /\ p \in Paths /\ UNCHANGED <<inflight, run>>
        /\ CallerOwns(k, p) /\ \A o \in Paths : CallerOwns(k, o) => o = p
        /\ highQ \in Seq(Sources) /\ normalQ \in Seq(Sources)
    BY <1>0, <1>4 DEF MediaSend, flightVars, CallerOwns, TypeOK
  <2>1. CASE CallerTo(k, "drop", s) /\ UNCHANGED queueVars
    <3>1. \A l \in Callers, o \in Paths : CallerOwns(l, o)' <=> CallerOwns(l, o)
      BY <1>4, <2>0, <2>1, <1>t DEF CallerTo, CallerDone, MediaSend, CallerOwns
    <3>2. QED
      BY <2>0, <2>1, <3>1, SameOwners DEF queueVars, RunOwns
  <2>2. ASSUME CallerDone(k)
        PROVE  \A l \in Callers, o \in Paths : CallerOwns(l, o)' <=> CallerOwns(l, o) /\ l # k
    BY <2>2, <1>t DEF CallerTo, CallerDone, CallerOwns, CallerIdle
  <2>3. CASE highQ' = Append(highQ, s) /\ CallerDone(k) /\ UNCHANGED normalQ
    <3>1. /\ HighPlaces' = HighPlaces \cup {Len(highQ) + 1}
          /\ \A i \in HighPlaces : highQ'[i] = highQ[i]
          /\ highQ'[Len(highQ) + 1] = s
          /\ Len(highQ) + 1 \notin HighPlaces
      BY <2>0, <2>3 DEF HighPlaces
    <3>2. \A i \in HighPlaces', o \in Paths :
             HighOwns(i, o)' <=> (i \in HighPlaces /\ HighOwns(i, o))
                                    \/ (i = Len(highQ) + 1 /\ o = p)
      BY <3>1 DEF HighOwns
    <3>3. /\ NormalPlaces' = NormalPlaces
          /\ \A i \in NormalPlaces, o \in Paths : NormalOwns(i, o)' <=> NormalOwns(i, o)
          /\ \A r \in Runners, o \in Paths : RunOwns(r, o)' <=> RunOwns(r, o)
      BY <2>0, <2>3 DEF NormalOwns, NormalPlaces, RunOwns
    <3>4. \A l \in Callers, o \in Paths : CallerOwns(l, o)' <=> CallerOwns(l, o) /\ l # k
      BY <2>2, <2>3
    <3> HIDE DEF s, p
    <3>5. OwnedIsClaimed'
      BY <2>0, <3>1, <3>2, <3>3, <3>4 DEF Ownership, OwnedIsClaimed
    <3>6. ClaimedIsOwned'
      BY <2>0, <3>1, <3>2, <3>3, <3>4 DEF Ownership, ClaimedIsOwned
    <3>7. UniqueInKind'
      BY <2>0, <3>1, <3>2, <3>3, <3>4 DEF Ownership, UniqueInKind, UniqueAmongKinds
    <3>8. UniqueAmongKinds'
      BY <2>0, <3>1, <3>2, <3>3, <3>4 DEF Ownership, UniqueInKind, UniqueAmongKinds
    <3>9. QED
      BY <3>5, <3>6, <3>7, <3>8 DEF Ownership
  <2>4. CASE normalQ' = Append(normalQ, s) /\ CallerDone(k) /\ UNCHANGED highQ
    <3>1. /\ NormalPlaces' = NormalPlaces \cup {Len(normalQ) + 1}
          /\ \A i \in NormalPlaces : normalQ'[i] = normalQ[i]
          /\ normalQ'[Len(normalQ) + 1] = s
          /\ Len(normalQ) + 1 \notin NormalPlaces
      BY <2>0, <2>4 DEF NormalPlaces
    <3>2. \A i \in NormalPlaces', o \in Paths :
             NormalOwns(i, o)' <=> (i \in NormalPlaces /\ NormalOwns(i, o))
                                      \/ (i = Len(normalQ) + 1 /\ o = p)
      BY <3>1 DEF NormalOwns
    <3>3. /\ HighPlaces' = HighPlaces
          /\ \A i \in HighPlaces, o \in Paths : HighOwns(i, o)' <=> HighOwns(i, o)
          /\ \A r \in Runners, o \in Paths : RunOwns(r, o)' <=> RunOwns(r, o)
      BY <2>0, <2>4 DEF HighOwns, HighPlaces, RunOwns
    <3>4. \A l \in Callers, o \in Paths : CallerOwns(l, o)' <=> CallerOwns(l, o) /\ l # k
      BY <2>2, <2>4
    <3> HIDE DEF s, p
    <3>5. OwnedIsClaimed'
      BY <2>0, <3>1, <3>2, <3>3, <3>4 DEF Ownership, OwnedIsClaimed
    <3>6. ClaimedIsOwned'
      BY <2>0, <3>1, <3>2, <3>3, <3>4 DEF Ownership, ClaimedIsOwned
    <3>7. UniqueInKind'
      BY <2>0, <3>1, <3>2, <3>3, <3>4 DEF Ownership, UniqueInKind, UniqueAmongKinds
    <3>8. UniqueAmongKinds'
      BY <2>0, <3>1, <3>2, <3>3, <3>4 DEF Ownership, UniqueInKind, UniqueAmongKinds
    <3>9. QED
      BY <3>5, <3>6, <3>7, <3>8 DEF Ownership
  <2>5. QED
    BY <1>4, <2>1, <2>3, <2>4 DEF MediaSend
<1>5. CASE MediaDrop(k)
  <2>0. /\ s \in Sources /\ p \in Paths /\ UNCHANGED <<queueVars, run>>
        /\ CallerOwns(k, p) /\ CallerDone(k)
        /\ inflight' = [inflight EXCEPT ![p] = NoChan]
    BY <1>0, <1>5 DEF MediaDrop, CallerOwns
  <2>1. \A l \in Callers, o \in Paths : CallerOwns(l, o)' <=> CallerOwns(l, o) /\ l # k
    BY <2>0, <1>t DEF CallerTo, CallerDone, CallerOwns, CallerIdle
  <2>2. \A o \in Paths : inflight'[o] = IF o = p THEN NoChan ELSE inflight[o]
    BY <2>0 DEF TypeOK
  <2>3. \A o \in Paths : CallerOwns(k, o) => o = p
    BY DEF CallerOwns
  <2>4. QED
    BY <2>0, <2>1, <2>2, <2>3
    DEF Ownership, OwnedIsClaimed, ClaimedIsOwned, UniqueInKind, UniqueAmongKinds,
        HighOwns, NormalOwns, HighPlaces, NormalPlaces, RunOwns, queueVars
<1>6. QED
  BY <1>1, <1>2, <1>3, <1>4, <1>5 DEF Call

LEMMA OwnershipRunner ==
    ASSUME TypeOK, Ownership, NEW r \in Runners, Work(r)
    PROVE  Ownership'
<1> DEFINE s == run[r].ms
           p == PathOf[s]
<1>0. s \in Sources /\ p \in Paths
  BY Active, TypeParts, PathOfSource
  DEF Work, ExecStart, ExecCheck, ExecResolve, ExecDelete, ExecClose, Executing
<1>t. run \in [Runners -> RunState] /\ inflight \in [Paths -> Chans \cup {NoChan}]
  BY DEF TypeOK
<1>1. CASE ExecStart(r) \/ ExecCheck(r) \/ ExecResolve(r)
  <2>1. /\ run[r].pc \in Executing /\ UNCHANGED <<inflight, highQ, normalQ, caller>>
        /\ \A o \in Runners \ {r} : run'[o] = run[o]
        /\ run'[r].pc \in Executing /\ run'[r].ms = s
    BY <1>1, <1>t
    DEF ExecStart, ExecCheck, ExecResolve, RunTo, Executing, flightVars, queueVars
  <2>2. \A o \in Runners, x \in Paths : RunOwns(o, x)' <=> RunOwns(o, x)
    BY <2>1 DEF RunOwns
  <2>3. QED
    BY <2>1, <2>2, SameOwners DEF CallerOwns
<1>2. CASE ExecDelete(r)
  <2>1. /\ run[r].pc \in Executing /\ UNCHANGED <<highQ, normalQ, caller>>
        /\ \A o \in Runners \ {r} : run'[o] = run[o]
        /\ run'[r].pc \notin Executing
        /\ \A x \in Paths : inflight'[x] = IF x = p THEN NoChan ELSE inflight[x]
    BY <1>2, <1>t DEF ExecDelete, RunTo, Executing, PathOfRun, queueVars
  <2>2. /\ \A o \in Runners, x \in Paths : RunOwns(o, x)' <=> RunOwns(o, x) /\ o # r
        /\ RunOwns(r, p) /\ \A x \in Paths : RunOwns(r, x) => x = p
    BY <2>1 DEF RunOwns
  <2>3. QED
    BY <1>0, <2>1, <2>2
    DEF Ownership, OwnedIsClaimed, ClaimedIsOwned, UniqueInKind, UniqueAmongKinds,
        HighOwns, NormalOwns, HighPlaces, NormalPlaces, CallerOwns
<1>3. CASE ExecClose(r)
  <2>1. /\ run[r].pc \notin Executing /\ UNCHANGED <<inflight, highQ, normalQ, caller>>
        /\ \A o \in Runners \ {r} : run'[o] = run[o]
        /\ run'[r].pc \notin Executing
    BY <1>3, <1>t DEF ExecClose, RunDone, RunIdle, Executing, queueVars
  <2>2. \A o \in Runners, x \in Paths : RunOwns(o, x)' <=> RunOwns(o, x)
    BY <2>1 DEF RunOwns
  <2>3. QED
    BY <2>1, <2>2, SameOwners DEF CallerOwns
<1>4. QED
  BY <1>1, <1>2, <1>3 DEF Work

(* Places of a queue whose head is taken.                                   *)
LEMMA TailPlaces ==
    ASSUME NEW q \in Seq(Sources), q # <<>>
    PROVE  /\ Head(q) = q[1] /\ 1 \in 1..Len(q) /\ Head(q) \in Sources
           /\ \A i \in 1..Len(Tail(q)) : i + 1 \in 1..Len(q) /\ Tail(q)[i] = q[i + 1]
           /\ \A i \in 1..Len(q) : i # 1 => i - 1 \in 1..Len(Tail(q))
           /\ \A i \in 1..Len(q) : i \in Nat
           /\ \A i \in 1..Len(Tail(q)) : i \in Nat /\ i + 1 # 1
OBVIOUS

LEMMA OwnershipWorker ==
    ASSUME TypeOK, Ownership, NEW w \in Workers, WorkerPoll(w) \/ WorkerSelect(w)
    PROVE  Ownership'
<1>t. /\ run \in [Runners -> RunState] /\ w \in Runners
      /\ highQ \in Seq(Sources) /\ normalQ \in Seq(Sources)
  BY DEF TypeOK, Runners
<1>0. /\ run[w].pc \notin Executing /\ UNCHANGED <<inflight, caller>>
      /\ \A r \in Runners \ {w} : run'[r] = run[r]
  BY <1>t DEF WorkerPoll, WorkerSelect, Executing, flightVars, Start, RunTo, RunDone
<1>1. CASE UNCHANGED queueVars /\ \E pc \in {"gone", "select"} : RunDone(w, pc)
  <2>1. run'[w].pc \notin Executing
    BY <1>1, <1>t DEF RunDone, RunIdle, Executing
  <2>2. \A o \in Runners, x \in Paths : RunOwns(o, x)' <=> RunOwns(o, x)
    BY <1>0, <2>1 DEF RunOwns
  <2>3. QED
    BY <1>0, <1>1, <2>2, SameOwners DEF CallerOwns, queueVars
<1>2. CASE highQ # <<>> /\ highQ' = Tail(highQ) /\ Start(w, Head(highQ)) /\ UNCHANGED normalQ
  <2> DEFINE s == Head(highQ)
             p == PathOf[s]
  <2>1. s \in Sources /\ p \in Paths
    BY <1>2, <1>t, TailPlaces, PathOfSource
  <2>2. run'[w] = [pc |-> "start", ms |-> s, done |-> NoChan]
    BY <1>2, <1>t DEF Start, RunTo
  <2>3. \A o \in Runners, x \in Paths : RunOwns(o, x)' <=> RunOwns(o, x) \/ (o = w /\ x = p)
    BY <1>0, <2>2 DEF RunOwns, Executing
  <2>4. /\ 1 \in HighPlaces /\ HighOwns(1, p) /\ \A x \in Paths : HighOwns(1, x) => x = p
        /\ \A i \in HighPlaces' : i + 1 \in HighPlaces /\ i + 1 # 1
        /\ \A i \in HighPlaces', x \in Paths : HighOwns(i, x)' <=> HighOwns(i + 1, x)
        /\ \A i \in HighPlaces : i # 1 => i - 1 \in HighPlaces'
        /\ \A i \in HighPlaces, x \in Paths : i # 1 => (HighOwns(i - 1, x)' <=> HighOwns(i, x))
        /\ HighPlaces \subseteq Nat /\ HighPlaces' \subseteq Nat
    BY <1>2, <1>t, TailPlaces DEF HighPlaces, HighOwns
  <2> HIDE DEF s, p
  <2>5. OwnedIsClaimed'
    BY <1>0, <1>2, <2>1, <2>3, <2>4
    DEF Ownership, OwnedIsClaimed, CallerOwns, NormalOwns, NormalPlaces
  <2>6. ClaimedIsOwned'
    BY <1>0, <1>t, <1>2, <2>1, <2>3, <2>4
    DEF Ownership, ClaimedIsOwned, CallerOwns, NormalOwns, NormalPlaces
  <2>7. UniqueInKind'
    BY <1>0, <1>2, <2>1, <2>3, <2>4
    DEF Ownership, UniqueInKind, UniqueAmongKinds, CallerOwns, NormalOwns, NormalPlaces
  <2>8. UniqueAmongKinds'
    BY <1>0, <1>2, <2>1, <2>3, <2>4
    DEF Ownership, UniqueInKind, UniqueAmongKinds, CallerOwns, NormalOwns, NormalPlaces
  <2>9. QED
    BY <2>5, <2>6, <2>7, <2>8 DEF Ownership
<1>3. CASE normalQ # <<>> /\ normalQ' = Tail(normalQ) /\ Start(w, Head(normalQ)) /\ UNCHANGED highQ
  <2> DEFINE s == Head(normalQ)
             p == PathOf[s]
  <2>1. s \in Sources /\ p \in Paths
    BY <1>3, <1>t, TailPlaces, PathOfSource
  <2>2. run'[w] = [pc |-> "start", ms |-> s, done |-> NoChan]
    BY <1>3, <1>t DEF Start, RunTo
  <2>3. \A o \in Runners, x \in Paths : RunOwns(o, x)' <=> RunOwns(o, x) \/ (o = w /\ x = p)
    BY <1>0, <2>2 DEF RunOwns, Executing
  <2>4. /\ 1 \in NormalPlaces /\ NormalOwns(1, p) /\ \A x \in Paths : NormalOwns(1, x) => x = p
        /\ \A i \in NormalPlaces' : i + 1 \in NormalPlaces /\ i + 1 # 1
        /\ \A i \in NormalPlaces', x \in Paths : NormalOwns(i, x)' <=> NormalOwns(i + 1, x)
        /\ \A i \in NormalPlaces : i # 1 => i - 1 \in NormalPlaces'
        /\ \A i \in NormalPlaces, x \in Paths :
              i # 1 => (NormalOwns(i - 1, x)' <=> NormalOwns(i, x))
        /\ NormalPlaces \subseteq Nat /\ NormalPlaces' \subseteq Nat
    BY <1>3, <1>t, TailPlaces DEF NormalPlaces, NormalOwns
  <2> HIDE DEF s, p
  <2>5. OwnedIsClaimed'
    BY <1>0, <1>3, <2>1, <2>3, <2>4
    DEF Ownership, OwnedIsClaimed, CallerOwns, HighOwns, HighPlaces
  <2>6. ClaimedIsOwned'
    BY <1>0, <1>t, <1>3, <2>1, <2>3, <2>4
    DEF Ownership, ClaimedIsOwned, CallerOwns, HighOwns, HighPlaces
  <2>7. UniqueInKind'
    BY <1>0, <1>3, <2>1, <2>3, <2>4
    DEF Ownership, UniqueInKind, UniqueAmongKinds, CallerOwns, HighOwns, HighPlaces
  <2>8. UniqueAmongKinds'
    BY <1>0, <1>3, <2>1, <2>3, <2>4
    DEF Ownership, UniqueInKind, UniqueAmongKinds, CallerOwns, HighOwns, HighPlaces
  <2>9. QED
    BY <2>5, <2>6, <2>7, <2>8 DEF Ownership
<1>4. QED
  BY <1>1, <1>2, <1>3 DEF WorkerPoll, WorkerSelect, queueVars

(* Requests, losses of cache entries and the shutdown touch no claim.       *)
LEMMA RequestFrame ==
    ASSUME NEW q \in Requests,
           \/ FgBegin(q) \/ BgBegin(q) \/ Wait(q) \/ FgTimeout(q) \/ BgTimeout(q)
    PROVE  UNCHANGED <<flightVars, queueVars, shutdown, caller, run>>
BY DEF FgBegin, BgBegin, Wait, FgTimeout, BgTimeout, FgLookup, FgWake, FgResolve,
       BgLookup, BgWake

LEMMA OwnershipNext == TypeOK /\ Ownership /\ [Next]_vars => Ownership'
<1> SUFFICES ASSUME TypeOK, Ownership, [Next]_vars PROVE Ownership'
  OBVIOUS
<1>1. CASE UNCHANGED <<flightVars, queueVars, caller, run>>
  BY <1>1, SameOwners DEF flightVars, queueVars, CallerOwns, RunOwns
<1>2. CASE Lose \/ Stop \/ UNCHANGED vars
  BY <1>1, <1>2 DEF Lose, Stop, vars
<1>3. CASE \E q \in Requests : \/ FgBegin(q) \/ BgBegin(q) \/ Wait(q)
                               \/ FgTimeout(q) \/ BgTimeout(q)
  BY <1>1, <1>3, RequestFrame
<1>4. QED
  BY <1>2, <1>3, OwnershipCaller, OwnershipRunner, OwnershipWorker DEF Next

(* Ownership is OneTaskPerPath, thread by thread.                           *)
LEMMA OwnersOne ==
    ASSUME TypeOK, Ownership
    PROVE  OneTaskPerPath
<1>1. DOMAIN highQ = HighPlaces /\ DOMAIN normalQ = NormalPlaces
  BY DEF TypeOK, HighPlaces, NormalPlaces
<1>2. ASSUME NEW p \in Paths
      PROVE  Owners(p) = {<<"caller", k>> : k \in {k \in Callers : CallerOwns(k, p)}}
                   \cup {<<"high", i>> : i \in {i \in HighPlaces : HighOwns(i, p)}}
                   \cup {<<"normal", i>> : i \in {i \in NormalPlaces : NormalOwns(i, p)}}
                   \cup {<<"run", r>> : r \in {r \in Runners : RunOwns(r, p)}}
  BY <1>1 DEF Owners, CallerOwns, HighOwns, NormalOwns, RunOwns, PathOfRun
<1>3. ASSUME NEW p \in Paths, inflight[p] = NoChan
      PROVE  Owners(p) = {}
  BY <1>2, <1>3 DEF Ownership, OwnedIsClaimed
<1>4. ASSUME NEW p \in Paths, inflight[p] # NoChan
      PROVE  \E o \in Owners(p) : Owners(p) = {o}
  <2> USE DEF Ownership, UniqueInKind, UniqueAmongKinds
  <2>1. ASSUME NEW k \in Callers, CallerOwns(k, p)
        PROVE  Owners(p) = {<<"caller", k>>}
    BY <1>2, <2>1
  <2>2. ASSUME NEW i \in HighPlaces, HighOwns(i, p)
        PROVE  Owners(p) = {<<"high", i>>}
    BY <1>2, <2>2
  <2>3. ASSUME NEW i \in NormalPlaces, NormalOwns(i, p)
        PROVE  Owners(p) = {<<"normal", i>>}
    BY <1>2, <2>3
  <2>4. ASSUME NEW r \in Runners, RunOwns(r, p)
        PROVE  Owners(p) = {<<"run", r>>}
    BY <1>2, <2>4
  <2>5. QED
    BY <1>4, <2>1, <2>2, <2>3, <2>4 DEF ClaimedIsOwned
<1>5. QED
  BY <1>3, <1>4 DEF OneTaskPerPath

(* Every claimed file has exactly one task, in one place, and every file     *)
(* that no task has is free: PreloadStrmSync and PreloadMediaSource never    *)
(* start a second resolution of a file in progress, and a dropped or         *)
(* finished task never leaves its file claimed for good                      *)
(* (stream.go:1522-1531, 1554-1560, 1586-1589, 852-860).                     *)
THEOREM OneTask == Spec => []OneTaskPerPath
<1>1. Init => TypeOK /\ Ownership
  BY TypeInit, OwnershipInit
<1>2. TypeOK /\ Ownership /\ [Next]_vars => (TypeOK /\ Ownership)'
  BY TypeNext, OwnershipNext
<1>3. TypeOK /\ Ownership => OneTaskPerPath
  BY OwnersOne
<1>4. QED
  BY <1>1, <1>2, <1>3, PTL DEF Spec

-----------------------------------------------------------------------------
(* The local doneCh of a runner and the channel in the map.                 *)
RunnerHolds ==
    \A r \in Runners : run[r].pc \in {"check", "resolve", "delete"} =>
        run[r].done = inflight[PathOf[run[r].ms]]

ClosersAlone ==
    \A r \in Runners : run[r].pc = "close" =>
        /\ run[r].done \in Chans \ closed
        /\ \A p \in Paths : inflight[p] # run[r].done
        /\ \A o \in Runners \ {r} : run[o].pc = "close" => run[o].done # run[r].done

MapOpen ==
    \A p \in Paths : inflight[p] # NoChan =>
        /\ inflight[p] \notin closed
        /\ \A o \in Paths \ {p} : inflight[o] # inflight[p]

Channels == RunnerHolds /\ ClosersAlone /\ MapOpen

(* A request waits only while its channel is known, unless it was dropped.  *)
SafetyInv == TypeOK /\ Ownership /\ Channels /\ WaiterNotStranded

LEMMA SafetyInit == Init => Channels /\ WaiterNotStranded
BY DEF Init, Channels, RunnerHolds, ClosersAlone, MapOpen, WaiterNotStranded, Waiting,
       RunIdle, ReqIdle

(* A runner about to close its channel holds one that nobody else has.      *)
LEMMA CloseAlone ==
    ASSUME TypeOK, Ownership, Channels
    PROVE  CloseOnce
<1> SUFFICES ASSUME NEW r \in Runners, run[r].pc = "close",
                    NEW o \in Runners \ {r}, run[o].pc \in Executing
             PROVE  run[o].done # run[r].done
  BY DEF CloseOnce, Channels, ClosersAlone
<1>1. run[r].done \in Chans /\ \A p \in Paths : inflight[p] # run[r].done
  BY DEF Channels, ClosersAlone
<1>2. CASE run[o].pc = "start"
  <2>1. \A x \in RunState : x.pc = "start" => x.done = NoChan
    BY DEF RunState, RunIdle
  <2>2. run[o].done = NoChan
    BY <1>2, <2>1 DEF TypeOK
  <2>3. QED
    BY <1>1, <2>2, ChansAssumption
<1>3. CASE run[o].pc # "start"
  <2>1. run[o].ms \in Sources
    BY Active, TypeParts
  <2>2. run[o].done = inflight[PathOf[run[o].ms]] /\ PathOf[run[o].ms] \in Paths
    BY <1>3, <2>1, PathOfSource DEF Channels, RunnerHolds, Executing
  <2>3. QED
    BY <1>1, <2>2
<1>4. QED
  BY <1>2, <1>3

(* A step that changes no channel, no runner and no request.                *)
LEMMA SameChannels ==
    ASSUME Channels, UNCHANGED <<flightVars, run>>
    PROVE  Channels' /\ (WaiterNotStranded /\ UNCHANGED req => WaiterNotStranded')
BY DEF Channels, RunnerHolds, ClosersAlone, MapOpen, flightVars, WaiterNotStranded,
       Waiting, Pending

LEMMA WaitsForChan ==
    ASSUME TypeOK
    PROVE  \A q \in Requests : /\ req[q].ch \in Chans \cup {NoChan}
                              /\ Waiting(q) <=> req[q].ch # NoChan
<1>1. \A x \in ReqState : /\ x.ch \in Chans \cup {NoChan}
                          /\ x.pc \in {"fgWait", "bgWait"} <=> x.ch # NoChan
  BY ChansAssumption DEF ReqState, ReqIdle, WaitPC
<1>2. QED
  BY <1>1 DEF TypeOK, Waiting

(* A claim, with or without a goroutine of its own.                         *)
LEMMA ChannelsClaim ==
    ASSUME TypeOK, Channels, WaiterNotStranded, UNCHANGED req,
           NEW p \in Paths, NEW c \in Chans, inflight[p] = NoChan, Claim(p, c),
           \A r \in Runners : run'[r] = run[r] \/ run'[r].pc = "start",
           \A r \in Runners : RunOwns(r, p) => FALSE,
           \A r \in Runners : run[r].pc = "close" => run'[r] = run[r]
    PROVE  Channels' /\ WaiterNotStranded'
<1>0. closed' = closed \ {c} /\ dropped' = dropped \ {c}
  BY DEF Claim
<1>1. RunnerHolds'
  <2> SUFFICES ASSUME NEW r \in Runners, run'[r].pc \in {"check", "resolve", "delete"}
               PROVE  run'[r].done = inflight'[PathOf[run'[r].ms]]
    BY DEF RunnerHolds
  <2>1. run'[r] = run[r] /\ run[r].pc \in Executing /\ run[r].ms \in Sources
    BY Active, TypeParts DEF Executing
  <2>2. PathOf[run[r].ms] \in Paths /\ PathOf[run[r].ms] # p
    BY <2>1, PathOfSource DEF RunOwns
  <2>3. QED
    BY <2>1, <2>2, ClaimFrame DEF Channels, RunnerHolds
<1>2. ClosersAlone'
  BY <1>0, ClaimFrame DEF Channels, ClosersAlone
<1>3. MapOpen'
  BY <1>0, ClaimFrame DEF Channels, MapOpen
<1>4. WaiterNotStranded'
  BY <1>0, ClaimFrame, WaitsForChan, ChansAssumption DEF WaiterNotStranded, Waiting, Pending
<1>5. QED
  BY <1>1, <1>2, <1>3, <1>4 DEF Channels

LEMMA ChannelsCaller ==
    ASSUME SafetyInv, NEW k \in Callers, SyncRead(k) \/ Call(k)
    PROVE  Channels' /\ WaiterNotStranded'
<1> DEFINE s == caller[k].ms
           p == PathOf[s]
<1> USE DEF SafetyInv
<1>0. caller[k].pc # "idle" => s \in Sources /\ p \in Paths
  BY Active, TypeParts, PathOfSource
<1>t. /\ run \in [Runners -> RunState]
      /\ \A r \in Runners, x \in Paths : inflight[x] = NoChan => ~RunOwns(r, x)
  BY DEF TypeOK, Ownership, OwnedIsClaimed
<1>1. CASE SyncRead(k) \/ MediaSend(k)
  <2>1. UNCHANGED <<flightVars, run>> /\ UNCHANGED req
    BY <1>1 DEF SyncRead, MediaSend
  <2>2. QED
    BY <2>1, SameChannels
<1>2. CASE SyncClaim(k)
  <2>0. p \in Paths /\ UNCHANGED req
    BY <1>0, <1>2 DEF SyncClaim
  <2>1. CASE inflight[p] = NoChan /\ \E c \in Chans : Claim(p, c) /\ Start(c, s)
    <3>1. PICK c \in Chans : Claim(p, c) /\ Start(c, s)
      BY <2>1
    <3>2. c \in Runners /\ run[c].pc = "gone"
      BY <3>1, <2>0, ClaimFrame DEF Runners
    <3>3. \A r \in Runners : run'[r] = IF r = c THEN [pc |-> "start", ms |-> s, done |-> NoChan]
                                       ELSE run[r]
      BY <1>t, <3>1, <3>2 DEF Start, RunTo
    <3>4. QED
      BY <1>t, <2>0, <2>1, <3>1, <3>2, <3>3, ChannelsClaim
  <2>2. CASE UNCHANGED <<flightVars, run>>
    BY <2>0, <2>2, SameChannels
  <2>3. QED
    BY <1>2, <2>1, <2>2 DEF SyncClaim
<1>3. CASE MediaClaim(k)
  <2>0. p \in Paths /\ UNCHANGED <<req, run>>
    BY <1>0, <1>3 DEF MediaClaim
  <2>1. CASE inflight[p] = NoChan /\ \E c \in Chans : Claim(p, c)
    BY <1>t, <2>0, <2>1, ChannelsClaim
  <2>2. CASE UNCHANGED flightVars
    BY <2>0, <2>2, SameChannels
  <2>3. QED
    BY <1>3, <2>1, <2>2 DEF MediaClaim
<1>4. CASE MediaDrop(k)
  <2>0. /\ p \in Paths /\ UNCHANGED <<req, run, closed>> /\ CallerOwns(k, p)
        /\ dropped' = dropped \cup ({inflight[p]} \ {NoChan})
        /\ \A x \in Paths : inflight'[x] = IF x = p THEN NoChan ELSE inflight[x]
    BY <1>0, <1>4 DEF MediaDrop, TypeOK, CallerOwns
  <2>1. \A r \in Runners : ~RunOwns(r, p)
    BY <2>0 DEF Ownership, UniqueAmongKinds
  <2>2. RunnerHolds'
    <3> SUFFICES ASSUME NEW r \in Runners, run[r].pc \in {"check", "resolve", "delete"}
                 PROVE  run[r].done = inflight'[PathOf[run[r].ms]]
      BY <2>0 DEF RunnerHolds
    <3>1. run[r].ms \in Sources
      BY Active, TypeParts DEF Executing
    <3>2. PathOf[run[r].ms] \in Paths /\ PathOf[run[r].ms] # p
      BY <2>1, <3>1, PathOfSource DEF RunOwns, Executing
    <3>3. QED
      BY <2>0, <3>2 DEF Channels, RunnerHolds
  <2>3. ClosersAlone'
    BY <2>0, ChansAssumption DEF Channels, ClosersAlone
  <2>4. MapOpen'
    BY <2>0 DEF Channels, MapOpen
  <2>5. WaiterNotStranded'
    <3> SUFFICES ASSUME NEW q \in Requests, Waiting(q)
                 PROVE  Pending(req[q].ch)' \/ req[q].ch \in dropped'
      BY <2>0 DEF WaiterNotStranded, Waiting
    <3>1. req[q].ch \in Chans
      BY WaitsForChan
    <3>2. QED
      BY <2>0, <3>1, ChansAssumption DEF WaiterNotStranded, Waiting, Pending
  <2>6. QED
    BY <2>2, <2>3, <2>4, <2>5 DEF Channels
<1>5. QED
  BY <1>1, <1>2, <1>3, <1>4 DEF Call

LEMMA ChannelsRunner ==
    ASSUME SafetyInv, NEW r \in Runners, Work(r)
    PROVE  Channels' /\ WaiterNotStranded'
<1> DEFINE s == run[r].ms
           p == PathOf[s]
           d == run[r].done
<1> USE DEF SafetyInv
<1>0. s \in Sources /\ p \in Paths
  BY Active, TypeParts, PathOfSource
  DEF Work, ExecStart, ExecCheck, ExecResolve, ExecDelete, ExecClose, Executing
<1>t. /\ run \in [Runners -> RunState] /\ inflight \in [Paths -> Chans \cup {NoChan}]
      /\ UNCHANGED req
  BY DEF TypeOK, Work, ExecStart, ExecCheck, ExecResolve, ExecDelete, ExecClose
<1>1. CASE ExecStart(r)
  <2>1. /\ UNCHANGED flightVars /\ run[r].pc = "start"
        /\ \A o \in Runners \ {r} : run'[o] = run[o]
        /\ run'[r] = [pc |-> "check", ms |-> s, done |-> inflight[p]]
    BY <1>1, <1>t DEF ExecStart, RunTo, PathOfRun
  <2>2. QED
    BY <1>t, <2>1 DEF Channels, RunnerHolds, ClosersAlone, MapOpen, WaiterNotStranded,
       Waiting, Pending, flightVars
<1>2. CASE ExecCheck(r) \/ ExecResolve(r)
  <2>1. /\ UNCHANGED flightVars /\ run[r].pc \in {"check", "resolve"}
        /\ \A o \in Runners \ {r} : run'[o] = run[o]
        /\ \E pc \in {"resolve", "delete"} : run'[r] = [pc |-> pc, ms |-> s, done |-> d]
    BY <1>2, <1>t DEF ExecCheck, ExecResolve, RunTo
  <2>2. QED
    BY <1>t, <2>1 DEF Channels, RunnerHolds, ClosersAlone, MapOpen, WaiterNotStranded,
       Waiting, Pending, flightVars
<1>3. CASE ExecDelete(r)
  <2>1. /\ UNCHANGED <<closed, dropped>> /\ run[r].pc = "delete"
        /\ \A o \in Runners \ {r} : run'[o] = run[o]
        /\ run'[r] = [pc |-> "close", ms |-> s, done |-> d]
        /\ \A x \in Paths : inflight'[x] = IF x = p THEN NoChan ELSE inflight[x]
    BY <1>3, <1>t DEF ExecDelete, RunTo, PathOfRun
  <2>2. d = inflight[p] /\ RunOwns(r, p)
    BY <2>1 DEF Channels, RunnerHolds, RunOwns, Executing
  <2>3. d \in Chans \ closed
    BY <1>0, <1>t, <2>2 DEF Ownership, OwnedIsClaimed, Channels, MapOpen
  <2>4. \A o \in Runners \ {r} : ~RunOwns(o, p)
    BY <1>0, <2>2 DEF Ownership, UniqueInKind
  <2>5. RunnerHolds'
    <3> SUFFICES ASSUME NEW o \in Runners \ {r}, run[o].pc \in {"check", "resolve", "delete"}
                 PROVE  run[o].done = inflight'[PathOf[run[o].ms]]
      BY <2>1 DEF RunnerHolds
    <3>1. run[o].ms \in Sources
      BY Active, TypeParts DEF Executing
    <3>2. PathOf[run[o].ms] \in Paths /\ PathOf[run[o].ms] # p
      BY <2>4, <3>1, PathOfSource DEF RunOwns, Executing
    <3>3. QED
      BY <2>1, <3>2 DEF Channels, RunnerHolds
  <2>6. ClosersAlone'
    BY <1>0, <2>1, <2>2, <2>3, ChansAssumption DEF Channels, ClosersAlone, MapOpen
  <2>7. MapOpen'
    BY <2>1 DEF Channels, MapOpen
  <2>8. WaiterNotStranded'
    BY <1>t, <2>1, <2>2 DEF WaiterNotStranded, Waiting, Pending
  <2>9. QED
    BY <2>5, <2>6, <2>7, <2>8 DEF Channels
<1>4. CASE ExecClose(r)
  <2>1. /\ UNCHANGED <<inflight, dropped>> /\ run[r].pc = "close"
        /\ \A o \in Runners \ {r} : run'[o] = run[o]
        /\ run'[r].pc \in {"poll", "gone"}
        /\ closed' = closed \cup ({d} \ {NoChan})
    BY <1>4, <1>t DEF ExecClose, RunDone, RunIdle
  <2>2. d \in Chans \ closed /\ (\A x \in Paths : inflight[x] # d) /\ d # NoChan
    BY <2>1, ChansAssumption DEF Channels, ClosersAlone
  <2>3. RunnerHolds'
    BY <2>1 DEF Channels, RunnerHolds
  <2>4. ClosersAlone'
    BY <2>1, <2>2 DEF Channels, ClosersAlone
  <2>5. MapOpen'
    BY <2>1, <2>2 DEF Channels, MapOpen
  <2>6. WaiterNotStranded'
    BY <1>t, <2>1, <2>2 DEF WaiterNotStranded, Waiting, Pending
  <2>7. QED
    BY <2>3, <2>4, <2>5, <2>6 DEF Channels
<1>5. QED
  BY <1>1, <1>2, <1>3, <1>4 DEF Work

LEMMA ChannelsWorker ==
    ASSUME SafetyInv, NEW w \in Workers, WorkerPoll(w) \/ WorkerSelect(w)
    PROVE  Channels' /\ WaiterNotStranded'
<1>1. run \in [Runners -> RunState] /\ w \in Runners
  BY DEF SafetyInv, TypeOK, Runners
<1>2. /\ UNCHANGED flightVars /\ UNCHANGED req /\ run[w].pc # "close"
      /\ \A o \in Runners \ {w} : run'[o] = run[o]
      /\ run'[w].pc \in {"start", "gone", "select"}
  BY <1>1 DEF WorkerPoll, WorkerSelect, Start, RunTo, RunDone, RunIdle
<1>3. QED
  BY <1>1, <1>2 DEF SafetyInv, Channels, RunnerHolds, ClosersAlone, MapOpen,
     WaiterNotStranded, Waiting, Pending, flightVars

LEMMA ChannelsRequest ==
    ASSUME SafetyInv, NEW q \in Requests,
           \/ FgBegin(q) \/ BgBegin(q) \/ Wait(q) \/ FgTimeout(q) \/ BgTimeout(q)
    PROVE  Channels' /\ WaiterNotStranded'
<1> USE DEF SafetyInv
<1>1. UNCHANGED <<flightVars, run>> /\ req \in [Requests -> ReqState]
  BY RequestFrame DEF TypeOK
<1>2. Channels'
  BY <1>1, SameChannels
<1>3. /\ \A o \in Requests \ {q} : req'[o] = req[o]
      /\ \/ req'[q] = req[q]
         \/ req'[q].pc \notin {"fgWait", "bgWait"}
         \/ \E p \in Paths : req'[q].ch = inflight[p]
  <2>1. CASE FgLookup(q) \/ BgLookup(q)
    <3>1. PathOfReq(q) \in Paths
      BY <2>1, Active, TypeParts, PathOfSource DEF FgLookup, BgLookup, PathOfReq
    <3>2. QED
      BY <1>1, <2>1, <3>1 DEF FgLookup, BgLookup, ReqTo, ReqDone, ReqIdle
  <2>2. CASE FgBegin(q) \/ BgBegin(q)
    BY <1>1, <2>2 DEF FgBegin, BgBegin, ReqTo
  <2>3. CASE FgWake(q) \/ FgTimeout(q) \/ BgWake(q) \/ BgTimeout(q) \/ FgResolve(q)
    BY <1>1, <2>3 DEF FgWake, FgTimeout, BgWake, BgTimeout, FgResolve, ReqTo, ReqDone, ReqIdle
  <2>4. QED
    BY <2>1, <2>2, <2>3 DEF Wait
<1>4. WaiterNotStranded'
  BY <1>1, <1>3 DEF WaiterNotStranded, Waiting, Pending, flightVars
<1>5. QED
  BY <1>2, <1>4

LEMMA SafetyNext == SafetyInv /\ [Next]_vars => SafetyInv'
<1> SUFFICES ASSUME SafetyInv, [Next]_vars PROVE Channels' /\ WaiterNotStranded'
  BY TypeNext, OwnershipNext DEF SafetyInv
<1>1. CASE Lose \/ Stop \/ UNCHANGED vars
  <2>1. UNCHANGED <<flightVars, run>> /\ UNCHANGED req
    BY <1>1 DEF Lose, Stop, vars
  <2>2. QED
    BY <2>1, SameChannels DEF SafetyInv
<1>2. QED
  BY <1>1, ChannelsCaller, ChannelsRunner, ChannelsWorker, ChannelsRequest DEF Next

(* The inductive invariant that the theorems below share.                   *)
THEOREM Safety == Spec => []SafetyInv
BY TypeInit, OwnershipInit, SafetyInit, SafetyNext, PTL DEF Spec, SafetyInv

(* No runner ever closes a channel twice or one that another runner closes:  *)
(* the deferred function of executePreload (stream.go:850-861) cannot panic, *)
(* although it looks its channel up long after the claim was made.           *)
THEOREM NoDoubleClose == Spec => []CloseOnce
<1>1. SafetyInv => CloseOnce
  BY CloseAlone DEF SafetyInv
<1>2. QED
  BY <1>1, Safety, PTL

(* A request that waits in parallelResolve or WaitForURLResolution waits for *)
(* a channel that the map or a runner still holds, or that is closed; the    *)
(* one exception is a task dropped by a full queue (stream.go:1585-1593).    *)
THEOREM NotStranded == Spec => []WaiterNotStranded
<1>1. SafetyInv => WaiterNotStranded
  BY DEF SafetyInv
<1>2. QED
  BY <1>1, Safety, PTL

-----------------------------------------------------------------------------
(* Preload implements SingleFlight.                                         *)

LEMMA RefinesInit == Init => Promises!Init
BY DEF Init, Promises!Init, ReqIdle

(* What a request waits for when a step does not touch the requests.        *)
LEMMA SameWaits ==
    ASSUME UNCHANGED req
    PROVE  UNCHANGED [q \in Requests |-> req[q].ch]
OBVIOUS

LEMMA RefinesCaller ==
    ASSUME SafetyInv, NEW k \in Callers, SyncRead(k) \/ Call(k)
    PROVE  [Promises!Next]_(Promises!vars)
<1> DEFINE p == PathOf[caller[k].ms]
<1> USE DEF SafetyInv
<1>0. caller[k].pc # "idle" => p \in Paths
  BY Active, TypeParts, PathOfSource
<1>1. UNCHANGED req
  BY DEF Call, SyncRead, SyncClaim, MediaClaim, MediaSend, MediaDrop
<1>2. CASE UNCHANGED flightVars
  BY <1>1, <1>2, SameWaits DEF Promises!vars, flightVars
<1>3. CASE p \in Paths /\ inflight[p] = NoChan /\ \E c \in Chans : Claim(p, c)
  <2>1. PICK c \in Chans : Claim(p, c)
    BY <1>3
  <2>2. Promises!Promise(p, c)
    <3>1. (\A o \in Paths : inflight[o] # c) /\ (\A q \in Requests : req[q].ch # c)
      BY <1>3, <2>1, ClaimFrame
    <3>2. inflight' = [inflight EXCEPT ![p] = c] /\ closed' = closed \ {c}
      BY <2>1 DEF Claim
    <3>3. QED
      BY <1>1, <1>3, <3>1, <3>2, SameWaits DEF Promises!Promise
  <2>3. QED
    BY <1>3, <2>2 DEF Promises!Next
<1>4. CASE MediaDrop(k)
  <2>1. p \in Paths /\ CallerOwns(k, p)
    BY <1>0, <1>4 DEF MediaDrop, CallerOwns
  <2>2. inflight[p] # NoChan
    BY <2>1 DEF Ownership, OwnedIsClaimed
  <2>3. Promises!TakeOut(p)
    BY <1>1, <1>4, <2>2, SameWaits DEF MediaDrop, Promises!TakeOut
  <2>4. QED
    BY <2>1, <2>3 DEF Promises!Next
<1>5. CASE SyncRead(k) \/ MediaSend(k)
  BY <1>2, <1>5 DEF SyncRead, MediaSend
<1>6. CASE SyncClaim(k)
  <2>1. p \in Paths
    BY <1>0, <1>6 DEF SyncClaim
  <2>2. QED
    BY <1>2, <1>3, <1>6, <2>1 DEF SyncClaim
<1>7. CASE MediaClaim(k)
  <2>1. p \in Paths
    BY <1>0, <1>7 DEF MediaClaim
  <2>2. QED
    BY <1>2, <1>3, <1>7, <2>1 DEF MediaClaim
<1>8. QED
  BY <1>4, <1>5, <1>6, <1>7 DEF Call

LEMMA RefinesRunner ==
    ASSUME SafetyInv, NEW r \in Runners, Work(r)
    PROVE  [Promises!Next]_(Promises!vars)
<1> DEFINE p == PathOf[run[r].ms]
           d == run[r].done
<1> USE DEF SafetyInv
<1>1. UNCHANGED req
  BY DEF Work, ExecStart, ExecCheck, ExecResolve, ExecDelete, ExecClose
<1>2. CASE ExecStart(r) \/ ExecCheck(r) \/ ExecResolve(r)
  BY <1>1, <1>2, SameWaits DEF ExecStart, ExecCheck, ExecResolve, Promises!vars, flightVars
<1>3. CASE ExecDelete(r)
  <2>1. p \in Paths /\ RunOwns(r, p)
    BY <1>3, Active, TypeParts, PathOfSource DEF ExecDelete, RunOwns, Executing
  <2>2. inflight[p] # NoChan
    BY <2>1 DEF Ownership, OwnedIsClaimed
  <2>3. Promises!TakeOut(p)
    BY <1>1, <1>3, <2>2, SameWaits DEF ExecDelete, PathOfRun, Promises!TakeOut
  <2>4. QED
    BY <2>1, <2>3 DEF Promises!Next
<1>4. CASE ExecClose(r)
  <2>1. d \in Chans \ closed /\ (\A x \in Paths : inflight[x] # d) /\ d # NoChan
    BY <1>4, ChansAssumption DEF ExecClose, Channels, ClosersAlone
  <2>2. closed' = closed \cup {d} /\ UNCHANGED inflight
    BY <1>4, <2>1 DEF ExecClose
  <2>3. Promises!Fulfil(d)
    BY <1>1, <2>1, <2>2, SameWaits DEF Promises!Fulfil
  <2>4. QED
    BY <2>1, <2>3 DEF Promises!Next
<1>5. QED
  BY <1>2, <1>3, <1>4 DEF Work

LEMMA RefinesRequest ==
    ASSUME SafetyInv, NEW q \in Requests,
           \/ FgBegin(q) \/ BgBegin(q) \/ Wait(q) \/ FgTimeout(q) \/ BgTimeout(q)
    PROVE  [Promises!Next]_(Promises!vars)
<1> DEFINE W == [o \in Requests |-> req[o].ch]
<1> USE DEF SafetyInv
<1>1. UNCHANGED flightVars /\ req \in [Requests -> ReqState]
  BY RequestFrame DEF TypeOK
<1>2. ASSUME NEW c, req'[q].ch = c, \A o \in Requests \ {q} : req'[o] = req[o]
      PROVE  W' = [W EXCEPT ![q] = c]
  BY <1>2
<1>3. \A o \in Requests \ {q} : req'[o] = req[o]
  BY <1>1 DEF FgBegin, BgBegin, Wait, FgLookup, FgWake, FgResolve, BgLookup, BgWake,
              FgTimeout, BgTimeout, ReqTo, ReqDone
<1>4. CASE \E p \in Paths : req[q].ch = NoChan /\ inflight[p] # NoChan
                            /\ req'[q].ch = inflight[p]
  <2>1. PICK p \in Paths : /\ req[q].ch = NoChan /\ inflight[p] # NoChan
                           /\ req'[q].ch = inflight[p]
    BY <1>4
  <2>2. Promises!Join(q, p)
    BY <1>1, <1>2, <1>3, <2>1 DEF Promises!Join, flightVars
  <2>3. QED
    BY <2>1, <2>2 DEF Promises!Next
<1>5. CASE req[q].ch # NoChan /\ req'[q].ch = NoChan
  <2>1. Promises!Leave(q)
    BY <1>1, <1>2, <1>3, <1>5 DEF Promises!Leave, flightVars
  <2>2. QED
    BY <2>1 DEF Promises!Next
<1>6. CASE req'[q].ch = req[q].ch
  <2>1. W' = W
    BY <1>3, <1>6
  <2>2. QED
    BY <1>1, <2>1 DEF Promises!vars, flightVars
<1>7. \/ req'[q].ch = req[q].ch
      \/ req[q].ch # NoChan /\ req'[q].ch = NoChan
      \/ \E p \in Paths : /\ req[q].ch = NoChan /\ inflight[p] # NoChan
                          /\ req'[q].ch = inflight[p]
  <2>1. Waiting(q) <=> req[q].ch # NoChan
    BY WaitsForChan
  <2>2. CASE FgLookup(q) \/ BgLookup(q)
    <3>1. PathOfReq(q) \in Paths /\ req[q].ch = NoChan
      BY <2>1, <2>2, Active, TypeParts, PathOfSource
      DEF FgLookup, BgLookup, PathOfReq, Waiting
    <3>2. QED
      BY <1>1, <2>2, <3>1 DEF FgLookup, BgLookup, ReqTo, ReqDone, ReqIdle
  <2>3. CASE FgBegin(q) \/ BgBegin(q) \/ FgResolve(q)
    BY <1>1, <2>1, <2>3 DEF FgBegin, BgBegin, FgResolve, ReqTo, ReqDone, ReqIdle, Waiting
  <2>4. CASE FgWake(q) \/ FgTimeout(q) \/ BgWake(q) \/ BgTimeout(q)
    BY <1>1, <2>1, <2>4
    DEF FgWake, FgTimeout, BgWake, BgTimeout, ReqTo, ReqDone, ReqIdle, Waiting
  <2>5. QED
    BY <2>2, <2>3, <2>4 DEF Wait
<1>8. QED
  BY <1>4, <1>5, <1>6, <1>7

LEMMA RefinesNext == SafetyInv /\ [Next]_vars => [Promises!Next]_(Promises!vars)
<1> SUFFICES ASSUME SafetyInv, [Next]_vars PROVE [Promises!Next]_(Promises!vars)
  OBVIOUS
<1>1. CASE UNCHANGED <<flightVars, req>>
  BY <1>1, SameWaits DEF Promises!vars, flightVars
<1>2. CASE Lose \/ Stop \/ UNCHANGED vars
  BY <1>1, <1>2 DEF Lose, Stop, vars
<1>3. CASE \E w \in Workers : WorkerPoll(w) \/ WorkerSelect(w)
  BY <1>1, <1>3 DEF WorkerPoll, WorkerSelect
<1>4. QED
  BY <1>2, <1>3, RefinesCaller, RefinesRunner, RefinesRequest DEF Next

(* The map inflight with its channels keeps the promises of SingleFlight:    *)
(* claims, the deferred delete and close of executePreload, dropped tasks    *)
(* and waits that time out, for any number of threads and files              *)
(* (stream.go:113-116, 369-373, 848-860, 1522-1531, 1554-1560).              *)
THEOREM Implements == Spec => ImplementsPromises
<1>1. Spec => Promises!Init
  BY RefinesInit DEF Spec
<1>2. QED
  BY <1>1, RefinesNext, Safety, PTL DEF Spec, ImplementsPromises, Promises!Spec
=============================================================================

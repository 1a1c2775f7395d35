----------------------------- MODULE LibraryScan -----------------------------
(***************************************************************************)
(* The library scanner (internal/proxy/library_scan.go), the batch         *)
(* prefetcher it drives (internal/proxy/batch_prefetch.go) and the part of *)
(* Server.Stop that ends both.                                             *)
(*                                                                         *)
(* Threads are the schedulers of full and of incremental scans and the     *)
(* goroutines of TriggerScan; each scan starts goroutines of its own, the  *)
(* tasks, one for every item it prefetches.  A scan's context is never     *)
(* cancelled; the contexts of a batch are, by BatchPrefetcher.Stop.        *)
(*                                                                         *)
(* What the cache and the de-duplication marks hold is left open here: any  *)
(* item may be found there at any time.                                     *)
(* Left out: the counts of the statistics, the pauses between batches, the *)
(* pause for a garbage collection, and ScanLibraryOnce, which only the     *)
(* disabled poster prefetch calls.                                         *)
(***************************************************************************)
EXTENDS Naturals, Sequences, FiniteSets, SequencesExt

CONSTANTS
    Items,          (* movies and episodes                                  *)
    Libraries,      (* the media libraries in their order: each a sequence   *)
                    (* of entries, an entry being the sequence of items it   *)
                    (* stands for (a movie: one, a series: its episodes, an  *)
                    (* entry of another type: none)                          *)
    Schedulers,     (* goroutines started by Start: the cron scheduler ...   *)
    Incremental,    (* ... and among them the incremental one               *)
    Triggered,      (* goroutines of TriggerScan, and the one of a scan on   *)
                    (* start, which is a trigger at the beginning           *)
    FlushSize,      (* batchFlushSize                                       *)
    RetrySize,      (* the size of a batch of retries                       *)
    MaxItems,       (* maxScanItems                                         *)
    PageSize,       (* the size of a page of a library's listing            *)
    Concurrency     (* the capacity of the semaphore sem                    *)

Threads == Schedulers \cup Triggered

ASSUME ThreadsAssumption == /\ Incremental \subseteq Schedulers
                            /\ Schedulers \cap Triggered = {}
ASSUME SizesAssumption == {FlushSize, RetrySize, PageSize, Concurrency} \subseteq Nat \ {0}
ASSUME LibrariesAssumption ==
    /\ MaxItems \in Nat
    /\ Libraries \in Seq(Seq(Seq(Items)))

VARIABLES
    running,        (* the flag that admits one scan at a time              *)
    stopCh,         (* the scanner's stop channel has been closed           *)
    batchStopped,   (* the prefetcher's flag stopped, and its stopCh        *)
    stopper,        (* where Server.Stop is                                 *)
    sem,            (* how many tokens lie in the channel sem               *)
    th              (* the state of every thread                            *)

stopVars == <<stopCh, batchStopped, stopper>>
vars == <<running, stopVars, sem, th>>

(* expandItems: the items that the entries of library l stand for, an item    *)
(* being found at <<entry, place in the entry>>.                            *)
Expand(l) == UNION {{n} \X DOMAIN Libraries[l][n] : n \in DOMAIN Libraries[l]}
Before(p, q) == p[1] < q[1] \/ (p[1] = q[1] /\ p[2] < q[2])

Outcomes == {"hit", "deduped", "ok", "failed"}
Task     == [item: Items, pc: {"start", "wait", "request"} \cup Outcomes]

(* The locals of a scan.  owed is not in the code: the items that the scan   *)
(* has found worth a prefetch, or whose prefetch has failed, and that it     *)
(* has not tried since.                                                     *)
Resting(pc) == [pc |-> pc, lib |-> 0, todo |-> {}, visited |-> 0,
                pending |-> <<>>, failed |-> <<>>, tasks |-> <<>>, owed |-> {}]
ScanPC == {"prepare", "lib", "list", "judge", "flush", "join", "finish", "lastJoin",
           "retry", "retryJoin"}
Scanning(t) == th[t].pc \in ScanPC

TypeOK ==
    /\ {running, stopCh, batchStopped} \subseteq BOOLEAN
    /\ stopper \in {"serving", "scanner", "batches", "waiting", "stopped"}
    /\ sem \in 0..Concurrency
    /\ \A t \in Threads :
         /\ th[t].pc \in ScanPC \cup {"sleep", "gone"}
         /\ ~Scanning(t) => th[t] = Resting(th[t].pc)
         /\ th[t].lib \in 0..Len(Libraries)
         /\ \/ th[t].todo = {}
            \/ th[t].lib \in DOMAIN Libraries /\ th[t].todo \subseteq Expand(th[t].lib)
         /\ th[t].visited \in 0..MaxItems
         /\ th[t].pending \in Seq(Items) /\ th[t].failed \in Seq(Items)
         /\ t \notin Incremental => Len(th[t].pending) <= FlushSize
         /\ th[t].tasks \in Seq(Task) /\ th[t].owed \subseteq Items

Init ==
    /\ running = FALSE
    /\ stopCh = FALSE /\ batchStopped = FALSE /\ stopper = "serving"
    /\ sem = 0
    /\ th = [t \in Threads |-> Resting(IF t \in Schedulers THEN "sleep" ELSE "gone")]

To(t, s)       == th' = [th EXCEPT ![t] = s]
Update(t, pc)  == To(t, [th[t] EXCEPT !.pc = pc])
SameControl    == UNCHANGED <<running, stopVars, sem>>

-----------------------------------------------------------------------------
(* The beginning and the end of a scan.                                     *)

BugBegin(t) ==       \* a scan that is refused clears the flag all the same
    /\ th[t].pc = "sleep"
    /\ \/ running /\ running' = FALSE /\ UNCHANGED th
       \/ ~running /\ running' = TRUE /\ Update(t, "prepare")
    /\ UNCHANGED <<stopVars, sem>>

(* A scheduler's timer has fired: CompareAndSwap on running lets it scan, or *)
(* it waits for the next time.  The stop channel may have been closed too:  *)
(* select chooses either.                                                   *)
Begin(t) ==
    /\ th[t].pc = "sleep"
    /\ ~running
    /\ running' = TRUE
    /\ Update(t, "prepare")
    /\ UNCHANGED <<stopVars, sem>>

BugSchedulerExit(t) ==   \* the incremental scheduler waits for its ticker only
    /\ th[t].pc = "sleep" /\ stopCh /\ t \notin Incremental
    /\ Update(t, "gone")
    /\ SameControl

SchedulerExit(t) ==
    /\ th[t].pc = "sleep" /\ stopCh
    /\ Update(t, "gone")
    /\ SameControl

(* TriggerScan, from the dashboard or at the end of a webhook's delay: it   *)
(* does not ask whether the scanner has been stopped.                       *)
TriggerScan(t) ==
    /\ t \in Triggered /\ th[t].pc = "gone"
    /\ ~running
    /\ running' = TRUE
    /\ Update(t, "prepare")
    /\ UNCHANGED <<stopVars, sem>>

(* The deferred running.Store(false): the scheduler waits again, the         *)
(* goroutine of TriggerScan ends.                                           *)
Leave(t) ==
    /\ running' = FALSE
    /\ To(t, Resting(IF t \in Schedulers THEN "sleep" ELSE "gone"))
    /\ UNCHANGED <<stopVars, sem>>

(* waitForAuth and queryViews: no token in time, the stop, an error or no    *)
(* library end the scan.                                                    *)
Prepare(t) ==
    /\ th[t].pc = "prepare"
    /\ \/ Leave(t)
       \/ /\ Update(t, "lib")
          /\ SameControl

-----------------------------------------------------------------------------
(* The listing of a library.                                                *)

(* queryAllItems: page after page of PageSize entries, until one is short    *)
(* after it has been expanded: of got only what the pages up to there hold. *)
Page(p) == (p[1] - 1) \div PageSize
QueryAll(got) ==
    {p \in got : \A n \in 0..(Page(p) - 1) :
                   Cardinality({q \in got : Page(q) = n}) >= PageSize}

(* An incremental scan reads the latest items in one answer.                 *)
Listing(t, got) == IF t \in Incremental THEN got ELSE QueryAll(got)

BugNextLib(t) ==     \* does not look at the stop channel
    /\ th[t].pc = "lib"
    /\ th[t].lib < Len(Libraries)
    /\ To(t, [th[t] EXCEPT !.pc = "list", !.lib = @ + 1])
    /\ SameControl

(* The next library, unless the stop channel is found closed.               *)
NextLib(t) ==
    /\ th[t].pc = "lib"
    /\ ~stopCh /\ th[t].lib < Len(Libraries)
    /\ To(t, [th[t] EXCEPT !.pc = "list", !.lib = @ + 1])
    /\ SameControl

(* The answer: an error skips the library.  The seasons or episodes of a     *)
(* series that cannot be read, and what a stop during the queries prevents,  *)
(* are missing in got; an entry of one item may be such a series.           *)
List(t) ==
    /\ th[t].pc = "list"
    /\ \/ Update(t, "lib")
       \/ \E got \in SUBSET Expand(th[t].lib) :
            To(t, [th[t] EXCEPT !.pc = "judge", !.todo = Listing(t, got)])
    /\ SameControl

(* After the last library, or when the channel is found closed, a full scan *)
(* goes on to finishScan; an incremental one ends as it is.                 *)
LastLib(t) ==
    /\ th[t].pc = "lib"
    /\ stopCh \/ th[t].lib = Len(Libraries)
    /\ \/ t \in Incremental /\ Leave(t)
       \/ /\ t \notin Incremental
          /\ Update(t, "finish")
          /\ SameControl

-----------------------------------------------------------------------------
(* Which items are prefetched.                                              *)

(* The next item of the library: at most MaxItems of a full scan are looked  *)
(* at; those in the cache and those the media server has probed already are *)
(* passed over (an item may be either); the others wait in pending until    *)
(* there are enough.                                                        *)
Judge(t) ==
    /\ th[t].pc = "judge"
    /\ \E p \in th[t].todo :
       LET i == Libraries[th[t].lib][p[1]][p[2]]
           full == t \notin Incremental
           seen == [th[t] EXCEPT !.todo = @ \ {p}, !.visited = IF full THEN @ + 1 ELSE @]
           taken == [seen EXCEPT !.pending = Append(@, i), !.owed = @ \cup {i}]
       IN /\ \A q \in th[t].todo \ {p} : Before(p, q)
          /\ \/ /\ full /\ th[t].visited = MaxItems
                /\ Update(t, "finish")
             \/ /\ full => th[t].visited < MaxItems
                /\ To(t, seen)
             \/ /\ full => th[t].visited < MaxItems
                /\ To(t, IF full /\ Len(taken.pending) >= FlushSize
                         THEN [taken EXCEPT !.pc = "flush"] ELSE taken)
    /\ SameControl

(* The end of a library: an incremental scan prefetches what it has found.   *)
Judged(t) ==
    /\ th[t].pc = "judge" /\ th[t].todo = {}
    /\ Update(t, IF t \in Incremental /\ th[t].pending # <<>> THEN "flush" ELSE "lib")
    /\ SameControl

-----------------------------------------------------------------------------
(* Batches.                                                                 *)

StartTasks(s, batch, pc) ==
    [s EXCEPT !.pc = pc, !.owed = @ \ ToSet(batch),
              !.tasks = [n \in DOMAIN batch |-> [item |-> batch[n], pc |-> "start"]]]

(* PrefetchBatch: under stopMu it is cancelled as a whole or counted in the  *)
(* wait group; its tasks then run and are waited for.  (Server.Stop stops    *)
(* the prefetcher when no batch is left, see NoTaskAfterStop: only other    *)
(* callers than the scanner could be cancelled.)                            *)
PrefetchBatch(t, batch, pc, cancelled) ==
    \/ batchStopped /\ To(t, cancelled)
    \/ ~batchStopped /\ To(t, StartTasks(th[t], batch, pc))

(* flushBatch, in the midst of a library and at the end of the scan; the    *)
(* incremental scan starts its tasks itself.                                *)
Flush(t) ==
    /\ th[t].pc = "flush"
    /\ \/ /\ t \in Incremental
          /\ To(t, StartTasks(th[t], th[t].pending, "join"))
       \/ /\ t \notin Incremental
          /\ PrefetchBatch(t, th[t].pending, "join",
                           [th[t] EXCEPT !.pc = "judge", !.pending = <<>>])
    /\ SameControl

FlushLast(t) ==
    /\ th[t].pc = "finish"
    /\ \/ th[t].pending = <<>> /\ Update(t, "retry")
       \/ /\ th[t].pending # <<>>
          /\ PrefetchBatch(t, th[t].pending, "lastJoin",
                           [th[t] EXCEPT !.pc = "retry", !.pending = <<>>])
    /\ SameControl

Joined(t)   == \A n \in DOMAIN th[t].tasks : th[t].tasks[n].pc \in Outcomes
FailedIn(t) == {th[t].tasks[n].item : n \in {m \in DOMAIN th[t].tasks :
                                               th[t].tasks[m].pc = "failed"}}

BugJoin(t) ==        \* keeps the batch in pending
    /\ t \notin Incremental
    /\ th[t].pc \in {"join", "lastJoin"} /\ Joined(t)
    /\ To(t, [th[t] EXCEPT !.pc = IF @ = "join" THEN "judge" ELSE "retry", !.tasks = <<>>])
    /\ SameControl

(* All tasks of the batch have ended.  If one has failed, the scan will try  *)
(* all of them again.                                                       *)
Join(t) ==
    /\ t \notin Incremental
    /\ th[t].pc \in {"join", "lastJoin"} /\ Joined(t)
    /\ LET again == IF FailedIn(t) = {} THEN <<>> ELSE th[t].pending
       IN To(t, [th[t] EXCEPT !.pc = IF @ = "join" THEN "judge" ELSE "retry",
                              !.pending = <<>>, !.tasks = <<>>,
                              !.failed = @ \o again, !.owed = @ \cup FailedIn(t)])
    /\ SameControl

(* The incremental scan tries nothing again; in the pause that follows it    *)
(* may find the channel closed.                                             *)
JoinIncremental(t) ==
    /\ t \in Incremental
    /\ th[t].pc = "join" /\ Joined(t)
    /\ \/ /\ To(t, [th[t] EXCEPT !.pc = "lib", !.pending = <<>>, !.tasks = <<>>])
          /\ SameControl
       \/ stopCh /\ Leave(t)

BugRetry(t) ==       \* does not advance
    /\ th[t].pc = "retry"
    /\ ~stopCh /\ th[t].failed # <<>>
    /\ To(t, StartTasks(th[t], th[t].failed, "retryJoin"))
    /\ SameControl

(* retryFailed: the failed items in batches of RetrySize, until the stop     *)
(* channel is found closed.                                                 *)
Retry(t) ==
    /\ th[t].pc = "retry"
    /\ ~stopCh /\ th[t].failed # <<>>
    /\ LET n     == IF RetrySize < Len(th[t].failed) THEN RetrySize ELSE Len(th[t].failed)
           batch == SubSeq(th[t].failed, 1, n)
           rest  == [th[t] EXCEPT !.failed = SubSeq(@, n + 1, Len(@))]
       IN IF batchStopped THEN To(t, rest)
                          ELSE To(t, StartTasks(rest, batch, "retryJoin"))
    /\ SameControl

RetryJoin(t) ==
    /\ th[t].pc = "retryJoin" /\ Joined(t)
    /\ To(t, [th[t] EXCEPT !.pc = "retry", !.tasks = <<>>])
    /\ SameControl

BugFinish(t) ==      \* leaves out a last batch that is not full
    /\ th[t].pc = "retry"
    /\ stopCh \/ Len(th[t].failed) < RetrySize
    /\ Leave(t)

(* The end of finishScan.                                                   *)
Finish(t) ==
    /\ th[t].pc = "retry"
    /\ stopCh \/ th[t].failed = <<>>
    /\ Leave(t)

-----------------------------------------------------------------------------
(* Tasks: PrefetchItem.                                                     *)

TaskPC(t, n) == th[t].tasks[n].pc
TaskTo(t, n, pc) == th' = [th EXCEPT ![t].tasks[n].pc = pc]

Requesting ==
    UNION {{<<t, n>> : n \in {m \in DOMAIN th[t].tasks : TaskPC(t, m) = "request"}} :
             t \in Threads}

(* A task of a batch looks at the stop channel first.  Then the cache and    *)
(* the marks of earlier requests decide, which are any: an item that is not  *)
(* passed over for one or the other is marked and waits for the semaphore.  *)
TaskStart(t, n) ==
    /\ TaskPC(t, n) = "start"
    /\ \/ t \notin Incremental /\ batchStopped /\ TaskTo(t, n, "failed")
       \/ /\ t \in Incremental \/ ~batchStopped
          /\ \E pc \in {"hit", "deduped", "wait"} : TaskTo(t, n, pc)
    /\ SameControl

(* A token put into the channel, or the stop of the prefetcher: then nothing *)
(* is taken out again.                                                      *)
TaskAcquire(t, n) ==
    /\ TaskPC(t, n) = "wait"
    /\ \/ /\ sem < Concurrency
          /\ sem' = sem + 1
          /\ TaskTo(t, n, "request")
       \/ /\ batchStopped
          /\ TaskTo(t, n, "failed")
          /\ UNCHANGED sem
    /\ UNCHANGED <<running, stopVars>>

BugTaskAnswer(t, n) ==    \* no defer: the returns after an error keep the token
    /\ TaskPC(t, n) = "request"
    /\ \/ TaskTo(t, n, "failed") /\ UNCHANGED sem
       \/ TaskTo(t, n, "ok") /\ sem > 0 /\ sem' = sem - 1
    /\ UNCHANGED <<running, stopVars>>

(* The answer, or none within 120 s, or the cancellation of a batch.  On     *)
(* whichever return, the deferred receive takes a token out of the channel, *)
(* and would wait for one if there were none.                               *)
TaskAnswer(t, n) ==
    /\ TaskPC(t, n) = "request"
    /\ \E pc \in {"ok", "failed"} : TaskTo(t, n, pc)
    /\ sem > 0 /\ sem' = sem - 1
    /\ UNCHANGED <<running, stopVars>>

-----------------------------------------------------------------------------
(* Server.Stop, as far as the scanner and the prefetcher go.                *)

SameScans == UNCHANGED <<running, sem, th>>

StopScanner ==
    /\ stopper = "serving"
    /\ stopper' = "scanner" /\ stopCh' = TRUE
    /\ UNCHANGED batchStopped /\ SameScans

(* wg.Wait of the scanner: its schedulers and the goroutines of TriggerScan. *)
ScannerStopped ==
    /\ stopper = "scanner"
    /\ \A t \in Threads : th[t].pc = "gone"
    /\ stopper' = "batches"
    /\ UNCHANGED <<stopCh, batchStopped>> /\ SameScans

StopBatches ==
    /\ stopper = "batches"
    /\ stopper' = "waiting" /\ batchStopped' = TRUE
    /\ UNCHANGED stopCh /\ SameScans

(* wg.Wait of the prefetcher: the tasks of batches.                         *)
BatchesStopped ==
    /\ stopper = "waiting"
    /\ \A t \in Threads \ Incremental : Joined(t)
    /\ stopper' = "stopped"
    /\ UNCHANGED <<stopCh, batchStopped>> /\ SameScans

Scan(t) ==
    \/ Prepare(t) \/ NextLib(t) \/ List(t) \/ LastLib(t) \/ Judge(t) \/ Judged(t)
    \/ Flush(t) \/ FlushLast(t) \/ Join(t) \/ JoinIncremental(t)
    \/ Retry(t) \/ RetryJoin(t) \/ Finish(t)

TaskStep(t, n) == TaskStart(t, n) \/ TaskAnswer(t, n)

Stopping == StopScanner \/ ScannerStopped \/ StopBatches \/ BatchesStopped

Next ==
    \/ \E t \in Threads :
         \/ Begin(t) \/ SchedulerExit(t) \/ TriggerScan(t) \/ Scan(t)
         \/ \E n \in DOMAIN th[t].tasks : TaskStep(t, n) \/ TaskAcquire(t, n)
    \/ Stopping

Spec == Init /\ [][Next]_vars

(* Goroutines run, requests are answered or time out (retryClient after     *)
(* 20 s, prefetchClient after 120 s), a scheduler does not miss the closed   *)
(* channel for ever, and wg.Wait returns when the count has been zero even  *)
(* if TriggerScan raises it again.  No scan need begin, and Server.Stop     *)
(* need not be called.                                                      *)
Fairness ==
    /\ \A t \in Threads :
         /\ WF_vars(Scan(t)) /\ SF_vars(SchedulerExit(t))
         /\ WF_vars(\E n \in DOMAIN th[t].tasks : TaskStep(t, n))
         /\ SF_vars(\E n \in DOMAIN th[t].tasks : TaskAcquire(t, n))
    /\ SF_vars(ScannerStopped) /\ WF_vars(StopBatches) /\ WF_vars(BatchesStopped)

FairSpec == Spec /\ Fairness

-----------------------------------------------------------------------------
(* The flag admits one scan at a time and is never left behind, whichever   *)
(* way a scan ends (library_scan.go:237-241, 484-491, 540-545).             *)
OneScan ==
    /\ running <=> \E t \in Threads : Scanning(t)
    /\ \A t, u \in Threads : Scanning(t) /\ Scanning(u) => t = u

(* The tokens in the channel are those of the tasks that make a request, one *)
(* each, over whatever scans and batches they are spread: none is left       *)
(* behind by a task that has failed or was cancelled, so that later tasks   *)
(* wait for ever, and none is taken out twice, so that more requests than   *)
(* the channel has places go out (batch_prefetch.go:136-146, 170-208).      *)
SemaphoreKept == sem = Cardinality(Requesting) /\ sem <= Concurrency

(* A full scan that is not stopped ends only when every item it has found   *)
(* worth a prefetch has been tried, and every item whose prefetch failed    *)
(* has been tried again (library_scan.go:579-649, 692-723).                 *)
AllServed ==
    [][\A t \in Threads \ Incremental :
         th[t].pc = "retry" /\ ~Scanning(t)' /\ ~stopCh => th[t].owed = {}]_vars

(* Once Server.Stop has waited for the scanner no task is left and none      *)
(* starts any more, though TriggerScan may still start a scan: the          *)
(* prefetcher, the cache and the logger are closed after that               *)
(* (server.go:340-355, library_scan.go:668-675).                            *)
NoTaskAfterStop ==
    stopper \notin {"serving", "scanner"} => \A t \in Threads : th[t].tasks = <<>>

(* A scan ends, and running does not stay set (library_scan.go:548-732).     *)
ScanEnds == \A t \in Threads : Scanning(t) ~> ~Scanning(t)

(* Server.Stop gets past the scanner and the prefetcher, at whatever point   *)
(* of a scan it is called (server.go:340-346).                              *)
StopEnds == stopCh ~> stopper = "stopped"

=============================================================================

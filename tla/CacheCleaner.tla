---------------------------- MODULE CacheCleaner ----------------------------
(***************************************************************************)
(* The background cleaner of internal/cache/cache.go and the calls that    *)
(* stop and restart it, UpdateTTL (a changed setting) and Stop.            *)
(*                                                                         *)
(* Every cleaner is named by the stop channel made for it, but it does not *)
(* keep that channel: each time around its loop it reads c.stopCleaner     *)
(* anew, without the mutex under which UpdateTTL replaces it.  The field   *)
(* is one word, so the read yields the channel before or after.            *)
(***************************************************************************)
EXTENDS Naturals, FiniteSets

CONSTANTS
    Chans,      (* stop channels, and the cleaners started with them        *)
    First,      (* the channel made by NewWithLimits                        *)
    NoChan

ASSUME ChansAssumption == First \in Chans /\ NoChan \notin Chans

VARIABLES
    stopCleaner,    (* the field of that name                               *)
    closed,         (* the channels that have been closed                   *)
    cleanerClosed, stopped, (* the two atomic flags                         *)
    updating,       (* UpdateTTL is between close and make, with the mutex  *)
    panicked,       (* a closed channel was closed                          *)
    pc,             (* of every cleaner                                     *)
    held            (* the channel that a cleaner's select waits on         *)

fieldVars == <<stopCleaner, closed, cleanerClosed, stopped, updating, panicked>>
cleanerVars == <<fieldVars, pc, held>>

CleanerTypeOK ==
    /\ stopCleaner \in Chans /\ closed \subseteq Chans
    /\ {cleanerClosed, stopped, updating, panicked} \subseteq BOOLEAN
    /\ pc \in [Chans -> {"unborn", "read", "select", "cleanup", "gone"}]
    /\ held \in [Chans -> Chans \cup {NoChan}]
    /\ \A g \in Chans : held[g] # NoChan <=> pc[g] = "select"

CleanerInit ==
    /\ stopCleaner = First /\ closed = {}
    /\ cleanerClosed = FALSE /\ stopped = FALSE
    /\ updating = FALSE /\ panicked = FALSE
    /\ pc = [g \in Chans |-> IF g = First THEN "read" ELSE "unborn"]
    /\ held = [g \in Chans |-> NoChan]

Close(ch) ==
    /\ closed' = closed \cup {ch}
    /\ panicked' = (panicked \/ ch \in closed)

-----------------------------------------------------------------------------
(* The bound on the changes of the setting: one for every channel left.      *)
More == \E ch \in Chans : pc[ch] = "unborn"

BugUpdateClose ==      \* restarts a cleaner of a stopped cache
    /\ ~updating /\ More
    /\ updating' = TRUE
    /\ IF cleanerClosed THEN UNCHANGED <<closed, panicked>> ELSE Close(stopCleaner)
    /\ cleanerClosed' = TRUE
    /\ UNCHANGED <<stopCleaner, stopped, pc, held>>

(* UpdateTTL with another ttl, up to the close; once stopped it starts no    *)
(* cleaner any more.                                                        *)
UpdateClose ==
    /\ ~updating /\ ~stopped /\ More
    /\ updating' = TRUE
    /\ IF cleanerClosed THEN UNCHANGED <<closed, panicked>> ELSE Close(stopCleaner)
    /\ cleanerClosed' = TRUE
    /\ UNCHANGED <<stopCleaner, stopped, pc, held>>

BugUpdateMake ==       \* the new channel without a cleaner
    /\ updating
    /\ \E ch \in Chans : pc[ch] = "unborn" /\ stopCleaner' = ch
    /\ cleanerClosed' = FALSE /\ updating' = FALSE
    /\ UNCHANGED <<closed, stopped, panicked, pc, held>>

(* The rest of UpdateTTL: a new channel, a new cleaner.                      *)
UpdateMake ==
    /\ updating
    /\ \E ch \in Chans :
         /\ pc[ch] = "unborn"
         /\ stopCleaner' = ch
         /\ pc' = [pc EXCEPT ![ch] = "read"]
    /\ cleanerClosed' = FALSE /\ updating' = FALSE
    /\ UNCHANGED <<closed, stopped, panicked, held>>

BugStop ==             \* does not look whether it has been stopped
    /\ ~updating
    /\ stopped' = TRUE
    /\ Close(stopCleaner)
    /\ cleanerClosed' = TRUE
    /\ UNCHANGED <<stopCleaner, updating, pc, held>>

(* Stop, under the mutex; a second call returns.                            *)
Stop ==
    /\ ~updating /\ ~stopped
    /\ stopped' = TRUE
    /\ IF cleanerClosed THEN UNCHANGED <<closed, panicked>> ELSE Close(stopCleaner)
    /\ cleanerClosed' = TRUE
    /\ UNCHANGED <<stopCleaner, updating, pc, held>>

-----------------------------------------------------------------------------
(* The loop of cleaner(): the operand of the select is read ...             *)
Read(g) ==
    /\ pc[g] = "read"
    /\ held' = [held EXCEPT ![g] = stopCleaner]
    /\ pc' = [pc EXCEPT ![g] = "select"]
    /\ UNCHANGED fieldVars

Leave(g, to) ==
    /\ pc' = [pc EXCEPT ![g] = to]
    /\ held' = [held EXCEPT ![g] = NoChan]
    /\ UNCHANGED fieldVars

(* ... the ticker has fired, whether or not the channel is closed too ...   *)
TickerFires(g) == pc[g] = "select" /\ Leave(g, "cleanup")

(* ... the channel is closed ...                                            *)
Exit(g) == pc[g] = "select" /\ held[g] \in closed /\ Leave(g, "gone")

(* ... and cleanup waits for the mutex.                                     *)
Clean(g) ==
    /\ pc[g] = "cleanup" /\ ~updating
    /\ pc' = [pc EXCEPT ![g] = "read"]
    /\ UNCHANGED <<fieldVars, held>>

CleanerNext ==
    \/ UpdateClose \/ UpdateMake \/ Stop
    \/ \E g \in Chans : Read(g) \/ TickerFires(g) \/ Exit(g) \/ Clean(g)

CleanerSpec == CleanerInit /\ [][CleanerNext]_cleanerVars

(* Goroutines run; a select whose two cases are both ready again and again  *)
(* does not ignore the channel for ever.  Settings need not change, and     *)
(* Stop need not be called.                                                 *)
CleanerFairness ==
    /\ WF_cleanerVars(UpdateMake)
    /\ \A g \in Chans : /\ WF_cleanerVars(Read(g)) /\ WF_cleanerVars(Clean(g))
                        /\ SF_cleanerVars(Exit(g))

CleanerFairSpec == CleanerSpec /\ CleanerFairness

-----------------------------------------------------------------------------
(* No closed channel is closed, however UpdateTTL and Stop alternate: the    *)
(* process would go down (the comments at cache.go:475 and 499-506).        *)
NoPanic == ~panicked

(* A cleaner waits on the current channel or on a closed one, so that the    *)
(* next UpdateTTL or Stop reaches all of them (cache.go:460-472).           *)
NoLostCleaner ==
    \A g \in Chans : pc[g] = "select" => held[g] = stopCleaner \/ held[g] \in closed

(* Until Stop, the cache never remains without a cleaner: one is running    *)
(* that will not find its channel closed (cache.go:491-515).                *)
StillCleaning ==
    ~stopped /\ ~updating =>
        /\ stopCleaner \notin closed
        /\ \E g \in Chans : \/ pc[g] \in {"read", "cleanup"}
                            \/ pc[g] = "select" /\ held[g] = stopCleaner

(* After Stop every cleaner ends, those that have outlived an UpdateTTL     *)
(* included, and none is started (cache.go:476-488, 499-502).               *)
AllEnd == stopped ~> [](\A g \in Chans : pc[g] \in {"unborn", "gone"})

=============================================================================

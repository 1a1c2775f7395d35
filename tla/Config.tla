------------------------------- MODULE Config -------------------------------
(***************************************************************************)
(* The configuration: the file config.yaml, viper's copy of it, Global, and *)
(* what the running server uses of it (internal/config/config.go,           *)
(* cmd/main.go, Reload of internal/proxy/server.go).                        *)
(*                                                                         *)
(* Three actors change it.  An administrator edits the file by hand; the    *)
(* dashboard changes Global and saves it; the watcher polls the file, waits *)
(* until it is quiet, reads it and lets the server reload.  The watcher     *)
(* reads the file without Global's mutex, so a save can come between that   *)
(* reading and its Unmarshal.                                               *)
(*                                                                         *)
(* Of the settings, cache_ttl and target stand for those Reload applies and  *)
(* strm_volumes for those it does not; strm_paths, which goes along with     *)
(* strm_volumes, is not modelled.  What viper was given with Set goes before the file (override);    *)
(* no environment variable is set.  The watcher's first look at the file    *)
(* and the creation of the server are part of the start.                    *)
(***************************************************************************)
EXTENDS Naturals

CONSTANTS
    TTLs,           (* minutes                                              *)
    GoodTargets,    (* addresses that url.Parse accepts                     *)
    BadTargets,     (* addresses that begin with http:// but do not parse   *)
    Volumes,        (* mappings host:container:ro                           *)
    Default,        (* the document of createDefaultConfig                  *)
    MaxEdits,       (* bound: edits by hand                                 *)
    MaxChanges,     (* bound: changes by the dashboard                      *)
    MaxStarts       (* bound: starts of the process                         *)

Targets == GoodTargets \cup BadTargets

(* A document, or what Global holds.  A time to live below a minute is 0:    *)
(* that many minutes are saved for it.                                      *)
Docs == [ttl: TTLs \cup {0}, target: Targets, volumes: SUBSET Volumes]

ASSUME DocsAssumption ==
    /\ TTLs \subseteq Nat \ {0}
    /\ Default \in [ttl: TTLs, target: GoodTargets, volumes: SUBSET Volumes]
ASSUME BoundsAssumption == {MaxEdits, MaxChanges, MaxStarts} \subseteq Nat

VARIABLES
    file,           (* config.yaml: kind, and its document                  *)
    changed,        (* the file's time is after lastModTime                 *)
    up,             (* the process runs                                     *)
    mem,            (* Global                                               *)
    overridden,     (* viper.Set was called in this process                 *)
    override,       (* what was set last                                    *)
    read,           (* what viper read from the file last                   *)
    pc,             (* where the watcher is                                 *)
    pendingChange,  (* the file has changed and may change again            *)
    newTarget,      (* Reload's local variable                              *)
    applied,        (* currentTarget of the server, ttl of its cache        *)
    unsaved,        (* history: Global was changed and not saved            *)
    count           (* of edits, changes and starts                         *)

process == <<up, mem, overridden, override, read, pc, pendingChange, newTarget, applied, unsaved>>
configVars == <<file, changed, process, count>>

(* Mistyped: a setting that is not modelled, like max_cache_items, does not  *)
(* decode.  Broken: not YAML.                                               *)
Kinds == {"missing", "good", "mistyped", "broken"}
Files == [kind: Kinds, doc: Docs]
Good(d) == [kind |-> "good", doc |-> d]

ConfigTypeOK ==
    /\ file \in Files
    /\ changed \in BOOLEAN /\ up \in BOOLEAN /\ overridden \in BOOLEAN
    /\ pendingChange \in BOOLEAN /\ unsaved \in BOOLEAN
    /\ mem \in Docs /\ override \in Docs
    /\ read \in Files
    /\ pc \in {"poll", "unmarshal", "reload", "target", "cache", "panicked"}
    /\ newTarget \in Targets
    /\ applied \in [ttl: TTLs, target: Targets]
    /\ count \in [edits: 0 .. MaxEdits, changes: 0 .. MaxChanges, starts: 0 .. MaxStarts]

ConfigInit ==
    /\ file = [kind |-> "missing", doc |-> Default]
    /\ changed = FALSE
    /\ up = FALSE
    /\ mem = Default
    /\ overridden = FALSE
    /\ override = Default
    /\ read = Good(Default)
    /\ pc = "poll"
    /\ pendingChange = FALSE
    /\ newTarget = Default.target
    /\ applied = [ttl |-> Default.ttl, target |-> Default.target]
    /\ unsaved = FALSE
    /\ count = [edits |-> 0, changes |-> 0, starts |-> 0]

(***************************************************************************)
(* The process starts: Load, Watch, NewServer.  A file that is missing is   *)
(* created and read, and Global is saved to it, which sets every override.  *)
(* A file that cannot be read or decoded ends the process, and so do a      *)
(* target that does not parse and a cache_ttl of 0 (the cleaner's ticker).  *)
(***************************************************************************)
Load(d) == /\ file' = Good(d)
           /\ mem' = d
           /\ override' = d
           /\ overridden' = (file.kind = "missing")
           /\ read' = file'

Start == /\ ~up
         /\ count.starts < MaxStarts
         /\ \/ file.kind = "missing" /\ Load(Default)
            \/ /\ file.kind = "good"
               /\ file.doc.ttl > 0
               /\ file.doc.target \in GoodTargets
               /\ Load(file.doc)
         /\ up' = TRUE
         /\ changed' = FALSE
         /\ pc' = "poll"
         /\ pendingChange' = FALSE
         /\ newTarget' = mem'.target
         /\ applied' = [ttl |-> mem'.ttl, target |-> mem'.target]
         /\ unsaved' = FALSE
         /\ count' = [count EXCEPT !.starts = @ + 1]

(* The process ends, by a signal or a crash; nothing but the file survives.  *)
Stop == /\ up
        /\ up' = FALSE
        /\ mem' = Default
        /\ overridden' = FALSE
        /\ override' = Default
        /\ read' = Good(Default)
        /\ pc' = "poll"
        /\ pendingChange' = FALSE
        /\ newTarget' = Default.target
        /\ applied' = [ttl |-> Default.ttl, target |-> Default.target]
        /\ unsaved' = FALSE
        /\ UNCHANGED <<file, changed, count>>

(* Somebody edits the file.  No value is checked when it is read, so a        *)
(* cache_ttl of 0 comes through.                                             *)
HandEdit == /\ count.edits < MaxEdits
            /\ \E k \in Kinds \ {"missing"}, d \in Docs :
                  file' = [kind |-> k, doc |-> IF k = "broken" THEN Default ELSE d]
            /\ changed' = TRUE
            /\ count' = [count EXCEPT !.edits = @ + 1]
            /\ UNCHANGED process

(***************************************************************************)
(* The dashboard.  Each handler holds Global's mutex and ends with           *)
(* saveConfigLocked: the overrides are set, and then the file is written, by *)
(* renaming a temporary file or directly.  When neither works Global and    *)
(* the overrides stay changed.                                              *)
(***************************************************************************)
SaveConfigLocked(d) ==
    /\ mem' = d
    /\ override' = d
    /\ overridden' = TRUE
    /\ \/ /\ file' = Good(d)
          /\ changed' = TRUE
          /\ unsaved' = FALSE
       \/ /\ unsaved' = TRUE
          /\ UNCHANGED <<file, changed>>

Change == /\ up
          /\ count.changes < MaxChanges
          /\ count' = [count EXCEPT !.changes = @ + 1]
          /\ UNCHANGED <<up, read, pc, pendingChange, newTarget, applied>>

(* What an update that passes validateConfigUpdates can make of Global: any   *)
(* of the keys are given, a cache_ttl is in range.                           *)
Updated == {d \in Docs : d.ttl > 0 \/ d.ttl = mem.ttl}

UpdateConfig == /\ Change
                /\ \E d \in Updated : SaveConfigLocked(d)

(* Its strm_paths is no list, which the validation does not look at: the      *)
(* update is refused when that key's turn comes, and the keys before it, in  *)
(* the random order of a Go map, stay.                                       *)
UpdateRefused == /\ Change
                 /\ mem' \in Updated
                 /\ unsaved' = (unsaved \/ mem' # mem)
                 /\ UNCHANGED <<file, changed, overridden, override>>

AddStrmVolume == /\ Change
                 /\ \E v \in Volumes \ mem.volumes :
                       SaveConfigLocked([mem EXCEPT !.volumes = @ \cup {v}])

DeleteStrmVolume == /\ Change
                    /\ \E v \in mem.volumes :
                          SaveConfigLocked([mem EXCEPT !.volumes = @ \ {v}])

(***************************************************************************)
(* The watcher.                                                             *)
(***************************************************************************)
At(p) == up /\ pc = p

(* The ticker of 2 s: the file's time is new.                                *)
Poll == /\ At("poll")
        /\ changed
        /\ changed' = FALSE
        /\ pendingChange' = TRUE
        /\ UNCHANGED <<file, up, mem, overridden, override, read, pc, newTarget, applied,
                       unsaved, count>>

(* The file has been quiet for 1 s: ReadInConfig, without the mutex.          *)
ReadInConfig ==
    /\ At("poll")
    /\ pendingChange
    /\ pendingChange' = FALSE
    /\ IF file.kind = "broken" THEN UNCHANGED <<read, pc>>
                               ELSE read' = file /\ pc' = "unmarshal"
    /\ UNCHANGED <<file, changed, up, mem, overridden, override, newTarget, applied, unsaved, count>>

(* Unmarshal into Global and CacheTTL in minutes.  A setting that does not    *)
(* decode ends it after the others are decoded, and before CacheTTL, now so  *)
(* many nanoseconds, is multiplied.                                         *)
Mistyped == ~overridden /\ read.kind = "mistyped"

(* Mutant: the file goes before the overrides.                               *)
BugMerged == read.doc

Merged == IF overridden THEN override ELSE read.doc

(* Mutant: lastModTime is taken when the reload has happened, not before.     *)
BugUnmarshal == /\ At("unmarshal")
                /\ changed' = FALSE
                /\ IF Mistyped THEN mem' = [Merged EXCEPT !.ttl = 0] /\ pc' = "poll"
                               ELSE mem' = Merged /\ pc' = "reload"
                /\ UNCHANGED <<file, up, overridden, override, read, pendingChange, newTarget,
                               applied, unsaved, count>>

Unmarshal == /\ At("unmarshal")
             /\ IF Mistyped THEN mem' = [Merged EXCEPT !.ttl = 0] /\ pc' = "poll"
                            ELSE mem' = Merged /\ pc' = "reload"
             /\ UNCHANGED <<file, changed, up, overridden, override, read, pendingChange, newTarget,
                            applied, unsaved, count>>

(* Server.Reload reads the target and compares it with currentTarget.        *)
ReloadTarget == /\ At("reload")
                /\ newTarget' = mem.target
                /\ pc' = "target"
                /\ UNCHANGED <<file, changed, up, mem, overridden, override, read, pendingChange,
                               applied, unsaved, count>>

(* A new target that does not parse ends Reload.                             *)
ApplyTarget ==
    /\ At("target")
    /\ IF newTarget = applied.target \/ newTarget \in GoodTargets
       THEN applied' = [applied EXCEPT !.target = newTarget] /\ pc' = "cache"
       ELSE applied' = applied /\ pc' = "poll"
    /\ UNCHANGED <<file, changed, up, mem, overridden, override, read, pendingChange, newTarget,
                   unsaved, count>>

(* Cache.UpdateTTL starts a cleaner with a ticker of half of the time, and   *)
(* a ticker of 0 panics, which ends the process.                             *)
ReloadCache ==
    /\ At("cache")
    /\ \/ /\ mem.ttl > 0
          /\ applied' = [applied EXCEPT !.ttl = mem.ttl]
          /\ pc' = "poll"
          /\ UNCHANGED up
       \/ /\ mem.ttl = 0
          /\ pc' = "panicked"
          /\ up' = FALSE
          /\ UNCHANGED applied
    /\ UNCHANGED <<file, changed, mem, overridden, override, read, pendingChange, newTarget, unsaved, count>>

Reload == ReloadTarget \/ ApplyTarget \/ ReloadCache

ConfigNext ==
    \/ Start \/ Stop \/ HandEdit
    \/ UpdateConfig \/ UpdateRefused \/ AddStrmVolume \/ DeleteStrmVolume
    \/ Poll \/ ReadInConfig \/ Unmarshal
    \/ ReloadTarget \/ ApplyTarget \/ ReloadCache

ConfigSpec == ConfigInit /\ [][ConfigNext]_configVars

(* The watcher's goroutine and its timers run.                               *)
ConfigFairSpec ==
    /\ ConfigSpec
    /\ WF_configVars(Poll)
    /\ WF_configVars(ReadInConfig)
    /\ WF_configVars(Unmarshal)
    /\ WF_configVars(Reload)

(***************************************************************************)
(* Properties.                                                              *)
(***************************************************************************)

(* While the file holds what the dashboard saved, Global holds it too: the   *)
(* watcher, which reads the file without the mutex (config.go:317) and       *)
(* decodes it later, does not undo a save with an older file.               *)
SaveNotUndone == up /\ overridden /\ ~unsaved /\ file = Good(override) => mem = override

(* Why: once something was set, memory is what was set last, unless a failed *)
(* save or a refused update changed it.                                      *)
OverridesRule == up /\ overridden /\ ~unsaved => mem = override

(* When a file that can be read and decoded stays, the server comes to work  *)
(* with what Global holds, and that is the file's content as long as the     *)
(* dashboard saved nothing: no change is lost between the ticker, the        *)
(* debounce timer and Reload (config.go:281-298, server.go:367), whatever    *)
(* comes while the watcher is busy.                                         *)
InForce == /\ applied = [ttl |-> mem.ttl, target |-> mem.target]
           /\ ~overridden => mem = file.doc
ReloadConverges ==
    <>[](up /\ file.kind = "good" /\ mem.target \in GoodTargets /\ ~unsaved) => <>[]InForce

(* Does an edit by hand come into force without a restart, as                *)
(* README.md:134 promises?  It does not after the first save.               *)
HandEditApplied ==
    <>[](up /\ file.kind = "good" /\ ~unsaved) => <>[](up => mem = file.doc)
=============================================================================

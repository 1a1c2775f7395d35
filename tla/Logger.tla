------------------------------- MODULE Logger -------------------------------
(***************************************************************************)
(* The logger (internal/logger/logger.go): goroutines enqueue entries, one *)
(* writer appends them to the day's file, rotates that file when it has    *)
(* grown, and drains the queue when the logger is closed; a cleaner        *)
(* removes the files of earlier days.  The dashboard removes log files     *)
(* beside it (handleLogsClear).                                            *)
(*                                                                         *)
(* Entries are numbered in the order in which they enter the channel, so   *)
(* the channel holds the entries taken + 1 .. sent.  A file is the sequence *)
(* of its entries, named by its day and its slot: 0 is <day>.log, s is     *)
(* <day>_s.log.  Files without their name, which the writer goes on        *)
(* filling when its file is removed, are not kept.                         *)
(*                                                                         *)
(* Left out: the console, the level, and Sync.  The module has no Next of  *)
(* its own: module Lifecycle runs it inside the program.                   *)
(***************************************************************************)
EXTENDS Naturals, Sequences, SequencesExt

CONSTANTS
    Loggers,        (* goroutines that log                                  *)
    QueueSize,      (* the capacity of logChan                              *)
    MaxLogFileSize, (* in entries; a file is rotated when it is longer       *)
    Slices,         (* rotated files that are kept, 3 in the code           *)
    MaxEntries,     (* bound: entries that are logged                       *)
    Days,           (* bound: the last day                                  *)
    MaxFaults       (* bound: moments at which a file operation fails and   *)
                    (* files that the dashboard removes, together           *)

ASSUME LoggerAssumption ==
    /\ {QueueSize, MaxLogFileSize, Slices} \subseteq Nat \ {0}
    /\ {MaxEntries, Days, MaxFaults} \subseteq Nat

VARIABLES
    passing,        (* goroutines in log(), past its look at closed         *)
    sent,           (* entries that have entered the channel                *)
    taken,          (* entries the writer has taken out                     *)
    closed,         (* Close has begun                                      *)
    due,            (* history: sent, when it began                         *)
    shutdown,       (* the channel of that name is closed                   *)
    writer,         (* asyncWriter                                          *)
    cleaner,        (* cleanupOldLogs is running                            *)
    today,          (* the clock                                            *)
    currentDate,    (* the day of the writer's file; NoDate at first        *)
    handle,         (* the writer's file, see Handles                       *)
    size,           (* currentFileSize                                      *)
    dir,            (* the directory: the files by their names              *)
    dayOf,          (* history: the day on which each entry was taken       *)
    faults, clears  (* what the bounds count                                *)

queueVars == <<passing, sent, closed, due, shutdown>>
fileVars  == <<currentDate, handle, size, dir>>
logVars   == <<queueVars, taken, writer, cleaner, today, fileVars, dayOf, faults, clears>>

NoDate == Days + 1
Slots  == 0 .. Slices
Names  == (0 .. Days) \X Slots

(* none: no file has been opened yet.  closed: the file has been closed,   *)
(* another could not be opened, and the buffer is still good.  broken: a   *)
(* write has failed, and bufio repeats its error ever after.               *)
Handles == {"none", "open", "closed", "broken"}

LogTypeOK ==
    /\ passing \subseteq Loggers
    /\ sent \in 0 .. MaxEntries /\ due \in 0 .. sent
    /\ taken \in 0 .. sent /\ sent - taken <= QueueSize
    /\ {closed, shutdown, cleaner} \subseteq BOOLEAN
    /\ writer \in {"select", "drain", "gone"}
    /\ today \in 0 .. Days /\ currentDate \in 0 .. NoDate
    /\ handle \in Handles
    /\ size \in Nat
    /\ DOMAIN dir \subseteq Names /\ dir \in [DOMAIN dir -> Seq(1 .. taken)]
    /\ dayOf \in [1 .. taken -> 0 .. Days]
    /\ faults \in 0 .. MaxFaults /\ clears \in 0 .. MaxFaults

-----------------------------------------------------------------------------
(* Files.                                                                  *)

Current(d) == <<d, 0>>

Without(f, S) == [n \in DOMAIN f \ S |-> f[n]]

(* initLogFileLocked: the day's file is opened for appending, and made if it *)
(* is not there.                                                           *)
Opened(f, d) == IF Current(d) \in DOMAIN f THEN f
                ELSE [n \in DOMAIN f \cup {Current(d)} |-> IF n \in DOMAIN f THEN f[n] ELSE <<>>]

BugRotated(f, d, failing) ==      \* the oldest slice is neither removed nor replaced
    LET Has(s)   == <<d, s>> \in DOMAIN f
        Moves(s) == Has(s) /\ s < Slices /\ (s + 1 = Slices => s = 0 \/ ~Has(Slices))
        Fills(s) == s > 0 /\ Moves(s - 1)
        Kept     == {n \in DOMAIN f : n[1] # d}
                    \cup {<<d, s>> : s \in {x \in Slots : Fills(x) \/ (Has(x) /\ ~Moves(x))}}
    IN  [n \in Kept |-> IF n[1] = d /\ Fills(n[2]) THEN f[<<d, n[2] - 1>>] ELSE f[n]]

BugFirstFree(f, d, failing) ==    \* the current file goes to the first free slot
    LET Free == {s \in 1 .. Slices : <<d, s>> \notin DOMAIN f}
    IN  IF Free = {} \/ Current(d) \notin DOMAIN f THEN f
        ELSE LET s == CHOOSE x \in Free : \A y \in Free : x <= y
             IN  [n \in (DOMAIN f \ {Current(d)}) \cup {<<d, s>>} |->
                     IF n = <<d, s>> THEN f[Current(d)] ELSE f[n]]

(* rotateLogFile: the oldest slice is removed, and the others move up, from *)
(* the oldest to the newest.  Operations in failing fail.                  *)
Rotated(f, d, failing) ==
    LET Has(s)   == <<d, s>> \in DOMAIN f
        Moves(s) == s < Slices /\ <<"move", s>> \notin failing /\ Has(s)
        Fills(s) == s > 0 /\ Moves(s - 1)
        Stays(s) == Has(s) /\ ~Moves(s) /\ (s < Slices \/ <<"move", s>> \in failing)
        Kept     == {n \in DOMAIN f : n[1] # d}
                    \cup {<<d, s>> : s \in {x \in Slots : Fills(x) \/ Stays(x)}}
    IN  [n \in Kept |-> IF n[1] = d /\ Fills(n[2]) THEN f[<<d, n[2] - 1>>] ELSE f[n]]

(* The writer's view: its file, how long that is, and the directory.  An   *)
(* attempt to open today's file puts it in the place of the old one, with a *)
(* new buffer; a file that cannot be opened leaves everything as it was.   *)
Open(w, opens) ==
    IF opens
    THEN LET f == Opened(w.dir, today)
         IN  [date |-> today, handle |-> "open", dir |-> f, size |-> Len(f[Current(today)])]
    ELSE w
Close(w) == IF w.handle = "open" THEN [w EXCEPT !.handle = "closed"] ELSE w

(* ensureLogFileLocked.                                                    *)
Ensure(w, failing) == IF w.date = today THEN w ELSE Open(Close(w), <<"ensure", 0>> \notin failing)

(* The file takes the entry, unless it has lost its name: then the entry is *)
(* lost with it.  A buffer that could not be written, because the file is  *)
(* closed or the disk is full, takes nothing more.                         *)
Appended(f, n, e) == IF n \in DOMAIN f THEN [f EXCEPT ![n] = Append(@, e)] ELSE f

Append1(w, e, failing) ==
    [IF w.handle = "closed" \/ <<"write", 0>> \in failing
     THEN [w EXCEPT !.handle = "broken"]
     ELSE [w EXCEPT !.dir = Appended(@, Current(w.date), e)]
     EXCEPT !.size = @ + 1]

(* A file that has grown too long is closed, rotated and opened anew.      *)
Rotate(w, failing) ==
    IF w.size <= MaxLogFileSize THEN w
    ELSE Open([Close(w) EXCEPT !.dir = Rotated(@, w.date, failing)], <<"open", 0>> \notin failing)

(* writeToFile.                                                            *)
WriteToFile(w, e, failing) ==
    LET v == Ensure(w, failing)
    IN  IF v.handle \in {"none", "broken"} THEN v
        ELSE Rotate(Append1(v, e, failing), failing)

(* processEntry.  The file operations that fail in it are any.             *)
Operations   == {"move"} \X Slots \cup {"ensure", "write", "open"} \X {0}
ProcessEntry ==
    /\ taken < sent
    /\ taken' = taken + 1
    /\ dayOf' = Append(dayOf, today)
    /\ \E failing \in IF faults + clears < MaxFaults THEN SUBSET Operations ELSE {{}} :
          LET w == WriteToFile([date |-> currentDate, handle |-> handle, dir |-> dir, size |-> size],
                               taken + 1, failing)
          IN  /\ currentDate' = w.date /\ handle' = w.handle
              /\ size' = w.size /\ dir' = w.dir
              /\ faults' = IF failing = {} THEN faults ELSE faults + 1

-----------------------------------------------------------------------------
(* New: the file is opened, or cannot be; the two goroutines are started.  *)
LogInit ==
    /\ passing = {} /\ sent = 0 /\ taken = 0
    /\ closed = FALSE /\ due = 0 /\ shutdown = FALSE
    /\ writer = "select" /\ cleaner = TRUE
    /\ today = 0 /\ clears = 0 /\ dayOf = <<>>
    /\ \/ faults = 0 /\ currentDate = 0 /\ handle = "open" /\ dir = Opened(<<>>, 0)
       \/ faults = 1 /\ currentDate = NoDate /\ handle = "none" /\ dir = <<>>
    /\ faults <= MaxFaults
    /\ size = 0

(* log: a closed logger takes nothing more.                                *)
Log(g) == /\ g \notin passing
          /\ sent < MaxEntries
          /\ ~closed
          /\ passing' = passing \cup {g}
          /\ UNCHANGED <<sent, closed, due, shutdown, taken, writer, cleaner, today, fileVars,
                         dayOf, faults, clears>>

BugEnqueue(g) ==
    /\ g \in passing
    /\ passing' = passing \ {g}
    /\ sent < MaxEntries /\ sent' = sent + 1
    /\ UNCHANGED <<closed, due, shutdown, taken, writer, cleaner, today, fileVars,
                   dayOf, faults, clears>>

(* The entry enters the channel, or goes to the console if that is full.   *)
Enqueue(g) ==
    /\ g \in passing
    /\ passing' = passing \ {g}
    /\ \/ sent - taken < QueueSize /\ sent < MaxEntries /\ sent' = sent + 1
       \/ sent - taken = QueueSize /\ UNCHANGED sent
    /\ UNCHANGED <<closed, due, shutdown, taken, writer, cleaner, today, fileVars,
                   dayOf, faults, clears>>

(* asyncWriter.  While it selects, the closed channel is one choice, an    *)
(* entry another.                                                          *)
WriterTake == /\ writer \in {"select", "drain"}
              /\ ProcessEntry
              /\ UNCHANGED <<queueVars, writer, cleaner, today, clears>>

WriterDrain == /\ writer = "select" /\ shutdown
               /\ writer' = "drain"
               /\ UNCHANGED <<queueVars, taken, cleaner, today, fileVars, dayOf, faults, clears>>

WriterGone == /\ writer = "drain" /\ taken = sent
              /\ writer' = "gone"
              /\ handle' = IF handle = "open" THEN "closed" ELSE handle
              /\ UNCHANGED <<queueVars, taken, cleaner, today, currentDate, size, dir,
                             dayOf, faults, clears>>

(* doCleanup removes the files of earlier days, the writer's among them if *)
(* nothing has been logged yet today.                                      *)
CleanerRun == /\ cleaner
              /\ \E n \in DOMAIN dir : n[1] < today
              /\ dir' = Without(dir, {n \in DOMAIN dir : n[1] < today})
              /\ UNCHANGED <<queueVars, taken, writer, cleaner, today, currentDate, handle, size,
                             dayOf, faults, clears>>

CleanerExit == /\ cleaner /\ shutdown
               /\ cleaner' = FALSE
               /\ UNCHANGED <<queueVars, taken, writer, today, fileVars, dayOf, faults, clears>>

(* Close: what is logged from now on is not taken; the two goroutines are  *)
(* told; and the caller waits for them.                                    *)
CloseBegin == /\ closed' = TRUE /\ due' = sent
              /\ UNCHANGED <<passing, sent, shutdown, taken, writer, cleaner, today, fileVars,
                             dayOf, faults, clears>>
CloseTell  == /\ shutdown' = TRUE
              /\ UNCHANGED <<passing, sent, closed, due, taken, writer, cleaner, today, fileVars,
                             dayOf, faults, clears>>
Closed     == writer = "gone" /\ ~cleaner

-----------------------------------------------------------------------------
(* Around the logger.                                                      *)

NewDay == /\ today < Days
          /\ today' = today + 1
          /\ UNCHANGED <<queueVars, taken, writer, cleaner, fileVars, dayOf, faults, clears>>

(* handleLogsClear removes what its Glob has listed, one after the other;  *)
(* a file may resist.  The writer's handle stays open.                     *)
LogsClear(n) == /\ faults + clears < MaxFaults
                /\ n \in DOMAIN dir
                /\ dir' = Without(dir, {n})
                /\ clears' = clears + 1
                /\ UNCHANGED <<queueVars, taken, writer, cleaner, today, currentDate, handle, size,
                               dayOf, faults>>

Work == \/ \E g \in Loggers : Enqueue(g)
        \/ WriterTake \/ WriterDrain \/ WriterGone
        \/ CleanerRun \/ CleanerExit

Surroundings == \/ \E g \in Loggers : Log(g)
                \/ NewDay
                \/ \E n \in Names : LogsClear(n)

-----------------------------------------------------------------------------
Slot(d, s)   == IF <<d, s>> \in DOMAIN dir THEN dir[<<d, s>>] ELSE <<>>
Present      == UNION {ToSet(dir[n]) : n \in DOMAIN dir}

(* Whatever fails or is removed, no file is overwritten by an older one and *)
(* none is renamed out of order: read from the highest number down, the    *)
(* slices of a day are in the order in which they were written             *)
(* (logger.go:312-334, the renames that may fail one by one).              *)
SlicesInOrder ==
    \A d \in 0 .. Days, s, t \in Slots :
        \A i \in DOMAIN Slot(d, s), j \in DOMAIN Slot(d, t) :
            s > t \/ (s = t /\ i < j) => Slot(d, s)[i] < Slot(d, t)[j]

(* While no file operation fails and nobody clears, an entry is lost from  *)
(* the files only when its day is over, or when as many full slices as are *)
(* kept, all of them newer, have pushed it out.                            *)
PushedOut(e) == \A s \in 1 .. Slices :
                   /\ Len(Slot(dayOf[e], s)) > MaxLogFileSize
                   /\ \A f \in ToSet(Slot(dayOf[e], s)) : f > e
NewestKept ==
    faults = 0 /\ clears = 0 =>
        \A e \in 1 .. taken : e \in Present \/ dayOf[e] < today \/ PushedOut(e)
=============================================================================

------------------------------ MODULE Lifecycle ------------------------------
(***************************************************************************)
(* The program from its start to its end (cmd/main.go, Start and Stop of   *)
(* internal/proxy/server.go and of internal/dashboard/dashboard.go, Stop of *)
(* internal/handler/stream.go), with its logger (module Logger).           *)
(*                                                                         *)
(* main starts the servers and, when ListenAndServe has returned, stops    *)
(* everything and exits.  Another goroutine waits for a signal and stops   *)
(* everything too, and it is this that makes ListenAndServe return.  The   *)
(* first of the two to reach Server.Stop does its work, the other waits in *)
(* sync.Once.                                                              *)
(*                                                                         *)
(* The inner steps of the scanner's stop are in module LibraryScan, those  *)
(* of the cache's in CacheCleaner, and the workers' in Preload; here they  *)
(* are steps that end, because each of them does or has a timeout.         *)
(***************************************************************************)
EXTENDS Logger

CONSTANT MaxSignals     (* bound: signals that arrive                       *)

ASSUME SignalsAssumption == MaxSignals \in Nat

VARIABLES
    main,           (* main()                                               *)
    watcher,        (* the goroutine that waits for a signal                *)
    signals,        (* how many have arrived                                *)
    pending,        (* the channel sig holds one                            *)
    httpServer,     (* Server.httpServer is set                             *)
    inShutdown,     (* its Shutdown has been called                         *)
    stopper,        (* who is inside stopOnce                               *)
    stop,           (* how far Server.Stop is                               *)
    ended           (* how the process has ended                            *)

procVars == <<main, watcher, signals, pending, httpServer, inShutdown, stopper, stop, ended>>
vars     == <<logVars, procVars>>

MainPC    == {"start", "listen", "serving", "stop", "exit"}
WatcherPC == {"begin", "wait", "stop", "gone"}
StopPC    == {"idle", "http", "parts", "close", "tell", "wait", "done"}

TypeOK == /\ LogTypeOK
          /\ main \in MainPC /\ watcher \in WatcherPC /\ stop \in StopPC
          /\ signals \in 0 .. MaxSignals
          /\ {pending, httpServer, inShutdown} \subseteq BOOLEAN
          /\ stopper \in {"none", "main", "watcher"}
          /\ ended \in {"no", "exit", "killed"}

(* The configuration is loaded and the server made; the goroutine for the  *)
(* signal has been started.                                                *)
Init == /\ LogInit
        /\ main = "start" /\ watcher = "begin"
        /\ signals = 0 /\ pending = FALSE
        /\ httpServer = FALSE /\ inShutdown = FALSE
        /\ stopper = "none" /\ stop = "idle" /\ ended = "no"

-----------------------------------------------------------------------------
(* main.                                                                   *)

(* dash.Start, which does not fail, and server.Start up to ListenAndServe. *)
StartServers == /\ main = "start"
                /\ main' = "listen" /\ httpServer' = TRUE
                /\ UNCHANGED <<logVars, watcher, signals, pending, inShutdown, stopper, stop, ended>>

(* ListenAndServe: it does not listen after Shutdown, or cannot.           *)
Listen == /\ main = "listen"
          /\ \/ ~inShutdown /\ main' = "serving"
             \/ main' = "stop"
          /\ UNCHANGED <<logVars, watcher, signals, pending, httpServer, inShutdown,
                         stopper, stop, ended>>

(* Shutdown makes it return at once, with an error as always; dash.Stop    *)
(* follows, within 5 s.                                                    *)
ServingEnds == /\ main = "serving" /\ inShutdown
               /\ main' = "stop"
               /\ UNCHANGED <<logVars, watcher, signals, pending, httpServer, inShutdown,
                              stopper, stop, ended>>

BugMainStop == /\ main = "stop"
               /\ IF stopper = "none"
                  THEN stopper' = "main" /\ stop' = "http" /\ UNCHANGED main
                  ELSE /\ stopper = "main" => stop = "done"
                       /\ main' = "exit" /\ UNCHANGED <<stopper, stop>>
               /\ UNCHANGED <<logVars, watcher, signals, pending, httpServer, inShutdown, ended>>

(* server.Stop: main does the work, or waits until it is done.             *)
MainStop == /\ main = "stop"
            /\ \/ /\ stopper = "none"
                  /\ stopper' = "main" /\ stop' = "http" /\ UNCHANGED main
               \/ /\ stop = "done"
                  /\ main' = "exit" /\ UNCHANGED <<stopper, stop>>
            /\ UNCHANGED <<logVars, watcher, signals, pending, httpServer, inShutdown, ended>>

Exit == /\ main = "exit"
        /\ ended' = "exit"
        /\ UNCHANGED <<logVars, main, watcher, signals, pending, httpServer, inShutdown,
                       stopper, stop>>

-----------------------------------------------------------------------------
(* The goroutine that waits for a signal.                                  *)

(* From a user, from Docker, or from the callback of the Docker manager.   *)
(* Before signal.Notify the signal kills the process.  The channel holds   *)
(* one; further ones are lost.                                             *)
Signal == /\ signals < MaxSignals
          /\ signals' = signals + 1
          /\ IF watcher = "begin"
             THEN ended' = "killed" /\ UNCHANGED pending
             ELSE pending' = TRUE /\ UNCHANGED ended
          /\ UNCHANGED <<logVars, main, watcher, httpServer, inShutdown, stopper, stop>>

Notify == /\ watcher = "begin"
          /\ watcher' = "wait"
          /\ UNCHANGED <<logVars, main, signals, pending, httpServer, inShutdown, stopper, stop, ended>>

(* Then close(memStop), config.Stop and dash.Stop.                         *)
Receive == /\ watcher = "wait" /\ pending
           /\ watcher' = "stop" /\ pending' = FALSE
           /\ UNCHANGED <<logVars, main, signals, httpServer, inShutdown, stopper, stop, ended>>

WatcherStop == /\ watcher = "stop"
               /\ \/ /\ stopper = "none"
                     /\ stopper' = "watcher" /\ stop' = "http" /\ UNCHANGED watcher
                  \/ /\ stop = "done"
                     /\ watcher' = "gone" /\ UNCHANGED <<stopper, stop>>
               /\ UNCHANGED <<logVars, main, signals, pending, httpServer, inShutdown, ended>>

-----------------------------------------------------------------------------
(* Inside stopOnce.                                                        *)

SameProcess == UNCHANGED <<main, watcher, signals, pending, httpServer, stopper, ended>>

BugStopHTTP == /\ stop = "http"
               /\ inShutdown' = (httpServer /\ main = "serving")
               /\ stop' = "parts"
               /\ UNCHANGED logVars /\ SameProcess

(* serverCancel; Shutdown, if there is a server by now, within 5 s: requests *)
(* may still run when it gives up.                                         *)
StopHTTP == /\ stop = "http"
            /\ inShutdown' = httpServer
            /\ stop' = "parts"
            /\ UNCHANGED logVars /\ SameProcess

(* The scanner, the batches, the preload workers (within 10 s), the cache. *)
StopParts == /\ stop = "parts"
             /\ stop' = "close"
             /\ UNCHANGED <<logVars, inShutdown>> /\ SameProcess

(* logger.Close.                                                           *)
StopLogger == \/ /\ stop = "close" /\ CloseBegin
                 /\ stop' = "tell"
                 /\ UNCHANGED inShutdown /\ SameProcess
              \/ /\ stop = "tell" /\ CloseTell
                 /\ stop' = "wait"
                 /\ UNCHANGED inShutdown /\ SameProcess
              \/ /\ stop = "wait" /\ Closed
                 /\ stop' = "done"
                 /\ UNCHANGED <<logVars, inShutdown>> /\ SameProcess

-----------------------------------------------------------------------------
MainStep    == StartServers \/ Listen \/ ServingEnds \/ MainStop \/ Exit
WatcherStep == Notify \/ Receive \/ WatcherStop
StopStep    == StopHTTP \/ StopParts \/ StopLogger
LoggerStep  == Work /\ UNCHANGED procVars

Next == /\ ended = "no"
        /\ \/ MainStep \/ WatcherStep \/ StopStep
           \/ LoggerStep
           \/ Surroundings /\ UNCHANGED procVars
           \/ Signal

Spec == Init /\ [][Next]_vars

(* The writer takes the next entry, drains or ends, seen by taken and writer *)
(* alone, which nothing else changes.                                      *)
WriterMoves == \/ writer # "gone" /\ taken < sent /\ taken' = taken + 1 /\ UNCHANGED writer
               \/ WriterDrain
               \/ WriterGone

Alive(A) == ended = "no" /\ A

(* Goroutines run; what they wait for is bounded by a time.                *)
Fairness == /\ WF_vars(Alive(MainStep))
            /\ WF_vars(Alive(WatcherStep))
            /\ WF_vars(Alive(StopStep))
            /\ WF_<<taken, writer>>(Alive(WriterMoves))
            /\ WF_vars(Alive(CleanerExit /\ UNCHANGED procVars))
            /\ \A g \in Loggers : WF_vars(Alive(Enqueue(g) /\ UNCHANGED procVars))

FairSpec == Spec /\ Fairness

-----------------------------------------------------------------------------
(* Nothing that had been logged when Close began is lost with the process: *)
(* main, which ends it, waits inside stopOnce for the writer's drain even  *)
(* when the goroutine of the signal does the stopping (main.go:99 and 111, *)
(* server.go:324-356, logger.go:232-247).                                  *)
WrittenBeforeExit == ended = "exit" => taken >= due /\ writer = "gone"

(* A signal that finds the server set up, and a server that cannot listen, *)
(* end the process, whatever else is being logged, cleaned or stopped at   *)
(* the time.                                                               *)
ShutdownExits ==
    (main = "stop" \/ (watcher = "stop" /\ httpServer /\ stop \in {"idle", "http"})) ~> ended # "no"
=============================================================================

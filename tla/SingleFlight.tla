---------------------------- MODULE SingleFlight ----------------------------
(***************************************************************************)
(* What the map inflight of internal/handler/stream.go promises (the       *)
(* comments at stream.go:113-116 and 369-373): at any time a file has at   *)
(* most one promise; whoever asks while it is there may wait for it; it is *)
(* taken out of the map before it is fulfilled, so that a new one can be   *)
(* made at once; and it is fulfilled at most once.                         *)
(***************************************************************************)
CONSTANTS Paths, Requests, Chans, NoChan

VARIABLES
    flight,   (* the promise of every file, or NoChan          *)
    done,     (* the promises that have been fulfilled         *)
    waits     (* the promise every request waits for, or NoChan *)

vars == <<flight, done, waits>>

Init ==
    /\ flight = [p \in Paths |-> NoChan]
    /\ done = {}
    /\ waits = [q \in Requests |-> NoChan]

(* A new promise, known to nobody yet.                                      *)
Promise(p, c) ==
    /\ flight[p] = NoChan
    /\ \A o \in Paths : flight[o] # c
    /\ \A q \in Requests : waits[q] # c
    /\ flight' = [flight EXCEPT ![p] = c]
    /\ done' = done \ {c}
    /\ UNCHANGED waits

Join(q, p) ==
    /\ waits[q] = NoChan /\ flight[p] # NoChan
    /\ waits' = [waits EXCEPT ![q] = flight[p]]
    /\ UNCHANGED <<flight, done>>

TakeOut(p) ==
    /\ flight[p] # NoChan
    /\ flight' = [flight EXCEPT ![p] = NoChan]
    /\ UNCHANGED <<done, waits>>

Fulfil(c) ==
    /\ c \notin done
    /\ \A p \in Paths : flight[p] # c
    /\ done' = done \cup {c}
    /\ UNCHANGED <<flight, waits>>

(* A request stops waiting: the promise is fulfilled, or it has waited too  *)
(* long.                                                                    *)
Leave(q) ==
    /\ waits[q] # NoChan
    /\ waits' = [waits EXCEPT ![q] = NoChan]
    /\ UNCHANGED <<flight, done>>

Next ==
    \/ \E p \in Paths, c \in Chans : Promise(p, c)
    \/ \E q \in Requests, p \in Paths : Join(q, p)
    \/ \E p \in Paths : TakeOut(p)
    \/ \E c \in Chans : Fulfil(c)
    \/ \E q \in Requests : Leave(q)

Spec == Init /\ [][Next]_vars

=============================================================================

------------------------------- MODULE TTLMap -------------------------------
(***************************************************************************)
(* What users of the stream-URL cache of internal/cache/cache.go rely on   *)
(* (the comments at cache.go:322-325 and 357-359): a map whose entries     *)
(* have a deadline.  It may lose entries, but it never makes one up, never *)
(* brings one back, and never answers with an expired one; a value that is *)
(* put replaces the old one and is not lost by its own insertion, and a    *)
(* lookup loses nothing but what has expired.                              *)
(***************************************************************************)
EXTENDS Integers, Functions

CONSTANTS Keys, Urls, NoUrl, Ttls

VARIABLES
    map,      (* key -> [url, created, expire], for some of the keys *)
    clock,
    reply     (* what the last operation returned                   *)

vars == <<map, clock, reply>>

Miss == [hit |-> FALSE, url |-> NoUrl, fresh |-> FALSE]
Found(e, fresh) == [hit |-> TRUE, url |-> e.url, fresh |-> fresh]

Without(S) == Restrict(map, DOMAIN map \ S)
With(f, x, e) == [y \in DOMAIN f \cup {x} |-> IF y = x THEN e ELSE f[y]]

Init == map = << >> /\ clock = 0 /\ reply = Miss

Put(k, u, t) ==
    /\ \E lost \in SUBSET (DOMAIN map \ {k}) :
         /\ \A x, y \in lost : x = y
         /\ map' = With(Without(lost), k,
                        [url |-> u, created |-> clock, expire |-> clock + t])
    /\ reply' = Miss
    /\ UNCHANGED clock

(* An entry with less than a tenth of its life left is not fresh any more.   *)
Find(k) ==
    /\ \/ /\ k \in DOMAIN map /\ clock <= map[k].expire
          /\ LET left == map[k].expire - clock
                 life == map[k].expire - map[k].created
             IN reply' = Found(map[k], 10 * left >= life)
          /\ UNCHANGED map
       \/ /\ k \notin DOMAIN map \/ clock > map[k].expire
          /\ reply' = Miss
          /\ map' = Without({k})
    /\ UNCHANGED clock

Lose(S) ==
    /\ map' = Without(S)
    /\ reply' = Miss
    /\ UNCHANGED clock

Tick ==
    /\ clock' = clock + 1
    /\ reply' = Miss
    /\ UNCHANGED map

Next ==
    \/ \E k \in Keys, u \in Urls, t \in Ttls : Put(k, u, t)
    \/ \E k \in Keys : Find(k)
    \/ \E S \in SUBSET DOMAIN map : Lose(S)
    \/ Tick

Spec == Init /\ [][Next]_vars

=============================================================================

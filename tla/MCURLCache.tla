----------------------------- MODULE MCURLCache -----------------------------
(* Instances of URLCache for TLC: one source and its file.                   *)
EXTENDS URLCache

CONSTANTS f

OneFile == [s \in Sources |-> f]

(* Expired entries of the stream-URL cache and of the negative cache count   *)
(* for nothing, and no action reads what a refresh has stored for a URL.     *)
Live(fn, S) == [i \in {i \in DOMAIN fn \cap S : ~Expired(fn[i])} |-> fn[i]]
CacheView ==
    <<urls, lru, Live(streams, Sources), {u \in DOMAIN neg : Rejected(u)},
      breaker, refreshing, now>>

=============================================================================

------------------------------- MODULE LRUList -------------------------------
(***************************************************************************)
(* The list of container/list as internal/cache/cache.go and               *)
(* internal/handler/stream.go use it: the keys of a map in the order of    *)
(* their last use, each once, the one used longest ago first.              *)
(***************************************************************************)
EXTENDS Integers, Sequences, FiniteSets, SequencesExt

(* list.Remove of the node of k, and MoveToBack or PushBack.               *)
Unlink(l, k) ==
    IF k \in ToSet(l) THEN RemoveAt(l, CHOOSE i \in DOMAIN l : l[i] = k) ELSE l
Touch(l, k)  == Append(Unlink(l, k), k)

(* The list l without the keys of K, in its order: p leads to the places   *)
(* that stay.                                                              *)
Remaining(l, K) == {i \in DOMAIN l : l[i] \notin K}
Rest(l, K) ==
    {[i \in DOMAIN p |-> l[p[i]]] :
        p \in {q \in [1 .. Cardinality(Remaining(l, K)) -> Remaining(l, K)] :
                 /\ \A i, j \in DOMAIN q : i < j => q[i] < q[j]
                 /\ Range(q) = Remaining(l, K)}}

=============================================================================

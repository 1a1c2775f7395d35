------------------------------ MODULE MCCache -------------------------------
(* Instances of Cache for TLC: two sources, which may be versions of one     *)
(* item or belong to none.                                                  *)
EXTENDS Cache

(* A short and a long lifetime: the short entries expire, the long ones do  *)
(* not, and a tenth of the long one is more than the whole short one.       *)
ShortAndLong == {1, 12}

Symmetry == Permutations(Ids) \cup Permutations(Urls)

(* What the future of an entry depends on: how long it has left, as far as  *)
(* the clock can go, and whether it was meant to live long.  What the last  *)
(* call returned is read by no action.                                      *)
Left(e) == IF Expired(e) THEN 0
           ELSE IF e.expire > MaxNow THEN MaxNow + 1 ELSE e.expire
CacheView ==
    <<[id \in DOMAIN c.items |-> <<c.items[id].item, Left(c.items[id])>>],
      [id \in DOMAIN c.streamURLs |->
          LET e == c.streamURLs[id] IN <<e.url, Left(e), e.expire - e.created>>],
      c.itemIndex, c.lruList, ttl, maxItems, now>>

=============================================================================

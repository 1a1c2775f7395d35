------------------------------ MODULE MCPreload ------------------------------
(* Instances of Preload for TLC.                                            *)
EXTENDS Preload, TLC

CONSTANTS p1, p2, s1, s2

(* Two movies compete for the one place of the high queue.                  *)
TwoMovies       == {p1, p2}
TwoMovieSources == {s1, s2}
TwoMoviePathOf  == [s \in TwoMovieSources |-> IF s = s1 THEN p1 ELSE p2]

(* A movie and an episode.                                                  *)
MovieAndSeries  == {p1, p2}
OneMovie        == {p1}

(* Whether a channel nobody refers to was closed or dropped makes no         *)
(* difference: Claim resets both.                                           *)
Live == {c \in Chans : ~Fresh(c)}
LiveView == <<inflight, closed \cap Live, dropped \cap Live, queueVars,
              streams, shutdown, caller, run, req>>

(* Exchanging the two movies together with their sources.                   *)
Swap == [x \in {p1, p2, s1, s2} |->
           CASE x = p1 -> p2 [] x = p2 -> p1 [] x = s1 -> s2 [] x = s2 -> s1]
Symmetry == {Swap} \cup Permutations(Callers) \cup Permutations(Requests)
              \cup Permutations(Chans)

=============================================================================

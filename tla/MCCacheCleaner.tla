--------------------------- MODULE MCCacheCleaner ---------------------------
(* CacheCleaner for TLC: the first cleaner and two or three more, that is,   *)
(* as many changes of the lifetime.                                         *)
EXTENDS CacheCleaner, TLC

Symmetry == Permutations(Chans \ {First})

=============================================================================

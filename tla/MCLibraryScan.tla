---------------------------- MODULE MCLibraryScan ----------------------------
(* Instances of LibraryScan for TLC.                                        *)
EXTENDS LibraryScan

CONSTANTS a, b, d

(* A series of two episodes and a movie, and a library that shows one of      *)
(* them again: four items in two pages and one.                             *)
TwoLibraries == << << <<a, b>>, <<d>> >>, << <<a>> >> >>

=============================================================================

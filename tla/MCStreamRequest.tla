--------------------------- MODULE MCStreamRequest ---------------------------
(* Instances of StreamRequest for TLC: two versions in one file.             *)
EXTENDS StreamRequest

CONSTANT file

OneFile == [s \in Sources |-> file]
Origin  == [u \in Finals |-> file]

=============================================================================

---------------------------- MODULE MCScanRounds ----------------------------
(* An instance of ScanRounds for TLC.                                       *)
EXTENDS ScanRounds
=============================================================================

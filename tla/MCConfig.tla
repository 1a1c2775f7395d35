------------------------------ MODULE MCConfig ------------------------------
(* Config with one mapping, two times to live and a target that does not     *)
(* parse.                                                                   *)
EXTENDS Config

MCDefault == [ttl |-> 1, target |-> "http://a", volumes |-> {}]
=============================================================================

---------------------------- MODULE MCPublishing ----------------------------
(* Instances of Publishing for TLC: three attempts, 1 s to 30 s, as coded. *)
EXTENDS Publishing
=============================================================================

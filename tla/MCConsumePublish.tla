-------------------------- MODULE MCConsumePublish --------------------------
(* Instances of ConsumePublish for TLC: the cfg gives all the constants. *)
EXTENDS ConsumePublish
=============================================================================

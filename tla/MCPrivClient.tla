----------------------------- MODULE MCPrivClient -----------------------------
(* TLC instances of PrivClient: the bounds are in the configurations.      *)
EXTENDS PrivClient
=============================================================================

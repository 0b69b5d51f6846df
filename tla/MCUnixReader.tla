----------------------------- MODULE MCUnixReader -----------------------------
(* TLC instances of UnixReader: the bounds are in the configurations.      *)
EXTENDS UnixReader
=============================================================================

-------------------------- MODULE MCElevatedService --------------------------
(* TLC instance of ElevatedService: the bounds are in the configuration.   *)
EXTENDS ElevatedService
=============================================================================

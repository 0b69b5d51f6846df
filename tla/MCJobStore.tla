------------------------------ MODULE MCJobStore ------------------------------
(* TLC instances of JobStore: the job IDs are in the configurations.       *)
EXTENDS JobStore
=============================================================================

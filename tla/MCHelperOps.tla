----------------------------- MODULE MCHelperOps -----------------------------
(* TLC instance of HelperOps: every host and operation; on Windows one     *)
(* volume's extents may be unreadable.                                     *)
EXTENDS HelperOps

Quiets(h) == IF h = "windows" THEN {{}, {"v1"}} ELSE {{}}
AllJobs == UNION {[host : {h}, op : Ops, silent : Quiets(h)] : h \in Hosts}
=============================================================================

--------------------------- MODULE MCHelperSession ---------------------------
(* TLC instances of HelperSession.                                         *)
EXTENDS HelperSession

R(k, f) == [kind |-> k, fd |-> f]

(* One request for each way handle may go, with a descriptor wherever one  *)
(* must be closed; write_image stands for every op.                        *)
EachRequest ==
    {R("ping", FALSE), R("badPing", TRUE), R("cancel", TRUE), R("write_image", TRUE),
     R("garbled", TRUE), R("tooLong", FALSE)}
=============================================================================

---------------------------- MODULE MCRequestPath ----------------------------
(* Instances of RequestPath for TLC.                                       *)
EXTENDS RequestPath, TLC

CONSTANTS r1, r2, f1, f2

=============================================================================

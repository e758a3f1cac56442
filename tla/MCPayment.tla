------------------------------ MODULE MCPayment ------------------------------
(* An instance of Payment for TLC: one order, two requests at once.        *)
EXTENDS Payment

CONSTANTS v1, v2
=============================================================================

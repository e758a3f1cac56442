--------------------------- MODULE MCSearchQueries ---------------------------
(* An instance of SearchQueries, with the projections under it, for TLC.   *)
EXTENDS SearchQueries

CONSTANTS w1, w2, r1
=============================================================================

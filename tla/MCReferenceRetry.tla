--------------------------- MODULE MCReferenceRetry ---------------------------
(***************************************************************************)
(* Two reversals, of which one may get its reference, two overlapping runs *)
(* that take one row at a time, and delays of 1, 2 and 2: doubled once,    *)
(* then capped.                                                            *)
(***************************************************************************)
EXTENDS ReferenceRetry

CONSTANTS k1, k2, r1, r2
=============================================================================

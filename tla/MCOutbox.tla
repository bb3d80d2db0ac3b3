------------------------------ MODULE MCOutbox ------------------------------
(***************************************************************************)
(* Three events, the first two stamped at the same moment as those of one  *)
(* transaction are, and two publishers whose batches do not hold them all. *)
(***************************************************************************)
EXTENDS Outbox, TLC

CONSTANTS e1, e2, e3, p1, p2

ThreeEvents == {e1, e2, e3}
Stamps == (e1 :> 1) @@ (e2 :> 1) @@ (e3 :> 2)
=============================================================================

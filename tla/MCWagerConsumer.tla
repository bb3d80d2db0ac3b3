--------------------------- MODULE MCWagerConsumer ---------------------------
(***************************************************************************)
(* A command sent as a message and posted with its fields in another       *)
(* order, its key with another payload, and one body for each way of being *)
(* invalid; then two bodies that do not parse.                             *)
(***************************************************************************)
EXTENDS WagerConsumer, SequencesExt, TLC

CONSTANTS k1, k2, k3, k4, k5, q1, d1, d2, p1

Ten == << <<"amount", 10>>, <<"currency", "BRL">> >>
Five == << <<"amount", 5>>, <<"currency", "BRL">> >>

Msg(id, key, payload, defect) ==
  [id |-> id, key |-> key, payload |-> payload, defect |-> defect]

FiveCopies == {k1, k2, k3, k4, k5}
OneRequest == {q1}
Bodies ==
  (k1 :> Msg("m1", "a", Ten, "none")) @@ (k2 :> Msg("m2", "a", Five, "none"))
  @@ (k3 :> Msg("m3", "b", Ten, "unparsable"))
  @@ (k4 :> Msg("m4", "b", Ten, "state")) @@ (k5 :> Msg("m5", "b", Ten, "money"))
  @@ (q1 :> Msg(None, "a", Reverse(Ten), "none"))

TwoInvalid == {k1, k2}
InvalidBody ==
  (k1 :> Msg("m1", "a", Ten, "unparsable")) @@ (k2 :> Msg("m2", "b", Ten, "unparsable"))

SymConsumers == Permutations({d1, d2})
=============================================================================

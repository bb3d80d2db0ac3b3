--------------------------- MODULE MCWalletService ---------------------------
(***************************************************************************)
(* Two concurrent openings, of one wallet written in two ways, of one with *)
(* no balance, and of two that are refused.                                *)
(***************************************************************************)
EXTENDS WalletService

CONSTANTS alice, bob, v1, v2, s1, s2

Text(form, cents, cform, code) ==
  [amount |-> [form |-> form, cents |-> cents],
   currency |-> [form |-> cform, code |-> code]]

MCRequests ==
  { [player |-> alice, money |-> Text("plain", 1, "plain", "BRL")],
    [player |-> alice, money |-> Text("zeros", 1, "lower", "BRL")],
    [player |-> bob, money |-> Text("padded", 0, "plain", "BRL")],
    [player |-> bob, money |-> Text("unscaled", 1, "plain", "BRL")],
    [player |-> bob, money |-> Text("plain", 9, "plain", "BRL")] }

Symmetric == Permutations({v1, v2}) \cup Permutations({s1, s2})

MCLimits == {None, 0, 1, 200}
=============================================================================

-------------------------- MODULE MCWagerProcessing --------------------------
(***************************************************************************)
(* Small instances of WagerProcessing: wallets, and the commands each run  *)
(* lets the providers submit.                                              *)
(***************************************************************************)
EXTENDS WagerRefinement, TLC

CONSTANTS w1, w2, absent, alice, bob, c1, c2, x1, x2

(* A command on w1 by its owner, in its currency and round. *)
Cmd(key, kind, amount) ==
  [key |-> key, ext |-> key, wallet |-> w1, player |-> alice, round |-> 1,
   kind |-> kind, amount |-> amount, currency |-> "BRL", ref |-> None]

Reversal(key, kind, amount, ref) == [Cmd(key, kind, amount) EXCEPT !.ref = ref]

OneWallet == {w1}
TwoWallets == {w1, w2}
OwnerOne == [w \in OneWallet |-> alice]
OwnerTwo == [w \in TwoWallets |-> alice]
CurrencyOne == [w \in OneWallet |-> "BRL"]
CurrencyTwo == [w \in TwoWallets |-> "BRL"]
OpenWith3 == [w \in OneWallet |-> 3]
OpenWith1 == [w \in OneWallet |-> 1]
OpenWith0And1 == (w1 :> 0) @@ (w2 :> 1)

(* Two bets of which the wallet affords one, and what is refused on the    *)
(* way: a key with a second payload, an external id under a second key, a  *)
(* wallet that does not exist or is another player's, a bet of zero; and a *)
(* loss.                                                                   *)
WagerCommands ==
  { Cmd("b1", "BET", 2), Cmd("b1", "BET", 1), Cmd("b6", "BET", 2),
    [Cmd("b2", "BET", 2) EXCEPT !.ext = "b1"],
    [Cmd("b3", "BET", 1) EXCEPT !.wallet = absent],
    [Cmd("b4", "BET", 1) EXCEPT !.player = bob],
    Cmd("l1", "LOSS", 2), Cmd("b5", "BET", 0) }

MissingCommands == { [Cmd("b3", "BET", 1) EXCEPT !.wallet = absent] }

(* A bet, two refunds of it and a rollback of the first refund. *)
ReversalCommands ==
  { Cmd("b1", "BET", 1), Reversal("f1", "REFUND", 1, "b1"),
    Reversal("f2", "REFUND", 1, "b1"), Reversal("r1", "ROLLBACK", 1, "f1") }

(* A bet, its refund and the rollback of the refund. *)
ChainCommands == {c \in ReversalCommands : c.key # "f2"}

RefundCommands == {c \in ReversalCommands : c.key # "r1"}

OnW2(c) == [c EXCEPT !.wallet = w2]

(* On w1 a win, the bet that spends it and the rollback of the win; on w2  *)
(* a refund whose bet may be missing, and is of another amount; a bet in   *)
(* another currency.                                                       *)
BatchCommands ==
  { Cmd("n1", "WIN", 1), Cmd("b1", "BET", 1), Reversal("r1", "ROLLBACK", 1, "n1"),
    OnW2(Cmd("b2", "BET", 1)), OnW2(Reversal("f2", "REFUND", 2, "b2")),
    [Cmd("b4", "BET", 1) EXCEPT !.currency = "USD"] }

(* A win of zero and its rollback. *)
ZeroCommands == { Cmd("n0", "WIN", 0), Reversal("r0", "ROLLBACK", 0, "n0") }

SymClients == Permutations({c1, c2})
SymWorkers == Permutations({x1, x2})
=============================================================================

---------------------------- MODULE WagerLedger ----------------------------
(***************************************************************************)
(* What wager processing promises of the wallets: a command is settled at  *)
(* most once, and its effect reaches the balance of its wallet in the same *)
(* step, which leaves no wallet below zero.                                *)
(***************************************************************************)
EXTENDS Integers, FiniteSetsExt

CONSTANTS Wallets, Opening

VARIABLES
  balance,        \* of each wallet
  settled         \* the processed commands: [key, wallet, effect]

Init ==
  /\ balance = Opening
  /\ settled = {}

Net(S, w) == MapThenSumSet(LAMBDA p : p.effect, {p \in S : p.wallet = w})

(* One or more commands are settled together. *)
Settle ==
  /\ settled \subseteq settled'
  /\ \A p, q \in settled' : p.key = q.key => p = q
  /\ balance' = [w \in Wallets |-> balance[w] + Net(settled' \ settled, w)]
  /\ \A w \in Wallets : balance'[w] >= 0

Spec == Init /\ [][Settle]_<<balance, settled>>
=============================================================================

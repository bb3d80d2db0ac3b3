-------------------------- MODULE WagerRefinement --------------------------
(***************************************************************************)
(* WagerProcessing implements WagerLedger: the statements, locks and       *)
(* retries of its sessions amount to settling commands one commit at a     *)
(* time.                                                                   *)
(***************************************************************************)
EXTENDS WagerProcessing

(* By how much a kind moves a wallet, in units of the amount. *)
Sign == [BET |-> -1, WIN |-> 1, LOSS |-> 0, REFUND |-> 1]

(* A rollback takes back what its reference did. *)
Effect(r) ==
  r.cmd.amount * IF r.cmd.kind = "ROLLBACK"
                 THEN -Sign[wagers[r.reference].cmd.kind]
                 ELSE Sign[r.cmd.kind]

Settled ==
  { [key |-> k, wallet |-> wagers[k].cmd.wallet, effect |-> Effect(wagers[k])] :
      k \in {l \in Keys : wagers[l] # None /\ wagers[l].status = "PROCESSED"} }

Ledger ==
  INSTANCE WagerLedger WITH
    balance <- [w \in Wallets |-> wallets[w].balance],
    settled <- Settled

(* Each processed command has moved its wallet exactly once, by its own    *)
(* amount and in its own direction, in the commit that made it PROCESSED:  *)
(* no duplicated credit or debit (README.md:61), however it was retried,   *)
(* replayed, deadlocked or killed.                                         *)
ImplementsLedger == Ledger!Spec
=============================================================================

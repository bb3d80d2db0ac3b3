----------------------------- MODULE WagerRules -----------------------------
(***************************************************************************)
(* The pure rules of a wager transaction: which kinds exist, which way     *)
(* each moves a wallet, and which reference a REFUND or a ROLLBACK may     *)
(* reverse.                                                                *)
(*                                                                         *)
(* A command is a record                                                   *)
(*    [key, ext, wallet, player, round, kind, amount, currency, ref]       *)
(* where key is the idempotency key, ext the pair (providerId,             *)
(* externalTransactionId) and ref the pair (providerId,                    *)
(* referenceExternalTransactionId) or None.  A transaction row r keeps     *)
(* the command it was created from in r.cmd.  Amounts are in cents.        *)
(***************************************************************************)
EXTENDS Naturals, FiniteSetsExt

CONSTANT None                         \* undefined / SQL NULL

(* OPENING is left out: WagerTransaction.create refuses it. *)
Kinds == {"BET", "WIN", "LOSS", "REFUND", "ROLLBACK"}

(* The kinds that require a reference. *)
Reversals == {"REFUND", "ROLLBACK"}

Statuses == {"PENDING", "PENDING_REFERENCE", "PROCESSED", "REJECTED", "FAILED"}

Terminal == {"PROCESSED", "REJECTED", "FAILED"}

FailureCodes ==
  { "INSUFFICIENT_BALANCE", "REVERSAL_WOULD_CAUSE_NEGATIVE_BALANCE",
    "INVALID_REFERENCE", "REFERENCE_NOT_FOUND", "REFERENCE_ALREADY_REVERSED",
    "INVALID_REFUND_AMOUNT", "INVALID_ROLLBACK_AMOUNT", "CURRENCY_MISMATCH",
    "REFERENCE_SCOPE_MISMATCH" }

(* The direction of the entry a processed transaction of a kind has: LOSS  *)
(* has none and a ROLLBACK is never itself a reference, so both are        *)
(* outside the domain (the code throws).                                   *)
ResolveLedgerDirection ==
  [kind \in {"BET", "WIN", "REFUND"} |->
     IF kind = "BET" THEN "DEBIT" ELSE "CREDIT"]

(* Mutant: a ROLLBACK repeats what it should undo. *)
DirectionRepeated(kind, refKind) ==
  ResolveLedgerDirection[IF kind = "ROLLBACK" THEN refKind ELSE kind]

(* The direction of c's own entry; refKind is the kind of its reference. *)
LedgerDirectionFor(kind, refKind) ==
  IF kind # "ROLLBACK" THEN ResolveLedgerDirection[kind]
  ELSE IF ResolveLedgerDirection[refKind] = "DEBIT" THEN "CREDIT" ELSE "DEBIT"

(* What each kind of reversal may reverse. *)
ReversibleBy == [REFUND |-> {"BET"}, ROLLBACK |-> {"BET", "WIN", "REFUND"}]

(* The checks on the reference r of c in the order the code makes them.    *)
(* The check on the provider is left out: r was looked up by c's provider. *)
ReferenceChecks(c, r, walletCurrency) ==
  << [ok |-> r.status = "PROCESSED", code |-> "INVALID_REFERENCE"],
     [ok |-> /\ r.cmd.player = c.player
             /\ r.cmd.wallet = c.wallet
             /\ r.cmd.round = c.round,
      code |-> "REFERENCE_SCOPE_MISMATCH"],
     [ok |-> r.cmd.currency = c.currency, code |-> "CURRENCY_MISMATCH"],
     [ok |-> r.cmd.amount = c.amount,
      code |-> IF c.kind = "REFUND" THEN "INVALID_REFUND_AMOUNT"
                                    ELSE "INVALID_ROLLBACK_AMOUNT"],
     [ok |-> r.cmd.kind \in ReversibleBy[c.kind], code |-> "INVALID_REFERENCE"],
     [ok |-> walletCurrency = c.currency, code |-> "CURRENCY_MISMATCH"] >>

(* The code of the first check that fails, None when all succeed. *)
ValidateReference(c, r, walletCurrency) ==
  LET checks  == ReferenceChecks(c, r, walletCurrency)
      failing == {i \in 1..6 : ~checks[i].ok}
  IN  IF failing = {} THEN None ELSE checks[Min(failing)].code
=============================================================================

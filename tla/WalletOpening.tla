---------------------------- MODULE WalletOpening ----------------------------
(***************************************************************************)
(* OpenWalletUseCase.execute against PostgreSQL, statement by statement.   *)
(*                                                                         *)
(* A session serves one POST /wallets at a time, in one database           *)
(* transaction under READ COMMITTED: it reads what is committed, and its   *)
(* own writes are drafts until COMMIT.  A caller that got no answer sends  *)
(* the request again, any number of times.                                 *)
(*                                                                         *)
(* Committed tables: wallets, openings (the rows of kind OPENING in        *)
(* wager_transactions), ledger, outbox.                                    *)
(* Left out: a player id that is no uuid, which the first statement        *)
(* refuses; the columns no decision reads.                                 *)
(***************************************************************************)
EXTENDS Money, Sequences

CONSTANTS
  None,
  Requests,       \* [player, money], as callers write them
  WalletIds,      \* the uuids that are drawn; their number bounds the wallets
  Sessions,       \* concurrent POST /wallets
  Times,          \* what new Date() may return
  EntryIds,       \* the uuids of ledger entries, in the order of the column
  MaxCents,       \* the largest amount of NUMERIC(19,2)
  ColumnCodes     \* the currencies of at most three letters, VARCHAR(3)

ASSUME RequestsAssumption ==
  \A r \in Requests : r.money.amount.cents \in Nat /\ r.money \in
    Written({r.money.amount.cents}, {r.money.currency.code})

ASSUME IdsAssumption == Times \subseteq Int /\ EntryIds \subseteq Int

ASSUME ColumnsAssumption == MaxCents \in Nat

(* NULL is no row, of no table, and no uuid. *)
ASSUME NoneAssumption ==
  /\ None \notin WalletIds
  /\ None \notin [player : {r.player : r \in Requests}, currency : ColumnCodes,
                  balance : Nat, version : Nat]
  /\ None \notin [status : {"PROCESSED"}, amount : Nat, observed : Nat]
  /\ None \notin [tx : {"opening", "wager"}, at : Times, id : EntryIds,
                  direction : {"DEBIT", "CREDIT"}, amount : Nat, before : Nat,
                  after : Nat]

VARIABLES
  wallets,        \* [WalletIds -> row or None]
  openings,       \* [WalletIds -> the OPENING row or None]
  ledger,         \* wallet_ledger_entries of a wallet, in commit order
  outbox,         \* outbox_messages of a wallet, in commit order
  pc,             \* the next statement of a session
  request,        \* the request it serves
  walletId,       \* the uuid it has drawn
  draft,          \* the wallet row its transaction has written
  openingDraft,   \* the OPENING row it has written
  reply           \* what the last step told a caller, if anything

tables == <<wallets, openings, ledger, outbox>>
transaction == <<request, walletId, draft, openingDraft>>
openingVars == <<tables, pc, transaction, reply>>

Balance(s) == From(request[s].money)

Named(w, player, currency) ==
  w # None /\ w.player = player /\ w.currency = currency

(* Mutant: a wallet that is being opened is seen as if it were committed.  *)
TakenOrBeingOpened(s) ==
  \/ \E w \in WalletIds :
       Named(wallets[w], request[s].player, Balance(s).currency)
  \/ \E t \in Sessions \ {s} :
       Named(draft[t], request[s].player, Balance(s).currency)

(* findWalletByPlayerAndCurrency, among the committed wallets *)
Taken(s) ==
  \E w \in WalletIds :
    Named(wallets[w], request[s].player, Balance(s).currency)

OpeningInit ==
  /\ wallets = [w \in WalletIds |-> None]
  /\ openings = [w \in WalletIds |-> None]
  /\ ledger = [w \in WalletIds |-> << >>]
  /\ outbox = [w \in WalletIds |-> << >>]
  /\ pc = [s \in Sessions |-> "idle"]
  /\ request = [s \in Sessions |-> None]
  /\ walletId = [s \in Sessions |-> None]
  /\ draft = [s \in Sessions |-> None]
  /\ openingDraft = [s \in Sessions |-> None]
  /\ reply = None

-----------------------------------------------------------------------------
Goto(s, l) == pc' = [pc EXCEPT ![s] = l] /\ reply' = None

(* The transaction is over; what it had not committed is gone. *)
End(s) ==
  /\ pc' = [pc EXCEPT ![s] = "idle"]
  /\ request' = [request EXCEPT ![s] = None]
  /\ walletId' = [walletId EXCEPT ![s] = None]
  /\ draft' = [draft EXCEPT ![s] = None]
  /\ openingDraft' = [openingDraft EXCEPT ![s] = None]

Reply(r, outcome, wallet) ==
  reply' = [request |-> r, outcome |-> outcome, wallet |-> wallet]

(* An error leaves the transaction callback: ROLLBACK. *)
RollBack(s, error) ==
  /\ End(s)
  /\ Reply(request[s], error, None)
  /\ UNCHANGED tables

(* A request whose money is refused ends before the transaction. *)
RefuseMoney(s, r) ==
  /\ pc[s] = "idle" /\ ~IsMoney(r.money)
  /\ Reply(r, "INVALID_MONEY", None)
  /\ UNCHANGED <<tables, pc, transaction>>

(* Money.from, uuidv7, BEGIN.  A uuid is nobody else's. *)
Receive(s, r) ==
  /\ pc[s] = "idle" /\ IsMoney(r.money)
  /\ \E w \in WalletIds :
       /\ wallets[w] = None /\ \A u \in Sessions : walletId[u] # w
       /\ walletId' = [walletId EXCEPT ![s] = w]
  /\ request' = [request EXCEPT ![s] = r]
  /\ Goto(s, "find")
  /\ UNCHANGED <<tables, draft, openingDraft>>

FindNone(s) ==
  /\ pc[s] = "find" /\ ~Taken(s)
  /\ Goto(s, "insert")
  /\ UNCHANGED <<tables, transaction>>

FindExisting(s) ==
  /\ pc[s] = "find" /\ Taken(s)
  /\ RollBack(s, "DUPLICATE_WALLET")

-----------------------------------------------------------------------------
(* saveWallet *)

(* Mutant: the constraint is on the currency as it was written. *)
InsertWaitsForSameText(s) ==
  \E t \in Sessions \ {s} :
    draft[t] # None /\ request[t] = request[s]

(* wallets_player_currency_unique: an INSERT waits for the open            *)
(* transaction that has inserted the same player and currency.             *)
InsertWaits(s) ==
  \E t \in Sessions \ {s} :
    Named(draft[t], request[s].player, Balance(s).currency)

(* Mutant: the columns take anything. *)
FitsAnyColumn(money) == TRUE

FitsColumns(money) == money.cents <= MaxCents /\ money.currency \in ColumnCodes

(* Wallet.open *)
Opened(player, money) ==
  [player |-> player, currency |-> money.currency, balance |-> money.cents,
   version |-> 1]

InsertWallet(s) ==
  /\ pc[s] = "insert"
  /\ FitsColumns(Balance(s)) /\ ~InsertWaits(s) /\ ~Taken(s)
  /\ draft' = [draft EXCEPT ![s] = Opened(request[s].player, Balance(s))]
  /\ Goto(s, IF IsPositive(Balance(s)) THEN "opening" ELSE "commit")
  /\ UNCHANGED <<tables, request, walletId, openingDraft>>

(* 23505: the other transaction has committed meanwhile. *)
InsertViolates(s) ==
  /\ pc[s] = "insert"
  /\ FitsColumns(Balance(s)) /\ ~InsertWaits(s) /\ Taken(s)
  /\ RollBack(s, "DUPLICATE_WALLET")

(* 22003 or 22001: the amount or the currency is too long for its column. *)
InsertOverflows(s) ==
  /\ pc[s] = "insert"
  /\ ~FitsColumns(Balance(s))
  /\ RollBack(s, "INTERNAL")

-----------------------------------------------------------------------------
(* processOpeningCredit: the INSERT of the OPENING row cannot conflict, its *)
(* key and its external id are made of fresh uuids; markProcessed follows.  *)
InsertOpening(s) ==
  /\ pc[s] = "opening"
  /\ openingDraft' = [openingDraft EXCEPT ![s] =
       [status |-> "PROCESSED", amount |-> Balance(s).cents,
        observed |-> draft[s].balance]]
  /\ Goto(s, "commit")
  /\ UNCHANGED <<tables, request, walletId, draft>>

Movement(tx, at, id, direction, before, cents) ==
  [tx |-> tx, at |-> at, id |-> id, direction |-> direction, amount |-> cents,
   before |-> before,
   after |-> IF direction = "DEBIT" THEN before - cents ELSE before + cents]

(* The entry and the two events of the opening credit, persisted with the  *)
(* row and flushed at COMMIT.  created_at was read when execute began.     *)
OpeningEntries(s, at, id) ==
  IF openingDraft[s] = None THEN << >>
  ELSE << Movement("opening", at, id, "CREDIT", 0, openingDraft[s].amount) >>

OpeningEvents(s) ==
  IF openingDraft[s] = None THEN << >>
  ELSE << [type |-> "WalletBalanceChanged", version |-> draft[s].version],
          [type |-> "WagerTransactionProcessed", version |-> None] >>

(* Mutant: the wallet is committed before its opening credit. *)
CommitWalletAlone(s) ==
  /\ pc[s] = "commit"
  /\ wallets' = [wallets EXCEPT ![walletId[s]] = draft[s]]
  /\ Reply(request[s], "OPENED", walletId[s])
  /\ End(s)
  /\ UNCHANGED <<openings, ledger, outbox>>

Commit(s) ==
  /\ pc[s] = "commit"
  /\ wallets' = [wallets EXCEPT ![walletId[s]] = draft[s]]
  /\ openings' = [openings EXCEPT ![walletId[s]] = openingDraft[s]]
  /\ \E at \in Times, id \in EntryIds :
       ledger' = [ledger EXCEPT ![walletId[s]] = OpeningEntries(s, at, id)]
  /\ outbox' = [outbox EXCEPT ![walletId[s]] = OpeningEvents(s)]
  /\ Reply(request[s], "OPENED", walletId[s])
  /\ End(s)

(* The process or its connection dies: the caller gets no answer. *)
Crash(s) ==
  /\ pc[s] # "idle"
  /\ End(s)
  /\ reply' = None
  /\ UNCHANGED tables

OpeningStatement(s) ==
  \/ FindNone(s) \/ FindExisting(s)
  \/ InsertWallet(s) \/ InsertViolates(s) \/ InsertOverflows(s)
  \/ InsertOpening(s) \/ Commit(s)

OpeningStart(s) == \E r \in Requests : RefuseMoney(s, r) \/ Receive(s, r)

-----------------------------------------------------------------------------
(* Properties *)

(* A player has at most one wallet in a currency, however the currency was *)
(* written and whoever raced (README.md:460).                              *)
OneWalletPerPlayerAndCurrency ==
  \A v, w \in WalletIds :
    wallets[v] # None /\ Named(wallets[w], wallets[v].player, wallets[v].currency)
      => v = w

(* What a caller is told is so: the wallet it opened, or the one that was  *)
(* in its way, is committed (README.md:460).  No caller is refused because *)
(* of an opening that was rolled back.                                     *)
RepliesAreTrue ==
  reply # None =>
    /\ reply.outcome = "OPENED" => wallets[reply.wallet] # None
    /\ reply.outcome = "DUPLICATE_WALLET" =>
         \E w \in WalletIds : Named(wallets[w], reply.request.player,
                                    From(reply.request.money).currency)
=============================================================================

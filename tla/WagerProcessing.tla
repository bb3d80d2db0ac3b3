--------------------------- MODULE WagerProcessing ---------------------------
(***************************************************************************)
(* The wager processor against PostgreSQL, statement by statement.         *)
(*                                                                         *)
(* A session is one database transaction at a time.  A client session      *)
(* runs ProcessWagerTransactionService.execute for a command that came by  *)
(* HTTP or SQS; a worker session runs one batch of                         *)
(* ReprocessPendingReferenceWorker.runOnce.  Between two statements of a   *)
(* session any statement of another may run: READ COMMITTED, so a read     *)
(* sees the session's own writes over what is committed at that moment.    *)
(*                                                                         *)
(* Committed tables:      wagers, wallets, ledger, outbox                  *)
(* Of the open            rowDraft, walletDraft, entryDraft, eventDraft    *)
(* transaction:           (what COMMIT would write) and locks              *)
(* Of the code:           pc, job, queue, loaded, found, answer            *)
(*                                                                         *)
(* Left out: commands refused before the first statement (unknown kind,    *)
(* malformed money, a reversal without a reference); the columns no        *)
(* decision reads.  next_reference_attempt_at is left to the clock: which  *)
(* pending rows are due is arbitrary here.                                 *)
(***************************************************************************)
EXTENDS WagerRules, Integers, Sequences

CONSTANTS
  Commands,       \* the commands providers may submit, any number of times
  Wallets,        \* the wallets OpenWallet has committed
  Owner,          \* [Wallets -> player]
  Currency,       \* [Wallets -> currency]
  Opening,        \* [Wallets -> initial balance]
  Clients,        \* sessions of the API and of the SQS consumer
  Workers,        \* sessions of the pending-reference worker
  BatchSize,      \* BATCH_SIZE
  MaxAttempts     \* MAX_REFERENCE_RETRIES

(* WagerTransaction.create refuses a reversal without a reference, and     *)
(* Money.from a negative amount.                                           *)
ASSUME CommandsAssumption ==
  \A c \in Commands : /\ c.kind \in Kinds
                      /\ c.amount \in Nat
                      /\ c.kind \in Reversals => c.ref # None

ASSUME WalletsAssumption == Opening \in [Wallets -> Nat]

ASSUME SessionsAssumption == Clients \cap Workers = {}

ASSUME LimitsAssumption == BatchSize \in Nat \ {0} /\ MaxAttempts \in Nat \ {0}

Sessions == Clients \cup Workers

Keys == {c.key : c \in Commands}

VARIABLES
  wagers,         \* wager_transactions, by idempotency_key (None: no row)
  wallets,        \* wallets
  ledger,         \* wallet_ledger_entries of a wallet, in commit order
  outbox,         \* outbox_messages of an aggregate, in commit order
  pc,             \* the next statement of a session
  job,            \* the command a session works on
  queue,          \* the claimed rows a worker has still to retry
  loaded,         \* the balance of the Wallet object read under FOR UPDATE
  found,          \* the key of the validated reference
  rowDraft,       \* rows of wager_transactions the transaction has written
  walletDraft,    \* rows of wallets it has written
  entryDraft,     \* ledger entries it will insert
  eventDraft,     \* outbox messages it will insert
  locks,          \* the strongest lock it holds on each wallet row
  answer          \* what the last step returned to a caller, if anything

committed == <<wagers, wallets, ledger, outbox>>
drafts == <<rowDraft, walletDraft, entryDraft, eventDraft>>
vars == <<committed, pc, job, queue, loaded, found, drafts, locks, answer>>

-----------------------------------------------------------------------------
(* Rows *)

Row == [cmd : Commands, status : Statuses, failure : FailureCodes \cup {None},
        observed : Int \cup {None}, reference : Keys \cup {None},
        attempts : Nat]

WalletRow == [balance : Int, version : Nat]

Entry == [tx : Keys \cup {"opening"}, direction : {"DEBIT", "CREDIT"},
          amount : Nat, before : Int, after : Int]

Event == [type : {"WagerTransactionProcessed", "WagerTransactionRejected",
                  "WagerTransactionPendingReference", "WalletBalanceChanged"},
          tx : Keys, version : Nat \cup {None}]

LockModes == {"none", "keyShare", "noKeyUpdate", "forUpdate"}

(* Mutant: the status is left to a default the table does not have. *)
NewRowWithoutStatus(c) ==
  [cmd |-> c, status |-> None, failure |-> None, observed |-> None,
   reference |-> None, attempts |-> 0]

(* The row WagerTransaction.create builds. *)
NewRow(c) ==
  [cmd |-> c, status |-> "PENDING", failure |-> None, observed |-> None,
   reference |-> None, attempts |-> 0]

MarkProcessed(r, reference, observed) ==
  [r EXCEPT !.status = "PROCESSED", !.reference = reference,
            !.observed = observed]

Rejected(r, code, observed) ==
  [r EXCEPT !.status = "REJECTED", !.failure = code, !.observed = observed]

(* Mutant: the attempt is not counted. *)
ScheduleWithoutCounting(r) == r

ScheduleReferenceRetry(r) == [r EXCEPT !.attempts = @ + 1]

(* The wallet as OpenWallet committed it. *)
OpeningLedger(w) ==
  IF Opening[w] = 0 THEN << >>
  ELSE << [tx |-> "opening", direction |-> "CREDIT", amount |-> Opening[w],
           before |-> 0, after |-> Opening[w]] >>

NoRows == [k \in Keys |-> None]
NoWallets == [w \in Wallets |-> None]
NoneOf == [w \in Wallets |-> << >>]
NoLocks == [w \in Wallets |-> "none"]

(* NULL is none of the values a column or a program variable holds. *)
ASSUME NoneAssumption ==
  /\ None \notin Row /\ None \notin WalletRow
  /\ None \notin Commands /\ None \notin Keys /\ None \notin FailureCodes

(* The entry of an opening credit is of no command a provider submits. *)
ASSUME OpeningAssumption == "opening" \notin Keys

-----------------------------------------------------------------------------
(* What a session sees: its own writes over the committed tables. *)

RowSeen(s, k) == IF rowDraft[s][k] # None THEN rowDraft[s][k] ELSE wagers[k]

WalletSeen(s, w) ==
  IF walletDraft[s][w] # None THEN walletDraft[s][w] ELSE wallets[w]

Amount(s) == job[s].amount

JobRow(s) == RowSeen(s, job[s].key)

(* findReferenceTransaction: (provider_id, external_transaction_id) is     *)
(* unique, so there is at most one.                                        *)
References(s) ==
  {k \in Keys : RowSeen(s, k) # None /\ RowSeen(s, k).cmd.ext = job[s].ref}

(* findProcessedReversal *)
ProcessedReversals(s, ref, kind) ==
  {k \in Keys : /\ RowSeen(s, k) # None
                /\ RowSeen(s, k).reference = ref
                /\ RowSeen(s, k).cmd.kind = kind
                /\ RowSeen(s, k).status = "PROCESSED"}

-----------------------------------------------------------------------------
(* Row locks on wallets: FOR KEY SHARE by a foreign key, FOR NO KEY UPDATE *)
(* by UPDATE, FOR UPDATE by PESSIMISTIC_WRITE.                             *)

ConflictsWith ==
  [none        |-> {},
   keyShare    |-> {"forUpdate"},
   noKeyUpdate |-> {"noKeyUpdate", "forUpdate"},
   forUpdate   |-> {"keyShare", "noKeyUpdate", "forUpdate"}]

(* Mutant: the balance is read, changed in memory and written back without *)
(* a lock.                                                                 *)
UpdateModeUnlocked == "none"

(* Mutant: the UPDATE assigns a column of a unique key. *)
UpdateModeOfKey == "forUpdate"

(* The lock of atomicDebit and atomicCredit: they assign no key column. *)
UpdateMode == "noKeyUpdate"

Blockers(s, w, mode) ==
  {t \in Sessions \ {s} : mode \in ConflictsWith[locks[t][w]]}

(* Mutant: a SELECT decides whether the key is new, and no index does. *)
InsertWaitsForNobody(s) == {}

(* An insert waits for the transaction that inserted the same idempotency  *)
(* key, or the same external id, and has not ended.                        *)
InsertBlockers(s) ==
  {t \in Sessions \ {s} :
     \E k \in Keys : /\ rowDraft[t][k] # None
                     /\ wagers[k] = None
                     /\ \/ k = job[s].key
                        \/ rowDraft[t][k].cmd.ext = job[s].ext}

(* Mutant: the due rows are read without FOR UPDATE. *)
ClaimedByNobody(t) == {}

(* The rows of wager_transactions a worker has locked. *)
Claimed(t) ==
  IF t \in Workers /\ pc[t] # "idle"
  THEN {k \in Keys : rowDraft[t][k] # None} \cup {job[t].key}
         \cup {queue[t][i] : i \in DOMAIN queue[t]}
  ELSE {}

(* The sessions s waits for before its next statement can finish.  An      *)
(* UPDATE whose WHERE finds no row waits for nobody.                       *)
WaitsFor(s) ==
  CASE pc[s] = "insert" /\ wagers[job[s].key] = None -> InsertBlockers(s)
    [] pc[s] = "walletKey" /\ job[s].wallet \in Wallets ->
         Blockers(s, job[s].wallet, "keyShare")
    [] pc[s] = "debit" /\ WalletSeen(s, job[s].wallet).balance >= Amount(s) ->
         Blockers(s, job[s].wallet, UpdateMode)
    [] pc[s] = "credit" -> Blockers(s, job[s].wallet, UpdateMode)
    [] pc[s] = "lockWallet" -> Blockers(s, job[s].wallet, "forUpdate")
    [] OTHER -> {}

(* The smallest sets whose every member waits for a member are the cycles. *)
Waiting(S) == \A t \in S : WaitsFor(t) \cap S # {}

WaitCycle(S) ==
  /\ S # {} /\ Waiting(S)
  /\ \A T \in SUBSET S : T # {} /\ Waiting(T) => T = S

-----------------------------------------------------------------------------
Init ==
  /\ wagers = NoRows
  /\ wallets = [w \in Wallets |-> [balance |-> Opening[w], version |-> 1]]
  /\ ledger = [w \in Wallets |-> OpeningLedger(w)]
  /\ outbox = NoneOf
  /\ pc = [s \in Sessions |-> "idle"]
  /\ job = [s \in Sessions |-> None]
  /\ queue = [s \in Sessions |-> << >>]
  /\ loaded = [s \in Sessions |-> None]
  /\ found = [s \in Sessions |-> None]
  /\ rowDraft = [s \in Sessions |-> NoRows]
  /\ walletDraft = [s \in Sessions |-> NoWallets]
  /\ entryDraft = [s \in Sessions |-> NoneOf]
  /\ eventDraft = [s \in Sessions |-> NoneOf]
  /\ locks = [s \in Sessions |-> NoLocks]
  /\ answer = None

(* The transaction ends: its drafts and locks are gone, committed or not. *)
EndTransaction(s) ==
  /\ pc' = [pc EXCEPT ![s] = "idle"]
  /\ job' = [job EXCEPT ![s] = None]
  /\ queue' = [queue EXCEPT ![s] = << >>]
  /\ loaded' = [loaded EXCEPT ![s] = None]
  /\ found' = [found EXCEPT ![s] = None]
  /\ rowDraft' = [rowDraft EXCEPT ![s] = NoRows]
  /\ walletDraft' = [walletDraft EXCEPT ![s] = NoWallets]
  /\ entryDraft' = [entryDraft EXCEPT ![s] = NoneOf]
  /\ eventDraft' = [eventDraft EXCEPT ![s] = NoneOf]
  /\ locks' = [locks EXCEPT ![s] = NoLocks]

(* toResult, once the transaction has ended. *)
ReplyOf(r, replay) ==
  [cmd |-> r.cmd, status |-> r.status, failure |-> r.failure,
   observed |-> r.observed, replay |-> replay]

ErrorReply(c, error) ==
  [cmd |-> c, status |-> "ERROR", failure |-> error,
   observed |-> None, replay |-> FALSE]

(* Only a client session has a caller to answer. *)
Answer(s, r) == answer' = IF s \in Clients THEN r ELSE None

NoAnswer == answer' = None

(* An error leaves the transaction callback: ROLLBACK. *)
RollBack(s, error) ==
  /\ EndTransaction(s)
  /\ Answer(s, ErrorReply(job[s], error))
  /\ UNCHANGED committed

(* The next statement of s is at label l. *)
Goto(s, l) == pc' = [pc EXCEPT ![s] = l]

(* The transaction of job[s] is settled: the worker takes the next claimed *)
(* row, everyone else commits.                                             *)
NextRow(s) ==
  /\ found' = [found EXCEPT ![s] = None]
  /\ IF queue[s] = << >>
     THEN Goto(s, "commit") /\ UNCHANGED <<job, queue>>
     ELSE /\ Goto(s, "lockWallet")
          /\ job' = [job EXCEPT ![s] = wagers[Head(queue[s])].cmd]
          /\ queue' = [queue EXCEPT ![s] = Tail(@)]

UpdateRow(s, r) == rowDraft' = [rowDraft EXCEPT ![s][job[s].key] = r]

Event1(s, type) == [type |-> type, tx |-> job[s].key, version |-> None]

(* Mutant: only the first of the events of a step is enqueued. *)
EnqueueFirst(s, events) ==
  eventDraft' = [eventDraft EXCEPT ![s][job[s].wallet] = Append(@, events[1])]

Enqueue(s, events) ==
  eventDraft' = [eventDraft EXCEPT ![s][job[s].wallet] = @ \o events]

(* What a row update with its events, and no balance change, leaves alone. *)
NoBalanceChange ==
  NoAnswer /\ UNCHANGED <<committed, loaded, walletDraft, entryDraft, locks>>

(* reject, updateWagerTransaction, enqueueRejected *)
Reject(s, code, observed) ==
  /\ UpdateRow(s, Rejected(JobRow(s), code, observed))
  /\ Enqueue(s, << Event1(s, "WagerTransactionRejected") >>)
  /\ NextRow(s)
  /\ NoBalanceChange

-----------------------------------------------------------------------------
(* ProcessWagerTransactionService.execute *)

Submit(s, c) ==
  /\ s \in Clients
  /\ pc[s] = "idle"
  /\ Goto(s, "insert")
  /\ job' = [job EXCEPT ![s] = c]
  /\ NoAnswer
  /\ UNCHANGED <<committed, queue, loaded, found, drafts, locks>>

(* INSERT ... ON CONFLICT (idempotency_key) DO NOTHING returns the id. *)
InsertRow(s) ==
  LET c == job[s] IN
  /\ pc[s] = "insert"
  /\ wagers[c.key] = None
  /\ InsertBlockers(s) = {}
  /\ \A k \in Keys : wagers[k] # None => wagers[k].cmd.ext # c.ext
  /\ UpdateRow(s, NewRow(c))
  /\ Goto(s, "walletKey")
  /\ NoAnswer
  /\ UNCHANGED <<committed, job, queue, loaded, found, walletDraft, entryDraft,
                 eventDraft, locks>>

(* The other unique constraint, (provider_id, external_transaction_id), is *)
(* not the conflict target: the statement raises 23505.                    *)
InsertFails(s) ==
  /\ pc[s] = "insert"
  /\ wagers[job[s].key] = None
  /\ InsertBlockers(s) = {}
  /\ \E k \in Keys : wagers[k] # None /\ wagers[k].cmd.ext = job[s].ext
  /\ RollBack(s, "DUPLICATE_EXTERNAL_ID")

(* Mutant: the INSERT is tried again until it succeeds. *)
InsertAgain(s) ==
  /\ pc[s] = "insert"
  /\ wagers[job[s].key] # None
  /\ Goto(s, "insert")
  /\ NoAnswer
  /\ UNCHANGED <<committed, job, queue, loaded, found, drafts, locks>>

(* The statement returns no row: the key is taken. *)
InsertConflicts(s) ==
  /\ pc[s] = "insert"
  /\ wagers[job[s].key] # None
  /\ Goto(s, "replay")
  /\ NoAnswer
  /\ UNCHANGED <<committed, job, queue, loaded, found, drafts, locks>>

(* Mutant: the payload is not compared. *)
ReplayAnyPayload(s) ==
  /\ pc[s] = "replay"
  /\ EndTransaction(s)
  /\ Answer(s, [ReplyOf(wagers[job[s].key], TRUE) EXCEPT !.cmd = job[s]])
  /\ UNCHANGED committed

(* The existing row is read.  payload_hash covers every field of the       *)
(* command but its key, so equal hashes are equal commands here.           *)
Replay(s) ==
  LET existing == wagers[job[s].key] IN
  /\ pc[s] = "replay"
  /\ EndTransaction(s)
  /\ Answer(s, IF existing.cmd = job[s] THEN ReplyOf(existing, TRUE)
               ELSE ErrorReply(job[s], "IDEMPOTENCY_CONFLICT"))
  /\ UNCHANGED committed

(* The foreign key wallet_id, checked as the INSERT ends. *)
CheckWalletKey(s) ==
  LET w == job[s].wallet IN
  /\ pc[s] = "walletKey"
  /\ w \in Wallets
  /\ Blockers(s, w, "keyShare") = {}
  /\ locks' = [locks EXCEPT ![s][w] = "keyShare"]
  /\ Goto(s, "load")
  /\ NoAnswer
  /\ UNCHANGED <<committed, job, queue, loaded, found, drafts>>

WalletKeyFails(s) ==
  /\ pc[s] = "walletKey"
  /\ job[s].wallet \notin Wallets
  /\ RollBack(s, "FOREIGN_KEY")

(* findWalletById and the branches up to the next statement.  The branch   *)
(* for a missing wallet is dead: the foreign key has been checked.  A BET  *)
(* and a WIN use no more than the id of the Wallet, a reversal reads it    *)
(* again.                                                                  *)
LoadWallet(s) ==
  LET c == job[s]
      w == c.wallet
      next == CASE c.kind = "BET" -> "debit"
                [] c.kind = "WIN" -> "credit"
                [] OTHER -> "lockWallet"
  IN
  /\ pc[s] = "load"
  /\ Owner[w] = c.player /\ Currency[w] = c.currency
  /\ c.kind # "LOSS" /\ ~(c.kind = "WIN" /\ c.amount = 0)
  /\ Goto(s, next)
  /\ NoAnswer
  /\ UNCHANGED <<committed, job, queue, loaded, found, drafts, locks>>

(* The wallet is another player's, or in another currency. *)
LoadForeignWallet(s) ==
  LET c == job[s]
      w == c.wallet
      balance == WalletSeen(s, w).balance
  IN
  /\ pc[s] = "load"
  /\ \/ /\ Owner[w] # c.player
        /\ Reject(s, "INVALID_REFERENCE", balance)
     \/ /\ Owner[w] = c.player /\ Currency[w] # c.currency
        /\ Reject(s, "CURRENCY_MISMATCH", balance)

(* processLoss, and processWin for an amount of zero: no entry. *)
SettleWithoutEntry(s) ==
  LET c == job[s]
      w == c.wallet
  IN
  /\ pc[s] = "load"
  /\ Owner[w] = c.player /\ Currency[w] = c.currency
  /\ c.kind = "LOSS" \/ (c.kind = "WIN" /\ c.amount = 0)
  /\ UpdateRow(s, MarkProcessed(JobRow(s), None, WalletSeen(s, w).balance))
  /\ Enqueue(s, << Event1(s, "WagerTransactionProcessed") >>)
  /\ NextRow(s)
  /\ NoBalanceChange

-----------------------------------------------------------------------------
(* WagerTransactionProcessor: balance changes *)

(* Mutant: the signs are swapped. *)
BalanceBeforeSwapped(direction, after, amount) ==
  IF direction = "DEBIT" THEN after - amount ELSE after + amount

(* finalizeBalanceChange recomputes the balance before the UPDATE from the *)
(* one it returned.                                                        *)
BalanceBefore(direction, after, amount) ==
  IF direction = "DEBIT" THEN after + amount ELSE after - amount

(* atomicDebit or atomicCredit updates the wallet, finalizeBalanceChange   *)
(* writes the row, its entry and its events.                               *)
Post(s, direction) ==
  LET c == job[s]
      w == c.wallet
      after == IF direction = "DEBIT" THEN WalletSeen(s, w).balance - c.amount
                                      ELSE WalletSeen(s, w).balance + c.amount
      version == WalletSeen(s, w).version + 1
      entry == [tx |-> c.key, direction |-> direction, amount |-> c.amount,
                before |-> BalanceBefore(direction, after, c.amount),
                after |-> after]
  IN
  /\ Blockers(s, w, UpdateMode) = {}
  /\ locks' = [locks EXCEPT ![s][w] = IF @ = "forUpdate" THEN @ ELSE UpdateMode]
  /\ walletDraft' = [walletDraft EXCEPT ![s][w] =
                       [balance |-> after, version |-> version]]
  /\ entryDraft' = [entryDraft EXCEPT ![s][w] = Append(@, entry)]
  /\ UpdateRow(s, MarkProcessed(JobRow(s), found[s], after))
  /\ Enqueue(s, << Event1(s, "WagerTransactionProcessed"),
                   [type |-> "WalletBalanceChanged", tx |-> c.key,
                    version |-> version] >>)
  /\ NextRow(s)
  /\ NoAnswer
  /\ UNCHANGED <<committed, loaded>>

(* Mutant: the UPDATE has no condition on the balance. *)
DebitUnconditionally(s) == pc[s] = "debit" /\ Post(s, "DEBIT")

(* atomicDebit: UPDATE ... WHERE balance >= amount.  PostgreSQL evaluates   *)
(* the condition on the newest committed row once it has the row lock.     *)
Debit(s) ==
  /\ pc[s] = "debit"
  /\ WalletSeen(s, job[s].wallet).balance >= Amount(s)
  /\ Post(s, "DEBIT")

(* Mutant: the condition is balance > amount. *)
DebitRefusedAtEqual(s) ==
  /\ pc[s] = "debit"
  /\ WalletSeen(s, job[s].wallet).balance <= Amount(s)
  /\ Goto(s, "observe")
  /\ NoAnswer
  /\ UNCHANGED <<committed, job, queue, loaded, found, drafts, locks>>

(* The UPDATE touched no row, whoever holds its lock. *)
DebitRefused(s) ==
  /\ pc[s] = "debit"
  /\ WalletSeen(s, job[s].wallet).balance < Amount(s)
  /\ Goto(s, "observe")
  /\ NoAnswer
  /\ UNCHANGED <<committed, job, queue, loaded, found, drafts, locks>>

(* currentObservedBalance is a statement of its own: it sees what others   *)
(* have committed since the UPDATE.                                        *)
Observe(s) ==
  /\ pc[s] = "observe"
  /\ Reject(s, IF job[s].kind = "BET" THEN "INSUFFICIENT_BALANCE"
               ELSE "REVERSAL_WOULD_CAUSE_NEGATIVE_BALANCE",
            WalletSeen(s, job[s].wallet).balance)

Credit(s) ==
  /\ pc[s] = "credit"
  /\ Post(s, "CREDIT")

-----------------------------------------------------------------------------
(* processReversal; the worker reaches it through retryPendingReference *)

(* Mutant: findWalletById, without a lock. *)
ReadWalletUnlocked(s) ==
  /\ pc[s] = "lockWallet"
  /\ loaded' = [loaded EXCEPT ![s] = WalletSeen(s, job[s].wallet).balance]
  /\ Goto(s, "reference")
  /\ NoAnswer
  /\ UNCHANGED <<committed, job, queue, found, drafts, locks>>

(* findWalletByIdForUpdate *)
LockWallet(s) ==
  LET w == job[s].wallet IN
  /\ pc[s] = "lockWallet"
  /\ Blockers(s, w, "forUpdate") = {}
  /\ locks' = [locks EXCEPT ![s][w] = "forUpdate"]
  /\ loaded' = [loaded EXCEPT ![s] = WalletSeen(s, w).balance]
  /\ Goto(s, "reference")
  /\ NoAnswer
  /\ UNCHANGED <<committed, job, queue, found, drafts>>

(* The reference has not arrived: a first attempt leaves the row pending. *)
AwaitReference(s) ==
  /\ pc[s] = "reference"
  /\ References(s) = {}
  /\ s \in Clients
  /\ UpdateRow(s, ScheduleReferenceRetry(
                    [JobRow(s) EXCEPT !.status = "PENDING_REFERENCE"]))
  /\ Enqueue(s, << Event1(s, "WagerTransactionPendingReference") >>)
  /\ NextRow(s)
  /\ NoBalanceChange

(* Mutant: every retry announces the pending reference again. *)
RetryLaterAnnounced(s) ==
  /\ pc[s] = "reference"
  /\ References(s) = {}
  /\ s \in Workers
  /\ JobRow(s).attempts < MaxAttempts
  /\ UpdateRow(s, ScheduleReferenceRetry(JobRow(s)))
  /\ Enqueue(s, << Event1(s, "WagerTransactionPendingReference") >>)
  /\ NextRow(s)
  /\ NoBalanceChange

(* It still has not at a retry: another one is scheduled, up to the limit. *)
RetryLater(s) ==
  /\ pc[s] = "reference"
  /\ References(s) = {}
  /\ s \in Workers
  /\ JobRow(s).attempts < MaxAttempts
  /\ UpdateRow(s, ScheduleReferenceRetry(JobRow(s)))
  /\ NextRow(s)
  /\ UNCHANGED eventDraft
  /\ NoBalanceChange

(* Mutant: the reference is given up one attempt early. *)
GiveUpEarly(s) ==
  /\ pc[s] = "reference"
  /\ References(s) = {}
  /\ s \in Workers
  /\ JobRow(s).attempts + 1 >= MaxAttempts
  /\ Reject(s, "REFERENCE_NOT_FOUND", loaded[s])

GiveUp(s) ==
  /\ pc[s] = "reference"
  /\ References(s) = {}
  /\ s \in Workers
  /\ JobRow(s).attempts >= MaxAttempts
  /\ Reject(s, "REFERENCE_NOT_FOUND", loaded[s])

RefuseReference(s) ==
  /\ pc[s] = "reference"
  /\ \E k \in References(s) :
       LET code == ValidateReference(job[s], RowSeen(s, k), Currency[job[s].wallet])
       IN  code # None /\ Reject(s, code, loaded[s])

AcceptReference(s) ==
  /\ pc[s] = "reference"
  /\ \E k \in References(s) :
       /\ ValidateReference(job[s], RowSeen(s, k), Currency[job[s].wallet]) = None
       /\ found' = [found EXCEPT ![s] = k]
  /\ Goto(s, "reversal")
  /\ NoAnswer
  /\ UNCHANGED <<committed, job, queue, loaded, drafts, locks>>

RefuseSecondReversal(s) ==
  /\ pc[s] = "reversal"
  /\ ProcessedReversals(s, found[s], job[s].kind) # {}
  /\ Reject(s, "REFERENCE_ALREADY_REVERSED", loaded[s])

(* The reversal moves the wallet the other way. *)
Reverse(s) ==
  /\ pc[s] = "reversal"
  /\ ProcessedReversals(s, found[s], job[s].kind) = {}
  /\ Goto(s, IF LedgerDirectionFor(job[s].kind, RowSeen(s, found[s]).cmd.kind)
                  = "DEBIT" THEN "debit" ELSE "credit")
  /\ NoAnswer
  /\ UNCHANGED <<committed, job, queue, loaded, found, drafts, locks>>

-----------------------------------------------------------------------------
(* Mutant: the schedule alone makes a row due, and nothing clears it. *)
DueByScheduleOnly(k) == wagers[k] # None /\ wagers[k].attempts > 0

(* findDuePendingReferenceTransactions, whatever the clock says. *)
Due(k) == wagers[k] # None /\ wagers[k].status = "PENDING_REFERENCE"

(* ReprocessPendingReferenceWorker.runOnce: the due rows are read FOR      *)
(* UPDATE, then retried one after the other in one transaction.  A batch   *)
(* that would meet a row another worker has locked waits before it holds   *)
(* anything.                                                               *)
ClaimDue(s) ==
  /\ s \in Workers
  /\ pc[s] = "idle"
  /\ \E n \in 1..BatchSize : \E due \in [1..n -> Keys] :
       /\ \A i \in 1..n :
            /\ Due(due[i])
            /\ \A t \in Workers \ {s} : due[i] \notin Claimed(t)
            /\ \A j \in 1..n : due[i] = due[j] => i = j
       /\ job' = [job EXCEPT ![s] = wagers[due[1]].cmd]
       /\ queue' = [queue EXCEPT ![s] = Tail(due)]
  /\ Goto(s, "lockWallet")
  /\ NoAnswer
  /\ UNCHANGED <<committed, loaded, found, drafts, locks>>

-----------------------------------------------------------------------------
(* The flush and the COMMIT *)

(* CHECK (amount > 0) of the entries, and the partial unique index on      *)
(* (reference_transaction_id, kind) of the processed reversals.            *)
EntriesPositive(s) ==
  \A w \in Wallets : \A i \in DOMAIN entryDraft[s][w] :
     entryDraft[s][w][i].amount > 0

ReversalIndexHolds(s) ==
  \A k \in Keys :
    rowDraft[s][k] # None /\ rowDraft[s][k].status = "PROCESSED"
      /\ rowDraft[s][k].reference # None
    => ProcessedReversals(s, rowDraft[s][k].reference, rowDraft[s][k].cmd.kind)
         = {k}

Commit(s) ==
  /\ pc[s] = "commit"
  /\ EntriesPositive(s) /\ ReversalIndexHolds(s)
  /\ wagers' = [k \in Keys |-> RowSeen(s, k)]
  /\ wallets' = [w \in Wallets |-> WalletSeen(s, w)]
  /\ ledger' = [w \in Wallets |-> ledger[w] \o entryDraft[s][w]]
  /\ outbox' = [w \in Wallets |-> outbox[w] \o eventDraft[s][w]]
  /\ EndTransaction(s)
  /\ Answer(s, ReplyOf(JobRow(s), FALSE))

CommitFails(s) ==
  /\ pc[s] = "commit"
  /\ ~(EntriesPositive(s) /\ ReversalIndexHolds(s))
  /\ RollBack(s, "CONSTRAINT")

(* deadlock_timeout: PostgreSQL aborts a session of a cycle, which one is  *)
(* up to the order in which they find out.                                 *)
AbortDeadlock(s) ==
  /\ \E S \in SUBSET Sessions : s \in S /\ WaitCycle(S)
  /\ RollBack(s, "DEADLOCK")

(* The process or its connection dies: nobody is answered. *)
Crash(s) ==
  /\ pc[s] # "idle"
  /\ EndTransaction(s)
  /\ NoAnswer
  /\ UNCHANGED <<committed>>

-----------------------------------------------------------------------------
ClientStep(s) ==
  \/ InsertRow(s) \/ InsertFails(s) \/ InsertConflicts(s) \/ Replay(s)
  \/ CheckWalletKey(s) \/ WalletKeyFails(s)
  \/ LoadWallet(s) \/ LoadForeignWallet(s) \/ SettleWithoutEntry(s)

ReversalStep(s) ==
  \/ LockWallet(s)
  \/ AwaitReference(s) \/ RetryLater(s) \/ GiveUp(s)
  \/ RefuseReference(s) \/ AcceptReference(s)
  \/ RefuseSecondReversal(s) \/ Reverse(s)

BalanceStep(s) == Debit(s) \/ DebitRefused(s) \/ Observe(s) \/ Credit(s)

Statement(s) ==
  \/ ClientStep(s) \/ ReversalStep(s) \/ BalanceStep(s)
  \/ Commit(s) \/ CommitFails(s) \/ AbortDeadlock(s)

Start(s) == ClaimDue(s) \/ \E c \in Commands : Submit(s, c)

Next == \E s \in Sessions : Start(s) \/ Statement(s) \/ Crash(s)

Spec == Init /\ [][Next]_vars

-----------------------------------------------------------------------------
(* Fairness.  A session that can run its next statement runs it: the event *)
(* loop and the connection serve it.  One that waits for a row lock gets   *)
(* it in the end, because PostgreSQL queues the waiters of a row and its   *)
(* deadlock detector breaks the cycles, hence strong fairness.  The worker *)
(* timer keeps firing.  Nobody has to submit anything, and nothing crashes *)
(* for ever: liveness is asked of the behaviours without crashes.          *)
NextNoCrash == \E s \in Sessions : Start(s) \/ Statement(s)

Fairness ==
  /\ \A s \in Sessions : SF_vars(Statement(s))
  /\ \A s \in Workers : WF_vars(ClaimDue(s))

LiveSpec == Init /\ [][NextNoCrash]_vars /\ Fairness

-----------------------------------------------------------------------------
(* Properties *)

(* Every variable has its type. *)
TypeOK ==
  /\ wagers \in [Keys -> Row \cup {None}]
  /\ wallets \in [Wallets -> WalletRow]
  /\ ledger \in [Wallets -> Seq(Entry)]
  /\ outbox \in [Wallets -> Seq(Event)]
  /\ pc \in [Sessions -> {"idle", "insert", "replay", "walletKey", "load",
                          "debit", "credit", "observe", "lockWallet",
                          "reference", "reversal", "commit"}]
  /\ job \in [Sessions -> Commands \cup {None}]
  /\ queue \in [Sessions -> Seq(Keys)]
  /\ loaded \in [Sessions -> Int \cup {None}]
  /\ found \in [Sessions -> Keys \cup {None}]
  /\ rowDraft \in [Sessions -> [Keys -> Row \cup {None}]]
  /\ walletDraft \in [Sessions -> [Wallets -> WalletRow \cup {None}]]
  /\ entryDraft \in [Sessions -> [Wallets -> Seq(Entry)]]
  /\ eventDraft \in [Sessions -> [Wallets -> Seq(Event)]]
  /\ locks \in [Sessions -> [Wallets -> LockModes]]

(* WalletLedgerEntry.isBalanced *)
IsBalanced(e) ==
  e.after = IF e.direction = "DEBIT" THEN e.before - e.amount
                                     ELSE e.before + e.amount

(* l starts from an empty wallet, each entry starts where the one before   *)
(* it ended, and the last one ends at balance.                             *)
Reconstructs(l, balance) ==
  /\ \A i \in 1..Len(l) : IsBalanced(l[i])
  /\ \A i \in 1..Len(l) : l[i].before = IF i = 1 THEN 0 ELSE l[i - 1].after
  /\ balance = IF Len(l) = 0 THEN 0 ELSE l[Len(l)].after

(* wallet.balance is the balance the ledger reconstructs (README.md:715):  *)
(* concurrent debits and credits lose no update, and the balance before    *)
(* recomputed after the UPDATE is the one the previous commit left.        *)
LedgerReconstructsBalance ==
  \A w \in Wallets : Reconstructs(ledger[w], wallets[w].balance)

(* No interleaving of bets and reversals takes a wallet below zero.        *)
BalanceNotNegative == \A w \in Wallets : wallets[w].balance >= 0

MovesMoney(r) ==
  r # None /\ r.status = "PROCESSED" /\ r.cmd.kind # "LOSS" /\ r.cmd.amount # 0

(* Retries, replays, duplicates and crashes included, a processed row has  *)
(* exactly one ledger entry, in its own wallet, ending at the balance the  *)
(* row reports; every other row has none.                                  *)
OneEntryPerProcessedRow ==
  /\ \A w \in Wallets : \A i, j \in DOMAIN ledger[w] :
       ledger[w][i].tx = ledger[w][j].tx => i = j
  /\ \A w \in Wallets : \A i \in DOMAIN ledger[w] :
       LET e == ledger[w][i] IN
       e.tx # "opening" =>
         /\ MovesMoney(wagers[e.tx])
         /\ wagers[e.tx].cmd.wallet = w
         /\ wagers[e.tx].cmd.amount = e.amount
         /\ wagers[e.tx].observed = e.after
  /\ \A k \in Keys : MovesMoney(wagers[k]) =>
       \E i \in DOMAIN ledger[wagers[k].cmd.wallet] :
          ledger[wagers[k].cmd.wallet][i].tx = k

BalanceEvents(w) ==
  {i \in DOMAIN outbox[w] : outbox[w][i].type = "WalletBalanceChanged"}

(* The WalletBalanceChanged events of a wallet are its ledger after the    *)
(* opening entry, one each and in order, numbered without a gap by the     *)
(* wallet version: nothing that was rolled back was announced, nothing     *)
(* that was committed was not, and the version moves only with the balance *)
(* (README.md:209).                                                        *)
BalanceEventsFollowLedger ==
  \A w \in Wallets :
    LET opening    == Len(OpeningLedger(w))
        version(i) == outbox[w][i].version
    IN  /\ wallets[w].version = Len(ledger[w]) - opening + 1
        /\ {version(i) : i \in BalanceEvents(w)} = 2..wallets[w].version
        /\ \A i, j \in BalanceEvents(w) : i < j => version(i) < version(j)
        /\ \A i \in BalanceEvents(w) :
             outbox[w][i].tx = ledger[w][version(i) - 1 + opening].tx

Chapter ==
  [WagerTransactionPendingReference |-> 1, WagerTransactionRejected |-> 2,
   WagerTransactionProcessed |-> 2, WalletBalanceChanged |-> 3]

(* What is told of a row: that it had to wait, and its outcome. *)
StoryOf(r) ==
  {type \in DOMAIN Chapter :
     \/ type = "WagerTransactionPendingReference" /\ r.attempts > 0
     \/ type = "WagerTransactionRejected" /\ r.status = "REJECTED"
     \/ type = "WagerTransactionProcessed" /\ r.status = "PROCESSED"
     \/ type = "WalletBalanceChanged" /\ MovesMoney(r)}

(* Every committed row has told its whole story once and in order: pending *)
(* once however often it is retried, then its outcome.  No row stays       *)
(* PENDING, the status it is inserted with.                                *)
EventsTellEachRow ==
  \A k \in Keys : wagers[k] # None =>
    LET told == outbox[wagers[k].cmd.wallet]
        mine == {i \in DOMAIN told : told[i].tx = k}
    IN  /\ wagers[k].status \in {"PENDING_REFERENCE", "PROCESSED", "REJECTED"}
        /\ {told[i].type : i \in mine} = StoryOf(wagers[k])
        /\ \A i, j \in mine : i < j => Chapter[told[i].type] < Chapter[told[j].type]

(* FOR UPDATE on the wallet serialises the reversals of a reference: none  *)
(* that passed findProcessedReversal meets the unique index at its flush   *)
(* (the catch of isUniqueViolation in processReversal is never needed).    *)
ReversalIndexNeverHit ==
  \A s \in Sessions : pc[s] = "commit" => ReversalIndexHolds(s)

(* A processed reversal undoes one earlier entry of the same wallet, by    *)
(* the same amount in the other direction, and is the only one of its kind *)
(* to do so.                                                               *)
ReversalsUndoOneEntry ==
  \A k \in Keys :
    LET r == wagers[k] IN
    MovesMoney(r) /\ r.cmd.kind \in Reversals =>
      /\ \E i, j \in DOMAIN ledger[r.cmd.wallet] :
           LET undone == ledger[r.cmd.wallet][i]
               entry  == ledger[r.cmd.wallet][j]
           IN  /\ i < j
               /\ undone.tx = r.reference /\ entry.tx = k
               /\ undone.amount = entry.amount
               /\ undone.direction # entry.direction
      /\ \A l \in Keys : /\ MovesMoney(wagers[l])
                        /\ wagers[l].cmd.kind = r.cmd.kind
                        /\ wagers[l].reference = r.reference
                       => l = k

(* A reversal refused for the balance was refused at a balance below its   *)
(* amount: under FOR UPDATE the second read sees what the UPDATE saw.      *)
RefusedReversalWasShort ==
  \A k \in Keys :
    wagers[k] # None
      /\ wagers[k].failure = "REVERSAL_WOULD_CAUSE_NEGATIVE_BALANCE"
    => wagers[k].observed < wagers[k].cmd.amount

(* What a caller is told about a command is what is committed: the row     *)
(* holds the outcome of every answer, first or replayed, and only of the   *)
(* command it is given for (README.md:385).  SettledForever keeps it true. *)
AnswersStand ==
  answer # None /\ answer.status # "ERROR" =>
    LET r == wagers[answer.cmd.key] IN
    /\ r # None
    /\ ReplyOf(r, answer.replay) = answer

(* The worker retries a pending row MaxAttempts times, no more and, before *)
(* it gives the reference up, no less.                                     *)
RetriesAreCounted ==
  \A k \in Keys : wagers[k] # None =>
    /\ wagers[k].attempts <= MaxAttempts
    /\ wagers[k].status = "PENDING_REFERENCE" => wagers[k].attempts >= 1
    /\ wagers[k].failure = "REFERENCE_NOT_FOUND"
         => wagers[k].attempts = MaxAttempts

(* Only reversals, which ask for FOR UPDATE while they hold a lock, wait   *)
(* in a circle: bets, wins and losses are never victims of a deadlock.     *)
OnlyReversalsDeadlock ==
  \A S \in SUBSET Sessions :
    WaitCycle(S) => \A s \in S : job[s].kind \in Reversals

(* A committed row never disappears or changes its command, and one that   *)
(* is settled never changes at all, whoever retries, replays or crashes.   *)
SettledForever ==
  [][\A k \in Keys :
       wagers[k] # None =>
         /\ wagers'[k] # None
         /\ wagers'[k].cmd = wagers[k].cmd
         /\ wagers[k].status \in Terminal => wagers'[k] = wagers[k]]_vars

(* Every session that has started ends: no statement waits for ever.       *)
EverySessionEnds == \A s \in Sessions : pc[s] # "idle" ~> pc[s] = "idle"

(* A pending reversal does not stay pending (ARCHITECTURE.md:269).         *)
PendingIsSettled ==
  \A k \in Keys :
    (wagers[k] # None /\ wagers[k].status = "PENDING_REFERENCE")
      ~> (wagers[k] # None /\ wagers[k].status \in Terminal)

(* INVALID_REFERENCE says that the kind or the scope of the reference is   *)
(* wrong (ARCHITECTURE.md:149), and a message that comes out of order must *)
(* not cost a legitimate reversal (ARCHITECTURE.md:271): what was rejected *)
(* with it would be rejected again once its reference is processed.        *)
InvalidReferenceStaysInvalid ==
  \A k, j \in Keys :
    /\ wagers[k] # None /\ wagers[k].failure = "INVALID_REFERENCE"
    /\ wagers[j] # None /\ wagers[j].status = "PROCESSED"
    /\ wagers[k].cmd.ref = wagers[j].cmd.ext
    => ValidateReference(wagers[k].cmd, wagers[j], Currency[wagers[k].cmd.wallet]) # None

(* A command for a wallet that does not exist is recorded as FAILED with   *)
(* WALLET_NOT_FOUND (ARCHITECTURE.md:124, :154).                           *)
MissingWalletIsRecorded ==
  answer # None /\ answer.cmd.wallet \notin Wallets => answer.status = "FAILED"
=============================================================================

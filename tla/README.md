# A formal model of the wagering backend

The program is a modular monolith (NestJS on Bun) that receives wager
transactions from game providers by HTTP and by SQS, moves the balance of wallets
in PostgreSQL, keeps an immutable ledger, and publishes integration events
through a transactional outbox. Several instances run side by side. There is no
lock or queue of its own in memory: what keeps two requests apart is PostgreSQL
(row locks, unique keys, one transaction per operation), and what keeps two
deliveries apart are the inbox table and the idempotency key. That is what the
modules here model: the statements of the code, one action each, against the
tables, the locks and the queues.

Paths below are relative to the repository (`src/` is its source directory).

## 1. Inventory

| Component | State | Operations | Talks to |
|---|---|---|---|
| Wager processor: `process-wager-transaction.service.ts`, `wager-transaction.processor.ts`, `finance.gateway.ts` | `wager_transactions`, `wallets`, `wallet_ledger_entries`, `outbox_messages` | `execute` (insert or replay, look up the wallet, BET, WIN, LOSS, REFUND, ROLLBACK), `retryPendingReference` | called by the controller, the SQS use case and the retry worker inside one SQL transaction |
| Transaction rules: `domain/wager-transaction`, `domain/enums` | the row in memory | transitions of a row, direction of an entry, payload comparison | the processor |
| Pending reference worker: `reprocess-pending-reference.worker.ts` | attempts and next attempt of a row | a batch of due rows, every 5 s | processor, `FOR UPDATE` on the rows |
| SQS consumer and inbox: `wager-transaction.consumer.ts`, `process-inbound-wager-message.use-case.ts`, `messaging.gateway.ts` | `inbox_messages`, in-flight messages, the shutdown flag | poll, handle, ack, retry, dead letter, shutdown | SQS, processor (same transaction as the inbox row) |
| Outbox publisher: `publish-outbox.worker.ts`, `outbox-message.ts` | `outbox_messages` | claim with `SKIP LOCKED`, send, mark or reschedule, commit | SQS `integration-events.fifo` |
| Opening a wallet: `open-wallet.use-case.ts` | `wallets`, opening transaction and entry | `execute` | unique `(player, currency)` |
| Reconciliation: `reconcile-wallet.use-case.ts` | none | three reads of one wallet | ledger, wallets |
| Ledger pages: `get-wallet-ledger.use-case.ts`, `mikro-orm-ledger.repository.ts` | the cursor, in the client | one page | ledger |
| Money, payload hash: `money.ts`, `canonical-json.ts`, `payload-hash.ts` | none | pure functions | everything |
| HTTP layer, queries, mappers, observability, bootstrap | none that a decision reads | | |

What is hard in this code, and what has to be true:

* **Processor.** Bets and wins never read the wallet before they write it
  (`UPDATE ... WHERE balance >= ?`), reversals lock it, the ledger entry is
  recomputed from what the UPDATE returned, and the flush of the row, the entry and
  the events comes at the end of the transaction. The balance must be what the ledger
  reconstructs, never negative; a row has exactly one entry or none; the events tell
  what was committed; an answer, first or replayed, is what the row says; a
  reversal undoes one entry once; nothing settled changes; everything ends.
* **Retry worker.** One transaction for a batch that covers several wallets, next to other
  workers and to live traffic: attempts are counted exactly, and a pending row is
  settled in the end.
* **Consumer.** At-least-once delivery, timeouts that expire under a
  running poll, polls that overlap because the timer does not wait, a commit followed by a
  delete, a move to the dead letter queue made of two calls, shutdown. No valid
  command is lost, none is applied twice, and nothing is in the dead letter
  queue without reason.
* **Outbox.** Overlapping runs, a send before the commit that records it, failed sends.
  No event is lost, and a duplicate has a cause.
* **Schedule of the retries.** `now` is read once for a batch that may wait for another's
  locks, the runs overlap, a crash undoes the counting, a batch is the oldest due rows. No
  reversal is given up before its delays have passed, none is retried twice for one
  schedule, and none is kept out of every batch by others.
* **Wallets.** Two openings of one wallet that both found none; a wallet and its opening credit
  written by separate statements; three reads of a reconciliation, and the pages of a walk,
  with commits in between whose `created_at` says nothing of their order.
* **HTTP beside SQS.** The same command may come by both, with its fields in another order, and only
  one of the two has an inbox row.

`PROJECT.json` lists every hazard at its line with the properties that watch it.

## 2. The modules

```
WagerRules  <--  WagerProcessing
                       ^-- WagerRefinement -- (INSTANCE) --> WagerLedger
                       |     ^-- MCWagerProcessing (Wagers, Reversals, Batches, Live,
                       |                            Poison, OutOfOrder, MissingWallet)
                       ^-- WagerProcessingProofs  <--  WagerReversalsProofs
                             <--  WagerEntriesProofs  <--  WagerRefinementProofs (and WagerRefinement)
EventDelivery  <-- (INSTANCE) Outbox  <--  MCOutbox          (Outbox)
                                 ^-- OutboxProofs
WagerConsumer  <--  MCWagerConsumer                          (Consumer, DlqDropped)
           ^-- WagerConsumerProofs
Money  <--  WalletOpening  <--  WalletService  <--  MCWalletService     (Wallets)
                                       ^-- WalletServiceProofs
ReferenceRetry  <--  MCReferenceRetry                        (Retries)
            ^-- ReferenceRetryProofs
```

### WagerRules
Pure operators: kinds, statuses, failure codes, `LedgerDirectionFor`, and
`ReferenceChecks`, the checks of `validateReference` in the order of the code, the first
failure of which decides the code.

### WagerProcessing
A *session* is one database connection with at most one transaction. Client
sessions run `ProcessWagerTransactionService.execute`, whoever called it; worker sessions
run a batch of the retry worker. `pc` names the next statement:

| `pc` | action(s) | code |
|---|---|---|
| `idle` | `Submit`, `ClaimDue` | the call of `execute`; `runOnce` of the worker |
| `insert` | `InsertRow`, `InsertConflicts`, `InsertFails` | `insertWagerTransactionOrConflict` |
| `replay` | `Replay` | service 76-86 |
| `walletKey` | `CheckWalletKey`, `WalletKeyFails` | the foreign key of the INSERT, which locks the wallet `FOR KEY SHARE` |
| `load` | `LoadWallet`, `LoadForeignWallet`, `SettleWithoutEntry` | service 88-120, and the kinds that need no entry |
| `debit` | `Debit`, `DebitRefused` | `atomicDebit` and, when it found the row, `finalizeBalanceChange` |
| `observe` | `Observe` | `currentObservedBalance`, a statement of its own |
| `credit` | `Credit` | `atomicCredit` and `finalizeBalanceChange` |
| `lockWallet` | `LockWallet` | `findWalletByIdForUpdate` |
| `reference` | `AwaitReference`, `RetryLater`, `GiveUp`, `RefuseReference`, `AcceptReference` | processor 215-251 and 100-113 |
| `reversal` | `RefuseSecondReversal`, `Reverse` | processor 253-264 |
| `commit` | `Commit`, `CommitFails` | the flush with its constraints, and COMMIT |

`AbortDeadlock` and `Crash` may strike a session at any statement. The drafts
(`rowDraft`, `walletDraft`, `entryDraft`, `eventDraft`) are what the transaction would
commit; a session reads its own drafts over the committed tables as they are at that
statement, which is READ COMMITTED. A function body between two statements is part of the
action of the statement before it, since nothing else can observe it.

`wagers` is indexed by idempotency key; `ext` and `ref` of a command are the pairs of
provider id and external id. Amounts are cents. A command that is refused before the
first statement (unknown kind, malformed money, a reversal without reference) changes
nothing and is left out.

### WagerLedger, WagerRefinement
`WagerLedger` says what the processor promises of the wallets: a step settles one command,
or the several of a batch, each key once and for good; the same step moves the balances by the
sum of their effects, and leaves none below zero. `WagerRefinement` maps `WagerProcessing` to it: the
abstract balance is the committed one, the settled commands are the rows that are
PROCESSED, and the effect of each is stated from its kind (`Sign`) and, for a rollback, from the kind of what
it reverses, not from the ledger entries. A commit is a `Settle`, and every other step of a
session stutters.

### EventDelivery, Outbox
`EventDelivery` says what the outbox promises: a committed event is delivered at least
once, and no other is. `Outbox` models the runs of the publisher over rows, the state of
the queue's deduplication memory, and faults; `Delivery` is the refinement mapping
(an event is announced when its row is committed, delivered when the queue has accepted it).

### WagerConsumer
A *consumer* is one poll: receive, transaction, then delete, dead letter or retry. The
transaction of the processor is summarised by what the consumer can tell apart: the
command is recorded under its key, replayed, refused for good, acknowledged as a
business error, or fails for a passing reason. `Stop`, `Release` and `Restart` are the shutdown
of an instance.

A *caller* is one `POST /wagering/transactions` (`Post`, `Accepted`, `Refused`, `Fails`): the same transaction
without an inbox row, an answer instead of a message to delete, and a caller without an answer may post
again. A payload is the sequence of the fields of `money` as they were written (the other fields are put in a fixed order by
`buildWagerPayloadHashInput`); `PayloadHash` is what canonical JSON makes of it, so that the hash forgets the order and nothing
else. What is hashed is the text: the same amount with a leading zero is another payload, and a conflict.

### Money, WalletOpening, WalletService
`Money` says which texts `Money.from` takes and what it makes of them. `WalletOpening` is
`OpenWalletUseCase.execute`:

| `pc` | action(s) | code |
|---|---|---|
| `idle` | `RefuseMoney`, `Receive` | `Money.from`, `uuidv7`, BEGIN (34-39) |
| `find` | `FindNone`, `FindExisting` | `findWalletByPlayerAndCurrency` (42-50) |
| `insert` | `InsertWallet`, `InsertViolates`, `InsertOverflows` | `saveWallet` and its catch (52-67) |
| `opening` | `InsertOpening` | the OPENING row (88-112) |
| `commit` | `Commit` | entry, events, flush and COMMIT (114-143) |

`WalletService` puts beside it the movements of the wallets, a commit of a wager each (what makes that one step is what
`WagerProcessing` shows), and one reader: a reconciliation, `ReconcileStart`, `CountEntries`, `Report`, or a walk over the
ledger, `WalkStart`, `NextPage`. The reader only reads, so one is as good as many. Two of its fields are not in the code and say
what was committed when it began (`from`, `owed`).

### ReferenceRetry
The clock that `WagerProcessing` leaves out: when a reversal is due, how its delay doubles to a
cap, what a run of the worker claims and in which order, and how long a run may lag behind its
own `now`. A retry that finds its reference settles the row in one step. `Patience`, the sum of the delays, is
what the limit promises a reversal and is written down nowhere in the code.

## 3. What the checks show

Every property of a passing run has a mutant in `PROJECT.json`: a
definition of the model changed the way a plausible bug would change the code, for
which TLC reports that property violated under the same cfg.

| Run | Instance | Shows |
|---|---|---|
| Wagers | 2 callers; 8 commands: two bets of which the wallet affords one, a loss, the same key with another payload, the same external id under another key, a missing wallet, a foreign player, a bet of zero | `TypeOK`, `LedgerReconstructsBalance`, `BalanceNotNegative`, `OneEntryPerProcessedRow`, `BalanceEventsFollowLedger`, `AnswersStand` |
| Reversals | 2 callers, 1 worker; a bet, two refunds of it, a rollback of one refund | `ReversalsUndoOneEntry`, `ReversalIndexNeverHit`, `OnlyReversalsDeadlock`, `SettledForever`, `ImplementsLedger` |
| Batches | 1 caller, 2 workers with batches of 2, limit 2; two wallets, a win and its rollback with a bet in between, a refund of another amount, another currency | ledger and rows again across batches, `RefusedReversalWasShort`, `RetriesAreCounted`, `EventsTellEachRow` |
| Live | 2 callers, 1 worker, no crash, fair | `EverySessionEnds`, `PendingIsSettled` |
| Outbox | 3 events, two with one timestamp; 2 runs, batches of 2; one fault per event | `PublishedWasSent`, `DuplicatesHaveCause`, `DeliversAtLeastOnce` |
| Consumer | 5 possible messages of which any 2 are sent, 2 polls, 2 receives, and a caller with the command of one of them in another field order | `NothingLost`, `EffectOnce`, `DlqHasReason`, `ConflictHasCause` |
| Wallets | 2 openings at a time of 5 requests (one wallet in two spellings, a balance of zero, a malformed amount, one too large), 2 movements, reconciliation and pages of 1 and of up to 100 | `OneWalletPerPlayerAndCurrency`, `RepliesAreTrue`, `HistoryStartsAtZero`, `DifferenceIsTheGap`, `WalkIsOrdered`, `WalkIsComplete` |
| Retries | 2 reversals, one of which may get its reference; 2 overlapping runs with batches of 1; delays 1, 2, 2; a crash | `ReferenceInTimeIsFound`, `RetriedOncePerSchedule`, `NoReversalStarves` |

Four runs show a disagreement between the code and a document and are expected to be
violated:

* **Poison**: a reversal of 0.00 that had to wait can never be settled. Its ledger
  entry violates `amount > 0` (migration, line 84) when the batch is flushed, so the
  whole batch rolls back, the attempt included; it is tried again for ever, and takes
  the other rows of its batch with it. `ARCHITECTURE.md:269` promises ten attempts.
* **OutOfOrder**: a rollback of a refund that still waits for its bet finds a reference that is not
  `PROCESSED` and is rejected `INVALID_REFERENCE` for good; then the bet comes and the worker processes the refund.
  Had the refund not been there at all, the rollback would have waited. `ARCHITECTURE.md:149` keeps the code for a wrong
  kind or scope, `:271` says that waiting is there so as not to discard a legitimate reversal.
* **MissingWallet**: a command for an unknown wallet raises a foreign key violation
  at the INSERT, so no `FAILED` row with `WALLET_NOT_FOUND` is ever recorded
  (`ARCHITECTURE.md:124`).
* **DlqDropped**: messages that do not parse all go to the dead letter queue under
  one deduplication id; the second within the deduplication interval is dropped, and then
  deleted from the source (`ARCHITECTURE.md:259`).

Other things the model made visible and that no run states: the balance reported with a refused bet is read
after the UPDATE that refused it, and may have been enough (`Observe`; `RefusedReversalWasShort` shows that reversals, which hold
the row, do not have this); a reconciliation of a wallet that moves reports the entries committed between its first and its last
read as a difference, counts a mismatch and warns (`DifferenceIsTheGap` says that it is never anything else), and its `checkedEntries`
may be fewer than it summed; an entry committed during a walk may sort before the cursor and never be listed; two concurrent reversals of one
wallet deadlock on FOR KEY SHARE and FOR UPDATE and one of them is aborted (the abort is
the action `AbortDeadlock`; `OnlyReversalsDeadlock` says who can be hit); the branch that
catches a unique violation in `processReversal` is dead (`ReversalIndexNeverHit`, and an
insert would only be flushed later); malformed money in an SQS message is acknowledged
and leaves no trace (`RefuseAndAck`, the exception in `NothingLost`).

### Bounds
`Commands` may be submitted any number of times, so the state is bounded by the
keys, the retry limit and the sessions; no counter is capped in `WagerProcessing`. Two sessions
per kind are enough for every conflict in the code, which are all between two
transactions (a third only joins a queue of waiters); the deadlocks of the lock
scheme are circles of two for one wallet, and batches with two wallets add
circles of workers, for which Batches has two. A limit of 2 retries has a first, a
middle and a last attempt (10 in the code). `Outbox` bounds the faults of each event
(`MaxFaults`) and publishes every event of a batch of two while a third waits.
`Consumer` bounds what is sent (`MaxSent`) and the receives (`MaxReceive`, 5 in the
code), each the smallest number with a first and a last; its caller may post again without end.
`Wallets` bounds the movements (`MaxMoves`, one before and one after each read of the reader) and the
wallets by the uuids that are drawn; entries may share a `created_at` (`Times`) and sort against the order of their commits,
and pages of one entry meet every boundary. `MaxCents` is small, so that a balance at the limit of the column is met.
`Retries` has `MaxAttempts` 3 (10 in the code) and a `Cap` that cuts the second delay; `Referenced` says which reversals
ever get their reference, `LastArrival` when the last comes, `MaxLag` how late a run may commit, and the clock stops at
`Horizon`, at which `next` is cut off: every row that is due by then is due, and the clock reaches the end of the longest
schedule (`HorizonAssumption`). Batches of one make two rows compete for the one place.
Symmetry is used only for interchangeable sessions, and only in runs without liveness.

### Fairness
`WagerProcessing!Fairness`: a session that can execute its next statement does so
(the event loop and the connection serve it); waiting for a row lock is enabled
and disabled by others, and PostgreSQL serves the waiters of a row in order and breaks
circles of them, hence strong fairness of a session's statements; the timer of the worker keeps
firing, hence weak fairness of `ClaimDue`. Nothing forces a provider to submit. Crashes are left out of the
liveness runs (`NextNoCrash`): a process that dies for ever settles nothing.
`ReferenceRetry!Fairness`: time passes (`Tick`) and the timer of each run keeps firing (`Begin`); a run gets the row locks it waits
for, which others hold and release again and again, hence strong fairness of its statements. No reversal and no reference has to come,
and a run may crash `MaxCrashes` times.
`Outbox!FairSpec`: runs go on and time passes; since the faults of
an event are bounded, a queue or a process that fails recovers. No liveness is claimed for the
consumer, where SQS may hide a message or the poll may crash for ever.

A property run without deadlock checking (`CHECK_DEADLOCK FALSE`: Outbox, Consumer, DlqDropped) is one
where the system may really come to rest: every event published, every message gone.

### What is assumed of PostgreSQL, MikroORM and SQS
External, and modelled from how the code uses them:

* READ COMMITTED; an `UPDATE ... WHERE` re-evaluates its condition on the
  newest committed row once it has the row lock, and does not wait for a row that fails the condition
  as committed; row lock conflicts as in `ConflictsWith`; an insert of a unique key waits for the
  transaction that inserted it; a deadlock is resolved by aborting one of the circle.
* The foreign key of `wager_transactions.wallet_id` takes FOR KEY SHARE. The KEY SHARE locks on rows of
  `wager_transactions` (by the ledger and by `reference_transaction_id`) conflict with nobody's
  statement that is modelled, but with a batch that has the same row FOR UPDATE; such a wait is left out, since the
  wallet lock already orders those transactions.
* `em.transactional` is one SQL transaction, flushes the unit of work before COMMIT, and
  before a query on the same entity; a `findOne` with a lock reads the row again.
  Staleness of the identity map within one batch is left out.
* FIFO queues drop a message whose deduplication id they have accepted within an
  interval; the receive count and the RedrivePolicy; a visibility timeout may
  run out at any time; a delete with an old receipt handle may succeed or fail. The order of
  a message group is not modelled: any order is possible, which allows more.

## 4. What is proved

With TLAPS, for every value of the constants that meets the ASSUMEs of the module. For `WagerProcessing`: amounts and opening
balances are natural numbers, a reversal has a reference, clients and workers are different sessions, NULL is no other value and
no failure code, and no command's key is that of the opening entry. For `Outbox`: the events are finitely many, the batch size is
positive. For `ReferenceRetry`: the reversals are finitely many, the limits and bounds are natural numbers, the horizon leaves room
for every attempt, NULL is neither a row nor a time, and `PowersAssumption`: the powers of two up to the limit are natural numbers, which is
arithmetic and not about the program, but of which the provers know only that they are integers. For `WagerConsumer`: the defects of a body are those listed, a request parses, polls and callers are different.
For `WalletService`: amounts as written are natural numbers of cents in one of the listed forms, the column ends at a natural
number of cents, NULL is neither a uuid nor a row, times and entry ids are integers, of which only the order matters, and the default limit is between one and the
largest. Every theorem is about `Spec`, so that no fairness is assumed.

### The wager processor
Four modules, each on the invariant of the one before; their conjunction is what every step of any number of sessions keeps.

* `WagerProcessingProofs!TypeCorrect`: `Spec => []TypeOK`. `TypeOK` alone is not
  inductive: nothing in it keeps `job` from being NULL, or the wallet of a job from not
  existing, at the statement that uses it. `TypeInv` adds what the program counter tells
  (`Control`: an active session has a job; past the foreign key its wallet exists and its row
  is visible; a claimed row exists) and that a row stays under its key and in an existing
  wallet (`RowsKeyed`, `DraftsKeyed`). One lemma per group of actions.
* `WagerProcessingProofs!LedgerCorrect` and `NeverNegative`: `[]LedgerReconstructsBalance`,
  `[]BalanceNotNegative`. The inductive invariant `LedgerInv` is the argument about locks:
  no two sessions hold a wallet in a mode that allows writing it (`LocksExclude`); a session
  that has drafted a balance or an entry holds such a lock (`WritesAreLocked`); therefore what a
  session sees of a wallet, its drafts appended to the committed ledger, reconstructs the balance it sees and is
  not negative (`SeenSound`), and a commit of one session leaves what the others see sound,
  because on a wallet it wrote, nobody else has a draft. The step that needs arithmetic is
  `AppendReconstructs`: an entry that starts at the balance continues the chain.
* `WagerProcessingProofs!SettledRowsStay`, `AnswersAreCommitted`: `SettledForever`, `[]AnswersStand`. `OwnInv` is the same kind
  of argument about rows: a session that drafts a row either inserted it, and then no row and no other draft has its key, or claimed it
  FOR UPDATE, and then it is pending and nobody else's. So a COMMIT overwrites nothing settled, and an answer, which is read
  from a draft that is committed or from a committed row, stays true.
* `WagerReversalsProofs!IndexNeverHit`, `RefusedWasShort`, `RetriesCounted`, `OnlyReversals`: `[]ReversalIndexNeverHit`,
  `[]RefusedReversalWasShort`, `[]RetriesAreCounted`, `[]OnlyReversalsDeadlock`. In `ReversalInv` a session that has drafted a processed reversal
  holds the wallet of its reference FOR UPDATE, so that two reversals of one reference come one after the other and the
  second sees the first; attempts are tied to the limit row by row. For the deadlocks: a session past its debit or credit waits
  for nobody, and one that waits for a wallet without having to reverse anything holds no wallet, so that it closes no circle of any length.
* `WagerEntriesProofs!OneEntryPerRow`, `ReversalsUndo`: `[]OneEntryPerProcessedRow`, `[]ReversalsUndoOneEntry`. `EntryInv` says of each
  session what the properties say of the tables: the drafted entries are those of the rows it has drafted as processed, one each,
  with the wallet, the amount and the balance of the row, and a job that is not settled yet has none. A COMMIT
  concatenates two ledgers of which that is true; the rows apart (`OwnInv`) keep them from sharing a command.
* `WagerEntriesProofs!EventsFollowLedger`, `EventsTellRows`: `[]BalanceEventsFollowLedger`, `[]EventsTellEachRow`. `EventInv` has two halves,
  each said of what is committed and of what each session has written. `Numbers`: the balance events tell the entries from a given one on, with consecutive
  versions; a session counts from the version of a wallet it has locked, or has no entry to count (`WritesAreLocked`), so that a COMMIT goes on where
  the wallet was (`NumbersGoOn`). `News`: what a session has to tell of a row is what happened to it since its last commit; a row that is
  there already has waited, so that only its first commit tells that it is pending.
* `WagerRefinementProofs!ImplementsTheLedger`: `Spec => ImplementsLedger`. `SumInv`: what a session's drafted entries sum up to is
  the sum of the signed effects of the rows it would settle. The sum is a fold over a finite set, which is taken
  apart an element at a time by an induction stated with a set of numbers instead of a predicate. A commit is the `Settle` of
  the rows it makes PROCESSED (with a flush that fails, or nothing to settle, it stutters), the wallets it does not write
  stay, and no other step changes what is committed.

### The other components
* `WalletServiceProofs!OneWallet`: `[]OneWalletPerPlayerAndCurrency`. The constraint is on committed rows, so the invariant speaks of the
  open transactions too: the wallets two of them have inserted differ in player or currency (`DraftsApart`), and each differs from every
  committed one (`DraftsNew`), because an INSERT waits for the first and fails on the second. A movement changes neither.
* `WalletServiceProofs!ServiceTyped`, `RepliesTrue`: `[]TypeOK`, `[]RepliesAreTrue`. `ServiceInv` says what a session has at each statement
  (`Ready`): the balance about to be credited is that of the request, in cents and above zero, whatever the spelling. `TypeOK` bounds the
  balances and both ends of an entry by the column, so that it is not only about types.
* `WalletServiceProofs!HistoryIsWhole`: `[]HistoryStartsAtZero`. `LifeInv` adds what transaction, wallet and reader know of each other. A uuid that a
  transaction has drawn is no committed wallet's and no other open transaction's (`Fresh`), and what it is about to commit is a wallet of version 1 with an opening credit
  of its balance, or with no balance (`Prepared`); so a wallet comes with its whole history, and a movement adds one entry, whose id no other has, and the next
  number (`WalletSound`, `EventsGrow`).
* `WalletServiceProofs!ReconciliationHonest`: `[]DifferenceIsTheGap`. A ledger only gets longer; between the read of the balance and the sum, the sum exceeds
  what was read by the sum of the entries since (`ReconciliationSound`), and an entry that is appended adds the same to both (`SumOfMore`, `GapGrows`).
* `WalletServiceProofs!WalkOrdered`, `WalkComplete`: `[]WalkIsOrdered`, `[]WalkIsComplete`. The rows of a page are those after the cursor, each at the place that the number of
  rows before it gives it; ids differ, so that (created_at, id) is a total order, no two rows have one place and no place is empty (`RankedSorts`, by counting).
  A page goes on after the last entry that is listed (`PageFollows`), and what the walk owes is listed or later than its cursor (`WalkSound`).
  `Sum` is a recursive function along a ledger, of which the induction over a set of numbers shows what its recursion says (`SumUnfolds`).
* `WagerConsumerProofs!ConsumerTyped`, `CommandOnce`, `RefusedForCause`: `[]TypeOK`, `[]EffectOnce`, `[]ConflictHasCause`. The argument is the
  unique key: a transaction that has inserted the wager of a key finds the key free until it ends (`AppliedFirst`), because nobody else's
  insert of it goes on meanwhile (`AppliedApart`); `Holding` says which kind of body a session works on.
* `WagerConsumerProofs!DlqReasons`, `NoMessageLost`: `[]DlqHasReason`, `[]NothingLost`. `MessageInv` says for each label of a poll what it
  is owed (`Owed`): about to delete, its command is recorded or it is the business error that may go; about to finish a
  dead letter, the reason holds and, after the send, its id is one the dead letter queue has taken. What is owed is only added to by other
  sessions' steps (`Later`), crashes and second deliveries included. `NoMessageLost` has the hypothesis `IdsTell`: equal
  deduplication ids, as `IdOf` computes them from the messages, mean equal bodies. It holds in the run Consumer; in the run DlqDropped, where two
  different messages that do not parse share an id, it does not, and there a message is lost: the hypothesis is the
  boundary between the two.
* `OutboxProofs!OutboxTyped`, `PublishedSent`: `[]TypeOK`, `[]PublishedWasSent`. What a run has noted as published the queue has
  accepted (`NotedSent`), and so it has what it remembers and would drop (`RecentSent`).
* `OutboxProofs!DuplicatesCaused`: `[]DuplicatesHaveCause`. `CountInv` ties the number of sends to the faults: no two runs hold a row
  (`HeldByOne`), a held row is pending, and the sends of an event are at most its faults, and one more once it is settled,
  which is when its row, or the outcome of the run that holds it, says published.
* `OutboxProofs!DeliversCommittedOnly`: `Spec => Delivery!Spec`, the safety part of the refinement that the run Outbox checks with its
  liveness. It rests on `ClaimedExist`: what a run has claimed is committed. A commit of an event announces it, an accepted send delivers
  it, every other step stutters.

* `ReferenceRetryProofs!RetryTyped`, `ReferenceFound`, `RetriedOnce`: `[]TypeOK`, `[]ReferenceInTimeIsFound`, `RetriedOncePerSchedule`. In
  `ScheduleInv` a pending row is due no earlier than it has waited for its attempts (`RowSound`), the rows a run has locked are due
  by its own `now`, each is in its batch or written once, and no other run holds it (`RunSound`, `LocksApart`); what it has written is still an
  outcome of the row as it is committed, so that a commit of any age counts from the right schedule. `Waited` is a recursive
  function; that it is what its recursion says is shown with initial pieces of it (`WaitedUnfolds`) and the induction over a set of numbers.

### Only model-checked
Every invariant that a passing run checks is stated by a theorem too (`NothingLost` under the hypothesis `IdsTell`). With TLC stay:

* The witnesses of the four violations.
* All liveness (`EverySessionEnds`, `PendingIsSettled`, `DeliversAtLeastOnce`, `NoReversalStarves`): fairness and ENABLED are out of the prover's reach.

## 5. What is not modelled

* The decimal arithmetic of Money, which is that of integers on what NUMERIC(19, 2) can hold; SHA-256, taken to be injective.
  A credit that overflows NUMERIC(19, 2) raises an error like any other that a statement may raise; no document says what it should become.
* The length of the outbox backoff: what is due is arbitrary. Clocks of two instances that disagree.
* The immutability trigger of the ledger, which no code of the program can fire.
* A `limit` that is no number, whose effect is that of the query builder, and a cursor that does not decode.
* The payload of events, HTTP status codes and headers, mappers, logs, metrics, health, bootstrap.
* Queries, and ports and repositories no use case calls.

## 6. Plan

Done, in this order: `WagerRules`, `WagerProcessing`, its type and ledger proofs, `Outbox` with
`EventDelivery`, `WagerConsumer`, `WagerLedger` with the refinement checked by TLC; then `WalletOpening` and `WalletService` with `Money`,
`ReferenceRetry`, HTTP callers and the payload hash in `WagerConsumer`, and the first proofs of `WalletService`, `WagerConsumer` and
`Outbox`; then the proofs about rows, reversals, entries and events of `WagerProcessing` and of its refinement, the duplicates of `Outbox`, the messages
of `WagerConsumer`, the types and replies of `WalletService`, the schedule of `ReferenceRetry`; then the histories, the reconciliation and the pages of `WalletService`.

Next:

1. HTTP statuses: which failure is answered how, by HTTP and by SQS, for one command.
2. Hazards that no property covers, where a document comes to say what should happen: see the notes in `PROJECT.json`.

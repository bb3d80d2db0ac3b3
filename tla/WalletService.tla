---------------------------- MODULE WalletService ----------------------------
(***************************************************************************)
(* The life of a wallet as GET and POST /wallets show it: it is opened     *)
(* (WalletOpening), its balance moves, and meanwhile it is reconciled and  *)
(* its ledger is read page by page.                                        *)
(*                                                                         *)
(* A movement is one step, the COMMIT of a wager: WagerProcessing shows    *)
(* that balance, version, entry and event change together.  Its created_at *)
(* was read before the wallet was locked, by another instance or by a      *)
(* batch of retries, and says nothing of the order of the commits.         *)
(*                                                                         *)
(* Every statement of a read sees what is committed when it runs: READ     *)
(* COMMITTED, though a reconciliation is one transaction.                  *)
(***************************************************************************)
EXTENDS WalletOpening, SequencesExt

CONSTANTS
  Limits,         \* the limits a caller of the ledger may ask for
  MaxMoves,       \* bound: movements of all wallets after their opening
  DefaultLimit,   \* 50
  MaxLimit        \* 100

ASSUME LimitsAssumption ==
  /\ Limits \subseteq Int \cup {None}
  /\ MaxLimit \in Nat /\ DefaultLimit \in 1..MaxLimit

VARIABLE reader   \* what the one reader is doing

vars == <<openingVars, reader>>

Resting == [pc |-> "idle"]

Init == OpeningInit /\ reader = Resting

-----------------------------------------------------------------------------
(* Movements *)

Moves(w) == Cardinality({i \in DOMAIN ledger[w] : ledger[w][i].tx = "wager"})

(* finalizeBalanceChange, committed *)
Move(w, direction, cents) ==
  LET row == wallets[w]
      version == row.version + 1
      used == {e.id : e \in ToSet(ledger[w])}
  IN
  /\ row # None /\ MapThenSumSet(Moves, WalletIds) < MaxMoves
  /\ direction = "DEBIT" => row.balance >= cents
  /\ direction = "CREDIT" => row.balance + cents <= MaxCents
  /\ \E at \in Times, id \in EntryIds \ used :
       LET entry == Movement("wager", at, id, direction, row.balance, cents) IN
       /\ ledger' = [ledger EXCEPT ![w] = Append(@, entry)]
       /\ wallets' = [wallets EXCEPT ![w].balance = entry.after,
                                     ![w].version = version]
  /\ outbox' = [outbox EXCEPT ![w] =
       @ \o << [type |-> "WagerTransactionProcessed", version |-> None],
               [type |-> "WalletBalanceChanged", version |-> version] >>]
  /\ reply' = None
  /\ UNCHANGED <<openings, pc, transaction, reader>>

-----------------------------------------------------------------------------
(* ReconcileWalletUseCase.execute *)

Read(r) == reader' = r /\ reply' = None /\ UNCHANGED <<tables, pc, transaction>>

Signed(entry) == IF entry.direction = "DEBIT" THEN -entry.amount ELSE entry.amount

Sum(entries) ==
  LET sum[i \in 0..Len(entries)] ==
        IF i = 0 THEN 0 ELSE sum[i - 1] + Signed(entries[i])
  IN  sum[Len(entries)]

(* findWalletById; no wallet, no reconciliation.  from is not in the code: *)
(* how many entries were committed then.                                   *)
ReconcileStart(w) ==
  /\ reader.pc = "idle" /\ wallets[w] # None
  /\ Read([pc |-> "count", wallet |-> w, stored |-> wallets[w].balance,
           from |-> Len(ledger[w])])

CountEntries ==
  /\ reader.pc = "count"
  /\ Read([pc |-> "sum", wallet |-> reader.wallet, stored |-> reader.stored,
           from |-> reader.from, checked |-> Len(ledger[reader.wallet])])

(* Mutant: the balance is taken from the sum. *)
DifferenceReversed(stored, calculated) == calculated - stored

Difference(stored, calculated) == stored - calculated

(* sumLedgerNet, and the result the caller gets. *)
Report ==
  LET net == Sum(ledger[reader.wallet])
      difference == Difference(reader.stored, net)
  IN
  /\ reader.pc = "sum"
  /\ Read([pc |-> "reported", wallet |-> reader.wallet,
           from |-> reader.from, to |-> Len(ledger[reader.wallet]),
           checked |-> reader.checked, calculated |-> net,
           difference |-> difference, consistent |-> difference = 0])

-----------------------------------------------------------------------------
(* GetWalletLedgerUseCase.execute and findByWalletId *)

Limit(asked) ==
  LET limit == IF asked = None THEN DefaultLimit ELSE asked
  IN  Min({Max({limit, 1}), MaxLimit})

(* ORDER BY created_at ASC, id ASC *)
Before(e, f) == e.at < f.at \/ (e.at = f.at /\ e.id < f.id)

(* Mutant: the cursor is the created_at of the last entry, without its id. *)
LaterThanCursor(e, cursor) == cursor = None \/ cursor.at < e.at

(* (l.created_at, l.id) > (?, ?) *)
AfterCursor(e, cursor) == cursor = None \/ Before(cursor, e)

(* Mutant: the pages are cut from the rows as they come. *)
RowsUnordered(w, cursor) ==
  SelectSeq(ledger[w], LAMBDA e : AfterCursor(e, cursor))

(* The n-th row has n - 1 before it. *)
RowsAfter(w, cursor) ==
  LET later == {e \in ToSet(ledger[w]) : AfterCursor(e, cursor)}
      Ahead(e) == {f \in later : Before(f, e)}
  IN  [n \in 1..Cardinality(later) |->
         CHOOSE e \in later : Cardinality(Ahead(e)) = n - 1]

(* A caller follows nextCursor from the first page to the last.  owed is   *)
(* not in the code: what was committed when the walk began.                *)
WalkStart(w, asked) ==
  /\ reader.pc = "idle" /\ wallets[w] # None
  /\ Read([pc |-> "page", wallet |-> w, limit |-> Limit(asked),
           cursor |-> None, listed |-> << >>, owed |-> ToSet(ledger[w])])

(* limit + 1 rows are fetched to know whether there are more. *)
NextPage ==
  LET rows == RowsAfter(reader.wallet, reader.cursor)
      hasMore == Len(rows) > reader.limit
      page == SubSeq(rows, 1, Min({Len(rows), reader.limit}))
  IN
  /\ reader.pc = "page"
  /\ Read([reader EXCEPT !.pc = IF hasMore THEN "page" ELSE "walked",
                         !.cursor = IF hasMore THEN Last(page) ELSE None,
                         !.listed = @ \o page])

(* WalletNotFoundError, for either read: there is nothing to tell. *)
Unknown(w) ==
  /\ reader.pc = "idle" /\ wallets[w] = None
  /\ Read([pc |-> "notFound", wallet |-> w])

Leave ==
  /\ reader.pc \in {"reported", "walked", "notFound"}
  /\ Read(Resting)

ReaderStep ==
  \/ CountEntries \/ Report \/ NextPage \/ Leave
  \/ \E w \in WalletIds :
       \/ ReconcileStart(w) \/ Unknown(w)
       \/ \E asked \in Limits : WalkStart(w, asked)

OpeningStep ==
  /\ \E s \in Sessions : OpeningStart(s) \/ OpeningStatement(s) \/ Crash(s)
  /\ UNCHANGED reader

Next ==
  \/ OpeningStep
  \/ \E w \in WalletIds, direction \in {"DEBIT", "CREDIT"} : Move(w, direction, 1)
  \/ ReaderStep

Spec == Init /\ [][Next]_vars

-----------------------------------------------------------------------------
(* Properties *)

(* Every variable has its type. *)
TypeOK ==
  LET Row == [player : {r.player : r \in Requests}, currency : ColumnCodes,
              balance : 0..MaxCents, version : Nat]
      Entry == [tx : {"opening", "wager"}, at : Times, id : EntryIds,
                direction : {"DEBIT", "CREDIT"}, amount : 1..MaxCents,
                before : 0..MaxCents, after : 0..MaxCents]
  IN
  /\ wallets \in [WalletIds -> Row \cup {None}]
  /\ openings \in [WalletIds ->
       [status : {"PROCESSED"}, amount : 1..MaxCents, observed : 1..MaxCents]
         \cup {None}]
  /\ \A w \in WalletIds : \A i \in DOMAIN ledger[w] : ledger[w][i] \in Entry
  /\ pc \in [Sessions -> {"idle", "find", "insert", "opening", "commit"}]
  /\ request \in [Sessions -> Requests \cup {None}]
  /\ walletId \in [Sessions -> WalletIds \cup {None}]
  /\ draft \in [Sessions -> Row \cup {None}]
  /\ reader.pc \in {"idle", "count", "sum", "reported", "page", "walked", "notFound"}

BalanceEvents(w) ==
  {i \in DOMAIN outbox[w] : outbox[w][i].type = "WalletBalanceChanged"}

(* A wallet's history starts at zero: its opening balance is its first     *)
(* entry, told by its first event, and from there the entries lead to the  *)
(* balance and the versions of the events to the version.  No crash leaves *)
(* a wallet whose opening credit is missing (README.md:206).               *)
HistoryStartsAtZero ==
  \A w \in WalletIds :
    LET first == IF openings[w] = None THEN 2 ELSE 1
        version(i) == outbox[w][i].version
    IN
    IF wallets[w] = None THEN ledger[w] = << >> /\ outbox[w] = << >>
    ELSE /\ Sum(ledger[w]) = wallets[w].balance
         /\ wallets[w].version = first + Len(ledger[w]) - 1
         /\ {version(i) : i \in BalanceEvents(w)} = first..wallets[w].version
         /\ \A i, j \in BalanceEvents(w) : i < j => version(i) < version(j)

(* A reconciliation under way while entries are committed differs by       *)
(* exactly the entries it has read the balance before and the sum after:   *)
(* a wallet that rests is consistent, and what is reported of one that     *)
(* moves is never a difference of its books (ARCHITECTURE.md:344).         *)
DifferenceIsTheGap ==
  reader.pc = "reported" =>
    LET gap == SubSeq(ledger[reader.wallet], reader.from + 1, reader.to) IN
    /\ reader.difference = -Sum(gap)
    /\ reader.consistent <=> Sum(gap) = 0
    /\ reader.from <= reader.checked /\ reader.checked <= reader.to

(* A walk over the pages lists entries in the order of (created_at, id)    *)
(* and none twice, whatever is committed between two pages                 *)
(* (ARCHITECTURE.md:294).                                                  *)
WalkIsOrdered ==
  reader.pc \in {"page", "walked"} =>
    \A i \in 2..Len(reader.listed) : Before(reader.listed[i - 1], reader.listed[i])

(* A walk that has reached the last page has listed every entry that was   *)
(* committed when it began, two with one created_at included               *)
(* (ARCHITECTURE.md:296).  One committed meanwhile may be missing.         *)
WalkIsComplete ==
  reader.pc = "walked" => reader.owed \subseteq ToSet(reader.listed)
=============================================================================

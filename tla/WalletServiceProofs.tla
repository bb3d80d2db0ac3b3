------------------------- MODULE WalletServiceProofs -------------------------
(***************************************************************************)
(* What WalletService promises, for any number of sessions, requests,      *)
(* wallets, movements and pages: one wallet for a player and a currency,   *)
(* true replies, values that fit their columns, a history that starts at   *)
(* zero, and reads that are right whatever is committed between their      *)
(* statements.                                                             *)
(*                                                                         *)
(* Openings.  The unique constraint is a lock: the wallet an open          *)
(* transaction has inserted is unlike every other such wallet and unlike   *)
(* every committed one (DraftsApart, DraftsNew), because an INSERT waits   *)
(* for the first kind and fails on the second.  What a session has at each *)
(* statement, and what it has read before (Ready), makes its reply true:   *)
(* a wallet that is committed stays.                                       *)
(*                                                                         *)
(* Histories (WalletSound).  A transaction about to commit has drafted an  *)
(* opening credit of its balance, or has no balance (Prepared), under a    *)
(* uuid that is nobody else's (Fresh); a movement appends one entry and    *)
(* one number.                                                             *)
(*                                                                         *)
(* Reads (ReaderSound).  A ledger only gets longer, so what the sum has    *)
(* more than the balance that was read is the sum of the entries since;    *)
(* and a page goes on in the order of (created_at, id) where the list      *)
(* ends, so that what is owed is listed or still after the cursor.         *)
(*                                                                         *)
(* The sum along a ledger and the numbering of the rows of a page are      *)
(* taken apart by an induction stated with a set of numbers.               *)
(***************************************************************************)
EXTENDS WalletService, FiniteSetTheorems, SequenceTheorems, WellFoundedInduction, TLAPS

(* What the argument needs of the types: a row has its fields. *)
Row == [player : {r.player : r \in Requests},
        currency : {From(r.money).currency : r \in Requests},
        balance : Int, version : Int]

Typed ==
  /\ wallets \in [WalletIds -> Row \cup {None}]
  /\ draft \in [Sessions -> Row \cup {None}]
  /\ request \in [Sessions -> Requests \cup {None}]
  /\ pc \in [Sessions -> {"idle", "find", "insert", "opening", "commit"}]
  /\ \A s \in Sessions : pc[s] \in {"find", "insert"} => request[s] \in Requests

Same(v, w) == v.player = w.player /\ v.currency = w.currency

DraftsApart ==
  \A s, t \in Sessions :
    s # t /\ draft[s] # None /\ draft[t] # None => ~Same(draft[s], draft[t])

DraftsNew ==
  \A s \in Sessions, w \in WalletIds :
    draft[s] # None /\ wallets[w] # None => ~Same(draft[s], wallets[w])

WalletsApart ==
  \A v, w \in WalletIds :
    v # w /\ wallets[v] # None /\ wallets[w] # None => ~Same(wallets[v], wallets[w])

OpeningInv == Typed /\ DraftsApart /\ DraftsNew /\ WalletsApart

(* Committed rows that are apart leave one wallet for each name. *)
LEMMA ApartIsUnique == WalletsApart => OneWalletPerPlayerAndCurrency
BY DEF WalletsApart, OneWalletPerPlayerAndCurrency, Named, Same

(* There is no wallet and no draft yet. *)
LEMMA OpeningInvInit == Init => OpeningInv
BY DEF Init, OpeningInit, OpeningInv, Typed, DraftsApart, DraftsNew, WalletsApart

(* What a step does to a row it does not open: nothing, or a movement,     *)
(* which leaves the player and the currency. *)
LEMMA Undisturbed ==
  ASSUME OpeningInv, Typed', draft' = draft,
         \A w \in WalletIds :
           /\ wallets'[w] # None => wallets[w] # None
           /\ wallets'[w] # None => Same(wallets'[w], wallets[w])
  PROVE  OpeningInv'
<1>1. DraftsApart'
  BY DEF OpeningInv, DraftsApart
<1>2. DraftsNew'
  BY DEF OpeningInv, DraftsNew, Same
<1>3. WalletsApart'
  BY DEF OpeningInv, WalletsApart, Same
<1> QED
  BY <1>1, <1>2, <1>3 DEF OpeningInv

(* A transaction that ends, with its draft dropped or committed. *)
LEMMA Ended ==
  ASSUME OpeningInv, NEW s \in Sessions, End(s), wallets' = wallets
  PROVE  OpeningInv'
<1>1. /\ draft' \in [Sessions -> Row \cup {None}]
      /\ \A t \in Sessions : draft'[t] # None => t # s /\ draft'[t] = draft[t]
  BY DEF OpeningInv, Typed, End
<1>2. Typed'
  BY <1>1 DEF OpeningInv, Typed, End
<1>3. DraftsApart'
  BY <1>1 DEF OpeningInv, DraftsApart
<1>4. DraftsNew'
  BY <1>1 DEF OpeningInv, DraftsNew
<1>5. WalletsApart'
  BY DEF OpeningInv, WalletsApart
<1> QED
  BY <1>2, <1>3, <1>4, <1>5 DEF OpeningInv

(* An INSERT that goes through is apart from all drafts and wallets. *)
LEMMA InsertKeepsInv ==
  ASSUME OpeningInv, NEW s \in Sessions, InsertWallet(s)
  PROVE  OpeningInv'
<1> DEFINE row == Opened(request[s].player, Balance(s))
<1>1. request[s] \in Requests
  BY DEF OpeningInv, Typed, InsertWallet
<1>2. Balance(s).cents \in Int
  <2>1. request[s].money.amount.cents \in Nat
    BY <1>1, RequestsAssumption
  <2> QED
    BY <2>1 DEF Balance, From
<1>3. row \in Row /\ Same(row, [player |-> request[s].player, currency |-> Balance(s).currency])
  BY <1>1, <1>2 DEF Opened, Row, Balance, Same
<1> HIDE DEF row
<1>4. /\ draft' = [draft EXCEPT ![s] = row]
      /\ wallets' = wallets /\ request' = request
      /\ pc' \in [Sessions -> {"idle", "find", "insert", "opening", "commit"}]
      /\ \A t \in Sessions : pc'[t] \in {"find", "insert"} => pc[t] \in {"find", "insert"}
  BY DEF InsertWallet, Goto, tables, OpeningInv, Typed, row
<1>5. /\ draft'[s] = row
      /\ \A t \in Sessions \ {s} : draft'[t] = draft[t]
  BY <1>4 DEF OpeningInv, Typed
<1>6. \A t \in Sessions \ {s} : draft[t] # None => ~Same(draft[t], row)
  BY <1>3 DEF InsertWallet, InsertWaits, Named, Same
<1>7. \A w \in WalletIds : wallets[w] # None => ~Same(wallets[w], row)
  BY <1>3 DEF InsertWallet, Taken, Named, Same
<1>8. Typed'
  BY <1>3, <1>4 DEF OpeningInv, Typed
<1>9. DraftsApart'
  BY <1>5, <1>6 DEF OpeningInv, DraftsApart, Same
<1>10. DraftsNew'
  BY <1>4, <1>5, <1>7 DEF OpeningInv, DraftsNew, Same
<1>11. WalletsApart'
  BY <1>4 DEF OpeningInv, WalletsApart
<1> QED
  BY <1>8, <1>9, <1>10, <1>11 DEF OpeningInv

(* A COMMIT turns a draft that is apart into a wallet that is. *)
LEMMA CommitKeepsInv ==
  ASSUME OpeningInv, NEW s \in Sessions, Commit(s)
  PROVE  OpeningInv'
<1>1. wallets' \in [WalletIds -> Row \cup {None}]
  BY DEF Commit, OpeningInv, Typed
<1>2. \A w \in WalletIds : wallets'[w] = wallets[w] \/ (w = walletId[s] /\ wallets'[w] = draft[s])
  BY DEF Commit, OpeningInv, Typed
<1>3. /\ draft' \in [Sessions -> Row \cup {None}]
      /\ \A t \in Sessions : draft'[t] # None => t # s /\ draft'[t] = draft[t]
  BY DEF OpeningInv, Typed, Commit, End
<1>4. Typed'
  BY <1>1, <1>3 DEF OpeningInv, Typed, Commit, End
<1>5. DraftsApart'
  BY <1>3 DEF OpeningInv, DraftsApart
<1>6. DraftsNew'
  BY <1>2, <1>3 DEF OpeningInv, DraftsNew, DraftsApart
<1>7. WalletsApart'
  BY <1>2 DEF OpeningInv, WalletsApart, DraftsNew, Same
<1> QED
  BY <1>4, <1>5, <1>6, <1>7 DEF OpeningInv

(* The other statements of an opening. *)
LEMMA StatementKeepsInv ==
  ASSUME OpeningInv, NEW s \in Sessions, OpeningStatement(s)
  PROVE  OpeningInv'
<1>1. CASE FindNone(s) \/ InsertOpening(s)
  <2>1. /\ wallets' = wallets /\ draft' = draft /\ request' = request
        /\ pc' \in [Sessions -> {"idle", "find", "insert", "opening", "commit"}]
    BY <1>1 DEF FindNone, InsertOpening, Goto, tables, transaction, OpeningInv, Typed
  <2>2. \A t \in Sessions : pc'[t] \in {"find", "insert"} => request[t] \in Requests
    BY <1>1 DEF FindNone, InsertOpening, Goto, OpeningInv, Typed
  <2>3. Typed'
    BY <2>1, <2>2 DEF OpeningInv, Typed
  <2> QED
    BY <2>1, <2>3, Undisturbed DEF Same
<1>2. CASE FindExisting(s) \/ InsertViolates(s) \/ InsertOverflows(s)
  BY <1>2, Ended DEF FindExisting, InsertViolates, InsertOverflows, RollBack, tables
<1>3. CASE InsertWallet(s)
  BY <1>3, InsertKeepsInv
<1>4. CASE Commit(s)
  BY <1>4, CommitKeepsInv
<1> QED
  BY <1>1, <1>2, <1>3, <1>4 DEF OpeningStatement

(* A request is taken up. *)
LEMMA StartKeepsInv ==
  ASSUME OpeningInv, NEW s \in Sessions, NEW r \in Requests, Receive(s, r)
  PROVE  OpeningInv'
<1>1. /\ wallets' = wallets /\ draft' = draft
      /\ pc' \in [Sessions -> {"idle", "find", "insert", "opening", "commit"}]
      /\ request' \in [Sessions -> Requests \cup {None}]
  BY DEF Receive, Goto, tables, OpeningInv, Typed
<1>2. \A t \in Sessions : pc'[t] \in {"find", "insert"} => request'[t] \in Requests
  BY DEF Receive, Goto, OpeningInv, Typed
<1>3. Typed'
  BY <1>1, <1>2 DEF OpeningInv, Typed
<1> QED
  BY <1>1, <1>3, Undisturbed DEF Same

(* A movement changes the balance and the version of one committed row. *)
LEMMA MoveKeepsInv ==
  ASSUME OpeningInv, NEW w \in WalletIds, NEW direction, Move(w, direction, 1)
  PROVE  OpeningInv'
<1>1. /\ wallets[w] \in Row /\ wallets[w] # None
      /\ draft' = draft /\ request' = request /\ pc' = pc
  BY DEF Move, OpeningInv, Typed, transaction
<1>2. PICK at \in Times, id \in EntryIds :
        wallets' = [wallets EXCEPT
          ![w].balance = Movement("wager", at, id, direction, wallets[w].balance, 1).after,
          ![w].version = wallets[w].version + 1]
  BY DEF Move
<1> DEFINE after == Movement("wager", at, id, direction, wallets[w].balance, 1).after
           version == wallets[w].version + 1
<1>3. after \in Int /\ version \in Int
  BY <1>1 DEF Movement, Row
<1>4. wallets' = [wallets EXCEPT ![w].balance = after, ![w].version = version]
  BY <1>2
<1> HIDE DEF after, version
<1>5. /\ wallets' \in [WalletIds -> Row \cup {None}]
      /\ Same(wallets'[w], wallets[w])
      /\ \A v \in WalletIds \ {w} : wallets'[v] = wallets[v]
  BY <1>1, <1>3, <1>4 DEF OpeningInv, Typed, Row, Same
<1>6. Typed'
  BY <1>1, <1>5 DEF OpeningInv, Typed
<1> QED
  BY <1>1, <1>5, <1>6, Undisturbed DEF Same

(* The three facts of an inductive invariant, the second one by step. *)
THEOREM OpeningInvStep == OpeningInv /\ [Next]_vars => OpeningInv'
<1> SUFFICES ASSUME OpeningInv, [Next]_vars PROVE OpeningInv'
  OBVIOUS
<1>1. CASE OpeningStep
  <2>1. PICK s \in Sessions : OpeningStart(s) \/ OpeningStatement(s) \/ Crash(s)
    BY <1>1 DEF OpeningStep
  <2>2. CASE OpeningStart(s)
    <3>1. CASE \E r \in Requests : Receive(s, r)
      BY <3>1, StartKeepsInv
    <3>2. CASE \E r \in Requests : RefuseMoney(s, r)
      BY <3>2, Undisturbed DEF RefuseMoney, tables, transaction, OpeningInv, Typed, Same
    <3> QED
      BY <2>2, <3>1, <3>2 DEF OpeningStart
  <2>3. CASE OpeningStatement(s)
    BY <2>3, StatementKeepsInv
  <2>4. CASE Crash(s)
    BY <2>4, Ended DEF Crash, tables
  <2> QED
    BY <2>1, <2>2, <2>3, <2>4
<1>2. CASE \E w \in WalletIds, direction \in {"DEBIT", "CREDIT"} : Move(w, direction, 1)
  BY <1>2, MoveKeepsInv
<1>3. CASE ReaderStep \/ UNCHANGED vars
  <2>1. UNCHANGED <<wallets, draft, request, pc>>
    BY <1>3 DEF ReaderStep, CountEntries, Report, NextPage, Leave, ReconcileStart,
      Unknown, WalkStart, Read, vars, openingVars, tables, transaction
  <2> QED
    BY <2>1, Undisturbed DEF OpeningInv, Typed, Same
<1> QED
  BY <1>1, <1>2, <1>3 DEF Next

(* However many requests race, however the currency is written and         *)
(* whatever crashes, a player has one wallet in a currency (README.md:460).*)
THEOREM OneWallet == Spec => []OneWalletPerPlayerAndCurrency
<1>1. Spec => []OpeningInv
  BY OpeningInvInit, OpeningInvStep, PTL DEF Spec
<1>2. OpeningInv => OneWalletPerPlayerAndCurrency
  BY ApartIsUnique DEF OpeningInv
<1> QED
  BY <1>1, <1>2, PTL

-----------------------------------------------------------------------------
(* Types, and replies *)

WalletRow == [player : {r.player : r \in Requests}, currency : ColumnCodes,
              balance : 0..MaxCents, version : Nat]

OpeningRow == [status : {"PROCESSED"}, amount : 1..MaxCents, observed : 1..MaxCents]

LedgerEntry == [tx : {"opening", "wager"}, at : Times, id : EntryIds,
                direction : {"DEBIT", "CREDIT"}, amount : 1..MaxCents,
                before : 0..MaxCents, after : 0..MaxCents]

(* What a session has when it is about to write the opening credit, or to  *)
(* commit.                                                                 *)
Ready(s) ==
  /\ pc[s] # "idle" => request[s] \in Requests /\ walletId[s] \in WalletIds
  /\ pc[s] = "opening" => /\ draft[s] \in WalletRow /\ draft[s].balance > 0
                         /\ draft[s].balance = Balance(s).cents
  /\ pc[s] = "commit" => draft[s] \in WalletRow

SessionsTyped ==
  /\ pc \in [Sessions -> {"idle", "find", "insert", "opening", "commit"}]
  /\ request \in [Sessions -> Requests \cup {None}]
  /\ walletId \in [Sessions -> WalletIds \cup {None}]
  /\ draft \in [Sessions -> WalletRow \cup {None}]
  /\ openingDraft \in [Sessions -> OpeningRow \cup {None}]

TablesTyped ==
  /\ wallets \in [WalletIds -> WalletRow \cup {None}]
  /\ openings \in [WalletIds -> OpeningRow \cup {None}]
  /\ ledger \in [WalletIds -> Seq(LedgerEntry)]

ReaderTyped ==
  reader.pc \in {"idle", "count", "sum", "reported", "page", "walked", "notFound"}

ServiceInv ==
  /\ SessionsTyped /\ TablesTyped /\ ReaderTyped
  /\ \A s \in Sessions : Ready(s)
  /\ RepliesAreTrue

(* There is nothing to type yet. *)
LEMMA ServiceInvInit == Init => ServiceInv
BY DEF Init, OpeningInit, Resting, ServiceInv, SessionsTyped, TablesTyped, ReaderTyped, Ready,
       RepliesAreTrue

(* A step of one session, the tables and the reader left alone. *)
LEMMA SessionStep ==
  ASSUME ServiceInv, UNCHANGED <<tables, reader>>, RepliesAreTrue',
         NEW s \in Sessions, SessionsTyped', Ready(s)',
         \A t \in Sessions \ {s} :
           /\ pc'[t] = pc[t] /\ request'[t] = request[t] /\ walletId'[t] = walletId[t]
           /\ draft'[t] = draft[t]
  PROVE  ServiceInv'
<1>1. TablesTyped' /\ ReaderTyped'
  BY DEF ServiceInv, TablesTyped, ReaderTyped, tables
<1>2. \A t \in Sessions \ {s} : Ready(t)'
  BY DEF ServiceInv, Ready, Balance
<1> QED
  BY <1>1, <1>2 DEF ServiceInv

(* A transaction that ends leaves nothing. *)
LEMMA EndTyped ==
  ASSUME ServiceInv, NEW s \in Sessions, End(s)
  PROVE  /\ SessionsTyped' /\ Ready(s)'
         /\ \A t \in Sessions \ {s} :
              /\ pc'[t] = pc[t] /\ request'[t] = request[t] /\ walletId'[t] = walletId[t]
              /\ draft'[t] = draft[t]
BY DEF ServiceInv, SessionsTyped, End, Ready

(* What a rollback tells the caller is so already. *)
LEMMA RollBackKeepsService ==
  ASSUME ServiceInv, NEW s \in Sessions, NEW error, RollBack(s, error), reader' = reader,
         error # "OPENED",
         error = "DUPLICATE_WALLET" => Taken(s)
  PROVE  ServiceInv'
<1>1. RepliesAreTrue'
  BY DEF RollBack, Reply, RepliesAreTrue, Taken, Balance, tables
<1> QED
  BY <1>1, EndTyped, SessionStep DEF RollBack

(* A request is taken up, or refused at once. *)
LEMMA StartKeepsService ==
  ASSUME ServiceInv, NEW s \in Sessions, OpeningStart(s), reader' = reader
  PROVE  ServiceInv'
<1>1. PICK r \in Requests : RefuseMoney(s, r) \/ Receive(s, r)
  BY DEF OpeningStart
<1>2. CASE RefuseMoney(s, r)
  BY <1>2, SessionStep
  DEF RefuseMoney, transaction, Reply, RepliesAreTrue, ServiceInv, SessionsTyped, Ready, Balance
<1>3. CASE Receive(s, r)
  <2>1. PICK w \in WalletIds : walletId' = [walletId EXCEPT ![s] = w]
    BY <1>3 DEF Receive
  <2>2. /\ request' = [request EXCEPT ![s] = r] /\ pc' = [pc EXCEPT ![s] = "find"]
        /\ draft' = draft /\ openingDraft' = openingDraft /\ reply' = None
        /\ UNCHANGED tables
    BY <1>3 DEF Receive, Goto
  <2>3. SessionsTyped' /\ Ready(s)'
    BY <2>1, <2>2 DEF ServiceInv, SessionsTyped, Ready
  <2> QED
    BY <2>1, <2>2, <2>3, SessionStep DEF ServiceInv, SessionsTyped, RepliesAreTrue
<1> QED
  BY <1>1, <1>2, <1>3

(* What fits its columns is a row of the table. *)
LEMMA InsertKeepsService ==
  ASSUME ServiceInv, NEW s \in Sessions, InsertWallet(s), reader' = reader
  PROVE  ServiceInv'
<1> DEFINE row == Opened(request[s].player, Balance(s))
           label == IF IsPositive(Balance(s)) THEN "opening" ELSE "commit"
<1>1. request[s] \in Requests /\ pc[s] # "idle" /\ walletId[s] \in WalletIds
  BY DEF ServiceInv, Ready, InsertWallet
<1>2. /\ Balance(s).cents \in 0..MaxCents /\ Balance(s).currency \in ColumnCodes
  <2>1. request[s].money.amount.cents \in Nat
    BY <1>1, RequestsAssumption
  <2> QED
    BY <2>1, ColumnsAssumption DEF Balance, From, InsertWallet, FitsColumns
<1>3. row \in WalletRow /\ row.balance = Balance(s).cents
      /\ (label = "opening" => row.balance > 0)
  BY <1>1, <1>2 DEF Opened, WalletRow, IsPositive
<1>4. /\ draft' = [draft EXCEPT ![s] = row] /\ pc' = [pc EXCEPT ![s] = label]
      /\ UNCHANGED <<tables, request, walletId, openingDraft>> /\ reply' = None
      /\ label \in {"opening", "commit"}
  BY DEF InsertWallet, Goto
<1> HIDE DEF row, label
<1>5. SessionsTyped'
  BY <1>3, <1>4 DEF ServiceInv, SessionsTyped
<1>6. Balance(s)' = Balance(s)
  BY <1>4 DEF Balance
<1>7. Ready(s)'
  BY <1>1, <1>3, <1>4, <1>6 DEF ServiceInv, SessionsTyped, Ready
<1> QED
  BY <1>4, <1>5, <1>7, SessionStep DEF ServiceInv, SessionsTyped, RepliesAreTrue

(* The OPENING row has the balance of the wallet, which is positive. *)
LEMMA OpeningKeepsService ==
  ASSUME ServiceInv, NEW s \in Sessions, FindNone(s) \/ InsertOpening(s), reader' = reader
  PROVE  ServiceInv'
<1>1. /\ UNCHANGED <<tables, request, walletId, draft>> /\ reply' = None
  BY DEF FindNone, InsertOpening, Goto, transaction
<1>2. Balance(s)' = Balance(s)
  BY <1>1 DEF Balance
<1>3. CASE FindNone(s)
  <2>1. SessionsTyped' /\ Ready(s)'
    BY <1>1, <1>3 DEF FindNone, Goto, transaction, ServiceInv, SessionsTyped, Ready
  <2> QED
    BY <1>1, <1>3, <2>1, SessionStep
    DEF FindNone, Goto, ServiceInv, SessionsTyped, RepliesAreTrue
<1>4. CASE InsertOpening(s)
  <2>1. draft[s] \in WalletRow /\ draft[s].balance > 0 /\ draft[s].balance = Balance(s).cents
    BY <1>4 DEF InsertOpening, ServiceInv, Ready
  <2>2. draft[s].balance \in 1..MaxCents
    BY <2>1, ColumnsAssumption DEF WalletRow
  <2>3. /\ openingDraft' = [openingDraft EXCEPT ![s] =
              [status |-> "PROCESSED", amount |-> draft[s].balance,
               observed |-> draft[s].balance]]
        /\ pc' = [pc EXCEPT ![s] = "commit"] /\ pc[s] # "idle"
    BY <1>4, <2>1 DEF InsertOpening, Goto
  <2>4. SessionsTyped' /\ Ready(s)'
    BY <1>1, <2>1, <2>2, <2>3 DEF ServiceInv, SessionsTyped, Ready, OpeningRow
  <2> QED
    BY <1>1, <2>3, <2>4, SessionStep DEF ServiceInv, SessionsTyped, RepliesAreTrue
<1> QED
  BY <1>3, <1>4

(* The opening credit is one entry, or none. *)
LEMMA CommitKeepsService ==
  ASSUME ServiceInv, NEW s \in Sessions, Commit(s), reader' = reader
  PROVE  ServiceInv'
<1>1. /\ draft[s] \in WalletRow /\ walletId[s] \in WalletIds
      /\ openingDraft[s] \in OpeningRow \cup {None}
  BY DEF Commit, ServiceInv, Ready, SessionsTyped
<1>2. PICK at \in Times, id \in EntryIds :
        ledger' = [ledger EXCEPT ![walletId[s]] = OpeningEntries(s, at, id)]
  BY DEF Commit
<1>3. OpeningEntries(s, at, id) \in Seq(LedgerEntry)
  <2>1. CASE openingDraft[s] = None
    BY <2>1 DEF OpeningEntries
  <2>2. CASE openingDraft[s] # None
    <3>1. openingDraft[s].amount \in 1..MaxCents
      BY <1>1, <2>2 DEF OpeningRow
    <3>2. Movement("opening", at, id, "CREDIT", 0, openingDraft[s].amount) \in LedgerEntry
      BY <3>1, ColumnsAssumption DEF Movement, LedgerEntry
    <3> QED
      BY <2>2, <3>2 DEF OpeningEntries
  <2> QED
    BY <2>1, <2>2
<1>4. /\ wallets' = [wallets EXCEPT ![walletId[s]] = draft[s]]
      /\ openings' = [openings EXCEPT ![walletId[s]] = openingDraft[s]]
      /\ reply' = [request |-> request[s], outcome |-> "OPENED", wallet |-> walletId[s]]
  BY DEF Commit, Reply
<1>5. TablesTyped'
  BY <1>1, <1>2, <1>3, <1>4 DEF ServiceInv, TablesTyped
<1>6. draft[s] # None
  <2>1. draft[s] \in [player : {r.player : r \in Requests}, currency : ColumnCodes,
                      balance : Nat, version : Nat]
    BY <1>1 DEF WalletRow
  <2> QED
    BY <2>1, NoneAssumption
<1>7. RepliesAreTrue'
  BY <1>1, <1>4, <1>6 DEF RepliesAreTrue, ServiceInv, TablesTyped
<1>8. SessionsTyped' /\ \A t \in Sessions : Ready(t)'
  <2>1. End(s)
    BY DEF Commit
  <2> QED
    BY <2>1, EndTyped DEF ServiceInv, Ready, Balance
<1> QED
  BY <1>5, <1>7, <1>8 DEF ServiceInv, ReaderTyped

(* A movement keeps the balance within its column. *)
LEMMA MoveKeepsService ==
  ASSUME ServiceInv, NEW w \in WalletIds, NEW direction \in {"DEBIT", "CREDIT"},
         Move(w, direction, 1)
  PROVE  ServiceInv'
<1>1. /\ wallets[w] \in WalletRow
      /\ direction = "DEBIT" => wallets[w].balance >= 1
      /\ direction = "CREDIT" => wallets[w].balance + 1 <= MaxCents
      /\ UNCHANGED <<openings, pc, transaction, reader>> /\ reply' = None
  BY DEF Move, ServiceInv, TablesTyped
<1>2. PICK at \in Times, id \in EntryIds :
        LET entry == Movement("wager", at, id, direction, wallets[w].balance, 1) IN
        /\ ledger' = [ledger EXCEPT ![w] = Append(@, entry)]
        /\ wallets' = [wallets EXCEPT ![w].balance = entry.after,
                                      ![w].version = wallets[w].version + 1]
  BY DEF Move
<1> DEFINE entry == Movement("wager", at, id, direction, wallets[w].balance, 1)
<1>3. entry \in LedgerEntry /\ entry.after \in 0..MaxCents
  BY <1>1, ColumnsAssumption DEF Movement, LedgerEntry, WalletRow
<1>4. /\ ledger' = [ledger EXCEPT ![w] = Append(@, entry)]
      /\ wallets' = [wallets EXCEPT ![w].balance = entry.after,
                                    ![w].version = wallets[w].version + 1]
  BY <1>2
<1> HIDE DEF entry
<1>5. ledger' \in [WalletIds -> Seq(LedgerEntry)]
  BY <1>3, <1>4 DEF ServiceInv, TablesTyped
<1>6. wallets' \in [WalletIds -> WalletRow \cup {None}]
  <2>1. PICK balance \in 0..MaxCents : balance = entry.after
    BY <1>3
  <2>2. PICK version \in Nat : version = wallets[w].version + 1
    BY <1>1 DEF WalletRow
  <2> DEFINE row == [wallets[w] EXCEPT !.balance = balance, !.version = version]
  <2>3. row \in WalletRow
    BY <1>1 DEF WalletRow
  <2>4. wallets' = [wallets EXCEPT ![w] = row]
    BY <1>4, <2>1, <2>2
  <2> HIDE DEF row
  <2> QED
    BY <2>3, <2>4 DEF ServiceInv, TablesTyped
<1>7. SessionsTyped' /\ \A s \in Sessions : Ready(s)'
  BY <1>1 DEF ServiceInv, SessionsTyped, Ready, Balance, transaction
<1> QED
  BY <1>1, <1>5, <1>6, <1>7 DEF ServiceInv, TablesTyped, ReaderTyped, RepliesAreTrue

(* A step of the reader changes nothing else. *)
LEMMA ReaderKeepsService ==
  ASSUME ServiceInv, ReaderStep
  PROVE  ServiceInv'
<1>1. UNCHANGED <<tables, pc, transaction>> /\ reply' = None
  BY DEF ReaderStep, CountEntries, Report, NextPage, Leave, ReconcileStart, Unknown,
    WalkStart, Read
<1>2. SessionsTyped' /\ TablesTyped' /\ \A s \in Sessions : Ready(s)'
  BY <1>1 DEF ServiceInv, SessionsTyped, TablesTyped, Ready, Balance, tables, transaction
<1>3. RepliesAreTrue'
  BY <1>1 DEF RepliesAreTrue
<1>4. ReaderTyped'
  <2>1. CASE NextPage
    <3>1. PICK cursor, listed :
            reader' = [reader EXCEPT
              !.pc = IF Len(RowsAfter(reader.wallet, reader.cursor)) > reader.limit
                     THEN "page" ELSE "walked",
              !.cursor = cursor, !.listed = listed]
      BY <2>1 DEF NextPage, Read
    <3> QED
      BY <3>1 DEF ReaderTyped
  <2>2. CASE ~NextPage
    BY <2>2 DEF ReaderStep, CountEntries, Report, Leave, ReconcileStart, Unknown,
      WalkStart, Read, ReaderTyped, Resting
  <2> QED
    BY <2>1, <2>2
<1> QED
  BY <1>2, <1>3, <1>4 DEF ServiceInv

(* Every step keeps types and replies. *)
LEMMA ServiceInvStep == ServiceInv /\ [Next]_vars => ServiceInv'
<1> SUFFICES ASSUME ServiceInv, [Next]_vars PROVE ServiceInv'
  OBVIOUS
<1>1. CASE OpeningStep
  <2>1. PICK s \in Sessions :
          /\ OpeningStart(s) \/ OpeningStatement(s) \/ Crash(s)
          /\ reader' = reader
    BY <1>1 DEF OpeningStep
  <2>2. CASE Crash(s)
    <3>1. RepliesAreTrue' /\ UNCHANGED tables
      BY <2>2 DEF Crash, RepliesAreTrue
    <3> QED
      BY <2>1, <2>2, <3>1, EndTyped, SessionStep DEF Crash
  <2>3. CASE FindExisting(s) \/ InsertViolates(s) \/ InsertOverflows(s)
    BY <2>1, <2>3, RollBackKeepsService DEF FindExisting, InsertViolates, InsertOverflows
  <2> QED
    BY <2>1, <2>2, <2>3, StartKeepsService, InsertKeepsService, OpeningKeepsService,
       CommitKeepsService
    DEF OpeningStatement
<1>2. CASE \E w \in WalletIds, direction \in {"DEBIT", "CREDIT"} : Move(w, direction, 1)
  BY <1>2, MoveKeepsService
<1>3. CASE ReaderStep
  BY <1>3, ReaderKeepsService
<1>4. CASE UNCHANGED vars
  BY <1>4 DEF vars, openingVars, tables, transaction, ServiceInv, SessionsTyped, TablesTyped,
    ReaderTyped, Ready, Balance, RepliesAreTrue
<1> QED
  BY <1>1, <1>2, <1>3, <1>4 DEF Next

(* Types and replies hold in every reachable state. *)
LEMMA ServiceAlways == Spec => []ServiceInv
BY ServiceInvInit, ServiceInvStep, PTL DEF Spec

(* Every variable has its type: no balance and no amount outgrows its      *)
(* column (Migration20260303180000_initial_schema.ts:10).                  *)
THEOREM ServiceTyped == Spec => []TypeOK
<1>1. ServiceInv => TypeOK
  <2> SUFFICES ASSUME ServiceInv PROVE TypeOK
    OBVIOUS
  <2>1. \A w \in WalletIds : \A i \in DOMAIN ledger[w] : ledger[w][i] \in LedgerEntry
    BY DEF ServiceInv, TablesTyped
  <2> QED
    BY <2>1 DEF ServiceInv, SessionsTyped, TablesTyped, ReaderTyped, TypeOK, WalletRow,
      OpeningRow, LedgerEntry
<1> QED
  BY <1>1, ServiceAlways, PTL

(* Nobody is told of a wallet that is not there, neither the one it opened *)
(* nor the one that was in its way (README.md:460).                        *)
THEOREM RepliesTrue == Spec => []RepliesAreTrue
<1>1. ServiceInv => RepliesAreTrue
  BY DEF ServiceInv
<1> QED
  BY <1>1, ServiceAlways, PTL
-----------------------------------------------------------------------------
(* Numbers *)

LEMMA Smaller ==
  ASSUME NEW a \in Int, NEW b \in Int
  PROVE  /\ Min({a, b}) \in Int /\ Min({a, b}) <= a /\ Min({a, b}) <= b
         /\ Min({a, b}) = a \/ Min({a, b}) = b
<1>1. \E x \in {a, b} : \A y \in {a, b} : x <= y
  BY a <= b \/ b <= a
<1>2. PICK m : m = Min({a, b})
  OBVIOUS
<1>3. m \in {a, b} /\ \A y \in {a, b} : m <= y
  BY <1>1, <1>2 DEF Min
<1> QED
  BY <1>2, <1>3

LEMMA Greater ==
  ASSUME NEW a \in Int, NEW b \in Int
  PROVE  Max({a, b}) \in Int /\ Max({a, b}) >= a /\ Max({a, b}) >= b
<1>1. \E x \in {a, b} : \A y \in {a, b} : x >= y
  BY a <= b \/ b <= a
<1>2. PICK m : m = Max({a, b})
  OBVIOUS
<1>3. m \in {a, b} /\ \A y \in {a, b} : m >= y
  BY <1>1, <1>2 DEF Max
<1> QED
  BY <1>2, <1>3

(* Induction, with the property given as the set of what has it. *)
LEMMA Induction ==
  ASSUME NEW T, T \subseteq Nat, 0 \in T, \A n \in T : n + 1 \in T
  PROVE  T = Nat
<1> DEFINE less == OpToRel(<, Nat)
           rest == Nat \ T
<1>1. \A m, n \in Nat : <<m, n>> \in less <=> m < n
  BY DEF OpToRel
<1>2. IsWellFoundedOn(less, Nat)
  BY NatLessThanWellFounded
<1> HIDE DEF less
<1> SUFFICES ASSUME rest # {} PROVE FALSE
  OBVIOUS
<1>3. PICK n \in rest : \A m \in rest : ~ (<<m, n>> \in less)
  BY <1>2, WFMin
<1>4. n # 0 /\ n - 1 \in Nat /\ n - 1 < n /\ n = (n - 1) + 1
  BY <1>3
<1>5. n - 1 \in T
  BY <1>1, <1>3, <1>4
<1> QED
  BY <1>3, <1>4, <1>5

-----------------------------------------------------------------------------
(* The sum of a ledger *)

(* g is the sum of each beginning of l, as far as n. *)
SumsTo(g, l, n) ==
  g = [i \in 0..n |-> IF i = 0 THEN 0 ELSE g[i - 1] + Signed(l[i])]

LEMMA SumsToEach ==
  ASSUME NEW l, NEW n \in Nat
  PROVE  \E g : SumsTo(g, l, n)
<1> DEFINE T == {m \in Nat : \E g : SumsTo(g, l, m)}
<1>1. 0 \in T
  <2>1. SumsTo([i \in 0..0 |-> 0], l, 0)
    BY DEF SumsTo
  <2> QED
    BY <2>1
<1>2. ASSUME NEW m \in T PROVE m + 1 \in T
  <2>1. PICK g : SumsTo(g, l, m)
    OBVIOUS
  <2> DEFINE h == [i \in 0..(m + 1) |-> IF i = 0 THEN 0 ELSE g[i - 1] + Signed(l[i])]
  <2>2. ASSUME NEW i \in 0..m PROVE h[i] = g[i]
    BY <2>1 DEF SumsTo
  <2>3. \A i \in 0..(m + 1) : i # 0 => i - 1 \in 0..m
    OBVIOUS
  <2>4. h = [i \in 0..(m + 1) |-> IF i = 0 THEN 0 ELSE h[i - 1] + Signed(l[i])]
    BY <2>2, <2>3
  <2>5. SumsTo(h, l, m + 1)
    BY <2>4 DEF SumsTo
  <2> QED
    BY <2>5
<1> HIDE DEF T
<1>3. T = Nat
  BY <1>1, <1>2, Induction DEF T
<1> QED
  BY <1>3 DEF T

(* Two sums of sequences that begin alike agree. *)
LEMMA SumsAgree ==
  ASSUME NEW l, NEW r, NEW m \in Nat, NEW n \in Nat, m <= n,
         \A i \in 1..m : l[i] = r[i],
         NEW g, NEW h, SumsTo(g, l, m), SumsTo(h, r, n)
  PROVE  \A i \in 0..m : g[i] = h[i]
<1> DEFINE T == {i \in Nat : i <= m => g[i] = h[i]}
<1>1. 0 \in T
  BY DEF SumsTo
<1>2. ASSUME NEW i \in T PROVE i + 1 \in T
  <2>1. ASSUME i + 1 <= m PROVE g[i + 1] = h[i + 1]
    <3>1. /\ i \in Nat /\ g[i] = h[i] /\ (i + 1) - 1 = i /\ i + 1 # 0
          /\ i + 1 \in 0..m /\ i + 1 \in 0..n /\ l[i + 1] = r[i + 1]
      BY <2>1
    <3>2. /\ g[i + 1] = IF i + 1 = 0 THEN 0 ELSE g[(i + 1) - 1] + Signed(l[i + 1])
          /\ h[i + 1] = IF i + 1 = 0 THEN 0 ELSE h[(i + 1) - 1] + Signed(r[i + 1])
      BY <3>1 DEF SumsTo
    <3> QED
      BY <3>1, <3>2
  <2> QED
    BY <2>1
<1> HIDE DEF T
<1>3. T = Nat
  BY <1>1, <1>2, Induction DEF T
<1> QED
  BY <1>3 DEF T

(* What the recursion of Sum says is so. *)
LEMMA SumUnfolds ==
  ASSUME NEW l, Len(l) \in Nat
  PROVE  \E g : SumsTo(g, l, Len(l)) /\ Sum(l) = g[Len(l)]
<1> DEFINE f == CHOOSE g : SumsTo(g, l, Len(l))
<1>1. SumsTo(f, l, Len(l))
  BY SumsToEach
<1>2. Sum(l) = f[Len(l)]
  BY DEF Sum, SumsTo
<1> QED
  BY <1>1, <1>2

LEMMA SumOfNone == Sum(<< >>) = 0
<1>1. Len(<< >>) = 0
  OBVIOUS
<1>2. PICK g : SumsTo(g, << >>, 0) /\ Sum(<< >>) = g[0]
  BY <1>1, SumUnfolds
<1> QED
  BY <1>2 DEF SumsTo

(* One entry more adds what it moved. *)
LEMMA SumOfMore ==
  ASSUME NEW S, NEW l \in Seq(S), NEW e \in S
  PROVE  Sum(Append(l, e)) = Sum(l) + Signed(e)
<1> DEFINE n == Len(l)
           m == Append(l, e)
<1>1. /\ n \in Nat /\ Len(m) = n + 1 /\ n + 1 \in Nat /\ m[n + 1] = e
      /\ \A i \in 1..n : l[i] = m[i]
  OBVIOUS
<1> HIDE DEF m, n
<1>2. PICK g : SumsTo(g, l, n) /\ Sum(l) = g[n]
  BY <1>1, SumUnfolds DEF n
<1>3. PICK h : SumsTo(h, m, n + 1) /\ Sum(m) = h[n + 1]
  BY <1>1, SumUnfolds
<1>4. g[n] = h[n]
  BY <1>1, <1>2, <1>3, SumsAgree
<1>5. h[n + 1] = IF n + 1 = 0 THEN 0 ELSE h[(n + 1) - 1] + Signed(m[n + 1])
  BY <1>1, <1>3 DEF SumsTo
<1>6. n + 1 # 0 /\ (n + 1) - 1 = n
  BY <1>1
<1> QED
  BY <1>1, <1>2, <1>3, <1>4, <1>5, <1>6 DEF m

LEMMA SignedIsInt ==
  ASSUME NEW e \in LedgerEntry
  PROVE  Signed(e) \in Int
<1>1. e.amount \in Int
  BY ColumnsAssumption DEF LedgerEntry
<1> QED
  BY <1>1 DEF Signed

(* A sum of amounts is a number. *)
LEMMA SumIsInt ==
  ASSUME NEW l \in Seq(LedgerEntry)
  PROVE  Sum(l) \in Int
<1>1. PICK n \in Nat : n = Len(l)
  OBVIOUS
<1>2. PICK g : SumsTo(g, l, n) /\ Sum(l) = g[n]
  BY <1>1, SumUnfolds
<1>3. \A i \in 1..n : Signed(l[i]) \in Int
  BY <1>1, SignedIsInt
<1> DEFINE T == {i \in Nat : i <= n => g[i] \in Int}
<1>4. 0 \in T
  BY <1>2 DEF SumsTo
<1>5. ASSUME NEW i \in T PROVE i + 1 \in T
  <2>1. ASSUME i + 1 <= n PROVE g[i + 1] \in Int
    <3>1. /\ g[i] \in Int /\ (i + 1) - 1 = i /\ i + 1 # 0
          /\ i + 1 \in 0..n /\ Signed(l[i + 1]) \in Int
      BY <1>3, <2>1
    <3>2. g[i + 1] = IF i + 1 = 0 THEN 0 ELSE g[(i + 1) - 1] + Signed(l[i + 1])
      BY <1>2, <3>1 DEF SumsTo
    <3> QED
      BY <3>1, <3>2
  <2> QED
    BY <2>1
<1> HIDE DEF T
<1>6. T = Nat
  BY <1>4, <1>5, Induction DEF T
<1> QED
  BY <1>2, <1>6 DEF T
-----------------------------------------------------------------------------
(* The order of the pages *)

(* No two entries of S have one id. *)
IdsDiffer(S) == \A e, f \in S : e.id = f.id => e = f

(* (created_at, id) orders the entries of a ledger. *)
LEMMA BeforeOrders ==
  ASSUME NEW S \in SUBSET LedgerEntry, IdsDiffer(S)
  PROVE  /\ \A e \in S : ~Before(e, e)
         /\ \A e, f \in S : Before(e, f) => ~Before(f, e)
         /\ \A e, f, g \in S : Before(e, f) /\ Before(f, g) => Before(e, g)
         /\ \A e, f \in S : e = f \/ Before(e, f) \/ Before(f, e)
<1>1. \A e \in S : e.at \in Int /\ e.id \in Int
  BY IdsAssumption DEF LedgerEntry
<1>2. \A e \in S : ~Before(e, e)
  BY <1>1 DEF Before
<1>3. \A e, f \in S : Before(e, f) => ~Before(f, e)
  BY <1>1 DEF Before
<1>4. \A e, f, g \in S : Before(e, f) /\ Before(f, g) => Before(e, g)
  BY <1>1 DEF Before
<1>5. \A e, f \in S : e = f \/ Before(e, f) \/ Before(f, e)
  BY <1>1 DEF Before, IdsDiffer
<1> QED
  BY <1>2, <1>3, <1>4, <1>5

Ahead(e, S) == {f \in S : Before(f, e)}

Ranked(S) == [n \in 1..Cardinality(S) |-> CHOOSE e \in S : Cardinality(Ahead(e, S)) = n - 1]

(* Numbering the entries by how many are before each sorts them: every     *)
(* number from 0 up is taken, because no two entries share one.            *)
LEMMA RankedSorts ==
  ASSUME NEW S \in SUBSET LedgerEntry, IsFiniteSet(S), IdsDiffer(S)
  PROVE  /\ Ranked(S) \in [1..Cardinality(S) -> S] /\ Cardinality(S) \in Nat
         /\ \A i, j \in 1..Cardinality(S) : i < j => Before(Ranked(S)[i], Ranked(S)[j])
         /\ \A e \in S : \E i \in 1..Cardinality(S) : Ranked(S)[i] = e
<1> DEFINE N == Cardinality(S)
           rank == [e \in S |-> Cardinality(Ahead(e, S))]
<1>1. N \in Nat
  BY FS_CardinalityType
<1>2. ASSUME NEW e \in S
      PROVE  Ahead(e, S) \in SUBSET S /\ IsFiniteSet(Ahead(e, S)) /\ rank[e] \in 0..(N - 1)
  <2>1. Ahead(e, S) \in SUBSET S /\ e \notin Ahead(e, S)
    BY BeforeOrders DEF Ahead
  <2>2. /\ IsFiniteSet(Ahead(e, S)) /\ Cardinality(Ahead(e, S)) <= N
        /\ Cardinality(Ahead(e, S)) # N
    BY <2>1, FS_Subset
  <2>3. Cardinality(Ahead(e, S)) \in Nat
    BY <2>2, FS_CardinalityType
  <2> HIDE DEF N
  <2> QED
    BY <1>1, <2>1, <2>2, <2>3
<1>3. ASSUME NEW e \in S, NEW f \in S, Before(e, f)
      PROVE  rank[e] < rank[f]
  <2>1. Ahead(e, S) \in SUBSET Ahead(f, S) /\ e \in Ahead(f, S) /\ e \notin Ahead(e, S)
    BY <1>3, BeforeOrders DEF Ahead
  <2>2. /\ Cardinality(Ahead(e, S)) <= Cardinality(Ahead(f, S))
        /\ Cardinality(Ahead(e, S)) # Cardinality(Ahead(f, S))
    BY <1>2, <2>1, FS_Subset
  <2>3. rank[e] \in Int /\ rank[f] \in Int
    BY <1>1, <1>2
  <2> QED
    BY <2>2, <2>3
<1> HIDE DEF N, rank
<1>4. rank \in Injection(S, 0..(N - 1))
  <2>1. rank \in [S -> 0..(N - 1)]
    BY <1>2 DEF rank
  <2>2. ASSUME NEW e \in S, NEW f \in S, rank[e] = rank[f] PROVE e = f
    <3>1. rank[e] \in Int
      BY <1>1, <1>2
    <3>2. ~Before(e, f) /\ ~Before(f, e)
      BY <1>3, <2>2, <3>1
    <3> QED
      BY <3>2, BeforeOrders
  <2> QED
    BY <2>1, <2>2 DEF Injection, IsInjective
<1>5. rank \in Surjection(S, 0..(N - 1))
  <2>1. IsFiniteSet(0..(N - 1)) /\ Cardinality(0..(N - 1)) = N
    BY <1>1, FS_Interval
  <2> QED
    BY <1>4, <2>1, FS_Injection DEF N
<1>6. ASSUME NEW n \in 1..N
      PROVE  Ranked(S)[n] \in S /\ rank[Ranked(S)[n]] = n - 1
  <2>1. n - 1 \in 0..(N - 1)
    BY <1>1
  <2>2. \E e \in S : Cardinality(Ahead(e, S)) = n - 1
    BY <1>5, <2>1 DEF Surjection, rank
  <2>3. Ranked(S)[n] = CHOOSE e \in S : Cardinality(Ahead(e, S)) = n - 1
    BY DEF Ranked, N
  <2> QED
    BY <2>2, <2>3 DEF rank
<1>7. Ranked(S) \in [1..N -> S]
  BY <1>6 DEF Ranked, N
<1>8. ASSUME NEW i \in 1..N, NEW j \in 1..N, i < j
      PROVE  Before(Ranked(S)[i], Ranked(S)[j])
  <2>1. /\ Ranked(S)[i] \in S /\ Ranked(S)[j] \in S
        /\ rank[Ranked(S)[i]] = i - 1 /\ rank[Ranked(S)[j]] = j - 1
    BY <1>6
  <2>2. i - 1 < j - 1 /\ i - 1 # j - 1
    BY <1>1, <1>8
  <2>3. ~Before(Ranked(S)[j], Ranked(S)[i])
    <3>1. ~(j - 1 < i - 1)
      BY <1>1, <1>8
    <3> QED
      BY <1>3, <2>1, <3>1
  <2> QED
    BY <2>1, <2>2, <2>3, BeforeOrders
<1>9. ASSUME NEW e \in S
      PROVE  \E i \in 1..N : Ranked(S)[i] = e
  <2>1. PICK n : n = rank[e] + 1
    OBVIOUS
  <2>2. n \in 1..N /\ n - 1 = rank[e]
    BY <1>1, <1>2, <2>1
  <2>3. Ranked(S)[n] \in S /\ rank[Ranked(S)[n]] = rank[e]
    BY <1>6, <2>2
  <2> QED
    BY <1>4, <2>2, <2>3 DEF Injection, IsInjective
<1> QED
  BY <1>1, <1>7, <1>8, <1>9 DEF N

(* What is in a sequence is finitely many. *)
LEMMA ListedIsFinite ==
  ASSUME NEW l \in Seq(LedgerEntry)
  PROVE  IsFiniteSet(ToSet(l)) /\ ToSet(l) \in SUBSET LedgerEntry
<1>1. PICK n \in Nat : n = Len(l)
  OBVIOUS
<1>2. l \in [1..n -> ToSet(l)] /\ ToSet(l) \in SUBSET LedgerEntry
  BY <1>1 DEF ToSet
<1>3. l \in Surjection(1..n, ToSet(l))
  BY <1>1, <1>2 DEF Surjection, ToSet
<1>4. IsFiniteSet(1..n)
  BY FS_Interval
<1> QED
  BY <1>2, <1>3, <1>4, FS_Surjection

(* The rows after the cursor, in order and each once. *)
LEMMA RowsSorted ==
  ASSUME NEW w, NEW cursor, ledger[w] \in Seq(LedgerEntry), IdsDiffer(ToSet(ledger[w])),
         NEW rows, rows = RowsAfter(w, cursor)
  PROVE  /\ rows \in Seq(LedgerEntry)
         /\ \A i \in 1..Len(rows) : rows[i] \in ToSet(ledger[w]) /\ AfterCursor(rows[i], cursor)
         /\ \A i, j \in 1..Len(rows) : i < j => Before(rows[i], rows[j])
         /\ \A e \in ToSet(ledger[w]) :
              AfterCursor(e, cursor) => \E i \in 1..Len(rows) : rows[i] = e
<1> DEFINE S == {e \in ToSet(ledger[w]) : AfterCursor(e, cursor)}
<1>1. IsFiniteSet(ToSet(ledger[w])) /\ ToSet(ledger[w]) \in SUBSET LedgerEntry
  BY ListedIsFinite
<1>2. IsFiniteSet(S) /\ S \in SUBSET LedgerEntry /\ IdsDiffer(S)
  BY <1>1, FS_Subset DEF IdsDiffer
<1>3. rows = Ranked(S)
  BY DEF RowsAfter, Ranked, Ahead
<1>4. \A e : e \in S <=> e \in ToSet(ledger[w]) /\ AfterCursor(e, cursor)
  OBVIOUS
<1> HIDE DEF S
<1>5. PICK n \in Nat : n = Cardinality(S)
  BY <1>2, FS_CardinalityType
<1>6. /\ rows \in [1..n -> S]
      /\ \A i, j \in 1..n : i < j => Before(rows[i], rows[j])
      /\ \A e \in S : \E i \in 1..n : rows[i] = e
  BY <1>2, <1>3, <1>5, RankedSorts
<1>7. rows \in Seq(LedgerEntry) /\ Len(rows) = n
  BY <1>2, <1>6
<1> QED
  BY <1>4, <1>6, <1>7
-----------------------------------------------------------------------------
(* What a wallet, a transaction and the reader know of each other *)

Event == [type : {"WagerTransactionProcessed", "WalletBalanceChanged"},
          version : Nat \cup {None}]

(* The uuid of an open transaction is nobody else's. *)
Fresh(s) ==
  pc[s] # "idle" =>
    /\ walletId[s] \in WalletIds /\ wallets[walletId[s]] = None
    /\ \A t \in Sessions : t # s /\ pc[t] # "idle" => walletId[t] # walletId[s]

(* A transaction about to commit has an opening credit of its balance, or  *)
(* no balance.                                                             *)
Prepared(s) ==
  /\ pc[s] \in {"idle", "find", "insert"} => openingDraft[s] = None
  /\ pc[s] \in {"opening", "commit"} => draft[s].version = 1
  /\ pc[s] = "commit" =>
       IF openingDraft[s] = None THEN draft[s].balance = 0
       ELSE openingDraft[s].amount = draft[s].balance

TransactionSound(s) == Fresh(s) /\ Prepared(s)

First(w) == IF openings[w] = None THEN 2 ELSE 1

EventsNumbered(w) ==
  /\ \A i \in BalanceEvents(w) : outbox[w][i].version \in First(w)..wallets[w].version
  /\ \A n \in First(w)..wallets[w].version :
       \E i \in BalanceEvents(w) : outbox[w][i].version = n
  /\ \A i, j \in BalanceEvents(w) : i < j => outbox[w][i].version < outbox[w][j].version

WalletSound(w) ==
  /\ IdsDiffer(ToSet(ledger[w]))
  /\ wallets[w] = None => ledger[w] = << >> /\ outbox[w] = << >>
  /\ wallets[w] # None =>
       /\ Sum(ledger[w]) = wallets[w].balance
       /\ wallets[w].version = First(w) + Len(ledger[w]) - 1
       /\ EventsNumbered(w)

(* The part of the ledger that was committed between two statements *)
Gap(w, from, to) == SubSeq(ledger[w], from + 1, to)

ReconciliationSound ==
  LET w == reader.wallet IN
  /\ reader.pc \in {"count", "sum"} =>
       /\ w \in WalletIds /\ wallets[w] # None
       /\ reader.stored \in Int /\ reader.from \in 0..Len(ledger[w])
       /\ Sum(ledger[w]) - reader.stored = Sum(Gap(w, reader.from, Len(ledger[w])))
  /\ reader.pc = "sum" => reader.checked \in reader.from..Len(ledger[w])
  /\ reader.pc = "reported" =>
       /\ w \in WalletIds /\ wallets[w] # None
       /\ reader.from \in Nat /\ reader.checked \in Nat /\ reader.to \in 0..Len(ledger[w])
       /\ reader.from <= reader.checked /\ reader.checked <= reader.to
       /\ reader.difference = -Sum(Gap(w, reader.from, reader.to))
       /\ reader.consistent <=> reader.difference = 0

Walk == [pc : {"page", "walked"}, wallet : WalletIds, limit : 1..MaxLimit,
         cursor : LedgerEntry \cup {None}, listed : Seq(LedgerEntry),
         owed : SUBSET LedgerEntry]

(* A walk has listed, in order, everything it owes that is not later than  *)
(* its cursor.                                                             *)
WalkSound ==
  reader.pc \in {"page", "walked"} =>
    LET listed == reader.listed
        n == Len(reader.listed)
    IN
    /\ reader \in Walk /\ wallets[reader.wallet] # None
    /\ reader.owed \subseteq ToSet(ledger[reader.wallet])
    /\ \A i \in 1..n : listed[i] \in ToSet(ledger[reader.wallet])
    /\ \A i, j \in 1..n : i < j => Before(listed[i], listed[j])
    /\ reader.pc = "page" =>
         /\ IF n = 0 THEN reader.cursor = None ELSE reader.cursor = listed[n]
         /\ \A e \in reader.owed :
              AfterCursor(e, reader.cursor) \/ \E i \in 1..n : listed[i] = e
    /\ reader.pc = "walked" =>
         \A e \in reader.owed : \E i \in 1..n : listed[i] = e

ReaderSound == ReconciliationSound /\ WalkSound

OutboxTyped == outbox \in [WalletIds -> Seq(Event)]

LifeInv ==
  /\ OutboxTyped
  /\ \A s \in Sessions : TransactionSound(s)
  /\ \A w \in WalletIds : WalletSound(w)
  /\ ReaderSound
-----------------------------------------------------------------------------
(* More entries *)

(* What is appended to a ledger is in every gap that reaches its end.      *)
LEMMA GapGrows ==
  ASSUME NEW S, NEW l \in Seq(S), NEW e \in S, NEW from \in 0..Len(l)
  PROVE  /\ SubSeq(Append(l, e), from + 1, Len(l) + 1)
              = Append(SubSeq(l, from + 1, Len(l)), e)
         /\ SubSeq(l, from + 1, Len(l)) \in Seq(S)
<1> DEFINE n == Len(l)
           a == SubSeq(Append(l, e), from + 1, n + 1)
           b == Append(SubSeq(l, from + 1, n), e)
<1>1. n \in Nat /\ from \in 0..n
  OBVIOUS
<1>2. /\ SubSeq(l, from + 1, n) \in Seq(S) /\ Len(SubSeq(l, from + 1, n)) = n - from
      /\ \A i \in 1..(n - from) : SubSeq(l, from + 1, n)[i] = l[from + i]
  BY SubSeqProperties
<1>3. /\ Append(l, e) \in Seq(S) /\ Len(Append(l, e)) = n + 1 /\ Append(l, e)[n + 1] = e
      /\ \A i \in 1..n : Append(l, e)[i] = l[i]
  OBVIOUS
<1>4. /\ a \in Seq(S) /\ Len(a) = n + 1 - from
      /\ \A i \in 1..(n + 1 - from) : a[i] = Append(l, e)[from + i]
  BY <1>1, <1>3, SubSeqProperties
<1>5. /\ b \in Seq(S) /\ Len(b) = n - from + 1 /\ b[n - from + 1] = e
      /\ \A i \in 1..(n - from) : b[i] = l[from + i]
  BY <1>1, <1>2
<1> HIDE DEF a, b, n
<1>6. ASSUME NEW i \in 1..(n - from + 1) PROVE a[i] = b[i]
  <2>1. CASE i = n - from + 1
    BY <1>1, <1>3, <1>4, <1>5, <2>1
  <2>2. CASE i # n - from + 1
    <3>1. i \in 1..(n - from) /\ from + i \in 1..n
      BY <1>1, <2>2
    <3> QED
      BY <1>1, <1>3, <1>4, <1>5, <3>1
  <2> QED
    BY <2>1, <2>2
<1>7. a = b
  BY <1>1, <1>4, <1>5, <1>6, SeqEqual
<1> QED
  BY <1>2, <1>7 DEF a, b, n

(* A gap that is closed stays what it was. *)
LEMMA GapStays ==
  ASSUME NEW S, NEW l \in Seq(S), NEW e \in S, NEW from \in Nat, NEW to \in 0..Len(l)
  PROVE  SubSeq(Append(l, e), from + 1, to) = SubSeq(l, from + 1, to)
<1> DEFINE m == Append(l, e)
<1>1. /\ m \in Seq(S) /\ Len(m) = Len(l) + 1
      /\ \A i \in 1..Len(l) : m[i] = l[i]
  OBVIOUS
<1> HIDE DEF m
<1>2. CASE from + 1 <= to
  <2> DEFINE a == SubSeq(m, from + 1, to)
             b == SubSeq(l, from + 1, to)
  <2>1. /\ a \in Seq(S) /\ Len(a) = to - from
        /\ \A i \in 1..(to - from) : a[i] = m[from + i]
    BY <1>1, <1>2, SubSeqProperties
  <2>2. /\ b \in Seq(S) /\ Len(b) = to - from
        /\ \A i \in 1..(to - from) : b[i] = l[from + i]
    BY <1>2, SubSeqProperties
  <2>3. \A i \in 1..(to - from) : from + i \in 1..Len(l)
    OBVIOUS
  <2> HIDE DEF a, b
  <2>4. Len(a) = Len(b) /\ \A i \in 1..Len(a) : a[i] = b[i]
    BY <1>1, <2>1, <2>2, <2>3
  <2>5. a = b
    BY <2>1, <2>2, <2>4, SeqEqual
  <2> QED
    BY <2>5 DEF a, b, m
<1>3. CASE ~(from + 1 <= to)
  BY <1>1, <1>3, SubSeqProperties DEF m
<1> QED
  BY <1>2, <1>3
-----------------------------------------------------------------------------
(* Steps *)

(* There is no wallet, no transaction and no read yet. *)
LEMMA LifeInvInit == Init => LifeInv
<1> SUFFICES ASSUME Init PROVE LifeInv
  OBVIOUS
<1>1. \A s \in Sessions : TransactionSound(s)
  BY DEF Init, OpeningInit, TransactionSound, Fresh, Prepared
<1>2. ASSUME NEW w \in WalletIds PROVE WalletSound(w)
  <2>1. ledger[w] = << >> /\ outbox[w] = << >> /\ wallets[w] = None
    BY DEF Init, OpeningInit
  <2>2. ToSet(<< >>) = {}
    BY DEF ToSet
  <2> QED
    BY <2>1, <2>2 DEF WalletSound, IdsDiffer
<1>3. ReaderSound
  BY DEF Init, Resting, ReaderSound, ReconciliationSound, WalkSound
<1>4. OutboxTyped
  BY DEF Init, OpeningInit, OutboxTyped
<1> QED
  BY <1>1, <1>2, <1>3, <1>4 DEF LifeInv

(* What is said of a transaction needs only its own state, the uuids of    *)
(* the others, and that its wallet is not committed.                       *)
LEMMA TransactionStays ==
  ASSUME LifeInv, NEW t \in Sessions,
         pc'[t] = pc[t], walletId'[t] = walletId[t], draft'[t] = draft[t],
         openingDraft'[t] = openingDraft[t],
         pc[t] # "idle" => wallets'[walletId[t]] = wallets[walletId[t]],
         \A u \in Sessions : u # t /\ pc[t] # "idle" /\ pc'[u] # "idle" =>
           walletId'[u] # walletId[t]
  PROVE  TransactionSound(t)'
BY DEF LifeInv, TransactionSound, Fresh, Prepared

(* What is said of a wallet needs only its own rows. *)
LEMMA WalletStays ==
  ASSUME NEW w, WalletSound(w), wallets'[w] = wallets[w], openings'[w] = openings[w],
         ledger'[w] = ledger[w], outbox'[w] = outbox[w]
  PROVE  WalletSound(w)'
<1>1. First(w)' = First(w) /\ BalanceEvents(w)' = BalanceEvents(w)
  BY DEF First, BalanceEvents
<1>2. EventsNumbered(w)' <=> EventsNumbered(w)
  BY <1>1 DEF EventsNumbered
<1> QED
  BY <1>1, <1>2 DEF WalletSound

(* A step of one transaction that is not its COMMIT. *)
LEMMA TransactionKeepsLife ==
  ASSUME LifeInv, UNCHANGED <<tables, reader>>,
         NEW s \in Sessions, TransactionSound(s)',
         \A t \in Sessions \ {s} :
           /\ pc'[t] = pc[t] /\ walletId'[t] = walletId[t] /\ draft'[t] = draft[t]
           /\ openingDraft'[t] = openingDraft[t]
  PROVE  LifeInv'
<1>1. ASSUME NEW t \in Sessions, t # s PROVE TransactionSound(t)'
  <2>1. \A u \in Sessions : u # t /\ pc[t] # "idle" /\ pc'[u] # "idle" => walletId'[u] # walletId[t]
    <3>1. ASSUME pc'[s] # "idle", pc[t] # "idle" PROVE walletId'[s] # walletId[t]
      BY <1>1, <3>1 DEF TransactionSound, Fresh
    <3> QED
      BY <1>1, <3>1 DEF LifeInv, TransactionSound, Fresh
  <2> QED
    BY <1>1, <2>1, TransactionStays DEF tables
<1>2. \A w \in WalletIds : WalletSound(w)'
  BY WalletStays DEF LifeInv, tables
<1>3. ReaderSound'
  BY DEF LifeInv, ReaderSound, ReconciliationSound, WalkSound, Gap, tables
<1>4. OutboxTyped'
  BY DEF LifeInv, OutboxTyped, tables
<1> QED
  BY <1>1, <1>2, <1>3, <1>4 DEF LifeInv

(* What a read is based on stays so: a ledger only gets longer. *)
LEMMA ReaderStays ==
  ASSUME ServiceInv, LifeInv, reader' = reader,
         \A w \in WalletIds : wallets[w] # None =>
           /\ wallets'[w] # None
           /\ \/ ledger'[w] = ledger[w]
              \/ \E e \in LedgerEntry : ledger'[w] = Append(ledger[w], e)
  PROVE  ReaderSound'
<1> DEFINE w == reader.wallet
<1>1. CASE reader.pc \in {"count", "sum", "reported"}
  <2>1. w \in WalletIds /\ wallets[w] # None
    BY <1>1 DEF LifeInv, ReaderSound, ReconciliationSound
  <2>2. PICK l \in Seq(LedgerEntry) : l = ledger[w]
    BY <2>1 DEF ServiceInv, TablesTyped
  <2>3. CASE ledger'[w] = ledger[w]
    BY <1>1, <2>1, <2>3 DEF LifeInv, ReaderSound, ReconciliationSound, WalkSound, Gap
  <2>4. ASSUME NEW e \in LedgerEntry, ledger'[w] = Append(ledger[w], e)
        PROVE  ReaderSound'
    <3>1. /\ Len(l) \in Nat /\ Len(Append(l, e)) = Len(l) + 1
          /\ ledger'[w] = Append(l, e) /\ wallets'[w] # None
      BY <2>1, <2>2, <2>4
    <3>2. CASE reader.pc \in {"count", "sum"}
      <4>1. PICK from \in 0..Len(l) : from = reader.from
        BY <2>2, <3>2 DEF LifeInv, ReaderSound, ReconciliationSound
      <4> DEFINE gap == SubSeq(l, from + 1, Len(l))
      <4>2. /\ reader.stored \in Int /\ Sum(l) - reader.stored = Sum(gap)
            /\ reader.pc = "sum" => reader.checked \in from..Len(l)
        BY <2>2, <3>2, <4>1 DEF LifeInv, ReaderSound, ReconciliationSound, Gap
      <4>3. gap \in Seq(LedgerEntry)
            /\ SubSeq(Append(l, e), from + 1, Len(l) + 1) = Append(gap, e)
        BY <4>1, GapGrows
      <4> HIDE DEF gap
      <4>4. /\ Sum(Append(l, e)) = Sum(l) + Signed(e)
            /\ Sum(Append(gap, e)) = Sum(gap) + Signed(e)
        BY <4>3, SumOfMore
      <4>5. Sum(l) \in Int /\ Sum(gap) \in Int
        BY <4>3, SumIsInt
      <4>6. Signed(e) \in Int
        BY SignedIsInt
      <4>7. Sum(Append(l, e)) - reader.stored = Sum(Append(gap, e))
        <5>1. PICK x \in Int, y \in Int, z \in Int, stored \in Int :
                x = Sum(l) /\ y = Sum(gap) /\ z = Signed(e) /\ stored = reader.stored
          BY <4>2, <4>5, <4>6
        <5>2. Sum(Append(l, e)) = x + z /\ Sum(Append(gap, e)) = y + z /\ x - stored = y
          BY <4>2, <4>4, <5>1
        <5> QED
          BY <5>1, <5>2
      <4>8. Sum(ledger'[w]) - reader.stored = Sum(Gap(w, from, Len(ledger[w]))')
        BY <3>1, <4>3, <4>7 DEF Gap
      <4>9. from \in 0..Len(ledger'[w])
            /\ (reader.pc = "sum" => reader.checked \in from..Len(ledger'[w]))
        BY <3>1, <4>1, <4>2
      <4> QED
        BY <2>1, <3>1, <3>2, <4>1, <4>2, <4>8, <4>9
        DEF ReaderSound, ReconciliationSound, WalkSound
    <3>3. CASE reader.pc = "reported"
      <4>1. reader.from \in Nat /\ reader.to \in 0..Len(l)
        BY <2>2, <3>3 DEF LifeInv, ReaderSound, ReconciliationSound
      <4>2. SubSeq(Append(l, e), reader.from + 1, reader.to)
              = SubSeq(l, reader.from + 1, reader.to)
        BY <4>1, GapStays
      <4>3. Gap(w, reader.from, reader.to)' = Gap(w, reader.from, reader.to)
        BY <2>2, <3>1, <4>2 DEF Gap
      <4>4. reader.to \in 0..Len(ledger'[w])
        BY <3>1, <4>1
      <4> QED
        BY <2>1, <3>1, <3>3, <4>3, <4>4
        DEF LifeInv, ReaderSound, ReconciliationSound, WalkSound
    <3> QED
      BY <1>1, <3>2, <3>3
  <2> QED
    BY <2>1, <2>3, <2>4
<1>2. CASE reader.pc \in {"page", "walked"}
  <2>1. WalkSound /\ reader \in Walk /\ w \in WalletIds /\ wallets[w] # None
    BY <1>2 DEF LifeInv, ReaderSound, WalkSound, Walk
  <2>2. PICK l \in Seq(LedgerEntry) : l = ledger[w]
    BY <2>1 DEF ServiceInv, TablesTyped
  <2>3. ToSet(ledger[w]) \subseteq ToSet(ledger'[w])
    <3>1. ASSUME NEW e \in LedgerEntry, NEW x \in ToSet(l) PROVE x \in ToSet(Append(l, e))
      <4>1. PICK i \in 1..Len(l) : x = l[i]
        BY <3>1 DEF ToSet
      <4>2. i \in 1..Len(Append(l, e)) /\ Append(l, e)[i] = x
        BY <4>1
      <4> QED
        BY <4>2 DEF ToSet
    <3> QED
      BY <2>1, <2>2, <3>1
  <2> HIDE DEF w
  <2>4. wallets'[w] # None
    BY <2>1
  <2> QED
    BY <1>2, <2>1, <2>3, <2>4 DEF ReaderSound, ReconciliationSound, WalkSound, w
<1>3. CASE reader.pc \notin {"count", "sum", "reported", "page", "walked"}
  BY <1>3 DEF ReaderSound, ReconciliationSound, WalkSound
<1> QED
  BY <1>1, <1>2, <1>3
(* An OPENING row is not NULL. *)
LEMMA OpeningRowIsRow == \A r \in OpeningRow : r # None
<1>1. \A r \in OpeningRow : r \in [status : {"PROCESSED"}, amount : Nat, observed : Nat]
  BY ColumnsAssumption DEF OpeningRow
<1> QED
  BY <1>1, NoneAssumption

LEMMA EntryIsRow == \A e \in LedgerEntry : e # None
<1>1. \A e \in LedgerEntry :
        e \in [tx : {"opening", "wager"}, at : Times, id : EntryIds,
               direction : {"DEBIT", "CREDIT"}, amount : Nat, before : Nat, after : Nat]
  BY ColumnsAssumption DEF LedgerEntry
<1> QED
  BY <1>1, NoneAssumption

LEMMA WalletIsRow == \A r \in WalletRow : r # None /\ r.balance \in Nat /\ r.version \in Nat
<1>1. \A r \in WalletRow :
        r \in [player : {q.player : q \in Requests}, currency : ColumnCodes,
               balance : Nat, version : Nat]
  BY ColumnsAssumption DEF WalletRow
<1> QED
  BY <1>1, NoneAssumption

(* A transaction that ends holds nothing. *)
LEMMA EndSound ==
  ASSUME ServiceInv, NEW s \in Sessions, End(s)
  PROVE  /\ TransactionSound(s)' /\ pc'[s] = "idle"
         /\ \A t \in Sessions \ {s} :
              /\ pc'[t] = pc[t] /\ walletId'[t] = walletId[t] /\ draft'[t] = draft[t]
              /\ openingDraft'[t] = openingDraft[t]
<1>1. /\ pc'[s] = "idle"
      /\ \A t \in Sessions \ {s} :
           /\ pc'[t] = pc[t] /\ walletId'[t] = walletId[t] /\ draft'[t] = draft[t]
           /\ openingDraft'[t] = openingDraft[t]
  BY DEF End, ServiceInv, SessionsTyped
<1>2. openingDraft'[s] = None
  BY DEF End, ServiceInv, SessionsTyped
<1> QED
  BY <1>1, <1>2 DEF TransactionSound, Fresh, Prepared

(* A request is taken up with a uuid of its own, or refused at once. *)
LEMMA StartKeepsLife ==
  ASSUME ServiceInv, LifeInv, NEW s \in Sessions, OpeningStart(s), reader' = reader
  PROVE  LifeInv'
<1>1. PICK r \in Requests : RefuseMoney(s, r) \/ Receive(s, r)
  BY DEF OpeningStart
<1>2. CASE RefuseMoney(s, r)
  <2>1. UNCHANGED <<tables, pc, transaction>>
    BY <1>2 DEF RefuseMoney
  <2>2. TransactionSound(s)'
    BY <2>1 DEF LifeInv, TransactionSound, Fresh, Prepared, tables, transaction
  <2> QED
    BY <2>1, <2>2, TransactionKeepsLife DEF transaction
<1>3. CASE Receive(s, r)
  <2>1. PICK w \in WalletIds :
          /\ wallets[w] = None /\ \A u \in Sessions : walletId[u] # w
          /\ walletId' = [walletId EXCEPT ![s] = w]
    BY <1>3 DEF Receive
  <2>2. /\ pc' = [pc EXCEPT ![s] = "find"] /\ UNCHANGED <<tables, draft, openingDraft>>
        /\ pc[s] = "idle"
    BY <1>3 DEF Receive, Goto
  <2>3. /\ walletId'[s] = w /\ pc'[s] = "find"
        /\ \A t \in Sessions \ {s} : pc'[t] = pc[t] /\ walletId'[t] = walletId[t]
    BY <2>1, <2>2 DEF ServiceInv, SessionsTyped
  <2>4. Fresh(s)'
    BY <2>1, <2>2, <2>3 DEF Fresh, tables
  <2>5. openingDraft[s] = None
    BY <2>2 DEF LifeInv, TransactionSound, Prepared
  <2>6. Prepared(s)'
    BY <2>2, <2>3, <2>5 DEF Prepared
  <2> QED
    BY <2>2, <2>3, <2>4, <2>6, TransactionKeepsLife DEF TransactionSound
<1> QED
  BY <1>1, <1>2, <1>3

(* The statements before COMMIT. *)
LEMMA StatementKeepsLife ==
  ASSUME ServiceInv, LifeInv, NEW s \in Sessions, OpeningStatement(s) \/ Crash(s),
         ~Commit(s), reader' = reader
  PROVE  LifeInv'
<1>1. CASE FindExisting(s) \/ InsertViolates(s) \/ InsertOverflows(s) \/ Crash(s)
  BY <1>1, EndSound, TransactionKeepsLife
  DEF FindExisting, InsertViolates, InsertOverflows, RollBack, Crash
<1>2. CASE FindNone(s) \/ InsertWallet(s) \/ InsertOpening(s)
  <2>1. /\ UNCHANGED <<tables, walletId>>
        /\ \A t \in Sessions \ {s} :
             /\ pc'[t] = pc[t] /\ draft'[t] = draft[t] /\ openingDraft'[t] = openingDraft[t]
        /\ pc[s] # "idle"
    BY <1>2 DEF FindNone, InsertWallet, InsertOpening, Goto, transaction, ServiceInv, SessionsTyped
  <2>2. Fresh(s)'
    BY <2>1 DEF LifeInv, TransactionSound, Fresh, tables
  <2>3. Prepared(s)
    BY DEF LifeInv, TransactionSound
  <2>4. CASE FindNone(s)
    <3>1. pc[s] = "find" /\ pc'[s] = "insert" /\ openingDraft' = openingDraft
      BY <2>4 DEF FindNone, Goto, transaction, ServiceInv, SessionsTyped
    <3> QED
      BY <2>1, <2>2, <2>3, <3>1, TransactionKeepsLife DEF TransactionSound, Prepared
  <2>5. CASE InsertWallet(s)
    <3> DEFINE row == Opened(request[s].player, Balance(s))
    <3>1. /\ pc[s] = "insert" /\ openingDraft' = openingDraft /\ draft'[s] = row
          /\ pc'[s] = IF IsPositive(Balance(s)) THEN "opening" ELSE "commit"
      BY <2>5 DEF InsertWallet, Goto, ServiceInv, SessionsTyped
    <3>2. row.version = 1 /\ row.balance = Balance(s).cents
      BY DEF Opened
    <3>3. Balance(s).cents \in Nat
      <4>1. request[s] \in Requests
        BY <3>1 DEF ServiceInv, Ready
      <4>2. request[s].money.amount.cents \in Nat
        BY <4>1, RequestsAssumption
      <4> QED
        BY <4>2 DEF Balance, From
    <3>4. pc'[s] = "commit" => Balance(s).cents = 0
      BY <3>1, <3>3 DEF IsPositive
    <3>5. openingDraft[s] = None
      BY <2>3, <3>1 DEF Prepared
    <3> HIDE DEF row
    <3>6. Prepared(s)'
      BY <3>1, <3>2, <3>4, <3>5 DEF Prepared
    <3> QED
      BY <2>1, <2>2, <3>6, TransactionKeepsLife DEF TransactionSound
  <2>6. CASE InsertOpening(s)
    <3>1. /\ pc[s] = "opening" /\ pc'[s] = "commit" /\ draft' = draft
          /\ openingDraft'[s] = [status |-> "PROCESSED", amount |-> Balance(s).cents,
                                 observed |-> draft[s].balance]
      BY <2>6 DEF InsertOpening, Goto, ServiceInv, SessionsTyped
    <3>2. draft[s].balance = Balance(s).cents /\ draft[s].version = 1
      BY <2>3, <3>1 DEF ServiceInv, Ready, Prepared
    <3>3. openingDraft'[s].amount = draft[s].balance
      BY <3>1, <3>2
    <3>4. openingDraft'[s] # None
      <4>1. draft[s] \in WalletRow /\ draft[s].balance > 0
        BY <3>1 DEF ServiceInv, Ready
      <4>2. draft[s].balance \in 1..MaxCents
        BY <4>1, ColumnsAssumption DEF WalletRow
      <4>3. openingDraft'[s] \in OpeningRow
        BY <3>1, <3>2, <4>2 DEF OpeningRow
      <4> QED
        BY <4>3, OpeningRowIsRow
    <3>5. Prepared(s)'
      BY <3>1, <3>2, <3>3, <3>4 DEF Prepared
    <3> QED
      BY <2>1, <2>2, <3>5, TransactionKeepsLife DEF TransactionSound
  <2> QED
    BY <1>2, <2>4, <2>5, <2>6
<1> QED
  BY <1>1, <1>2 DEF OpeningStatement

(* The opening credit is the whole of a new wallet's history. *)
LEMMA CommitKeepsLife ==
  ASSUME ServiceInv, LifeInv, NEW s \in Sessions, Commit(s), reader' = reader
  PROVE  LifeInv'
<1>0. PICK w : w = walletId[s]
  OBVIOUS
<1>1. /\ pc[s] = "commit" /\ w \in WalletIds /\ wallets[w] = None
      /\ draft[s] \in WalletRow /\ draft[s] # None /\ draft[s].version = 1
      /\ draft[s].balance \in Nat
      /\ \A t \in Sessions : t # s /\ pc[t] # "idle" => walletId[t] # w
  BY <1>0, WalletIsRow DEF Commit, ServiceInv, Ready, LifeInv, TransactionSound, Fresh, Prepared
<1>2. /\ openingDraft[s] \in OpeningRow \cup {None}
      /\ IF openingDraft[s] = None THEN draft[s].balance = 0
         ELSE openingDraft[s].amount = draft[s].balance
  BY <1>1 DEF ServiceInv, SessionsTyped, LifeInv, TransactionSound, Prepared
<1>3. PICK at \in Times, id \in EntryIds :
        ledger' = [ledger EXCEPT ![w] = OpeningEntries(s, at, id)]
  BY <1>0 DEF Commit
<1>4. /\ wallets' = [wallets EXCEPT ![w] = draft[s]]
      /\ openings' = [openings EXCEPT ![w] = openingDraft[s]]
      /\ outbox' = [outbox EXCEPT ![w] = OpeningEvents(s)]
      /\ End(s)
  BY <1>0 DEF Commit
<1>5. /\ wallets'[w] = draft[s] /\ openings'[w] = openingDraft[s]
      /\ ledger'[w] = OpeningEntries(s, at, id)
      /\ \A v \in WalletIds \ {w} :
           /\ wallets'[v] = wallets[v] /\ openings'[v] = openings[v]
           /\ ledger'[v] = ledger[v]
  BY <1>1, <1>3, <1>4 DEF ServiceInv, TablesTyped
<1>6. /\ outbox'[w] = OpeningEvents(s)
      /\ \A v \in WalletIds \ {w} : outbox'[v] = outbox[v]
  BY <1>1, <1>4 DEF LifeInv, OutboxTyped
<1>7. WalletSound(w)' /\ OpeningEvents(s) \in Seq(Event)
  <2>1. CASE openingDraft[s] = None
    <3>1. ledger'[w] = << >> /\ outbox'[w] = << >>
      BY <1>5, <1>6, <2>1 DEF OpeningEntries, OpeningEvents
    <3>2. BalanceEvents(w)' = {}
      BY <3>1 DEF BalanceEvents
    <3>3. First(w)' = 2 /\ wallets'[w].version = 1 /\ wallets'[w].balance = 0
      BY <1>1, <1>2, <1>5, <2>1 DEF First
    <3>4. EventsNumbered(w)'
      BY <3>2, <3>3 DEF EventsNumbered
    <3>5. OpeningEvents(s) \in Seq(Event) /\ Len(ledger'[w]) = 0
      BY <1>6, <3>1
    <3>6. IdsDiffer(ToSet(ledger'[w]))
      BY <3>1 DEF ToSet, IdsDiffer
    <3> QED
      BY <1>1, <1>5, <3>1, <3>3, <3>4, <3>5, <3>6, SumOfNone DEF WalletSound
  <2>2. CASE openingDraft[s] # None
    <3> DEFINE e == Movement("opening", at, id, "CREDIT", 0, openingDraft[s].amount)
               told == [type |-> "WalletBalanceChanged", version |-> 1]
               done == [type |-> "WagerTransactionProcessed", version |-> None]
    <3>1. openingDraft[s].amount \in 1..MaxCents /\ openingDraft[s].amount = draft[s].balance
      BY <1>2, <2>2 DEF OpeningRow
    <3>2. e \in LedgerEntry /\ Signed(e) = draft[s].balance
      BY <3>1, ColumnsAssumption DEF Movement, LedgerEntry, Signed
    <3>3. told \in Event /\ done \in Event /\ told.type = "WalletBalanceChanged"
          /\ told.version = 1 /\ done.type # "WalletBalanceChanged"
      BY DEF Event
    <3>4. ledger'[w] = << e >> /\ outbox'[w] = << told, done >>
      BY <1>1, <1>5, <1>6, <2>2 DEF OpeningEntries, OpeningEvents
    <3> HIDE DEF e, told, done
    <3>5. OpeningEvents(s) \in Seq(Event) /\ Len(ledger'[w]) = 1
      BY <1>6, <3>3, <3>4
    <3>6. IdsDiffer(ToSet(ledger'[w]))
      BY <3>4 DEF ToSet, IdsDiffer
    <3>7. Sum(ledger'[w]) = draft[s].balance
      <4>1. << >> \in Seq(LedgerEntry) /\ << e >> = Append(<< >>, e)
        OBVIOUS
      <4>2. Sum(Append(<< >>, e)) = Sum(<< >>) + Signed(e)
        BY <3>2, <4>1, SumOfMore
      <4> QED
        BY <1>1, <3>2, <3>4, <4>1, <4>2, SumOfNone
    <3>8. BalanceEvents(w)' = {1} /\ outbox'[w][1].version = 1
      BY <3>3, <3>4 DEF BalanceEvents
    <3>9. First(w)' = 1 /\ wallets'[w].version = 1
      BY <1>1, <1>5, <2>2 DEF First
    <3>10. EventsNumbered(w)'
      BY <3>8, <3>9 DEF EventsNumbered
    <3> QED
      BY <1>1, <1>5, <3>5, <3>6, <3>7, <3>9, <3>10 DEF WalletSound
  <2> QED
    BY <2>1, <2>2
<1>8. \A v \in WalletIds : WalletSound(v)'
  BY <1>5, <1>6, <1>7, WalletStays DEF LifeInv
<1>9. ASSUME NEW t \in Sessions PROVE TransactionSound(t)'
  <2>1. CASE t = s
    BY <1>4, <2>1, EndSound
  <2>2. CASE t # s
    <3>1. /\ pc'[t] = pc[t] /\ walletId'[t] = walletId[t] /\ draft'[t] = draft[t]
          /\ openingDraft'[t] = openingDraft[t] /\ pc'[s] = "idle"
      BY <1>4, <2>2, EndSound
    <3>2. pc[t] # "idle" => walletId[t] \in WalletIds \ {w}
      BY <1>1, <2>2 DEF ServiceInv, Ready
    <3>3. pc[t] # "idle" => wallets'[walletId[t]] = wallets[walletId[t]]
      BY <1>5, <3>2
    <3>4. \A u \in Sessions : u # t /\ pc[t] # "idle" /\ pc'[u] # "idle" =>
            walletId'[u] # walletId[t]
      <4>1. \A u \in Sessions : pc'[u] # "idle" => pc'[u] = pc[u] /\ walletId'[u] = walletId[u]
        BY <1>4, EndSound
      <4> QED
        BY <4>1 DEF LifeInv, TransactionSound, Fresh
    <3> QED
      BY <3>1, <3>3, <3>4, TransactionStays
  <2> QED
    BY <2>1, <2>2
<1>10. ReaderSound'
  BY <1>1, <1>5, ReaderStays
<1>11. OutboxTyped'
  BY <1>4, <1>7 DEF LifeInv, OutboxTyped
<1> QED
  BY <1>8, <1>9, <1>10, <1>11 DEF LifeInv

(* The two events of a movement carry the numbering on by one. *)
LEMMA EventsGrow ==
  ASSUME LifeInv, NEW w \in WalletIds, NEW v \in Nat, wallets[w].version = v, EventsNumbered(w),
         First(w) \in 1..2, First(w) <= v + 1, First(w)' = First(w),
         wallets'[w].version = v + 1,
         outbox'[w] = outbox[w] \o
           << [type |-> "WagerTransactionProcessed", version |-> None],
              [type |-> "WalletBalanceChanged", version |-> v + 1] >>
  PROVE  EventsNumbered(w)' /\ outbox'[w] \in Seq(Event)
<1> DEFINE done == [type |-> "WagerTransactionProcessed", version |-> None]
           told == [type |-> "WalletBalanceChanged", version |-> v + 1]
<1>1. PICK o \in Seq(Event) : o = outbox[w]
  BY DEF LifeInv, OutboxTyped
<1>2. PICK first \in 1..2 : first = First(w)
  OBVIOUS
<1>3. /\ done \in Event /\ told \in Event /\ told.type = "WalletBalanceChanged"
      /\ told.version = v + 1 /\ done.type # "WalletBalanceChanged"
  BY DEF Event
<1>4. outbox'[w] = o \o << done, told >>
  BY <1>1
<1> HIDE DEF done, told
<1>5. << done, told >> \in Seq(Event) /\ Len(<< done, told >>) = 2
  BY <1>3
<1>6. PICK m \in Seq(Event) : m = o \o << done, told >>
  BY <1>5, ConcatProperties
<1>7. PICK n \in Nat : n = Len(o)
  OBVIOUS
<1>8. /\ Len(m) = n + 2 /\ m[n + 1] = done /\ m[n + 2] = told
      /\ \A i \in 1..n : m[i] = o[i]
  BY <1>5, <1>6, <1>7
<1>9. DOMAIN o = 1..n /\ DOMAIN m = 1..(n + 2)
  BY <1>7, <1>8
<1> DEFINE O == {i \in 1..n : o[i].type = "WalletBalanceChanged"}
<1>10. BalanceEvents(w) = O
  BY <1>1, <1>9 DEF BalanceEvents
<1>11. BalanceEvents(w)' = {i \in 1..(n + 2) : m[i].type = "WalletBalanceChanged"}
  BY <1>4, <1>6, <1>9 DEF BalanceEvents
<1>12. \A i \in 1..(n + 2) : i \in 1..n \/ i = n + 1 \/ i = n + 2
  OBVIOUS
<1>13. BalanceEvents(w)' = O \cup {n + 2}
  <2>1. \A i \in 1..n : i \in 1..(n + 2) /\ (i \in O <=> m[i].type = "WalletBalanceChanged")
    BY <1>8
  <2>2. n + 1 \notin O /\ n + 2 \in 1..(n + 2) /\ \A i \in O : i \in 1..n
    OBVIOUS
  <2>3. m[n + 1].type # "WalletBalanceChanged" /\ m[n + 2].type = "WalletBalanceChanged"
    BY <1>3, <1>8
  <2>4. n + 1 # n + 2
    OBVIOUS
  <2> HIDE DEF O
  <2> QED
    BY <1>11, <1>12, <2>1, <2>2, <2>3, <2>4
<1>14. /\ \A i \in O : m[i].version \in first..v
       /\ \A k \in first..v : \E i \in O : m[i].version = k
       /\ \A i, j \in O : i < j => m[i].version < m[j].version
  <2>1. \A i \in O : m[i] = o[i]
    BY <1>8
  <2> HIDE DEF O
  <2>2. \A i \in O : o[i].version \in first..v
    BY <1>1, <1>2, <1>10 DEF EventsNumbered
  <2>3. \A k \in first..v : \E i \in O : o[i].version = k
    BY <1>1, <1>2, <1>10 DEF EventsNumbered
  <2>4. \A i, j \in O : i < j => o[i].version < o[j].version
    BY <1>1, <1>10 DEF EventsNumbered
  <2> QED
    BY <2>1, <2>2, <2>3, <2>4
<1>15. O \subseteq 1..n /\ m[n + 2].version = v + 1
  BY <1>3, <1>8
<1> HIDE DEF O
<1>16. \A i \in O \cup {n + 2} : m[i].version \in first..(v + 1)
  BY <1>2, <1>14, <1>15
<1>17. \A k \in first..(v + 1) : \E i \in O \cup {n + 2} : m[i].version = k
  <2>1. \A k \in first..(v + 1) : k = v + 1 \/ k \in first..v
    OBVIOUS
  <2> QED
    BY <1>14, <1>15, <2>1
<1>18. ASSUME NEW i \in O \cup {n + 2}, NEW j \in O \cup {n + 2}, i < j
       PROVE  m[i].version < m[j].version
  <2>1. i \in O
    BY <1>15, <1>18
  <2>2. CASE j \in O
    BY <1>14, <1>18, <2>1, <2>2
  <2>3. CASE j = n + 2
    <3>1. m[i].version \in first..v
      BY <1>14, <2>1
    <3> QED
      BY <1>15, <2>3, <3>1
  <2> QED
    BY <2>2, <2>3
<1>19. outbox'[w] = m
  BY <1>4, <1>6
<1> QED
  BY <1>2, <1>13, <1>16, <1>17, <1>18, <1>19 DEF EventsNumbered

(* A movement adds one entry, with an id of its own, and one version. *)
LEMMA MoveKeepsLife ==
  ASSUME ServiceInv, LifeInv, NEW w \in WalletIds, NEW direction \in {"DEBIT", "CREDIT"},
         Move(w, direction, 1)
  PROVE  LifeInv'
<1>1. /\ wallets[w] \in WalletRow /\ wallets[w] # None
      /\ direction = "DEBIT" => wallets[w].balance >= 1
      /\ direction = "CREDIT" => wallets[w].balance + 1 <= MaxCents
      /\ UNCHANGED <<openings, pc, transaction, reader>>
  BY DEF Move, ServiceInv, TablesTyped
<1>2. PICK balance \in Nat, v \in Nat :
        balance = wallets[w].balance /\ v = wallets[w].version
  BY <1>1, WalletIsRow
<1>3. PICK l \in Seq(LedgerEntry) : l = ledger[w]
  BY DEF ServiceInv, TablesTyped
<1>4. PICK at \in Times, id \in EntryIds \ {e.id : e \in ToSet(ledger[w])} :
        LET entry == Movement("wager", at, id, direction, wallets[w].balance, 1) IN
        /\ ledger' = [ledger EXCEPT ![w] = Append(@, entry)]
        /\ wallets' = [wallets EXCEPT ![w].balance = entry.after,
                                      ![w].version = wallets[w].version + 1]
  BY DEF Move
<1> DEFINE entry == Movement("wager", at, id, direction, wallets[w].balance, 1)
<1>5. PICK e : e = entry
  OBVIOUS
<1>6. /\ e \in LedgerEntry /\ e.id = id /\ e.after = balance + Signed(e)
  BY <1>1, <1>2, <1>5, ColumnsAssumption DEF Movement, LedgerEntry, WalletRow, Signed
<1>7. /\ ledger' = [ledger EXCEPT ![w] = Append(@, e)]
      /\ wallets' = [wallets EXCEPT ![w].balance = e.after, ![w].version = v + 1]
  BY <1>2, <1>4, <1>5
<1> HIDE DEF entry
<1>8. outbox' = [outbox EXCEPT ![w] = outbox[w] \o
        << [type |-> "WagerTransactionProcessed", version |-> None],
           [type |-> "WalletBalanceChanged", version |-> v + 1] >>]
  BY <1>2 DEF Move
<1>9. /\ ledger'[w] = Append(l, e)
      /\ wallets'[w].balance = e.after /\ wallets'[w].version = v + 1
      /\ \A u \in WalletIds \ {w} : wallets'[u] = wallets[u] /\ ledger'[u] = ledger[u]
      /\ openings' = openings
  BY <1>1, <1>3, <1>7 DEF ServiceInv, TablesTyped, WalletRow
<1>10. wallets'[w] # None
  <2>1. ServiceInv'
    BY MoveKeepsService
  <2>2. wallets'[w] = [wallets[w] EXCEPT !.balance = e.after, !.version = v + 1]
    BY <1>7 DEF ServiceInv, TablesTyped
  <2>3. e.after \in Nat
    BY <1>6, ColumnsAssumption DEF LedgerEntry
  <2>4. [wallets[w] EXCEPT !.balance = e.after, !.version = v + 1] \in
          [player : {r.player : r \in Requests}, currency : ColumnCodes,
           balance : Nat, version : Nat]
    <3>1. PICK after \in Nat, version \in Nat : after = e.after /\ version = v + 1
      BY <1>2, <2>3
    <3>2. [wallets[w] EXCEPT !.balance = after, !.version = version] \in
            [player : {r.player : r \in Requests}, currency : ColumnCodes,
             balance : Nat, version : Nat]
      BY <1>1 DEF WalletRow
    <3> QED
      BY <3>1, <3>2
  <2> QED
    BY <2>2, <2>4, NoneAssumption
<1>11. /\ Sum(l) = balance /\ v = First(w) + Len(l) - 1 /\ EventsNumbered(w)
       /\ IdsDiffer(ToSet(l))
  BY <1>1, <1>2, <1>3 DEF LifeInv, WalletSound
<1>12. First(w) \in 1..2 /\ First(w)' = First(w)
  BY <1>1 DEF First
<1>13. PICK n \in Nat : n = Len(l) /\ Len(Append(l, e)) = n + 1
  BY <1>6
<1>14. /\ outbox'[w] = outbox[w] \o
           << [type |-> "WagerTransactionProcessed", version |-> None],
              [type |-> "WalletBalanceChanged", version |-> v + 1] >>
       /\ \A u \in WalletIds \ {w} : outbox'[u] = outbox[u]
  BY <1>8 DEF LifeInv, OutboxTyped
<1>15. EventsNumbered(w)' /\ outbox'[w] \in Seq(Event)
  <2>1. First(w) <= v + 1
    BY <1>11, <1>12, <1>13
  <2> QED
    BY <1>2, <1>9, <1>11, <1>12, <1>14, <2>1, EventsGrow
<1>16. IdsDiffer(ToSet(ledger'[w]))
  <2>1. \A f \in ToSet(Append(l, e)) : f \in ToSet(l) \/ f = e
    <3>1. \A i \in 1..(n + 1) : Append(l, e)[i] = e \/ (i \in 1..n /\ Append(l, e)[i] = l[i])
      BY <1>6, <1>13
    <3>2. DOMAIN Append(l, e) = 1..(n + 1) /\ DOMAIN l = 1..n
      BY <1>6, <1>13
    <3> QED
      BY <3>1, <3>2 DEF ToSet
  <2>2. \A f \in ToSet(l) : f.id # e.id
    BY <1>3, <1>4, <1>6
  <2> QED
    BY <1>9, <1>11, <2>1, <2>2 DEF IdsDiffer
<1>17. WalletSound(w)'
  <2>1. Sum(ledger'[w]) = wallets'[w].balance
    BY <1>2, <1>6, <1>9, <1>11, SumOfMore
  <2>2. wallets'[w].version = First(w)' + Len(ledger'[w]) - 1
    BY <1>9, <1>11, <1>12, <1>13
  <2> QED
    BY <1>10, <1>15, <1>16, <2>1, <2>2 DEF WalletSound
<1>18. \A u \in WalletIds : WalletSound(u)'
  BY <1>9, <1>14, <1>17, WalletStays DEF LifeInv
<1>19. ASSUME NEW t \in Sessions PROVE TransactionSound(t)'
  <2>1. pc[t] # "idle" => walletId[t] \in WalletIds \ {w}
    BY <1>1 DEF LifeInv, TransactionSound, Fresh
  <2>2. pc[t] # "idle" => wallets'[walletId[t]] = wallets[walletId[t]]
    BY <1>9, <2>1
  <2>3. \A u \in Sessions : u # t /\ pc[t] # "idle" /\ pc'[u] # "idle" =>
          walletId'[u] # walletId[t]
    BY <1>1 DEF LifeInv, TransactionSound, Fresh, transaction
  <2> QED
    BY <1>1, <2>2, <2>3, TransactionStays DEF transaction
<1>20. ReaderSound'
  BY <1>1, <1>3, <1>6, <1>9, <1>10, ReaderStays
<1>21. OutboxTyped'
  BY <1>8, <1>14, <1>15 DEF LifeInv, OutboxTyped
<1> QED
  BY <1>18, <1>19, <1>20, <1>21 DEF LifeInv

-----------------------------------------------------------------------------
(* Steps of the reader *)

(* A place in a list of two parts is in one of them. *)
LEMMA Split ==
  ASSUME NEW m \in Nat, NEW p \in Nat
  PROVE  \A i \in 1..(m + p) : i \in 1..m \/ \E j \in 1..p : i = m + j
<1> SUFFICES ASSUME NEW i \in 1..(m + p), i \notin 1..m
             PROVE  \E j \in 1..p : i = m + j
  OBVIOUS
<1>1. i - m \in 1..p /\ i = m + (i - m)
  OBVIOUS
<1> QED
  BY <1>1

(* n entries of L, in order *)
Sorted(l, n, L) ==
  /\ \A i \in 1..n : l[i] \in L
  /\ \A i, j \in 1..n : i < j => Before(l[i], l[j])

(* m entries were listed and n rows follow, of which the page has p; with  *)
(* it, new is listed.                                                      *)
Follows(L, listed, m, rows, n, p, cursor, new) ==
  /\ new = listed \o SubSeq(rows, 1, p)
  /\ L \in SUBSET LedgerEntry /\ IdsDiffer(L)
  /\ listed \in Seq(LedgerEntry) /\ m = Len(listed) /\ Sorted(listed, m, L)
  /\ rows \in Seq(LedgerEntry) /\ n = Len(rows) /\ Sorted(rows, n, L)
  /\ p \in Nat /\ p <= n
  /\ m = 0 \/ cursor = listed[m]
  /\ \A i \in 1..n : AfterCursor(rows[i], cursor)

(* A page goes on where the list ends: its rows are after the cursor, and  *)
(* the cursor is the last that is listed.                                  *)
LEMMA PageFollows ==
  ASSUME NEW L, NEW listed, NEW m, NEW rows, NEW n, NEW p, NEW cursor, NEW new,
         Follows(L, listed, m, rows, n, p, cursor, new)
  PROVE  /\ new \in Seq(LedgerEntry) /\ Len(new) = m + p
         /\ \A i \in 1..m : new[i] = listed[i]
         /\ \A i \in 1..p : new[m + i] = rows[i]
         /\ Sorted(new, m + p, L)
<1>1. /\ L \in SUBSET LedgerEntry /\ IdsDiffer(L)
      /\ listed \in Seq(LedgerEntry) /\ m = Len(listed) /\ m \in Nat
      /\ rows \in Seq(LedgerEntry) /\ n = Len(rows) /\ n \in Nat
      /\ p \in Nat /\ p <= n
  BY DEF Follows
<1>2. /\ m = 0 \/ cursor = listed[m]
      /\ \A i \in 1..n : AfterCursor(rows[i], cursor)
  BY DEF Follows
<1>3. /\ \A i \in 1..m : listed[i] \in L
      /\ \A i, j \in 1..m : i < j => Before(listed[i], listed[j])
      /\ \A i \in 1..n : rows[i] \in L
      /\ \A i, j \in 1..n : i < j => Before(rows[i], rows[j])
  BY DEF Follows, Sorted
<1> DEFINE page == SubSeq(rows, 1, p)
<1>4. \A i \in 1..p : i \in 1..n /\ rows[i] \in L /\ rows[i] \in LedgerEntry
  BY <1>1, <1>3
<1>5. page \in Seq(LedgerEntry) /\ Len(page) = p /\ \A i \in 1..p : page[i] = rows[i]
  BY <1>1, <1>4, SubSeqProperties
<1> HIDE DEF page
<1>6. new = listed \o page
  BY DEF Follows, page
<1>7. /\ new \in Seq(LedgerEntry) /\ Len(new) = m + p
      /\ \A i \in 1..(m + p) : new[i] = IF i <= m THEN listed[i] ELSE page[i - m]
  <2>1. /\ listed \o page \in Seq(LedgerEntry)
        /\ Len(listed \o page) = Len(listed) + Len(page)
        /\ \A i \in 1..(Len(listed) + Len(page)) :
             (listed \o page)[i] = IF i <= Len(listed) THEN listed[i] ELSE page[i - Len(listed)]
    BY <1>1, <1>5, ConcatProperties, Zenon
  <2> QED
    BY <1>1, <1>5, <1>6, <2>1, Zenon
<1>8. ASSUME NEW i \in 1..m PROVE new[i] = listed[i]
  <2>1. i \in 1..(m + p) /\ i <= m
    BY <1>1
  <2>2. new[i] = IF i <= m THEN listed[i] ELSE page[i - m]
    BY <1>7, <2>1, Zenon
  <2> QED
    BY <2>1, <2>2
<1>9. ASSUME NEW i \in 1..p PROVE new[m + i] = rows[i]
  <2>1. m + i \in 1..(m + p) /\ ~(m + i <= m) /\ (m + i) - m = i
    BY <1>1
  <2> QED
    BY <1>1, <1>5, <1>7, <2>1
<1>10. \A i \in 1..(m + p) : i \in 1..m \/ \E j \in 1..p : i = m + j
  BY <1>1, Split
<1>11. ASSUME NEW i \in 1..(m + p) PROVE new[i] \in L
  <2>1. CASE i \in 1..m
    BY <1>1, <1>3, <1>8, <2>1
  <2>2. CASE \E j \in 1..p : i = m + j
    BY <1>1, <1>4, <1>9, <2>2
  <2> QED
    BY <1>10, <2>1, <2>2
<1>12. ASSUME NEW i \in 1..m, NEW j \in 1..p PROVE Before(listed[i], rows[j])
  <2>1. listed[m] = cursor /\ m \in 1..m /\ listed[m] \in L /\ listed[i] \in L
    BY <1>1, <1>2, <1>3
  <2>2. cursor # None
    BY <1>1, <2>1, EntryIsRow
  <2>3. Before(listed[m], rows[j]) /\ rows[j] \in L
    BY <1>1, <1>2, <1>4, <2>1, <2>2 DEF AfterCursor
  <2>4. i = m \/ Before(listed[i], listed[m])
    BY <1>1, <1>3, <2>1
  <2> QED
    BY <1>1, <2>1, <2>3, <2>4, BeforeOrders
<1>13. ASSUME NEW i \in 1..(m + p), NEW j \in 1..(m + p), i < j
       PROVE  Before(new[i], new[j])
  <2>1. CASE j \in 1..m
    <3>1. i \in 1..m
      BY <1>1, <1>13, <2>1
    <3> QED
      BY <1>1, <1>3, <1>8, <1>13, <2>1, <3>1
  <2>2. CASE j \notin 1..m
    <3>1. PICK b \in 1..p : j = m + b
      BY <1>1, <1>10, <2>2
    <3>2. CASE i \in 1..m
      BY <1>1, <1>8, <1>9, <1>12, <3>1, <3>2
    <3>3. CASE i \notin 1..m
      <4>1. PICK a \in 1..p : i = m + a
        BY <1>1, <1>10, <3>3
      <4>2. a < b
        BY <1>1, <1>13, <3>1, <4>1
      <4> QED
        BY <1>1, <1>3, <1>4, <1>9, <3>1, <4>1, <4>2
    <3> QED
      BY <3>2, <3>3
  <2> QED
    BY <2>1, <2>2
<1> QED
  BY <1>1, <1>7, <1>8, <1>9, <1>11, <1>13 DEF Sorted

(* The next page, whether it is the last or not. *)
LEMMA PageKeepsWalk ==
  ASSUME ServiceInv, LifeInv, NextPage
  PROVE  ReaderSound'
<1> DEFINE w == reader.wallet
<1>1. /\ reader.pc = "page" /\ reader \in Walk /\ w \in WalletIds /\ wallets[w] # None
      /\ UNCHANGED tables
  BY DEF NextPage, Read, LifeInv, ReaderSound, WalkSound, Walk
<1>2. PICK L : L = ToSet(ledger[w])
  OBVIOUS
<1>3. L \in SUBSET LedgerEntry /\ IdsDiffer(L) /\ ledger[w] \in Seq(LedgerEntry)
  BY <1>1, <1>2, ListedIsFinite DEF ServiceInv, TablesTyped, LifeInv, WalletSound
<1>4. PICK rows : rows = RowsAfter(w, reader.cursor)
  OBVIOUS
<1>5. /\ rows \in Seq(LedgerEntry)
      /\ \A i \in 1..Len(rows) : rows[i] \in L /\ AfterCursor(rows[i], reader.cursor)
      /\ \A i, j \in 1..Len(rows) : i < j => Before(rows[i], rows[j])
      /\ \A e \in L : AfterCursor(e, reader.cursor) => \E i \in 1..Len(rows) : rows[i] = e
  BY <1>2, <1>3, <1>4, RowsSorted
<1>6. PICK n \in Nat, k \in 1..MaxLimit : n = Len(rows) /\ k = reader.limit
  BY <1>1, <1>5 DEF Walk
<1>7. PICK p : p = Min({n, k})
  OBVIOUS
<1>8. p \in Nat /\ p <= n /\ (n > k => p = k) /\ (~(n > k) => p = n)
  <2>1. n \in Nat /\ k \in Nat
    BY <1>6, LimitsAssumption
  <2>2. p \in Int /\ p <= n /\ p <= k /\ (p = n \/ p = k)
    BY <1>7, <2>1, Smaller
  <2> QED
    BY <2>1, <2>2
<1>9. PICK listed \in Seq(LedgerEntry), m \in Nat : listed = reader.listed /\ m = Len(listed)
  BY <1>1 DEF Walk
<1>10. /\ IF m = 0 THEN reader.cursor = None ELSE reader.cursor = listed[m]
       /\ \A i \in 1..m : listed[i] \in L
       /\ \A i, j \in 1..m : i < j => Before(listed[i], listed[j])
       /\ reader.owed \subseteq L
       /\ \A e \in reader.owed :
            AfterCursor(e, reader.cursor) \/ \E i \in 1..m : listed[i] = e
  BY <1>1, <1>2, <1>9 DEF LifeInv, ReaderSound, WalkSound
<1>11. PICK new : new = listed \o SubSeq(rows, 1, p)
  OBVIOUS
<1>12. /\ new \in Seq(LedgerEntry) /\ Len(new) = m + p
       /\ \A i \in 1..m : new[i] = listed[i]
       /\ \A i \in 1..p : new[m + i] = rows[i]
       /\ \A i \in 1..(m + p) : new[i] \in L
       /\ \A i, j \in 1..(m + p) : i < j => Before(new[i], new[j])
  <2>1. Sorted(listed, m, L) /\ Sorted(rows, n, L)
    BY <1>5, <1>6, <1>10 DEF Sorted
  <2>2. /\ m = 0 \/ reader.cursor = listed[m]
        /\ \A i \in 1..n : AfterCursor(rows[i], reader.cursor)
    BY <1>5, <1>6, <1>10
  <2>3. Follows(L, listed, m, rows, n, p, reader.cursor, new)
    BY <1>3, <1>5, <1>6, <1>8, <1>9, <1>11, <2>1, <2>2 DEF Follows
  <2>4. /\ new \in Seq(LedgerEntry) /\ Len(new) = m + p
        /\ \A i \in 1..m : new[i] = listed[i]
        /\ \A i \in 1..p : new[m + i] = rows[i]
        /\ Sorted(new, m + p, L)
    BY <2>3, PageFollows
  <2> QED
    BY <2>4 DEF Sorted
<1>13. reader' = [reader EXCEPT !.pc = IF n > k THEN "page" ELSE "walked",
                    !.cursor = IF n > k THEN Last(SubSeq(rows, 1, p)) ELSE None,
                    !.listed = new]
  BY <1>4, <1>6, <1>7, <1>9, <1>11 DEF NextPage, Read
<1>14. ASSUME NEW e \in reader.owed
       PROVE  (\E i \in 1..(m + p) : new[i] = e) \/ \E i \in 1..n : i > p /\ rows[i] = e
  <2>1. CASE AfterCursor(e, reader.cursor)
    <3>1. PICK i \in 1..n : rows[i] = e
      BY <1>5, <1>6, <1>10, <2>1
    <3>2. CASE i \in 1..p
      <4>1. m + i \in 1..(m + p) /\ new[m + i] = e
        BY <1>8, <1>12, <3>1, <3>2
      <4> QED
        BY <4>1
    <3>3. CASE i \notin 1..p
      <4>1. i > p
        BY <1>8, <3>3
      <4> QED
        BY <3>1, <4>1
    <3> QED
      BY <3>2, <3>3
  <2>2. CASE \E i \in 1..m : listed[i] = e
    <3>1. PICK i \in 1..m : listed[i] = e
      BY <2>2
    <3>2. i \in 1..(m + p) /\ new[i] = e
      BY <1>8, <1>12, <3>1
    <3> QED
      BY <3>2
  <2> QED
    BY <1>10, <2>1, <2>2
<1> HIDE DEF w
<1>15. CASE n > k
  <2>1. p = k /\ k \in 1..n /\ m + k \in 1..(m + p) /\ m + k # 0
    BY <1>8, <1>15, LimitsAssumption
  <2>2. Last(SubSeq(rows, 1, p)) = rows[k]
    <3>1. \A i \in 1..p : rows[i] \in LedgerEntry
      BY <1>5, <1>6, <1>8
    <3>2. Len(SubSeq(rows, 1, p)) = p /\ SubSeq(rows, 1, p)[p] = rows[p]
      BY <1>8, <2>1, <3>1, SubSeqProperties
    <3> QED
      BY <2>1, <3>2 DEF Last
  <2>3. reader' = [reader EXCEPT !.pc = "page", !.cursor = rows[k], !.listed = new]
    BY <1>13, <1>15, <2>2
  <2>4. rows[k] \in LedgerEntry
    BY <1>5, <1>6, <2>1
  <2>5. /\ reader' \in Walk /\ reader'.pc = "page" /\ reader'.wallet = w
        /\ reader'.cursor = rows[k] /\ reader'.listed = new /\ reader'.owed = reader.owed
    BY <1>1, <1>12, <2>3, <2>4 DEF Walk, w
  <2>6. reader'.cursor = new[m + k]
    BY <1>12, <2>1, <2>5
  <2>7. \A e \in reader.owed : AfterCursor(e, rows[k]) \/ \E i \in 1..(m + p) : new[i] = e
    <3>1. ASSUME NEW i \in 1..n, i > p PROVE Before(rows[k], rows[i])
      BY <1>5, <1>6, <2>1, <3>1
    <3> QED
      BY <1>14, <3>1 DEF AfterCursor
  <2>8. WalkSound'
    BY <1>1, <1>2, <1>10, <1>12, <2>1, <2>5, <2>6, <2>7 DEF WalkSound, tables, w
  <2> QED
    BY <2>5, <2>8 DEF ReaderSound, ReconciliationSound
<1>16. CASE ~(n > k)
  <2>1. reader' = [reader EXCEPT !.pc = "walked", !.cursor = None, !.listed = new]
    BY <1>13, <1>16
  <2>2. /\ reader' \in Walk /\ reader'.pc = "walked" /\ reader'.wallet = w
        /\ reader'.listed = new /\ reader'.owed = reader.owed
    BY <1>1, <1>12, <2>1 DEF Walk, w
  <2>3. \A e \in reader.owed : \E i \in 1..(m + p) : new[i] = e
    BY <1>8, <1>14, <1>16
  <2>4. WalkSound'
    BY <1>1, <1>2, <1>10, <1>12, <2>2, <2>3 DEF WalkSound, tables, w
  <2> QED
    BY <2>2, <2>4 DEF ReaderSound, ReconciliationSound
<1> QED
  BY <1>15, <1>16

(* The statements of a reconciliation: what the balance lacks of the sum   *)
(* is what was committed since it was read.                                *)
LEMMA ReconcileKeepsReader ==
  ASSUME ServiceInv, LifeInv,
         (\E w \in WalletIds : ReconcileStart(w)) \/ CountEntries \/ Report
  PROVE  ReaderSound'
<1>1. CASE \E w \in WalletIds : ReconcileStart(w)
  <2>1. PICK w \in WalletIds : ReconcileStart(w)
    BY <1>1
  <2>2. PICK l \in Seq(LedgerEntry) : l = ledger[w]
    BY DEF ServiceInv, TablesTyped
  <2>3. PICK n \in Nat : n = Len(l)
    BY <2>2
  <2>4. /\ wallets[w] # None /\ wallets[w] \in WalletRow /\ UNCHANGED tables
        /\ reader' = [pc |-> "count", wallet |-> w, stored |-> wallets[w].balance, from |-> n]
    BY <2>1, <2>2, <2>3 DEF ReconcileStart, Read, ServiceInv, TablesTyped
  <2>5. wallets[w].balance \in Nat /\ Sum(l) = wallets[w].balance
    BY <2>2, <2>4, WalletIsRow DEF LifeInv, WalletSound
  <2>6. SubSeq(l, n + 1, n) = << >>
    BY SubSeqEmpty
  <2>7. Gap(w, n, n)' = << >>
    BY <2>2, <2>4, <2>6 DEF Gap, tables
  <2>8. ReconciliationSound'
    BY <2>2, <2>3, <2>4, <2>5, <2>7, SumOfNone DEF ReconciliationSound, tables
  <2> QED
    BY <2>4, <2>8 DEF ReaderSound, WalkSound
<1>2. CASE CountEntries
  <2>1. /\ reader.pc = "count" /\ UNCHANGED tables
        /\ reader' = [pc |-> "sum", wallet |-> reader.wallet, stored |-> reader.stored,
                      from |-> reader.from, checked |-> Len(ledger[reader.wallet])]
    BY <1>2 DEF CountEntries, Read
  <2>2. reader.wallet \in WalletIds /\ reader.from \in 0..Len(ledger[reader.wallet])
    BY <2>1 DEF LifeInv, ReaderSound, ReconciliationSound
  <2>3. Len(ledger[reader.wallet]) \in reader.from..Len(ledger[reader.wallet])
    <3>1. Len(ledger[reader.wallet]) \in Nat
      BY <2>2 DEF ServiceInv, TablesTyped
    <3> QED
      BY <2>2, <3>1
  <2>4. ReconciliationSound'
    BY <2>1, <2>3 DEF LifeInv, ReaderSound, ReconciliationSound, Gap, tables
  <2> QED
    BY <2>1, <2>4 DEF ReaderSound, WalkSound
<1>3. CASE Report
  <2>1. /\ reader.pc = "sum"
        /\ reader.wallet \in WalletIds /\ wallets[reader.wallet] # None
        /\ reader.from \in 0..Len(ledger[reader.wallet])
        /\ reader.checked \in reader.from..Len(ledger[reader.wallet])
    BY <1>3 DEF Report, LifeInv, ReaderSound, ReconciliationSound
  <2>2. PICK l \in Seq(LedgerEntry) : l = ledger[reader.wallet]
    BY <2>1 DEF ServiceInv, TablesTyped
  <2>3. PICK n \in Nat : n = Len(l)
    BY <2>2
  <2>4. PICK from \in Nat, checked \in Nat :
          /\ from = reader.from /\ checked = reader.checked
          /\ from <= checked /\ checked <= n
    BY <2>1, <2>2, <2>3
  <2> DEFINE gap == SubSeq(l, from + 1, n)
  <2>5. /\ reader.stored \in Int /\ Sum(l) - reader.stored = Sum(gap)
    BY <2>1, <2>2, <2>3, <2>4 DEF LifeInv, ReaderSound, ReconciliationSound, Gap
  <2>6. gap \in Seq(LedgerEntry)
    <3>1. \A i \in (from + 1)..n : l[i] \in LedgerEntry
      BY <2>3
    <3> QED
      BY <3>1, SubSeqProperties
  <2> HIDE DEF gap
  <2>7. PICK x \in Int, y \in Int, stored \in Int :
          x = Sum(l) /\ y = Sum(gap) /\ stored = reader.stored
    BY <2>5, <2>6, SumIsInt
  <2>8. stored - x = -y
    BY <2>5, <2>7
  <2>9. PICK d : d = stored - x
    OBVIOUS
  <2>10. /\ UNCHANGED tables
         /\ reader' = [pc |-> "reported", wallet |-> reader.wallet, from |-> from, to |-> n,
                       checked |-> checked, calculated |-> x,
                       difference |-> d, consistent |-> d = 0]
    BY <1>3, <2>2, <2>3, <2>4, <2>7, <2>9 DEF Report, Read, Difference
  <2>11. d = -Sum(gap)
    BY <2>7, <2>8, <2>9
  <2>12. ReconciliationSound'
    <3>1. /\ reader'.pc = "reported" /\ reader'.wallet = reader.wallet
          /\ reader'.from = from /\ reader'.to = n /\ reader'.checked = checked
          /\ reader'.difference = d /\ (reader'.consistent <=> d = 0)
          /\ ledger' = ledger /\ wallets' = wallets
      BY <2>10 DEF tables
    <3>2. from \in Nat /\ checked \in Nat /\ n \in 0..n /\ from <= checked /\ checked <= n
      BY <2>3, <2>4
    <3>3. SubSeq(ledger'[reader'.wallet], reader'.from + 1, reader'.to) = gap
      BY <2>2, <3>1 DEF gap
    <3> QED
      BY <2>1, <2>2, <2>3, <2>11, <3>1, <3>2, <3>3 DEF ReconciliationSound, Gap
  <2> QED
    BY <2>10, <2>12 DEF ReaderSound, WalkSound
<1> QED
  BY <1>1, <1>2, <1>3

(* A walk begins with nothing listed and everything owed. *)
LEMMA WalkStartKeepsReader ==
  ASSUME ServiceInv, LifeInv, NEW w \in WalletIds, NEW asked \in Limits, WalkStart(w, asked)
  PROVE  ReaderSound'
<1>1. Limit(asked) \in 1..MaxLimit
  <2>1. PICK limit \in Int : limit = IF asked = None THEN DefaultLimit ELSE asked
    BY LimitsAssumption
  <2>2. PICK one \in Int : one = 1
    OBVIOUS
  <2>3. Max({limit, one}) \in Int /\ Max({limit, one}) >= one
    BY Greater
  <2>4. PICK least \in Int : least = Max({limit, 1}) /\ least >= 1
    BY <2>2, <2>3
  <2>5. PICK most \in Int : most = MaxLimit /\ most >= 1
    BY LimitsAssumption
  <2>6. /\ Min({least, most}) \in Int /\ Min({least, most}) <= most
        /\ Min({least, most}) = least \/ Min({least, most}) = most
    BY Smaller
  <2>7. Limit(asked) = Min({least, most})
    BY <2>1, <2>4, <2>5 DEF Limit
  <2> QED
    BY <2>4, <2>5, <2>6, <2>7
<1>2. PICK k \in 1..MaxLimit : k = Limit(asked)
  BY <1>1
<1>3. PICK L : L = ToSet(ledger[w])
  OBVIOUS
<1>4. L \in SUBSET LedgerEntry
  BY <1>3, ListedIsFinite DEF ServiceInv, TablesTyped
<1>5. /\ wallets[w] # None /\ UNCHANGED tables
      /\ reader' = [pc |-> "page", wallet |-> w, limit |-> k, cursor |-> None,
                    listed |-> << >>, owed |-> L]
  BY <1>2, <1>3 DEF WalkStart, Read
<1>6. /\ reader' \in Walk /\ reader'.pc = "page" /\ reader'.wallet = w
      /\ reader'.cursor = None /\ reader'.listed = << >> /\ reader'.owed = L
  BY <1>4, <1>5 DEF Walk
<1>7. Len(<< >>) = 0
  OBVIOUS
<1>8. WalkSound'
  BY <1>3, <1>5, <1>6, <1>7 DEF WalkSound, AfterCursor, tables
<1> QED
  BY <1>6, <1>8 DEF ReaderSound, ReconciliationSound

(* A step of the reader leaves wallets and transactions what they are. *)
LEMMA ReaderKeepsLife ==
  ASSUME ServiceInv, LifeInv, ReaderStep
  PROVE  LifeInv'
<1>1. UNCHANGED <<tables, pc, transaction>>
  BY DEF ReaderStep, CountEntries, Report, NextPage, Leave, ReconcileStart, Unknown,
    WalkStart, Read
<1>2. ReaderSound'
  <2>1. CASE Leave \/ \E w \in WalletIds : Unknown(w)
    <3>1. reader'.pc \in {"idle", "notFound"}
      BY <2>1 DEF Leave, Unknown, Read, Resting
    <3> QED
      BY <3>1 DEF ReaderSound, ReconciliationSound, WalkSound
  <2> QED
    BY <2>1, ReconcileKeepsReader, PageKeepsWalk, WalkStartKeepsReader DEF ReaderStep
<1>3. ASSUME NEW t \in Sessions PROVE TransactionSound(t)'
  BY <1>1 DEF LifeInv, TransactionSound, Fresh, Prepared, tables, transaction
<1>4. \A w \in WalletIds : WalletSound(w)'
  BY <1>1, WalletStays DEF LifeInv, tables
<1>5. OutboxTyped'
  BY <1>1 DEF LifeInv, OutboxTyped, tables
<1> QED
  BY <1>2, <1>3, <1>4, <1>5 DEF LifeInv

-----------------------------------------------------------------------------
(* Every step keeps what wallet, transaction and reader know. *)
LEMMA LifeInvStep == ServiceInv /\ LifeInv /\ [Next]_vars => LifeInv'
<1> SUFFICES ASSUME ServiceInv, LifeInv, [Next]_vars PROVE LifeInv'
  OBVIOUS
<1>1. CASE OpeningStep
  <2>1. PICK s \in Sessions :
          /\ OpeningStart(s) \/ OpeningStatement(s) \/ Crash(s)
          /\ reader' = reader
    BY <1>1 DEF OpeningStep
  <2>2. CASE Commit(s)
    BY <2>1, <2>2, CommitKeepsLife
  <2> QED
    BY <2>1, <2>2, StartKeepsLife, StatementKeepsLife
<1>2. CASE \E w \in WalletIds, direction \in {"DEBIT", "CREDIT"} : Move(w, direction, 1)
  BY <1>2, MoveKeepsLife
<1>3. CASE ReaderStep
  BY <1>3, ReaderKeepsLife
<1>4. CASE UNCHANGED vars
  <2>1. UNCHANGED <<tables, pc, transaction, reader>>
    BY <1>4 DEF vars, openingVars
  <2>2. ASSUME NEW t \in Sessions PROVE TransactionSound(t)'
    BY <2>1 DEF LifeInv, TransactionSound, Fresh, Prepared, tables, transaction
  <2>3. \A w \in WalletIds : WalletSound(w)'
    BY <2>1, WalletStays DEF LifeInv, tables
  <2>4. ReaderSound' /\ OutboxTyped'
    BY <2>1 DEF LifeInv, OutboxTyped, ReaderSound, ReconciliationSound, WalkSound, Gap, tables
  <2> QED
    BY <2>2, <2>3, <2>4 DEF LifeInv
<1> QED
  BY <1>1, <1>2, <1>3, <1>4 DEF Next

(* Both invariants hold in every reachable state. *)
LEMMA LifeAlways == Spec => [](ServiceInv /\ LifeInv)
BY ServiceInvInit, LifeInvInit, ServiceInvStep, LifeInvStep, PTL DEF Spec

(* A committed wallet comes with its whole history, the opening credit     *)
(* first: the entries add up to the balance and the events carry every     *)
(* version once and in order, whatever crashed (README.md:206).            *)
THEOREM HistoryIsWhole == Spec => []HistoryStartsAtZero
<1>1. LifeInv => HistoryStartsAtZero
  <2> SUFFICES ASSUME LifeInv, NEW w \in WalletIds, wallets[w] # None
               PROVE  /\ Sum(ledger[w]) = wallets[w].balance
                      /\ wallets[w].version = First(w) + Len(ledger[w]) - 1
                      /\ {outbox[w][i].version : i \in BalanceEvents(w)}
                           = First(w)..wallets[w].version
                      /\ \A i, j \in BalanceEvents(w) :
                           i < j => outbox[w][i].version < outbox[w][j].version
    BY DEF HistoryStartsAtZero, LifeInv, WalletSound, First
  <2>1. EventsNumbered(w)
    BY DEF LifeInv, WalletSound
  <2>2. {outbox[w][i].version : i \in BalanceEvents(w)} = First(w)..wallets[w].version
    BY <2>1 DEF EventsNumbered
  <2> QED
    BY <2>1, <2>2 DEF LifeInv, WalletSound, EventsNumbered
<1> QED
  BY <1>1, LifeAlways, PTL

(* What a reconciliation reports of a wallet that moves is never a fault   *)
(* of its books: it differs by the entries committed between its two       *)
(* statements, and by nothing else (ARCHITECTURE.md:344).                  *)
THEOREM ReconciliationHonest == Spec => []DifferenceIsTheGap
<1>1. LifeInv /\ ServiceInv => DifferenceIsTheGap
  <2> SUFFICES ASSUME LifeInv, ServiceInv, reader.pc = "reported"
               PROVE  LET gap == Gap(reader.wallet, reader.from, reader.to) IN
                      /\ reader.difference = -Sum(gap)
                      /\ reader.consistent <=> Sum(gap) = 0
                      /\ reader.from <= reader.checked /\ reader.checked <= reader.to
    BY DEF DifferenceIsTheGap, Gap
  <2>1. PICK l \in Seq(LedgerEntry) : l = ledger[reader.wallet]
    BY DEF LifeInv, ReaderSound, ReconciliationSound, ServiceInv, TablesTyped
  <2>2. PICK from \in Nat, to \in 0..Len(l) : from = reader.from /\ to = reader.to
    BY <2>1 DEF LifeInv, ReaderSound, ReconciliationSound
  <2>3. PICK gap : gap = Gap(reader.wallet, reader.from, reader.to)
    OBVIOUS
  <2>4. /\ reader.difference = -Sum(gap) /\ (reader.consistent <=> reader.difference = 0)
        /\ reader.from <= reader.checked /\ reader.checked <= reader.to
    BY <2>3 DEF LifeInv, ReaderSound, ReconciliationSound
  <2>5. gap \in Seq(LedgerEntry)
    <3>1. \A i \in (from + 1)..to : l[i] \in LedgerEntry
      BY <2>2
    <3>2. SubSeq(l, from + 1, to) \in Seq(LedgerEntry)
      BY <2>2, <3>1, SubSeqProperties
    <3> QED
      BY <2>1, <2>2, <2>3, <3>2 DEF Gap
  <2>6. PICK sum \in Int : sum = Sum(gap)
    BY <2>5, SumIsInt
  <2> QED
    BY <2>3, <2>4, <2>6
<1> QED
  BY <1>1, LifeAlways, PTL

(* However many entries are committed while the pages are read, a walk     *)
(* lists in the order of (created_at, id) and nothing twice                *)
(* (ARCHITECTURE.md:294).                                                  *)
THEOREM WalkOrdered == Spec => []WalkIsOrdered
<1>1. LifeInv => WalkIsOrdered
  <2> SUFFICES ASSUME LifeInv, reader.pc \in {"page", "walked"},
                      NEW i \in 2..Len(reader.listed)
               PROVE  Before(reader.listed[i - 1], reader.listed[i])
    BY DEF WalkIsOrdered
  <2>1. Len(reader.listed) \in Nat
    BY DEF LifeInv, ReaderSound, WalkSound, Walk
  <2>2. i - 1 \in 1..Len(reader.listed) /\ i \in 1..Len(reader.listed) /\ i - 1 < i
    BY <2>1
  <2> QED
    BY <2>2 DEF LifeInv, ReaderSound, WalkSound
<1> QED
  BY <1>1, LifeAlways, PTL

(* The last page completes what was committed before the first, two        *)
(* entries with one created_at included (ARCHITECTURE.md:296).             *)
THEOREM WalkComplete == Spec => []WalkIsComplete
<1>1. LifeInv => WalkIsComplete
  <2> SUFFICES ASSUME LifeInv, reader.pc = "walked", NEW e \in reader.owed
               PROVE  e \in ToSet(reader.listed)
    BY DEF WalkIsComplete
  <2>1. /\ reader.listed \in Seq(LedgerEntry)
        /\ \E i \in 1..Len(reader.listed) : reader.listed[i] = e
    BY DEF LifeInv, ReaderSound, WalkSound, Walk
  <2> QED
    BY <2>1 DEF ToSet
<1> QED
  BY <1>1, LifeAlways, PTL
=============================================================================

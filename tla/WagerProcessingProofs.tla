------------------------ MODULE WagerProcessingProofs ------------------------
(***************************************************************************)
(* Types, the row locks of wallets and the ledger, for any commands,       *)
(* wallets and sessions: the ledger of a wallet reconstructs its balance,  *)
(* which never goes below zero.  Then who may write a row.                 *)
(***************************************************************************)
EXTENDS WagerProcessing, TLAPS

(* Before the foreign key has been checked. *)
Early == {"idle", "insert", "replay", "walletKey"}

(* Rows keep their key, and belong to a wallet that exists once the        *)
(* foreign key has been checked.                                           *)
RowsKeyed ==
  \A k \in Keys : wagers[k] # None =>
    wagers[k].cmd.key = k /\ wagers[k].cmd.wallet \in Wallets

DraftsKeyed ==
  \A s \in Sessions, k \in Keys : rowDraft[s][k] # None =>
    /\ rowDraft[s][k].cmd.key = k
    /\ \/ rowDraft[s][k].cmd.wallet \in Wallets
       \/ pc[s] = "walletKey" /\ rowDraft[s][k].cmd = job[s]

(* What a session works on exists. *)
Control ==
  \A s \in Sessions :
    /\ pc[s] # "idle" => job[s] \in Commands
    /\ pc[s] = "walletKey" => rowDraft[s][job[s].key] # None
    /\ pc[s] \notin Early => /\ job[s].wallet \in Wallets
                             /\ RowSeen(s, job[s].key) # None
    /\ \A i \in 1..Len(queue[s]) : wagers[queue[s][i]] # None

TypeInv == TypeOK /\ RowsKeyed /\ DraftsKeyed /\ Control

(* The key of a command is a key. *)
LEMMA CommandKey == ASSUME NEW c \in Commands PROVE c.key \in Keys
BY DEF Keys

(* A row that a session sees is a row, under its key. *)
LEMMA RowSeenType ==
  ASSUME TypeInv, NEW s \in Sessions, NEW k \in Keys, RowSeen(s, k) # None
  PROVE  /\ RowSeen(s, k) \in Row
         /\ RowSeen(s, k).cmd.key = k
BY DEF TypeInv, TypeOK, RowsKeyed, DraftsKeyed, RowSeen

(* A wallet that a session sees is a wallet. *)
LEMMA WalletSeenType ==
  ASSUME TypeOK, NEW s \in Sessions, NEW w \in Wallets
  PROVE  WalletSeen(s, w) \in WalletRow
BY DEF TypeOK, WalletSeen

(* Six checks or fewer have a first. *)
LEMMA FirstOfSix ==
  ASSUME NEW S \in SUBSET (1..6), S # {}
  PROVE  Min(S) \in S
<1>1. \E i \in S : \A j \in S : i <= j
  <2>1. CASE 1 \in S
    BY <2>1
  <2>2. CASE 1 \notin S /\ 2 \in S
    BY <2>2
  <2>3. CASE S \cap (1..2) = {} /\ 3 \in S
    BY <2>3
  <2>4. CASE S \cap (1..3) = {} /\ 4 \in S
    BY <2>4
  <2>5. CASE S \cap (1..4) = {} /\ 5 \in S
    BY <2>5
  <2>6. CASE S \cap (1..5) = {}
    <3>1. ASSUME NEW j \in S PROVE j = 6
      <4>1. j \in 1..6 /\ j \notin 1..5
        BY <2>6
      <4> QED BY <4>1
    <3>2. PICK i \in S : TRUE
      OBVIOUS
    <3> QED BY <3>1, <3>2
  <2> QED
    BY <2>1, <2>2, <2>3, <2>4, <2>5, <2>6
<1> QED
  BY <1>1 DEF Min

(* validateReference answers one of its failure codes, or none. *)
LEMMA ReferenceCodes ==
  ASSUME NEW c, NEW r, NEW currency
  PROVE  ValidateReference(c, r, currency) # None
           => ValidateReference(c, r, currency) \in FailureCodes
<1> DEFINE checks == ReferenceChecks(c, r, currency)
           failing == {i \in 1..6 : ~checks[i].ok}
<1>1. \A i \in 1..6 : checks[i].code \in FailureCodes
  BY DEF ReferenceChecks, FailureCodes
<1>2. failing # {} => Min(failing) \in 1..6
  BY FirstOfSix
<1> QED
  BY <1>1, <1>2 DEF ValidateReference

(* The invariant holds at the start. *)
LEMMA InitTypeInv == Init => TypeInv
<1> SUFFICES ASSUME Init PROVE TypeInv
  OBVIOUS
<1>1. TypeOK
  <2>1. ASSUME NEW w \in Wallets PROVE OpeningLedger(w) \in Seq(Entry)
    <3> DEFINE e == [tx |-> "opening", direction |-> "CREDIT",
                     amount |-> Opening[w], before |-> 0, after |-> Opening[w]]
    <3>1. Opening[w] \in Nat
      BY WalletsAssumption
    <3>2. e \in Entry
      BY <3>1 DEF Entry
    <3> HIDE DEF e
    <3>3. << >> \in Seq(Entry) /\ << e >> \in Seq(Entry)
      BY <3>2
    <3> QED
      BY <3>3 DEF OpeningLedger, e
  <2>2. wallets \in [Wallets -> WalletRow] /\ ledger \in [Wallets -> Seq(Entry)]
    BY <2>1, WalletsAssumption DEF Init, WalletRow
  <2>3. NoRows \in [Keys -> Row \cup {None}] /\ NoWallets \in [Wallets -> WalletRow \cup {None}]
    BY DEF NoRows, NoWallets
  <2>4. NoneOf \in [Wallets -> Seq(Entry)] /\ NoneOf \in [Wallets -> Seq(Event)]
    BY DEF NoneOf
  <2>5. NoLocks \in [Wallets -> LockModes]
    BY DEF NoLocks, LockModes
  <2> QED
    BY <2>2, <2>3, <2>4, <2>5 DEF Init, TypeOK
<1>2. RowsKeyed /\ DraftsKeyed
  BY DEF Init, RowsKeyed, DraftsKeyed, NoRows
<1>3. Control
  BY DEF Init, Control, Early
<1> QED BY <1>1, <1>2, <1>3 DEF TypeInv

-----------------------------------------------------------------------------
(* A transaction that ends without a commit. *)
LEMMA EndKeepsTypes ==
  ASSUME TypeInv, NEW s \in Sessions, EndTransaction(s), UNCHANGED committed
  PROVE  TypeInv'
<1>1. TypeOK'
  <2>1. NoRows \in [Keys -> Row \cup {None}] /\ NoWallets \in [Wallets -> WalletRow \cup {None}]
    BY DEF NoRows, NoWallets
  <2>2. NoneOf \in [Wallets -> Seq(Entry)] /\ NoneOf \in [Wallets -> Seq(Event)]
    BY DEF NoneOf
  <2>3. NoLocks \in [Wallets -> LockModes]
    BY DEF NoLocks, LockModes
  <2> QED
    BY <2>1, <2>2, <2>3 DEF TypeInv, TypeOK, EndTransaction, committed
<1>2. RowsKeyed'
  BY DEF TypeInv, RowsKeyed, committed
<1>3. DraftsKeyed'
  BY DEF TypeInv, TypeOK, DraftsKeyed, EndTransaction, NoRows
<1>4. Control'
  BY DEF TypeInv, TypeOK, Control, EndTransaction, RowSeen, committed, Early
<1> QED
  BY <1>1, <1>2, <1>3, <1>4 DEF TypeInv

(* A statement that only moves the session on. *)
LEMMA GotoKeepsTypes ==
  ASSUME TypeInv, NEW s \in Sessions,
         NEW l \in {"replay", "debit", "credit", "observe", "lockWallet", "reversal"},
         pc[s] # "idle", pc[s] # "walletKey",
         l \notin Early => pc[s] \notin Early,
         Goto(s, l), UNCHANGED <<committed, job, queue, loaded, drafts, locks>>,
         found' \in [Sessions -> Keys \cup {None}]
  PROVE  TypeInv'
<1>1. TypeOK'
  BY DEF TypeInv, TypeOK, Goto, committed, drafts
<1>2. RowsKeyed'
  BY DEF TypeInv, RowsKeyed, committed
<1>3. DraftsKeyed'
  BY DEF TypeInv, TypeOK, DraftsKeyed, Goto, drafts
<1>4. Control'
  BY DEF TypeInv, TypeOK, Control, Goto, RowSeen, committed, drafts, Early
<1> QED
  BY <1>1, <1>2, <1>3, <1>4 DEF TypeInv

(* A sequence that is not empty, taken apart. *)
LEMMA HeadAndTail ==
  ASSUME NEW S, NEW q \in Seq(S), q # << >>
  PROVE  /\ Head(q) = q[1] /\ 1 \in 1..Len(q) /\ Head(q) \in S /\ Tail(q) \in Seq(S)
         /\ \A i \in 1..Len(Tail(q)) : i + 1 \in 1..Len(q) /\ Tail(q)[i] = q[i + 1]
OBVIOUS

(* The row of the job is written and the job is done. *)
LEMMA SettleKeepsTypes ==
  ASSUME TypeInv, NEW s \in Sessions, pc[s] \notin Early,
         NEW r \in Row, r.cmd = JobRow(s).cmd,
         UpdateRow(s, r), NextRow(s), UNCHANGED committed,
         loaded' = loaded,
         locks' \in [Sessions -> [Wallets -> LockModes]],
         walletDraft' \in [Sessions -> [Wallets -> WalletRow \cup {None}]],
         entryDraft' \in [Sessions -> [Wallets -> Seq(Entry)]],
         eventDraft' \in [Sessions -> [Wallets -> Seq(Event)]]
  PROVE  TypeInv'
<1> DEFINE k == job[s].key
<1>1. job[s] \in Commands /\ k \in Keys /\ RowSeen(s, k) # None
  BY CommandKey DEF TypeInv, TypeOK, Control, Early
<1>2. /\ RowSeen(s, k) \in Row /\ RowSeen(s, k).cmd.key = k
      /\ RowSeen(s, k).cmd.wallet \in Wallets
  BY <1>1, RowSeenType DEF TypeInv, TypeOK, RowsKeyed, DraftsKeyed, RowSeen, Early
<1>3. /\ r # None /\ r.cmd.key = k /\ r.cmd.wallet \in Wallets
  BY <1>2, NoneAssumption DEF JobRow
<1>4. ASSUME queue[s] # << >>
      PROVE  /\ Head(queue[s]) \in Keys /\ Tail(queue[s]) \in Seq(Keys)
             /\ wagers[Head(queue[s])] # None
             /\ \A i \in 1..Len(Tail(queue[s])) : wagers[Tail(queue[s])[i]] # None
  <2>1. queue[s] \in Seq(Keys)
    BY DEF TypeInv, TypeOK
  <2>2. \A i \in 1..Len(queue[s]) : wagers[queue[s][i]] # None
    BY DEF TypeInv, Control
  <2>3. /\ Head(queue[s]) = queue[s][1] /\ 1 \in 1..Len(queue[s])
        /\ Head(queue[s]) \in Keys /\ Tail(queue[s]) \in Seq(Keys)
        /\ \A i \in 1..Len(Tail(queue[s])) :
             i + 1 \in 1..Len(queue[s]) /\ Tail(queue[s])[i] = queue[s][i + 1]
    BY <1>4, <2>1, HeadAndTail
  <2> HIDE DEF k
  <2> QED
    BY <2>2, <2>3
<1>5. ASSUME queue[s] # << >>
      PROVE  /\ wagers[Head(queue[s])] \in Row
             /\ wagers[Head(queue[s])].cmd \in Commands
             /\ wagers[Head(queue[s])].cmd.key = Head(queue[s])
             /\ wagers[Head(queue[s])].cmd.wallet \in Wallets
  BY <1>4, <1>5 DEF TypeInv, TypeOK, RowsKeyed, Row
<1>6. TypeOK'
  <2>1. rowDraft' \in [Sessions -> [Keys -> Row \cup {None}]]
    BY <1>1 DEF TypeInv, TypeOK, UpdateRow
  <2>2. /\ pc' \in [Sessions -> {"idle", "insert", "replay", "walletKey", "load",
                          "debit", "credit", "observe", "lockWallet",
                          "reference", "reversal", "commit"}]
        /\ job' \in [Sessions -> Commands \cup {None}]
        /\ queue' \in [Sessions -> Seq(Keys)]
        /\ found' \in [Sessions -> Keys \cup {None}]
    <3>1. CASE queue[s] = << >>
      BY <3>1 DEF TypeInv, TypeOK, NextRow, Goto
    <3>2. CASE queue[s] # << >>
      <4>1. PICK c \in Commands, q \in Seq(Keys) :
              c = wagers[Head(queue[s])].cmd /\ q = Tail(queue[s])
        BY <1>4, <1>5, <3>2
      <4>2. /\ pc' = [pc EXCEPT ![s] = "lockWallet"] /\ found' = [found EXCEPT ![s] = None]
            /\ job' = [job EXCEPT ![s] = c] /\ queue' = [queue EXCEPT ![s] = q]
        BY <3>2, <4>1 DEF NextRow, Goto
      <4> QED
        BY <4>2 DEF TypeInv, TypeOK
    <3> QED
      BY <3>1, <3>2
  <2> QED
    BY <2>1, <2>2 DEF TypeInv, TypeOK, committed
<1>7. RowsKeyed'
  BY DEF TypeInv, RowsKeyed, committed
<1>8. DraftsKeyed'
  <2> SUFFICES ASSUME NEW t \in Sessions, NEW j \in Keys, rowDraft'[t][j] # None
               PROVE  /\ rowDraft'[t][j].cmd.key = j
                      /\ \/ rowDraft'[t][j].cmd.wallet \in Wallets
                         \/ pc'[t] = "walletKey" /\ rowDraft'[t][j].cmd = job'[t]
    BY DEF DraftsKeyed
  <2>1. CASE t = s /\ j = k
    BY <1>1, <1>3, <2>1 DEF TypeInv, TypeOK, UpdateRow
  <2>2. CASE t = s /\ j # k
    BY <2>2 DEF TypeInv, TypeOK, DraftsKeyed, UpdateRow, Early
  <2>3. CASE t # s
    BY <2>3 DEF TypeInv, TypeOK, DraftsKeyed, UpdateRow, NextRow, Goto
  <2> QED
    BY <2>1, <2>2, <2>3
<1>9. Control'
  <2> SUFFICES ASSUME NEW t \in Sessions
               PROVE  /\ pc'[t] # "idle" => job'[t] \in Commands
                      /\ pc'[t] = "walletKey" => rowDraft'[t][job'[t].key] # None
                      /\ pc'[t] \notin Early => /\ job'[t].wallet \in Wallets
                                                /\ RowSeen(t, job[t].key)' # None
                      /\ \A i \in 1..Len(queue'[t]) : wagers'[queue'[t][i]] # None
    BY DEF Control
  <2>1. CASE t # s
    BY <2>1 DEF TypeInv, TypeOK, Control, UpdateRow, NextRow, Goto, RowSeen, committed
  <2>2. CASE t = s /\ queue[s] = << >>
    BY <2>2, <1>1, <1>3 DEF TypeInv, TypeOK, Control, UpdateRow, NextRow, Goto, RowSeen, committed, Early
  <2>3. CASE t = s /\ queue[s] # << >>
    <3>1. pc'[s] = "lockWallet" /\ job'[s] = wagers[Head(queue[s])].cmd /\ queue'[s] = Tail(queue[s])
      BY <2>3 DEF TypeInv, TypeOK, NextRow, Goto
    <3>2. RowSeen(s, job[s].key)' # None
      BY <3>1, <2>3, <1>1, <1>3, <1>4, <1>5 DEF TypeInv, TypeOK, UpdateRow, RowSeen, committed
    <3> QED
      BY <3>1, <3>2, <2>3, <1>4, <1>5 DEF committed
  <2> QED
    BY <2>1, <2>2, <2>3
<1> QED
  BY <1>6, <1>7, <1>8, <1>9 DEF TypeInv

(* The types of what a session at work reads. *)
LEMMA SettledRowType ==
  ASSUME TypeInv, NEW s \in Sessions, pc[s] \notin Early
  PROVE  /\ JobRow(s) \in Row
         /\ job[s] \in Commands /\ job[s].key \in Keys
         /\ job[s].wallet \in Wallets /\ job[s].amount \in Nat
BY CommandKey, CommandsAssumption, RowSeenType
   DEF TypeInv, TypeOK, Control, JobRow, Early

(* Events that are enqueued keep the type of the drafts. *)
LEMMA EnqueueType ==
  ASSUME TypeOK, NEW s \in Sessions, job[s].wallet \in Wallets,
         NEW events \in Seq(Event), Enqueue(s, events)
  PROVE  eventDraft' \in [Sessions -> [Wallets -> Seq(Event)]]
<1>1. eventDraft[s][job[s].wallet] \o events \in Seq(Event)
  BY DEF TypeOK
<1> QED
  BY <1>1 DEF TypeOK, Enqueue

(* An event about the job is an event. *)
LEMMA Event1Type ==
  ASSUME NEW s \in Sessions, job[s].key \in Keys,
         NEW type \in {"WagerTransactionProcessed", "WagerTransactionRejected",
                       "WagerTransactionPendingReference"}
  PROVE  << Event1(s, type) >> \in Seq(Event)
<1>1. Event1(s, type) \in Event
  BY DEF Event1, Event
<1> QED
  BY <1>1

(* A refusal keeps every type. *)
LEMMA RejectKeepsTypes ==
  ASSUME TypeInv, NEW s \in Sessions, pc[s] \notin Early,
         NEW code \in FailureCodes, NEW observed \in Int \cup {None},
         Reject(s, code, observed)
  PROVE  TypeInv'
<1>1. Rejected(JobRow(s), code, observed) \in Row
  BY SettledRowType DEF Rejected, Row, Statuses
<1>2. Rejected(JobRow(s), code, observed).cmd = JobRow(s).cmd
  BY SettledRowType DEF Rejected, Row
<1>3. eventDraft' \in [Sessions -> [Wallets -> Seq(Event)]]
  BY SettledRowType, Event1Type, EnqueueType DEF Reject, TypeInv
<1> HIDE DEF Rejected
<1> QED
  BY <1>1, <1>2, <1>3, SettleKeepsTypes DEF Reject, NoBalanceChange, TypeInv, TypeOK

(* A debit or a credit keeps every type. *)
LEMMA PostKeepsTypes ==
  ASSUME TypeInv, NEW s \in Sessions, pc[s] \notin Early,
         NEW direction \in {"DEBIT", "CREDIT"}, Post(s, direction)
  PROVE  TypeInv'
<1> DEFINE c == job[s]
           w == c.wallet
           seen == WalletSeen(s, w)
           after == IF direction = "DEBIT" THEN seen.balance - c.amount
                                           ELSE seen.balance + c.amount
           version == seen.version + 1
           entry == [tx |-> c.key, direction |-> direction, amount |-> c.amount,
                     before |-> BalanceBefore(direction, after, c.amount),
                     after |-> after]
           changed == [type |-> "WalletBalanceChanged", tx |-> c.key, version |-> version]
           r == MarkProcessed(JobRow(s), found[s], after)
<1>1. /\ JobRow(s) \in Row /\ c \in Commands /\ c.key \in Keys /\ w \in Wallets
      /\ c.amount \in Nat
  BY SettledRowType
<1>2. seen \in WalletRow
  BY <1>1, WalletSeenType DEF TypeInv
<1>3. after \in Int /\ version \in Nat
  BY <1>1, <1>2 DEF WalletRow
<1>4. entry \in Entry
  BY <1>1, <1>3 DEF Entry, BalanceBefore
<1>5. changed \in Event
  BY <1>1, <1>3 DEF Event
<1>6. r \in Row /\ r.cmd = JobRow(s).cmd
  BY <1>1, <1>3 DEF MarkProcessed, Row, Statuses, TypeInv, TypeOK
<1>7. locks' \in [Sessions -> [Wallets -> LockModes]]
  BY <1>1 DEF Post, UpdateMode, TypeInv, TypeOK, LockModes
<1>8. walletDraft' \in [Sessions -> [Wallets -> WalletRow \cup {None}]]
  BY <1>1, <1>3 DEF Post, UpdateMode, TypeInv, TypeOK, WalletRow
<1>9. entryDraft' \in [Sessions -> [Wallets -> Seq(Entry)]]
  <2>1. entryDraft' = [entryDraft EXCEPT ![s][w] = Append(@, entry)]
    BY DEF Post, UpdateMode
  <2>2. Append(entryDraft[s][w], entry) \in Seq(Entry)
    BY <1>1, <1>4 DEF TypeInv, TypeOK
  <2> HIDE DEF entry, w
  <2> QED
    BY <1>1, <2>1, <2>2 DEF TypeInv, TypeOK
<1>10. eventDraft' \in [Sessions -> [Wallets -> Seq(Event)]]
  <2>1. Event1(s, "WagerTransactionProcessed") \in Event
    BY <1>1 DEF Event1, Event
  <2>2. Enqueue(s, << Event1(s, "WagerTransactionProcessed"), changed >>)
    BY DEF Post, UpdateMode
  <2> HIDE DEF changed
  <2>3. << Event1(s, "WagerTransactionProcessed"), changed >> \in Seq(Event)
    BY <2>1, <1>5
  <2> QED
    BY <1>1, <2>2, <2>3, EnqueueType DEF TypeInv
<1>11. UpdateRow(s, r) /\ NextRow(s) /\ UNCHANGED <<committed, loaded>>
  BY DEF Post, UpdateMode
<1> HIDE DEF r
<1> QED
  BY <1>6, <1>7, <1>8, <1>9, <1>10, <1>11, SettleKeepsTypes

(* A commit keeps every type. *)
LEMMA CommitKeepsTypes ==
  ASSUME TypeInv, NEW s \in Sessions, Commit(s)
  PROVE  TypeInv'
<1>1. TypeOK'
  <2>1. wagers' \in [Keys -> Row \cup {None}]
    BY DEF Commit, TypeInv, TypeOK, RowSeen
  <2>2. wallets' \in [Wallets -> WalletRow]
    BY WalletSeenType DEF Commit, TypeInv
  <2>3. ledger' \in [Wallets -> Seq(Entry)]
    <3>1. \A w \in Wallets : ledger[w] \o entryDraft[s][w] \in Seq(Entry)
      BY DEF TypeInv, TypeOK
    <3> QED BY <3>1 DEF Commit
  <2>4. outbox' \in [Wallets -> Seq(Event)]
    <3>1. \A w \in Wallets : outbox[w] \o eventDraft[s][w] \in Seq(Event)
      BY DEF TypeInv, TypeOK
    <3> QED BY <3>1 DEF Commit
  <2>5. NoRows \in [Keys -> Row \cup {None}] /\ NoWallets \in [Wallets -> WalletRow \cup {None}]
    BY DEF NoRows, NoWallets
  <2>6. NoneOf \in [Wallets -> Seq(Entry)] /\ NoneOf \in [Wallets -> Seq(Event)]
    BY DEF NoneOf
  <2>7. NoLocks \in [Wallets -> LockModes]
    BY DEF NoLocks, LockModes
  <2> QED
    BY <2>1, <2>2, <2>3, <2>4, <2>5, <2>6, <2>7 DEF Commit, EndTransaction, TypeInv, TypeOK
<1>2. RowsKeyed'
  BY DEF Commit, TypeInv, TypeOK, RowsKeyed, DraftsKeyed, RowSeen
<1>3. DraftsKeyed'
  BY DEF Commit, EndTransaction, TypeInv, TypeOK, DraftsKeyed, NoRows
<1>4. Control'
  <2>1. \A k \in Keys : wagers[k] # None => wagers'[k] # None
    BY DEF Commit, RowSeen
  <2> SUFFICES ASSUME NEW t \in Sessions
               PROVE  /\ pc'[t] # "idle" => job'[t] \in Commands
                      /\ pc'[t] = "walletKey" => rowDraft'[t][job'[t].key] # None
                      /\ pc'[t] \notin Early => /\ job'[t].wallet \in Wallets
                                                /\ RowSeen(t, job[t].key)' # None
                      /\ \A i \in 1..Len(queue'[t]) : wagers'[queue'[t][i]] # None
    BY DEF Control
  <2>2. CASE t = s
    BY <2>2 DEF Commit, EndTransaction, TypeInv, TypeOK, Early
  <2>3. CASE t # s
    <3>1. /\ pc'[t] = pc[t] /\ job'[t] = job[t] /\ queue'[t] = queue[t]
          /\ rowDraft'[t] = rowDraft[t]
      BY <2>3 DEF Commit, EndTransaction, TypeInv, TypeOK
    <3>2. pc[t] \notin Early => job[t].key \in Keys
      BY CommandKey DEF TypeInv, Control, Early
    <3>3. queue[t] \in Seq(Keys)
      BY DEF TypeInv, TypeOK
    <3> QED
      BY <2>1, <3>1, <3>2, <3>3 DEF TypeInv, Control, RowSeen
  <2> QED
    BY <2>2, <2>3
<1> QED
  BY <1>1, <1>2, <1>3, <1>4 DEF TypeInv

(* No step breaks the types. *)
LEMMA NextKeepsTypes == TypeInv /\ [Next]_vars => TypeInv'
<1> SUFFICES ASSUME TypeInv, [Next]_vars PROVE TypeInv'
  OBVIOUS
<1>1. CASE UNCHANGED vars
  BY <1>1 DEF vars, committed, drafts, TypeInv, TypeOK, RowsKeyed, DraftsKeyed, Control, RowSeen
<1>2. ASSUME NEW s \in Sessions, NEW c \in Commands, Submit(s, c) PROVE TypeInv'
  <2>1. TypeOK'
    BY <1>2 DEF Submit, Goto, TypeInv, TypeOK, committed, drafts
  <2>2. RowsKeyed' /\ DraftsKeyed'
    BY <1>2 DEF Submit, Goto, TypeInv, TypeOK, RowsKeyed, DraftsKeyed, committed, drafts
  <2>3. Control'
    BY <1>2 DEF Submit, Goto, TypeInv, TypeOK, Control, RowSeen, committed, drafts, Early
  <2> QED BY <2>1, <2>2, <2>3 DEF TypeInv
<1>3. ASSUME NEW s \in Sessions, ClaimDue(s) PROVE TypeInv'
  <2>0. PICK n \in 1..BatchSize : \E due \in [1..n -> Keys] :
          /\ \A i \in 1..n : wagers[due[i]] # None
          /\ job' = [job EXCEPT ![s] = wagers[due[1]].cmd]
          /\ queue' = [queue EXCEPT ![s] = Tail(due)]
    BY <1>3 DEF ClaimDue, Due
  <2>1. PICK due \in [1..n -> Keys] :
          /\ \A i \in 1..n : wagers[due[i]] # None
          /\ job' = [job EXCEPT ![s] = wagers[due[1]].cmd]
          /\ queue' = [queue EXCEPT ![s] = Tail(due)]
    BY <2>0
  <2>2. n \in Nat /\ 1 \in 1..n
    BY LimitsAssumption
  <2>3. due \in Seq(Keys) /\ Len(due) = n /\ Tail(due) \in Seq(Keys)
    BY <2>2
  <2>4. \A i \in 1..Len(Tail(due)) : wagers[Tail(due)[i]] # None
    BY <2>1, <2>2, <2>3
  <2>5. /\ due[1] \in Keys /\ wagers[due[1]] \in Row /\ wagers[due[1]].cmd \in Commands
        /\ wagers[due[1]].cmd.key = due[1] /\ wagers[due[1]].cmd.wallet \in Wallets
    BY <2>1, <2>2 DEF TypeInv, TypeOK, RowsKeyed, Row
  <2>6. /\ pc' = [pc EXCEPT ![s] = "lockWallet"] /\ pc[s] = "idle"
        /\ UNCHANGED <<committed, loaded, found, drafts, locks>>
    BY <1>3 DEF ClaimDue, Goto
  <2>7. TypeOK'
    BY <2>1, <2>3, <2>5, <2>6 DEF TypeInv, TypeOK, committed, drafts
  <2>8. RowsKeyed' /\ DraftsKeyed'
    BY <2>1, <2>6 DEF TypeInv, TypeOK, RowsKeyed, DraftsKeyed, committed, drafts, Early
  <2>9. Control'
    <3> SUFFICES ASSUME NEW t \in Sessions
                 PROVE  /\ pc'[t] # "idle" => job'[t] \in Commands
                        /\ pc'[t] = "walletKey" => rowDraft'[t][job'[t].key] # None
                        /\ pc'[t] \notin Early => /\ job'[t].wallet \in Wallets
                                                  /\ RowSeen(t, job[t].key)' # None
                        /\ \A i \in 1..Len(queue'[t]) : wagers'[queue'[t][i]] # None
      BY DEF Control
    <3>1. CASE t # s
      BY <3>1, <2>1, <2>6 DEF TypeInv, TypeOK, Control, RowSeen, committed, drafts
    <3>2. CASE t = s
      <4>1. /\ pc'[s] = "lockWallet" /\ job'[s] = wagers[due[1]].cmd
            /\ queue'[s] = Tail(due) /\ wagers' = wagers
        BY <2>1, <2>6 DEF TypeInv, TypeOK, committed
      <4>2. RowSeen(s, job[s].key)' # None
        BY <4>1, <2>1, <2>2, <2>5 DEF RowSeen
      <4> QED
        BY <3>2, <4>1, <4>2, <2>4, <2>5
    <3> QED BY <3>1, <3>2
  <2> QED BY <2>7, <2>8, <2>9 DEF TypeInv
<1>4. ASSUME NEW s \in Sessions, InsertRow(s) PROVE TypeInv'
  <2>1. /\ job[s] \in Commands /\ job[s].key \in Keys
        /\ pc[s] = "insert" /\ pc' = [pc EXCEPT ![s] = "walletKey"]
        /\ rowDraft' = [rowDraft EXCEPT ![s][job[s].key] = NewRow(job[s])]
        /\ UNCHANGED <<committed, job, queue, loaded, found, walletDraft, entryDraft,
                       eventDraft, locks>>
    BY <1>4, CommandKey DEF InsertRow, UpdateRow, Goto, TypeInv, Control
  <2>2. NewRow(job[s]) \in Row /\ NewRow(job[s]) # None /\ NewRow(job[s]).cmd = job[s]
    BY <2>1, NoneAssumption DEF NewRow, Row, Statuses
  <2>3. TypeOK'
    BY <2>1, <2>2 DEF TypeInv, TypeOK, committed
  <2>4. RowsKeyed' /\ DraftsKeyed'
    BY <2>1, <2>2 DEF TypeInv, TypeOK, RowsKeyed, DraftsKeyed, committed
  <2>5. Control'
    BY <2>1, <2>2 DEF TypeInv, TypeOK, Control, RowSeen, committed, Early
  <2> QED BY <2>3, <2>4, <2>5 DEF TypeInv
<1>5. ASSUME NEW s \in Sessions, CheckWalletKey(s) PROVE TypeInv'
  <2>1. /\ job[s].wallet \in Wallets /\ pc[s] = "walletKey"
        /\ pc' = [pc EXCEPT ![s] = "load"]
        /\ locks' = [locks EXCEPT ![s][job[s].wallet] = "keyShare"]
        /\ UNCHANGED <<committed, job, queue, loaded, found, drafts>>
    BY <1>5 DEF CheckWalletKey, Goto
  <2>2. TypeOK'
    BY <2>1 DEF TypeInv, TypeOK, LockModes, committed, drafts
  <2>3. RowsKeyed' /\ DraftsKeyed'
    BY <2>1 DEF TypeInv, TypeOK, RowsKeyed, DraftsKeyed, committed, drafts
  <2>4. Control'
    BY <2>1 DEF TypeInv, TypeOK, Control, RowSeen, committed, drafts, Early
  <2> QED BY <2>2, <2>3, <2>4 DEF TypeInv
<1>6. ASSUME NEW s \in Sessions, LockWallet(s) PROVE TypeInv'
  <2>1. /\ job[s].wallet \in Wallets /\ pc[s] = "lockWallet"
        /\ pc' = [pc EXCEPT ![s] = "reference"]
        /\ locks' = [locks EXCEPT ![s][job[s].wallet] = "forUpdate"]
        /\ loaded' = [loaded EXCEPT ![s] = WalletSeen(s, job[s].wallet).balance]
        /\ UNCHANGED <<committed, job, queue, found, drafts>>
    BY <1>6 DEF LockWallet, Goto, TypeInv, Control, Early
  <2>2. WalletSeen(s, job[s].wallet).balance \in Int
    BY <2>1, WalletSeenType DEF TypeInv, WalletRow
  <2>3. TypeOK'
    BY <2>1, <2>2 DEF TypeInv, TypeOK, LockModes, committed, drafts
  <2>4. RowsKeyed' /\ DraftsKeyed'
    BY <2>1 DEF TypeInv, TypeOK, RowsKeyed, DraftsKeyed, committed, drafts
  <2>5. Control'
    BY <2>1 DEF TypeInv, TypeOK, Control, RowSeen, committed, drafts, Early
  <2> QED BY <2>3, <2>4, <2>5 DEF TypeInv
<1>7. ASSUME NEW s \in Sessions,
             InsertConflicts(s) \/ LoadWallet(s) \/ DebitRefused(s) \/ Reverse(s)
      PROVE  TypeInv'
  <2>1. InsertConflicts(s) => TypeInv'
    BY GotoKeepsTypes DEF InsertConflicts, TypeInv, TypeOK, Early
  <2>2. LoadWallet(s) => TypeInv'
    BY GotoKeepsTypes DEF LoadWallet, TypeInv, TypeOK, Early
  <2>3. DebitRefused(s) => TypeInv'
    BY GotoKeepsTypes DEF DebitRefused, TypeInv, TypeOK, Early
  <2>4. Reverse(s) => TypeInv'
    BY GotoKeepsTypes DEF Reverse, TypeInv, TypeOK, Early
  <2> QED BY <1>7, <2>1, <2>2, <2>3, <2>4
<1>8. ASSUME NEW s \in Sessions, AcceptReference(s) PROVE TypeInv'
  <2>1. found' \in [Sessions -> Keys \cup {None}]
    BY <1>8 DEF AcceptReference, References, TypeInv, TypeOK
  <2> QED
    BY <1>8, <2>1, GotoKeepsTypes DEF AcceptReference, Early
<1>9. ASSUME NEW s \in Sessions, LoadForeignWallet(s) PROVE TypeInv'
  <2>1. pc[s] \notin Early
    BY <1>9 DEF LoadForeignWallet, Early
  <2>2. WalletSeen(s, job[s].wallet).balance \in Int
    BY <2>1, SettledRowType, WalletSeenType DEF TypeInv, WalletRow
  <2> QED
    BY <1>9, <2>1, <2>2, RejectKeepsTypes DEF LoadForeignWallet, FailureCodes
<1>10. ASSUME NEW s \in Sessions, SettleWithoutEntry(s) PROVE TypeInv'
  <2> DEFINE r == MarkProcessed(JobRow(s), None, WalletSeen(s, job[s].wallet).balance)
  <2>1. pc[s] \notin Early
    BY <1>10 DEF SettleWithoutEntry, Early
  <2>2. WalletSeen(s, job[s].wallet).balance \in Int
    BY <2>1, SettledRowType, WalletSeenType DEF TypeInv, WalletRow
  <2>3. r \in Row /\ r.cmd = JobRow(s).cmd
    BY <2>1, <2>2, SettledRowType DEF MarkProcessed, Row, Statuses
  <2>4. eventDraft' \in [Sessions -> [Wallets -> Seq(Event)]]
    BY <1>10, <2>1, SettledRowType, Event1Type, EnqueueType DEF SettleWithoutEntry, TypeInv
  <2>5. UpdateRow(s, r) /\ NextRow(s) /\ NoBalanceChange
    BY <1>10 DEF SettleWithoutEntry
  <2> HIDE DEF r
  <2> QED
    BY <2>1, <2>3, <2>4, <2>5, SettleKeepsTypes DEF NoBalanceChange, TypeInv, TypeOK
<1>11. ASSUME NEW s \in Sessions, AwaitReference(s) PROVE TypeInv'
  <2> DEFINE r == ScheduleReferenceRetry([JobRow(s) EXCEPT !.status = "PENDING_REFERENCE"])
  <2>1. pc[s] \notin Early
    BY <1>11 DEF AwaitReference, Early
  <2>2. r \in Row /\ r.cmd = JobRow(s).cmd
    <3>1. JobRow(s) \in Row
      BY <2>1, SettledRowType
    <3>2. JobRow(s).attempts + 1 \in Nat
      BY <3>1 DEF Row
    <3>3. r = [JobRow(s) EXCEPT !.status = "PENDING_REFERENCE",
                                !.attempts = JobRow(s).attempts + 1]
      BY <3>1 DEF ScheduleReferenceRetry, Row
    <3> HIDE DEF r
    <3> QED
      BY <3>1, <3>2, <3>3 DEF Row, Statuses
  <2>3. eventDraft' \in [Sessions -> [Wallets -> Seq(Event)]]
    BY <1>11, <2>1, SettledRowType, Event1Type, EnqueueType DEF AwaitReference, TypeInv
  <2>4. UpdateRow(s, r) /\ NextRow(s) /\ NoBalanceChange
    BY <1>11 DEF AwaitReference
  <2> HIDE DEF r
  <2> QED
    BY <2>1, <2>2, <2>3, <2>4, SettleKeepsTypes DEF NoBalanceChange, TypeInv, TypeOK
<1>12. ASSUME NEW s \in Sessions, RetryLater(s) PROVE TypeInv'
  <2> DEFINE r == ScheduleReferenceRetry(JobRow(s))
  <2>1. pc[s] \notin Early
    BY <1>12 DEF RetryLater, Early
  <2>2. r \in Row /\ r.cmd = JobRow(s).cmd
    BY <2>1, SettledRowType DEF ScheduleReferenceRetry, Row
  <2>3. UpdateRow(s, r) /\ NextRow(s) /\ NoBalanceChange /\ UNCHANGED eventDraft
    BY <1>12 DEF RetryLater
  <2> HIDE DEF r
  <2> QED
    BY <2>1, <2>2, <2>3, SettleKeepsTypes DEF NoBalanceChange, TypeInv, TypeOK
<1>13. ASSUME NEW s \in Sessions, GiveUp(s) \/ RefuseSecondReversal(s) PROVE TypeInv'
  <2>1. pc[s] \notin Early
    BY <1>13 DEF GiveUp, RefuseSecondReversal, Early
  <2>2. loaded[s] \in Int \cup {None}
    BY DEF TypeInv, TypeOK
  <2> QED
    BY <1>13, <2>1, <2>2, RejectKeepsTypes DEF GiveUp, RefuseSecondReversal, FailureCodes
<1>14. ASSUME NEW s \in Sessions, RefuseReference(s) PROVE TypeInv'
  <2>1. PICK k \in References(s) :
          LET code == ValidateReference(job[s], RowSeen(s, k), Currency[job[s].wallet])
          IN  code # None /\ Reject(s, code, loaded[s])
    BY <1>14 DEF RefuseReference
  <2> DEFINE code == ValidateReference(job[s], RowSeen(s, k), Currency[job[s].wallet])
  <2>2. code # None => code \in FailureCodes
    BY ReferenceCodes
  <2>3. pc[s] \notin Early
    BY <1>14 DEF RefuseReference, Early
  <2>4. loaded[s] \in Int \cup {None}
    BY DEF TypeInv, TypeOK
  <2> QED
    BY <2>1, <2>2, <2>3, <2>4, RejectKeepsTypes
<1>15. ASSUME NEW s \in Sessions, Observe(s) PROVE TypeInv'
  <2>1. pc[s] \notin Early
    BY <1>15 DEF Observe, Early
  <2>2. WalletSeen(s, job[s].wallet).balance \in Int
    BY <2>1, SettledRowType, WalletSeenType DEF TypeInv, WalletRow
  <2>3. (IF job[s].kind = "BET" THEN "INSUFFICIENT_BALANCE"
         ELSE "REVERSAL_WOULD_CAUSE_NEGATIVE_BALANCE") \in FailureCodes
    BY DEF FailureCodes
  <2> QED
    BY <1>15, <2>1, <2>2, <2>3, RejectKeepsTypes DEF Observe
<1>16. ASSUME NEW s \in Sessions, Debit(s) \/ Credit(s) PROVE TypeInv'
  BY <1>16, PostKeepsTypes DEF Debit, Credit, Early
<1>17. ASSUME NEW s \in Sessions,
              \/ InsertFails(s) \/ Replay(s) \/ WalletKeyFails(s)
              \/ CommitFails(s) \/ AbortDeadlock(s) \/ Crash(s)
       PROVE  TypeInv'
  <2>1. EndTransaction(s) /\ UNCHANGED committed
    BY <1>17 DEF InsertFails, Replay, WalletKeyFails, CommitFails, AbortDeadlock, Crash, RollBack, committed
  <2> QED
    BY <2>1, EndKeepsTypes
<1> QED
  BY <1>1, <1>2, <1>3, <1>4, <1>5, <1>6, <1>7, <1>8, <1>9, <1>10, <1>11, <1>12,
     <1>13, <1>14, <1>15, <1>16, <1>17, CommitKeepsTypes
     DEF Next, Start, Statement, ClientStep, ReversalStep, BalanceStep

(* Every variable keeps its type: the rows of wager_transactions, wallets, *)
(* ledger and outbox, and what each session holds of them.                 *)
THEOREM TypeCorrect == Spec => []TypeOK
<1>1. TypeInv => TypeOK
  BY DEF TypeInv
<1> QED
  BY InitTypeInv, NextKeepsTypes, <1>1, PTL DEF Spec

-----------------------------------------------------------------------------
(* The ledger.  The argument is the row lock: an UPDATE of a wallet leaves *)
(* a draft only under a lock that excludes any other UPDATE (LocksExclude, *)
(* WritesAreLocked), so the ledger a session would commit continues the    *)
(* one that is committed now, and not one that was when it started         *)
(* (Sound, for what each session sees).                                    *)

Exclusive == {"noKeyUpdate", "forUpdate"}

LocksExclude ==
  \A s, t \in Sessions, w \in Wallets :
    s # t /\ locks[s][w] \in Exclusive => locks[t][w] \notin Exclusive

EarlyHoldsNothing ==
  \A s \in Sessions, w \in Wallets : pc[s] \in Early => locks[s][w] = "none"

WritesAreLocked ==
  \A s \in Sessions, w \in Wallets :
    walletDraft[s][w] # None \/ entryDraft[s][w] # << >>
      => locks[s][w] \in Exclusive

Sound(l, balance) == Reconstructs(l, balance) /\ balance >= 0

CommittedSound == \A w \in Wallets : Sound(ledger[w], wallets[w].balance)

SeenSound ==
  \A s \in Sessions, w \in Wallets :
    Sound(ledger[w] \o entryDraft[s][w], WalletSeen(s, w).balance)

LedgerInv ==
  /\ LocksExclude /\ EarlyHoldsNothing /\ WritesAreLocked
  /\ CommittedSound /\ SeenSound

(* An entry that starts at the balance continues the chain. *)
LEMMA AppendReconstructs ==
  ASSUME NEW l \in Seq(Entry), NEW b \in Int, Reconstructs(l, b),
         NEW e \in Entry, e.before = b, IsBalanced(e)
  PROVE  Reconstructs(Append(l, e), e.after)
<1> DEFINE m == Append(l, e)
<1>1. /\ Len(m) = Len(l) + 1 /\ Len(l) \in Nat
      /\ m[Len(m)] = e
      /\ \A i \in 1..Len(l) : m[i] = l[i]
  OBVIOUS
<1> HIDE DEF m
<1>2. \A i \in 1..Len(m) : IsBalanced(m[i])
  BY <1>1 DEF Reconstructs
<1>3. ASSUME NEW i \in 1..Len(m)
      PROVE  m[i].before = IF i = 1 THEN 0 ELSE m[i - 1].after
  <2>1. CASE i \in 1..Len(l)
    <3>1. i # 1 => i - 1 \in 1..Len(l)
      BY <2>1, <1>1
    <3> QED
      BY <2>1, <3>1, <1>1 DEF Reconstructs
  <2>2. CASE i = Len(l) + 1
    <3>1. Len(l) # 0 => i - 1 \in 1..Len(l) /\ i - 1 = Len(l)
      BY <2>2, <1>1
    <3> QED
      BY <2>2, <3>1, <1>1 DEF Reconstructs
  <2> QED
    BY <2>1, <2>2, <1>1
<1> QED
  BY <1>1, <1>2, <1>3 DEF Reconstructs, m

(* An entry appended to the drafts is appended to what the session sees. *)
LEMMA AppendAssociates ==
  ASSUME NEW l \in Seq(Entry), NEW m \in Seq(Entry), NEW e \in Entry
  PROVE  l \o Append(m, e) = Append(l \o m, e)
OBVIOUS

(* Where one session may write a wallet, no other has. *)
LEMMA DraftOfNobodyElse ==
  ASSUME TypeOK, LedgerInv, NEW s \in Sessions, NEW t \in Sessions, s # t,
         NEW w \in Wallets, locks[s][w] \in Exclusive
  PROVE  /\ walletDraft[t][w] = None /\ entryDraft[t][w] = << >>
         /\ WalletSeen(t, w) = wallets[w]
BY DEF LedgerInv, LocksExclude, WritesAreLocked, WalletSeen

(* At the start the ledger of a wallet is its opening entry. *)
LEMMA InitLedgerInv == Init => LedgerInv
<1> SUFFICES ASSUME Init PROVE LedgerInv
  OBVIOUS
<1>1. LocksExclude /\ EarlyHoldsNothing /\ WritesAreLocked
  BY DEF Init, LocksExclude, EarlyHoldsNothing, WritesAreLocked, Exclusive, NoLocks, NoWallets, NoneOf
<1>2. ASSUME NEW w \in Wallets
      PROVE  Sound(OpeningLedger(w), Opening[w]) /\ OpeningLedger(w) \in Seq(Entry)
  <2>1. Opening[w] \in Nat
    BY WalletsAssumption
  <2>2. CASE Opening[w] = 0
    <3>1. OpeningLedger(w) = << >>
      BY <2>2 DEF OpeningLedger
    <3> QED
      BY <2>1, <2>2, <3>1 DEF Sound, Reconstructs
  <2>3. CASE Opening[w] # 0
    <3> DEFINE e == [tx |-> "opening", direction |-> "CREDIT",
                     amount |-> Opening[w], before |-> 0, after |-> Opening[w]]
    <3>1. e \in Entry /\ e.before = 0 /\ e.after = Opening[w] /\ IsBalanced(e)
      BY <2>1 DEF Entry, IsBalanced
    <3>2. OpeningLedger(w) = << e >>
      BY <2>3 DEF OpeningLedger
    <3> HIDE DEF e
    <3>3. << e >> \in Seq(Entry) /\ Len(<< e >>) = 1 /\ << e >>[1] = e
      BY <3>1
    <3> QED
      BY <2>1, <3>1, <3>2, <3>3 DEF Sound, Reconstructs
  <2> QED
    BY <2>2, <2>3
<1>3. CommittedSound
  BY <1>2, WalletsAssumption DEF Init, CommittedSound
<1>4. SeenSound
  <2> SUFFICES ASSUME NEW s \in Sessions, NEW w \in Wallets
               PROVE  Sound(ledger[w] \o entryDraft[s][w], WalletSeen(s, w).balance)
    BY DEF SeenSound
  <2>1. /\ entryDraft[s][w] = << >> /\ WalletSeen(s, w).balance = Opening[w]
        /\ ledger[w] = OpeningLedger(w)
    BY DEF Init, NoneOf, NoWallets, WalletSeen
  <2>2. ledger[w] \o entryDraft[s][w] = OpeningLedger(w)
    BY <2>1, <1>2
  <2> QED
    BY <2>1, <2>2, <1>2
<1> QED
  BY <1>1, <1>3, <1>4 DEF LedgerInv

(* A statement that writes no wallet and takes no lock. *)
LEMMA QuietKeepsLedger ==
  ASSUME TypeInv, LedgerInv,
         UNCHANGED <<wallets, ledger, walletDraft, entryDraft, locks>>,
         \A s \in Sessions : pc'[s] \in Early => pc[s] \in Early
  PROVE  LedgerInv'
BY DEF LedgerInv, LocksExclude, EarlyHoldsNothing, WritesAreLocked,
       CommittedSound, SeenSound, WalletSeen

(* The end of a transaction without a commit. *)
LEMMA EndKeepsLedger ==
  ASSUME TypeInv, LedgerInv, NEW s \in Sessions, EndTransaction(s),
         UNCHANGED committed
  PROVE  LedgerInv'
<1>1. /\ wallets' = wallets /\ ledger' = ledger
      /\ walletDraft' = [walletDraft EXCEPT ![s] = NoWallets]
      /\ entryDraft' = [entryDraft EXCEPT ![s] = NoneOf]
      /\ locks' = [locks EXCEPT ![s] = NoLocks]
      /\ pc' = [pc EXCEPT ![s] = "idle"]
  BY DEF EndTransaction, committed
<1>2. LocksExclude' /\ EarlyHoldsNothing' /\ WritesAreLocked'
  BY <1>1 DEF TypeInv, TypeOK, LedgerInv, LocksExclude, EarlyHoldsNothing,
              WritesAreLocked, Exclusive, NoLocks, NoWallets, NoneOf
<1>3. CommittedSound'
  BY <1>1 DEF LedgerInv, CommittedSound
<1>4. SeenSound'
  <2> SUFFICES ASSUME NEW t \in Sessions, NEW w \in Wallets
               PROVE  Sound(ledger'[w] \o entryDraft'[t][w], WalletSeen(t, w)'.balance)
    BY DEF SeenSound
  <2>1. CASE t = s
    <3>1. entryDraft'[t][w] = << >> /\ WalletSeen(t, w)' = wallets[w]
      BY <1>1, <2>1 DEF TypeInv, TypeOK, NoWallets, NoneOf, WalletSeen
    <3>2. ledger'[w] \o entryDraft'[t][w] = ledger[w]
      BY <1>1, <3>1 DEF TypeInv, TypeOK
    <3> QED
      BY <3>1, <3>2 DEF LedgerInv, CommittedSound
  <2>2. CASE t # s
    BY <1>1, <2>2 DEF TypeInv, TypeOK, LedgerInv, SeenSound, WalletSeen
  <2> QED
    BY <2>1, <2>2
<1> QED
  BY <1>2, <1>3, <1>4 DEF LedgerInv

(* A lock that conflicts with every other exclusive lock. *)
LEMMA NobodyElseExclusive ==
  ASSUME TypeOK, NEW s \in Sessions, NEW w \in Wallets, NEW mode \in Exclusive,
         Blockers(s, w, mode) = {}, NEW t \in Sessions, t # s
  PROVE  locks[t][w] \notin Exclusive
<1>1. mode \notin ConflictsWith[locks[t][w]]
  BY DEF Blockers
<1> QED
  BY <1>1 DEF ConflictsWith, Exclusive, TypeOK, LockModes

(* A session takes a lock on w, and writes nothing yet. *)
LEMMA LockKeepsLedger ==
  ASSUME TypeInv, LedgerInv, NEW s \in Sessions, NEW w \in Wallets,
         NEW mode \in {"keyShare", "noKeyUpdate", "forUpdate"},
         locks' = [locks EXCEPT ![s][w] = mode],
         locks[s][w] \in Exclusive => mode \in Exclusive,
         mode \in Exclusive => \A t \in Sessions : t # s => locks[t][w] \notin Exclusive,
         pc'[s] \notin Early, \A t \in Sessions : t # s => pc'[t] = pc[t],
         UNCHANGED <<wallets, ledger, walletDraft, entryDraft>>
  PROVE  LedgerInv'
<1>1. LocksExclude'
  BY DEF TypeInv, TypeOK, LedgerInv, LocksExclude
<1>2. /\ \A t \in Sessions, v \in Wallets : t # s \/ v # w => locks'[t][v] = locks[t][v]
      /\ locks'[s][w] = mode
  BY DEF TypeInv, TypeOK
<1>3. EarlyHoldsNothing'
  BY <1>2 DEF LedgerInv, EarlyHoldsNothing
<1>4. WritesAreLocked'
  BY <1>2 DEF LedgerInv, WritesAreLocked
<1>5. CommittedSound' /\ SeenSound'
  <2>1. \A t, v : WalletSeen(t, v)' = WalletSeen(t, v)
    BY DEF WalletSeen
  <2> QED
    BY <2>1 DEF LedgerInv, CommittedSound, SeenSound
<1> QED
  BY <1>1, <1>3, <1>4, <1>5 DEF LedgerInv

(* An entry posted under the row lock continues the ledger the session     *)
(* sees, and the guard of the UPDATE keeps the balance from going below    *)
(* zero.                                                                   *)
LEMMA PostKeepsLedger ==
  ASSUME TypeInv, LedgerInv, NEW s \in Sessions, pc[s] \notin Early,
         NEW direction \in {"DEBIT", "CREDIT"}, Post(s, direction),
         direction = "DEBIT" => WalletSeen(s, job[s].wallet).balance >= Amount(s)
  PROVE  LedgerInv'
<1> DEFINE c == job[s]
           w == c.wallet
           seen == WalletSeen(s, w)
           after == IF direction = "DEBIT" THEN seen.balance - c.amount
                                           ELSE seen.balance + c.amount
           entry == [tx |-> c.key, direction |-> direction, amount |-> c.amount,
                     before |-> BalanceBefore(direction, after, c.amount),
                     after |-> after]
           row == [balance |-> after, version |-> seen.version + 1]
<1>1. c.key \in Keys /\ w \in Wallets /\ c.amount \in Nat
  BY SettledRowType
<1>2. seen \in WalletRow
  BY <1>1, WalletSeenType DEF TypeInv
<1>3. after \in Int /\ entry \in Entry /\ entry.before = seen.balance
      /\ entry.after = after /\ IsBalanced(entry)
  BY <1>1, <1>2 DEF WalletRow, Entry, IsBalanced, BalanceBefore
<1>4. after >= 0
  <2>1. seen.balance \in Int /\ seen.balance >= 0
    BY <1>1, <1>2 DEF LedgerInv, SeenSound, Sound, WalletRow
  <2> QED
    BY <1>1, <2>1 DEF Amount
<1>5. row \in WalletRow
  BY <1>2, <1>3 DEF WalletRow
<1>6. /\ walletDraft' = [walletDraft EXCEPT ![s][w] = row]
      /\ entryDraft' = [entryDraft EXCEPT ![s][w] = Append(@, entry)]
      /\ Blockers(s, w, "noKeyUpdate") = {}
      /\ wallets' = wallets /\ ledger' = ledger
      /\ locks' = [locks EXCEPT ![s][w] = IF @ = "forUpdate" THEN @ ELSE "noKeyUpdate"]
  BY DEF Post, UpdateMode, committed
<1>7. pc' = [pc EXCEPT ![s] = "commit"] \/ pc' = [pc EXCEPT ![s] = "lockWallet"]
  BY DEF Post, UpdateMode, NextRow, Goto
<1>8. /\ seen.balance \in Int
      /\ ledger[w] \in Seq(Entry) /\ entryDraft[s][w] \in Seq(Entry)
      /\ ledger[w] \o entryDraft[s][w] \in Seq(Entry)
      /\ Reconstructs(ledger[w] \o entryDraft[s][w], seen.balance)
  BY <1>1, <1>2 DEF TypeInv, TypeOK, LedgerInv, SeenSound, Sound, WalletRow
<1> HIDE DEF entry, row, after, seen, w
<1>9. /\ walletDraft'[s][w] = row /\ row.balance = after /\ row # None
      /\ entryDraft'[s][w] = Append(entryDraft[s][w], entry)
      /\ locks'[s][w] \in Exclusive
  BY <1>1, <1>5, <1>6, NoneAssumption DEF TypeInv, TypeOK, Exclusive, row
<1>10. \A t \in Sessions, v \in Wallets : t # s \/ v # w =>
         /\ walletDraft'[t][v] = walletDraft[t][v]
         /\ entryDraft'[t][v] = entryDraft[t][v]
         /\ locks'[t][v] = locks[t][v]
  BY <1>1, <1>6 DEF TypeInv, TypeOK
<1>11. \A t \in Sessions : t # s => locks[t][w] \notin Exclusive
  BY <1>1, <1>6, NobodyElseExclusive DEF TypeInv, Exclusive
<1>12. LocksExclude' /\ WritesAreLocked'
  BY <1>1, <1>9, <1>10, <1>11 DEF LedgerInv, LocksExclude, WritesAreLocked
<1>13. EarlyHoldsNothing'
  <2>1. pc'[s] \notin Early /\ \A t \in Sessions : t # s => pc'[t] = pc[t]
    BY <1>7 DEF TypeInv, TypeOK, Early
  <2> QED
    BY <1>10, <2>1 DEF LedgerInv, EarlyHoldsNothing
<1>14. CommittedSound'
  BY <1>6 DEF LedgerInv, CommittedSound
<1>15. SeenSound'
  <2> SUFFICES ASSUME NEW t \in Sessions, NEW v \in Wallets
               PROVE  Sound(ledger'[v] \o entryDraft'[t][v], WalletSeen(t, v)'.balance)
    BY DEF SeenSound
  <2>1. CASE t # s \/ v # w
    BY <1>6, <1>10, <2>1 DEF LedgerInv, SeenSound, WalletSeen
  <2>2. CASE t = s /\ v = w
    <3>1. ledger'[v] \o entryDraft'[t][v] = Append(ledger[w] \o entryDraft[s][w], entry)
      <4>1. ledger[w] \o Append(entryDraft[s][w], entry)
              = Append(ledger[w] \o entryDraft[s][w], entry)
        BY <1>3, <1>8, AppendAssociates
      <4>2. ledger'[v] = ledger[w] /\ entryDraft'[t][v] = Append(entryDraft[s][w], entry)
        BY <2>2, <1>6, <1>9
      <4> QED
        BY <4>1, <4>2
    <3>2. WalletSeen(t, v)'.balance = after
      BY <2>2, <1>9 DEF WalletSeen
    <3>3. Reconstructs(Append(ledger[w] \o entryDraft[s][w], entry), after)
      BY <1>3, <1>8, AppendReconstructs
    <3> QED
      BY <2>2, <3>1, <3>2, <3>3, <1>4 DEF Sound
  <2> QED
    BY <2>1, <2>2
<1> QED
  BY <1>12, <1>13, <1>14, <1>15 DEF LedgerInv

(* COMMIT makes what the session saw the committed state.  Where it wrote, *)
(* nobody else has a draft; where it did not, nothing changes.             *)
LEMMA CommitKeepsLedger ==
  ASSUME TypeInv, LedgerInv, NEW s \in Sessions, Commit(s)
  PROVE  LedgerInv'
<1>1. /\ wallets' = [w \in Wallets |-> WalletSeen(s, w)]
      /\ ledger' = [w \in Wallets |-> ledger[w] \o entryDraft[s][w]]
      /\ walletDraft' = [walletDraft EXCEPT ![s] = NoWallets]
      /\ entryDraft' = [entryDraft EXCEPT ![s] = NoneOf]
      /\ locks' = [locks EXCEPT ![s] = NoLocks]
      /\ pc' = [pc EXCEPT ![s] = "idle"]
  BY DEF Commit, EndTransaction
<1>2. LocksExclude' /\ EarlyHoldsNothing' /\ WritesAreLocked'
  BY <1>1 DEF TypeInv, TypeOK, LedgerInv, LocksExclude, EarlyHoldsNothing,
              WritesAreLocked, Exclusive, NoLocks, NoWallets, NoneOf
<1>3. ASSUME NEW w \in Wallets
      PROVE  Sound(ledger'[w], wallets'[w].balance) /\ ledger'[w] \in Seq(Entry)
  BY <1>1 DEF TypeInv, TypeOK, LedgerInv, SeenSound
<1>4. CommittedSound'
  BY <1>3 DEF CommittedSound
<1>5. SeenSound'
  <2> SUFFICES ASSUME NEW t \in Sessions, NEW w \in Wallets
               PROVE  Sound(ledger'[w] \o entryDraft'[t][w], WalletSeen(t, w)'.balance)
    BY DEF SeenSound
  <2>1. CASE entryDraft'[t][w] = << >> /\ walletDraft'[t][w] = None
    <3>1. ledger'[w] \o entryDraft'[t][w] = ledger'[w] /\ WalletSeen(t, w)' = wallets'[w]
      BY <2>1, <1>3 DEF WalletSeen
    <3> QED
      BY <3>1, <1>3
  <2>2. CASE t = s
    BY <2>1, <2>2, <1>1 DEF TypeInv, TypeOK, NoWallets, NoneOf
  <2>3. CASE t # s /\ locks[s][w] \in Exclusive
    BY <2>1, <2>3, <1>1, DraftOfNobodyElse DEF TypeInv, TypeOK
  <2>4. CASE t # s /\ locks[s][w] \notin Exclusive
    <3>1. entryDraft[s][w] = << >> /\ walletDraft[s][w] = None
      BY <2>4 DEF LedgerInv, WritesAreLocked
    <3>2. ledger'[w] = ledger[w] /\ wallets'[w] = wallets[w]
      BY <3>1, <1>1 DEF WalletSeen, TypeInv, TypeOK
    <3>3. entryDraft'[t][w] = entryDraft[t][w] /\ walletDraft'[t][w] = walletDraft[t][w]
      BY <2>4, <1>1 DEF TypeInv, TypeOK
    <3>4. WalletSeen(t, w)' = WalletSeen(t, w)
      BY <3>2, <3>3 DEF WalletSeen
    <3> QED
      BY <3>2, <3>3, <3>4 DEF LedgerInv, SeenSound
  <2> QED
    BY <2>2, <2>3, <2>4
<1> QED
  BY <1>2, <1>4, <1>5 DEF LedgerInv

(* No step breaks the ledgers. *)
LEMMA NextKeepsLedger == TypeInv /\ LedgerInv /\ [Next]_vars => LedgerInv'
<1> SUFFICES ASSUME TypeInv, LedgerInv, [Next]_vars PROVE LedgerInv'
  OBVIOUS
<1>1. CASE UNCHANGED vars
  BY <1>1, QuietKeepsLedger DEF vars, committed, drafts
<1>2. ASSUME NEW s \in Sessions, NEW c \in Commands, Submit(s, c) PROVE LedgerInv'
  BY <1>2, QuietKeepsLedger DEF Submit, Goto, committed, drafts, TypeInv, TypeOK, Early
<1>3. ASSUME NEW s \in Sessions, ClaimDue(s) PROVE LedgerInv'
  BY <1>3, QuietKeepsLedger DEF ClaimDue, Goto, committed, drafts, TypeInv, TypeOK, Early
<1>4. ASSUME NEW s \in Sessions,
             \/ InsertRow(s) \/ InsertConflicts(s)
             \/ LoadWallet(s) \/ DebitRefused(s)
             \/ AcceptReference(s) \/ Reverse(s)
      PROVE  LedgerInv'
  <2>1. UNCHANGED <<wallets, ledger, walletDraft, entryDraft, locks>>
    BY <1>4 DEF InsertRow, InsertConflicts, LoadWallet, DebitRefused,
                AcceptReference, Reverse, committed, drafts
  <2>2. /\ \A t \in Sessions : t # s => pc'[t] = pc[t]
        /\ pc'[s] \in Early => pc[s] \in Early
    BY <1>4 DEF InsertRow, InsertConflicts, LoadWallet, DebitRefused,
                AcceptReference, Reverse, Goto, TypeInv, TypeOK, Early
  <2> QED
    BY <2>1, <2>2, QuietKeepsLedger
<1>5. ASSUME NEW s \in Sessions,
             \/ LoadForeignWallet(s) \/ SettleWithoutEntry(s) \/ Observe(s)
             \/ AwaitReference(s) \/ RetryLater(s) \/ GiveUp(s)
             \/ RefuseReference(s) \/ RefuseSecondReversal(s)
      PROVE  LedgerInv'
  <2>1. NextRow(s) /\ NoBalanceChange
    BY <1>5 DEF LoadForeignWallet, SettleWithoutEntry, Observe, AwaitReference,
                RetryLater, GiveUp, RefuseReference, RefuseSecondReversal, Reject
  <2>2. /\ \A t \in Sessions : t # s => pc'[t] = pc[t]
        /\ pc'[s] \notin Early
    BY <2>1 DEF NextRow, Goto, TypeInv, TypeOK, Early
  <2> QED
    BY <2>1, <2>2, QuietKeepsLedger DEF NoBalanceChange, committed
<1>6. ASSUME NEW s \in Sessions, CheckWalletKey(s) PROVE LedgerInv'
  <2>1. locks[s][job[s].wallet] = "none"
    BY <1>6 DEF CheckWalletKey, LedgerInv, EarlyHoldsNothing, Early
  <2>2. /\ job[s].wallet \in Wallets
        /\ locks' = [locks EXCEPT ![s][job[s].wallet] = "keyShare"]
        /\ pc' = [pc EXCEPT ![s] = "load"]
        /\ UNCHANGED <<wallets, ledger, walletDraft, entryDraft>>
    BY <1>6 DEF CheckWalletKey, Goto, committed, drafts
  <2>3. pc'[s] \notin Early /\ \A t \in Sessions : t # s => pc'[t] = pc[t]
    BY <2>2 DEF TypeInv, TypeOK, Early
  <2> QED
    BY <2>1, <2>2, <2>3, LockKeepsLedger DEF Exclusive
<1>7. ASSUME NEW s \in Sessions, LockWallet(s) PROVE LedgerInv'
  <2>1. job[s].wallet \in Wallets
    BY <1>7, SettledRowType DEF LockWallet, Early
  <2>2. /\ locks' = [locks EXCEPT ![s][job[s].wallet] = "forUpdate"]
        /\ pc' = [pc EXCEPT ![s] = "reference"]
        /\ UNCHANGED <<wallets, ledger, walletDraft, entryDraft>>
        /\ Blockers(s, job[s].wallet, "forUpdate") = {}
    BY <1>7 DEF LockWallet, Goto, committed, drafts
  <2>3. pc'[s] \notin Early /\ \A t \in Sessions : t # s => pc'[t] = pc[t]
    BY <2>2 DEF TypeInv, TypeOK, Early
  <2>4. \A t \in Sessions : t # s => locks[t][job[s].wallet] \notin Exclusive
    BY <2>1, <2>2, NobodyElseExclusive DEF TypeInv, Exclusive
  <2> QED
    BY <2>1, <2>2, <2>3, <2>4, LockKeepsLedger DEF Exclusive
<1>8. ASSUME NEW s \in Sessions, Debit(s) \/ Credit(s) PROVE LedgerInv'
  BY <1>8, PostKeepsLedger DEF Debit, Credit, Early
<1>9. ASSUME NEW s \in Sessions,
             \/ InsertFails(s) \/ Replay(s) \/ WalletKeyFails(s)
             \/ CommitFails(s) \/ AbortDeadlock(s) \/ Crash(s)
      PROVE  LedgerInv'
  <2>1. EndTransaction(s) /\ UNCHANGED committed
    BY <1>9 DEF InsertFails, Replay, WalletKeyFails, CommitFails, AbortDeadlock, Crash, RollBack, committed
  <2> QED
    BY <2>1, EndKeepsLedger
<1> QED
  BY <1>1, <1>2, <1>3, <1>4, <1>5, <1>6, <1>7, <1>8, <1>9, CommitKeepsLedger
     DEF Next, Start, Statement, ClientStep, ReversalStep, BalanceStep

(* In every reachable state the committed entries of a wallet chain from   *)
(* zero to its balance (README.md:715), however the debits and credits of  *)
(* any number of sessions interleave, retry and crash.                     *)
THEOREM LedgerCorrect == Spec => []LedgerReconstructsBalance
<1>1. LedgerInv => LedgerReconstructsBalance
  BY DEF LedgerInv, CommittedSound, Sound, LedgerReconstructsBalance
<1> QED
  BY InitTypeInv, NextKeepsTypes, InitLedgerInv, NextKeepsLedger, <1>1, PTL DEF Spec

(* No wallet is ever below zero: the condition of the UPDATE is evaluated  *)
(* on the balance it changes.                                              *)
THEOREM NeverNegative == Spec => []BalanceNotNegative
<1>1. LedgerInv => BalanceNotNegative
  BY DEF LedgerInv, CommittedSound, Sound, BalanceNotNegative
<1> QED
  BY InitTypeInv, NextKeepsTypes, InitLedgerInv, NextKeepsLedger, <1>1, PTL DEF Spec

-----------------------------------------------------------------------------
(* Who may write a row of wager_transactions                               *)
(*                                                                         *)
(* A row is written either by the one client session that inserted its     *)
(* key, while no such row is committed, or by the one worker session that  *)
(* has claimed it, while it is PENDING_REFERENCE.  No two sessions ever    *)
(* write the same row (ClientOwns, WorkerOwns, Apart), so a commit never   *)
(* touches a row that is settled.                                          *)

(* Nothing is written yet. *)
Unwritten == {"idle", "insert", "replay"}

(* The row of the job has an outcome to come. *)
Settling(s) == pc[s] \notin Unwritten \cup {"commit"}

Drafted(s, k) == rowDraft[s][k] # None

ClientOwns(s) ==
  /\ queue[s] = << >>
  /\ pc[s] = "replay" => wagers[job[s].key] # None
  /\ pc[s] \notin Unwritten => Drafted(s, job[s].key)
  /\ \A k \in Keys : Drafted(s, k) =>
       /\ pc[s] \notin Unwritten /\ k = job[s].key
       /\ rowDraft[s][k].cmd = job[s] /\ wagers[k] = None
       /\ rowDraft[s][k].status = "PENDING" <=> pc[s] # "commit"

WorkerOwns(s) ==
  /\ pc[s] \notin {"insert", "replay", "walletKey", "load"}
  /\ \A k \in Claimed(s) : Due(k)
  /\ pc[s] # "idle" => job[s] = wagers[job[s].key].cmd
  /\ Settling(s) => ~Drafted(s, job[s].key)
  /\ \A k \in Keys : Drafted(s, k) =>
       /\ pc[s] # "idle"
       /\ rowDraft[s][k].cmd = wagers[k].cmd
       /\ rowDraft[s][k].status # "PENDING"
  /\ \A i \in 1..Len(queue[s]) :
       /\ ~Drafted(s, queue[s][i]) /\ queue[s][i] # job[s].key
       /\ \A j \in 1..Len(queue[s]) : queue[s][i] = queue[s][j] => i = j

Apart ==
  /\ \A s, t \in Clients, k \in Keys : s # t /\ Drafted(s, k) => ~Drafted(t, k)
  /\ \A s, t \in Workers : s # t => Claimed(s) \cap Claimed(t) = {}

OwnInv ==
  /\ \A s \in Clients : ClientOwns(s)
  /\ \A s \in Workers : WorkerOwns(s)
  /\ Apart

(* No session has written or claimed anything. *)
LEMMA InitOwnInv == Init => OwnInv
<1> SUFFICES ASSUME Init PROVE OwnInv
  OBVIOUS
<1>1. /\ \A s \in Sessions : pc[s] = "idle" /\ queue[s] = << >>
      /\ \A s \in Sessions, k \in Keys : ~Drafted(s, k)
  BY DEF Init, NoRows, Drafted
<1>2. \A s \in Workers : Claimed(s) = {}
  BY <1>1 DEF Claimed, Sessions
<1>3. \A s \in Clients : ClientOwns(s)
  BY <1>1 DEF ClientOwns, Sessions, Unwritten
<1>4. \A s \in Workers : WorkerOwns(s)
  BY <1>1, <1>2 DEF WorkerOwns, Sessions, Settling, Unwritten
<1> QED
  BY <1>1, <1>2, <1>3, <1>4 DEF OwnInv, Apart, Sessions

(* What a worker has claimed includes what it has written, what it works   *)
(* on and what it has still to work on.                                    *)
LEMMA ClaimedIncludes ==
  ASSUME TypeInv, OwnInv, NEW s \in Workers
  PROVE  /\ \A k \in Keys : Drafted(s, k) => k \in Claimed(s)
         /\ pc[s] # "idle" => job[s].key \in Claimed(s)
         /\ pc[s] # "idle" => \A i \in 1..Len(queue[s]) : queue[s][i] \in Claimed(s)
<1>1. queue[s] \in Seq(Keys)
  BY DEF TypeInv, TypeOK, Sessions
<1>2. DOMAIN queue[s] = 1..Len(queue[s])
  BY <1>1
<1> QED
  BY <1>2 DEF Claimed, OwnInv, WorkerOwns, Drafted

(* No other session has written a row that t has written or claimed. *)
LEMMA NobodyElseWrites ==
  ASSUME TypeInv, OwnInv, NEW s \in Sessions, NEW t \in Sessions, s # t,
         NEW k \in Keys, Drafted(t, k) \/ k \in Claimed(t)
  PROVE  ~Drafted(s, k)
<1>1. CASE t \in Workers
  <2>1. k \in Claimed(t) /\ wagers[k] # None
    BY <1>1, ClaimedIncludes DEF OwnInv, WorkerOwns, Due
  <2>2. CASE s \in Workers
    BY <1>1, <2>1, <2>2, ClaimedIncludes DEF OwnInv, Apart
  <2>3. CASE s \in Clients
    BY <2>1, <2>3 DEF OwnInv, ClientOwns
  <2> QED
    BY <2>2, <2>3 DEF Sessions
<1>2. CASE t \in Clients
  <2>1. Drafted(t, k) /\ wagers[k] = None
    BY <1>2, SessionsAssumption DEF Claimed, OwnInv, ClientOwns
  <2>2. CASE s \in Workers
    BY <2>1, <2>2, ClaimedIncludes DEF OwnInv, WorkerOwns, Due
  <2>3. CASE s \in Clients
    BY <1>2, <2>1, <2>3 DEF OwnInv, Apart
  <2> QED
    BY <2>2, <2>3 DEF Sessions
<1> QED
  BY <1>1, <1>2 DEF Sessions

(* The step is none of t's. *)
Bystander(t) ==
  /\ pc'[t] = pc[t] /\ job'[t] = job[t] /\ queue'[t] = queue[t]
  /\ rowDraft'[t] = rowDraft[t]

(* What a bystander owns is left as it was, if its rows are. *)
LEMMA BystanderOwns ==
  ASSUME TypeInv, OwnInv, NEW t \in Sessions, Bystander(t),
         \A k \in Keys : Drafted(t, k) \/ k \in Claimed(t) => wagers'[k] = wagers[k],
         \A k \in Keys : wagers[k] # None => wagers'[k] # None
  PROVE  /\ t \in Clients => ClientOwns(t)'
         /\ t \in Workers => WorkerOwns(t)'
<1>1. /\ Claimed(t)' = Claimed(t)
      /\ \A k : Drafted(t, k)' <=> Drafted(t, k)
      /\ Settling(t)' <=> Settling(t)
  BY DEF Bystander, Claimed, Drafted, Settling
<1>2. pc[t] # "idle" => job[t].key \in Keys
  BY CommandKey DEF TypeInv, Control
<1>3. ASSUME t \in Clients PROVE ClientOwns(t)'
  BY <1>1, <1>2, <1>3 DEF OwnInv, ClientOwns, Bystander, Drafted, Unwritten
<1>4. ASSUME t \in Workers PROVE WorkerOwns(t)'
  <2>1. \A k \in Claimed(t) : k \in Keys /\ Due(k)
    <3>1. queue[t] \in Seq(Keys) /\ DOMAIN queue[t] = 1..Len(queue[t])
      BY DEF TypeInv, TypeOK
    <3> QED
      BY <1>2, <1>4, <3>1 DEF Claimed, OwnInv, WorkerOwns
  <2>2. \A k \in Claimed(t)' : Due(k)'
    BY <1>1, <2>1 DEF Due
  <2>3. pc[t] # "idle" => job[t].key \in Claimed(t) /\ job[t] = wagers[job[t].key].cmd
    BY <1>4, ClaimedIncludes DEF OwnInv, WorkerOwns
  <2>4. pc'[t] # "idle" => job'[t] = wagers'[job'[t].key].cmd
    BY <1>2, <2>3 DEF Bystander
  <2> QED
    BY <1>1, <1>4, <2>2, <2>4 DEF OwnInv, WorkerOwns, Bystander, Drafted
<1> QED
  BY <1>3, <1>4

(* One session's step: what the others own is not touched, and what it     *)
(* writes or claims nobody else has.                                       *)
LEMMA StepKeepsOwn ==
  ASSUME TypeInv, OwnInv, NEW s \in Sessions,
         \A t \in Sessions : t # s => Bystander(t),
         \A k \in Keys : wagers[k] # None => wagers'[k] # None,
         \A t \in Sessions, k \in Keys :
           t # s /\ (Drafted(t, k) \/ k \in Claimed(t)) => wagers'[k] = wagers[k],
         s \in Clients => ClientOwns(s)',
         s \in Workers => WorkerOwns(s)',
         s \in Clients => \A t \in Clients, k \in Keys :
                            t # s /\ Drafted(s, k)' => ~Drafted(t, k),
         s \in Workers => \A t \in Workers : t # s => Claimed(s)' \cap Claimed(t) = {}
  PROVE  OwnInv'
<1>1. ASSUME NEW t \in Sessions, t # s
      PROVE  /\ Claimed(t)' = Claimed(t)
             /\ \A k \in Keys : Drafted(t, k)' <=> Drafted(t, k)
  <2>1. Bystander(t)
    BY <1>1
  <2> QED
    BY <2>1 DEF Bystander, Claimed, Drafted
<1>2. ASSUME NEW t \in Clients PROVE ClientOwns(t)'
  <2>1. CASE t = s
    BY <2>1 DEF ClientOwns, Drafted
  <2>2. CASE t # s
    <3>1. Bystander(t) /\ t \in Sessions
      BY <2>2 DEF Sessions
    <3> QED
      BY <2>2, <3>1, BystanderOwns DEF ClientOwns, Drafted
  <2> QED
    BY <2>1, <2>2
<1>3. ASSUME NEW t \in Workers PROVE WorkerOwns(t)'
  <2>1. CASE t = s
    BY <2>1 DEF WorkerOwns, Drafted, Settling, Claimed, Due
  <2>2. CASE t # s
    <3>1. Bystander(t) /\ t \in Sessions
      BY <2>2 DEF Sessions
    <3> QED
      BY <2>2, <3>1, BystanderOwns DEF WorkerOwns, Drafted, Settling, Claimed, Due
  <2> QED
    BY <2>1, <2>2
<1>4. Apart'
  <2>1. ASSUME NEW t \in Clients, NEW u \in Clients, NEW k \in Keys, t # u, Drafted(t, k)'
        PROVE  ~Drafted(u, k)'
    <3>1. CASE t = s
      BY <1>1, <2>1, <3>1 DEF Sessions, Drafted
    <3>2. CASE u = s
      BY <1>1, <2>1, <3>2 DEF Sessions, Drafted
    <3>3. CASE t # s /\ u # s
      BY <1>1, <2>1, <3>3 DEF OwnInv, Apart, Sessions, Drafted
    <3> QED
      BY <3>1, <3>2, <3>3
  <2>2. ASSUME NEW t \in Workers, NEW u \in Workers, t # u
        PROVE  Claimed(t)' \cap Claimed(u)' = {}
    <3>1. CASE t = s
      BY <1>1, <2>2, <3>1 DEF Sessions
    <3>2. CASE u = s
      BY <1>1, <2>2, <3>2 DEF Sessions
    <3>3. CASE t # s /\ u # s
      BY <1>1, <2>2, <3>3 DEF OwnInv, Apart, Sessions
    <3> QED
      BY <3>1, <3>2, <3>3
  <2> QED
    BY <2>1, <2>2 DEF Apart
<1> QED
  BY <1>2, <1>3, <1>4 DEF OwnInv

(* A statement that writes no row. *)
LEMMA MoveKeepsOwn ==
  ASSUME TypeInv, OwnInv, NEW s \in Sessions, Settling(s), Settling(s)',
         pc'[s] \notin {"walletKey", "load"} \/ s \in Clients,
         \A t \in Sessions : t # s => pc'[t] = pc[t],
         UNCHANGED <<wagers, job, queue, rowDraft>>
  PROVE  OwnInv'
<1>1. \A t \in Sessions : t # s => Bystander(t)
  BY DEF Bystander
<1>2. Claimed(s)' = Claimed(s)
  BY DEF Claimed, Settling, Unwritten
<1>3. \A k \in Keys : Drafted(s, k)' <=> Drafted(s, k)
  BY DEF Drafted
<1>4. s \in Clients => ClientOwns(s)'
  BY DEF OwnInv, ClientOwns, Settling, Unwritten, Drafted
<1>5. s \in Workers => WorkerOwns(s)'
  <2> SUFFICES ASSUME s \in Workers PROVE WorkerOwns(s)'
    OBVIOUS
  <2>1. \A k \in Claimed(s)' : Due(k)'
    BY <1>2 DEF OwnInv, WorkerOwns, Due
  <2> QED
    BY <2>1, SessionsAssumption DEF OwnInv, WorkerOwns, Settling, Unwritten, Drafted
<1>6. s \in Clients => \A t \in Clients, k \in Keys :
                         t # s /\ Drafted(s, k)' => ~Drafted(t, k)
  BY <1>3 DEF OwnInv, Apart
<1>7. s \in Workers => \A t \in Workers : t # s => Claimed(s)' \cap Claimed(t) = {}
  BY <1>2 DEF OwnInv, Apart
<1> QED
  BY <1>1, <1>4, <1>5, <1>6, <1>7, StepKeepsOwn

(* The transaction ends without a commit. *)
LEMMA EndKeepsOwn ==
  ASSUME TypeInv, OwnInv, NEW s \in Sessions, EndTransaction(s),
         \A k \in Keys : wagers[k] # None => wagers'[k] # None,
         \A t \in Sessions, k \in Keys :
           t # s /\ (Drafted(t, k) \/ k \in Claimed(t)) => wagers'[k] = wagers[k]
  PROVE  OwnInv'
<1>1. \A t \in Sessions : t # s => Bystander(t)
  BY DEF Bystander, EndTransaction, TypeInv, TypeOK
<1>2. /\ pc'[s] = "idle" /\ queue'[s] = << >>
      /\ \A k \in Keys : ~Drafted(s, k)'
  BY DEF EndTransaction, TypeInv, TypeOK, Drafted, NoRows
<1>3. Claimed(s)' = {}
  BY <1>2 DEF Claimed
<1>4. s \in Clients => ClientOwns(s)'
  BY <1>2 DEF ClientOwns, Unwritten, Drafted
<1>5. s \in Workers => WorkerOwns(s)'
  BY <1>2, <1>3 DEF WorkerOwns, Settling, Unwritten, Drafted
<1> QED
  BY <1>1, <1>2, <1>3, <1>4, <1>5, StepKeepsOwn

(* COMMIT writes rows of its own only. *)
LEMMA CommitKeepsOwn ==
  ASSUME TypeInv, OwnInv, NEW s \in Sessions, Commit(s)
  PROVE  OwnInv'
<1>1. EndTransaction(s) /\ wagers' = [k \in Keys |-> RowSeen(s, k)]
  BY DEF Commit
<1>2. \A k \in Keys : wagers[k] # None => wagers'[k] # None
  BY <1>1 DEF RowSeen
<1>3. \A t \in Sessions, k \in Keys :
        t # s /\ (Drafted(t, k) \/ k \in Claimed(t)) => wagers'[k] = wagers[k]
  BY <1>1, NobodyElseWrites DEF RowSeen, Drafted
<1> QED
  BY <1>1, <1>2, <1>3, EndKeepsOwn

(* A command is only taken up: nothing is written yet. *)
LEMMA SubmitKeepsOwn ==
  ASSUME TypeInv, OwnInv, NEW s \in Sessions, NEW c \in Commands, Submit(s, c)
  PROVE  OwnInv'
<1>1. /\ s \in Clients /\ pc[s] = "idle" /\ pc' = [pc EXCEPT ![s] = "insert"]
      /\ job' = [job EXCEPT ![s] = c]
      /\ UNCHANGED <<wagers, queue, rowDraft>>
  BY DEF Submit, Goto, committed, drafts
<1>2. \A t \in Sessions : t # s => Bystander(t)
  BY <1>1 DEF Bystander, TypeInv, TypeOK
<1>3. \A k \in Keys : ~Drafted(s, k)'
  BY <1>1 DEF OwnInv, ClientOwns, Drafted, Unwritten
<1>4. ClientOwns(s)'
  BY <1>1, <1>3 DEF OwnInv, ClientOwns, TypeInv, TypeOK, Unwritten, Drafted
<1> QED
  BY <1>1, <1>2, <1>3, <1>4, StepKeepsOwn, SessionsAssumption

(* The key is taken: the row that took it is committed. *)
LEMMA ConflictKeepsOwn ==
  ASSUME TypeInv, OwnInv, NEW s \in Sessions, InsertConflicts(s)
  PROVE  OwnInv'
<1>1. /\ pc[s] = "insert" /\ wagers[job[s].key] # None
      /\ pc' = [pc EXCEPT ![s] = "replay"]
      /\ UNCHANGED <<wagers, job, queue, rowDraft>>
  BY DEF InsertConflicts, Goto, committed, drafts
<1>2. s \in Clients
  BY <1>1 DEF OwnInv, WorkerOwns, Sessions
<1>3. \A t \in Sessions : t # s => Bystander(t)
  BY <1>1 DEF Bystander, TypeInv, TypeOK
<1>4. ClientOwns(s)' /\ \A k \in Keys : ~Drafted(s, k)'
  BY <1>1, <1>2 DEF OwnInv, ClientOwns, TypeInv, TypeOK, Unwritten, Drafted
<1> QED
  BY <1>1, <1>2, <1>3, <1>4, StepKeepsOwn, SessionsAssumption

(* An insert finds no row of its key, committed or in another transaction. *)
LEMMA InsertKeepsOwn ==
  ASSUME TypeInv, OwnInv, NEW s \in Sessions, InsertRow(s)
  PROVE  OwnInv'
<1> DEFINE k == job[s].key
<1>1. /\ pc[s] = "insert" /\ wagers[k] = None /\ InsertBlockers(s) = {}
      /\ pc' = [pc EXCEPT ![s] = "walletKey"]
      /\ rowDraft' = [rowDraft EXCEPT ![s][k] = NewRow(job[s])]
      /\ UNCHANGED <<wagers, job, queue>>
  BY DEF InsertRow, UpdateRow, Goto, committed
<1>2. s \in Clients /\ k \in Keys /\ job[s] \in Commands
  BY <1>1, CommandKey DEF OwnInv, WorkerOwns, Sessions, TypeInv, Control
<1>3. NewRow(job[s]) # None /\ NewRow(job[s]).cmd = job[s] /\ NewRow(job[s]).status = "PENDING"
  <2>1. NewRow(job[s]) \in Row
    BY <1>2 DEF NewRow, Row, Statuses
  <2> QED
    BY <2>1, NoneAssumption DEF NewRow
<1>4. \A t \in Sessions : t # s => Bystander(t)
  BY <1>1 DEF Bystander, TypeInv, TypeOK
<1>5. \A j \in Keys : ~Drafted(s, j)
  BY <1>1, <1>2 DEF OwnInv, ClientOwns, Unwritten
<1>6. /\ Drafted(s, k)' /\ rowDraft'[s][k] = NewRow(job[s])
      /\ \A j \in Keys : Drafted(s, j)' => j = k
  BY <1>1, <1>2, <1>3, <1>5 DEF Drafted, TypeInv, TypeOK
<1>7. ClientOwns(s)'
  BY <1>1, <1>2, <1>3, <1>6 DEF OwnInv, ClientOwns, TypeInv, TypeOK, Unwritten, Drafted
<1>8. \A t \in Clients, j \in Keys : t # s /\ Drafted(s, j)' => ~Drafted(t, j)
  BY <1>1, <1>2, <1>6 DEF InsertBlockers, Drafted, Sessions
<1> QED
  BY <1>1, <1>2, <1>4, <1>7, <1>8, StepKeepsOwn, SessionsAssumption

(* A worker claims rows that are pending and that nobody has claimed. *)
LEMMA ClaimKeepsOwn ==
  ASSUME TypeInv, OwnInv, NEW s \in Sessions, ClaimDue(s)
  PROVE  OwnInv'
<1>0. PICK n \in 1..BatchSize : \E due \in [1..n -> Keys] :
        /\ \A i \in 1..n : /\ Due(due[i])
                           /\ \A t \in Workers \ {s} : due[i] \notin Claimed(t)
                           /\ \A j \in 1..n : due[i] = due[j] => i = j
        /\ job' = [job EXCEPT ![s] = wagers[due[1]].cmd]
        /\ queue' = [queue EXCEPT ![s] = Tail(due)]
  BY DEF ClaimDue
<1>1. PICK due \in [1..n -> Keys] :
        /\ \A i \in 1..n : /\ Due(due[i])
                           /\ \A t \in Workers \ {s} : due[i] \notin Claimed(t)
                           /\ \A j \in 1..n : due[i] = due[j] => i = j
        /\ job' = [job EXCEPT ![s] = wagers[due[1]].cmd]
        /\ queue' = [queue EXCEPT ![s] = Tail(due)]
  BY <1>0
<1>2. n \in Nat /\ 1 \in 1..n /\ due \in Seq(Keys) /\ Len(due) = n
  BY LimitsAssumption
<1>3. /\ s \in Workers /\ s \notin Clients /\ pc[s] = "idle"
      /\ pc' = [pc EXCEPT ![s] = "lockWallet"]
      /\ UNCHANGED <<wagers, rowDraft>>
  BY SessionsAssumption DEF ClaimDue, Goto, committed, drafts
<1>4. /\ wagers[due[1]].cmd.key = due[1] /\ due[1] \in Keys
  BY <1>1, <1>2 DEF TypeInv, RowsKeyed, Due
<1>5. /\ pc'[s] = "lockWallet" /\ job'[s] = wagers[due[1]].cmd
      /\ job'[s].key = due[1] /\ queue'[s] = Tail(due)
  BY <1>1, <1>3, <1>4 DEF TypeInv, TypeOK
<1>6. /\ Len(Tail(due)) = n - 1 /\ Tail(due) \in Seq(Keys)
      /\ DOMAIN Tail(due) = 1..(n - 1)
      /\ \A i \in 1..(n - 1) : i + 1 \in 1..n /\ Tail(due)[i] = due[i + 1]
  BY <1>2
<1>7. \A k \in Keys : ~Drafted(s, k) /\ ~Drafted(s, k)'
  BY <1>3 DEF OwnInv, WorkerOwns, Drafted
<1>8. ASSUME NEW k \in Claimed(s)' PROVE \E i \in 1..n : k = due[i]
  BY <1>2, <1>5, <1>6, <1>7 DEF Claimed, Drafted
<1>9. WorkerOwns(s)'
  <2>1. \A k \in Claimed(s)' : Due(k)'
    BY <1>1, <1>3, <1>8 DEF Due
  <2>2. \A i \in 1..Len(queue'[s]) :
          /\ queue'[s][i] # job'[s].key
          /\ \A j \in 1..Len(queue'[s]) : queue'[s][i] = queue'[s][j] => i = j
    <3>1. ASSUME NEW i \in 1..(n - 1)
          PROVE  /\ due[i + 1] # due[1]
                 /\ \A j \in 1..(n - 1) : due[i + 1] = due[j + 1] => i = j
      <4>1. i + 1 \in 1..n /\ i + 1 # 1 /\ \A j \in 1..(n - 1) : j + 1 \in 1..n
        BY <1>2
      <4> QED
        BY <1>1, <1>2, <4>1
    <3> QED
      BY <3>1, <1>5, <1>6
  <2>3. \A i \in 1..Len(queue'[s]) : queue'[s][i] \in Keys
    BY <1>5, <1>6
  <2> QED
    BY <1>3, <1>4, <1>5, <1>7, <2>1, <2>2, <2>3 DEF WorkerOwns, Drafted
<1>10. \A t \in Workers : t # s => Claimed(s)' \cap Claimed(t) = {}
  BY <1>1, <1>8
<1>11. \A t \in Sessions : t # s => Bystander(t)
  BY <1>1, <1>3 DEF Bystander, TypeInv, TypeOK
<1> QED
  BY <1>3, <1>9, <1>10, <1>11, StepKeepsOwn

(* The row of the job is written with its outcome, and the next one begun. *)
SettlesWith(s, r) ==
  /\ Settling(s) /\ pc[s] # "walletKey"
  /\ r \in Row /\ r.cmd = JobRow(s).cmd /\ r.status # "PENDING"
  /\ UpdateRow(s, r) /\ NextRow(s) /\ UNCHANGED wagers

(* The worker goes on with the first row of its queue, if there is one. *)
LEMMA QueueMoves ==
  ASSUME TypeInv, OwnInv, NEW s \in Sessions, NEW r, SettlesWith(s, r)
  PROVE  /\ job[s].key \in Keys /\ r # None
         /\ rowDraft'[s][job[s].key] = r
         /\ \A k \in Keys \ {job[s].key} : rowDraft'[s][k] = rowDraft[s][k]
         /\ \A t \in Sessions : t # s => Bystander(t)
         /\ queue[s] = << >> => /\ pc'[s] = "commit" /\ job'[s] = job[s]
                                /\ queue'[s] = << >>
         /\ queue[s] # << >> =>
              /\ pc'[s] = "lockWallet"
              /\ job'[s] = wagers[queue[s][1]].cmd /\ job'[s].key = queue[s][1]
              /\ queue'[s] = Tail(queue[s])
              /\ 1 \in 1..Len(queue[s]) /\ queue[s][1] \in Keys
              /\ Len(queue'[s]) = Len(queue[s]) - 1
              /\ DOMAIN queue'[s] = 1..(Len(queue[s]) - 1)
              /\ \A i \in 1..(Len(queue[s]) - 1) :
                   i + 1 \in 1..Len(queue[s]) /\ queue'[s][i] = queue[s][i + 1]
<1>1. job[s] \in Commands /\ job[s].key \in Keys
  BY CommandKey DEF SettlesWith, Settling, Unwritten, TypeInv, Control
<1>2. r # None
  BY NoneAssumption DEF SettlesWith
<1>3. /\ rowDraft'[s][job[s].key] = r
      /\ \A k \in Keys \ {job[s].key} : rowDraft'[s][k] = rowDraft[s][k]
  BY <1>1 DEF SettlesWith, UpdateRow, TypeInv, TypeOK
<1>4. \A t \in Sessions : t # s => Bystander(t)
  BY DEF SettlesWith, UpdateRow, NextRow, Goto, Bystander, TypeInv, TypeOK
<1>5. queue[s] = << >> => pc'[s] = "commit" /\ job'[s] = job[s] /\ queue'[s] = << >>
  BY DEF SettlesWith, NextRow, Goto, TypeInv, TypeOK
<1>6. ASSUME queue[s] # << >>
      PROVE  /\ pc'[s] = "lockWallet"
             /\ job'[s] = wagers[queue[s][1]].cmd /\ job'[s].key = queue[s][1]
             /\ queue'[s] = Tail(queue[s])
             /\ 1 \in 1..Len(queue[s]) /\ queue[s][1] \in Keys
             /\ Len(queue'[s]) = Len(queue[s]) - 1
             /\ DOMAIN queue'[s] = 1..(Len(queue[s]) - 1)
             /\ \A i \in 1..(Len(queue[s]) - 1) :
                  i + 1 \in 1..Len(queue[s]) /\ queue'[s][i] = queue[s][i + 1]
  <2>1. queue[s] \in Seq(Keys)
    BY DEF TypeInv, TypeOK
  <2>2. 1 \in 1..Len(queue[s]) /\ queue[s][1] \in Keys /\ Head(queue[s]) = queue[s][1]
    BY <1>6, <2>1
  <2>3. /\ pc'[s] = "lockWallet" /\ job'[s] = wagers[queue[s][1]].cmd
        /\ queue'[s] = Tail(queue[s])
    BY <1>6, <2>2 DEF SettlesWith, NextRow, Goto, TypeInv, TypeOK
  <2>4. job'[s].key = queue[s][1]
    BY <2>2, <2>3 DEF TypeInv, Control, RowsKeyed
  <2>5. /\ Len(Tail(queue[s])) = Len(queue[s]) - 1
        /\ DOMAIN Tail(queue[s]) = 1..(Len(queue[s]) - 1)
        /\ \A i \in 1..(Len(queue[s]) - 1) :
             i + 1 \in 1..Len(queue[s]) /\ Tail(queue[s])[i] = queue[s][i + 1]
    BY <1>6, <2>1
  <2> QED
    BY <2>2, <2>3, <2>4, <2>5
<1> QED
  BY <1>1, <1>2, <1>3, <1>4, <1>5, <1>6

(* An outcome is written in a row the session owns, and the next row it   *)
(* takes up is one it has claimed.                                         *)
LEMMA SettleKeepsOwn ==
  ASSUME TypeInv, OwnInv, NEW s \in Sessions, NEW r, SettlesWith(s, r)
  PROVE  OwnInv'
<1> DEFINE k == job[s].key
           Q == queue[s]
<1>1. /\ k \in Keys /\ r # None /\ rowDraft'[s][k] = r
      /\ \A j \in Keys \ {k} : rowDraft'[s][j] = rowDraft[s][j]
      /\ \A t \in Sessions : t # s => Bystander(t)
      /\ Settling(s) /\ r.cmd = JobRow(s).cmd /\ r.status # "PENDING" /\ wagers' = wagers
  BY QueueMoves DEF SettlesWith
<1>2. \A j \in Keys : Drafted(s, j)' <=> j = k \/ Drafted(s, j)
  BY <1>1 DEF Drafted
<1>3. ASSUME s \in Clients PROVE ClientOwns(s)'
  <2>1. Q = << >> /\ JobRow(s).cmd = job[s] /\ wagers[k] = None
    BY <1>1, <1>3 DEF OwnInv, ClientOwns, Settling, JobRow, RowSeen, Drafted
  <2>2. pc'[s] = "commit" /\ job'[s] = job[s] /\ queue'[s] = << >>
    BY <2>1, QueueMoves
  <2> QED
    BY <1>1, <1>2, <1>3, <2>1, <2>2 DEF OwnInv, ClientOwns, Unwritten, Drafted
<1>4. ASSUME s \in Clients, NEW t \in Clients, NEW j \in Keys, t # s, Drafted(s, j)'
      PROVE  ~Drafted(t, j)
  BY <1>1, <1>2, <1>4 DEF OwnInv, Apart, ClientOwns, Settling
<1>5. ASSUME s \in Workers PROVE Claimed(s)' = Claimed(s)
  <2>1. queue[s] \in Seq(Keys) /\ DOMAIN Q = 1..Len(Q) /\ pc[s] # "idle"
    BY <1>1 DEF TypeInv, TypeOK, Settling, Unwritten
  <2>2. CASE Q = << >>
    <3>1. pc'[s] = "commit" /\ job'[s] = job[s] /\ queue'[s] = queue[s]
      BY <2>2, QueueMoves
    <3> QED
      BY <1>1, <1>2, <1>5, <2>1, <3>1 DEF Claimed, Drafted
  <2>3. CASE Q # << >>
    <3>1. /\ pc'[s] = "lockWallet" /\ job'[s].key = Q[1] /\ 1 \in 1..Len(Q) /\ Q[1] \in Keys
          /\ DOMAIN queue'[s] = 1..(Len(Q) - 1)
          /\ \A i \in 1..(Len(Q) - 1) : i + 1 \in 1..Len(Q) /\ queue'[s][i] = Q[i + 1]
      BY <2>3, QueueMoves
    <3>2. {queue'[s][i] : i \in DOMAIN queue'[s]} \cup {Q[1]} = {Q[i] : i \in DOMAIN Q}
      <4>1. ASSUME NEW i \in 1..Len(Q), i # 1
            PROVE  i - 1 \in 1..(Len(Q) - 1) /\ queue'[s][i - 1] = Q[i]
        BY <2>1, <3>1, <4>1
      <4>2. Len(Q) \in Nat
        BY <2>1
      <4> HIDE DEF Q
      <4>3. ASSUME NEW i \in 1..Len(Q)
            PROVE  Q[i] \in {queue'[s][h] : h \in 1..(Len(Q) - 1)} \cup {Q[1]}
        <5>1. CASE i = 1
          BY <5>1
        <5>2. CASE i # 1
          BY <4>1, <5>2
        <5> QED
          BY <5>1, <5>2
      <4>4. ASSUME NEW i \in 1..(Len(Q) - 1)
            PROVE  queue'[s][i] \in {Q[h] : h \in 1..Len(Q)}
        BY <3>1
      <4> QED
        BY <2>1, <3>1, <4>3, <4>4
    <3>3. {j \in Keys : Drafted(s, j)'} = {j \in Keys : Drafted(s, j)} \cup {k}
      BY <1>1, <1>2
    <3> QED
      BY <1>5, <2>1, <3>1, <3>2, <3>3 DEF Claimed, Drafted
  <2> QED
    BY <2>2, <2>3
<1>6. ASSUME s \in Workers PROVE WorkerOwns(s)'
  <2>1. \A j \in Claimed(s)' : Due(j)'
    BY <1>1, <1>5, <1>6 DEF OwnInv, WorkerOwns, Due
  <2>2. JobRow(s).cmd = wagers[k].cmd
    BY <1>1, <1>6 DEF OwnInv, WorkerOwns, JobRow, RowSeen, Drafted
  <2>3. \A j \in Keys : Drafted(s, j)' =>
          /\ rowDraft'[s][j].cmd = wagers'[j].cmd /\ rowDraft'[s][j].status # "PENDING"
    BY <1>1, <1>2, <1>6, <2>2 DEF OwnInv, WorkerOwns
  <2>4. CASE Q = << >>
    <3>1. pc'[s] = "commit" /\ job'[s] = job[s] /\ queue'[s] = << >>
      BY <2>4, QueueMoves
    <3> QED
      BY <1>1, <1>6, <2>1, <2>3, <3>1 DEF OwnInv, WorkerOwns, Settling, Unwritten, Drafted
  <2>5. CASE Q # << >>
    <3>1. /\ pc'[s] = "lockWallet" /\ job'[s] = wagers[Q[1]].cmd
          /\ job'[s].key = Q[1] /\ 1 \in 1..Len(Q) /\ Q[1] \in Keys
          /\ Len(queue'[s]) = Len(Q) - 1
          /\ \A i \in 1..(Len(Q) - 1) : i + 1 \in 1..Len(Q) /\ queue'[s][i] = Q[i + 1]
      BY <2>5, QueueMoves
    <3>2. \A i \in 1..Len(Q) : Q[i] \in Keys /\ rowDraft'[s][Q[i]] = None
      BY <1>1, <1>6 DEF OwnInv, WorkerOwns, TypeInv, TypeOK, Drafted
    <3>3. \A i, j \in 1..Len(Q) : Q[i] = Q[j] => i = j
      BY <1>6 DEF OwnInv, WorkerOwns
    <3>4. Len(Q) \in Nat
      BY DEF TypeInv, TypeOK
    <3> HIDE DEF Q
    <3>5. ASSUME NEW i \in 1..(Len(Q) - 1)
          PROVE  /\ rowDraft'[s][queue'[s][i]] = None /\ queue'[s][i] # job'[s].key
                 /\ \A j \in 1..(Len(Q) - 1) : queue'[s][i] = queue'[s][j] => i = j
      <4>1. i + 1 # 1 /\ i + 1 \in 1..Len(Q) /\ queue'[s][i] = Q[i + 1]
        BY <3>1, <3>4
      <4>2. \A j \in 1..(Len(Q) - 1) : Q[i + 1] = Q[j + 1] => i = j
        <5>1. ASSUME NEW j \in 1..(Len(Q) - 1), Q[i + 1] = Q[j + 1] PROVE i = j
          <6>1. j + 1 \in 1..Len(Q)
            BY <3>1
          <6>2. i + 1 = j + 1
            BY <3>3, <4>1, <5>1, <6>1
          <6> QED
            BY <6>2
        <5> QED
          BY <5>1
      <4> QED
        BY <3>1, <3>2, <3>3, <4>1, <4>2
    <3>6. rowDraft'[s][job'[s].key] = None
      BY <3>1, <3>2
    <3> QED
      BY <1>1, <2>1, <2>3, <3>1, <3>5, <3>6 DEF WorkerOwns, Settling, Unwritten, Drafted
  <2> QED
    BY <2>4, <2>5
<1>7. s \in Workers => \A t \in Workers : t # s => Claimed(s)' \cap Claimed(t) = {}
  BY <1>5 DEF OwnInv, Apart
<1> QED
  BY <1>1, <1>3, <1>4, <1>6, <1>7, StepKeepsOwn

-----------------------------------------------------------------------------
(* What each statement makes of the row of the job. *)

(* The row a session is about to settle is PENDING in a client session,    *)
(* PENDING_REFERENCE in a worker.                                          *)
LEMMA JobRowOwned ==
  ASSUME TypeInv, OwnInv, NEW s \in Sessions, Settling(s), pc[s] # "walletKey"
  PROVE  /\ JobRow(s) \in Row /\ job[s].key \in Keys /\ job[s] \in Commands
         /\ job[s].wallet \in Wallets /\ job[s].amount \in Nat
         /\ JobRow(s).cmd = job[s]
         /\ JobRow(s).status = IF s \in Clients THEN "PENDING" ELSE "PENDING_REFERENCE"
<1>1. pc[s] \notin Early
  BY DEF Settling, Unwritten, Early
<1>2. /\ JobRow(s) \in Row /\ job[s].key \in Keys /\ job[s] \in Commands
      /\ job[s].wallet \in Wallets /\ job[s].amount \in Nat
  BY <1>1, SettledRowType
<1>3. CASE s \in Clients
  BY <1>2, <1>3 DEF OwnInv, ClientOwns, JobRow, RowSeen, Drafted, Settling
<1>4. CASE s \in Workers
  <2>1. job[s].key \in Claimed(s) /\ ~Drafted(s, job[s].key) /\ job[s] = wagers[job[s].key].cmd
    BY <1>1, <1>4, ClaimedIncludes DEF OwnInv, WorkerOwns, Early
  <2>2. JobRow(s) = wagers[job[s].key] /\ s \notin Clients /\ Due(job[s].key)
    BY <1>4, <2>1, SessionsAssumption DEF OwnInv, WorkerOwns, JobRow, RowSeen, Drafted
  <2> QED
    BY <1>2, <2>1, <2>2 DEF Due
<1> QED
  BY <1>2, <1>3, <1>4 DEF Sessions

(* The codes of a refusal that neither counts attempts nor reads a balance *)
(* after the fact.                                                         *)
PlainCodes ==
  FailureCodes \ {"REFERENCE_NOT_FOUND", "REVERSAL_WOULD_CAUSE_NEGATIVE_BALANCE"}

(* validateReference answers a plain code, and none only if every check on *)
(* the reference succeeds.                                                 *)
LEMMA ReferenceVerdict ==
  ASSUME NEW c, NEW r, NEW currency
  PROVE  /\ ValidateReference(c, r, currency) # None
              => ValidateReference(c, r, currency) \in PlainCodes
         /\ ValidateReference(c, r, currency) = None
              => /\ r.status = "PROCESSED" /\ r.cmd.wallet = c.wallet
                 /\ r.cmd.amount = c.amount /\ r.cmd.kind \in ReversibleBy[c.kind]
<1> DEFINE checks == ReferenceChecks(c, r, currency)
           failing == {i \in 1..6 : ~checks[i].ok}
<1>1. \A i \in 1..6 : checks[i].code \in PlainCodes /\ checks[i].code # None
  BY NoneAssumption DEF ReferenceChecks, PlainCodes, FailureCodes
<1>2. failing # {} => Min(failing) \in 1..6
  BY FirstOfSix
<1>3. ValidateReference(c, r, currency)
        = IF failing = {} THEN None ELSE checks[Min(failing)].code
  BY DEF ValidateReference
<1>4. failing = {} => /\ r.status = "PROCESSED" /\ r.cmd.wallet = c.wallet
                      /\ r.cmd.amount = c.amount /\ r.cmd.kind \in ReversibleBy[c.kind]
  <2> SUFFICES ASSUME failing = {}
               PROVE  /\ r.status = "PROCESSED" /\ r.cmd.wallet = c.wallet
                      /\ r.cmd.amount = c.amount /\ r.cmd.kind \in ReversibleBy[c.kind]
    OBVIOUS
  <2>1. \A i \in 1..6 : checks[i].ok
    OBVIOUS
  <2>2. checks[1].ok /\ checks[2].ok /\ checks[4].ok /\ checks[5].ok
    BY <2>1
  <2> QED
    BY <2>2 DEF ReferenceChecks
<1> HIDE DEF failing, checks
<1> QED
  BY <1>1, <1>2, <1>3, <1>4

RejectsWith(s, codes) ==
  \E code \in codes, observed \in Int \cup {None} :
    SettlesWith(s, Rejected(JobRow(s), code, observed))

(* reject gives the row of the job its code and settles it. *)
LEMMA RejectSettles ==
  ASSUME TypeInv, OwnInv, NEW s \in Sessions, Settling(s), pc[s] # "walletKey",
         NEW code \in FailureCodes, NEW observed \in Int \cup {None},
         Reject(s, code, observed)
  PROVE  SettlesWith(s, Rejected(JobRow(s), code, observed))
<1> DEFINE r == Rejected(JobRow(s), code, observed)
<1>1. r \in Row /\ r.cmd = JobRow(s).cmd /\ r.status = "REJECTED"
  BY JobRowOwned DEF Rejected, Row, Statuses
<1>2. UpdateRow(s, r) /\ NextRow(s) /\ wagers' = wagers
  BY DEF Reject, NoBalanceChange, committed
<1> HIDE DEF r
<1>3. SettlesWith(s, r)
  BY <1>1, <1>2 DEF SettlesWith
<1> QED
  BY <1>3 DEF r

(* Which code each refusal writes. *)
LEMMA Refusals ==
  ASSUME TypeInv, OwnInv, NEW s \in Sessions
  PROVE  /\ LoadForeignWallet(s) \/ RefuseReference(s) \/ RefuseSecondReversal(s)
              => RejectsWith(s, PlainCodes)
         /\ GiveUp(s) => /\ JobRow(s).attempts >= MaxAttempts
                         /\ RejectsWith(s, {"REFERENCE_NOT_FOUND"})
         /\ Observe(s) =>
              IF job[s].kind = "BET" THEN RejectsWith(s, PlainCodes)
              ELSE SettlesWith(s, Rejected(JobRow(s),
                                           "REVERSAL_WOULD_CAUSE_NEGATIVE_BALANCE",
                                           WalletSeen(s, job[s].wallet).balance))
<1>1. loaded[s] \in Int \cup {None}
  BY DEF TypeInv, TypeOK
<1>2. Settling(s) /\ pc[s] # "walletKey" => WalletSeen(s, job[s].wallet).balance \in Int
  BY JobRowOwned, WalletSeenType DEF TypeInv, WalletRow
<1>3. ASSUME LoadForeignWallet(s) PROVE RejectsWith(s, PlainCodes)
  <2>1. Settling(s) /\ pc[s] # "walletKey"
    BY <1>3 DEF LoadForeignWallet, Settling, Unwritten
  <2>2. {"INVALID_REFERENCE", "CURRENCY_MISMATCH"} \subseteq PlainCodes \cap FailureCodes
    BY DEF PlainCodes, FailureCodes
  <2> QED
    BY <1>2, <1>3, <2>1, <2>2, RejectSettles DEF LoadForeignWallet, RejectsWith
<1>4. ASSUME RefuseSecondReversal(s) PROVE RejectsWith(s, PlainCodes)
  <2>1. Settling(s) /\ pc[s] # "walletKey"
    BY <1>4 DEF RefuseSecondReversal, Settling, Unwritten
  <2>2. "REFERENCE_ALREADY_REVERSED" \in PlainCodes \cap FailureCodes
    BY DEF PlainCodes, FailureCodes
  <2> QED
    BY <1>1, <1>4, <2>1, <2>2, RejectSettles DEF RefuseSecondReversal, RejectsWith
<1>5. ASSUME RefuseReference(s) PROVE RejectsWith(s, PlainCodes)
  <2>1. Settling(s) /\ pc[s] # "walletKey"
    BY <1>5 DEF RefuseReference, Settling, Unwritten
  <2>2. PICK code \in PlainCodes : Reject(s, code, loaded[s])
    BY <1>5, ReferenceVerdict DEF RefuseReference
  <2>3. code \in FailureCodes
    BY DEF PlainCodes
  <2> QED
    BY <1>1, <2>1, <2>2, <2>3, RejectSettles DEF RejectsWith
<1>6. ASSUME GiveUp(s)
      PROVE  /\ JobRow(s).attempts >= MaxAttempts
             /\ RejectsWith(s, {"REFERENCE_NOT_FOUND"})
  <2>1. Settling(s) /\ pc[s] # "walletKey"
    BY <1>6 DEF GiveUp, Settling, Unwritten
  <2>2. "REFERENCE_NOT_FOUND" \in FailureCodes
    BY DEF FailureCodes
  <2> QED
    BY <1>1, <1>6, <2>1, <2>2, RejectSettles DEF GiveUp, RejectsWith
<1>7. ASSUME Observe(s)
      PROVE  IF job[s].kind = "BET" THEN RejectsWith(s, PlainCodes)
             ELSE SettlesWith(s, Rejected(JobRow(s),
                                          "REVERSAL_WOULD_CAUSE_NEGATIVE_BALANCE",
                                          WalletSeen(s, job[s].wallet).balance))
  <2>1. Settling(s) /\ pc[s] # "walletKey"
    BY <1>7 DEF Observe, Settling, Unwritten
  <2>2. /\ "INSUFFICIENT_BALANCE" \in PlainCodes \cap FailureCodes
        /\ "REVERSAL_WOULD_CAUSE_NEGATIVE_BALANCE" \in FailureCodes
    BY DEF PlainCodes, FailureCodes
  <2> QED
    BY <1>2, <1>7, <2>1, <2>2, RejectSettles DEF Observe, RejectsWith
<1> QED
  BY <1>3, <1>4, <1>5, <1>6, <1>7

BalanceAfter(s, direction) ==
  IF direction = "DEBIT" THEN WalletSeen(s, job[s].wallet).balance - job[s].amount
                         ELSE WalletSeen(s, job[s].wallet).balance + job[s].amount

(* What a processed row holds: its reference and the balance it left.      *)
LEMMA Processings ==
  ASSUME TypeInv, OwnInv, NEW s \in Sessions
  PROVE  /\ SettleWithoutEntry(s) =>
              SettlesWith(s, MarkProcessed(JobRow(s), None,
                                           WalletSeen(s, job[s].wallet).balance))
         /\ \A direction \in {"DEBIT", "CREDIT"} :
              pc[s] \in {"debit", "credit"} /\ Post(s, direction) =>
                /\ BalanceAfter(s, direction) \in Int
                /\ SettlesWith(s, MarkProcessed(JobRow(s), found[s],
                                                BalanceAfter(s, direction)))
<1>1. Settling(s) /\ pc[s] # "walletKey" => WalletSeen(s, job[s].wallet).balance \in Int
  BY JobRowOwned, WalletSeenType DEF TypeInv, WalletRow
<1>2. ASSUME Settling(s), pc[s] # "walletKey", NEW ref \in Keys \cup {None}, NEW b \in Int,
             UpdateRow(s, MarkProcessed(JobRow(s), ref, b)), NextRow(s), wagers' = wagers
      PROVE  SettlesWith(s, MarkProcessed(JobRow(s), ref, b))
  <2> DEFINE r == MarkProcessed(JobRow(s), ref, b)
  <2>1. r \in Row /\ r.cmd = JobRow(s).cmd /\ r.status = "PROCESSED"
    BY <1>2, JobRowOwned DEF MarkProcessed, Row, Statuses
  <2> HIDE DEF r
  <2>2. UpdateRow(s, r)
    BY <1>2 DEF r
  <2>3. SettlesWith(s, r)
    BY <1>2, <2>1, <2>2 DEF SettlesWith
  <2> QED
    BY <2>3 DEF r
<1>3. ASSUME SettleWithoutEntry(s)
      PROVE  SettlesWith(s, MarkProcessed(JobRow(s), None,
                                          WalletSeen(s, job[s].wallet).balance))
  <2>1. Settling(s) /\ pc[s] # "walletKey"
    BY <1>3 DEF SettleWithoutEntry, Settling, Unwritten
  <2> QED
    BY <1>1, <1>2, <1>3, <2>1 DEF SettleWithoutEntry, NoBalanceChange, committed
<1>4. ASSUME NEW direction \in {"DEBIT", "CREDIT"}, pc[s] \in {"debit", "credit"},
             Post(s, direction)
      PROVE  /\ BalanceAfter(s, direction) \in Int
             /\ SettlesWith(s, MarkProcessed(JobRow(s), found[s],
                                             BalanceAfter(s, direction)))
  <2>1. Settling(s) /\ pc[s] # "walletKey"
    BY <1>4 DEF Settling, Unwritten
  <2>2. BalanceAfter(s, direction) \in Int
    BY <1>1, <2>1, JobRowOwned DEF BalanceAfter
  <2>3. /\ UpdateRow(s, MarkProcessed(JobRow(s), found[s], BalanceAfter(s, direction)))
        /\ NextRow(s) /\ wagers' = wagers
    BY <1>4 DEF Post, UpdateMode, BalanceAfter, committed
  <2>4. found[s] \in Keys \cup {None}
    BY DEF TypeInv, TypeOK
  <2> QED
    BY <1>2, <2>1, <2>2, <2>3, <2>4
<1> QED
  BY <1>3, <1>4

(* A postponed row counts one more attempt. *)
LEMMA Postponements ==
  ASSUME TypeInv, OwnInv, NEW s \in Sessions
  PROVE  /\ AwaitReference(s) =>
              /\ s \in Clients
              /\ SettlesWith(s, [JobRow(s) EXCEPT !.status = "PENDING_REFERENCE",
                                                  !.attempts = JobRow(s).attempts + 1])
         /\ RetryLater(s) =>
              /\ s \in Workers /\ JobRow(s).attempts < MaxAttempts
              /\ SettlesWith(s, [JobRow(s) EXCEPT !.attempts = JobRow(s).attempts + 1])
<1>1. ASSUME AwaitReference(s)
      PROVE  SettlesWith(s, [JobRow(s) EXCEPT !.status = "PENDING_REFERENCE",
                                              !.attempts = JobRow(s).attempts + 1])
  <2> DEFINE r == [JobRow(s) EXCEPT !.status = "PENDING_REFERENCE",
                                    !.attempts = JobRow(s).attempts + 1]
  <2>1. Settling(s) /\ pc[s] # "walletKey"
    BY <1>1 DEF AwaitReference, Settling, Unwritten
  <2>2. JobRow(s) \in Row
    BY <2>1, JobRowOwned
  <2>3. r \in Row /\ r.cmd = JobRow(s).cmd /\ r.status # "PENDING"
    <3>1. JobRow(s).attempts + 1 \in Nat
      BY <2>2 DEF Row
    <3> QED
      BY <2>2, <3>1 DEF Row, Statuses
  <2>4. ScheduleReferenceRetry([JobRow(s) EXCEPT !.status = "PENDING_REFERENCE"]) = r
    BY <2>2 DEF ScheduleReferenceRetry, Row
  <2>5. UpdateRow(s, r) /\ NextRow(s) /\ wagers' = wagers
    BY <1>1, <2>4 DEF AwaitReference, NoBalanceChange, committed
  <2> HIDE DEF r
  <2>6. SettlesWith(s, r)
    BY <2>1, <2>3, <2>5 DEF SettlesWith
  <2> QED
    BY <2>6 DEF r
<1>2. ASSUME RetryLater(s)
      PROVE  SettlesWith(s, [JobRow(s) EXCEPT !.attempts = JobRow(s).attempts + 1])
  <2> DEFINE r == [JobRow(s) EXCEPT !.attempts = JobRow(s).attempts + 1]
  <2>1. Settling(s) /\ pc[s] # "walletKey" /\ s \notin Clients
    BY <1>2, SessionsAssumption DEF RetryLater, Settling, Unwritten
  <2>2. JobRow(s) \in Row /\ JobRow(s).status = "PENDING_REFERENCE"
    BY <2>1, JobRowOwned
  <2>3. r \in Row /\ r.cmd = JobRow(s).cmd /\ r.status # "PENDING"
    <3>1. JobRow(s).attempts + 1 \in Nat
      BY <2>2 DEF Row
    <3> QED
      BY <2>2, <3>1 DEF Row
  <2>4. ScheduleReferenceRetry(JobRow(s)) = r
    BY <2>2 DEF ScheduleReferenceRetry, Row
  <2>5. UpdateRow(s, r) /\ NextRow(s) /\ wagers' = wagers
    BY <1>2, <2>4 DEF RetryLater, NoBalanceChange, committed
  <2> HIDE DEF r
  <2>6. SettlesWith(s, r)
    BY <2>1, <2>3, <2>5 DEF SettlesWith
  <2> QED
    BY <2>6 DEF r
<1> QED
  BY <1>1, <1>2 DEF AwaitReference, RetryLater

(* A statement of s that gives the row of its job an outcome. *)
Outcome(s) ==
  \/ LoadForeignWallet(s) \/ SettleWithoutEntry(s)
  \/ AwaitReference(s) \/ RetryLater(s) \/ GiveUp(s)
  \/ RefuseReference(s) \/ RefuseSecondReversal(s)
  \/ Debit(s) \/ Observe(s) \/ Credit(s)

(* Every such statement settles the row of the job. *)
LEMMA OutcomeSettles ==
  ASSUME TypeInv, OwnInv, NEW s \in Sessions, Outcome(s)
  PROVE  \E r \in Row : SettlesWith(s, r)
<1>1. (\E r : SettlesWith(s, r)) => \E r \in Row : SettlesWith(s, r)
  BY DEF SettlesWith
<1>2. \/ RejectsWith(s, PlainCodes) \/ RejectsWith(s, {"REFERENCE_NOT_FOUND"})
      \/ \E r : SettlesWith(s, r)
  BY Refusals, Processings, Postponements DEF Outcome, Debit, Credit
<1> QED
  BY <1>1, <1>2 DEF RejectsWith

(* Whatever a session does next, nobody writes a row of another's.         *)
LEMMA NextKeepsOwn == TypeInv /\ OwnInv /\ [Next]_vars => OwnInv'
<1> SUFFICES ASSUME TypeInv, OwnInv, [Next]_vars PROVE OwnInv'
  OBVIOUS
<1>1. CASE UNCHANGED vars
  BY <1>1 DEF vars, committed, drafts, OwnInv, ClientOwns, WorkerOwns, Apart,
              Claimed, Due, Drafted, Settling
<1>2. ASSUME NEW s \in Sessions,
             \/ LoadWallet(s) \/ DebitRefused(s) \/ AcceptReference(s) \/ Reverse(s)
             \/ CheckWalletKey(s) \/ LockWallet(s)
      PROVE  OwnInv'
  <2>1. /\ UNCHANGED <<wagers, job, queue, rowDraft>>
        /\ \A t \in Sessions : t # s => pc'[t] = pc[t]
    BY <1>2 DEF LoadWallet, DebitRefused, AcceptReference, Reverse, CheckWalletKey,
                LockWallet, Goto, committed, drafts, TypeInv, TypeOK
  <2>2. Settling(s) /\ Settling(s)'
    BY <1>2 DEF LoadWallet, DebitRefused, AcceptReference, Reverse, CheckWalletKey,
                LockWallet, Goto, TypeInv, TypeOK, Settling, Unwritten
  <2>3. pc'[s] \notin {"walletKey", "load"} \/ pc[s] = "walletKey"
    BY <1>2 DEF LoadWallet, DebitRefused, AcceptReference, Reverse, CheckWalletKey,
                LockWallet, Goto, TypeInv, TypeOK
  <2>4. pc[s] = "walletKey" => s \in Clients
    BY DEF OwnInv, WorkerOwns, Sessions
  <2> QED
    BY <2>1, <2>2, <2>3, <2>4, MoveKeepsOwn
<1>3. ASSUME NEW s \in Sessions,
             \/ InsertFails(s) \/ Replay(s) \/ WalletKeyFails(s)
             \/ CommitFails(s) \/ AbortDeadlock(s) \/ Crash(s)
      PROVE  OwnInv'
  <2>1. EndTransaction(s) /\ UNCHANGED committed
    BY <1>3 DEF InsertFails, Replay, WalletKeyFails, CommitFails, AbortDeadlock, Crash, RollBack, committed
  <2> QED
    BY <2>1, EndKeepsOwn DEF committed
<1>4. ASSUME NEW s \in Sessions, Outcome(s) PROVE OwnInv'
  BY <1>4, OutcomeSettles, SettleKeepsOwn
<1> QED
  BY <1>1, <1>2, <1>3, <1>4, CommitKeepsOwn, SubmitKeepsOwn, ConflictKeepsOwn,
     InsertKeepsOwn, ClaimKeepsOwn
     DEF Next, Start, Statement, ClientStep, ReversalStep, BalanceStep, Outcome

(* The rows and who may write them, in every reachable state.              *)
LEMMA OwnAlways == Spec => [](TypeInv /\ OwnInv)
BY InitTypeInv, NextKeepsTypes, InitOwnInv, NextKeepsOwn, PTL DEF Spec

(* No action but a commit writes the committed rows. *)
LEMMA OnlyCommitWrites ==
  ASSUME Next, wagers' # wagers
  PROVE  \E s \in Sessions : Commit(s)
<1>1. PICK s \in Sessions : Start(s) \/ Statement(s) \/ Crash(s)
  BY DEF Next
<1>2. CASE Start(s)
  BY <1>2 DEF Start, ClaimDue, Submit, committed
<1>3. CASE Crash(s)
  BY <1>3 DEF Crash, committed
<1>4. CASE ClientStep(s)
  BY <1>4 DEF ClientStep, InsertRow, InsertFails, InsertConflicts, Replay, CheckWalletKey,
              WalletKeyFails, LoadWallet, LoadForeignWallet, SettleWithoutEntry, RollBack,
              Reject, NoBalanceChange, committed
<1>5. CASE ReversalStep(s)
  BY <1>5 DEF ReversalStep, LockWallet, AwaitReference, RetryLater, GiveUp, RefuseReference,
              AcceptReference, RefuseSecondReversal, Reverse, Reject, NoBalanceChange, committed
<1>6. CASE BalanceStep(s)
  BY <1>6 DEF BalanceStep, Debit, DebitRefused, Observe, Credit, Post, Reject,
              NoBalanceChange, committed
<1>7. CASE Commit(s) \/ CommitFails(s) \/ AbortDeadlock(s)
  BY <1>7 DEF CommitFails, AbortDeadlock, RollBack, committed
<1> QED
  BY <1>1, <1>2, <1>3, <1>4, <1>5, <1>6, <1>7 DEF Statement

(* A commit writes a row that was not there, or one that was pending and   *)
(* whose command it keeps.                                                 *)
LEMMA CommitKeepsSettled ==
  ASSUME TypeInv, OwnInv, NEW s \in Sessions, Commit(s), NEW k \in Keys, wagers[k] # None
  PROVE  /\ wagers'[k] # None /\ wagers'[k].cmd = wagers[k].cmd
         /\ wagers[k].status \in Terminal => wagers'[k] = wagers[k]
<1>1. wagers'[k] = RowSeen(s, k)
  BY DEF Commit
<1>2. CASE ~Drafted(s, k)
  BY <1>1, <1>2 DEF RowSeen, Drafted
<1>3. CASE Drafted(s, k)
  <2>1. s \in Workers
    BY <1>3 DEF OwnInv, ClientOwns, Sessions
  <2>2. k \in Claimed(s)
    BY <1>3, <2>1, ClaimedIncludes
  <2> QED
    BY <1>1, <1>3, <2>1, <2>2 DEF OwnInv, WorkerOwns, Due, RowSeen, Drafted, Terminal
<1> QED
  BY <1>2, <1>3

(* What SettledForever says of one step. *)
SettledStep ==
  \A k \in Keys :
    wagers[k] # None =>
      /\ wagers'[k] # None
      /\ wagers'[k].cmd = wagers[k].cmd
      /\ wagers[k].status \in Terminal => wagers'[k] = wagers[k]

(* A settled transaction is never written again, nor is any row deleted or *)
(* given another command, whatever sessions retry, replay, deadlock or     *)
(* crash: a retry writes claimed rows only, and those are pending.         *)
THEOREM SettledRowsStay == Spec => SettledForever
<1>1. TypeInv /\ OwnInv /\ [Next]_vars => [SettledStep]_vars
  <2> SUFFICES ASSUME TypeInv, OwnInv, Next PROVE SettledStep
    OBVIOUS
  <2>1. CASE wagers' = wagers
    BY <2>1 DEF SettledStep
  <2>2. CASE wagers' # wagers
    BY <2>2, OnlyCommitWrites, CommitKeepsSettled DEF SettledStep
  <2> QED
    BY <2>1, <2>2
<1>2. Spec => [][SettledStep]_vars
  BY <1>1, OwnAlways, PTL DEF Spec
<1> QED
  BY <1>2 DEF SettledForever, SettledStep

(* Nobody has been answered. *)
LEMMA InitAnswers == Init => AnswersStand
BY DEF Init, AnswersStand

(* A step answers nobody, answers with an error, or says what is committed *)
(* as it ends.                                                             *)
LEMMA NextAnswers ==
  ASSUME TypeInv, OwnInv, AnswersStand, [Next]_vars
  PROVE  AnswersStand'
<1> USE DEF AnswersStand
<1>1. CASE UNCHANGED vars
  BY <1>1 DEF vars, committed, ReplyOf
<1>2. CASE answer' = None
  BY <1>2
<1>3. ASSUME NEW s \in Sessions,
             \/ InsertFails(s) \/ WalletKeyFails(s) \/ CommitFails(s) \/ AbortDeadlock(s)
      PROVE  AnswersStand'
  <2>1. PICK c, e : answer' = ErrorReply(c, e) \/ answer' = None
    BY <1>3 DEF InsertFails, WalletKeyFails, CommitFails, AbortDeadlock, RollBack, Answer
  <2> QED
    BY <1>2, <2>1 DEF ErrorReply
<1>4. ASSUME NEW s \in Sessions, Replay(s) PROVE AnswersStand'
  <2> DEFINE existing == wagers[job[s].key]
  <2>1. s \in Clients /\ existing # None /\ existing.cmd.key = job[s].key
    <3>1. s \in Clients
      BY <1>4 DEF Replay, OwnInv, WorkerOwns, Sessions
    <3>2. job[s].key \in Keys
      BY <1>4, CommandKey DEF Replay, TypeInv, Control
    <3> QED
      BY <1>4, <3>1, <3>2 DEF Replay, OwnInv, ClientOwns, TypeInv, RowsKeyed
  <2>2. CASE existing.cmd = job[s]
    <3>1. answer' = ReplyOf(existing, TRUE) /\ wagers' = wagers
      BY <1>4, <2>1, <2>2 DEF Replay, Answer, committed
    <3>2. /\ answer'.cmd = existing.cmd
          /\ answer'.replay = TRUE
      BY <3>1 DEF ReplyOf
    <3>3. wagers'[answer'.cmd.key] = existing
      BY <2>1, <3>1, <3>2
    <3>4. ReplyOf(wagers[answer.cmd.key], answer.replay)' = answer'
      BY <3>1, <3>2, <3>3 DEF ReplyOf
    <3> QED
      BY <2>1, <3>3, <3>4
  <2>3. CASE existing.cmd # job[s]
    <3>1. answer' = ErrorReply(job[s], "IDEMPOTENCY_CONFLICT")
      BY <1>4, <2>1, <2>3 DEF Replay, Answer
    <3> QED
      BY <3>1 DEF ErrorReply
  <2> QED
    BY <2>2, <2>3
<1>5. ASSUME NEW s \in Sessions, Commit(s) PROVE AnswersStand'
  <2>1. CASE s \notin Clients
    BY <1>2, <1>5, <2>1 DEF Commit, Answer
  <2>2. CASE s \in Clients
    <3>1. pc[s] \notin Early /\ job[s].key \in Keys
      BY <1>5, CommandKey DEF Commit, Early, TypeInv, Control
    <3>2. JobRow(s) # None /\ JobRow(s).cmd.key = job[s].key
      BY <3>1, RowSeenType DEF JobRow, TypeInv, Control
    <3>3. answer' = ReplyOf(JobRow(s), FALSE) /\ wagers'[job[s].key] = JobRow(s)
      BY <1>5, <2>2, <3>1 DEF Commit, Answer, JobRow
    <3>4. answer'.cmd = JobRow(s).cmd /\ answer'.replay = FALSE
      BY <3>3 DEF ReplyOf
    <3>5. wagers'[answer'.cmd.key] = JobRow(s)
      BY <3>2, <3>3, <3>4
    <3>6. ReplyOf(wagers[answer.cmd.key], answer.replay)' = answer'
      BY <3>3, <3>4, <3>5 DEF ReplyOf
    <3> QED
      BY <3>2, <3>5, <3>6
  <2> QED
    BY <2>1, <2>2
<1>6. ASSUME NEW s \in Sessions, Start(s) \/ Crash(s) PROVE answer' = None
  BY <1>6 DEF Start, ClaimDue, Submit, Crash, NoAnswer
<1>7. ASSUME NEW s \in Sessions, 
             \/ InsertRow(s) \/ InsertConflicts(s) \/ CheckWalletKey(s)
             \/ LoadWallet(s) \/ LoadForeignWallet(s) \/ SettleWithoutEntry(s)
      PROVE  answer' = None
  BY <1>7 DEF InsertRow, InsertConflicts, CheckWalletKey, LoadWallet, LoadForeignWallet,
              SettleWithoutEntry, Reject, NoBalanceChange, NoAnswer
<1>8. ASSUME NEW s \in Sessions, ReversalStep(s) PROVE answer' = None
  BY <1>8 DEF ReversalStep, LockWallet, AwaitReference, RetryLater, GiveUp, RefuseReference,
              AcceptReference, RefuseSecondReversal, Reverse, Reject, NoBalanceChange, NoAnswer
<1>9. ASSUME NEW s \in Sessions, BalanceStep(s) PROVE answer' = None
  BY <1>9 DEF BalanceStep, Debit, DebitRefused, Observe, Credit, Post, Reject,
              NoBalanceChange, NoAnswer
<1> QED
  BY <1>1, <1>2, <1>3, <1>4, <1>5, <1>6, <1>7, <1>8, <1>9
     DEF Next, Statement, ClientStep

(* Whoever is told an outcome, the first time or on a replay, is told the  *)
(* one that is committed for the command they asked about.                 *)
THEOREM AnswersAreCommitted == Spec => []AnswersStand
BY InitAnswers, NextAnswers, OwnAlways, PTL DEF Spec
=============================================================================

--------------------------- MODULE WagerEntriesProofs ---------------------------
(***************************************************************************)
(* Rows, ledger entries and events, for any number of sessions: every      *)
(* processed row that moves money has one entry, in its own wallet, of its *)
(* amount and in its direction, and a reversal comes after the entry it    *)
(* undoes; the events number the entries and tell what became of each row. *)
(*                                                                         *)
(* The same is said of what is committed and of what each session has      *)
(* written, so that a commit only has to put the two together: what it     *)
(* writes nobody else has written (OwnInv), and what it reverses nobody    *)
(* else has reversed (ReversalInv).                                        *)
(***************************************************************************)
EXTENDS WagerReversalsProofs

(* The direction of the entry of c, whose reference is ref. *)
Direction(c, ref) == LedgerDirectionFor(c.kind, wagers[ref].cmd.kind)

(* e is the entry of r in the ledger of w. *)
Records(e, r, w) ==
  /\ r # None /\ r.status = "PROCESSED" /\ r.cmd.kind # "LOSS" /\ r.cmd.wallet = w
  /\ e.amount = r.cmd.amount /\ e.after = r.observed
  /\ e.direction = Direction(r.cmd, r.reference)

TxApart(l) == \A i, j \in 1..Len(l) : l[i].tx = l[j].tx => i = j

(* Committed entries *)

EntriesRecord ==
  \A w \in Wallets : \A i \in 1..Len(ledger[w]) :
    LET e == ledger[w][i] IN
    e.tx # "opening" => e.amount > 0 /\ e.tx \in Keys /\ Records(e, wagers[e.tx], w)

EntriesApart == \A w \in Wallets : TxApart(ledger[w])

RowsRecorded ==
  \A k \in Keys, w \in Wallets : MovesMoney(wagers[k]) /\ wagers[k].cmd.wallet = w =>
    \E i \in 1..Len(ledger[w]) : ledger[w][i].tx = k

(* The entry a reversal undoes comes before its own. *)
UndoneFirst ==
  \A w \in Wallets : \A j \in 1..Len(ledger[w]) : \A k, ref \in Keys :
    ledger[w][j].tx = k /\ wagers[k].reference = ref =>
      \E i \in 1..(j - 1) : ledger[w][i].tx = ref

UniqueReversals ==
  \A k, l \in Keys :
    /\ wagers[k] # None /\ wagers[l] # None
    /\ wagers[k].reference # None /\ wagers[k].reference = wagers[l].reference
    /\ wagers[k].cmd.kind = wagers[l].cmd.kind
    => k = l

(* Entries a session has written *)

DraftRecorded(s, w, i) ==
  LET e == entryDraft[s][w][i] IN e.tx \in Keys /\ Records(e, rowDraft[s][e.tx], w)

DraftsRecord(s) ==
  \A w \in Wallets : \A i \in 1..Len(entryDraft[s][w]) : DraftRecorded(s, w, i)

DraftsApart(s) == \A w \in Wallets : TxApart(entryDraft[s][w])

RowsDrafted(s) ==
  \A k \in Keys, w \in Wallets :
    MovesMoney(rowDraft[s][k]) /\ rowDraft[s][k].cmd.wallet = w =>
      \E i \in 1..Len(entryDraft[s][w]) : entryDraft[s][w][i].tx = k

(* s sees an entry of ref in w before its own j-th. *)
PostedBefore(s, w, j, ref) ==
  \/ \E i \in 1..Len(ledger[w]) : ledger[w][i].tx = ref
  \/ \E i \in 1..(j - 1) : entryDraft[s][w][i].tx = ref

DraftsUndo(s) ==
  \A w \in Wallets : \A j \in 1..Len(entryDraft[s][w]) : \A k, ref \in Keys :
    LET e == entryDraft[s][w][j] IN
    e.amount # 0 /\ e.tx = k /\ rowDraft[s][k].reference = ref => PostedBefore(s, w, j, ref)

(* Which way the next UPDATE moves the wallet. *)
Heading(s) ==
  /\ pc[s] = "debit" => Direction(job[s], found[s]) = "DEBIT"
  /\ pc[s] = "credit" => Direction(job[s], found[s]) = "CREDIT"

DraftEntries(s) ==
  /\ DraftsRecord(s) /\ DraftsApart(s) /\ RowsDrafted(s) /\ DraftsUndo(s) /\ Heading(s)

EntryInv ==
  /\ EntriesRecord /\ EntriesApart /\ RowsRecorded /\ UndoneFirst /\ UniqueReversals
  /\ \A s \in Sessions : DraftEntries(s)

-----------------------------------------------------------------------------
(* The command of a committed row never changes, so neither does the       *)
(* direction of an entry.                                                  *)
LEMMA DirectionStays ==
  ASSUME TypeInv, OwnInv, NEW s \in Sessions, StepOf(s), NEW c, NEW ref,
         c.kind = "ROLLBACK" => ref \in Keys /\ wagers[ref] # None
  PROVE  Direction(c, ref)' = Direction(c, ref)
<1>1. CASE c.kind = "ROLLBACK"
  BY <1>1, StepKeepsSettled DEF Direction
<1>2. CASE c.kind # "ROLLBACK"
  BY <1>2 DEF Direction, LedgerDirectionFor
<1> QED
  BY <1>1, <1>2

(* The reference of a processed reversal is a committed row. *)
LEMMA ReferenceThere ==
  ASSUME TypeInv, ReversalInv, NEW k \in Keys, NEW r, r # None, r.status = "PROCESSED",
         r = wagers[k] \/ \E s \in Sessions : r = rowDraft[s][k],
         r.cmd.kind \in Reversals
  PROVE  r.reference \in Keys /\ wagers[r.reference] # None
<1>1. r \in Row /\ RowSound(r)
  BY DEF TypeInv, TypeOK, ReversalInv, RowsSound, Drafted
<1>2. r.reference \in Keys
  BY <1>1 DEF RowSound, Row
<1>3. r.reference # None
  BY <1>1 DEF RowSound
<1>4. CASE r = wagers[k]
  BY <1>2, <1>3, <1>4 DEF ReversalInv, ReferencesStand, Reversible
<1>5. CASE \E s \in Sessions : r = rowDraft[s][k]
  BY <1>2, <1>3, <1>5 DEF ReversalInv, SessionSound, DraftsSound, Drafted
<1> QED
  BY <1>2, <1>4, <1>5

(* What an entry records of a row stays true, if the row stays. *)
LEMMA RecordsStay ==
  ASSUME TypeInv, OwnInv, ReversalInv, NEW s \in Sessions, StepOf(s),
         NEW k \in Keys, NEW r, r = wagers[k] \/ \E t \in Sessions : r = rowDraft[t][k],
         NEW e, NEW w, Records(e, r, w)
  PROVE  Records(e, r, w)'
<1>1. r # None /\ r.status = "PROCESSED"
  BY DEF Records
<1>2. r.cmd.kind = "ROLLBACK" => r.reference \in Keys /\ wagers[r.reference] # None
  BY <1>1, ReferenceThere DEF Reversals
<1>3. Direction(r.cmd, r.reference)' = Direction(r.cmd, r.reference)
  BY <1>2, DirectionStays
<1> QED
  BY <1>3 DEF Records

(* Where the entries of two sequences put together come from. *)
LEMMA Concatenated ==
  ASSUME NEW l \in Seq(Entry), NEW m \in Seq(Entry)
  PROVE  /\ Len(l) \in Nat /\ Len(m) \in Nat /\ Len(l \o m) = Len(l) + Len(m)
         /\ \A i \in 1..Len(l) : i \in 1..Len(l \o m) /\ (l \o m)[i] = l[i]
         /\ \A i \in 1..Len(m) : /\ i + Len(l) \in 1..Len(l \o m)
                                /\ (l \o m)[i + Len(l)] = m[i]
         /\ \A i \in 1..Len(l \o m) : i \notin 1..Len(l) =>
              i - Len(l) \in 1..Len(m) /\ (l \o m)[i] = m[i - Len(l)]
OBVIOUS

(* Where the entries of a sequence with one more come from. *)
LEMMA Appended ==
  ASSUME NEW l \in Seq(Entry), NEW e \in Entry
  PROVE  /\ Len(l) \in Nat /\ Len(Append(l, e)) = Len(l) + 1
         /\ Append(l, e)[Len(l) + 1] = e
         /\ \A i \in 1..Len(l) : i \in 1..(Len(l) + 1) /\ Append(l, e)[i] = l[i]
OBVIOUS

(* Entries are only added to a ledger. *)
LEMMA LedgerGrows ==
  ASSUME TypeInv, NEW s \in Sessions, StepOf(s), NEW w \in Wallets, NEW i \in 1..Len(ledger[w])
  PROVE  i \in 1..Len(ledger'[w]) /\ ledger'[w][i] = ledger[w][i]
<1>1. CASE ~Commit(s)
  BY <1>1, OnlyCommitPublishes DEF committed
<1>2. CASE Commit(s)
  <2>1. ledger'[w] = ledger[w] \o entryDraft[s][w]
    BY <1>2 DEF Commit
  <2>2. ledger[w] \in Seq(Entry) /\ entryDraft[s][w] \in Seq(Entry)
    BY DEF TypeInv, TypeOK
  <2> DEFINE l == ledger[w]
             m == entryDraft[s][w]
  <2>3. i \in 1..Len(l \o m) /\ (l \o m)[i] = l[i]
    <3> HIDE DEF l, m
    <3> QED
      BY <2>2, Concatenated DEF l, m
  <2> QED
    BY <2>1, <2>3
<1> QED
  BY <1>1, <1>2

(* A row some session has written is not settled yet. *)
LEMMA DraftedIsOpen ==
  ASSUME TypeInv, OwnInv, NEW s \in Sessions, NEW k \in Keys, Drafted(s, k)
  PROVE  wagers[k] = None \/ wagers[k].status = "PENDING_REFERENCE"
BY ClaimedIncludes DEF OwnInv, ClientOwns, WorkerOwns, Due, Sessions

-----------------------------------------------------------------------------
(* What the sessions have written *)

(* The opening credit is of no row, and nobody has written anything.       *)
LEMMA InitEntryInv == Init => EntryInv
<1> SUFFICES ASSUME Init PROVE EntryInv
  OBVIOUS
<1>1. /\ \A k \in Keys : wagers[k] = None
      /\ \A w \in Wallets : ledger[w] = OpeningLedger(w)
      /\ \A s \in Sessions : pc[s] = "idle"
      /\ \A s \in Sessions, k \in Keys : rowDraft[s][k] = None
      /\ \A s \in Sessions, w \in Wallets : Len(entryDraft[s][w]) = 0
  BY DEF Init, NoRows, NoneOf
<1>2. ASSUME NEW w \in Wallets
      PROVE  \A i \in 1..Len(ledger[w]) : i = 1 /\ ledger[w][i].tx = "opening"
  <2>1. CASE Opening[w] = 0
    <3>1. ledger[w] = << >>
      BY <1>1, <2>1 DEF OpeningLedger
    <3> QED
      BY <3>1
  <2>2. CASE Opening[w] # 0
    <3> DEFINE e == [tx |-> "opening", direction |-> "CREDIT",
                     amount |-> Opening[w], before |-> 0, after |-> Opening[w]]
    <3>1. ledger[w] = << e >> /\ e.tx = "opening"
      BY <1>1, <2>2 DEF OpeningLedger
    <3> HIDE DEF e
    <3> QED
      BY <3>1
  <2> QED
    BY <2>1, <2>2
<1>3. EntriesRecord /\ EntriesApart /\ UndoneFirst
  BY <1>2, OpeningAssumption DEF EntriesRecord, EntriesApart, TxApart, UndoneFirst
<1>4. RowsRecorded /\ UniqueReversals
  BY <1>1 DEF RowsRecorded, UniqueReversals, MovesMoney
<1>5. ASSUME NEW s \in Sessions PROVE DraftEntries(s)
  <2>1. \A w \in Wallets : \A i \in 1..Len(entryDraft[s][w]) : FALSE
    BY <1>1
  <2>2. DraftsRecord(s) /\ DraftsApart(s) /\ DraftsUndo(s)
    BY <2>1 DEF DraftsRecord, DraftRecorded, DraftsApart, TxApart, DraftsUndo
  <2> QED
    BY <1>1, <2>2 DEF DraftEntries, RowsDrafted, MovesMoney, Heading
<1> QED
  BY <1>3, <1>4, <1>5 DEF EntryInv

(* A rolled back or committed transaction leaves no draft. *)
LEMMA EndKeepsEntries ==
  ASSUME TypeInv, NEW s \in Sessions, EndTransaction(s)
  PROVE  DraftEntries(s)'
<1>1. /\ pc'[s] = "idle" /\ \A k \in Keys : rowDraft'[s][k] = None
      /\ \A w \in Wallets : Len(entryDraft'[s][w]) = 0
  BY DEF EndTransaction, NoRows, NoneOf, TypeInv, TypeOK
<1>2. \A w \in Wallets : \A i \in 1..Len(entryDraft'[s][w]) : FALSE
  BY <1>1
<1>3. DraftsRecord(s)' /\ DraftsApart(s)' /\ DraftsUndo(s)'
  BY <1>2 DEF DraftsRecord, DraftRecorded, DraftsApart, TxApart, DraftsUndo
<1> QED
  BY <1>1, <1>3 DEF DraftEntries, RowsDrafted, MovesMoney, Heading

(* What a session has written stays true of it while others step. *)
LEMMA OthersKeepEntries ==
  ASSUME TypeInv, OwnInv, ReversalInv, EntryInv, NEW s \in Sessions, StepOf(s),
         NEW t \in Sessions, t # s
  PROVE  DraftEntries(t)'
<1>1. /\ pc'[t] = pc[t] /\ job'[t] = job[t] /\ found'[t] = found[t]
      /\ rowDraft'[t] = rowDraft[t] /\ entryDraft'[t] = entryDraft[t]
  BY OthersUntouched DEF Untouched, Bystander
<1>2. DraftEntries(t)
  BY DEF EntryInv
<1>3. DraftsRecord(t)'
  <2>1. ASSUME NEW w \in Wallets, NEW i \in 1..Len(entryDraft[t][w]),
               NEW e, e = entryDraft[t][w][i], NEW k, k = e.tx, NEW r, r = rowDraft[t][k]
        PROVE  k \in Keys /\ Records(e, r, w)'
    BY <1>2, <2>1, RecordsStay DEF DraftEntries, DraftsRecord, DraftRecorded
  <2> QED
    <3>1. ASSUME NEW w \in Wallets, NEW i \in 1..Len(entryDraft[t][w])
          PROVE  DraftRecorded(t, w, i)'
      <4>1. PICK e, k, r : e = entryDraft[t][w][i] /\ k = e.tx /\ r = rowDraft[t][k]
        OBVIOUS
      <4>2. k \in Keys /\ Records(e, r, w)'
        BY <2>1, <4>1
      <4> QED
        BY <1>1, <4>1, <4>2 DEF DraftRecorded, Records, Direction
    <3> QED
      BY <1>1, <3>1 DEF DraftsRecord
<1>4. DraftsApart(t)' /\ RowsDrafted(t)'
  BY <1>1, <1>2 DEF DraftEntries, DraftsApart, TxApart, RowsDrafted, MovesMoney
<1>5. DraftsUndo(t)'
  <2>1. ASSUME NEW w \in Wallets, NEW ref, \E i \in 1..Len(ledger[w]) : ledger[w][i].tx = ref
        PROVE  \E i \in 1..Len(ledger'[w]) : ledger'[w][i].tx = ref
    BY <2>1, LedgerGrows
  <2>2. \A w \in Wallets : \A j, ref :
          PostedBefore(t, w, j, ref) => PostedBefore(t, w, j, ref)'
    BY <1>1, <2>1 DEF PostedBefore
  <2> QED
    BY <1>1, <1>2, <2>2 DEF DraftEntries, DraftsUndo
<1>6. Heading(t)'
  <2>1. ASSUME pc[t] \in {"debit", "credit"}
        PROVE  Direction(job[t], found[t])' = Direction(job[t], found[t])
    <3>1. job[t].kind = "ROLLBACK" => found[t] \in Keys /\ wagers[found[t]] # None
      BY <2>1 DEF ReversalInv, SessionSound, FoundSound, Reversing, Reversals
    <3>2. ASSUME NEW c, c = job[t], NEW ref, ref = found[t]
          PROVE  Direction(c, ref)' = Direction(c, ref)
      BY <3>1, <3>2, DirectionStays
    <3> QED
      BY <1>1, <3>2 DEF Direction
  <2> QED
    BY <1>1, <1>2, <2>1 DEF DraftEntries, Heading
<1> QED
  BY <1>3, <1>4, <1>5, <1>6 DEF DraftEntries

(* A statement that writes no row keeps what the session has written. *)
LEMMA DraftsKept ==
  ASSUME EntryInv, NEW s \in Sessions, UNCHANGED <<wagers, ledger>>,
         rowDraft'[s] = rowDraft[s], entryDraft'[s] = entryDraft[s], Heading(s)'
  PROVE  DraftEntries(s)'
<1>1. DraftEntries(s)
  BY DEF EntryInv
<1>2. DraftsRecord(s)'
  <2>1. ASSUME NEW w \in Wallets, NEW i \in 1..Len(entryDraft[s][w]),
               NEW e, e = entryDraft[s][w][i], NEW k, k = e.tx
        PROVE  k \in Keys /\ Records(e, rowDraft[s][k], w)
    BY <1>1, <2>1 DEF DraftEntries, DraftsRecord, DraftRecorded
  <2> QED
    <3>1. ASSUME NEW w \in Wallets, NEW i \in 1..Len(entryDraft[s][w])
          PROVE  DraftRecorded(s, w, i)'
      <4>1. PICK e, k : e = entryDraft[s][w][i] /\ k = e.tx
        OBVIOUS
      <4>2. k \in Keys /\ Records(e, rowDraft[s][k], w)
        BY <2>1, <4>1
      <4> QED
        BY <4>1, <4>2 DEF DraftRecorded, Records, Direction
    <3> QED
      BY <3>1 DEF DraftsRecord
<1>3. DraftsApart(s)' /\ RowsDrafted(s)'
  BY <1>1 DEF DraftEntries, DraftsApart, TxApart, RowsDrafted, MovesMoney
<1>4. DraftsUndo(s)'
  <2>1. \A w, j, ref : PostedBefore(s, w, j, ref)' <=> PostedBefore(s, w, j, ref)
    BY DEF PostedBefore
  <2> QED
    BY <1>1, <2>1 DEF DraftEntries, DraftsUndo
<1> QED
  BY <1>2, <1>3, <1>4 DEF DraftEntries

(* The statements before the outcome: LoadWallet sends a bet to the debit  *)
(* and a win to the credit, Reverse a reversal to the opposite of what it  *)
(* undoes.                                                                 *)
LEMMA MoveKeepsEntries ==
  ASSUME TypeInv, OwnInv, ReversalInv, EntryInv, NEW s \in Sessions,
         \/ CheckWalletKey(s) \/ LockWallet(s)
         \/ ClaimDue(s) \/ \E c \in Commands : Submit(s, c)
         \/ InsertConflicts(s) \/ LoadWallet(s)
         \/ AcceptReference(s) \/ Reverse(s) \/ DebitRefused(s)
  PROVE  DraftEntries(s)'
<1>1. UNCHANGED <<committed, drafts>>
  BY DEF CheckWalletKey, LockWallet, ClaimDue, Submit, InsertConflicts, LoadWallet,
         AcceptReference, Reverse, DebitRefused
<1>2. CASE pc'[s] \notin {"debit", "credit"}
  BY <1>1, <1>2, DraftsKept DEF Heading, committed, drafts
<1>3. CASE LoadWallet(s)
  <2>1. /\ job'[s] = job[s] /\ found'[s] = found[s] /\ wagers' = wagers
        /\ pc'[s] = CASE job[s].kind = "BET" -> "debit"
                      [] job[s].kind = "WIN" -> "credit"
                      [] OTHER -> "lockWallet"
    BY <1>3 DEF LoadWallet, Goto, TypeInv, TypeOK, committed
  <2>2. Heading(s)'
    BY <2>1 DEF Heading, Direction, LedgerDirectionFor, ResolveLedgerDirection
  <2> QED
    BY <1>1, <2>2, DraftsKept DEF committed, drafts
<1>4. CASE Reverse(s)
  <2>1. /\ job'[s] = job[s] /\ found'[s] = found[s] /\ wagers' = wagers
        /\ pc'[s] = IF LedgerDirectionFor(job[s].kind, RowSeen(s, found[s]).cmd.kind)
                         = "DEBIT" THEN "debit" ELSE "credit"
        /\ pc[s] = "reversal"
    BY <1>4 DEF Reverse, Goto, TypeInv, TypeOK, committed
  <2>2. /\ Reversing(s) /\ found[s] \in Keys /\ wagers[found[s]] # None
        /\ Reversible(job[s], RowSeen(s, found[s]))
    BY <2>1 DEF ReversalInv, SessionSound, Course, FoundSound
  <2>3. RowSeen(s, found[s]).cmd = wagers[found[s]].cmd
    BY <2>2 DEF RowSeen, Drafted, OwnInv, ClientOwns, WorkerOwns, Sessions
  <2>4. Direction(job[s], found[s]) \in {"DEBIT", "CREDIT"}
    BY <2>2 DEF Direction, LedgerDirectionFor, ResolveLedgerDirection, Reversing, Reversals
  <2>5. /\ pc'[s] = "debit" => Direction(job[s], found[s]) = "DEBIT"
        /\ pc'[s] = "credit" => Direction(job[s], found[s]) = "CREDIT"
    BY <2>1, <2>3, <2>4 DEF Direction
  <2>6. Heading(s)'
    BY <2>1, <2>5 DEF Heading, Direction
  <2> QED
    BY <1>1, <2>6, DraftsKept DEF committed, drafts
<1>5. \/ LoadWallet(s) \/ Reverse(s) \/ pc'[s] \notin {"debit", "credit"}
  BY DEF CheckWalletKey, LockWallet, ClaimDue, Submit, InsertConflicts,
         AcceptReference, DebitRefused, Goto, TypeInv, TypeOK
<1> QED
  BY <1>2, <1>3, <1>4, <1>5

(* A row that is only inserted has no entry. *)
LEMMA InsertKeepsEntries ==
  ASSUME TypeInv, OwnInv, EntryInv, NEW s \in Sessions, InsertRow(s)
  PROVE  DraftEntries(s)'
<1>1. /\ pc[s] = "insert" /\ pc'[s] = "walletKey"
      /\ rowDraft' = [rowDraft EXCEPT ![s][job[s].key] = NewRow(job[s])]
      /\ entryDraft'[s] = entryDraft[s] /\ wagers' = wagers /\ ledger' = ledger
  BY DEF InsertRow, UpdateRow, Goto, TypeInv, TypeOK, committed
<1>2. \A k \in Keys : ~Drafted(s, k)
  BY <1>1 DEF OwnInv, ClientOwns, WorkerOwns, Sessions, Unwritten
<1>3. DraftEntries(s)
  BY DEF EntryInv
<1>4. ASSUME NEW w \in Wallets, NEW i \in 1..Len(entryDraft[s][w]), NEW k, k = entryDraft[s][w][i].tx
      PROVE  FALSE
  <2>1. k \in Keys /\ rowDraft[s][k] # None
    BY <1>3, <1>4 DEF DraftEntries, DraftsRecord, DraftRecorded, Records
  <2> QED
    BY <1>2, <2>1 DEF Drafted
<1>5. ASSUME NEW k \in Keys PROVE ~MovesMoney(rowDraft'[s][k])
  <2>1. rowDraft'[s][k] = NewRow(job[s]) \/ rowDraft'[s][k] = None
    BY <1>1, <1>2 DEF Drafted, TypeInv, TypeOK
  <2> QED
    BY <2>1 DEF MovesMoney, NewRow
<1>6. DraftsRecord(s)' /\ DraftsApart(s)' /\ DraftsUndo(s)'
  BY <1>1, <1>4 DEF DraftsRecord, DraftRecorded, DraftsApart, TxApart, DraftsUndo
<1>7. RowsDrafted(s)'
  BY <1>5 DEF RowsDrafted, MovesMoney
<1> QED
  BY <1>1, <1>6, <1>7 DEF DraftEntries, Heading

(* An UPDATE of the balance comes with one entry of the row it processes, *)
(* in the direction the command asks for.                                  *)
LEMMA PostWrites ==
  ASSUME TypeInv, OwnInv, ReversalInv, EntryInv, NEW s \in Sessions, Debit(s) \/ Credit(s)
  PROVE  \E r \in Row, e \in Entry :
           /\ SettlesWith(s, r) /\ r.cmd = job[s] /\ r.reference = found[s]
           /\ r.status = "PROCESSED" /\ r.cmd.kind # "LOSS"
           /\ e.tx = job[s].key /\ Records(e, r, job[s].wallet)
           /\ \A w \in Wallets :
                entryDraft'[s][w] = IF w = job[s].wallet THEN Append(entryDraft[s][w], e)
                                                         ELSE entryDraft[s][w]
           /\ ledger' = ledger
<1>1. PICK direction \in {"DEBIT", "CREDIT"} :
        /\ Post(s, direction) /\ pc[s] \in {"debit", "credit"}
        /\ direction = Direction(job[s], found[s])
  BY DEF Debit, Credit, EntryInv, DraftEntries, Heading
<1> DEFINE r == MarkProcessed(JobRow(s), found[s], BalanceAfter(s, direction))
           e == [tx |-> job[s].key, direction |-> direction, amount |-> job[s].amount,
                 before |-> BalanceBefore(direction, BalanceAfter(s, direction), job[s].amount),
                 after |-> BalanceAfter(s, direction)]
<1>2. BalanceAfter(s, direction) \in Int /\ SettlesWith(s, r)
  BY <1>1, Processings
<1>3. /\ JobRow(s) \in Row /\ JobRow(s).cmd = job[s] /\ job[s].key \in Keys
      /\ job[s].wallet \in Wallets /\ job[s].amount \in Nat
  BY <1>1, JobRowOwned DEF Settling, Unwritten
<1>4. r \in Row /\ r # None
  BY <1>2, NoneAssumption DEF SettlesWith
<1>5. /\ r.cmd = job[s] /\ r.reference = found[s] /\ r.status = "PROCESSED"
      /\ r.observed = BalanceAfter(s, direction)
  BY <1>3 DEF MarkProcessed, Row
<1>6. job[s].kind # "LOSS"
  BY <1>1 DEF ReversalInv, SessionSound, Course, Reversing, Reversals
<1>7. /\ e \in Entry /\ e.tx = job[s].key /\ e.amount = job[s].amount
      /\ e.direction = direction /\ e.after = BalanceAfter(s, direction)
  BY <1>2, <1>3 DEF Entry, BalanceBefore
<1>8. entryDraft' = [entryDraft EXCEPT ![s][job[s].wallet] = Append(@, e)] /\ ledger' = ledger
  BY <1>1 DEF Post, BalanceAfter, committed
<1> HIDE DEF r, e
<1>9. Records(e, r, job[s].wallet)
  BY <1>1, <1>4, <1>5, <1>6, <1>7 DEF Records
<1>10. \A w \in Wallets :
         entryDraft'[s][w] = IF w = job[s].wallet THEN Append(entryDraft[s][w], e)
                                                  ELSE entryDraft[s][w]
  BY <1>3, <1>8 DEF TypeInv, TypeOK
<1> QED
  BY <1>2, <1>4, <1>5, <1>6, <1>7, <1>8, <1>9, <1>10

(* A row is settled without an entry when it is refused or postponed, and  *)
(* for a LOSS and a WIN of nothing.                                        *)
Quiet(r) ==
  r.status = "PROCESSED" =>
    r.cmd.kind = "LOSS" \/ (r.cmd.kind = "WIN" /\ r.cmd.amount = 0)

(* Every other outcome leaves a row that moves no money. *)
LEMMA QuietOutcome ==
  ASSUME TypeInv, OwnInv, NEW s \in Sessions, Outcome(s), ~(Debit(s) \/ Credit(s))
  PROVE  /\ entryDraft' = entryDraft /\ ledger' = ledger
         /\ \E r \in Row : SettlesWith(s, r) /\ Quiet(r)
<1> DEFINE q == JobRow(s)
<1>1. entryDraft' = entryDraft /\ ledger' = ledger
  BY DEF Outcome, LoadForeignWallet, SettleWithoutEntry, AwaitReference, RetryLater,
         GiveUp, RefuseReference, RefuseSecondReversal, Observe, Reject, NoBalanceChange, committed
<1>2. Settling(s) /\ pc[s] # "walletKey"
  BY OutcomeSettles DEF SettlesWith
<1>3. /\ q \in Row /\ q.cmd = job[s]
      /\ q.status = IF s \in Clients THEN "PENDING" ELSE "PENDING_REFERENCE"
  BY <1>2, JobRowOwned
<1>4. ASSUME NEW r, SettlesWith(s, r), r.status # "PROCESSED"
      PROVE  \E x \in Row : SettlesWith(s, x) /\ Quiet(x)
  BY <1>4 DEF SettlesWith, Quiet
<1>5. ASSUME NEW codes, RejectsWith(s, codes)
      PROVE  \E x \in Row : SettlesWith(s, x) /\ Quiet(x)
  <2>1. PICK code, b : SettlesWith(s, Rejected(q, code, b))
    BY <1>5 DEF RejectsWith
  <2>2. Rejected(q, code, b).status = "REJECTED"
    BY <1>3 DEF Rejected, Row
  <2> QED
    BY <1>4, <2>1, <2>2
<1>6. ASSUME LoadForeignWallet(s) \/ RefuseReference(s) \/ RefuseSecondReversal(s) \/ GiveUp(s)
      PROVE  \E x \in Row : SettlesWith(s, x) /\ Quiet(x)
  BY <1>5, <1>6, Refusals
<1>7. ASSUME Observe(s)
      PROVE  \E x \in Row : SettlesWith(s, x) /\ Quiet(x)
  <2>1. \A code, b : Rejected(q, code, b).status = "REJECTED"
    BY <1>3 DEF Rejected, Row
  <2> QED
    BY <1>4, <1>5, <1>7, <2>1, Refusals
<1>8. ASSUME SettleWithoutEntry(s)
      PROVE  \E x \in Row : SettlesWith(s, x) /\ Quiet(x)
  <2> DEFINE r == MarkProcessed(q, None, WalletSeen(s, job[s].wallet).balance)
  <2>1. SettlesWith(s, r)
    BY <1>8, Processings
  <2>2. r.cmd = job[s]
    BY <1>3 DEF MarkProcessed, Row
  <2>3. job[s].kind = "LOSS" \/ (job[s].kind = "WIN" /\ job[s].amount = 0)
    BY <1>8 DEF SettleWithoutEntry
  <2> HIDE DEF r
  <2> QED
    BY <2>1, <2>2, <2>3 DEF SettlesWith, Quiet
<1>9. ASSUME AwaitReference(s) \/ RetryLater(s)
      PROVE  \E x \in Row : SettlesWith(s, x) /\ Quiet(x)
  <2>1. /\ [q EXCEPT !.status = "PENDING_REFERENCE", !.attempts = q.attempts + 1].status
             # "PROCESSED"
        /\ [q EXCEPT !.attempts = q.attempts + 1].status # "PROCESSED"
    BY <1>3 DEF Row
  <2> QED
    BY <1>4, <1>9, <2>1, Postponements
<1> QED
  BY <1>1, <1>6, <1>7, <1>8, <1>9 DEF Outcome

(* The row of the job has no entry yet. *)
LEMMA JobHasNoEntry ==
  ASSUME TypeInv, OwnInv, EntryInv, NEW s \in Sessions, Settling(s), pc[s] # "walletKey",
         NEW w \in Wallets, NEW i \in 1..Len(entryDraft[s][w])
  PROVE  entryDraft[s][w][i].tx \in Keys /\ entryDraft[s][w][i].tx # job[s].key
<1>1. PICK k : k = entryDraft[s][w][i].tx
  OBVIOUS
<1>2. k \in Keys /\ rowDraft[s][k] # None /\ rowDraft[s][k].status = "PROCESSED"
  <2>1. DraftRecorded(s, w, i)
    BY DEF EntryInv, DraftEntries, DraftsRecord
  <2> QED
    BY <1>1, <2>1 DEF DraftRecorded, Records
<1>3. JobRow(s).status # "PROCESSED"
  BY JobRowOwned
<1> QED
  BY <1>1, <1>2, <1>3 DEF JobRow, RowSeen

(* An outcome without an entry. *)
LEMMA QuietKeepsEntries ==
  ASSUME TypeInv, OwnInv, EntryInv, NEW s \in Sessions, Outcome(s), ~(Debit(s) \/ Credit(s))
  PROVE  DraftEntries(s)'
<1>1. PICK r \in Row : SettlesWith(s, r) /\ ~MovesMoney(r)
  BY QuietOutcome DEF Quiet, MovesMoney
<1>2. PICK k \in Keys : k = job[s].key
  BY <1>1, QueueMoves
<1>3. /\ rowDraft'[s][k] = r /\ wagers' = wagers /\ ledger' = ledger /\ entryDraft' = entryDraft
      /\ \A j \in Keys \ {k} : rowDraft'[s][j] = rowDraft[s][j]
      /\ pc'[s] \in {"commit", "lockWallet"}
  BY <1>1, <1>2, QueueMoves, QuietOutcome DEF SettlesWith
<1>4. DraftEntries(s)
  BY DEF EntryInv
<1>5. \A w \in Wallets : \A i \in 1..Len(entryDraft[s][w]) :
        /\ entryDraft[s][w][i].tx \in Keys
        /\ rowDraft'[s][entryDraft[s][w][i].tx] = rowDraft[s][entryDraft[s][w][i].tx]
  BY <1>1, <1>2, <1>3, JobHasNoEntry DEF SettlesWith
<1>6. DraftsRecord(s)'
  <2>1. ASSUME NEW w \in Wallets, NEW i \in 1..Len(entryDraft'[s][w]),
               NEW e, e = entryDraft'[s][w][i], NEW j, j = e.tx
        PROVE  j \in Keys /\ Records(e, rowDraft'[s][j], w)
    BY <1>3, <1>4, <1>5, <2>1 DEF DraftEntries, DraftsRecord, DraftRecorded
  <2> QED
    <3>1. ASSUME NEW w \in Wallets, NEW i \in 1..Len(entryDraft'[s][w])
          PROVE  DraftRecorded(s, w, i)'
      <4>1. PICK e, j : e = entryDraft'[s][w][i] /\ j = e.tx
        OBVIOUS
      <4>2. j \in Keys /\ Records(e, rowDraft'[s][j], w)
        BY <2>1, <4>1
      <4> QED
        BY <1>3, <4>1, <4>2 DEF DraftRecorded, Records, Direction
    <3> QED
      BY <3>1 DEF DraftsRecord
<1>7. DraftsApart(s)'
  BY <1>3, <1>4 DEF DraftEntries, DraftsApart, TxApart
<1>8. RowsDrafted(s)'
  <2>1. ASSUME NEW j \in Keys, NEW q, q = rowDraft'[s][j], MovesMoney(q),
               NEW w \in Wallets, w = q.cmd.wallet
        PROVE  \E i \in 1..Len(entryDraft[s][w]) : entryDraft[s][w][i].tx = j
    <3>1. j # k /\ q = rowDraft[s][j]
      BY <1>1, <1>3, <2>1
    <3> QED
      BY <1>4, <2>1, <3>1 DEF DraftEntries, RowsDrafted
  <2> QED
    BY <1>3, <2>1 DEF RowsDrafted, MovesMoney
<1>9. DraftsUndo(s)'
  <2>1. \A w, j, ref : PostedBefore(s, w, j, ref)' <=> PostedBefore(s, w, j, ref)
    BY <1>3 DEF PostedBefore
  <2> QED
    BY <1>3, <1>4, <1>5, <2>1 DEF DraftEntries, DraftsUndo
<1> QED
  BY <1>3, <1>6, <1>7, <1>8, <1>9 DEF DraftEntries, Heading

(* A reversal reverses an entry its session sees: the row it found is      *)
(* processed, of the same wallet and the same amount.                      *)
LEMMA FoundIsPosted ==
  ASSUME TypeInv, ReversalInv, EntryInv, NEW s \in Sessions, pc[s] \in {"debit", "credit"},
         job[s].amount # 0, found[s] # None, NEW j, j = Len(entryDraft[s][job[s].wallet]) + 1
  PROVE  PostedBefore(s, job[s].wallet, j, found[s])
<1> DEFINE ref == found[s]
           q == RowSeen(s, ref)
<1>1. ref \in Keys /\ wagers[ref] # None /\ Reversible(job[s], q) /\ Reversing(s)
  BY DEF ReversalInv, SessionSound, FoundSound
<1>2. PICK w \in Wallets : w = job[s].wallet /\ Len(entryDraft[s][w]) \in Nat
  <2>1. job[s].wallet \in Wallets
    BY DEF TypeInv, Control, Early
  <2>2. entryDraft[s][job[s].wallet] \in Seq(Entry)
    BY <2>1 DEF TypeInv, TypeOK
  <2> QED
    BY <2>1, <2>2
<1>3. MovesMoney(q) /\ q.cmd.wallet = w
  BY <1>1, <1>2 DEF Reversible, MovesMoney, Reversing, Reversals, ReversibleBy
<1>4. CASE rowDraft[s][ref] # None
  <2>1. q = rowDraft[s][ref]
    BY <1>4 DEF RowSeen
  <2>2. PICK i \in 1..Len(entryDraft[s][w]) : entryDraft[s][w][i].tx = ref
    BY <1>1, <1>3, <2>1 DEF EntryInv, DraftEntries, RowsDrafted
  <2>3. i \in 1..(j - 1)
    BY <1>2
  <2> QED
    BY <1>2, <2>2, <2>3 DEF PostedBefore
<1>5. CASE rowDraft[s][ref] = None
  <2>1. q = wagers[ref]
    BY <1>5 DEF RowSeen
  <2> QED
    BY <1>1, <1>2, <1>3, <2>1 DEF EntryInv, RowsRecorded, PostedBefore
<1> QED
  BY <1>4, <1>5

(* An entry is added for the row that is processed with it, after the one  *)
(* it undoes.                                                              *)
LEMMA PostKeepsEntries ==
  ASSUME TypeInv, OwnInv, ReversalInv, EntryInv, NEW s \in Sessions, Debit(s) \/ Credit(s)
  PROVE  DraftEntries(s)'
<1>0. PICK r \in Row, e \in Entry :
        /\ SettlesWith(s, r) /\ r.cmd = job[s] /\ r.reference = found[s]
        /\ r.status = "PROCESSED" /\ r.cmd.kind # "LOSS"
        /\ e.tx = job[s].key /\ Records(e, r, job[s].wallet)
        /\ \A w \in Wallets :
             entryDraft'[s][w] = IF w = job[s].wallet THEN Append(entryDraft[s][w], e)
                                                      ELSE entryDraft[s][w]
        /\ ledger' = ledger
  BY PostWrites
<1>1. PICK k \in Keys, v \in Wallets : k = job[s].key /\ v = job[s].wallet
  BY <1>0, JobRowOwned DEF SettlesWith
<1> DEFINE n == Len(entryDraft[s][v])
<1>2. /\ rowDraft'[s][k] = r /\ wagers' = wagers
      /\ \A j \in Keys \ {k} : rowDraft'[s][j] = rowDraft[s][j]
      /\ pc'[s] \in {"commit", "lockWallet"}
  BY <1>0, <1>1, QueueMoves DEF SettlesWith
<1>3. DraftEntries(s)
  BY DEF EntryInv
<1>4. /\ n \in Nat /\ Len(entryDraft'[s][v]) = n + 1 /\ entryDraft'[s][v][n + 1] = e
      /\ \A i \in 1..n : entryDraft'[s][v][i] = entryDraft[s][v][i]
  <2>1. /\ entryDraft[s][v] \in Seq(Entry)
        /\ entryDraft'[s][v] = Append(entryDraft[s][v], e)
    BY <1>0, <1>1 DEF TypeInv, TypeOK
  <2> QED
    BY <2>1, Appended
<1>5. \A w \in Wallets : \A i \in 1..Len(entryDraft[s][w]) :
        /\ i \in 1..Len(entryDraft'[s][w]) /\ entryDraft'[s][w][i] = entryDraft[s][w][i]
        /\ entryDraft[s][w][i].tx \in Keys /\ entryDraft[s][w][i].tx # k
        /\ rowDraft'[s][entryDraft[s][w][i].tx] = rowDraft[s][entryDraft[s][w][i].tx]
  <2>1. ASSUME NEW w \in Wallets, NEW i \in 1..Len(entryDraft[s][w])
        PROVE  i \in 1..Len(entryDraft'[s][w]) /\ entryDraft'[s][w][i] = entryDraft[s][w][i]
    <3>1. CASE w = v
      BY <1>4, <3>1
    <3>2. CASE w # v
      BY <1>0, <1>1, <3>2
    <3> QED
      BY <3>1, <3>2
  <2> QED
    BY <1>0, <1>1, <1>2, <2>1, JobHasNoEntry DEF SettlesWith
<1>6. ASSUME NEW w \in Wallets, NEW i \in 1..Len(entryDraft'[s][w]), i \notin 1..Len(entryDraft[s][w])
      PROVE  w = v /\ i = n + 1
  <2>1. w = v
    BY <1>0, <1>1, <1>6
  <2> QED
    BY <1>4, <1>6, <2>1
<1> HIDE DEF n
<1>7. DraftsRecord(s)'
  <2>1. ASSUME NEW w \in Wallets, NEW i \in 1..Len(entryDraft'[s][w]),
               NEW x, x = entryDraft'[s][w][i], NEW j, j = x.tx
        PROVE  j \in Keys /\ Records(x, rowDraft'[s][j], w)
    <3>1. CASE i \in 1..Len(entryDraft[s][w])
      <4>1. DraftRecorded(s, w, i)
        BY <1>3, <3>1 DEF DraftEntries, DraftsRecord
      <4>2. /\ entryDraft'[s][w][i] = entryDraft[s][w][i]
            /\ rowDraft'[s][entryDraft[s][w][i].tx] = rowDraft[s][entryDraft[s][w][i].tx]
        BY <1>5, <3>1
      <4> QED
        BY <2>1, <4>1, <4>2 DEF DraftRecorded
    <3>2. CASE i \notin 1..Len(entryDraft[s][w])
      BY <1>0, <1>1, <1>2, <1>4, <1>6, <2>1, <3>2
    <3> QED
      BY <3>1, <3>2
  <2> QED
    <3>1. ASSUME NEW w \in Wallets, NEW i \in 1..Len(entryDraft'[s][w])
          PROVE  DraftRecorded(s, w, i)'
      <4>1. PICK f, j : f = entryDraft'[s][w][i] /\ j = f.tx
        OBVIOUS
      <4>2. j \in Keys /\ Records(f, rowDraft'[s][j], w)
        BY <2>1, <4>1
      <4> QED
        BY <1>2, <4>1, <4>2 DEF DraftRecorded, Records, Direction
    <3> QED
      BY <3>1 DEF DraftsRecord
<1>8. DraftsApart(s)'
  <2>1. ASSUME NEW w \in Wallets, NEW i \in 1..Len(entryDraft'[s][w]),
               i \notin 1..Len(entryDraft[s][w])
        PROVE  i = n + 1 /\ w = v /\ entryDraft'[s][w][i].tx = k
    BY <1>0, <1>1, <1>4, <1>6, <2>1
  <2>2. ASSUME NEW w \in Wallets, NEW i \in 1..Len(entryDraft[s][w])
        PROVE  entryDraft'[s][w][i].tx # k
    BY <1>5
  <2>3. ASSUME NEW w \in Wallets, NEW i \in 1..Len(entryDraft'[s][w]),
               NEW j \in 1..Len(entryDraft'[s][w]),
               entryDraft'[s][w][i].tx = entryDraft'[s][w][j].tx
        PROVE  i = j
    <3>1. CASE i \in 1..Len(entryDraft[s][w]) /\ j \in 1..Len(entryDraft[s][w])
      <4>1. entryDraft[s][w][i].tx = entryDraft[s][w][j].tx
        BY <1>5, <2>3, <3>1
      <4>2. TxApart(entryDraft[s][w])
        BY <1>3 DEF DraftEntries, DraftsApart
      <4> QED
        BY <3>1, <4>1, <4>2 DEF TxApart
    <3>2. CASE i \notin 1..Len(entryDraft[s][w]) /\ j \notin 1..Len(entryDraft[s][w])
      BY <2>1, <3>2
    <3>3. CASE i \in 1..Len(entryDraft[s][w]) /\ j \notin 1..Len(entryDraft[s][w])
      BY <2>1, <2>2, <2>3, <3>3
    <3>4. CASE i \notin 1..Len(entryDraft[s][w]) /\ j \in 1..Len(entryDraft[s][w])
      BY <2>1, <2>2, <2>3, <3>4
    <3> QED
      BY <3>1, <3>2, <3>3, <3>4
  <2> QED
    BY <2>3 DEF DraftsApart, TxApart
<1>9. RowsDrafted(s)'
  <2>1. ASSUME NEW j \in Keys, NEW q, q = rowDraft'[s][j], MovesMoney(q),
               NEW w \in Wallets, w = q.cmd.wallet
        PROVE  \E i \in 1..Len(entryDraft'[s][w]) : entryDraft'[s][w][i].tx = j
    <3>1. CASE j = k
      <4>1. w = v /\ n + 1 \in 1..(n + 1)
        BY <1>0, <1>1, <1>2, <1>4, <2>1, <3>1
      <4> QED
        BY <1>0, <1>1, <1>4, <3>1, <4>1
    <3>2. CASE j # k
      <4>1. q = rowDraft[s][j]
        BY <1>2, <2>1, <3>2
      <4>2. \E i \in 1..Len(entryDraft[s][w]) : entryDraft[s][w][i].tx = j
        BY <1>3, <2>1, <4>1 DEF DraftEntries, RowsDrafted
      <4> QED
        BY <1>5, <4>2
    <3> QED
      BY <3>1, <3>2
  <2> QED
    BY <2>1 DEF RowsDrafted, MovesMoney
<1>10. DraftsUndo(s)'
  <2>1. ASSUME NEW w \in Wallets, NEW j \in 1..(Len(entryDraft[s][w]) + 1), NEW ref,
               PostedBefore(s, w, j, ref)
        PROVE  PostedBefore(s, w, j, ref)'
    <3>1. \A i \in 1..(j - 1) : i \in 1..Len(entryDraft[s][w])
      BY DEF TypeInv, TypeOK
    <3>2. CASE \E i \in 1..Len(ledger[w]) : ledger[w][i].tx = ref
      BY <1>0, <3>2 DEF PostedBefore
    <3>3. CASE \E i \in 1..(j - 1) : entryDraft[s][w][i].tx = ref
      <4>1. \A i \in 1..(j - 1) : entryDraft'[s][w][i] = entryDraft[s][w][i]
        BY <1>5, <3>1
      <4> QED
        BY <3>3, <4>1 DEF PostedBefore
    <3> QED
      BY <2>1, <3>2, <3>3 DEF PostedBefore
  <2>2. ASSUME NEW w \in Wallets, NEW j \in 1..Len(entryDraft'[s][w]),
               NEW x, x = entryDraft'[s][w][j], NEW h \in Keys, h = x.tx,
               NEW ref \in Keys, ref = rowDraft'[s][h].reference, x.amount # 0
        PROVE  PostedBefore(s, w, j, ref)'
    <3>1. CASE j \in 1..Len(entryDraft[s][w])
      <4>1. x = entryDraft[s][w][j] /\ ref = rowDraft[s][h].reference
        <5>1. x = entryDraft[s][w][j]
          BY <1>5, <2>2, <3>1
        <5>2. rowDraft'[s][h] = rowDraft[s][h]
          BY <1>5, <2>2, <3>1, <5>1
        <5> QED
          BY <2>2, <5>1, <5>2
      <4>2. PostedBefore(s, w, j, ref)
        BY <1>3, <2>2, <3>1, <4>1 DEF DraftEntries, DraftsUndo
      <4>3. j \in 1..(Len(entryDraft[s][w]) + 1)
        BY <3>1 DEF TypeInv, TypeOK
      <4> QED
        BY <2>1, <4>2, <4>3
    <3>2. CASE j \notin 1..Len(entryDraft[s][w])
      <4>1. w = v /\ j = n + 1 /\ x = e /\ ref = found[s]
        BY <1>0, <1>1, <1>2, <1>4, <1>6, <2>2, <3>2
      <4>2. job[s].amount # 0
        BY <1>0, <2>2, <4>1 DEF Records
      <4>3. PostedBefore(s, v, j, found[s])
        BY <1>1, <2>2, <4>1, <4>2, FoundIsPosted, NoneAssumption DEF Debit, Credit, n
      <4>4. j \in 1..(Len(entryDraft[s][w]) + 1)
        BY <1>4, <4>1 DEF n
      <4> QED
        BY <2>1, <4>1, <4>3, <4>4
    <3> QED
      BY <3>1, <3>2
  <2> QED
    BY <2>2 DEF DraftsUndo
<1> QED
  BY <1>2, <1>7, <1>8, <1>9, <1>10 DEF DraftEntries, Heading

-----------------------------------------------------------------------------
(* What is committed *)

CommittedEntries ==
  EntriesRecord /\ EntriesApart /\ RowsRecorded /\ UndoneFirst /\ UniqueReversals

(* A commit puts the rows and the entries of a session after those that    *)
(* were there: of rows that were not settled, so that no row gets a second *)
(* entry.                                                                  *)
LEMMA CommitKeepsEntries ==
  ASSUME TypeInv, OwnInv, ReversalInv, EntryInv, NEW s \in Sessions, Commit(s)
  PROVE  CommittedEntries'
<1>1. /\ \A k \in Keys : wagers'[k] = RowSeen(s, k)
      /\ \A w \in Wallets : ledger'[w] = ledger[w] \o entryDraft[s][w]
      /\ EntriesPositive(s) /\ ReversalIndexHolds(s) /\ StepOf(s)
  BY DEF Commit, StepOf, Statement
<1>2. DraftEntries(s) /\ SessionSound(s)
  BY DEF EntryInv, ReversalInv
<1>3. ASSUME NEW k \in Keys
      PROVE  /\ Drafted(s, k) => /\ wagers'[k] = rowDraft[s][k] /\ RowSound(rowDraft[s][k])
                                 /\ wagers[k] = None \/ wagers[k].status # "PROCESSED"
             /\ ~Drafted(s, k) => wagers'[k] = wagers[k]
             /\ wagers[k] # None /\ wagers[k].status = "PROCESSED" => wagers'[k] = wagers[k]
  BY <1>1, DraftedIsOpen, StepKeepsSettled DEF RowSeen, Drafted, ReversalInv, RowsSound, Terminal
<1>4. ASSUME NEW w \in Wallets
      PROVE  /\ Len(ledger[w]) \in Nat /\ Len(entryDraft[s][w]) \in Nat
             /\ Len(ledger'[w]) = Len(ledger[w]) + Len(entryDraft[s][w])
             /\ \A i \in 1..Len(ledger[w]) :
                  i \in 1..Len(ledger'[w]) /\ ledger'[w][i] = ledger[w][i]
             /\ \A i \in 1..Len(entryDraft[s][w]) :
                  /\ i + Len(ledger[w]) \in 1..Len(ledger'[w])
                  /\ ledger'[w][i + Len(ledger[w])] = entryDraft[s][w][i]
             /\ \A i \in 1..Len(ledger'[w]) : i \notin 1..Len(ledger[w]) =>
                  /\ i - Len(ledger[w]) \in 1..Len(entryDraft[s][w])
                  /\ ledger'[w][i] = entryDraft[s][w][i - Len(ledger[w])]
  <2> DEFINE l == ledger[w]
             m == entryDraft[s][w]
  <2>1. l \in Seq(Entry) /\ m \in Seq(Entry)
    BY DEF TypeInv, TypeOK
  <2>2. ledger'[w] = l \o m
    BY <1>1
  <2> HIDE DEF l, m
  <2>3. /\ Len(l) \in Nat /\ Len(m) \in Nat /\ Len(l \o m) = Len(l) + Len(m)
        /\ \A i \in 1..Len(l) : i \in 1..Len(l \o m) /\ (l \o m)[i] = l[i]
        /\ \A i \in 1..Len(m) : /\ i + Len(l) \in 1..Len(l \o m)
                               /\ (l \o m)[i + Len(l)] = m[i]
        /\ \A i \in 1..Len(l \o m) : i \notin 1..Len(l) =>
             i - Len(l) \in 1..Len(m) /\ (l \o m)[i] = m[i - Len(l)]
    BY <2>1, Concatenated
  <2> QED
    BY <2>2, <2>3 DEF l, m
(* An old entry is of a row that is still the same, a new one of a row     *)
(* that was not settled.                                                   *)
<1>5. ASSUME NEW w \in Wallets, NEW i \in 1..Len(ledger[w]), ledger[w][i].tx # "opening"
      PROVE  /\ ledger[w][i].tx \in Keys /\ ~Drafted(s, ledger[w][i].tx)
             /\ wagers'[ledger[w][i].tx] = wagers[ledger[w][i].tx]
  <2>1. PICK k : k = ledger[w][i].tx
    OBVIOUS
  <2>2. k \in Keys /\ wagers[k] # None /\ wagers[k].status = "PROCESSED"
    BY <1>5, <2>1 DEF EntryInv, EntriesRecord, Records
  <2> QED
    BY <1>3, <2>1, <2>2
<1>6. ASSUME NEW w \in Wallets, NEW i \in 1..Len(entryDraft[s][w])
      PROVE  /\ entryDraft[s][w][i].tx \in Keys /\ Drafted(s, entryDraft[s][w][i].tx)
             /\ wagers'[entryDraft[s][w][i].tx] = rowDraft[s][entryDraft[s][w][i].tx]
             /\ entryDraft[s][w][i].amount > 0
  <2>1. PICK k : k = entryDraft[s][w][i].tx
    OBVIOUS
  <2>2. k \in Keys /\ Drafted(s, k)
    BY <1>2, <2>1 DEF DraftEntries, DraftsRecord, DraftRecorded, Records, Drafted
  <2>3. entryDraft[s][w][i].amount > 0
    BY <1>1 DEF EntriesPositive, TypeInv, TypeOK
  <2> QED
    BY <1>3, <2>1, <2>2, <2>3
<1>7. EntriesRecord'
  <2>1. ASSUME NEW w \in Wallets, NEW i \in 1..Len(ledger'[w]), NEW e, e = ledger'[w][i],
               NEW k, k = e.tx, k # "opening"
        PROVE  e.amount > 0 /\ k \in Keys /\ \E r : r = wagers'[k] /\ Records(e, r, w)'
    <3>1. CASE i \in 1..Len(ledger[w])
      <4>1. e = ledger[w][i]
        BY <1>4, <2>1, <3>1
      <4>2. e.amount > 0 /\ k \in Keys /\ Records(e, wagers[k], w)
        BY <2>1, <3>1, <4>1 DEF EntryInv, EntriesRecord
      <4>3. wagers'[k] = wagers[k]
        BY <1>5, <2>1, <3>1, <4>1
      <4>4. ASSUME NEW r, r = wagers[k] PROVE Records(e, r, w)'
        BY <1>1, <4>2, <4>4, RecordsStay
      <4> QED
        BY <4>2, <4>3, <4>4
    <3>2. CASE i \notin 1..Len(ledger[w])
      <4>1. PICK j \in 1..Len(entryDraft[s][w]) : e = entryDraft[s][w][j]
        BY <1>4, <2>1, <3>2
      <4>2. k \in Keys /\ wagers'[k] = rowDraft[s][k] /\ e.amount > 0
        BY <1>6, <2>1, <4>1
      <4>3. Records(e, rowDraft[s][k], w)
        BY <1>2, <2>1, <4>1 DEF DraftEntries, DraftsRecord, DraftRecorded
      <4>4. ASSUME NEW r, r = rowDraft[s][k] PROVE Records(e, r, w)'
        BY <1>1, <4>2, <4>3, <4>4, RecordsStay
      <4> QED
        BY <4>2, <4>4
    <3> QED
      BY <3>1, <3>2
  <2>2. ASSUME NEW w \in Wallets, NEW i \in 1..Len(ledger'[w]), NEW e, e = ledger'[w][i],
               NEW k, k = e.tx, k # "opening"
        PROVE  e.amount > 0 /\ k \in Keys /\ Records(e, wagers[k], w)'
    BY <2>1, <2>2 DEF Records, Direction
  <2> QED
    BY <2>2 DEF EntriesRecord, Records, Direction
<1>8. EntriesApart'
  <2>1. ASSUME NEW w \in Wallets, NEW i \in 1..Len(ledger[w]),
               NEW j \in 1..Len(entryDraft[s][w])
        PROVE  ledger[w][i].tx # entryDraft[s][w][j].tx
    BY <1>5, <1>6, OpeningAssumption
  <2>2. ASSUME NEW w \in Wallets, NEW i \in 1..Len(ledger'[w]), NEW j \in 1..Len(ledger'[w]),
               ledger'[w][i].tx = ledger'[w][j].tx
        PROVE  i = j
    <3>1. CASE i \in 1..Len(ledger[w]) /\ j \in 1..Len(ledger[w])
      <4>1. ledger[w][i].tx = ledger[w][j].tx
        BY <1>4, <2>2, <3>1
      <4>2. TxApart(ledger[w])
        BY DEF EntryInv, EntriesApart
      <4> QED
        BY <3>1, <4>1, <4>2 DEF TxApart
    <3>2. CASE i \notin 1..Len(ledger[w]) /\ j \notin 1..Len(ledger[w])
      <4> DEFINE n == Len(ledger[w])
      <4>1. /\ i - n \in 1..Len(entryDraft[s][w]) /\ j - n \in 1..Len(entryDraft[s][w])
            /\ entryDraft[s][w][i - n].tx = entryDraft[s][w][j - n].tx
            /\ n \in Nat
        BY <1>4, <2>2, <3>2
      <4>2. TxApart(entryDraft[s][w])
        BY <1>2 DEF DraftEntries, DraftsApart
      <4>3. i - n = j - n
        BY <4>1, <4>2 DEF TxApart
      <4> QED
        BY <1>4, <4>1, <4>3
    <3>3. CASE i \in 1..Len(ledger[w]) /\ j \notin 1..Len(ledger[w])
      <4>1. PICK h \in 1..Len(entryDraft[s][w]) : h = j - Len(ledger[w])
        BY <1>4, <3>3
      <4>2. ledger'[w][i] = ledger[w][i] /\ ledger'[w][j] = entryDraft[s][w][h]
        BY <1>4, <3>3, <4>1
      <4> QED
        BY <2>1, <2>2, <3>3, <4>2
    <3>4. CASE i \notin 1..Len(ledger[w]) /\ j \in 1..Len(ledger[w])
      <4>1. PICK h \in 1..Len(entryDraft[s][w]) : h = i - Len(ledger[w])
        BY <1>4, <3>4
      <4>2. ledger'[w][j] = ledger[w][j] /\ ledger'[w][i] = entryDraft[s][w][h]
        BY <1>4, <3>4, <4>1
      <4> QED
        BY <2>1, <2>2, <3>4, <4>2
    <3> QED
      BY <3>1, <3>2, <3>3, <3>4
  <2> QED
    BY <2>2 DEF EntriesApart, TxApart
<1>9. RowsRecorded'
  <2>1. ASSUME NEW k \in Keys, NEW w \in Wallets, NEW r, r = wagers'[k], MovesMoney(r),
               r.cmd.wallet = w
        PROVE  \E i \in 1..Len(ledger'[w]) : ledger'[w][i].tx = k
    <3>1. CASE Drafted(s, k)
      <4>1. PICK i \in 1..Len(entryDraft[s][w]) : entryDraft[s][w][i].tx = k
        BY <1>2, <1>3, <2>1, <3>1 DEF DraftEntries, RowsDrafted
      <4> QED
        BY <1>4, <4>1
    <3>2. CASE ~Drafted(s, k)
      <4>1. PICK i \in 1..Len(ledger[w]) : ledger[w][i].tx = k
        BY <1>3, <2>1, <3>2 DEF EntryInv, RowsRecorded
      <4> QED
        BY <1>4, <4>1
    <3> QED
      BY <3>1, <3>2
  <2> QED
    BY <2>1 DEF RowsRecorded, MovesMoney
<1>10. UndoneFirst'
  <2>1. ASSUME NEW w \in Wallets, NEW j \in 1..Len(ledger'[w]), NEW k \in Keys, NEW ref \in Keys,
               ledger'[w][j].tx = k, wagers'[k].reference = ref
        PROVE  \E i \in 1..(j - 1) : ledger'[w][i].tx = ref
    <3>1. CASE j \in 1..Len(ledger[w])
      <4>1. ledger[w][j].tx = k /\ wagers[k].reference = ref
        <5>1. ledger[w][j].tx = k
          BY <1>4, <2>1, <3>1
        <5>2. k # "opening"
          BY OpeningAssumption
        <5>3. wagers'[k] = wagers[k]
          BY <1>5, <3>1, <5>1, <5>2
        <5> QED
          BY <2>1, <5>1, <5>3
      <4>2. PICK i \in 1..(j - 1) : ledger[w][i].tx = ref
        BY <3>1, <4>1 DEF EntryInv, UndoneFirst
      <4>3. i \in 1..Len(ledger[w])
        BY <1>4, <3>1
      <4> QED
        BY <1>4, <4>2, <4>3
    <3>2. CASE j \notin 1..Len(ledger[w])
      <4> DEFINE n == Len(ledger[w])
      <4>1. /\ j - n \in 1..Len(entryDraft[s][w]) /\ entryDraft[s][w][j - n].tx = k
            /\ n \in Nat
        BY <1>4, <2>1, <3>2
      <4>2. rowDraft[s][k].reference = ref /\ entryDraft[s][w][j - n].amount # 0
        <5>1. PICK h \in 1..Len(entryDraft[s][w]) : h = j - n
          BY <4>1
        <5>2. entryDraft[s][w][h].tx = k
          BY <4>1, <5>1
        <5>3. wagers'[k] = rowDraft[s][k] /\ entryDraft[s][w][h].amount > 0
          BY <1>6, <5>2
        <5>4. entryDraft[s][w][h].amount \in Nat
          <6>1. entryDraft[s][w] \in Seq(Entry)
            BY DEF TypeInv, TypeOK
          <6>2. entryDraft[s][w][h] \in Entry
            BY <6>1
          <6> QED
            BY <6>2 DEF Entry
        <5> QED
          BY <2>1, <5>1, <5>3, <5>4
      <4>3. PostedBefore(s, w, j - n, ref)
        BY <1>2, <4>1, <4>2 DEF DraftEntries, DraftsUndo
      <4>4. CASE \E i \in 1..Len(ledger[w]) : ledger[w][i].tx = ref
        <5>1. PICK i \in 1..Len(ledger[w]) : ledger[w][i].tx = ref
          BY <4>4
        <5>2. i \in 1..(j - 1)
          BY <1>4, <3>2
        <5> QED
          BY <1>4, <5>1, <5>2
      <4>5. CASE \E i \in 1..((j - n) - 1) : entryDraft[s][w][i].tx = ref
        <5>1. PICK i \in 1..((j - n) - 1) : entryDraft[s][w][i].tx = ref
          BY <4>5
        <5>2. i \in 1..Len(entryDraft[s][w]) /\ i + n \in 1..(j - 1)
          BY <1>4, <4>1
        <5> QED
          BY <1>4, <5>1, <5>2
      <4> QED
        BY <4>3, <4>4, <4>5 DEF PostedBefore
    <3> QED
      BY <3>1, <3>2
  <2> QED
    BY <2>1 DEF UndoneFirst
<1>11. UniqueReversals'
  <2>1. ASSUME NEW k \in Keys, NEW l \in Keys, Drafted(s, k),
               wagers'[k] # None, wagers'[l] # None, wagers'[k].reference # None,
               wagers'[k].reference = wagers'[l].reference,
               wagers'[k].cmd.kind = wagers'[l].cmd.kind
        PROVE  k = l
    <3>1. /\ wagers'[k] = rowDraft[s][k] /\ rowDraft[s][k] # None
          /\ rowDraft[s][k].status = "PROCESSED"
      BY <1>3, <2>1 DEF RowSound, Drafted
    <3>2. ProcessedReversals(s, rowDraft[s][k].reference, rowDraft[s][k].cmd.kind) = {k}
      BY <1>1, <2>1, <3>1 DEF ReversalIndexHolds
    <3>3. wagers'[l].status = "PROCESSED"
      BY <1>3, <2>1 DEF RowSound, ReversalInv, RowsSound
    <3>4. l \in ProcessedReversals(s, rowDraft[s][k].reference, rowDraft[s][k].cmd.kind)
      BY <1>1, <2>1, <3>1, <3>3 DEF ProcessedReversals
    <3> QED
      BY <3>2, <3>4
  <2>2. ASSUME NEW k \in Keys, NEW l \in Keys, ~Drafted(s, k), ~Drafted(s, l),
               wagers'[k] # None, wagers'[l] # None, wagers'[k].reference # None,
               wagers'[k].reference = wagers'[l].reference,
               wagers'[k].cmd.kind = wagers'[l].cmd.kind
        PROVE  k = l
    BY <1>3, <2>2 DEF EntryInv, UniqueReversals
  <2> QED
    BY <2>1, <2>2 DEF UniqueReversals
<1> QED
  BY <1>7, <1>8, <1>9, <1>10, <1>11 DEF CommittedEntries

(* What is said of the committed entries needs only rows and ledgers. *)
LEMMA CommittedStay ==
  ASSUME EntryInv, UNCHANGED <<wagers, ledger>>
  PROVE  CommittedEntries'
<1>1. EntriesRecord'
  <2>1. \A e, r, w : Records(e, r, w)' <=> Records(e, r, w)
    BY DEF Records, Direction
  <2> QED
    BY <2>1 DEF EntryInv, EntriesRecord
<1>2. EntriesApart' /\ RowsRecorded' /\ UndoneFirst' /\ UniqueReversals'
  BY DEF EntryInv, EntriesApart, TxApart, RowsRecorded, MovesMoney, UndoneFirst, UniqueReversals
<1> QED
  BY <1>1, <1>2 DEF CommittedEntries

(* Only a commit changes what is committed. *)
LEMMA StepKeepsCommittedEntries ==
  ASSUME TypeInv, OwnInv, ReversalInv, EntryInv, NEW s \in Sessions, StepOf(s)
  PROVE  CommittedEntries'
<1>1. CASE Commit(s)
  BY <1>1, CommitKeepsEntries
<1>2. CASE ~Commit(s)
  BY <1>2, OnlyCommitPublishes, CommittedStay DEF committed
<1> QED
  BY <1>1, <1>2

(* No step breaks the correspondence of rows and entries. *)
LEMMA NextKeepsEntries ==
  TypeInv /\ OwnInv /\ ReversalInv /\ EntryInv /\ [Next]_vars => EntryInv'
<1> SUFFICES ASSUME TypeInv, OwnInv, ReversalInv, EntryInv, [Next]_vars
             PROVE  EntryInv'
  OBVIOUS
<1>1. CASE UNCHANGED vars
  <2>1. /\ UNCHANGED <<wagers, ledger>> /\ pc' = pc /\ job' = job /\ found' = found
        /\ rowDraft' = rowDraft /\ entryDraft' = entryDraft
    BY <1>1 DEF vars, committed, drafts
  <2>2. \A s \in Sessions : Heading(s)'
    BY <2>1 DEF EntryInv, DraftEntries, Heading, Direction
  <2>3. \A s \in Sessions : DraftEntries(s)'
    BY <2>1, <2>2, DraftsKept
  <2> QED
    BY <2>1, <2>3, CommittedStay DEF EntryInv, CommittedEntries
<1>2. ASSUME NEW s \in Sessions, StepOf(s) PROVE EntryInv'
  <2>1. CommittedEntries'
    BY <1>2, StepKeepsCommittedEntries
  <2>2. ASSUME NEW t \in Sessions PROVE DraftEntries(t)'
    <3>1. CASE StepOf(t)
      BY <3>1, StepKinds, EndKeepsEntries, QuietKeepsEntries, PostKeepsEntries,
         InsertKeepsEntries, MoveKeepsEntries
    <3>2. CASE t # s
      BY <1>2, <3>2, OthersKeepEntries
    <3> QED
      BY <1>2, <3>1, <3>2
  <2> QED
    BY <2>1, <2>2 DEF EntryInv, CommittedEntries
<1> QED
  BY <1>1, <1>2 DEF Next, StepOf

(* Every invariant of the processor, in every reachable state.             *)
LEMMA EntriesAlways == Spec => [](TypeInv /\ OwnInv /\ LedgerInv /\ ReversalInv /\ EntryInv)
<1>1. Init => EntryInv
  BY InitEntryInv
<1>2. TypeInv /\ OwnInv /\ LedgerInv /\ ReversalInv /\ EntryInv /\ [Next]_vars => EntryInv'
  BY NextKeepsEntries
<1> QED
  BY <1>1, <1>2, ReversalsAlways, PTL DEF Spec

-----------------------------------------------------------------------------
(* Retries, replays, duplicates and crashes included: one ledger entry for *)
(* each processed row that moves money, in its own wallet, of its amount,  *)
(* ending at the balance it reports; none for any other row.               *)
THEOREM OneEntryPerRow == Spec => []OneEntryPerProcessedRow
<1>1. TypeInv /\ EntryInv => OneEntryPerProcessedRow
  <2> SUFFICES ASSUME TypeInv, EntryInv PROVE OneEntryPerProcessedRow
    OBVIOUS
  <2>1. ASSUME NEW w \in Wallets PROVE DOMAIN ledger[w] = 1..Len(ledger[w])
    <3>1. ledger[w] \in Seq(Entry)
      BY DEF TypeInv, TypeOK
    <3> QED
      BY <3>1
  <2>2. ASSUME NEW w \in Wallets, NEW i \in DOMAIN ledger[w], NEW j \in DOMAIN ledger[w],
               ledger[w][i].tx = ledger[w][j].tx
        PROVE  i = j
    BY <2>1, <2>2 DEF EntryInv, EntriesApart, TxApart
  <2>3. ASSUME NEW w \in Wallets, NEW i \in DOMAIN ledger[w], NEW e, e = ledger[w][i],
               NEW k, k = e.tx, k # "opening"
        PROVE  /\ MovesMoney(wagers[k]) /\ wagers[k].cmd.wallet = w
               /\ wagers[k].cmd.amount = e.amount /\ wagers[k].observed = e.after
    <3>1. e.amount > 0 /\ Records(e, wagers[k], w)
      BY <2>1, <2>3 DEF EntryInv, EntriesRecord
    <3> QED
      BY <3>1 DEF Records, MovesMoney
  <2>4. ASSUME NEW k \in Keys, MovesMoney(wagers[k]), NEW w, w = wagers[k].cmd.wallet
        PROVE  \E i \in DOMAIN ledger[w] : ledger[w][i].tx = k
    <3>1. w \in Wallets
      BY <2>4 DEF TypeInv, RowsKeyed, MovesMoney
    <3> QED
      BY <2>1, <2>4, <3>1 DEF EntryInv, RowsRecorded
  <2> QED
    BY <2>2, <2>3, <2>4 DEF OneEntryPerProcessedRow
<1> QED
  BY <1>1, EntriesAlways, PTL

(* A processed reversal undoes one earlier entry of the same wallet, by    *)
(* the same amount in the other direction, and no other of its kind does.  *)
THEOREM ReversalsUndo == Spec => []ReversalsUndoOneEntry
<1>1. TypeInv /\ ReversalInv /\ EntryInv => ReversalsUndoOneEntry
  <2> SUFFICES ASSUME TypeInv, ReversalInv, EntryInv,
                      NEW k \in Keys, MovesMoney(wagers[k]), wagers[k].cmd.kind \in Reversals
               PROVE  /\ \E i, j \in DOMAIN ledger[wagers[k].cmd.wallet] :
                           LET undone == ledger[wagers[k].cmd.wallet][i]
                               entry  == ledger[wagers[k].cmd.wallet][j]
                           IN  /\ i < j
                               /\ undone.tx = wagers[k].reference /\ entry.tx = k
                               /\ undone.amount = entry.amount
                               /\ undone.direction # entry.direction
                      /\ \A l \in Keys : /\ MovesMoney(wagers[l])
                                        /\ wagers[l].cmd.kind = wagers[k].cmd.kind
                                        /\ wagers[l].reference = wagers[k].reference
                                       => l = k
    BY DEF ReversalsUndoOneEntry
  <2>1. PICK r : r = wagers[k]
    OBVIOUS
  <2>2. PICK w : w = r.cmd.wallet
    OBVIOUS
  <2>3. /\ r # None /\ r.status = "PROCESSED" /\ r.cmd.kind \in Reversals
        /\ w \in Wallets /\ r \in Row /\ r.reference # None
    BY <2>1, <2>2 DEF MovesMoney, TypeInv, TypeOK, RowsKeyed, ReversalInv, RowsSound, RowSound
  <2>4. PICK ref \in Keys : ref = r.reference
    BY <2>3 DEF Row
  <2>5. PICK q : q = wagers[ref]
    OBVIOUS
  <2>6. /\ q # None /\ q.cmd.amount = r.cmd.amount
        /\ q.cmd.kind \in ReversibleBy[r.cmd.kind]
    BY <2>1, <2>3, <2>4, <2>5 DEF ReversalInv, ReferencesStand, Reversible
  <2>7. PICK j \in 1..Len(ledger[w]) : ledger[w][j].tx = k
    BY <2>1, <2>2, <2>3 DEF EntryInv, RowsRecorded
  <2>8. PICK i \in 1..(j - 1) : ledger[w][i].tx = ref
    BY <2>1, <2>3, <2>4, <2>7 DEF EntryInv, UndoneFirst
  <2>9. /\ Len(ledger[w]) \in Nat /\ DOMAIN ledger[w] = 1..Len(ledger[w])
        /\ i \in 1..Len(ledger[w]) /\ i < j
    <3>1. ledger[w] \in Seq(Entry)
      BY <2>3 DEF TypeInv, TypeOK
    <3> QED
      BY <3>1
  <2>10. /\ Records(ledger[w][j], r, w) /\ Records(ledger[w][i], q, w)
    BY <2>1, <2>3, <2>5, <2>7, <2>8, <2>9, OpeningAssumption DEF EntryInv, EntriesRecord
  <2>11. ledger[w][i].amount = ledger[w][j].amount
    BY <2>6, <2>10 DEF Records
  <2>12. ledger[w][i].direction # ledger[w][j].direction
    <3>1. /\ ledger[w][i].direction = LedgerDirectionFor(q.cmd.kind, wagers[q.reference].cmd.kind)
          /\ ledger[w][j].direction = LedgerDirectionFor(r.cmd.kind, q.cmd.kind)
      BY <2>4, <2>5, <2>10 DEF Records, Direction
    <3>2. CASE r.cmd.kind = "REFUND"
      BY <2>6, <3>1, <3>2 DEF ReversibleBy, LedgerDirectionFor, ResolveLedgerDirection
    <3>3. CASE r.cmd.kind = "ROLLBACK"
      BY <2>6, <3>1, <3>3 DEF ReversibleBy, LedgerDirectionFor, ResolveLedgerDirection
    <3> QED
      BY <2>3, <3>2, <3>3 DEF Reversals
  <2>13. ASSUME NEW l \in Keys, MovesMoney(wagers[l]), wagers[l].cmd.kind = r.cmd.kind,
                wagers[l].reference = r.reference
         PROVE  l = k
    BY <2>1, <2>3, <2>13 DEF EntryInv, UniqueReversals, MovesMoney
  <2> QED
    BY <2>1, <2>2, <2>4, <2>7, <2>8, <2>9, <2>11, <2>12, <2>13
<1> QED
  BY <1>1, EntriesAlways, PTL

-----------------------------------------------------------------------------
(* The events                                                              *)
(*                                                                         *)
(* Again the same is said of what is committed and of what each session    *)
(* has written: the balance events number the entries from the version the *)
(* wallet had before them (Numbers), and the events of a row tell what was *)
(* made of it since its last commit (News).                                *)

Changed(e) == e.type = "WalletBalanceChanged"

(* The balance events tell the entries after the first few, one each and   *)
(* in order, the j-th with version offset + j.                             *)
Numbers(events, entries, offset, first) ==
  /\ \A i \in 1..Len(events) : Changed(events[i]) =>
       \E j \in (first + 1)..Len(entries) :
         events[i].version = offset + j /\ events[i].tx = entries[j].tx
  /\ \A j \in (first + 1)..Len(entries) :
       \E i \in 1..Len(events) : Changed(events[i]) /\ events[i].version = offset + j
  /\ \A i, j \in 1..Len(events) :
       i < j /\ Changed(events[i]) /\ Changed(events[j])
         => events[i].version < events[j].version

NumbersCommitted ==
  \A w \in Wallets :
    LET opening == Len(OpeningLedger(w)) IN
    /\ opening <= Len(ledger[w])
    /\ wallets[w].version = 1 - opening + Len(ledger[w])
    /\ Numbers(outbox[w], ledger[w], 1 - opening, opening)

NumbersDrafted(s) ==
  \A w \in Wallets :
    /\ WalletSeen(s, w).version = wallets[w].version + Len(entryDraft[s][w])
    /\ Numbers(eventDraft[s][w], entryDraft[s][w], wallets[w].version, 0)

Told(events, k, type) ==
  \E i \in 1..Len(events) : events[i].tx = k /\ events[i].type = type

InOrder(events) ==
  \A i, j \in 1..Len(events) :
    i < j /\ events[i].tx = events[j].tx
      => Chapter[events[i].type] < Chapter[events[j].type]

Posted(s, w, k) == \E j \in 1..Len(entryDraft[s][w]) : entryDraft[s][w][j].tx = k

(* What s has to tell of its row of k. *)
News(s, w, k, type) ==
  \/ /\ type = "WagerTransactionPendingReference"
     /\ wagers[k] = None /\ rowDraft[s][k].attempts > 0
  \/ type = "WagerTransactionRejected" /\ rowDraft[s][k].status = "REJECTED"
  \/ type = "WagerTransactionProcessed" /\ rowDraft[s][k].status = "PROCESSED"
  \/ type = "WalletBalanceChanged" /\ Posted(s, w, k)

EventTypes == {"WagerTransactionPendingReference", "WagerTransactionRejected",
               "WagerTransactionProcessed", "WalletBalanceChanged"}

(* An event is about a row of the aggregate it is sent for. *)
EventsOfRows ==
  \A k \in Keys, w \in Wallets, type \in EventTypes :
    Told(outbox[w], k, type) => wagers[k] # None /\ wagers[k].cmd.wallet = w

StoriesTold ==
  \A k \in Keys, w \in Wallets, type \in EventTypes :
    wagers[k] # None /\ wagers[k].cmd.wallet = w =>
      (Told(outbox[w], k, type) <=> type \in StoryOf(wagers[k]))

StoriesCommitted ==
  EventsOfRows /\ StoriesTold /\ \A w \in Wallets : InOrder(outbox[w])

EventsOfDrafts(s) ==
  \A k \in Keys, w \in Wallets, type \in EventTypes :
    Told(eventDraft[s][w], k, type) => rowDraft[s][k] # None /\ rowDraft[s][k].cmd.wallet = w

NewsTold(s) ==
  \A k \in Keys, w \in Wallets, type \in EventTypes :
    rowDraft[s][k] # None /\ rowDraft[s][k].cmd.wallet = w =>
      (Told(eventDraft[s][w], k, type) <=> News(s, w, k, type))

(* A row that is there already has waited for its reference. *)
RetriesWaited(s) ==
  \A k \in Keys : rowDraft[s][k] # None /\ wagers[k] # None => rowDraft[s][k].attempts > 0

StoriesDrafted(s) ==
  /\ EventsOfDrafts(s) /\ NewsTold(s) /\ RetriesWaited(s)
  /\ \A w \in Wallets : InOrder(eventDraft[s][w])

DraftEvents(s) == NumbersDrafted(s) /\ StoriesDrafted(s)

EventInv ==
  NumbersCommitted /\ StoriesCommitted /\ \A s \in Sessions : DraftEvents(s)

-----------------------------------------------------------------------------
(* Sequences of events put together *)

(* Where the events of two sequences put together come from. *)
LEMMA EventsConcatenated ==
  ASSUME NEW d \in Seq(Event), NEW e \in Seq(Event)
  PROVE  /\ Len(d) \in Nat /\ Len(e) \in Nat /\ Len(d \o e) = Len(d) + Len(e)
         /\ \A i \in 1..Len(d) : i \in 1..Len(d \o e) /\ (d \o e)[i] = d[i]
         /\ \A i \in 1..Len(e) : /\ i + Len(d) \in 1..Len(d \o e)
                                /\ (d \o e)[i + Len(d)] = e[i]
         /\ \A i \in 1..Len(d \o e) : i \notin 1..Len(d) =>
              i - Len(d) \in 1..Len(e) /\ (d \o e)[i] = e[i - Len(d)]
OBVIOUS

(* An event of both is one of the first, or comes after all of those.      *)
LEMMA FirstOrSecond ==
  ASSUME NEW d \in Seq(Event), NEW e \in Seq(Event), NEW i \in 1..Len(d \o e)
  PROVE  \/ i \in 1..Len(d) /\ (d \o e)[i] = d[i]
         \/ /\ i \notin 1..Len(d)
            /\ \E h \in 1..Len(e) : i = h + Len(d) /\ (d \o e)[i] = e[h]
BY EventsConcatenated

(* More events for more entries go on with the numbers. *)
LEMMA NumbersGoOn ==
  ASSUME NEW d \in Seq(Event), NEW e \in Seq(Event), NEW l \in Seq(Entry), NEW m \in Seq(Entry),
         NEW offset \in Int, NEW first \in Nat, first <= Len(l),
         Numbers(d, l, offset, first), Numbers(e, m, offset + Len(l), 0)
  PROVE  Numbers(d \o e, l \o m, offset, first)
<1> DEFINE c == d \o e
           n == l \o m
<1>1. PICK a \in Nat, b \in Nat :
        /\ a = Len(l) /\ b = Len(m) /\ Len(n) = a + b
        /\ \A j \in 1..a : n[j] = l[j]
        /\ \A j \in 1..b : n[j + a] = m[j]
  BY Concatenated
<1>2. /\ \A i \in 1..Len(d) : i \in 1..Len(c) /\ c[i] = d[i]
      /\ \A i \in 1..Len(e) : \E g \in 1..Len(c) : c[g] = e[i]
  BY EventsConcatenated
<1>3. ASSUME NEW i \in 1..Len(c)
      PROVE  \/ i \in 1..Len(d) /\ c[i] = d[i]
             \/ i \notin 1..Len(d) /\ \E h \in 1..Len(e) : i = h + Len(d) /\ c[i] = e[h]
  BY FirstOrSecond
<1> HIDE DEF c, n
<1>4. ASSUME NEW i \in 1..Len(d), Changed(d[i])
      PROVE  \E j \in (first + 1)..a : d[i].version = offset + j /\ d[i].tx = n[j].tx
  <2>1. PICK j \in (first + 1)..a : d[i].version = offset + j /\ d[i].tx = l[j].tx
    BY <1>1, <1>4 DEF Numbers
  <2>2. j \in 1..a
    OBVIOUS
  <2> QED
    BY <1>1, <2>1, <2>2
<1>5. ASSUME NEW i \in 1..Len(e), Changed(e[i])
      PROVE  \E j \in (a + 1)..(a + b) : e[i].version = offset + j /\ e[i].tx = n[j].tx
  <2>1. PICK j \in (0 + 1)..b : e[i].version = (offset + a) + j /\ e[i].tx = m[j].tx
    BY <1>1, <1>5 DEF Numbers
  <2>2. j \in 1..b /\ j + a \in (a + 1)..(a + b) /\ (offset + a) + j = offset + (j + a)
    OBVIOUS
  <2>3. n[j + a] = m[j]
    BY <1>1, <2>2
  <2> QED
    BY <2>1, <2>2, <2>3
<1>6. ASSUME NEW i \in 1..Len(c), Changed(c[i])
      PROVE  \E j \in (first + 1)..Len(n) : c[i].version = offset + j /\ c[i].tx = n[j].tx
  <2>1. \A j : j \in (first + 1)..a \/ j \in (a + 1)..(a + b) => j \in (first + 1)..Len(n)
    BY <1>1
  <2>2. CASE i \in 1..Len(d)
    <3>1. c[i] = d[i]
      BY <1>3, <2>2
    <3> QED
      BY <1>4, <1>6, <2>1, <2>2, <3>1
  <2>3. CASE i \notin 1..Len(d)
    <3>1. PICK h \in 1..Len(e) : c[i] = e[h]
      BY <1>3, <2>3
    <3>2. PICK j \in (a + 1)..(a + b) : e[h].version = offset + j /\ e[h].tx = n[j].tx
      BY <1>5, <1>6, <3>1
    <3> QED
      BY <2>1, <3>1, <3>2
  <2> QED
    BY <2>2, <2>3
<1>7. ASSUME NEW j \in (first + 1)..Len(n)
      PROVE  \E i \in 1..Len(c) : Changed(c[i]) /\ c[i].version = offset + j
  <2>1. CASE j <= a
    <3>1. j \in (first + 1)..Len(l)
      BY <1>1, <2>1
    <3>2. PICK i \in 1..Len(d) : Changed(d[i]) /\ d[i].version = offset + j
      BY <3>1 DEF Numbers
    <3> QED
      BY <1>2, <3>2
  <2>2. CASE j > a
    <3>1. PICK h \in (0 + 1)..Len(m) : h + a = j /\ (offset + Len(l)) + h = offset + j
      <4>1. j - a \in (0 + 1)..b /\ (j - a) + a = j /\ (offset + a) + (j - a) = offset + j
        BY <1>1, <2>2
      <4> QED
        BY <1>1, <4>1
    <3>2. PICK i \in 1..Len(e) : Changed(e[i]) /\ e[i].version = (offset + Len(l)) + h
      BY <3>1 DEF Numbers
    <3>3. PICK g \in 1..Len(c) : c[g] = e[i]
      BY <1>2
    <3>4. e[i].version = offset + j
      BY <3>1, <3>2
    <3> QED
      BY <3>2, <3>3, <3>4
  <2>3. j \in (first + 1)..(a + b)
    BY <1>1
  <2>4. j <= a \/ j > a
    BY <2>3
  <2> QED
    BY <2>1, <2>2, <2>4
<1>8. ASSUME NEW i \in 1..Len(c), NEW j \in 1..Len(c), i < j, Changed(c[i]), Changed(c[j])
      PROVE  c[i].version < c[j].version
  <2>1. CASE i \in 1..Len(d) /\ j \in 1..Len(d)
    BY <1>3, <1>8, <2>1 DEF Numbers
  <2>2. CASE i \notin 1..Len(d) /\ j \notin 1..Len(d)
    <3>1. PICK g \in 1..Len(e), h \in 1..Len(e) :
            /\ i = g + Len(d) /\ c[i] = e[g] /\ j = h + Len(d) /\ c[j] = e[h]
      BY <1>3, <2>2
    <3>2. g < h
      BY <1>8, <3>1, EventsConcatenated
    <3> QED
      BY <1>8, <3>1, <3>2 DEF Numbers
  <2>3. CASE i \in 1..Len(d) /\ j \notin 1..Len(d)
    <3>1. PICK g \in (first + 1)..a : c[i].version = offset + g
      <4>1. c[i] = d[i] /\ Changed(d[i])
        BY <1>3, <1>8, <2>3
      <4> QED
        BY <1>4, <2>3, <4>1
    <3>2. PICK h \in (a + 1)..(a + b) : c[j].version = offset + h
      <4>1. PICK o \in 1..Len(e) : c[j] = e[o]
        BY <1>3, <2>3
      <4> QED
        BY <1>5, <1>8, <4>1
    <3> QED
      BY <3>1, <3>2
  <2>4. i \in 1..Len(d) \/ j \notin 1..Len(d)
    BY <1>8, EventsConcatenated
  <2> QED
    BY <2>1, <2>2, <2>3, <2>4
<1>9. Numbers(c, n, offset, first)
  BY <1>6, <1>7, <1>8 DEF Numbers
<1> QED
  BY <1>9 DEF c, n

(* What is told by one of two sequences is told by both together. *)
LEMMA ToldByBoth ==
  ASSUME NEW d \in Seq(Event), NEW e \in Seq(Event), NEW k, NEW type
  PROVE  Told(d \o e, k, type) <=> Told(d, k, type) \/ Told(e, k, type)
<1> DEFINE c == d \o e
<1>1. /\ \A i \in 1..Len(d) : i \in 1..Len(c) /\ c[i] = d[i]
      /\ \A i \in 1..Len(e) : i + Len(d) \in 1..Len(c) /\ c[i + Len(d)] = e[i]
  BY EventsConcatenated
<1>2. \A i \in 1..Len(c) :
        \/ i \in 1..Len(d) /\ c[i] = d[i]
        \/ \E h \in 1..Len(e) : c[i] = e[h]
  BY FirstOrSecond
<1> HIDE DEF c
<1>3. Told(d, k, type) => Told(c, k, type)
  BY <1>1 DEF Told
<1>4. Told(e, k, type) => Told(c, k, type)
  BY <1>1 DEF Told
<1>5. Told(c, k, type) => Told(d, k, type) \/ Told(e, k, type)
  BY <1>2 DEF Told
<1> QED
  BY <1>3, <1>4, <1>5 DEF c

(* Stories that go on where they were go on in order. *)
LEMMA OrderGoesOn ==
  ASSUME NEW d \in Seq(Event), NEW e \in Seq(Event), InOrder(d), InOrder(e),
         \A i \in 1..Len(d), j \in 1..Len(e) :
           d[i].tx = e[j].tx => Chapter[d[i].type] < Chapter[e[j].type]
  PROVE  InOrder(d \o e)
<1> DEFINE c == d \o e
<1>1. \A i \in 1..Len(c) :
        \/ i \in 1..Len(d) /\ c[i] = d[i]
        \/ i \notin 1..Len(d) /\ \E h \in 1..Len(e) : i = h + Len(d) /\ c[i] = e[h]
  BY FirstOrSecond
<1> HIDE DEF c
<1>2. ASSUME NEW i \in 1..Len(c), NEW j \in 1..Len(c), i < j, c[i].tx = c[j].tx
      PROVE  Chapter[c[i].type] < Chapter[c[j].type]
  <2>1. CASE i \in 1..Len(d) /\ j \in 1..Len(d)
    BY <1>1, <1>2, <2>1 DEF InOrder
  <2>2. CASE i \notin 1..Len(d) /\ j \notin 1..Len(d)
    <3>1. PICK g \in 1..Len(e), h \in 1..Len(e) :
            /\ i = g + Len(d) /\ c[i] = e[g] /\ j = h + Len(d) /\ c[j] = e[h]
      BY <1>1, <2>2
    <3>2. g < h
      BY <1>2, <3>1, EventsConcatenated
    <3> QED
      BY <1>2, <3>1, <3>2 DEF InOrder
  <2>3. CASE i \in 1..Len(d) /\ j \notin 1..Len(d)
    <3>1. PICK h \in 1..Len(e) : c[j] = e[h]
      BY <1>1, <2>3
    <3> QED
      BY <1>1, <1>2, <2>3, <3>1
  <2>4. i \in 1..Len(d) \/ j \notin 1..Len(d)
    BY <1>2, EventsConcatenated
  <2> QED
    BY <2>1, <2>2, <2>3, <2>4
<1>3. InOrder(c)
  BY <1>2 DEF InOrder
<1> QED
  BY <1>3 DEF c

-----------------------------------------------------------------------------
(* What a session tells as it settles a row *)

(* A single event that is not of the balance. *)
LEMMA OneEvent ==
  ASSUME NEW k \in Keys, NEW type \in EventTypes \ {"WalletBalanceChanged"},
         NEW x, x = [type |-> type, tx |-> k, version |-> None], NEW offset
  PROVE  /\ << x >> \in Seq(Event)
         /\ \A i \in 1..Len(<< x >>) : << x >>[i].tx = k
         /\ InOrder(<< x >>)
         /\ \A t : Told(<< x >>, k, t) <=> t = type
         /\ Numbers(<< x >>, << >>, offset, 0)
<1>1. x \in Event /\ x.type = type /\ x.tx = k
  BY DEF Event, EventTypes
<1> DEFINE e == << x >>
<1>2. e \in Seq(Event) /\ Len(e) = 1 /\ e[1] = x
  BY <1>1
<1>3. Len(<< >>) = 0
  OBVIOUS
<1> HIDE DEF e
<1>4. \A i \in 1..Len(e) : i = 1 /\ e[i] = x
  BY <1>2
<1>5. \A i, j \in 1..Len(e) : ~(i < j)
  BY <1>4
<1>6. \A i \in 1..Len(e) : e[i].tx = k /\ ~Changed(e[i])
  BY <1>1, <1>4 DEF Changed
<1>7. InOrder(e)
  BY <1>5 DEF InOrder
<1>8. \A t : Told(e, k, t) <=> t = type
  BY <1>1, <1>2, <1>4 DEF Told
<1>9. Numbers(e, << >>, offset, 0)
  BY <1>3, <1>6 DEF Numbers
<1> QED
  BY <1>2, <1>6, <1>7, <1>8, <1>9 DEF e

(* No event at all. *)
LEMMA NoEvent ==
  ASSUME NEW k, NEW offset
  PROVE  /\ << >> \in Seq(Event) /\ InOrder(<< >>)
         /\ \A i \in 1..Len(<< >>) : FALSE
         /\ \A t : ~Told(<< >>, k, t)
         /\ Numbers(<< >>, << >>, offset, 0)
<1>1. \A i \in 1..Len(<< >>) : FALSE
  OBVIOUS
<1>2. << >> \in Seq(Event) /\ Len(<< >>) = 0
  OBVIOUS
<1> QED
  BY <1>1, <1>2 DEF InOrder, Told, Numbers

(* The two events of a balance change. *)
LEMMA TwoEvents ==
  ASSUME NEW k \in Keys, NEW offset \in Nat, NEW entry \in Entry, entry.tx = k,
         NEW x, x = [type |-> "WagerTransactionProcessed", tx |-> k, version |-> None],
         NEW y, y = [type |-> "WalletBalanceChanged", tx |-> k, version |-> offset + 1]
  PROVE  /\ << x, y >> \in Seq(Event)
         /\ \A i \in 1..Len(<< x, y >>) : << x, y >>[i].tx = k
         /\ InOrder(<< x, y >>)
         /\ \A t : Told(<< x, y >>, k, t) <=>
                     t \in {"WagerTransactionProcessed", "WalletBalanceChanged"}
         /\ Numbers(<< x, y >>, << entry >>, offset, 0)
<1>1. /\ x \in Event /\ x.type = "WagerTransactionProcessed" /\ x.tx = k
      /\ y \in Event /\ y.type = "WalletBalanceChanged" /\ y.tx = k /\ y.version = offset + 1
  BY DEF Event
<1> DEFINE e == << x, y >>
           m == << entry >>
<1>2. e \in Seq(Event) /\ Len(e) = 2 /\ e[1] = x /\ e[2] = y
  BY <1>1
<1>3. Len(m) = 1 /\ m[1] = entry
  OBVIOUS
<1> HIDE DEF e, m
<1>4. \A i \in 1..Len(e) : (i = 1 /\ e[i] = x) \/ (i = 2 /\ e[i] = y)
  BY <1>2
<1>5. \A i \in 1..Len(e) : e[i].tx = k /\ (Changed(e[i]) => i = 2)
  BY <1>1, <1>4 DEF Changed
<1>6. \A i, j \in 1..Len(e) : i < j => i = 1 /\ j = 2
  BY <1>2
<1>7. InOrder(e)
  <2>1. Chapter[x.type] = 2 /\ Chapter[y.type] = 3
    BY <1>1 DEF Chapter
  <2> QED
    BY <1>2, <1>6, <2>1 DEF InOrder
<1>8. 1 \in 1..Len(e) /\ 2 \in 1..Len(e)
  BY <1>2
<1>9. \A t : Told(e, k, t) <=> t \in {"WagerTransactionProcessed", "WalletBalanceChanged"}
  BY <1>1, <1>2, <1>4, <1>8 DEF Told
<1>10. Numbers(e, m, offset, 0)
  <2>1. 1 \in (0 + 1)..Len(m) /\ \A j \in (0 + 1)..Len(m) : j = 1
    BY <1>3
  <2>2. y.version = offset + 1 /\ y.tx = m[1].tx /\ Changed(y)
    BY <1>1, <1>3 DEF Changed
  <2>3. ASSUME NEW i \in 1..Len(e), Changed(e[i])
        PROVE  \E j \in (0 + 1)..Len(m) : e[i].version = offset + j /\ e[i].tx = m[j].tx
    BY <1>2, <1>5, <2>1, <2>2, <2>3
  <2>4. ASSUME NEW j \in (0 + 1)..Len(m)
        PROVE  \E i \in 1..Len(e) : Changed(e[i]) /\ e[i].version = offset + j
    BY <1>2, <1>8, <2>1, <2>2, <2>4
  <2>5. ASSUME NEW i \in 1..Len(e), NEW j \in 1..Len(e), i < j, Changed(e[i]), Changed(e[j])
        PROVE  e[i].version < e[j].version
    BY <1>5, <1>6, <2>5
  <2> QED
    BY <2>3, <2>4, <2>5 DEF Numbers
<1> QED
  BY <1>2, <1>5, <1>7, <1>9, <1>10 DEF e, m

(* A client's row is new, a worker's has waited. *)
LEMMA JobWaited ==
  ASSUME TypeInv, OwnInv, ReversalInv, NEW s \in Sessions, Settling(s), pc[s] # "walletKey"
  PROVE  /\ s \in Clients => wagers[job[s].key] = None /\ JobRow(s).attempts = 0
         /\ s \in Workers => wagers[job[s].key] # None /\ JobRow(s).attempts > 0
         /\ JobRow(s).attempts \in Nat
<1>1. /\ JobRow(s) \in Row /\ RowSound(JobRow(s)) /\ job[s].key \in Keys
      /\ JobRow(s).status = IF s \in Clients THEN "PENDING" ELSE "PENDING_REFERENCE"
  BY JobRowOpen, JobRowOwned
<1>2. JobRow(s).attempts \in Nat
  BY <1>1 DEF Row
<1>3. s \in Clients => wagers[job[s].key] = None
  BY <1>1 DEF OwnInv, ClientOwns, Settling
<1>4. s \in Workers => wagers[job[s].key] # None /\ s \notin Clients
  BY <1>1, ClaimedIncludes, SessionsAssumption DEF Settling, OwnInv, WorkerOwns, Due, Unwritten
<1> QED
  BY <1>1, <1>2, <1>3, <1>4 DEF RowSound

(* The events e and the entries m are added to those of the job's wallet. *)
Adds(s, e, m) ==
  \A w \in Wallets :
    /\ eventDraft'[s][w] = IF w = job[s].wallet THEN eventDraft[s][w] \o e
                                                ELSE eventDraft[s][w]
    /\ entryDraft'[s][w] = IF w = job[s].wallet THEN entryDraft[s][w] \o m
                                                ELSE entryDraft[s][w]
    /\ WalletSeen(s, w)'.version =
         WalletSeen(s, w).version + (IF w = job[s].wallet THEN Len(m) ELSE 0)
    /\ wallets'[w] = wallets[w]

(* e and m are what there is to say of r, the row of the job. *)
Announces(s, r, e, m) ==
  /\ \A i \in 1..Len(e) : e[i].tx = job[s].key
  /\ \A j \in 1..Len(m) : m[j].tx = job[s].key
  /\ InOrder(e)
  /\ \A type \in EventTypes : Told(e, job[s].key, type) <=>
       \/ /\ type = "WagerTransactionPendingReference"
          /\ wagers[job[s].key] = None /\ r.attempts > 0
       \/ type = "WagerTransactionRejected" /\ r.status = "REJECTED"
       \/ type = "WagerTransactionProcessed" /\ r.status = "PROCESSED"
       \/ type = "WalletBalanceChanged" /\ m # << >>
  /\ wagers[job[s].key] # None => r.attempts > 0
  /\ Numbers(e, m, WalletSeen(s, job[s].wallet).version, 0)

LEMMA NothingAdded ==
  ASSUME NEW S, NEW l \in Seq(S)
  PROVE  l \o << >> = l
OBVIOUS

LEMMA OneAdded ==
  ASSUME NEW S, NEW l \in Seq(S), NEW x \in S
  PROVE  l \o << x >> = Append(l, x) /\ Len(<< x >>) = 1 /\ << x >> \in Seq(S)
OBVIOUS

(* Events are enqueued, and the balance stays. *)
LEMMA QuietAdds ==
  ASSUME TypeInv, NEW s \in Sessions, job[s].wallet \in Wallets, NEW e \in Seq(Event),
         Enqueue(s, e) \/ (e = << >> /\ UNCHANGED eventDraft),
         UNCHANGED <<wallets, walletDraft, entryDraft>>
  PROVE  Adds(s, e, << >>)
<1>1. ASSUME NEW w \in Wallets
      PROVE  /\ eventDraft[s][w] \in Seq(Event) /\ entryDraft[s][w] \in Seq(Entry)
             /\ WalletSeen(s, w).version \in Nat
  <2>1. eventDraft[s][w] \in Seq(Event) /\ entryDraft[s][w] \in Seq(Entry)
    BY DEF TypeInv, TypeOK
  <2>2. WalletSeen(s, w) \in WalletRow
    BY WalletSeenType DEF TypeInv
  <2> QED
    BY <2>1, <2>2 DEF WalletRow
<1>2. \A w \in Wallets :
        eventDraft'[s][w] = IF w = job[s].wallet THEN eventDraft[s][w] \o e
                                                 ELSE eventDraft[s][w]
  <2>1. CASE Enqueue(s, e)
    BY <2>1 DEF Enqueue, TypeInv, TypeOK
  <2>2. CASE e = << >> /\ UNCHANGED eventDraft
    BY <1>1, <2>2, NothingAdded
  <2> QED
    BY <2>1, <2>2
<1>3. \A w \in Wallets : entryDraft'[s][w] = entryDraft[s][w] \o << >>
  BY <1>1, NothingAdded
<1>4. \A w \in Wallets : WalletSeen(s, w)' = WalletSeen(s, w)
  BY DEF WalletSeen
<1>5. ASSUME NEW w \in Wallets
      PROVE  WalletSeen(s, w)'.version =
               WalletSeen(s, w).version + (IF w = job[s].wallet THEN Len(<< >>) ELSE 0)
  BY <1>1, <1>4
<1> QED
  BY <1>2, <1>3, <1>5 DEF Adds

(* The one event of a row that moves no money. *)
LEMMA QuietAnnounces ==
  ASSUME TypeInv, OwnInv, ReversalInv, NEW s \in Sessions, Settling(s), pc[s] # "walletKey",
         NEW r, NEW type,
         \/ /\ type = "WagerTransactionRejected" /\ r.status = "REJECTED"
            /\ r.attempts = JobRow(s).attempts
         \/ /\ type = "WagerTransactionProcessed" /\ r.status = "PROCESSED"
            /\ r.attempts = JobRow(s).attempts
         \/ /\ type = "WagerTransactionPendingReference" /\ r.status = "PENDING_REFERENCE"
            /\ r.attempts = JobRow(s).attempts + 1 /\ s \in Clients
  PROVE  /\ << Event1(s, type) >> \in Seq(Event)
         /\ Announces(s, r, << Event1(s, type) >>, << >>)
<1>1. PICK k \in Keys : k = job[s].key
  BY JobRowOwned
<1>2. PICK v : v = WalletSeen(s, job[s].wallet).version
  OBVIOUS
<1>3. type \in EventTypes \ {"WalletBalanceChanged"}
  BY DEF EventTypes
<1>4. PICK x : x = Event1(s, type) /\ x = [type |-> type, tx |-> k, version |-> None]
  BY <1>1 DEF Event1
<1> DEFINE e == << x >>
<1>5. /\ e \in Seq(Event) /\ \A i \in 1..Len(e) : e[i].tx = k
      /\ InOrder(e) /\ \A t : Told(e, k, t) <=> t = type
      /\ Numbers(e, << >>, v, 0)
  BY <1>3, <1>4, OneEvent
<1> HIDE DEF e
<1>6. /\ wagers[k] = None /\ r.attempts > 0 <=> type = "WagerTransactionPendingReference"
      /\ r.status = "REJECTED" <=> type = "WagerTransactionRejected"
      /\ r.status = "PROCESSED" <=> type = "WagerTransactionProcessed"
      /\ wagers[k] # None => r.attempts > 0
  BY <1>1, JobWaited DEF Sessions
<1>7. \A j \in 1..Len(<< >>) : FALSE
  OBVIOUS
<1>8. Announces(s, r, e, << >>)
  BY <1>1, <1>2, <1>3, <1>5, <1>6, <1>7 DEF Announces
<1> QED
  BY <1>4, <1>5, <1>8 DEF e

(* No event for a retry that is postponed again. *)
LEMMA SilenceAnnounces ==
  ASSUME TypeInv, OwnInv, ReversalInv, NEW s \in Workers, Settling(s), pc[s] # "walletKey",
         NEW r, r.status = "PENDING_REFERENCE", r.attempts = JobRow(s).attempts + 1
  PROVE  << >> \in Seq(Event) /\ Announces(s, r, << >>, << >>)
<1>1. wagers[job[s].key] # None /\ r.attempts > 0
  BY JobWaited DEF Sessions
<1> QED
  BY <1>1, NoEvent DEF Announces

(* An outcome writes a row and adds what there is to say of it. *)
Tells(s) ==
  \E r \in Row, e \in Seq(Event), m \in Seq(Entry) :
    SettlesWith(s, r) /\ Adds(s, e, m) /\ Announces(s, r, e, m)

(* A refusal, a row without an entry, and a row that has to wait.          *)
LEMMA QuietTells ==
  ASSUME TypeInv, OwnInv, ReversalInv, NEW s \in Sessions, Outcome(s), ~(Debit(s) \/ Credit(s))
  PROVE  Tells(s)
<1> DEFINE q == JobRow(s)
<1>1. Settling(s) /\ pc[s] # "walletKey"
  BY OutcomeSettles DEF SettlesWith
<1>2. q \in Row /\ q.attempts \in Nat /\ job[s].key \in Keys /\ job[s].wallet \in Wallets
      /\ q.status = IF s \in Clients THEN "PENDING" ELSE "PENDING_REFERENCE"
  BY <1>1, JobRowOwned, JobRowOpen
<1>3. UNCHANGED <<wallets, walletDraft, entryDraft>>
  BY DEF Outcome, LoadForeignWallet, SettleWithoutEntry, AwaitReference, RetryLater,
         GiveUp, RefuseReference, RefuseSecondReversal, Observe, Reject, NoBalanceChange, committed
<1>4. << >> \in Seq(Entry)
  OBVIOUS
<1>5. ASSUME NEW r \in Row, SettlesWith(s, r), NEW type, Enqueue(s, << Event1(s, type) >>),
             << Event1(s, type) >> \in Seq(Event), Announces(s, r, << Event1(s, type) >>, << >>)
      PROVE  Tells(s)
  BY <1>2, <1>3, <1>4, <1>5, QuietAdds DEF Tells
<1>6. CASE LoadForeignWallet(s) \/ RefuseReference(s) \/ RefuseSecondReversal(s)
           \/ GiveUp(s) \/ Observe(s)
  <2>1. Enqueue(s, << Event1(s, "WagerTransactionRejected") >>)
    BY <1>6 DEF LoadForeignWallet, RefuseReference, RefuseSecondReversal, GiveUp, Observe, Reject
  <2>2. PICK code, b : SettlesWith(s, Rejected(q, code, b))
    BY <1>6, Refusals DEF RejectsWith
  <2>3. PICK r : r = Rejected(q, code, b)
    OBVIOUS
  <2>4. r \in Row /\ r.status = "REJECTED" /\ r.attempts = q.attempts
    BY <1>2, <2>2, <2>3 DEF SettlesWith, Rejected, Row
  <2> QED
    BY <1>1, <1>5, <2>1, <2>2, <2>3, <2>4, QuietAnnounces
<1>7. CASE SettleWithoutEntry(s)
  <2>1. Enqueue(s, << Event1(s, "WagerTransactionProcessed") >>)
    BY <1>7 DEF SettleWithoutEntry
  <2>2. PICK r : /\ r = MarkProcessed(q, None, WalletSeen(s, job[s].wallet).balance)
                 /\ SettlesWith(s, r)
    BY <1>7, Processings
  <2>3. r \in Row /\ r.status = "PROCESSED" /\ r.attempts = q.attempts
    BY <1>2, <2>2 DEF SettlesWith, MarkProcessed, Row
  <2> QED
    BY <1>1, <1>5, <2>1, <2>2, <2>3, QuietAnnounces
<1>8. CASE AwaitReference(s)
  <2>1. Enqueue(s, << Event1(s, "WagerTransactionPendingReference") >>)
    BY <1>8 DEF AwaitReference
  <2>2. PICK r : /\ r = [q EXCEPT !.status = "PENDING_REFERENCE", !.attempts = q.attempts + 1]
                 /\ SettlesWith(s, r) /\ s \in Clients
    BY <1>8, Postponements
  <2>3. r \in Row /\ r.status = "PENDING_REFERENCE" /\ r.attempts = q.attempts + 1
    BY <1>2, <2>2 DEF SettlesWith, Row
  <2> QED
    BY <1>1, <1>5, <2>1, <2>2, <2>3, QuietAnnounces
<1>9. CASE RetryLater(s)
  <2>1. UNCHANGED eventDraft
    BY <1>9 DEF RetryLater
  <2>2. PICK r : /\ r = [q EXCEPT !.attempts = q.attempts + 1]
                 /\ SettlesWith(s, r) /\ s \in Workers
    BY <1>9, Postponements
  <2>3. r \in Row /\ r.status = "PENDING_REFERENCE" /\ r.attempts = q.attempts + 1
    BY <1>2, <2>2, SessionsAssumption DEF SettlesWith, Row
  <2>4. << >> \in Seq(Event) /\ Announces(s, r, << >>, << >>)
    BY <1>1, <2>2, <2>3, SilenceAnnounces
  <2>5. Adds(s, << >>, << >>)
    BY <1>2, <1>3, <2>1, <2>4, QuietAdds
  <2> QED
    BY <1>4, <2>2, <2>3, <2>4, <2>5 DEF Tells
<1> QED
  BY <1>6, <1>7, <1>8, <1>9 DEF Outcome

(* An UPDATE of the balance: one entry and two events, with the version it *)
(* leaves.                                                                 *)
LEMMA PostTells ==
  ASSUME TypeInv, OwnInv, ReversalInv, EntryInv, NEW s \in Sessions, Debit(s) \/ Credit(s)
  PROVE  Tells(s)
<1>1. PICK r \in Row, entry \in Entry :
        /\ SettlesWith(s, r) /\ r.status = "PROCESSED" /\ entry.tx = job[s].key
        /\ \A w \in Wallets :
             entryDraft'[s][w] = IF w = job[s].wallet THEN Append(entryDraft[s][w], entry)
                                                      ELSE entryDraft[s][w]
  BY PostWrites
<1>2. PICK direction \in {"DEBIT", "CREDIT"} :
        Post(s, direction) /\ pc[s] \in {"debit", "credit"}
  BY DEF Debit, Credit
<1>3. PICK k \in Keys, v \in Wallets : k = job[s].key /\ v = job[s].wallet
  BY <1>1, JobRowOwned DEF SettlesWith
<1>4. PICK offset \in Nat : offset = WalletSeen(s, v).version
  BY WalletSeenType DEF TypeInv, TypeOK, WalletRow
<1>5. PICK x, y :
        /\ x = Event1(s, "WagerTransactionProcessed")
        /\ x = [type |-> "WagerTransactionProcessed", tx |-> k, version |-> None]
        /\ y = [type |-> "WalletBalanceChanged", tx |-> k, version |-> offset + 1]
  BY <1>3 DEF Event1
<1> DEFINE e == << x, y >>
           m == << entry >>
<1>6. /\ e \in Seq(Event) /\ \A i \in 1..Len(e) : e[i].tx = k
      /\ InOrder(e) /\ Numbers(e, m, offset, 0)
      /\ \A t : Told(e, k, t) <=> t \in {"WagerTransactionProcessed", "WalletBalanceChanged"}
  BY <1>1, <1>3, <1>5, TwoEvents
<1>7. m \in Seq(Entry) /\ Len(m) = 1 /\ m # << >> /\ m[1] = entry
  OBVIOUS
<1>8. Adds(s, e, m)
  <2>1. /\ eventDraft' = [eventDraft EXCEPT ![s][v] = @ \o e]
        /\ wallets' = wallets
        /\ \E row : walletDraft' = [walletDraft EXCEPT ![s][v] = row] /\ row # None
                    /\ row.version = offset + 1
    <3> DEFINE row == [balance |-> BalanceAfter(s, direction), version |-> offset + 1]
    <3>1. walletDraft' = [walletDraft EXCEPT ![s][v] = row]
      BY <1>2, <1>3, <1>4 DEF Post, BalanceAfter
    <3>2. row # None /\ row.version = offset + 1
      <4>1. BalanceAfter(s, direction) \in Int
        BY <1>2, Processings
      <4>2. row \in WalletRow
        BY <4>1 DEF WalletRow
      <4> QED
        BY <4>2, NoneAssumption
    <3>3. eventDraft' = [eventDraft EXCEPT ![s][v] = @ \o e] /\ wallets' = wallets
      BY <1>2, <1>3, <1>4, <1>5 DEF Post, Enqueue, committed
    <3> HIDE DEF row
    <3> QED
      BY <3>1, <3>2, <3>3
  <2>2. PICK row : walletDraft' = [walletDraft EXCEPT ![s][v] = row] /\ row # None
                   /\ row.version = offset + 1
    BY <2>1
  <2> HIDE DEF e
  <2>3. \A w \in Wallets :
          eventDraft'[s][w] = IF w = v THEN eventDraft[s][w] \o e ELSE eventDraft[s][w]
    BY <2>1 DEF TypeInv, TypeOK
  <2>4. \A w \in Wallets : entryDraft[s][w] \o m = Append(entryDraft[s][w], entry)
    BY OneAdded DEF TypeInv, TypeOK
  <2>5. /\ walletDraft'[s][v] = row
        /\ \A w \in Wallets \ {v} : walletDraft'[s][w] = walletDraft[s][w]
    BY <2>2 DEF TypeInv, TypeOK
  <2>6. \A w \in Wallets : WalletSeen(s, w).version \in Nat
    BY WalletSeenType DEF TypeInv, TypeOK, WalletRow
  <2>7. ASSUME NEW w \in Wallets
        PROVE  WalletSeen(s, w)'.version = WalletSeen(s, w).version + (IF w = v THEN Len(m) ELSE 0)
    <3>1. CASE w = v
      <4>1. WalletSeen(s, w)' = row
        BY <2>2, <2>5, <3>1 DEF WalletSeen
      <4> QED
        BY <1>4, <1>7, <2>2, <3>1, <4>1
    <3>2. CASE w # v
      <4>1. WalletSeen(s, w)' = WalletSeen(s, w)
        BY <2>1, <2>5, <3>2 DEF WalletSeen
      <4> QED
        BY <2>6, <3>2, <4>1
    <3> QED
      BY <3>1, <3>2
  <2> HIDE DEF m
  <2> QED
    BY <1>1, <1>3, <2>1, <2>3, <2>4, <2>7 DEF Adds
<1>9. Announces(s, r, e, m)
  <2>1. r.attempts = JobRow(s).attempts
    <3>1. PICK q : /\ q = MarkProcessed(JobRow(s), found[s], BalanceAfter(s, direction))
                   /\ SettlesWith(s, q)
      BY <1>2, Processings
    <3>2. q = r
      BY <1>1, <3>1, QueueMoves
    <3>3. JobRow(s) \in Row
      BY <1>1, JobRowOwned DEF SettlesWith
    <3> QED
      BY <3>1, <3>2, <3>3 DEF MarkProcessed, Row
  <2>2. (wagers[k] = None /\ ~(r.attempts > 0)) \/ (wagers[k] # None /\ r.attempts > 0)
    BY <1>1, <1>3, <2>1, JobWaited DEF SettlesWith, Sessions
  <2>3. \A j \in 1..Len(m) : m[j].tx = k
    BY <1>1, <1>3, <1>7
  <2> HIDE DEF e, m
  <2> QED
    BY <1>1, <1>3, <1>4, <1>6, <1>7, <2>2, <2>3 DEF Announces, EventTypes
<1> HIDE DEF e, m
<1> QED
  BY <1>1, <1>6, <1>7, <1>8, <1>9 DEF Tells

-----------------------------------------------------------------------------
(* What the sessions have to tell *)

(* An event tells something of a row. *)
LEMMA EventTold ==
  ASSUME NEW d \in Seq(Event), NEW i \in 1..Len(d)
  PROVE  d[i].tx \in Keys /\ d[i].type \in EventTypes /\ Told(d, d[i].tx, d[i].type)
<1>1. d[i] \in Event
  OBVIOUS
<1> QED
  BY <1>1 DEF Event, EventTypes, Told

(* Nothing has been told of the row of the job. *)
LEMMA JobUntold ==
  ASSUME TypeInv, OwnInv, ReversalInv, EntryInv, EventInv, NEW s \in Sessions,
         Settling(s), pc[s] # "walletKey", NEW w \in Wallets, NEW type \in EventTypes
  PROVE  ~Told(eventDraft[s][w], job[s].key, type)
<1>1. PICK k \in Keys : k = job[s].key
  BY JobRowOwned
<1> SUFFICES ASSUME Told(eventDraft[s][w], k, type) PROVE FALSE
  BY <1>1
<1>2. rowDraft[s][k] # None /\ rowDraft[s][k].cmd.wallet = w /\ rowDraft[s][k] = JobRow(s)
  BY <1>1 DEF EventInv, DraftEvents, StoriesDrafted, EventsOfDrafts, JobRow, RowSeen
<1>3. News(s, w, k, type)
  BY <1>2 DEF EventInv, DraftEvents, StoriesDrafted, NewsTold
<1>4. s \in Clients
  BY <1>1, <1>2 DEF OwnInv, WorkerOwns, Drafted, Sessions
<1>5. JobRow(s).status = "PENDING" /\ JobRow(s).attempts = 0
  BY <1>4, JobRowOwned, JobWaited
<1>6. ~Posted(s, w, k)
  BY <1>1, JobHasNoEntry DEF Posted
<1> QED
  BY <1>2, <1>3, <1>5, <1>6 DEF News

(* More events and entries go on from the version the session sees. *)
LEMMA OutcomeKeepsNumbers ==
  ASSUME TypeInv, EventInv, NEW s \in Sessions, NEW r,
         NEW e \in Seq(Event), NEW m \in Seq(Entry), Adds(s, e, m), Announces(s, r, e, m)
  PROVE  NumbersDrafted(s)'
<1>1. ASSUME NEW w \in Wallets
      PROVE  /\ WalletSeen(s, w)'.version = wallets'[w].version + Len(entryDraft'[s][w])
             /\ Numbers(eventDraft'[s][w], entryDraft'[s][w], wallets'[w].version, 0)
  <2>1. PICK d \in Seq(Event), l \in Seq(Entry), offset \in Int :
          /\ d = eventDraft[s][w] /\ l = entryDraft[s][w]
          /\ offset = wallets[w].version /\ wallets'[w].version = offset
    <3>1. wallets[w] \in WalletRow
      BY DEF TypeInv, TypeOK
    <3>2. wallets[w].version \in Int
      BY <3>1 DEF WalletRow
    <3>3. eventDraft[s][w] \in Seq(Event) /\ entryDraft[s][w] \in Seq(Entry)
      BY DEF TypeInv, TypeOK
    <3>4. wallets'[w] = wallets[w]
      BY DEF Adds
    <3> QED
      BY <3>2, <3>3, <3>4
  <2>2. /\ WalletSeen(s, w).version = offset + Len(l)
        /\ Numbers(d, l, offset, 0)
    BY <2>1 DEF EventInv, DraftEvents, NumbersDrafted
  <2>3. CASE w = job[s].wallet
    <3>1. /\ eventDraft'[s][w] = d \o e /\ entryDraft'[s][w] = l \o m
          /\ WalletSeen(s, w)'.version = (offset + Len(l)) + Len(m)
      BY <2>1, <2>2, <2>3 DEF Adds
    <3>2. Numbers(e, m, offset + Len(l), 0)
      BY <2>2, <2>3 DEF Announces
    <3>3. Len(l) \in Nat /\ Len(m) \in Nat /\ Len(l \o m) = Len(l) + Len(m) /\ 0 <= Len(l)
      BY Concatenated
    <3>4. Numbers(d \o e, l \o m, offset, 0)
      BY <2>2, <3>2, <3>3, NumbersGoOn
    <3> QED
      BY <2>1, <3>1, <3>3, <3>4
  <2>4. CASE w # job[s].wallet
    <3>1. /\ eventDraft'[s][w] = d /\ entryDraft'[s][w] = l
          /\ WalletSeen(s, w)'.version = (offset + Len(l)) + 0
      BY <2>1, <2>2, <2>4 DEF Adds
    <3>2. Len(l) \in Nat
      OBVIOUS
    <3> QED
      BY <2>1, <2>2, <3>1, <3>2
  <2> QED
    BY <2>3, <2>4
<1> QED
  BY <1>1 DEF NumbersDrafted

(* The news of the row of the job are told, and nothing else is new. *)
LEMMA OutcomeKeepsStories ==
  ASSUME TypeInv, OwnInv, ReversalInv, EntryInv, EventInv, NEW s \in Sessions, NEW r \in Row,
         NEW e \in Seq(Event), NEW m \in Seq(Entry),
         SettlesWith(s, r), Adds(s, e, m), Announces(s, r, e, m)
  PROVE  StoriesDrafted(s)'
<1>1. PICK k \in Keys, v \in Wallets : k = job[s].key /\ v = job[s].wallet
  BY JobRowOwned DEF SettlesWith
<1>2. /\ rowDraft'[s][k] = r /\ r # None /\ wagers' = wagers
      /\ \A j \in Keys \ {k} : rowDraft'[s][j] = rowDraft[s][j]
  BY <1>1, QueueMoves DEF SettlesWith
<1>3. r.cmd.wallet = v
  BY <1>1, JobRowOwned DEF SettlesWith
<1>4. StoriesDrafted(s)
  BY DEF EventInv, DraftEvents
<1>5. ASSUME NEW w \in Wallets, NEW type \in EventTypes
      PROVE  ~Told(eventDraft[s][w], k, type)
  BY <1>1, JobUntold DEF SettlesWith
<1>6. ASSUME NEW j \in Keys, NEW w \in Wallets, NEW type \in EventTypes
      PROVE  Told(eventDraft'[s][w], j, type) <=>
               \/ j # k /\ Told(eventDraft[s][w], j, type)
               \/ j = k /\ w = v /\ Told(e, k, type)
  <2>1. eventDraft[s][w] \in Seq(Event)
    BY DEF TypeInv, TypeOK
  <2>2. j # k => ~Told(e, j, type)
    BY <1>1 DEF Announces, Told
  <2>3. CASE w = v
    <3>1. eventDraft'[s][w] = eventDraft[s][w] \o e
      BY <1>1, <2>3 DEF Adds
    <3> QED
      BY <1>5, <2>1, <2>2, <2>3, <3>1, ToldByBoth
  <2>4. CASE w # v
    <3>1. eventDraft'[s][w] = eventDraft[s][w]
      BY <1>1, <2>4 DEF Adds
    <3> QED
      BY <1>5, <2>4, <3>1
  <2> QED
    BY <2>3, <2>4
<1>7. EventsOfDrafts(s)'
  BY <1>2, <1>3, <1>4, <1>6 DEF StoriesDrafted, EventsOfDrafts
<1>8. RetriesWaited(s)'
  BY <1>1, <1>2, <1>4 DEF StoriesDrafted, RetriesWaited, Announces
<1>9. ASSUME NEW j \in Keys, NEW w \in Wallets
      PROVE  Posted(s, w, j)' <=> (j # k /\ Posted(s, w, j)) \/ (j = k /\ w = v /\ m # << >>)
  <2>1. PICK l \in Seq(Entry) : l = entryDraft[s][w]
    BY DEF TypeInv, TypeOK
  <2>2. /\ \A i \in 1..Len(l) : l[i].tx # k
        /\ \A i \in 1..Len(m) : m[i].tx = k
    BY <1>1, <2>1, JobHasNoEntry DEF SettlesWith, Announces
  <2>3. CASE w = v
    <3>1. entryDraft'[s][w] = l \o m
      BY <1>1, <2>1, <2>3 DEF Adds
    <3>2. Posted(s, w, j)' <=> (\E i \in 1..Len(l) : l[i].tx = j) \/ (\E i \in 1..Len(m) : m[i].tx = j)
      <4> DEFINE n == l \o m
      <4>1. /\ \A i \in 1..Len(l) : i \in 1..Len(n) /\ n[i] = l[i]
            /\ \A i \in 1..Len(m) : \E h \in 1..Len(n) : n[h] = m[i]
            /\ \A i \in 1..Len(n) :
                 (i \in 1..Len(l) /\ n[i] = l[i]) \/ \E h \in 1..Len(m) : n[i] = m[h]
        BY Concatenated
      <4>2. entryDraft'[s][w] = n
        BY <3>1
      <4> HIDE DEF n
      <4>3. Posted(s, w, j)' <=> \E i \in 1..Len(n) : n[i].tx = j
        BY <4>2 DEF Posted
      <4>4. (\E i \in 1..Len(n) : n[i].tx = j) <=>
              (\E i \in 1..Len(l) : l[i].tx = j) \/ (\E i \in 1..Len(m) : m[i].tx = j)
        <5>1. ASSUME NEW i \in 1..Len(n), n[i].tx = j
              PROVE  (\E h \in 1..Len(l) : l[h].tx = j) \/ (\E h \in 1..Len(m) : m[h].tx = j)
          <6>1. (i \in 1..Len(l) /\ n[i] = l[i]) \/ \E h \in 1..Len(m) : n[i] = m[h]
            BY <4>1
          <6> QED
            BY <5>1, <6>1
        <5>2. ASSUME NEW i \in 1..Len(l), l[i].tx = j
              PROVE  \E h \in 1..Len(n) : n[h].tx = j
          <6>1. i \in 1..Len(n) /\ n[i] = l[i]
            BY <4>1
          <6> QED
            BY <5>2, <6>1
        <5>3. ASSUME NEW i \in 1..Len(m), m[i].tx = j
              PROVE  \E h \in 1..Len(n) : n[h].tx = j
          <6>1. PICK h \in 1..Len(n) : n[h] = m[i]
            BY <4>1
          <6> QED
            BY <5>3, <6>1
        <5> QED
          BY <5>1, <5>2, <5>3
      <4> QED
        BY <4>3, <4>4
    <3>3. m # << >> <=> \E i \in 1..Len(m) : TRUE
      OBVIOUS
    <3>4. Posted(s, w, j) <=> \E i \in 1..Len(l) : l[i].tx = j
      BY <2>1 DEF Posted
    <3>5. (\E i \in 1..Len(m) : m[i].tx = j) <=> j = k /\ m # << >>
      BY <2>2, <3>3
    <3>6. Posted(s, w, j) => j # k
      BY <2>2, <3>4
    <3> QED
      BY <2>3, <3>2, <3>4, <3>5, <3>6
  <2>4. CASE w # v
    <3>1. entryDraft'[s][w] = l
      BY <1>1, <2>1, <2>4 DEF Adds
    <3> QED
      BY <2>1, <2>2, <2>4, <3>1 DEF Posted
  <2> QED
    BY <2>3, <2>4
<1>10. NewsTold(s)'
  <2>1. ASSUME NEW j \in Keys, NEW w \in Wallets, NEW type \in EventTypes,
               rowDraft'[s][j] # None, rowDraft'[s][j].cmd.wallet = w
        PROVE  Told(eventDraft'[s][w], j, type) <=> News(s, w, j, type)'
    <3>1. CASE j = k
      <4>1. w = v /\ (Posted(s, w, j)' <=> m # << >>)
        BY <1>2, <1>3, <1>9, <2>1, <3>1
      <4>2. Told(eventDraft'[s][w], j, type) <=> Told(e, k, type)
        BY <1>6, <3>1, <4>1
      <4> QED
        BY <1>1, <1>2, <3>1, <4>1, <4>2 DEF Announces, News
    <3>2. CASE j # k
      <4>1. rowDraft'[s][j] = rowDraft[s][j]
        BY <1>2, <3>2
      <4>2. News(s, w, j, type)' <=> News(s, w, j, type)
        BY <1>2, <1>9, <3>2, <4>1 DEF News
      <4> QED
        BY <1>4, <1>6, <2>1, <3>2, <4>1, <4>2 DEF StoriesDrafted, NewsTold
    <3> QED
      BY <3>1, <3>2
  <2> QED
    BY <2>1 DEF NewsTold
<1>11. ASSUME NEW w \in Wallets PROVE InOrder(eventDraft'[s][w])
  <2>1. PICK d \in Seq(Event) : d = eventDraft[s][w]
    BY DEF TypeInv, TypeOK
  <2>2. InOrder(d) /\ InOrder(e)
    BY <1>4, <2>1 DEF StoriesDrafted, Announces
  <2>3. ASSUME NEW i \in 1..Len(d), NEW j \in 1..Len(e), d[i].tx = e[j].tx PROVE FALSE
    <3>1. e[j].tx = k
      BY <1>1, <2>3 DEF Announces
    <3> QED
      BY <1>5, <2>1, <2>3, <3>1, EventTold
  <2>4. InOrder(d \o e)
    BY <2>2, <2>3, OrderGoesOn
  <2> QED
    BY <1>1, <2>1, <2>2, <2>4 DEF Adds
<1> QED
  BY <1>7, <1>8, <1>10, <1>11 DEF StoriesDrafted

(* Nothing has been told at the start. *)
LEMMA InitEventInv == Init => EventInv
<1> SUFFICES ASSUME Init PROVE EventInv
  OBVIOUS
<1>1. /\ \A k \in Keys : wagers[k] = None
      /\ \A w \in Wallets : /\ ledger[w] = OpeningLedger(w) /\ outbox[w] = << >>
                            /\ wallets[w].version = 1
      /\ \A s \in Sessions, k \in Keys : rowDraft[s][k] = None
      /\ \A s \in Sessions, w \in Wallets :
           /\ entryDraft[s][w] = << >> /\ eventDraft[s][w] = << >> /\ walletDraft[s][w] = None
  BY DEF Init, NoRows, NoneOf, NoWallets
<1>2. Len(<< >>) = 0
  OBVIOUS
<1>3. ASSUME NEW w \in Wallets PROVE Len(OpeningLedger(w)) \in Nat
  <2>1. CASE Opening[w] = 0
    BY <2>1 DEF OpeningLedger
  <2>2. CASE Opening[w] # 0
    <3> DEFINE e == [tx |-> "opening", direction |-> "CREDIT",
                     amount |-> Opening[w], before |-> 0, after |-> Opening[w]]
    <3>1. OpeningLedger(w) = << e >>
      BY <2>2 DEF OpeningLedger
    <3> HIDE DEF e
    <3> QED
      BY <3>1
  <2> QED
    BY <2>1, <2>2
<1>4. NumbersCommitted
  <2>1. ASSUME NEW w \in Wallets, NEW n \in Nat, n = Len(OpeningLedger(w))
        PROVE  /\ n <= Len(ledger[w]) /\ wallets[w].version = 1 - n + Len(ledger[w])
               /\ Numbers(outbox[w], ledger[w], 1 - n, n)
    <3>1. Len(ledger[w]) = n /\ Len(outbox[w]) = 0 /\ wallets[w].version = 1
      BY <1>1, <1>2, <2>1
    <3>2. (\A i \in 1..Len(outbox[w]) : FALSE) /\ (\A j \in (n + 1)..Len(ledger[w]) : FALSE)
      BY <3>1
    <3> QED
      BY <3>1, <3>2 DEF Numbers
  <2> QED
    BY <1>3, <2>1 DEF NumbersCommitted
<1>5. StoriesCommitted
  <2>1. \A w \in Wallets : \A i \in 1..Len(outbox[w]) : FALSE
    BY <1>1, <1>2
  <2> QED
    BY <1>1, <2>1 DEF StoriesCommitted, EventsOfRows, StoriesTold, InOrder, Told
<1>6. ASSUME NEW s \in Sessions PROVE NumbersDrafted(s)
  <2>1. ASSUME NEW w \in Wallets
        PROVE  /\ WalletSeen(s, w).version = wallets[w].version + Len(entryDraft[s][w])
               /\ Numbers(eventDraft[s][w], entryDraft[s][w], wallets[w].version, 0)
    <3>1. WalletSeen(s, w).version = 1 /\ wallets[w].version = 1 /\ Len(entryDraft[s][w]) = 0
      BY <1>1, <1>2 DEF WalletSeen
    <3>2. Numbers(eventDraft[s][w], entryDraft[s][w], wallets[w].version, 0)
      BY <1>1, NoEvent
    <3> QED
      BY <3>1, <3>2
  <2> QED
    BY <2>1 DEF NumbersDrafted
<1>7. ASSUME NEW s \in Sessions PROVE StoriesDrafted(s)
  BY <1>1, NoEvent DEF StoriesDrafted, EventsOfDrafts, NewsTold, RetriesWaited
<1> QED
  BY <1>4, <1>5, <1>6, <1>7 DEF EventInv, DraftEvents

(* A transaction that has ended has nothing left to tell. *)
LEMMA EndKeepsEvents ==
  ASSUME TypeInv, TypeInv', NEW s \in Sessions, EndTransaction(s)
  PROVE  DraftEvents(s)'
<1>1. /\ \A k \in Keys : rowDraft'[s][k] = None
      /\ \A w \in Wallets : /\ entryDraft'[s][w] = << >> /\ eventDraft'[s][w] = << >>
                            /\ walletDraft'[s][w] = None
  BY DEF EndTransaction, NoRows, NoneOf, NoWallets, TypeInv, TypeOK
<1>2. NumbersDrafted(s)'
  <2>1. ASSUME NEW w \in Wallets
        PROVE  /\ WalletSeen(s, w)'.version = wallets'[w].version + Len(entryDraft'[s][w])
               /\ Numbers(eventDraft'[s][w], entryDraft'[s][w], wallets'[w].version, 0)
    <3>1. WalletSeen(s, w)' = wallets'[w] /\ Len(entryDraft'[s][w]) = 0
      BY <1>1 DEF WalletSeen
    <3>2. wallets'[w].version \in Nat
      <4>1. wallets'[w] \in WalletRow
        BY DEF TypeInv, TypeOK
      <4> QED
        BY <4>1 DEF WalletRow
    <3>3. Numbers(eventDraft'[s][w], entryDraft'[s][w], wallets'[w].version, 0)
      BY <1>1, NoEvent
    <3> QED
      BY <3>1, <3>2, <3>3
  <2> QED
    BY <2>1 DEF NumbersDrafted
<1>3. StoriesDrafted(s)'
  BY <1>1, NoEvent DEF StoriesDrafted, EventsOfDrafts, NewsTold, RetriesWaited
<1> QED
  BY <1>2, <1>3 DEF DraftEvents

(* A statement that writes nothing. *)
LEMMA MoveKeepsEvents ==
  ASSUME EventInv, NEW s \in Sessions, UNCHANGED <<committed, drafts>>
  PROVE  DraftEvents(s)'
<1>1. DraftEvents(s)
  BY DEF EventInv
<1>2. NumbersDrafted(s)'
  BY <1>1 DEF DraftEvents, NumbersDrafted, WalletSeen, committed, drafts
<1>3. StoriesDrafted(s)'
  BY <1>1 DEF DraftEvents, StoriesDrafted, EventsOfDrafts, NewsTold, News, Posted, RetriesWaited,
              committed, drafts
<1> QED
  BY <1>2, <1>3 DEF DraftEvents

(* There is nothing to tell of a row that is only inserted. *)
LEMMA InsertKeepsEvents ==
  ASSUME TypeInv, OwnInv, EntryInv, EventInv, NEW s \in Sessions, InsertRow(s)
  PROVE  DraftEvents(s)'
<1>1. PICK k \in Keys : k = job[s].key
  BY CommandKey DEF InsertRow, TypeInv, Control
<1>2. /\ pc[s] = "insert" /\ wagers' = wagers /\ wallets' = wallets /\ wagers[k] = None
      /\ rowDraft' = [rowDraft EXCEPT ![s][k] = NewRow(job[s])]
      /\ entryDraft' = entryDraft /\ eventDraft' = eventDraft /\ walletDraft' = walletDraft
  BY <1>1 DEF InsertRow, UpdateRow, committed
<1>3. \A j \in Keys : rowDraft[s][j] = None
  BY <1>2 DEF OwnInv, ClientOwns, WorkerOwns, Sessions, Unwritten, Drafted
<1>4. /\ rowDraft'[s][k] = NewRow(job[s])
      /\ \A j \in Keys \ {k} : rowDraft'[s][j] = None
  BY <1>2, <1>3 DEF TypeInv, TypeOK
<1>5. DraftEvents(s) /\ DraftEntries(s)
  BY DEF EventInv, EntryInv
<1>6. NumbersDrafted(s)'
  BY <1>2, <1>5 DEF DraftEvents, NumbersDrafted, WalletSeen
<1>7. \A j \in Keys, w \in Wallets, type \in EventTypes : ~Told(eventDraft[s][w], j, type)
  BY <1>3, <1>5 DEF DraftEvents, StoriesDrafted, EventsOfDrafts
<1>8. \A j \in Keys, w \in Wallets : ~Posted(s, w, j)
  BY <1>3, <1>5 DEF DraftEntries, DraftsRecord, DraftRecorded, Records, Posted
<1>9. \A w \in Wallets : InOrder(eventDraft'[s][w])
  BY <1>2, <1>5 DEF DraftEvents, StoriesDrafted
<1>10. NewsTold(s)'
  <2>1. NewRow(job[s]).status = "PENDING" /\ NewRow(job[s]).attempts = 0
    BY DEF NewRow
  <2>2. \A w \in Wallets : \A type : ~News(s, w, k, type)'
    BY <1>2, <1>4, <1>8, <2>1 DEF News, Posted
  <2> QED
    BY <1>2, <1>4, <1>7, <2>2 DEF NewsTold
<1>11. EventsOfDrafts(s)' /\ RetriesWaited(s)'
  BY <1>2, <1>4, <1>7 DEF EventsOfDrafts, RetriesWaited
<1> QED
  BY <1>6, <1>9, <1>10, <1>11 DEF DraftEvents, StoriesDrafted

(* What a session has to tell stays so while others step: the version it   *)
(* counts from is that of a wallet it has locked, or it counts nothing.    *)
LEMMA OthersKeepEvents ==
  ASSUME TypeInv, TypeInv', OwnInv, LedgerInv, EventInv, NEW s \in Sessions, StepOf(s),
         NEW t \in Sessions, t # s
  PROVE  DraftEvents(t)'
<1>1. /\ rowDraft'[t] = rowDraft[t] /\ entryDraft'[t] = entryDraft[t]
      /\ eventDraft'[t] = eventDraft[t] /\ walletDraft'[t] = walletDraft[t]
  BY OthersUntouched DEF Untouched, Bystander
<1>2. DraftEvents(t)
  BY DEF EventInv
<1>3. ASSUME NEW k \in Keys, rowDraft[t][k] # None PROVE wagers'[k] = wagers[k]
  <2>1. CASE Commit(s)
    BY <1>3, <2>1, NobodyElseWrites DEF Commit, RowSeen, Drafted
  <2>2. CASE ~Commit(s)
    BY <2>2, OnlyCommitPublishes DEF committed
  <2> QED
    BY <2>1, <2>2
<1>4. StoriesDrafted(t)'
  <2>1. \A k \in Keys, w \in Wallets : \A type :
          rowDraft[t][k] # None => (News(t, w, k, type)' <=> News(t, w, k, type))
    BY <1>1, <1>3 DEF News, Posted
  <2> QED
    BY <1>1, <1>2, <1>3, <2>1
       DEF DraftEvents, StoriesDrafted, EventsOfDrafts, NewsTold, RetriesWaited
<1>5. ASSUME NEW w \in Wallets
      PROVE  /\ WalletSeen(t, w)'.version = wallets'[w].version + Len(entryDraft'[t][w])
             /\ Numbers(eventDraft'[t][w], entryDraft'[t][w], wallets'[w].version, 0)
  <2>1. CASE locks[t][w] \in Exclusive
    <3>1. wallets'[w] = wallets[w]
      <4>1. CASE Commit(s)
        BY <2>1, <4>1, DraftOfNobodyElse DEF Commit, TypeInv
      <4>2. CASE ~Commit(s)
        BY <4>2, OnlyCommitPublishes DEF committed
      <4> QED
        BY <4>1, <4>2
    <3>2. WalletSeen(t, w)' = WalletSeen(t, w)
      BY <1>1, <3>1 DEF WalletSeen
    <3> QED
      BY <1>1, <1>2, <3>1, <3>2 DEF DraftEvents, NumbersDrafted
  <2>2. CASE locks[t][w] \notin Exclusive
    <3>1. walletDraft[t][w] = None /\ entryDraft[t][w] = << >>
      BY <2>2 DEF LedgerInv, WritesAreLocked
    <3>2. WalletSeen(t, w)' = wallets'[w] /\ Len(entryDraft'[t][w]) = 0
      BY <1>1, <3>1 DEF WalletSeen
    <3>3. wallets'[w].version \in Nat
      <4>1. wallets'[w] \in WalletRow
        BY DEF TypeInv, TypeOK
      <4> QED
        BY <4>1 DEF WalletRow
    <3>4. Numbers(eventDraft[t][w], << >>, wallets[w].version, 0)
      BY <1>2, <3>1 DEF DraftEvents, NumbersDrafted
    <3>5. ASSUME NEW d, NEW o, NEW p, Numbers(d, << >>, o, 0) PROVE Numbers(d, << >>, p, 0)
      <4>1. \A j : j \notin (0 + 1)..Len(<< >>)
        OBVIOUS
      <4> QED
        BY <3>5, <4>1 DEF Numbers
    <3> QED
      BY <1>1, <3>1, <3>2, <3>3, <3>4, <3>5
  <2> QED
    BY <2>1, <2>2
<1>6. NumbersDrafted(t)'
  BY <1>5 DEF NumbersDrafted
<1> QED
  BY <1>4, <1>6 DEF DraftEvents

-----------------------------------------------------------------------------
(* What has been told *)

(* A session's entry is of a row that moves money, and such a row has one. *)
LEMMA PostedMoves ==
  ASSUME TypeInv, EntryInv, NEW s \in Sessions, EntriesPositive(s),
         NEW k \in Keys, NEW w \in Wallets, rowDraft[s][k] # None,
         rowDraft[s][k].cmd.wallet = w
  PROVE  Posted(s, w, k) <=> MovesMoney(rowDraft[s][k])
<1>1. DraftEntries(s)
  BY DEF EntryInv
<1>2. MovesMoney(rowDraft[s][k]) => Posted(s, w, k)
  BY <1>1 DEF DraftEntries, RowsDrafted, Posted
<1>3. ASSUME NEW j \in 1..Len(entryDraft[s][w]), NEW e, e = entryDraft[s][w][j], e.tx = k
      PROVE  MovesMoney(rowDraft[s][k])
  <2>1. Records(e, rowDraft[s][k], w)
    BY <1>1, <1>3 DEF DraftEntries, DraftsRecord, DraftRecorded
  <2>2. e.amount > 0
    BY <1>3 DEF EntriesPositive, TypeInv, TypeOK
  <2> QED
    BY <2>1, <2>2 DEF Records, MovesMoney
<1> QED
  BY <1>2, <1>3 DEF Posted

(* A commit tells the news of each row it writes after what was told of it. *)
LEMMA CommitKeepsStories ==
  ASSUME TypeInv, TypeInv', OwnInv, ReversalInv, EntryInv, EventInv, NEW s \in Sessions, Commit(s)
  PROVE  StoriesCommitted'
<1>1. /\ \A k \in Keys : wagers'[k] = RowSeen(s, k)
      /\ \A w \in Wallets : outbox'[w] = outbox[w] \o eventDraft[s][w]
      /\ EntriesPositive(s) /\ StepOf(s)
  BY DEF Commit, StepOf, Statement
<1>2. StoriesCommitted /\ StoriesDrafted(s)
  BY DEF EventInv, DraftEvents
<1>3. ASSUME NEW k \in Keys
      PROVE  /\ Drafted(s, k) => wagers'[k] = rowDraft[s][k]
             /\ ~Drafted(s, k) => wagers'[k] = wagers[k]
             /\ wagers[k] # None => wagers'[k] # None /\ wagers'[k].cmd = wagers[k].cmd
  BY <1>1, StepKeepsSettled DEF RowSeen, Drafted
<1>4. ASSUME NEW w \in Wallets
      PROVE  /\ outbox[w] \in Seq(Event) /\ eventDraft[s][w] \in Seq(Event)
             /\ \A k, type : Told(outbox'[w], k, type) <=>
                               Told(outbox[w], k, type) \/ Told(eventDraft[s][w], k, type)
  <2>1. outbox[w] \in Seq(Event) /\ eventDraft[s][w] \in Seq(Event)
    BY DEF TypeInv, TypeOK
  <2>2. PICK d \in Seq(Event), e \in Seq(Event) :
          d = outbox[w] /\ e = eventDraft[s][w] /\ outbox'[w] = d \o e
    BY <1>1, <2>1
  <2>3. ASSUME NEW k, NEW type
        PROVE  Told(d \o e, k, type) <=> Told(d, k, type) \/ Told(e, k, type)
    BY ToldByBoth
  <2> QED
    BY <2>2, <2>3
<1>5. EventsOfRows'
  <2>1. ASSUME NEW k \in Keys, NEW w \in Wallets, NEW type \in EventTypes,
               Told(outbox'[w], k, type)
        PROVE  wagers'[k] # None /\ wagers'[k].cmd.wallet = w
    BY <1>2, <1>3, <1>4, <2>1
       DEF StoriesCommitted, EventsOfRows, StoriesDrafted, EventsOfDrafts, Drafted
  <2> QED
    BY <2>1 DEF EventsOfRows
(* What a session has written of a row that has been told of.              *)
<1>6. ASSUME NEW k \in Keys, Drafted(s, k), wagers[k] # None
      PROVE  /\ \A type : type \in StoryOf(wagers[k]) <=> type = "WagerTransactionPendingReference"
             /\ rowDraft[s][k].attempts > 0
  <2>1. wagers[k].status = "PENDING_REFERENCE"
    BY <1>6, DraftedIsOpen
  <2>2. wagers[k].attempts > 0
    BY <1>6, <2>1 DEF ReversalInv, RowsSound, RowSound, TypeInv, TypeOK, Row
  <2>3. rowDraft[s][k].attempts > 0
    BY <1>2, <1>6 DEF StoriesDrafted, RetriesWaited, Drafted
  <2> QED
    BY <2>1, <2>2, <2>3 DEF StoryOf, Chapter, MovesMoney
<1>7. ASSUME NEW k \in Keys, Drafted(s, k), NEW type \in EventTypes, NEW w \in Wallets,
             rowDraft[s][k].cmd.wallet = w
      PROVE  type \in StoryOf(rowDraft[s][k]) <=>
               \/ News(s, w, k, type)
               \/ wagers[k] # None /\ type = "WagerTransactionPendingReference"
  <2>1. Posted(s, w, k) <=> MovesMoney(rowDraft[s][k])
    BY <1>1, <1>7, PostedMoves DEF Drafted
  <2>2. PICK r : r = rowDraft[s][k]
    OBVIOUS
  <2>3. r # None
    BY <1>7, <2>2 DEF Drafted
  <2>4. type \in StoryOf(r) <=>
          \/ type = "WagerTransactionPendingReference" /\ r.attempts > 0
          \/ type = "WagerTransactionRejected" /\ r.status = "REJECTED"
          \/ type = "WagerTransactionProcessed" /\ r.status = "PROCESSED"
          \/ type = "WalletBalanceChanged" /\ MovesMoney(r)
    BY <1>7 DEF StoryOf, Chapter, EventTypes
  <2>5. r.attempts > 0 <=> (wagers[k] = None /\ r.attempts > 0) \/ wagers[k] # None
    BY <1>6, <1>7, <2>2
  <2> QED
    BY <2>1, <2>2, <2>4, <2>5 DEF News
<1>8. StoriesTold'
  <2>1. ASSUME NEW k \in Keys, NEW w \in Wallets, NEW type \in EventTypes,
               wagers'[k] # None, wagers'[k].cmd.wallet = w
        PROVE  Told(outbox'[w], k, type) <=> type \in StoryOf(wagers'[k])
    <3>1. CASE ~Drafted(s, k)
      <4>1. ~Told(eventDraft[s][w], k, type)
        BY <1>2, <3>1 DEF StoriesDrafted, EventsOfDrafts, Drafted
      <4>2. wagers'[k] = wagers[k]
        BY <1>3, <3>1
      <4>3. Told(outbox[w], k, type) <=> type \in StoryOf(wagers[k])
        BY <1>2, <2>1, <4>2 DEF StoriesCommitted, StoriesTold
      <4> QED
        BY <1>4, <4>1, <4>2, <4>3
    <3>2. CASE Drafted(s, k)
      <4>1. wagers'[k] = rowDraft[s][k]
        BY <1>3, <3>2
      <4>2. Told(eventDraft[s][w], k, type) <=> News(s, w, k, type)
        BY <1>2, <2>1, <3>2, <4>1 DEF StoriesDrafted, NewsTold, Drafted
      <4>3. Told(outbox[w], k, type) <=>
              wagers[k] # None /\ type = "WagerTransactionPendingReference"
        <5>1. CASE wagers[k] = None
          BY <1>2, <5>1 DEF StoriesCommitted, EventsOfRows
        <5>2. CASE wagers[k] # None
          <6>1. wagers[k].cmd.wallet = w
            BY <1>3, <2>1, <5>2
          <6> QED
            BY <1>2, <1>6, <3>2, <5>2, <6>1 DEF StoriesCommitted, StoriesTold
        <5> QED
          BY <5>1, <5>2
      <4> QED
        BY <1>4, <1>7, <2>1, <3>2, <4>1, <4>2, <4>3
    <3> QED
      BY <3>1, <3>2
  <2> QED
    BY <2>1 DEF StoriesTold, StoryOf, Chapter, MovesMoney
<1>9. ASSUME NEW w \in Wallets PROVE InOrder(outbox'[w])
  <2>1. PICK d \in Seq(Event), e \in Seq(Event) : d = outbox[w] /\ e = eventDraft[s][w]
    BY <1>4
  <2>2. InOrder(d) /\ InOrder(e)
    BY <1>2, <2>1 DEF StoriesCommitted, StoriesDrafted
  <2>3. ASSUME NEW i \in 1..Len(d), NEW j \in 1..Len(e), d[i].tx = e[j].tx
        PROVE  Chapter[d[i].type] < Chapter[e[j].type]
    <3>1. PICK k \in Keys, first \in EventTypes, next \in EventTypes :
            /\ k = d[i].tx /\ first = d[i].type /\ next = e[j].type
            /\ Told(outbox[w], k, first) /\ Told(eventDraft[s][w], k, next)
      BY <2>1, <2>3, EventTold
    <3>2. wagers[k] # None /\ wagers[k].cmd.wallet = w
      BY <1>2, <3>1 DEF StoriesCommitted, EventsOfRows
    <3>3. Drafted(s, k) /\ rowDraft[s][k].cmd.wallet = w
      BY <1>2, <3>1 DEF StoriesDrafted, EventsOfDrafts, Drafted
    <3>4. first = "WagerTransactionPendingReference"
      BY <1>2, <1>6, <3>1, <3>2, <3>3 DEF StoriesCommitted, StoriesTold
    <3>5. next # "WagerTransactionPendingReference"
      BY <1>2, <3>1, <3>2, <3>3 DEF StoriesDrafted, NewsTold, News, Drafted
    <3>6. Chapter[first] = 1 /\ Chapter[next] \in {2, 3}
      BY <3>4, <3>5 DEF Chapter, EventTypes
    <3> QED
      BY <3>1, <3>6
  <2>4. InOrder(d \o e)
    BY <2>2, <2>3, OrderGoesOn
  <2> QED
    BY <1>1, <2>1, <2>4
<1> QED
  BY <1>5, <1>8, <1>9 DEF StoriesCommitted

(* A commit goes on with the versions where the wallet was. *)
LEMMA CommitKeepsNumbers ==
  ASSUME TypeInv, EventInv, NEW s \in Sessions, Commit(s)
  PROVE  NumbersCommitted'
<1>1. ASSUME NEW w \in Wallets, NEW n, n = Len(OpeningLedger(w))
      PROVE  /\ n <= Len(ledger'[w])
             /\ wallets'[w].version = 1 - n + Len(ledger'[w])
             /\ Numbers(outbox'[w], ledger'[w], 1 - n, n)
  <2>1. PICK d \in Seq(Event), e \in Seq(Event), l \in Seq(Entry), m \in Seq(Entry) :
          /\ d = outbox[w] /\ e = eventDraft[s][w] /\ l = ledger[w] /\ m = entryDraft[s][w]
    BY DEF TypeInv, TypeOK
  <2>2. n \in Nat /\ 1 - n \in Int
    <3>1. OpeningLedger(w) = << >> \/ \E x : OpeningLedger(w) = << x >>
      BY DEF OpeningLedger
    <3> QED
      BY <1>1, <3>1
  <2>3. /\ n <= Len(l) /\ wallets[w].version = 1 - n + Len(l) /\ Numbers(d, l, 1 - n, n)
        /\ WalletSeen(s, w).version = wallets[w].version + Len(m)
        /\ Numbers(e, m, wallets[w].version, 0)
    BY <1>1, <2>1 DEF EventInv, NumbersCommitted, DraftEvents, NumbersDrafted
  <2>4. Len(l) \in Nat /\ Len(m) \in Nat /\ Len(l \o m) = Len(l) + Len(m)
    BY Concatenated
  <2>5. Numbers(d \o e, l \o m, 1 - n, n)
    BY <2>2, <2>3, NumbersGoOn
  <2>6. /\ wallets'[w].version = 1 - n + (Len(l) + Len(m))
        /\ n <= Len(l) + Len(m)
    <3>1. wallets'[w] = WalletSeen(s, w)
      BY DEF Commit
    <3> QED
      BY <2>2, <2>3, <2>4, <3>1
  <2>7. outbox'[w] = d \o e /\ ledger'[w] = l \o m
    BY <2>1 DEF Commit
  <2> QED
    BY <2>4, <2>5, <2>6, <2>7
<1> QED
  BY <1>1 DEF NumbersCommitted, OpeningLedger

-----------------------------------------------------------------------------
(* Every step *)

(* What is committed stays, or goes on with what a session has to tell. *)
LEMMA StepKeepsPublished ==
  ASSUME TypeInv, TypeInv', OwnInv, ReversalInv, EntryInv, EventInv, NEW s \in Sessions, StepOf(s)
  PROVE  NumbersCommitted' /\ StoriesCommitted'
<1>1. CASE Commit(s)
  BY <1>1, CommitKeepsNumbers, CommitKeepsStories
<1>2. CASE ~Commit(s)
  BY <1>2, OnlyCommitPublishes
     DEF committed, EventInv, NumbersCommitted, StoriesCommitted, EventsOfRows, StoriesTold
<1> QED
  BY <1>1, <1>2

(* A session has what it has to tell after its own steps too. *)
LEMMA StepKeepsDraftEvents ==
  ASSUME TypeInv, TypeInv', OwnInv, ReversalInv, EntryInv, EventInv, NEW s \in Sessions, StepOf(s)
  PROVE  DraftEvents(s)'
<1>1. CASE EndTransaction(s)
  BY <1>1, EndKeepsEvents
<1>2. CASE Outcome(s)
  <2>1. Tells(s)
    BY <1>2, QuietTells, PostTells
  <2>2. PICK r \in Row, e \in Seq(Event), m \in Seq(Entry) :
          SettlesWith(s, r) /\ Adds(s, e, m) /\ Announces(s, r, e, m)
    BY <2>1 DEF Tells
  <2> QED
    BY <2>2, OutcomeKeepsNumbers, OutcomeKeepsStories DEF DraftEvents
<1>3. CASE InsertRow(s)
  BY <1>3, InsertKeepsEvents
<1>4. CASE \/ CheckWalletKey(s) \/ LockWallet(s) \/ ClaimDue(s)
           \/ \E c \in Commands : Submit(s, c)
           \/ InsertConflicts(s) \/ LoadWallet(s)
           \/ AcceptReference(s) \/ Reverse(s) \/ DebitRefused(s)
  <2>1. UNCHANGED <<committed, drafts>>
    BY <1>4 DEF CheckWalletKey, LockWallet, ClaimDue, Submit, InsertConflicts, LoadWallet,
                AcceptReference, Reverse, DebitRefused
  <2> QED
    BY <2>1, MoveKeepsEvents
<1> QED
  BY <1>1, <1>2, <1>3, <1>4, StepKinds

LEMMA NextKeepsEvents ==
  ASSUME TypeInv, TypeInv', OwnInv, LedgerInv, ReversalInv, EntryInv, EventInv, [Next]_vars
  PROVE  EventInv'
<1>1. CASE UNCHANGED vars
  <2>1. UNCHANGED <<committed, drafts>>
    BY <1>1 DEF vars
  <2>2. NumbersCommitted' /\ StoriesCommitted'
    BY <2>1 DEF committed, EventInv, NumbersCommitted, StoriesCommitted, EventsOfRows, StoriesTold
  <2>3. \A s \in Sessions : DraftEvents(s)'
    BY <2>1, MoveKeepsEvents
  <2> QED
    BY <2>2, <2>3 DEF EventInv
<1>2. ASSUME NEW s \in Sessions, StepOf(s) PROVE EventInv'
  <2>1. \A t \in Sessions : DraftEvents(t)'
    BY <1>2, StepKeepsDraftEvents, OthersKeepEvents
  <2> QED
    BY <1>2, <2>1, StepKeepsPublished DEF EventInv
<1> QED
  BY <1>1, <1>2 DEF Next, StepOf

LEMMA EventsAlways == Spec => [](TypeInv /\ ReversalInv /\ EventInv)
<1>1. Init => EventInv
  BY InitEventInv
<1>2. TypeInv /\ TypeInv' /\ OwnInv /\ LedgerInv /\ ReversalInv /\ EntryInv /\ EventInv
        /\ [Next]_vars => EventInv'
  BY NextKeepsEvents
<1> QED
  BY <1>1, <1>2, EntriesAlways, PTL DEF Spec

-----------------------------------------------------------------------------
(* Nothing that was rolled back is announced and nothing that was          *)
(* committed is not: the balance events of a wallet are its ledger after   *)
(* the opening entry, in order, under the versions the wallet went through.*)
THEOREM EventsFollowLedger == Spec => []BalanceEventsFollowLedger
<1>1. TypeInv /\ EventInv => BalanceEventsFollowLedger
  <2> SUFFICES ASSUME TypeInv, EventInv PROVE BalanceEventsFollowLedger
    OBVIOUS
  <2>1. ASSUME NEW w \in Wallets, NEW opening, opening = Len(OpeningLedger(w))
        PROVE  /\ wallets[w].version = Len(ledger[w]) - opening + 1
               /\ {outbox[w][i].version : i \in BalanceEvents(w)} = 2..wallets[w].version
               /\ \A i, j \in BalanceEvents(w) : i < j => outbox[w][i].version < outbox[w][j].version
               /\ \A i \in BalanceEvents(w) :
                    outbox[w][i].tx = ledger[w][outbox[w][i].version - 1 + opening].tx
    <3>1. PICK n \in Nat, a \in Nat, d \in Seq(Event), l \in Seq(Entry) :
            n = opening /\ l = ledger[w] /\ a = Len(l) /\ d = outbox[w]
      <4>1. OpeningLedger(w) = << >> \/ \E x : OpeningLedger(w) = << x >>
        BY DEF OpeningLedger
      <4>2. opening \in Nat
        BY <2>1, <4>1
      <4>3. /\ ledger[w] \in Seq(Entry) /\ outbox[w] \in Seq(Event)
            /\ Len(ledger[w]) \in Nat
        <5>1. ledger[w] \in Seq(Entry) /\ outbox[w] \in Seq(Event)
          BY DEF TypeInv, TypeOK
        <5> QED
          BY <5>1
      <4> QED
        BY <4>2, <4>3
    <3>2. n <= a /\ wallets[w].version = (1 - n) + a /\ Numbers(d, l, 1 - n, n)
      BY <2>1, <3>1 DEF EventInv, NumbersCommitted
    <3>3. \A i : i \in BalanceEvents(w) <=> i \in 1..Len(d) /\ Changed(d[i])
      BY <3>1 DEF BalanceEvents, Changed
    <3>4. ASSUME NEW i \in BalanceEvents(w)
          PROVE  d[i].version \in 2..((1 - n) + a) /\ d[i].tx = l[d[i].version - 1 + n].tx
      <4>1. PICK j \in (n + 1)..a : d[i].version = (1 - n) + j /\ d[i].tx = l[j].tx
        BY <3>1, <3>2, <3>3 DEF Numbers
      <4>2. d[i].version \in 2..((1 - n) + a) /\ d[i].version - 1 + n = j
        BY <4>1
      <4> QED
        BY <4>1, <4>2
    <3>5. ASSUME NEW v \in 2..((1 - n) + a)
          PROVE  \E i \in BalanceEvents(w) : d[i].version = v
      <4>1. PICK j \in (n + 1)..a : v = (1 - n) + j
        <5>1. v - 1 + n \in (n + 1)..a /\ v = (1 - n) + (v - 1 + n)
          OBVIOUS
        <5> QED
          BY <5>1
      <4> QED
        BY <3>1, <3>2, <3>3, <4>1 DEF Numbers
    <3>6. \A i, j \in BalanceEvents(w) : i < j => d[i].version < d[j].version
      BY <3>2, <3>3 DEF Numbers
    <3>7. wallets[w].version = a - n + 1
      BY <3>2
    <3>8. {d[i].version : i \in BalanceEvents(w)} = 2..wallets[w].version
      BY <3>2, <3>4, <3>5
    <3> QED
      BY <3>1, <3>4, <3>6, <3>7, <3>8
  <2> QED
    BY <2>1 DEF BalanceEventsFollowLedger
<1> QED
  BY <1>1, EventsAlways, PTL

(* Every committed row has told its whole story once and in order: pending *)
(* once, however often it is retried, then its outcome, and no row stays   *)
(* PENDING.                                                                *)
THEOREM EventsTellRows == Spec => []EventsTellEachRow
<1>1. TypeInv /\ ReversalInv /\ EventInv => EventsTellEachRow
  <2> SUFFICES ASSUME TypeInv, ReversalInv, EventInv PROVE EventsTellEachRow
    OBVIOUS
  <2>1. ASSUME NEW k \in Keys, wagers[k] # None, NEW told, told = outbox[wagers[k].cmd.wallet],
               NEW mine, mine = {i \in DOMAIN told : told[i].tx = k}
        PROVE  /\ wagers[k].status \in {"PENDING_REFERENCE", "PROCESSED", "REJECTED"}
               /\ {told[i].type : i \in mine} = StoryOf(wagers[k])
               /\ \A i, j \in mine : i < j => Chapter[told[i].type] < Chapter[told[j].type]
    <3>1. PICK w \in Wallets : w = wagers[k].cmd.wallet /\ told = outbox[w]
      BY <2>1 DEF TypeInv, RowsKeyed
    <3>2. wagers[k].status \in {"PENDING_REFERENCE", "PROCESSED", "REJECTED"}
      <4>1. wagers[k] \in Row
        BY <2>1 DEF TypeInv, TypeOK
      <4>2. wagers[k].status # "PENDING" /\ wagers[k].status # "FAILED"
        BY <2>1 DEF ReversalInv, RowsSound, RowSound
      <4> QED
        BY <4>1, <4>2 DEF Row, Statuses
    <3>3. told \in Seq(Event)
      BY <3>1 DEF TypeInv, TypeOK
    <3>4. \A i : i \in mine <=> i \in 1..Len(told) /\ told[i].tx = k
      BY <2>1, <3>3
    <3>5. \A i \in mine : told[i].type \in EventTypes
      BY <3>3, <3>4, EventTold
    <3>6. \A type \in EventTypes :
            (\E i \in mine : told[i].type = type) <=> type \in StoryOf(wagers[k])
      BY <2>1, <3>1, <3>4 DEF EventInv, StoriesCommitted, StoriesTold, Told
    <3>7. StoryOf(wagers[k]) \subseteq EventTypes
      BY DEF StoryOf, Chapter, EventTypes
    <3>8. {told[i].type : i \in mine} = StoryOf(wagers[k])
      BY <3>5, <3>6, <3>7
    <3>9. \A i, j \in mine : i < j => Chapter[told[i].type] < Chapter[told[j].type]
      BY <3>1, <3>4 DEF EventInv, StoriesCommitted, InOrder
    <3> QED
      BY <3>2, <3>8, <3>9
  <2> QED
    BY <2>1 DEF EventsTellEachRow
<1> QED
  BY <1>1, EventsAlways, PTL
=============================================================================

-------------------------- MODULE WagerReversalsProofs --------------------------
(***************************************************************************)
(* Retries, reversals and deadlocks, for any number of sessions.           *)
(*                                                                         *)
(* A reversal works under FOR UPDATE on its wallet from its reference to   *)
(* its commit (HeldLock, DraftsSound), and that lock excludes every other  *)
(* one, FOR KEY SHARE included (ForUpdateExcludes).  What it read of the   *)
(* balance and of the earlier reversals is therefore still true when it    *)
(* writes and when it commits.  A bet or a win holds no more than          *)
(* FOR KEY SHARE while it waits, so nobody it waits for waits for it.      *)
(***************************************************************************)
EXTENDS WagerProcessingProofs

ForUpdateExcludes ==
  \A s, t \in Sessions, w \in Wallets :
    s # t /\ locks[s][w] = "forUpdate" => locks[t][w] = "none"

(* What the columns of a row say of each other. *)
RowSound(r) ==
  /\ r.attempts <= MaxAttempts
  /\ r.status # "FAILED"
  /\ r.status = "PENDING" => r.attempts = 0
  /\ r.status = "PENDING_REFERENCE" => r.attempts >= 1 /\ r.cmd.kind \in Reversals
  /\ r.status = "PROCESSED" =>
       /\ r.observed \in Int
       /\ r.reference # None <=> r.cmd.kind \in Reversals
  /\ r.status # "PROCESSED" => r.reference = None
  /\ r.status # "REJECTED" => r.failure = None
  /\ r.failure = "REFERENCE_NOT_FOUND" => r.attempts = MaxAttempts
  /\ r.failure = "REVERSAL_WOULD_CAUSE_NEGATIVE_BALANCE"
       => r.observed \in Int /\ r.observed < r.cmd.amount

RowsSound ==
  /\ \A k \in Keys : wagers[k] # None =>
       RowSound(wagers[k]) /\ wagers[k].status # "PENDING"
  /\ \A s \in Sessions, k \in Keys : Drafted(s, k) => RowSound(rowDraft[s][k])

(* q is a row that c may reverse. *)
Reversible(c, q) ==
  /\ q # None /\ q.status = "PROCESSED"
  /\ q.cmd.wallet = c.wallet /\ q.cmd.amount = c.amount
  /\ q.cmd.kind \in ReversibleBy[c.kind]

ReferencesStand ==
  \A k \in Keys : wagers[k] # None /\ wagers[k].reference # None =>
    Reversible(wagers[k].cmd, wagers[wagers[k].reference])

Reversing(s) == job[s].kind \in Reversals

(* Which kinds reach which statement. *)
Course(s) ==
  /\ pc[s] \in {"lockWallet", "reference", "reversal"} => Reversing(s)
  /\ pc[s] \in {"debit", "observe"} => Reversing(s) \/ job[s].kind = "BET"
  /\ pc[s] = "credit" => Reversing(s) \/ job[s].kind = "WIN"

HeldLock(s) ==
  /\ pc[s] = "load" => locks[s][job[s].wallet] = "keyShare"
  /\ pc[s] \in {"reference", "reversal"} => locks[s][job[s].wallet] = "forUpdate"
  /\ pc[s] \in {"debit", "credit", "observe"} =>
       locks[s][job[s].wallet] = IF Reversing(s) THEN "forUpdate" ELSE "keyShare"
  /\ \A w \in Wallets : locks[s][w] = "noKeyUpdate" => pc[s] = "commit"

(* The reference a reversal was accepted for is there to stay, and nobody  *)
(* has reversed it since.                                                  *)
FoundSound(s) ==
  IF pc[s] \in {"reversal", "debit", "credit", "observe"} /\ Reversing(s)
  THEN /\ found[s] \in Keys /\ wagers[found[s]] # None
       /\ Reversible(job[s], RowSeen(s, found[s]))
       /\ pc[s] \in {"debit", "credit"} =>
            ProcessedReversals(s, found[s], job[s].kind) = {}
  ELSE found[s] = None

ShortOfAmount(s) ==
  pc[s] = "observe" /\ Reversing(s) =>
    WalletSeen(s, job[s].wallet).balance < job[s].amount

(* The reversals a session has written. *)
DraftsSound(s) ==
  \A k \in Keys : Drafted(s, k) /\ rowDraft[s][k].reference # None =>
    LET r == rowDraft[s][k] IN
    /\ r.cmd.wallet \in Wallets /\ locks[s][r.cmd.wallet] = "forUpdate"
    /\ wagers[r.reference] # None /\ Reversible(r.cmd, RowSeen(s, r.reference))

SessionSound(s) ==
  /\ Course(s) /\ HeldLock(s) /\ FoundSound(s) /\ ShortOfAmount(s)
  /\ DraftsSound(s) /\ ReversalIndexHolds(s)

ReversalInv ==
  /\ ForUpdateExcludes /\ RowsSound /\ ReferencesStand
  /\ \A s \in Sessions : SessionSound(s)

-----------------------------------------------------------------------------
(* What a step of another session leaves alone. *)
Untouched(t) ==
  /\ Bystander(t)
  /\ found'[t] = found[t] /\ locks'[t] = locks[t]
  /\ walletDraft'[t] = walletDraft[t] /\ entryDraft'[t] = entryDraft[t]
  /\ eventDraft'[t] = eventDraft[t]

StepOf(s) == Start(s) \/ Statement(s) \/ Crash(s)

(* A step of one session touches nothing of another's. *)
LEMMA OthersUntouched ==
  ASSUME TypeInv, NEW s \in Sessions, StepOf(s), NEW t \in Sessions, t # s
  PROVE  Untouched(t)
<1> USE DEF Untouched, Bystander, TypeInv, TypeOK
<1>1. CASE EndTransaction(s)
  BY <1>1 DEF EndTransaction
<1>2. CASE Start(s)
  BY <1>2 DEF Start, ClaimDue, Submit, Goto, drafts
<1>3. CASE \/ InsertRow(s) \/ InsertConflicts(s) \/ CheckWalletKey(s) \/ LoadWallet(s)
           \/ LockWallet(s) \/ AcceptReference(s) \/ Reverse(s) \/ DebitRefused(s)
  BY <1>3 DEF InsertRow, InsertConflicts, CheckWalletKey, LoadWallet, LockWallet,
              AcceptReference, Reverse, DebitRefused, UpdateRow, Goto, drafts
<1>4. ASSUME NEW r, NEW events, UpdateRow(s, r), Enqueue(s, events) \/ UNCHANGED eventDraft,
             NextRow(s), NoBalanceChange
      PROVE  Untouched(t)
  BY <1>4 DEF UpdateRow, Enqueue, NextRow, NoBalanceChange, Goto
<1>5. CASE \/ LoadForeignWallet(s) \/ SettleWithoutEntry(s) \/ AwaitReference(s)
           \/ RetryLater(s) \/ GiveUp(s) \/ RefuseReference(s)
           \/ RefuseSecondReversal(s) \/ Observe(s)
  <2>1. (\E code, b : Reject(s, code, b)) => Untouched(t)
    BY <1>4 DEF Reject
  <2> QED
    BY <1>4, <1>5, <2>1 DEF LoadForeignWallet, SettleWithoutEntry, AwaitReference, RetryLater,
       GiveUp, RefuseReference, RefuseSecondReversal, Observe
<1>6. CASE Debit(s) \/ Credit(s)
  <2>1. PICK direction : Post(s, direction)
    BY <1>6 DEF Debit, Credit
  <2>2. NextRow(s) /\ \E r : UpdateRow(s, r)
    BY <2>1 DEF Post
  <2>3. Bystander(t) /\ found'[t] = found[t]
    BY <2>2 DEF NextRow, Goto, UpdateRow
  <2>4. locks'[t] = locks[t] /\ walletDraft'[t] = walletDraft[t]
    BY <2>1 DEF Post
  <2>5. entryDraft'[t] = entryDraft[t]
    BY <2>1 DEF Post
  <2>6. \E events : Enqueue(s, events)
    BY <2>1 DEF Post
  <2>7. eventDraft'[t] = eventDraft[t]
    BY <2>6 DEF Enqueue
  <2> QED
    BY <2>3, <2>4, <2>5, <2>7
<1> QED
  BY <1>1, <1>2, <1>3, <1>5, <1>6
     DEF StepOf, Statement, ClientStep, ReversalStep, BalanceStep, Commit, CommitFails,
         AbortDeadlock, Crash, InsertFails, Replay, WalletKeyFails, RollBack

(* No other action writes a committed table. *)
LEMMA OnlyCommitPublishes ==
  ASSUME NEW s \in Sessions, StepOf(s), ~Commit(s)
  PROVE  UNCHANGED committed
<1>1. CASE Start(s) \/ Crash(s)
  BY <1>1 DEF Start, ClaimDue, Submit, Crash
<1>2. CASE ClientStep(s)
  BY <1>2 DEF ClientStep, InsertRow, InsertFails, InsertConflicts, Replay, CheckWalletKey,
              WalletKeyFails, LoadWallet, LoadForeignWallet, SettleWithoutEntry, RollBack,
              Reject, NoBalanceChange
<1>3. CASE ReversalStep(s)
  BY <1>3 DEF ReversalStep, LockWallet, AwaitReference, RetryLater, GiveUp, RefuseReference,
              AcceptReference, RefuseSecondReversal, Reverse, Reject, NoBalanceChange
<1>4. CASE BalanceStep(s)
  BY <1>4 DEF BalanceStep, Debit, DebitRefused, Observe, Credit, Post, Reject,
              NoBalanceChange
<1> QED
  BY <1>1, <1>2, <1>3, <1>4 DEF StepOf, Statement, CommitFails, AbortDeadlock, RollBack

(* No row, no lock, nobody at work. *)
LEMMA InitReversalInv == Init => ReversalInv
<1> SUFFICES ASSUME Init PROVE ReversalInv
  OBVIOUS
<1>1. /\ \A s \in Sessions : pc[s] = "idle" /\ found[s] = None
      /\ \A s \in Sessions, k \in Keys : rowDraft[s][k] = None
      /\ \A s \in Sessions, w \in Wallets : locks[s][w] = "none"
      /\ \A k \in Keys : wagers[k] = None
  BY DEF Init, NoRows, NoLocks
<1>2. ASSUME NEW s \in Sessions PROVE SessionSound(s)
  BY <1>1 DEF SessionSound, Course, HeldLock, FoundSound, ShortOfAmount, DraftsSound,
              ReversalIndexHolds, Drafted
<1> QED
  BY <1>1, <1>2 DEF ReversalInv, ForUpdateExcludes, RowsSound, ReferencesStand, Drafted

(* FOR UPDATE conflicts with every lock, and every lock with it. *)
LEMMA NoBlockersForUpdate ==
  ASSUME TypeOK, NEW s \in Sessions, NEW w \in Wallets, NEW t \in Sessions, t # s
  PROVE  /\ Blockers(s, w, "forUpdate") = {} => locks[t][w] = "none"
         /\ Blockers(s, w, "noKeyUpdate") = {} => locks[t][w] # "forUpdate"
         /\ Blockers(s, w, "keyShare") = {} => locks[t][w] # "forUpdate"
<1>1. \A mode : Blockers(s, w, mode) = {} => mode \notin ConflictsWith[locks[t][w]]
  BY DEF Blockers
<1>2. locks[t][w] \in LockModes
  BY DEF TypeOK
<1> QED
  BY <1>1, <1>2 DEF ConflictsWith, LockModes

(* A session takes a lock nobody's lock conflicts with, or gives up all. *)
LEMMA NextKeepsForUpdate ==
  ASSUME TypeInv, LedgerInv, ForUpdateExcludes, NEW s \in Sessions, StepOf(s)
  PROVE  ForUpdateExcludes'
<1> USE DEF ForUpdateExcludes
<1>1. \A t \in Sessions : t # s => locks'[t] = locks[t]
  BY OthersUntouched DEF Untouched
<1>2. CASE locks'[s] = locks[s]
  BY <1>1, <1>2
<1>3. CASE EndTransaction(s)
  BY <1>1, <1>3 DEF EndTransaction, NoLocks, TypeInv, TypeOK
<1>4. ASSUME NEW w \in Wallets, NEW mode \in LockModes,
             locks' = [locks EXCEPT ![s][w] = mode],
             \A t \in Sessions : t # s =>
               /\ locks[t][w] # "forUpdate"
               /\ mode = "forUpdate" => locks[t][w] = "none"
      PROVE  ForUpdateExcludes'
  <2>1. /\ locks'[s][w] = mode
        /\ \A v \in Wallets : v # w => locks'[s][v] = locks[s][v]
    BY <1>4 DEF TypeInv, TypeOK
  <2> QED
    BY <1>1, <1>4, <2>1
<1>5. CASE CheckWalletKey(s)
  BY <1>4, <1>5, NoBlockersForUpdate DEF CheckWalletKey, LockModes, TypeInv
<1>6. CASE LockWallet(s)
  <2>1. job[s].wallet \in Wallets
    BY <1>6, SettledRowType DEF LockWallet, Early
  <2>2. \A t \in Sessions : t # s => locks[t][job[s].wallet] = "none"
    BY <1>6, <2>1, NoBlockersForUpdate DEF LockWallet, TypeInv
  <2> QED
    BY <1>4, <1>6, <2>1, <2>2 DEF LockWallet, LockModes
<1>7. CASE Debit(s) \/ Credit(s)
  <2> DEFINE w == job[s].wallet
  <2>1. w \in Wallets
    BY <1>7, SettledRowType DEF Debit, Credit, Early
  <2>2. /\ Blockers(s, w, "noKeyUpdate") = {}
        /\ locks' = [locks EXCEPT ![s][w] =
                       IF locks[s][w] = "forUpdate" THEN "forUpdate" ELSE "noKeyUpdate"]
    BY <1>7, <2>1 DEF Debit, Credit, Post, UpdateMode
  <2>3. CASE locks[s][w] = "forUpdate"
    <3>1. locks'[s] = locks[s]
      BY <2>1, <2>2, <2>3 DEF TypeInv, TypeOK
    <3> QED
      BY <1>2, <3>1
  <2>4. CASE locks[s][w] # "forUpdate"
    BY <1>4, <2>1, <2>2, <2>4, NoBlockersForUpdate DEF LockModes, TypeInv
  <2> QED
    BY <2>3, <2>4
<1>8. CASE \/ Start(s) \/ InsertRow(s) \/ InsertConflicts(s) \/ LoadWallet(s)
           \/ AcceptReference(s) \/ Reverse(s) \/ DebitRefused(s)
  BY <1>2, <1>8 DEF Start, Submit, ClaimDue, InsertRow, InsertConflicts, LoadWallet,
                    AcceptReference, Reverse, DebitRefused
<1>9. CASE \/ LoadForeignWallet(s) \/ SettleWithoutEntry(s) \/ AwaitReference(s)
           \/ RetryLater(s) \/ GiveUp(s) \/ RefuseReference(s)
           \/ RefuseSecondReversal(s) \/ Observe(s)
  BY <1>2, <1>9 DEF LoadForeignWallet, SettleWithoutEntry, AwaitReference, RetryLater,
       GiveUp, RefuseReference, RefuseSecondReversal, Observe, Reject, NoBalanceChange
<1> QED
  BY <1>3, <1>5, <1>6, <1>7, <1>8, <1>9
     DEF StepOf, Statement, ClientStep, ReversalStep, BalanceStep, Commit, CommitFails,
         AbortDeadlock, Crash, InsertFails, Replay, WalletKeyFails, RollBack

-----------------------------------------------------------------------------
(* A step ends the transaction, gives its row an outcome, or is one of the *)
(* statements before.                                                      *)
LEMMA StepKinds ==
  ASSUME NEW s \in Sessions, StepOf(s)
  PROVE  \/ EndTransaction(s) \/ Outcome(s) \/ InsertRow(s)
         \/ CheckWalletKey(s) \/ LockWallet(s)
         \/ ClaimDue(s) \/ \E c \in Commands : Submit(s, c)
         \/ InsertConflicts(s) \/ LoadWallet(s)
         \/ AcceptReference(s) \/ Reverse(s) \/ DebitRefused(s)
BY DEF StepOf, Start, Statement, ClientStep, ReversalStep, BalanceStep, Outcome, Commit,
       CommitFails, AbortDeadlock, Crash, InsertFails, Replay, WalletKeyFails, RollBack

(* The row a session is about to settle has no outcome yet. *)
LEMMA JobRowOpen ==
  ASSUME TypeInv, OwnInv, ReversalInv, NEW s \in Sessions, Settling(s), pc[s] # "walletKey"
  PROVE  /\ JobRow(s) \in Row /\ RowSound(JobRow(s))
         /\ JobRow(s).cmd = job[s] /\ job[s] \in Commands /\ job[s].amount \in Nat
         /\ JobRow(s).failure = None /\ JobRow(s).reference = None
         /\ JobRow(s).attempts \in Nat
         /\ JobRow(s).status = IF s \in Clients THEN "PENDING" ELSE "PENDING_REFERENCE"
<1>1. /\ JobRow(s) \in Row /\ job[s].key \in Keys /\ JobRow(s).cmd = job[s]
      /\ job[s] \in Commands /\ job[s].amount \in Nat
      /\ JobRow(s).status = IF s \in Clients THEN "PENDING" ELSE "PENDING_REFERENCE"
  BY JobRowOwned
<1>2. RowSound(JobRow(s))
  BY <1>1, NoneAssumption DEF JobRow, RowSeen, Drafted, ReversalInv, RowsSound
<1> QED
  BY <1>1, <1>2 DEF RowSound, Row

(* Every outcome is sound, and only a processed reversal has a reference:  *)
(* the one that was found.                                                 *)
LEMMA OutcomeSound ==
  ASSUME TypeInv, OwnInv, ReversalInv, NEW s \in Sessions, Outcome(s)
  PROVE  \E r \in Row :
           /\ SettlesWith(s, r) /\ RowSound(r)
           /\ r.reference # None => pc[s] \in {"debit", "credit"} /\ r.reference = found[s]
<1> DEFINE q == JobRow(s)
           Good(r) == /\ r \in Row /\ SettlesWith(s, r) /\ RowSound(r)
                      /\ r.reference # None =>
                           pc[s] \in {"debit", "credit"} /\ r.reference = found[s]
<1>1. Settling(s) /\ pc[s] # "walletKey"
  BY OutcomeSettles DEF SettlesWith
<1>2. /\ q \in Row /\ RowSound(q) /\ q.cmd = job[s] /\ q.cmd.amount \in Nat
      /\ q.failure = None /\ q.reference = None /\ q.attempts \in Nat
      /\ q.status = IF s \in Clients THEN "PENDING" ELSE "PENDING_REFERENCE"
  BY <1>1, JobRowOpen
<1>3. MaxAttempts \in Nat /\ MaxAttempts >= 1
  BY LimitsAssumption
<1>4. SessionSound(s)
  BY DEF ReversalInv
<1>5. ASSUME NEW r, SettlesWith(s, r), RowSound(r), r.reference = None
      PROVE  Good(r)
  BY <1>5 DEF SettlesWith
<1>6. ASSUME NEW code \in FailureCodes, NEW b,
             code = "REFERENCE_NOT_FOUND" => q.attempts = MaxAttempts,
             code = "REVERSAL_WOULD_CAUSE_NEGATIVE_BALANCE" => b \in Int /\ b < q.cmd.amount,
             SettlesWith(s, Rejected(q, code, b))
      PROVE  \E r : Good(r)
  <2> DEFINE r == Rejected(q, code, b)
  <2>1. /\ r.status = "REJECTED" /\ r.failure = code /\ r.observed = b
        /\ r.cmd = q.cmd /\ r.attempts = q.attempts /\ r.reference = q.reference
    BY <1>2 DEF Rejected, Row
  <2> HIDE DEF r
  <2>2. RowSound(r)
    BY <1>2, <1>6, <2>1 DEF RowSound
  <2>3. SettlesWith(s, r)
    BY <1>6 DEF r
  <2> QED
    BY <1>2, <1>5, <2>1, <2>2, <2>3
<1>7. ASSUME RejectsWith(s, PlainCodes) PROVE \E r : Good(r)
  <2>1. PICK code \in PlainCodes, b \in Int \cup {None} : SettlesWith(s, Rejected(q, code, b))
    BY <1>7 DEF RejectsWith
  <2> QED
    BY <1>6, <2>1 DEF PlainCodes
<1>8. ASSUME GiveUp(s) PROVE \E r : Good(r)
  <2>1. q.attempts >= MaxAttempts /\ RejectsWith(s, {"REFERENCE_NOT_FOUND"})
    BY <1>8, Refusals
  <2>2. q.attempts = MaxAttempts
    BY <1>2, <1>3, <2>1 DEF RowSound
  <2>3. PICK b \in Int \cup {None} : SettlesWith(s, Rejected(q, "REFERENCE_NOT_FOUND", b))
    BY <2>1 DEF RejectsWith
  <2> QED
    BY <1>6, <2>2, <2>3 DEF FailureCodes
<1>9. ASSUME Observe(s) PROVE \E r : Good(r)
  <2> DEFINE b == WalletSeen(s, job[s].wallet).balance
             code == "REVERSAL_WOULD_CAUSE_NEGATIVE_BALANCE"
  <2>1. CASE job[s].kind = "BET"
    BY <1>7, <1>9, <2>1, Refusals
  <2>2. CASE job[s].kind # "BET"
    <3>1. SettlesWith(s, Rejected(q, code, b))
      BY <1>9, <2>2, Refusals
    <3>2. b \in Int
      BY <1>1, JobRowOwned, WalletSeenType DEF TypeInv, WalletRow
    <3>3. b < q.cmd.amount
      BY <1>2, <1>4, <1>9, <2>2 DEF SessionSound, Course, ShortOfAmount, Observe
    <3>4. code \in FailureCodes
      BY DEF FailureCodes
    <3> QED
      BY <1>6, <3>1, <3>2, <3>3, <3>4
  <2> QED
    BY <2>1, <2>2
<1>10. ASSUME NEW ref, NEW b \in Int, SettlesWith(s, MarkProcessed(q, ref, b)),
              ref # None <=> Reversing(s),
              ref # None => pc[s] \in {"debit", "credit"} /\ ref = found[s]
       PROVE  \E r : Good(r)
  <2> DEFINE r == MarkProcessed(q, ref, b)
  <2>1. /\ r.status = "PROCESSED" /\ r.failure = None /\ r.observed = b
        /\ r.cmd = q.cmd /\ r.attempts = q.attempts /\ r.reference = ref
    BY <1>2 DEF MarkProcessed, Row
  <2> HIDE DEF r
  <2>2. RowSound(r)
    BY <1>2, <1>10, <2>1, NoneAssumption DEF RowSound, Reversing, FailureCodes
  <2>3. SettlesWith(s, r)
    BY <1>10 DEF r
  <2>4. r \in Row
    BY <2>3 DEF SettlesWith
  <2>5. Good(r)
    BY <1>10, <2>1, <2>2, <2>3, <2>4
  <2> QED
    BY <2>5
<1>11. ASSUME SettleWithoutEntry(s) PROVE \E r : Good(r)
  <2>1. WalletSeen(s, job[s].wallet).balance \in Int
    BY <1>1, JobRowOwned, WalletSeenType DEF TypeInv, WalletRow
  <2>2. ~Reversing(s)
    BY <1>11 DEF SettleWithoutEntry, Reversing, Reversals
  <2> QED
    BY <1>10, <1>11, <2>1, <2>2, Processings
<1>12. ASSUME Debit(s) \/ Credit(s) PROVE \E r : Good(r)
  <2>1. PICK direction \in {"DEBIT", "CREDIT"} :
          pc[s] \in {"debit", "credit"} /\ Post(s, direction)
    BY <1>12 DEF Debit, Credit
  <2>2. /\ BalanceAfter(s, direction) \in Int
        /\ SettlesWith(s, MarkProcessed(q, found[s], BalanceAfter(s, direction)))
    BY <2>1, Processings
  <2>3. found[s] # None <=> Reversing(s)
    BY <1>4, <2>1, NoneAssumption DEF SessionSound, FoundSound
  <2> QED
    BY <1>10, <2>1, <2>2, <2>3
<1>13. ASSUME AwaitReference(s) PROVE \E r : Good(r)
  <2> DEFINE r == [q EXCEPT !.status = "PENDING_REFERENCE", !.attempts = q.attempts + 1]
  <2>1. s \in Clients /\ SettlesWith(s, r)
    BY <1>13, Postponements
  <2>2. Reversing(s)
    BY <1>4, <1>13 DEF SessionSound, Course, AwaitReference
  <2>3. /\ r.status = "PENDING_REFERENCE" /\ r.failure = None /\ r.reference = None
        /\ r.cmd = q.cmd /\ r.attempts = q.attempts + 1
    BY <1>2 DEF Row
  <2> HIDE DEF r
  <2>4. RowSound(r)
    BY <1>2, <1>3, <2>1, <2>2, <2>3, NoneAssumption DEF RowSound, Reversing, FailureCodes
  <2> QED
    BY <1>5, <2>1, <2>3, <2>4
<1>14. ASSUME RetryLater(s) PROVE \E r : Good(r)
  <2> DEFINE r == [q EXCEPT !.attempts = q.attempts + 1]
  <2>1. s \in Workers /\ q.attempts < MaxAttempts /\ SettlesWith(s, r)
    BY <1>14, Postponements
  <2>2. /\ r.status = "PENDING_REFERENCE" /\ r.failure = None /\ r.reference = None
        /\ r.cmd = q.cmd /\ r.attempts = q.attempts + 1
    BY <1>2, <2>1, SessionsAssumption DEF Row
  <2> HIDE DEF r
  <2>3. q.cmd.kind \in Reversals
    BY <1>2, <2>1, SessionsAssumption DEF RowSound
  <2>4. RowSound(r)
    BY <1>2, <1>3, <2>1, <2>2, <2>3, NoneAssumption DEF RowSound, FailureCodes
  <2> QED
    BY <1>5, <2>1, <2>2, <2>4
<1>15. ASSUME LoadForeignWallet(s) \/ RefuseReference(s) \/ RefuseSecondReversal(s)
       PROVE  \E r : Good(r)
  BY <1>7, <1>15, Refusals
<1> QED
  BY <1>8, <1>9, <1>11, <1>12, <1>13, <1>14, <1>15 DEF Outcome

(* At its commit a session has left no row PENDING.                        *)
LEMMA CommitLeavesNonePending ==
  ASSUME TypeInv, OwnInv, NEW s \in Sessions, Commit(s), NEW k \in Keys, Drafted(s, k)
  PROVE  rowDraft[s][k].status # "PENDING"
BY DEF Commit, OwnInv, ClientOwns, WorkerOwns, Sessions

(* The columns of a row agree after every step: an outcome is sound, and a*)
(* commit publishes what its session has written.                         *)
LEMMA NextKeepsRowsSound ==
  ASSUME TypeInv, OwnInv, ReversalInv, NEW s \in Sessions, StepOf(s)
  PROVE  RowsSound'
<1>1. ASSUME NEW k \in Keys, wagers'[k] # None
      PROVE  RowSound(wagers'[k]) /\ wagers'[k].status # "PENDING"
  <2>1. CASE Commit(s)
    <3>1. wagers'[k] = RowSeen(s, k)
      BY <2>1 DEF Commit
    <3> QED
      BY <1>1, <2>1, <3>1, CommitLeavesNonePending
         DEF RowSeen, Drafted, ReversalInv, RowsSound
  <2>2. CASE ~Commit(s)
    BY <1>1, <2>2, OnlyCommitPublishes DEF committed, ReversalInv, RowsSound
  <2> QED
    BY <2>1, <2>2
<1>2. ASSUME NEW t \in Sessions, NEW k \in Keys, rowDraft'[t][k] # None
      PROVE  RowSound(rowDraft'[t][k])
  <2>1. CASE rowDraft'[t][k] = rowDraft[t][k]
    BY <1>2, <2>1 DEF Drafted, ReversalInv, RowsSound
  <2>2. CASE t # s
    BY <2>1, <2>2, OthersUntouched DEF Untouched, Bystander
  <2>3. CASE t = s /\ EndTransaction(s)
    BY <1>2, <2>3 DEF EndTransaction, NoRows, TypeInv, TypeOK
  <2>4. CASE t = s /\ Outcome(s)
    <3>1. PICK r \in Row : SettlesWith(s, r) /\ RowSound(r)
      BY <2>4, OutcomeSound
    <3>2. (k = job[s].key /\ rowDraft'[s][k] = r) \/ rowDraft'[s][k] = rowDraft[s][k]
      BY <3>1, QueueMoves
    <3> QED
      BY <2>1, <2>4, <3>1, <3>2
  <2>5. CASE t = s /\ InsertRow(s)
    <3>1. RowSound(NewRow(job[s]))
      BY LimitsAssumption, NoneAssumption DEF RowSound, NewRow, FailureCodes
    <3>2. rowDraft' = [rowDraft EXCEPT ![s][job[s].key] = NewRow(job[s])]
      BY <2>5 DEF InsertRow, UpdateRow
    <3>3. rowDraft'[s][k] = NewRow(job[s]) \/ rowDraft'[s][k] = rowDraft[s][k]
      BY <3>2 DEF TypeInv, TypeOK
    <3> QED
      BY <2>1, <2>5, <3>1, <3>3
  <2>6. CASE t = s /\ rowDraft' = rowDraft
    BY <2>1, <2>6
  <2> QED
    BY <2>2, <2>3, <2>4, <2>5, <2>6, StepKinds
       DEF CheckWalletKey, LockWallet, ClaimDue, Submit, InsertConflicts, LoadWallet,
           AcceptReference, Reverse, DebitRefused, drafts
<1> QED
  BY <1>1, <1>2 DEF RowsSound, Drafted

(* What a commit leaves of the rows: SettledForever, seen by one session. *)
LEMMA StepKeepsSettled ==
  ASSUME TypeInv, OwnInv, NEW s \in Sessions, StepOf(s), NEW k \in Keys, wagers[k] # None
  PROVE  /\ wagers'[k] # None /\ wagers'[k].cmd = wagers[k].cmd
         /\ wagers[k].status \in Terminal => wagers'[k] = wagers[k]
<1>1. CASE Commit(s)
  BY <1>1, CommitKeepsSettled
<1>2. CASE ~Commit(s)
  BY <1>2, OnlyCommitPublishes DEF committed
<1> QED
  BY <1>1, <1>2

(* A committed reversal keeps a reference it may reverse: the reference is*)
(* processed, and a processed row stays.                                  *)
LEMMA NextKeepsReferences ==
  ASSUME TypeInv, OwnInv, ReversalInv, NEW s \in Sessions, StepOf(s)
  PROVE  ReferencesStand'
<1> SUFFICES ASSUME NEW k \in Keys, wagers'[k] # None, wagers'[k].reference # None
             PROVE  Reversible(wagers'[k].cmd, wagers'[wagers'[k].reference])
  BY DEF ReferencesStand, Reversible
<1>1. CASE wagers'[k] = wagers[k]
  <2>1. /\ Reversible(wagers[k].cmd, wagers[wagers[k].reference])
        /\ wagers[k].reference \in Keys
    BY <1>1 DEF ReversalInv, ReferencesStand, TypeInv, TypeOK, Row
  <2>2. wagers'[wagers[k].reference] = wagers[wagers[k].reference]
    BY <2>1, StepKeepsSettled DEF Reversible, Terminal
  <2> QED
    BY <1>1, <2>1, <2>2
<1>2. CASE wagers'[k] # wagers[k]
  <2>1. Commit(s)
    BY <1>2, OnlyCommitPublishes DEF committed
  <2>2. \A j \in Keys : wagers'[j] = RowSeen(s, j)
    BY <2>1 DEF Commit
  <2>3. Drafted(s, k) /\ wagers'[k] = rowDraft[s][k] /\ wagers'[k].reference \in Keys
    BY <1>2, <2>2 DEF RowSeen, Drafted, TypeInv, TypeOK, Row
  <2>4. Reversible(wagers'[k].cmd, RowSeen(s, wagers'[k].reference))
    BY <2>3 DEF ReversalInv, SessionSound, DraftsSound
  <2> QED
    BY <2>2, <2>3, <2>4
<1> QED
  BY <1>1, <1>2

(* Two sessions do not reverse the same row at the same time: each would   *)
(* hold FOR UPDATE on its wallet.                                          *)
LEMMA NobodyElseReverses ==
  ASSUME TypeInv, OwnInv, ReversalInv, NEW s \in Sessions, Commit(s),
         NEW t \in Sessions, t # s, NEW ref \in Keys, wagers[ref] # None,
         locks[t][wagers[ref].cmd.wallet] = "forUpdate", NEW kind
  PROVE  ProcessedReversals(t, ref, kind)' = ProcessedReversals(t, ref, kind)
<1>1. /\ rowDraft'[t] = rowDraft[t]
      /\ \A k \in Keys : wagers'[k] = RowSeen(s, k)
  BY OthersUntouched DEF Untouched, Bystander, Commit, StepOf, Statement
<1>2. ref # None /\ \A k \in Keys : RowSeen(t, k)' = IF rowDraft[t][k] # None
                                        THEN rowDraft[t][k] ELSE wagers'[k]
  BY <1>1, NoneAssumption DEF RowSeen
<1>3. ASSUME NEW k \in Keys, ~Drafted(s, k)
      PROVE  RowSeen(t, k)' = RowSeen(t, k)
  BY <1>1, <1>2, <1>3 DEF RowSeen, Drafted
<1>4. ASSUME NEW k \in Keys, Drafted(s, k)
      PROVE  /\ RowSeen(t, k) = None \/ RowSeen(t, k).status # "PROCESSED"
             /\ RowSeen(t, k)' = rowDraft[s][k] /\ rowDraft[s][k].reference # ref
  <2>1. ~Drafted(t, k)
    BY <1>4, NobodyElseWrites
  <2>2. wagers[k] = None \/ wagers[k].status # "PROCESSED"
    BY <1>4, ClaimedIncludes DEF OwnInv, ClientOwns, WorkerOwns, Due, Sessions
  <2>3. rowDraft[s][k].reference # ref
    <3> SUFFICES ASSUME rowDraft[s][k].reference = ref PROVE FALSE
      OBVIOUS
    <3>1. /\ locks[s][rowDraft[s][k].cmd.wallet] = "forUpdate"
          /\ rowDraft[s][k].cmd.wallet \in Wallets
          /\ Reversible(rowDraft[s][k].cmd, RowSeen(s, ref))
      BY <1>2, <1>4 DEF ReversalInv, SessionSound, DraftsSound
    <3>2. RowSeen(s, ref).cmd = wagers[ref].cmd
      <4>1. wagers'[ref].cmd = wagers[ref].cmd
        BY StepKeepsSettled DEF StepOf, Statement
      <4> QED
        BY <1>1, <4>1
    <3>3. locks[s][wagers[ref].cmd.wallet] = "forUpdate" /\ wagers[ref].cmd.wallet \in Wallets
      BY <3>1, <3>2 DEF Reversible
    <3> QED
      BY <3>3 DEF ReversalInv, ForUpdateExcludes
  <2> QED
    BY <1>1, <1>2, <1>4, <2>1, <2>2, <2>3 DEF RowSeen, Drafted
<1>5. ASSUME NEW k \in Keys
      PROVE  (/\ RowSeen(t, k)' # None /\ RowSeen(t, k)'.reference = ref
              /\ RowSeen(t, k)'.cmd.kind = kind /\ RowSeen(t, k)'.status = "PROCESSED")
             <=> (/\ RowSeen(t, k) # None /\ RowSeen(t, k).reference = ref
                  /\ RowSeen(t, k).cmd.kind = kind /\ RowSeen(t, k).status = "PROCESSED")
  BY <1>3, <1>4
<1> QED
  BY <1>5 DEF ProcessedReversals

-----------------------------------------------------------------------------
(* What a session under FOR UPDATE has read and written stays true while   *)
(* others step.                                                            *)
LEMMA OthersStaySound ==
  ASSUME TypeInv, OwnInv, LedgerInv, ReversalInv, NEW s \in Sessions, StepOf(s),
         NEW t \in Sessions, t # s
  PROVE  SessionSound(t)'
<1>1. /\ pc'[t] = pc[t] /\ job'[t] = job[t] /\ found'[t] = found[t]
      /\ rowDraft'[t] = rowDraft[t] /\ walletDraft'[t] = walletDraft[t] /\ locks'[t] = locks[t]
  BY OthersUntouched DEF Untouched, Bystander
<1>2. SessionSound(t)
  BY DEF ReversalInv
<1>3. CASE ~Commit(s)
  <2>1. wagers' = wagers /\ wallets' = wallets
    BY <1>3, OnlyCommitPublishes DEF committed
  <2>2. /\ \A k : RowSeen(t, k)' = RowSeen(t, k)
        /\ \A w : WalletSeen(t, w)' = WalletSeen(t, w)
        /\ \A ref, kind : ProcessedReversals(t, ref, kind)' = ProcessedReversals(t, ref, kind)
    BY <1>1, <2>1 DEF RowSeen, WalletSeen, ProcessedReversals
  <2> QED
    BY <1>1, <1>2, <2>1, <2>2
       DEF SessionSound, Course, Reversing, HeldLock, FoundSound, ShortOfAmount, DraftsSound,
           ReversalIndexHolds, Drafted
<1>4. CASE Commit(s)
  <2>1. /\ \A k \in Keys : wagers'[k] = RowSeen(s, k)
        /\ \A w \in Wallets : wallets'[w] = WalletSeen(s, w)
    BY <1>4 DEF Commit
  <2>2. ASSUME NEW c, NEW k \in Keys, wagers[k] # None, Reversible(c, RowSeen(t, k))
        PROVE  wagers'[k] # None /\ Reversible(c, RowSeen(t, k)')
    <3>1. /\ wagers'[k] # None
          /\ wagers[k].status \in Terminal => wagers'[k] = wagers[k]
      BY <2>2, StepKeepsSettled
    <3>2. RowSeen(t, k)' = RowSeen(t, k)
      BY <1>1, <2>2, <3>1 DEF RowSeen, Reversible, Terminal
    <3> QED
      BY <2>2, <3>1, <3>2
  <2>3. ASSUME NEW k \in Keys, wagers[k] # None, RowSeen(t, k).cmd.wallet \in Wallets,
               locks[t][RowSeen(t, k).cmd.wallet] = "forUpdate", NEW kind
        PROVE  ProcessedReversals(t, k, kind)' = ProcessedReversals(t, k, kind)
    <3>1. RowSeen(t, k).cmd = wagers[k].cmd
      BY <2>3 DEF RowSeen, Drafted, OwnInv, ClientOwns, WorkerOwns, Sessions
    <3> QED
      BY <1>4, <2>3, <3>1, NobodyElseReverses
  <2>4. Course(t)' /\ HeldLock(t)'
    BY <1>1, <1>2 DEF SessionSound, Course, Reversing, HeldLock
  <2>5. job[t] \in Commands \cup {None} /\ (pc[t] \notin Early => job[t].wallet \in Wallets)
    BY DEF TypeInv, TypeOK, Control
  <2>6. FoundSound(t)'
    <3>1. CASE pc[t] \in {"reversal", "debit", "credit", "observe"} /\ Reversing(t)
      <4>1. /\ found[t] \in Keys /\ wagers[found[t]] # None
            /\ Reversible(job[t], RowSeen(t, found[t]))
            /\ pc[t] \in {"debit", "credit"} =>
                 ProcessedReversals(t, found[t], job[t].kind) = {}
        BY <1>2, <3>1 DEF SessionSound, FoundSound
      <4>2. job[t].wallet \in Wallets /\ locks[t][job[t].wallet] = "forUpdate"
        BY <1>2, <2>5, <3>1 DEF SessionSound, HeldLock, Early
      <4>3. RowSeen(t, found[t]).cmd.wallet = job[t].wallet
        BY <4>1 DEF Reversible
      <4>4. ProcessedReversals(t, found[t], job[t].kind)'
              = ProcessedReversals(t, found[t], job[t].kind)
        <5>1. \A kind : ProcessedReversals(t, found[t], kind)'
                          = {k \in Keys : /\ RowSeen(t, k)' # None
                                          /\ RowSeen(t, k)'.reference = found'[t]
                                          /\ RowSeen(t, k)'.cmd.kind = kind'
                                          /\ RowSeen(t, k)'.status = "PROCESSED"}
          BY DEF ProcessedReversals
        <5>2. ASSUME NEW f \in Keys, f = found[t], NEW kind, kind = job[t].kind
              PROVE  ProcessedReversals(t, found[t], job[t].kind)' = ProcessedReversals(t, f, kind)'
          BY <1>1, <5>2 DEF ProcessedReversals
        <5>3. ASSUME NEW f \in Keys, f = found[t], NEW kind
              PROVE  ProcessedReversals(t, f, kind)' = ProcessedReversals(t, f, kind)
          BY <2>3, <4>1, <4>2, <4>3, <5>3
        <5> QED
          BY <4>1, <5>2, <5>3
      <4> QED
        BY <1>1, <2>2, <3>1, <4>1, <4>4 DEF FoundSound, Reversing
    <3>2. CASE ~(pc[t] \in {"reversal", "debit", "credit", "observe"} /\ Reversing(t))
      BY <1>1, <1>2, <3>2 DEF SessionSound, FoundSound, Reversing
    <3> QED
      BY <3>1, <3>2
  <2>7. ShortOfAmount(t)'
    <3> SUFFICES ASSUME pc[t] = "observe", Reversing(t)
                 PROVE  WalletSeen(t, job[t].wallet)'.balance < job[t].amount
      BY <1>1 DEF ShortOfAmount, Reversing
    <3> DEFINE w == job[t].wallet
    <3>1. w \in Wallets /\ locks[t][w] = "forUpdate"
      BY <1>2, <2>5 DEF SessionSound, HeldLock, Early
    <3>2. walletDraft[s][w] = None
      BY <3>1 DEF LedgerInv, LocksExclude, WritesAreLocked, Exclusive
    <3>3. wallets'[w] = wallets[w]
      BY <2>1, <3>1, <3>2 DEF WalletSeen
    <3>4. WalletSeen(t, job[t].wallet)' = WalletSeen(t, job[t].wallet)
      BY <1>1, <3>3 DEF WalletSeen
    <3> QED
      BY <1>2, <3>4 DEF SessionSound, ShortOfAmount
  <2>8. DraftsSound(t)'
    <3>1. ASSUME NEW k \in Keys, NEW r, r = rowDraft[t][k], r # None,
                 NEW ref, ref = r.reference, ref # None
          PROVE  /\ r.cmd.wallet \in Wallets /\ locks[t][r.cmd.wallet] = "forUpdate"
                 /\ wagers'[ref] # None /\ Reversible(r.cmd, RowSeen(t, ref)')
      <4>1. ref \in Keys
        BY <3>1 DEF TypeInv, TypeOK, Row
      <4> QED
        BY <1>2, <2>2, <3>1, <4>1 DEF SessionSound, DraftsSound, Drafted
    <3> QED
      BY <1>1, <3>1 DEF DraftsSound, Drafted, Reversible, RowSeen
  <2>9. ReversalIndexHolds(t)'
    <3>1. ASSUME NEW k \in Keys, NEW r, r = rowDraft[t][k], r # None,
                 r.status = "PROCESSED", NEW ref, ref = r.reference, ref # None,
                 NEW kind, kind = r.cmd.kind
          PROVE  ProcessedReversals(t, ref, kind)' = {k}
      <4>1. /\ r.cmd.wallet \in Wallets /\ locks[t][r.cmd.wallet] = "forUpdate"
            /\ wagers[ref] # None /\ Reversible(r.cmd, RowSeen(t, ref)) /\ ref \in Keys
        BY <1>2, <3>1 DEF SessionSound, DraftsSound, Drafted, TypeInv, TypeOK, Row
      <4>2. ProcessedReversals(t, ref, kind) = {k}
        BY <1>2, <3>1 DEF SessionSound, ReversalIndexHolds
      <4>3. ProcessedReversals(t, ref, kind)' = ProcessedReversals(t, ref, kind)
        BY <2>3, <4>1 DEF Reversible
      <4> QED
        BY <4>2, <4>3
    <3> QED
      BY <1>1, <3>1 DEF ReversalIndexHolds, ProcessedReversals
  <2> QED
    BY <2>4, <2>6, <2>7, <2>8, <2>9 DEF SessionSound
<1> QED
  BY <1>3, <1>4

(* A session that writes no row and gives up no lock keeps its reversals.  *)
LEMMA DraftsStaySound ==
  ASSUME TypeInv, ReversalInv, NEW s \in Sessions,
         rowDraft'[s] = rowDraft[s], wagers' = wagers,
         \A w \in Wallets : locks[s][w] = "forUpdate" => locks'[s][w] = "forUpdate"
  PROVE  DraftsSound(s)' /\ ReversalIndexHolds(s)'
<1>1. SessionSound(s)
  BY DEF ReversalInv
<1>2. \A k : RowSeen(s, k)' = RowSeen(s, k)
  BY DEF RowSeen
<1>3. DraftsSound(s)'
  BY <1>1, <1>2 DEF SessionSound, DraftsSound, Drafted
<1>4. ReversalIndexHolds(s)'
  BY <1>1, <1>2 DEF SessionSound, ReversalIndexHolds, ProcessedReversals
<1> QED
  BY <1>3, <1>4

(* The reference that was accepted is a committed row, or a pending one    *)
(* that an earlier job of the same batch has processed.                    *)
LEMMA AcceptedReference ==
  ASSUME TypeInv, OwnInv, NEW s \in Sessions, AcceptReference(s)
  PROVE  \E k \in Keys : /\ found' = [found EXCEPT ![s] = k]
                         /\ wagers[k] # None /\ Reversible(job[s], RowSeen(s, k))
<1>1. PICK k \in References(s) :
        /\ ValidateReference(job[s], RowSeen(s, k), Currency[job[s].wallet]) = None
        /\ found' = [found EXCEPT ![s] = k]
  BY DEF AcceptReference
<1>2. k \in Keys /\ RowSeen(s, k) # None
  BY DEF References
<1>3. Reversible(job[s], RowSeen(s, k))
  BY <1>1, <1>2, ReferenceVerdict DEF Reversible
<1>4. wagers[k] # None
  <2>1. CASE ~Drafted(s, k)
    BY <1>2, <2>1 DEF RowSeen, Drafted
  <2>2. CASE Drafted(s, k) /\ s \in Clients
    <3>1. rowDraft[s][k].status = "PENDING"
      BY <1>2, <2>2 DEF OwnInv, ClientOwns, AcceptReference
    <3> QED
      BY <1>3, <2>2, <3>1 DEF RowSeen, Drafted, Reversible
  <2>3. CASE Drafted(s, k) /\ s \in Workers
    BY <1>2, <2>3, ClaimedIncludes DEF OwnInv, WorkerOwns, Due
  <2> QED
    BY <2>1, <2>2, <2>3 DEF Sessions
<1> QED
  BY <1>1, <1>2, <1>3, <1>4

(* A worker retries reversals only. *)
LEMMA WorkersReverse ==
  ASSUME TypeInv, OwnInv, ReversalInv, NEW s \in Workers, pc[s] # "idle"
  PROVE  Reversing(s)
<1>1. job[s].key \in Claimed(s) /\ job[s] = wagers[job[s].key].cmd /\ Due(job[s].key)
  BY ClaimedIncludes DEF OwnInv, WorkerOwns
<1>2. job[s].key \in Keys
  BY CommandKey DEF TypeInv, Control, Sessions
<1> QED
  BY <1>1, <1>2 DEF ReversalInv, RowsSound, RowSound, Due, Reversing

(* The statements before the outcome. *)
LEMMA MoveStaysSound ==
  ASSUME TypeInv, OwnInv, LedgerInv, ReversalInv, NEW s \in Sessions,
         \/ CheckWalletKey(s) \/ LockWallet(s)
         \/ ClaimDue(s) \/ \E c \in Commands : Submit(s, c)
         \/ InsertConflicts(s) \/ LoadWallet(s)
         \/ AcceptReference(s) \/ Reverse(s) \/ DebitRefused(s)
  PROVE  SessionSound(s)'
<1>1. SessionSound(s)
  BY DEF ReversalInv
<1>2. /\ UNCHANGED <<committed, drafts>>
      /\ \A k : RowSeen(s, k)' = RowSeen(s, k)
      /\ \A w : WalletSeen(s, w)' = WalletSeen(s, w)
      /\ \A ref, kind : ProcessedReversals(s, ref, kind)' = ProcessedReversals(s, ref, kind)
  BY DEF CheckWalletKey, LockWallet, ClaimDue, Submit, InsertConflicts, LoadWallet,
         AcceptReference, Reverse, DebitRefused, committed, drafts, RowSeen, WalletSeen,
         ProcessedReversals
<1>3. ASSUME \A w \in Wallets : locks[s][w] = "forUpdate" => locks'[s][w] = "forUpdate",
             Course(s)', HeldLock(s)', FoundSound(s)', ShortOfAmount(s)'
      PROVE  SessionSound(s)'
  BY <1>2, <1>3, DraftsStaySound DEF SessionSound, committed, drafts
<1> USE DEF Course, HeldLock, FoundSound, ShortOfAmount, Reversing
<1>4. CASE CheckWalletKey(s)
  <2>1. /\ pc[s] = "walletKey" /\ pc'[s] = "load" /\ job'[s] = job[s] /\ found'[s] = found[s]
        /\ job[s].wallet \in Wallets
        /\ \A w \in Wallets :
             locks'[s][w] = IF w = job[s].wallet THEN "keyShare" ELSE locks[s][w]
    BY <1>4 DEF CheckWalletKey, Goto, TypeInv, TypeOK
  <2>2. \A w \in Wallets : locks[s][w] = "none"
    BY <2>1 DEF LedgerInv, EarlyHoldsNothing, Early
  <2> QED
    BY <1>1, <1>3, <2>1, <2>2 DEF SessionSound
<1>5. CASE LockWallet(s)
  <2>1. /\ pc[s] = "lockWallet" /\ pc'[s] = "reference"
        /\ job'[s] = job[s] /\ found'[s] = found[s] /\ job[s].wallet \in Wallets
        /\ \A w \in Wallets :
             locks'[s][w] = IF w = job[s].wallet THEN "forUpdate" ELSE locks[s][w]
    BY <1>5 DEF LockWallet, Goto, TypeInv, TypeOK, Control, Early
  <2> QED
    BY <1>1, <1>3, <2>1 DEF SessionSound
<1>6. CASE ClaimDue(s)
  <2>1. /\ s \in Workers /\ pc[s] = "idle" /\ pc'[s] = "lockWallet"
        /\ found'[s] = found[s] /\ locks'[s] = locks[s] /\ wagers' = wagers
    BY <1>6 DEF ClaimDue, Goto, TypeInv, TypeOK, committed
  <2>6. PICK n \in 1..BatchSize : \E due \in [1..n -> Keys] :
          /\ \A i \in 1..n : Due(due[i])
          /\ job' = [job EXCEPT ![s] = wagers[due[1]].cmd]
    BY <1>6 DEF ClaimDue
  <2>2. PICK due \in [1..n -> Keys] :
          /\ \A i \in 1..n : Due(due[i])
          /\ job' = [job EXCEPT ![s] = wagers[due[1]].cmd]
    BY <2>6
  <2>3. 1 \in 1..n /\ due[1] \in Keys /\ job'[s] = wagers[due[1]].cmd
    <3>1. 1 \in 1..n
      BY LimitsAssumption
    <3> QED
      BY <2>2, <3>1 DEF TypeInv, TypeOK
  <2>4. job'[s].kind \in Reversals
    BY <2>2, <2>3 DEF ReversalInv, RowsSound, RowSound, Due
  <2>5. \A w \in Wallets : locks[s][w] = "none"
    BY <2>1 DEF LedgerInv, EarlyHoldsNothing, Early
  <2> QED
    BY <1>1, <1>3, <2>1, <2>4, <2>5 DEF SessionSound
<1>7. CASE InsertConflicts(s) \/ \E c \in Commands : Submit(s, c)
  <2>1. /\ pc[s] \in {"idle", "insert"} /\ pc'[s] \in {"insert", "replay"}
        /\ found'[s] = found[s] /\ locks'[s] = locks[s]
    BY <1>7 DEF InsertConflicts, Submit, Goto, TypeInv, TypeOK
  <2>2. \A w \in Wallets : locks[s][w] = "none"
    BY <2>1 DEF LedgerInv, EarlyHoldsNothing, Early
  <2> QED
    BY <1>1, <1>3, <2>1, <2>2 DEF SessionSound
<1>8. CASE LoadWallet(s)
  <2>1. /\ pc[s] = "load" /\ job'[s] = job[s] /\ found'[s] = found[s] /\ locks'[s] = locks[s]
        /\ pc'[s] = CASE job[s].kind = "BET" -> "debit"
                      [] job[s].kind = "WIN" -> "credit"
                      [] OTHER -> "lockWallet"
        /\ job[s].kind # "LOSS"
    BY <1>8 DEF LoadWallet, Goto, TypeInv, TypeOK
  <2>2. job[s].kind \in Kinds
    BY <2>1, CommandsAssumption DEF TypeInv, Control
  <2>3. \/ job[s].kind = "BET" /\ pc'[s] = "debit"
        \/ job[s].kind = "WIN" /\ pc'[s] = "credit"
        \/ job[s].kind \in Reversals /\ pc'[s] = "lockWallet"
    BY <2>1, <2>2 DEF Kinds, Reversals
  <2> QED
    BY <1>1, <1>3, <2>1, <2>3 DEF SessionSound, Reversals
<1>9. CASE AcceptReference(s)
  <2>1. /\ pc[s] = "reference" /\ pc'[s] = "reversal"
        /\ job'[s] = job[s] /\ locks'[s] = locks[s] /\ wagers' = wagers
    BY <1>9 DEF AcceptReference, Goto, TypeInv, TypeOK, committed
  <2>2. PICK k \in Keys : /\ found' = [found EXCEPT ![s] = k]
                          /\ wagers[k] # None /\ Reversible(job[s], RowSeen(s, k))
    BY <1>9, AcceptedReference
  <2>3. found'[s] = k
    BY <2>2 DEF TypeInv, TypeOK
  <2>4. Reversible(job[s], RowSeen(s, found[s]))'
    BY <1>2, <2>1, <2>2, <2>3 DEF Reversible, RowSeen, drafts
  <2>5. FoundSound(s)'
    BY <1>1, <2>1, <2>2, <2>3, <2>4 DEF SessionSound
  <2> QED
    BY <1>1, <1>3, <2>1, <2>5 DEF SessionSound
<1>10. CASE Reverse(s)
  <2>1. /\ pc[s] = "reversal" /\ pc'[s] \in {"debit", "credit"}
        /\ job'[s] = job[s] /\ found'[s] = found[s] /\ locks'[s] = locks[s] /\ wagers' = wagers
        /\ ProcessedReversals(s, found[s], job[s].kind) = {}
    BY <1>10 DEF Reverse, Goto, TypeInv, TypeOK, committed
  <2>2. /\ Reversible(job[s], RowSeen(s, found[s]))' <=> Reversible(job[s], RowSeen(s, found[s]))
        /\ ProcessedReversals(s, found[s], job[s].kind)' = {}
    BY <1>2, <2>1 DEF Reversible, RowSeen, ProcessedReversals, drafts
  <2> QED
    BY <1>1, <1>3, <2>1, <2>2 DEF SessionSound
<1>11. CASE DebitRefused(s)
  <2>1. /\ pc[s] = "debit" /\ pc'[s] = "observe"
        /\ job'[s] = job[s] /\ found'[s] = found[s] /\ locks'[s] = locks[s] /\ wagers' = wagers
        /\ WalletSeen(s, job[s].wallet).balance < job[s].amount
    BY <1>11 DEF DebitRefused, Amount, Goto, TypeInv, TypeOK, committed
  <2>2. /\ Reversible(job[s], RowSeen(s, found[s]))' <=> Reversible(job[s], RowSeen(s, found[s]))
        /\ WalletSeen(s, job[s].wallet)' = WalletSeen(s, job[s].wallet)
    BY <1>2, <2>1 DEF Reversible, RowSeen, WalletSeen, drafts, committed
  <2> QED
    BY <1>1, <1>3, <2>1, <2>2 DEF SessionSound
<1> QED
  BY <1>4, <1>5, <1>6, <1>7, <1>8, <1>9, <1>10, <1>11

(* An outcome leaves the locks alone, or takes the lock of the UPDATE.     *)
LEMMA OutcomeLocks ==
  ASSUME TypeInv, OwnInv, ReversalInv, NEW s \in Sessions, Outcome(s), NEW w \in Wallets
  PROVE  /\ locks[s][w] = "forUpdate" => locks'[s][w] = "forUpdate"
         /\ locks'[s][w] = "noKeyUpdate" => pc'[s] = "commit"
<1>1. /\ Settling(s) /\ pc[s] # "walletKey" /\ pc[s] # "idle" /\ NextRow(s)
  BY OutcomeSettles DEF SettlesWith, Settling, Unwritten
<1>2. SessionSound(s)
  BY DEF ReversalInv
<1>3. ASSUME ~(Debit(s) \/ Credit(s))
      PROVE  locks' = locks
  BY <1>3 DEF Outcome, LoadForeignWallet, SettleWithoutEntry, AwaitReference, RetryLater,
       GiveUp, RefuseReference, RefuseSecondReversal, Observe, Reject, NoBalanceChange
<1>4. locks[s][w] # "noKeyUpdate"
  BY <1>1, <1>2 DEF SessionSound, HeldLock, Settling
<1>5. CASE Debit(s) \/ Credit(s)
  <2>1. /\ pc[s] \in {"debit", "credit"}
        /\ locks' = [locks EXCEPT ![s][job[s].wallet] =
                       IF locks[s][job[s].wallet] = "forUpdate" THEN "forUpdate"
                       ELSE "noKeyUpdate"]
    <3>1. job[s].wallet \in Wallets
      BY <1>1, JobRowOwned
    <3> QED
      BY <1>5, <3>1 DEF Debit, Credit, Post, UpdateMode
  <2>2. locks[s][w] = "forUpdate" => locks'[s][w] = "forUpdate"
    BY <2>1 DEF TypeInv, TypeOK
  <2>3. CASE locks[s][job[s].wallet] = "forUpdate"
    BY <1>4, <2>1, <2>2, <2>3 DEF TypeInv, TypeOK
  <2>4. CASE locks[s][job[s].wallet] # "forUpdate"
    <3>1. s \in Clients
      BY <1>1, <1>2, <2>1, <2>4, WorkersReverse DEF SessionSound, HeldLock, Sessions
    <3>2. queue[s] = << >>
      BY <3>1 DEF OwnInv, ClientOwns
    <3> QED
      BY <1>1, <2>2, <3>2 DEF NextRow, Goto, TypeInv, TypeOK
  <2> QED
    BY <2>3, <2>4
<1> QED
  BY <1>3, <1>4, <1>5

(* What others had reversed, the session sees as before, and the row it    *)
(* has processed besides.                                                  *)
LEMMA OutcomeReversals ==
  ASSUME TypeInv, OwnInv, ReversalInv, NEW s \in Sessions, NEW r \in Row, SettlesWith(s, r),
         NEW ref \in Keys, NEW kind
  PROVE  ProcessedReversals(s, ref, kind)' =
           ProcessedReversals(s, ref, kind) \cup
             IF r.reference = ref /\ r.cmd.kind = kind /\ r.status = "PROCESSED"
             THEN {job[s].key} ELSE {}
<1>0. PICK k \in Keys : k = job[s].key
  BY QueueMoves
<1> DEFINE Is(q) == /\ q # None /\ q.reference = ref
                    /\ q.cmd.kind = kind /\ q.status = "PROCESSED"
<1>1. /\ k \in Keys /\ r # None /\ rowDraft'[s][k] = r /\ wagers' = wagers
      /\ \A j \in Keys \ {k} : rowDraft'[s][j] = rowDraft[s][j]
  BY <1>0, QueueMoves DEF SettlesWith
<1>2. RowSeen(s, k)' = r /\ \A j \in Keys \ {k} : RowSeen(s, j)' = RowSeen(s, j)
  BY <1>1 DEF RowSeen
<1>3. RowSeen(s, k).status # "PROCESSED"
  BY <1>0, JobRowOwned DEF SettlesWith, JobRow
<1>4. /\ ProcessedReversals(s, ref, kind) = {j \in Keys : Is(RowSeen(s, j))}
      /\ ProcessedReversals(s, ref, kind)' = {j \in Keys : Is(RowSeen(s, j)')}
  BY DEF ProcessedReversals
<1>5. ~Is(RowSeen(s, k)) /\ (Is(RowSeen(s, k)') <=> Is(r))
  BY <1>2, <1>3
<1>6. \A j \in Keys \ {k} : Is(RowSeen(s, j)') <=> Is(RowSeen(s, j))
  BY <1>2
<1>7. Is(r) <=> r.reference = ref /\ r.cmd.kind = kind /\ r.status = "PROCESSED"
  BY <1>1
<1> HIDE DEF Is
<1>8. ASSUME NEW j \in Keys
      PROVE  Is(RowSeen(s, j)') <=> Is(RowSeen(s, j)) \/ (j = k /\ Is(r))
  BY <1>5, <1>6
<1> QED
  BY <1>0, <1>4, <1>7, <1>8

(* An outcome leaves the session sound: the reversal it may write is of    *)
(* the reference it found, under the lock it holds.                        *)
LEMMA OutcomeStaysSound ==
  ASSUME TypeInv, OwnInv, ReversalInv, NEW s \in Sessions, Outcome(s)
  PROVE  SessionSound(s)'
<1> DEFINE k == job[s].key
<1>1. PICK r \in Row :
        /\ SettlesWith(s, r) /\ RowSound(r)
        /\ r.reference # None => pc[s] \in {"debit", "credit"} /\ r.reference = found[s]
  BY OutcomeSound
<1>2. /\ k \in Keys /\ r # None /\ rowDraft'[s][k] = r
      /\ wagers' = wagers /\ r.cmd = JobRow(s).cmd
      /\ \A j \in Keys \ {k} : rowDraft'[s][j] = rowDraft[s][j]
  BY <1>1, QueueMoves DEF SettlesWith
<1>3. /\ JobRow(s).status # "PROCESSED" /\ JobRow(s).cmd = job[s] /\ JobRow(s) = RowSeen(s, k)
      /\ job[s].wallet \in Wallets
  BY <1>1, JobRowOwned DEF SettlesWith, JobRow
<1>4. SessionSound(s)
  BY DEF ReversalInv
<1>5. /\ pc'[s] \in {"commit", "lockWallet"} /\ found'[s] = None
      /\ pc'[s] = "lockWallet" => Reversing(s)'
  <2>1. found'[s] = None
    BY <1>1 DEF SettlesWith, NextRow, TypeInv, TypeOK
  <2>2. CASE queue[s] = << >>
    BY <1>1, <2>1, <2>2, QueueMoves
  <2>3. CASE queue[s] # << >>
    <3>1. /\ pc'[s] = "lockWallet" /\ job'[s] = wagers[queue[s][1]].cmd
          /\ 1 \in 1..Len(queue[s]) /\ queue[s][1] \in Keys
      BY <1>1, <2>3, QueueMoves
    <3>2. s \in Workers /\ pc[s] # "idle"
      BY <1>1, <2>3 DEF OwnInv, ClientOwns, Sessions, SettlesWith, Settling, Unwritten
    <3>3. Due(queue[s][1])
      BY <3>1, <3>2, ClaimedIncludes DEF OwnInv, WorkerOwns
    <3> QED
      BY <2>1, <3>1, <3>3 DEF ReversalInv, RowsSound, RowSound, Due, Reversing
  <2> QED
    BY <2>2, <2>3
<1>6. \A w \in Wallets : /\ locks[s][w] = "forUpdate" => locks'[s][w] = "forUpdate"
                         /\ locks'[s][w] = "noKeyUpdate" => pc'[s] = "commit"
  BY OutcomeLocks
<1>7. Course(s)' /\ HeldLock(s)' /\ FoundSound(s)' /\ ShortOfAmount(s)'
  BY <1>5, <1>6 DEF Course, HeldLock, FoundSound, ShortOfAmount, Reversing
<1>8. ASSUME r.reference # None
      PROVE  /\ r.status = "PROCESSED" /\ r.reference \in Keys
             /\ wagers[r.reference] # None /\ r.reference # k
             /\ Reversible(r.cmd, RowSeen(s, r.reference))
             /\ locks[s][r.cmd.wallet] = "forUpdate" /\ r.cmd.wallet \in Wallets
             /\ ProcessedReversals(s, r.reference, r.cmd.kind) = {}
  <2>1. r.status = "PROCESSED" /\ r.cmd.kind \in Reversals
    BY <1>1, <1>8 DEF RowSound
  <2>2. pc[s] \in {"debit", "credit"} /\ Reversing(s) /\ r.reference = found[s]
    BY <1>1, <1>2, <1>3, <1>8, <2>1 DEF Reversing
  <2> QED
    BY <1>2, <1>3, <1>4, <2>1, <2>2 DEF SessionSound, FoundSound, HeldLock, Reversible
<1>9. ASSUME NEW c, NEW ref \in Keys, Reversible(c, RowSeen(s, ref))
      PROVE  RowSeen(s, ref)' = RowSeen(s, ref)
  <2>1. ref # k
    BY <1>3, <1>9 DEF Reversible
  <2> QED
    BY <1>2, <2>1 DEF RowSeen
<1>10. DraftsSound(s)'
  <2>1. ASSUME NEW j \in Keys, NEW q, q = rowDraft'[s][j], q # None,
               NEW ref, ref = q.reference, ref # None
        PROVE  /\ q.cmd.wallet \in Wallets /\ locks'[s][q.cmd.wallet] = "forUpdate"
               /\ wagers'[ref] # None /\ Reversible(q.cmd, RowSeen(s, ref)')
    <3>1. CASE j = k
      BY <1>2, <1>6, <1>8, <1>9, <2>1, <3>1
    <3>2. CASE j # k
      <4>1. q = rowDraft[s][j] /\ ref \in Keys
        BY <1>2, <2>1, <3>2 DEF TypeInv, TypeOK, Row
      <4>2. /\ q.cmd.wallet \in Wallets /\ locks[s][q.cmd.wallet] = "forUpdate"
            /\ wagers[ref] # None /\ Reversible(q.cmd, RowSeen(s, ref))
        BY <1>4, <2>1, <4>1 DEF SessionSound, DraftsSound, Drafted
      <4> QED
        BY <1>2, <1>6, <1>9, <4>1, <4>2
    <3> QED
      BY <3>1, <3>2
  <2> QED
    BY <2>1 DEF DraftsSound, Drafted, Reversible, RowSeen
<1>11. ReversalIndexHolds(s)'
  <2>1. ASSUME NEW j \in Keys, NEW q, q = rowDraft'[s][j], q # None,
               q.status = "PROCESSED", NEW ref, ref = q.reference, ref # None,
               NEW kind, kind = q.cmd.kind
        PROVE  ProcessedReversals(s, ref, kind)' = {j}
    <3>1. CASE j = k
      <4>1. q = r /\ ref \in Keys
        BY <1>2, <1>8, <2>1, <3>1
      <4>2. ProcessedReversals(s, ref, kind) = {}
        BY <1>8, <2>1, <4>1
      <4> QED
        BY <1>1, <2>1, <3>1, <4>1, <4>2, OutcomeReversals
    <3>2. CASE j # k
      <4>1. q = rowDraft[s][j] /\ ref \in Keys
        BY <1>2, <2>1, <3>2 DEF TypeInv, TypeOK, Row
      <4>2. ProcessedReversals(s, ref, kind) = {j}
        BY <1>4, <2>1, <4>1 DEF SessionSound, ReversalIndexHolds
      <4>3. ~(r.reference = ref /\ r.cmd.kind = kind)
        BY <1>8, <2>1, <4>2
      <4> QED
        BY <1>1, <4>1, <4>2, <4>3, OutcomeReversals
    <3> QED
      BY <3>1, <3>2
  <2> QED
    BY <2>1 DEF ReversalIndexHolds, ProcessedReversals
<1> QED
  BY <1>7, <1>10, <1>11 DEF SessionSound

(* A row that is only inserted reverses nothing. *)
LEMMA InsertStaysSound ==
  ASSUME TypeInv, OwnInv, LedgerInv, ReversalInv, NEW s \in Sessions, InsertRow(s)
  PROVE  SessionSound(s)'
<1>1. /\ pc[s] = "insert" /\ pc'[s] = "walletKey" /\ job'[s] = job[s]
      /\ found'[s] = found[s] /\ locks'[s] = locks[s]
      /\ rowDraft' = [rowDraft EXCEPT ![s][job[s].key] = NewRow(job[s])]
  BY DEF InsertRow, UpdateRow, Goto, TypeInv, TypeOK
<1>2. \A k \in Keys : ~Drafted(s, k)
  BY <1>1 DEF OwnInv, ClientOwns, WorkerOwns, Sessions, Unwritten
<1>3. ASSUME NEW k \in Keys, rowDraft'[s][k] # None
      PROVE  rowDraft'[s][k].reference = None
  <2>1. rowDraft'[s][k] = NewRow(job[s])
    BY <1>1, <1>2, <1>3 DEF Drafted, TypeInv, TypeOK
  <2> QED
    BY <2>1 DEF NewRow
<1>4. DraftsSound(s)' /\ ReversalIndexHolds(s)'
  BY <1>3 DEF DraftsSound, ReversalIndexHolds, Drafted
<1>5. \A w \in Wallets : locks[s][w] = "none"
  BY <1>1 DEF LedgerInv, EarlyHoldsNothing, Early
<1>6. found[s] = None
  BY <1>1 DEF ReversalInv, SessionSound, FoundSound
<1> QED
  BY <1>1, <1>4, <1>5, <1>6
     DEF SessionSound, Course, HeldLock, FoundSound, ShortOfAmount, Reversing

(* Nothing is left of a transaction that has ended. *)
LEMMA EndStaysSound ==
  ASSUME TypeInv, NEW s \in Sessions, EndTransaction(s)
  PROVE  SessionSound(s)'
<1>1. /\ pc'[s] = "idle" /\ found'[s] = None
      /\ \A k \in Keys : rowDraft'[s][k] = None
      /\ \A w \in Wallets : locks'[s][w] = "none"
  BY DEF EndTransaction, NoRows, NoLocks, TypeInv, TypeOK
<1> QED
  BY <1>1 DEF SessionSound, Course, HeldLock, FoundSound, ShortOfAmount, DraftsSound,
              ReversalIndexHolds, Drafted

(* No step breaks the invariant about reversals. *)
LEMMA NextKeepsReversals ==
  TypeInv /\ OwnInv /\ LedgerInv /\ ReversalInv /\ [Next]_vars => ReversalInv'
<1> SUFFICES ASSUME TypeInv, OwnInv, LedgerInv, ReversalInv, [Next]_vars
             PROVE  ReversalInv'
  OBVIOUS
<1>1. CASE UNCHANGED vars
  BY <1>1 DEF vars, committed, drafts, ReversalInv, ForUpdateExcludes, RowsSound,
     ReferencesStand, SessionSound, Course, HeldLock, FoundSound, ShortOfAmount, DraftsSound,
     ReversalIndexHolds, Drafted, Reversing, RowSeen, WalletSeen, ProcessedReversals
<1>2. ASSUME NEW s \in Sessions, StepOf(s) PROVE ReversalInv'
  <2>1. ForUpdateExcludes' /\ RowsSound' /\ ReferencesStand'
    BY <1>2, NextKeepsForUpdate, NextKeepsRowsSound, NextKeepsReferences DEF ReversalInv
  <2>2. SessionSound(s)'
    BY <1>2, StepKinds, EndStaysSound, OutcomeStaysSound, InsertStaysSound, MoveStaysSound
  <2>3. ASSUME NEW t \in Sessions PROVE SessionSound(t)'
    <3>1. CASE t = s
      BY <2>2, <3>1 DEF SessionSound, Course, HeldLock, FoundSound, ShortOfAmount, DraftsSound,
         ReversalIndexHolds, Drafted, Reversing, RowSeen, WalletSeen, ProcessedReversals
    <3>2. CASE t # s
      BY <1>2, <3>2, OthersStaySound DEF SessionSound, Course, HeldLock, FoundSound,
         ShortOfAmount, DraftsSound, ReversalIndexHolds, Drafted, Reversing, RowSeen,
         WalletSeen, ProcessedReversals
    <3> QED
      BY <3>1, <3>2
  <2> QED
    BY <2>1, <2>3 DEF ReversalInv
<1> QED
  BY <1>1, <1>2 DEF Next, StepOf

(* The invariants of rows, locks and reversals, in every reachable state.  *)
LEMMA ReversalsAlways == Spec => [](TypeInv /\ OwnInv /\ LedgerInv /\ ReversalInv)
<1>1. Init => TypeInv /\ OwnInv /\ LedgerInv /\ ReversalInv
  BY InitTypeInv, InitOwnInv, InitLedgerInv, InitReversalInv
<1>2. TypeInv /\ OwnInv /\ LedgerInv /\ ReversalInv /\ [Next]_vars
        => (TypeInv /\ OwnInv /\ LedgerInv /\ ReversalInv)'
  BY NextKeepsTypes, NextKeepsOwn, NextKeepsLedger, NextKeepsReversals
<1> QED
  BY <1>1, <1>2, PTL DEF Spec

-----------------------------------------------------------------------------
(* No reversal that passed findProcessedReversal meets the partial unique  *)
(* index at its flush: whoever reversed the same row meanwhile would have  *)
(* held FOR UPDATE on the same wallet.                                     *)
THEOREM IndexNeverHit == Spec => []ReversalIndexNeverHit
<1>1. ReversalInv => ReversalIndexNeverHit
  BY DEF ReversalInv, SessionSound, ReversalIndexNeverHit
<1> QED
  BY <1>1, ReversalsAlways, PTL

(* A reversal refused for the balance was short of it: nobody moved the    *)
(* wallet between the UPDATE that found no row and the second read.        *)
THEOREM RefusedWasShort == Spec => []RefusedReversalWasShort
<1>1. ReversalInv => RefusedReversalWasShort
  BY DEF ReversalInv, RowsSound, RowSound, RefusedReversalWasShort
<1> QED
  BY <1>1, ReversalsAlways, PTL

(* A pending row is retried MaxAttempts times before it is given up, and   *)
(* never more, however many workers claim batches.                         *)
THEOREM RetriesCounted == Spec => []RetriesAreCounted
<1>1. ReversalInv => RetriesAreCounted
  BY DEF ReversalInv, RowsSound, RowSound, RetriesAreCounted
<1> QED
  BY <1>1, ReversalsAlways, PTL

-----------------------------------------------------------------------------
(* Deadlocks *)

(* A session is never its own blocker. *)
LEMMA NobodyWaitsForItself ==
  ASSUME NEW s \in Sessions
  PROVE  s \notin WaitsFor(s)
BY DEF WaitsFor, InsertBlockers, Blockers

(* Every member of a cycle is waited for by another: without it the rest   *)
(* would be a smaller one.                                                 *)
LEMMA MembersAreWaitedFor ==
  ASSUME NEW S \in SUBSET Sessions, WaitCycle(S), NEW s \in S
  PROVE  \E t \in S : s \in WaitsFor(t)
<1> SUFFICES ASSUME \A t \in S : s \notin WaitsFor(t) PROVE FALSE
  OBVIOUS
<1>1. \A t \in S \ {s} : WaitsFor(t) \cap (S \ {s}) # {}
  BY DEF WaitCycle, Waiting
<1>2. S \ {s} # {}
  BY DEF WaitCycle, Waiting
<1>3. S \ {s} = S
  BY <1>1, <1>2 DEF WaitCycle, Waiting
<1> QED
  BY <1>3

(* Who waits is at a statement that takes a lock. *)
LEMMA WaitersAreAt ==
  ASSUME NEW s \in Sessions, WaitsFor(s) # {}
  PROVE  pc[s] \in {"insert", "walletKey", "debit", "credit", "lockWallet"}
BY DEF WaitsFor

(* A session that inserts has written and locked nothing: nobody waits for *)
(* it.                                                                     *)
LEMMA NobodyWaitsForAnInsert ==
  ASSUME TypeInv, OwnInv, LedgerInv, NEW s \in Sessions, pc[s] = "insert", NEW t \in Sessions
  PROVE  s \notin WaitsFor(t)
<1>1. \A k \in Keys : ~Drafted(s, k)
  BY DEF OwnInv, ClientOwns, WorkerOwns, Sessions, Unwritten
<1>2. \A w \in Wallets : locks[s][w] = "none"
  BY DEF LedgerInv, EarlyHoldsNothing, Early
<1>3. s \notin InsertBlockers(t)
  BY <1>1 DEF InsertBlockers, Drafted
<1>4. \A w \in Wallets : \A mode : s \notin Blockers(t, w, mode)
  BY <1>2 DEF Blockers, ConflictsWith
<1>5. pc[t] \in {"debit", "credit", "lockWallet"} => job[t].wallet \in Wallets
  BY DEF TypeInv, Control, Early
<1> QED
  BY <1>3, <1>4, <1>5 DEF WaitsFor

(* Before the foreign key has been checked no wallet is locked: only an    *)
(* insert waits for such a session.                                        *)
LEMMA OnlyInsertsWaitForAKey ==
  ASSUME TypeInv, LedgerInv, NEW s \in Sessions, pc[s] = "walletKey",
         NEW t \in Sessions, s \in WaitsFor(t)
  PROVE  pc[t] = "insert"
<1>1. \A w \in Wallets : locks[s][w] = "none"
  BY DEF LedgerInv, EarlyHoldsNothing, Early
<1>2. \A w \in Wallets : \A mode : s \notin Blockers(t, w, mode)
  BY <1>1 DEF Blockers, ConflictsWith
<1>3. pc[t] \in {"debit", "credit", "lockWallet"} => job[t].wallet \in Wallets
  BY DEF TypeInv, Control, Early
<1> QED
  BY <1>2, <1>3 DEF WaitsFor

(* No cycle of waiting sessions has a bet, a win or a loss in it.          *)
THEOREM OnlyReversals == Spec => []OnlyReversalsDeadlock
<1>1. ASSUME TypeInv, OwnInv, LedgerInv, ReversalInv
      PROVE  OnlyReversalsDeadlock
  <2> SUFFICES ASSUME NEW S \in SUBSET Sessions, WaitCycle(S), NEW s \in S
               PROVE  Reversing(s)
    BY DEF OnlyReversalsDeadlock, Reversing
  <2>1. \A u \in S : WaitsFor(u) \cap S # {} /\ u \in Sessions
    BY DEF WaitCycle, Waiting
  <2>2. \A u \in S : pc[u] \in {"insert", "walletKey", "debit", "credit", "lockWallet"}
    BY <2>1, WaitersAreAt
  <2>3. \A u \in S : pc[u] # "insert"
    BY <1>1, <2>1, MembersAreWaitedFor, NobodyWaitsForAnInsert
  <2>4. \A u \in S : pc[u] # "walletKey"
    BY <1>1, <2>1, <2>3, MembersAreWaitedFor, OnlyInsertsWaitForAKey
  <2>5. CASE pc[s] = "lockWallet"
    BY <1>1, <2>1, <2>5 DEF ReversalInv, SessionSound, Course
  <2>6. CASE pc[s] \in {"debit", "credit"}
    <3> SUFFICES ASSUME ~Reversing(s) PROVE FALSE
      OBVIOUS
    <3> DEFINE w == job[s].wallet
    <3>1. w \in Wallets /\ locks[s][w] = "keyShare"
      BY <1>1, <2>1, <2>6 DEF TypeInv, Control, Early, ReversalInv, SessionSound, HeldLock
    <3>2. PICK u \in S : u \in Blockers(s, w, "noKeyUpdate")
      BY <2>1, <2>6 DEF WaitsFor, UpdateMode
    <3>3. u # s /\ locks[u][w] \in LockModes /\ "noKeyUpdate" \in ConflictsWith[locks[u][w]]
      BY <1>1, <2>1, <3>1, <3>2 DEF Blockers, TypeInv, TypeOK
    <3>4. locks[u][w] \in {"noKeyUpdate", "forUpdate"}
      BY <3>3 DEF ConflictsWith, LockModes
    <3>5. locks[u][w] # "noKeyUpdate"
      BY <1>1, <2>1, <2>2, <3>1 DEF ReversalInv, SessionSound, HeldLock
    <3>6. locks[u][w] # "forUpdate"
      BY <1>1, <2>1, <3>1, <3>3 DEF ReversalInv, ForUpdateExcludes
    <3> QED
      BY <3>4, <3>5, <3>6
  <2> QED
    BY <2>2, <2>3, <2>4, <2>5, <2>6
<1> QED
  BY <1>1, ReversalsAlways, PTL
=============================================================================

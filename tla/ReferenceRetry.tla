---------------------------- MODULE ReferenceRetry ----------------------------
(***************************************************************************)
(* The schedule of a reversal whose reference has not arrived: how often   *)
(* and when ReprocessPendingReferenceWorker looks for it again.            *)
(*                                                                         *)
(* A run of the worker reads the clock once, claims the oldest due rows    *)
(* and retries them in one transaction; runs overlap, because the timer    *)
(* does not wait for the run before and every instance has one.  Here a    *)
(* retry that finds the reference settles the row: WagerProcessing says    *)
(* how, and has the statements this module takes together.                 *)
(*                                                                         *)
(* Time counts units of BASE_REFERENCE_RETRY_MS on one clock: the          *)
(* instances are taken to agree on it.  next_reference_attempt_at is cut   *)
(* off at Horizon, where the clock of an instance of this module stops, so *)
(* that every row becomes due; HorizonAssumption keeps every attempt the   *)
(* limit allows within it.                                                 *)
(***************************************************************************)
EXTENDS Integers, FiniteSetsExt, SequencesExt

CONSTANTS
  None,
  Reversals,      \* the rows that name a reference
  Referenced,     \* bound: the rows whose reference ever comes
  Runs,           \* runs of the worker that may overlap
  BatchSize,      \* BATCH_SIZE
  MaxAttempts,    \* MAX_REFERENCE_RETRIES
  Cap,            \* MAX_REFERENCE_RETRY_MS
  MaxLag,         \* bound: from reading the clock to the COMMIT
  LastArrival,    \* bound: when the last reversal comes
  MaxCrashes,     \* bound: how many runs crash
  Horizon

(* The first attempt is one unit after the row is created, and the delays  *)
(* double from there to the cap.                                           *)
Base == 1

(* Mutant: the delay is that of the attempt before. *)
DelayOfLastAttempt(attempts) == Min({Base * 2 ^ (attempts - 1), Cap})

Delay(attempts) == Min({Base * 2 ^ attempts, Cap})

(* How long a reversal has waited at least when it is due with so many     *)
(* attempts, and before it is given up: not in the code, the sum of the    *)
(* delays the limit promises.                                              *)
Waited[attempts \in Nat] ==
  IF attempts <= 1 THEN Base
                   ELSE Waited[attempts - 1] + Min({Base * 2 ^ (attempts - 1), Cap})

Patience == Waited[MaxAttempts]

ASSUME HorizonAssumption ==
  /\ IsFiniteSet(Reversals) /\ Referenced \subseteq Reversals
  /\ BatchSize \in Nat \ {0} /\ MaxAttempts \in Nat \ {0} /\ Cap \in Nat \ {0}
  /\ MaxLag \in Nat /\ LastArrival \in Nat /\ MaxCrashes \in Nat /\ Horizon \in Nat
  /\ Horizon >= LastArrival + Patience

(* Not about this program: the provers know no more of a power of two than *)
(* that it is an integer.                                                  *)
ASSUME PowersAssumption == \A a \in 1..MaxAttempts : 2 ^ a \in Nat

VARIABLES
  clock,
  reference,      \* when the reference of a row committed, or None
  rows,           \* the row of each reversal, or None
  run,            \* what each run is doing
  crashes

vars == <<clock, reference, rows, run, crashes>>

Row == [status : {"PENDING_REFERENCE", "SETTLED", "REFERENCE_NOT_FOUND"},
        created : 0..Horizon, attempts : 1..MaxAttempts, next : 0..Horizon \cup {None}]

(* NULL is no row and no time. *)
ASSUME NoneAssumption == None \notin Row /\ None \notin 0..Horizon

(* now: when the run began; batch: the rows still to retry; done: what its *)
(* transaction has written.                                                *)
Idle == [pc |-> "idle", now |-> None, batch |-> << >>, done |-> << >>]

Init ==
  /\ clock = 0
  /\ reference = [k \in Reversals |-> None]
  /\ rows = [k \in Reversals |-> None]
  /\ run = [r \in Runs |-> Idle]
  /\ crashes = 0

At(time, delay) == Min({time + delay, Horizon})

(* Mutant: the attempt is not counted. *)
ScheduleWithoutCounting(row, now, delay) == [row EXCEPT !.next = At(now, delay)]

ScheduleReferenceRetry(row, now, delay) ==
  [row EXCEPT !.attempts = @ + 1, !.next = At(now, delay)]

(* Any outcome of a retry that found its reference; only markProcessed     *)
(* comes with clearReferenceRetrySchedule, but no settled row is read.     *)
Settle(row) == [row EXCEPT !.status = "SETTLED", !.next = None]

GiveUp(row) == [row EXCEPT !.status = "REFERENCE_NOT_FOUND", !.next = None]

-----------------------------------------------------------------------------
(* The provider's messages, in any order *)

(* The reversal is processed for the first time: its clock was read up to  *)
(* MaxLag before it commits.                                               *)
Arrive(k) ==
  /\ rows[k] = None /\ clock <= LastArrival
  /\ \E now \in Max({0, clock - MaxLag})..clock :
       rows' = [rows EXCEPT ![k] =
         [status |-> IF reference[k] = None THEN "PENDING_REFERENCE" ELSE "SETTLED",
          created |-> now, attempts |-> 1, next |-> At(now, Base)]]
  /\ UNCHANGED <<clock, reference, run, crashes>>

(* A reference that comes after the row is settled plays no part. *)
ReferenceCommits(k) ==
  /\ k \in Referenced /\ reference[k] = None
  /\ rows[k] # None => rows[k].status = "PENDING_REFERENCE"
  /\ reference' = [reference EXCEPT ![k] = clock]
  /\ UNCHANGED <<clock, rows, run, crashes>>

-----------------------------------------------------------------------------
(* runOnce *)

(* The timer fires. *)
Begin(r) ==
  /\ run[r].pc = "idle"
  /\ run' = [run EXCEPT ![r] = [Idle EXCEPT !.pc = "claim", !.now = clock]]
  /\ UNCHANGED <<clock, reference, rows, crashes>>

Due(k, now) ==
  /\ rows[k] # None /\ rows[k].status = "PENDING_REFERENCE"
  /\ rows[k].next <= now

(* The rows a run has locked: FOR UPDATE, until its transaction ends. *)
Locked(r) ==
  IF run[r].pc = "retry" THEN ToSet(run[r].batch) \cup DOMAIN run[r].done ELSE {}

(* Mutant: rows another run has locked are read all the same. *)
HeldByNobody(k, r) == FALSE

HeldByAnother(k, r) == \E t \in Runs \ {r} : k \in Locked(t)

(* ORDER BY created_at; no order among equals *)
OldestFirst(j, k) == rows[j].created < rows[k].created

(* findDuePendingReferenceTransactions: a run waits for the rows of its    *)
(* batch another has locked, and judges them again when they are free.     *)
Claim(r) ==
  LET due == {k \in Reversals : Due(k, run[r].now)} IN
  /\ run[r].pc = "claim"
  /\ \E order \in SetToSeqs(due) :
       LET batch == SubSeq(order, 1, Min({BatchSize, Len(order)})) IN
       /\ \A i, j \in DOMAIN order : OldestFirst(order[i], order[j]) => i < j
       /\ \A k \in ToSet(batch) : ~HeldByAnother(k, r)
       /\ run' = [run EXCEPT ![r].pc = "retry", ![r].batch = batch]
  /\ UNCHANGED <<clock, reference, rows, crashes>>

Write(r, k, row) ==
  run' = [run EXCEPT ![r].batch = Tail(@),
                     ![r].done = [j \in DOMAIN @ \cup {k} |->
                                    IF j = k THEN row ELSE @[j]]]

(* Mutant: one attempt more than the limit. *)
OneAttemptMore(row) == row.attempts > MaxAttempts

Exhausted(row) == row.attempts >= MaxAttempts

(* retryPendingReference of the next row of the batch: the reference is    *)
(* looked for when its turn comes, the schedule counts from the run's now. *)
Retry(r) ==
  LET k == Head(run[r].batch)
      row == rows[k]
  IN
  /\ run[r].pc = "retry" /\ run[r].batch # << >>
  /\ \/ /\ reference[k] # None
        /\ Write(r, k, Settle(row))
     \/ /\ reference[k] = None /\ Exhausted(row)
        /\ Write(r, k, GiveUp(row))
     \/ /\ reference[k] = None /\ ~Exhausted(row)
        /\ Write(r, k, ScheduleReferenceRetry(row, run[r].now, Delay(row.attempts)))
  /\ UNCHANGED <<clock, reference, rows, crashes>>

Commit(r) ==
  /\ run[r].pc = "retry" /\ run[r].batch = << >>
  /\ rows' = [k \in Reversals |->
                IF k \in DOMAIN run[r].done THEN run[r].done[k] ELSE rows[k]]
  /\ run' = [run EXCEPT ![r] = Idle]
  /\ UNCHANGED <<clock, reference, crashes>>

(* The run fails or its process dies: nothing it has written is kept, and  *)
(* the attempts it made are not counted.                                   *)
Crash(r) ==
  /\ run[r].pc # "idle" /\ crashes < MaxCrashes
  /\ crashes' = crashes + 1
  /\ run' = [run EXCEPT ![r] = Idle]
  /\ UNCHANGED <<clock, reference, rows>>

(* A run lasts at most MaxLag. *)
Tick ==
  /\ clock < Horizon
  /\ \A r \in Runs : run[r].pc # "idle" => clock - run[r].now < MaxLag
  /\ clock' = clock + 1
  /\ UNCHANGED <<reference, rows, run, crashes>>

Step(r) == Claim(r) \/ Retry(r) \/ Commit(r)

Next ==
  \/ Tick
  \/ \E k \in Reversals : Arrive(k) \/ ReferenceCommits(k)
  \/ \E r \in Runs : Begin(r) \/ Step(r) \/ Crash(r)

(* Time passes and the timer keeps firing; a claim that waits for a row    *)
(* lock gets it, and no run crashes for ever.  No message has to come.     *)
Fairness ==
  /\ WF_vars(Tick)
  /\ \A r \in Runs : WF_vars(Begin(r)) /\ SF_vars(Step(r))

Spec == Init /\ [][Next]_vars /\ Fairness

-----------------------------------------------------------------------------
(* Properties *)

(* Every variable has its type. *)
TypeOK ==
  /\ clock \in 0..Horizon
  /\ reference \in [Reversals -> 0..Horizon \cup {None}]
  /\ rows \in [Reversals -> Row \cup {None}]
  /\ \A r \in Runs :
       /\ run[r].pc \in {"idle", "claim", "retry"}
       /\ run[r].now \in 0..Horizon \cup {None}
       /\ ToSet(run[r].batch) \subseteq Reversals
       /\ \A k \in DOMAIN run[r].done : run[r].done[k] \in Row
  /\ crashes \in 0..MaxCrashes

(* A reversal is given up only if its reference was still missing when all *)
(* its delays had passed: crashes, overlapping runs and a late clock take  *)
(* nothing from the time a reference has to come (ARCHITECTURE.md:269).    *)
ReferenceInTimeIsFound ==
  \A k \in Reversals :
    rows[k] # None /\ rows[k].status = "REFERENCE_NOT_FOUND" =>
      /\ clock >= rows[k].created + Patience
      /\ reference[k] # None => reference[k] >= rows[k].created + Patience

(* No row is retried before its time, nor twice for one schedule, although *)
(* two runs may have seen it due: the second judges it by its new schedule *)
(* (README.md:393).                                                        *)
RetriedOncePerSchedule ==
  [][\A k \in Reversals :
       rows[k] # None /\ rows'[k] # rows[k] =>
         /\ clock >= rows[k].next
         /\ rows'[k].attempts - rows[k].attempts \in 0..1
         /\ \A r \in Runs : k \in Locked(r) =>
              k \in DOMAIN run[r].done /\ rows'[k] = run[r].done[k]]_vars

(* Every pending reversal is settled or given up, however many others are  *)
(* due with it (ARCHITECTURE.md:269).                                      *)
NoReversalStarves ==
  \A k \in Reversals :
    (rows[k] # None /\ rows[k].status = "PENDING_REFERENCE")
      ~> (rows[k] # None /\ rows[k].status # "PENDING_REFERENCE")
=============================================================================

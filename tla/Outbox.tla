------------------------------- MODULE Outbox -------------------------------
(***************************************************************************)
(* PublishOutboxWorker.runOnce by several publishers over one outbox.      *)
(*                                                                         *)
(* A run is one database transaction: it claims due rows with FOR UPDATE   *)
(* SKIP LOCKED, sends them one by one to integration-events.fifo, notes    *)
(* for each whether it was published or is to be retried, and commits.     *)
(* The timer fires whether or not the run before has ended, so the         *)
(* publishers are the runs that may overlap, of any instances.             *)
(*                                                                         *)
(* Left out: the payload; the length of the backoff (nextAttempt only says *)
(* that next_attempt_at lies ahead, and Elapse that it has come); the      *)
(* second transaction of a run, which counts rows for a metric.            *)
(***************************************************************************)
EXTENDS Naturals, Sequences, FiniteSets

CONSTANTS
  Events,         \* the outbox messages that may be enqueued
  OccurredAt,     \* [Events -> Nat], set by the application, not by COMMIT
  Publishers,     \* runs of the worker
  BatchSize,      \* outboxBatchSize
  MaxFaults       \* bound: crashes and failed sends of each event

ASSUME EventsAssumption == IsFiniteSet(Events)
ASSUME OccurredAtAssumption == OccurredAt \in [Events -> Nat]
ASSUME BoundsAssumption == BatchSize \in Nat \ {0} /\ MaxFaults \in Nat

VARIABLES
  rows,           \* outbox_messages: the state of each committed row
  waiting,        \* the rows whose next_attempt_at lies ahead
  batch,          \* of a run: the claimed rows it has still to send
  outcome,        \* of a run: what it noted of the rows it has sent
  running,        \* the runs with an open transaction
  stream,         \* what the queue has accepted, in order
  recent,         \* the deduplication ids the queue still remembers
  faults          \* how often a send of the event failed or was forgotten

vars == <<rows, waiting, batch, outcome, running, stream, recent, faults>>

NoOutcome == [e \in Events |-> "none"]

Init ==
  /\ rows = [e \in Events |-> "absent"]
  /\ waiting = {}
  /\ batch = [p \in Publishers |-> << >>]
  /\ outcome = [p \in Publishers |-> NoOutcome]
  /\ running = {}
  /\ stream = << >>
  /\ recent = {}
  /\ faults = [e \in Events |-> 0]

-----------------------------------------------------------------------------
(* The rows a run holds FOR UPDATE, sent or not. *)
Locked(p) ==
  {batch[p][i] : i \in DOMAIN batch[p]} \cup {e \in Events : outcome[p][e] # "none"}

(* WHERE published_at IS NULL AND next_attempt_at is not ahead. *)
IsDue(e) == rows[e] = "pending" /\ e \notin waiting

(* Mutant: SKIP LOCKED without FOR UPDATE claims what others have claimed. *)
ClaimableByAll == {e \in Events : IsDue(e)}

(* FOR UPDATE SKIP LOCKED *)
Claimable == {e \in Events : IsDue(e) /\ \A p \in Publishers : e \notin Locked(p)}

(* ORDER BY occurred_at LIMIT BatchSize *)
IsBatch(b) ==
  /\ \A i, j \in DOMAIN b : i < j => b[i] # b[j] /\ OccurredAt[b[i]] <= OccurredAt[b[j]]
  /\ \A e \in Claimable \ {b[i] : i \in DOMAIN b} :
       \A i \in DOMAIN b : OccurredAt[b[i]] <= OccurredAt[e]

(* Mutant: a new row has a state the index of pending rows leaves out. *)
CommitEventAsNew(e) ==
  /\ rows[e] = "absent"
  /\ rows' = [rows EXCEPT ![e] = "new"]
  /\ UNCHANGED <<waiting, batch, outcome, running, stream, recent, faults>>

(* The transaction that enqueued e commits, in any order. *)
CommitEvent(e) ==
  /\ rows[e] = "absent"
  /\ rows' = [rows EXCEPT ![e] = "pending"]
  /\ UNCHANGED <<waiting, batch, outcome, running, stream, recent, faults>>

(* claimPendingOutboxMessages; a run that finds nothing changes nothing. *)
Claim(p) ==
  /\ p \notin running
  /\ Claimable # {}
  /\ LET n == IF Cardinality(Claimable) < BatchSize THEN Cardinality(Claimable)
                                                    ELSE BatchSize
     IN  \E b \in [1..n -> Claimable] :
           IsBatch(b) /\ batch' = [batch EXCEPT ![p] = b]
  /\ running' = running \cup {p}
  /\ UNCHANGED <<rows, waiting, outcome, stream, recent, faults>>

(* The queue drops a message whose deduplication id it remembers. *)
Accept(e) ==
  /\ stream' = IF e \in recent THEN stream ELSE Append(stream, e)
  /\ recent' = recent \cup {e}

(* The run goes on to its next row. *)
Note(p, what) ==
  /\ outcome' = [outcome EXCEPT ![p][Head(batch[p])] = what]
  /\ batch' = [batch EXCEPT ![p] = Tail(@)]

(* sendFifoMessage resolves: markPublished. *)
Publish(p) ==
  /\ batch[p] # << >>
  /\ Accept(Head(batch[p]))
  /\ Note(p, "published")
  /\ UNCHANGED <<rows, waiting, running, faults>>

(* Mutant: the error is logged and the row is marked published. *)
SwallowError(p) ==
  /\ batch[p] # << >>
  /\ faults[Head(batch[p])] < MaxFaults
  /\ faults' = [faults EXCEPT ![Head(batch[p])] = @ + 1]
  /\ UNCHANGED <<stream, recent>>
  /\ Note(p, "published")
  /\ UNCHANGED <<rows, waiting, running>>

(* sendFifoMessage rejects: scheduleRetry.  The queue may have accepted    *)
(* the message all the same, if only its answer was lost.                  *)
SendFails(p) ==
  /\ batch[p] # << >>
  /\ faults[Head(batch[p])] < MaxFaults
  /\ faults' = [faults EXCEPT ![Head(batch[p])] = @ + 1]
  /\ Accept(Head(batch[p])) \/ UNCHANGED <<stream, recent>>
  /\ Note(p, "retry")
  /\ UNCHANGED <<rows, waiting, running>>

EndRun(p) ==
  /\ batch' = [batch EXCEPT ![p] = << >>]
  /\ outcome' = [outcome EXCEPT ![p] = NoOutcome]
  /\ running' = running \ {p}

(* Mutant: the whole batch is marked published, sent or not. *)
CommitWholeBatch(p) ==
  /\ p \in running /\ batch[p] = << >>
  /\ rows' = [e \in Events |-> IF outcome[p][e] # "none" THEN "published" ELSE rows[e]]
  /\ EndRun(p)
  /\ UNCHANGED <<waiting, stream, recent, faults>>

(* The flush of updateOutbox, and the COMMIT. *)
CommitRun(p) ==
  /\ p \in running /\ batch[p] = << >>
  /\ rows' = [e \in Events |-> IF outcome[p][e] = "published" THEN "published"
                                                              ELSE rows[e]]
  /\ waiting' = waiting \cup {e \in Events : outcome[p][e] = "retry"}
  /\ EndRun(p)
  /\ UNCHANGED <<stream, recent, faults>>

(* The process or its connection dies: ROLLBACK, after what was sent. *)
Crash(p) ==
  /\ p \in running
  /\ \A e \in Locked(p) : faults[e] < MaxFaults
  /\ faults' = [e \in Events |-> IF e \in Locked(p) THEN faults[e] + 1 ELSE faults[e]]
  /\ EndRun(p)
  /\ UNCHANGED <<rows, waiting, stream, recent>>

(* next_attempt_at has come. *)
Elapse(e) ==
  /\ e \in waiting
  /\ waiting' = waiting \ {e}
  /\ UNCHANGED <<rows, batch, outcome, running, stream, recent, faults>>

(* The five minutes the queue remembers a deduplication id are over. *)
Forget(e) ==
  /\ e \in recent
  /\ recent' = recent \ {e}
  /\ UNCHANGED <<rows, waiting, batch, outcome, running, stream, faults>>

Step(p) == Claim(p) \/ Publish(p) \/ SendFails(p) \/ CommitRun(p)

Next ==
  \/ \E p \in Publishers : Step(p) \/ Crash(p)
  \/ \E e \in Events : CommitEvent(e) \/ Elapse(e) \/ Forget(e)

Spec == Init /\ [][Next]_vars

(* The timer keeps firing and a run goes on from one statement to the      *)
(* next; time passes; and a queue or a process that fails recovers, since  *)
(* the faults of an event are bounded.  Nothing has to be enqueued.        *)
FairSpec ==
  /\ Spec
  /\ \A p \in Publishers : WF_vars(Step(p))
  /\ \A e \in Events : WF_vars(Elapse(e))

-----------------------------------------------------------------------------
(* Properties *)

(* Every variable has its type. *)
TypeOK ==
  /\ rows \in [Events -> {"absent", "pending", "published"}]
  /\ waiting \in SUBSET Events
  /\ batch \in [Publishers -> Seq(Events)]
  /\ outcome \in [Publishers -> [Events -> {"none", "published", "retry"}]]
  /\ running \in SUBSET Publishers
  /\ stream \in Seq(Events)
  /\ recent \in SUBSET Events
  /\ faults \in [Events -> Nat]

Sent(e) == {i \in DOMAIN stream : stream[i] = e}

(* published_at is set only on rows the queue has accepted: a crash or a   *)
(* failed send between the send and the COMMIT loses no event.             *)
PublishedWasSent == \A e \in Events : rows[e] = "published" => Sent(e) # {}

(* Publishers that overlap send no row twice (README.md:586, "sem perder   *)
(* nem duplicar indefinidamente"): each duplicate is accounted for by a    *)
(* send that failed or by a crash after it.                                *)
DuplicatesHaveCause ==
  \A e \in Events : Cardinality(Sent(e)) <= faults[e] + 1

(* What the publishers do is delivery at least once of the committed       *)
(* events, and of no other.                                                *)
Delivery ==
  INSTANCE EventDelivery WITH
    announced <- {e \in Events : rows[e] # "absent"},
    delivered <- {e \in Events : Sent(e) # {}}

(* The outbox is an at-least-once channel: no committed event is lost      *)
(* (README.md:588-594, the crash between COMMIT and publication).          *)
DeliversAtLeastOnce == Delivery!FairSpec
=============================================================================

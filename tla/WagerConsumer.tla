---------------------------- MODULE WagerConsumer ----------------------------
(***************************************************************************)
(* WagerTransactionConsumer over wager-transactions.fifo, and the inbox    *)
(* transaction of ProcessInboundWagerMessageUseCase; and beside it the     *)
(* callers of POST /wagering/transactions, who bring the same commands     *)
(* without an inbox row.                                                   *)
(*                                                                         *)
(* A consumer is one poll: it receives a message, runs one database        *)
(* transaction, and then deletes the message, moves it to the dead letter  *)
(* queue or leaves it for later.  setInterval does not wait for the poll   *)
(* before, so polls overlap in an instance as well as between instances.   *)
(*                                                                         *)
(* The wager itself is what WagerProcessing shows of it from outside: a    *)
(* command recorded under its key once, replayed or refused afterwards.    *)
(* Left out: message groups (any order is possible here), the lengths of   *)
(* the visibility timeouts (they expire at any time), the end of the five  *)
(* minutes a queue remembers a deduplication id, metrics and logs.         *)
(***************************************************************************)
EXTENDS Naturals, FiniteSets

CONSTANTS
  None,
  Copies,         \* the messages SQS may be given; two may have one body
  Requests,       \* the requests that may be posted
  Body,           \* [Copies \cup Requests -> [id, key, payload, defect]]
  Consumers,      \* polls that may overlap
  Callers,        \* requests that may overlap
  MaxReceive,     \* maxReceiveCount, of the consumer and of the RedrivePolicy
  MaxSent         \* bound: how many messages are sent

(* What parsing and validation make of a body:                             *)
(*   unparsable   InvalidMessageError; its id is never learnt              *)
(*   state        InvalidTransactionStateError: kind, or missing reference *)
(*   money        InvalidMoneyError                                        *)
Defects == {"none", "unparsable", "state", "money"}

(* A payload is the fields that are hashed, as the sender ordered them:    *)
(* those of money, the only ones execute does not put in an order of its   *)
(* own, and as texts, before Money.from makes an amount of them.           *)
ASSUME BodyAssumption ==
  /\ \A k \in Copies \cup Requests :
       Body[k].defect \in Defects /\ Body[k].payload # None
  /\ \A k \in Requests : Body[k].defect # "unparsable"
  /\ None \notin Copies \cup Requests \cup {"accepted", "refused"}
  /\ Consumers \cap Callers = {}
ASSUME BoundsAssumption == MaxReceive \in Nat \ {0} /\ MaxSent \in Nat

Ids == {Body[k].id : k \in Copies}
Keys == {Body[k].key : k \in Copies \cup Requests}
Payloads == {Body[k].payload : k \in Copies \cup Requests}
Sessions == Consumers \cup Callers

VARIABLES
  queue,          \* the state of each message in SQS and its receive count
  dlq,            \* the messages in wager-transactions-dlq.fifo
  dlqRecent,      \* the deduplication ids the dead letter queue remembers
  inbox,          \* inbox_messages that have been committed, all processed
  wagers,         \* the payload wager_transactions holds the hash of
  effects,        \* how many transactions have applied a key
  session,        \* what each poll or request is doing
  stopping,       \* the polls of instances that are shutting down
  answers         \* what the sender of each request has been told

vars == <<queue, dlq, dlqRecent, inbox, wagers, effects, session, stopping, answers>>

(* copy and count: what was received, and as which receive; caught: the    *)
(* catch block has been entered; inserted and applied: the drafts of the   *)
(* open transaction.                                                       *)
Idle == [pc |-> "idle", copy |-> None, count |-> 0, caught |-> FALSE,
         inserted |-> FALSE, applied |-> FALSE]

Init ==
  /\ queue = [k \in Copies |-> [state |-> "unsent", receives |-> 0]]
  /\ dlq = {} /\ dlqRecent = {}
  /\ inbox = {}
  /\ wagers = [key \in Keys |-> None]
  /\ effects = [key \in Keys |-> 0]
  /\ session = [c \in Sessions |-> Idle]
  /\ stopping = {}
  /\ answers = [q \in Requests |-> None]

Message(c) == Body[session[c].copy]

At(c, label) == session[c].pc = label

Goto(c, label) == session' = [session EXCEPT ![c].pc = label]

(* The transaction ends, if one is open, and the poll goes on at label. *)
EndAndGoto(c, label) ==
  session' = [session EXCEPT ![c].pc = label, ![c].inserted = FALSE,
                             ![c].applied = FALSE]

(* The poll is over; an error it did not catch is logged by the timer. *)
Finish(c) == session' = [session EXCEPT ![c] = Idle]

database == <<inbox, wagers, effects>>
sqs == <<queue, dlq, dlqRecent>>

-----------------------------------------------------------------------------
(* SQS *)

(* A provider sends a message. *)
Send(k) ==
  /\ queue[k].state = "unsent"
  /\ Cardinality({j \in Copies : queue[j].state # "unsent"}) < MaxSent
  /\ queue' = [queue EXCEPT ![k].state = "visible"]
  /\ UNCHANGED <<dlq, dlqRecent, database, session, stopping, answers>>

(* The visibility timeout runs out, whoever still works on the message. *)
VisibilityExpires(k) ==
  /\ queue[k].state = "hidden"
  /\ queue' = [queue EXCEPT ![k].state = "visible"]
  /\ UNCHANGED <<dlq, dlqRecent, database, session, stopping, answers>>

(* The RedrivePolicy of ensureQueues. *)
Redrive(k) ==
  /\ queue[k].state = "visible"
  /\ queue[k].receives >= MaxReceive
  /\ queue' = [queue EXCEPT ![k].state = "gone"]
  /\ dlq' = dlq \cup {k}
  /\ UNCHANGED <<dlqRecent, database, session, stopping, answers>>

(* The receipt handle of c is that of the last receive. *)
HoldsReceipt(c) ==
  /\ queue[session[c].copy].state = "hidden"
  /\ queue[session[c].copy].receives = session[c].count

(* Mutant: the message is marked, not deleted. *)
DeleteMarked(c) == queue' = [queue EXCEPT ![session[c].copy].state = "deleted"]

Delete(c) == queue' = [queue EXCEPT ![session[c].copy].state = "gone"]

-----------------------------------------------------------------------------
(* poll *)

Receive(c) ==
  /\ At(c, "idle") /\ c \notin stopping
  /\ \E k \in Copies :
       /\ queue[k].state = "visible" /\ queue[k].receives < MaxReceive
       /\ queue' = [queue EXCEPT ![k] = [state |-> "hidden", receives |-> @.receives + 1]]
       /\ session' = [session EXCEPT ![c] =
            [Idle EXCEPT !.pc = "received", !.copy = k, !.count = queue[k].receives + 1]]
  /\ UNCHANGED <<dlq, dlqRecent, database, stopping, answers>>

(* The receive returns to an instance that is shutting down: the message   *)
(* is given back, unless that call fails.                                  *)
Release(c) ==
  /\ At(c, "received") /\ c \in stopping
  /\ \/ /\ HoldsReceipt(c)
        /\ queue' = [queue EXCEPT ![session[c].copy].state = "visible"]
     \/ UNCHANGED queue
  /\ Finish(c)
  /\ UNCHANGED <<dlq, dlqRecent, database, stopping, answers>>

(* handleMessage begins: a body that does not parse goes to the catch      *)
(* block and from there to the dead letter queue.                          *)
Take(c) ==
  /\ At(c, "received") /\ c \notin stopping
  /\ IF Message(c).defect = "unparsable"
     THEN session' = [session EXCEPT ![c].pc = "dlqSend", ![c].caught = TRUE]
     ELSE Goto(c, "inbox")
  /\ UNCHANGED <<sqs, database, stopping, answers>>

(* onModuleDestroy sets shuttingDown and waits for inFlight = 0; then the  *)
(* process ends and another is started.  What is in flight goes on as      *)
(* ever, so that only a receive under way takes notice.                    *)
Stop(c) ==
  /\ At(c, "received") /\ c \notin stopping
  /\ stopping' = stopping \cup {c}
  /\ UNCHANGED <<sqs, database, session, answers>>

Restart(c) ==
  /\ c \in stopping /\ At(c, "idle")
  /\ stopping' = stopping \ {c}
  /\ UNCHANGED <<sqs, database, session, answers>>

-----------------------------------------------------------------------------
(* Idempotency: which command a key stands for *)

(* Mutant: the fields are hashed in the order they were sent. *)
HashAsWritten(payload) == payload

(* computePayloadHash over toCanonicalJson, which sorts the fields; the    *)
(* digest is taken to tell any two of them apart.                          *)
PayloadHash(payload) == {payload[i] : i \in DOMAIN payload}

(* matchesPayload, of the row under the key of c *)
MatchesPayload(c) ==
  /\ wagers[Message(c).key] # None
  /\ PayloadHash(wagers[Message(c).key]) = PayloadHash(Message(c).payload)

-----------------------------------------------------------------------------
(* WageringController.submit *)

(* A request with an Idempotency-Key begins the transaction of             *)
(* ProcessWagerTransactionUseCase; an unanswered one may be posted again.  *)
Post(c) ==
  /\ At(c, "idle")
  /\ \E q \in Requests :
       /\ answers[q] = None
       /\ session' = [session EXCEPT ![c] = [Idle EXCEPT !.pc = "service", !.copy = q]]
  /\ UNCHANGED <<sqs, database, stopping, answers>>

(* The command is refused: its transaction holds nothing. *)
Refused(c) ==
  /\ At(c, "service")
  /\ \/ Message(c).defect # "none"
     \/ wagers[Message(c).key] # None /\ ~MatchesPayload(c)
  /\ answers' = [answers EXCEPT ![session[c].copy] = "refused"]
  /\ Finish(c)
  /\ UNCHANGED <<sqs, database, stopping>>

Accepted(c) ==
  /\ At(c, "answer")
  /\ answers' = [answers EXCEPT ![session[c].copy] = "accepted"]
  /\ Finish(c)
  /\ UNCHANGED <<sqs, database, stopping>>

(* A statement or the COMMIT fails, and the caller is told nothing of the  *)
(* command: status 500.                                                    *)
Fails(c) ==
  /\ session[c].pc \in {"service", "commit"}
  /\ Finish(c)
  /\ UNCHANGED <<sqs, database, stopping, answers>>

-----------------------------------------------------------------------------
(* ProcessInboundWagerMessageUseCase.execute: one transaction *)

(* INSERT ... ON CONFLICT waits for the open transaction of the same id... *)
InboxHeld(c) ==
  \E d \in Consumers \ {c} : session[d].inserted /\ Message(d).id = Message(c).id

(* Mutant: a SELECT decides whether the key is new, and no index does. *)
WagerHeldByNobody(c) == FALSE

(* ... and so does the insert of a wager for one of the same key. *)
WagerHeld(c) ==
  \E d \in Sessions \ {c} : session[d].applied /\ Message(d).key = Message(c).key

(* Mutant: the inbox row commits in a transaction of its own. *)
InsertInboxAlone(c) ==
  /\ At(c, "inbox")
  /\ Message(c).id \notin inbox /\ ~InboxHeld(c)
  /\ inbox' = inbox \cup {Message(c).id}
  /\ Goto(c, "service")
  /\ UNCHANGED <<sqs, wagers, effects, stopping, answers>>

(* The transaction begins with the inbox row. *)
InsertInbox(c) ==
  /\ At(c, "inbox")
  /\ Message(c).id \notin inbox /\ ~InboxHeld(c)
  /\ session' = [session EXCEPT ![c].pc = "service", ![c].inserted = TRUE]
  /\ UNCHANGED <<sqs, database, stopping, answers>>

(* already_processed: every committed inbox row is. *)
SkipDuplicate(c) ==
  /\ At(c, "inbox")
  /\ Message(c).id \in inbox
  /\ Goto(c, "ack")
  /\ UNCHANGED <<sqs, database, stopping, answers>>

(* ProcessWagerTransactionService records the command. *)
Apply(c) ==
  /\ At(c, "service") /\ Message(c).defect = "none"
  /\ wagers[Message(c).key] = None /\ ~WagerHeld(c)
  /\ session' = [session EXCEPT ![c].pc = "commit", ![c].applied = TRUE]
  /\ UNCHANGED <<sqs, database, stopping, answers>>

(* It has been recorded before, under another message id or by HTTP. *)
ReplayCommand(c) ==
  /\ At(c, "service") /\ Message(c).defect = "none"
  /\ MatchesPayload(c)
  /\ Goto(c, "commit")
  /\ UNCHANGED <<sqs, database, stopping, answers>>

(* classifyError: dlq. *)
RefuseForGood(c) ==
  /\ At(c, "service")
  /\ \/ Message(c).defect = "state"
     \/ /\ Message(c).defect = "none"
        /\ wagers[Message(c).key] # None /\ ~MatchesPayload(c)
  /\ EndAndGoto(c, "dlqSend")
  /\ UNCHANGED <<sqs, database, stopping, answers>>

(* classifyError: any other DomainError is acknowledged. *)
RefuseAndAck(c) ==
  /\ At(c, "service") /\ Message(c).defect = "money"
  /\ EndAndGoto(c, "ack")
  /\ UNCHANGED <<sqs, database, stopping, answers>>

(* A statement or the COMMIT fails, classifyError: retry. *)
FailTransiently(c) ==
  /\ session[c].pc \in {"inbox", "service", "commit"}
  /\ EndAndGoto(c, "retry")
  /\ UNCHANGED <<sqs, database, stopping, answers>>

(* The wager, the inbox row of a message and markProcessed commit together. *)
Commit(c) ==
  /\ At(c, "commit")
  /\ inbox' = IF c \in Consumers THEN inbox \cup {Message(c).id} ELSE inbox
  /\ IF session[c].applied
     THEN /\ wagers' = [wagers EXCEPT ![Message(c).key] = Message(c).payload]
          /\ effects' = [effects EXCEPT ![Message(c).key] = @ + 1]
     ELSE UNCHANGED <<wagers, effects>>
  /\ EndAndGoto(c, IF c \in Consumers THEN "ack" ELSE "answer")
  /\ UNCHANGED <<sqs, stopping, answers>>

-----------------------------------------------------------------------------
(* What becomes of the message *)

Ack(c) ==
  /\ At(c, "ack")
  /\ Delete(c)
  /\ Finish(c)
  /\ UNCHANGED <<dlq, dlqRecent, database, stopping, answers>>

(* moveToDlq sends under the deduplication id of the message id, and the   *)
(* queue drops what it remembers.                                          *)
DlqId(c) == IF Message(c).defect = "unparsable" THEN "unknown" ELSE Message(c).id

DlqSend(c) ==
  /\ At(c, "dlqSend")
  /\ dlq' = IF DlqId(c) \in dlqRecent THEN dlq ELSE dlq \cup {session[c].copy}
  /\ dlqRecent' = dlqRecent \cup {DlqId(c)}
  /\ Goto(c, "dlqDelete")
  /\ UNCHANGED <<queue, database, stopping, answers>>

DlqDelete(c) ==
  /\ At(c, "dlqDelete")
  /\ Delete(c)
  /\ Finish(c)
  /\ UNCHANGED <<dlq, dlqRecent, database, stopping, answers>>

(* Mutant: the count is compared as if it started from zero. *)
RetryOneLess(c) ==
  /\ At(c, "retry")
  /\ IF session[c].count + 1 >= MaxReceive THEN Goto(c, "dlqSend") ELSE Finish(c)
  /\ UNCHANGED <<sqs, database, stopping, answers>>

(* retryMessage: changeMessageVisibility leaves the message hidden. *)
Retry(c) ==
  /\ At(c, "retry")
  /\ IF session[c].count >= MaxReceive THEN Goto(c, "dlqSend") ELSE Finish(c)
  /\ UNCHANGED <<sqs, database, stopping, answers>>

(* A call to SQS fails, because SQS does or because the receipt handle has *)
(* expired.  The first error goes to the catch block and to retryMessage,  *)
(* one of the catch block leaves the poll.                                 *)
CallFails(c) ==
  /\ session[c].pc \in {"ack", "retry", "dlqSend", "dlqDelete"}
  /\ IF session[c].caught THEN Finish(c)
     ELSE session' = [session EXCEPT ![c].pc = "retry", ![c].caught = TRUE]
  /\ UNCHANGED <<sqs, database, stopping, answers>>

(* The process dies: ROLLBACK, and the message stays hidden for a while. *)
Crash(c) ==
  /\ ~At(c, "idle")
  /\ Finish(c)
  /\ UNCHANGED <<sqs, database, stopping, answers>>

Step(c) ==
  \/ Release(c) \/ Take(c)
  \/ InsertInbox(c) \/ SkipDuplicate(c) \/ Apply(c) \/ ReplayCommand(c)
  \/ RefuseForGood(c) \/ RefuseAndAck(c) \/ FailTransiently(c) \/ Commit(c)
  \/ Ack(c) \/ DlqSend(c) \/ DlqDelete(c) \/ Retry(c) \/ CallFails(c)

RequestStep(c) ==
  Post(c) \/ Apply(c) \/ ReplayCommand(c) \/ Refused(c) \/ Commit(c) \/ Accepted(c) \/ Fails(c)

Next ==
  \/ \E c \in Consumers : Receive(c) \/ Step(c) \/ Stop(c) \/ Restart(c) \/ Crash(c)
  \/ \E c \in Callers : RequestStep(c) \/ Crash(c)
  \/ \E k \in Copies : Send(k) \/ VisibilityExpires(k) \/ Redrive(k)

Spec == Init /\ [][Next]_vars

-----------------------------------------------------------------------------
(* Properties *)

(* Every variable has its type. *)
TypeOK ==
  /\ queue \in [Copies -> [state : {"unsent", "visible", "hidden", "gone"},
                           receives : 0..MaxReceive]]
  /\ dlq \in SUBSET Copies
  /\ dlqRecent \in SUBSET (Ids \cup {"unknown"})
  /\ inbox \in SUBSET Ids
  /\ wagers \in [Keys -> Payloads \cup {None}]
  /\ effects \in [Keys -> Nat]
  /\ session \in [Sessions ->
       [pc : {"idle", "received", "inbox", "service", "commit", "ack", "retry",
              "dlqSend", "dlqDelete", "answer"},
        copy : Copies \cup Requests \cup {None}, count : 0..MaxReceive,
        caught : BOOLEAN, inserted : BOOLEAN, applied : BOOLEAN]]
  /\ stopping \in SUBSET Consumers
  /\ answers \in [Requests -> {"accepted", "refused", None}]

(* The order of its fields does not tell two payloads apart. *)
SameFields(p, q) ==
  /\ \A i \in DOMAIN p : \E j \in DOMAIN q : p[i] = q[j]
  /\ \A j \in DOMAIN q : \E i \in DOMAIN p : p[i] = q[j]

(* The command of a body is the one recorded under its key. *)
Recorded(body) == wagers[body.key] # None /\ SameFields(wagers[body.key], body.payload)

Gone(k) == queue[k].state = "gone"

InDlq(k) == \E j \in dlq : Body[j] = Body[k]

(* A message that has left the queue has its command committed, or its     *)
(* body is in the dead letter queue: it is deleted only after the COMMIT,  *)
(* whatever is redelivered, lost or killed in between (README.md:574).     *)
(* Malformed money is the exception classifyError makes.  A request that   *)
(* was accepted is committed as well.                                      *)
NothingLost ==
  /\ \A k \in Copies : Gone(k) /\ Body[k].defect # "money" =>
       Recorded(Body[k]) \/ InDlq(k)
  /\ \A q \in Requests : answers[q] = "accepted" => Recorded(Body[q])

(* Redelivery to an overlapping poll, or the same command posted meanwhile *)
(* or again, applies no command twice (README.md:578).                     *)
EffectOnce ==
  \A key \in Keys : effects[key] = IF wagers[key] = None THEN 0 ELSE 1

(* A message is in the dead letter queue because nothing can make it       *)
(* valid, or because it has been received as often as allowed.             *)
DlqHasReason ==
  \A k \in dlq :
    \/ Body[k].defect \in {"unparsable", "state"}
    \/ wagers[Body[k].key] # None /\ ~Recorded(Body[k])
    \/ queue[k].receives >= MaxReceive

(* A well-formed request is refused only if its key records another        *)
(* command, whoever brought that and in whatever order it wrote the fields *)
(* of this one (README.md:504, ARCHITECTURE.md:177).                       *)
ConflictHasCause ==
  \A q \in Requests : answers[q] = "refused" /\ Body[q].defect = "none" =>
    wagers[Body[q].key] # None /\ ~Recorded(Body[q])

(* An invalid payload goes to the dead letter queue (ARCHITECTURE.md:259). *)
InvalidReachesDlq ==
  \A k \in Copies : Gone(k) /\ Body[k].defect # "none" => InDlq(k)
=============================================================================

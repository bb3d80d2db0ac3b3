------------------------- MODULE WagerConsumerProofs -------------------------
(***************************************************************************)
(* A command is applied once, and refused only for another one; a message  *)
(* that is gone was answered for, and one in the dead letter queue belongs *)
(* there, for any number of polls, requests, messages and bodies.          *)
(*                                                                         *)
(* The argument is the unique key: a transaction that has inserted the     *)
(* wager of a key finds the key free until it ends (AppliedFirst), because *)
(* nobody else's insert of it goes on meanwhile (AppliedApart).  A poll    *)
(* knows, at each statement, why it may go on (Owed): what is committed or *)
(* in the dead letter queue stays there (Later), so the reason still holds *)
(* when it deletes the message.                                            *)
(***************************************************************************)
EXTENDS WagerConsumer, TLAPS

Labels == {"idle", "received", "inbox", "service", "commit", "ack", "retry",
           "dlqSend", "dlqDelete", "answer"}

SessionType ==
  [pc : Labels, copy : Copies \cup Requests \cup {None}, count : 0..MaxReceive,
   caught : BOOLEAN, inserted : BOOLEAN, applied : BOOLEAN]

(* A poll works on a message, a request on its body. *)
Holding ==
  /\ \A c \in Consumers : session[c].pc # "idle" => session[c].copy \in Copies
  /\ \A c \in Callers : session[c].pc # "idle" => session[c].copy \in Requests

AppliedFirst ==
  \A c \in Sessions : session[c].applied =>
    /\ session[c].pc = "commit"
    /\ wagers[Message(c).key] = None

AppliedApart ==
  \A c, d \in Sessions :
    c # d /\ session[c].applied /\ session[d].applied => Message(c).key # Message(d).key

Inv ==
  TypeOK /\ Holding /\ AppliedFirst /\ AppliedApart /\ EffectOnce /\ ConflictHasCause

(* Nothing has happened yet. *)
LEMMA InvInit == Init => Inv
<1> SUFFICES ASSUME Init PROVE Inv
  OBVIOUS
<1>1. Idle \in SessionType /\ Idle.pc = "idle" /\ Idle.applied = FALSE
  BY BoundsAssumption DEF Idle, SessionType, Labels
<1>2. \A c \in Sessions : session[c] = Idle
  BY DEF Init
<1>3. TypeOK
  <2>1. session \in [Sessions -> SessionType]
    BY <1>1 DEF Init
  <2>2. queue \in [Copies -> [state : {"unsent", "visible", "hidden", "gone"},
                              receives : 0..MaxReceive]]
    BY BoundsAssumption DEF Init
  <2> QED
    BY <2>1, <2>2 DEF Init, TypeOK, SessionType, Labels
<1>4. Holding /\ AppliedFirst /\ AppliedApart
  BY <1>1, <1>2 DEF Holding, AppliedFirst, AppliedApart, Sessions
<1>5. EffectOnce /\ ConflictHasCause
  BY BodyAssumption DEF Init, EffectOnce, ConflictHasCause
<1> QED
  BY <1>3, <1>4, <1>5 DEF Inv

-----------------------------------------------------------------------------
(* How a session moves *)

(* What any move keeps: only c moves, to a record that is typed and holds  *)
(* what c may hold. *)
Moves(c) ==
  /\ session' \in [Sessions -> SessionType]
  /\ Holding'
  /\ \A d \in Sessions \ {c} : session'[d] = session[d]

(* c is given a record of its type that holds what it may. *)
LEMMA SessionMoves ==
  ASSUME TypeOK, Holding, NEW c \in Sessions, NEW x \in SessionType,
         session' = [session EXCEPT ![c] = x],
         c \in Consumers => (x.pc # "idle" => x.copy \in Copies),
         c \in Callers => (x.pc # "idle" => x.copy \in Requests)
  PROVE  Moves(c) /\ session'[c] = x
BY DEF TypeOK, Holding, SessionType, Labels, Moves

(* The next label, with the draft kept. *)
LEMMA GotoMoves ==
  ASSUME TypeOK, Holding, NEW c \in Sessions, NEW label \in Labels,
         session[c].pc # "idle", Goto(c, label)
  PROVE  /\ Moves(c)
         /\ session'[c].copy = session[c].copy
         /\ session'[c].applied = session[c].applied
         /\ session'[c].pc = label
<1> DEFINE x == [session[c] EXCEPT !.pc = label]
<1>1. session[c] \in SessionType
  BY DEF TypeOK, SessionType, Labels
<1>2. /\ x \in SessionType /\ x.pc = label
      /\ x.copy = session[c].copy /\ x.applied = session[c].applied
  BY <1>1 DEF SessionType
<1>3. session' = [session EXCEPT ![c] = x]
  BY DEF Goto
<1>4. /\ c \in Consumers => x.copy \in Copies
      /\ c \in Callers => x.copy \in Requests
  BY <1>2 DEF Holding
<1> HIDE DEF x
<1> QED
  BY <1>2, <1>3, <1>4, SessionMoves

(* The end of the transaction, without a draft. *)
LEMMA EndMoves ==
  ASSUME TypeOK, Holding, NEW c \in Sessions, NEW label \in Labels,
         session[c].pc # "idle", EndAndGoto(c, label)
  PROVE  /\ Moves(c)
         /\ session'[c].copy = session[c].copy
         /\ session'[c].applied = FALSE
<1> DEFINE x == [session[c] EXCEPT !.pc = label, !.inserted = FALSE, !.applied = FALSE]
<1>1. session[c] \in SessionType
  BY DEF TypeOK, SessionType, Labels
<1>2. /\ x \in SessionType
      /\ x.copy = session[c].copy /\ x.applied = FALSE
  BY <1>1 DEF SessionType
<1>3. session' = [session EXCEPT ![c] = x]
  BY DEF EndAndGoto
<1>4. /\ c \in Consumers => x.copy \in Copies
      /\ c \in Callers => x.copy \in Requests
  BY <1>2 DEF Holding
<1> HIDE DEF x
<1> QED
  BY <1>2, <1>3, <1>4, SessionMoves

(* The catch block is entered, with the draft kept. *)
LEMMA CatchMoves ==
  ASSUME TypeOK, Holding, NEW c \in Sessions, NEW label \in Labels,
         session[c].pc # "idle",
         session' = [session EXCEPT ![c].pc = label, ![c].caught = TRUE]
  PROVE  Moves(c) /\ session'[c].applied = session[c].applied
<1> DEFINE x == [session[c] EXCEPT !.pc = label, !.caught = TRUE]
<1>1. session[c] \in SessionType
  BY DEF TypeOK, SessionType, Labels
<1>2. /\ x \in SessionType
      /\ x.copy = session[c].copy /\ x.applied = session[c].applied
  BY <1>1 DEF SessionType
<1>3. /\ c \in Consumers => x.copy \in Copies
      /\ c \in Callers => x.copy \in Requests
  BY <1>2 DEF Holding
<1>4. session' = [session EXCEPT ![c] = x]
  OBVIOUS
<1> HIDE DEF x
<1> QED
  BY <1>2, <1>3, <1>4, SessionMoves

(* The end of the poll or the request. *)
LEMMA FinishMoves ==
  ASSUME TypeOK, Holding, NEW c \in Sessions, Finish(c)
  PROVE  Moves(c) /\ session'[c].applied = FALSE
<1>1. Idle \in SessionType /\ Idle.pc = "idle" /\ Idle.applied = FALSE
  BY BoundsAssumption DEF Idle, SessionType, Labels
<1> QED
  BY <1>1, SessionMoves DEF Finish
-----------------------------------------------------------------------------
(* Steps of a session that leave the committed wagers and the answers as   *)
(* they are *)

Database == <<wagers, effects, answers>>

(* What the tables and the answers say stays true while they stay. *)
LEMMA EffectsStay ==
  ASSUME EffectOnce, ConflictHasCause, UNCHANGED Database
  PROVE  EffectOnce' /\ ConflictHasCause'
BY DEF EffectOnce, ConflictHasCause, Database, Recorded, SameFields

(* A session that ends up without a draft, or keeps the one it has. *)
LEMMA DraftsStay ==
  ASSUME Inv, NEW c \in Sessions, Moves(c), wagers' = wagers,
         \/ session'[c].applied = FALSE
         \/ /\ session'[c].applied = session[c].applied
            /\ session[c].pc # "commit"
  PROVE  AppliedFirst' /\ AppliedApart'
<1>1. session'[c].applied = FALSE
  BY DEF Inv, AppliedFirst, TypeOK
<1>2. \A d \in Sessions : session'[d].applied => d # c /\ session'[d] = session[d]
  BY <1>1 DEF Moves
<1>3. \A d \in Sessions : session'[d].applied => Message(d)' = Message(d)
  BY <1>2 DEF Message
<1> QED
  BY <1>2, <1>3 DEF Inv, AppliedFirst, AppliedApart

SqsType ==
  /\ queue \in [Copies -> [state : {"unsent", "visible", "hidden", "gone"},
                           receives : 0..MaxReceive]]
  /\ dlq \in SUBSET Copies
  /\ dlqRecent \in SUBSET (Ids \cup {"unknown"})
  /\ inbox \in SUBSET Ids
  /\ stopping \in SUBSET Consumers

(* Such a step keeps the invariant. *)
LEMMA QuietStep ==
  ASSUME Inv, NEW c \in Sessions, Moves(c), UNCHANGED Database, SqsType',
         \/ session'[c].applied = FALSE
         \/ /\ session'[c].applied = session[c].applied
            /\ session[c].pc # "commit"
  PROVE  Inv'
<1>1. TypeOK'
  BY DEF Inv, TypeOK, SqsType, Moves, SessionType, Labels, Database
<1>2. Holding'
  BY DEF Moves
<1> QED
  BY <1>1, <1>2, EffectsStay, DraftsStay DEF Inv, Database

(* A part of the type invariant. *)
LEMMA SqsTyped == Inv => SqsType
BY DEF Inv, TypeOK, SqsType

(* SQS acts by itself. *)
LEMMA QueueStep ==
  ASSUME Inv, SqsType', UNCHANGED <<session, Database>>
  PROVE  Inv'
<1>1. TypeOK' /\ Holding'
  BY DEF Inv, TypeOK, SqsType, Holding, Database
<1>2. AppliedFirst' /\ AppliedApart'
  BY DEF Inv, AppliedFirst, AppliedApart, Message, Database
<1> QED
  BY <1>1, <1>2, EffectsStay DEF Inv

(* A message is sent, appears again, or is moved by the queue. *)
LEMMA SqsSteps ==
  ASSUME Inv, NEW k \in Copies, Send(k) \/ VisibilityExpires(k) \/ Redrive(k)
  PROVE  Inv'
<1>1. SqsType
  BY SqsTyped
<1>2. UNCHANGED <<session, Database>>
  BY DEF Send, VisibilityExpires, Redrive, Database, database
<1>3. queue' \in [Copies -> [state : {"unsent", "visible", "hidden", "gone"},
                             receives : 0..MaxReceive]]
  <2>1. PICK state \in {"visible", "gone"} : queue' = [queue EXCEPT ![k].state = state]
    BY DEF Send, VisibilityExpires, Redrive
  <2> QED
    BY <1>1, <2>1 DEF SqsType
<1>4. SqsType'
  BY <1>1, <1>3 DEF SqsType, Send, VisibilityExpires, Redrive, database
<1> QED
  BY <1>2, <1>4, QueueStep

(* Instances stop and start. *)
LEMMA InstanceSteps ==
  ASSUME Inv, NEW c \in Consumers, Stop(c) \/ Restart(c)
  PROVE  Inv'
BY SqsTyped, QueueStep DEF Stop, Restart, SqsType, Database, database, sqs

(* The message of a poll is deleted. *)
LEMMA DeleteTyped ==
  ASSUME SqsType, NEW c \in Sessions, Delete(c)
  PROVE  queue' \in [Copies -> [state : {"unsent", "visible", "hidden", "gone"},
                                receives : 0..MaxReceive]]
BY DEF SqsType, Delete

(* A poll without its transaction. *)
LEMMA PollSteps ==
  ASSUME Inv, NEW c \in Consumers,
         \/ Receive(c) \/ Release(c) \/ Take(c)
         \/ Ack(c) \/ DlqSend(c) \/ DlqDelete(c) \/ Retry(c) \/ CallFails(c) \/ Crash(c)
  PROVE  Inv'
<1>1. TypeOK /\ Holding /\ SqsType /\ c \in Sessions
  BY SqsTyped DEF Inv, Sessions
<1>3. CASE Receive(c)
  <2>1. PICK k \in Copies :
          /\ queue[k].receives < MaxReceive
          /\ queue' = [queue EXCEPT ![k] = [state |-> "hidden", receives |-> @.receives + 1]]
          /\ session' = [session EXCEPT ![c] =
               [Idle EXCEPT !.pc = "received", !.copy = k, !.count = queue[k].receives + 1]]
    BY <1>3 DEF Receive
  <2>2. queue[k].receives + 1 \in 0..MaxReceive
    BY <1>1, <2>1, BoundsAssumption DEF SqsType
  <2> DEFINE x == [Idle EXCEPT !.pc = "received", !.copy = k,
                               !.count = queue[k].receives + 1]
  <2>3. x \in SessionType /\ x.copy = k /\ x.applied = FALSE
    BY <2>2 DEF Idle, SessionType, Labels
  <2>4. session' = [session EXCEPT ![c] = x]
    BY <2>1
  <2> HIDE DEF x
  <2>5. Moves(c) /\ session'[c] = x
    BY <1>1, <2>3, <2>4, SessionMoves, BodyAssumption
  <2>6. SqsType'
    BY <1>1, <1>3, <2>1, <2>2 DEF SqsType, Receive, database
  <2> QED
    BY <1>1, <1>3, <2>3, <2>5, <2>6, QuietStep DEF Receive, Database, database
<1>4. CASE Release(c)
  <2>1. SqsType'
    BY <1>1, <1>4 DEF SqsType, Release, database
  <2> QED
    BY <1>1, <1>4, <2>1, FinishMoves, QuietStep DEF Release, Database, database
<1>5. CASE Take(c)
  <2>1. CASE Goto(c, "inbox")
    <3>1. /\ Moves(c) /\ session'[c].applied = session[c].applied
          /\ session[c].pc # "commit"
      BY <1>1, <1>5, <2>1, GotoMoves DEF Take, At, Labels
    <3> QED
      BY <1>1, <1>5, <3>1, QuietStep DEF Take, SqsType, Database, database, sqs
  <2>2. CASE session' = [session EXCEPT ![c].pc = "dlqSend", ![c].caught = TRUE]
    <3>1. /\ Moves(c) /\ session'[c].applied = session[c].applied
          /\ session[c].pc # "commit"
      BY <1>1, <1>5, <2>2, CatchMoves DEF Take, At, Labels
    <3> QED
      BY <1>1, <1>5, <3>1, QuietStep DEF Take, SqsType, Database, database, sqs
  <2> QED
    BY <1>5, <2>1, <2>2 DEF Take
<1>6. CASE Ack(c) \/ DlqDelete(c)
  <2>1. SqsType'
    BY <1>1, <1>6, DeleteTyped DEF SqsType, Ack, DlqDelete, database
  <2> QED
    BY <1>1, <1>6, <2>1, FinishMoves, QuietStep DEF Ack, DlqDelete, Database, database
<1>7. CASE DlqSend(c)
  <2>1. session[c].copy \in Copies /\ session[c].pc = "dlqSend"
    BY <1>1, <1>7 DEF Holding, DlqSend, At
  <2>2. DlqId(c) \in Ids \cup {"unknown"}
    BY <2>1 DEF DlqId, Ids, Message
  <2>3. SqsType'
    BY <1>1, <1>7, <2>1, <2>2 DEF SqsType, DlqSend, database
  <2>4. Moves(c) /\ session'[c].applied = session[c].applied
    BY <1>1, <1>7, <2>1, GotoMoves DEF DlqSend, Labels
  <2> QED
    BY <1>1, <1>7, <2>1, <2>3, <2>4, QuietStep DEF DlqSend, Database, database
<1>8. CASE Retry(c)
  <2>1. CASE Finish(c)
    BY <1>1, <1>8, <2>1, FinishMoves, QuietStep
    DEF Retry, SqsType, Database, database, sqs
  <2>2. CASE Goto(c, "dlqSend")
    <3>1. /\ Moves(c) /\ session'[c].applied = session[c].applied
          /\ session[c].pc # "commit"
      BY <1>1, <1>8, <2>2, GotoMoves DEF Retry, At, Labels
    <3> QED
      BY <1>1, <1>8, <3>1, QuietStep DEF Retry, SqsType, Database, database, sqs
  <2> QED
    BY <1>8, <2>1, <2>2 DEF Retry
<1>9. CASE CallFails(c)
  <2>1. CASE Finish(c)
    BY <1>1, <1>9, <2>1, FinishMoves, QuietStep
    DEF CallFails, SqsType, Database, database, sqs
  <2>2. CASE session' = [session EXCEPT ![c].pc = "retry", ![c].caught = TRUE]
    <3>1. /\ Moves(c) /\ session'[c].applied = session[c].applied
          /\ session[c].pc # "commit"
      BY <1>1, <1>9, <2>2, CatchMoves DEF CallFails, At, Labels
    <3> QED
      BY <1>1, <1>9, <3>1, QuietStep DEF CallFails, SqsType, Database, database, sqs
  <2> QED
    BY <1>9, <2>1, <2>2 DEF CallFails
<1>10. CASE Crash(c)
  BY <1>1, <1>10, FinishMoves, QuietStep DEF Crash, SqsType, Database, database, sqs
<1> QED
  BY <1>3, <1>4, <1>5, <1>6, <1>7, <1>8, <1>9, <1>10

-----------------------------------------------------------------------------
(* Steps of a transaction, of a message or of a request *)

(* The insert of a wager is the first of its key and the only one. *)
LEMMA ApplyKeepsInv ==
  ASSUME Inv, NEW c \in Sessions, Apply(c)
  PROVE  Inv'
<1>1. TypeOK /\ Holding /\ SqsType
  BY SqsTyped DEF Inv
<1> DEFINE x == [session[c] EXCEPT !.pc = "commit", !.applied = TRUE]
<1>2. session[c] \in SessionType
  BY <1>1 DEF TypeOK, SessionType, Labels
<1>3. /\ x \in SessionType /\ x.pc = "commit" /\ x.applied = TRUE
      /\ x.copy = session[c].copy
  BY <1>2 DEF SessionType, Labels
<1>4. session' = [session EXCEPT ![c] = x]
  BY DEF Apply
<1>5. /\ c \in Consumers => x.copy \in Copies
      /\ c \in Callers => x.copy \in Requests
  BY <1>1, <1>3 DEF Holding, Apply, At
<1> HIDE DEF x
<1>6. Moves(c) /\ session'[c] = x
  BY <1>1, <1>3, <1>4, <1>5, SessionMoves
<1>7. /\ Message(c)' = Message(c)
      /\ \A d \in Sessions \ {c} : Message(d)' = Message(d)
  BY <1>3, <1>6 DEF Message, Moves
<1>8. AppliedFirst'
  BY <1>3, <1>6, <1>7 DEF Inv, AppliedFirst, Moves, Apply, database
<1>9. AppliedApart'
  BY <1>6, <1>7 DEF Inv, AppliedApart, Moves, Apply, WagerHeld
<1>10. TypeOK' /\ Holding'
  BY <1>1, <1>6 DEF TypeOK, Moves, SessionType, Labels, Apply, database, sqs
<1> QED
  BY <1>8, <1>9, <1>10, EffectsStay DEF Inv, Apply, Database, database

(* A COMMIT fills in a key that was free, once, and no answer is about it: *)
(* a request is refused for a key that is taken. *)
LEMMA CommitKeepsInv ==
  ASSUME Inv, NEW c \in Sessions, Commit(c)
  PROVE  Inv'
<1>1. TypeOK /\ Holding /\ SqsType
  BY SqsTyped DEF Inv
<1>2. session[c].pc = "commit"
  BY DEF Commit, At
<1>3. /\ session[c].copy \in Copies \cup Requests
      /\ c \in Consumers => session[c].copy \in Copies
  BY <1>1, <1>2 DEF Holding, Sessions
<1>4. /\ Message(c).key \in Keys /\ Message(c).payload \in Payloads
      /\ Message(c).payload # None
      /\ c \in Consumers => Message(c).id \in Ids
  BY <1>3, BodyAssumption DEF Message, Keys, Payloads, Ids
<1>5. Moves(c) /\ session'[c].applied = FALSE
  BY <1>1, <1>2, EndMoves DEF Commit, Labels
<1>6. \A d \in Sessions : session'[d].applied => d # c /\ session'[d] = session[d]
  BY <1>5 DEF Moves
<1>7. AppliedApart'
  BY <1>6 DEF Inv, AppliedApart, Message
<1>8. SqsType'
  BY <1>1, <1>4 DEF SqsType, Commit, sqs
<1>9. CASE ~session[c].applied
  <2>1. UNCHANGED Database
    BY <1>9 DEF Commit, Database
  <2> QED
    BY <2>1, <1>5, <1>8, QuietStep
<1>10. CASE session[c].applied
  <2> DEFINE key == Message(c).key
  <2>1. /\ wagers' = [wagers EXCEPT ![key] = Message(c).payload]
        /\ effects' = [effects EXCEPT ![key] = @ + 1]
        /\ answers' = answers
    BY <1>10 DEF Commit
  <2>2. wagers[key] = None /\ key \in Keys
    BY <1>4, <1>10 DEF Inv, AppliedFirst
  <2> HIDE DEF key
  <2>3. /\ wagers' \in [Keys -> Payloads \cup {None}]
        /\ effects' \in [Keys -> Nat]
    BY <1>1, <1>4, <2>1, <2>2 DEF TypeOK
  <2>4. TypeOK'
    BY <1>1, <1>5, <1>8, <2>1, <2>3 DEF TypeOK, SqsType, Moves, SessionType, Labels
  <2>5. AppliedFirst'
    <3>1. \A d \in Sessions : session'[d].applied =>
            Message(d).key # Message(c).key /\ Message(d)' = Message(d)
      BY <1>6, <1>10 DEF Inv, AppliedApart, Message
    <3>2. \A j \in Keys : j # key => wagers'[j] = wagers[j]
      BY <2>1, <1>1 DEF TypeOK
    <3>3. \A d \in Sessions : session'[d].applied => Message(d).key \in Keys
      BY <1>1, <1>6 DEF Inv, AppliedFirst, Holding, Message, Keys, Sessions
    <3> QED
      BY <1>6, <3>1, <3>2, <3>3 DEF Inv, AppliedFirst, key
  <2>6. EffectOnce'
    BY <1>1, <1>4, <2>1, <2>2 DEF Inv, EffectOnce, TypeOK, key
  <2>7. ConflictHasCause'
    <3>1. \A q \in Requests : wagers[Body[q].key] # None =>
            wagers'[Body[q].key] = wagers[Body[q].key]
      BY <1>1, <2>1, <2>2 DEF TypeOK, Keys
    <3> QED
      BY <2>1, <3>1 DEF Inv, ConflictHasCause, Recorded
  <2> QED
    BY <1>5, <1>7, <2>4, <2>5, <2>6, <2>7 DEF Inv, Moves
<1> QED
  BY <1>9, <1>10

(* The other statements of a transaction. *)
LEMMA TransactionSteps ==
  ASSUME Inv, NEW c \in Sessions,
         \/ InsertInbox(c) \/ SkipDuplicate(c) \/ ReplayCommand(c)
         \/ RefuseForGood(c) \/ RefuseAndAck(c) \/ FailTransiently(c)
  PROVE  Inv'
<1>1. TypeOK /\ Holding /\ SqsType
  BY SqsTyped DEF Inv
<1>2. SqsType' /\ UNCHANGED Database
  BY <1>1 DEF SqsType, Database, database, sqs, InsertInbox, SkipDuplicate,
    ReplayCommand, RefuseForGood, RefuseAndAck, FailTransiently
<1>3. CASE InsertInbox(c)
  <2> DEFINE x == [session[c] EXCEPT !.pc = "service", !.inserted = TRUE]
  <2>1. session[c] \in SessionType
    BY <1>1 DEF TypeOK, SessionType, Labels
  <2>2. /\ x \in SessionType
        /\ x.copy = session[c].copy /\ x.applied = session[c].applied
    BY <2>1 DEF SessionType, Labels
  <2>3. session' = [session EXCEPT ![c] = x]
    BY <1>3 DEF InsertInbox
  <2>4. /\ session[c].pc = "inbox"
        /\ c \in Consumers => x.copy \in Copies
        /\ c \in Callers => x.copy \in Requests
    BY <1>1, <1>3, <2>2 DEF Holding, InsertInbox, At
  <2> HIDE DEF x
  <2>5. Moves(c) /\ session'[c] = x
    BY <1>1, <2>2, <2>3, <2>4, SessionMoves
  <2> QED
    BY <1>2, <2>2, <2>4, <2>5, QuietStep
<1>4. CASE SkipDuplicate(c) \/ ReplayCommand(c)
  <2>1. PICK label \in {"ack", "commit"} : Goto(c, label)
    BY <1>4 DEF SkipDuplicate, ReplayCommand
  <2>2. session[c].pc \in {"inbox", "service"}
    BY <1>4 DEF SkipDuplicate, ReplayCommand, At
  <2>3. Moves(c) /\ session'[c].applied = session[c].applied
    BY <1>1, <2>1, <2>2, GotoMoves DEF Labels
  <2> QED
    BY <1>2, <2>2, <2>3, QuietStep
<1>5. CASE RefuseForGood(c) \/ RefuseAndAck(c) \/ FailTransiently(c)
  <2>1. PICK label \in {"dlqSend", "ack", "retry"} : EndAndGoto(c, label)
    BY <1>5 DEF RefuseForGood, RefuseAndAck, FailTransiently
  <2>2. session[c].pc # "idle"
    BY <1>5 DEF RefuseForGood, RefuseAndAck, FailTransiently, At
  <2>3. Moves(c) /\ session'[c].applied = FALSE
    BY <1>1, <2>1, <2>2, EndMoves DEF Labels
  <2> QED
    BY <1>2, <2>3, QuietStep
<1> QED
  BY <1>3, <1>4, <1>5

(* The payload recorded under the key of a refused request is another one: *)
(* the digests differ, and so do the fields. *)
LEMMA RefusalHasCause ==
  ASSUME NEW c \in Sessions, NEW q, session[c].copy = q, ~MatchesPayload(c),
         wagers[Message(c).key] # None
  PROVE  ~Recorded(Body[q])
BY DEF MatchesPayload, PayloadHash, Recorded, SameFields, Message

(* A request without the statements it shares with a message. *)
LEMMA CallerSteps ==
  ASSUME Inv, NEW c \in Callers,
         Post(c) \/ Refused(c) \/ Accepted(c) \/ Fails(c) \/ Crash(c)
  PROVE  Inv'
<1>1. TypeOK /\ Holding /\ SqsType /\ c \in Sessions /\ c \notin Consumers
  BY SqsTyped, BodyAssumption DEF Inv, Sessions
<1>2. SqsType' /\ UNCHANGED <<wagers, effects>>
  BY <1>1 DEF SqsType, database, sqs, Post, Refused, Accepted, Fails, Crash
<1>3. CASE Post(c)
  <2>1. PICK q \in Requests :
          session' = [session EXCEPT ![c] = [Idle EXCEPT !.pc = "service", !.copy = q]]
    BY <1>3 DEF Post
  <2> DEFINE x == [Idle EXCEPT !.pc = "service", !.copy = q]
  <2>2. x \in SessionType /\ x.copy = q /\ x.applied = FALSE
    <3>1. 0 \in 0..MaxReceive
      BY BoundsAssumption
    <3> QED
      BY <3>1 DEF Idle, SessionType, Labels
  <2>3. session' = [session EXCEPT ![c] = x]
    BY <2>1
  <2> HIDE DEF x
  <2>4. Moves(c) /\ session'[c] = x
    BY <1>1, <2>2, <2>3, SessionMoves
  <2> QED
    BY <1>1, <1>2, <1>3, <2>2, <2>4, QuietStep DEF Post, Database
<1>4. CASE Refused(c) \/ Accepted(c)
  <2> DEFINE q == session[c].copy
  <2>1. PICK answer \in {"refused", "accepted"} :
          /\ answers' = [answers EXCEPT ![q] = answer]
          /\ answer = "refused" => Refused(c)
    BY <1>4 DEF Refused, Accepted
  <2>2. q \in Requests
    BY <1>1, <1>4 DEF Holding, Refused, Accepted, At
  <2>3. Moves(c) /\ session'[c].applied = FALSE
    BY <1>1, <1>4, FinishMoves DEF Refused, Accepted
  <2>4. TypeOK' /\ Holding'
    BY <1>1, <1>2, <2>1, <2>3 DEF TypeOK, SqsType, Moves, SessionType, Labels
  <2>5. EffectOnce'
    BY <1>2 DEF Inv, EffectOnce
  <2>6. Refused(c) /\ Body[q].defect = "none" =>
          wagers[Body[q].key] # None /\ ~Recorded(Body[q])
    BY <1>1, RefusalHasCause DEF Refused, Message
  <2>7. ConflictHasCause'
    <3> SUFFICES ASSUME NEW r \in Requests, answers'[r] = "refused", Body[r].defect = "none"
                 PROVE  wagers[Body[r].key] # None /\ ~Recorded(Body[r])
      BY <1>2 DEF ConflictHasCause, Recorded
    <3>1. CASE r = q
      BY <1>1, <2>1, <2>2, <2>6, <3>1 DEF TypeOK
    <3>2. CASE r # q
      BY <2>1, <3>2 DEF Inv, ConflictHasCause, TypeOK
    <3> QED
      BY <3>1, <3>2
  <2> QED
    BY <1>1, <1>2, <2>3, <2>4, <2>5, <2>7, DraftsStay DEF Inv
<1>5. CASE Fails(c) \/ Crash(c)
  <2>1. Moves(c) /\ session'[c].applied = FALSE
    BY <1>1, <1>5, FinishMoves DEF Fails, Crash
  <2> QED
    BY <1>1, <1>2, <1>5, <2>1, QuietStep DEF Fails, Crash, Database
<1> QED
  BY <1>3, <1>4, <1>5

-----------------------------------------------------------------------------
(* Every step keeps the invariant. *)
THEOREM InvStep == Inv /\ [Next]_vars => Inv'
<1> SUFFICES ASSUME Inv, [Next]_vars PROVE Inv'
  OBVIOUS
<1> USE DEF Sessions
<1>1. CASE \E c \in Consumers : Receive(c) \/ Step(c) \/ Stop(c) \/ Restart(c) \/ Crash(c)
  <2>1. PICK c \in Consumers : Receive(c) \/ Step(c) \/ Stop(c) \/ Restart(c) \/ Crash(c)
    BY <1>1
  <2> QED
    BY <2>1, PollSteps, InstanceSteps, TransactionSteps, ApplyKeepsInv, CommitKeepsInv
    DEF Step
<1>2. CASE \E c \in Callers : RequestStep(c) \/ Crash(c)
  <2>1. PICK c \in Callers : RequestStep(c) \/ Crash(c)
    BY <1>2
  <2> QED
    BY <2>1, CallerSteps, TransactionSteps, ApplyKeepsInv, CommitKeepsInv DEF RequestStep
<1>3. CASE \E k \in Copies : Send(k) \/ VisibilityExpires(k) \/ Redrive(k)
  BY <1>3, SqsSteps
<1>4. CASE UNCHANGED vars
  BY <1>4, SqsTyped, QueueStep DEF vars, SqsType, Database
<1> QED
  BY <1>1, <1>2, <1>3, <1>4 DEF Next

(* The invariant holds in every behavior. *)
THEOREM InvHolds == Spec => []Inv
BY InvInit, InvStep, PTL DEF Spec

(* Every variable has its type, for any number of polls, requests and      *)
(* messages. *)
THEOREM ConsumerTyped == Spec => []TypeOK
<1>1. Inv => TypeOK
  BY DEF Inv
<1> QED
  BY <1>1, InvHolds, PTL

(* However often a command is sent, redelivered, posted or retried, and by *)
(* whichever way, it is applied once (README.md:578). *)
THEOREM CommandOnce == Spec => []EffectOnce
<1>1. Inv => EffectOnce
  BY DEF Inv
<1> QED
  BY <1>1, InvHolds, PTL

(* No request is refused but for its own defect or for another command     *)
(* under its key, in whatever order its fields are (README.md:504). *)
THEOREM RefusedForCause == Spec => []ConflictHasCause
<1>1. Inv => ConflictHasCause
  BY DEF Inv
<1> QED
  BY <1>1, InvHolds, PTL

-----------------------------------------------------------------------------
(* What becomes of the messages                                            *)
(*                                                                         *)
(* A message waits at a label with what the next call relies on already    *)
(* true (Owed): it is acknowledged once its command is recorded, sent to   *)
(* the dead letter queue for a reason, and deleted once it is there.  None *)
(* of that is ever undone (Later), however long the call takes.            *)

(* What the dead letter queue knows a message by. *)
IdOf(k) == IF Body[k].defect = "unparsable" THEN "unknown" ELSE Body[k].id

(* The sender gives every body an id of its own, and at most one body is   *)
(* unparsable: the run DlqDropped shows what happens otherwise.            *)
IdsTell == \A j, k \in Copies : IdOf(j) = IdOf(k) => Body[j] = Body[k]

HasReason(k) ==
  \/ Body[k].defect \in {"unparsable", "state"}
  \/ wagers[Body[k].key] # None /\ ~Recorded(Body[k])
  \/ queue[k].receives >= MaxReceive

OwedByPoll(c) ==
  /\ ~At(c, "idle") => session[c].count <= queue[session[c].copy].receives
  /\ session[c].pc \in {"inbox", "service", "commit"} => Message(c).defect # "unparsable"
  /\ At(c, "ack") => (IdsTell => Message(c).defect = "money" \/ Recorded(Message(c)))
  /\ At(c, "dlqSend") => HasReason(session[c].copy)
  /\ At(c, "dlqDelete") => (IdsTell => InDlq(session[c].copy))

Owed(c) ==
  /\ At(c, "commit") => session[c].applied \/ Recorded(Message(c))
  /\ At(c, "answer") => Recorded(Message(c))
  /\ c \in Consumers => OwedByPoll(c)

(* The ids in the inbox are those of recorded commands. *)
InboxRecorded ==
  \A k \in Copies : Body[k].defect # "unparsable" /\ Body[k].id \in inbox =>
    (IdsTell => Recorded(Body[k]))

(* The dead letter queue remembers ids of what it holds. *)
DlqRemembers == \A id \in dlqRecent : \E j \in dlq : IdOf(j) = id

MessageInv ==
  /\ Inv
  /\ \A c \in Sessions : Owed(c)
  /\ InboxRecorded /\ DlqRemembers
  /\ IdsTell => NothingLost
  /\ DlqHasReason

(* Nothing has been received. *)
LEMMA MessageInvInit == Init => MessageInv
<1> SUFFICES ASSUME Init PROVE MessageInv
  OBVIOUS
<1>1. \A c \in Sessions : session[c].pc = "idle"
  BY DEF Init, Idle
<1>2. \A c \in Sessions : Owed(c)
  BY <1>1 DEF Owed, OwedByPoll, At
<1>3. InboxRecorded /\ DlqRemembers /\ DlqHasReason
  BY DEF Init, InboxRecorded, DlqRemembers, DlqHasReason
<1>4. NothingLost
  BY BodyAssumption DEF Init, NothingLost, Gone
<1> QED
  BY <1>2, <1>3, <1>4, InvInit DEF MessageInv

(* What a step leaves true of commands, messages and the dead letter queue. *)
Later ==
  /\ \A k \in Copies \cup Requests :
       wagers[Body[k].key] # None =>
         /\ wagers'[Body[k].key] # None
         /\ Recorded(Body[k])' <=> Recorded(Body[k])
  /\ dlq \subseteq dlq'
  /\ \A k \in Copies : queue[k].receives <= queue'[k].receives

(* The steps that change neither the wagers nor the messages. *)
LEMMA LaterIfUnchanged ==
  ASSUME Inv, UNCHANGED <<wagers, dlq, queue>>
  PROVE  Later
BY DEF Inv, TypeOK, Later, Recorded, SameFields

(* A wager is recorded for good, the dead letter queue keeps what it has,  *)
(* and receives are only counted up.                                       *)
LEMMA NextIsLater ==
  ASSUME Inv, [Next]_vars
  PROVE  Later
<1>1. queue \in [Copies -> [state : {"unsent", "visible", "hidden", "gone"},
                            receives : 0..MaxReceive]]
  BY DEF Inv, TypeOK
<1>2. \A k \in Copies : queue[k].receives \in Nat
  BY <1>1
<1>3. CASE UNCHANGED vars
  BY <1>3, LaterIfUnchanged DEF vars
<1>4. ASSUME NEW k \in Copies, Send(k) \/ VisibilityExpires(k) \/ Redrive(k)
      PROVE  Later
  <2>1. wagers' = wagers /\ dlq \subseteq dlq'
    BY <1>4 DEF Send, VisibilityExpires, Redrive, database
  <2>2. PICK state : queue' = [queue EXCEPT ![k].state = state]
    BY <1>4 DEF Send, VisibilityExpires, Redrive
  <2>3. \A j \in Copies : queue'[j].receives = queue[j].receives
    BY <1>1, <2>2
  <2> QED
    BY <1>2, <2>1, <2>3 DEF Later, Recorded, SameFields
<1>5. ASSUME NEW c \in Consumers, Receive(c) \/ Release(c) \/ Ack(c) \/ DlqDelete(c)
      PROVE  Later
  <2>1. wagers' = wagers /\ dlq' = dlq
    BY <1>5 DEF Receive, Release, Ack, DlqDelete, database
  <2>2. \A j \in Copies : queue[j].receives <= queue'[j].receives
    <3>1. CASE Receive(c)
      BY <1>1, <1>2, <3>1 DEF Receive
    <3>2. CASE ~Receive(c)
      <4>1. \/ queue' = queue
            \/ \E k, state : queue' = [queue EXCEPT ![k].state = state]
        BY <1>5, <3>2 DEF Release, Ack, DlqDelete, Delete
      <4>2. ASSUME NEW k, NEW state, queue' = [queue EXCEPT ![k].state = state]
            PROVE  \A j \in Copies : queue'[j].receives = queue[j].receives
        BY <1>1, <4>2
      <4> QED
        BY <1>2, <4>1, <4>2
    <3> QED
      BY <3>1, <3>2
  <2> QED
    BY <2>1, <2>2 DEF Later, Recorded, SameFields
<1>6. ASSUME NEW c \in Consumers, DlqSend(c)
      PROVE  Later
  BY <1>2, <1>6 DEF DlqSend, database, Later, Recorded, SameFields
<1>7. ASSUME NEW c \in Sessions, Commit(c)
      PROVE  Later
  <2>1. dlq' = dlq /\ queue' = queue
    BY <1>7 DEF Commit, sqs
  <2>2. \A k \in Copies \cup Requests :
          wagers[Body[k].key] # None => wagers'[Body[k].key] = wagers[Body[k].key]
    BY <1>7 DEF Commit, Inv, AppliedFirst, TypeOK, Keys
  <2> QED
    BY <1>2, <2>1, <2>2 DEF Later, Recorded, SameFields
<1>8. ASSUME NEW c \in Sessions,
             \/ Stop(c) \/ Restart(c) \/ Crash(c) \/ Take(c) \/ InsertInbox(c)
             \/ SkipDuplicate(c) \/ Apply(c) \/ ReplayCommand(c) \/ RefuseForGood(c)
             \/ RefuseAndAck(c) \/ FailTransiently(c) \/ Retry(c) \/ CallFails(c)
             \/ Post(c) \/ Refused(c) \/ Accepted(c) \/ Fails(c)
      PROVE  Later
  <2>1. UNCHANGED <<wagers, dlq, queue>>
    BY <1>8 DEF Stop, Restart, Crash, Take, InsertInbox, SkipDuplicate, Apply,
      ReplayCommand, RefuseForGood, RefuseAndAck, FailTransiently, Retry, CallFails,
      Post, Refused, Accepted, Fails, sqs, database
  <2> QED
    BY <2>1, LaterIfUnchanged
<1> QED
  BY <1>3, <1>4, <1>5, <1>6, <1>7, <1>8 DEF Next, Step, RequestStep, Sessions

(* A reason for the dead letter queue remains one. *)
LEMMA ReasonsStay ==
  ASSUME Inv, Later, NEW k \in Copies, Inv', HasReason(k)
  PROVE  HasReason(k)'
<1>1. queue[k].receives \in Nat /\ queue'[k].receives \in Nat /\ MaxReceive \in Nat
  BY BoundsAssumption DEF Inv, TypeOK
<1> QED
  BY <1>1 DEF Later, HasReason

(* What is owed to a session stays true while others step. *)
LEMMA OwedStays ==
  ASSUME Inv, Inv', Later, NEW c \in Sessions, Owed(c), session'[c] = session[c]
  PROVE  Owed(c)'
<1> USE DEF Sessions
<1>1. /\ Message(c)' = Message(c)
      /\ \A label : At(c, label)' <=> At(c, label)
  BY DEF Message, At
<1>2. session[c].pc # "idle" =>
        /\ session[c].copy \in Copies \cup Requests
        /\ Message(c) = Body[session[c].copy]
        /\ c \in Consumers => session[c].copy \in Copies
  BY DEF Inv, Holding, Message
<1>3. session[c].pc # "idle" => (Recorded(Message(c)) => Recorded(Message(c))')
  <2>1. ASSUME NEW k \in Copies \cup Requests, Recorded(Body[k]) PROVE Recorded(Body[k])'
    BY <2>1 DEF Later, Recorded
  <2> QED
    BY <1>1, <1>2, <2>1 DEF Recorded
<1>4. ASSUME c \in Consumers PROVE OwedByPoll(c)'
  <2>1. PICK k : k = session[c].copy
    OBVIOUS
  <2>2. OwedByPoll(c) /\ (~At(c, "idle") => k \in Copies)
    BY <1>2, <1>4, <2>1 DEF Owed, At
  <2>3. k \in Copies => (HasReason(k) => HasReason(k)')
    BY ReasonsStay
  <2>4. InDlq(k) => InDlq(k)'
    BY DEF Later, InDlq
  <2>5. ~At(c, "idle") => session[c].count <= queue'[k].receives
    <3>1. k \in Copies => queue[k].receives \in Nat /\ queue'[k].receives \in Nat
      BY DEF Inv, TypeOK
    <3>2. session[c].count \in Nat
      BY BoundsAssumption DEF Inv, TypeOK
    <3> QED
      BY <2>1, <2>2, <3>1, <3>2 DEF OwedByPoll, Later
  <2> QED
    BY <1>1, <1>3, <2>1, <2>2, <2>3, <2>4, <2>5 DEF OwedByPoll, At, HasReason
<1> QED
  BY <1>1, <1>3, <1>4 DEF Owed, At

(* Any way to go on at another label with the same message. *)
GoesTo(c, label) ==
  \/ Goto(c, label)
  \/ EndAndGoto(c, label)
  \/ session' = [session EXCEPT ![c].pc = label, ![c].caught = TRUE]
  \/ session' = [session EXCEPT ![c].pc = label, ![c].inserted = TRUE]
  \/ session' = [session EXCEPT ![c].pc = label, ![c].applied = TRUE]

(* It still owes the receive it has counted. *)
LEMMA GoesOn ==
  ASSUME Inv, Inv', Later, NEW c \in Sessions, Owed(c), ~At(c, "idle"),
         NEW label, GoesTo(c, label)
  PROVE  /\ \A l : At(c, l)' <=> l = label
         /\ session'[c].pc = label /\ session'[c].copy = session[c].copy
         /\ Message(c)' = Message(c)
         /\ c \in Consumers => /\ session[c].copy \in Copies
                              /\ session'[c].count <= queue'[session[c].copy].receives
<1>1. session \in [Sessions -> SessionType]
  BY DEF Inv, TypeOK, SessionType, Labels
<1>2. /\ session'[c].pc = label /\ session'[c].copy = session[c].copy
      /\ session'[c].count = session[c].count
  BY <1>1 DEF GoesTo, Goto, EndAndGoto, SessionType
<1>3. ASSUME c \in Consumers
      PROVE  /\ session[c].copy \in Copies
             /\ session'[c].count <= queue'[session[c].copy].receives
  <2>1. session[c].copy \in Copies
    BY <1>3 DEF Inv, Holding, At
  <2>2. session[c].count <= queue[session[c].copy].receives
    BY <1>3 DEF Owed, OwedByPoll
  <2>3. /\ session[c].count \in Nat
        /\ queue[session[c].copy].receives \in Nat
        /\ queue'[session[c].copy].receives \in Nat
        /\ queue[session[c].copy].receives <= queue'[session[c].copy].receives
    BY <2>1, BoundsAssumption DEF Inv, TypeOK, Later
  <2> QED
    BY <1>2, <2>1, <2>2, <2>3
<1> QED
  BY <1>2, <1>3 DEF At, Message

(* A poll that is over is owed nothing. *)
LEMMA FinishedIsOwedNothing ==
  ASSUME Inv, NEW c \in Sessions, Finish(c)
  PROVE  Owed(c)'
<1>1. session'[c].pc = "idle"
  BY DEF Finish, Idle, Inv, TypeOK
<1> QED
  BY <1>1 DEF Owed, OwedByPoll, At

(* Outside its transaction: what is received counts as a receive, and what *)
(* is received too often has its reason for the dead letter queue.         *)
LEMMA PollOwed ==
  ASSUME MessageInv, Inv', Later, NEW c \in Consumers,
         \/ Receive(c) \/ Release(c) \/ Take(c)
         \/ Ack(c) \/ DlqSend(c) \/ DlqDelete(c) \/ Retry(c) \/ CallFails(c) \/ Crash(c)
  PROVE  Owed(c)'
<1>1. Inv /\ c \in Sessions /\ Owed(c)
  BY DEF MessageInv, Sessions
<1>2. CASE Finish(c)
  BY <1>1, <1>2, FinishedIsOwedNothing
<1>3. CASE Receive(c)
  <2>1. PICK k \in Copies :
          /\ queue' = [queue EXCEPT ![k] = [state |-> "hidden", receives |-> @.receives + 1]]
          /\ session' = [session EXCEPT ![c] =
               [Idle EXCEPT !.pc = "received", !.copy = k, !.count = queue[k].receives + 1]]
    BY <1>3 DEF Receive
  <2>2. session'[c].pc = "received" /\ session'[c].copy = k
        /\ session'[c].count = queue[k].receives + 1
    BY <1>1, <2>1 DEF Idle, Inv, TypeOK
  <2>3. queue'[k].receives = queue[k].receives + 1 /\ queue[k].receives \in Nat
    BY <1>1, <2>1, BoundsAssumption DEF Inv, TypeOK
  <2> QED
    BY <2>2, <2>3 DEF Owed, OwedByPoll, At
<1>4. CASE Take(c)
  <2>1. PICK label : /\ ~At(c, "idle") /\ GoesTo(c, label)
                     /\ \/ label = "dlqSend" /\ Message(c).defect = "unparsable"
                        \/ label = "inbox" /\ Message(c).defect # "unparsable"
    BY <1>4 DEF Take, At, GoesTo
  <2>2. /\ \A l : At(c, l)' <=> l = label
        /\ session'[c].pc = label /\ session'[c].copy = session[c].copy
        /\ Message(c)' = Message(c) /\ Message(c) = Body[session[c].copy]
        /\ session'[c].count <= queue'[session[c].copy].receives
    BY <1>1, <2>1, GoesOn DEF Message
  <2> QED
    BY <2>1, <2>2 DEF Owed, OwedByPoll, HasReason
<1>5. CASE DlqSend(c)
  <2>1. ~At(c, "idle") /\ GoesTo(c, "dlqDelete")
    BY <1>5 DEF DlqSend, At, GoesTo
  <2>2. /\ \A l : At(c, l)' <=> l = "dlqDelete"
        /\ session'[c].pc = "dlqDelete" /\ session'[c].copy = session[c].copy
        /\ session[c].copy \in Copies
        /\ session'[c].count <= queue'[session[c].copy].receives
    BY <1>1, <2>1, GoesOn
  <2>3. IdsTell => InDlq(session[c].copy)'
    <3> SUFFICES ASSUME IdsTell PROVE \E j \in dlq' : Body[j] = Body[session[c].copy]
      BY <2>2 DEF InDlq
    <3>1. DlqId(c) = IdOf(session[c].copy)
      BY DEF DlqId, IdOf, Message
    <3>2. CASE DlqId(c) \in dlqRecent
      <4>1. PICK j \in dlq : IdOf(j) = IdOf(session[c].copy)
        BY <3>1, <3>2 DEF MessageInv, DlqRemembers
      <4>2. j \in Copies
        BY <1>1, <4>1 DEF Inv, TypeOK
      <4> QED
        BY <2>2, <4>1, <4>2 DEF IdsTell, Later
    <3>3. CASE DlqId(c) \notin dlqRecent
      BY <1>5, <3>3 DEF DlqSend
    <3> QED
      BY <3>2, <3>3
  <2> QED
    BY <2>2, <2>3 DEF Owed, OwedByPoll, InDlq
<1>6. CASE Retry(c) /\ ~Finish(c)
  <2>1. /\ ~At(c, "idle") /\ GoesTo(c, "dlqSend") /\ session[c].count >= MaxReceive
        /\ queue' = queue
    BY <1>6 DEF Retry, At, GoesTo, sqs
  <2>2. /\ \A l : At(c, l)' <=> l = "dlqSend"
        /\ session'[c].pc = "dlqSend" /\ session'[c].copy = session[c].copy
        /\ session[c].copy \in Copies
        /\ session'[c].count <= queue'[session[c].copy].receives
    BY <1>1, <2>1, GoesOn
  <2>3. HasReason(session[c].copy)'
    <3>1. session[c].count <= queue[session[c].copy].receives
      BY <1>1, <2>1 DEF Owed, OwedByPoll
    <3>2. session[c].count \in Nat /\ queue[session[c].copy].receives \in Nat
          /\ MaxReceive \in Nat
      BY <1>1, <2>2, BoundsAssumption DEF Inv, TypeOK
    <3> QED
      BY <2>1, <2>2, <3>1, <3>2 DEF HasReason
  <2> QED
    BY <2>2, <2>3 DEF Owed, OwedByPoll, HasReason
<1>7. CASE CallFails(c) /\ ~Finish(c)
  <2>1. ~At(c, "idle") /\ GoesTo(c, "retry")
    BY <1>7 DEF CallFails, At, GoesTo
  <2> QED
    BY <1>1, <2>1, GoesOn DEF Owed, OwedByPoll
<1> QED
  BY <1>2, <1>3, <1>4, <1>5, <1>6, <1>7 DEF Release, Ack, DlqDelete, Crash, Retry, CallFails

(* What a commit leaves under the key of its message. *)
LEMMA CommitRecords ==
  ASSUME MessageInv, NEW c \in Sessions, Commit(c), Later
  PROVE  Recorded(Message(c))'
<1>1. /\ session[c].pc = "commit" /\ Inv /\ Owed(c)
      /\ session[c].copy \in Copies \cup Requests
  BY DEF Commit, At, MessageInv, Inv, Holding, Sessions
<1>2. PICK k \in Copies \cup Requests : k = session[c].copy
  BY <1>1
<1>3. Message(c) = Body[k] /\ Body[k].key \in Keys /\ Body[k].payload # None
  BY <1>2, BodyAssumption DEF Message, Keys
<1>4. Recorded(Body[k])'
  <2>1. CASE session[c].applied
    <3>1. wagers'[Body[k].key] = Body[k].payload
      BY <1>1, <1>3, <2>1 DEF Commit, Inv, TypeOK
    <3> QED
      BY <1>3, <3>1 DEF Recorded, SameFields
  <2>2. CASE ~session[c].applied
    <3>1. Recorded(Body[k])
      BY <1>1, <1>3, <2>2 DEF Owed, At
    <3> QED
      BY <3>1 DEF Later, Recorded
  <2> QED
    BY <2>1, <2>2
<1>5. session'[c].copy = k
  BY <1>1, <1>2 DEF Commit, EndAndGoto, Inv, TypeOK
<1> QED
  BY <1>4, <1>5 DEF Recorded, Message

(* In its transaction, as a message or a request. *)
LEMMA TransactionOwed ==
  ASSUME MessageInv, Inv', Later, NEW c \in Sessions,
         \/ InsertInbox(c) \/ SkipDuplicate(c) \/ Apply(c) \/ ReplayCommand(c)
         \/ RefuseForGood(c) \/ RefuseAndAck(c) \/ FailTransiently(c) \/ Commit(c)
  PROVE  Owed(c)'
<1>1. Inv /\ Owed(c) /\ Message(c) = Body[session[c].copy]
  BY DEF MessageInv, Message
<1>2. ASSUME NEW label, GoesTo(c, label), ~At(c, "idle")
      PROVE  /\ \A l : At(c, l)' <=> l = label
             /\ session'[c].pc = label /\ session'[c].copy = session[c].copy
             /\ Message(c)' = Message(c)
             /\ c \in Consumers =>
                  /\ session[c].copy \in Copies
                  /\ session'[c].count <= queue'[session[c].copy].receives
  BY <1>1, <1>2, GoesOn
<1>3. CASE InsertInbox(c)
  <2>1. GoesTo(c, "service") /\ ~At(c, "idle") /\ session[c].pc = "inbox"
    BY <1>3 DEF InsertInbox, At, GoesTo
  <2> QED
    BY <1>1, <1>2, <2>1 DEF Owed, OwedByPoll
<1>4. CASE SkipDuplicate(c)
  <2>1. GoesTo(c, "ack") /\ ~At(c, "idle") /\ session[c].pc = "inbox" /\ wagers' = wagers
        /\ Message(c).id \in inbox
    BY <1>4 DEF SkipDuplicate, At, GoesTo, database
  <2>2. c \in Consumers => (IdsTell => Recorded(Message(c)))
    BY <1>1, <1>2, <2>1 DEF Owed, OwedByPoll, MessageInv, InboxRecorded
  <2> QED
    BY <1>2, <2>1, <2>2 DEF Owed, OwedByPoll, Recorded
<1>5. CASE Apply(c)
  <2>1. GoesTo(c, "commit") /\ ~At(c, "idle") /\ session[c].pc = "service"
        /\ session'[c].applied = TRUE
    BY <1>1, <1>5 DEF Apply, At, GoesTo, Inv, TypeOK
  <2> QED
    BY <1>1, <1>2, <2>1 DEF Owed, OwedByPoll
<1>6. CASE ReplayCommand(c)
  <2>1. GoesTo(c, "commit") /\ ~At(c, "idle") /\ session[c].pc = "service" /\ wagers' = wagers
    BY <1>6 DEF ReplayCommand, At, GoesTo, database
  <2>2. Recorded(Message(c))
    BY <1>6 DEF ReplayCommand, MatchesPayload, PayloadHash, Recorded, SameFields
  <2> QED
    BY <1>1, <1>2, <2>1, <2>2 DEF Owed, OwedByPoll, Recorded
<1>7. CASE RefuseForGood(c)
  <2>1. GoesTo(c, "dlqSend") /\ ~At(c, "idle") /\ UNCHANGED <<wagers, queue>>
    BY <1>7 DEF RefuseForGood, At, GoesTo, database, sqs
  <2>2. HasReason(session[c].copy)
    BY <1>1, <1>7, RefusalHasCause DEF RefuseForGood, HasReason
  <2> QED
    BY <1>2, <2>1, <2>2 DEF Owed, OwedByPoll, HasReason, Recorded
<1>8. CASE RefuseAndAck(c)
  <2>1. GoesTo(c, "ack") /\ ~At(c, "idle") /\ Message(c).defect = "money"
    BY <1>8 DEF RefuseAndAck, At, GoesTo
  <2> QED
    BY <1>2, <2>1 DEF Owed, OwedByPoll
<1>9. CASE FailTransiently(c)
  <2>1. GoesTo(c, "retry") /\ ~At(c, "idle")
    BY <1>9 DEF FailTransiently, At, GoesTo
  <2> QED
    BY <1>2, <2>1 DEF Owed, OwedByPoll
<1>10. CASE Commit(c)
  <2>1. PICK label \in {"ack", "answer"} : GoesTo(c, label) /\ ~At(c, "idle")
    BY <1>10 DEF Commit, At, GoesTo
  <2>2. Recorded(Message(c))'
    BY <1>10, CommitRecords
  <2> QED
    BY <1>2, <2>1, <2>2 DEF Owed, OwedByPoll
<1> QED
  BY <1>3, <1>4, <1>5, <1>6, <1>7, <1>8, <1>9, <1>10

(* A request is either begun or over. *)
LEMMA CallerOwed ==
  ASSUME MessageInv, NEW c \in Callers,
         Post(c) \/ Refused(c) \/ Accepted(c) \/ Fails(c) \/ Crash(c)
  PROVE  Owed(c)'
<1>1. Inv /\ c \in Sessions /\ c \notin Consumers
  BY BodyAssumption DEF MessageInv, Sessions
<1>2. CASE Post(c)
  <2>1. PICK q : session' = [session EXCEPT ![c] = [Idle EXCEPT !.pc = "service", !.copy = q]]
    BY <1>2 DEF Post
  <2>2. [Idle EXCEPT !.pc = "service", !.copy = q].pc = "service"
    BY DEF Idle
  <2>3. session'[c].pc = "service"
    BY <1>1, <2>1, <2>2 DEF Inv, TypeOK
  <2> QED
    BY <1>1, <2>3 DEF Owed, At
<1> QED
  BY <1>1, <1>2, FinishedIsOwedNothing DEF Refused, Accepted, Fails, Crash

(* A step of one session leaves the record of another alone. *)
LEMMA OthersStay ==
  ASSUME Inv, NEW d \in Sessions, NEW c \in Sessions, c # d,
         Receive(d) \/ Step(d) \/ RequestStep(d) \/ Crash(d)
  PROVE  session'[c] = session[c]
<1>1. session \in [Sessions -> SessionType]
  BY DEF Inv, TypeOK, SessionType, Labels
<1>2. \/ Finish(d) \/ \E label : GoesTo(d, label)
      \/ \E x : session' = [session EXCEPT ![d] = x]
  BY DEF Receive, Step, RequestStep, Crash, Release, Take, InsertInbox, SkipDuplicate,
    Apply, ReplayCommand, RefuseForGood, RefuseAndAck, FailTransiently, Commit, Ack,
    DlqSend, DlqDelete, Retry, CallFails, Post, Refused, Accepted, Fails, GoesTo
<1> QED
  BY <1>1, <1>2 DEF Finish, GoesTo, Goto, EndAndGoto

(* Every session is owed what its next call relies on. *)
LEMMA NextKeepsOwed ==
  ASSUME MessageInv, Inv', Later, [Next]_vars
  PROVE  \A c \in Sessions : Owed(c)'
<1> SUFFICES ASSUME NEW c \in Sessions PROVE Owed(c)'
  OBVIOUS
<1>1. Inv /\ Owed(c)
  BY DEF MessageInv
<1>2. CASE session'[c] = session[c]
  BY <1>1, <1>2, OwedStays
<1>4. ASSUME NEW d \in Consumers, Receive(d) \/ Step(d) \/ Crash(d) PROVE Owed(c)'
  <2>1. CASE d = c
    BY <1>4, <2>1, PollOwed, TransactionOwed DEF Step, Sessions
  <2>2. CASE d # c
    <3>1. session'[c] = session[c]
      BY <1>1, <1>4, <2>2, OthersStay DEF Sessions
    <3> QED
      BY <1>2, <3>1
  <2> QED
    BY <2>1, <2>2
<1>5. ASSUME NEW d \in Callers, RequestStep(d) \/ Crash(d) PROVE Owed(c)'
  <2>1. CASE d = c
    BY <1>5, <2>1, CallerOwed, TransactionOwed DEF RequestStep, Sessions
  <2>2. CASE d # c
    <3>1. session'[c] = session[c]
      BY <1>1, <1>5, <2>2, OthersStay DEF Sessions
    <3> QED
      BY <1>2, <3>1
  <2> QED
    BY <2>1, <2>2
<1>6. CASE \/ \E d \in Consumers : Stop(d) \/ Restart(d)
           \/ \E k \in Copies : Send(k) \/ VisibilityExpires(k) \/ Redrive(k)
           \/ UNCHANGED vars
  BY <1>2, <1>6 DEF Stop, Restart, Send, VisibilityExpires, Redrive, vars
<1> QED
  BY <1>4, <1>5, <1>6 DEF Next

(* An id enters the inbox with its command. *)
LEMMA NextKeepsInbox ==
  ASSUME MessageInv, Later, [Next]_vars
  PROVE  InboxRecorded'
<1>1. ASSUME NEW k \in Copies, Recorded(Body[k]) PROVE Recorded(Body[k])'
  BY <1>1 DEF Later, Recorded
<1>2. CASE inbox' = inbox
  <2>1. ASSUME NEW k \in Copies, Body[k].defect # "unparsable", Body[k].id \in inbox, IdsTell
        PROVE  Recorded(Body[k])'
    BY <1>1, <2>1 DEF MessageInv, InboxRecorded
  <2> QED
    BY <1>2, <2>1 DEF InboxRecorded, Recorded
<1>3. ASSUME NEW c \in Consumers, Commit(c) PROVE InboxRecorded'
  <2>1. /\ Inv /\ c \in Sessions /\ Owed(c) /\ session[c].pc = "commit"
        /\ session[c].copy \in Copies
    BY <1>3 DEF MessageInv, Inv, Holding, Commit, At, Sessions
  <2>2. PICK j \in Copies : j = session[c].copy
    BY <2>1
  <2>3. Message(c) = Body[j] /\ Body[j].defect # "unparsable" /\ inbox' = inbox \cup {Body[j].id}
    BY <1>3, <2>1, <2>2 DEF Commit, Message, Owed, OwedByPoll
  <2>4. Recorded(Body[j])'
    <3>1. session'[c].copy = j
      BY <1>3, <2>1, <2>2 DEF Commit, EndAndGoto, Inv, TypeOK
    <3> QED
      BY <1>3, <2>1, <3>1, CommitRecords DEF Recorded, Message
  <2>5. ASSUME NEW k \in Copies, Body[k].defect # "unparsable", Body[k].id \in inbox', IdsTell
        PROVE  Recorded(Body[k])'
    <3>1. CASE Body[k].id \in inbox
      BY <1>1, <2>5, <3>1 DEF MessageInv, InboxRecorded
    <3>2. CASE Body[k].id = Body[j].id
      <4>1. IdOf(k) = IdOf(j)
        BY <2>3, <2>5, <3>2 DEF IdOf
      <4>2. Body[k] = Body[j]
        BY <2>5, <4>1 DEF IdsTell
      <4> QED
        BY <2>4, <4>2 DEF Recorded
    <3> QED
      BY <2>3, <2>5, <3>1, <3>2
  <2> QED
    BY <2>5 DEF InboxRecorded, Recorded
<1>4. inbox' = inbox \/ \E c \in Consumers : Commit(c)
  BY BodyAssumption DEF Next, vars, Receive, Step, RequestStep, Stop, Restart, Crash, Release,
    Take, InsertInbox, SkipDuplicate, Apply, ReplayCommand, RefuseForGood, RefuseAndAck,
    FailTransiently, Commit, Ack, DlqSend, DlqDelete, Retry, CallFails, Post, Refused, Accepted,
    Fails, Send, VisibilityExpires, Redrive, database
<1> QED
  BY <1>2, <1>3, <1>4

(* A message reaches the dead letter queue by moveToDlq or by the          *)
(* RedrivePolicy, for its reason, and is remembered as it does.            *)
LEMMA NextKeepsDlq ==
  ASSUME MessageInv, Inv', Later, [Next]_vars
  PROVE  DlqRemembers' /\ DlqHasReason'
<1>1. Inv /\ DlqRemembers /\ dlq \subseteq Copies /\ dlq \subseteq dlq'
      /\ \A k \in dlq : HasReason(k)
  BY DEF MessageInv, Inv, TypeOK, Later, DlqHasReason, HasReason
<1>2. \A k \in dlq : HasReason(k)'
  BY <1>1, ReasonsStay
<1>3. ASSUME NEW c \in Consumers, DlqSend(c) PROVE DlqRemembers' /\ DlqHasReason'
  <2>1. /\ c \in Sessions /\ Owed(c) /\ session[c].pc = "dlqSend" /\ session[c].copy \in Copies
    BY <1>1, <1>3 DEF MessageInv, Inv, Holding, DlqSend, At, Sessions
  <2>2. PICK k \in Copies : k = session[c].copy
    BY <2>1
  <2>3. HasReason(k)'
    <3>1. HasReason(k)
      BY <2>1, <2>2 DEF Owed, OwedByPoll, At
    <3> QED
      BY <1>1, <3>1, ReasonsStay
  <2>4. /\ dlqRecent' = dlqRecent \cup {IdOf(k)}
        /\ IdOf(k) \in dlqRecent \/ k \in dlq'
        /\ dlq' \subseteq dlq \cup {k}
    BY <1>3, <2>2 DEF DlqSend, DlqId, IdOf, Message
  <2> QED
    BY <1>1, <1>2, <2>3, <2>4 DEF DlqRemembers, DlqHasReason, HasReason
<1>4. ASSUME NEW k \in Copies, Redrive(k) PROVE DlqRemembers' /\ DlqHasReason'
  <2>1. /\ dlq' = dlq \cup {k} /\ dlqRecent' = dlqRecent
        /\ queue[k].receives >= MaxReceive
    BY <1>4 DEF Redrive
  <2>2. HasReason(k)'
    BY <1>1, <2>1, ReasonsStay DEF HasReason
  <2> QED
    BY <1>1, <1>2, <2>1, <2>2 DEF DlqRemembers, DlqHasReason, HasReason
<1>5. CASE UNCHANGED <<dlq, dlqRecent>>
  BY <1>1, <1>2, <1>5 DEF DlqRemembers, DlqHasReason, HasReason
<1>6. \/ UNCHANGED <<dlq, dlqRecent>>
      \/ \E c \in Consumers : DlqSend(c)
      \/ \E k \in Copies : Redrive(k)
  <2>1. ASSUME NEW c \in Consumers, Step(c), ~DlqSend(c) PROVE UNCHANGED <<dlq, dlqRecent>>
    BY <2>1 DEF Step, Release, Take, InsertInbox, SkipDuplicate, Apply, ReplayCommand,
       RefuseForGood, RefuseAndAck, FailTransiently, Commit, Ack, DlqDelete, Retry,
       CallFails, sqs
  <2>2. ASSUME NEW c \in Callers, RequestStep(c) PROVE UNCHANGED <<dlq, dlqRecent>>
    BY <2>2 DEF RequestStep, Post, Apply, ReplayCommand, Commit, Refused, Accepted, Fails, sqs
  <2> QED
    BY <2>1, <2>2 DEF Next, vars, Receive, Stop, Restart, Crash, Send, VisibilityExpires, sqs
<1> QED
  BY <1>3, <1>4, <1>5, <1>6

(* What is settled of a message that has left the queue, and of a request  *)
(* that was accepted.                                                      *)
Kept(k) == Body[k].defect = "money" \/ Recorded(Body[k]) \/ InDlq(k)

(* A message leaves the queue once it is settled. *)
LEMMA NextLosesNothing ==
  ASSUME MessageInv, Inv', Later, [Next]_vars, IdsTell
  PROVE  NothingLost'
<1>1. Inv /\ NothingLost
  BY DEF MessageInv
<1>2. ASSUME NEW k \in Copies \cup Requests, Recorded(Body[k]) PROVE Recorded(Body[k])'
  BY <1>2 DEF Later, Recorded
<1>3. ASSUME NEW k \in Copies, Kept(k) PROVE Kept(k)'
  BY <1>2, <1>3 DEF Kept, Later, InDlq
<1>4. ASSUME NEW k \in Copies, Gone(k)', ~Gone(k) PROVE Kept(k)'
  <2>1. queue \in [Copies -> [state : {"unsent", "visible", "hidden", "gone"},
                              receives : 0..MaxReceive]]
    BY <1>1 DEF Inv, TypeOK
  <2>2. ASSUME NEW c \in Consumers, Ack(c) \/ DlqDelete(c) PROVE Kept(k)'
    <3>1. /\ Owed(c) /\ session[c].pc \in {"ack", "dlqDelete"}
          /\ queue' = [queue EXCEPT ![session[c].copy].state = "gone"]
      BY <2>2 DEF MessageInv, Ack, DlqDelete, At, Delete, Sessions
    <3>2. k = session[c].copy
      BY <1>4, <2>1, <3>1 DEF Gone
    <3>3. Kept(k)
      BY <3>1, <3>2 DEF Owed, OwedByPoll, At, Message, Kept
    <3> QED
      BY <1>3, <3>3
  <2>3. ASSUME NEW j \in Copies, Redrive(j) PROVE Kept(k)'
    BY <1>4, <2>1, <2>3 DEF Redrive, Gone, Kept, InDlq
  <2>4. ASSUME NEW j \in Copies, Send(j) \/ VisibilityExpires(j) PROVE FALSE
    BY <1>4, <2>1, <2>4 DEF Send, VisibilityExpires, Gone
  <2>5. ASSUME NEW c \in Consumers, Receive(c) \/ Release(c) PROVE FALSE
    <3>1. PICK j : \/ queue' = [queue EXCEPT ![j].state = "visible"]
                   \/ queue' = [queue EXCEPT ![j] = [state |-> "hidden",
                                                    receives |-> @.receives + 1]]
                   \/ queue' = queue
      BY <2>5 DEF Receive, Release
    <3> QED
      BY <1>4, <2>1, <3>1 DEF Gone
  <2>6. CASE queue' = queue
    BY <1>4, <2>6 DEF Gone
  <2>7. \/ queue' = queue
        \/ \E c \in Consumers : Receive(c) \/ Release(c) \/ Ack(c) \/ DlqDelete(c)
        \/ \E j \in Copies : Send(j) \/ VisibilityExpires(j) \/ Redrive(j)
    BY DEF Next, vars, Step, RequestStep, Stop, Restart, Crash,
      Take, InsertInbox, SkipDuplicate, Apply, ReplayCommand, RefuseForGood, RefuseAndAck,
      FailTransiently, Commit, DlqSend, Retry, CallFails, Post, Refused, Accepted,
      Fails, sqs
  <2> QED
    BY <2>2, <2>3, <2>4, <2>5, <2>6, <2>7
<1>5. ASSUME NEW k \in Copies, Gone(k)' PROVE Kept(k)'
  BY <1>1, <1>3, <1>4, <1>5 DEF NothingLost, Kept
<1>6. ASSUME NEW q \in Requests, answers'[q] = "accepted" PROVE Recorded(Body[q])'
  <2>1. CASE answers[q] = "accepted"
    BY <1>1, <1>2, <2>1 DEF NothingLost
  <2>2. CASE answers[q] # "accepted"
    <3>1. answers \in [Requests -> {"accepted", "refused", None}]
      BY <1>1 DEF Inv, TypeOK
    <3>2. PICK c \in Callers : Refused(c) \/ Accepted(c)
      BY <1>6, <2>2 DEF Next, vars, Receive, Step, RequestStep, Stop, Restart, Crash, Release,
        Take, InsertInbox, SkipDuplicate, Apply, ReplayCommand, RefuseForGood, RefuseAndAck,
        FailTransiently, Commit, Ack, DlqSend, DlqDelete, Retry, CallFails, Post, Fails, Send,
        VisibilityExpires, Redrive
    <3>3. Accepted(c) /\ q = session[c].copy
      BY <1>6, <2>2, <3>1, <3>2 DEF Refused, Accepted
    <3>4. Recorded(Body[q])
      BY <3>3 DEF MessageInv, Owed, Accepted, At, Message, Sessions
    <3> QED
      BY <1>2, <3>4
  <2> QED
    BY <2>1, <2>2
<1> QED
  BY <1>5, <1>6 DEF NothingLost, Kept, Gone, Recorded, InDlq

(* Every step keeps what is said of the messages. *)
LEMMA MessageInvStep == MessageInv /\ [Next]_vars => MessageInv'
<1> SUFFICES ASSUME MessageInv, [Next]_vars PROVE MessageInv'
  OBVIOUS
<1>1. Inv'
  BY InvStep DEF MessageInv
<1>2. Later
  BY NextIsLater DEF MessageInv
<1> QED
  BY <1>1, <1>2, NextKeepsOwed, NextKeepsInbox, NextKeepsDlq, NextLosesNothing DEF MessageInv

(* What is said of the messages holds in every reachable state. *)
LEMMA MessagesAlways == Spec => []MessageInv
BY MessageInvInit, MessageInvStep, PTL DEF Spec

(* If ids tell bodies apart, no message leaves the queue before its        *)
(* command is committed or its body is in the dead letter queue, and no    *)
(* request is accepted that is not committed (README.md:574).              *)
THEOREM NoMessageLost ==
  ASSUME IdsTell
  PROVE  Spec => []NothingLost
<1>1. MessageInv => NothingLost
  BY DEF MessageInv
<1> QED
  BY <1>1, MessagesAlways, PTL

(* Whatever fails, whatever the ids, no message is in the dead letter      *)
(* queue that might still have been processed.                             *)
THEOREM DlqReasons == Spec => []DlqHasReason
<1>1. MessageInv => DlqHasReason
  BY DEF MessageInv
<1> QED
  BY <1>1, MessagesAlways, PTL
=============================================================================

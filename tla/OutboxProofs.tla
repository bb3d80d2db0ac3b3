----------------------------- MODULE OutboxProofs -----------------------------
(***************************************************************************)
(* No row is marked published before the queue has accepted its event, the *)
(* publishers take only steps of at-least-once delivery, and each          *)
(* duplicate has a fault of its own, for any number of publishers and      *)
(* events and any batch size.                                              *)
(*                                                                         *)
(* Between the send and the COMMIT what a run knows is in its outcome, and *)
(* what the queue knows is in recent: both follow the stream (NotedSent,   *)
(* RecentSent).  Events are committed before they are claimed              *)
(* (ClaimedExist), so that the queue is given no other.  And FOR UPDATE    *)
(* SKIP LOCKED gives a row to one run at a time (HeldByOne): until the row *)
(* is settled, every send of it was followed by a fault (SendsCounted).    *)
(***************************************************************************)
EXTENDS Outbox, FiniteSetTheorems, TLAPS

NotedSent ==
  \A p \in Publishers, e \in Events :
    outcome[p][e] = "published" => rows[e] # "absent" /\ Sent(e) # {}

RecentSent == \A e \in recent : Sent(e) # {}

ClaimedExist ==
  \A p \in Publishers : \A i \in DOMAIN batch[p] : rows[batch[p][i]] # "absent"

OutboxInv == TypeOK /\ NotedSent /\ RecentSent /\ ClaimedExist /\ PublishedWasSent

(* The queue takes an event once more, or drops it; either way it has it,  *)
(* and loses none. *)
LEMMA AcceptSends ==
  ASSUME OutboxInv, NEW e \in Events, Accept(e)
  PROVE  /\ stream' \in Seq(Events) /\ recent' \in SUBSET Events
         /\ Sent(e)' # {}
         /\ \A f \in Events : Sent(f) # {} => Sent(f)' # {}
         /\ \A f \in Events \ {e} : Sent(f)' # {} => Sent(f) # {}
         /\ RecentSent'
<1>1. stream \in Seq(Events) /\ Len(stream) \in Nat /\ recent \in SUBSET Events
  BY DEF OutboxInv, TypeOK
<1>2. CASE e \in recent
  BY <1>1, <1>2 DEF Accept, OutboxInv, RecentSent, Sent
<1>3. CASE e \notin recent
  <2> DEFINE s == Append(stream, e)
  <2>1. stream' = s
    BY <1>3 DEF Accept
  <2>2. /\ s \in Seq(Events) /\ Len(s) = Len(stream) + 1
        /\ DOMAIN s = 1..(Len(stream) + 1) /\ DOMAIN stream = 1..Len(stream)
        /\ s[Len(stream) + 1] = e
        /\ \A i \in 1..Len(stream) : s[i] = stream[i]
    BY <1>1
  <2> HIDE DEF s
  <2>3. Sent(e)' # {}
    <3>1. Len(stream) + 1 \in Sent(e)'
      BY <1>1, <2>1, <2>2 DEF Sent
    <3> QED
      BY <3>1
  <2>4. \A f \in Events : Sent(f) \subseteq Sent(f)'
    BY <1>1, <2>1, <2>2 DEF Sent
  <2>5. \A f \in Events \ {e} : Sent(f)' \subseteq Sent(f)
    BY <1>1, <2>1, <2>2 DEF Sent
  <2>6. RecentSent'
    BY <1>1, <2>3, <2>4 DEF OutboxInv, RecentSent, Accept
  <2> QED
    BY <1>1, <2>1, <2>2, <2>3, <2>4, <2>5, <2>6 DEF Accept
<1> QED
  BY <1>2, <1>3

(* There is nothing in the tables and nothing sent. *)
LEMMA OutboxInvInit == Init => OutboxInv
BY DEF Init, OutboxInv, TypeOK, NotedSent, RecentSent, ClaimedExist,
       PublishedWasSent, NoOutcome

(* A run sends its next row, and notes what came of it. *)
LEMMA SendKeepsInv ==
  ASSUME OutboxInv, NEW p \in Publishers, Publish(p) \/ SendFails(p)
  PROVE  OutboxInv'
<1>1. /\ batch \in [Publishers -> Seq(Events)] /\ batch[p] # << >>
      /\ rows' = rows /\ waiting' = waiting /\ running' = running
  BY DEF OutboxInv, TypeOK, Publish, SendFails
<1>2. /\ Head(batch[p]) \in Events
      /\ Tail(batch[p]) \in Seq(Events)
      /\ \A i \in DOMAIN Tail(batch[p]) :
           i + 1 \in DOMAIN batch[p] /\ Tail(batch[p])[i] = batch[p][i + 1]
  BY <1>1
<1>3. PICK e \in Events : e = Head(batch[p])
  BY <1>2
<1>4. PICK what \in {"published", "retry"} :
        /\ outcome' = [outcome EXCEPT ![p][e] = what]
        /\ batch' = [batch EXCEPT ![p] = Tail(@)]
        /\ what = "published" => Accept(e)
        /\ Accept(e) \/ UNCHANGED <<stream, recent>>
  <2>1. CASE Publish(p)
    BY <1>3, <2>1 DEF Publish, Note
  <2>2. CASE SendFails(p)
    BY <1>3, <2>2 DEF SendFails, Note
  <2> QED
    BY <2>1, <2>2
<1>5. faults' \in [Events -> Nat]
  <2>1. faults \in [Events -> Nat]
    BY DEF OutboxInv, TypeOK
  <2>2. faults' = faults \/ faults' = [faults EXCEPT ![e] = @ + 1]
    BY <1>3 DEF Publish, SendFails
  <2> QED
    BY <2>1, <2>2
<1>6. /\ stream' \in Seq(Events) /\ recent' \in SUBSET Events
      /\ what = "published" => Sent(e)' # {}
      /\ \A f \in Events : Sent(f) # {} => Sent(f)' # {}
      /\ RecentSent'
  <2>1. CASE Accept(e)
    BY <2>1, AcceptSends
  <2>2. CASE UNCHANGED <<stream, recent>> /\ what # "published"
    BY <2>2 DEF OutboxInv, TypeOK, Sent, RecentSent
  <2> QED
    BY <1>4, <2>1, <2>2
<1>7. TypeOK'
  BY <1>1, <1>2, <1>4, <1>5, <1>6 DEF OutboxInv, TypeOK
<1>8. NotedSent'
  <2>1. rows[e] # "absent"
    <3>1. 1 \in DOMAIN batch[p] /\ e = batch[p][1]
      BY <1>1, <1>3
    <3> QED
      BY <3>1 DEF OutboxInv, ClaimedExist
  <2> QED
    BY <1>1, <1>4, <1>6, <2>1 DEF OutboxInv, TypeOK, NotedSent
<1>9. ClaimedExist'
  BY <1>1, <1>2, <1>4 DEF OutboxInv, TypeOK, ClaimedExist
<1>10. PublishedWasSent'
  BY <1>1, <1>6 DEF OutboxInv, PublishedWasSent
<1> QED
  BY <1>6, <1>7, <1>8, <1>9, <1>10 DEF OutboxInv

(* The end of a run, committed or not. *)
LEMMA EndKeepsInv ==
  ASSUME OutboxInv, NEW p \in Publishers, CommitRun(p) \/ Crash(p)
  PROVE  OutboxInv'
<1>1. /\ batch' \in [Publishers -> Seq(Events)]
      /\ batch'[p] = << >>
      /\ \A q \in Publishers \ {p} : batch'[q] = batch[q]
      /\ outcome' = [outcome EXCEPT ![p] = NoOutcome]
      /\ running' \in SUBSET Publishers
      /\ UNCHANGED <<stream, recent>>
  <2>1. EndRun(p) /\ UNCHANGED <<stream, recent>>
    BY DEF CommitRun, Crash
  <2>2. << >> \in Seq(Events)
    OBVIOUS
  <2> QED
    BY <2>1, <2>2 DEF OutboxInv, TypeOK, EndRun
<1>2. NoOutcome \in [Events -> {"none", "published", "retry"}]
  BY DEF NoOutcome
<1>3. /\ rows' \in [Events -> {"absent", "pending", "published"}]
      /\ \A e \in Events :
           \/ rows'[e] = rows[e]
           \/ rows'[e] = "published" /\ outcome[p][e] = "published"
      /\ waiting' \in SUBSET Events /\ faults' \in [Events -> Nat]
  <2>1. CASE CommitRun(p)
    BY <2>1 DEF OutboxInv, TypeOK, CommitRun
  <2>2. CASE Crash(p)
    BY <2>2 DEF OutboxInv, TypeOK, Crash
  <2> QED
    BY <2>1, <2>2
<1>5. TypeOK'
  BY <1>1, <1>2, <1>3 DEF OutboxInv, TypeOK
<1>6. \A e \in Events : Sent(e)' = Sent(e)
  BY <1>1 DEF Sent
<1>7. NotedSent' /\ RecentSent'
  BY <1>1, <1>2, <1>3, <1>6 DEF OutboxInv, TypeOK, NotedSent, RecentSent, NoOutcome
<1>8. PublishedWasSent'
  BY <1>3, <1>6 DEF OutboxInv, PublishedWasSent, NotedSent
<1>9. ClaimedExist'
  <2> SUFFICES ASSUME NEW q \in Publishers, NEW i \in DOMAIN batch'[q]
               PROVE  rows'[batch'[q][i]] # "absent"
    BY DEF ClaimedExist
  <2>1. q # p
    BY <1>1
  <2>2. batch[q][i] \in Events /\ rows[batch[q][i]] # "absent"
    BY <1>1, <2>1 DEF OutboxInv, TypeOK, ClaimedExist
  <2> QED
    BY <1>1, <1>3, <2>1, <2>2
<1> QED
  BY <1>5, <1>7, <1>8, <1>9 DEF OutboxInv

(* A batch is a sequence of rows that may be claimed, once each. *)
LEMMA BatchApart ==
  ASSUME OutboxInv, NEW p \in Publishers, Claim(p)
  PROVE  \E b \in Seq(Events) :
           /\ batch' = [batch EXCEPT ![p] = b]
           /\ \A i \in DOMAIN b : b[i] \in Claimable
           /\ \A i, j \in DOMAIN b : b[i] = b[j] => i = j
<1> DEFINE n == IF Cardinality(Claimable) < BatchSize THEN Cardinality(Claimable)
                                                     ELSE BatchSize
<1>1. Claimable \subseteq Events
  BY DEF Claimable
<1>2. Cardinality(Claimable) \in Nat
  BY <1>1, EventsAssumption, FS_Subset, FS_CardinalityType
<1>3. n \in Nat
  BY <1>2, BoundsAssumption
<1>4. PICK b \in [1..n -> Claimable] : IsBatch(b) /\ batch' = [batch EXCEPT ![p] = b]
  BY DEF Claim
<1> HIDE DEF n
<1>5. b \in Seq(Events) /\ DOMAIN b = 1..n
  BY <1>1, <1>3, <1>4
<1>6. \A i, j \in DOMAIN b : b[i] = b[j] => i = j
  BY <1>3, <1>4, <1>5 DEF IsBatch
<1> QED
  BY <1>4, <1>5, <1>6

(* The rows of a batch are due. *)
LEMMA BatchIsSequence ==
  ASSUME OutboxInv, NEW p \in Publishers, Claim(p)
  PROVE  \E b \in Seq(Events) :
           /\ batch' = [batch EXCEPT ![p] = b]
           /\ \A i \in DOMAIN b : rows[b[i]] = "pending"
BY BatchApart DEF Claimable, IsDue

(* Pending rows are claimed. *)
LEMMA ClaimKeepsInv ==
  ASSUME OutboxInv, NEW p \in Publishers, Claim(p)
  PROVE  OutboxInv'
<1>1. PICK b \in Seq(Events) :
        /\ batch' = [batch EXCEPT ![p] = b]
        /\ \A i \in DOMAIN b : rows[b[i]] = "pending"
  BY BatchIsSequence
<1>2. UNCHANGED <<rows, waiting, outcome, stream, recent, faults>>
      /\ running' \in SUBSET Publishers
  BY DEF Claim, OutboxInv, TypeOK
<1>3. TypeOK'
  BY <1>1, <1>2 DEF OutboxInv, TypeOK
<1>4. NotedSent' /\ RecentSent' /\ PublishedWasSent'
  BY <1>2 DEF OutboxInv, NotedSent, RecentSent, PublishedWasSent, Sent
<1>5. ClaimedExist'
  BY <1>1, <1>2 DEF OutboxInv, TypeOK, ClaimedExist
<1> QED
  BY <1>3, <1>4, <1>5 DEF OutboxInv

(* A row appears, falls due again, or is forgotten by the queue. *)
LEMMA EventKeepsInv ==
  ASSUME OutboxInv, NEW e \in Events, CommitEvent(e) \/ Elapse(e) \/ Forget(e)
  PROVE  OutboxInv'
<1>1. UNCHANGED <<batch, outcome, running, stream, faults>>
  BY DEF CommitEvent, Elapse, Forget
<1>2. recent' \subseteq recent /\ waiting' \subseteq waiting
  BY DEF CommitEvent, Elapse, Forget
<1>3. \/ rows' = rows
      \/ rows' = [rows EXCEPT ![e] = "pending"] /\ rows[e] = "absent"
  BY DEF CommitEvent, Elapse, Forget
<1>4. TypeOK'
  BY <1>1, <1>2, <1>3 DEF OutboxInv, TypeOK
<1>5. NotedSent' /\ RecentSent'
  BY <1>1, <1>2, <1>3 DEF OutboxInv, TypeOK, NotedSent, RecentSent, Sent
<1>6. PublishedWasSent'
  BY <1>1, <1>3 DEF OutboxInv, TypeOK, PublishedWasSent, Sent
<1>7. ClaimedExist'
  BY <1>1, <1>3 DEF OutboxInv, TypeOK, ClaimedExist
<1> QED
  BY <1>4, <1>5, <1>6, <1>7 DEF OutboxInv

(* Every step keeps the invariant. *)
THEOREM OutboxInvStep == OutboxInv /\ [Next]_vars => OutboxInv'
<1> SUFFICES ASSUME OutboxInv, [Next]_vars PROVE OutboxInv'
  OBVIOUS
<1>1. CASE \E p \in Publishers : Step(p) \/ Crash(p)
  <2>1. PICK p \in Publishers :
          Claim(p) \/ Publish(p) \/ SendFails(p) \/ CommitRun(p) \/ Crash(p)
    BY <1>1 DEF Step
  <2> QED
    BY <2>1, ClaimKeepsInv, SendKeepsInv, EndKeepsInv
<1>2. CASE \E e \in Events : CommitEvent(e) \/ Elapse(e) \/ Forget(e)
  BY <1>2, EventKeepsInv
<1>3. CASE UNCHANGED vars
  BY <1>3 DEF vars, OutboxInv, TypeOK, NotedSent, RecentSent, ClaimedExist,
              PublishedWasSent, Sent
<1> QED
  BY <1>1, <1>2, <1>3 DEF Next

(* The invariant holds in every reachable state. *)
THEOREM OutboxInvHolds == Spec => []OutboxInv
<1>1. OutboxInv /\ [Next]_vars => OutboxInv'
  BY OutboxInvStep
<1> QED
  BY OutboxInvInit, <1>1, PTL DEF Spec

(* Every variable keeps its type. *)
THEOREM OutboxTyped == Spec => []TypeOK
<1>1. OutboxInv => TypeOK
  BY DEF OutboxInv
<1> QED
  BY OutboxInvHolds, <1>1, PTL

(* A row is marked published only after the queue has accepted its event,  *)
(* whatever run crashes between the send and the COMMIT. *)
THEOREM PublishedSent == Spec => []PublishedWasSent
<1>1. OutboxInv => PublishedWasSent
  BY DEF OutboxInv
<1> QED
  BY OutboxInvHolds, <1>1, PTL

(* The refinement mapping of Outbox, by name. *)
Announced == {e \in Events : rows[e] # "absent"}

Delivered == {e \in Events : Sent(e) # {}}

(* A send delivers an event that was committed, perhaps once more. *)
LEMMA SendDelivers ==
  ASSUME OutboxInv, NEW p \in Publishers, Publish(p) \/ SendFails(p)
  PROVE  \/ UNCHANGED <<Announced, Delivered>>
         \/ \E e \in Events : Delivery!Deliver(e)
<1>1. batch \in [Publishers -> Seq(Events)] /\ batch[p] # << >> /\ rows' = rows
  BY DEF OutboxInv, TypeOK, Publish, SendFails
<1>2. Head(batch[p]) \in Events /\ rows[Head(batch[p])] # "absent"
  <2>1. 1 \in DOMAIN batch[p] /\ Head(batch[p]) = batch[p][1]
    BY <1>1
  <2> QED
    BY <1>1, <2>1 DEF OutboxInv, ClaimedExist
<1>3. PICK e \in Events : e = Head(batch[p])
  BY <1>2
<1>4. CASE Accept(e)
  <2>1. /\ Sent(e)' # {}
        /\ \A f \in Events : Sent(f) # {} => Sent(f)' # {}
        /\ \A f \in Events \ {e} : Sent(f)' # {} => Sent(f) # {}
    BY <1>4, AcceptSends
  <2>2. Delivered' = Delivered \cup {e}
    BY <2>1 DEF Delivered
  <2>3. e \in Announced /\ Announced' = Announced
    BY <1>1, <1>2, <1>3 DEF Announced
  <2>4. Delivery!Deliver(e)
    BY <2>2, <2>3 DEF Delivery!Deliver, Announced, Delivered
  <2> QED
    BY <2>4
<1>5. CASE UNCHANGED <<stream, recent>>
  BY <1>1, <1>5 DEF Announced, Delivered, Sent
<1> QED
  BY <1>3, <1>4, <1>5 DEF Publish, SendFails

(* The publishers are an at-least-once channel, as far as safety goes:     *)
(* every event the queue has was committed before, and none is ever lost.  *)
THEOREM DeliversCommittedOnly == Spec => Delivery!Spec
<1>1. Init => Delivery!Init
  BY DEF Init, Delivery!Init, Sent
<1>2. OutboxInv /\ [Next]_vars => [Delivery!Next]_<<Announced, Delivered>>
  <2> SUFFICES ASSUME OutboxInv, [Next]_vars
               PROVE  Delivery!Next \/ UNCHANGED <<Announced, Delivered>>
    OBVIOUS
  <2>1. ASSUME NEW p \in Publishers, Publish(p) \/ SendFails(p)
        PROVE  Delivery!Next \/ UNCHANGED <<Announced, Delivered>>
    BY <2>1, SendDelivers DEF Delivery!Next
  <2>2. ASSUME NEW p \in Publishers, Claim(p) \/ Crash(p)
        PROVE  UNCHANGED <<Announced, Delivered>>
    BY <2>2 DEF Claim, Crash, Announced, Delivered, Sent
  <2>3. ASSUME NEW p \in Publishers, CommitRun(p)
        PROVE  UNCHANGED <<Announced, Delivered>>
    <3>1. \A e \in Events : rows'[e] # "absent" <=> rows[e] # "absent"
      BY <2>3 DEF CommitRun, OutboxInv, TypeOK, NotedSent
    <3> QED
      BY <2>3, <3>1 DEF CommitRun, Announced, Delivered, Sent
  <2>4. ASSUME NEW e \in Events, CommitEvent(e)
        PROVE  Delivery!Next
    <3>1. Announced' = Announced \cup {e} /\ e \notin Announced
      BY <2>4 DEF CommitEvent, Announced, OutboxInv, TypeOK
    <3>2. Delivered' = Delivered
      BY <2>4 DEF CommitEvent, Delivered, Sent
    <3>3. Delivery!Announce(e)
      BY <3>1, <3>2 DEF Delivery!Announce, Announced, Delivered
    <3> QED
      BY <3>3 DEF Delivery!Next
  <2>5. ASSUME NEW e \in Events, Elapse(e) \/ Forget(e)
        PROVE  UNCHANGED <<Announced, Delivered>>
    BY <2>5 DEF Elapse, Forget, Announced, Delivered, Sent
  <2>6. CASE UNCHANGED vars
    BY <2>6 DEF vars, Announced, Delivered, Sent
  <2> QED
    BY <2>1, <2>2, <2>3, <2>4, <2>5, <2>6 DEF Next, Step
<1>3. OutboxInv /\ [Next]_vars
        => [Delivery!Next]_<<{e \in Events : rows[e] # "absent"},
                             {e \in Events : Sent(e) # {}}>>
  BY <1>2 DEF Announced, Delivered
<1> QED
  BY <1>1, <1>3, OutboxInvHolds, PTL DEF Spec, Delivery!Spec

-----------------------------------------------------------------------------
(* Duplicates: the rows two runs hold are apart, so that a row is sent     *)
(* again only after a fault.                                               *)

(* FOR UPDATE SKIP LOCKED: no row is held by two runs. *)
HeldByOne ==
  \A p, q \in Publishers, e \in Events : e \in Locked(p) /\ e \in Locked(q) => p = q

(* A run holds rows that are pending, and only while its transaction is open. *)
HeldPending ==
  \A p \in Publishers, e \in Events : e \in Locked(p) => rows[e] = "pending" /\ p \in running

(* What is left of a batch is rows the run has not sent, once each. *)
Unsent ==
  \A p \in Publishers : \A i \in DOMAIN batch[p] :
    /\ outcome[p][batch[p][i]] = "none"
    /\ \A j \in DOMAIN batch[p] : batch[p][i] = batch[p][j] => i = j

(* One send of e has done what it was for. *)
Settled(e) == rows[e] = "published" \/ \E p \in Publishers : outcome[p][e] = "published"

(* Every other one is a fault. *)
SendsCounted ==
  \A e \in Events : Cardinality(Sent(e)) <= faults[e] + (IF Settled(e) THEN 1 ELSE 0)

CountInv == OutboxInv /\ HeldByOne /\ HeldPending /\ Unsent /\ SendsCounted

(* The sends of an event can be counted. *)
LEMMA SentCountable ==
  ASSUME OutboxInv, NEW e \in Events
  PROVE  IsFiniteSet(Sent(e)) /\ Cardinality(Sent(e)) \in Nat
<1>1. stream \in Seq(Events)
  BY DEF OutboxInv, TypeOK
<1>2. Len(stream) \in Nat /\ DOMAIN stream = 1..Len(stream)
  BY <1>1
<1>3. IsFiniteSet(1..Len(stream))
  BY <1>2, FS_Interval
<1>4. Sent(e) \subseteq 1..Len(stream)
  BY <1>2 DEF Sent
<1> QED
  BY <1>3, <1>4, FS_Subset, FS_CardinalityType

(* A send adds at most one to what the queue has of its event, and nothing *)
(* to what it has of another.                                              *)
LEMMA AcceptCounts ==
  ASSUME OutboxInv, NEW e \in Events, Accept(e)
  PROVE  /\ Cardinality(Sent(e)') \in 0..(Cardinality(Sent(e)) + 1)
         /\ \A f \in Events \ {e} : Sent(f)' = Sent(f)
<1>1. stream \in Seq(Events) /\ Len(stream) \in Nat /\ DOMAIN stream = 1..Len(stream)
  BY DEF OutboxInv, TypeOK
<1>2. IsFiniteSet(Sent(e)) /\ Cardinality(Sent(e)) \in Nat
  BY SentCountable
<1>3. CASE e \in recent
  BY <1>2, <1>3 DEF Accept, Sent
<1>4. CASE e \notin recent
  <2> DEFINE s == Append(stream, e)
             n == Len(stream) + 1
  <2>1. stream' = s
    BY <1>4 DEF Accept
  <2>2. /\ DOMAIN s = 1..n /\ n \notin 1..Len(stream) /\ s[n] = e
        /\ \A i \in 1..Len(stream) : s[i] = stream[i]
        /\ 1..n = (1..Len(stream)) \cup {n}
    BY <1>1
  <2> HIDE DEF s, n
  <2>3. Sent(e)' = Sent(e) \cup {n} /\ n \notin Sent(e)
    BY <1>1, <2>1, <2>2 DEF Sent
  <2>4. \A f \in Events \ {e} : Sent(f)' = Sent(f)
    BY <1>1, <2>1, <2>2 DEF Sent
  <2>5. Cardinality(Sent(e) \cup {n}) = Cardinality(Sent(e)) + 1
    BY <1>2, <2>3, FS_AddElement
  <2> QED
    BY <1>2, <2>3, <2>4, <2>5
<1> QED
  BY <1>3, <1>4

(* Nothing is held and nothing sent. *)
LEMMA CountInvInit == Init => CountInv
<1> SUFFICES ASSUME Init PROVE CountInv
  OBVIOUS
<1>1. \A p \in Publishers : batch[p] = << >> /\ outcome[p] = NoOutcome
  BY DEF Init
<1>2. \A p \in Publishers, e \in Events : outcome[p][e] = "none" /\ e \notin Locked(p)
  BY <1>1 DEF Locked, NoOutcome
<1>3. HeldByOne /\ HeldPending /\ Unsent
  BY <1>1, <1>2 DEF HeldByOne, HeldPending, Unsent
<1>4. \A e \in Events : Sent(e) = {} /\ faults[e] = 0 /\ ~Settled(e)
  BY <1>2 DEF Init, Sent, Settled
<1>5. SendsCounted
  BY <1>4, FS_EmptySet DEF SendsCounted
<1> QED
  BY <1>3, <1>5, OutboxInvInit DEF CountInv

(* Steps that change no run, no row held and no send. *)
LEMMA HoldsStay ==
  ASSUME CountInv, UNCHANGED <<batch, outcome, running, stream, faults>>,
         \A e \in Events : rows'[e] # rows[e] => rows[e] = "absent" /\ rows'[e] = "pending"
  PROVE  HeldByOne' /\ HeldPending' /\ Unsent' /\ SendsCounted'
<1>1. \A p : Locked(p)' = Locked(p)
  BY DEF Locked
<1>2. HeldByOne' /\ HeldPending' /\ Unsent'
  BY <1>1 DEF CountInv, HeldByOne, HeldPending, Unsent
<1>3. ASSUME NEW e \in Events
      PROVE  Sent(e)' = Sent(e) /\ (Settled(e)' <=> Settled(e))
  BY <1>3 DEF Sent, Settled
<1>4. SendsCounted'
  BY <1>3 DEF CountInv, SendsCounted
<1> QED
  BY <1>2, <1>4

(* A run claims rows that nobody holds, once each. *)
LEMMA ClaimKeepsCount ==
  ASSUME CountInv, NEW p \in Publishers, Claim(p)
  PROVE  HeldByOne' /\ HeldPending' /\ Unsent' /\ SendsCounted'
<1>1. PICK b \in Seq(Events) :
        /\ batch' = [batch EXCEPT ![p] = b]
        /\ \A i \in DOMAIN b : b[i] \in Claimable
        /\ \A i, j \in DOMAIN b : b[i] = b[j] => i = j
  BY BatchApart DEF CountInv
<1>2. /\ UNCHANGED <<rows, outcome, stream, faults>>
      /\ running' = running \cup {p} /\ p \notin running
      /\ batch'[p] = b /\ \A q \in Publishers \ {p} : batch'[q] = batch[q]
  BY <1>1 DEF Claim, CountInv, OutboxInv, TypeOK
<1>3. \A e \in Events : outcome[p][e] = "none"
  BY <1>2 DEF CountInv, HeldPending, Locked
<1>4. /\ \A e \in Events : e \in Locked(p)' => e \in Claimable
      /\ \A q \in Publishers \ {p} : Locked(q)' = Locked(q)
  BY <1>1, <1>2, <1>3 DEF Locked
<1>5. HeldByOne' /\ HeldPending'
  BY <1>2, <1>4 DEF CountInv, HeldByOne, HeldPending, Claimable, IsDue
<1>6. Unsent'
  BY <1>1, <1>2, <1>3 DEF CountInv, Unsent
<1>7. SendsCounted'
  BY <1>2 DEF CountInv, SendsCounted, Sent, Settled
<1> QED
  BY <1>5, <1>6, <1>7

(* The row that is sent stays held, and is no more among those to send. *)
LEMMA SendKeepsHolds ==
  ASSUME CountInv, NEW p \in Publishers, Publish(p) \/ SendFails(p)
  PROVE  HeldByOne' /\ HeldPending' /\ Unsent'
<1>1. /\ batch[p] \in Seq(Events) /\ batch[p] # << >>
      /\ UNCHANGED <<rows, running>>
      /\ \A q \in Publishers \ {p} : batch'[q] = batch[q] /\ outcome'[q] = outcome[q]
      /\ batch'[p] = Tail(batch[p])
  BY DEF CountInv, OutboxInv, TypeOK, Publish, SendFails, Note
<1>2. PICK e \in Events : e = Head(batch[p])
  BY <1>1
<1>3. /\ 1 \in DOMAIN batch[p] /\ e = batch[p][1]
      /\ \A i \in DOMAIN Tail(batch[p]) :
           /\ i + 1 \in DOMAIN batch[p] /\ i + 1 # 1
           /\ Tail(batch[p])[i] = batch[p][i + 1]
      /\ \A i, j \in DOMAIN Tail(batch[p]) : i + 1 = j + 1 => i = j
  BY <1>1, <1>2
<1>4. \A f \in Events \ {e} : outcome'[p][f] = outcome[p][f]
  BY <1>2 DEF CountInv, OutboxInv, TypeOK, Publish, SendFails, Note
<1>5. \A f \in Events : f \in Locked(p)' => f \in Locked(p)
  BY <1>1, <1>3, <1>4 DEF Locked
<1>6. \A q \in Publishers \ {p} : Locked(q)' = Locked(q)
  BY <1>1 DEF Locked
<1>7. HeldByOne' /\ HeldPending'
  BY <1>1, <1>5, <1>6 DEF CountInv, HeldByOne, HeldPending
<1>8. Unsent'
  <2>1. ASSUME NEW i \in DOMAIN batch'[p]
        PROVE  /\ outcome'[p][batch'[p][i]] = "none"
               /\ \A j \in DOMAIN batch'[p] : batch'[p][i] = batch'[p][j] => i = j
    <3>1. batch'[p][i] = batch[p][i + 1] /\ i + 1 \in DOMAIN batch[p] /\ i + 1 # 1
      BY <1>1, <1>3, <2>1
    <3>2. batch[p][i + 1] \in Events /\ batch[p][i + 1] # e
      BY <1>1, <1>3, <3>1 DEF CountInv, Unsent
    <3>3. outcome'[p][batch'[p][i]] = "none"
      BY <1>4, <3>1, <3>2 DEF CountInv, Unsent
    <3>4. ASSUME NEW j \in DOMAIN batch'[p], batch'[p][i] = batch'[p][j]
          PROVE  i = j
      <4>1. batch'[p][j] = batch[p][j + 1] /\ j + 1 \in DOMAIN batch[p]
        BY <1>1, <1>3, <3>4
      <4>2. i + 1 = j + 1
        BY <3>1, <3>4, <4>1 DEF CountInv, Unsent
      <4> QED
        BY <1>1, <1>3, <2>1, <3>4, <4>2
    <3> QED
      BY <3>3, <3>4
  <2>2. ASSUME NEW q \in Publishers \ {p}, NEW i \in DOMAIN batch'[q]
        PROVE  /\ outcome'[q][batch'[q][i]] = "none"
               /\ \A j \in DOMAIN batch'[q] : batch'[q][i] = batch'[q][j] => i = j
    BY <1>1, <2>2 DEF CountInv, Unsent
  <2> QED
    BY <2>1, <2>2 DEF Unsent
<1> QED
  BY <1>7, <1>8

(* A row held and not yet sent has none of its sends settled. *)
LEMMA UnsentIsUnsettled ==
  ASSUME CountInv, NEW p \in Publishers, NEW i \in DOMAIN batch[p]
  PROVE  ~Settled(batch[p][i])
<1>1. batch[p] \in Seq(Events)
  BY DEF CountInv, OutboxInv, TypeOK
<1>2. PICK e \in Events : e = batch[p][i]
  BY <1>1
<1>3. e \in Locked(p) /\ outcome[p][e] = "none"
  BY <1>2 DEF Locked, CountInv, Unsent
<1>4. \A q \in Publishers : outcome[q][e] # "none" => e \in Locked(q)
  BY DEF Locked
<1> QED
  BY <1>2, <1>3, <1>4 DEF CountInv, HeldByOne, HeldPending, Settled

(* A send that succeeds settles its row; one that fails is counted. *)
LEMMA SendKeepsCount ==
  ASSUME CountInv, NEW p \in Publishers, Publish(p) \/ SendFails(p)
  PROVE  SendsCounted'
<1>1. /\ batch[p] \in Seq(Events) /\ batch[p] # << >>
      /\ outcome \in [Publishers -> [Events -> {"none", "published", "retry"}]]
      /\ faults \in [Events -> Nat] /\ rows' = rows
  BY DEF CountInv, OutboxInv, TypeOK, Publish, SendFails
<1>2. PICK e \in Events : e = Head(batch[p])
  BY <1>1
<1>3. ~Settled(e)
  <2>1. 1 \in DOMAIN batch[p] /\ e = batch[p][1]
    BY <1>1, <1>2
  <2> QED
    BY <2>1, UnsentIsUnsettled
<1>4. /\ Cardinality(Sent(e)) \in Nat /\ Cardinality(Sent(e)) <= faults[e]
  BY <1>1, <1>3, SentCountable DEF CountInv, SendsCounted
<1>5. \A f \in Events \ {e} :
        Sent(f)' = Sent(f) /\ faults'[f] = faults[f] /\ (Settled(f)' <=> Settled(f))
  <2>1. \A f \in Events \ {e} : Sent(f)' = Sent(f)
    BY <1>2, AcceptCounts DEF CountInv, Publish, SendFails, Sent
  <2>2. \A f \in Events \ {e} : faults'[f] = faults[f]
    BY <1>1, <1>2 DEF Publish, SendFails
  <2>3. \A f \in Events \ {e}, q \in Publishers : outcome'[q][f] = outcome[q][f]
    <3>1. PICK what : outcome' = [outcome EXCEPT ![p][e] = what]
      BY <1>2 DEF Publish, SendFails, Note
    <3> QED
      BY <1>1, <3>1
  <2> QED
    BY <1>1, <2>1, <2>2, <2>3 DEF Settled
<1>6. Cardinality(Sent(e)') <= faults'[e] + (IF Settled(e)' THEN 1 ELSE 0)
  <2>1. CASE Publish(p)
    <3>1. /\ Accept(e) /\ faults' = faults /\ outcome'[p][e] = "published"
      BY <1>1, <1>2, <2>1 DEF Publish, Note
    <3>2. Cardinality(Sent(e)') \in 0..(Cardinality(Sent(e)) + 1)
      BY <3>1, AcceptCounts DEF CountInv
    <3>3. Settled(e)'
      BY <3>1 DEF Settled
    <3> QED
      BY <1>1, <1>4, <3>1, <3>2, <3>3
  <2>2. CASE SendFails(p)
    <3>1. /\ Accept(e) \/ stream' = stream
          /\ faults'[e] = faults[e] + 1
      BY <1>1, <1>2, <2>2 DEF SendFails
    <3>2. CASE Accept(e)
      <4>1. Cardinality(Sent(e)') \in 0..(Cardinality(Sent(e)) + 1)
        BY <3>2, AcceptCounts DEF CountInv
      <4> QED
        BY <1>1, <1>4, <3>1, <4>1
    <3>3. CASE stream' = stream
      <4>1. Sent(e)' = Sent(e)
        BY <3>3 DEF Sent
      <4> QED
        BY <1>1, <1>4, <3>1, <4>1
    <3> QED
      BY <3>1, <3>2, <3>3
  <2> QED
    BY <2>1, <2>2
<1> QED
  BY <1>5, <1>6 DEF CountInv, SendsCounted

(* The end of a run lets go of its rows: a COMMIT keeps what was settled,  *)
(* a crash forgets it and is counted.                                      *)
LEMMA EndKeepsCount ==
  ASSUME CountInv, NEW p \in Publishers, CommitRun(p) \/ Crash(p)
  PROVE  HeldByOne' /\ HeldPending' /\ Unsent' /\ SendsCounted'
<1>1. /\ stream' = stream /\ running' = running \ {p}
      /\ \A q \in Publishers \ {p} : batch'[q] = batch[q] /\ outcome'[q] = outcome[q]
      /\ batch'[p] = << >> /\ \A e \in Events : outcome'[p][e] = "none"
  BY DEF CountInv, OutboxInv, TypeOK, CommitRun, Crash, EndRun, NoOutcome
<1>2. /\ \A e \in Events : e \notin Locked(p)'
      /\ \A q \in Publishers \ {p} : Locked(q)' = Locked(q)
  BY <1>1 DEF Locked
<1>3. \A e \in Events : rows'[e] # rows[e] => e \in Locked(p)
  BY DEF CommitRun, Crash, Locked, CountInv, OutboxInv, TypeOK
<1>4. HeldByOne' /\ HeldPending' /\ Unsent'
  BY <1>1, <1>2, <1>3 DEF CountInv, HeldByOne, HeldPending, Unsent
<1>5. ASSUME NEW e \in Events
      PROVE  /\ Sent(e)' = Sent(e)
             /\ faults'[e] \in Nat /\ faults[e] \in Nat
             /\ \/ faults'[e] = faults[e] + 1
                \/ faults'[e] = faults[e] /\ (Settled(e) => Settled(e)')
  <2>1. Sent(e)' = Sent(e)
    BY <1>1 DEF Sent
  <2>2. faults \in [Events -> Nat]
    BY DEF CountInv, OutboxInv, TypeOK
  <2>3. CASE CommitRun(p)
    <3>1. /\ faults' = faults
          /\ rows'[e] = IF outcome[p][e] = "published" THEN "published" ELSE rows[e]
      BY <2>3 DEF CommitRun
    <3>2. Settled(e) => Settled(e)'
      BY <1>1, <3>1 DEF Settled
    <3> QED
      BY <2>1, <2>2, <3>1, <3>2
  <2>4. CASE Crash(p)
    <3>1. /\ rows' = rows
          /\ faults'[e] = IF e \in Locked(p) THEN faults[e] + 1 ELSE faults[e]
      BY <2>4 DEF Crash
    <3>2. e \notin Locked(p) => outcome[p][e] = "none"
      BY DEF Locked
    <3>3. e \notin Locked(p) => (Settled(e) => Settled(e)')
      BY <1>1, <3>1, <3>2 DEF Settled
    <3> QED
      BY <2>1, <2>2, <3>1, <3>3
  <2> QED
    BY <2>3, <2>4
<1>6. SendsCounted'
  <2>1. \A e \in Events : Cardinality(Sent(e)) \in Nat
    BY SentCountable DEF CountInv
  <2> QED
    BY <1>5, <2>1 DEF CountInv, SendsCounted
<1> QED
  BY <1>4, <1>6

(* Every step keeps the count. *)
LEMMA CountInvStep == CountInv /\ [Next]_vars => CountInv'
<1> SUFFICES ASSUME CountInv, [Next]_vars PROVE CountInv'
  OBVIOUS
<1>1. OutboxInv'
  BY OutboxInvStep DEF CountInv
<1>2. CASE \E p \in Publishers : Step(p) \/ Crash(p)
  BY <1>1, <1>2, ClaimKeepsCount, SendKeepsHolds, SendKeepsCount, EndKeepsCount
  DEF Step, CountInv
<1>3. CASE \E e \in Events : CommitEvent(e) \/ Elapse(e) \/ Forget(e)
  <2>1. /\ UNCHANGED <<batch, outcome, running, stream, faults>>
        /\ \A e \in Events : rows'[e] # rows[e] => rows[e] = "absent" /\ rows'[e] = "pending"
    BY <1>3 DEF CommitEvent, Elapse, Forget, CountInv, OutboxInv, TypeOK
  <2> QED
    BY <1>1, <2>1, HoldsStay DEF CountInv
<1>4. CASE UNCHANGED vars
  BY <1>1, <1>4, HoldsStay DEF vars, CountInv
<1> QED
  BY <1>2, <1>3, <1>4 DEF Next

(* However many publishers overlap, the queue is given an event again only *)
(* after a send of it failed or a crash forgot one (README.md:586).        *)
THEOREM DuplicatesCaused == Spec => []DuplicatesHaveCause
<1>1. CountInv => DuplicatesHaveCause
  <2> SUFFICES ASSUME CountInv, NEW e \in Events
               PROVE  Cardinality(Sent(e)) <= faults[e] + 1
    BY DEF DuplicatesHaveCause
  <2>1. faults[e] \in Nat /\ Cardinality(Sent(e)) \in Nat
    BY SentCountable DEF CountInv, OutboxInv, TypeOK
  <2> QED
    BY <2>1 DEF CountInv, SendsCounted
<1>2. CountInv /\ [Next]_vars => CountInv'
  BY CountInvStep
<1> QED
  BY CountInvInit, <1>1, <1>2, PTL DEF Spec
=============================================================================

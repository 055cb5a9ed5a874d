----------------------- MODULE PipelineMessageProofs ------------------------
(***************************************************************************)
(* What the steps of WebhookPipeline do to the messages and the rows: each *)
(* lemma shows that a step keeps one conjunct of the inductive invariant.  *)
(***************************************************************************)
EXTENDS PipelineTypeProofs

\* Every leaf that names no prover of its own has 30 seconds of SMT.
USE SMTT(30)

\* A goroutine's delivery is still unacknowledged, or the broker took it back
\* when the connection was lost: then nothing is received any more, and the
\* message is ready again unless a broker restart took it.
DeliveryHeld ==
    /\ \A s \in Slot :
        /\ unacked[s] \in {None, handler[s].msg}
        /\ handler[s].pc # "idle" /\ unacked[s] = None =>
              /\ ~consuming
              /\ handler[s].msg \in Event =>
                    queue[handler[s].msg] > 0 \/ handler[s].msg \in wiped
    /\ worker = "down" => ~consuming /\ \A s \in Slot : handler[s] = IdleHandler

\* Past a 2xx answer, the event is a delivered one.
DeliveredFirst ==
    \A s \in Slot : handler[s].pc \in {"delivered", "markSuccess", "ack"} =>
        handler[s].msg \in delivered

\* The row of a request past SaveEvent, published or not.
SavedRow ==
    \A e \in Event : ingest[e] \in {"saved", "accepted"} /\ status[e] = "absent" =>
        \E f \in Event \ {e} : status[f] # "absent" /\ Key(f) = Key(e)

-----------------------------------------------------------------------------
(* What the audit trail says.                                               *)

\* Once delivered, always delivered; past a 2xx the event is delivered.
LEMMA DeliveredStep ==
    ASSUME TypeOK, HandlerOK, DeliveredFirst, [Next]_vars
    PROVE  delivered \subseteq delivered' /\ DeliveredFirst'
<1>1. CASE UNCHANGED vars
  BY <1>1 DEF vars, workerVars, history, DeliveredFirst
<1>2. ASSUME NEW e \in Event, Ingestion(e)
      PROVE  delivered \subseteq delivered' /\ DeliveredFirst'
  BY <1>2, IngestionFrame DEF DeliveredFirst
<1>3. ASSUME NEW r \in Replayer, Replaying(r)
      PROVE  delivered \subseteq delivered' /\ DeliveredFirst'
  BY <1>3, ReplayingFrame DEF DeliveredFirst
<1>4. ASSUME NEW s \in Slot, Delivering(s)
      PROVE  delivered \subseteq delivered' /\ DeliveredFirst'
  <2>1. delivered \subseteq delivered'
    BY <1>4 DEF Delivering, Receive, Malformed, CheckBreaker, ReadState, PostSucceeds,
       PostFails, Backoff, RecordFailure, RecordSuccess, MarkFailed, MarkSuccess,
       Settle, history
  <2>2. handler[s] \in Handler /\ handler \in [Slot -> Handler]
    BY Zenon DEF TypeOK
  <2>3. handler'[s].pc \in {"delivered", "markSuccess", "ack"} => handler'[s].msg \in delivered'
    <3>1. CASE PostSucceeds(s)
      BY <2>2, <3>1 DEF PostSucceeds, Goto, Handler
    <3>2. CASE RecordSuccess(s) \/ MarkSuccess(s)
      BY <2>1, <2>2, <3>2 DEF RecordSuccess, MarkSuccess, At, Goto, Handler, DeliveredFirst
    <3> QED
      BY <1>4, <2>2, <3>1, <3>2
      DEF Delivering, Receive, Malformed, CheckBreaker, ReadState, PostFails, Backoff,
          RecordFailure, MarkFailed, Settle, Goto, IdleHandler, Handler
  <2>4. \A t \in Slot \ {s} : handler'[t] = handler[t]
    BY <1>4, DeliveringFrame, Zenon
  <2> QED
    BY <2>1, <2>3, <2>4 DEF DeliveredFirst
<1>5. CASE Operations
  BY <1>5, OperationsFrame DEF DeliveredFirst, IdleHandler
<1> QED
  BY <1>1, <1>2, <1>3, <1>4, <1>5, Zenon DEF Next

\* The audit trail stays true: success is written past a 2xx answer only.
LEMMA SuccessStep ==
    ASSUME TypeOK, HandlerOK, DeliveredFirst, SuccessWasDelivered, [Next]_vars
    PROVE  SuccessWasDelivered'
<1>1. delivered \subseteq delivered'
  BY DeliveredStep
<1>2. ASSUME NEW e \in Event, status'[e] = "success" PROVE e \in delivered'
  <2>1. CASE status'[e] = status[e]
    BY <1>1, <1>2, <2>1, Zenon DEF SuccessWasDelivered
  <2>2. CASE status'[e] # status[e]
    BY <1>1, <1>2, <2>2, StatusWriters DEF At, DeliveredFirst
  <2> QED
    BY <2>1, <2>2
<1> QED
  BY <1>2 DEF SuccessWasDelivered

\* The row of a saved event stays, and so does the row that took its key.
LEMMA SavedRowStep ==
    ASSUME TypeOK, HandlerOK, SavedRow, [Next]_vars
    PROVE  SavedRow'
<1>1. request' = request
  BY IngestionFrame, ReplayingFrame, DeliveringFrame, OperationsFrame DEF Next, vars
<1>2. \A f \in Event : status[f] # "absent" => status'[f] # "absent"
  BY StatusWriters
<1>3. ASSUME NEW e \in Event, ingest'[e] \in {"saved", "accepted"}, status'[e] = "absent"
      PROVE  \E f \in Event \ {e} : status'[f] # "absent" /\ Key(f)' = Key(e)'
  <2>1. status[e] = "absent"
    BY <1>2, <1>3
  <2>2. \A f \in Event : Key(f)' = Key(f)
    BY <1>1 DEF Key
  <2>3. CASE ingest[e] \in {"saved", "accepted"}
    BY <1>2, <2>1, <2>2, <2>3, Zenon DEF SavedRow
  <2>4. CASE ingest[e] \notin {"saved", "accepted"}
    <3>1. Save(e)
      <4>1. \A f \in Event : Ingestion(f) =>
               Save(e) \/ ingest'[e] = ingest[e] \/ ingest'[e] = "refused" \/ ingest[e] = "saved"
        BY Zenon DEF Ingestion, Save, SaveFails, Accept, PublishFails, Refuse, TypeOK
      <4>2. Operations => ingest'[e] = ingest[e] \/ ingest'[e] = "refused"
        BY DEF Operations, Crash, Exit, ProcessEnds, Sigterm, StopLoop, StartWorker,
           ConnLost, PublisherLost, PublisherNoticed, GatewayRestart, BrokerRestart,
           gatewayVars
      <4> QED
        BY <1>3, <2>4, <4>1, <4>2, ReplayingFrame, DeliveringFrame, Zenon
        DEF Next, vars, gatewayVars
    <3>2. \E f \in Event : status[f] # "absent" /\ Key(f) = Key(e)
      BY <1>3, <3>1 DEF Save, SaveEvent, TypeOK, StoreTypeOK
    <3> QED
      BY <1>2, <2>1, <2>2, <3>2, Zenon
  <2> QED
    BY <2>3, <2>4
<1> QED
  BY <1>3, Zenon DEF SavedRow

-----------------------------------------------------------------------------
(* Where the copies of a message are.                                       *)

\* The gateway only adds to the main queue, one message at a time.
LEMMA Published ==
    ASSUME TypeOK,
           \/ \E e \in Event : Ingestion(e)
           \/ \E r \in Replayer : Replaying(r)
    PROVE  /\ \/ queue' = queue
              \/ \E e \in Event : queue' = [queue EXCEPT ![e] = @ + 1]
           /\ lost \subseteq lost'
<1>1. ASSUME NEW e \in Event, Ingestion(e)
      PROVE  (queue' = queue \/ queue' = [queue EXCEPT ![e] = @ + 1]) /\ lost \subseteq lost'
  BY <1>1 DEF Ingestion, Save, SaveFails, Accept, PublishFails, Publish, Enqueue,
     PublishIntoVoid, PublishRefused, brokerVars, history
<1>2. ASSUME NEW r \in Replayer, Replaying(r)
      PROVE  /\ \/ queue' = queue
                \/ replay[r].ev \in Event /\ queue' = [queue EXCEPT ![replay[r].ev] = @ + 1]
             /\ lost \subseteq lost'
  BY <1>2, Zenon DEF TypeOK, Replaying, ReplayQuery, ReplayQueryFails, ReplayReset,
     ReplayResetFails, ReplayPublish, ReplayDone, Publish, Enqueue, PublishIntoVoid,
     PublishRefused, brokerVars, history
<1> QED
  BY <1>1, <1>2, Zenon

\* What is in the main queue stays there when something is published.
LEMMA PublishedGrows ==
    ASSUME TypeOK,
           \/ \E e \in Event : Ingestion(e)
           \/ \E r \in Replayer : Replaying(r)
    PROVE  lost \subseteq lost' /\ \A e \in Event : queue[e] > 0 => queue'[e] > 0
<1>1. queue \in [Msg -> Nat] /\ Event \subseteq Msg
  BY PipelineAssumption, Zenon DEF TypeOK, BrokerTypeOK
<1>2. CASE queue' = queue
  BY <1>2, Published, Zenon
<1>3. ASSUME NEW f \in Event, queue' = [queue EXCEPT ![f] = @ + 1]
      PROVE  \A e \in Event : queue[e] > 0 => queue'[e] > 0
  BY <1>1, <1>3
<1> QED
  BY <1>2, <1>3, Published, Zenon

\* A goroutine receives, settles, or works on the delivery it has.
LEMMA DeliveringKinds ==
    ASSUME TypeOK, HandlerOK, NEW s \in Slot, Delivering(s)
    PROVE  \/ Receive(s)
           \/ Malformed(s) \/ Settle(s)
           \/ /\ UNCHANGED brokerVars
              /\ handler'[s].msg = handler[s].msg
              /\ handler[s].pc # "idle" /\ handler'[s].pc # "idle"
<1>1. handler[s] \in Handler /\ handler \in [Slot -> Handler]
  BY DEF TypeOK
<1>2. CASE CheckBreaker(s) \/ ReadState(s) \/ PostSucceeds(s) \/ PostFails(s)
  BY <1>1, <1>2 DEF CheckBreaker, ReadState, PostSucceeds, PostFails, At, Goto, Handler
<1>3. CASE Backoff(s) \/ RecordFailure(s) \/ RecordSuccess(s) \/ MarkFailed(s) \/ MarkSuccess(s)
  BY <1>1, <1>3 DEF Backoff, RecordFailure, RecordSuccess, MarkFailed, MarkSuccess,
                    At, Goto, Handler
<1> QED
  BY <1>2, <1>3, Zenon DEF Delivering

\* What the broker takes back is ready again, and what was ready still is.
LEMMA TakenBackQueue ==
    ASSUME TypeOK, TakenBack
    PROVE  /\ \A m \in Msg : queue[m] > 0 \/ (\E s \in Slot : unacked[s] = m) => queue'[m] > 0
           /\ \A s \in Slot : unacked'[s] = None
           /\ dlq' = dlq
<1> DEFINE held(m) == {s \in Slot : unacked[s] = m}
<1>1. \A m \in Msg : Cardinality(held(m)) \in Nat /\ (held(m) # {} => Cardinality(held(m)) > 0)
  BY SlotCount, Zenon
<1>2. \A m \in Msg : queue[m] \in Nat /\ queue'[m] = queue[m] + Cardinality(held(m))
  BY DEF TakenBack, Requeue, TypeOK, BrokerTypeOK
<1>3. \A m \in Msg : (\E s \in Slot : unacked[s] = m) => held(m) # {}
  OBVIOUS
<1>4. (\A s \in Slot : unacked'[s] = None) /\ dlq' = dlq
  BY DEF TakenBack, Requeue
<1> HIDE DEF held
<1>5. \A m \in Msg : queue[m] > 0 \/ (\E s \in Slot : unacked[s] = m) => queue'[m] > 0
  BY <1>1, <1>2, <1>3
<1> QED
  BY <1>4, <1>5

\* Every goroutine's delivery is accounted for by the broker.
LEMMA HeldStep ==
    ASSUME TypeOK, HandlerOK, DeliveryHeld, [Next]_vars
    PROVE  DeliveryHeld'
<1>0. Event \subseteq Msg /\ None \notin Msg
  BY PipelineAssumption, Zenon
<1>1. CASE UNCHANGED vars
  BY <1>1, Zenon DEF vars, brokerVars, workerVars, processVars, history, DeliveryHeld
<1>2. ASSUME \/ \E e \in Event : Ingestion(e)
             \/ \E r \in Replayer : Replaying(r)
      PROVE  DeliveryHeld'
  <2>1. UNCHANGED <<unacked, handler, consuming, worker, wiped>>
    BY <1>2, IngestionFrame, ReplayingFrame, Zenon
  <2>2. \A e \in Event : queue[e] > 0 => queue'[e] > 0
    BY <1>2, PublishedGrows, Zenon
  <2> QED
    BY <2>1, <2>2 DEF DeliveryHeld
<1>3. ASSUME NEW s \in Slot, Delivering(s)
      PROVE  DeliveryHeld'
  <2>0. /\ UNCHANGED <<consuming, worker, wiped>>
        /\ \A t \in Slot \ {s} : handler'[t] = handler[t] /\ unacked'[t] = unacked[t]
    BY <1>3, DeliveringFrame, Zenon
  <2>1. CASE Receive(s)
    <3>1. consuming /\ worker # "down"
      BY <2>1, Zenon DEF Receive, DeliveryHeld
    <3>2. PICK m \in Msg : handler'[s].msg = m /\ unacked'[s] = m
      BY <2>1 DEF Receive, Deliver, TypeOK, BrokerTypeOK
    <3> QED
      BY <1>0, <2>0, <3>1, <3>2, Zenon DEF DeliveryHeld
  <2>2. CASE Malformed(s) \/ Settle(s)
    <3>1. handler'[s] = IdleHandler /\ unacked'[s] = None /\ queue' = queue
      BY <2>2 DEF Malformed, Settle, Ack, Nack, TypeOK, BrokerTypeOK
    <3> QED
      BY <2>0, <3>1 DEF DeliveryHeld, IdleHandler
  <2>3. CASE /\ UNCHANGED brokerVars
             /\ handler'[s].msg = handler[s].msg
             /\ handler[s].pc # "idle" /\ handler'[s].pc # "idle"
    <3>1. worker # "down"
      BY <2>3 DEF DeliveryHeld, IdleHandler
    <3> QED
      BY <2>0, <2>3, <3>1, Zenon DEF DeliveryHeld, brokerVars
  <2> QED
    BY <1>3, <2>1, <2>2, <2>3, DeliveringKinds, Zenon
<1>4. CASE Operations
  <2>1. CASE ProcessEnds
    <3>1. /\ \A s \in Slot : handler'[s] = IdleHandler /\ unacked'[s] = None
          /\ consuming' = FALSE
      BY <2>1, Zenon DEF ProcessEnds, TakenBack, Requeue
    <3> QED
      BY <3>1 DEF DeliveryHeld, IdleHandler
  <2>2. CASE Sigterm \/ StopLoop \/ PublisherLost \/ PublisherNoticed \/ GatewayRestart
    <3>1. /\ UNCHANGED <<queue, unacked, handler, wiped>>
          /\ consuming' => consuming
          /\ worker' = "down" => worker = "down"
      BY <2>2 DEF Sigterm, StopLoop, PublisherLost, PublisherNoticed, GatewayRestart,
                  brokerVars, workerVars, processVars, history
    <3> QED
      BY <3>1, Zenon DEF DeliveryHeld
  <2>3. CASE StartWorker
    <3>1. \A s \in Slot : handler'[s] = IdleHandler /\ unacked'[s] = unacked[s]
      BY <2>3, Zenon DEF StartWorker, DeliveryHeld, brokerVars
    <3> QED
      BY <2>3, <3>1 DEF StartWorker, DeliveryHeld, IdleHandler
  <2>4. CASE ConnLost
    <3>1. UNCHANGED <<handler, worker, wiped>> /\ ~consuming' /\ TakenBack
      BY <2>4, Zenon DEF ConnLost
    <3>2. worker # "down"
      BY <2>4, <1>0 DEF ConnLost, DeliveryHeld, IdleHandler
    <3>3. ASSUME NEW s \in Slot, handler[s].pc # "idle", handler[s].msg \in Event
          PROVE  queue'[handler[s].msg] > 0 \/ handler[s].msg \in wiped
      BY <1>0, <3>1, <3>3, TakenBackQueue, Zenon DEF DeliveryHeld
    <3> QED
      BY <3>1, <3>2, <3>3, TakenBackQueue, Zenon DEF DeliveryHeld
  <2>5. CASE BrokerRestart
    <3>1. /\ UNCHANGED <<handler, worker>> /\ ~consuming'
          /\ \A s \in Slot : unacked'[s] = None
          /\ wiped \subseteq wiped'
      BY <2>5, Zenon DEF BrokerRestart, LoseMessages
    <3>2. ASSUME NEW s \in Slot, handler[s].pc # "idle", handler[s].msg \in Event
          PROVE  handler[s].msg \in wiped'
      BY <2>5, <3>2, Zenon DEF BrokerRestart, DeliveryHeld
    <3> QED
      BY <3>1, <3>2, Zenon DEF DeliveryHeld
  <2> QED
    BY <1>4, <2>1, <2>2, <2>3, <2>4, <2>5, Zenon DEF Operations, Crash, Exit
<1> QED
  BY <1>1, <1>2, <1>3, <1>4, Zenon DEF Next

\* An accepted event stays with the broker until it is delivered, unless its
\* publish was lost or a broker restart took it.
LEMMA KeptStep ==
    ASSUME TypeOK, HandlerOK, DeliveryHeld, DeliveredFirst, NeverDropped, [Next]_vars
    PROVE  NeverDropped'
<1>0. Event \subseteq Msg /\ None \notin Msg
  BY PipelineAssumption
<1>1. delivered \subseteq delivered'
  BY DeliveredStep, Zenon
<1>2. CASE UNCHANGED vars
  BY <1>2, Zenon DEF vars, brokerVars, gatewayVars, history, NeverDropped
<1>3. ASSUME \/ \E e \in Event : Ingestion(e)
             \/ \E r \in Replayer : Replaying(r)
      PROVE  NeverDropped'
  <2>1. UNCHANGED <<unacked, dlq, wiped>>
    BY <1>3, IngestionFrame, ReplayingFrame, Zenon
  <2>2. lost \subseteq lost' /\ \A e \in Event : queue[e] > 0 => queue'[e] > 0
    BY <1>3, PublishedGrows, Zenon
  <2>3. ASSUME NEW e \in Event, ingest'[e] = "accepted", ingest[e] # "accepted"
        PROVE  queue'[e] > 0 \/ e \in lost'
    <3>1. PICK f \in Event : Ingestion(f)
      BY <1>3, <2>3, ReplayingFrame, Zenon
    <3>2. Accept(f) /\ f = e
      BY <2>3, <3>1, Zenon DEF Ingestion, Save, SaveFails, Accept, PublishFails, Refuse, TypeOK
    <3> QED
      BY <1>0, <3>2 DEF Accept, Publish, Enqueue, TypeOK, BrokerTypeOK
  <2> QED
    BY <1>1, <2>1, <2>2, <2>3, Zenon DEF NeverDropped
<1>4. ASSUME NEW s \in Slot, Delivering(s)
      PROVE  NeverDropped'
  <2>0. /\ UNCHANGED <<ingest, lost, wiped>>
        /\ \A t \in Slot \ {s} : unacked'[t] = unacked[t]
    BY <1>4, DeliveringFrame, Zenon
  <2>1. CASE Receive(s)
    <3>1. PICK m \in Msg : /\ queue' = [queue EXCEPT ![m] = @ - 1]
                           /\ unacked[s] = None /\ unacked'[s] = m
                           /\ dlq' = dlq
      BY <2>1, Zenon DEF Receive, Deliver, TypeOK, BrokerTypeOK
    <3>2. \A e \in Event \ {m} : queue'[e] = queue[e]
      BY <1>0, <3>1, Zenon DEF TypeOK, BrokerTypeOK
    <3> QED
      BY <1>0, <1>1, <2>0, <3>1, <3>2 DEF NeverDropped
  <2>2. CASE Malformed(s) \/ Settle(s)
    <3>0. Ack(s) \/ Nack(s)
      BY <2>2, Zenon DEF Malformed, Settle
    <3>1. queue' = queue /\ \A m \in Msg : dlq[m] > 0 => dlq'[m] > 0
      BY <3>0 DEF Ack, Nack, TypeOK, BrokerTypeOK
    <3>2. ASSUME NEW e \in Event, unacked[s] = e PROVE dlq'[e] > 0 \/ e \in delivered
      <4>1. handler[s].msg = e /\ e \in Msg /\ e # None
        BY <1>0, <3>2, Zenon DEF DeliveryHeld
      <4>2. CASE Nack(s)
        BY <3>2, <4>1, <4>2 DEF Nack, TypeOK, BrokerTypeOK
      <4>3. CASE At(s, "ack")
        BY <4>1, <4>3 DEF At, DeliveredFirst
      <4> QED
        BY <2>2, <4>2, <4>3, Zenon DEF Malformed, Settle
    <3> QED
      BY <1>0, <1>1, <2>0, <3>1, <3>2 DEF NeverDropped
  <2>3. CASE UNCHANGED brokerVars
    BY <1>1, <2>0, <2>3, Zenon DEF NeverDropped, brokerVars
  <2> QED
    BY <1>4, <2>1, <2>2, <2>3, DeliveringKinds, Zenon
<1>5. CASE Operations
  <2>0. lost' = lost /\ \A e \in Event : ingest'[e] = "accepted" => ingest[e] = "accepted"
    BY <1>5, Zenon DEF Operations, Crash, Exit, ProcessEnds, Sigterm, StopLoop, StartWorker,
       ConnLost, PublisherLost, PublisherNoticed, GatewayRestart, BrokerRestart, gatewayVars,
       history
  <2>1. CASE TakenBack /\ wiped' = wiped
    BY <1>0, <1>1, <2>0, <2>1, TakenBackQueue, Zenon DEF NeverDropped
  <2>2. CASE UNCHANGED <<queue, dlq, unacked, wiped>>
    BY <1>1, <2>0, <2>2, Zenon DEF NeverDropped
  <2>3. CASE BrokerRestart
    BY <1>1, <2>0, <2>3, Zenon DEF BrokerRestart, NeverDropped
  <2> QED
    BY <1>5, <2>1, <2>2, <2>3, Zenon
    DEF Operations, Crash, Exit, ProcessEnds, Sigterm, StopLoop, StartWorker, ConnLost,
        PublisherLost, PublisherNoticed, GatewayRestart, brokerVars, history
<1> QED
  BY <1>2, <1>3, <1>4, <1>5, Zenon DEF Next

\* A row that is pending has somebody left to resolve it, or is explained.
LEMMA OrphanStep ==
    ASSUME TypeOK, HandlerOK, DeliveryHeld, OrphansExplained, [Next]_vars
    PROVE  OrphansExplained'
<1>0. Event \subseteq Msg /\ None \notin Msg
  BY PipelineAssumption, Zenon
<1>1. CASE UNCHANGED vars
  BY <1>1, Zenon DEF vars, brokerVars, gatewayVars, workerVars, history, OrphansExplained,
              InPipeline, AboutToPublish
<1>2. ASSUME NEW e \in Event, Ingestion(e)
      PROVE  OrphansExplained'
  <2>1. UNCHANGED <<replay, handler, wiped>>
    BY <1>2, IngestionFrame, Zenon
  <2>2. lost \subseteq lost' /\ \A f \in Event : queue[f] > 0 => queue'[f] > 0
    BY <1>2, PublishedGrows, Zenon
  <2>3. abandoned \subseteq abandoned'
    BY <1>2, Zenon DEF Ingestion, Save, SaveFails, Accept, PublishFails, Refuse, history
  <2>4. \A f \in Event \ {e} : ingest'[f] = ingest[f] /\ status'[f] = status[f]
    BY <1>2 DEF Ingestion, Save, SaveFails, Accept, PublishFails, Refuse, SaveEvent,
       TypeOK, StoreTypeOK
  <2>5. status'[e] = "pending" =>
           InPipeline(e)' \/ e \in abandoned' \cup lost' \cup wiped'
    <3>1. CASE Save(e)
      BY <3>1, Zenon DEF Save, TypeOK, InPipeline, AboutToPublish
    <3>2. CASE Accept(e)
      BY <1>0, <3>2 DEF Accept, Publish, Enqueue, TypeOK, BrokerTypeOK, InPipeline
    <3>3. CASE SaveFails(e) \/ PublishFails(e)
      BY <3>3, Zenon DEF SaveFails, PublishFails, Refuse
    <3> QED
      BY <1>2, <3>1, <3>2, <3>3, Zenon DEF Ingestion
  <2> QED
    BY <2>1, <2>2, <2>3, <2>4, <2>5 DEF OrphansExplained, InPipeline, AboutToPublish
<1>3. ASSUME NEW r \in Replayer, Replaying(r)
      PROVE  OrphansExplained'
  <2>1. /\ UNCHANGED <<ingest, handler, wiped>>
        /\ \A q \in Replayer \ {r} : replay'[q] = replay[q]
    BY <1>3, ReplayingFrame, Zenon
  <2>2. lost \subseteq lost' /\ \A f \in Event : queue[f] > 0 => queue'[f] > 0
    <3>1. /\ lost \subseteq lost'
          /\ \/ queue' = queue
             \/ \E e \in Event : queue' = [queue EXCEPT ![e] = @ + 1]
      BY <1>3, Published, Zenon
    <3> QED
      BY <1>0, <3>1 DEF TypeOK, BrokerTypeOK
  <2>3. replay \in [Replayer -> Replay] /\ replay[r] \in Replay
    BY Zenon DEF TypeOK
  <2>4. abandoned \subseteq abandoned'
    BY <1>3 DEF Replaying, ReplayQuery, ReplayQueryFails, ReplayReset, ReplayResetFails,
       ReplayPublish, ReplayDone, history
  <2>5. ASSUME NEW f \in Event, status'[f] = "pending"
        PROVE  InPipeline(f)' \/ f \in abandoned' \cup lost' \cup wiped'
    <3>1. CASE ReplayReset(r)
      <4>1. PICK e \in replay[r].todo :
               /\ UpdateEventStatus(e, "pending")
               /\ replay' = [replay EXCEPT ![r].pc = "publish", ![r].ev = e]
        BY <3>1, Zenon DEF ReplayReset
      <4>2. CASE f = e
        BY <2>3, <4>1, <4>2 DEF InPipeline, AboutToPublish, Replay
      <4>3. CASE f # e
        <5>1. status[f] = "pending" /\ replay[r].pc = "loop"
          BY <2>5, <3>1, <4>1, <4>3, Zenon DEF ReplayReset, UpdateEventStatus, TypeOK, StoreTypeOK
        <5> QED
          BY <2>1, <2>2, <2>4, <5>1, Zenon DEF OrphansExplained, InPipeline, AboutToPublish
      <4> QED
        BY <4>2, <4>3, Zenon
    <3>2. CASE ReplayResetFails(r)
      <4>1. PICK e \in replay[r].todo :
               /\ UpdateEventStatus(e, "pending") \/ UNCHANGED status
               /\ e \in abandoned'
        BY <3>2, Zenon DEF ReplayResetFails
      <4>2. CASE f # e
        <5>1. status[f] = "pending" /\ replay[r].pc = "loop"
          BY <2>5, <3>2, <4>1, <4>2, Zenon DEF ReplayResetFails, UpdateEventStatus,
             TypeOK, StoreTypeOK
        <5> QED
          BY <2>1, <2>2, <2>4, <5>1 DEF OrphansExplained, InPipeline, AboutToPublish
      <4> QED
        BY <4>1, <4>2, Zenon
    <3>3. CASE ReplayPublish(r)
      <4>1. status[f] = "pending"
        BY <2>5, <3>3, Zenon DEF ReplayPublish
      <4>2. f = replay[r].ev => queue'[f] > 0 \/ f \in abandoned' \cup lost'
        BY <1>0, <3>3 DEF ReplayPublish, Publish, Enqueue, TypeOK, BrokerTypeOK
      <4> QED
        BY <2>1, <2>2, <2>4, <4>1, <4>2, Zenon DEF OrphansExplained, InPipeline, AboutToPublish
    <3>4. CASE ReplayQuery(r) \/ ReplayQueryFails(r) \/ ReplayDone(r)
      <4>1. status[f] = "pending" /\ replay[r].pc # "publish"
        BY <2>5, <3>4, Zenon DEF ReplayQuery, ReplayQueryFails, ReplayDone
      <4> QED
        BY <2>1, <2>2, <2>4, <4>1, Zenon DEF OrphansExplained, InPipeline, AboutToPublish
    <3> QED
      BY <1>3, <3>1, <3>2, <3>3, <3>4, Zenon DEF Replaying
  <2> QED
    BY <2>5 DEF OrphansExplained
<1>4. ASSUME NEW s \in Slot, Delivering(s)
      PROVE  OrphansExplained'
  <2>0. /\ UNCHANGED <<ingest, replay, lost, wiped>>
        /\ \A t \in Slot \ {s} : handler'[t] = handler[t]
    BY <1>4, DeliveringFrame, Zenon
  <2>1. handler[s] \in Handler /\ handler \in [Slot -> Handler]
    BY Zenon DEF TypeOK
  <2>2. CASE Receive(s)
    <3>1. PICK m \in Msg : /\ queue' = [queue EXCEPT ![m] = @ - 1]
                           /\ handler'[s] = [pc |-> "start", msg |-> m, attempt |-> 0]
      BY <2>1, <2>2, Zenon DEF Receive, Deliver
    <3>2. UNCHANGED <<status, abandoned>> /\ handler[s].msg = None
      BY <2>2, Zenon DEF Receive, At, HandlerOK, history
    <3>3. \A e \in Event \ {m} : queue'[e] = queue[e]
      BY <1>0, <3>1, Zenon DEF TypeOK, BrokerTypeOK
    <3>4. m \in Event => InPipeline(m)'
      BY <3>1 DEF InPipeline
    <3>5. \A e \in Event : InPipeline(e) => InPipeline(e)'
      BY <1>0, <2>0, <3>2, <3>3, <3>4, Zenon DEF InPipeline, AboutToPublish
    <3> QED
      BY <2>0, <3>2, <3>5, Zenon DEF OrphansExplained
  <2>3. CASE Malformed(s) \/ Settle(s)
    <3>1. UNCHANGED <<queue, status, abandoned>>
      BY <2>3 DEF Malformed, Settle, Ack, Nack, history
    <3>2. handler[s].msg \notin Event \/ handler[s].pc \in {"nack", "ack"}
      BY <2>3, Zenon DEF Malformed, Settle, At
    <3> QED
      BY <2>0, <3>1, <3>2, Zenon DEF OrphansExplained, InPipeline, AboutToPublish
  <2>4. CASE MarkFailed(s) \/ MarkSuccess(s)
    <3> DEFINE m == handler[s].msg
    <3>1. m \in Event
      BY <2>4, Zenon DEF MarkFailed, MarkSuccess, At, HandlerOK
    <3>2. /\ queue' = queue
          /\ \A e \in Event \ {m} : status'[e] = status[e]
      BY <2>4, Zenon DEF MarkFailed, MarkSuccess, Mark, UpdateEventStatus, brokerVars, TypeOK,
                  StoreTypeOK
    <3>3. PICK outcome \in {"failed", "success"} :
             abandoned' = IF status'[m] = outcome THEN abandoned \ {m} ELSE abandoned \cup {m}
      BY <2>4, Zenon DEF MarkFailed, MarkSuccess, Mark
    <3>4. status'[m] = "pending" => m \in abandoned'
      BY <3>3
    <3>5. ASSUME NEW e \in Event \ {m}
          PROVE  (InPipeline(e) => InPipeline(e)') /\ (e \in abandoned => e \in abandoned')
      BY <2>0, <3>2, <3>3, Zenon DEF InPipeline, AboutToPublish
    <3> QED
      BY <2>0, <3>2, <3>4, <3>5, Zenon DEF OrphansExplained
  <2>5. CASE /\ UNCHANGED <<queue, status, abandoned>>
             /\ handler'[s].msg = handler[s].msg
             /\ handler'[s].pc \notin {"nack", "ack"}
    BY <2>0, <2>5, Zenon DEF OrphansExplained, InPipeline, AboutToPublish
  <2>6. CASE CheckBreaker(s) \/ ReadState(s) \/ PostSucceeds(s) \/ PostFails(s)
    BY <2>1, <2>5, <2>6 DEF CheckBreaker, ReadState, PostSucceeds, PostFails, Goto, Handler,
       brokerVars, history
  <2>7. CASE Backoff(s) \/ RecordFailure(s) \/ RecordSuccess(s)
    BY <2>1, <2>5, <2>7 DEF Backoff, RecordFailure, RecordSuccess, Goto, Handler,
       brokerVars, history
  <2> QED
    BY <1>4, <2>2, <2>3, <2>4, <2>6, <2>7, Zenon DEF Delivering
<1>5. CASE Operations
  <2>0. status' = status
    BY <1>5, OperationsFrame, Zenon
  <2>1. CASE ProcessEnds
    <3>1. UNCHANGED <<ingest, replay, lost, wiped, abandoned>> /\ TakenBack
      BY <2>1, Zenon DEF ProcessEnds, gatewayVars
    <3>2. ASSUME NEW e \in Event, InPipeline(e) PROVE InPipeline(e)' \/ e \in wiped
      <4>1. CASE \E s \in Slot : handler[s].msg = e
        <5>1. PICK s \in Slot : handler[s].msg = e
          BY <4>1, Zenon
        <5>2. handler[s].pc # "idle"
          BY <1>0, <5>1, Zenon DEF HandlerOK
        <5>3. unacked[s] = e \/ queue[e] > 0 \/ e \in wiped
          BY <5>1, <5>2 DEF DeliveryHeld
        <5> QED
          BY <1>0, <3>1, <5>3, TakenBackQueue, Zenon DEF InPipeline
      <4> QED
        BY <1>0, <3>1, <3>2, <4>1, TakenBackQueue, Zenon DEF InPipeline, AboutToPublish
    <3> QED
      BY <2>0, <3>1, <3>2 DEF OrphansExplained
  <2>2. CASE Sigterm \/ StopLoop \/ PublisherLost \/ PublisherNoticed \/ StartWorker
    <3>1. UNCHANGED <<queue, ingest, replay, handler, lost, wiped, abandoned>>
      BY <2>2, Zenon DEF Sigterm, StopLoop, PublisherLost, PublisherNoticed, StartWorker,
         brokerVars, gatewayVars, workerVars, history
    <3> QED
      BY <2>0, <3>1, Zenon DEF OrphansExplained, InPipeline, AboutToPublish
  <2>3. CASE ConnLost
    <3>1. UNCHANGED <<ingest, replay, handler, lost, wiped, abandoned>> /\ TakenBack
      BY <2>3, Zenon DEF ConnLost, gatewayVars
    <3> QED
      BY <1>0, <2>0, <3>1, TakenBackQueue, Zenon DEF OrphansExplained, InPipeline, AboutToPublish
  <2>4. CASE GatewayRestart
    <3>1. /\ UNCHANGED <<queue, handler, lost, wiped>>
          /\ abandoned' = abandoned \cup {e \in Event : AboutToPublish(e)}
      BY <2>4, Zenon DEF GatewayRestart, workerVars
    <3> QED
      BY <2>0, <3>1 DEF OrphansExplained, InPipeline
  <2>5. CASE BrokerRestart
    <3>1. UNCHANGED <<ingest, replay, handler, lost, abandoned>> /\ wiped \subseteq wiped'
      BY <2>5, Zenon DEF BrokerRestart, gatewayVars
    <3>2. \A e \in Event : queue[e] > 0 => e \in wiped'
      BY <2>5 DEF BrokerRestart
    <3> QED
      BY <2>0, <3>1, <3>2, Zenon DEF OrphansExplained, InPipeline, AboutToPublish
  <2> QED
    BY <1>5, <2>1, <2>2, <2>3, <2>4, <2>5, Zenon DEF Operations, Crash, Exit
<1> QED
  BY <1>1, <1>2, <1>3, <1>4, <1>5, Zenon DEF Next
=============================================================================

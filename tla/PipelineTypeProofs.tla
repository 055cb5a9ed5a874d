------------------------- MODULE PipelineTypeProofs -------------------------
(***************************************************************************)
(* Every step of WebhookPipeline keeps the types, and what the steps of each *)
(* actor leave alone.                                                      *)
(***************************************************************************)
EXTENDS WebhookPipeline, FiniteSetTheorems, TLAPS

\* Every leaf that names no prover of its own has 30 seconds of SMT.
USE SMTT(30)

\* What a goroutine works on: nothing while idle, a well-formed event once its
\* body was unmarshalled; and it backs off only before its last attempt.
HandlerOK ==
    \A s \in Slot :
        /\ handler[s].pc = "idle" => handler[s].msg = None
        /\ handler[s].pc # "idle" => handler[s].msg \in Msg
        /\ handler[s].pc \notin {"idle", "start"} => handler[s].msg \in Event
        /\ handler[s].pc = "backoff" => handler[s].attempt < MaxAttempts - 1

-----------------------------------------------------------------------------
\* The breaker operations keep a breaker a breaker.
LEMMA BreakerTypes ==
    ASSUME NEW b \in B!Breaker
    PROVE  /\ B!OnTimeout(b) \in B!Breaker
           /\ B!OnSuccess(b) \in B!Breaker
           /\ B!OnFailure(b) \in B!Breaker
           /\ B!Fresh \in B!Breaker
BY DEF B!Breaker, B!OnTimeout, B!OnSuccess, B!OnFailure, B!Fresh

\* How many slots hold a message is a number, positive if one does.
LEMMA SlotCount ==
    ASSUME NEW P \in SUBSET Slot
    PROVE  /\ IsFiniteSet(P)
           /\ Cardinality(P) \in Nat
           /\ P # {} => Cardinality(P) > 0
<1>1. IsFiniteSet(P)
  BY FS_Subset, PipelineAssumption
<1>2. Cardinality(P) \in Nat /\ (Cardinality(P) = 0 <=> P = {})
  BY <1>1, FS_CardinalityType, FS_EmptySet
<1> QED
  BY <1>1, <1>2

\* Init establishes the types.
LEMMA TypeInit == Init => TypeOK /\ HandlerOK
<1> SUFFICES ASSUME Init PROVE TypeOK /\ HandlerOK
  OBVIOUS
<1>1. StoreTypeOK /\ BrokerTypeOK
  BY DEF Init, StoreInit, StoreTypeOK, Status, BrokerInit, BrokerTypeOK, Connection
<1>2. handler \in [Slot -> Handler] /\ HandlerOK
  BY PipelineAssumption DEF Init, IdleHandler, Handler, HandlerOK
<1>3. breaker \in [Target -> B!Breaker] /\ generation \in Nat
  BY DEF Init, B!Init, B!Fresh, B!Breaker
<1>4. /\ replay \in [Replayer -> Replay]
      /\ \A r \in Replayer : replay[r].pc = "publish" => replay[r].ev \in Event
  BY Zenon DEF Init, IdleReplay, Replay
<1> QED
  BY <1>1, <1>2, <1>3, <1>4 DEF Init, TypeOK

\* An ingestion step keeps the types.
LEMMA TypeIngestion ==
    ASSUME TypeOK, HandlerOK, NEW e \in Event, Ingestion(e)
    PROVE  TypeOK' /\ HandlerOK'
<1> USE PipelineAssumption DEF TypeOK, HandlerOK, StoreTypeOK, BrokerTypeOK, Status,
        brokerVars, gatewayVars, workerVars, processVars, history
<1>1. CASE Save(e)
  BY <1>1, Zenon DEF Save, SaveEvent
<1>2. CASE SaveFails(e)
  BY <1>2 DEF SaveFails, SaveEvent, Refuse, Fault
<1>3. CASE Accept(e)
  BY <1>3 DEF Accept, Publish, Enqueue, PublishIntoVoid
<1>4. CASE PublishFails(e)
  BY <1>4 DEF PublishFails, PublishRefused, Refuse
<1> QED
  BY <1>1, <1>2, <1>3, <1>4, Zenon DEF Ingestion

\* A replay step keeps the types.
LEMMA TypeReplaying ==
    ASSUME TypeOK, HandlerOK, NEW r \in Replayer, Replaying(r)
    PROVE  TypeOK' /\ HandlerOK'
<1>0. replay[r] \in Replay
  BY DEF TypeOK
<1>1. /\ replay' \in [Replayer -> Replay]
      /\ \A q \in Replayer : replay'[q].pc = "publish" => replay'[q].ev \in Event
  <2>1. CASE ReplayQuery(r)
    <3>1. PICK picked \in SUBSET Event :
             replay' = [replay EXCEPT ![r].pc = "loop", ![r].todo = picked]
      BY <2>1, Zenon DEF ReplayQuery, GetFailedEvents
    <3> QED
      BY <1>0, <3>1, Zenon DEF TypeOK, Replay
  <2>2. CASE ReplayQueryFails(r)
    BY <1>0, <2>2, Zenon DEF ReplayQueryFails, TypeOK, Replay
  <2>3. CASE ReplayReset(r)
    <3>1. PICK e \in replay[r].todo :
             replay' = [replay EXCEPT ![r].pc = "publish", ![r].ev = e]
      BY <2>3, Zenon DEF ReplayReset
    <3>2. e \in Event
      BY <1>0, <3>1, Zenon DEF Replay
    <3> QED
      BY <1>0, <3>1, <3>2, Zenon DEF TypeOK, Replay
  <2>4. CASE ReplayResetFails(r)
    <3>1. PICK e \in replay[r].todo :
             replay' = [replay EXCEPT ![r].todo = @ \ {e}]
      BY <2>4, Zenon DEF ReplayResetFails
    <3> QED
      BY <1>0, <3>1, Zenon DEF TypeOK, Replay
  <2>5. CASE ReplayPublish(r)
    BY <1>0, <2>5 DEF ReplayPublish, TypeOK, Replay
  <2>6. CASE ReplayDone(r)
    BY <1>0, <2>6, Zenon DEF ReplayDone, TypeOK, Replay
  <2> QED
    BY <2>1, <2>2, <2>3, <2>4, <2>5, <2>6 DEF Replaying
<1>2. StoreTypeOK' /\ abandoned' \subseteq Event
  <2>1. CASE ReplayPublish(r)
    BY <2>1, Zenon DEF ReplayPublish, TypeOK, StoreTypeOK
  <2>2. CASE ReplayReset(r) \/ ReplayResetFails(r)
    <3>1. replay[r].todo \subseteq Event
      BY <1>0, Zenon DEF Replay
    <3> QED
      BY <2>2, <3>1 DEF ReplayReset, ReplayResetFails, UpdateEventStatus, TypeOK,
                        StoreTypeOK, Status, history
  <2> QED
    BY <2>1, <2>2, Zenon DEF Replaying, ReplayQuery, ReplayQueryFails, ReplayDone, TypeOK,
                      StoreTypeOK, history
<1>3. BrokerTypeOK' /\ lost' \subseteq Event /\ faults' \in Nat
  <2>1. CASE ReplayPublish(r)
    BY <2>1 DEF ReplayPublish, Publish, Enqueue, PublishIntoVoid, PublishRefused, brokerVars,
                TypeOK, BrokerTypeOK
  <2> QED
    BY <2>1 DEF Replaying, ReplayQuery, ReplayQueryFails, ReplayReset, ReplayResetFails,
                ReplayDone, Fault, brokerVars, history, TypeOK, BrokerTypeOK
<1>4. UNCHANGED <<ingest, workerVars, delivered, redelivered, wiped>>
  BY Zenon DEF Replaying, ReplayQuery, ReplayQueryFails, ReplayReset, ReplayResetFails,
         ReplayPublish, ReplayDone, history
<1>5. replayed' \in [Event -> SUBSET Replayer]
  BY DEF Replaying, ReplayQuery, ReplayQueryFails, ReplayReset, ReplayResetFails,
         ReplayPublish, ReplayDone, history, TypeOK
<1> QED
  BY <1>1, <1>2, <1>3, <1>4, <1>5, Zenon DEF TypeOK, HandlerOK, workerVars, processVars

\* A goroutine past json.Unmarshal has an event, and its target is a target.
LEMMA TargetType ==
    ASSUME TypeOK, HandlerOK, NEW s \in Slot, handler[s].msg \in Event
    PROVE  TargetOf(s) \in Target /\ breaker[TargetOf(s)] \in B!Breaker
BY DEF TypeOK, HandlerOK, StoreTypeOK, Request, TargetOf

\* The goroutine's own step keeps the goroutines well-typed.
LEMMA HandlerStep ==
    ASSUME TypeOK, HandlerOK, NEW s \in Slot, Delivering(s)
    PROVE  handler' \in [Slot -> Handler] /\ HandlerOK'
<1>0. /\ handler[s] \in Handler
      /\ MaxAttempts \in Nat \ {0}
      /\ Event \subseteq Msg
  BY PipelineAssumption, Zenon DEF TypeOK
<1>1. CASE Receive(s)
  <2>1. PICK m \in Msg :
           handler' = [handler EXCEPT ![s] = [pc |-> "start", msg |-> m, attempt |-> 0]]
    BY <1>1, Zenon DEF Receive
  <2> QED
    BY <1>0, <2>1 DEF TypeOK, HandlerOK, Handler
<1>2. CASE Malformed(s) \/ Settle(s)
  <2>1. handler' = [handler EXCEPT ![s] = IdleHandler]
    BY <1>2, Zenon DEF Malformed, Settle
  <2> QED
    BY <1>0, <2>1 DEF TypeOK, HandlerOK, Handler, IdleHandler
<1>3. CASE \E pc \in {"blocked", "post", "delivered", "undelivered", "markFailed",
                      "markSuccess", "nack", "ack"} :
             Goto(s, pc) /\ handler[s].msg \in Event
  BY <1>0, <1>3 DEF Goto, TypeOK, HandlerOK, Handler
<1>4. CASE PostFails(s)
  <2>1. handler[s].msg \in Event
    BY <1>4 DEF PostFails, At, HandlerOK
  <2>2. CASE Goto(s, "backoff") /\ handler[s].attempt # MaxAttempts - 1
    <3>1. handler[s].attempt < MaxAttempts - 1
      BY <1>0, <2>2 DEF Handler
    <3>2. handler' \in [Slot -> Handler]
      BY <1>0, <2>2, Zenon DEF Goto, TypeOK, Handler
    <3> QED
      BY <1>0, <2>1, <2>2, <3>1, <3>2, Zenon DEF Goto, TypeOK, HandlerOK, Handler
  <2> QED
    BY <1>3, <1>4, <2>1, <2>2, Zenon DEF PostFails
<1>5. CASE Backoff(s)
  <2>1. handler[s].msg \in Event /\ handler[s].attempt < MaxAttempts - 1
    BY <1>5, Zenon DEF Backoff, At, HandlerOK
  <2>2. CASE handler' = [handler EXCEPT ![s].pc = "post", ![s].attempt = @ + 1]
    BY <1>0, <2>1, <2>2 DEF TypeOK, HandlerOK, Handler
  <2> QED
    BY <1>3, <1>5, <2>1, <2>2, Zenon DEF Backoff
<1> QED
  BY <1>1, <1>2, <1>3, <1>4, <1>5, Zenon
  DEF Delivering, CheckBreaker, ReadState, PostSucceeds, RecordFailure, RecordSuccess,
      MarkFailed, MarkSuccess, At, HandlerOK

\* A step of a goroutine keeps the types.
LEMMA TypeDelivering ==
    ASSUME TypeOK, HandlerOK, NEW s \in Slot, Delivering(s)
    PROVE  TypeOK' /\ HandlerOK'
<1>1. handler' \in [Slot -> Handler] /\ HandlerOK'
  BY HandlerStep, Zenon
<1>2. BrokerTypeOK'
  BY DEF Delivering, Receive, Malformed, CheckBreaker, ReadState, PostSucceeds,
         PostFails, Backoff, RecordFailure, RecordSuccess, MarkFailed, MarkSuccess,
         Settle, Deliver, Ack, Nack, brokerVars, TypeOK, BrokerTypeOK
<1>3. breaker' \in [Target -> B!Breaker]
  <2>1. CASE breaker' = breaker
    BY <2>1, Zenon DEF TypeOK
  <2>2. CASE /\ handler[s].msg \in Event
             /\ \/ breaker' = [breaker EXCEPT ![TargetOf(s)] = B!OnTimeout(@)]
                \/ breaker' = [breaker EXCEPT ![TargetOf(s)] = B!OnSuccess(@)]
                \/ breaker' = [breaker EXCEPT ![TargetOf(s)] = B!OnFailure(@)]
    BY <2>2, TargetType, BreakerTypes DEF TypeOK
  <2> QED
    BY <2>1, <2>2, Zenon DEF Delivering, Receive, Malformed, CheckBreaker, ReadState,
       PostSucceeds, PostFails, Backoff, RecordFailure, RecordSuccess, MarkFailed,
       MarkSuccess, Settle, At, HandlerOK
<1>4. StoreTypeOK' /\ faults' \in Nat /\ delivered' \subseteq Event /\ abandoned' \subseteq Event
  <2>1. CASE MarkFailed(s) \/ MarkSuccess(s)
    BY <2>1 DEF MarkFailed, MarkSuccess, Mark, UpdateEventStatus, Fault, At, HandlerOK,
                TypeOK, StoreTypeOK, Status
  <2>2. CASE PostSucceeds(s)
    BY <2>2, Zenon DEF PostSucceeds, At, HandlerOK, TypeOK, StoreTypeOK
  <2> QED
    BY <2>1, <2>2, Zenon DEF Delivering, Receive, Malformed, CheckBreaker, ReadState,
       PostFails, Backoff, RecordFailure, RecordSuccess, Settle, history, TypeOK,
       StoreTypeOK
<1>5. UNCHANGED <<ingest, replay, worker, consuming, generation, redelivered, replayed, lost,
                  wiped>>
  BY Zenon DEF Delivering, Receive, Malformed, CheckBreaker, ReadState, PostSucceeds,
         PostFails, Backoff, RecordFailure, RecordSuccess, MarkFailed, MarkSuccess,
         Settle, gatewayVars, processVars, history
<1> QED
  BY <1>1, <1>2, <1>3, <1>4, <1>5, Zenon DEF TypeOK

\* A change around the processes keeps the types.
LEMMA TypeOperations ==
    ASSUME TypeOK, HandlerOK, Operations
    PROVE  TypeOK' /\ HandlerOK'
<1> USE DEF TypeOK, brokerVars, gatewayVars, workerVars, processVars, history
<1>1. ASSUME TakenBack
      PROVE  /\ queue' \in [Msg -> Nat] /\ unacked' \in [Slot -> Msg \cup {None}]
             /\ dlq' = dlq /\ redelivered' \subseteq Event
  <2>1. \A m \in Msg : Cardinality({s \in Slot : unacked[s] = m}) \in Nat
    BY SlotCount, Zenon
  <2> QED
    BY <1>1, <2>1 DEF TakenBack, Requeue, BrokerTypeOK
<1>2. (\A s \in Slot : IdleHandler \in Handler)
  BY PipelineAssumption DEF IdleHandler, Handler
<1>3. CASE ProcessEnds /\ faults' \in Nat
  <2>1. handler' \in [Slot -> Handler] /\ HandlerOK'
    BY <1>2, <1>3, Zenon DEF ProcessEnds, HandlerOK, IdleHandler
  <2> QED
    BY <1>1, <1>3, <2>1, Zenon DEF ProcessEnds, StoreTypeOK, BrokerTypeOK
<1>4. CASE Sigterm \/ StopLoop \/ PublisherLost \/ PublisherNoticed
  <2>1. CASE Sigterm
    BY <2>1 DEF Sigterm, Fault, StoreTypeOK, BrokerTypeOK, HandlerOK
  <2>2. CASE StopLoop
    BY <2>2, Zenon DEF StopLoop, StoreTypeOK, BrokerTypeOK, HandlerOK
  <2>3. CASE PublisherLost
    <3>1. faults' \in Nat
      BY <2>3 DEF PublisherLost, Fault
    <3>2. BrokerTypeOK'
      BY <2>3, Zenon DEF PublisherLost, Break, Connection, BrokerTypeOK
    <3> QED
      BY <2>3, <3>1, <3>2, Zenon DEF PublisherLost, StoreTypeOK, HandlerOK
  <2>4. CASE PublisherNoticed
    BY <2>4, Zenon DEF PublisherNoticed, Connection, StoreTypeOK, BrokerTypeOK, HandlerOK
  <2> QED
    BY <1>4, <2>1, <2>2, <2>3, <2>4, Zenon
<1>5. CASE StartWorker
  BY <1>5 DEF StartWorker, B!Restart, B!Fresh, B!Breaker, StoreTypeOK, BrokerTypeOK,
              HandlerOK
<1>6. CASE ConnLost
  <2>0. faults' \in Nat
    BY <1>6 DEF ConnLost, Fault
  <2>1. consuming' \in BOOLEAN
    BY <1>6, Zenon DEF ConnLost
  <2>2. BrokerTypeOK' /\ redelivered' \subseteq Event
    BY <1>1, <1>6, Zenon DEF ConnLost, BrokerTypeOK
  <2> QED
    BY <1>6, <2>0, <2>1, <2>2, Zenon DEF ConnLost, StoreTypeOK, HandlerOK
<1>7. CASE GatewayRestart
  <2>1. /\ replay' \in [Replayer -> Replay]
        /\ \A r \in Replayer : replay'[r].pc = "publish" => replay'[r].ev \in Event
    BY <1>7 DEF GatewayRestart, IdleReplay, Replay
  <2>2. faults' \in Nat
    BY <1>7 DEF GatewayRestart, Fault
  <2>3. BrokerTypeOK'
    BY <1>7, Zenon DEF GatewayRestart, BrokerTypeOK, Connection
  <2> QED
    BY <1>7, <2>1, <2>2, <2>3, Zenon DEF GatewayRestart, StoreTypeOK, HandlerOK
<1>8. CASE BrokerRestart
  <2>0. faults' \in Nat
    BY <1>8 DEF BrokerRestart, Fault
  <2>1. consuming' \in BOOLEAN
    BY <1>8, Zenon DEF BrokerRestart
  <2>2. BrokerTypeOK' /\ wiped' \subseteq Event
    BY <1>8, Zenon DEF BrokerRestart, LoseMessages, Break, Connection, BrokerTypeOK
  <2> QED
    BY <1>8, <2>0, <2>1, <2>2, Zenon DEF BrokerRestart, StoreTypeOK, HandlerOK
<1>9. Crash \/ Exit => ProcessEnds /\ faults' \in Nat
  BY DEF Crash, Exit, Fault
<1> QED
  BY <1>3, <1>4, <1>5, <1>6, <1>7, <1>8, <1>9, Zenon DEF Operations

\* The types are an invariant of every step.
LEMMA TypeStep ==
    ASSUME TypeOK, HandlerOK, [Next]_vars
    PROVE  TypeOK' /\ HandlerOK'
<1>1. CASE UNCHANGED vars
  BY <1>1, Zenon DEF TypeOK, HandlerOK, StoreTypeOK, BrokerTypeOK, vars, brokerVars,
              gatewayVars, workerVars, processVars, history
<1> QED
  BY <1>1, TypeIngestion, TypeReplaying, TypeDelivering, TypeOperations, Zenon DEF Next

-----------------------------------------------------------------------------
(* What a step leaves alone.                                                *)

\* An ingestion request touches its row, the main queue and its own state.
LEMMA IngestionFrame ==
    ASSUME NEW e \in Event, Ingestion(e)
    PROVE  UNCHANGED <<request, dlq, unacked, pubConn, replay, handler, breaker, worker,
                       consuming, generation, delivered, redelivered, replayed, wiped>>
BY DEF Ingestion, Save, SaveFails, Accept, PublishFails, Refuse, Publish, Enqueue,
       PublishIntoVoid, PublishRefused, brokerVars, workerVars, processVars, history

\* A replay touches rows, the main queue and its own state.
LEMMA ReplayingFrame ==
    ASSUME TypeOK, NEW r \in Replayer, Replaying(r)
    PROVE  /\ UNCHANGED <<request, dlq, unacked, pubConn, ingest, handler, breaker, worker,
                          consuming, generation, delivered, redelivered, wiped>>
           /\ \A q \in Replayer \ {r} : replay'[q] = replay[q]
<1>1. UNCHANGED <<request, dlq, unacked, pubConn, ingest, handler, breaker, worker,
                  consuming, generation, delivered, redelivered, wiped>>
  BY Zenon DEF Replaying, ReplayQuery, ReplayQueryFails, ReplayReset, ReplayResetFails,
         ReplayPublish, ReplayDone, Publish, Enqueue, PublishIntoVoid, PublishRefused,
         brokerVars, workerVars, processVars, history
<1>2. \A q \in Replayer \ {r} : replay'[q] = replay[q]
  BY DEF TypeOK, Replaying, ReplayQuery, ReplayQueryFails, ReplayReset, ReplayResetFails,
         ReplayPublish, ReplayDone
<1> QED
  BY <1>1, <1>2, Zenon

\* A goroutine moves no other goroutine, nor the gateway or the process.
LEMMA DeliveringFrame ==
    ASSUME TypeOK, NEW s \in Slot, Delivering(s)
    PROVE  /\ UNCHANGED <<request, pubConn, ingest, replay, worker, consuming, generation,
                          redelivered, replayed, lost, wiped>>
           /\ \A t \in Slot \ {s} : handler'[t] = handler[t] /\ unacked'[t] = unacked[t]
<1>1. UNCHANGED <<request, pubConn, ingest, replay, worker, consuming, generation,
                  redelivered, replayed, lost, wiped>>
  BY DEF Delivering, Receive, Malformed, CheckBreaker, ReadState, PostSucceeds,
         PostFails, Backoff, RecordFailure, RecordSuccess, MarkFailed, MarkSuccess,
         Settle, Deliver, Ack, Nack, brokerVars, gatewayVars, processVars, history
<1>2. \A t \in Slot \ {s} : unacked'[t] = unacked[t]
  <2>1. unacked' = unacked \/ \E m : unacked' = [unacked EXCEPT ![s] = m]
    BY Zenon DEF Delivering, Receive, Malformed, CheckBreaker, ReadState, PostSucceeds,
           PostFails, Backoff, RecordFailure, RecordSuccess, MarkFailed, MarkSuccess,
           Settle, Deliver, Ack, Nack, brokerVars
  <2> QED
    BY <2>1, Zenon DEF TypeOK, BrokerTypeOK
<1>3. \A t \in Slot \ {s} : handler'[t] = handler[t]
  BY Zenon DEF Delivering, Receive, Malformed, CheckBreaker, ReadState, PostSucceeds,
         PostFails, Backoff, RecordFailure, RecordSuccess, MarkFailed, MarkSuccess,
         Settle, Goto, TypeOK
<1> QED
  BY <1>1, <1>2, <1>3, Zenon

\* Nothing around the processes touches a row or a delivery's outcome, and it
\* ends the goroutines or leaves them alone.
LEMMA OperationsFrame ==
    ASSUME Operations
    PROVE  /\ UNCHANGED <<request, status, delivered>>
           /\ handler' = handler \/ handler' = [s \in Slot |-> IdleHandler]
BY Zenon DEF Operations, Crash, Exit, ProcessEnds, Sigterm, StopLoop, StartWorker, ConnLost,
       PublisherLost, PublisherNoticed, GatewayRestart, BrokerRestart, workerVars,
       processVars, history

\* The writers of the status column: SaveEvent makes a pending row where there
\* was none, a replay resets a row it read as failed, and a goroutine writes the
\* outcome of its own delivery.
LEMMA StatusWriters ==
    ASSUME TypeOK, HandlerOK, [Next]_vars, NEW e \in Event, status'[e] # status[e]
    PROVE  \/ status[e] = "absent" /\ status'[e] = "pending"
           \/ /\ status[e] # "absent" /\ status'[e] = "pending"
              /\ \E r \in Replayer : replay[r].pc = "loop" /\ e \in replay[r].todo
           \/ /\ status[e] # "absent" /\ status'[e] = "failed"
              /\ \E s \in Slot : At(s, "markFailed") /\ handler[s].msg = e
           \/ /\ status[e] # "absent" /\ status'[e] = "success"
              /\ \E s \in Slot : At(s, "markSuccess") /\ handler[s].msg = e
<1>0. status \in [Event -> Status]
  BY DEF TypeOK, StoreTypeOK
<1>1. CASE UNCHANGED vars
  BY <1>1, Zenon DEF vars
<1>2. ASSUME NEW f \in Event, Ingestion(f)
      PROVE  status[e] = "absent" /\ status'[e] = "pending"
  BY <1>0, <1>2, Zenon DEF Ingestion, Save, SaveFails, Accept, PublishFails, SaveEvent
<1>3. ASSUME NEW r \in Replayer, Replaying(r)
      PROVE  /\ status[e] # "absent" /\ status'[e] = "pending"
             /\ replay[r].pc = "loop" /\ e \in replay[r].todo
  <2>1. replay[r].todo \subseteq Event
    BY Zenon DEF TypeOK, Replay
  <2> QED
    BY <1>0, <1>3, <2>1, Zenon DEF Replaying, ReplayQuery, ReplayQueryFails, ReplayReset,
       ReplayResetFails, ReplayPublish, ReplayDone, UpdateEventStatus
<1>4. ASSUME NEW s \in Slot, Delivering(s)
      PROVE  /\ status[e] # "absent" /\ handler[s].msg = e
             /\ \/ status'[e] = "failed" /\ At(s, "markFailed")
                \/ status'[e] = "success" /\ At(s, "markSuccess")
  <2>1. MarkFailed(s) \/ MarkSuccess(s)
    BY <1>4, Zenon DEF Delivering, Receive, Malformed, CheckBreaker, ReadState, PostSucceeds,
       PostFails, Backoff, RecordFailure, RecordSuccess, Settle
  <2>2. handler[s].msg \in Event
    BY <2>1 DEF MarkFailed, MarkSuccess, At, HandlerOK
  <2> QED
    BY <1>0, <2>1, <2>2, Zenon DEF MarkFailed, MarkSuccess, Mark, UpdateEventStatus
<1>5. ~Operations
  BY OperationsFrame
<1> QED
  BY <1>1, <1>2, <1>3, <1>4, <1>5, Zenon DEF Next
=============================================================================

----------------------- MODULE WebhookPipelineProofs -----------------------
(***************************************************************************)
(* Proofs about WebhookPipeline, for any set of events, clients, targets,  *)
(* goroutines and replay requests, any number of attempts and faults.      *)
(***************************************************************************)
EXTENDS PipelineMessageProofs

\* Every leaf that names no prover of its own has 30 seconds of SMT.
USE SMTT(30)

\* Goroutine s has e's message and has not come to writing its outcome yet.
Unmarked(s, e) == handler[s].msg = e /\ handler[s].pc \notin {"nack", "ack"}

\* No copy of e's message is left whose outcome will be written.
NoCopy(e) == queue[e] = 0 /\ \A s \in Slot : ~Unmarked(s, e)

\* The broker took no copy of e back, and no two replays selected its row.
Solitary(e) == e \notin redelivered /\ \A q, r \in replayed[e] : q = r

\* At most one of these has e at a time: the ingestion request before it
\* publishes, the main queue, one goroutine, one replay.  A final row means that
\* neither the queue nor a goroutine has it, and success that no replay does.
OneHolder(e) ==
    /\ ingest[e] \in {"new", "saved"} =>
          NoCopy(e) /\ replayed[e] = {} /\ status[e] \in {"absent", "pending"}
    /\ queue[e] > 0 => queue[e] = 1 /\ \A s \in Slot : ~Unmarked(s, e)
    /\ \A s, t \in Slot : Unmarked(s, e) /\ Unmarked(t, e) => s = t
    /\ status[e] \in {"success", "failed"} => NoCopy(e)
    /\ \A r \in Replayer : e \in replay[r].todo =>
          /\ NoCopy(e) /\ status[e] # "success"
          /\ replay[r].pc = "publish" /\ replay[r].ev = e => status[e] # "failed"

\* What a replay still has to do, it selected; it publishes only that.
Selected ==
    \A r \in Replayer :
        /\ replay[r].pc = "publish" => replay[r].ev \in replay[r].todo
        /\ \A e \in replay[r].todo : r \in replayed[e]

\* The inductive invariant.
IInv ==
    /\ TypeOK
    /\ HandlerOK
    /\ DeliveryHeld
    /\ DeliveredFirst
    /\ SavedRow
    /\ SuccessWasDelivered
    /\ NeverDropped
    /\ OrphansExplained
    /\ Selected
    /\ \A e \in Event : Solitary(e) => OneHolder(e)

-----------------------------------------------------------------------------
(* Who has an event.                                                        *)

\* The history only grows: an event that is solitary was so before.
LEMMA SolitaryBefore ==
    ASSUME TypeOK, [Next]_vars, NEW e \in Event
    PROVE  /\ replayed[e] \subseteq replayed'[e]
           /\ Solitary(e)' => Solitary(e)
<1>1. redelivered \subseteq redelivered'
  <2>1. Operations => redelivered \subseteq redelivered'
    BY DEF Operations, Crash, Exit, ProcessEnds, Sigterm, StopLoop, StartWorker, ConnLost,
       PublisherLost, PublisherNoticed, GatewayRestart, BrokerRestart, TakenBack, history
  <2> QED
    BY <2>1, IngestionFrame, ReplayingFrame, DeliveringFrame, Zenon DEF Next, vars, history
<1>2. replayed[e] \subseteq replayed'[e]
  <2>1. Operations => replayed' = replayed
    BY Zenon DEF Operations, Crash, Exit, ProcessEnds, Sigterm, StopLoop, StartWorker, ConnLost,
       PublisherLost, PublisherNoticed, GatewayRestart, BrokerRestart, history
  <2>2. \A r \in Replayer : Replaying(r) => replayed[e] \subseteq replayed'[e]
    BY DEF Replaying, ReplayQuery, ReplayQueryFails, ReplayReset, ReplayResetFails,
       ReplayPublish, ReplayDone, history, TypeOK
  <2> QED
    BY <2>1, <2>2, IngestionFrame, DeliveringFrame, Zenon DEF Next, vars, history
<1> QED
  BY <1>1, <1>2 DEF Solitary

\* A step that gives e to nobody and leaves its row alone.
LEMMA HolderKept ==
    ASSUME TypeOK, NEW e \in Event, OneHolder(e),
           ingest'[e] \in {"new", "saved"} =>
              ingest[e] \in {"new", "saved"} /\ replayed'[e] = replayed[e],
           queue'[e] \in {0, queue[e]},
           \A s \in Slot : Unmarked(s, e)' => Unmarked(s, e),
           status'[e] = status[e],
           \A r \in Replayer : e \in replay'[r].todo =>
              /\ e \in replay[r].todo
              /\ replay'[r].pc = "publish" /\ replay'[r].ev = e =>
                    replay[r].pc = "publish" /\ replay[r].ev = e
    PROVE  OneHolder(e)'
<1>1. NoCopy(e) => NoCopy(e)'
  BY DEF NoCopy
<1>2. queue'[e] > 0 => queue'[e] = 1 /\ \A s \in Slot : ~Unmarked(s, e)'
  BY DEF OneHolder
<1>3. \A s, t \in Slot : Unmarked(s, e)' /\ Unmarked(t, e)' => s = t
  BY Zenon DEF OneHolder
<1> QED
  BY <1>1, <1>2, <1>3, Zenon DEF OneHolder

\* The replays keep to what they selected.
LEMMA SelectedStep ==
    ASSUME TypeOK, Selected, [Next]_vars
    PROVE  Selected'
<1>0. replay \in [Replayer -> Replay] /\ \A e \in Event : replayed[e] \subseteq replayed'[e]
  BY SolitaryBefore DEF TypeOK
<1>1. CASE replay' = replay
  BY <1>0, <1>1 DEF Selected, Replay
<1>2. ASSUME NEW r \in Replayer, Replaying(r) PROVE Selected'
  <2>1. \A q \in Replayer \ {r} : replay'[q] = replay[q]
    BY <1>2, ReplayingFrame
  <2>2. /\ replay'[r].pc = "publish" => replay'[r].ev \in replay'[r].todo
        /\ \A e \in replay'[r].todo : r \in replayed'[e]
    <3>1. CASE ReplayQuery(r)
      <4>1. PICK picked \in SUBSET Event :
               /\ replay' = [replay EXCEPT ![r].pc = "loop", ![r].todo = picked]
               /\ replayed' = [e \in Event |-> IF e \in picked THEN replayed[e] \cup {r}
                                               ELSE replayed[e]]
        BY <3>1, Zenon DEF ReplayQuery, GetFailedEvents
      <4>2. replay'[r].pc = "loop" /\ replay'[r].todo = picked
        BY <1>0, <4>1 DEF Replay
      <4>3. \A e \in picked : r \in replayed'[e]
        BY <4>1
      <4> QED
        BY <4>2, <4>3, Zenon
    <3>2. CASE ReplayReset(r)
      <4>1. PICK e \in replay[r].todo :
               replay' = [replay EXCEPT ![r].pc = "publish", ![r].ev = e]
        BY <3>2, Zenon DEF ReplayReset
      <4>2. replay'[r].ev = e /\ replay'[r].todo = replay[r].todo /\ e \in Event
        BY <1>0, <4>1, Zenon DEF Replay
      <4> QED
        BY <1>0, <4>1, <4>2, Zenon DEF Selected, Replay
    <3>3. CASE ReplayQueryFails(r) \/ ReplayResetFails(r) \/ ReplayPublish(r) \/ ReplayDone(r)
      <4>1. replay'[r].pc # "publish" /\ replay'[r].todo \subseteq replay[r].todo
        BY <1>0, <3>3 DEF ReplayQueryFails, ReplayResetFails, ReplayPublish, ReplayDone, Replay
      <4> QED
        BY <1>0, <4>1, Zenon DEF Selected, Replay
    <3> QED
      BY <1>2, <3>1, <3>2, <3>3, Zenon DEF Replaying
  <2> QED
    BY <1>0, <2>1, <2>2, Zenon DEF Selected, Replay
<1>3. CASE GatewayRestart
  <2>1. ASSUME NEW r \in Replayer
        PROVE  \/ replay'[r] = replay[r]
               \/ replay'[r].todo = {} /\ replay'[r].pc = "done"
    <3>1. replay'[r] = replay[r] \/ replay'[r] = [IdleReplay EXCEPT !.pc = "done"]
      BY <1>3 DEF GatewayRestart
    <3> QED
      BY <3>1 DEF IdleReplay
  <2> QED
    BY <1>0, <2>1 DEF Selected, Replay
<1>4. Operations => replay' = replay \/ GatewayRestart
  BY Zenon DEF Operations, Crash, Exit, ProcessEnds, Sigterm, StopLoop, StartWorker, ConnLost,
     PublisherLost, PublisherNoticed, BrokerRestart, gatewayVars
<1> QED
  BY <1>1, <1>2, <1>3, <1>4, IngestionFrame, DeliveringFrame, Zenon DEF Next, vars, gatewayVars

\* An ingestion request hands its event to the main queue.
LEMMA HolderIngestion ==
    ASSUME TypeOK, Selected, NEW f \in Event, Ingestion(f), NEW e \in Event, OneHolder(e)
    PROVE  OneHolder(e)'
<1>0. /\ UNCHANGED <<handler, replay, replayed>>
      /\ e \in Msg /\ queue \in [Msg -> Nat]
      /\ \A s \in Slot : Unmarked(s, e)' <=> Unmarked(s, e)
  BY IngestionFrame, PipelineAssumption, Zenon DEF TypeOK, BrokerTypeOK, Unmarked
<1>1. CASE f # e
  <2>1. ingest'[e] = ingest[e] /\ status'[e] = status[e] /\ queue'[e] = queue[e]
    BY <1>0, <1>1, Zenon DEF Ingestion, Save, SaveFails, Accept, PublishFails, Refuse, SaveEvent,
       Publish, Enqueue, PublishIntoVoid, PublishRefused, brokerVars, TypeOK, StoreTypeOK
  <2> QED
    BY <1>0, <2>1, HolderKept, Zenon
<1>2. CASE f = e /\ ~Accept(e)
  <2>1. /\ ingest[e] \in {"new", "saved"} /\ queue'[e] = queue[e]
        /\ status'[e] \in {status[e], "pending"}
    BY <1>2, Zenon DEF Ingestion, Save, SaveFails, PublishFails, SaveEvent, PublishRefused,
       brokerVars, TypeOK, StoreTypeOK
  <2>2. NoCopy(e) /\ replayed[e] = {} /\ status[e] \in {"absent", "pending"}
    BY <2>1, Zenon DEF OneHolder
  <2>3. NoCopy(e)' /\ \A r \in Replayer : e \notin replay[r].todo
    BY <1>0, <2>1, <2>2, Zenon DEF NoCopy, Selected
  <2> QED
    BY <1>0, <2>1, <2>2, <2>3, Zenon DEF OneHolder, NoCopy
<1>3. CASE f = e /\ Accept(e)
  <2>1. /\ ingest[e] = "saved" /\ ingest'[e] = "accepted" /\ status' = status
        /\ queue'[e] \in {queue[e], queue[e] + 1}
    BY <1>0, <1>3, Zenon DEF Accept, Publish, Enqueue, PublishIntoVoid, brokerVars, TypeOK
  <2>2. NoCopy(e) /\ replayed[e] = {} /\ status[e] \in {"absent", "pending"}
    BY <2>1 DEF OneHolder
  <2>3. \A r \in Replayer : e \notin replay[r].todo
    BY <2>2, Zenon DEF Selected
  <2>4. queue'[e] \in {0, 1} /\ \A s \in Slot : ~Unmarked(s, e)'
    BY <1>0, <2>1, <2>2 DEF NoCopy
  <2> QED
    BY <1>0, <2>1, <2>2, <2>3, <2>4 DEF OneHolder
<1> QED
  BY <1>1, <1>2, <1>3, Zenon

\* A replay takes a failed event, which nobody else has, to the main queue.
LEMMA HolderReplaying ==
    ASSUME TypeOK, Selected, NEW r \in Replayer, Replaying(r), NEW e \in Event, OneHolder(e),
           Solitary(e)', replayed[e] \subseteq replayed'[e]
    PROVE  OneHolder(e)'
<1>0. /\ UNCHANGED <<handler, ingest>>
      /\ e \in Msg /\ queue \in [Msg -> Nat] /\ status \in [Event -> Status]
      /\ \A s \in Slot : Unmarked(s, e)' <=> Unmarked(s, e)
      /\ \A q \in Replayer \ {r} : replay'[q] = replay[q]
      /\ replay \in [Replayer -> Replay] /\ replay[r] \in Replay
  BY ReplayingFrame, PipelineAssumption, Zenon DEF TypeOK, BrokerTypeOK, StoreTypeOK, Unmarked
<1>1. ASSUME e \in replay[r].todo
      PROVE  /\ NoCopy(e) /\ status[e] # "success" /\ ingest[e] \notin {"new", "saved"}
             /\ \A q \in Replayer \ {r} : e \notin replay'[q].todo
  <2>1. NoCopy(e) /\ status[e] # "success" /\ r \in replayed[e]
    BY <1>1, Zenon DEF OneHolder, Selected
  <2>2. ingest[e] \notin {"new", "saved"}
    BY <2>1, Zenon DEF OneHolder
  <2>3. \A q \in Replayer \ {r} : e \notin replay[q].todo
    BY <2>1 DEF Selected, Solitary
  <2> QED
    BY <1>0, <2>1, <2>2, <2>3, Zenon
<1>2. CASE ReplayQuery(r)
  <2>1. PICK picked \in SUBSET Event :
           /\ \A f \in picked : status[f] = "failed"
           /\ replay' = [replay EXCEPT ![r].pc = "loop", ![r].todo = picked]
           /\ replayed' = [f \in Event |-> IF f \in picked THEN replayed[f] \cup {r}
                                           ELSE replayed[f]]
    BY <1>2, Zenon DEF ReplayQuery, GetFailedEvents
  <2>2. replay'[r].pc = "loop" /\ replay'[r].todo = picked
    BY <1>0, <2>1, Zenon DEF Replay
  <2>3. status' = status /\ queue' = queue
    BY <1>2, Zenon DEF ReplayQuery, brokerVars
  <2>4. CASE e \in picked
    <3>1. status[e] = "failed" /\ NoCopy(e) /\ ingest[e] \notin {"new", "saved"}
      BY <2>1, <2>4, Zenon DEF OneHolder
    <3>2. r \in replayed'[e]
      BY <2>1, <2>4, Zenon
    <3>3. \A q \in Replayer \ {r} : e \notin replay'[q].todo
      BY <1>0, <3>2 DEF Selected, Solitary
    <3>4. NoCopy(e)'
      BY <1>0, <2>3, <3>1, Zenon DEF NoCopy
    <3> QED
      BY <1>0, <2>2, <2>3, <3>1, <3>3, <3>4, Zenon DEF OneHolder, NoCopy
  <2>5. CASE e \notin picked
    <3>1. replayed'[e] = replayed[e]
      BY <2>1, <2>5
    <3>2. \A q \in Replayer : e \in replay'[q].todo => replay'[q] = replay[q]
      BY <1>0, <2>2, <2>5, Zenon
    <3> QED
      BY <1>0, <2>3, <3>1, <3>2, HolderKept, Zenon
  <2> QED
    BY <2>4, <2>5
<1>3. CASE ReplayQueryFails(r) \/ ReplayDone(r)
  <2>1. /\ UNCHANGED <<status, queue, replayed>> /\ replay'[r].pc = "done"
        /\ replay'[r].todo = replay[r].todo
    BY <1>0, <1>3 DEF ReplayQueryFails, ReplayDone, brokerVars, history, Replay
  <2> QED
    BY <1>0, <2>1, HolderKept, Zenon
<1>4. CASE ReplayReset(r)
  <2>1. PICK f \in replay[r].todo :
           /\ UpdateEventStatus(f, "pending")
           /\ replay' = [replay EXCEPT ![r].pc = "publish", ![r].ev = f]
    BY <1>4, Zenon DEF ReplayReset
  <2>2. /\ replay'[r].pc = "publish" /\ replay'[r].ev = f
        /\ replay'[r].todo = replay[r].todo /\ f \in Event
    BY <1>0, <2>1, Zenon DEF Replay
  <2>3. UNCHANGED <<queue, replayed>>
    BY <1>4 DEF ReplayReset, brokerVars, history
  <2>4. CASE f = e
    <3>1. status'[e] \in {"absent", "pending"}
      BY <1>0, <2>1, <2>4, Zenon DEF UpdateEventStatus
    <3>2. NoCopy(e)'
      BY <1>0, <1>1, <2>1, <2>3, <2>4, Zenon DEF NoCopy
    <3> QED
      BY <1>0, <1>1, <2>1, <2>2, <2>3, <2>4, <3>1, <3>2, Zenon DEF OneHolder, NoCopy
  <2>5. CASE f # e
    <3>1. status'[e] = status[e]
      BY <1>0, <2>1, <2>2, <2>5, Zenon DEF UpdateEventStatus
    <3> QED
      BY <1>0, <2>2, <2>3, <2>5, <3>1, HolderKept, Zenon
  <2> QED
    BY <2>4, <2>5
<1>5. CASE ReplayResetFails(r)
  <2>1. PICK f \in replay[r].todo :
           /\ UpdateEventStatus(f, "pending") \/ UNCHANGED status
           /\ replay' = [replay EXCEPT ![r].todo = @ \ {f}]
    BY <1>5, Zenon DEF ReplayResetFails
  <2>2. /\ replay'[r].pc = "loop" /\ replay'[r].todo = replay[r].todo \ {f} /\ f \in Event
    BY <1>0, <1>5, <2>1, Zenon DEF ReplayResetFails, Replay
  <2>3. UNCHANGED <<queue, replayed>>
    BY <1>5 DEF ReplayResetFails, brokerVars
  <2>4. CASE f = e
    <3>1. NoCopy(e)'
      BY <1>0, <1>1, <2>1, <2>3, <2>4, Zenon DEF NoCopy
    <3> QED
      BY <1>0, <1>1, <2>1, <2>2, <2>4, <3>1, Zenon DEF OneHolder, NoCopy
  <2>5. CASE f # e
    <3>1. status'[e] = status[e]
      BY <1>0, <2>1, <2>2, <2>5, Zenon DEF UpdateEventStatus
    <3> QED
      BY <1>0, <2>2, <2>3, <2>5, <3>1, HolderKept, Zenon
  <2> QED
    BY <2>4, <2>5
<1>6. CASE ReplayPublish(r)
  <2> DEFINE f == replay[r].ev
  <2>1. /\ f \in replay[r].todo /\ f \in Event /\ replay[r].pc = "publish"
        /\ UNCHANGED <<status, replayed>>
        /\ replay'[r].pc = "loop" /\ replay'[r].todo = replay[r].todo \ {f}
    BY <1>0, <1>6, Zenon DEF ReplayPublish, Selected, Replay
  <2>2. queue' = queue \/ queue' = [queue EXCEPT ![f] = @ + 1]
    BY <1>6, Zenon DEF ReplayPublish, Publish, Enqueue, PublishIntoVoid, PublishRefused,
       brokerVars
  <2>3. CASE f = e
    <3>1. status[e] \notin {"success", "failed"}
      BY <1>1, <2>1, <2>3, Zenon DEF OneHolder
    <3>2. queue'[e] \in {0, 1} /\ \A s \in Slot : ~Unmarked(s, e)'
      BY <1>0, <1>1, <2>1, <2>2, <2>3 DEF NoCopy
    <3>3. \A q \in Replayer : e \notin replay'[q].todo
      BY <1>1, <2>1, <2>3, Zenon
    <3> QED
      BY <1>0, <1>1, <2>1, <2>3, <3>1, <3>2, <3>3 DEF OneHolder
  <2>4. CASE f # e
    <3>1. queue'[e] = queue[e]
      BY <1>0, <2>2, <2>4, Zenon
    <3> QED
      BY <1>0, <2>1, <3>1, HolderKept, Zenon
  <2> QED
    BY <2>3, <2>4, Zenon
<1> QED
  BY <1>2, <1>3, <1>4, <1>5, <1>6, Zenon DEF Replaying

\* A goroutine takes e from the queue and lets go of it by writing its outcome.
LEMMA HolderDelivering ==
    ASSUME TypeOK, HandlerOK, NEW s \in Slot, Delivering(s), NEW e \in Event, OneHolder(e)
    PROVE  OneHolder(e)'
<1>0. /\ UNCHANGED <<ingest, replay, replayed>>
      /\ e \in Msg /\ None \notin Msg /\ queue \in [Msg -> Nat] /\ status \in [Event -> Status]
      /\ \A t \in Slot \ {s} : Unmarked(t, e)' <=> Unmarked(t, e)
      /\ handler[s] \in Handler /\ handler \in [Slot -> Handler]
  BY DeliveringFrame, PipelineAssumption, Zenon DEF TypeOK, BrokerTypeOK, StoreTypeOK, Unmarked
<1>1. CASE Receive(s)
  <2>1. PICK m \in Msg : /\ queue[m] > 0 /\ queue' = [queue EXCEPT ![m] = @ - 1]
                         /\ handler'[s] = [pc |-> "start", msg |-> m, attempt |-> 0]
    BY <1>0, <1>1, Zenon DEF Receive, Deliver
  <2>2. status' = status /\ ~Unmarked(s, e)
    BY <1>0, <1>1, Zenon DEF Receive, At, HandlerOK, Unmarked
  <2>3. CASE m = e
    <3>1. queue[e] = 1 /\ queue'[e] = 0 /\ \A t \in Slot : ~Unmarked(t, e)
      BY <1>0, <2>1, <2>3 DEF OneHolder
    <3>2. \A t \in Slot : Unmarked(t, e)' => t = s
      BY <1>0, <3>1, Zenon
    <3>3. ~NoCopy(e)
      BY <3>1 DEF NoCopy
    <3> QED
      BY <1>0, <2>2, <3>1, <3>2, <3>3 DEF OneHolder
  <2>4. CASE m # e
    <3>1. queue'[e] = queue[e] /\ ~Unmarked(s, e)'
      BY <1>0, <2>1, <2>4 DEF Unmarked
    <3> QED
      BY <1>0, <2>2, <3>1, HolderKept, Zenon
  <2> QED
    BY <2>3, <2>4, Zenon
<1>2. CASE (MarkFailed(s) \/ MarkSuccess(s)) /\ handler[s].msg = e
  <2>1. Unmarked(s, e) /\ ~Unmarked(s, e)' /\ queue' = queue
    BY <1>0, <1>2 DEF MarkFailed, MarkSuccess, At, Goto, Handler, Unmarked, brokerVars
  <2>2. NoCopy(e)' /\ ~NoCopy(e)
    BY <1>0, <2>1 DEF OneHolder, NoCopy
  <2> QED
    BY <1>0, <2>2 DEF OneHolder, NoCopy
<1>3. CASE (MarkFailed(s) \/ MarkSuccess(s)) /\ handler[s].msg # e
  <2>1. handler[s].msg \in Event
    BY <1>3 DEF MarkFailed, MarkSuccess, At, HandlerOK
  <2>2. queue' = queue /\ status'[e] = status[e]
    BY <1>0, <1>3, <2>1, Zenon DEF MarkFailed, MarkSuccess, Mark, UpdateEventStatus, brokerVars
  <2>3. ~Unmarked(s, e)'
    BY <1>0, <1>3 DEF MarkFailed, MarkSuccess, Goto, Handler, Unmarked
  <2> QED
    BY <1>0, <2>2, <2>3, HolderKept, Zenon
<1>4. CASE Malformed(s) \/ Settle(s)
  <2>1. queue' = queue /\ status' = status /\ handler'[s] = IdleHandler
    BY <1>0, <1>4, Zenon DEF Malformed, Settle, Ack, Nack
  <2>2. ~Unmarked(s, e)'
    BY <1>0, <2>1 DEF Unmarked, IdleHandler
  <2> QED
    BY <1>0, <2>1, <2>2, HolderKept, Zenon
<1>5. CASE /\ UNCHANGED <<queue, status>> /\ handler'[s].msg = handler[s].msg
           /\ handler[s].pc \notin {"nack", "ack"}
  <2>1. Unmarked(s, e)' => Unmarked(s, e)
    BY <1>5, Zenon DEF Unmarked
  <2> QED
    BY <1>0, <1>5, <2>1, HolderKept, Zenon
<1>6. CASE CheckBreaker(s) \/ ReadState(s) \/ PostSucceeds(s) \/ PostFails(s)
           \/ Backoff(s) \/ RecordFailure(s) \/ RecordSuccess(s)
  BY <1>0, <1>5, <1>6 DEF CheckBreaker, ReadState, PostSucceeds, PostFails, Backoff,
     RecordFailure, RecordSuccess, At, Goto, Handler, brokerVars
<1> QED
  BY <1>1, <1>2, <1>3, <1>4, <1>6, Zenon DEF Delivering

\* What happens around the processes gives a solitary event to nobody.
LEMMA HolderOperations ==
    ASSUME TypeOK, HandlerOK, Operations, NEW e \in Event, OneHolder(e), Solitary(e)'
    PROVE  OneHolder(e)'
<1>0. /\ status' = status /\ replayed' = replayed
      /\ e \in Msg /\ None \notin Msg /\ queue \in [Msg -> Nat]
  <2>1. replayed' = replayed
    BY DEF Operations, Crash, Exit, ProcessEnds, Sigterm, StopLoop, StartWorker, ConnLost,
       PublisherLost, PublisherNoticed, GatewayRestart, BrokerRestart, history
  <2>2. status' = status
    BY OperationsFrame, Zenon
  <2>3. e \in Msg /\ None \notin Msg /\ queue \in [Msg -> Nat]
    BY PipelineAssumption, Zenon DEF TypeOK, BrokerTypeOK
  <2> QED
    BY <2>1, <2>2, <2>3, Zenon
<1>1. \A s \in Slot : Unmarked(s, e)' => Unmarked(s, e)
  BY <1>0, OperationsFrame DEF Unmarked, IdleHandler
<1>2. ingest'[e] \in {"new", "saved"} => ingest[e] \in {"new", "saved"}
  BY Zenon DEF TypeOK, Operations, Crash, Exit, ProcessEnds, Sigterm, StopLoop, StartWorker,
     ConnLost, PublisherLost, PublisherNoticed, GatewayRestart, BrokerRestart, gatewayVars
<1>3. queue'[e] \in {0, queue[e]}
  <2>1. CASE TakenBack
    <3>1. {s \in Slot : unacked[s] = e} = {}
      BY <2>1 DEF TakenBack, Solitary
    <3>2. queue'[e] = queue[e] + Cardinality({s \in Slot : unacked[s] = e})
      BY <1>0, <2>1, Zenon DEF TakenBack, Requeue
    <3> QED
      BY <1>0, <3>1, <3>2, FS_EmptySet
  <2>2. CASE BrokerRestart
    BY <1>0, <2>2, Zenon DEF BrokerRestart, LoseMessages
  <2> QED
    BY <2>1, <2>2, Zenon DEF Operations, Crash, Exit, ProcessEnds, Sigterm, StopLoop, StartWorker,
       ConnLost, PublisherLost, PublisherNoticed, GatewayRestart, brokerVars
<1>4. \A r \in Replayer : replay'[r] = replay[r] \/ replay'[r].todo = {}
  <2>1. CASE GatewayRestart
    BY <2>1 DEF GatewayRestart, IdleReplay
  <2> QED
    BY <2>1, Zenon DEF Operations, Crash, Exit, ProcessEnds, Sigterm, StopLoop, StartWorker,
       ConnLost, PublisherLost, PublisherNoticed, BrokerRestart, gatewayVars
<1> QED
  BY <1>0, <1>1, <1>2, <1>3, <1>4, HolderKept, Zenon

\* A solitary event keeps having one holder at most.
LEMMA HolderStep ==
    ASSUME TypeOK, HandlerOK, Selected, \A e \in Event : Solitary(e) => OneHolder(e), [Next]_vars
    PROVE  \A e \in Event : Solitary(e)' => OneHolder(e)'
<1> SUFFICES ASSUME NEW e \in Event, Solitary(e)' PROVE OneHolder(e)'
  OBVIOUS
<1>1. OneHolder(e) /\ replayed[e] \subseteq replayed'[e]
  BY SolitaryBefore, Zenon
<1>2. CASE UNCHANGED vars
  <2>1. UNCHANGED <<queue, status, handler, ingest, replay, replayed>>
    BY <1>2, Zenon DEF vars, brokerVars, gatewayVars, workerVars, history
  <2>2. (NoCopy(e)' <=> NoCopy(e)) /\ \A s \in Slot : Unmarked(s, e)' <=> Unmarked(s, e)
    BY <2>1, Zenon DEF NoCopy, Unmarked
  <2> QED
    BY <1>1, <2>1, <2>2, Zenon DEF OneHolder
<1> QED
  BY <1>1, <1>2, HolderIngestion, HolderReplaying, HolderDelivering, HolderOperations, Zenon
  DEF Next

\* A row that says success is overwritten only if the event is not solitary.
LEMMA FinalStep ==
    ASSUME TypeOK, HandlerOK, [Next]_vars, NEW e \in Event, Solitary(e) => OneHolder(e),
           status[e] = "success", status'[e] # "success"
    PROVE  ~Solitary(e)
<1>1. CASE \E r \in Replayer : e \in replay[r].todo
  BY <1>1, Zenon DEF OneHolder
<1>2. CASE \E s \in Slot : At(s, "markFailed") /\ handler[s].msg = e
  BY <1>2 DEF OneHolder, NoCopy, Unmarked, At
<1> QED
  BY <1>1, <1>2, StatusWriters

-----------------------------------------------------------------------------
(* The inductive invariant.                                                 *)

\* Nothing is published, received or written at first.
LEMMA InvInit == Init => IInv
<1> SUFFICES ASSUME Init PROVE IInv
  BY Zenon
<1>1. DeliveryHeld /\ DeliveredFirst /\ SavedRow
  BY Zenon DEF Init, BrokerInit, IdleHandler, DeliveryHeld, DeliveredFirst, SavedRow
<1>2. NeverDropped /\ OrphansExplained /\ SuccessWasDelivered
  BY Zenon DEF Init, StoreInit, NeverDropped, OrphansExplained, SuccessWasDelivered
<1>3. Selected
  BY Zenon DEF Init, IdleReplay, Selected
<1>4. ASSUME NEW e \in Event PROVE OneHolder(e)
  <2>1. NoCopy(e)
    BY PipelineAssumption, Zenon DEF Init, BrokerInit, IdleHandler, NoCopy, Unmarked
  <2> QED
    BY <2>1 DEF Init, StoreInit, IdleReplay, OneHolder, NoCopy
<1> QED
  BY <1>1, <1>2, <1>3, <1>4, TypeInit, Zenon DEF IInv

\* Every step keeps all of it: each conjunct from the ones before it.
LEMMA InvStep == IInv /\ [Next]_vars => IInv'
<1> SUFFICES ASSUME IInv, [Next]_vars PROVE IInv'
  OBVIOUS
<1>1. TypeOK' /\ HandlerOK'
  BY TypeStep, Zenon DEF IInv
<1>2. DeliveryHeld' /\ DeliveredFirst' /\ SavedRow'
  BY HeldStep, DeliveredStep, SavedRowStep, Zenon DEF IInv
<1>3. SuccessWasDelivered' /\ NeverDropped' /\ OrphansExplained'
  BY SuccessStep, KeptStep, OrphanStep, Zenon DEF IInv
<1>4. Selected' /\ \A e \in Event : Solitary(e)' => OneHolder(e)'
  BY SelectedStep, HolderStep, Zenon DEF IInv
<1> QED
  BY <1>1, <1>2, <1>3, <1>4, Zenon DEF IInv

\* The inductive invariant holds in every state.
THEOREM Invariant == Spec => []IInv
BY InvInit, InvStep, PTL DEF Spec

\* TypeOK holds in every state: among other things deliverWithRetry never counts
\* past its last attempt.
THEOREM TypeCorrect == Spec => []TypeOK
<1>1. IInv => TypeOK
  BY Zenon DEF IInv
<1> QED
  BY <1>1, Invariant, PTL

\* The audit trail never claims a delivery that did not happen: MarkSuccess is
\* reached only through a 2xx answer for that event, whatever crashes, replays
\* and duplicates come between.
THEOREM SuccessIsReal == Spec => []SuccessWasDelivered
<1>1. IInv => SuccessWasDelivered
  BY Zenon DEF IInv
<1> QED
  BY <1>1, Invariant, PTL

\* An accepted event has its own row unless its idempotency key was taken: no
\* step removes a row, and SaveEvent skips the insert only for a key in use.
THEOREM AcceptedHasRow == Spec => []RowUnlessDuplicate
<1>1. IInv => RowUnlessDuplicate
  BY Zenon DEF IInv, SavedRow, RowUnlessDuplicate
<1> QED
  BY <1>1, Invariant, PTL

\* An accepted event leaves the broker for good only by a 2xx answer or into the
\* dead letter queue, unless the publish went into a broken connection or the
\* broker restarted: handleDelivery settles after the outcome is known, and what
\* it did not settle comes back.
THEOREM NothingDropped == Spec => []NeverDropped
<1>1. IInv => NeverDropped
  BY Zenon DEF IInv
<1> QED
  BY <1>1, Invariant, PTL

\* A pending row has somebody left who will resolve it, unless a step failed half
\* way, its publish was lost or a broker restart took its message.
THEOREM OrphansAreExplained == Spec => []OrphansExplained
<1>1. IInv => OrphansExplained
  BY DEF IInv
<1> QED
  BY <1>1, Invariant, PTL

\* A delivered event's row goes back from success only if its message was
\* redelivered or two replays selected it: UpdateEventStatus overwrites what is
\* there, but the first delivery and one replay of it follow each other.
THEOREM SuccessIsFinal == Spec => SuccessFinalUnlessDuplicated
<1>1. IInv /\ [Next]_vars =>
         \A e \in Event : status[e] = "success" /\ status'[e] # "success" =>
            e \in redelivered \/ \E q, r \in replayed[e] : q # r
  BY FinalStep DEF IInv, Solitary
<1> QED
  BY <1>1, Invariant, PTL DEF Spec, SuccessFinalUnlessDuplicated
=============================================================================

-------------------------- MODULE WebhookPipeline --------------------------
(***************************************************************************)
(* The life of a webhook event: the gateway's ingestion and replay         *)
(* handlers (cmd/gateway/main.go), the event store, the broker, and the    *)
(* worker's delivery goroutines (internal/worker) with the circuit breaker *)
(* in front of the target.  Every database, broker and breaker call is a   *)
(* step of its own, so that a crash, a closed channel or another goroutine *)
(* can come between any two of them.                                       *)
(***************************************************************************)
EXTENDS EventStore, Broker

CONSTANTS
    BadTarget,     \* targets for which http.NewRequest returns an error
    MaxAttempts,   \* POSTs per delivery (3)
    MaxFailures,   \* breaker threshold (5)
    Replayer,      \* calls of POST /v1/webhooks/replay
    Faults,        \* what may go wrong, see FaultKind
    MaxFaults      \* bound: how often something goes wrong

FaultKind == {"db",         \* a database call returns an error
              "publisher",  \* the gateway's AMQP connection breaks
              "gateway",    \* the gateway process dies and is restarted
              "conn",       \* the worker's AMQP connection closes
              "crash",      \* the worker process dies
              "shutdown",   \* the worker gets SIGTERM
              "broker"}     \* the broker restarts

ASSUME PipelineAssumption ==
    /\ Event \subseteq Msg
    /\ None \notin Msg
    /\ IsFiniteSet(Slot)
    /\ BadTarget \subseteq Target
    /\ MaxAttempts \in Nat \ {0}
    /\ MaxFailures \in Nat \ {0}
    /\ Faults \subseteq FaultKind
    /\ MaxFaults \in Nat

VARIABLES
    ingest,     \* where each ingestion request is
    replay,     \* where each replay request is
    handler,    \* the delivery goroutine of each slot
    breaker,    \* the worker's circuit breakers
    worker,     \* the worker process
    consuming,  \* is the worker's receive loop still running?
    generation, \* worker processes started after the first
    faults,     \* faults so far
    delivered,  \* history: events a target answered with 2xx
    redelivered,\* history: events whose message the broker took back
    replayed,   \* history: the replays that selected each event
    lost,       \* history: events published into a broken connection
    wiped,      \* history: events that a broker restart took from a queue
    abandoned   \* history: events whose row some failed step left as it was

gatewayVars == <<ingest, replay>>
processVars == <<worker, consuming, generation>>
workerVars  == <<handler, breaker, processVars>>
history     == <<delivered, redelivered, replayed, lost, wiped, abandoned>>
vars == <<request, status, brokerVars, gatewayVars, workerVars, faults, history>>

B == INSTANCE BreakerSpec WITH URL <- Target

IdleReplay == [pc |-> "idle", todo |-> {}, ev |-> None]

\* A goroutine that has not received anything; msg None.
IdleHandler == [pc |-> "idle", msg |-> None, attempt |-> 0]

Init ==
    /\ StoreInit
    /\ BrokerInit([m \in Msg |-> IF m \in Event THEN 0 ELSE 1])
    /\ ingest = [e \in Event |-> "new"]
    /\ replay = [r \in Replayer |-> IdleReplay]
    /\ handler = [s \in Slot |-> IdleHandler]
    /\ B!Init
    /\ worker = "running"
    /\ consuming = TRUE
    /\ faults = 0
    /\ delivered = {}
    /\ redelivered = {}
    /\ replayed = [e \in Event |-> {}]
    /\ lost = {}
    /\ wiped = {}
    /\ abandoned = {}

\* One of the allowed faults happens.
Fault(kind) ==
    /\ kind \in Faults
    /\ faults < MaxFaults
    /\ faults' = faults + 1

-----------------------------------------------------------------------------
(* POST /v1/webhooks.  The checks that answer 4xx change nothing.           *)

\* SaveEvent returned nil: the row was inserted, or skipped as a duplicate.
Save(e) ==
    /\ ingest[e] = "new"
    /\ SaveEvent(e)
    /\ ingest' = [ingest EXCEPT ![e] = "saved"]
    /\ UNCHANGED <<request, brokerVars, replay, workerVars, faults, history>>

\* 500: the row, if there is one by now, stays as it is.
Refuse(e) ==
    /\ ingest' = [ingest EXCEPT ![e] = "refused"]
    /\ abandoned' = abandoned \cup {e}

\* SaveEvent returned an error, with or without the insert having happened.
SaveFails(e) ==
    /\ ingest[e] = "new"
    /\ Fault("db")
    /\ SaveEvent(e) \/ UNCHANGED status
    /\ Refuse(e)
    /\ UNCHANGED <<request, brokerVars, replay, workerVars, delivered, redelivered,
                   replayed, lost, wiped>>

\* Publish returns nil, whether or not the message arrives.
Publish(e) ==
    \/ Enqueue(e) /\ UNCHANGED lost
    \/ PublishIntoVoid /\ lost' = lost \cup {e}

\* Publish, then 202 Accepted.
Accept(e) ==
    /\ ingest[e] = "saved"
    /\ Publish(e)
    /\ ingest' = [ingest EXCEPT ![e] = "accepted"]
    /\ UNCHANGED <<request, status, replay, workerVars, faults, delivered, redelivered,
                   replayed, wiped, abandoned>>

\* Publish returns an error, then 500; the row stays.
PublishFails(e) ==
    /\ ingest[e] = "saved"
    /\ PublishRefused
    /\ Refuse(e)
    /\ UNCHANGED <<request, status, replay, workerVars, faults, delivered, redelivered,
                   replayed, lost, wiped>>

-----------------------------------------------------------------------------
(* POST /v1/webhooks/replay.                                                *)

\* The failed events of one client, or the one it names if that is failed.
ReplayQuery(r) ==
    /\ replay[r].pc = "idle"
    /\ \E k \in ApiKey :
         \E picked \in {GetFailedEvents(k)} \cup {GetFailedEvents(k) \cap {e} : e \in Event} :
            /\ replay' = [replay EXCEPT ![r].pc = "loop", ![r].todo = picked]
            /\ replayed' = [e \in Event |-> IF e \in picked THEN replayed[e] \cup {r}
                                            ELSE replayed[e]]
    /\ UNCHANGED <<request, status, brokerVars, ingest, workerVars, faults, delivered,
                   redelivered, lost, wiped, abandoned>>

\* The query returned an error: nothing is replayed.
ReplayQueryFails(r) ==
    /\ replay[r].pc = "idle"
    /\ Fault("db")
    /\ replay' = [replay EXCEPT ![r].pc = "done"]
    /\ UNCHANGED <<request, status, brokerVars, ingest, workerVars, history>>

\* The loop body, first call: reset the row to pending.
ReplayReset(r) ==
    /\ replay[r].pc = "loop"
    /\ \E e \in replay[r].todo :
          /\ UpdateEventStatus(e, "pending")
          /\ replay' = [replay EXCEPT ![r].pc = "publish", ![r].ev = e]
    /\ UNCHANGED <<request, brokerVars, ingest, workerVars, faults, history>>

\* UpdateEventStatus returned an error, applied or not: on to the next event.
ReplayResetFails(r) ==
    /\ replay[r].pc = "loop"
    /\ Fault("db")
    /\ \E e \in replay[r].todo :
          /\ UpdateEventStatus(e, "pending") \/ UNCHANGED status
          /\ replay' = [replay EXCEPT ![r].todo = @ \ {e}]
          /\ abandoned' = abandoned \cup {e}
    /\ UNCHANGED <<request, brokerVars, ingest, workerVars, delivered, redelivered,
                   replayed, lost, wiped>>

\* The loop body, second call: publish; an error is logged and skipped.
ReplayPublish(r) ==
    LET e == replay[r].ev IN
    /\ replay[r].pc = "publish"
    /\ \/ Publish(e) /\ UNCHANGED abandoned
       \/ PublishRefused /\ abandoned' = abandoned \cup {e} /\ UNCHANGED lost
    /\ replay' = [replay EXCEPT ![r] = [pc |-> "loop", todo |-> @.todo \ {e}, ev |-> None]]
    /\ UNCHANGED <<request, status, ingest, workerVars, faults, delivered, redelivered,
                   replayed, wiped>>

ReplayDone(r) ==
    /\ replay[r].pc = "loop"
    /\ replay[r].todo = {}
    /\ replay' = [replay EXCEPT ![r].pc = "done"]
    /\ UNCHANGED <<request, status, brokerVars, ingest, workerVars, faults, history>>

-----------------------------------------------------------------------------
(* The worker: Start's receive loop and handleDelivery, one goroutine per   *)
(* unacknowledged delivery.                                                 *)

At(s, pc) == handler[s].pc = pc

Goto(s, pc) == handler' = [handler EXCEPT ![s].pc = pc]

TargetOf(s) == request[handler[s].msg].target

\* A message arrives.  After cancel() the select may still choose it.
Receive(s) ==
    /\ consuming
    /\ At(s, "idle")
    /\ \E m \in Msg :
          /\ Deliver(s, m)
          /\ handler' = [handler EXCEPT ![s] = [pc |-> "start", msg |-> m, attempt |-> 0]]
    /\ UNCHANGED <<request, status, gatewayVars, breaker, processVars, faults, history>>

\* json.Unmarshal fails: rejected for good.
Malformed(s) ==
    /\ At(s, "start")
    /\ handler[s].msg \notin Event
    /\ Nack(s)
    /\ handler' = [handler EXCEPT ![s] = IdleHandler]
    /\ UNCHANGED <<request, status, gatewayVars, breaker, processVars, faults, history>>

\* cb.Allow: refused only while Open; an Open breaker may have timed out.
CheckBreaker(s) ==
    LET b == breaker[TargetOf(s)] IN
    /\ At(s, "start")
    /\ handler[s].msg \in Event
    /\ \/ /\ Goto(s, "post")
          /\ breaker' = [breaker EXCEPT ![TargetOf(s)] = B!OnTimeout(@)]
       \/ b.state = "Open" /\ Goto(s, "blocked") /\ UNCHANGED breaker
    /\ UNCHANGED <<request, status, brokerVars, gatewayVars, processVars, faults,
                   history>>

\* cb.State, called for the error text; it too may find the timeout over.
ReadState(s) ==
    /\ At(s, "blocked")
    /\ Goto(s, "markFailed")
    /\ \/ breaker' = [breaker EXCEPT ![TargetOf(s)] = B!OnTimeout(@)]
       \/ UNCHANGED breaker
    /\ UNCHANGED <<request, status, brokerVars, gatewayVars, processVars, faults,
                   history>>

\* One POST answered with 2xx.  Not after cancel(): the request's context is
\* derived from the cancelled one.
PostSucceeds(s) ==
    /\ At(s, "post")
    /\ TargetOf(s) \notin BadTarget
    /\ worker = "running"
    /\ Goto(s, "delivered")
    /\ delivered' = delivered \cup {handler[s].msg}
    /\ UNCHANGED <<request, status, brokerVars, gatewayVars, breaker, processVars,
                   faults, redelivered, replayed, lost, wiped, abandoned>>

\* Mutants: one attempt too many; the last error is lost and nil is returned.
PostFails_OffByOne(s) ==
    /\ At(s, "post")
    /\ Goto(s, IF TargetOf(s) \in BadTarget \/ handler[s].attempt = MaxAttempts
               THEN "undelivered" ELSE "backoff")
    /\ UNCHANGED <<request, status, brokerVars, gatewayVars, breaker, processVars,
                   faults, history>>
PostFails_ReturnsNil(s) ==
    /\ At(s, "post")
    /\ Goto(s, IF TargetOf(s) \in BadTarget \/ handler[s].attempt = MaxAttempts - 1
               THEN "delivered" ELSE "backoff")
    /\ UNCHANGED <<request, status, brokerVars, gatewayVars, breaker, processVars,
                   faults, history>>

\* One POST failed: back off unless it was the last, or unless the request
\* could not even be built.
PostFails(s) ==
    /\ At(s, "post")
    /\ Goto(s, IF TargetOf(s) \in BadTarget \/ handler[s].attempt = MaxAttempts - 1
               THEN "undelivered" ELSE "backoff")
    /\ UNCHANGED <<request, status, brokerVars, gatewayVars, breaker, processVars,
                   faults, history>>

\* Mutant: the loop counter is not advanced.
Backoff_SameAttempt(s) ==
    /\ At(s, "backoff")
    /\ Goto(s, "post") \/ (worker = "stopping" /\ Goto(s, "undelivered"))
    /\ UNCHANGED <<request, status, brokerVars, gatewayVars, breaker, processVars,
                   faults, history>>

\* The backoff timer fires, or the context is cancelled first.
Backoff(s) ==
    /\ At(s, "backoff")
    /\ \/ handler' = [handler EXCEPT ![s].pc = "post", ![s].attempt = @ + 1]
       \/ worker = "stopping" /\ Goto(s, "undelivered")
    /\ UNCHANGED <<request, status, brokerVars, gatewayVars, breaker, processVars,
                   faults, history>>

RecordFailure(s) ==
    /\ At(s, "undelivered")
    /\ breaker' = [breaker EXCEPT ![TargetOf(s)] = B!OnFailure(@)]
    /\ Goto(s, "markFailed")
    /\ UNCHANGED <<request, status, brokerVars, gatewayVars, processVars, faults,
                   history>>

RecordSuccess(s) ==
    /\ At(s, "delivered")
    /\ breaker' = [breaker EXCEPT ![TargetOf(s)] = B!OnSuccess(@)]
    /\ Goto(s, "markSuccess")
    /\ UNCHANGED <<request, status, brokerVars, gatewayVars, processVars, faults,
                   history>>

\* UpdateEventStatus with the worker's context: it fails once that context is
\* cancelled, and may fail by itself, applied or not.  Errors are only logged.
Mark(s, outcome) ==
    /\ \/ worker = "running" /\ UpdateEventStatus(handler[s].msg, outcome) /\ UNCHANGED faults
       \/ worker = "stopping" /\ UNCHANGED <<status, faults>>
       \/ /\ Fault("db")
          /\ UpdateEventStatus(handler[s].msg, outcome) \/ UNCHANGED status
    /\ abandoned' = IF status'[handler[s].msg] = outcome
                    THEN abandoned \ {handler[s].msg}
                    ELSE abandoned \cup {handler[s].msg}

\* Mutant: a failed delivery is not written to the event store.
MarkFailed_Forgotten(s) ==
    /\ At(s, "markFailed")
    /\ Goto(s, "nack")
    /\ UNCHANGED <<request, status, brokerVars, gatewayVars, breaker, processVars,
                   faults, history>>

MarkFailed(s) ==
    /\ At(s, "markFailed")
    /\ Mark(s, "failed")
    /\ Goto(s, "nack")
    /\ UNCHANGED <<request, brokerVars, gatewayVars, breaker, processVars, delivered,
                   redelivered, replayed, lost, wiped>>

MarkSuccess(s) ==
    /\ At(s, "markSuccess")
    /\ Mark(s, "success")
    /\ Goto(s, "ack")
    /\ UNCHANGED <<request, brokerVars, gatewayVars, breaker, processVars, delivered,
                   redelivered, replayed, lost, wiped>>

\* Mutant: failed deliveries are acknowledged instead of dead-lettered.
Settle_AcksFailures(s) ==
    /\ At(s, "nack") \/ At(s, "ack")
    /\ Ack(s)
    /\ handler' = [handler EXCEPT ![s] = IdleHandler]
    /\ UNCHANGED <<request, status, gatewayVars, breaker, processVars, faults, history>>

\* The delivery is settled and the goroutine ends.
Settle(s) ==
    /\ (At(s, "nack") /\ Nack(s)) \/ (At(s, "ack") /\ Ack(s))
    /\ handler' = [handler EXCEPT ![s] = IdleHandler]
    /\ UNCHANGED <<request, status, gatewayVars, breaker, processVars, faults, history>>

-----------------------------------------------------------------------------
(* The worker process and what can go wrong around it.                      *)

\* Every unsettled delivery goes back to the queue, to be delivered again.
TakenBack ==
    /\ Requeue
    /\ redelivered' = redelivered \cup {e \in Event : \E s \in Slot : unacked[s] = e}

\* The process ends: its goroutines end wherever they are.
ProcessEnds ==
    /\ TakenBack
    /\ worker' = "down"
    /\ consuming' = FALSE
    /\ handler' = [s \in Slot |-> IdleHandler]
    /\ UNCHANGED <<request, status, pubConn, gatewayVars, breaker, generation,
                   delivered, replayed, lost, wiped, abandoned>>

Crash == worker # "down" /\ Fault("crash") /\ ProcessEnds

\* SIGTERM: cancel().
Sigterm ==
    /\ worker = "running"
    /\ Fault("shutdown")
    /\ worker' = "stopping"
    /\ UNCHANGED <<request, status, brokerVars, gatewayVars, handler, breaker,
                   consuming, generation, history>>

\* The receive loop sees ctx.Done and only waits from then on.
StopLoop ==
    /\ worker = "stopping"
    /\ consuming
    /\ consuming' = FALSE
    /\ UNCHANGED <<request, status, brokerVars, gatewayVars, handler, breaker,
                   worker, generation, faults, history>>

\* main sleeps two seconds and returns, whatever the goroutines are doing.
Exit == worker = "stopping" /\ ProcessEnds /\ UNCHANGED faults

\* A new process: fresh breakers, a new channel, a new consumer.
StartWorker ==
    /\ worker = "down"
    /\ worker' = "running"
    /\ consuming' = TRUE
    /\ B!Restart
    /\ UNCHANGED <<request, status, brokerVars, gatewayVars, handler, faults, history>>

\* The worker's connection closes: msgs is closed, Start returns, and nothing
\* starts it again; the goroutines go on.  After cancel() only they use it.
ConnLost ==
    /\ consuming \/ \E s \in Slot : unacked[s] # None
    /\ Fault("conn")
    /\ TakenBack
    /\ consuming' = FALSE
    /\ UNCHANGED <<request, status, pubConn, gatewayVars, handler, breaker, worker,
                   generation, delivered, replayed, lost, wiped, abandoned>>

\* The gateway's connection breaks; it is not reopened.
PublisherLost ==
    /\ pubConn = "open"
    /\ Fault("publisher")
    /\ Break
    /\ UNCHANGED <<request, status, queue, dlq, unacked, gatewayVars, workerVars,
                   history>>

\* The library notices, by a failed write or a missed heartbeat.
PublisherNoticed ==
    /\ pubConn = "broken"
    /\ pubConn' = "closed"
    /\ UNCHANGED <<request, status, queue, dlq, unacked, gatewayVars, workerVars,
                   faults, history>>

\* A handler of the gateway has written e's row and not published e yet.
AboutToPublish(e) ==
    \/ ingest[e] = "saved"
    \/ \E r \in Replayer : replay[r].pc = "publish" /\ replay[r].ev = e

\* The gateway process dies: requests in progress are never answered.
GatewayRestart ==
    /\ Fault("gateway")
    /\ pubConn' = "open"
    /\ ingest' = [e \in Event |-> IF ingest[e] = "saved" THEN "refused" ELSE ingest[e]]
    /\ replay' = [r \in Replayer |-> IF replay[r].pc \in {"loop", "publish"}
                                     THEN [IdleReplay EXCEPT !.pc = "done"]
                                     ELSE replay[r]]
    /\ abandoned' = abandoned \cup {e \in Event : AboutToPublish(e)}
    /\ UNCHANGED <<request, status, queue, dlq, unacked, workerVars, delivered,
                   redelivered, replayed, lost, wiped>>

BrokerRestart ==
    /\ Fault("broker")
    /\ LoseMessages
    /\ consuming' = FALSE
    /\ wiped' = wiped \cup {e \in Event : \/ queue[e] > 0 \/ dlq[e] > 0
                                          \/ \E s \in Slot : unacked[s] = e}
    /\ UNCHANGED <<request, status, gatewayVars, handler, breaker, worker, generation,
                   delivered, redelivered, replayed, lost, abandoned>>

-----------------------------------------------------------------------------
Ingestion(e) == Save(e) \/ SaveFails(e) \/ Accept(e) \/ PublishFails(e)

Replaying(r) ==
    \/ ReplayQuery(r) \/ ReplayQueryFails(r) \/ ReplayReset(r) \/ ReplayResetFails(r)
    \/ ReplayPublish(r) \/ ReplayDone(r)

Delivering(s) ==
    \/ Receive(s) \/ Malformed(s) \/ CheckBreaker(s) \/ ReadState(s)
    \/ PostSucceeds(s) \/ PostFails(s) \/ Backoff(s)
    \/ RecordFailure(s) \/ RecordSuccess(s) \/ MarkFailed(s) \/ MarkSuccess(s)
    \/ Settle(s)

Operations ==
    \/ Crash \/ Sigterm \/ StopLoop \/ Exit \/ StartWorker
    \/ ConnLost \/ PublisherLost \/ PublisherNoticed
    \/ GatewayRestart \/ BrokerRestart

Next ==
    \/ \E e \in Event : Ingestion(e)
    \/ \E r \in Replayer : Replaying(r)
    \/ \E s \in Slot : Delivering(s)
    \/ Operations

Spec == Init /\ [][Next]_vars

\* The handlers are not cut short for ever: a goroutine, a gateway request and a
\* started shutdown go on, and a supervisor starts the worker again.
Fairness ==
    /\ \A e \in Event : WF_vars(Accept(e) \/ PublishFails(e))
    /\ \A r \in Replayer : WF_vars(ReplayReset(r) \/ ReplayPublish(r))
    /\ \A s \in Slot : WF_vars(Delivering(s))
    /\ WF_vars(Exit)
    /\ WF_vars(StartWorker)

FairSpec == Spec /\ Fairness

-----------------------------------------------------------------------------
Replay == [pc   : {"idle", "loop", "publish", "done"},
           todo : SUBSET Event,
           ev   : Event \cup {None}]

Handler == [pc      : {"idle", "start", "blocked", "post", "backoff", "delivered",
                       "undelivered", "markFailed", "markSuccess", "nack", "ack"},
            msg     : Msg \cup {None},
            attempt : 0 .. (MaxAttempts - 1)]

\* The type invariant; deliverWithRetry never counts past its last attempt.
TypeOK ==
    /\ StoreTypeOK
    /\ BrokerTypeOK
    /\ ingest \in [Event -> {"new", "saved", "accepted", "refused"}]
    /\ replay \in [Replayer -> Replay]
    /\ \A r \in Replayer : replay[r].pc = "publish" => replay[r].ev \in Event
    /\ handler \in [Slot -> Handler]
    /\ breaker \in [Target -> B!Breaker]
    /\ worker \in {"running", "stopping", "down"}
    /\ consuming \in BOOLEAN
    /\ faults \in Nat
    /\ generation \in Nat
    /\ delivered \subseteq Event
    /\ redelivered \subseteq Event
    /\ replayed \in [Event -> SUBSET Replayer]
    /\ lost \subseteq Event
    /\ wiped \subseteq Event
    /\ abandoned \subseteq Event

\* Someone will still write the outcome of e: its message is about to be
\* published, is queued, or is with a goroutine that has not marked the row.
InPipeline(e) ==
    \/ AboutToPublish(e)
    \/ queue[e] > 0
    \/ \E s \in Slot : handler[s].msg = e /\ handler[s].pc \notin {"nack", "ack"}

\* A row never stays pending with nothing left that will resolve it, except
\* through a step that failed half way: replay only takes failed rows, so such
\* an event cannot be recovered through the API.  The exceptions are a request
\* that wrote the row and could not publish, a publish that a broken connection
\* swallowed, a status update that was refused or came after cancel(), and
\* messages that went down with the broker.  No crash, redelivery, duplicate or
\* order of the rest orphans a row.
OrphansExplained ==
    \A e \in Event : status[e] = "pending" =>
        InPipeline(e) \/ e \in abandoned \cup lost \cup wiped

\* An accepted event has a row of its own, or its idempotency key was taken: the
\* insert is skipped only for a key another event's row holds, and no row goes
\* away again (SaveEvent, and the handler that does not look at what it did).
RowUnlessDuplicate ==
    \A e \in Event : ingest[e] = "accepted" /\ status[e] = "absent" =>
        \E f \in Event \ {e} : status[f] # "absent" /\ Key(f) = Key(e)

\* The audit trail never claims a delivery that did not happen: `success' is
\* written only after a target answered 2xx for that event.
SuccessWasDelivered == \A e \in Event : status[e] = "success" => e \in delivered

\* An event whose Publish returned nil is delivered, dead-lettered, queued or
\* with the worker, through crashes, shutdowns and lost connections (the
\* acknowledgement rules of handleDelivery).  Its message disappears in two ways
\* only, both at the publisher's door: Publish waits for no confirm, so a broken
\* connection may have swallowed it, and it marks no message persistent, so a
\* broker restart may have taken it.
NeverDropped ==
    \A e \in Event : ingest[e] = "accepted" =>
        \/ e \in delivered \cup lost \cup wiped
        \/ queue[e] > 0 \/ dlq[e] > 0
        \/ \E s \in Slot : unacked[s] = e

\* UpdateEventStatus overwrites whatever is there, so a delivered event can go
\* back from success; but only if the broker took its message back and
\* delivered it again, or two replays selected its row.  A first delivery and
\* one replay, whatever fails between their steps, leave success alone.
SuccessFinalUnlessDuplicated ==
    [][\A e \in Event : status[e] = "success" /\ status'[e] # "success" =>
          e \in redelivered \/ \E q, r \in replayed[e] : q # r]_vars

\* Every pending row is eventually resolved, if goroutines keep running and the
\* worker is restarted after a crash.
PendingResolves == \A e \in Event : status[e] = "pending" ~> status[e] # "pending"

-----------------------------------------------------------------------------
(* What the documentation says and the code does not do.                    *)

\* README: shutdown drains in-flight queue messages.  A message that the worker
\* gave up on is recorded, not left as pending in the dead letter queue.
DeadLettersRecorded ==
    \A e \in Event : dlq[e] > 0 /\ status[e] = "pending" => InPipeline(e)

\* README: the ingestion endpoint answers 500 when RabbitMQ is out, and so
\* protects clients from silent message losses.  An event answered with 202 is
\* delivered, queued, dead-lettered or with the worker.
NoSilentLoss ==
    \A e \in Event : ingest[e] = "accepted" =>
        \/ e \in delivered
        \/ queue[e] > 0 \/ dlq[e] > 0
        \/ \E s \in Slot : unacked[s] = e
=============================================================================

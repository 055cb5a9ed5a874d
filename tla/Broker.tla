------------------------------- MODULE Broker -------------------------------
(***************************************************************************)
(* The RabbitMQ topology that internal/queue declares and how the gateway  *)
(* and the worker use it: webhook_queue, dead-lettering into webhook_dlq,  *)
(* manual acknowledgement with a prefetch limit.  The queues are durable,  *)
(* the messages are not (Publish sets no delivery mode), and nobody asks   *)
(* for publisher confirms.  RabbitMQ itself is external: it is modelled    *)
(* from these declarations and calls.                                      *)
(***************************************************************************)
EXTENDS Naturals, FiniteSets

CONSTANTS
    Msg,    \* message bodies
    Slot,   \* deliveries that may be unacknowledged at once (Qos prefetch)
    None    \* no delivery

VARIABLES
    queue,     \* webhook_queue: copies ready, per message body
    dlq,       \* webhook_dlq: copies, per message body
    unacked,   \* the delivery each slot holds, None when settled
    pubConn    \* the gateway's publishing connection

brokerVars == <<queue, dlq, unacked, pubConn>>

\* A broken connection reaches the broker no more, and the gateway's library
\* has not noticed; on a closed one it answers every Publish with an error.
Connection == {"open", "broken", "closed"}

BrokerInit(initial) ==
    /\ queue = initial
    /\ dlq = [m \in Msg |-> 0]
    /\ unacked = [s \in Slot |-> None]
    /\ pubConn = "open"

BrokerTypeOK ==
    /\ queue \in [Msg -> Nat]
    /\ dlq \in [Msg -> Nat]
    /\ unacked \in [Slot -> Msg \cup {None}]
    /\ pubConn \in Connection

\* Publish returns nil and the message is ready.
Enqueue(m) ==
    /\ pubConn = "open"
    /\ queue' = [queue EXCEPT ![m] = @ + 1]
    /\ UNCHANGED <<dlq, unacked, pubConn>>

\* Publish returns nil as soon as the frames are written.  On a broken
\* connection they arrive nowhere, and no confirm is asked for or missed.
PublishIntoVoid ==
    /\ pubConn = "broken"
    /\ UNCHANGED brokerVars

\* Publish returns an error.
PublishRefused ==
    /\ pubConn = "closed"
    /\ UNCHANGED brokerVars

\* The broker pushes a ready message to the consumer.
Deliver(s, m) ==
    /\ unacked[s] = None
    /\ queue[m] > 0
    /\ queue' = [queue EXCEPT ![m] = @ - 1]
    /\ unacked' = [unacked EXCEPT ![s] = m]
    /\ UNCHANGED <<dlq, pubConn>>

\* d.Ack(false); on a delivery the broker took back it does nothing.
Ack(s) ==
    /\ unacked' = [unacked EXCEPT ![s] = None]
    /\ UNCHANGED <<queue, dlq, pubConn>>

\* d.Nack(false, false): not requeued, so dead-lettered.
Nack(s) ==
    /\ dlq' = IF unacked[s] = None THEN dlq
              ELSE [dlq EXCEPT ![unacked[s]] = @ + 1]
    /\ unacked' = [unacked EXCEPT ![s] = None]
    /\ UNCHANGED <<queue, pubConn>>

\* The consumer's connection is gone: the broker requeues what was unsettled.
Requeue ==
    /\ queue' = [m \in Msg |-> queue[m] + Cardinality({s \in Slot : unacked[s] = m})]
    /\ unacked' = [s \in Slot |-> None]
    /\ UNCHANGED dlq

\* The gateway's connection stops working; whatever is written to it is lost.
Break == pubConn' = IF pubConn = "open" THEN "broken" ELSE pubConn

\* The broker restarts: transient messages are gone from both queues and no
\* connection survives.
LoseMessages ==
    /\ queue' = [m \in Msg |-> 0]
    /\ dlq' = [m \in Msg |-> 0]
    /\ unacked' = [s \in Slot |-> None]
    /\ Break
=============================================================================

---------------------------- MODULE BreakerSpec ----------------------------
(***************************************************************************)
(* What the per-endpoint circuit breaker promises its callers: for every   *)
(* target URL one breaker, a record that each call reads and writes in one *)
(* indivisible step.  There is no clock here: an Open breaker may time out *)
(* at any moment.  CircuitBreaker (goroutines, locks, a lazily filled map, *)
(* a clock) and WebhookPipeline (the worker that calls the breaker) are    *)
(* both shown to implement this module.                                    *)
(***************************************************************************)
EXTENDS Naturals

CONSTANTS
    URL,           \* target URLs
    MaxFailures    \* consecutive failures that trip a breaker (5 in the worker)

VARIABLES
    breaker,       \* URL -> breaker
    generation     \* worker processes so far

vars == <<breaker, generation>>

Breaker == [state : {"Closed", "Open", "Half-Open"}, failures : Nat]

Fresh == [state |-> "Closed", failures |-> 0]

\* The open timeout has passed when Allow or State looks at the breaker.
OnTimeout(b) ==
    IF b.state = "Open" THEN [b EXCEPT !.state = "Half-Open"] ELSE b

\* A success closes a Half-Open breaker; it clears the count in every state.
OnSuccess(b) ==
    [state    |-> IF b.state = "Half-Open" THEN "Closed" ELSE b.state,
     failures |-> 0]

\* A failure opens a Half-Open breaker at once, any other at the threshold.
OnFailure(b) ==
    [state    |-> IF b.state = "Half-Open" \/ b.failures + 1 >= MaxFailures
                  THEN "Open" ELSE b.state,
     failures |-> b.failures + 1]

Init ==
    /\ breaker = [u \in URL |-> Fresh]
    /\ generation = 0

Timeout(u) ==
    breaker' = [breaker EXCEPT ![u] = OnTimeout(@)] /\ UNCHANGED generation
Success(u) ==
    breaker' = [breaker EXCEPT ![u] = OnSuccess(@)] /\ UNCHANGED generation
Failure(u) ==
    breaker' = [breaker EXCEPT ![u] = OnFailure(@)] /\ UNCHANGED generation

\* The breakers live in the worker's memory: a new process starts afresh, and
\* nothing else forgets them.
Restart ==
    /\ breaker' = [u \in URL |-> Fresh]
    /\ generation' = generation + 1

Next == (\E u \in URL : Timeout(u) \/ Success(u) \/ Failure(u)) \/ Restart

Spec == Init /\ [][Next]_vars
=============================================================================

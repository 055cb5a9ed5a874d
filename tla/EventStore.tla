----------------------------- MODULE EventStore -----------------------------
(***************************************************************************)
(* internal/events: the PostgreSQL table of webhook events.  A row is      *)
(* identified by the event's id, and its idempotency key is unique.  Of    *)
(* the columns, the status is state; key, owner and target never change    *)
(* after the insert and are read from the request that made the row.       *)
(***************************************************************************)
CONSTANTS
    Event,     \* event ids: one fresh UUID per ingestion request
    ApiKey,    \* clients
    Target,    \* target URLs
    IdemKey,   \* idempotency keys that clients send
    NoKey      \* no idempotency header

VARIABLES
    request,   \* what each ingestion request asks for
    status     \* status column; "absent" when the event has no row

Request == [apiKey : ApiKey, target : Target, idem : IdemKey \cup {NoKey}]

Status == {"absent", "pending", "success", "failed"}

\* The idempotency_key column: an event without a key gets its own id.
Key(e) == IF request[e].idem = NoKey THEN e ELSE request[e].idem

\* Mutant: the conflict target is the client's column.
SaveEvent_PerClient(e) ==
    status' = IF \E f \in Event : status[f] # "absent" /\ request[f].apiKey = request[e].apiKey
              THEN status
              ELSE [status EXCEPT ![e] = "pending"]

\* INSERT ... ON CONFLICT (idempotency_key) DO NOTHING.
SaveEvent(e) ==
    status' = IF \E f \in Event : status[f] # "absent" /\ Key(f) = Key(e)
              THEN status
              ELSE [status EXCEPT ![e] = "pending"]

\* UPDATE ... WHERE id = e: whatever the status was, and no error if no row.
UpdateEventStatus(e, s) ==
    status' = [status EXCEPT ![e] = IF @ = "absent" THEN @ ELSE s]

\* Mutant: the query does not filter by status.
GetFailedEvents_AnyStatus(k) ==
    {e \in Event : status[e] # "absent" /\ request[e].apiKey = k}

\* SELECT ... WHERE api_key = k AND status = 'failed'.
GetFailedEvents(k) ==
    {e \in Event : status[e] = "failed" /\ request[e].apiKey = k}

StoreInit ==
    /\ request \in [Event -> Request]
    /\ status = [e \in Event |-> "absent"]

StoreTypeOK ==
    /\ request \in [Event -> Request]
    /\ status \in [Event -> Status]
=============================================================================

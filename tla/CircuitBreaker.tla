--------------------------- MODULE CircuitBreaker ---------------------------
(***************************************************************************)
(* internal/circuitbreaker as the worker's delivery goroutines use it.     *)
(* A goroutine asks Allow; when admitted it delivers and records the       *)
(* outcome, when refused it asks State for its error message.  Every call  *)
(* looks the URL's urlState up in a map that is filled on first use, works *)
(* on it under its own mutex, and reports a change to the callback that    *)
(* writes the Redis mirror after the mutex has been released.              *)
(***************************************************************************)
EXTENDS Naturals

CONSTANTS
    Thread,        \* delivery goroutines
    URL,           \* target URLs
    MaxFailures,   \* cb.maxFailures
    OpenTimeout,   \* cb.openTimeout, in clock ticks
    None,          \* "no such entry": in a Go map, in the Redis hash
    MaxTime,       \* bound: last instant of the clock
    MaxRestarts,   \* bound: worker process restarts
    RedisMayFail   \* may HSet return an error?

ASSUME BreakerAssumption ==
    /\ MaxFailures \in Nat \ {0}
    /\ OpenTimeout \in Nat
    /\ MaxTime \in Nat
    /\ MaxRestarts \in Nat
    /\ RedisMayFail \in BOOLEAN
    /\ None \notin Thread
    /\ None \notin URL

VARIABLES
    now,        \* the worker's clock
    heap,       \* heap[t][u]: the urlState that goroutine t allocated for u
    urlStates,  \* cb.urlStates: whose allocation serves each URL
    call,       \* the breaker call in progress in each goroutine
    mirror,     \* Redis hash apishield:circuit_breakers
    trips,      \* metric CircuitBreakerTrips
    restarts,   \* worker restarts so far
    openedAt    \* history: when each breaker last became Open

vars == <<now, heap, urlStates, call, mirror, trips, restarts, openedAt>>

State == {"Closed", "Open", "Half-Open"}

URLState == [state : State, failures : Nat, lastFailure : Nat]

NewURLState == [state |-> "Closed", failures |-> 0, lastFailure |-> 0]

\* What triggerChange hands to the callback and Redis then holds (the time of
\* the next retry, computed from lastFailure, is left out).
Snapshot == [state : State, failures : Nat]

Call == [pc   : {"idle", "lookup", "insert", "locked", "notify", "delivering"},
         op   : {"Allow", "State", "RecordSuccess", "RecordFailure"},
         url  : URL \cup {None},
         obj  : Thread \cup {None},
         note : Snapshot]

NoCall == [pc |-> "idle", op |-> "Allow", url |-> None, obj |-> None,
           note |-> [state |-> "Closed", failures |-> 0]]

\* A goroutine about to make breaker call o for URL u.
Calling(o, u) == [NoCall EXCEPT !.pc = "lookup", !.op = o, !.url = u]

\* A goroutine that Allow admitted, delivering to u.
Delivering(u) == [NoCall EXCEPT !.pc = "delivering", !.url = u]

\* The urlState that serves u; a URL not in the map yet behaves as a new one.
Current(u) ==
    IF urlStates[u] = None THEN NewURLState ELSE heap[urlStates[u]][u]

-----------------------------------------------------------------------------
Init ==
    /\ now = 0
    /\ heap = [t \in Thread |-> [u \in URL |-> NewURLState]]
    /\ urlStates = [u \in URL |-> None]
    /\ call = [t \in Thread |-> NoCall]
    /\ mirror = [u \in URL |-> None]
    /\ trips = [u \in URL |-> 0]
    /\ restarts = 0
    /\ openedAt = [u \in URL |-> 0]

\* handleDelivery takes a message for u and asks the breaker first.
Begin(t) ==
    /\ call[t].pc = "idle"
    /\ \E u \in URL : call' = [call EXCEPT ![t] = Calling("Allow", u)]
    /\ UNCHANGED <<now, heap, urlStates, mirror, trips, restarts, openedAt>>

\* deliverWithRetry has returned; its error decides what is recorded.
Outcome(t) ==
    /\ call[t].pc = "delivering"
    /\ \E o \in {"RecordSuccess", "RecordFailure"} :
          call' = [call EXCEPT ![t] = Calling(o, call[t].url)]
    /\ UNCHANGED <<now, heap, urlStates, mirror, trips, restarts, openedAt>>

\* getURLState, first half: look the URL up under the read lock.
Lookup(t) ==
    /\ call[t].pc = "lookup"
    /\ call' = [call EXCEPT ![t].obj = urlStates[call[t].url],
                            ![t].pc  = IF urlStates[call[t].url] = None
                                       THEN "insert" ELSE "locked"]
    /\ UNCHANGED <<now, heap, urlStates, mirror, trips, restarts, openedAt>>

\* Mutant: the write-locked half does not look the URL up again.
Insert_NoRecheck(t) ==
    LET u == call[t].url IN
    /\ call[t].pc = "insert"
    /\ heap' = [heap EXCEPT ![t][u] = NewURLState]
    /\ urlStates' = [urlStates EXCEPT ![u] = t]
    /\ call' = [call EXCEPT ![t].obj = t, ![t].pc = "locked"]
    /\ UNCHANGED <<now, mirror, trips, restarts, openedAt>>

\* getURLState, second half: look again under the write lock, then allocate.
Insert(t) ==
    LET u == call[t].url IN
    /\ call[t].pc = "insert"
    /\ IF urlStates[u] = None
       THEN /\ heap' = [heap EXCEPT ![t][u] = NewURLState]
            /\ urlStates' = [urlStates EXCEPT ![u] = t]
       ELSE UNCHANGED <<heap, urlStates>>
    /\ call' = [call EXCEPT ![t].obj = urlStates'[u], ![t].pc = "locked"]
    /\ UNCHANGED <<now, mirror, trips, restarts, openedAt>>

-----------------------------------------------------------------------------
(* What the sections under st.mu compute, and mutated forms of them.        *)

TimedOut(st) == st.state = "Open" /\ now - st.lastFailure >= OpenTimeout

\* Allow and State: an Open breaker whose timeout has passed half-opens.
Refreshed(st) ==
    IF TimedOut(st) THEN [st EXCEPT !.state = "Half-Open"] ELSE st

\* Mutants: a success closes an Open breaker too; it takes back one failure
\* instead of clearing the count.
Succeeded_ClosesOpen(st) ==
    [st EXCEPT !.state = "Closed", !.failures = 0]
Succeeded_Decrements(st) ==
    [st EXCEPT !.state = IF @ = "Half-Open" THEN "Closed" ELSE @,
               !.failures = @ - 1]

Succeeded(st) ==
    [st EXCEPT !.state = IF @ = "Half-Open" THEN "Closed" ELSE @,
               !.failures = 0]

\* Mutants: the threshold off by one; a trip counted while already Open.
Trips_OffByOne(st) ==
    /\ st.state = "Half-Open" \/ st.failures + 1 > MaxFailures
    /\ st.state # "Open"
Trips_AlreadyOpen(st) ==
    st.state = "Half-Open" \/ st.failures + 1 >= MaxFailures

Trips(st) ==
    /\ st.state = "Half-Open" \/ st.failures + 1 >= MaxFailures
    /\ st.state # "Open"

\* Mutant: st.lastFailure is set by the first failure only.
Failed_KeepsTime(st) ==
    [state       |-> IF Trips(st) THEN "Open" ELSE st.state,
     failures    |-> st.failures + 1,
     lastFailure |-> IF st.failures = 0 THEN now ELSE st.lastFailure]

Failed(st) ==
    [state       |-> IF Trips(st) THEN "Open" ELSE st.state,
     failures    |-> st.failures + 1,
     lastFailure |-> now]

-----------------------------------------------------------------------------
(* The calls, from getURLState's answer on.  A section leaves the goroutine *)
(* at the callback (the change is reported) or back in its caller.          *)

Locked(t, o) == call[t].pc = "locked" /\ call[t].op = o

Held(t) == heap[call[t].obj][call[t].url]

Section(t, st, report, back) ==
    /\ heap' = [heap EXCEPT ![call[t].obj][call[t].url] = st]
    /\ call' = [call EXCEPT ![t] =
                  IF report
                  THEN [@ EXCEPT !.pc = "notify",
                                 !.note = [state    |-> st.state,
                                           failures |-> st.failures]]
                  ELSE back]
    /\ UNCHANGED <<now, urlStates, mirror, restarts>>

Allow(t) ==
    LET st == Refreshed(Held(t)) IN
    /\ Locked(t, "Allow")
    /\ Section(t, st, st.state # Held(t).state,
               IF st.state = "Open" THEN Calling("State", call[t].url)
                                    ELSE Delivering(call[t].url))
    /\ UNCHANGED <<trips, openedAt>>

ReadState(t) ==
    LET st == Refreshed(Held(t)) IN
    /\ Locked(t, "State")
    /\ Section(t, st, st.state # Held(t).state, NoCall)
    /\ UNCHANGED <<trips, openedAt>>

RecordSuccess(t) ==
    LET st == Succeeded(Held(t)) IN
    /\ Locked(t, "RecordSuccess")
    /\ Section(t, st, st.state # Held(t).state, NoCall)
    /\ UNCHANGED <<trips, openedAt>>

RecordFailure(t) ==
    LET st == Failed(Held(t))
        u  == call[t].url
    IN
    /\ Locked(t, "RecordFailure")
    /\ Section(t, st, st.state = "Open", NoCall)
    /\ trips' = [trips EXCEPT ![u] = IF Trips(Held(t)) THEN @ + 1 ELSE @]
    /\ openedAt' = [openedAt EXCEPT
                      ![u] = IF Held(t).state # "Open" /\ st.state = "Open"
                             THEN now ELSE @]

-----------------------------------------------------------------------------
\* triggerChange: the callback writes the snapshot it was given to Redis; an
\* error of HSet is only logged.
Notify(t) ==
    /\ call[t].pc = "notify"
    /\ \/ mirror' = [mirror EXCEPT ![call[t].url] = call[t].note]
       \/ RedisMayFail /\ UNCHANGED mirror
    /\ call' = [call EXCEPT ![t] = IF call[t].op = "Allow"
                                   THEN Delivering(call[t].url) ELSE NoCall]
    /\ UNCHANGED <<now, heap, urlStates, trips, restarts, openedAt>>

Tick ==
    /\ now < MaxTime
    /\ now' = now + 1
    /\ UNCHANGED <<heap, urlStates, call, mirror, trips, restarts, openedAt>>

\* The worker process ends and a new one starts: NewURLCircuitBreaker gives an
\* empty map, the metric starts at zero, the Redis hash is as it was.
Restart ==
    /\ restarts < MaxRestarts
    /\ restarts' = restarts + 1
    /\ heap' = [t \in Thread |-> [u \in URL |-> NewURLState]]
    /\ urlStates' = [u \in URL |-> None]
    /\ call' = [t \in Thread |-> NoCall]
    /\ trips' = [u \in URL |-> 0]
    /\ openedAt' = [u \in URL |-> 0]
    /\ UNCHANGED <<now, mirror>>

Step(t) ==
    \/ Begin(t) \/ Outcome(t) \/ Lookup(t) \/ Insert(t)
    \/ Allow(t) \/ ReadState(t) \/ RecordSuccess(t) \/ RecordFailure(t)
    \/ Notify(t)

Next == (\E t \in Thread : Step(t)) \/ Tick \/ Restart

Spec == Init /\ [][Next]_vars

-----------------------------------------------------------------------------
\* Mutant: GetBreakers shows the stored state without looking at the clock.
Reported_NoClock(st) == st.state

\* GetBreakers: the state the status endpoint shows for a stored urlState.
Reported(st) ==
    IF st.state = "Open" /\ now - st.lastFailure > OpenTimeout
    THEN "Half-Open" ELSE st.state

\* The gateway's listing of the breakers, None for a URL it leaves out: the
\* Redis hash as soon as it has an entry, and the worker's own answer before.
Shown(u) ==
    IF \E v \in URL : mirror[v] # None
    THEN IF mirror[u] = None THEN None ELSE mirror[u].state
    ELSE IF urlStates[u] = None THEN None ELSE Reported(Current(u))

-----------------------------------------------------------------------------
\* The type invariant; a goroutine inside a breaker call has a URL.
TypeOK ==
    /\ now \in Nat
    /\ heap \in [Thread -> [URL -> URLState]]
    /\ urlStates \in [URL -> Thread \cup {None}]
    /\ call \in [Thread -> Call]
    /\ \A t \in Thread : call[t].pc # "idle" => call[t].url \in URL
    /\ mirror \in [URL -> Snapshot \cup {None}]
    /\ trips \in [URL -> Nat]
    /\ restarts \in Nat
    /\ openedAt \in [URL -> Nat]

\* Two goroutines that meet a new URL at once must end up on the same urlState:
\* whatever a goroutine holds under st.mu is the entry the map serves
\* (getURLState's second look under the write lock).
OneStatePerURL ==
    \A t \in Thread : call[t].pc \in {"locked", "notify"} =>
        /\ call[t].obj # None
        /\ call[t].obj = urlStates[call[t].url]

\* A breaker that admits freely has seen fewer than maxFailures failures since
\* its last success, in whatever order late outcomes are recorded
\* (RecordFailure, RecordSuccess).
ClosedBelowThreshold ==
    \A u \in URL : Current(u).state = "Closed" => Current(u).failures < MaxFailures

\* The state GetBreakers shows agrees with what Allow would answer: Half-Open
\* is shown only when Allow admits, and Open is shown while Allow admits only
\* at the one instant where `>' and `>=' differ.
ReportMatchesAllow ==
    \A u \in URL : LET st == Current(u) IN
        /\ Reported(st) = "Half-Open" => Refreshed(st).state # "Open"
        /\ Reported(st) = "Open" /\ Refreshed(st).state # "Open" =>
               now = st.lastFailure + OpenTimeout

\* Goroutine t is admitted by this step.
Admitted(t) == Locked(t, "Allow") /\ call'[t].pc \in {"delivering", "notify"}

\* Allow admits nobody to a URL within openTimeout of the last trip of its
\* breaker, whatever has happened to the breaker since: late failures and
\* successes of earlier deliveries, and State's own look at the timeout, must
\* neither close nor half-open it early.
CoolDownRespected ==
    [][\A t \in Thread : LET u == call[t].url IN
          Admitted(t) /\ trips[u] > 0 => now >= openedAt[u] + OpenTimeout]_vars

\* CircuitBreakerTrips counts exactly the moves of a breaker into Open: late
\* failures of an already Open breaker are not trips.
TripsCounted ==
    [][\A u \in URL : restarts' = restarts =>
          trips'[u] = trips[u] + (IF /\ Current(u).state # "Open"
                                     /\ Current(u)'.state = "Open"
                                  THEN 1 ELSE 0)]_vars

\* The refinement mapping: each URL's breaker as BreakerSpec sees it.
Abstract == [u \in URL |-> [state    |-> Current(u).state,
                            failures |-> Current(u).failures]]

Atomic == INSTANCE BreakerSpec WITH breaker <- Abstract, generation <- restarts

\* The goroutines, the lazily filled map and the two levels of locks implement
\* one atomic breaker per URL (the promise of BreakerSpec).
AtomicBreaker == Atomic!Spec

\* What the dashboard calls the live status of the worker's breakers: once no
\* report is under way, the gateway's listing has each breaker in its state.
MirrorIsLive ==
    \A u \in URL :
        (\A t \in Thread : call[t].pc = "notify" => call[t].url # u) =>
            \/ Shown(u) = Current(u).state
            \/ Shown(u) = None /\ Current(u).state = "Closed"
=============================================================================

----------------------- MODULE CircuitBreakerProofs -----------------------
(***************************************************************************)
(* Proofs about CircuitBreaker, for any number of goroutines and URLs, any *)
(* threshold and any timeout.                                              *)
(***************************************************************************)
EXTENDS CircuitBreaker, TLAPS

\* Every leaf that names no prover of its own has 30 seconds of SMT.
USE SMTT(30)

\* The clock never runs behind a recorded failure, an Open breaker's last
\* failure is no older than the trip that opened it, and a breaker leaves Open
\* only after the timeout.
TimesOrdered ==
    \A u \in URL :
        /\ Current(u).lastFailure <= now
        /\ Current(u).state = "Open" => openedAt[u] <= Current(u).lastFailure
        /\ Current(u).state # "Open" /\ trips[u] > 0 =>
               now >= openedAt[u] + OpenTimeout

\* The inductive invariant.
IInv == TypeOK /\ OneStatePerURL /\ ClosedBelowThreshold /\ TimesOrdered

-----------------------------------------------------------------------------
\* A new urlState has the type of one.
LEMMA NewURLStateType == NewURLState \in URLState
BY DEF NewURLState, URLState, State

\* The operators that build a goroutine's record build well-typed ones.
LEMMA CallTypes ==
    ASSUME NEW u \in URL,
           NEW o \in {"Allow", "State", "RecordSuccess", "RecordFailure"}
    PROVE  /\ NoCall \in Call /\ NoCall.pc = "idle"
           /\ Calling(o, u) \in Call /\ Calling(o, u).pc = "lookup"
           /\ Calling(o, u).url = u
           /\ Delivering(u) \in Call /\ Delivering(u).pc = "delivering"
           /\ Delivering(u).url = u
BY Zenon DEF NoCall, Calling, Delivering, Call, Snapshot, State

\* Current always denotes a urlState.
LEMMA CurrentType == ASSUME TypeOK, NEW u \in URL PROVE Current(u) \in URLState
BY NewURLStateType DEF TypeOK, Current

\* What each section computes is a urlState again.
LEMMA SectionTypes ==
    ASSUME NEW st \in URLState, now \in Nat
    PROVE  /\ Refreshed(st) \in URLState
           /\ Succeeded(st) \in URLState
           /\ Failed(st) \in URLState
<1>1. Refreshed(st) \in URLState
  BY DEF Refreshed, URLState, State
<1>2. Succeeded(st) \in URLState
  BY Zenon DEF Succeeded, URLState, State
<1>3. Failed(st) \in URLState
  BY DEF Failed, URLState, State
<1> QED
  BY <1>1, <1>2, <1>3

\* A step that leaves the map and the heap alone leaves every breaker alone.
LEMMA SameCurrent ==
    ASSUME UNCHANGED <<heap, urlStates>>, NEW u \in URL
    PROVE  Current(u)' = Current(u)
BY DEF Current

\* The urlState a goroutine holds under the lock is the one the map serves, and
\* its section replaces that one and no other.
LEMMA SectionEffect ==
    ASSUME TypeOK, OneStatePerURL, NEW t \in Thread, call[t].pc = "locked",
           NEW st \in URLState, NEW back, NEW report,
           Section(t, st, report, back)
    PROVE  /\ call[t].url \in URL
           /\ Held(t) = Current(call[t].url)
           /\ \A v \in URL :
                 Current(v)' = IF v = call[t].url THEN st ELSE Current(v)
           /\ heap' \in [Thread -> [URL -> URLState]]
<1> DEFINE u == call[t].url
           o == call[t].obj
<1>1. u \in URL
  BY DEF TypeOK
<1>2. o \in Thread /\ o = urlStates[u] /\ o # None
  BY DEF TypeOK, OneStatePerURL, Call
<1>3. heap' = [heap EXCEPT ![o][u] = st] /\ urlStates' = urlStates
  BY DEF Section
<1>4. Held(t) = Current(u)
  BY <1>1, <1>2 DEF Held, Current
<1>5. heap'[o][u] = st
  BY <1>1, <1>2, <1>3 DEF TypeOK
<1>6. ASSUME NEW v \in URL, v = u PROVE Current(v)' = st
  BY <1>2, <1>3, <1>5, <1>6 DEF Current
<1>7. ASSUME NEW v \in URL, v # u PROVE Current(v)' = Current(v)
  BY <1>1, <1>2, <1>3, <1>7 DEF TypeOK, Current
<1>8. heap' \in [Thread -> [URL -> URLState]]
  BY <1>1, <1>2, <1>3 DEF TypeOK
<1> QED
  BY <1>1, <1>4, <1>6, <1>7, <1>8

-----------------------------------------------------------------------------
\* The initial state satisfies the invariant.
LEMMA InitIInv == Init => IInv
<1> SUFFICES ASSUME Init PROVE IInv
  OBVIOUS
<1>1. \A u \in URL : Current(u) = NewURLState
  BY DEF Init, Current
<1>2. TypeOK
  BY NewURLStateType, BreakerAssumption DEF Init, TypeOK, NoCall, Call, Snapshot, State
<1>3. OneStatePerURL
  BY DEF Init, OneStatePerURL, NoCall
<1>4. ClosedBelowThreshold
  BY <1>1, BreakerAssumption DEF ClosedBelowThreshold, NewURLState
<1>5. TimesOrdered
  BY <1>1 DEF Init, TimesOrdered, NewURLState
<1> QED
  BY <1>2, <1>3, <1>4, <1>5 DEF IInv

\* What a section does to the invariant, given that the urlState it writes
\* respects the threshold and the clock.
LEMMA SectionKeepsIInv ==
    ASSUME IInv, NEW t \in Thread, call[t].pc = "locked",
           NEW st \in URLState, NEW back \in Call, NEW report \in BOOLEAN,
           Section(t, st, report, back),
           back.pc \in {"idle", "lookup", "delivering"},
           back.pc # "idle" => back.url \in URL,
           st.state = "Closed" => st.failures < MaxFailures,
           st.lastFailure <= now,
           st.state = "Open" => openedAt'[call[t].url] <= st.lastFailure,
           st.state # "Open" /\ trips'[call[t].url] > 0 =>
               now >= openedAt'[call[t].url] + OpenTimeout,
           \A v \in URL \ {call[t].url} :
               openedAt'[v] = openedAt[v] /\ trips'[v] = trips[v],
           trips' \in [URL -> Nat], openedAt' \in [URL -> Nat]
    PROVE  IInv'
<1> USE DEF IInv
<1>1. /\ call[t].url \in URL
      /\ \A v \in URL : Current(v)' = IF v = call[t].url THEN st ELSE Current(v)
      /\ heap' \in [Thread -> [URL -> URLState]]
  BY SectionEffect
<1> DEFINE told == [call[t] EXCEPT !.pc = "notify",
                                   !.note = [state    |-> st.state,
                                             failures |-> st.failures]]
<1>a. told \in Call /\ told.url \in URL
  <2>1. call[t] \in Call
    BY DEF TypeOK
  <2>2. [state |-> st.state, failures |-> st.failures] \in Snapshot
    BY DEF Snapshot, URLState
  <2> QED
    BY <1>1, <2>1, <2>2, Zenon DEF Call
<1>b. call' = [call EXCEPT ![t] = IF report THEN told ELSE back]
  BY DEF Section
<1> HIDE DEF told
<1>2. /\ call' \in [Thread -> Call]
      /\ \A s \in Thread : call'[s].pc # "idle" => call'[s].url \in URL
  BY <1>a, <1>b DEF TypeOK
<1>3. TypeOK'
  BY <1>1, <1>2 DEF Section, TypeOK
<1>4. OneStatePerURL'
  BY <1>1 DEF Section, TypeOK, OneStatePerURL, Call
<1>5. ClosedBelowThreshold'
  BY <1>1 DEF ClosedBelowThreshold
<1>6. TimesOrdered'
  BY <1>1 DEF TimesOrdered, Section
<1> QED
  BY <1>3, <1>4, <1>5, <1>6

\* A step of a goroutine that moves only its own record, to one that holds no
\* urlState or the one the map serves, keeps the invariant.
LEMMA CallStepKeepsIInv ==
    ASSUME IInv, NEW t \in Thread, NEW c \in Call,
           call' = [call EXCEPT ![t] = c],
           UNCHANGED <<now, heap, urlStates, trips, restarts, openedAt>>,
           mirror' \in [URL -> Snapshot \cup {None}],
           c.pc # "idle" => c.url \in URL,
           c.pc \in {"locked", "notify"} =>
               c.obj # None /\ c.obj = urlStates[c.url]
    PROVE  IInv'
<1> USE DEF IInv
<1>1. \A u \in URL : Current(u)' = Current(u)
  BY SameCurrent
<1>2. TypeOK'
  BY DEF TypeOK
<1>3. OneStatePerURL'
  BY DEF TypeOK, OneStatePerURL
<1>4. ClosedBelowThreshold'
  BY <1>1 DEF ClosedBelowThreshold
<1>5. TimesOrdered'
  BY <1>1 DEF TimesOrdered
<1> QED
  BY <1>2, <1>3, <1>4, <1>5

\* Inserting a fresh urlState changes no breaker: the map had none for the URL,
\* or the second look finds the one another goroutine inserted.
LEMMA InsertEffect ==
    ASSUME TypeOK, NEW t \in Thread, Insert(t)
    PROVE  /\ call[t].url \in URL
           /\ \A v \in URL : Current(v)' = Current(v)
           /\ heap' \in [Thread -> [URL -> URLState]]
           /\ urlStates' \in [URL -> Thread \cup {None}]
           /\ urlStates'[call[t].url] \in Thread
           /\ \A v \in URL : urlStates[v] # None => urlStates'[v] = urlStates[v]
<1> DEFINE u == call[t].url
<1>1. u \in URL
  BY DEF TypeOK, Insert
<1>2. CASE urlStates[u] # None
  BY <1>1, <1>2 DEF Insert, TypeOK, Current
<1>3. CASE urlStates[u] = None
  <2>1. /\ heap' = [heap EXCEPT ![t][u] = NewURLState]
        /\ urlStates' = [urlStates EXCEPT ![u] = t]
    BY <1>3 DEF Insert
  <2>2. heap' \in [Thread -> [URL -> URLState]]
    BY <1>1, <2>1, NewURLStateType DEF TypeOK
  <2>3. heap'[t][u] = NewURLState /\ urlStates'[u] = t /\ t # None
    BY <1>1, <2>1, BreakerAssumption DEF TypeOK
  <2>4. ASSUME NEW v \in URL, v = u PROVE Current(v)' = Current(v)
    BY <1>3, <2>3, <2>4 DEF Current
  <2>5. ASSUME NEW v \in URL, v # u PROVE Current(v)' = Current(v)
    BY <1>1, <2>1, <2>5 DEF TypeOK, Current
  <2> QED
    BY <1>1, <1>3, <2>1, <2>2, <2>3, <2>4, <2>5 DEF TypeOK
<1> QED
  BY <1>2, <1>3

\* What a goroutine holds under the lock, and where the sections lead.
LEMMA HeldIsCurrent ==
    ASSUME IInv, NEW t \in Thread, call[t].pc = "locked"
    PROVE  /\ call[t].url \in URL
           /\ Held(t) = Current(call[t].url)
           /\ Held(t) \in URLState
           /\ Held(t).state = "Closed" => Held(t).failures < MaxFailures
           /\ Held(t).lastFailure <= now
           /\ Held(t).state = "Open" => openedAt[call[t].url] <= Held(t).lastFailure
           /\ Held(t).state # "Open" /\ trips[call[t].url] > 0 =>
                  now >= openedAt[call[t].url] + OpenTimeout
<1>1. call[t].url \in URL /\ Held(t) = Current(call[t].url)
  BY DEF IInv, TypeOK, OneStatePerURL, Call, Held, Current
<1> QED
  BY <1>1, CurrentType DEF IInv, ClosedBelowThreshold, TimesOrdered

-----------------------------------------------------------------------------
\* Every step keeps the invariant: one case per action.
LEMMA NextIInv == IInv /\ [Next]_vars => IInv'
<1> SUFFICES ASSUME IInv, [Next]_vars PROVE IInv'
  OBVIOUS
<1> USE BreakerAssumption
<1>1. ASSUME NEW t \in Thread, Begin(t) PROVE IInv'
  <2>1. PICK u \in URL : call' = [call EXCEPT ![t] = Calling("Allow", u)]
    BY <1>1, Zenon DEF Begin
  <2> DEFINE c == Calling("Allow", u)
  <2>2. c \in Call /\ c.pc = "lookup" /\ c.url \in URL
    BY CallTypes
  <2>3. /\ UNCHANGED <<now, heap, urlStates, trips, restarts, openedAt>>
        /\ mirror' \in [URL -> Snapshot \cup {None}]
    BY <1>1 DEF Begin, IInv, TypeOK
  <2>4. call' = [call EXCEPT ![t] = c]
    BY <2>1
  <2> HIDE DEF c
  <2> QED
    BY <2>2, <2>3, <2>4, CallStepKeepsIInv, Zenon
<1>2. ASSUME NEW t \in Thread, Outcome(t) PROVE IInv'
  <2>1. call[t].url \in URL
    BY <1>2 DEF Outcome, IInv, TypeOK
  <2>2. PICK o \in {"RecordSuccess", "RecordFailure"} :
           call' = [call EXCEPT ![t] = Calling(o, call[t].url)]
    BY <1>2, Zenon DEF Outcome
  <2> DEFINE c == Calling(o, call[t].url)
  <2>3. c \in Call /\ c.pc = "lookup" /\ c.url \in URL
    BY <2>1, CallTypes
  <2>4. /\ UNCHANGED <<now, heap, urlStates, trips, restarts, openedAt>>
        /\ mirror' \in [URL -> Snapshot \cup {None}]
    BY <1>2 DEF Outcome, IInv, TypeOK
  <2>5. call' = [call EXCEPT ![t] = c]
    BY <2>2
  <2> HIDE DEF c
  <2> QED
    BY <2>3, <2>4, <2>5, CallStepKeepsIInv, Zenon
<1>3. ASSUME NEW t \in Thread, Lookup(t) PROVE IInv'
  <2> DEFINE o == urlStates[call[t].url]
             c == [call[t] EXCEPT !.obj = o,
                                  !.pc = IF o = None THEN "insert" ELSE "locked"]
  <2>1. call[t] \in Call /\ call[t].url \in URL /\ o \in Thread \cup {None}
    BY <1>3 DEF Lookup, IInv, TypeOK
  <2>2. c \in Call /\ c.url \in URL /\ c.pc # "notify"
    BY <2>1, Zenon DEF Call
  <2>3. c.pc = "locked" => c.obj # None /\ c.obj = urlStates[c.url]
    BY <2>1 DEF Call
  <2>4. call' = [call EXCEPT ![t] = c]
    BY <1>3, Zenon DEF Lookup, IInv, TypeOK
  <2> HIDE DEF c
  <2> QED
    BY <1>3, <2>2, <2>3, <2>4, CallStepKeepsIInv, Zenon DEF Lookup, IInv, TypeOK
<1>4. ASSUME NEW t \in Thread, Insert(t) PROVE IInv'
  <2> DEFINE u == call[t].url
             c == [call[t] EXCEPT !.obj = urlStates'[u], !.pc = "locked"]
  <2>1. /\ u \in URL
        /\ \A v \in URL : Current(v)' = Current(v)
        /\ heap' \in [Thread -> [URL -> URLState]]
        /\ urlStates' \in [URL -> Thread \cup {None}]
        /\ urlStates'[u] \in Thread
        /\ \A v \in URL : urlStates[v] # None => urlStates'[v] = urlStates[v]
    BY <1>4, InsertEffect DEF IInv
  <2>2. c \in Call /\ c.url = u /\ c.obj = urlStates'[u] /\ c.obj # None
    <3>1. call[t] \in Call /\ urlStates'[u] \in Thread /\ urlStates'[u] # None
      BY <2>1 DEF IInv, TypeOK
    <3> QED
      BY <3>1, Zenon DEF Call
  <2>3. call' = [call EXCEPT ![t] = c]
    BY <1>4, Zenon DEF Insert, IInv, TypeOK
  <2> HIDE DEF c
  <2>4. TypeOK'
    <3>1. call' \in [Thread -> Call]
      BY <2>2, <2>3 DEF IInv, TypeOK
    <3>2. \A s \in Thread : call'[s].pc # "idle" => call'[s].url \in URL
      BY <2>1, <2>2, <2>3 DEF IInv, TypeOK
    <3>3. UNCHANGED <<now, mirror, trips, restarts, openedAt>>
      BY <1>4 DEF Insert
    <3> QED
      BY <2>1, <3>1, <3>2, <3>3 DEF IInv, TypeOK
  <2>5. OneStatePerURL'
    BY <2>1, <2>2, <2>3 DEF IInv, TypeOK, OneStatePerURL
  <2>6. ClosedBelowThreshold' /\ TimesOrdered'
    BY <1>4, <2>1 DEF Insert, IInv, ClosedBelowThreshold, TimesOrdered
  <2> QED
    BY <2>4, <2>5, <2>6 DEF IInv
<1>5. ASSUME NEW t \in Thread, Allow(t) PROVE IInv'
  <2> DEFINE st == Refreshed(Held(t))
             back == IF st.state = "Open" THEN Calling("State", call[t].url)
                                          ELSE Delivering(call[t].url)
  <2>1. call[t].pc = "locked"
    BY <1>5 DEF Allow, Locked
  <2>2. Section(t, st, st.state # Held(t).state, back)
    BY <1>5 DEF Allow
  <2>3. st \in URLState /\ st.lastFailure <= now
    BY <2>1, HeldIsCurrent, SectionTypes DEF Refreshed, URLState, IInv, TypeOK
  <2>4. /\ st.state = "Closed" => st.failures < MaxFailures
        /\ st.state = "Open" => openedAt[call[t].url] <= st.lastFailure
    BY <2>1, HeldIsCurrent DEF Refreshed, URLState
  <2>7. st.state # "Open" /\ trips[call[t].url] > 0 =>
            now >= openedAt[call[t].url] + OpenTimeout
    BY <2>1, HeldIsCurrent DEF Refreshed, TimedOut, URLState, IInv, TypeOK
  <2>5. back \in Call /\ back.pc \in {"lookup", "delivering"} /\ back.url \in URL
    BY <2>1, HeldIsCurrent, CallTypes
  <2>6. /\ trips' \in [URL -> Nat] /\ openedAt' \in [URL -> Nat]
        /\ openedAt' = openedAt /\ trips' = trips
    BY <1>5 DEF Allow, IInv, TypeOK
  <2> HIDE DEF st, back
  <2> QED
    BY <2>1, <2>2, <2>3, <2>4, <2>5, <2>6, <2>7, SectionKeepsIInv, Zenon
<1>6. ASSUME NEW t \in Thread, ReadState(t) PROVE IInv'
  <2> DEFINE st == Refreshed(Held(t))
  <2>1. call[t].pc = "locked"
    BY <1>6 DEF ReadState, Locked
  <2>2. Section(t, st, st.state # Held(t).state, NoCall)
    BY <1>6 DEF ReadState
  <2>3. st \in URLState /\ st.lastFailure <= now
    BY <2>1, HeldIsCurrent, SectionTypes DEF Refreshed, URLState, IInv, TypeOK
  <2>4. /\ st.state = "Closed" => st.failures < MaxFailures
        /\ st.state = "Open" => openedAt[call[t].url] <= st.lastFailure
    BY <2>1, HeldIsCurrent DEF Refreshed, URLState
  <2>7. st.state # "Open" /\ trips[call[t].url] > 0 =>
            now >= openedAt[call[t].url] + OpenTimeout
    BY <2>1, HeldIsCurrent DEF Refreshed, TimedOut, URLState, IInv, TypeOK
  <2>5. NoCall \in Call /\ NoCall.pc = "idle"
    BY <2>1, HeldIsCurrent, CallTypes
  <2>6. /\ trips' \in [URL -> Nat] /\ openedAt' \in [URL -> Nat]
        /\ openedAt' = openedAt /\ trips' = trips
    BY <1>6 DEF ReadState, IInv, TypeOK
  <2> HIDE DEF st
  <2> QED
    BY <2>1, <2>2, <2>3, <2>4, <2>5, <2>6, <2>7, SectionKeepsIInv, Zenon
<1>7. ASSUME NEW t \in Thread, RecordSuccess(t) PROVE IInv'
  <2> DEFINE st == Succeeded(Held(t))
  <2>1. call[t].pc = "locked"
    BY <1>7 DEF RecordSuccess, Locked
  <2>2. Section(t, st, st.state # Held(t).state, NoCall)
    BY <1>7 DEF RecordSuccess
  <2>3. st \in URLState /\ st.lastFailure <= now
    BY <2>1, HeldIsCurrent, SectionTypes, Zenon DEF Succeeded, URLState, IInv, TypeOK
  <2>4. /\ st.failures < MaxFailures
        /\ st.state = "Open" => openedAt[call[t].url] <= st.lastFailure
    BY <2>1, HeldIsCurrent DEF Succeeded, URLState
  <2>7. st.state # "Open" /\ trips[call[t].url] > 0 =>
            now >= openedAt[call[t].url] + OpenTimeout
    BY <2>1, HeldIsCurrent DEF Succeeded, URLState
  <2>5. NoCall \in Call /\ NoCall.pc = "idle"
    BY <2>1, HeldIsCurrent, CallTypes
  <2>6. /\ trips' \in [URL -> Nat] /\ openedAt' \in [URL -> Nat]
        /\ openedAt' = openedAt /\ trips' = trips
    BY <1>7 DEF RecordSuccess, IInv, TypeOK
  <2> HIDE DEF st
  <2> QED
    BY <2>1, <2>2, <2>3, <2>4, <2>5, <2>6, <2>7, SectionKeepsIInv, Zenon
<1>8. ASSUME NEW t \in Thread, RecordFailure(t) PROVE IInv'
  <2> DEFINE st == Failed(Held(t))
             u  == call[t].url
  <2>1. call[t].pc = "locked"
    BY <1>8 DEF RecordFailure, Locked
  <2>2. Section(t, st, st.state = "Open", NoCall)
    BY <1>8 DEF RecordFailure
  <2>3. st \in URLState /\ st.lastFailure = now /\ now \in Nat
    BY <2>1, HeldIsCurrent, SectionTypes DEF Failed, IInv, TypeOK
  <2>4. st.state = "Closed" => st.failures < MaxFailures
    BY <2>1, HeldIsCurrent DEF Failed, Trips, URLState
  <2>5. NoCall \in Call /\ NoCall.pc = "idle" /\ u \in URL
    BY <2>1, HeldIsCurrent, CallTypes
  <2>6. trips' \in [URL -> Nat] /\ openedAt' \in [URL -> Nat]
    BY <1>8, <2>5 DEF RecordFailure, IInv, TypeOK
  <2>7. \A v \in URL \ {u} : openedAt'[v] = openedAt[v] /\ trips'[v] = trips[v]
    BY <1>8 DEF RecordFailure, IInv, TypeOK
  <2>8. st.state = "Open" => openedAt'[u] <= st.lastFailure
    <3>1. openedAt'[u] = now \/ (Held(t).state = "Open" /\ openedAt'[u] = openedAt[u])
          \/ st.state # "Open"
      BY <1>8, <2>5 DEF RecordFailure, IInv, TypeOK
    <3>2. Held(t).state = "Open" => openedAt[u] <= now
      BY <2>1, <2>3, HeldIsCurrent DEF URLState, IInv, TypeOK
    <3> QED
      BY <2>3, <3>1, <3>2
  <2>9. st.lastFailure <= now /\ (st.state = "Open") \in BOOLEAN
    BY <2>3
  <2>10. st.state # "Open" /\ trips'[u] > 0 => now >= openedAt'[u] + OpenTimeout
    <3>1. st.state # "Open" =>
              Held(t).state # "Open" /\ trips'[u] = trips[u] /\ openedAt'[u] = openedAt[u]
      BY <1>8, <2>5 DEF RecordFailure, Failed, IInv, TypeOK
    <3> QED
      BY <2>1, <3>1, HeldIsCurrent
  <2> HIDE DEF st
  <2> QED
    BY <2>1, <2>2, <2>3, <2>4, <2>5, <2>6, <2>7, <2>8, <2>9, <2>10, SectionKeepsIInv, Zenon
<1>9. ASSUME NEW t \in Thread, Notify(t) PROVE IInv'
  <2> DEFINE c == IF call[t].op = "Allow" THEN Delivering(call[t].url) ELSE NoCall
  <2>1. call[t] \in Call /\ call[t].url \in URL
    BY <1>9 DEF Notify, IInv, TypeOK
  <2>2. c \in Call /\ c.pc \in {"idle", "delivering"} /\ (c.pc # "idle" => c.url \in URL)
    BY <2>1, CallTypes
  <2>3. mirror' \in [URL -> Snapshot \cup {None}]
    BY <1>9, <2>1 DEF Notify, IInv, TypeOK, Call
  <2>4. call' = [call EXCEPT ![t] = c]
    BY <1>9 DEF Notify
  <2> HIDE DEF c
  <2> QED
    BY <1>9, <2>2, <2>3, <2>4, CallStepKeepsIInv, Zenon DEF Notify
<1>10. CASE Tick
  <2>1. \A u \in URL : Current(u)' = Current(u) /\ Current(u) \in URLState
    BY <1>10, SameCurrent, CurrentType DEF Tick, IInv
  <2>2. TypeOK' /\ OneStatePerURL'
    BY <1>10 DEF Tick, IInv, TypeOK, OneStatePerURL
  <2>3. ClosedBelowThreshold' /\ TimesOrdered'
    BY <1>10, <2>1 DEF Tick, IInv, TypeOK, ClosedBelowThreshold, TimesOrdered, URLState
  <2> QED
    BY <2>2, <2>3 DEF IInv
<1>11. CASE Restart
  <2>1. \A u \in URL : Current(u)' = NewURLState
    BY <1>11 DEF Restart, Current
  <2>2. TypeOK'
    BY <1>11, NewURLStateType DEF Restart, IInv, TypeOK, NoCall, Call, Snapshot, State
  <2>3. OneStatePerURL'
    BY <1>11 DEF Restart, OneStatePerURL, NoCall
  <2>4. ClosedBelowThreshold' /\ TimesOrdered'
    BY <1>11, <2>1 DEF Restart, IInv, TypeOK, ClosedBelowThreshold, TimesOrdered, NewURLState
  <2> QED
    BY <2>2, <2>3, <2>4 DEF IInv
<1>12. CASE UNCHANGED vars
  BY <1>12, SameCurrent
  DEF vars, IInv, TypeOK, OneStatePerURL, ClosedBelowThreshold, TimesOrdered
<1> QED
  BY <1>1, <1>2, <1>3, <1>4, <1>5, <1>6, <1>7, <1>8, <1>9, <1>10, <1>11, <1>12
  DEF Next, Step

-----------------------------------------------------------------------------
\* Type correctness.
THEOREM TypeCorrect == Spec => []TypeOK
<1>1. IInv => TypeOK
  BY DEF IInv
<1> QED
  BY InitIInv, NextIInv, <1>1, PTL DEF Spec

\* Goroutines that race to create a URL's entry all work on the entry the map
\* ends up with, so no recorded outcome goes to a urlState nobody reads.
THEOREM OneState == Spec => []OneStatePerURL
<1>1. IInv => OneStatePerURL
  BY DEF IInv
<1> QED
  BY InitIInv, NextIInv, <1>1, PTL DEF Spec

\* A Closed breaker is always below the threshold.
THEOREM ClosedIsBelowThreshold == Spec => []ClosedBelowThreshold
<1>1. IInv => ClosedBelowThreshold
  BY DEF IInv
<1> QED
  BY InitIInv, NextIInv, <1>1, PTL DEF Spec

\* The status endpoint and Allow disagree at one instant at most.
THEOREM ReportsMatch == Spec => []ReportMatchesAllow
<1>1. IInv => ReportMatchesAllow
  <2> SUFFICES ASSUME IInv, NEW u \in URL
               PROVE  LET st == Current(u) IN
                      /\ Reported(st) = "Half-Open" => Refreshed(st).state # "Open"
                      /\ Reported(st) = "Open" /\ Refreshed(st).state # "Open" =>
                            now = st.lastFailure + OpenTimeout
    BY DEF ReportMatchesAllow
  <2> DEFINE st == Current(u)
  <2>1. st \in URLState /\ now \in Nat
    BY CurrentType DEF IInv, TypeOK
  <2> HIDE DEF st
  <2>2. Reported(st) = "Half-Open" => Refreshed(st).state # "Open"
    BY <2>1, BreakerAssumption DEF Reported, Refreshed, TimedOut, URLState
  <2>3. Reported(st) = "Open" /\ Refreshed(st).state # "Open" =>
            now = st.lastFailure + OpenTimeout
    BY <2>1, BreakerAssumption DEF Reported, Refreshed, TimedOut, URLState
  <2> QED
    BY <2>2, <2>3 DEF st
<1> QED
  BY InitIInv, NextIInv, <1>1, PTL DEF Spec

\* Nobody is admitted to a URL within openTimeout of the last trip of its
\* breaker, whatever state the breaker is in by then.
THEOREM CoolDown == Spec => CoolDownRespected
<1>1. IInv /\ [Next]_vars =>
        [\A t \in Thread : LET u == call[t].url IN
            Admitted(t) /\ trips[u] > 0 => now >= openedAt[u] + OpenTimeout]_vars
  <2> SUFFICES ASSUME IInv, Next, NEW t \in Thread, Admitted(t), trips[call[t].url] > 0
               PROVE  now >= openedAt[call[t].url] + OpenTimeout
    BY DEF vars
  <2> DEFINE u == call[t].url
             st == Held(t)
  <2>1. /\ u \in URL /\ st = Current(u) /\ st \in URLState
        /\ st.state = "Open" => openedAt[u] <= st.lastFailure
        /\ st.state # "Open" => now >= openedAt[u] + OpenTimeout
    BY HeldIsCurrent DEF Admitted, Locked
  <2>2. Allow(t)
    <3>1. call'[t] # call[t]
      BY DEF Admitted, Locked
    <3>2. \A s \in Thread : Step(s) => s = t
      BY <3>1 DEF Step, Begin, Outcome, Lookup, Insert, Allow, ReadState,
                  RecordSuccess, RecordFailure, Section, Notify, IInv, TypeOK
    <3>3. ~Tick
      BY <3>1 DEF Tick
    <3>4. ~Restart
      BY DEF Restart, NoCall, Admitted
    <3>5. Step(t)
      BY <3>2, <3>3, <3>4 DEF Next
    <3> QED
      BY <3>5 DEF Step, Begin, Outcome, Lookup, Insert, ReadState, Notify,
                  RecordSuccess, RecordFailure, Admitted, Locked
  <2>3. st.state = "Open" => TimedOut(st)
    <3>1. CASE Refreshed(st).state = "Open"
      <4>1. Refreshed(st) = st
        BY <2>1, <3>1 DEF Refreshed, URLState
      <4>2. call'[t].pc = "lookup"
        BY <2>1, <2>2, <3>1, <4>1, CallTypes DEF Allow, Section, IInv, TypeOK
      <4> QED
        BY <4>2 DEF Admitted
    <3>2. CASE Refreshed(st).state # "Open"
      BY <2>1, <3>2 DEF Refreshed
    <3> QED
      BY <3>1, <3>2
  <2> QED
    BY <2>1, <2>3, BreakerAssumption DEF TimedOut, URLState, IInv, TypeOK
<1> QED
  BY InitIInv, NextIInv, <1>1, PTL DEF Spec, CoolDownRespected

\* A section that leaves the trip counter alone does not open the breaker.
LEMMA NoTrip ==
    ASSUME IInv, NEW t \in Thread, call[t].pc = "locked",
           NEW st \in {Refreshed(Held(t)), Succeeded(Held(t))},
           NEW back, NEW report, Section(t, st, report, back), NEW v \in URL
    PROVE  Current(v)'.state = "Open" => Current(v).state = "Open"
<1>1. /\ Held(t) = Current(call[t].url) /\ Held(t) \in URLState
      /\ st \in URLState
  BY HeldIsCurrent, SectionTypes DEF IInv, TypeOK
<1>2. Current(v)' = IF v = call[t].url THEN st ELSE Current(v)
  BY <1>1, SectionEffect DEF IInv
<1>3. st.state = "Open" => Held(t).state = "Open"
  BY <1>1, Zenon DEF Refreshed, Succeeded, URLState, State
<1> QED
  BY <1>1, <1>2, <1>3

\* The metric CircuitBreakerTrips goes up by one exactly when RecordFailure
\* moves a breaker into Open.
THEOREM TripsExact == Spec => TripsCounted
<1>1. IInv /\ [Next]_vars =>
        [\A u \in URL : restarts' = restarts =>
            trips'[u] = trips[u] + (IF /\ Current(u).state # "Open"
                                       /\ Current(u)'.state = "Open"
                                    THEN 1 ELSE 0)]_vars
  <2> DEFINE Opens(v) == Current(v).state # "Open" /\ Current(v)'.state = "Open"
             Exact(v) == trips'[v] = trips[v] + (IF Opens(v) THEN 1 ELSE 0)
  <2> SUFFICES ASSUME IInv, Next, NEW u \in URL, restarts' = restarts
               PROVE  Exact(u)
    OBVIOUS
  <2>t. TypeOK /\ trips[u] \in Nat /\ restarts \in Nat
    BY DEF IInv, TypeOK
  <2>n. ASSUME trips' = trips, ~Opens(u) PROVE Exact(u)
    BY <2>n, <2>t
  <2>1. ASSUME NEW t \in Thread, Allow(t) \/ ReadState(t) \/ RecordSuccess(t)
        PROVE  Exact(u)
    <3>1. call[t].pc = "locked" /\ trips' = trips
      BY <2>1 DEF Allow, ReadState, RecordSuccess, Locked
    <3>2. \E st \in {Refreshed(Held(t)), Succeeded(Held(t))} :
             \E report, back : Section(t, st, report, back)
      BY <2>1 DEF Allow, ReadState, RecordSuccess
    <3> QED
      BY <3>1, <3>2, <2>n, NoTrip
  <2>2. ASSUME NEW t \in Thread, RecordFailure(t) PROVE Exact(u)
    <3> DEFINE st == Failed(Held(t))
    <3>1. call[t].pc = "locked"
      BY <2>2 DEF RecordFailure, Locked
    <3>2. /\ Held(t) = Current(call[t].url) /\ Held(t) \in URLState
          /\ st \in URLState /\ call[t].url \in URL
      BY <3>1, HeldIsCurrent, SectionTypes DEF IInv, TypeOK
    <3>3. \E report, back : Section(t, st, report, back)
      BY <2>2 DEF RecordFailure
    <3>4. Current(u)' = IF u = call[t].url THEN st ELSE Current(u)
      BY <3>1, <3>2, <3>3, SectionEffect DEF IInv
    <3>5. trips'[u] = IF u = call[t].url /\ Trips(Held(t))
                      THEN trips[u] + 1 ELSE trips[u]
      BY <2>2, <2>t, <3>2 DEF RecordFailure, TypeOK
    <3>6. Trips(Held(t)) <=> Held(t).state # "Open" /\ st.state = "Open"
      BY <3>2 DEF Trips, Failed, URLState, State
    <3> QED
      BY <3>2, <3>4, <3>5, <3>6, <2>t
  <2>3. ASSUME NEW t \in Thread, Insert(t) PROVE Exact(u)
    <3>1. trips' = trips
      BY <2>3 DEF Insert
    <3> QED
      BY <2>3, <3>1, <2>n, InsertEffect DEF IInv
  <2>4. ASSUME \/ \E t \in Thread : Begin(t) \/ Outcome(t) \/ Lookup(t) \/ Notify(t)
               \/ Tick
        PROVE  Exact(u)
    <3>1. trips' = trips /\ UNCHANGED <<heap, urlStates>>
      BY <2>4, Zenon DEF Begin, Outcome, Lookup, Notify, Tick
    <3> QED
      BY <3>1, <2>n, SameCurrent
  <2>5. ~Restart
    BY <2>t DEF Restart
  <2> HIDE DEF Exact
  <2> QED
    BY <2>1, <2>2, <2>3, <2>4, <2>5 DEF Next, Step
<1> QED
  BY InitIInv, NextIInv, <1>1, PTL DEF Spec, TripsCounted

-----------------------------------------------------------------------------
\* The view BreakerSpec has of one urlState.
View(st) == [state |-> st.state, failures |-> st.failures]

\* Seen through View, the three sections are BreakerSpec's three updates, or
\* leave the breaker as it is.
LEMMA SectionViews ==
    ASSUME NEW st \in URLState
    PROVE  /\ View(Refreshed(st)) \in {View(st), Atomic!OnTimeout(View(st))}
           /\ View(Succeeded(st)) = Atomic!OnSuccess(View(st))
           /\ View(Failed(st)) = Atomic!OnFailure(View(st))
<1>1. View(Refreshed(st)) \in {View(st), Atomic!OnTimeout(View(st))}
  BY DEF View, Refreshed, TimedOut, Atomic!OnTimeout, URLState
<1>2. View(Succeeded(st)) = Atomic!OnSuccess(View(st))
  BY DEF View, Succeeded, Atomic!OnSuccess, URLState
<1>3. View(Failed(st)) = Atomic!OnFailure(View(st))
  BY DEF View, Failed, Trips, Atomic!OnFailure, URLState
<1> QED
  BY <1>1, <1>2, <1>3

\* A section replaces one entry of the abstract breaker map.
LEMMA SectionAbstract ==
    ASSUME IInv, NEW t \in Thread, call[t].pc = "locked",
           NEW st \in URLState, NEW back, NEW report,
           Section(t, st, report, back)
    PROVE  /\ call[t].url \in URL
           /\ Abstract[call[t].url] = View(Held(t))
           /\ Abstract' = [Abstract EXCEPT ![call[t].url] = View(st)]
           /\ restarts' = restarts
<1>1. /\ call[t].url \in URL
      /\ Held(t) = Current(call[t].url)
      /\ \A v \in URL : Current(v)' = IF v = call[t].url THEN st ELSE Current(v)
  BY SectionEffect DEF IInv
<1>2. Abstract' = [u \in URL |-> View(Current(u)')]
  BY DEF Abstract, View
<1>3. Abstract = [u \in URL |-> View(Current(u))]
  BY DEF Abstract, View
<1>4. restarts' = restarts
  BY DEF Section
<1> QED
  BY <1>1, <1>2, <1>3, <1>4

\* A step that changes no breaker is a stuttering step of BreakerSpec.
LEMMA Stutter ==
    ASSUME \A u \in URL : Current(u)' = Current(u), restarts' = restarts
    PROVE  UNCHANGED <<Abstract, restarts>>
BY DEF Abstract

\* The concurrent breaker implements the atomic one.
THEOREM ImplementsAtomic == Spec => AtomicBreaker
<1>1. Init => Atomic!Init
  <2> SUFFICES ASSUME Init PROVE Atomic!Init
    OBVIOUS
  <2>1. \A u \in URL : Current(u) = NewURLState
    BY DEF Init, Current
  <2> QED
    BY <2>1 DEF Init, Atomic!Init, Atomic!Fresh, Abstract, NewURLState
<1>2. IInv /\ [Next]_vars => [Atomic!Next]_(Atomic!vars)
  <2> SUFFICES ASSUME IInv, [Next]_vars
               PROVE  Atomic!Next \/ UNCHANGED <<Abstract, restarts>>
    BY DEF Atomic!vars
  <2>1. ASSUME NEW t \in Thread, Allow(t) \/ ReadState(t)
        PROVE  Atomic!Next \/ UNCHANGED <<Abstract, restarts>>
    <3> DEFINE st == Refreshed(Held(t))
               u  == call[t].url
    <3>1. call[t].pc = "locked"
      BY <2>1 DEF Allow, ReadState, Locked
    <3>2. Held(t) \in URLState /\ st \in URLState
      BY <3>1, HeldIsCurrent, SectionTypes DEF IInv, TypeOK
    <3>3. \E report, back : Section(t, st, report, back)
      BY <2>1 DEF Allow, ReadState
    <3>4. /\ u \in URL /\ Abstract[u] = View(Held(t))
          /\ Abstract' = [Abstract EXCEPT ![u] = View(st)]
          /\ restarts' = restarts
      BY <3>1, <3>2, <3>3, SectionAbstract
    <3>5. CASE View(st) = View(Held(t))
      BY <3>4, <3>5 DEF Abstract
    <3>6. CASE View(st) = Atomic!OnTimeout(View(Held(t)))
      BY <3>4, <3>6, Zenon DEF Atomic!Next, Atomic!Timeout
    <3> QED
      BY <3>2, <3>5, <3>6, SectionViews
  <2>2. ASSUME NEW t \in Thread, RecordSuccess(t) PROVE Atomic!Next
    <3> DEFINE st == Succeeded(Held(t))
               u  == call[t].url
    <3>1. call[t].pc = "locked"
      BY <2>2 DEF RecordSuccess, Locked
    <3>2. Held(t) \in URLState /\ st \in URLState
      BY <3>1, HeldIsCurrent, SectionTypes DEF IInv, TypeOK
    <3>3. \E report, back : Section(t, st, report, back)
      BY <2>2 DEF RecordSuccess
    <3>4. /\ u \in URL /\ Abstract[u] = View(Held(t))
          /\ Abstract' = [Abstract EXCEPT ![u] = View(st)]
          /\ restarts' = restarts
      BY <3>1, <3>2, <3>3, SectionAbstract
    <3> QED
      BY <3>2, <3>4, SectionViews, Zenon DEF Atomic!Next, Atomic!Success
  <2>3. ASSUME NEW t \in Thread, RecordFailure(t) PROVE Atomic!Next
    <3> DEFINE st == Failed(Held(t))
               u  == call[t].url
    <3>1. call[t].pc = "locked"
      BY <2>3 DEF RecordFailure, Locked
    <3>2. Held(t) \in URLState /\ st \in URLState
      BY <3>1, HeldIsCurrent, SectionTypes DEF IInv, TypeOK
    <3>3. \E report, back : Section(t, st, report, back)
      BY <2>3 DEF RecordFailure
    <3>4. /\ u \in URL /\ Abstract[u] = View(Held(t))
          /\ Abstract' = [Abstract EXCEPT ![u] = View(st)]
          /\ restarts' = restarts
      BY <3>1, <3>2, <3>3, SectionAbstract
    <3> QED
      BY <3>2, <3>4, SectionViews, Zenon DEF Atomic!Next, Atomic!Failure
  <2>4. ASSUME NEW t \in Thread, Insert(t) PROVE UNCHANGED <<Abstract, restarts>>
    <3>1. restarts' = restarts
      BY <2>4 DEF Insert
    <3> QED
      BY <2>4, <3>1, InsertEffect, Stutter DEF IInv
  <2>5. ASSUME NEW t \in Thread, Begin(t) \/ Outcome(t) \/ Lookup(t) \/ Notify(t)
        PROVE  UNCHANGED <<Abstract, restarts>>
    BY <2>5, SameCurrent, Stutter DEF Begin, Outcome, Lookup, Notify
  <2>6. CASE Tick \/ UNCHANGED vars
    BY <2>6, SameCurrent, Stutter DEF Tick, vars
  <2>7. CASE Restart
    <3>1. \A u \in URL : Current(u)' = NewURLState
      BY <2>7 DEF Restart, Current
    <3> QED
      BY <2>7, <3>1 DEF Restart, Atomic!Next, Atomic!Restart, Atomic!Fresh, Abstract, NewURLState
  <2> QED
    BY <2>1, <2>2, <2>3, <2>4, <2>5, <2>6, <2>7 DEF Next, Step
<1> QED
  BY InitIInv, NextIInv, <1>1, <1>2, PTL DEF Spec, AtomicBreaker, Atomic!Spec
=============================================================================

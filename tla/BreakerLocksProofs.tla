------------------------- MODULE BreakerLocksProofs -------------------------
(***************************************************************************)
(* Proofs that the breaker's locks are used consistently and never         *)
(* deadlock, for any number of goroutines and URLs.                        *)
(***************************************************************************)
EXTENDS BreakerLocks, TLAPS

\* TypeOK is inductive as it stands: it names, for every field of a lock, the
\* points of the code at which a goroutine can be its holder or its waiter.
LEMMA TypeInit == Init => TypeOK
<1> SUFFICES ASSUME Init PROVE TypeOK
  OBVIOUS
<1> USE LocksAssumption DEF Init, Location, Reading
<1>1. /\ pc \in [Proc -> Location]
      /\ url \in [Proc -> URL \cup {None}]
      /\ todo \in [Proc -> SUBSET URL]
      /\ held \in [URL -> Proc \cup {None}]
  OBVIOUS
<1>2. /\ known \subseteq URL
      /\ active \subseteq Proc /\ parked \subseteq Proc \ active
      /\ writer \in Proc \cup {None}
  OBVIOUS
<1>3. \A p \in Proc : pc[p] = "idle" /\ p \notin active /\ p \notin parked
  OBVIOUS
<1>4. \A u \in URL, p \in Proc : held[u] = p <=> pc[p] = "section" /\ url[p] = u
  OBVIOUS
<1>5. \A p \in Caller \cup Reporter : p \in Proc
  BY DEF Proc
<1> QED
  BY <1>1, <1>2, <1>3, <1>4, <1>5, Zenon DEF TypeOK

LEMMA TypeStep == TypeOK /\ [Next]_vars => TypeOK'
<1> SUFFICES ASSUME TypeOK, [Next]_vars PROVE TypeOK'
  OBVIOUS
<1> USE LocksAssumption DEF TypeOK, Location, Reading, Goto, cbmu
<1>1. ASSUME NEW p \in Proc, Begin(p) PROVE TypeOK'
  BY <1>1 DEF Begin, Proc
<1>2. ASSUME NEW p \in Proc, RLock(p) PROVE TypeOK'
  BY <1>2 DEF RLock
<1>3. ASSUME NEW p \in Proc, Lookup(p) PROVE TypeOK'
  BY <1>3 DEF Lookup
<1>4. ASSUME NEW p \in Proc, Announce(p) PROVE TypeOK'
  BY <1>4 DEF Announce
<1>5. ASSUME NEW p \in Proc, Insert(p) PROVE TypeOK'
  BY <1>5 DEF Insert
<1>6. ASSUME NEW p \in Proc, Lock(p) PROVE TypeOK'
  BY <1>6 DEF Lock
<1>7. ASSUME NEW p \in Proc, Section(p) PROVE TypeOK'
  BY <1>7 DEF Section, Proc
<1>8. ASSUME NEW p \in Proc, Trigger(p) PROVE TypeOK'
  BY <1>8 DEF Trigger
<1>9. ASSUME NEW p \in Proc, Callback(p) PROVE TypeOK'
  BY <1>9 DEF Callback
<1>10. ASSUME NEW p \in Proc, Range(p) PROVE TypeOK'
  BY <1>10 DEF Range
<1>11. ASSUME NEW p \in Proc, Scan(p) PROVE TypeOK'
  <2>1. ASSUME NEW u \in todo[p],
               url' = [url EXCEPT ![p] = u],
               todo' = [todo EXCEPT ![p] = @ \ {u}],
               Goto(p, "lock"),
               UNCHANGED active
        PROVE  TypeOK'
    <3>1. /\ u \in URL
          /\ todo' \in [Proc -> SUBSET URL]
      BY <2>1
    <3> QED
      BY <1>11, <2>1, <3>1 DEF Scan
  <2>2. CASE /\ active' = active \ {p}
             /\ Goto(p, "idle")
             /\ UNCHANGED <<url, todo>>
    BY <1>11, <2>2 DEF Scan
  <2> QED
    BY <1>11, <2>1, <2>2 DEF Scan
<1>12. CASE UNCHANGED vars
  BY <1>12 DEF vars
<1> QED
  BY <1>1, <1>2, <1>3, <1>4, <1>5, <1>6, <1>7, <1>8, <1>9, <1>10, <1>11, <1>12
  DEF Next, Step

\* The locks are used as the code's points of acquisition and release say.
THEOREM TypeCorrect == Spec => []TypeOK
  BY TypeInit, TypeStep, PTL DEF Spec

\* A goroutine that a wait can end at is itself unblocked sooner or later along
\* a fixed order: a holder of st.mu waits for nobody, who waits for st.mu waits
\* for a holder, the announced writer waits for readers, and everybody else
\* waits for the announced writer.  So no set of goroutines waits on itself.
LEMMA NoCycle == TypeOK => NoDeadlock
<1> SUFFICES ASSUME TypeOK, NEW S \in SUBSET Proc, S # {}
             PROVE  \E p \in S : \A q \in S : ~WaitsFor(p, q)
  BY DEF NoDeadlock
<1> USE LocksAssumption DEF TypeOK, Reading, WaitsFor, Proc
<1>1. CASE \E p \in S : pc[p] = "section"
  BY <1>1
<1>2. CASE \E p \in S : pc[p] = "lock" /\ \A q \in S : pc[q] # "section"
  <2> PICK p \in S : pc[p] = "lock" /\ \A q \in S : pc[q] # "section"
    BY <1>2
  <2>1. p \notin parked /\ writer # p
    OBVIOUS
  <2>2. ASSUME NEW q \in S PROVE held[url[p]] # q
    OBVIOUS
  <2> QED
    BY <2>1, <2>2
<1>3. CASE \A p \in S : pc[p] \notin {"section", "lock"}
  <2>1. CASE writer \in S /\ S \cap active # {}
    <3> PICK r \in S : r \in active
      BY <2>1
    <3> r \notin parked /\ writer # r /\ pc[r] # "insert"
      BY <2>1
    <3> QED
      BY <1>3
  <2>2. CASE writer \in S /\ S \cap active = {}
    BY <1>3, <2>2
  <2>3. CASE writer \notin S
    BY <1>3, <2>3
  <2> QED
    BY <2>1, <2>2, <2>3
<1> QED
  BY <1>1, <1>2, <1>3

\* No reachable state has a set of goroutines that wait for one another, with
\* any number of callers, status requests and URLs.
THEOREM DeadlockFree == Spec => []NoDeadlock
  BY TypeCorrect, NoCycle, PTL
=============================================================================

---------------------------- MODULE BreakerLocks ----------------------------
(***************************************************************************)
(* The locks of internal/circuitbreaker, one step per lock operation.      *)
(* CircuitBreaker treats a lookup, a section and a report as atomic; this  *)
(* module shows that the locks that make them so never deadlock and starve *)
(* nobody.  cb.mu is Go's sync.RWMutex: a writer announces itself, new     *)
(* readers then park until it unlocks, and it waits for the readers that   *)
(* were in before.  Each urlState has a mutex of its own, st.mu, which     *)
(* GetBreakers takes while it still holds cb.mu for reading.               *)
(***************************************************************************)
EXTENDS Naturals

CONSTANTS
    Caller,    \* delivery goroutines: Allow, State, RecordSuccess, RecordFailure
    Reporter,  \* goroutines of the status handlers: GetBreakers
    URL,       \* target URLs
    None

Proc == Caller \cup Reporter

ASSUME LocksAssumption ==
    /\ Caller \cap Reporter = {}
    /\ None \notin Proc
    /\ None \notin URL

VARIABLES
    pc,      \* where each goroutine is; "idle" outside the breaker
    url,     \* the URL it works on
    todo,    \* GetBreakers: entries of the map not visited yet
    known,   \* keys of cb.urlStates
    active,  \* cb.mu: goroutines that hold it for reading
    parked,  \* cb.mu: readers waiting for the announced writer
    writer,  \* cb.mu: the announced writer, None if there is none
    held     \* held[u]: who holds the mutex of u's urlState

cbmu == <<active, parked, writer>>
vars == <<pc, url, todo, known, active, parked, writer, held>>

Init ==
    /\ pc = [p \in Proc |-> "idle"]
    /\ url = [p \in Proc |-> None]
    /\ todo = [p \in Proc |-> {}]
    /\ known = {}
    /\ active = {} /\ parked = {} /\ writer = None
    /\ held = [u \in URL |-> None]

Goto(p, l) == pc' = [pc EXCEPT ![p] = l]

\* The points that begin with cb.mu.RLock(): the first half of getURLState,
\* triggerChange, and GetBreakers.
Reading == {"lookup", "trigger", "report"}

-----------------------------------------------------------------------------
\* A breaker call for some URL; a status request.
Begin(p) ==
    /\ pc[p] = "idle"
    /\ \/ /\ p \in Caller
          /\ Goto(p, "lookup")
          /\ \E u \in URL : url' = [url EXCEPT ![p] = u]
       \/ /\ p \in Reporter
          /\ Goto(p, "report")
          /\ UNCHANGED url
    /\ UNCHANGED <<todo, known, cbmu, held>>

\* cb.mu.RLock(): parks behind an announced writer.
RLock(p) ==
    /\ pc[p] \in Reading
    /\ p \notin active \cup parked
    /\ IF writer = None
       THEN active' = active \cup {p} /\ UNCHANGED parked
       ELSE parked' = parked \cup {p} /\ UNCHANGED active
    /\ UNCHANGED <<pc, url, todo, known, writer, held>>

\* getURLState: look the URL up, RUnlock.
Lookup(p) ==
    /\ pc[p] = "lookup" /\ p \in active
    /\ Goto(p, IF url[p] \in known THEN "lock" ELSE "insert")
    /\ active' = active \ {p}
    /\ UNCHANGED <<url, todo, known, parked, writer, held>>

\* getURLState: cb.mu.Lock() announces one writer at a time,
Announce(p) ==
    /\ pc[p] = "insert" /\ writer = None
    /\ writer' = p
    /\ UNCHANGED <<pc, url, todo, known, active, parked, held>>

\* and enters once the earlier readers have left; Unlock lets in every reader
\* that parked meanwhile.
Insert(p) ==
    /\ writer = p /\ active = {}
    /\ known' = known \cup {url[p]}
    /\ Goto(p, "lock")
    /\ writer' = None /\ active' = parked /\ parked' = {}
    /\ UNCHANGED <<url, todo, held>>

\* st.mu.Lock(), in the four calls and in GetBreakers' loop.
Lock(p) ==
    /\ pc[p] = "lock" /\ held[url[p]] = None
    /\ held' = [held EXCEPT ![url[p]] = p]
    /\ Goto(p, "section")
    /\ UNCHANGED <<url, todo, known, cbmu>>

\* Mutant: triggerChange is called before st.mu.Unlock().
Section_Reporting(p) ==
    /\ pc[p] = "section"
    /\ \E l \in IF p \in Caller THEN {"idle", "trigger"} ELSE {"scan"} :
          /\ Goto(p, l)
          /\ held' = IF l = "trigger" THEN held
                     ELSE [held EXCEPT ![url[p]] = None]
    /\ UNCHANGED <<url, todo, known, cbmu>>

\* The section and st.mu.Unlock(); whether the state changed decides whether
\* the caller reports it.  GetBreakers goes on with its loop.
Section(p) ==
    /\ pc[p] = "section"
    /\ \E l \in IF p \in Caller THEN {"idle", "trigger"} ELSE {"scan"} : Goto(p, l)
    /\ held' = [held EXCEPT ![url[p]] = None]
    /\ UNCHANGED <<url, todo, known, cbmu>>

\* triggerChange: read the callback, RUnlock,
Trigger(p) ==
    /\ pc[p] = "trigger" /\ p \in active
    /\ Goto(p, "callback")
    /\ active' = active \ {p}
    /\ UNCHANGED <<url, todo, known, parked, writer, held>>

\* and run it, holding nothing.
Callback(p) ==
    /\ pc[p] = "callback"
    /\ Goto(p, "idle")
    /\ UNCHANGED <<url, todo, known, cbmu, held>>

\* Mutant: an early return for an empty map, without RUnlock.
Range_Return(p) ==
    /\ pc[p] = "report" /\ p \in active
    /\ Goto(p, IF known = {} THEN "idle" ELSE "scan")
    /\ todo' = [todo EXCEPT ![p] = known]
    /\ UNCHANGED <<url, known, cbmu, held>>

\* GetBreakers: the loop ranges over the map as it is under the read lock.
Range(p) ==
    /\ pc[p] = "report" /\ p \in active
    /\ Goto(p, "scan")
    /\ todo' = [todo EXCEPT ![p] = known]
    /\ UNCHANGED <<url, known, cbmu, held>>

\* The next entry, in any order; after the last one the deferred RUnlock.
Scan(p) ==
    /\ pc[p] = "scan"
    /\ \/ \E u \in todo[p] :
             /\ url' = [url EXCEPT ![p] = u]
             /\ todo' = [todo EXCEPT ![p] = @ \ {u}]
             /\ Goto(p, "lock")
             /\ UNCHANGED active
       \/ /\ todo[p] = {}
          /\ active' = active \ {p}
          /\ Goto(p, "idle")
          /\ UNCHANGED <<url, todo>>
    /\ UNCHANGED <<known, parked, writer, held>>

\* What a goroutine does without waiting for a mutex.
Step(p) ==
    \/ RLock(p) \/ Lookup(p) \/ Insert(p) \/ Section(p)
    \/ Trigger(p) \/ Callback(p) \/ Range(p) \/ Scan(p)

Next == \E p \in Proc : Begin(p) \/ Step(p) \/ Announce(p) \/ Lock(p)

Spec == Init /\ [][Next]_vars

\* Goroutines are scheduled; a sync.Mutex (st.mu, and the one inside the
\* RWMutex that orders writers) hands itself to a waiter that keeps missing it.
FairSpec ==
    /\ Spec
    /\ \A p \in Proc : WF_vars(Step(p)) /\ SF_vars(Announce(p)) /\ SF_vars(Lock(p))

-----------------------------------------------------------------------------
Location == Reading \cup {"idle", "insert", "lock", "section", "callback", "scan"}

\* The type invariant, and what the fields of the locks say of the goroutines:
\* st.mu is held exactly inside a section, cb.mu for reading only at the points
\* of Reading and in GetBreakers' loop, for writing only by an insertion.
TypeOK ==
    /\ pc \in [Proc -> Location]
    /\ url \in [Proc -> URL \cup {None}]
    /\ todo \in [Proc -> SUBSET URL]
    /\ known \subseteq URL
    /\ active \subseteq Proc /\ parked \subseteq Proc \ active
    /\ writer \in Proc \cup {None}
    /\ held \in [URL -> Proc \cup {None}]
    /\ \A p \in Proc : pc[p] \in {"lookup", "insert", "lock", "section"} => url[p] \in URL
    /\ \A u \in URL, p \in Proc : held[u] = p <=> pc[p] = "section" /\ url[p] = u
    /\ \A p \in Caller : /\ pc[p] \notin {"report", "scan"}
                         /\ p \in active => pc[p] \in Reading
    /\ \A p \in Reporter : \/ pc[p] = "idle" /\ p \notin active
                           \/ pc[p] = "report"
                           \/ pc[p] \in {"scan", "lock", "section"} /\ p \in active
    /\ \A p \in parked : pc[p] \in Reading
    /\ writer # None => pc[writer] = "insert"

\* Goroutine p cannot go on before q has.
WaitsFor(p, q) ==
    \/ p \in parked /\ q = writer
    \/ pc[p] = "insert" /\ writer \notin {p, None} /\ q = writer
    \/ writer = p /\ q \in active
    \/ pc[p] = "lock" /\ q = held[url[p]]

\* Lock order: no set of goroutines in which each waits for another of the set.
\* GetBreakers holds cb.mu while it takes each st.mu, and a parked reader waits
\* for a writer that waits for GetBreakers, so a call that asked for cb.mu with
\* its st.mu still held would close the cycle; the calls unlock it first.
NoDeadlock ==
    \A S \in SUBSET Proc : S # {} => \E p \in S : \A q \in S : ~WaitsFor(p, q)

\* Every breaker call and every status request returns, whatever traffic of
\* other callers, reporters and new URLs it meets.
CallsReturn == \A p \in Proc : pc[p] # "idle" ~> pc[p] = "idle"
=============================================================================

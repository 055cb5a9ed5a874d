---------------------------- MODULE RateLimiter ----------------------------
(***************************************************************************)
(* internal/ratelimit and internal/cache: the requests that carry one      *)
(* rate-limit key, over several gateways.  A gateway answers from its L1   *)
(* cache while it holds a live entry; otherwise it reads its clock, has    *)
(* Redis run the sliding-window script, and then caches an admission or    *)
(* broadcasts an invalidation.  Every one of these is a separate step: the *)
(* clock may have moved, and others may have acted, before the next.       *)
(***************************************************************************)
EXTENDS Integers, FiniteSets

CONSTANTS
    Node,         \* gateway instances
    Request,      \* requests for the key
    Limit,        \* limit.Requests
    Window,       \* limit.Window, in clock ticks
    TTLDivisor,   \* 10 in the code
    TTLCap,       \* one second in the code
    Skew,         \* how far each gateway's clock is from true time
    MaxSkew,      \* bound on Skew, either way
    MaxDelay,     \* longest time one step of Allow waits for Redis
    None,         \* no entry in the L1 map
    MaxTime,      \* bound: last instant of the clock
    MaxFaults     \* bound: lost replies, clients gone, outages, restarts

\* The skew and the delay must leave some of the window, and the cache
\* lifetime must not round to zero (Set takes zero as "never expires").
ASSUME LimiterAssumption ==
    /\ Limit \in Nat /\ Window \in Nat
    /\ TTLDivisor \in Nat \ {0} /\ TTLCap \in Nat \ {0}
    /\ Window >= TTLDivisor
    /\ MaxSkew \in Nat /\ MaxDelay \in Nat
    /\ Skew \in [Node -> Int]
    /\ \A g \in Node : -MaxSkew <= Skew[g] /\ Skew[g] <= MaxSkew
    /\ None \notin Node /\ None \notin Request
    /\ MaxTime \in Nat /\ MaxFaults \in Nat

VARIABLES
    now,      \* true time
    zset,     \* the sorted set of the key in Redis: its members are requests
    expireAt, \* when Redis drops the key (PEXPIRE)
    l1,       \* each gateway's L1 entry for the key
    inbox,    \* invalidations on their way to each gateway, by their sender
    req,      \* the requests
    up,       \* is Redis reachable?
    stub,     \* gateways that started without Redis: StubRateLimiter
    faults,   \* faults so far
    lost      \* history: the script admitted it, the caller never heard

vars == <<now, zset, expireAt, l1, inbox, req, up, stub, faults, lost>>

\* "hit" and "stub" are admissions without Redis, "admitted" one by Redis;
\* "gone" went down with its gateway.
RequestPC == {"new", "eval", "set", "publish",
              "hit", "stub", "admitted", "rejected", "error", "gone"}

Waiting == {"eval", "set", "publish"}

\* stamp: nowMs, the request's score.  at: true time of its last step.
RequestState == [pc : RequestPC, node : Node \cup {None}, stamp : Int, at : Nat]

NewRequest == [pc |-> "new", node |-> None, stamp |-> 0, at |-> 0]

l1TTL ==
    IF Window \div TTLDivisor > TTLCap THEN TTLCap ELSE Window \div TTLDivisor

\* ShardedCache.Get finds an entry that has not expired.
Get(g) ==
    /\ l1[g] # None
    /\ ~(l1[g].exp > 0 /\ now > l1[g].exp)

\* The limiter main picks: the stub when the first Ping fails.
Init ==
    /\ now = 1
    /\ zset = {}
    /\ expireAt = 0
    /\ l1 = [g \in Node |-> None]
    /\ inbox = [g \in Node |-> {}]
    /\ req = [q \in Request |-> NewRequest]
    /\ up \in BOOLEAN /\ (MaxFaults = 0 => up)
    /\ stub = IF up THEN {} ELSE Node
    /\ faults = 0
    /\ lost = {}

-----------------------------------------------------------------------------
\* Allow up to its Eval call: the stub admits, a live L1 entry admits, and
\* otherwise the request carries the gateway's clock to Redis.
Allow(q, g) ==
    /\ req[q].pc = "new"
    /\ req' = [req EXCEPT ![q] =
                 [pc    |-> CASE g \in stub -> "stub"
                              [] g \notin stub /\ Get(g) -> "hit"
                              [] OTHER -> "eval",
                  node  |-> g,
                  stamp |-> now + Skew[g],
                  at    |-> now]]
    /\ UNCHANGED <<now, zset, expireAt, l1, inbox, up, stub, faults, lost>>

\* The members left after the key's expiry and ZREMRANGEBYSCORE.
Kept(n) ==
    IF now >= expireAt THEN {} ELSE {p \in zset : req[p].stamp > n - Window}

\* Mutant: one request too many.
Fits_OffByOne(n) == Cardinality(Kept(n)) <= Limit

Fits(n) == Cardinality(Kept(n)) < Limit

\* Mutant: the member is added before the count is compared.
Script_AddsFirst(q) ==
    /\ zset' = Kept(req[q].stamp) \cup {q}
    /\ expireAt' = now + Window

\* slidingWindowLua, atomic in Redis, with q's stamp as its clock.
Script(q) ==
    LET n == req[q].stamp IN
    IF Fits(n)
    THEN /\ zset' = Kept(n) \cup {q}
         /\ expireAt' = now + Window
    ELSE /\ zset' = Kept(n)
         /\ UNCHANGED expireAt

\* Redis runs the script and its answer arrives.
Evaluate(q) ==
    /\ req[q].pc = "eval" /\ up
    /\ Script(q)
    /\ req' = [req EXCEPT ![q].pc = IF Fits(req[q].stamp) THEN "set" ELSE "publish",
                          ![q].at = now]
    /\ UNCHANGED <<now, l1, inbox, up, stub, faults, lost>>

\* Redis runs the script but the answer is lost: the client library sends
\* the same command, stamp and member again.
ReplyLost(q) ==
    /\ req[q].pc = "eval" /\ up
    /\ faults < MaxFaults
    /\ Script(q)
    /\ lost' = IF Fits(req[q].stamp) THEN lost \cup {q} ELSE lost
    /\ faults' = faults + 1
    /\ UNCHANGED <<now, l1, inbox, req, up, stub>>

\* The client hangs up, which cancels the context of its request: a call to
\* Redis returns an error, whether or not Redis can be reached.
ClientGone ==
    /\ faults < MaxFaults
    /\ faults' = faults + 1

\* Eval returns an error; the middleware answers 500.  (That the script has
\* run all the same is ReplyLost before this.)
EvalFails(q) ==
    /\ req[q].pc = "eval"
    /\ (~up /\ UNCHANGED faults) \/ ClientGone
    /\ req' = [req EXCEPT ![q].pc = "error"]
    /\ UNCHANGED <<now, zset, expireAt, l1, inbox, up, stub, lost>>

\* Mutant: the entry lives as long as the window.
Expiration_WholeWindow == now + Window

\* The expiration ShardedCache.Set stores.
Expiration == IF l1TTL > 0 THEN now + l1TTL ELSE 0

\* The admission is cached and returned.
Set(q) ==
    /\ req[q].pc = "set"
    /\ l1' = [l1 EXCEPT ![req[q].node] = [exp |-> Expiration, from |-> q]]
    /\ req' = [req EXCEPT ![q].pc = "admitted"]
    /\ UNCHANGED <<now, zset, expireAt, inbox, up, stub, faults, lost>>

\* The rejection is broadcast (the error of Publish is ignored) and returned.
Publish(q) ==
    /\ req[q].pc = "publish"
    /\ \/ /\ inbox' = [g \in Node |-> IF up /\ g \notin stub
                                      THEN inbox[g] \cup {q} ELSE inbox[g]]
          /\ UNCHANGED faults
       \/ ClientGone /\ UNCHANGED inbox
    /\ req' = [req EXCEPT ![q].pc = "rejected"]
    /\ UNCHANGED <<now, zset, expireAt, l1, up, stub, lost>>

\* The listener's loop: Delete drops the entry.
Invalidate(g) ==
    \E q \in inbox[g] :
        /\ inbox' = [inbox EXCEPT ![g] = @ \ {q}]
        /\ l1' = [l1 EXCEPT ![g] = None]
        /\ UNCHANGED <<now, zset, expireAt, req, up, stub, faults, lost>>

-----------------------------------------------------------------------------
\* Time passes; no step of Allow waits for Redis longer than MaxDelay.
Tick ==
    /\ now < MaxTime
    /\ \A q \in Request : req[q].pc \in Waiting => now - req[q].at < MaxDelay
    /\ now' = now + 1
    /\ UNCHANGED <<zset, expireAt, l1, inbox, req, up, stub, faults, lost>>

\* Redis cannot be reached; what was published but not delivered is lost.
RedisDown ==
    /\ up /\ faults < MaxFaults
    /\ up' = FALSE
    /\ faults' = faults + 1
    /\ inbox' = [g \in Node |-> {}]
    /\ UNCHANGED <<now, zset, expireAt, l1, req, stub, lost>>

\* Redis answers again, with its data; the client library resubscribes.
RedisUp ==
    /\ ~up
    /\ up' = TRUE
    /\ UNCHANGED <<now, zset, expireAt, l1, inbox, req, stub, faults, lost>>

\* A gateway is restarted: its cache and its requests are gone, and whether
\* Redis answers its first Ping decides which limiter it uses.
GatewayRestart(g) ==
    LET mine == {q \in Request : req[q].node = g} IN
    /\ faults < MaxFaults
    /\ faults' = faults + 1
    /\ l1' = [l1 EXCEPT ![g] = None]
    /\ inbox' = [inbox EXCEPT ![g] = {}]
    /\ stub' = IF up THEN stub \ {g} ELSE stub \cup {g}
    /\ lost' = lost \cup {q \in mine : req[q].pc = "set"}
    /\ req' = [q \in Request |-> IF q \in mine /\ req[q].pc \in Waiting
                                 THEN [req[q] EXCEPT !.pc = "gone"] ELSE req[q]]
    /\ UNCHANGED <<now, zset, expireAt, up>>

Next ==
    \/ \E q \in Request, g \in Node : Allow(q, g)
    \/ \E q \in Request : Evaluate(q) \/ ReplyLost(q) \/ EvalFails(q)
    \/ \E q \in Request : Set(q) \/ Publish(q)
    \/ \E g \in Node : Invalidate(g) \/ GatewayRestart(g)
    \/ RedisDown \/ RedisUp
    \/ Tick

Spec == Init /\ [][Next]_vars

-----------------------------------------------------------------------------
(* Properties.                                                             *)

\* The type invariant of the limiter's state; an L1 entry never expires
\* later than one l1TTL from now (ShardedCache.Set).
TypeOK ==
    /\ now \in Nat
    /\ zset \in SUBSET Request
    /\ expireAt \in Nat
    /\ l1 \in [Node -> [exp : Nat, from : Request] \cup {None}]
    /\ \A g \in Node : l1[g] # None => l1[g].exp <= now + l1TTL
    /\ inbox \in [Node -> SUBSET Request]
    /\ req \in [Request -> RequestState]
    /\ up \in BOOLEAN
    /\ stub \in SUBSET Node
    /\ faults \in Nat
    /\ lost \in SUBSET Request

\* What the clock error and the delay leave of the window.
SafeWindow == Window - MaxDelay - 2 * MaxSkew

\* The requests the script admitted in the last SafeWindow of true time.
Recent ==
    {q \in Request : /\ req[q].pc \in {"set", "admitted"}
                     /\ req[q].at > now - SafeWindow}

\* Whatever the interleaving of gateways, lost replies and retries, and
\* although every gateway stamps requests with its own clock some time before
\* Redis sees them, slidingWindowLua never admits more than Limit requests
\* in any stretch of Window - MaxDelay - 2*MaxSkew.
L2WithinLimit == IsFiniteSet(Recent) /\ Cardinality(Recent) <= Limit

\* The requests that used up quota in the last Window and its error margin.
Charged ==
    {q \in Request : /\ req[q].pc \in {"set", "admitted"} \/ q \in lost
                     /\ req[q].at > now - Window - MaxDelay - 2 * MaxSkew}

\* A request is turned away only when Limit requests were really let through
\* (or never got the answer that let them) within the window and the same
\* margin: rejected requests use up no quota, and forgotten members are not
\* counted (slidingWindowLua).
RejectionsJustified ==
    [][\A q \in Request :
         req[q].pc = "eval" /\ req'[q].pc = "publish"
             => Cardinality(Charged) >= Limit]_vars

\* A gateway answers from L1 only on the strength of an admission by Redis on
\* the same gateway no older than the cache lifetime and one reply's delay:
\* losing an invalidation cannot keep an entry alive (Allow, Set, Get).
L1ShortLived ==
    \A g \in Node : Get(g) =>
        LET q == req[l1[g].from] IN
        /\ q.pc = "admitted" /\ q.node = g
        /\ now - q.at <= l1TTL + MaxDelay

\* README.md:11, "Real-time Pub/Sub broadcasts instantly invalidate local L1
\* entries": once a gateway has handled the invalidation of a rejection, it
\* does not answer from an admission that is older than that rejection.
\* (Without faults, an invalidation that is not on its way has been handled.)
InvalidationSticks ==
    \A g \in Node, p \in Request :
        Get(g) /\ req[p].pc = "rejected" /\ p \notin inbox[g]
            => req[l1[g].from].at >= req[p].at

=============================================================================

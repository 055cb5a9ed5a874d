------------------------------ MODULE Gateway ------------------------------
(***************************************************************************)
(* cmd/gateway/main.go with internal/middleware and internal/policy: the   *)
(* requests one gateway serves at the same time, from the middleware chain *)
(* to the handlers that keep state of their own, and the server's exit.    *)
(*                                                                         *)
(* A request is a goroutine; its steps are the operations other goroutines *)
(* can see: the atomic counters, the queries, the limiter's answer.  What  *)
(* the limiter decides, and what /v1/webhooks and its replay do, are the   *)
(* subject of RateLimiter and WebhookPipeline; here the limiter may give   *)
(* any answer, and "/api/v1/payments" stands for the handlers that touch   *)
(* neither the counters nor api_keys.                                      *)
(***************************************************************************)
EXTENDS Integers, Sequences, FiniteSetsExt

CONSTANTS
    Request,      \* the requests
    Call,         \* what clients send: a path, and an API key or ""
    Limit,        \* limits of rules
    Policy,       \* policies LoadConfig may read: tier -> sequence of rules
    None,         \* no limit applies
    MaxFaults     \* bound: failed queries and broken proxied responses

Path == {"/healthz", "/metrics", "/v1/stats", "/v1/admin/keys",
         "/api/v1/payments", "/proxied"}

\* Go's empty string: no API key in the header, no tier in the context.
Empty == ""

\* The three rows the keys endpoint seeds.
Seed == {"pro-key", "ent-key", "free-key"}

ASSUME GatewayAssumption ==
    /\ IsFiniteSet(Request)
    /\ \A c \in Call : c.path \in Path
    /\ MaxFaults \in Nat
    /\ None \notin Limit
    /\ \A p \in Policy : \A tier \in DOMAIN p :
         p[tier] \in Seq([route : STRING, limit : Limit])

VARIABLES
    policy,   \* cfg, read once
    req,      \* the requests
    total,    \* totalRequestsCount
    hits,     \* rateLimitHitsCount
    labelled, \* GatewayRequestsTotal, by status
    apiKeys,  \* rows of api_keys for each key_hash
    server,   \* "serving", "draining", and how main ended
    faults,   \* faults so far
    aborted   \* history: counted requests whose handler panicked

vars == <<policy, req, total, hits, labelled, apiKeys, server, faults, aborted>>

\* The counters tell 429 from the other status codes.
Status == {"429", "other"}

RequestPC == {"new", "limit", "serve", "stats", "count", "seed", "list",
              "answered", "label", "done"}

\* limit: what GetLimit returned.  shown: the numbers of the JSON answer.
\* failed: one of its queries failed (history).
NewRequest ==
    [pc |-> "new", path |-> "/healthz", tier |-> Empty, limit |-> None,
     status |-> "other", shown |-> <<>>, failed |-> FALSE]

Init ==
    /\ policy \in Policy
    /\ req = [r \in Request |-> NewRequest]
    /\ total = 0 /\ hits = 0
    /\ labelled = [s \in Status |-> 0]
    /\ apiKeys = [k \in Seed |-> 0]
    /\ server = "serving"
    /\ faults = 0
    /\ aborted = 0

-----------------------------------------------------------------------------
(* The decisions of the chain.                                             *)

\* Mutant: the switch has no default.
Tier_NoDefault(key) ==
    CASE key = "ent-key" -> "Enterprise"
      [] key = "pro-key" -> "Pro"
      [] OTHER           -> Empty

Tier(key) ==
    CASE key = "ent-key" -> "Enterprise"
      [] key = "pro-key" -> "Pro"
      [] OTHER           -> "Free"

\* The dashboard's own requests are not counted.
IsControlPath(path) == path \in {"/v1/stats", "/metrics", "/v1/admin/keys"}

\* Nothing ever stores to main's currentLoad.
currentLoad == 0

Sheds(tier) == currentLoad >= 80 /\ tier \in {"Free", Empty}

Rules(tier) == IF tier \in DOMAIN policy THEN policy[tier] ELSE <<>>

\* The rules of a tier for one of these routes, as positions in the file.
Matching(tier, routes) == {i \in DOMAIN Rules(tier) : Rules(tier)[i].route \in routes}

FirstLimit(tier, matching) == Rules(tier)[Min(matching)].limit

\* Mutant: one loop, which takes the first rule that matches.
GetLimit_FirstMatch(tier, route) ==
    LET all == Matching(tier, {route, "/*", "*"}) IN
    IF all # {} THEN FirstLimit(tier, all) ELSE None

\* The first loop looks for a rule of the route itself, the second one for a
\* wildcard; each returns the first it meets.
GetLimit(tier, route) ==
    LET exact == Matching(tier, {route})
        wild  == Matching(tier, {"/*", "*"})
    IN  CASE exact # {}               -> FirstLimit(tier, exact)
          [] exact = {} /\ wild # {}  -> FirstLimit(tier, wild)
          [] OTHER                    -> None

-----------------------------------------------------------------------------
(* The chain.                                                              *)

\* A connection accepted before Shutdown may send its request during it.
Running == server \in {"serving", "draining"}

At(r, pc) == Running /\ req[r].pc = pc

Goto(r, pc) == req' = [req EXCEPT ![r].pc = pc]

Done(r) == req' = [req EXCEPT ![r] = [NewRequest EXCEPT !.pc = "done"]]

Answer(r, status) ==
    req' = [req EXCEPT ![r].pc = "answered", ![r].status = status]

\* /healthz, a CORS preflight and a request without API key are answered in
\* front of the chain's counters.
AnswerEarly(r) ==
    /\ At(r, "new")
    /\ Done(r)
    /\ UNCHANGED <<policy, total, hits, labelled, apiKeys, server, faults, aborted>>

\* Auth, the first half of metricsMiddleware, LoadShedder, and RateLimit up
\* to the limiter: all the request reads on the way is fixed.
Enter(r, path, key) ==
    LET tier  == IF path = "/metrics" THEN Empty ELSE Tier(key)
        limit == GetLimit(tier, path)
    IN
    /\ At(r, "new")
    /\ path # "/healthz" /\ (key # Empty \/ path = "/metrics")
    /\ total' = IF IsControlPath(path) THEN total ELSE total + 1
    /\ req' = [req EXCEPT ![r] =
                 [@ EXCEPT !.path = path, !.tier = tier, !.limit = limit,
                           !.pc = CASE Sheds(tier) -> "answered"
                                    [] ~Sheds(tier) /\ limit = None -> "serve"
                                    [] OTHER -> "limit"]]
    /\ UNCHANGED <<policy, hits, labelled, apiKeys, server, faults, aborted>>

\* limiter.Allow answers: pass on, 429, or 500 after an error.
RateLimit(r) ==
    /\ At(r, "limit")
    /\ Goto(r, "serve") \/ Answer(r, "429") \/ Answer(r, "other")
    /\ UNCHANGED <<policy, total, hits, labelled, apiKeys, server, faults, aborted>>

\* A handler that goes on for GET only; any other method gets 405.
GetOnly(r, pc) == Goto(r, pc) \/ Answer(r, "other")

\* The proxied API may answer anything, or be out of reach (502).
Proxied(r) == \E s \in Status : Answer(r, s)

\* The mux.
Serve(r) ==
    /\ At(r, "serve")
    /\ CASE req[r].path = "/v1/stats" -> GetOnly(r, "stats")
         [] req[r].path = "/v1/admin/keys" -> GetOnly(r, "count")
         [] req[r].path = "/proxied" -> Proxied(r)
         [] OTHER -> Answer(r, "other")
    /\ UNCHANGED <<policy, total, hits, labelled, apiKeys, server, faults, aborted>>

\* The proxied response breaks off after its header: ReverseProxy panics with
\* ErrAbortHandler and nothing after next.ServeHTTP runs.
ProxyAborts(r) ==
    /\ At(r, "serve") /\ req[r].path = "/proxied"
    /\ faults < MaxFaults /\ faults' = faults + 1
    /\ aborted' = aborted + 1
    /\ Done(r)
    /\ UNCHANGED <<policy, total, hits, labelled, apiKeys, server>>

\* The second half of metricsMiddleware up to the hit counter.
CountHit(r) ==
    LET counted == ~IsControlPath(req[r].path) IN
    /\ At(r, "answered")
    /\ hits' = IF counted /\ req[r].status = "429" THEN hits + 1 ELSE hits
    /\ IF counted THEN Goto(r, "label") ELSE Done(r)
    /\ UNCHANGED <<policy, total, labelled, apiKeys, server, faults, aborted>>

\* Mutant: the labelled counter is left out for rejected requests.
Label_ServedOnly(r) ==
    /\ At(r, "label")
    /\ labelled' = [labelled EXCEPT ![req[r].status] =
                      IF req[r].status = "429" THEN @ ELSE @ + 1]
    /\ Done(r)
    /\ UNCHANGED <<policy, total, hits, apiKeys, server, faults, aborted>>

\* Its last statement, the Prometheus counter.
Label(r) ==
    /\ At(r, "label")
    /\ labelled' = [labelled EXCEPT ![req[r].status] = @ + 1]
    /\ Done(r)
    /\ UNCHANGED <<policy, total, hits, apiKeys, server, faults, aborted>>

-----------------------------------------------------------------------------
(* The handlers with state of their own.                                   *)

\* Mutant: the totals are read before the time series.
Loaded_TotalsFirst(s) ==
    CASE Len(s) = 0 -> <<total>>
      [] Len(s) = 1 -> <<s[1], hits>>
      [] Len(s) = 2 -> <<total>> \o s
      [] OTHER      -> <<s[1], hits, s[2], s[3]>>

\* The next of the four loads of the stats answer: the last point of the
\* series (traffic, rate_limited), then the totals (requests, hits).
Loaded(s) == Append(s, IF Len(s) \in {0, 2} THEN total ELSE hits)

Stats(r) ==
    /\ At(r, "stats")
    /\ req' = [req EXCEPT ![r].shown = Loaded(@),
                          ![r].pc = IF Len(req[r].shown) < 3 THEN @ ELSE "answered"]
    /\ UNCHANGED <<policy, total, hits, labelled, apiKeys, server, faults, aborted>>

\* A query succeeds, or fails within the bound on faults.
Query(r, ok) ==
    /\ ok \/ faults < MaxFaults
    /\ faults' = IF ok THEN faults ELSE faults + 1

Rows == apiKeys["pro-key"] + apiKeys["ent-key"] + apiKeys["free-key"]

\* SELECT COUNT: when it fails, its error is dropped and count stays zero.
CountKeys(r) ==
    /\ At(r, "count")
    /\ \E ok \in BOOLEAN :
         /\ Query(r, ok)
         /\ req' = [req EXCEPT ![r].pc = IF ok /\ Rows > 0 THEN "list" ELSE "seed",
                               ![r].failed = ~ok]
    /\ UNCHANGED <<policy, total, hits, labelled, apiKeys, server, aborted>>

\* Mutant: nothing stops a second copy of a row.
Inserted_NoUnique == [k \in Seed |-> apiKeys[k] + 1]

\* The INSERT of three rows: key_hash is UNIQUE, so one row that exists makes
\* the statement fail as a whole.
Inserted ==
    IF \E k \in Seed : apiKeys[k] > 0 THEN apiKeys
    ELSE [k \in Seed |-> apiKeys[k] + 1]

\* The INSERT; its error is dropped.
SeedKeys(r) ==
    /\ At(r, "seed")
    /\ \E ok \in BOOLEAN :
         /\ Query(r, ok)
         /\ apiKeys' = IF ok THEN Inserted ELSE apiKeys
         /\ req' = [req EXCEPT ![r].pc = "list", ![r].failed = @ \/ ~ok]
    /\ UNCHANGED <<policy, total, hits, labelled, server, aborted>>

\* SELECT: the rows, or 500.
ListKeys(r) ==
    /\ At(r, "list")
    /\ \E ok \in BOOLEAN :
         /\ Query(r, ok)
         /\ req' = [req EXCEPT ![r].pc = "answered",
                               ![r].shown = IF ok THEN <<Rows>> ELSE <<>>]
    /\ UNCHANGED <<policy, total, hits, labelled, apiKeys, server, aborted>>

-----------------------------------------------------------------------------
(* The server.                                                             *)

Active == {r \in Request : req[r].pc \notin {"new", "done"}}

\* SIGINT or SIGTERM: Shutdown closes the listener.
Signal ==
    /\ server = "serving"
    /\ server' = "draining"
    /\ UNCHANGED <<policy, req, total, hits, labelled, apiKeys, faults, aborted>>

\* Shutdown returns when no request is left, and main returns.
Drained ==
    /\ server = "draining" /\ Active = {}
    /\ server' = "stopped"
    /\ UNCHANGED <<policy, req, total, hits, labelled, apiKeys, faults, aborted>>

\* Mutant: the deadline is only seen between two requests.
Deadline_WhenIdle ==
    /\ server = "draining" /\ Active = {}
    /\ server' = "cut"
    /\ UNCHANGED <<policy, req, total, hits, labelled, apiKeys, faults, aborted>>

\* The ten seconds are over: Shutdown's error is fatal, and the requests
\* still running, and the counters, end with the process.
Deadline ==
    /\ server = "draining" /\ Active # {}
    /\ server' = "cut"
    /\ req' = [r \in Request |-> NewRequest]
    /\ total' = 0 /\ hits' = 0 /\ aborted' = 0
    /\ labelled' = [s \in Status |-> 0]
    /\ UNCHANGED <<policy, apiKeys, faults>>

Step(r) ==
    \/ AnswerEarly(r)
    \/ \E c \in Call : Enter(r, c.path, c.key)
    \/ RateLimit(r)
    \/ Serve(r) \/ ProxyAborts(r)
    \/ CountHit(r) \/ Label(r)
    \/ Stats(r)
    \/ CountKeys(r) \/ SeedKeys(r) \/ ListKeys(r)

Next ==
    \/ \E r \in Request : Step(r)
    \/ Signal \/ Drained \/ Deadline

Spec == Init /\ [][Next]_vars

\* The timer of shutdownCtx fires, and Shutdown's polling sees an idle
\* server.  No request is promised to end: the proxy has no timeout.
FairSpec == Spec /\ WF_vars(Drained) /\ WF_vars(Deadline)

-----------------------------------------------------------------------------
(* Properties.                                                             *)

RequestState ==
    [pc : RequestPC, path : Path, tier : {Empty, "Free", "Pro", "Enterprise"},
     limit : Limit \cup {None}, status : Status, shown : Seq(Nat), failed : BOOLEAN]

\* The type invariant; a request past Auth has a tier, except on /metrics.
TypeOK ==
    /\ policy \in Policy
    /\ req \in [Request -> RequestState]
    /\ \A r \in Request : Len(req[r].shown) <= 4
    /\ \A r \in Active : (req[r].tier = Empty) = (req[r].path = "/metrics")
    /\ total \in Nat /\ hits \in Nat /\ aborted \in Nat
    /\ labelled \in [Status -> Nat]
    /\ apiKeys \in [Seed -> Nat]
    /\ server \in {"serving", "draining", "stopped", "cut"}
    /\ faults \in 0 .. MaxFaults

Labels == labelled["429"] + labelled["other"]

\* The requests metricsMiddleware has counted once and has to count again.
Unlabelled == {r \in Active : ~IsControlPath(req[r].path)}

\* metricsMiddleware counts every request twice, on its way in and on its way
\* out, and the two counts agree: what totalRequestsCount has and the labelled
\* counter has not is in progress, or broke off in the proxy; every 429, and
\* nothing else, is a rate limit hit.  A clean exit leaves no request between
\* the two counts.
CountersConserved ==
    /\ total = Labels + Cardinality(Unlabelled) + aborted
    /\ hits = labelled["429"] + Cardinality({r \in Unlabelled : req[r].pc = "label"
                                                     /\ req[r].status = "429"})
    /\ server = "stopped" => total = Labels + aborted

\* The rules of a tier that concern a path.
Applicable(tier, path) ==
    IF tier \notin DOMAIN policy THEN {}
    ELSE {i \in DOMAIN policy[tier] : policy[tier][i].route \in {path, "/*", "*"}}

\* Every request that reaches a handler or the limiter is held to the most
\* specific rule of its tier, wherever the file has it: a wildcard never
\* stands in for the path's own rule, and a request goes without limit only if
\* no rule of its tier concerns it (GetLimit, RateLimit).
MostSpecificLimit ==
    \A r \in Active :
        LET rules == Applicable(req[r].tier, req[r].path)
            Is(i) == policy[req[r].tier][i].limit = req[r].limit
            exact == {i \in rules : policy[req[r].tier][i].route = req[r].path}
        IN  /\ req[r].limit = None <=> rules = {}
            /\ rules # {} => \E i \in rules :
                 /\ Is(i)
                 /\ exact # {} => i \in exact
                 /\ \A j \in rules : j < i => exact # {} /\ j \notin exact

\* One /v1/stats answer reads each counter twice while requests are served,
\* and still shows nothing impossible: the totals are no smaller than the last
\* point of the series, and that point's rejections are among the requests of
\* the total.  (The two totals may disagree with each other by requests that
\* arrived between their loads.)
StatsSane ==
    \A r \in Request :
        LET s == req[r].shown IN
        req[r].path = "/v1/stats" /\ Len(s) = 4 =>
            /\ s[1] <= s[3] /\ s[2] <= s[4]
            /\ s[2] <= s[3]
            /\ s[3] <= total /\ s[4] <= hits

\* However listings of the API keys overlap, and whichever of their queries
\* fail, the demo keys are there all or none and once each; and a listing that
\* shows none had a failed query of its own.
KeysSeededOnce ==
    /\ \A k, l \in Seed : apiKeys[k] = apiKeys[l] /\ apiKeys[k] <= 1
    /\ \A r \in Request :
         req[r].path = "/v1/admin/keys" /\ req[r].shown = <<0>> => req[r].failed

\* After a signal the gateway's process ends, whatever its requests do.
ExitsAfterSignal == server = "draining" ~> server \in {"stopped", "cut"}

=============================================================================

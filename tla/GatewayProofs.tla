--------------------------- MODULE GatewayProofs ---------------------------
(***************************************************************************)
(* Proofs about Gateway, for any set of requests, any calls, any policy    *)
(* and any number of failed queries and broken responses.                  *)
(***************************************************************************)
EXTENDS Gateway, FiniteSetTheorems, WellFoundedInduction, TLAPS

\* Every leaf that names no prover of its own has 30 seconds of SMT.
USE SMTT(30)

\* What a request has on its way: the handlers are entered for their own path,
\* with nothing shown yet, and only counted requests are counted again.
Fits(q) ==
    /\ q.pc = "stats" => q.path = "/v1/stats" /\ Len(q.shown) < 4
    /\ q.pc \in {"count", "seed", "list"} => q.path = "/v1/admin/keys"
    /\ q.pc = "label" => ~IsControlPath(q.path)
    /\ q.pc \in {"new", "limit", "serve", "count", "seed", "list", "done"} => q.shown = <<>>
    /\ q.pc \notin {"new", "done"} => (q.tier = Empty) = (q.path = "/metrics")
    /\ Len(q.shown) <= 4

OnItsWay == \A r \in Request : Fits(req[r])

\* The rejected requests that are counted as hits and not labelled yet.
Rejected == {r \in Unlabelled : req[r].pc = "label" /\ req[r].status = "429"}

\* A stats answer, as far as it has been put together.
StatsSoFar ==
    \A r \in Request :
        LET s == req[r].shown IN
        req[r].path = "/v1/stats" =>
            /\ Len(s) >= 1 => s[1] <= total
            /\ Len(s) >= 2 => s[2] <= hits /\ s[2] <= total
            /\ Len(s) >= 3 => s[1] <= s[3] /\ s[2] <= s[3] /\ s[3] <= total
            /\ Len(s) >= 4 => s[2] <= s[4] /\ s[4] <= hits

\* A listing whose queries have all succeeded will find the keys.
KeysToList ==
    \A r \in Request : req[r].pc = "list" /\ ~req[r].failed => Rows > 0

\* A request carries the limit that GetLimit gave it.
LimitKept ==
    \A r \in Active : req[r].limit = GetLimit(req[r].tier, req[r].path)

\* The inductive invariant.
IInv ==
    /\ TypeOK
    /\ OnItsWay
    /\ CountersConserved
    /\ StatsSoFar
    /\ KeysSeededOnce
    /\ KeysToList
    /\ LimitKept

-----------------------------------------------------------------------------
\* A set of positions has a first one.
LEMMA FirstExists ==
    ASSUME NEW S \in SUBSET Nat, S # {}
    PROVE  Min(S) \in S /\ \A j \in S : Min(S) <= j
<1> DEFINE R == OpToRel(<, Nat)
<1>1. PICK x \in S : \A y \in S : ~(<<y, x>> \in R)
  <2>1. IsWellFoundedOn(R, Nat)
    BY NatLessThanWellFounded, Zenon
  <2> QED
    BY <2>1, WFMin, Zenon
<1>2. \A y \in Nat : y < x => <<y, x>> \in R
  BY Zenon DEF OpToRel
<1>3. \A y \in S : ~(y < x)
  BY <1>1, <1>2, Zenon
<1>4. \A y \in S : x <= y
  BY <1>3, SMT
<1> QED
  BY <1>4, Zenon DEF Min

\* An element of a sequence of Ts is a T.
LEMMA ElementType == ASSUME NEW T, NEW s \in Seq(T), NEW i \in DOMAIN s PROVE s[i] \in T
OBVIOUS

\* The positions of a tier's rules are numbers, and its limits are limits.
LEMMA RulesType ==
    ASSUME TypeOK, NEW tier
    PROVE  /\ Rules(tier) \in Seq([route : STRING, limit : Limit])
           /\ \A routes : /\ Matching(tier, routes) \in SUBSET Nat
                          /\ Matching(tier, routes) \subseteq DOMAIN Rules(tier)
<1> DEFINE T == [route : STRING, limit : Limit]
<1>1. Rules(tier) \in Seq(T)
  <2>1. policy \in Policy
    BY DEF TypeOK
  <2>2. CASE tier \in DOMAIN policy
    BY <2>1, <2>2, GatewayAssumption, Zenon DEF Rules
  <2>3. CASE tier \notin DOMAIN policy
    <3>1. <<>> \in Seq(T)
      OBVIOUS
    <3> QED
      BY <2>3, <3>1, Zenon DEF Rules
  <2> QED
    BY <2>2, <2>3
<1> HIDE DEF T
<1>2. DOMAIN Rules(tier) \subseteq Nat
  BY <1>1
<1> USE DEF T
<1> QED
  BY <1>1, <1>2 DEF Matching

\* GetLimit answers with a limit or with none.
LEMMA GetLimitType ==
    ASSUME TypeOK, NEW tier, NEW route
    PROVE  GetLimit(tier, route) \in Limit \cup {None}
<1> DEFINE exact == Matching(tier, {route})
           wild  == Matching(tier, {"/*", "*"})
<1>1. ASSUME NEW S \in SUBSET Nat, S \subseteq DOMAIN Rules(tier), S # {}
      PROVE  FirstLimit(tier, S) \in Limit
  <2>1. Min(S) \in DOMAIN Rules(tier)
    BY <1>1, FirstExists, Zenon
  <2>2. Rules(tier)[Min(S)] \in [route : STRING, limit : Limit]
    BY <2>1, RulesType, ElementType, Zenon
  <2> QED
    BY <2>2 DEF FirstLimit
<1>2. exact # {} => FirstLimit(tier, exact) \in Limit
  BY <1>1, RulesType, Zenon
<1>3. wild # {} => FirstLimit(tier, wild) \in Limit
  BY <1>1, RulesType
<1> QED
  BY <1>2, <1>3 DEF GetLimit

\* No tier is not the name of a tier.
LEMMA EmptyDiffers == Empty # "Free" /\ Empty # "Pro" /\ Empty # "Enterprise"
BY Zenon DEF Empty

\* Tier always names a tier.
LEMMA TierType == ASSUME NEW key PROVE Tier(key) \in {"Free", "Pro", "Enterprise"}
BY DEF Tier

-----------------------------------------------------------------------------
\* The state of a request with nothing in it fits.
LEMMA NewRequestFits ==
    ASSUME NEW pc \in {"new", "done"}
    PROVE  /\ [NewRequest EXCEPT !.pc = pc] \in RequestState
           /\ Fits([NewRequest EXCEPT !.pc = pc])
<1>1. <<>> \in Seq(Nat) /\ Len(<<>>) = 0
  OBVIOUS
<1>2. [NewRequest EXCEPT !.pc = pc] \in RequestState
  BY <1>1, Zenon DEF NewRequest, RequestState, RequestPC, Path, Status
<1>3. Fits([NewRequest EXCEPT !.pc = pc])
  BY <1>1 DEF Fits, NewRequest
<1> QED
  BY <1>2, <1>3

\* A request that moves on, with an answer or without, still fits.
LEMMA Moves ==
    ASSUME NEW q \in RequestState, Fits(q), q.pc \notin {"new", "done"},
           NEW pc \in {"serve", "stats", "count", "answered", "label"}, NEW s \in Status,
           pc \in {"serve", "count"} => q.shown = <<>>,
           pc = "stats" => q.path = "/v1/stats" /\ q.shown = <<>>,
           pc = "count" => q.path = "/v1/admin/keys",
           pc = "label" => ~IsControlPath(q.path)
    PROVE  /\ [q EXCEPT !.pc = pc, !.status = s] \in RequestState
           /\ Fits([q EXCEPT !.pc = pc, !.status = s])
<1> DEFINE n == [q EXCEPT !.pc = pc, !.status = s]
<1>1. n \in RequestState
  BY Zenon DEF RequestState, RequestPC
<1>2. /\ n.pc = pc /\ n.shown = q.shown /\ n.tier = q.tier /\ n.path = q.path
  BY DEF RequestState
<1>3. Len(<<>>) = 0
  OBVIOUS
<1> HIDE DEF n
<1>4. Fits(n)
  <2>1. n.pc = "stats" => n.path = "/v1/stats" /\ Len(n.shown) < 4
    BY <1>2, <1>3
  <2>2. n.pc \in {"count", "seed", "list"} => n.path = "/v1/admin/keys"
    BY <1>2
  <2>3. n.pc = "label" => ~IsControlPath(n.path)
    BY <1>2
  <2>4. n.pc \in {"new", "limit", "serve", "count", "seed", "list", "done"} => n.shown = <<>>
    BY <1>2
  <2>5. (n.tier = Empty) = (n.path = "/metrics")
    BY <1>2 DEF Fits
  <2>6. Len(n.shown) <= 4
    BY <1>2 DEF Fits
  <2> QED
    BY <2>1, <2>2, <2>3, <2>4, <2>5, <2>6, Zenon DEF Fits
<1> QED
  BY <1>1, <1>4 DEF n

\* Every step of a request leaves it in a state that fits.
LEMMA RequestStep ==
    ASSUME TypeOK, OnItsWay, NEW r \in Request, Step(r)
    PROVE  \E q \in RequestState : Fits(q) /\ req' = [req EXCEPT ![r] = q]
<1> DEFINE q == req[r]
           Good(n) == n \in RequestState /\ Fits(n) /\ req' = [req EXCEPT ![r] = n]
<1> SUFFICES \E n : Good(n)
  BY Zenon
<1>0. req \in [Request -> RequestState] /\ q \in RequestState /\ Fits(q)
  BY DEF TypeOK, OnItsWay
<1>a. Len(<<>>) = 0 /\ <<>> \in Seq(Nat)
  OBVIOUS
<1>1. ASSUME Done(r) PROVE \E n : Good(n)
  BY <1>1, NewRequestFits, Zenon DEF Done
<1>2. ASSUME NEW pc \in {"serve", "stats", "count", "answered", "label"}, NEW s \in Status,
             req' = [req EXCEPT ![r] = [q EXCEPT !.pc = pc, !.status = s]],
             q.pc \notin {"new", "done"},
             pc \in {"serve", "count"} => q.shown = <<>>,
             pc = "stats" => q.path = "/v1/stats" /\ q.shown = <<>>,
             pc = "count" => q.path = "/v1/admin/keys",
             pc = "label" => ~IsControlPath(q.path)
      PROVE  \E n : Good(n)
  <2>1. Good([q EXCEPT !.pc = pc, !.status = s])
    BY <1>0, <1>2, Moves, Zenon
  <2> QED
    BY <2>1, Zenon
<1>3. ASSUME NEW s \in Status, Answer(r, s)
      PROVE  req' = [req EXCEPT ![r] = [q EXCEPT !.pc = "answered", !.status = s]]
  BY <1>0, <1>3, Zenon DEF Answer
<1>4. ASSUME NEW pc, Goto(r, pc)
      PROVE  req' = [req EXCEPT ![r] = [q EXCEPT !.pc = pc, !.status = q.status]]
  <2>1. [q EXCEPT !.pc = pc] = [q EXCEPT !.pc = pc, !.status = q.status]
    BY <1>0, Zenon DEF RequestState
  <2>2. req' = [req EXCEPT ![r] = [q EXCEPT !.pc = pc]]
    BY <1>0, <1>4 DEF Goto
  <2> QED
    BY <2>1, <2>2, Zenon
<1>b. q.status \in Status
  BY <1>0 DEF RequestState
<1>5. CASE AnswerEarly(r) \/ ProxyAborts(r) \/ Label(r)
  BY <1>1, <1>5 DEF AnswerEarly, ProxyAborts, Label
<1>6. ASSUME NEW c \in Call, Enter(r, c.path, c.key) PROVE \E n : Good(n)
  <2> DEFINE tier == IF c.path = "/metrics" THEN Empty ELSE Tier(c.key)
             limit == GetLimit(tier, c.path)
             pc == CASE Sheds(tier) -> "answered"
                     [] ~Sheds(tier) /\ limit = None -> "serve"
                     [] OTHER -> "limit"
             n == [q EXCEPT !.path = c.path, !.tier = tier, !.limit = limit, !.pc = pc]
  <2>1. c.path \in Path /\ limit \in Limit \cup {None}
    BY GatewayAssumption, GetLimitType
  <2>2. tier \in {Empty, "Free", "Pro", "Enterprise"}
    BY TierType
  <2>3. (tier = Empty) = (c.path = "/metrics")
    BY TierType, EmptyDiffers
  <2>4. pc \in {"serve", "limit", "answered"}
    BY DEF Sheds, currentLoad
  <2>5. req' = [req EXCEPT ![r] = n] /\ q.pc = "new"
    BY <1>0, <1>6 DEF Enter, At
  <2>6. q.shown = <<>>
    BY <1>0, <2>5 DEF Fits
  <2> HIDE DEF tier, limit, pc
  <2>7. n \in RequestState
    BY <1>0, <2>1, <2>2, <2>4, Zenon DEF RequestState, RequestPC
  <2>8. n.pc = pc /\ n.shown = <<>> /\ n.tier = tier /\ n.path = c.path
    BY <1>0, <2>6 DEF RequestState
  <2>9. Fits(n)
    <3> HIDE DEF n
    <3>1. n.pc \in {"serve", "limit", "answered"}
      BY <2>4, <2>8
    <3>2. (n.tier = Empty) = (n.path = "/metrics")
      BY <2>3, <2>8
    <3>3. Len(n.shown) <= 4
      BY <1>a, <2>8
    <3>4. n.pc \notin {"stats", "count", "seed", "list", "label"}
      BY <3>1
    <3> QED
      BY <2>8, <3>2, <3>3, <3>4, Zenon DEF Fits
  <2> QED
    BY <2>5, <2>7, <2>9, Zenon
<1>7. CASE RateLimit(r)
  <2>1. q.pc \notin {"new", "done"} /\ q.shown = <<>>
    BY <1>0, <1>7 DEF RateLimit, At, Fits
  <2>2. CASE Goto(r, "serve")
    BY <1>2, <1>4, <1>b, <2>1, <2>2, Zenon
  <2>3. CASE Answer(r, "429") \/ Answer(r, "other")
    BY <1>2, <1>3, <2>1, <2>3 DEF Status
  <2> QED
    BY <1>7, <2>2, <2>3 DEF RateLimit
<1>8. CASE Serve(r)
  <2>1. q.pc \notin {"new", "done"} /\ q.shown = <<>>
    BY <1>0, <1>8 DEF Serve, GetOnly, Proxied, At, Fits
  <2>2. CASE Goto(r, "stats") /\ q.path = "/v1/stats"
    BY <1>2, <1>4, <1>b, <2>1, <2>2, Zenon
  <2>3. CASE Goto(r, "count") /\ q.path = "/v1/admin/keys"
    BY <1>2, <1>4, <1>b, <2>1, <2>3, Zenon
  <2>4. CASE \E s \in Status : Answer(r, s)
    BY <1>2, <1>3, <2>1, <2>4, Zenon
  <2> QED
    BY <1>8, <2>2, <2>3, <2>4 DEF Serve, GetOnly, Proxied, Status
<1>9. CASE CountHit(r)
  <2>1. q.pc = "answered"
    BY <1>9 DEF CountHit, At
  <2>2. CASE Goto(r, "label") /\ ~IsControlPath(q.path)
    BY <1>2, <1>4, <1>b, <2>1, <2>2, Zenon
  <2> QED
    BY <1>1, <1>9, <2>2 DEF CountHit
<1>10. CASE Stats(r)
  <2> DEFINE n == [q EXCEPT !.shown = Loaded(q.shown),
                            !.pc = IF Len(q.shown) < 3 THEN q.pc ELSE "answered"]
  <2>1. q.pc = "stats" /\ req' = [req EXCEPT ![r] = n]
    BY <1>0, <1>10, Zenon DEF Stats, At, RequestState
  <2>2. q.path = "/v1/stats" /\ Len(q.shown) < 4 /\ q.tier # Empty
    BY <1>0, <2>1 DEF Fits
  <2>3. q.shown \in Seq(Nat) /\ Len(q.shown) \in Nat
    BY <1>0 DEF RequestState
  <2>4. Loaded(q.shown) \in Seq(Nat) /\ Len(Loaded(q.shown)) = Len(q.shown) + 1
    BY <2>3 DEF Loaded, TypeOK
  <2>5. n \in RequestState
    BY <1>0, <2>1, <2>4, Zenon DEF RequestState, RequestPC
  <2>6. /\ n.shown = Loaded(q.shown) /\ n.tier = q.tier /\ n.path = q.path
        /\ n.pc = IF Len(q.shown) < 3 THEN "stats" ELSE "answered"
    BY <1>0, <2>1 DEF RequestState
  <2>7. Fits(n)
    <3> HIDE DEF n
    <3>1. n.pc = "stats" => n.path = "/v1/stats" /\ Len(n.shown) < 4
      BY <2>2, <2>3, <2>4, <2>6
    <3>2. n.pc \in {"stats", "answered"}
      BY <2>6
    <3>3. n.pc \notin {"new", "limit", "serve", "count", "seed", "list", "label", "done"}
      BY <3>2
    <3>4. n.tier # Empty /\ n.path # "/metrics"
      BY <2>2, <2>6
    <3>5. Len(n.shown) <= 4
      BY <2>2, <2>3, <2>4, <2>6
    <3> QED
      BY <3>1, <3>3, <3>4, <3>5 DEF Fits
  <2> QED
    BY <2>1, <2>5, <2>7, Zenon
<1>11. CASE CountKeys(r) \/ SeedKeys(r)
  <2>1. q.pc \in {"count", "seed"}
    BY <1>11 DEF CountKeys, SeedKeys, At
  <2>2. q.path = "/v1/admin/keys" /\ q.shown = <<>> /\ q.tier # Empty
    BY <1>0, <2>1 DEF Fits
  <2>3. PICK pc \in {"list", "seed"}, b \in BOOLEAN :
           req' = [req EXCEPT ![r] = [q EXCEPT !.pc = pc, !.failed = b]]
    <3>1. CASE CountKeys(r)
      <4>1. PICK ok \in BOOLEAN :
               req' = [req EXCEPT ![r].pc = IF ok /\ Rows > 0 THEN "list" ELSE "seed",
                                  ![r].failed = ~ok]
        BY <3>1, Zenon DEF CountKeys
      <4>2. (IF ok /\ Rows > 0 THEN "list" ELSE "seed") \in {"list", "seed"} /\ (~ok) \in BOOLEAN
        OBVIOUS
      <4>3. req' = [req EXCEPT ![r] = [q EXCEPT !.pc = IF ok /\ Rows > 0 THEN "list" ELSE "seed",
                                                !.failed = ~ok]]
        BY <1>0, <4>1, Zenon
      <4> QED
        BY <4>2, <4>3, Zenon
    <3>2. CASE SeedKeys(r)
      <4>1. PICK ok \in BOOLEAN :
               req' = [req EXCEPT ![r].pc = "list", ![r].failed = @ \/ ~ok]
        BY <3>2, Zenon DEF SeedKeys
      <4>2. req' = [req EXCEPT ![r] = [q EXCEPT !.pc = "list", !.failed = q.failed \/ ~ok]]
        BY <1>0, <4>1, Zenon DEF RequestState
      <4> QED
        BY <4>2, Zenon
    <3> QED
      BY <1>11, <3>1, <3>2, Zenon
  <2> DEFINE n == [q EXCEPT !.pc = pc, !.failed = b]
  <2>4. n \in RequestState
    BY <1>0, Zenon DEF RequestState, RequestPC
  <2>5. n.pc = pc /\ n.shown = <<>> /\ n.tier # Empty /\ n.path = "/v1/admin/keys"
    BY <1>0, <2>2 DEF RequestState
  <2>6. Fits(n)
    <3> HIDE DEF n
    <3>1. Len(n.shown) <= 4
      BY <1>a, <2>5
    <3> QED
      BY <2>5, <3>1 DEF Fits
  <2> QED
    BY <2>3, <2>4, <2>6, Zenon
<1>12. CASE ListKeys(r)
  <2>1. PICK s \in {<<Rows>>, <<>>} :
           req' = [req EXCEPT ![r] = [q EXCEPT !.pc = "answered", !.shown = s]]
    BY <1>0, <1>12, Zenon DEF ListKeys
  <2>2. Rows \in Nat
    BY DEF TypeOK, Rows, Seed
  <2>3. s \in Seq(Nat) /\ Len(s) <= 4
    <3>1. <<Rows>> \in Seq(Nat) /\ Len(<<Rows>>) = 1
      BY <2>2
    <3>2. CASE s = <<Rows>>
      BY <3>1, <3>2
    <3>3. CASE s = <<>>
      BY <1>a, <3>3
    <3> QED
      BY <3>2, <3>3
  <2>4. q.pc = "list"
    BY <1>12 DEF ListKeys, At
  <2>5. q.path = "/v1/admin/keys" /\ q.tier # Empty
    BY <1>0, <2>4 DEF Fits
  <2> DEFINE n == [q EXCEPT !.pc = "answered", !.shown = s]
  <2>6. n \in RequestState
    BY <1>0, <2>3, Zenon DEF RequestState, RequestPC
  <2>7. n.pc = "answered" /\ n.shown = s /\ n.tier # Empty /\ n.path = "/v1/admin/keys"
    BY <1>0, <2>5 DEF RequestState
  <2>8. Fits(n)
    <3> HIDE DEF n
    <3> QED
      BY <2>3, <2>7 DEF Fits
  <2> QED
    BY <2>1, <2>6, <2>8, Zenon
<1> QED
  BY <1>5, <1>6, <1>7, <1>8, <1>9, <1>10, <1>11, <1>12 DEF Step

-----------------------------------------------------------------------------
\* What a step of one request leaves alone: the policy, the server, and every
\* other request.
LEMMA StepFrame ==
    ASSUME TypeOK, OnItsWay, NEW r \in Request, Step(r)
    PROVE  /\ policy' = policy /\ server' = server /\ server \in {"serving", "draining"}
           /\ req' \in [Request -> RequestState] /\ Fits(req'[r])
           /\ \A o \in Request : o # r => req'[o] = req[o]
<1>1. policy' = policy /\ server' = server /\ server \in {"serving", "draining"}
  BY Zenon DEF Step, AnswerEarly, Enter, RateLimit, Serve, ProxyAborts, CountHit, Label, Stats,
         CountKeys, SeedKeys, ListKeys, At, Running
<1>2. PICK q \in RequestState : Fits(q) /\ req' = [req EXCEPT ![r] = q]
  BY RequestStep
<1>3. req \in [Request -> RequestState]
  BY DEF TypeOK
<1>4. req' \in [Request -> RequestState] /\ req'[r] = q
  BY <1>2, <1>3
<1>5. \A o \in Request : o # r => req'[o] = req[o]
  BY <1>2, <1>3
<1> QED
  BY <1>1, <1>2, <1>4, <1>5

\* The steps after Enter that keep a request in its handlers: path, tier and
\* limit stay, and neither side of the step is one of the two counts.
LEMMA Handled ==
    ASSUME TypeOK, NEW r \in Request,
           RateLimit(r) \/ Serve(r) \/ Stats(r) \/ CountKeys(r) \/ SeedKeys(r) \/ ListKeys(r)
    PROVE  /\ req'[r].path = req[r].path /\ req'[r].tier = req[r].tier
           /\ req'[r].limit = req[r].limit
           /\ req[r].pc \notin {"new", "label", "done"}
           /\ req'[r].pc \notin {"new", "label", "done"}
           /\ UNCHANGED <<total, hits, labelled, aborted>>
<1> DEFINE Kept == /\ req'[r].path = req[r].path /\ req'[r].tier = req[r].tier
                   /\ req'[r].limit = req[r].limit
<1>0. req \in [Request -> RequestState] /\ req[r] \in RequestState
  BY DEF TypeOK
<1>1. ASSUME NEW pc, Goto(r, pc) PROVE Kept /\ req'[r].pc = pc
  BY <1>0, <1>1 DEF Goto, RequestState
<1>2. ASSUME NEW s, Answer(r, s) PROVE Kept /\ req'[r].pc = "answered"
  BY <1>0, <1>2 DEF Answer, RequestState
<1>3. UNCHANGED <<total, hits, labelled, aborted>>
  BY DEF RateLimit, Serve, Stats, CountKeys, SeedKeys, ListKeys
<1>4. req[r].pc \in {"limit", "serve", "stats", "count", "seed", "list"}
  BY DEF RateLimit, Serve, Stats, CountKeys, SeedKeys, ListKeys, At
<1>5. CASE RateLimit(r)
  BY <1>1, <1>2, <1>3, <1>4, <1>5 DEF RateLimit
<1>6. CASE Serve(r)
  <2>1. \/ Goto(r, "stats") \/ Goto(r, "count")
        \/ \E s \in Status : Answer(r, s)
    BY <1>6 DEF Serve, GetOnly, Proxied, Status
  <2> QED
    BY <1>1, <1>2, <1>3, <1>4, <2>1
<1>7. CASE Stats(r)
  <2>1. Kept
    BY <1>0, <1>7 DEF Stats, RequestState
  <2>2. req'[r].pc \in {req[r].pc, "answered"}
    BY <1>0, <1>7 DEF Stats, RequestState
  <2> QED
    BY <1>3, <1>4, <2>1, <2>2
<1>8. CASE CountKeys(r)
  <2>0. PICK ok \in BOOLEAN :
           req' = [req EXCEPT ![r].pc = IF ok /\ Rows > 0 THEN "list" ELSE "seed",
                              ![r].failed = ~ok]
    BY <1>8, Zenon DEF CountKeys
  <2>1. Kept /\ req'[r].pc \in {"list", "seed"}
    BY <1>0, <2>0 DEF RequestState
  <2> QED
    BY <1>3, <1>4, <2>1
<1>9. CASE SeedKeys(r)
  <2>0. PICK ok \in BOOLEAN : req' = [req EXCEPT ![r].pc = "list", ![r].failed = @ \/ ~ok]
    BY <1>9, Zenon DEF SeedKeys
  <2>1. Kept /\ req'[r].pc = "list"
    BY <1>0, <2>0 DEF RequestState
  <2> QED
    BY <1>3, <1>4, <2>1
<1>10. CASE ListKeys(r)
  <2>0. PICK ok \in BOOLEAN :
           req' = [req EXCEPT ![r].pc = "answered", ![r].shown = IF ok THEN <<Rows>> ELSE <<>>]
    BY <1>10, Zenon DEF ListKeys
  <2>1. Kept /\ req'[r].pc = "answered"
    BY <1>0, <2>0 DEF RequestState
  <2> QED
    BY <1>3, <1>4, <2>1
<1> QED
  BY <1>5, <1>6, <1>7, <1>8, <1>9, <1>10

\* A request that ends is as if it had not been there.
LEMMA Ended ==
    ASSUME TypeOK, NEW r \in Request, Done(r)
    PROVE  /\ req'[r].pc = "done" /\ req'[r].path = "/healthz"
           /\ req'[r].shown = <<>>
BY DEF TypeOK, Done, NewRequest

\* What Enter gives a request.
LEMMA Entered ==
    ASSUME TypeOK, NEW r \in Request, NEW c \in Call, Enter(r, c.path, c.key)
    PROVE  /\ req[r].pc = "new" /\ req'[r].pc \in {"serve", "limit", "answered"}
           /\ req'[r].path = c.path /\ req'[r].shown = req[r].shown
           /\ req'[r].limit = GetLimit(req'[r].tier, req'[r].path)
           /\ total' = IF IsControlPath(c.path) THEN total ELSE total + 1
           /\ UNCHANGED <<hits, labelled, aborted>>
<1>0. req \in [Request -> RequestState] /\ req[r] \in RequestState
  BY DEF TypeOK
<1> DEFINE tier == IF c.path = "/metrics" THEN Empty ELSE Tier(c.key)
           limit == GetLimit(tier, c.path)
           pc == CASE Sheds(tier) -> "answered"
                   [] ~Sheds(tier) /\ limit = None -> "serve"
                   [] OTHER -> "limit"
<1>1. pc \in {"serve", "limit", "answered"}
  BY DEF Sheds, currentLoad
<1>2. /\ req' = [req EXCEPT ![r] = [@ EXCEPT !.path = c.path, !.tier = tier,
                                             !.limit = limit, !.pc = pc]]
      /\ req[r].pc = "new"
      /\ total' = IF IsControlPath(c.path) THEN total ELSE total + 1
      /\ UNCHANGED <<hits, labelled, aborted>>
  BY DEF Enter, At
<1> HIDE DEF pc, tier
<1>3. /\ req'[r].path = c.path /\ req'[r].tier = tier /\ req'[r].limit = limit
      /\ req'[r].pc = pc /\ req'[r].shown = req[r].shown
  BY <1>0, <1>2 DEF RequestState
<1> QED
  BY <1>1, <1>2, <1>3

-----------------------------------------------------------------------------
(* The types, and what a request has on its way.                           *)

\* Everything that TypeOK says and OnItsWay does not.
LEMMA TypeFromFits ==
    ASSUME policy \in Policy, req \in [Request -> RequestState], OnItsWay,
           total \in Nat /\ hits \in Nat /\ aborted \in Nat,
           labelled \in [Status -> Nat], apiKeys \in [Seed -> Nat],
           server \in {"serving", "draining", "stopped", "cut"}, faults \in 0 .. MaxFaults
    PROVE  TypeOK
<1>1. \A r \in Request : Len(req[r].shown) <= 4
  BY DEF OnItsWay, Fits
<1>2. \A r \in Active : (req[r].tier = Empty) = (req[r].path = "/metrics")
  BY Zenon DEF OnItsWay, Fits, Active
<1> QED
  BY <1>1, <1>2 DEF TypeOK

\* All requests new.
LEMMA AllNew ==
    LET new == [r \in Request |-> NewRequest]
    IN  new \in [Request -> RequestState] /\ \A r \in Request : Fits(new[r])
<1>1. <<>> \in Seq(Nat) /\ Len(<<>>) = 0
  OBVIOUS
<1>2. NewRequest \in RequestState
  BY <1>1 DEF NewRequest, RequestState, RequestPC, Path, Status
<1>3. Fits(NewRequest)
  BY <1>1 DEF NewRequest, Fits
<1> QED
  BY <1>2, <1>3

\* The first state has the types.
LEMMA TypeInit == Init => TypeOK /\ OnItsWay
<1> SUFFICES ASSUME Init PROVE TypeOK /\ OnItsWay
  OBVIOUS
<1>1. req \in [Request -> RequestState] /\ OnItsWay
  BY AllNew DEF Init, OnItsWay
<1>2. 0 \in 0 .. MaxFaults
  BY GatewayAssumption
<1>3. labelled \in [Status -> Nat] /\ apiKeys \in [Seed -> Nat]
  BY DEF Init
<1> QED
  BY <1>1, <1>2, <1>3, TypeFromFits DEF Init

\* The counters and the rows of the keys stay numbers.
LEMMA CounterTypes ==
    ASSUME TypeOK, NEW r \in Request, Step(r)
    PROVE  /\ total' \in Nat /\ hits' \in Nat /\ aborted' \in Nat
           /\ labelled' \in [Status -> Nat] /\ apiKeys' \in [Seed -> Nat]
           /\ faults' \in 0 .. MaxFaults
<1> DEFINE Types == /\ total' \in Nat /\ hits' \in Nat /\ aborted' \in Nat
                    /\ labelled' \in [Status -> Nat] /\ apiKeys' \in [Seed -> Nat]
                    /\ faults' \in 0 .. MaxFaults
<1>0. /\ total \in Nat /\ hits \in Nat /\ aborted \in Nat
      /\ labelled \in [Status -> Nat] /\ apiKeys \in [Seed -> Nat]
      /\ faults \in 0 .. MaxFaults /\ MaxFaults \in Nat
  BY GatewayAssumption DEF TypeOK
<1>1. CASE AnswerEarly(r) \/ RateLimit(r) \/ Serve(r) \/ Stats(r)
  BY <1>0, <1>1 DEF AnswerEarly, RateLimit, Serve, Stats
<1>2. ASSUME NEW c \in Call, Enter(r, c.path, c.key) PROVE Types
  <2>1. total' \in Nat /\ UNCHANGED <<hits, labelled, apiKeys, faults, aborted>>
    BY <1>0, <1>2 DEF Enter
  <2> QED
    BY <1>0, <2>1
<1>3. CASE ProxyAborts(r)
  BY <1>0, <1>3 DEF ProxyAborts
<1>4. CASE CountHit(r)
  <2>1. hits' \in Nat /\ UNCHANGED <<total, labelled, apiKeys, faults, aborted>>
    BY <1>0, <1>4 DEF CountHit
  <2> QED
    BY <1>0, <2>1
<1>5. CASE Label(r)
  <2>1. req[r].status \in Status
    BY DEF TypeOK, RequestState
  <2> QED
    BY <1>0, <1>5, <2>1 DEF Label
<1>6. ASSUME NEW ok \in BOOLEAN, Query(r, ok) PROVE faults' \in 0 .. MaxFaults
  BY <1>0, <1>6 DEF Query
<1>7. CASE CountKeys(r) \/ ListKeys(r)
  <2>1. UNCHANGED <<total, hits, labelled, apiKeys, aborted>> /\ \E ok \in BOOLEAN : Query(r, ok)
    BY <1>7, Zenon DEF CountKeys, ListKeys
  <2> QED
    BY <1>0, <1>6, <2>1
<1>8. CASE SeedKeys(r)
  <2>1. PICK ok \in BOOLEAN : Query(r, ok) /\ apiKeys' = IF ok THEN Inserted ELSE apiKeys
    BY <1>8 DEF SeedKeys
  <2>2. Inserted \in [Seed -> Nat]
    BY <1>0 DEF Inserted
  <2>3. UNCHANGED <<total, hits, labelled, aborted>>
    BY <1>8 DEF SeedKeys
  <2> QED
    BY <1>0, <1>6, <2>1, <2>2, <2>3
<1> QED
  BY <1>1, <1>2, <1>3, <1>4, <1>5, <1>7, <1>8 DEF Step

\* Every step keeps them.
LEMMA TypeStep == TypeOK /\ OnItsWay /\ [Next]_vars => TypeOK' /\ OnItsWay'
<1> SUFFICES ASSUME TypeOK, OnItsWay, [Next]_vars PROVE TypeOK' /\ OnItsWay'
  OBVIOUS
<1>1. ASSUME NEW r \in Request, Step(r) PROVE TypeOK' /\ OnItsWay'
  <2>1. OnItsWay'
    BY <1>1, StepFrame DEF OnItsWay
  <2>2. policy' \in Policy /\ server' \in {"serving", "draining", "stopped", "cut"}
    BY <1>1, StepFrame DEF TypeOK
  <2>3. req' \in [Request -> RequestState]
    BY <1>1, StepFrame
  <2>4. TypeOK'
    <3>1. \A o \in Request : Len(req'[o].shown) <= 4
      BY <2>1 DEF OnItsWay, Fits
    <3>2. \A o \in Active' : (req'[o].tier = Empty) = (req'[o].path = "/metrics")
      BY <2>1, Zenon DEF OnItsWay, Fits, Active
    <3> QED
      BY <1>1, <2>2, <2>3, <3>1, <3>2, CounterTypes DEF TypeOK
  <2> QED
    BY <2>1, <2>4
<1>2. CASE Signal \/ Drained
  BY <1>2 DEF Signal, Drained, TypeOK, OnItsWay, Active
<1>3. CASE Deadline
  <2>1. req' \in [Request -> RequestState] /\ OnItsWay'
    BY <1>3, AllNew DEF Deadline, OnItsWay
  <2>2. labelled' \in [Status -> Nat]
    BY <1>3 DEF Deadline
  <2>3. \A o \in Request : Len(req'[o].shown) <= 4
    BY <2>1 DEF OnItsWay, Fits
  <2>4. \A o \in Active' : (req'[o].tier = Empty) = (req'[o].path = "/metrics")
    BY <2>1, Zenon DEF OnItsWay, Fits, Active
  <2> QED
    BY <1>3, <2>1, <2>2, <2>3, <2>4 DEF Deadline, TypeOK
<1>4. CASE UNCHANGED vars
  BY <1>4 DEF vars, TypeOK, OnItsWay, Active
<1> QED
  BY <1>1, <1>2, <1>3, <1>4 DEF Next

-----------------------------------------------------------------------------
(* metricsMiddleware's counters.                                           *)

\* metricsMiddleware has counted the request and has not labelled it.
Owed(q) == q.pc \notin {"new", "done"} /\ ~IsControlPath(q.path)

Refused(q) == Owed(q) /\ q.pc = "label" /\ q.status = "429"

\* One request changes: how many are counted and not labelled, and how many of
\* those are rejections.
LEMMA OwedCount ==
    ASSUME NEW r \in Request, TypeOK,
           \A o \in Request : o # r => req'[o] = req[o]
    PROVE  /\ Cardinality(Unlabelled) \in Nat /\ Cardinality(Rejected) \in Nat
           /\ Cardinality(Unlabelled') =
                IF Owed(req'[r]) <=> Owed(req[r]) THEN Cardinality(Unlabelled)
                ELSE IF Owed(req'[r]) THEN Cardinality(Unlabelled) + 1
                ELSE Cardinality(Unlabelled) - 1
           /\ Cardinality(Rejected') =
                IF Refused(req'[r]) <=> Refused(req[r]) THEN Cardinality(Rejected)
                ELSE IF Refused(req'[r]) THEN Cardinality(Rejected) + 1
                ELSE Cardinality(Rejected) - 1
<1>1. /\ Unlabelled = {o \in Request : Owed(req[o])}
      /\ Unlabelled' = {o \in Request : Owed(req'[o])}
      /\ Rejected = {o \in Request : Refused(req[o])}
      /\ Rejected' = {o \in Request : Refused(req'[o])}
  BY DEF Unlabelled, Rejected, Active, Owed, Refused
<1>2. ASSUME NEW S \in SUBSET Request, NEW T \in SUBSET Request,
             \A o \in Request : o # r => (o \in T <=> o \in S)
      PROVE  /\ Cardinality(S) \in Nat
             /\ (r \in T <=> r \in S) => Cardinality(T) = Cardinality(S)
             /\ r \in T /\ r \notin S => Cardinality(T) = Cardinality(S) + 1
             /\ r \notin T /\ r \in S => Cardinality(T) = Cardinality(S) - 1
  <2>1. IsFiniteSet(S) /\ Cardinality(S) \in Nat
    BY GatewayAssumption, FS_Subset, FS_CardinalityType
  <2>2. CASE r \in T <=> r \in S
    <3>1. T = S
      BY <1>2, <2>2
    <3> QED
      BY <2>1, <2>2, <3>1
  <2>3. CASE r \in T /\ r \notin S
    <3>1. T = S \cup {r}
      BY <1>2, <2>3
    <3> QED
      BY <2>1, <2>3, <3>1, FS_AddElement, Zenon
  <2>4. CASE r \notin T /\ r \in S
    <3>1. T = S \ {r}
      BY <1>2, <2>4
    <3> QED
      BY <2>1, <2>4, <3>1, FS_RemoveElement, Zenon
  <2> QED
    BY <2>1, <2>2, <2>3, <2>4
<1> DEFINE U == Unlabelled
           V == {o \in Request : Owed(req'[o])}
           W == Rejected
           X == {o \in Request : Refused(req'[o])}
<1>3. /\ U \in SUBSET Request /\ V \in SUBSET Request
      /\ \A o \in Request : o # r => (o \in V <=> o \in U)
      /\ r \in U <=> Owed(req[r])
      /\ r \in V <=> Owed(req'[r])
  BY <1>1
<1>4. /\ W \in SUBSET Request /\ X \in SUBSET Request
      /\ \A o \in Request : o # r => (o \in X <=> o \in W)
      /\ r \in W <=> Refused(req[r])
      /\ r \in X <=> Refused(req'[r])
  BY <1>1
<1>5. V = Unlabelled' /\ X = Rejected'
  BY <1>1
<1> HIDE DEF U, V, W, X
<1>6. /\ Cardinality(U) \in Nat
      /\ Cardinality(V) = IF Owed(req'[r]) <=> Owed(req[r]) THEN Cardinality(U)
                          ELSE IF Owed(req'[r]) THEN Cardinality(U) + 1
                          ELSE Cardinality(U) - 1
  BY <1>2, <1>3
<1>7. /\ Cardinality(W) \in Nat
      /\ Cardinality(X) = IF Refused(req'[r]) <=> Refused(req[r]) THEN Cardinality(W)
                          ELSE IF Refused(req'[r]) THEN Cardinality(W) + 1
                          ELSE Cardinality(W) - 1
  BY <1>2, <1>4
<1> QED
  BY <1>5, <1>6, <1>7 DEF U, W

\* Every step of a request keeps the two counts of metricsMiddleware in step.
LEMMA CountersRequest ==
    ASSUME TypeOK, OnItsWay, CountersConserved, NEW r \in Request, Step(r)
    PROVE  CountersConserved'
<1> DEFINE U == Cardinality(Unlabelled)
           V == Cardinality(Unlabelled')
           W == Cardinality(Rejected)
           X == Cardinality(Rejected')
           Owes == Owed(req[r])
           OwesNow == Owed(req'[r])
           Refuse == Refused(req[r])
           RefuseNow == Refused(req'[r])
<1>1. /\ U \in Nat /\ W \in Nat
      /\ V = IF OwesNow <=> Owes THEN U ELSE IF OwesNow THEN U + 1 ELSE U - 1
      /\ X = IF RefuseNow <=> Refuse THEN W ELSE IF RefuseNow THEN W + 1 ELSE W - 1
  BY StepFrame, OwedCount
<1>2. /\ total = labelled["429"] + labelled["other"] + U + aborted
      /\ hits = labelled["429"] + W
  BY DEF CountersConserved, Labels, Rejected
<1>3. /\ total \in Nat /\ hits \in Nat /\ aborted \in Nat
      /\ labelled \in [Status -> Nat] /\ labelled["429"] \in Nat /\ labelled["other"] \in Nat
  BY DEF TypeOK, Status
<1>4. /\ req[r].status \in Status
      /\ server' # "stopped"
  BY StepFrame DEF TypeOK, RequestState
<1>5. SUFFICES /\ total' = labelled'["429"] + labelled'["other"] + V + aborted'
               /\ hits' = labelled'["429"] + X
  BY <1>4 DEF CountersConserved, Labels, Rejected
<1> HIDE DEF U, V, W, X
<1>6. ASSUME Done(r) PROVE ~OwesNow /\ ~RefuseNow
  BY <1>6, Ended DEF Owed, Refused
<1>7. CASE AnswerEarly(r)
  <2>1. ~Owes /\ ~Refuse
    BY <1>7 DEF AnswerEarly, At, Owed, Refused
  <2>2. ~OwesNow /\ ~RefuseNow
    BY <1>6, <1>7 DEF AnswerEarly
  <2>3. UNCHANGED <<total, hits, labelled, aborted>>
    BY <1>7 DEF AnswerEarly
  <2> HIDE DEF Owes, OwesNow, Refuse, RefuseNow
  <2> QED
    BY <1>1, <1>2, <2>1, <2>2, <2>3
<1>8. ASSUME NEW c \in Call, Enter(r, c.path, c.key)
      PROVE  /\ total' = labelled'["429"] + labelled'["other"] + V + aborted'
             /\ hits' = labelled'["429"] + X
  <2>1. ~Owes /\ ~Refuse /\ ~RefuseNow /\ (OwesNow <=> ~IsControlPath(c.path))
    BY <1>8, Entered DEF Owed, Refused
  <2>2. /\ total' = IF IsControlPath(c.path) THEN total ELSE total + 1
        /\ UNCHANGED <<hits, labelled, aborted>>
    BY <1>8, Entered
  <2> HIDE DEF Owes, OwesNow, Refuse, RefuseNow
  <2> QED
    BY <1>1, <1>2, <1>3, <2>1, <2>2
<1>9. CASE RateLimit(r) \/ Serve(r) \/ Stats(r) \/ CountKeys(r) \/ SeedKeys(r) \/ ListKeys(r)
  <2>1. (OwesNow <=> Owes) /\ ~Refuse /\ ~RefuseNow
    BY <1>9, Handled DEF Owed, Refused
  <2>2. UNCHANGED <<total, hits, labelled, aborted>>
    BY <1>9, Handled
  <2> HIDE DEF Owes, OwesNow, Refuse, RefuseNow
  <2> QED
    BY <1>1, <1>2, <2>1, <2>2
<1>10. CASE ProxyAborts(r)
  <2>1. Owes /\ ~Refuse
    BY <1>10 DEF ProxyAborts, At, Owed, Refused, IsControlPath
  <2>2. ~OwesNow /\ ~RefuseNow
    BY <1>6, <1>10 DEF ProxyAborts
  <2>3. aborted' = aborted + 1 /\ UNCHANGED <<total, hits, labelled>>
    BY <1>10 DEF ProxyAborts
  <2> HIDE DEF Owes, OwesNow, Refuse, RefuseNow
  <2> QED
    BY <1>1, <1>2, <1>3, <2>1, <2>2, <2>3
<1>11. CASE CountHit(r)
  <2>1. UNCHANGED <<total, labelled, aborted>> /\ req[r].pc = "answered"
    BY <1>11 DEF CountHit, At
  <2>2. CASE IsControlPath(req[r].path)
    <3>1. ~Owes /\ ~Refuse /\ hits' = hits
      BY <1>11, <2>2 DEF CountHit, Owed, Refused
    <3>2. ~OwesNow /\ ~RefuseNow
      BY <1>6, <1>11, <2>2 DEF CountHit
    <3> HIDE DEF Owes, OwesNow, Refuse, RefuseNow
    <3> QED
      BY <1>1, <1>2, <2>1, <3>1, <3>2
  <2>3. CASE ~IsControlPath(req[r].path)
    <3>1. /\ req'[r].pc = "label" /\ req'[r].path = req[r].path
          /\ req'[r].status = req[r].status
      <4>1. Goto(r, "label")
        BY <1>11, <2>3 DEF CountHit
      <4>2. req \in [Request -> RequestState] /\ req[r] \in RequestState
        BY DEF TypeOK
      <4> QED
        BY <4>1, <4>2 DEF Goto, RequestState
    <3>2. Owes /\ ~Refuse /\ OwesNow /\ (RefuseNow <=> req[r].status = "429")
      BY <2>1, <2>3, <3>1, Zenon DEF Owed, Refused
    <3>3. hits' = IF req[r].status = "429" THEN hits + 1 ELSE hits
      BY <1>11, <2>3 DEF CountHit
    <3> HIDE DEF Owes, OwesNow, Refuse, RefuseNow
    <3>4. V = U /\ X = IF req[r].status = "429" THEN W + 1 ELSE W
      BY <1>1, <3>2
    <3>5. CASE req[r].status = "429"
      <4>1. hits' = hits + 1 /\ X = W + 1
        BY <3>3, <3>4, <3>5
      <4> QED
        BY <1>1, <1>2, <1>3, <2>1, <3>4, <4>1
    <3>6. CASE req[r].status # "429"
      <4>1. hits' = hits /\ X = W
        BY <3>3, <3>4, <3>6
      <4> QED
        BY <1>1, <1>2, <1>3, <2>1, <3>4, <4>1
    <3> QED
      BY <3>5, <3>6
  <2> QED
    BY <2>2, <2>3
<1>12. CASE Label(r)
  <2>1. req[r].pc = "label" /\ ~IsControlPath(req[r].path)
    BY <1>12 DEF Label, At, OnItsWay, Fits
  <2>2. Owes /\ (Refuse <=> req[r].status = "429")
    BY <2>1 DEF Owed, Refused
  <2>3. ~OwesNow /\ ~RefuseNow
    BY <1>6, <1>12 DEF Label
  <2>4. UNCHANGED <<total, hits, aborted>>
    BY <1>12 DEF Label
  <2>5. labelled' = [labelled EXCEPT ![req[r].status] = @ + 1]
    BY <1>12 DEF Label
  <2> HIDE DEF Owes, OwesNow, Refuse, RefuseNow
  <2>6. CASE req[r].status = "429"
    <3>1. labelled'["429"] = labelled["429"] + 1 /\ labelled'["other"] = labelled["other"]
      BY <1>3, <2>5, <2>6 DEF Status
    <3> QED
      BY <1>1, <1>2, <1>3, <2>2, <2>3, <2>4, <2>6, <3>1
  <2>7. CASE req[r].status = "other"
    <3>1. labelled'["429"] = labelled["429"] /\ labelled'["other"] = labelled["other"] + 1
      BY <1>3, <2>5, <2>7 DEF Status
    <3> QED
      BY <1>1, <1>2, <1>3, <2>2, <2>3, <2>4, <2>7, <3>1
  <2> QED
    BY <1>4, <2>6, <2>7 DEF Status
<1> QED
  BY <1>7, <1>8, <1>9, <1>10, <1>11, <1>12 DEF Step

\* No request in progress is none counted and not labelled.
LEMMA IdleOwesNothing ==
    Active = {} => Cardinality(Unlabelled) = 0 /\ Cardinality(Rejected) = 0
<1> SUFFICES ASSUME Active = {} PROVE Cardinality(Unlabelled) = 0 /\ Cardinality(Rejected) = 0
  OBVIOUS
<1>1. Unlabelled = {} /\ Rejected = {}
  BY DEF Unlabelled, Rejected
<1> QED
  BY <1>1, FS_EmptySet

\* At first nothing is counted.
LEMMA CountersInit == Init => CountersConserved
<1> SUFFICES ASSUME Init PROVE CountersConserved
  OBVIOUS
<1>1. Active = {}
  BY DEF Init, Active, NewRequest
<1>2. labelled["429"] = 0 /\ labelled["other"] = 0
  BY DEF Init, Status
<1>3. Cardinality(Unlabelled) = 0 /\ Cardinality(Rejected) = 0
  BY <1>1, IdleOwesNothing
<1> QED
  BY <1>2, <1>3 DEF Init, CountersConserved, Labels, Rejected

\* Every step keeps the counters in step.
LEMMA CountersStep ==
    TypeOK /\ OnItsWay /\ CountersConserved /\ [Next]_vars => CountersConserved'
<1> SUFFICES ASSUME TypeOK, OnItsWay, CountersConserved, [Next]_vars PROVE CountersConserved'
  OBVIOUS
<1>1. CASE \E r \in Request : Step(r)
  BY <1>1, CountersRequest
<1>2. ASSUME req' = req PROVE Unlabelled' = Unlabelled /\ Rejected' = Rejected
  BY <1>2 DEF Unlabelled, Rejected, Active
<1>3. CASE Signal \/ UNCHANGED vars
  BY <1>2, <1>3, Zenon DEF Signal, vars, CountersConserved, Labels, Rejected
<1>4. CASE Drained
  <2>1. total = Labels + aborted
    <3>1. Cardinality(Unlabelled) = 0
      BY <1>4, IdleOwesNothing DEF Drained
    <3>2. Labels \in Nat /\ aborted \in Nat
      BY DEF TypeOK, Labels, Status
    <3> QED
      BY <3>1, <3>2 DEF CountersConserved
  <2>2. UNCHANGED <<req, total, hits, labelled, aborted>>
    BY <1>4 DEF Drained
  <2> QED
    BY <1>2, <2>1, <2>2 DEF CountersConserved, Labels, Rejected
<1>5. CASE Deadline
  <2>1. Unlabelled' = {} /\ Rejected' = {}
    BY <1>5 DEF Deadline, Unlabelled, Rejected, Active, NewRequest
  <2>2. Cardinality(Unlabelled') = 0 /\ Cardinality(Rejected') = 0
    BY <2>1, FS_EmptySet
  <2>3. labelled'["429"] = 0 /\ labelled'["other"] = 0
    BY <1>5 DEF Deadline, Status
  <2> QED
    BY <1>5, <2>2, <2>3 DEF Deadline, CountersConserved, Labels, Rejected
<1> QED
  BY <1>1, <1>3, <1>4, <1>5 DEF Next

-----------------------------------------------------------------------------
(* What answers show.                                                      *)

\* Only the loads of a stats answer and the listing of the keys write to an
\* answer; every other step keeps it, or has none.
LEMMA ShownKept ==
    ASSUME TypeOK, OnItsWay, NEW r \in Request, Step(r), ~Stats(r), ~ListKeys(r)
    PROVE  \/ req'[r].shown = <<>>
           \/ UNCHANGED <<req[r].shown, req[r].path, req[r].failed>>
<1>0. req \in [Request -> RequestState] /\ req[r] \in RequestState /\ Fits(req[r])
  BY DEF TypeOK, OnItsWay
<1>1. CASE Done(r)
  BY <1>1, Ended
<1>2. ASSUME NEW pc, Goto(r, pc)
      PROVE  UNCHANGED <<req[r].shown, req[r].path, req[r].failed>>
  BY <1>0, <1>2 DEF Goto, RequestState
<1>3. ASSUME NEW s, Answer(r, s)
      PROVE  UNCHANGED <<req[r].shown, req[r].path, req[r].failed>>
  BY <1>0, <1>3 DEF Answer, RequestState
<1>4. CASE AnswerEarly(r) \/ ProxyAborts(r) \/ Label(r)
  BY <1>1, <1>4 DEF AnswerEarly, ProxyAborts, Label
<1>5. ASSUME NEW c \in Call, Enter(r, c.path, c.key) PROVE req'[r].shown = <<>>
  BY <1>0, <1>5, Entered DEF Fits
<1>6. CASE RateLimit(r)
  BY <1>2, <1>3, <1>6 DEF RateLimit
<1>7. CASE Serve(r)
  <2>1. \/ Goto(r, "stats") \/ Goto(r, "count")
        \/ \E s \in Status : Answer(r, s)
    BY <1>7 DEF Serve, GetOnly, Proxied, Status
  <2> QED
    BY <1>2, <1>3, <2>1
<1>8. CASE CountHit(r)
  BY <1>1, <1>2, <1>8 DEF CountHit
<1>9. CASE CountKeys(r)
  <2>1. PICK pc, b : req' = [req EXCEPT ![r].pc = pc, ![r].failed = b]
    BY <1>9, Zenon DEF CountKeys
  <2>2. req[r].shown = <<>>
    BY <1>0, <1>9 DEF CountKeys, At, Fits
  <2> QED
    BY <1>0, <2>1, <2>2 DEF RequestState
<1>10. CASE SeedKeys(r)
  <2>1. PICK b : req' = [req EXCEPT ![r].pc = "list", ![r].failed = @ \/ b]
    BY <1>10, Zenon DEF SeedKeys
  <2>2. req[r].shown = <<>>
    BY <1>0, <1>10 DEF SeedKeys, At, Fits
  <2> QED
    BY <1>0, <2>1, <2>2 DEF RequestState
<1> QED
  BY <1>4, <1>5, <1>6, <1>7, <1>8, <1>9, <1>10 DEF Step

\* The counters never go down while the process lives.
LEMMA CountersGrow ==
    ASSUME TypeOK, NEW r \in Request, Step(r)
    PROVE  total <= total' /\ hits <= hits'
<1>0. total \in Nat /\ hits \in Nat
  BY DEF TypeOK
<1>1. total' \in {total, total + 1} /\ hits' \in {hits, hits + 1}
  BY Zenon DEF Step, AnswerEarly, Enter, RateLimit, Serve, ProxyAborts, CountHit, Label, Stats,
         CountKeys, SeedKeys, ListKeys
<1> QED
  BY <1>0, <1>1

\* A rejection is counted as a request before it is counted as a hit.
LEMMA HitsWithinTotal ==
    ASSUME TypeOK, CountersConserved
    PROVE  hits <= total
<1>1. IsFiniteSet(Unlabelled)
  BY GatewayAssumption, FS_Subset DEF Unlabelled, Active
<1>2. /\ Cardinality(Rejected) <= Cardinality(Unlabelled)
      /\ Cardinality(Rejected) \in Nat /\ Cardinality(Unlabelled) \in Nat
  BY <1>1, FS_Subset, FS_CardinalityType DEF Rejected
<1>3. labelled["429"] \in Nat /\ labelled["other"] \in Nat /\ aborted \in Nat
  BY DEF TypeOK, Status
<1>4. /\ total = labelled["429"] + labelled["other"] + Cardinality(Unlabelled) + aborted
      /\ hits = labelled["429"] + Cardinality(Rejected)
  BY DEF CountersConserved, Labels, Rejected
<1> QED
  BY <1>2, <1>3, <1>4

\* A stats answer stays sane while its loads, and other requests, go on.
LEMMA StatsStep ==
    TypeOK /\ OnItsWay /\ CountersConserved /\ StatsSoFar /\ [Next]_vars => StatsSoFar'
<1> SUFFICES ASSUME TypeOK, OnItsWay, CountersConserved, StatsSoFar, [Next]_vars
             PROVE  StatsSoFar'
  OBVIOUS
<1> DEFINE Sane(s, t, h) ==
             /\ Len(s) >= 1 => s[1] <= t
             /\ Len(s) >= 2 => s[2] <= h /\ s[2] <= t
             /\ Len(s) >= 3 => s[1] <= s[3] /\ s[2] <= s[3] /\ s[3] <= t
             /\ Len(s) >= 4 => s[2] <= s[4] /\ s[4] <= h
<1>0. /\ total \in Nat /\ hits \in Nat /\ hits <= total
      /\ \A o \in Request : req[o].shown \in Seq(Nat) /\ Len(req[o].shown) \in Nat
  BY HitsWithinTotal DEF TypeOK, RequestState
<1>1. /\ \A o \in Request : req[o].path = "/v1/stats" => Sane(req[o].shown, total, hits)
      /\ (\A o \in Request : req'[o].path = "/v1/stats" => Sane(req'[o].shown, total', hits'))
            => StatsSoFar'
  BY DEF StatsSoFar
<1>2. \A t, h : Sane(<<>>, t, h)
  OBVIOUS
<1>3. ASSUME NEW s \in Seq(Nat), Len(s) \in Nat, Sane(s, total, hits),
             NEW t \in Nat, NEW h \in Nat, total <= t, hits <= h
      PROVE  Sane(s, t, h)
  <2>1. \A i \in 1 .. 4 : Len(s) >= i => s[i] \in Nat
    BY <1>3
  <2> QED
    BY <1>0, <1>3, <2>1
<1>4. ASSUME NEW r \in Request, Step(r) PROVE StatsSoFar'
  <2>1. total' \in Nat /\ hits' \in Nat /\ total <= total' /\ hits <= hits'
    BY <1>4, CounterTypes, CountersGrow
  <2>2. ASSUME NEW o \in Request, req'[o].path = "/v1/stats", o # r
        PROVE  Sane(req'[o].shown, total', hits')
    <3>1. req'[o] = req[o]
      BY <1>4, <2>2, StepFrame
    <3> HIDE DEF Sane
    <3> QED
      BY <1>0, <1>1, <1>3, <2>1, <2>2, <3>1
  <2>3. ASSUME req'[r].path = "/v1/stats" PROVE Sane(req'[r].shown, total', hits')
    <3>1. CASE ~Stats(r) /\ ~ListKeys(r)
      <4>1. \/ req'[r].shown = <<>>
            \/ req'[r].shown = req[r].shown /\ req'[r].path = req[r].path
        BY <1>4, <3>1, ShownKept
      <4> HIDE DEF Sane
      <4> QED
        BY <1>0, <1>1, <1>2, <1>3, <2>1, <2>3, <4>1
    <3>2. CASE ListKeys(r)
      <4>1. req'[r].path = req[r].path /\ req[r].path = "/v1/admin/keys"
        BY <3>2, Handled, Zenon DEF ListKeys, At, OnItsWay, Fits
      <4> QED
        BY <2>3, <4>1
    <3>3. CASE Stats(r)
      <4> DEFINE s == req[r].shown
                 n == IF Len(s) \in {0, 2} THEN total ELSE hits
      <4>1. req'[r].shown = Append(s, n) /\ UNCHANGED <<total, hits>>
        BY <3>3 DEF Stats, Loaded, TypeOK, RequestState
      <4>2. req[r].pc = "stats" /\ req[r].path = "/v1/stats" /\ Len(s) < 4
        BY <3>3 DEF Stats, At, OnItsWay, Fits
      <4>3. s \in Seq(Nat) /\ Len(s) \in Nat /\ Sane(s, total, hits) /\ n \in Nat
        BY <1>0, <1>1, <4>2
      <4>4. Sane(Append(s, n), total, hits)
        <5> HIDE DEF s
        <5>1. /\ Len(Append(s, n)) = Len(s) + 1
              /\ \A i \in 1 .. Len(s) : Append(s, n)[i] = s[i] /\ s[i] \in Nat
              /\ Append(s, n)[Len(s) + 1] = n
          BY <4>3
        <5>2. CASE Len(s) = 0
          BY <1>0, <4>3, <5>1, <5>2
        <5>3. CASE Len(s) = 1
          BY <1>0, <4>3, <5>1, <5>3
        <5>4. CASE Len(s) = 2
          BY <1>0, <4>3, <5>1, <5>4
        <5>5. CASE Len(s) = 3
          BY <1>0, <4>3, <5>1, <5>5
        <5>6. Len(s) = 0 \/ Len(s) = 1 \/ Len(s) = 2 \/ Len(s) = 3
          <6>1. Len(s) \in Nat /\ Len(s) < 4
            BY <4>2, <4>3, Zenon
          <6>2. \A i \in Nat : i < 4 => i = 0 \/ i = 1 \/ i = 2 \/ i = 3
            OBVIOUS
          <6> QED
            BY <6>1, <6>2, Zenon
        <5> QED
          BY <5>2, <5>3, <5>4, <5>5, <5>6, Zenon
      <4> HIDE DEF Sane
      <4> QED
        BY <4>1, <4>4
    <3> QED
      BY <3>1, <3>2, <3>3
  <2> HIDE DEF Sane
  <2> QED
    BY <1>1, <2>2, <2>3
<1>5. CASE Signal \/ Drained \/ UNCHANGED vars
  BY <1>5 DEF Signal, Drained, vars, StatsSoFar
<1>6. CASE Deadline
  <2>1. \A o \in Request : req'[o].path # "/v1/stats"
    BY <1>6 DEF Deadline, NewRequest
  <2> QED
    BY <2>1 DEF StatsSoFar
<1> QED
  BY <1>4, <1>5, <1>6 DEF Next

-----------------------------------------------------------------------------
(* The API keys.                                                           *)

\* The keys are there all or none, and once each.
KeysUnique == \A k, l \in Seed : apiKeys[k] = apiKeys[l] /\ apiKeys[k] <= 1

\* The rows of the keys after a step, and their number.
LEMMA KeysUniqueStep ==
    ASSUME TypeOK, OnItsWay, KeysUnique, [Next]_vars
    PROVE  KeysUnique' /\ Rows \in Nat /\ (Rows > 0 => Rows' > 0)
<1>0. apiKeys \in [Seed -> Nat]
  BY DEF TypeOK
<1>1. apiKeys' = apiKeys \/ apiKeys' = Inserted
  BY Zenon DEF Next, vars, Step, AnswerEarly, Enter, RateLimit, Serve, ProxyAborts, CountHit, Label,
         Stats, CountKeys, SeedKeys, ListKeys, Signal, Drained, Deadline
<1>2. Rows \in Nat
  BY <1>0 DEF Rows, Seed
<1>3. CASE apiKeys' = apiKeys
  BY <1>2, <1>3 DEF KeysUnique, Rows
<1>4. CASE apiKeys' = Inserted /\ \E k \in Seed : apiKeys[k] > 0
  BY <1>2, <1>4 DEF KeysUnique, Rows, Inserted
<1>5. CASE apiKeys' = Inserted /\ ~\E k \in Seed : apiKeys[k] > 0
  <2>1. \A k \in Seed : apiKeys[k] = 0
    BY <1>0, <1>5
  <2>2. apiKeys' = [k \in Seed |-> 1]
    BY <1>5, <2>1 DEF Inserted
  <2>3. KeysUnique'
    BY <2>2 DEF KeysUnique
  <2>4. Rows' = 3
    BY <2>2 DEF Rows, Seed
  <2> QED
    BY <1>2, <2>3, <2>4
<1> QED
  BY <1>1, <1>3, <1>4, <1>5

\* An INSERT that the database runs leaves rows behind.
LEMMA InsertedRows ==
    ASSUME TypeOK, KeysUnique, apiKeys' = Inserted
    PROVE  Rows' > 0
<1>0. apiKeys \in [Seed -> Nat]
  BY DEF TypeOK
<1>1. CASE \E k \in Seed : apiKeys[k] > 0
  <2>1. apiKeys' = apiKeys
    BY <1>1 DEF Inserted
  <2>2. \A k \in Seed : apiKeys[k] > 0
    BY <1>0, <1>1 DEF KeysUnique
  <2> QED
    BY <1>0, <2>1, <2>2 DEF Rows, Seed
<1>2. CASE ~\E k \in Seed : apiKeys[k] > 0
  <2>1. \A k \in Seed : apiKeys[k] = 0
    BY <1>0, <1>2
  <2>2. apiKeys' = [k \in Seed |-> 1]
    BY <1>2, <2>1 DEF Inserted
  <2> QED
    BY <2>2 DEF Rows, Seed
<1> QED
  BY <1>1, <1>2

\* A listing without failed query still finds the keys after any step.
LEMMA ToListStep ==
    TypeOK /\ OnItsWay /\ KeysUnique /\ KeysToList /\ [Next]_vars => KeysToList'
<1> SUFFICES ASSUME TypeOK, OnItsWay, KeysUnique, KeysToList, [Next]_vars,
                    NEW o \in Request, req'[o].pc = "list", ~req'[o].failed
             PROVE  Rows' > 0
  BY DEF KeysToList
<1>0. req \in [Request -> RequestState] /\ req[o] \in RequestState
  BY DEF TypeOK
<1>1. Rows > 0 => Rows' > 0
  BY KeysUniqueStep
<1>2. CASE req'[o] = req[o]
  BY <1>1, <1>2 DEF KeysToList
<1>3. CASE Deadline
  BY <1>3 DEF Deadline, NewRequest
<1>4. ASSUME Step(o) PROVE Rows' > 0
  <2>1. ASSUME Done(o) PROVE FALSE
    BY <2>1, Ended
  <2>2. ASSUME NEW pc \in {"serve", "stats", "count", "label"}, Goto(o, pc) PROVE FALSE
    BY <1>0, <2>2 DEF Goto, RequestState
  <2>3. ASSUME NEW s, Answer(o, s) PROVE FALSE
    BY <1>0, <2>3 DEF Answer, RequestState
  <2>4. ASSUME AnswerEarly(o) \/ ProxyAborts(o) \/ CountHit(o) \/ Label(o) PROVE FALSE
    BY <2>1, <2>2, <2>4 DEF AnswerEarly, ProxyAborts, CountHit, Label
  <2>5. ASSUME NEW c \in Call, Enter(o, c.path, c.key) PROVE FALSE
    BY <2>5, Entered
  <2>6. ASSUME RateLimit(o) PROVE FALSE
    BY <2>2, <2>3, <2>6 DEF RateLimit
  <2>7. ASSUME Serve(o) PROVE FALSE
    <3>1. \/ Goto(o, "stats") \/ Goto(o, "count")
          \/ \E s \in Status : Answer(o, s)
      BY <2>7 DEF Serve, GetOnly, Proxied, Status
    <3> QED
      BY <2>2, <2>3, <3>1
  <2>8. ASSUME Stats(o) PROVE FALSE
    <3>1. req[o].pc = "stats" /\ req'[o].pc \in {req[o].pc, "answered"}
      BY <1>0, <2>8 DEF Stats, At, RequestState
    <3> QED
      BY <3>1
  <2>9. CASE CountKeys(o)
    <3>1. PICK ok \in BOOLEAN :
             req' = [req EXCEPT ![o].pc = IF ok /\ Rows > 0 THEN "list" ELSE "seed",
                                ![o].failed = ~ok]
      BY <2>9, Zenon DEF CountKeys
    <3>2. req'[o].pc = IF ok /\ Rows > 0 THEN "list" ELSE "seed"
      BY <1>0, <3>1 DEF RequestState
    <3>3. Rows > 0
      BY <3>2
    <3> QED
      BY <1>1, <3>3
  <2>10. CASE SeedKeys(o)
    <3>1. PICK ok \in BOOLEAN : /\ apiKeys' = IF ok THEN Inserted ELSE apiKeys
                                /\ req' = [req EXCEPT ![o].pc = "list", ![o].failed = @ \/ ~ok]
      BY <2>10, Zenon DEF SeedKeys
    <3>2. req'[o].failed = (req[o].failed \/ ~ok)
      BY <1>0, <3>1 DEF RequestState
    <3>3. ok
      BY <3>2, Zenon
    <3> QED
      BY <3>1, <3>3, InsertedRows
  <2>11. ASSUME ListKeys(o) PROVE FALSE
    <3>1. PICK s : req' = [req EXCEPT ![o].pc = "answered", ![o].shown = s]
      BY <2>11, Zenon DEF ListKeys
    <3> QED
      BY <1>0, <3>1 DEF RequestState
  <2> QED
    BY <1>4, <2>4, <2>5, <2>6, <2>7, <2>8, <2>9, <2>10, <2>11 DEF Step
<1>5. ASSUME NEW r \in Request, Step(r) PROVE Rows' > 0
  BY <1>2, <1>4, <1>5, StepFrame
<1>6. CASE Signal \/ Drained \/ UNCHANGED vars
  BY <1>2, <1>6 DEF Signal, Drained, vars
<1> QED
  BY <1>3, <1>5, <1>6 DEF Next

\* The keys stay seeded once, and an empty listing keeps its reason.
LEMMA KeysStep ==
    TypeOK /\ OnItsWay /\ KeysSeededOnce /\ KeysToList /\ [Next]_vars => KeysSeededOnce'
<1> SUFFICES ASSUME TypeOK, OnItsWay, KeysSeededOnce, KeysToList, [Next]_vars
             PROVE  KeysSeededOnce'
  OBVIOUS
<1>1. KeysUnique'
  <2>1. KeysUnique
    BY DEF KeysUnique, KeysSeededOnce
  <2> QED
    BY <2>1, KeysUniqueStep
<1> DEFINE noKeys == <<0>>
<1>2. SUFFICES ASSUME NEW o \in Request, req'[o].path = "/v1/admin/keys", req'[o].shown = noKeys
               PROVE  req'[o].failed
  BY <1>1 DEF KeysSeededOnce, KeysUnique
<1>0. req \in [Request -> RequestState] /\ req[o] \in RequestState
  BY DEF TypeOK
<1>a. <<0>> # <<>>
  OBVIOUS
<1>3. ASSUME UNCHANGED <<req[o].shown, req[o].path, req[o].failed>> PROVE req'[o].failed
  BY <1>2, <1>3 DEF KeysSeededOnce
<1>4. CASE Deadline
  BY <1>2, <1>4, <1>a DEF Deadline, NewRequest
<1>5. ASSUME Step(o) PROVE req'[o].failed
  <2>1. CASE ~Stats(o) /\ ~ListKeys(o)
    BY <1>2, <1>3, <1>5, <1>a, <2>1, ShownKept
  <2>2. CASE Stats(o)
    <3>1. req'[o].path = req[o].path /\ req[o].path = "/v1/stats"
      BY <2>2, Handled, Zenon DEF Stats, At, OnItsWay, Fits
    <3> QED
      BY <1>2, <3>1
  <2>3. CASE ListKeys(o)
    <3>1. PICK ok \in BOOLEAN :
             req' = [req EXCEPT ![o].pc = "answered",
                                ![o].shown = IF ok THEN <<Rows>> ELSE <<>>]
      BY <2>3, Zenon DEF ListKeys
    <3>2. /\ req'[o].shown = IF ok THEN <<Rows>> ELSE <<>>
          /\ req'[o].failed = req[o].failed
      BY <1>0, <3>1 DEF RequestState
    <3>3. <<Rows>> = <<0>>
      BY <1>2, <1>a, <3>2
    <3>4. Rows = 0
      BY <3>3
    <3>5. req[o].pc = "list"
      BY <2>3 DEF ListKeys, At
    <3>6. req[o].failed
      BY <3>4, <3>5 DEF KeysToList
    <3> QED
      BY <3>2, <3>6
  <2> QED
    BY <2>1, <2>2, <2>3
<1>6. ASSUME NEW r \in Request, Step(r) PROVE req'[o].failed
  <2>1. r # o => req'[o] = req[o]
    BY <1>6, StepFrame
  <2> QED
    BY <1>3, <1>5, <1>6, <2>1
<1>7. CASE Signal \/ Drained \/ UNCHANGED vars
  BY <1>3, <1>7 DEF Signal, Drained, vars
<1> QED
  BY <1>4, <1>6, <1>7 DEF Next

-----------------------------------------------------------------------------
(* The limits.                                                             *)

\* A request keeps its tier, path and limit, and the policy is read once.
LEMMA LimitStep == TypeOK /\ OnItsWay /\ LimitKept /\ [Next]_vars => LimitKept'
<1> SUFFICES ASSUME TypeOK, OnItsWay, LimitKept, [Next]_vars, NEW o \in Active'
             PROVE  (req[o].limit = GetLimit(req[o].tier, req[o].path))'
  BY Zenon DEF LimitKept
<1>0. o \in Request /\ req'[o].pc \notin {"new", "done"}
  BY DEF Active
<1>1. policy' = policy
  BY StepFrame DEF Next, vars, Signal, Drained, Deadline
<1>2. SUFFICES req'[o].limit = GetLimit(req'[o].tier, req'[o].path)
  BY <1>1, Zenon DEF GetLimit, FirstLimit, Matching, Rules
<1>3. ASSUME req'[o].path = req[o].path, req'[o].tier = req[o].tier,
             req'[o].limit = req[o].limit, req[o].pc \notin {"new", "done"}
      PROVE  req'[o].limit = GetLimit(req'[o].tier, req'[o].path)
  <2>1. o \in Active
    BY <1>0, <1>3 DEF Active
  <2> QED
    BY <1>3, <2>1, Zenon DEF LimitKept
<1>4. ASSUME req'[o] = req[o] PROVE req'[o].limit = GetLimit(req'[o].tier, req'[o].path)
  BY <1>0, <1>3, <1>4
<1>5. CASE Deadline
  BY <1>0, <1>5 DEF Deadline, NewRequest
<1>6. ASSUME Step(o) PROVE req'[o].limit = GetLimit(req'[o].tier, req'[o].path)
  <2>1. ASSUME Done(o) PROVE FALSE
    BY <1>0, <2>1, Ended
  <2>2. ASSUME AnswerEarly(o) \/ ProxyAborts(o) \/ Label(o) PROVE FALSE
    BY <2>1, <2>2 DEF AnswerEarly, ProxyAborts, Label
  <2>3. ASSUME NEW c \in Call, Enter(o, c.path, c.key)
        PROVE  req'[o].limit = GetLimit(req'[o].tier, req'[o].path)
    BY <1>0, <2>3, Entered
  <2>4. CASE \/ RateLimit(o) \/ Serve(o) \/ Stats(o)
             \/ CountKeys(o) \/ SeedKeys(o) \/ ListKeys(o)
    BY <1>0, <1>3, <2>4, Handled
  <2>5. CASE CountHit(o)
    <3>1. Goto(o, "label") /\ req[o].pc = "answered"
      BY <2>1, <2>5 DEF CountHit, At
    <3>2. /\ req'[o].path = req[o].path /\ req'[o].tier = req[o].tier
          /\ req'[o].limit = req[o].limit
      <4>1. req \in [Request -> RequestState] /\ req[o] \in RequestState
        BY <1>0 DEF TypeOK
      <4> QED
        BY <1>0, <3>1, <4>1 DEF Goto, RequestState
    <3> QED
      BY <1>3, <3>1, <3>2
  <2> QED
    BY <1>6, <2>2, <2>3, <2>4, <2>5 DEF Step
<1>7. ASSUME NEW r \in Request, Step(r)
      PROVE  req'[o].limit = GetLimit(req'[o].tier, req'[o].path)
  <2>1. r # o => req'[o] = req[o]
    BY <1>0, <1>7, StepFrame
  <2> QED
    BY <1>4, <1>6, <1>7, <2>1
<1>8. CASE Signal \/ Drained \/ UNCHANGED vars
  BY <1>4, <1>8 DEF Signal, Drained, vars
<1> QED
  BY <1>5, <1>7, <1>8 DEF Next

\* GetLimit: no limit only where no rule applies, and otherwise the limit of
\* the first rule of the path, or of the first wildcard where the path has none.
LEMMA GetLimitSpecific ==
    ASSUME TypeOK, NEW tier, NEW route
    PROVE  LET rules == Applicable(tier, route)
               exact == {i \in rules : policy[tier][i].route = route}
               limit == GetLimit(tier, route)
           IN  /\ limit = None <=> rules = {}
               /\ rules # {} => \E i \in rules :
                    /\ policy[tier][i].limit = limit
                    /\ exact # {} => i \in exact
                    /\ \A j \in rules : j < i => exact # {} /\ j \notin exact
<1> DEFINE rules == Applicable(tier, route)
           exact == {i \in rules : policy[tier][i].route = route}
           limit == GetLimit(tier, route)
           own   == Matching(tier, {route})
           wild  == Matching(tier, {"/*", "*"})
<1>1. own = exact /\ rules = own \cup wild
  <2>1. CASE tier \in DOMAIN policy
    BY <2>1 DEF Applicable, Matching, Rules
  <2>2. CASE tier \notin DOMAIN policy
    BY <2>2 DEF Applicable, Matching, Rules
  <2> QED
    BY <2>1, <2>2, Zenon
<1>2. rules # {} => tier \in DOMAIN policy /\ Rules(tier) = policy[tier]
  BY DEF Applicable, Rules
<1>3. own \in SUBSET Nat /\ wild \in SUBSET Nat
  BY RulesType, Zenon
<1>4. ASSUME NEW S \in SUBSET Nat, S # {}, S \subseteq rules
      PROVE  policy[tier][Min(S)].limit = FirstLimit(tier, S)
  BY <1>2, <1>4, Zenon DEF FirstLimit
<1>5. ASSUME NEW S \in SUBSET Nat, S # {}, S \subseteq DOMAIN Rules(tier)
      PROVE  FirstLimit(tier, S) # None
  <2>1. Min(S) \in DOMAIN Rules(tier)
    BY <1>5, FirstExists, Zenon
  <2>2. Rules(tier)[Min(S)] \in [route : STRING, limit : Limit]
    BY <2>1, RulesType, ElementType, Zenon
  <2> QED
    BY <2>2, GatewayAssumption DEF FirstLimit
<1>a. own \subseteq DOMAIN Rules(tier) /\ wild \subseteq DOMAIN Rules(tier)
  BY RulesType
<1>b. /\ own # {} => limit = FirstLimit(tier, own)
      /\ own = {} /\ wild # {} => limit = FirstLimit(tier, wild)
      /\ own = {} /\ wild = {} => limit = None
  BY DEF GetLimit
<1> SUFFICES /\ limit = None <=> rules = {}
             /\ rules # {} => \E i \in rules :
                  /\ policy[tier][i].limit = limit
                  /\ exact # {} => i \in exact
                  /\ \A j \in rules : j < i => exact # {} /\ j \notin exact
  OBVIOUS
<1> HIDE DEF rules, exact, limit, own, wild
<1>6. CASE own # {}
  <2>1. limit = FirstLimit(tier, own) /\ limit # None
    BY <1>3, <1>5, <1>6, <1>a, <1>b
  <2>2. PICK m \in own : m = Min(own) /\ \A j \in own : m <= j
    BY <1>3, <1>6, FirstExists, Zenon
  <2>3. \A j \in rules : j < m => j \notin exact
    <3>1. \A j \in own : ~(j < m)
      BY <1>3, <2>2
    <3> QED
      BY <1>1, <3>1
  <2>4. policy[tier][m].limit = limit
    BY <1>1, <1>3, <1>4, <1>6, <2>1, <2>2
  <2> QED
    BY <1>1, <1>6, <2>1, <2>2, <2>3, <2>4
<1>7. CASE own = {} /\ wild # {}
  <2>1. limit = FirstLimit(tier, wild) /\ limit # None
    BY <1>3, <1>5, <1>7, <1>a, <1>b
  <2>2. PICK m \in wild : m = Min(wild) /\ \A j \in wild : m <= j
    BY <1>3, <1>7, FirstExists, Zenon
  <2>3. \A j \in rules : ~(j < m)
    <3>1. \A j \in wild : ~(j < m)
      BY <1>3, <2>2
    <3> QED
      BY <1>1, <1>7, <3>1
  <2>4. policy[tier][m].limit = limit
    BY <1>1, <1>3, <1>4, <1>7, <2>1, <2>2
  <2> QED
    BY <1>1, <1>7, <2>1, <2>2, <2>3, <2>4
<1>8. CASE own = {} /\ wild = {}
  BY <1>1, <1>8, <1>b
<1> QED
  BY <1>6, <1>7, <1>8

-----------------------------------------------------------------------------
(* The inductive invariant, and what it implies.                           *)

\* The invariant holds at first.
LEMMA InvInit == Init => IInv
<1> SUFFICES ASSUME Init PROVE IInv
  OBVIOUS
<1>1. TypeOK /\ OnItsWay /\ CountersConserved
  BY TypeInit, CountersInit
<1>2. \A r \in Request : req[r] = NewRequest
  BY DEF Init
<1>3. \A r \in Request : /\ req[r].pc = "new" /\ req[r].path = "/healthz"
  BY <1>2 DEF NewRequest
<1>4. StatsSoFar /\ KeysToList /\ LimitKept
  BY <1>3 DEF StatsSoFar, KeysToList, LimitKept, Active
<1>5. KeysSeededOnce
  BY <1>3 DEF Init, KeysSeededOnce
<1> QED
  BY <1>1, <1>4, <1>5 DEF IInv

\* Every step keeps it.
LEMMA InvStep == IInv /\ [Next]_vars => IInv'
<1> SUFFICES ASSUME IInv, [Next]_vars PROVE IInv'
  OBVIOUS
<1>0. /\ TypeOK /\ OnItsWay /\ CountersConserved /\ StatsSoFar /\ KeysSeededOnce
      /\ KeysToList /\ LimitKept /\ KeysUnique
  BY DEF IInv, KeysSeededOnce, KeysUnique
<1>1. TypeOK' /\ OnItsWay'
  BY <1>0, TypeStep
<1>2. CountersConserved'
  BY <1>0, CountersStep
<1>3. StatsSoFar'
  BY <1>0, StatsStep
<1>4. KeysSeededOnce'
  BY <1>0, KeysStep
<1>5. KeysToList'
  BY <1>0, ToListStep
<1>6. LimitKept'
  BY <1>0, LimitStep
<1> QED
  BY <1>1, <1>2, <1>3, <1>4, <1>5, <1>6 DEF IInv

\* The inductive invariant holds in every behaviour of the gateway.
THEOREM Invariant == Spec => []IInv
BY InvInit, InvStep, PTL DEF Spec

\* Every variable has its type, and every request past Auth a tier unless it is
\* for /metrics, whatever clients send (Auth, metricsMiddleware, the handlers).
THEOREM TypeCorrect == Spec => []TypeOK
<1>1. IInv => TypeOK
  BY DEF IInv
<1> QED
  BY <1>1, Invariant, PTL

\* The request counter and the labelled counter differ by the requests in
\* progress and the aborted ones, the hit counter and the 429 label by the
\* rejections in progress; after a clean exit by the aborted ones only, for any
\* number of requests (metricsMiddleware, Shutdown).
THEOREM CountersAgree == Spec => []CountersConserved
<1>1. IInv => CountersConserved
  BY DEF IInv
<1> QED
  BY <1>1, Invariant, PTL

\* Whatever the policy file says and in whatever order, a request is held to
\* the first rule of its own path, to the first wildcard where there is none,
\* and to no limit only where no rule applies (GetLimit, RateLimit).
THEOREM LimitIsMostSpecific == Spec => []MostSpecificLimit
<1>1. ASSUME IInv PROVE MostSpecificLimit
  <2>1. TypeOK /\ LimitKept
    BY <1>1 DEF IInv
  <2>2. SUFFICES ASSUME NEW r \in Active
                 PROVE  LET rules == Applicable(req[r].tier, req[r].path)
                            Is(i) == policy[req[r].tier][i].limit = req[r].limit
                            exact == {i \in rules : policy[req[r].tier][i].route = req[r].path}
                        IN  /\ req[r].limit = None <=> rules = {}
                            /\ rules # {} => \E i \in rules :
                                 /\ Is(i)
                                 /\ exact # {} => i \in exact
                                 /\ \A j \in rules : j < i => exact # {} /\ j \notin exact
    BY Zenon DEF MostSpecificLimit
  <2>3. req[r].limit = GetLimit(req[r].tier, req[r].path)
    BY <2>1 DEF LimitKept
  <2> QED
    BY <2>1, <2>3, GetLimitSpecific
<1> QED
  BY <1>1, Invariant, PTL

\* However many requests are counted while its four loads run, a stats answer
\* never shows a last point above its totals (the /v1/stats handler).
THEOREM StatsAreSane == Spec => []StatsSane
<1>1. ASSUME IInv PROVE StatsSane
  <2>1. StatsSoFar
    BY <1>1 DEF IInv
  <2> QED
    BY <2>1 DEF StatsSoFar, StatsSane
<1> QED
  BY <1>1, Invariant, PTL

\* However many listings run at the same time and whichever of their queries
\* fail, the demo keys are inserted once, all or none, and a listing without
\* failed query shows them (the /v1/admin/keys handler).
THEOREM KeysAreSeededOnce == Spec => []KeysSeededOnce
<1>1. IInv => KeysSeededOnce
  BY DEF IInv
<1> QED
  BY <1>1, Invariant, PTL
=============================================================================

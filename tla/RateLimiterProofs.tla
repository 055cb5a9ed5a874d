------------------------- MODULE RateLimiterProofs -------------------------
(***************************************************************************)
(* Proofs about RateLimiter for every set of gateways and requests, every  *)
(* limit, window, clock skew and Redis delay.                              *)
(***************************************************************************)
EXTENDS RateLimiter, FiniteSetTheorems, TLAPS

\* Every leaf that names no prover of its own has 30 seconds of SMT.
USE SMTT(30)

Admits == {"set", "admitted"}

Started == {q \in Request : req[q].pc # "new"}

\* The clocks: a stamp is a gateway's reading of the time of the step before
\* the script, and the key outlives every member by its window.
Timing(q) ==
    /\ req[q].at <= now
    /\ req[q].stamp <= req[q].at + MaxSkew
    /\ req[q].pc = "eval" => req[q].stamp >= req[q].at - MaxSkew
    /\ req[q].pc \in Waiting => now - req[q].at <= MaxDelay
    /\ req[q].pc \in Admits => /\ req[q].stamp >= req[q].at - MaxDelay - MaxSkew
                               /\ expireAt >= req[q].at + Window

\* The sorted set: bounded, and only of requests the script admitted.
ZSetOK ==
    /\ IsFiniteSet(Started)
    /\ zset \subseteq Started /\ lost \subseteq Started
    /\ Cardinality(zset) <= Limit
    /\ \A q \in zset : req[q].pc \in Admits \/ q \in lost
    /\ expireAt <= now + Window

\* An L1 entry stems from an admission on its gateway, and expires.
EntryOK(g) ==
    l1[g] # None =>
        /\ req[l1[g].from].pc = "admitted"
        /\ req[l1[g].from].node = g
        /\ l1[g].exp > 0
        /\ l1[g].exp <= req[l1[g].from].at + MaxDelay + l1TTL

\* The inductive invariant: what makes L2WithinLimit inductive is that no
\* recent admission has left the sorted set.
IInv ==
    /\ TypeOK
    /\ ZSetOK
    /\ \A q \in Request : Timing(q)
    /\ \A g \in Node : EntryOK(g)
    /\ Recent \subseteq zset

-----------------------------------------------------------------------------
\* The cache lifetime is positive, so an entry always expires.
LEMMA TTLPositive == l1TTL \in Nat /\ l1TTL > 0
BY LimiterAssumption DEF l1TTL

\* The fields of a request.
LEMMA RequestTypes ==
    ASSUME TypeOK, NEW q \in Request
    PROVE  /\ req[q] \in RequestState
           /\ req[q].pc \in RequestPC
           /\ req[q].node \in Node \cup {None}
           /\ req[q].stamp \in Int
           /\ req[q].at \in Nat
<1>1. req[q] \in RequestState
  BY DEF TypeOK
<1> QED
  BY <1>1 DEF RequestState

\* The invariant holds before the first request.
LEMMA InitIInv == Init => IInv
<1> SUFFICES ASSUME Init PROVE IInv
  OBVIOUS
<1>r. \A q \in Request : req[q] = NewRequest
  BY DEF Init
<1>n. NewRequest \in RequestState
  BY DEF NewRequest, RequestState, RequestPC
<1>1. TypeOK
  BY <1>n, TTLPositive DEF Init, TypeOK
<1>s. Started = {}
  BY <1>r DEF Started, NewRequest
<1>2. ZSetOK
  BY <1>s, FS_EmptySet, LimiterAssumption DEF Init, ZSetOK
<1>3. \A q \in Request : Timing(q)
  BY <1>r, LimiterAssumption DEF Init, Timing, NewRequest, Admits, Waiting
<1>4. \A g \in Node : EntryOK(g)
  BY DEF Init, EntryOK
<1>5. Recent \subseteq zset
  BY <1>r DEF Recent, NewRequest
<1> QED
  BY <1>1, <1>2, <1>3, <1>4, <1>5 DEF IInv

\* What one run of slidingWindowLua does to the sorted set: it stays within
\* the limit, gains at most the caller, and keeps every recent admission.
LEMMA ScriptEffect ==
    ASSUME IInv, NEW q \in Request, req[q].pc = "eval", Script(q)
    PROVE  /\ zset' \subseteq zset \cup {q}
           /\ zset' \in SUBSET Request
           /\ IsFiniteSet(zset') /\ Cardinality(zset') <= Limit
           /\ expireAt' \in Nat
           /\ expireAt <= expireAt' /\ expireAt' <= now + Window
           /\ Fits(req[q].stamp) => q \in zset' /\ expireAt' = now + Window
           /\ ~Fits(req[q].stamp) => zset' \subseteq zset
           /\ Recent \subseteq zset'
<1> DEFINE n == req[q].stamp
<1>t. TypeOK /\ n \in Int /\ req[q].at \in Nat
  BY RequestTypes DEF IInv
<1>k. Kept(n) \subseteq zset /\ zset \subseteq Started
  BY DEF Kept, IInv, ZSetOK
<1>f. IsFiniteSet(zset) /\ IsFiniteSet(Kept(n)) /\ Cardinality(Kept(n)) \in Nat
  <2>1. IsFiniteSet(Started)
    BY DEF IInv, ZSetOK
  <2>2. IsFiniteSet(zset)
    BY <2>1, <1>k, FS_Subset
  <2>3. IsFiniteSet(Kept(n))
    BY <2>2, <1>k, FS_Subset
  <2> QED
    BY <2>2, <2>3, FS_CardinalityType
<1>c. Cardinality(Kept(n)) <= Limit
  <2>1. Cardinality(Kept(n)) <= Cardinality(zset)
    BY <1>f, <1>k, FS_Subset
  <2>2. Cardinality(zset) <= Limit /\ Cardinality(zset) \in Nat
    BY <1>f, FS_CardinalityType DEF IInv, ZSetOK
  <2> QED
    BY <2>1, <2>2, <1>f, LimiterAssumption
<1>a. /\ IsFiniteSet(Kept(n) \cup {q})
      /\ Fits(n) => Cardinality(Kept(n) \cup {q}) <= Limit
  <2>1. /\ IsFiniteSet(Kept(n) \cup {q})
        /\ \/ Cardinality(Kept(n) \cup {q}) = Cardinality(Kept(n))
           \/ Cardinality(Kept(n) \cup {q}) = Cardinality(Kept(n)) + 1
    BY <1>f, FS_AddElement
  <2> QED
    BY <2>1, <1>f, LimiterAssumption DEF Fits
\* No recent admission is old enough to be cleared.
<1>r. Recent \subseteq Kept(n)
  <2> SUFFICES ASSUME NEW p \in Recent PROVE p \in Kept(n)
    OBVIOUS
  <2>1. /\ p \in Request /\ p \in zset
        /\ req[p].pc \in Admits /\ req[p].at > now - SafeWindow
    BY DEF Recent, IInv, Admits
  <2>2. /\ req[p].stamp >= req[p].at - MaxDelay - MaxSkew
        /\ expireAt >= req[p].at + Window
    BY <2>1 DEF IInv, Timing
  <2>3. n <= req[q].at + MaxSkew /\ req[q].at <= now
    BY DEF IInv, Timing
  <2>4. /\ req[p].stamp \in Int /\ req[p].at \in Nat
        /\ now \in Nat /\ expireAt \in Nat
    BY <1>t, <2>1, RequestTypes DEF TypeOK
  <2>5. ~(now >= expireAt)
    BY <2>1, <2>2, <2>4, LimiterAssumption DEF SafeWindow
  <2>6. req[p].stamp > n - Window
    BY <2>1, <2>2, <2>3, <2>4, <1>t, LimiterAssumption DEF SafeWindow
  <2> QED
    BY <2>1, <2>5, <2>6 DEF Kept
<1>e. expireAt \in Nat /\ now \in Nat /\ expireAt <= now + Window
  BY <1>t DEF TypeOK, IInv, ZSetOK
<1>z. zset \in SUBSET Request
  BY <1>t DEF TypeOK
<1>1. CASE Fits(n)
  <2>1. zset' = Kept(n) \cup {q} /\ expireAt' = now + Window
    BY <1>1 DEF Script
  <2>2. IsFiniteSet(zset') /\ Cardinality(zset') <= Limit
    BY <2>1, <1>a, <1>1
  <2> QED
    BY <2>1, <2>2, <1>1, <1>k, <1>r, <1>e, <1>z, LimiterAssumption
<1>2. CASE ~Fits(n)
  <2>1. zset' = Kept(n) /\ expireAt' = expireAt
    BY <1>2 DEF Script
  <2>2. IsFiniteSet(zset') /\ Cardinality(zset') <= Limit
    BY <2>1, <1>f, <1>c
  <2> QED
    BY <2>1, <2>2, <1>2, <1>k, <1>r, <1>e, <1>z, LimiterAssumption
<1> QED
  BY <1>1, <1>2

\* A request begins: the only step that adds to Started.
LEMMA AllowIInv ==
    ASSUME IInv, NEW q \in Request, NEW g \in Node, Allow(q, g)
    PROVE  IInv'
<1> DEFINE r == req'[q]
<1>t. TypeOK /\ now \in Nat /\ Skew[g] \in Int
      /\ -MaxSkew <= Skew[g] /\ Skew[g] <= MaxSkew
  BY LimiterAssumption DEF IInv, TypeOK
<1>q. req[q].pc = "new"
  BY DEF Allow
<1>r. /\ r.pc \in {"stub", "hit", "eval"} /\ r.node = g
      /\ r.stamp = now + Skew[g] /\ r.at = now /\ r \in RequestState
  BY <1>t DEF Allow, TypeOK, RequestState, RequestPC
<1>o. \A p \in Request : p # q => req'[p] = req[p]
  BY <1>t DEF Allow, TypeOK
<1>u. req' = [req EXCEPT ![q] = r]
  BY <1>t DEF Allow, TypeOK
<1>1. TypeOK'
  BY <1>t, <1>r, <1>u DEF Allow, TypeOK
<1>s. Started' = Started \cup {q}
  BY <1>o, <1>r DEF Started
<1>2. ZSetOK'
  <2>1. IsFiniteSet(Started')
    BY <1>s, FS_AddElement DEF IInv, ZSetOK
  <2>2. zset' = zset /\ lost' = lost /\ expireAt' = expireAt /\ now' = now
    BY DEF Allow
  <2>3. \A p \in zset : p # q \/ p \in lost
    BY <1>q DEF IInv, ZSetOK, Admits
  <2>4. zset \subseteq Request
    BY <1>t DEF TypeOK
  <2> QED
    BY <1>s, <1>o, <2>1, <2>2, <2>3, <2>4 DEF IInv, ZSetOK
<1>3. \A p \in Request : Timing(p)'
  <2>1. Timing(q)'
    BY <1>t, <1>r, LimiterAssumption DEF Allow, Timing, Admits, Waiting
  <2>2. \A p \in Request : p # q => Timing(p)'
    BY <1>o DEF Allow, IInv, Timing
  <2> QED
    BY <2>1, <2>2
<1>4. \A h \in Node : EntryOK(h)'
  <2> SUFFICES ASSUME NEW h \in Node, l1[h] # None PROVE EntryOK(h)'
    BY DEF Allow, EntryOK
  <2>1. l1[h].from \in Request /\ l1[h].from # q
    BY <1>t, <1>q DEF TypeOK, IInv, EntryOK
  <2> QED
    BY <2>1, <1>o DEF Allow, IInv, EntryOK
<1>5. Recent' \subseteq zset'
  <2>1. Recent' \subseteq Recent
    BY <1>o, <1>r DEF Recent, Allow, SafeWindow
  <2> QED
    BY <2>1 DEF Allow, IInv
<1> QED
  BY <1>1, <1>2, <1>3, <1>4, <1>5 DEF IInv

\* The script's answer: an admission is in the sorted set when it is counted.
LEMMA EvaluateIInv ==
    ASSUME IInv, NEW q \in Request, Evaluate(q)
    PROVE  IInv'
<1> DEFINE r == req'[q]
<1>t. TypeOK /\ now \in Nat
  BY DEF IInv, TypeOK
<1>q. /\ req[q].pc = "eval" /\ req[q] \in RequestState
      /\ req[q].stamp \in Int /\ req[q].at \in Nat
  BY <1>t, RequestTypes DEF Evaluate
<1>e. /\ zset' \subseteq zset \cup {q}
      /\ zset' \in SUBSET Request
      /\ Cardinality(zset') <= Limit
      /\ expireAt' \in Nat
      /\ expireAt <= expireAt' /\ expireAt' <= now + Window
      /\ Fits(req[q].stamp) => q \in zset' /\ expireAt' = now + Window
      /\ ~Fits(req[q].stamp) => zset' \subseteq zset
      /\ Recent \subseteq zset'
  BY <1>q, ScriptEffect DEF Evaluate
<1>r. /\ r.pc = IF Fits(req[q].stamp) THEN "set" ELSE "publish"
      /\ r.stamp = req[q].stamp /\ r.at = now /\ r.node = req[q].node
      /\ r \in RequestState
  BY <1>t, <1>q, Zenon DEF Evaluate, TypeOK, RequestState, RequestPC
<1>o. \A p \in Request : p # q => req'[p] = req[p]
  BY <1>t DEF Evaluate, TypeOK
<1>u. req' = [req EXCEPT ![q] = r]
  BY <1>t, Zenon DEF Evaluate, TypeOK
<1>c. UNCHANGED <<now, l1, inbox, up, stub, faults, lost>>
  BY DEF Evaluate
<1>1. TypeOK'
  BY <1>t, <1>e, <1>r, <1>u, <1>c DEF TypeOK
<1>s. Started' = Started /\ q \in Started
  BY <1>o, <1>r, <1>q DEF Started
<1>2. ZSetOK'
  <2>1. \A p \in zset' : req'[p].pc \in Admits \/ p \in lost'
    <3> SUFFICES ASSUME NEW p \in zset' PROVE req'[p].pc \in Admits \/ p \in lost'
      OBVIOUS
    <3>1. CASE p = q
      <4>1. CASE Fits(req[q].stamp)
        BY <4>1, <3>1, <1>r DEF Admits
      <4>2. CASE ~Fits(req[q].stamp)
        BY <4>2, <3>1, <1>e, <1>q, <1>c DEF IInv, ZSetOK, Admits
      <4> QED
        BY <4>1, <4>2
    <3>2. CASE p # q
      BY <3>2, <1>e, <1>o, <1>c DEF IInv, ZSetOK
    <3> QED
      BY <3>1, <3>2
  <2> QED
    BY <2>1, <1>e, <1>s, <1>c DEF IInv, ZSetOK
<1>3. \A p \in Request : Timing(p)'
  <2>1. Timing(q)'
    <3>1. /\ req[q].at <= now /\ req[q].stamp <= req[q].at + MaxSkew
          /\ req[q].stamp >= req[q].at - MaxSkew /\ now - req[q].at <= MaxDelay
      BY <1>q DEF IInv, Timing, Waiting
    <3> QED
      BY <3>1, <1>t, <1>q, <1>r, <1>e, <1>c, LimiterAssumption
      DEF Timing, Admits, Waiting
  <2>2. ASSUME NEW p \in Request, p # q PROVE Timing(p)'
    <3>1. Timing(p) /\ req'[p] = req[p] /\ req[p].at \in Nat /\ expireAt \in Nat
      BY <2>2, <1>t, <1>o, RequestTypes DEF IInv, TypeOK
    <3> QED
      BY <3>1, <1>e, <1>c, LimiterAssumption DEF Timing
  <2> QED
    BY <2>1, <2>2
<1>4. \A h \in Node : EntryOK(h)'
  <2> SUFFICES ASSUME NEW h \in Node, l1[h] # None PROVE EntryOK(h)'
    BY <1>c DEF EntryOK
  <2>1. l1[h].from \in Request /\ l1[h].from # q
    BY <1>t, <1>q DEF TypeOK, IInv, EntryOK
  <2> QED
    BY <2>1, <1>o, <1>c DEF IInv, EntryOK
<1>5. Recent' \subseteq zset'
  <2> SUFFICES ASSUME NEW p \in Recent' PROVE p \in zset'
    OBVIOUS
  <2>1. CASE p = q
    BY <2>1, <1>r, <1>e DEF Recent
  <2>2. CASE p # q
    <3>1. p \in Recent
      BY <2>2, <1>o, <1>c DEF Recent, SafeWindow
    <3> QED
      BY <3>1, <1>e
  <2> QED
    BY <2>1, <2>2
<1> QED
  BY <1>1, <1>2, <1>3, <1>4, <1>5 DEF IInv

\* The script ran but nobody heard: the member is charged to a lost request.
LEMMA ReplyLostIInv ==
    ASSUME IInv, NEW q \in Request, ReplyLost(q)
    PROVE  IInv'
<1>t. TypeOK /\ now \in Nat /\ faults \in Nat
  BY DEF IInv, TypeOK
<1>q. req[q].pc = "eval"
  BY DEF ReplyLost
<1>e. /\ zset' \subseteq zset \cup {q}
      /\ zset' \in SUBSET Request
      /\ Cardinality(zset') <= Limit
      /\ expireAt' \in Nat
      /\ expireAt <= expireAt' /\ expireAt' <= now + Window
      /\ ~Fits(req[q].stamp) => zset' \subseteq zset
      /\ Recent \subseteq zset'
  BY <1>q, ScriptEffect DEF ReplyLost
<1>c. /\ UNCHANGED <<now, l1, inbox, req, up, stub>>
      /\ lost' = IF Fits(req[q].stamp) THEN lost \cup {q} ELSE lost
      /\ faults' = faults + 1
  BY DEF ReplyLost
<1>1. TypeOK'
  BY <1>t, <1>e, <1>c DEF TypeOK
<1>s. Started' = Started /\ q \in Started
  BY <1>c, <1>q DEF Started
<1>2. ZSetOK'
  BY <1>e, <1>s, <1>c DEF IInv, ZSetOK
<1>3. \A p \in Request : Timing(p)'
  <2> SUFFICES ASSUME NEW p \in Request PROVE Timing(p)'
    OBVIOUS
  <2>1. Timing(p) /\ req[p].at \in Nat /\ expireAt \in Nat
    BY <1>t, RequestTypes DEF IInv, TypeOK
  <2> QED
    BY <2>1, <1>e, <1>c, LimiterAssumption DEF Timing
<1>4. \A h \in Node : EntryOK(h)'
  BY <1>c DEF IInv, EntryOK
<1>5. Recent' \subseteq zset'
  BY <1>e, <1>c DEF Recent, SafeWindow
<1> QED
  BY <1>1, <1>2, <1>3, <1>4, <1>5 DEF IInv

\* A step that ends a call of Allow: no time and no member is touched.
LEMMA AnswerIInv ==
    ASSUME IInv, NEW q \in Request, EvalFails(q) \/ Set(q) \/ Publish(q)
    PROVE  IInv'
<1> DEFINE r == req'[q]
<1>t. TypeOK /\ now \in Nat
  BY DEF IInv, TypeOK
<1>q. /\ req[q].pc \in Waiting /\ req[q] \in RequestState
      /\ req[q].node \in Node \cup {None} /\ req[q].at \in Nat
  BY <1>t, RequestTypes DEF EvalFails, Set, Publish, Waiting
<1>r. /\ r.stamp = req[q].stamp /\ r.at = req[q].at /\ r.node = req[q].node
      /\ r.pc \in {"error", "admitted", "rejected"} /\ r \in RequestState
      /\ r.pc = "admitted" => Set(q) /\ req[q].pc = "set"
  BY <1>t, <1>q DEF EvalFails, Set, Publish, TypeOK, RequestState, RequestPC
<1>o. \A p \in Request : p # q => req'[p] = req[p]
  BY <1>t DEF EvalFails, Set, Publish, TypeOK
<1>u. req' = [req EXCEPT ![q] = r]
  BY <1>t DEF EvalFails, Set, Publish, TypeOK
<1>c. UNCHANGED <<now, zset, expireAt, up, stub, lost>> /\ faults' \in Nat
  BY <1>t DEF EvalFails, Set, Publish, ClientGone, TypeOK
<1>d. req[q].pc # "set" => UNCHANGED l1
  BY DEF EvalFails, Set, Publish
<1>p. req[q].pc = "set" <=> r.pc = "admitted"
  <2>1. req[q].pc = "set" => Set(q)
    BY DEF EvalFails, Publish
  <2>2. Set(q) => r.pc = "admitted"
    BY <1>t, <1>q DEF Set, TypeOK, RequestState
  <2> QED
    BY <2>1, <2>2, <1>r
<1>x. Expiration = now + l1TTL /\ Expiration \in Nat /\ Expiration > 0
  BY <1>t, TTLPositive DEF Expiration
<1>i. inbox' \in [Node -> SUBSET Request]
  BY <1>t DEF EvalFails, Set, Publish, TypeOK
<1>l. Set(q) => l1' = [l1 EXCEPT ![req[q].node] = [exp |-> Expiration, from |-> q]]
  BY DEF Set
<1>1. TypeOK'
  <2>1. /\ l1' \in [Node -> [exp : Nat, from : Request] \cup {None}]
        /\ \A g \in Node : l1'[g] # None => l1'[g].exp <= now + l1TTL
    <3>1. CASE r.pc = "admitted"
      BY <3>1, <1>t, <1>r, <1>x, <1>l, TTLPositive DEF TypeOK
    <3>2. CASE r.pc # "admitted"
      BY <3>2, <1>t, <1>d, <1>p DEF TypeOK
    <3> QED
      BY <3>1, <3>2
  <2> QED
    BY <2>1, <1>t, <1>r, <1>u, <1>c, <1>i DEF TypeOK
<1>s. Started' = Started
  BY <1>o, <1>r, <1>q DEF Started, Waiting
<1>2. ZSetOK'
  <2>1. \A p \in zset : req'[p].pc \in Admits \/ p \in lost
    <3> SUFFICES ASSUME NEW p \in zset, p \notin lost PROVE req'[p].pc \in Admits
      OBVIOUS
    <3>1. p \in Request /\ req[p].pc \in Admits
      BY <1>t DEF IInv, ZSetOK, TypeOK
    <3> QED
      BY <3>1, <1>o, <1>p, <1>q DEF Admits, Waiting
  <2> QED
    BY <2>1, <1>s, <1>c DEF IInv, ZSetOK
<1>3. \A p \in Request : Timing(p)'
  <2>1. Timing(q)'
    <3>1. Timing(q)
      BY DEF IInv
    <3> QED
      BY <3>1, <1>r, <1>c DEF Timing, Admits, Waiting
  <2>2. \A p \in Request : p # q => Timing(p)'
    BY <1>o, <1>c DEF IInv, Timing
  <2> QED
    BY <2>1, <2>2
<1>4. \A h \in Node : EntryOK(h)'
  <2> SUFFICES ASSUME NEW h \in Node, l1'[h] # None PROVE EntryOK(h)'
    BY DEF EntryOK
  <2>1. CASE r.pc = "admitted" /\ h = req[q].node
    <3>1. l1'[h] = [exp |-> Expiration, from |-> q]
      BY <2>1, <1>l, <1>r, <1>t DEF TypeOK
    <3>2. now - req[q].at <= MaxDelay
      BY <1>q DEF IInv, Timing
    <3>3. l1'[h].exp = now + l1TTL /\ l1'[h].from = q
      BY <3>1, <1>x
    <3> QED
      BY <2>1, <3>2, <3>3, <1>r, <1>q, <1>x, <1>t, TTLPositive, LimiterAssumption
      DEF EntryOK
  <2>2. CASE ~(r.pc = "admitted" /\ h = req[q].node)
    <3>1. l1'[h] = l1[h]
      BY <2>2, <1>l, <1>r, <1>d, <1>p, <1>t DEF TypeOK
    <3>2. l1[h].from \in Request /\ l1[h].from # q
      BY <3>1, <1>t, <1>q DEF TypeOK, IInv, EntryOK, Waiting
    <3> QED
      BY <3>1, <3>2, <1>o DEF IInv, EntryOK
  <2> QED
    BY <2>1, <2>2
<1>5. Recent' \subseteq zset'
  <2>1. Recent' \subseteq Recent
    BY <1>o, <1>r, <1>c DEF Recent, SafeWindow
  <2> QED
    BY <2>1, <1>c DEF IInv
<1> QED
  BY <1>1, <1>2, <1>3, <1>4, <1>5 DEF IInv

\* A restart loses the admissions whose answer was on its way.
LEMMA RestartIInv ==
    ASSUME IInv, NEW g \in Node, GatewayRestart(g)
    PROVE  IInv'
<1>t. TypeOK /\ faults \in Nat
  BY DEF IInv, TypeOK
<1>c. /\ UNCHANGED <<now, zset, expireAt, up>>
      /\ faults' = faults + 1
      /\ l1' = [l1 EXCEPT ![g] = None]
      /\ inbox' = [inbox EXCEPT ![g] = {}]
      /\ stub' = IF up THEN stub \ {g} ELSE stub \cup {g}
  BY DEF GatewayRestart
<1>r. /\ req' \in [Request -> RequestState]
      /\ \A p \in Request :
            \/ req'[p] = req[p]
            \/ /\ req[p].pc \in Waiting /\ req'[p].pc = "gone"
               /\ req'[p].stamp = req[p].stamp /\ req'[p].at = req[p].at
  <2>1. \A p \in Request :
            req[p] \in RequestState /\ [req[p] EXCEPT !.pc = "gone"] \in RequestState
    BY <1>t, RequestTypes DEF RequestState, RequestPC
  <2> QED
    BY <2>1 DEF GatewayRestart, RequestState
<1>l. /\ lost \subseteq lost' /\ lost' \in SUBSET Request
      /\ \A p \in lost' : p \in lost \/ req[p].pc = "set"
      /\ \A p \in Request : req[p].pc = "set" => p \in lost' \/ req'[p] = req[p]
  BY <1>t DEF GatewayRestart, TypeOK
<1>1. TypeOK'
  BY <1>t, <1>c, <1>r, <1>l DEF TypeOK
<1>s. Started' = Started
  BY <1>r DEF Started, Waiting
<1>2. ZSetOK'
  <2>1. \A p \in zset : req'[p].pc \in Admits \/ p \in lost'
    <3> SUFFICES ASSUME NEW p \in zset, p \notin lost' PROVE req'[p].pc \in Admits
      OBVIOUS
    <3>1. p \in Request /\ req[p].pc \in Admits
      BY <1>t, <1>l DEF IInv, ZSetOK, TypeOK
    <3> QED
      BY <3>1, <1>l, <1>r DEF Admits, Waiting
  <2>2. lost' \subseteq Started
    BY <1>l DEF IInv, ZSetOK, Started
  <2> QED
    BY <2>1, <2>2, <1>s, <1>c DEF IInv, ZSetOK
<1>3. \A p \in Request : Timing(p)'
  <2> SUFFICES ASSUME NEW p \in Request PROVE Timing(p)'
    OBVIOUS
  <2>1. Timing(p)
    BY DEF IInv
  <2> QED
    BY <2>1, <1>r, <1>c DEF Timing, Admits, Waiting
<1>4. \A h \in Node : EntryOK(h)'
  <2> SUFFICES ASSUME NEW h \in Node, l1'[h] # None PROVE EntryOK(h)'
    BY DEF EntryOK
  <2>1. l1'[h] = l1[h]
    BY <1>c, <1>t DEF TypeOK
  <2>2. l1[h].from \in Request /\ req[l1[h].from].pc = "admitted"
    BY <2>1, <1>t DEF TypeOK, IInv, EntryOK
  <2>3. req'[l1[h].from] = req[l1[h].from]
    BY <2>2, <1>r DEF Waiting
  <2> QED
    BY <2>1, <2>3 DEF IInv, EntryOK
<1>5. Recent' \subseteq zset'
  <2>1. Recent' \subseteq Recent
    BY <1>r, <1>c DEF Recent, SafeWindow
  <2> QED
    BY <2>1, <1>c DEF IInv
<1> QED
  BY <1>1, <1>2, <1>3, <1>4, <1>5 DEF IInv

\* Every other step: time passes, Redis comes and goes, an entry is dropped.
LEMMA OtherIInv ==
    ASSUME IInv,
           \/ \E g \in Node : Invalidate(g)
           \/ RedisDown \/ RedisUp \/ Tick
           \/ UNCHANGED vars
    PROVE  IInv'
<1>t. TypeOK /\ now \in Nat /\ now' \in Nat /\ now <= now' /\ faults \in Nat
  BY DEF IInv, TypeOK, Invalidate, RedisDown, RedisUp, Tick, vars
<1>c. UNCHANGED <<zset, expireAt, req, stub, lost>>
  BY DEF Invalidate, RedisDown, RedisUp, Tick, vars
<1>l. /\ l1' \in [Node -> [exp : Nat, from : Request] \cup {None}]
      /\ \A g \in Node : l1'[g] # None => l1'[g] = l1[g]
  BY <1>t DEF Invalidate, RedisDown, RedisUp, Tick, vars, TypeOK
<1>i. inbox' \in [Node -> SUBSET Request]
  BY <1>t DEF Invalidate, RedisDown, RedisUp, Tick, vars, TypeOK
<1>f. faults' \in Nat
  BY <1>t DEF Invalidate, RedisDown, RedisUp, Tick, vars
<1>b. up' \in BOOLEAN
  <2>1. up' = up \/ up' = TRUE \/ up' = FALSE
    BY DEF Invalidate, RedisDown, RedisUp, Tick, vars
  <2> QED
    BY <2>1, <1>t, Zenon DEF TypeOK
<1>1. TypeOK'
  BY <1>t, <1>c, <1>l, <1>i, <1>f, <1>b, TTLPositive DEF TypeOK
<1>s. Started' = Started
  BY <1>c DEF Started
<1>2. ZSetOK'
  <2>1. expireAt' <= now' + Window
    <3>1. expireAt <= now + Window /\ expireAt \in Nat
      BY DEF IInv, ZSetOK, TypeOK
    <3>2. expireAt' = expireAt /\ Window \in Nat
      BY <1>c, LimiterAssumption
    <3>3. ASSUME NEW e \in Nat, NEW w \in Nat, NEW m \in Nat, NEW n \in Nat,
                 e <= m + w, m <= n
          PROVE  e <= n + w
      BY <3>3
    <3> QED
      BY <3>1, <3>2, <3>3, <1>t, Zenon
  <2> QED
    BY <2>1, <1>s, <1>c DEF IInv, ZSetOK
<1>3. \A p \in Request : Timing(p)'
  <2> SUFFICES ASSUME NEW p \in Request PROVE Timing(p)'
    OBVIOUS
  <2>1. Timing(p) /\ req[p].at \in Nat
    BY <1>t, RequestTypes DEF IInv
  <2>2. req[p].pc \in Waiting => now' - req[p].at <= MaxDelay
    <3>1. CASE Tick
      BY <3>1, <2>1, <1>t, LimiterAssumption DEF Tick
    <3>2. CASE ~Tick
      BY <3>2, <2>1 DEF Invalidate, RedisDown, RedisUp, vars, Timing
    <3> QED
      BY <3>1, <3>2
  <2> QED
    BY <2>1, <2>2, <1>t, <1>c DEF Timing
<1>4. \A h \in Node : EntryOK(h)'
  BY <1>l, <1>c DEF IInv, EntryOK
<1>5. Recent' \subseteq zset'
  <2>1. Recent' \subseteq Recent
    <3> SUFFICES ASSUME NEW p \in Recent' PROVE p \in Recent
      OBVIOUS
    <3>1. p \in Request /\ req[p].at \in Nat
      BY <1>t, RequestTypes DEF Recent
    <3> QED
      BY <3>1, <1>t, <1>c, LimiterAssumption DEF Recent, SafeWindow
  <2> QED
    BY <2>1, <1>c DEF IInv
<1> QED
  BY <1>1, <1>2, <1>3, <1>4, <1>5 DEF IInv

\* The invariant is inductive.
LEMMA NextIInv == IInv /\ [Next]_vars => IInv'
<1> SUFFICES ASSUME IInv, [Next]_vars PROVE IInv'
  OBVIOUS
<1>1. CASE \E q \in Request, g \in Node : Allow(q, g)
  BY <1>1, AllowIInv
<1>2. CASE \E q \in Request : Evaluate(q)
  BY <1>2, EvaluateIInv
<1>3. CASE \E q \in Request : ReplyLost(q)
  BY <1>3, ReplyLostIInv
<1>4. CASE \E q \in Request : EvalFails(q) \/ Set(q) \/ Publish(q)
  BY <1>4, AnswerIInv
<1>5. CASE \E g \in Node : GatewayRestart(g)
  BY <1>5, RestartIInv
<1>6. CASE \/ \E g \in Node : Invalidate(g)
           \/ RedisDown \/ RedisUp \/ Tick
           \/ UNCHANGED vars
  BY <1>6, OtherIInv
<1> QED
  BY <1>1, <1>2, <1>3, <1>4, <1>5, <1>6 DEF Next

\* IInv holds of every reachable state.
THEOREM Invariance == Spec => []IInv
BY InitIInv, NextIInv, PTL DEF Spec

\* The state of the limiter is well typed, and no L1 entry outlives one
\* l1TTL from now.
THEOREM TypeCorrect == Spec => []TypeOK
<1>1. IInv => TypeOK
  BY DEF IInv
<1> QED
  BY <1>1, Invariance, PTL

\* For any number of gateways and requests, slidingWindowLua admits at most
\* Limit requests in any stretch of the window less the delay and the skew.
THEOREM L2Limited == Spec => []L2WithinLimit
<1>1. IInv => L2WithinLimit
  <2> SUFFICES ASSUME IInv PROVE L2WithinLimit
    OBVIOUS
  <2>1. IsFiniteSet(zset)
    BY FS_Subset DEF IInv, ZSetOK
  <2>2. IsFiniteSet(Recent) /\ Cardinality(Recent) <= Cardinality(zset)
    BY <2>1, FS_Subset DEF IInv
  <2>3. Cardinality(Recent) \in Nat /\ Cardinality(zset) \in Nat
    BY <2>1, <2>2, FS_CardinalityType
  <2> QED
    BY <2>2, <2>3, LimiterAssumption DEF IInv, ZSetOK, L2WithinLimit
<1> QED
  BY <1>1, Invariance, PTL

\* A gateway never answers from an L1 entry older than the cache lifetime and
\* one reply's delay, even when every invalidation is lost.
THEOREM L1Expires == Spec => []L1ShortLived
<1>1. IInv => L1ShortLived
  <2> SUFFICES ASSUME IInv, NEW g \in Node, Get(g)
               PROVE  /\ req[l1[g].from].pc = "admitted"
                      /\ req[l1[g].from].node = g
                      /\ now - req[l1[g].from].at <= l1TTL + MaxDelay
    BY DEF L1ShortLived
  <2>1. TypeOK /\ l1[g] # None /\ EntryOK(g)
    BY DEF IInv, Get
  <2>2. l1[g].from \in Request /\ l1[g].exp \in Nat /\ now \in Nat
    BY <2>1 DEF TypeOK
  <2>3. req[l1[g].from].at \in Nat
    BY <2>1, <2>2, RequestTypes
  <2> QED
    BY <2>1, <2>2, <2>3, TTLPositive, LimiterAssumption DEF EntryOK, Get
<1> QED
  BY <1>1, Invariance, PTL

\* A request is rejected only when the whole limit was used up in the window
\* and its margin by requests the script had let through.
THEOREM Justified == Spec => RejectionsJustified
<1>1. IInv /\ [Next]_vars =>
        [\A q \in Request : req[q].pc = "eval" /\ req'[q].pc = "publish"
                               => Cardinality(Charged) >= Limit]_vars
  <2> SUFFICES ASSUME IInv, Next, NEW q \in Request,
                      req[q].pc = "eval", req'[q].pc = "publish"
               PROVE  Cardinality(Charged) >= Limit
    OBVIOUS
  <2>t. TypeOK /\ now \in Nat /\ expireAt \in Nat
    BY DEF IInv, TypeOK
  <2>q. /\ req[q].stamp \in Int /\ req[q].at \in Nat
        /\ req[q].stamp >= req[q].at - MaxSkew /\ now - req[q].at <= MaxDelay
    BY <2>t, RequestTypes DEF IInv, Timing, Waiting
  <2>e. Evaluate(q)
    <3>1. ASSUME NEW p \in Request, NEW g \in Node, Allow(p, g) PROVE FALSE
      BY <3>1, <2>t DEF Allow, TypeOK
    <3>2. ASSUME NEW p \in Request, EvalFails(p) \/ Set(p) \/ Publish(p) PROVE FALSE
      BY <3>2, <2>t DEF EvalFails, Set, Publish, TypeOK, RequestState
    <3>3. ASSUME NEW g \in Node, GatewayRestart(g) PROVE FALSE
      <4>1. req[q] \in RequestState
        BY <2>t, RequestTypes
      <4>2. [req[q] EXCEPT !.pc = "gone"].pc = "gone"
        BY <4>1 DEF RequestState
      <4>3. req'[q] \in {req[q], [req[q] EXCEPT !.pc = "gone"]}
        BY <3>3 DEF GatewayRestart
      <4> QED
        BY <4>2, <4>3, Zenon
    <3>4. ASSUME \/ \E p \in Request : ReplyLost(p)
                 \/ \E g \in Node : Invalidate(g)
                 \/ RedisDown \/ RedisUp \/ Tick
          PROVE FALSE
      BY <3>4 DEF ReplyLost, Invalidate, RedisDown, RedisUp, Tick
    <3>5. PICK p \in Request : Evaluate(p)
      BY <3>1, <3>2, <3>3, <3>4 DEF Next
    <3>6. p = q
      BY <3>5, <2>t DEF Evaluate, TypeOK
    <3> QED
      BY <3>5, <3>6
  <2> DEFINE K == Kept(req[q].stamp)
  <2>f. ~(Cardinality(K) < Limit)
    BY <2>e, <2>t DEF Evaluate, Fits, TypeOK, RequestState
  <2>1. K \subseteq Charged
    <3> SUFFICES ASSUME NEW p \in K PROVE p \in Charged
      OBVIOUS
    <3>1. p \in zset /\ req[p].stamp > req[q].stamp - Window /\ p \in Request
      BY <2>t DEF Kept, TypeOK
    <3>2. req[p].pc \in Admits \/ p \in lost
      BY <3>1 DEF IInv, ZSetOK
    <3>3. /\ req[p].stamp \in Int /\ req[p].at \in Nat
          /\ req[p].stamp <= req[p].at + MaxSkew
      BY <3>1, <2>t, RequestTypes DEF IInv, Timing
    <3>4. req[p].at > now - Window - MaxDelay - 2 * MaxSkew
      BY <3>1, <3>3, <2>q, <2>t, LimiterAssumption
    <3> QED
      BY <3>1, <3>2, <3>4 DEF Charged, Admits
  <2>2. IsFiniteSet(Charged)
    <3>1. Charged \subseteq Started
      BY DEF Charged, Started, IInv, ZSetOK
    <3> QED
      BY <3>1, FS_Subset DEF IInv, ZSetOK
  <2>3. /\ IsFiniteSet(K) /\ Cardinality(K) <= Cardinality(Charged)
    BY <2>1, <2>2, FS_Subset
  <2>4. Cardinality(K) \in Nat /\ Cardinality(Charged) \in Nat
    BY <2>2, <2>3, FS_CardinalityType
  <2> QED
    BY <2>f, <2>3, <2>4, LimiterAssumption
<1> QED
  BY <1>1, Invariance, PTL DEF Spec, RejectionsJustified

=============================================================================

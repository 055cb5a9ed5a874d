--------------------------- MODULE StartupProofs ---------------------------
(***************************************************************************)
(* Proofs about Startup, for any environments and .env files of any        *)
(* length, any way to launch the processes, any settings that cannot be    *)
(* used and any number of faults.                                          *)
(***************************************************************************)
EXTENDS Startup, WellFoundedInduction, TLAPS

\* Every leaf that names no prover of its own has 30 seconds of SMT.
USE SMTT(30)

\* The settings while they are read.
Reading ==
    settings # Read =>
        /\ settings \in [env : Env, file : File, line : Nat, loaded : [Key -> Found]]
        /\ settings.line <= Len(settings.file)

\* The positions of main a process has behind it.
Passed(p) ==
    CASE proc[p] = "starting"           -> {i \in DOMAIN Main(p) : i < step[p]}
      [] proc[p] \in {"running", "deaf"} -> DOMAIN Main(p)
      [] OTHER                          -> {}

\* What a step of main leaves behind, among these objects.
Made(s, objects, declared) ==
    /\ s \in Range(Schema) => s \in objects
    /\ s \in Range(Topology) => s \in declared
    /\ s = "consume" => "webhook_queue" \in declared

\* What a process has made is still there.
Behind == \A p \in Proc : \A i \in Passed(p) : Made(Main(p)[i], schema, topology)

\* The gateway has decided on a limiter once it is past the ping.
Decided == \A i \in Passed("gateway") : Main("gateway")[i] = "ping" => limiter # "none"

\* The inductive invariant.
IInv ==
    /\ TypeOK
    /\ Reading
    /\ EnvironmentFirst
    /\ ProductionIsExplicit
    /\ DeadLetterRouteFirst
    /\ Behind
    /\ Decided

-----------------------------------------------------------------------------
(* The steps of main.                                                      *)

\* The objects of the schema and of the topology.
LEMMA Objects ==
    /\ Range(Schema) = {"uuid-ossp", "events", "api_keys", "idx_events_status",
                        "idx_events_created_at", "idx_api_keys_is_active"}
    /\ Range(Topology) = {"webhook_dlx", "webhook_dlq", "binding", "webhook_queue"}
BY DEF Schema, Topology, Range

\* The names of the steps.
Name == {"load", "policy", "redis", "ping", "pool", "dial", "proxy", "listen", "consume",
         "uuid-ossp", "events", "api_keys", "idx_events_status", "idx_events_created_at",
         "idx_api_keys_is_active", "webhook_dlx", "webhook_dlq", "binding", "webhook_queue"}

\* One part of main after another.
LEMMA Joined ==
    ASSUME NEW a \in Seq(Name), NEW b \in Seq(Name)
    PROVE  /\ a \o b \in Seq(Name) /\ Len(a \o b) = Len(a) + Len(b)
           /\ \A i \in 1 .. Len(a) : (a \o b)[i] = a[i]
           /\ \A i \in (Len(a) + 1) .. (Len(a) + Len(b)) : (a \o b)[i] = b[i - Len(a)]
OBVIOUS

\* The parts that both have in common.
LEMMA Parts ==
    /\ Schema \in Seq(Name) /\ Len(Schema) = 6
    /\ Topology \in Seq(Name) /\ Len(Topology) = 4
BY DEF Schema, Topology, Name

\* main of the gateway, written out.
LEMMA GatewaySteps ==
    /\ GatewayMain \in Seq(Name) /\ Len(GatewayMain) = 18
    /\ GatewayMain[4] = "ping"
    /\ \A i \in 1 .. 5 : GatewayMain[i] \in {"load", "policy", "redis", "ping", "pool"}
    /\ \A i \in 6 .. 11 : GatewayMain[i] = Schema[i - 5]
    /\ GatewayMain[12] = "dial"
    /\ \A i \in 13 .. 16 : GatewayMain[i] = Topology[i - 12]
    /\ GatewayMain[17] = "proxy" /\ GatewayMain[18] = "listen"
<1> DEFINE a == <<"load", "policy", "redis", "ping", "pool">>
           b == a \o Schema
           c == b \o <<"dial">>
           d == c \o Topology
           e == <<"proxy", "listen">>
<1>1. /\ a \in Seq(Name) /\ Len(a) = 5 /\ a[4] = "ping"
      /\ a[1] = "load" /\ a[2] = "policy" /\ a[3] = "redis" /\ a[5] = "pool"
  BY DEF Name
<1>2. /\ <<"dial">> \in Seq(Name) /\ Len(<<"dial">>) = 1 /\ <<"dial">>[1] = "dial"
  BY DEF Name
<1>3. /\ e \in Seq(Name) /\ Len(e) = 2 /\ e[1] = "proxy" /\ e[2] = "listen"
  BY DEF Name
<1>4. GatewayMain = d \o e
  BY DEF GatewayMain
<1> HIDE DEF a, b, c, d, e
<1>5. /\ b \in Seq(Name) /\ Len(b) = 11
      /\ \A i \in 1 .. 5 : b[i] = a[i]
      /\ \A i \in 6 .. 11 : b[i] = Schema[i - 5]
  <2>1. /\ b \in Seq(Name) /\ Len(b) = Len(a) + Len(Schema)
        /\ \A i \in 1 .. Len(a) : b[i] = a[i]
        /\ \A i \in (Len(a) + 1) .. (Len(a) + Len(Schema)) : b[i] = Schema[i - Len(a)]
    BY <1>1, Parts, Joined, Zenon DEF b
  <2> QED
    BY <2>1, <1>1, Parts
<1>6. /\ c \in Seq(Name) /\ Len(c) = 12
      /\ \A i \in 1 .. 11 : c[i] = b[i]
      /\ c[12] = "dial"
  <2>1. /\ c \in Seq(Name) /\ Len(c) = Len(b) + Len(<<"dial">>)
        /\ \A i \in 1 .. Len(b) : c[i] = b[i]
        /\ \A i \in (Len(b) + 1) .. (Len(b) + Len(<<"dial">>)) : c[i] = <<"dial">>[i - Len(b)]
    BY <1>2, <1>5, Joined, Zenon DEF c
  <2> QED
    BY <2>1, <1>2, <1>5
<1>7. /\ d \in Seq(Name) /\ Len(d) = 16
      /\ \A i \in 1 .. 12 : d[i] = c[i]
      /\ \A i \in 13 .. 16 : d[i] = Topology[i - 12]
  <2>1. /\ d \in Seq(Name) /\ Len(d) = Len(c) + Len(Topology)
        /\ \A i \in 1 .. Len(c) : d[i] = c[i]
        /\ \A i \in (Len(c) + 1) .. (Len(c) + Len(Topology)) : d[i] = Topology[i - Len(c)]
    BY <1>6, Parts, Joined, Zenon DEF d
  <2> QED
    BY <2>1, <1>6, Parts
<1>8. /\ GatewayMain \in Seq(Name) /\ Len(GatewayMain) = 18
      /\ \A i \in 1 .. 16 : GatewayMain[i] = d[i]
      /\ GatewayMain[17] = "proxy" /\ GatewayMain[18] = "listen"
  <2>1. /\ GatewayMain \in Seq(Name) /\ Len(GatewayMain) = Len(d) + Len(e)
        /\ \A i \in 1 .. Len(d) : GatewayMain[i] = d[i]
        /\ \A i \in (Len(d) + 1) .. (Len(d) + Len(e)) : GatewayMain[i] = e[i - Len(d)]
    BY <1>3, <1>4, <1>7, Joined, Zenon
  <2>2. /\ Len(GatewayMain) = 18 /\ \A i \in 1 .. 16 : GatewayMain[i] = d[i]
        /\ \A i \in 17 .. 18 : GatewayMain[i] = e[i - 16]
    BY <1>3, <1>7, <2>1
  <2>3. 17 \in 17 .. 18 /\ 18 \in 17 .. 18 /\ 17 - 16 = 1 /\ 18 - 16 = 2
    OBVIOUS
  <2> QED
    BY <1>3, <2>1, <2>2, <2>3, Zenon
<1>9. \A i \in 1 .. 5 : GatewayMain[i] = a[i]
  <2>1. \A i \in 1 .. 5 : i \in 1 .. 11 /\ i \in 1 .. 12 /\ i \in 1 .. 16
    OBVIOUS
  <2>2. \A i \in 1 .. 5 : GatewayMain[i] = d[i] /\ d[i] = c[i]
    BY <1>7, <1>8, <2>1, Zenon
  <2>3. \A i \in 1 .. 5 : c[i] = b[i] /\ b[i] = a[i]
    BY <1>5, <1>6, <2>1, Zenon
  <2> QED
    BY <2>2, <2>3
<1>10. \A i \in 1 .. 5 : a[i] \in {"load", "policy", "redis", "ping", "pool"}
  <2>1. \A i \in 1 .. 5 : i = 1 \/ i = 2 \/ i = 3 \/ i = 4 \/ i = 5
    OBVIOUS
  <2> QED
    BY <1>1, <2>1, Zenon
<1>11. \A i \in 6 .. 11 : GatewayMain[i] = Schema[i - 5]
  <2>1. \A i \in 6 .. 11 : i \in 1 .. 11 /\ i \in 1 .. 12 /\ i \in 1 .. 16
    OBVIOUS
  <2>2. \A i \in 6 .. 11 : GatewayMain[i] = d[i] /\ d[i] = c[i]
    BY <1>7, <1>8, <2>1, Zenon
  <2>3. \A i \in 6 .. 11 : c[i] = b[i] /\ b[i] = Schema[i - 5]
    BY <1>5, <1>6, <2>1, Zenon
  <2> QED
    BY <2>2, <2>3
<1>12. GatewayMain[12] = "dial" /\ \A i \in 13 .. 16 : GatewayMain[i] = Topology[i - 12]
  BY <1>6, <1>7, <1>8
<1> QED
  BY <1>1, <1>8, <1>9, <1>10, <1>11, <1>12

\* main of the worker, written out.
LEMMA WorkerSteps ==
    /\ WorkerMain \in Seq(Name) /\ Len(WorkerMain) = 11
    /\ \A i \in {1, 2, 9, 10, 11} : WorkerMain[i] \in {"load", "pool", "dial", "redis", "consume"}
    /\ \A i \in 3 .. 8 : WorkerMain[i] = Schema[i - 2]
    /\ WorkerMain[11] = "consume"
<1> DEFINE a == <<"load", "pool">>
           b == a \o Schema
           c == <<"dial", "redis", "consume">>
<1>1. /\ a \in Seq(Name) /\ Len(a) = 2 /\ a[1] = "load" /\ a[2] = "pool"
  BY DEF Name
<1>2. /\ c \in Seq(Name) /\ Len(c) = 3 /\ c[1] = "dial" /\ c[2] = "redis" /\ c[3] = "consume"
  BY DEF Name
<1>3. WorkerMain = b \o c
  BY DEF WorkerMain
<1> HIDE DEF a, b, c
<1>4. /\ b \in Seq(Name) /\ Len(b) = 8
      /\ b[1] = "load" /\ b[2] = "pool"
      /\ \A i \in 3 .. 8 : b[i] = Schema[i - 2]
  <2>1. /\ b \in Seq(Name) /\ Len(b) = Len(a) + Len(Schema)
        /\ \A i \in 1 .. Len(a) : b[i] = a[i]
        /\ \A i \in (Len(a) + 1) .. (Len(a) + Len(Schema)) : b[i] = Schema[i - Len(a)]
    BY <1>1, Parts, Joined, Zenon DEF b
  <2> QED
    BY <2>1, <1>1, Parts
<1>5. /\ WorkerMain \in Seq(Name) /\ Len(WorkerMain) = 11
      /\ \A i \in 1 .. 8 : WorkerMain[i] = b[i]
      /\ WorkerMain[9] = "dial" /\ WorkerMain[10] = "redis" /\ WorkerMain[11] = "consume"
  <2>1. /\ WorkerMain \in Seq(Name) /\ Len(WorkerMain) = Len(b) + Len(c)
        /\ \A i \in 1 .. Len(b) : WorkerMain[i] = b[i]
        /\ \A i \in (Len(b) + 1) .. (Len(b) + Len(c)) : WorkerMain[i] = c[i - Len(b)]
    BY <1>2, <1>3, <1>4, Joined, Zenon
  <2>2. /\ Len(WorkerMain) = 11 /\ \A i \in 1 .. 8 : WorkerMain[i] = b[i]
        /\ \A i \in 9 .. 11 : WorkerMain[i] = c[i - 8]
    BY <1>2, <1>4, <2>1
  <2>3. /\ 9 \in 9 .. 11 /\ 10 \in 9 .. 11 /\ 11 \in 9 .. 11
        /\ 9 - 8 = 1 /\ 10 - 8 = 2 /\ 11 - 8 = 3
    OBVIOUS
  <2> QED
    BY <1>2, <2>1, <2>2, <2>3, Zenon
<1>6. WorkerMain[1] = "load" /\ WorkerMain[2] = "pool"
  BY <1>4, <1>5
<1>7. \A i \in 3 .. 8 : WorkerMain[i] = Schema[i - 2]
  BY <1>4, <1>5
<1> QED
  BY <1>5, <1>6, <1>7

\* What the proofs need of the order of main: both processes create the whole
\* schema, the gateway pings and declares the whole topology, the queue last,
\* and the worker ends with consuming and declares nothing.
LEMMA MainOrder ==
    /\ \A p \in Proc : Main(p) \in Seq(Name) /\ Len(Main(p)) \in Nat /\ 1 <= Len(Main(p))
    /\ \A p \in Proc : \A o \in Range(Schema) : \E i \in DOMAIN Main(p) : Main(p)[i] = o
    /\ \A o \in Range(Topology) : \E i \in DOMAIN Main("gateway") : Main("gateway")[i] = o
    /\ \E i \in DOMAIN Main("gateway") : Main("gateway")[i] = "ping"
    /\ \E i \in DOMAIN Main("worker") : Main("worker")[i] = "consume"
    /\ \A i \in DOMAIN Main("worker") : Main("worker")[i] \notin Range(Topology)
    /\ \A i \in DOMAIN Main("gateway") : Main("gateway")[i] = "webhook_queue" =>
          \A o \in Range(Topology) \ {"webhook_queue"} :
              \E j \in DOMAIN Main("gateway") : j < i /\ Main("gateway")[j] = o
<1> DEFINE G == GatewayMain
           W == WorkerMain
<1>1. Main("gateway") = G /\ Main("worker") = W /\ \A p \in Proc : Main(p) = G \/ Main(p) = W
  BY DEF Main, Proc
<1>2. G \in Seq(Name) /\ Len(G) = 18 /\ DOMAIN G = 1 .. 18
  BY GatewaySteps
<1>3. W \in Seq(Name) /\ Len(W) = 11 /\ DOMAIN W = 1 .. 11
  BY WorkerSteps
<1>4. \A o \in Range(Schema) : \E n \in 1 .. 6 : Schema[n] = o
  BY DEF Range, Schema
<1>5. \A o \in Range(Topology) : \E n \in 1 .. 4 : Topology[n] = o
  BY DEF Range, Topology
<1>6. /\ \A n \in 1 .. 6 : n + 5 \in 6 .. 11 /\ (n + 5) - 5 = n
      /\ \A n \in 1 .. 6 : n + 2 \in 3 .. 8 /\ (n + 2) - 2 = n
      /\ \A n \in 1 .. 4 : n + 12 \in 13 .. 16 /\ (n + 12) - 12 = n
      /\ 6 .. 11 \subseteq 1 .. 18 /\ 3 .. 8 \subseteq 1 .. 11 /\ 13 .. 16 \subseteq 1 .. 18
  OBVIOUS
<1>7. \A n \in 1 .. 6 : G[n + 5] = Schema[n] /\ n + 5 \in 1 .. 18
  BY <1>6, GatewaySteps
<1>8. \A n \in 1 .. 6 : W[n + 2] = Schema[n] /\ n + 2 \in 1 .. 11
  BY <1>6, WorkerSteps
<1>9. \A n \in 1 .. 4 : G[n + 12] = Topology[n] /\ n + 12 \in 1 .. 18
  BY <1>6, GatewaySteps
<1> HIDE DEF G, W
<1>10. \A o \in Range(Schema) : \E i \in DOMAIN G : G[i] = o
  BY <1>2, <1>4, <1>7
<1>11. \A o \in Range(Schema) : \E i \in DOMAIN W : W[i] = o
  BY <1>3, <1>4, <1>8
<1>12. \A o \in Range(Topology) : \E i \in DOMAIN G : G[i] = o
  BY <1>2, <1>5, <1>9
<1>13. /\ \E i \in DOMAIN G : G[i] = "ping"
       /\ \E i \in DOMAIN W : W[i] = "consume"
  BY <1>2, <1>3, GatewaySteps, WorkerSteps DEF G, W
<1>14. \A i \in DOMAIN W : W[i] \notin Range(Topology)
  <2>1. \A i \in 3 .. 8 : W[i] \in Range(Schema)
    BY WorkerSteps DEF W, Range, Schema
  <2>2. \A i \in 1 .. 11 : i \in {1, 2, 9, 10, 11} \/ i \in 3 .. 8
    OBVIOUS
  <2> QED
    BY <1>3, <2>1, <2>2, Objects, WorkerSteps, Zenon DEF W
<1>15. ASSUME NEW i \in DOMAIN G, G[i] = "webhook_queue",
              NEW o \in Range(Topology) \ {"webhook_queue"}
       PROVE  \E j \in DOMAIN G : j < i /\ G[j] = o
  <2>1. G[13] = "webhook_dlx" /\ G[14] = "webhook_dlq" /\ G[15] = "binding"
    BY GatewaySteps DEF G, Topology
  <2>2. \A n \in 6 .. 11 : G[n] \in Range(Schema)
    BY GatewaySteps DEF G, Range, Schema
  <2>3. i \in 1 .. 18
    BY <1>2
  <2>4. i \notin 1 .. 5
    BY <1>15, GatewaySteps, Zenon DEF G
  <2>5. i \notin 6 .. 11
    BY <1>15, <2>2, Objects
  <2>6. i # 12 /\ i # 13 /\ i # 14 /\ i # 15
    BY <1>15, <2>1, GatewaySteps, Zenon DEF G
  <2>7. 15 < i
    BY <2>3, <2>4, <2>5, <2>6
  <2>8. 13 < i /\ 14 < i /\ 13 \in DOMAIN G /\ 14 \in DOMAIN G /\ 15 \in DOMAIN G
    BY <1>2, <2>3, <2>7
  <2> QED
    BY <2>1, <2>7, <2>8, Objects
<1>16. \A p \in Proc : Main(p) \in Seq(Name) /\ Len(Main(p)) \in Nat /\ 1 <= Len(Main(p))
  <2>1. 18 \in Nat /\ 1 <= 18 /\ 11 \in Nat /\ 1 <= 11
    OBVIOUS
  <2> QED
    BY <1>1, <1>2, <1>3, <2>1, Zenon
<1>17. \A p \in Proc : \A o \in Range(Schema) : \E i \in DOMAIN Main(p) : Main(p)[i] = o
  BY <1>1, <1>10, <1>11
<1> QED
  BY <1>1, <1>12, <1>13, <1>14, <1>15, <1>16, <1>17

-----------------------------------------------------------------------------
(* The settings.                                                           *)

\* A set of line numbers has a first one.
LEMMA FirstLine ==
    ASSUME NEW S \in SUBSET Nat, S # {}
    PROVE  \E i \in S : \A j \in S : i <= j
<1> DEFINE R == OpToRel(<, Nat)
<1>1. PICK x \in S : \A y \in S : ~(<<y, x>> \in R)
  BY NatLessThanWellFounded, WFMin, Zenon
<1>2. \A y \in Nat : y < x => <<y, x>> \in R
  BY Zenon DEF OpToRel
<1>3. \A y \in S : ~(y < x)
  BY <1>1, <1>2, Zenon
<1> QED
  BY <1>3, SMT

\* An element of a sequence of Ts is a T.
LEMMA ElementType == ASSUME NEW T, NEW s \in Seq(T), NEW i \in DOMAIN s PROVE s[i] \in T
OBVIOUS

\* Taking the quotation marks off leaves a value, and never an undefined one.
LEMMA UnquoteType == \A v \in Written : Unquote(v) \in Found /\ Unquote(v) # "undefined"
<1>1. Empty # "undefined"
  BY Zenon DEF Empty
<1> QED
  BY <1>1 DEF Written, Found, Unquote

\* One more line keeps what the comments of loadFile promise.
LEMMA LineStep ==
    ASSUME NEW env \in [Key -> Found], NEW file \in Seq([key : STRING, value : Written]),
           NEW n \in Nat, n < Len(file), NEW loaded \in [Key -> Found],
           \A k \in Key : loaded[k] = Precedence(env, file, n, k)
    PROVE  /\ loadLine(loaded, file[n + 1]) \in [Key -> Found]
           /\ \A k \in Key :
                loadLine(loaded, file[n + 1])[k] = Precedence(env, file, n + 1, k)
<1> DEFINE line == file[n + 1]
           next == loadLine(loaded, line)
           S(k) == {i \in 1 .. n : file[i].key = k}
           T(k) == {i \in 1 .. (n + 1) : file[i].key = k}
           First(X) == CHOOSE i \in X : \A j \in X : i <= j
<1>1. Len(file) \in Nat /\ \A i \in 1 .. (n + 1) : file[i] \in [key : STRING, value : Written]
  <2>1. Len(file) \in Nat /\ DOMAIN file = 1 .. Len(file)
    OBVIOUS
  <2>2. \A i \in 1 .. (n + 1) : i \in DOMAIN file
    BY <2>1
  <2> QED
    BY <2>1, <2>2, ElementType, Zenon
<1>2. \A i \in 1 .. (n + 1) : Unquote(file[i].value) \in Found \ {"undefined"}
  BY <1>1, UnquoteType
<1>3. n + 1 \in 1 .. (n + 1) /\ 1 .. n \subseteq 1 .. (n + 1) /\ 1 .. (n + 1) \subseteq Nat
  OBVIOUS
<1>4. next \in [Key -> Found]
  BY <1>2, <1>3 DEF loadLine
<1>5. ASSUME NEW k \in Key PROVE next[k] = Precedence(env, file, n + 1, k)
  <2>1. next[k] = IF line.key = k /\ loaded[k] = "undefined" THEN Unquote(line.value)
                  ELSE loaded[k]
    BY DEF loadLine
  <2>2. T(k) = IF line.key = k THEN S(k) \cup {n + 1} ELSE S(k)
    OBVIOUS
  <2>3. /\ loaded[k] = IF env[k] # "undefined" \/ S(k) = {} THEN env[k]
                       ELSE Unquote(file[First(S(k))].value)
        /\ Precedence(env, file, n + 1, k) =
             IF env[k] # "undefined" \/ T(k) = {} THEN env[k]
             ELSE Unquote(file[First(T(k))].value)
    BY Zenon DEF Precedence
  <2>4. S(k) \in SUBSET Nat /\ S(k) \subseteq 1 .. n /\ T(k) \in SUBSET Nat
    BY <1>3
  <2> HIDE DEF line, next, S, T
  <2>5. CASE env[k] # "undefined"
    BY <2>1, <2>3, <2>5
  <2>6. CASE env[k] = "undefined" /\ S(k) = {}
    <3>1. CASE line.key # k
      BY <2>1, <2>2, <2>3, <2>6, <3>1
    <3>2. CASE line.key = k
      <4>1. T(k) = {n + 1}
        BY <2>2, <2>6, <3>2
      <4>2. First(T(k)) = n + 1
        BY <4>1
      <4>3. T(k) # {} /\ loaded[k] = "undefined"
        BY <2>3, <2>6, <4>1
      <4> QED
        BY <2>1, <2>3, <2>6, <3>2, <4>2, <4>3, Zenon DEF line
    <3> QED
      BY <3>1, <3>2
  <2>7. CASE env[k] = "undefined" /\ S(k) # {}
    <3>1. PICK m \in S(k) : \A j \in S(k) : m <= j
      BY <2>4, <2>7, FirstLine, Zenon
    <3>2. m \in 1 .. n /\ m \in Nat
      BY <2>4
    <3>3. First(S(k)) = m
      <4>1. \A i \in S(k) : (\A j \in S(k) : i <= j) => i = m
        BY <2>4, <3>1
      <4> QED
        BY <3>1, <4>1, Zenon
    <3>4. m \in T(k) /\ \A j \in T(k) : m <= j
      <4>1. m \in T(k) /\ \A j \in T(k) : j \in S(k) \/ j = n + 1
        BY <2>2
      <4>2. m <= n + 1
        BY <3>2
      <4> QED
        BY <3>1, <4>1, <4>2, Zenon
    <3>5. First(T(k)) = m
      <4>1. \A i \in T(k) : (\A j \in T(k) : i <= j) => i = m
        BY <2>4, <3>4
      <4> QED
        BY <3>4, <4>1, Zenon
    <3>6. loaded[k] = Unquote(file[m].value)
      BY <2>3, <2>7, <3>3, Zenon
    <3>7. loaded[k] # "undefined"
      BY <1>2, <1>3, <3>2, <3>6
    <3> QED
      BY <2>1, <2>3, <2>7, <3>4, <3>5, <3>6, <3>7, Zenon
  <2> QED
    BY <2>5, <2>6, <2>7
<1> QED
  BY <1>4, <1>5

\* What Load makes of any environment: settings of the right type, and none of
\* the built-in URLs in production.
LEMMA LoadResult ==
    ASSUME NEW loaded \in [Key -> Found]
    PROVE  /\ Load(loaded) \in [Key -> Setting \cup {"fatal"}]
           /\ IsProduction(Load(loaded)) =>
                 "default" \notin {Load(loaded)["DATABASE_URL"], Load(loaded)["RABBITMQ_URL"]}
<1> DEFINE c == [k \in Key |-> GetEnv(loaded, k)]
<1>1. \A k \in Key : GetEnv(loaded, k) \in Setting
  BY DEF GetEnv, Found, Setting
<1>2. c \in [Key -> Setting \cup {"fatal"}] /\ Fatal \in [Key -> Setting \cup {"fatal"}]
  BY <1>1 DEF Fatal
<1>3. ~IsProduction(Fatal)
  BY DEF Fatal, IsProduction, Key
<1>4. ASSUME NEW k \in Key, loaded[k] \notin {"undefined", Empty}
      PROVE  c[k] = loaded[k] /\ loaded[k] # "default"
  <2>1. loaded[k] \in Found
    OBVIOUS
  <2>2. loaded[k] # "default"
    BY <1>4, <2>1 DEF Found
  <2> QED
    BY <1>4, <2>2 DEF GetEnv
<1>5. Load(loaded) =
        IF /\ IsProduction(c)
           /\ \E k \in {"DATABASE_URL", "RABBITMQ_URL"} : loaded[k] \in {"undefined", Empty}
        THEN Fatal ELSE c
  BY DEF Load
<1> HIDE DEF c
<1>6. {"DATABASE_URL", "RABBITMQ_URL"} \subseteq Key
  BY DEF Key
<1>7. CASE Load(loaded) = Fatal
  BY <1>2, <1>3, <1>7
<1>8. CASE Load(loaded) = c /\ Load(loaded) # Fatal
  <2>1. SUFFICES ASSUME IsProduction(c)
                 PROVE  c["DATABASE_URL"] # "default" /\ c["RABBITMQ_URL"] # "default"
    BY <1>2, <1>8
  <2>2. \A k \in {"DATABASE_URL", "RABBITMQ_URL"} : loaded[k] \notin {"undefined", Empty}
    BY <1>5, <1>8, <2>1
  <2> QED
    BY <1>4, <1>6, <2>2
<1> QED
  BY <1>5, <1>7, <1>8

-----------------------------------------------------------------------------
(* A step of main.                                                         *)

\* The state of a process: where it is, and what PostgreSQL creates for it.
Placed ==
    /\ proc \in [Proc -> {"off", "starting", "running", "exited", "deaf"}]
    /\ step \in [Proc -> Nat] /\ \A p \in Proc : step[p] \in 1 .. Len(Main(p))
    /\ creating \in [Proc -> Range(Schema) \cup {"nothing"}]
    /\ \A p \in Proc : creating[p] # "nothing" => At(p, creating[p])

\* The positions of main.
LEMMA Positions ==
    \A p \in Proc : /\ DOMAIN Main(p) = 1 .. Len(Main(p)) /\ Len(Main(p)) \in Nat
                    /\ 1 \in 1 .. Len(Main(p))
BY MainOrder

\* Advance passes the position it is at and no other, and goes to a position.
LEMMA AdvancePasses ==
    ASSUME Placed, NEW p \in Proc, proc[p] = "starting", Advance(p)
    PROVE  /\ proc' \in [Proc -> {"off", "starting", "running", "exited", "deaf"}]
           /\ step' \in [Proc -> Nat] /\ \A o \in Proc : step'[o] \in 1 .. Len(Main(o))
           /\ proc'[p] \in {"starting", "running"}
           /\ Passed(p)' = Passed(p) \cup {step[p]}
           /\ \A o \in Proc : o # p => /\ proc'[o] = proc[o] /\ step'[o] = step[o]
                                       /\ Passed(o)' = Passed(o)
<1>0. /\ proc \in [Proc -> {"off", "starting", "running", "exited", "deaf"}]
      /\ step \in [Proc -> Nat] /\ \A o \in Proc : step[o] \in 1 .. Len(Main(o))
  BY DEF Placed
<1>1. DOMAIN Main(p) = 1 .. Len(Main(p)) /\ Len(Main(p)) \in Nat
  BY Positions
<1>2. Passed(p) = {i \in 1 .. Len(Main(p)) : i < step[p]}
  BY <1>1 DEF Passed
<1>3. step[p] \in 1 .. Len(Main(p)) /\ step[p] \in Nat
  BY <1>0
<1>4. CASE step[p] = Len(Main(p))
  <2>1. proc' = [proc EXCEPT ![p] = "running"] /\ step' = step
    BY <1>4 DEF Advance
  <2>2. proc'[p] = "running" /\ \A o \in Proc : o # p => proc'[o] = proc[o]
    BY <1>0, <2>1
  <2>3. Passed(p)' = 1 .. Len(Main(p))
    BY <1>1, <2>2 DEF Passed
  <2>4. Passed(p)' = Passed(p) \cup {step[p]}
    BY <1>1, <1>2, <1>3, <1>4, <2>3
  <2>5. \A o \in Proc : o # p => Passed(o)' = Passed(o)
    BY <2>1, <2>2 DEF Passed
  <2> QED
    BY <1>0, <2>1, <2>2, <2>4, <2>5
<1>5. CASE step[p] # Len(Main(p))
  <2>1. step' = [step EXCEPT ![p] = @ + 1] /\ proc' = proc
    BY <1>5 DEF Advance
  <2>2. /\ step'[p] = step[p] + 1 /\ \A o \in Proc : o # p => step'[o] = step[o]
        /\ step' \in [Proc -> Nat]
    BY <1>0, <1>3, <2>1
  <2>3. step'[p] \in 1 .. Len(Main(p))
    BY <1>1, <1>3, <1>5, <2>2
  <2>4. Passed(p)' = {i \in 1 .. Len(Main(p)) : i < step[p] + 1}
    BY <1>1, <2>1, <2>2 DEF Passed
  <2>5. Passed(p)' = Passed(p) \cup {step[p]}
    BY <1>1, <1>2, <1>3, <2>4
  <2>6. \A o \in Proc : o # p => Passed(o)' = Passed(o)
    BY <2>1, <2>2 DEF Passed
  <2>7. \A o \in Proc : step'[o] \in 1 .. Len(Main(o))
    BY <1>0, <2>2, <2>3
  <2> QED
    BY <1>0, <2>1, <2>2, <2>5, <2>6, <2>7
<1> QED
  BY <1>4, <1>5

\* Exit leaves nothing behind the process.
LEMMA ExitPasses ==
    ASSUME Placed, NEW p \in Proc, Exit(p)
    PROVE  /\ proc' \in [Proc -> {"off", "starting", "running", "exited", "deaf"}]
           /\ step' = step /\ proc'[p] = "exited"
           /\ Passed(p)' = {}
           /\ \A o \in Proc : o # p => proc'[o] = proc[o] /\ Passed(o)' = Passed(o)
<1>1. /\ proc \in [Proc -> {"off", "starting", "running", "exited", "deaf"}]
      /\ proc' = [proc EXCEPT ![p] = "exited"] /\ step' = step
  BY DEF Placed, Exit
<1>2. /\ proc'[p] = "exited" /\ \A o \in Proc : o # p => proc'[o] = proc[o]
      /\ proc' \in [Proc -> {"off", "starting", "running", "exited", "deaf"}]
  BY <1>1
<1>3. Passed(p)' = {}
  BY <1>2 DEF Passed
<1>4. \A o \in Proc : o # p => Passed(o)' = Passed(o)
  BY <1>1, <1>2 DEF Passed
<1> QED
  BY <1>1, <1>2, <1>3, <1>4

\* What PostgreSQL creates for a process is the object its step is about; at any
\* other step it creates nothing.
LEMMA CreatesNothingElse ==
    ASSUME Placed, NEW p \in Proc, NEW s, At(p, s), s \notin Range(Schema)
    PROVE  creating[p] = "nothing"
BY DEF Placed, At

\* The objects that exist after a step of main, and what the step does to the
\* process: it advances and leaves behind what it is for, or the process exits,
\* or PostgreSQL begins to create an object.
Effect(p) ==
    LET s == Main(p)[step[p]] IN
    /\ schema \subseteq schema' /\ schema' \subseteq Range(Schema)
    /\ topology \subseteq topology' /\ topology' \subseteq Range(Topology)
    /\ limiter' = limiter \/ limiter' \in {"stub", "two-tier"}
    /\ connected' = connected \/ (connected' = connected \cup {p} /\ "rabbitmq" \in up)
    /\ UNCHANGED <<deployment, up, faults>>
    /\ creating' \in [Proc -> Range(Schema) \cup {"nothing"}]
    /\ \A o \in Proc : o # p => creating'[o] = creating[o]
    /\ \/ /\ Advance(p) /\ creating'[p] = "nothing"
          /\ Made(s, schema', topology')
          /\ s = "ping" => limiter' # "none"
       \/ Exit(p) /\ creating'[p] = "nothing"
       \/ UNCHANGED <<proc, step>> /\ creating'[p] = s
    /\ topology' = topology \/ (s \in Range(Topology) /\ topology' = topology \cup {s})

\* Every step of main has such an effect.
LEMMA StepEffect ==
    ASSUME Placed, schema \subseteq Range(Schema), topology \subseteq Range(Topology),
           NEW p \in Proc, Step(p)
    PROVE  proc[p] = "starting" /\ Effect(p)
<1> DEFINE s == Main(p)[step[p]]
<1>0. creating \in [Proc -> Range(Schema) \cup {"nothing"}] /\ "nothing" \notin Range(Schema)
  BY Objects DEF Placed
<1>1. ASSUME NEW ok, AdvanceIf(p, ok) PROVE (ok /\ Advance(p)) \/ Exit(p)
  BY <1>1 DEF AdvanceIf
<1>2. CASE ParseSetting(p)
  <2>1. PICK n \in {"load", "policy", "redis", "pool", "proxy"} :
           At(p, n) /\ (Advance(p) \/ Exit(p))
    BY <1>2 DEF ParseSetting, AdvanceIf
  <2>2. n = s /\ proc[p] = "starting"
    BY <2>1 DEF At
  <2>3. n \notin Range(Schema) /\ n \notin Range(Topology) /\ n # "consume" /\ n # "ping"
    BY Objects
  <2>4. creating[p] = "nothing"
    BY <2>1, <2>3, CreatesNothingElse
  <2>5. UNCHANGED <<deployment, creating, schema, topology, up, connected, limiter, faults>>
    BY <1>2 DEF ParseSetting
  <2>6. Made(s, schema', topology')
    BY <2>2, <2>3, <2>5, Zenon DEF Made
  <2> QED
    BY <1>0, <2>1, <2>2, <2>3, <2>4, <2>5, <2>6 DEF Effect
<1>3. CASE Ping(p)
  <2>1. s = "ping" /\ proc[p] = "starting" /\ At(p, "ping") /\ Advance(p)
    BY <1>3 DEF Ping, At
  <2>2. limiter' \in {"stub", "two-tier"}
    BY <1>3 DEF Ping
  <2>3. creating[p] = "nothing"
    BY <2>1, CreatesNothingElse, Objects
  <2>4. UNCHANGED <<deployment, creating, schema, topology, up, connected, faults>>
    BY <1>3 DEF Ping
  <2>5. Made(s, schema', topology')
    BY <2>1, Objects DEF Made
  <2> QED
    BY <1>0, <2>1, <2>2, <2>3, <2>4, <2>5, Zenon DEF Effect
<1>4. CASE FindObject(p)
  <2>1. At(p, s) /\ s \in Range(Schema) /\ creating[p] = "nothing" /\ proc[p] = "starting"
    BY <1>4 DEF FindObject, At
  <2>2. UNCHANGED <<deployment, schema, topology, up, connected, limiter, faults>>
    BY <1>4 DEF FindObject
  <2>3. s \notin Range(Topology) /\ s # "consume" /\ s # "ping"
    BY <2>1, Objects, Zenon
  <2>4. CASE s \in schema \/ "postgres" \notin up
    <3>1. AdvanceIf(p, "postgres" \in up) /\ creating' = creating
      BY <1>4, <2>4 DEF FindObject
    <3>2. (s \in schema /\ Advance(p)) \/ Exit(p)
      BY <2>4, <3>1, Zenon DEF AdvanceIf
    <3>3. s \in schema => Made(s, schema', topology')
      BY <2>1, <2>2, <2>3, Zenon DEF Made
    <3> QED
      BY <1>0, <2>1, <2>2, <2>3, <3>1, <3>2, <3>3, Zenon DEF Effect
  <2>5. CASE ~(s \in schema \/ "postgres" \notin up)
    <3>1. creating' = [creating EXCEPT ![p] = s] /\ UNCHANGED <<proc, step>>
      BY <1>4, <2>5 DEF FindObject
    <3>2. /\ creating'[p] = s /\ \A o \in Proc : o # p => creating'[o] = creating[o]
          /\ creating' \in [Proc -> Range(Schema) \cup {"nothing"}]
      BY <1>0, <2>1, <3>1, Zenon
    <3> QED
      BY <2>1, <2>2, <3>1, <3>2, Zenon DEF Effect
  <2> QED
    BY <2>4, <2>5
<1>5. CASE CreateObject(p)
  <2> DEFINE o == creating[p]
             ok == "postgres" \in up /\ o \notin schema /\ Table(o) \subseteq schema
  <2>1. /\ o # "nothing" /\ (schema' = IF ok THEN schema \cup {o} ELSE schema)
        /\ AdvanceIf(p, ok) /\ creating' = [creating EXCEPT ![p] = "nothing"]
        /\ UNCHANGED <<deployment, topology, up, connected, limiter, faults>>
    BY <1>5 DEF CreateObject
  <2>2. o = s /\ proc[p] = "starting" /\ o \in Range(Schema)
    BY <1>0, <2>1, Zenon DEF Placed, At
  <2>3. s \notin Range(Topology) /\ s # "consume" /\ s # "ping"
    BY <2>2, Objects
  <2>4. (o \in schema' /\ Advance(p)) \/ Exit(p)
    BY <2>1 DEF AdvanceIf
  <2>5. schema \subseteq schema' /\ schema' \subseteq Range(Schema)
    BY <2>1, <2>2
  <2>6. /\ creating'[p] = "nothing" /\ \A q \in Proc : q # p => creating'[q] = creating[q]
        /\ creating' \in [Proc -> Range(Schema) \cup {"nothing"}]
    BY <1>0, <2>1
  <2>7. o \in schema' => Made(s, schema', topology')
    BY <2>2, <2>3, Zenon DEF Made
  <2> QED
    BY <2>1, <2>2, <2>3, <2>4, <2>5, <2>6, <2>7, Zenon DEF Effect
<1>6. CASE Dial(p)
  <2>1. s = "dial" /\ At(p, "dial") /\ proc[p] = "starting" /\ (Advance(p) \/ Exit(p))
    BY <1>6 DEF Dial, At, AdvanceIf
  <2>2. /\ UNCHANGED <<deployment, creating, schema, topology, up, limiter, faults>>
        /\ connected' = connected \/ (connected' = connected \cup {p} /\ "rabbitmq" \in up)
    BY <1>6 DEF Dial
  <2>3. creating[p] = "nothing"
    BY <2>1, CreatesNothingElse, Objects
  <2>4. Made(s, schema', topology')
    BY <2>1, Objects, Zenon DEF Made
  <2> QED
    BY <1>0, <2>1, <2>2, <2>3, <2>4, Objects, Zenon DEF Effect
<1>7. CASE Declare(p)
  <2>1. At(p, s) /\ s \in Range(Topology) /\ proc[p] = "starting"
    BY <1>7 DEF Declare, At
  <2>2. UNCHANGED <<deployment, creating, schema, up, connected, limiter, faults>>
    BY <1>7 DEF Declare
  <2>3. \/ Advance(p) /\ topology' = topology \cup {s}
        \/ Exit(p) /\ topology' = topology
    BY <1>7 DEF Declare, AdvanceIf
  <2>4. s \notin Range(Schema) /\ s # "consume" /\ s # "ping"
    BY <2>1, Objects
  <2>5. creating[p] = "nothing"
    BY <2>1, <2>4, CreatesNothingElse, Zenon
  <2>6. s \in topology' => Made(s, schema', topology')
    BY <2>4, Zenon DEF Made
  <2>7. topology \subseteq topology' /\ topology' \subseteq Range(Topology)
    BY <2>1, <2>3, Zenon
  <2> QED
    BY <1>0, <2>1, <2>2, <2>3, <2>4, <2>5, <2>6, <2>7, Zenon DEF Effect
<1>8. CASE Consume(p)
  <2>1. s = "consume" /\ At(p, "consume") /\ proc[p] = "starting"
    BY <1>8 DEF Consume, At
  <2>2. UNCHANGED <<deployment, creating, schema, topology, up, connected, limiter, faults>>
    BY <1>8 DEF Consume
  <2>3. ("webhook_queue" \in topology /\ Advance(p)) \/ Exit(p)
    BY <1>8 DEF Consume, AdvanceIf
  <2>4. creating[p] = "nothing"
    BY <2>1, CreatesNothingElse, Objects
  <2>5. "webhook_queue" \in topology => Made(s, schema', topology')
    BY <2>1, <2>2, Objects, Zenon DEF Made
  <2> QED
    BY <1>0, <2>1, <2>2, <2>3, <2>4, <2>5, Objects, Zenon DEF Effect
<1>9. CASE Listen(p)
  <2>1. s = "listen" /\ At(p, "listen") /\ proc[p] = "starting" /\ (Advance(p) \/ Exit(p))
    BY <1>9 DEF Listen, At, AdvanceIf
  <2>2. UNCHANGED <<deployment, creating, schema, topology, up, connected, limiter, faults>>
    BY <1>9 DEF Listen
  <2>3. creating[p] = "nothing"
    BY <2>1, CreatesNothingElse, Objects
  <2>4. Made(s, schema', topology')
    BY <2>1, Objects DEF Made
  <2> QED
    BY <1>0, <2>1, <2>2, <2>3, <2>4, Objects, Zenon DEF Effect
<1> QED
  BY <1>2, <1>3, <1>4, <1>5, <1>6, <1>7, <1>8, <1>9 DEF Step

-----------------------------------------------------------------------------
(* The processes and the objects.                                          *)

\* The conjuncts of the invariant about processes, objects and the limiter.
Objective ==
    /\ Placed
    /\ schema \subseteq Range(Schema) /\ topology \subseteq Range(Topology)
    /\ limiter \in {"none", "stub", "two-tier"}
    /\ DeadLetterRouteFirst /\ Behind /\ Decided

\* More objects take nothing away.
LEMMA MadeStays ==
    ASSUME schema \subseteq schema', topology \subseteq topology',
           NEW s, Made(s, schema, topology)
    PROVE  Made(s, schema', topology')
BY DEF Made

\* The queue is declared after its dead-letter route.
LEMMA QueueLast ==
    ASSUME Placed, Behind, DeadLetterRouteFirst, topology \subseteq Range(Topology),
           NEW p \in Proc, proc[p] = "starting", Main(p)[step[p]] \in Range(Topology),
           topology' = topology \cup {Main(p)[step[p]]}
    PROVE  DeadLetterRouteFirst'
<1> DEFINE i == step[p]
<1>1. i \in DOMAIN Main(p) /\ DOMAIN Main(p) = 1 .. Len(Main(p)) /\ Len(Main(p)) \in Nat
  BY Positions DEF Placed
<1>2. p = "gateway"
  BY <1>1, MainOrder DEF Proc
<1>3. CASE Main(p)[i] # "webhook_queue"
  BY <1>3 DEF DeadLetterRouteFirst
<1>4. CASE Main(p)[i] = "webhook_queue"
  <2>1. ASSUME NEW o \in Range(Topology) \ {"webhook_queue"} PROVE o \in topology
    <3>1. PICK j \in DOMAIN Main(p) : j < i /\ Main(p)[j] = o
      BY <1>1, <1>2, <1>4, MainOrder
    <3>2. j \in Passed(p)
      BY <3>1 DEF Passed
    <3> QED
      BY <3>1, <3>2 DEF Behind, Made
  <2>2. topology' = Range(Topology)
    BY <1>4, <2>1
  <2> QED
    BY <2>2 DEF DeadLetterRouteFirst
<1> QED
  BY <1>3, <1>4

\* A step of main keeps them.
LEMMA MainStep ==
    ASSUME Objective, NEW p \in Proc, Step(p)
    PROVE  Objective'
<1>0. /\ Placed /\ Behind /\ Decided /\ DeadLetterRouteFirst
      /\ schema \subseteq Range(Schema) /\ topology \subseteq Range(Topology)
      /\ limiter \in {"none", "stub", "two-tier"}
  BY DEF Objective
<1> DEFINE s == Main(p)[step[p]]
<1>1. proc[p] = "starting" /\ Effect(p)
  BY <1>0, StepEffect, Zenon
<1>2. /\ schema \subseteq schema' /\ schema' \subseteq Range(Schema)
      /\ topology \subseteq topology' /\ topology' \subseteq Range(Topology)
      /\ limiter' = limiter \/ limiter' \in {"stub", "two-tier"}
      /\ creating' \in [Proc -> Range(Schema) \cup {"nothing"}]
      /\ \A o \in Proc : o # p => creating'[o] = creating[o]
      /\ topology' = topology \/ (s \in Range(Topology) /\ topology' = topology \cup {s})
  BY <1>1, Zenon DEF Effect
<1>3. DeadLetterRouteFirst'
  BY <1>0, <1>1, <1>2, QueueLast, Zenon DEF DeadLetterRouteFirst
<1>4. limiter' \in {"none", "stub", "two-tier"}
  BY <1>0, <1>2
<1>5. ASSUME NEW o \in Proc, Passed(o)' = Passed(o)
      PROVE  \A i \in Passed(o)' : Made(Main(o)[i], schema', topology')
  BY <1>0, <1>2, <1>5, MadeStays, Zenon DEF Behind
<1>6. ASSUME Passed("gateway")' = Passed("gateway")
      PROVE  Decided'
  BY <1>0, <1>2, <1>6 DEF Decided
<1>a. "gateway" \in Proc
  BY DEF Proc
<1>b. /\ proc \in [Proc -> {"off", "starting", "running", "exited", "deaf"}]
      /\ step \in [Proc -> Nat] /\ \A o \in Proc : step[o] \in 1 .. Len(Main(o))
      /\ \A o \in Proc : creating[o] # "nothing" => At(o, creating[o])
  BY <1>0 DEF Placed
<1>7. CASE /\ Advance(p) /\ creating'[p] = "nothing" /\ Made(s, schema', topology')
           /\ s = "ping" => limiter' # "none"
  <2>1. /\ proc' \in [Proc -> {"off", "starting", "running", "exited", "deaf"}]
        /\ step' \in [Proc -> Nat] /\ \A o \in Proc : step'[o] \in 1 .. Len(Main(o))
        /\ Passed(p)' = Passed(p) \cup {step[p]}
        /\ \A o \in Proc : o # p => /\ proc'[o] = proc[o] /\ step'[o] = step[o]
                                    /\ Passed(o)' = Passed(o)
    BY <1>0, <1>1, <1>7, AdvancePasses
  <2>2. Placed'
    BY <1>2, <1>7, <1>b, <2>1, Zenon DEF Placed, At
  <2>3. Behind'
    <3>1. \A i \in Passed(p)' : Made(Main(p)[i], schema', topology')
      BY <1>0, <1>2, <1>7, <2>1, MadeStays DEF Behind
    <3> QED
      BY <1>5, <2>1, <3>1 DEF Behind
  <2>4. Decided'
    <3>1. CASE p = "gateway"
      BY <1>0, <1>2, <1>7, <2>1, <3>1 DEF Decided
    <3>2. CASE p # "gateway"
      BY <1>6, <1>a, <2>1, <3>2, Zenon
    <3> QED
      BY <3>1, <3>2, Zenon
  <2> QED
    BY <1>2, <1>3, <1>4, <2>2, <2>3, <2>4, Zenon DEF Objective
<1>8. CASE Exit(p) /\ creating'[p] = "nothing"
  <2>1. /\ proc' \in [Proc -> {"off", "starting", "running", "exited", "deaf"}]
        /\ step' = step /\ Passed(p)' = {}
        /\ \A o \in Proc : o # p => proc'[o] = proc[o] /\ Passed(o)' = Passed(o)
    BY <1>0, <1>8, ExitPasses, Zenon
  <2>2. Placed'
    BY <1>2, <1>8, <1>b, <2>1 DEF Placed, At
  <2>3. Behind'
    BY <1>5, <2>1 DEF Behind
  <2>4. Decided'
    BY <1>6, <1>a, <2>1, Zenon DEF Decided
  <2> QED
    BY <1>2, <1>3, <1>4, <2>2, <2>3, <2>4 DEF Objective
<1>9. CASE UNCHANGED <<proc, step>> /\ creating'[p] = s
  <2>1. \A o \in Proc : Passed(o)' = Passed(o)
    BY <1>9 DEF Passed
  <2>2. Placed'
    BY <1>1, <1>2, <1>9, <1>b DEF Placed, At
  <2>3. Behind' /\ Decided'
    BY <1>5, <1>6, <1>a, <2>1 DEF Behind
  <2> QED
    BY <1>2, <1>3, <1>4, <2>2, <2>3 DEF Objective
<1> QED
  BY <1>1, <1>7, <1>8, <1>9 DEF Effect


\* What PostgreSQL finishes for processes that are gone is an object of the schema.
LEMMA DroppedEffect ==
    ASSUME Placed, schema \subseteq Range(Schema), NEW P \in SUBSET Proc, Dropped(P)
    PROVE  /\ schema \subseteq schema' /\ schema' \subseteq Range(Schema)
           /\ creating' \in [Proc -> Range(Schema) \cup {"nothing"}]
           /\ \A p \in P : creating'[p] = "nothing"
           /\ \A p \in Proc \ P : creating'[p] = creating[p]
<1>0. creating \in [Proc -> Range(Schema) \cup {"nothing"}] /\ P \subseteq Proc
  BY DEF Placed
<1>1. creating' = [p \in Proc |-> IF p \in P THEN "nothing" ELSE creating[p]]
  BY DEF Dropped
<1>2. /\ creating' \in [Proc -> Range(Schema) \cup {"nothing"}]
      /\ \A p \in P : creating'[p] = "nothing"
      /\ \A p \in Proc \ P : creating'[p] = creating[p]
  BY <1>0, <1>1
<1>3. schema \subseteq schema' /\ schema' \subseteq Range(Schema)
  BY <1>0 DEF Dropped
<1> QED
  BY <1>2, <1>3

\* Processes that start from the beginning, or are gone, have nothing behind them;
\* the objects of the others stay.
LEMMA AfreshKeeps ==
    ASSUME Objective, NEW P \in SUBSET Proc, Dropped(P), topology' = topology,
           proc' \in [Proc -> {"off", "starting", "running", "exited", "deaf"}],
           step' \in [Proc -> Nat],
           \A p \in P : \/ proc'[p] = "starting" /\ step'[p] = 1
                        \/ proc'[p] = "exited" /\ step'[p] = step[p],
           \A p \in Proc \ P : proc'[p] = proc[p] /\ step'[p] = step[p],
           limiter' \in {"none", "stub", "two-tier"},
           "gateway" \notin P => limiter' = limiter
    PROVE  Objective'
<1>0. /\ Placed /\ Behind /\ Decided /\ DeadLetterRouteFirst
      /\ schema \subseteq Range(Schema) /\ topology \subseteq Range(Topology)
  BY DEF Objective
<1>1. /\ schema \subseteq schema' /\ schema' \subseteq Range(Schema)
      /\ creating' \in [Proc -> Range(Schema) \cup {"nothing"}]
      /\ \A p \in P : creating'[p] = "nothing"
      /\ \A p \in Proc \ P : creating'[p] = creating[p]
  BY <1>0, DroppedEffect
<1>2. ASSUME NEW p \in Proc PROVE DOMAIN Main(p) = 1 .. Len(Main(p)) /\ Len(Main(p)) \in Nat
  BY Positions
<1>3. \A p \in Proc : step'[p] \in 1 .. Len(Main(p))
  <2> SUFFICES ASSUME NEW p \in Proc PROVE step'[p] \in 1 .. Len(Main(p))
    OBVIOUS
  <2>1. step[p] \in 1 .. Len(Main(p)) /\ Len(Main(p)) \in Nat
    BY <1>0, <1>2 DEF Placed
  <2>2. step'[p] = step[p] \/ step'[p] = 1
    OBVIOUS
  <2> QED
    BY <2>1, <2>2
<1>4. Placed'
  BY <1>0, <1>1, <1>3 DEF Placed, At
<1>5. ASSUME NEW p \in P PROVE Passed(p)' = {}
  <2>1. CASE proc'[p] = "exited"
    BY <2>1 DEF Passed
  <2>2. CASE proc'[p] = "starting" /\ step'[p] = 1
    <3>1. Passed(p)' = {i \in DOMAIN Main(p) : i < 1}
      BY <2>2 DEF Passed
    <3> QED
      BY <1>2, <3>1
  <2> QED
    BY <2>1, <2>2
<1>6. ASSUME NEW p \in Proc \ P PROVE Passed(p)' = Passed(p)
  BY DEF Passed
<1>7. Behind'
  <2> SUFFICES ASSUME NEW p \in Proc, NEW i \in Passed(p)'
               PROVE  Made(Main(p)[i], schema', topology')
    BY DEF Behind
  <2>1. p \in Proc \ P /\ i \in Passed(p)
    BY <1>5, <1>6
  <2>2. Made(Main(p)[i], schema, topology)
    BY <1>0, <2>1 DEF Behind
  <2> QED
    BY <1>1, <2>2, MadeStays
<1>8. Decided'
  <2>1. "gateway" \in Proc
    BY DEF Proc
  <2>2. CASE "gateway" \in P
    BY <1>5, <2>2 DEF Decided
  <2>3. CASE "gateway" \notin P
    BY <1>0, <1>6, <2>1, <2>3 DEF Decided
  <2> QED
    BY <2>2, <2>3
<1>9. DeadLetterRouteFirst'
  BY <1>0 DEF DeadLetterRouteFirst
<1> QED
  BY <1>0, <1>1, <1>4, <1>7, <1>8, <1>9 DEF Objective

\* Starting processes keeps it.
LEMMA StartedStep ==
    ASSUME Objective, NEW P \in SUBSET Proc, Started(P)
    PROVE  Objective'
<1>0. /\ proc \in [Proc -> {"off", "starting", "running", "exited", "deaf"}]
      /\ step \in [Proc -> Nat] /\ limiter \in {"none", "stub", "two-tier"}
      /\ P \subseteq Proc
  BY DEF Objective, Placed
<1>1. /\ proc' = [p \in Proc |-> IF p \in P THEN "starting" ELSE proc[p]]
      /\ step' = [p \in Proc |-> IF p \in P THEN 1 ELSE step[p]]
      /\ limiter' = IF "gateway" \in P THEN "none" ELSE limiter
      /\ Dropped(P) /\ topology' = topology
  BY DEF Started
<1>2. /\ proc' \in [Proc -> {"off", "starting", "running", "exited", "deaf"}]
      /\ \A p \in P : proc'[p] = "starting"
      /\ \A p \in Proc \ P : proc'[p] = proc[p]
  BY <1>0, <1>1
<1>3. /\ step' \in [Proc -> Nat] /\ \A p \in P : step'[p] = 1
      /\ \A p \in Proc \ P : step'[p] = step[p]
  BY <1>0, <1>1
<1>4. /\ limiter' \in {"none", "stub", "two-tier"}
      /\ "gateway" \notin P => limiter' = limiter
  BY <1>0, <1>1
<1> QED
  BY <1>1, <1>2, <1>3, <1>4, AfreshKeeps

\* So does killing one.
LEMMA KillStep ==
    ASSUME Objective, NEW p \in Proc, Kill(p)
    PROVE  Objective'
<1>0. /\ proc \in [Proc -> {"off", "starting", "running", "exited", "deaf"}]
      /\ step \in [Proc -> Nat] /\ limiter \in {"none", "stub", "two-tier"}
  BY DEF Objective, Placed
<1>1. /\ proc' = [proc EXCEPT ![p] = "exited"] /\ step' = step /\ limiter' = limiter
      /\ Dropped({p}) /\ topology' = topology /\ {p} \in SUBSET Proc
  BY DEF Kill
<1>2. /\ proc' \in [Proc -> {"off", "starting", "running", "exited", "deaf"}]
      /\ proc'[p] = "exited" /\ \A o \in Proc \ {p} : proc'[o] = proc[o]
  BY <1>0, <1>1
<1> QED
  BY <1>0, <1>1, <1>2, AfreshKeeps

\* An outage moves at most the worker, from running to deaf.
LEMMA OutageStep ==
    ASSUME Objective, NEW d \in Dependency, Outage(d)
    PROVE  Objective'
<1>0. /\ Placed /\ Behind /\ Decided /\ DeadLetterRouteFirst
      /\ schema \subseteq Range(Schema) /\ topology \subseteq Range(Topology)
      /\ limiter \in {"none", "stub", "two-tier"}
  BY DEF Objective
<1>1. /\ UNCHANGED <<step, creating, schema, topology, limiter>>
      /\ \/ proc' = proc
         \/ proc["worker"] = "running" /\ proc' = [proc EXCEPT !["worker"] = "deaf"]
  BY DEF Outage
<1>2. /\ proc' \in [Proc -> {"off", "starting", "running", "exited", "deaf"}]
      /\ \A p \in Proc : \/ proc'[p] = proc[p]
                         \/ proc[p] = "running" /\ proc'[p] = "deaf"
  BY <1>0, <1>1 DEF Placed, Proc
<1>3. \A p \in Proc : Passed(p)' = Passed(p)
  BY <1>1, <1>2 DEF Passed
<1>4. Placed'
  BY <1>0, <1>1, <1>2 DEF Placed, At
<1>5. Behind'
  BY <1>0, <1>1, <1>3 DEF Behind
<1>6. Decided'
  BY <1>0, <1>1, <1>3 DEF Decided, Proc
<1>7. DeadLetterRouteFirst'
  BY <1>0, <1>1 DEF DeadLetterRouteFirst
<1> QED
  BY <1>0, <1>1, <1>4, <1>5, <1>6, <1>7 DEF Objective


\* The conjuncts about the settings.
Settled ==
    /\ cfg \in [Key -> Setting \cup {"fatal"}]
    /\ Reading /\ EnvironmentFirst /\ ProductionIsExplicit

\* The conjuncts about the dependencies.
Attached ==
    /\ launch \in Launch
    /\ up \subseteq Dependency
    /\ connected \subseteq Proc /\ (connected # {} => "rabbitmq" \in up)
    /\ faults \in 0 .. MaxFaults

\* A gateway that serves is past the ping.
LEMMA ServesLimited ==
    ASSUME Decided, proc["gateway"] = "running"
    PROVE  limiter # "none"
<1>1. PICK i \in DOMAIN Main("gateway") : Main("gateway")[i] = "ping"
  BY MainOrder
<1>2. i \in Passed("gateway")
  BY <1>1 DEF Passed
<1> QED
  BY <1>1, <1>2 DEF Decided

\* The invariant is made of these three.
LEMMA InvParts == IInv <=> Objective /\ Settled /\ Attached
<1>1. ASSUME IInv PROVE Objective /\ Settled /\ Attached
  BY <1>1 DEF IInv, TypeOK, Objective, Placed, Settled, Attached
<1>2. ASSUME Objective, Settled, Attached PROVE IInv
  <2>1. proc["gateway"] = "running" => limiter # "none"
    BY <1>2, ServesLimited, Zenon DEF Objective
  <2> QED
    BY <1>2, <2>1 DEF IInv, TypeOK, Objective, Placed, Settled, Attached
<1> QED
  BY <1>1, <1>2

\* Reading a line of the file.
LEMMA ReadLineStep ==
    ASSUME Settled, ReadLine
    PROVE  Settled'
<1> DEFINE s == settings
           t == settings'
<1>1. /\ s \in [env : Env, file : File, line : Nat, loaded : [Key -> Found]]
      /\ s.line < Len(s.file)
      /\ \A k \in Key : s.loaded[k] = Precedence(s.env, s.file, s.line, k)
  BY DEF Settled, Reading, EnvironmentFirst, ReadLine
<1>2. s.env \in [Key -> Found] /\ s.file \in Seq([key : STRING, value : Written])
  BY <1>1, StartupAssumption, Zenon
<1>3. s.line \in Nat /\ s.loaded \in [Key -> Found] /\ Len(s.file) \in Nat
  BY <1>1, <1>2
<1>4. /\ loadLine(s.loaded, s.file[s.line + 1]) \in [Key -> Found]
      /\ \A k \in Key : loadLine(s.loaded, s.file[s.line + 1])[k]
                          = Precedence(s.env, s.file, s.line + 1, k)
  <2>1. PICK env, file, n, loaded :
             env = s.env /\ file = s.file /\ n = s.line /\ loaded = s.loaded
    OBVIOUS
  <2>2. /\ env \in [Key -> Found] /\ file \in Seq([key : STRING, value : Written])
        /\ n \in Nat /\ n < Len(file) /\ loaded \in [Key -> Found]
        /\ \A k \in Key : loaded[k] = Precedence(env, file, n, k)
    BY <1>1, <1>2, <1>3, <2>1
  <2>3. /\ loadLine(loaded, file[n + 1]) \in [Key -> Found]
        /\ \A k \in Key : loadLine(loaded, file[n + 1])[k] = Precedence(env, file, n + 1, k)
    BY <2>2, LineStep, Zenon
  <2> QED
    BY <2>1, <2>3
<1>5. t = [s EXCEPT !.line = @ + 1, !.loaded = loadLine(@, s.file[s.line + 1])]
  BY DEF ReadLine
<1>6. /\ t.env = s.env /\ t.file = s.file /\ t.line = s.line + 1
      /\ t.loaded = loadLine(s.loaded, s.file[s.line + 1])
      /\ t \in [env : Env, file : File, line : Nat, loaded : [Key -> Found]]
  <2>1. PICK l : l = loadLine(s.loaded, s.file[s.line + 1])
    OBVIOUS
  <2>2. PICK m : m = s.line + 1
    OBVIOUS
  <2>3. t = [s EXCEPT !.line = m, !.loaded = l]
    BY <1>5, <2>1, <2>2, Zenon
  <2>4. l \in [Key -> Found] /\ m \in Nat
    BY <1>3, <1>4, <2>1, <2>2
  <2>5. /\ t.env = s.env /\ t.file = s.file /\ t.line = m /\ t.loaded = l
        /\ t \in [env : Env, file : File, line : Nat, loaded : [Key -> Found]]
    BY <1>1, <2>3, <2>4, Zenon
  <2> QED
    BY <2>1, <2>2, <2>5, Zenon
<1>7. t.line <= Len(t.file)
  BY <1>1, <1>3, <1>6
<1>8. cfg' = cfg
  BY DEF ReadLine
<1>9. \A k \in Key : t.loaded[k] = Precedence(t.env, t.file, t.line, k)
  BY <1>4, <1>6
<1> QED
  BY <1>6, <1>7, <1>8, <1>9 DEF Settled, Reading, EnvironmentFirst, ProductionIsExplicit

\* Load.
LEMMA ReadSettingsStep ==
    ASSUME Settled, ReadSettings
    PROVE  Settled'
<1>1. settings.loaded \in [Key -> Found]
  BY DEF Settled, Reading, ReadSettings
<1>2. cfg' = Load(settings.loaded) /\ settings' = Read
  BY DEF ReadSettings
<1>3. /\ cfg' \in [Key -> Setting \cup {"fatal"}]
      /\ IsProduction(cfg') => "default" \notin {cfg'["DATABASE_URL"], cfg'["RABBITMQ_URL"]}
  BY <1>1, <1>2, LoadResult
<1> QED
  BY <1>2, <1>3 DEF Settled, Reading, EnvironmentFirst, ProductionIsExplicit

\* The initial states satisfy the invariant.
LEMMA InvInit == Init => IInv
<1> SUFFICES ASSUME Init PROVE IInv
  OBVIOUS
<1>1. Objective
  <2>1. /\ proc = [p \in Proc |-> "off"] /\ step = [p \in Proc |-> 1]
        /\ creating = [p \in Proc |-> "nothing"] /\ limiter = "none"
        /\ schema \subseteq Range(Schema) /\ topology \in {{}, Range(Topology)}
    BY DEF Init
  <2>2. \A p \in Proc : 1 \in 1 .. Len(Main(p))
    BY MainOrder
  <2>3. Placed
    BY <2>1, <2>2 DEF Placed
  <2>4. \A p \in Proc : Passed(p) = {}
    BY <2>1 DEF Passed
  <2>5. Behind /\ Decided
    BY <2>4 DEF Behind, Decided, Proc
  <2> QED
    BY <2>1, <2>3, <2>5 DEF Objective, DeadLetterRouteFirst
<1>2. Settled
  <2>1. PICK e \in Env, f \in File : settings = Unread(e, f)
    BY DEF Init
  <2>2. e \in [Key -> Found] /\ f \in Seq([key : STRING, value : Written])
    BY StartupAssumption, Zenon
  <2>3. /\ settings.env = e /\ settings.file = f /\ settings.line = 0 /\ settings.loaded = e
        /\ settings \in [env : Env, file : File, line : Nat, loaded : [Key -> Found]]
    BY <2>1, <2>2 DEF Unread
  <2>4. Reading
    BY <2>2, <2>3 DEF Reading
  <2>5. \A k \in Key : Precedence(e, f, 0, k) = e[k]
    BY DEF Precedence
  <2>6. EnvironmentFirst
    BY <2>3, <2>5, Zenon DEF EnvironmentFirst
  <2>7. cfg \in [Key -> Setting \cup {"fatal"}] /\ ~IsProduction(cfg)
    BY DEF Init, Fatal, IsProduction, Key
  <2> QED
    BY <2>4, <2>6, <2>7 DEF Settled, ProductionIsExplicit
<1>3. Attached
  BY StartupAssumption DEF Init, Attached
<1> QED
  BY <1>1, <1>2, <1>3, InvParts


\* Every step preserves it.
LEMMA InvStep == IInv /\ [Next]_vars => IInv'
<1> SUFFICES ASSUME IInv, [Next]_vars PROVE IInv'
  OBVIOUS
<1>0. Objective /\ Settled /\ Attached
  BY InvParts, Zenon
<1>1. Objective' /\ Settled' /\ Attached' => IInv'
  <2>1. Decided' /\ proc'["gateway"] = "running" => limiter' # "none"
    <3>1. PICK i \in DOMAIN Main("gateway") : Main("gateway")[i] = "ping"
      BY MainOrder
    <3>2. proc'["gateway"] = "running" => i \in Passed("gateway")'
      BY <3>1, Zenon DEF Passed
    <3> QED
      BY <3>1, <3>2 DEF Decided
  <2> QED
    BY <2>1 DEF IInv, TypeOK, Objective, Placed, Settled, Attached
<1>2. UNCHANGED <<settings, cfg>> => Settled'
  BY <1>0 DEF Settled, Reading, EnvironmentFirst, ProductionIsExplicit
<1>3. ASSUME UNCHANGED <<proc, step, creating, schema, topology, limiter>> PROVE Objective'
  <2>1. \A p \in Proc : Passed(p)' = Passed(p)
    BY <1>3 DEF Passed
  <2>2. Placed'
    BY <1>0, <1>3 DEF Objective, Placed, At
  <2>3. Behind' /\ Decided'
    BY <1>0, <1>3, <2>1 DEF Objective, Behind, Decided, Proc
  <2> QED
    BY <1>0, <1>3, <2>2, <2>3 DEF Objective, DeadLetterRouteFirst
<1>4. UNCHANGED <<launch, up, connected, faults>> => Attached'
  BY <1>0 DEF Attached
<1>5. CASE ReadLine
  BY <1>0, <1>1, <1>3, <1>4, <1>5, ReadLineStep, Zenon DEF ReadLine
<1>6. CASE ReadSettings
  BY <1>0, <1>1, <1>3, <1>4, <1>6, ReadSettingsStep DEF ReadSettings
<1>7. ASSUME NEW p \in Proc, Step(p) PROVE IInv'
  <2>1. Objective'
    BY <1>0, <1>7, MainStep
  <2>2. Effect(p)
    BY <1>0, <1>7, StepEffect DEF Objective
  <2>3. Attached'
    BY <1>0, <2>2, Zenon DEF Attached, Effect, deployment
  <2> QED
    BY <1>1, <1>2, <2>1, <2>2, <2>3 DEF Effect, deployment
<1>8. ASSUME NEW P \in SUBSET Proc, Started(P) PROVE IInv'
  <2>1. Objective'
    BY <1>0, <1>8, StartedStep, Zenon
  <2>2. Attached'
    BY <1>0, <1>8 DEF Attached, Started, deployment
  <2> QED
    BY <1>1, <1>2, <1>8, <2>1, <2>2 DEF Started, deployment
<1>9. ASSUME NEW p \in Proc, Start(p) \/ Restart(p) PROVE IInv'
  <2>1. Started({p}) \/ Started(Proc)
    BY <1>9 DEF Start, Restart
  <2> QED
    BY <1>8, <2>1
<1>10. ASSUME Fault PROVE faults' \in 0 .. MaxFaults
  BY <1>0, <1>10, StartupAssumption DEF Attached, Fault
<1>11. ASSUME NEW p \in Proc, Kill(p) PROVE IInv'
  <2>1. Objective'
    BY <1>0, <1>11, KillStep
  <2>2. Fault
    BY <1>11 DEF Kill
  <2>3. UNCHANGED <<deployment, up, connected>>
    BY <1>11 DEF Kill
  <2>4. Attached'
    BY <1>0, <1>10, <2>2, <2>3 DEF Attached, deployment
  <2> QED
    BY <1>1, <1>2, <2>1, <2>3, <2>4, Zenon DEF deployment
<1>12. ASSUME NEW d \in Dependency, Outage(d) PROVE IInv'
  <2>1. Objective'
    BY <1>0, <1>12, OutageStep
  <2>2. Fault
    BY <1>12 DEF Outage
  <2>3. /\ UNCHANGED deployment /\ up' = up \ {d}
        /\ connected' = IF d = "rabbitmq" THEN {} ELSE connected
    BY <1>12 DEF Outage
  <2>4. Attached'
    BY <1>0, <1>10, <2>2, <2>3 DEF Attached, deployment
  <2> QED
    BY <1>1, <1>2, <2>1, <2>3, <2>4, Zenon DEF deployment
<1>13. ASSUME NEW d \in Dependency, Recover(d) PROVE IInv'
  <2>1. Objective'
    BY <1>3, <1>13 DEF Recover
  <2>2. Attached'
    BY <1>0, <1>13 DEF Attached, Recover, deployment
  <2> QED
    BY <1>1, <1>2, <1>13, <2>1, <2>2 DEF Recover, deployment
<1>14. CASE UNCHANGED vars
  BY <1>1, <1>2, <1>3, <1>4, <1>14 DEF vars, deployment
<1> QED
  BY <1>5, <1>6, <1>7, <1>9, <1>11, <1>12, <1>13, <1>14, Zenon DEF Next

-----------------------------------------------------------------------------
(* The theorems.                                                           *)

\* The inductive invariant holds in every reachable state.
THEOREM Invariant == Spec => []IInv
BY InvInit, InvStep, PTL DEF Spec

\* Every variable has its type; what PostgreSQL creates for a process is the
\* object of the step of main that process is at, a connection to the broker
\* needs the broker, and a gateway that serves has a limiter.
THEOREM TypeCorrect == Spec => []TypeOK
<1>1. IInv => TypeOK
  BY DEF IInv
<1> QED
  BY <1>1, Invariant, PTL

\* loadFile, after any number of lines of any file: a variable of the
\* environment wins, then the first line that names it.
THEOREM FileFillsGaps == Spec => []EnvironmentFirst
<1>1. IInv => EnvironmentFirst
  BY DEF IInv
<1> QED
  BY <1>1, Invariant, PTL

\* config.Load lets no process into production with a default URL.
THEOREM NoDefaultInProduction == Spec => []ProductionIsExplicit
<1>1. IInv => ProductionIsExplicit
  BY DEF IInv
<1> QED
  BY <1>1, Invariant, PTL

\* NewRabbitMQPublisher's order: the main queue never exists without the
\* exchange, the queue and the binding that its rejected messages need.
THEOREM QueueHasDeadLetterRoute == Spec => []DeadLetterRouteFirst
<1>1. IInv => DeadLetterRouteFirst
  BY DEF IInv
<1> QED
  BY <1>1, Invariant, PTL

\* A process that serves or consumes finds the whole schema and the queue, through
\* any number of outages, kills and restarts of either process.
THEOREM ReadyWhenRunning == Spec => []RunningIsReady
<1>1. ASSUME IInv, NEW p \in Proc, proc[p] \in {"running", "deaf"}
      PROVE  schema = Range(Schema) /\ "webhook_queue" \in topology
  <2>1. Passed(p) = DOMAIN Main(p)
    BY <1>1 DEF Passed
  <2>2. \A i \in DOMAIN Main(p) : Made(Main(p)[i], schema, topology)
    BY <1>1, <2>1 DEF IInv, Behind
  <2>3. schema = Range(Schema)
    <3>1. schema \subseteq Range(Schema)
      BY <1>1 DEF IInv, TypeOK
    <3>2. ASSUME NEW o \in Range(Schema) PROVE o \in schema
      <4>1. PICK i \in DOMAIN Main(p) : Main(p)[i] = o
        BY MainOrder, Zenon
      <4>2. Made(o, schema, topology)
        BY <2>2, <4>1, Zenon
      <4> QED
        BY <4>2, Zenon DEF Made
    <3> QED
      BY <3>1, <3>2
  <2>4. CASE p = "gateway"
    <3>1. "webhook_queue" \in Range(Topology)
      BY Objects, Zenon
    <3>2. PICK i \in DOMAIN Main("gateway") : Main("gateway")[i] = "webhook_queue"
      BY <3>1, MainOrder
    <3>3. Made("webhook_queue", schema, topology)
      BY <2>2, <2>4, <3>2, Zenon
    <3> QED
      BY <2>3, <3>1, <3>3, Zenon DEF Made
  <2>5. CASE p = "worker"
    <3>1. PICK i \in DOMAIN Main("worker") : Main("worker")[i] = "consume"
      BY MainOrder
    <3>2. Made("consume", schema, topology)
      BY <2>2, <2>5, <3>1, Zenon
    <3> QED
      BY <2>3, <3>2, Zenon DEF Made
  <2> QED
    BY <2>3, <2>4, <2>5 DEF Proc
<1>2. IInv => RunningIsReady
  BY <1>1 DEF RunningIsReady
<1> QED
  BY <1>2, Invariant, PTL
=============================================================================

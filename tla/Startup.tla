------------------------------ MODULE Startup ------------------------------
(***************************************************************************)
(* How the gateway and the worker start (cmd/gateway, cmd/worker), step by *)
(* step through main: settings, Redis, the schema both of them create      *)
(* (internal/database), RabbitMQ, the topology that only the gateway       *)
(* declares (internal/queue), the consumer.  Every error on the way is     *)
(* log.Fatalf; the steps of the two processes interleave, PostgreSQL,      *)
(* RabbitMQ and Redis come and go, and either process can be killed.       *)
(***************************************************************************)
EXTENDS Config, FiniteSets, Functions

CONSTANTS
    Launch,     \* how the processes are started, see LaunchKind
    Env, File,  \* environments and .env files of the instance
    Unusable,   \* the sets of settings that may be unusable, see ParseSetting
    MaxFaults   \* bound: outages of a dependency and kills of a process

LaunchKind == {"quickstart",  \* README: the worker once the gateway listens
               "supervised",  \* each on its own, started again when it exits
               "container"}   \* entrypoint.sh: the worker, then the gateway

ASSUME StartupAssumption ==
    /\ Launch \subseteq LaunchKind
    /\ Env \subseteq [Key -> Found]
    /\ File \subseteq Seq([key : STRING, value : Written])
    /\ MaxFaults \in Nat

Proc == {"gateway", "worker"}
Dependency == {"postgres", "rabbitmq", "redis"}

\* Mutant: an index before its table.
Schema_IndexFirst == <<"uuid-ossp", "idx_events_status", "events", "api_keys",
                       "idx_events_created_at", "idx_api_keys_is_active">>

\* InitSchema's statements, and the table each index is on.
Schema == <<"uuid-ossp", "events", "api_keys", "idx_events_status",
            "idx_events_created_at", "idx_api_keys_is_active">>
Table(o) == CASE o \in {"idx_events_status", "idx_events_created_at"} -> {"events"}
              [] o = "idx_api_keys_is_active" -> {"api_keys"}
              [] OTHER -> {}

\* Mutant: the main queue is declared before its dead-letter route.
Topology_QueueFirst == <<"webhook_queue", "webhook_dlx", "webhook_dlq", "binding">>

\* NewRabbitMQPublisher's declarations.
Topology == <<"webhook_dlx", "webhook_dlq", "binding", "webhook_queue">>

GatewayMain == <<"load", "policy", "redis", "ping", "pool">> \o Schema
               \o <<"dial">> \o Topology \o <<"proxy", "listen">>
WorkerMain == <<"load", "pool">> \o Schema \o <<"dial", "redis", "consume">>
Main(p) == IF p = "gateway" THEN GatewayMain ELSE WorkerMain

VARIABLES
    settings,  \* the deployment's environment and .env, until they are read
    cfg,       \* what config.Load makes of them, in either process
    unusable,  \* settings that are given but cannot be used
    launch,    \* how this deployment starts its processes
    proc,      \* the two processes
    step,      \* the step of main each of them is at
    creating,  \* the object PostgreSQL is creating for each of them
    schema,    \* objects in the database
    topology,  \* objects in the broker; they are durable
    up,        \* dependencies that answer
    connected, \* processes whose connection to the broker is open
    limiter,   \* which limiter the gateway chose
    faults     \* faults so far

deployment == <<settings, cfg, unusable, launch>>
vars == <<deployment, proc, step, creating, schema, topology, up, connected, limiter,
          faults>>

\* line: how many lines of the file loadFile has read.  loaded: the variables
\* of the process so far.
Unread(e, f) == [env |-> e, file |-> f, line |-> 0, loaded |-> e]

Read == [env |-> <<>>, file |-> <<>>, line |-> 0, loaded |-> <<>>]

Init ==
    /\ \E e \in Env, f \in File : settings = Unread(e, f)
    /\ cfg = Fatal
    /\ unusable \in Unusable
    /\ launch \in Launch
    /\ proc = [p \in Proc |-> "off"]
    /\ step = [p \in Proc |-> 1]
    /\ creating = [p \in Proc |-> "nothing"]
    /\ schema \in {{}, Range(Schema)}       \* scripts/init.sql may have run
    /\ topology \in {{}, Range(Topology)}   \* or an earlier deployment
    /\ up = Dependency
    /\ connected = {}
    /\ limiter = "none"
    /\ faults = 0

\* config.Load gives the same result in either process; it is worked out before
\* they start, and each of them acts on it in its first step.  loadFile reads
\* the file line by line, each seeing what the earlier ones set,
ReadLine ==
    /\ settings # Read /\ settings.line < Len(settings.file)
    /\ settings' = [settings EXCEPT
                      !.line = @ + 1,
                      !.loaded = loadLine(@, settings.file[settings.line + 1])]
    /\ UNCHANGED <<cfg, unusable, launch, proc, step, creating, schema, topology, up,
                   connected, limiter, faults>>

\* and Load goes on from there.
ReadSettings ==
    /\ settings # Read /\ settings.line = Len(settings.file)
    /\ cfg' = Load(settings.loaded)
    /\ settings' = Read
    /\ UNCHANGED <<unusable, launch, proc, step, creating, schema, topology, up, connected,
                   limiter, faults>>

-----------------------------------------------------------------------------
(* The steps of main.                                                       *)

At(p, s) == proc[p] = "starting" /\ s = Main(p)[step[p]]

Advance(p) ==
    IF step[p] = Len(Main(p))
    THEN proc' = [proc EXCEPT ![p] = "running"] /\ UNCHANGED step
    ELSE step' = [step EXCEPT ![p] = @ + 1] /\ UNCHANGED proc

\* log.Fatalf
Exit(p) == proc' = [proc EXCEPT ![p] = "exited"] /\ UNCHANGED step

AdvanceIf(p, ok) == IF ok THEN Advance(p) ELSE Exit(p)

\* Steps that only parse: config.Load's verdict, the policy file, the URLs of
\* Redis, PostgreSQL (the pool connects later) and the proxied server.
ParseSetting(p) ==
    /\ \E s \in {"load", "policy", "redis", "pool", "proxy"} :
          /\ At(p, s)
          /\ AdvanceIf(p, IF s = "load" THEN cfg # Fatal ELSE s \notin unusable)
    /\ UNCHANGED <<deployment, creating, schema, topology, up, connected, limiter, faults>>

\* Mutant: no limiter when Redis does not answer.
Ping_NoFallback(p) ==
    /\ At(p, "ping")
    /\ limiter' = IF "redis" \in up THEN "two-tier" ELSE "none"
    /\ Advance(p)
    /\ UNCHANGED <<deployment, creating, schema, topology, up, connected, faults>>

\* Ping decides once which limiter the gateway uses.
Ping(p) ==
    /\ At(p, "ping")
    /\ limiter' = IF "redis" \in up THEN "two-tier" ELSE "stub"
    /\ Advance(p)
    /\ UNCHANGED <<deployment, creating, schema, topology, up, connected, faults>>

\* Mutant: an error of the statement is only logged.
FindObject_IgnoresErrors(p) ==
    LET o == Main(p)[step[p]] IN
    /\ At(p, o) /\ o \in Range(Schema) /\ creating[p] = "nothing"
    /\ IF o \in schema \/ "postgres" \notin up
       THEN Advance(p) /\ UNCHANGED creating
       ELSE creating' = [creating EXCEPT ![p] = o] /\ UNCHANGED <<proc, step>>
    /\ UNCHANGED <<deployment, schema, topology, up, connected, limiter, faults>>

\* CREATE ... IF NOT EXISTS looks for the object first,
FindObject(p) ==
    LET o == Main(p)[step[p]] IN
    /\ At(p, o) /\ o \in Range(Schema) /\ creating[p] = "nothing"
    /\ IF o \in schema \/ "postgres" \notin up
       THEN AdvanceIf(p, "postgres" \in up) /\ UNCHANGED creating
       ELSE creating' = [creating EXCEPT ![p] = o] /\ UNCHANGED <<proc, step>>
    /\ UNCHANGED <<deployment, schema, topology, up, connected, limiter, faults>>

\* and creates it in a second step, which fails if the other process was
\* faster; InitSchema returns the error.
CreateObject(p) ==
    LET o  == creating[p]
        ok == "postgres" \in up /\ o \notin schema /\ Table(o) \subseteq schema
    IN
    /\ o # "nothing"
    /\ schema' = IF ok THEN schema \cup {o} ELSE schema
    /\ AdvanceIf(p, ok)
    /\ creating' = [creating EXCEPT ![p] = "nothing"]
    /\ UNCHANGED <<deployment, topology, up, connected, limiter, faults>>

Dial(p) ==
    /\ At(p, "dial")
    /\ AdvanceIf(p, "rabbitmq" \in up)
    /\ connected' = IF "rabbitmq" \in up THEN connected \cup {p} ELSE connected
    /\ UNCHANGED <<deployment, creating, schema, topology, up, limiter, faults>>

\* Declaring what exists already with the same arguments changes nothing.
Declare(p) ==
    LET o == Main(p)[step[p]] IN
    /\ At(p, o) /\ o \in Range(Topology)
    /\ AdvanceIf(p, p \in connected)
    /\ topology' = IF p \in connected THEN topology \cup {o} ELSE topology
    /\ UNCHANGED <<deployment, creating, schema, up, connected, limiter, faults>>

\* The worker declares nothing: consuming from an undeclared queue is an error.
Consume(p) ==
    /\ At(p, "consume")
    /\ AdvanceIf(p, p \in connected /\ "webhook_queue" \in topology)
    /\ UNCHANGED <<deployment, creating, schema, topology, up, connected, limiter, faults>>

\* An address that cannot be bound is fatal too.
Listen(p) ==
    /\ At(p, "listen")
    /\ AdvanceIf(p, "listen" \notin unusable)
    /\ UNCHANGED <<deployment, creating, schema, topology, up, connected, limiter, faults>>

Step(p) ==
    \/ ParseSetting(p) \/ Ping(p) \/ FindObject(p) \/ CreateObject(p)
    \/ Dial(p) \/ Declare(p) \/ Consume(p) \/ Listen(p)

-----------------------------------------------------------------------------
(* Starting the processes, and what goes wrong around them.                 *)

\* The processes P are gone; PostgreSQL may finish a statement it was sent.
Dropped(P) ==
    /\ creating' = [p \in Proc |-> IF p \in P THEN "nothing" ELSE creating[p]]
    /\ \/ UNCHANGED schema
       \/ \E p \in P : creating[p] # "nothing" /\ schema' = schema \cup {creating[p]}

Started(P) ==
    /\ proc' = [p \in Proc |-> IF p \in P THEN "starting" ELSE proc[p]]
    /\ step' = [p \in Proc |-> IF p \in P THEN 1 ELSE step[p]]
    /\ limiter' = IF "gateway" \in P THEN "none" ELSE limiter
    /\ connected' = connected \ P
    /\ Dropped(P)
    /\ UNCHANGED <<deployment, topology, up, faults>>

Start(p) ==
    /\ settings = Read
    /\ proc[p] = "off"
    /\ launch = "quickstart" /\ p = "worker" => proc["gateway"] = "running"
    /\ launch = "container" /\ p = "gateway" => proc["worker"] # "off"
    /\ Started({p})

\* A supervisor starts a process that exited; the container lives and dies
\* with the gateway, which entrypoint.sh turns into.
Restart(p) ==
    /\ proc[p] = "exited"
    /\ \/ launch = "supervised" /\ Started({p})
       \/ launch = "container" /\ p = "gateway" /\ Started(Proc)

Fault == settings = Read /\ faults < MaxFaults /\ faults' = faults + 1

\* The broker's outage ends the connections to it, and the code opens no new
\* one.  A worker whose message channel closes returns from Start and lives on
\* without consuming; log.Fatalf is called for errors only.
Outage(d) ==
    /\ Fault
    /\ d \in up
    /\ up' = up \ {d}
    /\ connected' = IF d = "rabbitmq" THEN {} ELSE connected
    /\ proc' = IF d = "rabbitmq" /\ proc["worker"] = "running"
               THEN [proc EXCEPT !["worker"] = "deaf"] ELSE proc
    /\ UNCHANGED <<deployment, step, creating, schema, topology, limiter>>

Recover(d) ==
    /\ d \in Dependency \ up
    /\ up' = up \cup {d}
    /\ UNCHANGED <<deployment, proc, step, creating, schema, topology, connected, limiter,
                   faults>>

Kill(p) ==
    /\ Fault
    /\ proc[p] \in {"starting", "running", "deaf"}
    /\ proc' = [proc EXCEPT ![p] = "exited"]
    /\ Dropped({p})
    /\ UNCHANGED <<deployment, step, topology, up, connected, limiter>>

Next ==
    \/ ReadLine \/ ReadSettings
    \/ \E p \in Proc : Step(p) \/ Start(p) \/ Restart(p) \/ Kill(p)
    \/ \E d \in Dependency : Outage(d) \/ Recover(d)

Spec == Init /\ [][Next]_vars

\* A process that runs makes its next step, whoever starts processes does so,
\* and the dependencies, which docker-compose restarts, come back.
Fairness ==
    /\ WF_vars(ReadLine) /\ WF_vars(ReadSettings)
    /\ \A p \in Proc : WF_vars(Step(p)) /\ WF_vars(Start(p)) /\ WF_vars(Restart(p))
    /\ \A d \in Dependency : WF_vars(Recover(d))

FairSpec == Spec /\ Fairness

-----------------------------------------------------------------------------
\* The type invariant; what PostgreSQL creates for a process is the object of
\* the step that process is at, and a gateway that serves has a limiter.
TypeOK ==
    /\ cfg \in [Key -> Setting \cup {"fatal"}]
    /\ launch \in Launch
    /\ proc \in [Proc -> {"off", "starting", "running", "exited", "deaf"}]
    /\ step \in [Proc -> Nat] /\ \A p \in Proc : step[p] \in 1 .. Len(Main(p))
    /\ creating \in [Proc -> Range(Schema) \cup {"nothing"}]
    /\ \A p \in Proc : creating[p] # "nothing" => At(p, creating[p])
    /\ schema \subseteq Range(Schema)
    /\ topology \subseteq Range(Topology)
    /\ up \subseteq Dependency
    /\ connected \subseteq Proc /\ (connected # {} => "rabbitmq" \in up)
    /\ limiter \in {"none", "stub", "two-tier"}
    /\ proc["gateway"] = "running" => limiter # "none"
    /\ faults \in 0 .. MaxFaults

\* After any number of lines, what loadFile has left in the environment is what
\* its comment promises: the container's variables win over the file, the first
\* line for a variable over later ones, and nothing else is lost.
EnvironmentFirst ==
    settings # Read =>
        \A k \in Key : settings.loaded[k] =
            Precedence(settings.env, settings.file, settings.line, k)

\* README, ENVIRONMENT: production fails fast if critical URLs are missing.  No
\* process gets past its settings in production with a built-in default URL,
\* whether the setting was undefined, empty, or empty in the file.
ProductionIsExplicit ==
    IsProduction(cfg) => "default" \notin {cfg["DATABASE_URL"], cfg["RABBITMQ_URL"]}

\* A message can be in webhook_queue only once its dead-letter route exists,
\* wherever the gateway dies or loses the broker while it declares: RabbitMQ
\* drops a rejected message whose exchange or binding is missing.
DeadLetterRouteFirst ==
    "webhook_queue" \in topology => topology = Range(Topology)

\* A process that serves or consumes has every table and index it will use, and
\* the queue, whichever of the two processes made them and whoever died on the
\* way.
RunningIsReady ==
    \A p \in Proc : proc[p] \in {"running", "deaf"} =>
        schema = Range(Schema) /\ "webhook_queue" \in topology

\* Settings that can be used.
Usable == cfg # Fatal /\ unusable = {}

Works ==
    Usable /\ (launch = "supervised" \/ (launch = "quickstart" /\ faults = 0))

AllUp == \A p \in Proc : proc[p] \in {"running", "deaf"}

\* With settings that can be used both processes come up and stay up: in the
\* README's order when nothing fails, and with restarts through outages, kills
\* and the races of the two in InitSchema (where the loser exits).  A worker
\* that lost the broker afterwards stays up and deaf.  In the container, which
\* starts the worker first and never again, this holds where an earlier start
\* has left the schema and the queue: on a fresh database or broker the worker
\* may ask for what the gateway has yet to make, and stay down.
ComesUp ==
    /\ <>[](Works => AllUp)
    /\ schema = Range(Schema) /\ "webhook_queue" \in topology =>
           <>[](Usable /\ launch = "container" /\ faults = 0 => AllUp)
=============================================================================

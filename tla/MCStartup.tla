----------------------------- MODULE MCStartup -----------------------------
(* Small sets of settings for Startup. *)
EXTENDS Startup, SequencesExt

MCEnv == [ENVIRONMENT : {"undefined", "", "production"},
          DATABASE_URL : {"undefined", "", "given"},
          RABBITMQ_URL : {"undefined", "given"}]

Line == {[key |-> "none", value |-> ""],
         [key |-> "ENVIRONMENT", value |-> "PRODUCTION"],
         [key |-> "DATABASE_URL", value |-> "given"],
         [key |-> "DATABASE_URL", value |-> "quotes"],
         [key |-> "RABBITMQ_URL", value |-> "given"]}

\* Files of up to two lines.
MCFile == SeqOf(Line, 2)

\* A setting that stops both processes early, and one that stops the gateway
\* after it declared the topology.
MCUnusable == {{}, {"redis"}, {"listen"}}
=============================================================================

------------------------------- MODULE Config -------------------------------
(***************************************************************************)
(* internal/config: how a process comes by its settings.  The file .env    *)
(* fills in what the environment leaves undefined, a setting that is       *)
(* missing or empty falls back to a built-in default, and in production    *)
(* the database and the broker must be given.  Of the values only what     *)
(* these rules tell apart is kept.                                         *)
(***************************************************************************)
EXTENDS Naturals, Sequences

Key == {"ENVIRONMENT", "DATABASE_URL", "RABBITMQ_URL"}

\* Go's empty string.
Empty == ""

\* What a variable may be: "undefined" when os.LookupEnv does not find it, or a
\* value, which may be empty.
Found == {"undefined", Empty, "given", "production", "PRODUCTION"}

\* What a line of the file may give; "quotes" is nothing but quotation marks.
Written == {Empty, "quotes", "given", "production", "PRODUCTION"}

\* What a setting may be in the end.
Setting == {"default", "given", "production", "PRODUCTION"}

Fatal == [k \in Key |-> "fatal"]

\* strings.Trim(value, `"'`).
Unquote(v) == IF v = "quotes" THEN Empty ELSE v

\* Mutant: a line of the file replaces a variable that is defined but empty.
loadLine_FillsEmpty(env, line) ==
    IF line.key \in Key /\ env[line.key] \in {"undefined", Empty}
    THEN [env EXCEPT ![line.key] = Unquote(line.value)]
    ELSE env

\* One round of loadFile's loop; blank lines, comments and lines without `=' have
\* no key.
loadLine(env, line) ==
    IF line.key \in Key /\ env[line.key] = "undefined"
    THEN [env EXCEPT ![line.key] = Unquote(line.value)]
    ELSE env

GetEnv(env, k) == IF env[k] \in {"undefined", Empty} THEN "default" ELSE env[k]

\* strings.ToLower(cfg.Environment) == "production".
IsProduction(cfg) == cfg["ENVIRONMENT"] \in {"production", "PRODUCTION"}

\* Mutant: the production check looks at the settings after the defaults.
Load_ChecksDefaults(loaded) ==
    LET cfg == [k \in Key |-> GetEnv(loaded, k)] IN
    IF IsProduction(cfg) /\ \E k \in Key : cfg[k] = Empty THEN Fatal ELSE cfg

\* Load, once the environment is loaded: in production a URL that os.Getenv
\* finds missing or empty is fatal.
Load(loaded) ==
    LET cfg == [k \in Key |-> GetEnv(loaded, k)] IN
    IF /\ IsProduction(cfg)
       /\ \E k \in {"DATABASE_URL", "RABBITMQ_URL"} : loaded[k] \in {"undefined", Empty}
    THEN Fatal ELSE cfg

\* What the comments promise of loadFile after n lines, without its loop: the
\* environment takes precedence, then the first line that names the key.
Precedence(env, file, n, k) ==
    LET naming == {i \in 1 .. n : file[i].key = k} IN
    IF env[k] # "undefined" \/ naming = {}
    THEN env[k]
    ELSE Unquote(file[CHOOSE i \in naming : \A j \in naming : i <= j].value)
=============================================================================

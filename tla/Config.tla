------------------------------- MODULE Config -------------------------------
(***************************************************************************)
(* Load of config/config.go: from the environment of the process to its    *)
(* configuration, or to the variable that an error names.                  *)
(*                                                                         *)
(* An environment maps the names of variables to texts, "" for an unset    *)
(* one, and the paths that ..._FILE variables name to the contents of      *)
(* files.                                                                  *)
(***************************************************************************)
EXTENDS Integers, Sequences

CONSTANTS
    Environments,  \* what the process may be started in
    Trimmed,       \* what strings.TrimSpace makes of a text
    Numerals,      \* what strconv.Atoi makes of the texts it accepts
    Lowered,       \* what strings.ToLower makes of a text
    Unreadable     \* the content of a file that cannot be read

Texts == DOMAIN Trimmed
Unset == ""

Secrets == {"DATABASE_URL", "EVICTOR_ENCRYPTION_KEY"}
Counts == {"PORT", "WORKER_COUNT", "WORKER_QUEUE_CAPACITY", "WORKER_MAX_ATTEMPTS"}
FileOf == [DATABASE_URL |-> "DATABASE_URL_FILE",
           EVICTOR_ENCRYPTION_KEY |-> "EVICTOR_ENCRYPTION_KEY_FILE"]
Names == Secrets \cup {FileOf[n] : n \in Secrets} \cup Counts
            \cup {"EVICTOR_ENV", "LOG_LEVEL", "EVICTOR_ROLE"}

ASSUME EnvironmentsAssumption ==
    \A env \in Environments :
        /\ DOMAIN env.vars = Names /\ \A n \in Names : env.vars[n] \in Texts
        /\ \A n \in Secrets : Trimmed[env.vars[FileOf[n]]] \in DOMAIN env.files \cup {Unset}
        /\ \A path \in DOMAIN env.files : env.files[path] \in Texts \cup {Unreadable}
ASSUME TextsAssumption ==
    /\ Unset \in Texts /\ Trimmed[Unset] = Unset /\ Unreadable \notin Texts
    /\ \A t \in Texts : Trimmed[t] \in Texts /\ Trimmed[Trimmed[t]] = Trimmed[t]
    /\ \A text \in DOMAIN Numerals : Numerals[text] \in Int

\* What makes Load fail: the error says so.
Missing == ""
NotPositive == -1

TrimSpace(text) == Trimmed[text]

\* What ..._FILE leads to, if it leads anywhere.
SecretFile(env, name) ==
    LET path == TrimSpace(env.vars[FileOf[name]])
    IN  IF path = "" \/ env.files[path] = Unreadable THEN Unset ELSE env.files[path]

\* requiredSecret: a value of its own comes before a file, and neither a blank
\* value nor a blank or unreadable file is a secret.  It is Missing otherwise.
RequiredSecret(env, name) ==
    LET value == TrimSpace(env.vars[name])
    IN  IF value # "" THEN value ELSE TrimSpace(SecretFile(env, name))

\* strconv.Atoi, with everything it refuses as one more value to refuse.
Atoi(text) == IF text \in DOMAIN Numerals THEN Numerals[text] ELSE NotPositive

Defaults ==
    [PORT |-> 8080, WORKER_COUNT |-> 4, WORKER_QUEUE_CAPACITY |-> 100,
     WORKER_MAX_ATTEMPTS |-> 3, EVICTOR_ENV |-> "development",
     LOG_LEVEL |-> "info", EVICTOR_ROLE |-> "api"]

\* Broken: zero is accepted.
NaturalInt(env, name) ==
    LET raw == TrimSpace(env.vars[name])
    IN  IF raw = "" THEN Defaults[name] ELSE Atoi(raw)

\* positiveInt.
PositiveInt(env, name) ==
    LET raw == TrimSpace(env.vars[name])
    IN  IF raw = "" THEN Defaults[name]
                    ELSE IF Atoi(raw) <= 0 THEN NotPositive ELSE Atoi(raw)

\* defaultValue.
DefaultValue(env, name) ==
    LET value == TrimSpace(env.vars[name])
    IN  IF value = "" THEN Defaults[name] ELSE value

\* ParseRole, for a value of the environment or an argument.
IsRole(value) == value \in {"api", "worker"}

IsLogLevel(value) == Lowered[value] \in {"info", "debug", "warn", "error"}

IsEnvironment(value) == value \in {"development", "production"}

\* Load: the whole configuration.
Load(env) ==
    [secrets |-> [n \in Secrets |-> RequiredSecret(env, n)],
     counts |-> [n \in Counts |-> PositiveInt(env, n)],
     environment |-> DefaultValue(env, "EVICTOR_ENV"),
     logLevel |-> Lowered[DefaultValue(env, "LOG_LEVEL")],
     role |-> DefaultValue(env, "EVICTOR_ROLE")]

\* Whether Load returns it, and no error.
LoadSucceeds(env) ==
    /\ \A n \in Secrets : RequiredSecret(env, n) # Missing
    /\ \A n \in Counts : PositiveInt(env, n) # NotPositive
    /\ IsEnvironment(DefaultValue(env, "EVICTOR_ENV"))
    /\ IsLogLevel(DefaultValue(env, "LOG_LEVEL"))
    /\ IsRole(DefaultValue(env, "EVICTOR_ROLE"))
=============================================================================

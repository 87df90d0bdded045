--------------------------- MODULE Configuration ----------------------------
(***************************************************************************)
(* internal/config: where a secret comes from and which configurations     *)
(* LoadConfig accepts.  Nothing here has state; Process says when the      *)
(* program asks.                                                           *)
(*                                                                         *)
(* Of a text only what the code looks at is kept: whether it is there,     *)
(* empty, nothing but white space, or as long as a key must be.            *)
(*                                                                         *)
(* An operator named Mutant_X is a plausible error in the definition below *)
(* it; no action uses one.                                                 *)
(***************************************************************************)
EXTENDS Naturals

CONSTANTS
    Servers,    \* the configured Minecraft servers
    Variables,  \* names of environment variables
    Env,        \* what each contains; nobody changes them while the process runs
    Files,      \* names of files that hold secrets
    Nil         \* a field that is not in the configuration file

Texts == {"missing", "empty", "blank", "short", "long"}

ASSUME EnvAssumption == Env \in [Variables -> Texts]
ASSUME NilAssumption == Nil \notin Variables \cup Files \cup Texts

\* A field of the configuration that holds a secret, or names its source.
Secrets == [value : Texts \ {"missing"},
            env   : Variables \cup {Nil},
            file  : Files \cup {Nil}]

\* strings.TrimSpace, which is applied to a file and not to a variable.
Trimmed(text) == IF text = "blank" THEN "empty" ELSE text

\* The first source that is named decides; a later one is no fallback.
Found(secret, files) ==
    CASE secret.value # "empty" -> secret.value
      [] secret.value = "empty" /\ secret.env # Nil -> Env[secret.env]
      [] secret.value = "empty" /\ secret.env = Nil /\ secret.file # Nil ->
           Trimmed(files[secret.file])
      [] OTHER -> "missing"

Mutant_Resolves(secret, files) == Found(secret, files) # "missing"

Resolves(secret, files) == Found(secret, files) \notin {"missing", "empty"}

\* What is looked at of a configuration here.  A duration is "none", "unit" (one that
\* time.ParseDuration reads), "zero", "negative", "days" (a number and a d, which it
\* does not read) or "junk".
Durations == {"none", "unit", "zero", "negative", "days", "junk"}

Parses(duration) == duration \in {"unit", "zero", "negative"}

Configurations ==
    [session      : Secrets \cup {Nil},
     clientId     : Secrets \cup {Nil},
     clientSecret : Secrets \cup {Nil},
     password     : [Servers -> Secrets \cup {Nil}],
     lists        : SUBSET [wellNamed : BOOLEAN, entries : Nat],
     params       : SUBSET [type : {"text", "list", "player"}, options : Nat],
     retention    : Durations,
     interval     : [Servers -> Durations]]

ListsAreValid(cfg) == \A list \in cfg.lists : list.wellNamed /\ list.entries > 0

ParamsAreValid(cfg) == \A p \in cfg.params : p.type = "list" => p.options > 0

\* Of the client's secret only the presence is checked, of its id nothing.
Valid(cfg, files) ==
    /\ cfg.session # Nil
    /\ Resolves(cfg.session, files)
    /\ Found(cfg.session, files) = "long"
    /\ cfg.clientSecret # Nil
    /\ \A s \in Servers : cfg.password[s] # Nil /\ Resolves(cfg.password[s], files)
    /\ ListsAreValid(cfg)
    /\ ParamsAreValid(cfg)

\* The pause between two polls of a server.
Interval(cfg, s) ==
    IF ~Parses(cfg.interval[s]) \/ cfg.interval[s] = "zero" THEN "unit"
    ELSE cfg.interval[s]
=============================================================================

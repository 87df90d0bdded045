----------------------------- MODULE Lifecycle ------------------------------
(***************************************************************************)
(* What survives a restart of rconman and what a start does to it: the     *)
(* desired state of each server and its command templates, both in SQLite. *)
(* cmd/rconman/main.go looks at both before it serves; the power switch,   *)
(* the template editor and the metrics page work on them afterwards.       *)
(*                                                                         *)
(* A template is its name; which entry of the configuration it was seeded  *)
(* from, and at which start, is kept beside it for the properties.         *)
(*                                                                         *)
(* An operator named Mutant_X is a plausible error in the definition below *)
(* it; no action uses one.                                                 *)
(***************************************************************************)
EXTENDS Naturals, Sequences, FiniteSets

CONSTANTS
    Servers,      \* the configured servers
    Order,        \* the same, as listed in the configuration file
    Names,        \* names of templates
    Configs,      \* the lists of templates that a configuration may give a server
    MaxStarts,    \* bound: starts of the process
    MaxRows       \* bound: rows up to which the editor creates more

ASSUME ServersAssumption == Order \in Seq(Servers) /\ Configs \subseteq Seq(Names)
ASSUME BoundsAssumption == MaxStarts \in Nat \ {0} /\ MaxRows \in Nat

VARIABLES
    desired,    \* table server_desired_state; "unset" when there is no row
    templates,  \* table command_templates
    lastId,     \* its AUTOINCREMENT counter
    config,     \* minecraft.servers[*].commands of the running configuration
    phase,      \* "down", "states", "templates", "insert" or "serving"
    todo,       \* servers that the current loop of the start has still to visit
    items,      \* templates of the first of them still to insert
    starts,     \* how often the process was started
    metric,     \* what the metrics page last reported
    wanted,     \* history: what the last power request that succeeded asked for
    misread,    \* history: servers whose state a start could not read since then
    skipped     \* history: servers for which this start could not insert a template

tableVars == <<desired, templates, lastId>>
startVars == <<config, phase, todo, items, starts>>
history == <<wanted, misread, skipped>>
vars == <<tableVars, startVars, metric, history>>

States == {"running", "stopped"}

Mutant_OrRunning(state) == state
Mutant_OrStopped(state) == IF state = "unset" THEN "stopped" ELSE state

\* A server without a row is to be running.
OrRunning(state) == IF state = "unset" THEN "running" ELSE state

RowsOf(s) == {t \in templates : t.server = s}

Init ==
    /\ desired = [s \in Servers |-> "unset"]
    /\ templates = {}
    /\ lastId = 0
    /\ config = [s \in Servers |-> <<>>]
    /\ phase = "down"
    /\ todo = <<>>
    /\ items = <<>>
    /\ starts = 0
    /\ metric = [s \in Servers |-> "running"]
    /\ wanted = [s \in Servers |-> "running"]
    /\ misread = {}
    /\ skipped = {}

-----------------------------------------------------------------------------
(* The start: one loop over the servers for their desired states, one for
   their templates. *)

\* The configuration file may have changed since the last start.
Start ==
    /\ phase = "down"
    /\ starts < MaxStarts
    /\ starts' = starts + 1
    /\ config' \in [Servers -> Configs]
    /\ phase' = "states"
    /\ todo' = Order
    /\ skipped' = {}
    /\ UNCHANGED <<tableVars, items, metric, wanted, misread>>

Mutant_SeedState ==
    /\ phase = "states"
    /\ todo # <<>>
    /\ todo' = Tail(todo)
    /\ desired' = [desired EXCEPT ![Head(todo)] = "running"]
    /\ UNCHANGED <<templates, lastId, config, phase, items, starts, metric, history>>

\* A state that cannot be read is set to running, which may fail as well.
SeedState ==
    /\ phase = "states"
    /\ todo # <<>>
    /\ todo' = Tail(todo)
    /\ \/ UNCHANGED <<desired, misread>>
       \/ /\ desired' = [desired EXCEPT ![Head(todo)] = "running"]
          /\ misread' = misread \cup {Head(todo)}
    /\ UNCHANGED <<templates, lastId, config, phase, items, starts, metric, wanted, skipped>>

StatesSeeded ==
    /\ phase = "states"
    /\ todo = <<>>
    /\ phase' = "templates"
    /\ todo' = Order
    /\ UNCHANGED <<tableVars, config, items, starts, metric, history>>

Mutant_ToSeed(s) == config[s] # <<>>

\* Templates come from the configuration only while the server has none.
ToSeed(s) == config[s] # <<>> /\ RowsOf(s) = {}

\* A table that cannot be read is left alone, like one that has rows.
CheckTemplates ==
    /\ phase = "templates"
    /\ todo # <<>>
    /\ \/ /\ ToSeed(Head(todo))
          /\ phase' = "insert"
          /\ items' = config[Head(todo)]
          /\ UNCHANGED todo
       \/ /\ todo' = Tail(todo)
          /\ UNCHANGED <<phase, items>>
    /\ UNCHANGED <<tableVars, config, starts, metric, history>>

\* The position in the configuration of the first of the items left.
Position == Len(config[Head(todo)]) - Len(items) + 1

\* The next template is inserted, or reported and passed over.
SeedTemplate ==
    /\ phase = "insert"
    /\ items # <<>>
    /\ \/ /\ lastId' = lastId + 1
          /\ templates' = templates \cup
               {[id |-> lastId', server |-> Head(todo), name |-> Head(items),
                 item |-> Position, start |-> starts]}
          /\ UNCHANGED skipped
       \/ /\ skipped' = skipped \cup {Head(todo)}
          /\ UNCHANGED <<templates, lastId>>
    /\ items' = Tail(items)
    /\ UNCHANGED <<desired, config, phase, todo, starts, metric, wanted, misread>>

Mutant_ServerSeeded ==
    /\ phase = "insert"
    /\ Len(items) <= 1
    /\ phase' = "templates"
    /\ items' = <<>>
    /\ todo' = Tail(todo)
    /\ UNCHANGED <<tableVars, config, starts, metric, history>>

ServerSeeded ==
    /\ phase = "insert"
    /\ items = <<>>
    /\ phase' = "templates"
    /\ todo' = Tail(todo)
    /\ UNCHANGED <<tableVars, config, items, starts, metric, history>>

Serve ==
    /\ phase = "templates"
    /\ todo = <<>>
    /\ phase' = "serving"
    /\ UNCHANGED <<tableVars, config, todo, items, starts, metric, history>>

\* A signal, a crash, or an exit during the start.  The tables survive.  The
\* last of the starts counted is not stopped again.
Stop ==
    /\ phase # "down"
    /\ starts < MaxStarts
    /\ phase' = "down"
    /\ todo' = <<>>
    /\ items' = <<>>
    /\ UNCHANGED <<tableVars, config, starts, metric, history>>

-----------------------------------------------------------------------------
(* Requests.  One that is refused, for its role or its input, and one whose
   statement fails changes nothing. *)

SetPower(s, state) ==
    /\ phase = "serving"
    /\ desired' = [desired EXCEPT ![s] = state]
    /\ wanted' = [wanted EXCEPT ![s] = state]
    /\ misread' = misread \ {s}
    /\ UNCHANGED <<templates, lastId, startVars, metric, skipped>>

CreateTemplate(s, name) ==
    /\ phase = "serving"
    /\ lastId < MaxRows
    /\ lastId' = lastId + 1
    /\ templates' = templates \cup
         {[id |-> lastId', server |-> s, name |-> name, item |-> 0, start |-> 0]}
    /\ UNCHANGED <<desired, startVars, metric, history>>

\* UPDATE ... WHERE id leaves the row's server and id alone.
UpdateTemplate(t, name) ==
    /\ phase = "serving"
    /\ templates' = (templates \ {t}) \cup {[t EXCEPT !.name = name]}
    /\ UNCHANGED <<desired, lastId, startVars, metric, history>>

DeleteTemplate(t) ==
    /\ phase = "serving"
    /\ templates' = templates \ {t}
    /\ UNCHANGED <<desired, lastId, startVars, metric, history>>

\* When the table cannot be read every server is reported as running.
Scrape ==
    /\ phase = "serving"
    /\ \/ metric' = [s \in Servers |-> OrRunning(desired[s])]
       \/ metric' = [s \in Servers |-> "running"]
    /\ UNCHANGED <<tableVars, startVars, history>>

-----------------------------------------------------------------------------
Starting ==
    Start \/ SeedState \/ StatesSeeded \/ CheckTemplates \/ SeedTemplate
    \/ ServerSeeded \/ Serve

Requests ==
    \/ \E s \in Servers :
         \/ \E state \in States : SetPower(s, state)
         \/ \E name \in Names : CreateTemplate(s, name)
    \/ \E t \in templates :
         \/ \E name \in Names : UpdateTemplate(t, name)
         \/ DeleteTemplate(t)
    \/ Scrape

Next == Starting \/ Stop \/ Requests

Spec == Init /\ [][Next]_vars

-----------------------------------------------------------------------------
(* Safety. *)

Rows == [id : Nat, server : Servers, name : Names, item : Nat, start : Nat]

\* Every variable has its type.
TypeOK ==
    /\ desired \in [Servers -> States \cup {"unset"}]
    /\ templates \subseteq Rows
    /\ lastId \in Nat
    /\ config \in [Servers -> Configs \cup {<<>>}]
    /\ phase \in {"down", "states", "templates", "insert", "serving"}
    /\ todo \in Seq(Servers)
    /\ items \in Seq(Names)
    /\ starts \in 0..MaxStarts
    /\ metric \in [Servers -> States]
    /\ wanted \in [Servers -> States]
    /\ misread \subseteq Servers
    /\ skipped \subseteq Servers

\* No number of restarts, crashes during a start or changes of the
\* configuration changes what the power switch of a server was last set to, but
\* for a start that cannot read it (main.go:73-86, power.go:77).
DesiredIsWanted ==
    \A s \in Servers \ misread : OrRunning(desired[s]) = wanted[s]

\* What a server has from the configuration comes from one start and holds no
\* entry twice: a start that follows a crash in the middle of seeding, or a
\* change of the configuration, adds nothing to it (main.go:88-124).
SeededOnce ==
    \A t, u \in templates :
        t.server = u.server /\ t.start > 0 /\ u.start > 0 =>
            /\ t.start = u.start
            /\ t.item = u.item => t = u

\* The entries of a server's configuration that this start has inserted.
Seeded(s) == {t.item : t \in {u \in RowsOf(s) : u.start = starts}}

Passed(s) == phase = "templates" /\ \A i \in 1..Len(todo) : todo[i] # s

\* A start that seeds a server and comes past it has inserted every one of its
\* entries, unless an insertion was refused (main.go:102-120).
SeedIsWhole ==
    \A s \in Servers :
        Passed(s) /\ s \notin skipped /\ Seeded(s) # {} => Seeded(s) = 1..Len(config[s])

\* While a server is seeded it holds only what this start has inserted, all of it
\* from entries before the next one.
SeedingIsFresh ==
    phase = "insert" =>
        /\ todo # <<>>
        /\ Len(items) <= Len(config[Head(todo)])
        /\ \A t \in RowsOf(Head(todo)) : t.start = starts /\ t.item < Position

\* A row never comes from a start that is still to come.
RowsAreOld == \A t \in templates : t.start <= starts

\* Until it serves, a start has inserted all that it will ever insert for a server, or
\* nothing, or is about to insert the entry after those it has.
SeedsAreWhole ==
    phase \in {"states", "templates", "insert"} =>
        \A s \in Servers \ skipped :
            IF phase = "insert" /\ s = Head(todo) THEN Seeded(s) = 1..(Position - 1)
            ELSE Seeded(s) \in {{}, 1..Len(config[s])}

StopsAreWanted == \A s \in Servers : desired[s] = "stopped" => wanted[s] = "stopped"

\* What every step keeps: the invariants, with what the insertions of a start
\* and the next scrape need (main.go:73-124).
IInv ==
    /\ DesiredIsWanted
    /\ StopsAreWanted
    /\ SeededOnce
    /\ SeedingIsFresh
    /\ RowsAreOld
    /\ SeedsAreWhole

\* The metric falls to 0, upon which KEDA stops the server, only when a user has
\* switched the server off: no restart, failed statement, new server or table
\* that cannot be read does it (metrics.go:25-38, sqlite.go:135-145).
MetricStopsOnRequest ==
    [][\A s \in Servers :
         metric[s] # "stopped" /\ metric'[s] = "stopped" => wanted[s] = "stopped"]_vars
=============================================================================

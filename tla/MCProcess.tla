----------------------------- MODULE MCProcess ------------------------------
(* Instances of Process for TLC. *)
EXTENDS Process

CONSTANTS s1, p1, r1, v1, v2, v3, v4, f1

MCServers == {s1}
MCPlayers == {p1}
MCRequests == {r1}
MCVariables == {v1, v2, v3, v4}
MCEnv == [v \in MCVariables |->
            CASE v = v1 -> "missing" [] v = v2 -> "empty" [] v = v3 -> "blank" [] v = v4 -> "long"]
MCFiles == {f1}

Inline(text) == [value |-> text, env |-> Nil, file |-> Nil]
FromEnv(v)   == [value |-> "empty", env |-> v, file |-> Nil]
FromEither(v) == [value |-> "empty", env |-> v, file |-> f1]
FromFile     == [value |-> "empty", env |-> Nil, file |-> f1]

Good == [session      |-> Inline("long"),
         clientId     |-> Inline("short"),
         clientSecret |-> FromEnv(v4),
         password     |-> [s \in MCServers |-> Inline("short")],
         lists        |-> {[wellNamed |-> TRUE, entries |-> 1]},
         params       |-> {[type |-> "list", options |-> 1], [type |-> "text", options |-> 0]},
         retention    |-> "unit",
         interval     |-> [s \in MCServers |-> "unit"]]

\* Configurations that work, and each way to deviate from them.
MCConfigs ==
    {Good,
     [Good EXCEPT !.retention = "none", !.interval[s1] = "zero"],
     [Good EXCEPT !.clientId = FromEnv(v3), !.interval[s1] = "junk"]}
    \cup {[Good EXCEPT !.session = x] : x \in {Nil, Inline("short"), FromEither(v1), FromFile}}
    \cup {[Good EXCEPT !.clientId = x] : x \in {Nil, FromEnv(v2), FromFile}}
    \cup {[Good EXCEPT !.clientSecret = x] : x \in {Nil, FromEnv(v1), Inline("empty")}}
    \cup {[Good EXCEPT !.password[s1] = x] : x \in {Nil, FromFile, FromEnv(v2)}}
    \cup {[Good EXCEPT !.lists = {x}] : x \in {[wellNamed |-> FALSE, entries |-> 1],
                                                [wellNamed |-> TRUE, entries |-> 0]}}
    \cup {[Good EXCEPT !.params = {[type |-> "list", options |-> 0]}],
          [Good EXCEPT !.retention = "days"],
          [Good EXCEPT !.interval[s1] = "negative"]}

\* For what the pollers do.
MCIntervals == {Good, [Good EXCEPT !.interval[s1] = "negative"]}
=============================================================================

------------------------------ MODULE Process -------------------------------
(***************************************************************************)
(* The process: cmd/rconman/main.go from LoadConfig to its return, with    *)
(* what it starts: the listener, the pollers of the status cache, the      *)
(* pruner and a goroutine per request (internal/server).  The two loops    *)
(* that seed the database are in Lifecycle.                                *)
(*                                                                         *)
(* Secrets are read twice, by Validate and when they are needed, and a     *)
(* mounted file may change in between.  Nothing stops the goroutines but   *)
(* the end of the process; Shutdown waits for requests, for 30 seconds.    *)
(*                                                                         *)
(* An operator named Mutant_X is a plausible error in the definition below *)
(* it; no action uses one.                                                 *)
(***************************************************************************)
EXTENDS StatusCache

CONSTANTS
    Configs,       \* configuration files
    Requests,      \* requests of browsers
    MaxRotations   \* bound: changes of the files that hold secrets

ASSUME ConfigsAssumption == Configs \subseteq Configurations
ASSUME RequestsAssumption == "pruner" \notin Requests
ASSUME RotationsAssumption == MaxRotations \in Nat

VARIABLES
    cfg,        \* the configuration file
    files,      \* what the files contain
    phase,      \* how far main is
    password,   \* of each server's client; Nil before there is one
    key,        \* the key of the session cookies; Nil before it is read
    listener,   \* "none", "pending" (goroutine started), "open", "failed" or "closed"
    pruning,    \* the pruner runs
    open,       \* the store is open
    request,    \* "idle", "handling", "storing", "answered", or "cut" (off)
    signalled,  \* SIGINT or SIGTERM was sent
    end,        \* why the process has ended; "none" while it runs
    rotations,  \* history: changes of the files
    timedOut,   \* history: Shutdown gave up after 30 seconds
    metClosed   \* history: who found the store closed

mainVars == <<cfg, phase, password, key, listener, pruning, open, signalled, end, timedOut>>
restVars == <<files, request, rotations, metClosed>>
vars == <<mainVars, restVars, statusVars>>

\* A field names the file.
Named(f) ==
    \/ \E secret \in {cfg.session, cfg.clientId, cfg.clientSecret} :
         secret # Nil /\ secret.file = f
    \/ \E s \in Servers : cfg.password[s] # Nil /\ cfg.password[s].file = f

Init ==
    /\ StatusInit
    /\ cfg \in Configs
    /\ files \in {F \in [Files -> Texts] : \A f \in Files : Named(f) \/ F[f] = "missing"}
    /\ phase = "load"
    /\ password = [s \in Servers |-> Nil]
    /\ key = Nil
    /\ listener = "none"
    /\ pruning = FALSE
    /\ open = FALSE
    /\ request = [r \in Requests |-> "idle"]
    /\ signalled = FALSE
    /\ end = "none"
    /\ rotations = 0
    /\ timedOut = FALSE
    /\ metClosed = {}

-----------------------------------------------------------------------------
(* How the process ends: every goroutine with it, whatever it is doing. *)

UnderWay == {r \in Requests : request[r] \in {"handling", "storing"}}

End(reason) ==
    /\ phase' = "ended"
    /\ end' = reason
    /\ listener' = "closed"
    /\ pruning' = FALSE
    /\ open' = FALSE
    /\ polling' = {}
    /\ request' = [r \in Requests |-> IF r \in UnderWay THEN "cut" ELSE request[r]]
    /\ UNCHANGED <<cfg, files, password, key, signalled, rotations, timedOut, metClosed,
                   game, stuck, asked, answers, cache, shown, past>>

\* main goes on to its next phase.
GoOn(from, to) == phase = from /\ phase' = to

\* A step of main either succeeds or is the last one.
OrExit(from, ok, reason) == phase = from /\ ~ok /\ End(reason)

-----------------------------------------------------------------------------
(* The start. *)

\* The file may be missing or no YAML, whatever it would say.
Load ==
    \/ /\ GoOn("load", "store")
       /\ Valid(cfg, files)
       /\ UNCHANGED <<cfg, password, key, listener, pruning, open, signalled, end, timedOut,
                      restVars, statusVars>>
    \/ OrExit("load", Valid(cfg, files), "config")
    \/ OrExit("load", FALSE, "config")

\* Opening the file and creating the tables may fail.
OpenStore ==
    \/ /\ GoOn("store", "retention")
       /\ open' = TRUE
       /\ UNCHANGED <<cfg, password, key, listener, pruning, signalled, end, timedOut,
                      restVars, statusVars>>
    \/ OrExit("store", FALSE, "store")

\* No retention, no pruner; one that does not parse ends the start.
RetentionReads == cfg.retention = "none" \/ Parses(cfg.retention)

StartPruner ==
    \/ /\ GoOn("retention", "clients")
       /\ RetentionReads
       /\ pruning' = (cfg.retention # "none")
       /\ UNCHANGED <<cfg, password, key, listener, open, signalled, end, timedOut,
                      restVars, statusVars>>
    \/ OrExit("retention", RetentionReads, "retention")

\* The password is read again; a client whose password cannot be read has an empty
\* one.
NewClient(s) ==
    /\ phase = "clients"
    /\ password[s] = Nil
    /\ password' = [password EXCEPT ![s] =
         IF Resolves(cfg.password[s], files) THEN Found(cfg.password[s], files) ELSE "empty"]
    /\ UNCHANGED <<cfg, phase, key, listener, pruning, open, signalled, end, timedOut,
                   restVars, statusVars>>

ClientsMade ==
    /\ GoOn("clients", "id")
    /\ \A s \in Servers : password[s] # Nil
    /\ UNCHANGED <<cfg, password, key, listener, pruning, open, signalled, end, timedOut,
                   restVars, statusVars>>

Usable(secret) == secret # Nil /\ Resolves(secret, files)

\* Resolve on a field that is not there dereferences nil.
Failure(secret) == IF secret = Nil THEN "panic" ELSE "secret"

ResolveId ==
    \/ /\ GoOn("id", "secret")
       /\ Usable(cfg.clientId)
       /\ UNCHANGED <<cfg, password, key, listener, pruning, open, signalled, end, timedOut,
                      restVars, statusVars>>
    \/ OrExit("id", Usable(cfg.clientId), Failure(cfg.clientId))

ResolveSecret ==
    \/ /\ GoOn("secret", "key")
       /\ Usable(cfg.clientSecret)
       /\ UNCHANGED <<cfg, password, key, listener, pruning, open, signalled, end, timedOut,
                      restVars, statusVars>>
    \/ OrExit("secret", Usable(cfg.clientSecret), Failure(cfg.clientSecret))

\* Its length is not looked at a second time.
ResolveKey ==
    \/ /\ GoOn("key", "provider")
       /\ Resolves(cfg.session, files)
       /\ key' = Found(cfg.session, files)
       /\ UNCHANGED <<cfg, password, listener, pruning, open, signalled, end, timedOut,
                      restVars, statusVars>>
    \/ OrExit("key", Resolves(cfg.session, files), "secret")

\* NewMiddleware asks the provider for its endpoints.
Discover ==
    \/ /\ GoOn("provider", "server")
       /\ UNCHANGED <<cfg, password, key, listener, pruning, open, signalled, end, timedOut,
                      restVars, statusVars>>
    \/ OrExit("provider", FALSE, "provider")

\* NewServer starts the pollers.
NewServer ==
    /\ GoOn("server", "launch")
    /\ polling' = Servers
    /\ UNCHANGED <<cfg, password, key, listener, pruning, open, signalled, end, timedOut,
                   restVars, game, stuck, asked, answers, cache, shown, past>>

Launch ==
    /\ GoOn("launch", "notify")
    /\ listener' = "pending"
    /\ UNCHANGED <<cfg, password, key, pruning, open, signalled, end, timedOut,
                   restVars, statusVars>>

\* From here on a signal is received and does not kill.
Notify ==
    /\ GoOn("notify", "serving")
    /\ UNCHANGED <<cfg, password, key, listener, pruning, open, signalled, end, timedOut,
                   restVars, statusVars>>

-----------------------------------------------------------------------------
(* The end. *)

BeginShutdown ==
    /\ GoOn("serving", "draining")
    /\ signalled
    /\ listener' = "closed"
    /\ UNCHANGED <<cfg, password, key, pruning, open, signalled, end, timedOut,
                   restVars, statusVars>>

Mutant_Drained ==
    /\ GoOn("draining", "closing")
    /\ UNCHANGED <<cfg, password, key, listener, pruning, open, signalled, end, timedOut,
                   restVars, statusVars>>

\* Shutdown returns when no request is under way.
Drained ==
    /\ GoOn("draining", "closing")
    /\ UnderWay = {}
    /\ UNCHANGED <<cfg, password, key, listener, pruning, open, signalled, end, timedOut,
                   restVars, statusVars>>

Mutant_DrainTimeout == FALSE

\* It returns after 30 seconds, too, and leaves the requests alone.
DrainTimeout ==
    /\ GoOn("draining", "closing")
    /\ timedOut' = TRUE
    /\ UNCHANGED <<cfg, password, key, listener, pruning, open, signalled, end,
                   restVars, statusVars>>

\* The deferred st.Close(), and after it the return of main.
CloseStore ==
    /\ GoOn("closing", "returning")
    /\ open' = FALSE
    /\ UNCHANGED <<cfg, password, key, listener, pruning, signalled, end, timedOut,
                   restVars, statusVars>>

Return == phase = "returning" /\ End("stopped")

-----------------------------------------------------------------------------
(* The other goroutines. *)

Alive == phase # "ended"

\* The address may be in use: that is logged, and main goes on waiting.
Listen ==
    /\ listener = "pending"
    /\ listener' \in {"open", "failed"}
    /\ UNCHANGED <<cfg, phase, password, key, pruning, open, signalled, end, timedOut,
                   restVars, statusVars>>

Stage(r, stages, to) ==
    /\ request[r] \in stages
    /\ request' = [request EXCEPT ![r] = to]
    /\ UNCHANGED <<mainVars, files, rotations, statusVars>>

Accept(r) ==
    /\ listener = "open"
    /\ Stage(r, {"idle"}, "handling")
    /\ UNCHANGED metClosed

\* A handler that has no use for the store answers; Execute records its command first.
Answer(r) == Stage(r, {"handling"}, "answered") /\ UNCHANGED metClosed
Sent(r)   == Stage(r, {"handling"}, "storing") /\ UNCHANGED metClosed

FindsStore(who) == metClosed' = IF open THEN metClosed ELSE metClosed \cup {who}

Record(r) == Stage(r, {"storing"}, "answered") /\ FindsStore(r)

Prune ==
    /\ pruning
    /\ FindsStore("pruner")
    /\ UNCHANGED <<mainVars, files, request, rotations, statusVars>>

\* time.NewTicker panics on an interval below zero, and nobody recovers.
PollerPanics(s) == s \in polling /\ Interval(cfg, s) = "negative" /\ End("panic")

Poll(s) ==
    /\ Interval(cfg, s) # "negative"
    /\ PollerStep(s)
    /\ UNCHANGED <<mainVars, restVars>>

Show(s) == listener = "open" /\ ShowStatus(s) /\ UNCHANGED <<mainVars, restVars>>

-----------------------------------------------------------------------------
(* The outside. *)

\* Before the pollers run nobody looks at the servers.
Play(s) == s \in polling /\ (GameChanges(s) \/ GetStuck(s)) /\ UNCHANGED <<mainVars, restVars>>

\* Changes that can matter: of a file that a field names, while somebody reads it.
Rotate(f) ==
    /\ Named(f)
    /\ phase \in {"load", "store", "retention", "clients", "id", "secret", "key"}
    /\ rotations < MaxRotations
    /\ rotations' = rotations + 1
    /\ \E text \in Texts : files' = [files EXCEPT ![f] = text]
    /\ UNCHANGED <<mainVars, request, metClosed, statusVars>>

\* A signal kills the process before Notify; during the shutdown it is ignored.
Signal ==
    /\ Alive /\ ~signalled
    /\ \/ /\ phase \in {"serving", "draining", "closing", "returning"}
          /\ signalled' = TRUE
          /\ UNCHANGED <<cfg, phase, password, key, listener, pruning, open, end, timedOut,
                         restVars, statusVars>>
       \/ /\ phase \notin {"serving", "draining", "closing", "returning"}
          /\ End("killed")

-----------------------------------------------------------------------------
Start ==
    \/ Load \/ OpenStore \/ StartPruner \/ ClientsMade
    \/ ResolveId \/ ResolveSecret \/ ResolveKey
    \/ Discover \/ NewServer \/ Launch \/ Notify
    \/ \E s \in Servers : NewClient(s)

Finish == BeginShutdown \/ Drained \/ DrainTimeout \/ CloseStore \/ Return

Handle(r) == Accept(r) \/ Answer(r) \/ Sent(r) \/ Record(r)

Next ==
    \/ Start \/ Finish \/ Listen \/ Prune \/ Signal
    \/ \E r \in Requests : Handle(r)
    \/ \E s \in Servers : Poll(s) \/ PollerPanics(s) \/ Show(s) \/ Play(s)
    \/ \E f \in Files : Rotate(f)

Spec == Init /\ [][Next]_vars

\* main runs on, the poller is scheduled, and the page asks again.  A poll that has the
\* mutex ends within its ten seconds; one that does not have it ends when it comes loose,
\* which is never while the game server is frozen.
Fairness ==
    /\ WF_vars(Finish)
    /\ \A s \in Servers : WF_vars(Poll(s)) /\ WF_vars(PollerPanics(s)) /\ WF_vars(Show(s))

FairSpec == Spec /\ Fairness

-----------------------------------------------------------------------------
(* Safety. *)

Started == phase \in {"provider", "server", "launch", "notify", "serving", "draining",
                      "closing", "returning"}

\* Every variable has its type.
TypeOK ==
    /\ StatusTypeOK
    /\ cfg \in Configs
    /\ files \in [Files -> Texts]
    /\ phase \in {"load", "store", "retention", "clients", "id", "secret", "key", "ended"}
                 \cup {"provider", "server", "launch", "notify", "serving", "draining",
                       "closing", "returning"}
    /\ password \in [Servers -> (Texts \ {"missing"}) \cup {Nil}]
    /\ key \in (Texts \ {"missing", "empty"}) \cup {Nil}
    /\ listener \in {"none", "pending", "open", "failed", "closed"}
    /\ pruning \in BOOLEAN
    /\ open \in BOOLEAN
    /\ request \in [Requests -> {"idle", "handling", "storing", "answered", "cut"}]
    /\ signalled \in BOOLEAN
    /\ end \in {"none", "config", "store", "retention", "secret", "provider", "panic",
                "killed", "stopped"}
    /\ rotations \in 0..MaxRotations
    /\ timedOut \in BOOLEAN
    /\ metClosed \subseteq Requests \cup {"pruner"}

\* The key and the passwords in use are those that Validate has seen: long enough,
\* and not empty, unless a file changed after it was validated (main.go:129, 151).
SecretsWereChecked ==
    Started /\ rotations = 0 =>
        /\ key = "long"
        /\ \A s \in Servers : password[s] \notin {Nil, "missing", "empty"}

\* A process that was told to stop has carried out every request that it had accepted, on
\* an open store and to the end, or has waited 30 seconds for it (main.go:61, 199-209).
RequestsAreCarriedOut ==
    ~timedOut =>
        /\ metClosed \cap Requests = {}
        /\ end = "stopped" => \A r \in Requests : request[r] # "cut"

-----------------------------------------------------------------------------
(* Steps and liveness. *)

\* Neither the cache nor a page goes back to an earlier poll (status.go:65-90).
StatusMovesForward ==
    [][\A s \in Servers :
         cache'[s].moment >= cache[s].moment /\ shown'[s].moment >= shown[s].moment]_vars

\* A process that was told to stop ends, whatever its requests do (main.go:199-209).
SignalEndsProcess == signalled ~> phase = "ended"

\* While rconman serves, a game server that is down for good is shown as offline, for good,
\* also when it was frozen before and the poller's client was stuck: what was kept waiting
\* comes loose, and no older answer is stored after that (status.go:69-89, client.go:74, 91).
OutageIsShown ==
    \A s \in Servers :
        <>[](listener = "open" /\ game[s].mode = "down") => <>[](~shown[s].online)
=============================================================================

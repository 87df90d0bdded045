----------------------------- MODULE CommandLog -----------------------------
(***************************************************************************)
(* The command handler (internal/handlers/handlers.go), the log table of   *)
(* internal/store/sqlite.go, and the pruner of cmd/rconman/main.go.  The   *)
(* RCON client below the handler is CommandService, which RconClient is    *)
(* shown to implement.                                                     *)
(*                                                                         *)
(* The log survives the process, a request does not.  Timestamps are whole *)
(* seconds, as datetime('now') gives them.  The text of commands and       *)
(* replies is left out: what matters is which request an entry belongs to  *)
(* and whether it holds a reply.                                           *)
(*                                                                         *)
(* An operator named Mutant_X is a plausible error in the definition below *)
(* it; no action uses one.                                                 *)
(***************************************************************************)
EXTENDS Naturals, FiniteSets

CONSTANTS
    Callers,      \* browsers that run commands, one at a time
    MaxCalls,     \* bound: commands per browser
    Limit,        \* entries on a page of the log (50 in the code)
    Retention,    \* seconds that an entry is kept
    MaxTime,      \* bound: the clock
    MaxCrashes,   \* bound: how often the process dies
    StoreFaults   \* whether an insertion may fail although its context is live

ASSUME BoundsAssumption ==
    /\ MaxCalls \in Nat /\ Limit \in Nat /\ Retention \in Nat
    /\ MaxTime \in Nat /\ MaxCrashes \in Nat
ASSUME FaultsAssumption == StoreFaults \in BOOLEAN

VARIABLES
    outcome, call, executions,  \* of CommandService
    stage,     \* of the handler: "idle", "send", "record" or "respond"
    browser,   \* whether the request's context is "live" or "gone"
    fate,      \* of a request's RecordCommand: "none", "stored", "refused" by the
               \* store, or "cancelled" with its context
    answer,    \* what the browser got: "none", "executed", "error" or "lost"
    log,       \* the rows of command_logs
    lastId,    \* the AUTOINCREMENT counter
    now,       \* the clock
    running,   \* whether the process runs
    crashes

sendVars    == <<outcome, call, executions>>
requestVars == <<stage, browser, fate, answer>>
logVars     == <<log, lastId>>
procVars    == <<running, crashes>>
vars == <<sendVars, requestVars, logVars, now, procVars>>

Client == INSTANCE CommandService

Requests == Callers \X (1..MaxCalls)
Request(p) == <<p, call[p]>>

Init ==
    /\ Client!Init
    /\ stage = [p \in Callers |-> "idle"]
    /\ browser = [p \in Callers |-> "live"]
    /\ fate = [r \in Requests |-> "none"]
    /\ answer = [r \in Requests |-> "none"]
    /\ log = {}
    /\ lastId = 0
    /\ now = 0
    /\ running = TRUE
    /\ crashes = 0

-----------------------------------------------------------------------------
(* The handler. *)

\* A request for a known server, with a session and a command that passes the
\* checks; every other one is answered at once and changes nothing.
Execute(p) ==
    /\ running
    /\ stage[p] = "idle"
    /\ Client!Invoke(p)
    /\ stage' = [stage EXCEPT ![p] = "send"]
    /\ browser' = [browser EXCEPT ![p] = "live"]
    /\ UNCHANGED <<fate, answer, logVars, now, procVars>>

SendReturns(p) ==
    /\ stage[p] = "send"
    /\ Client!Succeed(p) \/ Client!Refuse(p) \/ Client!GiveUp(p)
    /\ stage' = [stage EXCEPT ![p] = "record"]
    /\ UNCHANGED <<browser, fate, answer, logVars, now, procVars>>

Mutant_ReplyText(p) == "text"
Mutant_ErrorAsReply(p) == IF outcome[p] = "ok" THEN "text" ELSE "error"

\* The response column: empty unless Send returned without an error.
ReplyText(p) == IF outcome[p] = "ok" THEN "text" ELSE ""

Row(p) == [id |-> lastId + 1, at |-> now, req |-> Request(p), reply |-> ReplyText(p)]

Insert(p) ==
    /\ log' = log \cup {Row(p)}
    /\ lastId' = lastId + 1
    /\ fate' = [fate EXCEPT ![Request(p)] = "stored"]

NoInsert(p, why) ==
    /\ fate' = [fate EXCEPT ![Request(p)] = why]
    /\ UNCHANGED logVars

Mutant_RecordAgain(p) ==
    /\ stage[p] = "record"
    /\ \/ browser[p] = "live" /\ Insert(p) /\ UNCHANGED stage
       \/ /\ browser[p] = "gone" /\ NoInsert(p, "cancelled")
          /\ stage' = [stage EXCEPT ![p] = "respond"]
    /\ UNCHANGED <<sendVars, browser, answer, now, procVars>>

Mutant_RecordInTime(p) ==
    /\ stage[p] = "record"
    /\ \/ browser[p] = "live" /\ outcome[p] # "gaveUp" /\ Insert(p)
       \/ (browser[p] = "gone" \/ outcome[p] = "gaveUp") /\ NoInsert(p, "cancelled")
       \/ StoreFaults /\ NoInsert(p, "refused")
    /\ stage' = [stage EXCEPT ![p] = "respond"]
    /\ UNCHANGED <<sendVars, browser, answer, now, procVars>>

\* RecordCommand runs on the request's context.  Its error is only reported.
Record(p) ==
    /\ stage[p] = "record"
    /\ \/ browser[p] = "live" /\ Insert(p)
       \/ browser[p] = "gone" /\ NoInsert(p, "cancelled")
       \/ StoreFaults /\ NoInsert(p, "refused")
    /\ stage' = [stage EXCEPT ![p] = "respond"]
    /\ UNCHANGED <<sendVars, browser, answer, now, procVars>>

\* The answer is lost when the browser has gone or the server's WriteTimeout
\* has passed while Send was waiting.
Respond(p) ==
    /\ stage[p] = "respond"
    /\ \/ /\ browser[p] = "live"
          /\ answer' = [answer EXCEPT ![Request(p)] =
                          IF outcome[p] = "ok" THEN "executed" ELSE "error"]
       \/ answer' = [answer EXCEPT ![Request(p)] = "lost"]
    /\ stage' = [stage EXCEPT ![p] = "idle"]
    /\ UNCHANGED <<sendVars, browser, fate, logVars, now, procVars>>

\* The browser closes the connection of its request.
Leave(p) ==
    /\ stage[p] # "idle"
    /\ browser[p] = "live"
    /\ browser' = [browser EXCEPT ![p] = "gone"]
    /\ UNCHANGED <<sendVars, stage, fate, answer, logVars, now, procVars>>

ServerExecutes(r) ==
    /\ Client!Execute(r)
    /\ UNCHANGED <<requestVars, logVars, now, procVars>>

-----------------------------------------------------------------------------
(* The pruner, the clock and the process. *)

Mutant_TooOld(e) == e.at + Retention > now

TooOld(e) == e.at + Retention < now

\* At start and then every 24 hours, on the process's own context.  A failed
\* attempt changes nothing.
Prune ==
    /\ running
    /\ log' = {e \in log : ~TooOld(e)}
    /\ UNCHANGED <<sendVars, requestVars, lastId, now, procVars>>

Tick ==
    /\ now < MaxTime
    /\ now' = now + 1
    /\ UNCHANGED <<sendVars, requestVars, logVars, procVars>>

\* The process dies: with its requests, not with the log, and not with what is
\* still on its way to the game server.
Crash ==
    /\ running
    /\ crashes < MaxCrashes
    /\ running' = FALSE
    /\ crashes' = crashes + 1
    /\ stage' = [p \in Callers |-> "idle"]
    /\ outcome' = [p \in Callers |-> IF outcome[p] = "pending" THEN "gaveUp" ELSE outcome[p]]
    /\ answer' = [r \in Requests |->
                    IF stage[r[1]] # "idle" /\ r = Request(r[1]) THEN "lost" ELSE answer[r]]
    /\ UNCHANGED <<call, executions, browser, fate, logVars, now>>

Restart ==
    /\ ~running
    /\ running' = TRUE
    /\ UNCHANGED <<sendVars, requestVars, logVars, now, crashes>>

-----------------------------------------------------------------------------
HandlerStep(p) == SendReturns(p) \/ Record(p) \/ Respond(p)

Next ==
    \/ \E p \in Callers : Execute(p) \/ HandlerStep(p) \/ Leave(p)
    \/ \E r \in Requests : ServerExecutes(r)
    \/ Prune \/ Tick \/ Crash \/ Restart

Spec == Init /\ [][Next]_vars

Mutant_Before(e, f) == e.at < f.at \/ (e.at = f.at /\ e.id < f.id)

\* ORDER BY timestamp DESC.  The index on timestamp gives the rows of one second
\* in the order of their ids.
Before(e, f) == e.at > f.at \/ (e.at = f.at /\ e.id < f.id)

\* With its LIMIT.
GetLogs == {e \in log : Cardinality({f \in log : Before(f, e)}) < Limit}

-----------------------------------------------------------------------------
(* Safety. *)

Rows == [id : Nat, at : 0..MaxTime, req : Requests, reply : {"text", ""}]

\* Every variable has its type.
TypeOK ==
    /\ outcome \in [Callers -> {"none", "pending", "ok", "err", "gaveUp"}]
    /\ call \in [Callers -> 0..MaxCalls]
    /\ executions \in [Requests -> 0..Client!MaxExecutions]
    /\ stage \in [Callers -> {"idle", "send", "record", "respond"}]
    /\ browser \in [Callers -> {"live", "gone"}]
    /\ fate \in [Requests -> {"none", "stored", "refused", "cancelled"}]
    /\ answer \in [Requests -> {"none", "executed", "error", "lost"}]
    /\ log \subseteq Rows
    /\ lastId \in Nat
    /\ now \in 0..MaxTime
    /\ running \in BOOLEAN
    /\ crashes \in 0..MaxCrashes

\* An entry that holds a reply is of a command that the server has executed,
\* and a user who was told "executed" was told the truth (handlers.go:163-206).
RepliesAreReal ==
    /\ \A e \in log : e.reply = "text" => executions[e.req] > 0
    /\ \A r \in Requests : answer[r] = "executed" => executions[r] > 0

\* Who has seen the answer to a command finds it in the log, unless the store
\* refused the insertion: the answer is given after the attempt to record, also
\* when Send has given up, and that attempt was not cancelled for anyone who is
\* there to read the answer (handlers.go:177-206).  Pruning may take it away.
AnsweredWasRecorded ==
    \A r \in Requests :
        answer[r] \in {"executed", "error"} => fate[r] \in {"stored", "refused"}

\* A command is in the log once, though it may have been executed twice; ids
\* grow with time and are not given again, not even after rows were pruned or
\* the process was restarted (sqlite.go:31, 85-92).
LogIsOrdered ==
    \A e, f \in log :
        /\ e.req = f.req => e = f
        /\ e.id < f.id => e.at <= f.at
        /\ e.id = f.id => e = f

\* A page of the log prefers no entry to one of a later second, and is full when
\* there is enough to show; among the entries of one second the older ones come
\* first, which is why this speaks of seconds and not of ids (sqlite.go:95-101).
PageIsRecent ==
    /\ \A e \in GetLogs, f \in log \ GetLogs : e.at >= f.at
    /\ Cardinality(GetLogs) = IF Cardinality(log) < Limit THEN Cardinality(log) ELSE Limit

RowsAreStored ==
    \A e \in log : e.id <= lastId /\ e.at <= now /\ fate[e.req] = "stored"

NotYetRecorded ==
    \A p \in Callers, k \in 1..MaxCalls :
        k > call[p] \/ (k = call[p] /\ stage[p] \in {"send", "record"})
            => fate[<<p, k>>] = "none" /\ answer[<<p, k>>] = "none"

StagesAgree ==
    \A p \in Callers :
        /\ stage[p] # "idle" => call[p] > 0
        /\ stage[p] = "respond" =>
             /\ fate[Request(p)] # "none"
             /\ fate[Request(p)] = "cancelled" => browser[p] = "gone"
        /\ outcome[p] = "pending" <=> stage[p] = "send"
        /\ outcome[p] = "ok" => call[p] > 0 /\ executions[Request(p)] > 0

\* What every step keeps, and what makes the invariants above inductive:
\* where the next row and the next answer come from (handlers.go:161-206).
IInv ==
    /\ IsFiniteSet(log)
    /\ RepliesAreReal
    /\ AnsweredWasRecorded
    /\ LogIsOrdered
    /\ RowsAreStored
    /\ NotYetRecorded
    /\ StagesAgree

-----------------------------------------------------------------------------
(* What the documentation says and the code does not do. *)

\* docs/configuration.md:160: "rconman records every executed command".  It does
\* not hold, not even for a command whose reply the handler has read and in a
\* process that does not die: RecordCommand is cancelled with the request when
\* the browser has gone (handlers.go:179).
ExecutedIsRecorded ==
    \A p \in Callers :
        stage[p] = "idle" /\ outcome[p] = "ok" => fate[Request(p)] = "stored"

-----------------------------------------------------------------------------
(* Liveness. *)

\* The pruner's ticker goes on, the process is started again when it dies, and
\* a handler that runs is scheduled.
Fairness ==
    /\ WF_vars(Prune) /\ WF_vars(Restart)
    /\ \A p \in Callers : WF_vars(HandlerStep(p))

FairSpec == Spec /\ Fairness

\* An entry older than the retention period goes away in the end, also when the
\* process dies before the pruner gets to it (main.go:64-71, 212-230).
OldEntriesGo ==
    \A r \in Requests :
        (\E e \in log : e.req = r /\ TooOld(e)) ~> ~\E e \in log : e.req = r
=============================================================================

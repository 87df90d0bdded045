--------------------------- MODULE CommandService ---------------------------
(***************************************************************************)
(* What Client.Send of internal/rcon/client.go promises to the handlers,   *)
(* without connections, mutex or background goroutine.  A call ends "ok",  *)
(* "err" (refused before anything was sent) or "gaveUp" (sent, perhaps     *)
(* twice, and no reply).  The server may execute a command late, even      *)
(* after its call has ended, but never more often than it can be sent, and *)
(* never one that was refused.                                             *)
(***************************************************************************)
EXTENDS Naturals

CONSTANTS Callers, MaxCalls

VARIABLES
    outcome,     \* of the caller's current or last call
    call,        \* number of that call; 0 before the first
    executions   \* how often the server has executed each request

vars == <<outcome, call, executions>>

Requests == Callers \X (1..MaxCalls)

\* One sending and one resending (client.go:98, 108).
MaxExecutions == 2

Init ==
    /\ outcome = [p \in Callers |-> "none"]
    /\ call = [p \in Callers |-> 0]
    /\ executions = [r \in Requests |-> 0]

Invoke(p) ==
    /\ outcome[p] # "pending"
    /\ call[p] < MaxCalls
    /\ call' = [call EXCEPT ![p] = @ + 1]
    /\ outcome' = [outcome EXCEPT ![p] = "pending"]
    /\ UNCHANGED executions

\* The server executes a request of the current call, or of an earlier one.
Execute(r) ==
    /\ r[2] <= call[r[1]]
    /\ r[2] = call[r[1]] => outcome[r[1]] # "err"
    /\ executions[r] < MaxExecutions
    /\ executions' = [executions EXCEPT ![r] = @ + 1]
    /\ UNCHANGED <<outcome, call>>

Succeed(p) ==
    /\ outcome[p] = "pending"
    /\ executions[<<p, call[p]>>] > 0
    /\ outcome' = [outcome EXCEPT ![p] = "ok"]
    /\ UNCHANGED <<call, executions>>

Refuse(p) ==
    /\ outcome[p] = "pending"
    /\ executions[<<p, call[p]>>] = 0
    /\ outcome' = [outcome EXCEPT ![p] = "err"]
    /\ UNCHANGED <<call, executions>>

GiveUp(p) ==
    /\ outcome[p] = "pending"
    /\ outcome' = [outcome EXCEPT ![p] = "gaveUp"]
    /\ UNCHANGED <<call, executions>>

Next ==
    \/ \E p \in Callers : Invoke(p) \/ Succeed(p) \/ Refuse(p) \/ GiveUp(p)
    \/ \E r \in Requests : Execute(r)

Spec == Init /\ [][Next]_vars
=============================================================================

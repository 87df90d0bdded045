----------------------------- MODULE RconClient -----------------------------
(***************************************************************************)
(* internal/rcon/client.go: the one client that every goroutine shares to  *)
(* talk to one game server.  Callers are the HTTP handlers and the status  *)
(* poller (each is inside Send), Reconnectors are the identities that the  *)
(* background reconnect goroutines take.  The game server and the network  *)
(* are those of test/mock-rcon/main.go, plus what TCP may do: refuse,      *)
(* delay, drop and close.                                                  *)
(*                                                                         *)
(* The request id of a packet is not modelled as a number: sendPacket      *)
(* increments it and nothing ever compares it with the id of the reply.    *)
(* A packet carries instead the call it belongs to, so that a property can *)
(* say whose reply a caller reads.                                         *)
(*                                                                         *)
(* An operator named Mutant_X is a plausible error in the definition below *)
(* it.  No action uses one: it is there to show that some property would   *)
(* notice.                                                                 *)
(***************************************************************************)
EXTENDS Naturals, Sequences, FiniteSets

CONSTANTS
    Callers,         \* goroutines that call Send, at most one call each at a time
    Reconnectors,    \* identities for background goroutines, reused when one ends
    Conns,           \* TCP connections, reused when both ends are closed
    Deadlined,       \* the callers whose context has a deadline (status.go)
    Cancellable,     \* the callers whose context is the HTTP request's
    Sizes,           \* the kinds of command tried: "fits", "oversized" (for Encode)
    AuthAnswers,     \* what the server may answer to a password
    ExecAnswers,     \* what the server may answer to a command
    MaxCalls,        \* bound: calls per caller
    InitialBackoff,  \* client.go:167
    MaxBackoff,      \* client.go:168
    Nil,             \* no connection
    Nobody           \* no holder of the mutex

Threads == Callers \cup Reconnectors
Answers == {"ok", "denied", "bad"}

ASSUME ThreadsAssumption ==
    /\ Callers \cap Reconnectors = {}
    /\ Nobody \notin Threads
    /\ Deadlined \subseteq Callers /\ Cancellable \subseteq Callers
ASSUME ConnsAssumption == Nil \notin Conns
ASSUME InputsAssumption ==
    /\ Sizes \subseteq {"fits", "oversized"}
    /\ AuthAnswers \subseteq Answers /\ ExecAnswers \subseteq Answers
    /\ MaxCalls \in Nat
ASSUME BackoffAssumption ==
    /\ InitialBackoff \in Nat \ {0} /\ MaxBackoff \in Nat
    /\ InitialBackoff <= MaxBackoff

VARIABLES
    mu,            \* rc.mu: the thread that holds it
    conn,          \* rc.conn
    deadline,      \* the deadline last set on rc.conn: "none", "pending" or "past"
    reconnecting,  \* rc.reconnecting
    pc,            \* where each thread stands
    sock,          \* the connection a thread is authenticating, local to ensureConnected
    attempt,       \* 1 before and 2 after the immediate reconnect of Send
    size,          \* the size of the command a caller sends
    ctx,           \* the caller's context: "live", "cancelled" or "expired"
    call,          \* how many calls a caller has made
    result,        \* what the last call returned; "gaveUp" after startBackgroundReconnect
    backoff,       \* the local variable of the background goroutine
    open,          \* the connections that the client process has not closed
    srv,           \* the server's end of a connection: "gone", "fresh" or "authed"
    inbound,       \* packets under way to the server
    outbound,      \* replies under way to the client
    up,            \* whether the server accepts connections
    executions     \* how often the server has executed each request

clientVars == <<mu, conn, deadline, reconnecting>>
threadVars == <<pc, sock, attempt, size, ctx, call, result, backoff>>
netVars    == <<open, srv, inbound, outbound>>
vars       == <<clientVars, threadVars, netVars, up, executions>>

Requests == Callers \X (1..MaxCalls)
AuthPacket == [type |-> "auth", by |-> Nobody, call |-> 0]
ExecPacket(r) == [type |-> "exec", by |-> r[1], call |-> r[2]]
Packets == {AuthPacket} \cup {ExecPacket(r) : r \in Requests}
Replies == [status : Answers, to : Packets]

Request(p) == <<p, call[p]>>
CtxDone(t) == t \in Callers /\ ctx[t] # "live"

\* A connection is free again once both ends are closed.
FreeConns == {c \in Conns : c \notin open /\ srv[c] = "gone"}

CallerPCs == {"idle", "lock", "dial", "auth", "write", "read"}
ReconnectorPCs == {"off", "lock", "dial", "auth", "sleep", "exit"}

Init ==
    /\ mu = Nobody
    /\ conn = Nil
    /\ deadline = "none"
    /\ reconnecting = FALSE
    /\ pc = [t \in Threads |-> IF t \in Callers THEN "idle" ELSE "off"]
    /\ sock = [t \in Threads |-> Nil]
    /\ attempt = [p \in Callers |-> 1]
    /\ size = [p \in Callers |-> "fits"]
    /\ ctx = [p \in Callers |-> "live"]
    /\ call = [p \in Callers |-> 0]
    /\ result = [p \in Callers |-> "none"]
    /\ backoff = [r \in Reconnectors |-> InitialBackoff]
    /\ open = {}
    /\ srv = [c \in Conns |-> "gone"]
    /\ inbound = [c \in Conns |-> <<>>]
    /\ outbound = [c \in Conns |-> <<>>]
    /\ up = TRUE
    /\ executions = [r \in Requests |-> 0]

-----------------------------------------------------------------------------
(* Steps shared by several actions. *)

\* conn.Close(): what was on its way to the client is lost, what was on its
\* way to the server is not.
CloseSocket(c) ==
    /\ open' = open \ {c}
    /\ outbound' = [outbound EXCEPT ![c] = <<>>]
    /\ UNCHANGED <<srv, inbound>>

Mutant_CloseConnNot == UNCHANGED <<conn, deadline, netVars>>

\* closeConn and Close: rc.conn is closed and forgotten.
CloseConn ==
    /\ CloseSocket(conn)
    /\ conn' = Nil
    /\ deadline' = "none"

Mutant_StartUnguarded(pcs) ==
    /\ reconnecting' = TRUE
    /\ \E r \in Reconnectors :
         /\ pc[r] = "off"
         /\ pc' = [pcs EXCEPT ![r] = "lock"]
         /\ backoff' = [backoff EXCEPT ![r] = InitialBackoff]

\* The Swap guard and the go statement; pcs is pc with the caller's own step.
StartBackgroundReconnect(pcs) ==
    \/ /\ reconnecting
       /\ pc' = pcs
       /\ UNCHANGED <<reconnecting, backoff>>
    \/ /\ ~reconnecting
       /\ reconnecting' = TRUE
       /\ \E r \in Reconnectors :
            /\ pc[r] = "off"
            /\ pc' = [pcs EXCEPT ![r] = "lock"]
            /\ backoff' = [backoff EXCEPT ![r] = InitialBackoff]

Mutant_ReturnLocked(p, res) ==
    /\ mu' = mu
    /\ result' = [result EXCEPT ![p] = res]

\* Send returns: the deferred Unlock runs.
Return(p, res) ==
    /\ mu' = Nobody
    /\ result' = [result EXCEPT ![p] = res]

GiveUp(p) ==
    /\ StartBackgroundReconnect([pc EXCEPT ![p] = "idle"])
    /\ Return(p, "gaveUp")

Mutant_EnsureFailedLocked(t) ==
    \/ /\ t \in Reconnectors
       /\ mu' = mu
       /\ pc' = [pc EXCEPT ![t] = "sleep"]
       /\ UNCHANGED <<result, reconnecting, backoff>>
    \/ /\ t \in Callers
       /\ GiveUp(t)

\* ensureConnected returned an error to its caller, which is Send (first or
\* second call) or the loop of the background goroutine.
EnsureFailed(t) ==
    \/ /\ t \in Reconnectors
       /\ mu' = Nobody
       /\ pc' = [pc EXCEPT ![t] = "sleep"]
       /\ UNCHANGED <<result, reconnecting, backoff>>
    \/ /\ t \in Callers /\ attempt[t] = 1
       /\ Return(t, "err")
       /\ pc' = [pc EXCEPT ![t] = "idle"]
       /\ UNCHANGED <<reconnecting, backoff>>
    \/ /\ t \in Callers /\ attempt[t] = 2
       /\ GiveUp(t)

Mutant_RetryForever(p) ==
    /\ CloseConn
    /\ attempt' = [attempt EXCEPT ![p] = 2]
    /\ pc' = [pc EXCEPT ![p] = "dial"]
    /\ UNCHANGED <<mu, result, reconnecting, backoff, sock, size, ctx, call, up, executions>>

\* sendPacket returned an error: closeConn, then the immediate reconnect or
\* the end of the call.
AttemptFailed(p) ==
    /\ CloseConn
    /\ \/ /\ attempt[p] = 1
          /\ attempt' = [attempt EXCEPT ![p] = 2]
          /\ pc' = [pc EXCEPT ![p] = "dial"]
          /\ UNCHANGED <<mu, result, reconnecting, backoff>>
       \/ /\ attempt[p] = 2
          /\ GiveUp(p)
          /\ UNCHANGED attempt
    /\ UNCHANGED <<sock, size, ctx, call, up, executions>>

-----------------------------------------------------------------------------
(* Send, and the loop of the background goroutine. *)

Invoke(p) ==
    /\ pc[p] = "idle"
    /\ call[p] < MaxCalls
    /\ \E s \in Sizes : size' = [size EXCEPT ![p] = s]
    /\ pc' = [pc EXCEPT ![p] = "lock"]
    /\ attempt' = [attempt EXCEPT ![p] = 1]
    /\ ctx' = [ctx EXCEPT ![p] = "live"]
    /\ call' = [call EXCEPT ![p] = @ + 1]
    /\ result' = [result EXCEPT ![p] = "none"]
    /\ UNCHANGED <<clientVars, sock, backoff, netVars, up, executions>>

LockCaller(p) ==
    /\ pc[p] = "lock"
    /\ mu = Nobody
    /\ mu' = p
    /\ pc' = [pc EXCEPT ![p] = IF conn = Nil THEN "dial" ELSE "write"]
    /\ UNCHANGED <<conn, deadline, reconnecting, sock, attempt, size, ctx, call,
                   result, backoff, netVars, up, executions>>

\* With a connection already there, ensureConnected returns at once and the
\* goroutine unlocks and leaves its loop.
LockReconnector(r) ==
    /\ pc[r] = "lock"
    /\ mu = Nobody
    /\ mu' = IF conn = Nil THEN r ELSE Nobody
    /\ pc' = [pc EXCEPT ![r] = IF conn = Nil THEN "dial" ELSE "exit"]
    /\ UNCHANGED <<conn, deadline, reconnecting, sock, attempt, size, ctx, call,
                   result, backoff, netVars, up, executions>>

\* DialContext succeeds and the password is written.
Dial(t) ==
    /\ pc[t] = "dial"
    /\ up
    /\ ~CtxDone(t)
    /\ \E c \in FreeConns :
         /\ sock' = [sock EXCEPT ![t] = c]
         /\ open' = open \cup {c}
         /\ srv' = [srv EXCEPT ![c] = "fresh"]
         /\ inbound' = [inbound EXCEPT ![c] = <<AuthPacket>>]
    /\ pc' = [pc EXCEPT ![t] = "auth"]
    /\ UNCHANGED <<clientVars, attempt, size, ctx, call, result, backoff,
                   outbound, up, executions>>

DialFail(t) ==
    /\ pc[t] = "dial"
    /\ ~up \/ CtxDone(t)
    /\ EnsureFailed(t)
    /\ UNCHANGED <<conn, deadline, sock, attempt, size, ctx, call, netVars, up,
                   executions>>

Mutant_AnyAnswer(reply) == reply.status # "bad"

\* DecodePacket returned a packet, and its ID is not -1.
Accepted(reply) == reply.status = "ok"

\* The reply to the password was read; no deadline was ever set on this socket.
AuthOk(t) ==
    /\ pc[t] = "auth"
    /\ outbound[sock[t]] # <<>>
    /\ Accepted(Head(outbound[sock[t]]))
    /\ outbound' = [outbound EXCEPT ![sock[t]] = Tail(@)]
    /\ conn' = sock[t]
    /\ deadline' = "none"
    /\ sock' = [sock EXCEPT ![t] = Nil]
    /\ pc' = [pc EXCEPT ![t] = IF t \in Callers THEN "write" ELSE "exit"]
    /\ mu' = IF t \in Callers THEN t ELSE Nobody
    /\ UNCHANGED <<reconnecting, attempt, size, ctx, call, result, backoff,
                   open, srv, inbound, up, executions>>

Mutant_AuthFailLeaks(t) ==
    /\ pc[t] = "auth"
    /\ outbound[sock[t]] # <<>>
    /\ ~Accepted(Head(outbound[sock[t]]))
    /\ sock' = [sock EXCEPT ![t] = Nil]
    /\ EnsureFailed(t)
    /\ UNCHANGED <<conn, deadline, attempt, size, ctx, call, netVars, up, executions>>

AuthFail(t) ==
    /\ pc[t] = "auth"
    /\ IF outbound[sock[t]] = <<>>
       THEN srv[sock[t]] = "gone"
       ELSE ~Accepted(Head(outbound[sock[t]]))
    /\ CloseSocket(sock[t])
    /\ sock' = [sock EXCEPT ![t] = Nil]
    /\ EnsureFailed(t)
    /\ UNCHANGED <<conn, deadline, attempt, size, ctx, call, up, executions>>

\* A context without a deadline leaves whatever deadline an earlier caller
\* has set on the connection.
SetDeadline(p) ==
    deadline' = IF p \notin Deadlined THEN deadline
                ELSE IF ctx[p] = "expired" THEN "past" ELSE "pending"

\* The packet is lost when the server's end is gone and nobody has noticed.
Write(p) ==
    /\ pc[p] = "write"
    /\ size[p] = "fits"
    /\ SetDeadline(p)
    /\ deadline' # "past"
    /\ inbound' = IF srv[conn] = "gone" THEN inbound
                  ELSE [inbound EXCEPT ![conn] = Append(@, ExecPacket(Request(p)))]
    /\ pc' = [pc EXCEPT ![p] = "read"]
    /\ UNCHANGED <<mu, conn, reconnecting, sock, attempt, size, ctx, call, result,
                   backoff, open, srv, outbound, up, executions>>

\* Encode refuses the command, or the write fails.
WriteFail(p) ==
    /\ pc[p] = "write"
    /\ \/ size[p] = "oversized"
       \/ p \in Deadlined /\ ctx[p] = "expired"
       \/ p \notin Deadlined /\ deadline = "past"
       \/ srv[conn] = "gone"
    /\ AttemptFailed(p)

ReadOk(p) ==
    /\ pc[p] = "read"
    /\ deadline # "past"
    /\ outbound[conn] # <<>>
    /\ Head(outbound[conn]).status # "bad"
    /\ outbound' = [outbound EXCEPT ![conn] = Tail(@)]
    /\ Return(p, "ok")
    /\ pc' = [pc EXCEPT ![p] = "idle"]
    /\ UNCHANGED <<conn, deadline, reconnecting, sock, attempt, size, ctx, call,
                   backoff, open, srv, inbound, up, executions>>

ReadFail(p) ==
    /\ pc[p] = "read"
    /\ \/ deadline = "past"
       \/ outbound[conn] # <<>> /\ Head(outbound[conn]).status = "bad"
       \/ outbound[conn] = <<>> /\ srv[conn] = "gone"
    /\ AttemptFailed(p)

Mutant_Uncapped(b) == 2 * b

NextBackoff(b) == IF 2 * b > MaxBackoff THEN MaxBackoff ELSE 2 * b

Wake(r) ==
    /\ pc[r] = "sleep"
    /\ pc' = [pc EXCEPT ![r] = "lock"]
    /\ backoff' = [backoff EXCEPT ![r] = NextBackoff(@)]
    /\ UNCHANGED <<clientVars, sock, attempt, size, ctx, call, result, netVars,
                   up, executions>>

Mutant_ExitWithFlagSet(r) ==
    /\ pc[r] = "exit"
    /\ pc' = [pc EXCEPT ![r] = "off"]
    /\ UNCHANGED <<clientVars, sock, attempt, size, ctx, call, result, backoff,
                   netVars, up, executions>>

\* The deferred reconnecting.Store(false), after the mutex has been released.
ExitReconnector(r) ==
    /\ pc[r] = "exit"
    /\ pc' = [pc EXCEPT ![r] = "off"]
    /\ reconnecting' = FALSE
    /\ UNCHANGED <<mu, conn, deadline, sock, attempt, size, ctx, call, result,
                   backoff, netVars, up, executions>>

Close ==
    /\ mu = Nobody
    /\ conn # Nil
    /\ CloseConn
    /\ UNCHANGED <<mu, reconnecting, threadVars, up, executions>>

-----------------------------------------------------------------------------
(* Contexts and deadlines. *)

\* The time-out of a context passes; so does the deadline its own sendPacket
\* has put on the connection.
Expire(p) ==
    /\ p \in Deadlined
    /\ pc[p] # "idle"
    /\ ctx[p] # "expired"
    /\ ctx' = [ctx EXCEPT ![p] = "expired"]
    /\ deadline' = IF pc[p] = "read" THEN "past" ELSE deadline
    /\ UNCHANGED <<mu, conn, reconnecting, pc, sock, attempt, size, call, result,
                   backoff, netVars, up, executions>>

\* The browser that made the HTTP request goes away.
Disconnect(p) ==
    /\ p \in Cancellable
    /\ pc[p] # "idle"
    /\ ctx[p] = "live"
    /\ ctx' = [ctx EXCEPT ![p] = "cancelled"]
    /\ UNCHANGED <<clientVars, pc, sock, attempt, size, call, result, backoff,
                   netVars, up, executions>>

\* The deadline that a finished call left on the connection passes.
StaleDeadline ==
    /\ deadline = "pending"
    /\ \A p \in Deadlined : pc[p] # "read"
    /\ deadline' = "past"
    /\ UNCHANGED <<mu, conn, reconnecting, threadVars, netVars, up, executions>>

-----------------------------------------------------------------------------
(* The game server and the network. *)

\* A reply to a connection that the client has closed is discarded.
Reply(c, a) ==
    /\ inbound' = [inbound EXCEPT ![c] = Tail(@)]
    /\ outbound' = IF c \in open
                   THEN [outbound EXCEPT ![c] =
                           Append(@, [status |-> a, to |-> Head(inbound[c])])]
                   ELSE outbound

ServerAuth(c) ==
    /\ srv[c] # "gone"
    /\ inbound[c] # <<>>
    /\ Head(inbound[c]).type = "auth"
    /\ \E a \in AuthAnswers :
         /\ Reply(c, a)
         /\ srv' = IF a = "ok" THEN [srv EXCEPT ![c] = "authed"] ELSE srv
    /\ UNCHANGED <<clientVars, threadVars, open, up, executions>>

\* Only an authenticated connection executes; the other gets a reply too.
ServerExec(c) ==
    /\ srv[c] # "gone"
    /\ inbound[c] # <<>>
    /\ Head(inbound[c]).type = "exec"
    /\ LET pkt == Head(inbound[c])
       IN  executions' = IF srv[c] # "authed" THEN executions
                         ELSE [executions EXCEPT ![<<pkt.by, pkt.call>>] = @ + 1]
    /\ \E a \in ExecAnswers : Reply(c, a)
    /\ UNCHANGED <<clientVars, threadVars, open, srv, up>>

\* The server reads the end of a connection that the client closed.
ServerEOF(c) ==
    /\ srv[c] # "gone"
    /\ c \notin open
    /\ inbound[c] = <<>>
    /\ srv' = [srv EXCEPT ![c] = "gone"]
    /\ UNCHANGED <<clientVars, threadVars, open, inbound, outbound, up, executions>>

\* The connection breaks: packets not yet read by the server are lost, a reply
\* on its way may be lost or may still arrive.
ServerDrop(c) ==
    /\ srv[c] # "gone"
    /\ srv' = [srv EXCEPT ![c] = "gone"]
    /\ inbound' = [inbound EXCEPT ![c] = <<>>]
    /\ \E kept \in {outbound[c], <<>>} : outbound' = [outbound EXCEPT ![c] = kept]
    /\ UNCHANGED <<clientVars, threadVars, open, up, executions>>

\* The server stops or starts accepting connections.
Reachable ==
    /\ up' = ~up
    /\ UNCHANGED <<clientVars, threadVars, netVars, executions>>

-----------------------------------------------------------------------------
CallerStep(p) ==
    \/ LockCaller(p) \/ Dial(p) \/ DialFail(p) \/ AuthOk(p) \/ AuthFail(p)
    \/ Write(p) \/ WriteFail(p) \/ ReadOk(p) \/ ReadFail(p)

ReconnectorStep(r) ==
    \/ LockReconnector(r) \/ Dial(r) \/ DialFail(r) \/ AuthOk(r) \/ AuthFail(r)
    \/ Wake(r) \/ ExitReconnector(r)

ServerStep(c) == ServerAuth(c) \/ ServerExec(c) \/ ServerEOF(c)

Next ==
    \/ \E p \in Callers : Invoke(p) \/ CallerStep(p) \/ Expire(p) \/ Disconnect(p)
    \/ \E r \in Reconnectors : ReconnectorStep(r)
    \/ \E c \in Conns : ServerStep(c) \/ ServerDrop(c)
    \/ Close \/ StaleDeadline \/ Reachable

Spec == Init /\ [][Next]_vars

-----------------------------------------------------------------------------
(* Safety. *)

PCTypes ==
    /\ pc \in [Threads -> CallerPCs \cup ReconnectorPCs]
    /\ \A p \in Callers : pc[p] \in CallerPCs
    /\ \A r \in Reconnectors : pc[r] \in ReconnectorPCs

\* A caller inside Send is in one of its calls.
CallsNumbered == \A p \in Callers : pc[p] # "idle" => call[p] > 0

ClientTypes ==
    /\ mu \in Threads \cup {Nobody}
    /\ conn \in Conns \cup {Nil}
    /\ deadline \in {"none", "pending", "past"}
    /\ reconnecting \in BOOLEAN
    /\ sock \in [Threads -> Conns \cup {Nil}]
    /\ backoff \in [Reconnectors -> InitialBackoff..MaxBackoff]

CallTypes ==
    /\ attempt \in [Callers -> {1, 2}]
    /\ size \in [Callers -> {"fits", "oversized"}]
    /\ ctx \in [Callers -> {"live", "cancelled", "expired"}]
    /\ call \in [Callers -> 0..MaxCalls]
    /\ result \in [Callers -> {"none", "ok", "err", "gaveUp"}]

NetTypes ==
    /\ open \subseteq Conns
    /\ srv \in [Conns -> {"gone", "fresh", "authed"}]
    /\ inbound \in [Conns -> Seq(Packets)]
    /\ outbound \in [Conns -> Seq(Replies)]
    /\ up \in BOOLEAN
    /\ executions \in [Requests -> Nat]

\* Every variable has its type; in particular the pause between two background
\* attempts stays between its first value and the cap (client.go:167-182).
TypeOK == PCTypes /\ CallsNumbered /\ ClientTypes /\ CallTypes /\ NetTypes

\* The mutex is held exactly by the thread that is between Lock and Unlock, on
\* every way out of Send and of the background loop: two threads never talk
\* to the server at once, and none leaves with the lock (client.go:91-92).
LockCoversExchange ==
    \A t \in Threads : mu = t <=> pc[t] \in {"dial", "auth", "write", "read"}

\* The reply that a caller is about to read answers the command it sent, though
\* sendPacket never compares ids: an older reply, of a call that timed out,
\* must have been discarded with its connection (client.go:101, 142).
ReplyMatchesRequest ==
    \A p \in Callers :
        pc[p] = "read" /\ outbound[conn] # <<>>
            => Head(outbound[conn]).to = ExecPacket(Request(p))

\* Between two calls nothing is under way on the connection that the next call
\* will use (the reason why ReplyMatchesRequest holds; client.go:101, 110).
QuietConnection ==
    conn # Nil /\ (\A p \in Callers : pc[p] # "read")
        => inbound[conn] = <<>> /\ outbound[conn] = <<>>

\* At most one background goroutine exists, and the flag is set from before it
\* starts until after it has ended (client.go:162-166).
OneReconnector ==
    /\ \A r1, r2 \in Reconnectors : pc[r1] # "off" /\ pc[r2] # "off" => r1 = r2
    /\ reconnecting <=> \E r \in Reconnectors : pc[r] # "off"

\* Every socket the process has open is rc.conn or the one that is being
\* authenticated: no error path leaks one (client.go:65-86, 152-157).
NoLeakedSocket == open = ({conn} \cup {sock[t] : t \in Threads}) \ {Nil}

\* The shared connection is one on which the server accepted the password, as
\* long as the server's end exists (client.go:80-85).
ConnectedImpliesAuthenticated == conn # Nil => srv[conn] # "fresh"

-----------------------------------------------------------------------------
(* The inductive invariant behind them: which socket a thread holds at each of
   its steps, and what can be under way on it. *)

SocketsFollowPC ==
    \A t \in Threads :
        /\ sock[t] # Nil <=> pc[t] = "auth"
        /\ pc[t] \in {"dial", "auth"} => conn = Nil
        /\ pc[t] \in {"write", "read"} => conn # Nil

\* pkt is still under way to the server, or its reply is under way to the
\* client, or either was lost; nothing else is on the connection.
Carries(in, out, pkt) ==
    \/ in = <<pkt>> /\ out = <<>>
    \/ in = <<>> /\ out = <<>>
    \/ in = <<>> /\ \E a \in Answers : out = <<[status |-> a, to |-> pkt]>>

AuthUnderWay ==
    \A t \in Threads : pc[t] = "auth" =>
        /\ Carries(inbound[sock[t]], outbound[sock[t]], AuthPacket)
        /\ outbound[sock[t]] # <<>> /\ Accepted(Head(outbound[sock[t]]))
             => srv[sock[t]] # "fresh"

CallUnderWay ==
    \A p \in Callers : pc[p] = "read" =>
        Carries(inbound[conn], outbound[conn], ExecPacket(Request(p)))

ClosedIsSilent == \A c \in Conns \ open : outbound[c] = <<>>

\* What every step keeps, and what together implies the invariants above: the
\* client reads exactly one reply for each packet it writes, or closes the
\* connection (client.go:44-157).
IInv ==
    /\ LockCoversExchange
    /\ OneReconnector
    /\ NoLeakedSocket
    /\ SocketsFollowPC
    /\ AuthUnderWay
    /\ CallUnderWay
    /\ QuietConnection
    /\ ClosedIsSilent
    /\ ConnectedImpliesAuthenticated

-----------------------------------------------------------------------------
(* What the documentation says and the code does not do. *)

\* The design (rconman-design.md:104): when Send gives up
\* after its immediate reconnect, a background goroutine goes on trying, that
\* is, one that will still look at the connection.  It does not hold.
GiveUpHandsOver ==
    [][\A p \in Callers :
         result[p] # "gaveUp" /\ result'[p] = "gaveUp"
            => \E r \in Reconnectors : pc'[r] \in {"lock", "dial", "auth", "sleep"}]_vars

-----------------------------------------------------------------------------
(* What the client promises: the detailed specification implements the abstract one. *)

outcome == [p \in Callers |-> IF pc[p] = "idle" THEN result[p] ELSE "pending"]

Service == INSTANCE CommandService
    WITH Callers <- Callers, MaxCalls <- MaxCalls,
         call <- call, executions <- executions, outcome <- outcome

\* Send implements the service: a command is executed at most twice however
\* many calls time out, break or are resent; a call that returned a reply was
\* executed; one that was refused never is, not even later (client.go:90-117).
ImplementsService == Service!Spec

\* A connection carries one packet at a time, also one that the client has closed and
\* whose last packet the server has not yet read.
OnePacket == \A c \in Conns : inbound[c] = <<>> \/ \E pkt \in Packets : inbound[c] = <<pkt>>

\* The connections that may still bring a request to the server.
Carriers(r) == {c \in Conns : inbound[c] = <<ExecPacket(r)>>}

\* How often the request of a caller's last call can have been written so far.
LastWrites(p) ==
    CASE pc[p] = "idle" -> IF result[p] = "err" THEN 0 ELSE 2
      [] pc[p] = "read" -> attempt[p]
      [] OTHER          -> attempt[p] - 1

Writes(r) ==
    CASE r[2] > call[r[1]] -> 0
      [] r[2] = call[r[1]] -> LastWrites(r[1])
      [] OTHER             -> 2

\* Executions, and packets that may become one, are no more than what was written.
ExecutionsWereWritten ==
    \A r \in Requests :
        /\ IsFiniteSet(Carriers(r))
        /\ executions[r] + Cardinality(Carriers(r)) <= Writes(r)

\* A reply on its way to a caller means that the server has executed the command.
RepliesFollowExecution ==
    \A p \in Callers :
        pc[p] = "read" /\ outbound[conn] # <<>> => executions[Request(p)] > 0

\* What the refinement needs beyond IInv: where the packets of a request can be, long
\* after its call has ended (client.go:90-117).
ServiceInv == OnePacket /\ ExecutionsWereWritten /\ RepliesFollowExecution

-----------------------------------------------------------------------------
(* Liveness. *)

\* A runnable goroutine runs; a sync.Mutex in starvation mode is handed over
\* in order, so no waiter waits forever while the holders release it.
ClientFairness ==
    /\ \A p \in Callers : WF_vars(CallerStep(p)) /\ SF_vars(LockCaller(p))
    /\ \A r \in Reconnectors : WF_vars(ReconnectorStep(r)) /\ SF_vars(LockReconnector(r))

\* A server that runs reads what it is sent and answers.
ServerFairness == \A c \in Conns : WF_vars(ServerStep(c))

FairSpec == Spec /\ ClientFairness /\ ServerFairness

\* The assumption of a lasting recovery: the server stays reachable and breaks
\* no connection that the client still uses.
ServerRecovers ==
    /\ <>[]up
    /\ <>[][\A c \in open : ~ServerDrop(c)]_vars

\* Every call returns, whatever the other callers and the background goroutine
\* do with the mutex (client.go:90-117).
EveryCallReturns == \A p \in Callers : pc[p] # "idle" ~> pc[p] = "idle"

\* When the server has come back to stay and accepts the password, the
\* background goroutine comes to its end and clears the flag (client.go:165-176).
ReconnectorFinishes == ServerRecovers => (reconnecting ~> ~reconnecting)
=============================================================================

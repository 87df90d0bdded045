-------------------------- MODULE RconClientProofs --------------------------
(***************************************************************************)
(* Proofs about RconClient for any sets of callers, background identities  *)
(* and connections, any number of calls and any back-off.  TypeOK is       *)
(* inductive by itself; on top of it the mutex, the flag, the sockets and  *)
(* the packets under way are each shown to be kept by every step.          *)
(***************************************************************************)
EXTENDS RconClient, TLAPS

-----------------------------------------------------------------------------
(* Types.  First the operators that several actions share. *)

\* startBackgroundReconnect changes only typed state (client.go:161-185).
LEMMA StartTypes ==
  ASSUME TypeOK, NEW p \in Callers,
         StartBackgroundReconnect([pc EXCEPT ![p] = "idle"])
  PROVE  /\ PCTypes'
         /\ \A q \in Callers : pc'[q] # "idle" => pc[q] # "idle"
         /\ reconnecting' \in BOOLEAN
         /\ backoff' \in [Reconnectors -> InitialBackoff..MaxBackoff]
  <1> USE DEF TypeOK
  <1>1. PCTypes'
    <2> USE ThreadsAssumption DEF PCTypes, CallerPCs, ReconnectorPCs, Threads
    <2>1. CASE pc' = [pc EXCEPT ![p] = "idle"]
      BY <2>1
    <2>2. ASSUME NEW r \in Reconnectors,
                 pc' = [[pc EXCEPT ![p] = "idle"] EXCEPT ![r] = "lock"]
          PROVE  PCTypes'
      BY <2>2
    <2> QED
      BY <2>1, <2>2 DEF StartBackgroundReconnect
  <1>2. reconnecting' \in BOOLEAN
    BY DEF StartBackgroundReconnect, ClientTypes
  <1>3. backoff' \in [Reconnectors -> InitialBackoff..MaxBackoff]
    BY BackoffAssumption DEF StartBackgroundReconnect, ClientTypes
  <1>4. \A q \in Callers : pc'[q] # "idle" => pc[q] # "idle"
    BY ThreadsAssumption DEF StartBackgroundReconnect, PCTypes, Threads
  <1> QED
    BY <1>1, <1>2, <1>3, <1>4

\* The ways on from a failed ensureConnected do too (client.go:94-106, 171-182).
LEMMA EnsureFailedTypes ==
  ASSUME TypeOK, NEW t \in Threads, EnsureFailed(t)
  PROVE  /\ PCTypes'
         /\ \A q \in Callers : pc'[q] # "idle" => pc[q] # "idle"
         /\ mu' \in Threads \cup {Nobody}
         /\ reconnecting' \in BOOLEAN
         /\ backoff' \in [Reconnectors -> InitialBackoff..MaxBackoff]
         /\ result' \in [Callers -> {"none", "ok", "err", "gaveUp"}]
  <1> USE ThreadsAssumption DEF TypeOK
  <1>1. CASE t \in Reconnectors
    BY <1>1 DEF EnsureFailed, PCTypes, ClientTypes, CallTypes, Threads,
                CallerPCs, ReconnectorPCs
  <1>2. CASE t \in Callers /\ attempt[t] = 1
    BY <1>2 DEF EnsureFailed, Return, PCTypes, ClientTypes, CallTypes, Threads,
                CallerPCs, ReconnectorPCs
  <1>3. CASE t \in Callers /\ attempt[t] = 2
    BY <1>3, StartTypes DEF EnsureFailed, GiveUp, Return, CallTypes
  <1> QED
    BY <1>1, <1>2, <1>3 DEF EnsureFailed

\* Closing a socket keeps the network typed.
LEMMA CloseSocketTypes ==
  ASSUME TypeOK, NEW c \in Conns \cup {Nil}, CloseSocket(c)
  PROVE  /\ open' \subseteq Conns /\ srv' = srv /\ inbound' = inbound
         /\ outbound' \in [Conns -> Seq(Replies)]
  <1>1. <<>> \in Seq(Replies)
    OBVIOUS
  <1>2. outbound \in [Conns -> Seq(Replies)] /\ open \subseteq Conns
    BY DEF TypeOK, NetTypes
  <1> QED
    BY <1>1, <1>2 DEF CloseSocket

\* What Send does after a failed sendPacket keeps all types (client.go:99-113).
LEMMA AttemptFailedTypes ==
  ASSUME TypeOK, NEW p \in Callers, pc[p] # "idle", AttemptFailed(p)
  PROVE  TypeOK'
  <1> USE DEF TypeOK
  <1>1. CloseSocket(conn) /\ conn \in Conns \cup {Nil}
    BY DEF AttemptFailed, CloseConn, ClientTypes
  <1>2. NetTypes'
    BY <1>1, CloseSocketTypes DEF AttemptFailed, NetTypes
  <1>3. CASE attempt[p] = 1
    <2>1. PCTypes'
      BY <1>3, ThreadsAssumption DEF AttemptFailed, PCTypes, CallerPCs, Threads
    <2>2. ClientTypes' /\ CallTypes'
      BY <1>3 DEF AttemptFailed, CloseConn, ClientTypes, CallTypes
    <2>3. CallsNumbered'
      BY <1>3 DEF AttemptFailed, CallsNumbered, PCTypes, Threads
    <2> QED
      BY <1>2, <2>1, <2>2, <2>3
  <1>4. CASE attempt[p] = 2
    <2>1. GiveUp(p) /\ attempt' = attempt
      BY <1>4 DEF AttemptFailed
    <2>2. PCTypes'
      BY <2>1, StartTypes DEF GiveUp
    <2>3. ClientTypes'
      BY <2>1, StartTypes DEF GiveUp, Return, AttemptFailed, CloseConn, ClientTypes
    <2>4. CallTypes'
      BY <2>1 DEF GiveUp, Return, AttemptFailed, CallTypes
    <2>5. CallsNumbered'
      BY <2>1, StartTypes DEF GiveUp, AttemptFailed, CallsNumbered
    <2> QED
      BY <1>2, <2>2, <2>3, <2>4, <2>5
  <1> QED
    BY <1>3, <1>4 DEF CallTypes

\* The server takes one packet and answers it.
LEMMA ReplyTypes ==
  ASSUME TypeOK, NEW c \in Conns, NEW a \in Answers, inbound[c] # <<>>, Reply(c, a)
  PROVE  /\ inbound' \in [Conns -> Seq(Packets)]
         /\ outbound' \in [Conns -> Seq(Replies)]
  <1> USE DEF TypeOK, NetTypes
  <1>1. Head(inbound[c]) \in Packets /\ Tail(inbound[c]) \in Seq(Packets)
    OBVIOUS
  <1>2. [status |-> a, to |-> Head(inbound[c])] \in Replies
    BY <1>1 DEF Replies
  <1> QED
    BY <1>1, <1>2 DEF Reply

\* What is left of a non-empty sequence when its first element is taken.
LEMMA TailTyped ==
  ASSUME NEW S, NEW s \in Seq(S), s # <<>>
  PROVE  Head(s) \in S /\ Tail(s) \in Seq(S)
  OBVIOUS

\* The zero state of NewRealClient, with a server that has not been dialled.
LEMMA TypeInit == Init => TypeOK
  <1> SUFFICES ASSUME Init PROVE TypeOK
    OBVIOUS
  <1> USE DEF Init
  <1>1. PCTypes
    BY ThreadsAssumption DEF PCTypes, Threads, CallerPCs, ReconnectorPCs
  <1>2. ClientTypes
    <2>1. InitialBackoff \in InitialBackoff..MaxBackoff
      BY BackoffAssumption
    <2> QED
      BY <2>1 DEF ClientTypes
  <1>3. CallTypes
    BY InputsAssumption DEF CallTypes
  <1>4. NetTypes
    BY DEF NetTypes
  <1>5. CallsNumbered
    BY ThreadsAssumption DEF CallsNumbered, Threads
  <1> QED
    BY <1>1, <1>2, <1>3, <1>4, <1>5 DEF TypeOK

\* Every step keeps every variable in its type.
LEMMA TypeStep == TypeOK /\ [Next]_vars => TypeOK'
  <1> SUFFICES ASSUME TypeOK, [Next]_vars PROVE TypeOK'
    OBVIOUS
  <1> USE DEF TypeOK
  <1>1. ASSUME NEW p \in Callers, Invoke(p) PROVE TypeOK'
    <2> USE <1>1 DEF Invoke, clientVars, netVars
    <2>1. PCTypes'
      BY ThreadsAssumption DEF PCTypes, CallerPCs, ReconnectorPCs, Threads
    <2>2. ClientTypes'
      BY ThreadsAssumption DEF ClientTypes, Threads
    <2>3. CallTypes'
      BY InputsAssumption DEF CallTypes
    <2>4. NetTypes'
      BY DEF NetTypes
    <2>5. CallsNumbered'
      BY ThreadsAssumption DEF CallsNumbered, PCTypes, CallTypes, Threads
    <2> QED
      BY <2>1, <2>2, <2>3, <2>4, <2>5
  <1>2. ASSUME NEW p \in Callers, LockCaller(p) PROVE TypeOK'
    <2> USE <1>2 DEF LockCaller, netVars
    <2>1. PCTypes'
      BY ThreadsAssumption DEF PCTypes, CallerPCs, ReconnectorPCs, Threads
    <2>2. ClientTypes'
      BY ThreadsAssumption DEF ClientTypes, Threads
    <2>3. CallTypes'
      BY DEF CallTypes
    <2>4. NetTypes'
      BY DEF NetTypes
    <2>5. CallsNumbered'
      BY ThreadsAssumption DEF CallsNumbered, PCTypes, CallTypes, Threads
    <2> QED
      BY <2>1, <2>2, <2>3, <2>4, <2>5
  <1>3. ASSUME NEW r \in Reconnectors, LockReconnector(r) PROVE TypeOK'
    <2> USE <1>3 DEF LockReconnector, netVars
    <2>1. PCTypes'
      BY ThreadsAssumption DEF PCTypes, CallerPCs, ReconnectorPCs, Threads
    <2>2. ClientTypes'
      BY ThreadsAssumption DEF ClientTypes, Threads
    <2>3. CallTypes'
      BY DEF CallTypes
    <2>4. NetTypes'
      BY DEF NetTypes
    <2>5. CallsNumbered'
      BY ThreadsAssumption DEF CallsNumbered, PCTypes, CallTypes, Threads
    <2> QED
      BY <2>1, <2>2, <2>3, <2>4, <2>5
  <1>4. ASSUME NEW t \in Threads, Dial(t) PROVE TypeOK'
    <2> USE <1>4 DEF Dial, FreeConns, clientVars
    <2>1. PCTypes'
      BY ThreadsAssumption DEF PCTypes, CallerPCs, ReconnectorPCs, Threads
    <2>2. ClientTypes'
      BY ThreadsAssumption DEF ClientTypes, Threads
    <2>3. CallTypes'
      BY DEF CallTypes
    <2>4. NetTypes'
      <3>1. <<AuthPacket>> \in Seq(Packets)
        BY DEF Packets
      <3>2. inbound' \in [Conns -> Seq(Packets)]
        BY <3>1 DEF NetTypes
      <3> QED
        BY <3>2 DEF NetTypes
    <2>5. CallsNumbered'
      BY ThreadsAssumption DEF CallsNumbered, PCTypes, CallTypes, Threads
    <2> QED
      BY <2>1, <2>2, <2>3, <2>4, <2>5
  <1>5. ASSUME NEW t \in Threads, DialFail(t) PROVE TypeOK'
    <2> USE <1>5, EnsureFailedTypes DEF DialFail, netVars
    <2>1. PCTypes'
      OBVIOUS
    <2>2. ClientTypes'
      BY DEF ClientTypes
    <2>3. CallTypes'
      BY DEF CallTypes
    <2>4. NetTypes'
      BY DEF NetTypes
    <2>5. CallsNumbered'
      BY DEF CallsNumbered
    <2> QED
      BY <2>1, <2>2, <2>3, <2>4, <2>5
  <1>6. ASSUME NEW t \in Threads, AuthOk(t) PROVE TypeOK'
    <2> USE <1>6 DEF AuthOk
    <2>1. PCTypes'
      BY ThreadsAssumption DEF PCTypes, CallerPCs, ReconnectorPCs, Threads
    <2>2. ClientTypes'
      BY ThreadsAssumption DEF ClientTypes, Threads
    <2>3. CallTypes'
      BY DEF CallTypes
    <2>4. NetTypes'
      <3>1. outbound' \in [Conns -> Seq(Replies)]
        BY TailTyped DEF NetTypes
      <3> QED
        BY <3>1 DEF NetTypes
    <2>5. CallsNumbered'
      BY ThreadsAssumption DEF CallsNumbered, PCTypes, CallTypes, Threads
    <2> QED
      BY <2>1, <2>2, <2>3, <2>4, <2>5
  <1>7. ASSUME NEW t \in Threads, AuthFail(t) PROVE TypeOK'
    <2> USE <1>7, EnsureFailedTypes DEF AuthFail
    <2>1. PCTypes'
      OBVIOUS
    <2>2. ClientTypes'
      BY DEF ClientTypes
    <2>3. CallTypes'
      BY DEF CallTypes
    <2>4. NetTypes'
      BY CloseSocketTypes DEF ClientTypes, NetTypes
    <2>5. CallsNumbered'
      BY DEF CallsNumbered
    <2> QED
      BY <2>1, <2>2, <2>3, <2>4, <2>5
  <1>8. ASSUME NEW p \in Callers, Write(p) PROVE TypeOK'
    <2> USE <1>8 DEF Write, SetDeadline
    <2>1. PCTypes'
      BY ThreadsAssumption DEF PCTypes, CallerPCs, ReconnectorPCs, Threads
    <2>2. ClientTypes'
      BY ThreadsAssumption DEF ClientTypes, Threads
    <2>3. CallTypes'
      BY DEF CallTypes
    <2>4. NetTypes'
      <3>1. call[p] \in Nat
        BY InputsAssumption DEF CallTypes
      <3>2. ExecPacket(Request(p)) \in Packets
        BY <3>1 DEF CallsNumbered, CallTypes, Request, Requests, Packets
      <3>3. ASSUME conn \in Conns
            PROVE  Append(inbound[conn], ExecPacket(Request(p))) \in Seq(Packets)
        BY <3>2, <3>3 DEF NetTypes
      <3>4. inbound' \in [Conns -> Seq(Packets)]
        BY <3>3 DEF NetTypes
      <3> QED
        BY <3>4 DEF NetTypes
    <2>5. CallsNumbered'
      BY ThreadsAssumption DEF CallsNumbered, PCTypes, CallTypes, Threads
    <2> QED
      BY <2>1, <2>2, <2>3, <2>4, <2>5
  <1>9. ASSUME NEW p \in Callers, WriteFail(p) PROVE TypeOK'
    BY <1>9, AttemptFailedTypes DEF WriteFail
  <1>10. ASSUME NEW p \in Callers, ReadOk(p) PROVE TypeOK'
    <2> USE <1>10 DEF ReadOk, Return
    <2>1. PCTypes'
      BY ThreadsAssumption DEF PCTypes, CallerPCs, ReconnectorPCs, Threads
    <2>2. ClientTypes'
      BY ThreadsAssumption DEF ClientTypes, Threads
    <2>3. CallTypes'
      BY DEF CallTypes
    <2>4. NetTypes'
      <3>1. outbound' \in [Conns -> Seq(Replies)]
        BY TailTyped DEF NetTypes
      <3> QED
        BY <3>1 DEF NetTypes
    <2>5. CallsNumbered'
      BY ThreadsAssumption DEF CallsNumbered, PCTypes, CallTypes, Threads
    <2> QED
      BY <2>1, <2>2, <2>3, <2>4, <2>5
  <1>11. ASSUME NEW p \in Callers, ReadFail(p) PROVE TypeOK'
    BY <1>11, AttemptFailedTypes DEF ReadFail
  <1>12. ASSUME NEW r \in Reconnectors, Wake(r) PROVE TypeOK'
    <2> USE <1>12 DEF Wake, clientVars, netVars
    <2>1. PCTypes'
      BY ThreadsAssumption DEF PCTypes, CallerPCs, ReconnectorPCs, Threads
    <2>2. ClientTypes'
      BY ThreadsAssumption, BackoffAssumption DEF ClientTypes, Threads,
         NextBackoff
    <2>3. CallTypes'
      BY DEF CallTypes
    <2>4. NetTypes'
      BY DEF NetTypes
    <2>5. CallsNumbered'
      BY ThreadsAssumption DEF CallsNumbered, PCTypes, CallTypes, Threads
    <2> QED
      BY <2>1, <2>2, <2>3, <2>4, <2>5
  <1>13. ASSUME NEW r \in Reconnectors, ExitReconnector(r) PROVE TypeOK'
    <2> USE <1>13 DEF ExitReconnector, netVars
    <2>1. PCTypes'
      BY ThreadsAssumption DEF PCTypes, CallerPCs, ReconnectorPCs, Threads
    <2>2. ClientTypes'
      BY ThreadsAssumption DEF ClientTypes, Threads
    <2>3. CallTypes'
      BY DEF CallTypes
    <2>4. NetTypes'
      BY DEF NetTypes
    <2>5. CallsNumbered'
      BY ThreadsAssumption DEF CallsNumbered, PCTypes, CallTypes, Threads
    <2> QED
      BY <2>1, <2>2, <2>3, <2>4, <2>5
  <1>14. ASSUME Close PROVE TypeOK'
    <2> USE <1>14 DEF Close, CloseConn, threadVars
    <2>1. PCTypes' /\ CallsNumbered' /\ ClientTypes' /\ CallTypes'
      BY DEF PCTypes, CallsNumbered, ClientTypes, CallTypes
    <2>2. NetTypes'
      BY CloseSocketTypes DEF ClientTypes, NetTypes
    <2> QED
      BY <2>1, <2>2
  <1>15. ASSUME NEW p \in Callers, Expire(p) PROVE TypeOK'
    <2> USE <1>15 DEF Expire, netVars
    <2>1. PCTypes'
      BY ThreadsAssumption DEF PCTypes, CallerPCs, ReconnectorPCs, Threads
    <2>2. ClientTypes'
      BY ThreadsAssumption DEF ClientTypes, Threads
    <2>3. CallTypes'
      BY DEF CallTypes
    <2>4. NetTypes'
      BY DEF NetTypes
    <2>5. CallsNumbered'
      BY ThreadsAssumption DEF CallsNumbered, PCTypes, CallTypes, Threads
    <2> QED
      BY <2>1, <2>2, <2>3, <2>4, <2>5
  <1>16. ASSUME NEW p \in Callers, Disconnect(p) PROVE TypeOK'
    <2> USE <1>16 DEF Disconnect, clientVars, netVars
    <2>1. PCTypes'
      BY ThreadsAssumption DEF PCTypes, CallerPCs, ReconnectorPCs, Threads
    <2>2. ClientTypes'
      BY ThreadsAssumption DEF ClientTypes, Threads
    <2>3. CallTypes'
      BY DEF CallTypes
    <2>4. NetTypes'
      BY DEF NetTypes
    <2>5. CallsNumbered'
      BY ThreadsAssumption DEF CallsNumbered, PCTypes, CallTypes, Threads
    <2> QED
      BY <2>1, <2>2, <2>3, <2>4, <2>5
  <1>17. ASSUME StaleDeadline PROVE TypeOK'
    <2> USE <1>17 DEF StaleDeadline, threadVars, netVars
    <2>1. PCTypes'
      BY ThreadsAssumption DEF PCTypes, CallerPCs, ReconnectorPCs, Threads
    <2>2. ClientTypes'
      BY ThreadsAssumption DEF ClientTypes, Threads
    <2>3. CallTypes'
      BY DEF CallTypes
    <2>4. NetTypes'
      BY DEF NetTypes
    <2>5. CallsNumbered'
      BY ThreadsAssumption DEF CallsNumbered, PCTypes, CallTypes, Threads
    <2> QED
      BY <2>1, <2>2, <2>3, <2>4, <2>5
  <1>18. ASSUME NEW c \in Conns, ServerAuth(c) PROVE TypeOK'
    <2> USE <1>18 DEF ServerAuth, clientVars, threadVars
    <2>1. PCTypes' /\ CallsNumbered' /\ ClientTypes' /\ CallTypes'
      BY DEF PCTypes, CallsNumbered, ClientTypes, CallTypes
    <2>2. PICK a \in AuthAnswers :
            /\ Reply(c, a)
            /\ srv' = IF a = "ok" THEN [srv EXCEPT ![c] = "authed"] ELSE srv
      OBVIOUS
    <2>3. NetTypes'
      BY <2>2, ReplyTypes, InputsAssumption DEF NetTypes
    <2> QED
      BY <2>1, <2>3
  <1>19. ASSUME NEW c \in Conns, ServerExec(c) PROVE TypeOK'
    <2> USE <1>19 DEF ServerExec, clientVars, threadVars
    <2>1. PCTypes' /\ CallsNumbered' /\ ClientTypes' /\ CallTypes'
      BY DEF PCTypes, CallsNumbered, ClientTypes, CallTypes
    <2>2. PICK a \in ExecAnswers : Reply(c, a)
      OBVIOUS
    <2>3. executions' \in [Requests -> Nat]
      <3> DEFINE req == <<Head(inbound[c]).by, Head(inbound[c]).call>>
      <3>1. req \in Requests => executions[req] + 1 \in Nat
        BY DEF NetTypes
      <3>2. executions' \in {executions, [executions EXCEPT ![req] = @ + 1]}
        OBVIOUS
      <3> QED
        BY <3>1, <3>2 DEF NetTypes
    <2>4. NetTypes'
      BY <2>2, <2>3, ReplyTypes, InputsAssumption DEF NetTypes
    <2> QED
      BY <2>1, <2>4
  <1>20. ASSUME NEW c \in Conns, ServerEOF(c) PROVE TypeOK'
    <2> USE <1>20 DEF ServerEOF, clientVars, threadVars
    <2>1. PCTypes'
      BY ThreadsAssumption DEF PCTypes, CallerPCs, ReconnectorPCs, Threads
    <2>2. ClientTypes'
      BY ThreadsAssumption DEF ClientTypes, Threads
    <2>3. CallTypes'
      BY DEF CallTypes
    <2>4. NetTypes'
      BY DEF NetTypes
    <2>5. CallsNumbered'
      BY ThreadsAssumption DEF CallsNumbered, PCTypes, CallTypes, Threads
    <2> QED
      BY <2>1, <2>2, <2>3, <2>4, <2>5
  <1>21. ASSUME NEW c \in Conns, ServerDrop(c) PROVE TypeOK'
    <2> USE <1>21 DEF ServerDrop, clientVars, threadVars
    <2>1. PCTypes'
      BY ThreadsAssumption DEF PCTypes, CallerPCs, ReconnectorPCs, Threads
    <2>2. ClientTypes'
      BY ThreadsAssumption DEF ClientTypes, Threads
    <2>3. CallTypes'
      BY DEF CallTypes
    <2>4. NetTypes'
      <3>1. <<>> \in Seq(Packets) /\ <<>> \in Seq(Replies)
        OBVIOUS
      <3>2. PICK kept \in {outbound[c], <<>>} :
              outbound' = [outbound EXCEPT ![c] = kept]
        OBVIOUS
      <3>3. outbound' \in [Conns -> Seq(Replies)]
        BY <3>1, <3>2 DEF NetTypes
      <3>4. inbound' \in [Conns -> Seq(Packets)]
        BY <3>1 DEF NetTypes
      <3> QED
        BY <3>3, <3>4 DEF NetTypes
    <2>5. CallsNumbered'
      BY ThreadsAssumption DEF CallsNumbered, PCTypes, CallTypes, Threads
    <2> QED
      BY <2>1, <2>2, <2>3, <2>4, <2>5
  <1>22. ASSUME Reachable PROVE TypeOK'
    <2> USE <1>22 DEF Reachable, clientVars, threadVars, netVars
    <2>1. PCTypes'
      BY ThreadsAssumption DEF PCTypes, CallerPCs, ReconnectorPCs, Threads
    <2>2. ClientTypes'
      BY ThreadsAssumption DEF ClientTypes, Threads
    <2>3. CallTypes'
      BY DEF CallTypes
    <2>4. NetTypes'
      BY DEF NetTypes
    <2>5. CallsNumbered'
      BY ThreadsAssumption DEF CallsNumbered, PCTypes, CallTypes, Threads
    <2> QED
      BY <2>1, <2>2, <2>3, <2>4, <2>5
  <1>23. ASSUME UNCHANGED vars PROVE TypeOK'
    <2> USE <1>23 DEF vars, clientVars, threadVars, netVars
    <2>1. PCTypes'
      BY ThreadsAssumption DEF PCTypes, CallerPCs, ReconnectorPCs, Threads
    <2>2. ClientTypes'
      BY ThreadsAssumption DEF ClientTypes, Threads
    <2>3. CallTypes'
      BY DEF CallTypes
    <2>4. NetTypes'
      BY DEF NetTypes
    <2>5. CallsNumbered'
      BY ThreadsAssumption DEF CallsNumbered, PCTypes, CallTypes, Threads
    <2> QED
      BY <2>1, <2>2, <2>3, <2>4, <2>5
  <1> QED
    BY <1>1, <1>2, <1>3, <1>4, <1>5, <1>6, <1>7, <1>8, <1>9, <1>10, <1>11,
       <1>12, <1>13, <1>14, <1>15, <1>16, <1>17, <1>18, <1>19, <1>20, <1>21,
       <1>22, <1>23 DEF Next, CallerStep, ReconnectorStep, ServerStep,
       Threads

\* The back-off never leaves its bounds and nothing else leaves its type, for
\* every value of the constants.
THEOREM TypeCorrect == Spec => []TypeOK
  BY TypeInit, TypeStep, PTL DEF Spec

-----------------------------------------------------------------------------
(* What the shared operators do to the mutex, the flag and the program counters. *)

\* A caller gives up: it leaves, and at most one goroutine appears, behind the
\* flag (client.go:104, 111).
LEMMA GiveUpEffect ==
  ASSUME TypeOK, NEW p \in Callers, GiveUp(p)
  PROVE  /\ mu' = Nobody /\ pc'[p] = "idle"
         /\ \/ /\ reconnecting /\ reconnecting' = reconnecting
               /\ \A u \in Threads \ {p} : pc'[u] = pc[u]
            \/ /\ ~reconnecting /\ reconnecting'
               /\ \E r \in Reconnectors :
                    /\ pc[r] = "off" /\ pc'[r] = "lock"
                    /\ \A u \in Threads \ {p, r} : pc'[u] = pc[u]
  <1> USE ThreadsAssumption DEF GiveUp, Return, StartBackgroundReconnect, TypeOK,
                                PCTypes, ClientTypes, Threads
  <1>1. CASE reconnecting
    BY <1>1
  <1>2. CASE ~reconnecting
    BY <1>2
  <1> QED
    BY <1>1, <1>2

\* A failed ensureConnected: the thread leaves with the lock released.
LEMMA EnsureFailedEffect ==
  ASSUME TypeOK, NEW t \in Threads, EnsureFailed(t)
  PROVE  /\ mu' = Nobody
         /\ pc'[t] = IF t \in Callers THEN "idle" ELSE "sleep"
         /\ \/ /\ reconnecting' = reconnecting
               /\ \A u \in Threads \ {t} : pc'[u] = pc[u]
            \/ /\ ~reconnecting /\ reconnecting' /\ t \in Callers
               /\ \E r \in Reconnectors :
                    /\ pc[r] = "off" /\ pc'[r] = "lock"
                    /\ \A u \in Threads \ {t, r} : pc'[u] = pc[u]
  <1>1. CASE t \in Reconnectors
    BY <1>1, ThreadsAssumption DEF EnsureFailed, TypeOK, PCTypes, Threads
  <1>2. CASE t \in Callers /\ attempt[t] = 1
    BY <1>2, ThreadsAssumption DEF EnsureFailed, Return, TypeOK, PCTypes, Threads
  <1>3. CASE t \in Callers /\ attempt[t] = 2
    BY <1>3, GiveUpEffect, ThreadsAssumption DEF EnsureFailed
  <1> QED
    BY <1>1, <1>2, <1>3 DEF EnsureFailed

\* A failed sendPacket: the connection is gone, and the caller either goes on to
\* dial with the lock in its hand or leaves (client.go:101-112).
LEMMA AttemptFailedEffect ==
  ASSUME TypeOK, NEW p \in Callers, AttemptFailed(p)
  PROVE  /\ conn' = Nil /\ sock' = sock /\ call' = call
         /\ open' = open \ {conn} /\ srv' = srv /\ inbound' = inbound
         /\ outbound' = [outbound EXCEPT ![conn] = <<>>]
         /\ \/ /\ mu' = mu /\ reconnecting' = reconnecting
               /\ pc' = [pc EXCEPT ![p] = "dial"]
            \/ GiveUp(p)
  BY DEF AttemptFailed, CloseConn, CloseSocket

-----------------------------------------------------------------------------
(* The mutex and the background goroutine. *)

\* Lock and Unlock bracket the exchange on every path through Send and the loop.
LEMMA LockStep == TypeOK /\ LockCoversExchange /\ [Next]_vars => LockCoversExchange'
  <1> SUFFICES ASSUME TypeOK, LockCoversExchange, [Next]_vars PROVE LockCoversExchange'
    OBVIOUS
  <1> USE ThreadsAssumption DEF TypeOK, PCTypes, ClientTypes, Threads,
     LockCoversExchange
  <1>1. ASSUME NEW p \in Callers, Invoke(p) PROVE LockCoversExchange'
    BY <1>1 DEF Invoke, clientVars
  <1>2. ASSUME NEW p \in Callers, LockCaller(p) PROVE LockCoversExchange'
    BY <1>2 DEF LockCaller
  <1>3. ASSUME NEW r \in Reconnectors, LockReconnector(r) PROVE LockCoversExchange'
    BY <1>3 DEF LockReconnector
  <1>4. ASSUME NEW t \in Threads, Dial(t) PROVE LockCoversExchange'
    BY <1>4 DEF Dial, clientVars
  <1>5. ASSUME NEW t \in Threads, DialFail(t) PROVE LockCoversExchange'
    BY <1>5, EnsureFailedEffect DEF DialFail
  <1>6. ASSUME NEW t \in Threads, AuthOk(t) PROVE LockCoversExchange'
    BY <1>6 DEF AuthOk
  <1>7. ASSUME NEW t \in Threads, AuthFail(t) PROVE LockCoversExchange'
    BY <1>7, EnsureFailedEffect DEF AuthFail
  <1>8. ASSUME NEW p \in Callers, Write(p) PROVE LockCoversExchange'
    BY <1>8 DEF Write
  <1>9. ASSUME NEW p \in Callers, WriteFail(p) PROVE LockCoversExchange'
    BY <1>9, AttemptFailedEffect, GiveUpEffect DEF WriteFail
  <1>10. ASSUME NEW p \in Callers, ReadOk(p) PROVE LockCoversExchange'
    BY <1>10 DEF ReadOk, Return
  <1>11. ASSUME NEW p \in Callers, ReadFail(p) PROVE LockCoversExchange'
    BY <1>11, AttemptFailedEffect, GiveUpEffect DEF ReadFail
  <1>12. ASSUME NEW r \in Reconnectors, Wake(r) PROVE LockCoversExchange'
    BY <1>12 DEF Wake, clientVars
  <1>13. ASSUME NEW r \in Reconnectors, ExitReconnector(r) PROVE LockCoversExchange'
    BY <1>13 DEF ExitReconnector
  <1>14. ASSUME Close PROVE LockCoversExchange'
    BY <1>14 DEF Close, threadVars
  <1>15. ASSUME NEW p \in Callers, Expire(p) PROVE LockCoversExchange'
    BY <1>15 DEF Expire
  <1>16. ASSUME NEW p \in Callers, Disconnect(p) PROVE LockCoversExchange'
    BY <1>16 DEF Disconnect, clientVars
  <1>17. ASSUME StaleDeadline PROVE LockCoversExchange'
    BY <1>17 DEF StaleDeadline, threadVars
  <1>18. ASSUME NEW c \in Conns, ServerAuth(c) PROVE LockCoversExchange'
    BY <1>18 DEF ServerAuth, clientVars, threadVars
  <1>19. ASSUME NEW c \in Conns, ServerExec(c) PROVE LockCoversExchange'
    BY <1>19 DEF ServerExec, clientVars, threadVars
  <1>20. ASSUME NEW c \in Conns, ServerEOF(c) PROVE LockCoversExchange'
    BY <1>20 DEF ServerEOF, clientVars, threadVars
  <1>21. ASSUME NEW c \in Conns, ServerDrop(c) PROVE LockCoversExchange'
    BY <1>21 DEF ServerDrop, clientVars, threadVars
  <1>22. ASSUME Reachable PROVE LockCoversExchange'
    BY <1>22 DEF Reachable, clientVars, threadVars
  <1>23. ASSUME UNCHANGED vars PROVE LockCoversExchange'
    BY <1>23 DEF vars, clientVars, threadVars
  <1> QED
    BY <1>1, <1>2, <1>3, <1>4, <1>5, <1>6, <1>7, <1>8, <1>9, <1>10, <1>11,
       <1>12, <1>13, <1>14, <1>15, <1>16, <1>17, <1>18, <1>19, <1>20, <1>21,
       <1>22, <1>23 DEF Next, CallerStep, ReconnectorStep, ServerStep,
       Threads

\* A goroutine appears only while the flag is clear and is gone when it is cleared.
LEMMA OneReconnectorStep == TypeOK /\ OneReconnector /\ [Next]_vars => OneReconnector'
  <1> SUFFICES ASSUME TypeOK, OneReconnector, [Next]_vars PROVE OneReconnector'
    OBVIOUS
  <1> USE ThreadsAssumption DEF TypeOK, PCTypes, ClientTypes, Threads,
     OneReconnector, CallerPCs, ReconnectorPCs
  <1>1. ASSUME NEW p \in Callers, Invoke(p) PROVE OneReconnector'
    BY <1>1 DEF Invoke, clientVars
  <1>2. ASSUME NEW p \in Callers, LockCaller(p) PROVE OneReconnector'
    BY <1>2 DEF LockCaller
  <1>3. ASSUME NEW r \in Reconnectors, LockReconnector(r) PROVE OneReconnector'
    BY <1>3 DEF LockReconnector
  <1>4. ASSUME NEW t \in Threads, Dial(t) PROVE OneReconnector'
    BY <1>4 DEF Dial, clientVars
  <1>5. ASSUME NEW t \in Threads, DialFail(t) PROVE OneReconnector'
    BY <1>5, EnsureFailedEffect DEF DialFail
  <1>6. ASSUME NEW t \in Threads, AuthOk(t) PROVE OneReconnector'
    BY <1>6 DEF AuthOk
  <1>7. ASSUME NEW t \in Threads, AuthFail(t) PROVE OneReconnector'
    BY <1>7, EnsureFailedEffect DEF AuthFail
  <1>8. ASSUME NEW p \in Callers, Write(p) PROVE OneReconnector'
    BY <1>8 DEF Write
  <1>9. ASSUME NEW p \in Callers, WriteFail(p) PROVE OneReconnector'
    BY <1>9, AttemptFailedEffect, GiveUpEffect DEF WriteFail
  <1>10. ASSUME NEW p \in Callers, ReadOk(p) PROVE OneReconnector'
    BY <1>10 DEF ReadOk, Return
  <1>11. ASSUME NEW p \in Callers, ReadFail(p) PROVE OneReconnector'
    BY <1>11, AttemptFailedEffect, GiveUpEffect DEF ReadFail
  <1>12. ASSUME NEW r \in Reconnectors, Wake(r) PROVE OneReconnector'
    BY <1>12 DEF Wake, clientVars
  <1>13. ASSUME NEW r \in Reconnectors, ExitReconnector(r) PROVE OneReconnector'
    BY <1>13 DEF ExitReconnector
  <1>14. ASSUME Close PROVE OneReconnector'
    BY <1>14 DEF Close, threadVars
  <1>15. ASSUME NEW p \in Callers, Expire(p) PROVE OneReconnector'
    BY <1>15 DEF Expire
  <1>16. ASSUME NEW p \in Callers, Disconnect(p) PROVE OneReconnector'
    BY <1>16 DEF Disconnect, clientVars
  <1>17. ASSUME StaleDeadline PROVE OneReconnector'
    BY <1>17 DEF StaleDeadline, threadVars
  <1>18. ASSUME NEW c \in Conns, ServerAuth(c) PROVE OneReconnector'
    BY <1>18 DEF ServerAuth, clientVars, threadVars
  <1>19. ASSUME NEW c \in Conns, ServerExec(c) PROVE OneReconnector'
    BY <1>19 DEF ServerExec, clientVars, threadVars
  <1>20. ASSUME NEW c \in Conns, ServerEOF(c) PROVE OneReconnector'
    BY <1>20 DEF ServerEOF, clientVars, threadVars
  <1>21. ASSUME NEW c \in Conns, ServerDrop(c) PROVE OneReconnector'
    BY <1>21 DEF ServerDrop, clientVars, threadVars
  <1>22. ASSUME Reachable PROVE OneReconnector'
    BY <1>22 DEF Reachable, clientVars, threadVars
  <1>23. ASSUME UNCHANGED vars PROVE OneReconnector'
    BY <1>23 DEF vars, clientVars, threadVars
  <1> QED
    BY <1>1, <1>2, <1>3, <1>4, <1>5, <1>6, <1>7, <1>8, <1>9, <1>10, <1>11,
       <1>12, <1>13, <1>14, <1>15, <1>16, <1>17, <1>18, <1>19, <1>20, <1>21,
       <1>22, <1>23 DEF Next, CallerStep, ReconnectorStep, ServerStep,
       Threads

\* After a failed sendPacket no thread is at work on a connection: the caller that
\* failed was the only one, and it is at most about to dial.
LEMMA NobodyTalks ==
  ASSUME TypeOK, LockCoversExchange, SocketsFollowPC, NEW p \in Callers,
         WriteFail(p) \/ ReadFail(p)
  PROVE  /\ AttemptFailed(p) /\ conn # Nil
         /\ \A u \in Threads : pc'[u] \notin {"auth", "write", "read"}
         /\ \A u \in Threads : sock[u] = Nil
  <1> USE ThreadsAssumption DEF TypeOK, PCTypes, Threads
  <1>1. AttemptFailed(p) /\ pc[p] \in {"write", "read"}
    BY DEF WriteFail, ReadFail
  <1>2. \A u \in Threads \ {p} : pc[u] \notin {"dial", "auth", "write", "read"}
    BY <1>1 DEF LockCoversExchange
  <1>3. \A u \in Threads : pc'[u] \notin {"auth", "write", "read"}
    <2>1. CASE pc' = [pc EXCEPT ![p] = "dial"]
      BY <1>2, <2>1
    <2>2. CASE GiveUp(p)
      BY <1>2, <2>2, GiveUpEffect
    <2> QED
      BY <1>1, <2>1, <2>2, AttemptFailedEffect
  <1>4. conn # Nil /\ \A u \in Threads : sock[u] = Nil
    BY <1>1, <1>2 DEF SocketsFollowPC
  <1> QED
    BY <1>1, <1>3, <1>4

-----------------------------------------------------------------------------
(* Sockets. *)

\* A thread has a socket of its own exactly while it authenticates, and works on
\* rc.conn exactly while it writes and reads.
LEMMA SocketsStep == TypeOK /\ LockCoversExchange /\ SocketsFollowPC /\ [Next]_vars => SocketsFollowPC'
  <1> SUFFICES ASSUME TypeOK, LockCoversExchange, SocketsFollowPC, [Next]_vars PROVE SocketsFollowPC'
    OBVIOUS
  <1> USE ThreadsAssumption, ConnsAssumption DEF TypeOK, PCTypes,
     ClientTypes, NetTypes, Threads, CallerPCs, ReconnectorPCs,
     LockCoversExchange, SocketsFollowPC
  <1>1. ASSUME NEW p \in Callers, Invoke(p) PROVE SocketsFollowPC'
    BY <1>1 DEF Invoke, clientVars, netVars
  <1>2. ASSUME NEW p \in Callers, LockCaller(p) PROVE SocketsFollowPC'
    BY <1>2 DEF LockCaller, netVars
  <1>3. ASSUME NEW r \in Reconnectors, LockReconnector(r) PROVE SocketsFollowPC'
    BY <1>3 DEF LockReconnector, netVars
  <1>4. ASSUME NEW t \in Threads, Dial(t) PROVE SocketsFollowPC'
    BY <1>4 DEF Dial, FreeConns, clientVars
  <1>5. ASSUME NEW t \in Threads, DialFail(t) PROVE SocketsFollowPC'
    BY <1>5, EnsureFailedEffect DEF DialFail, netVars
  <1>6. ASSUME NEW t \in Threads, AuthOk(t) PROVE SocketsFollowPC'
    BY <1>6 DEF AuthOk
  <1>7. ASSUME NEW t \in Threads, AuthFail(t) PROVE SocketsFollowPC'
    BY <1>7, EnsureFailedEffect DEF AuthFail, CloseSocket
  <1>8. ASSUME NEW p \in Callers, Write(p) PROVE SocketsFollowPC'
    BY <1>8 DEF Write
  <1>9. ASSUME NEW p \in Callers, WriteFail(p) PROVE SocketsFollowPC'
    BY <1>9, NobodyTalks, AttemptFailedEffect DEF WriteFail
  <1>10. ASSUME NEW p \in Callers, ReadOk(p) PROVE SocketsFollowPC'
    BY <1>10 DEF ReadOk, Return
  <1>11. ASSUME NEW p \in Callers, ReadFail(p) PROVE SocketsFollowPC'
    BY <1>11, NobodyTalks, AttemptFailedEffect DEF ReadFail
  <1>12. ASSUME NEW r \in Reconnectors, Wake(r) PROVE SocketsFollowPC'
    BY <1>12 DEF Wake, clientVars, netVars
  <1>13. ASSUME NEW r \in Reconnectors, ExitReconnector(r) PROVE SocketsFollowPC'
    BY <1>13 DEF ExitReconnector, netVars
  <1>14. ASSUME Close PROVE SocketsFollowPC'
    BY <1>14 DEF Close, CloseConn, CloseSocket, threadVars
  <1>15. ASSUME NEW p \in Callers, Expire(p) PROVE SocketsFollowPC'
    BY <1>15 DEF Expire, netVars
  <1>16. ASSUME NEW p \in Callers, Disconnect(p) PROVE SocketsFollowPC'
    BY <1>16 DEF Disconnect, clientVars, netVars
  <1>17. ASSUME StaleDeadline PROVE SocketsFollowPC'
    BY <1>17 DEF StaleDeadline, threadVars, netVars
  <1>18. ASSUME NEW c \in Conns, ServerAuth(c) PROVE SocketsFollowPC'
    BY <1>18 DEF ServerAuth, clientVars, threadVars
  <1>19. ASSUME NEW c \in Conns, ServerExec(c) PROVE SocketsFollowPC'
    BY <1>19 DEF ServerExec, clientVars, threadVars
  <1>20. ASSUME NEW c \in Conns, ServerEOF(c) PROVE SocketsFollowPC'
    BY <1>20 DEF ServerEOF, clientVars, threadVars
  <1>21. ASSUME NEW c \in Conns, ServerDrop(c) PROVE SocketsFollowPC'
    BY <1>21 DEF ServerDrop, clientVars, threadVars
  <1>22. ASSUME Reachable PROVE SocketsFollowPC'
    BY <1>22 DEF Reachable, clientVars, threadVars, netVars
  <1>23. ASSUME UNCHANGED vars PROVE SocketsFollowPC'
    BY <1>23 DEF vars, clientVars, threadVars, netVars
  <1> QED
    BY <1>1, <1>2, <1>3, <1>4, <1>5, <1>6, <1>7, <1>8, <1>9, <1>10, <1>11,
       <1>12, <1>13, <1>14, <1>15, <1>16, <1>17, <1>18, <1>19, <1>20, <1>21,
       <1>22, <1>23 DEF Next, CallerStep, ReconnectorStep, ServerStep,
       Threads

\* Every socket is opened into sock, moved to rc.conn or closed.
LEMMA NoLeakStep == TypeOK /\ LockCoversExchange /\ SocketsFollowPC /\ NoLeakedSocket /\ [Next]_vars => NoLeakedSocket'
  <1> SUFFICES ASSUME TypeOK, LockCoversExchange, SocketsFollowPC, NoLeakedSocket, [Next]_vars PROVE NoLeakedSocket'
    OBVIOUS
  <1> USE ThreadsAssumption, ConnsAssumption DEF TypeOK, PCTypes,
     ClientTypes, NetTypes, Threads, LockCoversExchange, SocketsFollowPC,
     NoLeakedSocket
  <1>1. ASSUME NEW p \in Callers, Invoke(p) PROVE NoLeakedSocket'
    BY <1>1 DEF Invoke, clientVars, netVars
  <1>2. ASSUME NEW p \in Callers, LockCaller(p) PROVE NoLeakedSocket'
    BY <1>2 DEF LockCaller, netVars
  <1>3. ASSUME NEW r \in Reconnectors, LockReconnector(r) PROVE NoLeakedSocket'
    BY <1>3 DEF LockReconnector, netVars
  <1>4. ASSUME NEW t \in Threads, Dial(t) PROVE NoLeakedSocket'
    BY <1>4 DEF Dial, FreeConns, clientVars
  <1>5. ASSUME NEW t \in Threads, DialFail(t) PROVE NoLeakedSocket'
    BY <1>5, EnsureFailedEffect DEF DialFail, netVars
  <1>6. ASSUME NEW t \in Threads, AuthOk(t) PROVE NoLeakedSocket'
    BY <1>6 DEF AuthOk
  <1>7. ASSUME NEW t \in Threads, AuthFail(t) PROVE NoLeakedSocket'
    BY <1>7, EnsureFailedEffect DEF AuthFail, CloseSocket
  <1>8. ASSUME NEW p \in Callers, Write(p) PROVE NoLeakedSocket'
    BY <1>8 DEF Write
  <1>9. ASSUME NEW p \in Callers, WriteFail(p) PROVE NoLeakedSocket'
    BY <1>9, AttemptFailedEffect, GiveUpEffect DEF WriteFail
  <1>10. ASSUME NEW p \in Callers, ReadOk(p) PROVE NoLeakedSocket'
    BY <1>10 DEF ReadOk, Return
  <1>11. ASSUME NEW p \in Callers, ReadFail(p) PROVE NoLeakedSocket'
    BY <1>11, AttemptFailedEffect, GiveUpEffect DEF ReadFail
  <1>12. ASSUME NEW r \in Reconnectors, Wake(r) PROVE NoLeakedSocket'
    BY <1>12 DEF Wake, clientVars, netVars
  <1>13. ASSUME NEW r \in Reconnectors, ExitReconnector(r) PROVE NoLeakedSocket'
    BY <1>13 DEF ExitReconnector, netVars
  <1>14. ASSUME Close PROVE NoLeakedSocket'
    BY <1>14 DEF Close, CloseConn, CloseSocket, threadVars
  <1>15. ASSUME NEW p \in Callers, Expire(p) PROVE NoLeakedSocket'
    BY <1>15 DEF Expire, netVars
  <1>16. ASSUME NEW p \in Callers, Disconnect(p) PROVE NoLeakedSocket'
    BY <1>16 DEF Disconnect, clientVars, netVars
  <1>17. ASSUME StaleDeadline PROVE NoLeakedSocket'
    BY <1>17 DEF StaleDeadline, threadVars, netVars
  <1>18. ASSUME NEW c \in Conns, ServerAuth(c) PROVE NoLeakedSocket'
    BY <1>18 DEF ServerAuth, clientVars, threadVars
  <1>19. ASSUME NEW c \in Conns, ServerExec(c) PROVE NoLeakedSocket'
    BY <1>19 DEF ServerExec, clientVars, threadVars
  <1>20. ASSUME NEW c \in Conns, ServerEOF(c) PROVE NoLeakedSocket'
    BY <1>20 DEF ServerEOF, clientVars, threadVars
  <1>21. ASSUME NEW c \in Conns, ServerDrop(c) PROVE NoLeakedSocket'
    BY <1>21 DEF ServerDrop, clientVars, threadVars
  <1>22. ASSUME Reachable PROVE NoLeakedSocket'
    BY <1>22 DEF Reachable, clientVars, threadVars, netVars
  <1>23. ASSUME UNCHANGED vars PROVE NoLeakedSocket'
    BY <1>23 DEF vars, clientVars, threadVars, netVars
  <1> QED
    BY <1>1, <1>2, <1>3, <1>4, <1>5, <1>6, <1>7, <1>8, <1>9, <1>10, <1>11,
       <1>12, <1>13, <1>14, <1>15, <1>16, <1>17, <1>18, <1>19, <1>20, <1>21,
       <1>22, <1>23 DEF Next, CallerStep, ReconnectorStep, ServerStep,
       Threads

-----------------------------------------------------------------------------
(* Packets under way. *)

\* The server's answer keeps what a connection carries.
LEMMA ReplyCarries ==
  ASSUME TypeOK, NEW c \in Conns, NEW pkt, Carries(inbound[c], outbound[c], pkt),
         NEW d \in Conns, NEW a \in Answers, inbound[d] # <<>>, Reply(d, a)
  PROVE  Carries(inbound'[c], outbound'[c], pkt)
  <1> USE DEF TypeOK, NetTypes
  <1>1. CASE c # d
    BY <1>1 DEF Reply, Carries
  <1>2. CASE c = d
    <2>1. inbound[c] = <<pkt>> /\ outbound[c] = <<>>
      BY <1>2 DEF Carries
    <2>2. inbound'[c] = <<>>
      BY <1>2, <2>1 DEF Reply
    <2>3. outbound'[c] \in {<<>>, <<[status |-> a, to |-> pkt]>>}
      BY <1>2, <2>1 DEF Reply
    <2> QED
      BY <2>2, <2>3 DEF Carries
  <1> QED
    BY <1>1, <1>2

\* So does a broken connection.
LEMMA DropCarries ==
  ASSUME TypeOK, NEW c \in Conns, NEW pkt, Carries(inbound[c], outbound[c], pkt),
         NEW d \in Conns, ServerDrop(d)
  PROVE  /\ Carries(inbound'[c], outbound'[c], pkt)
         /\ outbound'[c] \in {outbound[c], <<>>}
  <1> USE DEF TypeOK, NetTypes
  <1>1. CASE c # d
    BY <1>1 DEF ServerDrop, Carries
  <1>2. CASE c = d
    <2>1. inbound'[c] = <<>> /\ outbound'[c] \in {outbound[c], <<>>}
      BY <1>2 DEF ServerDrop
    <2> QED
      BY <2>1 DEF Carries
  <1> QED
    BY <1>1, <1>2

\* A connection whose answer has been read is empty again.
LEMMA CarriesOne ==
  ASSUME NEW in, NEW out, NEW pkt, Carries(in, out, pkt), out # <<>>
  PROVE  in = <<>> /\ Tail(out) = <<>> /\ Head(out).to = pkt
  <1>1. in = <<>>
    BY DEF Carries
  <1>2. PICK a \in Answers : out = <<[status |-> a, to |-> pkt]>>
    BY DEF Carries
  <1>3. Tail(out) = <<>> /\ Head(out) = [status |-> a, to |-> pkt]
    BY <1>2
  <1> QED
    BY <1>1, <1>3

\* A closed connection delivers nothing more to the client.
LEMMA SilentStep == TypeOK /\ SocketsFollowPC /\ NoLeakedSocket /\ ClosedIsSilent /\ [Next]_vars => ClosedIsSilent'
  <1> SUFFICES ASSUME TypeOK, SocketsFollowPC, NoLeakedSocket, ClosedIsSilent, [Next]_vars PROVE ClosedIsSilent'
    OBVIOUS
  <1> USE ThreadsAssumption, ConnsAssumption DEF TypeOK, PCTypes,
     ClientTypes, NetTypes, Threads, SocketsFollowPC, NoLeakedSocket,
     ClosedIsSilent
  <1>1. ASSUME NEW p \in Callers, Invoke(p) PROVE ClosedIsSilent'
    BY <1>1 DEF Invoke, clientVars, netVars
  <1>2. ASSUME NEW p \in Callers, LockCaller(p) PROVE ClosedIsSilent'
    BY <1>2 DEF LockCaller, netVars
  <1>3. ASSUME NEW r \in Reconnectors, LockReconnector(r) PROVE ClosedIsSilent'
    BY <1>3 DEF LockReconnector, netVars
  <1>4. ASSUME NEW t \in Threads, Dial(t) PROVE ClosedIsSilent'
    BY <1>4 DEF Dial, FreeConns, clientVars
  <1>5. ASSUME NEW t \in Threads, DialFail(t) PROVE ClosedIsSilent'
    BY <1>5, EnsureFailedEffect DEF DialFail, netVars
  <1>6. ASSUME NEW t \in Threads, AuthOk(t) PROVE ClosedIsSilent'
    BY <1>6 DEF AuthOk
  <1>7. ASSUME NEW t \in Threads, AuthFail(t) PROVE ClosedIsSilent'
    BY <1>7, EnsureFailedEffect DEF AuthFail, CloseSocket
  <1>8. ASSUME NEW p \in Callers, Write(p) PROVE ClosedIsSilent'
    BY <1>8 DEF Write
  <1>9. ASSUME NEW p \in Callers, WriteFail(p) PROVE ClosedIsSilent'
    <2>1. AttemptFailed(p)
      BY <1>9 DEF WriteFail
    <2>2. open' = open \ {conn} /\ outbound' = [outbound EXCEPT ![conn] = <<>>]
      BY <2>1, AttemptFailedEffect
    <2> QED
      BY <2>2
  <1>10. ASSUME NEW p \in Callers, ReadOk(p) PROVE ClosedIsSilent'
    BY <1>10 DEF ReadOk, Return
  <1>11. ASSUME NEW p \in Callers, ReadFail(p) PROVE ClosedIsSilent'
    <2>1. AttemptFailed(p)
      BY <1>11 DEF ReadFail
    <2>2. open' = open \ {conn} /\ outbound' = [outbound EXCEPT ![conn] = <<>>]
      BY <2>1, AttemptFailedEffect
    <2> QED
      BY <2>2
  <1>12. ASSUME NEW r \in Reconnectors, Wake(r) PROVE ClosedIsSilent'
    BY <1>12 DEF Wake, clientVars, netVars
  <1>13. ASSUME NEW r \in Reconnectors, ExitReconnector(r) PROVE ClosedIsSilent'
    BY <1>13 DEF ExitReconnector, netVars
  <1>14. ASSUME Close PROVE ClosedIsSilent'
    BY <1>14 DEF Close, CloseConn, CloseSocket, threadVars
  <1>15. ASSUME NEW p \in Callers, Expire(p) PROVE ClosedIsSilent'
    BY <1>15 DEF Expire, netVars
  <1>16. ASSUME NEW p \in Callers, Disconnect(p) PROVE ClosedIsSilent'
    BY <1>16 DEF Disconnect, clientVars, netVars
  <1>17. ASSUME StaleDeadline PROVE ClosedIsSilent'
    BY <1>17 DEF StaleDeadline, threadVars, netVars
  <1>18. ASSUME NEW c \in Conns, ServerAuth(c) PROVE ClosedIsSilent'
    BY <1>18 DEF ServerAuth, Reply, clientVars, threadVars
  <1>19. ASSUME NEW c \in Conns, ServerExec(c) PROVE ClosedIsSilent'
    BY <1>19 DEF ServerExec, Reply, clientVars, threadVars
  <1>20. ASSUME NEW c \in Conns, ServerEOF(c) PROVE ClosedIsSilent'
    BY <1>20 DEF ServerEOF, clientVars, threadVars
  <1>21. ASSUME NEW c \in Conns, ServerDrop(c) PROVE ClosedIsSilent'
    BY <1>21 DEF ServerDrop, clientVars, threadVars
  <1>22. ASSUME Reachable PROVE ClosedIsSilent'
    BY <1>22 DEF Reachable, clientVars, threadVars, netVars
  <1>23. ASSUME UNCHANGED vars PROVE ClosedIsSilent'
    BY <1>23 DEF vars, clientVars, threadVars, netVars
  <1> QED
    BY <1>1, <1>2, <1>3, <1>4, <1>5, <1>6, <1>7, <1>8, <1>9, <1>10, <1>11,
       <1>12, <1>13, <1>14, <1>15, <1>16, <1>17, <1>18, <1>19, <1>20, <1>21,
       <1>22, <1>23 DEF Next, CallerStep, ReconnectorStep, ServerStep,
       Threads

\* rc.conn is set only from an accepted answer, which only an authenticated end gives.
LEMMA AuthenticatedStep == TypeOK /\ SocketsFollowPC /\ NoLeakedSocket /\ AuthUnderWay /\ ConnectedImpliesAuthenticated /\ [Next]_vars => ConnectedImpliesAuthenticated'
  <1> SUFFICES ASSUME TypeOK, SocketsFollowPC, NoLeakedSocket, AuthUnderWay, ConnectedImpliesAuthenticated, [Next]_vars PROVE ConnectedImpliesAuthenticated'
    OBVIOUS
  <1> USE ThreadsAssumption, ConnsAssumption DEF TypeOK, PCTypes,
     ClientTypes, NetTypes, Threads, SocketsFollowPC, NoLeakedSocket,
     AuthUnderWay, ConnectedImpliesAuthenticated
  <1>1. ASSUME NEW p \in Callers, Invoke(p) PROVE ConnectedImpliesAuthenticated'
    BY <1>1 DEF Invoke, clientVars, netVars
  <1>2. ASSUME NEW p \in Callers, LockCaller(p) PROVE ConnectedImpliesAuthenticated'
    BY <1>2 DEF LockCaller, netVars
  <1>3. ASSUME NEW r \in Reconnectors, LockReconnector(r) PROVE ConnectedImpliesAuthenticated'
    BY <1>3 DEF LockReconnector, netVars
  <1>4. ASSUME NEW t \in Threads, Dial(t) PROVE ConnectedImpliesAuthenticated'
    BY <1>4 DEF Dial, FreeConns, clientVars
  <1>5. ASSUME NEW t \in Threads, DialFail(t) PROVE ConnectedImpliesAuthenticated'
    BY <1>5, EnsureFailedEffect DEF DialFail, netVars
  <1>6. ASSUME NEW t \in Threads, AuthOk(t) PROVE ConnectedImpliesAuthenticated'
    BY <1>6 DEF AuthOk
  <1>7. ASSUME NEW t \in Threads, AuthFail(t) PROVE ConnectedImpliesAuthenticated'
    BY <1>7, EnsureFailedEffect DEF AuthFail, CloseSocket
  <1>8. ASSUME NEW p \in Callers, Write(p) PROVE ConnectedImpliesAuthenticated'
    BY <1>8 DEF Write
  <1>9. ASSUME NEW p \in Callers, WriteFail(p) PROVE ConnectedImpliesAuthenticated'
    BY <1>9, AttemptFailedEffect, GiveUpEffect DEF WriteFail
  <1>10. ASSUME NEW p \in Callers, ReadOk(p) PROVE ConnectedImpliesAuthenticated'
    BY <1>10 DEF ReadOk, Return
  <1>11. ASSUME NEW p \in Callers, ReadFail(p) PROVE ConnectedImpliesAuthenticated'
    BY <1>11, AttemptFailedEffect, GiveUpEffect DEF ReadFail
  <1>12. ASSUME NEW r \in Reconnectors, Wake(r) PROVE ConnectedImpliesAuthenticated'
    BY <1>12 DEF Wake, clientVars, netVars
  <1>13. ASSUME NEW r \in Reconnectors, ExitReconnector(r) PROVE ConnectedImpliesAuthenticated'
    BY <1>13 DEF ExitReconnector, netVars
  <1>14. ASSUME Close PROVE ConnectedImpliesAuthenticated'
    BY <1>14 DEF Close, CloseConn, CloseSocket, threadVars
  <1>15. ASSUME NEW p \in Callers, Expire(p) PROVE ConnectedImpliesAuthenticated'
    BY <1>15 DEF Expire, netVars
  <1>16. ASSUME NEW p \in Callers, Disconnect(p) PROVE ConnectedImpliesAuthenticated'
    BY <1>16 DEF Disconnect, clientVars, netVars
  <1>17. ASSUME StaleDeadline PROVE ConnectedImpliesAuthenticated'
    BY <1>17 DEF StaleDeadline, threadVars, netVars
  <1>18. ASSUME NEW c \in Conns, ServerAuth(c) PROVE ConnectedImpliesAuthenticated'
    BY <1>18 DEF ServerAuth, Reply, clientVars, threadVars
  <1>19. ASSUME NEW c \in Conns, ServerExec(c) PROVE ConnectedImpliesAuthenticated'
    BY <1>19 DEF ServerExec, Reply, clientVars, threadVars
  <1>20. ASSUME NEW c \in Conns, ServerEOF(c) PROVE ConnectedImpliesAuthenticated'
    BY <1>20 DEF ServerEOF, clientVars, threadVars
  <1>21. ASSUME NEW c \in Conns, ServerDrop(c) PROVE ConnectedImpliesAuthenticated'
    BY <1>21 DEF ServerDrop, clientVars, threadVars
  <1>22. ASSUME Reachable PROVE ConnectedImpliesAuthenticated'
    BY <1>22 DEF Reachable, clientVars, threadVars, netVars
  <1>23. ASSUME UNCHANGED vars PROVE ConnectedImpliesAuthenticated'
    BY <1>23 DEF vars, clientVars, threadVars, netVars
  <1> QED
    BY <1>1, <1>2, <1>3, <1>4, <1>5, <1>6, <1>7, <1>8, <1>9, <1>10, <1>11,
       <1>12, <1>13, <1>14, <1>15, <1>16, <1>17, <1>18, <1>19, <1>20, <1>21,
       <1>22, <1>23 DEF Next, CallerStep, ReconnectorStep, ServerStep,
       Threads

\* A call leaves nothing behind on a connection it keeps.
LEMMA QuietStep == TypeOK /\ LockCoversExchange /\ SocketsFollowPC /\ NoLeakedSocket /\ ClosedIsSilent /\ AuthUnderWay /\ CallUnderWay /\ QuietConnection /\ [Next]_vars => QuietConnection'
  <1> SUFFICES ASSUME TypeOK, LockCoversExchange, SocketsFollowPC, NoLeakedSocket, ClosedIsSilent, AuthUnderWay, CallUnderWay, QuietConnection, [Next]_vars PROVE QuietConnection'
    OBVIOUS
  <1> USE ThreadsAssumption, ConnsAssumption DEF TypeOK, PCTypes,
     ClientTypes, NetTypes, Threads, LockCoversExchange, SocketsFollowPC,
     NoLeakedSocket, ClosedIsSilent, AuthUnderWay, CallUnderWay,
     QuietConnection
  <1>1. ASSUME NEW p \in Callers, Invoke(p) PROVE QuietConnection'
    BY <1>1 DEF Invoke, clientVars, netVars
  <1>2. ASSUME NEW p \in Callers, LockCaller(p) PROVE QuietConnection'
    BY <1>2 DEF LockCaller, netVars
  <1>3. ASSUME NEW r \in Reconnectors, LockReconnector(r) PROVE QuietConnection'
    BY <1>3 DEF LockReconnector, netVars
  <1>4. ASSUME NEW t \in Threads, Dial(t) PROVE QuietConnection'
    BY <1>4 DEF Dial, FreeConns, clientVars
  <1>5. ASSUME NEW t \in Threads, DialFail(t) PROVE QuietConnection'
    BY <1>5, EnsureFailedEffect DEF DialFail, netVars
  <1>6. ASSUME NEW t \in Threads, AuthOk(t) PROVE QuietConnection'
    <2> DEFINE c == sock[t]
    <2>1. c \in Conns /\ Carries(inbound[c], outbound[c], AuthPacket) /\ outbound[c] # <<>>
      BY <1>6 DEF AuthOk
    <2>2. inbound[c] = <<>> /\ Tail(outbound[c]) = <<>>
      BY <2>1, CarriesOne
    <2>3. conn' = c /\ inbound' = inbound /\ outbound' = [outbound EXCEPT ![c] = Tail(@)]
      BY <1>6 DEF AuthOk
    <2> QED
      BY <2>1, <2>2, <2>3
  <1>7. ASSUME NEW t \in Threads, AuthFail(t) PROVE QuietConnection'
    BY <1>7, EnsureFailedEffect DEF AuthFail, CloseSocket
  <1>8. ASSUME NEW p \in Callers, Write(p) PROVE QuietConnection'
    BY <1>8 DEF Write
  <1>9. ASSUME NEW p \in Callers, WriteFail(p) PROVE QuietConnection'
    BY <1>9, AttemptFailedEffect, GiveUpEffect DEF WriteFail
  <1>10. ASSUME NEW p \in Callers, ReadOk(p) PROVE QuietConnection'
    <2>1. conn \in Conns /\ Carries(inbound[conn], outbound[conn], ExecPacket(Request(p))) /\ outbound[conn] # <<>>
      BY <1>10 DEF ReadOk
    <2>2. inbound[conn] = <<>> /\ Tail(outbound[conn]) = <<>>
      BY <2>1, CarriesOne
    <2>3. conn' = conn /\ inbound' = inbound /\ outbound' = [outbound EXCEPT ![conn] = Tail(@)]
      BY <1>10 DEF ReadOk
    <2> QED
      BY <2>1, <2>2, <2>3
  <1>11. ASSUME NEW p \in Callers, ReadFail(p) PROVE QuietConnection'
    BY <1>11, AttemptFailedEffect, GiveUpEffect DEF ReadFail
  <1>12. ASSUME NEW r \in Reconnectors, Wake(r) PROVE QuietConnection'
    BY <1>12 DEF Wake, clientVars, netVars
  <1>13. ASSUME NEW r \in Reconnectors, ExitReconnector(r) PROVE QuietConnection'
    BY <1>13 DEF ExitReconnector, netVars
  <1>14. ASSUME Close PROVE QuietConnection'
    BY <1>14 DEF Close, CloseConn, CloseSocket, threadVars
  <1>15. ASSUME NEW p \in Callers, Expire(p) PROVE QuietConnection'
    BY <1>15 DEF Expire, netVars
  <1>16. ASSUME NEW p \in Callers, Disconnect(p) PROVE QuietConnection'
    BY <1>16 DEF Disconnect, clientVars, netVars
  <1>17. ASSUME StaleDeadline PROVE QuietConnection'
    BY <1>17 DEF StaleDeadline, threadVars, netVars
  <1>18. ASSUME NEW c \in Conns, ServerAuth(c) PROVE QuietConnection'
    BY <1>18 DEF ServerAuth, Reply, clientVars, threadVars
  <1>19. ASSUME NEW c \in Conns, ServerExec(c) PROVE QuietConnection'
    BY <1>19 DEF ServerExec, Reply, clientVars, threadVars
  <1>20. ASSUME NEW c \in Conns, ServerEOF(c) PROVE QuietConnection'
    BY <1>20 DEF ServerEOF, clientVars, threadVars
  <1>21. ASSUME NEW c \in Conns, ServerDrop(c) PROVE QuietConnection'
    BY <1>21 DEF ServerDrop, clientVars, threadVars
  <1>22. ASSUME Reachable PROVE QuietConnection'
    BY <1>22 DEF Reachable, clientVars, threadVars, netVars
  <1>23. ASSUME UNCHANGED vars PROVE QuietConnection'
    BY <1>23 DEF vars, clientVars, threadVars, netVars
  <1> QED
    BY <1>1, <1>2, <1>3, <1>4, <1>5, <1>6, <1>7, <1>8, <1>9, <1>10, <1>11,
       <1>12, <1>13, <1>14, <1>15, <1>16, <1>17, <1>18, <1>19, <1>20, <1>21,
       <1>22, <1>23 DEF Next, CallerStep, ReconnectorStep, ServerStep,
       Threads

\* While a caller reads, only its own packet or reply is on the connection.
LEMMA CallUnderWayStep == TypeOK /\ LockCoversExchange /\ SocketsFollowPC /\ NoLeakedSocket /\ ClosedIsSilent /\ AuthUnderWay /\ CallUnderWay /\ QuietConnection /\ [Next]_vars => CallUnderWay'
  <1> SUFFICES ASSUME TypeOK, LockCoversExchange, SocketsFollowPC, NoLeakedSocket, ClosedIsSilent, AuthUnderWay, CallUnderWay, QuietConnection, [Next]_vars PROVE CallUnderWay'
    OBVIOUS
  <1> USE ThreadsAssumption, ConnsAssumption DEF TypeOK, PCTypes,
     ClientTypes, NetTypes, Threads, LockCoversExchange, SocketsFollowPC,
     NoLeakedSocket, ClosedIsSilent, CallUnderWay, QuietConnection, Request
  <1>1. ASSUME NEW p \in Callers, Invoke(p) PROVE CallUnderWay'
    <2>1. \A q \in Callers : pc'[q] = "read" => pc[q] = "read" /\ call'[q] = call[q]
      BY <1>1 DEF Invoke, CallTypes
    <2>2. conn' = conn /\ inbound' = inbound /\ outbound' = outbound
      BY <1>1 DEF Invoke, clientVars, netVars
    <2> QED
      BY <2>1, <2>2
  <1>2. ASSUME NEW p \in Callers, LockCaller(p) PROVE CallUnderWay'
    BY <1>2 DEF LockCaller, netVars
  <1>3. ASSUME NEW r \in Reconnectors, LockReconnector(r) PROVE CallUnderWay'
    BY <1>3 DEF LockReconnector, netVars
  <1>4. ASSUME NEW t \in Threads, Dial(t) PROVE CallUnderWay'
    BY <1>4 DEF Dial, FreeConns, clientVars
  <1>5. ASSUME NEW t \in Threads, DialFail(t) PROVE CallUnderWay'
    BY <1>5, EnsureFailedEffect DEF DialFail, netVars
  <1>6. ASSUME NEW t \in Threads, AuthOk(t) PROVE CallUnderWay'
    BY <1>6 DEF AuthOk
  <1>7. ASSUME NEW t \in Threads, AuthFail(t) PROVE CallUnderWay'
    BY <1>7, EnsureFailedEffect DEF AuthFail, CloseSocket
  <1>8. ASSUME NEW p \in Callers, Write(p) PROVE CallUnderWay'
    <2>1. conn \in Conns /\ inbound[conn] = <<>> /\ outbound[conn] = <<>>
      BY <1>8 DEF Write
    <2>2. inbound'[conn] \in {<<>>, <<ExecPacket(Request(p))>>}
      BY <1>8, <2>1 DEF Write
    <2>3. conn' = conn /\ outbound' = outbound /\ call' = call
      BY <1>8 DEF Write
    <2>4. \A q \in Callers : pc'[q] = "read" => q = p
      BY <1>8 DEF Write
    <2> QED
      BY <2>1, <2>2, <2>3, <2>4 DEF Carries
  <1>9. ASSUME NEW p \in Callers, WriteFail(p) PROVE CallUnderWay'
    <2>1. \A u \in Threads : pc'[u] \notin {"auth", "read"}
      BY <1>9, NobodyTalks
    <2> QED
      BY <2>1
  <1>10. ASSUME NEW p \in Callers, ReadOk(p) PROVE CallUnderWay'
    BY <1>10 DEF ReadOk, Return
  <1>11. ASSUME NEW p \in Callers, ReadFail(p) PROVE CallUnderWay'
    <2>1. \A u \in Threads : pc'[u] \notin {"auth", "read"}
      BY <1>11, NobodyTalks
    <2> QED
      BY <2>1
  <1>12. ASSUME NEW r \in Reconnectors, Wake(r) PROVE CallUnderWay'
    BY <1>12 DEF Wake, clientVars, netVars
  <1>13. ASSUME NEW r \in Reconnectors, ExitReconnector(r) PROVE CallUnderWay'
    BY <1>13 DEF ExitReconnector, netVars
  <1>14. ASSUME Close PROVE CallUnderWay'
    BY <1>14 DEF Close, CloseConn, CloseSocket, threadVars
  <1>15. ASSUME NEW p \in Callers, Expire(p) PROVE CallUnderWay'
    BY <1>15 DEF Expire, netVars
  <1>16. ASSUME NEW p \in Callers, Disconnect(p) PROVE CallUnderWay'
    BY <1>16 DEF Disconnect, clientVars, netVars
  <1>17. ASSUME StaleDeadline PROVE CallUnderWay'
    BY <1>17 DEF StaleDeadline, threadVars, netVars
  <1>18. ASSUME NEW c \in Conns, ServerAuth(c) PROVE CallUnderWay'
    <2>1. ASSUME NEW q \in Callers, pc'[q] = "read"
          PROVE  Carries(inbound'[conn'], outbound'[conn'], ExecPacket(Request(q))')
      <3>1. conn \in Conns /\ Carries(inbound[conn], outbound[conn], ExecPacket(Request(q)))
        BY <1>18, <2>1 DEF ServerAuth, clientVars, threadVars
      <3>2. conn' = conn /\ ExecPacket(Request(q))' = ExecPacket(Request(q))
        BY <1>18 DEF ServerAuth, clientVars, threadVars
      <3>3. inbound[c] # <<>> /\ \E a \in Answers : Reply(c, a)
        BY <1>18, InputsAssumption DEF ServerAuth
      <3> QED
        BY <3>1, <3>2, <3>3, ReplyCarries
    <2> QED
      BY <2>1
  <1>19. ASSUME NEW c \in Conns, ServerExec(c) PROVE CallUnderWay'
    <2>1. ASSUME NEW q \in Callers, pc'[q] = "read"
          PROVE  Carries(inbound'[conn'], outbound'[conn'], ExecPacket(Request(q))')
      <3>1. conn \in Conns /\ Carries(inbound[conn], outbound[conn], ExecPacket(Request(q)))
        BY <1>19, <2>1 DEF ServerExec, clientVars, threadVars
      <3>2. conn' = conn /\ ExecPacket(Request(q))' = ExecPacket(Request(q))
        BY <1>19 DEF ServerExec, clientVars, threadVars
      <3>3. inbound[c] # <<>> /\ \E a \in Answers : Reply(c, a)
        BY <1>19, InputsAssumption DEF ServerExec
      <3> QED
        BY <3>1, <3>2, <3>3, ReplyCarries
    <2> QED
      BY <2>1
  <1>20. ASSUME NEW c \in Conns, ServerEOF(c) PROVE CallUnderWay'
    BY <1>20 DEF ServerEOF, clientVars, threadVars
  <1>21. ASSUME NEW c \in Conns, ServerDrop(c) PROVE CallUnderWay'
    <2>1. ASSUME NEW q \in Callers, pc'[q] = "read"
          PROVE  Carries(inbound'[conn'], outbound'[conn'], ExecPacket(Request(q))')
      <3>1. conn \in Conns /\ Carries(inbound[conn], outbound[conn], ExecPacket(Request(q)))
        BY <1>21, <2>1 DEF ServerDrop, clientVars, threadVars
      <3>2. conn' = conn /\ ExecPacket(Request(q))' = ExecPacket(Request(q))
        BY <1>21 DEF ServerDrop, clientVars, threadVars
      <3> QED
        BY <1>21, <3>1, <3>2, DropCarries
    <2> QED
      BY <2>1
  <1>22. ASSUME Reachable PROVE CallUnderWay'
    BY <1>22 DEF Reachable, clientVars, threadVars, netVars
  <1>23. ASSUME UNCHANGED vars PROVE CallUnderWay'
    BY <1>23 DEF vars, clientVars, threadVars, netVars
  <1> QED
    BY <1>1, <1>2, <1>3, <1>4, <1>5, <1>6, <1>7, <1>8, <1>9, <1>10, <1>11,
       <1>12, <1>13, <1>14, <1>15, <1>16, <1>17, <1>18, <1>19, <1>20, <1>21,
       <1>22, <1>23 DEF Next, CallerStep, ReconnectorStep, ServerStep,
       Threads

\* While a thread authenticates, only the password or its answer is on the socket.
LEMMA AuthUnderWayStep == TypeOK /\ LockCoversExchange /\ SocketsFollowPC /\ NoLeakedSocket /\ ClosedIsSilent /\ AuthUnderWay /\ CallUnderWay /\ QuietConnection /\ [Next]_vars => AuthUnderWay'
  <1> SUFFICES ASSUME TypeOK, LockCoversExchange, SocketsFollowPC, NoLeakedSocket, ClosedIsSilent, AuthUnderWay, CallUnderWay, QuietConnection, [Next]_vars PROVE AuthUnderWay'
    OBVIOUS
  <1> USE ThreadsAssumption, ConnsAssumption DEF TypeOK, PCTypes,
     ClientTypes, NetTypes, Threads, LockCoversExchange, SocketsFollowPC,
     NoLeakedSocket, ClosedIsSilent, AuthUnderWay
  <1>1. ASSUME NEW p \in Callers, Invoke(p) PROVE AuthUnderWay'
    BY <1>1 DEF Invoke, clientVars, netVars
  <1>2. ASSUME NEW p \in Callers, LockCaller(p) PROVE AuthUnderWay'
    BY <1>2 DEF LockCaller, netVars
  <1>3. ASSUME NEW r \in Reconnectors, LockReconnector(r) PROVE AuthUnderWay'
    BY <1>3 DEF LockReconnector, netVars
  <1>4. ASSUME NEW t \in Threads, Dial(t) PROVE AuthUnderWay'
    <2>1. PICK c \in FreeConns :
            /\ sock' = [sock EXCEPT ![t] = c]
            /\ inbound' = [inbound EXCEPT ![c] = <<AuthPacket>>]
      BY <1>4 DEF Dial
    <2>2. outbound' = outbound /\ outbound[c] = <<>> /\ inbound'[c] = <<AuthPacket>>
      BY <1>4, <2>1 DEF Dial, FreeConns
    <2>3. \A u \in Threads : pc'[u] = "auth" => u = t
      BY <1>4 DEF Dial, clientVars
    <2> QED
      BY <2>1, <2>2, <2>3 DEF Carries
  <1>5. ASSUME NEW t \in Threads, DialFail(t) PROVE AuthUnderWay'
    BY <1>5, EnsureFailedEffect DEF DialFail, netVars
  <1>6. ASSUME NEW t \in Threads, AuthOk(t) PROVE AuthUnderWay'
    BY <1>6 DEF AuthOk
  <1>7. ASSUME NEW t \in Threads, AuthFail(t) PROVE AuthUnderWay'
    BY <1>7, EnsureFailedEffect DEF AuthFail, CloseSocket
  <1>8. ASSUME NEW p \in Callers, Write(p) PROVE AuthUnderWay'
    BY <1>8 DEF Write
  <1>9. ASSUME NEW p \in Callers, WriteFail(p) PROVE AuthUnderWay'
    <2>1. \A u \in Threads : pc'[u] \notin {"auth", "read"}
      BY <1>9, NobodyTalks
    <2> QED
      BY <2>1
  <1>10. ASSUME NEW p \in Callers, ReadOk(p) PROVE AuthUnderWay'
    BY <1>10 DEF ReadOk, Return
  <1>11. ASSUME NEW p \in Callers, ReadFail(p) PROVE AuthUnderWay'
    <2>1. \A u \in Threads : pc'[u] \notin {"auth", "read"}
      BY <1>11, NobodyTalks
    <2> QED
      BY <2>1
  <1>12. ASSUME NEW r \in Reconnectors, Wake(r) PROVE AuthUnderWay'
    BY <1>12 DEF Wake, clientVars, netVars
  <1>13. ASSUME NEW r \in Reconnectors, ExitReconnector(r) PROVE AuthUnderWay'
    BY <1>13 DEF ExitReconnector, netVars
  <1>14. ASSUME Close PROVE AuthUnderWay'
    BY <1>14 DEF Close, CloseConn, CloseSocket, threadVars
  <1>15. ASSUME NEW p \in Callers, Expire(p) PROVE AuthUnderWay'
    BY <1>15 DEF Expire, netVars
  <1>16. ASSUME NEW p \in Callers, Disconnect(p) PROVE AuthUnderWay'
    BY <1>16 DEF Disconnect, clientVars, netVars
  <1>17. ASSUME StaleDeadline PROVE AuthUnderWay'
    BY <1>17 DEF StaleDeadline, threadVars, netVars
  <1>18. ASSUME NEW c \in Conns, ServerAuth(c) PROVE AuthUnderWay'
    <2>1. ASSUME NEW t \in Threads, pc'[t] = "auth"
          PROVE  /\ Carries(inbound'[sock'[t]], outbound'[sock'[t]], AuthPacket)
                 /\ outbound'[sock'[t]] # <<>> /\ Accepted(Head(outbound'[sock'[t]]))
                      => srv'[sock'[t]] # "fresh"
      <3>1. /\ sock[t] \in Conns /\ sock' = sock
            /\ Carries(inbound[sock[t]], outbound[sock[t]], AuthPacket)
            /\ outbound[sock[t]] # <<>> /\ Accepted(Head(outbound[sock[t]]))
                 => srv[sock[t]] # "fresh"
        BY <1>18, <2>1 DEF ServerAuth, threadVars
      <3>2. PICK a \in Answers :
              /\ Reply(c, a)
              /\ srv' = IF a = "ok" THEN [srv EXCEPT ![c] = "authed"] ELSE srv
        BY <1>18, InputsAssumption DEF ServerAuth
      <3>3. inbound[c] # <<>>
        BY <1>18 DEF ServerAuth
      <3>4. Carries(inbound'[sock[t]], outbound'[sock[t]], AuthPacket)
        BY <3>1, <3>2, <3>3, ReplyCarries
      <3>5. CASE sock[t] # c
        BY <3>1, <3>2, <3>4, <3>5 DEF Reply
      <3>6. CASE sock[t] = c
        <4>1. outbound[c] = <<>>
          BY <3>1, <3>3, <3>6 DEF Carries
        <4>2. outbound'[c] # <<>> => Head(outbound'[c]).status = a
          BY <3>2, <4>1 DEF Reply
        <4> QED
          BY <3>1, <3>2, <3>4, <3>6, <4>2 DEF Accepted
      <3> QED
        BY <3>5, <3>6
    <2> QED
      BY <2>1
  <1>19. ASSUME NEW c \in Conns, ServerExec(c) PROVE AuthUnderWay'
    <2>1. ASSUME NEW t \in Threads, pc'[t] = "auth"
          PROVE  /\ Carries(inbound'[sock'[t]], outbound'[sock'[t]], AuthPacket)
                 /\ outbound'[sock'[t]] # <<>> /\ Accepted(Head(outbound'[sock'[t]]))
                      => srv'[sock'[t]] # "fresh"
      <3>1. /\ sock[t] \in Conns /\ sock' = sock
            /\ Carries(inbound[sock[t]], outbound[sock[t]], AuthPacket)
            /\ outbound[sock[t]] # <<>> /\ Accepted(Head(outbound[sock[t]]))
                 => srv[sock[t]] # "fresh"
        BY <1>19, <2>1 DEF ServerExec, threadVars
      <3>2. inbound[c] # <<>> /\ \E a \in Answers : Reply(c, a)
        BY <1>19, InputsAssumption DEF ServerExec
      <3>3. Carries(inbound'[sock[t]], outbound'[sock[t]], AuthPacket)
        BY <3>1, <3>2, ReplyCarries
      <3>4. sock[t] # c
        BY <1>19, <3>1 DEF ServerExec, Carries, AuthPacket
      <3> QED
        BY <1>19, <3>1, <3>3, <3>4 DEF ServerExec, Reply
    <2> QED
      BY <2>1
  <1>20. ASSUME NEW c \in Conns, ServerEOF(c) PROVE AuthUnderWay'
    BY <1>20 DEF ServerEOF, clientVars, threadVars
  <1>21. ASSUME NEW c \in Conns, ServerDrop(c) PROVE AuthUnderWay'
    <2>1. ASSUME NEW t \in Threads, pc'[t] = "auth"
          PROVE  /\ Carries(inbound'[sock'[t]], outbound'[sock'[t]], AuthPacket)
                 /\ outbound'[sock'[t]] # <<>> /\ Accepted(Head(outbound'[sock'[t]]))
                      => srv'[sock'[t]] # "fresh"
      <3>1. /\ sock[t] \in Conns /\ sock' = sock
            /\ Carries(inbound[sock[t]], outbound[sock[t]], AuthPacket)
            /\ outbound[sock[t]] # <<>> /\ Accepted(Head(outbound[sock[t]]))
                 => srv[sock[t]] # "fresh"
        BY <1>21, <2>1 DEF ServerDrop, threadVars
      <3>2. /\ Carries(inbound'[sock[t]], outbound'[sock[t]], AuthPacket)
            /\ outbound'[sock[t]] \in {outbound[sock[t]], <<>>}
        BY <1>21, <3>1, DropCarries
      <3>3. srv'[sock[t]] \in {srv[sock[t]], "gone"}
        BY <1>21, <3>1 DEF ServerDrop
      <3> QED
        BY <3>1, <3>2, <3>3
    <2> QED
      BY <2>1
  <1>22. ASSUME Reachable PROVE AuthUnderWay'
    BY <1>22 DEF Reachable, clientVars, threadVars, netVars
  <1>23. ASSUME UNCHANGED vars PROVE AuthUnderWay'
    BY <1>23 DEF vars, clientVars, threadVars, netVars
  <1> QED
    BY <1>1, <1>2, <1>3, <1>4, <1>5, <1>6, <1>7, <1>8, <1>9, <1>10, <1>11,
       <1>12, <1>13, <1>14, <1>15, <1>16, <1>17, <1>18, <1>19, <1>20, <1>21,
       <1>22, <1>23 DEF Next, CallerStep, ReconnectorStep, ServerStep,
       Threads

-----------------------------------------------------------------------------
(* The inductive invariant and what follows from it. *)

\* No connection, no holder, no goroutine, no packet.
LEMMA IInvInit == Init => IInv
  <1> SUFFICES ASSUME Init PROVE IInv
    OBVIOUS
  <1> USE ThreadsAssumption DEF Init, Threads
  <1>1. LockCoversExchange /\ OneReconnector
    BY DEF LockCoversExchange, OneReconnector
  <1>2. NoLeakedSocket /\ SocketsFollowPC
    BY DEF NoLeakedSocket, SocketsFollowPC
  <1>3. AuthUnderWay /\ CallUnderWay /\ QuietConnection
    BY DEF AuthUnderWay, CallUnderWay, QuietConnection
  <1>4. ClosedIsSilent /\ ConnectedImpliesAuthenticated
    BY DEF ClosedIsSilent, ConnectedImpliesAuthenticated
  <1> QED
    BY <1>1, <1>2, <1>3, <1>4 DEF IInv

\* Every step keeps it, each part from the parts it depends on.
LEMMA IInvStep == TypeOK /\ IInv /\ [Next]_vars => IInv'
  BY LockStep, OneReconnectorStep, SocketsStep, NoLeakStep, SilentStep,
     AuthenticatedStep, QuietStep, CallUnderWayStep, AuthUnderWayStep DEF IInv

\* The state of the client, of its threads and of the packets under way fit
\* together in every reachable state (client.go:44-185).
THEOREM InvariantHolds == Spec => [](TypeOK /\ IInv)
  <1>1. Init => TypeOK /\ IInv
    BY TypeInit, IInvInit
  <1>2. TypeOK /\ IInv /\ [Next]_vars => (TypeOK /\ IInv)'
    BY TypeStep, IInvStep
  <1> QED
    BY <1>1, <1>2, PTL DEF Spec

\* The mutex is held exactly during an exchange with the server, so two threads
\* never use the connection at once and none leaves with the lock.
THEOREM ExchangeIsExclusive == Spec => []LockCoversExchange
  <1>1. TypeOK /\ IInv => LockCoversExchange
    BY DEF IInv
  <1> QED
    BY <1>1, InvariantHolds, PTL

\* The Swap guard and the deferred Store keep background goroutines to one.
THEOREM ReconnectorIsSingle == Spec => []OneReconnector
  <1>1. TypeOK /\ IInv => OneReconnector
    BY DEF IInv
  <1> QED
    BY <1>1, InvariantHolds, PTL

\* No path through ensureConnected, Send and Close loses an open socket.
THEOREM SocketsAreAccountedFor == Spec => []NoLeakedSocket
  <1>1. TypeOK /\ IInv => NoLeakedSocket
    BY DEF IInv
  <1> QED
    BY <1>1, InvariantHolds, PTL

\* rc.conn is never a connection whose password has not been accepted.
THEOREM ConnectionIsAuthenticated == Spec => []ConnectedImpliesAuthenticated
  <1>1. TypeOK /\ IInv => ConnectedImpliesAuthenticated
    BY DEF IInv
  <1> QED
    BY <1>1, InvariantHolds, PTL

\* Nothing is under way between two calls on the connection they share.
THEOREM ConnectionIsQuiet == Spec => []QuietConnection
  <1>1. TypeOK /\ IInv => QuietConnection
    BY DEF IInv
  <1> QED
    BY <1>1, InvariantHolds, PTL

\* A caller is never given the reply to another command, though ids are not
\* compared: what a failed exchange left behind goes with its connection.
THEOREM RepliesMatch == Spec => []ReplyMatchesRequest
  <1>1. TypeOK /\ IInv => ReplyMatchesRequest
    <2> SUFFICES ASSUME TypeOK, IInv, NEW p \in Callers,
                        pc[p] = "read", outbound[conn] # <<>>
                 PROVE  Head(outbound[conn]).to = ExecPacket(Request(p))
      BY DEF ReplyMatchesRequest
    <2>1. Carries(inbound[conn], outbound[conn], ExecPacket(Request(p)))
      BY DEF IInv, CallUnderWay
    <2> QED
      BY <2>1, CarriesOne
  <1> QED
    BY <1>1, InvariantHolds, PTL
=============================================================================

------------------------- MODULE RconServiceProofs --------------------------
(***************************************************************************)
(* RconClient implements CommandService, for any sets of callers,          *)
(* background identities and connections and any number of calls.  IInv    *)
(* says what is on the connection in use; the refinement also needs to     *)
(* know what is left on connections that the client has closed, since the  *)
(* server reads on: ServiceInv.                                            *)
(***************************************************************************)
EXTENDS RconClientProofs, FiniteSetTheorems

-----------------------------------------------------------------------------
(* How often a request can have been written. *)

\* Two requests have the same packet only if they are the same (client.go:124-133).
LEMMA PacketsDiffer ==
  /\ \A q, r \in Requests : ExecPacket(q) = ExecPacket(r) => q = r
  /\ \A r \in Requests : ExecPacket(r) # AuthPacket
  /\ \A r \in Requests : <<ExecPacket(r).by, ExecPacket(r).call>> = r
  BY DEF Requests, ExecPacket, AuthPacket

\* The ways out of a call count as two writings, but for the one that is an error at
\* the first connection (client.go:94-113).
LEMMA LastWritesRange ==
  ASSUME TypeOK
  PROVE  \A p \in Callers : LastWrites(p) \in 0..2
  BY DEF TypeOK, CallTypes, LastWrites

LEMMA WritesRange ==
  ASSUME TypeOK
  PROVE  \A r \in Requests : Writes(r) \in 0..2
  BY LastWritesRange DEF Writes, Requests, TypeOK, CallTypes

\* The writings of a call never become fewer; a new call begins with none.
Grow ==
    \A p \in Callers :
        \/ call'[p] = call[p] /\ LastWrites(p)' >= LastWrites(p)
        \/ call'[p] = call[p] + 1 /\ LastWrites(p)' = 0

\* A caller that gives up has written twice at most; the others stay where they are.
LEMMA GiveUpGrows ==
  ASSUME TypeOK, NEW p \in Callers, GiveUp(p), attempt' = attempt, call' = call
  PROVE  Grow
  <1>1. \A q \in Callers \ {p} : pc'[q] = pc[q] /\ result'[q] = result[q]
    BY GiveUpEffect, ThreadsAssumption DEF GiveUp, Return, TypeOK, CallTypes, PCTypes, Threads
  <1>2. pc'[p] = "idle" /\ result'[p] = "gaveUp"
    BY GiveUpEffect DEF GiveUp, Return, TypeOK, CallTypes
  <1> QED
    BY <1>1, <1>2, LastWritesRange DEF Grow, LastWrites, TypeOK, CallTypes

\* A failed ensureConnected is an error only before the first writing.
LEMMA EnsureFailedGrows ==
  ASSUME TypeOK, NEW t \in Threads, EnsureFailed(t), pc[t] \in {"dial", "auth"},
         attempt' = attempt, call' = call
  PROVE  Grow
  <1>1. CASE t \in Reconnectors
    BY <1>1, ThreadsAssumption DEF EnsureFailed, Grow, LastWrites, TypeOK, CallTypes, PCTypes,
                                   Threads
  <1>2. CASE t \in Callers /\ attempt[t] = 1
    BY <1>2, ThreadsAssumption DEF EnsureFailed, Return, Grow, LastWrites, TypeOK, CallTypes,
                                   PCTypes, Threads
  <1>3. CASE t \in Callers /\ attempt[t] = 2
    BY <1>3, GiveUpGrows, ThreadsAssumption DEF EnsureFailed
  <1> QED
    BY <1>1, <1>2, <1>3 DEF EnsureFailed

\* A failed sendPacket gives one more chance after the first.
LEMMA AttemptFailedGrows ==
  ASSUME TypeOK, NEW p \in Callers, AttemptFailed(p), pc[p] \in {"write", "read"}
  PROVE  Grow
  <1>1. CASE attempt[p] = 1
    BY <1>1 DEF AttemptFailed, Grow, LastWrites, TypeOK, CallTypes, PCTypes, Threads
  <1>2. CASE attempt[p] = 2
    BY <1>2, GiveUpGrows DEF AttemptFailed
  <1> QED
    BY <1>1, <1>2 DEF TypeOK, CallTypes

\* Every step (client.go:90-117).
LEMMA GrowStep == TypeOK /\ [Next]_vars => Grow
  <1> SUFFICES ASSUME TypeOK, [Next]_vars PROVE Grow
    OBVIOUS
  <1> USE ThreadsAssumption DEF TypeOK, PCTypes, CallTypes, Threads, CallerPCs, ReconnectorPCs,
          Grow, LastWrites
  <1>1. ASSUME NEW p \in Callers, Invoke(p) PROVE Grow
    BY <1>1 DEF Invoke
  <1>2. ASSUME NEW p \in Callers, LockCaller(p) PROVE Grow
    BY <1>2 DEF LockCaller
  <1>3. ASSUME NEW r \in Reconnectors, LockReconnector(r) PROVE Grow
    BY <1>3 DEF LockReconnector
  <1>4. ASSUME NEW t \in Threads, Dial(t) PROVE Grow
    BY <1>4 DEF Dial
  <1>5. ASSUME NEW t \in Threads, DialFail(t) PROVE Grow
    BY <1>5, EnsureFailedGrows DEF DialFail
  <1>6. ASSUME NEW t \in Threads, AuthOk(t) PROVE Grow
    BY <1>6 DEF AuthOk
  <1>7. ASSUME NEW t \in Threads, AuthFail(t) PROVE Grow
    BY <1>7, EnsureFailedGrows DEF AuthFail
  <1>8. ASSUME NEW p \in Callers, Write(p) PROVE Grow
    BY <1>8 DEF Write
  <1>9. ASSUME NEW p \in Callers, WriteFail(p) PROVE Grow
    BY <1>9, AttemptFailedGrows DEF WriteFail
  <1>10. ASSUME NEW p \in Callers, ReadOk(p) PROVE Grow
    BY <1>10 DEF ReadOk, Return
  <1>11. ASSUME NEW p \in Callers, ReadFail(p) PROVE Grow
    BY <1>11, AttemptFailedGrows DEF ReadFail
  <1>12. ASSUME NEW r \in Reconnectors, Wake(r) PROVE Grow
    BY <1>12 DEF Wake
  <1>13. ASSUME NEW r \in Reconnectors, ExitReconnector(r) PROVE Grow
    BY <1>13 DEF ExitReconnector
  <1>14. ASSUME Close PROVE Grow
    BY <1>14 DEF Close, threadVars
  <1>15. ASSUME NEW p \in Callers, Expire(p) PROVE Grow
    BY <1>15 DEF Expire
  <1>16. ASSUME NEW p \in Callers, Disconnect(p) PROVE Grow
    BY <1>16 DEF Disconnect
  <1>17. ASSUME StaleDeadline PROVE Grow
    BY <1>17 DEF StaleDeadline, threadVars
  <1>18. ASSUME NEW c \in Conns, ServerAuth(c) PROVE Grow
    BY <1>18 DEF ServerAuth, threadVars
  <1>19. ASSUME NEW c \in Conns, ServerExec(c) PROVE Grow
    BY <1>19 DEF ServerExec, threadVars
  <1>20. ASSUME NEW c \in Conns, ServerEOF(c) PROVE Grow
    BY <1>20 DEF ServerEOF, threadVars
  <1>21. ASSUME NEW c \in Conns, ServerDrop(c) PROVE Grow
    BY <1>21 DEF ServerDrop, threadVars
  <1>22. ASSUME Reachable PROVE Grow
    BY <1>22 DEF Reachable, threadVars
  <1>23. ASSUME UNCHANGED vars PROVE Grow
    BY <1>23 DEF vars, threadVars
  <1> QED
    BY <1>1, <1>2, <1>3, <1>4, <1>5, <1>6, <1>7, <1>8, <1>9, <1>10, <1>11, <1>12,
       <1>13, <1>14, <1>15, <1>16, <1>17, <1>18, <1>19, <1>20, <1>21, <1>22, <1>23
       DEF Next, CallerStep, ReconnectorStep, ServerStep

\* What was written stays written.
LEMMA WritesGrow ==
  ASSUME TypeOK, TypeOK', Grow
  PROVE  \A r \in Requests : Writes(r)' >= Writes(r)
  <1> SUFFICES ASSUME NEW r \in Requests PROVE Writes(r)' >= Writes(r)
    OBVIOUS
  <1>1. r[1] \in Callers /\ r[2] \in Nat /\ call[r[1]] \in Nat /\ call'[r[1]] \in Nat
    BY InputsAssumption DEF Requests, TypeOK, CallTypes
  <1>2. LastWrites(r[1]) \in 0..2 /\ LastWrites(r[1])' \in 0..2
    BY <1>1 DEF LastWrites, TypeOK, CallTypes
  <1> QED
    BY <1>1, <1>2 DEF Grow, Writes

\* Nobody writes while another reads, so that a writer finds the connection empty
\* (client.go:91, 101).
LEMMA WriteIsFirst ==
  ASSUME TypeOK, IInv, NEW p \in Callers, Write(p)
  PROVE  conn \in Conns /\ inbound[conn] = <<>> /\ outbound[conn] = <<>> /\ Request(p) \in Requests
  <1>1. conn \in Conns
    BY DEF Write, IInv, SocketsFollowPC, Threads, TypeOK, ClientTypes
  <1>2. \A q \in Callers : pc[q] # "read"
    BY ThreadsAssumption DEF Write, IInv, LockCoversExchange, Threads
  <1>3. Request(p) \in Requests
    BY InputsAssumption DEF Write, Request, Requests, TypeOK, CallsNumbered, CallTypes
  <1> QED
    BY <1>1, <1>2, <1>3, ConnsAssumption DEF IInv, QuietConnection

-----------------------------------------------------------------------------
(* Where packets are. *)

LEMMA OnePacketSequences ==
  \A pkt : /\ Append(<<>>, pkt) = <<pkt>> /\ <<pkt>> # <<>>
           /\ Head(<<pkt>>) = pkt /\ Tail(<<pkt>>) = <<>>
  OBVIOUS

\* Packets are written, executed, or lost; nothing else happens to them.
Loses == executions' = executions /\ \A c \in Conns : inbound'[c] \in {inbound[c], <<>>, <<AuthPacket>>}

Brings(p) ==
    /\ Write(p)
    /\ inbound' = [inbound EXCEPT ![conn] = <<ExecPacket(Request(p))>>]

Executes(c, r) ==
    /\ ServerExec(c)
    /\ inbound[c] = <<ExecPacket(r)>>
    /\ inbound' = [inbound EXCEPT ![c] = <<>>]
    /\ executions' = [executions EXCEPT ![r] = @ + 1]

PacketsMove ==
    \/ Loses
    \/ \E p \in Callers : Brings(p)
    \/ \E c \in Conns, r \in Requests : Executes(c, r)

\* Every step does one of these (client.go:120-146).
LEMMA PacketsStep == TypeOK /\ IInv /\ OnePacket /\ [Next]_vars => PacketsMove
  <1> SUFFICES ASSUME TypeOK, IInv, OnePacket, [Next]_vars PROVE PacketsMove
    OBVIOUS
  <1> USE DEF TypeOK, NetTypes, PacketsMove
  <1>1. ASSUME NEW p \in Callers, Invoke(p) PROVE PacketsMove
    BY <1>1 DEF Invoke, netVars, Loses
  <1>2. ASSUME NEW p \in Callers, LockCaller(p) PROVE PacketsMove
    BY <1>2 DEF LockCaller, netVars, Loses
  <1>3. ASSUME NEW r \in Reconnectors, LockReconnector(r) PROVE PacketsMove
    BY <1>3 DEF LockReconnector, netVars, Loses
  <1>4. ASSUME NEW t \in Threads, Dial(t) PROVE PacketsMove
    BY <1>4 DEF Dial, Loses
  <1>5. ASSUME NEW t \in Threads, DialFail(t) PROVE PacketsMove
    BY <1>5 DEF DialFail, netVars, Loses
  <1>6. ASSUME NEW t \in Threads, AuthOk(t) PROVE PacketsMove
    BY <1>6 DEF AuthOk, Loses
  <1>7. ASSUME NEW t \in Threads, AuthFail(t) PROVE PacketsMove
    BY <1>7 DEF AuthFail, CloseSocket, Loses
  <1>8. ASSUME NEW p \in Callers, Write(p) PROVE PacketsMove
    <2>1. CASE srv[conn] = "gone"
      BY <1>8, <2>1 DEF Write, Loses
    <2>2. CASE srv[conn] # "gone"
      <3>1. inbound' = [inbound EXCEPT ![conn] = <<ExecPacket(Request(p))>>]
        BY <1>8, <2>2, WriteIsFirst, OnePacketSequences DEF Write
      <3> QED
        BY <1>8, <3>1 DEF Brings
    <2> QED
      BY <2>1, <2>2
  <1>9. ASSUME NEW p \in Callers, WriteFail(p) PROVE PacketsMove
    BY <1>9 DEF WriteFail, AttemptFailed, CloseConn, CloseSocket, Loses
  <1>10. ASSUME NEW p \in Callers, ReadOk(p) PROVE PacketsMove
    BY <1>10 DEF ReadOk, Loses
  <1>11. ASSUME NEW p \in Callers, ReadFail(p) PROVE PacketsMove
    BY <1>11 DEF ReadFail, AttemptFailed, CloseConn, CloseSocket, Loses
  <1>12. ASSUME NEW r \in Reconnectors, Wake(r) PROVE PacketsMove
    BY <1>12 DEF Wake, netVars, Loses
  <1>13. ASSUME NEW r \in Reconnectors, ExitReconnector(r) PROVE PacketsMove
    BY <1>13 DEF ExitReconnector, netVars, Loses
  <1>14. ASSUME Close PROVE PacketsMove
    BY <1>14 DEF Close, CloseConn, CloseSocket, Loses
  <1>15. ASSUME NEW p \in Callers, Expire(p) PROVE PacketsMove
    BY <1>15 DEF Expire, netVars, Loses
  <1>16. ASSUME NEW p \in Callers, Disconnect(p) PROVE PacketsMove
    BY <1>16 DEF Disconnect, netVars, Loses
  <1>17. ASSUME StaleDeadline PROVE PacketsMove
    BY <1>17 DEF StaleDeadline, netVars, Loses
  <1>18. ASSUME NEW c \in Conns, ServerAuth(c) PROVE PacketsMove
    <2>1. inbound' = [inbound EXCEPT ![c] = Tail(@)] /\ executions' = executions
      BY <1>18 DEF ServerAuth, Reply
    <2>2. Tail(inbound[c]) = <<>>
      BY <1>18, OnePacketSequences DEF ServerAuth, OnePacket
    <2> QED
      BY <2>1, <2>2 DEF Loses
  <1>19. ASSUME NEW c \in Conns, ServerExec(c) PROVE PacketsMove
    <2>1. inbound' = [inbound EXCEPT ![c] = Tail(@)] /\ inbound[c] # <<>>
      BY <1>19 DEF ServerExec, Reply
    <2>2. PICK pkt \in Packets : inbound[c] = <<pkt>>
      BY <2>1 DEF OnePacket
    <2>3. pkt.type = "exec" /\ Head(inbound[c]) = pkt
      BY <1>19, <2>2, OnePacketSequences DEF ServerExec
    <2>4. PICK r \in Requests : pkt = ExecPacket(r)
      BY <2>3 DEF Packets, AuthPacket
    <2>5. inbound' = [inbound EXCEPT ![c] = <<>>]
      BY <2>1, <2>2, OnePacketSequences
    <2>6. CASE srv[c] = "authed"
      <3>1. executions' = [executions EXCEPT ![r] = @ + 1]
        BY <1>19, <2>3, <2>4, <2>6, PacketsDiffer DEF ServerExec
      <3> QED
        BY <1>19, <2>2, <2>4, <2>5, <3>1 DEF Executes
    <2>7. CASE srv[c] # "authed"
      BY <1>19, <2>5, <2>7 DEF ServerExec, Loses
    <2> QED
      BY <2>6, <2>7
  <1>20. ASSUME NEW c \in Conns, ServerEOF(c) PROVE PacketsMove
    BY <1>20 DEF ServerEOF, Loses
  <1>21. ASSUME NEW c \in Conns, ServerDrop(c) PROVE PacketsMove
    BY <1>21 DEF ServerDrop, Loses
  <1>22. ASSUME Reachable PROVE PacketsMove
    BY <1>22 DEF Reachable, netVars, Loses
  <1>23. ASSUME UNCHANGED vars PROVE PacketsMove
    BY <1>23 DEF vars, netVars, Loses
  <1> QED
    BY <1>1, <1>2, <1>3, <1>4, <1>5, <1>6, <1>7, <1>8, <1>9, <1>10, <1>11, <1>12,
       <1>13, <1>14, <1>15, <1>16, <1>17, <1>18, <1>19, <1>20, <1>21, <1>22, <1>23
       DEF Next, CallerStep, ReconnectorStep, ServerStep, Threads

-----------------------------------------------------------------------------
(* ServiceInv. *)

\* Each connection carries one packet at a time (client.go:69-79, 124-142).
LEMMA OnePacketStep == TypeOK /\ IInv /\ OnePacket /\ [Next]_vars => OnePacket'
  <1> SUFFICES ASSUME TypeOK, IInv, OnePacket, [Next]_vars PROVE OnePacket'
    OBVIOUS
  <1> USE DEF OnePacket
  <1>1. CASE Loses
    BY <1>1 DEF Loses, Packets
  <1>2. ASSUME NEW p \in Callers, Brings(p) PROVE OnePacket'
    BY <1>2, WriteIsFirst DEF Brings, Packets, TypeOK, NetTypes
  <1>3. ASSUME NEW c \in Conns, NEW r \in Requests, Executes(c, r) PROVE OnePacket'
    BY <1>3 DEF Executes, TypeOK, NetTypes
  <1> QED
    BY <1>1, <1>2, <1>3, PacketsStep DEF PacketsMove

\* Losing packets takes connections away, and a writing can grow.
LEMMA FewerCarriers ==
  ASSUME TypeOK, TypeOK', ExecutionsWereWritten, Grow, NEW r \in Requests,
         executions'[r] = executions[r], Carriers(r)' \subseteq Carriers(r)
  PROVE  IsFiniteSet(Carriers(r)') /\ executions'[r] + Cardinality(Carriers(r)') <= Writes(r)'
  <1>1. IsFiniteSet(Carriers(r)) /\ executions[r] + Cardinality(Carriers(r)) <= Writes(r)
    BY DEF ExecutionsWereWritten
  <1>2. IsFiniteSet(Carriers(r)') /\ Cardinality(Carriers(r)') <= Cardinality(Carriers(r))
    BY <1>1, FS_Subset
  <1>3. Cardinality(Carriers(r)) \in Nat /\ Cardinality(Carriers(r)') \in Nat
    BY <1>1, <1>2, FS_CardinalityType
  <1>4. Writes(r)' >= Writes(r) /\ Writes(r) \in Nat /\ Writes(r)' \in Nat
    BY WritesGrow, WritesRange DEF Writes, LastWrites, TypeOK, CallTypes, Requests
  <1>5. executions[r] \in Nat
    BY DEF TypeOK, NetTypes
  <1> QED
    BY <1>1, <1>2, <1>3, <1>4, <1>5

\* Every execution uses up a packet, and every packet was a writing (client.go:90-117).
LEMMA ExecutionsStep ==
  TypeOK /\ TypeOK' /\ IInv /\ OnePacket /\ ExecutionsWereWritten /\ [Next]_vars => ExecutionsWereWritten'
  <1> SUFFICES ASSUME TypeOK, TypeOK', IInv, OnePacket, ExecutionsWereWritten, [Next]_vars,
                      NEW r \in Requests
               PROVE  /\ IsFiniteSet(Carriers(r)')
                      /\ executions'[r] + Cardinality(Carriers(r)') <= Writes(r)'
    BY DEF ExecutionsWereWritten
  <1>1. Grow
    BY GrowStep
  <1>2. CASE Loses
    <2>1. Carriers(r)' \subseteq Carriers(r)
      BY <1>2, PacketsDiffer DEF Loses, Carriers
    <2> QED
      BY <1>1, <1>2, <2>1, FewerCarriers DEF Loses
  <1>3. ASSUME NEW p \in Callers, Brings(p)
        PROVE  /\ IsFiniteSet(Carriers(r)')
               /\ executions'[r] + Cardinality(Carriers(r)') <= Writes(r)'
    <2>1. inbound' = [inbound EXCEPT ![conn] = <<ExecPacket(Request(p))>>] /\ executions' = executions
      BY <1>3 DEF Brings, Write
    <2>2. conn \in Conns /\ inbound[conn] = <<>> /\ Request(p) \in Requests
      BY <1>3, WriteIsFirst DEF Brings
    <2>3. CASE r # Request(p)
      <3>1. <<ExecPacket(Request(p))>> # <<ExecPacket(r)>>
        BY <2>2, <2>3, PacketsDiffer, OnePacketSequences
      <3>2. Carriers(r)' \subseteq Carriers(r)
        BY <2>1, <2>2, <3>1 DEF Carriers, TypeOK, NetTypes
      <3> QED
        BY <1>1, <2>1, <3>2, FewerCarriers
    <2>4. CASE r = Request(p)
      <3>1. IsFiniteSet(Carriers(r)) /\ executions[r] + Cardinality(Carriers(r)) <= Writes(r)
        BY DEF ExecutionsWereWritten
      <3>2. conn \notin Carriers(r)
        BY <2>2, OnePacketSequences DEF Carriers
      <3>3. Carriers(r)' = Carriers(r) \cup {conn}
        BY <2>1, <2>2, <2>4 DEF Carriers, TypeOK, NetTypes
      <3>4. IsFiniteSet(Carriers(r)') /\ Cardinality(Carriers(r)') = Cardinality(Carriers(r)) + 1
        BY <3>1, <3>2, <3>3, FS_AddElement
      <3>5. Writes(r) = attempt[p] - 1 /\ Writes(r)' = attempt[p]
        BY <1>3, <2>4, ThreadsAssumption
           DEF Brings, Write, Writes, LastWrites, Request, TypeOK, CallTypes, PCTypes, Threads
      <3>6. Cardinality(Carriers(r)) \in Nat
        BY <3>1, FS_CardinalityType
      <3>7. attempt[p] \in {1, 2}
        BY DEF TypeOK, CallTypes
      <3>9. executions[r] \in Nat /\ executions'[r] = executions[r]
        BY <2>1 DEF TypeOK, NetTypes
      <3>8. executions[r] + (Cardinality(Carriers(r)) + 1) <= attempt[p]
        BY <3>1, <3>5, <3>6, <3>7, <3>9
      <3> QED
        BY <3>4, <3>5, <3>9, <3>8
    <2> QED
      BY <2>3, <2>4
  <1>4. ASSUME NEW c \in Conns, NEW q \in Requests, Executes(c, q)
        PROVE  /\ IsFiniteSet(Carriers(r)')
               /\ executions'[r] + Cardinality(Carriers(r)') <= Writes(r)'
    <2>1. /\ inbound[c] = <<ExecPacket(q)>>
          /\ inbound' = [inbound EXCEPT ![c] = <<>>]
          /\ executions' = [executions EXCEPT ![q] = @ + 1]
      BY <1>4 DEF Executes
    <2>2. Carriers(r)' = Carriers(r) \ {c}
      BY <2>1, OnePacketSequences DEF Carriers, TypeOK, NetTypes
    <2>3. CASE r # q
      BY <1>1, <2>1, <2>2, <2>3, FewerCarriers DEF TypeOK, NetTypes
    <2>4. CASE r = q
      <3>1. IsFiniteSet(Carriers(r)) /\ executions[r] + Cardinality(Carriers(r)) <= Writes(r)
        BY DEF ExecutionsWereWritten
      <3>2. c \in Carriers(r)
        BY <2>1, <2>4 DEF Carriers
      <3>3. IsFiniteSet(Carriers(r)') /\ Cardinality(Carriers(r)') = Cardinality(Carriers(r)) - 1
        BY <2>2, <3>1, <3>2, FS_RemoveElement
      <3>4. Writes(r)' >= Writes(r) /\ Writes(r) \in Nat /\ Writes(r)' \in Nat
        BY <1>1, WritesGrow, WritesRange DEF Writes, LastWrites, TypeOK, CallTypes, Requests
      <3>5. executions[r] \in Nat /\ executions'[r] = executions[r] + 1
        BY <2>1, <2>4 DEF TypeOK, NetTypes
      <3>6. Cardinality(Carriers(r)) \in Nat
        BY <3>1, FS_CardinalityType
      <3> QED
        BY <3>1, <3>3, <3>4, <3>5, <3>6
    <2> QED
      BY <2>3, <2>4
  <1> QED
    BY <1>2, <1>3, <1>4, PacketsStep DEF PacketsMove

\* The server's count of a request never goes back.
LEMMA ExecutionsKept ==
  ASSUME TypeOK, PacketsMove
  PROVE  \A r \in Requests : executions'[r] >= executions[r]
  <1> USE DEF TypeOK, NetTypes
  <1>1. CASE executions' = executions
    BY <1>1
  <1>2. ASSUME NEW q \in Requests, executions' = [executions EXCEPT ![q] = @ + 1]
        PROVE  \A r \in Requests : executions'[r] >= executions[r]
    BY <1>2
  <1> QED
    BY <1>1, <1>2 DEF PacketsMove, Loses, Brings, Write, Executes

\* What a step leaves alone of the exchange that is under way needs no more argument.
LEMMA RepliesKept ==
  ASSUME TypeOK, RepliesFollowExecution, PacketsMove, conn' = conn,
         \A p \in Callers : pc'[p] = "read" => pc[p] = "read" /\ call'[p] = call[p],
         conn \in Conns => outbound'[conn] \in {outbound[conn], <<>>},
         \A p \in Callers : pc[p] = "read" => conn \in Conns
  PROVE  RepliesFollowExecution'
  <1> SUFFICES ASSUME NEW p \in Callers, pc'[p] = "read", outbound'[conn'] # <<>>
               PROVE  executions'[Request(p)'] > 0
    BY DEF RepliesFollowExecution
  <1>1. pc[p] = "read" /\ outbound[conn] # <<>> /\ Request(p)' = Request(p)
    BY DEF Request
  <1>2. executions[Request(p)] > 0
    BY <1>1 DEF RepliesFollowExecution
  <1>3. Request(p) \in Requests
    BY <1>1, InputsAssumption DEF Request, Requests, TypeOK, CallsNumbered, CallTypes
  <1>4. executions'[Request(p)] >= executions[Request(p)] /\ executions[Request(p)] \in Nat
        /\ executions'[Request(p)] \in Nat
    BY <1>3, ExecutionsKept DEF TypeOK, NetTypes, PacketsMove, Loses, Brings, Write, Executes
  <1> QED
    BY <1>1, <1>2, <1>4

\* The server answers the command it has just read (mock-rcon main.go, handle).
LEMMA ServerExecReplies ==
  ASSUME TypeOK, IInv, OnePacket, RepliesFollowExecution, PacketsMove,
         NEW c \in Conns, ServerExec(c)
  PROVE  RepliesFollowExecution'
  <1>1. conn' = conn /\ pc' = pc /\ call' = call
    BY DEF ServerExec, clientVars, threadVars
  <1>2. \A p \in Callers : pc[p] = "read" => conn \in Conns
    BY DEF IInv, SocketsFollowPC, Threads, TypeOK, ClientTypes
  <1>3. CASE c # conn
    <2>1. conn \in Conns => outbound'[conn] = outbound[conn]
      BY <1>3 DEF ServerExec, Reply, TypeOK, NetTypes
    <2> QED
      BY <1>1, <1>2, <2>1, RepliesKept
  <1>4. CASE c = conn
    <2> SUFFICES ASSUME NEW p \in Callers, pc[p] = "read"
                 PROVE  executions'[Request(p)] > 0
      BY <1>1 DEF RepliesFollowExecution, Request
    <2>1. inbound[c] = <<ExecPacket(Request(p))>>
      BY <1>4 DEF IInv, CallUnderWay, Carries, ServerExec
    <2>2. srv[c] = "authed"
      BY <1>4, ConnsAssumption DEF IInv, ConnectedImpliesAuthenticated, ServerExec, TypeOK, NetTypes
    <2>3. Request(p) \in Requests
      BY InputsAssumption DEF Request, Requests, TypeOK, CallsNumbered, CallTypes
    <2>4. Head(inbound[c]) = ExecPacket(Request(p))
      BY <2>1, OnePacketSequences
    <2>6. executions' = [executions EXCEPT ![Request(p)] = @ + 1]
      BY <2>2, <2>3, <2>4, PacketsDiffer DEF ServerExec
    <2>5. executions'[Request(p)] = executions[Request(p)] + 1 /\ executions[Request(p)] \in Nat
      BY <2>3, <2>6 DEF TypeOK, NetTypes
    <2> QED
      BY <2>5
  <1> QED
    BY <1>3, <1>4

\* On a connection that carries a command the server has no password to answer.
LEMMA ServerAuthReplies ==
  ASSUME TypeOK, IInv, RepliesFollowExecution, PacketsMove, NEW c \in Conns, ServerAuth(c)
  PROVE  RepliesFollowExecution'
  <1>1. conn' = conn /\ pc' = pc /\ call' = call
    BY DEF ServerAuth, clientVars, threadVars
  <1>2. \A p \in Callers : pc[p] = "read" => conn \in Conns
    BY DEF IInv, SocketsFollowPC, Threads, TypeOK, ClientTypes
  <1>3. CASE \A p \in Callers : pc[p] # "read"
    BY <1>1, <1>3 DEF RepliesFollowExecution
  <1>4. CASE \E p \in Callers : pc[p] = "read"
    <2>1. PICK p \in Callers : pc[p] = "read"
      BY <1>4
    <2>2. CASE c = conn
      <3>1. inbound[c] = <<ExecPacket(Request(p))>>
        BY <2>1, <2>2 DEF IInv, CallUnderWay, Carries, ServerAuth
      <3> QED
        BY <3>1, OnePacketSequences DEF ServerAuth, ExecPacket
    <2>3. CASE c # conn
      <3>1. conn \in Conns => outbound'[conn] = outbound[conn]
        BY <2>3 DEF ServerAuth, Reply, TypeOK, NetTypes
      <3> QED
        BY <1>1, <1>2, <3>1, RepliesKept
    <2> QED
      BY <2>2, <2>3
  <1> QED
    BY <1>3, <1>4

\* A reply on the connection in use was written by a server that had accepted the
\* password, and so had executed the command (mock-rcon main.go, handle).
LEMMA RepliesStep ==
  TypeOK /\ IInv /\ OnePacket /\ RepliesFollowExecution /\ [Next]_vars => RepliesFollowExecution'
  <1> SUFFICES ASSUME TypeOK, IInv, OnePacket, RepliesFollowExecution, [Next]_vars
               PROVE  RepliesFollowExecution'
    OBVIOUS
  <1>0. PacketsMove
    BY PacketsStep
  <1>r. \A p \in Callers : pc[p] = "read" => conn \in Conns
    BY DEF IInv, SocketsFollowPC, Threads, TypeOK, ClientTypes
  <1> USE ThreadsAssumption DEF TypeOK, PCTypes, CallTypes, NetTypes, Threads, RepliesFollowExecution
  <1>1. ASSUME NEW p \in Callers, Invoke(p) PROVE RepliesFollowExecution'
    BY <1>1, <1>0, <1>r, RepliesKept DEF Invoke, clientVars, netVars
  <1>2. ASSUME NEW p \in Callers, LockCaller(p) PROVE RepliesFollowExecution'
    BY <1>2, <1>0, <1>r, RepliesKept DEF LockCaller, netVars
  <1>3. ASSUME NEW r \in Reconnectors, LockReconnector(r) PROVE RepliesFollowExecution'
    BY <1>3, <1>0, <1>r, RepliesKept DEF LockReconnector, netVars
  <1>4. ASSUME NEW t \in Threads, Dial(t) PROVE RepliesFollowExecution'
    BY <1>4, <1>0, <1>r, RepliesKept DEF Dial, clientVars
  <1>5. ASSUME NEW t \in Threads, DialFail(t) PROVE RepliesFollowExecution'
    BY <1>5, <1>0, <1>r, RepliesKept, EnsureFailedEffect DEF DialFail, netVars
  <1>6. ASSUME NEW t \in Threads, AuthOk(t) PROVE RepliesFollowExecution'
    <2>1. \A p \in Callers : pc'[p] # "read"
      BY <1>6 DEF AuthOk, IInv, LockCoversExchange
    <2> QED
      BY <2>1
  <1>7. ASSUME NEW t \in Threads, AuthFail(t) PROVE RepliesFollowExecution'
    BY <1>7, <1>0, <1>r, RepliesKept, EnsureFailedEffect DEF AuthFail, CloseSocket
  <1>8. ASSUME NEW p \in Callers, Write(p) PROVE RepliesFollowExecution'
    <2>1. outbound'[conn'] = <<>>
      BY <1>8, WriteIsFirst DEF Write
    <2> QED
      BY <2>1
  <1>9. ASSUME NEW p \in Callers, WriteFail(p) PROVE RepliesFollowExecution'
    <2>1. \A u \in Threads : pc'[u] # "read"
      BY <1>9, NobodyTalks DEF IInv
    <2> QED
      BY <2>1
  <1>10. ASSUME NEW p \in Callers, ReadOk(p) PROVE RepliesFollowExecution'
    <2>1. \A q \in Callers : pc'[q] # "read"
      BY <1>10 DEF ReadOk, IInv, LockCoversExchange
    <2> QED
      BY <2>1
  <1>11. ASSUME NEW p \in Callers, ReadFail(p) PROVE RepliesFollowExecution'
    <2>1. \A u \in Threads : pc'[u] # "read"
      BY <1>11, NobodyTalks DEF IInv
    <2> QED
      BY <2>1
  <1>12. ASSUME NEW r \in Reconnectors, Wake(r) PROVE RepliesFollowExecution'
    BY <1>12, <1>0, <1>r, RepliesKept DEF Wake, clientVars, netVars
  <1>13. ASSUME NEW r \in Reconnectors, ExitReconnector(r) PROVE RepliesFollowExecution'
    BY <1>13, <1>0, <1>r, RepliesKept DEF ExitReconnector, netVars
  <1>14. ASSUME Close PROVE RepliesFollowExecution'
    <2>1. \A q \in Callers : pc'[q] # "read"
      BY <1>14 DEF Close, threadVars, IInv, LockCoversExchange
    <2> QED
      BY <2>1
  <1>15. ASSUME NEW p \in Callers, Expire(p) PROVE RepliesFollowExecution'
    BY <1>15, <1>0, <1>r, RepliesKept DEF Expire, netVars
  <1>16. ASSUME NEW p \in Callers, Disconnect(p) PROVE RepliesFollowExecution'
    BY <1>16, <1>0, <1>r, RepliesKept DEF Disconnect, clientVars, netVars
  <1>17. ASSUME StaleDeadline PROVE RepliesFollowExecution'
    BY <1>17, <1>0, <1>r, RepliesKept DEF StaleDeadline, threadVars, netVars
  <1>18. ASSUME NEW c \in Conns, ServerAuth(c) PROVE RepliesFollowExecution'
    BY <1>18, <1>0, ServerAuthReplies
  <1>19. ASSUME NEW c \in Conns, ServerExec(c) PROVE RepliesFollowExecution'
    BY <1>19, <1>0, ServerExecReplies
  <1>20. ASSUME NEW c \in Conns, ServerEOF(c) PROVE RepliesFollowExecution'
    BY <1>20, <1>0, <1>r, RepliesKept DEF ServerEOF, clientVars, threadVars
  <1>21. ASSUME NEW c \in Conns, ServerDrop(c) PROVE RepliesFollowExecution'
    BY <1>21, <1>0, <1>r, RepliesKept DEF ServerDrop, clientVars, threadVars
  <1>22. ASSUME Reachable PROVE RepliesFollowExecution'
    BY <1>22, <1>0, <1>r, RepliesKept DEF Reachable, clientVars, threadVars, netVars
  <1>23. ASSUME UNCHANGED vars PROVE RepliesFollowExecution'
    BY <1>23, <1>0, <1>r, RepliesKept DEF vars, clientVars, threadVars, netVars
  <1> QED
    BY <1>1, <1>2, <1>3, <1>4, <1>5, <1>6, <1>7, <1>8, <1>9, <1>10, <1>11, <1>12,
       <1>13, <1>14, <1>15, <1>16, <1>17, <1>18, <1>19, <1>20, <1>21, <1>22, <1>23
       DEF Next, CallerStep, ReconnectorStep, ServerStep

\* Nothing has been written at first.
LEMMA ServiceInvInit == Init => ServiceInv
  <1> SUFFICES ASSUME Init PROVE ServiceInv
    OBVIOUS
  <1>1. OnePacket
    BY DEF Init, OnePacket
  <1>2. RepliesFollowExecution
    BY ThreadsAssumption DEF Init, RepliesFollowExecution, Threads
  <1>3. ASSUME NEW r \in Requests
        PROVE  IsFiniteSet(Carriers(r)) /\ executions[r] + Cardinality(Carriers(r)) <= Writes(r)
    <2>1. Carriers(r) = {}
      BY OnePacketSequences DEF Init, Carriers
    <2>2. executions[r] = 0 /\ Writes(r) = 0
      BY <1>3, InputsAssumption DEF Init, Writes, Requests
    <2> QED
      BY <2>1, <2>2, FS_EmptySet
  <1> QED
    BY <1>1, <1>2, <1>3 DEF ServiceInv, ExecutionsWereWritten

LEMMA ServiceInvStep == TypeOK /\ TypeOK' /\ IInv /\ ServiceInv /\ [Next]_vars => ServiceInv'
  BY OnePacketStep, ExecutionsStep, RepliesStep DEF ServiceInv

\* However long a server reads on from connections that the client has closed, every
\* execution was paid for by a writing, and every reply by an execution (client.go:90-117).
THEOREM ServiceInvariant == Spec => [](TypeOK /\ IInv /\ ServiceInv)
  <1>1. Init => ServiceInv
    BY ServiceInvInit
  <1>2. (TypeOK /\ IInv) /\ (TypeOK /\ IInv)' /\ ServiceInv /\ [Next]_vars => ServiceInv'
    BY ServiceInvStep
  <1> QED
    BY <1>1, <1>2, InvariantHolds, PTL DEF Spec

-----------------------------------------------------------------------------
(* Every step is a step of the service, or none. *)

\* A step that neither ends nor begins a call, nor executes one, is none of the service.
LEMMA Unseen ==
  ASSUME call' = call, executions' = executions,
         \A p \in Callers : pc'[p] = "idle" <=> pc[p] = "idle",
         \A p \in Callers : pc[p] = "idle" => result'[p] = result[p]
  PROVE  UNCHANGED Service!vars
  BY DEF outcome, Service!vars

\* A call ends for its caller, whatever it returned.
LEMMA CallEnds ==
  ASSUME NEW p \in Callers, pc[p] # "idle", pc'[p] = "idle",
         \A q \in Callers \ {p} : (pc'[q] = "idle" <=> pc[q] = "idle") /\ result'[q] = result[q]
  PROVE  outcome[p] = "pending" /\ outcome' = [outcome EXCEPT ![p] = result'[p]]
  BY DEF outcome

\* Send gives up (client.go:104, 111).
LEMMA GiveUpImplements ==
  ASSUME TypeOK, NEW p \in Callers, pc[p] # "idle", GiveUp(p), call' = call, executions' = executions
  PROVE  Service!GiveUp(p)
  <1>1. pc'[p] = "idle" /\ result' = [result EXCEPT ![p] = "gaveUp"]
    BY GiveUpEffect DEF GiveUp, Return
  <1>2. \A q \in Callers \ {p} : (pc'[q] = "idle" <=> pc[q] = "idle") /\ result'[q] = result[q]
    BY <1>1, GiveUpEffect, ThreadsAssumption DEF TypeOK, CallTypes, Threads
  <1>3. result'[p] = "gaveUp"
    BY <1>1 DEF TypeOK, CallTypes
  <1> QED
    BY <1>1, <1>2, <1>3, CallEnds DEF Service!GiveUp

\* The first ensureConnected fails: nothing was written, so nothing will be executed
\* (client.go:94-96).
LEMMA EnsureFailedImplements ==
  ASSUME TypeOK, ServiceInv, NEW t \in Threads, EnsureFailed(t), pc[t] \in {"dial", "auth"},
         call' = call, executions' = executions
  PROVE  [Service!Next]_(Service!vars)
  <1> USE ThreadsAssumption DEF TypeOK, Threads
  <1>1. CASE t \in Reconnectors
    <2>1. \A p \in Callers : pc'[p] = pc[p] /\ result' = result
      BY <1>1 DEF EnsureFailed, PCTypes
    <2> QED
      BY <2>1, Unseen
  <1>2. CASE t \in Callers /\ attempt[t] = 1
    <2>1. pc'[t] = "idle" /\ result'[t] = "err"
      BY <1>2 DEF EnsureFailed, Return, GiveUp, PCTypes, CallTypes
    <2>2. \A q \in Callers \ {t} : (pc'[q] = "idle" <=> pc[q] = "idle") /\ result'[q] = result[q]
      BY <1>2 DEF EnsureFailed, Return, PCTypes, CallTypes
    <2>3. outcome[t] = "pending" /\ outcome' = [outcome EXCEPT ![t] = "err"]
      BY <1>2, <2>1, <2>2, CallEnds
    <2>4. Request(t) \in Requests
      BY <1>2, InputsAssumption DEF Request, Requests, CallsNumbered, CallTypes
    <2>5. Writes(Request(t)) = 0
      BY <1>2 DEF Writes, LastWrites, Request
    <2>6. executions[Request(t)] = 0
      <3>1. executions[Request(t)] + Cardinality(Carriers(Request(t))) <= 0
        BY <2>4, <2>5 DEF ServiceInv, ExecutionsWereWritten
      <3>2. Cardinality(Carriers(Request(t))) \in Nat
        BY <2>4, FS_CardinalityType DEF ServiceInv, ExecutionsWereWritten
      <3>3. executions[Request(t)] \in Nat
        BY <2>4 DEF NetTypes
      <3> QED
        BY <3>1, <3>2, <3>3
    <2> QED
      BY <1>2, <2>3, <2>6 DEF Service!Next, Service!Refuse, Request
  <1>3. CASE t \in Callers /\ attempt[t] = 2
    BY <1>3, GiveUpImplements DEF EnsureFailed, Service!Next
  <1> QED
    BY <1>1, <1>2, <1>3 DEF EnsureFailed

\* sendPacket fails: one more attempt, or the end (client.go:101-112).
LEMMA AttemptFailedImplements ==
  ASSUME TypeOK, NEW p \in Callers, AttemptFailed(p), pc[p] \in {"write", "read"}
  PROVE  [Service!Next]_(Service!vars)
  <1>1. CASE attempt[p] = 1
    <2>1. pc' = [pc EXCEPT ![p] = "dial"] /\ result' = result /\ call' = call /\ executions' = executions
      BY <1>1 DEF AttemptFailed
    <2> QED
      BY <2>1, Unseen DEF TypeOK, PCTypes, Threads
  <1>2. CASE attempt[p] = 2
    BY <1>2, GiveUpImplements DEF AttemptFailed, Service!Next
  <1> QED
    BY <1>1, <1>2 DEF AttemptFailed

\* A reply is read: its command has been executed (client.go:98-100, 142-146).
LEMMA ReadOkImplements ==
  ASSUME TypeOK, ServiceInv, NEW p \in Callers, ReadOk(p)
  PROVE  [Service!Next]_(Service!vars)
  <1> USE DEF TypeOK, PCTypes, CallTypes, Threads
  <1>1. pc[p] = "read" /\ pc'[p] = "idle" /\ result'[p] = "ok"
    BY DEF ReadOk, Return
  <1>2. \A q \in Callers \ {p} : (pc'[q] = "idle" <=> pc[q] = "idle") /\ result'[q] = result[q]
    BY DEF ReadOk, Return
  <1>3. executions[Request(p)] > 0
    BY DEF ReadOk, ServiceInv, RepliesFollowExecution
  <1>4. outcome[p] = "pending" /\ outcome' = [outcome EXCEPT ![p] = "ok"]
    BY <1>1, <1>2, CallEnds
  <1> QED
    BY <1>3, <1>4 DEF ReadOk, Request, Service!Next, Service!Succeed

\* The server executes a packet: its request was written and is not one that was refused.
LEMMA ServerExecImplements ==
  ASSUME TypeOK, IInv, ServiceInv, NEW c \in Conns, ServerExec(c), PacketsMove
  PROVE  [Service!Next]_(Service!vars)
  <1>1. pc' = pc /\ result' = result /\ call' = call
    BY DEF ServerExec, threadVars
  <1>2. CASE executions' = executions
    BY <1>1, <1>2, Unseen
  <1>3. ASSUME NEW d \in Conns, NEW r \in Requests, Executes(d, r) PROVE Service!Execute(r)
    <2>1. /\ inbound[d] = <<ExecPacket(r)>>
          /\ executions' = [executions EXCEPT ![r] = @ + 1]
      BY <1>3 DEF Executes
    <2>2. IsFiniteSet(Carriers(r)) /\ executions[r] + Cardinality(Carriers(r)) <= Writes(r)
      BY DEF ServiceInv, ExecutionsWereWritten
    <2>3. Cardinality(Carriers(r)) \in Nat /\ Cardinality(Carriers(r)) # 0
      BY <2>1, <2>2, FS_CardinalityType, FS_EmptySet DEF Carriers
    <2>4. Writes(r) \in 0..2 /\ executions[r] \in Nat
      BY WritesRange DEF TypeOK, NetTypes
    <2>5. executions[r] < 2 /\ Writes(r) # 0
      BY <2>2, <2>3, <2>4
    <2>6. r[2] <= call[r[1]] /\ (r[2] = call[r[1]] => outcome[r[1]] # "err")
      BY <2>5, InputsAssumption DEF Writes, LastWrites, outcome, Requests, TypeOK, CallTypes
    <2>7. outcome' = outcome
      BY <1>1 DEF outcome
    <2> QED
      BY <1>1, <2>1, <2>5, <2>6, <2>7 DEF Service!Execute, Service!MaxExecutions
  <1> QED
    BY <1>2, <1>3 DEF PacketsMove, Loses, Brings, Write, Service!Next, Service!Requests, Requests

\* The whole client, one step at a time (client.go:44-185).
LEMMA StepImplements == TypeOK /\ IInv /\ ServiceInv /\ [Next]_vars => [Service!Next]_(Service!vars)
  <1> SUFFICES ASSUME TypeOK, IInv, ServiceInv, [Next]_vars
               PROVE  [Service!Next]_(Service!vars)
    OBVIOUS
  <1> USE ThreadsAssumption DEF TypeOK, PCTypes, Threads
  <1>1. ASSUME NEW p \in Callers, Invoke(p) PROVE [Service!Next]_(Service!vars)
    <2>1. outcome[p] # "pending"
      BY <1>1 DEF Invoke, outcome, CallTypes
    <2>2. outcome' = [outcome EXCEPT ![p] = "pending"]
      BY <1>1 DEF Invoke, outcome, CallTypes
    <2> QED
      BY <1>1, <2>1, <2>2 DEF Invoke, Service!Next, Service!Invoke
  <1>2. ASSUME NEW p \in Callers, LockCaller(p) PROVE [Service!Next]_(Service!vars)
    BY <1>2, Unseen DEF LockCaller
  <1>3. ASSUME NEW r \in Reconnectors, LockReconnector(r) PROVE [Service!Next]_(Service!vars)
    BY <1>3, Unseen DEF LockReconnector
  <1>4. ASSUME NEW t \in Threads, Dial(t) PROVE [Service!Next]_(Service!vars)
    BY <1>4, Unseen DEF Dial
  <1>5. ASSUME NEW t \in Threads, DialFail(t) PROVE [Service!Next]_(Service!vars)
    BY <1>5, EnsureFailedImplements DEF DialFail
  <1>6. ASSUME NEW t \in Threads, AuthOk(t) PROVE [Service!Next]_(Service!vars)
    BY <1>6, Unseen DEF AuthOk
  <1>7. ASSUME NEW t \in Threads, AuthFail(t) PROVE [Service!Next]_(Service!vars)
    BY <1>7, EnsureFailedImplements DEF AuthFail
  <1>8. ASSUME NEW p \in Callers, Write(p) PROVE [Service!Next]_(Service!vars)
    BY <1>8, Unseen DEF Write
  <1>9. ASSUME NEW p \in Callers, WriteFail(p) PROVE [Service!Next]_(Service!vars)
    BY <1>9, AttemptFailedImplements DEF WriteFail
  <1>10. ASSUME NEW p \in Callers, ReadOk(p) PROVE [Service!Next]_(Service!vars)
    BY <1>10, ReadOkImplements
  <1>11. ASSUME NEW p \in Callers, ReadFail(p) PROVE [Service!Next]_(Service!vars)
    BY <1>11, AttemptFailedImplements DEF ReadFail
  <1>12. ASSUME NEW r \in Reconnectors, Wake(r) PROVE [Service!Next]_(Service!vars)
    BY <1>12, Unseen DEF Wake
  <1>13. ASSUME NEW r \in Reconnectors, ExitReconnector(r) PROVE [Service!Next]_(Service!vars)
    BY <1>13, Unseen DEF ExitReconnector
  <1>14. ASSUME Close PROVE [Service!Next]_(Service!vars)
    BY <1>14, Unseen DEF Close, threadVars
  <1>15. ASSUME NEW p \in Callers, Expire(p) PROVE [Service!Next]_(Service!vars)
    BY <1>15, Unseen DEF Expire
  <1>16. ASSUME NEW p \in Callers, Disconnect(p) PROVE [Service!Next]_(Service!vars)
    BY <1>16, Unseen DEF Disconnect
  <1>17. ASSUME StaleDeadline PROVE [Service!Next]_(Service!vars)
    BY <1>17, Unseen DEF StaleDeadline, threadVars
  <1>18. ASSUME NEW c \in Conns, ServerAuth(c) PROVE [Service!Next]_(Service!vars)
    BY <1>18, Unseen DEF ServerAuth, threadVars
  <1>19. ASSUME NEW c \in Conns, ServerExec(c) PROVE [Service!Next]_(Service!vars)
    BY <1>19, ServerExecImplements, PacketsStep DEF ServiceInv
  <1>20. ASSUME NEW c \in Conns, ServerEOF(c) PROVE [Service!Next]_(Service!vars)
    BY <1>20, Unseen DEF ServerEOF, threadVars
  <1>21. ASSUME NEW c \in Conns, ServerDrop(c) PROVE [Service!Next]_(Service!vars)
    BY <1>21, Unseen DEF ServerDrop, threadVars
  <1>22. ASSUME Reachable PROVE [Service!Next]_(Service!vars)
    BY <1>22, Unseen DEF Reachable, threadVars
  <1>23. ASSUME UNCHANGED vars PROVE [Service!Next]_(Service!vars)
    BY <1>23, Unseen DEF vars, threadVars
  <1> QED
    BY <1>1, <1>2, <1>3, <1>4, <1>5, <1>6, <1>7, <1>8, <1>9, <1>10, <1>11, <1>12,
       <1>13, <1>14, <1>15, <1>16, <1>17, <1>18, <1>19, <1>20, <1>21, <1>22, <1>23
       DEF Next, CallerStep, ReconnectorStep, ServerStep

\* The client implements the service: at most two executions of a command, a reply only
\* for a command that was executed, and none, not even later, of one that was refused.
THEOREM ServiceImplemented == Spec => ImplementsService
  <1>1. Init => Service!Init
    BY ThreadsAssumption DEF Init, Service!Init, outcome, Threads, Requests, Service!Requests
  <1>2. TypeOK /\ IInv /\ ServiceInv /\ [Next]_vars => [Service!Next]_(Service!vars)
    BY StepImplements
  <1> QED
    BY <1>1, <1>2, ServiceInvariant, PTL DEF Spec, ImplementsService, Service!Spec
=============================================================================

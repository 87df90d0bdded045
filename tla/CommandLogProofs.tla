-------------------------- MODULE CommandLogProofs --------------------------
(***************************************************************************)
(* Proofs about CommandLog for any number of browsers, commands, crashes   *)
(* and any retention.                                                      *)
(***************************************************************************)
EXTENDS CommandLog, TLAPS, FiniteSetTheorems

\* The request of a handler that runs is one of the requests (handlers.go:161).
LEMMA CurrentRequest ==
  ASSUME TypeOK, NEW p \in Callers, call[p] > 0
  PROVE  Request(p) \in Requests
  BY BoundsAssumption DEF TypeOK, Request, Requests

LEMMA TypeInit == Init => TypeOK
  BY BoundsAssumption
  DEF Init, Client!Init, Client!Requests, Client!MaxExecutions, Requests, TypeOK, Rows

\* A result of Send is typed, and leaves call and executions alone.
LEMMA ResultTypes ==
  ASSUME TypeOK, NEW p \in Callers, Client!Succeed(p) \/ Client!Refuse(p) \/ Client!GiveUp(p)
  PROVE  /\ outcome' \in [Callers -> {"none", "pending", "ok", "err", "gaveUp"}]
         /\ UNCHANGED <<call, executions>>
  BY DEF TypeOK, Client!Succeed, Client!Refuse, Client!GiveUp

LEMMA TypeStep == TypeOK /\ StagesAgree /\ [Next]_vars => TypeOK'
  <1> SUFFICES ASSUME TypeOK, StagesAgree, [Next]_vars PROVE TypeOK'
    OBVIOUS
  <1> USE BoundsAssumption DEF TypeOK
  <1>1. ASSUME NEW p \in Callers, Execute(p) PROVE TypeOK'
    BY <1>1 DEF Execute, Client!Invoke, logVars, procVars
  <1>2. ASSUME NEW p \in Callers, SendReturns(p) PROVE TypeOK'
    BY <1>2, ResultTypes DEF SendReturns, logVars, procVars
  <1>3. ASSUME NEW p \in Callers, Record(p) PROVE TypeOK'
    <2>1. Request(p) \in Requests
      BY <1>3, CurrentRequest DEF Record, StagesAgree
    <2>2. ReplyText(p) \in {"text", ""}
      BY DEF ReplyText
    <2>3. lastId + 1 \in Nat /\ now \in 0..MaxTime
      OBVIOUS
    <2>4. Row(p) \in Rows
      BY <2>1, <2>2, <2>3 DEF Row, Rows
    <2>5. log' \subseteq Rows /\ lastId' \in Nat
      BY <1>3, <2>3, <2>4 DEF Record, Insert, NoInsert, logVars
    <2>6. fate' \in [Requests -> {"none", "stored", "refused", "cancelled"}]
      BY <1>3, <2>1 DEF Record, Insert, NoInsert
    <2>7. stage' \in [Callers -> {"idle", "send", "record", "respond"}]
      BY <1>3 DEF Record
    <2> QED
      BY <1>3, <2>5, <2>6, <2>7 DEF Record, Insert, NoInsert, sendVars, procVars
  <1>4. ASSUME NEW p \in Callers, Respond(p) PROVE TypeOK'
    <2>1. Request(p) \in Requests
      BY <1>4, CurrentRequest DEF Respond, StagesAgree
    <2> QED
      BY <1>4, <2>1 DEF Respond, sendVars, logVars, procVars
  <1>5. ASSUME NEW p \in Callers, Leave(p) PROVE TypeOK'
    BY <1>5 DEF Leave, sendVars, logVars, procVars
  <1>6. ASSUME NEW r \in Requests, ServerExecutes(r) PROVE TypeOK'
    BY <1>6 DEF ServerExecutes, Client!Execute, Client!MaxExecutions, requestVars, logVars, procVars
  <1>7. CASE Prune
    BY <1>7 DEF Prune, sendVars, requestVars, procVars
  <1>8. CASE Tick
    BY <1>8 DEF Tick, sendVars, requestVars, logVars, procVars
  <1>9. CASE Crash
    <2>1. outcome' \in [Callers -> {"none", "pending", "ok", "err", "gaveUp"}]
      BY <1>9 DEF Crash
    <2>2. answer' \in [Requests -> {"none", "executed", "error", "lost"}]
      BY <1>9 DEF Crash
    <2>3. stage' \in [Callers -> {"idle", "send", "record", "respond"}]
      BY <1>9 DEF Crash
    <2>4. crashes' \in 0..MaxCrashes
      BY <1>9 DEF Crash
    <2>5. running' \in BOOLEAN
      BY <1>9 DEF Crash
    <2>6. UNCHANGED <<call, executions, browser, fate, log, lastId, now>>
      BY <1>9 DEF Crash, logVars
    <2> QED
      BY <2>1, <2>2, <2>3, <2>4, <2>5, <2>6
  <1>10. CASE Restart
    BY <1>10 DEF Restart, sendVars, requestVars, logVars
  <1>11. CASE UNCHANGED vars
    BY <1>11 DEF vars, sendVars, requestVars, logVars, procVars
  <1> QED
    BY <1>1, <1>2, <1>3, <1>4, <1>5, <1>6, <1>7, <1>8, <1>9, <1>10, <1>11
    DEF Next, HandlerStep

-----------------------------------------------------------------------------
(* The invariant.  Two actions add something: Record a row, Respond an answer. *)

LEMMA IInvInit == Init => IInv
  BY BoundsAssumption, FS_EmptySet
  DEF Init, Client!Init, Requests, IInv, RepliesAreReal, AnsweredWasRecorded,
      LogIsOrdered, RowsAreStored, NotYetRecorded, StagesAgree

\* Only the call that is under way is sent, recorded and answered.
LEMMA StagesStep == TypeOK /\ IInv /\ [Next]_vars => StagesAgree'
  <1> SUFFICES ASSUME TypeOK, IInv, [Next]_vars, NEW q \in Callers
               PROVE  /\ stage'[q] # "idle" => call'[q] > 0
                      /\ stage'[q] = "respond" =>
                           /\ fate'[<<q, call'[q]>>] # "none"
                           /\ fate'[<<q, call'[q]>>] = "cancelled" => browser'[q] = "gone"
                      /\ outcome'[q] = "pending" <=> stage'[q] = "send"
                      /\ outcome'[q] = "ok" => call'[q] > 0 /\ executions'[<<q, call'[q]>>] > 0
    BY DEF StagesAgree, Request
  <1> USE BoundsAssumption DEF TypeOK, IInv, StagesAgree, Request
  <1>1. ASSUME NEW p \in Callers, Execute(p) PROVE StagesAgree'
    BY <1>1 DEF Execute, Client!Invoke, logVars, procVars
  <1>2. ASSUME NEW p \in Callers, SendReturns(p) PROVE StagesAgree'
    <2>1. call[p] > 0
      BY <1>2 DEF SendReturns
    <2> QED
      BY <1>2, <2>1 DEF SendReturns, Client!Succeed, Client!Refuse, Client!GiveUp, logVars, procVars
  <1>3. ASSUME NEW p \in Callers, Record(p) PROVE StagesAgree'
    <2>1. Request(p) \in Requests
      BY <1>3, CurrentRequest DEF Record
    <2> QED
      BY <1>3, <2>1 DEF Record, Insert, NoInsert, sendVars, procVars, Requests
  <1>4. ASSUME NEW p \in Callers, Respond(p) PROVE StagesAgree'
    BY <1>4 DEF Respond, sendVars, logVars, procVars
  <1>5. ASSUME NEW p \in Callers, Leave(p) PROVE StagesAgree'
    BY <1>5 DEF Leave, sendVars, logVars, procVars
  <1>6. ASSUME NEW r \in Requests, ServerExecutes(r) PROVE StagesAgree'
    BY <1>6 DEF ServerExecutes, Client!Execute, requestVars, logVars, procVars, Requests
  <1>7. CASE Prune
    BY <1>7 DEF Prune, sendVars, requestVars, procVars
  <1>8. CASE Tick
    BY <1>8 DEF Tick, sendVars, requestVars, logVars, procVars
  <1>9. CASE Crash
    BY <1>9 DEF Crash, logVars
  <1>10. CASE Restart
    BY <1>10 DEF Restart, sendVars, requestVars, logVars
  <1>11. CASE UNCHANGED vars
    BY <1>11 DEF vars, sendVars, requestVars, logVars, procVars
  <1> QED
    BY <1>1, <1>2, <1>3, <1>4, <1>5, <1>6, <1>7, <1>8, <1>9, <1>10, <1>11
    DEF Next, HandlerStep

\* A row or an answer with a reply is of a call that has ended "ok".
LEMMA RepliesStep == TypeOK /\ IInv /\ [Next]_vars => RepliesAreReal'
  <1> SUFFICES ASSUME TypeOK, IInv, [Next]_vars PROVE RepliesAreReal'
    OBVIOUS
  <1> USE BoundsAssumption DEF TypeOK, IInv, RepliesAreReal
  <1>1. ASSUME NEW p \in Callers, Record(p) PROVE RepliesAreReal'
    <2>1. Row(p).reply = "text" => executions[Row(p).req] > 0
      BY DEF Row, ReplyText, StagesAgree
    <2> QED
      BY <1>1, <2>1 DEF Record, Insert, NoInsert, sendVars, logVars
  <1>2. ASSUME NEW p \in Callers, Respond(p) PROVE RepliesAreReal'
    <2>1. outcome[p] = "ok" => executions[Request(p)] > 0
      BY DEF StagesAgree
    <2> QED
      BY <1>2, <2>1 DEF Respond, sendVars, logVars
  <1>3. ASSUME NEW r \in Requests, ServerExecutes(r) PROVE RepliesAreReal'
    <2>1. \A x \in Requests : executions[x] > 0 => executions'[x] > 0
      BY <1>3 DEF ServerExecutes, Client!Execute
    <2>2. \A e \in log : e.req \in Requests
      BY DEF Rows
    <2> QED
      BY <1>3, <2>1, <2>2 DEF ServerExecutes, requestVars, logVars
  <1>4. ASSUME NEW p \in Callers, Execute(p) \/ SendReturns(p) \/ Leave(p)
        PROVE  RepliesAreReal'
    BY <1>4 DEF Execute, Client!Invoke, SendReturns, Client!Succeed, Client!Refuse,
                Client!GiveUp, Leave, sendVars, logVars
  <1>5. CASE Prune \/ Tick \/ Restart \/ UNCHANGED vars
    BY <1>5 DEF Prune, Tick, Restart, vars, sendVars, requestVars, logVars
  <1>6. CASE Crash
    BY <1>6 DEF Crash, logVars
  <1> QED
    BY <1>1, <1>2, <1>3, <1>4, <1>5, <1>6 DEF Next, HandlerStep

\* An answer comes after the attempt to record, from a browser that did not
\* cancel it.
LEMMA AnsweredStep == TypeOK /\ IInv /\ [Next]_vars => AnsweredWasRecorded'
  <1> SUFFICES ASSUME TypeOK, IInv, [Next]_vars PROVE AnsweredWasRecorded'
    OBVIOUS
  <1> USE BoundsAssumption DEF TypeOK, IInv, AnsweredWasRecorded
  <1>1. ASSUME NEW p \in Callers, Record(p) PROVE AnsweredWasRecorded'
    <2>1. answer[Request(p)] = "none"
      <3>1. Request(p) \in Requests /\ call[p] \in 1..MaxCalls
        BY <1>1, CurrentRequest DEF Record, StagesAgree
      <3> QED
        BY <1>1, <3>1 DEF Record, NotYetRecorded, Request
    <2> QED
      BY <1>1, <2>1 DEF Record, Insert, NoInsert
  <1>2. ASSUME NEW p \in Callers, Respond(p) PROVE AnsweredWasRecorded'
    BY <1>2 DEF Respond, StagesAgree
  <1>3. ASSUME NEW p \in Callers, Execute(p) \/ SendReturns(p) \/ Leave(p)
        PROVE  AnsweredWasRecorded'
    BY <1>3 DEF Execute, SendReturns, Leave
  <1>4. ASSUME NEW r \in Requests, ServerExecutes(r) PROVE AnsweredWasRecorded'
    BY <1>4 DEF ServerExecutes, requestVars
  <1>5. CASE Prune \/ Tick \/ Restart \/ UNCHANGED vars
    BY <1>5 DEF Prune, Tick, Restart, vars, requestVars
  <1>6. CASE Crash
    BY <1>6 DEF Crash
  <1> QED
    BY <1>1, <1>2, <1>3, <1>4, <1>5, <1>6 DEF Next, HandlerStep

\* Only Record adds a row, and it is later than all, with an id of its own and
\* of a request that has none.
LEMMA LogStep == TypeOK /\ IInv /\ [Next]_vars => LogIsOrdered' /\ RowsAreStored'
  <1> SUFFICES ASSUME TypeOK, IInv, [Next]_vars PROVE LogIsOrdered' /\ RowsAreStored'
    OBVIOUS
  <1> USE BoundsAssumption DEF TypeOK, IInv
  <1>0. \A e \in log : e.id \in Nat /\ e.at \in Nat /\ e.req \in Requests
    <2>1. \A e \in Rows : e.id \in Nat /\ e.at \in 0..MaxTime /\ e.req \in Requests
      BY DEF Rows
    <2> QED
      BY <2>1
  <1>1. ASSUME NEW p \in Callers, Record(p) PROVE LogIsOrdered' /\ RowsAreStored'
    <2>1. Request(p) \in Requests /\ call[p] \in 1..MaxCalls
      BY <1>1, CurrentRequest DEF Record, StagesAgree
    <2>2. fate[Request(p)] = "none"
      BY <1>1, <2>1 DEF Record, NotYetRecorded, Request
    <2>3. \A e \in log : e.req # Request(p) /\ e.id <= lastId /\ e.at <= now
      BY <2>2 DEF RowsAreStored
    <2>4. Row(p).id = lastId + 1 /\ Row(p).at = now /\ Row(p).req = Request(p)
      BY DEF Row
    <2>5. CASE log' = log \cup {Row(p)} /\ lastId' = lastId + 1
               /\ fate' = [fate EXCEPT ![Request(p)] = "stored"]
      <3>1. LogIsOrdered'
        BY <1>0, <2>3, <2>4, <2>5 DEF LogIsOrdered
      <3>2. RowsAreStored'
        BY <1>0, <1>1, <2>1, <2>3, <2>4, <2>5 DEF RowsAreStored, Record, Insert, NoInsert
      <3> QED
        BY <3>1, <3>2
    <2>6. ASSUME NEW why \in {"cancelled", "refused"}, NoInsert(p, why)
          PROVE  LogIsOrdered' /\ RowsAreStored'
      BY <1>0, <1>1, <2>3, <2>6 DEF Record, NoInsert, logVars, LogIsOrdered, RowsAreStored
    <2> QED
      BY <1>1, <2>5, <2>6 DEF Record, Insert
  <1>2. CASE Prune
    BY <1>2 DEF Prune, requestVars, LogIsOrdered, RowsAreStored
  <1>3. CASE Tick
    BY <1>0, <1>3 DEF Tick, requestVars, logVars, LogIsOrdered, RowsAreStored
  <1>4. ASSUME NEW p \in Callers, Execute(p) \/ SendReturns(p) \/ Leave(p) \/ Respond(p)
        PROVE  LogIsOrdered' /\ RowsAreStored'
    BY <1>4 DEF Execute, SendReturns, Leave, Respond, logVars, LogIsOrdered, RowsAreStored
  <1>5. ASSUME NEW r \in Requests, ServerExecutes(r) PROVE LogIsOrdered' /\ RowsAreStored'
    BY <1>5 DEF ServerExecutes, requestVars, logVars, LogIsOrdered, RowsAreStored
  <1>6. CASE Crash \/ Restart \/ UNCHANGED vars
    BY <1>6 DEF Crash, Restart, vars, requestVars, logVars, LogIsOrdered, RowsAreStored
  <1> QED
    BY <1>1, <1>2, <1>3, <1>4, <1>5, <1>6 DEF Next, HandlerStep

\* A step adds one row, or some go (sqlite.go:84-92, 116-126).
LEMMA FiniteStep == TypeOK /\ IInv /\ [Next]_vars => IsFiniteSet(log)'
  <1> SUFFICES ASSUME IInv, [Next]_vars PROVE IsFiniteSet(log')
    OBVIOUS
  <1>1. IsFiniteSet(log)
    BY DEF IInv
  <1>2. log' \subseteq log \/ \E p \in Callers : log' = log \cup {Row(p)}
    BY DEF Next, HandlerStep, Execute, SendReturns, Record, Insert, NoInsert, Respond, Leave, ServerExecutes, Prune,
           Tick, Crash, Restart, logVars, vars
  <1> QED
    BY <1>1, <1>2, FS_Subset, FS_AddElement

\* What lies ahead of a call has neither a row nor an answer.
LEMMA AheadStep == TypeOK /\ IInv /\ [Next]_vars => NotYetRecorded'
  <1> SUFFICES ASSUME TypeOK, IInv, [Next]_vars PROVE NotYetRecorded'
    OBVIOUS
  <1> USE BoundsAssumption DEF TypeOK, IInv, NotYetRecorded
  <1>1. ASSUME NEW p \in Callers, Execute(p) PROVE NotYetRecorded'
    BY <1>1 DEF Execute, Client!Invoke
  <1>2. ASSUME NEW p \in Callers, SendReturns(p) PROVE NotYetRecorded'
    BY <1>2 DEF SendReturns, Client!Succeed, Client!Refuse, Client!GiveUp
  <1>3. ASSUME NEW p \in Callers, Record(p) PROVE NotYetRecorded'
    BY <1>3 DEF Record, Insert, NoInsert, Request, Requests, sendVars
  <1>4. ASSUME NEW p \in Callers, Respond(p) PROVE NotYetRecorded'
    BY <1>4 DEF Respond, Request, Requests, sendVars
  <1>5. ASSUME NEW p \in Callers, Leave(p) PROVE NotYetRecorded'
    BY <1>5 DEF Leave, sendVars
  <1>6. ASSUME NEW r \in Requests, ServerExecutes(r) PROVE NotYetRecorded'
    BY <1>6 DEF ServerExecutes, Client!Execute, requestVars
  <1>7. CASE Crash
    <2>1. ASSUME NEW p \in Callers, NEW k \in 1..MaxCalls, k > call[p]
          PROVE  answer'[<<p, k>>] = answer[<<p, k>>]
      <3>1. <<p, k>> \in Requests /\ <<p, k>>[1] = p
        BY DEF Requests
      <3>2. <<p, k>> # Request(p)
        BY <2>1 DEF Request
      <3> QED
        BY <1>7, <3>1, <3>2 DEF Crash
    <2>2. ASSUME NEW p \in Callers, NEW k \in 1..MaxCalls, k > call[p]
          PROVE  fate[<<p, k>>] = "none" /\ answer[<<p, k>>] = "none"
      BY <2>2
    <2>3. \A p \in Callers : stage'[p] = "idle"
      BY <1>7 DEF Crash
    <2>4. call' = call /\ fate' = fate
      BY <1>7 DEF Crash
    <2> QED
      BY <2>1, <2>2, <2>3, <2>4
  <1>8. CASE Prune \/ Tick \/ Restart \/ UNCHANGED vars
    BY <1>8 DEF Prune, Tick, Restart, vars, sendVars, requestVars
  <1> QED
    BY <1>1, <1>2, <1>3, <1>4, <1>5, <1>6, <1>7, <1>8 DEF Next, HandlerStep

-----------------------------------------------------------------------------
\* Every reachable state is typed and keeps the invariant: no interleaving of
\* handlers, browsers that leave, the pruner and crashes breaks it.
THEOREM LogInvariant == Spec => [](TypeOK /\ IInv)
  <1>1. Init => TypeOK /\ IInv
    BY TypeInit, IInvInit
  <1>2. TypeOK /\ IInv /\ [Next]_vars => (TypeOK /\ IInv)'
    <2>1. IInv => StagesAgree
      BY DEF IInv
    <2> QED
      BY <2>1, TypeStep, RepliesStep, AnsweredStep, LogStep, AheadStep, StagesStep, FiniteStep DEF IInv
  <1> QED
    BY <1>1, <1>2, PTL DEF Spec

\* Every variable has its type (handlers.go, sqlite.go, main.go).
THEOREM LogTypes == Spec => []TypeOK
  BY LogInvariant, PTL

\* A stored or shown reply was given (handlers.go:163-206).
THEOREM LoggedRepliesAreReal == Spec => []RepliesAreReal
  <1>1. IInv => RepliesAreReal
    BY DEF IInv
  <1> QED
    BY <1>1, LogInvariant, PTL

\* Who has seen an answer finds the entry, or the store has failed
\* (handlers.go:177-206).
THEOREM AnsweredIsRecorded == Spec => []AnsweredWasRecorded
  <1>1. IInv => AnsweredWasRecorded
    BY DEF IInv
  <1> QED
    BY <1>1, LogInvariant, PTL

\* The log holds a command once, and its ids grow with time (sqlite.go:84-92).
THEOREM LogStaysOrdered == Spec => []LogIsOrdered
  <1>1. IInv => LogIsOrdered
    BY DEF IInv
  <1> QED
    BY <1>1, LogInvariant, PTL

-----------------------------------------------------------------------------
(* A page of the log (sqlite.go:95-114).  The rows are in a strict order, so the number
   of rows before each is a numbering of the log from 0. *)

Ahead(e) == {f \in log : Before(f, e)}

LEMMA RowsTyped ==
  ASSUME TypeOK, NEW e \in log
  PROVE  e.id \in Nat /\ e.at \in Nat
  <1>1. \A r \in Rows : r.id \in Nat /\ r.at \in 0..MaxTime
    BY DEF Rows
  <1> QED
    BY <1>1, BoundsAssumption DEF TypeOK

\* What comes before a row has fewer rows before it.
LEMMA FewerAhead ==
  ASSUME TypeOK, IsFiniteSet(log), NEW e \in log, NEW f \in log, Before(e, f)
  PROVE  /\ Cardinality(Ahead(e)) \in Nat /\ Cardinality(Ahead(f)) \in Nat
         /\ Cardinality(Ahead(e)) < Cardinality(Ahead(f))
  <1>1. e \notin Ahead(e) /\ e \in Ahead(f)
    BY RowsTyped DEF Ahead, Before
  <1>2. Ahead(e) \subseteq Ahead(f)
    BY RowsTyped DEF Ahead, Before
  <1>3. IsFiniteSet(Ahead(f))
    BY FS_Subset DEF Ahead
  <1>4. /\ IsFiniteSet(Ahead(e))
        /\ Cardinality(Ahead(e)) <= Cardinality(Ahead(f))
        /\ Cardinality(Ahead(e)) # Cardinality(Ahead(f))
    BY <1>1, <1>2, <1>3, FS_Subset
  <1>5. Cardinality(Ahead(e)) \in Nat /\ Cardinality(Ahead(f)) \in Nat
    BY <1>3, <1>4, FS_CardinalityType
  <1> QED
    BY <1>4, <1>5

\* The numbering.
LEMMA RowsAreNumbered ==
  ASSUME TypeOK, LogIsOrdered, IsFiniteSet(log)
  PROVE  /\ Cardinality(log) \in Nat
         /\ [e \in log |-> Cardinality(Ahead(e))] \in Bijection(log, 0..(Cardinality(log) - 1))
  <1> DEFINE n == Cardinality(log)
             rank == [e \in log |-> Cardinality(Ahead(e))]
  <1>1. n \in Nat
    BY FS_CardinalityType
  <1>2. ASSUME NEW e \in log PROVE Cardinality(Ahead(e)) \in 0..(n - 1)
    <2>1. Ahead(e) \subseteq log /\ Ahead(e) # log
      <3>1. e \notin Ahead(e)
        BY RowsTyped DEF Ahead, Before
      <3> QED
        BY <3>1 DEF Ahead
    <2>2. IsFiniteSet(Ahead(e)) /\ Cardinality(Ahead(e)) <= n /\ Cardinality(Ahead(e)) # n
      BY <2>1, FS_Subset
    <2>3. Cardinality(Ahead(e)) \in Nat
      BY <2>2, FS_CardinalityType
    <2> HIDE DEF n
    <2> QED
      BY <1>1, <2>2, <2>3
  <1>3. ASSUME NEW e \in log, NEW f \in log, rank[e] = rank[f] PROVE e = f
    <2>1. rank[e] = Cardinality(Ahead(e)) /\ rank[f] = Cardinality(Ahead(f))
      OBVIOUS
    <2>2. e # f => Before(e, f) \/ Before(f, e)
      BY RowsTyped DEF LogIsOrdered, Before
    <2>3. ~Before(e, f)
      BY <1>3, <2>1, FewerAhead
    <2>4. ~Before(f, e)
      BY <1>3, <2>1, FewerAhead
    <2> QED
      BY <2>2, <2>3, <2>4
  <1>4. rank \in Injection(log, 0..(n - 1))
    BY <1>2, <1>3 DEF Injection, IsInjective
  <1>5. IsFiniteSet(0..(n - 1)) /\ Cardinality(0..(n - 1)) = n
    <2> HIDE DEF n
    <2>1. 0 \in Int /\ n - 1 \in Int
      BY <1>1
    <2>2. /\ IsFiniteSet(0..(n - 1))
          /\ Cardinality(0..(n - 1)) = IF 0 > n - 1 THEN 0 ELSE (n - 1) - 0 + 1
      BY <2>1, FS_Interval
    <2> QED
      BY <1>1, <2>2
  <1>6. rank \in Surjection(log, 0..(n - 1))
    BY <1>4, <1>5, FS_Injection
  <1> QED
    BY <1>1, <1>4, <1>6 DEF Bijection

\* As many rows as the page holds, if there are so many: those with the lowest numbers.
LEMMA PageIsFull ==
  ASSUME TypeOK, LogIsOrdered, IsFiniteSet(log)
  PROVE  Cardinality(GetLogs) = IF Cardinality(log) < Limit THEN Cardinality(log) ELSE Limit
  <1> DEFINE n == Cardinality(log)
             k == IF n < Limit THEN n ELSE Limit
             rank == [e \in log |-> Cardinality(Ahead(e))]
             page == [e \in GetLogs |-> Cardinality(Ahead(e))]
  <1>1. n \in Nat /\ rank \in Bijection(log, 0..(n - 1))
    BY RowsAreNumbered
  <1>2. GetLogs = {e \in log : rank[e] < Limit}
    BY DEF GetLogs, Ahead
  <1>3. \A e \in GetLogs : page[e] = rank[e]
    BY <1>2
  <1>4. /\ \A e \in log : rank[e] \in 0..(n - 1)
        /\ \A i \in 0..(n - 1) : \E e \in log : rank[e] = i
        /\ \A e, f \in log : rank[e] = rank[f] => e = f
    BY <1>1 DEF Bijection, Surjection, Injection, IsInjective
  <1>5. DOMAIN page = GetLogs /\ page = [e \in GetLogs |-> page[e]]
    OBVIOUS
  <1>6. k \in Nat /\ \A i \in 0..(n - 1) : i \in 0..(k - 1) <=> i < Limit
    BY <1>1, BoundsAssumption
  <1>7. 0..(k - 1) \subseteq 0..(n - 1)
    BY <1>1, BoundsAssumption
  <1> HIDE DEF rank, page, n, k
  <1>8. page \in Bijection(GetLogs, 0..(k - 1))
    <2>1. page \in [GetLogs -> 0..(k - 1)]
      BY <1>2, <1>3, <1>4, <1>5, <1>6
    <2>2. \A e, f \in GetLogs : page[e] = page[f] => e = f
      BY <1>2, <1>3, <1>4
    <2>3. \A i \in 0..(k - 1) : \E e \in GetLogs : page[e] = i
      BY <1>2, <1>3, <1>4, <1>6, <1>7
    <2> QED
      BY <2>1, <2>2, <2>3 DEF Bijection, Surjection, Injection, IsInjective
  <1>9. IsFiniteSet(GetLogs) /\ ExistsBijection(GetLogs, 0..(k - 1))
    BY <1>2, <1>8, FS_Subset DEF ExistsBijection
  <1>10. Cardinality(0..(k - 1)) = Cardinality(GetLogs)
    BY <1>9, FS_Bijection
  <1>11. Cardinality(0..(k - 1)) = IF 0 > k - 1 THEN 0 ELSE (k - 1) - 0 + 1
    <2>1. 0 \in Int /\ k - 1 \in Int
      BY <1>6
    <2> QED
      BY <2>1, FS_Interval
  <1>12. Cardinality(GetLogs) = k
    BY <1>6, <1>10, <1>11
  <1> QED
    BY <1>12 DEF k, n

\* A page prefers no row to one of a later second and is full when the log has enough,
\* in every state of a log that is written by many and pruned meanwhile (sqlite.go:95-101).
THEOREM PageStaysRecent == Spec => []PageIsRecent
  <1>1. TypeOK /\ IInv => PageIsRecent
    <2> SUFFICES ASSUME TypeOK, IInv PROVE PageIsRecent
      OBVIOUS
    <2>1. ASSUME NEW e \in GetLogs, NEW f \in log \ GetLogs PROVE e.at >= f.at
      <3>1. e \in log /\ Cardinality(Ahead(e)) < Limit
        BY DEF GetLogs, Ahead
      <3>2. ~(Cardinality(Ahead(f)) < Limit)
        BY DEF GetLogs, Ahead
      <3>3. Before(f, e) => FALSE
        <4> SUFFICES ASSUME Before(f, e) PROVE FALSE
          OBVIOUS
        <4>1. /\ Cardinality(Ahead(e)) \in Nat /\ Cardinality(Ahead(f)) \in Nat
              /\ Cardinality(Ahead(f)) < Cardinality(Ahead(e))
          BY <3>1, FewerAhead DEF IInv
        <4> QED
          BY <3>1, <3>2, <4>1, BoundsAssumption
      <3> QED
        BY <3>1, <3>3, RowsTyped DEF Before
    <2> QED
      BY <2>1, PageIsFull DEF IInv, PageIsRecent
  <1> QED
    BY <1>1, LogInvariant, PTL
=============================================================================

--------------------------- MODULE LifecycleProofs ---------------------------
(***************************************************************************)
(* Proofs about Lifecycle for any servers, configurations, number of       *)
(* starts and of templates.                                                *)
(***************************************************************************)
EXTENDS Lifecycle, TLAPS

\* What is left of a non-empty sequence when its first element is taken.
LEMMA TailTyped ==
  ASSUME NEW S, NEW s \in Seq(S), s # <<>>
  PROVE  /\ Head(s) \in S
         /\ Tail(s) \in Seq(S)
         /\ Len(Tail(s)) = Len(s) - 1
         /\ Len(s) \in Nat
  OBVIOUS

LEMMA ConfigTyped ==
  ASSUME TypeOK, NEW s \in Servers
  PROVE  config[s] \in Seq(Names)
  <1>1. config[s] \in Configs \cup {<<>>}
    BY DEF TypeOK
  <1>2. Configs \subseteq Seq(Names)
    BY ServersAssumption
  <1>3. CASE config[s] \in Configs
    BY <1>2, <1>3
  <1>4. CASE config[s] = <<>>
    BY <1>4
  <1> QED
    BY <1>1, <1>3, <1>4

\* The entry that a start inserts next is one of the server's (main.go:103-104).
LEMMA NextEntry ==
  ASSUME TypeOK, SeedingIsFresh, phase = "insert", items # <<>>
  PROVE  /\ Head(todo) \in Servers
         /\ Head(items) \in Names
         /\ Position \in Nat \ {0}
         /\ Len(items) \in Nat
         /\ Len(config[Head(todo)]) \in Nat
  <1>1. todo \in Seq(Servers) /\ todo # <<>> /\ items \in Seq(Names)
    BY DEF TypeOK, SeedingIsFresh
  <1>2. Head(todo) \in Servers /\ Head(items) \in Names /\ Len(items) \in Nat
    BY <1>1, TailTyped
  <1>3. Len(config[Head(todo)]) \in Nat
    BY <1>2, ConfigTyped
  <1>4. Len(items) <= Len(config[Head(todo)])
    BY DEF SeedingIsFresh
  <1> QED
    BY <1>2, <1>3, <1>4 DEF Position

LEMMA TypeInit == Init => TypeOK
  BY BoundsAssumption DEF Init, TypeOK, States

LEMMA TypeStep == TypeOK /\ SeedingIsFresh /\ [Next]_vars => TypeOK'
  <1> SUFFICES ASSUME TypeOK, SeedingIsFresh, [Next]_vars PROVE TypeOK'
    OBVIOUS
  <1> USE BoundsAssumption DEF TypeOK
  <1>1. CASE Start
    <2>1. todo' \in Seq(Servers)
      BY <1>1, ServersAssumption DEF Start
    <2>2. config' \in [Servers -> Configs \cup {<<>>}]
      BY <1>1 DEF Start
    <2> QED
      BY <1>1, <2>1, <2>2 DEF Start, tableVars
  <1>2. CASE SeedState
    <2>1. Head(todo) \in Servers /\ todo' \in Seq(Servers)
      BY <1>2, TailTyped DEF SeedState
    <2>2. desired' \in [Servers -> States \cup {"unset"}] /\ misread' \subseteq Servers
      BY <1>2, <2>1 DEF SeedState, States
    <2> QED
      BY <1>2, <2>1, <2>2 DEF SeedState
  <1>3. CASE StatesSeeded
    <2>1. todo' \in Seq(Servers)
      BY <1>3, ServersAssumption DEF StatesSeeded
    <2> QED
      BY <1>3, <2>1 DEF StatesSeeded, tableVars, history
  <1>4. CASE CheckTemplates
    <2>1. Head(todo) \in Servers /\ Tail(todo) \in Seq(Servers)
      BY <1>4, TailTyped DEF CheckTemplates
    <2>2. config[Head(todo)] \in Seq(Names)
      BY <2>1, ConfigTyped
    <2>3. phase' \in {"insert", "templates"} /\ todo' \in Seq(Servers) /\ items' \in Seq(Names)
      BY <1>4, <2>1, <2>2 DEF CheckTemplates
    <2> QED
      BY <1>4, <2>3 DEF CheckTemplates, tableVars, history
  <1>5. CASE SeedTemplate
    <2>1. /\ Head(todo) \in Servers /\ Head(items) \in Names /\ Position \in Nat
          /\ Tail(items) \in Seq(Names)
      BY <1>5, NextEntry, TailTyped DEF SeedTemplate
    <2>2. starts \in Nat
      OBVIOUS
    <2>3. templates' \subseteq Rows /\ lastId' \in Nat
      BY <1>5, <2>1, <2>2 DEF SeedTemplate, Rows
    <2>4. skipped' \subseteq Servers
      BY <1>5, <2>1 DEF SeedTemplate
    <2> QED
      BY <1>5, <2>1, <2>3, <2>4 DEF SeedTemplate
  <1>6. CASE ServerSeeded
    <2>1. todo' \in Seq(Servers)
      BY <1>6, TailTyped DEF ServerSeeded, SeedingIsFresh
    <2> QED
      BY <1>6, <2>1 DEF ServerSeeded, tableVars, history
  <1>7. CASE Serve
    BY <1>7 DEF Serve, tableVars, history
  <1>8. CASE Stop
    BY <1>8 DEF Stop, tableVars, history
  <1>9. ASSUME NEW s \in Servers, NEW state \in States, SetPower(s, state) PROVE TypeOK'
    BY <1>9 DEF SetPower, startVars
  <1>10. ASSUME NEW s \in Servers, NEW name \in Names, CreateTemplate(s, name) PROVE TypeOK'
    BY <1>10 DEF CreateTemplate, startVars, history, Rows
  <1>11. ASSUME NEW t \in templates, NEW name \in Names, UpdateTemplate(t, name) PROVE TypeOK'
    BY <1>11 DEF UpdateTemplate, startVars, history, Rows
  <1>12. ASSUME NEW t \in templates, DeleteTemplate(t) PROVE TypeOK'
    BY <1>12 DEF DeleteTemplate, startVars, history
  <1>13. CASE Scrape
    <2>1. metric' \in [Servers -> States]
      BY <1>13 DEF Scrape, OrRunning, States
    <2> QED
      BY <1>13, <2>1 DEF Scrape, tableVars, startVars, history
  <1>14. CASE UNCHANGED vars
    BY <1>14 DEF vars, tableVars, startVars, history
  <1> QED
    BY <1>1, <1>2, <1>3, <1>4, <1>5, <1>6, <1>7, <1>8, <1>9, <1>10, <1>11, <1>12, <1>13, <1>14
    DEF Next, Starting, Requests

-----------------------------------------------------------------------------
(* The power switch. *)

LEMMA PowerStep ==
  TypeOK /\ DesiredIsWanted /\ StopsAreWanted /\ [Next]_vars => DesiredIsWanted' /\ StopsAreWanted'
  <1> SUFFICES ASSUME TypeOK, DesiredIsWanted, StopsAreWanted, [Next]_vars
               PROVE  DesiredIsWanted' /\ StopsAreWanted'
    OBVIOUS
  <1> USE DEF TypeOK, DesiredIsWanted, StopsAreWanted, OrRunning
  <1>1. CASE SeedState
    <2>1. CASE UNCHANGED <<desired, misread>>
      BY <1>1, <2>1 DEF SeedState
    <2>2. CASE /\ desired' = [desired EXCEPT ![Head(todo)] = "running"]
               /\ misread' = misread \cup {Head(todo)}
      BY <1>1, <2>2 DEF SeedState
    <2> QED
      BY <1>1, <2>1, <2>2 DEF SeedState
  <1>2. ASSUME NEW s \in Servers, NEW state \in States, SetPower(s, state)
        PROVE  DesiredIsWanted' /\ StopsAreWanted'
    BY <1>2 DEF SetPower, States
  <1>3. CASE UNCHANGED <<desired, wanted, misread>>
    BY <1>3
  <1>4. ASSUME ~SeedState, \A s \in Servers, state \in States : ~SetPower(s, state)
        PROVE  UNCHANGED <<desired, wanted, misread>>
    BY <1>4 DEF Next, Starting, Requests, Start, StatesSeeded, CheckTemplates, SeedTemplate,
                ServerSeeded, Serve, Stop, CreateTemplate, UpdateTemplate, DeleteTemplate,
                Scrape, vars, tableVars, history
  <1> QED
    BY <1>1, <1>2, <1>3, <1>4

-----------------------------------------------------------------------------
(* Seeding. *)

\* Only SeedTemplate adds a row that comes from the configuration.
LEMMA SeededStep ==
  TypeOK /\ SeedingIsFresh /\ SeededOnce /\ [Next]_vars => SeededOnce'
  <1> SUFFICES ASSUME TypeOK, SeedingIsFresh, SeededOnce, [Next]_vars PROVE SeededOnce'
    OBVIOUS
  <1> USE DEF TypeOK, SeededOnce
  <1>1. CASE SeedTemplate
    <2> DEFINE new == [id |-> lastId + 1, server |-> Head(todo), name |-> Head(items),
                       item |-> Position, start |-> starts]
    <2>1. \A t \in templates : t.server = Head(todo) => t.start = starts /\ t.item < Position
      BY <1>1 DEF SeedTemplate, SeedingIsFresh, RowsOf
    <2>2. \A t \in templates : t.item \in Nat
      BY DEF Rows
    <2>3. Position \in Nat
      BY <1>1, NextEntry DEF SeedTemplate
    <2>4. CASE templates' = templates \cup {new}
      BY <2>1, <2>2, <2>3, <2>4
    <2>5. CASE UNCHANGED templates
      BY <2>5
    <2> QED
      BY <1>1, <2>4, <2>5 DEF SeedTemplate
  <1>2. ASSUME NEW s \in Servers, NEW name \in Names, CreateTemplate(s, name) PROVE SeededOnce'
    BY <1>2 DEF CreateTemplate
  <1>3. ASSUME NEW t \in templates, NEW name \in Names, UpdateTemplate(t, name) PROVE SeededOnce'
    <2> DEFINE new == [t EXCEPT !.name = name]
    <2>1. t \in Rows
      OBVIOUS
    <2>2. new.server = t.server /\ new.item = t.item /\ new.start = t.start
      BY <2>1 DEF Rows
    <2>3. templates' = (templates \ {t}) \cup {new}
      BY <1>3 DEF UpdateTemplate
    <2> HIDE DEF new
    <2> QED
      BY <2>2, <2>3
  <1>4. ASSUME NEW t \in templates, DeleteTemplate(t) PROVE SeededOnce'
    BY <1>4 DEF DeleteTemplate
  <1>5. CASE UNCHANGED templates
    BY <1>5
  <1>6. CASE Start \/ SeedState \/ StatesSeeded \/ CheckTemplates \/ ServerSeeded \/ Serve
             \/ Stop \/ Scrape \/ UNCHANGED vars
    BY <1>5, <1>6 DEF Start, SeedState, StatesSeeded, CheckTemplates, ServerSeeded, Serve,
                      Stop, Scrape, vars, tableVars
  <1>7. ASSUME NEW s \in Servers, NEW state \in States, SetPower(s, state) PROVE SeededOnce'
    BY <1>5, <1>7 DEF SetPower
  <1> QED
    BY <1>1, <1>2, <1>3, <1>4, <1>6, <1>7 DEF Next, Starting, Requests

\* CheckTemplates begins with a server that has no rows, and SeedTemplate goes
\* on to the next entry.
LEMMA FreshStep == TypeOK /\ SeedingIsFresh /\ [Next]_vars => SeedingIsFresh'
  <1> SUFFICES ASSUME TypeOK, SeedingIsFresh, [Next]_vars, phase' = "insert"
               PROVE  /\ todo' # <<>>
                      /\ Len(items') <= Len(config'[Head(todo')])
                      /\ \A t \in templates' :
                           t.server = Head(todo') =>
                             t.start = starts' /\ t.item < Len(config'[Head(todo')]) - Len(items') + 1
    BY DEF SeedingIsFresh, RowsOf, Position
  <1> USE DEF TypeOK
  <1>1. CASE CheckTemplates
    <2>1. /\ ToSeed(Head(todo)) /\ items' = config[Head(todo)]
          /\ UNCHANGED <<todo, templates, config, starts>>
      BY <1>1 DEF CheckTemplates, tableVars
    <2>2. \A t \in templates : t.server # Head(todo)
      BY <2>1 DEF ToSeed, RowsOf
    <2>3. todo # <<>> /\ Head(todo) \in Servers
      BY <1>1, TailTyped DEF CheckTemplates
    <2>4. Len(config[Head(todo)]) \in Nat
      BY <2>3, ConfigTyped
    <2> QED
      BY <2>1, <2>2, <2>3, <2>4
  <1>2. CASE SeedTemplate
    <2>1. /\ Len(items) \in Nat /\ Len(config[Head(todo)]) \in Nat
          /\ Len(items') = Len(items) - 1
      BY <1>2, NextEntry, TailTyped DEF SeedTemplate
    <2>2. UNCHANGED <<todo, config, starts>>
      BY <1>2 DEF SeedTemplate
    <2>3. \A t \in templates' :
            \/ t \in templates
            \/ t.start = starts /\ t.item = Len(config[Head(todo)]) - Len(items) + 1
      BY <1>2 DEF SeedTemplate, Position
    <2>4. /\ todo # <<>> /\ Len(items) <= Len(config[Head(todo)])
          /\ \A t \in templates : t.server = Head(todo) =>
               t.start = starts /\ t.item < Len(config[Head(todo)]) - Len(items) + 1
      BY <1>2 DEF SeedTemplate, SeedingIsFresh, RowsOf, Position
    <2>5. \A t \in templates : t.item \in Nat
      BY DEF Rows
    <2> QED
      BY <2>1, <2>2, <2>3, <2>4, <2>5
  <1>3. CASE UNCHANGED vars
    BY <1>3 DEF vars, tableVars, startVars, SeedingIsFresh, RowsOf, Position
  <1>4. ~(Start \/ SeedState \/ StatesSeeded \/ ServerSeeded \/ Serve \/ Stop)
    BY DEF Start, SeedState, StatesSeeded, ServerSeeded, Serve, Stop
  <1>5. ~Requests
    BY DEF Requests, SetPower, CreateTemplate, UpdateTemplate, DeleteTemplate, Scrape, startVars
  <1> QED
    BY <1>1, <1>2, <1>3, <1>4, <1>5 DEF Next, Starting

\* No step invents a row of a start to come (main.go:88-124).
LEMMA RowsAreOldStep == TypeOK /\ RowsAreOld /\ [Next]_vars => RowsAreOld'
  <1> SUFFICES ASSUME TypeOK, RowsAreOld, [Next]_vars PROVE RowsAreOld'
    OBVIOUS
  <1> USE BoundsAssumption DEF TypeOK, RowsAreOld
  <1>0. starts \in Nat /\ \A t \in templates : t.start \in Nat
    BY DEF Rows
  <1>1. CASE Start
    BY <1>0, <1>1 DEF Start, tableVars
  <1>2. CASE SeedTemplate
    BY <1>0, <1>2 DEF SeedTemplate
  <1>3. ASSUME NEW s \in Servers, NEW name \in Names, CreateTemplate(s, name) PROVE RowsAreOld'
    BY <1>0, <1>3 DEF CreateTemplate, startVars
  <1>4. ASSUME NEW t \in templates, NEW name \in Names, UpdateTemplate(t, name) PROVE RowsAreOld'
    <2>1. t \in Rows /\ starts' = starts
      BY <1>4 DEF UpdateTemplate, startVars
    <2>2. [t EXCEPT !.name = name].start = t.start
      BY <2>1 DEF Rows
    <2> QED
      BY <1>4, <2>1, <2>2 DEF UpdateTemplate
  <1>5. ASSUME NEW t \in templates, DeleteTemplate(t) PROVE RowsAreOld'
    BY <1>5 DEF DeleteTemplate, startVars
  <1>6. CASE UNCHANGED <<templates, starts>>
    BY <1>6
  <1>7. ASSUME ~Start, ~SeedTemplate,
               \A s \in Servers, name \in Names : ~CreateTemplate(s, name),
               \A t \in templates, name \in Names : ~UpdateTemplate(t, name),
               \A t \in templates : ~DeleteTemplate(t)
        PROVE  UNCHANGED <<templates, starts>>
    BY <1>7 DEF Next, Starting, Requests, SeedState, StatesSeeded, CheckTemplates, ServerSeeded,
                Serve, Stop, SetPower, Scrape, vars, tableVars, startVars
  <1> QED
    BY <1>1, <1>2, <1>3, <1>4, <1>5, <1>6, <1>7

\* An insertion adds the next entry to those that the start has inserted.
LEMMA SeedTemplateInserts ==
  ASSUME TypeOK, SeedingIsFresh, SeedsAreWhole, SeedTemplate
  PROVE  SeedsAreWhole'
  <1> DEFINE k == Position
             new == [id |-> lastId + 1, server |-> Head(todo), name |-> Head(items),
                     item |-> k, start |-> starts]
  <1>1. /\ Head(todo) \in Servers /\ k \in Nat \ {0}
        /\ Len(items) \in Nat /\ Len(config[Head(todo)]) \in Nat
        /\ Len(items') = Len(items) - 1
    BY NextEntry, TailTyped DEF SeedTemplate, TypeOK
  <1>2. UNCHANGED <<todo, config, phase, starts>> /\ phase = "insert"
    BY DEF SeedTemplate
  <1>3. Position' = k + 1
    BY <1>1, <1>2 DEF Position
  <1>4. CASE templates' = templates \cup {new} /\ skipped' = skipped
    <2>1. new.server = Head(todo) /\ new.item = k /\ new.start = starts
      OBVIOUS
    <2> HIDE DEF k, new
    <2>2. ASSUME NEW s \in Servers \ skipped', s # Head(todo)'
          PROVE  Seeded(s)' \in {{}, 1..Len(config[s]')}
      <3>1. Seeded(s)' = Seeded(s)
        BY <1>2, <1>4, <2>1, <2>2 DEF Seeded, RowsOf
      <3> QED
        BY <1>2, <1>4, <2>2, <3>1 DEF SeedsAreWhole
    <2>3. ASSUME Head(todo) \notin skipped'
          PROVE  Seeded(Head(todo))' = 1..(Position' - 1)
      <3>1. Seeded(Head(todo))' = Seeded(Head(todo)) \cup {k}
        BY <1>2, <1>4, <2>1 DEF Seeded, RowsOf
      <3>2. Seeded(Head(todo)) = 1..(k - 1)
        BY <1>1, <1>2, <1>4, <2>3 DEF SeedsAreWhole, k
      <3>3. 1..(k - 1) \cup {k} = 1..k
        BY <1>1
      <3>4. Position' - 1 = k
        BY <1>1, <1>3
      <3> QED
        BY <3>1, <3>2, <3>3, <3>4
    <2> QED
      BY <1>2, <2>2, <2>3 DEF SeedsAreWhole
  <1>5. CASE templates' = templates /\ skipped' = skipped \cup {Head(todo)}
    <2> SUFFICES ASSUME NEW s \in Servers, s \notin skipped'
                 PROVE  s # Head(todo) /\ Seeded(s)' \in {{}, 1..Len(config[s])}
      BY <1>2 DEF SeedsAreWhole
    <2>1. s # Head(todo) /\ Seeded(s)' = Seeded(s)
      BY <1>2, <1>5 DEF Seeded, RowsOf
    <2> QED
      BY <1>2, <1>5, <2>1 DEF SeedsAreWhole
  <1> QED
    BY <1>4, <1>5 DEF SeedTemplate

\* A server's seeding begins when it has nothing and ends with its last entry
\* (main.go:88-124).
LEMMA SeedsStep ==
  TypeOK /\ SeedingIsFresh /\ RowsAreOld /\ SeedsAreWhole /\ [Next]_vars => SeedsAreWhole'
  <1> SUFFICES ASSUME TypeOK, SeedingIsFresh, RowsAreOld, SeedsAreWhole, [Next]_vars
               PROVE  SeedsAreWhole'
    OBVIOUS
  <1>1. CASE Start
    <2>1. starts \in Nat /\ \A t \in templates : t.start \in Nat
      BY BoundsAssumption DEF TypeOK, Rows
    <2>2. \A t \in templates' : t.start # starts'
      BY <1>1, <2>1 DEF Start, tableVars, RowsAreOld
    <2>3. \A s \in Servers : Seeded(s)' = {}
      BY <2>2 DEF Seeded, RowsOf
    <2> QED
      BY <1>1, <2>3 DEF SeedsAreWhole, Start
  <1>2. ASSUME UNCHANGED <<templates, starts, config, skipped>>, phase' # "insert",
               phase \in {"states", "templates"}
        PROVE  SeedsAreWhole'
    <2>1. \A s \in Servers : Seeded(s)' = Seeded(s)
      BY <1>2 DEF Seeded, RowsOf
    <2> QED
      BY <1>2, <2>1 DEF SeedsAreWhole
  <1>3. CASE CheckTemplates
    <2>1. UNCHANGED <<templates, starts, config, skipped>> /\ phase = "templates"
      BY <1>3 DEF CheckTemplates, tableVars, history
    <2>2. CASE phase' = "insert"
      <3>1. ToSeed(Head(todo)) /\ items' = config[Head(todo)] /\ todo' = todo
        BY <1>3, <2>2 DEF CheckTemplates
      <3>2. \A s \in Servers : Seeded(s)' = Seeded(s)
        BY <2>1 DEF Seeded, RowsOf
      <3>3. Seeded(Head(todo)) = {}
        BY <3>1 DEF ToSeed, Seeded
      <3>4. Head(todo) \in Servers
        BY <1>3, TailTyped DEF CheckTemplates, TypeOK
      <3>5. Len(config[Head(todo)]) \in Nat
        BY <3>4, ConfigTyped
      <3>6. Position' = 1
        BY <2>1, <3>1, <3>5 DEF Position
      <3>7. 1..(Position' - 1) = {}
        BY <3>6
      <3> QED
        BY <2>1, <2>2, <3>1, <3>2, <3>3, <3>7 DEF SeedsAreWhole
    <2>3. CASE phase' # "insert"
      BY <1>2, <2>1, <2>3
    <2> QED
      BY <2>2, <2>3
  <1>4. CASE SeedTemplate
    BY <1>4, SeedTemplateInserts
  <1>5. CASE ServerSeeded
    <2>1. /\ UNCHANGED <<templates, starts, config, skipped>>
          /\ phase = "insert" /\ phase' = "templates" /\ items = <<>>
      BY <1>5 DEF ServerSeeded, tableVars, history
    <2>2. \A s \in Servers : Seeded(s)' = Seeded(s)
      BY <2>1 DEF Seeded, RowsOf
    <2>3. Head(todo) \in Servers
      BY <2>1, TailTyped DEF SeedingIsFresh, TypeOK
    <2>4. Len(config[Head(todo)]) \in Nat
      BY <2>3, ConfigTyped
    <2>5. Position - 1 = Len(config[Head(todo)])
      BY <2>1, <2>4 DEF Position
    <2> QED
      BY <2>1, <2>2, <2>5 DEF SeedsAreWhole
  <1>6. CASE UNCHANGED vars
    BY <1>6 DEF vars, tableVars, startVars, history, SeedsAreWhole, Seeded, RowsOf, Position
  <1>7. CASE SeedState \/ StatesSeeded
    BY <1>2, <1>7 DEF SeedState, StatesSeeded, tableVars, history
  <1>8. CASE Serve \/ Stop \/ Requests
    BY <1>8 DEF Serve, Stop, Requests, SetPower, CreateTemplate, UpdateTemplate, DeleteTemplate,
                Scrape, startVars, SeedsAreWhole
  <1> QED
    BY <1>1, <1>3, <1>4, <1>5, <1>6, <1>7, <1>8 DEF Next, Starting

-----------------------------------------------------------------------------
\* Every reachable state is typed and keeps the invariant, wherever a start is
\* interrupted and whatever the configuration becomes.
THEOREM LifecycleInvariant == Spec => [](TypeOK /\ IInv)
  <1>1. Init => TypeOK /\ IInv
    BY TypeInit DEF Init, IInv, DesiredIsWanted, StopsAreWanted, SeededOnce, SeedingIsFresh,
                    RowsAreOld, SeedsAreWhole, OrRunning
  <1>2. TypeOK /\ IInv /\ [Next]_vars => (TypeOK /\ IInv)'
    BY TypeStep, PowerStep, SeededStep, FreshStep, RowsAreOldStep, SeedsStep DEF IInv
  <1> QED
    BY <1>1, <1>2, PTL DEF Spec

\* Every variable has its type (sqlite.go, main.go).
THEOREM LifecycleTypes == Spec => []TypeOK
  BY LifecycleInvariant, PTL

\* The stored state is what the switch was last set to, but for a start that
\* could not read it (main.go:73-86).
THEOREM SwitchIsKept == Spec => []DesiredIsWanted
  <1>1. IInv => DesiredIsWanted
    BY DEF IInv
  <1> QED
    BY <1>1, LifecycleInvariant, PTL

\* No server is seeded twice, not even over a crash (main.go:88-124).
THEOREM SeedingIsOnce == Spec => []SeededOnce
  <1>1. IInv => SeededOnce
    BY DEF IInv
  <1> QED
    BY <1>1, LifecycleInvariant, PTL

\* What a start has come past is inserted wholly, unless an insertion was refused: the
\* loop over the entries leaves none out, wherever the one before crashed (main.go:102-120).
THEOREM SeedingIsWhole == Spec => []SeedIsWhole
  <1>1. IInv => SeedIsWhole
    BY DEF IInv, SeedsAreWhole, SeedIsWhole, Passed
  <1> QED
    BY <1>1, LifecycleInvariant, PTL

\* The metric falls only for a server that was switched off (metrics.go:25-38).
THEOREM MetricFallsOnRequest == Spec => MetricStopsOnRequest
  <1>1. TypeOK /\ IInv /\ [Next]_vars =>
          [\A s \in Servers :
             metric[s] # "stopped" /\ metric'[s] = "stopped" => wanted[s] = "stopped"]_vars
    <2> SUFFICES ASSUME TypeOK, IInv, [Next]_vars, NEW s \in Servers,
                        metric[s] # "stopped", metric'[s] = "stopped"
                 PROVE  wanted[s] = "stopped"
      OBVIOUS
    <2>1. Scrape
      BY DEF Next, Starting, Requests, Start, SeedState, StatesSeeded, CheckTemplates,
             SeedTemplate, ServerSeeded, Serve, Stop, SetPower, CreateTemplate, UpdateTemplate,
             DeleteTemplate, vars, history
    <2>2. desired[s] = "stopped"
      BY <2>1 DEF Scrape, OrRunning
    <2> QED
      BY <2>2 DEF IInv, StopsAreWanted
  <1> QED
    BY <1>1, LifecycleInvariant, PTL DEF Spec, MetricStopsOnRequest
=============================================================================

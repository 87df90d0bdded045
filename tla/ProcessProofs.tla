--------------------------- MODULE ProcessProofs ----------------------------
(***************************************************************************)
(* Proofs about Process, for every set of servers, requests, players and   *)
(* configurations.  The status cache is dealt with first, on its own: a    *)
(* step of the process is a step of the cache or leaves it alone.          *)
(***************************************************************************)
EXTENDS Process, TLAPS

-----------------------------------------------------------------------------
(* The status cache. *)

\* What a step of the process does to the status cache.
StatusStep ==
    \/ /\ polling' \in {polling, {}, Servers}
       /\ UNCHANGED <<game, stuck, asked, answers, cache, shown, past>>
    \/ \E s \in Servers : GameChanges(s) \/ GetStuck(s) \/ PollerStep(s) \/ ShowStatus(s)

\* Each step of the process is one of those.
LEMMA StepOfCache == [Next]_vars => StatusStep
  <1> SUFFICES ASSUME [Next]_vars PROVE StatusStep
    OBVIOUS
  <1> USE DEF StatusStep, statusVars
  <1>1. CASE Start
    <2>1. CASE NewServer
      BY <2>1 DEF NewServer
    <2>2. CASE Start /\ ~NewServer
      BY <2>2 DEF Start, Load, OpenStore, StartPruner, ClientsMade, ResolveId, ResolveSecret,
                  ResolveKey, Discover, Launch, Notify, NewClient, OrExit, End
    <2> QED
      BY <1>1, <2>1, <2>2
  <1>2. CASE Finish
    BY <1>2 DEF Finish, BeginShutdown, Drained, DrainTimeout, CloseStore, Return, End
  <1>3. CASE Listen \/ Prune \/ Signal
    BY <1>3 DEF Listen, Prune, Signal, End
  <1>4. ASSUME NEW r \in Requests, Handle(r)
        PROVE  StatusStep
    BY <1>4 DEF Handle, Accept, Answer, Sent, Record, Stage
  <1>5. ASSUME NEW s \in Servers, Poll(s) \/ PollerPanics(s) \/ Show(s) \/ Play(s)
        PROVE  StatusStep
    BY <1>5 DEF Poll, PollerPanics, Show, Play, End
  <1>6. ASSUME NEW f \in Files, Rotate(f)
        PROVE  StatusStep
    BY <1>6 DEF Rotate
  <1>7. CASE UNCHANGED vars
    BY <1>7 DEF vars
  <1> QED
    BY <1>1, <1>2, <1>3, <1>4, <1>5, <1>6, <1>7 DEF Next

\* A poller is between tick and answer, or between answer and Set, or in neither.
OnePoll ==
    \A s \in Servers :
        /\ asked[s] \in {0, 1}
        /\ asked[s] = 1 => answers[s] = {}
        /\ \A a, b \in answers[s] : a = b

\* What is stored, and what is shown, was so, and comes in the order of the polls.
AnswersWereTrue ==
    \A s \in Servers :
        /\ game[s] \in past[s]
        /\ \A a \in answers[s] : WasTrue(s, a) /\ cache[s].moment <= a.moment
                                              /\ a.moment <= game[s].moment
        /\ shown[s].moment <= cache[s].moment
        /\ cache[s].moment <= game[s].moment

StatusInv == StatusTypeOK /\ OnePoll /\ AnswersWereTrue /\ StatusWasTrue

LEMMA StatusStart == StatusInit => StatusInv
  <1> SUFFICES ASSUME StatusInit PROVE StatusInv
    OBVIOUS
  <1> USE MomentsAssumption DEF StatusInit, Moments
  <1>1. StatusTypeOK
    BY DEF StatusTypeOK, GameStates, Statuses, Unknown, Offline
  <1>2. OnePoll
    BY DEF OnePoll
  <1>3. AnswersWereTrue
    <2> SUFFICES ASSUME NEW s \in Servers
                 PROVE  /\ game[s] \in past[s]
                        /\ answers[s] = {}
                        /\ shown[s].moment <= cache[s].moment
                        /\ cache[s].moment <= game[s].moment
      BY DEF AnswersWereTrue
    <2>1. game[s].moment = 0 /\ cache[s].moment = 0 /\ shown[s].moment = 0
      BY DEF StatusInit, Unknown, Offline
    <2> QED
      BY <2>1 DEF StatusInit
  <1>4. StatusWasTrue
    BY DEF StatusWasTrue, WasTrue, Unknown, Offline
  <1> QED
    BY <1>1, <1>2, <1>3, <1>4 DEF StatusInv

LEMMA StatusKept ==
    ASSUME StatusInv, StatusStep
    PROVE  /\ StatusInv'
           /\ \A s \in Servers :
                cache'[s].moment >= cache[s].moment /\ shown'[s].moment >= shown[s].moment
  <1> DEFINE Forward ==
        \A s \in Servers :
            cache'[s].moment >= cache[s].moment /\ shown'[s].moment >= shown[s].moment
  <1> SUFFICES StatusInv' /\ Forward
    OBVIOUS
  <1> USE MomentsAssumption DEF StatusInv, Moments
  <1>0. /\ \A s \in Servers : game[s] \in GameStates /\ cache[s] \in Statuses
                              /\ shown[s] \in Statuses /\ answers[s] \subseteq Statuses
        /\ \A s \in Servers : game[s].moment \in Nat /\ cache[s].moment \in Nat
                              /\ shown[s].moment \in Nat
    BY DEF StatusTypeOK, Statuses, GameStates
  <1>1. CASE polling' \in {polling, {}, Servers} /\ UNCHANGED <<game, stuck, asked, answers, cache, shown, past>>
    <2>1. StatusTypeOK' /\ OnePoll'
      BY <1>1 DEF StatusTypeOK, OnePoll
    <2>2. AnswersWereTrue' /\ StatusWasTrue'
      BY <1>1 DEF AnswersWereTrue, StatusWasTrue, WasTrue
    <2> QED
      BY <1>0, <1>1, <2>1, <2>2
  <1>2. ASSUME NEW s \in Servers, GameChanges(s)
        PROVE  StatusInv' /\ Forward
    <2> USE <1>2 DEF GameChanges
    <2>1. PICK g \in GameStates :
            /\ g.moment = game[s].moment + 1
            /\ game' = [game EXCEPT ![s] = g]
            /\ past' = [past EXCEPT ![s] = @ \cup {g}]
      OBVIOUS
    <2>2. StatusTypeOK'
      BY <2>1 DEF StatusTypeOK
    <2>3. \A u \in Servers : past[u] \subseteq past'[u]
      BY <2>1 DEF StatusTypeOK
    <2>4. OnePoll'
      BY DEF OnePoll
    <2>5. AnswersWereTrue'
      <3> SUFFICES ASSUME NEW u \in Servers
                   PROVE  /\ game'[u] \in past'[u]
                          /\ \A a \in answers[u] : WasTrue(u, a)' /\ cache[u].moment <= a.moment
                                                                /\ a.moment <= game'[u].moment
                          /\ shown[u].moment <= cache[u].moment
                          /\ cache[u].moment <= game'[u].moment
        BY DEF AnswersWereTrue
      <3>1. game'[u] \in past'[u]
        BY <2>1 DEF StatusTypeOK, AnswersWereTrue
      <3>2. game'[u].moment \in Nat /\ game[u].moment <= game'[u].moment
        BY <2>1, <1>0 DEF StatusTypeOK
      <3>3. ASSUME NEW a \in answers[u]
            PROVE  WasTrue(u, a)' /\ cache[u].moment <= a.moment /\ a.moment <= game'[u].moment
        <4>1. a.moment \in Nat
          BY <1>0 DEF Statuses
        <4> QED
          BY <1>0, <2>3, <3>2, <4>1 DEF AnswersWereTrue, WasTrue
      <3> QED
        BY <1>0, <3>1, <3>2, <3>3 DEF AnswersWereTrue
    <2>6. StatusWasTrue'
      BY <2>3 DEF StatusWasTrue, WasTrue
    <2> QED
      BY <1>0, <2>2, <2>4, <2>5, <2>6
  <1>3. ASSUME NEW s \in Servers, Tick(s)
        PROVE  StatusInv' /\ Forward
    <2> USE <1>3 DEF Tick
    <2>1. StatusTypeOK' /\ OnePoll'
      BY DEF StatusTypeOK, OnePoll
    <2>2. AnswersWereTrue' /\ StatusWasTrue'
      BY DEF AnswersWereTrue, StatusWasTrue, WasTrue
    <2> QED
      BY <1>0, <2>1, <2>2
  <1>4. ASSUME NEW s \in Servers, NEW status \in Statuses, Answered(s, status),
               WasTrue(s, status), status.moment = game[s].moment
        PROVE  StatusInv' /\ Forward
    <2> USE <1>4 DEF Answered
    <2>1. asked[s] = 1 /\ answers[s] = {}
      BY DEF OnePoll
    <2>2. answers' = [answers EXCEPT ![s] = {status}] /\ asked' = [asked EXCEPT ![s] = 0]
      BY <2>1 DEF StatusTypeOK
    <2>3. StatusTypeOK' /\ OnePoll'
      BY <2>2 DEF StatusTypeOK, OnePoll
    <2>4. AnswersWereTrue'
      <3>1. \A u \in Servers : answers'[u] = IF u = s THEN {status} ELSE answers[u]
        BY <2>2 DEF StatusTypeOK
      <3>2. WasTrue(s, status)'
        BY DEF WasTrue
      <3>3. ASSUME NEW u \in Servers, NEW a \in answers'[u]
            PROVE  WasTrue(u, a)' /\ cache[u].moment <= a.moment /\ a.moment <= game[u].moment
        <4>1. CASE u = s
          <5>1. a = status
            BY <3>1, <4>1
          <5>2. WasTrue(u, a)'
            BY <3>2, <4>1, <5>1 DEF WasTrue
          <5> QED
            BY <1>0, <4>1, <5>1, <5>2 DEF AnswersWereTrue
        <4>2. CASE u # s
          BY <3>1, <4>2 DEF AnswersWereTrue, WasTrue
        <4> QED
          BY <4>1, <4>2
      <3> QED
        BY <3>3 DEF AnswersWereTrue
    <2>5. StatusWasTrue'
      BY DEF StatusWasTrue, WasTrue
    <2> QED
      BY <1>0, <2>3, <2>4, <2>5
  <1>5. ASSUME NEW s \in Servers, PollSucceeds(s)
        PROVE  StatusInv' /\ Forward
    <2>1. PICK reply \in Replies(s) :
            Answered(s, [online |-> TRUE, players |-> PlayerList(reply),
                         moment |-> game[s].moment, listed |-> reply.listed])
      BY <1>5 DEF PollSucceeds
    <2>2. PlayerList(reply) = (IF reply.listed THEN game[s].players ELSE {}) /\ reply.listed \in BOOLEAN
      <3>1. \/ reply = [listed |-> TRUE, names |-> game[s].players]
            \/ reply = [listed |-> FALSE, names |-> {}]
        BY DEF Replies
      <3>2. CASE reply = [listed |-> TRUE, names |-> game[s].players]
        BY <3>2 DEF PlayerList
      <3>3. CASE reply = [listed |-> FALSE, names |-> {}]
        BY <3>3 DEF PlayerList
      <3> QED
        BY <3>1, <3>2, <3>3
    <2> DEFINE status == [online |-> TRUE, players |-> PlayerList(reply),
                          moment |-> game[s].moment, listed |-> reply.listed]
    <2>3. status \in Statuses
      BY <1>0, <2>2 DEF Statuses, GameStates
    <2>4. game[s].mode = "up" /\ game[s] \in past[s]
      BY <1>5 DEF PollSucceeds, AnswersWereTrue
    <2>5. WasTrue(s, status)
      BY <2>2, <2>4 DEF WasTrue
    <2> QED
      BY <1>4, <2>1, <2>3, <2>5
  <1>6. ASSUME NEW s \in Servers, PollFails(s)
        PROVE  StatusInv' /\ Forward
    <2>1. Offline(game[s].moment) \in Statuses
      BY <1>0 DEF Statuses, GameStates, Offline
    <2>2. WasTrue(s, Offline(game[s].moment)) /\ Offline(game[s].moment).moment = game[s].moment
      BY DEF WasTrue, Offline
    <2> QED
      BY <1>4, <1>6, <2>1, <2>2 DEF PollFails
  <1>7. ASSUME NEW s \in Servers, StoreStatus(s)
        PROVE  StatusInv' /\ Forward
    <2> USE <1>7 DEF StoreStatus
    <2>1. PICK status \in answers[s] :
            /\ cache' = [cache EXCEPT ![s] = status]
            /\ answers' = [answers EXCEPT ![s] = @ \ {status}]
      OBVIOUS
    <2>2. status \in Statuses /\ status.moment \in Nat
      BY <1>0 DEF Statuses
    <2>3. answers'[s] = {}
      BY <2>1 DEF OnePoll, StatusTypeOK
    <2>4. StatusTypeOK' /\ OnePoll'
      BY <2>1, <2>2, <2>3 DEF StatusTypeOK, OnePoll
    <2>5. AnswersWereTrue' /\ Forward
      <3>1. \A u \in Servers : /\ answers'[u] = IF u = s THEN {} ELSE answers[u]
                               /\ cache'[u] = IF u = s THEN status ELSE cache[u]
        BY <2>1, <2>3 DEF StatusTypeOK
      <3>2. cache[s].moment <= status.moment /\ status.moment <= game[s].moment
        BY DEF AnswersWereTrue
      <3>3. \A u \in Servers : \A a \in answers[u] : WasTrue(u, a)'
        BY DEF AnswersWereTrue, WasTrue
      <3>4. \A u \in Servers :
              /\ game'[u] \in past'[u]
              /\ \A a \in answers'[u] : cache'[u].moment <= a.moment /\ a.moment <= game'[u].moment
              /\ shown'[u].moment <= cache'[u].moment
              /\ cache'[u].moment <= game'[u].moment
        <4> SUFFICES ASSUME NEW u \in Servers
                     PROVE  /\ game'[u] \in past'[u]
                            /\ \A a \in answers'[u] : /\ cache'[u].moment <= a.moment
                                                      /\ a.moment <= game'[u].moment
                            /\ shown'[u].moment <= cache'[u].moment
                            /\ cache'[u].moment <= game'[u].moment
          OBVIOUS
        <4>1. CASE u = s
          BY <1>0, <2>2, <3>1, <3>2, <4>1 DEF AnswersWereTrue
        <4>2. CASE u # s
          BY <1>0, <3>1, <4>2 DEF AnswersWereTrue
        <4> QED
          BY <4>1, <4>2
      <3>5. Forward
        BY <1>0, <2>2, <3>1, <3>2
      <3> QED
        BY <3>1, <3>3, <3>4, <3>5 DEF AnswersWereTrue
    <2>6. StatusWasTrue'
      BY <2>1 DEF StatusWasTrue, WasTrue, AnswersWereTrue, StatusTypeOK
    <2> QED
      BY <2>4, <2>5, <2>6
  <1>8. ASSUME NEW s \in Servers, ShowStatus(s)
        PROVE  StatusInv' /\ Forward
    <2> USE <1>8 DEF ShowStatus
    <2>1. StatusTypeOK' /\ OnePoll'
      BY <1>0 DEF StatusTypeOK, OnePoll
    <2>2. AnswersWereTrue' /\ Forward
      BY <1>0 DEF AnswersWereTrue, WasTrue, StatusTypeOK
    <2>3. StatusWasTrue'
      BY DEF StatusWasTrue, WasTrue, StatusTypeOK
    <2> QED
      BY <2>1, <2>2, <2>3
  <1>9. ASSUME NEW s \in Servers, GetStuck(s) \/ ComeLoose(s)
        PROVE  StatusInv' /\ Forward
    <2>1. stuck' \subseteq Servers /\ UNCHANGED <<game, polling, asked, answers, cache, shown, past>>
      BY <1>9 DEF GetStuck, ComeLoose, StatusTypeOK
    <2>2. StatusTypeOK' /\ OnePoll'
      BY <2>1 DEF StatusTypeOK, OnePoll
    <2>3. AnswersWereTrue' /\ StatusWasTrue'
      BY <2>1 DEF AnswersWereTrue, StatusWasTrue, WasTrue
    <2> QED
      BY <1>0, <2>1, <2>2, <2>3
  <1> QED
    BY <1>1, <1>2, <1>3, <1>5, <1>6, <1>7, <1>8, <1>9 DEF StatusStep, PollerStep

-----------------------------------------------------------------------------
(* Types. *)

Phases == {"load", "store", "retention", "clients", "id", "secret", "key", "ended"}
          \cup {"provider", "server", "launch", "notify", "serving", "draining",
                "closing", "returning"}

\* What TypeOK says of everything but the status cache.
MainTypeOK ==
    /\ cfg \in Configs
    /\ files \in [Files -> Texts]
    /\ phase \in Phases
    /\ password \in [Servers -> (Texts \ {"missing"}) \cup {Nil}]
    /\ key \in (Texts \ {"missing", "empty"}) \cup {Nil}
    /\ listener \in {"none", "pending", "open", "failed", "closed"}
    /\ pruning \in BOOLEAN
    /\ open \in BOOLEAN
    /\ request \in [Requests -> {"idle", "handling", "storing", "answered", "cut"}]
    /\ signalled \in BOOLEAN
    /\ end \in {"none", "config", "store", "retention", "secret", "provider", "panic",
                "killed", "stopped"}
    /\ rotations \in 0..MaxRotations
    /\ timedOut \in BOOLEAN
    /\ metClosed \subseteq Requests \cup {"pruner"}

Loaded == phase \notin {"load", "ended"}

\* What Validate has seen to stays so, because the configuration does.
Checked ==
    Loaded => /\ cfg.session # Nil
              /\ cfg.clientSecret # Nil
              /\ \A s \in Servers : cfg.password[s] # Nil

\* A secret resolves to a text that is there.
LEMMA FoundIsText ==
    ASSUME NEW F \in [Files -> Texts], NEW secret \in Secrets
    PROVE  Found(secret, F) \in Texts
  BY EnvAssumption, NilAssumption DEF Found, Secrets, Texts, Trimmed

MainInv == MainTypeOK /\ Checked

LEMMA MainStart == Init => MainInv
  <1> SUFFICES ASSUME Init PROVE MainInv
    OBVIOUS
  <1>1. Checked
    BY DEF Init, Checked, Loaded
  <1>2. cfg \in Configs /\ files \in [Files -> Texts] /\ rotations \in 0..MaxRotations
    BY RotationsAssumption DEF Init
  <1>3. /\ password \in [Servers -> (Texts \ {"missing"}) \cup {Nil}]
        /\ request \in [Requests -> {"idle", "handling", "storing", "answered", "cut"}]
    BY DEF Init
  <1> QED
    BY <1>1, <1>2, <1>3 DEF Init, MainInv, MainTypeOK, Phases

LEMMA MainKept == MainInv /\ [Next]_vars => MainInv'
  <1> SUFFICES ASSUME MainInv, [Next]_vars PROVE MainInv'
    OBVIOUS
  <1> USE DEF MainInv
  <1>0. ASSUME NEW reason \in {"config", "store", "retention", "secret", "provider", "panic",
                              "killed", "stopped"},
               End(reason)
        PROVE  MainInv'
    BY <1>0 DEF End, MainTypeOK, Phases, Checked, Loaded, UnderWay
  <1>1. CASE Load
    BY <1>0, <1>1 DEF Load, OrExit, GoOn, Valid, MainTypeOK, Phases, Checked, Loaded, restVars
  <1>2. CASE StartPruner
    <2>1. pruning' \in BOOLEAN
      BY <1>2 DEF StartPruner, OrExit, End
    <2> QED
      BY <1>0, <1>2, <2>1
         DEF StartPruner, OrExit, GoOn, MainTypeOK, Phases, Checked, Loaded, restVars
  <1>16. CASE ClientsMade
    BY <1>16 DEF ClientsMade, GoOn, MainTypeOK, Phases, Checked, Loaded, restVars
  <1>15. CASE OpenStore
    BY <1>0, <1>15 DEF OpenStore, OrExit, GoOn, MainTypeOK, Phases, Checked, Loaded, restVars
  <1>13. CASE ResolveId
    BY <1>0, <1>13 DEF ResolveId, OrExit, GoOn, Failure, MainTypeOK, Phases, Checked, Loaded, restVars
  <1>14. CASE ResolveSecret
    BY <1>0, <1>14 DEF ResolveSecret, OrExit, GoOn, Failure, MainTypeOK, Phases, Checked, Loaded, restVars
  <1>3. CASE ResolveKey
    <2>1. CASE End("secret")
      BY <1>0, <2>1
    <2>2. CASE ~End("secret")
      <3>1. cfg.session \in Secrets
        BY <1>3, <2>2, ConfigsAssumption
           DEF ResolveKey, OrExit, GoOn, Checked, Loaded, Configurations, MainTypeOK
      <3>2. key' \in Texts \ {"missing", "empty"}
        BY <1>3, <2>2, <3>1, FoundIsText DEF ResolveKey, OrExit, Resolves, MainTypeOK
      <3> QED
        BY <1>3, <2>2, <3>2 DEF ResolveKey, OrExit, GoOn, MainTypeOK, Phases, Checked, Loaded, restVars
    <2> QED
      BY <2>1, <2>2
  <1>4. CASE Discover \/ NewServer \/ Launch \/ Notify
    BY <1>0, <1>4 DEF Discover, NewServer, Launch, Notify,
                      OrExit, GoOn, MainTypeOK, Phases, Checked, Loaded, restVars
  <1>5. ASSUME NEW s \in Servers, NewClient(s)
        PROVE  MainInv'
    <2>1. cfg.password[s] \in Secrets
      BY <1>5, ConfigsAssumption DEF NewClient, Checked, Loaded, Configurations, MainTypeOK
    <2>2. Found(cfg.password[s], files) \in Texts
      BY <2>1, FoundIsText DEF MainTypeOK
    <2>3. password' \in [Servers -> (Texts \ {"missing"}) \cup {Nil}]
      BY <1>5, <2>2 DEF NewClient, Resolves, MainTypeOK, Texts
    <2> QED
      BY <1>5, <2>3 DEF NewClient, MainTypeOK, Phases, Checked, Loaded, restVars
  <1>6. CASE Finish
    <2>1. CASE BeginShutdown
      BY <2>1 DEF BeginShutdown, GoOn, MainTypeOK, Phases, Checked, Loaded, restVars
    <2>2. CASE Drained
      BY <2>2 DEF Drained, GoOn, MainTypeOK, Phases, Checked, Loaded, restVars
    <2>5. CASE DrainTimeout
      BY <2>5 DEF DrainTimeout, GoOn, MainTypeOK, Phases, Checked, Loaded, restVars
    <2>3. CASE CloseStore
      <3>1. /\ phase = "closing" /\ phase' = "returning" /\ open' \in BOOLEAN
            /\ UNCHANGED <<cfg, files, password, key, listener, pruning, request, signalled, end,
                           rotations, timedOut, metClosed>>
        BY <2>3 DEF CloseStore, GoOn, restVars
      <3> QED
        BY <3>1 DEF MainTypeOK, Phases, Checked, Loaded
    <2>4. CASE Return
      BY <1>0, <2>4 DEF Return
    <2> QED
      BY <1>6, <2>1, <2>2, <2>3, <2>4, <2>5 DEF Finish
  <1>7. CASE Listen \/ Prune
    BY <1>7 DEF Listen, Prune, FindsStore, MainTypeOK, Checked, Loaded, mainVars, restVars
  <1>8. CASE Signal
    BY <1>0, <1>8 DEF Signal, MainTypeOK, Checked, Loaded, restVars
  <1>9. ASSUME NEW r \in Requests, Handle(r)
        PROVE  MainInv'
    BY <1>9 DEF Handle, Accept, Answer, Sent, Record, Stage, FindsStore, MainTypeOK, Checked,
                Loaded, mainVars
  <1>10. ASSUME NEW s \in Servers, Poll(s) \/ PollerPanics(s) \/ Show(s) \/ Play(s)
         PROVE  MainInv'
    BY <1>0, <1>10 DEF Poll, PollerPanics, Show, Play, MainTypeOK, Checked, Loaded, mainVars, restVars
  <1>11. ASSUME NEW f \in Files, Rotate(f)
         PROVE  MainInv'
    BY <1>11, RotationsAssumption DEF Rotate, MainTypeOK, Checked, Loaded, mainVars
  <1>12. CASE UNCHANGED vars
    BY <1>12 DEF vars, MainTypeOK, Checked, Loaded, mainVars, restVars
  <1> QED
    BY <1>1, <1>2, <1>3, <1>4, <1>5, <1>6, <1>7, <1>8, <1>9, <1>10, <1>11, <1>12, <1>13, <1>14, <1>15, <1>16
       DEF Next, Start

-----------------------------------------------------------------------------
(* Secrets. *)

Prepared == phase \in {"id", "secret", "key"} \/ Started

\* While no file has changed, what Validate has seen is what the files hold, and every
\* password that was read then is one that Validate let pass.
SecretsInv ==
    /\ Loaded /\ rotations = 0 => Valid(cfg, files)
    /\ rotations = 0 => \A s \in Servers : password[s] \notin {"missing", "empty"}
    /\ Prepared => \A s \in Servers : password[s] # Nil
    /\ Started /\ rotations = 0 => key = "long"

LEMMA SecretsStart == Init => SecretsInv
  BY NilAssumption DEF Init, SecretsInv, Prepared, Started, Loaded, Texts

LEMMA SecretsKept == MainInv /\ SecretsInv /\ [Next]_vars => SecretsInv'
  <1> SUFFICES ASSUME MainInv, SecretsInv, [Next]_vars PROVE SecretsInv'
    OBVIOUS
  <1> USE DEF SecretsInv, Loaded, Prepared, Started
  <1>0. ASSUME UNCHANGED <<cfg, files, phase, password, key, rotations>>
        PROVE  SecretsInv'
    BY <1>0 DEF Valid, Resolves, Found, Trimmed, ListsAreValid, ParamsAreValid
  <1>1. ASSUME NEW reason, End(reason)
        PROVE  SecretsInv'
    BY <1>1 DEF End
  <1>2. ASSUME NEW from, NEW to, GoOn(from, to), from \notin {"load", "clients", "key"},
               UNCHANGED <<cfg, files, password, key, rotations>>,
               to \in {"retention", "clients"} <=> from \in {"store", "retention"},
               to \in {"secret", "key"} <=> from \in {"id", "secret"},
               to \notin {"retention", "clients", "secret", "key"} => Started /\ Started'
        PROVE  SecretsInv'
    BY <1>2 DEF GoOn, Valid, Resolves, Found, Trimmed, ListsAreValid, ParamsAreValid
  <1>3. CASE Load
    BY <1>1, <1>3 DEF Load, OrExit, GoOn, restVars, Valid, Resolves, Found, Trimmed,
                      ListsAreValid, ParamsAreValid
  <1>4. CASE ClientsMade
    BY <1>4 DEF ClientsMade, GoOn, restVars, Valid, Resolves, Found, Trimmed,
                ListsAreValid, ParamsAreValid
  <1>5. CASE ResolveKey
    <2>1. CASE End("secret")
      BY <1>1, <2>1
    <2>2. CASE ~End("secret")
      <3>1. rotations = 0 => key' = "long"
        BY <1>5, <2>2 DEF ResolveKey, OrExit, GoOn, Valid
      <3> QED
        BY <1>5, <2>2, <3>1 DEF ResolveKey, OrExit, GoOn, restVars, Valid, Resolves, Found,
                                Trimmed, ListsAreValid, ParamsAreValid
    <2> QED
      BY <2>1, <2>2
  <1>6. ASSUME NEW s \in Servers, NewClient(s)
        PROVE  SecretsInv'
    <2>1. rotations = 0 => Resolves(cfg.password[s], files)
      BY <1>6 DEF NewClient, Valid
    <2>2. rotations = 0 => \A u \in Servers : password'[u] \notin {"missing", "empty"}
      BY <1>6, <2>1 DEF NewClient, MainInv, MainTypeOK, Resolves
    <2> QED
      BY <1>6, <2>2 DEF NewClient, restVars, Valid, Resolves, Found, Trimmed,
                        ListsAreValid, ParamsAreValid
  <1>7. CASE OpenStore
    BY <1>1, <1>2, <1>7 DEF OpenStore, OrExit, GoOn, restVars
  <1>8. CASE StartPruner
    BY <1>1, <1>2, <1>8 DEF StartPruner, OrExit, GoOn, restVars
  <1>9. CASE ResolveId
    BY <1>1, <1>2, <1>9 DEF ResolveId, OrExit, GoOn, restVars
  <1>10. CASE ResolveSecret
    BY <1>1, <1>2, <1>10 DEF ResolveSecret, OrExit, GoOn, restVars
  <1>11. CASE Discover
    BY <1>1, <1>2, <1>11 DEF Discover, OrExit, GoOn, restVars
  <1>12. CASE NewServer \/ Launch \/ Notify
    BY <1>2, <1>12 DEF NewServer, Launch, Notify, GoOn, restVars
  <1>13. CASE Finish
    BY <1>1, <1>2, <1>13 DEF Finish, BeginShutdown, Drained, DrainTimeout, CloseStore, Return,
                             GoOn, restVars
  <1>14. CASE Listen \/ Prune
    BY <1>0, <1>14 DEF Listen, Prune, mainVars, restVars
  <1>15. CASE Signal
    BY <1>0, <1>1, <1>15 DEF Signal, restVars
  <1>16. ASSUME NEW r \in Requests, Handle(r)
         PROVE  SecretsInv'
    BY <1>0, <1>16 DEF Handle, Accept, Answer, Sent, Record, Stage, mainVars
  <1>17. ASSUME NEW s \in Servers, Poll(s) \/ PollerPanics(s) \/ Show(s) \/ Play(s)
         PROVE  SecretsInv'
    BY <1>0, <1>1, <1>17 DEF Poll, PollerPanics, Show, Play, mainVars, restVars
  <1>18. ASSUME NEW f \in Files, Rotate(f)
         PROVE  SecretsInv'
    BY <1>18 DEF Rotate, MainInv, MainTypeOK, mainVars
  <1>19. CASE UNCHANGED vars
    BY <1>0, <1>19 DEF vars, mainVars, restVars
  <1> QED
    BY <1>3, <1>4, <1>5, <1>6, <1>7, <1>8, <1>9, <1>10, <1>11, <1>12, <1>13, <1>14, <1>15,
       <1>16, <1>17, <1>18, <1>19 DEF Next, Start

-----------------------------------------------------------------------------
(* Requests and the end. *)

\* Who may still be at work in which phase.
RequestsInv ==
    /\ listener \in {"pending", "open"} => phase \in {"notify", "serving"}
    /\ phase \in {"retention", "clients", "id", "secret", "key"} => open
    /\ Started /\ phase # "returning" => open
    /\ ~timedOut =>
         /\ UnderWay # {} => phase \in {"notify", "serving", "draining"}
         /\ phase # "ended" => \A r \in Requests : request[r] # "cut"

EndInv == RequestsInv /\ RequestsAreCarriedOut

LEMMA EndStart == Init => EndInv
  BY DEF Init, EndInv, RequestsInv, RequestsAreCarriedOut, Started, UnderWay

LEMMA EndKept == MainInv /\ EndInv /\ [Next]_vars => EndInv'
  <1> SUFFICES ASSUME MainInv, EndInv, [Next]_vars PROVE EndInv'
    OBVIOUS
  <1> USE DEF EndInv, Started
  <1>0. ASSUME UNCHANGED <<cfg, end, phase, listener, open, request, timedOut, metClosed>>
        PROVE  EndInv'
    BY <1>0 DEF RequestsInv, RequestsAreCarriedOut, UnderWay
  <1>1. ASSUME NEW reason, End(reason),
               reason = "stopped" => phase = "returning"
        PROVE  EndInv'
    <2>2. UnderWay' = {}
      BY <1>1 DEF End, UnderWay, MainInv, MainTypeOK
    <2>3. RequestsInv'
      BY <1>1, <2>2 DEF End, RequestsInv
    <2>4. RequestsAreCarriedOut'
      <3>1. ~timedOut /\ reason = "stopped" => request' = request
        BY <1>1 DEF End, RequestsInv, MainInv, MainTypeOK
      <3> QED
        BY <1>1, <3>1 DEF End, RequestsInv, RequestsAreCarriedOut
    <2> QED
      BY <2>3, <2>4
  <1>2. ASSUME NEW from, NEW to, GoOn(from, to), from # "ended", to # "ended",
               UNCHANGED <<cfg, end, request, metClosed>>,
               listener' \in {"pending", "open"} => to \in {"notify", "serving"},
               open' \/ to \in {"store", "returning"},
               ~timedOut' => ~timedOut,
               ~timedOut' /\ UnderWay # {} => to \in {"notify", "serving", "draining"}
        PROVE  EndInv'
    <2>1. RequestsInv'
      BY <1>2 DEF GoOn, RequestsInv, UnderWay
    <2>2. RequestsAreCarriedOut'
      BY <1>2 DEF RequestsAreCarriedOut
    <2> QED
      BY <2>1, <2>2
  <1>3. CASE Load
    BY <1>1, <1>2, <1>3 DEF Load, OrExit, GoOn, restVars, RequestsInv
  <1>4. CASE OpenStore
    BY <1>1, <1>2, <1>4 DEF OpenStore, OrExit, GoOn, restVars, RequestsInv
  <1>5. CASE StartPruner
    BY <1>1, <1>2, <1>5 DEF StartPruner, OrExit, GoOn, restVars, RequestsInv
  <1>6. CASE ClientsMade
    BY <1>2, <1>6 DEF ClientsMade, GoOn, restVars, RequestsInv
  <1>7. CASE ResolveId
    BY <1>1, <1>2, <1>7 DEF ResolveId, OrExit, GoOn, Failure, restVars, RequestsInv
  <1>8. CASE ResolveSecret
    BY <1>1, <1>2, <1>8 DEF ResolveSecret, OrExit, GoOn, Failure, restVars, RequestsInv
  <1>9. CASE ResolveKey
    BY <1>1, <1>2, <1>9 DEF ResolveKey, OrExit, GoOn, restVars, RequestsInv
  <1>10. CASE Discover
    BY <1>1, <1>2, <1>10 DEF Discover, OrExit, GoOn, restVars, RequestsInv
  <1>11. CASE NewServer \/ Launch \/ Notify
    BY <1>2, <1>11 DEF NewServer, Launch, Notify, GoOn, restVars, RequestsInv
  <1>12. ASSUME NEW s \in Servers, NewClient(s)
         PROVE  EndInv'
    BY <1>0, <1>12 DEF NewClient, restVars
  <1>13. CASE BeginShutdown
    BY <1>2, <1>13 DEF BeginShutdown, GoOn, restVars, RequestsInv
  <1>14. CASE Drained
    BY <1>2, <1>14 DEF Drained, GoOn, restVars, RequestsInv
  <1>15. CASE DrainTimeout
    BY <1>2, <1>15 DEF DrainTimeout, GoOn, restVars, RequestsInv
  <1>16. CASE CloseStore
    BY <1>2, <1>16 DEF CloseStore, GoOn, restVars, RequestsInv
  <1>17. CASE Return
    BY <1>1, <1>17 DEF Return
  <1>18. CASE Listen
    BY <1>18 DEF Listen, restVars, RequestsInv, RequestsAreCarriedOut, UnderWay
  <1>19. CASE Prune
    BY <1>19, RequestsAssumption DEF Prune, FindsStore, mainVars, RequestsInv,
              RequestsAreCarriedOut, UnderWay
  <1>20. CASE Signal
    BY <1>0, <1>1, <1>20 DEF Signal, restVars
  <1>21. ASSUME NEW r \in Requests, Handle(r)
         PROVE  EndInv'
    <2>1. UNCHANGED mainVars
      BY <1>21 DEF Handle, Accept, Answer, Sent, Record, Stage
    <2>3. /\ UnderWay' # {} => UnderWay # {} \/ listener = "open"
          /\ \A u \in Requests : request'[u] = "cut" => request[u] = "cut"
      BY <1>21 DEF Handle, Accept, Answer, Sent, Record, Stage, UnderWay, MainInv, MainTypeOK
    <2>4. RequestsInv'
      BY <2>1, <2>3 DEF mainVars, RequestsInv
    <2>5. ~timedOut => metClosed' \cap Requests = {}
      <3>1. CASE Record(r)
        <4>1. r \in UnderWay
          BY <3>1 DEF Record, Stage, UnderWay
        <4>2. ~timedOut => open
          BY <4>1 DEF RequestsInv
        <4> QED
          BY <3>1, <4>2 DEF Record, FindsStore, RequestsAreCarriedOut
      <3> QED
        BY <1>21, <3>1 DEF Handle, Accept, Answer, Sent, RequestsAreCarriedOut
    <2> QED
      BY <2>1, <2>3, <2>4, <2>5 DEF mainVars, RequestsAreCarriedOut
  <1>22. ASSUME NEW s \in Servers, Poll(s) \/ PollerPanics(s) \/ Show(s) \/ Play(s)
         PROVE  EndInv'
    BY <1>0, <1>1, <1>22 DEF Poll, PollerPanics, Show, Play, mainVars, restVars
  <1>23. ASSUME NEW f \in Files, Rotate(f)
         PROVE  EndInv'
    BY <1>0, <1>23 DEF Rotate, mainVars
  <1>24. CASE UNCHANGED vars
    BY <1>0, <1>24 DEF vars, mainVars, restVars
  <1> QED
    BY <1>3, <1>4, <1>5, <1>6, <1>7, <1>8, <1>9, <1>10, <1>11, <1>12, <1>13, <1>14, <1>15,
       <1>16, <1>17, <1>18, <1>19, <1>20, <1>21, <1>22, <1>23, <1>24 DEF Next, Start, Finish

-----------------------------------------------------------------------------
(* The theorems. *)

ProcessInv == StatusInv /\ MainInv /\ SecretsInv /\ EndInv

THEOREM ProcessInvariant == Spec => []ProcessInv
  <1>1. Init => ProcessInv
    BY StatusStart, MainStart, SecretsStart, EndStart DEF Init, ProcessInv
  <1>2. ProcessInv /\ [Next]_vars => ProcessInv'
    BY StepOfCache, StatusKept, MainKept, SecretsKept, EndKept DEF ProcessInv
  <1> QED
    BY <1>1, <1>2, PTL DEF Spec

\* Every variable has its type.
THEOREM ProcessTypes == Spec => []TypeOK
  <1>1. ProcessInv => TypeOK
    BY DEF ProcessInv, StatusInv, MainInv, MainTypeOK, Phases, TypeOK
  <1> QED
    BY <1>1, ProcessInvariant, PTL

\* A server that is shown as online has answered at that moment, with exactly the players
\* that are shown, or with a text that is no list (status.go:73-83, client.go:186-213).
THEOREM StatusIsTrue == Spec => []StatusWasTrue
  <1>1. ProcessInv => StatusWasTrue
    BY DEF ProcessInv, StatusInv
  <1> QED
    BY <1>1, ProcessInvariant, PTL

\* The statuses come in the order of the polls (status.go:65-90).
THEOREM StatusIsOrdered == Spec => StatusMovesForward
  <1>1. ProcessInv /\ [Next]_vars =>
          [\A s \in Servers :
             cache'[s].moment >= cache[s].moment /\ shown'[s].moment >= shown[s].moment]_vars
    BY StepOfCache, StatusKept DEF ProcessInv
  <1> QED
    BY <1>1, ProcessInvariant, PTL DEF Spec, StatusMovesForward

\* No secret is in use that was not validated, unless a file changed (main.go:129, 151).
THEOREM SecretsAreChecked == Spec => []SecretsWereChecked
  <1>1. ProcessInv => SecretsWereChecked
    BY DEF ProcessInv, SecretsInv, SecretsWereChecked, Prepared
  <1> QED
    BY <1>1, ProcessInvariant, PTL

\* A shutdown that did not time out has let every request finish, on an open store
\* (main.go:61, 199-209).
THEOREM ShutdownIsClean == Spec => []RequestsAreCarriedOut
  <1>1. ProcessInv => RequestsAreCarriedOut
    BY DEF ProcessInv, EndInv
  <1> QED
    BY <1>1, ProcessInvariant, PTL
=============================================================================

---------------------------- MODULE StatusCache -----------------------------
(***************************************************************************)
(* The status cache (internal/handlers/status.go): one poller per server   *)
(* asks for the list of players (PlayerList of internal/rcon/client.go)    *)
(* and stores what it learns, the pages read it.  Of Send, which           *)
(* RconClient has in full, two things are kept: it ends with the reply of  *)
(* a moment in between, or with an error; and whoever has to connect again *)
(* reads the answer to the password without a deadline, with the mutex,    *)
(* for which every later call waits without a deadline, too.               *)
(*                                                                         *)
(* An operator named Mutant_X is a plausible error in the definition below *)
(* it; no action uses one.                                                 *)
(***************************************************************************)
EXTENDS Configuration

CONSTANTS
    Players,     \* who may be on them
    MaxMoments   \* bound: changes of a game server

ASSUME MomentsAssumption == MaxMoments \in Nat

VARIABLES
    game,     \* the game servers: whether each is "up", "frozen" (its connections
              \* are accepted and nothing is answered) or "down", who is on it, and
              \* how often that has changed
    stuck,    \* servers whose client waits for the answer to the password
    polling,  \* pollers that run
    asked,    \* how many polls of each server wait for the answer
    answers,  \* the answers of those that have one and are to store it
    cache,    \* the status of each server
    shown,    \* what the status bar of a page shows of each server
    past      \* history: the states each game server has had

statusVars == <<game, stuck, polling, asked, answers, cache, shown, past>>

Moments == 0..MaxMoments

\* A status; history: the moment (a number of changes) it is of, and whether the reply
\* was a list of players.
Statuses == [online : BOOLEAN, players : SUBSET Players, moment : Moments, listed : BOOLEAN]

GameStates == [mode : {"up", "frozen", "down"}, players : SUBSET Players, moment : Moments]

\* Nobody plays on a server that is not up.
Possible(g) == g.mode = "up" \/ g.players = {}

Offline(moment) == [online |-> FALSE, players |-> {}, moment |-> moment, listed |-> FALSE]

Unknown == Offline(0)

StatusInit ==
    /\ game \in [Servers -> {g \in GameStates : g.moment = 0 /\ Possible(g)}]
    /\ stuck = {}
    /\ polling = {}
    /\ asked = [s \in Servers |-> 0]
    /\ answers = [s \in Servers |-> {}]
    /\ cache = [s \in Servers |-> Unknown]
    /\ shown = [s \in Servers |-> Unknown]
    /\ past = [s \in Servers |-> {game[s]}]

\* Players come and go, the server stops, freezes and starts.
GameChanges(s) ==
    /\ game[s].moment < MaxMoments
    /\ \E g \in GameStates :
         /\ g.moment = game[s].moment + 1
         /\ Possible(g)
         /\ game' = [game EXCEPT ![s] = g]
         /\ past' = [past EXCEPT ![s] = @ \cup {g}]
    /\ UNCHANGED <<stuck, polling, asked, answers, cache, shown>>

\* The poll, a handler or the background goroutine has connected to a frozen server and
\* keeps the mutex until the server answers or the connection breaks.
GetStuck(s) ==
    /\ game[s].mode = "frozen"
    /\ stuck' = stuck \cup {s}
    /\ UNCHANGED <<game, polling, asked, answers, cache, shown, past>>

ComeLoose(s) ==
    /\ s \in stuck
    /\ game[s].mode # "frozen"
    /\ stuck' = stuck \ {s}
    /\ UNCHANGED <<game, polling, asked, answers, cache, shown, past>>

Mutant_Tick(s) ==
    /\ s \in polling
    /\ asked[s] < 2
    /\ asked' = [asked EXCEPT ![s] = @ + 1]
    /\ UNCHANGED <<game, stuck, polling, answers, cache, shown, past>>

\* The first check, or the next tick: none while a check is under way.
Tick(s) ==
    /\ s \in polling
    /\ asked[s] = 0
    /\ answers[s] = {}
    /\ asked' = [asked EXCEPT ![s] = 1]
    /\ UNCHANGED <<game, stuck, polling, answers, cache, shown, past>>

\* PlayerList has returned, after it had the mutex.
Answered(s, status) ==
    /\ s \in polling \ stuck
    /\ asked[s] > 0
    /\ asked' = [asked EXCEPT ![s] = @ - 1]
    /\ answers' = [answers EXCEPT ![s] = @ \cup {status}]
    /\ UNCHANGED <<game, stuck, polling, cache, shown, past>>

\* What the server says to "list": the names behind "players online: ", or another text.
Replies(s) == {[listed |-> TRUE, names |-> game[s].players], [listed |-> FALSE, names |-> {}]}

\* The names of the reply; of a text that is no list there are none, and no error.
PlayerList(reply) == IF reply.listed THEN reply.names ELSE {}

PollSucceeds(s) ==
    /\ game[s].mode = "up"
    /\ \E reply \in Replies(s) :
         Answered(s, [online |-> TRUE, players |-> PlayerList(reply),
                      moment |-> game[s].moment, listed |-> reply.listed])

Mutant_PollFails(s) == Answered(s, [cache[s] EXCEPT !.moment = game[s].moment])

\* Refused, not authenticated, cut, or no answer to the command within ten seconds.
PollFails(s) == Answered(s, Offline(game[s].moment))

\* Set replaces the whole status.
StoreStatus(s) ==
    /\ s \in polling
    /\ \E status \in answers[s] :
         /\ cache' = [cache EXCEPT ![s] = status]
         /\ answers' = [answers EXCEPT ![s] = @ \ {status}]
    /\ UNCHANGED <<game, stuck, polling, asked, shown, past>>

\* StatusPartial renders a copy of the cached status.
ShowStatus(s) ==
    /\ shown' = [shown EXCEPT ![s] = cache[s]]
    /\ UNCHANGED <<game, stuck, polling, asked, answers, cache, past>>

PollerStep(s) ==
    Tick(s) \/ PollSucceeds(s) \/ PollFails(s) \/ ComeLoose(s) \/ StoreStatus(s)

-----------------------------------------------------------------------------
StatusTypeOK ==
    /\ game \in [Servers -> GameStates]
    /\ stuck \subseteq Servers
    /\ polling \subseteq Servers
    /\ asked \in [Servers -> Nat]
    /\ answers \in [Servers -> SUBSET Statuses]
    /\ cache \in [Servers -> Statuses]
    /\ shown \in [Servers -> Statuses]
    /\ past \in [Servers -> SUBSET GameStates]

\* A server that a page shows as online has answered at the moment the status is of, and
\* the players are those who were on it, all of them; none when the reply was no list, which
\* looks like an empty server.  One that it shows as offline has no players to offer
\* (status.go:73-83, client.go:186-213, partials.go:146-176).
WasTrue(s, status) ==
    IF status.online
    THEN \E g \in past[s] :
           /\ g.mode = "up" /\ g.moment = status.moment
           /\ status.players = IF status.listed THEN g.players ELSE {}
    ELSE status.players = {}

StatusWasTrue == \A s \in Servers : WasTrue(s, cache[s]) /\ WasTrue(s, shown[s])
=============================================================================

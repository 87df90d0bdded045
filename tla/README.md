# A TLA+ model of rconman

rconman is a web page for Minecraft servers: users log in through an OIDC
provider, run commands over RCON, see status and logs, switch servers on and off
(KEDA reads a metric and scales), and edit command templates. This directory
models the parts of it where order, failure and sharing decide whether it is
right, checks them with TLC and proves the main invariants with TLAPS.

Paths are those of the repository, relative to `src/`; `client.go:91` is a line
of a file that the section names. `PROJECT.json` holds the map from every
definition to the lines that it models.

## 1. Inventory

| Component | State | Operations | Interacts with |
|---|---|---|---|
| RCON client `internal/rcon/client.go` | one TCP connection per game server, mutex, request counter, `reconnecting` flag | `Send`, `PlayerList`, `IsConnected`, `Close`, background reconnect | handlers and poller call it; it talks to the game server |
| Wire protocol `internal/rcon/protocol.go` | none (the bytes on a connection) | `Encode`, `DecodePacket` | RCON client, game server |
| Game server `test/mock-rcon/main.go` | connections, whether each is authenticated | authenticate, execute, end of file | RCON client |
| Command handler `internal/handlers/handlers.go` | the request under way | `Execute`, `GetLogs` | RCON client, log table |
| Log table and pruner `internal/store/sqlite.go`, `cmd/rconman/main.go` | `command_logs` | `RecordCommand`, `GetLogs`, `PruneOlderThan` every 24 h | handler, start-up |
| Status cache `internal/handlers/status.go` | last status per server, under an RWMutex | one poller per server, `Get`, `Set` | RCON client, pages |
| Power switch and metrics `internal/handlers/power.go`, `metrics.go` | `server_desired_state` | `SetPower`, `GetPower`, the metrics page | start-up, KEDA |
| Templates `internal/handlers/templates.go` | `command_templates` | `Create`, `Update`, `Delete`, `List` | start-up, pages |
| Partials and settings `internal/handlers/partials.go` | `server_settings` | one partial per container of the page, `SaveSettings` | pages, all tables, status cache |
| Pages `internal/views/pages.templ` | in the browser: the selected server, the tab, what is open in it, two script globals, requests under way | clicks, timers, swaps | partials, templates, power switch |
| Start and stop `cmd/rconman/main.go`, `internal/server` | how far `main` is, the listener, the goroutines it has started | load, open, seed, read secrets, discover, serve, drain, close | everything |
| Login `internal/auth` | two cookies in the browser; nothing on the server | login, callback, logout, `RequireAuth` | browser, OIDC provider |
| Configuration `internal/config` | none (secrets are read again when needed) | `LoadConfig`, `Validate`, `Resolve` | start-up |
| Generated queries `internal/store/sqlc` | none; not called | | |

What is hard in it:

- **Concurrency**: the poller, every handler and a background goroutine share one
  connection under one mutex, with one flag outside it; the browser's tabs share
  two cookies and every response may arrive late; a page replaces its parts one by
  one as answers come in, in any order.
- **Failure**: each step of dialling, authenticating, writing and reading can
  fail, and the answer is to send again; a browser may leave while its command is
  under way; each statement on SQLite may fail, and several such errors are
  ignored; the process may die anywhere, also between two insertions of a start.
- **Ordering**: a reply is matched to its command by position only; the metric,
  the switch and a restart must agree; rows are ordered by seconds.
- **Timeouts**: one caller's deadline stays on the connection for the next; a
  deadline runs while its caller waits for the mutex; cookies expire in the
  browser and on the server at different moments; a shutdown waits 30 seconds.
- **Checked and used**: secrets are validated at one moment and read again at
  another; a form is filled at one moment and saved at another.

The complete list, line by line and with the properties that watch each item,
is in `PROJECT.json` under `hazards`.

What makes each component correct:

- RCON client: nobody reads another's reply; the mutex covers each exchange and is
  always released; no socket leaks; at most one background goroutine; a command is
  sent at most twice; every call returns; reconnection ends.
- Protocol: packets come out as they went in however the stream is cut; the two
  sides agree on the limit; nothing waits inside a packet that has arrived.
- Handler and log: an answer means that the command was recorded, unless the store refused it;
  a recorded reply was given; each command is in the log once, in order; old entries go.
- Start-up, switch, templates: no restart changes what the user chose; seeding
  happens once and whole; the metric falls only on request.
- Process: what is used was validated; requests it has accepted are carried out; it ends
  when told to.
- Status: what a page shows was so at one moment, never goes back, and shows an
  outage in the end.
- Page: its parts are of one server; the selector and the toggle tell the truth when
  nothing is under way; a command goes where the user sees it go; a save changes
  what the user changed.
- Login: a session only from a completed login of an allowed user; a page only for
  a live session; a flow that nothing came between succeeds.

## 2. Modules

    CommandService <--implements-- RconClient      Configuration    Lifecycle   Login   ServerPage   RconProtocol
          |                            |                 |               |         |         |            |
      CommandLog                  MCRconClient      StatusCache    MCLifecycle  MCLogin MCServerPage MCRconProtocol
          |                                              |
     MCCommandLog                                     Process
                                                         |
                                                     MCProcess

`CommandService` is the abstract promise of `Send`. `RconClient` implements it:
`Service == INSTANCE CommandService WITH ...` is the mapping; the run
`rcon_safety` checks `Service!Spec` as the property `ImplementsService`, and
`RconServiceProofs` proves it for any number of callers and connections. `CommandLog`
is built on the promise instead of on the client, so that its state space holds
handlers, store and process and no sockets. `Process` is built on the status cache
and the configuration in the same way.

Operators named `Mutant_X` are plausible errors in the definition that follows
them. No action uses one. For every checked property `PROJECT.json` names such an
error, and TLC finds the property violated when it takes the definition's place.

### CommandService
`outcome`, `call`, `executions`; a call is invoked, the server executes its command
up to twice and perhaps late, and the call ends with a reply, refused, or given up.

### RconClient: `client.go`, the mock server, TCP
One action per stretch of code between two points where another goroutine, the
server or the clock can interfere: taking the mutex (`LockCaller`,
`LockReconnector`), the result of dialling (`Dial`, `DialFail`), of
authentication (`AuthOk`, `AuthFail`), of writing (`Write`, `WriteFail`), of
reading (`ReadOk`, `ReadFail`), and of the pause of the background goroutine
(`Wake`, `ExitReconnector`). `pc` says where a thread is; `lock` is before
`mu.Lock()`, `dial` to `read` are inside. Everything `Send` does after a failed step up to
its next blocking call is part of that step, including `closeConn`, the
immediate reconnect and `startBackgroundReconnect` (`AttemptFailed`,
`EnsureFailed`). The goroutine's deferred `Store(false)` after it has unlocked is
an action of its own (`exit`, `ExitReconnector`): other threads run in between.

Packets carry the call they belong to instead of an id, since no code
compares ids; whose reply is read is then a property and not an assumption.
`deadline` is the deadline left on the connection by the last caller that had
one. The server's `Answers` include a wrong password and a garbled reply.

### RconProtocol: `protocol.go`
Real bytes, little-endian, with a small `MaxPacket` for TLC. `Arrive` delivers any
non-empty piece, `Decode` is `io.ReadFull` twice and the parser (`Complete` says whether
both have what they ask for), `HangUp` ends the stream
anywhere. `ends` is history: where each frame that was written ends in the stream. The peer may end its payload with one or two null bytes, exceed the
limit, or send a frame that is none.

### CommandLog: `handlers.go`, the log table, the pruner
`stage` follows one request: `send` (inside `Send`), `record` (before
`RecordCommand`), `respond`. `browser` is the request's context, which ends when the
browser goes away (`Leave`). `Record` succeeds only on a live context and may fail
by itself. `Crash` ends all requests and keeps the table and what is on its way to
the game server. `fate` is history: a command is `stored`, or left out because the store
`refused` the row or because the context was `cancelled`. Time is in seconds, as in SQLite.

### Lifecycle: `main.go`, `power.go`, `templates.go`, `metrics.go`, their tables
A start walks through the servers twice, one statement per action, and can be
stopped between any two. Each statement can fail as the code
lets it: a state that cannot be read is set to running, a template that cannot be
inserted is passed over. Requests come only while serving. `wanted`, `misread` and
`skipped`, and the columns `item` and `start` of a row, are history for the
properties.

### Login: `internal/auth`, the auth handlers
All state is the browser's. A tab sends a request with a copy of the cookies
(`sent`, `carried`), the handler prepares the cookies of the response (`setPkce`,
`setSession`), and they take effect when the response arrives; any other tab's
request or response may come between. The provider binds a code to the verifier in the
authorization URL (`challenge`). `disturbed` records that another response, or the
cookie's expiry, came into a flow.

### Configuration: `config.go`, `secret.go`
Which configurations `Validate` accepts and what `Resolve` finds. Of a text only what the
code looks at is kept: missing, empty, white space only, shorter than a key must be,
or long enough. A file is trimmed and a variable is not; a source that is named and
fails is not followed by the next one. No state.

### StatusCache: `status.go`
One poller per server: `Tick`, `PollSucceeds` or `PollFails`, `StoreStatus`; `ShowStatus`
is the status bar of a page. A game server is up, down, or frozen: then it accepts connections
and answers nothing. Of `Send` the model keeps that it ends with the reply of a moment in
between or with an error, and that it need not end: `GetStuck` is a caller (the poll, a handler or the
background goroutine) that has connected to a frozen server and reads the answer to the
password with the mutex, for which a poll waits however long; `ComeLoose` ends that, and never comes while the
server is frozen. `PlayerList` makes names of a list, and of any other text no names and no error. Every status
carries the moment that it is of, a number of changes of the game server, and whether the reply was a list
(`listed`, history); `past` keeps the states the server has had.

### Process: `main.go`, `server.go`
`phase` is how far `main` is, with an action for every step that can end the process
(`OrExit`) or start a goroutine; `Load` ends it with a file that cannot be read or parsed, or one that
`Validate` refuses. A nil secret (`Failure`) and a negative interval (`PollerPanics`) are panics. `End` is the end of all goroutines at once. Requests go
through `handling` (and `storing`, for a handler that records a command) to `answered`.
The two reads of each secret are two actions, and `Rotate` may change a file in
between. `Signal` kills before `Notify` and is received after it. `metClosed` and `timedOut` are history.

### ServerPage: `pages.templ`, `partials.go`, `templates.go`, `power.go`
One window of an administrator. Its variables are what a user sees: the name in the
selector, the server of the content, the power toggle, the tab, and what is open in it,
with the two globals of the template form's script. A request knows what it asks, who
asks, which container its answer is for, and its server; answers arrive in any
order. When a container is replaced, what was under way for it becomes `gone`: a GET is
forgotten, a POST is still carried out. Requests that scripts make with `htmx.ajax` share
the queue of the body, which keeps one. So does htmx, which is
external and modelled in `Exchange` and `Without`.

Handlers that write, and those whose answer depends on when they read, have two
steps (`Serve`, `Show`); for the others the moment of reading does not matter to a
property, and they read when the answer arrives. `mishaps` names what has gone wrong so far and
`events` counts what users, timers, other users and a failing network have done.
`before` keeps, for the selector and for the content, which of the requests under way was sent before which:
an answer that comes while an earlier one is under way is `overtaken`, and only that; requests
that are answered in order are no mishap, however many they are. `outdatedPoll` is a timer that asks
for the server that is shown while another was already asked for. Two identical requests under way count as one, so
what htmx does with a second click on a button before the first is answered (`again`) is excepted. A click on a button whose own request
is under way is left out for the toggle and the settings form.

## 3. What is checked

| Run | Bounds | Distinct states | Result |
|---|---|---|---|
| `rcon_safety` | poller and handler, 1 call each, 2 background identities, 3 connections, all answers, both sizes, back-off 1..3 | 649 468 | 7 invariants hold; implements CommandService |
| `rcon_liveness` | 2 callers, 1 call each, 2 connections, fairness | 121 510 | every call returns; reconnection ends |
| `command_log` | 2 browsers, 1 command each, page of 1, retention 1 s, 4 instants, 1 crash | 264 588 | holds, with `OldEntriesGo` |
| `lifecycle` | 2 servers, 2 starts, configurations of no or 2 templates, 3 rows | 3 133 636 | holds |
| `login` | 2 tabs, 3 users, 2 verifiers, expiry 1 of 3 instants | 2 675 873 | holds |
| `process` | 1 server, 20 configurations, 1 secret file that changes once, 1 request, a game server that does not change, fairness | 150 427 | 2 invariants and `SignalEndsProcess` hold |
| `status` | 1 server, 1 player, 2 intervals, 2 changes of the game server, fairness | 240 905 | 1 invariant, 1 action property and `OutageIsShown` hold |
| `page` | 2 servers, 2 players, 1 template and room for another, 4 events | 3 267 472 | 3 invariants and 2 action properties hold |
| `rcon_protocol` | limit 12, payloads of 0, 1, 3 and 4 bytes, ids -1 and 257, 2 packets and one that is none | 1 673 016 | holds |

Why the bounds are enough for what they are asked: two callers and a background
goroutine are the smallest set in which one waits for the mutex, one holds it
and one has just left it; three connections let an old one, the current one and one
being authenticated coexist; a second call is what could read the first one's reply
or meet its deadline: here it is the call of the other caller. The back-off 1, 2, 3 has a doubling and
a cap that is no multiple. Two starts are a crash and what follows it, and three
rows are a seeding of two and one by hand. In `login`, two tabs are two flows or a flow
and a logout, and two verifiers are one for each. The payload sizes of `rcon_protocol` lie around the limit
for one and for two null bytes. In `command_log` the two browsers' commands share
a second or not, and a page of one entry has to choose.
In `process` each configuration deviates from one that works in one field, in every way
that the code distinguishes; one file is named by at most one field, so that one
change of it is what can come between two reads. In `status` two changes of a game server are up, frozen, down, or
down, up, frozen: a client gets stuck and comes loose again, with an old status in the cache. In `page` the first answers and reloads are free; four
events are, for example, two changes of the server and two clicks in what was shown in between. The exceptions
(`mishaps`) that need more events were found with larger instances (one server, up to 8 events), and
all five properties are proved without the bound.

Deadlock is checked in every run but `rcon_protocol`, where a connection that has
ended and was read to its end has nothing left to do, `process` and `status`, whose process ends, and
`page`, where the events run out.

### Fairness
- `RconClient`: a goroutine that can step does (weak fairness); a waiter gets
  the mutex if it is released again and again (strong fairness), which
  `sync.Mutex` guarantees by its starvation mode; a server that runs answers.
  `EveryCallReturns` needs the last: the reply to the password is read without a
  deadline (`client.go:74`) while the mutex is held, so a server that
  accepts and never answers stops all callers. `ReconnectorFinishes` also assumes
  that the server stays reachable from some moment on and breaks no connection in use.
- `CommandLog`: the pruner's ticker goes on, a handler that runs is scheduled,
  and a process that died is started again (the deployment restarts it). No
  fairness for browsers, commands or the clock.
- `Process`: `main` runs on after a signal (`Finish`), a poller is scheduled, a poll that has the mutex
  ends within its ten seconds, and the page asks for the status again. Not assumed is that a poll gets the mutex: a
  poll of a stuck client ends only after `ComeLoose`, which a frozen server never allows. Of a server that
  is down the connection breaks in the end, by a reset or by the keep-alive that Go's dialer turns on, so the client
  comes loose. No fairness for the start, for requests or for game
  servers: `SignalEndsProcess` holds although a request may never end.

### Where the code and a document differ
Three runs check what a document or comment says and find it violated; the trace is the
shortest one.

- `rcon_handover`: a call that gives up while the background goroutine has left
  its loop and not yet cleared the flag leaves nobody reconnecting
  (`client.go:162`; the design document promises a goroutine). The next call repairs it.
- `command_log_executed`: a command whose browser has gone is executed and not
  recorded (`handlers.go:179`; "records every executed command").
- `login_concurrent`: two login requests without a cookie in flight
  at once do invalidate one another (`middleware.go:127`, against the comment above it).

More that no run is spent on:

- A game server that accepts connections and answers nothing keeps the client's mutex taken
  (`client.go:74`) and the poller waiting for it (`client.go:91`), so that the server is not polled any more
  and keeps its last status for as long as that lasts, against `docs/configuration.md:263` and the design
  document, line 118. `OutageIsShown` therefore speaks of servers that are down.
- A configuration without `client_id` passes `Validate`, and `main` dereferences nil and panics
  (`main.go:141`); a missing secret should be an error that names the field
  (`docs/configuration.md:98` and 186).
- A retention of `"30d"`, which is the documented default and what
  `config.docker.yaml:19` sets, is no Go duration, and the process exits
  (`main.go:65`, `docs/configuration.md:165`).
- Within one second the log page shows older entries first and may leave out the newest
  (`sqlite.go:99`; `PageIsRecent` is stated in seconds for that reason).
- A reply to `list` without "players online: " is shown as an empty server that is online
  (`client.go:195`; `StatusWasTrue` says so).
- A negative `status_poll_interval` makes `time.NewTicker` panic, and the process dies (`server.go:66`, `status.go:66`;
  no document says what it should do).
- A failed read makes the metric of a stopped server 1 (`metrics.go:26`;
  `MetricStopsOnRequest` states the direction that does hold), and shows its toggle as running
  (`partials.go:263`).
- A command of 4088 to 4096 bytes passes the handler and is refused by `Encode`; `Send`
  takes that for a connection error and closes a working connection (`client.go:99`).
- A roles claim that is a list never makes an admin (`role.go:14`, against
  `docs/configuration.md:229`).
- Without `session_expiry` sessions expire at once, not after 24 hours (`main.go:140`,
  `docs/configuration.md:114`).
- `GetServerSettings` says "defaults if unset" and returns empty texts (`sqlite.go:225`).
- The lists of players offer no free text when a server is down
  (`docs/configuration.md:378`), and the log drawer is loaded once (design document, line 315).
- Every save of the settings writes all six coordinates: with two forms of one server the later save wins,
  and a form that was filled by a failed read wipes them.
- Save can be clicked twice and creates two templates; an update of a deleted template
  answers 200; `Execute` substitutes parameters in the random order of a map.

## 4. What is proved

For all values of the constants that satisfy the named assumptions (any number of
callers, connections, calls, browsers, servers, starts, tabs ...), with TLAPS:

| Module | Theorems |
|---|---|
| `RconClientProofs` | `TypeCorrect`, `InvariantHolds`, `ExchangeIsExclusive`, `ReconnectorIsSingle`, `SocketsAreAccountedFor`, `ConnectionIsAuthenticated`, `ConnectionIsQuiet`, `RepliesMatch` |
| `RconServiceProofs` | `ServiceInvariant`, `ServiceImplemented` |
| `RconProtocolProofs` | `StreamInvariant`, `PacketsComeThrough`, `ErrorsHaveCauses`, `WhatArrivesIsReturned` |
| `CommandLogProofs` | `LogInvariant`, `LogTypes`, `LoggedRepliesAreReal`, `AnsweredIsRecorded`, `LogStaysOrdered`, `PageStaysRecent` |
| `LifecycleProofs` | `LifecycleInvariant`, `LifecycleTypes`, `SwitchIsKept`, `SeedingIsOnce`, `SeedingIsWhole`, `MetricFallsOnRequest` |
| `ProcessProofs` | `ProcessInvariant`, `ProcessTypes`, `StatusIsTrue`, `StatusIsOrdered`, `SecretsAreChecked`, `ShutdownIsClean` |
| `ServerPageProofs` | `PageTypesHold`, `PartsAreOfOneServer`, `ToggleIsDesired`, `SelectorIsOfContent`, `CommandsGoToChoice`, `SettingsStay` |
| `LoginProofs` | `LoginInvariant`, `LoginTypes`, `EverySessionIsEarned`, `UndisturbedLoginsSucceed`, `PagesAreProtected` |

Every safety property of every run that passes is among them. Each module proves that an inductive
invariant (`IInv`, `ServiceInv`, `ProcessInv`, `PageInv` and its companions) is kept, together with `TypeOK`, one lemma
per conjunct or component and one step per action. The properties alone are not inductive:

- `RconClient`. That a caller reads only its own reply needs to know that nothing was under way
  when it wrote (`QuietConnection`), that an exchange puts at most one packet and its
  one reply on the connection (`CallUnderWay`, `AuthUnderWay`), that nobody else
  writes meanwhile (`LockCoversExchange`, `SocketsFollowPC`), and that a closed
  connection, which may be used again, carries nothing back (`ClosedIsSilent`). The heart of it is
  that every failed read closes the connection before the mutex is released.
- `RconClient` implements `CommandService`. The abstract `Execute` is allowed while a request has
  been executed less than twice, which no single state of the client shows: a packet may be on
  its way on a connection that the client has given up. `OnePacket` says that a connection carries at
  most one packet to the server, so the packets of a request can be counted by their connections
  (`Carriers`), and `ExecutionsWereWritten` that executions and carriers together are no more than what the
  caller's attempts can have written (`Writes`: none for a call that was refused, two for one that is over).
  `RepliesFollowExecution` is what the abstract `Succeed` needs. Then each action is an abstract step
  or a stutter: `ServerExec` is `Execute`, the end of a call is `Succeed`, `Refuse` or `GiveUp`.
- `RconProtocol`. The stream is numbered from its beginning: the frame of the i-th packet lies from
  `Begins(i)` to `ends[i]`, the reader is at `ReadSoFar`, and `Placed` says that an unread byte within
  the range of a frame is that frame's byte, however much of the frame is there. So a cut, the arrival
  of a piece and the end of the stream only shorten or move what is compared. That a
  complete frame then gives back its packet rests on lemmas about the operators: `NumbersSurvive`
  (every int32 comes out of its four bytes), `FrameLayout` (where the five parts of a frame are),
  `Trimmed` (removing null bytes from the end leaves a payload that has none), `PayloadSurvives`,
  `PacketSurvives`. They need that payloads contain no null byte, as the constants say: `DecodePacket` would
  remove it from the end of a payload.
- `CommandLog`. Rows need `RowsAreStored` and `NotYetRecorded` (what is ahead of a
  call has neither row nor answer) so that the next row is the first of its request,
  and `StagesAgree` so that an outcome of `Send` is about the request that is
  recorded. That a page is full (`PageIsRecent`) is a fact about `GetLogs` and any finite log of ordered rows: the number of
  rows that come before a row in the page's order numbers the rows from 0 without a gap (`RowsAreNumbered`),
  so those below the limit are as many as the limit (`PageIsFull`).
- `Lifecycle`. `SeedingIsFresh`: while a server is seeded it holds only this start's rows,
  from entries before the next. `SeedsAreWhole`: it holds a first part of its entries while it is
  seeded, and before and after that all or none, which with `RowsAreOld` (no row is of a later start) is what
  `SeedIsWhole` needs. `StopsAreWanted`: the table says "stopped" only if a user did,
  also for a server that `DesiredIsWanted` excepts.
- `Login`. `FlowHasVerifier`: at each stage of an undisturbed flow the verifier that its
  callback will carry is the one behind its URL. `OnlyResponsesSet`: only a response
  under way sets a cookie.
- `Process`. `StatusInv`: a poll that waits, an answer that is not yet stored, the cache and the page are
  in the order of their moments, which holds because a poller has one poll at a time. `SecretsInv`: while
  no file has changed, what was read is what `Validate` accepted. `EndInv` and `MainInv` tie the store, the listener
  and the pollers to the phase of `main`.
- `ServerPage`. `Fits`: an answer for a tab or a part is of the server and the kind of tab that is there when
  it arrives, since replacing a container makes what was under way for it `gone`.
  `ToggleInv`: at most one request is about the toggle. `SettingsInv`: a form, in the tab or on its way, agrees
  with the table in what was not edited. `ChoiceInv`: the list is set to what was chosen
  until it is replaced. `SelectorInv`: there is one server to which both the content and the selector are on their
  way. For the content it is the server of the `Newest` request, the one before which all others for it were sent, or
  else the one that is there; for the selector it is that of the request that waits in the body's queue, else of the newest
  under way, else the one that is named. An answer that overtakes none is the newest only when it is the last, and a
  new request, or one that leaves the queue, is the newest (`SentIsNewest`), which is what `before` is for.

The assumptions are stated beside the constants and evaluated by TLC in every run:
callers and background goroutines are different threads; `Nil`, `Nobody` and `Keep` are
none of the values they stand beside; the first back-off is positive and not above the
cap; the servers' configurations are lists of templates; ids are int32, payloads are bytes other
than null whose size an int32 can express, and the limit is below 65536 (it is 4096).

Only model-checked: everything with fairness (`EveryCallReturns`, `ReconnectorFinishes`,
`OldEntriesGo`, `SignalEndsProcess`, `OutageIsShown`), which the prover cannot do. That
`CommandLog` may use `CommandService`, and `StatusCache` an outline of `Send`, in the client's place is
an argument about modules, and not a theorem.

## 5. What is not modelled

- Layout, wording, `syncTarget` (it hides one player in the second list), the log drawer, and the coordinates
  that the jail buttons carry from the moment the players tab was opened.
- What htmx does beyond what the pages use: it is external, modelled from its attributes in
  `pages.templ`. The status bar of a page is in `StatusCache`, not in `ServerPage`.
- The texts of commands: parameters and their substitution, quoting, and lengths except as
  two sizes.
- The logger, the recoverer and the timeouts of `http.Server`; the choice of a log level.
- The generated query layer (not called) and the deployment.
- Two rconman processes on one database, as in a rolling update.
- Game servers that split a reply over several packets. The repository's server
  does not; `sendPacket` would read the first one only.
- `Close` of a client is called by tests only; the model lets it happen at any moment.
- A statement on SQLite that takes effect although its error says otherwise, except for
  the requests of a page (`Fail`).

## 6. Plan

Done, in this order: RCON client, its abstract promise and its proofs; handler and
log; starts and tables; login; protocol; configuration, process and status cache with
their proofs; the page with its partials and settings, with its proofs.

Then the remaining safety properties as theorems: the refinement of `CommandService`, seeding,
the page of the log, the stream of bytes, the selector.

Next:
1. A reply that a server splits over several packets, in `RconClient`.
2. The abstract status of a poller, with `StatusCache` shown to implement it.

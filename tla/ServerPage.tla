----------------------------- MODULE ServerPage -----------------------------
(***************************************************************************)
(* The page of a browser (internal/views) and the handlers it talks to     *)
(* (partials.go, templates.go, power.go): one window of an administrator,  *)
(* whose parts are replaced one by one as answers arrive, while others use *)
(* rconman too.                                                            *)
(*                                                                         *)
(* Containers are nested: the content (of one server) has the power toggle *)
(* and the tab, the tab has what was opened in it.  The answer to an       *)
(* element that is no longer in the page changes nothing, but a POST is    *)
(* carried out all the same.  Requests of one element queue, and only the  *)
(* newest waits; those that a script makes belong to the body.  So says    *)
(* htmx; requests of different elements overtake each other.               *)
(*                                                                         *)
(* An operator named Mutant_X is a plausible error in the definition below *)
(* it; no action uses one.                                                 *)
(***************************************************************************)
EXTENDS Naturals

CONSTANTS
    Servers,     \* the configured servers
    Players,     \* who may be on them
    Templates,   \* ids of command templates, in use or yet to be used
    Places,      \* what a pair of coordinates may be set to
    Blank,       \* the coordinates of a form without values
    None,        \* no server, template, part or player
    MaxEvents    \* bound: what users do, ticks of the timers, failures of the network

ASSUME NoneAssumption == None \notin Servers \cup Templates \cup Players
ASSUME BlankAssumption == Blank \in Places
ASSUME BoundsAssumption == MaxEvents \in Nat

VARIABLES
    \* the page
    sel,       \* the server that the selector names
    content,   \* the server that the content is of
    toggle,    \* the state that the power toggle names
    tab,       \* the tab: its kind, its server, and the templates it lists
    part,      \* what is open in it: runner, template form, player list or settings form
    script,    \* globals serverID and templateID of the form's script
    \* between the page and the handlers
    requests,  \* requests under way
    queued,    \* the one that waits for the body's
    before,    \* history: which was sent before which, of those for one of Ordered
    \* the server
    desired,   \* desired state of each server
    owner,     \* the server of each template; None if there is no such row
    settings,  \* the coordinates of each server
    \* history
    events,    \* how much has happened that the page did not cause
    mishaps    \* what has gone wrong between requests

pageVars == <<sel, content, toggle, tab, part, script>>
netVars == <<requests, queued, before>>
storeVars == <<desired, owner, settings>>
historyVars == <<events, mishaps>>
vars == <<pageVars, netVars, storeVars, historyVars>>

Fields == {"jail", "unjail"}
Kinds == {"commands", "players", "settings", "manage"}
States == {"running", "stopped"}

\* The answers for which it matters when the handler ran: the others say what they say
\* at any time, or are not looked at before they arrive.
Stateful == {"power", "setPower", "settings", "saveSettings", "save", "delete"}

\* What is asked, by whom, for which container and of which server; the fields that the
\* request or its answer is about are filled in.
Request(what, by, to, server) ==
    [what |-> what, by |-> by, to |-> to, server |-> server, served |-> what \notin Stateful,
     state |-> "none", template |-> None, form |-> None]

Poll(s) == Request("selector", "timer", "selector", s)

Init ==
    /\ sel = None /\ content = None /\ toggle = "none"
    /\ tab = [kind |-> "none", server |-> None, listed |-> {}]
    /\ part = None /\ script = None
    /\ events = 0 /\ mishaps = {}
    /\ requests = {Poll(None)} /\ queued = {} /\ before = {}
    /\ desired = [s \in Servers |-> "running"]
    /\ owner \in [Templates -> Servers \cup {None}]
    /\ settings \in [Servers -> [Fields -> Places]]

-----------------------------------------------------------------------------
(* Requests. *)

\* htmx.ajax without a source: the body asks.
OfBody(q) == q.by = "body"

Posts == {"setPower", "saveSettings", "save", "delete"}

\* The containers for which it matters in which order their answers arrive.
Ordered == {"selector", "content"}

\* The answer to q arrives before that to a request that was sent earlier.
Overtaking(q) == IF \E p \in requests : <<p, q>> \in before THEN {"overtaken"} ELSE {}

\* What becomes of requests when some containers go: a GET of theirs is of no use.
Without(gone, rs) ==
    {q \in rs : q.to \notin gone}
    \cup {[q EXCEPT !.to = "gone"] :
            q \in {p \in rs : p.to \in gone /\ (p.what \in Posts \/ OfBody(p))}}

\* Some requests are over, some containers went, new requests go off: one of the body
\* waits while the body is busy, in the place of the one that waited before.
Exchange(over, gone, new, names) ==
    LET left  == Without(gone, requests \ over)
        idle  == ~\E q \in left : OfBody(q)
        next  == IF idle THEN queued ELSE {}
        busy  == ~idle \/ queued # {}
        waits == {q \in new : busy /\ OfBody(q)}
        sent  == Without(gone, next) \cup (new \ waits)
    IN  /\ requests' = left \cup sent
        /\ queued' = IF waits = {} THEN Without(gone, queued \ next) ELSE waits
        /\ before' = {pair \in before : pair[1] \in left /\ pair[2] \in left}
             \cup {pair \in left \X sent : pair[1].to \in Ordered /\ pair[2].to = pair[1].to}
        /\ mishaps' = mishaps \cup names
             \cup (IF waits # {} /\ \E q \in queued \ next : q.what = "selector"
                   /\ \A p \in waits : p.what # "selector" THEN {"dropped"} ELSE {})

Send(new) == Exchange({}, {}, new, {})

-----------------------------------------------------------------------------
(* What the user does. *)

Event == events < MaxEvents /\ events' = events + 1

SelectServer(s) ==
    /\ Event
    /\ sel # None
    /\ LET click == Request("server", "button", "content", s)
       IN  Exchange({}, {}, {click, Request("selector", "body", "selector", s)},
                    IF click \in requests THEN {"again"} ELSE {})
    /\ UNCHANGED <<pageVars, storeVars>>

Mutant_OpenTab(kind) ==
    /\ Event
    /\ content # None
    /\ Send({Request(kind, "button", "tab", sel)})
    /\ UNCHANGED <<pageVars, storeVars>>

OpenTab(kind) ==
    /\ Event
    /\ content # None
    /\ Send({Request(kind, "button", "tab", content)})
    /\ UNCHANGED <<pageVars, storeVars>>

Opposite(state) == IF state = "running" THEN "stopped" ELSE "running"

\* The button posts the state that is not shown.
Toggle ==
    /\ Event
    /\ toggle # "none"
    /\ ~\E q \in requests : q.what = "setPower" /\ q.to = "toggle"
    /\ Send({[Request("setPower", "button", "toggle", content) EXCEPT !.state = Opposite(toggle)]})
    /\ UNCHANGED <<pageVars, storeVars>>

OpenRunner(t) ==
    /\ Event
    /\ tab.kind = "commands" /\ t \in tab.listed
    /\ Send({[Request("runner", "button", "part", tab.server) EXCEPT !.template = t]})
    /\ UNCHANGED <<pageVars, storeVars>>

\* Edit, or New Template.
OpenForm(t) ==
    /\ Event
    /\ tab.kind = "manage" /\ t \in tab.listed \cup {None}
    /\ Send({[Request("form", "button", "part", tab.server) EXCEPT !.template = t]})
    /\ UNCHANGED <<pageVars, storeVars>>

Cancel ==
    /\ Event
    /\ tab.kind = "manage" /\ part # None
    /\ part' = None
    /\ UNCHANGED <<sel, content, toggle, tab, script, netVars, storeVars, mishaps>>

\* saveTemplate: the globals, and not the form, say what is saved where.
SaveTemplate ==
    /\ Event
    /\ tab.kind = "manage" /\ part # None
    /\ Send({[Request("save", "script", "page", script.server) EXCEPT !.template = script.template]})
    /\ UNCHANGED <<pageVars, storeVars>>

DeleteTemplate(t) ==
    /\ Event
    /\ tab.kind = "manage" /\ t \in tab.listed
    /\ Send({[Request("delete", "button", "row", tab.server) EXCEPT !.template = t]})
    /\ UNCHANGED <<pageVars, storeVars>>

\* The user picks a player of the list.
Choose(p) ==
    /\ Event
    /\ tab.kind = "players" /\ p \in part.options
    /\ part' = [part EXCEPT !.value = p, !.chosen = p, !.replaced = FALSE]
    /\ UNCHANGED <<sel, content, toggle, tab, script, netVars, storeVars, mishaps>>

Mutant_Posted == [server |-> sel, player |-> IF tab.kind = "players" THEN part.value ELSE None]

\* What a button of the players tab, or Execute, posts: the form's server and its fields.
Posted == [server |-> tab.server, player |-> IF tab.kind = "players" THEN part.value ELSE None]

\* What becomes of it is in CommandLog.
Execute(command) ==
    /\ Event
    /\ tab.kind = "players" \/ (tab.kind = "commands" /\ part # None)
    /\ command = Posted
    /\ UNCHANGED <<pageVars, netVars, storeVars, mishaps>>

Edit(field, place) ==
    /\ Event
    /\ tab.kind = "settings" /\ place # part.values[field]
    /\ part' = [part EXCEPT !.values[field] = place, !.edited = @ \cup {field}]
    /\ UNCHANGED <<sel, content, toggle, tab, script, netVars, storeVars, mishaps>>

SaveSettings ==
    /\ Event
    /\ tab.kind = "settings"
    /\ ~\E q \in requests : q.what = "saveSettings" /\ q.to = "part"
    /\ Send({[Request("saveSettings", "button", "part", tab.server) EXCEPT !.form = part]})
    /\ UNCHANGED <<pageVars, storeVars>>

-----------------------------------------------------------------------------
(* Timers of the page. *)

\* Another server was clicked, and the selector does not name it yet.
Outdated ==
    IF \E q \in requests \cup queued : q.what = "selector" THEN {"outdatedPoll"} ELSE {}

Mutant_PollSelector ==
    /\ Event
    /\ ~\E q \in requests : q.what = "selector" /\ q.by = "timer"
    /\ Exchange({}, {}, {Poll(None)}, Outdated)
    /\ UNCHANGED <<pageVars, storeVars>>

\* Every ten seconds; it names the server that it shows, also when another was clicked.
PollSelector ==
    /\ Event
    /\ ~\E q \in requests : q.what = "selector" /\ q.by = "timer"
    /\ Exchange({}, {}, {Poll(sel)}, Outdated)
    /\ UNCHANGED <<pageVars, storeVars>>

Options(s) == Request("options", "timer", "part", s)

RefreshOptions ==
    /\ Event
    /\ tab.kind = "players"
    /\ ~\E q \in requests : q.what = "options"
    /\ Send({Options(tab.server)})
    /\ UNCHANGED <<pageVars, storeVars>>

-----------------------------------------------------------------------------
(* The handlers. *)

Answered(q) == requests' = (requests \ {q}) \cup {[q EXCEPT !.served = TRUE]}

AnsweredWith(q, answer) ==
    requests' = (requests \ {q}) \cup {[answer EXCEPT !.served = TRUE]}

\* A read that fails answers "running".
ServePower(q) ==
    /\ q.what = "power"
    /\ \/ /\ AnsweredWith(q, [q EXCEPT !.state = desired[q.server]])
          /\ UNCHANGED mishaps
       \/ /\ AnsweredWith(q, [q EXCEPT !.state = "running"])
          /\ mishaps' = mishaps \cup {"misread"}
    /\ UNCHANGED storeVars

FormOf(values) == [values |-> values, edited |-> {}]

\* A read that fails gives a form without values.
ServeSettings(q) ==
    /\ q.what = "settings"
    /\ \/ /\ AnsweredWith(q, [q EXCEPT !.form = FormOf(settings[q.server])])
          /\ UNCHANGED mishaps
       \/ /\ AnsweredWith(q, [q EXCEPT !.form = FormOf([f \in Fields |-> Blank])])
          /\ mishaps' = mishaps \cup {"misread"}
    /\ UNCHANGED storeVars

Mutant_SetPower(q) ==
    /\ q.what = "setPower"
    /\ AnsweredWith(q, [q EXCEPT !.state = desired[q.server]])
    /\ desired' = [desired EXCEPT ![q.server] = q.state]
    /\ UNCHANGED <<owner, settings, mishaps>>

SetPower(q) ==
    /\ q.what = "setPower"
    /\ Answered(q)
    /\ desired' = [desired EXCEPT ![q.server] = q.state]
    /\ UNCHANGED <<owner, settings, mishaps>>

\* There is another form of the same server: in an answer, in a save that is not yet
\* carried out, or in the tab when this one is not from there.
OtherForm(q) ==
    \/ \E p \in requests \ {q} :
         /\ p.server = q.server
         /\ p.what = (IF p.served THEN "settings" ELSE "saveSettings")
    \/ q.to = "gone" /\ tab.kind = "settings" /\ tab.server = q.server

Mutant_SaveServerSettings(q) ==
    /\ q.what = "saveSettings"
    /\ Answered(q)
    /\ settings' = [settings EXCEPT ![q.server] =
         [f \in Fields |-> IF f \in q.form.edited THEN q.form.values[f] ELSE Blank]]
    /\ mishaps' = mishaps \cup (IF OtherForm(q) THEN {"outdated"} ELSE {})
    /\ UNCHANGED <<desired, owner>>

\* All fields are written, edited or not, and shown again.
SaveServerSettings(q) ==
    /\ q.what = "saveSettings"
    /\ Answered(q)
    /\ settings' = [settings EXCEPT ![q.server] = q.form.values]
    /\ mishaps' = mishaps \cup (IF OtherForm(q) THEN {"outdated"} ELSE {})
    /\ UNCHANGED <<desired, owner>>

\* POST inserts a row; PUT changes the row, if it is still there, and answers 200.
CreateOrUpdate(q) ==
    /\ q.what = "save"
    /\ Answered(q)
    /\ IF q.template = None
       THEN \E t \in Templates : owner[t] = None /\ owner' = [owner EXCEPT ![t] = q.server]
       ELSE UNCHANGED owner
    /\ UNCHANGED <<desired, settings, mishaps>>

Delete(q) ==
    /\ q.what = "delete"
    /\ Answered(q)
    /\ owner' = [owner EXCEPT ![q.template] = None]
    /\ UNCHANGED <<desired, settings, mishaps>>

Serve(q) ==
    /\ ~q.served
    /\ \/ ServePower(q) \/ SetPower(q) \/ ServeSettings(q) \/ SaveServerSettings(q)
       \/ CreateOrUpdate(q) \/ Delete(q)
    /\ UNCHANGED <<pageVars, queued, before, events>>

-----------------------------------------------------------------------------
(* Answers arrive. *)

\* The templates of a server, as GetTemplates finds them: none when the read fails.
Rows(s) == {t \in Templates : owner[t] = s}
Found(s) == {Rows(s), {}}

Within == [content |-> {"toggle", "tab", "part", "row"}, tab |-> {"part", "row"}]

\* Without a selected server: the first that is online, or the first of all.  The first
\* selector brings the first content.
ShowSelector(q) ==
    /\ q.to = "selector"
    /\ sel' \in (IF q.server = None THEN Servers ELSE {q.server})
    /\ Exchange({q}, {}, IF sel = None THEN {Request("server", "body", "content", sel')} ELSE {},
                Overtaking(q))
    /\ UNCHANGED <<content, toggle, tab, part, script>>

\* A server with an empty tab and toggle, which ask for theirs.
ShowContent(q) ==
    /\ q.to = "content"
    /\ content' = q.server
    /\ toggle' = "none"
    /\ tab' = [kind |-> "none", server |-> None, listed |-> {}]
    /\ part' = None
    /\ Exchange({q}, Within.content,
                {Request("power", "load", "toggle", q.server),
                 Request("commands", "load", "tab", q.server)},
                Overtaking(q)
                  \cup IF \E p \in requests : p.what = "setPower" THEN {"reloaded"} ELSE {})
    /\ UNCHANGED <<sel, script>>

ShowToggle(q) ==
    /\ q.to = "toggle"
    /\ toggle' = q.state
    /\ Exchange({q}, {}, {}, {})
    /\ UNCHANGED <<sel, content, tab, part, script>>

NoPlayers == [options |-> {}, value |-> None, chosen |-> None, replaced |-> FALSE]

ShowTab(q) ==
    /\ q.to = "tab"
    /\ \E rows \in (IF q.what \in {"commands", "manage"} THEN Found(q.server) ELSE {{}}) :
         tab' = [kind |-> q.what, server |-> q.server, listed |-> rows]
    /\ part' = CASE q.what = "players"  -> NoPlayers
                [] q.what = "settings" -> q.form
                [] OTHER -> None
    /\ Exchange({q}, Within.tab, IF q.what = "players" THEN {Options(q.server)} ELSE {}, {})
    /\ UNCHANGED <<sel, content, toggle, script>>

\* An id that is not found gets a form for a new template.
FormsFor(q) ==
    {[server |-> q.server, template |-> IF q.template \in rows THEN q.template ELSE None] :
       rows \in Found(q.server)}

\* The script of the form runs each time, and sets its globals.
ShowForm(q) ==
    /\ q.what = "form" /\ q.to = "part"
    /\ part' \in FormsFor(q)
    /\ script' = part'
    /\ Exchange({q}, {}, {}, {})
    /\ UNCHANGED <<sel, content, toggle, tab>>

\* The options are replaced, and with them what was chosen.
ShowOptions(q) ==
    /\ q.what = "options" /\ q.to = "part"
    /\ \E online \in SUBSET Players :
         \E p \in (IF online = {} THEN {None} ELSE online) :
           part' = [part EXCEPT !.options = online, !.value = p, !.replaced = TRUE]
    /\ Exchange({q}, {}, {}, {})
    /\ UNCHANGED <<sel, content, toggle, tab, script>>

ShowPart(q) ==
    /\ q.to = "part"
    /\ \/ /\ q.what = "runner"
          /\ \E rows \in Found(q.server) :
               part' = IF q.template \in rows THEN q.template ELSE part
       \/ q.what = "saveSettings" /\ part' = FormOf(q.form.values)
    /\ Exchange({q}, {}, {}, {})
    /\ UNCHANGED <<sel, content, toggle, tab, script>>

\* The row of a deleted template goes.
ShowDeleted(q) ==
    /\ q.to = "row"
    /\ tab' = [tab EXCEPT !.listed = @ \ {q.template}]
    /\ Exchange({q}, {}, {}, {})
    /\ UNCHANGED <<sel, content, toggle, part, script>>

\* The form that is open is closed, and the Manage list of the globals' server asked for,
\* unless there is no place for a form: that is an error, and reported.
Saved(q) ==
    /\ q.to = "page"
    /\ IF tab.kind = "manage"
       THEN /\ part' = None
            /\ Exchange({q}, {}, {Request("manage", "body", "tab", script.server)}, {})
       ELSE Exchange({q}, {}, {}, {}) /\ UNCHANGED part
    /\ UNCHANGED <<sel, content, toggle, tab, script>>

\* The answer to a container that is gone.
Ignored(q) == q.to = "gone" /\ Exchange({q}, {}, {}, {}) /\ UNCHANGED pageVars

Show(q) ==
    /\ q.served
    /\ \/ ShowSelector(q) \/ ShowContent(q) \/ ShowToggle(q) \/ ShowTab(q) \/ ShowForm(q)
       \/ ShowOptions(q) \/ ShowPart(q) \/ ShowDeleted(q) \/ Saved(q) \/ Ignored(q)
    /\ UNCHANGED <<storeVars, events>>

-----------------------------------------------------------------------------
(* Other users, and the network. *)

\* An error, or no answer at all, whether the handler did its work or not: nothing is
\* replaced.
Fail(q) ==
    /\ Event
    /\ Exchange({q}, {}, {}, {"failed"})
    /\ UNCHANGED <<pageVars, storeVars>>

OtherUser ==
    /\ Event
    /\ \E s \in Servers :
         \/ /\ desired' = [desired EXCEPT ![s] = Opposite(@)]
            /\ UNCHANGED <<owner, settings>>
         \/ /\ \E f \in Fields, place \in Places :
                  place # settings[s][f] /\ settings' = [settings EXCEPT ![s][f] = place]
            /\ UNCHANGED <<desired, owner>>
         \/ /\ \E t \in Templates : owner[t] = s /\ owner' = [owner EXCEPT ![t] = None]
            /\ UNCHANGED <<desired, settings>>
    /\ mishaps' = mishaps \cup {"foreign"}
    /\ UNCHANGED <<pageVars, netVars>>

-----------------------------------------------------------------------------
User ==
    \/ \E s \in Servers : SelectServer(s)
    \/ \E kind \in Kinds : OpenTab(kind)
    \/ \E t \in Templates : OpenRunner(t) \/ DeleteTemplate(t)
    \/ \E t \in Templates \cup {None} : OpenForm(t)
    \/ \E p \in Players : Choose(p)
    \/ \E f \in Fields, place \in Places : Edit(f, place)
    \/ Toggle \/ Cancel \/ SaveTemplate \/ Execute(Posted) \/ SaveSettings

Next ==
    \/ User \/ PollSelector \/ RefreshOptions \/ OtherUser
    \/ \E q \in requests : Serve(q) \/ Show(q) \/ Fail(q)

Spec == Init /\ [][Next]_vars

-----------------------------------------------------------------------------
\* Every variable has its type.
TypeOK ==
    /\ {sel, content} \subseteq Servers \cup {None}
    /\ toggle \in States \cup {"none"}
    /\ tab.kind \in Kinds \cup {"none"} /\ tab.server \in Servers \cup {None}
    /\ tab.listed \subseteq Templates
    /\ \A q \in queued : OfBody(q)
    /\ desired \in [Servers -> States]
    /\ owner \in [Templates -> Servers \cup {None}]
    /\ settings \in [Servers -> [Fields -> Places]]

\* The parts of the page belong together: what runs commands or changes settings is of the
\* server whose name is shown above it, and only a list of templates may be of another;
\* a template form is of its list's server, and what Save will change is what it shows
\* (pages.templ:116-230, 665-810).
PartsBelongTogether ==
    /\ tab.kind \in {"commands", "players", "settings"} => tab.server = content
    /\ tab.kind = "manage" /\ part # None => part = script /\ part.server = tab.server

Quiet == requests = {} /\ queued = {}

\* When nothing is under way the selector names the server that the page is of, however
\* many servers were clicked and polls sent at once, unless an answer overtook that to an
\* earlier request for the same container, the timer asked for the old server after another
\* was clicked, a button was clicked again before its answer, a request failed, or the body's
\* queue has lost the selector's to the refresh after a save (pages.templ:20-26, 77-84).
SelectorNamesContent ==
    Quiet /\ mishaps \cap {"overtaken", "outdatedPoll", "again", "failed", "dropped"} = {}
        => sel = content

\* When nothing is under way the power toggle names the desired state of the server, unless
\* somebody else changed it, a request or the read failed, or the page was reloaded during a
\* change (pages.templ:125-133, 529-557, partials.go:258-273, power.go:32-124).
ToggleShowsDesired ==
    Quiet /\ toggle # "none" /\ mishaps \cap {"reloaded", "failed", "foreign", "misread"} = {}
        => toggle = desired[content]

\* A command was run on the server whose name was shown, and for the player that the user
\* chose, unless the list was replaced after the choice (pages.templ:370-397).
CommandGoesToChoice ==
    [][\A command \in [server : Servers \cup {None}, player : Players \cup {None}] :
         Execute(command) =>
           /\ command.server = content
           /\ tab.kind = "players" /\ part.chosen # None =>
                part.replaced \/ command.player = part.chosen]_vars

\* A save of the settings leaves the coordinates alone that the user did not edit, unless the
\* form was filled by a read that failed or preceded another save (partials.go:192-240).
UneditedSettingsStay ==
    [][\A q \in requests :
         ~q.served /\ SaveServerSettings(q)
           /\ mishaps \cap {"misread", "outdated", "foreign"} = {}
         => \A f \in Fields \ q.form.edited : settings'[q.server][f] = settings[q.server][f]]_vars
=============================================================================

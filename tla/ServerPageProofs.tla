-------------------------- MODULE ServerPageProofs --------------------------
(***************************************************************************)
(* Proofs about ServerPage, for every set of servers, players, templates   *)
(* and coordinates, and for any number of events.                          *)
(***************************************************************************)
EXTENDS ServerPage, TLAPS

-----------------------------------------------------------------------------
(* Requests. *)

Known == requests \cup queued

Formed(q) ==
    DOMAIN q = {"what", "by", "to", "server", "served", "state", "template", "form"}

\* A request that has lost its container is otherwise what it was.
LEMMA GoneIsFormed ==
    ASSUME NEW p, Formed(p)
    PROVE  LET q == [p EXCEPT !.to = "gone"]
           IN  /\ Formed(q) /\ q.to = "gone"
               /\ q.what = p.what /\ q.by = p.by /\ q.server = p.server /\ q.served = p.served
               /\ q.state = p.state /\ q.template = p.template /\ q.form = p.form
  BY DEF Formed

\* So is one that was answered.
LEMMA ServedIsFormed ==
    ASSUME NEW p, Formed(p)
    PROVE  LET q == [p EXCEPT !.served = TRUE]
           IN  /\ Formed(q) /\ q.served = TRUE
               /\ q.what = p.what /\ q.by = p.by /\ q.server = p.server /\ q.to = p.to
               /\ q.state = p.state /\ q.template = p.template /\ q.form = p.form
  BY DEF Formed

LEMMA RequestIsFormed ==
    ASSUME NEW what, NEW by, NEW to, NEW s
    PROVE  LET q == Request(what, by, to, s)
           IN  /\ Formed(q) /\ q.what = what /\ q.by = by /\ q.to = to /\ q.server = s
               /\ q.served = (what \notin Stateful) /\ q.state = "none"
               /\ q.template = None /\ q.form = None
  BY DEF Formed, Request

\* Where a request comes from that is under way after an exchange.
LEMMA ExchangeKeeps ==
    ASSUME NEW over, NEW gone, NEW new, NEW names, Exchange(over, gone, new, names),
           NEW q \in requests' \cup queued'
    PROVE  \/ q \in new
           \/ q \in (requests \ over) \cup queued /\ q.to \notin gone
           \/ \E p \in (requests \ over) \cup queued : p.to \in gone /\ q = [p EXCEPT !.to = "gone"]
  <1> DEFINE left  == Without(gone, requests \ over)
             next  == IF ~\E p \in left : OfBody(p) THEN queued ELSE {}
             busy  == (\E p \in left : OfBody(p)) \/ queued # {}
             waits == {p \in new : busy /\ OfBody(p)}
  <1>1. /\ requests' = left \cup Without(gone, next) \cup (new \ waits)
        /\ queued' = IF waits = {} THEN Without(gone, queued \ next) ELSE waits
    BY DEF Exchange
  <1>2. \/ q \in new
        \/ q \in Without(gone, requests \ over)
        \/ q \in Without(gone, next)
        \/ q \in Without(gone, queued \ next)
    BY <1>1
  <1> QED
    BY <1>2 DEF Without

-----------------------------------------------------------------------------
(* What a request is about. *)

Place == Servers \cup {None}

Forms == [values : [Fields -> Places], edited : SUBSET Fields]

Lists == [options : SUBSET Players, value : Players \cup {None}, chosen : Players \cup {None},
          replaced : BOOLEAN]

\* The requests of a part, and the kind of tab that it is in.
PartOf(q) == CASE q.what = "runner"       -> "commands"
               [] q.what = "form"         -> "manage"
               [] q.what = "options"      -> "players"
               [] q.what = "saveSettings" -> "settings"
               [] OTHER                   -> "other"

\* A request for the tab is about the server of the content, unless it asks for a Manage
\* list; one for a part is about the server of the tab, and the tab is of its kind.
Fits(q) ==
    /\ Formed(q)
    /\ q.server \in Place
    /\ q.to = "content" => q.server \in Servers
    /\ q.to = "toggle" => q.server = content
    /\ q.to = "tab" =>
         /\ q.what \in Kinds
         /\ q.what = "manage" \/ (q.server = content /\ content \in Servers)
    /\ q.to = "part" => q.server = tab.server /\ tab.kind = PartOf(q)
    /\ q.to = "page" => script.server \in Place

\* What the handlers need of it.
Served(q) ==
    /\ q.what \in {"setPower", "power"} => q.server \in Servers /\ q.by # "body"
    /\ q.what = "setPower" \/ (q.what = "power" /\ q.served) => q.state \in States
    /\ q.to = "toggle" => q.what \in {"setPower", "power"}
    /\ q.what \in {"settings", "saveSettings"} =>
         q.server \in Servers /\ q.to \in {"tab", "part", "gone"} /\ q.by = "button"
    /\ q.what = "saveSettings" \/ (q.what = "settings" /\ q.served) => q.form \in Forms

PageTypes ==
    /\ TypeOK
    /\ tab \in [kind : Kinds \cup {"none"}, server : Place, listed : SUBSET Templates]
    /\ tab.kind # "none" /\ tab.kind # "manage" => tab.server = content /\ content \in Servers
    /\ toggle # "none" => content \in Servers
    /\ tab.kind = "players" => part \in Lists
    /\ tab.kind = "settings" => part \in Forms

PageInv ==
    /\ PageTypes
    /\ \A q \in Known : Fits(q) /\ Served(q)
    /\ PartsBelongTogether

\* The user has chosen what the list of players is set to, unless it was replaced.
ChoiceInv ==
    tab.kind = "players" /\ part.chosen # None => part.replaced \/ part.value = part.chosen

-----------------------------------------------------------------------------
(* Exchanges. *)

LEMMA QueueIsOfBody ==
    ASSUME NEW over, NEW gone, NEW new, NEW names, Exchange(over, gone, new, names),
           \A q \in Known : Formed(q), \A q \in queued : OfBody(q)
    PROVE  \A q \in queued' : OfBody(q)
  <1> DEFINE left  == Without(gone, requests \ over)
             next  == IF ~\E p \in left : OfBody(p) THEN queued ELSE {}
             busy  == (\E p \in left : OfBody(p)) \/ queued # {}
             waits == {p \in new : busy /\ OfBody(p)}
  <1>1. queued' = IF waits = {} THEN Without(gone, queued \ next) ELSE waits
    BY DEF Exchange
  <1>2. ASSUME NEW p \in queued
        PROVE  OfBody([p EXCEPT !.to = "gone"])
    BY <1>2, GoneIsFormed DEF OfBody, Known
  <1>3. \A q \in Without(gone, queued \ next) : OfBody(q)
    BY <1>2 DEF Without
  <1> QED
    BY <1>1, <1>3

\* After an exchange every request fits that was kept in a container of its own, or is new.
LEMMA ExchangeFits ==
    ASSUME NEW over, NEW gone, NEW new, NEW names, Exchange(over, gone, new, names),
           \A q \in Known : Fits(q) /\ Served(q),
           \A q \in Known : q.to \notin gone => Fits(q)',
           \A q \in new : Fits(q)' /\ Served(q)
    PROVE  \A q \in Known' : Fits(q)' /\ Served(q)
  <1> SUFFICES ASSUME NEW q \in Known' PROVE Fits(q)' /\ Served(q)
    OBVIOUS
  <1>1. ASSUME NEW p \in Known, q = [p EXCEPT !.to = "gone"]
        PROVE  Fits(q)' /\ Served(q)
    <2>1. Formed(p) /\ p.server \in Place /\ Served(p)
      BY <1>1 DEF Fits
    <2>2. /\ Formed(q) /\ q.to = "gone"
          /\ q.what = p.what /\ q.by = p.by /\ q.server = p.server /\ q.served = p.served
          /\ q.state = p.state /\ q.form = p.form
      BY <1>1, <2>1, GoneIsFormed
    <2>3. Fits(q)'
      BY <2>1, <2>2 DEF Fits, Formed
    <2>4. Served(q)
      BY <2>1, <2>2 DEF Served
    <2> QED
      BY <2>3, <2>4
  <1>2. CASE q \in new
    BY <1>2
  <1>3. CASE q \in Known /\ q.to \notin gone
    BY <1>3
  <1> QED
    BY <1>1, <1>2, <1>3, ExchangeKeeps DEF Known

LEMMA SameFits ==
    ASSUME NEW q, Fits(q), content' = content, script' = script,
           tab'.kind = tab.kind, tab'.server = tab.server
    PROVE  Fits(q)'
  BY DEF Fits, Formed

\* A request from a page that does not change.
LEMMA AskKeeps ==
    ASSUME PageInv, NEW new, NEW names, Exchange({}, {}, new, names),
           UNCHANGED <<pageVars, storeVars>>, \A q \in new : Fits(q) /\ Served(q)
    PROVE  PageInv'
  <1>1. \A q \in Known' : Fits(q)' /\ Served(q)
    BY ExchangeFits, SameFits DEF PageInv, pageVars
  <1>2. \A q \in queued' : OfBody(q)
    BY QueueIsOfBody DEF PageInv, Fits, PageTypes, TypeOK
  <1>3. PageTypes'
    BY <1>2 DEF PageInv, PageTypes, TypeOK, pageVars, storeVars, OfBody
  <1> QED
    BY <1>1, <1>3 DEF PageInv, PartsBelongTogether, pageVars, Served

LEMMA SendKeeps ==
    ASSUME PageInv, NEW new, Send(new), UNCHANGED <<pageVars, storeVars>>,
           \A q \in new : Fits(q) /\ Served(q)
    PROVE  PageInv'
  BY AskKeeps DEF Send

-----------------------------------------------------------------------------
(* The user and the timers. *)

LEMMA OpensKeep ==
    ASSUME PageInv
    PROVE  /\ \A s \in Servers : SelectServer(s) => PageInv'
           /\ \A kind \in Kinds : OpenTab(kind) => PageInv'
           /\ Toggle => PageInv'
           /\ \A t \in Templates : OpenRunner(t) \/ DeleteTemplate(t) => PageInv'
           /\ \A t \in Templates \cup {None} : OpenForm(t) => PageInv'
  <1> USE DEF PageInv, PageTypes, Place
  <1>1. ASSUME NEW s \in Servers, SelectServer(s)
        PROVE  PageInv'
    <2> DEFINE q1 == Request("selector", "body", "selector", s)
               q2 == Request("server", "button", "content", s)
    <2>1. \A q \in {q1, q2} : Fits(q) /\ Served(q)
      BY RequestIsFormed DEF Fits, Served
    <2>2. PICK names : Exchange({}, {}, {q2, q1}, names)
      BY <1>1 DEF SelectServer
    <2> HIDE DEF q1, q2
    <2> QED
      BY <1>1, <2>1, <2>2, AskKeeps DEF SelectServer
  <1>2. ASSUME NEW kind \in Kinds, OpenTab(kind)
        PROVE  PageInv'
    <2> DEFINE q == Request(kind, "button", "tab", content)
    <2>1. content \in Servers
      BY <1>2 DEF OpenTab, TypeOK
    <2>2. /\ Formed(q) /\ q.what = kind /\ q.by = "button" /\ q.to = "tab"
          /\ q.server = content
      BY RequestIsFormed
    <2>5. kind = "settings" => ~q.served
      BY DEF Request, Stateful
    <2> HIDE DEF q
    <2>3. Fits(q) /\ Served(q)
      BY <2>1, <2>2, <2>5 DEF Fits, Served, Kinds
    <2>4. Send({q})
      BY <1>2 DEF OpenTab, q
    <2> QED
      BY <1>2, <2>3, <2>4, SendKeeps DEF OpenTab
  <1>3. ASSUME Toggle
        PROVE  PageInv'
    <2> DEFINE r == Request("setPower", "button", "toggle", content)
               q == [r EXCEPT !.state = Opposite(toggle)]
    <2>1. content \in Servers /\ Opposite(toggle) \in States
      BY <1>3 DEF Toggle, Opposite, States
    <2>2. /\ Formed(r) /\ r.what = "setPower" /\ r.to = "toggle" /\ r.server = content
          /\ r.by = "button"
      BY RequestIsFormed
    <2> HIDE DEF r
    <2>3. /\ Formed(q) /\ q.what = "setPower" /\ q.to = "toggle" /\ q.server = content
          /\ q.state = Opposite(toggle) /\ q.by = "button"
      BY <2>2 DEF Formed
    <2> HIDE DEF q
    <2>4. Fits(q) /\ Served(q)
      BY <2>1, <2>3 DEF Fits, Served
    <2>5. Send({q})
      BY <1>3 DEF Toggle, q, r
    <2> QED
      BY <1>3, <2>4, <2>5, SendKeeps DEF Toggle
  <1>4. ASSUME NEW t, NEW what \in {"runner", "form", "delete"}, NEW to \in {"part", "row"},
               NEW q, q = [Request(what, "button", to, tab.server) EXCEPT !.template = t],
               Send({q}), UNCHANGED <<pageVars, storeVars>>,
               what = "runner" => tab.kind = "commands",
               what = "form" => tab.kind = "manage",
               to = "part" => what # "delete"
        PROVE  PageInv'
    <2> DEFINE r == Request(what, "button", to, tab.server)
    <2>1. Formed(r) /\ r.what = what /\ r.to = to /\ r.server = tab.server
      BY RequestIsFormed
    <2>2. q = [r EXCEPT !.template = t]
      BY <1>4
    <2> HIDE DEF r
    <2>3. Formed(q) /\ q.what = what /\ q.to = to /\ q.server = tab.server
      BY <2>1, <2>2 DEF Formed
    <2>4. Fits(q) /\ Served(q)
      BY <1>4, <2>3 DEF Fits, Served, PartOf, TypeOK
    <2> QED
      BY <1>4, <2>4, SendKeeps
  <1>5. ASSUME NEW t \in Templates, OpenRunner(t) \/ DeleteTemplate(t)
        PROVE  PageInv'
    BY <1>4, <1>5 DEF OpenRunner, DeleteTemplate
  <1>6. ASSUME NEW t \in Templates \cup {None}, OpenForm(t)
        PROVE  PageInv'
    BY <1>4, <1>6 DEF OpenForm
  <1> QED
    BY <1>1, <1>2, <1>3, <1>5, <1>6

LEMMA SavesKeep == PageInv /\ (SaveTemplate \/ SaveSettings) => PageInv'
  <1> SUFFICES ASSUME PageInv, SaveTemplate \/ SaveSettings PROVE PageInv'
    OBVIOUS
  <1> USE DEF PageInv, PageTypes, Place
  <1>1. CASE SaveTemplate
    <2> DEFINE r == Request("save", "script", "page", script.server)
               q == [r EXCEPT !.template = script.template]
    <2>1. script.server \in Place
      BY <1>1 DEF SaveTemplate, PartsBelongTogether
    <2>2. Formed(r) /\ r.what = "save" /\ r.to = "page" /\ r.server = script.server
      BY RequestIsFormed
    <2> HIDE DEF r
    <2>3. Formed(q) /\ q.what = "save" /\ q.to = "page" /\ q.server = script.server
      BY <2>2 DEF Formed
    <2> HIDE DEF q
    <2>4. Fits(q) /\ Served(q)
      BY <2>1, <2>3 DEF Fits, Served
    <2>5. Send({q})
      BY <1>1 DEF SaveTemplate, q, r
    <2> QED
      BY <1>1, <2>4, <2>5, SendKeeps DEF SaveTemplate
  <1>2. CASE SaveSettings
    <2> DEFINE r == Request("saveSettings", "button", "part", tab.server)
               q == [r EXCEPT !.form = part]
    <2>1. part \in Forms /\ tab.kind = "settings" /\ tab.server \in Servers
      BY <1>2 DEF SaveSettings
    <2>2. /\ Formed(r) /\ r.what = "saveSettings" /\ r.to = "part" /\ r.server = tab.server
          /\ r.by = "button"
      BY RequestIsFormed
    <2> HIDE DEF r
    <2>3. /\ Formed(q) /\ q.what = "saveSettings" /\ q.to = "part" /\ q.server = tab.server
          /\ q.by = "button" /\ q.form = part
      BY <2>2 DEF Formed
    <2> HIDE DEF q
    <2>4. Fits(q) /\ Served(q)
      BY <2>1, <2>3 DEF Fits, Served, PartOf
    <2>5. Send({q})
      BY <1>2 DEF SaveSettings, q, r
    <2> QED
      BY <1>2, <2>4, <2>5, SendKeeps DEF SaveSettings
  <1> QED
    BY <1>1, <1>2

LEMMA PollsKeep == PageInv /\ (PollSelector \/ RefreshOptions) => PageInv'
  <1> SUFFICES ASSUME PageInv, PollSelector \/ RefreshOptions PROVE PageInv'
    OBVIOUS
  <1> USE DEF PageInv, PageTypes, Place
  <1>1. CASE PollSelector
    <2>1. Fits(Poll(sel)) /\ Served(Poll(sel))
      BY RequestIsFormed DEF Poll, Fits, Served, TypeOK
    <2> QED
      BY <1>1, <2>1, AskKeeps DEF PollSelector
  <1>2. CASE RefreshOptions
    <2>1. Fits(Options(tab.server)) /\ Served(Options(tab.server))
      BY <1>2, RequestIsFormed DEF RefreshOptions, Options, Fits, Served, PartOf
    <2> QED
      BY <1>2, <2>1, SendKeeps DEF RefreshOptions
  <1> QED
    BY <1>1, <1>2

\* What changes the open part only.
LEMMA PartKeeps ==
    ASSUME PageInv, UNCHANGED <<sel, content, toggle, tab, script, netVars, storeVars>>,
           tab.kind = "manage" => part' \in {part, None},
           tab.kind = "players" => part' \in Lists,
           tab.kind = "settings" => part' \in Forms
    PROVE  PageInv'
  <1>1. \A q \in Known' : Fits(q)' /\ Served(q)
    BY SameFits DEF PageInv, netVars, Known
  <1>2. PageTypes'
    BY DEF PageInv, PageTypes, TypeOK, storeVars, netVars, OfBody
  <1>3. PartsBelongTogether'
    BY DEF PageInv, PartsBelongTogether
  <1> QED
    BY <1>1, <1>2, <1>3 DEF PageInv, Served

LEMMA EditsKeep ==
    ASSUME PageInv
    PROVE  /\ Cancel => PageInv'
           /\ \A p \in Players : Choose(p) => PageInv'
           /\ Execute(Posted) => PageInv'
           /\ \A f \in Fields, place \in Places : Edit(f, place) => PageInv'
  <1>1. Cancel => PageInv'
    BY PartKeeps DEF Cancel
  <1>2. ASSUME NEW p \in Players, Choose(p)
        PROVE  PageInv'
    <2>1. part' \in Lists
      BY <1>2 DEF Choose, PageInv, PageTypes, Lists
    <2> QED
      BY <1>2, <2>1, PartKeeps DEF Choose
  <1>3. Execute(Posted) => PageInv'
    BY PartKeeps DEF Execute, pageVars, PageInv, PageTypes
  <1>4. ASSUME NEW f \in Fields, NEW place \in Places, Edit(f, place)
        PROVE  PageInv'
    <2>1. part' \in Forms
      BY <1>4 DEF Edit, PageInv, PageTypes, Forms
    <2> QED
      BY <1>4, <2>1, PartKeeps DEF Edit
  <1> QED
    BY <1>1, <1>2, <1>3, <1>4

-----------------------------------------------------------------------------
(* The handlers. *)

\* An answer is about what the request was about.
LEMMA ServeKeeps ==
    ASSUME PageInv, NEW q \in requests, Serve(q)
    PROVE  PageInv'
  <1> USE DEF PageInv, PageTypes, TypeOK
  <1>1. Fits(q) /\ Served(q) /\ Formed(q)
    BY DEF Known, Fits
  <1>2. ASSUME NEW a, requests' = (requests \ {q}) \cup {a}, Fits(a), Served(a),
               desired' \in [Servers -> States],
               owner' \in [Templates -> Place],
               settings' \in [Servers -> [Fields -> Places]]
        PROVE  PageInv'
    <2> USE <1>2
    <2>1. UNCHANGED <<pageVars, queued>>
      BY DEF Serve
    <2>2. \A p \in Known' : Fits(p)' /\ Served(p)
      BY <2>1, SameFits DEF Known, pageVars
    <2>3. PageTypes'
      BY <2>1 DEF pageVars, OfBody, Place
    <2> QED
      BY <2>1, <2>2, <2>3 DEF pageVars, PartsBelongTogether, Served
  <1>3. ASSUME NEW b, Formed(b), b.what = q.what, b.by = q.by, b.to = q.to, b.server = q.server,
               Served([b EXCEPT !.served = TRUE])
        PROVE  Fits([b EXCEPT !.served = TRUE])
    BY <1>1, <1>3, ServedIsFormed DEF Fits, PartOf
  <1>4. CASE ServePower(q)
    <2>0. PICK state \in {desired[q.server], "running"} :
                 AnsweredWith(q, [q EXCEPT !.state = state])
      BY <1>4 DEF ServePower
    <2> DEFINE b == [q EXCEPT !.state = state]
    <2>1. /\ Formed(b) /\ b.what = "power" /\ b.what = q.what /\ b.by = q.by /\ b.to = q.to
          /\ b.server = q.server /\ b.state \in States
      BY <1>1, <1>4, <2>0 DEF ServePower, Formed, Served, States
    <2>2. requests' = (requests \ {q}) \cup {[b EXCEPT !.served = TRUE]}
      BY <2>0 DEF AnsweredWith
    <2> HIDE DEF b
    <2>3. Served([b EXCEPT !.served = TRUE])
      BY <1>1, <2>1, ServedIsFormed DEF Served
    <2> QED
      BY <1>2, <1>3, <1>4, <2>1, <2>2, <2>3 DEF ServePower, storeVars, Place
  <1>5. ASSUME q.what \in {"setPower", "saveSettings", "save", "delete"}, Answered(q),
               desired' \in [Servers -> States],
               owner' \in [Templates -> Place],
               settings' \in [Servers -> [Fields -> Places]]
        PROVE  PageInv'
    <2>1. Served([q EXCEPT !.served = TRUE])
      BY <1>1, <1>5, ServedIsFormed DEF Served
    <2> QED
      BY <1>1, <1>2, <1>3, <1>5, <2>1 DEF Answered
  <1>6. CASE SetPower(q)
    <2>1. desired' \in [Servers -> States]
      BY <1>1, <1>6 DEF SetPower, Served
    <2> QED
      BY <1>5, <1>6, <2>1 DEF SetPower, Place
  <1>7. CASE ServeSettings(q)
    <2>1. PICK values \in [Fields -> Places] :
            AnsweredWith(q, [q EXCEPT !.form = FormOf(values)])
      <3>1. q.server \in Servers
        BY <1>1, <1>7 DEF ServeSettings, Served
      <3>2. CASE AnsweredWith(q, [q EXCEPT !.form = FormOf(settings[q.server])])
        BY <3>1, <3>2
      <3>3. CASE AnsweredWith(q, [q EXCEPT !.form = FormOf([f \in Fields |-> Blank])])
        BY <3>3, BlankAssumption
      <3> QED
        BY <1>7, <3>2, <3>3 DEF ServeSettings
    <2> DEFINE b == [q EXCEPT !.form = FormOf(values)]
    <2>2. /\ Formed(b) /\ b.what = "settings" /\ b.what = q.what /\ b.by = q.by /\ b.to = q.to
          /\ b.server = q.server /\ b.form = FormOf(values)
      BY <1>1, <1>7 DEF ServeSettings, Formed
    <2>3. FormOf(values) \in Forms
      BY DEF FormOf, Forms
    <2>4. requests' = (requests \ {q}) \cup {[b EXCEPT !.served = TRUE]}
      BY <2>1 DEF AnsweredWith
    <2> HIDE DEF b
    <2>5. Served([b EXCEPT !.served = TRUE])
      BY <1>1, <2>2, <2>3, ServedIsFormed DEF Served
    <2> QED
      BY <1>2, <1>3, <1>7, <2>2, <2>4, <2>5 DEF ServeSettings, storeVars, Place
  <1>8. CASE SaveServerSettings(q)
    <2>1. settings' \in [Servers -> [Fields -> Places]]
      BY <1>1, <1>8 DEF SaveServerSettings, Served, Forms
    <2> QED
      BY <1>5, <1>8, <2>1 DEF SaveServerSettings, Place
  <1>9. CASE CreateOrUpdate(q)
    <2>1. owner' \in [Templates -> Place]
      BY <1>1, <1>9 DEF CreateOrUpdate, Fits, Place
    <2> QED
      BY <1>5, <1>9, <2>1 DEF CreateOrUpdate
  <1>10. CASE Delete(q)
    <2>1. owner' \in [Templates -> Place]
      BY <1>10 DEF Delete, Place
    <2> QED
      BY <1>5, <1>10, <2>1 DEF Delete
  <1> QED
    BY <1>4, <1>6, <1>7, <1>8, <1>9, <1>10 DEF Serve

-----------------------------------------------------------------------------
(* Answers. *)

\* An exchange is in order when the new page is, and what is kept and what is new fits it.
LEMMA ArrivalKeeps ==
    ASSUME PageInv, NEW over, NEW gone, NEW new, NEW names, Exchange(over, gone, new, names),
           UNCHANGED storeVars,
           \A q \in Known : q.to \notin gone => Fits(q)',
           \A q \in new : Fits(q)' /\ Served(q),
           sel' \in Place, content' \in Place, toggle' \in States \cup {"none"},
           tab' \in [kind : Kinds \cup {"none"}, server : Place, listed : SUBSET Templates],
           tab'.kind # "none" /\ tab'.kind # "manage" =>
             tab'.server = content' /\ content' \in Servers,
           toggle' # "none" => content' \in Servers,
           tab'.kind = "players" => part' \in Lists,
           tab'.kind = "settings" => part' \in Forms,
           tab'.kind = "manage" /\ part' # None => part' = script' /\ part'.server = tab'.server
    PROVE  PageInv'
  <1>1. \A q \in Known' : Fits(q)' /\ Served(q)
    BY ExchangeFits DEF PageInv
  <1>2. \A q \in queued' : OfBody(q)
    BY QueueIsOfBody DEF PageInv, Fits, PageTypes, TypeOK
  <1>3. TypeOK'
    BY <1>2 DEF PageInv, PageTypes, TypeOK, storeVars, OfBody, Place
  <1>4. PageTypes'
    BY <1>3 DEF PageTypes, Place
  <1>5. PartsBelongTogether'
    BY DEF PartsBelongTogether
  <1> QED
    BY <1>1, <1>4, <1>5 DEF PageInv, Served

\* The same, for answers that leave content, tab and script alone.
LEMMA SmallArrivalKeeps ==
    ASSUME PageInv, NEW over, NEW new, NEW names, Exchange(over, {}, new, names),
           UNCHANGED <<content, tab, script, storeVars>>,
           \A q \in new : Fits(q) /\ Served(q),
           sel' \in Place, toggle' \in States \cup {"none"},
           toggle' # "none" => content \in Servers,
           tab.kind = "players" => part' \in Lists,
           tab.kind = "settings" => part' \in Forms,
           tab.kind = "manage" => part' \in {part, None}
    PROVE  PageInv'
  <1>1. \A q \in Known : Fits(q)'
    BY SameFits DEF PageInv
  <1>2. \A q \in new : Fits(q)'
    BY SameFits
  <1> QED
    BY <1>1, <1>2, ArrivalKeeps DEF PageInv, PageTypes, TypeOK, Place, PartsBelongTogether

LEMMA SmallShowsKeep ==
    ASSUME PageInv, NEW q \in requests, q.served, UNCHANGED storeVars,
           ShowSelector(q) \/ ShowToggle(q) \/ ShowOptions(q) \/ ShowPart(q) \/ Saved(q)
             \/ Ignored(q)
    PROVE  PageInv'
  <1> USE DEF PageInv, PageTypes, TypeOK
  <1>1. Fits(q) /\ Served(q)
    BY DEF Known
  <1>2. CASE ShowSelector(q)
    <2> DEFINE new == IF sel = None THEN {Request("server", "body", "content", sel')} ELSE {}
    <2>1. sel' \in Place /\ (q.server = None => sel' \in Servers) /\ (q.server # None => sel' = q.server)
      BY <1>1, <1>2 DEF ShowSelector, Fits, Place
    <2>2. sel' \in Servers
      BY <1>1, <2>1 DEF Fits, Place
    <2>3. \A r \in new : Fits(r) /\ Served(r)
      BY <2>2, RequestIsFormed DEF Fits, Served, Place
    <2>4. Exchange({q}, {}, new, Overtaking(q))
      BY <1>2 DEF ShowSelector
    <2> HIDE DEF new
    <2> QED
      BY <1>2, <2>1, <2>3, <2>4, SmallArrivalKeeps DEF ShowSelector
  <1>3. CASE ShowToggle(q)
    <2>1. q.state \in States /\ content \in Servers
      BY <1>1, <1>3 DEF ShowToggle, Fits, Served
    <2> QED
      BY <1>3, <2>1, SmallArrivalKeeps DEF ShowToggle, Place
  <1>4. CASE ShowOptions(q)
    <2>1. tab.kind = "players"
      BY <1>1, <1>4 DEF ShowOptions, Fits, PartOf
    <2>2. part' \in Lists
      <3>1. PICK online \in SUBSET Players :
              \E p \in (IF online = {} THEN {None} ELSE online) :
                part' = [part EXCEPT !.options = online, !.value = p, !.replaced = TRUE]
        BY <1>4 DEF ShowOptions
      <3>2. PICK p \in Players \cup {None} :
              part' = [part EXCEPT !.options = online, !.value = p, !.replaced = TRUE]
        BY <3>1
      <3> QED
        BY <2>1, <3>2 DEF Lists
    <2>3. Exchange({q}, {}, {}, {}) /\ UNCHANGED <<sel, content, toggle, tab, script>>
      BY <1>4 DEF ShowOptions
    <2> QED
      BY <2>1, <2>2, <2>3, SmallArrivalKeeps DEF Place
  <1>5. CASE ShowPart(q)
    <2>1. tab.kind = PartOf(q)
      BY <1>1, <1>5 DEF ShowPart, Fits
    <2>2. CASE q.what = "runner"
      BY <1>5, <2>1, <2>2, SmallArrivalKeeps DEF ShowPart, PartOf, Place
    <2>3. CASE q.what = "saveSettings"
      <3>1. q.form.values \in [Fields -> Places]
        BY <1>1, <2>3 DEF Served, Forms
      <3>2. part' \in Forms
        BY <1>5, <2>3, <3>1 DEF ShowPart, FormOf, Forms
      <3> QED
        BY <1>5, <2>1, <2>3, <3>2, SmallArrivalKeeps DEF ShowPart, PartOf, Place
    <2> QED
      BY <1>5, <2>2, <2>3 DEF ShowPart
  <1>6. CASE Saved(q)
    <2> DEFINE r == Request("manage", "body", "tab", script.server)
    <2>1. Fits(r) /\ Served(r)
      BY <1>1, <1>6, RequestIsFormed DEF Saved, Fits, Served, Kinds
    <2> HIDE DEF r
    <2>2. CASE tab.kind = "manage"
      <3>1. Exchange({q}, {}, {r}, {})
        BY <1>6, <2>2 DEF Saved, r
      <3> QED
        BY <1>6, <2>1, <2>2, <3>1, SmallArrivalKeeps DEF Saved, Place
    <2>3. CASE tab.kind # "manage"
      BY <1>6, <2>3, SmallArrivalKeeps DEF Saved, Place
    <2> QED
      BY <2>2, <2>3
  <1>7. CASE Ignored(q)
    BY <1>7, SmallArrivalKeeps DEF Ignored, pageVars, Place
  <1> QED
    BY <1>2, <1>3, <1>4, <1>5, <1>6, <1>7

LEMMA ContentKeeps ==
    ASSUME PageInv, NEW q \in requests, UNCHANGED storeVars, ShowContent(q)
    PROVE  PageInv'
  <1> USE DEF PageInv, PageTypes, TypeOK
  <1>1. Fits(q) /\ q.server \in Servers
    BY DEF Known, Fits, ShowContent
  <1> DEFINE power    == Request("power", "load", "toggle", q.server)
             commands == Request("commands", "load", "tab", q.server)
             names    == Overtaking(q)
                           \cup IF \E p \in requests : p.what = "setPower" THEN {"reloaded"} ELSE {}
  <1>2. Fits(power)' /\ Served(power)
    <2>1. power.served = FALSE
      BY DEF Request, Stateful
    <2>2. /\ Formed(power) /\ power.what = "power" /\ power.to = "toggle"
          /\ power.server = q.server /\ power.by = "load"
      BY RequestIsFormed
    <2> HIDE DEF power
    <2> QED
      BY <1>1, <2>1, <2>2 DEF Fits, Formed, Served, Place, ShowContent
  <1>3. Fits(commands)' /\ Served(commands)
    <2>1. /\ Formed(commands) /\ commands.what = "commands" /\ commands.to = "tab"
          /\ commands.server = q.server
      BY RequestIsFormed
    <2> HIDE DEF commands
    <2> QED
      BY <1>1, <2>1 DEF Fits, Formed, Served, Kinds, Place, ShowContent
  <1>4. Exchange({q}, Within.content, {power, commands}, names)
    BY DEF ShowContent
  <1>5. \A p \in Known : p.to \notin Within.content => Fits(p)'
    BY DEF Within, Fits, Formed, ShowContent
  <1>6. /\ content' = q.server /\ toggle' = "none" /\ part' = None /\ sel' = sel
        /\ tab' = [kind |-> "none", server |-> None, listed |-> {}]
    BY DEF ShowContent
  <1> HIDE DEF power, commands, names
  <1> QED
    BY <1>1, <1>2, <1>3, <1>4, <1>5, <1>6, ArrivalKeeps DEF Place

LEMMA TabKeeps ==
    ASSUME PageInv, NEW q \in requests, q.served, UNCHANGED storeVars, ShowTab(q)
    PROVE  PageInv'
  <1>0. Fits(q) /\ Served(q) /\ q.to = "tab"
    BY DEF PageInv, Known, ShowTab
  <1>1. /\ q.what \in Kinds /\ q.server \in Place
        /\ q.what = "manage" \/ (q.server = content /\ content \in Servers)
    <2>1. q.server \in Place
      BY <1>0 DEF Fits
    <2>2. q.what \in Kinds /\ (q.what = "manage" \/ (q.server = content /\ content \in Servers))
      BY <1>0 DEF Fits
    <2> QED
      BY <2>1, <2>2
  <1> USE DEF PageInv, PageTypes, TypeOK
  <1>2. PICK rows \in SUBSET Templates :
          /\ tab' = [kind |-> q.what, server |-> q.server, listed |-> rows]
          /\ UNCHANGED <<sel, content, toggle, script>>
    BY DEF ShowTab, Found, Rows
  <1>3. tab' \in [kind : Kinds \cup {"none"}, server : Place, listed : SUBSET Templates]
    BY <1>1, <1>2
  <1>4. \A p \in Known : p.to \notin Within.tab => Fits(p)'
    BY <1>2 DEF Within, Fits, Formed
  <1> DEFINE new == IF q.what = "players" THEN {Options(q.server)} ELSE {}
  <1>5. \A p \in new : Fits(p)' /\ Served(p)
    <2> SUFFICES ASSUME q.what = "players"
                 PROVE  Fits(Options(q.server))' /\ Served(Options(q.server))
      OBVIOUS
    <2> DEFINE r == Request("options", "timer", "part", q.server)
    <2>1. Formed(r) /\ r.what = "options" /\ r.to = "part" /\ r.server = q.server
      BY RequestIsFormed
    <2>2. Options(q.server) = r /\ Options(q.server)' = r
      BY DEF Options, Request
    <2> HIDE DEF r
    <2>3. Fits(r)' /\ Served(r)
      BY <1>1, <1>2, <2>1 DEF Fits, Formed, Served, PartOf
    <2> QED
      BY <2>2, <2>3
  <1>6. Exchange({q}, Within.tab, new, {})
    BY DEF ShowTab
  <1>7. q.what = "players" => part' \in Lists
    BY DEF ShowTab, NoPlayers, Lists
  <1>8. q.what = "settings" => part' \in Forms
    BY <1>0 DEF ShowTab, Served
  <1>9. q.what = "manage" => part' = None
    BY DEF ShowTab
  <1> HIDE DEF new
  <1> QED
    BY <1>1, <1>2, <1>3, <1>4, <1>5, <1>6, <1>7, <1>8, <1>9, ArrivalKeeps DEF Place

LEMMA FormKeeps ==
    ASSUME PageInv, NEW q \in requests, UNCHANGED storeVars, ShowForm(q)
    PROVE  PageInv'
  <1>1. Fits(q) /\ q.what = "form" /\ q.to = "part"
    BY DEF PageInv, Known, ShowForm
  <1>2. tab.kind = "manage" /\ tab.server = q.server /\ q.server \in Place
    BY <1>1 DEF Fits, PartOf
  <1>3. part' = script' /\ part'.server = q.server
    BY DEF ShowForm, FormsFor
  <1>4. Exchange({q}, {}, {}, {}) /\ UNCHANGED <<sel, content, toggle, tab>>
    BY DEF ShowForm
  <1>5. \A p \in Known : Fits(p)'
    BY <1>2, <1>3, <1>4 DEF PageInv, Fits, Formed
  <1> QED
    BY <1>2, <1>3, <1>4, <1>5, ArrivalKeeps DEF PageInv, PageTypes, TypeOK, Place

LEMMA DeletedKeeps ==
    ASSUME PageInv, NEW q \in requests, UNCHANGED storeVars, ShowDeleted(q)
    PROVE  PageInv'
  <1>1. /\ tab' \in [kind : Kinds \cup {"none"}, server : Place, listed : SUBSET Templates]
        /\ tab'.kind = tab.kind /\ tab'.server = tab.server
    BY DEF ShowDeleted, PageInv, PageTypes
  <1>2. Exchange({q}, {}, {}, {}) /\ UNCHANGED <<sel, content, toggle, part, script>>
    BY DEF ShowDeleted
  <1>3. \A p \in Known : Fits(p)'
    BY <1>1, <1>2, SameFits DEF PageInv
  <1> QED
    BY <1>1, <1>2, <1>3, ArrivalKeeps DEF PageInv, PageTypes, TypeOK, Place, PartsBelongTogether

LEMMA FailKeeps ==
    ASSUME PageInv, NEW q \in requests, Fail(q)
    PROVE  PageInv'
  <1>1. Exchange({q}, {}, {}, {"failed"}) /\ UNCHANGED <<pageVars, storeVars>>
    BY DEF Fail
  <1> QED
    BY <1>1, SmallArrivalKeeps DEF pageVars, PageInv, PageTypes, TypeOK, Place

LEMMA OthersKeep == PageInv /\ OtherUser => PageInv'
  <1> SUFFICES ASSUME PageInv, OtherUser PROVE PageInv'
    OBVIOUS
  <1> USE DEF PageInv, PageTypes, TypeOK
  <1>1. UNCHANGED <<pageVars, netVars>>
    BY DEF OtherUser
  <1>2. \A q \in Known' : Fits(q)' /\ Served(q)
    BY <1>1, SameFits DEF Known, pageVars, netVars
  <1>3. /\ desired' \in [Servers -> States]
        /\ owner' \in [Templates -> Place]
        /\ settings' \in [Servers -> [Fields -> Places]]
    <2>1. PICK s \in Servers :
            \/ /\ desired' = [desired EXCEPT ![s] = Opposite(@)]
               /\ UNCHANGED <<owner, settings>>
            \/ /\ \E f \in Fields, place \in Places : settings' = [settings EXCEPT ![s][f] = place]
               /\ UNCHANGED <<desired, owner>>
            \/ /\ \E t \in Templates : owner[t] = s /\ owner' = [owner EXCEPT ![t] = None]
               /\ UNCHANGED <<desired, settings>>
      BY DEF OtherUser
    <2>2. CASE desired' = [desired EXCEPT ![s] = Opposite(@)] /\ UNCHANGED <<owner, settings>>
      BY <2>2 DEF Opposite, States, Place
    <2>3. CASE /\ \E f \in Fields, place \in Places : settings' = [settings EXCEPT ![s][f] = place]
               /\ UNCHANGED <<desired, owner>>
      BY <2>3 DEF Place
    <2>4. CASE /\ \E t \in Templates : owner' = [owner EXCEPT ![t] = None]
               /\ UNCHANGED <<desired, settings>>
      BY <2>4 DEF Place
    <2> QED
      BY <2>1, <2>2, <2>3, <2>4
  <1>4. PageTypes'
    BY <1>1, <1>3 DEF pageVars, netVars, OfBody, Place
  <1> QED
    BY <1>1, <1>2, <1>4 DEF PartsBelongTogether, pageVars, Served

LEMMA PageStart == Init => PageInv
  <1> SUFFICES ASSUME Init PROVE PageInv
    OBVIOUS
  <1>1. PageTypes
    <2>1. tab \in [kind : Kinds \cup {"none"}, server : Place, listed : SUBSET Templates]
      BY DEF Init, Place
    <2>2. desired \in [Servers -> States]
      BY DEF Init, States
    <2> QED
      BY <2>1, <2>2 DEF Init, PageTypes, TypeOK, Place
  <1>2. Fits(Poll(None)) /\ Served(Poll(None))
    BY RequestIsFormed DEF Poll, Fits, Served, Place
  <1>3. \A q \in Known : Fits(q) /\ Served(q)
    BY <1>2 DEF Init, Known
  <1> QED
    BY <1>1, <1>3 DEF Init, PageInv, PartsBelongTogether

LEMMA PageKept == PageInv /\ [Next]_vars => PageInv'
  <1> SUFFICES ASSUME PageInv, [Next]_vars PROVE PageInv'
    OBVIOUS
  <1>1. CASE User
    BY <1>1, OpensKeep, SavesKeep, EditsKeep DEF User
  <1>2. ASSUME NEW q \in requests, Serve(q) \/ Show(q) \/ Fail(q)
        PROVE  PageInv'
    BY <1>2, ServeKeeps, SmallShowsKeep, ContentKeeps, TabKeeps, FormKeeps, DeletedKeeps, FailKeeps
       DEF Show
  <1>3. CASE UNCHANGED vars
    <2>1. \A q \in Known' : Fits(q)' /\ Served(q)
      BY <1>3, SameFits DEF PageInv, Known, vars, pageVars, netVars
    <2>2. PageTypes'
      BY <1>3 DEF PageInv, PageTypes, TypeOK, vars, pageVars, netVars, storeVars, OfBody
    <2> QED
      BY <1>3, <2>1, <2>2 DEF PageInv, PartsBelongTogether, vars, pageVars, Served
  <1> QED
    BY <1>1, <1>2, <1>3, PollsKeep, OthersKeep DEF Next

-----------------------------------------------------------------------------
(* Choices. *)

LEMMA ChoiceKept == PageInv /\ ChoiceInv /\ [Next]_vars => ChoiceInv'
  <1> SUFFICES ASSUME PageInv, ChoiceInv, [Next]_vars PROVE ChoiceInv'
    OBVIOUS
  <1> USE DEF ChoiceInv
  <1>1. CASE UNCHANGED <<tab, part>>
    BY <1>1
  <1>2. ASSUME tab'.kind # "players" PROVE ChoiceInv'
    BY <1>2
  <1>3. CASE UNCHANGED pageVars
    BY <1>1, <1>3 DEF pageVars
  <1>4. CASE Cancel
    BY <1>2, <1>4 DEF Cancel
  <1>5. ASSUME NEW p \in Players, Choose(p)
        PROVE  ChoiceInv'
    BY <1>5 DEF Choose, PageInv, PageTypes, Lists
  <1>6. ASSUME NEW f \in Fields, NEW place \in Places, Edit(f, place)
        PROVE  ChoiceInv'
    BY <1>2, <1>6 DEF Edit
  <1>7. ASSUME NEW q \in requests, Show(q)
        PROVE  ChoiceInv'
    <2>1. Fits(q)
      BY DEF PageInv, Known
    <2>2. CASE ShowSelector(q) \/ ShowToggle(q) \/ Ignored(q)
      BY <1>1, <2>2 DEF ShowSelector, ShowToggle, Ignored, pageVars
    <2>3. CASE ShowContent(q)
      BY <1>2, <2>3 DEF ShowContent
    <2>4. CASE ShowTab(q)
      BY <2>4 DEF ShowTab, NoPlayers
    <2>5. CASE ShowForm(q)
      BY <1>2, <2>1, <2>5 DEF ShowForm, Fits, PartOf
    <2>6. CASE ShowOptions(q)
      <3>1. tab.kind = "players" /\ tab' = tab
        BY <2>1, <2>6 DEF ShowOptions, Fits, PartOf
      <3>2. part \in Lists
        BY <3>1 DEF PageInv, PageTypes
      <3>3. PICK online \in SUBSET Players :
              \E p \in (IF online = {} THEN {None} ELSE online) :
                part' = [part EXCEPT !.options = online, !.value = p, !.replaced = TRUE]
        BY <2>6 DEF ShowOptions
      <3>4. part'.replaced
        BY <3>2, <3>3 DEF Lists
      <3> QED
        BY <3>4
    <2>7. CASE ShowPart(q)
      BY <1>2, <2>1, <2>7 DEF ShowPart, Fits, PartOf
    <2>8. CASE ShowDeleted(q)
      BY <2>8 DEF ShowDeleted, PageInv, PageTypes
    <2>9. CASE Saved(q)
      BY <1>1, <1>2, <2>9 DEF Saved
    <2> QED
      BY <1>7, <2>2, <2>3, <2>4, <2>5, <2>6, <2>7, <2>8, <2>9 DEF Show
  <1>8. CASE User
    BY <1>3, <1>4, <1>5, <1>6, <1>8
       DEF User, SelectServer, OpenTab, OpenRunner, DeleteTemplate, OpenForm, Toggle, SaveTemplate,
           Execute, SaveSettings
  <1> QED
    BY <1>3, <1>7, <1>8 DEF Next, PollSelector, RefreshOptions, OtherUser, Serve, Fail, vars

-----------------------------------------------------------------------------
(* Settings. *)

Undisturbed == mishaps \cap {"misread", "outdated", "foreign"} = {}

\* What was not edited in a form is what is stored.
Agrees(form, s) == \A f \in Fields \ form.edited : form.values[f] = settings[s][f]

IsSave(q) == q.what = "saveSettings"

\* A form on its way to be saved is the one in the tab, but for later edits.
Follows(form, q) ==
    /\ q.form.edited \subseteq form.edited
    /\ \A f \in Fields \ form.edited : form.values[f] = q.form.values[f]

SettingsInv ==
    /\ \A p, q \in requests : IsSave(p) /\ IsSave(q) /\ p.to = "part" /\ q.to = "part" => p = q
    /\ \A q \in requests : IsSave(q) /\ q.to = "part" => Follows(part, q)
    /\ Undisturbed =>
         /\ tab.kind = "settings" => Agrees(part, tab.server)
         /\ \A q \in requests :
              /\ q.what = "settings" /\ q.served => Agrees(q.form, q.server)
              /\ IsSave(q) /\ ~q.served => Agrees(q.form, q.server)
              /\ IsSave(q) /\ q.served /\ q.to = "part" =>
                   \A f \in Fields : q.form.values[f] = settings[q.server][f]

\* Where a form comes from that is under way after an exchange.
LEMMA ExchangeOfForms ==
    ASSUME PageInv, NEW over, NEW gone, NEW new, NEW names, Exchange(over, gone, new, names),
           NEW q \in requests', q.what = "settings" \/ IsSave(q)
    PROVE  \/ q \in new
           \/ q \in requests \ over /\ q.to \notin gone
           \/ /\ q.to = "gone"
              /\ \E p \in requests \ over : /\ p.what = q.what /\ p.form = q.form
                                          /\ p.server = q.server /\ p.served = q.served
  <1>1. ASSUME NEW p \in queued
        PROVE  p.what # "settings" /\ ~IsSave(p)
    BY DEF PageInv, PageTypes, TypeOK, OfBody, Known, Served, IsSave
  <1>2. CASE q \in new
    BY <1>2
  <1>3. CASE q \in (requests \ over) \cup queued /\ q.to \notin gone
    BY <1>1, <1>3
  <1>4. ASSUME NEW p \in (requests \ over) \cup queued, p.to \in gone, q = [p EXCEPT !.to = "gone"]
        PROVE  /\ q.to = "gone"
               /\ \E r \in requests \ over : /\ r.what = q.what /\ r.form = q.form
                                           /\ r.server = q.server /\ r.served = q.served
    <2>1. Formed(p)
      BY DEF PageInv, Known, Fits
    <2>2. /\ q.to = "gone" /\ p.what = q.what /\ p.form = q.form
          /\ p.server = q.server /\ p.served = q.served
      BY <1>4, <2>1, GoneIsFormed
    <2>3. p \notin queued
      BY <1>1, <2>2 DEF IsSave
    <2> QED
      BY <2>2, <2>3
  <1> QED
    BY <1>2, <1>3, <1>4, ExchangeKeeps

\* An exchange that posts no form: what is left of the forms under way is in order when the
\* one in the tab is.
LEMMA ExchangeOfSettings ==
    ASSUME PageInv, SettingsInv,
           NEW over, NEW gone, NEW new, NEW names, Exchange(over, gone, new, names),
           settings' = settings,
           \A q \in new : ~IsSave(q) /\ (q.what = "settings" => ~q.served),
           \A q \in requests \ over :
             IsSave(q) /\ q.to = "part" /\ "part" \notin gone => Follows(part', q),
           Undisturbed /\ tab'.kind = "settings" => Agrees(part', tab'.server)
    PROVE  SettingsInv'
  <1> USE DEF SettingsInv
  <1>1. Undisturbed' => Undisturbed
    BY DEF Exchange, Undisturbed
  <1>2. ASSUME NEW q \in requests', IsSave(q), q.to = "part"
        PROVE  q \in requests \ over /\ "part" \notin gone
    BY <1>2, ExchangeOfForms
  <1>3. \A p, q \in requests' : IsSave(p) /\ IsSave(q) /\ p.to = "part" /\ q.to = "part" => p = q
    BY <1>2
  <1>4. \A q \in requests' : IsSave(q) /\ q.to = "part" => Follows(part', q)
    BY <1>2
  <1>5. ASSUME Undisturbed', NEW q \in requests', q.what = "settings" \/ IsSave(q)
        PROVE  /\ q.what = "settings" /\ q.served => Agrees(q.form, q.server)
               /\ IsSave(q) /\ ~q.served => Agrees(q.form, q.server)
               /\ IsSave(q) /\ q.served /\ q.to = "part" =>
                    \A f \in Fields : q.form.values[f] = settings[q.server][f]
    <2>1. CASE q \in new
      BY <1>5, <2>1
    <2>2. CASE q \in requests \ over
      BY <1>1, <1>5, <2>2
    <2>3. ASSUME q.to = "gone", NEW p \in requests \ over,
                 p.what = q.what, p.form = q.form, p.server = q.server, p.served = q.served
          PROVE  /\ q.what = "settings" /\ q.served => Agrees(q.form, q.server)
                 /\ IsSave(q) /\ ~q.served => Agrees(q.form, q.server)
                 /\ q.to # "part"
      BY <1>1, <1>5, <2>3 DEF IsSave
    <2> QED
      BY <1>5, <2>1, <2>2, <2>3, ExchangeOfForms
  <1> QED
    BY <1>1, <1>3, <1>4, <1>5 DEF Agrees, Follows, IsSave

\* The same, when neither the tab nor what is open in it changes.
LEMMA SmallExchangeOfSettings ==
    ASSUME PageInv, SettingsInv, NEW over, NEW new, NEW names, Exchange(over, {}, new, names),
           UNCHANGED <<tab, part, settings>>,
           \A q \in new : ~IsSave(q) /\ (q.what = "settings" => ~q.served)
    PROVE  SettingsInv'
  BY ExchangeOfSettings DEF SettingsInv, Follows

LEMMA OpensKeepSettings ==
    ASSUME PageInv, SettingsInv
    PROVE  /\ \A s \in Servers : SelectServer(s) => SettingsInv'
           /\ \A kind \in Kinds : OpenTab(kind) => SettingsInv'
           /\ Toggle \/ SaveTemplate \/ PollSelector \/ RefreshOptions => SettingsInv'
           /\ \A t \in Templates : OpenRunner(t) \/ DeleteTemplate(t) => SettingsInv'
           /\ \A t \in Templates \cup {None} : OpenForm(t) => SettingsInv'
  <1>0. ASSUME NEW new, NEW names, Exchange({}, {}, new, names), UNCHANGED <<pageVars, storeVars>>,
               \A q \in new : ~IsSave(q) /\ (q.what = "settings" => ~q.served)
        PROVE  SettingsInv'
    BY <1>0, SmallExchangeOfSettings DEF pageVars, storeVars
  <1>1. ASSUME NEW new, Send(new), UNCHANGED <<pageVars, storeVars>>,
               \A q \in new : ~IsSave(q) /\ (q.what = "settings" => ~q.served)
        PROVE  SettingsInv'
    BY <1>0, <1>1 DEF Send
  <1>2. ASSUME NEW s \in Servers, SelectServer(s) PROVE SettingsInv'
    BY <1>0, <1>2 DEF SelectServer, Request, IsSave
  <1>3. ASSUME NEW kind \in Kinds, OpenTab(kind) PROVE SettingsInv'
    <2> DEFINE q == Request(kind, "button", "tab", content)
    <2>1. q.what = kind /\ (kind = "settings" => ~q.served)
      BY DEF Request, Stateful
    <2>2. Send({q}) /\ UNCHANGED <<pageVars, storeVars>>
      BY <1>3 DEF OpenTab
    <2> HIDE DEF q
    <2> QED
      BY <1>1, <2>1, <2>2 DEF IsSave, Kinds
  <1>4. ASSUME Toggle \/ SaveTemplate \/ PollSelector \/ RefreshOptions PROVE SettingsInv'
    <2>1. CASE Toggle
      BY <1>1, <2>1 DEF Toggle, Request, IsSave
    <2>2. CASE SaveTemplate
      BY <1>1, <2>2 DEF SaveTemplate, Request, IsSave
    <2>3. CASE PollSelector
      BY <1>0, <2>3 DEF PollSelector, Poll, Request, IsSave
    <2>4. CASE RefreshOptions
      BY <1>1, <2>4 DEF RefreshOptions, Options, Request, IsSave
    <2> QED
      BY <1>4, <2>1, <2>2, <2>3, <2>4
  <1>5. ASSUME NEW t \in Templates, OpenRunner(t) \/ DeleteTemplate(t) PROVE SettingsInv'
    BY <1>1, <1>5 DEF OpenRunner, DeleteTemplate, Request, IsSave
  <1>6. ASSUME NEW t \in Templates \cup {None}, OpenForm(t) PROVE SettingsInv'
    BY <1>1, <1>6 DEF OpenForm, Request, IsSave
  <1> QED
    BY <1>2, <1>3, <1>4, <1>5, <1>6

\* A save posts the form that is in the tab, and no other from there is under way.
LEMMA SaveKeepsSettings ==
    ASSUME PageInv, SettingsInv, SaveSettings
    PROVE  SettingsInv'
  <1> USE DEF SettingsInv
  <1> DEFINE r == Request("saveSettings", "button", "part", tab.server)
             q == [r EXCEPT !.form = part]
  <1>1. /\ Formed(r) /\ r.what = "saveSettings" /\ r.to = "part" /\ r.server = tab.server
    BY RequestIsFormed
  <1>2. r.served = FALSE
    BY DEF Request, Stateful
  <1>3. Exchange({}, {}, {q}, {})
    BY DEF SaveSettings, Send
  <1> HIDE DEF r
  <1>4. /\ IsSave(q) /\ q.to = "part" /\ q.server = tab.server /\ q.served = FALSE /\ q.form = part
    BY <1>1, <1>2 DEF Formed, IsSave
  <1> HIDE DEF q
  <1>5. tab.kind = "settings" /\ UNCHANGED <<tab, part, settings>>
    BY DEF SaveSettings, pageVars, storeVars
  <1>6. \A p \in requests : IsSave(p) => p.to # "part"
    BY DEF SaveSettings, IsSave
  <1>7. Undisturbed' => Undisturbed
    BY <1>3 DEF Exchange, Undisturbed
  <1>8. ASSUME NEW p \in requests', p.what = "settings" \/ IsSave(p)
        PROVE  p = q \/ p \in requests
    <2>1. Without({}, requests \ {}) = requests /\ Without({}, queued) = queued
      BY DEF Without
    <2>2. p \in requests \/ p \in queued \/ p = q
      BY <1>3, <2>1, <1>8, ExchangeKeeps
    <2>3. p \notin queued
      BY <1>8 DEF PageInv, PageTypes, TypeOK, OfBody, Known, Served, IsSave
    <2> QED
      BY <2>2, <2>3
  <1>9. \A p \in requests' : IsSave(p) /\ p.to = "part" => p = q
    BY <1>6, <1>8
  <1>10. Follows(part, q)
    BY <1>4 DEF Follows
  <1>11. ASSUME Undisturbed', NEW p \in requests', p.what = "settings" \/ IsSave(p)
         PROVE  /\ p.what = "settings" /\ p.served => Agrees(p.form, p.server)
                /\ IsSave(p) /\ ~p.served => Agrees(p.form, p.server)
                /\ IsSave(p) /\ p.served /\ p.to = "part" =>
                     \A f \in Fields : p.form.values[f] = settings[p.server][f]
    BY <1>4, <1>5, <1>7, <1>8, <1>11 DEF IsSave
  <1> QED
    BY <1>5, <1>7, <1>9, <1>10, <1>11 DEF Agrees, Follows, IsSave

LEMMA EditsKeepSettings ==
    ASSUME PageInv, SettingsInv
    PROVE  /\ Cancel => SettingsInv'
           /\ \A p \in Players : Choose(p) => SettingsInv'
           /\ Execute(Posted) => SettingsInv'
           /\ \A f \in Fields, place \in Places : Edit(f, place) => SettingsInv'
  <1> USE DEF SettingsInv
  <1>1. ASSUME UNCHANGED <<requests, settings, tab, mishaps>>,
               \A q \in requests : IsSave(q) /\ q.to = "part" => Follows(part', q),
               tab.kind = "settings" /\ Agrees(part, tab.server) => Agrees(part', tab.server)
        PROVE  SettingsInv'
    BY <1>1 DEF Agrees, Follows, Undisturbed, IsSave
  <1>2. ASSUME tab.kind # "settings"
        PROVE  \A q \in requests : ~(IsSave(q) /\ q.to = "part")
    BY <1>2 DEF PageInv, Known, Fits, PartOf, IsSave
  <1>3. Cancel => SettingsInv'
    BY <1>1, <1>2 DEF Cancel, netVars, storeVars
  <1>4. \A p \in Players : Choose(p) => SettingsInv'
    BY <1>1, <1>2 DEF Choose, netVars, storeVars
  <1>5. Execute(Posted) => SettingsInv'
    BY <1>1 DEF Execute, pageVars, netVars, storeVars
  <1>6. ASSUME NEW g \in Fields, NEW place \in Places, Edit(g, place)
        PROVE  SettingsInv'
    <2>1. part \in Forms
      BY <1>6 DEF Edit, PageInv, PageTypes
    <2>2. /\ part'.edited = part.edited \cup {g}
          /\ \A f \in Fields \ {g} : part'.values[f] = part.values[f]
      BY <1>6, <2>1 DEF Edit, Forms
    <2>3. Agrees(part, tab.server) => Agrees(part', tab.server)
      BY <2>2 DEF Agrees
    <2>4. \A q \in requests : Follows(part, q) => Follows(part', q)
      BY <2>2 DEF Follows
    <2> QED
      BY <1>1, <1>6, <2>3, <2>4 DEF Edit, netVars, storeVars
  <1> QED
    BY <1>3, <1>4, <1>5, <1>6

LEMMA ShowsKeepSettings ==
    ASSUME PageInv, SettingsInv, NEW q \in requests, Show(q)
    PROVE  SettingsInv'
  <1>1. Fits(q) /\ Served(q) /\ q.served /\ settings' = settings
    BY DEF PageInv, Known, Show, storeVars
  <1>2. ASSUME NEW gone, NEW new, NEW names, Exchange({q}, gone, new, names),
               \A p \in new : ~IsSave(p) /\ (p.what = "settings" => ~p.served),
               "part" \in gone \/ tab.kind # "settings",
               Undisturbed /\ tab'.kind = "settings" => Agrees(part', tab'.server)
        PROVE  SettingsInv'
    <2>1. \A p \in requests : IsSave(p) /\ p.to = "part" => tab.kind = "settings"
      BY DEF PageInv, Known, Fits, PartOf, IsSave
    <2> QED
      BY <1>1, <1>2, <2>1, ExchangeOfSettings
  <1>3. CASE ShowSelector(q)
    <2>1. \A p \in (IF sel = None THEN {Request("server", "body", "content", sel')} ELSE {}) :
            ~IsSave(p) /\ p.what # "settings"
      BY DEF Request, IsSave
    <2> QED
      BY <1>1, <1>3, <2>1, SmallExchangeOfSettings DEF ShowSelector
  <1>4. CASE ShowToggle(q) \/ Ignored(q)
    BY <1>1, <1>4, SmallExchangeOfSettings DEF ShowToggle, Ignored, pageVars
  <1>5. CASE ShowContent(q)
    <2> DEFINE names == Overtaking(q)
                 \cup IF \E p \in requests : p.what = "setPower" THEN {"reloaded"} ELSE {}
               new == {Request("power", "load", "toggle", q.server),
                       Request("commands", "load", "tab", q.server)}
    <2>1. \A p \in new : ~IsSave(p) /\ p.what # "settings"
      BY DEF Request, IsSave
    <2>2. Exchange({q}, Within.content, new, names) /\ tab'.kind = "none"
      BY <1>5 DEF ShowContent
    <2> HIDE DEF new, names
    <2> QED
      BY <1>2, <2>1, <2>2 DEF Within
  <1>6. CASE ShowTab(q)
    <2> DEFINE new == IF q.what = "players" THEN {Options(q.server)} ELSE {}
    <2>1. \A p \in new : ~IsSave(p) /\ p.what # "settings"
      BY DEF Options, Request, IsSave
    <2>2. Exchange({q}, Within.tab, new, {})
      BY <1>6 DEF ShowTab
    <2>3. tab'.kind = q.what /\ tab'.server = q.server /\ (q.what = "settings" => part' = q.form)
      BY <1>6 DEF ShowTab
    <2>4. Undisturbed /\ tab'.kind = "settings" => Agrees(part', tab'.server)
      BY <1>1, <2>3 DEF SettingsInv
    <2> HIDE DEF new
    <2> QED
      BY <1>2, <2>1, <2>2, <2>4 DEF Within
  <1>7. CASE ShowForm(q)
    BY <1>1, <1>2, <1>7 DEF ShowForm, Fits, PartOf
  <1>8. CASE ShowOptions(q)
    BY <1>1, <1>2, <1>8 DEF ShowOptions, Fits, PartOf
  <1>9. CASE ShowPart(q)
    <2>1. Exchange({q}, {}, {}, {}) /\ UNCHANGED <<content, tab, script>> /\ tab.kind = PartOf(q)
          /\ tab.server = q.server /\ q.to = "part"
      BY <1>1, <1>9 DEF ShowPart, Fits
    <2>2. CASE q.what = "runner"
      BY <1>2, <2>1, <2>2 DEF PartOf
    <2>3. CASE q.what = "saveSettings"
      <3>1. part' = FormOf(q.form.values)
        BY <1>9, <2>3 DEF ShowPart
      <3>2. \A p \in requests \ {q} : ~(IsSave(p) /\ p.to = "part")
        BY <2>1, <2>3 DEF SettingsInv, IsSave
      <3>3. Undisturbed => Agrees(part', tab.server)
        BY <1>1, <2>1, <2>3, <3>1 DEF SettingsInv, IsSave, Agrees, FormOf
      <3> QED
        BY <1>1, <2>1, <3>2, <3>3, ExchangeOfSettings
    <2> QED
      BY <1>9, <2>2, <2>3 DEF ShowPart
  <1>10. CASE ShowDeleted(q)
    <2>1. tab'.kind = tab.kind /\ tab'.server = tab.server
      BY <1>10 DEF ShowDeleted, PageInv, PageTypes
    <2> QED
      BY <1>1, <1>10, <2>1, ExchangeOfSettings DEF ShowDeleted, SettingsInv
  <1>11. CASE Saved(q)
    <2> DEFINE r == Request("manage", "body", "tab", script.server)
    <2>1. ~IsSave(r) /\ r.what # "settings"
      BY DEF Request, IsSave
    <2> HIDE DEF r
    <2>2. CASE tab.kind = "manage"
      <3>1. Exchange({q}, {}, {r}, {}) /\ tab' = tab
        BY <1>11, <2>2 DEF Saved, r
      <3> QED
        BY <1>2, <2>1, <2>2, <3>1
    <2>3. CASE tab.kind # "manage"
      BY <1>1, <1>11, <2>3, SmallExchangeOfSettings DEF Saved
    <2> QED
      BY <2>2, <2>3
  <1> QED
    BY <1>3, <1>4, <1>5, <1>6, <1>7, <1>8, <1>9, <1>10, <1>11 DEF Show

LEMMA ServesKeepSettings ==
    ASSUME PageInv, SettingsInv, NEW q \in requests, Serve(q)
    PROVE  SettingsInv'
  <1> USE DEF SettingsInv
  <1>1. Fits(q) /\ Served(q) /\ Formed(q) /\ q.served = FALSE /\ UNCHANGED <<tab, part>>
    <2>1. q.served = FALSE
      BY ServedIsFormed DEF PageInv, Known, Fits, Serve
    <2> QED
      BY <2>1 DEF PageInv, Known, Fits, Serve, pageVars
  <1>2. ASSUME NEW b, requests' = (requests \ {q}) \cup {b}, b.what = q.what,
               q.what # "settings", ~IsSave(q), UNCHANGED settings,
               mishaps' = mishaps \/ mishaps' = mishaps \cup {"misread"}
        PROVE  SettingsInv'
    <2>1. \A p \in requests' : p.what = "settings" \/ IsSave(p) => p \in requests
      BY <1>2 DEF IsSave
    <2> QED
      BY <1>1, <1>2, <2>1 DEF Agrees, Follows, Undisturbed, IsSave
  <1>3. CASE ServePower(q)
    <2>0. PICK state : AnsweredWith(q, [q EXCEPT !.state = state])
      BY <1>3 DEF ServePower
    <2> DEFINE b == [[q EXCEPT !.state = state] EXCEPT !.served = TRUE]
    <2>1. b.what = q.what
      BY <1>1 DEF Formed
    <2>2. requests' = (requests \ {q}) \cup {b}
      BY <2>0 DEF AnsweredWith
    <2> HIDE DEF b
    <2>3. UNCHANGED settings /\ q.what # "settings" /\ ~IsSave(q)
      BY <1>3 DEF ServePower, storeVars, IsSave
    <2>4. mishaps' = mishaps \/ mishaps' = mishaps \cup {"misread"}
      BY <1>3 DEF ServePower
    <2> QED
      BY <1>2, <2>1, <2>2, <2>3, <2>4
  <1>4. CASE SetPower(q) \/ CreateOrUpdate(q) \/ Delete(q)
    <2> DEFINE b == [q EXCEPT !.served = TRUE]
    <2>1. b.what = q.what
      BY <1>1, ServedIsFormed
    <2>2. requests' = (requests \ {q}) \cup {b} /\ UNCHANGED <<settings, mishaps>>
      BY <1>4 DEF SetPower, CreateOrUpdate, Delete, Answered
    <2> HIDE DEF b
    <2> QED
      BY <1>2, <1>4, <2>1, <2>2 DEF SetPower, CreateOrUpdate, Delete, IsSave
  <1>5. CASE ServeSettings(q)
    <2>1. q.server \in Servers /\ q.what = "settings" /\ settings' = settings
      BY <1>1, <1>5 DEF ServeSettings, Served, storeVars
    <2>2. PICK values :
            /\ AnsweredWith(q, [q EXCEPT !.form = FormOf(values)])
            /\ \/ values = settings[q.server] /\ mishaps' = mishaps
               \/ mishaps' = mishaps \cup {"misread"}
      BY <1>5 DEF ServeSettings
    <2> DEFINE b == [[q EXCEPT !.form = FormOf(values)] EXCEPT !.served = TRUE]
    <2>3. /\ b.what = "settings" /\ b.server = q.server /\ b.form = FormOf(values)
      BY <1>1, <2>1 DEF Formed
    <2>4. requests' = (requests \ {q}) \cup {b}
      BY <2>2 DEF AnsweredWith
    <2> HIDE DEF b
    <2>5. \A p \in requests' : p = b \/ p \in requests
      BY <2>4
    <2>6. Undisturbed' => values = settings[q.server] /\ Undisturbed
      BY <2>2 DEF Undisturbed
    <2>7. Undisturbed' => Agrees(b.form, b.server)
      BY <2>3, <2>6 DEF Agrees, FormOf
    <2> QED
      BY <1>1, <2>1, <2>3, <2>5, <2>6, <2>7 DEF Agrees, Follows, IsSave
  <1>6. CASE SaveServerSettings(q)
    <2>1. /\ q.server \in Servers /\ IsSave(q) /\ q.form \in Forms /\ q.to \in {"tab", "part", "gone"}
          /\ settings \in [Servers -> [Fields -> Places]]
      BY <1>1, <1>6 DEF SaveServerSettings, Served, IsSave, PageInv, PageTypes, TypeOK
    <2>2. /\ settings'[q.server] = q.form.values
          /\ \A s \in Servers \ {q.server} : settings'[s] = settings[s]
      BY <1>6, <2>1 DEF SaveServerSettings
    <2> DEFINE b == [q EXCEPT !.served = TRUE]
    <2>3. /\ b.what = q.what /\ b.server = q.server /\ b.form = q.form /\ b.to = q.to
          /\ b.served = TRUE
      BY <1>1, ServedIsFormed
    <2>4. requests' = (requests \ {q}) \cup {b}
      BY <1>6 DEF SaveServerSettings, Answered
    <2> HIDE DEF b
    <2>5. \A p \in requests' : p = b \/ (p \in requests /\ p # q)
      BY <2>4
    <2>6. Undisturbed' => Undisturbed /\ ~OtherForm(q)
      BY <1>6 DEF SaveServerSettings, Undisturbed
    <2>7. \A p, r \in requests' : IsSave(p) /\ IsSave(r) /\ p.to = "part" /\ r.to = "part" => p = r
      BY <2>1, <2>3, <2>5 DEF IsSave
    <2>8. \A p \in requests' : IsSave(p) /\ p.to = "part" => Follows(part, p)
      BY <2>1, <2>3, <2>5 DEF IsSave, Follows
    <2>9. q.to # "tab"
      BY <1>1, <2>1 DEF Fits, IsSave, Kinds
    <2>10. ASSUME Undisturbed', tab.kind = "settings"
           PROVE  \A f \in Fields \ part.edited : part.values[f] = settings'[tab.server][f]
      <3>1. CASE tab.server # q.server
        <4>1. tab.server \in Servers
          BY <2>10 DEF PageInv, PageTypes
        <4> QED
          BY <2>2, <2>6, <2>10, <3>1, <4>1 DEF Agrees
      <3>2. CASE tab.server = q.server
        <4>1. q.to = "part"
          BY <2>1, <2>6, <2>9, <2>10, <3>2 DEF OtherForm
        <4> QED
          BY <2>1, <2>2, <3>2, <4>1 DEF Follows
      <3> QED
        BY <3>1, <3>2
    <2>11. ASSUME Undisturbed', NEW p \in requests', p.what = "settings" \/ IsSave(p)
           PROVE  /\ (p.what = "settings" /\ p.served) \/ (IsSave(p) /\ ~p.served) =>
                       \A f \in Fields \ p.form.edited : p.form.values[f] = settings'[p.server][f]
                  /\ IsSave(p) /\ p.served /\ p.to = "part" =>
                       \A f \in Fields : p.form.values[f] = settings'[p.server][f]
      <3>1. CASE p = b
        BY <2>1, <2>2, <2>3, <3>1 DEF IsSave
      <3>2. CASE p \in requests /\ p # q
        <4>1. p.server \in Servers
          BY <2>11, <3>2 DEF PageInv, Known, Served, IsSave
        <4>2. CASE p.server # q.server
          BY <2>2, <2>6, <2>11, <3>2, <4>1, <4>2 DEF Agrees
        <4>3. CASE p.server = q.server
          <5>1. p.what = "settings" => ~p.served
            BY <2>6, <2>11, <3>2, <4>3 DEF OtherForm
          <5>2. IsSave(p) => p.served
            BY <2>6, <2>11, <3>2, <4>3 DEF OtherForm, IsSave
          <5>3. ~(IsSave(p) /\ p.to = "part")
            <6>1. CASE q.to = "part"
              BY <2>1, <3>2, <6>1
            <6>2. CASE q.to = "gone"
              BY <2>6, <2>11, <3>2, <4>3, <6>2 DEF OtherForm, PageInv, Known, Fits, PartOf, IsSave
            <6> QED
              BY <2>1, <2>9, <6>1, <6>2
          <5> QED
            BY <2>11, <5>1, <5>2, <5>3 DEF IsSave
        <4> QED
          BY <4>2, <4>3
      <3> QED
        BY <2>5, <3>1, <3>2
    <2>12. Undisturbed' /\ tab'.kind = "settings" => Agrees(part, tab.server)'
      BY <1>1, <2>10 DEF Agrees
    <2>13. ASSUME Undisturbed', NEW p \in requests'
           PROVE  /\ p.what = "settings" /\ p.served => Agrees(p.form, p.server)'
                  /\ IsSave(p) /\ ~p.served => Agrees(p.form, p.server)'
                  /\ IsSave(p) /\ p.served /\ p.to = "part" =>
                       \A f \in Fields : p.form.values[f] = settings'[p.server][f]
      <3>1. CASE p.what = "settings" \/ IsSave(p)
        <4>1. p.what = "settings" /\ p.served => Agrees(p.form, p.server)'
          BY <2>11, <2>13, <3>1 DEF Agrees
        <4>2. IsSave(p) /\ ~p.served => Agrees(p.form, p.server)'
          BY <2>11, <2>13, <3>1 DEF Agrees
        <4>3. IsSave(p) /\ p.served /\ p.to = "part" =>
                \A f \in Fields : p.form.values[f] = settings'[p.server][f]
          BY <2>11, <2>13, <3>1
        <4> QED
          BY <4>1, <4>2, <4>3
      <3> QED
        BY <3>1
    <2>14. \A p \in requests' : IsSave(p) /\ p.to = "part" => Follows(part, p)'
      BY <1>1, <2>8 DEF Follows
    <2> QED
      BY <2>7, <2>12, <2>13, <2>14 DEF IsSave
  <1> QED
    BY <1>3, <1>4, <1>5, <1>6 DEF Serve

LEMMA OthersKeepSettings ==
    ASSUME PageInv, SettingsInv, OtherUser
    PROVE  SettingsInv'
  <1>1. UNCHANGED <<tab, part, requests>> /\ ~Undisturbed'
    BY DEF OtherUser, pageVars, netVars, Undisturbed
  <1> QED
    BY <1>1 DEF SettingsInv, Follows, IsSave

LEMMA SettingsKept == PageInv /\ SettingsInv /\ [Next]_vars => SettingsInv'
  <1> SUFFICES ASSUME PageInv, SettingsInv, [Next]_vars PROVE SettingsInv'
    OBVIOUS
  <1>1. CASE User
    BY <1>1, OpensKeepSettings, SaveKeepsSettings, EditsKeepSettings DEF User
  <1>2. ASSUME NEW q \in requests, Fail(q)
        PROVE  SettingsInv'
    BY <1>2, SmallExchangeOfSettings DEF Fail, pageVars, storeVars
  <1>3. CASE UNCHANGED vars
    BY <1>3 DEF SettingsInv, Agrees, Follows, Undisturbed, IsSave, vars, pageVars, netVars,
                storeVars, historyVars
  <1> QED
    BY <1>1, <1>2, <1>3, OpensKeepSettings, ShowsKeepSettings, ServesKeepSettings,
       OthersKeepSettings DEF Next

LEMMA SettingsStart == Init => SettingsInv
  <1> SUFFICES ASSUME Init PROVE SettingsInv
    OBVIOUS
  <1>1. \A q \in requests : q.what = "selector"
    BY DEF Init, Poll, Request
  <1> QED
    BY <1>1 DEF Init, SettingsInv, IsSave

-----------------------------------------------------------------------------
(* The power toggle. *)

Calm == mishaps \cap {"reloaded", "failed", "foreign", "misread"} = {}

\* The toggle is about to learn its state, or to change it, or shows it.
ToggleInv ==
    Calm =>
      /\ \A q \in requests : q.what = "setPower" => q.to = "toggle"
      /\ \A p, q \in requests : p.to = "toggle" /\ q.to = "toggle" => p = q
      /\ \A q \in requests : q.to = "toggle" /\ q.served => q.state = desired[content]
      /\ \A q \in requests : q.to = "toggle" /\ q.what = "power" => toggle = "none"
      /\ toggle # "none" /\ (\A q \in requests : q.to # "toggle") => toggle = desired[content]

\* An exchange that has nothing to do with the toggle.
LEMMA ExchangeOfToggle ==
    ASSUME PageInv, ToggleInv,
           NEW over, NEW gone, NEW new, NEW names, Exchange(over, gone, new, names),
           UNCHANGED <<content, toggle, desired>>,
           "toggle" \notin gone,
           \A q \in new : q.what # "setPower" /\ q.to # "toggle",
           \A q \in over : q.to # "toggle"
    PROVE  ToggleInv'
  <1> SUFFICES ASSUME Calm' PROVE ToggleInv'
    BY DEF ToggleInv
  <1>1. Calm
    BY DEF Exchange, Calm
  <1>2. \A q \in queued : q.what # "setPower" /\ q.to # "toggle"
    BY <1>1 DEF PageInv, PageTypes, TypeOK, OfBody, Known, Served, ToggleInv
  <1>3. ASSUME NEW q \in requests', q.to = "toggle" \/ q.what = "setPower"
        PROVE  q \in requests
    <2>1. CASE q \in new
      BY <1>3, <2>1
    <2>2. CASE q \in (requests \ over) \cup queued
      BY <1>2, <1>3, <2>2
    <2>3. ASSUME NEW p \in (requests \ over) \cup queued, p.to \in gone,
                 q = [p EXCEPT !.to = "gone"]
          PROVE  q \in requests
      <3>1. Formed(p)
        BY DEF PageInv, Known, Fits
      <3>2. q.to = "gone" /\ p.what = q.what
        BY <2>3, <3>1, GoneIsFormed
      <3>3. p.what = "setPower"
        BY <1>3, <3>2
      <3>4. p \in requests /\ p.to = "toggle"
        BY <1>1, <1>2, <3>3 DEF ToggleInv
      <3> QED
        BY <2>3, <3>4
    <2> QED
      BY <2>1, <2>2, <2>3, ExchangeKeeps
  <1>4. ASSUME NEW q \in requests, q.to = "toggle"
        PROVE  q \in requests'
    <2>1. q \in Without(gone, requests \ over)
      BY <1>4 DEF Without
    <2> QED
      BY <2>1 DEF Exchange
  <1> QED
    BY <1>1, <1>3, <1>4 DEF ToggleInv

LEMMA SmallStepsKeepToggle ==
    ASSUME PageInv, ToggleInv, UNCHANGED <<content, toggle, requests, desired>>,
           Calm' => Calm
    PROVE  ToggleInv'
  BY DEF ToggleInv

LEMMA UserKeepsToggle == PageInv /\ ToggleInv /\ User => ToggleInv'
  <1> SUFFICES ASSUME PageInv, ToggleInv, User PROVE ToggleInv'
    OBVIOUS
  <1>0. ASSUME NEW new, NEW names, Exchange({}, {}, new, names), UNCHANGED <<pageVars, storeVars>>,
               \A q \in new : q.what # "setPower" /\ q.to # "toggle"
        PROVE  ToggleInv'
    BY <1>0, ExchangeOfToggle DEF pageVars, storeVars
  <1>1. ASSUME NEW new, Send(new), UNCHANGED <<pageVars, storeVars>>,
               \A q \in new : q.what # "setPower" /\ q.to # "toggle"
        PROVE  ToggleInv'
    BY <1>0, <1>1 DEF Send
  <1>2. ASSUME NEW s \in Servers, SelectServer(s) PROVE ToggleInv'
    BY <1>0, <1>2 DEF SelectServer, Request
  <1>3. CASE \E kind \in Kinds : OpenTab(kind)
    BY <1>1, <1>3 DEF OpenTab, Request, Kinds
  <1>4. CASE \E t \in Templates : OpenRunner(t) \/ DeleteTemplate(t)
    BY <1>1, <1>4 DEF OpenRunner, DeleteTemplate, Request
  <1>5. CASE \E t \in Templates \cup {None} : OpenForm(t)
    BY <1>1, <1>5 DEF OpenForm, Request
  <1>6. CASE SaveTemplate
    BY <1>1, <1>6 DEF SaveTemplate, Request
  <1>7. CASE SaveSettings
    BY <1>1, <1>7 DEF SaveSettings, Request
  <1>8. CASE \/ Cancel \/ Execute(Posted) \/ \E p \in Players : Choose(p)
             \/ \E f \in Fields, place \in Places : Edit(f, place)
    BY <1>8, SmallStepsKeepToggle
       DEF Cancel, Execute, Choose, Edit, pageVars, netVars, storeVars, Calm
  <1>9. CASE Toggle
    <2> SUFFICES ASSUME Calm' PROVE ToggleInv'
      BY DEF ToggleInv
    <2> DEFINE r == Request("setPower", "button", "toggle", content)
               q == [r EXCEPT !.state = Opposite(toggle)]
    <2>1. /\ Formed(r) /\ r.what = "setPower" /\ r.to = "toggle"
      BY RequestIsFormed
    <2>2. r.served = FALSE
      BY DEF Request, Stateful
    <2>3. Exchange({}, {}, {q}, {}) /\ UNCHANGED <<content, toggle, desired>>
      BY <1>9 DEF Toggle, Send, pageVars, storeVars
    <2> HIDE DEF r
    <2>4. /\ q.what = "setPower" /\ q.to = "toggle" /\ q.served = FALSE
      BY <2>1, <2>2 DEF Formed
    <2> HIDE DEF q
    <2>5. Calm
      BY <2>3 DEF Exchange, Calm
    <2>6. \A p \in requests : p.to # "toggle"
      BY <1>9, <2>5 DEF Toggle, ToggleInv, PageInv, Known, Served
    <2>7. \A p \in queued : p.what # "setPower" /\ p.to # "toggle"
      BY DEF PageInv, PageTypes, TypeOK, OfBody, Known, Served
    <2>8. ASSUME NEW p \in requests', p.to = "toggle" \/ p.what = "setPower"
          PROVE  p = q
      BY <2>3, <2>5, <2>6, <2>7, <2>8, ExchangeKeeps DEF ToggleInv
    <2>9. q \in requests'
      <3>1. q.by # "body"
        BY DEF q, r, Request
      <3> QED
        BY <2>3, <3>1 DEF Exchange, OfBody
    <2> QED
      BY <2>3, <2>4, <2>8, <2>9 DEF ToggleInv
  <1> QED
    BY <1>2, <1>3, <1>4, <1>5, <1>6, <1>7, <1>8, <1>9 DEF User

LEMMA ServeKeepsToggle ==
    ASSUME PageInv, ToggleInv, NEW q \in requests, Serve(q)
    PROVE  ToggleInv'
  <1> SUFFICES ASSUME Calm' PROVE ToggleInv'
    BY DEF ToggleInv
  <1> USE DEF ToggleInv
  <1>1. Fits(q) /\ Served(q) /\ Formed(q) /\ UNCHANGED <<content, toggle>>
    BY DEF PageInv, Known, Fits, Serve, pageVars
  <1>2. Calm
    BY DEF Serve, ServePower, SetPower, ServeSettings, SaveServerSettings, CreateOrUpdate, Delete,
           Calm
  <1>3. ASSUME NEW b, requests' = (requests \ {q}) \cup {b}, b.what = q.what, b.to = q.to,
               q.to = "toggle" => b.state = desired'[content],
               desired' = desired \/ \A p \in requests : p.to = "toggle" => p = q,
               desired' = desired \/ q.to = "toggle"
        PROVE  ToggleInv'
    <2>1. \A p \in requests' : p = b \/ (p \in requests /\ p # q)
      BY <1>3
    <2>2. b \in requests'
      BY <1>3
    <2>3. \A p \in requests' : p.what = "setPower" => p.to = "toggle"
      BY <1>2, <1>3, <2>1
    <2>4. \A p, r \in requests' : p.to = "toggle" /\ r.to = "toggle" => p = r
      BY <1>2, <1>3, <2>1
    <2>5. \A p \in requests' : p.to = "toggle" /\ p.served => p.state = desired'[content]
      BY <1>2, <1>3, <2>1
    <2>6. \A p \in requests' : p.to = "toggle" /\ p.what = "power" => toggle = "none"
      BY <1>2, <1>3, <2>1
    <2>7. CASE q.to = "toggle"
      BY <1>1, <1>3, <2>2, <2>3, <2>4, <2>5, <2>6, <2>7
    <2>8. CASE q.to # "toggle"
      <3>1. (\A p \in requests' : p.to # "toggle") => \A p \in requests : p.to # "toggle"
        BY <1>3, <2>8
      <3> QED
        BY <1>1, <1>2, <1>3, <2>3, <2>4, <2>5, <2>6, <2>8, <3>1
    <2> QED
      BY <2>7, <2>8
  <1>4. CASE ServePower(q)
    <2> DEFINE b == [[q EXCEPT !.state = desired[q.server]] EXCEPT !.served = TRUE]
    <2>1. b.what = q.what /\ b.to = q.to /\ b.state = desired[q.server]
      BY <1>1 DEF Formed
    <2>2. requests' = (requests \ {q}) \cup {b} /\ desired' = desired
      BY <1>4 DEF ServePower, AnsweredWith, storeVars, Calm
    <2> HIDE DEF b
    <2> QED
      BY <1>1, <1>3, <2>1, <2>2 DEF Fits
  <1>5. CASE SetPower(q)
    <2> DEFINE b == [q EXCEPT !.served = TRUE]
    <2>1. b.what = q.what /\ b.to = q.to /\ b.state = q.state
      BY <1>1, ServedIsFormed
    <2>2. requests' = (requests \ {q}) \cup {b}
      BY <1>5 DEF SetPower, Answered
    <2>3. q.to = "toggle" /\ q.server = content /\ q.server \in Servers
      BY <1>1, <1>2, <1>5 DEF SetPower, Fits, Served
    <2>4. desired'[content] = q.state
      BY <1>5, <2>3 DEF SetPower, PageInv, PageTypes, TypeOK
    <2> HIDE DEF b
    <2> QED
      BY <1>2, <1>3, <2>1, <2>2, <2>3, <2>4
  <1>6. ASSUME NEW b, requests' = (requests \ {q}) \cup {b}, b.what = q.what, b.to = q.to,
               q.what \in {"settings", "saveSettings", "save", "delete"}, desired' = desired
        PROVE  ToggleInv'
    <2>1. q.to # "toggle"
      BY <1>1, <1>6 DEF Served
    <2> QED
      BY <1>3, <1>6, <2>1
  <1>7. CASE ServeSettings(q)
    <2>1. PICK values :
            requests' = (requests \ {q}) \cup
              {[[q EXCEPT !.form = FormOf(values)] EXCEPT !.served = TRUE]}
      BY <1>7 DEF ServeSettings, AnsweredWith
    <2> DEFINE b == [[q EXCEPT !.form = FormOf(values)] EXCEPT !.served = TRUE]
    <2>2. b.what = q.what /\ b.to = q.to
      BY <1>1 DEF Formed
    <2> HIDE DEF b
    <2>3. requests' = (requests \ {q}) \cup {b}
      BY <2>1 DEF b
    <2> QED
      BY <1>6, <1>7, <2>2, <2>3 DEF ServeSettings, storeVars
  <1>8. CASE SaveServerSettings(q) \/ CreateOrUpdate(q) \/ Delete(q)
    <2> DEFINE b == [q EXCEPT !.served = TRUE]
    <2>1. b.what = q.what /\ b.to = q.to
      BY <1>1, ServedIsFormed
    <2>2. requests' = (requests \ {q}) \cup {b}
      BY <1>8 DEF SaveServerSettings, CreateOrUpdate, Delete, Answered
    <2> HIDE DEF b
    <2> QED
      BY <1>6, <1>8, <2>1, <2>2 DEF SaveServerSettings, CreateOrUpdate, Delete
  <1> QED
    BY <1>4, <1>5, <1>7, <1>8 DEF Serve

LEMMA ShowKeepsToggle ==
    ASSUME PageInv, ToggleInv, NEW q \in requests, Show(q)
    PROVE  ToggleInv'
  <1>1. Fits(q) /\ Served(q) /\ q.served /\ UNCHANGED storeVars
    BY DEF PageInv, Known, Show
  <1>2. ASSUME NEW gone, NEW new, NEW names, Exchange({q}, gone, new, names), "toggle" \notin gone,
               UNCHANGED <<content, toggle>>, q.to # "toggle",
               \A p \in new : p.what # "setPower" /\ p.to # "toggle"
        PROVE  ToggleInv'
    BY <1>1, <1>2, ExchangeOfToggle DEF storeVars
  <1>3. CASE ShowSelector(q)
    <2> DEFINE new == IF sel = None THEN {Request("server", "body", "content", sel')} ELSE {}
    <2>1. \A p \in new : p.what # "setPower" /\ p.to # "toggle"
      BY DEF Request
    <2>2. /\ Exchange({q}, {}, new, Overtaking(q))
          /\ q.to # "toggle" /\ UNCHANGED <<content, toggle>>
      BY <1>3 DEF ShowSelector
    <2> HIDE DEF new
    <2> QED
      BY <1>2, <2>1, <2>2
  <1>4. CASE ShowForm(q) \/ ShowOptions(q) \/ ShowPart(q) \/ ShowDeleted(q) \/ Ignored(q)
    <2>1. Exchange({q}, {}, {}, {}) /\ q.to # "toggle" /\ UNCHANGED <<content, toggle>>
      BY <1>4 DEF ShowForm, ShowOptions, ShowPart, ShowDeleted, Ignored, pageVars
    <2> QED
      BY <1>2, <2>1
  <1>5. CASE ShowTab(q)
    <2> DEFINE new == IF q.what = "players" THEN {Options(q.server)} ELSE {}
    <2>1. \A p \in new : p.what # "setPower" /\ p.to # "toggle"
      BY DEF Options, Request
    <2>2. Exchange({q}, Within.tab, new, {}) /\ q.to # "toggle" /\ UNCHANGED <<content, toggle>>
      BY <1>5 DEF ShowTab
    <2> HIDE DEF new
    <2> QED
      BY <1>2, <2>1, <2>2 DEF Within
  <1>6. CASE Saved(q)
    <2>1. PICK new \in {{}, {Request("manage", "body", "tab", script.server)}} :
            Exchange({q}, {}, new, {})
      BY <1>6 DEF Saved
    <2>2. \A p \in new : p.what # "setPower" /\ p.to # "toggle"
      BY <2>1 DEF Request
    <2> QED
      BY <1>2, <1>6, <2>1, <2>2 DEF Saved
  <1>7. CASE ShowToggle(q)
    <2> SUFFICES ASSUME Calm' PROVE ToggleInv'
      BY DEF ToggleInv
    <2>1. Exchange({q}, {}, {}, {}) /\ toggle' = q.state /\ UNCHANGED <<content, desired>>
          /\ q.to = "toggle"
      BY <1>1, <1>7 DEF ShowToggle, storeVars
    <2>2. Calm
      BY <2>1 DEF Exchange, Calm
    <2>3. \A p \in queued : p.what # "setPower" /\ p.to # "toggle"
      BY DEF PageInv, PageTypes, TypeOK, OfBody, Known, Served
    <2>4. ASSUME NEW p \in requests', p.to = "toggle" \/ p.what = "setPower"
          PROVE  p \in requests \ {q}
      BY <2>1, <2>3, <2>4, ExchangeKeeps
    <2>5. \A p \in requests' : p.to # "toggle"
      BY <2>1, <2>2, <2>4 DEF ToggleInv
    <2>6. \A p \in requests' : p.what # "setPower"
      BY <2>2, <2>4, <2>5 DEF ToggleInv
    <2>7. q.state = desired[content]
      BY <1>1, <2>1, <2>2 DEF ToggleInv
    <2> QED
      BY <2>1, <2>5, <2>6, <2>7 DEF ToggleInv
  <1>8. CASE ShowContent(q)
    <2> SUFFICES ASSUME Calm' PROVE ToggleInv'
      BY DEF ToggleInv
    <2> DEFINE r == Request("power", "load", "toggle", q.server)
               c == Request("commands", "load", "tab", q.server)
               names == Overtaking(q)
                 \cup IF \E p \in requests : p.what = "setPower" THEN {"reloaded"} ELSE {}
    <2>1. Exchange({q}, Within.content, {r, c}, names) /\ toggle' = "none"
      BY <1>8 DEF ShowContent
    <2>2. r.what = "power" /\ c.what = "commands" /\ c.to = "tab" /\ r.served = FALSE
      BY DEF Request, Stateful
    <2> HIDE DEF r, c
    <2>3. Calm
      BY <2>1 DEF Exchange, Calm
    <2>4. \A p \in requests : p.what # "setPower"
      BY <2>1 DEF Exchange, Calm
    <2> HIDE DEF names
    <2>5. \A p \in queued : p.what # "setPower" /\ p.to # "toggle"
      BY DEF PageInv, PageTypes, TypeOK, OfBody, Known, Served
    <2>6. ASSUME NEW p \in requests', p.to = "toggle" \/ p.what = "setPower"
          PROVE  p = r
      <3>1. CASE p \in {r, c}
        BY <2>2, <2>6, <3>1
      <3>2. CASE p \in (requests \ {q}) \cup queued /\ p.to \notin Within.content
        BY <2>4, <2>5, <2>6, <3>2 DEF Within
      <3>3. ASSUME NEW o \in (requests \ {q}) \cup queued, p = [o EXCEPT !.to = "gone"]
            PROVE  FALSE
        <4>1. Formed(o)
          BY DEF PageInv, Known, Fits
        <4>2. p.to = "gone" /\ p.what = o.what
          BY <3>3, <4>1, GoneIsFormed
        <4> QED
          BY <2>4, <2>5, <2>6, <4>2
      <3> QED
        BY <2>1, <3>1, <3>2, <3>3, ExchangeKeeps
    <2> QED
      BY <2>1, <2>2, <2>6 DEF ToggleInv
  <1> QED
    BY <1>3, <1>4, <1>5, <1>6, <1>7, <1>8 DEF Show

LEMMA ToggleKept == PageInv /\ ToggleInv /\ [Next]_vars => ToggleInv'
  <1> SUFFICES ASSUME PageInv, ToggleInv, [Next]_vars PROVE ToggleInv'
    OBVIOUS
  <1>1. CASE PollSelector \/ RefreshOptions
    BY <1>1, ExchangeOfToggle
       DEF PollSelector, RefreshOptions, Send, Poll, Options, Request, pageVars, storeVars
  <1>2. ASSUME NEW q \in requests, Fail(q)
        PROVE  ToggleInv'
    <2>1. ~Calm'
      BY <1>2 DEF Fail, Exchange, Calm
    <2> QED
      BY <2>1 DEF ToggleInv
  <1>3. CASE OtherUser
    <2>1. ~Calm'
      BY <1>3 DEF OtherUser, Calm
    <2> QED
      BY <2>1 DEF ToggleInv
  <1>4. CASE UNCHANGED vars
    BY <1>4, SmallStepsKeepToggle DEF vars, pageVars, netVars, storeVars, historyVars, Calm
  <1> QED
    BY <1>1, <1>2, <1>3, <1>4, UserKeepsToggle, ServeKeepsToggle, ShowKeepsToggle DEF Next

LEMMA ToggleStart == Init => ToggleInv
  <1> SUFFICES ASSUME Init PROVE ToggleInv
    OBVIOUS
  <1>1. \A q \in requests : q.what = "selector" /\ q.to = "selector"
    BY DEF Init, Poll, Request
  <1> QED
    BY <1>1 DEF Init, ToggleInv

-----------------------------------------------------------------------------
(* The selector and the content. *)

Smooth == mishaps \cap {"overtaken", "outdatedPoll", "again", "failed", "dropped"} = {}

\* All other requests for the container were sent before.
Newest(q, container) ==
    /\ q.to = container
    /\ \A p \in requests : p.to = container /\ p # q => <<p, q>> \in before

Asked(container) == \E q \in requests : q.to = container

\* The server that the content is of, or will be of when all answers have arrived.
ContentOf(s) ==
    IF Asked("content")
    THEN \E q \in requests : q.server = s /\ Newest(q, "content")
    ELSE content = s

Waiting == \E q \in queued : q.to = "selector"

\* The server that the selector names, or will name: the one that waits is the last to go.
SelectorOf(s) ==
    IF Waiting
    THEN \A q \in queued : q.to = "selector" => q.server = s
    ELSE IF Asked("selector")
         THEN \E q \in requests : q.server = s /\ Newest(q, "selector")
         ELSE sel = s

WellNamed(q) ==
    /\ q.what = "selector" <=> q.to = "selector"
    /\ q.to = "content" => q.what = "server"

AtMostOne(rs) == \A p, q \in rs : p = q

\* Before the first selector has come.
Unopened ==
    /\ content = None /\ toggle = "none" /\ tab.kind = "none"
    /\ requests \subseteq {Poll(None)} /\ queued = {}

NamedInv ==
    /\ \A q \in Known : WellNamed(q)
    /\ \A q \in queued : q.to # "content"
    /\ AtMostOne(queued)
    /\ sel = None => Unopened

\* The selector and the content are on their way to the same server.
SelectorInv ==
    Smooth /\ sel # None => \E s \in Servers : ContentOf(s) /\ SelectorOf(s)

\* What an exchange leaves in the page was sent before what it sends.
After(q, over) == \A p \in requests \ over : p.to = q.to => <<p, q>> \in before'

\* Where the requests for the selector and the content are after an exchange.
LEMMA ExchangeOfNamed ==
    ASSUME PageInv,
           NEW over, NEW gone, NEW new, NEW names, Exchange(over, gone, new, names),
           "selector" \notin gone, "content" \notin gone
    PROVE  /\ \A q \in requests \ over : q.to \in Ordered => q \in requests'
           /\ \A q \in requests' : q.to \in Ordered => q \in (requests \ over) \cup queued \cup new
           /\ \A q \in queued' : q.to \in Ordered => q \in queued \cup {p \in new : OfBody(p)}
           /\ \A p, q \in requests \ over :
                p.to \in Ordered /\ q.to \in Ordered /\ <<p, q>> \in before => <<p, q>> \in before'
           /\ \A q \in new : ~OfBody(q) => q \in requests'
           /\ \A q \in new : ~OfBody(q) /\ q.to \in Ordered => After(q, over)
           /\ Smooth' => Smooth
  <1> DEFINE left  == Without(gone, requests \ over)
             next  == IF ~\E p \in left : OfBody(p) THEN queued ELSE {}
             busy  == (\E p \in left : OfBody(p)) \/ queued # {}
             waits == {p \in new : busy /\ OfBody(p)}
             sent  == Without(gone, next) \cup (new \ waits)
  <1>1. /\ requests' = left \cup sent
        /\ queued' = IF waits = {} THEN Without(gone, queued \ next) ELSE waits
        /\ before' = {pair \in before : pair[1] \in left /\ pair[2] \in left}
             \cup {pair \in left \X sent : pair[1].to \in Ordered /\ pair[2].to = pair[1].to}
        /\ mishaps \subseteq mishaps'
    BY DEF Exchange
  <1>2. \A q \in requests \ over : q.to \in Ordered => q \in left
    BY DEF Without, Ordered
  <1>3. ASSUME NEW rs \in SUBSET Known, NEW q \in Without(gone, rs), q.to \in Ordered
        PROVE  q \in rs
    <2>1. ASSUME NEW p \in rs
          PROVE  [p EXCEPT !.to = "gone"].to = "gone"
      BY <1>3, <2>1, GoneIsFormed DEF PageInv, Fits, Known
    <2> QED
      BY <1>3, <2>1 DEF Without, Ordered
  <1>4. /\ \A q \in left : q.to \in Ordered => q \in requests \ over
        /\ \A q \in Without(gone, next) : q.to \in Ordered => q \in queued
        /\ \A q \in Without(gone, queued \ next) : q.to \in Ordered => q \in queued
    BY <1>3 DEF Known
  <1>5. \A q \in requests' : q.to \in Ordered => q \in (requests \ over) \cup queued \cup new
    BY <1>1, <1>4
  <1>6. \A q \in queued' : q.to \in Ordered => q \in queued \cup {p \in new : OfBody(p)}
    BY <1>1, <1>4
  <1>7. \A q \in new : ~OfBody(q) => q \in sent
    OBVIOUS
  <1> HIDE DEF left, sent
  <1>8. ASSUME NEW p \in requests \ over, NEW q \in requests \ over,
               p.to \in Ordered, q.to \in Ordered, <<p, q>> \in before
        PROVE  <<p, q>> \in before'
    BY <1>1, <1>2, <1>8
  <1>9. ASSUME NEW q \in new, ~OfBody(q), q.to \in Ordered
        PROVE  After(q, over)
    BY <1>1, <1>2, <1>7, <1>9 DEF After
  <1>10. Smooth' => Smooth
    BY <1>1 DEF Smooth
  <1>11. (\A q \in requests \ over : q.to \in Ordered => q \in requests')
         /\ \A q \in new : ~OfBody(q) => q \in requests'
    BY <1>1, <1>2, <1>7
  <1> QED
    BY <1>5, <1>6, <1>8, <1>9, <1>10, <1>11

\* A new request of the body is the one that waits, or goes off.
LEMMA NewOfBody ==
    ASSUME NEW over, NEW gone, NEW new, NEW names, Exchange(over, gone, new, names),
           "selector" \notin gone, NEW q \in new, OfBody(q), q.to = "selector"
    PROVE  \/ q \in queued' /\ queued' \subseteq new
           \/ q \in requests' /\ queued = {} /\ queued' = {} /\ After(q, over)
  <1> DEFINE left  == Without(gone, requests \ over)
             next  == IF ~\E p \in left : OfBody(p) THEN queued ELSE {}
             busy  == (\E p \in left : OfBody(p)) \/ queued # {}
             waits == {p \in new : busy /\ OfBody(p)}
             sent  == Without(gone, next) \cup (new \ waits)
  <1>1. /\ requests' = left \cup sent
        /\ queued' = IF waits = {} THEN Without(gone, queued \ next) ELSE waits
        /\ before' = {pair \in before : pair[1] \in left /\ pair[2] \in left}
             \cup {pair \in left \X sent : pair[1].to \in Ordered /\ pair[2].to = pair[1].to}
    BY DEF Exchange
  <1>2. CASE busy
    BY <1>1, <1>2
  <1>3. CASE ~busy
    <2>1. waits = {} /\ queued = {} /\ q \in sent
      BY <1>3
    <2>2. queued' = {}
      BY <1>1, <2>1 DEF Without
    <2>3. \A p \in requests \ over : p.to = "selector" => p \in left
      BY DEF Without
    <2> HIDE DEF left, sent
    <2>4. After(q, over)
      BY <1>1, <2>1, <2>3 DEF After, Ordered
    <2> QED
      BY <1>1, <2>1, <2>2, <2>4
  <1> QED
    BY <1>2, <1>3

\* A selector that waits goes on waiting or goes off, when no new one takes its place.
LEMMA SelectorWaits ==
    ASSUME NamedInv,
           NEW over, NEW gone, NEW new, NEW names, Exchange(over, gone, new, names),
           "selector" \notin gone, Smooth', \A p \in new : p.what # "selector",
           NEW q \in queued, q.to = "selector"
    PROVE  q \in queued' \/ (q \in requests' /\ After(q, over))
  <1> DEFINE left  == Without(gone, requests \ over)
             next  == IF ~\E p \in left : OfBody(p) THEN queued ELSE {}
             busy  == (\E p \in left : OfBody(p)) \/ queued # {}
             waits == {p \in new : busy /\ OfBody(p)}
             sent  == Without(gone, next) \cup (new \ waits)
  <1>1. /\ requests' = left \cup sent
        /\ queued' = IF waits = {} THEN Without(gone, queued \ next) ELSE waits
        /\ before' = {pair \in before : pair[1] \in left /\ pair[2] \in left}
             \cup {pair \in left \X sent : pair[1].to \in Ordered /\ pair[2].to = pair[1].to}
    BY DEF Exchange
  <1>2. (waits # {} /\ \E p \in queued \ next : p.what = "selector") => "dropped" \in mishaps'
    BY DEF Exchange
  <1>3. q.what = "selector"
    BY DEF NamedInv, WellNamed, Known
  <1>4. CASE q \in next
    <2>1. q \in sent
      BY <1>4 DEF Without
    <2>2. \A p \in requests \ over : p.to = "selector" => p \in left
      BY DEF Without
    <2> HIDE DEF left, sent
    <2> QED
      BY <1>1, <2>1, <2>2 DEF After, Ordered
  <1>5. CASE q \notin next
    <2>1. waits = {}
      BY <1>2, <1>3, <1>5 DEF Smooth
    <2> QED
      BY <1>1, <1>5, <2>1 DEF Without
  <1> QED
    BY <1>4, <1>5

LEMMA NamedStays ==
    ASSUME PageInv, NamedInv,
           NEW over, NEW gone, NEW new, NEW names, Exchange(over, gone, new, names),
           "selector" \notin gone, "content" \notin gone,
           \A q \in new : WellNamed(q) /\ (q.to = "content" => ~OfBody(q)),
           AtMostOne({q \in new : OfBody(q)}),
           sel' = None => Unopened'
    PROVE  NamedInv'
  <1>1. AtMostOne(queued')
    <2> DEFINE left  == Without(gone, requests \ over)
               next  == IF ~\E p \in left : OfBody(p) THEN queued ELSE {}
               busy  == (\E p \in left : OfBody(p)) \/ queued # {}
               waits == {p \in new : busy /\ OfBody(p)}
    <2>1. queued' = IF waits = {} THEN Without(gone, queued \ next) ELSE waits
      BY DEF Exchange
    <2>2. AtMostOne(waits)
      BY DEF AtMostOne
    <2>3. AtMostOne(queued)
      BY DEF NamedInv
    <2>4. AtMostOne(Without(gone, queued \ next))
      BY <2>3 DEF AtMostOne, Without
    <2> QED
      BY <2>1, <2>2, <2>4
  <1>2. ASSUME NEW q \in Known'
        PROVE  WellNamed(q)
    <2>1. CASE q \in new \cup Known
      BY <2>1 DEF NamedInv
    <2>2. ASSUME NEW p \in Known, p.to \in gone, q = [p EXCEPT !.to = "gone"]
          PROVE  WellNamed(q)
      <3>1. q.to = "gone" /\ q.what = p.what
        BY <2>2, GoneIsFormed DEF PageInv, Fits
      <3>2. p.what # "selector"
        BY <2>2 DEF NamedInv, WellNamed
      <3> QED
        BY <3>1, <3>2 DEF WellNamed
    <2> QED
      BY <1>2, <2>1, <2>2, ExchangeKeeps DEF Known
  <1>3. ASSUME NEW q \in queued', q.to = "content"
        PROVE  FALSE
    <2>1. q \in queued \/ (q \in new /\ OfBody(q))
      BY <1>3, ExchangeOfNamed DEF Ordered
    <2> QED
      BY <1>3, <2>1 DEF NamedInv
  <1> QED
    BY <1>1, <1>2, <1>3 DEF NamedInv, Known, WellNamed, AtMostOne

\* The newest request goes on being that until another goes off for the container.
LEMMA NewestStays ==
    ASSUME PageInv, NEW container \in Ordered,
           NEW over, NEW gone, NEW new, NEW names, Exchange(over, gone, new, names),
           "selector" \notin gone, "content" \notin gone,
           \A p \in requests' : p.to = container => p \in requests \ over,
           NEW q \in requests \ over, Newest(q, container)
    PROVE  q \in requests' /\ Newest(q, container)'
  <1>1. q \in requests'
    BY ExchangeOfNamed DEF Newest
  <1>2. ASSUME NEW p \in requests', p.to = container, p # q
        PROVE  <<p, q>> \in before'
    <2>1. p \in requests \ over /\ <<p, q>> \in before
      BY <1>2 DEF Newest
    <2> QED
      BY <1>2, <2>1, ExchangeOfNamed DEF Newest
  <1> QED
    BY <1>1, <1>2 DEF Newest

\* The only one for a container that goes off is the newest.
LEMMA SentIsNewest ==
    ASSUME NEW container \in Ordered, NEW over,
           NEW q \in requests', q.to = container, After(q, over),
           \A p \in requests' : p.to = container => p = q \/ p \in requests \ over
    PROVE  Newest(q, container)'
  BY DEF Newest, After

\* An answer that overtakes none is the only one, or there is a newer.
LEMMA NotOvertaking ==
    ASSUME NEW q \in requests, NEW container, q.to = container,
           NEW p \in requests, Newest(p, container), "overtaken" \notin Overtaking(q), p = q
    PROVE  \A o \in requests : o.to = container => o = q
  BY DEF Newest, Overtaking

\* The server of the content stays when no request for it is added or over.
LEMMA ContentStays ==
    ASSUME PageInv, NamedInv,
           NEW over, NEW gone, NEW new, NEW names, Exchange(over, gone, new, names),
           "selector" \notin gone, "content" \notin gone, content' = content,
           \A q \in over \cup new : q.to # "content",
           NEW s, ContentOf(s)
    PROVE  ContentOf(s)'
  <1>1. \A q \in requests' : q.to = "content" => q \in requests \ over
    BY ExchangeOfNamed DEF Ordered, NamedInv
  <1>2. \A q \in requests : q.to = "content" => q \in requests \ over /\ q \in requests'
    BY ExchangeOfNamed DEF Ordered
  <1>3. CASE Asked("content")
    <2>1. PICK q \in requests : q.server = s /\ Newest(q, "content")
      BY <1>3 DEF ContentOf
    <2>2. q \in requests \ over
      BY <1>2, <2>1 DEF Newest
    <2>3. q \in requests' /\ Newest(q, "content")'
      BY <1>1, <2>1, <2>2, NewestStays DEF Ordered
    <2> QED
      BY <2>1, <2>3 DEF ContentOf, Asked, Newest
  <1>4. CASE ~Asked("content")
    BY <1>1, <1>4 DEF ContentOf, Asked
  <1> QED
    BY <1>3, <1>4

\* The selector's answer may arrive; nothing else for it does, and none is asked for.
LEMMA WaitingStays ==
    ASSUME PageInv, NamedInv,
           NEW over, NEW gone, NEW new, NEW names, Exchange(over, gone, new, names),
           "selector" \notin gone, "content" \notin gone, Smooth',
           \A q \in new : q.what # "selector" /\ q.to # "selector",
           Waiting, NEW s, SelectorOf(s)
    PROVE  SelectorOf(s)'
  <1>1. PICK w \in queued : w.to = "selector"
    BY DEF Waiting
  <1>2. w.server = s
    BY <1>1 DEF SelectorOf
  <1>3. \A q \in queued' : q.to = "selector" => q = w
    <2>1. \A q \in queued' : q.to = "selector" => q \in queued
      BY ExchangeOfNamed DEF Ordered
    <2> QED
      BY <1>1, <2>1 DEF NamedInv, AtMostOne
  <1>4. CASE w \in queued'
    BY <1>1, <1>2, <1>3, <1>4 DEF SelectorOf, Waiting
  <1>5. CASE w \notin queued'
    <2>1. w \in requests' /\ After(w, over)
      BY <1>1, <1>5, SelectorWaits
    <2>2. \A q \in requests' : q.to = "selector" => q = w \/ q \in requests \ over
      <3>1. \A q \in requests' : q.to = "selector" => q \in (requests \ over) \cup queued
        BY ExchangeOfNamed DEF Ordered
      <3> QED
        BY <1>1, <3>1 DEF NamedInv, AtMostOne
    <2>3. Newest(w, "selector")'
      BY <1>1, <2>1, <2>2, SentIsNewest DEF Ordered
    <2>4. ~Waiting'
      BY <1>3, <1>5 DEF Waiting
    <2> QED
      BY <1>1, <1>2, <2>1, <2>3, <2>4 DEF SelectorOf, Asked
  <1> QED
    BY <1>4, <1>5

\* When none waits or is asked for, those under way are as before, but for what is over.
LEMMA NoneWaits ==
    ASSUME PageInv, NamedInv, ~Waiting,
           NEW over, NEW gone, NEW new, NEW names, Exchange(over, gone, new, names),
           "selector" \notin gone, "content" \notin gone,
           \A q \in new : OfBody(q) => q.to # "selector"
    PROVE  /\ ~Waiting'
           /\ \A q \in requests' : q.to = "selector" => q \in (requests \ over) \cup new
           /\ \A q \in requests \ over : q.to = "selector" => q \in requests'
  BY ExchangeOfNamed DEF Waiting, Ordered

\* An exchange in which no selector is asked for or comes.
LEMMA SelectorStays ==
    ASSUME PageInv, NamedInv,
           NEW over, NEW gone, NEW new, NEW names, Exchange(over, gone, new, names),
           "selector" \notin gone, "content" \notin gone, sel' = sel, Smooth',
           \A q \in over : q.to # "selector",
           \A q \in new : q.what # "selector" /\ q.to # "selector",
           NEW s, SelectorOf(s)
    PROVE  SelectorOf(s)'
  <1>1. CASE Waiting
    BY <1>1, WaitingStays
  <1>2. CASE ~Waiting
    <2>1. /\ ~Waiting'
          /\ \A q \in requests' : q.to = "selector" => q \in requests \ over
          /\ \A q \in requests : q.to = "selector" => q \in requests \ over /\ q \in requests'
      BY <1>2, NoneWaits
    <2>2. CASE Asked("selector")
      <3>1. PICK q \in requests : q.server = s /\ Newest(q, "selector")
        BY <1>2, <2>2 DEF SelectorOf
      <3>2. q \in requests \ over
        BY <2>1, <3>1 DEF Newest
      <3>3. q \in requests' /\ Newest(q, "selector")'
        BY <2>1, <3>1, <3>2, NewestStays DEF Ordered
      <3> QED
        BY <2>1, <3>1, <3>3 DEF SelectorOf, Asked, Newest
    <2>3. CASE ~Asked("selector")
      BY <1>2, <2>1, <2>3 DEF SelectorOf, Asked
    <2> QED
      BY <2>2, <2>3
  <1> QED
    BY <1>1, <1>2

\* An exchange that has nothing to do with either.
LEMMA ElsewhereKeepsSelector ==
    ASSUME PageInv, NamedInv, SelectorInv, sel # None, UNCHANGED <<sel, content>>,
           NEW over, NEW gone, NEW new, NEW names, Exchange(over, gone, new, names),
           "selector" \notin gone, "content" \notin gone, AtMostOne({q \in new : OfBody(q)}),
           \A q \in over : q.to \notin {"selector", "content"},
           \A q \in new : q.what # "selector" /\ q.to \notin {"selector", "content"}
    PROVE  NamedInv' /\ SelectorInv'
  <1>1. NamedInv'
    BY NamedStays DEF WellNamed
  <1> SUFFICES ASSUME Smooth' PROVE SelectorInv'
    BY <1>1 DEF SelectorInv
  <1>2. Smooth
    BY ExchangeOfNamed
  <1>3. PICK s \in Servers : ContentOf(s) /\ SelectorOf(s)
    BY <1>2 DEF SelectorInv
  <1>4. ContentOf(s)'
    BY <1>3, ContentStays
  <1>5. SelectorOf(s)'
    BY <1>3, SelectorStays
  <1> QED
    BY <1>1, <1>4, <1>5 DEF SelectorInv

LEMMA SmallStepsKeepSelector ==
    ASSUME NamedInv, SelectorInv, UNCHANGED <<sel, content, netVars>>,
           sel = None => UNCHANGED <<toggle, tab>>, Smooth' => Smooth
    PROVE  NamedInv' /\ SelectorInv'
  <1>1. UNCHANGED <<requests, queued, before>>
    BY DEF netVars
  <1>2. NamedInv'
    BY <1>1 DEF NamedInv, Known, Unopened
  <1>3. \A s : ContentOf(s) /\ SelectorOf(s) => ContentOf(s)' /\ SelectorOf(s)'
    BY <1>1 DEF ContentOf, SelectorOf, Asked, Waiting, Newest
  <1> QED
    BY <1>2, <1>3 DEF SelectorInv

\* Both are asked for one server, each after all that was under way for it.
LEMMA SelectServerKeepsSelector ==
    ASSUME PageInv, NamedInv, SelectorInv, NEW s \in Servers, SelectServer(s)
    PROVE  NamedInv' /\ SelectorInv'
  <1> DEFINE b == Request("selector", "body", "selector", s)
             c == Request("server", "button", "content", s)
  <1>1. PICK names : Exchange({}, {}, {c, b}, names)
    BY DEF SelectServer
  <1>2. sel # None /\ UNCHANGED <<sel, content, toggle, tab>>
    BY DEF SelectServer, pageVars
  <1>3. /\ b.what = "selector" /\ b.to = "selector" /\ b.server = s /\ b.by = "body"
        /\ c.what = "server" /\ c.to = "content" /\ c.server = s /\ c.by = "button"
    BY RequestIsFormed
  <1> HIDE DEF b, c
  <1>4. OfBody(b) /\ ~OfBody(c) /\ WellNamed(b) /\ WellNamed(c)
    BY <1>3 DEF OfBody, WellNamed
  <1>5. NamedInv'
    <2>1. AtMostOne({q \in {c, b} : OfBody(q)})
      BY <1>4 DEF AtMostOne
    <2> QED
      BY <1>1, <1>2, <1>3, <1>4, <2>1, NamedStays
  <1>6. ContentOf(s)'
    <2>1. c \in requests' /\ After(c, {})
      BY <1>1, <1>3, <1>4, ExchangeOfNamed DEF Ordered
    <2>2. \A q \in requests' : q.to = "content" => q = c \/ q \in requests \ {}
      BY <1>1, <1>3, ExchangeOfNamed DEF Ordered, NamedInv
    <2>3. Newest(c, "content")'
      BY <1>3, <2>1, <2>2, SentIsNewest DEF Ordered
    <2> QED
      BY <1>3, <2>1, <2>3 DEF ContentOf, Asked
  <1>7. SelectorOf(s)'
    <2>1. CASE b \in queued' /\ queued' \subseteq {c, b}
      BY <1>3, <2>1 DEF SelectorOf, Waiting
    <2>2. CASE b \in requests' /\ queued = {} /\ queued' = {} /\ After(b, {})
      <3>1. \A q \in requests' : q.to = "selector" => q = b \/ q \in requests \ {}
        BY <1>1, <1>3, <2>2, ExchangeOfNamed DEF Ordered
      <3>2. Newest(b, "selector")'
        BY <1>3, <2>2, <3>1, SentIsNewest DEF Ordered
      <3> QED
        BY <1>3, <2>2, <3>2 DEF SelectorOf, Waiting, Asked
    <2> QED
      BY <1>1, <1>3, <1>4, <2>1, <2>2, NewOfBody
  <1> QED
    BY <1>5, <1>6, <1>7 DEF SelectorInv

\* The timer asks for the server that is shown, when nothing else is asked for.
LEMMA PollKeepsSelector ==
    ASSUME PageInv, NamedInv, SelectorInv, PollSelector
    PROVE  NamedInv' /\ SelectorInv'
  <1> DEFINE r == Poll(sel)
  <1>1. Exchange({}, {}, {r}, Outdated) /\ UNCHANGED <<sel, content, toggle, tab>>
    BY DEF PollSelector, pageVars
  <1>2. r.what = "selector" /\ r.to = "selector" /\ r.server = sel /\ r.by = "timer"
    BY RequestIsFormed DEF Poll
  <1>3. ASSUME sel = None
        PROVE  requests' \subseteq {Poll(None)} /\ queued' = {}
    <2>1. requests \subseteq {r} /\ queued = {}
      BY <1>3 DEF NamedInv, Unopened
    <2>2. ~OfBody(r)
      BY <1>2 DEF OfBody
    <2>3. \A q \in queued' : q \in queued \/ (q \in {r} /\ OfBody(q))
      BY <1>1, <2>1 DEF Exchange, Without
    <2>4. ASSUME NEW q \in requests' PROVE q = r
      <3>1. \/ q \in {r} \/ q \in (requests \ {}) \cup queued
            \/ \E p \in (requests \ {}) \cup queued : p.to \in {}
        BY <1>1, <2>4, ExchangeKeeps
      <3> QED
        BY <2>1, <3>1
    <2> QED
      BY <1>3, <2>1, <2>2, <2>3, <2>4
  <1> HIDE DEF r
  <1>4. ~OfBody(r) /\ WellNamed(r) /\ r.to # "content"
    BY <1>2 DEF OfBody, WellNamed
  <1>5. NamedInv'
    <2>1. sel' = None => Unopened'
      BY <1>1, <1>3 DEF NamedInv, Unopened
    <2>2. AtMostOne({q \in {r} : OfBody(q)})
      BY DEF AtMostOne
    <2> QED
      BY <1>1, <1>4, <2>1, <2>2, NamedStays
  <1> SUFFICES ASSUME Smooth', sel # None PROVE SelectorInv'
    BY <1>1, <1>5 DEF SelectorInv
  <1>6. Smooth
    BY <1>1, ExchangeOfNamed
  <1>7. \A q \in requests \cup queued : q.what # "selector"
    BY <1>1 DEF Exchange, Smooth, Outdated
  <1>8. \A q \in Known : q.to # "selector"
    BY <1>7 DEF NamedInv, WellNamed, Known
  <1>9. PICK s \in Servers : ContentOf(s) /\ SelectorOf(s)
    BY <1>6 DEF SelectorInv
  <1>10. ~Waiting /\ s = sel
    BY <1>8, <1>9 DEF SelectorOf, Waiting, Asked, Known
  <1>11. ContentOf(s)'
    BY <1>1, <1>4, <1>9, ContentStays
  <1>12. SelectorOf(s)'
    <2>1. /\ ~Waiting' /\ r \in requests'
          /\ \A q \in requests' : q.to = "selector" => q = r
      <3>1. \A q \in {r} : OfBody(q) => q.to # "selector"
        BY <1>4
      <3>2. /\ ~Waiting'
            /\ \A q \in requests' : q.to = "selector" => q \in (requests \ {}) \cup {r}
        BY <1>1, <1>10, <3>1, NoneWaits
      <3>3. r \in requests'
        BY <1>1, <1>4, ExchangeOfNamed
      <3> QED
        BY <1>8, <3>2, <3>3 DEF Known
    <2> QED
      BY <1>2, <1>10, <2>1 DEF SelectorOf, Asked, Newest
  <1> QED
    BY <1>11, <1>12 DEF SelectorInv

LEMMA UserKeepsSelector ==
    ASSUME PageInv, NamedInv, SelectorInv, User
    PROVE  NamedInv' /\ SelectorInv'
  <1>1. ASSUME NEW q, Send({q}), UNCHANGED pageVars, sel # None,
               q.what # "selector" /\ q.to \notin {"selector", "content"}
        PROVE  NamedInv' /\ SelectorInv'
    <2>1. AtMostOne({p \in {q} : OfBody(p)})
      BY DEF AtMostOne
    <2>2. Exchange({}, {}, {q}, {}) /\ UNCHANGED <<sel, content>>
      BY <1>1 DEF Send, pageVars
    <2> QED
      BY <1>1, <2>1, <2>2, ElsewhereKeepsSelector
  <1>2. content # None \/ toggle # "none" \/ tab.kind # "none" => sel # None
    BY DEF NamedInv, Unopened
  <1>3. CASE \E s \in Servers : SelectServer(s)
    BY <1>3, SelectServerKeepsSelector
  <1>4. ASSUME NEW kind \in Kinds, OpenTab(kind)
        PROVE  NamedInv' /\ SelectorInv'
    <2>1. Request(kind, "button", "tab", content).what = kind
          /\ Request(kind, "button", "tab", content).to = "tab"
      BY RequestIsFormed
    <2> QED
      BY <1>1, <1>2, <1>4, <2>1 DEF OpenTab, Kinds
  <1>5. ASSUME NEW r, Formed(r), r.what # "selector", r.to \notin {"selector", "content"}, NEW x
        PROVE  \A q \in {[r EXCEPT !.state = x], [r EXCEPT !.template = x], [r EXCEPT !.form = x]} :
                 q.what # "selector" /\ q.to \notin {"selector", "content"}
    BY <1>5 DEF Formed
  <1>6. CASE Toggle
    <2> DEFINE r == Request("setPower", "button", "toggle", content)
    <2>1. /\ Send({[r EXCEPT !.state = Opposite(toggle)]})
          /\ toggle # "none" /\ UNCHANGED pageVars
      BY <1>6 DEF Toggle
    <2>2. Formed(r) /\ r.what # "selector" /\ r.to \notin {"selector", "content"}
      BY RequestIsFormed
    <2> HIDE DEF r
    <2> QED
      BY <1>1, <1>2, <1>5, <2>1, <2>2
  <1>7. ASSUME NEW t, OpenRunner(t) \/ DeleteTemplate(t) \/ OpenForm(t)
        PROVE  NamedInv' /\ SelectorInv'
    <2>1. PICK what \in {"runner", "form", "delete"}, to \in {"part", "row"} :
            Send({[Request(what, "button", to, tab.server) EXCEPT !.template = t]})
      BY <1>7 DEF OpenRunner, DeleteTemplate, OpenForm
    <2>2. tab.kind # "none" /\ UNCHANGED pageVars
      BY <1>7 DEF OpenRunner, DeleteTemplate, OpenForm
    <2> DEFINE r == Request(what, "button", to, tab.server)
    <2>3. Formed(r) /\ r.what # "selector" /\ r.to \notin {"selector", "content"}
      BY RequestIsFormed
    <2>4. Send({[r EXCEPT !.template = t]})
      BY <2>1
    <2> HIDE DEF r
    <2> QED
      BY <1>1, <1>2, <1>5, <2>2, <2>3, <2>4
  <1>8. CASE SaveTemplate
    <2> DEFINE r == Request("save", "script", "page", script.server)
    <2>1. /\ Send({[r EXCEPT !.template = script.template]})
          /\ tab.kind # "none" /\ UNCHANGED pageVars
      BY <1>8 DEF SaveTemplate
    <2>2. Formed(r) /\ r.what # "selector" /\ r.to \notin {"selector", "content"}
      BY RequestIsFormed
    <2> HIDE DEF r
    <2> QED
      BY <1>1, <1>2, <1>5, <2>1, <2>2
  <1>9. CASE SaveSettings
    <2> DEFINE r == Request("saveSettings", "button", "part", tab.server)
    <2>1. Send({[r EXCEPT !.form = part]}) /\ tab.kind # "none" /\ UNCHANGED pageVars
      BY <1>9 DEF SaveSettings
    <2>2. Formed(r) /\ r.what # "selector" /\ r.to \notin {"selector", "content"}
      BY RequestIsFormed
    <2> HIDE DEF r
    <2> QED
      BY <1>1, <1>2, <1>5, <2>1, <2>2
  <1>10. CASE \/ Cancel \/ Execute(Posted) \/ \E p \in Players : Choose(p)
              \/ \E f \in Fields, place \in Places : Edit(f, place)
    BY <1>10, SmallStepsKeepSelector
       DEF Cancel, Execute, Choose, Edit, pageVars, storeVars, Smooth
  <1> QED
    BY <1>3, <1>4, <1>6, <1>7, <1>8, <1>9, <1>10 DEF User

LEMMA ServeKeepsSelector ==
    ASSUME PageInv, NamedInv, SelectorInv, NEW q \in requests, Serve(q)
    PROVE  NamedInv' /\ SelectorInv'
  <1>1. Formed(q) /\ WellNamed(q) /\ UNCHANGED <<sel, content, toggle, tab, queued, before>>
    BY DEF PageInv, Known, Fits, Serve, pageVars, NamedInv
  <1>2. q.what \in {"power", "setPower", "settings", "saveSettings", "save", "delete"}
    BY DEF Serve, ServePower, SetPower, ServeSettings, SaveServerSettings, CreateOrUpdate, Delete
  <1>3. PICK b : requests' = (requests \ {q}) \cup {b} /\ b.what = q.what /\ b.to = q.to
    <2>1. ASSUME NEW x, NEW b, Formed(x), x.what = q.what, x.to = q.to,
                 b = [x EXCEPT !.served = TRUE], requests' = (requests \ {q}) \cup {b}
          PROVE  \E y : requests' = (requests \ {q}) \cup {y} /\ y.what = q.what /\ y.to = q.to
      <3>1. b.what = q.what /\ b.to = q.to
        BY <2>1, ServedIsFormed
      <3> QED
        BY <2>1, <3>1
    <2>2. ASSUME NEW y
          PROVE  LET x == [q EXCEPT !.state = y]
                     z == [q EXCEPT !.form = y]
                 IN  /\ Formed(x) /\ x.what = q.what /\ x.to = q.to
                     /\ Formed(z) /\ z.what = q.what /\ z.to = q.to
      BY <1>1 DEF Formed
    <2>3. CASE ServePower(q)
      BY <2>1, <2>2, <2>3 DEF ServePower, AnsweredWith
    <2>4. CASE ServeSettings(q)
      BY <2>1, <2>2, <2>4 DEF ServeSettings, AnsweredWith
    <2>5. CASE SetPower(q) \/ SaveServerSettings(q) \/ CreateOrUpdate(q) \/ Delete(q)
      BY <1>1, <2>1, <2>5 DEF SetPower, SaveServerSettings, CreateOrUpdate, Delete, Answered
    <2> QED
      BY <2>3, <2>4, <2>5 DEF Serve
  <1>4. q.to # "selector" /\ q.to # "content"
    BY <1>1, <1>2 DEF WellNamed
  <1>5. \A p : p.to \in {"selector", "content"} => (p \in requests' <=> p \in requests)
    BY <1>3, <1>4
  <1>6. sel # None
    <2>1. Poll(None).what = "selector"
      BY RequestIsFormed DEF Poll
    <2> QED
      BY <1>2, <2>1 DEF NamedInv, Unopened
  <1>7. NamedInv'
    <2>1. \A p \in Known' : p \in Known \/ (p.what = q.what /\ p.to = q.to)
      BY <1>1, <1>3 DEF Known
    <2>2. \A p \in Known' : WellNamed(p)
      BY <1>1, <2>1 DEF NamedInv, WellNamed
    <2> QED
      BY <1>1, <1>6, <2>2 DEF NamedInv, Known, WellNamed, AtMostOne
  <1>8. Smooth' => Smooth
    BY DEF Serve, ServePower, SetPower, ServeSettings, SaveServerSettings, CreateOrUpdate, Delete,
           Smooth
  <1>9. ASSUME NEW container \in Ordered
        PROVE  /\ Asked(container)' <=> Asked(container)
               /\ \A p : p \in requests /\ Newest(p, container) => p \in requests' /\ Newest(p, container)'
    BY <1>1, <1>5 DEF Ordered, Asked, Newest
  <1>10. \A s : ContentOf(s) => ContentOf(s)'
    BY <1>1, <1>9 DEF ContentOf, Ordered
  <1>11. \A s : SelectorOf(s) => SelectorOf(s)'
    BY <1>1, <1>9 DEF SelectorOf, Ordered, Waiting
  <1> QED
    BY <1>1, <1>7, <1>8, <1>10, <1>11 DEF SelectorInv

\* The first selector asks for the first content.
LEMMA FirstSelectorKeeps ==
    ASSUME PageInv, NamedInv, sel = None, NEW q \in requests, ShowSelector(q)
    PROVE  NamedInv' /\ SelectorInv'
  <1> DEFINE r == Request("server", "body", "content", sel')
  <1>1. requests = {q} /\ q = Poll(None) /\ queued = {}
    BY DEF NamedInv, Unopened
  <1>2. sel' \in Servers
    BY <1>1, RequestIsFormed DEF ShowSelector, Poll
  <1>3. Exchange({q}, {}, {r}, Overtaking(q))
    BY DEF ShowSelector
  <1>4. Without({}, requests \ {q}) = {} /\ Without({}, queued) = {}
    BY <1>1 DEF Without
  <1>5. requests' = {r} /\ queued' = {}
    BY <1>1, <1>3, <1>4 DEF Exchange
  <1>6. r.what = "server" /\ r.to = "content" /\ r.server = sel'
    BY RequestIsFormed
  <1> HIDE DEF r
  <1>7. sel' # None
    BY <1>2, NoneAssumption
  <1>8. NamedInv'
    BY <1>5, <1>6, <1>7 DEF NamedInv, WellNamed, Known, AtMostOne
  <1>9. PICK s \in Servers : s = sel'
    BY <1>2
  <1>10. ContentOf(s)'
    BY <1>5, <1>6, <1>9 DEF ContentOf, Asked, Newest
  <1>11. SelectorOf(s)'
    BY <1>5, <1>6, <1>9 DEF SelectorOf, Asked, Waiting
  <1> QED
    BY <1>8, <1>10, <1>11 DEF SelectorInv

\* The newest answer names the server; another one leaves the newest under way.
LEMMA LaterSelectorKeeps ==
    ASSUME PageInv, NamedInv, SelectorInv, sel # None, NEW q \in requests, ShowSelector(q)
    PROVE  NamedInv' /\ SelectorInv'
  <1>1. /\ Exchange({q}, {}, {}, Overtaking(q)) /\ q.to = "selector"
        /\ UNCHANGED <<content, toggle, tab>>
    BY DEF ShowSelector
  <1>2. sel' # None /\ (q.server # None => sel' = q.server)
    <2>1. sel' \in (IF q.server = None THEN Servers ELSE {q.server})
      BY DEF ShowSelector
    <2> QED
      BY <2>1, NoneAssumption
  <1>3. NamedInv'
    <2>1. AtMostOne({p \in {} : OfBody(p)})
      BY DEF AtMostOne
    <2> QED
      BY <1>1, <1>2, <2>1, NamedStays
  <1> SUFFICES ASSUME Smooth' PROVE SelectorInv'
    BY <1>3 DEF SelectorInv
  <1>4. Smooth
    BY <1>1, ExchangeOfNamed
  <1>5. PICK s \in Servers : ContentOf(s) /\ SelectorOf(s)
    BY <1>4 DEF SelectorInv
  <1>6. ContentOf(s)'
    <2>1. \A p \in {q} \cup {} : p.to # "content"
      BY <1>1
    <2> QED
      BY <1>1, <1>5, <2>1, ContentStays
  <1>7. SelectorOf(s)'
    <2>1. CASE Waiting
      BY <1>1, <1>5, <2>1, WaitingStays
    <2>2. CASE ~Waiting
      <3>1. /\ ~Waiting'
            /\ \A p \in requests' : p.to = "selector" => p \in requests \ {q}
            /\ \A p \in requests \ {q} : p.to = "selector" => p \in requests'
        BY <1>1, <2>2, NoneWaits
      <3>2. PICK p \in requests : p.server = s /\ Newest(p, "selector")
        BY <1>1, <1>5, <2>2 DEF SelectorOf, Asked
      <3>3. CASE p = q
        <4>1. "overtaken" \notin Overtaking(q)
          BY <1>1 DEF Exchange, Smooth
        <4>2. \A o \in requests : o.to = "selector" => o = q
          BY <1>1, <3>2, <3>3, <4>1, NotOvertaking
        <4>3. ~Asked("selector")'
          BY <3>1, <4>2 DEF Asked
        <4>4. s = sel'
          BY <1>2, <3>2, <3>3, NoneAssumption
        <4> QED
          BY <3>1, <4>3, <4>4 DEF SelectorOf
      <3>4. CASE p # q
        <4>1. p \in requests' /\ Newest(p, "selector")'
          BY <1>1, <3>1, <3>2, <3>4, NewestStays DEF Ordered
        <4> QED
          BY <3>1, <3>2, <4>1 DEF SelectorOf, Asked, Newest
      <3> QED
        BY <3>3, <3>4
    <2> QED
      BY <2>1, <2>2
  <1> QED
    BY <1>6, <1>7 DEF SelectorInv

LEMMA ContentKeepsSelector ==
    ASSUME PageInv, NamedInv, SelectorInv, sel # None, NEW q \in requests, ShowContent(q)
    PROVE  NamedInv' /\ SelectorInv'
  <1> DEFINE r == Request("power", "load", "toggle", q.server)
             c == Request("commands", "load", "tab", q.server)
             reloads == IF \E p \in requests : p.what = "setPower" THEN {"reloaded"} ELSE {}
             names == Overtaking(q) \cup reloads
  <1>1. /\ Exchange({q}, Within.content, {r, c}, names) /\ q.to = "content"
        /\ sel' = sel /\ content' = q.server
    BY DEF ShowContent
  <1>2. /\ r.what = "power" /\ r.to = "toggle" /\ c.what = "commands" /\ c.to = "tab"
        /\ r.by = "load" /\ c.by = "load"
        /\ "selector" \notin Within.content /\ "content" \notin Within.content
    BY RequestIsFormed DEF Within
  <1>3. "overtaken" \in Overtaking(q) => "overtaken" \in names
    OBVIOUS
  <1> HIDE DEF r, c, names
  <1>4. \A p \in {r, c} : /\ WellNamed(p) /\ ~OfBody(p) /\ p.what # "selector"
                          /\ p.to \notin {"selector", "content"}
    BY <1>2 DEF WellNamed, OfBody
  <1>5. NamedInv'
    <2>1. AtMostOne({p \in {r, c} : OfBody(p)})
      BY <1>4 DEF AtMostOne
    <2> QED
      BY <1>1, <1>2, <1>4, <2>1, NamedStays
  <1> SUFFICES ASSUME Smooth' PROVE SelectorInv'
    BY <1>5 DEF SelectorInv
  <1>6. Smooth
    BY <1>1, <1>2, ExchangeOfNamed
  <1>7. PICK s \in Servers : ContentOf(s) /\ SelectorOf(s)
    BY <1>6 DEF SelectorInv
  <1>8. SelectorOf(s)'
    <2>1. \A p \in {q} : p.to # "selector"
      BY <1>1
    <2> QED
      BY <1>1, <1>2, <1>4, <1>7, <2>1, SelectorStays
  <1>9. ContentOf(s)'
    <2>1. \A p \in requests' : p.to = "content" => p \in requests \ {q}
      <3>1. \A p \in requests' : p.to = "content" => p \in (requests \ {q}) \cup queued \cup {r, c}
        BY <1>1, <1>2, ExchangeOfNamed DEF Ordered
      <3> QED
        BY <1>4, <3>1 DEF NamedInv
    <2>2. PICK p \in requests : p.server = s /\ Newest(p, "content")
      BY <1>1, <1>7 DEF ContentOf, Asked
    <2>3. CASE p = q
      <3>1. "overtaken" \notin Overtaking(q)
        BY <1>1, <1>3 DEF Exchange, Smooth
      <3>2. \A o \in requests : o.to = "content" => o = q
        BY <1>1, <2>2, <2>3, <3>1, NotOvertaking
      <3> QED
        BY <1>1, <2>1, <2>2, <2>3, <3>2 DEF ContentOf, Asked
    <2>4. CASE p # q
      <3>1. p \in requests' /\ Newest(p, "content")'
        BY <1>1, <1>2, <2>1, <2>2, <2>4, NewestStays DEF Ordered
      <3> QED
        BY <2>2, <3>1 DEF ContentOf, Asked, Newest
    <2> QED
      BY <2>3, <2>4
  <1> QED
    BY <1>8, <1>9 DEF SelectorInv

LEMMA ShowKeepsSelector ==
    ASSUME PageInv, NamedInv, SelectorInv, NEW q \in requests, Show(q)
    PROVE  NamedInv' /\ SelectorInv'
  <1>1. sel = None => q.to = "selector"
    BY RequestIsFormed DEF NamedInv, Unopened, Poll
  <1>2. CASE ShowSelector(q)
    BY <1>2, FirstSelectorKeeps, LaterSelectorKeeps
  <1>3. CASE ShowContent(q)
    BY <1>1, <1>3, ContentKeepsSelector DEF ShowContent
  <1>4. ASSUME NEW gone, NEW new, Exchange({q}, gone, new, {}), AtMostOne(new),
               "selector" \notin gone, "content" \notin gone,
               UNCHANGED <<sel, content>>, q.to \notin {"selector", "content"},
               \A p \in new : p.what # "selector" /\ p.to \notin {"selector", "content"}
        PROVE  NamedInv' /\ SelectorInv'
    <2>1. AtMostOne({p \in new : OfBody(p)})
      BY <1>4 DEF AtMostOne
    <2> QED
      BY <1>1, <1>4, <2>1, ElsewhereKeepsSelector
  <1>5. CASE \/ ShowToggle(q) \/ ShowForm(q) \/ ShowOptions(q) \/ ShowPart(q) \/ ShowDeleted(q)
             \/ Ignored(q)
    <2>1. /\ Exchange({q}, {}, {}, {}) /\ q.to \notin {"selector", "content"}
          /\ UNCHANGED <<sel, content>>
      BY <1>5 DEF ShowToggle, ShowForm, ShowOptions, ShowPart, ShowDeleted, Ignored, pageVars
    <2> QED
      BY <1>4, <2>1 DEF AtMostOne
  <1>6. CASE ShowTab(q)
    <2> DEFINE new == IF q.what = "players" THEN {Options(q.server)} ELSE {}
    <2>1. \A p \in new : p.what # "selector" /\ p.to \notin {"selector", "content"}
      BY RequestIsFormed DEF Options
    <2>2. AtMostOne(new)
      BY DEF AtMostOne
    <2>3. /\ Exchange({q}, Within.tab, new, {}) /\ q.to \notin {"selector", "content"}
          /\ UNCHANGED <<sel, content>>
      BY <1>6 DEF ShowTab
    <2>4. "selector" \notin Within.tab /\ "content" \notin Within.tab
      BY DEF Within
    <2> HIDE DEF new
    <2> QED
      BY <1>4, <2>1, <2>2, <2>3, <2>4
  <1>7. CASE Saved(q)
    <2> DEFINE r == Request("manage", "body", "tab", script.server)
    <2>1. PICK new \in {{}, {r}} : Exchange({q}, {}, new, {})
      BY <1>7 DEF Saved
    <2>2. r.what # "selector" /\ r.to \notin {"selector", "content"}
      BY RequestIsFormed
    <2> HIDE DEF r
    <2>3. AtMostOne(new)
      BY <2>1 DEF AtMostOne
    <2> QED
      BY <1>4, <1>7, <2>1, <2>2, <2>3 DEF Saved
  <1> QED
    BY <1>2, <1>3, <1>5, <1>6, <1>7 DEF Show

LEMMA FailKeepsSelector ==
    ASSUME PageInv, NamedInv, NEW q \in requests, Fail(q)
    PROVE  NamedInv' /\ SelectorInv'
  <1>1. Exchange({q}, {}, {}, {"failed"}) /\ UNCHANGED <<sel, content, toggle, tab>>
    BY DEF Fail, pageVars
  <1>2. ~Smooth'
    BY <1>1 DEF Exchange, Smooth
  <1>3. ASSUME sel = None
        PROVE  Known' \subseteq requests /\ queued' = {}
    <2>1. queued = {}
      BY <1>3 DEF NamedInv, Unopened
    <2>2. queued' = {}
      BY <1>1, <2>1 DEF Exchange, Without
    <2>3. ASSUME NEW p \in requests' PROVE p \in requests
      <3>1. \/ p \in {} \/ p \in (requests \ {q}) \cup queued
            \/ \E o \in (requests \ {q}) \cup queued : o.to \in {}
        BY <1>1, ExchangeKeeps
      <3> QED
        BY <2>1, <3>1
    <2> QED
      BY <2>2, <2>3 DEF Known
  <1>4. sel' = None => Unopened'
    BY <1>1, <1>3 DEF NamedInv, Unopened, Known
  <1>5. NamedInv'
    <2>1. AtMostOne({p \in {} : OfBody(p)})
      BY DEF AtMostOne
    <2> QED
      BY <1>1, <1>4, <2>1, NamedStays
  <1> QED
    BY <1>2, <1>5 DEF SelectorInv

LEMMA SelectorKept == PageInv /\ NamedInv /\ SelectorInv /\ [Next]_vars => NamedInv' /\ SelectorInv'
  <1> SUFFICES ASSUME PageInv, NamedInv, SelectorInv, [Next]_vars PROVE NamedInv' /\ SelectorInv'
    OBVIOUS
  <1>1. CASE RefreshOptions
    <2>1. /\ Exchange({}, {}, {Options(tab.server)}, {})
          /\ tab.kind # "none" /\ UNCHANGED <<sel, content>>
      BY <1>1 DEF RefreshOptions, Send, pageVars
    <2>2. Options(tab.server).what = "options" /\ Options(tab.server).to = "part"
      BY RequestIsFormed DEF Options
    <2>3. sel # None /\ AtMostOne({q \in {Options(tab.server)} : OfBody(q)})
      BY <2>1 DEF NamedInv, Unopened, AtMostOne
    <2> QED
      BY <2>1, <2>2, <2>3, ElsewhereKeepsSelector
  <1>2. CASE OtherUser \/ UNCHANGED vars
    BY <1>2, SmallStepsKeepSelector
       DEF OtherUser, vars, pageVars, historyVars, Smooth
  <1> QED
    BY <1>1, <1>2, PollKeepsSelector, UserKeepsSelector, ServeKeepsSelector, ShowKeepsSelector,
       FailKeepsSelector DEF Next

LEMMA SelectorStart == Init => NamedInv /\ SelectorInv
  <1> SUFFICES ASSUME Init PROVE NamedInv /\ SelectorInv
    OBVIOUS
  <1> DEFINE r == Poll(None)
  <1>1. sel = None /\ Known = {r} /\ queued = {} /\ Unopened
    BY DEF Init, Known, Unopened
  <1>2. r.what = "selector" /\ r.to = "selector"
    BY RequestIsFormed DEF Poll
  <1> HIDE DEF r
  <1> QED
    BY <1>1, <1>2 DEF NamedInv, SelectorInv, WellNamed, AtMostOne

-----------------------------------------------------------------------------
(* The theorems. *)

LEMMA PageInvariant == Spec => [](PageInv /\ ChoiceInv /\ SettingsInv /\ ToggleInv)
  <1>1. Init => ChoiceInv
    BY DEF Init, ChoiceInv
  <1> QED
    BY <1>1, PageStart, SettingsStart, ToggleStart, PageKept, ChoiceKept, SettingsKept, ToggleKept,
       PTL DEF Spec

\* Every variable has its type.
THEOREM PageTypesHold == Spec => []TypeOK
  <1>1. PageInv => TypeOK
    BY DEF PageInv, PageTypes
  <1> QED
    BY <1>1, PageInvariant, PTL

\* What the parts of the page offer is of the server whose name stands above them, and what
\* Save changes is what the form shows (pages_templ.go:259-509, 1881-2056).
THEOREM PartsAreOfOneServer == Spec => []PartsBelongTogether
  <1>1. PageInv => PartsBelongTogether
    BY DEF PageInv
  <1> QED
    BY <1>1, PageInvariant, PTL

\* The toggle names the desired state, unless somebody else changed it, a request failed, or
\* the page was reloaded during a change (power.go:32-125).
THEOREM ToggleIsDesired == Spec => []ToggleShowsDesired
  <1>1. ToggleInv => ToggleShowsDesired
    BY DEF ToggleInv, Calm, ToggleShowsDesired, Quiet
  <1> QED
    BY <1>1, PageInvariant, PTL

\* The selector names the server that the page is of when nothing is under way, however many
\* requests for the two were, unless an answer overtook an earlier one, the timer asked for the
\* old server, a button was clicked again, a request failed, or the refresh after a save took the
\* selector's place in the queue (pages_templ.go:59-62, 150-225).
THEOREM SelectorIsOfContent == Spec => []SelectorNamesContent
  <1>1. PageInv /\ NamedInv /\ SelectorInv => SelectorNamesContent
    <2> SUFFICES ASSUME NamedInv, SelectorInv, Quiet, Smooth PROVE sel = content
      BY DEF SelectorNamesContent, Smooth
    <2>1. CASE sel = None
      BY <2>1 DEF NamedInv, Unopened
    <2>2. CASE sel # None
      BY <2>2 DEF SelectorInv, ContentOf, SelectorOf, Asked, Waiting, Quiet
    <2> QED
      BY <2>1, <2>2
  <1>2. Spec => [](PageInv /\ NamedInv /\ SelectorInv)
    BY PageInvariant, SelectorStart, SelectorKept, PTL DEF Spec
  <1> QED
    BY <1>1, <1>2, PTL

\* A command goes to the server that is shown and the player that was chosen, unless the
\* list was replaced meanwhile (pages_templ.go:1373-1580).
THEOREM CommandsGoToChoice == Spec => CommandGoesToChoice
  <1>1. PageInv /\ ChoiceInv =>
          \A command \in [server : Servers \cup {None}, player : Players \cup {None}] :
             Execute(command) =>
               /\ command.server = content
               /\ tab.kind = "players" /\ part.chosen # None =>
                    part.replaced \/ command.player = part.chosen
    BY DEF PageInv, PartsBelongTogether, ChoiceInv, Execute, Posted
  <1>2. PageInv /\ ChoiceInv =>
          [\A command \in [server : Servers \cup {None}, player : Players \cup {None}] :
             Execute(command) =>
               /\ command.server = content
               /\ tab.kind = "players" /\ part.chosen # None =>
                    part.replaced \/ command.player = part.chosen]_vars
    BY <1>1
  <1> QED
    BY <1>2, PageInvariant, PTL DEF CommandGoesToChoice

\* A save leaves the coordinates alone that the user did not edit, unless its form was filled
\* by a read that failed or preceded another save (partials.go:188-245).
THEOREM SettingsStay == Spec => UneditedSettingsStay
  <1>1. PageInv /\ SettingsInv =>
          \A q \in requests :
            ~q.served /\ SaveServerSettings(q)
              /\ mishaps \cap {"misread", "outdated", "foreign"} = {}
            => \A f \in Fields \ q.form.edited : settings'[q.server][f] = settings[q.server][f]
    <2> SUFFICES ASSUME PageInv, SettingsInv, NEW q \in requests, ~q.served,
                        SaveServerSettings(q), Undisturbed,
                        NEW f \in Fields \ q.form.edited
                 PROVE  settings'[q.server][f] = settings[q.server][f]
      BY DEF Undisturbed
    <2>1. IsSave(q) /\ q.server \in Servers
      BY DEF SaveServerSettings, PageInv, Known, Served, IsSave
    <2>2. q.form.values[f] = settings[q.server][f]
      BY <2>1 DEF SettingsInv, Agrees
    <2>3. settings'[q.server] = q.form.values
      BY <2>1 DEF SaveServerSettings, PageInv, PageTypes, TypeOK
    <2> QED
      BY <2>2, <2>3
  <1>2. PageInv /\ SettingsInv =>
          [\A q \in requests :
            ~q.served /\ SaveServerSettings(q)
              /\ mishaps \cap {"misread", "outdated", "foreign"} = {}
            => \A f \in Fields \ q.form.edited : settings'[q.server][f] = settings[q.server][f]]_vars
    BY <1>1
  <1> QED
    BY <1>2, PageInvariant, PTL DEF UneditedSettingsStay
=============================================================================

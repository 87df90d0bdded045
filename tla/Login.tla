-------------------------------- MODULE Login --------------------------------
(***************************************************************************)
(* Login, session and logout (internal/auth, internal/handlers/handlers.go *)
(* 277-363).  The server keeps nothing between two requests: all state is  *)
(* in the cookies of the browser, which several tabs share.  A request     *)
(* carries the cookies as they were when it was sent, a response changes   *)
(* them when it arrives, and in between the other tabs go on.              *)
(*                                                                         *)
(* The provider is external: it lets the user log in as somebody and hands *)
(* out a code that can be exchanged only with the verifier whose challenge *)
(* was in the authorization URL.                                           *)
(*                                                                         *)
(* An operator named Mutant_X is a plausible error in the definition below *)
(* it; no action uses one.                                                 *)
(***************************************************************************)
EXTENDS Naturals, FiniteSets

CONSTANTS
    Tabs,          \* tabs, or requests of one page, of one browser
    Users,         \* accounts at the provider
    AllowedEmails, \* the users that the allowlist lets in
    AdminEmails,   \* the users in auth.admin.email_allowlist
    RolesClaim,    \* what a user's "roles" claim is: "absent", "other", "value" (the
                   \* configured value itself) or "list" (a list that contains it)
    MaxVerifiers,  \* bound: verifiers ever generated
    Expiry,        \* session_expiry
    MaxTime,       \* bound: the clock
    Keep           \* a response that leaves a cookie alone

ASSUME UsersAssumption ==
    /\ AllowedEmails \subseteq Users /\ AdminEmails \subseteq Users
    /\ RolesClaim \in [Users -> {"absent", "other", "value", "list"}]
ASSUME BoundsAssumption ==
    MaxVerifiers \in Nat \ {0} /\ Expiry \in Nat \ {0} /\ MaxTime \in Nat

VARIABLES
    pkce,       \* the browser's pkce_verifier cookie; 0 when there is none
    session,    \* its session cookie, or NoSession
    stage,      \* of each tab
    sent,       \* the verifier that the tab's last request carried
    carried,    \* the session that it carried
    challenge,  \* the verifier behind the tab's authorization URL
    setPkce,    \* the verifier cookie in the response under way, or Keep
    setSession, \* the session cookie in the response under way, or Keep
    user,       \* who logged in at the provider in this tab
    outcome,    \* what the tab shows: "none", "in", "denied", "failed", "error" (the
                \* provider's), "page" or "login"
    verifiers,  \* verifiers generated so far
    now,
    earned,     \* history: the sessions that a completed login has created
    disturbed   \* history: tabs whose flow has met another tab's cookie, or its expiry

cookieVars == <<pkce, session>>
tabVars    == <<stage, sent, carried, challenge, setPkce, setSession, user, outcome>>
history    == <<earned, disturbed>>
vars       == <<cookieVars, tabVars, verifiers, now, history>>

NoSession == [user |-> "nobody", role |-> "none", until |-> 0]

Sessions == [user : Users, role : {"admin", "viewer"}, until : Nat]

ASSUME KeepAssumption == Keep \notin Nat /\ Keep \notin Sessions /\ Keep # NoSession

Init ==
    /\ pkce = 0
    /\ session = NoSession
    /\ stage = [t \in Tabs |-> "idle"]
    /\ sent = [t \in Tabs |-> 0]
    /\ carried = [t \in Tabs |-> NoSession]
    /\ challenge = [t \in Tabs |-> 0]
    /\ setPkce = [t \in Tabs |-> Keep]
    /\ setSession = [t \in Tabs |-> Keep]
    /\ user = [t \in Tabs |-> "nobody"]
    /\ outcome = [t \in Tabs |-> "none"]
    /\ verifiers = 0
    /\ now = 0
    /\ earned = {}
    /\ disturbed = {}

-----------------------------------------------------------------------------
(* The browser. *)

\* A request to /auth/login, to /auth/logout or to a protected page.
Ask(t, kind) ==
    /\ stage[t] = "idle"
    /\ kind = "login" =>
         verifiers + Cardinality({u \in Tabs : stage[u] = "login"}) < MaxVerifiers
    /\ stage' = [stage EXCEPT ![t] = kind]
    /\ sent' = [sent EXCEPT ![t] = pkce]
    /\ carried' = [carried EXCEPT ![t] = session]
    /\ outcome' = [outcome EXCEPT ![t] = "none"]
    /\ disturbed' = disturbed \ {t}
    /\ UNCHANGED <<cookieVars, challenge, setPkce, setSession, user, verifiers, now, earned>>

\* Tabs that are on their way to a callback and need the cookie they know.
InFlow(t) == stage[t] \in {"login", "redirected", "provider", "callback"}

SetCookies(t) ==
    /\ pkce' = IF setPkce[t] = Keep THEN pkce ELSE setPkce[t]
    /\ session' = IF setSession[t] = Keep THEN session ELSE setSession[t]
    /\ setPkce' = [setPkce EXCEPT ![t] = Keep]
    /\ setSession' = [setSession EXCEPT ![t] = Keep]
    /\ disturbed' = IF setPkce[t] = Keep THEN disturbed
                    ELSE disturbed \cup {u \in Tabs \ {t} : InFlow(u)}

\* The redirect to the provider arrives.
FollowRedirect(t) ==
    /\ stage[t] = "redirected"
    /\ SetCookies(t)
    /\ stage' = [stage EXCEPT ![t] = "provider"]
    /\ UNCHANGED <<sent, carried, challenge, user, outcome, verifiers, now, earned>>

\* The provider's redirect to /auth/callback arrives.
CallBack(t) ==
    /\ stage[t] = "provider"
    /\ \E u \in Users : user' = [user EXCEPT ![t] = u]
    /\ sent' = [sent EXCEPT ![t] = pkce]
    /\ carried' = [carried EXCEPT ![t] = session]
    /\ stage' = [stage EXCEPT ![t] = "callback"]
    /\ UNCHANGED <<cookieVars, challenge, setPkce, setSession, outcome, verifiers, now, history>>

\* The last response of a flow arrives.
Finish(t) ==
    /\ stage[t] = "answered"
    /\ SetCookies(t)
    /\ stage' = [stage EXCEPT ![t] = "idle"]
    /\ UNCHANGED <<sent, carried, challenge, user, outcome, verifiers, now, earned>>

\* The tab is closed or goes elsewhere; a response under way still sets its
\* cookies, so it has to arrive first.
Abandon(t) ==
    /\ stage[t] = "provider"
    /\ stage' = [stage EXCEPT ![t] = "idle"]
    /\ UNCHANGED <<cookieVars, sent, carried, challenge, setPkce, setSession, user, outcome,
                   verifiers, now, history>>

\* The verifier cookie lives for 600 seconds.
VerifierExpires ==
    /\ pkce # 0
    /\ pkce' = 0
    /\ disturbed' = disturbed \cup {t \in Tabs : InFlow(t)}
    /\ UNCHANGED <<session, tabVars, verifiers, now, earned>>

\* The session cookie goes at the end of its Max-Age, which the browser counts
\* from the arrival of the response.
Tick ==
    /\ now < MaxTime
    /\ now' = now + 1
    /\ \/ UNCHANGED session
       \/ session.until <= now' /\ session' = NoSession
    /\ UNCHANGED <<pkce, tabVars, verifiers, history>>

-----------------------------------------------------------------------------
(* The handlers. *)

Answer(t, verifier, cookie, shown) ==
    /\ stage' = [stage EXCEPT ![t] = "answered"]
    /\ setPkce' = [setPkce EXCEPT ![t] = verifier]
    /\ setSession' = [setSession EXCEPT ![t] = cookie]
    /\ outcome' = [outcome EXCEPT ![t] = shown]

Mutant_AuthCodeURL(t) ==
    /\ verifiers' = verifiers + 1
    /\ challenge' = [challenge EXCEPT ![t] = verifiers']
    /\ setPkce' = [setPkce EXCEPT ![t] = IF sent[t] = 0 THEN verifiers' ELSE Keep]

\* A verifier that came with the request is used again.
AuthCodeURL(t) ==
    IF sent[t] # 0
    THEN /\ challenge' = [challenge EXCEPT ![t] = sent[t]]
         /\ UNCHANGED <<verifiers, setPkce>>
    ELSE /\ verifiers' = verifiers + 1
         /\ challenge' = [challenge EXCEPT ![t] = verifiers']
         /\ setPkce' = [setPkce EXCEPT ![t] = verifiers']

Login(t) ==
    /\ stage[t] = "login"
    /\ AuthCodeURL(t)
    /\ stage' = [stage EXCEPT ![t] = "redirected"]
    /\ UNCHANGED <<cookieVars, sent, carried, setSession, user, outcome, now, history>>

Mutant_IsAllowed(u) == TRUE

IsAllowed(u) == u \in AllowedEmails

Mutant_DetermineRole(u) ==
    IF RolesClaim[u] = "value" \/ u \in AdminEmails THEN "admin" ELSE "none"

\* The claim is compared with the configured value as a whole.
DetermineRole(u) ==
    IF RolesClaim[u] = "value" \/ u \in AdminEmails THEN "admin" ELSE "viewer"

NewSession(u) == [user |-> u, role |-> DetermineRole(u), until |-> now + Expiry]

\* HandleCallback and CreateSession.  The verifier cookie is cleared before
\* the exchange, whatever comes of it, but not when there was none.  The
\* provider may fail as well: its token, its claims or the line to it.
Callback(t) ==
    /\ stage[t] = "callback"
    /\ \/ /\ sent[t] = 0
          /\ Answer(t, Keep, Keep, "failed")
          /\ UNCHANGED earned
       \/ /\ sent[t] # 0 /\ sent[t] # challenge[t]
          /\ Answer(t, 0, Keep, "failed")
          /\ UNCHANGED earned
       \/ /\ sent[t] # 0 /\ sent[t] = challenge[t] /\ ~IsAllowed(user[t])
          /\ Answer(t, 0, Keep, "denied")
          /\ UNCHANGED earned
       \/ /\ sent[t] # 0 /\ sent[t] = challenge[t] /\ IsAllowed(user[t])
          /\ Answer(t, 0, NewSession(user[t]), "in")
          /\ earned' = earned \cup {NewSession(user[t])}
       \/ /\ sent[t] # 0
          /\ Answer(t, 0, Keep, "error")
          /\ UNCHANGED earned
    /\ UNCHANGED <<cookieVars, sent, carried, challenge, user, verifiers, now, disturbed>>

Logout(t) ==
    /\ stage[t] = "logout"
    /\ Answer(t, Keep, NoSession, "none")
    /\ UNCHANGED <<cookieVars, sent, carried, challenge, user, verifiers, now, history>>

Mutant_Valid(s) == s # NoSession

Valid(s) == s # NoSession /\ now <= s.until

\* RequireAuth: the page, or a redirect to /auth/login.
Page(t) ==
    /\ stage[t] = "page"
    /\ Answer(t, Keep, Keep, IF Valid(carried[t]) THEN "page" ELSE "login")
    /\ UNCHANGED <<cookieVars, sent, carried, challenge, user, verifiers, now, history>>

-----------------------------------------------------------------------------
Next ==
    \/ \E t \in Tabs :
         \/ \E kind \in {"login", "logout", "page"} : Ask(t, kind)
         \/ FollowRedirect(t) \/ CallBack(t) \/ Finish(t) \/ Abandon(t)
         \/ Login(t) \/ Callback(t) \/ Logout(t) \/ Page(t)
    \/ VerifierExpires \/ Tick

Spec == Init /\ [][Next]_vars

-----------------------------------------------------------------------------
(* Safety. *)

\* Every variable has its type.
TypeOK ==
    /\ pkce \in Nat
    /\ session \in Sessions \cup {NoSession}
    /\ stage \in [Tabs -> {"idle", "login", "redirected", "provider", "callback",
                           "logout", "page", "answered"}]
    /\ sent \in [Tabs -> Nat]
    /\ carried \in [Tabs -> Sessions \cup {NoSession}]
    /\ challenge \in [Tabs -> Nat]
    /\ setPkce \in [Tabs -> Nat \cup {Keep}]
    /\ setSession \in [Tabs -> Sessions \cup {NoSession, Keep}]
    /\ user \in [Tabs -> Users \cup {"nobody"}]
    /\ outcome \in [Tabs -> {"none", "in", "denied", "failed", "error", "page", "login"}]
    /\ verifiers \in Nat
    /\ now \in 0..MaxTime
    /\ earned \subseteq Sessions
    /\ disturbed \subseteq Tabs

\* Wherever a session is, in the browser, in a request or in a response, it was
\* created by a completed login of a user on the allowlist, whatever other tabs
\* logged in and out meanwhile (middleware.go:145-223, session.go:39-57).
SessionsAreEarned ==
    /\ ({session} \cup {carried[t] : t \in Tabs} \cup {setSession[t] : t \in Tabs})
         \subseteq earned \cup {NoSession, Keep}
    /\ \A s \in earned : s.user \in AllowedEmails

\* A login fails for want of the right verifier only if another tab's response
\* has changed the cookie while it was under way, or the cookie has expired: the
\* verifier is never what is wrong with a flow on its own (middleware.go:119-169).
FailureNeedsDisturbance ==
    \A t \in Tabs : outcome[t] = "failed" => t \in disturbed

\* A response that has been taken, or was not given yet, sets no cookie.
OnlyResponsesSet ==
    \A t \in Tabs :
        /\ stage[t] \notin {"redirected", "answered"} => setPkce[t] = Keep
        /\ stage[t] # "answered" => setSession[t] = Keep

\* At each stage of a flow that nothing came between, the verifier behind its
\* authorization URL is the one that its callback will carry, or carries.
FlowHasVerifier ==
    \A t \in Tabs \ disturbed :
        /\ stage[t] = "login" => sent[t] = pkce
        /\ stage[t] = "redirected" =>
             challenge[t] # 0 /\ challenge[t] = IF setPkce[t] = Keep THEN pkce ELSE setPkce[t]
        /\ stage[t] = "provider" => challenge[t] # 0 /\ challenge[t] = pkce
        /\ stage[t] = "callback" => challenge[t] # 0 /\ challenge[t] = sent[t]

\* What every step keeps (middleware.go:119-223).
IInv == SessionsAreEarned /\ FailureNeedsDisturbance /\ OnlyResponsesSet /\ FlowHasVerifier

\* A protected page is shown only for a session that a login created less than
\* session_expiry ago, also when the browser still had the cookie or the
\* request was on its way when it ended (session.go:60-95, middleware.go:96-111).
PagesNeedLiveSession ==
    [][\A t \in Tabs :
         outcome[t] # "page" /\ outcome'[t] = "page"
            => \E s \in earned : s = carried[t] /\ now <= s.until]_vars

-----------------------------------------------------------------------------
(* What the documentation says and the code does not do. *)

\* The comment at middleware.go:119: concurrent hits of /auth/login do not
\* invalidate a flow.  It does not hold for two that were sent before either
\* had the cookie.
LoginsDoNotDisturb ==
    [][\A t, u \in Tabs :
         t # u /\ stage[t] = "provider" /\ pkce = challenge[t]
            /\ stage[u] = "redirected" /\ stage'[u] = "provider"
            => pkce' = pkce]_vars
=============================================================================

----------------------------- MODULE LoginProofs -----------------------------
(***************************************************************************)
(* Proofs about Login for any number of tabs, any users and allowlist, any *)
(* number of verifiers and any expiry.                                     *)
(***************************************************************************)
EXTENDS Login, TLAPS

SessionCookies == Sessions \cup {NoSession}

-----------------------------------------------------------------------------
(* Types. *)

\* The cookies of a response (session.go:37-57, 97-104; middleware.go:129-161).
LEMMA CookieTypes ==
  ASSUME TypeOK, NEW t \in Tabs, SetCookies(t)
  PROVE  /\ pkce' \in Nat
         /\ session' \in SessionCookies
         /\ setPkce' \in [Tabs -> Nat \cup {Keep}]
         /\ setSession' \in [Tabs -> SessionCookies \cup {Keep}]
         /\ disturbed' \subseteq Tabs
  BY DEF TypeOK, SetCookies, SessionCookies

LEMMA NewSessionTyped ==
  ASSUME TypeOK, NEW u \in Users
  PROVE  NewSession(u) \in Sessions
  <1>1. DetermineRole(u) \in {"admin", "viewer"}
    BY DEF DetermineRole
  <1>2. now + Expiry \in Nat
    BY BoundsAssumption DEF TypeOK
  <1> QED
    BY <1>1, <1>2 DEF NewSession, Sessions

\* A user on the allowlist is a user.
LEMMA AllowedUser ==
  ASSUME NEW u, IsAllowed(u)
  PROVE  u \in Users
  BY UsersAssumption DEF IsAllowed

LEMMA TypeInit == Init => TypeOK
  BY BoundsAssumption DEF Init, TypeOK

LEMMA TypeStep == TypeOK /\ [Next]_vars => TypeOK'
  <1> SUFFICES ASSUME TypeOK, [Next]_vars PROVE TypeOK'
    OBVIOUS
  <1> USE BoundsAssumption DEF TypeOK
  <1>1. ASSUME NEW t \in Tabs, NEW kind \in {"login", "logout", "page"}, Ask(t, kind)
        PROVE  TypeOK'
    BY <1>1 DEF Ask, cookieVars
  <1>2. ASSUME NEW t \in Tabs, FollowRedirect(t) PROVE TypeOK'
    BY <1>2, CookieTypes DEF FollowRedirect, SessionCookies
  <1>3. ASSUME NEW t \in Tabs, CallBack(t) PROVE TypeOK'
    BY <1>3 DEF CallBack, cookieVars, history
  <1>4. ASSUME NEW t \in Tabs, Finish(t) PROVE TypeOK'
    BY <1>4, CookieTypes DEF Finish, SessionCookies
  <1>5. ASSUME NEW t \in Tabs, Abandon(t) PROVE TypeOK'
    BY <1>5 DEF Abandon, cookieVars, history
  <1>6. ASSUME NEW t \in Tabs, Login(t) PROVE TypeOK'
    <2>1. /\ verifiers' \in Nat
          /\ challenge' \in [Tabs -> Nat]
          /\ setPkce' \in [Tabs -> Nat \cup {Keep}]
      BY <1>6 DEF Login, AuthCodeURL
    <2> QED
      BY <1>6, <2>1 DEF Login, cookieVars, history
  <1>7. ASSUME NEW t \in Tabs, Callback(t) PROVE TypeOK'
    <2>1. /\ stage' = [stage EXCEPT ![t] = "answered"]
          /\ setPkce' \in [Tabs -> Nat \cup {Keep}]
          /\ outcome' \in [Tabs -> {"none", "in", "denied", "failed", "error", "page", "login"}]
      BY <1>7 DEF Callback, Answer
    <2>2. CASE IsAllowed(user[t]) /\ Answer(t, 0, NewSession(user[t]), "in")
               /\ earned' = earned \cup {NewSession(user[t])}
      <3>1. NewSession(user[t]) \in Sessions
        BY <2>2, AllowedUser, NewSessionTyped
      <3> QED
        BY <1>7, <2>1, <2>2, <3>1 DEF Callback, Answer, cookieVars
    <2>3. CASE /\ setSession' = [setSession EXCEPT ![t] = Keep]
               /\ UNCHANGED earned
      BY <1>7, <2>1, <2>3 DEF Callback, cookieVars
    <2> QED
      BY <1>7, <2>2, <2>3 DEF Callback, Answer
  <1>8. ASSUME NEW t \in Tabs, Logout(t) PROVE TypeOK'
    BY <1>8 DEF Logout, Answer, cookieVars, history
  <1>9. ASSUME NEW t \in Tabs, Page(t) PROVE TypeOK'
    BY <1>9 DEF Page, Answer, cookieVars, history
  <1>10. CASE VerifierExpires
    BY <1>10 DEF VerifierExpires, tabVars
  <1>11. CASE Tick
    BY <1>11 DEF Tick, tabVars, history
  <1>12. CASE UNCHANGED vars
    BY <1>12 DEF vars, cookieVars, tabVars, history
  <1> QED
    BY <1>1, <1>2, <1>3, <1>4, <1>5, <1>6, <1>7, <1>8, <1>9, <1>10, <1>11, <1>12 DEF Next

-----------------------------------------------------------------------------
(* Sessions. *)

Earned(c) == c \in earned \cup {NoSession, Keep}

LEMMA EarnedMeans ==
  SessionsAreEarned <=>
    /\ Earned(session)
    /\ \A t \in Tabs : Earned(carried[t]) /\ Earned(setSession[t])
    /\ \A s \in earned : s.user \in AllowedEmails
  BY DEF SessionsAreEarned, Earned

\* Only Callback makes a session, and only for a user on the allowlist.
LEMMA EarnedStep == TypeOK /\ SessionsAreEarned /\ [Next]_vars => SessionsAreEarned'
  <1> SUFFICES ASSUME TypeOK, SessionsAreEarned, [Next]_vars
               PROVE  /\ Earned(session)'
                      /\ \A t \in Tabs : Earned(carried[t])' /\ Earned(setSession[t])'
                      /\ \A s \in earned' : s.user \in AllowedEmails
    BY DEF SessionsAreEarned, Earned
  <1>0. /\ Earned(session)
        /\ \A t \in Tabs : Earned(carried[t]) /\ Earned(setSession[t])
        /\ \A s \in earned : s.user \in AllowedEmails
    BY EarnedMeans
  <1> DEFINE Goal == /\ Earned(session)'
                     /\ \A t \in Tabs : Earned(carried[t])' /\ Earned(setSession[t])'
                     /\ \A s \in earned' : s.user \in AllowedEmails
  <1> USE <1>0 DEF TypeOK, Earned
  <1>1. ASSUME NEW t \in Tabs, NEW kind \in {"login", "logout", "page"}, Ask(t, kind) PROVE Goal
    BY <1>1 DEF Ask, cookieVars
  <1>2. ASSUME NEW t \in Tabs, FollowRedirect(t) \/ Finish(t) PROVE Goal
    BY <1>2 DEF FollowRedirect, Finish, SetCookies
  <1>3. ASSUME NEW t \in Tabs, CallBack(t) PROVE Goal
    BY <1>3 DEF CallBack, cookieVars, history
  <1>4. ASSUME NEW t \in Tabs, Abandon(t) \/ Login(t) PROVE Goal
    BY <1>4 DEF Abandon, Login, cookieVars, history
  <1>5. ASSUME NEW t \in Tabs, Callback(t) PROVE Goal
    <2>1. CASE IsAllowed(user[t]) /\ Answer(t, 0, NewSession(user[t]), "in")
               /\ earned' = earned \cup {NewSession(user[t])}
      <3>1. NewSession(user[t]).user \in AllowedEmails
        BY <2>1 DEF NewSession, IsAllowed
      <3> HIDE DEF NewSession
      <3> QED
        BY <1>5, <2>1, <3>1 DEF Callback, Answer, cookieVars
    <2>2. CASE setSession' = [setSession EXCEPT ![t] = Keep] /\ UNCHANGED earned
      BY <1>5, <2>2 DEF Callback, cookieVars
    <2> QED
      BY <1>5, <2>1, <2>2 DEF Callback, Answer
  <1>6. ASSUME NEW t \in Tabs, Logout(t) \/ Page(t) PROVE Goal
    BY <1>6 DEF Logout, Page, Answer, cookieVars, history
  <1>7. CASE VerifierExpires \/ Tick \/ UNCHANGED vars
    BY <1>7 DEF VerifierExpires, Tick, vars, cookieVars, tabVars, history
  <1> QED
    BY <1>1, <1>2, <1>3, <1>4, <1>5, <1>6, <1>7 DEF Next

-----------------------------------------------------------------------------
(* Flows. *)

LEMMA OnlyResponsesStep == TypeOK /\ OnlyResponsesSet /\ [Next]_vars => OnlyResponsesSet'
  <1> SUFFICES ASSUME TypeOK, OnlyResponsesSet, [Next]_vars PROVE OnlyResponsesSet'
    OBVIOUS
  <1> USE DEF TypeOK, OnlyResponsesSet
  <1>1. ASSUME NEW t \in Tabs, NEW kind \in {"login", "logout", "page"}, Ask(t, kind)
        PROVE  OnlyResponsesSet'
    BY <1>1 DEF Ask
  <1>2. ASSUME NEW t \in Tabs, FollowRedirect(t) \/ Finish(t) PROVE OnlyResponsesSet'
    BY <1>2 DEF FollowRedirect, Finish, SetCookies
  <1>3. ASSUME NEW t \in Tabs, CallBack(t) \/ Abandon(t) PROVE OnlyResponsesSet'
    BY <1>3 DEF CallBack, Abandon
  <1>4. ASSUME NEW t \in Tabs, Login(t) PROVE OnlyResponsesSet'
    BY <1>4 DEF Login, AuthCodeURL
  <1>5. ASSUME NEW t \in Tabs, Callback(t) \/ Logout(t) \/ Page(t) PROVE OnlyResponsesSet'
    <2>1. /\ stage' = [stage EXCEPT ![t] = "answered"]
          /\ \A u \in Tabs \ {t} : setPkce'[u] = setPkce[u] /\ setSession'[u] = setSession[u]
      BY <1>5 DEF Callback, Logout, Page, Answer
    <2> QED
      BY <2>1
  <1>6. CASE VerifierExpires \/ Tick \/ UNCHANGED vars
    BY <1>6 DEF VerifierExpires, Tick, vars, tabVars
  <1> QED
    BY <1>1, <1>2, <1>3, <1>4, <1>5, <1>6 DEF Next

\* The cookie changes under a flow only by its own response, or it is disturbed.
LEMMA FlowStep ==
  TypeOK /\ OnlyResponsesSet /\ FlowHasVerifier /\ [Next]_vars => FlowHasVerifier'
  <1> SUFFICES ASSUME TypeOK, OnlyResponsesSet, FlowHasVerifier, [Next]_vars
               PROVE  FlowHasVerifier'
    OBVIOUS
  <1> USE DEF TypeOK, OnlyResponsesSet, FlowHasVerifier
  <1>1. ASSUME NEW t \in Tabs, NEW kind \in {"login", "logout", "page"}, Ask(t, kind)
        PROVE  FlowHasVerifier'
    BY <1>1 DEF Ask, cookieVars
  <1>2. ASSUME NEW t \in Tabs, FollowRedirect(t) PROVE FlowHasVerifier'
    BY <1>2 DEF FollowRedirect, SetCookies, InFlow
  <1>3. ASSUME NEW t \in Tabs, Finish(t) PROVE FlowHasVerifier'
    BY <1>3 DEF Finish, SetCookies, InFlow
  <1>4. ASSUME NEW t \in Tabs, CallBack(t) \/ Abandon(t) PROVE FlowHasVerifier'
    BY <1>4 DEF CallBack, Abandon, cookieVars, history
  <1>5. ASSUME NEW t \in Tabs, Login(t) PROVE FlowHasVerifier'
    BY <1>5, KeepAssumption DEF Login, AuthCodeURL, cookieVars, history
  <1>6. ASSUME NEW t \in Tabs, Callback(t) \/ Logout(t) \/ Page(t) PROVE FlowHasVerifier'
    <2>1. /\ stage' = [stage EXCEPT ![t] = "answered"]
          /\ \A u \in Tabs \ {t} : setPkce'[u] = setPkce[u]
          /\ UNCHANGED <<pkce, sent, challenge, disturbed>>
      BY <1>6 DEF Callback, Logout, Page, Answer, cookieVars, history
    <2> QED
      BY <2>1
  <1>7. CASE VerifierExpires
    BY <1>7 DEF VerifierExpires, tabVars, InFlow
  <1>8. CASE Tick \/ UNCHANGED vars
    BY <1>8 DEF Tick, vars, cookieVars, tabVars, history
  <1> QED
    BY <1>1, <1>2, <1>3, <1>4, <1>5, <1>6, <1>7, <1>8 DEF Next

\* A callback that fails for its verifier belongs to a flow that was disturbed.
LEMMA FailureStep ==
  TypeOK /\ FlowHasVerifier /\ FailureNeedsDisturbance /\ [Next]_vars => FailureNeedsDisturbance'
  <1> SUFFICES ASSUME TypeOK, FlowHasVerifier, FailureNeedsDisturbance, [Next]_vars
               PROVE  FailureNeedsDisturbance'
    OBVIOUS
  <1> USE DEF TypeOK, FailureNeedsDisturbance
  <1>1. ASSUME NEW t \in Tabs, NEW kind \in {"login", "logout", "page"}, Ask(t, kind)
        PROVE  FailureNeedsDisturbance'
    BY <1>1 DEF Ask
  <1>2. ASSUME NEW t \in Tabs, FollowRedirect(t) \/ Finish(t) PROVE FailureNeedsDisturbance'
    BY <1>2 DEF FollowRedirect, Finish, SetCookies
  <1>3. ASSUME NEW t \in Tabs, CallBack(t) \/ Abandon(t) \/ Login(t)
        PROVE  FailureNeedsDisturbance'
    BY <1>3 DEF CallBack, Abandon, Login, history
  <1>4. ASSUME NEW t \in Tabs, Callback(t) PROVE FailureNeedsDisturbance'
    <2>1. t \notin disturbed => sent[t] # 0 /\ sent[t] = challenge[t]
      BY <1>4 DEF Callback, FlowHasVerifier
    <2>2. t \notin disturbed => outcome'[t] # "failed"
      BY <1>4, <2>1 DEF Callback, Answer
    <2>3. \A u \in Tabs \ {t} : outcome'[u] = outcome[u]
      BY <1>4 DEF Callback, Answer
    <2> QED
      BY <1>4, <2>2, <2>3 DEF Callback
  <1>5. ASSUME NEW t \in Tabs, Logout(t) \/ Page(t) PROVE FailureNeedsDisturbance'
    BY <1>5 DEF Logout, Page, Answer, history
  <1>6. CASE VerifierExpires \/ Tick \/ UNCHANGED vars
    BY <1>6 DEF VerifierExpires, Tick, vars, tabVars, history
  <1> QED
    BY <1>1, <1>2, <1>3, <1>4, <1>5, <1>6 DEF Next

-----------------------------------------------------------------------------
\* Every reachable state is typed and keeps the invariant, in every order of
\* requests and responses.
THEOREM LoginInvariant == Spec => [](TypeOK /\ IInv)
  <1>1. Init => TypeOK /\ IInv
    BY TypeInit DEF Init, IInv, SessionsAreEarned, FailureNeedsDisturbance, OnlyResponsesSet,
                    FlowHasVerifier
  <1>2. TypeOK /\ IInv /\ [Next]_vars => (TypeOK /\ IInv)'
    BY TypeStep, EarnedStep, OnlyResponsesStep, FlowStep, FailureStep DEF IInv
  <1> QED
    BY <1>1, <1>2, PTL DEF Spec

\* Every variable has its type (session.go, middleware.go).
THEOREM LoginTypes == Spec => []TypeOK
  BY LoginInvariant, PTL

\* No session comes from anything but a completed login of an allowed user
\* (middleware.go:145-223).
THEOREM EverySessionIsEarned == Spec => []SessionsAreEarned
  <1>1. IInv => SessionsAreEarned
    BY DEF IInv
  <1> QED
    BY <1>1, LoginInvariant, PTL

\* A flow that nothing came between never fails for its verifier
\* (middleware.go:119-169).
THEOREM UndisturbedLoginsSucceed == Spec => []FailureNeedsDisturbance
  <1>1. IInv => FailureNeedsDisturbance
    BY DEF IInv
  <1> QED
    BY <1>1, LoginInvariant, PTL

\* A page is shown only to a session that was earned and has not expired
\* (session.go:60-95).
THEOREM PagesAreProtected == Spec => PagesNeedLiveSession
  <1>1. TypeOK /\ IInv /\ [Next]_vars =>
          [\A t \in Tabs :
             outcome[t] # "page" /\ outcome'[t] = "page"
                => \E s \in earned : s = carried[t] /\ now <= s.until]_vars
    <2> SUFFICES ASSUME TypeOK, IInv, [Next]_vars, NEW t \in Tabs,
                        outcome[t] # "page", outcome'[t] = "page"
                 PROVE  carried[t] \in earned /\ now <= carried[t].until
      OBVIOUS
    <2>1. \A u \in Tabs \ {t} : ~Page(u)
      BY DEF Page, Answer, TypeOK
    <2>2. \A u \in Tabs : ~Ask(u, "login") /\ ~Ask(u, "logout") /\ ~Ask(u, "page")
      BY DEF Ask, TypeOK
    <2>3. \A u \in Tabs : ~(FollowRedirect(u) \/ CallBack(u) \/ Finish(u) \/ Abandon(u) \/ Login(u))
      BY DEF FollowRedirect, CallBack, Finish, Abandon, Login
    <2>4. \A u \in Tabs : ~(Callback(u) \/ Logout(u))
      BY DEF Callback, Logout, Answer, TypeOK
    <2>5. ~(VerifierExpires \/ Tick \/ UNCHANGED vars)
      BY DEF VerifierExpires, Tick, vars, tabVars
    <2>6. Page(t)
      BY <2>1, <2>2, <2>3, <2>4, <2>5 DEF Next
    <2>7. Valid(carried[t])
      BY <2>6 DEF Page, Answer, TypeOK
    <2>8. carried[t] \in earned \cup {NoSession, Keep} /\ carried[t] \in Sessions \cup {NoSession}
      BY DEF TypeOK, IInv, SessionsAreEarned
    <2> QED
      BY <2>7, <2>8, KeepAssumption DEF Valid
  <1> QED
    BY <1>1, LoginInvariant, PTL DEF Spec, PagesNeedLiveSession
=============================================================================

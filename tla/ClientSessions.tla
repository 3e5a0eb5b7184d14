---------------------------- MODULE ClientSessions ----------------------------
(***************************************************************************)
(* Client sessions: ClientAuthHandler, RequireClientSession and            *)
(* RequireClientCSRF, ClientAuthService and PostgresClientAuthRepository,  *)
(* used by one browser with several tabs.                                  *)
(*                                                                         *)
(* The tabs share the cookies; each keeps the CSRF token that /me gave it  *)
(* in memory.  A request takes the cookies along when it is sent, works on *)
(* the session row it read, and its Set-Cookie takes effect when the       *)
(* answer arrives, in whatever order answers arrive.  Google is external.  *)
(* Sessions from before the CSRF cookie existed have a hash nobody knows.  *)
(***************************************************************************)
EXTENDS Naturals, FiniteSets

CONSTANTS
  Tabs,       \* tabs of the browser, each with at most one request in flight
  Sessions,   \* client_sessions rows
  OldSession, \* the one that may be older than the CSRF cookie
  Subs,       \* Google accounts (the OIDC subject)
  Users,      \* client_users rows
  Nobody

Token == {"login", "derived", "old"} \X Sessions

ASSUME SessionAssumption ==
  /\ OldSession \in Sessions
  /\ Nobody \notin Tabs \union Sessions \union Subs \union Users \union Token

VARIABLES
  account,  \* client_users: the Google account each row was inserted for
  anchor,   \* client_google_identities: the user of a Google account
  row,      \* client_sessions: state, user and CSRF token (stored as its hash)
  jar,      \* the cookies: session, CSRF token, OAuth state
  tab,      \* what a tab remembers: a CSRF token and the session it got it in
  req,      \* the request of a tab
  crossed   \* history: sessions whose CSRF cookie was replaced by that of another

rowsOf == <<account, anchor, row>>
browser == <<jar, tab, req>>
sessionVars == <<rowsOf, browser, crossed>>

NoTab == [token |-> Nobody, session |-> Nobody]
NoReq == [pc |-> "idle", session |-> Nobody, cookie |-> Nobody, hash |-> Nobody,
          sub |-> Nobody, user |-> Nobody, set |-> FALSE]

SessionTypeOK ==
  /\ account \in [Users -> Subs \union {Nobody}]
  /\ anchor \in [Subs -> Users \union {Nobody}]
  /\ row \in [Sessions -> [state : {"none", "live", "revoked", "expired"},
                           user : Users \union {Nobody}, csrf : Token \union {Nobody}]]
  /\ jar \in [session : Sessions \union {Nobody}, csrf : Token \union {Nobody},
              state : Tabs \union {Nobody}]
  /\ tab \in [Tabs -> [token : Token \union {Nobody}, session : Sessions \union {Nobody}]]
  /\ req \in [Tabs -> [pc : {"idle", "google", "find", "write", "session", "landed",
                             "me", "answer", "reply", "logout", "revoke", "bye"},
                       session : Sessions \union {Nobody}, cookie : Token \union {Nobody},
                       hash : Token \union {Nobody}, sub : Subs \union {Nobody},
                       user : Users \union {Nobody}, set : BOOLEAN]]
  /\ crossed \subseteq Sessions

\* A browser that is not logged in, or one with a session from before the
\* CSRF cookie.
SessionInit ==
  /\ \E old \in BOOLEAN, u \in Users, g \in Subs :
       /\ account = [v \in Users |-> IF old /\ v = u THEN g ELSE Nobody]
       /\ anchor = [k \in Subs |-> IF old /\ k = g THEN u ELSE Nobody]
       /\ row = [s \in Sessions |->
            IF old /\ s = OldSession
            THEN [state |-> "live", user |-> u, csrf |-> <<"old", s>>]
            ELSE [state |-> "none", user |-> Nobody, csrf |-> Nobody]]
       /\ jar = [session |-> IF old THEN OldSession ELSE Nobody, csrf |-> Nobody, state |-> Nobody]
  /\ tab = [t \in Tabs |-> NoTab]
  /\ req = [t \in Tabs |-> NoReq]
  /\ crossed = {}

\* setClientCookie and setCSRFCookie; clearClientCookie and clearCSRFCookie;
\* clearOAuthState.
Cookies(s, csrf) == [jar EXCEPT !.session = s, !.csrf = csrf]
NoCookies == [jar EXCEPT !.session = Nobody, !.csrf = Nobody]
NoState(cookies) == [cookies EXCEPT !.state = Nobody]

Goto(t, pc) == req' = [req EXCEPT ![t].pc = pc]
Done(t) == req' = [req EXCEPT ![t] = NoReq]

-----------------------------------------------------------------------------
(* Login with Google *)

\* StartLogin: a state nobody else has, known here by its tab.
StartLogin(t) == t

\* Start: the state goes to Google and into a cookie the tabs share.
Start(t) ==
  /\ req[t].pc = "idle"
  /\ jar' = [jar EXCEPT !.state = StartLogin(t)]
  /\ tab' = [tab EXCEPT ![t] = NoTab]
  /\ Goto(t, "google")
  /\ UNCHANGED <<rowsOf, crossed>>

\* clearOAuthState and redirectLogin: after every failure of the callback.
RedirectLogin(t) ==
  /\ jar' = NoState(jar)
  /\ Done(t)
  /\ UNCHANGED <<rowsOf, tab, crossed>>

\* HandleCallback: Google exchanges the code for an identity; the ID token has
\* to be valid and complete and its address verified (CallbackFails).
VerifiedIdentities == Subs

\* Callback: the state must be that of the cookie.
Callback(t) ==
  /\ req[t].pc = "google" /\ jar.state = StartLogin(t)
  /\ \E g \in VerifiedIdentities : req' = [req EXCEPT ![t].pc = "find", ![t].sub = g]
  /\ UNCHANGED <<rowsOf, jar, tab, crossed>>

CallbackFails(t) ==
  /\ req[t].pc \in {"google", "find", "write", "session"}
  /\ RedirectLogin(t)

\* findClientUserByGoogleSubQuery.
UserOf(g) == anchor[g]

\* CreateClientUserAndGoogleIdentity reads the identity ...
FindIdentity(t) ==
  /\ req[t].pc = "find"
  /\ req' = [req EXCEPT ![t].pc = "write", ![t].user = UserOf(req[t].sub)]
  /\ UNCHANGED <<rowsOf, jar, tab, crossed>>

\* Mutant: no unique index on google_sub.
InsertIdentityAgain(u, g) == anchor' = [anchor EXCEPT ![g] = u]

\* insertClientUserQuery, and insertClientGoogleIdentityQuery under the unique
\* index on google_sub, which aborts the second of two first logins.
InsertUser(u, g) == account' = [account EXCEPT ![u] = g]
InsertIdentity(u, g) == anchor[g] = Nobody /\ anchor' = [anchor EXCEPT ![g] = u]

\* ... and, in the same transaction, refreshes its user or inserts a user and
\* the identity.
WriteIdentity(t) ==
  LET g == req[t].sub IN
  /\ req[t].pc = "write"
  /\ \/ /\ req[t].user # Nobody
        /\ Goto(t, "session")
        /\ UNCHANGED <<account, anchor>>
     \/ /\ req[t].user = Nobody
        /\ \E u \in Users :
             /\ account[u] = Nobody
             /\ InsertUser(u, g) /\ InsertIdentity(u, g)
             /\ req' = [req EXCEPT ![t].pc = "session", ![t].user = u]
  /\ UNCHANGED <<row, jar, tab, crossed>>

\* A session as HandleCallback makes it, with random tokens.
NewSession(u, s) == [state |-> "live", user |-> u, csrf |-> <<"login", s>>]

CreateSession(t) ==
  /\ req[t].pc = "session"
  /\ \E s \in Sessions :
       /\ row[s].state = "none"
       /\ row' = [row EXCEPT ![s] = NewSession(req[t].user, s)]
       /\ req' = [req EXCEPT ![t].pc = "landed", ![t].session = s]
  /\ UNCHANGED <<account, anchor, jar, tab, crossed>>

\* The redirect arrives with both cookies; or it never arrives.
Landed(t) ==
  /\ req[t].pc = "landed"
  /\ jar' \in {jar, NoState(Cookies(req[t].session, <<"login", req[t].session>>))}
  /\ Done(t)
  /\ UNCHANGED <<rowsOf, tab, crossed>>

-----------------------------------------------------------------------------
(* Requests of a session *)

\* A tab loads, or reloads, and asks /me for the user and a CSRF token.
SendMe(t) ==
  /\ req[t].pc = "idle" /\ jar.session # Nobody
  /\ req' = [req EXCEPT ![t] = [NoReq EXCEPT !.pc = "me", !.session = jar.session,
                                             !.cookie = jar.csrf]]
  /\ UNCHANGED <<rowsOf, jar, tab, crossed>>

\* A state-changing request, of which Logout is the one modelled here, sends
\* the token the tab remembers.
SendLogout(t) ==
  /\ req[t].pc = "idle" /\ jar.session # Nobody /\ tab[t].token # Nobody
  /\ req' = [req EXCEPT ![t] = [NoReq EXCEPT !.pc = "logout", !.session = jar.session,
                                             !.cookie = tab[t].token]]
  /\ UNCHANGED <<rowsOf, jar, tab, crossed>>

\* Authenticate: a revoked or expired session is no session.
Live(s) == row[s].state = "live"

\* RequireClientSession: the request goes on with the row as it is now.
Authenticate(t) ==
  /\ req[t].pc \in {"me", "logout"} /\ Live(req[t].session)
  /\ req' = [req EXCEPT ![t].pc = IF @ = "me" THEN "answer" ELSE "revoke",
                        ![t].hash = row[req[t].session].csrf]
  /\ UNCHANGED <<rowsOf, jar, tab, crossed>>

\* 401, or 500 when the database does not answer: without /me a tab has no token.
Unauthorized(t) ==
  /\ req[t].pc \in {"me", "answer", "logout", "revoke"}
  /\ tab' = IF req[t].pc \in {"me", "answer"} THEN [tab EXCEPT ![t] = NoTab] ELSE tab
  /\ Done(t)
  /\ UNCHANGED <<rowsOf, jar, crossed>>

\* ValidateCSRF: the token presented is the one whose hash was read.
ValidateCSRF(t) == req[t].cookie = req[t].hash

\* Mutant: a refresh makes a token that differs from the last one.
DerivedAnew(s) == IF row[s].csrf = <<"derived", s>> THEN <<"login", s>> ELSE <<"derived", s>>

\* deriveSessionCSRFToken depends on the session alone.
Derived(s) == <<"derived", s>>

\* Mutant: the statement does not look at revoked_at and expires_at.
RotateCSRFAlways(s) == row' = [row EXCEPT ![s].csrf = Derived(s)]

\* rotateClientCSRFQuery replaces the hash of a live session; a token is
\* returned even when it replaced nothing.
RotateCSRF(s) == row' = IF Live(s) THEN [row EXCEPT ![s].csrf = Derived(s)] ELSE row

\* RefreshCSRF: the derived token replaces the hash and the cookie.
RefreshCSRF(t) ==
  LET s == req[t].session IN
  /\ RotateCSRF(s)
  /\ req' = [req EXCEPT ![t].pc = "reply", ![t].cookie = Derived(s), ![t].set = TRUE]

\* Me, csrfToken: the cookie's token if it is valid for the row that was read,
\* otherwise a new one that is also set as the cookie.
Me(t) ==
  /\ req[t].pc = "answer"
  /\ IF ValidateCSRF(t) THEN Goto(t, "reply") /\ UNCHANGED row ELSE RefreshCSRF(t)
  /\ UNCHANGED <<account, anchor, jar, tab, crossed>>

\* The answer of /me arrives.  Its cookie replaces that of a session the
\* browser has logged into meanwhile.
ReceiveMe(t) ==
  LET r == req[t] IN
  /\ r.pc = "reply"
  /\ tab' = [tab EXCEPT ![t] = [token |-> r.cookie, session |-> r.session]]
  /\ jar' = IF r.set THEN [jar EXCEPT !.csrf = r.cookie] ELSE jar
  /\ crossed' = IF r.set /\ jar.session \notin {Nobody, r.session}
                THEN crossed \union {jar.session} ELSE crossed
  /\ Done(t)
  /\ UNCHANGED rowsOf

\* RequireClientCSRF refuses the request with 403.
CSRFInvalid(t) ==
  /\ req[t].pc = "revoke" /\ ~ValidateCSRF(t)
  /\ Done(t)
  /\ UNCHANGED <<rowsOf, jar, tab, crossed>>

\* revokeClientSessionQuery.
RevokeClientSession(s) ==
  row' = IF row[s].state = "revoked" THEN row ELSE [row EXCEPT ![s].state = "revoked"]

Logout(t) ==
  /\ req[t].pc = "revoke" /\ ValidateCSRF(t)
  /\ RevokeClientSession(req[t].session)
  /\ Goto(t, "bye")
  /\ UNCHANGED <<account, anchor, jar, tab, crossed>>

\* 204: the cookies are cleared, those of a newer session included.
ReceiveLogout(t) ==
  /\ req[t].pc = "bye"
  /\ jar' = NoCookies
  /\ tab' = [tab EXCEPT ![t] = NoTab]
  /\ Done(t)
  /\ UNCHANGED <<rowsOf, crossed>>

\* The session's thirty days are over; nothing renews it.
Expire(s) ==
  /\ Live(s)
  /\ row' = [row EXCEPT ![s].state = "expired"]
  /\ UNCHANGED <<account, anchor, jar, tab, req, crossed>>

-----------------------------------------------------------------------------

TabStep(t) ==
  \/ Start(t) \/ Callback(t) \/ CallbackFails(t) \/ FindIdentity(t) \/ WriteIdentity(t)
  \/ CreateSession(t) \/ Landed(t)
  \/ SendMe(t) \/ SendLogout(t) \/ Authenticate(t) \/ Unauthorized(t) \/ Me(t) \/ ReceiveMe(t)
  \/ CSRFInvalid(t) \/ Logout(t) \/ ReceiveLogout(t)

SessionNext ==
  \/ \E t \in Tabs : TabStep(t)
  \/ \E s \in Sessions : Expire(s)

SessionSpec == SessionInit /\ [][SessionNext]_sessionVars

-----------------------------------------------------------------------------
(* Properties *)

\* "Concurrent legacy refreshes converge on one hash instead of invalidating a
\* neighboring browser tab" (client_auth.go:231-232): the token a tab got from
\* /me stays valid as long as its session lives, unless a late answer of
\* another session replaced the CSRF cookie.
RefreshesConverge ==
  \A t \in Tabs :
    LET s == tab[t].session IN
    tab[t].token # Nobody /\ Live(s) => tab[t].token = row[s].csrf \/ s \in crossed

\* A session that was revoked or has expired never comes back and its CSRF
\* hash is never replaced, though requests that had read it are under way.
DeadSessionsStayDead ==
  [][\A s \in Sessions :
       row[s].state \in {"revoked", "expired"} =>
         /\ row'[s].state \in {"revoked", "expired"}
         /\ row'[s].csrf = row[s].csrf]_sessionVars

\* A Google account has one user and every user was made for an account that
\* leads to it, although two first logins may both read that there is none:
\* "two Google accounts that share one email never converge", "a partial write
\* never leaves a session bound to a half-created user"
\* (postgres_client_auth.go:84-87).  Sessions belong to such users.
AccountsAreAnchored ==
  /\ \A u \in Users : account[u] # Nobody => anchor[account[u]] = u
  /\ \A s \in Sessions : row[s].state # "none" => account[row[s].user] # Nobody

\* Why: the identity of a Google account leads to the user inserted for it, a
\* session has a user, and a login that has come so far its account or its user, ...
LoginsHaveUsers ==
  /\ \A g \in Subs : anchor[g] # Nobody => account[anchor[g]] = g
  /\ \A s \in Sessions : row[s].state # "none" => row[s].user \in Users
  /\ \A t \in Tabs :
       /\ req[t].pc \in {"find", "write"} => req[t].sub \in Subs
       /\ req[t].pc = "write" /\ req[t].user # Nobody => account[req[t].user] # Nobody
       /\ req[t].pc = "session" => req[t].user \in Users /\ account[req[t].user] # Nobody

\* ... cookies, tabs and requests name sessions that exist, ...
SessionsExist ==
  /\ jar.session # Nobody => row[jar.session].state # "none"
  /\ \A t \in Tabs :
       /\ tab[t].session # Nobody => row[tab[t].session].state # "none"
       /\ tab[t].token # Nobody => tab[t].session # Nobody
       /\ req[t].session # Nobody => row[req[t].session].state # "none"
       /\ req[t].pc \notin {"idle", "google", "find", "write", "session"} =>
            req[t].session # Nobody

\* The token /me gives in a session: that of the login, until a first refresh.
Given(s) == IF row[s].csrf = <<"login", s>> THEN row[s].csrf ELSE Derived(s)
Refreshed(s) == row[s].csrf # <<"login", s>>
Presented(s, cookie) == cookie = Given(s) \/ (Refreshed(s) /\ cookie = Nobody)

\* ... and unless its cookie was replaced by that of another session, a session
\* has one token for all its tabs: the cookie is this one, or missing in a
\* session from before the CSRF cookie, which the first refresh changes for good.
OneTokenForAll ==
  \A s \in Sessions \ crossed :
    /\ row[s].state # "none" => row[s].csrf \in {<<"login", s>>, <<"old", s>>, Derived(s)}
    /\ jar.session = s => Presented(s, jar.csrf)
    /\ \A t \in Tabs :
         /\ tab[t].session = s /\ tab[t].token # Nobody =>
              tab[t].token = Given(s) /\ (Live(s) => row[s].csrf = Given(s))
         /\ req[t].session = s /\ req[t].pc \in {"me", "answer"} =>
              Presented(s, req[t].cookie) /\ ~req[t].set
         /\ req[t].session = s /\ req[t].pc = "answer" =>
              req[t].hash = row[s].csrf \/ (Refreshed(s) /\ req[t].hash = <<"old", s>>)
         /\ req[t].session = s /\ req[t].pc = "reply" =>
              /\ req[t].cookie = Given(s) /\ (req[t].set => Refreshed(s))
              /\ Live(s) => row[s].csrf = Given(s)

\* A session is known to its login alone until the redirect arrives with its cookies.
LandingsAreFresh ==
  \A t \in Tabs :
    LET s == req[t].session IN
    req[t].pc = "landed" =>
      /\ row[s].csrf = <<"login", s>> /\ jar.session # s
      /\ \A u \in Tabs \ {t} : req[u].session # s

\* The inductive invariant.
SessionInv ==
  /\ SessionTypeOK /\ RefreshesConverge /\ AccountsAreAnchored
  /\ LoginsHaveUsers /\ SessionsExist /\ OneTokenForAll /\ LandingsAreFresh
=============================================================================

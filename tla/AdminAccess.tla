------------------------------ MODULE AdminAccess ------------------------------
(***************************************************************************)
(* Administrators: the create-user command, AdminAuthHandler and           *)
(* RequireAdminSession/RequireAdminCSRF, AdminAuthService and              *)
(* PostgresAdminRepository.                                                *)
(*                                                                         *)
(* A caller is a browser request or a command in progress; each of its     *)
(* database statements is a step.  Whether an account is active is decided *)
(* outside (no code of the repository changes it).  CSRF cookies and tabs  *)
(* work as in ClientSessions and are left out, and so are the pages.       *)
(***************************************************************************)
EXTENDS Naturals, FiniteSets

CONSTANTS
  Callers,    \* requests and commands that may overlap
  Spellings,  \* e-mail addresses as people write them
  Canonical,  \* NormalizeAdminEmail: the address of a spelling, NoOne if invalid
  Passwords,  \* what may be typed; Long ones pass validation, bcrypt refuses them
  Long,
  Accounts,   \* admin_users rows
  Visits,     \* admin_sessions rows
  NoOne

ASSUME AdminAssumption ==
  /\ Long \subseteq Passwords /\ DOMAIN Canonical = Spellings
  /\ NoOne \notin Callers \union Passwords \union Accounts \union Visits

VARIABLES
  admin,    \* admin_users
  visit,    \* admin_sessions
  call,     \* the locals of a caller
  audit,    \* admin_audit_events: the successes recorded
  barred    \* history: callers that came after a deactivation which still holds

adminVars == <<admin, visit, call, audit, barred>>

NoAdmin == [email |-> NoOne, password |-> NoOne, active |-> FALSE]
NoVisit == [state |-> "none", admin |-> NoOne, seen |-> NoOne]
NoCall == [pc |-> "idle", admin |-> NoOne, visit |-> NoOne, logout |-> FALSE]
Emails == {Canonical[m] : m \in DOMAIN Canonical} \ {NoOne}

AdminTypeOK ==
  /\ admin \in [Accounts -> [email : Emails \union {NoOne}, password : Passwords \union {NoOne},
                             active : BOOLEAN]]
  /\ visit \in [Visits -> [state : {"none", "live", "revoked", "expired"},
                           admin : Accounts \union {NoOne}, seen : Callers \union {NoOne}]]
  /\ call \in [Callers ->
       [pc : {"idle", "compare", "session", "sent", "touch", "serve", "revoke", "record"},
        admin : Accounts \union {NoOne}, visit : Visits \union {NoOne}, logout : BOOLEAN]]
  /\ audit \subseteq {"admin_login", "admin_logout"} \X Visits
  /\ barred \subseteq Callers

AdminInit ==
  /\ admin = [i \in Accounts |-> NoAdmin]
  /\ visit = [s \in Visits |-> NoVisit]
  /\ call = [c \in Callers |-> NoCall]
  /\ audit = {} /\ barred = {}

Known(i) == admin[i].email # NoOne
Awake(s) == visit[s].state = "live"
Proceed(c, pc) == call' = [call EXCEPT ![c].pc = pc]
\* The caller gets its answer; what was barred ends with it.
Answer(c) == call' = [call EXCEPT ![c] = NoCall] /\ barred' = barred \ {c}

-----------------------------------------------------------------------------
(* Provisioning *)

\* createAdminUserQuery under the unique index on lower(email).
InsertAdmin(email, password) ==
  /\ \A i \in Accounts : admin[i].email # email
  /\ \E i \in Accounts :
       /\ ~Known(i)
       /\ admin' = [admin EXCEPT ![i] = [email |-> email, password |-> password, active |-> TRUE]]

\* create-user: an existing address is refused, never overwritten; a password
\* of more than 72 bytes passes ValidateAdminPassword and fails in bcrypt.
CreateUser ==
  /\ \E m \in Spellings, p \in Passwords \ Long :
       Canonical[m] # NoOne /\ InsertAdmin(Canonical[m], p)
  /\ UNCHANGED <<visit, call, audit, barred>>

\* Outside the repository: is_active is changed in the database.
SetActive(i) ==
  /\ Known(i)
  /\ admin' = [admin EXCEPT ![i].active = ~@]
  /\ barred' = {c \in barred : visit[call[c].visit].admin # i}
  /\ UNCHANGED <<visit, call, audit>>

-----------------------------------------------------------------------------
(* Login *)

\* AdminAuthService.Login: the account is read with its password hash.
FindAdmin(c) ==
  /\ call[c].pc = "idle"
  /\ \E m \in Spellings, i \in Accounts :
       /\ Canonical[m] # NoOne /\ admin[i].email = Canonical[m]
       /\ admin[i].active
       /\ call' = [call EXCEPT ![c] = [NoCall EXCEPT !.pc = "compare", !.admin = i]]
  /\ UNCHANGED <<admin, visit, audit, barred>>

\* bcrypt, which takes its time: the right password, or the refusal.
ComparePassword(c) ==
  /\ call[c].pc = "compare"
  /\ \E p \in Passwords :
       IF p = admin[call[c].admin].password
       THEN Proceed(c, "session") /\ UNCHANGED barred
       ELSE Answer(c)
  /\ UNCHANGED <<admin, visit, audit>>

\* CreateAdminSession; the account may have been deactivated meanwhile.
CreateAdminSession(c) ==
  /\ call[c].pc = "session"
  /\ \E s \in Visits :
       /\ visit[s].state = "none"
       /\ visit' = [visit EXCEPT ![s] = [NoVisit EXCEPT !.state = "live", !.admin = call[c].admin]]
       /\ call' = [call EXCEPT ![c].pc = "record", ![c].visit = s]
  /\ UNCHANGED <<admin, audit, barred>>

\* recordAudit after the work is done; its error is logged only.
RecordAudit(c) ==
  LET event == <<IF call[c].logout THEN "admin_logout" ELSE "admin_login", call[c].visit>> IN
  /\ call[c].pc = "record"
  /\ audit' \in {audit, audit \union {event}}
  /\ Answer(c)
  /\ UNCHANGED <<admin, visit>>

-----------------------------------------------------------------------------
(* Requests of a session *)

\* A browser sends its cookie, whatever has become of the session.
SendRequest(c) ==
  /\ call[c].pc = "idle"
  /\ \E s \in Visits, out \in BOOLEAN :
       /\ visit[s].state # "none"
       /\ call' = [call EXCEPT ![c] = [NoCall EXCEPT !.pc = "sent", !.visit = s, !.logout = out]]
       /\ barred' = IF admin[visit[s].admin].active THEN barred ELSE barred \union {c}
  /\ UNCHANGED <<admin, visit, audit>>

\* Mutant: the query looks at the session alone.
AdmittedInactive(s) == Awake(s)

\* findAdminSessionQuery joins the session with its account.
Admitted(s) == Awake(s) /\ admin[visit[s].admin].active

\* RequireAdminSession, Authenticate: 401, or the request goes on.
AuthenticateAdmin(c) ==
  /\ call[c].pc = "sent"
  /\ IF Admitted(call[c].visit) THEN Proceed(c, "touch") /\ UNCHANGED barred ELSE Answer(c)
  /\ UNCHANGED <<admin, visit, audit>>

\* Mutant: the statement touches whatever row it finds.
TouchAdminSessionAny(c) ==
  /\ call[c].pc = "touch"
  /\ visit' \in {visit, [visit EXCEPT ![call[c].visit].seen = c]}
  /\ Proceed(c, IF call[c].logout THEN "revoke" ELSE "serve")
  /\ UNCHANGED <<admin, audit, barred>>

\* TouchAdminSession, at best, and only a live session.
TouchAdminSession(c) ==
  LET s == call[c].visit IN
  /\ call[c].pc = "touch"
  /\ visit' \in {visit, IF Awake(s) THEN [visit EXCEPT ![s].seen = c] ELSE visit}
  /\ Proceed(c, IF call[c].logout THEN "revoke" ELSE "serve")
  /\ UNCHANGED <<admin, audit, barred>>

\* The handler of an administrative route answers; RequireAdminCSRF and the
\* database may refuse.
Serve(c) ==
  /\ call[c].pc = "serve"
  /\ Answer(c)
  /\ UNCHANGED <<admin, visit, audit>>

\* revokeAdminSessionQuery: the first revocation counts.
RevokeAdminSession(s) ==
  visit' = IF visit[s].state = "revoked" THEN visit ELSE [visit EXCEPT ![s].state = "revoked"]

\* AdminAuthHandler.Logout: the failure of the statement ends it.
LogoutAdmin(c) ==
  /\ call[c].pc = "revoke"
  /\ \/ RevokeAdminSession(call[c].visit) /\ Proceed(c, "record") /\ UNCHANGED barred
     \/ Answer(c) /\ UNCHANGED visit
  /\ UNCHANGED <<admin, audit>>

\* The session's twelve hours are over; nothing renews it.
ExpireVisit(s) ==
  /\ Awake(s)
  /\ visit' = [visit EXCEPT ![s].state = "expired"]
  /\ UNCHANGED <<admin, call, audit, barred>>

-----------------------------------------------------------------------------

CallerStep(c) ==
  \/ FindAdmin(c) \/ ComparePassword(c) \/ CreateAdminSession(c) \/ RecordAudit(c)
  \/ SendRequest(c) \/ AuthenticateAdmin(c) \/ TouchAdminSession(c) \/ Serve(c) \/ LogoutAdmin(c)

AdminNext ==
  \/ CreateUser
  \/ \E i \in Accounts : SetActive(i)
  \/ \E c \in Callers : CallerStep(c)
  \/ \E s \in Visits : ExpireVisit(s)

AdminSpec == AdminInit /\ [][AdminNext]_adminVars

-----------------------------------------------------------------------------
(* Properties *)

\* Deactivating an account ends its sessions at once, those included that a
\* login creates which had read the account before: a request that is sent
\* while its account is inactive is refused unless the account comes back.
DeactivationHolds ==
  \A c \in barred : call[c].pc \notin {"touch", "serve", "revoke", "record"}

\* The row of a session that was revoked or has expired is never written again
\* except for its revocation, though requests it had admitted are still under
\* way: "stale/revoked sessions fail closed" (admin_auth.go:160-161).
DeadVisitsAreFrozen ==
  [][\A s \in Visits :
       visit[s].state \in {"revoked", "expired"} =>
         /\ visit'[s].seen = visit[s].seen
         /\ visit'[s].state \in {visit[s].state, "revoked"}]_adminVars

\* The audit trail never says more than what happened: a recorded logout is of
\* a session that is over, a recorded login of one that was created.
AuditIsTrue ==
  \A e \in audit :
    IF e[1] = "admin_logout" THEN visit[e[2]].state = "revoked" ELSE visit[e[2]].state # "none"

\* Why: a caller on record as barred has only sent its request, in a session of
\* an account that is still inactive, ...
BarredCallersWait ==
  \A c \in barred : call[c].pc = "sent" /\ ~admin[visit[call[c].visit].admin].active

\* ... sessions and logins are of accounts that exist, ...
VisitsHaveAdmins ==
  /\ \A s \in Visits :
       visit[s].state # "none" => visit[s].admin \in Accounts /\ Known(visit[s].admin)
  /\ \A c \in Callers :
       call[c].pc \in {"compare", "session"} =>
         call[c].admin \in Accounts /\ Known(call[c].admin) /\ ~call[c].logout

\* ... and a caller is in a session that exists; one that goes on to record a
\* logout has revoked it.
CallersHaveVisits ==
  \A c \in Callers :
    call[c].pc \in {"sent", "touch", "serve", "revoke", "record"} =>
      /\ call[c].visit \in Visits /\ visit[call[c].visit].state # "none"
      /\ call[c].pc = "record" /\ call[c].logout => visit[call[c].visit].state = "revoked"

\* The inductive invariant.
AdminInv ==
  /\ AdminTypeOK /\ DeactivationHolds /\ AuditIsTrue
  /\ BarredCallersWait /\ VisitsHaveAdmins /\ CallersHaveVisits
=============================================================================

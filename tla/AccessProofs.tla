--------------------------- MODULE AccessProofs ------------------------------
(***************************************************************************)
(* Theorems about who gets in: AdminAccess, for any callers, accounts and  *)
(* sessions, and RateLimiter, for any peers, limit, window and bounds.     *)
(***************************************************************************)
EXTENDS AdminAccess, RateLimiter, FiniteSetTheorems, TLAPS

Admin == [email : Emails \union {NoOne}, password : Passwords \union {NoOne}, active : BOOLEAN]
Visit == [state : {"none", "live", "revoked", "expired"}, admin : Accounts \union {NoOne},
          seen : Callers \union {NoOne}]
Call ==
  [pc : {"idle", "compare", "session", "sent", "touch", "serve", "revoke", "record"},
   admin : Accounts \union {NoOne}, visit : Visits \union {NoOne}, logout : BOOLEAN]

\* What a caller, a session and an account start with.
LEMMA NothingTyped == NoCall \in Call /\ NoVisit \in Visit /\ NoAdmin \in Admin
BY DEF NoCall, Call, NoVisit, Visit, NoAdmin, Admin

\* The types by their names.
LEMMA AdminTypes ==
  AdminTypeOK <=> /\ admin \in [Accounts -> Admin] /\ visit \in [Visits -> Visit]
                  /\ call \in [Callers -> Call]
                  /\ audit \subseteq {"admin_login", "admin_logout"} \X Visits
                  /\ barred \subseteq Callers
BY DEF AdminTypeOK, Admin, Visit, Call

\* A caller that proceeds is at its new place, with the rest of its locals.
LEMMA ProceedMoves ==
  ASSUME call \in [Callers -> Call], NEW c \in Callers, NEW pc, Proceed(c, pc),
         pc \in {"session", "touch", "serve", "revoke", "record"}
  PROVE  /\ call' \in [Callers -> Call]
         /\ \A d \in Callers : d # c => call'[d] = call[d]
         /\ call'[c].pc = pc /\ call'[c].admin = call[c].admin
         /\ call'[c].visit = call[c].visit /\ call'[c].logout = call[c].logout
BY DEF Proceed, Call

\* A caller that got its answer is idle again.
LEMMA AnswerEnds ==
  ASSUME call \in [Callers -> Call], NEW c \in Callers, Answer(c)
  PROVE  /\ call' \in [Callers -> Call] /\ call'[c] = NoCall
         /\ \A d \in Callers : d # c => call'[d] = call[d]
         /\ barred' = barred \ {c}
BY NothingTyped DEF Answer, Call

AdminSound ==
  DeactivationHolds /\ AuditIsTrue /\ BarredCallersWait /\ VisitsHaveAdmins /\ CallersHaveVisits

\* Provisioning and deactivation.
LEMMA AccountsKept ==
  ASSUME AdminInv, CreateUser \/ \E i \in Accounts : SetActive(i) PROVE AdminTypeOK' /\ AdminSound'
<1> USE DEF AdminInv
<1>1. /\ admin \in [Accounts -> Admin] /\ visit \in [Visits -> Visit]
      /\ call \in [Callers -> Call]
      /\ audit \subseteq {"admin_login", "admin_logout"} \X Visits /\ barred \subseteq Callers
  BY AdminTypes
<1>2. CASE CreateUser
  <2>1. PICK m \in Spellings, p \in Passwords :
          Canonical[m] # NoOne /\ InsertAdmin(Canonical[m], p)
    BY <1>2 DEF CreateUser
  <2>2. PICK i \in Accounts :
          /\ ~Known(i)
          /\ admin' = [admin EXCEPT
               ![i] = [email |-> Canonical[m], password |-> p, active |-> TRUE]]
    BY <2>1 DEF InsertAdmin
  <2>3. /\ Canonical[m] \in Emails
        /\ [email |-> Canonical[m], password |-> p, active |-> TRUE] \in Admin
    BY <2>1, AdminAssumption DEF Emails, Admin
  <2>4. admin' \in [Accounts -> Admin] /\ UNCHANGED <<visit, call, audit, barred>>
    BY <1>1, <1>2, <2>2, <2>3 DEF CreateUser
  <2>5. \A k \in Accounts : Known(k) => k # i /\ admin'[k] = admin[k]
    BY <1>1, <2>2
  <2>6. AdminTypeOK'
    BY <1>1, <2>4 DEF AdminTypeOK, Admin, Visit, Call
  <2>7. DeactivationHolds' /\ AuditIsTrue' /\ CallersHaveVisits'
    BY <2>4 DEF DeactivationHolds, AuditIsTrue, CallersHaveVisits
  <2>8. \A k \in Accounts : Known(k) => Known(k)'
    BY <2>5 DEF Known
  <2>9. VisitsHaveAdmins'
    BY <2>4, <2>8 DEF VisitsHaveAdmins
  <2>10. BarredCallersWait'
    <3>1. ASSUME NEW c \in barred
          PROVE  visit[call[c].visit].admin \in Accounts /\ Known(visit[call[c].visit].admin)
      BY <1>1 DEF BarredCallersWait, CallersHaveVisits, VisitsHaveAdmins
    <3> QED
      BY <2>4, <2>5, <3>1 DEF BarredCallersWait
  <2> QED
    BY <2>6, <2>7, <2>9, <2>10 DEF AdminSound
<1>3. ASSUME NEW i \in Accounts, SetActive(i) PROVE AdminTypeOK' /\ AdminSound'
  <2>1. /\ Known(i) /\ admin' = [admin EXCEPT ![i].active = ~@]
        /\ barred' = {c \in barred : visit[call[c].visit].admin # i}
        /\ UNCHANGED <<visit, call, audit>>
    BY <1>3 DEF SetActive
  <2>2. admin' \in [Accounts -> Admin]
    BY <1>1, <2>1 DEF Admin
  <2>3. \A k \in Accounts : admin'[k].email = admin[k].email /\ (k # i => admin'[k] = admin[k])
    BY <1>1, <2>1 DEF Admin
  <2>4. AdminTypeOK'
    BY <1>1, <2>1, <2>2 DEF AdminTypeOK, Admin, Visit, Call
  <2>5. DeactivationHolds' /\ AuditIsTrue' /\ CallersHaveVisits'
    BY <2>1 DEF DeactivationHolds, AuditIsTrue, CallersHaveVisits
  <2>6. VisitsHaveAdmins'
    BY <2>1, <2>3 DEF VisitsHaveAdmins, Known
  <2>7. BarredCallersWait'
    <3>1. ASSUME NEW c \in barred
          PROVE  visit[call[c].visit].admin \in Accounts
      BY <1>1 DEF BarredCallersWait, CallersHaveVisits, VisitsHaveAdmins
    <3> QED
      BY <2>1, <2>3, <3>1 DEF BarredCallersWait
  <2> QED
    BY <2>4, <2>5, <2>6, <2>7 DEF AdminSound
<1> QED
  BY <1>2, <1>3

\* A login, and the audit record it shares with the logout.
LEMMA LoginKept ==
  ASSUME AdminInv, NEW c \in Callers,
         FindAdmin(c) \/ ComparePassword(c) \/ CreateAdminSession(c) \/ RecordAudit(c)
  PROVE  AdminTypeOK' /\ AdminSound'
<1> USE DEF AdminInv
<1>1. /\ admin \in [Accounts -> Admin] /\ visit \in [Visits -> Visit]
      /\ call \in [Callers -> Call]
      /\ audit \subseteq {"admin_login", "admin_logout"} \X Visits /\ barred \subseteq Callers
  BY AdminTypes
<1> USE DEF DeactivationHolds, AuditIsTrue, BarredCallersWait, VisitsHaveAdmins,
            CallersHaveVisits, AdminSound, Known
<1>2. CASE FindAdmin(c)
  <2>1. PICK i \in Accounts :
          /\ \E m \in Spellings : Canonical[m] # NoOne /\ admin[i].email = Canonical[m]
          /\ call' = [call EXCEPT ![c] = [NoCall EXCEPT !.pc = "compare", !.admin = i]]
    BY <1>2 DEF FindAdmin
  <2>2. /\ [NoCall EXCEPT !.pc = "compare", !.admin = i] \in Call
        /\ admin[i].email # NoOne /\ call[c].pc = "idle"
        /\ UNCHANGED <<admin, visit, audit, barred>>
    BY <1>2, <2>1, NothingTyped DEF Call, FindAdmin
  <2>3. /\ call' \in [Callers -> Call] /\ \A d \in Callers : d # c => call'[d] = call[d]
        /\ call'[c].pc = "compare" /\ call'[c].admin = i /\ ~call'[c].logout
    BY <1>1, <2>1, <2>2 DEF NoCall
  <2>4. AdminTypeOK'
    BY <1>1, <2>2, <2>3 DEF AdminTypeOK, Admin, Visit, Call
  <2> QED
    BY <1>1, <2>2, <2>3, <2>4
<1>3. CASE ComparePassword(c)
  <2>1. call[c].pc = "compare" /\ UNCHANGED <<admin, visit, audit>>
    BY <1>3 DEF ComparePassword
  <2>2. CASE Proceed(c, "session") /\ UNCHANGED barred
    <3>1. AdminTypeOK'
      BY <1>1, <2>1, <2>2, ProceedMoves DEF AdminTypeOK, Admin, Visit, Call
    <3> QED
      BY <1>1, <2>1, <2>2, <3>1, ProceedMoves
  <2>3. CASE Answer(c)
    <3>1. AdminTypeOK'
      BY <1>1, <2>1, <2>3, AnswerEnds DEF AdminTypeOK, Admin, Visit, Call
    <3> QED
      BY <1>1, <2>1, <2>3, <3>1, AnswerEnds DEF NoCall
  <2> QED
    BY <1>3, <2>2, <2>3 DEF ComparePassword
<1>4. CASE CreateAdminSession(c)
  <2>1. PICK s \in Visits :
          /\ visit[s].state = "none"
          /\ visit' = [visit EXCEPT
               ![s] = [NoVisit EXCEPT !.state = "live", !.admin = call[c].admin]]
          /\ call' = [call EXCEPT ![c].pc = "record", ![c].visit = s]
    BY <1>4 DEF CreateAdminSession
  <2>2. /\ call[c].pc = "session" /\ call[c].admin \in Accounts /\ ~call[c].logout
        /\ admin[call[c].admin].email # NoOne /\ UNCHANGED <<admin, audit, barred>>
    BY <1>4 DEF CreateAdminSession
  <2>3. [NoVisit EXCEPT !.state = "live", !.admin = call[c].admin] \in Visit
    BY <2>2, NothingTyped DEF Visit
  <2>4. /\ visit' \in [Visits -> Visit] /\ \A r \in Visits : r # s => visit'[r] = visit[r]
        /\ visit'[s].state = "live" /\ visit'[s].admin = call[c].admin
    BY <1>1, <2>1, <2>3 DEF NoVisit
  <2>5. /\ call' \in [Callers -> Call] /\ \A d \in Callers : d # c => call'[d] = call[d]
        /\ call'[c].pc = "record" /\ call'[c].visit = s /\ ~call'[c].logout
    <3>1. [call[c] EXCEPT !.pc = "record", !.visit = s] \in Call
      BY <1>1 DEF Call
    <3>2. call' = [call EXCEPT ![c] = [call[c] EXCEPT !.pc = "record", !.visit = s]]
      BY <2>1
    <3> QED
      BY <1>1, <2>2, <3>1, <3>2 DEF Call
  <2>6. AdminTypeOK'
    BY <1>1, <2>2, <2>4, <2>5 DEF AdminTypeOK, Admin, Visit, Call
  <2>7. AuditIsTrue'
    BY <1>1, <2>1, <2>2, <2>4
  <2>8. VisitsHaveAdmins' /\ CallersHaveVisits'
    BY <1>1, <2>1, <2>2, <2>4, <2>5
  <2>9. \A d \in barred : d # c /\ call[d].visit # s
    BY <1>1, <2>1, <2>2
  <2>10. DeactivationHolds' /\ BarredCallersWait'
    BY <1>1, <2>2, <2>4, <2>5, <2>9
  <2> QED
    BY <2>6, <2>7, <2>8, <2>10
<1>5. CASE RecordAudit(c)
  <2> DEFINE event ==
        <<IF call[c].logout THEN "admin_logout" ELSE "admin_login", call[c].visit>>
  <2>1. /\ call[c].pc = "record" /\ audit' \in {audit, audit \union {event}} /\ Answer(c)
        /\ UNCHANGED <<admin, visit>>
    BY <1>5 DEF RecordAudit
  <2>2. /\ event \in {"admin_login", "admin_logout"} \X Visits
        /\ IF event[1] = "admin_logout" THEN visit[event[2]].state = "revoked"
                                        ELSE visit[event[2]].state # "none"
    BY <2>1
  <2>3. AdminTypeOK'
    BY <1>1, <2>1, <2>2, AnswerEnds DEF AdminTypeOK, Admin, Visit, Call
  <2>4. AuditIsTrue'
    BY <2>1, <2>2
  <2> QED
    BY <1>1, <2>1, <2>3, <2>4, AnswerEnds DEF NoCall
<1> QED
  BY <1>2, <1>3, <1>4, <1>5

\* A request of a session, and the end of a session.
LEMMA RequestKept ==
  ASSUME AdminInv, NEW c \in Callers,
         \/ SendRequest(c) \/ AuthenticateAdmin(c) \/ TouchAdminSession(c)
         \/ Serve(c) \/ LogoutAdmin(c)
  PROVE  AdminTypeOK' /\ AdminSound'
<1> USE DEF AdminInv
<1>1. /\ admin \in [Accounts -> Admin] /\ visit \in [Visits -> Visit]
      /\ call \in [Callers -> Call]
      /\ audit \subseteq {"admin_login", "admin_logout"} \X Visits /\ barred \subseteq Callers
  BY AdminTypes
<1> USE DEF DeactivationHolds, AuditIsTrue, BarredCallersWait, VisitsHaveAdmins,
            CallersHaveVisits, AdminSound, Known
<1>2. CASE SendRequest(c)
  <2>1. PICK s \in Visits, out \in BOOLEAN :
          /\ visit[s].state # "none"
          /\ call' = [call EXCEPT
               ![c] = [NoCall EXCEPT !.pc = "sent", !.visit = s, !.logout = out]]
          /\ barred' = IF admin[visit[s].admin].active THEN barred ELSE barred \union {c}
    BY <1>2 DEF SendRequest
  <2>2. [NoCall EXCEPT !.pc = "sent", !.visit = s, !.logout = out] \in Call
    BY NothingTyped DEF Call
  <2>3. /\ call' \in [Callers -> Call] /\ \A d \in Callers : d # c => call'[d] = call[d]
        /\ call'[c].pc = "sent" /\ call'[c].visit = s
    BY <1>1, <2>1, <2>2 DEF NoCall
  <2>4. call[c].pc = "idle" /\ c \notin barred /\ UNCHANGED <<admin, visit, audit>>
    BY <1>2 DEF SendRequest
  <2>5. AdminTypeOK'
    BY <1>1, <2>1, <2>3, <2>4 DEF AdminTypeOK, Admin, Visit, Call
  <2> QED
    BY <1>1, <2>1, <2>3, <2>4, <2>5
<1>3. CASE AuthenticateAdmin(c)
  <2>1. call[c].pc = "sent" /\ UNCHANGED <<admin, visit, audit>>
    BY <1>3 DEF AuthenticateAdmin
  <2>2. CASE Admitted(call[c].visit) /\ Proceed(c, "touch") /\ UNCHANGED barred
    <3>1. c \notin barred
      BY <2>2 DEF Admitted
    <3>2. AdminTypeOK'
      BY <1>1, <2>1, <2>2, ProceedMoves DEF AdminTypeOK, Admin, Visit, Call
    <3> QED
      BY <1>1, <2>1, <2>2, <3>1, <3>2, ProceedMoves
  <2>3. CASE Answer(c)
    <3>1. AdminTypeOK'
      BY <1>1, <2>1, <2>3, AnswerEnds DEF AdminTypeOK, Admin, Visit, Call
    <3> QED
      BY <1>1, <2>1, <2>3, <3>1, AnswerEnds DEF NoCall
  <2> QED
    BY <1>3, <2>2, <2>3 DEF AuthenticateAdmin
<1>4. CASE TouchAdminSession(c)
  <2>1. /\ call[c].pc = "touch" /\ UNCHANGED <<admin, audit, barred>>
        /\ Proceed(c, IF call[c].logout THEN "revoke" ELSE "serve")
        /\ visit' = visit \/ visit' = [visit EXCEPT ![call[c].visit].seen = c]
    BY <1>4 DEF TouchAdminSession
  <2>2. /\ visit' \in [Visits -> Visit]
        /\ \A s \in Visits : visit'[s].state = visit[s].state /\ visit'[s].admin = visit[s].admin
    BY <1>1, <2>1 DEF Visit
  <2>3. /\ call' \in [Callers -> Call] /\ \A d \in Callers : d # c => call'[d] = call[d]
        /\ call'[c].pc \in {"revoke", "serve"} /\ call'[c].visit = call[c].visit
    BY <1>1, <2>1, ProceedMoves
  <2>4. AdminTypeOK'
    BY <1>1, <2>1, <2>2, <2>3 DEF AdminTypeOK, Admin, Visit, Call
  <2>5. c \notin barred
    BY <2>1
  <2>6. \A d \in barred : d # c /\ call'[d] = call[d] /\ call[d].visit \in Visits
    BY <1>1, <2>3, <2>5
  <2>7. DeactivationHolds' /\ BarredCallersWait'
    BY <2>1, <2>2, <2>6
  <2>8. AuditIsTrue'
    BY <1>1, <2>1, <2>2
  <2>9. VisitsHaveAdmins' /\ CallersHaveVisits'
    BY <1>1, <2>1, <2>2, <2>3
  <2> QED
    BY <2>4, <2>7, <2>8, <2>9
<1>5. CASE Serve(c)
  <2>1. call[c].pc = "serve" /\ UNCHANGED <<admin, visit, audit>> /\ Answer(c)
    BY <1>5 DEF Serve
  <2>2. AdminTypeOK'
    BY <1>1, <2>1, AnswerEnds DEF AdminTypeOK, Admin, Visit, Call
  <2> QED
    BY <1>1, <2>1, <2>2, AnswerEnds DEF NoCall
<1>6. CASE LogoutAdmin(c)
  <2>1. call[c].pc = "revoke" /\ UNCHANGED <<admin, audit>>
    BY <1>6 DEF LogoutAdmin
  <2>2. CASE Answer(c) /\ UNCHANGED visit
    <3>1. AdminTypeOK'
      BY <1>1, <2>1, <2>2, AnswerEnds DEF AdminTypeOK, Admin, Visit, Call
    <3> QED
      BY <1>1, <2>1, <2>2, <3>1, AnswerEnds DEF NoCall
  <2>3. CASE RevokeAdminSession(call[c].visit) /\ Proceed(c, "record") /\ UNCHANGED barred
    <3>1. /\ visit' \in [Visits -> Visit] /\ visit'[call[c].visit].state = "revoked"
          /\ \A s \in Visits : visit'[s].admin = visit[s].admin
          /\ \A s \in Visits : visit'[s].state \in {visit[s].state, "revoked"}
          /\ \A s \in Visits : visit[s].state = "none" => visit'[s].state = "none"
      BY <1>1, <2>1, <2>3 DEF RevokeAdminSession, Visit
    <3>2. /\ call' \in [Callers -> Call] /\ \A d \in Callers : d # c => call'[d] = call[d]
          /\ call'[c].pc = "record" /\ call'[c].visit = call[c].visit
      BY <1>1, <2>3, ProceedMoves
    <3>3. AdminTypeOK'
      BY <1>1, <2>1, <2>3, <3>1, <3>2 DEF AdminTypeOK, Admin, Visit, Call
    <3>4. \A d \in barred : d # c /\ call'[d] = call[d] /\ call[d].visit \in Visits
      BY <1>1, <2>1, <3>2
    <3>5. DeactivationHolds' /\ BarredCallersWait'
      BY <2>1, <2>3, <3>1, <3>4
    <3>6. AuditIsTrue'
      BY <1>1, <2>1, <3>1
    <3>7. VisitsHaveAdmins' /\ CallersHaveVisits'
      BY <1>1, <2>1, <3>1, <3>2
    <3> QED
      BY <3>3, <3>5, <3>6, <3>7
  <2> QED
    BY <1>6, <2>2, <2>3 DEF LogoutAdmin
<1> QED
  BY <1>2, <1>3, <1>4, <1>5, <1>6

\* Sessions that end by themselves.
LEMMA ExpiryKept ==
  ASSUME AdminInv, NEW s \in Visits, ExpireVisit(s) PROVE AdminTypeOK' /\ AdminSound'
<1> USE DEF AdminInv
<1>1. /\ admin \in [Accounts -> Admin] /\ visit \in [Visits -> Visit]
      /\ call \in [Callers -> Call]
      /\ audit \subseteq {"admin_login", "admin_logout"} \X Visits /\ barred \subseteq Callers
  BY AdminTypes
<1>2. /\ visit[s].state = "live" /\ visit' = [visit EXCEPT ![s].state = "expired"]
      /\ UNCHANGED <<admin, call, audit, barred>>
  BY DEF ExpireVisit, Awake
<1>3. /\ visit' \in [Visits -> Visit]
      /\ \A r \in Visits : visit'[r].admin = visit[r].admin
      /\ \A r \in Visits : r # s => visit'[r] = visit[r]
      /\ visit'[s].state = "expired"
  BY <1>1, <1>2 DEF Visit
<1>4. AdminTypeOK'
  BY <1>1, <1>2, <1>3 DEF AdminTypeOK, Admin, Visit, Call
<1>5. AuditIsTrue' /\ DeactivationHolds'
  BY <1>1, <1>2, <1>3 DEF AuditIsTrue, DeactivationHolds
<1>6. VisitsHaveAdmins' /\ CallersHaveVisits'
  BY <1>1, <1>2, <1>3 DEF VisitsHaveAdmins, CallersHaveVisits, Known
<1>7. BarredCallersWait'
  BY <1>1, <1>2, <1>3 DEF BarredCallersWait, CallersHaveVisits
<1> QED
  BY <1>4, <1>5, <1>6, <1>7 DEF AdminSound

-----------------------------------------------------------------------------

\* AdminInv holds in every reachable state.
THEOREM AdminInvariance == AdminSpec => []AdminInv
<1>1. AdminInit => AdminInv
  <2> SUFFICES ASSUME AdminInit PROVE AdminInv
    OBVIOUS
  <2>1. AdminTypeOK
    BY NothingTyped, AdminTypes DEF AdminInit
  <2>2. /\ audit = {} /\ barred = {} /\ \A c \in Callers : call[c].pc = "idle"
        /\ \A s \in Visits : visit[s].state = "none"
    BY DEF AdminInit, NoCall, NoVisit
  <2>3. DeactivationHolds /\ AuditIsTrue /\ BarredCallersWait
    BY <2>2 DEF DeactivationHolds, AuditIsTrue, BarredCallersWait
  <2>4. VisitsHaveAdmins /\ CallersHaveVisits
    BY <2>2 DEF VisitsHaveAdmins, CallersHaveVisits
  <2> QED
    BY <2>1, <2>3, <2>4 DEF AdminInv
<1>2. AdminInv /\ [AdminNext]_adminVars => AdminInv'
  <2> SUFFICES ASSUME AdminInv, [AdminNext]_adminVars PROVE AdminInv'
    OBVIOUS
  <2>1. CASE UNCHANGED adminVars
    BY <2>1 DEF adminVars, AdminInv, AdminTypeOK, DeactivationHolds, AuditIsTrue, Known,
                BarredCallersWait, VisitsHaveAdmins, CallersHaveVisits
  <2>2. CASE AdminNext
    BY <2>2, AccountsKept, LoginKept, RequestKept, ExpiryKept
       DEF AdminNext, CallerStep, AdminInv, AdminSound
  <2> QED
    BY <2>1, <2>2
<1> QED
  BY <1>1, <1>2, PTL DEF AdminSpec

\* A request that is sent while its account is inactive is refused unless the
\* account comes back, whatever logins and requests are under way.
THEOREM DeactivationIsImmediate == AdminSpec => []DeactivationHolds
<1>1. AdminInv => DeactivationHolds
  BY DEF AdminInv
<1> QED
  BY <1>1, AdminInvariance, PTL

\* A recorded logout is of a session that is over, a recorded login of one that
\* was created.
THEOREM AuditTrailIsTrue == AdminSpec => []AuditIsTrue
<1>1. AdminInv => AuditIsTrue
  BY DEF AdminInv
<1> QED
  BY <1>1, AdminInvariance, PTL

\* The row of a session that is over is never written again, except for its
\* revocation.
THEOREM DeadVisitsStand == AdminSpec => DeadVisitsAreFrozen
<1> DEFINE Frozen ==
      \A s \in Visits :
        visit[s].state \in {"revoked", "expired"} =>
          /\ visit'[s].seen = visit[s].seen
          /\ visit'[s].state \in {visit[s].state, "revoked"}
<1>1. AdminInv /\ [AdminNext]_adminVars => [Frozen]_adminVars
  <2> SUFFICES ASSUME AdminInv, AdminNext, NEW s \in Visits,
                      visit[s].state \in {"revoked", "expired"}
               PROVE  /\ visit'[s].seen = visit[s].seen
                      /\ visit'[s].state \in {visit[s].state, "revoked"}
    OBVIOUS
  <2>1. visit \in [Visits -> Visit] /\ visit[s].state \notin {"none", "live"}
    BY AdminTypes DEF AdminInv
  <2>2. CASE UNCHANGED visit
    BY <2>2
  <2>3. ASSUME NEW c \in Callers, CreateAdminSession(c) PROVE visit'[s] = visit[s]
    BY <2>1, <2>3 DEF CreateAdminSession
  <2>4. ASSUME NEW c \in Callers, TouchAdminSession(c) PROVE visit'[s] = visit[s]
    BY <2>1, <2>4 DEF TouchAdminSession, Awake
  <2>5. ASSUME NEW c \in Callers, LogoutAdmin(c)
        PROVE  visit'[s].seen = visit[s].seen /\ visit'[s].state \in {visit[s].state, "revoked"}
    BY <2>1, <2>5 DEF LogoutAdmin, RevokeAdminSession, Visit
  <2>6. ASSUME NEW r \in Visits, ExpireVisit(r) PROVE visit'[s] = visit[s]
    BY <2>1, <2>6 DEF ExpireVisit, Awake
  <2> QED
    BY <2>2, <2>3, <2>4, <2>5, <2>6
       DEF AdminNext, CallerStep, CreateUser, SetActive, FindAdmin, ComparePassword, RecordAudit,
           SendRequest, AuthenticateAdmin, Serve
<1> QED
  BY <1>1, AdminInvariance, PTL DEF AdminSpec, DeadVisitsAreFrozen

-----------------------------------------------------------------------------
(* RateLimiter: one key, its bucket and the ages of its requests *)

Bucket == [age : 0..Past, count : 0..Limit]
Ages == [1..Many -> 0..Past]

\* The ages of the requests when one more is allowed.
OneMore(g) == [i \in 1..Many |-> IF i = 1 THEN 0 ELSE g[i - 1]]

\* What the invariant says of one key.
KeyInv(b, g) ==
  /\ \A i \in 1..b.count : g[i] <= b.age
  /\ b.count > 0 => \A i \in 1..Many : i > b.count => g[i] >= b.age - Lag
  /\ \A i \in 1..Many : i > b.count + Limit => g[i] >= Window - Lag

\* The numbers the constants come to.
LEMMA LimiterNumbers ==
  /\ Limit \in Nat \ {0} /\ Window \in Nat \ {0} /\ Lag \in Nat /\ Lag < Window
  /\ Interval \in Nat /\ MaxBuckets \in Nat \ {0}
  /\ Past \in Nat /\ Past = Window + Lag /\ Many \in Nat /\ Many = 2 * Limit + 1
BY LimiterAssumption DEF Past, Many

\* What a key starts with, and what is left of one whose bucket was evicted.
LEMMA FreshKey == Gone \in Bucket /\ NoGrants \in Ages /\ KeyInv(Gone, NoGrants)
BY LimiterNumbers DEF Gone, NoGrants, Bucket, Ages, KeyInv

\* Ages grow with time, up to their bound, and keep their order.
LEMMA OlderAges ==
  ASSUME NEW bound \in Nat, NEW a \in 0..bound
  PROVE  /\ Older(a, bound) \in 0..bound
         /\ Older(a, bound) = (IF a < bound THEN a + 1 ELSE a)
BY DEF Older

\* Time passes.
LEMMA KeyAges ==
  ASSUME NEW b \in Bucket, NEW g \in Ages, KeyInv(b, g)
  PROVE  LET later == [b EXCEPT !.age = Older(@, Past)]
             ages == [i \in 1..Many |-> Older(g[i], Past)]
         IN later \in Bucket /\ ages \in Ages /\ KeyInv(later, ages)
<1> DEFINE later == [b EXCEPT !.age = Older(@, Past)]
           ages == [i \in 1..Many |-> Older(g[i], Past)]
<1>1. /\ later \in Bucket /\ later.count = b.count
      /\ later.age = (IF b.age < Past THEN b.age + 1 ELSE b.age)
      /\ b.count \in 0..Limit /\ b.age \in 0..Past
  BY LimiterNumbers, OlderAges DEF Bucket
<1>2. \A i \in 1..Many :
        /\ g[i] \in 0..Past /\ ages[i] \in 0..Past
        /\ ages[i] = (IF g[i] < Past THEN g[i] + 1 ELSE g[i])
  BY LimiterNumbers, OlderAges DEF Ages
<1>3. ages \in Ages
  BY <1>2 DEF Ages
<1> HIDE DEF later, ages
<1>4. \A i \in 1..later.count : ages[i] <= later.age
  BY <1>1, <1>2, LimiterNumbers DEF KeyInv
<1>5. later.count > 0 => \A i \in 1..Many : i > later.count => ages[i] >= later.age - Lag
  BY <1>1, <1>2, LimiterNumbers DEF KeyInv
<1>6. \A i \in 1..Many : i > later.count + Limit => ages[i] >= Window - Lag
  BY <1>1, <1>2, LimiterNumbers DEF KeyInv
<1>7. KeyInv(later, ages)
  BY <1>4, <1>5, <1>6 DEF KeyInv
<1> QED
  BY <1>1, <1>3, <1>7 DEF later, ages

\* A new window begins, with the window before it at least Window - Lag away.
LEMMA KeyStarts ==
  ASSUME NEW late \in 0..Lag, NEW g \in Ages,
         \A i \in 1..Many : i > Limit => g[i] >= Window - Lag
  PROVE  LET first == [age |-> late, count |-> 1]
         IN first \in Bucket /\ OneMore(g) \in Ages /\ KeyInv(first, OneMore(g))
<1> DEFINE first == [age |-> late, count |-> 1]
<1>1. first \in Bucket /\ first.age = late /\ first.count = 1 /\ late \in Nat /\ late <= Lag
  BY LimiterNumbers DEF Bucket
<1>2. \A i \in 1..Many :
        /\ OneMore(g)[i] \in 0..Past
        /\ OneMore(g)[i] = (IF i = 1 THEN 0 ELSE g[i - 1])
  BY LimiterNumbers DEF OneMore, Ages
<1>3. OneMore(g) \in Ages
  BY <1>2 DEF OneMore, Ages
<1> HIDE DEF first
<1>4. \A i \in 1..first.count : OneMore(g)[i] <= first.age
  BY <1>1, <1>2, LimiterNumbers
<1>5. \A i \in 1..Many : i > first.count => OneMore(g)[i] >= first.age - Lag
  BY <1>1, <1>2, LimiterNumbers
<1>6. ASSUME NEW i \in 1..Many, i > first.count + Limit PROVE OneMore(g)[i] >= Window - Lag
  <2>1. i - 1 \in 1..Many /\ i - 1 > Limit /\ i # 1
    BY <1>1, <1>6, LimiterNumbers
  <2>2. OneMore(g)[i] = g[i - 1]
    BY <1>2, <2>1
  <2> QED
    BY <2>1, <2>2
<1>7. KeyInv(first, OneMore(g))
  BY <1>4, <1>5, <1>6 DEF KeyInv
<1> QED
  BY <1>1, <1>3, <1>7 DEF first

\* One more request in the window.
LEMMA KeyConsumes ==
  ASSUME NEW b \in Bucket, NEW g \in Ages, KeyInv(b, g), b.count > 0, b.count < Limit
  PROVE  LET more == [b EXCEPT !.count = @ + 1]
         IN more \in Bucket /\ OneMore(g) \in Ages /\ KeyInv(more, OneMore(g))
<1> DEFINE more == [b EXCEPT !.count = @ + 1]
<1>1. /\ more \in Bucket /\ more.count = b.count + 1 /\ more.age = b.age
      /\ b.count \in Nat /\ b.count <= Limit /\ b.age \in 0..Past
  BY LimiterNumbers DEF Bucket
<1>2. \A i \in 1..Many :
        /\ OneMore(g)[i] \in 0..Past
        /\ OneMore(g)[i] = (IF i = 1 THEN 0 ELSE g[i - 1])
  BY LimiterNumbers DEF OneMore, Ages
<1>3. OneMore(g) \in Ages
  BY <1>2 DEF OneMore, Ages
<1>4. \A i \in 1..Many : i # 1 => i - 1 \in 1..Many /\ g[i - 1] \in 0..Past
  BY LimiterNumbers DEF Ages
<1> HIDE DEF more
<1>5. ASSUME NEW i \in 1..more.count PROVE OneMore(g)[i] <= more.age
  <2>1. i \in 1..Many
    BY <1>1, LimiterNumbers
  <2>2. i # 1 => i - 1 \in 1..b.count
    BY <1>1
  <2> QED
    BY <1>1, <1>2, <2>1, <2>2 DEF KeyInv
<1>6. ASSUME NEW i \in 1..Many, i > more.count PROVE OneMore(g)[i] >= more.age - Lag
  <2>1. i # 1 /\ i - 1 \in 1..Many /\ i - 1 > b.count
    BY <1>1, <1>6, LimiterNumbers
  <2> QED
    BY <1>1, <1>2, <2>1 DEF KeyInv
<1>7. ASSUME NEW i \in 1..Many, i > more.count + Limit PROVE OneMore(g)[i] >= Window - Lag
  <2>1. i # 1 /\ i - 1 \in 1..Many /\ i - 1 > b.count + Limit
    BY <1>1, <1>7, LimiterNumbers
  <2> QED
    BY <1>1, <1>2, <2>1 DEF KeyInv
<1>8. KeyInv(more, OneMore(g))
  BY <1>5, <1>6, <1>7 DEF KeyInv
<1> QED
  BY <1>1, <1>3, <1>8 DEF more

\* Of a key without a bucket, or whose window is over, no more than one quota of
\* requests is younger than Window - Lag.
LEMMA KeyForgets ==
  ASSUME NEW b \in Bucket, NEW g \in Ages, KeyInv(b, g),
         b.count = 0 \/ b.age >= Window
  PROVE  /\ \A i \in 1..Many : i > Limit => g[i] >= Window - Lag
         /\ KeyInv(Gone, g)
<1>1. b.count \in 0..Limit /\ b.age \in 0..Past /\ \A i \in 1..Many : g[i] \in 0..Past
  BY DEF Bucket, Ages
<1>2. \A i \in 1..Many : i > Limit => g[i] >= Window - Lag
  <2>1. CASE b.count = 0
    BY <1>1, <2>1, LimiterNumbers DEF KeyInv
  <2>2. CASE b.count > 0 /\ b.age >= Window
    BY <1>1, <2>2, LimiterNumbers DEF KeyInv
  <2> QED
    BY <1>1, <2>1, <2>2
<1> QED
  BY <1>2, LimiterNumbers DEF KeyInv, Gone

-----------------------------------------------------------------------------
(* RateLimiter: steps *)

\* The types by their names, and the three facts of each key together.
LEMMA LimiterParts ==
  /\ LimiterTypeOK <=> /\ buckets \in [Peers -> Bucket] /\ grants \in [Peers -> Ages]
                       /\ lastCleanup \in 0..(Interval + Lag) /\ wronged \subseteq Peers
  /\ CountsAreGrants /\ EarlierGrantsPrecede /\ TwoWindowsApart
       <=> \A k \in Peers : KeyInv(buckets[k], grants[k])
BY DEF LimiterTypeOK, Bucket, Ages, CountsAreGrants, EarlierGrantsPrecede, TwoWindowsApart,
   KeyInv, Buckets

LimiterKeys ==
  /\ buckets \in [Peers -> Bucket] /\ grants \in [Peers -> Ages]
  /\ \A k \in Peers : KeyInv(buckets[k], grants[k])

\* What a request that is allowed adds to the history.
LEMMA GrantKeeps ==
  ASSUME grants \in [Peers -> Ages], NEW k \in Peers, NEW lost, k \notin lost, Grant(k, lost)
  PROVE  /\ grants'[k] = OneMore(grants[k])
         /\ \A j \in Peers \ {k} : grants'[j] = IF j \in lost THEN NoGrants ELSE grants[j]
         /\ grants' = [j \in Peers |-> grants'[j]]
<1>1. grants' = [j \in Peers |-> CASE j = k -> OneMore(grants[j]) [] j \in lost -> NoGrants
                                   [] OTHER -> grants[j]]
  BY DEF Grant, OneMore
<1>2. \A j \in Peers : grants'[j] = CASE j = k -> OneMore(grants[j]) [] j \in lost -> NoGrants
                                      [] OTHER -> grants[j]
  BY <1>1
<1>3. grants'[k] = OneMore(grants[k])
  BY <1>2
<1>4. ASSUME NEW j \in Peers \ {k} PROVE grants'[j] = IF j \in lost THEN NoGrants ELSE grants[j]
  BY <1>2
<1> QED
  BY <1>1, <1>3, <1>4

\* Those for whom there is room have buckets.
LEMMA RoomIsTaken == ASSUME NEW late, NEW keys \in RoomFor(late) PROVE keys \subseteq Buckets
BY DEF RoomFor, Cleaned

\* A step of one key that keeps the others.
LEMMA OneKeyKept ==
  ASSUME LimiterKeys, NEW k \in Peers, NEW b, NEW g,
         b \in Bucket, g \in Ages, KeyInv(b, g),
         buckets' = [buckets EXCEPT ![k] = b], grants'[k] = g,
         \A j \in Peers \ {k} : grants'[j] = grants[j],
         grants' = [j \in Peers |-> grants'[j]]
  PROVE  LimiterKeys'
<1>1. \A j \in Peers : /\ buckets'[j] = IF j = k THEN b ELSE buckets[j]
                       /\ grants'[j] = IF j = k THEN g ELSE grants[j]
  BY DEF LimiterKeys
<1>2. buckets' \in [Peers -> Bucket]
  BY DEF LimiterKeys
<1>3. grants' \in [Peers -> Ages]
  <2>1. \A j \in Peers : grants'[j] \in Ages
    BY <1>1 DEF LimiterKeys
  <2> QED
    BY <2>1
<1>4. \A j \in Peers : KeyInv(buckets'[j], grants'[j])
  BY <1>1 DEF LimiterKeys
<1> QED
  BY <1>2, <1>3, <1>4 DEF LimiterKeys

\* A new bucket: its own key starts a window, those without a place lose theirs.
LEMMA NewBucketKept ==
  ASSUME LimiterKeys, NEW k \in Peers, NEW late \in 0..Lag, NewBucket(k, late)
  PROVE  LimiterKeys'
<1>0. late \in Nat /\ \A j \in Peers : buckets[j].age \in Nat /\ buckets[j].count \in Nat
  BY LimiterNumbers DEF LimiterKeys, Bucket
<1>1. PICK keys \in RoomFor(late) :
        /\ buckets' = [j \in Peers |-> CASE j = k -> [age |-> late, count |-> 1]
                                         [] j \in keys -> buckets[j]
                                         [] OTHER -> Gone]
        /\ Grant(k, {j \in Buckets \ keys : ~Expired(j, late)})
  BY DEF NewBucket
<1>6. k \notin Buckets /\ keys \subseteq Buckets
  BY RoomIsTaken DEF NewBucket
<1>2. /\ grants'[k] = OneMore(grants[k])
      /\ \A j \in Peers \ {k} :
           grants'[j] = IF j \in Buckets \ keys /\ ~Expired(j, late) THEN NoGrants ELSE grants[j]
      /\ grants' = [j \in Peers |-> grants'[j]]
  BY <1>1, <1>6, GrantKeeps DEF LimiterKeys
<1>3. ASSUME NEW j \in Peers
      PROVE  buckets'[j] \in Bucket /\ grants'[j] \in Ages /\ KeyInv(buckets'[j], grants'[j])
  <2>0. buckets[j] \in Bucket /\ grants[j] \in Ages /\ KeyInv(buckets[j], grants[j])
    BY DEF LimiterKeys
  <2>1. CASE j = k
    <3>1. buckets[k].count = 0
      BY <1>0 DEF NewBucket, Buckets
    <3>2. \A i \in 1..Many : i > Limit => grants[k][i] >= Window - Lag
      BY <2>0, <2>1, <3>1, KeyForgets
    <3>3. buckets'[k] = [age |-> late, count |-> 1]
      BY <1>1, <1>6
    <3> QED
      BY <1>2, <2>0, <2>1, <3>2, <3>3, KeyStarts
  <2>2. CASE j # k /\ j \in keys
    BY <1>1, <1>2, <2>0, <2>2
  <2>3. CASE j # k /\ j \notin keys
    <3>1. buckets'[j] = Gone
      BY <1>1, <2>3
    <3>2. CASE j \in Buckets /\ ~Expired(j, late)
      <4>1. grants'[j] = NoGrants
        BY <1>2, <2>3, <3>2
      <4> QED
        BY <3>1, <4>1, FreshKey
    <3>3. CASE j \notin Buckets \/ Expired(j, late)
      <4>1. grants'[j] = grants[j]
        BY <1>2, <2>3, <3>3
      <4>2. buckets[j].count = 0 \/ buckets[j].age >= Window
        BY <1>0, <3>3, LimiterNumbers DEF Buckets, Expired
      <4> QED
        BY <2>0, <3>1, <4>1, <4>2, FreshKey, KeyForgets
    <3> QED
      BY <3>2, <3>3
  <2> QED
    BY <2>1, <2>2, <2>3
<1>4. buckets' \in [Peers -> Bucket]
  <2>1. buckets' = [j \in Peers |-> buckets'[j]]
    BY <1>1
  <2> QED
    BY <1>3, <2>1
<1>5. grants' \in [Peers -> Ages]
  BY <1>2, <1>3
<1> QED
  BY <1>3, <1>4, <1>5 DEF LimiterKeys

\* Keys, buckets and history fit after any step.
LEMMA KeysKept == ASSUME LimiterKeys, [LimiterNext]_limiterVars PROVE LimiterKeys'
<1>1. CASE UNCHANGED limiterVars
  BY <1>1 DEF limiterVars, LimiterKeys
<1>2. CASE Tick
  <2>1. \A k \in Peers :
          /\ buckets'[k] = [buckets[k] EXCEPT !.age = Older(@, Past)]
          /\ grants'[k] = [i \in 1..Many |-> Older(grants[k][i], Past)]
    BY <1>2 DEF Tick
  <2>2. \A k \in Peers :
          buckets'[k] \in Bucket /\ grants'[k] \in Ages /\ KeyInv(buckets'[k], grants'[k])
    <3> SUFFICES ASSUME NEW k \in Peers
                 PROVE  /\ buckets'[k] \in Bucket /\ grants'[k] \in Ages
                        /\ KeyInv(buckets'[k], grants'[k])
      OBVIOUS
    <3> DEFINE later == [buckets[k] EXCEPT !.age = Older(@, Past)]
               ages == [i \in 1..Many |-> Older(grants[k][i], Past)]
    <3>1. buckets[k] \in Bucket /\ grants[k] \in Ages /\ KeyInv(buckets[k], grants[k])
      BY DEF LimiterKeys
    <3>2. later \in Bucket /\ ages \in Ages /\ KeyInv(later, ages)
      BY <3>1, KeyAges
    <3>3. buckets'[k] = later /\ grants'[k] = ages
      BY <2>1
    <3> HIDE DEF later, ages
    <3> QED
      BY <3>2, <3>3
  <2>3. buckets' = [k \in Peers |-> buckets'[k]] /\ grants' = [k \in Peers |-> grants'[k]]
    BY <1>2 DEF Tick
  <2> QED
    BY <2>2, <2>3 DEF LimiterKeys
<1>3. ASSUME NEW k \in Peers, NEW late \in 0..Lag, NextWindow(k, late) PROVE LimiterKeys'
  <2>1. /\ late \in Nat /\ buckets[k].age \in Nat /\ buckets[k].age >= Window
        /\ buckets[k] \in Bucket /\ grants[k] \in Ages /\ KeyInv(buckets[k], grants[k])
    BY <1>3, LimiterNumbers DEF LimiterKeys, Bucket, NextWindow, Expired
  <2>2. \A i \in 1..Many : i > Limit => grants[k][i] >= Window - Lag
    BY <2>1, KeyForgets
  <2> DEFINE first == [age |-> late, count |-> 1]
  <2>3. first \in Bucket /\ OneMore(grants[k]) \in Ages /\ KeyInv(first, OneMore(grants[k]))
    BY <2>1, <2>2, KeyStarts
  <2>4. /\ buckets' = [buckets EXCEPT ![k] = first]
        /\ grants'[k] = OneMore(grants[k])
        /\ \A j \in Peers \ {k} : grants'[j] = grants[j]
        /\ grants' = [j \in Peers |-> grants'[j]]
    BY <1>3, GrantKeeps DEF NextWindow, LimiterKeys
  <2> HIDE DEF first
  <2> QED
    BY <2>3, <2>4, OneKeyKept
<1>4. ASSUME NEW k \in Peers, NEW late \in 0..Lag, Consume(k, late) PROVE LimiterKeys'
  <2>1. /\ buckets[k] \in Bucket /\ grants[k] \in Ages /\ KeyInv(buckets[k], grants[k])
        /\ buckets[k].count > 0 /\ buckets[k].count < Limit
    BY <1>4 DEF LimiterKeys, Consume, Buckets
  <2> DEFINE more == [buckets[k] EXCEPT !.count = @ + 1]
  <2>2. more \in Bucket /\ OneMore(grants[k]) \in Ages /\ KeyInv(more, OneMore(grants[k]))
    BY <2>1, KeyConsumes
  <2>3. /\ buckets' = [buckets EXCEPT ![k] = more]
        /\ grants'[k] = OneMore(grants[k])
        /\ \A j \in Peers \ {k} : grants'[j] = grants[j]
        /\ grants' = [j \in Peers |-> grants'[j]]
    BY <1>4, GrantKeeps DEF Consume, LimiterKeys
  <2> HIDE DEF more
  <2> QED
    BY <2>2, <2>3, OneKeyKept
<1>5. ASSUME NEW k \in Peers, NEW late \in 0..Lag, Refuse(k, late) PROVE LimiterKeys'
  BY <1>5 DEF Refuse, LimiterKeys
<1> QED
  BY <1>1, <1>2, <1>3, <1>4, <1>5, NewBucketKept DEF LimiterNext, Allow

\* A step leaves the buckets of one key at most, and none where it had to make room.
LEMMA MapKept ==
  ASSUME LimiterKeys, MapIsBounded, [LimiterNext]_limiterVars PROVE MapIsBounded'
<1> USE DEF MapIsBounded
<1>1. ASSUME Buckets' = Buckets PROVE MapIsBounded'
  BY <1>1
<1>2. CASE UNCHANGED limiterVars
  BY <1>1, <1>2 DEF limiterVars, Buckets
<1>3. CASE Tick
  <2>1. \A k \in Peers : buckets'[k].count = buckets[k].count
    BY <1>3 DEF Tick, LimiterKeys, Bucket
  <2> QED
    BY <1>1, <2>1 DEF Buckets
<1>4. ASSUME NEW k \in Peers, NEW late \in 0..Lag, NextWindow(k, late) PROVE MapIsBounded'
  <2>1. \A j \in Peers : buckets'[j].count > 0 <=> buckets[j].count > 0
    BY <1>4 DEF NextWindow, LimiterKeys, Buckets
  <2> QED
    BY <1>1, <2>1 DEF Buckets
<1>5. ASSUME NEW k \in Peers, NEW late \in 0..Lag, Consume(k, late) PROVE MapIsBounded'
  <2>1. \A j \in Peers : buckets'[j].count > 0 <=> buckets[j].count > 0
    BY <1>5, LimiterNumbers DEF Consume, LimiterKeys, Buckets, Bucket
  <2> QED
    BY <1>1, <2>1 DEF Buckets
<1>6. ASSUME NEW k \in Peers, NEW late \in 0..Lag, Refuse(k, late) PROVE MapIsBounded'
  BY <1>1, <1>6 DEF Refuse, Buckets
<1>7. ASSUME NEW k \in Peers, NEW late \in 0..Lag, NewBucket(k, late) PROVE MapIsBounded'
  <2>1. PICK keys \in RoomFor(late) :
          buckets' = [j \in Peers |-> CASE j = k -> [age |-> late, count |-> 1]
                                        [] j \in keys -> buckets[j]
                                        [] OTHER -> Gone]
    BY <1>7 DEF NewBucket
  <2>2. keys \subseteq Buckets /\ k \notin Buckets /\ Buckets \subseteq Peers
    BY <1>7, RoomIsTaken DEF NewBucket, Buckets
  <2>3. Buckets' = keys \union {k}
    <3>1. \A j \in Peers : buckets'[j].count > 0 <=> j \in keys \/ j = k
      BY <2>1, <2>2 DEF Buckets, Gone
    <3> QED
      BY <2>2, <3>1 DEF Buckets
  <2>4. Cleaned(late) \subseteq Buckets /\ IsFiniteSet(Cleaned(late)) /\ IsFiniteSet(keys)
    BY <2>2, FS_Subset DEF Cleaned
  <2>5. /\ Cardinality(Cleaned(late)) \in Nat /\ Cardinality(keys) \in Nat
        /\ Cardinality(Cleaned(late)) <= Cardinality(Buckets) /\ Cardinality(Buckets) \in Nat
    BY <2>4, FS_Subset, FS_CardinalityType
  <2>6. Cardinality(keys) < MaxBuckets
    <3>1. CASE ~Full(Cleaned(late))
      BY <2>5, <3>1, LimiterNumbers DEF RoomFor, Full
    <3>2. CASE Full(Cleaned(late))
      <4>1. PICK v \in Cleaned(late) : keys = Cleaned(late) \ {v}
        BY <3>2 DEF RoomFor, Oldest
      <4>2. Cardinality(keys) = Cardinality(Cleaned(late)) - 1
        BY <2>4, <4>1, FS_RemoveElement
      <4> QED
        BY <2>5, <4>2, LimiterNumbers
    <3> QED
      BY <3>1, <3>2
  <2>7. IsFiniteSet(keys \union {k}) /\ Cardinality(keys \union {k}) = Cardinality(keys) + 1
    BY <2>2, <2>4, FS_AddElement
  <2> QED
    BY <2>3, <2>5, <2>6, <2>7, LimiterNumbers
<1> QED
  BY <1>2, <1>3, <1>4, <1>5, <1>6, <1>7 DEF LimiterNext, Allow

\* A key that is refused has used up the quota of its running window.
LEMMA RefusalsKept ==
  ASSUME LimiterKeys, RefusalsAreDeserved, [LimiterNext]_limiterVars
  PROVE  RefusalsAreDeserved'
<1> USE DEF RefusalsAreDeserved
<1>1. ASSUME NEW k \in Peers, NEW late \in 0..Lag, Refuse(k, late) PROVE wronged' = wronged
  <2>1. /\ buckets[k].age - late < Window /\ late \in Nat /\ late <= Lag
        /\ buckets[k].age \in Nat /\ buckets[k].count = Limit
    BY <1>1, LimiterNumbers DEF Refuse, Expired, LimiterKeys, Bucket
  <2>2. Limit \in 1..buckets[k].count /\ Limit \in 1..Many
    BY <2>1, LimiterNumbers
  <2>3. grants[k][Limit] <= buckets[k].age /\ grants[k][Limit] \in Nat
    BY <2>2, LimiterNumbers DEF LimiterKeys, KeyInv, Ages
  <2>4. Granted(k, Limit, Past)
    BY <2>1, <2>3, LimiterNumbers DEF Granted
  <2> QED
    BY <1>1, <2>4 DEF Refuse
<1>2. [LimiterNext]_limiterVars =>
        wronged' = wronged \/ \E k \in Peers, late \in 0..Lag : Refuse(k, late)
  BY DEF LimiterNext, limiterVars, Tick, Allow, NewBucket, NextWindow, Consume
<1> QED
  BY <1>1, <1>2

\* The history of the cleanups is of the right kind.
LEMMA CleanupTyped ==
  ASSUME LimiterInv, [LimiterNext]_limiterVars
  PROVE  lastCleanup' \in 0..(Interval + Lag) /\ wronged' \subseteq Peers
<1>1. lastCleanup \in 0..(Interval + Lag) /\ wronged \subseteq Peers
  BY DEF LimiterInv, LimiterTypeOK
<1>2. CASE UNCHANGED limiterVars
  BY <1>1, <1>2 DEF limiterVars
<1>3. CASE Tick
  <2>1. Interval + Lag \in Nat
    BY LimiterNumbers
  <2>2. Older(lastCleanup, Interval + Lag) \in 0..(Interval + Lag)
    BY <1>1, <2>1, OlderAges
  <2> QED
    BY <1>1, <1>3, <2>2 DEF Tick
<1>4. ASSUME NEW k \in Peers, NEW late \in 0..Lag, Allow(k, late)
      PROVE  lastCleanup' \in 0..(Interval + Lag) /\ wronged' \subseteq Peers
  <2>1. late \in 0..(Interval + Lag)
    BY LimiterNumbers
  <2> QED
    BY <1>1, <1>4, <2>1 DEF Allow, NewBucket, NextWindow, Consume, Refuse
<1> QED
  BY <1>2, <1>3, <1>4 DEF LimiterNext

\* Whatever the clock, the windows and the evictions do, buckets count what was
\* granted, and what they no longer count lies two windows back.
THEOREM LimiterInvariance == LimiterSpec => []LimiterInv
<1>1. LimiterInit => LimiterInv
  <2> SUFFICES ASSUME LimiterInit PROVE LimiterInv
    OBVIOUS
  <2>1. LimiterKeys
    BY FreshKey DEF LimiterInit, LimiterKeys
  <2>2. lastCleanup \in 0..(Interval + Lag) /\ wronged = {}
    BY LimiterNumbers DEF LimiterInit
  <2>3. Buckets = {}
    BY DEF LimiterInit, Buckets, Gone
  <2>4. MapIsBounded
    BY <2>3, FS_EmptySet, LimiterNumbers DEF MapIsBounded
  <2> QED
    BY <2>1, <2>2, <2>4, LimiterParts DEF LimiterInv, LimiterKeys, RefusalsAreDeserved
<1>2. LimiterInv => LimiterKeys
  BY LimiterParts DEF LimiterInv, LimiterKeys
<1>3. LimiterInv /\ [LimiterNext]_limiterVars => LimiterInv'
  <2> SUFFICES ASSUME LimiterInv, [LimiterNext]_limiterVars PROVE LimiterInv'
    OBVIOUS
  <2>1. LimiterKeys'
    BY <1>2, KeysKept
  <2>2. MapIsBounded' /\ RefusalsAreDeserved'
    BY <1>2, MapKept, RefusalsKept DEF LimiterInv
  <2>3. lastCleanup' \in 0..(Interval + Lag) /\ wronged' \subseteq Peers
    BY CleanupTyped
  <2>4. LimiterTypeOK'
    BY <2>1, <2>3 DEF LimiterTypeOK, LimiterKeys, Bucket, Ages
  <2>5. CountsAreGrants' /\ EarlierGrantsPrecede' /\ TwoWindowsApart'
    BY <2>1 DEF LimiterKeys, KeyInv, CountsAreGrants, EarlierGrantsPrecede, TwoWindowsApart,
       Buckets
  <2> QED
    BY <2>2, <2>4, <2>5 DEF LimiterInv
<1> QED
  BY <1>1, <1>3, PTL DEF LimiterSpec

\* Within Window - Lag no peer is allowed more than two quotas of requests, for
\* any limit, window, lateness of the clock readings and number of other peers.
THEOREM QuotaIsKept == LimiterSpec => []QuotaHolds
<1>1. LimiterInv => QuotaHolds
  <2> SUFFICES ASSUME LimiterInv, NEW k \in Peers PROVE ~Granted(k, 2 * Limit + 1, Window - Lag)
    BY DEF QuotaHolds
  <2>1. KeyInv(buckets[k], grants[k]) /\ buckets[k] \in Bucket /\ grants[k] \in Ages
    BY LimiterParts DEF LimiterInv
  <2>2. 2 * Limit + 1 \in 1..Many /\ 2 * Limit + 1 > buckets[k].count + Limit
    BY <2>1, LimiterNumbers DEF Bucket
  <2>3. grants[k][2 * Limit + 1] >= Window - Lag /\ grants[k][2 * Limit + 1] \in Nat
    BY <2>1, <2>2, LimiterNumbers DEF KeyInv, Ages
  <2> QED
    BY <2>3, LimiterNumbers DEF Granted
<1> QED
  BY <1>1, LimiterInvariance, PTL

\* Nobody is refused who has not used up the quota of a running window.
THEOREM NoWrongRefusal == LimiterSpec => []RefusalsAreDeserved
<1>1. LimiterInv => RefusalsAreDeserved
  BY DEF LimiterInv
<1> QED
  BY <1>1, LimiterInvariance, PTL

\* The map keeps its bound, and gives up a running window only when all run.
THEOREM EvictionsSpareRunning == LimiterSpec => RunningWindowsAreSpared
<1> DEFINE Spared ==
      /\ Cardinality(Buckets') <= MaxBuckets
      /\ (\E k \in Buckets \ Buckets' : ~Expired(k, 0)) =>
           Full(Buckets) /\ \A j \in Buckets : ~Expired(j, Lag)
<1>1. ASSUME LimiterInv, LimiterInv', [LimiterNext]_limiterVars PROVE Spared
  <2> USE <1>1
  <2>1. Cardinality(Buckets') <= MaxBuckets
    BY DEF LimiterInv, MapIsBounded
  <2>2. ASSUME NEW v \in Buckets, v \notin Buckets', ~Expired(v, 0)
        PROVE  Full(Buckets) /\ \A j \in Buckets : ~Expired(j, Lag)
    <3>0. LimiterKeys /\ v \in Peers
      BY LimiterParts DEF LimiterInv, LimiterKeys, Buckets
    <3>1. \A j \in Peers : buckets[j].age \in Nat /\ buckets[j].count \in Nat
      BY <3>0, LimiterNumbers DEF LimiterKeys, Bucket
    <3>2. PICK k \in Peers, late \in 0..Lag : NewBucket(k, late)
      <4>1. ~UNCHANGED limiterVars
        BY <2>2 DEF limiterVars, Buckets
      <4>2. ~Tick
        BY <2>2, <3>0 DEF Tick, Buckets, LimiterKeys, Bucket
      <4>3. ASSUME NEW k \in Peers, NEW late \in 0..Lag, Consume(k, late) PROVE FALSE
        <5>1. buckets' = [buckets EXCEPT ![k].count = @ + 1]
          BY <4>3 DEF Consume
        <5>2. buckets'[v].count >= buckets[v].count
          BY <3>0, <3>1, <5>1 DEF LimiterKeys, Bucket
        <5>3. buckets'[v].count \in Nat
          BY <3>0, <3>1, <5>1 DEF LimiterKeys, Bucket
        <5> QED
          BY <2>2, <3>0, <3>1, <5>2, <5>3 DEF Buckets
      <4>4. ASSUME NEW k \in Peers, NEW late \in 0..Lag, NextWindow(k, late) PROVE FALSE
        <5>1. buckets'[v].count = 1 \/ buckets'[v] = buckets[v]
          BY <3>0, <4>4 DEF NextWindow, LimiterKeys
        <5> QED
          BY <2>2, <3>0, <5>1 DEF Buckets
      <4>5. ASSUME NEW k \in Peers, NEW late \in 0..Lag, Refuse(k, late) PROVE FALSE
        BY <2>2, <4>5 DEF Refuse, Buckets
      <4> QED
        BY <4>1, <4>2, <4>3, <4>4, <4>5 DEF LimiterNext, Allow
    <3>3. PICK keys \in RoomFor(late) :
            buckets' = [j \in Peers |-> CASE j = k -> [age |-> late, count |-> 1]
                                          [] j \in keys -> buckets[j]
                                          [] OTHER -> Gone]
      BY <3>2 DEF NewBucket
    <3>4. k \notin Buckets /\ keys \subseteq Buckets
      BY <3>2, RoomIsTaken DEF NewBucket
    <3>5. v \notin keys
      <4>1. ASSUME v \in keys PROVE FALSE
        <5>1. buckets'[v] = buckets[v]
          BY <3>0, <3>3, <3>4, <4>1
        <5> QED
          BY <2>2, <3>0, <5>1 DEF Buckets
      <4> QED
        BY <4>1
    <3>6. buckets[v].age < Window
      BY <2>2, <3>0, <3>1, LimiterNumbers DEF Expired
    <3>7. v \in Cleaned(late)
      BY <2>2, <3>0, <3>1, <3>6, LimiterNumbers DEF Cleaned, Expired
    <3>8. Full(Cleaned(late)) /\ v \in Oldest(Cleaned(late))
      BY <3>5, <3>7 DEF RoomFor
    <3>9. Cleaned(late) = Buckets
      <4>1. Cleaned(late) \subseteq Buckets /\ IsFiniteSet(Buckets)
            /\ Cardinality(Buckets) <= MaxBuckets
        BY DEF Cleaned, LimiterInv, MapIsBounded
      <4>2. ASSUME Cleaned(late) # Buckets PROVE FALSE
        <5>1. Cardinality(Cleaned(late)) <= Cardinality(Buckets) /\ IsFiniteSet(Cleaned(late))
          BY <4>1, FS_Subset
        <5>2. Cardinality(Cleaned(late)) # Cardinality(Buckets)
          BY <4>1, <4>2, FS_Subset
        <5>3. Cardinality(Cleaned(late)) \in Nat /\ Cardinality(Buckets) \in Nat
          BY <4>1, <5>1, FS_CardinalityType
        <5> QED
          BY <3>8, <4>1, <5>1, <5>2, <5>3, LimiterNumbers DEF Full
      <4> QED
        BY <4>2
    <3>10. ASSUME NEW j \in Buckets PROVE ~Expired(j, Lag)
      <4>1. buckets[v].age >= buckets[j].age /\ buckets[j].age \in Nat
        BY <3>1, <3>8, <3>9 DEF Oldest, Buckets
      <4> QED
        BY <3>0, <3>1, <3>6, <4>1, LimiterNumbers DEF Expired
    <3> QED
      BY <3>8, <3>9, <3>10
  <2> QED
    BY <2>1, <2>2
<1> QED
  BY <1>1, LimiterInvariance, PTL DEF LimiterSpec, RunningWindowsAreSpared
=============================================================================

-------------------------- MODULE ClientSessionsProofs --------------------------
(***************************************************************************)
(* Theorems about ClientSessions, for any tabs, sessions and users.        *)
(***************************************************************************)
EXTENDS ClientSessions, TLAPS

SessionRow == [state : {"none", "live", "revoked", "expired"}, user : Users \union {Nobody},
               csrf : Token \union {Nobody}]
Jar == [session : Sessions \union {Nobody}, csrf : Token \union {Nobody},
        state : Tabs \union {Nobody}]
Memory == [token : Token \union {Nobody}, session : Sessions \union {Nobody}]
Req == [pc : {"idle", "google", "find", "write", "session", "landed",
              "me", "answer", "reply", "logout", "revoke", "bye"},
        session : Sessions \union {Nobody}, cookie : Token \union {Nobody},
        hash : Token \union {Nobody}, sub : Subs \union {Nobody},
        user : Users \union {Nobody}, set : BOOLEAN]

\* The types by their names.
LEMMA SessionTypes ==
  SessionTypeOK <=>
    /\ account \in [Users -> Subs \union {Nobody}] /\ anchor \in [Subs -> Users \union {Nobody}]
    /\ row \in [Sessions -> SessionRow] /\ jar \in Jar
    /\ tab \in [Tabs -> Memory] /\ req \in [Tabs -> Req] /\ crossed \subseteq Sessions
BY DEF SessionTypeOK, SessionRow, Jar, Memory, Req

\* What a tab and a request start with.
LEMMA NoneTyped == NoTab \in Memory /\ NoReq \in Req
BY DEF NoTab, Memory, NoReq, Req

\* The three tokens of a session differ, and no token is none.
LEMMA TokensDiffer ==
  ASSUME NEW s \in Sessions
  PROVE  /\ <<"login", s>> # Derived(s) /\ <<"old", s>> # Derived(s)
         /\ <<"old", s>> # <<"login", s>>
         /\ <<"login", s>> \in Token /\ <<"old", s>> \in Token /\ Derived(s) \in Token
         /\ Nobody \notin Token
BY SessionAssumption DEF Derived, Token

\* The invariant but for LandingsAreFresh, which only the arrival of a login needs.
SessionBase ==
  /\ SessionTypeOK /\ RefreshesConverge /\ AccountsAreAnchored
  /\ LoginsHaveUsers /\ SessionsExist /\ OneTokenForAll

\* SessionBase as each request has to keep it.
RequestSound(r) ==
  /\ r.pc \in {"find", "write"} => r.sub \in Subs
  /\ r.pc = "write" /\ r.user # Nobody => account[r.user] # Nobody
  /\ r.pc = "session" => r.user \in Users /\ account[r.user] # Nobody
  /\ r.session # Nobody => row[r.session].state # "none"
  /\ r.pc \notin {"idle", "google", "find", "write", "session"} => r.session # Nobody
  /\ r.session \in Sessions \ crossed =>
       /\ r.pc \in {"me", "answer"} => Presented(r.session, r.cookie) /\ ~r.set
       /\ r.pc = "answer" => r.hash = row[r.session].csrf
                             \/ (Refreshed(r.session) /\ r.hash = <<"old", r.session>>)
       /\ r.pc = "reply" => /\ r.cookie = Given(r.session) /\ (r.set => Refreshed(r.session))
                            /\ Live(r.session) => row[r.session].csrf = Given(r.session)

\* Requests are sound.
LEMMA EveryRequestSound ==
  ASSUME SessionBase, NEW t \in Tabs PROVE RequestSound(req[t])
BY DEF SessionBase, LoginsHaveUsers, SessionsExist, OneTokenForAll, RequestSound

\* A request that has ended is sound.
LEMMA NoReqIsSound == RequestSound(NoReq)
BY SessionAssumption DEF RequestSound, NoReq

\* SessionBase as accounts, cookies and tabs have to keep it.
AccountsSound ==
  /\ AccountsAreAnchored
  /\ \A g \in Subs : anchor[g] # Nobody => account[anchor[g]] = g
  /\ \A s \in Sessions : row[s].state # "none" => row[s].user \in Users

JarSound ==
  /\ jar.session # Nobody => row[jar.session].state # "none"
  /\ jar.session \in Sessions \ crossed => Presented(jar.session, jar.csrf)

RowsSound ==
  \A s \in Sessions \ crossed :
    row[s].state # "none" => row[s].csrf \in {<<"login", s>>, <<"old", s>>, Derived(s)}

MemorySound(m) ==
  /\ m.session # Nobody => row[m.session].state # "none"
  /\ m.token # Nobody => m.session # Nobody
  /\ m.session \in Sessions \ crossed /\ m.token # Nobody =>
       /\ m.token = Given(m.session)
       /\ Live(m.session) => row[m.session].csrf = Given(m.session)

SessionParts ==
  /\ SessionTypeOK /\ AccountsSound /\ JarSound /\ RowsSound
  /\ \A t \in Tabs : RequestSound(req[t]) /\ MemorySound(tab[t])

\* SessionBase, and its parts.
LEMMA InvariantInParts == SessionBase <=> SessionParts
<1>1. ASSUME SessionBase
      PROVE  /\ SessionTypeOK /\ AccountsSound /\ JarSound /\ RowsSound
             /\ \A t \in Tabs : RequestSound(req[t]) /\ MemorySound(tab[t])
  BY <1>1, EveryRequestSound
     DEF SessionBase, LoginsHaveUsers, SessionsExist, OneTokenForAll, AccountsSound, JarSound,
         RowsSound, MemorySound
<1>2. ASSUME SessionTypeOK, AccountsSound, JarSound, RowsSound,
             \A t \in Tabs : RequestSound(req[t]) /\ MemorySound(tab[t])
      PROVE  SessionBase
  <2>1. AccountsAreAnchored /\ LoginsHaveUsers
    BY <1>2 DEF AccountsSound, LoginsHaveUsers, RequestSound
  <2>2. SessionsExist
    BY <1>2 DEF JarSound, MemorySound, SessionsExist, RequestSound
  <2>3. OneTokenForAll
    BY <1>2 DEF JarSound, RowsSound, MemorySound, OneTokenForAll, RequestSound
  <2>4. \A t \in Tabs : tab[t] \in Memory
    BY <1>2, SessionTypes
  <2>5. RefreshesConverge
    BY <1>2, <2>4 DEF MemorySound, RefreshesConverge, Memory
  <2> QED
    BY <1>2, <2>1, <2>2, <2>3, <2>5 DEF SessionBase
<1> QED
  BY <1>1, <1>2 DEF SessionParts

\* And in the next state.
LEMMA NextInParts == SessionParts' => SessionBase'
BY InvariantInParts, PTL

\* Steps that write no row and no cookie of a session.
LEMMA QuietStepKept ==
  ASSUME SessionBase, NEW t \in Tabs, NEW r \in Req, NEW m \in {tab[t], NoTab},
         UNCHANGED <<rowsOf, crossed>>, jar' \in Jar,
         jar'.session = jar.session, jar'.csrf = jar.csrf,
         tab' = [tab EXCEPT ![t] = m], req' = [req EXCEPT ![t] = r], RequestSound(r)
  PROVE  SessionBase'
<1>1. /\ SessionTypeOK /\ AccountsSound /\ JarSound /\ RowsSound
      /\ \A u \in Tabs : RequestSound(req[u]) /\ MemorySound(tab[u])
  BY InvariantInParts DEF SessionParts
<1>2. account' = account /\ anchor' = anchor /\ row' = row /\ crossed' = crossed
  BY DEF rowsOf
<1>3. tab \in [Tabs -> Memory] /\ req \in [Tabs -> Req] /\ m \in Memory
  BY <1>1, SessionTypes, NoneTyped
<1>4. SessionTypeOK'
  BY <1>1, <1>2, <1>3, SessionTypes DEF SessionTypeOK, SessionRow, Jar, Memory, Req
<1>5. AccountsSound' /\ JarSound' /\ RowsSound'
  BY <1>1, <1>2 DEF AccountsSound, AccountsAreAnchored, JarSound, RowsSound, Presented, Given,
                    Refreshed, Derived
<1>6. MemorySound(NoTab)
  BY SessionAssumption DEF MemorySound, NoTab
<1>7. \A u \in Tabs : MemorySound(tab'[u]) /\ RequestSound(req'[u])
  BY <1>1, <1>3, <1>6
<1>8. ASSUME NEW u \in Tabs PROVE MemorySound(tab[u])'
  <2>1. MemorySound(tab'[u])
    BY <1>7
  <2>2. row' = row /\ crossed' = crossed
    BY <1>2
  <2> QED
    BY ONLY <2>1, <2>2 DEF MemorySound, Given, Live, Derived
<1>9. ASSUME NEW u \in Tabs PROVE RequestSound(req[u])'
  <2>1. RequestSound(req'[u])
    BY <1>7
  <2>2. account' = account /\ row' = row /\ crossed' = crossed
    BY <1>2
  <2> QED
    BY ONLY <2>1, <2>2 DEF RequestSound, Given, Refreshed, Presented, Live, Derived
<1> QED
  BY <1>4, <1>5, <1>8, <1>9, NextInParts DEF SessionParts

\* The login before it writes anything, and the failures.
LEMMA LoginReadsKept ==
  ASSUME SessionBase, NEW t \in Tabs,
         Start(t) \/ Callback(t) \/ CallbackFails(t) \/ FindIdentity(t)
  PROVE  SessionBase'
<1>1. /\ SessionTypeOK /\ AccountsSound /\ RequestSound(req[t])
      /\ account \in [Users -> Subs \union {Nobody}] /\ anchor \in [Subs -> Users \union {Nobody}]
      /\ jar \in Jar /\ tab \in [Tabs -> Memory] /\ req \in [Tabs -> Req] /\ req[t] \in Req
  BY InvariantInParts, SessionTypes DEF SessionParts
<1>2. CASE Start(t)
  <2> DEFINE r == [req[t] EXCEPT !.pc = "google"]
  <2>1. /\ jar' = [jar EXCEPT !.state = t] /\ tab' = [tab EXCEPT ![t] = NoTab]
        /\ req' = [req EXCEPT ![t] = r] /\ UNCHANGED <<rowsOf, crossed>> /\ req[t].pc = "idle"
    BY <1>2 DEF Start, StartLogin, Goto
  <2>2. r \in Req /\ r.pc = "google" /\ r.session = req[t].session
    BY <1>1 DEF Req
  <2>3. RequestSound(r)
    BY ONLY <1>1, <2>2 DEF RequestSound
  <2>4. jar' \in Jar /\ jar'.session = jar.session /\ jar'.csrf = jar.csrf
    BY <1>1, <2>1 DEF Jar
  <2> HIDE DEF r
  <2> QED
    BY <2>1, <2>2, <2>3, <2>4, QuietStepKept
<1>3. CASE Callback(t)
  <2>1. PICK g \in Subs : req' = [req EXCEPT ![t].pc = "find", ![t].sub = g]
    BY <1>3 DEF Callback, VerifiedIdentities
  <2> DEFINE r == [req[t] EXCEPT !.pc = "find", !.sub = g]
  <2>2. req' = [req EXCEPT ![t] = r] /\ UNCHANGED <<rowsOf, jar, tab, crossed>>
    BY <1>1, <1>3, <2>1 DEF Callback
  <2>3. r \in Req /\ r.pc = "find" /\ r.sub \in Subs /\ r.session = req[t].session
    BY <1>1 DEF Req
  <2>4. RequestSound(r)
    BY ONLY <1>1, <2>3 DEF RequestSound
  <2>5. tab' = [tab EXCEPT ![t] = tab[t]]
    BY <1>1, <2>2
  <2> HIDE DEF r
  <2> QED
    BY <1>1, <2>2, <2>3, <2>4, <2>5, QuietStepKept
<1>4. CASE CallbackFails(t)
  <2>1. /\ jar' = [jar EXCEPT !.state = Nobody] /\ req' = [req EXCEPT ![t] = NoReq]
        /\ UNCHANGED <<rowsOf, tab, crossed>>
    BY <1>4 DEF CallbackFails, RedirectLogin, NoState, Done
  <2>2. jar' \in Jar /\ jar'.session = jar.session /\ jar'.csrf = jar.csrf
    BY <1>1, <2>1 DEF Jar
  <2>3. tab' = [tab EXCEPT ![t] = tab[t]]
    BY <1>1, <2>1
  <2> QED
    BY <2>1, <2>2, <2>3, NoneTyped, NoReqIsSound, QuietStepKept
<1>5. CASE FindIdentity(t)
  <2> DEFINE r == [req[t] EXCEPT !.pc = "write", !.user = anchor[req[t].sub]]
  <2>1. req' = [req EXCEPT ![t] = r] /\ UNCHANGED <<rowsOf, jar, tab, crossed>>
    BY <1>1, <1>5 DEF FindIdentity, UserOf
  <2>2. req[t].sub \in Subs
    BY <1>1, <1>5 DEF FindIdentity, RequestSound
  <2>3. /\ r \in Req /\ r.pc = "write" /\ r.session = req[t].session /\ r.sub = req[t].sub
        /\ r.user = anchor[req[t].sub]
    BY <1>1, <2>2 DEF Req
  <2>4. r.user # Nobody => account[r.user] # Nobody
    BY <1>1, <2>2, <2>3, SessionAssumption DEF AccountsSound
  <2>5. RequestSound(r)
    BY ONLY <1>1, <2>2, <2>3, <2>4 DEF RequestSound
  <2>6. tab' = [tab EXCEPT ![t] = tab[t]]
    BY <1>1, <2>1
  <2> HIDE DEF r
  <2> QED
    BY <1>1, <2>1, <2>3, <2>5, <2>6, QuietStepKept
<1> QED
  BY <1>2, <1>3, <1>4, <1>5

\* Requests that are sent, refused, or go on.
LEMMA RequestsKept ==
  ASSUME SessionBase, NEW t \in Tabs,
         \/ SendMe(t) \/ SendLogout(t) \/ Authenticate(t) \/ Unauthorized(t) \/ CSRFInvalid(t)
  PROVE  SessionBase'
<1>1. /\ SessionTypeOK /\ JarSound /\ RequestSound(req[t])
      /\ row \in [Sessions -> SessionRow] /\ crossed \subseteq Sessions
      /\ jar \in Jar /\ tab \in [Tabs -> Memory] /\ req \in [Tabs -> Req] /\ req[t] \in Req
  BY InvariantInParts, SessionTypes DEF SessionParts
<1>2. CASE SendMe(t)
  <2> DEFINE r == [NoReq EXCEPT !.pc = "me", !.session = jar.session, !.cookie = jar.csrf]
  <2>1. /\ jar.session # Nobody
        /\ req' = [req EXCEPT ![t] = r] /\ UNCHANGED <<rowsOf, jar, tab, crossed>>
    BY <1>2 DEF SendMe
  <2>2. /\ r \in Req /\ r.pc = "me" /\ r.session = jar.session /\ r.cookie = jar.csrf
        /\ r.set = FALSE
    BY <1>1, NoneTyped DEF Req, Jar, NoReq
  <2>3. RequestSound(r)
    BY ONLY <1>1, <2>1, <2>2 DEF RequestSound, JarSound
  <2>4. tab' = [tab EXCEPT ![t] = tab[t]]
    BY <1>1, <2>1
  <2> HIDE DEF r
  <2> QED
    BY <1>1, <2>1, <2>2, <2>3, <2>4, QuietStepKept
<1>3. CASE SendLogout(t)
  <2> DEFINE r == [NoReq EXCEPT !.pc = "logout", !.session = jar.session, !.cookie = tab[t].token]
  <2>1. /\ jar.session # Nobody
        /\ req' = [req EXCEPT ![t] = r] /\ UNCHANGED <<rowsOf, jar, tab, crossed>>
    BY <1>3 DEF SendLogout
  <2>2. r \in Req /\ r.pc = "logout" /\ r.session = jar.session
    <3>1. tab[t] \in Memory
      BY <1>1
    <3> QED
      BY <1>1, <3>1, NoneTyped DEF Req, Jar, NoReq, Memory
  <2>3. RequestSound(r)
    BY ONLY <1>1, <2>1, <2>2 DEF RequestSound, JarSound
  <2>4. tab' = [tab EXCEPT ![t] = tab[t]]
    BY <1>1, <2>1
  <2> HIDE DEF r
  <2> QED
    BY <1>1, <2>1, <2>2, <2>3, <2>4, QuietStepKept
<1>4. CASE Authenticate(t)
  <2> DEFINE s == req[t].session
             pc == IF req[t].pc = "me" THEN "answer" ELSE "revoke"
             r == [req[t] EXCEPT !.pc = pc, !.hash = row[s].csrf]
  <2>1. /\ req[t].pc \in {"me", "logout"} /\ s # Nobody
        /\ req' = [req EXCEPT ![t] = r] /\ UNCHANGED <<rowsOf, jar, tab, crossed>>
    BY <1>1, <1>4 DEF Authenticate, RequestSound
  <2>2. s \in Sessions /\ row[s].csrf \in Token \union {Nobody}
    BY <1>1, <2>1 DEF Req, SessionRow
  <2>3. /\ r \in Req /\ r.pc = pc /\ r.session = s /\ r.cookie = req[t].cookie
        /\ r.hash = row[s].csrf /\ r.set = req[t].set
    BY <1>1, <2>2 DEF Req
  <2>4. RequestSound(r)
    BY ONLY <1>1, <2>1, <2>3 DEF RequestSound
  <2>5. tab' = [tab EXCEPT ![t] = tab[t]]
    BY <1>1, <2>1
  <2> HIDE DEF r
  <2> QED
    BY <1>1, <2>1, <2>3, <2>4, <2>5, QuietStepKept
<1>5. CASE Unauthorized(t)
  <2>1. /\ tab' = tab \/ tab' = [tab EXCEPT ![t] = NoTab]
        /\ req' = [req EXCEPT ![t] = NoReq] /\ UNCHANGED <<rowsOf, jar, crossed>>
    BY <1>5 DEF Unauthorized, Done
  <2>2. PICK m \in {tab[t], NoTab} : tab' = [tab EXCEPT ![t] = m]
    BY <1>1, <2>1
  <2> QED
    BY <1>1, <2>1, <2>2, NoneTyped, NoReqIsSound, QuietStepKept
<1>6. CASE CSRFInvalid(t)
  <2>1. req' = [req EXCEPT ![t] = NoReq] /\ UNCHANGED <<rowsOf, jar, tab, crossed>>
    BY <1>6 DEF CSRFInvalid, Done
  <2>2. tab' = [tab EXCEPT ![t] = tab[t]]
    BY <1>1, <2>1
  <2> QED
    BY <1>1, <2>1, <2>2, NoneTyped, NoReqIsSound, QuietStepKept
<1> QED
  BY <1>2, <1>3, <1>4, <1>5, <1>6

\* A login writes the user and the identity of its Google account.
LEMMA IdentityKept ==
  ASSUME SessionBase, NEW t \in Tabs, WriteIdentity(t) PROVE SessionBase'
<1>1. /\ SessionTypeOK /\ AccountsSound /\ JarSound /\ RowsSound
      /\ \A v \in Tabs : RequestSound(req[v]) /\ MemorySound(tab[v])
      /\ account \in [Users -> Subs \union {Nobody}] /\ anchor \in [Subs -> Users \union {Nobody}]
      /\ row \in [Sessions -> SessionRow] /\ jar \in Jar /\ tab \in [Tabs -> Memory]
      /\ req \in [Tabs -> Req] /\ req[t] \in Req /\ crossed \subseteq Sessions
  BY InvariantInParts, SessionTypes DEF SessionParts
<1> DEFINE g == req[t].sub
<1>2. g \in Subs /\ req[t].pc = "write" /\ UNCHANGED <<row, jar, tab, crossed>>
  BY <1>1 DEF WriteIdentity, RequestSound
<1>3. CASE req[t].user # Nobody /\ Goto(t, "session") /\ UNCHANGED <<account, anchor>>
  <2> DEFINE r == [req[t] EXCEPT !.pc = "session"]
  <2>1. req' = [req EXCEPT ![t] = r] /\ UNCHANGED <<rowsOf, crossed>>
    BY <1>2, <1>3 DEF Goto, rowsOf
  <2>2. r \in Req /\ r.pc = "session" /\ r.user = req[t].user /\ r.session = req[t].session
    BY <1>1 DEF Req
  <2>3. r.user \in Users /\ account[r.user] # Nobody /\ RequestSound(req[t])
    BY <1>1, <1>2, <1>3, <2>2 DEF RequestSound, Req
  <2>4. RequestSound(r)
    BY ONLY <2>2, <2>3 DEF RequestSound
  <2>5. tab' = [tab EXCEPT ![t] = tab[t]]
    BY <1>1, <1>2
  <2> HIDE DEF r
  <2> QED
    BY <1>1, <1>2, <2>1, <2>2, <2>4, <2>5, QuietStepKept
<1>4. ASSUME NEW u \in Users, account[u] = Nobody, InsertUser(u, g), InsertIdentity(u, g),
             req' = [req EXCEPT ![t].pc = "session", ![t].user = u]
      PROVE  SessionBase'
  <2> DEFINE r == [req[t] EXCEPT !.pc = "session", !.user = u]
  <2>1. /\ account' = [account EXCEPT ![u] = g] /\ anchor' = [anchor EXCEPT ![g] = u]
        /\ anchor[g] = Nobody /\ req' = [req EXCEPT ![t] = r]
    BY <1>4 DEF InsertUser, InsertIdentity
  <2>2. r \in Req /\ r.pc = "session" /\ r.user = u /\ r.session = req[t].session
    BY <1>1 DEF Req
  <2>3. /\ account'[u] = g /\ \A v \in Users : v # u => account'[v] = account[v]
        /\ anchor'[g] = u /\ \A k \in Subs : k # g => anchor'[k] = anchor[k]
        /\ g # Nobody /\ u # Nobody
    BY <1>1, <1>2, <2>1, SessionAssumption
  <2>4. \A v \in Users : account[v] # Nobody => account'[v] = account[v]
    BY <1>4, <2>3
  <2>5. AccountsSound'
    <3>1. ASSUME NEW v \in Users, account'[v] # Nobody PROVE anchor'[account'[v]] = v
      <4>1. CASE v = u
        BY <2>3, <4>1
      <4>2. CASE v # u
        <5>1. account[v] = account'[v] /\ account[v] \in Subs /\ anchor[account[v]] = v
          BY <1>1, <2>3, <3>1, <4>2 DEF AccountsSound, AccountsAreAnchored
        <5>2. account[v] # g
          BY <2>1, <5>1, SessionAssumption
        <5> QED
          BY <2>3, <5>1, <5>2
      <4> QED
        BY <4>1, <4>2
    <3>2. ASSUME NEW k \in Subs, anchor'[k] # Nobody PROVE account'[anchor'[k]] = k
      <4>1. CASE k = g
        BY <2>3, <4>1
      <4>2. CASE k # g
        <5>1. anchor'[k] = anchor[k] /\ anchor[k] \in Users /\ account[anchor[k]] = k /\ k # Nobody
          BY <1>1, <2>3, <3>2, <4>2, SessionAssumption DEF AccountsSound
        <5> QED
          BY <2>4, <5>1
      <4> QED
        BY <4>1, <4>2
    <3>3. \A s \in Sessions : row[s].state # "none" =>
            row[s].user \in Users /\ account'[row[s].user] # Nobody
      BY <1>1, <2>4 DEF AccountsSound, AccountsAreAnchored
    <3> QED
      BY <1>2, <3>1, <3>2, <3>3 DEF AccountsSound, AccountsAreAnchored
  <2> HIDE DEF r, g
  <2>6. SessionTypeOK'
    <3>1. /\ account' \in [Users -> Subs \union {Nobody}]
          /\ anchor' \in [Subs -> Users \union {Nobody}] /\ req' \in [Tabs -> Req]
      BY <1>1, <1>2, <2>1, <2>2
    <3> QED
      BY <1>1, <1>2, <3>1 DEF SessionTypeOK, SessionRow, Jar, Memory, Req
  <2>7. JarSound' /\ RowsSound'
    BY <1>1, <1>2 DEF JarSound, RowsSound, Presented, Given, Refreshed, Derived
  <2>8. ASSUME NEW v \in Tabs PROVE RequestSound(req[v])'
    <3>1. row' = row /\ crossed' = crossed
      BY <1>2
    <3>2. CASE v = t
      <4>1. req'[v] = r /\ account'[u] # Nobody /\ u \in Users /\ RequestSound(req[t])
        BY <1>1, <2>1, <2>3, <3>2
      <4> QED
        BY ONLY <2>2, <3>1, <4>1 DEF RequestSound
    <3>3. CASE v # t
      <4>1. req'[v] = req[v] /\ RequestSound(req[v]) /\ req[v] \in Req
        BY <1>1, <2>1, <3>3
      <4>2. req[v].user # Nobody => req[v].user \in Users
        BY <4>1 DEF Req
      <4> QED
        BY ONLY <2>4, <3>1, <4>1, <4>2 DEF RequestSound, Given, Refreshed, Presented, Live, Derived
    <3> QED
      BY <3>2, <3>3
  <2>9. ASSUME NEW v \in Tabs PROVE MemorySound(tab[v])'
    <3>1. tab' = tab /\ row' = row /\ crossed' = crossed /\ MemorySound(tab[v])
      BY <1>1, <1>2
    <3> QED
      BY ONLY <3>1 DEF MemorySound, Given, Live, Derived
  <2> QED
    BY <2>5, <2>6, <2>7, <2>8, <2>9, NextInParts DEF SessionParts
<1> QED
  BY <1>2, <1>3, <1>4 DEF WriteIdentity

\* Steps that write the row of one session that exists.
LEMMA RowStepKept ==
  ASSUME SessionBase, NEW s \in Sessions,
         row' \in [Sessions -> SessionRow], \A q \in Sessions : q # s => row'[q] = row[q],
         row[s].state # "none", row'[s].state # "none", row'[s].user = row[s].user,
         row'[s].state = "live" => row[s].state = "live",
         \/ row'[s].csrf = row[s].csrf
         \/ row'[s].csrf = Derived(s) /\ (s \in crossed \/ Refreshed(s)),
         UNCHANGED <<account, anchor, jar, tab, crossed>>,
         req' \in [Tabs -> Req], \A v \in Tabs : req'[v] = req[v] \/ RequestSound(req[v])'
  PROVE  SessionBase'
<1>1. /\ SessionTypeOK /\ AccountsSound /\ JarSound /\ RowsSound
      /\ \A v \in Tabs : RequestSound(req[v]) /\ MemorySound(tab[v])
      /\ account \in [Users -> Subs \union {Nobody}] /\ anchor \in [Subs -> Users \union {Nobody}]
      /\ row \in [Sessions -> SessionRow] /\ jar \in Jar /\ tab \in [Tabs -> Memory]
      /\ req \in [Tabs -> Req] /\ crossed \subseteq Sessions
  BY InvariantInParts, SessionTypes DEF SessionParts
<1>2. \A q \in Sessions :
        /\ row[q].state # "none" <=> row'[q].state # "none"
        /\ row'[q].state = "live" => row[q].state = "live"
        /\ row'[q].user = row[q].user
  OBVIOUS
<1>3. \A q \in Sessions \ crossed : row[q].state # "none" =>
        /\ row'[q].csrf \in {<<"login", q>>, <<"old", q>>, Derived(q)}
        /\ row'[q].csrf = <<"login", q>> <=> row[q].csrf = <<"login", q>>
        /\ row'[q].csrf = row[q].csrf \/ (row[q].csrf = <<"old", q>> /\ row'[q].csrf = Derived(q))
  BY <1>1, TokensDiffer DEF RowsSound, Refreshed
<1>4. SessionTypeOK'
  BY <1>1 DEF SessionTypeOK, SessionRow, Jar, Memory, Req
<1>5. AccountsSound' /\ RowsSound'
  BY <1>1, <1>2, <1>3 DEF AccountsSound, AccountsAreAnchored, RowsSound, Derived
<1>6. JarSound'
  <2>1. jar' = jar /\ crossed' = crossed /\ JarSound /\ jar.session \in Sessions \union {Nobody}
    BY <1>1 DEF Jar
  <2> QED
    BY ONLY <1>2, <1>3, <2>1, SessionAssumption DEF JarSound, Presented, Given, Refreshed, Derived
<1>7. ASSUME NEW v \in Tabs PROVE MemorySound(tab[v])'
  <2>1. /\ tab' = tab /\ crossed' = crossed /\ MemorySound(tab[v])
        /\ tab[v].session \in Sessions \union {Nobody}
    BY <1>1 DEF Memory
  <2> QED
    BY ONLY <1>2, <1>3, <2>1, TokensDiffer DEF MemorySound, Given, Live, Derived
<1>8. ASSUME NEW v \in Tabs PROVE RequestSound(req[v])'
  <2>1. CASE req'[v] = req[v]
    <3>1. /\ req'[v] = req[v] /\ RequestSound(req[v]) /\ req[v].session \in Sessions \union {Nobody}
          /\ account' = account /\ crossed' = crossed
      BY <1>1, <2>1 DEF Req
    <3> QED
      BY ONLY <1>2, <1>3, <3>1, TokensDiffer
         DEF RequestSound, Given, Refreshed, Presented, Live, Derived
  <2> QED
    BY <2>1
<1> QED
  BY <1>4, <1>5, <1>6, <1>7, <1>8, NextInParts DEF SessionParts

\* /me, whose answer is prepared.
LEMMA MeKept ==
  ASSUME SessionBase, NEW t \in Tabs, Me(t) PROVE SessionBase'
<1> DEFINE s == req[t].session
<1>1. /\ RowsSound /\ RequestSound(req[t])
      /\ row \in [Sessions -> SessionRow] /\ tab \in [Tabs -> Memory]
      /\ jar \in Jar /\ req \in [Tabs -> Req] /\ req[t] \in Req
  BY InvariantInParts, SessionTypes DEF SessionParts
<1>2. /\ req[t].pc = "answer" /\ s # Nobody /\ row[s].state # "none"
      /\ UNCHANGED <<account, anchor, jar, tab, crossed>>
  BY <1>1 DEF Me, RequestSound
<1>3. s \in Sessions
  BY <1>1, <1>2 DEF Req
<1>4. s \notin crossed =>
        /\ Presented(s, req[t].cookie) /\ ~req[t].set
        /\ req[t].hash = row[s].csrf \/ (Refreshed(s) /\ req[t].hash = <<"old", s>>)
        /\ row[s].csrf \in {<<"login", s>>, <<"old", s>>, Derived(s)}
  BY <1>1, <1>2, <1>3 DEF RequestSound, RowsSound
<1>5. CASE ValidateCSRF(t) /\ Goto(t, "reply") /\ UNCHANGED row
  <2> DEFINE r == [req[t] EXCEPT !.pc = "reply"]
  <2>1. req' = [req EXCEPT ![t] = r] /\ UNCHANGED <<rowsOf, jar, tab, crossed>>
    BY <1>2, <1>5 DEF Goto, rowsOf
  <2>2. /\ r \in Req /\ r.pc = "reply" /\ r.session = s /\ r.cookie = req[t].cookie
        /\ r.set = req[t].set /\ req[t].cookie = req[t].hash
    BY <1>1, <1>5 DEF Req, ValidateCSRF
  <2>3. s \notin crossed => /\ r.cookie = Given(s) /\ (r.set => Refreshed(s))
                            /\ row[s].csrf = Given(s)
    BY <1>3, <1>4, <2>2, TokensDiffer DEF Presented, Given, Refreshed
  <2>4. RequestSound(r)
    BY ONLY <1>2, <1>3, <2>2, <2>3 DEF RequestSound
  <2>5. tab' = [tab EXCEPT ![t] = tab[t]]
    BY <1>1, <1>2
  <2> HIDE DEF r
  <2> QED
    BY <1>1, <1>2, <2>1, <2>2, <2>4, <2>5, QuietStepKept
<1>6. CASE ~ValidateCSRF(t) /\ RefreshCSRF(t)
  <2> DEFINE r == [req[t] EXCEPT !.pc = "reply", !.cookie = Derived(s), !.set = TRUE]
  <2>1. req' = [req EXCEPT ![t] = r] /\ RotateCSRF(s)
    BY <1>1, <1>6 DEF RefreshCSRF
  <2>2. r \in Req /\ r.pc = "reply" /\ r.session = s /\ r.cookie = Derived(s)
    BY <1>1, <1>3, TokensDiffer DEF Req
  <2>3. s \in crossed \/ Refreshed(s)
    BY <1>3, <1>4, <1>6, TokensDiffer DEF Presented, Given, Refreshed, ValidateCSRF
  <2>4. /\ row' \in [Sessions -> SessionRow] /\ \A q \in Sessions : q # s => row'[q] = row[q]
        /\ row'[s].state = row[s].state /\ row'[s].user = row[s].user
        /\ row[s].state = "live" => row'[s].csrf = Derived(s)
        /\ row'[s].csrf = row[s].csrf \/ row'[s].csrf = Derived(s)
    <3>1. CASE Live(s)
      <4>1. row' = [row EXCEPT ![s].csrf = Derived(s)]
        BY <2>1, <3>1 DEF RotateCSRF
      <4>2. row[s] \in SessionRow /\ [row[s] EXCEPT !.csrf = Derived(s)] \in SessionRow
        BY <1>1, <1>3, TokensDiffer DEF SessionRow
      <4>3. row' = [row EXCEPT ![s] = [row[s] EXCEPT !.csrf = Derived(s)]]
        BY <4>1
      <4> HIDE DEF s
      <4> QED
        BY ONLY <1>1, <1>3, <4>2, <4>3 DEF SessionRow
    <3>2. CASE ~Live(s)
      BY <1>1, <2>1, <3>2 DEF RotateCSRF, Live
    <3> QED
      BY <3>1, <3>2
  <2> HIDE DEF r, s
  <2>5. req' \in [Tabs -> Req] /\ req'[t] = r /\ \A v \in Tabs : v # t => req'[v] = req[v]
    BY <1>1, <2>1, <2>2
  <2>6. crossed' = crossed
    BY <1>2
  <2>7. s \notin crossed => /\ row'[s].csrf # <<"login", s>>
                            /\ row'[s].state = "live" => row'[s].csrf = Derived(s)
    BY <1>3, <2>3, <2>4, TokensDiffer DEF Refreshed
  <2>8. RequestSound(req[t])'
    BY ONLY <1>2, <1>3, <2>2, <2>4, <2>5, <2>6, <2>7
       DEF RequestSound, Given, Refreshed, Live, Derived
  <2> QED
    BY <1>2, <1>3, <2>3, <2>4, <2>5, <2>8, RowStepKept
<1> QED
  BY <1>2, <1>5, <1>6 DEF Me

\* A login writes its session.
LEMMA CreationKept ==
  ASSUME SessionBase, NEW t \in Tabs, CreateSession(t) PROVE SessionBase'
<1>1. /\ SessionTypeOK /\ AccountsSound /\ JarSound /\ RowsSound
      /\ \A v \in Tabs : RequestSound(req[v]) /\ MemorySound(tab[v])
      /\ row \in [Sessions -> SessionRow] /\ jar \in Jar /\ tab \in [Tabs -> Memory]
      /\ req \in [Tabs -> Req] /\ req[t] \in Req /\ crossed \subseteq Sessions
  BY InvariantInParts, SessionTypes DEF SessionParts
<1>2. /\ req[t].pc = "session" /\ req[t].user \in Users /\ account[req[t].user] # Nobody
      /\ UNCHANGED <<account, anchor, jar, tab, crossed>>
  BY <1>1 DEF CreateSession, RequestSound
<1>3. PICK s \in Sessions :
        /\ row[s].state = "none"
        /\ row' = [row EXCEPT ![s] = NewSession(req[t].user, s)]
        /\ req' = [req EXCEPT ![t].pc = "landed", ![t].session = s]
  BY DEF CreateSession
<1> DEFINE new == NewSession(req[t].user, s)
           r == [req[t] EXCEPT !.pc = "landed", !.session = s]
<1>4. /\ new \in SessionRow /\ new.state = "live"
      /\ new.user = req[t].user /\ new.csrf = <<"login", s>>
  BY <1>2, TokensDiffer DEF NewSession, SessionRow
<1>5. r \in Req /\ r.pc = "landed" /\ r.session = s /\ req' = [req EXCEPT ![t] = r]
  BY <1>1, <1>3 DEF Req
<1> HIDE DEF new, r
<1>6. /\ row' \in [Sessions -> SessionRow] /\ row'[s] = new
      /\ \A q \in Sessions : q # s => row'[q] = row[q]
  BY <1>1, <1>3, <1>4 DEF new
<1>7. /\ req' \in [Tabs -> Req] /\ req'[t] = r /\ \A v \in Tabs : v # t => req'[v] = req[v]
  BY <1>1, <1>5
<1>8. \A q \in Sessions : row[q].state # "none" => q # s /\ row'[q] = row[q]
  BY <1>3, <1>6
<1>9. SessionTypeOK'
  BY <1>1, <1>2, <1>6, <1>7 DEF SessionTypeOK, SessionRow, Jar, Memory, Req
<1>10. AccountsSound'
  BY <1>1, <1>2, <1>4, <1>6 DEF AccountsSound, AccountsAreAnchored
<1>11. RowsSound'
  BY <1>1, <1>2, <1>4, <1>6 DEF RowsSound, Derived
<1>12. JarSound'
  <2>1. jar' = jar /\ crossed' = crossed /\ JarSound /\ jar.session \in Sessions \union {Nobody}
    BY <1>1, <1>2 DEF Jar
  <2> QED
    BY ONLY <1>8, <2>1, SessionAssumption DEF JarSound, Presented, Given, Refreshed, Derived
<1>13. ASSUME NEW v \in Tabs PROVE MemorySound(tab[v])'
  <2>1. /\ tab' = tab /\ crossed' = crossed /\ MemorySound(tab[v])
        /\ tab[v].session \in Sessions \union {Nobody}
    BY <1>1, <1>2 DEF Memory
  <2> QED
    BY ONLY <1>8, <2>1, SessionAssumption DEF MemorySound, Given, Live, Derived
<1>14. ASSUME NEW v \in Tabs PROVE RequestSound(req[v])'
  <2>1. CASE v # t
    <3>1. /\ req'[v] = req[v] /\ RequestSound(req[v]) /\ req[v].session \in Sessions \union {Nobody}
          /\ account' = account /\ crossed' = crossed
      BY <1>1, <1>2, <1>7, <2>1 DEF Req
    <3> QED
      BY ONLY <1>8, <3>1, SessionAssumption
         DEF RequestSound, Given, Refreshed, Presented, Live, Derived
  <2>2. CASE v = t
    <3>1. req'[v] = r /\ row'[s].state = "live" /\ s # Nobody
      BY <1>4, <1>6, <1>7, <2>2, SessionAssumption
    <3> QED
      BY ONLY <1>5, <3>1 DEF RequestSound
  <2> QED
    BY <2>1, <2>2
<1> QED
  BY <1>9, <1>10, <1>11, <1>12, <1>13, <1>14, NextInParts DEF SessionParts

\* A session that ends, by a logout or by itself.
LEMMA EndKept ==
  ASSUME SessionBase, (\E t \in Tabs : Logout(t)) \/ \E s \in Sessions : Expire(s)
  PROVE  SessionBase'
<1>1. /\ row \in [Sessions -> SessionRow] /\ req \in [Tabs -> Req]
      /\ \A t \in Tabs : RequestSound(req[t]) /\ req[t] \in Req
  BY InvariantInParts, SessionTypes DEF SessionParts
<1>2. ASSUME NEW q \in Sessions, NEW state \in {"revoked", "expired"}, row[q].state # "none",
             row' = row \/ row' = [row EXCEPT ![q].state = state]
      PROVE  /\ row' \in [Sessions -> SessionRow] /\ \A p \in Sessions : p # q => row'[p] = row[p]
             /\ row'[q].state # "none" /\ row'[q].user = row[q].user
             /\ row'[q].csrf = row[q].csrf
             /\ row'[q].state = "live" => row[q].state = "live"
  BY <1>1, <1>2 DEF SessionRow
<1>3. ASSUME NEW t \in Tabs, Logout(t) PROVE SessionBase'
  <2> DEFINE q == req[t].session
             r == [req[t] EXCEPT !.pc = "bye"]
  <2>1. /\ req[t].pc = "revoke" /\ req' = [req EXCEPT ![t] = r]
        /\ row' = row \/ row' = [row EXCEPT ![q].state = "revoked"]
        /\ UNCHANGED <<account, anchor, jar, tab, crossed>>
    BY <1>3 DEF Logout, Goto, RevokeClientSession
  <2>2. q # Nobody /\ row[q].state # "none"
    BY <1>1, <2>1 DEF RequestSound
  <2>3. q \in Sessions /\ r \in Req /\ r.pc = "bye" /\ r.session = q
    BY <1>1, <2>2 DEF Req
  <2> HIDE DEF q, r
  <2>4. /\ row' \in [Sessions -> SessionRow] /\ \A p \in Sessions : p # q => row'[p] = row[p]
        /\ row'[q].state # "none" /\ row'[q].user = row[q].user /\ row'[q].csrf = row[q].csrf
        /\ row'[q].state = "live" => row[q].state = "live"
    BY <1>2, <2>1, <2>2, <2>3
  <2>5. req' \in [Tabs -> Req] /\ req'[t] = r /\ \A v \in Tabs : v # t => req'[v] = req[v]
    BY <1>1, <2>1, <2>3
  <2>6. RequestSound(req[t])'
    BY ONLY <2>2, <2>3, <2>4, <2>5 DEF RequestSound
  <2> QED
    BY <2>1, <2>2, <2>3, <2>4, <2>5, <2>6, RowStepKept
<1>4. ASSUME NEW s \in Sessions, Expire(s) PROVE SessionBase'
  <2>1. /\ row[s].state = "live" /\ row' = [row EXCEPT ![s].state = "expired"]
        /\ UNCHANGED <<account, anchor, jar, tab, req, crossed>>
    BY <1>4 DEF Expire, Live
  <2>2. /\ row' \in [Sessions -> SessionRow] /\ \A p \in Sessions : p # s => row'[p] = row[p]
        /\ row'[s].state # "none" /\ row'[s].user = row[s].user /\ row'[s].csrf = row[s].csrf
        /\ row'[s].state = "live" => row[s].state = "live"
    BY <1>2, <2>1
  <2> QED
    BY <1>1, <2>1, <2>2, RowStepKept
<1> QED
  BY <1>3, <1>4

\* Answers that arrive: steps that write cookies and end their request.
LEMMA ArrivalKept ==
  ASSUME SessionBase, NEW t \in Tabs, NEW m \in Memory, jar' \in Jar, JarSound',
         UNCHANGED rowsOf, crossed \subseteq crossed', crossed' \subseteq Sessions,
         tab' = [tab EXCEPT ![t] = m], m = tab[t] \/ MemorySound(m), Done(t)
  PROVE  SessionBase'
<1>1. /\ SessionTypeOK /\ AccountsSound /\ RowsSound
      /\ \A v \in Tabs : RequestSound(req[v]) /\ MemorySound(tab[v])
      /\ tab \in [Tabs -> Memory] /\ req \in [Tabs -> Req]
  BY InvariantInParts, SessionTypes DEF SessionParts
<1>2. account' = account /\ anchor' = anchor /\ row' = row
  BY DEF rowsOf
<1>3. req' = [req EXCEPT ![t] = NoReq]
  BY DEF Done
<1>4. \A v \in Tabs : MemorySound(tab'[v]) /\ RequestSound(req'[v])
  BY <1>1, <1>3, NoReqIsSound
<1>5. SessionTypeOK'
  BY <1>1, <1>2, <1>3, NoneTyped DEF SessionTypeOK, SessionRow, Jar, Memory, Req
<1>6. AccountsSound' /\ RowsSound'
  BY <1>1, <1>2 DEF AccountsSound, AccountsAreAnchored, RowsSound, Derived
<1>7. ASSUME NEW v \in Tabs PROVE MemorySound(tab[v])' /\ RequestSound(req[v])'
  <2>1. /\ MemorySound(tab'[v]) /\ RequestSound(req'[v]) /\ account' = account /\ row' = row
        /\ crossed \subseteq crossed'
    BY <1>2, <1>4
  <2>2. MemorySound(tab[v])'
    BY ONLY <2>1 DEF MemorySound, Given, Live, Derived
  <2>3. RequestSound(req[v])'
    BY ONLY <2>1 DEF RequestSound, Given, Refreshed, Presented, Live, Derived
  <2> QED
    BY <2>2, <2>3
<1> QED
  BY <1>5, <1>6, <1>7, NextInParts DEF SessionParts

\* The answers of a login, of /me and of a logout.
LEMMA AnswersKept ==
  ASSUME SessionBase, LandingsAreFresh, NEW t \in Tabs,
         Landed(t) \/ ReceiveMe(t) \/ ReceiveLogout(t)
  PROVE  SessionBase'
<1>1. /\ JarSound /\ RequestSound(req[t]) /\ row \in [Sessions -> SessionRow] /\ jar \in Jar
      /\ tab \in [Tabs -> Memory] /\ req[t] \in Req
      /\ crossed \subseteq Sessions /\ tab[t] \in Memory
  BY InvariantInParts, SessionTypes DEF SessionParts
<1> DEFINE s == req[t].session
<1>2. CASE Landed(t)
  <2> DEFINE token == <<"login", s>>
             cookies == [jar EXCEPT !.session = s, !.csrf = token, !.state = Nobody]
  <2>1. /\ req[t].pc = "landed" /\ Done(t) /\ UNCHANGED <<rowsOf, tab, crossed>>
        /\ jar' \in {jar, cookies}
    BY <1>2 DEF Landed, NoState, Cookies
  <2>2. s \in Sessions /\ row[s].state # "none" /\ row[s].csrf = token
    BY <1>1, <2>1 DEF RequestSound, Req, LandingsAreFresh
  <2>3. cookies \in Jar /\ cookies.session = s /\ cookies.csrf = token
    BY <1>1, <2>2, TokensDiffer DEF Jar
  <2>4. row' = row /\ crossed' = crossed
    BY <2>1 DEF rowsOf
  <2> HIDE DEF cookies, token, s
  <2>5. jar' \in Jar /\ JarSound'
    <3>1. CASE jar' = jar
      BY <1>1, <2>4, <3>1 DEF JarSound, Presented, Given, Refreshed, Derived
    <3>2. CASE jar' = cookies
      <4>1. row[s].csrf = <<"login", s>>
        BY <2>2 DEF token
      <4> QED
        BY <2>2, <2>3, <2>4, <3>2, <4>1 DEF JarSound, Presented, Given, Refreshed, Derived
    <3> QED
      BY <2>1, <3>1, <3>2
  <2>6. tab' = [tab EXCEPT ![t] = tab[t]]
    BY <1>1, <2>1
  <2> QED
    BY <1>1, <2>1, <2>4, <2>5, <2>6, ArrivalKept
<1>3. CASE ReceiveMe(t)
  <2> DEFINE m == [token |-> req[t].cookie, session |-> s]
  <2>1. /\ req[t].pc = "reply" /\ tab' = [tab EXCEPT ![t] = m] /\ Done(t) /\ UNCHANGED rowsOf
        /\ jar' = IF req[t].set THEN [jar EXCEPT !.csrf = req[t].cookie] ELSE jar
        /\ crossed' = IF req[t].set /\ jar.session \notin {Nobody, s}
                      THEN crossed \union {jar.session} ELSE crossed
    BY <1>3 DEF ReceiveMe
  <2>2. /\ s \in Sessions /\ row[s].state # "none"
        /\ s \notin crossed => req[t].cookie = Given(s) /\ (Live(s) => row[s].csrf = Given(s))
    BY <1>1, <2>1 DEF RequestSound, Req
  <2>3. m \in Memory /\ MemorySound(m)
    BY <1>1, <2>2, SessionAssumption DEF Memory, Req, MemorySound
  <2>4. /\ jar' \in Jar /\ jar'.session = jar.session
        /\ jar'.csrf = IF req[t].set THEN req[t].cookie ELSE jar.csrf
    BY <1>1, <2>1 DEF Jar, Req
  <2>5. crossed \subseteq crossed' /\ crossed' \subseteq Sessions /\ row' = row
    BY <1>1, <2>1 DEF Jar, rowsOf
  <2>6. jar.session \in Sessions \ crossed' => Presented(jar.session, jar'.csrf)
    <3>1. CASE req[t].set
      BY <2>1, <2>2, <2>4, <3>1, SessionAssumption DEF Presented
    <3>2. CASE ~req[t].set
      BY <1>1, <2>1, <2>4, <3>2 DEF JarSound
    <3> QED
      BY <3>1, <3>2
  <2> HIDE DEF m, s
  <2>7. JarSound'
    BY ONLY <1>1, <2>4, <2>5, <2>6 DEF JarSound, Presented, Given, Refreshed, Derived
  <2> QED
    BY <2>1, <2>3, <2>4, <2>5, <2>7, ArrivalKept
<1>4. CASE ReceiveLogout(t)
  <2>1. /\ jar' = [jar EXCEPT !.session = Nobody, !.csrf = Nobody]
        /\ tab' = [tab EXCEPT ![t] = NoTab] /\ Done(t) /\ UNCHANGED <<rowsOf, crossed>>
    BY <1>4 DEF ReceiveLogout, NoCookies
  <2>2. jar' \in Jar /\ jar'.session = Nobody
    BY <1>1, <2>1 DEF Jar
  <2>3. JarSound'
    BY <2>2, SessionAssumption DEF JarSound
  <2>4. MemorySound(NoTab) /\ NoTab \in Memory
    BY SessionAssumption, NoneTyped DEF MemorySound, NoTab
  <2> QED
    BY <1>1, <2>1, <2>2, <2>3, <2>4, ArrivalKept
<1> QED
  BY <1>2, <1>3, <1>4

\* A request that is not landing, in its session, one of the cookies or none.
LEMMA FreshKept ==
  ASSUME SessionBase, LandingsAreFresh, NEW t \in Tabs, NEW r \in Req, r.pc # "landed",
         r.session \in {req[t].session, jar.session, Nobody}, req' = [req EXCEPT ![t] = r],
         jar'.session \in {jar.session, Nobody, req[t].session},
         \A u \in Tabs : u # t /\ req[u].pc = "landed" =>
           row'[req[u].session].csrf = row[req[u].session].csrf
  PROVE  LandingsAreFresh'
<1>1. req \in [Tabs -> Req] /\ \A u \in Tabs : RequestSound(req[u])
  BY InvariantInParts, SessionTypes DEF SessionParts
<1>2. SUFFICES ASSUME NEW u \in Tabs, req'[u].pc = "landed"
               PROVE  LET s == req'[u].session IN
                      /\ row'[s].csrf = <<"login", s>> /\ jar'.session # s
                      /\ \A v \in Tabs \ {u} : req'[v].session # s
  BY DEF LandingsAreFresh
<1> DEFINE s == req[u].session
<1>3. u # t /\ req'[u] = req[u] /\ req[u].pc = "landed"
  BY <1>1, <1>2
<1>4. /\ row[s].csrf = <<"login", s>> /\ jar.session # s /\ s # Nobody
      /\ \A v \in Tabs \ {u} : req[v].session # s
  BY <1>1, <1>3 DEF LandingsAreFresh, RequestSound
<1>5. jar'.session # s
  BY <1>3, <1>4
<1>6. ASSUME NEW v \in Tabs \ {u} PROVE req'[v].session # s
  <2>1. CASE v = t
    BY <1>1, <1>3, <1>4, <2>1
  <2>2. CASE v # t
    BY <1>1, <1>4, <2>2
  <2> QED
    BY <2>1, <2>2
<1> QED
  BY <1>3, <1>4, <1>5, <1>6

\* Freshness through the other steps.
LEMMA LandingsKept ==
  ASSUME SessionBase, LandingsAreFresh, [SessionNext]_sessionVars PROVE LandingsAreFresh'
<1>1. /\ \A v \in Tabs : RequestSound(req[v]) /\ req[v] \in Req
      /\ row \in [Sessions -> SessionRow] /\ jar \in Jar /\ req \in [Tabs -> Req]
  BY InvariantInParts, SessionTypes DEF SessionParts
<1>2. ASSUME NEW t \in Tabs, TabStep(t) PROVE LandingsAreFresh'
  <2> DEFINE old == req[t]
  <2>1. CASE Start(t)
    <3> DEFINE r == [old EXCEPT !.pc = "google"]
    <3>1. r \in Req /\ r.pc # "landed" /\ r.session = old.session
      BY <1>1 DEF Req
    <3>2. req' = [req EXCEPT ![t] = r] /\ jar'.session = jar.session /\ row' = row
      BY <1>1, <2>1 DEF Start, Goto, rowsOf, Jar
    <3> HIDE DEF r
    <3> QED
      BY <3>1, <3>2, FreshKept
  <2>2. CASE Callback(t)
    <3>1. PICK g \in Subs : req' = [req EXCEPT ![t].pc = "find", ![t].sub = g]
      BY <2>2 DEF Callback, VerifiedIdentities
    <3> DEFINE r == [old EXCEPT !.pc = "find", !.sub = g]
    <3>2. r \in Req /\ r.pc # "landed" /\ r.session = old.session
      BY <1>1 DEF Req
    <3>3. req' = [req EXCEPT ![t] = r] /\ jar' = jar /\ row' = row
      BY <1>1, <2>2, <3>1 DEF Callback, rowsOf
    <3> HIDE DEF r
    <3> QED
      BY <3>2, <3>3, FreshKept
  <2>3. CASE FindIdentity(t)
    <3> DEFINE r == [old EXCEPT !.pc = "write", !.user = anchor[old.sub]]
    <3>1. old.sub \in Subs /\ anchor \in [Subs -> Users \union {Nobody}]
      BY <1>1, <2>3, InvariantInParts, SessionTypes DEF FindIdentity, RequestSound, SessionParts
    <3>2. r \in Req /\ r.pc # "landed" /\ r.session = old.session
      BY <1>1, <3>1 DEF Req
    <3>3. req' = [req EXCEPT ![t] = r] /\ jar' = jar /\ row' = row
      BY <1>1, <2>3 DEF FindIdentity, UserOf, rowsOf
    <3> HIDE DEF r
    <3> QED
      BY <3>2, <3>3, FreshKept
  <2>4. CASE WriteIdentity(t)
    <3>1. PICK u \in Users \union {Nobody} :
            req' = [req EXCEPT ![t] = [old EXCEPT !.pc = "session", !.user = u]]
      <4>1. CASE Goto(t, "session")
        <5>1. old.user \in Users \union {Nobody} /\ old = [old EXCEPT !.user = old.user]
          BY <1>1 DEF Req
        <5>2. [old EXCEPT !.pc = "session"] = [old EXCEPT !.pc = "session", !.user = old.user]
          BY <1>1 DEF Req
        <5> QED
          BY <4>1, <5>1, <5>2 DEF Goto
      <4>2. CASE \E u \in Users : req' = [req EXCEPT ![t].pc = "session", ![t].user = u]
        BY <1>1, <4>2
      <4> QED
        BY <2>4, <4>1, <4>2 DEF WriteIdentity
    <3> DEFINE r == [old EXCEPT !.pc = "session", !.user = u]
    <3>2. r \in Req /\ r.pc # "landed" /\ r.session = old.session
      BY <1>1 DEF Req
    <3>3. req' = [req EXCEPT ![t] = r] /\ jar' = jar /\ row' = row
      BY <2>4, <3>1 DEF WriteIdentity
    <3> HIDE DEF r
    <3> QED
      BY <3>2, <3>3, FreshKept
  <2>5. CASE CreateSession(t)
    <3>1. PICK s \in Sessions :
            /\ row[s].state = "none"
            /\ row' = [row EXCEPT ![s] = NewSession(old.user, s)]
            /\ req' = [req EXCEPT ![t].pc = "landed", ![t].session = s]
      BY <2>5 DEF CreateSession
    <3>2. /\ jar' = jar /\ row'[s].csrf = <<"login", s>> /\ s # Nobody
          /\ \A q \in Sessions : q # s => row'[q] = row[q]
      BY <1>1, <2>5, <3>1, SessionAssumption DEF CreateSession, NewSession
    <3>3. /\ req'[t].session = s /\ \A u \in Tabs : u # t => req'[u] = req[u]
      BY <1>1, <3>1 DEF Req
    <3>4. jar.session # s /\ \A u \in Tabs : req[u].session # s
      BY <3>1, <3>2 DEF SessionBase, SessionsExist
    <3>5. ASSUME NEW u \in Tabs, u # t, req[u].pc = "landed"
          PROVE  req[u].session \in Sessions \ {s} /\ row'[req[u].session] = row[req[u].session]
      BY <1>1, <3>2, <3>4, <3>5 DEF RequestSound, Req
    <3> QED
      BY <3>2, <3>3, <3>4, <3>5 DEF LandingsAreFresh
  <2>6. CASE SendMe(t)
    <3> DEFINE r == [NoReq EXCEPT !.pc = "me", !.session = jar.session, !.cookie = jar.csrf]
    <3>1. r \in Req /\ r.pc # "landed" /\ r.session = jar.session
      BY <1>1, NoneTyped DEF Req, Jar, NoReq
    <3>2. req' = [req EXCEPT ![t] = r] /\ jar' = jar /\ row' = row
      BY <2>6 DEF SendMe, rowsOf
    <3> HIDE DEF r
    <3> QED
      BY <3>1, <3>2, FreshKept
  <2>7. CASE SendLogout(t)
    <3> DEFINE r == [NoReq EXCEPT !.pc = "logout", !.session = jar.session,
                                  !.cookie = tab[t].token]
    <3>1. tab[t] \in Memory
      BY InvariantInParts, SessionTypes DEF SessionParts
    <3>2. r \in Req /\ r.pc # "landed" /\ r.session = jar.session
      BY <1>1, <3>1, NoneTyped DEF Req, Jar, NoReq, Memory
    <3>3. req' = [req EXCEPT ![t] = r] /\ jar' = jar /\ row' = row
      BY <2>7 DEF SendLogout, rowsOf
    <3> HIDE DEF r
    <3> QED
      BY <3>2, <3>3, FreshKept
  <2>8. CASE Authenticate(t)
    <3> DEFINE r == [old EXCEPT !.pc = IF old.pc = "me" THEN "answer" ELSE "revoke",
                                !.hash = row[old.session].csrf]
    <3>1. old.session \in Sessions /\ row[old.session].csrf \in Token \union {Nobody}
      <4>1. old.session # Nobody
        BY <1>1, <2>8 DEF Authenticate, RequestSound
      <4> QED
        BY <1>1, <4>1 DEF Req, SessionRow
    <3>2. r \in Req /\ r.pc # "landed" /\ r.session = old.session
      BY <1>1, <3>1 DEF Req
    <3>3. req' = [req EXCEPT ![t] = r] /\ jar' = jar /\ row' = row
      BY <1>1, <2>8 DEF Authenticate, rowsOf
    <3> HIDE DEF r
    <3> QED
      BY <3>2, <3>3, FreshKept
  <2>9. CASE Me(t)
    <3> DEFINE s == old.session
    <3>1. PICK cookie \in Token \union {Nobody}, set \in BOOLEAN :
            req' = [req EXCEPT ![t] = [old EXCEPT !.pc = "reply", !.cookie = cookie, !.set = set]]
      <4>1. s \in Sessions
        BY <1>1, <2>9 DEF Me, RequestSound, Req
      <4>2. CASE Goto(t, "reply")
        <5>1. /\ old.cookie \in Token \union {Nobody} /\ old.set \in BOOLEAN
              /\ [old EXCEPT !.pc = "reply"]
                   = [old EXCEPT !.pc = "reply", !.cookie = old.cookie, !.set = old.set]
          BY <1>1 DEF Req
        <5> QED
          BY <4>2, <5>1 DEF Goto
      <4>3. CASE RefreshCSRF(t)
        <5>1. Derived(s) \in Token
          BY <4>1, TokensDiffer
        <5> QED
          BY <1>1, <4>3, <5>1 DEF RefreshCSRF
      <4> QED
        BY <2>9, <4>2, <4>3 DEF Me
    <3> DEFINE r == [old EXCEPT !.pc = "reply", !.cookie = cookie, !.set = set]
    <3>2. r \in Req /\ r.pc # "landed" /\ r.session = old.session
      BY <1>1 DEF Req
    <3>3. req' = [req EXCEPT ![t] = r] /\ jar' = jar
      BY <2>9, <3>1 DEF Me
    <3>4. \A q \in Sessions : q # s => row'[q] = row[q]
      BY <1>1, <2>9 DEF Me, RefreshCSRF, RotateCSRF
    <3>5. ASSUME NEW u \in Tabs, u # t, req[u].pc = "landed"
          PROVE  row'[req[u].session].csrf = row[req[u].session].csrf
      <4>1. req[u].session \in Sessions \ {s}
        BY <1>1, <3>5 DEF LandingsAreFresh, RequestSound, Req
      <4> QED
        BY <3>4, <4>1
    <3> HIDE DEF r
    <3> QED
      BY <3>2, <3>3, <3>5, FreshKept
  <2>10. CASE Logout(t)
    <3> DEFINE r == [old EXCEPT !.pc = "bye"]
    <3>1. r \in Req /\ r.pc # "landed" /\ r.session = old.session
      BY <1>1 DEF Req
    <3>2. req' = [req EXCEPT ![t] = r] /\ jar' = jar
      BY <2>10 DEF Logout, Goto
    <3>3. \A q \in Sessions : row'[q].csrf = row[q].csrf
      BY <1>1, <2>10 DEF Logout, RevokeClientSession, SessionRow
    <3>4. \A u \in Tabs : req[u].pc = "landed" => req[u].session \in Sessions
      BY <1>1 DEF RequestSound, Req
    <3> HIDE DEF r
    <3> QED
      BY <3>1, <3>2, <3>3, <3>4, FreshKept
  <2>11. CASE CallbackFails(t) \/ Unauthorized(t) \/ CSRFInvalid(t) \/ ReceiveMe(t)
    <3>1. req' = [req EXCEPT ![t] = NoReq] /\ jar'.session = jar.session /\ row' = row
      BY <1>1, <2>11 DEF CallbackFails, RedirectLogin, NoState, Unauthorized, CSRFInvalid,
                         ReceiveMe, Done, rowsOf, Jar
    <3> QED
      BY <3>1, NoneTyped, FreshKept DEF NoReq
  <2>12. CASE Landed(t) \/ ReceiveLogout(t)
    <3>1. /\ req' = [req EXCEPT ![t] = NoReq] /\ row' = row
          /\ jar'.session \in {jar.session, Nobody, old.session}
      BY <1>1, <2>12 DEF Landed, ReceiveLogout, NoState, Cookies, NoCookies, Done, rowsOf, Jar
    <3> QED
      BY <3>1, NoneTyped, FreshKept DEF NoReq
  <2> QED
    BY <1>2, <2>1, <2>2, <2>3, <2>4, <2>5, <2>6, <2>7, <2>8, <2>9, <2>10, <2>11, <2>12 DEF TabStep
<1>3. ASSUME NEW s \in Sessions, Expire(s) PROVE LandingsAreFresh'
  <2>1. jar' = jar /\ req' = req /\ \A q \in Sessions : row'[q].csrf = row[q].csrf
    BY <1>1, <1>3 DEF Expire, SessionRow
  <2>2. \A u \in Tabs : req[u].pc = "landed" => req[u].session \in Sessions
    BY <1>1 DEF RequestSound, Req
  <2> QED
    BY <2>1, <2>2 DEF LandingsAreFresh
<1>4. CASE UNCHANGED sessionVars
  BY <1>4 DEF sessionVars, rowsOf, browser, LandingsAreFresh
<1> QED
  BY <1>2, <1>3, <1>4 DEF SessionNext

-----------------------------------------------------------------------------

\* SessionInv holds in every reachable state.
THEOREM SessionInvariance == SessionSpec => []SessionInv
<1>1. SessionInit => SessionInv
  <2> SUFFICES ASSUME SessionInit PROVE SessionInv
    OBVIOUS
  <2>1. PICK old \in BOOLEAN, u \in Users, g \in Subs :
          /\ account = [v \in Users |-> IF old /\ v = u THEN g ELSE Nobody]
          /\ anchor = [k \in Subs |-> IF old /\ k = g THEN u ELSE Nobody]
          /\ row = [s \in Sessions |->
               IF old /\ s = OldSession
               THEN [state |-> "live", user |-> u, csrf |-> <<"old", s>>]
               ELSE [state |-> "none", user |-> Nobody, csrf |-> Nobody]]
          /\ jar = [session |-> IF old THEN OldSession ELSE Nobody, csrf |-> Nobody,
                    state |-> Nobody]
    BY DEF SessionInit
  <2>2. /\ tab = [t \in Tabs |-> NoTab] /\ req = [t \in Tabs |-> NoReq] /\ crossed = {}
    BY DEF SessionInit
  <2>3. SessionTypeOK
    <3>1. row \in [Sessions -> SessionRow]
      BY <2>1, TokensDiffer DEF SessionRow
    <3>2. jar \in Jar
      BY <2>1, SessionAssumption DEF Jar
    <3>3. tab \in [Tabs -> Memory] /\ req \in [Tabs -> Req]
      BY <2>2, NoneTyped
    <3> QED
      BY <2>1, <2>2, <3>1, <3>2, <3>3, SessionTypes
  <2>4. AccountsSound
    BY <2>1, SessionAssumption DEF AccountsSound, AccountsAreAnchored
  <2>5. RowsSound
    BY <2>1 DEF RowsSound
  <2>6. JarSound
    BY <2>1, TokensDiffer, SessionAssumption
       DEF JarSound, Presented, Refreshed
  <2>7. \A t \in Tabs : RequestSound(req[t]) /\ MemorySound(tab[t])
    BY <2>2, NoReqIsSound, SessionAssumption DEF MemorySound, NoTab
  <2>8. LandingsAreFresh
    BY <2>2 DEF LandingsAreFresh, NoReq
  <2> QED
    BY <2>3, <2>4, <2>5, <2>6, <2>7, <2>8, InvariantInParts
       DEF SessionInv, SessionBase, SessionParts
<1>2. SessionInv /\ [SessionNext]_sessionVars => SessionInv'
  <2> SUFFICES ASSUME SessionInv, [SessionNext]_sessionVars PROVE SessionInv'
    OBVIOUS
  <2>1. SessionBase /\ LandingsAreFresh
    BY DEF SessionInv, SessionBase
  <2>2. LandingsAreFresh'
    BY <2>1, LandingsKept
  <2>3. SessionBase'
    <3>1. CASE UNCHANGED sessionVars
      <4>1. UNCHANGED <<account, anchor, row, jar, tab, req, crossed>>
        BY <3>1 DEF sessionVars, rowsOf, browser
      <4>2. SessionParts
        BY <2>1, InvariantInParts
      <4>3. SessionTypeOK' /\ AccountsSound'
        BY <4>1, <4>2 DEF SessionParts, SessionTypeOK, AccountsSound, AccountsAreAnchored
      <4>4. JarSound' /\ RowsSound'
        BY <4>1, <4>2 DEF SessionParts, JarSound, RowsSound, Presented, Given, Refreshed, Derived
      <4>5. ASSUME NEW t \in Tabs PROVE MemorySound(tab[t])' /\ RequestSound(req[t])'
        <5>1. MemorySound(tab[t]) /\ RequestSound(req[t])
          BY <4>2 DEF SessionParts
        <5>2. MemorySound(tab[t])'
          BY ONLY <4>1, <5>1 DEF MemorySound, Given, Live, Derived
        <5>3. RequestSound(req[t])'
          BY ONLY <4>1, <5>1 DEF RequestSound, Given, Refreshed, Presented, Live, Derived
        <5> QED
          BY <5>2, <5>3
      <4> QED
        BY <4>3, <4>4, <4>5, NextInParts DEF SessionParts
    <3>2. ASSUME NEW t \in Tabs, TabStep(t) PROVE SessionBase'
      BY <2>1, <3>2, LoginReadsKept, IdentityKept, CreationKept, AnswersKept, RequestsKept, MeKept,
         EndKept DEF TabStep
    <3>3. ASSUME NEW s \in Sessions, Expire(s) PROVE SessionBase'
      BY <2>1, <3>3, EndKept
    <3> QED
      BY <3>1, <3>2, <3>3 DEF SessionNext
  <2> QED
    BY <2>2, <2>3 DEF SessionInv, SessionBase
<1> QED
  BY <1>1, <1>2, PTL DEF SessionSpec

\* The token a tab got from /me stays valid as long as its session lives, unless
\* a late answer of another session replaced the CSRF cookie.
THEOREM RefreshesAgree == SessionSpec => []RefreshesConverge
<1>1. SessionInv => RefreshesConverge
  BY DEF SessionInv
<1> QED
  BY <1>1, SessionInvariance, PTL

\* A Google account has one user, and sessions belong to such users.
THEOREM OneUserPerAccount == SessionSpec => []AccountsAreAnchored
<1>1. SessionInv => AccountsAreAnchored
  BY DEF SessionInv
<1> QED
  BY <1>1, SessionInvariance, PTL

\* A session that is over never comes back, and its CSRF hash is never replaced.
THEOREM DeadSessionsStand == SessionSpec => DeadSessionsStayDead
<1> DEFINE Dead ==
      \A s \in Sessions :
        row[s].state \in {"revoked", "expired"} =>
          /\ row'[s].state \in {"revoked", "expired"}
          /\ row'[s].csrf = row[s].csrf
<1>1. SessionInv /\ [SessionNext]_sessionVars => [Dead]_sessionVars
  <2> SUFFICES ASSUME SessionInv, SessionNext, NEW s \in Sessions,
                      row[s].state \in {"revoked", "expired"}
               PROVE  row'[s].state \in {"revoked", "expired"} /\ row'[s].csrf = row[s].csrf
    OBVIOUS
  <2>1. row \in [Sessions -> SessionRow]
    BY SessionTypes DEF SessionInv
  <2>2. CASE UNCHANGED row
    BY <2>2
  <2>3. ASSUME NEW t \in Tabs, CreateSession(t) PROVE row'[s] = row[s]
    BY <2>1, <2>3 DEF CreateSession
  <2>4. ASSUME NEW t \in Tabs, Me(t) PROVE row'[s] = row[s]
    BY <2>1, <2>4 DEF Me, RefreshCSRF, RotateCSRF, Live
  <2>5. ASSUME NEW t \in Tabs, Logout(t)
        PROVE  row'[s].state \in {"revoked", "expired"} /\ row'[s].csrf = row[s].csrf
    BY <2>1, <2>5 DEF Logout, RevokeClientSession, SessionRow
  <2>6. ASSUME NEW q \in Sessions, Expire(q) PROVE row'[s] = row[s]
    BY <2>1, <2>6 DEF Expire, Live
  <2> QED
    BY <2>2, <2>3, <2>4, <2>5, <2>6
       DEF SessionNext, TabStep, Start, Callback, CallbackFails, RedirectLogin, FindIdentity,
           WriteIdentity, Landed, SendMe, SendLogout, Authenticate, Unauthorized, ReceiveMe,
           CSRFInvalid, ReceiveLogout, rowsOf
<1> QED
  BY <1>1, SessionInvariance, PTL DEF SessionSpec, DeadSessionsStayDead
=============================================================================

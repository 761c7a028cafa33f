----------------------- MODULE BrowserSession_proofs -----------------------
(***************************************************************************)
(* Proofs about BrowserSession, for any sets of users, tabs, browsers and  *)
(* requests, any setting and any lifetimes.                                *)
(***************************************************************************)
EXTENDS BrowserSession, AuthSessions_proofs

USE NoOneAssumption, EndpointAssumption, TimeAssumption, SettingAssumption, NullAssumption

-----------------------------------------------------------------------------
(* The inductive invariant *)

Arrived(r) == heard[r] = "arrived"
Failed(r) == Arrived(r) /\ reply[r] # "ok"

\* A refresh token the browser has had in its hands.
Known(s) == s \in Delivered /\ Arrived(s)

Root(s) == lineage[s].root
Parent(s) == lineage[s].parent
Family(root) == {s \in Requests : Exists(s) /\ Root(s) = root}
Childless(s) == \A y \in Requests : Exists(y) => Parent(y) # s

\* None of the sessions of this login was issued by a request that overlapped
\* another one of its browser.
Clean(root) == \A y \in Family(root), x \in Requests : ~Overlap(x, y)

LoginLabels == {"login_create", "login_audit"}
ReuseLabels == {"reuse_audit", "reuse_read", "reuse_write"}
RefreshLabels == {"refresh_rotate", "refresh_audit", "expired_revoke"} \cup ReuseLabels
LogoutLabels == {"logout_revoke", "logout_audit"}
Serving == LoginLabels \cup RefreshLabels \cup LogoutLabels

\* A request that was not sent has left no trace; one that was sent is where
\* its route leads, and answered when it is done.
RouteOK(r) ==
  /\ ~Sent(r) => /\ pc[r] = "start" /\ heard[r] = "no"
                 /\ carried[r] = NoOne /\ unheard[r] = {}
  /\ Sent(r) => Endpoint[r] \in {"login", "refresh", "logout"}
  /\ pc[r] \in {"start", "done"} \cup Serving
  /\ pc[r] \in LoginLabels => Endpoint[r] = "login"
  /\ pc[r] \in RefreshLabels => Endpoint[r] = "refresh"
  /\ pc[r] \in LogoutLabels => Endpoint[r] = "logout"
  /\ Endpoint[r] = "logout" => reply[r] \in {"none", "ok", "error"}
  /\ Arrived(r) => reply[r] # "none"
RouteInv == \A r \in Requests : RouteOK(r)

\* A handler works on the token the request carried, found as its label says.
TargetOK(r) ==
  /\ pc[r] \in RefreshLabels \cup LogoutLabels =>
       carried[r] # NoOne /\ loc[r].target = carried[r]
  /\ pc[r] \in {"reuse_read", "reuse_write"} => audit[r] = "REUSE_DETECTED"
  /\ audit[r] = "REUSE_DETECTED" =>
       pc[r] \in {"reuse_read", "reuse_write", "done"} /\ reply[r] # "ok"
  /\ pc[r] = "expired_revoke" => Expired(session[carried[r]])
  /\ pc[r] \in ReuseLabels \/ reply[r] = "reuse" =>
       carried[r] # NoOne /\ session[carried[r]].revoked
  /\ Endpoint[r] = "logout" /\ carried[r] # NoOne
       /\ (pc[r] = "logout_audit" \/ reply[r] = "ok") => session[carried[r]].revoked
TargetInv == \A r \in Requests : TargetOK(r)

\* Where a session comes from, seen from the request that issued it.
IssueOK(r) ==
  /\ pc[r] \in {"login_audit", "refresh_audit"} => Exists(r)
  /\ reply[r] = "ok" /\ Sent(r) => Exists(r) \/ Endpoint[r] = "logout"
  /\ Exists(r) =>
       /\ Endpoint[r] \in {"login", "refresh"}
       /\ session[r].expiresAt <= now + SessionTTL
       /\ Endpoint[r] = "login" => Root(r) = r /\ Parent(r) = NoOne
       /\ Endpoint[r] = "refresh" =>
            /\ carried[r] # NoOne
            /\ Parent(r) = carried[r]
            /\ Root(r) = Root(carried[r])
            /\ session[carried[r]].revoked
IssueInv == \A r \in Requests : IssueOK(r)

\* Tokens stay in the browser they were sent to.
CookieInv == \A b \in Browsers :
  cookie[b].token # NoOne => Known(cookie[b].token) /\ Home(cookie[b].token) = b
CarriedInv == \A r \in Requests :
  carried[r] # NoOne =>
    Sent(r) /\ Known(carried[r]) /\ Home(carried[r]) = Home(r) /\ carried[r] # r
RootInv == \A y \in Requests : Exists(y) =>
  Home(Root(y)) = Home(y) /\ (Arrived(y) => Arrived(Root(y)))
HeldInv == \A t \in Tabs :
  page[t] = "in" => Known(held[t]) /\ origin[held[t]] = t
LeftInv == \A q \in Requests :
  Sent(q) /\ Endpoint[q] = "logout" => Known(left[q]) /\ Home(left[q]) = Home(q)

\* Of two requests of a browser that do not overlap one has its answer.
InTurn == \A x, y \in Requests :
  Sent(x) /\ Sent(y) /\ x # y /\ Home(x) = Home(y) =>
    Overlap(x, y) \/ Arrived(x) \/ Arrived(y)

\* A token that was presented with success is not the cookie any more ...
Presented == \A x \in Requests :
  carried[x] # NoOne /\ Arrived(x) /\ reply[x] = "ok" => cookie[Home(x)].token # carried[x]

\* ... so that two requests in turn carry it only if one of them failed.
PresentedOnce == \A x, y \in Requests :
  carried[x] # NoOne /\ carried[x] = carried[y] /\ x # y =>
    Overlap(x, y) \/ Failed(x) \/ Failed(y)

\* A request under way carries the cookie its browser has.
CookieCarried == \A x \in Requests :
  LET jar == cookie[Home(x)]
  IN  Sent(x) /\ ~Arrived(x) /\ jar.token # NoOne =>
        \/ carried[x] = jar.token
        \/ Overlap(x, jar.token)
        \/ carried[x] = NoOne /\ jar.until <= now

\* Only requests that overlap exchange a token twice, ...
RotatedOnce == \A x, y \in Requests :
  pc[y] = "refresh_rotate" /\ Exists(x) /\ Parent(x) = carried[y] => Overlap(x, y)

\* ... without them a login has one session that was not exchanged.
OneTip == \A s, t \in Requests :
  /\ Exists(s) /\ Exists(t)
  /\ Root(s) = Root(t) /\ Clean(Root(s))
  /\ Childless(s) /\ Childless(t)
  => s = t

\* q closed session s for the browser that presented it, and nobody in turn
\* was told that s was used before.
Consumed(q, s) ==
  /\ carried[q] = s
  /\ pc[q] \in {"refresh_audit", "logout_audit"} \/ reply[q] = "ok"
  /\ \A r \in Requests \ {q} : carried[r] = s =>
       Overlap(r, q) \/ (pc[r] = "done" /\ reply[r] # "reuse")

ClosedOK(s) ==
  Exists(s) /\ session[s].revoked =>
    \E q \in Requests :
      /\ closedBy[s] = q
      /\ \/ audit[q] = "REUSE_DETECTED"
         \/ Endpoint[q] = "refresh" /\ reply[q] = "rejected" /\ Expired(session[s])
         \/ reply[q] = "error"
         \/ Consumed(q, s)
ClosedInv == \A s \in Requests : ClosedOK(s)

\* A session that is usable and has reached its browser is the cookie.
HeldByCookie(s) ==
  /\ cookie[Home(s)].token = s
  /\ session[s].expiresAt <= cookie[Home(s)].until
UsableHeld == \A s \in Requests :
  Known(s) /\ Live(s) /\ Clean(Root(s)) /\ Root(s) \notin displaced =>
    Expired(session[s]) \/ HeldByCookie(s)

\* After a logout that succeeded its browser has no token of that login; no
\* request that carries one is answered after it; and if the logout carried
\* none of them, there was nothing left to revoke.
NoTokenLeft(q, root) ==
  Arrived(q) /\ reply[q] = "ok" => cookie[Home(q)].token \notin Family(root)
NoneUnderWay(q, root) ==
  \A y \in Requests \ {q} :
    carried[y] \in Family(root) => Overlap(q, y) \/ Arrived(y) \/ Failed(q)
NothingUsable(q, root) ==
  reply[q] # "error" /\ carried[q] \notin Family(root) /\ root \notin displaced =>
    \A s \in Family(root) : Live(s) /\ s \in Delivered => Expired(session[s])
LogoutOK(q, root) ==
  Sent(q) /\ Endpoint[q] = "logout" /\ Root(left[q]) = root /\ Clean(root) =>
    NoTokenLeft(q, root) /\ NoneUnderWay(q, root) /\ NothingUsable(q, root)
LogoutInv == \A q, root \in Requests : LogoutOK(q, root)

ClientInv ==
  /\ RouteInv /\ TargetInv /\ IssueInv
  /\ CookieInv /\ CarriedInv /\ RootInv /\ HeldInv /\ LeftInv
  /\ InTurn /\ Presented /\ PresentedOnce /\ CookieCarried
  /\ RotatedOnce /\ OneTip /\ ClosedInv /\ UsableHeld /\ LogoutInv

BrowserInv == IInv /\ BrowserTypeOK /\ ClientInv

-----------------------------------------------------------------------------
(* What a step keeps *)

Submitted(t, r) == Load(t, r) \/ SubmitLogin(t, r) \/ SubmitLogout(t, r)

\* The steps of a browser and of the server.
LEMMA BrowserSteps ==
  ASSUME [BrowserNext]_allVars
  PROVE  \/ \E r \in Requests, t \in Tabs : Submitted(t, r)
         \/ \E r \in Requests : Backend(r)
         \/ \E r \in Requests : Hear(r)
         \/ \E r \in Requests : Lose(r)
         \/ Wait
         \/ UNCHANGED allVars
  BY DEF BrowserNext, Submitted

\* What sending changes: the request's own fields.
LEMMA SendFacts ==
  ASSUME BrowserTypeOK, NEW t \in Tabs, NEW r \in Requests, Submitted(t, r)
  PROVE  /\ ~Sent(r) /\ Sent(r)'
         /\ Home(r)' = setting.home[t] /\ Home(r)' \in Browsers
         /\ carried'[r] = Jar(Home(r)')
         /\ unheard'[r] = {q \in Requests : Sent(q) /\ ~Arrived(q) /\ Home(q) = Home(r)'}
         /\ Endpoint[r] \in {"login", "refresh", "logout"}
         /\ Endpoint[r] = "logout" => page[t] = "in" /\ left'[r] = held[t]
         /\ UNCHANGED <<vars, setting, cookie, heard, closedBy, displaced>>
         /\ \A x \in Requests \ {r} :
              /\ origin'[x] = origin[x] /\ carried'[x] = carried[x]
              /\ unheard'[x] = unheard[x] /\ left'[x] = left[x]
              /\ Sent(x)' <=> Sent(x)
              /\ Home(x)' = Home(x)
  <1>1. PICK e \in {"login", "refresh", "logout"} : Send(t, r, e)
    BY DEF Submitted, Load, SubmitLogin, SubmitLogout
  <1>2. /\ ~Sent(r) /\ Endpoint[r] = e
        /\ origin' = [origin EXCEPT ![r] = t]
        /\ carried' = [carried EXCEPT ![r] = Jar(setting.home[t])]
        /\ unheard' = [unheard EXCEPT
                         ![r] = {q \in Requests : Sent(q) /\ heard[q] # "arrived"
                                                    /\ Home(q) = setting.home[t]}]
        /\ UNCHANGED <<vars, setting, cookie, heard, closedBy, displaced>>
    BY <1>1 DEF Send
  <1>3. /\ Endpoint[r] = "logout" => page[t] = "in" /\ left' = [left EXCEPT ![r] = held[t]]
        /\ Endpoint[r] # "logout" => left' = left
    BY <1>2 DEF Submitted, Load, SubmitLogin, SubmitLogout, Send
  <1>4. setting.home \in [Tabs -> Browsers]
    BY DEF BrowserTypeOK
  <1>5. /\ origin \in [Requests -> Tabs \cup {NoOne}]
        /\ carried \in [Requests -> Requests \cup {NoOne}]
        /\ unheard \in [Requests -> SUBSET Requests]
        /\ left \in [Requests -> Requests \cup {NoOne}]
    BY DEF BrowserTypeOK
  <1>6. origin'[r] = t /\ \A x \in Requests \ {r} : origin'[x] = origin[x]
    BY <1>2, <1>5
  <1>7. Home(r)' = setting.home[t] /\ \A x \in Requests \ {r} : Home(x)' = Home(x)
    BY <1>2, <1>6 DEF Home
  <1>8. Sent(r)' /\ \A x \in Requests \ {r} : Sent(x)' <=> Sent(x)
    BY <1>6 DEF Sent
  <1>9. /\ carried'[r] = Jar(setting.home[t])
        /\ \A x \in Requests \ {r} : carried'[x] = carried[x]
    BY <1>2, <1>5
  <1>10. /\ unheard'[r] = {q \in Requests : Sent(q) /\ ~Arrived(q) /\ Home(q) = Home(r)'}
         /\ \A x \in Requests \ {r} : unheard'[x] = unheard[x]
    BY <1>2, <1>5, <1>7 DEF Arrived
  <1>11. /\ Endpoint[r] = "logout" => left'[r] = held[t]
         /\ \A x \in Requests \ {r} : left'[x] = left[x]
    BY <1>3, <1>5
  <1> QED
    BY <1>2, <1>3, <1>4, <1>6, <1>7, <1>8, <1>9, <1>10, <1>11 DEF Jar

\* An answer that arrives may change the cookie of its browser.
LEMMA HearFacts ==
  ASSUME BrowserTypeOK, NEW r \in Requests, Hear(r)
  PROVE  /\ Sent(r) /\ ~Arrived(r) /\ reply[r] # "none"
         /\ heard'[r] = "arrived"
         /\ \A x \in Requests \ {r} : heard'[x] = heard[x]
         /\ Home(r) \in Browsers
         /\ cookie'[Home(r)] = CookieAfter(r)
         /\ \A b \in Browsers \ {Home(r)} : cookie'[b] = cookie[b]
         /\ displaced \subseteq displaced'
         /\ reply[r] = "ok" /\ Endpoint[r] = "login" /\ Jar(Home(r)) # NoOne =>
              Root(Jar(Home(r))) \in displaced'
         /\ UNCHANGED <<vars, setting, origin, carried, gone, unheard, left, closedBy>>
  <1>1. /\ Sent(r) /\ ~Arrived(r) /\ reply[r] # "none"
        /\ heard' = [heard EXCEPT ![r] = "arrived"]
        /\ cookie' = [cookie EXCEPT ![Home(r)] = CookieAfter(r)]
        /\ UNCHANGED <<vars, setting, origin, carried, gone, unheard, left, closedBy>>
    BY DEF Hear, InFlight, Arrived
  <1>2. setting.home \in [Tabs -> Browsers] /\ origin[r] \in Tabs
    BY <1>1 DEF BrowserTypeOK, Sent
  <1>3. Home(r) \in Browsers
    BY <1>2 DEF Home
  <1>4. displaced' = displaced \cup
       {lineage[c].root : c \in {x \in {Jar(Home(r))} \ {NoOne} :
                                    reply[r] = "ok" /\ Endpoint[r] = "login"}}
    BY DEF Hear
  <1>5. ASSUME reply[r] = "ok", Endpoint[r] = "login", Jar(Home(r)) # NoOne
        PROVE  Root(Jar(Home(r))) \in displaced'
    BY <1>4, <1>5 DEF Root
  <1> QED
    BY <1>1, <1>3, <1>4, <1>5 DEF BrowserTypeOK

\* A step of a handler changes nothing in a browser.
LEMMA BackendFacts ==
  ASSUME BrowserTypeOK, RouteInv, NEW r \in Requests, Backend(r)
  PROVE  /\ Sent(r) /\ pc[r] # "done"
         /\ Serve(r) \/ Continue(r) \/ AbortRequest(r)
         /\ Arrive(r) \/ Continue(r) \/ AbortRequest(r)
         /\ UNCHANGED <<setting, page, held, cookie, origin, carried, heard, gone,
                        unheard, left, displaced>>
         /\ UNCHANGED now
         /\ \A s \in Requests :
              closedBy'[s] = IF Live(s) /\ session'[s].revoked THEN r ELSE closedBy[s]
  <1>1. ASSUME Serve(r) PROVE Sent(r) /\ pc[r] # "done" /\ Arrive(r) /\ UNCHANGED now
    <2>1. carried[r] \in Requests \cup {NoOne}
      BY DEF BrowserTypeOK
    <2>2. Sent(r) /\ Arrive(r)
      BY <1>1, <2>1 DEF Serve, Arrive
    <2>3. pc[r] = "start" /\ now' = now
      BY <1>1 DEF Serve, LoginRejected, LoginLookup, RefreshUnknown, RefreshLookup,
           LogoutNothing, LogoutLookup, StartsAt
    <2> QED
      BY <2>2, <2>3
  <1>2. ASSUME Continue(r) PROVE pc[r] \notin {"start", "done"} /\ UNCHANGED now
    BY <1>2 DEF Continue, LoginCreate, LoginAudit, RefreshRotate, RefreshAudit,
         ReuseAudit, ReuseSweepRead, ReuseSweepWrite, ExpiredRevoke, LogoutRevoke,
         LogoutAudit, ResetSweepRead, ResetCommit, ResetAudit
  <1>3. ASSUME AbortRequest(r) PROVE pc[r] \notin {"start", "done"} /\ UNCHANGED now
    BY <1>3 DEF AbortRequest
  <1>4. pc[r] \notin {"start", "done"} => Sent(r) /\ pc[r] # "done"
    BY DEF RouteInv, RouteOK
  <1>5. \A s \in Requests :
          closedBy'[s] = IF Live(s) /\ session'[s].revoked THEN r ELSE closedBy[s]
    BY DEF Backend
  <1>6. /\ Serve(r) \/ Continue(r) \/ AbortRequest(r)
        /\ UNCHANGED <<setting, page, held, cookie, origin, carried, heard, gone,
                       unheard, left, displaced>>
    BY DEF Backend
  <1> QED
    BY <1>1, <1>2, <1>3, <1>4, <1>5, <1>6

\* Seen from the server, browsers take steps of AuthSessions.
LEMMA ServerStep ==
  ASSUME BrowserTypeOK, RouteInv, [BrowserNext]_allVars
  PROVE  [Next]_vars
  <1>1. ASSUME NEW r \in Requests, Backend(r) PROVE Next
    BY <1>1, BackendFacts DEF Next
  <1>2. ASSUME NEW r \in Requests, Hear(r) \/ Lose(r) PROVE UNCHANGED vars
    BY <1>2 DEF Hear, Lose
  <1>3. ASSUME NEW r \in Requests, NEW t \in Tabs, Submitted(t, r) PROVE UNCHANGED vars
    BY <1>3, SendFacts
  <1>4. Wait => Next
    BY DEF Wait, Next
  <1>5. UNCHANGED allVars => UNCHANGED vars
    BY DEF allVars
  <1> QED
    BY <1>1, <1>2, <1>3, <1>4, <1>5, BrowserSteps

\* What is recorded of a request that was sent stays; an answer that arrived
\* has arrived.
LEMMA ClientKept ==
  ASSUME BrowserTypeOK, RouteInv, [BrowserNext]_allVars, NEW x \in Requests
  PROVE  /\ setting' = setting /\ displaced \subseteq displaced'
         /\ Sent(x) => /\ Sent(x)' /\ Home(x)' = Home(x) /\ origin'[x] = origin[x]
                       /\ carried'[x] = carried[x] /\ unheard'[x] = unheard[x]
                       /\ left'[x] = left[x]
         /\ Arrived(x) => Arrived(x)'
         /\ Arrived(x)' /\ ~Arrived(x) => Hear(x)
         /\ Sent(x)' /\ ~Sent(x) => \E t \in Tabs : Submitted(t, x)
  <1>1. ASSUME NEW r \in Requests, NEW t \in Tabs, Submitted(t, r)
        PROVE  /\ setting' = setting /\ displaced \subseteq displaced'
               /\ Sent(x) => /\ Sent(x)' /\ Home(x)' = Home(x) /\ origin'[x] = origin[x]
                             /\ carried'[x] = carried[x] /\ unheard'[x] = unheard[x]
                             /\ left'[x] = left[x]
               /\ Arrived(x)' = Arrived(x)
               /\ Sent(x)' /\ ~Sent(x) => Submitted(t, x)
    BY <1>1, SendFacts DEF Arrived
  <1>2. ASSUME NEW r \in Requests, Backend(r)
        PROVE  UNCHANGED <<setting, displaced, origin, carried, unheard, left, heard>>
    BY <1>2, BackendFacts
  <1>3. ASSUME NEW r \in Requests, Hear(r)
        PROVE  /\ UNCHANGED <<setting, origin, carried, unheard, left>>
               /\ displaced \subseteq displaced'
               /\ Arrived(x) => Arrived(x)'
               /\ Arrived(x)' /\ ~Arrived(x) => x = r
    BY <1>3, HearFacts DEF Arrived
  <1>4. ASSUME NEW r \in Requests, Lose(r)
        PROVE  /\ UNCHANGED <<setting, displaced, origin, carried, unheard, left>>
               /\ Arrived(x)' = Arrived(x)
    BY <1>4 DEF Lose, InFlight, Arrived, clientHistory, BrowserTypeOK
  <1>5. CASE Wait \/ UNCHANGED allVars
    BY <1>5 DEF Wait, allVars, client, clientHistory, Arrived, Sent, Home
  <1> QED
    BY <1>1, <1>2, <1>3, <1>4, <1>5, BrowserSteps DEF Sent, Home, Arrived

\* Requests that overlapped, overlapped.
LEMMA OverlapKept ==
  ASSUME BrowserTypeOK, RouteInv, [BrowserNext]_allVars,
         NEW x \in Requests, NEW y \in Requests, Overlap(x, y)
  PROVE  Overlap(x, y)'
  <1>1. ASSUME NEW a \in Requests, NEW b \in Requests, b \in unheard[a]
        PROVE  b \in unheard'[a]
    BY <1>1, ClientKept DEF RouteInv, RouteOK
  <1> QED
    BY <1>1 DEF Overlap

\* The expiry of a row never changes.
LEMMA ExpiryKept ==
  ASSUME TypeOK, HandlerInv, RowInv, [Next]_vars, NEW s \in Requests, Exists(s)
  PROVE  session'[s].expiresAt = session[s].expiresAt
  <1>1. ASSUME NEW r \in Requests, LoginCreate(r)
        PROVE  session'[s].expiresAt = session[s].expiresAt
    BY <1>1 DEF LoginCreate, TypeOK, RowInv, RowOK
  <1>2. ASSUME NEW r \in Requests, RefreshRotate(r)
        PROVE  session'[s].expiresAt = session[s].expiresAt
    <2> DEFINE old == loc[r].target
               u == loc[r].user
    <2>1. /\ old \in Requests /\ u \in Users /\ old # r /\ ~Exists(r)
          /\ \A x \in Requests \ {r, old} : session'[x] = session[x]
      BY <1>2, RotationFacts
    <2>2. session' = Rotated(old, r, u)
      BY <1>2 DEF RefreshRotate
    <2>3. session \in [Requests -> SessionRow] /\ now \in Nat
      BY DEF TypeOK
    <2> HIDE DEF old, u
    <2>4. session'[old].expiresAt = session[old].expiresAt
      BY <2>1, <2>2, <2>3, RotatedFacts
    <2> QED
      BY <2>1, <2>4
  <1>3. ASSUME NEW rows, session' = Revoked(rows)
        PROVE  session'[s].expiresAt = session[s].expiresAt
    BY <1>3, RevokedFacts DEF TypeOK
  <1>4. ASSUME NEW r \in Requests, ResetCommit(r)
        PROVE  session' = Revoked(loc[r].victims)
    BY <1>4 DEF ResetCommit
  <1> QED
    BY <1>1, <1>2, <1>3, <1>4, StoreStep

\* Only the acting handler writes its audit entry.
LEMMA AuditOf ==
  ASSUME TypeOK, NEW r \in Requests, Arrive(r) \/ Continue(r) \/ AbortRequest(r)
  PROVE  now' = now /\ \A x \in Requests \ {r} : audit'[x] = audit[x]
  <1> USE DEF TypeOK, RecordAudit, database
  <1>1. CASE Arrive(r)
    BY <1>1 DEF Arrive, LoginRejected, LoginLookup, RefreshUnknown, RefreshLookup,
         LogoutNothing, LogoutLookup, ForgotUnknown, ForgotPassword, ResetRejected,
         ResetLookup
  <1>2. CASE Continue(r)
    BY <1>2 DEF Continue, LoginCreate, LoginAudit, RefreshRotate, RefreshAudit,
         ReuseAudit, ReuseSweepRead, ReuseSweepWrite, ExpiredRevoke, LogoutRevoke,
         LogoutAudit, ResetSweepRead, ResetCommit, ResetAudit
  <1>3. CASE AbortRequest(r)
    BY <1>3 DEF AbortRequest
  <1> QED
    BY <1>1, <1>2, <1>3

\* A request that is done stays as it is, a row that exists keeps its columns
\* but for being revoked, a token delivered is delivered.
LEMMA ServerKept ==
  ASSUME IInv, [Next]_vars, NEW x \in Requests
  PROVE  /\ now \in Nat /\ now' \in Nat /\ now <= now'
         /\ pc[x] = "done" => /\ pc'[x] = "done" /\ reply'[x] = reply[x]
                              /\ audit'[x] = audit[x]
         /\ reply[x] # "none" => pc[x] = "done"
         /\ Exists(x) => /\ Exists(x)' /\ Root(x)' = Root(x) /\ Parent(x)' = Parent(x)
                         /\ session'[x].expiresAt = session[x].expiresAt
                         /\ session[x].revoked => session'[x].revoked
                         /\ Live(x)' => Live(x)
                         /\ Expired(session[x]) => Expired(session[x])'
         /\ x \in Delivered => x \in Delivered'
  <1>1. TypeOK /\ HandlerInv /\ RowInv /\ TypeOK'
    BY StepInv DEF IInv
  <1>2. \/ \E r \in Requests : Arrive(r) \/ Continue(r) \/ AbortRequest(r)
        \/ UNCHANGED <<pc, reply, audit>> /\ (now' = now \/ now' = now + 1)
    BY DEF Next, Tick, vars, database
  <1>3. now \in Nat /\ now' \in Nat /\ now <= now'
    BY <1>1, <1>2, AuditOf DEF TypeOK
  <1>4. pc[x] = "done" => /\ pc'[x] = "done" /\ reply'[x] = reply[x]
                          /\ audit'[x] = audit[x]
    BY <1>1, <1>2, AuditOf, Frame
  <1>5. reply[x] # "none" => pc[x] = "done"
    BY <1>1 DEF HandlerInv, HandlerOK
  <1>6. Exists(x) => /\ Exists(x)' /\ Root(x)' = Root(x) /\ Parent(x)' = Parent(x)
                     /\ session[x].revoked => session'[x].revoked
                     /\ Live(x)' => Live(x)
    BY <1>1, RowsKept DEF Exists, Root, Parent, Live
  <1>7. Exists(x) => session'[x].expiresAt = session[x].expiresAt
    BY <1>1, ExpiryKept
  <1>8. session[x].expiresAt \in Nat
    BY <1>1 DEF TypeOK, SessionRow
  <1>9. Exists(x) /\ Expired(session[x]) => Expired(session[x])'
    BY <1>3, <1>7, <1>8 DEF Expired
  <1>10. x \in Delivered => x \in Delivered'
    BY <1>4, <1>5, <1>6 DEF Delivered
  <1> QED
    BY <1>3, <1>4, <1>5, <1>6, <1>7, <1>9, <1>10

-----------------------------------------------------------------------------
(* What is new after a step, and which step it was *)

\* A cookie changes only when a success arrives, and to what came with it.
LEMMA CookieChanges ==
  ASSUME BrowserTypeOK, RouteInv, [BrowserNext]_allVars, NEW b \in Browsers,
         cookie'[b] # cookie[b]
  PROVE  \E r \in Requests :
           /\ Hear(r) /\ Home(r) = b /\ reply[r] = "ok"
           /\ cookie'[b] = IF Endpoint[r] = "logout" THEN NoCookie
                           ELSE [token |-> r, until |-> now + SessionTTL]
  <1>1. ASSUME NEW r \in Requests, NEW t \in Tabs, Submitted(t, r) PROVE UNCHANGED cookie
    BY <1>1, SendFacts
  <1>2. ASSUME NEW r \in Requests, Backend(r) PROVE UNCHANGED cookie
    BY <1>2, BackendFacts
  <1>3. ASSUME NEW r \in Requests, Lose(r) PROVE UNCHANGED cookie
    BY <1>3 DEF Lose
  <1>4. CASE Wait \/ UNCHANGED allVars
    BY <1>4 DEF Wait, allVars, client
  <1>5. PICK r \in Requests : Hear(r)
    BY <1>1, <1>2, <1>3, <1>4, BrowserSteps
  <1>6. Home(r) = b /\ cookie'[b] = CookieAfter(r)
    BY <1>5, HearFacts
  <1> QED
    BY <1>5, <1>6 DEF CookieAfter

\* A step that moves a handler is a step of that handler.
LEMMA HandlerMoves ==
  ASSUME IInv, BrowserTypeOK, RouteInv, [BrowserNext]_allVars, NEW x \in Requests,
         pc'[x] # pc[x] \/ reply'[x] # reply[x] \/ audit'[x] # audit[x] \/ loc'[x] # loc[x]
  PROVE  Backend(x) /\ reply[x] = "none"
  <1>1. TypeOK /\ HandlerInv
    BY DEF IInv
  <1>2. ASSUME NEW r \in Requests, NEW t \in Tabs, Submitted(t, r) PROVE UNCHANGED vars
    BY <1>2, SendFacts
  <1>3. ASSUME NEW r \in Requests, Hear(r) \/ Lose(r) PROVE UNCHANGED vars
    BY <1>3 DEF Hear, Lose
  <1>4. Wait => UNCHANGED <<pc, reply, audit, loc>>
    BY DEF Wait, Tick, database
  <1>5. UNCHANGED vars => UNCHANGED <<pc, reply, audit, loc>>
    BY DEF vars, database
  <1>6. UNCHANGED allVars => UNCHANGED vars
    BY DEF allVars
  <1>7. PICK r \in Requests : Backend(r)
    BY <1>2, <1>3, <1>4, <1>5, <1>6, BrowserSteps
  <1>8. Arrive(r) \/ Continue(r) \/ AbortRequest(r)
    BY <1>7, BackendFacts
  <1>9. x # r => pc'[x] = pc[x] /\ loc'[x] = loc[x] /\ reply'[x] = reply[x]
    BY <1>1, <1>8, Frame
  <1>10. x # r => audit'[x] = audit[x]
    BY <1>1, <1>8, AuditOf
  <1>11. x = r /\ pc[x] # "done"
    BY <1>1, <1>8, <1>9, <1>10, Frame
  <1> QED
    BY <1>1, <1>7, <1>11 DEF HandlerInv, HandlerOK

\* A row appears by a step of the request it is named after.
LEMMA NewRow ==
  ASSUME IInv, BrowserTypeOK, RouteInv, [BrowserNext]_allVars, NEW s \in Requests,
         Exists(s)', ~Exists(s)
  PROVE  Backend(s) /\ (LoginCreate(s) \/ RefreshRotate(s))
  <1>1. LoginCreate(s) \/ RefreshRotate(s)
    BY ServerStep, RowsKept DEF IInv
  <1>2. pc'[s] # pc[s]
    BY <1>1 DEF LoginCreate, RefreshRotate, Goto, IInv, TypeOK
  <1> QED
    BY <1>1, <1>2, HandlerMoves

\* A token is delivered when its request is answered.
LEMMA NewDelivered ==
  ASSUME IInv, BrowserTypeOK, RouteInv, [BrowserNext]_allVars, NEW s \in Requests,
         s \in Delivered', s \notin Delivered
  PROVE  Backend(s) /\ reply[s] = "none" /\ pc[s] # "done" /\ Exists(s)
  <1>1. CASE reply'[s] # reply[s]
    <2>1. Backend(s) /\ reply[s] = "none"
      BY <1>1, HandlerMoves
    <2>2. pc[s] # "done"
      BY <2>1, BackendFacts
    <2>3. pc'[s] = "done"
      <3>1. HandlerInv' /\ reply'[s] = "ok"
        BY ServerStep, StepInv DEF IInv, Delivered
      <3> QED
        BY <3>1 DEF HandlerInv, HandlerOK
    <2>4. ~(LoginCreate(s) \/ RefreshRotate(s))
      BY <2>3 DEF LoginCreate, RefreshRotate, Goto, IInv, TypeOK
    <2>5. Exists(s)
      BY <2>4, NewRow DEF Delivered
    <2> QED
      BY <2>1, <2>2, <2>5
  <1>2. CASE reply'[s] = reply[s]
    <2>1. ~Exists(s) /\ Exists(s)' /\ reply[s] = "ok"
      BY <1>2 DEF Delivered
    <2>2. LoginCreate(s) \/ RefreshRotate(s)
      BY <2>1, NewRow
    <2>3. pc[s] # "done"
      BY <2>2 DEF LoginCreate, RefreshRotate
    <2> QED
      BY <2>1, <2>3 DEF IInv, HandlerInv, HandlerOK
  <1> QED
    BY <1>1, <1>2

\* A session is closed by the request that closedBy names from then on.
LEMMA NewClosed ==
  ASSUME IInv, BrowserTypeOK, RouteInv, [BrowserNext]_allVars, NEW s \in Requests
  PROVE  /\ Exists(s) /\ session[s].revoked => closedBy'[s] = closedBy[s]
         /\ Live(s) /\ session'[s].revoked =>
              \E r \in Requests : Backend(r) /\ closedBy'[s] = r
  <1>1. ASSUME NEW r \in Requests, NEW t \in Tabs, Submitted(t, r)
        PROVE  UNCHANGED <<vars, closedBy>>
    BY <1>1, SendFacts
  <1>2. ASSUME NEW r \in Requests, Hear(r) \/ Lose(r) PROVE UNCHANGED <<vars, closedBy>>
    BY <1>2 DEF Hear, Lose, clientHistory
  <1>3. Wait => UNCHANGED <<session, closedBy>>
    BY DEF Wait, Tick, database, clientHistory
  <1>4. UNCHANGED vars => UNCHANGED session
    BY DEF vars, database
  <1>5. UNCHANGED allVars => UNCHANGED <<vars, closedBy>>
    BY DEF allVars, clientHistory
  <1>6. ASSUME NEW r \in Requests, Backend(r)
        PROVE  closedBy'[s] = IF Live(s) /\ session'[s].revoked THEN r ELSE closedBy[s]
    BY <1>6, BackendFacts
  <1> QED
    BY <1>1, <1>2, <1>3, <1>4, <1>5, <1>6, BrowserSteps DEF Live

\* A family only grows, and a login that is clean was.
LEMMA FamilyKept ==
  ASSUME IInv, BrowserTypeOK, RouteInv, [BrowserNext]_allVars, NEW root
  PROVE  /\ Family(root) \subseteq Family(root)'
         /\ Clean(root)' => Clean(root)
         /\ \A s \in Requests : Childless(s)' => Childless(s)
  <1>1. ASSUME NEW y \in Requests, Exists(y)
        PROVE  Exists(y)' /\ Root(y)' = Root(y) /\ Parent(y)' = Parent(y)
    BY <1>1, ServerStep, ServerKept
  <1>2. ASSUME NEW y \in Family(root) PROVE y \in Family(root)'
    BY <1>1, <1>2 DEF Family
  <1>3. ASSUME Clean(root)', NEW y \in Family(root), NEW x \in Requests PROVE ~Overlap(x, y)
    <2>1. y \in Requests /\ y \in Family(root)'
      BY <1>2, <1>3 DEF Family
    <2>2. ~Overlap(x, y)'
      BY <1>3, <2>1 DEF Clean
    <2> QED
      BY <2>1, <2>2, OverlapKept
  <1>4. ASSUME NEW s \in Requests, Childless(s)' PROVE Childless(s)
    BY <1>1, <1>4 DEF Childless
  <1> QED
    BY <1>2, <1>3, <1>4 DEF Clean

-----------------------------------------------------------------------------
(* Handlers *)

\* The handler that moves is where its route leads.
LEMMA RouteActor ==
  ASSUME IInv, BrowserTypeOK, RouteInv, NEW r \in Requests, Backend(r)
  PROVE  RouteOK(r)'
  <1>1. RouteOK(r) /\ HandlerOK(r)
    BY DEF RouteInv, IInv, HandlerInv
  <1>2. /\ Sent(r) /\ pc[r] # "done"
        /\ Serve(r) \/ Continue(r) \/ AbortRequest(r)
        /\ UNCHANGED <<origin, carried, heard, unheard>>
    BY BackendFacts
  <1>3. ~Arrived(r)
    BY <1>1, <1>2 DEF RouteOK, HandlerOK
  <1>4. SUFFICES /\ pc'[r] \in {"start", "done"} \cup Serving
                 /\ pc'[r] \in LoginLabels => Endpoint[r] = "login"
                 /\ pc'[r] \in RefreshLabels => Endpoint[r] = "refresh"
                 /\ pc'[r] \in LogoutLabels => Endpoint[r] = "logout"
                 /\ Endpoint[r] = "logout" => reply'[r] \in {"none", "ok", "error"}
    BY <1>1, <1>2, <1>3 DEF RouteOK, Sent, Arrived
  <1>5. DOMAIN pc = Requests /\ pc = [x \in Requests |-> pc[x]]
          /\ reply = [x \in Requests |-> reply[x]]
    BY DEF IInv, TypeOK
  <1>6. CASE Serve(r)
    <2> USE DEF Goto, Answer, StartsAt, Serving, LoginLabels, RefreshLabels, ReuseLabels,
                LogoutLabels, RouteOK, HandlerOK
    <2>1. CASE LoginRejected(r) \/ \E u \in Users : LoginLookup(r, u)
      BY <1>1, <1>5, <2>1 DEF LoginRejected, LoginLookup
    <2>2. CASE RefreshUnknown(r) \/ RefreshLookup(r, carried[r])
      BY <1>1, <1>5, <2>2 DEF RefreshUnknown, RefreshLookup, RefreshBranch
    <2>3. CASE LogoutNothing(r) \/ LogoutLookup(r, carried[r])
      BY <1>1, <1>5, <2>3 DEF LogoutNothing, LogoutLookup
    <2> QED
      BY <1>6, <2>1, <2>2, <2>3 DEF Serve
  <1> USE DEF Goto, Answer, Serving, LoginLabels, RefreshLabels, ReuseLabels,
              LogoutLabels, RouteOK, HandlerOK
  <1>7. CASE Continue(r)
    <2>1. CASE LoginCreate(r) \/ LoginAudit(r) \/ LogoutRevoke(r) \/ LogoutAudit(r)
      BY <1>1, <1>5, <2>1 DEF LoginCreate, LoginAudit, LogoutRevoke, LogoutAudit
    <2>2. CASE RefreshRotate(r) \/ RefreshAudit(r) \/ ExpiredRevoke(r)
      BY <1>1, <1>5, <2>2 DEF RefreshRotate, RefreshAudit, ExpiredRevoke
    <2>3. CASE ReuseAudit(r) \/ ReuseSweepRead(r) \/ ReuseSweepWrite(r)
      BY <1>1, <1>5, <2>3 DEF ReuseAudit, ReuseSweepRead, ReuseSweepWrite
    <2>4. ~(ResetSweepRead(r) \/ ResetCommit(r) \/ ResetAudit(r))
      BY <1>1 DEF ResetSweepRead, ResetCommit, ResetAudit
    <2> QED
      BY <1>7, <2>1, <2>2, <2>3, <2>4 DEF Continue
  <1>8. CASE AbortRequest(r)
    BY <1>1, <1>5, <1>8 DEF AbortRequest
  <1> QED
    BY <1>2, <1>6, <1>7, <1>8

\* Every request stays on its route.
LEMMA RouteStep ==
  ASSUME IInv, BrowserTypeOK, RouteInv, [BrowserNext]_allVars
  PROVE  RouteInv'
  <1>1. SUFFICES ASSUME NEW x \in Requests PROVE RouteOK(x)'
    BY DEF RouteInv
  <1>2. RouteOK(x) /\ HandlerOK(x)
    BY DEF RouteInv, IInv, HandlerInv
  <1>3. CASE pc'[x] # pc[x] \/ reply'[x] # reply[x]
    BY <1>3, HandlerMoves, RouteActor
  <1>4. CASE pc'[x] = pc[x] /\ reply'[x] = reply[x]
    <2>1. ASSUME NEW r \in Requests, NEW t \in Tabs, Submitted(t, r) PROVE RouteOK(x)'
      BY <1>2, <1>4, <2>1, SendFacts DEF RouteOK, Arrived
    <2>2. ASSUME NEW r \in Requests, Hear(r) PROVE RouteOK(x)'
      BY <1>2, <1>4, <2>2, HearFacts DEF RouteOK, Arrived, Sent
    <2>3. ASSUME NEW r \in Requests, Lose(r) PROVE RouteOK(x)'
      <3>1. /\ UNCHANGED <<origin, carried, unheard>> /\ Sent(r)
            /\ heard' = [heard EXCEPT ![r] = "lost"]
        BY <2>3 DEF Lose, InFlight, clientHistory
      <3> QED
        BY <1>2, <1>4, <3>1 DEF RouteOK, Arrived, Sent, BrowserTypeOK
    <2>4. ASSUME NEW r \in Requests, Backend(r) PROVE RouteOK(x)'
      BY <1>2, <1>4, <2>4, BackendFacts DEF RouteOK, Arrived, Sent
    <2>5. CASE Wait \/ UNCHANGED allVars
      BY <1>2, <1>4, <2>5 DEF Wait, allVars, client, clientHistory, RouteOK, Arrived, Sent
    <2> QED
      BY <2>1, <2>2, <2>3, <2>4, <2>5, BrowserSteps
  <1> QED
    BY <1>3, <1>4

\* The token a request carries stays delivered, its row stays revoked or
\* expired once it is.
LEMMA CarriedKept ==
  ASSUME IInv, BrowserTypeOK, RouteInv, CarriedInv, [BrowserNext]_allVars,
         NEW r \in Requests, carried[r] # NoOne
  PROVE  /\ carried'[r] = carried[r] /\ carried[r] \in Requests /\ carried[r] # r
         /\ Exists(carried[r]) /\ carried[r] \in Delivered /\ Sent(r)
         /\ session[carried[r]].revoked => session'[carried[r]].revoked
         /\ Expired(session[carried[r]]) => Expired(session[carried[r]])'
  <1>1. PICK c \in Requests : c = carried[r]
    BY DEF BrowserTypeOK
  <1>2. /\ c \in Delivered /\ Sent(r) /\ c # r /\ Exists(c)
    BY <1>1 DEF CarriedInv, Known, Delivered
  <1>3. carried'[r] = carried[r]
    BY <1>2, ClientKept
  <1>4. /\ session[c].revoked => session'[c].revoked
        /\ Expired(session[c]) => Expired(session[c])'
    BY <1>2, ServerStep, ServerKept
  <1> QED
    BY <1>1, <1>2, <1>3, <1>4

\* The handler that moves works on the token its request carried.
LEMMA TargetActor ==
  ASSUME IInv, BrowserTypeOK, RouteInv, TargetInv, CarriedInv, [BrowserNext]_allVars,
         NEW r \in Requests, Backend(r)
  PROVE  TargetOK(r)'
  <1>1. /\ TargetOK(r) /\ RouteOK(r) /\ HandlerOK(r)
        /\ TypeOK
    BY DEF TargetInv, RouteInv, IInv, HandlerInv
  <1>2. /\ Sent(r) /\ pc[r] # "done"
        /\ Serve(r) \/ Continue(r) \/ AbortRequest(r)
        /\ UNCHANGED <<carried, now>>
    BY BackendFacts
  <1>3. reply[r] = "none"
    BY <1>1, <1>2 DEF HandlerOK
  <1>4. PICK c \in Requests \cup {NoOne} : c = carried[r]
    BY DEF BrowserTypeOK
  <1>5. c # NoOne => /\ c \in Requests /\ Exists(c) /\ c \in Delivered
                     /\ session[c].revoked => session'[c].revoked
                     /\ Expired(session[c]) => Expired(session[c])'
    BY <1>4, CarriedKept
  <1>6. c = carried'[r]
    BY <1>2, <1>4
  <1> DEFINE Checked ==
        /\ pc'[r] \in RefreshLabels \cup LogoutLabels => c # NoOne /\ loc'[r].target = c
        /\ pc'[r] \in {"reuse_read", "reuse_write"} => audit'[r] = "REUSE_DETECTED"
        /\ audit'[r] = "REUSE_DETECTED" =>
             pc'[r] \in {"reuse_read", "reuse_write", "done"} /\ reply'[r] # "ok"
        /\ pc'[r] = "expired_revoke" => Expired(session[c])'
        /\ pc'[r] \in ReuseLabels \/ reply'[r] = "reuse" => c # NoOne /\ session'[c].revoked
        /\ Endpoint[r] = "logout" /\ c # NoOne
             /\ (pc'[r] = "logout_audit" \/ reply'[r] = "ok") => session'[c].revoked
  <1>7. SUFFICES Checked
    BY <1>6 DEF TargetOK
  <1>8. /\ pc[r] \in RefreshLabels \cup LogoutLabels => c # NoOne /\ loc[r].target = c
        /\ pc[r] \in {"reuse_read", "reuse_write"} => audit[r] = "REUSE_DETECTED"
        /\ audit[r] = "REUSE_DETECTED" => pc[r] \in {"reuse_read", "reuse_write"}
        /\ pc[r] = "expired_revoke" => Expired(session[c])
        /\ pc[r] \in ReuseLabels => c # NoOne /\ session[c].revoked
        /\ Endpoint[r] = "logout" /\ c # NoOne /\ pc[r] = "logout_audit" => session[c].revoked
    BY <1>1, <1>2, <1>4 DEF TargetOK
  <1>9. /\ pc \in [Requests -> Labels] /\ reply \in [Requests -> Replies]
        /\ audit \in [Requests -> Actions \cup {NoOne}]
        /\ loc \in [Requests -> Locals]
        /\ password \in [Users -> Nat]
        /\ session \in [Requests -> SessionRow]
    BY <1>1 DEF TypeOK
  <1>10. CASE Serve(r)
    <2> USE DEF Goto, Answer, StartsAt, LoginLabels, RefreshLabels, ReuseLabels, LogoutLabels
    <2>1. CASE LoginRejected(r) \/ RefreshUnknown(r)
      BY <1>3, <1>8, <1>9, <2>1 DEF LoginRejected, RefreshUnknown, database
    <2>2. ASSUME NEW u \in Users, LoginLookup(r, u) PROVE Checked
      BY <1>3, <1>8, <1>9, <2>2 DEF LoginLookup, database
    <2>3. CASE c # NoOne /\ RefreshLookup(r, c)
      <3>1. session[c].user \in Users
        BY <1>5, <1>9, <2>3 DEF Exists, SessionRow
      <3>2. loc'[r].target = c /\ session' = session /\ audit' = audit /\ now' = now
        BY <1>5, <1>9, <2>3, <3>1, ReadFacts DEF RefreshLookup, database
      <3> QED
        BY <1>3, <1>8, <1>9, <2>3, <3>2 DEF RefreshLookup, RefreshBranch, Expired
    <2>4. CASE LogoutNothing(r) /\ c \in {NoOne} \cup (Requests \ {s \in Requests : Live(s)})
      <3>1. c # NoOne => session[c].revoked /\ session' = session
        BY <1>5, <2>4 DEF LogoutNothing, Live, database
      <3> QED
        BY <1>3, <1>8, <1>9, <2>4, <3>1 DEF LogoutNothing, database
    <2>5. CASE c # NoOne /\ LogoutLookup(r, c)
      <3>1. session[c].user \in Users
        BY <1>5, <1>9, <2>5 DEF Exists, SessionRow
      <3>2. loc'[r].target = c
        BY <1>5, <1>9, <2>5, <3>1, ReadFacts DEF LogoutLookup
      <3> QED
        BY <1>3, <1>8, <1>9, <2>5, <3>2 DEF LogoutLookup, database
    <2> QED
      BY <1>4, <1>10, <2>1, <2>2, <2>3, <2>4, <2>5 DEF Serve
  <1> USE DEF Goto, Answer, RecordAudit, LoginLabels, RefreshLabels, ReuseLabels, LogoutLabels
  <1>11. CASE LoginCreate(r) \/ LoginAudit(r)
    BY <1>1, <1>3, <1>8, <1>9, <1>11 DEF LoginCreate, LoginAudit, RouteOK
  <1>12. CASE RefreshRotate(r) \/ RefreshAudit(r)
    BY <1>1, <1>3, <1>8, <1>9, <1>12 DEF RefreshRotate, RefreshAudit, RouteOK
  <1>13. CASE ReuseAudit(r)
    BY <1>3, <1>5, <1>8, <1>9, <1>13 DEF ReuseAudit
  <1>14. CASE ReuseSweepRead(r)
    <2>1. loc'[r].target = loc[r].target
      BY <1>9, <1>14, PickFacts DEF ReuseSweepRead
    <2> QED
      BY <1>3, <1>5, <1>8, <1>9, <1>14, <2>1 DEF ReuseSweepRead, database
  <1>15. CASE ReuseSweepWrite(r)
    BY <1>3, <1>5, <1>8, <1>9, <1>15 DEF ReuseSweepWrite
  <1>16. CASE ExpiredRevoke(r)
    BY <1>1, <1>3, <1>8, <1>9, <1>16 DEF ExpiredRevoke, RouteOK
  <1>17. CASE LogoutRevoke(r)
    <2>1. c # NoOne => session'[c].revoked
      BY <1>5, <1>8, <1>9, <1>17, RevokedFacts DEF LogoutRevoke
    <2> QED
      BY <1>3, <1>8, <1>9, <1>17, <2>1 DEF LogoutRevoke
  <1>18. CASE LogoutAudit(r)
    BY <1>3, <1>5, <1>8, <1>9, <1>18 DEF LogoutAudit
  <1>19. ~(ResetSweepRead(r) \/ ResetCommit(r) \/ ResetAudit(r))
    BY <1>1 DEF ResetSweepRead, ResetCommit, ResetAudit, RouteOK, Serving
  <1>20. CASE AbortRequest(r)
    BY <1>3, <1>5, <1>8, <1>9, <1>20 DEF AbortRequest, database
  <1> QED
    BY <1>2, <1>10, <1>11, <1>12, <1>13, <1>14, <1>15, <1>16, <1>17, <1>18, <1>19, <1>20
       DEF Continue

\* Every handler goes on working on the token its request carried.
LEMMA TargetStep ==
  ASSUME IInv, BrowserTypeOK, RouteInv, TargetInv, CarriedInv, [BrowserNext]_allVars
  PROVE  TargetInv'
  <1>1. SUFFICES ASSUME NEW x \in Requests PROVE TargetOK(x)'
    BY DEF TargetInv
  <1>2. TargetOK(x) /\ RouteOK(x) /\ HandlerOK(x)
    BY DEF TargetInv, RouteInv, IInv, HandlerInv
  <1>3. CASE pc'[x] # pc[x] \/ reply'[x] # reply[x] \/ audit'[x] # audit[x] \/ loc'[x] # loc[x]
    BY <1>3, HandlerMoves, TargetActor
  <1>4. CASE /\ pc'[x] = pc[x] /\ reply'[x] = reply[x]
             /\ audit'[x] = audit[x] /\ loc'[x] = loc[x]
    <2>1. CASE carried[x] = NoOne
      <3>1. pc[x] \notin RefreshLabels \cup LogoutLabels /\ reply[x] # "reuse"
        BY <1>2, <2>1 DEF TargetOK
      <3>2. CASE carried'[x] = NoOne
        BY <1>2, <1>4, <2>1, <3>1, <3>2
           DEF TargetOK, RefreshLabels, ReuseLabels
      <3>3. CASE carried'[x] # NoOne
        <4>1. ~Sent(x)
          BY <2>1, <3>3, ClientKept
        <4>2. pc[x] = "start" /\ reply[x] = "none"
          BY <1>2, <4>1 DEF RouteOK, HandlerOK
        <4>3. audit[x] # "REUSE_DETECTED"
          BY <1>2, <4>2 DEF TargetOK
        <4> QED
          BY <1>4, <4>2, <4>3 DEF TargetOK, RefreshLabels, ReuseLabels, LogoutLabels
      <3> QED
        BY <3>2, <3>3
    <2>2. CASE carried[x] # NoOne
      BY <1>2, <1>4, <2>2, CarriedKept DEF TargetOK
    <2> QED
      BY <2>1, <2>2
  <1> QED
    BY <1>3, <1>4

\* The row a login creates is a root, the row of a refresh the child of the
\* token the refresh carried.
LEMMA IssuedRow ==
  ASSUME IInv, BrowserTypeOK, RouteInv, TargetInv, CarriedInv, [BrowserNext]_allVars,
         NEW s \in Requests, Exists(s)', ~Exists(s)
  PROVE  /\ Backend(s) /\ reply'[s] = "none"
         /\ session'[s].expiresAt = now + SessionTTL /\ now' = now
         /\ ~session'[s].revoked
         /\ \/ /\ LoginCreate(s) /\ Endpoint[s] = "login"
               /\ Root(s)' = s /\ Parent(s)' = NoOne
            \/ /\ RefreshRotate(s) /\ Endpoint[s] = "refresh" /\ pc[s] = "refresh_rotate"
               /\ carried[s] # NoOne
               /\ Root(s)' = Root(carried[s]) /\ Parent(s)' = carried[s]
               /\ session'[carried[s]].revoked
  <1>1. /\ TypeOK /\ HandlerInv /\ RowInv /\ RouteOK(s) /\ TargetOK(s)
    BY DEF IInv, RouteInv, TargetInv
  <1>2. Backend(s) /\ (LoginCreate(s) \/ RefreshRotate(s)) /\ reply[s] = "none"
    BY NewRow, HandlerMoves DEF LoginCreate, RefreshRotate, Goto, IInv, TypeOK, HandlerInv,
       HandlerOK
  <1>3. now' = now
    BY <1>2, BackendFacts
  <1>4. CASE LoginCreate(s)
    <2>1. /\ session' = [session EXCEPT ![s] = NewSession(loc[s].user)]
          /\ Root(s)' = s /\ Parent(s)' = NoOne /\ reply' = reply
          /\ pc[s] = "login_create"
      BY <1>1, <1>4 DEF LoginCreate, TypeOK, Root, Parent
    <2>2. session'[s].expiresAt = now + SessionTTL /\ ~session'[s].revoked
      BY <1>1, <2>1 DEF TypeOK, NewSession
    <2>3. Endpoint[s] = "login"
      BY <1>1, <2>1 DEF RouteOK, LoginLabels
    <2> QED
      BY <1>2, <1>3, <1>4, <2>1, <2>2, <2>3
  <1>5. CASE RefreshRotate(s)
    <2>1. PICK old \in Requests : old = loc[s].target
      BY <1>1, <1>5, RotationFacts
    <2>2. PICK u \in Users : u = loc[s].user
      BY <1>1, <1>5, RotationFacts
    <2>3. session' = Rotated(old, s, u) /\ pc[s] = "refresh_rotate" /\ reply' = reply
      BY <1>5, <2>1, <2>2 DEF RefreshRotate
    <2>4. old # s /\ session'[old].revoked
      BY <1>1, <1>5, <2>1, RotationFacts
    <2>5. carried[s] # NoOne /\ old = carried[s] /\ Endpoint[s] = "refresh"
      BY <1>1, <2>1, <2>3 DEF TargetOK, RouteOK, RefreshLabels
    <2>6. Root(s)' = Root(old) /\ Parent(s)' = old
      BY <1>1, <1>5, <2>1 DEF RefreshRotate, TypeOK, Root, Parent
    <2>7. session'[s] = NewSession(u)
      BY <1>1, <2>3, <2>4, RotatedFacts DEF TypeOK
    <2>8. session'[s].expiresAt = now + SessionTTL /\ ~session'[s].revoked
      BY <2>7 DEF NewSession
    <2> QED
      BY <1>2, <1>3, <1>5, <2>3, <2>4, <2>5, <2>6, <2>8
  <1> QED
    BY <1>2, <1>4, <1>5

\* A new session comes from the form of a login, or from the token its request
\* carried, which it closes.
LEMMA IssueStep ==
  ASSUME IInv, BrowserTypeOK, RouteInv, TargetInv, IssueInv, CarriedInv,
         [BrowserNext]_allVars
  PROVE  IssueInv'
  <1>1. SUFFICES ASSUME NEW x \in Requests PROVE IssueOK(x)'
    BY DEF IssueInv
  <1>2. IssueOK(x) /\ RouteOK(x) /\ HandlerOK(x) /\ TypeOK /\ HandlerInv /\ RowInv
    BY DEF IssueInv, RouteInv, IInv, HandlerInv
  <1>3. pc'[x] \in {"login_audit", "refresh_audit"} => Exists(x)'
    <2>1. Exists(x) => Exists(x)'
      BY ServerStep, ServerKept
    <2>2. CASE pc'[x] = pc[x]
      BY <1>2, <2>1, <2>2 DEF IssueOK
    <2>3. CASE pc'[x] # pc[x]
      <3>1. SUFFICES ASSUME pc'[x] \in {"login_audit", "refresh_audit"} PROVE Exists(x)'
        OBVIOUS
      <3>2. Serve(x) \/ Continue(x) \/ AbortRequest(x)
        BY <2>3, HandlerMoves, BackendFacts
      <3>3. LoginCreate(x) \/ RefreshRotate(x)
        BY <1>2, <3>1, <3>2 DEF TypeOK, Goto, Answer, StartsAt, Serve, LoginRejected,
           LoginLookup, RefreshUnknown, RefreshLookup, RefreshBranch, LogoutNothing,
           LogoutLookup, Continue, LoginAudit, RefreshAudit, ReuseAudit, ReuseSweepRead,
           ReuseSweepWrite, ExpiredRevoke, LogoutRevoke, LogoutAudit, ResetSweepRead,
           ResetCommit, ResetAudit, AbortRequest
      <3>4. CASE LoginCreate(x)
        <4>1. PICK u \in Users : u = loc[x].user
          BY <1>2, <3>4 DEF LoginCreate, HandlerOK
        <4>2. session'[x] = NewSession(u)
          BY <1>2, <3>4, <4>1 DEF LoginCreate, TypeOK
        <4> QED
          BY <4>1, <4>2 DEF NewSession, Exists
      <3>5. CASE RefreshRotate(x)
        BY <1>2, <3>5, RotationFacts DEF Exists
      <3> QED
        BY <3>3, <3>4, <3>5
    <2> QED
      BY <2>2, <2>3
  <1>4. reply'[x] = "ok" /\ Sent(x)' => Exists(x)' \/ Endpoint[x] = "logout"
    <2>1. Exists(x) => Exists(x)'
      BY ServerStep, ServerKept
    <2>2. CASE reply'[x] = reply[x]
      <3>1. reply[x] = "ok" => Sent(x)
        BY <1>2 DEF RouteOK, HandlerOK
      <3> QED
        BY <1>2, <2>1, <2>2, <3>1 DEF IssueOK
    <2>3. CASE reply'[x] # reply[x]
      <3>1. SUFFICES ASSUME reply'[x] = "ok", Endpoint[x] # "logout" PROVE Exists(x)
        BY <2>1
      <3>2. Serve(x) \/ Continue(x) \/ AbortRequest(x)
        BY <2>3, HandlerMoves, BackendFacts
      <3>3. pc[x] \in {"login_audit", "refresh_audit", "logout_audit", "reset_audit"}
        BY <1>2, <2>3, <3>1, <3>2 DEF TypeOK, Goto, Answer, StartsAt, Serve, LoginRejected,
           LoginLookup, RefreshUnknown, RefreshLookup, RefreshBranch, LogoutNothing,
           LogoutLookup, Continue, LoginCreate, LoginAudit, RefreshRotate, RefreshAudit,
           ReuseAudit, ReuseSweepRead, ReuseSweepWrite, ExpiredRevoke, LogoutRevoke,
           LogoutAudit, ResetSweepRead, ResetCommit, ResetAudit, AbortRequest
      <3> QED
        BY <1>2, <3>1, <3>3 DEF IssueOK, RouteOK, Serving, LoginLabels, RefreshLabels,
           ReuseLabels, LogoutLabels
    <2> QED
      BY <2>2, <2>3
  <1>5. ASSUME Exists(x)'
        PROVE  /\ Endpoint[x] \in {"login", "refresh"}
               /\ session'[x].expiresAt <= now' + SessionTTL
               /\ Endpoint[x] = "login" => Root(x)' = x /\ Parent(x)' = NoOne
               /\ Endpoint[x] = "refresh" =>
                    /\ carried'[x] # NoOne
                    /\ Parent(x)' = carried'[x]
                    /\ Root(x)' = Root(carried[x])'
                    /\ session'[carried'[x]].revoked
    <2>1. CASE Exists(x)
      <3>1. pc[x] # "start"
        BY <1>2, <2>1 DEF RowInv, RowOK
      <3>2. Sent(x)
        BY <1>2, <3>1 DEF RouteOK
      <3>3. /\ carried'[x] = carried[x] /\ Root(x)' = Root(x) /\ Parent(x)' = Parent(x)
            /\ session'[x].expiresAt = session[x].expiresAt
            /\ now \in Nat /\ now' \in Nat /\ now <= now'
        BY <2>1, <3>2, ClientKept, ServerStep, ServerKept
      <3>4. session[x].expiresAt \in Nat
        BY <1>2 DEF TypeOK, SessionRow
      <3>5. session'[x].expiresAt <= now' + SessionTTL
        <4>1. session[x].expiresAt <= now + SessionTTL
          BY <1>2, <2>1 DEF IssueOK
        <4> QED
          BY <3>3, <3>4, <4>1
      <3>6. CASE Endpoint[x] = "refresh"
        <4>1. /\ carried[x] # NoOne /\ Parent(x) = carried[x]
              /\ Root(x) = Root(carried[x]) /\ session[carried[x]].revoked
          BY <1>2, <2>1, <3>6 DEF IssueOK
        <4>2. PICK c \in Requests : c = carried[x] /\ Exists(c)
          BY <4>1, CarriedKept
        <4>3. Root(c)' = Root(c) /\ session'[c].revoked
          BY <4>1, <4>2, ServerStep, ServerKept
        <4> QED
          BY <1>2, <2>1, <3>3, <3>5, <3>6, <4>1, <4>2, <4>3 DEF IssueOK
      <3> QED
        BY <1>2, <2>1, <3>3, <3>5, <3>6 DEF IssueOK
    <2>2. CASE ~Exists(x)
      <3>1. /\ session'[x].expiresAt = now + SessionTTL /\ now' = now
            /\ \/ Endpoint[x] = "login" /\ Root(x)' = x /\ Parent(x)' = NoOne
               \/ /\ Endpoint[x] = "refresh" /\ carried[x] # NoOne
                  /\ Root(x)' = Root(carried[x]) /\ Parent(x)' = carried[x]
                  /\ session'[carried[x]].revoked
        BY <1>5, <2>2, IssuedRow
      <3>2. now \in Nat
        BY <1>2 DEF TypeOK
      <3>3. ASSUME Endpoint[x] = "refresh"
            PROVE  /\ carried'[x] # NoOne
                   /\ Parent(x)' = carried'[x]
                   /\ Root(x)' = Root(carried[x])'
                   /\ session'[carried'[x]].revoked
        <4>1. PICK c \in Requests : c = carried[x] /\ Exists(c) /\ c = carried'[x]
          BY <3>1, <3>3, CarriedKept
        <4>2. Root(c)' = Root(c)
          BY <4>1, ServerStep, ServerKept
        <4>3. /\ carried'[x] # NoOne /\ Parent(x)' = carried'[x]
              /\ Root(x)' = Root(c)' /\ session'[carried'[x]].revoked
          BY <3>1, <3>3, <4>1, <4>2
        <4> QED
          BY <3>3, <4>1, <4>3 DEF Root
      <3>4. /\ Endpoint[x] \in {"login", "refresh"}
            /\ Endpoint[x] = "login" => Root(x)' = x /\ Parent(x)' = NoOne
        BY <3>1
      <3>5. session'[x].expiresAt <= now' + SessionTTL
        BY <3>1, <3>2
      <3> QED
        BY <3>3, <3>4, <3>5
    <2> QED
      BY <2>1, <2>2
  <1> QED
    BY <1>3, <1>4, <1>5 DEF IssueOK

-----------------------------------------------------------------------------
(* Tokens and the browsers that have them *)

\* A row belongs to a request that was sent from a browser.
LEMMA ExistsSent ==
  ASSUME IInv, BrowserTypeOK, RouteInv, NEW s \in Requests, Exists(s)
  PROVE  Sent(s) /\ Root(s) \in Requests /\ Exists(Root(s))
  BY DEF IInv, RowInv, RowOK, RouteInv, RouteOK, Root

\* A request that was sent has a browser.
LEMMA HomeOfSent ==
  ASSUME BrowserTypeOK, NEW r \in Requests, Sent(r)
  PROVE  Home(r) \in Browsers
  <1>1. setting.home \in [Tabs -> Browsers] /\ origin[r] \in Tabs
    BY DEF BrowserTypeOK, Sent
  <1> QED
    BY <1>1 DEF Home

\* A token a browser has had stays delivered and in that browser.
LEMMA KnownKept ==
  ASSUME IInv, BrowserTypeOK, RouteInv, [BrowserNext]_allVars, NEW s \in Requests, Known(s)
  PROVE  Known(s)' /\ Home(s)' = Home(s) /\ Sent(s) /\ Exists(s) /\ reply[s] = "ok"
  <1>1. s \in Delivered /\ Arrived(s) /\ Exists(s) /\ reply[s] = "ok"
    BY DEF Known, Delivered
  <1>2. Sent(s)
    BY <1>1, ExistsSent
  <1>3. s \in Delivered'
    BY <1>1, ServerStep, ServerKept
  <1>4. Arrived(s)' /\ Home(s)' = Home(s)
    BY <1>1, <1>2, ClientKept
  <1> QED
    BY <1>1, <1>2, <1>3, <1>4 DEF Known

\* A cookie that changes is cleared by a logout or becomes the token of the
\* answer that arrives.
LEMMA NewCookie ==
  ASSUME IInv, BrowserTypeOK, RouteInv, IssueInv, [BrowserNext]_allVars,
         NEW b \in Browsers, cookie'[b] # cookie[b]
  PROVE  \E r \in Requests :
           /\ Hear(r) /\ Home(r) = b /\ reply[r] = "ok" /\ ~Arrived(r) /\ Sent(r)
           /\ UNCHANGED vars
           /\ \/ Endpoint[r] = "logout" /\ cookie'[b].token = NoOne
              \/ /\ Endpoint[r] \in {"login", "refresh"} /\ Exists(r)
                 /\ cookie'[b].token = r /\ cookie'[b].until = now + SessionTTL
                 /\ Known(r)'
  <1>1. PICK r \in Requests :
           /\ Hear(r) /\ Home(r) = b /\ reply[r] = "ok"
           /\ cookie'[b] = IF Endpoint[r] = "logout" THEN NoCookie
                           ELSE [token |-> r, until |-> now + SessionTTL]
    BY CookieChanges
  <1>2. ~Arrived(r) /\ Sent(r) /\ UNCHANGED vars /\ heard'[r] = "arrived"
    BY <1>1, HearFacts
  <1>3. Exists(r) \/ Endpoint[r] = "logout"
    BY <1>1, <1>2 DEF IssueInv, IssueOK
  <1>4. Endpoint[r] \in {"login", "refresh", "logout"}
    BY <1>2 DEF RouteInv, RouteOK
  <1>5. Exists(r) => Known(r)'
    BY <1>1, <1>2 DEF Known, Delivered, Exists, Arrived, vars, database
  <1>6. Exists(r) => Endpoint[r] # "logout"
    BY DEF IssueInv, IssueOK
  <1> QED
    BY <1>1, <1>2, <1>3, <1>4, <1>5, <1>6 DEF NoCookie

\* A cookie is a token that reached this browser.
LEMMA CookieStep ==
  ASSUME IInv, BrowserTypeOK, RouteInv, IssueInv, CookieInv, [BrowserNext]_allVars
  PROVE  CookieInv'
  <1>1. SUFFICES ASSUME NEW b \in Browsers, cookie'[b].token # NoOne
                 PROVE  Known(cookie[b].token)' /\ Home(cookie[b].token)' = b
    BY DEF CookieInv
  <1>2. CASE cookie'[b] # cookie[b]
    <2>1. PICK r \in Requests : /\ Home(r) = b /\ Sent(r) /\ cookie'[b].token = r /\ Known(r)'
      BY <1>1, <1>2, NewCookie
    <2>2. Home(r)' = b
      BY <2>1, ClientKept
    <2> QED
      BY <2>1, <2>2 DEF Known, Home, Arrived
  <1>3. CASE cookie'[b] = cookie[b]
    <2>1. PICK c \in Requests : c = cookie[b].token
      BY <1>1, <1>3 DEF BrowserTypeOK
    <2>2. Known(c) /\ Home(c) = b
      BY <1>1, <1>3, <2>1 DEF CookieInv
    <2>3. Known(c)' /\ Home(c)' = b /\ c = cookie'[b].token
      BY <1>3, <2>1, <2>2, KnownKept
    <2> QED
      BY <2>3 DEF Known, Home, Arrived
  <1> QED
    BY <1>2, <1>3

\* What a request is sent with.
LEMMA SentToken ==
  ASSUME IInv, BrowserTypeOK, RouteInv, CookieInv, NEW t \in Tabs, NEW r \in Requests,
         Submitted(t, r)
  PROVE  /\ UNCHANGED vars /\ ~Sent(r) /\ ~Arrived(r) /\ reply[r] = "none"
         /\ LET jar == cookie[Home(r)'] IN
            /\ carried'[r] \in {jar.token, NoOne}
            /\ carried'[r] = NoOne /\ jar.token # NoOne => jar.until <= now
            /\ carried'[r] # NoOne =>
                 /\ Known(carried'[r]) /\ Home(carried'[r]) = Home(r)'
                 /\ carried'[r] # r /\ carried'[r] \in Requests
  <1>1. /\ UNCHANGED vars /\ ~Sent(r)
        /\ Home(r)' \in Browsers /\ carried'[r] = Jar(Home(r)')
    BY SendFacts
  <1>2. ~Arrived(r) /\ reply[r] = "none"
    BY <1>1 DEF RouteInv, RouteOK, Arrived, IInv, HandlerInv, HandlerOK
  <1>3. PICK b \in Browsers : b = Home(r)'
    BY <1>1
  <1>4. now \in Nat /\ cookie[b].until \in Nat /\ cookie[b].token \in Requests \cup {NoOne}
    BY DEF IInv, TypeOK, BrowserTypeOK
  <1>5. carried'[r] = IF now < cookie[b].until THEN cookie[b].token ELSE NoOne
    BY <1>1, <1>3 DEF Jar
  <1>6. ASSUME carried'[r] # NoOne
        PROVE  /\ Known(carried'[r]) /\ Home(carried'[r]) = b
               /\ carried'[r] # r /\ carried'[r] \in Requests
    <2>1. carried'[r] = cookie[b].token
      BY <1>5, <1>6
    <2> QED
      BY <1>2, <1>4, <1>6, <2>1 DEF CookieInv, Known
  <1> QED
    BY <1>1, <1>2, <1>3, <1>4, <1>5, <1>6

\* A request carries a token its browser had when it was sent.
LEMMA CarriedStep ==
  ASSUME IInv, BrowserTypeOK, RouteInv, CookieInv, CarriedInv, [BrowserNext]_allVars
  PROVE  CarriedInv'
  <1>1. SUFFICES ASSUME NEW r \in Requests, NEW c, c = carried'[r], c # NoOne
                 PROVE  Sent(r)' /\ Known(c)' /\ Home(c)' = Home(r)' /\ c # r
    BY DEF CarriedInv, Known, Home, Arrived
  <1>2. CASE Sent(r)
    <2>1. Sent(r)' /\ Home(r)' = Home(r) /\ c = carried[r]
      BY <1>1, <1>2, ClientKept
    <2>2. Known(c) /\ Home(c) = Home(r) /\ c # r /\ c \in Requests
      BY <1>1, <2>1 DEF CarriedInv, BrowserTypeOK
    <2> QED
      BY <2>1, <2>2, KnownKept
  <1>3. CASE ~Sent(r)
    <2>1. Sent(r)'
      <3>1. CASE carried[r] # carried'[r]
        <4>1. ASSUME NEW q \in Requests, NEW t \in Tabs, Submitted(t, q) PROVE Sent(r)'
          BY <3>1, <4>1, SendFacts
        <4>2. ASSUME NEW q \in Requests, Backend(q) \/ Hear(q) \/ Lose(q)
              PROVE  UNCHANGED carried
          BY <4>2, BackendFacts, HearFacts DEF Lose
        <4>3. CASE Wait \/ UNCHANGED allVars
          BY <3>1, <4>3 DEF Wait, allVars, client
        <4> QED
          BY <3>1, <4>1, <4>2, <4>3, BrowserSteps
      <3>2. CASE carried[r] = carried'[r]
        BY <1>1, <1>3, <3>2 DEF RouteInv, RouteOK
      <3> QED
        BY <3>1, <3>2
    <2>2. PICK t \in Tabs : Submitted(t, r)
      BY <1>3, <2>1, ClientKept
    <2>3. Known(c) /\ Home(c) = Home(r)' /\ c # r /\ c \in Requests
      BY <1>1, <2>2, SentToken
    <2> QED
      BY <2>1, <2>3, KnownKept
  <1> QED
    BY <1>2, <1>3

\* A login stays in one browser, and reached it before what it led to.
LEMMA RootStep ==
  ASSUME IInv, BrowserTypeOK, RouteInv, TargetInv, IssueInv, CarriedInv, RootInv,
         [BrowserNext]_allVars
  PROVE  RootInv'
  <1>1. SUFFICES ASSUME NEW y \in Requests, Exists(y)', NEW root, root = Root(y)'
                 PROVE  Home(root)' = Home(y)' /\ (Arrived(y)' => Arrived(root)')
    BY DEF RootInv, Home, Arrived
  <1>2. CASE Exists(y)
    <2>1. root = Root(y) /\ root \in Requests /\ Sent(y) /\ Sent(root)
      BY <1>1, <1>2, ExistsSent, ServerStep, ServerKept
    <2>2. Home(root)' = Home(y)'
      BY <1>2, <2>1, ClientKept DEF RootInv
    <2>3. Arrived(y) => Arrived(root)'
      BY <1>2, <2>1, ClientKept DEF RootInv
    <2>4. ASSUME ~Arrived(y), Arrived(y)' PROVE Arrived(root)'
      <3>1. /\ Endpoint[y] = "login" => root = y
            /\ Endpoint[y] = "refresh" => carried[y] # NoOne /\ root = Root(carried[y])
            /\ Endpoint[y] \in {"login", "refresh"}
        BY <1>2, <2>1 DEF IssueInv, IssueOK
      <3>2. CASE Endpoint[y] = "refresh"
        <4>1. PICK c \in Requests : c = carried[y] /\ Exists(c) /\ Arrived(c)
          BY <3>1, <3>2, CarriedKept DEF CarriedInv, Known
        <4>2. Arrived(root)
          BY <3>1, <3>2, <4>1 DEF RootInv
        <4> QED
          BY <2>1, <4>2, ClientKept
      <3> QED
        BY <2>4, <3>1, <3>2
    <2> QED
      BY <2>2, <2>3, <2>4
  <1>3. CASE ~Exists(y)
    <2>1. /\ Backend(y)
          /\ \/ root = y
             \/ carried[y] # NoOne /\ root = Root(carried[y])
      BY <1>1, <1>3, IssuedRow
    <2>2. Sent(y) /\ Home(y)' = Home(y)
      BY <2>1, BackendFacts, ClientKept
    <2>3. CASE carried[y] # NoOne /\ root = Root(carried[y])
      <3>1. PICK c \in Requests : c = carried[y] /\ Exists(c) /\ Arrived(c) /\ Home(c) = Home(y)
        BY <2>3, CarriedKept DEF CarriedInv, Known
      <3>2. Home(root) = Home(y) /\ Arrived(root)
        BY <2>3, <3>1 DEF RootInv
      <3>3. root \in Requests /\ Sent(root)
        BY <2>3, <3>1, ExistsSent
      <3> QED
        BY <2>2, <3>2, <3>3, ClientKept
    <2> QED
      BY <2>1, <2>2, <2>3
  <1> QED
    BY <1>2, <1>3

-----------------------------------------------------------------------------
(* Pages *)

\* A page changes by loading, by an answer, or by the loss of one.
LEMMA PageChanges ==
  ASSUME IInv, BrowserTypeOK, RouteInv, IssueInv, [BrowserNext]_allVars, NEW t \in Tabs
  PROVE  \/ page'[t] = page[t] /\ held'[t] = held[t]
         \/ page'[t] \in {"loading", "out"} /\ held'[t] = NoOne
         \/ /\ page'[t] = "in"
            /\ \E s \in Requests : held'[t] = s /\ Known(s)' /\ origin[s] = t
  <1>0. /\ page \in [Tabs -> {"loading", "out", "in"}]
        /\ held \in [Tabs -> Requests \cup {NoOne}]
    BY DEF BrowserTypeOK
  <1>1. ASSUME NEW u \in Tabs, NEW r \in Requests, Submitted(u, r)
        PROVE  \/ page'[t] = page[t] /\ held'[t] = held[t]
               \/ page'[t] \in {"loading", "out"} /\ held'[t] = NoOne
    BY <1>0, <1>1 DEF Submitted, Load, SubmitLogin, SubmitLogout
  <1>2. ASSUME NEW r \in Requests, Backend(r) PROVE UNCHANGED <<page, held>>
    BY <1>2, BackendFacts
  <1>3. ASSUME NEW r \in Requests, Lose(r)
        PROVE  \/ page'[t] = page[t] /\ held'[t] = held[t]
               \/ page'[t] = "out" /\ held'[t] = NoOne
    BY <1>0, <1>3 DEF Lose, ShowAnswer
  <1>4. ASSUME NEW r \in Requests, Hear(r)
        PROVE  \/ page'[t] = page[t] /\ held'[t] = held[t]
               \/ page'[t] = "out" /\ held'[t] = NoOne
               \/ /\ page'[t] = "in" /\ held'[t] = r /\ origin[r] = t
                  /\ reply[r] = "ok" /\ Endpoint[r] \in {"login", "refresh"}
    BY <1>0, <1>4 DEF Hear, ShowAnswer
  <1>5. ASSUME NEW r \in Requests, Hear(r), reply[r] = "ok",
               Endpoint[r] \in {"login", "refresh"}
        PROVE  Known(r)'
    <2>1. Sent(r) /\ heard'[r] = "arrived" /\ UNCHANGED vars
      BY <1>5, HearFacts
    <2>2. Exists(r)
      BY <1>5, <2>1 DEF IssueInv, IssueOK
    <2> QED
      BY <1>5, <2>1, <2>2 DEF Known, Delivered, Exists, Arrived, vars, database
  <1>6. CASE Wait \/ UNCHANGED allVars
    BY <1>6 DEF Wait, allVars, client
  <1> QED
    BY <1>1, <1>2, <1>3, <1>4, <1>5, <1>6, BrowserSteps

\* A page holds the access token of an answer it asked for.
LEMMA HeldStep ==
  ASSUME IInv, BrowserTypeOK, RouteInv, IssueInv, HeldInv, [BrowserNext]_allVars
  PROVE  HeldInv'
  <1>1. SUFFICES ASSUME NEW t \in Tabs, page'[t] = "in", NEW s, s = held'[t]
                 PROVE  Known(s)' /\ origin'[s] = t
    BY DEF HeldInv, Known, Arrived
  <1>2. CASE page'[t] = page[t] /\ held'[t] = held[t]
    <2>1. Known(s) /\ origin[s] = t /\ s \in Requests
      BY <1>1, <1>2 DEF HeldInv, Known, Delivered
    <2> QED
      BY <2>1, KnownKept, ClientKept
  <1>3. CASE s \in Requests /\ Known(s)' /\ origin[s] = t
    <2>1. s \in Requests /\ Known(s)' /\ origin[s] = t
      BY <1>3
    <2>2. Sent(s)
      BY <2>1 DEF Sent
    <2> QED
      BY <2>1, <2>2, ClientKept
  <1> QED
    BY <1>1, <1>2, <1>3, PageChanges

\* A logout remembers an access token that had reached its browser.
LEMMA LeftStep ==
  ASSUME IInv, BrowserTypeOK, RouteInv, HeldInv, LeftInv, [BrowserNext]_allVars
  PROVE  LeftInv'
  <1>1. SUFFICES ASSUME NEW q \in Requests, Sent(q)', Endpoint[q] = "logout",
                        NEW s, s = left'[q]
                 PROVE  Known(s)' /\ Home(s)' = Home(q)'
    BY DEF LeftInv, Known, Home, Arrived
  <1>2. CASE Sent(q)
    <2>1. s = left[q] /\ Home(q)' = Home(q)
      BY <1>1, <1>2, ClientKept
    <2>2. Known(s) /\ Home(s) = Home(q) /\ s \in Requests
      BY <1>1, <1>2, <2>1 DEF LeftInv, Known, Delivered
    <2> QED
      BY <2>1, <2>2, KnownKept
  <1>3. CASE ~Sent(q)
    <2>1. PICK t \in Tabs : Submitted(t, q)
      BY <1>1, <1>3, ClientKept
    <2>2. page[t] = "in" /\ s = held[t] /\ Home(q)' = setting.home[t]
      BY <1>1, <2>1, SendFacts
    <2>3. Known(s) /\ origin[s] = t /\ s \in Requests
      BY <2>2 DEF HeldInv, Known, Delivered
    <2>4. Home(s) = Home(q)'
      BY <2>2, <2>3 DEF Home
    <2> QED
      BY <2>3, <2>4, KnownKept
  <1> QED
    BY <1>2, <1>3

\* Every step keeps the types.
LEMMA BrowserTypeStep ==
  ASSUME IInv, BrowserTypeOK, RouteInv, IssueInv, HeldInv, CookieInv, LeftInv, CarriedInv,
         RootInv, [BrowserNext]_allVars
  PROVE  BrowserTypeOK'
  <1> USE DEF BrowserTypeOK
  <1>1. page' \in [Tabs -> {"loading", "out", "in"}]
    <2>1. page \in [Tabs -> {"loading", "out", "in"}]
      OBVIOUS
    <2>2. page' = page \/ \E t \in Tabs, v \in {"loading", "out", "in"} : page' = [page EXCEPT ![t] = v]
      <3>1. ASSUME NEW u \in Tabs, NEW r \in Requests, Submitted(u, r)
            PROVE  page' = page \/ page' = [page EXCEPT ![u] = "loading"]
        BY <3>1 DEF Submitted, Load, SubmitLogin, SubmitLogout
      <3>2. ASSUME NEW r \in Requests, Backend(r) PROVE UNCHANGED page
        BY <3>2, BackendFacts
      <3>3. ASSUME NEW r \in Requests, NEW ok, ShowAnswer(r, ok), Sent(r)
            PROVE  \/ page' = page
                   \/ \E t \in Tabs, v \in {"out", "in"} : page' = [page EXCEPT ![t] = v]
        BY <3>3 DEF ShowAnswer, Sent
      <3>4. ASSUME NEW r \in Requests, Hear(r) \/ Lose(r)
            PROVE  Sent(r) /\ (ShowAnswer(r, reply[r] = "ok") \/ ShowAnswer(r, FALSE))
        BY <3>4 DEF Hear, Lose, InFlight
      <3>5. Wait \/ UNCHANGED allVars => UNCHANGED page
        BY DEF Wait, allVars, client
      <3> QED
        BY <3>1, <3>2, <3>3, <3>4, <3>5, BrowserSteps
    <2> QED
      BY <2>1, <2>2
  <1>2. cookie' \in [Browsers -> [token : Requests \cup {NoOne}, until : Nat]]
    <2>1. cookie' = cookie \/ \E r \in Requests : Hear(r)
      <3>1. ASSUME NEW u \in Tabs, NEW r \in Requests, Submitted(u, r) PROVE UNCHANGED cookie
        BY <3>1, SendFacts
      <3>2. ASSUME NEW r \in Requests, Backend(r) \/ Lose(r) PROVE UNCHANGED cookie
        BY <3>2, BackendFacts DEF Lose
      <3>3. Wait \/ UNCHANGED allVars => UNCHANGED cookie
        BY DEF Wait, allVars, client
      <3> QED
        BY <3>1, <3>2, <3>3, BrowserSteps
    <2>2. ASSUME NEW r \in Requests, Hear(r)
          PROVE  cookie' \in [Browsers -> [token : Requests \cup {NoOne}, until : Nat]]
      <3>1. cookie' = [cookie EXCEPT ![Home(r)] = CookieAfter(r)] /\ Home(r) \in Browsers
        BY <2>2, HearFacts DEF Hear
      <3>2. now + SessionTTL \in Nat
        BY DEF IInv, TypeOK
      <3>3. CookieAfter(r) \in [token : Requests \cup {NoOne}, until : Nat]
        BY <3>1, <3>2 DEF CookieAfter, NoCookie
      <3> QED
        BY <3>1, <3>3
    <2> QED
      BY <2>1, <2>2
  <1>3. \A b \in Browsers : cookie'[b].token \in Delivered' \cup {NoOne}
    BY CookieStep DEF CookieInv, Known
  <1>8. held' \in [Tabs -> Requests \cup {NoOne}]
    <2>1. held' = held \/ \E t \in Tabs, v \in Requests \cup {NoOne} : held' = [held EXCEPT ![t] = v]
      <3>1. ASSUME NEW u \in Tabs, NEW r \in Requests, Submitted(u, r)
            PROVE  held' = held \/ held' = [held EXCEPT ![u] = NoOne]
        BY <3>1 DEF Submitted, Load, SubmitLogin, SubmitLogout
      <3>2. ASSUME NEW r \in Requests, Backend(r) PROVE UNCHANGED held
        BY <3>2, BackendFacts
      <3>3. ASSUME NEW r \in Requests, NEW ok, ShowAnswer(r, ok), Sent(r)
            PROVE  \/ held' = held
                   \/ \E t \in Tabs, v \in Requests \cup {NoOne} : held' = [held EXCEPT ![t] = v]
        BY <3>3 DEF ShowAnswer, Sent
      <3>4. ASSUME NEW r \in Requests, Hear(r) \/ Lose(r)
            PROVE  Sent(r) /\ (ShowAnswer(r, reply[r] = "ok") \/ ShowAnswer(r, FALSE))
        BY <3>4 DEF Hear, Lose, InFlight
      <3>5. Wait \/ UNCHANGED allVars => UNCHANGED held
        BY DEF Wait, allVars, client
      <3> QED
        BY <3>1, <3>2, <3>3, <3>4, <3>5, BrowserSteps
    <2>2. held \in [Tabs -> Requests \cup {NoOne}]
      OBVIOUS
    <2> QED
      BY <2>1, <2>2
  <1>4. \A t \in Tabs : IF page'[t] = "in" THEN held'[t] \in Delivered' ELSE held'[t] = NoOne
    BY PageChanges, HeldStep DEF HeldInv, Known
  <1>5. /\ origin' \in [Requests -> Tabs \cup {NoOne}]
        /\ carried' \in [Requests -> Requests \cup {NoOne}]
        /\ unheard' \in [Requests -> SUBSET Requests]
        /\ left' \in [Requests -> Requests \cup {NoOne}]
        /\ gone' \subseteq Requests
    <2>1. ASSUME NEW t \in Tabs, NEW r \in Requests, Submitted(t, r)
          PROVE  <1>5!1 /\ <1>5!2 /\ <1>5!3 /\ <1>5!4 /\ <1>5!5
      <3>1. PICK e : Send(t, r, e)
        BY <2>1 DEF Submitted, Load, SubmitLogin, SubmitLogout
      <3>2. Jar(setting.home[t]) \in Requests \cup {NoOne}
        BY DEF Jar
      <3>3. left' = left \/ (page[t] = "in" /\ left' = [left EXCEPT ![r] = held[t]])
        BY <2>1 DEF Submitted, Load, SubmitLogin, SubmitLogout
      <3>4. page[t] = "in" => held[t] \in Requests
        BY DEF Delivered
      <3>5. gone' \subseteq Requests
        BY <2>1 DEF Submitted, Load, SubmitLogin, SubmitLogout
      <3> QED
        BY <3>1, <3>2, <3>3, <3>4, <3>5 DEF Send
    <2>2. ASSUME NEW r \in Requests, Backend(r) \/ Hear(r) \/ Lose(r)
          PROVE  UNCHANGED <<origin, carried, unheard, left, gone>>
      BY <2>2, BackendFacts, HearFacts DEF Lose, clientHistory
    <2>3. Wait \/ UNCHANGED allVars => UNCHANGED <<origin, carried, unheard, left, gone>>
      BY DEF Wait, allVars, client, clientHistory
    <2> QED
      BY <2>1, <2>2, <2>3, BrowserSteps
  <1>6. heard' \in [Requests -> {"no", "arrived", "lost"}] /\ setting' \in Settings
          /\ closedBy' \in [Requests -> Requests \cup {NoOne}]
    <2>1. ASSUME NEW t \in Tabs, NEW r \in Requests, Submitted(t, r)
          PROVE  UNCHANGED <<heard, setting, closedBy>>
      BY <2>1, SendFacts
    <2>2. ASSUME NEW r \in Requests, Backend(r)
          PROVE  /\ UNCHANGED <<heard, setting>>
                 /\ closedBy' = [s \in Requests |-> IF Live(s) /\ session'[s].revoked THEN r
                                                    ELSE closedBy[s]]
      BY <2>2 DEF Backend
    <2>3. ASSUME NEW r \in Requests, Hear(r) \/ Lose(r)
          PROVE  /\ UNCHANGED <<setting, closedBy>>
                 /\ \E v \in {"arrived", "lost"} : heard' = [heard EXCEPT ![r] = v]
      BY <2>3 DEF Hear, Lose, clientHistory
    <2>4. Wait \/ UNCHANGED allVars => UNCHANGED <<heard, setting, closedBy>>
      BY DEF Wait, allVars, client, clientHistory
    <2>5. heard \in [Requests -> {"no", "arrived", "lost"}]
            /\ closedBy \in [Requests -> Requests \cup {NoOne}]
      OBVIOUS
    <2>6. ASSUME NEW r \in Requests, Hear(r) \/ Lose(r)
          PROVE  heard' \in [Requests -> {"no", "arrived", "lost"}]
      BY <2>3, <2>5, <2>6
    <2>7. ASSUME NEW r \in Requests, Backend(r)
          PROVE  closedBy' \in [Requests -> Requests \cup {NoOne}]
      <3> DEFINE Closer(s) == IF Live(s) /\ session'[s].revoked THEN r ELSE closedBy[s]
      <3>1. \A s \in Requests : Closer(s) \in Requests \cup {NoOne}
        BY <2>5
      <3>2. closedBy' = [s \in Requests |-> Closer(s)]
        BY <2>2, <2>7
      <3> HIDE DEF Closer
      <3> QED
        BY <3>1, <3>2
    <2>8. CASE \E r \in Requests : Backend(r)
      BY <2>2, <2>7, <2>8
    <2>9. CASE \E r \in Requests : Hear(r) \/ Lose(r)
      BY <2>3, <2>6, <2>9
    <2> QED
      BY <2>1, <2>4, <2>8, <2>9, BrowserSteps
  <1>7. displaced' \subseteq Requests
    <2>1. displaced' = displaced \/ \E r \in Requests : Hear(r)
      <3>1. ASSUME NEW u \in Tabs, NEW r \in Requests, Submitted(u, r) PROVE UNCHANGED displaced
        BY <3>1, SendFacts
      <3>2. ASSUME NEW r \in Requests, Backend(r) \/ Lose(r) PROVE UNCHANGED displaced
        BY <3>2, BackendFacts DEF Lose, clientHistory
      <3>3. Wait \/ UNCHANGED allVars => UNCHANGED displaced
        BY DEF Wait, allVars, clientHistory
      <3> QED
        BY <3>1, <3>2, <3>3, BrowserSteps
    <2>2. ASSUME NEW r \in Requests, Hear(r) PROVE displaced' \subseteq Requests
      <3>1. PICK c : c = Jar(Home(r))
        OBVIOUS
      <3>2. Home(r) \in Browsers
        BY <2>2, HearFacts
      <3>3. c # NoOne => c \in Requests /\ Exists(c)
        BY <3>1, <3>2 DEF Jar, Delivered
      <3>4. c # NoOne => Root(c) \in Requests
        BY <3>3, ExistsSent
      <3>5. displaced' \subseteq displaced \cup {Root(x) : x \in {c} \ {NoOne}}
        BY <2>2, <3>1 DEF Hear, Root
      <3> QED
        BY <3>4, <3>5
    <2> QED
      BY <2>1, <2>2
  <1> QED
    BY <1>1, <1>2, <1>3, <1>4, <1>5, <1>6, <1>7, <1>8

-----------------------------------------------------------------------------
(* Requests of a browser, one after another *)

\* A request that is sent overlaps each request of its browser without answer.
LEMMA SendOverlaps ==
  ASSUME BrowserTypeOK, NEW t \in Tabs, NEW x \in Requests, Submitted(t, x),
         NEW y \in Requests, Sent(y), ~Arrived(y), Home(y) = Home(x)'
  PROVE  Overlap(x, y)' /\ Overlap(y, x)'
  BY SendFacts DEF Overlap

\* A failure stays one.
LEMMA FailedKept ==
  ASSUME IInv, BrowserTypeOK, RouteInv, [BrowserNext]_allVars, NEW x \in Requests, Arrived(x)
  PROVE  /\ reply[x] # "none" /\ pc[x] = "done" /\ reply'[x] = reply[x]
         /\ Failed(x) => Failed(x)'
  <1>1. reply[x] # "none"
    BY DEF RouteInv, RouteOK
  <1>2. pc[x] = "done" /\ reply'[x] = reply[x] /\ Arrived(x)'
    BY <1>1, ServerStep, ServerKept, ClientKept
  <1> QED
    BY <1>1, <1>2 DEF Failed

\* Of two requests in turn the earlier had its answer when the later was sent.
LEMMA InTurnStep ==
  ASSUME IInv, BrowserTypeOK, RouteInv, InTurn, [BrowserNext]_allVars
  PROVE  InTurn'
  <1>1. SUFFICES ASSUME NEW x \in Requests, NEW y \in Requests, Sent(x)', Sent(y)', x # y,
                        Home(x)' = Home(y)'
                 PROVE  Overlap(x, y)' \/ Arrived(x)' \/ Arrived(y)'
    BY DEF InTurn
  <1>2. CASE Sent(x) /\ Sent(y)
    <2>1. Home(x) = Home(y)
      BY <1>1, <1>2, ClientKept
    <2> QED
      BY <1>1, <1>2, <2>1, ClientKept, OverlapKept DEF InTurn
  <1>3. ASSUME NEW a \in Requests, NEW b \in Requests, a # b, ~Sent(a), Sent(a)', Sent(b)',
               Home(a)' = Home(b)'
        PROVE  (Overlap(a, b)' /\ Overlap(b, a)') \/ Arrived(b)'
    <2>1. PICK t \in Tabs : Submitted(t, a)
      BY <1>3, ClientKept
    <2>2. Sent(b) /\ Home(b) = Home(a)'
      BY <1>3, <2>1, SendFacts
    <2> QED
      BY <2>1, <2>2, SendOverlaps, ClientKept
  <1> QED
    BY <1>1, <1>2, <1>3

\* A success takes its token out of the cookie, and no later answer brings it back.
LEMMA PresentedStep ==
  ASSUME IInv, BrowserTypeOK, RouteInv, IssueInv, CookieInv, CarriedInv, Presented,
         [BrowserNext]_allVars
  PROVE  Presented'
  <1>1. SUFFICES ASSUME NEW x \in Requests, carried'[x] # NoOne, Arrived(x)',
                        reply'[x] = "ok"
                 PROVE  cookie'[Home(x)'].token # carried'[x]
    BY DEF Presented
  <1>2. Sent(x)'
    BY <1>1, CarriedStep DEF CarriedInv
  <1>3. Sent(x)
    <2>1. Arrived(x) => Sent(x)
      BY DEF RouteInv, RouteOK, Arrived
    <2>2. ~Arrived(x) => Hear(x)
      BY <1>1, ClientKept
    <2> QED
      BY <2>1, <2>2, HearFacts
  <1>4. /\ carried'[x] = carried[x] /\ Home(x)' = Home(x) /\ Home(x) \in Browsers
    BY <1>3, ClientKept, HomeOfSent
  <1>5. PICK c \in Requests : c = carried[x] /\ c # NoOne /\ Known(c) /\ c # x
    BY <1>1, <1>4 DEF CarriedInv, BrowserTypeOK
  <1>6. CASE ~Arrived(x)
    <2>1. Hear(x)
      BY <1>1, <1>6, ClientKept
    <2>2. cookie'[Home(x)] = CookieAfter(x) /\ reply' = reply
      BY <2>1, HearFacts DEF vars
    <2>3. cookie'[Home(x)].token \in {NoOne, x}
      BY <1>1, <2>2 DEF CookieAfter, NoCookie
    <2> QED
      BY <1>4, <1>5, <2>3
  <1>7. CASE Arrived(x)
    <2>1. reply[x] = "ok"
      BY <1>1, <1>7, FailedKept
    <2>2. cookie[Home(x)].token # c
      BY <1>5, <1>7, <2>1 DEF Presented
    <2>3. CASE cookie'[Home(x)] # cookie[Home(x)]
      BY <1>4, <1>5, <2>3, NewCookie DEF Known
    <2> QED
      BY <1>4, <1>5, <2>2, <2>3
  <1> QED
    BY <1>6, <1>7

\* The next request carries the cookie, which is no token that was presented with
\* success.
LEMMA PresentedOnceStep ==
  ASSUME IInv, BrowserTypeOK, RouteInv, CookieInv, CarriedInv, Presented, PresentedOnce,
         [BrowserNext]_allVars
  PROVE  PresentedOnce'
  <1>1. SUFFICES ASSUME NEW x \in Requests, NEW y \in Requests, carried'[x] # NoOne,
                        carried'[x] = carried'[y], x # y
                 PROVE  Overlap(x, y)' \/ Failed(x)' \/ Failed(y)'
    BY DEF PresentedOnce
  <1>2. Sent(x)' /\ Sent(y)'
    BY <1>1, CarriedStep DEF CarriedInv
  <1>3. CASE Sent(x) /\ Sent(y)
    <2>1. carried'[x] = carried[x] /\ carried'[y] = carried[y]
      BY <1>3, ClientKept
    <2>2. Overlap(x, y) \/ Failed(x) \/ Failed(y)
      BY <1>1, <2>1 DEF PresentedOnce
    <2> QED
      BY <2>2, OverlapKept, FailedKept DEF Failed
  <1>4. ASSUME NEW a \in Requests, NEW b \in Requests, a # b, ~Sent(a), Sent(a)',
               carried'[a] # NoOne, carried'[a] = carried'[b]
        PROVE  (Overlap(a, b)' /\ Overlap(b, a)') \/ Failed(b)'
    <2>1. PICK t \in Tabs : Submitted(t, a)
      BY <1>4, ClientKept
    <2>2. PICK c \in Requests : c = carried'[a]
      BY <1>4, <2>1, SentToken
    <2>3. Home(c) = Home(a)' /\ cookie[Home(a)'].token = c
      BY <1>4, <2>1, <2>2, SentToken
    <2>4. carried[b] = c /\ c # NoOne
      BY <1>4, <2>1, <2>2, SendFacts
    <2>5. Sent(b) /\ Home(b) = Home(a)'
      BY <2>3, <2>4 DEF CarriedInv
    <2>6. Arrived(b) => Failed(b)
      BY <2>3, <2>4, <2>5 DEF Presented, Failed
    <2> QED
      BY <2>1, <2>5, <2>6, SendOverlaps, FailedKept
  <1> QED
    BY <1>1, <1>2, <1>3, <1>4

\* A request takes the cookie along; what replaces the cookie later is the answer
\* to a request it overlaps.
LEMMA CookieCarriedStep ==
  ASSUME IInv, BrowserTypeOK, RouteInv, IssueInv, CookieInv, InTurn, CookieCarried,
         [BrowserNext]_allVars
  PROVE  CookieCarried'
  <1>1. SUFFICES ASSUME NEW x \in Requests, Sent(x)', ~Arrived(x)',
                        NEW b, b = Home(x)', NEW c, c = cookie'[b].token, c # NoOne
                 PROVE  \/ carried'[x] = c
                        \/ Overlap(x, c)'
                        \/ carried'[x] = NoOne /\ cookie'[b].until <= now'
    BY DEF CookieCarried, Overlap
  <1>2. CASE ~Sent(x)
    <2>1. PICK t \in Tabs : Submitted(t, x)
      BY <1>1, <1>2, ClientKept
    <2>2. cookie' = cookie /\ now' = now
      BY <2>1, SendFacts DEF vars
    <2> QED
      BY <1>1, <2>1, <2>2, SentToken
  <1>3. CASE Sent(x)
    <2>1. ~Arrived(x) /\ carried'[x] = carried[x] /\ b = Home(x) /\ b \in Browsers
      BY <1>1, <1>3, ClientKept, HomeOfSent
    <2>2. CASE cookie'[b] = cookie[b]
      <3>1. c \in Requests /\ cookie[b].until \in Nat
        BY <1>1, <2>1, <2>2 DEF BrowserTypeOK
      <3>2. now \in Nat /\ now' \in Nat /\ now <= now'
        BY ServerStep, ServerKept
      <3>3. \/ carried[x] = c \/ Overlap(x, c)
            \/ carried[x] = NoOne /\ cookie[b].until <= now
        BY <1>1, <1>3, <2>1, <2>2 DEF CookieCarried
      <3>4. Overlap(x, c) => Overlap(x, c)'
        BY <3>1, OverlapKept
      <3> QED
        BY <2>1, <2>2, <3>1, <3>2, <3>3, <3>4
    <2>3. CASE cookie'[b] # cookie[b]
      <3>1. PICK r \in Requests : /\ Home(r) = b /\ Sent(r) /\ ~Arrived(r)
                                  /\ cookie'[b].token = r /\ Known(r)'
        BY <1>1, <2>1, <2>3, NewCookie
      <3>2. x # r
        BY <1>1, <3>1 DEF Known
      <3>3. Overlap(x, r)
        BY <1>3, <2>1, <3>1, <3>2 DEF InTurn
      <3> QED
        BY <1>1, <3>1, <3>3, OverlapKept
    <2> QED
      BY <2>2, <2>3
  <1> QED
    BY <1>2, <1>3

-----------------------------------------------------------------------------
(* Rotations *)

\* A refresh that finds its token usable writes nothing yet.
LEMMA LookupFacts ==
  ASSUME IInv, BrowserTypeOK, RouteInv, TargetInv, CarriedInv, [BrowserNext]_allVars,
         NEW y \in Requests, pc[y] # "refresh_rotate", pc'[y] = "refresh_rotate"
  PROVE  /\ UNCHANGED <<session, lineage, carried>>
         /\ carried[y] # NoOne /\ ~session[carried[y]].revoked
  <1>1. Backend(y)
    BY HandlerMoves
  <1>2. Serve(y) \/ Continue(y) \/ AbortRequest(y)
    BY <1>1, BackendFacts
  <1>3. UNCHANGED carried
    BY <1>1, BackendFacts
  <1>4. pc = [x \in Requests |-> pc[x]]
    BY DEF IInv, TypeOK
  <1>5. carried[y] # NoOne /\ RefreshLookup(y, carried[y])
    BY <1>2, <1>4 DEF Goto, Answer, StartsAt, Serve, LoginRejected,
       LoginLookup, RefreshUnknown, LogoutNothing, LogoutLookup, Continue, LoginCreate,
       LoginAudit, RefreshRotate, RefreshAudit, ReuseAudit, ReuseSweepRead, ReuseSweepWrite,
       ExpiredRevoke, LogoutRevoke, LogoutAudit, ResetSweepRead, ResetCommit, ResetAudit,
       AbortRequest
  <1>6. RefreshBranch(carried[y]) = "refresh_rotate"
    BY <1>4, <1>5 DEF RefreshLookup, Goto
  <1> QED
    BY <1>3, <1>5, <1>6 DEF RefreshLookup, RefreshBranch, database, history

\* A second exchange of a token is that of a request which overlaps the first.
LEMMA RotatedOnceStep ==
  ASSUME IInv, BrowserTypeOK, RouteInv, TargetInv, IssueInv, CarriedInv, PresentedOnce,
         RotatedOnce, [BrowserNext]_allVars
  PROVE  RotatedOnce'
  <1>1. SUFFICES ASSUME NEW x \in Requests, NEW y \in Requests, pc'[y] = "refresh_rotate",
                        Exists(x)', Parent(x)' = carried'[y]
                 PROVE  Overlap(x, y)'
    BY DEF RotatedOnce
  <1>2. carried'[y] # NoOne
    <2>1. TargetInv'
      BY TargetStep
    <2> QED
      BY <1>1, <2>1 DEF TargetInv, TargetOK, RefreshLabels
  <1>3. CASE pc[y] # "refresh_rotate"
    <2>1. /\ UNCHANGED <<session, lineage, carried>>
          /\ carried[y] # NoOne /\ ~session[carried[y]].revoked
      BY <1>1, <1>3, LookupFacts
    <2>2. Exists(x) /\ Parent(x) = carried[y]
      BY <1>1, <2>1 DEF Exists, Parent
    <2> QED
      BY <2>1, <2>2 DEF IssueInv, IssueOK
  <1>4. CASE pc[y] = "refresh_rotate"
    <2>1. PICK c \in Requests : c = carried[y] /\ c # NoOne /\ c = carried'[y]
      <3>1. carried[y] # NoOne
        BY <1>4 DEF TargetInv, TargetOK, RefreshLabels
      <3> QED
        BY <3>1, CarriedKept
    <2>2. CASE Exists(x)
      <3>1. Parent(x) = carried[y]
        BY <1>1, <2>1, <2>2, ServerStep, ServerKept
      <3> QED
        BY <1>4, <2>2, <3>1, OverlapKept DEF RotatedOnce
    <2>3. CASE ~Exists(x)
      <3>1. /\ Backend(x) /\ RefreshRotate(x) /\ pc[x] = "refresh_rotate"
            /\ carried[x] = c
        BY <1>1, <2>1, <2>3, IssuedRow
      <3>2. x # y
        BY <1>1, <3>1 DEF RefreshRotate, Goto, IInv, TypeOK
      <3>3. ~Failed(x) /\ ~Failed(y)
        BY <1>4, <3>1, FailedKept DEF Failed
      <3> QED
        BY <2>1, <3>1, <3>2, <3>3, OverlapKept DEF PresentedOnce
    <2> QED
      BY <2>2, <2>3
  <1> QED
    BY <1>3, <1>4

\* Without overlaps a login grows at its one tip.
LEMMA OneTipStep ==
  ASSUME IInv, BrowserTypeOK, RouteInv, TargetInv, IssueInv, CarriedInv, RotatedOnce,
         OneTip, [BrowserNext]_allVars
  PROVE  OneTip'
  <1>1. SUFFICES ASSUME NEW s \in Requests, NEW t \in Requests, Exists(s)', Exists(t)',
                        NEW root, Root(s)' = root, Root(t)' = root, Clean(root)',
                        Childless(s)', Childless(t)'
                 PROVE  s = t
    BY DEF OneTip, Clean, Family
  <1>2. Clean(root) /\ Childless(s) /\ Childless(t)
    BY <1>1, FamilyKept
  <1>3. CASE Exists(s) /\ Exists(t)
    <2>1. Root(s) = root /\ Root(t) = root
      BY <1>1, <1>3, ServerStep, ServerKept
    <2> QED
      BY <1>2, <1>3, <2>1 DEF OneTip
  <1>4. ASSUME NEW x \in Requests, NEW y \in Requests, ~Exists(x), Exists(x)', Exists(y),
               Root(x)' = root, Root(y)' = root, Childless(y)'
        PROVE  FALSE
    <2>1. Root(y) = root /\ Exists(root) /\ root \in Requests
      BY <1>4, ExistsSent, ServerStep, ServerKept
    <2>2. /\ carried[x] # NoOne /\ Root(x)' = Root(carried[x]) /\ Parent(x)' = carried[x]
          /\ pc[x] = "refresh_rotate"
      BY <1>4, <2>1, IssuedRow
    <2>3. PICK p \in Requests : p = carried[x] /\ Exists(p)
      BY <2>2, CarriedKept
    <2>4. Childless(p)
      <3>1. SUFFICES ASSUME NEW z \in Requests, Exists(z), Parent(z) = p PROVE FALSE
        BY DEF Childless
      <3>2. Overlap(z, x)'
        BY <2>2, <2>3, <3>1, OverlapKept DEF RotatedOnce
      <3>3. x \in Family(root)'
        BY <1>4 DEF Family
      <3> QED
        BY <1>1, <3>2, <3>3 DEF Clean
    <2>5. Childless(y)
      BY <1>4, FamilyKept
    <2>6. p = y
      BY <1>2, <1>4, <2>1, <2>2, <2>3, <2>4, <2>5 DEF OneTip
    <2> QED
      BY <1>4, <2>2, <2>3, <2>6 DEF Childless
  <1>5. CASE ~Exists(s) /\ ~Exists(t)
    <2>1. Backend(s) /\ (LoginCreate(t) \/ RefreshRotate(t))
      BY <1>1, <1>5, IssuedRow
    <2>2. pc'[t] # pc[t]
      BY <2>1 DEF LoginCreate, RefreshRotate, Goto, IInv, TypeOK
    <2>3. Arrive(s) \/ Continue(s) \/ AbortRequest(s)
      BY <2>1, BackendFacts
    <2> QED
      BY <2>2, <2>3, Frame DEF IInv
  <1> QED
    BY <1>1, <1>3, <1>4, <1>5

-----------------------------------------------------------------------------
(* Closing sessions *)

\* Which handler can close a session, and what it goes on to.
LEMMA RevokingStep ==
  ASSUME IInv, BrowserTypeOK, RouteInv, TargetInv, CarriedInv, [BrowserNext]_allVars,
         NEW q \in Requests, Backend(q), NEW s \in Requests, Live(s), session'[s].revoked
  PROVE  \/ audit'[q] = "REUSE_DETECTED"
         \/ /\ Endpoint[q] = "refresh" /\ reply'[q] = "rejected"
            /\ Expired(session[s])
         \/ /\ carried[q] = s /\ pc[q] \notin {"start", "done"}
            /\ pc'[q] \in {"refresh_audit", "logout_audit"}
  <1>1. TypeOK /\ HandlerInv /\ RowInv /\ RouteOK(q) /\ TargetOK(q)
    BY DEF IInv, RouteInv, TargetInv
  <1>2. Serve(q) \/ Continue(q) \/ AbortRequest(q)
    BY BackendFacts
  <1>3. session'[s] # session[s]
    BY DEF Live
  <1>4. \/ LoginCreate(q) \/ RefreshRotate(q) \/ ReuseSweepWrite(q) \/ ExpiredRevoke(q)
        \/ LogoutRevoke(q)
    <2>1. ~ResetCommit(q)
      BY <1>1 DEF ResetCommit, RouteOK, Serving, LoginLabels, RefreshLabels, ReuseLabels,
         LogoutLabels
    <2>2. session' # session
      BY <1>3
    <2> QED
      BY <1>2, <2>1, <2>2 DEF Serve, LoginRejected, LoginLookup, RefreshUnknown,
         RefreshLookup, LogoutNothing, LogoutLookup, Continue, LoginAudit, RefreshAudit,
         ReuseAudit, ReuseSweepRead, LogoutAudit, ResetSweepRead, ResetAudit, AbortRequest,
         database
  <1>5. CASE LoginCreate(q)
    <2>1. ~Exists(q)
      BY <1>1, <1>5 DEF LoginCreate, RowInv, RowOK
    <2>2. session'[s] = session[s]
      BY <1>1, <1>5, <2>1 DEF LoginCreate, TypeOK, Live
    <2> QED
      BY <1>3, <2>2
  <1>6. CASE RefreshRotate(q)
    <2>1. loc[q].target = carried[q] /\ pc[q] = "refresh_rotate" /\ pc'[q] = "refresh_audit"
      BY <1>1, <1>6 DEF RefreshRotate, Goto, TypeOK, TargetOK, RefreshLabels
    <2>2. s = q \/ s = loc[q].target
      BY <1>1, <1>3, <1>6, RotationFacts
    <2>3. s # q
      BY <1>1, <1>6, RotationFacts DEF Live
    <2> QED
      BY <2>1, <2>2, <2>3
  <1>7. CASE ReuseSweepWrite(q)
    BY <1>1, <1>7 DEF ReuseSweepWrite, TargetOK
  <1>8. CASE ExpiredRevoke(q)
    <2>1. /\ pc[q] = "expired_revoke" /\ reply'[q] = "rejected"
          /\ session' = Revoked({loc[q].target})
      BY <1>1, <1>8 DEF ExpiredRevoke, Answer, TypeOK
    <2>2. Endpoint[q] = "refresh" /\ loc[q].target = carried[q] /\ Expired(session[carried[q]])
      BY <1>1, <2>1 DEF RouteOK, TargetOK, RefreshLabels
    <2>3. s = loc[q].target
      BY <1>1, <2>1, RevokedFacts DEF Live, TypeOK
    <2> QED
      BY <2>1, <2>2, <2>3
  <1>9. CASE LogoutRevoke(q)
    <2>1. /\ pc[q] = "logout_revoke" /\ pc'[q] = "logout_audit"
          /\ session' = Revoked({loc[q].target})
      BY <1>1, <1>9 DEF LogoutRevoke, Goto, TypeOK
    <2>2. loc[q].target = carried[q]
      BY <1>1, <2>1 DEF TargetOK, LogoutLabels
    <2>3. s = loc[q].target
      BY <1>1, <2>1, RevokedFacts DEF Live, TypeOK
    <2> QED
      BY <2>1, <2>2, <2>3
  <1> QED
    BY <1>4, <1>5, <1>6, <1>7, <1>8, <1>9

\* An audit entry of a reuse is the handler's last.
LEMMA ReuseAuditKept ==
  ASSUME IInv, BrowserTypeOK, RouteInv, TargetInv, [BrowserNext]_allVars,
         NEW q \in Requests, audit[q] = "REUSE_DETECTED"
  PROVE  audit'[q] = "REUSE_DETECTED"
  <1>1. SUFFICES ASSUME audit'[q] # audit[q] PROVE FALSE
    OBVIOUS
  <1>2. pc[q] \in {"reuse_read", "reuse_write", "done"}
    BY DEF TargetInv, TargetOK
  <1>3. Serve(q) \/ Continue(q) \/ AbortRequest(q)
    BY <1>1, HandlerMoves, BackendFacts
  <1> QED
    BY <1>1, <1>2, <1>3 DEF StartsAt, Serve, LoginRejected, LoginLookup, RefreshUnknown,
       RefreshLookup, LogoutNothing, LogoutLookup, Continue, LoginCreate, LoginAudit,
       RefreshRotate, RefreshAudit, ReuseAudit, ReuseSweepRead, ReuseSweepWrite,
       ExpiredRevoke, LogoutRevoke, LogoutAudit, ResetSweepRead, ResetCommit, ResetAudit,
       AbortRequest, database

\* A handler that has closed a session answers with success, or fails.
LEMMA AuditStep ==
  ASSUME IInv, BrowserTypeOK, RouteInv, [BrowserNext]_allVars, NEW q \in Requests,
         pc[q] \in {"refresh_audit", "logout_audit"}
  PROVE  pc'[q] = pc[q] \/ reply'[q] \in {"ok", "error"}
  <1>1. SUFFICES ASSUME pc'[q] # pc[q] PROVE reply'[q] \in {"ok", "error"}
    OBVIOUS
  <1>2. Serve(q) \/ Continue(q) \/ AbortRequest(q)
    BY <1>1, HandlerMoves, BackendFacts
  <1>3. reply = [x \in Requests |-> reply[x]]
    BY DEF IInv, TypeOK
  <1> QED
    BY <1>2, <1>3 DEF StartsAt, Answer, Serve, LoginRejected, LoginLookup, RefreshUnknown,
       RefreshLookup, LogoutNothing, LogoutLookup, Continue, LoginCreate, LoginAudit,
       RefreshRotate, RefreshAudit, ReuseAudit, ReuseSweepRead, ReuseSweepWrite,
       ExpiredRevoke, LogoutRevoke, LogoutAudit, ResetSweepRead, ResetCommit, ResetAudit,
       AbortRequest

\* The request that consumed a token stays the one, unless it fails.
LEMMA ConsumedKept ==
  ASSUME IInv, BrowserTypeOK, RouteInv, CookieInv, CarriedInv, Presented,
         [BrowserNext]_allVars, NEW q \in Requests, NEW s \in Requests, Consumed(q, s)
  PROVE  Consumed(q, s)' \/ reply'[q] = "error"
  <1>1. /\ carried[q] = s /\ s # NoOne
        /\ pc[q] \in {"refresh_audit", "logout_audit"} \/ reply[q] = "ok"
    BY DEF Consumed
  <1>2. carried'[q] = s /\ Sent(q) /\ Home(s) = Home(q)
    BY <1>1, CarriedKept DEF CarriedInv
  <1>3. \/ pc'[q] \in {"refresh_audit", "logout_audit"}
        \/ reply'[q] \in {"ok", "error"}
    <2>1. reply[q] = "ok" => reply'[q] = "ok"
      BY ServerStep, ServerKept
    <2> QED
      BY <1>1, <2>1, AuditStep
  <1>4. ASSUME NEW r \in Requests \ {q}, carried'[r] = s
        PROVE  Overlap(r, q)' \/ (pc'[r] = "done" /\ reply'[r] # "reuse")
    <2>1. CASE Sent(r)
      <3>1. carried[r] = s
        BY <1>4, <2>1, ClientKept
      <3>2. Overlap(r, q) \/ (pc[r] = "done" /\ reply[r] # "reuse")
        BY <3>1 DEF Consumed
      <3> QED
        BY <3>2, OverlapKept, ServerStep, ServerKept
    <2>2. CASE ~Sent(r)
      <3>1. Sent(r)'
        BY <1>1, <1>4, CarriedStep DEF CarriedInv
      <3>2. PICK t \in Tabs : Submitted(t, r)
        BY <2>2, <3>1, ClientKept
      <3>3. Home(s) = Home(r)' /\ cookie[Home(r)'].token = s
        BY <1>1, <1>4, <3>2, SentToken
      <3>4. ~Arrived(q)
        <4>1. SUFFICES ASSUME Arrived(q) PROVE FALSE
          OBVIOUS
        <4>2. reply[q] = "ok"
          BY <1>1, <4>1, FailedKept
        <4> QED
          BY <1>1, <1>2, <3>3, <4>1, <4>2 DEF Presented
      <3> QED
        BY <1>2, <3>2, <3>3, <3>4, SendOverlaps
    <2> QED
      BY <2>1, <2>2
  <1>5. CASE reply'[q] = "error"
    BY <1>5
  <1>6. CASE pc'[q] \in {"refresh_audit", "logout_audit"} \/ reply'[q] = "ok"
    BY <1>2, <1>4, <1>6 DEF Consumed
  <1> QED
    BY <1>3, <1>5, <1>6

\* A session is closed by a sweep, an expiry, a handler that fails afterwards, or
\* the request in turn that presented it.
LEMMA ClosedStep ==
  ASSUME IInv, BrowserTypeOK, RouteInv, TargetInv, IssueInv, CookieInv, CarriedInv, Presented,
         PresentedOnce, ClosedInv, [BrowserNext]_allVars
  PROVE  ClosedInv'
  <1>1. SUFFICES ASSUME NEW s \in Requests, Exists(s)', session'[s].revoked
                 PROVE  \E q \in Requests :
                          /\ closedBy'[s] = q
                          /\ \/ audit'[q] = "REUSE_DETECTED"
                             \/ /\ Endpoint[q] = "refresh" /\ reply'[q] = "rejected"
                                /\ Expired(session[s])'
                             \/ reply'[q] = "error"
                             \/ Consumed(q, s)'
    BY DEF ClosedInv, ClosedOK
  <1>2. CASE ~Exists(s)
    BY <1>1, <1>2, IssuedRow
  <1>3. CASE Exists(s) /\ session[s].revoked
    <2>1. PICK q \in Requests :
            /\ closedBy[s] = q
            /\ \/ audit[q] = "REUSE_DETECTED"
               \/ Endpoint[q] = "refresh" /\ reply[q] = "rejected" /\ Expired(session[s])
               \/ reply[q] = "error"
               \/ Consumed(q, s)
      BY <1>3 DEF ClosedInv, ClosedOK
    <2>2. closedBy'[s] = q
      BY <1>3, <2>1, NewClosed
    <2>3. /\ reply[q] = "rejected" => reply'[q] = "rejected"
          /\ reply[q] = "error" => reply'[q] = "error"
          /\ Expired(session[s]) => Expired(session[s])'
      BY <1>3, ServerStep, ServerKept
    <2> QED
      BY <2>1, <2>2, <2>3, ReuseAuditKept, ConsumedKept
  <1>4. CASE Live(s)
    <2>1. PICK q \in Requests : Backend(q) /\ closedBy'[s] = q
      BY <1>1, <1>4, NewClosed
    <2>2. Expired(session[s]) => Expired(session[s])'
      BY <1>4, ServerStep, ServerKept DEF Live
    <2>3. ASSUME carried[q] = s, pc[q] \notin {"start", "done"},
                 pc'[q] \in {"refresh_audit", "logout_audit"}
          PROVE  Consumed(q, s)'
      <3>1. carried' = carried
        BY <2>1, BackendFacts
      <3>2. ASSUME NEW r \in Requests \ {q}, carried[r] = s
            PROVE  Overlap(r, q)' \/ (pc'[r] = "done" /\ reply'[r] # "reuse")
        <4>1. Overlap(r, q) \/ Failed(r) \/ Failed(q)
          BY <2>3, <3>2 DEF PresentedOnce
        <4>2. ~Failed(q)
          BY <2>3, FailedKept DEF Failed
        <4>3. reply[r] # "reuse"
          BY <1>4, <3>2 DEF TargetInv, TargetOK, Live
        <4>4. Failed(r) => pc[r] = "done"
          BY FailedKept DEF Failed
        <4> QED
          BY <4>1, <4>2, <4>3, <4>4, OverlapKept, ServerStep, ServerKept
      <3> QED
        BY <2>3, <3>1, <3>2 DEF Consumed
    <2>4. \/ audit'[q] = "REUSE_DETECTED"
          \/ /\ Endpoint[q] = "refresh" /\ reply'[q] = "rejected"
             /\ Expired(session[s])
          \/ /\ carried[q] = s /\ pc[q] \notin {"start", "done"}
             /\ pc'[q] \in {"refresh_audit", "logout_audit"}
      BY <1>1, <1>4, <2>1, RevokingStep
    <2> QED
      BY <2>1, <2>2, <2>3, <2>4
  <1> QED
    BY <1>2, <1>3, <1>4 DEF Live

-----------------------------------------------------------------------------
(* What a browser still has *)

\* A token that is known after a step and was not before is the new cookie.
LEMMA NewKnown ==
  ASSUME IInv, BrowserTypeOK, RouteInv, TargetInv, IssueInv, CarriedInv,
         [BrowserNext]_allVars, NEW s \in Requests, Known(s)', ~Known(s)
  PROVE  /\ UNCHANGED vars /\ Exists(s) /\ Home(s)' = Home(s)
         /\ cookie'[Home(s)].token = s /\ cookie'[Home(s)].until = now + SessionTTL
  <1>1. s \in Delivered' /\ Arrived(s)' /\ reply'[s] = "ok" /\ Exists(s)'
    BY DEF Known, Delivered
  <1>2. Exists(s)
    <2>1. ~Exists(s) => reply'[s] = "none"
      BY <1>1, IssuedRow
    <2> QED
      BY <1>1, <2>1
  <1>3. ~Arrived(s)
    <2>1. SUFFICES ASSUME Arrived(s) PROVE FALSE
      OBVIOUS
    <2>2. reply[s] = "ok"
      BY <1>1, <2>1, FailedKept
    <2> QED
      BY <1>2, <2>1, <2>2 DEF Known, Delivered
  <1>4. Hear(s)
    BY <1>1, <1>3, ClientKept
  <1>5. UNCHANGED vars /\ Sent(s) /\ cookie'[Home(s)] = CookieAfter(s)
    BY <1>4, HearFacts
  <1>6. reply[s] = "ok" /\ Endpoint[s] # "logout"
    BY <1>1, <1>2, <1>5 DEF vars, IssueInv, IssueOK
  <1> QED
    BY <1>2, <1>5, <1>6, ClientKept DEF CookieAfter

\* A usable session that reached its browser stays the cookie until it is
\* exchanged, closed, or displaced by another login.
LEMMA UsableHeldStep ==
  ASSUME IInv, BrowserTypeOK, RouteInv, TargetInv, IssueInv, CookieInv, CarriedInv,
         CookieCarried, UsableHeld, [BrowserNext]_allVars
  PROVE  UsableHeld'
  <1>1. SUFFICES ASSUME NEW s \in Requests, Known(s)', Live(s)', NEW root, Root(s)' = root,
                        Clean(root)', root \notin displaced'
                 PROVE  Expired(session[s])' \/ HeldByCookie(s)'
    BY DEF UsableHeld, Clean, Family
  <1>2. CASE ~Known(s)
    <2>1. /\ UNCHANGED vars /\ Exists(s) /\ Home(s)' = Home(s)
          /\ cookie'[Home(s)].token = s /\ cookie'[Home(s)].until = now + SessionTTL
      BY <1>1, <1>2, NewKnown
    <2>2. session'[s].expiresAt <= now + SessionTTL
      BY <2>1 DEF vars, database, IssueInv, IssueOK
    <2> QED
      BY <2>1, <2>2 DEF HeldByCookie
  <1>3. CASE Known(s)
    <2>1. /\ Exists(s) /\ Home(s)' = Home(s) /\ Sent(s)
          /\ Root(s) = root /\ Live(s) /\ session'[s].expiresAt = session[s].expiresAt
          /\ Expired(session[s]) => Expired(session[s])'
      BY <1>1, <1>3, KnownKept, ServerStep, ServerKept
    <2>2. Clean(root) /\ root \notin displaced
      BY <1>1, FamilyKept, ClientKept
    <2>3. SUFFICES ASSUME ~Expired(session[s]) PROVE HeldByCookie(s)'
      BY <2>1
    <2>4. HeldByCookie(s)
      BY <1>3, <2>1, <2>2, <2>3 DEF UsableHeld
    <2>5. PICK b \in Browsers : b = Home(s)
      BY <2>1, HomeOfSent
    <2>6. CASE cookie'[b] = cookie[b]
      BY <2>1, <2>4, <2>5, <2>6 DEF HeldByCookie
    <2>7. CASE cookie'[b] # cookie[b]
      <3>1. PICK r \in Requests :
              /\ Hear(r) /\ Home(r) = b /\ reply[r] = "ok" /\ ~Arrived(r) /\ Sent(r)
              /\ Endpoint[r] = "logout" \/ (Endpoint[r] \in {"login", "refresh"} /\ Exists(r))
        BY <2>7, NewCookie
      <3>2. cookie[b].token = s /\ now < cookie[b].until
        <4>1. now \in Nat /\ session[s].expiresAt \in Nat /\ cookie[b].until \in Nat
          BY DEF IInv, TypeOK, SessionRow, BrowserTypeOK
        <4> QED
          BY <2>3, <2>4, <2>5, <4>1 DEF HeldByCookie, Expired
      <3>3. Jar(b) = s
        BY <3>2 DEF Jar
      <3>4. Endpoint[r] # "login"
        BY <1>1, <2>1, <3>1, <3>3, HearFacts
      <3>5. ~Overlap(r, s)
        BY <2>1, <2>2 DEF Clean, Family
      <3>6. carried[r] = s
        <4>1. ~(cookie[b].until <= now)
          BY <3>2 DEF IInv, TypeOK, BrowserTypeOK
        <4> QED
          BY <3>1, <3>2, <3>5, <4>1 DEF CookieCarried
      <3>7. session[s].revoked
        <4>1. CASE Endpoint[r] = "logout"
          BY <3>1, <3>6, <4>1 DEF TargetInv, TargetOK
        <4>2. CASE Endpoint[r] = "refresh"
          BY <3>1, <3>6, <4>2 DEF IssueInv, IssueOK
        <4> QED
          BY <3>1, <3>4, <4>1, <4>2
      <3> QED
        BY <2>1, <3>7 DEF Live
    <2> QED
      BY <2>6, <2>7
  <1> QED
    BY <1>2, <1>3


-----------------------------------------------------------------------------
(* Logouts *)

\* The login a logout is for was made in its browser and answered there, like
\* all that descends from it.
LEMMA LeftFacts ==
  ASSUME IInv, BrowserTypeOK, RouteInv, RootInv, LeftInv, NEW q \in Requests, Sent(q),
         Endpoint[q] = "logout", NEW root, root = Root(left[q])
  PROVE  /\ root \in Requests /\ Exists(root) /\ Sent(root) /\ Arrived(root)
         /\ Home(root) = Home(q)
         /\ \A y \in Family(root) : Home(y) = Home(q)
  <1>1. PICK h \in Requests : h = left[q] /\ Known(h) /\ Home(h) = Home(q) /\ Exists(h)
    BY DEF LeftInv, Known, Delivered
  <1>2. /\ root \in Requests /\ Exists(root)
        /\ Home(root) = Home(h) /\ Arrived(root)
    BY <1>1, ExistsSent DEF RootInv, Known
  <1>3. Sent(root)
    BY <1>2, ExistsSent
  <1>4. \A y \in Family(root) : Home(y) = Home(q)
    BY <1>1, <1>2 DEF Family, RootInv
  <1> QED
    BY <1>1, <1>2, <1>3, <1>4

\* A step adds no token that a browser has to a login, but only a row that is
\* not answered yet.
LEMMA FamilyBefore ==
  ASSUME IInv, BrowserTypeOK, RouteInv, TargetInv, IssueInv, CarriedInv,
         [BrowserNext]_allVars, NEW root, NEW y \in Family(root)',
         Known(y)' \/ y \in Delivered' \/ Exists(y)
  PROVE  y \in Family(root)
  <1>1. y \in Requests /\ Exists(y)' /\ Root(y)' = root
    BY DEF Family
  <1>2. Exists(y)
    <2>1. y \in Delivered' => reply'[y] = "ok"
      BY DEF Delivered
    <2>2. ~Exists(y) => reply'[y] = "none"
      BY <1>1, IssuedRow
    <2> QED
      BY <2>1, <2>2 DEF Known
  <1> QED
    BY <1>1, <1>2, ServerStep, ServerKept DEF Family

\* No request of a clean login overlaps another one.
LEMMA CleanApart ==
  ASSUME NEW root, Clean(root), NEW y \in Family(root), NEW x \in Requests
  PROVE  ~Overlap(x, y) /\ ~Overlap(y, x)
  BY DEF Clean, Overlap

\* After a logout that succeeded no answer brings a token of its login back.
LEMMA NoTokenStep ==
  ASSUME IInv, BrowserTypeOK, RouteInv, TargetInv, IssueInv, CookieInv, CarriedInv,
         RootInv, LeftInv, LogoutInv, [BrowserNext]_allVars,
         NEW q \in Requests, Sent(q), Endpoint[q] = "logout",
         NEW root \in Requests, root = Root(left[q]), Clean(root)
  PROVE  NoTokenLeft(q, root)'
  <1>1. NoTokenLeft(q, root) /\ NoneUnderWay(q, root)
    BY DEF LogoutInv, LogoutOK
  <1>2. PICK b \in Browsers : b = Home(q)
    BY HomeOfSent
  <1>3. Home(q)' = b
    BY <1>2, ClientKept
  <1>4. SUFFICES ASSUME Arrived(q)', reply'[q] = "ok", NEW y, y = cookie'[b].token,
                        y \in Family(root)'
                 PROVE  FALSE
    BY <1>3 DEF NoTokenLeft
  <1>5. y \in Requests /\ y # NoOne
    BY <1>4 DEF Family
  <1>6. y \in Family(root)
    <2>1. CookieInv'
      BY CookieStep
    <2>2. Known(y)'
      BY <1>4, <1>5, <2>1 DEF CookieInv, Known, Arrived
    <2> QED
      BY <1>4, <2>2, FamilyBefore
  <1>7. CASE ~Arrived(q)
    <2>1. Hear(q)
      BY <1>4, <1>7, ClientKept
    <2>2. reply[q] = "ok" /\ cookie'[b] = CookieAfter(q)
      BY <1>2, <1>4, <2>1, HearFacts DEF vars
    <2> QED
      BY <1>4, <1>5, <2>2 DEF CookieAfter, NoCookie
  <1>8. CASE Arrived(q)
    <2>1. reply[q] = "ok"
      BY <1>4, <1>8, FailedKept
    <2>2. cookie[b].token # y
      BY <1>1, <1>2, <1>6, <1>8, <2>1 DEF NoTokenLeft
    <2>3. ~Arrived(y) /\ Endpoint[y] \in {"login", "refresh"} /\ Exists(y)
      BY <1>4, <1>5, <2>2, NewCookie
    <2>4. Root(y) = root
      BY <1>6 DEF Family
    <2>5. Endpoint[y] # "login"
      <3>1. Arrived(root)
        BY LeftFacts
      <3> QED
        BY <1>5, <2>3, <2>4, <3>1 DEF IssueInv, IssueOK
    <2>6. carried[y] # NoOne /\ Root(carried[y]) = root
      BY <1>5, <2>3, <2>4, <2>5 DEF IssueInv, IssueOK
    <2>7. carried[y] \in Family(root)
      BY <1>5, <2>6, CarriedKept DEF Family
    <2>8. ~Overlap(q, y)
      BY <1>6, CleanApart
    <2>9. y # q
      BY <2>3
    <2> QED
      BY <1>1, <1>5, <2>1, <2>3, <2>7, <2>8, <2>9 DEF NoneUnderWay, Failed
  <1> QED
    BY <1>7, <1>8

\* After a logout no request is sent with a token of its login.
LEMMA NoneUnderWayStep ==
  ASSUME IInv, BrowserTypeOK, RouteInv, TargetInv, IssueInv, CookieInv, CarriedInv,
         RootInv, LeftInv, LogoutInv, [BrowserNext]_allVars,
         NEW q \in Requests, Sent(q), Endpoint[q] = "logout",
         NEW root \in Requests, root = Root(left[q]), Clean(root)
  PROVE  NoneUnderWay(q, root)'
  <1>1. NoTokenLeft(q, root) /\ NoneUnderWay(q, root)
    BY DEF LogoutInv, LogoutOK
  <1>2. SUFFICES ASSUME NEW y \in Requests \ {q}, NEW c, c = carried'[y],
                        c \in Family(root)'
                 PROVE  Overlap(q, y)' \/ Arrived(y)' \/ Failed(q)'
    BY DEF NoneUnderWay
  <1>3. c \in Requests /\ c # NoOne
    BY <1>2 DEF Family
  <1>4. CarriedInv'
    BY CarriedStep
  <1>5. c \in Family(root)
    <2>1. Known(c)'
      BY <1>2, <1>3, <1>4 DEF CarriedInv, Known, Arrived
    <2> QED
      BY <1>2, <2>1, FamilyBefore
  <1>6. CASE Sent(y)
    <2>1. carried[y] = c
      BY <1>2, <1>6, ClientKept
    <2>2. Overlap(q, y) \/ Arrived(y) \/ Failed(q)
      BY <1>1, <1>5, <2>1 DEF NoneUnderWay
    <2> QED
      BY <2>2, OverlapKept, ClientKept, FailedKept DEF Failed
  <1>7. CASE ~Sent(y)
    <2>1. Sent(y)'
      BY <1>2, <1>3, <1>4 DEF CarriedInv
    <2>2. PICK t \in Tabs : Submitted(t, y)
      BY <1>7, <2>1, ClientKept
    <2>3. Home(c) = Home(y)' /\ cookie[Home(y)'].token = c
      BY <1>2, <1>3, <2>2, SentToken
    <2>4. Home(c) = Home(q)
      BY <1>5, LeftFacts
    <2>5. ~Arrived(q) => Overlap(q, y)'
      BY <2>2, <2>3, <2>4, SendOverlaps
    <2>6. Arrived(q) => Failed(q)
      BY <1>1, <1>5, <2>3, <2>4 DEF NoTokenLeft, Failed
    <2> QED
      BY <2>5, <2>6, FailedKept DEF Failed
  <1> QED
    BY <1>6, <1>7

\* A logout that carries no token of its login finds nothing left to revoke.
LEMMA NothingUsableStep ==
  ASSUME IInv, BrowserTypeOK, RouteInv, TargetInv, IssueInv, CookieInv, CarriedInv,
         RootInv, LeftInv, LogoutInv, [BrowserNext]_allVars,
         NEW q \in Requests, Sent(q), Endpoint[q] = "logout",
         NEW root \in Requests, root = Root(left[q]), Clean(root)
  PROVE  NothingUsable(q, root)'
  <1>1. NoneUnderWay(q, root) /\ NothingUsable(q, root)
    BY DEF LogoutInv, LogoutOK
  <1>2. SUFFICES ASSUME reply'[q] # "error", carried'[q] \notin Family(root)',
                        root \notin displaced', NEW s \in Family(root)', Live(s)',
                        s \in Delivered'
                 PROVE  Expired(session[s])'
    BY DEF NothingUsable
  <1>3. s \in Family(root)
    BY <1>2, FamilyBefore
  <1>4. s \in Requests /\ Exists(s) /\ Root(s) = root
    BY <1>3 DEF Family
  <1>5. Live(s) /\ (Expired(session[s]) => Expired(session[s])')
    BY <1>2, <1>4, ServerStep, ServerKept
  <1>6. carried[q] \notin Family(root)
    BY <1>2, ClientKept, FamilyKept
  <1>7. reply[q] # "error" /\ root \notin displaced
    BY <1>2, ServerStep, ServerKept, ClientKept
  <1>8. CASE s \in Delivered
    BY <1>1, <1>3, <1>5, <1>6, <1>7, <1>8 DEF NothingUsable
  <1>9. CASE s \notin Delivered
    <2>1. reply[s] = "none"
      BY <1>2, <1>4, <1>9, NewDelivered
    <2>2. Endpoint[s] # "login"
      <3>1. Arrived(root)
        BY LeftFacts
      <3>2. s # root
        BY <2>1, <3>1 DEF RouteInv, RouteOK
      <3> QED
        BY <1>4, <3>2 DEF IssueInv, IssueOK
    <2>3. carried[s] # NoOne /\ Root(carried[s]) = root /\ Endpoint[s] = "refresh"
      BY <1>4, <2>2 DEF IssueInv, IssueOK
    <2>4. carried[s] \in Family(root) /\ s # q
      BY <1>4, <2>3, CarriedKept DEF Family
    <2>5. Overlap(q, s) \/ Arrived(s) \/ Failed(q)
      BY <1>1, <1>4, <2>4 DEF NoneUnderWay
    <2>6. ~Overlap(q, s) /\ ~Arrived(s)
      BY <1>3, <1>4, <2>1, CleanApart DEF RouteInv, RouteOK
    <2>7. reply[q] = "error"
      BY <2>5, <2>6 DEF Failed, RouteInv, RouteOK
    <2> QED
      BY <1>7, <2>7
  <1> QED
    BY <1>8, <1>9

\* What a logout ends stays ended.
LEMMA LogoutStep ==
  ASSUME IInv, BrowserTypeOK, RouteInv, TargetInv, IssueInv, CookieInv, CarriedInv,
         RootInv, HeldInv, LeftInv, UsableHeld, LogoutInv, [BrowserNext]_allVars
  PROVE  LogoutInv'
  <1>1. SUFFICES ASSUME NEW q \in Requests, NEW root \in Requests, Sent(q)',
                        Endpoint[q] = "logout", Root(left[q])' = root, Clean(root)'
                 PROVE  NoTokenLeft(q, root)' /\ NoneUnderWay(q, root)' /\ NothingUsable(q, root)'
    BY DEF LogoutInv, LogoutOK
  <1>2. Clean(root)
    BY <1>1, FamilyKept
  <1>3. CASE Sent(q)
    <2>1. PICK h \in Requests : h = left[q] /\ Known(h) /\ Exists(h)
      BY <1>1, <1>3 DEF LeftInv, Known, Delivered
    <2>2. left'[q] = h /\ Root(h)' = Root(h)
      BY <1>3, <2>1, ClientKept, ServerStep, ServerKept
    <2>3. root = Root(left[q])
      BY <1>1, <2>1, <2>2 DEF Root
    <2> QED
      BY <1>1, <1>2, <1>3, <2>3, NoTokenStep, NoneUnderWayStep, NothingUsableStep
  <1>4. CASE ~Sent(q)
    <2>1. PICK t \in Tabs : Submitted(t, q)
      BY <1>1, <1>4, ClientKept
    <2>2. /\ UNCHANGED vars /\ ~Arrived(q)
          /\ UNCHANGED <<heard, cookie, displaced>>
      BY <2>1, SentToken, SendFacts
    <2>3. PICK b \in Browsers : b = Home(q)'
      BY <2>1, SendFacts
    <2>4. \A s : s \in Family(root)' => s \in Family(root)
      BY <2>2 DEF Family, Exists, Root, vars, database, history
    <2>5. LeftInv' /\ RootInv' /\ CarriedInv'
      BY LeftStep, RootStep, CarriedStep
    <2>6. ASSUME NEW y \in Family(root) PROVE Home(y) = b
      <3>1. PICK h \in Requests : h = left'[q] /\ Home(h)' = b /\ Exists(h)'
        BY <1>1, <2>3, <2>5 DEF LeftInv, Known, Delivered, Home
      <3>2. Exists(h) /\ Root(h) = root
        BY <1>1, <2>2, <3>1 DEF Exists, Root, vars, database, history
      <3>3. Home(h) = b
        BY <3>1, <3>2, ExistsSent, ClientKept
      <3> QED
        BY <3>2, <3>3 DEF RootInv, Family
    <2>7. NoTokenLeft(q, root)'
      BY <2>2 DEF NoTokenLeft, Arrived
    <2>8. NoneUnderWay(q, root)'
      <3>1. SUFFICES ASSUME NEW y \in Requests \ {q}, NEW c, c = carried'[y], c \in Family(root)'
                     PROVE  Overlap(q, y)' \/ Arrived(y)'
        BY DEF NoneUnderWay
      <3>2. c \in Family(root) /\ carried[y] = c /\ c # NoOne
        BY <2>1, <2>4, <3>1, SendFacts DEF Family
      <3>3. Sent(y) /\ Home(y) = b
        BY <2>6, <3>2 DEF CarriedInv
      <3> QED
        BY <2>1, <2>3, <3>3, SendOverlaps, ClientKept
    <2>9. NothingUsable(q, root)'
      <3>1. SUFFICES ASSUME carried'[q] \notin Family(root)', root \notin displaced,
                            NEW s \in Family(root)', Live(s), s \in Delivered
                     PROVE  Expired(session[s])
        BY <2>2 DEF NothingUsable, Live, Exists, Delivered, Expired, vars, database
      <3>2. s \in Requests /\ s \in Family(root) /\ Exists(s) /\ Root(s) = root /\ Home(s) = b
        BY <2>4, <2>6, <3>1 DEF Family
      <3>3. CASE ~Arrived(s)
        <4>1. Sent(s)
          BY <3>2, ExistsSent
        <4>2. Overlap(q, s)'
          BY <2>1, <2>3, <3>2, <3>3, <4>1, SendOverlaps
        <4> QED
          BY <1>1, <3>1, <3>2, <4>2 DEF Clean
      <3>4. CASE Arrived(s)
        <4>1. Expired(session[s]) \/ HeldByCookie(s)
          BY <1>2, <3>1, <3>2, <3>4 DEF UsableHeld, Known
        <4>2. ASSUME HeldByCookie(s) PROVE Expired(session[s])
          <5>1. cookie[b].token = s /\ session[s].expiresAt <= cookie[b].until
            BY <3>2, <4>2 DEF HeldByCookie
          <5>2. carried'[q] = NoOne
            BY <2>1, <2>3, <3>1, <3>2, <5>1, SentToken
          <5>3. cookie[b].until <= now
            BY <2>1, <2>3, <3>2, <5>1, <5>2, SentToken
          <5>4. /\ now \in Nat /\ cookie[b].until \in Nat
                /\ session[s].expiresAt \in Nat
            BY <3>2 DEF IInv, TypeOK, SessionRow, BrowserTypeOK
          <5> QED
            BY <5>1, <5>3, <5>4 DEF Expired
        <4> QED
          BY <4>1, <4>2
      <3> QED
        BY <3>3, <3>4
    <2> QED
      BY <2>7, <2>8, <2>9
  <1> QED
    BY <1>3, <1>4

-----------------------------------------------------------------------------
(* The invariant *)

\* Empty browsers and empty tables satisfy the inductive invariant.
LEMMA BrowserInitInv == BrowserInit => BrowserInv
  <1>1. SUFFICES ASSUME BrowserInit PROVE BrowserInv
    OBVIOUS
  <1>2. IInv /\ Init
    BY <1>1, InitInv DEF BrowserInit
  <1>3. /\ page = [t \in Tabs |-> "out"]
        /\ held = [t \in Tabs |-> NoOne]
        /\ cookie = [b \in Browsers |-> NoCookie]
        /\ origin = [r \in Requests |-> NoOne]
        /\ carried = [r \in Requests |-> NoOne]
        /\ heard = [r \in Requests |-> "no"]
        /\ gone = {} /\ unheard = [r \in Requests |-> {}]
        /\ left = [r \in Requests |-> NoOne]
        /\ closedBy = [s \in Requests |-> NoOne]
        /\ displaced = {} /\ setting \in Settings
    BY <1>1 DEF BrowserInit
  <1>4. /\ \A r \in Requests : pc[r] = "start" /\ reply[r] = "none" /\ audit[r] # "REUSE_DETECTED"
        /\ \A s \in Requests : ~Exists(s)
    BY <1>2, NullAssumption DEF Init, Exists, NoSession, Actions
  <1>5. \A r \in Requests : ~Sent(r) /\ ~Arrived(r) /\ ~Known(r) /\ carried[r] = NoOne
    BY <1>3, <1>4 DEF Sent, Arrived, Known
  <1>6. BrowserTypeOK
    BY <1>3 DEF BrowserTypeOK, NoCookie
  <1>7. RouteInv /\ TargetInv /\ IssueInv
    BY <1>3, <1>4, <1>5 DEF RouteInv, RouteOK, TargetInv, TargetOK, IssueInv, IssueOK,
       LoginLabels, RefreshLabels, ReuseLabels, LogoutLabels
  <1>8. CookieInv /\ CarriedInv /\ RootInv /\ HeldInv /\ LeftInv
    BY <1>3, <1>4, <1>5 DEF CookieInv, CarriedInv, RootInv, HeldInv, LeftInv, NoCookie
  <1>9. InTurn /\ Presented /\ PresentedOnce /\ CookieCarried
    BY <1>5 DEF InTurn, Presented, PresentedOnce, CookieCarried
  <1>10. RotatedOnce /\ OneTip /\ ClosedInv /\ UsableHeld /\ LogoutInv
    BY <1>4, <1>5 DEF RotatedOnce, OneTip, ClosedInv, ClosedOK, UsableHeld, LogoutInv, LogoutOK
  <1> QED
    BY <1>2, <1>6, <1>7, <1>8, <1>9, <1>10 DEF BrowserInv, ClientInv

\* Every step keeps the inductive invariant.
LEMMA BrowserStepInv == BrowserInv /\ [BrowserNext]_allVars => BrowserInv'
  <1>1. SUFFICES ASSUME BrowserInv, [BrowserNext]_allVars PROVE BrowserInv'
    OBVIOUS
  <1>2. IInv /\ BrowserTypeOK /\ ClientInv
    BY <1>1 DEF BrowserInv
  <1>3. IInv'
    BY <1>1, <1>2, ServerStep, StepInv DEF ClientInv
  <1>4. BrowserTypeOK'
    BY <1>1, <1>2, BrowserTypeStep DEF ClientInv
  <1>5. RouteInv' /\ TargetInv' /\ IssueInv'
    BY <1>1, <1>2, RouteStep, TargetStep, IssueStep DEF ClientInv
  <1>6. CookieInv' /\ CarriedInv' /\ RootInv' /\ HeldInv' /\ LeftInv'
    BY <1>1, <1>2, CookieStep, CarriedStep, RootStep, HeldStep, LeftStep DEF ClientInv
  <1>7. InTurn' /\ Presented' /\ PresentedOnce' /\ CookieCarried'
    BY <1>1, <1>2, InTurnStep, PresentedStep, PresentedOnceStep, CookieCarriedStep
       DEF ClientInv
  <1>8. RotatedOnce' /\ OneTip' /\ ClosedInv'
    BY <1>1, <1>2, RotatedOnceStep, OneTipStep, ClosedStep DEF ClientInv
  <1>9. UsableHeld' /\ LogoutInv'
    BY <1>1, <1>2, UsableHeldStep, LogoutStep DEF ClientInv
  <1> QED
    BY <1>3, <1>4, <1>5, <1>6, <1>7, <1>8, <1>9 DEF BrowserInv, ClientInv

\* What the server, the browsers, the requests under way and the pages hold of
\* one another, in every reachable state.
THEOREM BrowserInductive == BrowserSpec => []BrowserInv
  BY BrowserInitInv, BrowserStepInv, PTL DEF BrowserSpec

\* Tabs, cookies and requests under way keep their types; a page shows the
\* signed-in view exactly when it holds an access token that came with a success.
THEOREM BrowserTypeCorrect == BrowserSpec => []BrowserTypeOK
  <1>1. BrowserInv => BrowserTypeOK
    BY DEF BrowserInv
  <1> QED
    BY <1>1, BrowserInductive, PTL

\* Seen from the server, tabs and browsers are clients AuthSessions allows, so
\* that its theorems hold for them.
THEOREM BrowserImplements == BrowserSpec => Spec
  <1>1. BrowserInit => Init
    BY DEF BrowserInit
  <1>2. BrowserInv /\ [BrowserNext]_allVars => [Next]_vars
    BY ServerStep DEF BrowserInv, ClientInv
  <1> QED
    BY <1>1, <1>2, BrowserInductive, PTL DEF BrowserSpec, Spec

-----------------------------------------------------------------------------
(* What the invariant says of tabs and their sessions *)

\* A tab that is told that its token was used before has an explanation: the
\* token was closed by a request of the same browser that overlapped, by one
\* that failed after its commit, by a sweep, or as expired.
THEOREM ReuseIsExplained == BrowserSpec => []ReuseExplained
  <1>1. BrowserInv => ReuseExplained
    <2>1. SUFFICES ASSUME BrowserInv, NEW r \in Requests, reply[r] = "reuse",
                          NEW q, q = closedBy[carried[r]]
                   PROVE  \/ Overlap(r, q) /\ Home(q) = Home(r)
                          \/ reply[q] = "error"
                          \/ audit[q] = "REUSE_DETECTED"
                          \/ Endpoint[q] = "refresh" /\ session[carried[r]].expiresAt <= now
      BY DEF ReuseExplained
    <2> USE DEF BrowserInv, ClientInv
    <2>2. carried[r] # NoOne /\ session[carried[r]].revoked
      BY <2>1 DEF TargetInv, TargetOK
    <2>3. PICK c \in Requests : c = carried[r] /\ Exists(c) /\ Home(c) = Home(r)
      BY <2>1, <2>2 DEF BrowserTypeOK, CarriedInv, Known, Delivered
    <2>4. \/ audit[q] = "REUSE_DETECTED"
          \/ Endpoint[q] = "refresh" /\ Expired(session[c])
          \/ reply[q] = "error"
          \/ q \in Requests /\ Consumed(q, c)
      BY <2>1, <2>2, <2>3 DEF ClosedInv, ClosedOK
    <2>5. ASSUME q \in Requests, Consumed(q, c)
          PROVE  Overlap(r, q) /\ Home(q) = Home(r)
      <3>1. pc[r] = "done"
        BY <2>1 DEF IInv, HandlerInv, HandlerOK
      <3>2. r # q
        BY <2>1, <2>5, <3>1 DEF Consumed
      <3>3. Overlap(r, q)
        BY <2>1, <2>3, <2>5, <3>2 DEF Consumed
      <3>4. Home(q) = Home(c)
        BY <2>1, <2>2, <2>3, <2>5 DEF Consumed, CarriedInv
      <3> QED
        BY <2>3, <3>3, <3>4
    <2> QED
      BY <2>3, <2>4, <2>5 DEF Expired
  <1> QED
    BY <1>1, BrowserInductive, PTL

\* The token a browser has is usable, unless the request that closed its
\* session failed or its answer has not arrived.
THEOREM CookieStaysUsable == BrowserSpec => []CookieUsable
  <1>1. BrowserInv => CookieUsable
    <2>1. SUFFICES ASSUME BrowserInv, NEW b \in Browsers, NEW c, c = cookie[b].token,
                          c # NoOne, session[c].revoked, NEW q, q = closedBy[c],
                          Arrived(q), reply[q] = "ok"
                   PROVE  FALSE
      BY DEF CookieUsable, Arrived
    <2> USE DEF BrowserInv, ClientInv
    <2>2. c \in Requests /\ Exists(c) /\ Home(c) = b
      BY <2>1 DEF BrowserTypeOK, CookieInv, Known, Delivered
    <2>3. q \in Requests /\ (audit[q] = "REUSE_DETECTED" \/ Consumed(q, c))
      BY <2>1, <2>2 DEF ClosedInv, ClosedOK
    <2>4. audit[q] # "REUSE_DETECTED"
      BY <2>1, <2>3 DEF TargetInv, TargetOK
    <2>5. carried[q] = c
      BY <2>3, <2>4 DEF Consumed
    <2>6. Home(q) = b
      BY <2>1, <2>2, <2>3, <2>5 DEF CarriedInv
    <2> QED
      BY <2>1, <2>3, <2>5, <2>6 DEF Presented
  <1> QED
    BY <1>1, BrowserInductive, PTL

\* A logout that succeeded has ended its login: the session it closed was the
\* last of the login, or nothing of it was left, unless requests overlapped or
\* another login had taken the cookie.
THEOREM LogoutEndsLogin == BrowserSpec => []LogoutEnds
  <1>1. BrowserInv => LogoutEnds
    <2>1. SUFFICES ASSUME BrowserInv, NEW q \in Requests, Endpoint[q] = "logout",
                          reply[q] = "ok", NEW root, root = Root(left[q]),
                          NEW s \in Delivered, Live(s), Root(s) = root,
                          Clean(root), root \notin displaced
                   PROVE  Expired(session[s])
      BY DEF LogoutEnds, Root, Clean, Family
    <2> USE DEF BrowserInv, ClientInv
    <2>2. Sent(q)
      BY <2>1 DEF RouteInv, RouteOK, IInv, HandlerInv, HandlerOK
    <2>3. root \in Requests
      BY <2>1, <2>2, LeftFacts
    <2>4. NothingUsable(q, root)
      BY <2>1, <2>2, <2>3 DEF LogoutInv, LogoutOK
    <2>5. s \in Requests /\ Exists(s) /\ reply[s] = "ok" /\ s \in Family(root)
      BY <2>1 DEF Delivered, Family
    <2>6. CASE carried[q] \notin Family(root)
      BY <2>1, <2>4, <2>5, <2>6 DEF NothingUsable
    <2>7. CASE carried[q] \in Family(root)
      <3>1. PICK c \in Requests : c = carried[q] /\ Exists(c) /\ Root(c) = root
        BY <2>7 DEF Family
      <3>2. session[c].revoked /\ s # c
        BY <2>1, <3>1 DEF TargetInv, TargetOK, Live
      <3>3. ASSUME NEW x \in Requests, NEW y \in Requests, Exists(y), Parent(y) = x
            PROVE  carried[y] = x /\ Endpoint[y] = "refresh" /\ session[x].revoked
                     /\ Root(y) = Root(x)
        BY <2>1, <3>3 DEF IssueInv, IssueOK
      <3>4. Childless(s)
        BY <2>1, <2>5, <3>3 DEF Childless, Live
      <3>5. PICK y \in Requests : Exists(y) /\ Parent(y) = c
        BY <2>1, <2>5, <3>1, <3>2, <3>4 DEF OneTip, Childless
      <3>6. carried[y] = c /\ Endpoint[y] = "refresh" /\ Root(y) = root
        BY <3>1, <3>3, <3>5
      <3>7. ~Overlap(y, q)
        BY <2>1, <3>5, <3>6, CleanApart DEF Family
      <3>8. Failed(y)
        BY <2>1, <3>1, <3>5, <3>6, <3>7 DEF PresentedOnce, Failed
      <3>9. Childless(y)
        <4>1. SUFFICES ASSUME NEW z \in Requests, Exists(z), Parent(z) = y PROVE FALSE
          BY DEF Childless
        <4>2. Known(y)
          BY <2>1, <3>3, <3>5, <4>1 DEF CarriedInv
        <4> QED
          BY <3>8, <4>2 DEF Known, Delivered, Failed
      <3>10. s = y
        BY <2>1, <2>5, <3>4, <3>5, <3>6, <3>9 DEF OneTip
      <3> QED
        BY <2>5, <3>8, <3>10 DEF Failed
    <2> QED
      BY <2>6, <2>7
  <1> QED
    BY <1>1, BrowserInductive, PTL
=============================================================================

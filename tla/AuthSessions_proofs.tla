------------------------- MODULE AuthSessions_proofs -------------------------
(***************************************************************************)
(* Proofs about AuthSessions, for any sets of users and requests and any   *)
(* lifetimes.                                                              *)
(***************************************************************************)
EXTENDS AuthSessions, TLAPS

USE NoOneAssumption, EndpointAssumption, TimeAssumption

-----------------------------------------------------------------------------
(* The inductive invariant *)

NotResetLabels == Labels \ {"start", "done", "reset_read", "reset_commit", "reset_audit"}

\* A handler is where its route leads, is unanswered until it is done, and
\* works on a row and a user that exist.
HandlerOK(r) ==
  /\ pc[r] \in NotResetLabels => Endpoint[r] # "reset"
  /\ pc[r] # "done" => reply[r] = "none"
  /\ pc[r] \notin {"start", "done"} \/ loc[r].known # {} => loc[r].user \in Users
  /\ pc[r] \in {"refresh_rotate", "expired_revoke", "logout_revoke"} =>
       /\ loc[r].target \in Requests
       /\ session[loc[r].target].user = loc[r].user
  /\ pc[r] \in {"reset_read", "reset_commit"} => loc[r].target \in Requests
HandlerInv == \A r \in Requests : HandlerOK(r)

\* The row a request creates is absent until it does; roots and replaced rows
\* are there; a mailed token belongs to a user.
RowOK(s) ==
  /\ pc[s] \in {"start", "login_create", "refresh_rotate"} => ~Exists(s)
  /\ Exists(s) => lineage[s].root \in Requests /\ Exists(lineage[s].root)
  /\ session[s].replacedBy # NoOne => Exists(s)
  /\ s \in outbox => resetToken[s].user \in Users
RowInv == \A s \in Requests : RowOK(s)

\* What a sweep knows is revoked, or about to be.
SweepOK(r) ==
  /\ pc[r] \in {"reuse_write", "reset_commit"} =>
       \A s \in loc[r].known :
         /\ session[s].user = loc[r].user
         /\ session[s].revoked \/ s \in loc[r].victims
  /\ pc[r] \in {"reuse_write", "reset_commit"} => loc[r].victims \subseteq loc[r].known
  /\ pc[r] = "reset_audit" =>
       \A s \in loc[r].known :
         session[s].revoked /\ session[s].user = loc[r].user
SweepInv == \A r \in Requests : SweepOK(r)

\* Passwords across the awaits of a rotation and of a running reset.
PasswordOK(r) ==
  /\ pc[r] = "refresh_rotate" =>
       /\ loc[r].hash <= password[loc[r].user]
       /\ (~lineage[loc[r].target].crossed /\ loc[r].hash = password[loc[r].user])
            => lineage[loc[r].target].cred = password[loc[r].user]
  /\ pc[r] = "reset_commit" =>
       \A s \in RowsOf(loc[r].user) :
         Live(s) /\ ~lineage[s].crossed => s \in loc[r].victims
PasswordInv == \A r \in Requests : PasswordOK(r)

\* The inductive invariant.
IInv ==
  /\ TypeOK
  /\ HandlerInv
  /\ RowInv
  /\ SweepInv
  /\ PasswordInv
  /\ RevocationReplyIsHonest
  /\ LiveSessionsMatchPassword
  /\ OneLiveSessionPerLogin
  /\ ReplacementChain

-----------------------------------------------------------------------------
(* The operators the actions are built from *)

\* Revoking rows changes no other column and no other row.
LEMMA RevokedFacts ==
  ASSUME session \in [Requests -> SessionRow], NEW rows
  PROVE  /\ Revoked(rows) \in [Requests -> SessionRow]
         /\ \A s \in Requests :
              /\ Revoked(rows)[s].user = session[s].user
              /\ Revoked(rows)[s].expiresAt = session[s].expiresAt
              /\ Revoked(rows)[s].replacedBy = session[s].replacedBy
              /\ Revoked(rows)[s].revoked <=> session[s].revoked \/ s \in rows
  BY DEF Revoked, SessionRow

\* A rotation inserts a usable row of the user and closes the old one.
LEMMA RotatedFacts ==
  ASSUME session \in [Requests -> SessionRow], now \in Nat,
         NEW old \in Requests, NEW new \in Requests, NEW u \in Users, old # new
  PROVE  /\ Rotated(old, new, u) \in [Requests -> SessionRow]
         /\ Rotated(old, new, u)[new] = NewSession(u)
         /\ Rotated(old, new, u)[old].user = session[old].user
         /\ Rotated(old, new, u)[old].expiresAt = session[old].expiresAt
         /\ Rotated(old, new, u)[old].revoked
         /\ Rotated(old, new, u)[old].replacedBy = new
         /\ \A s \in Requests \ {old, new} : Rotated(old, new, u)[s] = session[s]
  <1> DEFINE row == [session[old] EXCEPT !.revoked = TRUE, !.replacedBy = new]
  <1>1. NewSession(u) \in SessionRow
    BY DEF NewSession, SessionRow
  <1>2. /\ row \in SessionRow
        /\ row.user = session[old].user
        /\ row.expiresAt = session[old].expiresAt
        /\ row.revoked
        /\ row.replacedBy = new
    BY DEF SessionRow
  <1>3. Rotated(old, new, u) =
          [session EXCEPT ![new] = NewSession(u), ![old] = row]
    BY DEF Rotated, SessionRow
  <1> HIDE DEF row
  <1> QED
    BY <1>1, <1>2, <1>3

\* A new row is usable, unlinked, and expires within the bound of the clock.
LEMMA NewSessionFacts ==
  ASSUME now \in 0 .. MaxTime, NEW u \in Users
  PROVE  /\ NewSession(u) \in SessionRow
         /\ NewSession(u).user = u
         /\ ~NewSession(u).revoked
         /\ NewSession(u).replacedBy = NoOne
         /\ NewSession(u).expiresAt <= MaxTime + SessionTTL
  BY DEF NewSession, SessionRow

\* A lookup keeps the row it read and the password in force.
LEMMA ReadFacts ==
  ASSUME loc \in [Requests -> Locals], password \in [Users -> Nat],
         NEW r \in Requests, NEW u \in Users, NEW target \in Requests \cup {NoOne},
         Read(r, u, target)
  PROVE  /\ loc' \in [Requests -> Locals]
         /\ loc'[r].user = u
         /\ loc'[r].target = target
         /\ loc'[r].hash = password[u]
         /\ \A x \in Requests \ {r} : loc'[x] = loc[x]
  BY DEF Read, Locals

\* A sweep keeps the rows it picked, and changes no other local.
LEMMA PickFacts ==
  ASSUME loc \in [Requests -> Locals], NEW r \in Requests, PickRows(r)
  PROVE  /\ loc' \in [Requests -> Locals]
         /\ loc'[r].user = loc[r].user
         /\ loc'[r].target = loc[r].target
         /\ loc'[r].hash = loc[r].hash
         /\ loc'[r].victims = SweepRows(loc[r].user)
         /\ loc'[r].known = RowsOf(loc[r].user)
         /\ \A x \in Requests \ {r} : loc'[x] = loc[x]
  <1>1. SweepRows(loc[r].user) \subseteq Requests /\ RowsOf(loc[r].user) \subseteq Requests
    BY DEF SweepRows, RowsOf
  <1>2. loc[r] \in Locals
    OBVIOUS
  <1> QED
    BY <1>1, <1>2 DEF PickRows, Locals

-----------------------------------------------------------------------------
(* Type correctness *)

\* The initial tables and handlers are well typed.
LEMMA InitType == Init => TypeOK
  BY DEF Init, TypeOK, SessionRow, NoSession, TokenRow, NoToken, Locals,
         NoLocals, Lineage, NoLineage, Labels, Replies

\* A request that arrives reads well-typed rows and goes to a known label.
LEMMA ArriveType ==
  ASSUME TypeOK, RowInv, NEW r \in Requests, Arrive(r)
  PROVE  TypeOK'
  <1> USE DEF TypeOK, Goto, Answer, StartsAt, database, history
  <1>1. CASE LoginRejected(r)
    BY <1>1 DEF LoginRejected, Labels, Replies
  <1>2. ASSUME NEW u \in Users, LoginLookup(r, u) PROVE TypeOK'
    BY <1>2, ReadFacts DEF LoginLookup, Labels
  <1>3. CASE RefreshUnknown(r)
    BY <1>3 DEF RefreshUnknown, Labels, Replies
  <1>4. ASSUME NEW s \in Requests, RefreshLookup(r, s) PROVE TypeOK'
    BY <1>4, ReadFacts DEF RefreshLookup, RefreshBranch, Delivered, Exists, Labels, SessionRow
  <1>5. CASE LogoutNothing(r)
    BY <1>5 DEF LogoutNothing, Labels, Replies
  <1>6. ASSUME NEW s \in Requests, LogoutLookup(r, s) PROVE TypeOK'
    BY <1>6, ReadFacts DEF LogoutLookup, Delivered, Exists, Labels, SessionRow
  <1>7. CASE ForgotUnknown(r)
    BY <1>7 DEF ForgotUnknown, Labels, Replies
  <1>8. ASSUME NEW u \in Users, ForgotPassword(r, u) PROVE TypeOK'
    BY <1>8 DEF ForgotPassword, RecordAudit, NewToken, TokenRow, Actions, Labels, Replies
  <1>9. CASE ResetRejected(r)
    BY <1>9 DEF ResetRejected, Labels, Replies
  <1>10. ASSUME NEW t \in Requests, ResetLookup(r, t) PROVE TypeOK'
    BY <1>10, ReadFacts DEF ResetLookup, RowInv, RowOK, Mailed, Labels
  <1> QED
    BY <1>1, <1>2, <1>3, <1>4, <1>5, <1>6, <1>7, <1>8, <1>9, <1>10 DEF Arrive

\* A handler that continues writes well-typed rows.
LEMMA ContinueType ==
  ASSUME TypeOK, HandlerInv, RowInv, NEW r \in Requests, Continue(r)
  PROVE  TypeOK'
  <1> USE DEF TypeOK, Goto, Answer, RecordAudit, history
  <1>1. CASE LoginCreate(r)
    BY <1>1, NewSessionFacts DEF LoginCreate, HandlerInv, HandlerOK, CrossedNow, ResetRunning, Lineage, Locals, Labels
  <1>2. CASE LoginAudit(r)
    BY <1>2 DEF LoginAudit, Actions, Labels, Replies
  <1>3. CASE RefreshRotate(r)
    <2> DEFINE old == loc[r].target
    <2>1. /\ old \in Requests /\ old # r /\ loc[r].user \in Users
          /\ lineage[old].root \in Requests
      BY <1>3 DEF RefreshRotate, HandlerInv, HandlerOK, RowInv, RowOK, Exists
    <2>2. session' = Rotated(old, r, loc[r].user)
      BY <1>3 DEF RefreshRotate
    <2> HIDE DEF old
    <2>3. /\ session' \in [Requests -> SessionRow]
          /\ \A s \in Requests : session'[s].expiresAt <= MaxTime + SessionTTL
      <3>1. now \in Nat /\ MaxTime + SessionTTL \in Nat
        OBVIOUS
      <3>2. session' \in [Requests -> SessionRow]
        BY <2>1, <2>2, <3>1, RotatedFacts
      <3>3. session'[r].expiresAt <= MaxTime + SessionTTL
        BY <2>1, <2>2, <3>1, NewSessionFacts, RotatedFacts
      <3>4. session'[old].expiresAt = session[old].expiresAt
        BY <2>1, <2>2, <3>1, RotatedFacts
      <3>5. \A s \in Requests \ {old, r} : session'[s] = session[s]
        BY <2>1, <2>2, <3>1, RotatedFacts
      <3> QED
        BY <2>1, <3>2, <3>3, <3>4, <3>5
    <2>4. lineage' \in [Requests -> Lineage] /\ forked' \subseteq Requests
      <3>1. CrossedNow(r) \in BOOLEAN
        BY DEF CrossedNow, ResetRunning
      <3>2. lineage[old] \in Lineage
        BY <2>1
      <3> QED
        BY <1>3, <2>1, <3>1, <3>2 DEF RefreshRotate, Lineage, old
    <2> QED
      BY <1>3, <2>3, <2>4 DEF RefreshRotate, Labels
  <1>4. CASE RefreshAudit(r)
    BY <1>4 DEF RefreshAudit, Actions, Labels, Replies
  <1>5. CASE ReuseAudit(r)
    BY <1>5 DEF ReuseAudit, Actions, Labels
  <1>6. CASE ReuseSweepRead(r)
    BY <1>6, PickFacts DEF ReuseSweepRead, Labels, database
  <1>7. CASE ReuseSweepWrite(r)
    BY <1>7, RevokedFacts DEF ReuseSweepWrite, Labels, Replies
  <1>8. CASE ExpiredRevoke(r)
    BY <1>8, RevokedFacts DEF ExpiredRevoke, Labels, Replies
  <1>9. CASE LogoutRevoke(r)
    BY <1>9, RevokedFacts DEF LogoutRevoke, Labels
  <1>10. CASE LogoutAudit(r)
    BY <1>10 DEF LogoutAudit, Actions, Labels, Replies
  <1>11. CASE ResetSweepRead(r)
    BY <1>11, PickFacts DEF ResetSweepRead, Labels, database
  <1>12. CASE ResetCommit(r)
    <2>1. loc[r].user \in Users /\ loc[r].target \in Requests
      BY <1>12 DEF ResetCommit, HandlerInv, HandlerOK
    <2>2. password' \in [Users -> Nat]
      BY <1>12, <2>1 DEF ResetCommit
    <2>3. resetToken' \in [Requests -> TokenRow]
      <3>1. resetToken[loc[r].target] \in TokenRow
        BY <2>1
      <3>2. [resetToken[loc[r].target] EXCEPT !.used = TRUE] \in TokenRow
        BY <3>1 DEF TokenRow
      <3> QED
        BY <1>12, <2>1, <3>2 DEF ResetCommit
    <2> QED
      BY <1>12, <2>2, <2>3, RevokedFacts DEF ResetCommit, Labels
  <1>13. CASE ResetAudit(r)
    BY <1>13 DEF ResetAudit, Actions, Labels, Replies
  <1> QED
    BY <1>1, <1>2, <1>3, <1>4, <1>5, <1>6, <1>7, <1>8, <1>9, <1>10, <1>11,
       <1>12, <1>13 DEF Continue

-----------------------------------------------------------------------------
(* What a step can do to the tables and to the other handlers *)

\* A step of one request leaves the other handlers where they are, and is
\* not taken by a request that is already answered.
LEMMA Frame ==
  ASSUME TypeOK, NEW r \in Requests, Arrive(r) \/ Continue(r) \/ AbortRequest(r)
  PROVE  /\ pc[r] # "done"
         /\ \A x \in Requests \ {r} :
              pc'[x] = pc[x] /\ loc'[x] = loc[x] /\ reply'[x] = reply[x]
  <1> USE DEF TypeOK, Goto, Answer, StartsAt, Read, PickRows
  <1>1. CASE Arrive(r)
    BY <1>1 DEF Arrive, LoginRejected, LoginLookup, RefreshUnknown, RefreshLookup,
         LogoutNothing, LogoutLookup, ForgotUnknown, ForgotPassword, ResetRejected,
         ResetLookup
  <1>2. CASE Continue(r)
    BY <1>2 DEF Continue, LoginCreate, LoginAudit, RefreshRotate, RefreshAudit,
         ReuseAudit, ReuseSweepRead, ReuseSweepWrite, ExpiredRevoke, LogoutRevoke,
         LogoutAudit, ResetSweepRead, ResetCommit, ResetAudit
  <1>3. CASE AbortRequest(r)
    BY <1>3 DEF AbortRequest
  <1> QED
    BY <1>1, <1>2, <1>3

\* The steps that write the session table.
LEMMA StoreStep ==
  ASSUME [Next]_vars
  PROVE  \/ UNCHANGED <<password, session, lineage, forked>>
         \/ \E r \in Requests : LoginCreate(r)
         \/ \E r \in Requests : RefreshRotate(r)
         \/ /\ \E rows : session' = Revoked(rows)
            /\ UNCHANGED <<password, lineage, forked>>
         \/ \E r \in Requests : ResetCommit(r)
  <1> USE DEF database, history
  <1>1. ASSUME NEW r \in Requests, Arrive(r)
        PROVE  UNCHANGED <<password, session, lineage, forked>>
    BY <1>1 DEF Arrive, LoginRejected, LoginLookup, RefreshUnknown, RefreshLookup,
         LogoutNothing, LogoutLookup, ForgotUnknown, ForgotPassword, ResetRejected,
         ResetLookup
  <1>2. ASSUME NEW r \in Requests, AbortRequest(r)
        PROVE  UNCHANGED <<password, session, lineage, forked>>
    BY <1>2 DEF AbortRequest
  <1>3. CASE Tick \/ UNCHANGED vars
    BY <1>3 DEF Tick, vars
  <1>4. ASSUME NEW r \in Requests,
               LoginAudit(r) \/ RefreshAudit(r) \/ ReuseAudit(r) \/ ReuseSweepRead(r)
                 \/ LogoutAudit(r) \/ ResetSweepRead(r) \/ ResetAudit(r)
        PROVE  UNCHANGED <<password, session, lineage, forked>>
    BY <1>4 DEF LoginAudit, RefreshAudit, ReuseAudit, ReuseSweepRead, LogoutAudit,
         ResetSweepRead, ResetAudit
  <1>5. ASSUME NEW r \in Requests,
               ReuseSweepWrite(r) \/ ExpiredRevoke(r) \/ LogoutRevoke(r)
        PROVE  /\ \E rows : session' = Revoked(rows)
               /\ UNCHANGED <<password, lineage, forked>>
    BY <1>5 DEF ReuseSweepWrite, ExpiredRevoke, LogoutRevoke
  <1> QED
    BY <1>1, <1>2, <1>3, <1>4, <1>5 DEF Next, Continue

\* What is known of a rotation when it commits, and what it leaves behind.
LEMMA RotationFacts ==
  ASSUME TypeOK, HandlerInv, RowInv, NEW r \in Requests, RefreshRotate(r)
  PROVE  /\ loc[r].user \in Users
         /\ loc[r].target \in Requests
         /\ loc[r].target # r
         /\ session[loc[r].target].user = loc[r].user
         /\ Exists(loc[r].target)
         /\ ~Exists(r)
         /\ session'[r].user = loc[r].user
         /\ ~session'[r].revoked
         /\ session'[r].replacedBy = NoOne
         /\ session'[loc[r].target].user = loc[r].user
         /\ session'[loc[r].target].revoked
         /\ session'[loc[r].target].replacedBy = r
         /\ \A s \in Requests \ {r, loc[r].target} : session'[s] = session[s]
  <1> DEFINE old == loc[r].target
             u == loc[r].user
  <1>1. /\ u \in Users /\ old \in Requests /\ old # r
        /\ session[old].user = u /\ Exists(old) /\ ~Exists(r)
    BY DEF TypeOK, RefreshRotate, HandlerInv, HandlerOK, RowInv, RowOK, Exists
  <1>2. session' = Rotated(old, r, u) /\ now \in Nat /\ now \in 0 .. MaxTime
    BY DEF RefreshRotate, TypeOK
  <1>3. session \in [Requests -> SessionRow]
    BY DEF TypeOK
  <1> HIDE DEF old, u
  <1>4. /\ session'[r] = NewSession(u)
        /\ session'[old].user = session[old].user
        /\ session'[old].revoked
        /\ session'[old].replacedBy = r
        /\ \A s \in Requests \ {r, old} : session'[s] = session[s]
    BY <1>1, <1>2, <1>3, RotatedFacts
  <1>5. /\ session'[r].user = u /\ ~session'[r].revoked
        /\ session'[r].replacedBy = NoOne
    BY <1>1, <1>2, <1>4, NewSessionFacts
  <1> QED
    BY <1>1, <1>4, <1>5 DEF old, u

\* A row that exists keeps its user and its history, and stays revoked once
\* it is.  A row appears by the commit of the request it is named after.
LEMMA RowsKept ==
  ASSUME TypeOK, HandlerInv, RowInv, [Next]_vars, NEW s \in Requests
  PROVE  /\ Exists(s) => /\ session'[s].user = session[s].user
                         /\ lineage'[s] = lineage[s]
         /\ session[s].revoked /\ Exists(s) => session'[s].revoked
         /\ Exists(s)' /\ ~Exists(s) => LoginCreate(s) \/ RefreshRotate(s)
  <1>1. CASE UNCHANGED <<password, session, lineage, forked>>
    BY <1>1 DEF Exists
  <1>2. ASSUME NEW r \in Requests, LoginCreate(r)
        PROVE  /\ ~Exists(r)
               /\ s # r => session'[s] = session[s] /\ lineage'[s] = lineage[s]
    BY <1>2 DEF LoginCreate, TypeOK, RowInv, RowOK
  <1>3. ASSUME NEW r \in Requests, RefreshRotate(r)
        PROVE  /\ ~Exists(r)
               /\ s # r => lineage'[s] = lineage[s]
               /\ s # r => session'[s].user = session[s].user
               /\ s # r /\ session[s].revoked => session'[s].revoked
    <2>1. \A x \in Requests \ {r} : lineage'[x] = lineage[x]
      BY <1>3 DEF RefreshRotate, TypeOK
    <2>2. s # r => session'[s].user = session[s].user
      BY <1>3, RotationFacts
    <2>3. s # r /\ session[s].revoked => session'[s].revoked
      BY <1>3, RotationFacts
    <2> QED
      BY <1>3, <2>1, <2>2, <2>3, RotationFacts
  <1>4. ASSUME NEW rows, session' = Revoked(rows)
        PROVE  /\ session'[s].user = session[s].user
               /\ session[s].revoked => session'[s].revoked
    BY <1>4, RevokedFacts DEF TypeOK
  <1>5. ASSUME NEW r \in Requests, ResetCommit(r)
        PROVE  session' = Revoked(loc[r].victims) /\ lineage' = lineage
    BY <1>5 DEF ResetCommit, history
  <1> QED
    BY <1>1, <1>2, <1>3, <1>4, <1>5, StoreStep DEF Exists

-----------------------------------------------------------------------------
(* The parts of the inductive invariant, one lemma each *)

\* The acting handler keeps HandlerInv: a request that arrives.
LEMMA HandlerArrive ==
  ASSUME TypeOK, HandlerInv, RowInv, NEW r \in Requests, Arrive(r)
  PROVE  HandlerOK(r)'
  <1> USE DEF TypeOK, Goto, Answer, StartsAt, HandlerOK, NotResetLabels, Labels,
              database, history
  <1>1. HandlerOK(r)
    BY DEF HandlerInv, HandlerOK
  <1>2. CASE LoginRejected(r) \/ RefreshUnknown(r) \/ LogoutNothing(r)
               \/ ForgotUnknown(r) \/ ResetRejected(r)
    BY <1>1, <1>2 DEF LoginRejected, RefreshUnknown, LogoutNothing, ForgotUnknown,
         ResetRejected
  <1>3. ASSUME NEW u \in Users, LoginLookup(r, u) PROVE HandlerOK(r)'
    BY <1>1, <1>3, ReadFacts DEF LoginLookup
  <1>4. ASSUME NEW s \in Requests, RefreshLookup(r, s) PROVE HandlerOK(r)'
    BY <1>1, <1>4, ReadFacts DEF RefreshLookup, RefreshBranch, Delivered, Exists, SessionRow
  <1>5. ASSUME NEW s \in Requests, LogoutLookup(r, s) PROVE HandlerOK(r)'
    BY <1>1, <1>5, ReadFacts DEF LogoutLookup, Delivered, Exists, SessionRow
  <1>6. ASSUME NEW u \in Users, ForgotPassword(r, u) PROVE HandlerOK(r)'
    BY <1>1, <1>6 DEF ForgotPassword
  <1>7. ASSUME NEW t \in Requests, ResetLookup(r, t) PROVE HandlerOK(r)'
    BY <1>1, <1>7, ReadFacts DEF ResetLookup, Mailed, RowInv, RowOK
  <1> QED
    BY <1>2, <1>3, <1>4, <1>5, <1>6, <1>7 DEF Arrive

\* The acting handler keeps HandlerInv: a handler that continues.
LEMMA HandlerContinue ==
  ASSUME TypeOK, HandlerInv, NEW r \in Requests, Continue(r)
  PROVE  HandlerOK(r)'
  <1> USE DEF TypeOK, Goto, Answer, HandlerOK, NotResetLabels, Labels
  <1>1. HandlerOK(r)
    BY DEF HandlerInv, HandlerOK
  <1>2. CASE LoginCreate(r) \/ RefreshRotate(r) \/ ReuseAudit(r)
               \/ LogoutRevoke(r) \/ ResetCommit(r)
    BY <1>1, <1>2 DEF LoginCreate, RefreshRotate, ReuseAudit, LogoutRevoke, ResetCommit
  <1>3. CASE LoginAudit(r) \/ RefreshAudit(r) \/ ReuseSweepWrite(r) \/ ExpiredRevoke(r)
               \/ LogoutAudit(r) \/ ResetAudit(r)
    BY <1>1, <1>3 DEF LoginAudit, RefreshAudit, ReuseSweepWrite, ExpiredRevoke,
         LogoutAudit, ResetAudit
  <1>4. CASE ReuseSweepRead(r)
    BY <1>1, <1>4, PickFacts DEF ReuseSweepRead
  <1>5. CASE ResetSweepRead(r)
    BY <1>1, <1>5, PickFacts DEF ResetSweepRead
  <1> QED
    BY <1>2, <1>3, <1>4, <1>5 DEF Continue

\* A handler is moved only by its own step, which leads where its route does.
LEMMA HandlerStep ==
  ASSUME TypeOK, HandlerInv, RowInv, [Next]_vars
  PROVE  HandlerInv'
  <1>1. SUFFICES ASSUME NEW x \in Requests PROVE HandlerOK(x)'
    BY DEF HandlerInv, HandlerOK
  <1>2. HandlerOK(x)
    BY DEF HandlerInv, HandlerOK
  <1>3. \A s \in Requests : session[s].user \in Users => session'[s].user = session[s].user
    BY RowsKept DEF Exists
  <1>4. ASSUME pc'[x] = pc[x], loc'[x] = loc[x], reply'[x] = reply[x]
        PROVE  HandlerOK(x)'
    BY <1>2, <1>3, <1>4 DEF HandlerOK
  <1>5. CASE Tick \/ UNCHANGED vars
    BY <1>4, <1>5 DEF Tick, vars
  <1>6. ASSUME NEW r \in Requests, Arrive(r) \/ Continue(r) \/ AbortRequest(r)
        PROVE  HandlerOK(x)'
    <2>1. CASE x # r
      BY <1>4, <1>6, <2>1, Frame
    <2>2. CASE x = r /\ AbortRequest(r)
      BY <1>2, <2>2 DEF AbortRequest, Answer, HandlerOK, NotResetLabels, TypeOK
    <2> QED
      BY <1>6, <2>1, <2>2, HandlerArrive, HandlerContinue
  <1> QED
    BY <1>5, <1>6 DEF Next

\* Which steps move a request to the labels before its row is created.
LEMMA BeforeCreate ==
  ASSUME TypeOK, [Next]_vars, NEW s \in Requests,
         pc'[s] \in {"start", "login_create", "refresh_rotate"}
  PROVE  \/ /\ pc[s] \in {"start", "login_create", "refresh_rotate"}
            /\ session'[s] = session[s]
         \/ \E x \in Requests \ {s} : Arrive(x) \/ Continue(x) \/ AbortRequest(x)
  <1> USE DEF TypeOK, Goto, Answer, StartsAt, database
  <1>1. CASE Tick \/ UNCHANGED vars
    BY <1>1 DEF Tick, vars
  <1>2. CASE Arrive(s)
    BY <1>2 DEF Arrive, LoginRejected, LoginLookup, RefreshUnknown, RefreshLookup,
         LogoutNothing, LogoutLookup, ForgotUnknown, ForgotPassword, ResetRejected,
         ResetLookup
  <1>3. CASE Continue(s)
    BY <1>3 DEF Continue, LoginCreate, LoginAudit, RefreshRotate, RefreshAudit,
         ReuseAudit, ReuseSweepRead, ReuseSweepWrite, ExpiredRevoke, LogoutRevoke,
         LogoutAudit, ResetSweepRead, ResetCommit, ResetAudit
  <1>4. CASE AbortRequest(s)
    BY <1>4 DEF AbortRequest
  <1> QED
    BY <1>1, <1>2, <1>3, <1>4 DEF Next

\* Reset tokens keep their user once mailed, and are mailed with one.
LEMMA MailedStep ==
  ASSUME TypeOK, RowInv, [Next]_vars, NEW t \in Requests, t \in outbox'
  PROVE  resetToken'[t].user \in Users
  <1> USE DEF TypeOK, database
  <1>1. t \in outbox => resetToken[t].user \in Users
    BY DEF RowInv, RowOK
  <1>2. CASE UNCHANGED <<outbox, resetToken>>
    BY <1>1, <1>2
  <1>3. ASSUME NEW r \in Requests, NEW u \in Users, ForgotPassword(r, u)
        PROVE  resetToken'[t].user \in Users
    BY <1>1, <1>3 DEF ForgotPassword, NewToken
  <1>4. ASSUME NEW r \in Requests, ResetCommit(r)
        PROVE  resetToken'[t].user \in Users
    <2>1. resetToken'[t].user = resetToken[t].user
      BY <1>4 DEF ResetCommit, TokenRow
    <2> QED
      BY <1>1, <1>4, <2>1 DEF ResetCommit
  <1>5. ASSUME NEW r \in Requests, Arrive(r)
        PROVE  \/ UNCHANGED <<outbox, resetToken>>
               \/ \E u \in Users : ForgotPassword(r, u)
    BY <1>5 DEF Arrive, LoginRejected, LoginLookup, RefreshUnknown, RefreshLookup,
         LogoutNothing, LogoutLookup, ForgotUnknown, ResetRejected, ResetLookup
  <1>6. ASSUME NEW r \in Requests, Continue(r)
        PROVE  UNCHANGED <<outbox, resetToken>> \/ ResetCommit(r)
    BY <1>6 DEF Continue, LoginCreate, LoginAudit, RefreshRotate, RefreshAudit,
         ReuseAudit, ReuseSweepRead, ReuseSweepWrite, ExpiredRevoke, LogoutRevoke,
         LogoutAudit, ResetSweepRead, ResetAudit
  <1>7. ASSUME NEW r \in Requests, AbortRequest(r)
        PROVE  UNCHANGED <<outbox, resetToken>>
    BY <1>7 DEF AbortRequest
  <1>8. CASE Tick \/ UNCHANGED vars
    BY <1>1, <1>8 DEF Tick, vars
  <1>9. ASSUME NEW r \in Requests, Arrive(r) PROVE resetToken'[t].user \in Users
    BY <1>2, <1>3, <1>5, <1>9
  <1>10. ASSUME NEW r \in Requests, Continue(r) PROVE resetToken'[t].user \in Users
    BY <1>2, <1>4, <1>6, <1>10
  <1> QED
    BY <1>2, <1>7, <1>8, <1>9, <1>10 DEF Next

\* A row appears with the request that creates it, under a root that exists.
LEMMA RowStep ==
  ASSUME TypeOK, HandlerInv, RowInv, [Next]_vars
  PROVE  RowInv'
  <1>1. SUFFICES ASSUME NEW s \in Requests PROVE RowOK(s)'
    BY DEF RowInv
  <1>2. RowOK(s)
    BY DEF RowInv
  <1>3. pc'[s] \in {"start", "login_create", "refresh_rotate"} => ~Exists(s)'
    <2>1. SUFFICES ASSUME pc'[s] \in {"start", "login_create", "refresh_rotate"}
                   PROVE  ~Exists(s)'
      OBVIOUS
    <2>2. ~LoginCreate(s) /\ ~RefreshRotate(s)
      BY <2>1 DEF LoginCreate, RefreshRotate, Goto, TypeOK
    <2>3. pc[s] \in {"start", "login_create", "refresh_rotate"}
      BY <2>1, BeforeCreate, Frame
    <2> QED
      BY <1>2, <2>2, <2>3, RowsKept DEF RowOK
  <1>4. (Exists(s) => lineage[s].root \in Requests /\ Exists(lineage[s].root))'
    <2>1. CASE Exists(s)
      <3>1. lineage'[s] = lineage[s]
        BY <2>1, RowsKept
      <3>2. \A x \in Requests : Exists(x) => Exists(x)'
        BY RowsKept DEF Exists
      <3> QED
        BY <1>2, <2>1, <3>1, <3>2 DEF RowOK, Exists
    <2>2. CASE LoginCreate(s)
      BY <2>2, NewSessionFacts DEF LoginCreate, NewSession, Exists, TypeOK, HandlerInv, HandlerOK
    <2>3. CASE RefreshRotate(s)
      <3>1. lineage'[s].root = lineage[loc[s].target].root
        BY <2>3 DEF RefreshRotate, TypeOK
      <3>2. /\ lineage[loc[s].target].root \in Requests
            /\ Exists(lineage[loc[s].target].root)
        BY <2>3, RotationFacts DEF RowInv, RowOK
      <3>3. \A x \in Requests : Exists(x) => Exists(x)'
        BY RowsKept DEF Exists
      <3> QED
        BY <3>1, <3>2, <3>3 DEF Exists
    <2> QED
      BY <2>1, <2>2, <2>3, RowsKept
  <1>5. session'[s].replacedBy # NoOne => Exists(s)'
    <2>1. CASE UNCHANGED <<password, session, lineage, forked>>
      BY <1>2, <2>1 DEF RowOK, Exists
    <2>2. ASSUME NEW r \in Requests, LoginCreate(r)
          PROVE  session'[s].replacedBy # NoOne => Exists(s)'
      BY <1>2, <2>2 DEF LoginCreate, NewSession, RowOK, Exists, TypeOK
    <2>3. ASSUME NEW r \in Requests, RefreshRotate(r)
          PROVE  session'[s].replacedBy # NoOne => Exists(s)'
      <3>1. s \in {r, loc[r].target} => Exists(s)'
        BY <2>3, RotationFacts DEF Exists
      <3> QED
        BY <1>2, <2>3, <3>1, RotationFacts DEF RowOK, Exists
    <2>4. ASSUME NEW rows, session' = Revoked(rows)
          PROVE  session'[s].replacedBy # NoOne => Exists(s)'
      BY <1>2, <2>4, RevokedFacts DEF RowOK, Exists, TypeOK
    <2>5. ASSUME NEW r \in Requests, ResetCommit(r)
          PROVE  session' = Revoked(loc[r].victims)
      BY <2>5 DEF ResetCommit
    <2> QED
      BY <2>1, <2>2, <2>3, <2>4, <2>5, StoreStep
  <1> QED
    BY <1>3, <1>4, <1>5, MailedStep DEF RowOK

\* What a handler knows of a row that exists survives the steps of others.
LEMMA KnownStays ==
  ASSUME TypeOK, HandlerInv, RowInv, [Next]_vars, NEW s \in Requests, NEW u \in Users,
         session[s].user = u
  PROVE  session'[s].user = u /\ (session[s].revoked => session'[s].revoked)
  BY RowsKept DEF Exists

\* What a sweep knows of is revoked or still on its list: a new session of the
\* user is a row it does not know of.
LEMMA SweepStep ==
  ASSUME TypeOK, HandlerInv, RowInv, SweepInv, [Next]_vars
  PROVE  SweepInv'
  <1>1. SUFFICES ASSUME NEW x \in Requests PROVE SweepOK(x)'
    BY DEF SweepInv
  <1>2. SweepOK(x) /\ HandlerOK(x)
    BY DEF SweepInv, HandlerInv
  <1>3. loc[x].known \subseteq Requests /\ loc[x].victims \subseteq Requests
    BY DEF TypeOK, Locals
  <1>4. ASSUME pc'[x] = pc[x], loc'[x] = loc[x] PROVE SweepOK(x)'
    BY <1>2, <1>3, <1>4, KnownStays DEF SweepOK, HandlerOK
  <1>5. ASSUME pc'[x] \notin {"reuse_write", "reset_commit", "reset_audit"}
        PROVE  SweepOK(x)'
    BY <1>5 DEF SweepOK
  <1>6. CASE Tick \/ UNCHANGED vars
    BY <1>4, <1>6 DEF Tick, vars
  <1>7. ASSUME NEW r \in Requests, Arrive(r) \/ Continue(r) \/ AbortRequest(r), x # r
        PROVE  SweepOK(x)'
    BY <1>4, <1>7, Frame
  <1>8. CASE Arrive(x) \/ AbortRequest(x)
    <2>1. pc'[x] \notin {"reuse_write", "reset_commit", "reset_audit"}
      BY <1>8 DEF Arrive, LoginRejected, LoginLookup, RefreshUnknown, RefreshLookup,
           RefreshBranch, LogoutNothing, LogoutLookup, ForgotUnknown, ForgotPassword,
           ResetRejected, ResetLookup, AbortRequest, Goto, Answer, TypeOK
    <2> QED
      BY <1>5, <2>1
  <1>9. CASE ReuseSweepRead(x) \/ ResetSweepRead(x)
    <2>1. PickRows(x) /\ pc'[x] \in {"reuse_write", "reset_commit"} /\ session' = session
      BY <1>9 DEF ReuseSweepRead, ResetSweepRead, Goto, TypeOK, database
    <2>2. /\ loc'[x].user = loc[x].user
          /\ loc'[x].victims = SweepRows(loc[x].user)
          /\ loc'[x].known = RowsOf(loc[x].user)
      BY <2>1, PickFacts DEF TypeOK
    <2>3. loc[x].user \in Users
      BY <1>2, <1>9 DEF ReuseSweepRead, ResetSweepRead, HandlerOK
    <2> QED
      BY <2>1, <2>2, <2>3 DEF SweepOK, SweepRows, RowsOf, Live, Exists
  <1>10. CASE ResetCommit(x)
    <2>1. pc[x] = "reset_commit" /\ pc'[x] = "reset_audit" /\ loc'[x] = loc[x]
      BY <1>10 DEF ResetCommit, Goto, TypeOK
    <2>2. session' = Revoked(loc[x].victims)
      BY <1>10 DEF ResetCommit
    <2>3. \A s \in loc[x].known : session'[s].revoked /\ session'[s].user = loc[x].user
      BY <1>2, <1>3, <2>1, <2>2, RevokedFacts DEF SweepOK, TypeOK
    <2> QED
      BY <2>1, <2>3 DEF SweepOK
  <1>11. CASE Continue(x) /\ ~ReuseSweepRead(x) /\ ~ResetSweepRead(x) /\ ~ResetCommit(x)
    <2>1. pc'[x] \notin {"reuse_write", "reset_commit", "reset_audit"}
      BY <1>11 DEF Continue, LoginCreate, LoginAudit, RefreshRotate, RefreshAudit,
           ReuseAudit, ReuseSweepWrite, ExpiredRevoke, LogoutRevoke, LogoutAudit,
           ResetAudit, Goto, Answer, TypeOK
    <2> QED
      BY <1>5, <2>1
  <1> QED
    BY <1>6, <1>7, <1>8, <1>9, <1>10, <1>11 DEF Next

\* A reuse report is answered only after its sweep has closed what it knew of.
LEMMA HonestStep ==
  ASSUME TypeOK, HandlerInv, RowInv, SweepInv, RevocationReplyIsHonest, [Next]_vars
  PROVE  RevocationReplyIsHonest'
  <1>1. SUFFICES ASSUME NEW x \in Requests PROVE HonestReply(x)'
    BY DEF RevocationReplyIsHonest
  <1>2. HonestReply(x) /\ SweepOK(x) /\ HandlerOK(x)
    BY DEF RevocationReplyIsHonest, SweepInv, HandlerInv
  <1>3. loc[x].known \subseteq Requests
    BY DEF TypeOK, Locals
  <1>4. ASSUME reply'[x] = reply[x], loc'[x] = loc[x]
        PROVE  HonestReply(x)'
    <2>1. SUFFICES ASSUME reply[x] = "reuse" \/ (reply[x] = "ok" /\ Endpoint[x] = "reset"),
                          NEW s \in loc[x].known
                   PROVE  session'[s].revoked /\ session'[s].user = loc[x].user
      BY <1>4 DEF HonestReply
    <2>2. session[s].revoked /\ session[s].user = loc[x].user /\ loc[x].user \in Users
      BY <1>2, <2>1 DEF HonestReply, HandlerOK
    <2> QED
      BY <1>3, <2>2, KnownStays
  <1>5. ASSUME reply'[x] # "reuse", reply'[x] = "ok" => Endpoint[x] # "reset"
        PROVE  HonestReply(x)'
    BY <1>5 DEF HonestReply
  <1>6. CASE Tick \/ UNCHANGED vars
    BY <1>4, <1>6 DEF Tick, vars
  <1>7. ASSUME NEW r \in Requests, Arrive(r) \/ Continue(r) \/ AbortRequest(r), x # r
        PROVE  HonestReply(x)'
    BY <1>4, <1>7, Frame
  <1>8. CASE Arrive(x) \/ AbortRequest(x)
    <2>1. pc[x] # "done" /\ reply[x] = "none"
      BY <1>2, <1>8, Frame DEF HandlerOK
    <2>2. \/ reply'[x] \in {"none", "rejected", "error"}
          \/ reply'[x] = "ok" /\ Endpoint[x] # "reset"
      BY <1>8, <2>1 DEF Arrive, LoginRejected, LoginLookup, RefreshUnknown, RefreshLookup,
           LogoutNothing, LogoutLookup, ForgotUnknown, ForgotPassword, ResetRejected,
           ResetLookup, AbortRequest, Answer, StartsAt, TypeOK
    <2> QED
      BY <1>5, <2>2
  <1>9. CASE Continue(x) /\ ~ReuseSweepWrite(x) /\ ~ResetAudit(x)
    <2>1. pc[x] # "done" /\ reply[x] = "none"
      BY <1>2, <1>9, Frame DEF HandlerOK
    <2>2. \/ reply'[x] \in {"none", "rejected", "error"}
          \/ reply'[x] = "ok" /\ Endpoint[x] # "reset"
      BY <1>2, <1>9, <2>1 DEF Continue, LoginCreate, LoginAudit, RefreshRotate,
           RefreshAudit, ReuseAudit, ReuseSweepRead, ExpiredRevoke, LogoutRevoke,
           LogoutAudit, ResetSweepRead, ResetCommit, Answer, TypeOK, HandlerOK,
           NotResetLabels, Labels
    <2> QED
      BY <1>5, <2>2
  <1>10. CASE ReuseSweepWrite(x)
    <2>1. loc' = loc /\ session' = Revoked(loc[x].victims) /\ pc[x] = "reuse_write"
      BY <1>10 DEF ReuseSweepWrite
    <2>2. \A s \in loc[x].known : session'[s].revoked /\ session'[s].user = loc[x].user
      BY <1>2, <1>3, <2>1, RevokedFacts DEF SweepOK, TypeOK
    <2> QED
      BY <2>1, <2>2 DEF HonestReply
  <1>11. CASE ResetAudit(x)
    BY <1>2, <1>11 DEF ResetAudit, SweepOK, HonestReply
  <1> QED
    BY <1>6, <1>7, <1>8, <1>9, <1>10, <1>11 DEF Next

\* History of a row that appears: it is crossed if a reset of its user is in
\* progress, and otherwise has the password in force.
LEMMA IssueFacts ==
  ASSUME TypeOK, HandlerInv, RowInv, PasswordInv, NEW s \in Requests,
         LoginCreate(s) \/ RefreshRotate(s)
  PROVE  /\ session'[s].user = loc[s].user
         /\ ResetRunning(loc[s].user) => lineage'[s].crossed
         /\ ~lineage'[s].crossed => lineage'[s].cred = password[loc[s].user]
         /\ UNCHANGED <<password, loc>>
  <1>1. CASE LoginCreate(s)
    <2>1. session'[s].user = loc[s].user
      BY <1>1, NewSessionFacts DEF LoginCreate, TypeOK, HandlerInv, HandlerOK
    <2>2. lineage'[s].crossed = CrossedNow(s) /\ lineage'[s].cred = loc[s].hash
      BY <1>1 DEF LoginCreate, TypeOK
    <2> QED
      BY <1>1, <2>1, <2>2 DEF CrossedNow, LoginCreate
  <1>2. CASE RefreshRotate(s)
    <2>1. session'[s].user = loc[s].user
      BY <1>2, RotationFacts
    <2>2. /\ lineage'[s].crossed = (lineage[loc[s].target].crossed \/ CrossedNow(s))
          /\ lineage'[s].cred = lineage[loc[s].target].cred
      BY <1>2 DEF RefreshRotate, TypeOK
    <2>3. PasswordOK(s) /\ pc[s] = "refresh_rotate"
      BY <1>2 DEF PasswordInv, RefreshRotate
    <2> QED
      BY <1>2, <2>1, <2>2, <2>3 DEF CrossedNow, PasswordOK, RefreshRotate
  <1> QED
    BY <1>1, <1>2

\* The password of a user only grows, and only by a reset of that user.
LEMMA PasswordGrows ==
  ASSUME TypeOK, HandlerInv, [Next]_vars, NEW u \in Users
  PROVE  /\ password[u] <= password'[u]
         /\ \A r \in Requests :
              ResetCommit(r) => password' = [password EXCEPT ![loc[r].user] = @ + 1]
         /\ (\A r \in Requests : ~ResetCommit(r)) => password' = password
  <1>1. ASSUME NEW r \in Requests, ResetCommit(r)
        PROVE  password[u] <= password'[u]
    BY <1>1 DEF ResetCommit, TypeOK
  <1>2. (\A r \in Requests : ~ResetCommit(r)) => password' = password
    BY StoreStep DEF LoginCreate, RefreshRotate
  <1> QED
    BY <1>1, <1>2 DEF ResetCommit, TypeOK

\* A lookup or a pick establishes what its handler needs of the passwords.
LEMMA PasswordActor ==
  ASSUME TypeOK, HandlerInv, RowInv, PasswordInv, LiveSessionsMatchPassword,
         NEW x \in Requests, Arrive(x) \/ Continue(x) \/ AbortRequest(x)
  PROVE  PasswordOK(x)'
  <1> USE DEF TypeOK
  <1>1. ASSUME pc'[x] \notin {"refresh_rotate", "reset_commit"} PROVE PasswordOK(x)'
    BY <1>1 DEF PasswordOK
  <1>2. ASSUME NEW s \in Requests, RefreshLookup(x, s) PROVE PasswordOK(x)'
    <2>1. CASE pc'[x] = "refresh_rotate"
      <3>1. Exists(s) /\ ~session[s].revoked /\ session[s].user \in Users
        BY <1>2, <2>1 DEF RefreshLookup, RefreshBranch, Delivered, Goto, Exists, SessionRow
      <3>2. /\ loc'[x].user = session[s].user /\ loc'[x].target = s
            /\ loc'[x].hash = password[session[s].user]
        BY <1>2, <3>1, ReadFacts DEF RefreshLookup
      <3>3. ~lineage[s].crossed => lineage[s].cred = password[session[s].user]
        BY <3>1 DEF LiveSessionsMatchPassword, Live
      <3>4. password' = password /\ lineage' = lineage
        BY <1>2 DEF RefreshLookup, database, history
      <3>5. password[session[s].user] \in Nat
        BY <3>1
      <3> QED
        BY <2>1, <3>2, <3>3, <3>4, <3>5 DEF PasswordOK
    <2>2. pc'[x] # "reset_commit"
      BY <1>2 DEF RefreshLookup, RefreshBranch, Goto
    <2> QED
      BY <1>1, <2>1, <2>2
  <1>3. CASE ResetSweepRead(x)
    <2>1. loc'[x].user = loc[x].user /\ loc'[x].victims = SweepRows(loc[x].user)
      BY <1>3, PickFacts DEF ResetSweepRead
    <2>2. pc'[x] = "reset_commit" /\ session' = session /\ lineage' = lineage
      BY <1>3 DEF ResetSweepRead, Goto, database, history
    <2> QED
      BY <2>1, <2>2 DEF PasswordOK, SweepRows, RowsOf, Live, Exists
  <1>4. CASE Arrive(x) /\ ~\E s \in Requests : RefreshLookup(x, s)
    <2>1. pc'[x] \notin {"refresh_rotate", "reset_commit"}
      BY <1>4 DEF Arrive, LoginRejected, LoginLookup, RefreshUnknown, LogoutNothing,
           LogoutLookup, ForgotUnknown, ForgotPassword, ResetRejected, ResetLookup,
           Goto, Answer
    <2> QED
      BY <1>1, <2>1
  <1>5. CASE AbortRequest(x) \/ (Continue(x) /\ ~ResetSweepRead(x))
    <2>1. pc'[x] \notin {"refresh_rotate", "reset_commit"}
      BY <1>5 DEF Continue, LoginCreate, LoginAudit, RefreshRotate, RefreshAudit,
           ReuseAudit, ReuseSweepRead, ReuseSweepWrite, ExpiredRevoke, LogoutRevoke,
           LogoutAudit, ResetCommit, ResetAudit, AbortRequest, Goto, Answer
    <2> QED
      BY <1>1, <2>1
  <1> QED
    BY <1>2, <1>3, <1>4, <1>5

\* A handler carries a password that was in force at its lookup, through the
\* resets that commit meanwhile.
LEMMA PasswordStep ==
  ASSUME TypeOK, HandlerInv, RowInv, PasswordInv, LiveSessionsMatchPassword, [Next]_vars
  PROVE  PasswordInv'
  <1>1. SUFFICES ASSUME NEW x \in Requests PROVE PasswordOK(x)'
    BY DEF PasswordInv
  <1>2. PasswordOK(x) /\ HandlerOK(x)
    BY DEF PasswordInv, HandlerInv
  <1>3. ASSUME pc'[x] = pc[x], loc'[x] = loc[x], pc[x] = "refresh_rotate"
        PROVE  PasswordOK(x)'
    <2> DEFINE old == loc[x].target
               u == loc[x].user
    <2>1. u \in Users /\ old \in Requests /\ session[old].user = u
      BY <1>2, <1>3 DEF HandlerOK
    <2>2. lineage'[old] = lineage[old]
      BY <2>1, RowsKept DEF Exists
    <2>3. loc[x].hash \in Nat /\ password[u] \in Nat /\ loc[x].hash <= password[u]
      BY <1>2, <1>3, <2>1 DEF PasswordOK, TypeOK, Locals
    <2>4. password'[u] = password[u] \/ password'[u] = password[u] + 1
      BY <2>1, PasswordGrows DEF TypeOK
    <2> QED
      BY <1>2, <1>3, <2>2, <2>3, <2>4 DEF PasswordOK
  <1>4. ASSUME pc'[x] = pc[x], loc'[x] = loc[x], pc[x] = "reset_commit"
        PROVE  PasswordOK(x)'
    <2> DEFINE u == loc[x].user
    <2>1. u \in Users /\ ResetRunning(u)
      BY <1>2, <1>4 DEF HandlerOK, ResetRunning
    <2>2. SUFFICES ASSUME NEW s \in Requests, session'[s].user = u, ~session'[s].revoked,
                          ~lineage'[s].crossed
                   PROVE  s \in loc[x].victims
      BY <1>4 DEF PasswordOK, RowsOf, Live
    <2>3. CASE Exists(s)
      <3>1. session[s].user = u /\ lineage'[s] = lineage[s] /\ ~session[s].revoked
        BY <2>2, <2>3, RowsKept
      <3> QED
        BY <1>2, <1>4, <2>2, <2>3, <3>1 DEF PasswordOK, RowsOf, Live
    <2>4. CASE ~Exists(s)
      <3>1. LoginCreate(s) \/ RefreshRotate(s)
        BY <2>1, <2>2, <2>4, RowsKept DEF Exists
      <3> QED
        BY <2>1, <2>2, <3>1, IssueFacts
    <2> QED
      BY <2>3, <2>4
  <1>5. ASSUME pc'[x] = pc[x], loc'[x] = loc[x] PROVE PasswordOK(x)'
    <2>1. CASE pc[x] \notin {"refresh_rotate", "reset_commit"}
      BY <1>5, <2>1 DEF PasswordOK
    <2> QED
      BY <1>3, <1>4, <1>5, <2>1
  <1>6. CASE Tick \/ UNCHANGED vars
    BY <1>5, <1>6 DEF Tick, vars
  <1>7. ASSUME NEW r \in Requests, Arrive(r) \/ Continue(r) \/ AbortRequest(r)
        PROVE  PasswordOK(x)'
    BY <1>5, <1>7, Frame, PasswordActor
  <1> QED
    BY <1>6, <1>7 DEF Next

\* A reset closes every usable session of the old password that it does not
\* race with.
LEMMA MatchStep ==
  ASSUME TypeOK, HandlerInv, RowInv, PasswordInv, LiveSessionsMatchPassword, [Next]_vars
  PROVE  LiveSessionsMatchPassword'
  <1>1. SUFFICES ASSUME NEW s \in Requests, Live(s)', ~lineage'[s].crossed
                 PROVE  lineage'[s].cred = password'[session'[s].user]
    BY DEF LiveSessionsMatchPassword
  <1>2. CASE ~Exists(s)
    <2>1. LoginCreate(s) \/ RefreshRotate(s)
      BY <1>1, <1>2, RowsKept DEF Live, Exists
    <2> QED
      BY <1>1, <2>1, IssueFacts
  <1>3. CASE Exists(s)
    <2> DEFINE u == session[s].user
    <2>1. u \in Users /\ session'[s].user = u /\ lineage'[s] = lineage[s] /\ Live(s)
      BY <1>1, <1>3, RowsKept DEF Live, Exists, TypeOK, SessionRow
    <2>2. lineage[s].cred = password[u]
      BY <1>1, <2>1 DEF LiveSessionsMatchPassword
    <2>3. ASSUME NEW r \in Requests, ResetCommit(r) PROVE password'[u] = password[u]
      <3>1. pc[r] = "reset_commit" /\ session' = Revoked(loc[r].victims)
        BY <2>3 DEF ResetCommit
      <3>2. s \notin loc[r].victims
        BY <1>1, <3>1, RevokedFacts DEF Live, TypeOK
      <3>3. loc[r].user # u
        BY <1>1, <2>1, <3>1, <3>2 DEF PasswordInv, PasswordOK, RowsOf
      <3> QED
        BY <2>1, <2>3, <3>3 DEF ResetCommit, TypeOK
    <2>4. password'[u] = password[u]
      BY <2>1, <2>3, PasswordGrows
    <2> QED
      BY <2>1, <2>2, <2>4
  <1> QED
    BY <1>2, <1>3

\* A rotation closes the session it replaces; only a second rotation of the same
\* token opens another one, and marks the login as forked.
LEMMA OneLiveStep ==
  ASSUME TypeOK, HandlerInv, RowInv, OneLiveSessionPerLogin, [Next]_vars
  PROVE  OneLiveSessionPerLogin'
  <1>1. SUFFICES ASSUME NEW s \in Requests, NEW t \in Requests, Live(s)', Live(t)',
                        lineage'[s].root = lineage'[t].root, lineage'[s].root \notin forked'
                 PROVE  s = t
    BY DEF OneLiveSessionPerLogin
  <1>2. forked \subseteq forked'
    BY StoreStep DEF LoginCreate, RefreshRotate, ResetCommit, history
  <1>3. CASE Exists(s) /\ Exists(t)
    BY <1>1, <1>2, <1>3, RowsKept DEF OneLiveSessionPerLogin, Live, Exists
  <1>4. ASSUME NEW x \in Requests, NEW y \in Requests, LoginCreate(x), Exists(y)
        PROVE  lineage'[x].root # lineage'[y].root
    <2>1. lineage'[x].root = x
      BY <1>4 DEF LoginCreate, TypeOK
    <2>2. lineage'[y].root = lineage[y].root /\ Exists(lineage[y].root)
      BY <1>4, RowsKept DEF RowInv, RowOK
    <2>3. ~Exists(x)
      BY <1>4 DEF LoginCreate, RowInv, RowOK
    <2> QED
      BY <2>1, <2>2, <2>3
  <1>5. ASSUME NEW x \in Requests, NEW y \in Requests, RefreshRotate(x), Exists(y),
               Live(y)', lineage'[y].root \notin forked'
        PROVE  lineage'[x].root # lineage'[y].root
    <2> DEFINE old == loc[x].target
    <2>1. old \in Requests /\ Exists(old) /\ session'[old].revoked
      BY <1>5, RotationFacts
    <2>2. lineage'[x].root = lineage[old].root
      BY <1>5 DEF RefreshRotate, TypeOK
    <2>3. lineage'[y].root = lineage[y].root /\ Live(y) /\ y # old
      BY <1>5, <2>1, RowsKept DEF Live, Exists
    <2>4. session[old].revoked => lineage[old].root \in forked'
      BY <1>5 DEF RefreshRotate
    <2>5. ~session[old].revoked => lineage[old].root # lineage[y].root
      BY <1>2, <1>5, <2>1, <2>3 DEF OneLiveSessionPerLogin, Live
    <2> QED
      BY <1>5, <2>2, <2>3, <2>4, <2>5
  <1>6. ASSUME NEW x \in Requests, NEW y \in Requests,
               LoginCreate(x) \/ RefreshRotate(x), LoginCreate(y) \/ RefreshRotate(y)
        PROVE  x = y
    BY <1>6 DEF LoginCreate, RefreshRotate, Goto, TypeOK, Labels
  <1> QED
    BY <1>1, <1>3, <1>4, <1>5, <1>6, RowsKept DEF Live, Exists

\* A row is linked to the row that replaces it in the step that creates that one.
LEMMA ChainStep ==
  ASSUME TypeOK, HandlerInv, RowInv, ReplacementChain, [Next]_vars
  PROVE  ReplacementChain'
  <1> DEFINE Chained(s) ==
        session[s].replacedBy # NoOne =>
          /\ session[s].revoked
          /\ session[session[s].replacedBy].user = session[s].user
          /\ lineage[session[s].replacedBy].parent = s
  <1>1. SUFFICES ASSUME NEW s \in Requests PROVE Chained(s)'
    BY DEF ReplacementChain
  <1>2. Chained(s) /\ (session[s].replacedBy # NoOne => Exists(s))
    BY DEF ReplacementChain, RowInv, RowOK
  <1>3. session[s].replacedBy \in Requests \cup {NoOne}
    BY DEF TypeOK, SessionRow
  <1>4. CASE session'[s].replacedBy = session[s].replacedBy
    <2>1. SUFFICES ASSUME session[s].replacedBy # NoOne PROVE Chained(s)'
      BY <1>4
    <2> DEFINE next == session[s].replacedBy
    <2>2. next \in Requests /\ Exists(s) /\ Exists(next)
      BY <1>2, <1>3, <2>1 DEF Exists
    <2>3. /\ session'[s].user = session[s].user /\ session'[s].revoked
          /\ session'[next].user = session[next].user /\ lineage'[next] = lineage[next]
      BY <1>2, <2>1, <2>2, RowsKept
    <2> QED
      BY <1>2, <1>4, <2>1, <2>3
  <1>5. CASE session'[s].replacedBy # session[s].replacedBy
    <2>1. ASSUME NEW r \in Requests, LoginCreate(r) PROVE session'[s].replacedBy = NoOne
      BY <1>2, <1>5, <2>1, NewSessionFacts DEF LoginCreate, TypeOK, HandlerInv, HandlerOK
    <2>2. ASSUME NEW r \in Requests, RefreshRotate(r) PROVE Chained(s)'
      <3>1. s = r \/ s = loc[r].target
        BY <1>5, <2>2, RotationFacts
      <3>2. lineage'[r].parent = loc[r].target
        BY <2>2 DEF RefreshRotate, TypeOK
      <3> QED
        BY <2>2, <3>1, <3>2, RotationFacts
    <2>3. ASSUME NEW rows, session' = Revoked(rows)
          PROVE  session'[s].replacedBy = session[s].replacedBy
      BY <2>3, RevokedFacts DEF TypeOK
    <2>4. ASSUME NEW r \in Requests, ResetCommit(r)
          PROVE  session' = Revoked(loc[r].victims)
      BY <2>4 DEF ResetCommit
    <2> QED
      BY <1>5, <2>1, <2>2, <2>3, <2>4, StoreStep
  <1> QED
    BY <1>4, <1>5

-----------------------------------------------------------------------------
(* The theorems *)

\* Every step keeps the types.
LEMMA TypeStep ==
  ASSUME TypeOK, HandlerInv, RowInv, [Next]_vars
  PROVE  TypeOK'
  <1>1. ASSUME NEW r \in Requests, AbortRequest(r) PROVE TypeOK'
    BY <1>1 DEF AbortRequest, Answer, TypeOK, Labels, Replies, database, history
  <1>2. CASE Tick
    BY <1>2 DEF Tick, TypeOK, database, history
  <1>3. CASE UNCHANGED vars
    BY <1>3 DEF vars, TypeOK, database, history
  <1> QED
    BY <1>1, <1>2, <1>3, ArriveType, ContinueType DEF Next

\* The empty tables satisfy the inductive invariant.
LEMMA InitInv == Init => IInv
  <1>1. SUFFICES ASSUME Init PROVE IInv
    OBVIOUS
  <1>2. TypeOK
    BY <1>1, InitType
  <1>3. HandlerInv /\ RowInv /\ SweepInv /\ PasswordInv
    BY <1>1 DEF Init, HandlerInv, HandlerOK, RowInv, RowOK, SweepInv, SweepOK,
         PasswordInv, PasswordOK, NotResetLabels, Labels, Exists, NoSession, NoLocals
  <1>4. RevocationReplyIsHonest /\ LiveSessionsMatchPassword
          /\ OneLiveSessionPerLogin /\ ReplacementChain
    BY <1>1 DEF Init, RevocationReplyIsHonest, HonestReply, LiveSessionsMatchPassword,
         OneLiveSessionPerLogin, ReplacementChain, Live, Exists, NoSession
  <1> QED
    BY <1>2, <1>3, <1>4 DEF IInv

\* Every step keeps the inductive invariant.
LEMMA StepInv == IInv /\ [Next]_vars => IInv'
  BY TypeStep, HandlerStep, RowStep, SweepStep, PasswordStep, HonestStep, MatchStep,
     OneLiveStep, ChainStep DEF IInv

\* The inductive invariant holds in every reachable state.
THEOREM Inductive == Spec => []IInv
  BY InitInv, StepInv, PTL DEF Spec

\* Every variable keeps its type.
THEOREM TypeCorrect == Spec => []TypeOK
  <1>1. IInv => TypeOK
    BY DEF IInv
  <1> QED
    BY Inductive, <1>1, PTL

\* A client told that its sessions were closed was told the truth.
THEOREM HonestRevocation == Spec => []RevocationReplyIsHonest
  <1>1. IInv => RevocationReplyIsHonest
    BY DEF IInv
  <1> QED
    BY Inductive, <1>1, PTL

\* A usable session not issued across a reset has the password in force.
THEOREM PasswordMatch == Spec => []LiveSessionsMatchPassword
  <1>1. IInv => LiveSessionsMatchPassword
    BY DEF IInv
  <1> QED
    BY Inductive, <1>1, PTL

\* A login that was not forked has at most one usable session.
THEOREM OneLiveSession == Spec => []OneLiveSessionPerLogin
  <1>1. IInv => OneLiveSessionPerLogin
    BY DEF IInv
  <1> QED
    BY Inductive, <1>1, PTL

\* Replacement links lead from revoked rows to rows of the same user.
THEOREM ChainSound == Spec => []ReplacementChain
  <1>1. IInv => ReplacementChain
    BY DEF IInv
  <1> QED
    BY Inductive, <1>1, PTL

-----------------------------------------------------------------------------
(* Reset tokens *)

\* A mailed token is that of a finished request; a reset works on a mailed token
\* of its user, with a password that was in force at its lookup, and has missed
\* a reset if that token was used.
TokenOK(r) ==
  /\ r \in outbox => pc[r] = "done"
  /\ pc[r] \in {"reset_read", "reset_commit"} =>
       /\ loc[r].target \in outbox
       /\ loc[r].user = resetToken[loc[r].target].user
       /\ loc[r].hash <= password[loc[r].user]
       /\ resetToken[loc[r].target].used => loc[r].hash < password[loc[r].user]
TokenInv == \A r \in Requests : TokenOK(r)

\* A token is recorded by the request that made it and is marked by a reset;
\* nothing else happens to it.
LEMMA TokenWrites ==
  ASSUME TypeOK, [Next]_vars
  PROVE  \/ UNCHANGED <<outbox, resetToken>>
         \/ \E r \in Requests, u \in Users : ForgotPassword(r, u)
         \/ \E r \in Requests : ResetCommit(r)
  BY DEF Next, Arrive, Continue, AbortRequest, Tick, vars, database,
         LoginRejected, LoginLookup, RefreshUnknown, RefreshLookup, LogoutNothing,
         LogoutLookup, ForgotUnknown, ResetRejected, ResetLookup, LoginCreate,
         LoginAudit, RefreshRotate, RefreshAudit, ReuseAudit, ReuseSweepRead,
         ReuseSweepWrite, ExpiredRevoke, LogoutRevoke, LogoutAudit, ResetSweepRead,
         ResetAudit

\* A mailed token stays mailed and keeps its user, and is marked only by a reset
\* that changes the password of that user.
LEMMA TokenKept ==
  ASSUME IInv, TokenInv, [Next]_vars, NEW t \in Requests, t \in outbox
  PROVE  /\ t \in outbox' /\ pc'[t] = "done"
         /\ resetToken'[t].user = resetToken[t].user
         /\ \/ resetToken'[t].used = resetToken[t].used
            \/ password'[resetToken[t].user] = password[resetToken[t].user] + 1
  <1>1. TypeOK /\ pc[t] = "done" /\ resetToken[t].user \in Users
    BY DEF IInv, TokenInv, TokenOK, RowInv, RowOK
  <1>2. resetToken \in [Requests -> TokenRow] /\ password \in [Users -> Nat]
    BY <1>1 DEF TypeOK
  <1>3. pc'[t] = "done"
    <2>1. CASE Tick \/ UNCHANGED vars
      BY <1>1, <2>1 DEF Tick, vars
    <2>2. ASSUME NEW r \in Requests, Arrive(r) \/ Continue(r) \/ AbortRequest(r)
          PROVE  pc'[t] = "done"
      BY <1>1, <2>2, Frame
    <2> QED
      BY <2>1, <2>2 DEF Next
  <1>4. CASE UNCHANGED <<outbox, resetToken>>
    BY <1>3, <1>4
  <1>5. ASSUME NEW r \in Requests, NEW u \in Users, ForgotPassword(r, u)
        PROVE  t \in outbox' /\ resetToken'[t] = resetToken[t]
    <2>1. r # t
      BY <1>1, <1>5 DEF ForgotPassword, StartsAt
    <2> QED
      BY <1>2, <1>5, <2>1 DEF ForgotPassword
  <1>6. ASSUME NEW r \in Requests, ResetCommit(r)
        PROVE  /\ t \in outbox' /\ resetToken'[t].user = resetToken[t].user
               /\ \/ resetToken'[t].used = resetToken[t].used
                  \/ password'[resetToken[t].user] = password[resetToken[t].user] + 1
    <2>1. loc[r].user = resetToken[loc[r].target].user
      BY <1>6 DEF ResetCommit, TokenInv, TokenOK
    <2>2. /\ resetToken' = [resetToken EXCEPT ![loc[r].target].used = TRUE]
          /\ password' = [password EXCEPT ![loc[r].user] = @ + 1]
          /\ outbox' = outbox
      BY <1>6 DEF ResetCommit
    <2>3. CASE loc[r].target = t
      BY <1>1, <1>2, <2>1, <2>2, <2>3 DEF TokenRow
    <2>4. CASE loc[r].target # t
      BY <1>2, <2>2, <2>4
    <2> QED
      BY <2>3, <2>4
  <1> QED
    BY <1>1, <1>3, <1>4, <1>5, <1>6, TokenWrites

\* A lookup finds a token that was not used, and a pick keeps what it found.
LEMMA TokenActor ==
  ASSUME IInv, TokenInv, NEW x \in Requests, Arrive(x) \/ Continue(x) \/ AbortRequest(x),
         pc'[x] \in {"reset_read", "reset_commit"}
  PROVE  \/ /\ ResetLookup(x, loc'[x].target)
            /\ loc'[x].target \in outbox /\ ~resetToken[loc'[x].target].used
            /\ loc'[x].user = resetToken[loc'[x].target].user
            /\ loc'[x].hash = password[loc'[x].user]
            /\ UNCHANGED <<outbox, resetToken, password>>
         \/ /\ pc[x] = "reset_read"
            /\ loc'[x].target = loc[x].target /\ loc'[x].user = loc[x].user
            /\ loc'[x].hash = loc[x].hash
            /\ UNCHANGED <<outbox, resetToken, password>>
  <1>1. TypeOK
    BY DEF IInv
  <1>2. ASSUME NEW t \in Requests, ResetLookup(x, t)
        PROVE  /\ loc'[x].target = t /\ t \in outbox /\ ~resetToken[t].used
               /\ loc'[x].user = resetToken[t].user
               /\ loc'[x].hash = password[resetToken[t].user]
               /\ UNCHANGED <<outbox, resetToken, password>>
    <2>1. t \in outbox /\ ~resetToken[t].used /\ resetToken[t].user \in Users
      BY <1>2 DEF ResetLookup, Mailed, TokenUsable, IInv, RowInv, RowOK
    <2>2. UNCHANGED <<outbox, resetToken, password>>
      BY <1>2 DEF ResetLookup, database
    <2> QED
      BY <1>1, <1>2, <2>1, <2>2, ReadFacts DEF ResetLookup, TypeOK
  <1>3. CASE ResetSweepRead(x)
    <2>1. UNCHANGED <<outbox, resetToken, password>>
      BY <1>3 DEF ResetSweepRead, database
    <2> QED
      BY <1>1, <1>3, <2>1, PickFacts DEF ResetSweepRead, TypeOK
  <1>4. ResetSweepRead(x) \/ \E t \in Requests : ResetLookup(x, t)
    <2>1. CASE Arrive(x)
      BY <1>1, <2>1 DEF Arrive, LoginRejected, LoginLookup, RefreshUnknown, RefreshLookup,
           RefreshBranch, LogoutNothing, LogoutLookup, ForgotUnknown, ForgotPassword,
           ResetRejected, Goto, Answer, TypeOK
    <2>2. CASE Continue(x)
      BY <1>1, <2>2 DEF Continue, LoginCreate, LoginAudit, RefreshRotate, RefreshAudit,
           ReuseAudit, ReuseSweepRead, ReuseSweepWrite, ExpiredRevoke, LogoutRevoke,
           LogoutAudit, ResetCommit, ResetAudit, Goto, Answer, TypeOK
    <2>3. CASE AbortRequest(x)
      BY <1>1, <2>3 DEF AbortRequest, Answer, TypeOK
    <2> QED
      BY <2>1, <2>2, <2>3
  <1> QED
    BY <1>2, <1>3, <1>4

\* Every step keeps what resets know of their tokens.
LEMMA TokenStep ==
  ASSUME IInv, TokenInv, [Next]_vars
  PROVE  TokenInv'
  <1> SUFFICES ASSUME NEW x \in Requests PROVE TokenOK(x)'
    BY DEF TokenInv
  <1>1. TypeOK /\ HandlerInv
    BY DEF IInv
  <1>2. x \in outbox' => pc'[x] = "done"
    <2>1. CASE x \in outbox
      BY <2>1, TokenKept
    <2>2. ASSUME NEW r \in Requests, NEW u \in Users, ForgotPassword(r, u), x \in outbox',
                 x \notin outbox
          PROVE  pc'[x] = "done"
      BY <1>1, <2>2 DEF ForgotPassword, Answer, TypeOK
    <2> QED
      BY <1>1, <2>1, <2>2, TokenWrites DEF ResetCommit
  <1>3. SUFFICES ASSUME pc'[x] \in {"reset_read", "reset_commit"}
                 PROVE  /\ loc'[x].target \in outbox'
                        /\ loc'[x].user = resetToken'[loc'[x].target].user
                        /\ loc'[x].hash <= password'[loc'[x].user]
                        /\ resetToken'[loc'[x].target].used
                             => loc'[x].hash < password'[loc'[x].user]
    BY <1>2 DEF TokenOK
  <1>4. CASE pc'[x] = pc[x] /\ loc'[x] = loc[x]
    <2>1. PICK t \in Requests : t = loc[x].target /\ t \in outbox
      BY <1>1, <1>3, <1>4 DEF TokenInv, TokenOK, TypeOK
    <2>2. PICK u \in Users : u = loc[x].user
      BY <1>1, <1>3, <1>4 DEF HandlerInv, HandlerOK
    <2>3. /\ resetToken[t].user = u
          /\ loc[x].hash <= password[u]
          /\ resetToken[t].used => loc[x].hash < password[u]
      BY <1>3, <1>4, <2>1, <2>2 DEF TokenInv, TokenOK
    <2>4. loc[x].hash \in Nat /\ password[u] \in Nat /\ password'[u] \in Nat
      <3>1. TypeOK'
        BY StepInv DEF IInv
      <3> QED
        BY <1>1, <3>1 DEF TypeOK, Locals
    <2>5. password[u] <= password'[u]
      BY <1>1, PasswordGrows
    <2>6. /\ t \in outbox' /\ resetToken'[t].user = u
          /\ resetToken'[t].used = resetToken[t].used \/ password'[u] = password[u] + 1
      BY <2>1, <2>3, TokenKept
    <2> QED
      BY <1>4, <2>1, <2>2, <2>3, <2>4, <2>5, <2>6
  <1>5. ASSUME Arrive(x) \/ Continue(x) \/ AbortRequest(x)
        PROVE  /\ loc'[x].target \in outbox'
               /\ loc'[x].user = resetToken'[loc'[x].target].user
               /\ loc'[x].hash <= password'[loc'[x].user]
               /\ resetToken'[loc'[x].target].used
                    => loc'[x].hash < password'[loc'[x].user]
    <2>1. CASE pc[x] = "reset_read" /\ loc'[x].target = loc[x].target
                 /\ loc'[x].user = loc[x].user /\ loc'[x].hash = loc[x].hash
                 /\ UNCHANGED <<outbox, resetToken, password>>
      BY <2>1 DEF TokenInv, TokenOK
    <2>2. CASE /\ loc'[x].target \in outbox /\ ~resetToken[loc'[x].target].used
               /\ loc'[x].user = resetToken[loc'[x].target].user
               /\ loc'[x].hash = password[loc'[x].user]
               /\ UNCHANGED <<outbox, resetToken, password>>
      <3>1. PICK t \in Requests : t = loc'[x].target
        BY <1>1, <2>2 DEF TypeOK
      <3>2. PICK u \in Users : u = loc'[x].user
        BY <2>2, <3>1 DEF IInv, RowInv, RowOK
      <3>3. password[u] \in Nat
        BY <1>1 DEF TypeOK
      <3> QED
        BY <2>2, <3>1, <3>2, <3>3
    <2> QED
      BY <1>3, <1>5, <2>1, <2>2, TokenActor
  <1>6. CASE Tick \/ UNCHANGED vars
    BY <1>4, <1>6 DEF Tick, vars
  <1>7. ASSUME NEW r \in Requests, r # x, Arrive(r) \/ Continue(r) \/ AbortRequest(r)
        PROVE  pc'[x] = pc[x] /\ loc'[x] = loc[x]
    BY <1>1, <1>7, Frame
  <1> QED
    BY <1>4, <1>5, <1>6, <1>7 DEF Next

\* A reset token is used again only by a request that had looked it up before
\* its first use, however many resets run.
THEOREM ResetReuseOverlaps == Spec => []ResetTokenReuseExplained
  <1>1. Init => TokenInv
    BY DEF Init, TokenInv, TokenOK
  <1>2. IInv /\ TokenInv /\ [Next]_vars => TokenInv'
    BY TokenStep
  <1>3. TokenInv => ResetTokenReuseExplained
    BY DEF TokenInv, TokenOK, ResetTokenReuseExplained
  <1> QED
    BY <1>1, <1>2, <1>3, Inductive, PTL DEF Spec

-----------------------------------------------------------------------------
(* Refinement: the session table implements the ledger *)

Owner == [s \in Requests |-> session[s].user]
Open == {s \in Requests : Live(s)}

\* Initially no session was issued.
LEMMA LedgerInit == Init => Ledger!Init
  BY DEF Init, Ledger!Init, Live, Exists, NoSession

\* Revoking rows of one user is a Close of the open ones among them.
LEMMA LedgerClose ==
  ASSUME TypeOK, NEW rows, NEW u \in Users, session' = Revoked(rows),
         \A s \in rows : s \in Requests /\ session[s].user = u
  PROVE  Ledger!Next
  <1>1. \A s \in Requests :
          /\ session'[s].user = session[s].user
          /\ session'[s].revoked <=> session[s].revoked \/ s \in rows
    BY RevokedFacts DEF TypeOK
  <1>2. Owner' = Owner
    BY <1>1 DEF Owner
  <1>3. PICK closed \in SUBSET Open : closed = rows \cap Open
    OBVIOUS
  <1>4. Open' = Open \ closed
    BY <1>1, <1>3 DEF Open, Live, Exists
  <1>5. Ledger!Close(u, closed)
    BY <1>2, <1>3, <1>4 DEF Ledger!Close, Owner, Open
  <1> QED
    BY <1>3, <1>5 DEF Ledger!Next, Open

\* Inserting a row is an Issue.
LEMMA LedgerIssue ==
  ASSUME NEW s \in Requests, NEW u \in Users, Ledger!Issue(s, u)
  PROVE  Ledger!Next
  BY DEF Ledger!Next

\* Every step issues a session, exchanges one, closes sessions of one user, or is
\* none of the ledger's business.
LEMMA LedgerStep == IInv /\ [Next]_vars => [Ledger!Next]_(Ledger!ledger)
  <1> SUFFICES ASSUME IInv, [Next]_vars
               PROVE  Ledger!Next \/ UNCHANGED Ledger!ledger
    BY DEF Ledger!ledger
  <1> USE DEF IInv
  <1>1. CASE UNCHANGED session
    BY <1>1 DEF Ledger!ledger, Live, Exists
  <1>2. ASSUME NEW r \in Requests, LoginCreate(r) PROVE Ledger!Next
    <2>0. PICK u \in Users : u = loc[r].user
      BY <1>2 DEF LoginCreate, HandlerInv, HandlerOK
    <2>1. ~Exists(r) /\ session' = [session EXCEPT ![r] = NewSession(u)]
      BY <1>2, <2>0 DEF LoginCreate, RowInv, RowOK
    <2>2. NewSession(u).user = u /\ ~NewSession(u).revoked
      BY <2>1, NewSessionFacts DEF TypeOK
    <2>3. Owner' = [Owner EXCEPT ![r] = u] /\ Owner[r] = NoOne
      BY <2>1, <2>2 DEF Owner, TypeOK, Exists
    <2>4. Open' = Open \cup {r}
      BY <2>1, <2>2 DEF Open, Live, Exists, TypeOK
    <2>5. Ledger!Issue(r, u)
      BY <2>3, <2>4 DEF Ledger!Issue, Owner, Open
    <2> QED
      BY <2>1, <2>5, LedgerIssue
  <1>3. ASSUME NEW r \in Requests, RefreshRotate(r) PROVE Ledger!Next
    <2> DEFINE old == loc[r].target
               u == loc[r].user
    <2>1. /\ u \in Users /\ old \in Requests /\ old # r
          /\ session[old].user = u /\ ~Exists(r)
          /\ session'[r].user = u /\ ~session'[r].revoked
          /\ session'[old].user = u /\ session'[old].revoked
          /\ \A s \in Requests \ {r, old} : session'[s] = session[s]
      BY <1>3, RotationFacts
    <2> HIDE DEF old, u
    <2>2. Owner' = [Owner EXCEPT ![r] = Owner[old]] /\ Owner[r] = NoOne /\ Owner[old] = u
      BY <2>1 DEF Owner, Exists
    <2>3. Open' = (Open \ {old}) \cup {r}
      BY <2>1 DEF Open, Live, Exists
    <2>4. Ledger!Exchange(old, r)
      BY <2>1, <2>2, <2>3 DEF Ledger!Exchange, Owner, Open
    <2> QED
      BY <2>1, <2>4 DEF Ledger!Next
  <1>4. ASSUME NEW r \in Requests, ExpiredRevoke(r) \/ LogoutRevoke(r) PROVE Ledger!Next
    <2> DEFINE u == loc[r].user
               rows == {loc[r].target}
    <2>1. /\ u \in Users /\ session' = Revoked(rows)
          /\ \A s \in rows : s \in Requests /\ session[s].user = u
      BY <1>4 DEF ExpiredRevoke, LogoutRevoke, HandlerInv, HandlerOK
    <2> HIDE DEF u, rows
    <2> QED
      BY <2>1, LedgerClose
  <1>5. ASSUME NEW r \in Requests, ReuseSweepWrite(r) \/ ResetCommit(r) PROVE Ledger!Next
    <2> DEFINE u == loc[r].user
               rows == loc[r].victims
    <2>1. /\ u \in Users /\ session' = Revoked(rows)
          /\ pc[r] \in {"reuse_write", "reset_commit"}
      BY <1>5 DEF ReuseSweepWrite, ResetCommit, HandlerInv, HandlerOK
    <2>2. \A s \in rows : s \in Requests /\ session[s].user = u
      BY <2>1 DEF SweepInv, SweepOK, TypeOK, Locals
    <2> HIDE DEF u, rows
    <2> QED
      BY <2>1, <2>2, LedgerClose
  <1>6. \/ UNCHANGED session
        \/ \E r \in Requests :
             \/ LoginCreate(r) \/ RefreshRotate(r)
             \/ ExpiredRevoke(r) \/ LogoutRevoke(r)
             \/ ReuseSweepWrite(r) \/ ResetCommit(r)
    BY DEF Next, Arrive, Continue, LoginRejected, LoginLookup, LoginAudit, RefreshUnknown,
       RefreshLookup, RefreshAudit, ReuseAudit, ReuseSweepRead, LogoutNothing,
       LogoutLookup, LogoutAudit, ForgotUnknown, ForgotPassword, ResetRejected,
       ResetLookup, ResetSweepRead, ResetAudit, AbortRequest, Tick, vars, database
  <1> QED
    BY <1>1, <1>2, <1>3, <1>4, <1>5, <1>6

\* The handlers implement the session ledger.
THEOREM RefinesLedger == Spec => ImplementsLedger
  BY Inductive, LedgerInit, LedgerStep, PTL DEF Spec, ImplementsLedger, Ledger!Spec

=============================================================================

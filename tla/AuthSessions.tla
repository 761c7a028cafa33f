---------------------------- MODULE AuthSessions ----------------------------
(***************************************************************************)
(* Login, refresh-token rotation, reuse detection, logout and password     *)
(* reset of src/backend/src/modules/auth (auth.service.ts over             *)
(* auth.repository.ts).                                                    *)
(*                                                                         *)
(* Every HTTP request is a process that serves one call.  A handler is cut *)
(* at each await whose result another request can change: what it read     *)
(* before the await sits in its locals, what it writes afterwards is a     *)
(* later action.  A row is named by the request that creates it, and so is *)
(* the opaque token of that row: the token hash is unique                  *)
(* (schema.prisma), so knowing the token and knowing the row id coincide.  *)
(*                                                                         *)
(* The database runs at READ COMMITTED.  A transaction that only inserts   *)
(* and updates rows by id is one action, its commit.  The update-many of   *)
(* all live sessions of a user (a "sweep") picks its rows from the         *)
(* snapshot its statement starts with and takes effect at commit, so it is *)
(* two actions, a read and a write.                                        *)
(***************************************************************************)
EXTENDS Naturals, FiniteSets

CONSTANTS
  Users,        \* registered users
  Requests,     \* HTTP requests, each served once
  Endpoint,     \* Endpoint[r]: the route request r calls
  NoOne,        \* null in a column or a local
  SessionTTL,   \* life of a refresh session, in ticks
  ResetTTL,     \* life of a password-reset token, in ticks
  MaxTime       \* bound on the clock

Endpoints == {"login", "refresh", "logout", "forgot", "reset"}

ASSUME NoOneAssumption == NoOne \notin Users /\ NoOne \notin Requests
ASSUME EndpointAssumption == Endpoint \in [Requests -> Endpoints]
ASSUME TimeAssumption ==
  SessionTTL \in Nat \ {0} /\ ResetTTL \in Nat \ {0} /\ MaxTime \in Nat

VARIABLES
  password,     \* User.passwordHash: the number of the password in force
  session,      \* table RefreshSession
  resetToken,   \* table PasswordResetToken
  outbox,       \* tokens whose PASSWORD_RESET_REQUESTED event is recorded
  audit,        \* audit[r]: the AuditLog entry request r wrote
  now,          \* the clock all expiries are compared with
  pc,           \* where each handler is
  loc,          \* what each handler read before its last await
  reply,        \* what the client of each request was told
  lineage,      \* history: where each session comes from
  forked        \* history: logins with a rotation over a revoked row

database == <<password, session, resetToken, outbox, audit>>
history == <<lineage, forked>>
vars == <<database, now, pc, loc, reply, history>>

-----------------------------------------------------------------------------
(* Types *)

SessionRow == [user: Users \cup {NoOne}, expiresAt: Nat,
               revoked: BOOLEAN, replacedBy: Requests \cup {NoOne}]
NoSession == [user |-> NoOne, expiresAt |-> 0,
              revoked |-> FALSE, replacedBy |-> NoOne]

TokenRow == [user: Users \cup {NoOne}, expiresAt: Nat, used: BOOLEAN]
NoToken == [user |-> NoOne, expiresAt |-> 0, used |-> FALSE]

\* user, target: the row the handler looked up; hash: the password in force
\* at that time; victims: the rows a running sweep picked; known: history,
\* all rows of the user that existed when the sweep picked them.
Locals == [user: Users \cup {NoOne}, target: Requests \cup {NoOne}, hash: Nat,
           victims: SUBSET Requests, known: SUBSET Requests]
NoLocals == [user |-> NoOne, target |-> NoOne, hash |-> 0,
             victims |-> {}, known |-> {}]

\* root: the login the session descends from; parent: the session it was
\* exchanged for; cred: the password that login was checked against;
\* crossed: the session, or one it descends from, was being issued while a
\* password reset of the user was in progress.
Lineage == [root: Requests \cup {NoOne}, parent: Requests \cup {NoOne},
            cred: Nat, crossed: BOOLEAN]
NoLineage == [root |-> NoOne, parent |-> NoOne, cred |-> 0, crossed |-> FALSE]

Actions == {"LOGIN_SUCCEEDED", "REFRESH_ROTATED", "REUSE_DETECTED", "LOGOUT",
            "RESET_REQUESTED", "RESET_COMPLETED"}
Labels == {"start", "login_create", "login_audit",
           "refresh_rotate", "refresh_audit",
           "reuse_audit", "reuse_read", "reuse_write", "expired_revoke",
           "logout_revoke", "logout_audit",
           "reset_read", "reset_commit", "reset_audit", "done"}
Replies == {"none", "ok", "rejected", "reuse", "error"}

-----------------------------------------------------------------------------
(* Tables *)

Exists(s) == session[s].user # NoOne
Live(s) == Exists(s) /\ ~session[s].revoked

\* The tokens a client can present: those a reply carried to a browser, and
\* those an e-mail built from an outbox event carried to an inbox.
Delivered == {s \in Requests : Exists(s) /\ reply[s] = "ok"}
Mailed == {t \in Requests : t \in outbox}

Expired(row) == row.expiresAt <= now

\* Seeded fault: the expiry is computed with the two lifetimes added up.
NewSession_LongTTL(u) ==
  [user |-> u, expiresAt |-> now + SessionTTL + ResetTTL,
   revoked |-> FALSE, replacedBy |-> NoOne]

NewSession(u) ==
  [user |-> u, expiresAt |-> now + SessionTTL,
   revoked |-> FALSE, replacedBy |-> NoOne]

NewToken(u) == [user |-> u, expiresAt |-> now + ResetTTL, used |-> FALSE]

Revoked(rows) ==
  [s \in Requests |-> IF s \in rows
                      THEN [session[s] EXCEPT !.revoked = TRUE]
                      ELSE session[s]]

\* Seeded fault: the old row is left usable when its replacement is created.
Rotated_KeepsOld(old, new, u) ==
  [session EXCEPT ![new] = NewSession(u), ![old].replacedBy = new]

\* Seeded fault: the link is written into the wrong row.
Rotated_LinksSelf(old, new, u) ==
  [session EXCEPT ![new] = [NewSession(u) EXCEPT !.replacedBy = new],
                  ![old].revoked = TRUE]

Rotated(old, new, u) ==
  [session EXCEPT ![new] = NewSession(u),
                  ![old].revoked = TRUE, ![old].replacedBy = new]

RowsOf(u) == {s \in Requests : session[s].user = u}

\* Seeded fault: the sweep forgets to filter by user.
SweepRows_AnyUser(u) == {s \in Requests : Live(s)}

\* Seeded fault: the sweep skips the rows that have expired.
SweepRows_Unexpired(u) == {s \in RowsOf(u) : Live(s) /\ ~Expired(session[s])}

SweepRows(u) == {s \in RowsOf(u) : Live(s)}

\* Seeded fault: the lock is waited for by its own holder.
ResetRunning_Waiting(u) ==
  \E r \in Requests : pc[r] \in {"reset_read", "reset_commit"} /\ loc[r].user = u

\* updatePasswordAndRevokeSessions starts by updating the user row and keeps
\* that row locked until it commits: a second reset of the user waits there.
ResetRunning(u) == \E r \in Requests : pc[r] = "reset_commit" /\ loc[r].user = u

-----------------------------------------------------------------------------
(* Handler bookkeeping *)

Goto(r, label) == pc' = [pc EXCEPT ![r] = label]

Answer(r, what) ==
  /\ pc' = [pc EXCEPT ![r] = "done"]
  /\ reply' = [reply EXCEPT ![r] = what]

RecordAudit(r, action) == audit' = [audit EXCEPT ![r] = action]

Read(r, u, target) ==
  loc' = [loc EXCEPT ![r] = [user |-> u, target |-> target, hash |-> password[u],
                             victims |-> {}, known |-> {}]]

PickRows(r) ==
  loc' = [loc EXCEPT ![r] = [user |-> @.user, target |-> @.target, hash |-> @.hash,
                             victims |-> SweepRows(@.user), known |-> RowsOf(@.user)]]

StartsAt(r, endpoint) == pc[r] = "start" /\ Endpoint[r] = endpoint

\* History of a session issued now by request r after it read the password
\* in force as loc[r].hash.
CrossedNow(r) ==
  ResetRunning(loc[r].user) \/ loc[r].hash # password[loc[r].user]

-----------------------------------------------------------------------------
(* POST /auth/login *)

\* Unknown address, or the password does not match the stored hash.
LoginRejected(r) ==
  /\ StartsAt(r, "login")
  /\ Answer(r, "rejected")
  /\ UNCHANGED <<database, now, loc, history>>

\* findByEmail, and a password that matches the hash it returned.
LoginLookup(r, u) ==
  /\ StartsAt(r, "login")
  /\ Read(r, u, NoOne)
  /\ Goto(r, "login_create")
  /\ UNCHANGED <<database, now, reply, history>>

LoginCreate(r) ==
  /\ pc[r] = "login_create"
  /\ session' = [session EXCEPT ![r] = NewSession(loc[r].user)]
  /\ lineage' = [lineage EXCEPT
                   ![r] = [root |-> r, parent |-> NoOne, cred |-> loc[r].hash,
                           crossed |-> CrossedNow(r)]]
  /\ Goto(r, "login_audit")
  /\ UNCHANGED <<password, resetToken, outbox, audit, now, loc, reply, forked>>

LoginAudit(r) ==
  /\ pc[r] = "login_audit"
  /\ RecordAudit(r, "LOGIN_SUCCEEDED")
  /\ Answer(r, "ok")
  /\ UNCHANGED <<password, session, resetToken, outbox, now, loc, history>>

-----------------------------------------------------------------------------
(* POST /auth/refresh *)

\* No cookie, or a token no row has the hash of.
RefreshUnknown(r) ==
  /\ StartsAt(r, "refresh")
  /\ Answer(r, "rejected")
  /\ UNCHANGED <<database, now, loc, history>>

RefreshBranch(s) ==
  IF session[s].revoked THEN "reuse_audit"
  ELSE IF Expired(session[s]) THEN "expired_revoke" ELSE "refresh_rotate"

\* findRefreshSessionByTokenHash and the two tests on the row it returned.
RefreshLookup(r, s) ==
  /\ StartsAt(r, "refresh")
  /\ s \in Delivered
  /\ Read(r, session[s].user, s)
  /\ Goto(r, RefreshBranch(s))
  /\ UNCHANGED <<database, now, reply, history>>

\* rotateRefreshSession: the update of the old row is by id, whatever
\* happened to that row since the lookup.
RefreshRotate(r) ==
  LET old == loc[r].target IN
  /\ pc[r] = "refresh_rotate"
  /\ session' = Rotated(old, r, loc[r].user)
  /\ lineage' = [lineage EXCEPT
                   ![r] = [root |-> lineage[old].root, parent |-> old,
                           cred |-> lineage[old].cred,
                           crossed |-> lineage[old].crossed \/ CrossedNow(r)]]
  /\ forked' = forked \cup {x \in {lineage[old].root} : session[old].revoked}
  /\ Goto(r, "refresh_audit")
  /\ UNCHANGED <<password, resetToken, outbox, audit, now, loc, reply>>

RefreshAudit(r) ==
  /\ pc[r] = "refresh_audit"
  /\ RecordAudit(r, "REFRESH_ROTATED")
  /\ Answer(r, "ok")
  /\ UNCHANGED <<password, session, resetToken, outbox, now, loc, history>>

ReuseAudit(r) ==
  /\ pc[r] = "reuse_audit"
  /\ RecordAudit(r, "REUSE_DETECTED")
  /\ Goto(r, "reuse_read")
  /\ UNCHANGED <<password, session, resetToken, outbox, now, loc, reply, history>>

\* revokeAllRefreshSessionsForUser: the statement picks its rows ...
ReuseSweepRead(r) ==
  /\ pc[r] = "reuse_read"
  /\ PickRows(r)
  /\ Goto(r, "reuse_write")
  /\ UNCHANGED <<database, now, reply, history>>

\* ... and commits.
ReuseSweepWrite(r) ==
  /\ pc[r] = "reuse_write"
  /\ session' = Revoked(loc[r].victims)
  /\ Answer(r, "reuse")
  /\ UNCHANGED <<password, resetToken, outbox, audit, now, loc, history>>

ExpiredRevoke(r) ==
  /\ pc[r] = "expired_revoke"
  /\ session' = Revoked({loc[r].target})
  /\ Answer(r, "rejected")
  /\ UNCHANGED <<password, resetToken, outbox, audit, now, loc, history>>

-----------------------------------------------------------------------------
(* POST /auth/logout *)

\* No cookie, unknown token, or a session that is already revoked.
LogoutNothing(r) ==
  /\ StartsAt(r, "logout")
  /\ Answer(r, "ok")
  /\ UNCHANGED <<database, now, loc, history>>

LogoutLookup(r, s) ==
  /\ StartsAt(r, "logout")
  /\ s \in Delivered
  /\ ~session[s].revoked
  /\ Read(r, session[s].user, s)
  /\ Goto(r, "logout_revoke")
  /\ UNCHANGED <<database, now, reply, history>>

LogoutRevoke(r) ==
  /\ pc[r] = "logout_revoke"
  /\ session' = Revoked({loc[r].target})
  /\ Goto(r, "logout_audit")
  /\ UNCHANGED <<password, resetToken, outbox, audit, now, loc, reply, history>>

LogoutAudit(r) ==
  /\ pc[r] = "logout_audit"
  /\ RecordAudit(r, "LOGOUT")
  /\ Answer(r, "ok")
  /\ UNCHANGED <<password, session, resetToken, outbox, now, loc, history>>

-----------------------------------------------------------------------------
(* POST /auth/password/forgot and /auth/password/reset *)

\* The reply is the same whether or not the address is registered.
ForgotUnknown(r) ==
  /\ StartsAt(r, "forgot")
  /\ Answer(r, "ok")
  /\ UNCHANGED <<database, now, loc, history>>

\* One transaction: the token, its outbox event and the audit entry.
ForgotPassword(r, u) ==
  /\ StartsAt(r, "forgot")
  /\ resetToken' = [resetToken EXCEPT ![r] = NewToken(u)]
  /\ outbox' = outbox \cup {r}
  /\ RecordAudit(r, "RESET_REQUESTED")
  /\ Answer(r, "ok")
  /\ UNCHANGED <<password, session, now, loc, history>>

\* Seeded fault: usedAt is not tested at the lookup.
TokenUsable_UsedToo(t) == ~Expired(resetToken[t])

TokenUsable(t) == ~resetToken[t].used /\ ~Expired(resetToken[t])

\* Unknown token, or one that is used or expired.
ResetRejected(r) ==
  /\ StartsAt(r, "reset")
  /\ Answer(r, "rejected")
  /\ UNCHANGED <<database, now, loc, history>>

ResetLookup(r, t) ==
  /\ StartsAt(r, "reset")
  /\ t \in Mailed
  /\ TokenUsable(t)
  /\ Read(r, resetToken[t].user, t)
  /\ Goto(r, "reset_read")
  /\ UNCHANGED <<database, now, reply, history>>

\* updatePasswordAndRevokeSessions up to its last statement: the user row is
\* locked, the sweep has picked its rows, nothing is visible outside yet.
ResetSweepRead(r) ==
  /\ pc[r] = "reset_read"
  /\ ~ResetRunning(loc[r].user)
  /\ PickRows(r)
  /\ Goto(r, "reset_commit")
  /\ UNCHANGED <<database, now, reply, history>>

\* Seeded fault: the transaction changes the password and keeps the sessions.
ResetCommit_KeepsSessions(r) ==
  /\ pc[r] = "reset_commit"
  /\ password' = [password EXCEPT ![loc[r].user] = @ + 1]
  /\ resetToken' = [resetToken EXCEPT ![loc[r].target].used = TRUE]
  /\ Goto(r, "reset_audit")
  /\ UNCHANGED <<session, outbox, audit, now, loc, reply, history>>

\* The commit.  The token is marked by id, used or not.
ResetCommit(r) ==
  /\ pc[r] = "reset_commit"
  /\ password' = [password EXCEPT ![loc[r].user] = @ + 1]
  /\ resetToken' = [resetToken EXCEPT ![loc[r].target].used = TRUE]
  /\ session' = Revoked(loc[r].victims)
  /\ Goto(r, "reset_audit")
  /\ UNCHANGED <<outbox, audit, now, loc, reply, history>>

ResetAudit(r) ==
  /\ pc[r] = "reset_audit"
  /\ RecordAudit(r, "RESET_COMPLETED")
  /\ Answer(r, "ok")
  /\ UNCHANGED <<password, session, resetToken, outbox, now, loc, history>>

-----------------------------------------------------------------------------
(* Environment *)

\* The process dies or an await rejects before the handler's next write: an
\* open transaction is rolled back, earlier commits stay.
AbortRequest(r) ==
  /\ pc[r] \notin {"start", "done"}
  /\ Answer(r, "error")
  /\ UNCHANGED <<database, now, loc, history>>

Tick ==
  /\ now < MaxTime
  /\ now' = now + 1
  /\ UNCHANGED <<database, pc, loc, reply, history>>

Init ==
  /\ password = [u \in Users |-> 0]
  /\ session = [s \in Requests |-> NoSession]
  /\ resetToken = [t \in Requests |-> NoToken]
  /\ outbox = {}
  /\ audit = [r \in Requests |-> NoOne]
  /\ now = 0
  /\ pc = [r \in Requests |-> "start"]
  /\ loc = [r \in Requests |-> NoLocals]
  /\ reply = [r \in Requests |-> "none"]
  /\ lineage = [s \in Requests |-> NoLineage]
  /\ forked = {}

Arrive(r) ==
  \/ LoginRejected(r)
  \/ \E u \in Users : LoginLookup(r, u)
  \/ RefreshUnknown(r)
  \/ \E s \in Requests : RefreshLookup(r, s)
  \/ LogoutNothing(r)
  \/ \E s \in Requests : LogoutLookup(r, s)
  \/ ForgotUnknown(r)
  \/ \E u \in Users : ForgotPassword(r, u)
  \/ ResetRejected(r)
  \/ \E t \in Requests : ResetLookup(r, t)

Continue(r) ==
  \/ LoginCreate(r) \/ LoginAudit(r)
  \/ RefreshRotate(r) \/ RefreshAudit(r)
  \/ ReuseAudit(r) \/ ReuseSweepRead(r) \/ ReuseSweepWrite(r)
  \/ ExpiredRevoke(r)
  \/ LogoutRevoke(r) \/ LogoutAudit(r)
  \/ ResetSweepRead(r) \/ ResetCommit(r) \/ ResetAudit(r)

Next ==
  \/ \E r \in Requests : Arrive(r) \/ Continue(r) \/ AbortRequest(r)
  \/ Tick

Spec == Init /\ [][Next]_vars

\* A handler that was started is resumed by the event loop each time the
\* database answers; nothing makes a client call, an await fail or time pass.
FairSpec == Spec /\ \A r \in Requests : WF_vars(Continue(r))

-----------------------------------------------------------------------------
(* Properties *)

\* Every table, clock, local and history variable keeps its type.
TypeOK ==
  /\ password \in [Users -> Nat]
  /\ session \in [Requests -> SessionRow]
  /\ resetToken \in [Requests -> TokenRow]
  /\ outbox \subseteq Requests
  /\ audit \in [Requests -> Actions \cup {NoOne}]
  /\ now \in 0 .. MaxTime
  /\ pc \in [Requests -> Labels]
  /\ loc \in [Requests -> Locals]
  /\ reply \in [Requests -> Replies]
  /\ lineage \in [Requests -> Lineage]
  /\ forked \subseteq Requests
  /\ \A s \in Requests : session[s].expiresAt <= MaxTime + SessionTTL

\* When a client is told that its reused token closed the account's sessions
\* (401 REFRESH_TOKEN_REUSE_DETECTED), or that its password is changed (204),
\* every session of the user that existed when the sweep ran stays revoked,
\* whatever rotations and logouts were in flight around it.
HonestReply(r) ==
  (reply[r] = "reuse" \/ (reply[r] = "ok" /\ Endpoint[r] = "reset"))
    => \A s \in loc[r].known :
         session[s].revoked /\ session[s].user = loc[r].user
RevocationReplyIsHonest == \A r \in Requests : HonestReply(r)

\* A reset goes on with a token that was used only if it had looked that token
\* up before: the password has changed since its lookup, so that comparing the
\* two at the commit would notice every second use.
ResetTokenReuseExplained ==
  \A r \in Requests :
    pc[r] \in {"reset_read", "reset_commit"} /\ resetToken[loc[r].target].used
      => loc[r].hash < password[loc[r].user]

\* A usable session descends from a login with the password now in force,
\* unless it or a session it descends from was being issued while a reset of
\* that user was in progress (auth.service.ts checks the hash it read before
\* the awaits of bcrypt and of the insert).
LiveSessionsMatchPassword ==
  \A s \in Requests :
    Live(s) /\ ~lineage[s].crossed
      => lineage[s].cred = password[session[s].user]

\* However many refreshes ran on its tokens, one login has at most one usable
\* session, unless a rotation was committed over a row that had been revoked
\* since its lookup.
OneLiveSessionPerLogin ==
  \A s, t \in Requests :
    /\ Live(s) /\ Live(t)
    /\ lineage[s].root = lineage[t].root
    /\ lineage[s].root \notin forked
    => s = t

\* replacedByTokenId, once set, leads from a revoked session to the session
\* of the same user that was exchanged for it, so a chain of replacements
\* can be followed forward from any old token.
ReplacementChain ==
  \A s \in Requests :
    session[s].replacedBy # NoOne =>
      /\ session[s].revoked
      /\ session[session[s].replacedBy].user = session[s].user
      /\ lineage[session[s].replacedBy].parent = s

\* The session table implements the ledger: a row is never deleted, handed to
\* another user or revived, a rotation stays within the user, and a sweep
\* closes sessions of its user only.
Ledger == INSTANCE SessionLedger WITH
  Ids <- Requests,
  owner <- [s \in Requests |-> session[s].user],
  open <- {s \in Requests : Live(s)}
ImplementsLedger == Ledger!Spec

\* A reset waiting for the row lock of another reset of the same user, and
\* every other handler that was started, is answered.
EveryRequestAnswered ==
  \A r \in Requests : (pc[r] # "start") ~> (pc[r] = "done")

-----------------------------------------------------------------------------
(* Statements of the documents that the code does not meet *)

\* docs/07, "Tokens are single-use": a password change consumes a token that
\* was not consumed before.
ResetTokenSingleUse ==
  [][\A u \in Users :
       password'[u] # password[u] =>
         \E t \in Requests : /\ resetToken[t].user = u
                             /\ ~resetToken[t].used
                             /\ resetToken'[t].used]_vars

\* docs/07, "Password reset revokes active refresh sessions so stolen or old
\* sessions cannot continue after a credential change".
NoSessionOutlivesReset ==
  \A s \in Requests :
    Live(s) => lineage[s].cred = password[session[s].user]
=============================================================================

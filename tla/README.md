# Atlas Suite: a verification project

Atlas Suite is a field-service application: a React front end, an Express API over
PostgreSQL (Prisma), a background worker over Redis (BullMQ), and Socket.IO for live
updates. This directory holds TLA+ modules that model the parts of it where processes,
transactions and failures interleave, TLC configurations that check them on small
instances, and TLAPS proofs of what matters most for every value of the constants.

Paths below are relative to the repository; `api/` stands for `src/backend/src/`
and `web/` for `src/frontend/src/`.

    tlasany M.tla                       parse a module
    tlc -workers 2 -config X.cfg MCM    one run; the table "Runs" lists them
    tlapm M_proofs.tla                  check the proofs

`PROJECT.json` is the index: components, runs, hazards, findings, theorems, for every
definition the lines it models, and for every property a seeded fault that breaks it.

---

## 1. Inventory

### The system and its parts

| Component | Source | State | Operations | Talks to |
|---|---|---|---|---|
| Auth sessions | `api/modules/auth` | tables RefreshSession, PasswordResetToken, User.passwordHash | login, refresh, logout, forgot, reset | database, outbox, audit log |
| E-mail verification | `api/modules/auth/auth.service.ts:163-226` | table EmailVerificationToken, User.emailVerifiedAt | request, verify | database, outbox, audit log |
| Transactional outbox | `api/services/outbox.ts`, `api/workers/outbox.dispatcher.ts`, `api/workers.ts` | table OutboxEvent, flag `running` | record, claim, publish, mark failed, poll, shut down | database, e-mail queue |
| E-mail queue | `api/queues/email.queue.ts` | BullMQ queue in Redis | add, process, retry, remove | e-mail sender |
| Jobs workflow | `api/modules/jobs` | tables Job, JobNote, JobAttachment | create, assign, status, note, upload, list | policy, audit, notifications, files, events |
| Authorization policy | `api/modules/authorization` | none | visibleJobWhere, canUpdateJobStatus, canCreateJobNote | jobs |
| Audit log | `api/services/audit.ts` | table AuditLog | append | everyone |
| Notifications | `api/services/notifications.ts`, `api/routes/notifications.ts` | table Notification | create, list, mark read | jobs |
| Attachment files | `api/modules/jobs/jobs.service.ts:247-323` | upload directory | write, delete | jobs |
| Realtime | `api/realtime`, `web/realtime`, `web/app/providers.tsx` | rooms, sockets, cached answers of each tab | emit, invalidate, fetch, connect, drop | jobs, browsers |
| Browser session | `web/auth`, `web/api`, `web/views/LoginPage.tsx` | access token and user of each tab, refresh cookie of the browser | restore, log in, log out | auth |
| Rate limiter | `api/middleware/rate-limit.ts` | Redis counters | INCR, PEXPIRE, PTTL | auth routes |
| Access tokens | `api/middleware/auth.ts` | none | verify | every route, sockets |
| Seed | `src/backend/prisma/seed.ts` | users and two jobs on an empty database | seed | jobs |
| Rest | health, overview, directory, logging, configuration, UI, deployment | none that steps of several actors share | | |

Requests are handled by Node processes: inside one process a handler runs
uninterrupted from one `await` to the next, between two awaits any other
handler, of this or another process, may run. The database runs at its default
isolation level, READ COMMITTED: what a handler read before a transaction can
have changed when the transaction writes, and an update-many picks its rows
from the snapshot its own statement began with.

### What is hard, and what must hold

* **Auth sessions.** A refresh looks its row up, decides, and rotates in a later
  transaction. Two refreshes of one token, a reuse report beside a rotation, a
  reset beside a login overlap in any order; a handler can be cut off at each
  await. What must hold: a login does not end up with two usable sessions; a
  session that was closed stays closed and never crosses to another user; when a
  client is told that all sessions were closed they are; a usable session
  belongs to the password in force; a chain of replacements can be followed.
* **Outbox and e-mail queue.** The claim is a read followed by an update, the
  publication is a call to another system followed by an update, processes die
  between them and two processes may poll at once. What must hold: nothing is
  marked published that was not queued; nothing is stranded but by a death; the
  cap on attempts holds up to races; duplicates have known causes; each event is
  settled in the end and a published one leads to an e-mail.
* **Jobs.** Every command decides on a row it read before its transaction. The
  audit log must still explain the job, notifications must match it,
  technicians touch only jobs they were given, files and rows must agree.
* **Realtime.** Events carry no data; a tab fetches again. Events are lost while a
  socket is not connected, one that meets a first fetch changes nothing, a fetch that
  fails twice is given up, the access token expires and nothing renews it, and the cache
  outlives its user. No list may stay stale without something on its way or one of these
  to explain it, nobody may be shown what is not theirs but for that cache, and
  lists must converge.
* **Browser session.** Several tabs share one refresh cookie, answers are lost,
  late or out of order, and only a success changes the cookie. An honest user
  may look like a thief only for causes that can be named; a logout must end
  what it says.
* **Rate limiter.** INCR, PEXPIRE and PTTL are three calls; Redis or the process
  may fail between them. The limit must hold however calls interleave, and a
  counter that never expires must have a cause.
* **E-mail verification.** Three writes without a transaction, and a lookup long
  before the token is marked.

`PROJECT.json` lists every hazard with its line and the properties that
would catch it. The three hazards without a property are discussed in section 7.

---

## 2. Plan

In order of importance, with what is done.

1. `AuthSessions` (sessions and resets), with `SessionLedger`, the abstract
   session store it implements. Done: two passing runs, two disagreements
   with the documents, inductive invariant, refinement proved.
2. `EmailQueue` and, on top of it, `Outbox`, with `MailService`, the abstract service they
   implement. Done: two passing runs, inductive invariant, every safety property and the
   refinement proved.
3. `Jobs`: commands, policy, audit log, notifications, attachment files, the
   seed, with `Workflow`, the abstract job store it implements. Done: one passing
   run, two disagreements with the repository's own statements, inductive invariant,
   every safety property and the refinement proved.
4. `LiveBoards`: `Jobs` composed with rooms, sockets, events, access tokens and the
   caches of tabs. Done: one passing run with liveness, inductive invariant and every
   safety property proved on top of those of `Jobs`.
5. `BrowserSession`: `AuthSessions` composed with tabs, browsers, cookies and a
   network that loses and reorders answers. Done: one passing run, inductive invariant and
   every safety property proved on top of those of `AuthSessions`.
6. `RateLimit` and, behind it, `EmailVerification`. Done: one passing run, inductive
   invariant and every safety property proved.
7. To come: an abstract limiter `RateLimit` should implement, and the way of an outbox event
   from the transaction that records it to `EmailVerification` and the resets as one composed module.

---

## 3. How the modules correspond to the code

### `AuthSessions`

One process per HTTP request; `Endpoint` says which route it calls. `pc[r]` is
the await the handler is suspended at, `loc[r]` what it read before. A row and
its opaque token are named by the request that creates them: the hash is unique,
so knowing the token and knowing the row coincide. A client can present a token
only once the reply (or the e-mail built from an outbox event) has carried it out.

| Action | Code |
|---|---|
| `LoginLookup`, `LoginCreate`, `LoginAudit`, `LoginRejected` | `AuthService.login` |
| `RefreshLookup`, `RefreshRotate`, `RefreshAudit`, `RefreshUnknown` | `AuthService.refresh`, `rotateRefreshSession` |
| `ReuseAudit`, `ReuseSweepRead`, `ReuseSweepWrite` | the branch for a revoked row, `revokeAllRefreshSessionsForUser` |
| `ExpiredRevoke` | the branch for an expired row |
| `LogoutLookup`, `LogoutRevoke`, `LogoutAudit`, `LogoutNothing` | `AuthService.logout` |
| `ForgotPassword`, `ForgotUnknown` | `forgotPassword` with its transaction |
| `ResetLookup`, `ResetSweepRead`, `ResetCommit`, `ResetAudit`, `ResetRejected` | `resetPassword`, `updatePasswordAndRevokeSessions` |
| `AbortRequest` | a rejected await or the death of the process |
| `Tick` | the clock that expiries are compared with |

A transaction is one action, its commit, unless another request can tell the
difference. The reset can: its update-many picks its rows when the statement
starts (`ResetSweepRead`), takes effect at commit (`ResetCommit`), and holds the
lock on the user row in between (`ResetRunning`). Hashing, cookies, JWTs and the
metadata of audit records are abstracted; a password is its version number. The
variables `lineage` and `forked` are history: no action reads them.

`SessionLedger` is what the session table promises: an id is issued once, to one
user; a session is exchanged for a new one of the same user; a step closes
sessions of one user only, for good. The refinement mapping reads
`owner` and `open` off the table.

### `EmailQueue` and `Outbox`

`EmailQueue` is BullMQ and the mail provider as the options in
`email.queue.ts` ask of them: the job id is the event's, `add` is ignored while a
job with that id is kept, a failing job is run `SendAttempts` times, a finished job
is removed with its id, a job whose worker died is restarted or given up. It is
marked external in the map where it stands for the library.

`Outbox` extends it with the table and the workers. A tick of dispatcher `d` is
`TickRead`, `TickClaim` (the two statements of `claimOutboxBatch`: the batch is
what the first one read, even where the second one finds rows already
claimed), then per event `Enqueue` and `Publish`, or a failure and `MarkFailed`
(`markOutboxFailed`: status, attempts, back-off). `EnqueueFails` and `PublishFails`
fail before or after the other side took effect. `Crash` is the death of the
process, the `shutdown` of `workers.ts`, which does not wait for a tick, and the
rejection of `tick` itself, which nothing catches. `availableAt` is abstracted to
whether it has passed; the length of the back-off is irrelevant to the properties.

`MailService` is what both promise together, without processes, claims or attempts: an event
is recorded, accepted, published, perhaps put back by another process; an e-mail needs an accepted
event and a credit, each event has one, and the queue grants another whenever it forgets
what it sent. The refinement mapping reads `recorded` and `published` off the status, `accepted` off
the jobs that were added, and takes as credit `1 + causes - sent`.

### `Jobs` and `Workflow`

A command is a lookup and a commit: `AssignLookup`/`AssignCommit`,
`StatusLookup`/`StatusCommit`, `NoteLookup`/`NoteCommit`; `CreateJob` needs no lookup
that anything could change; an upload is `UploadLookup`, `StoreFile` (or `StoreFails`,
which may leave a part of the file), then `AttachCommit`, or `AttachFails` and `CleanUp`.
`MarkRead` is one statement. After its commit a handler is at "emit", holding its
audience; `Emit` sends and answers. `Refuse` is every early return. `Fail` is a step
that fails before it takes effect, `AttachFails` a transaction that rolls back or
whose answer is lost, `Die` the death of the process. `Visible`, `CanUpdateJobStatus`
and `CanCreateJobNote` are the policy.

The log is the table AuditLog in the order of commits, with what the metadata say of
the job's status, technician and "from". Three fields of an entry are history that
no action reads: how long the log was at the lookup (`seen`), the time the request
gave (`given`) and the row the commit left (`stored`). `Between(k, i)` is the race
this code is exposed to everywhere: k committed between the lookup and the commit of i.
`Init` is the empty database or one with a job of `seed.ts`, with a note and a
record that says nothing of the job, or with neither; `seeded` remembers it.
The record of an assignment names both technicians and no status
(`jobs.service.ts:165`), although the assignment sets ASSIGNED: `AuditExplainsJob` reads the log
as somebody would who knows that (`StatusTold`).

`Workflow` is what the tables promise: a job is created once, keeps its client, and
its row, notes and attachments change only in a step that adds one record naming
that job and leaves other jobs alone. The refinement mapping reads them off the tables.

### `LiveBoards`

Extends `Jobs` with tabs. `cache[b][q]` is the last answer tab b has to query q
(`jobs` or `notifications`) and to whom it was given, `stale[b]` the queries that are
invalid or have no answer. `Answer` is what the routes return: for a client without internal
notes and foreign jobs. The audience of an event follows the rooms of `socket.ts`: the role's
room for admins, a user's own room for the others; `Arriving` restricts it to tabs whose
socket is connected, `OwnAnswer` is what `onSuccess` of a page's own mutation
invalidates besides, `Untold` who is not told of a change: the handler died before
its events, took a commit for a failure, or marked a notification as read.

What an event does depends on what the query client (TanStack Query 5, a library) is doing.
If a query holds an answer, an event cancels a fetch that is under way and starts another: such a
fetch is one step, `Fetch`. If it holds none, the first fetch runs on and its success marks the
query as valid: the server's answer (`Ask`, which puts it in `coming`) and its arrival (`Receive`)
are two steps, and an event between them is `absorbed`. `retry: 1` repeats a failed attempt once;
then nothing fetches the query (`failed`) until it is invalidated again or the
page is opened again. `missed` and `absorbed` are history: they name what a lost and an
overtaken event leave behind, until the server is asked the next time.

| Action | Code |
|---|---|
| `Handle` | a step of `Jobs`, and the events of `socket.ts:67-77` when it answers (`Deliver`) |
| `Fetch`, `Ask`, `Receive` | `useQuery` of `JobsBoard` and `Workspace` |
| `FetchFails` | a failed attempt: the first is repeated, after the second the query is given up (`providers.tsx:16`) |
| `Load`, `SignIn`, `SignOut` | `AuthContext`, with `useRealtimeInvalidation`, which opens and closes the socket; the `QueryClient` of `providers.tsx` lives as long as the page, an answer nobody shows for `gcTime` is dropped |
| `Connect`, `Drop` | the handshake of `socket.io-client`, the first and those by which it reconnects by itself with the token it has; nothing is fetched |
| `Expire` | fetches and handshakes fail from then on, an open socket stays: `api()` renews nothing |

### `BrowserSession`

Extends `AuthSessions`: its requests are now sent by tabs. `Send` fixes what a request
carries, the cookie its browser has at that moment; `Serve` restricts the handlers of
`AuthSessions` to it; `Hear` is the answer reaching the browser, which sets or clears
the cookie (`CookieAfter`: only on success, in the order of arrival) and shows
the page that sent the request what it got (`ShowAnswer`), unless that page was loaded again (`gone`).
`Lose` is a connection that breaks before, while or after the server works. A `Load`
is `restoreSession`; the form of the login page is disabled while a login is under
way; a logout signs the page out whatever its answer. `unheard`, `left`, `closedBy` and
`displaced` are history: what was under way when a request was sent, the access token of the
page that signed out, which request closed a session, and the logins whose cookie
another login of the browser replaced.

### `RateLimit` and `EmailVerification`

`RateLimit` is `createRateLimiter` per command: `Incr`, `PExpire` (only for the call
that read 1), `PTtl`, which decides on what INCR had answered. `IncrResent` is the Redis
client sending INCR again after a broken connection, `CommandFails` a command that fails
whether or not Redis executed it, followed by the catch clause (`GiveUp`: pass
or answer 503, by `FailOpen`), `LimiterDies` the death of the process. `Elapse` lets
counters expire. `epoch`, `counted`, `unchecked` and `broken` are history.

`EmailVerification` puts `RequestToken` (one transaction: token, outbox event, audit
record) behind that limiter, and adds the verification, which is not limited:
`VerifyLookup`, `MarkVerified`, `MarkUsed` and `AuditVerified` with an await between any two, or
`VerifyFails`. A token can be presented once its event is recorded.

---

## 4. Runs

All runs use `CHECK_DEADLOCK FALSE`: requests, events and faults are finite, so
every behaviour of an instance ends. What must not stop is stated as liveness.

| Run | What it asks | Instance |
|---|---|---|
| `auth_rotation` | type; one usable session per login; replacements; honest reuse report; implements `SessionLedger` | 2 logins, 2 refreshes, 1 logout, 2 users |
| `auth_reset` | honest reset reply; sessions match the password; a token used twice has its cause; every request is answered (fair) | login, refresh, forgot, 2 resets, 1 user |
| `auth_token_twice` | violation: a reset token is used twice | as `auth_reset` |
| `auth_old_session` | violation: a session of the old password survives | as `auth_reset` |
| `outbox_dispatch` | type; published was queued; stranded only by a death; cap on attempts; implements `MailService` | 2 processes, 2 events, batch of 2, cap 1, 3 faults, 1 death |
| `outbox_delivery` | duplicates have a known cause; every event is settled, a published event leads to an e-mail (fair) | 1 process, 2 events, batch of 1, cap 2, 2 faults, 1 death, 1 restart of a stalled job |
| `jobs_workflow` | type; audit log tells status, technician, "from" and time; notifications; technicians; files; implements `Workflow` | 3 requests of any kind on 2 jobs, or 2 with a seeded job, 2 technicians, a client, an admin, 1 time, 2 statuses, 2 faults |
| `jobs_locked` | violation: a completed job is reassigned | 1 job, 3 requests, without faults |
| `jobs_assignee` | violation: a former technician moves a job | 1 job, 3 requests, without faults |
| `boards` | type; what a tab shows is current or excused; clients see what is theirs; lists settle (fair) | 2 requests in turn, 1 tab, a client and a technician as visitors, 1 job, 1 mishap: a fault of the server, a sign-out, a load, a dropped socket, an expired token or a failed fetch |
| `browser_sessions` | type; reuse reports, dead cookies and logouts that end nothing have a named cause | 2 logins and 2 tabs, 2 requests at a time, 1 mishap, lifetime 1; two browsers with 2 refreshes and 1 logout, or one browser with 1 refresh and 1 logout, or with 2 logouts |
| `verification` | type; limit; endless counters; used tokens; one token twice; audit record | 3 calls from one address of 2 users, limit 2, window 1, 2 verifications, 1 fault, `RATE_LIMIT_FAIL_OPEN="false"` |

The longest runs, `outbox_dispatch`, `browser_sessions` and `boards`, with 2.5, 1.1 and 0.5
million distinct states, take two to two and a half minutes each with two workers.

### Bounds, and why they are enough

* *Requests.* A race here is between two handlers, and another must act on what it
  leaves. In `auth_rotation` two refreshes can race on one token, reuse the token
  the other or the logout has closed, or follow one another; with two users and two
  logins a sweep can hit a session it must not. In `auth_reset` two resets race
  with a login and a refresh. With both lifetimes 1 and `MaxTime` 1 a row is
  seen fresh and expired; no test compares two expiries.
* *Outbox.* Two processes are needed for every race of the claim, two events for
  the order of a batch and for the loop going on after a failure. With a cap of 1
  and three faults the cap can be overshot, and would be overshot further if the
  claim did not test it. `outbox_delivery` has the cap 2, so that an event is
  retried, and a batch of 1: the case where a batch is full of older events that
  fail. `SendAttempts` is 1 in both: a job that fails is given up at once, as it is
  after `SendAttempts` failures; the proofs hold for every value.
* *Jobs.* Handlers of different jobs share nothing but the log; the second job is there for what a step
  must leave alone. Two technicians, so that one can lose a job to the other. Three requests:
  one creates a job or gives it away, two race. A seeded database needs no request to
  make a job, and has one less (`OneLessWhenSeeded`). `MaxFaults` counts failures of all
  kinds; with two an upload can fail after its commit and its cleanup with it.
* *Boards.* One tab, just loaded: tabs share nothing in this model. Two handlers, which arrive in
  the order of their numbers (`InTurn`: names of requests mean nothing), race on one job. Visitors
  are the client and the technician who can gain the job by an assignment, and either may be
  followed by the other in the tab; the seeded job is the one with the internal note and belongs
  to the other technician. `Telling` leaves out requests a list does not tell apart: changes of a
  job's time, a status set by an admin, a second upload; and it lets the notifications be fetched before
  the jobs, since no property relates the two lists (an event still meets either fetch at every
  point). `MaxTrips` bounds mishaps of tab and server together (`Room`). When somebody signs in
  both cached lists are older than `staleTime`, or neither is, or both are gone. TLC reaches each excuse: without
  `absorbed` in `Excused`, or `failed` in `BoardsConverge`, it finds a counterexample.
* *Browser.* Two tabs are needed to share a cookie, or to sweep one another from two
  browsers; `TwoSettings` has both. Two logins and two refreshes give a chain and a second
  chain to be swept; two logins and two logouts give a tab that signs out after another has
  signed in over it and out again. `MaxOpen` bounds the requests under way, `MaxMishaps` the handlers that break
  and the connections that are lost. `Wait` lets time pass only when no handler is midway: lifetimes are
  days, handlers take milliseconds.
* *Verification.* Three calls with a limit of 2, so that one is turned down; windows and tokens of
  one tick and two ticks of time, so that calls counted in one window decide in the next. Two verifications
  may present one token or two. The run has the setting of the production example; with the setting ""
  the limiter fails closed, which the proofs cover.
* `MaxFaults`, `MaxCrashes`, `MaxStalls`, `MaxMishaps`, `MaxTrips` and `MaxTime` bound only
  the environment; the proofs hold for every value.

Symmetry is used only over values no definition orders or names (requests of
one endpoint, technicians, processes) and never in a run with a temporal property
under fairness.

### Fairness

* `AuthSessions`, `FairSpec`: weak fairness of `Continue(r)`. A handler that was
  started is resumed by the event loop when the database answers. Nothing makes a
  client call, an await fail or time pass, so those actions have none.
* `Outbox`, `FairSpec`: weak fairness of a dispatcher's next step (the timer of
  `workers.ts` fires every five seconds and the loop goes on when a call answers),
  of time passing a back-off, and of BullMQ's worker taking and finishing
  jobs. Failures, deaths and stalls are not fair and are bounded.
* `LiveBoards`, `FairBoardSpec`: weak fairness of handlers going on when the database
  answers, and of `Refresh(b)`: the query client fetches a stale query on screen until a fetch
  has failed twice, and an answer arrives or its fetch fails. A query that was given up is not
  fetched, and a tab with an expired token fetches nothing. Nothing makes anybody sign in or out, or
  a socket connect, first or again.

---

## 5. Proofs

`AuthSessions_proofs`, `BrowserSession_proofs`, `Outbox_proofs`, `EmailVerification_proofs`,
`Jobs_proofs` and `LiveBoards_proofs` prove the safety properties of their modules, and the
refinements, for any sets of users, requests, calls, jobs, tabs, browsers, events, any finite
set of processes and any limits, from the named assumptions the modules state about their
constants. Each of them begins with the inductive invariant it uses, which TLC was given as an
invariant before it was proved: a module for TLC need only extend the module of the proofs.

**AuthSessions.** None of the four safety properties is inductive alone.
`IInv` conjoins them with `TypeOK` and four facts about handlers in flight:
`HandlerInv` (a handler is where its route leads, unanswered, on rows that exist),
`RowInv` (the row a request will create is absent until it does; roots and
replaced rows exist), `SweepInv` (every row a running sweep knows is revoked
already or among those it is about to revoke: this is what makes the reuse
report honest) and `PasswordInv` (a rotation carries a password that was in force
at its lookup, and a running reset has picked every usable session that was not
issued across it). `TokenInv`, an invariant of its own, follows reset tokens: a mailed one keeps
its user and is marked only in a step that changes his password, so that a reset whose token was marked
finds another password than it read. The proof has one lemma per action and, under it, a step per
conjunct that the action disturbs. Theorems: `TypeCorrect`, `HonestRevocation`,
`PasswordMatch`, `OneLiveSession`, `ChainSound`, `ResetReuseOverlaps`, and `RefinesLedger`, in which every
step of `AuthSessions` is mapped to `Issue`, `Exchange`, `Close` or a stutter of
`SessionLedger`.

**Outbox.** `IInv` adds to `TypeOK`, `PublishedWasQueued` and `ProcessingHasOwner`:
`HandedOver` (a tick about to mark its event published has handed it over),
`AttemptsReserved` (attempts plus the processes that still hold the event stay
below the cap plus the number of processes: each holder can add one attempt, and
a new holder comes only while attempts are below the cap) and `MailBudgets` (by
the state of its job, an event has used at most as many e-mails as causes were
counted). The counting step rests on the cardinality of the set of holders, the
choice of the current event on a lemma that a non-empty set of naturals has a
least member. `RefinesMailService` maps the end of a call to the queue to `Accept`, a mark to
`Publish` or `Withdraw`, a sending to `Send`, a stalled or removed job to `Forget`, and a claim,
a crash or a retry to a stutter. It takes from `MailBudgets` that a job about to send has credit, from
`HandedOver` that its event was accepted, and `BatchRecorded`, an invariant of its own: a tick holds
recorded events only, so that what it marks or hands over was recorded. Theorems: `OutboxInductive`,
`OutboxTypeCorrect`, `PublishedQueued`, `ProcessingOwned`, `AttemptsBounded`,
`DuplicatesExplained`, `RefinesMailService`.

**RateLimit and EmailVerification.** `WithinLimit` counts calls, and is not inductive: nothing
in it tells why a call that is still to decide will not be one too many. `CountingInv` does. INCR
answers each call of a window a different number (`RanksDiffer`), at most the counter
while that lives, and at most `Max` for a call that passed (`CountedOK`): the calls let through
inject into `1..Max`, and the bound on their number follows from the cardinality of that interval
(`RanksBound`). A resent INCR skips a number, a counter that expires starts a new epoch; neither
repeats one. For the verification `IInv` adds where a handler's token comes from (`LinkOK`),
what it wrote before each await (`WrittenOK`), and that two handlers with one token overlap
as long as both are past their lookup (`SharersOverlap`: a lookup demands an unused token, and
a handler that is done has marked its own). The proof separates the steps of the limiter, of the request
and of the verification, each with lemmas on what it leaves alone. Theorems:
`VerificationInductive`, `VerificationTypeCorrect`, `LimitHolds`, `EndlessExplained`, `UsedVerified`,
`ReuseOverlaps`, `Audited`, for either setting of fail-open.

**Jobs.** The proof first reduces the handlers to what their steps do: by `StepOutcome`
every step of handler r is `Quiet`, the tables stay, but for marks in the inbox, or it
`Commits` one entry, and moves no other handler. What an entry promises is `Committed`: the
row of its job afterwards, and, for an entry that is not a creation, what r had seen when
it looked the job up. The conjuncts of `IInv` are then preserved once per kind of outcome,
not once per action. `RowRecorded` (the row of a job is the one its last entry left)
links the tables to the log; `HandlerOK` says what a handler still knows between its lookup
and its commit: the row it carries is the job's unless the log shows a commit since, its
technician unless the log shows an assignment since, and every time it saw given is in that row or
overwritten. From it follow `AuditFromExplained`, `ScheduleExplained` and
`TechnicianHadJob`, each of which is about a decision on a row that may be stale. `UploadOK`
places the file before the row and every lost commit before its cleanup. `Replaced` chooses the
last earlier entry of a job, which exists by the well-foundedness of the naturals
(`LastExists`). `RefinesWorkflow` maps a commit to a recorded change of `Workflow` and
every other step to a stutter. The proof needs `"SAME" \notin Users \cup {NoOne}`: the mark of an
entry that says nothing is nobody's name.

**LiveBoards.** `BoardsCurrent` speaks of the user who is signed in and of what the tab shows.
It is not inductive: what a tab shows to the next user depends on what was cached for the last
one, and what it shows next on the answer that is coming. `KeptUp` states it for the user an
answer was *given to*, whoever is signed in (`AnswerKept`), and for both answers: the cached one may
be stale, the one on its way may not, since its arrival clears the mark. An event addressed to
it must therefore have been counted as absorbed, or lost (`DeliverFacts`); `OneAnswer` says that only a
query without an answer has one coming, so that a refetch cannot forget what the other missed.
Its preservation needs to know whom a
commit concerns: `Heard` (every user is in the audience, or `Spared`: does not see the job
before or after, or lost or gained it by an assignment that raced with the commit, which
`HandlerOK` shows in the log), one lemma per command; `SparedMatches` carries a list over a
commit its user is spared. `Rings` is the same for notifications, and `Lost` for handlers
that die or take a commit for a failure. `AnswersFiltered` is the inductive form of
`ClientsSeeTheirs`, again for both answers. What is proved of `Jobs` carries over: by `BoardsRunJobs` every behaviour of the
boards is one of its behaviours. Theorems: `BoardsRunJobs`, `BoardsInductive`, `BoardsTypeCorrect`, `ClientsSeeOnlyTheirs`,
`BoardsStayCurrent`.

**BrowserSession.** Every step of a browser or of the network leaves the tables of `AuthSessions`
alone or starts one of its handlers (`BrowserImplements`), so `IInv` carries over.
`BrowserInv` joins it with `BrowserTypeOK` and `ClientInv`, whose conjuncts answer in turn what the
three safety properties leave open.

* *What is a request doing?* `RouteInv`, `TargetInv` and `IssueInv`: a handler works on the token
  its request carried, and a session comes from a form or from a token that is closed by then.
* *Where can a token be?* `CookieInv`, `CarriedInv`, `RootInv`, `HeldInv` and `LeftInv`: only in
  the browser it was issued to, and only once an answer brought it there.
* *What does "in turn" give?* By `InTurn` two requests of one browser overlap or one has its
  answer. A success takes the token it presented out of the cookie for good (`Presented`), so two
  requests in turn carry one token only if one of them failed (`PresentedOnce`), and a request under
  way carries the cookie unless it overlaps the request that set it (`CookieCarried`).
* *What closes a session?* `ClosedInv`: `closedBy` names a sweep, an expiry, a handler that failed
  after its commit, or the request that presented it (`Consumed`). `ReuseExplained` and
  `CookieUsable` follow from it with `PresentedOnce` and `Presented`.
* *What does a logout leave?* Without overlaps (`Clean`) no token is exchanged twice
  (`RotatedOnce`), a login has one session that was not exchanged (`OneTip`), and a usable session its
  browser knows of is the cookie (`UsableHeld`). So a logout of the login presents its
  last session, and `LogoutInv` keeps that true afterwards: no cookie of that login is
  left, nothing is sent with one, and a logout that carried none found nothing usable.

TLC checked the invariant on a small instance first. The proof failed nevertheless on an
earlier `LogoutEnds`, and for a good reason: with two logouts, t1 signs in, t2 of the same browser signs
in over it and out again, and t1's logout, which now carries no cookie, succeeds and ends
nothing, although no two requests overlapped. The instance had one logout. `displaced` names this
cause, and `browser_sessions` has the second logout. The proof also asks that `NoOne` is neither a tab
nor an action (`NullAssumption`): a mark for "nothing" that could be an audit action would
make an unanswered request a sweep. Theorems: `BrowserImplements`, `BrowserInductive`,
`BrowserTypeCorrect`, `ReuseIsExplained`, `CookieStaysUsable`, `LogoutEndsLogin`.

**Only model-checked.** `EveryRequestAnswered`, `EveryEventSettled`, `PublishedLeadsToMail` and
`BoardsConverge`: liveness rests on fairness and ENABLED, which are beyond the prover. Every safety
property of a passing run is proved. The four statements section 6 begins with are false and
have counterexamples.

---

## 6. Where the code and its statements differ

Each of these four is a run that TLC ends with a counterexample; the properties are at
the end of their modules.

* **A reset token can be used twice** (`auth_token_twice`). "Tokens are
  single-use" (docs/07). The test of `usedAt` comes before `bcrypt.hash`, and the
  transaction marks the token by id whether or not it was marked meanwhile. `ResetTokenReuseExplained`
  says that this is the only way, and what would notice it: the second request finds that the
  password has changed since its lookup.
* **A session of the old password can survive a reset** (`auth_old_session`).
  "Password reset revokes active refresh sessions so stolen or old sessions cannot
  continue" (docs/07). A login or refresh that is under way inserts its row after
  the sweep picked its rows. `LiveSessionsMatchPassword` says that this is the only way.
* **A locked job can be reassigned** (`jobs_locked`). "Completed or cancelled jobs
  cannot be reassigned" is tested on the row read before the transaction.
* **A former technician can move a job** (`jobs_assignee`). The policy is asked
  about the row read before the transaction.

Two more statements fail inside runs that pass, because the property names the failure as a cause:

* **A verification token can be used twice** (`verification`). docs/07:11-16 says of "both
  workflows" that "Tokens are single-use". `verifyEmail` tests `usedAt` at its lookup
  (`auth.service.ts:204`) and marks the token by id two awaits later, used or not: two verifications
  that both looked it up succeed. `TokenReuseExplained` says that overlapping is the only way;
  `TokenSingleUse`, beside it, is the statement of the document, and TLC violates it when
  it takes the other's place in `verification.cfg`.
* **A list can stay stale although its event arrived** (`boards`). docs/17:104 says that the front
  end "invalidates TanStack Query caches and refetches". An event that arrives while the first
  answer of a query is on its way starts no fetch, and the answer, which may be older than the
  event, makes the list count as fresh. So does, in effect, a fetch that fails twice: nothing repeats
  it. `BoardsCurrent` and `BoardsConverge` name both (`absorbed`, `failed`) beside the event that
  was lost; until the next event, or until the page is opened again, the list lacks the change.

Seen while modelling, and no more than the reading of one line: `config.ts:16-17` parse
`TRUST_PROXY` and `RATE_LIMIT_FAIL_OPEN` with `z.coerce.boolean()`, for which every text but the empty
one is true. `RATE_LIMIT_FAIL_OPEN=false`, as `.env.production.example:23`,
`deployment/README.md:137` and docs/26:144 ask for, leaves the limiter open. `FailOpen` of
`RateLimit` says so.

What the passing runs tell about this code, stated by their properties rather than denied by them:

* Nothing changes a cookie but a success. A browser whose session was swept, or expired on the
  server, presents its dead token at every reload; each time that is reported as reuse and
  closes the sessions its user has opened elsewhere, whose browsers then do the same
  (`ReuseExplained`, the disjuncts for sweeps and expiry).
* A rotation whose answer is lost, or whose audit record fails after the commit, leaves the
  browser with a token that was just revoked (`CookieUsable`).
* A logout that fails signs the page out and leaves the session; one sent after another tab
  of the browser signed in closes the other's session instead, or none if that tab has signed
  out as well (`LogoutEnds`, the disjunct for `displaced`).
* The next user of a tab is shown the cached lists of the one before for up to `staleTime`
  (`ClientsSeeTheirs`; `BoardsCurrent` and `BoardsConverge` speak of a user's own answers only).
* An event sent after the first answer and before the socket has connected is lost, and nothing is
  fetched when it connects (`BoardsCurrent`, `missed`).
* The log does not name the status an assignment sets: to a reader who goes by the metadata
  alone, a job created as NEW and then assigned is still NEW (`AuditExplainsJob`, `StatusTold`).
* An assignment without a time undoes a time that was set meanwhile (`ScheduleExplained`), and
  the "from" of a record can name a status or technician the commit did not replace
  (`AuditFromExplained`).
* A counter whose first call is cut short before PEXPIRE, or whose INCR is sent twice, blocks its
  address until somebody deletes it (`EndlessCountersExplained`).

---

## 7. What is not modelled, and open hazards

* *Access tokens* stay valid until they expire, by design, after logout, reset or
  revocation; nothing the server keeps tells such a token from another. `LiveBoards` models
  what a tab does with one that expires.
* *Configuration* is a value, not a behaviour: its hazard (section 6) has no property.
* *Audit records of sessions.* A handler that fails between a revocation and its record leaves one
  without the other; the model does so too (`AbortRequest`), and no statement of the repository
  about that log is there to be kept. What it does to a browser is `ReuseExplained` and `CookieUsable`.
* *Two replacements of one token.* Two refreshes of one token both succeed and
  `replacedByTokenId` keeps the later; the other replacement is linked from nowhere.
  `ReplacementChain` and `OneLiveSessionPerLogin` state what remains true: links are
  sound, and such a race (`forked`) is the only way to two usable sessions.
* *Audit order*: the log is ordered by commit. Two commits on one job are ordered
  by its row lock; `createdAt` may order records of different jobs otherwise.
* *Realtime*: the event of a note or an upload goes to the technician of the row
  that was looked up; a technician assigned meanwhile is not told of the note,
  and of two racing assignments the loser is not told that the job has gone.
  `UpToDate` says what remains true after such a race. The Redis adapter between several API
  processes is taken to deliver what one process emits. `admin-overview` is invalidated like
  the list of jobs and is not modelled beside it. A search or another page of the list is a query of
  its own, with a first fetch of its own; one such query stands for all.
* *Limiters of login, refresh and reset* are instances of the same function with other constants;
  a call they turn down looks to the browser like a failed one.
* *Notifications*: the cut at 30 entries; *search and pagination*: one query
  each; *directory, overview, health, logging, migrations, UI, deployment*: no
  state that steps of several actors share.
* *EmailQueue* stands for a library and a provider: it is modelled from the options
  this repository passes, and `causes` counts exactly the two ways in which those
  options allow a second e-mail.

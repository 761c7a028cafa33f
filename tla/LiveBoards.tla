----------------------------- MODULE LiveBoards -----------------------------
(***************************************************************************)
(* The job workflow of Jobs together with the browsers that show it: the   *)
(* rooms of src/backend/src/realtime/socket.ts, the invalidation in        *)
(* src/frontend/src/realtime, and the query cache of src/frontend/src/app. *)
(*                                                                         *)
(* An event carries no data: it marks an answer as stale and the page asks  *)
(* again.  The query client starts a fetch over that an event overtakes,   *)
(* but only if it holds an answer already: such a fetch is one step.  A    *)
(* first fetch is two, the server answers and the answer arrives; an event *)
(* between them starts nothing, and the answer takes its mark away.  A     *)
(* fetch that fails twice is given up until something asks for it again.   *)
(*                                                                         *)
(* The cache belongs to the tab, not to the user: signing out does not     *)
(* clear it.  Events reach a tab only while its socket is connected,       *)
(* fetches succeed only until its access token expires; the page renews    *)
(* neither.                                                                *)
(***************************************************************************)
EXTENDS Jobs

CONSTANTS
  Browsers,     \* tabs
  Visitors,     \* the users who sign in at them
  MaxTrips      \* bound on what happens besides: failures of the server,
                \* sign-outs, page loads, dropped sockets, expired tokens,
                \* failed fetches

ASSUME TripAssumption == MaxTrips \in Nat
ASSUME VisitorAssumption == Visitors \subseteq Users
ASSUME OrderAssumption == Requests \subseteq Nat

VARIABLES
  user,      \* user[b]: who is signed in
  cache,     \* cache[b][q]: the last answer to q, and to whom it was given
  coming,    \* coming[b][q]: the first answer to q, on its way
  stale,     \* stale[b]: queries that are invalid or were never answered
  failed,    \* failed[b]: stale queries nothing fetches, their fetch failed
  online,    \* tabs whose socket is connected
  spent,     \* tabs whose access token has expired
  missed,    \* history: missed[b]: queries whose event did not arrive
  absorbed,  \* history: absorbed[b]: queries whose event came with their
             \* first answer on its way
  trips

lists == <<cache, coming, stale, failed, missed, absorbed>>
tab == <<user, lists, online, spent, trips>>
allVars == <<vars, tab>>

Queries == {"jobs", "notifications"}
NoAnswer == [for |-> NoOne, data |-> {}]

\* Seeded fault: the list is sent without the filter for clients.
Shown_Unfiltered(u) ==
  {[id |-> j, row |-> job[j],
    notes |-> {n \in notes : n.job = j},
    attachments |-> {a \in attachments : a.job = j}] : j \in {x \in JobIds : Visible(u, x)}}

\* What GET /jobs answers to u: the visible jobs, for a client without the
\* internal notes.
Shown(u) ==
  {[id |-> j, row |-> job[j],
    notes |-> {n \in notes : n.job = j /\ (u \in Clients => ~n.internal)},
    attachments |-> {a \in attachments : a.job = j}] : j \in {x \in JobIds : Visible(u, x)}}

\* What GET /jobs and GET /notifications answer to u.
Answer(q, u) == IF q = "jobs" THEN Shown(u) ELSE {n \in inbox : n.user = u}

Room == trips + faults < MaxTrips

-----------------------------------------------------------------------------
(* Events *)

\* The users an "emit" of r addresses by their rooms.
Addressed(r, q) == IF q = "jobs" THEN loc[r].audience ELSE loc[r].notified

\* The queries an "emit" of r invalidates in b.
Arriving(r, b) ==
  IF b \in online THEN {q \in Queries : user[b] \in Addressed(r, q)} ELSE {}

\* What the onSuccess of the mutation invalidates in the tab that sent r.
OwnAnswer(r) ==
  LET mine == {i \in DOMAIN log : log[i].by = r}
  IN  IF \E i \in mine : log[i].action \in {"JOB_CREATED", "JOB_STATUS_CHANGED"}
      THEN Queries
      ELSE IF \E i \in mine : log[i].action # "JOB_ASSIGNED" THEN {"jobs"} ELSE {}

\* The users who are not told of a change to their answer to q: the handler
\* dies before the emit, takes a commit for a failure, or marks as read.
Untold(r, q) ==
  IF pc[r] = "emit" /\ pc'[r] = "failed" THEN Addressed(r, q)
  ELSE IF q = "notifications" THEN {n.user : n \in inbox \ inbox'}
  ELSE IF lostAcks' # lostAcks THEN Users ELSE {}

\* The answers b has or is about to have, by the user they were given to.
AnsweredTo(b, q) == {cache[b][q].for, coming[b][q].for} \ {NoOne}

\* The events go out when the handler finishes.  One that finds a query without
\* an answer but with a fetch under way changes nothing about that fetch.
Deliver(r) ==
  LET sent == pc[r] = "emit" /\ pc'[r] = "done"
      told(b) == IF sent THEN Arriving(r, b) ELSE {}
      lost(q) == IF sent THEN Addressed(r, q) ELSE Untold(r, q)
  IN  /\ \E own \in {{}} \cup {{b} : b \in {x \in Browsers : sent /\ user[x] = loc[r].actor}} :
           LET invalid(b) == told(b) \cup (IF b \in own THEN OwnAnswer(r) ELSE {})
           IN  /\ stale' = [b \in Browsers |-> stale[b] \cup invalid(b)]
               /\ failed' = [b \in Browsers |-> failed[b] \ invalid(b)]
      /\ missed' = [b \in Browsers |->
                      missed[b] \cup {q \in Queries : AnsweredTo(b, q) \cap lost(q) # {}
                                                        /\ q \notin told(b)}]
      /\ absorbed' = [b \in Browsers |->
                        absorbed[b] \cup {q \in told(b) : coming[b][q] # NoAnswer}]
      /\ UNCHANGED <<user, cache, coming, online, spent, trips>>

\* Requests are numbered in the order they arrive.
InTurn(r) == \A q \in Requests : q < r => pc[q] # "idle"

Handle(r) ==
  /\ (Arrive(r) /\ InTurn(r)) \/ Continue(r) \/ (Break(r) /\ Room)
  /\ Deliver(r)

-----------------------------------------------------------------------------
(* Tabs *)

\* The query client fetches q for the user who is signed in.
Active(b, q) == user[b] # NoOne /\ q \in stale[b] \ failed[b]

\* Every event so far is in the answer the server gives now.
Caught(b, q) ==
  /\ missed' = [missed EXCEPT ![b] = @ \ {q}]
  /\ absorbed' = [absorbed EXCEPT ![b] = @ \ {q}]

\* Seeded fault: the query is taken as fresh, the answer in the cache stays.
Fetch_KeepsAnswer(b, q) ==
  /\ Active(b, q) /\ b \notin spent
  /\ cache[b][q] # NoAnswer
  /\ stale' = [stale EXCEPT ![b] = @ \ {q}]
  /\ Caught(b, q)
  /\ UNCHANGED <<vars, user, cache, coming, failed, online, spent, trips>>

\* A list that has an answer is fetched again.
Fetch(b, q) ==
  /\ Active(b, q) /\ b \notin spent
  /\ cache[b][q] # NoAnswer
  /\ cache' = [cache EXCEPT ![b][q] = [for |-> user[b], data |-> Answer(q, user[b])]]
  /\ stale' = [stale EXCEPT ![b] = @ \ {q}]
  /\ Caught(b, q)
  /\ UNCHANGED <<vars, user, coming, failed, online, spent, trips>>

\* The server answers a first fetch ...
Ask(b, q) ==
  /\ Active(b, q) /\ b \notin spent
  /\ cache[b][q] = NoAnswer /\ coming[b][q] = NoAnswer
  /\ coming' = [coming EXCEPT ![b][q] = [for |-> user[b], data |-> Answer(q, user[b])]]
  /\ Caught(b, q)
  /\ UNCHANGED <<vars, user, cache, stale, failed, online, spent, trips>>

\* ... and the answer arrives: the list counts as fresh, whatever has come
\* meanwhile and whoever is signed in now.
Receive(b, q) ==
  /\ coming[b][q] # NoAnswer
  /\ cache' = [cache EXCEPT ![b][q] = coming[b][q]]
  /\ coming' = [coming EXCEPT ![b][q] = NoAnswer]
  /\ stale' = [stale EXCEPT ![b] = @ \ {q}]
  /\ UNCHANGED <<vars, user, failed, online, spent, missed, absorbed, trips>>

Refresh(b) == \E q \in Queries : Fetch(b, q) \/ Ask(b, q) \/ Receive(b, q)

Trip == Room /\ trips' = trips + 1

\* An attempt fails, with its answer if there was one.  The first is repeated;
\* after the second the query stays as it is, until it is invalidated or comes
\* on screen again.
FetchFails(b, q) ==
  /\ Trip
  /\ Active(b, q)
  /\ coming' = [coming EXCEPT ![b][q] = NoAnswer]
  /\ \/ failed' = [failed EXCEPT ![b] = @ \cup {q}]
     \/ coming[b][q] # NoAnswer /\ failed' = failed
  /\ UNCHANGED <<vars, user, cache, stale, online, spent, missed, absorbed>>

\* u is in b with a new access token and a new socket, which is not connected yet.
Enter(b, u) ==
  /\ user' = [user EXCEPT ![b] = u]
  /\ online' = online \ {b}
  /\ spent' = spent \ {b}

\* The cache of b is empty: everything is to be fetched.
Emptied(b) ==
  /\ cache' = [cache EXCEPT ![b] = [q \in Queries |-> NoAnswer]]
  /\ coming' = [coming EXCEPT ![b] = [q \in Queries |-> NoAnswer]]
  /\ stale' = [stale EXCEPT ![b] = Queries]
  /\ missed' = [missed EXCEPT ![b] = {}]
  /\ absorbed' = [absorbed EXCEPT ![b] = {}]

\* The page is loaded again: a new query client, and the session is restored.
Load(b) ==
  /\ Trip
  /\ user[b] # NoOne
  /\ Enter(b, user[b])
  /\ Emptied(b)
  /\ failed' = [failed EXCEPT ![b] = {}]
  /\ UNCHANGED vars

\* Seeded fault: the socket stays open.
SignOut_KeepsSocket(b) ==
  /\ Trip
  /\ user[b] # NoOne
  /\ user' = [user EXCEPT ![b] = NoOne]
  /\ UNCHANGED <<vars, lists, online, spent>>

\* logout of AuthContext: the socket is closed, the cache is kept, and an answer
\* on its way still arrives.
SignOut(b) ==
  /\ Trip
  /\ user[b] # NoOne
  /\ user' = [user EXCEPT ![b] = NoOne]
  /\ online' = online \ {b}
  /\ UNCHANGED <<vars, lists, spent>>

\* login of AuthContext.  The lists come up again: they are fetched when they
\* were invalidated or are older than staleTime, and shown as they are when
\* they are not (both are old or both are not: no property relates the two); or
\* gcTime has passed and they are gone.
SignIn(b, u) ==
  /\ user[b] = NoOne
  /\ Enter(b, u)
  /\ \/ /\ \E old \in {{}, Queries} : stale' = [stale EXCEPT ![b] = @ \cup old]
        /\ UNCHANGED <<cache, coming, missed, absorbed>>
     \/ (\A q \in Queries : coming[b][q] = NoAnswer) /\ Emptied(b)
  /\ failed' = [failed EXCEPT ![b] = {}]
  /\ UNCHANGED <<vars, trips>>

\* The socket drops.
Drop(b) ==
  /\ Trip
  /\ b \in online
  /\ online' = online \ {b}
  /\ UNCHANGED <<vars, user, lists, spent>>

\* The socket connects, the first time or again, as long as the handshake accepts
\* the token: nothing is fetched.
Connect(b) ==
  /\ user[b] # NoOne /\ b \notin online \cup spent
  /\ online' = online \cup {b}
  /\ UNCHANGED <<vars, user, lists, spent, trips>>

\* The access token expires: fetches fail, the socket that is open stays.
Expire(b) ==
  /\ Trip
  /\ user[b] # NoOne /\ b \notin spent
  /\ spent' = spent \cup {b}
  /\ UNCHANGED <<vars, user, lists, online>>

\* Every tab has just loaded its page.  A seeded job is the one with the internal
\* note; which technician has it makes no difference.
BoardInit ==
  /\ Init
  /\ \A j \in JobIds : job[j].technician \in {NoOne, CHOOSE t \in Technicians : TRUE}
  /\ (\E j \in JobIds : Exists(j)) => notes # {}
  /\ user \in [Browsers -> Visitors]
  /\ cache = [b \in Browsers |-> [q \in Queries |-> NoAnswer]]
  /\ coming = [b \in Browsers |-> [q \in Queries |-> NoAnswer]]
  /\ stale = [b \in Browsers |-> Queries]
  /\ failed = [b \in Browsers |-> {}]
  /\ missed = [b \in Browsers |-> {}]
  /\ absorbed = [b \in Browsers |-> {}]
  /\ online = {} /\ spent = {}
  /\ trips = 0

Visit(b) ==
  \/ \E u \in Visitors : SignIn(b, u)
  \/ Load(b) \/ SignOut(b) \/ Drop(b) \/ Connect(b) \/ Expire(b)

BoardNext ==
  \/ \E r \in Requests : Handle(r)
  \/ \E b \in Browsers :
       Visit(b) \/ Refresh(b) \/ \E q \in Queries : FetchFails(b, q)

BoardSpec == BoardInit /\ [][BoardNext]_allVars

\* Handlers whose database answers go on; a page fetches what is stale and was
\* not given up, and the answer arrives unless the fetch fails.
BoardFairness ==
  /\ WF_allVars(\E r \in Requests : Continue(r) /\ Deliver(r))
  /\ \A b \in Browsers : WF_allVars(Refresh(b))

FairBoardSpec == BoardSpec /\ BoardFairness

-----------------------------------------------------------------------------
(* Properties *)

\* Cached answers are made of jobs and notifications there can be; a tab without
\* a user has no socket.
JobItem == [id : JobIds, row : JobRow,
            notes : SUBSET [by : Requests \cup {NoOne}, job : JobIds, internal : BOOLEAN],
            attachments : SUBSET [by : Requests, job : JobIds]]
InboxItem == [user : Users, by : Requests, job : JobIds, read : BOOLEAN]
Answers == [for : Users \cup {NoOne}, data : (SUBSET JobItem) \cup SUBSET InboxItem]
BoardTypeOK ==
  /\ user \in [Browsers -> Users \cup {NoOne}]
  /\ cache \in [Browsers -> [Queries -> Answers]]
  /\ coming \in [Browsers -> [Queries -> Answers]]
  /\ stale \in [Browsers -> SUBSET Queries]
  /\ failed \in [Browsers -> SUBSET Queries]
  /\ missed \in [Browsers -> SUBSET Queries]
  /\ absorbed \in [Browsers -> SUBSET Queries]
  /\ online \subseteq {b \in Browsers : user[b] # NoOne} /\ spent \subseteq Browsers
  /\ trips \in 0 .. MaxTrips

\* Another technician was given j between the lookup and the commit of a
\* handler: the two do not know of each other.
Raced(j) ==
  \E i, k \in DOMAIN log :
    log[i].job = j /\ log[k].action = "JOB_ASSIGNED" /\ Between(k, i)

\* What is shown to u is the answer to q.  After such a race the list of a
\* technician may lag for j, but not for the row of a job the technician has now.
Matches(shown, q, u) ==
  \/ shown = Answer(q, u)
  \/ /\ q = "jobs" /\ u \in Technicians
     /\ \A x \in (shown \cup Shown(u)) \ (shown \cap Shown(u)) : Raced(x.id)
     /\ \A j \in JobIds : job[j].technician = u =>
          \E x \in shown : x.id = j /\ x.row = job[j]

UpToDate(b, q) == Matches(cache[b][q].data, q, user[b])

\* Something is on its way that makes b ask again; or nothing is: the event was
\* lost, was absorbed by the first fetch, or the fetch it caused was given up.
Excused(b, q) ==
  \/ q \in stale[b] \ failed[b]
  \/ \E r \in Requests : pc[r] = "emit" /\ user[b] \in Addressed(r, q)
  \/ q \in missed[b] \cup absorbed[b] \cup failed[b]

\* Whoever is signed in, and is shown an answer of his own, sees the jobs and
\* notifications the server would answer with now, but for the causes named.
BoardsCurrent ==
  \A b \in Browsers, q \in Queries :
    user[b] # NoOne /\ cache[b][q].for = user[b] => UpToDate(b, q) \/ Excused(b, q)

\* A client sees an internal note or the job of another client only in a tab
\* where somebody else was signed in before, in an answer that was fresh when
\* the client signed in.
ClientsSeeTheirs ==
  \A b \in Browsers :
    user[b] \in Clients =>
      \A x \in cache[b]["jobs"].data :
        \/ x.row.client = user[b] /\ \A n \in x.notes : ~n.internal
        \/ cache[b]["jobs"].for # user[b]

-----------------------------------------------------------------------------
(* Liveness *)

\* When requests and visits are over, every list gets its first answer, and what
\* a tab shows settles on what the server holds, unless an event was lost or
\* absorbed, a fetch was given up or the tab can ask no more.
BoardsConverge ==
  \A b \in Browsers, q \in Queries :
    <>[](\/ user[b] = NoOne \/ b \in spent
         \/ q \in missed[b] \cup absorbed[b] \cup failed[b]
         \/ cache[b][q].for \notin {user[b], NoOne}
         \/ cache[b][q] # NoAnswer /\ UpToDate(b, q))
=============================================================================

-------------------------- MODULE LiveBoards_proofs --------------------------
(***************************************************************************)
(* Proofs of the safety properties of LiveBoards, for every set of users,  *)
(* jobs, requests and tabs.  The handlers are those of Jobs, whose         *)
(* invariant carries over; what is new is who hears of a commit.           *)
(***************************************************************************)
EXTENDS LiveBoards, Jobs_proofs

-----------------------------------------------------------------------------
(* The inductive invariant BoardsCurrent is proved from *)

\* A list answered to a client is the client's, whoever is signed in now, and also
\* while the answer is on its way.
Filtered(answer) ==
  answer.for \in Clients =>
    \A x \in answer.data : x.row.client = answer.for /\ \A n \in x.notes : ~n.internal
AnswersFiltered ==
  \A b \in Browsers : \A answer \in {cache[b]["jobs"], coming[b]["jobs"]} : Filtered(answer)

\* A technician is a job's technician only once the job was created.
HoldersExist == \A j \in JobIds : job[j].technician # NoOne => Exists(j)

\* An answer is kept up for the user it was given to, signed in or not.
AnswerKept(answer, b, q) ==
  \/ answer.for = NoOne
  \/ Matches(answer.data, q, answer.for)
  \/ q \in missed[b] \cup absorbed[b]
  \/ \E r \in Requests : pc[r] = "emit" /\ answer.for \in Addressed(r, q)

\* So is the cached one, or it is stale; so is the one on its way, whose arrival
\* clears the mark.
KeptUp(b, q) ==
  /\ \A answer \in {cache[b][q]} : q \in stale[b] \/ AnswerKept(answer, b, q)
  /\ \A answer \in {coming[b][q]} : AnswerKept(answer, b, q)

\* Only a query without an answer has one on its way.
OneAnswer(b, q) == cache[b][q] = NoAnswer \/ coming[b][q] = NoAnswer

BoardIInv ==
  /\ IInv /\ BoardTypeOK /\ AnswersFiltered /\ HoldersExist
  /\ \A b \in Browsers, q \in Queries : KeptUp(b, q) /\ OneAnswer(b, q)

-----------------------------------------------------------------------------
(* The handlers are those of Jobs *)

\* Every step of the boards is one of Jobs, or leaves the server alone.
LEMMA BoardStepIsStep == [BoardNext]_allVars => [Next]_vars
BY DEF BoardNext, Handle, Next, Visit, SignIn, Load, SignOut, Drop, Connect, Expire, Refresh,
       Fetch, Ask, Receive, FetchFails, allVars

\* What an event or its loss does to the tabs.
Lost(r, q) ==
  IF pc[r] = "emit" /\ pc'[r] = "done" THEN Addressed(r, q) ELSE Untold(r, q)

\* An answer that is nobody's is the empty one.
LEMMA NoAnswerFor == NoAnswer.for = NoOne /\ NoAnswer.data = {}
BY DEF NoAnswer

\* An event makes the list of everybody it is addressed to stale, or counts as
\* missed; where a first answer is on its way it counts as absorbed.
LEMMA DeliverFacts ==
  ASSUME BoardTypeOK, NEW r, Deliver(r)
  PROVE  /\ UNCHANGED <<cache, coming, user, online, spent, trips>>
         /\ stale' \in [Browsers -> SUBSET Queries] /\ failed' \in [Browsers -> SUBSET Queries]
         /\ missed' \in [Browsers -> SUBSET Queries] /\ absorbed' \in [Browsers -> SUBSET Queries]
         /\ \A b \in Browsers : /\ stale[b] \subseteq stale'[b]
                                /\ missed[b] \subseteq missed'[b]
                                /\ absorbed[b] \subseteq absorbed'[b]
         /\ \A b \in Browsers, q \in Queries :
              /\ cache[b][q].for \in Lost(r, q) \ {NoOne} => q \in stale'[b] \cup missed'[b]
              /\ coming[b][q].for \in Lost(r, q) \ {NoOne} => q \in missed'[b] \cup absorbed'[b]
<1> DEFINE sent == pc[r] = "emit" /\ pc'[r] = "done"
           told(b) == IF sent THEN Arriving(r, b) ELSE {}
           lost(q) == IF sent THEN Addressed(r, q) ELSE Untold(r, q)
<1>1. PICK own :
        /\ stale' = [b \in Browsers |-> stale[b] \cup
                       (told(b) \cup (IF b \in own THEN OwnAnswer(r) ELSE {}))]
        /\ failed' = [b \in Browsers |-> failed[b] \
                       (told(b) \cup (IF b \in own THEN OwnAnswer(r) ELSE {}))]
  BY DEF Deliver
<1>2. /\ missed' = [b \in Browsers |->
                      missed[b] \cup {q \in Queries : AnsweredTo(b, q) \cap lost(q) # {}
                                                        /\ q \notin told(b)}]
      /\ absorbed' = [b \in Browsers |->
                        absorbed[b] \cup {q \in told(b) : coming[b][q] # NoAnswer}]
      /\ UNCHANGED <<user, cache, coming, online, spent, trips>>
  BY DEF Deliver
<1>3. \A b \in Browsers : told(b) \subseteq Queries
  BY DEF Arriving
<1>4. OwnAnswer(r) \subseteq Queries
  BY DEF OwnAnswer, Queries
<1>5. \A q \in Queries : lost(q) = Lost(r, q)
  BY DEF Lost
<1> HIDE DEF told, lost, sent
<1>6. /\ stale \in [Browsers -> SUBSET Queries] /\ failed \in [Browsers -> SUBSET Queries]
      /\ missed \in [Browsers -> SUBSET Queries] /\ absorbed \in [Browsers -> SUBSET Queries]
  BY DEF BoardTypeOK
<1>7. /\ stale' \in [Browsers -> SUBSET Queries] /\ failed' \in [Browsers -> SUBSET Queries]
      /\ \A b \in Browsers : stale[b] \subseteq stale'[b] /\ told(b) \subseteq stale'[b]
  BY <1>1, <1>3, <1>4, <1>6
<1>8. /\ missed' \in [Browsers -> SUBSET Queries]
      /\ \A b \in Browsers : missed[b] \subseteq missed'[b]
      /\ \A b \in Browsers, q \in Queries :
           AnsweredTo(b, q) \cap lost(q) # {} => q \in told(b) \cup missed'[b]
  BY <1>2, <1>6
<1>9. /\ absorbed' \in [Browsers -> SUBSET Queries]
      /\ \A b \in Browsers : absorbed[b] \subseteq absorbed'[b]
      /\ \A b \in Browsers : \A q \in told(b) : coming[b][q] # NoAnswer => q \in absorbed'[b]
  BY <1>2, <1>3, <1>6
<1>10. ASSUME NEW b \in Browsers, NEW q \in Queries
       PROVE  /\ cache[b][q].for \in lost(q) \ {NoOne} => q \in told(b) \cup missed'[b]
              /\ coming[b][q].for \in lost(q) \ {NoOne} => q \in told(b) \cup missed'[b]
  BY <1>8 DEF AnsweredTo
<1>11. \A b \in Browsers, q \in Queries : coming[b][q].for # NoOne => coming[b][q] # NoAnswer
  BY NoAnswerFor
<1> QED
  BY <1>2, <1>5, <1>7, <1>8, <1>9, <1>10, <1>11

-----------------------------------------------------------------------------
(* Types *)

\* An answer is well typed.
LEMMA AnswerTypes ==
  ASSUME TypeOK, NEW q \in Queries, NEW u \in Users
  PROVE  [for |-> u, data |-> Answer(q, u)] \in Answers
<1>1. CASE q = "jobs"
  <2>1. ASSUME NEW j \in JobIds
        PROVE  [id |-> j, row |-> job[j],
                notes |-> {n \in notes : n.job = j /\ (u \in Clients => ~n.internal)},
                attachments |-> {a \in attachments : a.job = j}] \in JobItem
    <3>1. job[j] \in JobRow
      BY DEF TypeOK
    <3>2. {n \in notes : n.job = j /\ (u \in Clients => ~n.internal)}
            \in SUBSET [by : Requests \cup {NoOne}, job : JobIds, internal : BOOLEAN]
      BY DEF TypeOK
    <3>3. {a \in attachments : a.job = j} \in SUBSET [by : Requests, job : JobIds]
      BY DEF TypeOK
    <3> DEFINE N == {n \in notes : n.job = j /\ (u \in Clients => ~n.internal)}
               A == {a \in attachments : a.job = j}
               NoteSets == SUBSET [by : Requests \cup {NoOne}, job : JobIds, internal : BOOLEAN]
               FileSets == SUBSET [by : Requests, job : JobIds]
    <3>4. /\ N \in NoteSets /\ A \in FileSets
          /\ JobItem = [id : JobIds, row : JobRow, notes : NoteSets, attachments : FileSets]
      BY <3>2, <3>3 DEF JobItem
    <3> HIDE DEF N, A, NoteSets, FileSets
    <3>5. [id |-> j, row |-> job[j], notes |-> N, attachments |-> A] \in JobItem
      BY <3>1, <3>4
    <3> QED
      BY <3>5 DEF N, A
  <2>2. Shown(u) \subseteq JobItem
    <3> HIDE DEF TypeOK
    <3> QED
      BY <2>1 DEF Shown
  <2> QED
    BY <1>1, <2>2 DEF Answer, Answers
<1>2. CASE q # "jobs"
  <2>1. {n \in inbox : n.user = u} \subseteq InboxItem
    BY DEF TypeOK, InboxItem
  <2> QED
    BY <1>2, <2>1 DEF Answer, Answers
<1> QED
  BY <1>1, <1>2

\* The empty cache is well typed.
LEMMA EmptyAnswerType == NoAnswer \in Answers
BY DEF NoAnswer, Answers

\* Every event being in the answer keeps the types.
LEMMA CaughtTypes ==
  ASSUME BoardTypeOK, NEW b \in Browsers, NEW q \in Queries, Caught(b, q)
  PROVE  missed' \in [Browsers -> SUBSET Queries] /\ absorbed' \in [Browsers -> SUBSET Queries]
BY DEF Caught, BoardTypeOK

\* A fetch keeps the types, in one step or in two.
LEMMA FetchTypes ==
  ASSUME TypeOK, BoardTypeOK, NEW b \in Browsers, Refresh(b)
  PROVE  BoardTypeOK'
<1> PICK q \in Queries : Fetch(b, q) \/ Ask(b, q) \/ Receive(b, q)
  BY DEF Refresh
<1> DEFINE a == [for |-> user[b], data |-> Answer(q, user[b])]
<1>1. user[b] # NoOne => a \in Answers
  <2>1. user[b] # NoOne => user[b] \in Users
    BY DEF BoardTypeOK
  <2> QED
    BY <2>1, AnswerTypes
<1> HIDE DEF a
<1>2. CASE Fetch(b, q)
  <2>1. /\ cache' = [cache EXCEPT ![b] = [cache[b] EXCEPT ![q] = a]]
        /\ stale' = [stale EXCEPT ![b] = stale[b] \ {q}]
        /\ Caught(b, q) /\ user[b] # NoOne
        /\ UNCHANGED <<user, coming, failed, online, spent, trips>>
    BY <1>2 DEF Fetch, Active, BoardTypeOK, a
  <2>2. cache' \in [Browsers -> [Queries -> Answers]]
    BY <1>1, <2>1 DEF BoardTypeOK
  <2>3. stale' \in [Browsers -> SUBSET Queries]
    BY <2>1 DEF BoardTypeOK
  <2> QED
    BY <2>1, <2>2, <2>3, CaughtTypes DEF BoardTypeOK
<1>3. CASE Ask(b, q)
  <2>1. /\ coming' = [coming EXCEPT ![b] = [coming[b] EXCEPT ![q] = a]]
        /\ Caught(b, q) /\ user[b] # NoOne
        /\ UNCHANGED <<user, cache, stale, failed, online, spent, trips>>
    BY <1>3 DEF Ask, Active, BoardTypeOK, a
  <2>2. coming' \in [Browsers -> [Queries -> Answers]]
    BY <1>1, <2>1 DEF BoardTypeOK
  <2> QED
    BY <2>1, <2>2, CaughtTypes DEF BoardTypeOK
<1>4. CASE Receive(b, q)
  <2>1. /\ cache' = [cache EXCEPT ![b] = [cache[b] EXCEPT ![q] = coming[b][q]]]
        /\ coming' = [coming EXCEPT ![b] = [coming[b] EXCEPT ![q] = NoAnswer]]
        /\ stale' = [stale EXCEPT ![b] = stale[b] \ {q}]
        /\ UNCHANGED <<user, failed, online, spent, missed, absorbed, trips>>
    BY <1>4 DEF Receive, BoardTypeOK
  <2>2. cache' \in [Browsers -> [Queries -> Answers]]
    BY <2>1 DEF BoardTypeOK
  <2>3. coming' \in [Browsers -> [Queries -> Answers]]
    BY <2>1, EmptyAnswerType DEF BoardTypeOK
  <2>4. stale' \in [Browsers -> SUBSET Queries]
    BY <2>1 DEF BoardTypeOK
  <2> QED
    BY <2>1, <2>2, <2>3, <2>4 DEF BoardTypeOK
<1> QED
  BY <1>2, <1>3, <1>4

\* A mishap keeps the count of mishaps within its bound.
LEMMA TripTypes ==
  ASSUME TypeOK, BoardTypeOK, Trip
  PROVE  trips' \in 0 .. MaxTrips
<1>1. faults \in Nat
  <2>1. faults \in 0 .. MaxFaults
    BY DEF TypeOK
  <2> QED
    BY <2>1, FaultAssumption
<1> QED
  BY <1>1, TripAssumption DEF Trip, Room, BoardTypeOK

\* A fetch that fails keeps the types.
LEMMA FailTypes ==
  ASSUME TypeOK, BoardTypeOK, NEW b \in Browsers, NEW q \in Queries, FetchFails(b, q)
  PROVE  BoardTypeOK'
<1>1. trips' \in 0 .. MaxTrips
  BY TripTypes DEF FetchFails
<1>2. /\ coming' = [coming EXCEPT ![b] = [coming[b] EXCEPT ![q] = NoAnswer]]
      /\ UNCHANGED <<user, cache, stale, online, spent, missed, absorbed>>
  BY DEF FetchFails, BoardTypeOK
<1>3. coming' \in [Browsers -> [Queries -> Answers]]
  BY <1>2, EmptyAnswerType DEF BoardTypeOK
<1>4. failed \in [Browsers -> SUBSET Queries]
  BY DEF BoardTypeOK
<1>5. failed' = [failed EXCEPT ![b] = failed[b] \cup {q}] \/ failed' = failed
  BY DEF FetchFails
<1>6. failed' \in [Browsers -> SUBSET Queries]
  BY <1>4, <1>5
<1> QED
  BY <1>1, <1>2, <1>3, <1>6 DEF BoardTypeOK

\* An emptied cache keeps the types.
LEMMA EmptiedTypes ==
  ASSUME BoardTypeOK, NEW b \in Browsers, Emptied(b)
  PROVE  /\ cache' \in [Browsers -> [Queries -> Answers]]
         /\ coming' \in [Browsers -> [Queries -> Answers]]
         /\ stale' \in [Browsers -> SUBSET Queries]
         /\ missed' \in [Browsers -> SUBSET Queries]
         /\ absorbed' \in [Browsers -> SUBSET Queries]
<1>1. [q \in Queries |-> NoAnswer] \in [Queries -> Answers]
  BY EmptyAnswerType
<1>2. cache' \in [Browsers -> [Queries -> Answers]]
  BY <1>1 DEF Emptied, BoardTypeOK
<1>3. coming' \in [Browsers -> [Queries -> Answers]]
  BY <1>1 DEF Emptied, BoardTypeOK
<1> QED
  BY <1>2, <1>3 DEF Emptied, BoardTypeOK

\* What a visitor does keeps the types.
LEMMA VisitTypes ==
  ASSUME TypeOK, BoardTypeOK, NEW b \in Browsers, Visit(b)
  PROVE  BoardTypeOK'
<1>1. CASE \E u \in Visitors : SignIn(b, u)
  <2>1. PICK u \in Visitors : SignIn(b, u)
    BY <1>1
  <2>2. u \in Users /\ u # NoOne
    BY VisitorAssumption, RoleAssumption
  <2>3. /\ cache' \in [Browsers -> [Queries -> Answers]]
        /\ coming' \in [Browsers -> [Queries -> Answers]]
        /\ stale' \in [Browsers -> SUBSET Queries]
        /\ missed' \in [Browsers -> SUBSET Queries]
        /\ absorbed' \in [Browsers -> SUBSET Queries]
    <3>1. CASE Emptied(b)
      BY <3>1, EmptiedTypes
    <3>2. CASE /\ \E old \in {{}, Queries} : stale' = [stale EXCEPT ![b] = stale[b] \cup old]
               /\ UNCHANGED <<cache, coming, missed, absorbed>>
      BY <3>2 DEF BoardTypeOK
    <3> QED
      BY <2>1, <3>1, <3>2 DEF SignIn, BoardTypeOK
  <2>4. /\ user' = [user EXCEPT ![b] = u] /\ online' = online \ {b}
        /\ spent' = spent \ {b} /\ failed' = [failed EXCEPT ![b] = {}] /\ trips' = trips
    BY <2>1 DEF SignIn, Enter
  <2> QED
    BY <2>2, <2>3, <2>4 DEF BoardTypeOK
<1>2. CASE Load(b)
  <2>1. /\ user[b] # NoOne /\ user' = [user EXCEPT ![b] = user[b]]
        /\ online' = online \ {b} /\ spent' = spent \ {b}
        /\ Emptied(b) /\ failed' = [failed EXCEPT ![b] = {}]
    BY <1>2 DEF Load, Enter
  <2>2. trips' \in 0 .. MaxTrips
    BY <1>2, TripTypes DEF Load
  <2> QED
    BY <2>1, <2>2, EmptiedTypes DEF BoardTypeOK
<1>3. CASE SignOut(b) \/ Drop(b) \/ Expire(b)
  <2>1. trips' \in 0 .. MaxTrips
    BY <1>3, TripTypes DEF SignOut, Drop, Expire
  <2>2. /\ UNCHANGED lists
        /\ \/ /\ user' = [user EXCEPT ![b] = NoOne] /\ online' = online \ {b}
              /\ spent' = spent
           \/ user' = user /\ online' = online \ {b} /\ spent' = spent
           \/ user' = user /\ online' = online /\ spent' = spent \cup {b}
    BY <1>3 DEF SignOut, Drop, Expire
  <2> QED
    BY <2>1, <2>2 DEF BoardTypeOK, lists
<1>4. CASE Connect(b)
  BY <1>4 DEF BoardTypeOK, Connect, lists
<1> QED
  BY <1>1, <1>2, <1>3, <1>4 DEF Visit

-----------------------------------------------------------------------------
(* What a commit changes in an answer *)

\* A job as u is shown it.
Item(u, j) ==
  [id |-> j, row |-> job[j],
   notes |-> {n \in notes : n.job = j /\ (u \in Clients => ~n.internal)},
   attachments |-> {a \in attachments : a.job = j}]

\* A list shows the jobs its user may see.
LEMMA ShownItems ==
  ASSUME NEW u, NEW x
  PROVE  x \in Shown(u) <=> \E j \in JobIds : Visible(u, j) /\ x = Item(u, j)
BY DEF Shown, Item

\* An item shows the row of its job.
LEMMA ItemId ==
  ASSUME NEW u, NEW j
  PROVE  Item(u, j).id = j /\ Item(u, j).row = job[j]
BY DEF Item

\* After a step too a list shows the jobs its user may see.
LEMMA ShownItemsNext ==
  ASSUME NEW u, NEW x
  PROVE  x \in Shown(u)' <=> \E j \in JobIds : Visible(u, j)' /\ x = Item(u, j)'
BY DEF Shown, Item

\* After a step too an item shows the row of its job.
LEMMA ItemIdNext ==
  ASSUME NEW u, NEW j
  PROVE  Item(u, j)'.id = j /\ Item(u, j)'.row = job'[j]
BY DEF Item

\* e is what was committed, and other jobs stay as they were.
Apart(r, e) ==
  /\ Committed(r, e)
  /\ \A x \in JobIds : x # e.job =>
       /\ {n \in notes : n.job = x}' = {n \in notes : n.job = x}
       /\ {a \in attachments : a.job = x}' = {a \in attachments : a.job = x}

\* A commit on one job changes what is shown of no other.
LEMMA OthersShown ==
  ASSUME NEW r, NEW e \in Entry, Apart(r, e), NEW u, NEW j \in JobIds, j # e.job
  PROVE  /\ Visible(u, j)' <=> Visible(u, j)
         /\ Item(u, j)' = Item(u, j)
<1>1. job'[j] = job[j]
  BY DEF Apart, Committed
<1>2. /\ {n \in notes' : n.job = j} = {n \in notes : n.job = j}
      /\ {a \in attachments' : a.job = j} = {a \in attachments : a.job = j}
  BY DEF Apart
<1>3. {n \in notes' : n.job = j /\ (u \in Clients => ~n.internal)}
        = {n \in notes : n.job = j /\ (u \in Clients => ~n.internal)}
  BY <1>2
<1> QED
  BY <1>1, <1>2, <1>3 DEF Visible, Exists, Item

\* A job that u does not see before and after makes no difference to u.
LEMMA UnseenCommit ==
  ASSUME NEW r, NEW e \in Entry, Apart(r, e), NEW u,
         ~Visible(u, e.job), ~Visible(u, e.job)'
  PROVE  Shown(u)' = Shown(u)
<1> SUFFICES ASSUME NEW x PROVE x \in Shown(u)' <=> x \in Shown(u)
  OBVIOUS
<1>1. \A j \in JobIds : (Visible(u, j)' /\ x = Item(u, j)') <=> (Visible(u, j) /\ x = Item(u, j))
  BY OthersShown
<1> QED
  BY <1>1, ShownItems, ShownItemsNext

\* Otherwise the answers before and after differ in that job only.
LEMMA SeenCommit ==
  ASSUME NEW r, NEW e \in Entry, Apart(r, e), NEW u, NEW x, x.id # e.job
  PROVE  x \in Shown(u)' <=> x \in Shown(u)
<1>1. \A j \in JobIds : (Visible(u, j)' /\ x = Item(u, j)') <=> (Visible(u, j) /\ x = Item(u, j))
  BY OthersShown, ItemId, ItemIdNext
<1> QED
  BY <1>1, ShownItems, ShownItemsNext

\* A race between assignments stays in the log.
LEMMA RacedStays ==
  ASSUME TypeOK, NEW r, NEW e \in Entry, Committed(r, e), NEW j, Raced(j)
  PROVE  Raced(j)'
<1>1. PICK i \in DOMAIN log, k \in DOMAIN log :
        log[i].job = j /\ log[k].action = "JOB_ASSIGNED" /\ Between(k, i)
  BY DEF Raced
<1>2. /\ i \in DOMAIN log' /\ k \in DOMAIN log'
      /\ log'[i] = log[i] /\ log'[k] = log[k]
  BY LogFacts, Grows
<1> QED
  BY <1>1, <1>2 DEF Raced, Between

\* u need not hear of e: u does not see the job, or the commit raced with an
\* assignment u has lost, or gained, the job by.
Spared(u, e) ==
  \/ ~Visible(u, e.job) /\ ~Visible(u, e.job)'
  \/ /\ u \in Technicians
     /\ Raced(e.job)'
     /\ job'[e.job].technician = u => job'[e.job] = job[e.job] /\ Exists(e.job)

\* Who sees a technician's jobs.
LEMMA HolderSees ==
  ASSUME NEW u \in Technicians, NEW j \in JobIds, job[j].technician = u, Exists(j)
  PROVE  Item(u, j) \in Shown(u)
BY ShownItems DEF Visible

\* A list stays good over a commit its user is spared.
LEMMA SparedMatches ==
  ASSUME TypeOK, RowRecorded, LogOK, NEW r, NEW e \in Entry, Apart(r, e), NEW u \in Users,
         NEW shown, Matches(shown, "jobs", u), Spared(u, e),
         \A j \in JobIds : job[j].technician \in Technicians => Exists(j)
  PROVE  Matches(shown, "jobs", u)'
<1> DEFINE d == (shown \cup Shown(u)) \ (shown \cap Shown(u))
           dn == (shown \cup Shown(u)') \ (shown \cap Shown(u)')
<1>0. e.job \in JobIds /\ Committed(r, e)
  BY DEF Entry, Apart
<1>1. CASE ~Visible(u, e.job) /\ ~Visible(u, e.job)'
  <2>1. Shown(u)' = Shown(u)
    BY <1>1, UnseenCommit
  <2>2. ASSUME NEW j \in JobIds, u \in Technicians, job'[j].technician = u
        PROVE  job'[j] = job[j] /\ j # e.job
    <3>1. Exists(e.job)'
      BY <1>0 DEF Committed, Exists
    <3>2. j # e.job
      BY <1>1, <2>2, <3>1 DEF Visible
    <3> QED
      BY <1>0, <3>2 DEF Committed
  <2>3. CASE shown = Shown(u)
    BY <2>1, <2>3 DEF Matches, Answer
  <2>4. CASE /\ u \in Technicians
             /\ \A x \in d : Raced(x.id)
             /\ \A j \in JobIds : job[j].technician = u =>
                  \E x \in shown : x.id = j /\ x.row = job[j]
    <3>1. \A x \in dn : Raced(x.id)'
      BY <1>0, <2>1, <2>4, RacedStays
    <3>2. \A j \in JobIds : job'[j].technician = u =>
            \E x \in shown : x.id = j /\ x.row = job'[j]
      BY <2>2, <2>4
    <3> QED
      BY <2>4, <3>1, <3>2 DEF Matches
  <2> QED
    BY <2>3, <2>4 DEF Matches, Answer
<1>2. CASE /\ u \in Technicians
           /\ Raced(e.job)'
           /\ job'[e.job].technician = u => job'[e.job] = job[e.job] /\ Exists(e.job)
  <2>1. \A x \in d : Raced(x.id)
    BY DEF Matches, Answer
  <2>2. ASSUME NEW j \in JobIds, job[j].technician = u
        PROVE  \E x \in shown : x.id = j /\ x.row = job[j]
    <3>1. CASE shown = Shown(u)
      <4>1. Exists(j)
        BY <1>2, <2>2
      <4>2. Item(u, j) \in shown
        BY <1>2, <2>2, <3>1, <4>1, HolderSees
      <4> QED
        BY <4>2, ItemId
    <3>2. CASE shown # Shown(u)
      BY <2>2, <3>2 DEF Matches, Answer
    <3> QED
      BY <3>1, <3>2
  <2>3. ASSUME NEW x \in dn PROVE Raced(x.id)'
    <3>1. CASE x.id = e.job
      BY <1>2, <3>1
    <3>2. CASE x.id # e.job
      <4>1. x \in d
        BY <2>3, <3>2, SeenCommit
      <4> QED
        BY <1>0, <2>1, <4>1, RacedStays
    <3> QED
      BY <3>1, <3>2
  <2>4. ASSUME NEW j \in JobIds, job'[j].technician = u
        PROVE  \E x \in shown : x.id = j /\ x.row = job'[j]
    <3>1. job'[j] = job[j]
      BY <1>0, <1>2, <2>4 DEF Committed
    <3> QED
      BY <2>2, <2>4, <3>1
  <2> QED
    BY <1>2, <2>3, <2>4 DEF Matches
<1> QED
  BY <1>1, <1>2 DEF Spared

-----------------------------------------------------------------------------
(* Who hears of a commit *)

\* A handler that goes on to its events holds their audience.
LEMMA EmitToFacts ==
  ASSUME TypeOK, NEW r \in Requests, NEW users, NEW notified, EmitTo(r, users, notified)
  PROVE  /\ pc'[r] = "emit"
         /\ loc'[r].audience = Admins \cup (users \ {NoOne})
         /\ loc'[r].notified = notified \ {NoOne}
<1>1. pc'[r] = "emit"
  BY DEF TypeOK, EmitTo, Goto
<1>2. loc[r] \in Locals
  BY DEF TypeOK
<1>3. loc'[r] = [loc[r] EXCEPT !.audience = Admins \cup (users \ {NoOne}),
                               !.notified = notified \ {NoOne}]
  BY <1>2 DEF TypeOK, EmitTo, Locals
<1> QED
  BY <1>1, <1>2, <1>3 DEF Locals

\* The entry that was audited is the one that was committed.
LEMMA AuditedCommit ==
  ASSUME TypeOK, NEW r, Outcome(r), NEW action, NEW u, NEW j, NEW meta, NEW given,
         Audit(r, action, u, j, meta, given)
  PROVE  \E e \in Entry :
           /\ Apart(r, e) /\ log'[Len(log) + 1] = e
           /\ e.action = action /\ e.job = j /\ e.seen = loc[r].seen
<1> DEFINE x == [action |-> action, job |-> j, actor |-> u, by |-> r,
                 status |-> meta.status, technician |-> meta.technician,
                 from |-> meta.from, seen |-> loc[r].seen, given |-> given,
                 stored |-> job'[j]]
<1>1. log' = Append(log, x)
  BY DEF Audit
<1>2. x.action = action /\ x.job = j /\ x.seen = loc[r].seen
  OBVIOUS
<1> HIDE DEF x
<1>3. log \in Seq(Entry)
  BY DEF TypeOK
<1>4. Len(log') = Len(log) + 1 /\ log'[Len(log) + 1] = x /\ Len(log) \in Nat
  BY <1>1, <1>3
<1>5. Commits(r)
  BY <1>4 DEF Outcome, Quiet
<1>6. PICK e \in Entry : Apart(r, e)
  BY <1>5 DEF Commits, Apart
<1>7. log'[Len(log) + 1] = e
  BY <1>6, Grows DEF Apart
<1> QED
  BY <1>2, <1>4, <1>6, <1>7

\* A commit of r about a job of which another technician was found reading
\* than has it now raced with an assignment.
LEMMA CommitRaced ==
  ASSUME TypeOK, NEW r \in Requests, HandlerOK(r), pc[r] \in Midway,
         NEW e \in Entry, Committed(r, e), log'[Len(log) + 1] = e,
         e.job = loc[r].id, e.seen = loc[r].seen,
         loc[r].row.technician # job[loc[r].id].technician
  PROVE  Raced(e.job)'
<1>1. PICK k \in DOMAIN log : /\ k > loc[r].seen /\ log[k].job = loc[r].id
                              /\ log[k].action = "JOB_ASSIGNED"
  BY DEF HandlerOK
<1>2. /\ Len(log) \in Nat /\ DOMAIN log = 1 .. Len(log)
      /\ DOMAIN log' = 1 .. Len(log) + 1 /\ log'[k] = log[k]
  BY <1>1, LogFacts, Grows
<1>3. PICK i \in Nat : i = Len(log) + 1
  BY <1>2
<1>4. e.seen \in Nat
  BY DEF Entry
<1>5. /\ i \in DOMAIN log' /\ k \in DOMAIN log'
      /\ log'[i] = e /\ e.seen < k /\ k < i
  BY <1>1, <1>2, <1>3, <1>4
<1> QED
  BY <1>1, <1>2, <1>5 DEF Raced, Between

\* What r commits, and whom its event will address: everybody who is not spared.
Heard(r) ==
  \E e \in Entry :
    /\ Apart(r, e) /\ pc'[r] = "emit"
    /\ \A u \in Users : u \in loc'[r].audience \/ Spared(u, e)

\* An event to the looked-up users of a job whose row is left as it is.
LEMMA SnapshotHeard ==
  ASSUME TypeOK, NEW r \in Requests, HandlerOK(r), Outcome(r), pc[r] \in Midway,
         NEW action, Audit(r, action, loc[r].actor, loc[r].id, SaysNothing, NoOne),
         job' = job, EmitTo(r, {loc[r].row.client, loc[r].row.technician}, {})
  PROVE  Heard(r)
<1>0. PICK j \in JobIds : j = loc[r].id
  BY DEF HandlerOK
<1>1. PICK e \in Entry :
        /\ Apart(r, e) /\ log'[Len(log) + 1] = e
        /\ e.job = loc[r].id /\ e.seen = loc[r].seen
  BY AuditedCommit
<1>2. /\ pc'[r] = "emit"
      /\ loc'[r].audience = Admins \cup ({loc[r].row.client, loc[r].row.technician} \ {NoOne})
  BY EmitToFacts
<1>3. Exists(j) /\ loc[r].row.client = job[j].client
  BY <1>0 DEF HandlerOK
<1>4. ASSUME NEW u \in Users, u \notin loc'[r].audience, Visible(u, j) \/ Visible(u, j)'
      PROVE  Spared(u, e)
  <2>1. Visible(u, j) /\ u # NoOne
    BY <1>4, RoleAssumption DEF Visible, Exists
  <2>2. u \in Technicians /\ job[j].technician = u /\ loc[r].row.technician # u
    BY <1>2, <1>3, <1>4, <2>1 DEF Visible
  <2>3. Raced(e.job)'
    BY <1>0, <1>1, <2>2, CommitRaced DEF Apart
  <2> QED
    BY <1>0, <1>1, <1>3, <2>2, <2>3 DEF Spared
<1> QED
  BY <1>0, <1>1, <1>2, <1>4 DEF Heard, Spared

\* A note or an attachment is announced to everybody it concerns.
LEMMA NoteHeard ==
  ASSUME TypeOK, NEW r \in Requests, HandlerOK(r), Outcome(r), NoteCommit(r) \/ AttachCommit(r)
  PROVE  Heard(r)
<1>1. /\ pc[r] \in Midway /\ job' = job
      /\ EmitTo(r, {loc[r].row.client, loc[r].row.technician}, {})
      /\ \E action : Audit(r, action, loc[r].actor, loc[r].id, SaysNothing, NoOne)
  BY DEF NoteCommit, AttachCommit, AttachRow, Midway
<1> QED
  BY <1>1, SnapshotHeard

\* A change of status is announced to everybody it concerns.
LEMMA StatusHeard ==
  ASSUME TypeOK, NEW r \in Requests, HandlerOK(r), Outcome(r), StatusCommit(r)
  PROVE  Heard(r)
<1>0. PICK j \in JobIds : j = loc[r].id
  BY DEF HandlerOK, StatusCommit, Midway
<1>1. /\ pc[r] = "status" /\ job' = [job EXCEPT ![j].status = loc[r].status]
      /\ \E action, meta : Audit(r, action, loc[r].actor, j, meta, NoOne)
      /\ EmitTo(r, {job[j].client, job[j].technician}, {job[j].client})
  BY <1>0 DEF StatusCommit
<1>2. PICK e \in Entry : Apart(r, e) /\ e.job = j
  BY <1>1, AuditedCommit
<1>3. /\ pc'[r] = "emit"
      /\ loc'[r].audience = Admins \cup ({job[j].client, job[j].technician} \ {NoOne})
  BY <1>1, EmitToFacts
<1>4. job[j] \in JobRow
  BY DEF TypeOK
<1>5. job'[j].client = job[j].client /\ job'[j].technician = job[j].technician
  BY <1>1, <1>4 DEF TypeOK, JobRow
<1>6. ASSUME NEW u \in Users, u \notin loc'[r].audience
      PROVE  ~Visible(u, j) /\ ~Visible(u, j)'
  BY <1>3, <1>5, <1>6, RoleAssumption DEF Visible, Exists
<1> QED
  BY <1>2, <1>3, <1>6 DEF Heard, Spared

\* An assignment is announced to everybody it concerns.
LEMMA AssignHeard ==
  ASSUME TypeOK, NEW r \in Requests, HandlerOK(r), Outcome(r), AssignCommit(r)
  PROVE  Heard(r)
<1>0. PICK j \in JobIds, t \in Technicians : j = loc[r].id /\ t = loc[r].technician
  BY DEF HandlerOK, AssignCommit, Midway
<1>1. /\ pc[r] = "assign" /\ Reassigned(r)
      /\ \E action, meta, given : Audit(r, action, loc[r].actor, j, meta, given)
      /\ EmitTo(r, {job[j].client, t, loc[r].row.technician}, {t})
  BY <1>0 DEF AssignCommit
<1>2. PICK e \in Entry :
        /\ Apart(r, e) /\ log'[Len(log) + 1] = e
        /\ e.job = j /\ e.seen = loc[r].seen
  BY <1>1, AuditedCommit
<1>3. /\ pc'[r] = "emit"
      /\ loc'[r].audience =
           Admins \cup ({job[j].client, t, loc[r].row.technician} \ {NoOne})
  BY <1>1, EmitToFacts
<1>4. job[j] \in JobRow
  BY DEF TypeOK
<1>5. job'[j].client = job[j].client /\ job'[j].technician = t
  BY <1>0, <1>1, <1>4 DEF TypeOK, JobRow, Reassigned
<1>6. ASSUME NEW u \in Users, u \notin loc'[r].audience, Visible(u, j) \/ Visible(u, j)'
      PROVE  Spared(u, e)
  <2>1. u # NoOne /\ u # t /\ u \notin Admins /\ u # job[j].client /\ u # loc[r].row.technician
    BY <1>3, <1>6, RoleAssumption
  <2>2. u \in Technicians /\ job[j].technician = u /\ job'[j].technician # u
    BY <1>5, <1>6, <2>1 DEF Visible
  <2>3. Raced(e.job)'
    <3>1. loc[r].row.technician # job[j].technician /\ pc[r] \in Midway
      BY <1>0, <1>1, <2>1, <2>2 DEF Midway
    <3> QED
      BY <1>0, <1>2, <3>1, CommitRaced DEF Apart
  <2> QED
    BY <1>2, <2>2, <2>3 DEF Spared
<1> QED
  BY <1>2, <1>3, <1>6 DEF Heard, Spared

\* A creation is announced to everybody it concerns.
LEMMA CreateHeard ==
  ASSUME TypeOK, NEW r \in Requests, Outcome(r),
         NEW a \in Admins, NEW j \in JobIds, NEW c \in Clients,
         NEW t \in Technicians \cup {NoOne}, NEW time \in Times \cup {NoOne},
         CreateJob(r, a, j, c, t, time)
  PROVE  Heard(r)
<1>1. /\ ~Exists(j)
      /\ \E action, meta, given : Audit(r, action, a, j, meta, given)
      /\ EmitTo(r, {c, t}, {c, t})
      /\ \E status :
           job' = [job EXCEPT ![j] = [client |-> c, technician |-> t,
                                      status |-> status, time |-> time]]
  BY DEF CreateJob
<1>2. PICK e \in Entry : Apart(r, e) /\ e.job = j
  BY <1>1, AuditedCommit
<1>3. /\ pc'[r] = "emit"
      /\ loc'[r].audience = Admins \cup ({c, t} \ {NoOne})
  BY <1>1, EmitToFacts
<1>4. job'[j].client = c /\ job'[j].technician = t
  BY <1>1 DEF TypeOK
<1>5. ASSUME NEW u \in Users, u \notin loc'[r].audience
      PROVE  ~Visible(u, j) /\ ~Visible(u, j)'
  BY <1>1, <1>3, <1>4, <1>5, RoleAssumption DEF Visible
<1> QED
  BY <1>2, <1>3, <1>5 DEF Heard, Spared

\* Everybody whose notifications a commit of r changes will be told.
Rings(r) ==
  \A u \in Users :
    u \in loc'[r].notified \/ {n \in inbox' : n.user = u} = {n \in inbox : n.user = u}

\* A notification rings for the user it is for.
LEMMA NotifyRings ==
  ASSUME TypeOK, NEW r \in Requests, NEW users, NEW notified, NEW j, NEW to,
         Notify(r, to, j), EmitTo(r, users, notified), to \subseteq notified
  PROVE  Rings(r)
<1> DEFINE N == {[user |-> u, by |-> r, job |-> j, read |-> FALSE] : u \in to \ {NoOne}}
<1>1. inbox' = inbox \cup N
  BY DEF Notify
<1>2. \A n \in N : n.user \in to \ {NoOne}
  OBVIOUS
<1>3. loc'[r].notified = notified \ {NoOne}
  BY EmitToFacts
<1> HIDE DEF N
<1>4. ASSUME NEW u \in Users, u \notin loc'[r].notified
      PROVE  {n \in inbox' : n.user = u} = {n \in inbox : n.user = u}
  <2>1. \A n \in N : n.user # u
    BY <1>2, <1>3, <1>4
  <2> QED
    BY <1>1, <2>1
<1> QED
  BY <1>4 DEF Rings

\* Without a notification nothing has to ring.
LEMMA QuietRings ==
  ASSUME UNCHANGED inbox, NEW r
  PROVE  Rings(r)
BY DEF Rings

\* A step of a handler leaves the others where they are.
LEMMA OthersStill ==
  ASSUME TypeOK, NEW r \in Requests, Arrive(r) \/ Continue(r) \/ Break(r),
         NEW x \in Requests, x # r
  PROVE  pc'[x] = pc[x] /\ loc'[x] = loc[x]
<1>1. ASSUME NEW label, Goto(r, label) PROVE pc'[x] = pc[x]
  BY <1>1 DEF TypeOK, Goto
<1>2. ASSUME NEW label, Finish(r, label) PROVE pc'[x] = pc[x] /\ loc'[x] = loc[x]
  BY <1>1, <1>2 DEF TypeOK, Finish
<1>3. ASSUME NEW users, NEW notified, EmitTo(r, users, notified)
      PROVE  pc'[x] = pc[x] /\ loc'[x] = loc[x]
  BY <1>1, <1>3 DEF TypeOK, EmitTo
<1>4. ASSUME NEW u, NEW j, NEW input, NEW label, Keep(r, u, j, input), Goto(r, label)
      PROVE  pc'[x] = pc[x] /\ loc'[x] = loc[x]
  BY <1>1, <1>4 DEF TypeOK, Keep
<1>5. CASE Arrive(r)
  <2>1. CASE Refuse(r) \/ \E u \in Users : MarkRead(r, u)
    BY <1>2, <2>1 DEF Refuse, MarkRead
  <2>2. ASSUME NEW j, NEW a, NEW c, NEW t, NEW time, CreateJob(r, a, j, c, t, time)
        PROVE  pc'[x] = pc[x] /\ loc'[x] = loc[x]
    BY <1>3, <2>2 DEF CreateJob
  <2>3. ASSUME NEW j, NEW a, NEW t, NEW time, AssignLookup(r, a, j, t, time)
        PROVE  pc'[x] = pc[x] /\ loc'[x] = loc[x]
    BY <1>4, <2>3 DEF AssignLookup
  <2>4. ASSUME NEW j, NEW u, NEW status, StatusLookup(r, u, j, status)
        PROVE  pc'[x] = pc[x] /\ loc'[x] = loc[x]
    BY <1>4, <2>4 DEF StatusLookup
  <2>5. ASSUME NEW j, NEW u, NEW internal, NoteLookup(r, u, j, internal)
        PROVE  pc'[x] = pc[x] /\ loc'[x] = loc[x]
    BY <1>4, <2>5 DEF NoteLookup
  <2>6. ASSUME NEW j, NEW u, UploadLookup(r, u, j)
        PROVE  pc'[x] = pc[x] /\ loc'[x] = loc[x]
    BY <1>4, <2>6 DEF UploadLookup
  <2> QED
    BY <1>5, <2>1, <2>2, <2>3, <2>4, <2>5, <2>6 DEF Arrive, AdminRequest
<1>6. CASE Continue(r)
  <2>1. CASE AssignCommit(r) \/ StatusCommit(r) \/ NoteCommit(r) \/ AttachCommit(r)
    BY <1>3, <2>1 DEF AssignCommit, StatusCommit, NoteCommit, AttachCommit
  <2>2. CASE StoreFile(r)
    BY <1>1, <2>2 DEF StoreFile
  <2>3. CASE CleanUp(r) \/ Emit(r)
    BY <1>2, <2>3 DEF CleanUp, Emit
  <2> QED
    BY <1>6, <2>1, <2>2, <2>3 DEF Continue
<1>7. CASE Break(r)
  <2>1. CASE AttachFails(r)
    BY <1>1, <2>1 DEF AttachFails
  <2>2. CASE StoreFails(r) \/ Fail(r) \/ Die(r)
    BY <1>2, <2>2 DEF StoreFails, Fail, Die
  <2> QED
    BY <1>7, <2>1, <2>2 DEF Break
<1> QED
  BY <1>5, <1>6, <1>7

\* The steps of a handler, by what they do to answers.
Calm == UNCHANGED tables

\* A commit that is taken for a failure.
Mistaken(r) == pc[r] # "emit" /\ lostAcks' # lostAcks /\ UNCHANGED inbox

\* A step of a handler leaves the tables alone, marks as read, commits and is heard
\* of, or commits what it takes for a failure.
LEMMA StepKinds ==
  ASSUME IInv, NEW r \in Requests, Arrive(r) \/ Continue(r) \/ Break(r)
  PROVE  \/ Calm
         \/ \E u \in Users : MarkRead(r, u)
         \/ Heard(r) /\ Rings(r)
         \/ Mistaken(r)
<1>0. TypeOK /\ HandlerOK(r) /\ UploadOK(r) /\ Outcome(r)
  BY StepOutcome DEF IInv
<1>1. CASE Arrive(r)
  <2>1. CASE Refuse(r)
    BY <2>1 DEF Refuse, Calm
  <2>2. ASSUME NEW a \in Admins, NEW j \in JobIds, NEW c \in Clients,
               NEW t \in Technicians \cup {NoOne}, NEW time \in Times \cup {NoOne},
               CreateJob(r, a, j, c, t, time)
        PROVE  Heard(r) /\ Rings(r)
    <3>1. Notify(r, {c, t}, j) /\ EmitTo(r, {c, t}, {c, t})
      BY <2>2 DEF CreateJob
    <3> QED
      BY <1>0, <2>2, <3>1, CreateHeard, NotifyRings
  <2>3. ASSUME NEW j, NEW a, NEW t, NEW time, AssignLookup(r, a, j, t, time) PROVE Calm
    BY <2>3 DEF AssignLookup, Keep, Calm
  <2>4. ASSUME NEW j, NEW u, NEW status, StatusLookup(r, u, j, status) PROVE Calm
    BY <2>4 DEF StatusLookup, Keep, Calm
  <2>5. ASSUME NEW j, NEW u, NEW internal, NoteLookup(r, u, j, internal) PROVE Calm
    BY <2>5 DEF NoteLookup, Keep, Calm
  <2>6. ASSUME NEW j, NEW u, UploadLookup(r, u, j) PROVE Calm
    BY <2>6 DEF UploadLookup, Keep, Calm
  <2> QED
    BY <1>1, <2>1, <2>2, <2>3, <2>4, <2>5, <2>6 DEF Arrive, AdminRequest
<1>2. CASE Continue(r)
  <2>1. CASE AssignCommit(r)
    <3>1. /\ Notify(r, {loc[r].technician}, loc[r].id)
          /\ \E users : EmitTo(r, users, {loc[r].technician})
      BY <2>1 DEF AssignCommit
    <3> QED
      BY <1>0, <2>1, <3>1, AssignHeard, NotifyRings
  <2>2. CASE StatusCommit(r)
    <3>1. /\ Notify(r, {job[loc[r].id].client}, loc[r].id)
          /\ \E users : EmitTo(r, users, {job[loc[r].id].client})
      BY <2>2 DEF StatusCommit
    <3> QED
      BY <1>0, <2>2, <3>1, StatusHeard, NotifyRings
  <2>3. CASE NoteCommit(r) \/ AttachCommit(r)
    <3>1. UNCHANGED inbox
      BY <2>3 DEF NoteCommit, AttachCommit
    <3> QED
      BY <1>0, <2>3, <3>1, NoteHeard, QuietRings
  <2>4. CASE StoreFile(r) \/ CleanUp(r) \/ Emit(r)
    BY <2>4 DEF StoreFile, CleanUp, Emit, Calm
  <2> QED
    BY <1>2, <2>1, <2>2, <2>3, <2>4 DEF Continue
<1>3. CASE Break(r)
  <2>1. CASE AttachFails(r)
    <3>1. pc[r] = "attach" /\ UNCHANGED <<notes, inbox>>
      BY <2>1 DEF AttachFails
    <3>2. CASE UNCHANGED <<job, log, attachments, lostAcks>>
      BY <3>1, <3>2 DEF Calm, tables
    <3>3. CASE lostAcks' = lostAcks \cup {r}
      <4>1. r \notin lostAcks
        BY <1>0, <3>1 DEF UploadOK
      <4> QED
        BY <3>1, <3>3, <4>1 DEF Mistaken
    <3> QED
      BY <2>1, <3>2, <3>3 DEF AttachFails
  <2>2. CASE StoreFails(r) \/ Fail(r) \/ Die(r)
    BY <2>2 DEF StoreFails, Fail, Die, Calm
  <2> QED
    BY <1>3, <2>1, <2>2 DEF Break
<1> QED
  BY <1>1, <1>2, <1>3

-----------------------------------------------------------------------------
(* What is cached is kept up *)

\* A list stays good while its answer stays the same.
LEMMA MatchesSame ==
  ASSUME NEW shown, NEW q, NEW u, UNCHANGED <<job, log>>,
         Answer(q, u)' = Answer(q, u), Matches(shown, q, u)
  PROVE  Matches(shown, q, u)'
<1>1. \A j : Raced(j)' <=> Raced(j)
  BY DEF Raced, Between
<1>2. CASE q = "jobs"
  <2>1. Shown(u)' = Shown(u)
    BY <1>2 DEF Answer
  <2> QED
    BY <1>1, <1>2, <2>1 DEF Matches, Answer
<1>3. CASE q # "jobs"
  BY <1>3 DEF Matches
<1> QED
  BY <1>2, <1>3

\* The list of jobs depends on jobs, notes and attachments only.
LEMMA JobsSame ==
  ASSUME UNCHANGED <<job, notes, attachments>>, NEW u
  PROVE  Answer("jobs", u)' = Answer("jobs", u)
BY DEF Answer, Shown, Visible, Exists

\* The list of notifications depends on those of its user only.
LEMMA InboxSame ==
  ASSUME NEW q, q # "jobs", NEW u, {n \in inbox' : n.user = u} = {n \in inbox : n.user = u},
         NEW shown, Matches(shown, q, u)
  PROVE  Matches(shown, q, u)'
BY DEF Matches, Answer

\* A list stays good while the tables stay the same.
LEMMA CalmMatches ==
  ASSUME Calm, NEW shown, NEW q, NEW u, Matches(shown, q, u)
  PROVE  Matches(shown, q, u)'
<1>1. UNCHANGED <<job, log, notes, attachments, inbox>>
  BY DEF Calm, tables
<1>2. Answer(q, u)' = Answer(q, u)
  BY <1>1, JobsSame DEF Answer
<1> QED
  BY <1>1, <1>2, MatchesSame

\* A mark changes the notifications of one user, who is among the untold then.
LEMMA MarkMatches ==
  ASSUME TypeOK, NEW r \in Requests, NEW x \in Users, MarkRead(r, x),
         NEW shown, NEW q \in Queries, NEW u, Matches(shown, q, u)
  PROVE  Matches(shown, q, u)' \/ u \in Lost(r, q)
<1>1. pc[r] = "idle" /\ UNCHANGED <<job, log, notes, attachments>>
  BY DEF MarkRead
<1>2. CASE q = "jobs"
  BY <1>1, <1>2, JobsSame, MatchesSame
<1>3. CASE q = "notifications"
  <2>0. inbox \subseteq InboxItem
    BY DEF TypeOK, InboxItem
  <2>1. PICK n \in InboxItem :
          /\ n \in inbox /\ n.user = x
          /\ inbox' = (inbox \ {n}) \cup {[n EXCEPT !.read = TRUE]}
    <3> HIDE DEF InboxItem
    <3> QED
      BY <2>0 DEF MarkRead
  <2>2. PICK m \in InboxItem : m = [n EXCEPT !.read = TRUE] /\ m.user = n.user
    <3> DEFINE k == [n EXCEPT !.read = TRUE]
    <3>1. k \in InboxItem /\ k.user = n.user
      BY <2>1 DEF InboxItem
    <3> QED
      BY <3>1
  <2>3. CASE u # x \/ m = n
    <3>1. {k \in inbox' : k.user = u} = {k \in inbox : k.user = u}
      BY <2>1, <2>2, <2>3
    <3> QED
      BY <1>3, <3>1, InboxSame
  <2>4. CASE u = x /\ m # n
    <3>1. n \in inbox \ inbox'
      BY <2>1, <2>2, <2>4
    <3>2. u \in {k.user : k \in inbox \ inbox'}
      BY <2>1, <2>4, <3>1
    <3> QED
      BY <1>1, <1>3, <3>2 DEF Lost, Untold
  <2> QED
    BY <2>3, <2>4
<1> QED
  BY <1>2, <1>3 DEF Queries

\* A commit that is heard of: the listener is addressed, or the answer matches.
LEMMA HeardMatches ==
  ASSUME IInv, HoldersExist, NEW r \in Requests, Heard(r), Rings(r),
         NEW q \in Queries, NEW u \in Users, NEW shown, Matches(shown, q, u)
  PROVE  Matches(shown, q, u)' \/ (pc'[r] = "emit" /\ u \in Addressed(r, q)')
<1>0. TypeOK /\ RowRecorded /\ LogOK
  BY DEF IInv
<1>1. PICK e \in Entry :
        /\ Apart(r, e) /\ pc'[r] = "emit"
        /\ \A x \in Users : x \in loc'[r].audience \/ Spared(x, e)
  BY DEF Heard
<1>2. CASE q = "jobs"
  <2>1. CASE u \in loc'[r].audience
    BY <1>1, <1>2, <2>1 DEF Addressed
  <2>2. CASE Spared(u, e)
    <3>1. \A j \in JobIds : job[j].technician \in Technicians => Exists(j)
      BY RoleAssumption DEF HoldersExist, Users
    <3> QED
      BY <1>0, <1>1, <1>2, <2>2, <3>1, SparedMatches
  <2> QED
    BY <1>1, <2>1, <2>2
<1>3. CASE q # "jobs"
  <2>1. CASE u \in loc'[r].notified
    BY <1>1, <1>3, <2>1 DEF Addressed
  <2>2. CASE {n \in inbox' : n.user = u} = {n \in inbox : n.user = u}
    BY <1>3, <2>2, InboxSame
  <2> QED
    BY <2>1, <2>2 DEF Rings
<1> QED
  BY <1>2, <1>3

\* A list stays good over a commit taken for a failure, or its user was not told.
LEMMA MistakenMatches ==
  ASSUME NEW r, Mistaken(r), NEW q \in Queries, NEW u \in Users,
         NEW shown, Matches(shown, q, u)
  PROVE  Matches(shown, q, u)' \/ u \in Lost(r, q)
<1>1. CASE q = "jobs"
  BY <1>1 DEF Mistaken, Lost, Untold
<1>2. CASE q # "jobs"
  BY <1>2, InboxSame DEF Mistaken
<1> QED
  BY <1>1, <1>2

\* A handler that has sent its events is finished.
LEMMA EmitEnds ==
  ASSUME TypeOK, NEW r \in Requests, Arrive(r) \/ Continue(r) \/ Break(r), pc[r] = "emit"
  PROVE  pc'[r] \in {"done", "failed"}
<1>1. ~Arrive(r)
  BY DEF Arrive, Refuse, MarkRead, AdminRequest, CreateJob, AssignLookup, StatusLookup,
         NoteLookup, UploadLookup, Keep
<1>2. Emit(r) \/ Die(r)
  BY <1>1 DEF Continue, Break, AssignCommit, StatusCommit, NoteCommit, StoreFile, AttachCommit,
              CleanUp, StoreFails, AttachFails, Fail
<1> QED
  BY <1>2 DEF Emit, Die, Finish, Goto, TypeOK

\* An answer stays kept up over a step of a handler, or its user is among those
\* the step tells, or should have told.
LEMMA HandleAnswer ==
  ASSUME IInv, HoldersExist, NEW r \in Requests, Arrive(r) \/ Continue(r) \/ Break(r),
         NEW b, missed[b] \subseteq missed'[b], absorbed[b] \subseteq absorbed'[b],
         NEW q \in Queries, NEW a \in Answers, AnswerKept(a, b, q)
  PROVE  AnswerKept(a, b, q)' \/ a.for \in Lost(r, q) \ {NoOne}
<1>0. TypeOK /\ a.for \in Users \cup {NoOne} /\ NoOne \notin Users
  BY RoleAssumption DEF IInv, Answers
<1>1. CASE a.for = NoOne \/ q \in missed'[b] \cup absorbed'[b]
  BY <1>1 DEF AnswerKept
<1>2. CASE \E x \in Requests : pc'[x] = "emit" /\ a.for \in Addressed(x, q)'
  BY <1>2 DEF AnswerKept, Addressed
<1>3. CASE Matches(a.data, q, a.for)'
  BY <1>3 DEF AnswerKept
<1>4. ASSUME a.for \in Users, NEW x \in Requests, pc[x] = "emit", a.for \in Addressed(x, q)
      PROVE  \/ a.for \in Lost(r, q)
             \/ pc'[x] = "emit" /\ a.for \in Addressed(x, q)'
  <2>1. CASE x = r
    <3>1. pc'[r] \in {"done", "failed"}
      BY <1>0, <1>4, <2>1, EmitEnds
    <3> QED
      BY <1>4, <2>1, <3>1 DEF Lost, Untold
  <2>2. CASE x # r
    BY <1>0, <1>4, <2>2, OthersStill DEF Addressed
  <2> QED
    BY <2>1, <2>2
<1>5. ASSUME a.for \in Users, Matches(a.data, q, a.for)
      PROVE  \/ a.for \in Lost(r, q) \/ Matches(a.data, q, a.for)'
             \/ pc'[r] = "emit" /\ a.for \in Addressed(r, q)'
  BY <1>0, <1>5, StepKinds, CalmMatches, MarkMatches, HeardMatches, MistakenMatches
<1>6. \/ a.for = NoOne \/ Matches(a.data, q, a.for) \/ q \in missed[b] \cup absorbed[b]
      \/ \E x \in Requests : pc[x] = "emit" /\ a.for \in Addressed(x, q)
  BY DEF AnswerKept
<1> QED
  BY <1>0, <1>1, <1>2, <1>3, <1>4, <1>5, <1>6

\* The two answers to a query after a step.
LEMMA KeptNext ==
  ASSUME NEW b, NEW q, NEW a, NEW c, a = cache'[b][q], c = coming'[b][q],
         q \in stale'[b] \/ AnswerKept(a, b, q)', AnswerKept(c, b, q)'
  PROVE  KeptUp(b, q)'
BY DEF KeptUp

\* Both answers to a query stay kept up over a step of a handler.
LEMMA HandleKeeps ==
  ASSUME IInv, BoardTypeOK, HoldersExist,
         NEW r \in Requests, Arrive(r) \/ Continue(r) \/ Break(r), Deliver(r),
         NEW b \in Browsers, NEW q \in Queries, KeptUp(b, q)
  PROVE  KeptUp(b, q)'
<1>1. PICK a \in Answers : a = cache[b][q]
  BY DEF BoardTypeOK
<1>2. PICK c \in Answers : c = coming[b][q]
  BY DEF BoardTypeOK
<1>3. /\ cache' = cache /\ coming' = coming /\ stale[b] \subseteq stale'[b]
      /\ missed[b] \subseteq missed'[b] /\ absorbed[b] \subseteq absorbed'[b]
      /\ a.for \in Lost(r, q) \ {NoOne} => q \in stale'[b] \cup missed'[b]
      /\ c.for \in Lost(r, q) \ {NoOne} => q \in missed'[b] \cup absorbed'[b]
  BY <1>1, <1>2, DeliverFacts
<1>4. q \in stale[b] \/ AnswerKept(a, b, q)
  BY <1>1 DEF KeptUp
<1>5. AnswerKept(c, b, q)
  BY <1>2 DEF KeptUp
<1>6. q \in missed'[b] \cup absorbed'[b] => AnswerKept(a, b, q)' /\ AnswerKept(c, b, q)'
  BY DEF AnswerKept
<1>7. q \in stale'[b] \/ AnswerKept(a, b, q)'
  BY <1>3, <1>4, <1>6, HandleAnswer
<1>8. AnswerKept(c, b, q)'
  BY <1>3, <1>5, <1>6, HandleAnswer
<1> QED
  BY <1>1, <1>2, <1>3, <1>7, <1>8, KeptNext

\* While the server does nothing an answer stays kept up, unless it is no longer
\* counted as missed or absorbed.
LEMMA AnswerStill ==
  ASSUME UNCHANGED vars, NEW b, NEW q, NEW a, AnswerKept(a, b, q),
         q \in missed[b] \cup absorbed[b] => q \in missed'[b] \cup absorbed'[b]
  PROVE  AnswerKept(a, b, q)'
<1>1. Calm /\ pc' = pc /\ loc' = loc
  BY DEF vars, Calm
<1>2. Matches(a.data, q, a.for) => Matches(a.data, q, a.for)'
  BY <1>1, CalmMatches
<1>3. \A r \in Requests : Addressed(r, q)' = Addressed(r, q)
  BY <1>1 DEF Addressed
<1> QED
  BY <1>1, <1>2, <1>3 DEF AnswerKept

\* An answer given now is kept up.
LEMMA FreshKept ==
  ASSUME UNCHANGED vars, NEW b, NEW q \in Queries, NEW u, NEW a,
         a = [for |-> u, data |-> Answer(q, u)]
  PROVE  AnswerKept(a, b, q)'
<1>1. PICK shown : shown = Answer(q, u)
  OBVIOUS
<1>2. UNCHANGED <<job, notes, attachments, inbox>>
  BY DEF vars, tables
<1>3. shown = Answer(q, u)'
  BY <1>1, <1>2, JobsSame DEF Answer
<1>4. Matches(shown, q, u)'
  BY <1>3 DEF Matches
<1>5. a.for = u /\ a.data = shown
  BY <1>1
<1> QED
  BY <1>4, <1>5 DEF AnswerKept

\* Where there is no answer there is nothing to keep up.
LEMMA EmptyKept ==
  ASSUME NEW b, NEW q, NEW a, a = NoAnswer
  PROVE  AnswerKept(a, b, q)'
<1>1. a.for = NoOne
  BY NoAnswerFor
<1> QED
  BY <1>1 DEF AnswerKept

\* Answers that nobody touches stay kept up.
LEMMA StillKept ==
  ASSUME UNCHANGED vars, NEW b, NEW q, KeptUp(b, q),
         cache'[b][q] = cache[b][q], coming'[b][q] = coming[b][q],
         q \in stale[b] => q \in stale'[b],
         q \in missed[b] \cup absorbed[b] => q \in missed'[b] \cup absorbed'[b]
  PROVE  KeptUp(b, q)'
<1>1. PICK a, c : a = cache[b][q] /\ c = coming[b][q]
  OBVIOUS
<1>2. (q \in stale[b] \/ AnswerKept(a, b, q)) /\ AnswerKept(c, b, q)
  BY <1>1 DEF KeptUp
<1>3. (q \in stale'[b] \/ AnswerKept(a, b, q)') /\ AnswerKept(c, b, q)'
  BY <1>2, AnswerStill
<1> QED
  BY <1>1, <1>3, KeptNext

\* The query client keeps up what it fetches, and leaves the other lists alone.
LEMMA FetchKeeps ==
  ASSUME BoardTypeOK, NEW b \in Browsers, Refresh(b),
         NEW x \in Browsers, NEW p \in Queries, KeptUp(x, p), OneAnswer(x, p)
  PROVE  KeptUp(x, p)' /\ OneAnswer(x, p)'
<1> PICK q \in Queries : Fetch(b, q) \/ Ask(b, q) \/ Receive(b, q)
  BY DEF Refresh
<1>0. UNCHANGED vars
  BY DEF Fetch, Ask, Receive
<1>1. CASE x # b \/ p # q
  <2>1. cache'[x][p] = cache[x][p] /\ coming'[x][p] = coming[x][p]
    BY <1>1 DEF Fetch, Ask, Receive, BoardTypeOK
  <2>2. /\ p \in stale[x] => p \in stale'[x]
        /\ p \in missed[x] => p \in missed'[x]
        /\ p \in absorbed[x] => p \in absorbed'[x]
    BY <1>1 DEF Fetch, Ask, Receive, Caught, BoardTypeOK
  <2> QED
    BY <1>0, <2>1, <2>2, StillKept DEF OneAnswer, NoAnswer
<1>2. CASE x = b /\ p = q /\ Fetch(b, q)
  <2>1. PICK a : a = [for |-> user[b], data |-> Answer(q, user[b])] /\ a = cache'[x][p]
    BY <1>2 DEF Fetch, BoardTypeOK
  <2>2. PICK c : c = NoAnswer /\ c = coming'[x][p]
    BY <1>2 DEF Fetch, OneAnswer
  <2>3. AnswerKept(a, x, p)'
    BY <1>0, <1>2, <2>1, FreshKept
  <2>4. AnswerKept(c, x, p)'
    BY <2>2, EmptyKept
  <2> QED
    BY <2>1, <2>2, <2>3, <2>4, KeptNext DEF OneAnswer, NoAnswer
<1>3. CASE x = b /\ p = q /\ Ask(b, q)
  <2>1. PICK c : c = [for |-> user[b], data |-> Answer(q, user[b])] /\ c = coming'[x][p]
    BY <1>3 DEF Ask, BoardTypeOK
  <2>2. PICK a : a = NoAnswer /\ a = cache'[x][p]
    BY <1>3 DEF Ask
  <2>3. AnswerKept(c, x, p)'
    BY <1>0, <1>3, <2>1, FreshKept
  <2>4. AnswerKept(a, x, p)'
    BY <2>2, EmptyKept
  <2> QED
    BY <2>1, <2>2, <2>3, <2>4, KeptNext DEF OneAnswer, NoAnswer
<1>4. CASE x = b /\ p = q /\ Receive(b, q)
  <2>1. PICK a : a = coming[x][p] /\ a = cache'[x][p]
    BY <1>4 DEF Receive, BoardTypeOK
  <2>2. PICK c : c = NoAnswer /\ c = coming'[x][p]
    BY <1>4 DEF Receive, BoardTypeOK
  <2>3. AnswerKept(a, x, p)'
    <3>1. AnswerKept(a, x, p)
      BY <2>1 DEF KeptUp
    <3>2. UNCHANGED <<missed, absorbed>>
      BY <1>4 DEF Receive
    <3> QED
      BY <1>0, <3>1, <3>2, AnswerStill
  <2>4. AnswerKept(c, x, p)'
    BY <2>2, EmptyKept
  <2> QED
    BY <2>1, <2>2, <2>3, <2>4, KeptNext DEF OneAnswer, NoAnswer
<1> QED
  BY <1>1, <1>2, <1>3, <1>4

\* After a fetch that failed the cached answer is as stale as before.
LEMMA FailKeeps ==
  ASSUME BoardTypeOK, NEW b \in Browsers, NEW q \in Queries, FetchFails(b, q),
         NEW x \in Browsers, NEW p \in Queries, KeptUp(x, p), OneAnswer(x, p)
  PROVE  KeptUp(x, p)' /\ OneAnswer(x, p)'
<1>1. /\ UNCHANGED vars /\ UNCHANGED <<cache, stale, missed, absorbed>>
      /\ coming' = [coming EXCEPT ![b] = [coming[b] EXCEPT ![q] = NoAnswer]]
  BY DEF FetchFails, BoardTypeOK
<1>2. CASE x # b \/ p # q
  <2>1. coming'[x][p] = coming[x][p]
    BY <1>1, <1>2 DEF BoardTypeOK
  <2> QED
    BY <1>1, <2>1, StillKept DEF OneAnswer, NoAnswer
<1>3. CASE x = b /\ p = q
  <2>1. PICK c : c = NoAnswer /\ c = coming'[x][p]
    BY <1>1, <1>3 DEF BoardTypeOK
  <2>2. PICK a : a = cache[x][p] /\ a = cache'[x][p]
    BY <1>1
  <2>3. p \in stale'[x] \/ AnswerKept(a, x, p)'
    <3>1. p \in stale[x] \/ AnswerKept(a, x, p)
      BY <2>2 DEF KeptUp
    <3> QED
      BY <1>1, <3>1, AnswerStill
  <2>4. AnswerKept(c, x, p)'
    BY <2>1, EmptyKept
  <2> QED
    BY <2>1, <2>2, <2>3, <2>4, KeptNext DEF OneAnswer, NoAnswer
<1> QED
  BY <1>2, <1>3

\* What a visitor does leaves the answers kept up, or there are none.
LEMMA VisitKeeps ==
  ASSUME BoardTypeOK, NEW b \in Browsers, Visit(b),
         NEW x \in Browsers, NEW p \in Queries, KeptUp(x, p), OneAnswer(x, p)
  PROVE  KeptUp(x, p)' /\ OneAnswer(x, p)'
<1>1. UNCHANGED vars
  BY DEF Visit, SignIn, Load, SignOut, Drop, Connect, Expire
<1>2. CASE Emptied(b)
  <2>1. CASE x = b
    <3>1. PICK a : a = NoAnswer /\ a = cache'[x][p] /\ a = coming'[x][p]
      BY <1>2, <2>1 DEF Emptied, BoardTypeOK
    <3>2. AnswerKept(a, x, p)'
      BY <3>1, EmptyKept
    <3> QED
      BY <3>1, <3>2, KeptNext DEF OneAnswer, NoAnswer
  <2>2. CASE x # b
    <3>1. /\ cache'[x] = cache[x] /\ coming'[x] = coming[x] /\ stale'[x] = stale[x]
          /\ missed'[x] = missed[x] /\ absorbed'[x] = absorbed[x]
      BY <1>2, <2>2 DEF Emptied, BoardTypeOK
    <3> QED
      BY <1>1, <3>1, StillKept DEF OneAnswer, NoAnswer
  <2> QED
    BY <2>1, <2>2
<1>3. CASE UNCHANGED <<cache, coming, missed, absorbed>> /\ stale[x] \subseteq stale'[x]
  BY <1>1, <1>3, StillKept DEF OneAnswer, NoAnswer
<1>4. Emptied(b) \/ (UNCHANGED <<cache, coming, missed, absorbed>> /\ stale[x] \subseteq stale'[x])
  <2>1. CASE \E u \in Visitors : SignIn(b, u)
    BY <2>1 DEF SignIn, BoardTypeOK
  <2>2. CASE Load(b)
    BY <2>2 DEF Load
  <2>3. CASE SignOut(b) \/ Drop(b) \/ Connect(b) \/ Expire(b)
    BY <2>3 DEF SignOut, Drop, Connect, Expire, lists
  <2> QED
    BY <2>1, <2>2, <2>3 DEF Visit
<1> QED
  BY <1>2, <1>3, <1>4

-----------------------------------------------------------------------------
(* The other parts of the invariant *)

\* What a client is answered is the client's.
LEMMA FilteredAnswer ==
  ASSUME TypeOK, NEW u \in Clients, NEW x \in Shown(u)
  PROVE  x.row.client = u /\ \A n \in x.notes : ~n.internal
<1>1. PICK j \in JobIds : Visible(u, j) /\ x = Item(u, j)
  BY ShownItems
<1>2. job[j].client = u
  BY <1>1, RoleAssumption DEF Visible
<1> QED
  BY <1>1, <1>2 DEF Item

\* A fetch shows its user nothing but what is his.
LEMMA FetchFiltered ==
  ASSUME TypeOK, BoardTypeOK, AnswersFiltered, NEW b \in Browsers, Refresh(b)
  PROVE  AnswersFiltered'
<1> PICK q \in Queries : Fetch(b, q) \/ Ask(b, q) \/ Receive(b, q)
  BY DEF Refresh
<1> DEFINE a == [for |-> user[b], data |-> Answer(q, user[b])]
<1>1. "jobs" \in Queries
  BY DEF Queries
<1>2. q = "jobs" => Filtered(a)
  <2> SUFFICES ASSUME q = "jobs", a.for \in Clients, NEW x \in a.data
               PROVE  x.row.client = a.for /\ \A n \in x.notes : ~n.internal
    BY DEF Filtered
  <2>1. a.for = user[b] /\ a.data = Shown(user[b])
    BY DEF Answer
  <2> QED
    BY <2>1, FilteredAnswer
<1>3. Filtered(NoAnswer)
  BY NoAnswerFor DEF Filtered
<1> SUFFICES ASSUME NEW c \in Browsers
             PROVE  Filtered(cache'[c]["jobs"]) /\ Filtered(coming'[c]["jobs"])
  BY DEF AnswersFiltered, Filtered
<1>4. Filtered(cache[c]["jobs"]) /\ Filtered(coming[c]["jobs"])
  BY DEF AnswersFiltered
<1>5. CASE Fetch(b, q)
  <2>1. /\ cache' = [cache EXCEPT ![b] = [cache[b] EXCEPT ![q] = a]]
        /\ coming' = coming
    BY <1>5 DEF Fetch, BoardTypeOK
  <2>2. \/ cache'[c]["jobs"] = cache[c]["jobs"]
        \/ q = "jobs" /\ cache'[c]["jobs"] = a
    BY <1>1, <2>1 DEF BoardTypeOK
  <2> QED
    BY <1>2, <1>4, <2>1, <2>2
<1>6. CASE Ask(b, q)
  <2>1. /\ coming' = [coming EXCEPT ![b] = [coming[b] EXCEPT ![q] = a]]
        /\ cache' = cache
    BY <1>6 DEF Ask, BoardTypeOK
  <2>2. \/ coming'[c]["jobs"] = coming[c]["jobs"]
        \/ q = "jobs" /\ coming'[c]["jobs"] = a
    BY <1>1, <2>1 DEF BoardTypeOK
  <2> QED
    BY <1>2, <1>4, <2>1, <2>2
<1>7. CASE Receive(b, q)
  <2>1. /\ cache' = [cache EXCEPT ![b] = [cache[b] EXCEPT ![q] = coming[b][q]]]
        /\ coming' = [coming EXCEPT ![b] = [coming[b] EXCEPT ![q] = NoAnswer]]
    BY <1>7 DEF Receive, BoardTypeOK
  <2>2. /\ cache'[c]["jobs"] \in {cache[c]["jobs"], coming[c]["jobs"]}
        /\ coming'[c]["jobs"] \in {coming[c]["jobs"], NoAnswer}
    BY <1>1, <2>1 DEF BoardTypeOK
  <2> QED
    BY <1>3, <1>4, <2>2
<1> QED
  BY <1>5, <1>6, <1>7

\* What a visitor does brings nothing new into a cache, nor does a fetch that fails.
LEMMA VisitFiltered ==
  ASSUME BoardTypeOK, AnswersFiltered, NEW b \in Browsers,
         Visit(b) \/ \E q \in Queries : FetchFails(b, q)
  PROVE  AnswersFiltered'
<1>1. "jobs" \in Queries
  BY DEF Queries
<1>2. Filtered(NoAnswer)
  BY NoAnswerFor DEF Filtered
<1> SUFFICES ASSUME NEW c \in Browsers
             PROVE  Filtered(cache'[c]["jobs"]) /\ Filtered(coming'[c]["jobs"])
  BY DEF AnswersFiltered, Filtered
<1>3. Filtered(cache[c]["jobs"]) /\ Filtered(coming[c]["jobs"])
  BY DEF AnswersFiltered
<1>4. CASE Emptied(b)
  <2>1. /\ cache'[c]["jobs"] \in {cache[c]["jobs"], NoAnswer}
        /\ coming'[c]["jobs"] \in {coming[c]["jobs"], NoAnswer}
    BY <1>1, <1>4 DEF Emptied, BoardTypeOK
  <2> QED
    BY <1>2, <1>3, <2>1
<1>5. CASE \E q \in Queries : FetchFails(b, q)
  <2>1. /\ cache' = cache
        /\ coming'[c]["jobs"] \in {coming[c]["jobs"], NoAnswer}
    BY <1>1, <1>5 DEF FetchFails, BoardTypeOK
  <2> QED
    BY <1>2, <1>3, <2>1
<1>6. Emptied(b) \/ UNCHANGED <<cache, coming>> \/ \E q \in Queries : FetchFails(b, q)
  BY DEF Visit, SignIn, Load, SignOut, Drop, Connect, Expire, lists
<1> QED
  BY <1>3, <1>4, <1>5, <1>6

\* Only a job that exists is given to a technician.
LEMMA HoldersStep ==
  ASSUME HoldersExist, NEW r, Outcome(r)
  PROVE  HoldersExist'
<1>1. CASE Quiet
  BY <1>1 DEF Quiet, HoldersExist, Exists
<1>2. CASE Commits(r)
  <2>1. PICK e \in Entry : Committed(r, e)
    BY <1>2 DEF Commits
  <2> QED
    BY <2>1 DEF Committed, HoldersExist, Exists
<1> QED
  BY <1>1, <1>2 DEF Outcome

-----------------------------------------------------------------------------
(* The invariant *)

\* Tabs without lists over an initial database satisfy the inductive invariant.
LEMMA BoardInitInv == BoardInit => BoardIInv
<1> SUFFICES ASSUME BoardInit PROVE BoardIInv
  OBVIOUS
<1>1. Init /\ IInv /\ TypeOK
  BY InitInv DEF BoardInit, IInv
<1>2. /\ user \in [Browsers -> Visitors]
      /\ cache = [b \in Browsers |-> [q \in Queries |-> NoAnswer]]
      /\ coming = [b \in Browsers |-> [q \in Queries |-> NoAnswer]]
      /\ stale = [b \in Browsers |-> Queries] /\ failed = [b \in Browsers |-> {}]
      /\ missed = [b \in Browsers |-> {}] /\ absorbed = [b \in Browsers |-> {}]
      /\ online = {} /\ spent = {} /\ trips = 0
  BY DEF BoardInit
<1>3. BoardTypeOK
  <2>1. [b \in Browsers |-> [q \in Queries |-> NoAnswer]] \in [Browsers -> [Queries -> Answers]]
    BY EmptyAnswerType
  <2>2. trips \in 0 .. MaxTrips
    BY <1>2, TripAssumption
  <2>3. \A b \in Browsers : user[b] \in Users /\ user[b] # NoOne
    BY <1>2, VisitorAssumption, RoleAssumption
  <2>4. user \in [Browsers -> Users \cup {NoOne}]
    BY <1>2, <2>3
  <2> QED
    BY <1>2, <2>1, <2>2, <2>3, <2>4 DEF BoardTypeOK
<1>4. \A b \in Browsers, q \in Queries : cache[b][q] = NoAnswer /\ coming[b][q] = NoAnswer
  BY <1>2
<1>5. AnswersFiltered
  BY <1>4, NoAnswerFor DEF AnswersFiltered, Filtered, Queries
<1>6. HoldersExist
  <2>1. CASE Empty
    BY <2>1 DEF Empty, NoJob, HoldersExist
  <2>2. CASE \E j \in JobIds : Seed(j)
    <3>1. NoOne \notin Clients
      BY RoleAssumption DEF Users
    <3> QED
      BY <2>2, <3>1 DEF Seed, NoJob, HoldersExist, Exists
  <2> QED
    BY <1>1, <2>1, <2>2 DEF Init
<1>7. \A b \in Browsers, q \in Queries : KeptUp(b, q) /\ OneAnswer(b, q)
  BY <1>4, NoAnswerFor DEF KeptUp, AnswerKept, OneAnswer
<1> QED
  BY <1>1, <1>3, <1>5, <1>6, <1>7 DEF BoardIInv

\* A step of a handler and its events keep the inductive invariant.
LEMMA HandleInv ==
  ASSUME BoardIInv, NEW r \in Requests, Handle(r)
  PROVE  BoardIInv'
<1>1. /\ IInv /\ BoardTypeOK /\ HoldersExist /\ AnswersFiltered
      /\ \A b \in Browsers, q \in Queries : KeptUp(b, q) /\ OneAnswer(b, q)
  BY DEF BoardIInv
<1>2. Deliver(r) /\ (Arrive(r) \/ Continue(r) \/ Break(r))
  BY DEF Handle
<1>3. Outcome(r)
  BY <1>1, <1>2, StepOutcome DEF IInv
<1>4. IInv'
  BY <1>1, <1>2, NextInv DEF Next
<1>5. BoardTypeOK' /\ cache' = cache /\ coming' = coming
  BY <1>1, <1>2, DeliverFacts DEF BoardTypeOK
<1>6. AnswersFiltered'
  BY <1>1, <1>5 DEF AnswersFiltered, Filtered
<1>7. HoldersExist'
  BY <1>1, <1>3, HoldersStep
<1>8. \A b \in Browsers, q \in Queries : KeptUp(b, q)'
  BY <1>1, <1>2, HandleKeeps
<1>9. \A b \in Browsers, q \in Queries : OneAnswer(b, q)'
  BY <1>1, <1>5 DEF OneAnswer, NoAnswer
<1> QED
  BY <1>4, <1>5, <1>6, <1>7, <1>8, <1>9 DEF BoardIInv

\* A visit keeps the inductive invariant, and so does a fetch, failing or not.
LEMMA TabInv ==
  ASSUME BoardIInv, NEW b \in Browsers,
         Visit(b) \/ Refresh(b) \/ \E q \in Queries : FetchFails(b, q)
  PROVE  BoardIInv'
<1>1. /\ IInv /\ TypeOK /\ BoardTypeOK /\ HoldersExist /\ AnswersFiltered
      /\ \A c \in Browsers, q \in Queries : KeptUp(c, q) /\ OneAnswer(c, q)
  BY DEF BoardIInv, IInv
<1>2. UNCHANGED vars
  BY DEF Refresh, Fetch, Ask, Receive, FetchFails, Visit, SignIn, Load, SignOut, Drop, Connect,
         Expire
<1>3. IInv' /\ HoldersExist'
  BY <1>1, <1>2, StutterInv DEF HoldersExist, Exists, vars, tables
<1>4. BoardTypeOK'
  BY <1>1, VisitTypes, FetchTypes, FailTypes
<1>5. AnswersFiltered'
  BY <1>1, VisitFiltered, FetchFiltered
<1>6. \A c \in Browsers, q \in Queries : KeptUp(c, q)' /\ OneAnswer(c, q)'
  BY <1>1, VisitKeeps, FetchKeeps, FailKeeps
<1> QED
  BY <1>3, <1>4, <1>5, <1>6 DEF BoardIInv

\* A step that changes nothing keeps the inductive invariant.
LEMMA BoardStutter ==
  ASSUME BoardIInv, UNCHANGED allVars
  PROVE  BoardIInv'
<1>1. /\ IInv /\ BoardTypeOK /\ HoldersExist /\ AnswersFiltered
      /\ \A c \in Browsers, q \in Queries : KeptUp(c, q) /\ OneAnswer(c, q)
  BY DEF BoardIInv
<1>2. /\ UNCHANGED vars
      /\ UNCHANGED <<user, cache, coming, stale, failed, missed, absorbed, online, spent, trips>>
  BY DEF allVars, tab, lists
<1>3. IInv' /\ HoldersExist'
  BY <1>1, <1>2, StutterInv DEF HoldersExist, Exists, vars, tables
<1>4. BoardTypeOK' /\ AnswersFiltered'
  BY <1>1, <1>2 DEF BoardTypeOK, AnswersFiltered, Filtered
<1>5. \A c \in Browsers, q \in Queries : KeptUp(c, q)' /\ OneAnswer(c, q)'
  BY <1>1, <1>2, StillKept DEF OneAnswer, NoAnswer
<1> QED
  BY <1>3, <1>4, <1>5 DEF BoardIInv

-----------------------------------------------------------------------------
(* Theorems *)

\* The invariant: every answer, in the cache or on its way there, is right for the
\* user it was given to, or its event is on its way, was lost or was absorbed; or
\* it is in the cache and stale.
THEOREM BoardsInductive == BoardSpec => []BoardIInv
<1>1. BoardInit => BoardIInv
  BY BoardInitInv
<1>2. BoardIInv /\ [BoardNext]_allVars => BoardIInv'
  BY HandleInv, TabInv, BoardStutter DEF BoardNext
<1> QED
  BY <1>1, <1>2, PTL DEF BoardSpec

\* The boards run the handlers of Jobs and no others: what is proved of Jobs holds
\* beside any tabs.
THEOREM BoardsRunJobs == BoardSpec => Spec
<1>1. BoardInit => Init
  BY DEF BoardInit
<1>2. [BoardNext]_allVars => [Next]_vars
  BY BoardStepIsStep
<1> QED
  BY <1>1, <1>2, PTL DEF BoardSpec, Spec

\* Tabs keep their types; a tab without a user has no socket.
THEOREM BoardsTypeCorrect == BoardSpec => []BoardTypeOK
<1>1. BoardIInv => BoardTypeOK
  BY DEF BoardIInv
<1> QED
  BY <1>1, BoardsInductive, PTL

\* A client sees what is not the client's only in an answer that was given to
\* somebody who was signed in before.
THEOREM ClientsSeeOnlyTheirs == BoardSpec => []ClientsSeeTheirs
<1>1. BoardIInv => ClientsSeeTheirs
  BY DEF BoardIInv, AnswersFiltered, Filtered, ClientsSeeTheirs
<1> QED
  BY <1>1, BoardsInductive, PTL

\* A list on a screen, if it was answered to who is signed in, is the one the server
\* would answer with now; or something is on its way that makes the page ask, or
\* nothing is, because the event was lost or absorbed or the fetch given up.
THEOREM BoardsStayCurrent == BoardSpec => []BoardsCurrent
<1>1. BoardIInv => BoardsCurrent
  <2> SUFFICES ASSUME BoardIInv, NEW b \in Browsers, NEW q \in Queries, user[b] # NoOne,
                      cache[b][q].for = user[b]
               PROVE  UpToDate(b, q) \/ Excused(b, q)
    BY DEF BoardsCurrent
  <2>1. KeptUp(b, q)
    BY DEF BoardIInv
  <2> QED
    BY <2>1 DEF KeptUp, AnswerKept, UpToDate, Excused
<1> QED
  BY <1>1, BoardsInductive, PTL
=============================================================================

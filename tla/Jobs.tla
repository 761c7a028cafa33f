-------------------------------- MODULE Jobs --------------------------------
(***************************************************************************)
(* The job workflow: src/backend/src/modules/jobs, the policy that guards  *)
(* it (modules/authorization), the audit log, the notifications and the    *)
(* attachment files it writes.                                             *)
(*                                                                         *)
(* A handler looks the job up, decides on what it read, and commits one    *)
(* transaction: other handlers run between the two.  A transaction is      *)
(* atomic; it may roll back.  Realtime events go out after the commit      *)
(* ("emit").  Notes, files, attachments and notifications are named by the *)
(* request that made them.  The database starts empty or with one of the   *)
(* jobs of prisma/seed.ts.                                                 *)
(***************************************************************************)
EXTENDS Naturals, Sequences

CONSTANTS
  Admins, Technicians, Clients,   \* the users, by role
  JobIds,                         \* jobs that may be created
  Requests,                       \* requests to the API
  StatusInputs,                   \* statuses that PATCH /:id/status is given
  Times,                          \* values of scheduledAt
  NoOne,
  MaxFaults                       \* bound on failures of each kind

Users == Admins \cup Technicians \cup Clients

ASSUME RoleAssumption ==
  /\ Admins \cap Technicians = {} /\ Admins \cap Clients = {}
  /\ Technicians \cap Clients = {}
  /\ NoOne \notin Users /\ NoOne \notin Times /\ NoOne \notin Requests
  /\ "SAME" \notin Users \cup {NoOne}
ASSUME InputAssumption ==
  StatusInputs \subseteq {"NEW", "SCHEDULED", "ASSIGNED", "IN_PROGRESS", "BLOCKED",
                         "COMPLETED", "CANCELLED"}
ASSUME FaultAssumption == MaxFaults \in Nat

VARIABLES
  job,          \* the table Job
  log,          \* the table AuditLog, in the order of commit
  notes,        \* the table JobNote
  attachments,  \* the table JobAttachment: requests with a row
  inbox,        \* the table Notification
  files,        \* upload directory: requests whose file is there
  pc, loc,      \* handlers: where they are, what they carry
  faults,       \* failures so far
  orphans,      \* history: requests that left their file behind
  lostAcks,     \* history: requests whose commit was reported as failed
  seeded        \* history: the jobs the database started with

tables == <<job, log, notes, attachments, inbox>>
storage == <<files, orphans, lostAcks>>
vars == <<tables, storage, pc, loc, faults, seeded>>

Statuses == {"NEW", "SCHEDULED", "ASSIGNED", "IN_PROGRESS", "BLOCKED",
             "COMPLETED", "CANCELLED"}
Locked == {"COMPLETED", "CANCELLED"}
TechnicianStatuses == {"IN_PROGRESS", "BLOCKED", "COMPLETED"}

\* A job that was not created yet has no client.
JobRow == [client : Clients \cup {NoOne}, technician : Technicians \cup {NoOne},
           status : Statuses, time : Times \cup {NoOne}]
NoJob == [client |-> NoOne, technician |-> NoOne, status |-> "NEW", time |-> NoOne]

\* What the metadata of an audit record say about the job; "SAME" where they
\* say nothing.  History: how long the log was when the handler looked the
\* job up, the time it was given, the row it left.
Actions == {"SEED_JOB_CREATED", "JOB_CREATED", "JOB_ASSIGNED", "JOB_STATUS_CHANGED",
            "JOB_NOTE_ADDED", "JOB_ATTACHMENT_UPLOADED"}
Entry == [action : Actions, job : JobIds, actor : Users, by : Requests \cup {NoOne},
          status : Statuses \cup {"SAME"},
          technician : Technicians \cup {NoOne, "SAME"},
          from : Statuses \cup Technicians \cup {NoOne, "SAME"},
          seen : Nat, given : Times \cup {NoOne}, stored : JobRow]
SaysNothing == [status |-> "SAME", technician |-> "SAME", from |-> "SAME"]

\* The user, the job as it was looked up and when, the input of a handler,
\* and the users its two events go to.
Locals == [actor : Users \cup {NoOne}, id : JobIds \cup {NoOne}, row : JobRow,
           seen : Nat, status : Statuses, technician : Technicians \cup {NoOne},
           time : Times \cup {NoOne}, internal : BOOLEAN,
           audience : SUBSET Users, notified : SUBSET Users]
NoLocals == [actor |-> NoOne, id |-> NoOne, row |-> NoJob, seen |-> 0,
             status |-> "NEW", technician |-> NoOne, time |-> NoOne,
             internal |-> FALSE, audience |-> {}, notified |-> {}]

Labels == {"idle", "assign", "status", "note", "store", "attach", "cleanup",
           "emit", "done", "refused", "failed"}

Exists(j) == job[j].client # NoOne

-----------------------------------------------------------------------------
(* The policy *)

\* Seeded fault: a technician is shown every job.
Visible_AllForStaff(u, j) ==
  Exists(j) /\ (u \in Admins \cup Technicians \/ job[j].client = u)

\* visibleJobWhere
Visible(u, j) ==
  /\ Exists(j)
  /\ \/ u \in Admins
     \/ u \in Technicians /\ job[j].technician = u
     \/ u \in Clients /\ job[j].client = u

CanUpdateJobStatus(u, row, next) ==
  \/ u \in Admins
  \/ u \in Technicians /\ row.technician = u /\ next \in TechnicianStatuses

CanCreateJobNote(u, row, internal) ==
  \/ u \in Admins
  \/ u \in Technicians /\ row.technician = u
  \/ u \in Clients /\ row.client = u /\ ~internal

-----------------------------------------------------------------------------
(* Helpers *)

\* A step of a handler; what the database started with stays what it was.
Goto(r, label) ==
  /\ pc' = [pc EXCEPT ![r] = label]
  /\ UNCHANGED seeded

Finish(r, label) ==
  /\ Goto(r, label)
  /\ loc' = [loc EXCEPT ![r] = NoLocals]

\* A lookup keeps the user, the row it read and the input.
Keep(r, u, j, input) ==
  /\ pc[r] = "idle"
  /\ loc' = [loc EXCEPT ![r] = [input EXCEPT !.actor = u, !.id = j, !.row = job[j],
                                             !.seen = Len(log)]]
  /\ UNCHANGED <<tables, storage, faults>>

\* recordAudit, in the transaction that leaves job'[j].
Audit(r, action, u, j, meta, given) ==
  log' = Append(log, [action |-> action, job |-> j, actor |-> u, by |-> r,
                      status |-> meta.status, technician |-> meta.technician,
                      from |-> meta.from, seen |-> loc[r].seen, given |-> given,
                      stored |-> job'[j]])

Notify(r, users, j) ==
  inbox' = inbox \cup {[user |-> u, by |-> r, job |-> j, read |-> FALSE] :
                         u \in users \ {NoOne}}

\* Seeded fault: the job's missing technician is not filtered out.
EmitTo_NullToo(r, users, notified) ==
  /\ loc' = [loc EXCEPT ![r].audience = Admins \cup users,
                        ![r].notified = notified \ {NoOne}]
  /\ Goto(r, "emit")

\* Commit, then emit: "jobs:changed" to the admins, by the room of their role,
\* and to users; "notifications:changed" to notified.
EmitTo(r, users, notified) ==
  /\ loc' = [loc EXCEPT ![r].audience = Admins \cup (users \ {NoOne}),
                        ![r].notified = notified \ {NoOne}]
  /\ Goto(r, "emit")

-----------------------------------------------------------------------------
(* Creating and assigning *)

\* createJob.  The lookups before its transaction read only users and roles,
\* which nothing changes.
CreateJob(r, a, j, c, t, time) ==
  LET status == IF t # NoOne THEN "ASSIGNED"
                ELSE IF time # NoOne THEN "SCHEDULED" ELSE "NEW"
  IN  /\ pc[r] = "idle"
      /\ ~Exists(j)
      /\ job' = [job EXCEPT ![j] = [client |-> c, technician |-> t,
                                   status |-> status, time |-> time]]
      /\ Audit(r, "JOB_CREATED", a, j,
               [status |-> status, technician |-> t, from |-> "SAME"], time)
      /\ Notify(r, {c, t}, j)
      /\ EmitTo(r, {c, t}, {c, t})
      /\ UNCHANGED <<notes, attachments, storage, faults>>

AssignLookup(r, a, j, t, time) ==
  /\ Exists(j)
  /\ job[j].status \notin Locked
  /\ Keep(r, a, j, [NoLocals EXCEPT !.technician = t, !.time = time])
  /\ Goto(r, "assign")

\* Seeded fault: without a time in the request the job's time is cleared.
TimeToStore_Cleared(r) == loc[r].time

\* Without a time in the request the one that was looked up is written back.
TimeToStore(r) == IF loc[r].time # NoOne THEN loc[r].time ELSE loc[r].row.time

Reassigned(r) ==
  job' = [job EXCEPT ![loc[r].id] = [@ EXCEPT !.technician = loc[r].technician,
                                              !.status = "ASSIGNED",
                                              !.time = TimeToStore(r)]]

\* Seeded fault: the notification goes to the technician who had the job.
AssignCommit_NotifiesPrevious(r) ==
  LET j == loc[r].id
      t == loc[r].technician
  IN  /\ pc[r] = "assign"
      /\ Reassigned(r)
      /\ Audit(r, "JOB_ASSIGNED", loc[r].actor, j,
               [status |-> "SAME", technician |-> t, from |-> loc[r].row.technician],
               loc[r].time)
      /\ Notify(r, {loc[r].row.technician}, j)
      /\ EmitTo(r, {job[j].client, t, loc[r].row.technician}, {t})
      /\ UNCHANGED <<notes, attachments, storage, faults>>

\* Seeded fault: the audit record swaps the two technicians.
AssignCommit_AuditsPrevious(r) ==
  LET j == loc[r].id
      t == loc[r].technician
  IN  /\ pc[r] = "assign"
      /\ Reassigned(r)
      /\ Audit(r, "JOB_ASSIGNED", loc[r].actor, j,
               [status |-> "SAME", technician |-> loc[r].row.technician, from |-> t],
               loc[r].time)
      /\ Notify(r, {t}, j)
      /\ EmitTo(r, {job[j].client, t, loc[r].row.technician}, {t})
      /\ UNCHANGED <<notes, attachments, storage, faults>>

\* The update is by id alone: it does not test what the lookup tested.  Its record
\* names both technicians but not the status it sets.
AssignCommit(r) ==
  LET j == loc[r].id
      t == loc[r].technician
  IN  /\ pc[r] = "assign"
      /\ Reassigned(r)
      /\ Audit(r, "JOB_ASSIGNED", loc[r].actor, j,
               [status |-> "SAME", technician |-> t, from |-> loc[r].row.technician],
               loc[r].time)
      /\ Notify(r, {t}, j)
      /\ EmitTo(r, {job[j].client, t, loc[r].row.technician}, {t})
      /\ UNCHANGED <<notes, attachments, storage, faults>>

-----------------------------------------------------------------------------
(* Status and notes *)

StatusLookup(r, u, j, status) ==
  /\ Visible(u, j)
  /\ CanUpdateJobStatus(u, job[j], status)
  /\ Keep(r, u, j, [NoLocals EXCEPT !.status = status])
  /\ Goto(r, "status")

MoveTo(status, from) == [status |-> status, technician |-> "SAME", from |-> from]

\* Seeded fault: the "from" of the record is read off the updated row.
StatusCommit_FromUpdated(r) ==
  LET j == loc[r].id
  IN  /\ pc[r] = "status"
      /\ job' = [job EXCEPT ![j].status = loc[r].status]
      /\ Audit(r, "JOB_STATUS_CHANGED", loc[r].actor, j,
               MoveTo(loc[r].status, job'[j].status), NoOne)
      /\ Notify(r, {job[j].client}, j)
      /\ EmitTo(r, {job[j].client, job[j].technician}, {job[j].client})
      /\ UNCHANGED <<notes, attachments, storage, faults>>

\* Seeded fault: the event goes to the technician of the row that was looked
\* up.
StatusCommit_EmitsToSnapshot(r) ==
  LET j == loc[r].id
  IN  /\ pc[r] = "status"
      /\ job' = [job EXCEPT ![j].status = loc[r].status]
      /\ Audit(r, "JOB_STATUS_CHANGED", loc[r].actor, j,
               MoveTo(loc[r].status, loc[r].row.status), NoOne)
      /\ Notify(r, {job[j].client}, j)
      /\ EmitTo(r, {job[j].client, loc[r].row.technician}, {job[j].client})
      /\ UNCHANGED <<notes, attachments, storage, faults>>

\* The events go to the users of the row as updated.
StatusCommit(r) ==
  LET j == loc[r].id
  IN  /\ pc[r] = "status"
      /\ job' = [job EXCEPT ![j].status = loc[r].status]
      /\ Audit(r, "JOB_STATUS_CHANGED", loc[r].actor, j,
               MoveTo(loc[r].status, loc[r].row.status), NoOne)
      /\ Notify(r, {job[j].client}, j)
      /\ EmitTo(r, {job[j].client, job[j].technician}, {job[j].client})
      /\ UNCHANGED <<notes, attachments, storage, faults>>

\* A note of a client is stored as not internal, whatever the input says.
NoteLookup(r, u, j, internal) ==
  /\ Visible(u, j)
  /\ CanCreateJobNote(u, job[j], internal)
  /\ Keep(r, u, j, [NoLocals EXCEPT !.internal = u \notin Clients /\ internal])
  /\ Goto(r, "note")

\* The event goes to the users of the job as it was looked up.
NoteCommit(r) ==
  /\ pc[r] = "note"
  /\ job' = job
  /\ notes' = notes \cup {[by |-> r, job |-> loc[r].id, internal |-> loc[r].internal]}
  /\ Audit(r, "JOB_NOTE_ADDED", loc[r].actor, loc[r].id, SaysNothing, NoOne)
  /\ EmitTo(r, {loc[r].row.client, loc[r].row.technician}, {})
  /\ UNCHANGED <<attachments, inbox, storage, faults>>

-----------------------------------------------------------------------------
(* Attachments: a file and a row, without a common transaction *)

UploadLookup(r, u, j) ==
  /\ Visible(u, j)
  /\ Keep(r, u, j, NoLocals)
  /\ Goto(r, "store")

\* Seeded fault: writeFile is not awaited.
StoreFile_NotAwaited(r) ==
  /\ pc[r] = "store"
  /\ files' \in {files, files \cup {r}}
  /\ Goto(r, "attach")
  /\ UNCHANGED <<tables, orphans, lostAcks, loc, faults>>

StoreFile(r) ==
  /\ pc[r] = "store"
  /\ files' = files \cup {r}
  /\ Goto(r, "attach")
  /\ UNCHANGED <<tables, orphans, lostAcks, loc, faults>>

\* writeFile fails, or the process dies in it: nothing is written, or a part of
\* the file, which stays.
StoreFails(r) ==
  /\ pc[r] = "store"
  /\ faults < MaxFaults
  /\ faults' = faults + 1
  /\ \/ UNCHANGED <<files, orphans>>
     \/ files' = files \cup {r} /\ orphans' = orphans \cup {r}
  /\ Finish(r, "failed")
  /\ UNCHANGED <<tables, lostAcks>>

\* Seeded fault: an upload leaves no audit record.
AttachRow_NotAudited(r) ==
  /\ UNCHANGED <<job, log>>
  /\ attachments' = attachments \cup {[by |-> r, job |-> loc[r].id]}

AttachRow(r) ==
  /\ job' = job
  /\ attachments' = attachments \cup {[by |-> r, job |-> loc[r].id]}
  /\ Audit(r, "JOB_ATTACHMENT_UPLOADED", loc[r].actor, loc[r].id, SaysNothing, NoOne)

AttachCommit(r) ==
  /\ pc[r] = "attach"
  /\ AttachRow(r)
  /\ EmitTo(r, {loc[r].row.client, loc[r].row.technician}, {})
  /\ UNCHANGED <<notes, inbox, storage, faults>>

\* Seeded fault: nothing is cleaned up when the transaction fails.
AttachFails_NoCleanup(r) ==
  /\ pc[r] = "attach"
  /\ faults < MaxFaults
  /\ faults' = faults + 1
  /\ Finish(r, "failed")
  /\ UNCHANGED <<tables, storage>>

\* The transaction rolls back; or it commits, but its answer is lost or the
\* emit that follows inside the try throws, and the catch clause runs all the
\* same.
AttachFails(r) ==
  /\ pc[r] = "attach"
  /\ faults < MaxFaults
  /\ faults' = faults + 1
  /\ \/ UNCHANGED <<job, log, attachments, lostAcks>>
     \/ AttachRow(r) /\ lostAcks' = lostAcks \cup {r}
  /\ Goto(r, "cleanup")
  /\ UNCHANGED <<notes, inbox, files, orphans, loc>>

\* The catch clause; rm can fail too.
CleanUp(r) ==
  /\ pc[r] = "cleanup"
  /\ \/ files' = files \ {r} /\ UNCHANGED <<orphans, faults>>
     \/ /\ faults < MaxFaults
        /\ faults' = faults + 1
        /\ orphans' = orphans \cup {r}
        /\ files' = files
  /\ Finish(r, "failed")
  /\ UNCHANGED <<tables, lostAcks>>

-----------------------------------------------------------------------------
(* Notifications, answers and failures *)

\* PATCH /notifications/:id/read, one statement; nobody is told.
MarkRead(r, u) ==
  /\ pc[r] = "idle"
  /\ \E n \in inbox :
       /\ n.user = u
       /\ inbox' = (inbox \ {n}) \cup {[n EXCEPT !.read = TRUE]}
  /\ Finish(r, "done")
  /\ UNCHANGED <<job, log, notes, attachments, storage, faults>>

Emit(r) ==
  /\ pc[r] = "emit"
  /\ Finish(r, "done")
  /\ UNCHANGED <<tables, storage, faults>>

\* The request is turned down on what the lookup finds.
Refuse(r) ==
  /\ pc[r] = "idle"
  /\ \E u \in Users, j \in JobIds :
       \/ u \in Admins /\ (Exists(j) => job[j].status \in Locked)
       \/ ~Visible(u, j)
       \/ \E s \in Statuses : ~CanUpdateJobStatus(u, job[j], s)
       \/ ~CanCreateJobNote(u, job[j], TRUE)
  /\ Finish(r, "refused")
  /\ UNCHANGED <<tables, storage, faults>>

\* A transaction fails, or the process dies, before the commit.
Fail(r) ==
  /\ pc[r] \in {"assign", "status", "note"}
  /\ faults < MaxFaults
  /\ faults' = faults + 1
  /\ Finish(r, "failed")
  /\ UNCHANGED <<tables, storage>>

\* The API process dies with the handler between its file and its row, in its
\* cleanup, or before its events are out.
Die(r) ==
  /\ pc[r] \in {"attach", "cleanup", "emit"}
  /\ faults < MaxFaults
  /\ faults' = faults + 1
  /\ orphans' = IF pc[r] = "emit" THEN orphans ELSE orphans \cup {r}
  /\ Finish(r, "failed")
  /\ UNCHANGED <<tables, files, lostAcks>>

-----------------------------------------------------------------------------
(* The specification *)

\* The seed, on an empty database, makes two jobs with a technician and a time:
\* one with a note and a record that says nothing of the job, one with neither.
Seed(j) ==
  \E c \in Clients, t \in Technicians, time \in Times, a \in Admins :
    LET row == [client |-> c, technician |-> t, status |-> "ASSIGNED", time |-> time]
    IN  /\ job = [x \in JobIds |-> IF x = j THEN row ELSE NoJob]
        /\ \/ /\ log = << [action |-> "SEED_JOB_CREATED", job |-> j, actor |-> a,
                           by |-> NoOne, status |-> "SAME", technician |-> "SAME",
                           from |-> "SAME", seen |-> 0, given |-> time, stored |-> row] >>
              /\ notes = {[by |-> NoOne, job |-> j, internal |-> TRUE]}
           \/ log = <<>> /\ notes = {}

Empty ==
  /\ job = [j \in JobIds |-> NoJob]
  /\ log = <<>>
  /\ notes = {}

Init ==
  /\ Empty \/ \E j \in JobIds : Seed(j)
  /\ seeded = job
  /\ attachments = {} /\ inbox = {}
  /\ files = {} /\ orphans = {} /\ lostAcks = {}
  /\ pc = [r \in Requests |-> "idle"]
  /\ loc = [r \in Requests |-> NoLocals]
  /\ faults = 0

AdminRequest(r, j) ==
  \E a \in Admins, time \in Times \cup {NoOne} :
    \/ \E c \in Clients, t \in Technicians \cup {NoOne} : CreateJob(r, a, j, c, t, time)
    \/ \E t \in Technicians : AssignLookup(r, a, j, t, time)

Arrive(r) ==
  \/ Refuse(r)
  \/ \E u \in Users : MarkRead(r, u)
  \/ \E j \in JobIds :
       \/ AdminRequest(r, j)
       \/ \E u \in Users :
            \/ \E status \in StatusInputs : StatusLookup(r, u, j, status)
            \/ \E internal \in BOOLEAN : NoteLookup(r, u, j, internal)
            \/ UploadLookup(r, u, j)

Continue(r) ==
  \/ AssignCommit(r) \/ StatusCommit(r) \/ NoteCommit(r)
  \/ StoreFile(r) \/ AttachCommit(r) \/ CleanUp(r)
  \/ Emit(r)

Break(r) == StoreFails(r) \/ AttachFails(r) \/ Fail(r) \/ Die(r)

Next == \E r \in Requests : Arrive(r) \/ Continue(r) \/ Break(r)

Spec == Init /\ [][Next]_vars

-----------------------------------------------------------------------------
(* Properties *)

\* Tables, files and handlers keep their types.
TypeOK ==
  /\ job \in [JobIds -> JobRow] /\ seeded \in [JobIds -> JobRow]
  /\ log \in Seq(Entry)
  /\ notes \subseteq [by : Requests \cup {NoOne}, job : JobIds, internal : BOOLEAN]
  /\ attachments \subseteq [by : Requests, job : JobIds]
  /\ inbox \subseteq [user : Users, by : Requests, job : JobIds, read : BOOLEAN]
  /\ files \subseteq Requests
  /\ orphans \subseteq Requests
  /\ lostAcks \subseteq Requests
  /\ pc \in [Requests -> Labels]
  /\ loc \in [Requests -> Locals]
  /\ faults \in 0 .. MaxFaults

\* What a reader of the log takes an entry to say of the status: a record of an
\* assignment does not name one, but every assignment sets ASSIGNED.
StatusTold(e) == IF e.action = "JOB_ASSIGNED" THEN "ASSIGNED" ELSE e.status

\* Entry i of the log is the last that says something of its job's field.
LastStatus(i) ==
  /\ StatusTold(log[i]) # "SAME"
  /\ \A k \in DOMAIN log :
       k > i /\ log[k].job = log[i].job => StatusTold(log[k]) = "SAME"
LastTechnician(i) ==
  /\ log[i].technician # "SAME"
  /\ \A k \in DOMAIN log : k > i /\ log[k].job = log[i].job => log[k].technician = "SAME"

\* The audit log tells the state of every job, to a reader who knows what an
\* assignment sets: the technician is the last one it names; the status is the
\* last one it names, or ASSIGNED when an assignment came after.  So it is
\* however handlers interleave and fail.
AuditExplainsJob ==
  \A i \in DOMAIN log :
    /\ LastStatus(i) => job[log[i].job].status = StatusTold(log[i])
    /\ LastTechnician(i) => job[log[i].job].technician = log[i].technician

\* A change is announced to those it concerns and to nobody else: the client
\* of a new or moved job, the technician of an assignment.
Concerned(e) ==
  (CASE e.action = "JOB_CREATED" -> {job[e.job].client, e.technician}
     [] e.action = "JOB_ASSIGNED" -> {e.technician}
     [] e.action = "JOB_STATUS_CHANGED" -> {job[e.job].client}
     [] OTHER -> {}) \ {NoOne}
ChangesAnnounced ==
  {[user |-> n.user, by |-> n.by, job |-> n.job] : n \in inbox}
    = UNION {{[user |-> u, by |-> log[i].by, job |-> log[i].job] :
                 u \in Concerned(log[i])} : i \in DOMAIN log}

\* A technician leaves a trace only on jobs that were assigned to that
\* technician before, by the seed or by a recorded commit.
TechnicianHadJob ==
  \A i \in DOMAIN log :
    log[i].actor \in Technicians =>
      \/ seeded[log[i].job].technician = log[i].actor
      \/ \E k \in 1 .. i - 1 :
           log[k].job = log[i].job /\ log[k].stored.technician = log[i].actor

\* Entries k and i of one job: k committed between the lookup and the commit
\* of i.
Between(k, i) == log[k].job = log[i].job /\ log[i].seen < k /\ k < i

\* What entry i replaced: the row the entry before it of that job has left.
Replaced(i) ==
  LET before == {k \in 1 .. i - 1 : log[k].job = log[i].job}
  IN  IF before = {} THEN seeded[log[i].job]
      ELSE log[CHOOSE k \in before : \A x \in before : x <= k].stored

\* The "from" of an audit record (and of the notification text) is what the
\* commit replaced, unless another commit on the job came between the lookup
\* and the commit.
AuditFromExplained ==
  \A i \in DOMAIN log :
    (\E k \in DOMAIN log : Between(k, i)) \/
      /\ log[i].action = "JOB_STATUS_CHANGED" => log[i].from = Replaced(i).status
      /\ log[i].action = "JOB_ASSIGNED" => log[i].from = Replaced(i).technician

\* A time somebody gave a job stays its time until somebody gives another, or
\* an assignment that looked the job up before commits after: that one writes
\* the old time back.
Overwritten(i) ==
  \E k \in DOMAIN log :
    /\ log[k].job = log[i].job /\ k > i
    /\ log[k].given # NoOne \/ (log[k].action = "JOB_ASSIGNED" /\ Between(i, k))
ScheduleExplained ==
  \A i \in DOMAIN log :
    log[i].given # NoOne => job[log[i].job].time = log[i].given \/ Overwritten(i)

\* An attachment has its file, unless the commit of its row was reported as a
\* failure and the file cleaned up.
AttachmentHasFile ==
  \A a \in attachments : a.by \in files \cup lostAcks

\* A file without a row belongs to an upload that is under way, or to one
\* that died, failed while writing it, or could not clean up.
OrphanFilesExplained ==
  \A r \in files :
    \/ \E a \in attachments : a.by = r
    \/ pc[r] \in {"attach", "cleanup"}
    \/ r \in orphans

\* The tables implement the abstract workflow: a job, its notes and its
\* attachments change only in a transaction that commits one audit record of
\* that job with them, and a job keeps its client.
Contents(j) == [row |-> job[j], notes |-> {n \in notes : n.job = j},
                attachments |-> {a \in attachments : a.job = j}]
Promised == INSTANCE Workflow WITH
  Jobs <- JobIds, Nobody <- NoOne,
  client <- [j \in JobIds |-> job[j].client],
  content <- [j \in JobIds |-> Contents(j)],
  record <- [i \in DOMAIN log |-> log[i].job]
ImplementsWorkflow == Promised!Spec

-----------------------------------------------------------------------------
(* Statements of the repository that the code does not meet *)

\* jobs.service.ts, "Completed or cancelled jobs cannot be reassigned".
LockedJobsNotReassigned ==
  [][\A j \in JobIds :
       Exists(j) /\ job[j].status \in Locked => job'[j].technician = job[j].technician]_vars

\* job.policy.test.ts, "allows technicians to update only assigned jobs to
\* allowed statuses".
OnlyAssigneeUpdates ==
  [][\A j \in JobIds, r \in Requests :
       job'[j].status # job[j].status /\ loc[r].actor \in Technicians /\ pc[r] = "status"
         /\ pc'[r] = "emit" => job[j].technician = loc[r].actor]_vars
=============================================================================

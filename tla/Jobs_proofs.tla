---------------------------- MODULE Jobs_proofs -----------------------------
(***************************************************************************)
(* Proofs of the safety properties of Jobs, and that it implements         *)
(* Workflow, for every set of users, jobs and requests.  Whatever a        *)
(* handler commits is an entry of the audit log together with the row it   *)
(* leaves (Committed); most properties are proved from that alone.         *)
(***************************************************************************)
EXTENDS Jobs, WellFoundedInduction, TLAPS

-----------------------------------------------------------------------------
(* The inductive invariant *)

Midway == {"assign", "status", "note", "store", "attach"}

HadJob(j, t) ==
  \/ seeded[j].technician = t
  \/ \E k \in DOMAIN log : log[k].job = j /\ log[k].stored.technician = t

\* A handler before its commit: its job exists and was its technician's, the row
\* it carries is that of the job unless the log shows a commit since the lookup
\* (its technician, unless it shows an assignment), and the times it saw given
\* are in the row or overwritten.
HandlerOK(r) ==
  pc[r] \in Midway =>
    /\ loc[r].id \in JobIds /\ Exists(loc[r].id)
    /\ loc[r].actor \in Users /\ loc[r].seen <= Len(log)
    /\ loc[r].actor \in Technicians => HadJob(loc[r].id, loc[r].actor)
    /\ pc[r] = "assign" => loc[r].actor \in Admins /\ loc[r].technician \in Technicians
    /\ loc[r].row.client = job[loc[r].id].client
    /\ \/ loc[r].row = job[loc[r].id]
       \/ \E k \in DOMAIN log : k > loc[r].seen /\ log[k].job = loc[r].id
    /\ \/ loc[r].row.technician = job[loc[r].id].technician
       \/ \E k \in DOMAIN log : /\ k > loc[r].seen /\ log[k].job = loc[r].id
                                /\ log[k].action = "JOB_ASSIGNED"
    /\ \A i \in 1 .. loc[r].seen :
         log[i].job = loc[r].id /\ log[i].given # NoOne =>
           loc[r].row.time = log[i].given \/ Overwritten(i)

\* A handler has its file when it gets to its row, and no row before; a lost
\* commit leads to the cleanup.
UploadOK(r) ==
  /\ pc[r] = "attach" => r \in files
  /\ (\E a \in attachments : a.by = r) =>
       pc[r] \in {"emit", "done", "failed"} \/ (pc[r] = "cleanup" /\ r \in lostAcks)
  /\ r \in lostAcks => pc[r] \in {"cleanup", "failed"}

\* The row of a job is the one its last entry left.
RowRecorded ==
  \A j \in JobIds :
    \/ job[j] = seeded[j] /\ \A i \in DOMAIN log : log[i].job # j
    \/ \E k \in DOMAIN log :
         /\ log[k].job = j /\ log[k].stored = job[j]
         /\ \A i \in DOMAIN log : i > k => log[i].job # j

LogOK == \A i \in DOMAIN log : Exists(log[i].job)

\* The inductive invariant.
IInv ==
  /\ TypeOK
  /\ \A r \in Requests : HandlerOK(r) /\ UploadOK(r)
  /\ RowRecorded /\ LogOK
  /\ AuditExplainsJob /\ ChangesAnnounced /\ TechnicianHadJob
  /\ AuditFromExplained /\ ScheduleExplained
  /\ AttachmentHasFile /\ OrphanFilesExplained

-----------------------------------------------------------------------------
(* Types *)

\* The moves of a handler keep the type of pc.
LEMMA GotoTypes ==
  ASSUME TypeOK, NEW r \in Requests, NEW label \in Labels, Goto(r, label)
  PROVE  pc' \in [Requests -> Labels] /\ UNCHANGED seeded
BY DEF TypeOK, Goto

\* A handler that ends keeps the types of what it leaves.
LEMMA FinishTypes ==
  ASSUME TypeOK, NEW r \in Requests, NEW label \in Labels, Finish(r, label)
  PROVE  /\ pc' \in [Requests -> Labels] /\ UNCHANGED seeded
         /\ loc' \in [Requests -> Locals]
<1>1. NoLocals \in Locals
  BY DEF NoLocals, Locals, NoJob, JobRow, Statuses
<1> QED
  BY <1>1, GotoTypes DEF TypeOK, Finish

\* A lookup keeps the types and writes nothing.
LEMMA KeepTypes ==
  ASSUME TypeOK, NEW r \in Requests, NEW u \in Users, NEW j \in JobIds,
         NEW input \in Locals, Keep(r, u, j, input)
  PROVE  /\ loc' \in [Requests -> Locals]
         /\ UNCHANGED <<tables, storage, faults>>
<1>1. job[j] \in JobRow /\ Len(log) \in Nat
  BY DEF TypeOK
<1>2. [input EXCEPT !.actor = u, !.id = j, !.row = job[j], !.seen = Len(log)] \in Locals
  BY <1>1 DEF Locals
<1> QED
  BY <1>2 DEF TypeOK, Keep

\* A handler that goes on to its events keeps the types.
LEMMA EmitToTypes ==
  ASSUME TypeOK, NEW r \in Requests, NEW users \in SUBSET (Users \cup {NoOne}),
         NEW notified \in SUBSET (Users \cup {NoOne}), EmitTo(r, users, notified)
  PROVE  /\ pc' \in [Requests -> Labels] /\ UNCHANGED seeded
         /\ loc' \in [Requests -> Locals]
<1>1. pc' \in [Requests -> Labels] /\ UNCHANGED seeded
  BY GotoTypes DEF EmitTo, Labels
<1>2. Admins \cup (users \ {NoOne}) \in SUBSET Users /\ notified \ {NoOne} \in SUBSET Users
  BY DEF Users
<1>3. loc[r] \in Locals
  BY DEF TypeOK
<1>4. [loc[r] EXCEPT !.audience = Admins \cup (users \ {NoOne}),
                     !.notified = notified \ {NoOne}] \in Locals
  BY <1>2, <1>3 DEF Locals
<1>5. loc' = [loc EXCEPT ![r] = [loc[r] EXCEPT !.audience = Admins \cup (users \ {NoOne}),
                                               !.notified = notified \ {NoOne}]]
  BY <1>2, <1>3 DEF EmitTo, TypeOK, Locals
<1> QED
  BY <1>1, <1>4, <1>5 DEF TypeOK

\* An audit record is an entry of the log.
LEMMA AuditTypes ==
  ASSUME TypeOK, NEW r \in Requests, NEW action \in Actions, NEW u \in Users,
         NEW j \in JobIds, NEW meta, NEW given \in Times \cup {NoOne},
         meta.status \in Statuses \cup {"SAME"},
         meta.technician \in Technicians \cup {NoOne, "SAME"},
         meta.from \in Statuses \cup Technicians \cup {NoOne, "SAME"},
         job' \in [JobIds -> JobRow],
         Audit(r, action, u, j, meta, given)
  PROVE  \E e \in Entry :
           /\ log' = Append(log, e)
           /\ e.action = action /\ e.job = j /\ e.actor = u /\ e.by = r
           /\ e.status = meta.status /\ e.technician = meta.technician
           /\ e.from = meta.from /\ e.seen = loc[r].seen /\ e.given = given
           /\ e.stored = job'[j]
<1> DEFINE e == [action |-> action, job |-> j, actor |-> u, by |-> r,
                 status |-> meta.status, technician |-> meta.technician,
                 from |-> meta.from, seen |-> loc[r].seen, given |-> given,
                 stored |-> job'[j]]
<1>1. loc[r].seen \in Nat
  BY DEF TypeOK, Locals
<1>2. e \in Entry
  BY <1>1 DEF Entry
<1>3. log' = Append(log, e)
  BY DEF Audit
<1>4. /\ e.action = action /\ e.job = j /\ e.actor = u /\ e.by = r
      /\ e.status = meta.status /\ e.technician = meta.technician
      /\ e.from = meta.from /\ e.seen = loc[r].seen /\ e.given = given
      /\ e.stored = job'[j]
  OBVIOUS
<1> HIDE DEF e
<1> QED
  BY <1>2, <1>3, <1>4

\* New notifications are of their type.
LEMMA NotifyTypes ==
  ASSUME TypeOK, NEW r \in Requests, NEW users \in SUBSET (Users \cup {NoOne}),
         NEW j \in JobIds, Notify(r, users, j)
  PROVE  inbox' \subseteq [user : Users, by : Requests, job : JobIds, read : BOOLEAN]
<1>1. \A u \in users \ {NoOne} :
        [user |-> u, by |-> r, job |-> j, read |-> FALSE]
          \in [user : Users, by : Requests, job : JobIds, read : BOOLEAN]
  OBVIOUS
<1>2. inbox \subseteq [user : Users, by : Requests, job : JobIds, read : BOOLEAN]
  BY DEF TypeOK
<1> HIDE DEF TypeOK
<1> QED
  BY <1>1, <1>2 DEF Notify

-----------------------------------------------------------------------------
(* What is committed *)

\* e is what r, which looked the job up before, commits about it.
Follows(r, e) ==
  /\ pc[r] \in Midway
  /\ e.action # "JOB_CREATED" /\ (e.action # "JOB_ASSIGNED" => e.technician = "SAME")
  /\ e.job = loc[r].id /\ e.actor = loc[r].actor /\ e.seen = loc[r].seen
  /\ job'[e.job].client = job[e.job].client
  /\ job'[e.job].time = IF e.action # "JOB_ASSIGNED" THEN job[e.job].time
                        ELSE IF e.given # NoOne THEN e.given ELSE loc[r].row.time
  /\ e.action = "JOB_STATUS_CHANGED" => e.from = loc[r].row.status
  /\ e.action = "JOB_ASSIGNED" => e.from = loc[r].row.technician

\* r appends e to the log and leaves the row e has stored.
Committed(r, e) ==
  /\ log' = Append(log, e)
  /\ job' \in [JobIds -> JobRow]
  /\ e.by = r /\ e.stored = job'[e.job] /\ job'[e.job].client # NoOne
  /\ \A x \in JobIds : x # e.job => job'[x] = job[x]
  /\ job'[e.job].status =
       IF StatusTold(e) = "SAME" THEN job[e.job].status ELSE StatusTold(e)
  /\ job'[e.job].technician =
       IF e.technician = "SAME" THEN job[e.job].technician ELSE e.technician
  /\ e.given # NoOne => job'[e.job].time = e.given
  /\ \/ e.action = "JOB_CREATED" /\ job[e.job].client = NoOne /\ e.actor \in Admins
     \/ Follows(r, e)

\* Whom r notifies about j.
Told(r, users, j) ==
  inbox' = inbox \cup {[user |-> u, by |-> r, job |-> j, read |-> FALSE] : u \in users}

\* A creation commits one entry and tells those concerned.
LEMMA CreateCommits ==
  ASSUME TypeOK, NEW r \in Requests, NEW a \in Admins, NEW j \in JobIds, NEW c \in Clients,
         NEW t \in Technicians \cup {NoOne}, NEW time \in Times \cup {NoOne},
         CreateJob(r, a, j, c, t, time)
  PROVE  /\ TypeOK'
         /\ \E e \in Entry : Committed(r, e) /\ Told(r, Concerned(e)', e.job)
<1> DEFINE status == IF t # NoOne THEN "ASSIGNED"
                     ELSE IF time # NoOne THEN "SCHEDULED" ELSE "NEW"
           row == [client |-> c, technician |-> t, status |-> status, time |-> time]
           meta == [status |-> status, technician |-> t, from |-> "SAME"]
<1>1. /\ pc[r] = "idle" /\ job[j].client = NoOne
      /\ job' = [job EXCEPT ![j] = row]
      /\ Audit(r, "JOB_CREATED", a, j, meta, time)
      /\ Notify(r, {c, t}, j)
      /\ EmitTo(r, {c, t}, {c, t})
      /\ UNCHANGED <<notes, attachments, storage, faults>>
  BY DEF CreateJob, Exists
<1>2. status \in Statuses /\ status # "SAME"
  BY DEF Statuses
<1> HIDE DEF status
<1>3. row \in JobRow /\ c # NoOne /\ c \in Users /\ a \in Users
  BY <1>2, RoleAssumption DEF JobRow, Users
<1>4. job' \in [JobIds -> JobRow] /\ job'[j] = row
  BY <1>1, <1>3 DEF TypeOK
<1>5. PICK e \in Entry :
        /\ log' = Append(log, e)
        /\ e.action = "JOB_CREATED" /\ e.job = j /\ e.actor = a /\ e.by = r
        /\ e.status = status /\ e.technician = t
        /\ e.given = time /\ e.stored = job'[j]
  <2>1. "JOB_CREATED" \in Actions
    BY DEF Actions
  <2>2. /\ meta.status = status /\ meta.technician = t /\ meta.from = "SAME"
    OBVIOUS
  <2> HIDE DEF meta, row
  <2> QED
    BY <1>1, <1>2, <1>3, <1>4, <2>1, <2>2, AuditTypes
<1>6. Committed(r, e)
  <2>1. t # "SAME"
    BY RoleAssumption DEF Users
  <2>2. \A x \in JobIds : x # e.job => job'[x] = job[x]
    BY <1>1, <1>5 DEF TypeOK
  <2>3. /\ row.client = c /\ row.technician = t /\ row.status = status /\ row.time = time
    OBVIOUS
  <2> HIDE DEF row
  <2> QED
    BY <1>1, <1>2, <1>3, <1>4, <1>5, <2>1, <2>2, <2>3 DEF Committed, StatusTold
<1>7. Told(r, Concerned(e)', e.job)
  <2>1. Concerned(e)' = {c, t} \ {NoOne}
    BY <1>4, <1>5 DEF Concerned
  <2> QED
    BY <1>1, <1>5, <2>1 DEF Told, Notify
<1>8. TypeOK'
  <2>1. {c, t} \in SUBSET (Users \cup {NoOne})
    BY <1>3 DEF Users
  <2>2. /\ pc' \in [Requests -> Labels] /\ UNCHANGED seeded
        /\ loc' \in [Requests -> Locals]
    BY <1>1, <2>1, EmitToTypes
  <2>3. inbox' \subseteq [user : Users, by : Requests, job : JobIds, read : BOOLEAN]
    BY <1>1, <2>1, NotifyTypes
  <2>4. log' \in Seq(Entry)
    BY <1>5 DEF TypeOK
  <2> QED
    BY <1>1, <1>4, <2>2, <2>3, <2>4 DEF TypeOK, storage
<1> QED
  BY <1>6, <1>7, <1>8

\* An assignment commits one entry and tells those concerned.
LEMMA AssignCommits ==
  ASSUME TypeOK, NEW r \in Requests, HandlerOK(r), AssignCommit(r)
  PROVE  /\ TypeOK'
         /\ \E e \in Entry : Committed(r, e) /\ Told(r, Concerned(e)', e.job)
<1> DEFINE j == loc[r].id
           t == loc[r].technician
           meta == [status |-> "SAME", technician |-> t, from |-> loc[r].row.technician]
<1>1. /\ pc[r] = "assign"
      /\ Reassigned(r)
      /\ Audit(r, "JOB_ASSIGNED", loc[r].actor, j, meta, loc[r].time)
      /\ Notify(r, {t}, j)
      /\ EmitTo(r, {job[j].client, t, loc[r].row.technician}, {t})
      /\ UNCHANGED <<notes, attachments, storage, faults>>
  BY DEF AssignCommit
<1>2. /\ j \in JobIds /\ job[j].client # NoOne
      /\ loc[r].actor \in Users /\ t \in Technicians
  BY <1>1 DEF HandlerOK, Midway, Exists
<1>3. /\ job[j] \in JobRow /\ loc[r].row \in JobRow /\ loc[r].time \in Times \cup {NoOne}
      /\ loc[r].seen \in Nat
  BY <1>2 DEF TypeOK, Locals
<1>4. TimeToStore(r) \in Times \cup {NoOne}
  BY <1>3 DEF TimeToStore, JobRow
<1> DEFINE row == [job[j] EXCEPT !.technician = t, !.status = "ASSIGNED",
                                 !.time = TimeToStore(r)]
<1>5. /\ row \in JobRow /\ row.technician = t /\ row.status = "ASSIGNED"
      /\ row.time = TimeToStore(r) /\ row.client = job[j].client
  BY <1>2, <1>3, <1>4 DEF JobRow, Statuses
<1>6. job' = [job EXCEPT ![j] = row]
  BY <1>1, <1>2 DEF Reassigned, TypeOK
<1> HIDE DEF row
<1>7. job' \in [JobIds -> JobRow] /\ job'[j] = row
  BY <1>2, <1>5, <1>6 DEF TypeOK
<1>8. PICK e \in Entry :
        /\ log' = Append(log, e)
        /\ e.action = "JOB_ASSIGNED" /\ e.job = j /\ e.actor = loc[r].actor /\ e.by = r
        /\ e.status = "SAME" /\ e.technician = t /\ e.from = loc[r].row.technician
        /\ e.seen = loc[r].seen /\ e.given = loc[r].time /\ e.stored = job'[j]
  <2>1. "JOB_ASSIGNED" \in Actions
    BY DEF Actions
  <2>2. /\ meta.status = "SAME" /\ meta.technician = t
        /\ meta.from = loc[r].row.technician /\ meta.from \in Technicians \cup {NoOne}
    BY <1>3 DEF JobRow
  <2> HIDE DEF meta, j, t
  <2> QED
    BY <1>1, <1>2, <1>3, <1>7, <2>1, <2>2, AuditTypes
<1>9. Committed(r, e)
  <2>1. t # "SAME" /\ t \in Users
    BY <1>2, RoleAssumption DEF Users
  <2>2. \A x \in JobIds : x # e.job => job'[x] = job[x]
    BY <1>6, <1>8 DEF TypeOK
  <2>3. Follows(r, e)
    BY <1>1, <1>5, <1>7, <1>8 DEF Follows, Midway, TimeToStore
  <2>4. e.given # NoOne => row.time = e.given
    BY <1>5, <1>8 DEF TimeToStore
  <2>5. StatusTold(e) = "ASSIGNED"
    BY <1>8 DEF StatusTold
  <2> HIDE DEF j, t
  <2> QED
    BY <1>2, <1>5, <1>7, <1>8, <2>1, <2>2, <2>3, <2>4, <2>5 DEF Committed
<1>10. Told(r, Concerned(e)', e.job)
  <2>1. Concerned(e)' = {t} \ {NoOne}
    BY <1>8 DEF Concerned
  <2> QED
    BY <1>1, <1>8, <2>1 DEF Told, Notify
<1>11. TypeOK'
  <2>1. /\ {t} \in SUBSET (Users \cup {NoOne})
        /\ {job[j].client, t, loc[r].row.technician} \in SUBSET (Users \cup {NoOne})
    BY <1>2, <1>3 DEF Users, JobRow
  <2>2. /\ pc' \in [Requests -> Labels] /\ UNCHANGED seeded
        /\ loc' \in [Requests -> Locals]
    BY <1>1, <2>1, EmitToTypes
  <2>3. inbox' \subseteq [user : Users, by : Requests, job : JobIds, read : BOOLEAN]
    BY <1>1, <1>2, <2>1, NotifyTypes
  <2>4. log' \in Seq(Entry)
    BY <1>8 DEF TypeOK
  <2> QED
    BY <1>1, <1>7, <2>2, <2>3, <2>4 DEF TypeOK, storage
<1> QED
  BY <1>9, <1>10, <1>11

\* A change of status commits one entry and tells those concerned.
LEMMA StatusCommits ==
  ASSUME TypeOK, NEW r \in Requests, HandlerOK(r), StatusCommit(r)
  PROVE  /\ TypeOK'
         /\ \E e \in Entry : Committed(r, e) /\ Told(r, Concerned(e)', e.job)
<1> DEFINE j == loc[r].id
           meta == MoveTo(loc[r].status, loc[r].row.status)
           row == [job[j] EXCEPT !.status = loc[r].status]
<1>1. /\ pc[r] = "status"
      /\ job' = [job EXCEPT ![j].status = loc[r].status]
      /\ Audit(r, "JOB_STATUS_CHANGED", loc[r].actor, j, meta, NoOne)
      /\ Notify(r, {job[j].client}, j)
      /\ EmitTo(r, {job[j].client, job[j].technician}, {job[j].client})
      /\ UNCHANGED <<notes, attachments, storage, faults>>
  BY DEF StatusCommit
<1>2. j \in JobIds /\ job[j].client # NoOne /\ loc[r].actor \in Users
  BY <1>1 DEF HandlerOK, Midway, Exists
<1>3. /\ job[j] \in JobRow /\ loc[r].row \in JobRow /\ loc[r].status \in Statuses
      /\ loc[r].status # "SAME" /\ loc[r].row.status \in Statuses
  BY <1>2 DEF TypeOK, Locals, Statuses, JobRow
<1>5. /\ row \in JobRow /\ row.technician = job[j].technician /\ row.status = loc[r].status
      /\ row.time = job[j].time /\ row.client = job[j].client
  BY <1>2, <1>3 DEF JobRow
<1>6. job' = [job EXCEPT ![j] = row]
  BY <1>1, <1>2 DEF TypeOK
<1> HIDE DEF row
<1>7. job' \in [JobIds -> JobRow] /\ job'[j] = row
  BY <1>2, <1>5, <1>6 DEF TypeOK
<1>8. PICK e \in Entry :
        /\ log' = Append(log, e)
        /\ e.action = "JOB_STATUS_CHANGED" /\ e.job = j /\ e.actor = loc[r].actor
        /\ e.by = r /\ e.status = loc[r].status /\ e.technician = "SAME"
        /\ e.from = loc[r].row.status
        /\ e.seen = loc[r].seen /\ e.given = NoOne /\ e.stored = job'[j]
  <2>1. "JOB_STATUS_CHANGED" \in Actions
    BY DEF Actions
  <2>2. /\ meta.status = loc[r].status /\ meta.technician = "SAME"
        /\ meta.from = loc[r].row.status
    BY DEF MoveTo
  <2> HIDE DEF meta, j
  <2> QED
    BY <1>1, <1>2, <1>3, <1>7, <2>1, <2>2, AuditTypes
<1>9. Committed(r, e)
  <2>2. \A x \in JobIds : x # e.job => job'[x] = job[x]
    BY <1>6, <1>8 DEF TypeOK
  <2>3. Follows(r, e)
    BY <1>1, <1>5, <1>7, <1>8 DEF Follows, Midway
  <2> HIDE DEF j
  <2> QED
    BY <1>2, <1>3, <1>5, <1>7, <1>8, <2>2, <2>3 DEF Committed, StatusTold
<1>10. Told(r, Concerned(e)', e.job)
  <2>1. Concerned(e)' = {job[j].client} \ {NoOne}
    BY <1>5, <1>7, <1>8 DEF Concerned
  <2> QED
    BY <1>1, <1>8, <2>1 DEF Told, Notify
<1>11. TypeOK'
  <2>1. /\ {job[j].client} \in SUBSET (Users \cup {NoOne})
        /\ {job[j].client, job[j].technician} \in SUBSET (Users \cup {NoOne})
    BY <1>2, <1>3 DEF Users, JobRow
  <2>2. /\ pc' \in [Requests -> Labels] /\ UNCHANGED seeded
        /\ loc' \in [Requests -> Locals]
    BY <1>1, <2>1, EmitToTypes
  <2>3. inbox' \subseteq [user : Users, by : Requests, job : JobIds, read : BOOLEAN]
    BY <1>1, <1>2, <2>1, NotifyTypes
  <2>4. log' \in Seq(Entry)
    BY <1>8 DEF TypeOK
  <2> QED
    BY <1>1, <1>7, <2>2, <2>3, <2>4 DEF TypeOK, storage
<1> QED
  BY <1>9, <1>10, <1>11

\* A record that says nothing, on a job that stays as it is.
LEMMA SilentCommits ==
  ASSUME TypeOK, NEW r \in Requests, HandlerOK(r), pc[r] \in Midway,
         NEW action \in {"JOB_NOTE_ADDED", "JOB_ATTACHMENT_UPLOADED"},
         job' = job,
         Audit(r, action, loc[r].actor, loc[r].id, SaysNothing, NoOne)
  PROVE  \E e \in Entry :
           /\ Committed(r, e) /\ log' = Append(log, e) /\ e.job = loc[r].id
           /\ Concerned(e)' = {}
<1>1. loc[r].id \in JobIds /\ job[loc[r].id].client # NoOne /\ loc[r].actor \in Users
  BY DEF HandlerOK, Exists
<1>2. job' \in [JobIds -> JobRow]
  BY DEF TypeOK
<1>3. PICK e \in Entry :
        /\ log' = Append(log, e)
        /\ e.action = action /\ e.job = loc[r].id /\ e.actor = loc[r].actor
        /\ e.by = r /\ e.status = "SAME" /\ e.technician = "SAME"
        /\ e.seen = loc[r].seen /\ e.given = NoOne /\ e.stored = job'[loc[r].id]
  <2>1. action \in Actions
    BY DEF Actions
  <2>2. /\ SaysNothing.status = "SAME" /\ SaysNothing.technician = "SAME"
        /\ SaysNothing.from = "SAME"
    BY DEF SaysNothing
  <2> QED
    BY <1>1, <1>2, <2>1, <2>2, AuditTypes
<1>4. Committed(r, e)
  <2>1. Follows(r, e)
    BY <1>3 DEF Follows
  <2> QED
    BY <1>1, <1>2, <1>3, <2>1 DEF Committed, StatusTold
<1>5. Concerned(e)' = {}
  BY <1>3 DEF Concerned
<1> QED
  BY <1>3, <1>4, <1>5

-----------------------------------------------------------------------------
(* What a step can do: every action is one of a few kinds *)

\* The notifications, without whether they were read.
Announcements == {[user |-> n.user, by |-> n.by, job |-> n.job] : n \in inbox}

\* Nothing is committed; a notification may be marked as read.
Quiet == UNCHANGED <<job, log, notes, attachments>> /\ Announcements' = Announcements

\* r commits one entry, about a job whose notes and attachments it may add to.
Commits(r) ==
  \E e \in Entry :
    /\ Committed(r, e) /\ Told(r, Concerned(e)', e.job)
    /\ \A x \in JobIds : x # e.job =>
         /\ {n \in notes : n.job = x}' = {n \in notes : n.job = x}
         /\ {a \in attachments : a.job = x}' = {a \in attachments : a.job = x}

\* q is where it was before the step, or on its way from its file to its row.
Carried(q) ==
  /\ pc[q] \in Midway /\ loc'[q] = loc[q]
  /\ pc'[q] = "assign" => pc[q] = "assign"

\* q has just looked a job up, and may do to it what it is about to do.
Looked(q) ==
  LET l == loc'[q]
  IN  /\ UNCHANGED <<job, log>>
      /\ l.id \in JobIds /\ Exists(l.id) /\ l.row = job[l.id] /\ l.seen = Len(log)
      /\ l.actor \in Users
      /\ l.actor \in Technicians => job[l.id].technician = l.actor
      /\ pc'[q] = "assign" => l.actor \in Admins /\ l.technician \in Technicians

Moves(q) == pc'[q] \in Midway => Carried(q) \/ Looked(q)

\* What a step of r amounts to.
Outcome(r) ==
  /\ TypeOK' /\ UNCHANGED seeded
  /\ Quiet \/ Commits(r)
  /\ \A q \in Requests : Moves(q)

\* A handler that leaves the middle moves nobody else.
LEMMA LeaveMoves ==
  ASSUME TypeOK, NEW r \in Requests, NEW label, label \notin Midway, Goto(r, label),
         \A q \in Requests : q # r => loc'[q] = loc[q]
  PROVE  \A q \in Requests : Moves(q)
<1> TAKE q \in Requests
<1>1. pc'[r] = label /\ (q # r => pc'[q] = pc[q])
  BY DEF TypeOK, Goto
<1> QED
  BY <1>1 DEF Moves, Carried

\* A handler that ends moves no other handler.
LEMMA FinishMoves ==
  ASSUME TypeOK, NEW r \in Requests, NEW label, label \notin Midway, Finish(r, label)
  PROVE  \A q \in Requests : Moves(q)
<1>1. \A q \in Requests : q # r => loc'[q] = loc[q]
  BY DEF TypeOK, Finish
<1> QED
  BY <1>1, LeaveMoves DEF Finish

\* A handler that goes on to its events moves no other handler.
LEMMA EmitToMoves ==
  ASSUME TypeOK, NEW r \in Requests, NEW users, NEW notified, EmitTo(r, users, notified)
  PROVE  \A q \in Requests : Moves(q)
<1>1. \A q \in Requests : q # r => loc'[q] = loc[q]
  BY DEF TypeOK, EmitTo
<1> QED
  BY <1>1, LeaveMoves DEF EmitTo, Midway

\* A lookup that found a job of its user.
LEMMA LookupOutcome ==
  ASSUME TypeOK, NEW r \in Requests, NEW u \in Users, NEW j \in JobIds,
         NEW input \in Locals, NEW label \in {"assign", "status", "note", "store"},
         Keep(r, u, j, input), Goto(r, label), Exists(j),
         u \in Technicians => job[j].technician = u,
         label = "assign" => u \in Admins /\ input.technician \in Technicians
  PROVE  Outcome(r)
<1>1. /\ loc' \in [Requests -> Locals]
      /\ UNCHANGED <<tables, storage, faults>>
  BY KeepTypes
<1>2. pc' \in [Requests -> Labels] /\ UNCHANGED seeded
  BY GotoTypes DEF Labels
<1>3. TypeOK'
  BY <1>1, <1>2 DEF TypeOK, tables, storage
<1>4. Quiet
  BY <1>1 DEF Quiet, Announcements, tables
<1>5. ASSUME NEW q \in Requests PROVE Moves(q)
  <2>1. CASE q # r
    <3>1. loc'[q] = loc[q] /\ pc'[q] = pc[q]
      BY <2>1 DEF TypeOK, Keep, Goto
    <3> QED
      BY <3>1 DEF Moves, Carried
  <2>2. CASE q = r
    <3>1. pc'[r] = label
      BY DEF TypeOK, Goto
    <3>2. loc'[r] = [input EXCEPT !.actor = u, !.id = j, !.row = job[j], !.seen = Len(log)]
      BY DEF TypeOK, Keep
    <3>3. /\ loc'[r].id = j /\ loc'[r].row = job[j] /\ loc'[r].seen = Len(log)
          /\ loc'[r].actor = u /\ loc'[r].technician = input.technician
      BY <3>2 DEF Locals
    <3> QED
      BY <1>1, <2>2, <3>1, <3>3 DEF Moves, Looked, tables
  <2> QED
    BY <2>1, <2>2
<1> QED
  BY <1>2, <1>3, <1>4, <1>5 DEF Outcome

\* A handler that knows nothing is well typed.
LEMMA NoLocalsType == NoLocals \in Locals
BY DEF NoLocals, Locals, NoJob, JobRow, Statuses

\* The lookup of an assignment writes nothing.
LEMMA AssignLookupOutcome ==
  ASSUME TypeOK, NEW r \in Requests, NEW a \in Admins, NEW j \in JobIds,
         NEW t \in Technicians, NEW time \in Times \cup {NoOne},
         AssignLookup(r, a, j, t, time)
  PROVE  Outcome(r)
<1> DEFINE input == [NoLocals EXCEPT !.technician = t, !.time = time]
<1>1. input \in Locals /\ input.technician = t
  BY NoLocalsType DEF Locals
<1>2. a \in Users /\ a \notin Technicians
  BY RoleAssumption DEF Users
<1>3. Exists(j) /\ Keep(r, a, j, input) /\ Goto(r, "assign")
  BY DEF AssignLookup
<1> HIDE DEF input
<1> QED
  BY <1>1, <1>2, <1>3, LookupOutcome

\* The lookup of a change of status writes nothing.
LEMMA StatusLookupOutcome ==
  ASSUME TypeOK, NEW r \in Requests, NEW u \in Users, NEW j \in JobIds,
         NEW status \in StatusInputs, StatusLookup(r, u, j, status)
  PROVE  Outcome(r)
<1> DEFINE input == [NoLocals EXCEPT !.status = status]
<1>1. input \in Locals
  BY NoLocalsType, InputAssumption DEF Locals, Statuses
<1>2. /\ Exists(j) /\ Keep(r, u, j, input) /\ Goto(r, "status")
      /\ u \in Technicians => job[j].technician = u
  BY RoleAssumption DEF StatusLookup, Visible
<1> HIDE DEF input
<1> QED
  BY <1>1, <1>2, LookupOutcome

\* The lookup of a note writes nothing.
LEMMA NoteLookupOutcome ==
  ASSUME TypeOK, NEW r \in Requests, NEW u \in Users, NEW j \in JobIds,
         NEW internal \in BOOLEAN, NoteLookup(r, u, j, internal)
  PROVE  Outcome(r)
<1> DEFINE input == [NoLocals EXCEPT !.internal = u \notin Clients /\ internal]
<1>1. input \in Locals
  BY NoLocalsType DEF Locals
<1>2. /\ Exists(j) /\ Keep(r, u, j, input) /\ Goto(r, "note")
      /\ u \in Technicians => job[j].technician = u
  BY RoleAssumption DEF NoteLookup, Visible
<1> HIDE DEF input
<1> QED
  BY <1>1, <1>2, LookupOutcome

\* The lookup of an upload writes nothing.
LEMMA UploadLookupOutcome ==
  ASSUME TypeOK, NEW r \in Requests, NEW u \in Users, NEW j \in JobIds, UploadLookup(r, u, j)
  PROVE  Outcome(r)
<1>2. /\ Exists(j) /\ Keep(r, u, j, NoLocals) /\ Goto(r, "store")
      /\ u \in Technicians => job[j].technician = u
  BY RoleAssumption DEF UploadLookup, Visible
<1> QED
  BY <1>2, NoLocalsType, LookupOutcome

\* A handler that ends without touching job, log, notes and
\* attachments.
LEMMA FinishOutcome ==
  ASSUME TypeOK, NEW r \in Requests, NEW label \in {"done", "refused", "failed"},
         Finish(r, label), UNCHANGED <<job, log, notes, attachments>>, Announcements' = Announcements,
         inbox' \subseteq [user : Users, by : Requests, job : JobIds, read : BOOLEAN],
         files' \subseteq Requests, orphans' \subseteq Requests, lostAcks' \subseteq Requests,
         faults' \in 0 .. MaxFaults
  PROVE  Outcome(r)
<1>1. /\ pc' \in [Requests -> Labels] /\ UNCHANGED seeded
      /\ loc' \in [Requests -> Locals]
  BY FinishTypes DEF Labels
<1>2. TypeOK'
  BY <1>1 DEF TypeOK
<1>3. \A q \in Requests : Moves(q)
  BY FinishMoves DEF Midway
<1> QED
  BY <1>1, <1>2, <1>3 DEF Outcome, Quiet

\* The ends of a handler.
LEMMA EndOutcome ==
  ASSUME TypeOK, NEW r \in Requests,
         \/ \E u \in Users : MarkRead(r, u)
         \/ Emit(r) \/ Refuse(r) \/ Fail(r) \/ Die(r)
         \/ StoreFails(r) \/ CleanUp(r)
  PROVE  Outcome(r)
<1> DEFINE Typed == /\ inbox' \subseteq [user : Users, by : Requests, job : JobIds,
                                         read : BOOLEAN]
                    /\ files' \subseteq Requests /\ orphans' \subseteq Requests
                    /\ lostAcks' \subseteq Requests
                    /\ faults' \in 0 .. MaxFaults
<1>1. CASE \E u \in Users : MarkRead(r, u)
  <2>1. PICK u \in Users : MarkRead(r, u)
    BY <1>1
  <2>2. PICK n \in inbox : inbox' = (inbox \ {n}) \cup {[n EXCEPT !.read = TRUE]}
    BY <2>1 DEF MarkRead
  <2>3. n \in [user : Users, by : Requests, job : JobIds, read : BOOLEAN]
    BY DEF TypeOK
  <2> DEFINE m == [n EXCEPT !.read = TRUE]
  <2>4. /\ m \in [user : Users, by : Requests, job : JobIds, read : BOOLEAN]
        /\ m.user = n.user /\ m.by = n.by /\ m.job = n.job
    BY <2>3
  <2> HIDE DEF m
  <2>5. inbox' = (inbox \ {n}) \cup {m}
    BY <2>2 DEF m
  <2>6. Announcements' = Announcements
    <3> DEFINE S(x) == [user |-> x.user, by |-> x.by, job |-> x.job]
    <3>1. S(m) = S(n)
      BY <2>4
    <3>2. Announcements = {S(x) : x \in inbox} /\ Announcements' = {S(x) : x \in inbox'}
      BY DEF Announcements
    <3> HIDE DEF S
    <3> QED
      BY <2>5, <3>1, <3>2
  <2>7. Typed
    BY <2>1, <2>4, <2>5 DEF MarkRead, TypeOK, storage
  <2> HIDE DEF Typed
  <2>8. Finish(r, "done") /\ UNCHANGED <<job, log, notes, attachments>>
    BY <2>1 DEF MarkRead
  <2> QED
    BY <2>6, <2>7, <2>8, FinishOutcome DEF Typed
<1>2. CASE \/ Emit(r) \/ Refuse(r) \/ Fail(r) \/ Die(r) \/ StoreFails(r) \/ CleanUp(r)
  <2>1. \E label \in {"done", "refused", "failed"} : Finish(r, label)
    BY <1>2 DEF Emit, Refuse, Fail, Die, StoreFails, CleanUp
  <2>2. UNCHANGED <<job, log, notes, attachments, inbox>>
    BY <1>2 DEF Emit, Refuse, Fail, Die, StoreFails, CleanUp, tables
  <2>3. faults' \in 0 .. MaxFaults
    <3>1. faults' = faults \/ (faults < MaxFaults /\ faults' = faults + 1)
      BY <1>2 DEF Emit, Refuse, Fail, Die, StoreFails, CleanUp
    <3>2. faults \in 0 .. MaxFaults
      BY DEF TypeOK
    <3> QED
      BY <3>1, <3>2, FaultAssumption
  <2>4. /\ files' \subseteq Requests /\ orphans' \subseteq Requests
        /\ lostAcks' \subseteq Requests
    BY <1>2 DEF Emit, Refuse, Fail, Die, StoreFails, CleanUp, TypeOK, storage
  <2>5. Announcements' = Announcements /\ inbox' \subseteq [user : Users, by : Requests, job : JobIds,
                                            read : BOOLEAN]
    BY <2>2 DEF Announcements, TypeOK
  <2> QED
    BY <2>1, <2>2, <2>3, <2>4, <2>5, FinishOutcome
<1> QED
  BY <1>1, <1>2

\* A creation commits an entry.
LEMMA CreateOutcome ==
  ASSUME TypeOK, NEW r \in Requests, NEW a \in Admins, NEW j \in JobIds, NEW c \in Clients,
         NEW t \in Technicians \cup {NoOne}, NEW time \in Times \cup {NoOne},
         CreateJob(r, a, j, c, t, time)
  PROVE  Outcome(r)
<1>1. /\ TypeOK'
      /\ \E e \in Entry : Committed(r, e) /\ Told(r, Concerned(e)', e.job)
  BY CreateCommits
<1>2. UNCHANGED <<notes, attachments>> /\ EmitTo(r, {c, t}, {c, t})
  BY DEF CreateJob
<1>3. UNCHANGED seeded /\ \A q \in Requests : Moves(q)
  BY <1>2, EmitToMoves DEF EmitTo, Goto
<1> QED
  BY <1>1, <1>2, <1>3 DEF Outcome, Commits

\* An assignment commits an entry, decided on the row it looked up.
LEMMA AssignOutcome ==
  ASSUME TypeOK, NEW r \in Requests, HandlerOK(r), AssignCommit(r)
  PROVE  Outcome(r)
<1>1. /\ TypeOK'
      /\ \E e \in Entry : Committed(r, e) /\ Told(r, Concerned(e)', e.job)
  BY AssignCommits
<1>2. UNCHANGED <<notes, attachments>> /\ \E users, notified : EmitTo(r, users, notified)
  BY DEF AssignCommit
<1>3. UNCHANGED seeded /\ \A q \in Requests : Moves(q)
  BY <1>2, EmitToMoves DEF EmitTo, Goto
<1> QED
  BY <1>1, <1>2, <1>3 DEF Outcome, Commits

\* A change of status commits an entry, decided on the row it looked up.
LEMMA StatusOutcome ==
  ASSUME TypeOK, NEW r \in Requests, HandlerOK(r), StatusCommit(r)
  PROVE  Outcome(r)
<1>1. /\ TypeOK'
      /\ \E e \in Entry : Committed(r, e) /\ Told(r, Concerned(e)', e.job)
  BY StatusCommits
<1>2. UNCHANGED <<notes, attachments>> /\ \E users, notified : EmitTo(r, users, notified)
  BY DEF StatusCommit
<1>3. UNCHANGED seeded /\ \A q \in Requests : Moves(q)
  BY <1>2, EmitToMoves DEF EmitTo, Goto
<1> QED
  BY <1>1, <1>2, <1>3 DEF Outcome, Commits

\* Nobody is told of a note or an upload.
LEMMA NobodyTold ==
  ASSUME NEW r, NEW j, UNCHANGED inbox
  PROVE  Told(r, {}, j)
BY DEF Told

\* A note commits an entry and leaves the row as it is.
LEMMA NoteOutcome ==
  ASSUME TypeOK, NEW r \in Requests, HandlerOK(r), NoteCommit(r)
  PROVE  Outcome(r)
<1>1. /\ pc[r] = "note" /\ job' = job
      /\ Audit(r, "JOB_NOTE_ADDED", loc[r].actor, loc[r].id, SaysNothing, NoOne)
      /\ EmitTo(r, {loc[r].row.client, loc[r].row.technician}, {})
      /\ UNCHANGED <<attachments, inbox, storage, faults>>
  BY DEF NoteCommit
<1> DEFINE n0 == [by |-> r, job |-> loc[r].id, internal |-> loc[r].internal]
<1>2. loc[r].id \in JobIds /\ loc[r].internal \in BOOLEAN /\ loc[r].row \in JobRow
  BY <1>1 DEF HandlerOK, Midway, TypeOK, Locals
<1>3. /\ n0 \in [by : Requests \cup {NoOne}, job : JobIds, internal : BOOLEAN]
      /\ n0.job = loc[r].id
  BY <1>2
<1>4. notes' = notes \cup {n0}
  BY DEF NoteCommit
<1> HIDE DEF n0
<1>5. PICK e \in Entry :
        /\ Committed(r, e) /\ log' = Append(log, e) /\ e.job = loc[r].id
        /\ Concerned(e)' = {}
  BY <1>1, SilentCommits DEF Midway
<1>6. Commits(r)
  <2>1. Told(r, Concerned(e)', e.job)
    BY <1>1, <1>5, NobodyTold
  <2>2. \A x \in JobIds : x # e.job =>
          /\ {n \in notes : n.job = x}' = {n \in notes : n.job = x}
          /\ {a \in attachments : a.job = x}' = {a \in attachments : a.job = x}
    BY <1>1, <1>3, <1>4, <1>5
  <2> QED
    BY <1>5, <2>1, <2>2 DEF Commits
<1>7. TypeOK'
  <2>1. /\ {loc[r].row.client, loc[r].row.technician} \in SUBSET (Users \cup {NoOne})
        /\ {} \in SUBSET (Users \cup {NoOne})
    BY <1>2 DEF JobRow, Users
  <2>2. /\ pc' \in [Requests -> Labels] /\ UNCHANGED seeded
        /\ loc' \in [Requests -> Locals]
    BY <1>1, <2>1, EmitToTypes
  <2>3. log' \in Seq(Entry)
    BY <1>5 DEF TypeOK
  <2>4. notes' \subseteq [by : Requests \cup {NoOne}, job : JobIds, internal : BOOLEAN]
    BY <1>3, <1>4 DEF TypeOK
  <2> QED
    BY <1>1, <2>2, <2>3, <2>4 DEF TypeOK, storage
<1> QED
  BY <1>1, <1>6, <1>7, EmitToMoves DEF Outcome, EmitTo, Goto

\* The row of an upload, its audit record and nothing else.
LEMMA AttachRowCommits ==
  ASSUME TypeOK, NEW r \in Requests, HandlerOK(r), pc[r] = "attach", AttachRow(r),
         UNCHANGED <<notes, inbox>>
  PROVE  /\ Commits(r) /\ job' \in [JobIds -> JobRow] /\ log' \in Seq(Entry)
         /\ attachments' \subseteq [by : Requests, job : JobIds]
<1> DEFINE a0 == [by |-> r, job |-> loc[r].id]
<1>1. loc[r].id \in JobIds
  BY DEF HandlerOK, Midway
<1>2. a0 \in [by : Requests, job : JobIds] /\ a0.job = loc[r].id
  BY <1>1
<1>3. attachments' = attachments \cup {a0} /\ job' = job
  BY DEF AttachRow
<1> HIDE DEF a0
<1>4. PICK e \in Entry :
        /\ Committed(r, e) /\ log' = Append(log, e) /\ e.job = loc[r].id
        /\ Concerned(e)' = {}
  BY SilentCommits DEF Midway, AttachRow
<1>5. Told(r, Concerned(e)', e.job)
  BY <1>4, NobodyTold
<1>6. \A x \in JobIds : x # e.job =>
        /\ {n \in notes : n.job = x}' = {n \in notes : n.job = x}
        /\ {a \in attachments : a.job = x}' = {a \in attachments : a.job = x}
  BY <1>2, <1>3, <1>4
<1>7. log' \in Seq(Entry) /\ job' \in [JobIds -> JobRow]
  BY <1>3, <1>4 DEF TypeOK
<1>8. attachments' \subseteq [by : Requests, job : JobIds]
  BY <1>2, <1>3 DEF TypeOK
<1> QED
  BY <1>4, <1>5, <1>6, <1>7, <1>8 DEF Commits

\* An attachment commits an entry and leaves the row as it is.
LEMMA AttachOutcome ==
  ASSUME TypeOK, NEW r \in Requests, HandlerOK(r), AttachCommit(r)
  PROVE  Outcome(r)
<1>1. /\ pc[r] = "attach" /\ AttachRow(r)
      /\ EmitTo(r, {loc[r].row.client, loc[r].row.technician}, {})
      /\ UNCHANGED <<notes, inbox, storage, faults>>
  BY DEF AttachCommit
<1>2. /\ Commits(r) /\ job' \in [JobIds -> JobRow] /\ log' \in Seq(Entry)
      /\ attachments' \subseteq [by : Requests, job : JobIds]
  BY <1>1, AttachRowCommits
<1>3. {loc[r].row.client, loc[r].row.technician} \in SUBSET (Users \cup {NoOne})
  BY DEF TypeOK, Locals, JobRow, Users
<1>4. /\ pc' \in [Requests -> Labels] /\ UNCHANGED seeded
      /\ loc' \in [Requests -> Locals]
  BY <1>1, <1>3, EmitToTypes
<1>5. TypeOK'
  BY <1>1, <1>2, <1>4 DEF TypeOK, storage
<1> QED
  BY <1>1, <1>2, <1>4, <1>5, EmitToMoves DEF Outcome

\* An attachment that fails rolls back, or commits an entry unheard.
LEMMA AttachFailsOutcome ==
  ASSUME TypeOK, NEW r \in Requests, HandlerOK(r), AttachFails(r)
  PROVE  Outcome(r)
<1>1. /\ pc[r] = "attach" /\ faults < MaxFaults /\ faults' = faults + 1
      /\ Goto(r, "cleanup") /\ UNCHANGED <<notes, inbox, files, orphans, loc>>
  BY DEF AttachFails
<1>2. /\ Quiet \/ Commits(r)
      /\ job' \in [JobIds -> JobRow] /\ log' \in Seq(Entry)
      /\ attachments' \subseteq [by : Requests, job : JobIds]
      /\ lostAcks' \subseteq Requests
  <2>1. CASE UNCHANGED <<job, log, attachments, lostAcks>>
    BY <1>1, <2>1 DEF Quiet, Announcements, TypeOK
  <2>2. CASE AttachRow(r) /\ lostAcks' = lostAcks \cup {r}
    <3>1. lostAcks' \subseteq Requests
      BY <2>2 DEF TypeOK
    <3> QED
      BY <1>1, <2>2, <3>1, AttachRowCommits
  <2> QED
    BY <2>1, <2>2 DEF AttachFails
<1>3. pc' \in [Requests -> Labels] /\ UNCHANGED seeded
  BY <1>1, GotoTypes DEF Labels
<1>4. faults' \in 0 .. MaxFaults
  BY <1>1, FaultAssumption DEF TypeOK
<1>5. TypeOK'
  BY <1>1, <1>2, <1>3, <1>4 DEF TypeOK
<1>6. \A q \in Requests : Moves(q)
  BY <1>1, LeaveMoves DEF Midway
<1> QED
  BY <1>2, <1>3, <1>5, <1>6 DEF Outcome

\* A stored file is no change of a table.
LEMMA StoreOutcome ==
  ASSUME TypeOK, NEW r \in Requests, StoreFile(r)
  PROVE  Outcome(r)
<1>1. /\ pc[r] = "store" /\ files' = files \cup {r} /\ Goto(r, "attach")
      /\ UNCHANGED <<tables, orphans, lostAcks, loc, faults>>
  BY DEF StoreFile
<1>2. pc' \in [Requests -> Labels] /\ UNCHANGED seeded
  BY <1>1, GotoTypes DEF Labels
<1>3. TypeOK'
  BY <1>1, <1>2 DEF TypeOK, tables
<1>4. Quiet
  BY <1>1 DEF Quiet, Announcements, tables
<1>5. ASSUME NEW q \in Requests PROVE Moves(q)
  BY <1>1 DEF Moves, Carried, TypeOK, Goto, Midway
<1> QED
  BY <1>2, <1>3, <1>4, <1>5 DEF Outcome

\* Every step of a handler leaves the tables alone or commits one entry.
LEMMA StepOutcome ==
  ASSUME TypeOK, \A q \in Requests : HandlerOK(q), NEW r \in Requests,
         Arrive(r) \/ Continue(r) \/ Break(r)
  PROVE  Outcome(r)
<1>1. CASE Arrive(r)
  <2>1. CASE Refuse(r) \/ \E u \in Users : MarkRead(r, u)
    BY <2>1, EndOutcome
  <2>2. CASE \E j \in JobIds : AdminRequest(r, j)
    BY <2>2, CreateOutcome, AssignLookupOutcome DEF AdminRequest
  <2>3. CASE \E j \in JobIds, u \in Users : \E status \in StatusInputs : StatusLookup(r, u, j, status)
    BY <2>3, StatusLookupOutcome
  <2>4. CASE \E j \in JobIds, u \in Users : \E internal \in BOOLEAN : NoteLookup(r, u, j, internal)
    BY <2>4, NoteLookupOutcome
  <2>5. CASE \E j \in JobIds, u \in Users : UploadLookup(r, u, j)
    BY <2>5, UploadLookupOutcome
  <2> QED
    BY <1>1, <2>1, <2>2, <2>3, <2>4, <2>5 DEF Arrive
<1>2. CASE Continue(r)
  BY <1>2, AssignOutcome, StatusOutcome, NoteOutcome, StoreOutcome, AttachOutcome, EndOutcome
     DEF Continue
<1>3. CASE Break(r)
  BY <1>3, EndOutcome, AttachFailsOutcome DEF Break
<1> QED
  BY <1>1, <1>2, <1>3

-----------------------------------------------------------------------------
(* The log grows by one entry, and what it says stays *)

\* The log is a sequence of entries.
LEMMA LogFacts ==
  ASSUME TypeOK
  PROVE  /\ Len(log) \in Nat /\ DOMAIN log = 1 .. Len(log)
         /\ \A i \in DOMAIN log : log[i] \in Entry /\ log[i].job \in JobIds
<1>1. log \in Seq(Entry)
  BY DEF TypeOK
<1>2. \A e \in Entry : e.job \in JobIds
  BY DEF Entry
<1> HIDE DEF TypeOK
<1> QED
  BY <1>1, <1>2

\* A commit appends its entry to the log and changes no earlier one.
LEMMA Grows ==
  ASSUME TypeOK, NEW r, NEW e \in Entry, Committed(r, e)
  PROVE  /\ Len(log') = Len(log) + 1 /\ DOMAIN log' = 1 .. Len(log) + 1
         /\ \A i \in 1 .. Len(log) : log'[i] = log[i]
         /\ log'[Len(log) + 1] = e
         /\ e.job \in JobIds
BY DEF TypeOK, Committed, Entry

\* A job keeps its client.
LEMMA ClientKept ==
  ASSUME TypeOK, NEW r, NEW e \in Entry, Committed(r, e),
         NEW j \in JobIds, Exists(j)
  PROVE  job'[j].client = job[j].client /\ Exists(j)'
BY Grows DEF Committed, Follows, Exists

\* A time that was overwritten stays so.
LEMMA OverwrittenStays ==
  ASSUME TypeOK, NEW r, NEW e \in Entry, Committed(r, e),
         NEW i \in 1 .. Len(log), Overwritten(i)
  PROVE  Overwritten(i)'
<1>1. PICK k \in DOMAIN log :
        /\ log[k].job = log[i].job /\ k > i
        /\ log[k].given # NoOne \/ (log[k].action = "JOB_ASSIGNED" /\ Between(i, k))
  BY DEF Overwritten
<1>2. k \in 1 .. Len(log) /\ Len(log) \in Nat
  BY <1>1, LogFacts
<1>3. log'[k] = log[k] /\ log'[i] = log[i] /\ k \in DOMAIN log'
  BY <1>2, Grows
<1> QED
  BY <1>1, <1>3 DEF Overwritten, Between

\* Whoever had a job has had it for good.
LEMMA HadJobStays ==
  ASSUME TypeOK, NEW r, NEW e \in Entry, Committed(r, e), UNCHANGED seeded,
         NEW j, NEW t, HadJob(j, t)
  PROVE  HadJob(j, t)'
<1>1. CASE seeded[j].technician = t
  BY <1>1 DEF HadJob
<1>2. CASE \E k \in DOMAIN log : log[k].job = j /\ log[k].stored.technician = t
  <2>1. PICK k \in DOMAIN log : log[k].job = j /\ log[k].stored.technician = t
    BY <1>2
  <2>2. k \in 1 .. Len(log) /\ Len(log) \in Nat
    BY LogFacts
  <2>3. log'[k] = log[k] /\ k \in DOMAIN log'
    BY <2>2, Grows
  <2> QED
    BY <2>1, <2>3 DEF HadJob
<1> QED
  BY <1>1, <1>2 DEF HadJob

\* Who has a job had it.
LEMMA HolderHadJob ==
  ASSUME RowRecorded, NEW j \in JobIds
  PROVE  HadJob(j, job[j].technician)
BY DEF RowRecorded, HadJob

-----------------------------------------------------------------------------
(* The parts of the invariant, one after the other *)

\* The row of a job is the one its last entry left.
LEMMA RowStep ==
  ASSUME TypeOK, RowRecorded, UNCHANGED seeded, NEW r, Quiet \/ Commits(r)
  PROVE  RowRecorded'
<1>1. CASE Quiet
  BY <1>1 DEF Quiet, RowRecorded
<1>2. CASE Commits(r)
  <2>1. PICK e \in Entry : Committed(r, e)
    BY <1>2 DEF Commits
  <2>2. /\ Len(log) \in Nat /\ DOMAIN log = 1 .. Len(log)
        /\ DOMAIN log' = 1 .. Len(log) + 1
        /\ \A i \in 1 .. Len(log) : log'[i] = log[i]
        /\ log'[Len(log) + 1] = e /\ e.job \in JobIds
    BY <2>1, LogFacts, Grows
  <2> SUFFICES ASSUME NEW j \in JobIds
               PROVE  \/ job'[j] = seeded[j] /\ \A i \in DOMAIN log' : log'[i].job # j
                      \/ \E k \in DOMAIN log' :
                           /\ log'[k].job = j /\ log'[k].stored = job'[j]
                           /\ \A i \in DOMAIN log' : i > k => log'[i].job # j
    BY DEF RowRecorded
  <2>3. CASE j = e.job
    <3>1. Len(log) + 1 \in DOMAIN log' /\ \A i \in DOMAIN log' : ~(i > Len(log) + 1)
      BY <2>2
    <3>2. log'[Len(log) + 1].job = j /\ log'[Len(log) + 1].stored = job'[j]
      BY <2>1, <2>2, <2>3 DEF Committed
    <3> QED
      BY <3>1, <3>2
  <2>4. CASE j # e.job
    <3>1. job'[j] = job[j]
      BY <2>1, <2>4 DEF Committed
    <3>2. CASE job[j] = seeded[j] /\ \A i \in DOMAIN log : log[i].job # j
      BY <2>2, <2>4, <3>1, <3>2
    <3>3. CASE \E k \in DOMAIN log :
                 /\ log[k].job = j /\ log[k].stored = job[j]
                 /\ \A i \in DOMAIN log : i > k => log[i].job # j
      <4>1. PICK k \in DOMAIN log :
              /\ log[k].job = j /\ log[k].stored = job[j]
              /\ \A i \in DOMAIN log : i > k => log[i].job # j
        BY <3>3
      <4>2. k \in DOMAIN log' /\ log'[k] = log[k]
        BY <2>2
      <4>3. \A i \in DOMAIN log' : i > k => log'[i].job # j
        BY <2>2, <2>4, <4>1
      <4> QED
        BY <3>1, <4>1, <4>2, <4>3
    <3> QED
      BY <3>2, <3>3 DEF RowRecorded
  <2> QED
    BY <2>3, <2>4
<1> QED
  BY <1>1, <1>2

\* An entry is about a job that exists.
LEMMA LogStep ==
  ASSUME TypeOK, LogOK, NEW r, Quiet \/ Commits(r)
  PROVE  LogOK'
<1>1. CASE Quiet
  BY <1>1 DEF Quiet, LogOK, Exists
<1>2. CASE Commits(r)
  <2>1. PICK e \in Entry : Committed(r, e)
    BY <1>2 DEF Commits
  <2>2. Exists(e.job)'
    BY <2>1 DEF Committed, Exists
  <2>3. ASSUME NEW i \in DOMAIN log PROVE job'[log[i].job].client # NoOne
    <3>1. Exists(log[i].job) /\ log[i].job \in JobIds
      BY LogFacts DEF LogOK
    <3> QED
      BY <2>1, <3>1, ClientKept DEF Exists
  <2> QED
    BY <2>1, <2>2, <2>3, Grows, LogFacts DEF LogOK, Exists
<1> QED
  BY <1>1, <1>2

\* A commit says in its entry what it made of the job.
LEMMA AuditStep ==
  ASSUME TypeOK, AuditExplainsJob, NEW r, Quiet \/ Commits(r)
  PROVE  AuditExplainsJob'
<1>1. CASE Quiet
  BY <1>1 DEF Quiet, AuditExplainsJob, LastStatus, LastTechnician, StatusTold
<1>2. CASE Commits(r)
  <2>1. PICK e \in Entry : Committed(r, e)
    BY <1>2 DEF Commits
  <2>2. /\ Len(log) \in Nat /\ DOMAIN log = 1 .. Len(log)
        /\ DOMAIN log' = 1 .. Len(log) + 1
        /\ \A i \in 1 .. Len(log) : log'[i] = log[i]
        /\ log'[Len(log) + 1] = e /\ e.job \in JobIds
    BY <2>1, LogFacts, Grows
  <2> SUFFICES ASSUME NEW i \in DOMAIN log'
               PROVE  /\ LastStatus(i)' => job'[log'[i].job].status = StatusTold(log'[i])
                      /\ LastTechnician(i)' =>
                           job'[log'[i].job].technician = log'[i].technician
    BY DEF AuditExplainsJob, StatusTold
  <2>3. CASE i = Len(log) + 1
    BY <2>1, <2>2, <2>3 DEF Committed, LastStatus, LastTechnician
  <2>4. CASE i \in 1 .. Len(log)
    <3>1. log'[i] = log[i] /\ log[i].job \in JobIds /\ Len(log) + 1 > i
      BY <2>2, <2>4, LogFacts
    <3>2. ASSUME LastStatus(i)' PROVE job'[log[i].job].status = StatusTold(log[i])
      <4>1. LastStatus(i)
        BY <2>2, <2>4, <3>2 DEF LastStatus
      <4>2. log[i].job = e.job => StatusTold(e) = "SAME"
        BY <2>2, <3>1, <3>2 DEF LastStatus
      <4>3. job[log[i].job].status = StatusTold(log[i])
        BY <2>2, <2>4, <4>1 DEF AuditExplainsJob
      <4> QED
        BY <2>1, <3>1, <4>2, <4>3 DEF Committed
    <3>3. ASSUME LastTechnician(i)' PROVE job'[log[i].job].technician = log[i].technician
      <4>1. LastTechnician(i)
        BY <2>2, <2>4, <3>3 DEF LastTechnician
      <4>2. log[i].job = e.job => e.technician = "SAME"
        BY <2>2, <3>1, <3>3 DEF LastTechnician
      <4>3. job[log[i].job].technician = log[i].technician
        BY <2>2, <2>4, <4>1 DEF AuditExplainsJob
      <4> QED
        BY <2>1, <3>1, <4>2, <4>3 DEF Committed
    <3> QED
      BY <3>1, <3>2, <3>3
  <2> QED
    BY <2>2, <2>3, <2>4
<1> QED
  BY <1>1, <1>2

\* A technician writes only to a job that was given to him before.
LEMMA TechnicianStep ==
  ASSUME TypeOK, TechnicianHadJob, UNCHANGED seeded, NEW r, HandlerOK(r),
         Quiet \/ Commits(r)
  PROVE  TechnicianHadJob'
<1>1. CASE Quiet
  BY <1>1 DEF Quiet, TechnicianHadJob
<1>2. CASE Commits(r)
  <2>1. PICK e \in Entry : Committed(r, e)
    BY <1>2 DEF Commits
  <2>2. /\ Len(log) \in Nat /\ DOMAIN log = 1 .. Len(log)
        /\ DOMAIN log' = 1 .. Len(log) + 1
        /\ \A i \in 1 .. Len(log) : log'[i] = log[i]
        /\ log'[Len(log) + 1] = e /\ e.job \in JobIds
    BY <2>1, LogFacts, Grows
  <2> SUFFICES ASSUME NEW i \in DOMAIN log', log'[i].actor \in Technicians
               PROVE  \/ seeded[log'[i].job].technician = log'[i].actor
                      \/ \E k \in 1 .. i - 1 : /\ log'[k].job = log'[i].job
                                               /\ log'[k].stored.technician = log'[i].actor
    BY DEF TechnicianHadJob
  <2>3. CASE i = Len(log) + 1
    <3>1. log'[i] = e
      BY <2>2, <2>3
    <3>2. Follows(r, e)
      BY <2>1, <3>1, RoleAssumption DEF Committed
    <3>3. HadJob(e.job, e.actor)
      BY <3>1, <3>2 DEF Follows, HandlerOK
    <3> QED
      BY <2>2, <2>3, <3>1, <3>3 DEF HadJob
  <2>4. CASE i \in 1 .. Len(log)
    <3>1. log'[i] = log[i] /\ \A k \in 1 .. i - 1 : log'[k] = log[k]
      BY <2>2, <2>4
    <3> QED
      BY <2>2, <2>4, <3>1 DEF TechnicianHadJob
  <2> QED
    BY <2>2, <2>3, <2>4
<1> QED
  BY <1>1, <1>2

\* Entries before a given one have a last.
LEMMA LastExists ==
  ASSUME NEW n \in Nat, NEW S, S \subseteq 1 .. n, S # {}
  PROVE  \E k \in S : \A x \in S : x <= k
<1> DEFINE D == {n - x : x \in S}
<1>1. D \subseteq Nat /\ D # {}
  <2>1. \A x \in S : n - x \in Nat
    OBVIOUS
  <2>2. \E x \in S : n - x \in D
    OBVIOUS
  <2> QED
    BY <2>1, <2>2
<1>2. PICK d \in D : \A x \in D : ~(<<x, d>> \in OpToRel(<, Nat))
  <2> HIDE DEF D
  <2> QED
    BY <1>1, NatLessThanWellFounded, WFMin
<1>3. PICK k \in S : d = n - k
  OBVIOUS
<1>4. ASSUME NEW x \in S PROVE x <= k
  <2>1. ~(<<n - x, d>> \in OpToRel(<, Nat))
    BY <1>2
  <2>2. ~(n - x < d)
    BY <1>1, <2>1 DEF OpToRel
  <2> QED
    BY <1>3, <2>2
<1> QED
  BY <1>3, <1>4

\* The entries of i's job before i.
Before(i) == {k \in 1 .. i - 1 : log[k].job = log[i].job}

\* Later commits do not change what an entry replaced.
LEMMA ReplacedStays ==
  ASSUME TypeOK, UNCHANGED seeded, NEW r, NEW e \in Entry, Committed(r, e),
         NEW i \in 1 .. Len(log)
  PROVE  Replaced(i)' = Replaced(i)
<1>1. /\ Len(log) \in Nat
      /\ \A k \in 1 .. Len(log) : log'[k] = log[k]
  BY LogFacts, Grows
<1> DEFINE last == CHOOSE k \in Before(i) : \A x \in Before(i) : x <= k
<1>2. Before(i)' = Before(i)
  BY <1>1 DEF Before
<1>3. Replaced(i) = IF Before(i) = {} THEN seeded[log[i].job] ELSE log[last].stored
  BY DEF Replaced, Before
<1>4. Replaced(i)' = IF Before(i)' = {} THEN seeded'[log'[i].job]
                     ELSE log'[CHOOSE k \in Before(i)' : \A x \in Before(i)' : x <= k].stored
  BY DEF Replaced, Before
<1>5. Replaced(i)' = IF Before(i) = {} THEN seeded[log[i].job] ELSE log'[last].stored
  BY <1>1, <1>2, <1>4
<1>6. Before(i) # {} => last \in 1 .. Len(log)
  <2>1. Before(i) \subseteq 1 .. Len(log)
    BY <1>1 DEF Before
  <2>2. Before(i) # {} => \E k \in Before(i) : \A x \in Before(i) : x <= k
    BY <1>1, <2>1, LastExists
  <2> QED
    BY <2>1, <2>2
<1> HIDE DEF last
<1> QED
  BY <1>1, <1>3, <1>5, <1>6

\* What is replaced is the row of the job.
LEMMA ReplacedIsRow ==
  ASSUME TypeOK, RowRecorded, UNCHANGED seeded, NEW r, NEW e \in Entry, Committed(r, e),
         NEW i \in Nat, i = Len(log) + 1
  PROVE  Replaced(i)' = job[e.job]
<1> DEFINE j == e.job
           B == {k \in 1 .. Len(log) : log[k].job = j}
           last == CHOOSE k \in B : \A x \in B : x <= k
<1>1. /\ Len(log) \in Nat /\ DOMAIN log = 1 .. Len(log)
      /\ \A k \in 1 .. Len(log) : log'[k] = log[k]
      /\ log'[i] = e /\ j \in JobIds
  BY LogFacts, Grows
<1>2. {k \in 1 .. i - 1 : log'[k].job = log'[i].job} = B
  BY <1>1
<1>3. Replaced(i)' = IF B = {} THEN seeded[j] ELSE log'[last].stored
  <2> DEFINE C == {k \in 1 .. i - 1 : log'[k].job = log'[i].job}
  <2>1. Replaced(i)' = IF C = {} THEN seeded'[log'[i].job]
                       ELSE log'[CHOOSE k \in C : \A x \in C : x <= k].stored
    BY <1>1 DEF Replaced
  <2>2. C = B
    BY <1>2
  <2> HIDE DEF C, B
  <2> QED
    BY <1>1, <2>1, <2>2
<1>4. CASE job[j] = seeded[j] /\ \A k \in DOMAIN log : log[k].job # j
  <2>1. B = {}
    BY <1>1, <1>4
  <2> QED
    BY <1>3, <1>4, <2>1
<1>5. CASE \E k \in DOMAIN log :
             /\ log[k].job = j /\ log[k].stored = job[j]
             /\ \A x \in DOMAIN log : x > k => log[x].job # j
  <2>1. PICK k \in DOMAIN log :
          /\ log[k].job = j /\ log[k].stored = job[j]
          /\ \A x \in DOMAIN log : x > k => log[x].job # j
    BY <1>5
  <2>2. k \in B /\ \A x \in B : x <= k /\ x \in Nat
    BY <1>1, <2>1
  <2> HIDE DEF B
  <2>3. last \in B /\ \A x \in B : x <= last
    BY <2>2
  <2>4. last = k
    BY <2>2, <2>3
  <2> QED
    BY <1>1, <1>3, <2>1, <2>2, <2>4
<1> QED
  BY <1>1, <1>4, <1>5 DEF RowRecorded

\* The "from" of an entry is what it replaced, unless a commit came between its
\* lookup and its own.
LEMMA FromStep ==
  ASSUME TypeOK, AuditFromExplained, RowRecorded, LogOK, UNCHANGED seeded,
         NEW r, HandlerOK(r), Quiet \/ Commits(r)
  PROVE  AuditFromExplained'
<1>1. CASE Quiet
  <2>1. job' = job /\ log' = log
    BY <1>1 DEF Quiet
  <2>2. ASSUME NEW i PROVE Replaced(i)' = Replaced(i)
    BY <2>1 DEF Replaced
  <2>3. ASSUME NEW i, NEW k PROVE Between(k, i)' <=> Between(k, i)
    BY <2>1 DEF Between
  <2> QED
    BY <2>1, <2>2, <2>3 DEF AuditFromExplained
<1>2. CASE Commits(r)
  <2>1. PICK e \in Entry : Committed(r, e)
    BY <1>2 DEF Commits
  <2>2. /\ Len(log) \in Nat /\ DOMAIN log = 1 .. Len(log)
        /\ DOMAIN log' = 1 .. Len(log) + 1
        /\ \A i \in 1 .. Len(log) : log'[i] = log[i]
        /\ log'[Len(log) + 1] = e /\ e.job \in JobIds
    BY <2>1, LogFacts, Grows
  <2> SUFFICES ASSUME NEW i \in DOMAIN log', \A k \in DOMAIN log' : ~Between(k, i)'
               PROVE  /\ log'[i].action = "JOB_STATUS_CHANGED" =>
                           log'[i].from = Replaced(i)'.status
                      /\ log'[i].action = "JOB_ASSIGNED" =>
                           log'[i].from = Replaced(i)'.technician
    BY DEF AuditFromExplained
  <2>3. CASE i = Len(log) + 1
    <3>1. log'[i] = e /\ Replaced(i)' = job[e.job]
      BY <2>1, <2>2, <2>3, ReplacedIsRow
    <3>2. CASE e.action = "JOB_CREATED"
      BY <3>1, <3>2
    <3>3. CASE Follows(r, e)
      <4>1. ~\E k \in DOMAIN log : k > e.seen /\ log[k].job = e.job
        <5> SUFFICES ASSUME NEW k \in DOMAIN log, k > e.seen, log[k].job = e.job
                     PROVE  FALSE
          OBVIOUS
        <5>1. k \in DOMAIN log' /\ log'[k] = log[k] /\ k < i /\ e.seen < k
          <6>1. e.seen \in Nat
            BY DEF Entry
          <6> QED
            BY <2>2, <2>3, <6>1
        <5> QED
          BY <3>1, <5>1 DEF Between
      <4>2. loc[r].row = job[e.job]
        BY <3>3, <4>1 DEF Follows, HandlerOK
      <4> QED
        BY <3>1, <3>3, <4>2 DEF Follows
    <3> QED
      BY <2>1, <3>2, <3>3 DEF Committed
  <2>4. CASE i \in 1 .. Len(log)
    <3>1. log'[i] = log[i] /\ Replaced(i)' = Replaced(i)
      BY <2>1, <2>2, <2>4, ReplacedStays
    <3>2. ASSUME NEW k \in DOMAIN log PROVE ~Between(k, i)
      BY <2>2, <2>4 DEF Between
    <3>3. /\ log[i].action = "JOB_STATUS_CHANGED" => log[i].from = Replaced(i).status
          /\ log[i].action = "JOB_ASSIGNED" => log[i].from = Replaced(i).technician
      BY <2>2, <2>4, <3>2 DEF AuditFromExplained
    <3> QED
      BY <3>1, <3>3
  <2> QED
    BY <2>2, <2>3, <2>4
<1> QED
  BY <1>1, <1>2

\* A commit keeps each time that was given, or overwrites it.
LEMMA ScheduleStep ==
  ASSUME TypeOK, ScheduleExplained, LogOK, NEW r, HandlerOK(r), Quiet \/ Commits(r)
  PROVE  ScheduleExplained'
<1>1. CASE Quiet
  BY <1>1 DEF Quiet, ScheduleExplained, Overwritten, Between
<1>2. CASE Commits(r)
  <2>1. PICK e \in Entry : Committed(r, e)
    BY <1>2 DEF Commits
  <2>2. /\ Len(log) \in Nat /\ DOMAIN log = 1 .. Len(log)
        /\ DOMAIN log' = 1 .. Len(log) + 1
        /\ \A i \in 1 .. Len(log) : log'[i] = log[i]
        /\ log'[Len(log) + 1] = e /\ e.job \in JobIds
    BY <2>1, LogFacts, Grows
  <2> SUFFICES ASSUME NEW i \in DOMAIN log', log'[i].given # NoOne
               PROVE  job'[log'[i].job].time = log'[i].given \/ Overwritten(i)'
    BY DEF ScheduleExplained
  <2>3. CASE i = Len(log) + 1
    BY <2>1, <2>2, <2>3 DEF Committed
  <2>4. CASE i \in 1 .. Len(log)
    <3> DEFINE j == log[i].job
    <3>0. PICK n \in Nat : n = Len(log) + 1
      BY <2>2
    <3>1. /\ log'[i] = log[i] /\ j \in JobIds /\ Exists(j)
          /\ n \in DOMAIN log' /\ log'[n] = e /\ n > i
      BY <2>2, <2>4, <3>0, LogFacts DEF LogOK
    <3>2. CASE Overwritten(i)
      BY <2>1, <2>4, <3>2, OverwrittenStays
    <3>3. CASE job[j].time = log[i].given /\ j # e.job
      BY <2>1, <3>1, <3>3 DEF Committed
    <3>4. CASE job[j].time = log[i].given /\ j = e.job
      <4>1. CASE e.given # NoOne
        BY <3>1, <3>4, <4>1 DEF Overwritten
      <4>2. CASE e.given = NoOne
        <5>1. Follows(r, e)
          BY <2>1, <3>1, <3>4 DEF Committed, Exists
        <5>2. CASE e.action # "JOB_ASSIGNED"
          BY <3>1, <3>4, <5>1, <5>2 DEF Follows
        <5>3. CASE e.action = "JOB_ASSIGNED" /\ e.seen < i
          <6>1. Between(i, n)'
            BY <3>1, <3>4, <5>3 DEF Between
          <6> QED
            BY <3>1, <3>4, <5>3, <6>1 DEF Overwritten
        <5>4. CASE e.action = "JOB_ASSIGNED" /\ i \in 1 .. e.seen
          <6>1. job'[j].time = loc[r].row.time
            BY <3>4, <4>2, <5>1, <5>4 DEF Follows
          <6>2. loc[r].row.time = log[i].given \/ Overwritten(i)
            BY <3>1, <3>4, <5>1, <5>4 DEF Follows, HandlerOK
          <6> QED
            BY <2>1, <2>4, <3>1, <6>1, <6>2, OverwrittenStays
        <5>5. e.seen \in Nat
          BY DEF Entry
        <5> QED
          BY <2>4, <5>2, <5>3, <5>4, <5>5
      <4> QED
        BY <4>1, <4>2
    <3> QED
      BY <2>2, <2>4, <3>1, <3>2, <3>3, <3>4 DEF ScheduleExplained
  <2> QED
    BY <2>2, <2>3, <2>4
<1> QED
  BY <1>1, <1>2

\* The announcements entry i of the log calls for.
Calls(i) == {[user |-> u, by |-> log[i].by, job |-> log[i].job] : u \in Concerned(log[i])}

\* Announcements are complete when they are the calls of the entries of the log.
LEMMA AnnouncedCalls ==
  ChangesAnnounced <=> Announcements = UNION {Calls(i) : i \in DOMAIN log}
BY DEF ChangesAnnounced, Announcements, Calls

\* A commit notifies those its entry concerns, and no other step notifies.
LEMMA AnnouncedStep ==
  ASSUME TypeOK, ChangesAnnounced, LogOK, NEW r, Quiet \/ Commits(r)
  PROVE  ChangesAnnounced'
<1>0. Announcements = UNION {Calls(i) : i \in DOMAIN log}
  BY AnnouncedCalls
<1> SUFFICES Announcements' = UNION {Calls(i)' : i \in DOMAIN log'}
  BY DEF ChangesAnnounced, Announcements, Calls
<1>1. CASE Quiet
  <2>1. job' = job /\ log' = log /\ Announcements' = Announcements
    BY <1>1 DEF Quiet
  <2>2. ASSUME NEW i PROVE Calls(i)' = Calls(i)
    BY <2>1 DEF Calls, Concerned
  <2> QED
    BY <1>0, <2>1, <2>2
<1>2. CASE Commits(r)
  <2>1. PICK e \in Entry : Committed(r, e) /\ Told(r, Concerned(e)', e.job)
    BY <1>2 DEF Commits
  <2>2. /\ Len(log) \in Nat /\ DOMAIN log = 1 .. Len(log)
        /\ DOMAIN log' = 1 .. Len(log) + 1
        /\ \A i \in 1 .. Len(log) : log'[i] = log[i]
        /\ log'[Len(log) + 1] = e /\ e.job \in JobIds
    BY <2>1, LogFacts, Grows
  <2> DEFINE new == {[user |-> u, by |-> r, job |-> e.job] : u \in Concerned(e)'}
             n == Len(log) + 1
  <2>3. Announcements' = Announcements \cup new
    <3> DEFINE S(m) == [user |-> m.user, by |-> m.by, job |-> m.job]
               N == {[user |-> u, by |-> r, job |-> e.job, read |-> FALSE] : u \in Concerned(e)'}
    <3>1. inbox' = inbox \cup N
      BY <2>1 DEF Told
    <3>2. Announcements = {S(m) : m \in inbox} /\ Announcements' = {S(m) : m \in inbox'}
      BY DEF Announcements
    <3>3. {S(m) : m \in N} = new
      <4> DEFINE U == Concerned(e)'
      <4>1. /\ N = {[user |-> u, by |-> r, job |-> e.job, read |-> FALSE] : u \in U}
            /\ new = {[user |-> u, by |-> r, job |-> e.job] : u \in U}
        OBVIOUS
      <4>2. ASSUME NEW u PROVE S([user |-> u, by |-> r, job |-> e.job, read |-> FALSE])
                                = [user |-> u, by |-> r, job |-> e.job]
        OBVIOUS
      <4> HIDE DEF U, N, new, S
      <4>3. {S(m) : m \in N}
              = {S([user |-> u, by |-> r, job |-> e.job, read |-> FALSE]) : u \in U}
        BY <4>1
      <4> QED
        BY <4>1, <4>2, <4>3
    <3> HIDE DEF S, N, new
    <3> QED
      BY <3>1, <3>2, <3>3
  <2>4. ASSUME NEW i \in 1 .. Len(log) PROVE Calls(i)' = Calls(i)
    <3>1. log'[i] = log[i] /\ Exists(log[i].job) /\ log[i].job \in JobIds
      BY <2>2, LogFacts DEF LogOK
    <3>2. job'[log[i].job].client = job[log[i].job].client
      BY <2>1, <3>1, ClientKept
    <3> QED
      BY <3>1, <3>2 DEF Calls, Concerned
  <2>5. ASSUME NEW i, i = n PROVE Calls(i)' = new
    BY <2>1, <2>2, <2>5 DEF Calls, Committed
  <2> HIDE DEF new
  <2>6. UNION {Calls(i)' : i \in DOMAIN log'} = (UNION {Calls(i) : i \in DOMAIN log}) \cup new
    <3>1. DOMAIN log' = DOMAIN log \cup {n}
      BY <2>2
    <3>2. \A i \in DOMAIN log : Calls(i)' = Calls(i)
      BY <2>2, <2>4
    <3>3. \A i \in {n} : Calls(i)' = new
      BY <2>5
    <3> HIDE DEF n
    <3> QED
      BY <3>1, <3>2, <3>3
  <2> QED
    BY <1>0, <2>3, <2>6
<1> QED
  BY <1>1, <1>2

-----------------------------------------------------------------------------
(* The handlers *)

\* What has been looked up is right at first.
LEMMA LookedOK ==
  ASSUME TypeOK, RowRecorded, ScheduleExplained, UNCHANGED seeded,
         NEW q, pc'[q] \in Midway, Looked(q)
  PROVE  HandlerOK(q)'
<1> DEFINE l == loc'[q]
<1>1. /\ job' = job /\ log' = log
      /\ l.id \in JobIds /\ Exists(l.id) /\ l.row = job[l.id] /\ l.seen = Len(log)
      /\ l.actor \in Users
      /\ l.actor \in Technicians => job[l.id].technician = l.actor
      /\ pc'[q] = "assign" => l.actor \in Admins /\ l.technician \in Technicians
  BY DEF Looked
<1>2. Len(log) \in Nat /\ DOMAIN log = 1 .. Len(log)
  BY LogFacts
<1> DEFINE id == l.id
           actor == l.actor
<1>3. actor \in Technicians =>
        \/ seeded'[id].technician = actor
        \/ \E k \in DOMAIN log' : log'[k].job = id /\ log'[k].stored.technician = actor
  <2> HIDE DEF l
  <2>1. HadJob(id, job[id].technician)
    BY <1>1, HolderHadJob
  <2> QED
    BY <1>1, <2>1 DEF HadJob
<1>4. ASSUME NEW i \in 1 .. l.seen, log'[i].job = id, log'[i].given # NoOne
      PROVE  l.row.time = log'[i].given \/ Overwritten(i)'
  <2> HIDE DEF l
  <2>1. job[id].time = log[i].given \/ Overwritten(i)
    BY <1>1, <1>2, <1>4 DEF ScheduleExplained
  <2>2. Overwritten(i) => Overwritten(i)'
    BY <1>1 DEF Overwritten, Between
  <2> QED
    BY <1>1, <2>1, <2>2
<1> QED
  BY <1>1, <1>2, <1>3, <1>4 DEF HandlerOK, Exists, HadJob

\* It stays right while others commit.
LEMMA CarriedOK ==
  ASSUME TypeOK, UNCHANGED seeded, NEW r, Quiet \/ Commits(r),
         NEW q \in Requests, HandlerOK(q), pc'[q] \in Midway, Carried(q)
  PROVE  HandlerOK(q)'
<1> DEFINE l == loc[q]
<1>1. /\ loc'[q] = l
      /\ l.id \in JobIds /\ Exists(l.id) /\ l.actor \in Users /\ l.seen <= Len(log)
      /\ l.actor \in Technicians => HadJob(l.id, l.actor)
      /\ pc'[q] = "assign" => l.actor \in Admins /\ l.technician \in Technicians
      /\ l.row.client = job[l.id].client
      /\ \/ l.row = job[l.id]
         \/ \E k \in DOMAIN log : k > l.seen /\ log[k].job = l.id
      /\ \/ l.row.technician = job[l.id].technician
         \/ \E k \in DOMAIN log : /\ k > l.seen /\ log[k].job = l.id
                                  /\ log[k].action = "JOB_ASSIGNED"
      /\ \A i \in 1 .. l.seen :
           log[i].job = l.id /\ log[i].given # NoOne =>
             l.row.time = log[i].given \/ Overwritten(i)
  BY DEF Carried, HandlerOK
<1>2. CASE Quiet
  <2>1. job' = job /\ log' = log
    BY <1>2 DEF Quiet
  <2> HIDE DEF l
  <2>2. ASSUME NEW i, Overwritten(i) PROVE Overwritten(i)'
    BY <2>1, <2>2 DEF Overwritten, Between
  <2>3. l.actor \in Technicians =>
          \/ seeded'[l.id].technician = l.actor
          \/ \E k \in DOMAIN log' : log'[k].job = l.id /\ log'[k].stored.technician = l.actor
    BY <1>1, <2>1 DEF HadJob
  <2> QED
    BY <1>1, <2>1, <2>2, <2>3 DEF HandlerOK, Exists, HadJob
<1>3. CASE Commits(r)
  <2>1. PICK e \in Entry : Committed(r, e)
    BY <1>3 DEF Commits
  <2>2. /\ Len(log) \in Nat /\ DOMAIN log = 1 .. Len(log)
        /\ Len(log') = Len(log) + 1 /\ DOMAIN log' = 1 .. Len(log) + 1
        /\ \A i \in 1 .. Len(log) : log'[i] = log[i]
        /\ log'[Len(log) + 1] = e /\ e.job \in JobIds
    BY <2>1, LogFacts, Grows
  <2> DEFINE id == l.id
             actor == l.actor
             seen == l.seen
  <2>3. seen <= Len(log) /\ seen <= Len(log') /\ (Len(log) + 1) > seen /\ seen \in Nat
    <3>1. seen \in Nat
      BY DEF TypeOK, Locals
    <3> QED
      BY <1>1, <2>2, <3>1
  <2>4. job'[id].client # NoOne /\ job'[id].client = job[id].client
    <3> HIDE DEF l
    <3> QED
      BY <1>1, <2>1, ClientKept DEF Exists
  <2>5. actor \in Technicians =>
          \/ seeded'[id].technician = actor
          \/ \E k \in DOMAIN log' : log'[k].job = id /\ log'[k].stored.technician = actor
    <3> SUFFICES ASSUME HadJob(id, actor)
                 PROVE  \/ seeded'[id].technician = actor
                        \/ \E k \in DOMAIN log' :
                             log'[k].job = id /\ log'[k].stored.technician = actor
      BY <1>1
    <3> QED
      BY <2>2 DEF HadJob
  <2>6. \/ l.row = job'[id]
        \/ \E k \in DOMAIN log' : k > seen /\ log'[k].job = id
    <3>1. CASE id = e.job
      BY <2>2, <2>3, <3>1
    <3>2. CASE id # e.job
      <4>1. job'[id] = job[id]
        BY <1>1, <2>1, <3>2 DEF Committed
      <4> QED
        BY <1>1, <2>2, <4>1
    <3> QED
      BY <3>1, <3>2
  <2>7. \/ l.row.technician = job'[id].technician
        \/ \E k \in DOMAIN log' : /\ k > seen /\ log'[k].job = id
                                  /\ log'[k].action = "JOB_ASSIGNED"
    <3>1. CASE id = e.job /\ e.action = "JOB_ASSIGNED"
      BY <2>2, <2>3, <3>1
    <3>2. CASE ~(id = e.job /\ e.action = "JOB_ASSIGNED")
      <4>1. job'[id].technician = job[id].technician
        BY <1>1, <2>1, <3>2 DEF Committed, Follows, Exists
      <4> QED
        BY <1>1, <2>2, <4>1
    <3> QED
      BY <3>1, <3>2
  <2>8. ASSUME NEW i \in 1 .. seen, log'[i].job = id, log'[i].given # NoOne
        PROVE  l.row.time = log'[i].given \/ Overwritten(i)'
    <3>1. i \in 1 .. Len(log) /\ log'[i] = log[i]
      BY <2>2, <2>3, <2>8
    <3>2. l.row.time = log[i].given \/ Overwritten(i)
      BY <1>1, <2>8, <3>1
    <3> HIDE DEF l
    <3> QED
      BY <2>1, <3>1, <3>2, OverwrittenStays
  <2> HIDE DEF l
  <2> QED
    BY <1>1, <2>3, <2>4, <2>5, <2>6, <2>7, <2>8 DEF HandlerOK, Exists, HadJob
<1> QED
  BY <1>2, <1>3

\* What a handler knows of its job is kept by the steps of all handlers, or the log
\* shows the commit that made it stale.
LEMMA HandlerStep ==
  ASSUME TypeOK, RowRecorded, ScheduleExplained, NEW r \in Requests, Outcome(r),
         NEW q \in Requests, HandlerOK(q)
  PROVE  HandlerOK(q)'
<1>1. CASE pc'[q] \in Midway
  BY <1>1, LookedOK, CarriedOK DEF Outcome, Moves
<1>2. CASE pc'[q] \notin Midway
  BY <1>2 DEF HandlerOK
<1> QED
  BY <1>1, <1>2

-----------------------------------------------------------------------------
(* The files *)

Uploads ==
  /\ \A q \in Requests : UploadOK(q)
  /\ AttachmentHasFile /\ OrphanFilesExplained

\* A handler that is not at its upload.
LEMMA UploadsUntouched ==
  ASSUME TypeOK, Uploads, NEW r \in Requests, NEW label, Goto(r, label),
         UNCHANGED <<attachments, storage>>, label # "attach",
         pc[r] \in {"idle", "assign", "status", "note", "emit"},
         pc[r] = "emit" => label \in {"done", "failed"}
  PROVE  Uploads'
<1>1. /\ pc' = [pc EXCEPT ![r] = label]
      /\ attachments' = attachments /\ files' = files /\ orphans' = orphans
      /\ lostAcks' = lostAcks
  BY DEF Goto, storage
<1>2. pc'[r] = label /\ \A q \in Requests : q # r => pc'[q] = pc[q]
  BY <1>1 DEF TypeOK
<1>3. \A q \in files : q \in Requests
  BY DEF TypeOK
<1>4. \A q \in Requests : UploadOK(q)'
  BY <1>1, <1>2 DEF Uploads, UploadOK
<1>5. AttachmentHasFile'
  BY <1>1 DEF Uploads, AttachmentHasFile
<1>6. OrphanFilesExplained'
  BY <1>1, <1>2, <1>3 DEF Uploads, OrphanFilesExplained
<1> QED
  BY <1>4, <1>5, <1>6 DEF Uploads

\* A file is written before its row.
LEMMA UploadsStore ==
  ASSUME TypeOK, Uploads, NEW r \in Requests, StoreFile(r) \/ StoreFails(r)
  PROVE  Uploads'
<1>1. /\ pc[r] = "store" /\ attachments' = attachments /\ lostAcks' = lostAcks
      /\ \/ pc' = [pc EXCEPT ![r] = "attach"] /\ files' = files \cup {r} /\ orphans' = orphans
         \/ pc' = [pc EXCEPT ![r] = "failed"] /\ files' = files /\ orphans' = orphans
         \/ /\ pc' = [pc EXCEPT ![r] = "failed"] /\ files' = files \cup {r}
            /\ orphans' = orphans \cup {r}
  BY DEF StoreFile, StoreFails, Finish, Goto, tables
<1>2. pc'[r] \in {"attach", "failed"} /\ \A q \in Requests : q # r => pc'[q] = pc[q]
  BY <1>1 DEF TypeOK
<1>3. /\ pc'[r] = "attach" => r \in files'
      /\ r \in files' => r \in files \/ pc'[r] = "attach" \/ r \in orphans'
  BY <1>1 DEF TypeOK
<1>4. /\ \A q \in files : q \in Requests /\ q \in files'
      /\ \A q \in files' : q = r \/ q \in files
      /\ \A q \in orphans : q \in orphans'
  BY <1>1 DEF TypeOK
<1>5. \A q \in Requests : UploadOK(q)'
  BY <1>1, <1>2, <1>3, <1>4 DEF Uploads, UploadOK
<1>6. AttachmentHasFile'
  BY <1>1, <1>4 DEF Uploads, AttachmentHasFile
<1>7. OrphanFilesExplained'
  BY <1>1, <1>2, <1>3, <1>4 DEF Uploads, OrphanFilesExplained
<1> QED
  BY <1>5, <1>6, <1>7 DEF Uploads

\* A row is committed for a file that was stored; a lost commit is counted.
LEMMA UploadsAttach ==
  ASSUME TypeOK, Uploads, NEW r \in Requests, AttachCommit(r) \/ AttachFails(r)
  PROVE  Uploads'
<1>1. /\ pc[r] = "attach" /\ files' = files /\ orphans' = orphans
      /\ \/ /\ attachments' = attachments \cup {[by |-> r, job |-> loc[r].id]}
            /\ pc' = [pc EXCEPT ![r] = "emit"] /\ lostAcks' = lostAcks
         \/ /\ attachments' = attachments
            /\ pc' = [pc EXCEPT ![r] = "cleanup"] /\ lostAcks' = lostAcks
         \/ /\ attachments' = attachments \cup {[by |-> r, job |-> loc[r].id]}
            /\ pc' = [pc EXCEPT ![r] = "cleanup"] /\ lostAcks' = lostAcks \cup {r}
  BY DEF AttachCommit, AttachFails, AttachRow, EmitTo, Goto, storage
<1>2. r \in files /\ r \notin lostAcks /\ \A a \in attachments : a.by # r
  BY <1>1 DEF Uploads, UploadOK
<1>3. /\ \A q \in Requests : q # r => pc'[q] = pc[q]
      /\ pc'[r] \in {"emit", "cleanup"}
  BY <1>1 DEF TypeOK
<1>4. /\ \A a \in attachments : a \in attachments'
      /\ \A a \in attachments' : a \in attachments \/ a.by = r
      /\ \A q \in lostAcks : q \in lostAcks'
      /\ \A q \in files : q \in Requests
  BY <1>1 DEF TypeOK
<1>5. /\ (\E a \in attachments' : a.by = r) => pc'[r] = "emit" \/ r \in lostAcks'
      /\ pc'[r] = "cleanup" \/ \E a \in attachments' : a.by = r
      /\ r \in lostAcks' => pc'[r] = "cleanup"
  <2>1. [by |-> r, job |-> loc[r].id].by = r
    OBVIOUS
  <2> QED
    BY <1>1, <1>2, <2>1 DEF TypeOK
<1>6. \A q \in Requests : UploadOK(q)'
  <2> SUFFICES ASSUME NEW q \in Requests PROVE UploadOK(q)'
    OBVIOUS
  <2>1. CASE q = r
    BY <1>3, <1>5, <2>1 DEF UploadOK
  <2>2. CASE q # r
    BY <1>1, <1>3, <1>4, <2>2 DEF Uploads, UploadOK
  <2> QED
    BY <2>1, <2>2
<1>7. AttachmentHasFile'
  BY <1>1, <1>2, <1>4 DEF Uploads, AttachmentHasFile
<1>8. OrphanFilesExplained'
  <2> SUFFICES ASSUME NEW q \in files'
               PROVE  \/ \E a \in attachments' : a.by = q
                      \/ pc'[q] \in {"attach", "cleanup"}
                      \/ q \in orphans'
    BY DEF OrphanFilesExplained
  <2>1. CASE q = r
    BY <1>5, <2>1
  <2>2. CASE q # r
    BY <1>1, <1>3, <1>4, <2>2 DEF Uploads, OrphanFilesExplained
  <2> QED
    BY <2>1, <2>2
<1> QED
  BY <1>6, <1>7, <1>8 DEF Uploads

\* A cleanup or a death leaves a file behind only where that is counted.
LEMMA UploadsEnd ==
  ASSUME TypeOK, Uploads, NEW r \in Requests, CleanUp(r) \/ Die(r)
  PROVE  Uploads'
<1>1. /\ pc' = [pc EXCEPT ![r] = "failed"]
      /\ attachments' = attachments /\ lostAcks' = lostAcks
      /\ \/ pc[r] = "cleanup" /\ files' = files \ {r} /\ orphans' = orphans
         \/ pc[r] \in {"attach", "cleanup"} /\ files' = files /\ orphans' = orphans \cup {r}
         \/ pc[r] = "emit" /\ files' = files /\ orphans' = orphans
  BY DEF CleanUp, Die, Finish, Goto, tables
<1>2. pc'[r] = "failed" /\ \A q \in Requests : q # r => pc'[q] = pc[q]
  BY <1>1 DEF TypeOK
<1>3. /\ \A q \in files : q \in Requests /\ (q # r => q \in files')
      /\ \A q \in files' : q \in files
      /\ \A q \in orphans : q \in orphans'
  BY <1>1 DEF TypeOK
<1>4. \A q \in Requests : UploadOK(q)'
  BY <1>1, <1>2, <1>3 DEF Uploads, UploadOK
<1>5. AttachmentHasFile'
  <2> SUFFICES ASSUME NEW a \in attachments PROVE a.by \in files' \cup lostAcks'
    BY <1>1 DEF AttachmentHasFile
  <2>1. a.by \in files \cup lostAcks
    BY DEF Uploads, AttachmentHasFile
  <2>2. CASE a.by = r /\ pc[r] = "cleanup"
    BY <1>1, <2>2 DEF Uploads, UploadOK
  <2>3. CASE ~(a.by = r /\ pc[r] = "cleanup")
    BY <1>1, <1>3, <2>1, <2>3
  <2> QED
    BY <2>2, <2>3
<1>6. OrphanFilesExplained'
  BY <1>1, <1>2, <1>3 DEF Uploads, OrphanFilesExplained
<1> QED
  BY <1>4, <1>5, <1>6 DEF Uploads

\* Every step keeps files and rows in agreement.
LEMMA UploadsStep ==
  ASSUME TypeOK, Uploads, NEW r \in Requests, Arrive(r) \/ Continue(r) \/ Break(r)
  PROVE  Uploads'
<1>1. CASE Arrive(r)
  <2>1. /\ \E label \in Labels \ {"attach"} : Goto(r, label)
        /\ pc[r] = "idle" /\ UNCHANGED <<attachments, storage>>
    <3>1. CASE Refuse(r) \/ \E u \in Users : MarkRead(r, u)
      BY <3>1 DEF Refuse, MarkRead, Finish, tables, Labels
    <3>2. CASE \E j \in JobIds : AdminRequest(r, j)
      <4>1. ASSUME NEW j, NEW a, NEW c, NEW t, NEW time, CreateJob(r, a, j, c, t, time)
            PROVE  Goto(r, "emit") /\ pc[r] = "idle" /\ UNCHANGED <<attachments, storage>>
        BY <4>1 DEF CreateJob, EmitTo
      <4>2. ASSUME NEW j, NEW a, NEW t, NEW time, AssignLookup(r, a, j, t, time)
            PROVE  Goto(r, "assign") /\ pc[r] = "idle" /\ UNCHANGED <<attachments, storage>>
        BY <4>2 DEF AssignLookup, Keep, tables
      <4> QED
        BY <3>2, <4>1, <4>2 DEF AdminRequest, Labels
    <3>3. CASE \E j \in JobIds, u \in Users :
                 \/ \E status \in StatusInputs : StatusLookup(r, u, j, status)
                 \/ \E internal \in BOOLEAN : NoteLookup(r, u, j, internal)
                 \/ UploadLookup(r, u, j)
      BY <3>3 DEF StatusLookup, NoteLookup, UploadLookup, Keep, tables, Labels
    <3> QED
      BY <1>1, <3>1, <3>2, <3>3 DEF Arrive
  <2> QED
    BY <2>1, UploadsUntouched
<1>2. CASE AssignCommit(r) \/ StatusCommit(r) \/ NoteCommit(r) \/ Emit(r) \/ Fail(r)
  <2>1. /\ \E label \in {"emit", "done", "failed"} :
             Goto(r, label) /\ (pc[r] = "emit" => label \in {"done", "failed"})
        /\ pc[r] \in {"assign", "status", "note", "emit"}
        /\ UNCHANGED <<attachments, storage>>
    BY <1>2 DEF AssignCommit, StatusCommit, NoteCommit, Emit, Fail, Finish, EmitTo, tables
  <2> QED
    BY <2>1, UploadsUntouched
<1>3. CASE StoreFile(r) \/ StoreFails(r)
  BY <1>3, UploadsStore
<1>4. CASE AttachCommit(r) \/ AttachFails(r)
  BY <1>4, UploadsAttach
<1>5. CASE CleanUp(r) \/ Die(r)
  BY <1>5, UploadsEnd
<1> QED
  BY <1>1, <1>2, <1>3, <1>4, <1>5 DEF Continue, Break

-----------------------------------------------------------------------------
(* The invariant is inductive *)

\* The database starts empty, or with a job and no record, or with one record
\* about the job.
LEMMA InitTables ==
  ASSUME Init
  PROVE  /\ job \in [JobIds -> JobRow]
         /\ notes \subseteq [by : Requests \cup {NoOne}, job : JobIds, internal : BOOLEAN]
         /\ \/ log = <<>>
            \/ \E e \in Entry :
                 /\ log = <<e>> /\ e.action = "SEED_JOB_CREATED" /\ e.actor \in Admins
                 /\ e.status = "SAME" /\ e.technician = "SAME"
                 /\ e.stored = job[e.job] /\ e.given = job[e.job].time
                 /\ job[e.job].client # NoOne
<1>1. NoJob \in JobRow
  BY DEF NoJob, JobRow, Statuses
<1>2. CASE Empty
  BY <1>1, <1>2 DEF Empty
<1>3. CASE \E j \in JobIds : Seed(j)
  <2>1. PICK j \in JobIds, c \in Clients, t \in Technicians, time \in Times, a \in Admins :
          LET row == [client |-> c, technician |-> t, status |-> "ASSIGNED", time |-> time]
          IN  /\ job = [x \in JobIds |-> IF x = j THEN row ELSE NoJob]
              /\ \/ /\ log = << [action |-> "SEED_JOB_CREATED", job |-> j, actor |-> a,
                                 by |-> NoOne, status |-> "SAME", technician |-> "SAME",
                                 from |-> "SAME", seen |-> 0, given |-> time,
                                 stored |-> row] >>
                    /\ notes = {[by |-> NoOne, job |-> j, internal |-> TRUE]}
                 \/ log = <<>> /\ notes = {}
    BY <1>3 DEF Seed
  <2> DEFINE row == [client |-> c, technician |-> t, status |-> "ASSIGNED", time |-> time]
             e == [action |-> "SEED_JOB_CREATED", job |-> j, actor |-> a,
                   by |-> NoOne, status |-> "SAME", technician |-> "SAME",
                   from |-> "SAME", seen |-> 0, given |-> time, stored |-> row]
  <2>2. /\ row \in JobRow /\ row.client = c /\ row.time = time
        /\ c # NoOne /\ a \in Users
    BY RoleAssumption DEF JobRow, Statuses, Users
  <2>3. /\ job = [x \in JobIds |-> IF x = j THEN row ELSE NoJob]
        /\ (log = <<e>> /\ notes = {[by |-> NoOne, job |-> j, internal |-> TRUE]})
             \/ (log = <<>> /\ notes = {})
    BY <2>1
  <2> HIDE DEF row
  <2>4. /\ e \in Entry /\ e.action = "SEED_JOB_CREATED" /\ e.actor = a /\ e.job = j
        /\ e.status = "SAME" /\ e.technician = "SAME" /\ e.stored = row /\ e.given = time
    <3>1. "SEED_JOB_CREATED" \in Actions
      BY DEF Actions
    <3> QED
      BY <2>2, <3>1 DEF Entry
  <2> HIDE DEF e
  <2>5. job \in [JobIds -> JobRow] /\ job[j] = row
    BY <1>1, <2>2, <2>3
  <2>6. notes \subseteq [by : Requests \cup {NoOne}, job : JobIds, internal : BOOLEAN]
    <3>1. [by |-> NoOne, job |-> j, internal |-> TRUE]
            \in [by : Requests \cup {NoOne}, job : JobIds, internal : BOOLEAN]
      OBVIOUS
    <3> QED
      BY <2>3, <3>1
  <2>7. CASE log = <<e>>
    <3>1. job[e.job].client # NoOne /\ e.stored = job[e.job] /\ e.given = job[e.job].time
      BY <2>2, <2>4, <2>5
    <3> QED
      BY <2>4, <2>5, <2>6, <2>7, <3>1
  <2> QED
    BY <2>3, <2>5, <2>6, <2>7
<1> QED
  BY <1>2, <1>3 DEF Init

\* The empty database and the seeded one are well typed.
LEMMA InitTypes == Init => TypeOK
<1> SUFFICES ASSUME Init PROVE TypeOK
  OBVIOUS
<1>1. /\ job \in [JobIds -> JobRow] /\ log \in Seq(Entry)
      /\ notes \subseteq [by : Requests \cup {NoOne}, job : JobIds, internal : BOOLEAN]
  <2>1. <<>> \in Seq(Entry) /\ \A e \in Entry : <<e>> \in Seq(Entry)
    OBVIOUS
  <2> QED
    BY <2>1, InitTables
<1>2. /\ seeded = job /\ attachments = {} /\ inbox = {}
      /\ files = {} /\ orphans = {} /\ lostAcks = {} /\ faults = 0
      /\ pc = [r \in Requests |-> "idle"] /\ loc = [r \in Requests |-> NoLocals]
  BY DEF Init
<1>3. pc \in [Requests -> Labels] /\ loc \in [Requests -> Locals] /\ faults \in 0 .. MaxFaults
  BY <1>2, NoLocalsType, FaultAssumption DEF Labels
<1> QED
  BY <1>1, <1>2, <1>3 DEF TypeOK

\* The empty database and the seeded one satisfy the inductive invariant.
LEMMA InitInv == Init => IInv
<1> SUFFICES ASSUME Init PROVE IInv
  OBVIOUS
<1>1. TypeOK
  BY InitTypes
<1>2. /\ seeded = job /\ attachments = {} /\ inbox = {} /\ files = {} /\ lostAcks = {}
      /\ \A r \in Requests : pc[r] = "idle"
  BY DEF Init
<1>3. \A r \in Requests : HandlerOK(r) /\ UploadOK(r)
  BY <1>2 DEF HandlerOK, UploadOK, Midway
<1>4. AttachmentHasFile /\ OrphanFilesExplained
  BY <1>2 DEF AttachmentHasFile, OrphanFilesExplained
<1>5. CASE log = <<>>
  <2>1. DOMAIN log = {}
    BY <1>5
  <2>2. RowRecorded /\ LogOK /\ AuditExplainsJob /\ TechnicianHadJob
    BY <1>2, <2>1 DEF RowRecorded, LogOK, AuditExplainsJob, TechnicianHadJob
  <2>3. AuditFromExplained /\ ScheduleExplained
    BY <2>1 DEF AuditFromExplained, ScheduleExplained
  <2>4. ChangesAnnounced
    BY <1>2, <2>1 DEF ChangesAnnounced
  <2> QED
    BY <1>1, <1>3, <1>4, <2>2, <2>3, <2>4 DEF IInv
<1>6. CASE log # <<>>
  <2>1. PICK e \in Entry :
          /\ log = <<e>> /\ e.action = "SEED_JOB_CREATED" /\ e.actor \in Admins
          /\ e.status = "SAME" /\ e.technician = "SAME"
          /\ e.stored = job[e.job] /\ e.given = job[e.job].time
          /\ job[e.job].client # NoOne
    BY <1>6, InitTables
  <2>2. DOMAIN log = {1} /\ log[1] = e
    BY <2>1
  <2>3. RowRecorded
    BY <1>2, <2>1, <2>2 DEF RowRecorded
  <2>4. LogOK /\ AuditExplainsJob /\ TechnicianHadJob
    BY <2>1, <2>2, RoleAssumption
       DEF LogOK, Exists, AuditExplainsJob, LastStatus, LastTechnician, StatusTold,
           TechnicianHadJob
  <2>5. AuditFromExplained /\ ScheduleExplained
    BY <2>1, <2>2 DEF AuditFromExplained, ScheduleExplained
  <2>6. ChangesAnnounced
    <3>1. Concerned(e) = {}
      BY <2>1 DEF Concerned
    <3> QED
      BY <1>2, <2>2, <3>1 DEF ChangesAnnounced
  <2> QED
    BY <1>1, <1>3, <1>4, <2>3, <2>4, <2>5, <2>6 DEF IInv
<1> QED
  BY <1>5, <1>6

\* Nothing happens.
LEMMA StutterInv == IInv /\ UNCHANGED vars => IInv'
<1> SUFFICES ASSUME IInv, UNCHANGED vars PROVE IInv'
  OBVIOUS
<1>1. /\ job' = job /\ log' = log /\ notes' = notes /\ attachments' = attachments
      /\ inbox' = inbox /\ files' = files /\ orphans' = orphans /\ lostAcks' = lostAcks
      /\ pc' = pc /\ loc' = loc /\ faults' = faults /\ seeded' = seeded
  BY DEF vars, tables, storage
<1>2. Quiet
  BY <1>1 DEF Quiet, Announcements
<1>3. TypeOK'
  BY <1>1 DEF IInv, TypeOK
<1>4. ASSUME NEW q \in Requests PROVE HandlerOK(q)' /\ UploadOK(q)'
  <2>1. UploadOK(q)'
    BY <1>1 DEF IInv, UploadOK
  <2>2. CASE pc'[q] \in Midway
    <3>1. Carried(q) /\ HandlerOK(q)
      BY <1>1, <2>2 DEF Carried, IInv
    <3>2. TypeOK
      BY DEF IInv
    <3> QED
      BY <1>1, <1>2, <2>1, <2>2, <3>1, <3>2, CarriedOK
  <2>3. CASE pc'[q] \notin Midway
    BY <2>1, <2>3 DEF HandlerOK
  <2> QED
    BY <2>1, <2>2, <2>3
<1>5. RowRecorded' /\ LogOK' /\ AuditExplainsJob' /\ ChangesAnnounced'
  BY <1>1, <1>2, RowStep, LogStep, AuditStep, AnnouncedStep DEF IInv
<1>6. TechnicianHadJob'
  BY <1>1 DEF IInv, TechnicianHadJob
<1>7. AuditFromExplained'
  <2>1. ASSUME NEW i PROVE Replaced(i)' = Replaced(i)
    BY <1>1 DEF Replaced
  <2>2. ASSUME NEW i, NEW k PROVE Between(k, i)' <=> Between(k, i)
    BY <1>1 DEF Between
  <2> QED
    BY <1>1, <2>1, <2>2 DEF IInv, AuditFromExplained
<1>8. ScheduleExplained'
  BY <1>1 DEF IInv, ScheduleExplained, Overwritten, Between
<1>9. AttachmentHasFile' /\ OrphanFilesExplained'
  BY <1>1 DEF IInv, AttachmentHasFile, OrphanFilesExplained
<1> QED
  BY <1>3, <1>4, <1>5, <1>6, <1>7, <1>8, <1>9 DEF IInv

\* Every step keeps the inductive invariant.
LEMMA NextInv == IInv /\ Next => IInv'
<1> SUFFICES ASSUME IInv, NEW r \in Requests, Arrive(r) \/ Continue(r) \/ Break(r)
             PROVE  IInv'
  BY DEF Next
<1>1. /\ TypeOK /\ \A q \in Requests : HandlerOK(q)
      /\ RowRecorded /\ LogOK /\ AuditExplainsJob /\ ChangesAnnounced /\ TechnicianHadJob
      /\ AuditFromExplained /\ ScheduleExplained /\ Uploads
  BY DEF IInv, Uploads
<1>2. Outcome(r)
  BY <1>1, StepOutcome
<1>3. TypeOK' /\ UNCHANGED seeded /\ (Quiet \/ Commits(r))
  BY <1>2 DEF Outcome
<1>4. \A q \in Requests : HandlerOK(q)'
  BY <1>1, <1>2, HandlerStep
<1>5. Uploads'
  BY <1>1, UploadsStep
<1>6. RowRecorded' /\ LogOK' /\ AuditExplainsJob' /\ ChangesAnnounced'
  BY <1>1, <1>3, RowStep, LogStep, AuditStep, AnnouncedStep
<1>7. TechnicianHadJob' /\ AuditFromExplained' /\ ScheduleExplained'
  BY <1>1, <1>3, TechnicianStep, FromStep, ScheduleStep
<1> QED
  BY <1>3, <1>4, <1>5, <1>6, <1>7 DEF IInv, Uploads

-----------------------------------------------------------------------------
(* The theorems *)

\* The strengthened invariant is inductive.
THEOREM WorkflowInductive == Spec => []IInv
<1>1. Init => IInv
  BY InitInv
<1>2. IInv /\ [Next]_vars => IInv'
  BY NextInv, StutterInv
<1> QED
  BY <1>1, <1>2, PTL DEF Spec

\* Tables, files and handlers keep their types.
THEOREM WorkflowTypeCorrect == Spec => []TypeOK
<1>1. IInv => TypeOK
  BY DEF IInv
<1> QED
  BY <1>1, WorkflowInductive, PTL

\* The audit log tells the status and the technician of every job.
THEOREM AuditExplains == Spec => []AuditExplainsJob
<1>1. IInv => AuditExplainsJob
  BY DEF IInv
<1> QED
  BY <1>1, WorkflowInductive, PTL

\* The notifications are those the committed changes call for.
THEOREM ChangesReachThoseConcerned == Spec => []ChangesAnnounced
<1>1. IInv => ChangesAnnounced
  BY DEF IInv
<1> QED
  BY <1>1, WorkflowInductive, PTL

\* A technician leaves a trace only on jobs that were the technician's before.
THEOREM TechnicianTraces == Spec => []TechnicianHadJob
<1>1. IInv => TechnicianHadJob
  BY DEF IInv
<1> QED
  BY <1>1, WorkflowInductive, PTL

\* The "from" of a record is wrong only if another commit came in between.
THEOREM FromExplained == Spec => []AuditFromExplained
<1>1. IInv => AuditFromExplained
  BY DEF IInv
<1> QED
  BY <1>1, WorkflowInductive, PTL

\* A time is lost only to another one or to an overlapping assignment.
THEOREM ScheduleKept == Spec => []ScheduleExplained
<1>1. IInv => ScheduleExplained
  BY DEF IInv
<1> QED
  BY <1>1, WorkflowInductive, PTL

\* An attachment has its file, or its upload was reported as a failure.
THEOREM AttachmentsHaveFiles == Spec => []AttachmentHasFile
<1>1. IInv => AttachmentHasFile
  BY DEF IInv
<1> QED
  BY <1>1, WorkflowInductive, PTL

\* A file without a row has an explanation.
THEOREM OrphansExplained == Spec => []OrphanFilesExplained
<1>1. IInv => OrphanFilesExplained
  BY DEF IInv
<1> QED
  BY <1>1, WorkflowInductive, PTL

-----------------------------------------------------------------------------
(* Refinement: the tables implement the abstract workflow *)

ClientOf == [j \in JobIds |-> job[j].client]
ContentOf == [j \in JobIds |-> Contents(j)]
JobsRecorded == [i \in DOMAIN log |-> log[i].job]

\* The jobs named by the log form a sequence as long as the log.
LEMMA RecordedType ==
  ASSUME TypeOK
  PROVE  /\ JobsRecorded \in Seq(JobIds) /\ DOMAIN JobsRecorded = 1 .. Len(log)
         /\ Len(JobsRecorded) = Len(log)
<1>1. /\ Len(log) \in Nat /\ DOMAIN log = 1 .. Len(log)
      /\ \A i \in DOMAIN log : log[i].job \in JobIds
  BY LogFacts
<1> DEFINE n == Len(log)
<1>2. JobsRecorded \in [1 .. n -> JobIds]
  BY <1>1 DEF JobsRecorded
<1> HIDE DEF n
<1> QED
  BY <1>1, <1>2 DEF n

\* The empty database and the seeded one are initial states of Workflow.
LEMMA WorkflowInit == Init => Promised!Init
<1> SUFFICES ASSUME Init PROVE JobsRecorded \in Seq(JobIds)
  BY DEF Promised!Init, JobsRecorded
<1> QED
  BY InitTypes, RecordedType

\* A commit is a step of the abstract workflow.
LEMMA CommitWorks ==
  ASSUME TypeOK, NEW r, Commits(r)
  PROVE  Promised!Next
<1>1. PICK e \in Entry :
        /\ Committed(r, e)
        /\ \A x \in JobIds : x # e.job =>
             /\ {n \in notes : n.job = x}' = {n \in notes : n.job = x}
             /\ {a \in attachments : a.job = x}' = {a \in attachments : a.job = x}
  BY DEF Commits
<1>2. /\ Len(log) \in Nat /\ DOMAIN log = 1 .. Len(log)
      /\ DOMAIN log' = 1 .. Len(log) + 1
      /\ \A i \in 1 .. Len(log) : log'[i] = log[i]
      /\ log'[Len(log) + 1] = e /\ e.job \in JobIds
  BY <1>1, LogFacts, Grows
<1>3. JobsRecorded' = Append(JobsRecorded, e.job)
  <2>1. /\ JobsRecorded \in Seq(JobIds) /\ Len(JobsRecorded) = Len(log)
        /\ JobsRecorded = [i \in 1 .. Len(log) |-> log[i].job]
    BY <1>2, RecordedType DEF JobsRecorded
  <2>2. JobsRecorded' = [i \in 1 .. Len(log) + 1 |-> log'[i].job]
    BY <1>2 DEF JobsRecorded
  <2>3. Append(JobsRecorded, e.job) = [i \in 1 .. Len(log) + 1 |->
                                        IF i <= Len(log) THEN JobsRecorded[i] ELSE e.job]
    BY <1>2, <2>1
  <2>4. \A i \in 1 .. Len(log) + 1 :
          log'[i].job = IF i <= Len(log) THEN JobsRecorded[i] ELSE e.job
    BY <1>2, <2>1
  <2> QED
    BY <2>2, <2>3, <2>4
<1>4. ASSUME NEW x \in JobIds \ {e.job}
      PROVE  ClientOf'[x] = ClientOf[x] /\ ContentOf'[x] = ContentOf[x]
  <2>1. job'[x] = job[x]
    BY <1>1 DEF Committed
  <2>2. Contents(x)' = Contents(x)
    BY <1>1, <2>1 DEF Contents
  <2> QED
    BY <2>1, <2>2 DEF ClientOf, ContentOf
<1>5. Promised!Record(e.job)
  BY <1>3, <1>4 DEF Promised!Record, ClientOf, ContentOf, JobsRecorded
<1>6. \/ ClientOf[e.job] = NoOne /\ ClientOf'[e.job] # NoOne
      \/ ClientOf[e.job] # NoOne /\ ClientOf'[e.job] = ClientOf[e.job]
  BY <1>1, <1>2 DEF Committed, Follows, ClientOf
<1>7. Promised!Create(e.job) \/ Promised!Work(e.job)
  BY <1>5, <1>6 DEF Promised!Create, Promised!Work, ClientOf
<1> QED
  BY <1>2, <1>7 DEF Promised!Next

\* A commit is a recorded change of Workflow, any other step a stutter.
LEMMA WorkflowStep == IInv /\ [Next]_vars => [Promised!Next]_(Promised!workflow)
<1> SUFFICES ASSUME IInv, [Next]_vars
             PROVE  Promised!Next \/ UNCHANGED Promised!workflow
  BY DEF Promised!workflow
<1>1. UNCHANGED <<job, log, notes, attachments>> => UNCHANGED Promised!workflow
  BY DEF Promised!workflow, Contents
<1>2. CASE UNCHANGED vars
  BY <1>1, <1>2 DEF vars, tables
<1>3. CASE Next
  <2>1. PICK r \in Requests : Arrive(r) \/ Continue(r) \/ Break(r)
    BY <1>3 DEF Next
  <2>2. TypeOK /\ (Quiet \/ Commits(r))
    BY <2>1, StepOutcome DEF IInv, Outcome
  <2> QED
    BY <1>1, <2>2, CommitWorks DEF Quiet
<1> QED
  BY <1>2, <1>3

\* The handlers implement the abstract workflow.
THEOREM RefinesWorkflow == Spec => ImplementsWorkflow
BY WorkflowInductive, WorkflowInit, WorkflowStep, PTL
   DEF Spec, ImplementsWorkflow, Promised!Spec
=============================================================================

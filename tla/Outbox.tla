------------------------------- MODULE Outbox -------------------------------
(***************************************************************************)
(* The transactional outbox: src/backend/src/services/outbox.ts and        *)
(* workers/outbox.dispatcher.ts, over the queue of EmailQueue.             *)
(*                                                                         *)
(* A dispatcher is a worker process.  Its tick claims a batch and treats   *)
(* the events one after the other; the flag `running` keeps two ticks of   *)
(* one process apart, nothing keeps two processes apart (a rolling         *)
(* restart, or two workers).  The transaction of claimOutboxBatch runs at  *)
(* READ COMMITTED: the batch is what its first statement read, even if its *)
(* second statement claims fewer rows.                                     *)
(*                                                                         *)
(* availableAt is abstracted to whether it has passed.                     *)
(***************************************************************************)
EXTENDS EmailQueue, FiniteSets

CONSTANTS
  Dispatchers,    \* worker processes
  Limit,          \* the size of a batch, 25 in the code
  MaxAttempts,    \* attempts after which an event is left alone, 10
  MaxFaults,      \* bound on failing calls to the queue and the database
  MaxCrashes      \* bound on worker processes dying or being shut down

ASSUME OutboxAssumption ==
  /\ IsFiniteSet(Dispatchers)
  /\ Limit \in Nat \ {0} /\ MaxAttempts \in Nat \ {0}
  /\ MaxFaults \in Nat /\ MaxCrashes \in Nat

VARIABLES
  status,     \* OutboxEvent.status, "ABSENT" before the event is recorded
  attempts,   \* OutboxEvent.attempts
  due,        \* events whose availableAt has passed
  pc,         \* where the tick of each dispatcher is
  batch,      \* events of its batch it has not finished
  faults,     \* calls that failed
  crashes,    \* processes that died
  orphaned    \* history: events claimed by a process that died

table == <<status, attempts, due>>
bounds == <<faults, crashes>>
vars == <<queue, table, pc, batch, bounds, orphaned>>

Statuses == {"ABSENT", "PENDING", "PROCESSING", "PUBLISHED", "FAILED"}
Labels == {"idle", "claim", "send", "publish", "fail"}

-----------------------------------------------------------------------------
(* The table *)

Claimable(e) == status[e] \in {"PENDING", "FAILED"}

\* Seeded fault: the test of attempts is dropped from the query.
Eligible_NoCap == {e \in due : Claimable(e)}

Eligible == {e \in due : Claimable(e) /\ attempts[e] < MaxAttempts}

\* orderBy createdAt, take limit.
Oldest(events) == {e \in events : Cardinality({x \in events : x < e}) < Limit}

\* The for loop goes through the batch in the order it was read.
Current(d) == CHOOSE e \in batch[d] : \A x \in batch[d] : e <= x

\* Seeded fault: the tick ends with the first event that failed.
Advance_Stops(d) ==
  /\ batch' = [batch EXCEPT ![d] = {}]
  /\ pc' = [pc EXCEPT ![d] = "idle"]

\* Seeded fault: the tick does not notice that its batch is done.
Advance_Never(d) ==
  /\ batch' = [batch EXCEPT ![d] = @ \ {Current(d)}]
  /\ pc' = [pc EXCEPT ![d] = "send"]

Advance(d) ==
  /\ batch' = [batch EXCEPT ![d] = @ \ {Current(d)}]
  /\ pc' = [pc EXCEPT ![d] = IF batch[d] = {Current(d)} THEN "idle" ELSE "send"]

Goto(d, label) == pc' = [pc EXCEPT ![d] = label]

-----------------------------------------------------------------------------
(* Producers and time *)

\* recordOutboxEvent, committed with the token row it belongs to.
RecordEvent(e) ==
  /\ status[e] = "ABSENT"
  /\ status' = [status EXCEPT ![e] = "PENDING"]
  /\ due' = due \cup {e}
  /\ UNCHANGED <<queue, attempts, pc, batch, bounds, orphaned>>

\* The clock passes availableAt of an event that is backing off.
BackoffElapsed(e) ==
  /\ status[e] # "ABSENT"
  /\ e \notin due
  /\ due' = due \cup {e}
  /\ UNCHANGED <<queue, status, attempts, pc, batch, bounds, orphaned>>

-----------------------------------------------------------------------------
(* A tick of dispatcher d *)

\* claimOutboxBatch, first statement.  An empty batch ends the tick.
TickRead(d) ==
  /\ pc[d] = "idle"
  /\ Eligible # {}
  /\ batch' = [batch EXCEPT ![d] = Oldest(Eligible)]
  /\ Goto(d, "claim")
  /\ UNCHANGED <<queue, table, bounds, orphaned>>

\* Second statement and commit: rows another dispatcher has claimed in the
\* meantime are not updated, but they stay in the batch.
TickClaim(d) ==
  /\ pc[d] = "claim"
  /\ status' = [e \in Events |-> IF e \in batch[d] /\ Claimable(e)
                                 THEN "PROCESSING" ELSE status[e]]
  /\ Goto(d, "send")
  /\ UNCHANGED <<queue, attempts, due, batch, bounds, orphaned>>

\* Seeded fault: the call to the queue is not awaited.
Enqueue_NotAwaited(d) ==
  /\ pc[d] = "send"
  /\ Add(Current(d)) \/ UNCHANGED queue
  /\ Goto(d, "publish")
  /\ UNCHANGED <<table, batch, bounds, orphaned>>

Enqueue(d) ==
  /\ pc[d] = "send"
  /\ Add(Current(d))
  /\ Goto(d, "publish")
  /\ UNCHANGED <<table, batch, bounds, orphaned>>

\* The call fails, before or after the queue took the job.
EnqueueFails(d) ==
  /\ pc[d] = "send"
  /\ faults < MaxFaults
  /\ faults' = faults + 1
  /\ Add(Current(d)) \/ UNCHANGED queue
  /\ Goto(d, "fail")
  /\ UNCHANGED <<table, batch, crashes, orphaned>>

Publish(d) ==
  /\ pc[d] = "publish"
  /\ status' = [status EXCEPT ![Current(d)] = "PUBLISHED"]
  /\ Advance(d)
  /\ UNCHANGED <<queue, attempts, due, bounds, orphaned>>

\* The update fails, before or after the database committed it.
PublishFails(d) ==
  /\ pc[d] = "publish"
  /\ faults < MaxFaults
  /\ faults' = faults + 1
  /\ \/ status' = [status EXCEPT ![Current(d)] = "PUBLISHED"]
     \/ status' = status
  /\ Goto(d, "fail")
  /\ UNCHANGED <<queue, attempts, due, batch, crashes, orphaned>>

\* Seeded fault: a failed event keeps the status PROCESSING.
MarkFailed_KeepsStatus(d) ==
  /\ pc[d] = "fail"
  /\ attempts' = [attempts EXCEPT ![Current(d)] = @ + 1]
  /\ due' = due \ {Current(d)}
  /\ Advance(d)
  /\ UNCHANGED <<queue, status, bounds, orphaned>>

\* markOutboxFailed.
MarkFailed(d) ==
  /\ pc[d] = "fail"
  /\ status' = [status EXCEPT ![Current(d)] = "FAILED"]
  /\ attempts' = [attempts EXCEPT ![Current(d)] = @ + 1]
  /\ due' = due \ {Current(d)}
  /\ Advance(d)
  /\ UNCHANGED <<queue, bounds, orphaned>>

\* The process dies, or is shut down without waiting for its tick; a new one
\* starts.  A claim or a mark that fails ends the process too: nothing
\* catches the rejection of tick.
Crash(d) ==
  /\ pc[d] # "idle"
  /\ crashes < MaxCrashes
  /\ crashes' = crashes + 1
  /\ orphaned' = IF pc[d] = "claim" THEN orphaned ELSE orphaned \cup batch[d]
  /\ batch' = [batch EXCEPT ![d] = {}]
  /\ Goto(d, "idle")
  /\ UNCHANGED <<queue, table, faults>>

Init ==
  /\ QueueInit
  /\ status = [e \in Events |-> "ABSENT"]
  /\ attempts = [e \in Events |-> 0]
  /\ due = {}
  /\ pc = [d \in Dispatchers |-> "idle"]
  /\ batch = [d \in Dispatchers |-> {}]
  /\ faults = 0
  /\ crashes = 0
  /\ orphaned = {}

Dispatch(d) ==
  TickRead(d) \/ TickClaim(d) \/ Enqueue(d) \/ Publish(d) \/ MarkFailed(d)

QueueStep == QueueNext /\ UNCHANGED <<table, pc, batch, bounds, orphaned>>

Next ==
  \/ \E e \in Events : RecordEvent(e) \/ BackoffElapsed(e)
  \/ \E d \in Dispatchers :
       Dispatch(d) \/ EnqueueFails(d) \/ PublishFails(d) \/ Crash(d)
  \/ QueueStep

Spec == Init /\ [][Next]_vars

\* The poll timer fires every five seconds and the loop goes on when a call
\* answers; time passes; BullMQ's worker takes jobs as long as it runs.
Fairness ==
  /\ \A d \in Dispatchers : WF_vars(Dispatch(d))
  /\ \A e \in Events :
       /\ WF_vars(BackoffElapsed(e))
       /\ WF_vars(RunJob(e) /\ UNCHANGED <<table, pc, batch, bounds, orphaned>>)

FairSpec == Spec /\ Fairness

-----------------------------------------------------------------------------
(* Properties *)

\* Tables, batches, queue and counters keep their types; a dispatcher holds a
\* batch exactly while it is in a tick.
TypeOK ==
  /\ QueueTypeOK
  /\ status \in [Events -> Statuses]
  /\ attempts \in [Events -> Nat]
  /\ due \subseteq Events
  /\ pc \in [Dispatchers -> Labels]
  /\ batch \in [Dispatchers -> SUBSET Events]
  /\ \A d \in Dispatchers : batch[d] = {} <=> pc[d] = "idle"
  /\ faults \in 0 .. MaxFaults
  /\ crashes \in 0 .. MaxCrashes
  /\ orphaned \subseteq Events

\* An event marked PUBLISHED was handed to the queue, whichever dispatcher
\* marked it and whatever failed before.
PublishedWasQueued ==
  \A e \in Events : status[e] = "PUBLISHED" => added[e] > 0

\* The dispatchers that may still count an attempt of e.
Holders(e) == {d \in Dispatchers : e \in batch[d]}

\* The cap on attempts holds across processes up to the claims that were
\* under way when it was reached: each process overshoots by one at most.
AttemptsCapped ==
  \A e \in Events : attempts[e] < MaxAttempts + Cardinality(Dispatchers)

\* Only the death of a process strands an event: PROCESSING means that some
\* live tick still has the event before it.
ProcessingHasOwner ==
  \A e \in Events :
    status[e] = "PROCESSING" =>
      e \in orphaned \/ \E d \in Holders(e) : pc[d] # "claim"

\* However often an event is dispatched, by however many processes, its user
\* gets one e-mail, plus one for each time the queue forgot the job id or a
\* worker died between sending and saying so.
DuplicateMailsExplained ==
  \A e \in Events : sent[e] <= 1 + causes[e] /\ added[e] <= 1 + causes[e]

\* The table and the queue implement the mail service: nothing is sent that was
\* not recorded and accepted, nothing is published that was not accepted, and a
\* second e-mail has a time the queue forgot the first.
Service == INSTANCE MailService WITH
  recorded <- {e \in Events : status[e] # "ABSENT"},
  accepted <- {e \in Events : added[e] > 0},
  published <- {e \in Events : status[e] = "PUBLISHED"},
  mails <- sent,
  credit <- [e \in Events |-> 1 + causes[e] - sent[e]]
ImplementsMailService == Service!Spec

\* A recorded event is published, runs out of attempts, or was lost with the
\* process that had claimed it; it is never passed over for ever, not even
\* behind failing older events that fill each batch.
EveryEventSettled ==
  \A e \in Events :
    (status[e] # "ABSENT") ~>
      (status[e] = "PUBLISHED" \/ attempts[e] >= MaxAttempts \/ e \in orphaned)

\* A published event leads to an e-mail unless the queue gave its job up.
PublishedLeadsToMail ==
  \A e \in Events :
    (status[e] = "PUBLISHED") ~> (sent[e] > 0 \/ e \in lost)

=============================================================================

----------------------------- MODULE EmailQueue -----------------------------
(***************************************************************************)
(* The BullMQ queue "email" as src/backend/src/queues/email.queue.ts uses  *)
(* it, and the worker that empties it.  BullMQ and the mail provider are   *)
(* outside the repository: this is what their options promise.  A job is   *)
(* named by the outbox event it was added for (jobId: outboxEventId).      *)
(***************************************************************************)
EXTENDS Naturals

CONSTANTS
  Events,         \* outbox events, numbered in the order of createdAt
  SendAttempts,   \* attempts: how often a failing job is run
  MaxStalls       \* how often BullMQ restarts a job whose worker died

ASSUME QueueAssumption ==
  Events \subseteq Nat /\ SendAttempts \in Nat \ {0} /\ MaxStalls \in Nat

VARIABLES
  job,        \* job[e]: state of the job with id e
  tries,      \* failed runs of that job
  stalls,     \* interrupted runs of that job
  added,      \* history: jobs created for e
  sent,       \* history: e-mails handed to the provider for e
  causes,     \* history: events that allow one more e-mail for e
  lost        \* history: events with a job the queue gave up

queue == <<job, tries, stalls, added, sent, causes, lost>>

JobStates == {"none", "waiting", "active", "acking", "completed", "failed"}

QueueInit ==
  /\ job = [e \in Events |-> "none"]
  /\ tries = [e \in Events |-> 0]
  /\ stalls = [e \in Events |-> 0]
  /\ added = [e \in Events |-> 0]
  /\ sent = [e \in Events |-> 0]
  /\ causes = [e \in Events |-> 0]
  /\ lost = {}

\* Seeded fault: the job is added without a job id, so that nothing stops a
\* second one.
Add_NoJobId(e) ==
  /\ job' = [job EXCEPT ![e] = "waiting"]
  /\ added' = [added EXCEPT ![e] = @ + 1]
  /\ UNCHANGED <<tries, stalls, sent, causes, lost>>

\* emailQueue.add with a jobId: ignored while a job with that id is kept.
Add(e) ==
  /\ IF job[e] = "none"
     THEN /\ job' = [job EXCEPT ![e] = "waiting"]
          /\ added' = [added EXCEPT ![e] = @ + 1]
     ELSE UNCHANGED <<job, added>>
  /\ UNCHANGED <<tries, stalls, sent, causes, lost>>

PickJob(e) ==
  /\ job[e] = "waiting"
  /\ job' = [job EXCEPT ![e] = "active"]
  /\ UNCHANGED <<tries, stalls, added, sent, causes, lost>>

\* The provider takes the e-mail; the queue has not heard of it yet.
SendEmail(e) ==
  /\ job[e] = "active"
  /\ job' = [job EXCEPT ![e] = "acking"]
  /\ sent' = [sent EXCEPT ![e] = @ + 1]
  /\ UNCHANGED <<tries, stalls, added, causes, lost>>

CompleteJob(e) ==
  /\ job[e] = "acking"
  /\ job' = [job EXCEPT ![e] = "completed"]
  /\ UNCHANGED <<tries, stalls, added, sent, causes, lost>>

Requeue(e, again) ==
  /\ job' = [job EXCEPT ![e] = IF again THEN "waiting" ELSE "failed"]
  /\ lost' = IF again THEN lost ELSE lost \cup {e}

\* The provider refuses: the job waits for its next attempt or fails.
SendFails(e) ==
  /\ job[e] = "active"
  /\ tries' = [tries EXCEPT ![e] = @ + 1]
  /\ Requeue(e, tries[e] + 1 < SendAttempts)
  /\ UNCHANGED <<stalls, added, sent, causes>>

\* The worker process dies with the job, before or after the e-mail left.
StallJob(e) ==
  /\ job[e] \in {"active", "acking"}
  /\ stalls' = [stalls EXCEPT ![e] = @ + 1]
  /\ causes' = [causes EXCEPT ![e] = IF job[e] = "acking" THEN @ + 1 ELSE @]
  /\ Requeue(e, stalls[e] < MaxStalls)
  /\ UNCHANGED <<tries, added, sent>>

\* removeOnComplete and removeOnFail: the job, and its id, are forgotten.
EvictJob(e) ==
  /\ job[e] \in {"completed", "failed"}
  /\ job' = [job EXCEPT ![e] = "none"]
  /\ tries' = [tries EXCEPT ![e] = 0]
  /\ stalls' = [stalls EXCEPT ![e] = 0]
  /\ causes' = [causes EXCEPT ![e] = @ + 1]
  /\ UNCHANGED <<added, sent, lost>>

RunJob(e) == PickJob(e) \/ SendEmail(e) \/ CompleteJob(e)

QueueNext ==
  \E e \in Events :
    RunJob(e) \/ SendFails(e) \/ StallJob(e) \/ EvictJob(e)

QueueTypeOK ==
  /\ job \in [Events -> JobStates]
  /\ tries \in [Events -> Nat]
  /\ stalls \in [Events -> Nat]
  /\ added \in [Events -> Nat]
  /\ sent \in [Events -> Nat]
  /\ causes \in [Events -> Nat]
  /\ lost \subseteq Events
=============================================================================

---------------------------- MODULE Outbox_proofs ----------------------------
(***************************************************************************)
(* Proofs about Outbox, for any set of events, any finite set of           *)
(* dispatchers, and any limits.                                            *)
(***************************************************************************)
EXTENDS Outbox, FiniteSetTheorems, WellFoundedInduction, TLAPS

USE QueueAssumption, OutboxAssumption

-----------------------------------------------------------------------------
(* The inductive invariant *)

\* A job the queue keeps was added, and a tick that is about to mark its
\* event published has handed it over.
HandedOver ==
  /\ \A e \in Events : job[e] # "none" => added[e] > 0
  /\ \A d \in Dispatchers : pc[d] = "publish" => added[Current(d)] > 0

\* Every process that still holds an event may add one attempt to it.
AttemptsReserved ==
  \A e \in Events :
    attempts[e] + Cardinality(Holders(e)) < MaxAttempts + Cardinality(Dispatchers)

\* The e-mails and jobs of an event against the causes counted so far, by the
\* state of its job: a job that may still send has one e-mail in hand.
MailBudget(e) ==
  /\ sent[e] <= causes[e] + (IF job[e] \in {"acking", "completed", "failed"} THEN 1 ELSE 0)
  /\ added[e] <= causes[e] + (IF job[e] = "none" THEN 0 ELSE 1)
MailBudgets == \A e \in Events : MailBudget(e)

IInv ==
  /\ TypeOK
  /\ HandedOver
  /\ PublishedWasQueued
  /\ ProcessingHasOwner
  /\ AttemptsReserved
  /\ MailBudgets

-----------------------------------------------------------------------------
(* Batches *)

\* A nonempty set of events has an oldest one.
LEMMA OldestExists ==
  ASSUME NEW S, S \subseteq Events, S # {}
  PROVE  \E e \in S : \A x \in S : e <= x
  <1>1. PICK e \in S : \A x \in S : ~(<<x, e>> \in OpToRel(<, Nat))
    <2>1. S \subseteq Nat
      OBVIOUS
    <2> QED
      BY <2>1, NatLessThanWellFounded, WFMin
  <1>2. \A x \in S : x \in Nat /\ e \in Nat
    OBVIOUS
  <1>3. \A x \in S : ~(x < e)
    BY <1>1, <1>2 DEF OpToRel
  <1> QED
    BY <1>2, <1>3

\* The event a tick works on is one of its batch.
LEMMA CurrentInBatch ==
  ASSUME TypeOK, NEW d \in Dispatchers, pc[d] # "idle"
  PROVE  Current(d) \in batch[d] /\ Current(d) \in Events
  <1>1. batch[d] \subseteq Events /\ batch[d] # {}
    BY DEF TypeOK
  <1>2. \E e \in batch[d] : \A x \in batch[d] : e <= x
    BY <1>1, OldestExists
  <1> QED
    BY <1>1, <1>2 DEF Current

\* A query that finds events returns some of them.
LEMMA OldestFacts ==
  ASSUME NEW S, S \subseteq Events, S # {}
  PROVE  Oldest(S) \subseteq S /\ Oldest(S) # {}
  <1>1. PICK e \in S : \A x \in S : e <= x
    BY OldestExists
  <1>2. {x \in S : x < e} = {}
    <2>1. \A x \in S : x \in Nat /\ e \in Nat /\ e <= x
      BY <1>1
    <2>2. \A x \in S : ~(x < e)
      BY <2>1
    <2> QED
      BY <2>2
  <1>3. e \in Oldest(S)
    BY <1>2, FS_EmptySet DEF Oldest
  <1> QED
    BY <1>3 DEF Oldest

-----------------------------------------------------------------------------
(* The queue *)

\* The actions of the queue, one by one, and a job that is added.
QueueChange(e) ==
  \/ Add(e) \/ PickJob(e) \/ SendEmail(e) \/ CompleteJob(e)
  \/ SendFails(e) \/ StallJob(e) \/ EvictJob(e)

\* The queue keeps its types.
LEMMA QueueType ==
  ASSUME QueueTypeOK, NEW e \in Events, QueueChange(e)
  PROVE  QueueTypeOK'
  <1> USE DEF QueueTypeOK, JobStates
  <1>1. CASE Add(e)
    BY <1>1 DEF Add
  <1>2. CASE PickJob(e)
    BY <1>2 DEF PickJob
  <1>3. CASE SendEmail(e)
    BY <1>3 DEF SendEmail
  <1>4. CASE CompleteJob(e)
    BY <1>4 DEF CompleteJob
  <1>5. CASE SendFails(e)
    BY <1>5 DEF SendFails, Requeue
  <1>6. CASE StallJob(e)
    BY <1>6 DEF StallJob, Requeue
  <1>7. CASE EvictJob(e)
    BY <1>7 DEF EvictJob
  <1> QED
    BY <1>1, <1>2, <1>3, <1>4, <1>5, <1>6, <1>7 DEF QueueChange

\* The queue never forgets that a job was added.
LEMMA AddedGrows ==
  ASSUME QueueTypeOK, NEW e \in Events, QueueChange(e)
  PROVE  \A x \in Events : added'[x] >= added[x]
  BY DEF QueueTypeOK, QueueChange, Add, PickJob, SendEmail, CompleteJob,
         SendFails, StallJob, EvictJob

\* A job the queue keeps was added.
LEMMA KeptWasAdded ==
  ASSUME QueueTypeOK, \A x \in Events : job[x] # "none" => added[x] > 0,
         NEW e \in Events, QueueChange(e)
  PROVE  /\ \A x \in Events : job'[x] # "none" => added'[x] > 0
         /\ Add(e) => added'[e] > 0
  <1> USE DEF QueueTypeOK
  <1>1. CASE Add(e)
    BY <1>1 DEF Add
  <1>2. CASE PickJob(e) \/ SendEmail(e) \/ CompleteJob(e)
    BY <1>2 DEF PickJob, SendEmail, CompleteJob
  <1>3. CASE SendFails(e) \/ StallJob(e)
    BY <1>3 DEF SendFails, StallJob, Requeue
  <1>4. CASE EvictJob(e)
    BY <1>4 DEF EvictJob
  <1> QED
    BY <1>1, <1>2, <1>3, <1>4 DEF QueueChange

\* What the queue does with one job keeps the budget of e-mails.
LEMMA QueueBudget ==
  ASSUME QueueTypeOK, MailBudgets, NEW e \in Events, QueueChange(e)
  PROVE  MailBudgets'
  <1> SUFFICES ASSUME NEW x \in Events PROVE MailBudget(x)'
    BY DEF MailBudgets
  <1>1. CASE x # e
    <2>1. /\ job'[x] = job[x] /\ added'[x] = added[x]
          /\ sent'[x] = sent[x] /\ causes'[x] = causes[x]
      BY <1>1 DEF QueueTypeOK, QueueChange, Add, PickJob, SendEmail,
         CompleteJob, SendFails, StallJob, EvictJob, Requeue
    <2> QED
      BY <2>1 DEF MailBudgets, MailBudget
  <1>2. CASE x = e
    <2> USE <1>2 DEF QueueTypeOK, JobStates, MailBudgets, MailBudget
    <2>1. CASE Add(e)
      BY <2>1 DEF Add
    <2>2. CASE PickJob(e)
      BY <2>2 DEF PickJob
    <2>3. CASE SendEmail(e)
      BY <2>3 DEF SendEmail
    <2>4. CASE CompleteJob(e)
      BY <2>4 DEF CompleteJob
    <2>5. CASE SendFails(e)
      BY <2>5 DEF SendFails, Requeue
    <2>6. CASE StallJob(e)
      BY <2>6 DEF StallJob, Requeue
    <2>7. CASE EvictJob(e)
      BY <2>7 DEF EvictJob
    <2> QED
      BY <2>1, <2>2, <2>3, <2>4, <2>5, <2>6, <2>7 DEF QueueChange
  <1> QED
    BY <1>1, <1>2

-----------------------------------------------------------------------------
(* The dispatchers *)

\* A step of the dispatchers, of time or of the queue leaves the queue alone,
\* adds one job, or is a step of one job.
LEMMA QueueStepOrNot ==
  ASSUME TypeOK, Next
  PROVE  UNCHANGED queue \/ \E e \in Events : QueueChange(e)
  <1>1. ASSUME NEW d \in Dispatchers, Enqueue(d) \/ EnqueueFails(d)
        PROVE  UNCHANGED queue \/ \E e \in Events : QueueChange(e)
    BY <1>1, CurrentInBatch DEF Enqueue, EnqueueFails, QueueChange
  <1>2. CASE QueueStep
    BY <1>2 DEF QueueStep, QueueNext, RunJob, QueueChange
  <1> QED
    BY <1>1, <1>2 DEF Next, RecordEvent, BackoffElapsed, Dispatch, TickRead,
       TickClaim, Publish, MarkFailed, PublishFails, Crash

\* The end of the work on one event.
LEMMA AdvanceFacts ==
  ASSUME TypeOK, NEW d \in Dispatchers, pc[d] # "idle", Advance(d)
  PROVE  /\ batch' \in [Dispatchers -> SUBSET Events]
         /\ pc' \in [Dispatchers -> Labels]
         /\ batch'[d] = batch[d] \ {Current(d)}
         /\ pc'[d] = IF batch'[d] = {} THEN "idle" ELSE "send"
         /\ \A x \in Dispatchers \ {d} : batch'[x] = batch[x] /\ pc'[x] = pc[x]
  <1>1. Current(d) \in batch[d] /\ Current(d) \in Events
    BY CurrentInBatch
  <1> DEFINE c == Current(d)
  <1> HIDE DEF c
  <1>2. batch[d] \ {c} = {} <=> batch[d] = {c}
    BY <1>1 DEF c
  <1>3. /\ batch' = [batch EXCEPT ![d] = @ \ {c}]
        /\ pc' = [pc EXCEPT ![d] = IF batch[d] = {c} THEN "idle" ELSE "send"]
    BY DEF Advance, c
  <1>4. batch' \in [Dispatchers -> SUBSET Events] /\ batch'[d] = batch[d] \ {c}
    BY <1>3 DEF TypeOK
  <1> QED
    BY <1>2, <1>3, <1>4 DEF TypeOK, Labels, c

\* Initially everything is empty.
LEMMA InitType == Init => TypeOK
  BY DEF Init, QueueInit, TypeOK, QueueTypeOK, JobStates, Statuses, Labels

\* Every step keeps the types.
LEMMA NextType ==
  ASSUME TypeOK, Next
  PROVE  TypeOK'
  <1>1. QueueTypeOK'
    <2>1. QueueTypeOK
      BY DEF TypeOK
    <2>2. CASE UNCHANGED queue
      BY <2>1, <2>2 DEF queue, QueueTypeOK
    <2> QED
      BY <2>1, <2>2, QueueStepOrNot, QueueType
  <1> USE DEF table, bounds
  <1>2. ASSUME NEW e \in Events, RecordEvent(e) \/ BackoffElapsed(e)
        PROVE  TypeOK'
    BY <1>1, <1>2 DEF TypeOK, RecordEvent, BackoffElapsed, Statuses
  <1>3. ASSUME NEW d \in Dispatchers, TickRead(d) PROVE TypeOK'
    <2>1. Oldest(Eligible) \subseteq Events /\ Oldest(Eligible) # {}
      BY <1>3, OldestFacts DEF TickRead, Eligible, TypeOK
    <2> QED
      BY <1>1, <1>3, <2>1 DEF TypeOK, TickRead, Goto, Labels
  <1>4. ASSUME NEW d \in Dispatchers, TickClaim(d) PROVE TypeOK'
    BY <1>1, <1>4 DEF TypeOK, TickClaim, Goto, Labels, Statuses
  <1>5. ASSUME NEW d \in Dispatchers, Enqueue(d) \/ EnqueueFails(d) PROVE TypeOK'
    <2>1. /\ faults' \in 0 .. MaxFaults
          /\ UNCHANGED <<status, attempts, due, batch, crashes, orphaned>>
      BY <1>5 DEF TypeOK, Enqueue, EnqueueFails
    <2>2. /\ pc' \in [Dispatchers -> Labels]
          /\ \A x \in Dispatchers : pc'[x] = "idle" <=> pc[x] = "idle"
      BY <1>5 DEF TypeOK, Enqueue, EnqueueFails, Goto, Labels
    <2> QED
      BY <1>1, <2>1, <2>2 DEF TypeOK
  <1>6. ASSUME NEW d \in Dispatchers, PublishFails(d) PROVE TypeOK'
    BY <1>1, <1>6, CurrentInBatch DEF TypeOK, PublishFails, Goto, Labels, Statuses
  <1>7. ASSUME NEW d \in Dispatchers, Publish(d) \/ MarkFailed(d) PROVE TypeOK'
    <2>1. pc[d] # "idle" /\ Advance(d)
      BY <1>7 DEF Publish, MarkFailed
    <2>2. Current(d) \in Events
      BY <2>1, CurrentInBatch
    <2> HIDE DEF Current
    <2>3. /\ batch' \in [Dispatchers -> SUBSET Events]
          /\ pc' \in [Dispatchers -> Labels]
          /\ \A x \in Dispatchers : batch'[x] = {} <=> pc'[x] = "idle"
      BY <2>1, AdvanceFacts DEF TypeOK, Labels
    <2>4. /\ status' \in [Events -> Statuses]
          /\ attempts' \in [Events -> Nat]
          /\ due' \subseteq Events
          /\ UNCHANGED <<bounds, orphaned>>
      <3>1. CASE Publish(d)
        BY <2>2, <3>1 DEF TypeOK, Publish, Statuses
      <3>2. CASE MarkFailed(d)
        <4>1. attempts' \in [Events -> Nat]
          <5>1. PICK c \in Events : c = Current(d)
            BY <2>2
          <5>2. attempts' = [attempts EXCEPT ![c] = @ + 1]
            BY <3>2, <5>1 DEF MarkFailed
          <5>3. attempts \in [Events -> Nat] /\ attempts[c] \in Nat
            BY DEF TypeOK
          <5> QED
            BY <5>2, <5>3
        <4> QED
          BY <2>2, <3>2, <4>1 DEF TypeOK, MarkFailed, Statuses
      <3> QED
        BY <1>7, <3>1, <3>2
    <2> QED
      BY <1>1, <2>3, <2>4 DEF TypeOK
  <1>8. ASSUME NEW d \in Dispatchers, Crash(d) PROVE TypeOK'
    <2>1. /\ crashes' \in 0 .. MaxCrashes
          /\ orphaned' \subseteq Events
          /\ UNCHANGED <<status, attempts, due, faults>>
      <3>1. crashes' = crashes + 1 /\ crashes < MaxCrashes /\ crashes \in 0 .. MaxCrashes
        BY <1>8 DEF TypeOK, Crash
      <3>2. orphaned' \subseteq Events
        BY <1>8 DEF TypeOK, Crash
      <3> QED
        BY <1>8, <3>1, <3>2 DEF Crash
    <2>2. /\ pc' \in [Dispatchers -> Labels]
          /\ batch' \in [Dispatchers -> SUBSET Events]
          /\ \A x \in Dispatchers : batch'[x] = {} <=> pc'[x] = "idle"
      BY <1>8 DEF TypeOK, Crash, Goto, Labels
    <2> QED
      BY <1>1, <2>1, <2>2 DEF TypeOK
  <1>9. CASE QueueStep
    BY <1>1, <1>9 DEF TypeOK, QueueStep
  <1> QED
    BY <1>2, <1>3, <1>4, <1>5, <1>6, <1>7, <1>8, <1>9 DEF Next, Dispatch

-----------------------------------------------------------------------------
(* Published events *)

\* An event is published by the tick that has handed it over, and what was
\* handed over stays so.
LEMMA NextPublished ==
  ASSUME TypeOK, HandedOver, PublishedWasQueued, Next
  PROVE  HandedOver' /\ PublishedWasQueued'
  <1>1. \A e \in Events : added'[e] >= added[e]
    <2>1. \A e \in Events : added[e] \in Nat
      BY DEF TypeOK, QueueTypeOK
    <2>2. CASE UNCHANGED queue
      BY <2>1, <2>2 DEF queue
    <2> QED
      BY <2>2, QueueStepOrNot, AddedGrows DEF TypeOK
  <1>2. \A e \in Events : added[e] \in Nat /\ added'[e] \in Nat
    BY NextType DEF TypeOK, QueueTypeOK
  <1>3. \A d \in Dispatchers : pc[d] # "idle" => Current(d) \in Events
    BY CurrentInBatch
  <1>4. HandedOver'
    <2>0. \A e \in Events : job'[e] # "none" => added'[e] > 0
      <3>1. CASE UNCHANGED queue
        BY <3>1 DEF queue, HandedOver
      <3> QED
        BY <3>1, QueueStepOrNot, KeptWasAdded DEF TypeOK, HandedOver
    <2> SUFFICES ASSUME NEW d \in Dispatchers, pc'[d] = "publish"
                 PROVE  (added[Current(d)] > 0)'
      BY <2>0 DEF HandedOver
    <2>1. CASE Enqueue(d)
      <3>1. PICK e \in Events : e = Current(d)
        BY <1>3, <2>1 DEF Enqueue
      <3>2. Add(e) /\ batch' = batch
        BY <2>1, <3>1 DEF Enqueue
      <3>3. Current(d)' = e
        BY <3>1, <3>2 DEF Current
      <3>4. added'[e] > 0
        BY <3>2, KeptWasAdded DEF QueueChange, TypeOK, HandedOver
      <3> QED
        BY <3>3, <3>4
    <2>2. CASE ~Enqueue(d)
      <3>1. pc[d] = "publish" /\ batch'[d] = batch[d]
        BY <2>2 DEF Next, RecordEvent, BackoffElapsed, Dispatch, TickRead, TickClaim,
           Enqueue, EnqueueFails, Publish, PublishFails, MarkFailed, Crash, QueueStep,
           Advance, Goto, TypeOK
      <3>2. Current(d)' = Current(d)
        BY <3>1 DEF Current
      <3> QED
        <4>1. PICK e \in Events : e = Current(d)
          BY <1>3, <3>1
        <4>2. added[e] > 0 /\ added'[e] >= added[e]
          BY <1>1, <3>1, <4>1 DEF HandedOver
        <4> QED
          BY <1>2, <3>2, <4>1, <4>2
    <2> QED
      BY <2>1, <2>2
  <1>5. PublishedWasQueued'
    <2> SUFFICES ASSUME NEW e \in Events, status'[e] = "PUBLISHED"
                 PROVE  added'[e] > 0
      BY DEF PublishedWasQueued
    <2>1. CASE status[e] = "PUBLISHED"
      BY <1>1, <1>2, <2>1 DEF PublishedWasQueued
    <2>2. ASSUME status[e] # "PUBLISHED"
          PROVE  \E d \in Dispatchers : pc[d] = "publish" /\ e = Current(d)
      BY <1>3, <2>2 DEF Next, RecordEvent, BackoffElapsed, Dispatch, TickRead, TickClaim,
         Enqueue, EnqueueFails, Publish, PublishFails, MarkFailed, Crash, QueueStep,
         TypeOK, table
    <2> QED
      BY <1>1, <1>2, <2>1, <2>2 DEF HandedOver
  <1> QED
    BY <1>4, <1>5

-----------------------------------------------------------------------------
(* Claimed events *)

\* A step claims for a live tick, and a tick gives up only what it has
\* treated, unless it dies.
LEMMA NextOwner ==
  ASSUME TypeOK, ProcessingHasOwner, Next
  PROVE  ProcessingHasOwner'
  <1> SUFFICES ASSUME NEW e \in Events, status'[e] = "PROCESSING"
               PROVE  e \in orphaned' \/ \E d \in Dispatchers : e \in batch'[d] /\ pc'[d] # "claim"
    BY DEF ProcessingHasOwner, Holders
  <1>1. ASSUME NEW d \in Dispatchers, TickClaim(d), e \in batch[d]
        PROVE  e \in batch'[d] /\ pc'[d] # "claim"
    BY <1>1 DEF TickClaim, Goto, TypeOK
  <1>2. CASE status[e] # "PROCESSING"
    BY <1>1, <1>2, CurrentInBatch DEF Next, RecordEvent, BackoffElapsed, Dispatch, TickRead, TickClaim,
       Enqueue, EnqueueFails, Publish, PublishFails, MarkFailed, Crash, QueueStep,
       TypeOK, table
  <1>3. CASE e \in orphaned
    BY <1>3 DEF Next, RecordEvent, BackoffElapsed, Dispatch, TickRead, TickClaim,
       Enqueue, EnqueueFails, Publish, PublishFails, MarkFailed, Crash, QueueStep
  <1>4. ASSUME status[e] = "PROCESSING",
               NEW d \in Dispatchers, e \in batch[d], pc[d] # "claim"
        PROVE  e \in orphaned' \/ (e \in batch'[d] /\ pc'[d] # "claim")
    <2>1. pc[d] # "idle"
      BY <1>4 DEF TypeOK
    <2>2. ASSUME Crash(d) PROVE e \in orphaned'
      BY <1>4, <2>2 DEF Crash
    <2>3. ASSUME Publish(d) \/ MarkFailed(d)
          PROVE  e \in batch'[d] /\ pc'[d] # "claim"
      <3>1. Advance(d) /\ e # Current(d)
        BY <1>4, <2>1, <2>3, CurrentInBatch DEF Publish, MarkFailed, TypeOK
      <3> QED
        BY <1>4, <2>1, <3>1, AdvanceFacts
    <2>4. ASSUME NEW x \in Dispatchers \ {d}, Publish(x) \/ MarkFailed(x)
          PROVE  batch'[d] = batch[d] /\ pc'[d] = pc[d]
      BY <2>4 DEF Publish, MarkFailed, Advance, TypeOK
    <2>5. ASSUME NEW x \in Dispatchers,
                 \/ TickRead(x) \/ TickClaim(x) \/ Enqueue(x)
                 \/ EnqueueFails(x) \/ PublishFails(x)
                 \/ x # d /\ Crash(x)
          PROVE  e \in batch'[d] /\ pc'[d] # "claim"
      BY <1>4, <2>1, <2>5 DEF TickRead, TickClaim, Enqueue, EnqueueFails,
         PublishFails, Crash, Goto, TypeOK
    <2>6. CASE QueueStep \/ \E x \in Events : RecordEvent(x) \/ BackoffElapsed(x)
      BY <1>4, <2>6 DEF RecordEvent, BackoffElapsed, QueueStep
    <2>7. ASSUME NEW x \in Dispatchers, Dispatch(x) \/ EnqueueFails(x) \/ PublishFails(x) \/ Crash(x)
          PROVE  e \in orphaned' \/ (e \in batch'[d] /\ pc'[d] # "claim")
      <3>1. CASE x = d
        BY <2>2, <2>3, <2>5, <2>7, <3>1 DEF Dispatch
      <3>2. CASE x # d /\ (Publish(x) \/ MarkFailed(x))
        BY <1>4, <2>4, <3>2
      <3>3. CASE x # d /\ ~(Publish(x) \/ MarkFailed(x))
        BY <2>5, <2>7, <3>3 DEF Dispatch
      <3> QED
        BY <3>1, <3>2, <3>3
    <2> QED
      BY <2>6, <2>7 DEF Next
  <1> QED
    BY <1>2, <1>3, <1>4 DEF ProcessingHasOwner, Holders

-----------------------------------------------------------------------------
(* Attempts *)

\* The processes that hold an event are finitely many, at most all of them.
LEMMA HoldersFacts ==
  ASSUME NEW e
  PROVE  /\ IsFiniteSet(Holders(e))
         /\ Cardinality(Holders(e)) \in Nat
         /\ Cardinality(Dispatchers) \in Nat
         /\ Cardinality(Holders(e)) <= Cardinality(Dispatchers)
  <1>1. Holders(e) \in SUBSET Dispatchers
    BY DEF Holders
  <1> QED
    BY <1>1, FS_Subset, FS_CardinalityType

\* Fewer processes that hold an event: a smaller number.
LEMMA HoldersShrink ==
  ASSUME NEW e, Holders(e)' \subseteq Holders(e)
  PROVE  Cardinality(Holders(e)') \in Nat /\ Cardinality(Holders(e)') <= Cardinality(Holders(e))
  <1>1. Holders(e)' \in SUBSET Holders(e)
    OBVIOUS
  <1> QED
    BY <1>1, HoldersFacts, FS_Subset, FS_CardinalityType

\* A claim is made below the cap, and counting an attempt gives up the hold
\* that reserved it.
LEMMA NextAttempts ==
  ASSUME TypeOK, AttemptsReserved, Next
  PROVE  AttemptsReserved'
  <1> SUFFICES ASSUME NEW e \in Events
               PROVE  attempts'[e] + Cardinality(Holders(e)') < MaxAttempts + Cardinality(Dispatchers)
    BY DEF AttemptsReserved
  <1>1. /\ attempts[e] \in Nat /\ MaxAttempts \in Nat
        /\ attempts[e] + Cardinality(Holders(e)) < MaxAttempts + Cardinality(Dispatchers)
    BY DEF TypeOK, AttemptsReserved
  <1>2. CASE attempts'[e] = attempts[e] /\ Holders(e)' \subseteq Holders(e)
    BY <1>1, <1>2, HoldersFacts, HoldersShrink
  <1>3. ASSUME NEW d \in Dispatchers, TickRead(d), e \in Oldest(Eligible)
        PROVE  attempts'[e] + Cardinality(Holders(e)') < MaxAttempts + Cardinality(Dispatchers)
    <2>1. attempts'[e] = attempts[e] /\ attempts[e] < MaxAttempts
      BY <1>3 DEF TickRead, table, Oldest, Eligible
    <2>2. Cardinality(Holders(e)') \in Nat /\ Cardinality(Holders(e)') <= Cardinality(Dispatchers)
      <3>1. Holders(e)' \in SUBSET Dispatchers
        BY DEF Holders
      <3> QED
        BY <3>1, FS_Subset, FS_CardinalityType
    <2> QED
      BY <1>1, <2>1, <2>2, HoldersFacts
  <1>4. ASSUME NEW d \in Dispatchers, MarkFailed(d), e = Current(d)
        PROVE  attempts'[e] + Cardinality(Holders(e)') < MaxAttempts + Cardinality(Dispatchers)
    <2>1. pc[d] # "idle" /\ Advance(d)
      BY <1>4 DEF MarkFailed
    <2>2. attempts'[e] = attempts[e] + 1
      BY <1>4, <1>1 DEF MarkFailed, TypeOK
    <2>3. d \in Holders(e) /\ Holders(e)' = Holders(e) \ {d}
      BY <1>4, <2>1, CurrentInBatch, AdvanceFacts DEF Holders
    <2>4. Cardinality(Holders(e)') = Cardinality(Holders(e)) - 1
      BY <2>3, HoldersFacts, FS_RemoveElement
    <2> QED
      BY <1>1, <2>2, <2>4, HoldersFacts
  <1>5. ASSUME NEW d \in Dispatchers, TickRead(d), e \notin Oldest(Eligible)
        PROVE  attempts'[e] = attempts[e] /\ Holders(e)' \subseteq Holders(e)
    BY <1>5 DEF TickRead, table, Holders, TypeOK
  <1>6. ASSUME NEW d \in Dispatchers, Publish(d) \/ (MarkFailed(d) /\ e # Current(d))
        PROVE  attempts'[e] = attempts[e] /\ Holders(e)' \subseteq Holders(e)
    <2>1. pc[d] # "idle" /\ Advance(d)
      BY <1>6 DEF Publish, MarkFailed
    <2>2. Holders(e)' \subseteq Holders(e)
      BY <2>1, AdvanceFacts DEF Holders
    <2>3. attempts'[e] = attempts[e]
      BY <1>6 DEF Publish, MarkFailed, TypeOK
    <2> QED
      BY <2>2, <2>3
  <1>7. ASSUME NEW d \in Dispatchers,
               TickClaim(d) \/ Enqueue(d) \/ EnqueueFails(d) \/ PublishFails(d) \/ Crash(d)
        PROVE  attempts'[e] = attempts[e] /\ Holders(e)' \subseteq Holders(e)
    BY <1>7 DEF TickClaim, Enqueue, EnqueueFails, PublishFails, Crash, table, Holders, TypeOK
  <1>8. CASE QueueStep \/ \E x \in Events : RecordEvent(x) \/ BackoffElapsed(x)
    <2>1. attempts' = attempts /\ batch' = batch
      BY <1>8 DEF QueueStep, RecordEvent, BackoffElapsed, table
    <2> QED
      BY <1>2, <2>1 DEF Holders
  <1>9. ASSUME NEW d \in Dispatchers, TickRead(d) \/ Publish(d) \/ MarkFailed(d)
        PROVE  attempts'[e] + Cardinality(Holders(e)') < MaxAttempts + Cardinality(Dispatchers)
    <2>1. CASE TickRead(d)
      BY <1>2, <1>3, <1>5, <2>1
    <2>2. CASE Publish(d) \/ MarkFailed(d)
      BY <1>2, <1>4, <1>6, <2>2
    <2> QED
      BY <1>9, <2>1, <2>2
  <1> QED
    BY <1>2, <1>7, <1>8, <1>9 DEF Next, Dispatch

-----------------------------------------------------------------------------
(* The theorems *)

\* Initially no job exists, no batch is held, and every budget is unused.
LEMMA InitInv == Init => IInv
  <1> SUFFICES ASSUME Init PROVE IInv
    OBVIOUS
  <1>1. TypeOK
    BY InitType
  <1>2. HandedOver /\ PublishedWasQueued /\ ProcessingHasOwner
    BY DEF Init, QueueInit, HandedOver, PublishedWasQueued, ProcessingHasOwner
  <1>3. AttemptsReserved
    <2> SUFFICES ASSUME NEW e \in Events
                 PROVE  attempts[e] + Cardinality(Holders(e)) < MaxAttempts + Cardinality(Dispatchers)
      BY DEF AttemptsReserved
    <2>1. attempts[e] = 0 /\ Holders(e) = {}
      BY DEF Init, Holders
    <2> QED
      BY <2>1, HoldersFacts, FS_EmptySet
  <1>4. MailBudgets
    <2> SUFFICES ASSUME NEW e \in Events PROVE MailBudget(e)
      BY DEF MailBudgets
    <2>1. sent[e] = 0 /\ added[e] = 0 /\ causes[e] = 0
      BY DEF Init, QueueInit
    <2> QED
      BY <2>1 DEF MailBudget
  <1> QED
    BY <1>1, <1>2, <1>3, <1>4 DEF IInv

\* Every step keeps the inductive invariant.
LEMMA NextInv == IInv /\ [Next]_vars => IInv'
  <1> SUFFICES ASSUME IInv, [Next]_vars PROVE IInv'
    OBVIOUS
  <1>1. CASE Next
    <2>1. MailBudgets'
      <3>1. CASE UNCHANGED queue
        BY <3>1 DEF IInv, queue, MailBudgets, MailBudget
      <3> QED
        BY <1>1, <3>1, QueueStepOrNot, QueueBudget DEF IInv, TypeOK
    <2> QED
      BY <1>1, <2>1, NextType, NextPublished, NextOwner, NextAttempts DEF IInv
  <1>2. CASE UNCHANGED vars
    BY <1>2 DEF IInv, vars, queue, table, bounds, TypeOK, QueueTypeOK, HandedOver,
       Current, PublishedWasQueued, ProcessingHasOwner, Holders, AttemptsReserved,
       MailBudgets, MailBudget
  <1> QED
    BY <1>1, <1>2

\* The inductive invariant holds of the outbox.
THEOREM OutboxInductive == Spec => []IInv
  BY InitInv, NextInv, PTL DEF Spec

\* Tables, queue and dispatchers keep their types.
THEOREM OutboxTypeCorrect == Spec => []TypeOK
  BY OutboxInductive, PTL DEF IInv

\* No event is marked published that the queue was not given, whatever fails
\* and however many processes dispatch.
THEOREM PublishedQueued == Spec => []PublishedWasQueued
  BY OutboxInductive, PTL DEF IInv

\* Only a process that died leaves an event PROCESSING without a tick that
\* will settle it.
THEOREM ProcessingOwned == Spec => []ProcessingHasOwner
  BY OutboxInductive, PTL DEF IInv

\* The cap on attempts is overshot by at most one attempt per other process.
THEOREM AttemptsBounded == Spec => []AttemptsCapped
  <1>1. IInv => AttemptsCapped
    <2> SUFFICES ASSUME IInv, NEW e \in Events
                 PROVE  attempts[e] < MaxAttempts + Cardinality(Dispatchers)
      BY DEF AttemptsCapped
    <2>1. attempts[e] + Cardinality(Holders(e)) < MaxAttempts + Cardinality(Dispatchers)
      BY DEF IInv, AttemptsReserved
    <2>2. attempts[e] \in Nat
      BY DEF IInv, TypeOK
    <2> QED
      BY <2>1, <2>2, HoldersFacts
  <1> QED
    BY <1>1, OutboxInductive, PTL

\* A user gets one e-mail per event, plus one for each cause of a duplicate.
THEOREM DuplicatesExplained == Spec => []DuplicateMailsExplained
  <1>1. IInv => DuplicateMailsExplained
    <2> SUFFICES ASSUME IInv, NEW e \in Events
                 PROVE  sent[e] <= 1 + causes[e] /\ added[e] <= 1 + causes[e]
      BY DEF DuplicateMailsExplained
    <2>1. sent[e] \in Nat /\ added[e] \in Nat /\ causes[e] \in Nat
      BY DEF IInv, TypeOK, QueueTypeOK
    <2>2. MailBudget(e)
      BY DEF IInv, MailBudgets
    <2> QED
      BY <2>1, <2>2 DEF MailBudget
  <1> QED
    BY <1>1, OutboxInductive, PTL

-----------------------------------------------------------------------------
(* The mail service *)

\* A tick works on events that were recorded.
BatchRecorded == \A d \in Dispatchers : \A e \in batch[d] : status[e] # "ABSENT"

\* No step takes a recorded event back.
LEMMA RecordedStays ==
  ASSUME TypeOK, Next, NEW e \in Events, status[e] # "ABSENT"
  PROVE  status'[e] # "ABSENT"
  BY CurrentInBatch DEF Next, RecordEvent, BackoffElapsed, Dispatch, TickRead,
     TickClaim, Enqueue, EnqueueFails, Publish, PublishFails, MarkFailed, Crash,
     QueueStep, TypeOK, table

\* A tick reads recorded events only, and none of them is taken back.
LEMMA NextBatch ==
  ASSUME TypeOK, BatchRecorded, [Next]_vars
  PROVE  BatchRecorded'
  <1>1. CASE Next
    <2> SUFFICES ASSUME NEW d \in Dispatchers, NEW e \in batch'[d]
                 PROVE  status'[e] # "ABSENT"
      BY DEF BatchRecorded
    <2>1. e \in batch[d] \/ (TickRead(d) /\ e \in Oldest(Eligible))
      BY <1>1 DEF Next, RecordEvent, BackoffElapsed, Dispatch, TickRead, TickClaim,
         Enqueue, EnqueueFails, Publish, PublishFails, MarkFailed, Crash, QueueStep,
         Advance, TypeOK
    <2>2. e \in Events /\ status[e] # "ABSENT"
      <3>1. CASE e \in batch[d]
        BY <3>1 DEF BatchRecorded, TypeOK
      <3>2. CASE TickRead(d) /\ e \in Oldest(Eligible)
        BY <3>2 DEF Oldest, Eligible, Claimable, TypeOK
      <3> QED
        BY <2>1, <3>1, <3>2
    <2> QED
      BY <1>1, <2>2, RecordedStays
  <1>2. CASE UNCHANGED vars
    BY <1>2 DEF BatchRecorded, vars, table
  <1> QED
    BY <1>1, <1>2

\* Initially the service has taken nothing and owes one e-mail per event.
LEMMA ServiceInit == Init => Service!Init
  BY DEF Init, QueueInit, Service!Init

\* A job that was added is an event the service accepts, unless it had.
LEMMA AddAccepts ==
  ASSUME TypeOK, NEW e \in Events, Add(e), status[e] # "ABSENT", UNCHANGED status
  PROVE  [Service!Next]_(Service!service)
  <1>1. CASE job[e] = "none"
    <2>1. /\ added' = [added EXCEPT ![e] = @ + 1]
          /\ UNCHANGED <<sent, causes>>
      BY <1>1 DEF Add
    <2>2. \A x \in Events : added[x] \in Nat
      BY DEF TypeOK, QueueTypeOK
    <2>3. added'[e] > 0 /\ \A x \in Events \ {e} : added'[x] = added[x]
      BY <2>1, <2>2 DEF TypeOK, QueueTypeOK
    <2>4. {x \in Events : added[x] > 0}' = {x \in Events : added[x] > 0} \cup {e}
      BY <2>3
    <2>5. Service!Accept(e)
      BY <2>1, <2>4 DEF Service!Accept
    <2> QED
      BY <2>5 DEF Service!Next
  <1>2. CASE job[e] # "none"
    BY <1>2 DEF Add, Service!service
  <1> QED
    BY <1>1, <1>2

\* What the queue does with a job is a step of the service or none of its
\* business.
LEMMA QueueServes ==
  ASSUME IInv, NEW e \in Events, RunJob(e) \/ SendFails(e) \/ StallJob(e) \/ EvictJob(e),
         UNCHANGED status
  PROVE  [Service!Next]_(Service!service)
  <1>1. /\ sent \in [Events -> Nat] /\ causes \in [Events -> Nat]
        /\ sent[e] \in Nat /\ causes[e] \in Nat
    BY DEF IInv, TypeOK, QueueTypeOK
  <1>2. UNCHANGED added
    BY DEF RunJob, PickJob, SendEmail, CompleteJob, SendFails, StallJob, EvictJob
  <1>3. job[e] # "none" => added[e] > 0
    BY DEF IInv, HandedOver
  <1> DEFINE Credit == [x \in Events |-> 1 + causes[x] - sent[x]]
  <1>4. CASE SendEmail(e)
    <2>1. job[e] = "active" /\ sent' = [sent EXCEPT ![e] = @ + 1] /\ UNCHANGED causes
      BY <1>4 DEF SendEmail
    <2>2. sent[e] <= causes[e]
      BY <1>1, <2>1 DEF IInv, MailBudgets, MailBudget
    <2>3. Credit' = [Credit EXCEPT ![e] = @ - 1] /\ Credit[e] > 0
      <3>1. \A x \in Events : 1 + causes'[x] - sent'[x]
              = IF x = e THEN (1 + causes[x] - sent[x]) - 1 ELSE 1 + causes[x] - sent[x]
        BY <1>1, <2>1
      <3>2. Credit' = [x \in Events |-> IF x = e THEN Credit[x] - 1 ELSE Credit[x]]
        BY <3>1
      <3>3. Credit[e] > 0
        BY <1>1, <2>2
      <3> HIDE DEF Credit
      <3>4. Credit = [x \in Events |-> Credit[x]]
        BY DEF Credit
      <3> QED
        BY <3>2, <3>3, <3>4
    <2>4. Service!Send(e)
      BY <1>2, <1>3, <2>1, <2>3 DEF Service!Send
    <2> QED
      BY <2>4 DEF Service!Next
  <1>5. CASE EvictJob(e) \/ (StallJob(e) /\ job[e] = "acking")
    <2>1. job[e] # "none" /\ causes' = [causes EXCEPT ![e] = @ + 1] /\ UNCHANGED sent
      BY <1>5 DEF EvictJob, StallJob
    <2>2. Credit' = [Credit EXCEPT ![e] = @ + 1]
      <3>1. \A x \in Events : 1 + causes'[x] - sent'[x]
              = IF x = e THEN (1 + causes[x] - sent[x]) + 1 ELSE 1 + causes[x] - sent[x]
        BY <1>1, <2>1
      <3>2. Credit' = [x \in Events |-> IF x = e THEN Credit[x] + 1 ELSE Credit[x]]
        BY <3>1
      <3>3. Credit = [x \in Events |-> Credit[x]]
        BY DEF Credit
      <3> HIDE DEF Credit
      <3> QED
        BY <3>2, <3>3
    <2>3. Service!Forget(e)
      BY <1>2, <1>3, <2>1, <2>2 DEF Service!Forget
    <2> QED
      BY <2>3 DEF Service!Next
  <1>6. CASE PickJob(e) \/ CompleteJob(e) \/ SendFails(e) \/ (StallJob(e) /\ job[e] # "acking")
    <2>1. UNCHANGED sent
      BY <1>6 DEF PickJob, CompleteJob, SendFails, StallJob
    <2>2. causes' = causes
      BY <1>1, <1>6 DEF PickJob, CompleteJob, SendFails, StallJob
    <2> QED
      BY <1>2, <2>1, <2>2 DEF Service!service
  <1> QED
    BY <1>4, <1>5, <1>6 DEF RunJob

\* An event that changes its status from recorded to recorded is published, put
\* back, or nothing the service sees.
LEMMA MarkServes ==
  ASSUME TypeOK, NEW e \in Events, status[e] # "ABSENT", UNCHANGED queue,
         \/ status' = status
         \/ status' = [status EXCEPT ![e] = "PUBLISHED"] /\ added[e] > 0
         \/ status' = [status EXCEPT ![e] = "FAILED"]
  PROVE  [Service!Next]_(Service!service)
  <1>1. UNCHANGED <<added, sent, causes>>
    BY DEF queue
  <1>2. status \in [Events -> Statuses]
    BY DEF TypeOK
  <1> DEFINE Recorded == {x \in Events : status[x] # "ABSENT"}
             Published == {x \in Events : status[x] = "PUBLISHED"}
  <1>3. CASE status' = status
    BY <1>1, <1>3 DEF Service!service
  <1>4. CASE status' = [status EXCEPT ![e] = "PUBLISHED"] /\ added[e] > 0
    <2>1. Recorded' = Recorded /\ Published' = Published \cup {e}
      BY <1>2, <1>4
    <2>2. Service!Publish(e)
      BY <1>1, <1>4, <2>1 DEF Service!Publish
    <2> QED
      BY <2>2 DEF Service!Next
  <1>5. CASE status' = [status EXCEPT ![e] = "FAILED"]
    <2>1. Recorded' = Recorded /\ Published' = Published \ {e}
      BY <1>2, <1>5
    <2>2. Service!Withdraw(e)
      BY <1>1, <2>1 DEF Service!Withdraw
    <2> QED
      BY <2>2 DEF Service!Next
  <1> QED
    BY <1>3, <1>4, <1>5

\* Every step is a step of the mail service or a stutter: a claim and a retry
\* are invisible to it.
LEMMA ServiceStep ==
  ASSUME IInv, BatchRecorded, [Next]_vars
  PROVE  [Service!Next]_(Service!service)
  <1>1. TypeOK
    BY DEF IInv
  <1>2. \A d \in Dispatchers : pc[d] # "idle" =>
          Current(d) \in Events /\ status[Current(d)] # "ABSENT"
    BY <1>1, CurrentInBatch DEF BatchRecorded
  <1>3. ASSUME NEW e \in Events, RecordEvent(e)
        PROVE  [Service!Next]_(Service!service)
    <2>1. /\ {x \in Events : status[x] # "ABSENT"}'
               = {x \in Events : status[x] # "ABSENT"} \cup {e}
          /\ {x \in Events : status[x] = "PUBLISHED"}'
               = {x \in Events : status[x] = "PUBLISHED"}
          /\ status[e] = "ABSENT"
      BY <1>1, <1>3 DEF RecordEvent, TypeOK
    <2>2. UNCHANGED <<added, sent, causes>>
      BY <1>3 DEF RecordEvent, queue
    <2>3. Service!Record(e)
      BY <2>1, <2>2 DEF Service!Record
    <2> QED
      BY <2>3 DEF Service!Next
  <1>4. ASSUME NEW d \in Dispatchers, TickClaim(d)
        PROVE  [Service!Next]_(Service!service)
    <2>1. UNCHANGED <<added, sent, causes>>
      BY <1>4 DEF TickClaim, queue
    <2>2. \A x \in Events : (status'[x] # "ABSENT" <=> status[x] # "ABSENT")
                            /\ (status'[x] = "PUBLISHED" <=> status[x] = "PUBLISHED")
      BY <1>1, <1>4 DEF TickClaim, Claimable, TypeOK
    <2> QED
      BY <2>1, <2>2 DEF Service!service
  <1>5. ASSUME NEW d \in Dispatchers, Enqueue(d) \/ EnqueueFails(d)
        PROVE  [Service!Next]_(Service!service)
    <2>1. pc[d] # "idle" /\ UNCHANGED status /\ (Add(Current(d)) \/ UNCHANGED queue)
      BY <1>5 DEF Enqueue, EnqueueFails, table
    <2>2. PICK e \in Events : e = Current(d) /\ status[e] # "ABSENT"
      BY <1>2, <2>1
    <2>3. CASE UNCHANGED queue
      BY <2>1, <2>3 DEF queue, Service!service
    <2> QED
      BY <1>1, <2>1, <2>2, <2>3, AddAccepts
  <1>6. ASSUME NEW d \in Dispatchers, Publish(d) \/ PublishFails(d) \/ MarkFailed(d)
        PROVE  [Service!Next]_(Service!service)
    <2>1. pc[d] # "idle" /\ UNCHANGED queue
      BY <1>6 DEF Publish, PublishFails, MarkFailed
    <2>2. PICK e \in Events : e = Current(d) /\ status[e] # "ABSENT"
      BY <1>2, <2>1
    <2>3. pc[d] = "publish" => added[e] > 0
      BY <2>2 DEF IInv, HandedOver
    <2>4. \/ status' = status
          \/ status' = [status EXCEPT ![e] = "PUBLISHED"] /\ added[e] > 0
          \/ status' = [status EXCEPT ![e] = "FAILED"]
      BY <1>6, <2>2, <2>3 DEF Publish, PublishFails, MarkFailed
    <2> QED
      BY <1>1, <2>1, <2>2, <2>4, MarkServes
  <1>7. CASE QueueStep
    <2>1. UNCHANGED status
      BY <1>7 DEF QueueStep, table
    <2> QED
      BY <1>7, <2>1, QueueServes DEF QueueStep, QueueNext
  <1>8. CASE UNCHANGED <<queue, status>>
    BY <1>8 DEF queue, Service!service
  <1>9. ASSUME NEW d \in Dispatchers, TickRead(d) \/ Crash(d)
        PROVE  UNCHANGED <<queue, status>>
    BY <1>9 DEF TickRead, Crash, table
  <1>10. ASSUME NEW e \in Events, BackoffElapsed(e)
         PROVE  UNCHANGED <<queue, status>>
    BY <1>10 DEF BackoffElapsed
  <1> QED
    BY <1>3, <1>4, <1>5, <1>6, <1>7, <1>8, <1>9, <1>10 DEF Next, Dispatch, vars, table

\* The outbox implements the mail service: however many processes dispatch, and
\* whichever of them and of the calls fail, an e-mail leaves only for an event
\* that was recorded and accepted, a published event was accepted, and each
\* e-mail after the first is paid for by a time the queue forgot one.
THEOREM RefinesMailService == Spec => ImplementsMailService
  <1>1. Init => BatchRecorded
    BY DEF Init, BatchRecorded
  <1>2. IInv /\ BatchRecorded /\ [Next]_vars => BatchRecorded'
    BY NextBatch DEF IInv
  <1>3. IInv /\ BatchRecorded /\ [Next]_vars => [Service!Next]_(Service!service)
    BY ServiceStep
  <1> QED
    BY <1>1, <1>2, <1>3, OutboxInductive, ServiceInit, PTL
       DEF Spec, ImplementsMailService, Service!Spec
=============================================================================

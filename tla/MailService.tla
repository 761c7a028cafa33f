----------------------------- MODULE MailService -----------------------------
(***************************************************************************)
(* What the outbox and its queue promise, whatever processes dispatch,     *)
(* fail or die: no e-mail leaves but for an event that was recorded and    *)
(* that the queue accepted, an event is called published only once it was  *)
(* accepted, and each e-mail after the first is paid for by a time the     *)
(* queue forgot that it had sent one.  Outbox implements it.               *)
(***************************************************************************)
EXTENDS Naturals

CONSTANT Events

VARIABLES
  recorded,     \* events that were committed
  accepted,     \* events the queue has taken a job for
  published,    \* events the table calls published
  mails,        \* mails[e]: e-mails sent for e
  credit        \* credit[e]: e-mails that may still be sent for e

service == <<recorded, accepted, published, mails, credit>>

Init ==
  /\ recorded = {} /\ accepted = {} /\ published = {}
  /\ mails = [e \in Events |-> 0]
  /\ credit = [e \in Events |-> 1]

Record(e) ==
  /\ e \notin recorded
  /\ recorded' = recorded \cup {e}
  /\ UNCHANGED <<accepted, published, mails, credit>>

Accept(e) ==
  /\ e \in recorded
  /\ accepted' = accepted \cup {e}
  /\ UNCHANGED <<recorded, published, mails, credit>>

Publish(e) ==
  /\ e \in accepted
  /\ published' = published \cup {e}
  /\ UNCHANGED <<recorded, accepted, mails, credit>>

\* Another process that had claimed e as well, or e again, puts it back.
Withdraw(e) ==
  /\ published' = published \ {e}
  /\ UNCHANGED <<recorded, accepted, mails, credit>>

Send(e) ==
  /\ e \in accepted /\ credit[e] > 0
  /\ mails' = [mails EXCEPT ![e] = @ + 1]
  /\ credit' = [credit EXCEPT ![e] = @ - 1]
  /\ UNCHANGED <<recorded, accepted, published>>

Forget(e) ==
  /\ e \in accepted
  /\ credit' = [credit EXCEPT ![e] = @ + 1]
  /\ UNCHANGED <<recorded, accepted, published, mails>>

Next == \E e \in Events :
  Record(e) \/ Accept(e) \/ Publish(e) \/ Withdraw(e) \/ Send(e) \/ Forget(e)

Spec == Init /\ [][Next]_service
=============================================================================

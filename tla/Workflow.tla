------------------------------ MODULE Workflow ------------------------------
(***************************************************************************)
(* What the job tables promise, whatever handlers do to one another: a job *)
(* is created once and never deleted, it keeps its client, and nothing     *)
(* about it changes but in a step that adds one audit record naming it and *)
(* leaves all other jobs alone.                                            *)
(***************************************************************************)
EXTENDS Sequences

CONSTANTS
  Jobs,
  Nobody      \* the client of a job that was not created

VARIABLES
  client,     \* client[j]: whose job it is
  content,    \* content[j]: its row, notes and attachments
  record      \* the jobs the audit log names, in order

workflow == <<client, content, record>>

\* The store may be seeded.
Init == record \in Seq(Jobs)

Record(j) ==
  /\ record' = Append(record, j)
  /\ \A x \in Jobs \ {j} : client'[x] = client[x] /\ content'[x] = content[x]

Create(j) == client[j] = Nobody /\ client'[j] # Nobody /\ Record(j)

Work(j) == client[j] # Nobody /\ client'[j] = client[j] /\ Record(j)

Next == \E j \in Jobs : Create(j) \/ Work(j)

Spec == Init /\ [][Next]_workflow
=============================================================================

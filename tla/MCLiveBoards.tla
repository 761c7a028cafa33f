---------------------------- MODULE MCLiveBoards ----------------------------
(* Instances of LiveBoards for TLC.                                         *)
EXTENDS LiveBoards

CONSTANTS a1, t1, t2, c1, j1, b1, tm1

\* Requests that differ only in what a list does not tell apart are left out: with
\* a single time an assignment leaves the time of the job; technicians move jobs;
\* visitors write notes, the technician internal ones, and the first request may
\* upload.  No property relates the two lists: the notifications are fetched first.
Telling ==
  /\ \A r \in Requests :
       /\ loc'[r].time = NoOne
       /\ pc'[r] = "status" => loc'[r].actor \in Technicians
       /\ pc'[r] \in {"note", "store"} => loc'[r].actor \in Visitors
       /\ pc'[r] = "note" => (loc'[r].actor \in Technicians <=> loc'[r].internal)
       /\ pc'[r] = "store" => r = 1
  /\ \A b \in Browsers :
       Fetch(b, "jobs") \/ Ask(b, "jobs") \/ Receive(b, "jobs") =>
         /\ coming[b]["notifications"] = NoAnswer
         /\ Active(b, "notifications") => b \in spent
=============================================================================

------------------------------- MODULE MCJobs -------------------------------
(* Instances of Jobs for TLC.                                               *)
EXTENDS Jobs, TLC

CONSTANTS a1, t1, t2, c1, j1, j2, tm1, r1, r2, r3, r4

\* On a seeded database, where no request is spent on making a job, one is left
\* out.
OneLessWhenSeeded ==
  (\E j \in JobIds : seeded[j] # NoJob) => \E r \in Requests : pc[r] = "idle"

RequestSymmetry ==
  Permutations(Requests) \cup Permutations(Technicians) \cup Permutations(JobIds)
=============================================================================

---------------------------- MODULE SessionLedger ----------------------------
(***************************************************************************)
(* What the session store promises, whatever handlers are in flight: an id *)
(* is issued once, to one user, and closed for good; a session is          *)
(* exchanged for a new one of the same user; and a step closes sessions of *)
(* one user only.  AuthSessions implements it.                             *)
(***************************************************************************)
CONSTANTS Ids, Users, NoOne

VARIABLES
  owner,    \* owner[s]: the user s was issued to, NoOne before that
  open      \* the sessions that can still be exchanged

ledger == <<owner, open>>

Init == owner = [s \in Ids |-> NoOne] /\ open = {}

Issue(s, u) ==
  /\ owner[s] = NoOne
  /\ owner' = [owner EXCEPT ![s] = u]
  /\ open' = open \cup {s}

\* The old session need not be open any more: two exchanges of one session
\* may overlap, and both succeed.
Exchange(old, s) ==
  /\ owner[old] # NoOne
  /\ owner[s] = NoOne
  /\ owner' = [owner EXCEPT ![s] = owner[old]]
  /\ open' = (open \ {old}) \cup {s}

Close(u, rows) ==
  /\ \A s \in rows : owner[s] = u
  /\ open' = open \ rows
  /\ owner' = owner

Next ==
  \/ \E s \in Ids, u \in Users : Issue(s, u)
  \/ \E old, s \in Ids : Exchange(old, s)
  \/ \E u \in Users : \E rows \in SUBSET open : Close(u, rows)

Spec == Init /\ [][Next]_ledger
=============================================================================

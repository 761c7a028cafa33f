--------------------------- MODULE MCAuthSessions ---------------------------
(* Instances of AuthSessions for TLC: which requests arrive, and where.     *)
EXTENDS AuthSessions, TLC

CONSTANTS ann, bob,                     \* users
          l1, l2, f1, f2, o1, p1, s1, s2   \* requests

\* Logins of one or two users, refreshes that race on one token or reuse it,
\* and a logout.
RotationRequests == {l1, l2, f1, f2, o1}
\* A login, a refresh that may reuse a token, and two resets by mail.
ResetRequests == {l1, f1, p1, s1, s2}

EndpointOf(r) ==
  CASE r \in {l1, l2} -> "login"
    [] r \in {f1, f2} -> "refresh"
    [] r = o1 -> "logout"
    [] r = p1 -> "forgot"
    [] r \in {s1, s2} -> "reset"

RotationEndpoint == [r \in RotationRequests |-> EndpointOf(r)]
ResetEndpoint == [r \in ResetRequests |-> EndpointOf(r)]

RotationSymmetry ==
  Permutations({l1, l2}) \cup Permutations({f1, f2}) \cup Permutations({ann, bob})
=============================================================================

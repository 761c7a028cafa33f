-------------------------- MODULE EmailVerification -------------------------
(***************************************************************************)
(* POST /auth/email-verification/request behind the limiter of RateLimit,  *)
(* and POST /auth/email-verification/verify (auth.service.ts), which       *)
(* nothing limits and which writes the user, the token and the audit log   *)
(* one after the other.  A token is named by the call that made it; mail   *)
(* is an outbox event, which reaches its reader at some time or never.     *)
(***************************************************************************)
EXTENDS RateLimit

CONSTANTS
  Users,
  UserOf,       \* UserOf[c]: the user whose access token call c carries
  Verifies,     \* calls of /email-verification/verify
  NoOne,
  TokenTTL      \* life of a verification token, in ticks

ASSUME VerifyAssumption ==
  UserOf \in [Calls -> Users] /\ TokenTTL \in Nat \ {0} /\ NoOne \notin Users \cup Calls

VARIABLES
  verified,     \* users with emailVerifiedAt
  token,        \* table EmailVerificationToken
  outbox,       \* tokens whose EMAIL_VERIFICATION_REQUESTED event is recorded
  audit,        \* verifies with an AUTH_EMAIL_VERIFIED record
  at,           \* at[v]: where the handler of v is
  using,        \* using[v]: the token v looked up
  during,       \* history: verifies that were running when v looked up
  halfway       \* history: verifies that failed after their first write

verification == <<verified, token, outbox, audit, at, using, during, halfway>>
allVars == <<limiter, verification>>

NoToken == [user |-> NoOne, expiresAt |-> 0, used |-> FALSE]
Usable(t) == t \in outbox /\ ~token[t].used /\ now < token[t].expiresAt
Running(v) == at[v] \in {"verify", "use", "audit"}

At(v, label) == at' = [at EXCEPT ![v] = label]

\* Seeded fault: the event is recorded outside the transaction.
RequestToken_EventOutside(c) ==
  /\ step[c] = "passed"
  /\ \/ /\ token' = [token EXCEPT ![c] = [user |-> UserOf[c], expiresAt |-> now + TokenTTL,
                                         used |-> FALSE]]
        /\ faults' = faults
     \/ Fault /\ UNCHANGED token
  /\ outbox' = outbox \cup {c}
  /\ To(c, "served")
  /\ UNCHANGED <<redis, now, seen, epoch, counted, unchecked, broken>>
  /\ UNCHANGED <<verified, audit, at, using, during, halfway>>

\* requestEmailVerification: one transaction with the token, its event and an
\* audit record, or none of them.
RequestToken(c) ==
  /\ step[c] = "passed"
  /\ \/ /\ token' = [token EXCEPT ![c] = [user |-> UserOf[c], expiresAt |-> now + TokenTTL,
                                         used |-> FALSE]]
        /\ outbox' = outbox \cup {c}
        /\ faults' = faults
     \/ Fault /\ UNCHANGED <<token, outbox>>
  /\ To(c, "served")
  /\ UNCHANGED <<redis, now, seen, epoch, counted, unchecked, broken>>
  /\ UNCHANGED <<verified, audit, at, using, during, halfway>>

\* Seeded fault: a used token is not turned down.
VerifyLookup_Used(v, t) ==
  /\ at[v] = "idle"
  /\ t \in outbox /\ now < token[t].expiresAt
  /\ using' = [using EXCEPT ![v] = t]
  /\ during' = [during EXCEPT ![v] = {w \in Verifies : Running(w)}]
  /\ At(v, "verify")
  /\ UNCHANGED <<limiter, verified, token, outbox, audit, halfway>>

VerifyLookup(v, t) ==
  /\ at[v] = "idle"
  /\ Usable(t)
  /\ using' = [using EXCEPT ![v] = t]
  /\ during' = [during EXCEPT ![v] = {w \in Verifies : Running(w)}]
  /\ At(v, "verify")
  /\ UNCHANGED <<limiter, verified, token, outbox, audit, halfway>>

\* Unknown, used or expired.
VerifyRejected(v) ==
  /\ at[v] = "idle"
  /\ At(v, "rejected")
  /\ UNCHANGED <<limiter, verified, token, outbox, audit, using, during, halfway>>

\* Seeded fault: the update of the user is not awaited.
MarkVerified_NotAwaited(v) ==
  /\ at[v] = "verify"
  /\ verified' \in {verified, verified \cup {token[using[v]].user}}
  /\ At(v, "use")
  /\ UNCHANGED <<limiter, token, outbox, audit, using, during, halfway>>

MarkVerified(v) ==
  /\ at[v] = "verify"
  /\ verified' = verified \cup {token[using[v]].user}
  /\ At(v, "use")
  /\ UNCHANGED <<limiter, token, outbox, audit, using, during, halfway>>

\* Seeded fault: no audit record follows.
MarkUsed_Last(v) ==
  /\ at[v] = "use"
  /\ token' = [token EXCEPT ![using[v]].used = TRUE]
  /\ At(v, "ok")
  /\ UNCHANGED <<limiter, verified, outbox, audit, using, during, halfway>>

\* By id, used or not.
MarkUsed(v) ==
  /\ at[v] = "use"
  /\ token' = [token EXCEPT ![using[v]].used = TRUE]
  /\ At(v, "audit")
  /\ UNCHANGED <<limiter, verified, outbox, audit, using, during, halfway>>

AuditVerified(v) ==
  /\ at[v] = "audit"
  /\ audit' = audit \cup {v}
  /\ At(v, "ok")
  /\ UNCHANGED <<limiter, verified, token, outbox, using, during, halfway>>

\* A write fails or the process dies: what was written stays.
VerifyFails(v) ==
  /\ Running(v)
  /\ Fault
  /\ halfway' = IF at[v] = "verify" THEN halfway ELSE halfway \cup {v}
  /\ At(v, "error")
  /\ UNCHANGED <<redis, now, step, seen, epoch, counted, unchecked, broken>>
  /\ UNCHANGED <<verified, token, outbox, audit, using, during>>

Init ==
  /\ LimiterInit
  /\ verified = {} /\ outbox = {} /\ audit = {} /\ halfway = {}
  /\ token = [c \in Calls |-> NoToken]
  /\ at = [v \in Verifies |-> "idle"]
  /\ using = [v \in Verifies |-> NoOne]
  /\ during = [v \in Verifies |-> {}]

Verify(v) ==
  \/ VerifyRejected(v) \/ \E t \in Calls : VerifyLookup(v, t)
  \/ MarkVerified(v) \/ MarkUsed(v) \/ AuditVerified(v) \/ VerifyFails(v)

Next ==
  \/ \E c \in Calls : (Limit(c) /\ UNCHANGED verification) \/ RequestToken(c)
  \/ \E v \in Verifies : Verify(v)
  \/ Elapse /\ UNCHANGED verification

Spec == Init /\ [][Next]_allVars

-----------------------------------------------------------------------------
(* Properties *)

TokenRow == [user : Users \cup {NoOne}, expiresAt : Nat, used : BOOLEAN]

\* Counters, tokens and handlers keep their types.
TypeOK ==
  /\ LimiterTypeOK
  /\ verified \subseteq Users /\ outbox \subseteq Calls
  /\ audit \subseteq Verifies /\ halfway \subseteq Verifies
  /\ token \in [Calls -> TokenRow]
  /\ at \in [Verifies -> {"idle", "verify", "use", "audit", "ok", "rejected", "error"}]
  /\ using \in [Verifies -> Calls \cup {NoOne}]
  /\ during \in [Verifies -> SUBSET Verifies]
  /\ \A t \in Calls : t \in outbox <=> token[t].user # NoOne

\* A link is spent only when it has done its work: the user of a used token is
\* verified, wherever the three writes of a handler were cut.
UsedMeansVerified ==
  \A t \in Calls : token[t].used => token[t].user \in verified

\* docs/07:16 says of both workflows "Tokens are single-use."  The code does not
\* meet this: the lookup tests usedAt, MarkUsed does not.  No run checks it as an
\* invariant, two overlapping verifications violate it (README, section 6).
TokenSingleUse ==
  \A v, w \in Verifies :
    at[v] = "ok" /\ at[w] = "ok" /\ using[v] = using[w] => v = w

\* What is left of it: two verifications succeed with one token only when the
\* second looked the token up while the first was running.
TokenReuseExplained ==
  \A v, w \in Verifies :
    at[v] = "ok" /\ at[w] = "ok" /\ v # w /\ using[v] = using[w] =>
      v \in during[w] \/ w \in during[v]

\* A verified address has its audit record, unless a handler is on its way to
\* write it or failed before it could.
VerificationAudited ==
  \A u \in verified :
    \E v \in Verifies :
      /\ using[v] # NoOne /\ token[using[v]].user = u
      /\ v \in audit \cup halfway \/ at[v] \in {"use", "audit"}

=============================================================================

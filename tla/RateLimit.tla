----------------------------- MODULE RateLimit ------------------------------
(***************************************************************************)
(* The fixed-window limiter of src/backend/src/middleware/rate-limit.ts:   *)
(* three commands to Redis (INCR, PEXPIRE for the first call of a window,  *)
(* PTTL), sent one after the other by every call.  Any of them can fail,   *)
(* the process can die between them, and the client of Redis sends a       *)
(* command again when the connection broke under it.                       *)
(***************************************************************************)
EXTENDS Naturals, FiniteSets

CONSTANTS
  Calls,        \* calls of limited endpoints
  Keys,         \* addresses calls are counted by
  KeyOf,        \* KeyOf[c]: req.ip of call c
  Max,          \* calls per window
  Window,       \* length of a window, in ticks
  Setting,      \* RATE_LIMIT_FAIL_OPEN, the text of the variable
  MaxTime,      \* bound on the clock
  MaxFaults     \* bound on failures

ASSUME KeyAssumption == KeyOf \in [Calls -> Keys]
ASSUME LimitAssumption ==
  Max \in Nat \ {0} /\ Window \in Nat \ {0} /\ MaxTime \in Nat /\ MaxFaults \in Nat

VARIABLES
  count,        \* count[k]: the counter, 0 when there is none
  until,        \* until[k]: when it expires, 0 when it never does
  now, faults,
  step,         \* step[c]: the command call c sends next, or how it ended
  seen,         \* seen[c]: what INCR answered
  epoch,        \* history: epoch[k]: how many counters expired
  counted,      \* history: counted[c]: the epoch c was counted in
  unchecked,    \* history: calls let through because the limiter failed
  broken        \* history: keys whose first call did not get to PEXPIRE

redis == <<count, until>>
limiter == <<redis, now, faults, step, seen, epoch, counted, unchecked, broken>>

\* z.coerce.boolean() makes any text but the empty one true, "false" too.
FailOpen == Setting # ""

To(c, label) == step' = [step EXCEPT ![c] = label]
Fault == faults < MaxFaults /\ faults' = faults + 1

\* c is counted n times and reads what the counter is then.
CountTimes(c, n) ==
  /\ count' = [count EXCEPT ![KeyOf[c]] = @ + n]
  /\ seen' = [seen EXCEPT ![c] = count[KeyOf[c]] + n]
  /\ counted' = [counted EXCEPT ![c] = epoch[KeyOf[c]]]

\* Seeded fault: the window starts with the call that fills it.
Incr_StartsLate(c) ==
  /\ step[c] = "incr"
  /\ CountTimes(c, 1)
  /\ To(c, IF count[KeyOf[c]] + 1 = Max THEN "pexpire" ELSE "pttl")
  /\ UNCHANGED <<until, now, faults, epoch, unchecked, broken>>

Incr(c) ==
  /\ step[c] = "incr"
  /\ CountTimes(c, 1)
  /\ To(c, IF count[KeyOf[c]] + 1 = 1 THEN "pexpire" ELSE "pttl")
  /\ UNCHANGED <<until, now, faults, epoch, unchecked, broken>>

\* INCR is sent again after the connection broke: the first call of a window
\* reads 2 and sets no expiry.
IncrResent(c) ==
  /\ step[c] = "incr"
  /\ Fault
  /\ CountTimes(c, 2)
  /\ broken' = broken \cup {k \in {KeyOf[c]} : count[k] = 0}
  /\ To(c, "pttl")
  /\ UNCHANGED <<until, now, epoch, unchecked>>

PExpire(c) ==
  /\ step[c] = "pexpire"
  /\ until' = [until EXCEPT ![KeyOf[c]] = now + Window]
  /\ To(c, "pttl")
  /\ UNCHANGED <<count, now, faults, seen, epoch, counted, unchecked, broken>>

\* Seeded fault: one call too many passes.
PTtl_OffByOne(c) ==
  /\ step[c] = "pttl"
  /\ To(c, IF seen[c] > Max + 1 THEN "blocked" ELSE "passed")
  /\ UNCHANGED <<redis, now, faults, seen, epoch, counted, unchecked, broken>>

\* PTTL only fills the headers; the decision is on what INCR answered.
PTtl(c) ==
  /\ step[c] = "pttl"
  /\ To(c, IF seen[c] > Max THEN "blocked" ELSE "passed")
  /\ UNCHANGED <<redis, now, faults, seen, epoch, counted, unchecked, broken>>

\* The catch clause.
GiveUp(c) ==
  /\ To(c, IF FailOpen THEN "passed" ELSE "unavailable")
  /\ unchecked' = IF FailOpen THEN unchecked \cup {c} ELSE unchecked

\* A command fails, whether Redis has executed it or not.
CommandFails(c) ==
  /\ Fault
  /\ \/ /\ step[c] = "incr"
        /\ \/ UNCHANGED <<count, seen, counted, broken>>
           \/ /\ CountTimes(c, 1)
              /\ broken' = broken \cup {k \in {KeyOf[c]} : count[k] = 0}
        /\ until' = until
     \/ /\ step[c] = "pexpire"
        /\ \/ until' = until /\ broken' = broken \cup {KeyOf[c]}
           \/ until' = [until EXCEPT ![KeyOf[c]] = now + Window] /\ broken' = broken
        /\ UNCHANGED <<count, seen, counted>>
     \/ step[c] = "pttl" /\ UNCHANGED <<redis, seen, counted, broken>>
  /\ GiveUp(c)
  /\ UNCHANGED <<now, epoch>>

\* The process dies between two commands.
LimiterDies(c) ==
  /\ step[c] \in {"pexpire", "pttl"}
  /\ Fault
  /\ broken' = IF step[c] = "pexpire" THEN broken \cup {KeyOf[c]} ELSE broken
  /\ To(c, "dead")
  /\ UNCHANGED <<redis, now, seen, epoch, counted, unchecked>>

\* Time passes; counters expire.
Elapse ==
  LET ending == {k \in Keys : until[k] = now + 1}
  IN  /\ now < MaxTime
      /\ now' = now + 1
      /\ count' = [k \in Keys |-> IF k \in ending THEN 0 ELSE count[k]]
      /\ until' = [k \in Keys |-> IF k \in ending THEN 0 ELSE until[k]]
      /\ epoch' = [k \in Keys |-> IF k \in ending THEN epoch[k] + 1 ELSE epoch[k]]
      /\ UNCHANGED <<faults, step, seen, counted, unchecked, broken>>

LimiterInit ==
  /\ count = [k \in Keys |-> 0]
  /\ until = [k \in Keys |-> 0]
  /\ now = 0 /\ faults = 0
  /\ step = [c \in Calls |-> "incr"]
  /\ seen = [c \in Calls |-> 0]
  /\ epoch = [k \in Keys |-> 0]
  /\ counted = [c \in Calls |-> 0]
  /\ unchecked = {} /\ broken = {}

Limit(c) ==
  \/ Incr(c) \/ IncrResent(c) \/ PExpire(c) \/ PTtl(c)
  \/ CommandFails(c) \/ LimiterDies(c)

-----------------------------------------------------------------------------
(* Properties *)

\* Counters, the clock and calls keep their types.
LimiterTypeOK ==
  /\ count \in [Keys -> Nat] /\ until \in [Keys -> Nat] /\ epoch \in [Keys -> Nat]
  /\ now \in 0 .. MaxTime /\ faults \in 0 .. MaxFaults
  /\ step \in [Calls -> {"incr", "pexpire", "pttl", "passed", "blocked", "unavailable",
                         "dead", "served"}]
  /\ seen \in [Calls -> Nat] /\ counted \in [Calls -> Nat]
  /\ unchecked \subseteq Calls /\ broken \subseteq Keys

LetThrough(k, e) ==
  {c \in Calls \ unchecked :
     KeyOf[c] = k /\ counted[c] = e /\ step[c] \in {"passed", "served"}}

\* However calls interleave, a window lets through at most Max of them, and
\* those whose commands failed.
WithinLimit ==
  \A k \in Keys, e \in 0 .. MaxTime : Cardinality(LetThrough(k, e)) <= Max

\* A counter that never expires, and so blocks its address for good, is waiting
\* for the PEXPIRE of its first call, or that call was cut short.
EndlessCountersExplained ==
  \A k \in Keys :
    count[k] > 0 /\ until[k] = 0 =>
      k \in broken \/ \E c \in Calls : KeyOf[c] = k /\ step[c] = "pexpire"

=============================================================================

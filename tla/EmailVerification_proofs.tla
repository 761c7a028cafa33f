---------------------- MODULE EmailVerification_proofs ----------------------
(***************************************************************************)
(* Proofs of the safety properties of EmailVerification and of the limiter *)
(* it stands behind, for every set of calls, verifications and users and   *)
(* every limit.  The invariant is IInv; a limiter step, a step of the      *)
(* clock, a request for a token and each step of a verification preserve   *)
(* its parts in turn.                                                      *)
(***************************************************************************)
EXTENDS EmailVerification, FiniteSetTheorems, TLAPS

Steps == {"incr", "pexpire", "pttl", "passed", "blocked", "unavailable", "dead", "served"}

-----------------------------------------------------------------------------
(* What WithinLimit is proved from *)

Counted(c) == c \notin unchecked /\ step[c] \in {"pexpire", "pttl", "passed", "served"}

\* What INCR answered is a number up to the counter, while that lives, and up
\* to Max for a call that passed.
CountedOK(c) ==
  Counted(c) =>
    /\ seen[c] > 0
    /\ counted[c] <= epoch[KeyOf[c]]
    /\ counted[c] = epoch[KeyOf[c]] => seen[c] <= count[KeyOf[c]]
    /\ step[c] \in {"passed", "served"} => seen[c] <= Max

\* No two calls of one window got the same number.
RanksDiffer ==
  \A c, d \in Calls :
    /\ Counted(c) /\ Counted(d)
    /\ KeyOf[c] = KeyOf[d] /\ counted[c] = counted[d] /\ seen[c] = seen[d]
    => c = d

CountingInv == RanksDiffer /\ \A c \in Calls : CountedOK(c)

-----------------------------------------------------------------------------
(* The inductive invariant of the verification *)

Looked(v) == at[v] \in {"verify", "use", "audit", "ok"}

\* A recorded token is of a call that was served; a handler has a recorded
\* token once it looked one up, and has written nothing before.
LinkOK ==
  /\ \A c \in outbox : step[c] = "served"
  /\ \A v \in Verifies : using[v] # NoOne => using[v] \in outbox
  /\ \A v \in Verifies : Looked(v) => using[v] # NoOne
  /\ \A v \in Verifies : at[v] = "idle" => v \notin audit \cup halfway

\* What a handler wrote before each await.
WrittenOK ==
  \A v \in Verifies :
    /\ at[v] = "use" => token[using[v]].user \in verified
    /\ at[v] \in {"audit", "ok"} => token[using[v]].used

\* Two handlers with one token overlap.
SharersOverlap ==
  \A v, w \in Verifies :
    Looked(v) /\ Looked(w) /\ v # w /\ using[v] = using[w] =>
      v \in during[w] \/ w \in during[v]

\* The inductive invariant.
IInv ==
  /\ TypeOK
  /\ CountingInv
  /\ EndlessCountersExplained
  /\ LinkOK
  /\ WrittenOK
  /\ UsedMeansVerified
  /\ SharersOverlap
  /\ VerificationAudited

-----------------------------------------------------------------------------
(* The limiter *)

\* A command to Redis, a failing one or a death in between keeps the types.
LEMMA LimitTypes ==
  ASSUME LimiterTypeOK, NEW c \in Calls, Limit(c)
  PROVE  LimiterTypeOK'
<1>k. KeyOf[c] \in Keys
  BY KeyAssumption
<1>0. MaxFaults \in Nat /\ Window \in Nat /\ MaxTime \in Nat
  BY LimitAssumption
<1>f. Fault => faults' \in 0 .. MaxFaults
  BY <1>0 DEF Fault, LimiterTypeOK
<1>s. \A l \in Steps : To(c, l) => step' \in [Calls -> Steps]
  BY DEF To, LimiterTypeOK, Steps
<1>n. \A n \in {1, 2} : CountTimes(c, n) =>
        /\ count' \in [Keys -> Nat] /\ seen' \in [Calls -> Nat] /\ counted' \in [Calls -> Nat]
  BY <1>k DEF CountTimes, LimiterTypeOK
<1>1. CASE Incr(c)
  <2>1. To(c, "pexpire") \/ To(c, "pttl")
    BY <1>1 DEF Incr
  <2>2. step' \in [Calls -> Steps]
    BY <2>1, <1>s DEF Steps
  <2> QED BY <1>1, <1>n, <2>2 DEF Incr, LimiterTypeOK, Steps
<1>2. CASE IncrResent(c)
  <2>1. step' \in [Calls -> Steps]
    BY <1>2, <1>s DEF Steps, IncrResent
  <2>2. broken' \subseteq Keys
    BY <1>2, <1>k DEF IncrResent, LimiterTypeOK
  <2> QED BY <1>2, <1>n, <1>f, <2>1, <2>2 DEF IncrResent, LimiterTypeOK, Steps
<1>3. CASE PExpire(c)
  <2>1. step' \in [Calls -> Steps]
    BY <1>3, <1>s DEF Steps, PExpire
  <2>2. until' \in [Keys -> Nat]
    BY <1>3, <1>0, <1>k DEF PExpire, LimiterTypeOK
  <2> QED BY <1>3, <2>1, <2>2 DEF PExpire, LimiterTypeOK, Steps
<1>4. CASE PTtl(c)
  <2>1. To(c, "blocked") \/ To(c, "passed")
    BY <1>4 DEF PTtl
  <2>2. step' \in [Calls -> Steps]
    BY <2>1, <1>s DEF Steps
  <2> QED BY <1>4, <2>2 DEF PTtl, LimiterTypeOK, Steps, redis
<1>5. CASE CommandFails(c)
  <2>1. To(c, "passed") \/ To(c, "unavailable")
    BY <1>5 DEF CommandFails, GiveUp
  <2>2. step' \in [Calls -> Steps]
    BY <2>1, <1>s DEF Steps
  <2>3. unchecked' \subseteq Calls
    BY <1>5 DEF CommandFails, GiveUp, LimiterTypeOK
  <2>4. /\ count' \in [Keys -> Nat] /\ seen' \in [Calls -> Nat] /\ counted' \in [Calls -> Nat]
        /\ until' \in [Keys -> Nat] /\ broken' \subseteq Keys
    <3>1. CASE /\ UNCHANGED <<count, seen, counted, broken>> /\ until' = until
      BY <3>1 DEF LimiterTypeOK
    <3>2. CASE /\ CountTimes(c, 1) /\ broken' = broken \cup {k \in {KeyOf[c]} : count[k] = 0}
               /\ until' = until
      BY <3>2, <1>n, <1>k DEF LimiterTypeOK
    <3>3. CASE /\ until' = until /\ broken' = broken \cup {KeyOf[c]}
               /\ UNCHANGED <<count, seen, counted>>
      BY <3>3, <1>k DEF LimiterTypeOK
    <3>4. CASE /\ until' = [until EXCEPT ![KeyOf[c]] = now + Window] /\ broken' = broken
               /\ UNCHANGED <<count, seen, counted>>
      BY <3>4, <1>k, <1>0 DEF LimiterTypeOK
    <3> QED BY <1>5, <3>1, <3>2, <3>3, <3>4 DEF CommandFails, redis
  <2> QED BY <1>5, <1>f, <2>2, <2>3, <2>4 DEF CommandFails, LimiterTypeOK, Steps
<1>6. CASE LimiterDies(c)
  <2>1. step' \in [Calls -> Steps]
    BY <1>6, <1>s DEF Steps, LimiterDies
  <2>2. broken' \subseteq Keys
    BY <1>6, <1>k DEF LimiterDies, LimiterTypeOK
  <2> QED BY <1>6, <1>f, <2>1, <2>2 DEF LimiterDies, LimiterTypeOK, Steps, redis
<1> QED BY <1>1, <1>2, <1>3, <1>4, <1>5, <1>6 DEF Limit

\* So does the clock.
LEMMA ElapseTypes ==
  ASSUME LimiterTypeOK, Elapse
  PROVE  LimiterTypeOK'
BY LimitAssumption DEF LimiterTypeOK, Elapse

\* A counter without expiry stays explained.
LEMMA LimitEndless ==
  ASSUME LimiterTypeOK, EndlessCountersExplained, NEW c \in Calls, Limit(c)
  PROVE  EndlessCountersExplained'
<1> SUFFICES ASSUME NEW k \in Keys, count'[k] > 0, until'[k] = 0
             PROVE  k \in broken' \/ \E d \in Calls : KeyOf[d] = k /\ step'[d] = "pexpire"
  BY DEF EndlessCountersExplained
<1>k. KeyOf[c] \in Keys
  BY KeyAssumption
<1>t. /\ count \in [Keys -> Nat] /\ until \in [Keys -> Nat] /\ step \in [Calls -> Steps]
      /\ now \in Nat /\ Window \in Nat \ {0}
  BY LimitAssumption DEF LimiterTypeOK, Steps
<1>w. broken \subseteq broken'
  BY DEF Limit, Incr, IncrResent, PExpire, PTtl, CommandFails, LimiterDies
<1>o. ASSUME NEW d \in Calls, d # c PROVE step'[d] = step[d]
  BY <1>t, <1>o DEF Limit, Incr, IncrResent, PExpire, PTtl, CommandFails, LimiterDies, To, GiveUp
<1>1. CASE count[k] > 0 /\ until[k] = 0
  <2>1. CASE k \in broken
    BY <2>1, <1>w
  <2>2. CASE k \notin broken
    <3>1. PICK d \in Calls : KeyOf[d] = k /\ step[d] = "pexpire"
      BY <1>1, <2>2 DEF EndlessCountersExplained
    <3>2. CASE d # c
      BY <3>1, <3>2, <1>o
    <3>3. CASE d = c
      <4>1. PExpire(c) \/ CommandFails(c) \/ LimiterDies(c)
        BY <3>1, <3>3 DEF Limit, Incr, IncrResent, PTtl
      <4>2. CASE PExpire(c)
        BY <4>2, <3>1, <3>3, <1>t DEF PExpire
      <4>3. CASE CommandFails(c)
        BY <4>3, <3>1, <3>3, <1>t DEF CommandFails
      <4>4. CASE LimiterDies(c)
        BY <4>4, <3>1, <3>3 DEF LimiterDies
      <4> QED BY <4>1, <4>2, <4>3, <4>4
    <3> QED BY <3>2, <3>3
  <2> QED BY <2>1, <2>2
<1>2. CASE ~(count[k] > 0 /\ until[k] = 0)
  <2>1. until[k] = 0
    BY <1>t, <1>k DEF Limit, Incr, IncrResent, PExpire, PTtl, CommandFails, LimiterDies, redis
  <2>2. count[k] = 0
    BY <1>2, <2>1, <1>t
  <2>3. k = KeyOf[c]
    BY <2>2, <1>t, <1>k DEF Limit, Incr, IncrResent, PExpire, PTtl, CommandFails, LimiterDies,
                              CountTimes, redis
  <2>4. CASE Incr(c)
    <3>1. step'[c] = "pexpire"
      BY <2>4, <2>2, <2>3, <1>t DEF Incr, To
    <3> QED BY <3>1, <2>3
  <2>5. CASE IncrResent(c)
    BY <2>5, <2>2, <2>3 DEF IncrResent
  <2>6. CASE CommandFails(c)
    BY <2>6, <2>2, <2>3, <1>t DEF CommandFails, redis
  <2> QED BY <2>2, <2>4, <2>5, <2>6, <1>t
          DEF Limit, PExpire, PTtl, LimiterDies, redis
<1> QED BY <1>1, <1>2

\* A counter that expires is gone.
LEMMA ElapseEndless ==
  ASSUME LimiterTypeOK, EndlessCountersExplained, Elapse
  PROVE  EndlessCountersExplained'
BY DEF EndlessCountersExplained, LimiterTypeOK, Elapse

-----------------------------------------------------------------------------
(* The limit *)

\* No call but c is touched by a limiter step of c.
LEMMA LimitOthers ==
  ASSUME LimiterTypeOK, NEW c \in Calls, Limit(c), NEW d \in Calls, d # c
  PROVE  /\ step'[d] = step[d] /\ seen'[d] = seen[d] /\ counted'[d] = counted[d]
         /\ d \in unchecked' <=> d \in unchecked
         /\ epoch' = epoch
BY DEF LimiterTypeOK, Limit, Incr, IncrResent, PExpire, PTtl, CommandFails, LimiterDies, To,
       GiveUp, CountTimes, redis

\* A limiter step of c only adds to counters.
LEMMA LimitCounts ==
  ASSUME LimiterTypeOK, NEW c \in Calls, Limit(c), NEW k \in Keys
  PROVE  count'[k] >= count[k]
<1>1. count \in [Keys -> Nat] /\ KeyOf[c] \in Keys
  BY KeyAssumption DEF LimiterTypeOK
<1> QED
  BY <1>1 DEF Limit, Incr, IncrResent, PExpire, PTtl, CommandFails, LimiterDies,
              CountTimes, redis

\* A call that is counted after its step was counted by it, or before it.
LEMMA LimitCounted ==
  ASSUME LimiterTypeOK, NEW c \in Calls, Limit(c), Counted(c)'
  PROVE  \/ /\ \E n \in {1, 2} : CountTimes(c, n)
            /\ step'[c] \notin {"passed", "served"}
         \/ /\ Counted(c)
            /\ UNCHANGED <<count, seen, counted>>
            /\ step'[c] \in {"passed", "served"} => seen[c] <= Max
<1>t. step \in [Calls -> Steps]
  BY DEF LimiterTypeOK, Steps
<1>1. CASE Incr(c)
  BY <1>1, <1>t DEF Incr, To
<1>2. CASE IncrResent(c)
  BY <1>2, <1>t DEF IncrResent, To
<1>3. CASE PExpire(c)
  BY <1>3, <1>t DEF PExpire, To, Counted
<1>4. CASE PTtl(c)
  BY <1>4, <1>t, LimitAssumption DEF PTtl, To, Counted, redis, LimiterTypeOK
<1>5. CASE CommandFails(c)
  BY <1>5, <1>t DEF CommandFails, GiveUp, To, Counted
<1>6. CASE LimiterDies(c)
  BY <1>6, <1>t DEF LimiterDies, To, Counted
<1> QED
  BY <1>1, <1>2, <1>3, <1>4, <1>5, <1>6 DEF Limit

\* Each number is given once in a window, and to a call that passes one that
\* the limit admits.
LEMMA LimitRanks ==
  ASSUME LimiterTypeOK, CountingInv, NEW c \in Calls, Limit(c)
  PROVE  CountingInv'
<1>k. \A d \in Calls : KeyOf[d] \in Keys
  BY KeyAssumption
<1>t. /\ count \in [Keys -> Nat] /\ count' \in [Keys -> Nat] /\ epoch \in [Keys -> Nat]
      /\ seen \in [Calls -> Nat] /\ counted \in [Calls -> Nat]
  BY LimitTypes DEF LimiterTypeOK
<1>e. epoch' = epoch
  BY DEF Limit, Incr, IncrResent, PExpire, PTtl, CommandFails, LimiterDies, redis
<1>1. ASSUME NEW d \in Calls, d # c
      PROVE  /\ CountedOK(d)'
             /\ Counted(d)' => Counted(d)
             /\ seen'[d] = seen[d] /\ counted'[d] = counted[d]
  <2>1. /\ step'[d] = step[d] /\ seen'[d] = seen[d] /\ counted'[d] = counted[d]
        /\ d \in unchecked' <=> d \in unchecked
    BY <1>1, LimitOthers
  <2>2. Counted(d)' <=> Counted(d)
    BY <2>1 DEF Counted
  <2>3. count'[KeyOf[d]] >= count[KeyOf[d]] /\ CountedOK(d)
    BY <1>k, LimitCounts DEF CountingInv
  <2>4. count[KeyOf[d]] \in Nat /\ count'[KeyOf[d]] \in Nat /\ seen[d] \in Nat
    BY <1>k, <1>t
  <2> QED
    BY <2>1, <2>2, <2>3, <2>4, <1>e DEF CountedOK
<1>2. CASE ~Counted(c)'
  BY <1>1, <1>2 DEF CountingInv, RanksDiffer, CountedOK
<1>3. CASE Counted(c)' /\ Counted(c) /\ UNCHANGED <<count, seen, counted>>
             /\ (step'[c] \in {"passed", "served"} => seen[c] <= Max)
  <2>1. CountedOK(c)'
    BY <1>3, <1>e DEF CountingInv, CountedOK
  <2> QED
    BY <1>1, <1>3, <2>1 DEF CountingInv, RanksDiffer
<1>4. ASSUME Counted(c)', NEW n \in {1, 2}, CountTimes(c, n),
             step'[c] \notin {"passed", "served"}
      PROVE  CountingInv'
  <2> DEFINE k == KeyOf[c]
  <2>1. /\ k \in Keys /\ count[k] \in Nat /\ epoch[k] \in Nat
        /\ count'[k] = count[k] + n /\ seen'[c] = count[k] + n /\ counted'[c] = epoch[k]
    BY <1>4, <1>k, <1>t DEF CountTimes
  <2>2. CountedOK(c)'
    BY <1>4, <2>1, <1>e DEF CountedOK
  <2>3. ASSUME NEW d \in Calls, d # c, Counted(d), KeyOf[d] = k, counted[d] = epoch[k]
        PROVE  seen'[d] # seen'[c]
    <3>1. seen[d] <= count[k] /\ seen[d] \in Nat
      BY <2>3, <1>t DEF CountingInv, CountedOK
    <3> QED BY <3>1, <2>1, <2>3, <1>1
  <2> HIDE DEF k
  <2>4. RanksDiffer'
    <3> SUFFICES ASSUME NEW x \in Calls, NEW y \in Calls, Counted(x)', Counted(y)',
                        KeyOf[x] = KeyOf[y], counted'[x] = counted'[y], seen'[x] = seen'[y],
                        x # y
                 PROVE  FALSE
      BY DEF RanksDiffer
    <3>1. CASE x # c /\ y # c
      BY <3>1, <1>1 DEF CountingInv, RanksDiffer
    <3>2. CASE x = c
      BY <3>2, <1>1, <2>1, <2>3 DEF k
    <3>3. CASE y = c
      BY <3>3, <1>1, <2>1, <2>3 DEF k
    <3> QED BY <3>1, <3>2, <3>3
  <2> QED
    BY <1>1, <2>2, <2>4 DEF CountingInv
<1> QED
  BY <1>2, <1>3, <1>4, LimitCounted

\* An expired counter starts another epoch.
LEMMA ElapseRanks ==
  ASSUME LimiterTypeOK, CountingInv, Elapse
  PROVE  CountingInv'
<1>1. /\ UNCHANGED <<step, seen, counted, unchecked>>
      /\ \A k \in Keys : \/ count'[k] = count[k] /\ epoch'[k] = epoch[k]
                         \/ epoch'[k] = epoch[k] + 1
      /\ \A c \in Calls : KeyOf[c] \in Keys /\ epoch[KeyOf[c]] \in Nat /\ counted[c] \in Nat
  BY KeyAssumption DEF Elapse, LimiterTypeOK
<1>2. RanksDiffer'
  BY <1>1 DEF CountingInv, RanksDiffer, Counted
<1>3. ASSUME NEW c \in Calls PROVE CountedOK(c)'
  <2>1. CountedOK(c) /\ Counted(c)' = Counted(c)
    BY <1>1 DEF CountingInv, Counted
  <2> QED
    BY <1>1, <2>1 DEF CountedOK
<1> QED
  BY <1>2, <1>3 DEF CountingInv

\* Distinct numbers up to Max: the calls let through are at most Max.
LEMMA RanksBound ==
  ASSUME LimiterTypeOK, CountingInv
  PROVE  WithinLimit
<1> SUFFICES ASSUME NEW k \in Keys, NEW e \in 0 .. MaxTime
             PROVE  Cardinality(LetThrough(k, e)) <= Max
  BY DEF WithinLimit
<1> DEFINE S == LetThrough(k, e)
           rank == [c \in S |-> seen[c]]
<1>1. ASSUME NEW c \in S
      PROVE  /\ c \in Calls /\ Counted(c) /\ KeyOf[c] = k /\ counted[c] = e
             /\ seen[c] \in 1 .. Max
  <2>1. /\ c \in Calls /\ Counted(c) /\ KeyOf[c] = k /\ counted[c] = e
        /\ step[c] \in {"passed", "served"}
    BY DEF LetThrough, Counted
  <2>2. seen[c] \in Nat /\ seen[c] > 0 /\ seen[c] <= Max
    BY <2>1 DEF CountingInv, CountedOK, LimiterTypeOK
  <2> QED
    BY <2>1, <2>2, LimitAssumption
<1>2. \A c, d \in S : seen[c] = seen[d] => c = d
  BY <1>1 DEF CountingInv, RanksDiffer
<1> HIDE DEF S
<1>3. rank \in Injection(S, 1 .. Max)
  BY <1>1, <1>2 DEF Injection, IsInjective
<1>4. IsFiniteSet(1 .. Max) /\ Cardinality(1 .. Max) = Max
  BY FS_Interval, LimitAssumption
<1>5. Cardinality(S) <= Cardinality(1 .. Max)
  <2> HIDE DEF rank
  <2> QED BY <1>3, <1>4, FS_Injection
<1> QED
  BY <1>4, <1>5 DEF S

-----------------------------------------------------------------------------
(* The two endpoints *)

\* Requests for tokens and steps of verifications leave the limiter alone, but
\* for the count of faults and the label of a request that was let through.
LEMMA EndpointKeepsLimiter ==
  ASSUME LimiterTypeOK, CountingInv, EndlessCountersExplained,
         UNCHANGED <<redis, now, seen, epoch, counted, unchecked, broken>>,
         faults' \in 0 .. MaxFaults,
         \/ UNCHANGED step
         \/ \E c \in Calls : step[c] = "passed" /\ step' = [step EXCEPT ![c] = "served"]
  PROVE  LimiterTypeOK' /\ CountingInv' /\ EndlessCountersExplained'
<1>1. /\ step' \in [Calls -> Steps]
      /\ \A c \in Calls : \/ step'[c] = step[c]
                          \/ step[c] = "passed" /\ step'[c] = "served"
  BY DEF LimiterTypeOK, Steps
<1>2. LimiterTypeOK'
  BY <1>1 DEF LimiterTypeOK, Steps, redis
<1>3. \A c \in Calls : Counted(c)' <=> Counted(c)
  BY <1>1 DEF Counted
<1>4. RanksDiffer'
  BY <1>3 DEF CountingInv, RanksDiffer
<1>5. \A c \in Calls : CountedOK(c)'
  BY <1>1, <1>3 DEF CountingInv, CountedOK, redis
<1>6. EndlessCountersExplained'
  BY <1>1 DEF EndlessCountersExplained, redis
<1> QED
  BY <1>2, <1>4, <1>5, <1>6 DEF CountingInv

\* What the handlers work on, apart from the limiter.
VerificationInv ==
  LinkOK /\ WrittenOK /\ UsedMeansVerified /\ SharersOverlap /\ VerificationAudited

\* Limiter steps and the clock do not concern them.
LEMMA LimiterKeepsVerification ==
  ASSUME TypeOK, VerificationInv, UNCHANGED verification, LimiterTypeOK',
         \A c \in Calls : step[c] = "served" => step'[c] = "served"
  PROVE  VerificationInv' /\ TypeOK'
BY DEF TypeOK, VerificationInv, verification, LinkOK, WrittenOK, UsedMeansVerified,
       SharersOverlap, VerificationAudited, Looked

\* A token or none: nothing else in the tables changes.
LEMMA RequestPreserves ==
  ASSUME IInv, NEW c \in Calls, RequestToken(c)
  PROVE  IInv'
<1>1. /\ step[c] = "passed" /\ step' = [step EXCEPT ![c] = "served"]
      /\ UNCHANGED <<redis, now, seen, epoch, counted, unchecked, broken>>
      /\ UNCHANGED <<verified, audit, at, using, during, halfway>>
      /\ faults' \in 0 .. MaxFaults
  BY LimitAssumption DEF RequestToken, To, Fault, IInv, TypeOK, LimiterTypeOK
<1>2. LimiterTypeOK' /\ CountingInv' /\ EndlessCountersExplained'
  BY <1>1, EndpointKeepsLimiter DEF IInv, TypeOK
<1>3. c \notin outbox /\ token[c] \in TokenRow /\ token[c].user = NoOne
  BY <1>1 DEF IInv, LinkOK, TypeOK, TokenRow
<1>4. /\ token' \in [Calls -> TokenRow] /\ outbox' \subseteq Calls
      /\ outbox' \subseteq outbox \cup {c}
      /\ outbox \subseteq outbox'
      /\ \A t \in Calls \ {c} : token'[t] = token[t]
      /\ \/ token'[c] = token[c] /\ outbox' = outbox
         \/ token'[c].user \in Users /\ ~token'[c].used /\ c \in outbox'
  <2> DEFINE row == [user |-> UserOf[c], expiresAt |-> now + TokenTTL, used |-> FALSE]
  <2>1. row \in TokenRow /\ row.user \in Users /\ ~row.used
    BY VerifyAssumption, LimitAssumption DEF IInv, TypeOK, LimiterTypeOK, TokenRow
  <2>2. token \in [Calls -> TokenRow] /\ outbox \subseteq Calls
    BY DEF IInv, TypeOK
  <2>3. \/ token' = [token EXCEPT ![c] = row] /\ outbox' = outbox \cup {c}
        \/ UNCHANGED <<token, outbox>>
    BY DEF RequestToken
  <2> HIDE DEF row
  <2> QED
    BY <2>1, <2>2, <2>3
<1>5. TypeOK'
  <2>1. \A t \in Calls : t \in outbox' <=> token'[t].user # NoOne
    BY <1>3, <1>4, VerifyAssumption DEF IInv, TypeOK
  <2>2. /\ verified' = verified /\ audit' = audit /\ halfway' = halfway
        /\ at' = at /\ using' = using /\ during' = during
    BY <1>1
  <2> QED
    BY <1>2, <1>4, <2>1, <2>2 DEF IInv, TypeOK
<1>6. LinkOK'
  BY <1>1, <1>4 DEF IInv, LinkOK, TypeOK, LimiterTypeOK, Looked
<1>7. \A v \in Verifies : using[v] # NoOne =>
         using[v] \in Calls \ {c} /\ token'[using[v]] = token[using[v]]
  BY <1>3, <1>4 DEF IInv, LinkOK, TypeOK
<1>8. WrittenOK'
  BY <1>1, <1>7 DEF IInv, WrittenOK, LinkOK, Looked
<1>9. UsedMeansVerified'
  BY <1>1, <1>4 DEF IInv, UsedMeansVerified
<1>10. SharersOverlap'
  BY <1>1 DEF IInv, SharersOverlap, Looked
<1>11. VerificationAudited'
  BY <1>1, <1>7 DEF IInv, VerificationAudited
<1> QED
  BY <1>2, <1>5, <1>6, <1>8, <1>9, <1>10, <1>11 DEF IInv

Labels == {"idle", "verify", "use", "audit", "ok", "rejected", "error"}

\* Each step of a verification.
LEMMA VerifyPreserves ==
  ASSUME IInv, NEW v \in Verifies, Verify(v)
  PROVE  IInv'
<1>t. /\ token \in [Calls -> TokenRow] /\ at \in [Verifies -> Labels]
      /\ using \in [Verifies -> Calls \cup {NoOne}] /\ during \in [Verifies -> SUBSET Verifies]
      /\ outbox \subseteq Calls /\ verified \subseteq Users
  BY DEF IInv, TypeOK, Labels
<1>l. /\ UNCHANGED <<redis, now, step, seen, epoch, counted, unchecked, broken>>
      /\ faults' \in 0 .. MaxFaults
  BY LimitAssumption DEF Verify, VerifyRejected, VerifyLookup, MarkVerified, MarkUsed,
     AuditVerified, VerifyFails, Fault, limiter, IInv, TypeOK, LimiterTypeOK
<1>m. LimiterTypeOK' /\ CountingInv' /\ EndlessCountersExplained'
  BY <1>l, EndpointKeepsLimiter DEF IInv, TypeOK
<1>u. using[v] # NoOne =>
        /\ using[v] \in outbox /\ using[v] \in Calls
        /\ token[using[v]] \in TokenRow /\ token[using[v]].user \in Users
  BY <1>t DEF IInv, LinkOK, TypeOK, TokenRow
<1>1. CASE VerifyRejected(v)
  <2>1. /\ at[v] = "idle" /\ at' = [at EXCEPT ![v] = "rejected"]
        /\ UNCHANGED <<step, verified, token, outbox, audit, using, during, halfway>>
    BY <1>1 DEF VerifyRejected, At, limiter
  <2>2. TypeOK'
    BY <2>1, <1>t, <1>m DEF IInv, TypeOK, Labels
  <2>3. LinkOK' /\ WrittenOK' /\ SharersOverlap'
    BY <2>1, <1>t DEF IInv, LinkOK, WrittenOK, SharersOverlap, Looked
  <2>4. UsedMeansVerified' /\ VerificationAudited'
    BY <2>1, <1>t DEF IInv, UsedMeansVerified, VerificationAudited
  <2> QED BY <1>m, <2>2, <2>3, <2>4 DEF IInv
<1>2. ASSUME NEW t \in Calls, VerifyLookup(v, t) PROVE IInv'
  <2> DEFINE running == {w \in Verifies : Running(w)}
  <2>1. /\ at[v] = "idle" /\ t \in outbox /\ ~token[t].used
        /\ at' = [at EXCEPT ![v] = "verify"]
        /\ using' = [using EXCEPT ![v] = t]
        /\ during' = [during EXCEPT ![v] = running]
        /\ UNCHANGED <<step, verified, token, outbox, audit, halfway>>
    BY <1>2 DEF VerifyLookup, Usable, At, limiter
  <2>2. TypeOK'
    BY <2>1, <1>t, <1>m DEF IInv, TypeOK, Labels
  <2>3. LinkOK'
    BY <2>1, <1>t, VerifyAssumption DEF IInv, LinkOK, Looked
  <2>4. WrittenOK'
    BY <2>1, <1>t DEF IInv, WrittenOK
  <2>5. \A w \in Verifies : Looked(w) /\ using[w] = t => w \in running
    BY <2>1, <1>t DEF IInv, WrittenOK, Looked, Running
  <2> HIDE DEF running
  <2>6. SharersOverlap'
    BY <2>1, <2>5, <1>t DEF IInv, SharersOverlap, Looked
  <2>7. UsedMeansVerified' /\ VerificationAudited'
    BY <2>1, <1>t DEF IInv, UsedMeansVerified, VerificationAudited, LinkOK
  <2> QED BY <1>m, <2>2, <2>3, <2>4, <2>6, <2>7 DEF IInv
<1>3. CASE MarkVerified(v)
  <2>1. /\ at[v] = "verify" /\ at' = [at EXCEPT ![v] = "use"]
        /\ verified' = verified \cup {token[using[v]].user}
        /\ UNCHANGED <<step, token, outbox, audit, using, during, halfway>>
    BY <1>3 DEF MarkVerified, At, limiter
  <2>2. using[v] # NoOne
    BY <2>1 DEF IInv, LinkOK, Looked
  <2>3. TypeOK'
    BY <2>1, <2>2, <1>t, <1>m, <1>u DEF IInv, TypeOK, Labels
  <2>4. LinkOK' /\ WrittenOK' /\ SharersOverlap'
    BY <2>1, <2>2, <1>t DEF IInv, LinkOK, WrittenOK, SharersOverlap, Looked
  <2>5. UsedMeansVerified' /\ VerificationAudited'
    BY <2>1, <2>2, <1>t DEF IInv, UsedMeansVerified, VerificationAudited
  <2> QED BY <1>m, <2>3, <2>4, <2>5 DEF IInv
<1>4. CASE MarkUsed(v)
  <2>1. /\ at[v] = "use" /\ at' = [at EXCEPT ![v] = "audit"]
        /\ token' = [token EXCEPT ![using[v]].used = TRUE]
        /\ UNCHANGED <<step, verified, outbox, audit, using, during, halfway>>
    BY <1>4 DEF MarkUsed, At, limiter
  <2>2. using[v] # NoOne /\ token[using[v]].user \in verified
    BY <2>1 DEF IInv, LinkOK, WrittenOK, Looked
  <2>3. /\ token' \in [Calls -> TokenRow]
        /\ \A t \in Calls : /\ token'[t].user = token[t].user
                            /\ token'[t].used <=> token[t].used \/ t = using[v]
    BY <2>1, <2>2, <1>t, <1>u DEF TokenRow
  <2>4. TypeOK'
    BY <2>1, <2>3, <1>t, <1>m DEF IInv, TypeOK, Labels
  <2>5. LinkOK' /\ SharersOverlap'
    BY <2>1, <1>t DEF IInv, LinkOK, SharersOverlap, Looked
  <2>6. \A w \in Verifies : Looked(w) => using[w] \in Calls
    BY <1>t DEF IInv, LinkOK
  <2>7. WrittenOK'
    BY <2>1, <2>3, <2>6, <1>t DEF IInv, WrittenOK, Looked
  <2>8. UsedMeansVerified'
    BY <2>1, <2>2, <2>3 DEF IInv, UsedMeansVerified
  <2>9. VerificationAudited'
    BY <2>1, <2>3, <1>t DEF IInv, VerificationAudited
  <2> QED BY <1>m, <2>4, <2>5, <2>7, <2>8, <2>9 DEF IInv
<1>5. CASE AuditVerified(v)
  <2>1. /\ at[v] = "audit" /\ at' = [at EXCEPT ![v] = "ok"] /\ audit' = audit \cup {v}
        /\ UNCHANGED <<step, verified, token, outbox, using, during, halfway>>
    BY <1>5 DEF AuditVerified, At, limiter
  <2>2. TypeOK'
    BY <2>1, <1>t, <1>m DEF IInv, TypeOK, Labels
  <2>3. LinkOK' /\ WrittenOK' /\ SharersOverlap'
    BY <2>1, <1>t DEF IInv, LinkOK, WrittenOK, SharersOverlap, Looked
  <2>4. UsedMeansVerified' /\ VerificationAudited'
    BY <2>1, <1>t DEF IInv, UsedMeansVerified, VerificationAudited
  <2> QED BY <1>m, <2>2, <2>3, <2>4 DEF IInv
<1>6. CASE VerifyFails(v)
  <2>1. /\ Running(v) /\ at' = [at EXCEPT ![v] = "error"]
        /\ halfway' = IF at[v] = "verify" THEN halfway ELSE halfway \cup {v}
        /\ UNCHANGED <<step, verified, token, outbox, audit, using, during>>
    BY <1>6 DEF VerifyFails, At
  <2>2. TypeOK'
    BY <2>1, <1>t, <1>m DEF IInv, TypeOK, Labels
  <2>3. LinkOK' /\ WrittenOK' /\ SharersOverlap'
    BY <2>1, <1>t DEF IInv, LinkOK, WrittenOK, SharersOverlap, Looked, Running
  <2>4. UsedMeansVerified' /\ VerificationAudited'
    BY <2>1, <1>t DEF IInv, UsedMeansVerified, VerificationAudited, Running
  <2> QED BY <1>m, <2>2, <2>3, <2>4 DEF IInv
<1> QED
  BY <1>1, <1>2, <1>3, <1>4, <1>5, <1>6 DEF Verify

-----------------------------------------------------------------------------
(* The theorems *)

\* Initially nothing was counted, requested or looked up.
LEMMA InitHolds == Init => IInv
<1> SUFFICES ASSUME Init PROVE IInv
  OBVIOUS
<1>1. TypeOK
  BY LimitAssumption, VerifyAssumption
     DEF Init, LimiterInit, TypeOK, LimiterTypeOK, NoToken, TokenRow
<1>2. CountingInv /\ EndlessCountersExplained
  BY KeyAssumption DEF Init, LimiterInit, CountingInv, RanksDiffer, CountedOK, Counted,
     EndlessCountersExplained
<1>3. LinkOK /\ WrittenOK /\ UsedMeansVerified /\ SharersOverlap /\ VerificationAudited
  BY DEF Init, LimiterInit, LinkOK, WrittenOK, UsedMeansVerified, SharersOverlap,
     VerificationAudited, Looked, NoToken
<1> QED
  BY <1>1, <1>2, <1>3 DEF IInv

\* Every step of the limiter, of a request or of a verification keeps the
\* inductive invariant.
LEMMA StepPreserves == IInv /\ [Next]_allVars => IInv'
<1> SUFFICES ASSUME IInv, [Next]_allVars PROVE IInv'
  OBVIOUS
<1>0. LimiterTypeOK /\ TypeOK /\ VerificationInv
  BY DEF IInv, TypeOK, VerificationInv
<1>1. ASSUME NEW c \in Calls, Limit(c), UNCHANGED verification PROVE IInv'
  <2>1. LimiterTypeOK' /\ CountingInv' /\ EndlessCountersExplained'
    BY <1>0, <1>1, LimitTypes, LimitRanks, LimitEndless DEF IInv
  <2>2. step[c] # "served"
    BY <1>1 DEF Limit, Incr, IncrResent, PExpire, PTtl, CommandFails, LimiterDies
  <2>3. \A d \in Calls : step[d] = "served" => step'[d] = "served"
    BY <1>0, <1>1, <2>2, LimitOthers
  <2> QED
    BY <1>0, <1>1, <2>1, <2>3, LimiterKeepsVerification DEF IInv, VerificationInv
<1>2. ASSUME NEW c \in Calls, RequestToken(c) PROVE IInv'
  BY <1>2, RequestPreserves
<1>3. ASSUME NEW v \in Verifies, Verify(v) PROVE IInv'
  BY <1>3, VerifyPreserves
<1>4. CASE Elapse /\ UNCHANGED verification
  <2>1. LimiterTypeOK' /\ CountingInv' /\ EndlessCountersExplained'
    BY <1>0, <1>4, ElapseTypes, ElapseRanks, ElapseEndless DEF IInv
  <2>2. UNCHANGED step
    BY <1>4 DEF Elapse
  <2> QED
    BY <1>0, <1>4, <2>1, <2>2, LimiterKeepsVerification DEF IInv, VerificationInv
<1>5. CASE UNCHANGED allVars
  <2>1. LimiterTypeOK' /\ CountingInv' /\ EndlessCountersExplained'
    BY <1>0, <1>5, EndpointKeepsLimiter
       DEF IInv, allVars, limiter, LimiterTypeOK
  <2>2. UNCHANGED step /\ UNCHANGED verification
    BY <1>5 DEF allVars, limiter
  <2> QED
    BY <1>0, <2>1, <2>2, LimiterKeepsVerification DEF IInv, VerificationInv
<1> QED
  BY <1>1, <1>2, <1>3, <1>4, <1>5 DEF Next

\* IInv is an invariant of every instance.
THEOREM VerificationInductive == Spec => []IInv
  BY InitHolds, StepPreserves, PTL DEF Spec

\* Counters, tokens and handlers keep their types.
THEOREM VerificationTypeCorrect == Spec => []TypeOK
<1>1. IInv => TypeOK
  BY DEF IInv
<1> QED
  BY <1>1, VerificationInductive, PTL

\* For any number of calls, addresses and faults, a window lets through at most
\* Max calls whose commands were executed.
THEOREM LimitHolds == Spec => []WithinLimit
<1>1. IInv => WithinLimit
  BY RanksBound DEF IInv, TypeOK
<1> QED
  BY <1>1, VerificationInductive, PTL

\* A counter without expiry waits for its first call, or that call broke.
THEOREM EndlessExplained == Spec => []EndlessCountersExplained
<1>1. IInv => EndlessCountersExplained
  BY DEF IInv
<1> QED
  BY <1>1, VerificationInductive, PTL

\* The user of a used token is verified, wherever a handler was cut off.
THEOREM UsedVerified == Spec => []UsedMeansVerified
<1>1. IInv => UsedMeansVerified
  BY DEF IInv
<1> QED
  BY <1>1, VerificationInductive, PTL

\* One token serves two verifications only when they overlap.
THEOREM ReuseOverlaps == Spec => []TokenReuseExplained
<1>1. IInv => TokenReuseExplained
  BY DEF IInv, SharersOverlap, TokenReuseExplained, Looked
<1> QED
  BY <1>1, VerificationInductive, PTL

\* A verified address is in the audit log, on its way there, or the handler
\* failed half way.
THEOREM Audited == Spec => []VerificationAudited
<1>1. IInv => VerificationAudited
  BY DEF IInv
<1> QED
  BY <1>1, VerificationInductive, PTL
=============================================================================

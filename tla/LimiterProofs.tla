--------------------------- MODULE LimiterProofs ---------------------------
(***************************************************************************)
(* Proof that the rate limiter holds its limit (security/rate_limit.py),   *)
(* for any number of requests that wait for its lock in any order.  The    *)
(* invariant relates the window to the whole history: the requests it has  *)
(* forgotten are old, and a hit is at most Skew older than its request.    *)
(***************************************************************************)
EXTENDS Service, SequenceTheorems, TLAPS

Stages ==
    {"new", "authenticate", "count", "admitted", "model", "probe", "probing", "estimate", "estimating",
     "execute", "executing", "ping", "pinging", "ok", "app_error", "unexpected", "done"}

LimiterTypes ==
    /\ load \in Loads /\ stage \in [Callers -> Stages]
    /\ now \in Nat /\ readAt \in [Callers -> Nat]
    /\ hits \in Seq(Nat) /\ admitted \in Seq(Nat)

\* A request that waits for the lock has read the clock at most Skew ago.
Fresh == \A k \in Callers : stage[k] = "count" => readAt[k] <= now /\ now <= readAt[k] + Skew

\* The first p requests let through are forgotten, and they are old; the hits are those of the others,
\* each at most Skew too early.
Accounted(p) ==
    /\ p + Len(hits) = Len(admitted)
    /\ \A j \in 1 .. Len(hits) : admitted[p + j] <= hits[j] + Skew
    /\ \A i \in 1 .. p : admitted[i] + Window < now + Skew

LimiterInv == LimiterTypes /\ Fresh /\ (\E p \in Nat : Accounted(p)) /\ LimiterHolds

\* A step that touches nothing of the limiter's and brings no request before its lock keeps the invariant.
LEMMA OutsideLimiter ==
    ASSUME LimiterInv, UNCHANGED <<load, hits, readAt, now, admitted>>,
           stage' \in [Callers -> Stages],
           \A j \in Callers : stage'[j] = "count" => stage[j] = "count"
    PROVE  LimiterInv'
<1>1. LimiterTypes' /\ Fresh'
  BY DEF LimiterInv, LimiterTypes, Fresh
<1>2. (\E p \in Nat : Accounted(p))'
  BY DEF LimiterInv, Accounted
<1>3. LimiterHolds'
  BY DEF LimiterInv, LimiterHolds, Limit
<1> QED BY <1>1, <1>2, <1>3 DEF LimiterInv

\* Dropping the first n hits, all older than the window at a reading that is fresh, leaves the rest accounted
\* for (rate_limit.py:41-42).
LEMMA Dropped ==
    ASSUME LimiterInv, NEW k \in Callers, stage[k] = "count", NEW n \in 0 .. Len(hits), Expired(n, readAt[k])
    PROVE  LET rest == SubSeq(hits, n + 1, Len(hits)) IN
           /\ rest \in Seq(Nat) /\ Len(rest) = Len(hits) - n
           /\ \E p \in Nat :
                 /\ p + Len(rest) = Len(admitted)
                 /\ \A j \in 1 .. Len(rest) : admitted[p + j] <= rest[j] + Skew
                 /\ \A i \in 1 .. p : admitted[i] + Window < now + Skew
<1>0. Window \in Nat /\ Skew \in Nat
  BY ServiceAssumption
<1> DEFINE rest == SubSeq(hits, n + 1, Len(hits))
<1>1. /\ hits \in Seq(Nat) /\ admitted \in Seq(Nat) /\ now \in Nat /\ readAt[k] \in Nat /\ Len(hits) \in Nat
      /\ Len(admitted) \in Nat /\ now <= readAt[k] + Skew /\ readAt[k] <= now
  BY DEF LimiterInv, LimiterTypes, Fresh
<1>2. rest \in Seq(Nat) /\ Len(rest) = Len(hits) - n /\ Len(rest) \in Nat
  <2>1. n + 1 \in Int /\ Len(hits) \in Int /\ n \in Nat /\ n <= Len(hits)
    BY <1>1
  <2>2. \A i \in n + 1 .. Len(hits) : hits[i] \in Nat
    BY <1>1, <2>1
  <2>3. rest \in Seq(Nat) /\ Len(rest) = (IF n + 1 <= Len(hits) THEN Len(hits) - (n + 1) + 1 ELSE 0)
    BY <2>1, <2>2, SubSeqProperties
  <2> HIDE DEF rest
  <2> QED BY <1>1, <2>1, <2>3
<1>3. ASSUME NEW j \in 1 .. Len(rest) PROVE rest[j] = hits[n + j]
  BY <1>1, <1>3
<1> HIDE DEF rest
<1>4. PICK p \in Nat : Accounted(p)
  BY DEF LimiterInv
<1>5. p + Len(hits) = Len(admitted) /\ n \in Nat /\ n <= Len(hits)
  BY <1>1, <1>4 DEF Accounted
<1> DEFINE old == Len(hits)
           left == Len(rest)
           total == Len(admitted)
<1>10. /\ old \in Nat /\ left \in Nat /\ total \in Nat /\ n \in Nat /\ p \in Nat
       /\ n <= old /\ left = old - n /\ p + old = total
  BY <1>1, <1>2, <1>5
<1> HIDE DEF old, left, total
<1>6. (p + n) + Len(rest) = Len(admitted)
  <2>1. (p + n) + left = total
    BY <1>10
  <2> QED BY <2>1 DEF left, total
<1>7. ASSUME NEW j \in 1 .. Len(rest) PROVE admitted[(p + n) + j] <= rest[j] + Skew
  <2>1. n + j \in 1 .. Len(hits) /\ p + (n + j) = (p + n) + j
    <3>1. j \in 1 .. left
      BY DEF left
    <3>2. n + j \in 1 .. old /\ p + (n + j) = (p + n) + j
      BY <1>10, <3>1
    <3> QED BY <3>2 DEF old
  <2>2. admitted[p + (n + j)] <= hits[n + j] + Skew
    BY <1>4, <2>1 DEF Accounted
  <2> QED BY <1>3, <2>1, <2>2
<1>8. ASSUME NEW i \in 1 .. p + n PROVE admitted[i] + Window < now + Skew
  <2>1. CASE i \in 1 .. p
    BY <1>4, <2>1 DEF Accounted
  <2>2. CASE i \notin 1 .. p
    <3>1. PICK j \in 1 .. n : i = p + j
      <4>1. i - p \in 1 .. n /\ i = p + (i - p)
        BY <1>5, <2>2
      <4> QED BY <4>1
    <3>2. j \in 1 .. Len(hits) /\ i \in 1 .. Len(admitted)
      <4>1. j \in 1 .. old /\ i \in 1 .. total
        BY <1>10, <3>1
      <4> QED BY <4>1 DEF old, total
    <3>3. hits[j] < readAt[k] - Window
      BY DEF Expired
    <3>4. admitted[i] <= hits[j] + Skew
      BY <1>4, <3>1, <3>2 DEF Accounted
    <3>5. admitted[i] \in Nat /\ hits[j] \in Nat
      <4>1. \A s \in Seq(Nat) : \A x \in 1 .. Len(s) : s[x] \in Nat
        OBVIOUS
      <4> QED BY <1>1, <3>2, <4>1
    <3>6. readAt[k] \in Nat /\ readAt[k] <= now /\ now \in Nat
      BY <1>1
    <3> DEFINE a == admitted[i]
               b == hits[j]
               r == readAt[k]
    <3>7. a \in Nat /\ b \in Nat /\ r \in Nat /\ r <= now /\ b < r - Window /\ a <= b + Skew
      BY <3>3, <3>4, <3>5, <3>6
    <3> HIDE DEF a, b, r
    <3>8. a + Window < now + Skew
      BY <1>0, <3>6, <3>7
    <3> QED BY <3>8 DEF a
  <2> QED BY <2>1, <2>2
<1>9. p + n \in Nat
  BY <1>5
<1> QED BY <1>2, <1>6, <1>7, <1>8, <1>9 DEF rest

\* A request is let through: the one that was let through Limit requests before it is among the forgotten.
LEMMA AdmitKeeps ==
    ASSUME LimiterInv, NEW k \in Callers, NEW n \in 0 .. Len(hits), Admit(k, n)
    PROVE  LimiterInv'
<1>0. Window \in Nat /\ Skew \in Nat
  BY ServiceAssumption
<1>1. CASE Limit = 0
  <2>1. stage' = [stage EXCEPT ![k] = "admitted"] /\ UNCHANGED <<load, hits, now, admitted>>
    BY <1>1 DEF Admit, Stage
  <2>2. readAt' = [readAt EXCEPT ![k] = 0]
    BY DEF Admit
  <2>3. LimiterTypes' /\ Fresh'
    BY <2>1, <2>2 DEF LimiterInv, LimiterTypes, Fresh, Stages
  <2>4. (\E p \in Nat : Accounted(p))'
    BY <2>1 DEF LimiterInv, Accounted
  <2>5. LimiterHolds'
    BY <2>1 DEF LimiterInv, LimiterHolds, Limit
  <2> QED BY <2>3, <2>4, <2>5 DEF LimiterInv
<1>2. CASE Limit # 0
  <2> DEFINE rest == SubSeq(hits, n + 1, Len(hits))
  <2>1. Limit \in Nat /\ Limit > 0
    BY <1>2, ServiceAssumption DEF LimiterInv, LimiterTypes, Limit
  <2>2. stage[k] = "count" /\ Expired(n, readAt[k]) /\ Len(hits) - n < Limit
    BY <2>1 DEF Admit, Stage
  <2>3. /\ stage' = [stage EXCEPT ![k] = "admitted"] /\ readAt' = [readAt EXCEPT ![k] = 0]
        /\ load' = load /\ now' = now
        /\ hits' = Append(rest, readAt[k]) /\ admitted' = Append(admitted, now)
    BY <1>2 DEF Admit, Stage
  <2>4. /\ now \in Nat /\ readAt[k] \in Nat /\ admitted \in Seq(Nat) /\ hits \in Seq(Nat)
        /\ now <= readAt[k] + Skew /\ Len(hits) \in Nat /\ Len(admitted) \in Nat
    BY <2>2 DEF LimiterInv, LimiterTypes, Fresh
  <2>5. rest \in Seq(Nat) /\ Len(rest) = Len(hits) - n /\ Len(rest) \in Nat
    <3>1. rest \in Seq(Nat) /\ Len(rest) = Len(hits) - n
      BY <2>2, Dropped
    <3> HIDE DEF rest
    <3> QED BY <3>1
  <2>6. PICK p \in Nat : /\ p + Len(rest) = Len(admitted)
                         /\ \A j \in 1 .. Len(rest) : admitted[p + j] <= rest[j] + Skew
                         /\ \A i \in 1 .. p : admitted[i] + Window < now + Skew
    BY <2>2, Dropped
  <2> HIDE DEF rest
  <2>7. LimiterTypes' /\ Fresh'
    <3>1. hits' \in Seq(Nat) /\ admitted' \in Seq(Nat)
      BY <2>3, <2>4, <2>5
    <3> QED BY <2>3, <3>1 DEF LimiterInv, LimiterTypes, Fresh, Stages
  <2>8. /\ Len(hits') = Len(rest) + 1 /\ Len(admitted') = Len(admitted) + 1
        /\ \A j \in 1 .. Len(rest) : hits'[j] = rest[j]
        /\ hits'[Len(rest) + 1] = readAt[k]
        /\ \A i \in 1 .. Len(admitted) : admitted'[i] = admitted[i]
        /\ admitted'[Len(admitted) + 1] = now
    BY <2>3, <2>4, <2>5
  <2>9. Accounted(p)'
    <3>1. p + Len(hits') = Len(admitted')
      <4>1. p + Len(rest) = Len(admitted) /\ Len(hits') = Len(rest) + 1 /\ Len(admitted') = Len(admitted) + 1
        BY <2>6, <2>8
      <4>2. Len(rest) \in Nat /\ Len(admitted) \in Nat
        BY <2>4, <2>5
      <4> QED BY <4>1, <4>2
    <3>2. ASSUME NEW j \in 1 .. Len(hits') PROVE admitted'[p + j] <= hits'[j] + Skew
      <4>1. CASE j \in 1 .. Len(rest)
        <5>1. p + j \in 1 .. Len(admitted)
          BY <2>4, <2>5, <2>6, <4>1
        <5> QED BY <2>6, <2>8, <4>1, <5>1
      <4>2. CASE j = Len(rest) + 1
        <5>1. p + j = Len(admitted) + 1
          <6>1. p + Len(rest) = Len(admitted) /\ Len(rest) \in Nat /\ Len(admitted) \in Nat
            BY <2>4, <2>5, <2>6
          <6> QED BY <4>2, <6>1
        <5> QED BY <2>4, <2>8, <4>2, <5>1
      <4> QED BY <2>5, <2>8, <4>1, <4>2
    <3>3. ASSUME NEW i \in 1 .. p PROVE admitted'[i] + Window < now' + Skew
      <4>1. i \in 1 .. Len(admitted)
        BY <2>4, <2>5, <2>6
      <4> QED BY <2>3, <2>6, <2>8, <4>1
    <3> QED BY <3>1, <3>2, <3>3 DEF Accounted
  <2>10. LimiterHolds'
    <3>1. ASSUME NEW i \in 1 .. Len(admitted'), i + Limit <= Len(admitted')
          PROVE  admitted'[i + Limit] - admitted'[i] > Window - Skew
      <4>1. i \in 1 .. Len(admitted) /\ admitted'[i] = admitted[i] /\ admitted[i] \in Nat
        <5>1. i \in 1 .. Len(admitted)
          BY <2>1, <2>4, <2>8, <3>1
        <5> QED BY <2>4, <2>8, <5>1
      <4>2. CASE i + Limit <= Len(admitted)
        <5>1. i + Limit \in 1 .. Len(admitted)
          BY <2>1, <2>4, <4>1, <4>2
        <5>2. admitted[i + Limit] - admitted[i] > Window - Skew
          BY <2>1, <4>1, <4>2 DEF LimiterInv, LimiterHolds
        <5> QED BY <2>8, <4>1, <5>1, <5>2
      <4>3. CASE i + Limit = Len(admitted) + 1
        <5>1. i \in 1 .. p
          BY <2>1, <2>2, <2>4, <2>5, <2>6, <4>1, <4>3
        <5>2. admitted[i] + Window < now + Skew
          BY <2>6, <5>1
        <5>3. admitted'[i + Limit] = now /\ admitted'[i] = admitted[i] /\ admitted[i] \in Nat /\ now \in Nat
          BY <2>4, <2>8, <4>1, <4>3
        <5> QED BY <1>0, <5>2, <5>3
      <4>4. i + Limit <= Len(admitted) + 1 /\ i \in Nat
        BY <2>8, <3>1
      <4>5. Limit \in Nat /\ Len(admitted) \in Nat
        BY <2>1, <2>4
      <4>6. i + Limit <= Len(admitted) \/ i + Limit = Len(admitted) + 1
        BY <4>4, <4>5
      <4> QED BY <4>2, <4>3, <4>6
    <3>2. Limit' = Limit
      BY <2>3 DEF Limit
    <3> QED BY <3>1, <3>2 DEF LimiterHolds
  <2> QED BY <2>7, <2>9, <2>10 DEF LimiterInv
<1> QED BY <1>1, <1>2

\* A request is refused: only hits that have expired are dropped.
LEMMA RefuseKeeps ==
    ASSUME LimiterInv, NEW k \in Callers, NEW n \in 0 .. Len(hits), Refuse(k, n)
    PROVE  LimiterInv'
<1> DEFINE rest == SubSeq(hits, n + 1, Len(hits))
<1>1. stage[k] = "count" /\ Expired(n, readAt[k])
  BY DEF Refuse, Stage
<1>2. /\ stage' = [stage EXCEPT ![k] = "app_error"] /\ readAt' = [readAt EXCEPT ![k] = 0]
      /\ hits' = rest /\ UNCHANGED <<load, now, admitted>>
  BY DEF Refuse, Stage
<1>3. /\ rest \in Seq(Nat)
      /\ \E p \in Nat : /\ p + Len(rest) = Len(admitted)
                        /\ \A j \in 1 .. Len(rest) : admitted[p + j] <= rest[j] + Skew
                        /\ \A i \in 1 .. p : admitted[i] + Window < now + Skew
  BY <1>1, Dropped
<1> HIDE DEF rest
<1>4. LimiterTypes' /\ Fresh'
  BY <1>2, <1>3 DEF LimiterInv, LimiterTypes, Fresh, Stages
<1>5. (\E p \in Nat : Accounted(p))'
  BY <1>2, <1>3 DEF Accounted
<1>6. LimiterHolds'
  BY <1>2 DEF LimiterInv, LimiterHolds, Limit
<1> QED BY <1>4, <1>5, <1>6 DEF LimiterInv

\* Time passes: what is old grows older, and no request is kept before the lock for longer than Skew.
LEMMA TickKeeps ==
    ASSUME LimiterInv, Tick
    PROVE  LimiterInv'
<1> USE ServiceAssumption
<1>1. now' = now + 1 /\ UNCHANGED <<load, stage, hits, readAt, admitted>>
  BY DEF Tick
<1>2. LimiterTypes'
  BY <1>1 DEF LimiterInv, LimiterTypes
<1>3. Fresh'
  <2>1. ASSUME NEW k \in Callers, stage[k] = "count"
        PROVE  readAt[k] <= now + 1 /\ now + 1 <= readAt[k] + Skew
    <3>1. now - readAt[k] < Skew /\ readAt[k] <= now /\ now \in Nat /\ readAt[k] \in Nat
      BY <2>1 DEF Tick, LimiterInv, LimiterTypes, Fresh
    <3> QED BY <3>1
  <2> QED BY <1>1, <2>1 DEF Fresh
<1>4. (\E p \in Nat : Accounted(p))'
  <2>1. PICK p \in Nat : Accounted(p)
    BY DEF LimiterInv
  <2>2. ASSUME NEW i \in 1 .. p PROVE admitted[i] + Window < (now + 1) + Skew
    <3>1. admitted[i] + Window < now + Skew
      BY <2>1 DEF Accounted
    <3>2. i \in 1 .. Len(admitted) /\ admitted[i] \in Nat /\ now \in Nat
      BY <2>1 DEF Accounted, LimiterInv, LimiterTypes
    <3> QED BY <3>1, <3>2
  <2>3. Accounted(p)'
    BY <1>1, <2>1, <2>2 DEF Accounted
  <2> QED BY <2>3
<1>5. LimiterHolds'
  BY <1>1 DEF LimiterInv, LimiterHolds, Limit
<1> QED BY <1>2, <1>3, <1>4, <1>5 DEF LimiterInv

\* A principal is found: the reading its request brings before the lock is that of this moment.
LEMMA AuthenticateKeeps ==
    ASSUME LimiterInv, NEW k \in Callers, NEW known \in BOOLEAN, Authenticate(k, known)
    PROVE  LimiterInv'
<1>0. Skew \in Nat
  BY ServiceAssumption
<1>1. UNCHANGED <<load, hits, now, admitted>>
  BY DEF Authenticate
<1>2. CASE known
  <2>1. stage' = [stage EXCEPT ![k] = "count"] /\ readAt' = [readAt EXCEPT ![k] = now]
    BY <1>2 DEF Authenticate, Stage
  <2>2. LimiterTypes'
    BY <1>1, <2>1 DEF LimiterInv, LimiterTypes, Stages
  <2>3. ASSUME NEW j \in Callers, stage'[j] = "count"
        PROVE  readAt'[j] <= now /\ now <= readAt'[j] + Skew
    <3>1. CASE j = k
      <4>1. readAt'[j] = now /\ now \in Nat
        BY <2>1, <3>1 DEF LimiterInv, LimiterTypes
      <4> QED BY <1>0, <4>1
    <3>2. CASE j # k
      BY <2>1, <2>3, <3>2 DEF LimiterInv, LimiterTypes, Fresh
    <3> QED BY <3>1, <3>2
  <2>4. Fresh'
    BY <1>1, <2>3 DEF Fresh
  <2>5. (\E p \in Nat : Accounted(p))' /\ LimiterHolds'
    BY <1>1 DEF LimiterInv, Accounted, LimiterHolds, Limit
  <2> QED BY <2>2, <2>4, <2>5 DEF LimiterInv
<1>3. CASE ~known
  <2>1. stage' = [stage EXCEPT ![k] = "app_error"] /\ readAt' = readAt
    BY <1>3 DEF Authenticate, Stage
  <2> QED BY <1>1, <2>1 DEF LimiterInv, LimiterTypes, Fresh, Stages, Accounted, LimiterHolds, Limit
<1> QED BY <1>2, <1>3

\* Every step of the service keeps what the limiter's window says of the requests let through.
LEMMA LimiterKeeps == LimiterInv /\ [Next]_vars => LimiterInv'
<1> SUFFICES ASSUME LimiterInv, [Next]_vars PROVE LimiterInv'
  OBVIOUS
<1>1. ASSUME NEW k \in Callers, NEW to \in Stages \ {"count"}, stage' = [stage EXCEPT ![k] = to],
             UNCHANGED <<load, hits, readAt, now, admitted>>
      PROVE  LimiterInv'
  <2>1. stage' \in [Callers -> Stages]
    BY <1>1 DEF LimiterInv, LimiterTypes
  <2>2. \A j \in Callers : stage'[j] = "count" => stage[j] = "count"
    BY <1>1 DEF LimiterInv, LimiterTypes
  <2> QED BY <1>1, <2>1, <2>2, OutsideLimiter
<1>2. CASE UNCHANGED apiVars
  BY <1>2, OutsideLimiter DEF apiVars, LimiterInv, LimiterTypes
<1>3. CASE Tick
  BY <1>3, TickKeeps
<1>4. ASSUME NEW k \in Callers, NEW large \in BOOLEAN, Receive(k, large) PROVE LimiterInv'
  <2>1. \E to \in Stages \ {"count"} : stage' = [stage EXCEPT ![k] = to]
    BY <1>4 DEF Receive, Stage, Stages
  <2> QED BY <1>1, <1>4, <2>1 DEF Receive
<1>5. ASSUME NEW k \in Callers, Cancel(k) PROVE LimiterInv'
  <2>1. stage' = [stage EXCEPT ![k] = "done"] /\ UNCHANGED <<load, hits, readAt, now, admitted>>
    BY <1>5 DEF Cancel
  <2> QED BY <1>1, <2>1 DEF Stages
<1>6. ASSUME NEW k \in Callers, Step(k) PROVE LimiterInv'
  <2>1. ASSUME NEW known \in BOOLEAN, Authenticate(k, known) PROVE LimiterInv'
    BY <2>1, AuthenticateKeeps
  <2>2. ASSUME NEW n \in 0 .. Len(hits), Admit(k, n) \/ Refuse(k, n) PROVE LimiterInv'
    BY <2>2, AdmitKeeps, RefuseKeeps
  <2>3. ASSUME NEW outcome \in {"ok", "app_error"}, Schema(k, outcome) PROVE LimiterInv'
    BY <1>1, <2>3 DEF Schema, Stage, OnlyStages, Stages
  <2>4. ASSUME NEW accepted \in BOOLEAN, Question(k, accepted) PROVE LimiterInv'
    <3>1. \E to \in Stages \ {"count"} : stage' = [stage EXCEPT ![k] = to]
      BY <2>4 DEF Question, Stage, Stages
    <3> QED BY <1>1, <2>4, <3>1 DEF Question, OnlyStages
  <2>5. ASSUME NEW outcome \in {"probe", "app_error", "unexpected"}, Written(k, outcome) PROVE LimiterInv'
    BY <1>1, <2>5 DEF Written, Stage, OnlyStages, Stages
  <2>6. CASE Statement(k)
    <3>1. \E to \in Stages \ {"count"} : stage' = [stage EXCEPT ![k] = to]
      BY <2>6 DEF Statement, Stage, Stages
    <3> QED BY <1>1, <2>6, <3>1 DEF Statement, OnlyStages
  <2>7. CASE After(k)
    <3>1. \E to \in Stages \ {"count"} : stage' = [stage EXCEPT ![k] = to]
      BY <2>7 DEF After, Stages
    <3> QED BY <1>1, <2>7, <3>1 DEF After, OnlyStages
  <2>8. CASE Respond(k)
    BY <1>1, <2>8 DEF Respond, Stages
  <2>9. CASE Work(k)
    BY <1>2, <2>9 DEF Work
  <2> QED BY <1>4, <1>6, <2>1, <2>2, <2>3, <2>4, <2>5, <2>6, <2>7, <2>8, <2>9 DEF Step
<1>7. CASE UNCHANGED vars
  BY <1>2, <1>7 DEF vars
<1> QED BY <1>3, <1>4, <1>5, <1>6, <1>7 DEF Next

\* The limiter lets no more than its limit through within the window less the longest delay before its lock,
\* for every limit, window and delay (RateLimiter.check).
THEOREM LimiterHoldsAlways == Spec => []LimiterHolds
<1>1. Init => LimiterInv
  <2> SUFFICES ASSUME Init PROVE LimiterInv
    OBVIOUS
  <2>1. LimiterTypes /\ Fresh
    BY DEF Init, LimiterTypes, Fresh, Stages
  <2>2. Accounted(0)
    BY DEF Init, Accounted
  <2>3. LimiterHolds
    BY ServiceAssumption DEF Init, LimiterHolds, Limit
  <2> QED BY <2>1, <2>2, <2>3 DEF LimiterInv
<1>2. LimiterInv => LimiterHolds
  BY DEF LimiterInv
<1> QED BY <1>1, <1>2, LimiterKeeps, PTL DEF Spec
=============================================================================

----------------------------- MODULE GateProofs -----------------------------
(***************************************************************************)
(* Proofs about Gate, for any presses, devices, addresses, owners, limits  *)
(* and lengths of the window and of the day.  Facts about division and     *)
(* about the map of buckets come first; then one inductive invariant for   *)
(* the limiter, one for the daily count and one for what pages are told.   *)
(***************************************************************************)
EXTENDS Gate, FiniteSetTheorems, TLAPS

\* What a key let through is finite, recent and not in the future.
Recent ==
  \A k \in Key :
    /\ IsFiniteSet(admitted[k])
    /\ \A a \in admitted[k] : a.at <= now /\ now - a.at < Window

Since(A, t) == {a \in A : a.at >= t}
Before(A, t) == {a \in A : a.at < t}

\* A bucket counts at least what was let through since it was made, and was
\* made within the limit of what the one before it left; a key without a
\* bucket had its last one pruned after its window.
Fits(k, bs, A) ==
  /\ k \in DOMAIN bs =>
       /\ bs[k].start <= now
       /\ bs[k].count <= LimitOf(k)
       /\ \A a \in A : a.at < bs[k].start + Window
       /\ Cardinality(Since(A, bs[k].start)) <= bs[k].count
       /\ Cardinality(Before(A, bs[k].start)) <= LimitOf(k)
  /\ k \notin DOMAIN bs =>
       /\ \A a \in A : a.at < now
       /\ Cardinality(A) <= LimitOf(k)

LimiterInv == Recent /\ \A k \in Key : Fits(k, buckets, admitted[k])

\* The counts of tries that p can have made so far: those before this one, and
\* this one once it has been counted.
Tally(p) == tries[p] + (IF pc[p] \in {"refused", "run", "done"} THEN 1 ELSE 0)
Tallied(o) == {c \in Press \X Try : Charged(c[1]) = o /\ c[2] < Tally(c[1])}

\* No more runs pass than are counted, nor than the limit; no more are counted
\* than were tried; whoever is refused for the day has seen the limit exceeded.
DailyInv ==
  /\ \A d \in Day, o \in Owner : passed[d][o] <= usage[d][o]
  /\ \A d \in Day, p \in Press : passed[d][Charged(p)] <= RunsPerDay(p)
  /\ \A d \in Day, o \in Owner : usage[d][o] <= Cardinality(Tallied(o))
  /\ \A p \in Press : pc[p] = "idle" => tries[p] = 0
  /\ \A p \in Press : pc[p] = "refused" =>
       \E d \in Day : usage[d][Charged(p)] > RunsPerDay(p)

\* A press has been told nothing until it is done, and the day that refused it
\* is not over later than the day it is.
ToldInv ==
  \A p \in Press :
    /\ pc[p] # "done" => told[p] = 0
    /\ pc[p] = "refused" => over[p] <= DayEnds(DayOf(now))

-----------------------------------------------------------------------------
(* Constants, division, and the map of buckets                             *)

\* The constants have the types that were assumed of them.
LEMMA Constants ==
  /\ Second \in Nat \ {0} /\ Window \in Nat \ {0} /\ DayLength \in Nat \ {0}
  /\ MaxTime \in Nat /\ MaxBuckets \in Nat /\ MaxRetries \in Nat
  /\ \A k \in Key : LimitOf(k) \in Nat
  /\ \A p \in Press :
       /\ DeviceOf[p] \in Key /\ AddressOf[p] \in Key /\ Charged(p) \in Owner
       /\ RunsPerDay(p) \in Nat
BY KeyAssumption, LimitAssumption, ClockAssumption
   DEF KeyAssumption, LimitAssumption, ClockAssumption, Key, LimitOf, Charged, RunsPerDay

\* Division by a positive number.
LEMMA Division ==
  ASSUME NEW a \in Int, NEW n \in Nat \ {0}
  PROVE  /\ a \div n \in Int
         /\ (a \div n) * n <= a
         /\ a < (a \div n + 1) * n
<1>1. a \div n \in Int /\ a % n \in 0 .. n - 1
  OBVIOUS
<1>2. a = n * (a \div n) + (a % n)
  OBVIOUS
<1> QED BY <1>1, <1>2

\* It is monotone, and keeps a natural number one.
LEMMA DivisionMonotone ==
  ASSUME NEW a \in Int, NEW b \in Int, NEW n \in Nat \ {0}, a <= b
  PROVE  a \div n <= b \div n
<1> DEFINE q == a \div n
           r == b \div n
<1>1. q \in Int /\ r \in Int /\ q * n <= a /\ b < (r + 1) * n
  BY Division
<1>2. q * n < (r + 1) * n
  BY <1>1
<1>3. CASE q > r
  <2>1. (q - (r + 1)) * n >= 0
    BY <1>1, <1>3
  <2> QED BY <1>1, <1>2, <2>1
<1> QED BY <1>1, <1>3

\* The day it is, is one of the days.
LEMMA DayIsDay ==
  ASSUME NEW t \in Instant
  PROVE  DayOf(t) \in Day
<1>1. 0 \div DayLength = 0
  <2>1. 0 \div DayLength \in Int
        /\ (0 \div DayLength) * DayLength <= 0 /\ 0 < (0 \div DayLength + 1) * DayLength
    BY Division, Constants
  <2> QED BY <2>1, Constants
<1>2. 0 \div DayLength <= t \div DayLength /\ t \div DayLength <= MaxTime \div DayLength
  BY DivisionMonotone, Constants DEF Instant
<1> QED BY <1>1, <1>2, Division, Constants DEF Day, DayOf, Instant

\* A delay in whole seconds is not shorter than the delay.
LEMMA WholeSecondsSuffice ==
  ASSUME NEW d \in Int
  PROVE  WholeSeconds(d) \in Int /\ WholeSeconds(d) >= d
BY Division, Constants DEF WholeSeconds

\* Making or finding k's bucket loses no bucket but expired ones, and changes
\* none but k's.
LEMMA OpenedFacts ==
  ASSUME TypeOK, NEW k \in Key
  PROVE  /\ BucketOf(k) \in Bucket
         /\ k \in DOMAIN Opened(k) /\ Opened(k)[k] = BucketOf(k)
         /\ DOMAIN Opened(k) \subseteq Key
         /\ Opened(k) \in [DOMAIN Opened(k) -> Bucket]
         /\ \A j \in DOMAIN Opened(k) \ {k} :
              j \in DOMAIN buckets /\ Opened(k)[j] = buckets[j]
         /\ \A j \in DOMAIN buckets \ DOMAIN Opened(k) : Expired(buckets[j])
<1> DEFINE bs == [j \in DOMAIN buckets \cup {k} |-> IF j = k THEN BucketOf(k) ELSE buckets[j]]
<1>1. BucketOf(k) \in Bucket
  BY DEF TypeOK, BucketOf, Fresh, Bucket, Instant
<1>2. DOMAIN bs = DOMAIN buckets \cup {k} /\ bs \in [DOMAIN bs -> Bucket]
  BY <1>1 DEF TypeOK
<1>3. CASE Opened(k) = bs
  BY <1>1, <1>2, <1>3 DEF TypeOK
<1>4. CASE Fresh(k) /\ Opened(k) = Prune(bs)
  <2>1. DOMAIN Opened(k) = {j \in DOMAIN bs : ~Expired(bs[j])}
    BY <1>4 DEF Prune
  <2>2. \A j \in DOMAIN Opened(k) : Opened(k)[j] = bs[j]
    BY <1>4 DEF Prune
  <2>3. ~Expired(bs[k])
    <3>1. bs[k] = [start |-> now, count |-> 0]
      BY <1>4 DEF BucketOf
    <3> QED BY <3>1, Constants DEF Expired, TypeOK, Instant
  <2>4. Opened(k) \in [DOMAIN Opened(k) -> Bucket]
    BY <1>4, <2>1, <2>2, <1>2 DEF Prune
  <2> HIDE DEF bs
  <2>5. \A j \in DOMAIN buckets : j # k => bs[j] = buckets[j]
    BY DEF bs
  <2>6. bs[k] = BucketOf(k)
    BY DEF bs
  <2> QED BY <1>1, <1>2, <2>1, <2>2, <2>3, <2>4, <2>5, <2>6 DEF TypeOK
<1> QED BY <1>3, <1>4 DEF Opened

-----------------------------------------------------------------------------
(* Types                                                                   *)

\* A press that a limiter lets through keeps the shape of the state.
LEMMA TypeAllow ==
  ASSUME TypeOK, NEW p \in Press, NEW k \in Key, NEW next \in PC, Allow(p, k, next)
  PROVE  TypeOK'
<1>1. buckets' \in [DOMAIN Opened(k) -> Bucket] /\ DOMAIN buckets' = DOMAIN Opened(k)
  <2>1. [Opened(k)[k] EXCEPT !.count = @ + 1] \in Bucket
    BY OpenedFacts DEF Bucket
  <2> QED BY <2>1, OpenedFacts DEF Allow
<1>2. [press |-> p, try |-> tries[p], at |-> now] \in Passage
  BY DEF TypeOK, Passage, Try
<1>3. admitted' \in [Key -> SUBSET Passage]
  BY <1>2 DEF Allow, TypeOK
<1>4. pc' \in [Press -> PC]
  BY DEF Allow, TypeOK
<1> QED BY <1>1, <1>3, <1>4, OpenedFacts DEF Allow, TypeOK, dailyVars, pageVars, toldVars

\* So does a press that a limiter refuses: its delay is a number.
LEMMA TypeRefuse ==
  ASSUME TypeOK, NEW p \in Press, NEW k \in Key, Refuse(p, k)
  PROVE  TypeOK'
<1> DEFINE ends == BucketOf(k).start + Window
<1>1. ends \in Nat /\ now \in Nat
  BY OpenedFacts, Constants DEF Bucket, Instant, TypeOK
<1>2. ends - now >= 0 => now + WholeSeconds(ends - now) \in Nat
  BY <1>1, WholeSecondsSuffice
<1>3. ends - now >= 0
  BY <1>1, Constants DEF BucketOf, Fresh, Expired, TypeOK, Bucket, Instant
<1>4. told' \in [Press -> Nat] /\ over' \in [Press -> Nat]
  BY <1>1, <1>2, <1>3 DEF Refuse, TypeOK
<1>5. pc' \in [Press -> PC]
  BY DEF Refuse, TypeOK, PC
<1> QED BY <1>4, <1>5, OpenedFacts DEF Refuse, TypeOK, dailyVars, pageVars

\* So do the count of the day, its failure and its refusal.
LEMMA TypeCount ==
  ASSUME TypeOK, NEW p \in Press, Count(p) \/ CountFails(p) \/ RefuseDay(p)
  PROVE  TypeOK'
<1> DEFINE d == DayOf(now)
<1>1. d \in Day /\ d \in Nat /\ Charged(p) \in Owner /\ DayEnds(d) \in Nat
  BY DayIsDay, Constants DEF TypeOK, Day, DayEnds
<1>2. CASE Count(p)
  <2>1. usage' \in [Day -> [Owner -> Nat]]
    BY <1>1, <1>2 DEF Count, TypeOK
  <2>2. passed' \in [Day -> [Owner -> Nat]]
    BY <1>1, <1>2 DEF Count, TypeOK, Charged
  <2>3. over' \in [Press -> Nat] /\ pc' \in [Press -> PC]
    BY <1>1, <1>2 DEF Count, TypeOK, PC
  <2> QED BY <1>2, <2>1, <2>2, <2>3 DEF Count, TypeOK, limiterVars, pageVars
<1>3. CASE CountFails(p)
  <2>1. usage' \in [Day -> [Owner -> Nat]]
    BY <1>1, <1>3 DEF CountFails, TypeOK
  <2> QED BY <1>3, <2>1 DEF CountFails, TypeOK, PC, limiterVars, pageVars, toldVars
<1>4. CASE RefuseDay(p)
  <2>1. now \in Nat /\ DayEnds(d) >= now
    BY <1>1, Division, Constants DEF DayEnds, DayOf, TypeOK, Instant
  <2>2. now + WholeSeconds(DayEnds(d) - now) \in Nat
    BY <1>1, <2>1, WholeSecondsSuffice
  <2>3. told' \in [Press -> Nat]
    BY <1>4, <2>2 DEF RefuseDay, TypeOK
  <2> QED BY <1>4, <2>3 DEF RefuseDay, TypeOK, PC, limiterVars, dailyVars, pageVars
<1> QED BY <1>2, <1>3, <1>4

\* So do the steps of the page: it retries only below MaxRetries.
LEMMA TypePage ==
  ASSUME TypeOK, NEW p \in Press, Send(p) \/ Answered(p) \/ Busy(p) \/ Resend(p)
  PROVE  TypeOK'
<1> USE DEF TypeOK, PC, limiterVars, dailyVars, toldVars
<1>1. CASE Send(p)
  BY <1>1 DEF Send, pageVars
<1>2. CASE Answered(p)
  BY <1>2 DEF Answered, pageVars
<1>3. CASE Busy(p)
  <2>1. \A n \in Nat : BackoffOf(n) \in Nat
    <3>1. Backoff \in Seq(Nat) /\ Backoff # <<>> /\ Len(Backoff) \in Nat
      BY ClockAssumption DEF ClockAssumption
    <3>2. Len(Backoff) >= 1 /\ \A i \in 1 .. Len(Backoff) : Backoff[i] \in Nat
      BY <3>1
    <3> QED BY <3>1, <3>2 DEF BackoffOf
  <2>2. tries[p] \in Nat /\ now \in Nat
    BY DEF Try, Instant
  <2>3. wake' \in [Press -> Nat]
    BY <1>3, <2>1, <2>2 DEF Busy, pageVars
  <2>4. tries' \in [Press -> Try]
    BY <1>3, Constants DEF Busy, MayRetry, Try, pageVars
  <2> QED BY <1>3, <2>3, <2>4 DEF Busy
<1>4. CASE Resend(p)
  BY <1>4 DEF Resend
<1> QED BY <1>1, <1>2, <1>3, <1>4

\* So do a restart and the clock.
LEMMA TypeWorld ==
  ASSUME TypeOK, Restart \/ Tick \/ UNCHANGED vars
  PROVE  TypeOK'
<1>1. CASE Restart
  BY <1>1 DEF Restart, TypeOK, PC, dailyVars, pageVars, toldVars
<1>2. CASE Tick
  <2>1. now' \in Instant
    BY <1>2, Constants DEF Tick, TypeOK, Instant
  <2>2. admitted' \in [Key -> SUBSET Passage]
    BY <1>2 DEF Tick, TypeOK
  <2> QED BY <1>2, <2>1, <2>2 DEF Tick, TypeOK, dailyVars, pageVars, toldVars
<1>3. CASE UNCHANGED vars
  BY <1>3 DEF TypeOK, vars, limiterVars, dailyVars, pageVars, toldVars
<1> QED BY <1>1, <1>2, <1>3

\* The state has its shape at the start.
LEMMA InitTypeOK == Init => TypeOK
<1> SUFFICES ASSUME Init PROVE TypeOK
  OBVIOUS
<1>1. 0 \in Try /\ 0 \in Instant
  BY Constants DEF Try, Instant
<1> QED BY <1>1 DEF Init, TypeOK, PC

\* Every step keeps it.
LEMMA NextTypeOK == TypeOK /\ [Next]_vars => TypeOK'
<1> SUFFICES ASSUME TypeOK, [Next]_vars PROVE TypeOK'
  OBVIOUS
<1>1. ASSUME NEW p \in Press, Step(p) PROVE TypeOK'
  <2>1. DeviceOf[p] \in Key /\ AddressOf[p] \in Key
    BY Constants
  <2>2. CASE AllowDevice(p) \/ AllowAddress(p)
    BY <2>1, <2>2, TypeAllow DEF AllowDevice, AllowAddress, PC
  <2>3. CASE RefuseDevice(p) \/ RefuseAddress(p)
    BY <2>1, <2>3, TypeRefuse DEF RefuseDevice, RefuseAddress
  <2> QED BY <1>1, <2>2, <2>3, TypeCount, TypePage DEF Step
<1> QED BY <1>1, TypeWorld DEF Next

\* A press is sent again at most MaxRetries times, and the state has its shape.
THEOREM TypeCorrect == Spec => []TypeOK
<1> QED BY InitTypeOK, NextTypeOK, PTL DEF Spec

-----------------------------------------------------------------------------
(* The limiter                                                             *)

\* What a key let through splits at any instant.
LEMMA SplitAt ==
  ASSUME NEW A \in SUBSET Passage, IsFiniteSet(A), NEW t \in Int
  PROVE  /\ IsFiniteSet(Since(A, t)) /\ Cardinality(Since(A, t)) \in Nat
         /\ IsFiniteSet(Before(A, t)) /\ Cardinality(Before(A, t)) \in Nat
         /\ Cardinality(A) \in Nat
         /\ Cardinality(A) <= Cardinality(Since(A, t)) + Cardinality(Before(A, t))
<1>1. Since(A, t) \subseteq A /\ Before(A, t) \subseteq A
  BY DEF Since, Before
<1>2. IsFiniteSet(Since(A, t)) /\ IsFiniteSet(Before(A, t))
  BY <1>1, FS_Subset
<1>3. A = Since(A, t) \cup Before(A, t)
  BY DEF Since, Before, Passage, Instant
<1>4. Since(A, t) \cap Before(A, t) \subseteq A
  BY <1>1
<1>5. IsFiniteSet(Since(A, t) \cap Before(A, t))
  BY <1>4, FS_Subset
<1> HIDE DEF Since, Before
<1>6. Cardinality(A) = Cardinality(Since(A, t)) + Cardinality(Before(A, t))
                         - Cardinality(Since(A, t) \cap Before(A, t))
  BY <1>2, <1>3, FS_Union
<1> QED BY <1>2, <1>5, <1>6, FS_CardinalityType

\* Once a bucket has expired nothing it let through is as recent as now, and
\* nothing of the bucket before it is recent at all.
LEMMA ExpiredFits ==
  ASSUME TypeOK, LimiterInv, NEW k \in Key, k \in DOMAIN buckets => Expired(buckets[k])
  PROVE  /\ \A a \in admitted[k] : a.at < now
         /\ Cardinality(admitted[k]) <= LimitOf(k)
<1>1. CASE k \notin DOMAIN buckets
  BY <1>1 DEF LimiterInv, Fits
<1>2. CASE k \in DOMAIN buckets
  <2> DEFINE s == buckets[k].start
  <2>1. s \in Int /\ now \in Int /\ now - s >= Window /\ buckets[k].count \in Int
    BY <1>2 DEF TypeOK, Bucket, Instant, Expired
  <2>2. \A a \in admitted[k] : a.at \in Int /\ a.at < s + Window /\ now - a.at < Window
    BY <1>2 DEF LimiterInv, Fits, Recent, TypeOK, Passage, Instant
  <2>3. \A a \in admitted[k] : a.at < now /\ a.at >= s
    BY <2>1, <2>2, Constants
  <2>4. Since(admitted[k], s) = admitted[k]
    BY <2>3 DEF Since
  <2>5. Cardinality(Since(admitted[k], s)) <= buckets[k].count /\ buckets[k].count <= LimitOf(k)
    BY <1>2 DEF LimiterInv, Fits
  <2>6. Cardinality(admitted[k]) \in Nat
    BY FS_CardinalityType DEF LimiterInv, Recent
  <2> QED BY <2>1, <2>3, <2>4, <2>5, <2>6, Constants
<1> QED BY <1>1, <1>2

\* Making or finding a bucket, and the pruning it brings, keep the invariant.
LEMMA OpenedFits ==
  ASSUME TypeOK, LimiterInv, NEW k \in Key, NEW j \in Key
  PROVE  Fits(j, Opened(k), admitted[j])
<1>1. CASE j = k /\ Fresh(k)
  <2>1. k \in DOMAIN Opened(k) /\ Opened(k)[k] = [start |-> now, count |-> 0]
    BY <1>1, OpenedFacts DEF BucketOf
  <2>2. /\ \A a \in admitted[k] : a.at < now
        /\ Cardinality(admitted[k]) <= LimitOf(k)
    BY <1>1, ExpiredFits DEF Fresh
  <2>3. \A a \in admitted[k] : a.at \in Int
    BY DEF TypeOK, Passage, Instant
  <2>4. Since(admitted[k], now) = {} /\ Before(admitted[k], now) = admitted[k]
    BY <2>2, <2>3 DEF Since, Before, TypeOK, Instant
  <2>5. \A a \in admitted[k] : a.at < now + Window
    BY <2>2, <2>3, Constants DEF TypeOK, Instant
  <2>6. LimitOf(k) >= 0 /\ now <= now
    BY Constants DEF TypeOK, Instant
  <2> QED BY <1>1, <2>1, <2>2, <2>4, <2>5, <2>6, FS_EmptySet DEF Fits
<1>2. CASE j = k /\ ~Fresh(k)
  <2>1. k \in DOMAIN Opened(k) /\ Opened(k)[k] = buckets[k] /\ k \in DOMAIN buckets
    BY <1>2, OpenedFacts DEF BucketOf, Fresh
  <2> QED BY <1>2, <2>1 DEF LimiterInv, Fits
<1>3. CASE j # k /\ j \in DOMAIN Opened(k)
  BY <1>3, OpenedFacts DEF LimiterInv, Fits
<1>4. CASE j # k /\ j \notin DOMAIN Opened(k)
  <2>1. j \in DOMAIN buckets => Expired(buckets[j])
    BY <1>4, OpenedFacts
  <2> QED BY <1>4, <2>1, ExpiredFits DEF Fits
<1> QED BY <1>1, <1>2, <1>3, <1>4

\* Letting a press through keeps buckets and admitted tries in step.
LEMMA AllowLimiterInv ==
  ASSUME TypeOK, LimiterInv, NEW p \in Press, NEW k \in Key, NEW next \in PC, Allow(p, k, next)
  PROVE  LimiterInv'
<1> DEFINE e == [press |-> p, try |-> tries[p], at |-> now]
           b == BucketOf(k)
<1>1. now' = now /\ now \in Int
  BY DEF Allow, TypeOK, Instant
<1>2. admitted' = [admitted EXCEPT ![k] = admitted[k] \cup {e}]
  BY DEF Allow
<1>3. admitted'[k] = admitted[k] \cup {e} /\ \A j \in Key \ {k} : admitted'[j] = admitted[j]
  BY <1>2 DEF TypeOK
<1>4. Recent'
  <2>1. \A j \in Key : IsFiniteSet(admitted'[j])
    <3>1. IsFiniteSet(admitted[k] \cup {e})
      BY FS_AddElement DEF LimiterInv, Recent
    <3> QED BY <1>3, <3>1 DEF LimiterInv, Recent
  <2>2. \A j \in Key : \A a \in admitted'[j] : a.at <= now /\ now - a.at < Window
    BY <1>1, <1>3, Constants DEF LimiterInv, Recent
  <2> QED BY <1>1, <2>1, <2>2 DEF Recent
<1>5. ASSUME NEW j \in Key, j # k
      PROVE  Fits(j, buckets, admitted[j])'
  <2>1. j \in DOMAIN buckets' <=> j \in DOMAIN Opened(k)
    BY OpenedFacts DEF Allow
  <2>2. j \in DOMAIN Opened(k) => buckets'[j] = Opened(k)[j]
    BY <1>5, OpenedFacts DEF Allow
  <2>3. Fits(j, Opened(k), admitted[j])
    BY OpenedFits
  <2> QED BY <1>1, <1>3, <1>5, <2>1, <2>2, <2>3 DEF Fits, LimitOf
<1>6. Fits(k, buckets, admitted[k])'
  <2>1. k \in DOMAIN buckets' /\ buckets'[k] = [b EXCEPT !.count = b.count + 1]
    BY OpenedFacts DEF Allow
  <2>2. b \in Bucket
    BY OpenedFacts
  <2>3. buckets'[k].start = b.start /\ buckets'[k].count = b.count + 1
    BY <2>1, <2>2 DEF Bucket
  <2>4. /\ b.start <= now /\ \A a \in admitted[k] : a.at < b.start + Window
        /\ Cardinality(Since(admitted[k], b.start)) <= b.count
        /\ Cardinality(Before(admitted[k], b.start)) <= LimitOf(k)
    BY OpenedFacts, OpenedFits DEF Fits
  <2>5. b.start \in Int /\ b.count \in Int /\ LimitOf(k) \in Int
    BY <2>2, Constants DEF Bucket, Instant
  <2>6. b.count + 1 <= LimitOf(k)
    BY <2>5 DEF Allow, Full
  <2>7. now < b.start + Window
    BY <1>1, Constants DEF BucketOf, Fresh, Expired, TypeOK, Bucket, Instant
  <2>8. Since(admitted'[k], b.start) = Since(admitted[k], b.start) \cup {e}
    BY <1>3, <2>4 DEF Since
  <2>9. Before(admitted'[k], b.start) = Before(admitted[k], b.start)
    BY <1>1, <1>3, <2>4, <2>5 DEF Before
  <2>10. Cardinality(Since(admitted'[k], b.start)) <= b.count + 1
    <3> DEFINE S == Since(admitted[k], b.start)
    <3>1. IsFiniteSet(S) /\ Cardinality(S) \in Nat
      BY <2>5, SplitAt DEF TypeOK, LimiterInv, Recent
    <3>2. Cardinality(S) <= b.count
      BY <2>4
    <3>3. Since(admitted'[k], b.start) = S \cup {e}
      BY <2>8
    <3> HIDE DEF S, e
    <3>4. Cardinality(S \cup {e}) <= Cardinality(S) + 1 /\ Cardinality(S \cup {e}) \in Nat
      <4>1. /\ IsFiniteSet(S \cup {e})
            /\ Cardinality(S \cup {e}) = IF e \in S THEN Cardinality(S) ELSE Cardinality(S) + 1
        BY <3>1, FS_AddElement
      <4>2. CASE e \in S
        BY <3>1, <4>1, <4>2
      <4>3. CASE e \notin S
        BY <3>1, <4>1, <4>3
      <4> QED BY <4>2, <4>3
    <3> QED BY <2>5, <3>1, <3>2, <3>3, <3>4
  <2>11. \A a \in admitted'[k] : a.at < b.start + Window
    BY <1>3, <2>4, <2>7
  <2>12. LimitOf(k)' = LimitOf(k)
    BY DEF LimitOf
  <2> QED BY <1>1, <2>1, <2>3, <2>4, <2>6, <2>9, <2>10, <2>11 DEF Fits, LimitOf
<1> QED BY <1>4, <1>5, <1>6 DEF LimiterInv

\* A refusal admits nothing, and replaces a bucket by what BucketOf reads anyway.
LEMMA RefuseLimiterInv ==
  ASSUME TypeOK, LimiterInv, NEW p \in Press, NEW k \in Key, Refuse(p, k)
  PROVE  LimiterInv'
<1>1. now' = now /\ admitted' = admitted /\ buckets' = Opened(k)
  BY DEF Refuse
<1>2. \A j \in Key : Fits(j, Opened(k), admitted[j])
  BY OpenedFits
<1> QED BY <1>1, <1>2 DEF LimiterInv, Recent, Fits, LimitOf

\* As time passes, tries leave the span that admitted covers.
LEMMA TickLimiterInv ==
  ASSUME TypeOK, LimiterInv, Tick
  PROVE  LimiterInv'
<1>1. now' = now + 1 /\ now \in Int /\ buckets' = buckets
  BY DEF Tick, TypeOK, Instant
<1>2. ASSUME NEW k \in Key
      PROVE  /\ admitted'[k] \subseteq admitted[k] /\ IsFiniteSet(admitted'[k])
             /\ \A a \in admitted'[k] : a.at \in Int /\ now' - a.at < Window
             /\ Cardinality(admitted'[k]) \in Nat /\ Cardinality(admitted[k]) \in Nat
             /\ Cardinality(admitted'[k]) <= Cardinality(admitted[k])
  <2>1. admitted'[k] = {a \in admitted[k] : now' - a.at < Window}
    BY DEF Tick
  <2>2. IsFiniteSet(admitted[k])
    BY DEF LimiterInv, Recent
  <2>3. \A a \in admitted[k] : a.at \in Int
    BY DEF TypeOK, Passage, Instant
  <2>4. admitted'[k] \subseteq admitted[k]
    BY <2>1
  <2> QED BY <2>1, <2>2, <2>3, <2>4, FS_Subset, FS_CardinalityType
<1>3. Recent'
  BY <1>1, <1>2 DEF LimiterInv, Recent
<1>4. ASSUME NEW k \in Key
      PROVE  Fits(k, buckets, admitted[k])'
  <2>1. CASE k \in DOMAIN buckets
    <3> DEFINE t == buckets[k].start
    <3>1. t \in Int /\ buckets[k].count \in Int /\ LimitOf(k) \in Int
      BY <2>1, Constants DEF TypeOK, Bucket, Instant
    <3>2. admitted[k] \in SUBSET Passage /\ IsFiniteSet(admitted[k])
      BY DEF TypeOK, LimiterInv, Recent
    <3>3. Since(admitted'[k], t) \subseteq Since(admitted[k], t)
          /\ Before(admitted'[k], t) \subseteq Before(admitted[k], t)
      BY <1>2 DEF Since, Before
    <3>4. /\ Cardinality(Since(admitted'[k], t)) <= Cardinality(Since(admitted[k], t))
          /\ Cardinality(Before(admitted'[k], t)) <= Cardinality(Before(admitted[k], t))
      BY <3>1, <3>2, <3>3, SplitAt, FS_Subset
    <3>5. /\ Cardinality(Since(admitted'[k], t)) \in Int /\ Cardinality(Since(admitted[k], t)) \in Int
          /\ Cardinality(Before(admitted'[k], t)) \in Int /\ Cardinality(Before(admitted[k], t)) \in Int
      <4>1. admitted'[k] \in SUBSET Passage /\ IsFiniteSet(admitted'[k])
        BY <1>2, <3>2
      <4>2. /\ Cardinality(Since(admitted'[k], t)) \in Int
            /\ Cardinality(Before(admitted'[k], t)) \in Int
        BY <4>1, <3>1, SplitAt
      <4>3. Cardinality(Since(admitted[k], t)) \in Int /\ Cardinality(Before(admitted[k], t)) \in Int
        BY <3>1, <3>2, SplitAt
      <4> QED BY <4>2, <4>3
    <3>6. /\ t <= now /\ buckets[k].count <= LimitOf(k)
          /\ \A a \in admitted[k] : a.at < t + Window
          /\ Cardinality(Since(admitted[k], t)) <= buckets[k].count
          /\ Cardinality(Before(admitted[k], t)) <= LimitOf(k)
      BY <2>1 DEF LimiterInv, Fits
    <3>7. /\ t <= now'
          /\ \A a \in admitted'[k] : a.at < t + Window
          /\ Cardinality(Since(admitted'[k], t)) <= buckets[k].count
          /\ Cardinality(Before(admitted'[k], t)) <= LimitOf(k)
      BY <1>1, <1>2, <3>1, <3>4, <3>5, <3>6
    <3> QED BY <1>1, <2>1, <3>6, <3>7 DEF Fits, LimitOf
  <2>2. CASE k \notin DOMAIN buckets
    <3>1. (\A a \in admitted[k] : a.at < now) /\ Cardinality(admitted[k]) <= LimitOf(k)
      BY <2>2 DEF LimiterInv, Fits
    <3>2. (\A a \in admitted'[k] : a.at < now') /\ Cardinality(admitted'[k]) <= LimitOf(k)
      BY <1>1, <1>2, <3>1, Constants
    <3> QED BY <1>1, <2>2, <3>2 DEF Fits, LimitOf
  <2> QED BY <2>1, <2>2
<1> QED BY <1>3, <1>4 DEF LimiterInv

\* At the start there is neither a bucket nor an admitted try.
LEMMA InitLimiterInv ==
  ASSUME NEW k \in Key
  PROVE  buckets = [j \in {} |-> 0] /\ admitted[k] = {} => IsFiniteSet(admitted[k]) /\ Fits(k, buckets, admitted[k])
<1>1. 0 <= LimitOf(k)
  BY Constants
<1> QED BY <1>1, FS_EmptySet DEF Fits

\* Every step keeps buckets and admitted tries in step.
LEMMA NextLimiterInv == TypeOK /\ LimiterInv /\ [Next]_vars => LimiterInv'
<1> SUFFICES ASSUME TypeOK, LimiterInv, [Next]_vars PROVE LimiterInv'
  OBVIOUS
<1>1. CASE UNCHANGED <<now, limiterVars>>
  BY <1>1 DEF LimiterInv, Recent, Fits, LimitOf, limiterVars
<1>2. ASSUME NEW p \in Press, Step(p) PROVE LimiterInv'
  <2>1. DeviceOf[p] \in Key /\ AddressOf[p] \in Key
    BY Constants
  <2>2. CASE AllowDevice(p) \/ AllowAddress(p)
    BY <2>1, <2>2, AllowLimiterInv DEF AllowDevice, AllowAddress, PC
  <2>3. CASE RefuseDevice(p) \/ RefuseAddress(p)
    BY <2>1, <2>3, RefuseLimiterInv DEF RefuseDevice, RefuseAddress
  <2>4. CASE Count(p) \/ CountFails(p) \/ RefuseDay(p)
    BY <1>1, <2>4 DEF Count, CountFails, RefuseDay
  <2>5. CASE Send(p) \/ Answered(p) \/ Busy(p) \/ Resend(p)
    BY <1>1, <2>5 DEF Send, Answered, Busy, Resend
  <2> QED BY <1>2, <2>2, <2>3, <2>4, <2>5 DEF Step
<1>3. CASE Restart
  <2>1. \A k \in Key : IsFiniteSet(admitted'[k]) /\ Fits(k, buckets, admitted[k])' /\ admitted'[k] = {}
    <3>1. ASSUME NEW k \in Key PROVE 0 <= LimitOf(k)
      BY Constants
    <3> QED BY <1>3, <3>1, FS_EmptySet DEF Restart, Fits, LimitOf
  <2> QED BY <2>1 DEF LimiterInv, Recent
<1>4. CASE Tick
  BY <1>4, TickLimiterInv
<1>5. CASE UNCHANGED vars
  BY <1>1, <1>5 DEF vars
<1> QED BY <1>2, <1>3, <1>4, <1>5 DEF Next

\* The invariant of the limiter, in every reachable state.
LEMMA LimiterInvariant == Spec => Init /\ [][Next]_vars /\ [](TypeOK /\ LimiterInv)
<1>1. Init => LimiterInv
  <2> SUFFICES ASSUME Init, NEW k \in Key
               PROVE  admitted[k] = {} /\ IsFiniteSet(admitted[k]) /\ Fits(k, buckets, admitted[k])
    BY DEF LimiterInv, Recent
  <2> QED BY InitLimiterInv, FS_EmptySet DEF Init
<1> QED BY <1>1, InitTypeOK, NextTypeOK, NextLimiterInv, PTL DEF Spec

\* However pruning and the replacement of buckets fall, no span of a window's
\* length sees a key let through more than twice its limit.
THEOREM SpansLimited == Spec => []WindowLimit
<1>1. TypeOK /\ LimiterInv => WindowLimit
  <2> SUFFICES ASSUME TypeOK, LimiterInv, NEW k \in Key
               PROVE  Cardinality(admitted[k]) <= 2 * LimitOf(k)
    BY DEF WindowLimit
  <2>1. LimitOf(k) \in Nat /\ Cardinality(admitted[k]) \in Nat
    BY Constants, FS_CardinalityType DEF LimiterInv, Recent
  <2>2. CASE k \in DOMAIN buckets
    <3>1. buckets[k].start \in Int /\ buckets[k].count \in Int
      BY <2>2 DEF TypeOK, Bucket, Instant
    <3>2. admitted[k] \in SUBSET Passage /\ IsFiniteSet(admitted[k])
      BY DEF TypeOK, LimiterInv, Recent
    <3>3. /\ buckets[k].count <= LimitOf(k)
          /\ Cardinality(Since(admitted[k], buckets[k].start)) <= buckets[k].count
          /\ Cardinality(Before(admitted[k], buckets[k].start)) <= LimitOf(k)
      BY <2>2 DEF LimiterInv, Fits
    <3> QED BY <2>1, <3>1, <3>2, <3>3, SplitAt
  <2>3. CASE k \notin DOMAIN buckets
    BY <2>1, <2>3 DEF LimiterInv, Fits
  <2> QED BY <2>2, <2>3
<1> QED BY <1>1, LimiterInvariant, PTL

\* Making a bucket prunes the expired ones when there are too many.
LEMMA OpenedNotStale ==
  ASSUME TypeOK, LimiterInv, NoStaleBuckets, NEW k \in Key
  PROVE  Cardinality(DOMAIN Opened(k)) > MaxBuckets =>
           \A i, j \in DOMAIN Opened(k) : Opened(k)[j].start - Opened(k)[i].start < Window
<1> DEFINE bs == [j \in DOMAIN buckets \cup {k} |-> IF j = k THEN BucketOf(k) ELSE buckets[j]]
<1>1. CASE ~Fresh(k)
  <2>1. Opened(k) = bs /\ DOMAIN bs = DOMAIN buckets
    BY <1>1 DEF Opened, Fresh
  <2>2. \A j \in DOMAIN bs : bs[j] = buckets[j]
    BY <1>1 DEF BucketOf, Fresh
  <2>3. DOMAIN Opened(k) = DOMAIN buckets /\ \A j \in DOMAIN buckets : Opened(k)[j] = buckets[j]
    BY <2>1, <2>2
  <2>4. CASE Cardinality(DOMAIN buckets) > MaxBuckets
    <3>1. \A i, j \in DOMAIN buckets : buckets[j].start - buckets[i].start < Window
      BY <2>4 DEF NoStaleBuckets
    <3> QED BY <2>3, <3>1
  <2>5. CASE ~(Cardinality(DOMAIN buckets) > MaxBuckets)
    BY <2>3, <2>5
  <2> QED BY <2>4, <2>5
<1>2. CASE Fresh(k) /\ ~(Cardinality(DOMAIN bs) > MaxBuckets)
  <2>1. Opened(k) = bs
    BY <1>2 DEF Opened
  <2> HIDE DEF bs
  <2>2. ~(Cardinality(DOMAIN Opened(k)) > MaxBuckets)
    BY <1>2, <2>1, Zenon
  <2> QED BY <2>2
<1>3. CASE Fresh(k) /\ Cardinality(DOMAIN bs) > MaxBuckets
  <2>1. Opened(k) = Prune(bs)
    BY <1>3 DEF Opened
  <2> HIDE DEF bs
  <2>2. \A i \in DOMAIN Opened(k) : ~Expired(Opened(k)[i])
    BY <2>1 DEF Prune
  <2>3. \A i \in DOMAIN Opened(k) : Opened(k)[i].start \in Instant
    BY OpenedFacts DEF Bucket
  <2>4. \A j \in DOMAIN Opened(k) : Opened(k)[j].start <= now
    BY OpenedFacts, OpenedFits DEF Fits
  <2>5. ASSUME NEW i \in DOMAIN Opened(k), NEW j \in DOMAIN Opened(k)
        PROVE  Opened(k)[j].start - Opened(k)[i].start < Window
    <3>1. ~(now - Opened(k)[i].start >= Window) /\ Opened(k)[j].start <= now
      BY <2>2, <2>4 DEF Expired
    <3>2. Opened(k)[i].start \in Int /\ Opened(k)[j].start \in Int /\ now \in Int
      BY <2>3 DEF Instant, TypeOK
    <3> HIDE DEF Opened
    <3> QED BY <3>1, <3>2, Constants
  <2> QED BY <2>5
<1> QED BY <1>1, <1>2, <1>3

\* A map that outgrew its bound is of live buckets only, as of the newest.
THEOREM NothingStale == Spec => []NoStaleBuckets
<1>1. Init => NoStaleBuckets
  BY DEF Init, NoStaleBuckets
<1>2. TypeOK /\ LimiterInv /\ NoStaleBuckets /\ [Next]_vars => NoStaleBuckets'
  <2> SUFFICES ASSUME TypeOK, LimiterInv, NoStaleBuckets, [Next]_vars PROVE NoStaleBuckets'
    OBVIOUS
  <2>1. CASE UNCHANGED buckets
    BY <2>1 DEF NoStaleBuckets
  <2>2. ASSUME NEW p \in Press, NEW k \in Key, NEW next \in PC, Allow(p, k, next) \/ Refuse(p, k)
        PROVE  NoStaleBuckets'
    <3>1. DOMAIN buckets' = DOMAIN Opened(k)
      BY <2>2, OpenedFacts DEF Allow, Refuse
    <3>2. \A j \in DOMAIN Opened(k) : buckets'[j].start = Opened(k)[j].start
      BY <2>2, OpenedFacts DEF Allow, Refuse, Bucket
    <3> QED BY <3>1, <3>2, OpenedNotStale DEF NoStaleBuckets
  <2>3. ASSUME NEW p \in Press, Step(p) PROVE NoStaleBuckets'
    <3>1. DeviceOf[p] \in Key /\ AddressOf[p] \in Key
      BY Constants
    <3>2. CASE AllowDevice(p) \/ RefuseDevice(p) \/ AllowAddress(p) \/ RefuseAddress(p)
      BY <2>2, <3>1, <3>2 DEF AllowDevice, RefuseDevice, AllowAddress, RefuseAddress, PC
    <3>3. CASE Count(p) \/ CountFails(p) \/ RefuseDay(p)
      BY <2>1, <3>3 DEF Count, CountFails, RefuseDay, limiterVars
    <3>4. CASE Send(p) \/ Answered(p) \/ Busy(p) \/ Resend(p)
      BY <2>1, <3>4 DEF Send, Answered, Busy, Resend, limiterVars
    <3> QED BY <2>3, <3>2, <3>3, <3>4 DEF Step
  <2>4. CASE Restart
    BY <2>4 DEF Restart, NoStaleBuckets
  <2>5. CASE Tick \/ UNCHANGED vars
    BY <2>1, <2>5 DEF Tick, vars, limiterVars
  <2> QED BY <2>3, <2>4, <2>5 DEF Next
<1> QED BY <1>1, <1>2, LimiterInvariant, PTL

-----------------------------------------------------------------------------
(* The daily count                                                         *)

\* The tries that there can be are finite in number.
LEMMA TriesFinite ==
  /\ IsFiniteSet(Press) /\ IsFiniteSet(Press \X Try) /\ IsFiniteSet(Try)
  /\ Cardinality(Try) = MaxRetries + 1
<1>1. IsFiniteSet(Press)
  BY KeyAssumption DEF KeyAssumption
<1>2. IsFiniteSet(0 .. MaxRetries) /\ Cardinality(0 .. MaxRetries) = MaxRetries + 1
  BY Constants, FS_Interval
<1>3. IsFiniteSet(Try) /\ Cardinality(Try) = MaxRetries + 1
  BY <1>2 DEF Try
<1> QED BY <1>1, <1>3, FS_Product

\* So are the counts that there can have been.
LEMMA TalliedFinite ==
  ASSUME NEW o
  PROVE  IsFiniteSet(Tallied(o)) /\ Cardinality(Tallied(o)) \in Nat
<1>1. Tallied(o) \subseteq Press \X Try
  BY DEF Tallied
<1> QED BY <1>1, TriesFinite, FS_Subset, FS_CardinalityType

\* They grow with the tallies.
LEMMA TalliedGrows ==
  ASSUME TypeOK, TypeOK', NEW o \in Owner,
         \A p \in Press : Tally(p) <= Tally(p)'
  PROVE  Tallied(o) \subseteq Tallied(o)' /\ Cardinality(Tallied(o)) <= Cardinality(Tallied(o)')
<1>1. \A p \in Press : Tally(p) \in Int /\ Tally(p)' \in Int
  BY DEF Tally, TypeOK, Try
<1>2. ASSUME NEW c \in Tallied(o) PROVE c \in Tallied(o)'
  <2>1. c \in Press \X Try /\ Charged(c[1]) = o /\ c[2] < Tally(c[1])
    BY DEF Tallied
  <2>2. c[1] \in Press /\ c[2] \in Int
    BY <2>1 DEF Try
  <2>3. c[2] < Tally(c[1])'
    BY <1>1, <2>1, <2>2
  <2> QED BY <2>1, <2>3 DEF Tallied, Charged
<1>3. IsFiniteSet(Tallied(o)')
  <2>1. Tallied(o)' \subseteq Press \X Try
    BY DEF Tallied
  <2> QED BY <2>1, TriesFinite, FS_Subset
<1> HIDE DEF Tallied
<1>4. Tallied(o) \subseteq Tallied(o)'
  BY <1>2
<1> QED BY <1>3, <1>4, FS_Subset

\* A try that is being counted has not been counted before.
LEMMA TalliedCount ==
  ASSUME TypeOK, TypeOK', NEW p \in Press, pc[p] = "count", tries' = tries,
         \E s \in {"run", "refused", "done"} : pc' = [pc EXCEPT ![p] = s]
  PROVE  Cardinality(Tallied(Charged(p))) + 1 <= Cardinality(Tallied(Charged(p))')
<1> DEFINE T == Tallied(Charged(p))
           U == Tallied(Charged(p))'
           c == <<p, tries[p]>>
<1>1. \A q \in Press : Tally(q) <= Tally(q)'
  BY DEF Tally, TypeOK, Try, PC
<1>2. T \subseteq U
  BY <1>1, TalliedGrows, Constants
<1>3. c \in U /\ c \notin T
  BY DEF Tallied, Tally, TypeOK, Try, Charged
<1>4. IsFiniteSet(T) /\ Cardinality(T) \in Nat
  BY TalliedFinite
<1>5. IsFiniteSet(U)
  <2>1. U \subseteq Press \X Try
    BY DEF Tallied
  <2> QED BY <2>1, TriesFinite, FS_Subset
<1> HIDE DEF T, U, c
<1>6. Cardinality(T \cup {c}) = Cardinality(T) + 1
  BY <1>3, <1>4, FS_AddElement
<1>7. T \cup {c} \subseteq U
  BY <1>2, <1>3
<1>8. Cardinality(T \cup {c}) <= Cardinality(U)
  BY <1>5, <1>7, FS_Subset
<1>9. Cardinality(U) \in Nat
  BY <1>5, FS_CardinalityType
<1> QED BY <1>4, <1>6, <1>8, <1>9 DEF T, U

\* A count pays for the try that made it, and for the pass it gives.
LEMMA CountDailyInv ==
  ASSUME TypeOK, TypeOK', DailyInv, NEW p \in Press, Count(p)
  PROVE  DailyInv'
<1> DEFINE d == DayOf(now)
           o == Charged(p)
           n == usage[d][o] + 1
<1>1. d \in Day /\ o \in Owner /\ usage[d][o] \in Nat /\ RunsPerDay(p) \in Nat
  BY DayIsDay, Constants DEF TypeOK
<1>2. /\ usage'[d][o] = n
      /\ \A e \in Day, q \in Owner : ~(e = d /\ q = o) => usage'[e][q] = usage[e][q]
  BY <1>1 DEF Count, TypeOK
<1>3. IF n <= RunsPerDay(p)
      THEN /\ passed'[d][o] = passed[d][o] + 1
           /\ \A e \in Day, q \in Owner : ~(e = d /\ q = o) => passed'[e][q] = passed[e][q]
           /\ pc' = [pc EXCEPT ![p] = "run"]
      ELSE passed' = passed /\ pc' = [pc EXCEPT ![p] = "refused"]
  <2>1. CASE n <= RunsPerDay(p)
    BY <1>1, <2>1 DEF Count, WithinDay, TypeOK, Charged
  <2>2. CASE ~(n <= RunsPerDay(p))
    BY <2>2 DEF Count, WithinDay
  <2> QED BY <2>1, <2>2
<1>4. /\ usage \in [Day -> [Owner -> Nat]] /\ passed \in [Day -> [Owner -> Nat]]
      /\ \A q \in Press : RunsPerDay(q) \in Nat /\ Charged(q) \in Owner
  BY Constants DEF TypeOK
<1>5. \A e \in Day, q \in Owner : passed'[e][q] <= usage'[e][q]
  <2> SUFFICES ASSUME NEW e \in Day, NEW q \in Owner PROVE passed'[e][q] <= usage'[e][q]
    OBVIOUS
  <2>1. passed[e][q] <= usage[e][q] /\ passed[e][q] \in Nat /\ usage[e][q] \in Nat
    BY <1>4 DEF DailyInv
  <2> QED BY <1>1, <1>2, <1>3, <2>1
<1>6. \A e \in Day, q \in Press : passed'[e][Charged(q)] <= RunsPerDay(q)
  <2> SUFFICES ASSUME NEW e \in Day, NEW q \in Press
               PROVE  passed'[e][Charged(q)] <= RunsPerDay(q)
    OBVIOUS
  <2>1. passed[e][Charged(q)] <= RunsPerDay(q) /\ Charged(q) \in Owner
    BY <1>4 DEF DailyInv
  <2>2. Charged(q) = o => RunsPerDay(q) = RunsPerDay(p)
    BY DEF Charged, RunsPerDay
  <2>3. passed[d][o] <= usage[d][o] /\ passed[d][o] \in Nat
    BY <1>1, <1>4 DEF DailyInv
  <2> QED BY <1>1, <1>3, <2>1, <2>2, <2>3
<1>7. ASSUME NEW e \in Day, NEW q \in Owner
      PROVE  usage'[e][q] <= Cardinality(Tallied(q)')
  <2>1. usage[e][q] <= Cardinality(Tallied(q)) /\ usage[e][q] \in Nat
    BY <1>4 DEF DailyInv
  <2>2. Cardinality(Tallied(q)) \in Nat /\ Cardinality(Tallied(q)') \in Nat
    <3>1. Tallied(q)' \subseteq Press \X Try
      BY DEF Tallied
    <3> QED BY <3>1, TalliedFinite, TriesFinite, FS_Subset, FS_CardinalityType
  <2>3. tries' = tries /\ pc[p] = "count" /\ \E s \in {"run", "refused", "done"} : pc' = [pc EXCEPT ![p] = s]
    BY <1>3 DEF Count, pageVars
  <2>4. CASE q = o
    <3>1. Cardinality(Tallied(q)) + 1 <= Cardinality(Tallied(q)')
      BY <2>3, <2>4, TalliedCount
    <3>2. usage'[e][q] <= usage[e][q] + 1
      BY <1>2, <2>1, <2>4
    <3> QED BY <1>1, <1>2, <2>1, <2>2, <2>4, <3>1, <3>2
  <2>5. CASE q # o
    <3>1. \A r \in Press : Tally(r) <= Tally(r)'
      BY <2>3 DEF Tally, TypeOK, Try, PC
    <3> QED BY <1>2, <2>1, <2>2, <2>5, <3>1, TalliedGrows
  <2> QED BY <2>4, <2>5
<1>8. \A q \in Press : pc'[q] = "idle" => tries'[q] = 0
  BY <1>3 DEF Count, DailyInv, TypeOK, pageVars
<1>9. ASSUME NEW q \in Press, pc'[q] = "refused"
      PROVE  \E e \in Day : usage'[e][Charged(q)] > RunsPerDay(q)
  <2>1. CASE q = p
    BY <1>1, <1>2, <1>3, <1>9, <2>1 DEF TypeOK
  <2>2. CASE q # p
    <3>1. PICK e \in Day : usage[e][Charged(q)] > RunsPerDay(q)
      BY <1>3, <1>9, <2>2 DEF DailyInv, TypeOK
    <3>2. usage'[e][Charged(q)] >= usage[e][Charged(q)] /\ usage'[e][Charged(q)] \in Nat
      BY <1>1, <1>2, <1>4
    <3> QED BY <1>4, <3>1, <3>2
  <2> QED BY <2>1, <2>2
<1> QED BY <1>5, <1>6, <1>7, <1>8, <1>9 DEF DailyInv, Charged, RunsPerDay

\* A count whose answer is lost may pay and gives no pass.
LEMMA CountFailsDailyInv ==
  ASSUME TypeOK, TypeOK', DailyInv, NEW p \in Press, CountFails(p)
  PROVE  DailyInv'
<1> DEFINE d == DayOf(now)
           o == Charged(p)
<1>1. /\ d \in Day /\ o \in Owner /\ passed' = passed /\ tries' = tries
      /\ pc[p] = "count" /\ pc' = [pc EXCEPT ![p] = "done"]
  BY DayIsDay, Constants DEF TypeOK, CountFails, pageVars
<1>2. /\ usage'[d][o] \in {usage[d][o], usage[d][o] + 1}
      /\ \A e \in Day, q \in Owner : ~(e = d /\ q = o) => usage'[e][q] = usage[e][q]
  <2>1. PICK n \in {0, 1} : usage' = [usage EXCEPT ![d][o] = @ + n]
    BY DEF CountFails
  <2>2. usage[d][o] \in Nat
    BY <1>1 DEF TypeOK
  <2> QED BY <1>1, <2>1, <2>2 DEF TypeOK
<1>3. \A e \in Day, q \in Owner :
        /\ usage[e][q] \in Nat /\ usage'[e][q] \in Nat /\ passed[e][q] \in Nat
        /\ usage[e][q] <= usage'[e][q]
        /\ usage'[e][q] <= usage[e][q] + 1 /\ (q # o => usage'[e][q] = usage[e][q])
  BY <1>1, <1>2 DEF TypeOK
<1>4. ASSUME NEW e \in Day, NEW q \in Owner
      PROVE  usage'[e][q] <= Cardinality(Tallied(q)')
  <2>1. usage[e][q] <= Cardinality(Tallied(q))
    BY DEF DailyInv
  <2>2. Cardinality(Tallied(q)) \in Nat /\ Cardinality(Tallied(q)') \in Nat
    <3>1. Tallied(q)' \subseteq Press \X Try
      BY DEF Tallied
    <3> QED BY <3>1, TalliedFinite, TriesFinite, FS_Subset, FS_CardinalityType
  <2>3. CASE q = o
    <3>1. Cardinality(Tallied(q)) + 1 <= Cardinality(Tallied(q)')
      BY <1>1, <2>3, TalliedCount
    <3> QED BY <1>3, <2>1, <2>2, <3>1
  <2>4. CASE q # o
    <3>1. \A r \in Press : Tally(r) <= Tally(r)'
      BY <1>1 DEF Tally, TypeOK, Try, PC
    <3> QED BY <1>3, <2>1, <2>2, <2>4, <3>1, TalliedGrows
  <2> QED BY <2>3, <2>4
<1>5. \A e \in Day, q \in Owner : passed'[e][q] <= usage'[e][q]
  BY <1>1, <1>3 DEF DailyInv
<1>6. \A e \in Day, q \in Press : passed'[e][Charged(q)] <= RunsPerDay(q)
  BY <1>1 DEF DailyInv
<1>7. \A q \in Press : pc'[q] = "idle" => tries'[q] = 0
  BY <1>1 DEF DailyInv, TypeOK
<1>8. ASSUME NEW q \in Press, pc'[q] = "refused"
      PROVE  \E e \in Day : usage'[e][Charged(q)] > RunsPerDay(q)
  <2>1. PICK e \in Day : usage[e][Charged(q)] > RunsPerDay(q)
    BY <1>1, <1>8 DEF DailyInv, TypeOK
  <2>2. Charged(q) \in Owner /\ RunsPerDay(q) \in Nat
    BY Constants
  <2> QED BY <1>3, <2>1, <2>2
<1> QED BY <1>4, <1>5, <1>6, <1>7, <1>8 DEF DailyInv, Charged, RunsPerDay

\* A step that counts nothing.
LEMMA OtherDailyInv ==
  ASSUME TypeOK, TypeOK', DailyInv, UNCHANGED dailyVars,
         \A p \in Press :
           /\ Tally(p) <= Tally(p)'
           /\ pc'[p] = "idle" => pc[p] = "idle" /\ tries'[p] = tries[p]
           /\ pc'[p] = "refused" => pc[p] = "refused"
  PROVE  DailyInv'
<1>1. usage' = usage /\ passed' = passed
  BY DEF dailyVars
<1>2. ASSUME NEW d \in Day, NEW o \in Owner
      PROVE  usage[d][o] <= Cardinality(Tallied(o)')
  <2>1. usage[d][o] <= Cardinality(Tallied(o)) /\ Cardinality(Tallied(o)) <= Cardinality(Tallied(o)')
    BY TalliedGrows DEF DailyInv
  <2>2. Cardinality(Tallied(o)) \in Nat /\ Cardinality(Tallied(o)') \in Nat
    <3>1. Tallied(o)' \subseteq Press \X Try
      BY DEF Tallied
    <3> QED BY <3>1, TalliedFinite, TriesFinite, FS_Subset, FS_CardinalityType
  <2>3. usage[d][o] \in Nat
    BY DEF TypeOK
  <2> QED BY <2>1, <2>2, <2>3
<1> QED BY <1>1, <1>2 DEF DailyInv, Charged, RunsPerDay

\* Every step keeps the counts covered by the tries that were made.
LEMMA NextDailyInv == TypeOK /\ DailyInv /\ [Next]_vars => DailyInv'
<1> SUFFICES ASSUME TypeOK, DailyInv, [Next]_vars PROVE DailyInv'
  OBVIOUS
<1>1. TypeOK'
  BY NextTypeOK
<1> USE DEF Tally, TypeOK, Try, PC
<1>2. ASSUME NEW p \in Press, Step(p) PROVE DailyInv'
  <2>1. ASSUME UNCHANGED dailyVars, tries' = tries,
               \E s \in {"done", "device", "address", "count"} : pc' = [pc EXCEPT ![p] = s],
               pc[p] \notin {"run", "done", "refused"}
        PROVE  DailyInv'
    BY <1>1, <2>1, OtherDailyInv
  <2>2. CASE AllowDevice(p) \/ AllowAddress(p)
    BY <2>1, <2>2 DEF AllowDevice, AllowAddress, Allow, pageVars
  <2>3. CASE RefuseDevice(p) \/ RefuseAddress(p)
    BY <2>1, <2>3 DEF RefuseDevice, RefuseAddress, Refuse, pageVars
  <2>4. CASE Send(p) \/ Resend(p)
    BY <2>1, <2>4 DEF Send, Resend, pageVars
  <2>5. CASE RefuseDay(p) \/ Answered(p)
    <3>1. UNCHANGED dailyVars /\ tries' = tries /\ pc' = [pc EXCEPT ![p] = "done"]
      BY <2>5 DEF RefuseDay, Answered, pageVars
    <3> QED BY <1>1, <3>1, OtherDailyInv
  <2>6. CASE Busy(p)
    <3>1. CASE MayRetry(p)
      <4>1. /\ UNCHANGED dailyVars /\ tries' = [tries EXCEPT ![p] = @ + 1]
            /\ pc' = [pc EXCEPT ![p] = "sleep"] /\ pc[p] = "run"
        BY <2>6, <3>1 DEF Busy
      <4> QED BY <1>1, <4>1, OtherDailyInv
    <3>2. CASE ~MayRetry(p)
      <4>1. UNCHANGED dailyVars /\ tries' = tries /\ pc' = [pc EXCEPT ![p] = "done"]
        BY <2>6, <3>2 DEF Busy, pageVars
      <4> QED BY <1>1, <4>1, OtherDailyInv
    <3> QED BY <3>1, <3>2
  <2> QED BY <1>1, <1>2, <2>2, <2>3, <2>4, <2>5, <2>6, CountDailyInv, CountFailsDailyInv DEF Step
<1>3. CASE Restart
  <2>1. UNCHANGED dailyVars /\ tries' = tries
        /\ pc' = [p \in Press |-> IF pc[p] \in {"idle", "sleep"} THEN pc[p] ELSE "done"]
    BY <1>3 DEF Restart, pageVars
  <2> QED BY <1>1, <2>1, OtherDailyInv
<1>4. CASE Tick \/ UNCHANGED vars
  <2>1. UNCHANGED dailyVars /\ tries' = tries /\ pc' = pc
    BY <1>4 DEF Tick, vars, pageVars
  <2> QED BY <1>1, <2>1, OtherDailyInv
<1> QED BY <1>2, <1>3, <1>4 DEF Next

\* At the start nothing is counted.
LEMMA InitDailyInv == Init => DailyInv
<1> SUFFICES ASSUME Init PROVE DailyInv
  OBVIOUS
<1>1. \A d \in Day, o \in Owner : usage[d][o] = 0 /\ passed[d][o] = 0
  BY DEF Init
<1>2. \A o \in Owner : 0 <= Cardinality(Tallied(o))
  BY TalliedFinite
<1>3. \A p \in Press : Charged(p) \in Owner /\ 0 <= RunsPerDay(p) /\ tries[p] = 0 /\ pc[p] # "refused"
  BY Constants DEF Init
<1> QED BY <1>1, <1>2, <1>3 DEF DailyInv

\* The counts are covered by the tries in every reachable state.
LEMMA DailyInvariant == Spec => [](TypeOK /\ DailyInv)
<1> QED BY InitTypeOK, NextTypeOK, InitDailyInv, NextDailyInv, PTL DEF Spec

\* An owner's runs of a day that pass the gate stay within the daily limit,
\* whatever devices and presses run at once and whatever counts fail.
THEOREM DaysLimited == Spec => []DailyLimit
<1>1. DailyInv => DailyLimit
  BY DEF DailyInv, DailyLimit, Charged
<1> QED BY <1>1, DailyInvariant, PTL

\* Whoever is refused for the day has pressed more often than the daily limit
\* divided by the tries of a press.
THEOREM RefusalsEarned == Spec => []DayRefusalEarned
<1>1. TypeOK /\ DailyInv => DayRefusalEarned
  <2> SUFFICES ASSUME TypeOK, DailyInv, NEW p \in Press, pc[p] = "refused"
               PROVE  (1 + MaxRetries) * Cardinality({q \in Press : Charged(q) = Charged(p) /\ pc[q] # "idle"})
                        > RunsPerDay(p)
    BY DEF DayRefusalEarned
  <2> DEFINE o == Charged(p)
             Q == {q \in Press : Charged(q) = o /\ pc[q] # "idle"}
  <2>1. PICK d \in Day : usage[d][o] > RunsPerDay(p)
    BY DEF DailyInv
  <2>2. o \in Owner /\ RunsPerDay(p) \in Nat /\ usage[d][o] \in Nat
    BY Constants DEF TypeOK
  <2>3. usage[d][o] <= Cardinality(Tallied(o))
    BY <2>2 DEF DailyInv
  <2>4. Tallied(o) \subseteq Q \X Try
    <3> SUFFICES ASSUME NEW c \in Tallied(o) PROVE c \in Q \X Try
      OBVIOUS
    <3>1. c \in Press \X Try /\ Charged(c[1]) = o /\ c[2] < Tally(c[1])
      BY DEF Tallied
    <3>2. pc[c[1]] # "idle"
      BY <3>1 DEF Tally, DailyInv, Try
    <3> QED BY <3>1, <3>2
  <2>5. IsFiniteSet(Q) /\ Cardinality(Q) \in Nat
    BY TriesFinite, FS_Subset, FS_CardinalityType
  <2> HIDE DEF Q
  <2>6. IsFiniteSet(Q \X Try) /\ Cardinality(Q \X Try) = Cardinality(Q) * (MaxRetries + 1)
    BY <2>5, TriesFinite, FS_Product
  <2>7. Cardinality(Tallied(o)) <= Cardinality(Q) * (MaxRetries + 1)
    BY <2>4, <2>6, FS_Subset
  <2>8. Cardinality(Tallied(o)) \in Nat /\ Cardinality(Q) * (MaxRetries + 1) = (1 + MaxRetries) * Cardinality(Q)
    BY <2>5, TalliedFinite, Constants
  <2>9. (1 + MaxRetries) * Cardinality(Q) > RunsPerDay(p)
    <3>1. (1 + MaxRetries) * Cardinality(Q) \in Int
      BY <2>5, Constants
    <3> QED BY <2>1, <2>2, <2>3, <2>7, <2>8, <3>1
  <2> QED BY <2>9 DEF Q
<1> QED BY <1>1, DailyInvariant, PTL

-----------------------------------------------------------------------------
(* What a page is told                                                     *)

\* A limiter's delay reaches the end of its window.
LEMMA RefuseToldEnough ==
  ASSUME TypeOK, ToldInv, ToldEnough, NEW p \in Press, NEW k \in Key, pc[p] # "done", Refuse(p, k)
  PROVE  ToldInv' /\ ToldEnough'
<1> DEFINE ends == BucketOf(k).start + Window
<1>1. now \in Int /\ ends \in Int
  BY OpenedFacts, Constants DEF TypeOK, Bucket, Instant
<1>2. WholeSeconds(ends - now) \in Int /\ WholeSeconds(ends - now) >= ends - now
  BY <1>1, WholeSecondsSuffice
<1>3. /\ told' = [told EXCEPT ![p] = now + WholeSeconds(ends - now)]
      /\ over' = [over EXCEPT ![p] = ends]
      /\ pc' = [pc EXCEPT ![p] = "done"] /\ now' = now
  BY DEF Refuse
<1>4. told'[p] >= over'[p]
  BY <1>1, <1>2, <1>3 DEF TypeOK
<1>5. ToldEnough'
  BY <1>3, <1>4 DEF ToldEnough, TypeOK
<1>6. ToldInv'
  BY <1>3 DEF ToldInv, TypeOK, DayEnds, DayOf
<1> QED BY <1>5, <1>6

\* A daily refusal's delay reaches the end of the counted day.
LEMMA DayToldEnough ==
  ASSUME TypeOK, ToldInv, ToldEnough, NEW p \in Press, Count(p) \/ RefuseDay(p)
  PROVE  ToldInv' /\ ToldEnough'
<1> DEFINE ends == DayEnds(DayOf(now))
<1>1. now \in Int /\ ends \in Int /\ now' = now
  BY Division, Constants DEF TypeOK, Instant, DayEnds, DayOf, Count, RefuseDay
<1>2. CASE Count(p)
  <2>1. /\ told' = told /\ pc[p] = "count" /\ told[p] = 0
        /\ \/ pc' = [pc EXCEPT ![p] = "run"] /\ over' = over
           \/ pc' = [pc EXCEPT ![p] = "refused"] /\ over' = [over EXCEPT ![p] = ends]
    <3>1. pc[p] = "count" /\ told' = told
      BY <1>2 DEF Count
    <3>2. told[p] = 0
      BY <3>1 DEF ToldInv
    <3>3. CASE WithinDay(p, usage[DayOf(now)][Charged(p)] + 1)
      BY <1>2, <3>1, <3>2, <3>3 DEF Count
    <3>4. CASE ~WithinDay(p, usage[DayOf(now)][Charged(p)] + 1)
      BY <1>2, <3>1, <3>2, <3>4 DEF Count
    <3> QED BY <3>3, <3>4
  <2>2. ToldEnough'
    BY <2>1 DEF ToldEnough, TypeOK
  <2>3. ToldInv'
    BY <1>1, <2>1 DEF ToldInv, TypeOK, DayEnds, DayOf
  <2> QED BY <2>2, <2>3
<1>3. CASE RefuseDay(p)
  <2>1. WholeSeconds(ends - now) \in Int /\ WholeSeconds(ends - now) >= ends - now
    BY <1>1, WholeSecondsSuffice
  <2>2. /\ told' = [told EXCEPT ![p] = now + WholeSeconds(ends - now)] /\ over' = over
        /\ pc' = [pc EXCEPT ![p] = "done"] /\ over[p] <= ends
    BY <1>3 DEF RefuseDay, ToldInv
  <2>3. told'[p] >= over'[p]
    BY <1>1, <2>1, <2>2 DEF TypeOK
  <2>4. ToldEnough'
    BY <2>2, <2>3 DEF ToldEnough, TypeOK
  <2>5. ToldInv'
    BY <1>1, <2>2 DEF ToldInv, TypeOK, DayEnds, DayOf
  <2> QED BY <2>4, <2>5
<1> QED BY <1>2, <1>3

\* Time takes nothing away from a delay.
LEMMA TickToldEnough ==
  ASSUME TypeOK, ToldInv, ToldEnough, Tick
  PROVE  ToldInv' /\ ToldEnough'
<1>1. now \in Int /\ now' \in Int /\ now <= now'
  BY DEF Tick, TypeOK, Instant
<1>2. DayOf(now) <= DayOf(now') /\ DayOf(now) \in Int /\ DayOf(now') \in Int
  BY <1>1, DivisionMonotone, Division, Constants DEF DayOf
<1>3. (DayOf(now') - DayOf(now)) * DayLength >= 0
  BY <1>2, Constants
<1>4. /\ DayEnds(DayOf(now)) <= DayEnds(DayOf(now'))
      /\ DayEnds(DayOf(now)) \in Int /\ DayEnds(DayOf(now')) \in Int
  BY <1>2, <1>3, Constants DEF DayEnds
<1>5. told' = told /\ over' = over /\ pc' = pc
  BY DEF Tick, toldVars
<1>6. \A p \in Press : over[p] \in Int
  BY DEF TypeOK
<1>7. \A p \in Press : pc[p] = "refused" => over[p] <= DayEnds(DayOf(now'))
  BY <1>4, <1>6 DEF ToldInv
<1>8. DayEnds(DayOf(now))' = DayEnds(DayOf(now'))
  BY DEF DayEnds, DayOf
<1> QED BY <1>5, <1>7, <1>8 DEF ToldInv, ToldEnough

\* Every step keeps the delays long enough.
LEMMA NextToldEnough == TypeOK /\ ToldInv /\ ToldEnough /\ [Next]_vars => ToldInv' /\ ToldEnough'
<1> SUFFICES ASSUME TypeOK, ToldInv, ToldEnough, [Next]_vars PROVE ToldInv' /\ ToldEnough'
  OBVIOUS
<1>1. ASSUME UNCHANGED <<now, toldVars>>,
             \A p \in Press : (pc[p] = "done" => pc'[p] = "done") /\ (pc'[p] = "refused" => pc[p] = "refused")
      PROVE  ToldInv' /\ ToldEnough'
  BY <1>1 DEF ToldInv, ToldEnough, toldVars, DayEnds, DayOf
<1>2. ASSUME NEW p \in Press, Step(p) PROVE ToldInv' /\ ToldEnough'
  <2>1. DeviceOf[p] \in Key /\ AddressOf[p] \in Key
    BY Constants
  <2>2. CASE RefuseDevice(p) \/ RefuseAddress(p)
    BY <2>1, <2>2, RefuseToldEnough DEF RefuseDevice, RefuseAddress
  <2>3. CASE Count(p) \/ RefuseDay(p)
    BY <2>3, DayToldEnough
  <2>4. ASSUME UNCHANGED <<now, toldVars>>, pc[p] # "done",
               \E s \in PC \ {"refused"} : pc' = [pc EXCEPT ![p] = s]
        PROVE  ToldInv' /\ ToldEnough'
    BY <1>1, <2>4 DEF TypeOK
  <2>5. CASE AllowDevice(p) \/ AllowAddress(p)
    BY <2>4, <2>5 DEF AllowDevice, AllowAddress, Allow, PC
  <2>6. CASE CountFails(p) \/ Send(p) \/ Answered(p) \/ Busy(p) \/ Resend(p)
    BY <2>4, <2>6 DEF CountFails, Send, Answered, Busy, Resend, PC
  <2> QED BY <1>2, <2>2, <2>3, <2>5, <2>6 DEF Step
<1>3. CASE Restart
  BY <1>1, <1>3 DEF Restart, TypeOK
<1>4. CASE Tick
  BY <1>4, TickToldEnough
<1>5. CASE UNCHANGED vars
  BY <1>1, <1>5 DEF vars
<1> QED BY <1>2, <1>3, <1>4, <1>5 DEF Next

\* Whoever waits as long as a 429 named finds the limit behind it lifted,
\* though the delay is cut to seconds and the clock is read twice.
THEOREM DelaysSuffice == Spec => []ToldEnough
<1>1. Init => ToldInv /\ ToldEnough
  BY DEF Init, ToldInv, ToldEnough
<1> QED BY <1>1, InitTypeOK, NextTypeOK, NextToldEnough, PTL DEF Spec

=============================================================================

-------------------------------- MODULE Gate --------------------------------
(***************************************************************************)
(* What stands between a press of Run and the runner: gateRun              *)
(* (internal/httpapi/attempt_handlers.go) with the per-minute limiter of   *)
(* ratelimit.go and the daily count of the store, and the page that sends  *)
(* a press again while the answer is pool_busy (web/src/api/client.ts).    *)
(*                                                                         *)
(* The limiter lives in the memory of one server process, which may        *)
(* restart; the daily count is Postgres's.  Time is an integer of ticks,   *)
(* Second of them to a second, so that delays in whole seconds are as      *)
(* coarse as the code's.  A press has one device, one address and one      *)
(* owner for all its tries; what the run itself does is in SandboxPool and *)
(* Attempts.                                                               *)
(***************************************************************************)
EXTENDS FiniteSets, Integers, Sequences

CONSTANTS
  Press,              \* the presses of Run or Submit
  Device, Address,    \* the keys "dev:" and "ip:" of the limiter
  DeviceOf,           \* the device of each press
  AddressOf,          \* the clientIP of each press
  Owner,              \* the owners a device may act for
  OwnerOf,            \* the owner of each device: itself, or its student
  Student,            \* the owners that are signed in
  RunsPerMinute, IPRunsPerMinute, RunsPerDayAnon, RunsPerDaySignedIn,
  Second,             \* ticks in a second
  Window,             \* the limiter's window, in ticks
  DayLength,          \* a day, in ticks
  MaxBuckets,         \* 10000: more buckets than this are pruned
  MaxRetries,         \* 3: how often the page sends a press again
  Backoff,            \* POOL_BUSY_BACKOFF_MS, in ticks
  MaxTime             \* bound: where the clock stops

Key == Device \cup Address
Day == 0 .. MaxTime \div DayLength
Try == 0 .. MaxRetries

ASSUME KeyAssumption ==
  /\ Device \cap Address = {}
  /\ DeviceOf \in [Press -> Device]
  /\ AddressOf \in [Press -> Address]
  /\ OwnerOf \in [Device -> Owner]
  /\ IsFiniteSet(Press) /\ IsFiniteSet(Key)

ASSUME LimitAssumption ==
  {RunsPerMinute, IPRunsPerMinute, RunsPerDayAnon, RunsPerDaySignedIn, MaxBuckets, MaxRetries}
    \subseteq Nat

ASSUME ClockAssumption ==
  /\ {Second, Window, DayLength} \subseteq Nat \ {0}
  /\ MaxTime \in Nat
  /\ Backoff \in Seq(Nat) \ {<<>>}

VARIABLES
  now,        \* the server's clock
  buckets,    \* bucketLimiter.buckets
  usage,      \* usage_daily for "runs", by day and owner
  pc,         \* where each press is
  tries,      \* the page's attempt counter
  wake,       \* when the page's sleep ends, or 0
  told,       \* the instant up to which a 429 told the page to wait, or 0
  over,       \* ghost: when the limit that refused the press is lifted
  admitted,   \* ghost: the tries each key let through in the last Window
  passed      \* ghost: the runs that passed the gate, by day and owner

limiterVars == <<buckets, admitted>>
dailyVars == <<usage, passed>>
pageVars == <<tries, wake>>
toldVars == <<told, over>>
vars == <<now, limiterVars, dailyVars, pc, pageVars, toldVars>>

PC == {"idle", "device", "address", "count", "refused", "run", "sleep", "done"}
Instant == 0 .. MaxTime
Bucket == [start : Instant, count : Nat]
Passage == [press : Press, try : Nat, at : Instant]

\* The state has its shape; a map of buckets knows its own keys only, and a
\* press is sent again at most MaxRetries times.
TypeOK ==
  /\ now \in Instant
  /\ DOMAIN buckets \subseteq Key /\ buckets \in [DOMAIN buckets -> Bucket]
  /\ usage \in [Day -> [Owner -> Nat]] /\ passed \in [Day -> [Owner -> Nat]]
  /\ pc \in [Press -> PC] /\ tries \in [Press -> Try] /\ wake \in [Press -> Nat]
  /\ told \in [Press -> Nat] /\ over \in [Press -> Nat]
  /\ admitted \in [Key -> SUBSET Passage]

Init ==
  /\ now = 0
  /\ buckets = [k \in {} |-> 0]
  /\ usage = [d \in Day |-> [o \in Owner |-> 0]] /\ passed = usage
  /\ pc = [p \in Press |-> "idle"]
  /\ tries = [p \in Press |-> 0] /\ wake = [p \in Press |-> 0]
  /\ told = [p \in Press |-> 0] /\ over = [p \in Press |-> 0]
  /\ admitted = [k \in Key |-> {}]

-----------------------------------------------------------------------------
(* The limiter.  Allow runs under its mutex, so it is one step.            *)

LimitOf(k) == IF k \in Device THEN RunsPerMinute ELSE IPRunsPerMinute

Expired(b) == now - b.start >= Window

\* A bug: the comparison the wrong way round, so that live buckets go.
PruneLive(bs) == [k \in {j \in DOMAIN bs : Expired(bs[j])} |-> bs[k]]

\* A bug: nothing is ever pruned.
PruneNothing(bs) == bs

Prune(bs) == [k \in {j \in DOMAIN bs : ~Expired(bs[j])} |-> bs[k]]

Fresh(k) == k \notin DOMAIN buckets \/ Expired(buckets[k])

BucketOf(k) == IF Fresh(k) THEN [start |-> now, count |-> 0] ELSE buckets[k]

\* The map once k's bucket is in it; making one is what prunes the others.
Opened(k) ==
  LET bs == [j \in DOMAIN buckets \cup {k} |-> IF j = k THEN BucketOf(k) ELSE buckets[j]]
  IN IF Fresh(k) /\ Cardinality(DOMAIN bs) > MaxBuckets THEN Prune(bs) ELSE bs

Full(k) == BucketOf(k).count >= LimitOf(k)

\* A bug: whole seconds, rounded down.
CutSeconds(d) == (d \div Second) * Second

\* int(d.Seconds()) + 1 seconds, in ticks: the fraction is cut off.
WholeSeconds(d) == (d \div Second + 1) * Second

\* The press is let through, and goes on to the next check.
Allow(p, k, next) ==
  /\ ~Full(k)
  /\ buckets' = [Opened(k) EXCEPT ![k].count = @ + 1]
  /\ admitted' = [admitted EXCEPT ![k] = @ \cup {[press |-> p, try |-> tries[p], at |-> now]}]
  /\ pc' = [pc EXCEPT ![p] = next]
  /\ UNCHANGED <<now, dailyVars, pageVars, toldVars>>

\* It gets a 429, on which the page does not retry.
Refuse(p, k) ==
  /\ Full(k)
  /\ buckets' = Opened(k)
  /\ LET ends == BucketOf(k).start + Window
     IN /\ told' = [told EXCEPT ![p] = now + WholeSeconds(ends - now)]
        /\ over' = [over EXCEPT ![p] = ends]
  /\ pc' = [pc EXCEPT ![p] = "done"]
  /\ UNCHANGED <<now, dailyVars, pageVars, admitted>>

AllowDevice(p) == pc[p] = "device" /\ Allow(p, DeviceOf[p], "address")
RefuseDevice(p) == pc[p] = "device" /\ Refuse(p, DeviceOf[p])
AllowAddress(p) == pc[p] = "address" /\ Allow(p, AddressOf[p], "count")
RefuseAddress(p) == pc[p] = "address" /\ Refuse(p, AddressOf[p])

-----------------------------------------------------------------------------
(* The daily count                                                         *)

DayOf(t) == t \div DayLength
DayEnds(d) == (d + 1) * DayLength

\* A bug: the day is counted by device, so a student's devices add up.
ChargedDevice(p) == DeviceOf[p]

Charged(p) == OwnerOf[DeviceOf[p]]
RunsPerDay(p) == IF OwnerOf[DeviceOf[p]] \in Student THEN RunsPerDaySignedIn ELSE RunsPerDayAnon

WithinDay(p, n) == n <= RunsPerDay(p)

\* IncrUsage returns the new count.
Count(p) ==
  /\ pc[p] = "count"
  /\ LET d == DayOf(now)
         n == usage[d][Charged(p)] + 1
         ok == WithinDay(p, n)
     IN /\ usage' = [usage EXCEPT ![d][Charged(p)] = n]
        /\ over' = IF ok THEN over ELSE [over EXCEPT ![p] = DayEnds(d)]
        /\ passed' = IF ok THEN [passed EXCEPT ![d][OwnerOf[DeviceOf[p]]] = @ + 1] ELSE passed
        /\ pc' = [pc EXCEPT ![p] = IF ok THEN "run" ELSE "refused"]
  /\ UNCHANGED <<now, limiterVars, pageVars, told>>

\* The store fails; the count may be in the database all the same.
CountFails(p) ==
  /\ pc[p] = "count"
  /\ \E n \in {0, 1} : usage' = [usage EXCEPT ![DayOf(now)][Charged(p)] = @ + n]
  /\ pc' = [pc EXCEPT ![p] = "done"]
  /\ UNCHANGED <<now, limiterVars, passed, pageVars, toldVars>>

\* secondsToMidnight reads the clock again: by now it may be another day.
RefuseDay(p) ==
  /\ pc[p] = "refused"
  /\ told' = [told EXCEPT ![p] = now + WholeSeconds(DayEnds(DayOf(now)) - now)]
  /\ pc' = [pc EXCEPT ![p] = "done"]
  /\ UNCHANGED <<now, limiterVars, dailyVars, pageVars, over>>

-----------------------------------------------------------------------------
(* The run, the page, and the world around them                            *)

Send(p) ==
  /\ pc[p] = "idle"
  /\ pc' = [pc EXCEPT ![p] = "device"]
  /\ UNCHANGED <<now, limiterVars, dailyVars, pageVars, toldVars>>

Answered(p) ==
  /\ pc[p] = "run"
  /\ pc' = [pc EXCEPT ![p] = "done"]
  /\ UNCHANGED <<now, limiterVars, dailyVars, pageVars, toldVars>>

\* A bug: one retry too many.
MayRetryOnceMore(p) == tries[p] <= MaxRetries

MayRetry(p) == tries[p] < MaxRetries

\* The last backoff serves for all later retries.
BackoffOf(n) == Backoff[IF n < Len(Backoff) THEN n + 1 ELSE Len(Backoff)]

\* pool_busy: the page sleeps, or gives up.
Busy(p) ==
  /\ pc[p] = "run"
  /\ IF MayRetry(p)
     THEN /\ tries' = [tries EXCEPT ![p] = @ + 1]
          /\ wake' = [wake EXCEPT ![p] = now + BackoffOf(tries[p])]
          /\ pc' = [pc EXCEPT ![p] = "sleep"]
     ELSE /\ pc' = [pc EXCEPT ![p] = "done"]
          /\ UNCHANGED pageVars
  /\ UNCHANGED <<now, limiterVars, dailyVars, toldVars>>

\* The same body with the same idempotency_key; no attempt is stored under it
\* as a busy run stores none, so the gate is passed again.
Resend(p) ==
  /\ pc[p] = "sleep" /\ now >= wake[p]
  /\ wake' = [wake EXCEPT ![p] = 0]
  /\ pc' = [pc EXCEPT ![p] = "device"]
  /\ UNCHANGED <<now, limiterVars, dailyVars, tries, toldVars>>

\* The process restarts: its limiter is empty again, and whoever waited for
\* its answer gets a network error, on which the page does not retry.
Restart ==
  /\ buckets' = [k \in {} |-> 0]
  /\ admitted' = [k \in Key |-> {}]
  /\ pc' = [p \in Press |-> IF pc[p] \in {"idle", "sleep"} THEN pc[p] ELSE "done"]
  /\ UNCHANGED <<now, dailyVars, pageVars, toldVars>>

Tick ==
  /\ now < MaxTime
  /\ now' = now + 1
  /\ admitted' = [k \in Key |-> {a \in admitted[k] : now' - a.at < Window}]
  /\ UNCHANGED <<buckets, dailyVars, pc, pageVars, toldVars>>

Step(p) ==
  \/ Send(p) \/ AllowDevice(p) \/ RefuseDevice(p) \/ AllowAddress(p) \/ RefuseAddress(p)
  \/ Count(p) \/ CountFails(p) \/ RefuseDay(p)
  \/ Answered(p) \/ Busy(p) \/ Resend(p)

Next == (\E p \in Press : Step(p)) \/ Restart \/ Tick

Spec == Init /\ [][Next]_vars

-----------------------------------------------------------------------------
(* Properties                                                              *)

\* Windows are fixed and begin with the first event after the last one, so a
\* key may spend its limit at the end of one and again at the start of the
\* next, and never more: however pruning and the lazy replacement of buckets
\* fall, no span of a window's length sees more than twice the limit.
WindowLimit ==
  \A k \in Key : Cardinality(admitted[k]) <= 2 * LimitOf(k)

\* Abandoned keys do not accumulate: more than MaxBuckets are kept only if all
\* of them were live when the newest was made.
NoStaleBuckets ==
  Cardinality(DOMAIN buckets) > MaxBuckets =>
    \A j, k \in DOMAIN buckets : buckets[k].start - buckets[j].start < Window

\* The daily limit is per owner, whatever devices and presses run at once: a
\* student's runs of a day that reach the runner stay within it.
DailyLimit ==
  \A p \in Press, d \in Day : passed[d][OwnerOf[DeviceOf[p]]] <= RunsPerDay(p)

\* A busy pool uses up the daily count, for the page tries again and each try
\* counts, but by a known factor: whoever is told that the day's runs are spent
\* has pressed more often than limit / (1 + MaxRetries).
DayRefusalEarned ==
  \A p \in Press :
    pc[p] = "refused" =>
      (1 + MaxRetries) * Cardinality({q \in Press : Charged(q) = Charged(p) /\ pc[q] # "idle"})
        > RunsPerDay(p)

\* A page that waits as long as a 429 told it to finds the limit lifted, for
\* all that fractions of a second are cut off, and though midnight may have
\* fallen between the count and the second reading of the clock.
ToldEnough == \A p \in Press : told[p] > 0 => told[p] >= over[p]

=============================================================================

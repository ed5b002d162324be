# A verification model of tutor

`tutor` lets a student write Python on a phone, runs it in an isolated
sandbox, grades it against test cases, keeps progress per device or per
Google account, and gives hints. This directory holds TLA+ modules of the
parts of it where the order of events matters, the TLC configurations that
check them on small instances, and proofs checked by TLAPS.

Paths below are relative to the repository; `src/` stands for its root.

## 1. The system

| Component | State | Operations | Talks to |
|---|---|---|---|
| Sandbox runner, `internal/runner/neevcloud.go` | `pool` and `slots` channels, `wg`, `stopCh`; the sandboxes at the platform | `Start`, `Run` (`acquire`, `create`, `writeFile`, `exec`), `deleteAsync`, `Stop` | the NeevCloud control and data planes |
| Server process, `cmd/tutor/main.go` | the signal context | `serve`: wiring, `Shutdown`, deferred `Stop` | everything |
| Attempt handler, `internal/httpapi/attempt_handlers.go` | none of its own | `handleAttempt`, `gateRun`, `handleHint` | runner, store, limiter, tutor |
| Identity and sessions, `httpapi/server.go`, `identity_handlers.go`, `auth/auth.go` | signed session cookie in the browser | `withIdentity`, `handleGoogle`, `handleLogout`, `handleMe`, `handleUpdateMe`, `handleProgress` | store, Google |
| Store, `internal/store` | devices, students, attempts, progress, hints, hint cache, usage counters | the `Store` interface, as Postgres and as Memory | |
| Hint service, `internal/tutor` | none; hints, cache and budget are in the store | `Hint`: ladder level, canned, cache, budget, model, leak check | store, model endpoint |
| Rate limits, `httpapi/ratelimit.go` | fixed-window buckets per key | `Allow`, `prune` | |
| Grading, `internal/grade` | none | `Evaluate`, `RunOutcome`, `Equal`, `Normalize` | |
| Harness and results, `runner/harness.py`, `runner/runner.go` | none | runs the cases, reports mistake flags; `parseResult` | |
| Local runner, `runner/local.go` | a semaphore | `Run` as a subprocess | |
| Content, `internal/content` | the library, loaded once | `Load`, `CheckFlags` | |
| Web client, `web/src` | page state, drafts, device id, progress | requests with a retry on `pool_busy`, draft saver, hint flow | the API |

What is hard in it:

- *Goroutines over one pool.* Attempts, the prewarm loop, asynchronous
  deletes and `Stop` pass sandboxes around while the platform pauses, breaks
  and reaps them. A sandbox that is lost costs money, one that is shared shows
  one student's files to another.
- *Requests over one store without transactions.* `handleAttempt` makes up to
  six store calls around a sandbox run of many seconds; sign-ins, retries,
  cancelled requests and failing calls fall between them.
- *Two stores.* Memory and Postgres implement merging of progress differently
  and must keep the same promise.
- *Shutdown.* Handlers are still running when the process decides to stop.
- *Budgets and ladders* computed from counters and histories that move while
  a hint is made.

The correctness properties, by component:

- runner: no sandbox serves two attempts; every sandbox has one owner and is
  not forgotten on an error path; the cap holds; a sandbox given up is not
  used; `Stop` leaves no pooled sandbox and returns; `Run` returns.
- attempts and progress: a key has one result; what is answered is stored;
  progress depends on the set of submissions and not on their order; a pass is
  never lost by a later record, a merge or a sign-in; a student's progress
  comes from linked devices only.
- hints: a reply that leaks the solution is neither shown nor cached; an
  answer to a question is not cached, and a cached text only serves the mistake
  and the level it was written for; a level is earned by the hints before it
  and the ladder climbs; the daily limit and the budget bound what is given
  and what is called.
- rate limits: a key gets at most twice its limit in any span of a window's
  length; an owner gets at most the day's limit; whoever waits as long as a 429
  says finds the limit lifted; dead keys do not accumulate.
- grading: a student is told "passed" exactly if every case ran to what it
  expects; the blame falls on what happened first; the comparison forgives
  exactly trailing white space and CRLF; of one failing visible case the input
  and outputs are shown.
- local runner: a harness that died is nobody's failure, and only one that is
  wedged, or that was started too late, is cut off.
- content: what is served has unique ids, cases that can be told apart, one to
  show, and hints that speak about a test that there is.

`PROJECT.json` lists each component with its status, and each hazard at the
line where it bites with the properties that cover it.

## 2. Modules

| Module | What it is |
|---|---|
| `AttemptIsolation` | what a sandbox-backed runner promises: the abstract specification |
| `SandboxPool` | the runner of `neevcloud.go` and the shutdown of `main.go` |
| `SandboxPoolProofs` | theorems about `SandboxPool` |
| `MCSandboxPool` | symmetry for its TLC runs |
| `Attempts` | `withIdentity`, `handleAttempt`, `handleGoogle`, `handleLogout` over either store |
| `AttemptsProofs` | theorems about `Attempts` |
| `MCAttempts` | the requests of its TLC runs |
| `Hints` | `handleHint` from its daily count on, and `tutor.Service.Hint` |
| `HintsProofs` | theorems about `Hints` |
| `MCHints` | the asks of its TLC runs |
| `Gate` | `gateRun`, the limiter, the daily count, and the page that retries on `pool_busy` |
| `GateProofs` | theorems about `Gate` |
| `MCGate` | the presses of its TLC run |
| `Content` | `content.Load` and its checks, as operators |
| `Grading` | the comparison, `Evaluate`, `RunOutcome`, `casesJSON`, as operators and recursive functions |
| `SequenceRecursion` | induction over numbers and sequences, and recursion on tails: lemmas |
| `GradingProofs` | theorems about `Grading` |
| `LocalRunner` | the boot on a content tree, `handleAttempt` over `runner.Local`, the harness; composes `Content` and `Grading` |
| `LocalRunnerProofs` | theorems about `LocalRunner` |
| `MCLocalRunner` | the programs and content trees of its TLC run |

How they fit together: a press of Run passes `Gate`; its code runs in
`SandboxPool` or in `LocalRunner`, which also grades it; `Attempts` records it
and `Hints` answers the ask that follows. The families share no variables. Each
takes the others as choices: `Gate` may be told that the pool is busy at any
time, `Attempts` may be given any grade, `Hints` any pass.

### SandboxPool

A process is an attempt in `Run`, the prewarm loop, or the goroutine that
calls `Stop`; `pc` says where it is and `sb` which sandbox it holds. A step is
the code between two points where somebody else can intervene: one channel
operation, or one HTTP call with the local code that follows it.

| Code | Model |
|---|---|
| `n.pool`, `n.slots` | `pool` (a set: the channel's order does not matter to any property), `slots` |
| goroutines of `deleteAsync` | the set `deleting`; `n.wg` is "loop not done, or `deleting` not empty" |
| the platform's record of a sandbox | `phase`; `code` is the set of attempts whose files it holds |
| `Run` | `TakeSlot`, `RefuseBusy`, then `StageFiles` / `StageFails`, `ExecSucceeds` / `ExecFails`, `Cleanup`, `ReleaseSlot` |
| `acquire` | `TakePooled`, `RecheckReady`, `RecheckFails`, `PoolEmpty` |
| `create` | `PostCreated`, `PostLost`, `PostRefused`, `WaitReady`, `WaitFails`, for attempts and for the loop |
| `Start` | `PrewarmMore`, `PrewarmStops`, `PrewarmPush` |
| `delete` | `DeleteSucceeds`, `DeleteFails` |
| `Stop`, `main.go` | `Signal`, `BeginStop`, `WaitReturns`, `DrainOne`, `DrainDelete`, `DrainDone`, `Exit`, `Crash` |

`fate` is a ghost: it says why a sandbox will not be deleted by the server any
more (the answer of its create was lost, its delete failed, the process
ended). Cancelled contexts need no variable for attempts, because each call of
an attempt may fail at any time; for the prewarm loop `signalled` is the
context. Polls that change nothing, the 500 ms and 5 s sleeps and log lines
are left out. Bounds: `Sandbox` is the set of identifiers the platform may
hand out in a behaviour; a create beyond it can only be refused. This also
bounds how often the loop creates.

### Attempts

A request is of one kind (run, submit, google, logout) and comes from one
device. Several devices may share a browser, that is a cookie jar: a browser
whose storage was cleared has a new device id and its old cookie. A step is
one store call (each is one SQL statement, one transaction or one critical
section) or one `Runner.Run`, with the local code up to the next one.

| Code | Model |
|---|---|
| the browser sends | `Send` (takes the cookie along) |
| `withIdentity` | `Touch`, `FindStudent`, `StudentGone`, `LinkOnUse` |
| `handleAttempt` | `Replay`, `LookupMisses`, `RunAndGrade`, `CreateAttempt`, `RecordProgress` |
| `handleGoogle` | `UpsertStudent`, `SignInLink` |
| `handleLogout` | `EnterWith` sets the clearing cookie |
| a response | `Deliver`; errors `Fail`; a lost client or instance `Abort` |
| `mergeProgress`, `ON CONFLICT` | `MergeMemory`, `MergePostgres` |
| a Memory process restarts | `Restart` |

Abstractions. Progress is per exercise and no rule relates two exercises, so
one exercise is followed. An attempt is identified with the request that made
it. Of a grade only what `RecordProgress` is given is kept: the time of the
attempt if it passed (`passedAt`), `Never` if not. `s.Now()` may be any value
of `Time`, because instances have clocks of their own and attempts are
recorded in another order than they are stamped. A store call may take effect
and still report an error; `Fail` is the failure without effect. `gateRun`
refusing, no free sandbox, an infrastructure error and an invalid token are
all `Fail`, as they change nothing here. `heard` (what has reached an owner)
and `met` (the students a device was linked to) are ghosts.

`LinkDevice` on Postgres is a transaction of two statements; it is taken as
one step at its second statement, whose snapshot decides what is merged, and
the row lock of its first one keeps `TouchDevice` of that device out until it
commits.

### Hints

An ask is one request for a hint, for one exercise and one language. A step is
one store or model call, or a reading of the clock: the day of the daily count
(`s.day()`), the time of the hint (`s.now()`, which is also the day of the
budget) and the time of a pass are read at different moments, and midnight may
fall between them.

| Code | Model |
|---|---|
| `IncrUsage(day, "hints")` in `handleHint` | `Charge`, `ChargeRefuses` |
| `level` | `ListProgress`, `ReadLevel` (the second call, with the canned hint after it) |
| `MatchCanned` | `CannedAnswers` or `NotCanned`, either of which may happen |
| `GetCache`, `PutCache` | `CacheHit`, `CacheMiss`, `PutCache` |
| `withinBudget` | `WithinBudget` |
| `generate` | `Accept`, `Reject`, `CompleteFails`, at `call` and at `retry` |
| `CreateHint` | `CreateHint` |
| an error, a lost client or instance | `Abort` |
| `RecordProgress`, `LinkDevice` by other requests | `Pass`, `LinkDevice` |

A reply of the model is a record of whose ask it answers, at which level, and
what `LeaksSolution` says of it; a failure is reduced to what `CacheKey` takes
of it. `counted`, `before` and `completed` are ghosts. All instances have one
clock. A restart of Memory and the refusals of `handleHint` before its count
are left out.

### Gate

A press is one tap on Run or Submit with all the tries the page makes for it.
The limiter's `Allow` runs under a mutex and is one step; `IncrUsage` is one
statement; `secondsToMidnight` reads the clock again and is a step of its own,
so midnight may fall before it.

| Code | Model |
|---|---|
| `Allow`, `prune` | `Allow`, `Refuse` over `BucketOf`, `Opened`, `Prune` |
| `gateRun` | `AllowDevice`, `RefuseDevice`, `AllowAddress`, `RefuseAddress`, `Count`, `CountFails`, `RefuseDay` |
| the `retry_after` of a 429 | `told`; `WholeSeconds` cuts the fraction off and adds one |
| `request` in `client.ts` | `Send`, `Answered`, `Busy`, `Resend` |
| the process ends and starts again | `Restart`, which empties the limiter |

`admitted` (what each key let through in the last window), `passed` and `over`
(when the limit that refused is really lifted) are ghosts. The clock is
monotone, as Go's is within a process. Only Postgres's daily count is
modelled: Memory's is lost with the process. The daily count is charged to
`id.Owner()`, the student once the device is linked. The comments that speak of
"the daily device limit" (`attempt_handlers.go:195`) and of controls "applied
per device" (`server.go:26`) are looser than the code: for a signed-in student
with several devices the limit of the owner is the stronger one, and it is the
one that `DailyLimit` states.

### Content, Grading and LocalRunner

`Content` and `Grading` have no state. A content tree is a sequence of
track directories with what `Load` checks of them; a fault is a pair of what
is wrong and where. A text is a sequence over `Character`, where `"sp"` is a
space or a tab; each pass of `Normalize` is a recursive function on the tail of
its argument, which is what can be proved about. `ResultOf` finds
results by id and takes the last one, as `byID` does: that this is the right
one rests on `checkTests`, in another package, and `PassIsEarned` checks the
two together.

`LocalRunner` goes from a tree that may be faulty to the answers.

| Code | Model |
|---|---|
| `serve` up to listening | `Boot`: `serving` or `refused` |
| `handleAttempt` from its context to its response | `Begin`, `Answer`, `Leave`; `AnswerTo` is the verdict |
| the semaphore of `NewLocal` | `Holding`; `Acquire`, `GiveUp` |
| `Local.Run` | `Stage`, `StageFails`, `HarnessExits`, `HarnessDies`, `CutOff`; `result` is what it returns |
| `run_case` | `StartCase`, `CaseEnds`, `CaseTimesOut` |
| deadlines: handler, budget, case | `age`, `spent`, `caseTime` |

`did` is what the program did in each case that is over; the harness's output
is derived from it. An exception is whatever `parse_error` made of the standard
error of a program that failed by itself: `NoError` if it found no traceback
(`sys.exit(1)`), `SyntaxError` if there was no program. It goes with the verdict
into the answer, as `Verdict.Error` does. `idle` is a ghost. `Tick` is urgent: a timer that is due
fires before time goes on, and what waits for nobody ends first. A text of a
program is one of a few, chosen to be equal, equal but for blanks, and
different. What the harness may print beside a whole result is an error in
`parseResult`; the output of a dying harness is empty or torn.

## 3. Runs

| Run | Instance | Shows |
|---|---|---|
| `pool_safety` | 2 attempts, 3 sandboxes, Prewarm 1, MaxInflight 2 | type, `NeverShared`, `OneOwner`, `Accounted`, `PushHasRoom` |
| `pool_limits` | 2 attempts, 2 sandboxes, Prewarm 2, MaxInflight 1 | `InflightCapped`, `StopEmptiesPool`, `NoUseAfterDelete`, `ImplementsIsolation` |
| `pool_live` | 1 attempt, 2 sandboxes, Prewarm 1, fair | `RunReturns`, `UsedIsDeleted`, `StopReturns` |
| `pool_exit` | 1 attempt, 1 sandbox | finding: `ExitAbandonsNone` fails |
| `attempts_merge` | 2 devices in one browser, a submission and a sign-in each, 2 clock values, both stores | `StandingMatchesHistory`, `PassNeverRegresses`, `LinkKeepsBetter`, `OnlyLinkedDevicesCount` |
| `attempts_retry` | 2 submissions with one key, a run, a sign-in, a logout, Postgres | type, `OneResultPerKey`, `AnsweredIsRecorded`, `CookieFollowsLink` |
| `attempts_replay` | the same, submissions may pass | finding: `ToldPassIsRecorded` fails |
| `attempts_signin` | the same | finding: `SignedInShowsPasses` fails |
| `hints` | 2 asks of a device about one mistake, 1 question of a student, 2 days, limit 1, budget 1, 2 levels | type, `CacheFits`, `ShownFits`, `LevelEarned`, `LadderClimbs`, `HintsLimited`, `BudgetBounds` |
| `hints_budget` | the same | finding: `CallsWithinBudget` fails |
| `gate` | 2 presses of one student on a phone and a laptop behind one address, limits 2 a minute per device and per address, 3 a day, window 3, day 4 ticks, seconds of 2, 1 bucket kept, 2 retries, clock up to 5 | type, `WindowLimit`, `NoStaleBuckets`, `DailyLimit`, `DayRefusalEarned`, `ToldEnough` |
| `local_runner` | 64 trees, a submission and a free run for one slot, 5 programs, limits of 1 and 2 ticks, slack 1, grace 1, texts up to 4 characters | type, `LibrarySound`, `TolerantByPosition`, `PassIsEarned`, `BlameFits`, `RevealsOne`, `OverrunMeansWedged` |

Why the bounds are enough. Sharing, double ownership and a sandbox used after
its delete need two attempts and one sandbox; the prewarm loop, the pool, a
second create and a pending delete side by side need three. The cap bites with
two attempts and one slot, the pool's capacity with one more create than
`Prewarm`. For progress every conflict is between what is there and one
record or merge that arrives: two submissions and two merges give every order
of them, and two clock values every order of their times, ties included. Two
requests with one key are enough for every check-then-act race on it. For hints
two asks share a mistake, so that one fills the cache while the other is
before, in or after its lookup, and the third is the one whose answer must stay
out of it; with limits of one on each of two days every count meets its limit,
and one mistake is enough because keys that differ do not meet. For the gate
two presses with two retries make six tries against limits of two and three, so
every limit is met; the clock passes the end of a window, of a second bucket
and of a day; three keys meet a map that keeps one. For the local runner a tree
differs from a sound one in one thing at a time, because every check looks at
one exercise, one unit or one pair of them; two cases give an order, a first
failure and a repeated id; one slot and one tick of grace let the handler's
deadline strike before the budget. `TolerantByPosition` compares all texts of
up to four characters over a letter, a blank, CR and LF, long enough for every
pass of `Normalize` to meet the result of the one before. The
theorems in section 5 remove the bounds for the properties they cover.
Symmetry (attempts, sandboxes; the two devices with their requests, student
identifiers; the two submissions with one key; the two asks) is used in runs
without liveness only.

Fairness (`pool_live`): weak fairness for every attempt once it has begun, for
creates, the prewarm loop, deletes and `Stop`. The Go scheduler runs every
goroutine that can move, and every call, sleep and wait in them has a timeout
(`controlJSON` 30 s, `writeFile` 15 s, exec its budget plus 10 s,
`ReadyTimeout`). Nothing is assumed of the platform, of clients, of signals or
of failures. No property of the other modules is a liveness property: a
handler is a straight line of calls that each end, and that the one loop in it
(`generate`) makes at most two turns is part of `BudgetBounds`; in
`LocalRunner` every wait ends by a timer that `Tick` cannot pass.

Deadlock is checked in every run but `local_runner`, where a server that
refuses its content, or whose attempts are over, has nothing left to do; `Over`
is the stutter of a system that has legitimately ended.

Every property of a passing run has a mutant, an operator in the module with
a plausible bug (`CleanupReuses`, `CreateTwice`, ...) that TLC refutes when it
takes the place of the operator it is derived from.

## 4. Findings

1. **Shutdown abandons running sandboxes** (`pool_exit`). `hs.Shutdown` makes
   `ListenAndServe` return at once; `serve` then runs its deferred `Stop`,
   which waits for the prewarm loop and for deletes already begun but not for
   handlers, and the process ends with attempts still in `Run`. Their sandboxes
   live on to `max_lifetime_seconds`, against "always deletes it afterwards"
   (`src/internal/runner/neevcloud.go:142`).
2. **A replayed pass that was never recorded** (`attempts_replay`).
   `CreateAttempt` and `RecordProgress` are separate calls. If the second does
   not happen, a retry with the same key returns the stored pass and records
   nothing (`src/internal/httpapi/attempt_handlers.go:74` and `:149`).
3. **A sign-in overtakes a submission** (`attempts_signin`). The owner is
   resolved when the request arrives. If the sign-in merges before the
   submission is recorded, the pass goes to the device, which is already linked
   and is not merged again until the next sign-in; the signed-in student does
   not see it.
4. **The model budget does not count the retry** (`hints_budget`).
   `withinBudget` counts one call, `generate` may make two, so a day can see
   twice `MODEL_DAILY_BUDGET` calls, "Global cap on model calls per day"
   (`src/README.md:52`). `BudgetBounds` shows that twice is the most.

Also met while modelling, with no run of their own: the answer to a submission
takes its exception from the first case that failed even if that one is hidden
(`src/internal/grade/evaluate.go:110`, sent at `attempt_handlers.go:130`), and
`setError` hands it on to hints and so to the model's prompt (`service.go:223`),
though "hidden cases are never shown to students or to the model"
(`src/README.md:66`). Input, expected and actual output of a hidden case do stay
hidden, but the message of an exception may quote the input, as that of a failed
`int(input())` does. `RevealsOne` says just this much: an exception told is that
of the case shown, or of a hidden one. Memory has no unique index
on the key, so two requests side by side store two attempts under one key and
a retry may replay either; Postgres keeps the earliest `passed_at` but the
`best_attempt_id` of the pass merged last, Memory keeps both of the earliest.
The ladder counts hints "since the student last passed" the exercise, but
`passed_at` stays at the first pass (or moves back at a sign-in), so hints
given before a second pass keep counting. A local run that waited for its slot
longer than the handler's grace of 15 s is cut off by the handler's deadline
and logged as a wedged harness (`OverrunMeansWedged` names the case). "Every
error in one run" (`src/internal/content/load.go:18`) stops short behind an
`exercise.md` that does not parse, and entries without an id are not looked
into.

## 5. Proofs

`SandboxPoolProofs` proves, for every finite `Attempt` and `Sandbox` and every
`Prewarm` and `MaxInflight`, from `ProcessAssumption`, `SandboxAssumption` and
`ConfigAssumption`: type correctness, `NeverShared`, `OneOwner`, `Accounted`,
`InflightCapped`, `PushHasRoom`, `StopEmptiesPool`, the action property
`NoUseAfterDelete`, and that `SandboxPool` implements `AttemptIsolation`.

None of the safety properties is inductive alone. `IInv` conjoins with the
type invariant:

- ownership (`OwnInv`): which program counters hold a sandbox, one owner per
  sandbox, an unborn sandbox is owned by nobody and clean, and a sandbox in
  the pool, in a create or before its staging has no code in it: this is what
  makes the first write the only one;
- accounting (`CaredInv`, `Accounted`): a retired sandbox is nobody's;
- entry (`EntryInv`): an attempt that has not reached its staging is in no
  sandbox and unanswered: this carries the refinement;
- slots (`SlotInv`): `slots` counts the attempts between `TakeSlot` and
  `ReleaseSlot`, which bounds those that hold a sandbox;
- the loop (`WarmInv`) and Stop (`StopInv`): only the loop adds to the pool,
  it creates only below `Prewarm`, and it has ended before the drain.

Each is preserved by every action (one step per action). The
refinement maps `user` to `code`, `retired` to the sandboxes in deletion, gone
or with a fate, and `answer` to `result`; each step maps to a step of
`AttemptIsolation` or a stutter.

`AttemptsProofs` proves, for every set of requests, devices, browsers, students
and times and over either store, from `RequestAssumption`, `OwnerAssumption`
and `TimeAssumption`: type correctness, `StandingMatchesHistory`,
`OnlyLinkedDevicesCount`, `CookieFollowsLink`, `AnsweredIsRecorded`,
`OneResultPerKey`, and the action properties `PassNeverRegresses` and
`LinkKeepsBetter`. Its `IInv` conjoins with the type invariant and the first
three of them:

- paths (`PathInv`): which kinds of request reach which step, and that nothing
  is answered before the end;
- the store (`StoreInv`): an attempt is stored only by its own request and
  after its `CreateAttempt`, progress hears only of stored attempts, and
  Postgres stores one per device and key;
- links (`LinkedInv`): every place a student comes from (the `student_id` a
  request has seen, the cookie it will set, its owner) names a student the
  device was linked to: this carries `OnlyLinkedDevicesCount`;
- answers (`AnswerInv`): an answered attempt is stored under the device and key
  of the request, from which `OneResultPerKey` follows.

The heart is `MergeRepresents`: if two standings are the best of two histories,
their merge, by Memory's rule or by Postgres', is the best of both. Every step
either leaves the histories alone, records one attempt, merges a device into a
student or (Memory) forgets all (`NextEffect`), so `StandingMatchesHistory` is
preserved by `MergeRepresents` alone, and the two action properties follow from
the same four cases.

`HintsProofs` proves, for every set of asks, devices, students, mistakes, levels,
limits and days, all that the run `hints` checks: type correctness,
`CacheFits`, `ShownFits`, `HintsLimited`, `BudgetBounds`, `LevelEarned` and
`LadderClimbs`. Each argument has an invariant of its own on top of the type:

- texts (`TextInv`): a text held between two steps fits the ask that holds it,
  nothing is held before the cache is looked up, and a question reaches
  neither the cache nor its filling;
- counts (`CountInv`): the hints given for a day, with the asks that were charged
  to it and are still under way, are within the count and within the limit;
- budget (`BudgetInv`): the model calls of a day, with those that asks under
  way may still make, stay within two for each unit;
- levels (`LevelInv`): the level an ask has read is at most one more than the
  hints its owner had then, and hints are only appended.

`GateProofs` proves, for every set of presses, devices and addresses, all
limits and lengths of the window and the day, all that the run `gate` checks.
`WindowLimit` is the one that needs an idea (`LimiterInv`): a bucket counts at
least what was let through since it was made, and what was let through before
it, and is not yet a window old, came through one bucket before it, within the
limit; if the key has no bucket, its last one was pruned when it had expired.
`DailyInv` relates the count, the passages and the tries of each press;
`ToldInv` says that a press that was refused has been told nothing yet and that
its day ends no later than the present one.

`GradingProofs` proves that the tolerant comparison is right for texts of any
length over any set of characters with a blank, a CR and an LF:
`Normalize(s)`, which the code computes by replacing, splitting, trimming,
dropping and joining, is `Counting[s]`, the characters of `s` that count, each
judged by what follows it (`NormalizeIsCounting`); so `Equal` is the
reference's `SameText` (`EqualIsSameText`). The argument is an induction over
the text from its end, of which `Understood` is the invariant: the two agree,
the first line is empty after trimming if and only if only blanks stand in it,
and no line is left if and only if nothing solid stands in the text.
`ReadingFrom` says what one more character in front does to the lines that
Normalize reads, `BlankToEndFrom` and `SolidFrom` what it does to the two
conditions of the reference, and `UnderstoodFrom` joins them. It also proves what
`Evaluate` makes of results that come one to a case with ids of their own
(`OwnResult`, `VerdictOnResults`) and what `casesJSON` shows of it
(`RevealedIsFirst`). `Blames` ties an outcome and its exception to the case they
come from, whether as the harness reported it or as the program did it.

The provers cannot instantiate an induction rule that takes an operator.
`SequenceRecursion` therefore states induction over a *set* (`Induction`,
`TailInduction`), proved from the well-foundedness of inclusion on finite sets,
and recursion on tails with the step as a *function* (`TailRecursion`). With it
each function of `Grading` is shown to satisfy its own equation
(`UnixLinesUnfolds` and its like).

`LocalRunnerProofs` proves all that the run `local_runner` checks, for all
content trees, attempts, programs and lengths of the deadlines, from
`RunnerAssumption`, `TreeAssumption` (directories have names of their own, case
lists are lists), `TextAssumption` (what is printed, left and expected is text)
and those of `Content` and `Grading`. It needs three invariants:

- `Inv`: types, and where a harness's time went. `spent` is at most `idle`,
  plus the limit for each case that is over, plus the time of the case under
  way, which is within its limit. `TotalBudget` exceeds all the limits by the
  slack, so a harness at its budget has idled the slack away
  (`OverrunMeansWedged`). That a limit is a number is a fact about `checkTests`
  (`ExercisesGradable`).
- `Read`: a server that serves read its library from a tree it accepted. The
  rest of `LibrarySound` is about `Load` alone: a tree without faults has every
  directory sound and none a duplicate (`AcceptedTree`), so an id is that of
  one directory of one track (`SoundDirectory`), its cases can be told apart
  (`SoundCases`), and its hints speak (`SoundHints`).
- `AllTold`: what is told comes from what was done. Code that is no Python runs
  no case; a run that returns no error returns what the harness printed of
  every case; an answer that is no error is the verdict on that.

`PassIsEarned`, `BlameFits` and `RevealsOne` follow from the three together.
`AllTold` and `Read` give one result for each case and no two under one id
(`SubmitResults`), so `byID` finds the case's own; `EqualIsSameText` turns each
comparison into the reference's (`PassedIsRight`); and `VerdictOnResults` gives
the answer (`AnswerKinds`), of which each of the three says a part.
`TolerantByPosition` is `NormalizeIsCounting` at the length of the run.

Every invariant and action property of a passing run is thus stated by a theorem.
Only model-checked are the liveness properties of `pool_live` (`RunReturns`,
`UsedIsDeleted`, `StopReturns`), which are outside the provers' reach, and, as
counterexamples, the four findings.

## 6. Not modelled

- *The web page's state* (`Exercise.tsx`, `AppContext.tsx`, drafts, pins): which
  answer is shown where depends on when React runs effects and renders, which
  is not in `src/`. Of the web client only its requests are in `Gate`.
- *The pool after a cancelled attempt* (`neevcloud.go:187`): it may take and
  delete every pooled sandbox. `SandboxPool` allows it; nothing in the code
  promises that the pool survives it.
- *Programs that outlive their harness*, the cap on the size of outputs, the
  mistake flags (a syntax-tree walk without state) and how `parse_error` reads a
  traceback (that its result reaches the answer is modelled).
- *Texts*: YAML and front matter, prompts, the wording of hints, which canned
  hint matches, how `LeaksSolution` judges.
- *Identity*: cookie signing, Google's token verification, language
  preferences (single writes).
- *Endpoints* that copy fields (`metrics.go`, most of `content_handlers.go`),
  configuration and wiring.

Bounds of what is modelled: the daily count of `Gate` is Postgres's only, its
instance has a signed-in owner only, and its clock does not go back. A restart
of Memory is in `Attempts` but not in `Hints`.

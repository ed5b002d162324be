------------------------------- MODULE Hints --------------------------------
(***************************************************************************)
(* POST /v1/hints (handleHint) and the service behind it                   *)
(* (tutor.Service.Hint), for one exercise and one language: the daily      *)
(* count of hints, the ladder level, the canned hints, the cache of model  *)
(* hints, the daily budget of model calls, and the model, whose replies    *)
(* are checked for leaks.  Asks run concurrently, on one or several        *)
(* instances, while the students pass the exercise and sign in.            *)
(*                                                                         *)
(* A step of an ask is one call of the store or of the model with the      *)
(* local code up to the next one, or a reading of the clock.  Both stores  *)
(* behave alike here, except that Memory's calls never fail and that       *)
(* Memory forgets all at a restart, which is left out.  So are the asks    *)
(* that handleHint refuses before it counts them.  All instances have one  *)
(* clock, in instants of which a day has DayLength.                        *)
(***************************************************************************)
EXTENDS FiniteSets, Integers, Sequences

CONSTANTS
  Ask,               \* the requests for a hint
  Device, Student,   \* the owners: anonymous devices and signed-in students
  OwnerOf,           \* id.Owner() of each ask
  Question,          \* the asks with a question of the student's own
  Mistake,           \* what CacheKey takes of a failure
  MistakeOf,         \* the mistake in each ask's attempt
  HasLLM,            \* whether a model is configured
  MaxLevel,          \* the last level of the ladder, 3 in the code
  HintsPerDayAnon, HintsPerDaySigned,
  DailyModelBudget,  \* 0 means unlimited
  DayLength,
  MaxTime,           \* bound: the clock stops there
  NoReply            \* the text of a hint that is not from the model

Owner == Device \cup Student

ASSUME AskAssumption ==
  /\ OwnerOf \in [Ask -> Owner]
  /\ Question \subseteq Ask
  /\ MistakeOf \in [Ask -> Mistake]
  /\ HasLLM \in BOOLEAN

ASSUME LimitAssumption ==
  /\ HintsPerDayAnon \in Nat /\ HintsPerDaySigned \in Nat
  /\ MaxLevel \in Nat \ {0}
  /\ DailyModelBudget \in Nat
  /\ DayLength \in Nat \ {0} /\ MaxTime \in Nat

Time == 0..MaxTime
Day == {t \div DayLength : t \in Time}

\* No passed_at: HintsSince is asked with the zero time.
Never == -1

VARIABLES
  now,       \* the clock
  usage,     \* usage_daily, kind "hints", for each owner and day
  calls,     \* usage_daily, kind "model_calls", for each day
  passedAt,  \* passed_at in each owner's progress
  cache,     \* hint_cache
  hints,     \* the hints in the store, in the order they were created
  pc,        \* where each ask is
  asked,     \* the time at which Service.Hint began
  since,     \* passed_at as ListProgress returned it
  level,     \* the ladder level
  text,      \* the hint's text
  counted,   \* ghost: the day an ask was counted on
  before,    \* ghost: how many hints there were when it was counted
  completed  \* ghost: the calls made to the model, by the day counted

storeVars == <<usage, calls, passedAt, cache, hints>>
localVars == <<asked, since, level, text, counted, before>>
vars == <<now, storeVars, pc, localVars, completed>>

PC == {"idle", "begin", "ladder", "since", "cache", "budget", "call", "retry", "put",
       "store", "done"}
Level == 1..MaxLevel

\* A reply of the model: whose ask it answers, and what LeaksSolution says of it.
Reply == [for : Ask, level : Level, leaks : BOOLEAN]
Key == Mistake \X Level

\* A row of hints.  What its source is shows in text only as far as NoReply
\* tells canned and generic from the model's; counted and before are ghosts.
Hint == [ask : Ask, level : Level, text : Reply \cup {NoReply}, at : Time,
         counted : Day, before : Nat]

TypeOK ==
  /\ now \in Time
  /\ usage \in [Owner \X Day -> Nat]
  /\ calls \in [Day -> Nat]
  /\ passedAt \in [Owner -> Time \cup {Never}]
  /\ cache \in [Key -> Reply \cup {NoReply}]
  /\ hints \in Seq(Hint)
  /\ pc \in [Ask -> PC]
  /\ asked \in [Ask -> Time]
  /\ since \in [Ask -> Time \cup {Never}]
  /\ level \in [Ask -> Level]
  /\ text \in [Ask -> Reply \cup {NoReply}]
  /\ counted \in [Ask -> Day]
  /\ before \in [Ask -> Nat]
  /\ completed \in [Day -> Nat]

Init ==
  /\ now = 0
  /\ usage = [u \in Owner \X Day |-> 0]
  /\ calls = [d \in Day |-> 0]
  /\ passedAt = [o \in Owner |-> Never]
  /\ cache = [k \in Key |-> NoReply]
  /\ hints = <<>>
  /\ pc = [r \in Ask |-> "idle"]
  /\ asked = [r \in Ask |-> 0]
  /\ since = [r \in Ask |-> Never]
  /\ level = [r \in Ask |-> 1]
  /\ text = [r \in Ask |-> NoReply]
  /\ counted = [r \in Ask |-> 0]
  /\ before = [r \in Ask |-> 0]
  /\ completed = [d \in Day |-> 0]

-----------------------------------------------------------------------------
DayOf(t) == t \div DayLength
At(r, l) == pc[r] = l
Goto(r, l) == pc' = [pc EXCEPT ![r] = l]

\* The ask ends, and with it what the handler knew.
Leave(r) ==
  /\ Goto(r, "done")
  /\ asked' = [asked EXCEPT ![r] = 0]
  /\ since' = [since EXCEPT ![r] = Never]
  /\ level' = [level EXCEPT ![r] = 1]
  /\ text' = [text EXCEPT ![r] = NoReply]
  /\ counted' = [counted EXCEPT ![r] = 0]
  /\ before' = [before EXCEPT ![r] = 0]

Limit(o) == IF o \in Student THEN HintsPerDaySigned ELSE HintsPerDayAnon

\* Mutant: the hints of everybody count.
HintsOfAll(o, t) == {i \in DOMAIN hints : hints[i].at > t}

\* The hints of an owner created after t: HintsSince.
HintsSince(o, t) == {i \in DOMAIN hints : OwnerOf[hints[i].ask] = o /\ hints[i].at > t}

CacheKey(r) == <<MistakeOf[r], level[r]>>

\* Where an ask goes that neither a canned hint nor the cache answers.
BeyondCache ==
  IF ~HasLLM THEN "store" ELSE IF DailyModelBudget = 0 THEN "call" ELSE "budget"

-----------------------------------------------------------------------------
(* handleHint and Service.Hint                                             *)

\* IncrUsage on today's row of the owner.
Count(r) ==
  /\ At(r, "idle")
  /\ usage' = [usage EXCEPT ![<<OwnerOf[r], DayOf(now)>>] = @ + 1]
  /\ UNCHANGED <<now, calls, passedAt, cache, hints, completed>>

\* What the count answers.
CountedNow(r) == usage'[<<OwnerOf[r], DayOf(now)>>]

\* Mutant: the limit is compared with the count before this ask.
ChargeOneMore(r) ==
  /\ Count(r)
  /\ CountedNow(r) - 1 <= Limit(OwnerOf[r])
  /\ Goto(r, "begin")
  /\ counted' = [counted EXCEPT ![r] = DayOf(now)]
  /\ before' = [before EXCEPT ![r] = Len(hints)]
  /\ UNCHANGED <<asked, since, level, text>>

\* The daily count lets the ask through.
Charge(r) ==
  /\ Count(r)
  /\ CountedNow(r) <= Limit(OwnerOf[r])
  /\ Goto(r, "begin")
  /\ counted' = [counted EXCEPT ![r] = DayOf(now)]
  /\ before' = [before EXCEPT ![r] = Len(hints)]
  /\ UNCHANGED <<asked, since, level, text>>

\* It is over the limit.  The refusal counts too.
ChargeRefuses(r) ==
  /\ Count(r)
  /\ CountedNow(r) > Limit(OwnerOf[r])
  /\ Goto(r, "done")
  /\ UNCHANGED localVars

\* Service.Hint begins and takes the time.
Begin(r) ==
  /\ At(r, "begin")
  /\ asked' = [asked EXCEPT ![r] = now]
  /\ Goto(r, "ladder")
  /\ UNCHANGED <<now, storeVars, since, level, text, counted, before, completed>>

\* Mutant: without a pass the ladder starts anew at each ask.
ListProgressNow(r) ==
  /\ At(r, "ladder")
  /\ LET t == passedAt[OwnerOf[r]] IN
       since' = [since EXCEPT ![r] = IF t = Never THEN asked[r] ELSE t]
  /\ Goto(r, "since")
  /\ UNCHANGED <<now, storeVars, asked, level, text, counted, before, completed>>

ListProgress(r) ==
  /\ At(r, "ladder")
  /\ since' = [since EXCEPT ![r] = passedAt[OwnerOf[r]]]
  /\ Goto(r, "since")
  /\ UNCHANGED <<now, storeVars, asked, level, text, counted, before, completed>>

\* Mutant: the level is the number of the hints before.
ClimbLate(n) == IF n < MaxLevel THEN n ELSE MaxLevel

\* One more than the hints before, up to the last level.
Climb(n) == IF n < MaxLevel THEN n + 1 ELSE MaxLevel

\* The level, from the hints since passed_at (which is not needed any more).
ReadLevel(r) ==
  /\ At(r, "since")
  /\ level' = [level EXCEPT ![r] = Climb(Cardinality(HintsSince(OwnerOf[r], since[r])))]
  /\ since' = [since EXCEPT ![r] = Never]
  /\ UNCHANGED <<now, storeVars, asked, text, counted, before, completed>>

\* MatchCanned finds a hint for the failure; it is not asked about a question.
CannedAnswers(r) ==
  /\ ReadLevel(r)
  /\ r \notin Question
  /\ Goto(r, "store")

NotCanned(r) ==
  /\ ReadLevel(r)
  /\ Goto(r, IF r \in Question THEN BeyondCache ELSE "cache")

CacheHit(r) ==
  /\ At(r, "cache")
  /\ cache[CacheKey(r)] # NoReply
  /\ text' = [text EXCEPT ![r] = cache[CacheKey(r)]]
  /\ Goto(r, "store")
  /\ UNCHANGED <<now, storeVars, asked, since, level, counted, before, completed>>

\* There is no entry, or GetCache fails.
CacheMiss(r) ==
  /\ At(r, "cache")
  /\ Goto(r, BeyondCache)
  /\ UNCHANGED <<now, storeVars, localVars, completed>>

\* Mutant: the count is compared before this call is added.
WithinBudgetBefore(r) ==
  /\ At(r, "budget")
  /\ LET d == DayOf(asked[r]) IN
       /\ calls' = [calls EXCEPT ![d] = @ + 1]
       /\ Goto(r, IF calls[d] <= DailyModelBudget THEN "call" ELSE "store")
  /\ UNCHANGED <<now, usage, passedAt, cache, hints, localVars, completed>>

\* The count is that of the day on which Service.Hint began.  Over budget, or
\* when the count fails (counted or not), the hint is a generic one.
WithinBudget(r) ==
  /\ At(r, "budget")
  /\ LET d == DayOf(asked[r])
         bumped == [calls EXCEPT ![d] = @ + 1] IN
       \/ calls' = bumped /\ bumped[d] <= DailyModelBudget /\ Goto(r, "call")
       \/ calls' \in {calls, bumped} /\ Goto(r, "store")
  /\ UNCHANGED <<now, usage, passedAt, cache, hints, localVars, completed>>

\* LLM.Complete is called, for the first time or with the stricter prompt.
Completing(r) ==
  /\ pc[r] \in {"call", "retry"}
  /\ completed' = [completed EXCEPT ![DayOf(asked[r])] = @ + 1]
  /\ UNCHANGED <<now, storeVars, asked, since, level, counted, before>>

ReplyTo(r, leaks) == [for |-> r, level |-> level[r], leaks |-> leaks]

\* Mutant: the reply to the stricter prompt is not checked.
AcceptRetry(r) ==
  /\ Completing(r)
  /\ \E leaks \in BOOLEAN :
       /\ leaks => At(r, "retry")
       /\ text' = [text EXCEPT ![r] = ReplyTo(r, leaks)]
  /\ Goto(r, IF r \in Question THEN "store" ELSE "put")

\* Mutant: an answer to a question is cached as well.
AcceptAndPut(r) ==
  /\ Completing(r)
  /\ text' = [text EXCEPT ![r] = ReplyTo(r, FALSE)]
  /\ Goto(r, "put")

\* The reply does not leak; it is for the cache if there was no question.
Accept(r) ==
  /\ Completing(r)
  /\ text' = [text EXCEPT ![r] = ReplyTo(r, FALSE)]
  /\ Goto(r, IF r \in Question THEN "store" ELSE "put")

\* The reply leaks the solution: one stricter retry, then a generic hint.
Reject(r) ==
  /\ Completing(r)
  /\ Goto(r, IF At(r, "call") THEN "retry" ELSE "store")
  /\ UNCHANGED text

\* The model answers with an error, or not in time.
CompleteFails(r) ==
  /\ Completing(r)
  /\ Goto(r, "store")
  /\ UNCHANGED text

\* PutCache; that it fails is only logged.
PutCache(r) ==
  /\ At(r, "put")
  /\ cache' \in {cache, [cache EXCEPT ![CacheKey(r)] = text[r]]}
  /\ Goto(r, "store")
  /\ UNCHANGED <<now, usage, calls, passedAt, hints, localVars, completed>>

\* The hint as it is stored, stamped with the time Service.Hint began.
HintOf(r) ==
  [ask |-> r, level |-> level[r], text |-> text[r], at |-> asked[r],
   counted |-> counted[r], before |-> before[r]]

\* Whether or not the handler hears that the hint was stored.
CreateHint(r) ==
  /\ At(r, "store")
  /\ hints' = Append(hints, HintOf(r))
  /\ Leave(r)
  /\ UNCHANGED <<now, usage, calls, passedAt, cache, completed>>

\* A store call fails without effect, the client is gone, or the instance
\* crashes: the ask ends with no hint.
Abort(r) ==
  /\ pc[r] \notin {"idle", "done"}
  /\ Leave(r)
  /\ UNCHANGED <<now, storeVars, completed>>

-----------------------------------------------------------------------------
(* What happens meanwhile                                                  *)

Earliest(t, u) ==
  IF t = Never THEN u ELSE IF u = Never THEN t ELSE IF t <= u THEN t ELSE u

\* RecordProgress of a pass at t; both stores keep the first passed_at.
Pass(o, t) ==
  /\ t <= now
  /\ passedAt' = [passedAt EXCEPT ![o] = Earliest(@, t)]
  /\ UNCHANGED <<now, usage, calls, cache, hints, pc, localVars, completed>>

\* LinkDevice merges the device's progress; its hints stay with the device.
LinkDevice(d, s) ==
  /\ passedAt' = [passedAt EXCEPT ![s] = Earliest(@, passedAt[d])]
  /\ UNCHANGED <<now, usage, calls, cache, hints, pc, localVars, completed>>

Tick ==
  /\ now < MaxTime
  /\ now' = now + 1
  /\ UNCHANGED <<storeVars, pc, localVars, completed>>

-----------------------------------------------------------------------------
HintStep(r) ==
  \/ Charge(r) \/ ChargeRefuses(r) \/ Begin(r) \/ ListProgress(r)
  \/ CannedAnswers(r) \/ NotCanned(r) \/ CacheHit(r) \/ CacheMiss(r)
  \/ WithinBudget(r) \/ Accept(r) \/ Reject(r) \/ CompleteFails(r)
  \/ PutCache(r) \/ CreateHint(r)

Next ==
  \/ \E r \in Ask : HintStep(r) \/ Abort(r)
  \/ \E o \in Owner, t \in Time : Pass(o, t)
  \/ \E d \in Device, s \in Student : LinkDevice(d, s)
  \/ Tick

Spec == Init /\ [][Next]_vars

-----------------------------------------------------------------------------
(* Safety                                                                  *)

\* What the cache serves to others was checked for leaks, answers no question,
\* and was written for the mistake and the level of its key ("question answers
\* must not be cached").
CacheFits ==
  \A m \in Mistake, l \in Level :
    LET reply == cache[<<m, l>>] IN reply # NoReply =>
      /\ ~reply.leaks
      /\ reply.for \notin Question
      /\ MistakeOf[reply.for] = m /\ reply.level = l

\* A model's reply is "checked for leaked solutions before a student sees it",
\* also when it comes from the cache; a student with a question gets a reply
\* of their own, and a student without one a reply to the same mistake at the
\* level of the hint.
ShownFits ==
  \A i \in DOMAIN hints :
    LET h == hints[i]
        reply == h.text IN reply # NoReply =>
      /\ ~reply.leaks
      /\ reply.level = h.level
      /\ h.ask \in Question => reply.for = h.ask
      /\ h.ask \notin Question => reply.for \notin Question /\ MistakeOf[reply.for] = MistakeOf[h.ask]

\* The owner's hints among the first n.
HintsOf(o, n) == {j \in 1..n : OwnerOf[hints[j].ask] = o}

\* A level is earned: before a hint of level k its owner was given at least
\* k - 1 hints, whatever ran side by side and however passed_at moved.
LevelEarned ==
  \A i \in DOMAIN hints :
    hints[i].level <= 1 + Cardinality(HintsOf(OwnerOf[hints[i].ask], i - 1))

\* The ladder climbs: for an owner that has not passed, a hint is above every
\* hint that had been given when it was asked for, up to the last level.
LadderClimbs ==
  \A i \in DOMAIN hints :
    LET o == OwnerOf[hints[i].ask]
        n == Cardinality(HintsOf(o, hints[i].before)) IN
      passedAt[o] = Never => hints[i].level >= Climb(n)

\* Of the asks that an owner makes on a day at most the limit get a hint, and
\* each hint was counted, also when midnight falls into an ask.
HintsLimited ==
  \A o \in Owner, d \in Day :
    LET n == Cardinality({i \in DOMAIN hints :
               OwnerOf[hints[i].ask] = o /\ hints[i].counted = d}) IN
      n <= Limit(o) /\ n <= usage[<<o, d>>]

\* "The counter is bumped before the call so a burst cannot overshoot the
\* cap": a unit of the budget pays for a call and its one retry, no more.
BudgetBounds ==
  DailyModelBudget > 0 => \A d \in Day : completed[d] <= 2 * DailyModelBudget

-----------------------------------------------------------------------------
(* What the documentation says and the code does not do                    *)

\* MODEL_DAILY_BUDGET is a "global cap on model calls per day".
CallsWithinBudget ==
  DailyModelBudget > 0 => \A d \in Day : completed[d] <= DailyModelBudget

=============================================================================

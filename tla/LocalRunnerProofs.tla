-------------------------- MODULE LocalRunnerProofs --------------------------
(***************************************************************************)
(* Proofs about LocalRunner, for any content trees, attempts, programs and *)
(* lengths of the deadlines: its type invariant, that only a harness that  *)
(* is wedged, or that was started late, is cut off, that the library of a  *)
(* server that serves is sound, and that what a student is told is what    *)
(* the code did.                                                           *)
(***************************************************************************)
EXTENDS LocalRunner, GradingProofs, TLAPS

Limit(a) == SpecOf(a).limit
NCases(a) == Len(SpecOf(a).cases)

\* An exercise that is registered has a time limit and a list of cases.
Gradable(e) == e.limit \in Nat /\ IsList(e.cases)

\* The time a harness has spent is what it spent outside the cases, at most
\* the limit for each case that is over, and the time of the case under way.
Timed(a) ==
  /\ pc[a] \in {"idle", "wait", "stage", "done"} => did[a] = <<>>
  /\ ~InHarness(a) /\ pc[a] # "return" => spent[a] = 0 /\ idle[a] = 0
  /\ pc[a] # "case" /\ pc[a] # "return" => caseTime[a] = 0
  /\ pc[a] \notin {"idle", "done"} => ex[a] \in lib
  /\ InHarness(a) => spent[a] <= idle[a] + Len(did[a]) * Limit(a) + caseTime[a]
  /\ pc[a] = "case" => Len(did[a]) < NCases(a) /\ caseTime[a] <= Limit(a)
  /\ pc[a] = "return" /\ result[a].err = "overrun" =>
       idle[a] >= Slack \/ age[a] - spent[a] >= Grace

Inv ==
  /\ TypeOK
  /\ \A e \in lib : Gradable(e)
  /\ up # "serving" => \A a \in Attempt : pc[a] = "idle" /\ ex[a] = NoExercise
  /\ \A a \in Attempt : Timed(a)

-----------------------------------------------------------------------------
(* Exercises and specifications                                            *)

\* What Load registers passed checkTests.
LEMMA ExercisesGradable ==
  ASSUME NEW tr \in Tree
  PROVE  \A e \in Exercises(tr) : Gradable(e)
<1> SUFFICES ASSUME NEW t \in Tracks(tr), NEW i \in Sound(tr[t])
             PROVE  Gradable(ExerciseOf(tr[t].dirs[i], tr[t].dir))
  BY DEF Exercises
<1> DEFINE d == tr[t].dirs[i]
           tests == d.tests
<1>1. loadExercise(d, tr[t].dir) = {}
  BY DEF Sound
<1>2. d.tests.yaml /\ checkTests(tests) = {}
  <2>1. d.md
    BY <1>1 DEF loadExercise
  <2> QED BY <1>1, <2>1 DEF loadExercise
<1>3. LimitOf(tests) \in MinLimit..MaxLimit
  <2>1. FaultIf(LimitOf(tests) \notin MinLimit..MaxLimit, "time_limit") = {}
    BY <1>2 DEF checkTests
  <2> QED BY <2>1 DEF FaultIf
<1>4. t \in DOMAIN tr /\ i \in DOMAIN tr[t].dirs
  BY DEF Tracks, Sound
<1>5. Len(tests.cases) \in Nat /\ DOMAIN tests.cases = 1..Len(tests.cases)
  BY <1>4, TreeAssumption DEF TreeAssumption, IsList
<1> HIDE DEF tests
<1>6. /\ ExerciseOf(d, tr[t].dir).limit = LimitOf(tests)
      /\ ExerciseOf(d, tr[t].dir).cases = tests.cases
  BY DEF ExerciseOf, tests
<1>7. LimitOf(tests) \in Nat
  BY <1>3, LimitsOfTime DEF LimitsOfTime
<1> QED BY <1>5, <1>6, <1>7 DEF Gradable, IsList

\* The specification of a run has the exercise's limit and numbered cases.
LEMMA SpecFacts ==
  ASSUME NEW a \in Attempt, Gradable(ex[a])
  PROVE  /\ Limit(a) \in Nat /\ NCases(a) \in Nat
         /\ Budget(a) \in Nat /\ Budget(a) >= NCases(a) * Limit(a) + Slack
<1>1. CASE ModeOf[a] = "run"
  <2>1. SpecOf(a).limit = ex[a].limit /\ Len(SpecOf(a).cases) = 1 /\ SpecOf(a).cases # <<>>
    BY <1>1 DEF SpecOf, RunSpec
  <2> QED
    BY <2>1, RunnerAssumption
       DEF RunnerAssumption, Gradable, IsList, Limit, NCases, Budget, TotalBudget
<1>2. CASE ModeOf[a] # "run"
  <2> DEFINE n == Len(ex[a].cases)
             f == [i \in DOMAIN ex[a].cases |->
                    [id |-> ex[a].cases[i].id, collect |-> DOMAIN ex[a].cases[i].expectFiles]]
  <2>1. SpecOf(a).limit = ex[a].limit /\ SpecOf(a).cases = f
    BY <1>2 DEF SpecOf, SubmitSpec
  <2>2. n \in Nat /\ DOMAIN f = 1..n
    BY DEF Gradable, IsList
  <2> HIDE DEF n
  <2>3. Len(f) = n
    BY <2>2
  <2>4. Limit(a) \in Nat /\ NCases(a) = n
    BY <2>1, <2>3 DEF Limit, NCases, Gradable, IsList
  <2>5. Budget(a) = (IF f = <<>> THEN 1 ELSE n) * Limit(a) + Slack
    BY <2>1, <2>3 DEF Budget, TotalBudget, Limit
  <2>6. f = <<>> => n = 0
    BY <2>3
  <2>7. n * Limit(a) \in Nat /\ 0 * Limit(a) = 0 /\ 1 * Limit(a) \in Nat
    BY <2>2, <2>4
  <2>8. Slack \in Nat
    BY RunnerAssumption DEF RunnerAssumption
  <2>9. Budget(a) \in Nat /\ Budget(a) >= n * Limit(a) + Slack
    <3>1. CASE f = <<>>
      <4>1. Budget(a) = 1 * Limit(a) + Slack /\ n * Limit(a) = 0
        BY <2>5, <2>6, <2>7, <3>1
      <4> QED BY <2>7, <2>8, <4>1
    <3>2. CASE f # <<>>
      <4>1. Budget(a) = n * Limit(a) + Slack
        BY <2>5, <3>2
      <4> QED BY <2>7, <2>8, <4>1
    <3> QED BY <3>1, <3>2
  <2> QED BY <2>2, <2>4, <2>9
<1> QED BY <1>1, <1>2

-----------------------------------------------------------------------------
(* The invariant                                                           *)

\* The variables of the attempts are functions of the right kind.
Shape ==
  /\ tree \in Tree
  /\ up \in {"boot", "serving", "refused"}
  /\ pc \in [Attempt -> PC]
  /\ ex \in [Attempt -> lib \cup {NoExercise}]
  /\ parses \in [Attempt -> BOOLEAN]
  /\ did \in [Attempt -> Seq(Did)]
  /\ age \in [Attempt -> Nat] /\ spent \in [Attempt -> Nat]
  /\ idle \in [Attempt -> Nat] /\ caseTime \in [Attempt -> Nat]
  /\ DOMAIN result = Attempt /\ DOMAIN answer = Attempt

\* What the invariant says of one attempt.
Own(a) ==
  /\ result[a].err \in {"none", "failed", "overrun"}
  /\ answer[a].outcome \in Outcome
  /\ pc[a] \notin {"idle", "done"} => Len(did[a]) <= NCases(a)
  /\ caseTime[a] <= spent[a] /\ idle[a] <= spent[a] /\ spent[a] <= age[a]
  /\ Timed(a)

Idle == up # "serving" => \A a \in Attempt : pc[a] = "idle" /\ ex[a] = NoExercise

\* The invariant, attempt by attempt.
LEMMA InvParts ==
  Inv <=> Shape /\ (\A e \in lib : Gradable(e)) /\ Idle /\ \A a \in Attempt : Own(a)
<1>1. TypeOK <=>
        Shape /\ \A a \in Attempt :
          /\ result[a].err \in {"none", "failed", "overrun"}
          /\ answer[a].outcome \in Outcome
          /\ pc[a] \notin {"idle", "done"} => Len(did[a]) <= NCases(a)
          /\ caseTime[a] <= spent[a] /\ idle[a] <= spent[a] /\ spent[a] <= age[a]
  BY DEF TypeOK, Shape, NCases
<1> QED BY <1>1 DEF Inv, Own, Idle

\* The same after a step.
LEMMA InvPartsNext ==
  Inv' <=> Shape' /\ (\A e \in lib' : Gradable(e)) /\ Idle' /\ \A a \in Attempt : Own(a)'
<1>1. TypeOK' <=>
        Shape' /\ \A a \in Attempt :
          /\ result'[a].err \in {"none", "failed", "overrun"}
          /\ answer'[a].outcome \in Outcome
          /\ pc'[a] \notin {"idle", "done"} => Len(did'[a]) <= NCases(a)'
          /\ caseTime'[a] <= spent'[a] /\ idle'[a] <= spent'[a] /\ spent'[a] <= age'[a]
  BY DEF TypeOK, Shape, NCases
<1>2. (\A e \in lib : Gradable(e))' <=> \A e \in lib' : Gradable(e)
  OBVIOUS
<1> QED BY <1>1, <1>2 DEF Inv, Own, Idle

\* An attempt that a step does not touch.
Untouched(q) ==
  /\ pc'[q] = pc[q] /\ ex'[q] = ex[q] /\ parses'[q] = parses[q] /\ did'[q] = did[q]
  /\ result'[q] = result[q] /\ answer'[q] = answer[q]
  /\ age'[q] = age[q] /\ spent'[q] = spent[q] /\ idle'[q] = idle[q]
  /\ caseTime'[q] = caseTime[q]

\* What is said of an attempt stays true of one that a step does not touch.
LEMMA UntouchedKeeps ==
  ASSUME NEW q \in Attempt, Own(q), Untouched(q), lib' = lib
  PROVE  Own(q)'
<1>1. Limit(q)' = Limit(q) /\ NCases(q)' = NCases(q)
  BY DEF Untouched, Limit, NCases, SpecOf
<1>2. InHarness(q)' <=> InHarness(q)
  BY DEF Untouched, InHarness
<1>3. Timed(q)'
  BY <1>1, <1>2 DEF Own, Timed, Untouched
<1> QED BY <1>1, <1>3 DEF Own, Untouched

\* So a step of one attempt needs to be looked at there only.
LEMMA OneAttempt ==
  ASSUME Inv, NEW a \in Attempt, Shape', lib' = lib, up' = up, up = "serving",
         \A q \in Attempt \ {a} : Untouched(q), Own(a)'
  PROVE  Inv'
<1>1. \A q \in Attempt : Own(q)
  BY InvParts
<1>2. \A q \in Attempt : Own(q)'
  <2> TAKE q \in Attempt
  <2>1. CASE q = a
    BY <2>1
  <2>2. CASE q # a
    <3>1. Untouched(q) /\ Own(q)
      BY <2>2, <1>1
    <3> QED BY <3>1, UntouchedKeeps
  <2> QED BY <2>1, <2>2
<1>3. \A e \in lib' : Gradable(e)
  BY InvParts
<1>4. Idle'
  BY DEF Idle
<1> QED BY <1>2, <1>3, <1>4, InvPartsNext

\* At the start no attempt has begun, and there is no library.
LEMMA InitInv == Init => Inv
<1> SUFFICES ASSUME Init PROVE Inv
  OBVIOUS
<1>1. <<>> \in Seq(Did) /\ Len(<<>>) = 0
  OBVIOUS
<1>2. Shape
  BY <1>1 DEF Init, Shape, PC
<1>3. \A a \in Attempt : Own(a)
  <2> TAKE a \in Attempt
  <2>1. /\ pc[a] = "idle" /\ did[a] = <<>>
        /\ age[a] = 0 /\ spent[a] = 0 /\ idle[a] = 0 /\ caseTime[a] = 0
    BY DEF Init
  <2>2. result[a].err = "none" /\ answer[a].outcome = "none"
    BY DEF Init, Nothing, NoAnswer, Result, Verdict
  <2> QED BY <2>1, <2>2 DEF Own, Timed, InHarness, Outcome
<1>4. Idle /\ \A e \in lib : Gradable(e)
  BY DEF Init, Idle
<1> QED BY <1>2, <1>3, <1>4, InvParts

\* The library that Boot reads has only exercises that passed checkTests.
LEMMA BootKeeps == ASSUME Inv, Boot PROVE Inv'
<1>1. Shape /\ Idle /\ \A a \in Attempt : Own(a)
  BY InvParts
<1>2. \A a \in Attempt : pc[a] = "idle" /\ ex[a] = NoExercise
  BY <1>1 DEF Boot, Idle
<1>3. Shape'
  BY <1>1, <1>2 DEF Boot, Shape, clocks
<1>4. \A a \in Attempt : Own(a)'
  BY <1>1, <1>2 DEF Boot, Own, Timed, InHarness, clocks
<1>5. \A e \in lib' : Gradable(e)
  BY <1>1, ExercisesGradable DEF Boot, Shape
<1>6. Idle'
  BY <1>2 DEF Boot, Idle
<1> QED BY <1>3, <1>4, <1>5, <1>6, InvPartsNext

\* An attempt that is under way has an exercise, and its run has a limit, a
\* number of cases and a budget.
LEMMA UnderWay ==
  ASSUME Inv, NEW a \in Attempt, pc[a] \notin {"idle", "done"}
  PROVE  /\ up = "serving" /\ Own(a) /\ Timed(a)
         /\ Limit(a) \in Nat /\ NCases(a) \in Nat /\ Budget(a) \in Nat
         /\ Budget(a) >= NCases(a) * Limit(a) + Slack
         /\ did[a] \in Seq(Did) /\ Len(did[a]) \in Nat /\ Len(did[a]) <= NCases(a)
         /\ age[a] \in Nat /\ spent[a] \in Nat /\ idle[a] \in Nat /\ caseTime[a] \in Nat
<1>1. Shape /\ Idle /\ Own(a) /\ \A e \in lib : Gradable(e)
  BY InvParts
<1>2. up = "serving" /\ Timed(a)
  BY <1>1 DEF Own, Idle
<1>3. Gradable(ex[a])
  BY <1>1, <1>2 DEF Timed
<1>4. did[a] \in Seq(Did) /\ Len(did[a]) \in Nat
  BY <1>1 DEF Shape
<1>5. Len(did[a]) <= NCases(a)
  BY <1>1 DEF Own
<1>6. age[a] \in Nat /\ spent[a] \in Nat /\ idle[a] \in Nat /\ caseTime[a] \in Nat
  BY <1>1 DEF Shape
<1> QED BY <1>1, <1>2, <1>3, <1>4, <1>5, <1>6, SpecFacts

\* An attempt begins with an exercise of the library and no case run.
LEMMA BeginKeeps == ASSUME Inv, NEW a \in Attempt, Begin(a) PROVE Inv'
<1>1. Shape /\ Own(a) /\ \A e \in lib : Gradable(e)
  BY InvParts
<1>2. PICK e \in lib, p \in BOOLEAN :
        ex' = [ex EXCEPT ![a] = e] /\ parses' = [parses EXCEPT ![a] = p]
  BY DEF Begin
<1>3. Shape'
  BY <1>1, <1>2 DEF Begin, Goto, Shape, PC, clocks
<1>4. \A q \in Attempt \ {a} : Untouched(q)
  BY <1>1, <1>2 DEF Begin, Goto, Shape, Untouched, clocks
<1>5. /\ pc[a] = "idle" /\ pc'[a] = "wait" /\ ex'[a] = e
      /\ did' = did /\ result' = result /\ answer' = answer
      /\ age' = age /\ spent' = spent /\ idle' = idle /\ caseTime' = caseTime /\ lib' = lib
  BY <1>1, <1>2 DEF Begin, At, Goto, Shape, clocks
<1>6. NCases(a)' \in Nat
  <2>1. Gradable(ex[a])'
    BY <1>1, <1>5 DEF Gradable, IsList
  <2>2. CASE ModeOf[a] = "run"
    BY <2>2 DEF NCases, SpecOf, RunSpec
  <2>3. CASE ModeOf[a] # "run"
    <3>1. NCases(a)' = Len([i \in DOMAIN e.cases |->
                    [id |-> e.cases[i].id, collect |-> DOMAIN e.cases[i].expectFiles]])
      BY <2>3, <1>5 DEF NCases, SpecOf, SubmitSpec
    <3>2. DOMAIN e.cases = 1..Len(e.cases) /\ Len(e.cases) \in Nat
      BY <1>1 DEF Gradable, IsList
    <3> QED BY <3>1, <3>2
  <2> QED BY <2>2, <2>3
<1>7. Own(a)'
  <2>1. did[a] = <<>>
    BY <1>1, <1>5 DEF Own, Timed
  <2>2. Len(did'[a]) <= NCases(a)'
    BY <2>1, <1>5, <1>6
  <2>3. Timed(a)'
    BY <1>1, <1>5, <2>1 DEF Own, Timed, InHarness
  <2> QED BY <1>1, <1>5, <2>2, <2>3 DEF Own
<1> QED BY <1>3, <1>4, <1>7, OneAttempt DEF Begin

\* A change of place that leaves everything else alone.
LEMMA PlaceKeeps ==
  ASSUME Inv, NEW a \in Attempt, NEW l \in {"stage", "harness"},
         pc[a] = IF l = "stage" THEN "wait" ELSE "stage", Goto(a, l),
         UNCHANGED <<tree, lib, up, ex, parses, did, result, answer, clocks>>
  PROVE  Inv'
<1>1. Shape
  BY InvParts
<1>2. /\ up = "serving" /\ Own(a) /\ Timed(a) /\ Limit(a) \in Nat
      /\ age[a] \in Nat /\ spent[a] \in Nat /\ idle[a] \in Nat /\ caseTime[a] \in Nat
  BY UnderWay
<1>3. Shape' /\ pc'[a] = l
  BY <1>1 DEF Goto, Shape, PC, clocks
<1>4. \A q \in Attempt \ {a} : Untouched(q)
  BY <1>1 DEF Goto, Shape, Untouched, clocks
<1>5. Limit(a)' = Limit(a) /\ NCases(a)' = NCases(a)
  BY DEF Limit, NCases, SpecOf
<1>6. did[a] = <<>> /\ spent[a] = 0 /\ idle[a] = 0 /\ caseTime[a] = 0 /\ Len(did[a]) * Limit(a) = 0
  BY <1>2 DEF Timed, InHarness
<1>7. did' = did /\ ex' = ex /\ result' = result /\ answer' = answer /\ lib' = lib
      /\ age' = age /\ spent' = spent /\ idle' = idle /\ caseTime' = caseTime
  BY DEF clocks
<1>8. Timed(a)'
  BY <1>2, <1>3, <1>5, <1>6, <1>7 DEF Timed, InHarness
<1>9. Own(a)'
  BY <1>2, <1>3, <1>5, <1>7, <1>8 DEF Own
<1> QED BY <1>2, <1>3, <1>4, <1>9, OneAttempt

\* Taking a slot and starting the harness take no time of a case.
LEMMA StageKeeps == ASSUME Inv, NEW a \in Attempt, Acquire(a) \/ Stage(a) PROVE Inv'
BY PlaceKeeps DEF Acquire, Stage, At

\* Run returns an error or what was printed; it was cut off for a reason.
LEMMA ReturnKeeps ==
  ASSUME Inv, NEW a \in Attempt, pc[a] \in {"stage", "harness", "case"}, NEW res, Return(a, res),
         res.err \in {"none", "failed", "overrun"},
         res.err = "overrun" => idle[a] >= Slack \/ age[a] - spent[a] >= Grace
  PROVE  Inv'
<1>1. Shape
  BY InvParts
<1>2. up = "serving" /\ Own(a) /\ Timed(a)
  BY UnderWay
<1>3. Shape' /\ pc'[a] = "return" /\ result'[a] = res
  BY <1>1 DEF Return, Goto, Shape, PC, clocks
<1>4. \A q \in Attempt \ {a} : Untouched(q)
  BY <1>1 DEF Return, Goto, Shape, Untouched, clocks
<1>5. did' = did /\ ex' = ex /\ answer' = answer /\ lib' = lib /\ up' = up
      /\ age' = age /\ spent' = spent /\ idle' = idle /\ caseTime' = caseTime
  BY DEF Return, clocks
<1>6. NCases(a)' = NCases(a)
  BY <1>5 DEF NCases, SpecOf
<1>7. Timed(a)'
  BY <1>2, <1>3, <1>5 DEF Timed, InHarness
<1>8. Own(a)'
  BY <1>2, <1>3, <1>5, <1>6, <1>7 DEF Own
<1> QED BY <1>2, <1>3, <1>4, <1>5, <1>8, OneAttempt

\* The other ways to return are not for the budget's sake.
LEMMA PlainReturns ==
  ASSUME Inv, NEW a \in Attempt, StageFails(a) \/ HarnessExits(a) \/ HarnessDies(a)
  PROVE  Inv'
<1>1. \A printed \in BOOLEAN : \A s, c :
        parseResult(printed, Result("none", s, c)).err \in {"none", "failed"}
  BY DEF parseResult, Failed, Result
<1>2. Failed.err = "failed"
  BY DEF Failed, Result
<1>3. PICK res : Return(a, res) /\ res.err \in {"none", "failed"}
  <2>1. CASE StageFails(a)
    BY <2>1, <1>2 DEF StageFails
  <2>2. CASE HarnessExits(a)
    BY <2>2, <1>1 DEF HarnessExits, HarnessOutput
  <2>3. CASE HarnessDies(a)
    BY <2>3, <1>1, <1>2 DEF HarnessDies, Nothing
  <2> QED BY <2>1, <2>2, <2>3
<1>4. pc[a] \in {"stage", "harness", "case"}
  BY DEF StageFails, HarnessExits, HarnessDies, InHarness, At
<1> QED BY <1>3, <1>4, ReturnKeeps

\* What the cases that were started can have taken.
LEMMA CasesWithinLimits ==
  ASSUME NEW n \in Nat, NEW k \in Nat, NEW limit \in Nat, k <= n
  PROVE  k * limit <= n * limit /\ (k < n => k * limit + limit <= n * limit)
OBVIOUS

\* Whoever is cut off has spent more than the limits of the cases explain.
LEMMA CutOffKeeps == ASSUME Inv, NEW a \in Attempt, CutOff(a) PROVE Inv'
<1>1. pc[a] \in {"harness", "case"} /\ InHarness(a) /\ Expired(a) /\ Return(a, Overrun)
  BY DEF CutOff, InHarness
<1>2. /\ Own(a) /\ Timed(a)
      /\ Limit(a) \in Nat /\ NCases(a) \in Nat /\ Budget(a) \in Nat
      /\ Budget(a) >= NCases(a) * Limit(a) + Slack
      /\ Len(did[a]) \in Nat /\ Len(did[a]) <= NCases(a)
      /\ age[a] \in Nat /\ spent[a] \in Nat /\ idle[a] \in Nat /\ caseTime[a] \in Nat
  BY <1>1, UnderWay
<1> DEFINE done == Len(did[a]) * Limit(a)
           all == NCases(a) * Limit(a)
<1>3. done \in Nat /\ all \in Nat /\ done <= all
      /\ (Len(did[a]) < NCases(a) => done + Limit(a) <= all)
  <2>1. \A k, n, l \in Nat :
          k <= n => k * l \in Nat /\ k * l <= n * l /\ (k < n => k * l + l <= n * l)
    BY CasesWithinLimits
  <2>2. Len(did[a]) * Limit(a) \in Nat /\ NCases(a) * Limit(a) \in Nat
    BY <1>2
  <2> QED BY <1>2, <2>1, <2>2
<1>4. spent[a] <= idle[a] + done + caseTime[a]
  BY <1>1, <1>2 DEF Timed
<1>5. done + caseTime[a] <= all
  <2>1. CASE pc[a] = "case"
    <3>1. Len(did[a]) < NCases(a) /\ caseTime[a] <= Limit(a)
      BY <1>2, <2>1 DEF Timed
    <3> HIDE DEF done, all
    <3> QED BY <3>1, <1>2, <1>3
  <2>2. CASE pc[a] = "harness"
    <3>1. caseTime[a] = 0
      BY <1>2, <2>2 DEF Timed
    <3> HIDE DEF done, all
    <3> QED BY <3>1, <1>3
  <2> QED BY <1>1, <2>1, <2>2
<1>6. spent[a] >= Budget(a) => idle[a] >= Slack
  <2> HIDE DEF done, all
  <2>1. Budget(a) >= all + Slack
    BY <1>2 DEF all
  <2>2. Slack \in Nat
    BY RunnerAssumption DEF RunnerAssumption
  <2>3. Budget(a) \in Nat /\ spent[a] \in Nat /\ idle[a] \in Nat /\ caseTime[a] \in Nat
    BY <1>2
  <2> QED BY <1>3, <1>4, <1>5, <2>1, <2>2, <2>3
<1>7. spent[a] < Budget(a) => age[a] - spent[a] >= Grace
  <2>1. spent[a] < Budget(a) => age[a] >= Budget(a) + Grace
    BY <1>1, <1>2 DEF Expired
  <2>2. Grace \in Nat
    BY RunnerAssumption DEF RunnerAssumption
  <2> QED BY <1>2, <2>1, <2>2
<1>8. idle[a] >= Slack \/ age[a] - spent[a] >= Grace
  BY <1>2, <1>6, <1>7
<1>9. Overrun.err = "overrun"
  BY DEF Overrun, Result
<1> QED BY <1>1, <1>8, <1>9, ReturnKeeps

\* A case that starts is one of the specification's.
LEMMA StartCaseKeeps == ASSUME Inv, NEW a \in Attempt, StartCase(a) PROVE Inv'
<1>1. Shape
  BY InvParts
<1>2. /\ up = "serving" /\ Own(a) /\ Timed(a) /\ Limit(a) \in Nat
      /\ spent[a] \in Nat /\ idle[a] \in Nat /\ caseTime[a] \in Nat
  BY UnderWay DEF StartCase, At
<1>3. Shape' /\ pc[a] = "harness" /\ pc'[a] = "case" /\ caseTime'[a] = 0
  BY <1>1 DEF StartCase, At, Goto, Shape, PC
<1>4. \A q \in Attempt \ {a} : Untouched(q)
  BY <1>1 DEF StartCase, Goto, Shape, Untouched
<1>5. did' = did /\ ex' = ex /\ result' = result /\ answer' = answer /\ lib' = lib /\ up' = up
      /\ age' = age /\ spent' = spent /\ idle' = idle
  BY DEF StartCase
<1>6. NCases(a)' = NCases(a) /\ Limit(a)' = Limit(a)
  BY <1>5 DEF NCases, Limit, SpecOf
<1>7. Len(did[a]) < NCases(a) /\ caseTime[a] = 0
  BY <1>2, <1>3 DEF StartCase, NCases, Timed
<1>8. Timed(a)'
  BY <1>2, <1>3, <1>5, <1>6, <1>7 DEF Timed, InHarness
<1>9. Own(a)'
  BY <1>2, <1>3, <1>5, <1>6, <1>8 DEF Own
<1> QED BY <1>2, <1>3, <1>4, <1>5, <1>9, OneAttempt

\* A case that is over took its limit at most.
LEMMA CaseDoneKeeps ==
  ASSUME Inv, NEW a \in Attempt, NEW b \in Did, pc[a] = "case", CaseDone(a, b)
  PROVE  Inv'
<1>1. Shape
  BY InvParts
<1>2. /\ up = "serving" /\ Own(a) /\ Timed(a) /\ Limit(a) \in Nat /\ NCases(a) \in Nat
      /\ did[a] \in Seq(Did) /\ Len(did[a]) \in Nat
      /\ spent[a] \in Nat /\ idle[a] \in Nat /\ caseTime[a] \in Nat
  BY UnderWay
<1>3. did'[a] = Append(did[a], b) /\ did'[a] \in Seq(Did) /\ Len(did'[a]) = Len(did[a]) + 1
  BY <1>1, <1>2 DEF CaseDone, Shape
<1>4. Shape' /\ pc'[a] = "harness" /\ caseTime'[a] = 0
  <2>1. did' \in [Attempt -> Seq(Did)]
    BY <1>1, <1>3 DEF CaseDone, Shape
  <2> QED BY <1>1, <2>1 DEF CaseDone, Goto, Shape, PC
<1>5. \A q \in Attempt \ {a} : Untouched(q)
  BY <1>1 DEF CaseDone, Goto, Shape, Untouched
<1>6. ex' = ex /\ result' = result /\ answer' = answer /\ lib' = lib /\ up' = up
      /\ age' = age /\ spent' = spent /\ idle' = idle
  BY DEF CaseDone
<1>7. NCases(a)' = NCases(a) /\ Limit(a)' = Limit(a)
  BY <1>6 DEF NCases, Limit, SpecOf
<1>8. Len(did[a]) < NCases(a) /\ caseTime[a] <= Limit(a)
      /\ spent[a] <= idle[a] + Len(did[a]) * Limit(a) + caseTime[a]
  BY <1>2 DEF Timed, InHarness
<1>9. spent[a] <= idle[a] + Len(did'[a]) * Limit(a) + 0
  <2> DEFINE before == Len(did[a]) * Limit(a)
             after == Len(did'[a]) * Limit(a)
  <2>1. \A k, l \in Nat : k * l \in Nat /\ (k + 1) * l = k * l + l
    OBVIOUS
  <2>2. before \in Nat /\ after = before + Limit(a)
    BY <1>2, <1>3, <2>1
  <2>3. spent[a] <= idle[a] + before + caseTime[a]
    BY <1>8
  <2>4. spent[a] \in Nat /\ idle[a] \in Nat /\ caseTime[a] \in Nat /\ Limit(a) \in Nat
        /\ caseTime[a] <= Limit(a) /\ before \in Nat
    BY <1>2, <1>8, <2>2
  <2> HIDE DEF before, after
  <2>5. spent[a] <= idle[a] + (before + Limit(a)) + 0
    BY <2>3, <2>4
  <2>6. spent[a] <= idle[a] + after + 0
    BY <2>2, <2>5
  <2> QED BY <2>6 DEF after
<1>10. Timed(a)'
  BY <1>2, <1>4, <1>6, <1>7, <1>9 DEF Timed, InHarness
<1>11. Own(a)'
  BY <1>2, <1>3, <1>4, <1>6, <1>7, <1>8, <1>10 DEF Own
<1> QED BY <1>2, <1>4, <1>5, <1>6, <1>11, OneAttempt

\* A case ends by itself or at its limit.
LEMMA CaseEndKeeps ==
  ASSUME Inv, NEW a \in Attempt, CaseEnds(a) \/ CaseTimesOut(a)
  PROVE  Inv'
<1>1. pc[a] = "case"
  BY DEF CaseEnds, CaseTimesOut, CaseOver, At
<1>2. PICK b \in Did : CaseDone(a, b)
  BY DEF CaseEnds, CaseTimesOut, Did
<1> QED BY <1>1, <1>2, CaseDoneKeeps

\* Whatever Run returned, the answer is one of the outcomes.
LEMMA AnswerIsOutcome ==
  ASSUME NEW a \in Attempt
  PROVE  AnswerTo(a).outcome \in Outcome
<1>1. InfraError.outcome \in Outcome
  BY DEF InfraError, Verdict, Outcome
<1>2. \A res : RunOutcome(res) \in Outcome
  BY DEF RunOutcome, Outcome
<1>3. \A res, e : Evaluate(e, res).outcome \in Outcome
  <2>1. \A res, c : OutcomeOf(c, res) \in Outcome
    BY DEF OutcomeOf, Outcome
  <2>2. \A o, c, cs, x : Verdict(o, c, cs, x).outcome = o
    BY DEF Verdict
  <2>3. {"syntax_error", "passed"} \subseteq Outcome
    BY DEF Outcome
  <2> QED BY <2>1, <2>2, <2>3 DEF Evaluate
<1>4. \A o, c, cs, x : Verdict(o, c, cs, x).outcome = o
  BY DEF Verdict
<1> QED BY <1>1, <1>2, <1>3, <1>4 DEF AnswerTo

\* An answer ends the attempt's clocks.
LEMMA AnswerKeeps ==
  ASSUME Inv, NEW a \in Attempt, Answer(a) \/ GiveUp(a)
  PROVE  Inv'
<1>1. Shape
  BY InvParts
<1>2. pc[a] \in {"wait", "return"}
  BY DEF Answer, GiveUp, At
<1>3. up = "serving" /\ Own(a) /\ Timed(a)
  BY <1>2, UnderWay
<1>4. PICK v : answer' = [answer EXCEPT ![a] = v] /\ v.outcome \in Outcome
  BY AnswerIsOutcome DEF Answer, GiveUp, InfraError, Verdict, Outcome
<1>5. Goto(a, "answered") /\ StopClocks(a) /\ did' = did /\ ex' = ex /\ parses' = parses
      /\ result' = result /\ lib' = lib /\ up' = up /\ tree' = tree
  BY DEF Answer, GiveUp
<1>6. Shape'
  BY <1>1, <1>4, <1>5 DEF Goto, StopClocks, Shape, PC
<1>7. \A q \in Attempt \ {a} : Untouched(q)
  BY <1>1, <1>4, <1>5 DEF Goto, StopClocks, Shape, Untouched
<1>8. pc'[a] = "answered" /\ age'[a] = 0 /\ spent'[a] = 0 /\ idle'[a] = 0 /\ caseTime'[a] = 0
      /\ answer'[a].outcome \in Outcome
  BY <1>1, <1>4, <1>5 DEF Goto, StopClocks, Shape
<1>9. NCases(a)' = NCases(a)
  BY <1>5 DEF NCases, SpecOf
<1>10. Timed(a)'
  BY <1>2, <1>3, <1>5, <1>8 DEF Timed, InHarness
<1>11. Own(a)'
  BY <1>2, <1>3, <1>5, <1>8, <1>9, <1>10 DEF Own
<1> QED BY <1>3, <1>5, <1>6, <1>7, <1>11, OneAttempt

\* An attempt that is over holds nothing.
LEMMA LeaveKeeps == ASSUME Inv, NEW a \in Attempt, Leave(a) PROVE Inv'
<1>1. Shape
  BY InvParts
<1>2. up = "serving" /\ Own(a) /\ Timed(a) /\ pc[a] = "answered"
  BY UnderWay DEF Leave, At
<1>3. Shape'
  <2>1. <<>> \in Seq(Did)
    OBVIOUS
  <2> QED BY <1>1, <2>1 DEF Leave, Goto, Shape, PC, clocks
<1>4. \A q \in Attempt \ {a} : Untouched(q)
  BY <1>1 DEF Leave, Goto, Shape, Untouched, clocks
<1>5. pc'[a] = "done" /\ did'[a] = <<>> /\ result'[a] = Nothing /\ answer'[a] = NoAnswer
      /\ age' = age /\ spent' = spent /\ idle' = idle /\ caseTime' = caseTime
  BY <1>1 DEF Leave, Goto, Shape, clocks
<1>6. Nothing.err = "none" /\ NoAnswer.outcome = "none"
  BY DEF Nothing, NoAnswer, Result, Verdict
<1>7. spent[a] = 0 /\ idle[a] = 0 /\ caseTime[a] = 0
  BY <1>2 DEF Timed, InHarness
<1>8. Own(a)'
  BY <1>2, <1>5, <1>6, <1>7 DEF Own, Timed, InHarness, Outcome
<1> QED BY <1>2, <1>3, <1>4, <1>8, OneAttempt DEF Leave

\* Time passes while no timer is due, so no case outlasts its limit.
LEMMA TickKeeps == ASSUME Inv, Tick PROVE Inv'
<1>1. Shape /\ Idle /\ (\A a \in Attempt : Own(a)) /\ \A e \in lib : Gradable(e)
  BY InvParts
<1>2. did' = did /\ ex' = ex /\ parses' = parses /\ result' = result /\ answer' = answer
      /\ lib' = lib /\ up' = up /\ tree' = tree /\ pc' = pc
  BY DEF Tick
<1>3. /\ age' = [a \in Attempt |-> IF a \in Waiting THEN age[a] + 1 ELSE age[a]]
      /\ spent' = [a \in Attempt |-> IF InHarness(a) THEN spent[a] + 1 ELSE spent[a]]
      /\ idle' = [a \in Attempt |-> IF At(a, "harness") THEN idle[a] + 1 ELSE idle[a]]
      /\ caseTime' = [a \in Attempt |-> IF At(a, "case") THEN caseTime[a] + 1 ELSE caseTime[a]]
  BY DEF Tick
<1>4. Shape'
  BY <1>1, <1>2, <1>3 DEF Shape
<1>5. Idle' /\ \A e \in lib' : Gradable(e)
  BY <1>1, <1>2 DEF Idle
<1>6. ASSUME NEW a \in Attempt PROVE Own(a)'
  <2>1. Limit(a)' = Limit(a) /\ NCases(a)' = NCases(a)
    BY <1>2 DEF Limit, NCases, SpecOf
  <2>2. /\ Own(a) /\ Timed(a)
        /\ age[a] \in Nat /\ spent[a] \in Nat /\ idle[a] \in Nat /\ caseTime[a] \in Nat
    BY <1>1 DEF Shape, Own
  <2>3. pc[a] \notin {"return", "answered"}
    BY DEF Tick
  <2>4. CASE pc[a] \in {"idle", "done"}
    <3>1. /\ age'[a] = age[a] /\ spent'[a] = spent[a]
          /\ idle'[a] = idle[a] /\ caseTime'[a] = caseTime[a]
      BY <1>3, <2>4 DEF Waiting, InHarness, At
    <3> QED BY <1>2, <2>1, <2>2, <2>4, <3>1 DEF Own, Timed, InHarness
  <2>5. CASE pc[a] \in {"wait", "stage"}
    <3>1. /\ age'[a] = age[a] + 1 /\ spent'[a] = spent[a]
          /\ idle'[a] = idle[a] /\ caseTime'[a] = caseTime[a]
      BY <1>3, <2>5 DEF Waiting, InHarness, At
    <3> QED BY <1>2, <2>1, <2>2, <2>5, <3>1 DEF Own, Timed, InHarness
  <2>6. CASE pc[a] = "harness"
    <3>1. age'[a] = age[a] + 1 /\ spent'[a] = spent[a] + 1 /\ idle'[a] = idle[a] + 1
          /\ caseTime'[a] = caseTime[a]
      BY <1>3, <2>6 DEF Waiting, InHarness, At
    <3>2. Len(did[a]) * Limit(a) \in Nat
      <4>1. Len(did[a]) \in Nat /\ Limit(a) \in Nat
        BY <2>6, UnderWay
      <4> QED BY <4>1
    <3>3. spent[a] <= idle[a] + Len(did[a]) * Limit(a) + caseTime[a]
      BY <2>2, <2>6 DEF Timed, InHarness
    <3>4. spent[a] + 1 <= (idle[a] + 1) + Len(did[a]) * Limit(a) + caseTime[a]
      <4> DEFINE done == Len(did[a]) * Limit(a)
      <4>1. done \in Nat /\ spent[a] <= idle[a] + done + caseTime[a]
        BY <3>2, <3>3
      <4> HIDE DEF done
      <4>2. spent[a] + 1 <= (idle[a] + 1) + done + caseTime[a]
        BY <2>2, <4>1
      <4> QED BY <4>2 DEF done
    <3> QED BY <1>2, <2>1, <2>2, <2>6, <3>1, <3>4 DEF Own, Timed, InHarness
  <2>7. CASE pc[a] = "case"
    <3>1. age'[a] = age[a] + 1 /\ spent'[a] = spent[a] + 1 /\ idle'[a] = idle[a]
          /\ caseTime'[a] = caseTime[a] + 1
      BY <1>3, <2>7 DEF Waiting, InHarness, At
    <3>2. Len(did[a]) \in Nat /\ Limit(a) \in Nat
      BY <2>7, UnderWay
    <3>3. caseTime[a] < Limit(a)
      <4>1. ~CaseOver(a)
        BY <2>7 DEF Tick, Waiting
      <4> QED BY <2>2, <2>7, <3>2, <4>1 DEF CaseOver, At, Limit
    <3>4. spent[a] + 1 <= idle[a] + Len(did[a]) * Limit(a) + (caseTime[a] + 1)
      <4> DEFINE done == Len(did[a]) * Limit(a)
      <4>1. done \in Nat /\ spent[a] <= idle[a] + done + caseTime[a]
        BY <2>2, <2>7, <3>2 DEF Timed, InHarness
      <4> HIDE DEF done
      <4>2. spent[a] + 1 <= idle[a] + done + (caseTime[a] + 1)
        BY <2>2, <4>1
      <4> QED BY <4>2 DEF done
    <3>5. Limit(a) \in Nat /\ Len(did[a]) < NCases(a) /\ ex[a] \in lib
      BY <2>2, <2>7, <3>2 DEF Timed
    <3>6. caseTime[a] + 1 <= Limit(a)
      BY <2>2, <3>3, <3>5
    <3>7. Timed(a)'
      BY <1>2, <2>1, <2>7, <3>1, <3>4, <3>5, <3>6 DEF Timed, InHarness
    <3>8. caseTime[a] + 1 <= spent[a] + 1 /\ idle[a] <= spent[a] + 1 /\ spent[a] + 1 <= age[a] + 1
      BY <2>2 DEF Own
    <3> QED BY <1>2, <2>1, <2>2, <3>1, <3>7, <3>8 DEF Own
  <2>8. pc[a] \in PC
    BY <1>1 DEF Shape
  <2> QED BY <2>3, <2>4, <2>5, <2>6, <2>7, <2>8 DEF PC
<1> QED BY <1>4, <1>5, <1>6, InvPartsNext

-----------------------------------------------------------------------------
(* The theorems                                                            *)

\* Every step keeps the invariant.
LEMMA NextKeeps == Inv /\ [Next]_vars => Inv'
<1> SUFFICES ASSUME Inv, [Next]_vars PROVE Inv'
  OBVIOUS
<1>1. CASE Boot
  BY <1>1, BootKeeps
<1>2. CASE Tick
  BY <1>2, TickKeeps
<1>3. ASSUME NEW a \in Attempt, Step(a) PROVE Inv'
  BY <1>3, BeginKeeps, StageKeeps, AnswerKeeps, PlainReturns, StartCaseKeeps, CaseEndKeeps,
     CutOffKeeps, LeaveKeeps DEF Step
<1>4. CASE UNCHANGED vars
  <2>1. Shape /\ Idle /\ (\A e \in lib : Gradable(e)) /\ \A q \in Attempt : Own(q)
    BY InvParts
  <2>2. Shape' /\ Idle' /\ \A e \in lib' : Gradable(e)
    BY <1>4, <2>1 DEF vars, clocks, Shape, Idle
  <2>3. \A q \in Attempt : Untouched(q)
    BY <1>4 DEF vars, clocks, Untouched
  <2>4. lib' = lib
    BY <1>4 DEF vars
  <2>5. \A q \in Attempt : Own(q)'
    BY <2>1, <2>3, <2>4, UntouchedKeeps
  <2> QED BY <2>2, <2>5, InvPartsNext
<1> QED BY <1>1, <1>2, <1>3, <1>4 DEF Next

\* The invariant holds in every reachable state.
THEOREM Invariant == Spec => []Inv
<1> QED BY InitInv, NextKeeps, PTL DEF Spec

\* Every variable of the runner keeps its type: no attempt runs more cases than
\* its specification has, whatever its exercise is.
THEOREM TypeCorrect == Spec => []TypeOK
<1>1. Inv => TypeOK
  BY DEF Inv
<1> QED BY <1>1, Invariant, PTL

\* The outer budget of Local.Run cuts off only a harness that spent the slack
\* outside its cases, or an attempt that used up the handler's grace first.
THEOREM OverrunIsWedged == Spec => []OverrunMeansWedged
<1>1. Inv => OverrunMeansWedged
  BY DEF Inv, Timed, OverrunMeansWedged, At
<1> QED BY <1>1, Invariant, PTL

-----------------------------------------------------------------------------
(* The library that is served                                              *)

\* What LibrarySound says, of any tree and the exercises read from it.
SoundLibrary(tr, es) ==
  /\ \A t \in Tracks(tr) :
       /\ \A i \in DOMAIN tr[t].dirs : ExerciseOf(tr[t].dirs[i], tr[t].dir) \in es
       /\ \A i \in DOMAIN tr[t].units :
            LET u == tr[t].units[i] IN
              /\ {e.id : e \in Outline(es, u)} = u.exercises
              /\ u.mustPass \subseteq u.exercises
  /\ \A e \in es :
       /\ \A f \in es : e.id = f.id => e = f
       /\ \A i, j \in DOMAIN e.cases : e.cases[i].id = e.cases[j].id => i = j
       /\ VisibleCases(e) # {}
       /\ e.limit \in MinLimit..MaxLimit
       /\ \A i \in DOMAIN e.hints :
            /\ \A l \in Lang : TextIn(e.hints[i], l) # Empty
            /\ e.hints[i].test \in {c.id : c \in {e.cases[j] : j \in DOMAIN e.cases}} \cup {Empty}

\* A directory without a fault has an id of its track, and cases and hints
\* without a fault.
LEMMA SoundDirectory ==
  ASSUME NEW d, NEW track, loadExercise(d, track) = {}
  PROVE  /\ IdOf(d, track)[1] = track
         /\ checkTests(d.tests) = {} /\ checkHints(d.hints, d.tests.cases) = {}
<1>1. d.md
  BY DEF loadExercise
<1>2. FaultIf(IdOf(d, track)[1] # track, "id_prefix") = {}
  BY <1>1 DEF loadExercise
<1>3. d.tests.yaml /\ checkTests(d.tests) = {}
  BY <1>1 DEF loadExercise
<1>4. d.hintsYaml /\ checkHints(d.hints, d.tests.cases) = {}
  BY <1>1 DEF loadExercise
<1> QED BY <1>2, <1>3, <1>4 DEF FaultIf

\* Entries of which none repeats an earlier one, and which all have an id, have
\* ids of their own.
LEMMA NoRepetition ==
  ASSUME NEW list, IsList(list), Repeated(list) = {}, DOMAIN list \ Named(list) = {},
         NEW i \in DOMAIN list, NEW j \in DOMAIN list, list[i].id = list[j].id
  PROVE  i = j
<1>1. i \in Named(list) /\ j \in Named(list)
  OBVIOUS
<1>2. ~(i < j) /\ ~(j < i)
  BY <1>1 DEF Repeated
<1>3. i \in Int /\ j \in Int
  BY DEF IsList
<1> QED BY <1>2, <1>3

\* Cases without a fault can be told apart, and one of them may be shown.
LEMMA SoundCases ==
  ASSUME NEW tests, checkTests(tests) = {}, IsList(tests.cases)
  PROVE  /\ \A i, j \in DOMAIN tests.cases : tests.cases[i].id = tests.cases[j].id => i = j
         /\ \E i \in DOMAIN tests.cases : ~tests.cases[i].hidden
         /\ LimitOf(tests) \in MinLimit..MaxLimit
<1> DEFINE c == tests.cases
<1>1. /\ FaultIf(c = <<>>, "no_case") = {}
      /\ FaultIf(LimitOf(tests) \notin MinLimit..MaxLimit, "time_limit") = {}
      /\ {<<"no_case_id", i>> : i \in DOMAIN c \ Named(c)} = {}
      /\ {<<"duplicate_case", i>> : i \in Repeated(c)} = {}
      /\ FaultIf(c # <<>> /\ \A i \in Named(c) : c[i].hidden, "none_visible") = {}
  BY DEF checkTests
<1>2. DOMAIN c \ Named(c) = {} /\ Repeated(c) = {}
  BY <1>1
<1>3. \A i, j \in DOMAIN c : c[i].id = c[j].id => i = j
  BY <1>2, NoRepetition
<1>4. LimitOf(tests) \in MinLimit..MaxLimit /\ c # <<>>
  BY <1>1 DEF FaultIf
<1>5. ~(c # <<>> /\ \A i \in Named(c) : c[i].hidden)
  BY <1>1 DEF FaultIf
<1>6. \E i \in DOMAIN c : ~c[i].hidden
  BY <1>4, <1>5 DEF Named
<1> QED BY <1>3, <1>4, <1>6

\* A hint without a fault speaks every language, about a test that there is.
LEMMA SoundHints ==
  ASSUME NEW hints, NEW cases, checkHints(hints, cases) = {}, NEW i \in DOMAIN hints
  PROVE  /\ \A l \in Lang : TextIn(hints[i], l) # Empty
         /\ hints[i].test \in {cases[j].id : j \in DOMAIN cases} \cup {Empty}
<1> DEFINE ids == {cases[j].id : j \in DOMAIN cases}
<1>1. /\ {<<"no_hint_id", k>> : k \in DOMAIN hints \ Named(hints)} = {}
      /\ {<<"faulty_hint", k>> : k \in {k \in Named(hints) : FaultyHint(hints[k], ids)}} = {}
  BY DEF checkHints
<1>2. i \in Named(hints) /\ ~FaultyHint(hints[i], ids)
  BY <1>1
<1> HIDE DEF ids
<1>3. hints[i].test \in ids \cup {Empty} /\ ~(hints[i].hinglish = Empty /\ hints[i].en = Empty)
  BY <1>2 DEF FaultyHint
<1>4. \A l \in Lang : TextIn(hints[i], l) # Empty
  BY <1>3 DEF TextIn
<1> QED BY <1>3, <1>4 DEF ids

\* What a tree that is accepted has no fault in.
LEMMA AcceptedTree ==
  ASSUME NEW tr \in Tree, Accepted(tr), NEW t \in Tracks(tr)
  PROVE  /\ Sound(tr[t]) = DOMAIN tr[t].dirs /\ Duplicates(tr[t]) = {}
         /\ \A i \in DOMAIN tr[t].units :
              /\ tr[t].units[i].exercises \subseteq {e.id : e \in Exercises(tr)}
              /\ tr[t].units[i].mustPass \subseteq tr[t].units[i].exercises
<1> DEFINE d == tr[t].dirs
           us == tr[t].units
           ids == {e.id : e \in Exercises(tr)}
<1>1. loadExercises(tr[t]) = {} /\ checkReferences(tr[t], ids) = {}
  <2>1. \A x \in loadExercises(tr[t]) \cup checkReferences(tr[t], ids) : x \in LoadFaults(tr)
    BY DEF LoadFaults
  <2>2. LoadFaults(tr) = {}
    BY DEF Accepted
  <2> QED BY <2>1, <2>2
<1>2. \A i \in DOMAIN d : loadExercise(d[i], tr[t].dir) = {}
  BY <1>1 DEF loadExercises
<1>3. Duplicates(tr[t]) = {}
  <2>1. \A i \in Duplicates(tr[t]) : <<"duplicate_exercise", i>> \in loadExercises(tr[t])
    BY DEF loadExercises
  <2> QED BY <1>1, <2>1
<1> DEFINE unknown == {i \in Named(us) : ~(us[i].exercises \subseteq ids)}
           unlisted == {i \in Named(us) : ~(us[i].mustPass \subseteq us[i].exercises)}
<1>4. /\ {<<"no_unit_id", i>> : i \in DOMAIN us \ Named(us)} = {}
      /\ {<<"unknown_exercise", i>> : i \in unknown} = {}
      /\ {<<"must_pass", i>> : i \in unlisted} = {}
  BY <1>1 DEF checkReferences
<1>5. ASSUME NEW i \in DOMAIN us
      PROVE  us[i].exercises \subseteq ids /\ us[i].mustPass \subseteq us[i].exercises
  <2>1. i \in Named(us)
    BY <1>4
  <2> HIDE DEF ids
  <2> QED BY <1>4, <2>1
<1> QED BY <1>2, <1>3, <1>5 DEF Sound

\* The exercises of an accepted tree are sound, whatever the tree.
LEMMA AcceptedIsSound ==
  ASSUME NEW tr \in Tree, Accepted(tr)
  PROVE  SoundLibrary(tr, Exercises(tr))
<1> DEFINE Of(t, i) == ExerciseOf(tr[t].dirs[i], tr[t].dir)
<1>1. \A t \in Tracks(tr) :
        /\ Sound(tr[t]) = DOMAIN tr[t].dirs /\ Duplicates(tr[t]) = {}
        /\ \A i \in DOMAIN tr[t].units :
             /\ tr[t].units[i].exercises \subseteq {e.id : e \in Exercises(tr)}
             /\ tr[t].units[i].mustPass \subseteq tr[t].units[i].exercises
  BY AcceptedTree
<1>2. Exercises(tr) = UNION {{Of(t, i) : i \in DOMAIN tr[t].dirs} : t \in Tracks(tr)}
  BY <1>1 DEF Exercises
<1>3. ASSUME NEW t \in Tracks(tr), NEW i \in DOMAIN tr[t].dirs
      PROVE  /\ t \in DOMAIN tr /\ loadExercise(tr[t].dirs[i], tr[t].dir) = {}
             /\ IdOf(tr[t].dirs[i], tr[t].dir)[1] = tr[t].dir
             /\ checkTests(tr[t].dirs[i].tests) = {}
             /\ checkHints(tr[t].dirs[i].hints, tr[t].dirs[i].tests.cases) = {}
             /\ IsList(tr[t].dirs[i].tests.cases)
  <2>1. t \in DOMAIN tr
    BY DEF Tracks
  <2>2. loadExercise(tr[t].dirs[i], tr[t].dir) = {}
    BY <1>1 DEF Sound
  <2>3. IsList(tr[t].dirs[i].tests.cases)
    BY <2>1, TreeAssumption DEF TreeAssumption
  <2> QED BY <2>1, <2>2, <2>3, SoundDirectory
<1>4. \A d, track :
        LET e == ExerciseOf(d, track) IN
          /\ e.id = IdOf(d, track) /\ e.cases = d.tests.cases
          /\ e.limit = LimitOf(d.tests) /\ e.hints = d.hints
  BY DEF ExerciseOf
<1>5. ASSUME NEW t \in Tracks(tr), NEW u \in Tracks(tr),
             NEW i \in DOMAIN tr[t].dirs, NEW j \in DOMAIN tr[u].dirs, Of(t, i).id = Of(u, j).id
      PROVE  Of(t, i) = Of(u, j)
  <2>1. tr[t].dir = tr[u].dir
    BY <1>3, <1>4, <1>5
  <2>2. t = u
    BY <1>3, <2>1, TreeAssumption DEF TreeAssumption
  <2>3. IdOf(tr[t].dirs[i], tr[t].dir) = IdOf(tr[t].dirs[j], tr[t].dir)
    BY <1>4, <1>5, <2>2
  <2>4. i \in Sound(tr[t]) /\ j \in Sound(tr[t]) /\ Duplicates(tr[t]) = {}
    BY <1>1, <2>2
  <2>5. ~(i < j) /\ ~(j < i)
    BY <2>3, <2>4 DEF Duplicates
  <2>6. i \in Int /\ j \in Int
    BY <1>3, <2>2, TreeAssumption DEF TreeAssumption, IsList
  <2> QED BY <2>2, <2>5, <2>6
<1>6. ASSUME NEW t \in Tracks(tr)
      PROVE  /\ \A i \in DOMAIN tr[t].dirs : Of(t, i) \in Exercises(tr)
             /\ \A i \in DOMAIN tr[t].units :
                  /\ {e.id : e \in Outline(Exercises(tr), tr[t].units[i])}
                       = tr[t].units[i].exercises
                  /\ tr[t].units[i].mustPass \subseteq tr[t].units[i].exercises
  BY <1>1, <1>2 DEF Outline
<1>7. ASSUME NEW e \in Exercises(tr)
      PROVE  /\ \A f \in Exercises(tr) : e.id = f.id => e = f
             /\ \A i, j \in DOMAIN e.cases : e.cases[i].id = e.cases[j].id => i = j
             /\ VisibleCases(e) # {}
             /\ e.limit \in MinLimit..MaxLimit
             /\ \A i \in DOMAIN e.hints :
                  /\ \A l \in Lang : TextIn(e.hints[i], l) # Empty
                  /\ e.hints[i].test \in {e.cases[j].id : j \in DOMAIN e.cases} \cup {Empty}
  <2>0. PICK t \in Tracks(tr) : \E i \in DOMAIN tr[t].dirs : e = Of(t, i)
    BY <1>2
  <2>1. PICK i \in DOMAIN tr[t].dirs : e = Of(t, i)
    BY <2>0
  <2>2. \A f \in Exercises(tr) : e.id = f.id => e = f
    BY <1>2, <1>5, <2>1
  <2> DEFINE dir == tr[t].dirs[i]
  <2>3. /\ e.cases = dir.tests.cases /\ e.limit = LimitOf(dir.tests) /\ e.hints = dir.hints
    BY <1>4, <2>1
  <2>4. /\ checkTests(dir.tests) = {} /\ IsList(dir.tests.cases)
        /\ checkHints(dir.hints, dir.tests.cases) = {}
    BY <1>3
  <2> HIDE DEF dir
  <2>5. /\ \A k, j \in DOMAIN e.cases : e.cases[k].id = e.cases[j].id => k = j
        /\ \E k \in DOMAIN e.cases : ~e.cases[k].hidden
        /\ e.limit \in MinLimit..MaxLimit
    BY <2>3, <2>4, SoundCases
  <2>6. \A k \in DOMAIN e.hints :
          /\ \A l \in Lang : TextIn(e.hints[k], l) # Empty
          /\ e.hints[k].test \in {e.cases[j].id : j \in DOMAIN e.cases} \cup {Empty}
    BY <2>3, <2>4, SoundHints
  <2>7. VisibleCases(e) # {}
    BY <2>5 DEF VisibleCases
  <2> QED BY <2>2, <2>5, <2>6, <2>7
<1>8. \A e : {c.id : c \in {e.cases[j] : j \in DOMAIN e.cases}}
               = {e.cases[j].id : j \in DOMAIN e.cases}
  OBVIOUS
<1> QED BY <1>6, <1>7, <1>8 DEF SoundLibrary

\* A server that serves read the library it has from a tree it accepted.
Read == up = "serving" => Accepted(tree) /\ lib = Exercises(tree)

\* It reads the tree once, before it serves.
LEMMA ReadAlways == Spec => []Read
<1>1. Init => Read
  BY DEF Init, Read
<1>2. Read /\ [Next]_vars => Read'
  <2> SUFFICES ASSUME Read, [Next]_vars PROVE Read'
    OBVIOUS
  <2>1. CASE Boot
    BY <2>1 DEF Boot, Read
  <2>2. ASSUME NEW a \in Attempt, Step(a) PROVE tree' = tree /\ lib' = lib /\ up' = up
    BY <2>2 DEF Step, Begin, Acquire, GiveUp, Stage, StageFails, StartCase, CaseEnds, CaseTimesOut,
                CaseDone, HarnessExits, HarnessDies, CutOff, Return, Answer, Leave
  <2>3. CASE Tick \/ UNCHANGED vars
    BY <2>3 DEF Tick, vars, Read
  <2> QED BY <2>1, <2>2, <2>3 DEF Next, Read
<1> QED BY <1>1, <1>2, PTL DEF Spec

\* Every exercise of a server that serves can be told apart, graded, shown and
\* hinted at, and the outline has all that its units list, for every content tree.
THEOREM ServedIsSound == Spec => []LibrarySound
<1>1. Inv /\ Read => LibrarySound
  <2> SUFFICES ASSUME Inv, Read, up = "serving" PROVE SoundLibrary(tree, lib)
    BY DEF LibrarySound, SoundLibrary
  <2>1. tree \in Tree
    BY DEF Inv, TypeOK
  <2> QED BY <2>1, AcceptedIsSound DEF Read
<1> QED BY <1>1, Invariant, ReadAlways, PTL
-----------------------------------------------------------------------------
(* The answers                                                             *)

\* A tolerant comparison by the code, splitting, trimming and joining lines,
\* keeps exactly the characters that count, for texts of any length.
THEOREM TolerantAtAnyLength == Spec => []TolerantByPosition
<1>1. ShortText \subseteq Text
  BY DEF ShortText, Text
<1>2. TolerantByPosition
  BY <1>1, NormalizeIsCounting DEF TolerantByPosition
<1> QED BY <1>2, PTL

\* Run returned what the harness printed of the cases, of all of them if the
\* code is Python.
Complete(a) ==
  /\ result[a] = HarnessOutput(a)
  /\ parses[a] => Len(did[a]) = NCases(a)

\* What is told comes from what was done: code that is no Python runs no case,
\* and an answer that is no error is made of a complete result.
Told(a) ==
  /\ ~parses[a] => did[a] = <<>>
  /\ pc[a] = "case" => parses[a]
  /\ pc[a] = "return" => result[a].err # "none" \/ Complete(a)
  /\ pc[a] = "answered" => answer[a] = InfraError \/ (Complete(a) /\ answer[a] = AnswerTo(a))

AllTold == \A a \in Attempt : Told(a)

\* What is told is made of an attempt's own state.
LEMMA UntouchedTold ==
  ASSUME NEW q \in Attempt, Told(q), Untouched(q)
  PROVE  Told(q)'
<1>1. NCases(q)' = NCases(q) /\ HarnessOutput(q)' = HarnessOutput(q) /\ AnswerTo(q)' = AnswerTo(q)
  BY DEF Untouched, NCases, SpecOf, HarnessOutput, AnswerTo
<1> QED BY <1>1 DEF Told, Complete, Untouched

\* A step of one attempt touches no other.
LEMMA OthersUntouched ==
  ASSUME Shape, NEW a \in Attempt, Step(a), NEW q \in Attempt, q # a
  PROVE  Untouched(q)
<1>1. CASE Begin(a)
  BY <1>1 DEF Begin, Goto, Shape, Untouched, clocks
<1>2. CASE Acquire(a) \/ Stage(a)
  BY <1>2 DEF Acquire, Stage, Goto, Shape, Untouched, clocks
<1>3. CASE GiveUp(a) \/ Answer(a)
  BY <1>3 DEF GiveUp, Answer, Goto, StopClocks, Shape, Untouched
<1>4. CASE \E res : Return(a, res)
  BY <1>4 DEF Return, Goto, Shape, Untouched, clocks
<1>5. CASE StartCase(a)
  BY <1>5 DEF StartCase, Goto, Shape, Untouched
<1>6. CASE \E b : CaseDone(a, b)
  BY <1>6 DEF CaseDone, Goto, Shape, Untouched
<1>7. CASE Leave(a)
  BY <1>7 DEF Leave, Goto, Shape, Untouched, clocks
<1>8. StageFails(a) \/ CutOff(a) \/ HarnessExits(a) \/ HarnessDies(a) => \E res : Return(a, res)
  BY DEF StageFails, CutOff, HarnessExits, HarnessDies
<1>9. CaseEnds(a) \/ CaseTimesOut(a) => \E b : CaseDone(a, b)
  BY DEF CaseEnds, CaseTimesOut
<1> QED BY <1>1, <1>2, <1>3, <1>4, <1>5, <1>6, <1>7, <1>8, <1>9 DEF Step

\* A run returns an error, or all that the harness printed.
LEMMA ReturnTold ==
  ASSUME Shape, NEW a \in Attempt, Told(a), NEW res, Return(a, res),
         \/ res.err # "none"
         \/ res = HarnessOutput(a) /\ (parses[a] => Len(did[a]) = NCases(a))
  PROVE  Told(a)'
<1>1. pc'[a] = "return" /\ result'[a] = res /\ did' = did /\ parses' = parses /\ ex' = ex
  BY DEF Return, Goto, Shape
<1>2. NCases(a)' = NCases(a) /\ HarnessOutput(a)' = HarnessOutput(a)
  BY <1>1 DEF NCases, HarnessOutput, SpecOf
<1> QED BY <1>1, <1>2 DEF Told, Complete

\* Every step of an attempt keeps what is told of it true.
LEMMA StepTold ==
  ASSUME Inv, NEW a \in Attempt, Told(a), Step(a)
  PROVE  Told(a)'
<1>1. Shape /\ Own(a)
  BY InvParts
<1>2. CASE Begin(a)
  <2>1. did[a] = <<>> /\ did' = did /\ pc'[a] = "wait"
    BY <1>1, <1>2 DEF Own, Timed, Begin, At, Goto, Shape
  <2> QED BY <2>1 DEF Told
<1>3. CASE Acquire(a) \/ Stage(a)
  <2>1. pc'[a] \in {"stage", "harness"} /\ did' = did /\ parses' = parses
    BY <1>1, <1>3 DEF Acquire, Stage, Goto, Shape
  <2> QED BY <2>1 DEF Told
<1>4. CASE GiveUp(a)
  <2>1. pc'[a] = "answered" /\ answer'[a] = InfraError /\ did' = did /\ parses' = parses
    BY <1>1, <1>4 DEF GiveUp, Goto, Shape
  <2> QED BY <2>1 DEF Told
<1>5. CASE StageFails(a) \/ CutOff(a) \/ HarnessDies(a)
  <2>1. Failed.err # "none" /\ Overrun.err # "none" /\ parseResult(FALSE, Nothing) = Failed
    BY DEF Failed, Overrun, Result, parseResult
  <2>2. PICK res : Return(a, res) /\ res.err # "none"
    BY <1>5, <2>1 DEF StageFails, CutOff, HarnessDies
  <2> QED BY <1>1, <2>2, ReturnTold
<1>6. CASE HarnessExits(a)
  <2>1. parseResult(TRUE, HarnessOutput(a)) = HarnessOutput(a)
    BY DEF parseResult
  <2>2. Return(a, HarnessOutput(a)) /\ (parses[a] => Len(did[a]) = NCases(a))
    BY <1>6, <2>1 DEF HarnessExits, NCases
  <2> QED BY <1>1, <2>2, ReturnTold
<1>7. CASE StartCase(a)
  <2>1. pc'[a] = "case" /\ parses[a] /\ did' = did /\ parses' = parses
    BY <1>1, <1>7 DEF StartCase, Goto, Shape
  <2> QED BY <2>1 DEF Told
<1>8. CASE CaseEnds(a) \/ CaseTimesOut(a)
  <2>1. pc[a] = "case"
    BY <1>8 DEF CaseEnds, CaseTimesOut, CaseOver, At
  <2>2. PICK b : CaseDone(a, b)
    BY <1>8 DEF CaseEnds, CaseTimesOut
  <2>3. pc'[a] = "harness" /\ parses' = parses
    BY <1>1, <2>2 DEF CaseDone, Goto, Shape
  <2> QED BY <2>1, <2>3 DEF Told
<1>9. CASE Answer(a)
  <2>1. /\ pc[a] = "return" /\ pc'[a] = "answered" /\ answer'[a] = AnswerTo(a)
        /\ did' = did /\ parses' = parses /\ ex' = ex /\ result' = result
    BY <1>1, <1>9 DEF Answer, At, Goto, Shape
  <2>2. /\ NCases(a)' = NCases(a) /\ HarnessOutput(a)' = HarnessOutput(a)
        /\ AnswerTo(a)' = AnswerTo(a)
    BY <2>1 DEF NCases, HarnessOutput, SpecOf, AnswerTo
  <2>3. result[a].err # "none" => AnswerTo(a) = InfraError
    BY DEF AnswerTo
  <2> QED BY <2>1, <2>2, <2>3 DEF Told, Complete
<1>10. CASE Leave(a)
  <2>1. pc'[a] = "done" /\ did'[a] = <<>>
    BY <1>1, <1>10 DEF Leave, Goto, Shape
  <2> QED BY <2>1 DEF Told
<1> QED BY <1>2, <1>3, <1>4, <1>5, <1>6, <1>7, <1>8, <1>9, <1>10 DEF Step

\* What is told comes from what was done, in every reachable state.
LEMMA ToldAlways == Spec => []AllTold
<1>1. Init => AllTold
  BY DEF Init, AllTold, Told
<1>2. Inv /\ AllTold /\ [Next]_vars => AllTold'
  <2> SUFFICES ASSUME Inv, AllTold, [Next]_vars, NEW q \in Attempt PROVE Told(q)'
    BY DEF AllTold
  <2>1. Told(q) /\ Shape
    BY InvParts DEF AllTold
  <2>2. CASE Boot \/ Tick \/ UNCHANGED vars
    <3>1. /\ pc' = pc /\ ex' = ex /\ parses' = parses /\ did' = did
          /\ result' = result /\ answer' = answer
      BY <2>2 DEF Boot, Tick, vars
    <3>2. /\ NCases(q)' = NCases(q) /\ HarnessOutput(q)' = HarnessOutput(q)
          /\ AnswerTo(q)' = AnswerTo(q)
      BY <3>1 DEF NCases, HarnessOutput, SpecOf, AnswerTo
    <3> QED BY <2>1, <3>1, <3>2 DEF Told, Complete
  <2>3. ASSUME NEW a \in Attempt, Step(a) PROVE Told(q)'
    <3>1. CASE q = a
      BY <2>1, <2>3, <3>1, StepTold
    <3>2. CASE q # a
      <4>1. Untouched(q)
        BY <2>1, <2>3, <3>2, OthersUntouched
      <4> QED BY <2>1, <4>1, UntouchedTold
    <3> QED BY <3>1, <3>2
  <2> QED BY <2>2, <2>3 DEF Next
<1> QED BY <1>1, <1>2, Invariant, PTL DEF Spec
\* A case that expects text, and a program that printed and left text.
ExpectsText(c) == c.stdout \in Text /\ \A p \in DOMAIN c.expectFiles : c.expectFiles[p] \in Text
LeavesText(b) == b.stdout \in Text /\ \A p \in DOMAIN b.files : b.files[p] \in Text

\* The cases of an exercise are a list of cases that can be told apart.
WellMade(cases) ==
  /\ IsList(cases)
  /\ \A i, j \in DOMAIN cases : cases[i].id = cases[j].id => i = j
  /\ \A i \in DOMAIN cases : ExpectsText(cases[i])

\* The exercise of an attempt that is under way comes from the tree that the
\* server accepted.
LEMMA ServedCases ==
  ASSUME Inv, Read, NEW a \in Attempt, pc[a] \notin {"idle", "done"}
  PROVE  WellMade(ex[a].cases)
<1>1. up = "serving" /\ ex[a] \in lib /\ tree \in Tree
  BY UnderWay DEF Timed, Inv, TypeOK
<1>2. ex[a] \in Exercises(tree) /\ SoundLibrary(tree, Exercises(tree))
  BY <1>1, AcceptedIsSound DEF Read
<1>3. \A i, j \in DOMAIN ex[a].cases : ex[a].cases[i].id = ex[a].cases[j].id => i = j
  BY <1>2 DEF SoundLibrary
<1>4. PICK t \in Tracks(tree) :
        \E i \in Sound(tree[t]) \ Duplicates(tree[t]) :
          ex[a] = ExerciseOf(tree[t].dirs[i], tree[t].dir)
  BY <1>2 DEF Exercises
<1>5. PICK i \in Sound(tree[t]) : ex[a] = ExerciseOf(tree[t].dirs[i], tree[t].dir)
  BY <1>4
<1>6. ex[a].cases = tree[t].dirs[i].tests.cases
  BY <1>5 DEF ExerciseOf
<1>7. t \in DOMAIN tree /\ i \in DOMAIN tree[t].dirs
  BY <1>5 DEF Tracks, Sound
<1>8. IsList(ex[a].cases)
  BY <1>1, <1>6, <1>7, TreeAssumption DEF TreeAssumption
<1>9. \A j \in DOMAIN ex[a].cases : ExpectsText(ex[a].cases[j])
  BY <1>1, <1>6, <1>7, TextAssumption DEF TextAssumption, ExpectsText
<1> QED BY <1>3, <1>8, <1>9 DEF WellMade

\* A program that is killed had printed and left text too.
LEMMA DoneLeavesText == \A b \in Did : LeavesText(b)
<1>1. \A b \in Behaviour : LeavesText(b)
  BY TextAssumption DEF TextAssumption, LeavesText
<1>2. \A b \in Behaviour : CutShort(b).stdout = b.stdout /\ CutShort(b).files = b.files
  BY RunnerAssumption DEF RunnerAssumption, CutShort
<1> QED BY <1>1, <1>2 DEF Did, LeavesText

\* What the grader compares of a case result is what the program did, character
\* by character that counts.
LEMMA PassedIsRight ==
  ASSUME NEW c, NEW b, ExpectsText(c), LeavesText(b)
  PROVE  CasePassed(c, CaseResult([id |-> c.id, collect |-> DOMAIN c.expectFiles], b))
           <=> Right(c, b)
<1> DEFINE r == CaseResult([id |-> c.id, collect |-> DOMAIN c.expectFiles], b)
<1>1. /\ r.timedOut = b.timedOut /\ r.exit = b.exit /\ r.stdout = b.stdout
      /\ DOMAIN r.files = DOMAIN b.files \cap DOMAIN c.expectFiles
      /\ \A p \in DOMAIN b.files \cap DOMAIN c.expectFiles : r.files[p] = b.files[p]
  BY DEF CaseResult
<1> HIDE DEF r
<1>2. Equal(c.stdout, b.stdout, c.strict) <=> SameText(c.stdout, b.stdout, c.strict)
  BY EqualIsSameText DEF ExpectsText, LeavesText
<1>3. \A p \in DOMAIN c.expectFiles \cap DOMAIN b.files :
        Equal(c.expectFiles[p], b.files[p], c.strict)
          <=> SameText(c.expectFiles[p], b.files[p], c.strict)
  BY EqualIsSameText DEF ExpectsText, LeavesText
<1>4. filesMatch(c, r) <=>
        \A p \in DOMAIN c.expectFiles :
          p \in DOMAIN b.files /\ SameText(c.expectFiles[p], b.files[p], c.strict)
  BY <1>1, <1>3 DEF filesMatch
<1>5. CasePassed(c, r) <=> Right(c, b)
  BY <1>1, <1>2, <1>4 DEF CasePassed, Right
<1> QED BY <1>5 DEF r

\* The cases of the exercise that the program did not do as they ask.
Missed(a) == {i \in DOMAIN ex[a].cases : ~Right(ex[a].cases[i], did[a][i])}

\* An answer that is no error, to a submission of code that is Python.
SubmitAnswer(a) ==
  /\ DOMAIN did[a] = DOMAIN ex[a].cases /\ Len(did[a]) = Len(ex[a].cases)
  /\ answer[a].cases = Marked(ex[a].cases, Missed(a))
  /\ Missed(a) = {} => answer[a].outcome = "passed" /\ answer[a].error = NoError
  /\ Missed(a) # {} =>
       \E i \in Missed(a) :
         /\ \A j \in Missed(a) : i <= j
         /\ answer[a].failing = ex[a].cases[i].id
         /\ Blames(answer[a], did[a][i])

\* The same to code that is not.
SyntaxAnswer(a) ==
  /\ did[a] = <<>> /\ answer[a].outcome = "syntax_error" /\ answer[a].error = SyntaxError
  /\ answer[a].cases = IF ModeOf[a] = "run" THEN <<>> ELSE Marked(ex[a].cases, DOMAIN ex[a].cases)

\* And to a free run of code that is Python.
RunAnswer(a) ==
  /\ DOMAIN did[a] = {1} /\ did[a] # <<>> /\ answer[a].cases = <<>>
  /\ answer[a].outcome = IF did[a][1].timedOut THEN "timeout"
                         ELSE IF did[a][1].exit # 0 THEN "runtime_error" ELSE "passed"
  /\ answer[a].error = IF ~did[a][1].timedOut /\ did[a][1].exit # 0
                       THEN did[a][1].error ELSE NoError

\* A case result says how the program ended.
SameEnd(r, b) ==
  /\ r.timedOut = b.timedOut /\ r.exit = b.exit
  /\ ~b.timedOut /\ b.exit # 0 => r.error = b.error

\* So does what the harness makes of a case.
LEMMA ResultSaysEnd == \A c, b : CaseResult(c, b).id = c.id /\ SameEnd(CaseResult(c, b), b)
BY DEF CaseResult, SameEnd

\* What is blamed on a case result is blamed on what the program did.
LEMMA BlameMoves ==
  ASSUME NEW v, NEW r, NEW b, SameEnd(r, b), Blames(v, r)
  PROVE  Blames(v, b)
BY DEF SameEnd, Blames

\* What the harness printed of a submission is one result for each case, of
\* which those are wrong that the program missed.
LEMMA SubmitResults ==
  ASSUME Inv, Read, NEW a \in Attempt, pc[a] = "answered", ModeOf[a] = "submit",
         Complete(a), parses[a]
  PROVE  /\ ~result[a].syntaxError /\ OneEach(ex[a].cases, result[a])
         /\ DOMAIN did[a] = DOMAIN ex[a].cases /\ Len(did[a]) = Len(ex[a].cases)
         /\ \A i \in DOMAIN did[a] : SameEnd(result[a].cases[i], did[a][i])
         /\ Wrong(ex[a].cases, result[a]) = Missed(a)
<1> DEFINE c == ex[a].cases
           d == did[a]
           r == result[a].cases
<1>1. WellMade(c) /\ d \in Seq(Did)
  BY ServedCases, UnderWay
<1>2. DOMAIN c = 1..Len(c) /\ Len(c) \in Nat
  BY <1>1 DEF WellMade, IsList
<1>3. SpecOf(a).cases = [i \in DOMAIN c |-> [id |-> c[i].id, collect |-> DOMAIN c[i].expectFiles]]
  BY DEF SpecOf, SubmitSpec
<1>4. NCases(a) = Len(c)
  BY <1>2, <1>3 DEF NCases
<1>5. Len(d) = Len(c) /\ DOMAIN d = DOMAIN c
  BY <1>1, <1>2, <1>4 DEF Complete
<1>6. /\ ~result[a].syntaxError
      /\ r = [i \in DOMAIN d |-> CaseResult(SpecOf(a).cases[i], d[i])]
  <2> DEFINE f == [i \in DOMAIN d |-> CaseResult(SpecOf(a).cases[i], d[i])]
             raw == ~parses[a]
  <2>1. result[a] = Result("none", raw, f)
    BY DEF Complete, HarnessOutput
  <2>2. ~raw
    OBVIOUS
  <2> HIDE DEF f, raw
  <2>3. result[a].syntaxError = raw /\ result[a].cases = f
    BY <2>1 DEF Result
  <2>4. r = f
    BY <2>3
  <2> QED BY <2>2, <2>3, <2>4 DEF f
<1>7. \A i \in DOMAIN c :
        r[i] = CaseResult([id |-> c[i].id, collect |-> DOMAIN c[i].expectFiles], d[i])
  BY <1>3, <1>5, <1>6
<1>8. DOMAIN r = DOMAIN c
  BY <1>5, <1>6
<1> HIDE DEF r
<1>9. \A i \in DOMAIN c :
        r[i].id = c[i].id /\ SameEnd(r[i], d[i])
  <2> TAKE i \in DOMAIN c
  <2> DEFINE s == [id |-> c[i].id, collect |-> DOMAIN c[i].expectFiles]
  <2>2. s.id = c[i].id /\ r[i] = CaseResult(s, d[i])
    BY <1>7
  <2> HIDE DEF c, d, s
  <2> QED BY <2>2, ResultSaysEnd
<1>10. ASSUME NEW i \in DOMAIN c PROVE CasePassed(c[i], r[i]) <=> Right(c[i], d[i])
  <2>1. d[i] \in Did
    BY <1>1, <1>5
  <2>2. ExpectsText(c[i]) /\ LeavesText(d[i])
    BY <1>1, <2>1, DoneLeavesText DEF WellMade
  <2> HIDE DEF c, d
  <2> QED BY <1>7, <2>2, PassedIsRight
<1>11. OneEach(c, result[a])
  <2>1. DOMAIN c \subseteq Nat
    BY <1>2
  <2> HIDE DEF c
  <2> QED BY <1>1, <1>8, <1>9, <2>1 DEF OneEach, WellMade, r
<1>12. Wrong(c, result[a]) = Missed(a)
  BY <1>10 DEF Wrong, Missed, r
<1> QED BY <1>5, <1>6, <1>9, <1>11, <1>12 DEF r
\* Every answer is an error or one of these three.
LEMMA AnswerKinds ==
  ASSUME Inv, Read, AllTold, NEW a \in Attempt, At(a, "answered"), answer[a] # InfraError
  PROVE  \/ ModeOf[a] = "submit" /\ parses[a] /\ SubmitAnswer(a)
         \/ ~parses[a] /\ SyntaxAnswer(a)
         \/ ModeOf[a] = "run" /\ parses[a] /\ RunAnswer(a)
<1>1. pc[a] = "answered" /\ Complete(a) /\ answer[a] = AnswerTo(a)
  BY DEF AllTold, Told, At
<1>2. ~parses[a] => did[a] = <<>>
  BY DEF AllTold, Told
<1>3. ModeOf[a] \in {"run", "submit"}
  BY RunnerAssumption DEF RunnerAssumption
<1>4. result[a].err = "none"
  BY <1>1 DEF Complete, HarnessOutput, Result
<1>5. answer[a] = IF ModeOf[a] = "run" THEN Verdict(RunOutcome(result[a]), NoCase, <<>>, RunError(result[a]))
                  ELSE Evaluate(ex[a], result[a])
  BY <1>1, <1>4 DEF AnswerTo
<1>6. \A o, f, cs, x : /\ Verdict(o, f, cs, x).outcome = o /\ Verdict(o, f, cs, x).cases = cs
                       /\ Verdict(o, f, cs, x).error = x
  BY DEF Verdict
<1>7. CASE ModeOf[a] = "submit" /\ parses[a]
  <2>1. answer[a] = Evaluate(ex[a], result[a])
    BY <1>5, <1>7
  <2>2. /\ ~result[a].syntaxError /\ OneEach(ex[a].cases, result[a])
        /\ DOMAIN did[a] = DOMAIN ex[a].cases /\ Len(did[a]) = Len(ex[a].cases)
        /\ \A i \in DOMAIN did[a] : SameEnd(result[a].cases[i], did[a][i])
        /\ Wrong(ex[a].cases, result[a]) = Missed(a)
    BY <1>1, <1>7, SubmitResults
  <2> DEFINE e == ex[a]
             res == result[a]
             v == Evaluate(e, res)
             failing == Wrong(e.cases, res)
  <2>3. /\ v.cases = Marked(e.cases, failing)
        /\ failing = {} => v.outcome = "passed" /\ v.error = NoError
        /\ failing # {} =>
             \E i \in failing :
               /\ \A j \in failing : i <= j
               /\ v.failing = e.cases[i].id
               /\ Blames(v, res.cases[i])
    <3>1. ~res.syntaxError /\ OneEach(e.cases, res)
      BY <2>2
    <3> HIDE DEF e, res
    <3> QED BY <3>1, VerdictOnResults
  <2>4. Missed(a) \subseteq DOMAIN did[a]
    BY <2>2 DEF Missed
  <2>5. v = answer[a] /\ failing = Missed(a)
    BY <2>1, <2>2
  <2> HIDE DEF v, failing
  <2>6. Missed(a) # {} =>
          \E i \in Missed(a) :
            /\ \A j \in Missed(a) : i <= j
            /\ answer[a].failing = ex[a].cases[i].id
            /\ Blames(answer[a], did[a][i])
    BY <2>2, <2>3, <2>4, <2>5, BlameMoves
  <2>7. SubmitAnswer(a)
    BY <2>2, <2>3, <2>5, <2>6 DEF SubmitAnswer
  <2> QED BY <1>7, <2>7
<1>8. CASE ~parses[a]
  <2> DEFINE f == [i \in DOMAIN did[a] |-> CaseResult(SpecOf(a).cases[i], did[a][i])]
             raw == ~parses[a]
  <2>1. result[a].syntaxError
    <3>1. result[a] = Result("none", raw, f) /\ raw
      BY <1>1, <1>8 DEF Complete, HarnessOutput
    <3> HIDE DEF f, raw
    <3> QED BY <3>1 DEF Result
  <2>2. CASE ModeOf[a] = "run"
    BY <1>2, <1>5, <1>6, <1>8, <2>1, <2>2 DEF SyntaxAnswer, RunOutcome, RunError
  <2>3. CASE ModeOf[a] = "submit"
    <3>1. answer[a] = Evaluate(ex[a], result[a])
      BY <1>5, <2>3
    <3>2. answer[a].outcome = "syntax_error" /\ answer[a].error = SyntaxError
          /\ answer[a].cases = Marked(ex[a].cases, DOMAIN ex[a].cases)
      BY <2>1, <3>1, VerdictOnSyntax
    <3> QED BY <1>2, <1>8, <2>3, <3>2 DEF SyntaxAnswer
  <2> QED BY <1>3, <1>8, <2>2, <2>3
<1>9. CASE ModeOf[a] = "run" /\ parses[a]
  <2> DEFINE f == [i \in DOMAIN did[a] |-> CaseResult(SpecOf(a).cases[i], did[a][i])]
             raw == ~parses[a]
  <2>1. NCases(a) = 1
    BY <1>9 DEF NCases, SpecOf, RunSpec
  <2>2. did[a] \in Seq(Did) /\ Len(did[a]) = 1
    BY <1>1, <1>9, <2>1, UnderWay DEF Complete
  <2>3. DOMAIN did[a] = {1} /\ did[a] # <<>>
    <3>1. DOMAIN did[a] = 1..Len(did[a]) /\ Len(<<>>) = 0
      BY <2>2
    <3>2. 1..1 = {1}
      OBVIOUS
    <3>3. DOMAIN did[a] = {1}
      BY <2>2, <3>1, <3>2, Zenon
    <3>4. did[a] # <<>>
      <4> SUFFICES ASSUME did[a] = <<>> PROVE Len(did[a]) = 0
        BY <2>2
      <4> QED BY <3>1
    <3> QED BY <3>3, <3>4
  <2>4. f # <<>> /\ SameEnd(f[1], did[a][1])
    BY <2>3, ResultSaysEnd
  <2>5. result[a] = Result("none", raw, f)
    BY <1>1 DEF Complete, HarnessOutput
  <2>6. ~raw
    BY <1>9
  <2> HIDE DEF f, raw
  <2>7. result[a].syntaxError = raw /\ result[a].cases = f
    BY <2>5 DEF Result
  <2>8. RunOutcome(result[a]) = IF did[a][1].timedOut THEN "timeout"
                                ELSE IF did[a][1].exit # 0 THEN "runtime_error" ELSE "passed"
    BY <2>4, <2>6, <2>7 DEF RunOutcome, SameEnd
  <2>9. RunError(result[a]) = IF ~did[a][1].timedOut /\ did[a][1].exit # 0
                              THEN did[a][1].error ELSE NoError
    BY <2>4, <2>7, <2>8 DEF RunError, SameEnd
  <2> QED BY <1>5, <1>6, <1>9, <2>3, <2>8, <2>9 DEF RunAnswer
<1> QED BY <1>3, <1>7, <1>8, <1>9
\* A property of what is told is shown of the states in which it is.
Reached == Inv /\ Read /\ AllTold

\* These states are all the reachable ones.
LEMMA ReachedAlways == Spec => []Reached
<1>1. Inv /\ Read /\ AllTold => Reached
  BY DEF Reached
<1> QED BY <1>1, Invariant, ReadAlways, ToldAlways, PTL

\* A student is told "passed" if and only if the code ran every case of the
\* exercise in its own time to what the case expects; a free run, if it ended
\* well: for every content tree that is served, and every program.
THEOREM PassEarned == Spec => []PassIsEarned
<1>1. ASSUME Reached, NEW a \in Attempt
      PROVE  /\ Ended(a, "submit") /\ answer[a].outcome # "error" =>
                  (answer[a].outcome = "passed") = (parses[a] /\ AllRight(a))
             /\ Ended(a, "run") /\ answer[a].outcome = "passed" =>
                  parses[a] /\ did[a] # <<>> /\ ~did[a][1].timedOut /\ did[a][1].exit = 0
  <2>1. SUFFICES ASSUME At(a, "answered"), answer[a].outcome # "error"
                 PROVE  /\ ModeOf[a] = "submit" =>
                             (answer[a].outcome = "passed" <=> parses[a] /\ AllRight(a))
                        /\ ModeOf[a] = "run" /\ answer[a].outcome = "passed" =>
                             parses[a] /\ did[a] # <<>> /\ ~did[a][1].timedOut
                             /\ did[a][1].exit = 0
    BY DEF Ended
  <2>2. answer[a] # InfraError
    BY <2>1 DEF InfraError, Verdict
  <2>3. CASE ModeOf[a] = "submit" /\ parses[a] /\ SubmitAnswer(a)
    <3>1. AllRight(a) <=> Missed(a) = {}
      BY <2>3 DEF SubmitAnswer, AllRight, Missed
    <3>2. Missed(a) = {} => answer[a].outcome = "passed"
      BY <2>3 DEF SubmitAnswer
    <3>3. ASSUME Missed(a) # {} PROVE answer[a].outcome # "passed"
      <4>1. \E i \in Missed(a) : Blames(answer[a], did[a][i])
        BY <2>3, <3>3 DEF SubmitAnswer
      <4> QED BY <4>1 DEF Blames
    <3> QED BY <2>3, <3>1, <3>2, <3>3
  <2>4. CASE ~parses[a] /\ SyntaxAnswer(a)
    BY <2>4 DEF SyntaxAnswer
  <2>5. CASE ModeOf[a] = "run" /\ parses[a] /\ RunAnswer(a)
    BY <2>5 DEF RunAnswer
  <2> QED BY <1>1, <2>1, <2>2, <2>3, <2>4, <2>5, AnswerKinds DEF Reached
<1>2. Reached => PassIsEarned
  BY <1>1 DEF PassIsEarned
<1> QED BY <1>2, ReachedAlways, PTL

\* What the student is blamed for happened, in the first case that went wrong:
\* the outcome, the exception and the test are that case's; and a harness that
\* died or was cut off is nobody's verdict.
THEOREM BlameIsFit == Spec => []BlameFits
<1>1. ASSUME Reached, NEW a \in Attempt, At(a, "answered")
      PROVE  LET o == answer[a].outcome
                 error == answer[a].error IN
             /\ o # "infra_error"
             /\ o = "syntax_error" => ~parses[a] /\ error = SyntaxError
             /\ o \notin {"syntax_error", "runtime_error"} => error = NoError
             /\ o \in {"timeout", "runtime_error", "failed"} =>
                  \E i \in DOMAIN did[a] :
                    /\ o = "timeout" <=> did[a][i].timedOut
                    /\ o = "failed" => did[a][i].exit = 0 /\ ModeOf[a] = "submit"
                    /\ o = "runtime_error" => did[a][i].exit # 0 /\ error = did[a][i].error
                    /\ ModeOf[a] = "submit" =>
                         /\ ex[a].cases[i].id = answer[a].failing
                         /\ ~Right(ex[a].cases[i], did[a][i])
                         /\ \A j \in 1..i - 1 : Right(ex[a].cases[j], did[a][j])
  <2>1. CASE answer[a] = InfraError
    BY <2>1 DEF InfraError, Verdict
  <2>2. CASE ModeOf[a] = "submit" /\ parses[a] /\ SubmitAnswer(a)
    <3>1. CASE Missed(a) = {}
      BY <2>2, <3>1 DEF SubmitAnswer
    <3>2. CASE Missed(a) # {}
      <4>1. PICK i \in Missed(a) :
              /\ \A j \in Missed(a) : i <= j
              /\ answer[a].failing = ex[a].cases[i].id
              /\ Blames(answer[a], did[a][i])
        BY <2>2, <3>2 DEF SubmitAnswer
      <4>2. i \in DOMAIN did[a] /\ ~Right(ex[a].cases[i], did[a][i])
        BY <2>2 DEF SubmitAnswer, Missed
      <4>3. DOMAIN ex[a].cases = 1..Len(ex[a].cases) /\ Len(ex[a].cases) \in Nat
        BY <1>1, ServedCases DEF Reached, At, WellMade, IsList
      <4>4. i \in 1..Len(ex[a].cases)
        BY <4>3 DEF Missed
      <4>5. \A j \in 1..i - 1 : Right(ex[a].cases[j], did[a][j])
        <5> SUFFICES ASSUME NEW j \in 1..i - 1, ~Right(ex[a].cases[j], did[a][j]) PROVE FALSE
          OBVIOUS
        <5>1. j \in DOMAIN ex[a].cases /\ ~(i <= j)
          BY <4>3, <4>4
        <5> QED BY <4>1, <5>1 DEF Missed
      <4> QED BY <2>2, <4>1, <4>2, <4>5 DEF Blames
    <3> QED BY <3>1, <3>2
  <2>3. CASE ~parses[a] /\ SyntaxAnswer(a)
    BY <2>3 DEF SyntaxAnswer
  <2>4. CASE ModeOf[a] = "run" /\ parses[a] /\ RunAnswer(a)
    <3>1. /\ 1 \in DOMAIN did[a] /\ ModeOf[a] # "submit"
          /\ answer[a].outcome = IF did[a][1].timedOut THEN "timeout"
                                 ELSE IF did[a][1].exit # 0 THEN "runtime_error" ELSE "passed"
          /\ answer[a].error = IF ~did[a][1].timedOut /\ did[a][1].exit # 0
                               THEN did[a][1].error ELSE NoError
      BY <2>4 DEF RunAnswer
    <3> QED BY <3>1
  <2> QED BY <1>1, <2>1, <2>2, <2>3, <2>4, AnswerKinds DEF Reached
<1>2. Reached => BlameFits
  BY <1>1 DEF BlameFits
<1> QED BY <1>2, ReachedAlways, PTL

\* An answer gives input and outputs of the first visible case that failed, and
\* of no other; the exception it tells is the one of the first case that failed,
\* which is the case shown or a hidden one.
THEOREM OneIsRevealed == Spec => []RevealsOne
<1>1. ASSUME Reached, NEW a \in Attempt, At(a, "answered")
      PROVE  LET cases == answer[a].cases
                 shown == Revealed(cases)
                 wrong == {i \in DOMAIN cases :
                             i \in DOMAIN did[a] /\ ~Right(ex[a].cases[i], did[a][i])} IN
             /\ shown \cap VisibleCases(ex[a]) = shown
             /\ Cardinality(shown) <= 1
             /\ parses[a] => shown = {i \in wrong \cap VisibleCases(ex[a]) :
                                        \A j \in wrong \cap VisibleCases(ex[a]) : i <= j}
             /\ Ended(a, "submit") /\ parses[a] /\ answer[a].error # NoError =>
                  \E i \in wrong :
                    /\ \A j \in wrong : i <= j
                    /\ answer[a].error = did[a][i].error
                    /\ shown = {i} \/ ex[a].cases[i].hidden
  <2> DEFINE cases == answer[a].cases
             shown == Revealed(cases)
             visible == VisibleCases(ex[a])
             wrong == {i \in DOMAIN cases :
                         i \in DOMAIN did[a] /\ ~Right(ex[a].cases[i], did[a][i])}
  <2>1. CASE cases = <<>> /\ (parses[a] /\ ModeOf[a] = "submit" => answer[a].error = NoError)
    <3>1. shown = {} /\ wrong = {}
      BY <2>1 DEF Revealed
    <3>2. Ended(a, "submit") /\ parses[a] => answer[a].error = NoError
      BY <2>1 DEF Ended
    <3> HIDE DEF shown, wrong, visible, cases
    <3>3. Cardinality(shown) = 0
      BY <3>1, FS_EmptySet
    <3> QED BY <3>1, <3>2, <3>3 DEF shown, wrong, visible, cases
  <2>2. ASSUME NEW failing, failing \subseteq DOMAIN ex[a].cases,
               cases = Marked(ex[a].cases, failing)
        PROVE  /\ shown = {i \in failing \cap visible : \A j \in failing \cap visible : i <= j}
               /\ shown \subseteq visible /\ Cardinality(shown) <= 1
               /\ DOMAIN cases = DOMAIN ex[a].cases
    <3>1. DOMAIN ex[a].cases \subseteq Nat
      <4>1. IsList(ex[a].cases)
        BY <1>1, ServedCases DEF Reached, At, WellMade
      <4> QED BY <4>1 DEF IsList
    <3> DEFINE c == ex[a].cases
               open == {i \in failing : ~c[i].hidden}
    <3>2. shown = {i \in open : \A j \in open : i <= j} /\ Cardinality(shown) <= 1
      <4> HIDE DEF c
      <4> QED BY <2>2, <3>1, RevealedIsFirst DEF c
    <3>3. open = failing \cap visible
      BY <2>2 DEF VisibleCases
    <3>4. DOMAIN cases = DOMAIN ex[a].cases
      BY <2>2 DEF Marked
    <3> HIDE DEF shown, open, visible
    <3> QED BY <3>2, <3>3, <3>4
  <2>3. CASE parses[a] /\ SubmitAnswer(a)
    <3>1. wrong = Missed(a) /\ Missed(a) \subseteq DOMAIN ex[a].cases
      BY <2>3 DEF SubmitAnswer, Marked, Missed
    <3>2. /\ shown = {i \in Missed(a) \cap visible : \A j \in Missed(a) \cap visible : i <= j}
          /\ shown \subseteq visible /\ Cardinality(shown) <= 1
      BY <2>2, <2>3, <3>1 DEF SubmitAnswer
    <3>3. ASSUME answer[a].error # NoError
          PROVE  \E i \in Missed(a) :
                   /\ \A j \in Missed(a) : i <= j
                   /\ answer[a].error = did[a][i].error
                   /\ shown = {i} \/ ex[a].cases[i].hidden
      <4>1. PICK i \in Missed(a) :
              (\A j \in Missed(a) : i <= j) /\ Blames(answer[a], did[a][i])
        BY <2>3, <3>3 DEF SubmitAnswer
      <4>2. answer[a].error = did[a][i].error
        BY <3>3, <4>1 DEF Blames
      <4>3. Missed(a) \subseteq Nat
        BY <1>1, <3>1, ServedCases DEF Reached, At, WellMade, IsList
      <4>4. ASSUME ~ex[a].cases[i].hidden
            PROVE  shown = {i}
        <5>1. i \in Missed(a) \cap visible
          BY <3>1, <4>4 DEF VisibleCases
        <5> HIDE DEF shown, visible
        <5>2. i \in shown
          BY <3>2, <4>1, <5>1
        <5>3. \A k \in shown : k = i
          <6> TAKE k \in shown
          <6>1. k \in Missed(a) /\ k <= i
            BY <3>2, <5>1
          <6>2. i <= k /\ i \in Nat /\ k \in Nat
            BY <4>1, <4>3, <6>1
          <6> QED BY <6>1, <6>2
        <5> QED BY <5>2, <5>3
      <4> HIDE DEF shown
      <4> QED BY <4>1, <4>2, <4>4
    <3> HIDE DEF shown, wrong, visible
    <3>4. shown \cap visible = shown /\ Cardinality(shown) <= 1
          /\ shown = {i \in wrong \cap visible : \A j \in wrong \cap visible : i <= j}
      BY <3>1, <3>2
    <3>5. answer[a].error # NoError =>
            \E i \in wrong :
              /\ \A j \in wrong : i <= j
              /\ answer[a].error = did[a][i].error
              /\ shown = {i} \/ ex[a].cases[i].hidden
      BY <3>1, <3>3
    <3> QED BY <3>4, <3>5 DEF shown, wrong, visible
  <2>4. CASE ~parses[a] /\ SyntaxAnswer(a) /\ cases # <<>>
    <3>1. shown \subseteq visible /\ Cardinality(shown) <= 1
      BY <2>2, <2>4 DEF SyntaxAnswer
    <3> HIDE DEF shown, visible
    <3>2. shown \cap visible = shown /\ Cardinality(shown) <= 1
      BY <3>1
    <3> QED BY <2>4, <3>2 DEF shown, visible
  <2>5. /\ answer[a] = InfraError => cases = <<>> /\ answer[a].error = NoError
        /\ RunAnswer(a) => cases = <<>>
    BY DEF InfraError, Verdict, RunAnswer
  <2>6. \/ answer[a] = InfraError \/ (ModeOf[a] = "run" /\ RunAnswer(a))
        \/ parses[a] /\ SubmitAnswer(a)
        \/ ~parses[a] /\ SyntaxAnswer(a)
    BY <1>1, AnswerKinds DEF Reached
  <2> QED BY <2>1, <2>3, <2>4, <2>5, <2>6
<1>2. Reached => RevealsOne
  BY <1>1 DEF RevealsOne
<1> QED BY <1>2, ReachedAlways, PTL


=============================================================================

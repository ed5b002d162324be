---------------------------- MODULE LocalRunner ----------------------------
(***************************************************************************)
(* The server from its start on the content tree to the answers of POST    *)
(* /v1/attempts, over runner.Local and the harness it runs: waiting for a  *)
(* slot, staging, the cases one after the other under their limits, the    *)
(* deadlines around them, parsing, grading and the answer.  Validation in  *)
(* CI sends its solutions the same way; recording the attempt is Attempts. *)
(*                                                                         *)
(* Each attempt measures its own time; what waits for no one is over       *)
(* before time passes.  A program that outlives its harness is left out:   *)
(* nothing of the server waits for it.                                     *)
(***************************************************************************)
EXTENDS Content, Grading, FiniteSets

CONSTANTS
  Tree,          \* the content trees considered
  Attempt,
  ModeOf,        \* "run" or "submit"
  Behaviour,     \* what a program may do in a case it ends by itself
  Parallel,      \* NewLocal's bound on concurrent runs
  Slack,         \* TotalBudget's 3 s for start-up and staging
  Grace,         \* handleAttempt's 15 s on top of the budget
  TextLen,       \* bound: the length of the texts that are compared exhaustively
  NoExercise

ASSUME RunnerAssumption ==
  /\ ModeOf \in [Attempt -> {"run", "submit"}]
  /\ Parallel \in Nat \ {0}
  /\ Slack \in Nat \ {0} /\ Grace \in Nat \ {0}
  /\ TextLen \in Nat
  /\ \A b \in Behaviour : DOMAIN b = {"timedOut", "exit", "error", "stdout", "files"} /\ ~b.timedOut

IsList(s) == Len(s) \in Nat /\ DOMAIN s = 1..Len(s)

\* A content tree holds lists, and a directory has one entry of a name.
ASSUME TreeAssumption ==
  \A tr \in Tree : \A t \in DOMAIN tr :
    /\ \A u \in DOMAIN tr : tr[u].dir = tr[t].dir => u = t
    /\ IsList(tr[t].dirs)
    /\ \A i \in DOMAIN tr[t].dirs : IsList(tr[t].dirs[i].tests.cases)

\* What a program prints or leaves in a file, and what a case expects, is text.
ASSUME TextAssumption ==
  /\ \A b \in Behaviour : b.stdout \in Text /\ \A p \in DOMAIN b.files : b.files[p] \in Text
  /\ \A tr \in Tree : \A t \in DOMAIN tr : \A i \in DOMAIN tr[t].dirs :
       \A j \in DOMAIN tr[t].dirs[i].tests.cases :
         LET c == tr[t].dirs[i].tests.cases[j] IN
         c.stdout \in Text /\ \A p \in DOMAIN c.expectFiles : c.expectFiles[p] \in Text

VARIABLES
  tree,      \* the content tree
  lib,       \* Library.Exercises, read from it once
  up,        \* the process: "boot", "serving", "refused"
  pc,        \* where each attempt is
  ex,        \* the exercise it is for
  parses,    \* whether its code is Python
  did,       \* what its program did, case by case, which the harness collects
  result,    \* what Runner.Run returned
  answer,    \* what the client was told
  age,       \* the time since handleAttempt made its context
  spent,     \* the time since the harness was started
  idle,      \* ghost: of that, the time spent in no case
  caseTime   \* the time since the current case began

clocks == <<age, spent, idle, caseTime>>
vars == <<tree, lib, up, pc, ex, parses, did, result, answer, clocks>>

PC == {"idle", "wait", "stage", "harness", "case", "return", "answered", "done"}

\* What Run returns: an error, or what the harness printed.
Result(err, syntaxError, cases) == [err |-> err, syntaxError |-> syntaxError, cases |-> cases]
Nothing == Result("none", FALSE, <<>>)
Failed == Result("failed", FALSE, <<>>)
Overrun == Result("overrun", FALSE, <<>>)

NoAnswer == Verdict("none", NoCase, <<>>, NoError)
InfraError == Verdict("error", NoCase, <<>>, NoError)

Outcome == {"none", "error", "passed", "failed", "runtime_error", "syntax_error", "timeout",
            "infra_error"}

\* What a program may have done in a case that is over.
CutShort(b) == [b EXCEPT !.timedOut = TRUE, !.exit = -1]
Did == Behaviour \cup {CutShort(b) : b \in Behaviour}

SpecOf(a) == IF ModeOf[a] = "run" THEN RunSpec(ex[a]) ELSE SubmitSpec(ex[a])

TypeOK ==
  /\ tree \in Tree
  /\ up \in {"boot", "serving", "refused"}
  /\ pc \in [Attempt -> PC]
  /\ ex \in [Attempt -> lib \cup {NoExercise}]
  /\ parses \in [Attempt -> BOOLEAN]
  /\ did \in [Attempt -> Seq(Did)]
  /\ {age, spent, idle, caseTime} \subseteq [Attempt -> Nat]
  /\ DOMAIN result = Attempt /\ DOMAIN answer = Attempt
  /\ \A a \in Attempt :
       /\ result[a].err \in {"none", "failed", "overrun"}
       /\ answer[a].outcome \in Outcome
       /\ pc[a] \notin {"idle", "done"} => Len(did[a]) <= Len(SpecOf(a).cases)
       /\ caseTime[a] <= spent[a] /\ idle[a] <= spent[a] /\ spent[a] <= age[a]

Init ==
  /\ tree \in Tree
  /\ lib = {}
  /\ up = "boot"
  /\ pc = [a \in Attempt |-> "idle"]
  /\ ex = [a \in Attempt |-> NoExercise]
  /\ parses = [a \in Attempt |-> TRUE]
  /\ did = [a \in Attempt |-> <<>>]
  /\ result = [a \in Attempt |-> Nothing]
  /\ answer = [a \in Attempt |-> NoAnswer]
  /\ age = [a \in Attempt |-> 0]
  /\ spent = [a \in Attempt |-> 0]
  /\ idle = [a \in Attempt |-> 0]
  /\ caseTime = [a \in Attempt |-> 0]

-----------------------------------------------------------------------------
At(a, l) == pc[a] = l
Goto(a, l) == pc' = [pc EXCEPT ![a] = l]
InHarness(a) == pc[a] \in {"harness", "case"}

\* The attempts in the semaphore; each has a directory of its own.
Holding == {a \in Attempt : pc[a] \in {"stage", "harness", "case", "return"}}

\* Mutant: one case's limit for all of them.
BudgetOfOne(spec) == spec.limit + Slack

\* Every case's limit, plus start-up and staging.
TotalBudget(spec) ==
  (IF spec.cases = <<>> THEN 1 ELSE Len(spec.cases)) * spec.limit + Slack

Budget(a) == TotalBudget(SpecOf(a))

\* The deadline of handleAttempt, and that of Run on the harness.
Expired(a) ==
  \/ age[a] >= Budget(a) + Grace
  \/ InHarness(a) /\ spent[a] >= Budget(a)

CaseOver(a) == At(a, "case") /\ caseTime[a] >= SpecOf(a).limit

\* The result of a case: its exception is what parse_error finds in the
\* traceback of a program that failed by itself, if anything; its files are
\* those it is to collect.
CaseResult(c, b) ==
  [id |-> c.id, timedOut |-> b.timedOut, exit |-> b.exit, stdout |-> b.stdout,
   error |-> IF b.exit # 0 /\ ~b.timedOut THEN b.error ELSE NoError,
   files |-> [p \in DOMAIN b.files \cap c.collect |-> b.files[p]]]

\* What the harness prints at its end.
HarnessOutput(a) ==
  Result("none", ~parses[a], [i \in DOMAIN did[a] |-> CaseResult(SpecOf(a).cases[i], did[a][i])])

\* Mutant: no output is an empty result.
ParseAnything(printed, r) == r

\* "Guarding against a harness that died before printing": stdout that is
\* empty or no JSON is an error.
parseResult(printed, r) == IF printed THEN r ELSE Failed

-----------------------------------------------------------------------------
(* The process and the handler                                             *)

\* serve loads the tree and goes on, or gives up.
Boot ==
  /\ up = "boot"
  /\ up' = IF Accepted(tree) THEN "serving" ELSE "refused"
  /\ lib' = Exercises(tree)
  /\ UNCHANGED <<tree, pc, ex, parses, did, result, answer, clocks>>

\* handleAttempt, past its gate, calls Run.
Begin(a) ==
  /\ up = "serving" /\ At(a, "idle")
  /\ \E e \in lib, p \in BOOLEAN :
       ex' = [ex EXCEPT ![a] = e] /\ parses' = [parses EXCEPT ![a] = p]
  /\ Goto(a, "wait")
  /\ UNCHANGED <<tree, lib, up, did, result, answer, clocks>>

\* The clocks stop with the context.
StopClocks(a) ==
  /\ age' = [age EXCEPT ![a] = 0]
  /\ spent' = [spent EXCEPT ![a] = 0]
  /\ idle' = [idle EXCEPT ![a] = 0]
  /\ caseTime' = [caseTime EXCEPT ![a] = 0]

\* The verdict on what Run returned; an error is no verdict.
AnswerTo(a) ==
  LET res == result[a] IN
  IF res.err # "none" THEN InfraError
  ELSE IF ModeOf[a] = "run" THEN Verdict(RunOutcome(res), NoCase, <<>>, RunError(res))
  ELSE Evaluate(ex[a], res)

\* Run's deferred calls remove the directory and give the slot back; the
\* handler grades and answers.
Answer(a) ==
  /\ At(a, "return")
  /\ answer' = [answer EXCEPT ![a] = AnswerTo(a)]
  /\ Goto(a, "answered")
  /\ StopClocks(a)
  /\ UNCHANGED <<tree, lib, up, ex, parses, did, result>>

\* The handler returns, and with it goes what it knew.
Leave(a) ==
  /\ At(a, "answered")
  /\ Goto(a, "done")
  /\ ex' = [ex EXCEPT ![a] = NoExercise]
  /\ parses' = [parses EXCEPT ![a] = TRUE]
  /\ did' = [did EXCEPT ![a] = <<>>]
  /\ result' = [result EXCEPT ![a] = Nothing]
  /\ answer' = [answer EXCEPT ![a] = NoAnswer]
  /\ UNCHANGED <<tree, lib, up, clocks>>

-----------------------------------------------------------------------------
(* Local.Run                                                               *)

Acquire(a) ==
  /\ At(a, "wait")
  /\ Cardinality(Holding) < Parallel
  /\ Goto(a, "stage")
  /\ UNCHANGED <<tree, lib, up, ex, parses, did, result, answer, clocks>>

\* The context ends before there is a slot: its deadline, or the client left.
GiveUp(a) ==
  /\ At(a, "wait")
  /\ answer' = [answer EXCEPT ![a] = InfraError]
  /\ Goto(a, "answered")
  /\ StopClocks(a)
  /\ UNCHANGED <<tree, lib, up, ex, parses, did, result>>

\* The files are written and the harness is started.
Stage(a) ==
  /\ At(a, "stage")
  /\ Goto(a, "harness")
  /\ UNCHANGED <<tree, lib, up, ex, parses, did, result, answer, clocks>>

Return(a, res) ==
  /\ Goto(a, "return")
  /\ result' = [result EXCEPT ![a] = res]
  /\ UNCHANGED <<tree, lib, up, ex, parses, did, answer, clocks>>

StageFails(a) == At(a, "stage") /\ Return(a, Failed)

\* The outer budget or the handler's deadline kills the harness.
CutOff(a) == InHarness(a) /\ Expired(a) /\ Return(a, Overrun)

\* The harness exits after its last case, or at once if the code is no Python.
HarnessExits(a) ==
  /\ At(a, "harness")
  /\ parses[a] => Len(did[a]) = Len(SpecOf(a).cases)
  /\ Return(a, parseResult(TRUE, HarnessOutput(a)))

\* The harness does not start, crashes, is killed, or exits having printed
\* nothing that is whole.
HarnessDies(a) ==
  /\ InHarness(a)
  /\ Return(a, Failed) \/ Return(a, parseResult(FALSE, Nothing))

-----------------------------------------------------------------------------
(* The harness                                                             *)

\* Mutant: one case too many.
StartCaseBeyond(a) ==
  /\ At(a, "harness") /\ parses[a]
  /\ Len(did[a]) <= Len(SpecOf(a).cases)
  /\ Goto(a, "case")
  /\ caseTime' = [caseTime EXCEPT ![a] = 0]
  /\ UNCHANGED <<tree, lib, up, ex, parses, did, result, answer, age, spent, idle>>

\* run_case for the next case.
StartCase(a) ==
  /\ At(a, "harness") /\ parses[a]
  /\ Len(did[a]) < Len(SpecOf(a).cases)
  /\ Goto(a, "case")
  /\ caseTime' = [caseTime EXCEPT ![a] = 0]
  /\ UNCHANGED <<tree, lib, up, ex, parses, did, result, answer, age, spent, idle>>

\* The program's case is over, and its directory is removed.
CaseDone(a, b) ==
  /\ did' = [did EXCEPT ![a] = Append(@, b)]
  /\ Goto(a, "harness")
  /\ caseTime' = [caseTime EXCEPT ![a] = 0]
  /\ UNCHANGED <<tree, lib, up, ex, parses, result, answer, age, spent, idle>>

\* The program ends by itself.
CaseEnds(a) ==
  /\ At(a, "case")
  /\ \E b \in Behaviour : CaseDone(a, b)

\* TimeoutExpired: it is killed; what it had done by then is kept.
CaseTimesOut(a) ==
  /\ CaseOver(a)
  /\ \E b \in Behaviour : CaseDone(a, CutShort(b))

-----------------------------------------------------------------------------
Waiting == {a \in Attempt : pc[a] \in {"wait", "stage", "harness", "case"}}

\* Time passes for all, unless a timer is due or an attempt is at its end.
Tick ==
  /\ Waiting # {}
  /\ \A a \in Attempt : pc[a] \notin {"return", "answered"}
  /\ \A a \in Waiting : ~Expired(a) /\ ~CaseOver(a)
  /\ age' = [a \in Attempt |-> IF a \in Waiting THEN age[a] + 1 ELSE age[a]]
  /\ spent' = [a \in Attempt |-> IF InHarness(a) THEN spent[a] + 1 ELSE spent[a]]
  /\ idle' = [a \in Attempt |-> IF At(a, "harness") THEN idle[a] + 1 ELSE idle[a]]
  /\ caseTime' = [a \in Attempt |-> IF At(a, "case") THEN caseTime[a] + 1 ELSE caseTime[a]]
  /\ UNCHANGED <<tree, lib, up, pc, ex, parses, did, result, answer>>

Step(a) ==
  \/ Begin(a) \/ Acquire(a) \/ GiveUp(a) \/ Stage(a) \/ StageFails(a)
  \/ StartCase(a) \/ CaseEnds(a) \/ CaseTimesOut(a)
  \/ HarnessExits(a) \/ HarnessDies(a) \/ CutOff(a) \/ Answer(a) \/ Leave(a)

Next == Boot \/ (\E a \in Attempt : Step(a)) \/ Tick

Spec == Init /\ [][Next]_vars

-----------------------------------------------------------------------------
(* Safety                                                                  *)

\* The program did in the case what the exercise asks for.
Right(c, b) ==
  /\ ~b.timedOut /\ b.exit = 0
  /\ SameText(c.stdout, b.stdout, c.strict)
  /\ \A p \in DOMAIN c.expectFiles :
       p \in DOMAIN b.files /\ SameText(c.expectFiles[p], b.files[p], c.strict)

Ended(a, mode) == At(a, "answered") /\ ModeOf[a] = mode

AllRight(a) ==
  /\ Len(did[a]) = Len(ex[a].cases)
  /\ \A i \in DOMAIN ex[a].cases : Right(ex[a].cases[i], did[a][i])

\* A student is told "passed" if and only if the code ran every case of the
\* exercise in its own time to what the case expects; a free run, if it ended
\* well.  Case results are found by id, which only checkTests keeps apart.
PassIsEarned ==
  \A a \in Attempt :
    /\ Ended(a, "submit") /\ answer[a].outcome # "error" =>
         (answer[a].outcome = "passed") = (parses[a] /\ AllRight(a))
    /\ Ended(a, "run") /\ answer[a].outcome = "passed" =>
         parses[a] /\ did[a] # <<>> /\ ~did[a][1].timedOut /\ did[a][1].exit = 0

\* What the student is blamed for happened, in the first case that went wrong:
\* the outcome, the exception and the test that hints are matched on are that
\* case's.  A harness that died or was cut off is nobody's verdict
\* ("infrastructure, not the student").
BlameFits ==
  \A a \in Attempt : At(a, "answered") =>
    LET o == answer[a].outcome
        error == answer[a].error IN
    /\ o # "infra_error"
    /\ o = "syntax_error" => ~parses[a] /\ error = SyntaxError
    /\ o \notin {"syntax_error", "runtime_error"} => error = NoError
    /\ o \in {"timeout", "runtime_error", "failed"} =>
         \E i \in DOMAIN did[a] :
           /\ o = "timeout" <=> did[a][i].timedOut
           /\ o = "failed" => did[a][i].exit = 0 /\ ModeOf[a] = "submit"
           /\ o = "runtime_error" => did[a][i].exit # 0 /\ error = did[a][i].error
           /\ ModeOf[a] = "submit" =>
                /\ ex[a].cases[i].id = answer[a].failing
                /\ ~Right(ex[a].cases[i], did[a][i])
                /\ \A j \in 1..i - 1 : Right(ex[a].cases[j], did[a][j])

ShortText == UNION {[1..n -> Character] : n \in 0..TextLen}

\* A tolerant comparison forgives "trailing whitespace on each line and
\* trailing blank lines", and "CRLF" for "LF", and nothing else: what is left
\* of a text are the characters that count.  It is about texts alone, and so
\* stated of the states before the server is up.
TolerantByPosition == up = "boot" => \A s \in ShortText : Normalize(s) = Counting[s]

\* An answer gives input, expected and actual output of one case at most: of
\* the first visible one that failed, and if the code runs and a visible case
\* failed, it does.  The exception it tells is not bound by that: it is the one
\* of the first case that failed, which is the case shown or a hidden one.
RevealsOne ==
  \A a \in Attempt : At(a, "answered") =>
    LET cases == answer[a].cases
        shown == Revealed(cases)
        wrong == {i \in DOMAIN cases : i \in DOMAIN did[a] /\ ~Right(ex[a].cases[i], did[a][i])} IN
    /\ shown \cap VisibleCases(ex[a]) = shown
    /\ Cardinality(shown) <= 1
    /\ parses[a] => shown = {i \in wrong \cap VisibleCases(ex[a]) :
                               \A j \in wrong \cap VisibleCases(ex[a]) : i <= j}
    /\ Ended(a, "submit") /\ parses[a] /\ answer[a].error # NoError =>
         \E i \in wrong :
           /\ \A j \in wrong : i <= j
           /\ answer[a].error = did[a][i].error
           /\ shown = {i} \/ ex[a].cases[i].hidden

\* "Hitting the outer budget means the harness is wedged": it spent the slack
\* outside the cases, unless the attempt had used up the grace before it was
\* started.
OverrunMeansWedged ==
  \A a \in Attempt :
    At(a, "return") /\ result[a].err = "overrun" =>
      idle[a] >= Slack \/ age[a] - spent[a] >= Grace

\* A server that serves has every exercise of its tracks, each under an id of
\* its own, with cases that can be told apart and one to show; the outline has
\* every exercise that a unit lists; and a hint speaks every language ("never
\* empty") and is about a test that there is.
LibrarySound ==
  up = "serving" =>
    /\ \A t \in Tracks(tree) :
         /\ \A i \in DOMAIN tree[t].dirs : ExerciseOf(tree[t].dirs[i], tree[t].dir) \in lib
         /\ \A i \in DOMAIN tree[t].units :
              LET u == tree[t].units[i] IN
                /\ {e.id : e \in Outline(lib, u)} = u.exercises
                /\ u.mustPass \subseteq u.exercises
    /\ \A e \in lib :
         /\ \A f \in lib : e.id = f.id => e = f
         /\ \A i, j \in DOMAIN e.cases : e.cases[i].id = e.cases[j].id => i = j
         /\ VisibleCases(e) # {}
         /\ e.limit \in MinLimit..MaxLimit
         /\ \A i \in DOMAIN e.hints :
              /\ \A l \in Lang : TextIn(e.hints[i], l) # Empty
              /\ e.hints[i].test \in {c.id : c \in {e.cases[j] : j \in DOMAIN e.cases}} \cup {Empty}

=============================================================================

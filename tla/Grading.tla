------------------------------ MODULE Grading ------------------------------
(***************************************************************************)
(* Grading (internal/grade) and what handleAttempt shows of it: the run    *)
(* specification made of an exercise, the tolerant comparison of texts,    *)
(* the verdict on a harness result, and the cases as the client gets them. *)
(*                                                                         *)
(* A text is a sequence of characters: "sp" is a space or a tab, "cr" and  *)
(* "nl" are themselves, and the others are not told apart from one another *)
(* except by being different.                                              *)
(***************************************************************************)
EXTENDS Integers, Sequences

CONSTANTS
  Character,   \* what texts are made of
  NoCase,      \* the empty id of a case
  NoError,     \* no exception
  SyntaxError  \* the one of code that is no Python

ASSUME CharacterAssumption == {"sp", "cr", "nl"} \subseteq Character

-----------------------------------------------------------------------------
(* The comparison of texts                                                 *)

Text == Seq(Character)
Lines == Seq(Text)

\* A "\r\n" stands at position i.
CrNl(s, i) == i < Len(s) /\ s[i] = "cr" /\ s[i + 1] = "nl"

\* ReplaceAll(s, "\r\n", "\n").
UnixLines[s \in Text] ==
  IF s = <<>> THEN <<>>
  ELSE LET rest == UnixLines[Tail(s)] IN
       IF CrNl(s, 1) THEN rest ELSE <<Head(s)>> \o rest

\* Split(s, "\n").
Split[s \in Text] ==
  IF s = <<>> THEN <<<<>>>>
  ELSE LET rest == Split[Tail(s)] IN
       IF Head(s) = "nl" THEN <<<<>>>> \o rest
       ELSE <<<<Head(s)>> \o Head(rest)>> \o Tail(rest)

\* TrimRight(l, " \t").
TrimRight[l \in Text] ==
  IF l = <<>> THEN <<>>
  ELSE LET rest == TrimRight[Tail(l)] IN
       IF rest = <<>> /\ Head(l) = "sp" THEN <<>> ELSE <<Head(l)>> \o rest

\* Without the empty lines at the end.
DropEmpty[ls \in Lines] ==
  IF ls = <<>> THEN <<>>
  ELSE LET rest == DropEmpty[Tail(ls)] IN
       IF rest = <<>> /\ Head(ls) = <<>> THEN <<>> ELSE <<Head(ls)>> \o rest

\* Join(lines, "\n").
Join[ls \in Lines] ==
  IF ls = <<>> THEN <<>>
  ELSE LET rest == Join[Tail(ls)] IN
       IF Tail(ls) = <<>> THEN Head(ls) ELSE Head(ls) \o <<"nl">> \o rest

TrimLines(ls) == [i \in DOMAIN ls |-> TrimRight[ls[i]]]

\* Mutant: trailing blank lines are dropped before blanks are trimmed.
NormalizeEarly(s) == Join[TrimLines(DropEmpty[Split[UnixLines[s]]])]

Normalize(s) == Join[DropEmpty[TrimLines(Split[UnixLines[s]])]]

Equal(want, got, strict) == IF strict THEN want = got ELSE Normalize(want) = Normalize(got)

-----------------------------------------------------------------------------
(* The specification of a run                                              *)

\* Every case of the exercise, with the files to collect.
SubmitSpec(ex) ==
  [limit |-> ex.limit,
   cases |-> [i \in DOMAIN ex.cases |->
               [id |-> ex.cases[i].id, collect |-> DOMAIN ex.cases[i].expectFiles]]]

\* One case with the student's own input; nothing is collected.
RunSpec(ex) == [limit |-> ex.limit, cases |-> <<[id |-> "run", collect |-> {}]>>]

-----------------------------------------------------------------------------
(* The verdict                                                             *)

Ran(res, c) == \E i \in DOMAIN res.cases : res.cases[i].id = c.id

\* byID: the last result with the id of the case.
ResultOf(res, c) ==
  res.cases[CHOOSE i \in DOMAIN res.cases :
    res.cases[i].id = c.id /\ \A j \in DOMAIN res.cases : res.cases[j].id = c.id => j <= i]

filesMatch(c, r) ==
  \A p \in DOMAIN c.expectFiles :
    p \in DOMAIN r.files /\ Equal(c.expectFiles[p], r.files[p], c.strict)

CasePassed(c, r) ==
  ~r.timedOut /\ r.exit = 0 /\ Equal(c.stdout, r.stdout, c.strict) /\ filesMatch(c, r)

Passed(c, res) == Ran(res, c) /\ CasePassed(c, ResultOf(res, c))

\* What the first failing case makes of the attempt.
OutcomeOf(c, res) ==
  IF ~Ran(res, c) THEN "infra_error"
  ELSE IF ResultOf(res, c).timedOut THEN "timeout"
  ELSE IF ResultOf(res, c).exit # 0 THEN "runtime_error" ELSE "failed"

\* The exception that comes with it.
ErrorOf(c, res) ==
  IF OutcomeOf(c, res) = "runtime_error" THEN ResultOf(res, c).error ELSE NoError

\* "First failure decides the outcome and the hint target."
Deciding(failing) == CHOOSE i \in failing : \A j \in failing : i <= j

Verdict(outcome, failing, cases, error) ==
  [outcome |-> outcome, failing |-> failing, cases |-> cases, error |-> error]

Evaluate(ex, res) ==
  LET c == ex.cases
      failing == {i \in DOMAIN c : res.syntaxError \/ ~Passed(c[i], res)}
      cases == [i \in DOMAIN c |->
                 [id |-> c[i].id, hidden |-> c[i].hidden, passed |-> i \notin failing]] IN
  IF res.syntaxError
  THEN Verdict("syntax_error", IF c = <<>> THEN NoCase ELSE c[1].id, cases, SyntaxError)
  ELSE IF failing = {} THEN Verdict("passed", NoCase, cases, NoError)
  ELSE LET first == c[Deciding(failing)] IN
       Verdict(OutcomeOf(first, res), first.id, cases, ErrorOf(first, res))

\* A free run has no expected output.
RunOutcome(res) ==
  IF res.syntaxError THEN "syntax_error"
  ELSE IF res.cases = <<>> THEN "infra_error"
  ELSE IF res.cases[1].timedOut THEN "timeout"
  ELSE IF res.cases[1].exit # 0 THEN "runtime_error" ELSE "passed"

\* The exception that RunOutcome returns with it.
RunError(res) ==
  IF RunOutcome(res) = "syntax_error" THEN SyntaxError
  ELSE IF RunOutcome(res) = "runtime_error" THEN res.cases[1].error ELSE NoError

\* Mutant: every failing visible case is revealed.
RevealedAll(cases) == {i \in DOMAIN cases : ~cases[i].passed /\ ~cases[i].hidden}

\* casesJSON reveals input, expected and actual "only for the first failing
\* visible case".
Revealed(cases) ==
  LET open == {i \in DOMAIN cases : ~cases[i].passed /\ ~cases[i].hidden} IN
  {i \in open : \A j \in open : i <= j}

-----------------------------------------------------------------------------
(* A reference for the comparison                                          *)

\* Nothing but blanks stands from the start of s to the end of its line.
BlankToEnd(s) ==
  \E k \in 1..Len(s) + 1 :
    /\ \A j \in 1..k - 1 : s[j] = "sp"
    /\ k = Len(s) + 1 \/ s[k] = "nl" \/ CrNl(s, k)

\* Something other than blanks and line ends stands in s.
Solid(s) == \E j \in 1..Len(s) : s[j] \notin {"sp", "nl"} /\ ~CrNl(s, j)

\* The first character of s counts in a tolerant comparison: it is not the
\* "\r" of a "\r\n", no blank at the end of a line, and no line end behind
\* which only line ends and blanks follow.
FirstCounts(s) ==
  /\ ~CrNl(s, 1)
  /\ Head(s) = "sp" => ~BlankToEnd(s)
  /\ Head(s) = "nl" => Solid(s)

\* The characters of s that count, each by what follows it.
Counting[s \in Text] ==
  IF s = <<>> THEN <<>>
  ELSE LET rest == Counting[Tail(s)] IN
       IF FirstCounts(s) THEN <<Head(s)>> \o rest ELSE rest

SameText(s, t, strict) == IF strict THEN s = t ELSE Counting[s] = Counting[t]

=============================================================================

--------------------------- MODULE MCLocalRunner ---------------------------
EXTENDS LocalRunner, TLC

CONSTANTS submit, run

AttemptMode == [a \in {submit, run} |-> IF a = run THEN "run" ELSE "submit"]

-----------------------------------------------------------------------------
(* Programs: right, right but for blanks, and wrong; with and without the  *)
(* file, and failing with a traceback and without one (sys.exit).          *)

NoFiles == <<>>
File(s) == [p \in {"f"} |-> s]
Does(stdout, files) ==
  [timedOut |-> FALSE, exit |-> 0, error |-> NoError, stdout |-> stdout, files |-> files]
Fails(b, error) == [b EXCEPT !.exit = 1, !.error = error]
Plain == Does(<<"a", "nl">>, File(<<"a">>))
WrongOutput == Does(<<"b">>, File(<<"b">>))

Behaviours ==
  {Plain, Does(<<"a", "sp", "cr", "nl", "nl">>, NoFiles), WrongOutput,
   Fails(Plain, "ValueError"), Fails(WrongOutput, NoError)}

-----------------------------------------------------------------------------
(* Content: one thing at a time is varied in a sound tree.                 *)

Case(id, hidden) ==
  [id |-> id, hidden |-> hidden, strict |-> FALSE, stdout |-> <<"a", "nl">>, expectFiles |-> NoFiles]
StrictCase == [Case("c1", FALSE) EXCEPT !.strict = TRUE]
FileCase == [Case("c2", FALSE) EXCEPT !.expectFiles = File(<<"a", "nl">>)]

Cases == {Case(id, hidden) : id \in {Empty, "c1", "c2"}, hidden \in BOOLEAN}
CaseLists ==
  {<<>>, <<StrictCase, FileCase>>} \cup {<<c>> : c \in Cases} \cup {<<Case("c1", FALSE), c>> : c \in Cases}
  \cup {<<Case("c1", TRUE), c>> : c \in Cases}

Hint(id, test, flag, hinglish, en) ==
  [id |-> id, outcome |-> Empty, exception |-> Empty, message |-> Empty, test |-> test,
   flag |-> flag, hinglish |-> hinglish, en |-> en]
GoodHint == Hint("h1", "c1", Empty, "text", "text")
HintLists ==
  {<<Hint("h1", test, Empty, "text", en)>> : test \in {Empty, "c1", "c2"}, en \in {Empty, "text"}}
  \cup {<<Hint("h1", "c1", flag, hinglish, Empty)>> : flag \in {"known", "other"}, hinglish \in {Empty, "text"}}
  \cup {<<GoodHint, Hint(id, "c1", Empty, Empty, "text")>> : id \in {Empty, "h1", "h2"}}
  \cup {<<[GoodHint EXCEPT !.message = BadRegex]>>, <<[GoodHint EXCEPT !.outcome = "passed"]>>}

TestsOf(cases) == [yaml |-> TRUE, limit |-> 1, cases |-> cases]
Dir(id, slug, cases, hints) ==
  [md |-> TRUE, meta |-> TRUE, programs |-> TRUE, id |-> id, slug |-> slug,
   tests |-> TestsOf(cases), hintsYaml |-> TRUE, hints |-> hints]
Base == Dir(Empty, "x", <<Case("c1", FALSE)>>, <<>>)
Other(id) == Dir(id, "y", <<Case("c2", FALSE)>>, <<>>)

X == <<"t1", "x">>
Y == <<"t1", "y">>

DirLists ==
  {<<Dir(Empty, "x", c, <<>>)>> : c \in CaseLists}
  \cup {<<Dir(Empty, "x", <<Case("c1", FALSE)>>, h)>> : h \in HintLists}
  \cup {<<Base, Other(id)>> : id \in {Empty, X, Y, <<"t2", "y">>}}
  \cup {<<[Base EXCEPT !.tests.limit = l]>> : l \in {0, 3}}
  \cup {<<[Base EXCEPT !.md = FALSE]>>, <<[Base EXCEPT !.meta = FALSE]>>, <<[Base EXCEPT !.programs = FALSE]>>,
        <<[Base EXCEPT !.tests.yaml = FALSE]>>, <<[Base EXCEPT !.hintsYaml = FALSE]>>}

Unit(id, exercises, mustPass) == [id |-> id, exercises |-> exercises, mustPass |-> mustPass]
UnitLists ==
  {<<>>} \cup {<<Unit(id, {X}, {X}), Unit("u2", listed, must)>> :
    id \in {Empty, "u1", "u2"}, listed \in {{X}, {X, Y}}, must \in {{}, {Y}}}

Track(yaml, id, dirs, units) == [dir |-> "t1", yaml |-> yaml, id |-> id, dirs |-> dirs, units |-> units]
Trees ==
  {<<Track("ok", Empty, d, <<Unit("u1", {X}, {X})>>)>> : d \in DirLists}
  \cup {<<Track("ok", "t1", <<Base>>, u)>> : u \in UnitLists}
  \cup {<<Track(y, id, <<Base>>, <<>>)>> : y \in {"ok", "absent", "broken"}, id \in {"t1", "t2"}}

=============================================================================

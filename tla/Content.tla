------------------------------ MODULE Content -------------------------------
(***************************************************************************)
(* The exercise library (internal/content): what content.Load makes of the *)
(* content tree, and the faults for which serve and validate refuse it.    *)
(*                                                                         *)
(* A tree is the sequence of the track directories in the order of their   *)
(* names; an exercise's id "<track>/<slug>" is a pair.  A fault is a pair  *)
(* of what is wrong and where; its wording is left out.                    *)
(***************************************************************************)
EXTENDS Integers, Sequences

CONSTANTS
  Empty,                 \* the empty string, and an id that is not set
  KnownFlags,            \* what the harness can flag
  BadRegex,              \* a message matcher that does not compile
  MinLimit, MaxLimit,    \* 100..5000 ms
  DefaultLimit           \* 2000 ms

ASSUME LimitsOfTime ==
  /\ MinLimit \in Nat \ {0} /\ MaxLimit \in Nat
  /\ DefaultLimit \in MinLimit..MaxLimit

validOutcomes == {"failed", "runtime_error", "syntax_error", "timeout"}
Lang == {"en", "hinglish"}

FaultIf(b, what) == IF b THEN {<<what, 0>>} ELSE {}

\* The time limit in force: one that is not set is the default.
LimitOf(tests) == IF tests.limit = 0 THEN DefaultLimit ELSE tests.limit

Named(list) == {i \in DOMAIN list : list[i].id # Empty}

\* Mutant: ids are not compared.
NoRepeats(list) == {}

\* The entries with the id of an earlier one; entries with no id are skipped.
Repeated(list) ==
  {i \in Named(list) : \E j \in Named(list) : j < i /\ list[j].id = list[i].id}

\* "At least one case, unique ids, a sane time limit, and at least one visible
\* case"; a case with no id does not count as visible.
checkTests(tests) ==
  LET c == tests.cases IN
  FaultIf(c = <<>>, "no_case")
  \cup FaultIf(LimitOf(tests) \notin MinLimit..MaxLimit, "time_limit")
  \cup {<<"no_case_id", i>> : i \in DOMAIN c \ Named(c)}
  \cup {<<"duplicate_case", i>> : i \in Repeated(c)}
  \cup FaultIf(c # <<>> /\ \A i \in Named(c) : c[i].hidden, "none_visible")

\* One matcher at least, that makes sense for these cases, and a text.
FaultyHint(h, ids) ==
  \/ Empty = h.outcome /\ Empty = h.exception /\ Empty = h.message /\ Empty = h.test /\ Empty = h.flag
  \/ h.outcome \notin validOutcomes \cup {Empty}
  \/ h.message = BadRegex
  \/ h.test \notin ids \cup {Empty}
  \/ h.hinglish = Empty /\ h.en = Empty

checkHints(hints, cases) ==
  LET ids == {cases[i].id : i \in DOMAIN cases} IN
  {<<"no_hint_id", i>> : i \in DOMAIN hints \ Named(hints)}
  \cup {<<"duplicate_hint", i>> : i \in Repeated(hints)}
  \cup {<<"faulty_hint", i>> : i \in {i \in Named(hints) : FaultyHint(hints[i], ids)}}

\* The id of an exercise, by default that of its directory.
IdOf(d, track) == IF d.id = Empty THEN <<track, d.slug>> ELSE d.id

\* The faults of one exercise directory; those behind an exercise.md that does
\* not parse are not looked for.  md, meta, programs and yaml say whether the
\* files and the fields that nothing else depends on are in order.
loadExercise(d, track) ==
  IF ~d.md THEN {<<"exercise_md", 0>>}
  ELSE FaultIf(IdOf(d, track)[1] # track, "id_prefix")
       \cup FaultIf(~d.meta, "title_or_difficulty")
       \cup FaultIf(~d.programs, "starter_or_solution")
       \cup (IF d.tests.yaml THEN checkTests(d.tests) ELSE {<<"tests_yaml", 0>>})
       \cup (IF d.hintsYaml THEN checkHints(d.hints, d.tests.cases) ELSE {<<"hints_yaml", 0>>})

\* The exercise as it is registered.
ExerciseOf(d, track) ==
  [id |-> IdOf(d, track), cases |-> d.tests.cases, limit |-> LimitOf(d.tests), hints |-> d.hints]

\* The directories of a track without a fault of their own.
Sound(t) == {i \in DOMAIN t.dirs : loadExercise(t.dirs[i], t.dir) = {}}

\* Sound, but an earlier one was registered under the same id.
Duplicates(t) ==
  {i \in Sound(t) :
     \E j \in Sound(t) : j < i /\ IdOf(t.dirs[j], t.dir) = IdOf(t.dirs[i], t.dir)}

\* Mutant: a duplicate is dropped and not reported.
DropDuplicates(t) ==
  UNION {loadExercise(t.dirs[i], t.dir) : i \in DOMAIN t.dirs}

loadExercises(t) ==
  (UNION {loadExercise(t.dirs[i], t.dir) : i \in DOMAIN t.dirs})
  \cup {<<"duplicate_exercise", i>> : i \in Duplicates(t)}

Tracks(tree) == {t \in DOMAIN tree : tree[t].yaml = "ok"}

Exercises(tree) ==
  UNION {{ExerciseOf(tree[t].dirs[i], tree[t].dir) : i \in Sound(tree[t]) \ Duplicates(tree[t])} :
         t \in Tracks(tree)}

\* Every exercise a unit lists exists, and must_pass is among them; a unit with
\* no id is not looked into.
checkReferences(t, ids) ==
  {<<"no_unit_id", i>> : i \in DOMAIN t.units \ Named(t.units)}
  \cup {<<"duplicate_unit", i>> : i \in Repeated(t.units)}
  \cup {<<"unknown_exercise", i>> : i \in {i \in Named(t.units) : ~(t.units[i].exercises \subseteq ids)}}
  \cup {<<"must_pass", i>> :
        i \in {i \in Named(t.units) : ~(t.units[i].mustPass \subseteq t.units[i].exercises)}}

\* The errors that Load returns together.  A directory without track.yaml is
\* not a track; one whose track.yaml does not parse is not looked into.
LoadFaults(tree) ==
  {<<"track_yaml", t>> : t \in {t \in DOMAIN tree : tree[t].yaml = "broken"}}
  \cup {<<"track_id", t>> : t \in {t \in Tracks(tree) : tree[t].id \notin {Empty, tree[t].dir}}}
  \cup UNION {loadExercises(tree[t]) \cup
              checkReferences(tree[t], {e.id : e \in Exercises(tree)}) : t \in Tracks(tree)}

CheckFlags(tree) ==
  {e.id : e \in {e \in Exercises(tree) :
     \E i \in DOMAIN e.hints : e.hints[i].flag \notin KnownFlags \cup {Empty}}}

\* serve and validate go on with this tree.
Accepted(tree) == LoadFaults(tree) = {} /\ CheckFlags(tree) = {}

\* A hint in a language, or what there is in another.
TextIn(h, lang) ==
  IF lang = "hinglish" /\ h.hinglish # Empty THEN h.hinglish
  ELSE IF h.en # Empty THEN h.en ELSE h.hinglish

\* The outline of handleTracks: what a unit shows of the exercises it lists.
Outline(lib, unit) == {e \in lib : e.id \in unit.exercises}

VisibleCases(e) == {i \in DOMAIN e.cases : ~e.cases[i].hidden}

=============================================================================

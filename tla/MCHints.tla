------------------------------ MODULE MCHints -------------------------------
EXTENDS Hints, TLC

CONSTANTS d1, s1, m1, first, second, question

\* An anonymous student asks twice about one mistake, and a student who is
\* signed in asks a question about the same.
AskSet == {first, second, question}
AskOwner == [r \in AskSet |-> IF r = question THEN s1 ELSE d1]
AskMistake == [r \in AskSet |-> m1]

\* The two asks are interchangeable.
Symmetry == Permutations({first, second})

=============================================================================

------------------------- MODULE SequenceRecursion -------------------------
(***************************************************************************)
(* Induction over sequences and recursion on their tails, stated of sets   *)
(* and of functions rather than of operators: a property is the set of     *)
(* what has it, the step of a recursion a function.                        *)
(***************************************************************************)
EXTENDS Integers, Sequences, FiniteSetTheorems, SequenceTheorems, TLAPS

\* Induction on the natural numbers: a set that holds 0, and with a number the
\* next one, holds them all.  The least number that it does not hold is found
\* among the finite intervals 0..n, ordered by inclusion.
LEMMA Induction ==
  ASSUME NEW S, 0 \in S, \A n \in Nat : n \in S => n + 1 \in S
  PROVE  Nat \subseteq S
<1>1. SUFFICES ASSUME NEW k \in Nat \ S PROVE FALSE
  OBVIOUS
<1> DEFINE X == {0..n : n \in Nat \ S}
           R == StrictSubsetOrdering(Nat)
<1>2. IsWellFoundedOn(R, FiniteSubsetsOf(Nat))
  BY FS_StrictSubsetOrderingWellFounded
<1>3. X \subseteq FiniteSubsetsOf(Nat) /\ X # {}
  <2>1. \A n \in Nat : IsFiniteSet(0..n) /\ 0..n \subseteq Nat
    BY FS_Interval
  <2> QED BY <1>1, <2>1 DEF FiniteSubsetsOf
<1>4. \A A, B \in SUBSET Nat : A \subseteq B /\ A # B => <<A, B>> \in R
  BY DEF StrictSubsetOrdering
<1>5. \E A \in X : \A B \in X : ~(<<B, A>> \in R)
  <2> HIDE DEF X, R
  <2> QED BY <1>2, <1>3, WFMin
<1>6. PICK n \in Nat \ S : \A m \in Nat \ S : ~(<<0..m, 0..n>> \in R)
  BY <1>5
<1>7. n # 0 /\ n - 1 \in Nat \ S
  BY <1>6
<1>8. /\ 0..(n - 1) \in SUBSET Nat /\ 0..n \in SUBSET Nat
      /\ 0..(n - 1) \subseteq 0..n /\ 0..(n - 1) # 0..n
  BY <1>7
<1> QED
  <2> HIDE DEF X, R
  <2> QED BY <1>4, <1>6, <1>7, <1>8

\* A set of natural numbers that is not empty has a least member.
LEMMA LeastNumber ==
  ASSUME NEW S \in SUBSET Nat, S # {}
  PROVE  \E n \in S : \A m \in S : n <= m
<1> DEFINE Below == {n \in Nat : \A m \in S : n <= m}
<1>1. SUFFICES ASSUME \A n \in S : n \notin Below PROVE FALSE
  OBVIOUS
<1>2. 0 \in Below
  OBVIOUS
<1>3. ASSUME NEW n \in Nat, n \in Below PROVE n + 1 \in Below
  <2>1. n \notin S
    BY <1>1, <1>3
  <2>2. ASSUME NEW m \in S PROVE n + 1 <= m
    <3>1. n <= m /\ n # m /\ m \in Nat
      BY <1>3, <2>1
    <3> QED BY <3>1
  <2> QED BY <2>2
<1> HIDE DEF Below
<1>4. Nat \subseteq Below
  BY <1>2, <1>3, Induction
<1> QED BY <1>1, <1>4

\* Induction on sequences: a set that holds the empty sequence, and with the
\* tail of a sequence the sequence, holds every sequence.
LEMMA TailInduction ==
  ASSUME NEW C, NEW S, <<>> \in S,
         \A s \in Seq(C) : s # <<>> /\ Tail(s) \in S => s \in S
  PROVE  Seq(C) \subseteq S
<1> DEFINE N == {n \in Nat : \A s \in Seq(C) : Len(s) = n => s \in S}
<1>1. 0 \in N
  <2>1. \A s \in Seq(C) : Len(s) = 0 => s = <<>>
    OBVIOUS
  <2> QED BY <2>1
<1>2. ASSUME NEW n \in Nat, n \in N PROVE n + 1 \in N
  <2>1. SUFFICES ASSUME NEW s \in Seq(C), Len(s) = n + 1 PROVE s \in S
    OBVIOUS
  <2>2. s # <<>> /\ Tail(s) \in Seq(C) /\ Len(Tail(s)) = n
    BY <2>1
  <2>3. Tail(s) \in S
    BY <1>2, <2>2
  <2> QED BY <2>2, <2>3
<1>3. Nat \subseteq N
  <2> HIDE DEF N
  <2> QED BY <1>1, <1>2, Induction
<1>4. \A s \in Seq(C) : Len(s) \in Nat
  OBVIOUS
<1> QED BY <1>3, <1>4

\* A function with the value e at the empty sequence, and D of the sequence and
\* of the value at its tail at every other one.
TailStep(C, V) == [Seq(C) \ {<<>>} -> [V -> V]]

TailRecursive(f, C, V, e, D) ==
  /\ f \in [Seq(C) -> V]
  /\ f[<<>>] = e
  /\ \A s \in Seq(C) \ {<<>>} : f[s] = D[s][f[Tail(s)]]

\* Recursion on the tail of a sequence: there is such a function.  It is pieced together from the functions that have these
\* values up to a length, which agree where they do.
LEMMA TailRecursion ==
  ASSUME NEW C, NEW V, NEW e \in V, NEW D \in TailStep(C, V)
  PROVE  \E f : TailRecursive(f, C, V, e, D)
<1> USE DEF TailStep
<1> DEFINE Value(f, s) == IF s = <<>> THEN e ELSE D[s][f[Tail(s)]]
           UpTo(f, n) == \A s \in Seq(C) : Len(s) <= n => f[s] = Value(f, s)
           F == [Seq(C) -> V]
<1>1. \A s \in Seq(C) \ {<<>>} :
        Tail(s) \in Seq(C) /\ Len(Tail(s)) \in Nat /\ Len(Tail(s)) + 1 = Len(s)
  OBVIOUS
<1>2. \A f \in F, s \in Seq(C) : Value(f, s) \in V
  BY <1>1
<1>3. \A s \in Seq(C) : Len(s) \in Nat
  OBVIOUS
<1>4. ASSUME NEW f \in F, NEW g \in F, NEW m \in Nat, NEW n \in Nat, UpTo(f, m), UpTo(g, n)
      PROVE  \A s \in Seq(C) : Len(s) <= m /\ Len(s) <= n => f[s] = g[s]
  <2> DEFINE S == {s \in Seq(C) : Len(s) <= m /\ Len(s) <= n => f[s] = g[s]}
  <2>1. <<>> \in S
    <3>1. Len(<<>>) <= m /\ Len(<<>>) <= n
      OBVIOUS
    <3>2. <<>> \in Seq(C)
      OBVIOUS
    <3>3. f[<<>>] = e /\ g[<<>>] = e
      BY <1>4, <3>1, <3>2
    <3> QED BY <3>2, <3>3
  <2>2. ASSUME NEW s \in Seq(C), s # <<>>, Tail(s) \in S PROVE s \in S
    <3>1. SUFFICES ASSUME Len(s) <= m, Len(s) <= n PROVE f[s] = g[s]
      OBVIOUS
    <3>2. Len(Tail(s)) <= m /\ Len(Tail(s)) <= n
      BY <1>1, <2>2, <3>1
    <3>3. f[Tail(s)] = g[Tail(s)]
      BY <2>2, <3>2
    <3>4. f[s] = D[s][f[Tail(s)]] /\ g[s] = D[s][g[Tail(s)]]
      BY <1>4, <2>2, <3>1
    <3> QED BY <3>3, <3>4
  <2>3. Seq(C) \subseteq S
    <3> HIDE DEF S
    <3> QED BY <2>1, <2>2, TailInduction
  <2> QED BY <2>3
<1> DEFINE N == {n \in Nat : \E f \in F : UpTo(f, n)}
<1>5. 0 \in N
  <2> DEFINE f == [s \in Seq(C) |-> e]
  <2>1. f \in F
    OBVIOUS
  <2>2. \A s \in Seq(C) : Len(s) <= 0 => s = <<>>
    OBVIOUS
  <2>3. UpTo(f, 0)
    BY <2>2
  <2> QED BY <2>1, <2>3
<1>6. ASSUME NEW n \in Nat, n \in N PROVE n + 1 \in N
  <2>1. PICK f \in F : UpTo(f, n)
    BY <1>6
  <2> DEFINE g == [s \in Seq(C) |-> Value(f, s)]
  <2>2. g \in F
    BY <1>2
  <2>3. ASSUME NEW s \in Seq(C), Len(s) <= n + 1 PROVE g[s] = Value(g, s)
    <3>1. CASE s = <<>>
      BY <3>1
    <3>2. CASE s # <<>>
      <4>1. Tail(s) \in Seq(C) /\ Len(Tail(s)) <= n
        BY <1>1, <2>3, <3>2
      <4>2. f[Tail(s)] = g[Tail(s)]
        BY <2>1, <4>1
      <4> QED BY <3>2, <4>2
    <3> QED BY <3>1, <3>2
  <2>4. UpTo(g, n + 1)
    <3> HIDE DEF g, Value
    <3> QED BY <2>3
  <2>5. \E p \in F : UpTo(p, n + 1)
    <3> HIDE DEF g, UpTo, F
    <3> QED BY <2>2, <2>4
  <2> QED
    <3> HIDE DEF UpTo, F, g
    <3> QED BY <2>5
<1>7. Nat \subseteq N
  <2> HIDE DEF N
  <2> QED BY <1>5, <1>6, Induction
<1> DEFINE P == [n \in Nat |-> CHOOSE f \in F : UpTo(f, n)]
<1>8. \A n \in Nat : P[n] \in F /\ UpTo(P[n], n)
  <2>1. \A n \in Nat : \E f \in F : UpTo(f, n)
    BY <1>7
  <2> HIDE DEF UpTo, F
  <2> QED BY <2>1
<1> HIDE DEF P, N
<1> DEFINE h == [s \in Seq(C) |-> P[Len(s)][s]]
<1>9. h \in F
  BY <1>3, <1>8
<1>10. h[<<>>] = e
  <2>1. <<>> \in Seq(C) /\ Len(<<>>) = 0
    OBVIOUS
  <2>2. UpTo(P[0], 0)
    <3> HIDE DEF UpTo
    <3> QED BY <1>8
  <2>3. Len(<<>>) <= 0
    BY <2>1
  <2>4. P[0][<<>>] = Value(P[0], <<>>)
    <3> HIDE DEF Value
    <3> QED BY <2>1, <2>2, <2>3
  <2>5. P[0][<<>>] = e
    BY <2>4
  <2> QED BY <2>1, <2>5
<1>11. ASSUME NEW s \in Seq(C) \ {<<>>} PROVE h[s] = D[s][h[Tail(s)]]
  <2>1. P[Len(s)][s] = D[s][P[Len(s)][Tail(s)]]
    BY <1>3, <1>8
  <2> DEFINE m == Len(s)
             t == Tail(s)
             k == Len(t)
  <2>2. m \in Nat /\ t \in Seq(C) /\ k \in Nat /\ k <= m
    BY <1>1, <1>3
  <2>3. P[m][t] = P[k][t]
    <3>1. P[m] \in F /\ UpTo(P[m], m) /\ P[k] \in F /\ UpTo(P[k], k)
      BY <1>8, <2>2
    <3> HIDE DEF UpTo, F, m, t
    <3>2. \A u \in Seq(C) : Len(u) <= m /\ Len(u) <= k => P[m][u] = P[k][u]
      BY <1>4, <2>2, <3>1
    <3> QED BY <2>2, <3>2
  <2> QED BY <2>1, <2>2, <2>3
<1> QED
  <2> HIDE DEF h
  <2> QED BY <1>9, <1>10, <1>11 DEF TailRecursive

\* Functions that agree at the empty sequence, and at a sequence if they do at
\* its tail, agree.
AgreeByTail(f, g, C) ==
  /\ f[<<>>] = g[<<>>]
  /\ \A s \in Seq(C) \ {<<>>} : f[Tail(s)] = g[Tail(s)] => f[s] = g[s]

Agree(f, g, S) == \A s \in S : f[s] = g[s]

\* Functions that agree on a sequence if they do on its tail are the same.
LEMMA SameByTail ==
  ASSUME NEW C, NEW f, NEW g, AgreeByTail(f, g, C)
  PROVE  Agree(f, g, Seq(C))
<1> DEFINE S == {s \in Seq(C) : f[s] = g[s]}
<1>1. <<>> \in S
  BY EmptySeq DEF AgreeByTail
<1>2. \A s \in Seq(C) : s # <<>> /\ Tail(s) \in S => s \in S
  BY DEF AgreeByTail
<1>3. Seq(C) \subseteq S
  <2> HIDE DEF S
  <2> QED BY <1>1, <1>2, TailInduction
<1> QED BY <1>3 DEF Agree

\* An element before a sequence.
Cons(x, s) == <<x>> \o s

\* That is a sequence, of which the element is the head.
LEMMA ConsFacts ==
  ASSUME NEW C, NEW x \in C, NEW s \in Seq(C)
  PROVE  /\ Cons(x, s) \in Seq(C)
         /\ Cons(x, s) # <<>>
         /\ Head(Cons(x, s)) = x
         /\ Tail(Cons(x, s)) = s
         /\ Len(Cons(x, s)) = Len(s) + 1
         /\ Len(s) \in Nat
         /\ Cons(x, s)[1] = x
         /\ \A i \in 1..Len(s) : Cons(x, s)[i + 1] = s[i]
<1> DEFINE t == <<x>> \o s
<1>1. t \in Seq(C) /\ Len(t) = Len(s) + 1 /\ Len(s) \in Nat
  OBVIOUS
<1>2. t # <<>> /\ t[1] = x
  OBVIOUS
<1>3. \A i \in 1..Len(s) : t[i + 1] = s[i]
  OBVIOUS
<1>4. Head(t) = x
  BY <1>1, <1>2
<1>5. Tail(t) = s
  <2>1. Tail(t) \in Seq(C) /\ Len(Tail(t)) = Len(s)
        /\ \A i \in 1..Len(Tail(t)) : Tail(t)[i] = t[i + 1]
    <3> HIDE DEF t
    <3> QED BY <1>1, <1>2, HeadTailProperties
  <2> HIDE DEF t
  <2> QED BY <2>1, <1>3, SeqEqual
<1> QED BY <1>1, <1>2, <1>3, <1>4, <1>5 DEF Cons

\* A sequence that is not empty is its head before its tail.
LEMMA ConsHeadTail ==
  ASSUME NEW C, NEW s \in Seq(C), s # <<>>
  PROVE  Head(s) \in C /\ Tail(s) \in Seq(C) /\ s = Cons(Head(s), Tail(s))
<1>1. /\ Head(s) \in C /\ Tail(s) \in Seq(C) /\ Len(Tail(s)) = Len(s) - 1
      /\ \A i \in 1..Len(Tail(s)) : Tail(s)[i] = s[i + 1]
  BY HeadTailProperties
<1> DEFINE t == Cons(Head(s), Tail(s))
<1>2. /\ t \in Seq(C) /\ Len(t) = Len(Tail(s)) + 1 /\ t[1] = Head(s)
      /\ \A i \in 1..Len(Tail(s)) : t[i + 1] = Tail(s)[i]
  <2> DEFINE h == Head(s)
             u == Tail(s)
  <2> HIDE DEF h, u
  <2>1. h \in C /\ u \in Seq(C)
    BY <1>1 DEF h, u
  <2>2. /\ Cons(h, u) \in Seq(C) /\ Len(Cons(h, u)) = Len(u) + 1 /\ Cons(h, u)[1] = h
        /\ \A i \in 1..Len(u) : Cons(h, u)[i + 1] = u[i]
    BY <2>1, ConsFacts
  <2> QED BY <2>2 DEF h, u
<1>3. Len(s) \in Nat /\ Len(s) # 0 /\ Len(t) = Len(s)
  BY <1>1, <1>2
<1>4. \A i \in 1..Len(s) : s[i] = t[i]
  <2>1. SUFFICES ASSUME NEW i \in 1..Len(s) PROVE s[i] = t[i]
    OBVIOUS
  <2>2. CASE i = 1
    BY <1>2, <2>2
  <2>3. CASE i # 1
    <3>1. i - 1 \in 1..Len(Tail(s)) /\ (i - 1) + 1 = i
      BY <1>1, <1>3, <2>3
    <3>2. Tail(s)[i - 1] = s[(i - 1) + 1] /\ t[(i - 1) + 1] = Tail(s)[i - 1]
      BY <1>1, <1>2, <3>1
    <3> QED BY <3>1, <3>2
  <2> QED BY <2>2, <2>3
<1>5. s = t
  <2> HIDE DEF t
  <2> QED BY <1>2, <1>3, <1>4, SeqEqual
<1> QED BY <1>1, <1>5

\* The two lemmas above in terms of what stands before what.
LEMMA ConsInduction ==
  ASSUME NEW C, NEW S, <<>> \in S,
         \A x \in C, s \in Seq(C) : s \in S => Cons(x, s) \in S
  PROVE  Seq(C) \subseteq S
<1>1. ASSUME NEW s \in Seq(C), s # <<>>, Tail(s) \in S PROVE s \in S
  <2>1. Head(s) \in C /\ Tail(s) \in Seq(C) /\ s = Cons(Head(s), Tail(s))
    BY <1>1, ConsHeadTail
  <2> QED BY <1>1, <2>1
<1> QED BY <1>1, TailInduction

=============================================================================

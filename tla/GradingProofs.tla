--------------------------- MODULE GradingProofs ---------------------------
(***************************************************************************)
(* What the tolerant comparison computes, for texts of every length: the   *)
(* text that Normalize leaves are the characters that count.               *)
(***************************************************************************)
EXTENDS Grading, SequenceRecursion

-----------------------------------------------------------------------------
(* The functions of Grading satisfy their own equations                    *)

\* Texts and lists of lines, put together and taken apart.
LEMMA TextParts ==
  /\ <<>> \in Text
  /\ \A s \in Text \ {<<>>} :
       Head(s) \in Character /\ Tail(s) \in Text /\ s = Cons(Head(s), Tail(s))
  /\ \A c \in Character, s \in Text : Cons(c, s) \in Text
  /\ \A s, t \in Text : s \o t \in Text
  /\ <<"nl">> \in Text
<1>1. \A s \in Text \ {<<>>} :
       Head(s) \in Character /\ Tail(s) \in Text /\ s = Cons(Head(s), Tail(s))
  BY ConsHeadTail DEF Text
<1>2. \A c \in Character, s \in Text : Cons(c, s) \in Text
  BY ConsFacts DEF Text
<1>3. \A s, t \in Text : s \o t \in Text
  BY ConcatProperties DEF Text
<1>4. <<"nl">> \in Text
  BY CharacterAssumption DEF Text
<1> QED BY <1>1, <1>2, <1>3, <1>4, EmptySeq DEF Text

\* The same of lists of lines: a list that is not empty is a line before a list.
LEMMA LineParts ==
  /\ <<>> \in Lines
  /\ \A ls \in Lines \ {<<>>} :
       Head(ls) \in Text /\ Tail(ls) \in Lines /\ ls = Cons(Head(ls), Tail(ls))
  /\ \A l \in Text, ls \in Lines : Cons(l, ls) \in Lines \ {<<>>}
  /\ \A l \in Text, ls \in Lines : Head(Cons(l, ls)) = l /\ Tail(Cons(l, ls)) = ls
  /\ <<(<<>>)>> = Cons(<<>>, <<>>)
  /\ <<(<<>>)>> \in Lines \ {<<>>}
<1>1. \A ls \in Lines \ {<<>>} :
       Head(ls) \in Text /\ Tail(ls) \in Lines /\ ls = Cons(Head(ls), Tail(ls))
  BY ConsHeadTail DEF Lines
<1>2. \A l \in Text, ls \in Lines : Cons(l, ls) \in Lines \ {<<>>}
  BY ConsFacts DEF Lines
<1>3. \A l \in Text, ls \in Lines : Head(Cons(l, ls)) = l /\ Tail(Cons(l, ls)) = ls
  BY ConsFacts DEF Lines
<1>4. <<(<<>>)>> = Cons(<<>>, <<>>)
  BY DEF Cons
<1>5. <<>> \in Text /\ <<>> \in Lines
  BY EmptySeq DEF Lines, Text
<1>6. Cons(<<>>, <<>>) \in Lines \ {<<>>}
  BY <1>2, <1>5
<1>7. <<(<<>>)>> \in Lines \ {<<>>}
  BY <1>4, <1>6
<1> QED BY <1>1, <1>2, <1>3, <1>4, <1>5, <1>7, Zenon

\* UnixLines keeps what is not the "\r" of a "\r\n".
LEMMA UnixLinesUnfolds ==
  /\ UnixLines \in [Text -> Text]
  /\ UnixLines[<<>>] = <<>>
  /\ \A s \in Text \ {<<>>} :
       UnixLines[s] = IF CrNl(s, 1) THEN UnixLines[Tail(s)]
                      ELSE Cons(Head(s), UnixLines[Tail(s)])
<1> DEFINE D == [s \in Text \ {<<>>} |->
                  [r \in Text |->
                    IF CrNl(s, 1) THEN r
                    ELSE Cons(Head(s), r)]]
<1>1. <<>> \in Text /\ D \in [Text \ {<<>>} -> [Text -> Text]]
  BY TextParts, LineParts
<1>2. PICK f : TailRecursive(f, Character, Text, <<>>, D)
  <2> HIDE DEF D
  <2>1. D \in TailStep(Character, Text)
    BY <1>1 DEF Text, Lines, TailStep
  <2> QED BY <1>1, <2>1, TailRecursion
<1>3. /\ f \in [Text -> Text]
      /\ f[<<>>] = <<>>
      /\ \A s \in Text \ {<<>>} : f[s] = D[s][f[Tail(s)]]
  BY <1>2 DEF TailRecursive, Text, Lines
<1>4. \A s \in Text \ {<<>>} :
        f[s] = IF CrNl(s, 1) THEN f[Tail(s)]
               ELSE Cons(Head(s), f[Tail(s)])
  BY <1>3, TextParts, LineParts
<1>5. f = [s \in Text |->
            IF s = <<>> THEN <<>>
            ELSE LET rest == f[Tail(s)] IN
                 IF CrNl(s, 1) THEN rest
                 ELSE Cons(Head(s), rest)]
  BY <1>3, <1>4
<1>6. UnixLines = [s \in Text |->
            IF s = <<>> THEN <<>>
            ELSE LET rest == UnixLines[Tail(s)] IN
                 IF CrNl(s, 1) THEN rest
                 ELSE Cons(Head(s), rest)]
  BY <1>5 DEF UnixLines, Cons
<1>7. UnixLines[<<>>] = f[<<>>]
  BY <1>3, <1>6, TextParts, LineParts
<1>8. ASSUME NEW s \in Text \ {<<>>}, UnixLines[Tail(s)] = f[Tail(s)]
      PROVE  UnixLines[s] = f[s]
  <2>1. UnixLines[s] = IF CrNl(s, 1) THEN UnixLines[Tail(s)]
                       ELSE Cons(Head(s), UnixLines[Tail(s)])
    BY <1>6
  <2> QED BY <1>4, <1>8, <2>1
<1>9. Agree(UnixLines, f, Text)
  <2>1. AgreeByTail(UnixLines, f, Character)
    BY <1>7, <1>8 DEF AgreeByTail, Text, Lines
  <2> QED BY <2>1, SameByTail DEF Text, Lines
<1>10. UnixLines = [s \in Text |-> UnixLines[s]]
  BY <1>6
<1>11. UnixLines = f
  BY <1>3, <1>9, <1>10 DEF Agree
<1> QED BY <1>3, <1>4, <1>11

\* Split begins a line at every "nl"; there is one line at least.
LEMMA SplitUnfolds ==
  /\ Split \in [Text -> Lines \ {<<>>}]
  /\ Split[<<>>] = <<(<<>>)>>
  /\ \A s \in Text \ {<<>>} :
       Split[s] = IF Head(s) = "nl" THEN Cons(<<>>, Split[Tail(s)])
                  ELSE Cons(Cons(Head(s), Head(Split[Tail(s)])), Tail(Split[Tail(s)]))
<1> DEFINE D == [s \in Text \ {<<>>} |->
                  [r \in Lines \ {<<>>} |->
                    IF Head(s) = "nl" THEN Cons(<<>>, r)
                    ELSE Cons(Cons(Head(s), Head(r)), Tail(r))]]
<1>1. <<(<<>>)>> \in Lines \ {<<>>} /\ D \in [Text \ {<<>>} -> [Lines \ {<<>>} -> Lines \ {<<>>}]]
  BY TextParts, LineParts
<1>2. PICK f : TailRecursive(f, Character, Lines \ {<<>>}, <<(<<>>)>>, D)
  <2> HIDE DEF D
  <2>1. D \in TailStep(Character, Lines \ {<<>>})
    BY <1>1 DEF Text, Lines, TailStep
  <2> QED BY <1>1, <2>1, TailRecursion
<1>3. /\ f \in [Text -> Lines \ {<<>>}]
      /\ f[<<>>] = <<(<<>>)>>
      /\ \A s \in Text \ {<<>>} : f[s] = D[s][f[Tail(s)]]
  BY <1>2 DEF TailRecursive, Text, Lines
<1>4. \A s \in Text \ {<<>>} :
        f[s] = IF Head(s) = "nl" THEN Cons(<<>>, f[Tail(s)])
               ELSE Cons(Cons(Head(s), Head(f[Tail(s)])), Tail(f[Tail(s)]))
  BY <1>3, TextParts, LineParts
<1>5. f = [s \in Text |->
            IF s = <<>> THEN <<(<<>>)>>
            ELSE LET rest == f[Tail(s)] IN
                 IF Head(s) = "nl" THEN Cons(<<>>, rest)
                 ELSE Cons(Cons(Head(s), Head(rest)), Tail(rest))]
  BY <1>3, <1>4
<1>6. Split = [s \in Text |->
            IF s = <<>> THEN <<(<<>>)>>
            ELSE LET rest == Split[Tail(s)] IN
                 IF Head(s) = "nl" THEN Cons(<<>>, rest)
                 ELSE Cons(Cons(Head(s), Head(rest)), Tail(rest))]
  BY <1>5 DEF Split, Cons
<1>7. Split[<<>>] = f[<<>>]
  BY <1>3, <1>6, TextParts, LineParts
<1>8. ASSUME NEW s \in Text \ {<<>>}, Split[Tail(s)] = f[Tail(s)]
      PROVE  Split[s] = f[s]
  <2>1. Split[s] = IF Head(s) = "nl" THEN Cons(<<>>, Split[Tail(s)])
                   ELSE Cons(Cons(Head(s), Head(Split[Tail(s)])), Tail(Split[Tail(s)]))
    BY <1>6
  <2> QED BY <1>4, <1>8, <2>1
<1>9. Agree(Split, f, Text)
  <2>1. AgreeByTail(Split, f, Character)
    BY <1>7, <1>8 DEF AgreeByTail, Text, Lines
  <2> QED BY <2>1, SameByTail DEF Text, Lines
<1>10. Split = [s \in Text |-> Split[s]]
  BY <1>6
<1>11. Split = f
  BY <1>3, <1>9, <1>10 DEF Agree
<1> QED BY <1>3, <1>4, <1>11

\* TrimRight drops a blank if nothing is left behind it.
LEMMA TrimRightUnfolds ==
  /\ TrimRight \in [Text -> Text]
  /\ TrimRight[<<>>] = <<>>
  /\ \A l \in Text \ {<<>>} :
       TrimRight[l] = IF TrimRight[Tail(l)] = <<>> /\ Head(l) = "sp" THEN <<>>
                      ELSE Cons(Head(l), TrimRight[Tail(l)])
<1> DEFINE D == [l \in Text \ {<<>>} |->
                  [r \in Text |->
                    IF r = <<>> /\ Head(l) = "sp" THEN <<>>
                    ELSE Cons(Head(l), r)]]
<1>1. <<>> \in Text /\ D \in [Text \ {<<>>} -> [Text -> Text]]
  BY TextParts, LineParts
<1>2. PICK f : TailRecursive(f, Character, Text, <<>>, D)
  <2> HIDE DEF D
  <2>1. D \in TailStep(Character, Text)
    BY <1>1 DEF Text, Lines, TailStep
  <2> QED BY <1>1, <2>1, TailRecursion
<1>3. /\ f \in [Text -> Text]
      /\ f[<<>>] = <<>>
      /\ \A l \in Text \ {<<>>} : f[l] = D[l][f[Tail(l)]]
  BY <1>2 DEF TailRecursive, Text, Lines
<1>4. \A l \in Text \ {<<>>} :
        f[l] = IF f[Tail(l)] = <<>> /\ Head(l) = "sp" THEN <<>>
               ELSE Cons(Head(l), f[Tail(l)])
  BY <1>3, TextParts, LineParts
<1>5. f = [l \in Text |->
            IF l = <<>> THEN <<>>
            ELSE LET rest == f[Tail(l)] IN
                 IF rest = <<>> /\ Head(l) = "sp" THEN <<>>
                 ELSE Cons(Head(l), rest)]
  BY <1>3, <1>4
<1>6. TrimRight = [l \in Text |->
            IF l = <<>> THEN <<>>
            ELSE LET rest == TrimRight[Tail(l)] IN
                 IF rest = <<>> /\ Head(l) = "sp" THEN <<>>
                 ELSE Cons(Head(l), rest)]
  BY <1>5 DEF TrimRight, Cons
<1>7. TrimRight[<<>>] = f[<<>>]
  BY <1>3, <1>6, TextParts, LineParts
<1>8. ASSUME NEW l \in Text \ {<<>>}, TrimRight[Tail(l)] = f[Tail(l)]
      PROVE  TrimRight[l] = f[l]
  <2>1. TrimRight[l] = IF TrimRight[Tail(l)] = <<>> /\ Head(l) = "sp" THEN <<>>
                       ELSE Cons(Head(l), TrimRight[Tail(l)])
    BY <1>6
  <2> QED BY <1>4, <1>8, <2>1
<1>9. Agree(TrimRight, f, Text)
  <2>1. AgreeByTail(TrimRight, f, Character)
    BY <1>7, <1>8 DEF AgreeByTail, Text, Lines
  <2> QED BY <2>1, SameByTail DEF Text, Lines
<1>10. TrimRight = [l \in Text |-> TrimRight[l]]
  BY <1>6
<1>11. TrimRight = f
  BY <1>3, <1>9, <1>10 DEF Agree
<1> QED BY <1>3, <1>4, <1>11

\* DropEmpty drops an empty line if nothing is left behind it.
LEMMA DropEmptyUnfolds ==
  /\ DropEmpty \in [Lines -> Lines]
  /\ DropEmpty[<<>>] = <<>>
  /\ \A ls \in Lines \ {<<>>} :
       DropEmpty[ls] = IF DropEmpty[Tail(ls)] = <<>> /\ Head(ls) = <<>> THEN <<>>
                       ELSE Cons(Head(ls), DropEmpty[Tail(ls)])
<1> DEFINE D == [ls \in Lines \ {<<>>} |->
                  [r \in Lines |->
                    IF r = <<>> /\ Head(ls) = <<>> THEN <<>>
                    ELSE Cons(Head(ls), r)]]
<1>1. <<>> \in Lines /\ D \in [Lines \ {<<>>} -> [Lines -> Lines]]
  BY TextParts, LineParts
<1>2. PICK f : TailRecursive(f, Text, Lines, <<>>, D)
  <2> HIDE DEF D
  <2>1. D \in TailStep(Text, Lines)
    BY <1>1 DEF Text, Lines, TailStep
  <2> QED BY <1>1, <2>1, TailRecursion
<1>3. /\ f \in [Lines -> Lines]
      /\ f[<<>>] = <<>>
      /\ \A ls \in Lines \ {<<>>} : f[ls] = D[ls][f[Tail(ls)]]
  BY <1>2 DEF TailRecursive, Text, Lines
<1>4. \A ls \in Lines \ {<<>>} :
        f[ls] = IF f[Tail(ls)] = <<>> /\ Head(ls) = <<>> THEN <<>>
                ELSE Cons(Head(ls), f[Tail(ls)])
  BY <1>3, TextParts, LineParts
<1>5. f = [ls \in Lines |->
            IF ls = <<>> THEN <<>>
            ELSE LET rest == f[Tail(ls)] IN
                 IF rest = <<>> /\ Head(ls) = <<>> THEN <<>>
                 ELSE Cons(Head(ls), rest)]
  BY <1>3, <1>4
<1>6. DropEmpty = [ls \in Lines |->
            IF ls = <<>> THEN <<>>
            ELSE LET rest == DropEmpty[Tail(ls)] IN
                 IF rest = <<>> /\ Head(ls) = <<>> THEN <<>>
                 ELSE Cons(Head(ls), rest)]
  BY <1>5 DEF DropEmpty, Cons
<1>7. DropEmpty[<<>>] = f[<<>>]
  BY <1>3, <1>6, TextParts, LineParts
<1>8. ASSUME NEW ls \in Lines \ {<<>>}, DropEmpty[Tail(ls)] = f[Tail(ls)]
      PROVE  DropEmpty[ls] = f[ls]
  <2>1. DropEmpty[ls] = IF DropEmpty[Tail(ls)] = <<>> /\ Head(ls) = <<>> THEN <<>>
                        ELSE Cons(Head(ls), DropEmpty[Tail(ls)])
    BY <1>6
  <2> QED BY <1>4, <1>8, <2>1
<1>9. Agree(DropEmpty, f, Lines)
  <2>1. AgreeByTail(DropEmpty, f, Text)
    BY <1>7, <1>8 DEF AgreeByTail, Text, Lines
  <2> QED BY <2>1, SameByTail DEF Text, Lines
<1>10. DropEmpty = [ls \in Lines |-> DropEmpty[ls]]
  BY <1>6
<1>11. DropEmpty = f
  BY <1>3, <1>9, <1>10 DEF Agree
<1> QED BY <1>3, <1>4, <1>11

\* Join puts an "nl" between a line and the next.
LEMMA JoinUnfolds ==
  /\ Join \in [Lines -> Text]
  /\ Join[<<>>] = <<>>
  /\ \A ls \in Lines \ {<<>>} :
       Join[ls] = IF Tail(ls) = <<>> THEN Head(ls)
                  ELSE Head(ls) \o <<"nl">> \o Join[Tail(ls)]
<1> DEFINE D == [ls \in Lines \ {<<>>} |->
                  [r \in Text |->
                    IF Tail(ls) = <<>> THEN Head(ls)
                    ELSE Head(ls) \o <<"nl">> \o r]]
<1>1. <<>> \in Text /\ D \in [Lines \ {<<>>} -> [Text -> Text]]
  BY TextParts, LineParts
<1>2. PICK f : TailRecursive(f, Text, Text, <<>>, D)
  <2> HIDE DEF D
  <2>1. D \in TailStep(Text, Text)
    BY <1>1 DEF Text, Lines, TailStep
  <2> QED BY <1>1, <2>1, TailRecursion
<1>3. /\ f \in [Lines -> Text]
      /\ f[<<>>] = <<>>
      /\ \A ls \in Lines \ {<<>>} : f[ls] = D[ls][f[Tail(ls)]]
  BY <1>2 DEF TailRecursive, Text, Lines
<1>4. \A ls \in Lines \ {<<>>} :
        f[ls] = IF Tail(ls) = <<>> THEN Head(ls)
                ELSE Head(ls) \o <<"nl">> \o f[Tail(ls)]
  BY <1>3, TextParts, LineParts
<1>5. f = [ls \in Lines |->
            IF ls = <<>> THEN <<>>
            ELSE LET rest == f[Tail(ls)] IN
                 IF Tail(ls) = <<>> THEN Head(ls)
                 ELSE Head(ls) \o <<"nl">> \o rest]
  BY <1>3, <1>4
<1>6. Join = [ls \in Lines |->
            IF ls = <<>> THEN <<>>
            ELSE LET rest == Join[Tail(ls)] IN
                 IF Tail(ls) = <<>> THEN Head(ls)
                 ELSE Head(ls) \o <<"nl">> \o rest]
  BY <1>5 DEF Join, Cons
<1>7. Join[<<>>] = f[<<>>]
  BY <1>3, <1>6, TextParts, LineParts
<1>8. ASSUME NEW ls \in Lines \ {<<>>}, Join[Tail(ls)] = f[Tail(ls)]
      PROVE  Join[ls] = f[ls]
  <2>1. Join[ls] = IF Tail(ls) = <<>> THEN Head(ls)
                   ELSE Head(ls) \o <<"nl">> \o Join[Tail(ls)]
    BY <1>6
  <2> QED BY <1>4, <1>8, <2>1
<1>9. Agree(Join, f, Lines)
  <2>1. AgreeByTail(Join, f, Text)
    BY <1>7, <1>8 DEF AgreeByTail, Text, Lines
  <2> QED BY <2>1, SameByTail DEF Text, Lines
<1>10. Join = [ls \in Lines |-> Join[ls]]
  BY <1>6
<1>11. Join = f
  BY <1>3, <1>9, <1>10 DEF Agree
<1> QED BY <1>3, <1>4, <1>11

\* Counting keeps the characters that count.
LEMMA CountingUnfolds ==
  /\ Counting \in [Text -> Text]
  /\ Counting[<<>>] = <<>>
  /\ \A s \in Text \ {<<>>} :
       Counting[s] = IF FirstCounts(s) THEN Cons(Head(s), Counting[Tail(s)]) ELSE Counting[Tail(s)]
<1> DEFINE D == [s \in Text \ {<<>>} |->
                  [r \in Text |->
                    IF FirstCounts(s) THEN Cons(Head(s), r) ELSE r]]
<1>1. <<>> \in Text /\ D \in [Text \ {<<>>} -> [Text -> Text]]
  BY TextParts, LineParts
<1>2. PICK f : TailRecursive(f, Character, Text, <<>>, D)
  <2> HIDE DEF D
  <2>1. D \in TailStep(Character, Text)
    BY <1>1 DEF Text, Lines, TailStep
  <2> QED BY <1>1, <2>1, TailRecursion
<1>3. /\ f \in [Text -> Text]
      /\ f[<<>>] = <<>>
      /\ \A s \in Text \ {<<>>} : f[s] = D[s][f[Tail(s)]]
  BY <1>2 DEF TailRecursive, Text, Lines
<1>4. \A s \in Text \ {<<>>} :
        f[s] = IF FirstCounts(s) THEN Cons(Head(s), f[Tail(s)]) ELSE f[Tail(s)]
  BY <1>3, TextParts, LineParts
<1>5. f = [s \in Text |->
            IF s = <<>> THEN <<>>
            ELSE LET rest == f[Tail(s)] IN
                 IF FirstCounts(s) THEN Cons(Head(s), rest) ELSE rest]
  BY <1>3, <1>4
<1>6. Counting = [s \in Text |->
            IF s = <<>> THEN <<>>
            ELSE LET rest == Counting[Tail(s)] IN
                 IF FirstCounts(s) THEN Cons(Head(s), rest) ELSE rest]
  BY <1>5 DEF Counting, Cons
<1>7. Counting[<<>>] = f[<<>>]
  BY <1>3, <1>6, TextParts, LineParts
<1>8. ASSUME NEW s \in Text \ {<<>>}, Counting[Tail(s)] = f[Tail(s)]
      PROVE  Counting[s] = f[s]
  <2>1. Counting[s] = IF FirstCounts(s) THEN Cons(Head(s), Counting[Tail(s)]) ELSE Counting[Tail(s)]
    BY <1>6
  <2> QED BY <1>4, <1>8, <2>1
<1>9. Agree(Counting, f, Text)
  <2>1. AgreeByTail(Counting, f, Character)
    BY <1>7, <1>8 DEF AgreeByTail, Text, Lines
  <2> QED BY <2>1, SameByTail DEF Text, Lines
<1>10. Counting = [s \in Text |-> Counting[s]]
  BY <1>6
<1>11. Counting = f
  BY <1>3, <1>9, <1>10 DEF Agree
<1> QED BY <1>3, <1>4, <1>11

\* The same equations, for a character before a text and a line before others.
LEMMA Equations ==
  /\ \A c \in Character, u \in Text :
       /\ UnixLines[Cons(c, u)] = IF CrNl(Cons(c, u), 1) THEN UnixLines[u]
                                  ELSE Cons(c, UnixLines[u])
       /\ Split[Cons(c, u)] = IF c = "nl" THEN Cons(<<>>, Split[u])
                              ELSE Cons(Cons(c, Head(Split[u])), Tail(Split[u]))
       /\ TrimRight[Cons(c, u)] = IF TrimRight[u] = <<>> /\ c = "sp" THEN <<>>
                                  ELSE Cons(c, TrimRight[u])
       /\ Counting[Cons(c, u)] = IF FirstCounts(Cons(c, u)) THEN Cons(c, Counting[u])
                                 ELSE Counting[u]
  /\ \A l \in Text, ls \in Lines :
       /\ DropEmpty[Cons(l, ls)] = IF DropEmpty[ls] = <<>> /\ l = <<>> THEN <<>>
                                   ELSE Cons(l, DropEmpty[ls])
       /\ Join[Cons(l, ls)] = IF ls = <<>> THEN l ELSE l \o <<"nl">> \o Join[ls]
<1>1. \A c \in Character, u \in Text :
        Cons(c, u) \in Text \ {<<>>} /\ Head(Cons(c, u)) = c /\ Tail(Cons(c, u)) = u
  BY ConsFacts DEF Text
<1>2. \A l \in Text, ls \in Lines :
        Cons(l, ls) \in Lines \ {<<>>} /\ Head(Cons(l, ls)) = l /\ Tail(Cons(l, ls)) = ls
  BY ConsFacts DEF Lines
<1>3. ASSUME NEW c \in Character, NEW u \in Text
      PROVE  /\ UnixLines[Cons(c, u)] = IF CrNl(Cons(c, u), 1) THEN UnixLines[u]
                                        ELSE Cons(c, UnixLines[u])
             /\ Split[Cons(c, u)] = IF c = "nl" THEN Cons(<<>>, Split[u])
                                    ELSE Cons(Cons(c, Head(Split[u])), Tail(Split[u]))
             /\ TrimRight[Cons(c, u)] = IF TrimRight[u] = <<>> /\ c = "sp" THEN <<>>
                                        ELSE Cons(c, TrimRight[u])
             /\ Counting[Cons(c, u)] = IF FirstCounts(Cons(c, u)) THEN Cons(c, Counting[u])
                                       ELSE Counting[u]
  <2> DEFINE s == Cons(c, u)
  <2>1. s \in Text \ {<<>>} /\ Head(s) = c /\ Tail(s) = u
    BY <1>1
  <2> HIDE DEF s
  <2>2. UnixLines[s] = IF CrNl(s, 1) THEN UnixLines[u] ELSE Cons(c, UnixLines[u])
    BY <2>1, UnixLinesUnfolds
  <2>3. Split[s] = IF c = "nl" THEN Cons(<<>>, Split[u])
                   ELSE Cons(Cons(c, Head(Split[u])), Tail(Split[u]))
    BY <2>1, SplitUnfolds
  <2>4. TrimRight[s] = IF TrimRight[u] = <<>> /\ c = "sp" THEN <<>> ELSE Cons(c, TrimRight[u])
    BY <2>1, TrimRightUnfolds
  <2>5. Counting[s] = IF FirstCounts(s) THEN Cons(c, Counting[u]) ELSE Counting[u]
    BY <2>1, CountingUnfolds
  <2> QED BY <2>2, <2>3, <2>4, <2>5 DEF s
<1>4. ASSUME NEW l \in Text, NEW ls \in Lines
      PROVE  /\ DropEmpty[Cons(l, ls)] = IF DropEmpty[ls] = <<>> /\ l = <<>> THEN <<>>
                                         ELSE Cons(l, DropEmpty[ls])
             /\ Join[Cons(l, ls)] = IF ls = <<>> THEN l ELSE l \o <<"nl">> \o Join[ls]
  <2> DEFINE s == Cons(l, ls)
  <2>1. s \in Lines \ {<<>>} /\ Head(s) = l /\ Tail(s) = ls
    BY <1>2
  <2> HIDE DEF s
  <2>2. DropEmpty[s] = IF DropEmpty[ls] = <<>> /\ l = <<>> THEN <<>> ELSE Cons(l, DropEmpty[ls])
    BY <2>1, DropEmptyUnfolds
  <2>3. Join[s] = IF ls = <<>> THEN l ELSE l \o <<"nl">> \o Join[ls]
    BY <2>1, JoinUnfolds
  <2> QED BY <2>2, <2>3 DEF s
<1> QED BY <1>3, <1>4

\* Trimming lines trims the first and the others.
LEMMA TrimLinesParts ==
  /\ \A ls \in Lines : TrimLines(ls) \in Lines
  /\ TrimLines(<<>>) = <<>>
  /\ \A l \in Text, ls \in Lines : TrimLines(Cons(l, ls)) = Cons(TrimRight[l], TrimLines(ls))
<1>1. ASSUME NEW ls \in Lines
      PROVE  /\ TrimLines(ls) \in Lines /\ Len(TrimLines(ls)) = Len(ls)
             /\ \A i \in 1..Len(ls) : TrimLines(ls)[i] = TrimRight[ls[i]]
  <2>1. ls \in [1..Len(ls) -> Text] /\ Len(ls) \in Nat /\ DOMAIN ls = 1..Len(ls)
    BY LenProperties DEF Lines
  <2>2. TrimLines(ls) = [i \in 1..Len(ls) |-> TrimRight[ls[i]]]
    BY <2>1 DEF TrimLines
  <2>3. \A i \in 1..Len(ls) : TrimRight[ls[i]] \in Text
    BY <2>1, TrimRightUnfolds
  <2>4. TrimLines(ls) \in [1..Len(ls) -> Text]
    BY <2>2, <2>3
  <2> QED BY <2>1, <2>2, <2>4 DEF Lines
<1>2. TrimLines(<<>>) = <<>>
  <2>1. TrimLines(<<>>) \in Seq(Text) /\ Len(TrimLines(<<>>)) = 0
    BY <1>1, LineParts DEF Lines
  <2> QED BY <2>1
<1>3. ASSUME NEW l \in Text, NEW ls \in Lines
      PROVE  TrimLines(Cons(l, ls)) = Cons(TrimRight[l], TrimLines(ls))
  <2> DEFINE a == Cons(l, ls)
             b == Cons(TrimRight[l], TrimLines(ls))
  <2>1. /\ a \in Lines /\ Len(a) = Len(ls) + 1 /\ a[1] = l /\ Len(ls) \in Nat
        /\ \A i \in 1..Len(ls) : a[i + 1] = ls[i]
    BY ConsFacts DEF Lines
  <2>2. TrimRight[l] \in Text /\ TrimLines(ls) \in Lines /\ Len(TrimLines(ls)) = Len(ls)
    BY <1>1, TrimRightUnfolds
  <2>3. /\ b \in Lines /\ Len(b) = Len(ls) + 1 /\ b[1] = TrimRight[l]
        /\ \A i \in 1..Len(ls) : b[i + 1] = TrimLines(ls)[i]
    <3> DEFINE x == TrimRight[l]
               y == TrimLines(ls)
    <3> HIDE DEF x, y
    <3>1. x \in Text /\ y \in Seq(Text) /\ Len(y) = Len(ls)
      BY <2>2 DEF x, y, Lines
    <3>2. Cons(x, y) \in Seq(Text) /\ Len(Cons(x, y)) = Len(y) + 1 /\ Cons(x, y)[1] = x
      BY <3>1, ConsFacts
    <3>3. \A i \in 1..Len(y) : Cons(x, y)[i + 1] = y[i]
      BY <3>1, ConsFacts
    <3> QED BY <3>1, <3>2, <3>3 DEF x, y, Lines
  <2> HIDE DEF a, b
  <2>4. /\ TrimLines(a) \in Lines /\ Len(TrimLines(a)) = Len(a)
        /\ \A i \in 1..Len(a) : TrimLines(a)[i] = TrimRight[a[i]]
    BY <1>1, <2>1
  <2>5. ASSUME NEW i \in 1..Len(a) PROVE TrimLines(a)[i] = b[i]
    <3>1. CASE i = 1
      BY <2>1, <2>3, <2>4, <3>1
    <3>2. CASE i # 1
      <4>1. i - 1 \in 1..Len(ls) /\ (i - 1) + 1 = i
        BY <2>1, <3>2
      <4>2. a[i] = ls[i - 1]
        BY <2>1, <4>1
      <4>3. b[i] = TrimLines(ls)[i - 1]
        <5>1. \A k \in 1..Len(ls) : b[k + 1] = TrimLines(ls)[k]
          BY <2>3
        <5>2. b[(i - 1) + 1] = TrimLines(ls)[i - 1]
          BY <4>1, <5>1
        <5> QED BY <4>1, <5>2
      <4>4. TrimLines(ls)[i - 1] = TrimRight[ls[i - 1]]
        BY <1>1, <4>1
      <4> QED BY <2>4, <4>2, <4>3, <4>4
    <3> QED BY <3>1, <3>2
  <2>6. TrimLines(a) = b
    BY <2>1, <2>3, <2>4, <2>5, SeqEqual DEF Lines
  <2> QED BY <2>6 DEF a, b
<1> QED BY <1>1, <1>2, <1>3

-----------------------------------------------------------------------------
(* What counts, by the character in front                                  *)

\* A character in front of a text moves the line ends in it by one.
LEMMA LineEndsMove ==
  ASSUME NEW c \in Character, NEW u \in Text
  PROVE  /\ \A i \in 1..Len(u) : CrNl(Cons(c, u), i + 1) = CrNl(u, i)
         /\ CrNl(Cons(c, u), 1) => c = "cr" /\ u # <<>> /\ u[1] = "nl"
<1> DEFINE s == Cons(c, u)
<1>1. /\ s \in Text /\ Len(s) = Len(u) + 1 /\ Len(u) \in Nat /\ s[1] = c
      /\ \A i \in 1..Len(u) : s[i + 1] = u[i]
  BY ConsFacts DEF Text
<1> HIDE DEF s
<1>2. ASSUME NEW i \in 1..Len(u) PROVE CrNl(s, i + 1) = CrNl(u, i)
  <2>1. CASE i < Len(u)
    <3>1. i + 1 \in 1..Len(u) /\ i + 1 < Len(s)
      BY <1>1, <2>1
    <3>2. s[i + 1] = u[i] /\ s[(i + 1) + 1] = u[i + 1]
      BY <1>1, <3>1
    <3> QED BY <2>1, <3>1, <3>2 DEF CrNl
  <2>2. CASE ~(i < Len(u))
    <3>1. ~(i + 1 < Len(s))
      BY <1>1, <2>2
    <3> QED BY <2>2, <3>1 DEF CrNl
  <2> QED BY <2>1, <2>2
<1>3. ASSUME CrNl(s, 1) PROVE c = "cr" /\ u # <<>> /\ u[1] = "nl"
  <2>1. 1 < Len(s) /\ s[1] = "cr" /\ s[1 + 1] = "nl"
    BY <1>3 DEF CrNl
  <2>2. 1 \in 1..Len(u)
    BY <1>1, <2>1
  <2>3. s[1 + 1] = u[1]
    BY <1>1, <2>2
  <2>4. u # <<>>
    BY <2>2
  <2> QED BY <1>1, <2>1, <2>3, <2>4
<1> QED BY <1>2, <1>3 DEF s

\* Whether only blanks stand before the end of the line.
LEMMA BlankToEndFrom ==
  ASSUME NEW c \in Character, NEW u \in Text
  PROVE  BlankToEnd(Cons(c, u)) <=>
           \/ c = "nl" \/ CrNl(Cons(c, u), 1)
           \/ c = "sp" /\ BlankToEnd(u)
<1> DEFINE s == Cons(c, u)
           Blank(t, k) == \A j \in 1..k - 1 : t[j] = "sp"
           End(t, k) == k = Len(t) + 1 \/ t[k] = "nl" \/ CrNl(t, k)
<1>1. /\ s \in Text /\ Len(s) = Len(u) + 1 /\ Len(u) \in Nat /\ s[1] = c
      /\ \A i \in 1..Len(u) : s[i + 1] = u[i]
  BY ConsFacts DEF Text
<1>2. \A i \in 1..Len(u) : CrNl(s, i + 1) = CrNl(u, i)
  BY LineEndsMove
<1> HIDE DEF s
<1>3. ASSUME NEW k \in 1..Len(u) + 1 PROVE End(s, k + 1) <=> End(u, k)
  <2>1. CASE k = Len(u) + 1
    BY <1>1, <2>1
  <2>2. CASE k \in 1..Len(u)
    <3>1. k + 1 # Len(s) + 1 /\ k # Len(u) + 1
      BY <1>1, <2>2
    <3>2. s[k + 1] = u[k] /\ CrNl(s, k + 1) = CrNl(u, k)
      BY <1>1, <1>2, <2>2
    <3> QED BY <3>1, <3>2
  <2> QED BY <1>1, <2>1, <2>2
<1>4. ASSUME NEW k \in 1..Len(u) + 1 PROVE Blank(s, k + 1) <=> c = "sp" /\ Blank(u, k)
  <2>1. ASSUME Blank(s, k + 1) PROVE c = "sp" /\ Blank(u, k)
    <3>1. 1 \in 1..(k + 1) - 1
      OBVIOUS
    <3>2. ASSUME NEW j \in 1..k - 1 PROVE u[j] = "sp"
      <4>1. j \in 1..Len(u) /\ j + 1 \in 1..(k + 1) - 1
        BY <1>1
      <4> QED BY <1>1, <2>1, <4>1
    <3> QED BY <1>1, <2>1, <3>1, <3>2
  <2>2. ASSUME c = "sp", Blank(u, k) PROVE Blank(s, k + 1)
    <3>1. SUFFICES ASSUME NEW j \in 1..(k + 1) - 1 PROVE s[j] = "sp"
      OBVIOUS
    <3>2. CASE j = 1
      BY <1>1, <2>2, <3>2
    <3>3. CASE j # 1
      <4>1. j - 1 \in 1..k - 1 /\ j - 1 \in 1..Len(u) /\ (j - 1) + 1 = j
        BY <1>1, <3>3
      <4>2. s[(j - 1) + 1] = u[j - 1] /\ u[j - 1] = "sp"
        BY <1>1, <2>2, <4>1
      <4> QED BY <4>1, <4>2
    <3> QED BY <3>2, <3>3
  <2> QED BY <2>1, <2>2
<1>5. BlankToEnd(s) <=> \E k \in 1..Len(s) + 1 : Blank(s, k) /\ End(s, k)
  BY DEF BlankToEnd
<1>6. BlankToEnd(u) <=> \E k \in 1..Len(u) + 1 : Blank(u, k) /\ End(u, k)
  BY DEF BlankToEnd
<1>7. Blank(s, 1) /\ (End(s, 1) <=> c = "nl" \/ CrNl(s, 1))
  BY <1>1
<1> HIDE DEF Blank, End
<1>8. ASSUME BlankToEnd(s) PROVE c = "nl" \/ CrNl(s, 1) \/ (c = "sp" /\ BlankToEnd(u))
  <2>1. PICK k \in 1..Len(s) + 1 : Blank(s, k) /\ End(s, k)
    BY <1>5, <1>8
  <2>2. CASE k = 1
    BY <1>7, <2>1, <2>2
  <2>3. CASE k # 1
    <3>1. k - 1 \in 1..Len(u) + 1 /\ (k - 1) + 1 = k
      BY <1>1, <2>3
    <3>2. /\ Blank(s, (k - 1) + 1) <=> c = "sp" /\ Blank(u, k - 1)
          /\ End(s, (k - 1) + 1) <=> End(u, k - 1)
      BY <1>3, <1>4, <3>1
    <3> QED BY <1>6, <2>1, <3>1, <3>2
  <2> QED BY <2>2, <2>3
<1>9. ASSUME c = "nl" \/ CrNl(s, 1) PROVE BlankToEnd(s)
  <2>1. 1 \in 1..Len(s) + 1
    BY <1>1
  <2> QED BY <1>5, <1>7, <1>9, <2>1
<1>10. ASSUME c = "sp", BlankToEnd(u) PROVE BlankToEnd(s)
  <2>1. PICK k \in 1..Len(u) + 1 : Blank(u, k) /\ End(u, k)
    BY <1>6, <1>10
  <2>2. k + 1 \in 1..Len(s) + 1
    BY <1>1
  <2>3. Blank(s, k + 1) /\ End(s, k + 1)
    BY <1>3, <1>4, <1>10, <2>1
  <2> QED BY <1>5, <2>2, <2>3
<1> QED BY <1>8, <1>9, <1>10 DEF s

\* Whether something stands in a text at all.
LEMMA SolidFrom ==
  ASSUME NEW c \in Character, NEW u \in Text
  PROVE  Solid(Cons(c, u)) <=> (c \notin {"sp", "nl"} /\ ~CrNl(Cons(c, u), 1)) \/ Solid(u)
<1> DEFINE s == Cons(c, u)
           Stands(t, j) == t[j] \notin {"sp", "nl"} /\ ~CrNl(t, j)
<1>1. /\ s \in Text /\ Len(s) = Len(u) + 1 /\ Len(u) \in Nat /\ s[1] = c
      /\ \A i \in 1..Len(u) : s[i + 1] = u[i]
  BY ConsFacts DEF Text
<1>2. \A i \in 1..Len(u) : CrNl(s, i + 1) = CrNl(u, i)
  BY LineEndsMove
<1> HIDE DEF s
<1>3. \A i \in 1..Len(u) : Stands(s, i + 1) <=> Stands(u, i)
  BY <1>1, <1>2
<1>4. Stands(s, 1) <=> c \notin {"sp", "nl"} /\ ~CrNl(s, 1)
  BY <1>1
<1>5. Solid(s) <=> \E j \in 1..Len(s) : Stands(s, j)
  BY DEF Solid
<1>6. Solid(u) <=> \E j \in 1..Len(u) : Stands(u, j)
  BY DEF Solid
<1> HIDE DEF Stands
<1>7. ASSUME Solid(s) PROVE Stands(s, 1) \/ Solid(u)
  <2>1. PICK j \in 1..Len(s) : Stands(s, j)
    BY <1>5, <1>7
  <2>2. CASE j = 1
    BY <2>1, <2>2
  <2>3. CASE j # 1
    <3>1. j - 1 \in 1..Len(u) /\ (j - 1) + 1 = j
      BY <1>1, <2>3
    <3>2. Stands(s, (j - 1) + 1) <=> Stands(u, j - 1)
      BY <1>3, <3>1
    <3> QED BY <1>6, <2>1, <3>1, <3>2
  <2> QED BY <2>2, <2>3
<1>8. ASSUME Stands(s, 1) PROVE Solid(s)
  <2>1. 1 \in 1..Len(s)
    BY <1>1
  <2> QED BY <1>5, <1>8, <2>1
<1>9. ASSUME Solid(u) PROVE Solid(s)
  <2>1. PICK j \in 1..Len(u) : Stands(u, j)
    BY <1>6, <1>9
  <2>2. j + 1 \in 1..Len(s)
    BY <1>1
  <2> QED BY <1>3, <1>5, <2>1, <2>2
<1> QED BY <1>4, <1>7, <1>8, <1>9 DEF s

-----------------------------------------------------------------------------
(* Normalize, read from the end of the text to its start                   *)

\* The first line of a text as Normalize trims it, and the lines behind it that
\* are left.
First(u) == TrimRight[Head(Split[UnixLines[u]])]
Others(u) == DropEmpty[TrimLines(Tail(Split[UnixLines[u]]))]

\* Normalize puts the two together.
LEMMA Reading ==
  ASSUME NEW u \in Text
  PROVE  /\ First(u) \in Text /\ Others(u) \in Lines
         /\ DropEmpty[TrimLines(Split[UnixLines[u]])] =
              IF Others(u) = <<>> /\ First(u) = <<>> THEN <<>> ELSE Cons(First(u), Others(u))
         /\ Normalize(u) = IF Others(u) = <<>> THEN First(u)
                           ELSE First(u) \o <<"nl">> \o Join[Others(u)]
<1> DEFINE L == Split[UnixLines[u]]
<1>1. L \in Lines \ {<<>>}
  BY UnixLinesUnfolds, SplitUnfolds
<1> HIDE DEF L
<1>2. Head(L) \in Text /\ Tail(L) \in Lines /\ L = Cons(Head(L), Tail(L))
  BY <1>1, LineParts
<1>3. First(u) = TrimRight[Head(L)] /\ Others(u) = DropEmpty[TrimLines(Tail(L))]
  BY DEF First, Others, L
<1>4. First(u) \in Text /\ Others(u) \in Lines
  BY <1>2, <1>3, TrimRightUnfolds, TrimLinesParts, DropEmptyUnfolds
<1> DEFINE T == TrimLines(Tail(L))
<1>5. T \in Lines /\ TrimLines(L) = Cons(First(u), T)
  BY <1>2, <1>3, TrimLinesParts
<1>6. DropEmpty[TrimLines(L)] =
        IF Others(u) = <<>> /\ First(u) = <<>> THEN <<>> ELSE Cons(First(u), Others(u))
  BY <1>3, <1>4, <1>5, Equations
<1>7. Normalize(u) = Join[DropEmpty[TrimLines(L)]]
  BY DEF Normalize, L
<1>8. CASE Others(u) = <<>> /\ First(u) = <<>>
  BY <1>4, <1>6, <1>7, <1>8, JoinUnfolds DEF L
<1>9. CASE ~(Others(u) = <<>> /\ First(u) = <<>>)
  <2>1. Join[Cons(First(u), Others(u))] =
          IF Others(u) = <<>> THEN First(u) ELSE First(u) \o <<"nl">> \o Join[Others(u)]
    BY <1>4, Equations
  <2> QED BY <1>4, <1>6, <1>7, <1>9, <2>1 DEF L
<1> QED BY <1>8, <1>9

\* What a character in front changes: the "\r" of a "\r\n" nothing; a line end
\* begins a line, before what was left of the text; another character belongs
\* to the first line, unless it is a blank with nothing behind it.
LEMMA ReadingFrom ==
  ASSUME NEW c \in Character, NEW u \in Text
  PROVE  /\ CrNl(Cons(c, u), 1) =>
              First(Cons(c, u)) = First(u) /\ Others(Cons(c, u)) = Others(u)
         /\ c = "nl" =>
              /\ First(Cons(c, u)) = <<>>
              /\ Others(Cons(c, u)) = IF Others(u) = <<>> /\ First(u) = <<>> THEN <<>>
                                      ELSE Cons(First(u), Others(u))
         /\ c # "nl" /\ ~CrNl(Cons(c, u), 1) =>
              /\ First(Cons(c, u)) = IF First(u) = <<>> /\ c = "sp" THEN <<>>
                                     ELSE Cons(c, First(u))
              /\ Others(Cons(c, u)) = Others(u)
<1> DEFINE s == Cons(c, u)
           L == Split[UnixLines[u]]
<1>1. UnixLines[u] \in Text /\ L \in Lines \ {<<>>}
  BY UnixLinesUnfolds, SplitUnfolds
<1>2. Head(L) \in Text /\ Tail(L) \in Lines
  BY <1>1, LineParts
<1>3. UnixLines[s] = IF CrNl(s, 1) THEN UnixLines[u] ELSE Cons(c, UnixLines[u])
  BY Equations
<1>4. Split[Cons(c, UnixLines[u])] = IF c = "nl" THEN Cons(<<>>, L)
                                     ELSE Cons(Cons(c, Head(L)), Tail(L))
  BY <1>1, Equations
<1>5. c = "nl" => ~CrNl(s, 1)
  BY LineEndsMove
<1> HIDE DEF s, L
<1>6. CASE CrNl(s, 1)
  <2>1. First(s) = First(u) /\ Others(s) = Others(u)
    BY <1>3, <1>6 DEF First, Others
  <2> QED BY <1>5, <1>6, <2>1 DEF s
<1>7. CASE c = "nl"
  <2>1. Split[UnixLines[s]] = Cons(<<>>, L)
    BY <1>3, <1>4, <1>5, <1>7
  <2>2. Head(Cons(<<>>, L)) = <<>> /\ Tail(Cons(<<>>, L)) = L
    BY <1>1, TextParts, LineParts
  <2>3. First(s) = <<>> /\ Others(s) = DropEmpty[TrimLines(L)]
    BY <2>1, <2>2, TrimRightUnfolds DEF First, Others
  <2>4. DropEmpty[TrimLines(L)] =
          IF Others(u) = <<>> /\ First(u) = <<>> THEN <<>> ELSE Cons(First(u), Others(u))
    BY Reading DEF L
  <2> QED BY <1>5, <1>7, <2>3, <2>4 DEF s
<1>8. CASE c # "nl" /\ ~CrNl(s, 1)
  <2>1. Split[UnixLines[s]] = Cons(Cons(c, Head(L)), Tail(L))
    BY <1>3, <1>4, <1>8
  <2>2. Cons(c, Head(L)) \in Text
    BY <1>2, TextParts
  <2>3. /\ Head(Cons(Cons(c, Head(L)), Tail(L))) = Cons(c, Head(L))
        /\ Tail(Cons(Cons(c, Head(L)), Tail(L))) = Tail(L)
    <3> DEFINE x == Cons(c, Head(L))
               y == Tail(L)
    <3> HIDE DEF x, y
    <3>1. x \in Text /\ y \in Seq(Text)
      BY <1>2, <2>2 DEF x, y, Lines
    <3>2. Head(Cons(x, y)) = x /\ Tail(Cons(x, y)) = y
      BY <3>1, ConsFacts
    <3> QED BY <3>2 DEF x, y
  <2>4. First(s) = TrimRight[Cons(c, Head(L))] /\ Others(s) = DropEmpty[TrimLines(Tail(L))]
    BY <2>1, <2>3 DEF First, Others
  <2>5. First(u) = TrimRight[Head(L)] /\ Others(u) = DropEmpty[TrimLines(Tail(L))]
    BY DEF First, Others, L
  <2>6. TrimRight[Cons(c, Head(L))] = IF First(u) = <<>> /\ c = "sp" THEN <<>>
                                      ELSE Cons(c, First(u))
    BY <1>2, <2>5, Equations
  <2> QED BY <1>8, <2>4, <2>5, <2>6 DEF s
<1> QED BY <1>5, <1>6, <1>7, <1>8 DEF s

\* What Normalize leaves are the characters that count; its first line is empty
\* if and only if only blanks stand there; and it leaves no line at all if and
\* only if nothing stands in the text.
Understood(u) ==
  /\ Normalize(u) = Counting[u]
  /\ First(u) = <<>> <=> BlankToEnd(u)
  /\ First(u) = <<>> /\ Others(u) = <<>> <=> ~Solid(u)

\* A text is understood if what follows its first character is.
LEMMA UnderstoodFrom ==
  ASSUME NEW c \in Character, NEW u \in Text, Understood(u)
  PROVE  Understood(Cons(c, u))
<1> DEFINE s == Cons(c, u)
<1>1. s \in Text /\ s # <<>> /\ Head(s) = c
  BY ConsFacts DEF Text
<1>2. /\ First(u) \in Text /\ Others(u) \in Lines
      /\ Normalize(u) = IF Others(u) = <<>> THEN First(u)
                        ELSE First(u) \o <<"nl">> \o Join[Others(u)]
  BY Reading
<1>3. Normalize(s) = IF Others(s) = <<>> THEN First(s)
                     ELSE First(s) \o <<"nl">> \o Join[Others(s)]
  BY <1>1, Reading
<1>4. /\ CrNl(s, 1) => First(s) = First(u) /\ Others(s) = Others(u)
      /\ c = "nl" =>
           /\ First(s) = <<>>
           /\ Others(s) = IF Others(u) = <<>> /\ First(u) = <<>> THEN <<>>
                          ELSE Cons(First(u), Others(u))
      /\ c # "nl" /\ ~CrNl(s, 1) =>
           /\ First(s) = IF First(u) = <<>> /\ c = "sp" THEN <<>> ELSE Cons(c, First(u))
           /\ Others(s) = Others(u)
  BY ReadingFrom
<1>5. Counting[s] = IF FirstCounts(s) THEN Cons(c, Counting[u]) ELSE Counting[u]
  BY Equations
<1>6. BlankToEnd(s) <=> c = "nl" \/ CrNl(s, 1) \/ (c = "sp" /\ BlankToEnd(u))
  BY BlankToEndFrom
<1>7. Solid(s) <=> (c \notin {"sp", "nl"} /\ ~CrNl(s, 1)) \/ Solid(u)
  BY SolidFrom
<1>8. /\ CrNl(s, 1) => c = "cr" /\ u # <<>> /\ u[1] = "nl"
  BY LineEndsMove
<1>9. FirstCounts(s) <=> /\ ~CrNl(s, 1)
                         /\ c = "sp" => ~BlankToEnd(s)
                         /\ c = "nl" => Solid(s)
  BY <1>1 DEF FirstCounts
<1> HIDE DEF s
<1>10. CASE CrNl(s, 1)
  <2>1. BlankToEnd(u)
    <3>1. 1 \in 1..Len(u) + 1
      BY LenProperties DEF Text
    <3>2. u[1] = "nl" /\ \A j \in 1..1 - 1 : u[j] = "sp"
      BY <1>8, <1>10
    <3> QED BY <3>1, <3>2 DEF BlankToEnd
  <2>2. Normalize(s) = Normalize(u)
    BY <1>2, <1>3, <1>4, <1>10
  <2>3. Counting[s] = Counting[u]
    BY <1>5, <1>9, <1>10
  <2> QED BY <1>4, <1>6, <1>7, <1>8, <1>10, <2>1, <2>2, <2>3 DEF Understood, s
<1>11. CASE c = "nl"
  <2>1. ~CrNl(s, 1)
    BY <1>8, <1>11
  <2>2. FirstCounts(s) <=> Solid(u)
    BY <1>7, <1>9, <1>11, <2>1
  <2>3. CASE Solid(u)
    <3>1. Others(s) = Cons(First(u), Others(u)) /\ Others(s) # <<>> /\ First(s) = <<>>
      <4>1. ~(Others(u) = <<>> /\ First(u) = <<>>)
        BY <2>3 DEF Understood
      <4>2. Cons(First(u), Others(u)) # <<>>
        BY <1>2, LineParts
      <4> QED BY <1>4, <1>11, <4>1, <4>2
    <3>2. Join[Cons(First(u), Others(u))] = Normalize(u)
      BY <1>2, Equations
    <3>3. Normalize(s) = <<>> \o <<"nl">> \o Normalize(u)
      BY <1>3, <3>1, <3>2
    <3>4. <<>> \o <<"nl">> = <<"nl">>
      BY TextParts, ConcatEmptySeq DEF Text
    <3>5. Normalize(s) = Counting[s]
      BY <1>5, <1>11, <2>2, <2>3, <3>3, <3>4 DEF Cons, Understood
    <3> QED BY <1>6, <1>7, <1>11, <2>3, <3>1, <3>5 DEF Understood, s
  <2>4. CASE ~Solid(u)
    <3>1. Others(s) = <<>> /\ First(s) = <<>> /\ Others(u) = <<>> /\ First(u) = <<>>
      BY <1>4, <1>11, <2>4 DEF Understood
    <3>2. Normalize(s) = Counting[s]
      BY <1>2, <1>3, <1>5, <2>2, <2>4, <3>1 DEF Understood
    <3> QED BY <1>6, <1>7, <1>11, <2>1, <2>4, <3>1, <3>2 DEF Understood, s
  <2> QED BY <2>3, <2>4
<1>12. CASE c # "nl" /\ ~CrNl(s, 1)
  <2>1. CASE First(u) = <<>> /\ c = "sp"
    <3>1. First(s) = <<>> /\ Others(s) = Others(u) /\ ~FirstCounts(s)
      BY <1>4, <1>6, <1>9, <1>12, <2>1 DEF Understood
    <3>2. Normalize(s) = Normalize(u)
      BY <1>2, <1>3, <2>1, <3>1
    <3>3. Normalize(s) = Counting[s]
      BY <1>5, <3>1, <3>2 DEF Understood
    <3> QED BY <1>6, <1>7, <2>1, <3>1, <3>3 DEF Understood, s
  <2>2. CASE ~(First(u) = <<>> /\ c = "sp")
    <3>1. First(s) = Cons(c, First(u)) /\ First(s) # <<>> /\ Others(s) = Others(u)
      <4>1. Cons(c, First(u)) # <<>>
        BY <1>2, ConsFacts DEF Text
      <4> QED BY <1>4, <1>12, <2>2, <4>1
    <3>2. FirstCounts(s)
      BY <1>6, <1>9, <1>12, <2>2 DEF Understood
    <3>3. Normalize(s) = Cons(c, Normalize(u))
      <4>1. CASE Others(u) = <<>>
        BY <1>2, <1>3, <3>1, <4>1
      <4>2. CASE Others(u) # <<>>
        <5> DEFINE rest == Join[Others(u)]
        <5>1. rest \in Text /\ First(u) \in Text /\ <<"nl">> \in Text /\ <<c>> \in Text
          BY <1>2, JoinUnfolds, TextParts DEF Text
        <5> HIDE DEF rest
        <5>2. (<<c>> \o First(u)) \o <<"nl">> = <<c>> \o (First(u) \o <<"nl">>)
          BY <5>1, ConcatAssociative DEF Text
        <5>3. First(u) \o <<"nl">> \in Text
          BY <5>1, TextParts
        <5>4. (<<c>> \o (First(u) \o <<"nl">>)) \o rest = <<c>> \o ((First(u) \o <<"nl">>) \o rest)
          BY <5>1, <5>3, ConcatAssociative DEF Text
        <5>5. Normalize(s) = ((<<c>> \o First(u)) \o <<"nl">>) \o rest
          BY <1>3, <3>1, <4>2 DEF Cons, rest
        <5>6. Normalize(u) = (First(u) \o <<"nl">>) \o rest
          BY <1>2, <4>2 DEF rest
        <5> QED BY <5>2, <5>4, <5>5, <5>6 DEF Cons
      <4> QED BY <4>1, <4>2
    <3>4. Normalize(s) = Counting[s]
      BY <1>5, <3>2, <3>3 DEF Understood
    <3>5. ~BlankToEnd(s) /\ Solid(s)
      BY <1>6, <1>7, <1>12, <2>2 DEF Understood
    <3> QED BY <3>1, <3>4, <3>5 DEF Understood, s
  <2> QED BY <2>1, <2>2
<1> QED BY <1>10, <1>11, <1>12

\* The tolerant comparison forgives blanks at the ends of lines, blank lines at
\* the end and the "\r" of a "\r\n", and nothing else (grade.go's Normalize).
THEOREM NormalizeIsCounting == \A s \in Text : Normalize(s) = Counting[s]
<1> DEFINE S == {s \in Text : Understood(s)}
<1>1. <<>> \in S
  <2>1. UnixLines[<<>>] = <<>> /\ Split[<<>>] = Cons(<<>>, <<>>)
    BY UnixLinesUnfolds, SplitUnfolds, LineParts
  <2>2. Head(Cons(<<>>, <<>>)) = <<>> /\ Tail(Cons(<<>>, <<>>)) = <<>>
    BY TextParts, LineParts
  <2>3. First(<<>>) = <<>> /\ Others(<<>>) = <<>>
    BY <2>1, <2>2, TrimRightUnfolds, TrimLinesParts, DropEmptyUnfolds DEF First, Others
  <2>4. <<>> \in Text /\ Normalize(<<>>) = <<>> /\ Counting[<<>>] = <<>>
    BY <2>3, TextParts, Reading, CountingUnfolds
  <2>5. BlankToEnd(<<>>)
    BY EmptySeq DEF BlankToEnd
  <2>6. ~Solid(<<>>)
    BY EmptySeq DEF Solid
  <2> QED BY <2>3, <2>4, <2>5, <2>6 DEF Understood
<1>2. \A c \in Character, s \in Text : s \in S => Cons(c, s) \in S
  <2>1. SUFFICES ASSUME NEW c \in Character, NEW s \in Text, Understood(s)
                 PROVE  Understood(Cons(c, s)) /\ Cons(c, s) \in Text
    OBVIOUS
  <2> QED BY <2>1, UnderstoodFrom, TextParts
<1>3. Text \subseteq S
  <2> HIDE DEF S
  <2> QED BY <1>1, <1>2, ConsInduction DEF Text
<1> QED BY <1>3 DEF Understood

\* Two texts compare equal if and only if they are the same text, exactly or up
\* to what does not count (grade.go's Equal).
THEOREM EqualIsSameText ==
  \A s, t \in Text : \A strict : Equal(s, t, strict) <=> SameText(s, t, strict)
BY NormalizeIsCounting DEF Equal, SameText
-----------------------------------------------------------------------------
(* The verdict                                                             *)

\* One result for each of the cases, in their order, and no two with one id.
OneEach(cases, res) ==
  /\ DOMAIN cases \subseteq Nat
  /\ DOMAIN res.cases = DOMAIN cases
  /\ \A i \in DOMAIN cases : res.cases[i].id = cases[i].id
  /\ \A i, j \in DOMAIN cases : cases[i].id = cases[j].id => i = j

\* byID then finds the result of the case itself.
LEMMA OwnResult ==
  ASSUME NEW cases, NEW res, OneEach(cases, res), NEW i \in DOMAIN cases
  PROVE  Ran(res, cases[i]) /\ ResultOf(res, cases[i]) = res.cases[i]
<1> DEFINE Last(k) ==
      res.cases[k].id = cases[i].id
      /\ \A j \in DOMAIN res.cases : res.cases[j].id = cases[i].id => j <= k
<1>1. i \in DOMAIN res.cases /\ i \in Nat /\ res.cases[i].id = cases[i].id
  BY DEF OneEach
<1>2. \A k \in DOMAIN res.cases : res.cases[k].id = cases[i].id => k = i
  BY DEF OneEach
<1>3. Last(i)
  BY <1>1, <1>2
<1>4. (CHOOSE k \in DOMAIN res.cases : Last(k)) = i
  <2>1. \A k \in DOMAIN res.cases : Last(k) => k = i
    BY <1>2
  <2> HIDE DEF Last
  <2> QED BY <1>1, <1>3, <2>1
<1> QED BY <1>1, <1>4 DEF Ran, ResultOf

\* The cases whose result is not what they expect.
Wrong(cases, res) == {i \in DOMAIN cases : ~CasePassed(cases[i], res.cases[i])}

\* What the client is told of the cases.
Marked(cases, failing) ==
  [i \in DOMAIN cases |->
    [id |-> cases[i].id, hidden |-> cases[i].hidden, passed |-> i \notin failing]]

\* An outcome and an exception are those of a case that went so.
Blames(v, r) ==
  /\ v.outcome = IF r.timedOut THEN "timeout"
                 ELSE IF r.exit # 0 THEN "runtime_error" ELSE "failed"
  /\ v.error = IF ~r.timedOut /\ r.exit # 0 THEN r.error ELSE NoError

\* The verdict on code that runs: it is passed if every case is, and else what
\* the first case that is not makes of it.
LEMMA VerdictOnResults ==
  ASSUME NEW e, NEW res, ~res.syntaxError, OneEach(e.cases, res)
  PROVE  LET v == Evaluate(e, res)
             failing == Wrong(e.cases, res) IN
         /\ v.cases = Marked(e.cases, failing)
         /\ failing = {} => v.outcome = "passed" /\ v.error = NoError
         /\ failing # {} =>
              \E i \in failing :
                /\ \A j \in failing : i <= j
                /\ v.failing = e.cases[i].id
                /\ Blames(v, res.cases[i])
<1> DEFINE c == e.cases
           failing == Wrong(c, res)
           v == Evaluate(e, res)
<1>1. \A i \in DOMAIN c : Ran(res, c[i]) /\ ResultOf(res, c[i]) = res.cases[i]
  BY OwnResult
<1>2. {i \in DOMAIN c : res.syntaxError \/ ~Passed(c[i], res)} = failing
  BY <1>1 DEF Passed, Wrong
<1>3. v = IF failing = {} THEN Verdict("passed", NoCase, Marked(c, failing), NoError)
          ELSE Verdict(OutcomeOf(c[Deciding(failing)], res), c[Deciding(failing)].id,
                       Marked(c, failing), ErrorOf(c[Deciding(failing)], res))
  <2> HIDE DEF failing
  <2> QED BY <1>2 DEF Evaluate, Marked
<1>4. failing \subseteq DOMAIN c /\ failing \subseteq Nat
  BY DEF Wrong, OneEach
<1>5. ASSUME failing # {}
      PROVE  Deciding(failing) \in failing /\ \A j \in failing : Deciding(failing) <= j
  <2> HIDE DEF failing
  <2>1. \E i \in failing : \A j \in failing : i <= j
    BY <1>4, <1>5, LeastNumber
  <2> QED BY <2>1 DEF Deciding
<1>6. \A o, f, cs, x : /\ Verdict(o, f, cs, x).outcome = o /\ Verdict(o, f, cs, x).failing = f
                       /\ Verdict(o, f, cs, x).cases = cs /\ Verdict(o, f, cs, x).error = x
  BY DEF Verdict
<1>7. v.cases = Marked(c, failing) /\ (failing = {} => v.outcome = "passed" /\ v.error = NoError)
  <2> HIDE DEF failing, v
  <2> QED BY <1>3, <1>6
<1>8. ASSUME failing # {}
      PROVE  LET i == Deciding(failing) IN
             /\ i \in failing /\ \A j \in failing : i <= j
             /\ v.failing = c[i].id
             /\ Blames(v, res.cases[i])
  <2> DEFINE i == Deciding(failing)
  <2>1. i \in failing /\ \A j \in failing : i <= j
    BY <1>5, <1>8
  <2>2. /\ v.failing = c[i].id /\ v.outcome = OutcomeOf(c[i], res)
        /\ v.error = ErrorOf(c[i], res)
    <3> HIDE DEF failing, v, i
    <3>1. v = Verdict(OutcomeOf(c[i], res), c[i].id, Marked(c, failing), ErrorOf(c[i], res))
      BY <1>3, <1>8 DEF i
    <3> QED BY <1>6, <3>1
  <2>3. i \in DOMAIN c
    BY <1>4, <2>1
  <2> HIDE DEF failing, v, i
  <2>4. OutcomeOf(c[i], res) = IF res.cases[i].timedOut THEN "timeout"
                               ELSE IF res.cases[i].exit # 0 THEN "runtime_error" ELSE "failed"
    BY <1>1, <2>3 DEF OutcomeOf
  <2>5. ErrorOf(c[i], res) = IF ~res.cases[i].timedOut /\ res.cases[i].exit # 0
                             THEN res.cases[i].error ELSE NoError
    <3>1. OutcomeOf(c[i], res) = "runtime_error" <=>
            ~res.cases[i].timedOut /\ res.cases[i].exit # 0
      BY <2>4
    <3>2. ResultOf(res, c[i]) = res.cases[i]
      BY <1>1, <2>3
    <3> QED BY <3>1, <3>2 DEF ErrorOf
  <2>6. Blames(v, res.cases[i])
    BY <2>2, <2>4, <2>5 DEF Blames
  <2> QED BY <2>1, <2>2, <2>6 DEF i
<1> HIDE DEF failing, v
<1>9. failing # {} =>
        \E i \in failing :
          /\ \A j \in failing : i <= j
          /\ v.failing = c[i].id
          /\ Blames(v, res.cases[i])
  BY <1>8
<1> QED BY <1>7, <1>9 DEF failing, v

\* Code that is no Python failed every case.
LEMMA VerdictOnSyntax ==
  ASSUME NEW e, NEW res, res.syntaxError
  PROVE  /\ Evaluate(e, res).outcome = "syntax_error" /\ Evaluate(e, res).error = SyntaxError
         /\ Evaluate(e, res).cases = Marked(e.cases, DOMAIN e.cases)
<1>1. {i \in DOMAIN e.cases : res.syntaxError \/ ~Passed(e.cases[i], res)} = DOMAIN e.cases
  OBVIOUS
<1> QED BY <1>1 DEF Evaluate, Verdict, Marked

\* Of the cases the first visible one that failed is revealed, and no other.
LEMMA RevealedIsFirst ==
  ASSUME NEW cases, NEW failing, DOMAIN cases \subseteq Nat, failing \subseteq DOMAIN cases
  PROVE  LET open == {i \in failing : ~cases[i].hidden}
             shown == Revealed(Marked(cases, failing)) IN
         shown = {i \in open : \A j \in open : i <= j} /\ Cardinality(shown) <= 1
<1> DEFINE m == Marked(cases, failing)
           open == {i \in failing : ~cases[i].hidden}
           shown == Revealed(m)
<1>1. DOMAIN m = DOMAIN cases
      /\ \A i \in DOMAIN cases : m[i].hidden = cases[i].hidden /\ m[i].passed = (i \notin failing)
  BY DEF Marked
<1>2. {i \in DOMAIN m : ~m[i].passed /\ ~m[i].hidden} = open
  <2> HIDE DEF m
  <2> QED BY <1>1
<1>3. shown = {i \in open : \A j \in open : i <= j}
  <2> HIDE DEF m, open
  <2> QED BY <1>2 DEF Revealed
<1>4. \A i, j \in shown : i = j
  <2>1. open \subseteq Nat
    OBVIOUS
  <2> HIDE DEF open, shown
  <2> TAKE i, j \in shown
  <2>2. i \in Nat /\ j \in Nat /\ i <= j /\ j <= i
    BY <1>3, <2>1
  <2> QED BY <2>2
<1>5. Cardinality(shown) <= 1
  <2> HIDE DEF shown
  <2>1. CASE shown = {}
    BY <2>1, FS_EmptySet
  <2>2. CASE shown # {}
    <3>1. PICK i : i \in shown
      BY <2>2
    <3>2. shown = {i}
      BY <1>4, <3>1
    <3>3. Cardinality({i}) = 1
      BY FS_Singleton
    <3> QED BY <3>2, <3>3
  <2> QED BY <2>1, <2>2
<1> QED BY <1>3, <1>5


=============================================================================

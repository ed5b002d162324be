---------------------------- MODULE HintsProofs -----------------------------
(***************************************************************************)
(* Proofs about Hints, for any asks, owners, mistakes, limits and budgets. *)
(* Each group of properties has an inductive invariant of its own: what    *)
(* texts fit, what levels were earned, what asks are still owed by the     *)
(* daily count, and what calls are still owed by the budget.               *)
(***************************************************************************)
EXTENDS Hints, FiniteSetTheorems, TLAPS

\* A text that an ask holds may be shown to whoever asked; only asks without a
\* question use the cache, and no text is held before the level is known.
TextFits(r, reply) ==
  /\ ~reply.leaks
  /\ reply.level = level[r]
  /\ r \in Question => reply.for = r
  /\ r \notin Question => reply.for \notin Question /\ MistakeOf[reply.for] = MistakeOf[r]

TextInv ==
  /\ CacheFits /\ ShownFits
  /\ \A r \in Ask :
       /\ pc[r] \in {"cache", "put"} => r \notin Question
       /\ pc[r] \in {"idle", "begin", "ladder", "since"} => text[r] = NoReply
       /\ text[r] # NoReply => TextFits(r, text[r])

\* The hints of o among the first n of hs.
Of(hs, o, n) == {j \in 1..n : OwnerOf[hs[j].ask] = o}

Leveled == {"cache", "budget", "call", "retry", "put", "store"}

\* An ask's level is earned when it is read, and for an owner that has not
\* passed it is above the hints there were when the ask was counted.
LevelFits(r) ==
  LET o == OwnerOf[r] IN
  /\ before[r] <= Len(hints)
  /\ level[r] <= 1 + Cardinality(Of(hints, o, Len(hints)))
  /\ passedAt[o] = Never =>
       /\ since[r] = Never
       /\ pc[r] \in Leveled => level[r] >= Climb(Cardinality(Of(hints, o, before[r])))

LevelInv ==
  /\ LevelEarned /\ LadderClimbs
  /\ \A i \in DOMAIN hints : hints[i].before <= Len(hints)
  /\ \A r \in Ask : LevelFits(r)

\* The hints of o counted on d, and the asks that may still become one.
Given(hs, o, d) == {i \in DOMAIN hs : OwnerOf[hs[i].ask] = o /\ hs[i].counted = d}
Owed(p, c, o, d) == {r \in Ask : p[r] \notin {"idle", "done"} /\ OwnerOf[r] = o /\ c[r] = d}

\* Every hint and every ask under way was counted, within the limit.
CountInv ==
  \A o \in Owner, d \in Day :
    LET given == Given(hints, o, d)
        owed == Owed(pc, counted, o, d) IN
    /\ IsFiniteSet(owed)
    /\ Cardinality(given) + Cardinality(owed) <= usage[<<o, d>>]
    /\ Cardinality(given) + Cardinality(owed) <= Limit(o)

\* The asks at l that began on d.
Doing(p, a, l, d) == {r \in Ask : p[r] = l /\ DayOf(a[r]) = d}
Paid(d) == IF calls[d] <= DailyModelBudget THEN calls[d] ELSE DailyModelBudget

\* A paid unit is worth two calls: those made, the two of an ask that has made
\* none and the one of an ask that retries are covered by the units paid.
BudgetInv ==
  DailyModelBudget > 0 =>
    \A d \in Day :
      LET first == Doing(pc, asked, "call", d)
          second == Doing(pc, asked, "retry", d) IN
      /\ IsFiniteSet(first) /\ IsFiniteSet(second)
      /\ completed[d] + 2 * Cardinality(first) + Cardinality(second) <= 2 * Paid(d)

-----------------------------------------------------------------------------
(* Constants and counting                                                  *)

\* The constants have the types that were assumed of them, and a day is the
\* day of each of its instants.
LEMMA Constants ==
  /\ MaxLevel \in Nat \ {0} /\ DailyModelBudget \in Nat /\ DayLength \in Nat \ {0}
  /\ MaxTime \in Nat
  /\ \A r \in Ask : OwnerOf[r] \in Owner /\ MistakeOf[r] \in Mistake
  /\ \A o \in Owner : Limit(o) \in Nat
  /\ \A t \in Time : DayOf(t) \in Day
  /\ 0 \in Time /\ 1 \in Level
<1>1. MaxLevel \in Nat \ {0} /\ DailyModelBudget \in Nat /\ DayLength \in Nat \ {0} /\ MaxTime \in Nat
  BY LimitAssumption DEF LimitAssumption
<1>2. \A r \in Ask : OwnerOf[r] \in Owner /\ MistakeOf[r] \in Mistake
  BY AskAssumption DEF AskAssumption
<1>3. \A o \in Owner : Limit(o) \in Nat
  BY LimitAssumption DEF LimitAssumption, Limit
<1>4. \A t \in Time : DayOf(t) \in Day
  BY DEF Day, DayOf
<1> QED BY <1>1, <1>2, <1>3, <1>4 DEF Time, Level

\* The first day is 0.
LEMMA ZeroIsDay == 0 \in Day
<1>1. 0 \div DayLength = 0
  <2>1. 0 \div DayLength \in Int /\ 0 % DayLength \in 0 .. DayLength - 1
    BY Constants
  <2>2. 0 = DayLength * (0 \div DayLength) + (0 % DayLength)
    BY Constants
  <2> DEFINE q == 0 \div DayLength
  <2>3. q >= 1 => DayLength * q >= DayLength
    BY <2>1, Constants
  <2>4. q <= -1 => DayLength * q <= -DayLength
    BY <2>1, Constants
  <2> QED BY <2>1, <2>2, <2>3, <2>4, Constants
<1> QED BY <1>1, Constants DEF Day

\* A set that differs from a finite one at most by x.
LEMMA Moved ==
  ASSUME NEW S, NEW T, NEW x, IsFiniteSet(S), T \ {x} = S \ {x}
  PROVE  /\ IsFiniteSet(T)
         /\ Cardinality(S) \in Nat /\ Cardinality(T) \in Nat
         /\ Cardinality(T) = IF x \in S
                             THEN IF x \in T THEN Cardinality(S) ELSE Cardinality(S) - 1
                             ELSE IF x \in T THEN Cardinality(S) + 1 ELSE Cardinality(S)
<1>1. IsFiniteSet(S \ {x})
      /\ Cardinality(S \ {x}) = IF x \in S THEN Cardinality(S) - 1 ELSE Cardinality(S)
  BY FS_RemoveElement
<1>2. IsFiniteSet(S \cup {x})
      /\ Cardinality(S \cup {x}) = IF x \in S THEN Cardinality(S) ELSE Cardinality(S) + 1
  BY FS_AddElement
<1>3. CASE x \in T
  <2>1. T = (S \ {x}) \cup {x} /\ T = S \cup {x}
    BY <1>3
  <2> QED BY <1>2, <1>3, <2>1, FS_CardinalityType
<1>4. CASE x \notin T
  <2>1. T = S \ {x}
    BY <1>4
  <2> QED BY <1>1, <1>4, <2>1, FS_CardinalityType
<1> QED BY <1>3, <1>4

\* The level an ask is given from a count of hints.
LEMMA ClimbFacts ==
  ASSUME NEW n \in Nat
  PROVE  /\ Climb(n) \in Level /\ Climb(n) <= n + 1
         /\ \A m \in 0..n : Climb(m) <= Climb(n)
BY Constants DEF Climb, Level

-----------------------------------------------------------------------------
(* Types                                                                   *)

\* An ask that ends leaves typed locals behind.
LEMMA TypeLeave ==
  ASSUME TypeOK, NEW r \in Ask, Leave(r)
  PROVE  /\ pc' \in [Ask -> PC] /\ asked' \in [Ask -> Time]
         /\ since' \in [Ask -> Time \cup {Never}] /\ level' \in [Ask -> Level]
         /\ text' \in [Ask -> Reply \cup {NoReply}]
         /\ counted' \in [Ask -> Day] /\ before' \in [Ask -> Nat]
BY Constants, ZeroIsDay DEF TypeOK, Leave, Goto, PC

\* The hints of the store are numbered, and finite in number.
LEMMA HintsFacts ==
  ASSUME TypeOK
  PROVE  /\ Len(hints) \in Nat /\ DOMAIN hints = 1..Len(hints)
         /\ \A i \in DOMAIN hints : hints[i] \in Hint
         /\ \A o, d : IsFiniteSet(Given(hints, o, d)) /\ Cardinality(Given(hints, o, d)) \in Nat
         /\ \A o, t : HintsSince(o, t) \subseteq DOMAIN hints
                      /\ IsFiniteSet(HintsSince(o, t)) /\ Cardinality(HintsSince(o, t)) \in Nat
<1>1. Len(hints) \in Nat /\ DOMAIN hints = 1..Len(hints) /\ \A i \in DOMAIN hints : hints[i] \in Hint
  BY DEF TypeOK
<1>2. IsFiniteSet(DOMAIN hints)
  BY <1>1, FS_Interval
<1>3. \A o, d : IsFiniteSet(Given(hints, o, d)) /\ Cardinality(Given(hints, o, d)) \in Nat
  <2> SUFFICES ASSUME NEW o, NEW d
               PROVE  IsFiniteSet(Given(hints, o, d)) /\ Cardinality(Given(hints, o, d)) \in Nat
    OBVIOUS
  <2>1. Given(hints, o, d) \in SUBSET DOMAIN hints
    BY DEF Given
  <2> QED BY <1>2, <2>1, FS_Subset, FS_CardinalityType
<1>4. \A o, t : HintsSince(o, t) \subseteq DOMAIN hints
                /\ IsFiniteSet(HintsSince(o, t)) /\ Cardinality(HintsSince(o, t)) \in Nat
  <2> SUFFICES ASSUME NEW o, NEW t
               PROVE  HintsSince(o, t) \subseteq DOMAIN hints
                      /\ IsFiniteSet(HintsSince(o, t)) /\ Cardinality(HintsSince(o, t)) \in Nat
    OBVIOUS
  <2>1. HintsSince(o, t) \in SUBSET DOMAIN hints
    BY DEF HintsSince
  <2> QED BY <1>2, <2>1, FS_Subset, FS_CardinalityType
<1> QED BY <1>1, <1>3, <1>4

\* The daily count, and the steps up to the reading of the level.
LEMMA TypeEnter ==
  ASSUME TypeOK, NEW r \in Ask,
         Charge(r) \/ ChargeRefuses(r) \/ Begin(r) \/ ListProgress(r)
  PROVE  TypeOK'
<1>1. DayOf(now) \in Day /\ OwnerOf[r] \in Owner
  BY Constants DEF TypeOK
<1>2. CASE Charge(r)
  <2>1. usage' \in [Owner \X Day -> Nat]
    BY <1>1, <1>2 DEF TypeOK, Charge, Count
  <2>2. pc' \in [Ask -> PC] /\ counted' \in [Ask -> Day] /\ before' \in [Ask -> Nat]
    BY <1>1, <1>2, HintsFacts DEF TypeOK, Charge, Goto, PC
  <2> QED BY <1>2, <2>1, <2>2 DEF TypeOK, Charge, Count
<1>3. CASE ChargeRefuses(r)
  <2>1. usage' \in [Owner \X Day -> Nat]
    BY <1>1, <1>3 DEF TypeOK, ChargeRefuses, Count
  <2> QED BY <1>3, <2>1 DEF TypeOK, ChargeRefuses, Count, Goto, PC, localVars
<1>4. CASE Begin(r)
  BY <1>4 DEF TypeOK, Begin, Goto, PC, storeVars
<1>5. CASE ListProgress(r)
  BY <1>1, <1>5 DEF TypeOK, ListProgress, Goto, PC, storeVars
<1> QED BY <1>2, <1>3, <1>4, <1>5

\* The reading of the level, and what is answered from the cache or not.
LEMMA TypeRead ==
  ASSUME TypeOK, NEW r \in Ask,
         CannedAnswers(r) \/ NotCanned(r) \/ CacheHit(r) \/ CacheMiss(r)
  PROVE  TypeOK'
<1>1. BeyondCache \in PC
  BY DEF BeyondCache, PC
<1>2. ASSUME ReadLevel(r), pc' \in [Ask -> PC]
      PROVE  TypeOK'
  <2>1. Climb(Cardinality(HintsSince(OwnerOf[r], since[r]))) \in Level
    BY HintsFacts, ClimbFacts
  <2> QED BY <1>2, <2>1 DEF TypeOK, ReadLevel, storeVars
<1>3. CASE CannedAnswers(r)
  BY <1>2, <1>3 DEF TypeOK, CannedAnswers, Goto, PC
<1>4. CASE NotCanned(r)
  <2>1. (IF r \in Question THEN BeyondCache ELSE "cache") \in PC
    BY <1>1 DEF PC
  <2> QED BY <1>2, <1>4, <2>1 DEF TypeOK, NotCanned, Goto
<1>5. CASE CacheHit(r)
  <2>1. CacheKey(r) \in Key
    BY Constants DEF CacheKey, Key, TypeOK
  <2> QED BY <1>5, <2>1 DEF TypeOK, CacheHit, Goto, PC, storeVars
<1>6. CASE CacheMiss(r)
  BY <1>1, <1>6 DEF TypeOK, CacheMiss, Goto, storeVars, localVars
<1> QED BY <1>3, <1>4, <1>5, <1>6

\* The budget and the model.
LEMMA TypeModel ==
  ASSUME TypeOK, NEW r \in Ask,
         WithinBudget(r) \/ Accept(r) \/ Reject(r) \/ CompleteFails(r)
  PROVE  TypeOK'
<1>1. DayOf(asked[r]) \in Day
  BY Constants DEF TypeOK
<1>2. CASE WithinBudget(r)
  <2> DEFINE bumped == [calls EXCEPT ![DayOf(asked[r])] = @ + 1]
  <2>1. calls' \in [Day -> Nat]
    <3>1. calls \in [Day -> Nat] /\ bumped \in [Day -> Nat]
      BY <1>1 DEF TypeOK
    <3>2. calls' \in {calls, bumped}
      BY <1>2 DEF WithinBudget
    <3> QED BY <3>1, <3>2
  <2>2. pc' \in [Ask -> PC]
    BY <1>2 DEF TypeOK, WithinBudget, Goto, PC
  <2> QED BY <1>2, <2>1, <2>2 DEF TypeOK, WithinBudget, localVars
<1>3. ASSUME Completing(r), pc' \in [Ask -> PC], text' \in [Ask -> Reply \cup {NoReply}]
      PROVE  TypeOK'
  <2>1. completed' \in [Day -> Nat]
    BY <1>1, <1>3 DEF TypeOK, Completing
  <2> QED BY <1>3, <2>1 DEF TypeOK, Completing, storeVars
<1>4. CASE Accept(r)
  <2>1. ReplyTo(r, FALSE) \in Reply
    BY DEF TypeOK, ReplyTo, Reply
  <2> QED BY <1>3, <1>4, <2>1 DEF TypeOK, Accept, Goto, PC
<1>5. CASE Reject(r)
  BY <1>3, <1>5 DEF TypeOK, Reject, Goto, PC
<1>6. CASE CompleteFails(r)
  BY <1>3, <1>6 DEF TypeOK, CompleteFails, Goto, PC
<1> QED BY <1>2, <1>4, <1>5, <1>6

\* The writes at the end, and the end without one.
LEMMA TypeEnd ==
  ASSUME TypeOK, NEW r \in Ask, PutCache(r) \/ CreateHint(r) \/ Abort(r)
  PROVE  TypeOK'
<1>1. CASE PutCache(r)
  <2>1. CacheKey(r) \in Key
    BY Constants DEF CacheKey, Key, TypeOK
  <2>2. cache' \in [Key -> Reply \cup {NoReply}]
    BY <1>1, <2>1 DEF TypeOK, PutCache
  <2> QED BY <1>1, <2>2 DEF TypeOK, PutCache, Goto, PC, localVars
<1>2. CASE CreateHint(r)
  <2>1. HintOf(r) \in Hint
    BY DEF TypeOK, HintOf, Hint
  <2>2. hints' \in Seq(Hint)
    BY <1>2, <2>1 DEF TypeOK, CreateHint
  <2> QED BY <1>2, <2>2, TypeLeave DEF TypeOK, CreateHint
<1>3. CASE Abort(r)
  BY <1>3, TypeLeave DEF TypeOK, Abort, storeVars
<1> QED BY <1>1, <1>2, <1>3

\* Passes, sign-ins and the clock.
LEMMA TypeWorld ==
  ASSUME TypeOK,
         \/ \E o \in Owner, t \in Time : Pass(o, t)
         \/ \E d \in Device, s \in Student : LinkDevice(d, s)
         \/ Tick
  PROVE  TypeOK'
<1>1. \A t, u \in Time \cup {Never} : Earliest(t, u) \in Time \cup {Never}
  BY DEF Earliest
<1>2. ASSUME NEW o \in Owner, NEW t \in Time, Pass(o, t) PROVE TypeOK'
  <2>1. passedAt' \in [Owner -> Time \cup {Never}]
    BY <1>1, <1>2 DEF TypeOK, Pass
  <2> QED BY <1>2, <2>1 DEF TypeOK, Pass, localVars
<1>3. ASSUME NEW d \in Device, NEW s \in Student, LinkDevice(d, s) PROVE TypeOK'
  <2>1. d \in Owner /\ s \in Owner
    BY DEF Owner
  <2>2. passedAt' \in [Owner -> Time \cup {Never}]
    BY <1>1, <1>3, <2>1 DEF TypeOK, LinkDevice
  <2> QED BY <1>3, <2>2 DEF TypeOK, LinkDevice, localVars
<1>4. CASE Tick
  <2>1. now' \in Time
    BY <1>4, Constants DEF TypeOK, Tick, Time
  <2> QED BY <1>4, <2>1 DEF TypeOK, Tick, storeVars, localVars
<1> QED BY <1>2, <1>3, <1>4

\* The state has its shape at the start.
LEMMA InitTypeOK == Init => TypeOK
<1> SUFFICES ASSUME Init PROVE TypeOK
  OBVIOUS
<1>1. hints \in Seq(Hint)
  BY DEF Init
<1> QED BY <1>1, Constants, ZeroIsDay DEF Init, TypeOK, PC

\* Every step keeps it.
LEMMA NextTypeOK == TypeOK /\ [Next]_vars => TypeOK'
<1> SUFFICES ASSUME TypeOK, [Next]_vars PROVE TypeOK'
  OBVIOUS
<1>1. CASE UNCHANGED vars
  BY <1>1 DEF TypeOK, vars, storeVars, localVars
<1>2. CASE Next
  BY <1>2, TypeEnter, TypeRead, TypeModel, TypeEnd, TypeWorld DEF Next, HintStep
<1> QED BY <1>1, <1>2

\* Every reachable state of Hints has its shape.
THEOREM TypeCorrect == Spec => []TypeOK
BY InitTypeOK, NextTypeOK, PTL DEF Spec

-----------------------------------------------------------------------------
(* Texts: CacheFits and ShownFits                                          *)

\* An ask that ends holds no text; the others keep theirs.
LEMMA TextLeave ==
  ASSUME TypeOK, TextInv, NEW r \in Ask, Leave(r), UNCHANGED <<cache, hints>>
  PROVE  TextInv'
BY DEF TypeOK, TextInv, TextFits, CacheFits, ShownFits, Leave, Goto

\* The steps that hold no text yet.
LEMMA TextBefore ==
  ASSUME TypeOK, TextInv, NEW r \in Ask,
         \/ Charge(r) \/ ChargeRefuses(r) \/ Begin(r) \/ ListProgress(r)
         \/ CannedAnswers(r) \/ NotCanned(r)
  PROVE  TextInv'
<1>1. UNCHANGED <<cache, hints, text>>
  BY DEF Charge, ChargeRefuses, Count, localVars, Begin, ListProgress, storeVars,
         CannedAnswers, NotCanned, ReadLevel
<1>2. CacheFits' /\ ShownFits'
  BY <1>1 DEF TextInv, CacheFits, ShownFits
<1>3. pc[r] \in {"idle", "begin", "ladder", "since"}
  BY DEF Charge, ChargeRefuses, Count, Begin, ListProgress, CannedAnswers, NotCanned, ReadLevel, At
<1>4. text[r] = NoReply
  BY <1>3 DEF TextInv
<1>5. \A q \in Ask : q # r => pc'[q] = pc[q] /\ level'[q] = level[q]
  BY DEF TypeOK, Charge, ChargeRefuses, localVars, Begin, ListProgress, CannedAnswers, NotCanned,
         ReadLevel, Goto
<1>6. pc'[r] \in {"cache", "put"} => r \notin Question
  BY DEF TypeOK, Charge, ChargeRefuses, Begin, ListProgress, CannedAnswers, NotCanned, Goto,
         BeyondCache
<1> QED BY <1>1, <1>2, <1>4, <1>5, <1>6 DEF TextInv, TextFits

\* The steps between the cache and the store.
LEMMA TextModel ==
  ASSUME TypeOK, TextInv, NEW r \in Ask,
         \/ CacheHit(r) \/ CacheMiss(r) \/ WithinBudget(r)
         \/ Accept(r) \/ Reject(r) \/ CompleteFails(r)
  PROVE  TextInv'
<1>1. UNCHANGED <<cache, hints, level>>
  BY DEF CacheHit, CacheMiss, WithinBudget, Accept, Reject, CompleteFails, Completing,
         storeVars, localVars
<1>2. CacheFits' /\ ShownFits'
  BY <1>1 DEF TextInv, CacheFits, ShownFits
<1>3. \A q \in Ask : q # r => pc'[q] = pc[q] /\ text'[q] = text[q]
  BY DEF TypeOK, CacheHit, CacheMiss, WithinBudget, Accept, Reject, CompleteFails, localVars, Goto
<1>4. pc'[r] \in {"call", "retry", "store", "budget", "put"}
      /\ (pc'[r] = "put" => r \notin Question)
  BY DEF TypeOK, CacheHit, CacheMiss, WithinBudget, Accept, Reject, CompleteFails, Goto, BeyondCache
<1>5. text'[r] # NoReply => TextFits(r, text'[r])
  <2>1. CASE CacheHit(r)
    <3>1. text'[r] = cache[<<MistakeOf[r], level[r]>>] /\ At(r, "cache")
      BY <2>1 DEF TypeOK, CacheHit, CacheKey
    <3>2. MistakeOf[r] \in Mistake /\ level[r] \in Level
      BY Constants DEF TypeOK
    <3> QED BY <3>1, <3>2 DEF TextInv, CacheFits, TextFits, At
  <2>2. CASE Accept(r)
    BY <2>2 DEF TypeOK, Accept, ReplyTo, TextFits
  <2>3. CASE CacheMiss(r) \/ WithinBudget(r) \/ Reject(r) \/ CompleteFails(r)
    <3>1. text'[r] = text[r]
      BY <2>3 DEF CacheMiss, WithinBudget, Reject, CompleteFails, localVars
    <3> QED BY <3>1 DEF TextInv
  <2> QED BY <2>1, <2>2, <2>3
<1> QED BY <1>1, <1>2, <1>3, <1>4, <1>5 DEF TextInv, TextFits

\* What is put into the cache was written for its key.
LEMMA TextPut ==
  ASSUME TypeOK, TextInv, NEW r \in Ask, PutCache(r)
  PROVE  TextInv'
<1>1. UNCHANGED <<hints, level, text>> /\ r \notin Question
  BY DEF PutCache, localVars, TextInv, At
<1>2. \A q \in Ask : pc'[q] = IF q = r THEN "store" ELSE pc[q]
  BY DEF TypeOK, PutCache, Goto
<1>3. CacheFits'
  <2> DEFINE put == [cache EXCEPT ![CacheKey(r)] = text[r]]
  <2> SUFFICES ASSUME NEW m \in Mistake, NEW l \in Level, cache'[<<m, l>>] # NoReply
               PROVE  LET reply == cache'[<<m, l>>] IN
                        /\ ~reply.leaks
                        /\ reply.for \notin Question
                        /\ MistakeOf[reply.for] = m /\ reply.level = l
    BY DEF CacheFits
  <2>1. cache' \in {cache, put}
    BY DEF PutCache
  <2>2. <<m, l>> \in Key
    BY DEF Key
  <2>3. CASE cache'[<<m, l>>] = cache[<<m, l>>]
    BY <2>3 DEF TextInv, CacheFits
  <2>4. CASE <<m, l>> = CacheKey(r) /\ cache'[<<m, l>>] = text[r]
    BY <1>1, <2>4 DEF TextInv, TextFits, CacheKey
  <2>5. put[<<m, l>>] = IF <<m, l>> = CacheKey(r) THEN text[r] ELSE cache[<<m, l>>]
    BY <2>2 DEF TypeOK
  <2> QED BY <2>1, <2>3, <2>4, <2>5
<1> QED BY <1>1, <1>2, <1>3 DEF TextInv, TextFits, ShownFits

\* What is stored fits whoever asked.
LEMMA TextStore ==
  ASSUME TypeOK, TextInv, NEW r \in Ask, CreateHint(r)
  PROVE  TextInv'
<1>1. UNCHANGED cache /\ hints' = Append(hints, HintOf(r)) /\ Leave(r)
  BY DEF CreateHint
<1>2. ShownFits'
  <2> SUFFICES ASSUME NEW i \in DOMAIN hints', hints'[i].text # NoReply
               PROVE  LET h == hints'[i]
                          reply == h.text IN
                        /\ ~reply.leaks
                        /\ reply.level = h.level
                        /\ h.ask \in Question => reply.for = h.ask
                        /\ h.ask \notin Question =>
                             reply.for \notin Question /\ MistakeOf[reply.for] = MistakeOf[h.ask]
    BY DEF ShownFits
  <2>1. (i \in DOMAIN hints /\ hints'[i] = hints[i]) \/ hints'[i] = HintOf(r)
    BY <1>1 DEF TypeOK
  <2>2. CASE i \in DOMAIN hints /\ hints'[i] = hints[i]
    BY <2>2 DEF TextInv, ShownFits
  <2>3. CASE hints'[i] = HintOf(r)
    BY <2>3 DEF TextInv, TextFits, HintOf
  <2> QED BY <2>1, <2>2, <2>3
<1> QED BY <1>1, <1>2 DEF TypeOK, TextInv, TextFits, CacheFits, Leave, Goto

\* Nothing is cached, shown or held at the start.
LEMMA InitTextInv == Init => TextInv
<1> SUFFICES ASSUME Init PROVE TextInv
  OBVIOUS
<1>1. CacheFits /\ ShownFits
  BY DEF Init, CacheFits, ShownFits, Key
<1> QED BY <1>1 DEF Init, TextInv

\* Every step keeps what is cached, shown and held fitting.
LEMMA NextTextInv == TypeOK /\ TextInv /\ [Next]_vars => TextInv'
<1> SUFFICES ASSUME TypeOK, TextInv, [Next]_vars PROVE TextInv'
  OBVIOUS
<1>1. CASE UNCHANGED <<cache, hints, pc, text, level>>
  BY <1>1 DEF TextInv, TextFits, CacheFits, ShownFits
<1>2. ASSUME NEW r \in Ask, Abort(r) PROVE TextInv'
  BY <1>2, TextLeave DEF Abort, storeVars
<1>3. CASE \/ \E o \in Owner, t \in Time : Pass(o, t)
           \/ \E d \in Device, s \in Student : LinkDevice(d, s)
           \/ Tick
  BY <1>1, <1>3 DEF Pass, LinkDevice, Tick, localVars, storeVars
<1>4. CASE UNCHANGED vars
  BY <1>1, <1>4 DEF vars, storeVars, localVars
<1> QED BY <1>2, <1>3, <1>4, TextBefore, TextModel, TextPut, TextStore DEF Next, HintStep

\* The cache and every text shown fit in every reachable state.
LEMMA TextInvariant == Spec => []TextInv
BY InitTypeOK, NextTypeOK, InitTextInv, NextTextInv, PTL DEF Spec

\* What the cache serves was checked for leaks, answers no question, and was
\* written for the mistake and the level of its key.
THEOREM CacheServesWhatFits == Spec => []CacheFits
<1>1. TextInv => CacheFits
  BY DEF TextInv
<1> QED BY <1>1, TextInvariant, PTL

\* No stored hint leaks, and each answers the question or the mistake, at the
\* level, that it was asked for.
THEOREM HintsFit == Spec => []ShownFits
<1>1. TextInv => ShownFits
  BY DEF TextInv
<1> QED BY <1>1, TextInvariant, PTL

-----------------------------------------------------------------------------
(* The daily count: HintsLimited                                           *)

\* Only the ask that steps may begin or cease to be owed a hint.
LEMMA OwedMoved ==
  ASSUME NEW p, NEW c, NEW p2, NEW c2, NEW r,
         \A q \in Ask : q # r => p2[q] = p[q] /\ c2[q] = c[q],
         NEW o, NEW d, IsFiniteSet(Owed(p, c, o, d))
  PROVE  LET S == Owed(p, c, o, d)
             T == Owed(p2, c2, o, d) IN
         /\ IsFiniteSet(T)
         /\ Cardinality(S) \in Nat /\ Cardinality(T) \in Nat
         /\ Cardinality(T) = IF r \in S
                             THEN IF r \in T THEN Cardinality(S) ELSE Cardinality(S) - 1
                             ELSE IF r \in T THEN Cardinality(S) + 1 ELSE Cardinality(S)
<1> DEFINE S == Owed(p, c, o, d)
           T == Owed(p2, c2, o, d)
<1>1. T \ {r} = S \ {r}
  BY DEF Owed
<1> HIDE DEF S, T
<1>2. IsFiniteSet(S)
  BY DEF S
<1>3. /\ IsFiniteSet(T)
      /\ Cardinality(S) \in Nat /\ Cardinality(T) \in Nat
      /\ Cardinality(T) = IF r \in S
                          THEN IF r \in T THEN Cardinality(S) ELSE Cardinality(S) - 1
                          ELSE IF r \in T THEN Cardinality(S) + 1 ELSE Cardinality(S)
  BY <1>1, <1>2, Moved
<1> QED BY <1>3 DEF S, T

\* A new hint is one more of its owner's and of its day's.
LEMMA GivenAppend ==
  ASSUME TypeOK, NEW h \in Hint, NEW o, NEW d
  PROVE  Cardinality(Given(Append(hints, h), o, d)) =
           Cardinality(Given(hints, o, d)) + IF OwnerOf[h.ask] = o /\ h.counted = d THEN 1 ELSE 0
<1> DEFINE S == Given(hints, o, d)
           T == Given(Append(hints, h), o, d)
           n == Len(hints) + 1
<1>1. n \notin S /\ (n \in T <=> OwnerOf[h.ask] = o /\ h.counted = d)
  BY DEF TypeOK, Given
<1>2. T \ {n} = S \ {n}
  BY DEF TypeOK, Given
<1>3. IsFiniteSet(S) /\ Cardinality(S) \in Nat
  BY HintsFacts
<1> HIDE DEF S, T, n
<1>4. Cardinality(T) = IF n \in T THEN Cardinality(S) + 1 ELSE Cardinality(S)
  BY <1>1, <1>2, <1>3, Moved
<1> QED BY <1>1, <1>3, <1>4 DEF S, T

\* A charge makes the ask owed, and counts it.
LEMMA CountCharge ==
  ASSUME TypeOK, CountInv, NEW r \in Ask, Charge(r) \/ ChargeRefuses(r)
  PROVE  CountInv'
<1>1. DayOf(now) \in Day /\ OwnerOf[r] \in Owner /\ pc[r] = "idle" /\ hints' = hints
  BY Constants DEF TypeOK, Charge, ChargeRefuses, Count, At
<1>2. \A o \in Owner, d \in Day :
        usage'[<<o, d>>] = IF o = OwnerOf[r] /\ d = DayOf(now) THEN usage[<<o, d>>] + 1
                                                               ELSE usage[<<o, d>>]
  BY <1>1 DEF TypeOK, Charge, ChargeRefuses, Count
<1>3. \A q \in Ask : q # r => pc'[q] = pc[q] /\ counted'[q] = counted[q]
  BY DEF TypeOK, Charge, ChargeRefuses, Goto, localVars
<1> SUFFICES ASSUME NEW o \in Owner, NEW d \in Day
             PROVE  /\ IsFiniteSet(Owed(pc', counted', o, d))
                    /\ Cardinality(Given(hints, o, d)) + Cardinality(Owed(pc', counted', o, d))
                         <= usage'[<<o, d>>]
                    /\ Cardinality(Given(hints, o, d)) + Cardinality(Owed(pc', counted', o, d))
                         <= Limit(o)
  BY <1>1 DEF CountInv
<1> DEFINE S == Owed(pc, counted, o, d)
           T == Owed(pc', counted', o, d)
           g == Cardinality(Given(hints, o, d))
<1>4. IsFiniteSet(S) /\ g + Cardinality(S) <= usage[<<o, d>>] /\ g + Cardinality(S) <= Limit(o)
  BY DEF CountInv
<1>5. g \in Nat /\ usage[<<o, d>>] \in Nat /\ Limit(o) \in Nat
  BY HintsFacts, Constants DEF TypeOK
<1>6. r \notin S
  BY <1>1 DEF Owed
<1>7. IsFiniteSet(T) /\ Cardinality(S) \in Nat
      /\ Cardinality(T) = IF r \in T THEN Cardinality(S) + 1 ELSE Cardinality(S)
  BY <1>3, <1>4, <1>6, OwedMoved
<1>8. r \in T => /\ o = OwnerOf[r] /\ d = DayOf(now)
                 /\ usage'[<<o, d>>] <= Limit(o)
  <2>1. CASE Charge(r)
    BY <1>1, <2>1 DEF TypeOK, Charge, CountedNow, Owed
  <2>2. CASE ChargeRefuses(r)
    BY <2>2 DEF TypeOK, ChargeRefuses, Goto, Owed
  <2> QED BY <2>1, <2>2
<1> HIDE DEF S, T, g
<1>9. g + Cardinality(T) <= usage'[<<o, d>>] /\ g + Cardinality(T) <= Limit(o)
  BY <1>2, <1>4, <1>5, <1>7, <1>8
<1> QED BY <1>7, <1>9 DEF T, g

\* A hint that is stored was owed; an ask that ends is owed none.
LEMMA CountEnd ==
  ASSUME TypeOK, CountInv, NEW r \in Ask, CreateHint(r) \/ Abort(r)
  PROVE  CountInv'
<1>1. usage' = usage /\ Leave(r) /\ pc[r] \notin {"idle", "done"}
  BY DEF CreateHint, Abort, storeVars, At
<1>2. \A q \in Ask : q # r => pc'[q] = pc[q] /\ counted'[q] = counted[q]
  BY <1>1 DEF TypeOK, Leave, Goto
<1>3. pc'[r] = "done"
  BY <1>1 DEF TypeOK, Leave, Goto
<1> SUFFICES ASSUME NEW o \in Owner, NEW d \in Day
             PROVE  /\ IsFiniteSet(Owed(pc', counted', o, d))
                    /\ Cardinality(Given(hints', o, d)) + Cardinality(Owed(pc', counted', o, d))
                         <= usage[<<o, d>>]
                    /\ Cardinality(Given(hints', o, d)) + Cardinality(Owed(pc', counted', o, d))
                         <= Limit(o)
  BY <1>1 DEF CountInv
<1> DEFINE S == Owed(pc, counted, o, d)
           T == Owed(pc', counted', o, d)
           g == Cardinality(Given(hints, o, d))
           g2 == Cardinality(Given(hints', o, d))
<1>4. IsFiniteSet(S) /\ g + Cardinality(S) <= usage[<<o, d>>] /\ g + Cardinality(S) <= Limit(o)
  BY DEF CountInv
<1>5. g \in Nat /\ usage[<<o, d>>] \in Nat /\ Limit(o) \in Nat
  BY HintsFacts, Constants DEF TypeOK
<1>6. r \notin T /\ (r \in S <=> OwnerOf[r] = o /\ counted[r] = d)
  BY <1>1, <1>3 DEF Owed
<1>7. IsFiniteSet(T) /\ Cardinality(S) \in Nat /\ Cardinality(T) \in Nat
      /\ Cardinality(T) = IF r \in S THEN Cardinality(S) - 1 ELSE Cardinality(S)
  BY <1>2, <1>4, <1>6, OwedMoved
<1>8. g2 = g \/ (r \in S /\ g2 = g + 1)
  <2>1. CASE Abort(r)
    BY <2>1 DEF Abort, storeVars
  <2>2. CASE CreateHint(r)
    <3>1. HintOf(r) \in Hint /\ HintOf(r).ask = r /\ HintOf(r).counted = counted[r]
      BY DEF TypeOK, HintOf, Hint
    <3>2. g2 = g + IF OwnerOf[r] = o /\ counted[r] = d THEN 1 ELSE 0
      BY <2>2, <3>1, GivenAppend DEF CreateHint
    <3> QED BY <1>5, <1>6, <3>2
  <2> QED BY <2>1, <2>2
<1> HIDE DEF S, T, g, g2
<1>9. g2 + Cardinality(T) <= usage[<<o, d>>] /\ g2 + Cardinality(T) <= Limit(o)
  BY <1>4, <1>5, <1>7, <1>8
<1> QED BY <1>7, <1>9 DEF T, g2

\* The steps in between change nothing of it.
LEMMA CountKept ==
  ASSUME TypeOK, CountInv, NEW r \in Ask,
         \/ Begin(r) \/ ListProgress(r) \/ CannedAnswers(r) \/ NotCanned(r) \/ CacheHit(r)
         \/ CacheMiss(r) \/ WithinBudget(r) \/ Accept(r) \/ Reject(r) \/ CompleteFails(r)
         \/ PutCache(r)
  PROVE  CountInv'
<1>1. UNCHANGED <<usage, hints, counted>>
  BY DEF Begin, ListProgress, CannedAnswers, NotCanned, ReadLevel, CacheHit, CacheMiss,
         WithinBudget, Accept, Reject, CompleteFails, Completing, PutCache, storeVars, localVars
<1>2. pc[r] \notin {"idle", "done"} /\ pc'[r] \notin {"idle", "done"}
  BY DEF TypeOK, Begin, ListProgress, CannedAnswers, NotCanned, ReadLevel, CacheHit, CacheMiss,
         WithinBudget, Accept, Reject, CompleteFails, Completing, PutCache, At, Goto, BeyondCache
<1>3. \A q \in Ask : q # r => pc'[q] = pc[q]
  BY DEF TypeOK, Begin, ListProgress, CannedAnswers, NotCanned, CacheHit, CacheMiss,
         WithinBudget, Accept, Reject, CompleteFails, PutCache, Goto
<1>4. \A o, d : Owed(pc', counted, o, d) = Owed(pc, counted, o, d)
  BY <1>2, <1>3 DEF Owed
<1> QED BY <1>1, <1>4 DEF CountInv

\* At the start no hint is given and none is owed.
LEMMA InitCountInv == Init => CountInv
<1> SUFFICES ASSUME Init, NEW o \in Owner, NEW d \in Day
             PROVE  /\ IsFiniteSet(Owed(pc, counted, o, d))
                    /\ Cardinality(Given(hints, o, d)) + Cardinality(Owed(pc, counted, o, d))
                         <= usage[<<o, d>>]
                    /\ Cardinality(Given(hints, o, d)) + Cardinality(Owed(pc, counted, o, d))
                         <= Limit(o)
  BY DEF CountInv
<1>1. Owed(pc, counted, o, d) = {} /\ Given(hints, o, d) = {} /\ usage[<<o, d>>] = 0
  BY DEF Init, Owed, Given
<1> QED BY <1>1, FS_EmptySet, Constants

\* Every step keeps hints given and owed counted and within the limit.
LEMMA NextCountInv == TypeOK /\ CountInv /\ [Next]_vars => CountInv'
<1> SUFFICES ASSUME TypeOK, CountInv, [Next]_vars PROVE CountInv'
  OBVIOUS
<1>1. CASE UNCHANGED <<usage, hints, pc, counted>>
  BY <1>1 DEF CountInv
<1>2. CASE \/ \E o \in Owner, t \in Time : Pass(o, t)
           \/ \E d \in Device, s \in Student : LinkDevice(d, s)
           \/ Tick
  BY <1>1, <1>2 DEF Pass, LinkDevice, Tick, localVars, storeVars
<1>3. CASE UNCHANGED vars
  BY <1>1, <1>3 DEF vars, storeVars, localVars
<1> QED BY <1>2, <1>3, CountCharge, CountKept, CountEnd DEF Next, HintStep

\* The hints an owner is given for asks of one day stay within the limit, and
\* each was counted, also when midnight falls into an ask.
THEOREM HintsStayLimited == Spec => []HintsLimited
<1>1. Spec => [](TypeOK /\ CountInv)
  BY InitTypeOK, NextTypeOK, InitCountInv, NextCountInv, PTL DEF Spec
<1>2. TypeOK /\ CountInv => HintsLimited
  <2> SUFFICES ASSUME TypeOK, CountInv, NEW o \in Owner, NEW d \in Day
               PROVE  LET n == Cardinality({i \in DOMAIN hints :
                                 OwnerOf[hints[i].ask] = o /\ hints[i].counted = d}) IN
                        n <= Limit(o) /\ n <= usage[<<o, d>>]
    BY DEF HintsLimited
  <2>1. Cardinality(Given(hints, o, d)) \in Nat /\ Cardinality(Owed(pc, counted, o, d)) \in Nat
    BY HintsFacts, FS_CardinalityType DEF CountInv
  <2>2. usage[<<o, d>>] \in Nat /\ Limit(o) \in Nat
    BY Constants DEF TypeOK
  <2>3. /\ Cardinality(Given(hints, o, d)) + Cardinality(Owed(pc, counted, o, d)) <= usage[<<o, d>>]
        /\ Cardinality(Given(hints, o, d)) + Cardinality(Owed(pc, counted, o, d)) <= Limit(o)
    BY DEF CountInv
  <2> QED BY <2>1, <2>2, <2>3 DEF Given
<1> QED BY <1>1, <1>2, PTL

-----------------------------------------------------------------------------
(* The budget: BudgetBounds                                                *)

\* Only the ask that steps may enter or leave the asks at l.
LEMMA DoingMoved ==
  ASSUME NEW p, NEW a, NEW p2, NEW a2, NEW r,
         \A q \in Ask : q # r => p2[q] = p[q] /\ a2[q] = a[q],
         NEW l, NEW d, IsFiniteSet(Doing(p, a, l, d))
  PROVE  LET S == Doing(p, a, l, d)
             T == Doing(p2, a2, l, d) IN
         /\ IsFiniteSet(T)
         /\ Cardinality(S) \in Nat /\ Cardinality(T) \in Nat
         /\ Cardinality(T) = IF r \in S
                             THEN IF r \in T THEN Cardinality(S) ELSE Cardinality(S) - 1
                             ELSE IF r \in T THEN Cardinality(S) + 1 ELSE Cardinality(S)
<1> DEFINE S == Doing(p, a, l, d)
           T == Doing(p2, a2, l, d)
<1>1. T \ {r} = S \ {r}
  BY DEF Doing
<1> HIDE DEF S, T
<1>2. IsFiniteSet(S)
  BY DEF S
<1>3. /\ IsFiniteSet(T)
      /\ Cardinality(S) \in Nat /\ Cardinality(T) \in Nat
      /\ Cardinality(T) = IF r \in S
                          THEN IF r \in T THEN Cardinality(S) ELSE Cardinality(S) - 1
                          ELSE IF r \in T THEN Cardinality(S) + 1 ELSE Cardinality(S)
  BY <1>1, <1>2, Moved
<1> QED BY <1>3 DEF S, T

\* The steps that neither pay nor call; an ask that ends may leave paid calls
\* unmade.
LEMMA BudgetLess ==
  ASSUME TypeOK, BudgetInv, NEW r \in Ask, UNCHANGED <<calls, completed>>,
         \A q \in Ask : q # r => pc'[q] = pc[q] /\ asked'[q] = asked[q],
         DailyModelBudget > 0 => pc'[r] \notin {"call", "retry"}
  PROVE  BudgetInv'
<1> SUFFICES ASSUME DailyModelBudget > 0, NEW d \in Day
             PROVE  /\ IsFiniteSet(Doing(pc', asked', "call", d))
                    /\ IsFiniteSet(Doing(pc', asked', "retry", d))
                    /\ completed[d] + 2 * Cardinality(Doing(pc', asked', "call", d))
                         + Cardinality(Doing(pc', asked', "retry", d)) <= 2 * Paid(d)
  BY DEF BudgetInv, Paid
<1> DEFINE C == Doing(pc, asked, "call", d)
           R == Doing(pc, asked, "retry", d)
           C2 == Doing(pc', asked', "call", d)
           R2 == Doing(pc', asked', "retry", d)
<1>1. IsFiniteSet(C) /\ IsFiniteSet(R)
      /\ completed[d] + 2 * Cardinality(C) + Cardinality(R) <= 2 * Paid(d)
  BY DEF BudgetInv
<1>2. r \notin C2 /\ r \notin R2
  BY DEF Doing
<1>3. IsFiniteSet(C2) /\ Cardinality(C) \in Nat /\ Cardinality(C2) \in Nat
      /\ Cardinality(C2) = IF r \in C THEN Cardinality(C) - 1 ELSE Cardinality(C)
  BY <1>1, <1>2, DoingMoved
<1>4. IsFiniteSet(R2) /\ Cardinality(R) \in Nat /\ Cardinality(R2) \in Nat
      /\ Cardinality(R2) = IF r \in R THEN Cardinality(R) - 1 ELSE Cardinality(R)
  BY <1>1, <1>2, DoingMoved
<1>5. completed[d] \in Nat /\ Paid(d) \in Nat
  BY Constants DEF TypeOK, Paid
<1> HIDE DEF C, R, C2, R2
<1>6. completed[d] + 2 * Cardinality(C2) + Cardinality(R2) <= 2 * Paid(d)
  BY <1>1, <1>3, <1>4, <1>5
<1> QED BY <1>3, <1>4, <1>6 DEF C2, R2

\* An ask that may call has paid.
LEMMA BudgetPaid ==
  ASSUME TypeOK, BudgetInv, NEW r \in Ask, WithinBudget(r)
  PROVE  BudgetInv'
<1>1. /\ pc[r] = "budget" /\ asked' = asked /\ completed' = completed
      /\ \A q \in Ask : q # r => pc'[q] = pc[q]
      /\ DayOf(asked[r]) \in Day
  BY Constants DEF TypeOK, WithinBudget, At, Goto, localVars
<1>2. \/ /\ pc'[r] = "call"
         /\ \A e \in Day : calls'[e] = IF e = DayOf(asked[r]) THEN calls[e] + 1 ELSE calls[e]
         /\ calls'[DayOf(asked[r])] <= DailyModelBudget
      \/ /\ pc'[r] = "store"
         /\ \A e \in Day : calls'[e] \in {calls[e], calls[e] + 1}
  <2> DEFINE e0 == DayOf(asked[r])
             bumped == [calls EXCEPT ![e0] = @ + 1]
  <2>1. \/ calls' = bumped /\ bumped[e0] <= DailyModelBudget /\ Goto(r, "call")
        \/ calls' \in {calls, bumped} /\ Goto(r, "store")
    BY DEF WithinBudget
  <2>2. \A e \in Day : bumped[e] = IF e = e0 THEN calls[e] + 1 ELSE calls[e]
    BY DEF TypeOK
  <2>3. \A l : Goto(r, l) => pc'[r] = l
    BY DEF TypeOK, Goto
  <2> HIDE DEF bumped
  <2>4. CASE calls' = bumped /\ bumped[e0] <= DailyModelBudget /\ Goto(r, "call")
    BY <2>2, <2>3, <2>4
  <2>5. CASE calls' \in {calls, bumped} /\ Goto(r, "store")
    BY <2>2, <2>3, <2>5
  <2> QED BY <2>1, <2>4, <2>5
<1> SUFFICES ASSUME DailyModelBudget > 0, NEW d \in Day
             PROVE  /\ IsFiniteSet(Doing(pc', asked, "call", d))
                    /\ IsFiniteSet(Doing(pc', asked, "retry", d))
                    /\ completed[d] + 2 * Cardinality(Doing(pc', asked, "call", d))
                         + Cardinality(Doing(pc', asked, "retry", d)) <= 2 * Paid(d)'
  BY <1>1 DEF BudgetInv
<1> DEFINE C == Doing(pc, asked, "call", d)
           R == Doing(pc, asked, "retry", d)
           C2 == Doing(pc', asked, "call", d)
           R2 == Doing(pc', asked, "retry", d)
<1>3. IsFiniteSet(C) /\ IsFiniteSet(R)
      /\ completed[d] + 2 * Cardinality(C) + Cardinality(R) <= 2 * Paid(d)
  BY DEF BudgetInv
<1>4. r \notin C /\ r \notin R /\ r \notin R2
  BY <1>1, <1>2 DEF Doing
<1>5. IsFiniteSet(C2) /\ Cardinality(C) \in Nat /\ Cardinality(C2) \in Nat
      /\ Cardinality(C2) = IF r \in C2 THEN Cardinality(C) + 1 ELSE Cardinality(C)
  BY <1>1, <1>3, <1>4, DoingMoved
<1>6. IsFiniteSet(R2) /\ Cardinality(R) \in Nat /\ Cardinality(R2) = Cardinality(R)
  BY <1>1, <1>3, <1>4, DoingMoved
<1>7. completed[d] \in Nat /\ calls[d] \in Nat
  BY DEF TypeOK
<1>8. r \in C2 => pc'[r] = "call" /\ d = DayOf(asked[r])
  BY DEF Doing
<1>9. /\ Paid(d) \in Nat /\ Paid(d)' \in Nat /\ Paid(d) <= Paid(d)'
      /\ r \in C2 => Paid(d)' = Paid(d) + 1
  BY <1>2, <1>7, <1>8, Constants DEF Paid
<1> HIDE DEF C, R, C2, R2
<1>10. completed[d] + 2 * Cardinality(C2) + Cardinality(R2) <= 2 * Paid(d)'
  BY <1>3, <1>5, <1>6, <1>7, <1>9
<1> QED BY <1>5, <1>6, <1>10 DEF C2, R2

\* A call uses up what was kept for it.
LEMMA BudgetCall ==
  ASSUME TypeOK, BudgetInv, NEW r \in Ask, Accept(r) \/ Reject(r) \/ CompleteFails(r)
  PROVE  BudgetInv'
<1>1. /\ pc[r] \in {"call", "retry"} /\ asked' = asked /\ calls' = calls
      /\ \A q \in Ask : q # r => pc'[q] = pc[q]
      /\ \A e \in Day : completed'[e] = IF e = DayOf(asked[r]) THEN completed[e] + 1 ELSE completed[e]
  BY DEF TypeOK, Accept, Reject, CompleteFails, Completing, Goto, storeVars
<1>2. pc'[r] # "call" /\ (pc'[r] = "retry" => pc[r] = "call")
  BY DEF TypeOK, Accept, Reject, CompleteFails, Completing, Goto, At
<1> SUFFICES ASSUME DailyModelBudget > 0, NEW d \in Day
             PROVE  /\ IsFiniteSet(Doing(pc', asked, "call", d))
                    /\ IsFiniteSet(Doing(pc', asked, "retry", d))
                    /\ completed'[d] + 2 * Cardinality(Doing(pc', asked, "call", d))
                         + Cardinality(Doing(pc', asked, "retry", d)) <= 2 * Paid(d)
  BY <1>1 DEF BudgetInv, Paid
<1> DEFINE C == Doing(pc, asked, "call", d)
           R == Doing(pc, asked, "retry", d)
           C2 == Doing(pc', asked, "call", d)
           R2 == Doing(pc', asked, "retry", d)
           mine == d = DayOf(asked[r])
<1>3. IsFiniteSet(C) /\ IsFiniteSet(R)
      /\ completed[d] + 2 * Cardinality(C) + Cardinality(R) <= 2 * Paid(d)
  BY DEF BudgetInv
<1>4. /\ r \notin C2
      /\ r \in C <=> mine /\ pc[r] = "call"
      /\ r \in R <=> mine /\ pc[r] = "retry"
      /\ r \in R2 => mine /\ pc[r] = "call"
  BY <1>1, <1>2 DEF Doing
<1>5. IsFiniteSet(C2) /\ Cardinality(C) \in Nat /\ Cardinality(C2) \in Nat
      /\ Cardinality(C2) = IF r \in C THEN Cardinality(C) - 1 ELSE Cardinality(C)
  BY <1>1, <1>3, <1>4, DoingMoved
<1>6. IsFiniteSet(R2) /\ Cardinality(R) \in Nat /\ Cardinality(R2) \in Nat
      /\ Cardinality(R2) = IF r \in R
                           THEN IF r \in R2 THEN Cardinality(R) ELSE Cardinality(R) - 1
                           ELSE IF r \in R2 THEN Cardinality(R) + 1 ELSE Cardinality(R)
  BY <1>1, <1>3, DoingMoved
<1>7. completed[d] \in Nat /\ Paid(d) \in Nat
      /\ completed'[d] = IF mine THEN completed[d] + 1 ELSE completed[d]
  BY <1>1, Constants DEF TypeOK, Paid
<1> HIDE DEF C, R, C2, R2, mine
<1>8. completed'[d] + 2 * Cardinality(C2) + Cardinality(R2) <= 2 * Paid(d)
  BY <1>1, <1>3, <1>4, <1>5, <1>6, <1>7
<1> QED BY <1>5, <1>6, <1>8 DEF C2, R2

\* At the start nothing is paid, called or under way.
LEMMA InitBudgetInv == Init => BudgetInv
<1> SUFFICES ASSUME Init, NEW d \in Day
             PROVE  /\ IsFiniteSet(Doing(pc, asked, "call", d))
                    /\ IsFiniteSet(Doing(pc, asked, "retry", d))
                    /\ completed[d] + 2 * Cardinality(Doing(pc, asked, "call", d))
                         + Cardinality(Doing(pc, asked, "retry", d)) <= 2 * Paid(d)
  BY DEF BudgetInv
<1>1. /\ Doing(pc, asked, "call", d) = {} /\ Doing(pc, asked, "retry", d) = {}
      /\ completed[d] = 0 /\ calls[d] = 0
  BY DEF Init, Doing
<1> QED BY <1>1, FS_EmptySet, Constants DEF Paid

\* Every step keeps calls made and calls owed within what was paid.
LEMMA NextBudgetInv == TypeOK /\ BudgetInv /\ [Next]_vars => BudgetInv'
<1> SUFFICES ASSUME TypeOK, BudgetInv, [Next]_vars PROVE BudgetInv'
  OBVIOUS
<1>1. CASE UNCHANGED <<calls, completed, pc, asked>>
  BY <1>1 DEF BudgetInv, Paid
<1>2. CASE \/ \E o \in Owner, t \in Time : Pass(o, t)
           \/ \E d \in Device, s \in Student : LinkDevice(d, s)
           \/ Tick
  BY <1>1, <1>2 DEF Pass, LinkDevice, Tick, localVars, storeVars
<1>3. CASE UNCHANGED vars
  BY <1>1, <1>3 DEF vars, storeVars, localVars
<1>4. ASSUME NEW r \in Ask, Charge(r) \/ ChargeRefuses(r) \/ Begin(r) \/ ListProgress(r)
      PROVE  BudgetInv'
  <2>1. /\ UNCHANGED <<calls, completed>> /\ pc'[r] \notin {"call", "retry"}
        /\ \A q \in Ask : q # r => pc'[q] = pc[q] /\ asked'[q] = asked[q]
    BY <1>4 DEF TypeOK, Charge, ChargeRefuses, Count, Begin, ListProgress, Goto, storeVars, localVars
  <2> QED BY <2>1, BudgetLess
<1>5. ASSUME NEW r \in Ask,
             CannedAnswers(r) \/ NotCanned(r) \/ CacheHit(r) \/ CacheMiss(r) \/ PutCache(r)
      PROVE  BudgetInv'
  <2>1. /\ UNCHANGED <<calls, completed>>
        /\ DailyModelBudget > 0 => pc'[r] \notin {"call", "retry"}
        /\ \A q \in Ask : q # r => pc'[q] = pc[q] /\ asked'[q] = asked[q]
    BY <1>5 DEF TypeOK, CannedAnswers, NotCanned, ReadLevel, CacheHit, CacheMiss, PutCache, Goto,
                BeyondCache, storeVars, localVars
  <2> QED BY <2>1, BudgetLess
<1>6. ASSUME NEW r \in Ask, CreateHint(r) \/ Abort(r) PROVE BudgetInv'
  <2>1. /\ UNCHANGED <<calls, completed>> /\ pc'[r] \notin {"call", "retry"}
        /\ \A q \in Ask : q # r => pc'[q] = pc[q] /\ asked'[q] = asked[q]
    BY <1>6 DEF TypeOK, CreateHint, Abort, Leave, Goto, storeVars
  <2> QED BY <2>1, BudgetLess
<1> QED BY <1>2, <1>3, <1>4, <1>5, <1>6, BudgetPaid, BudgetCall DEF Next, HintStep

\* A unit of the daily budget pays for a call and its one retry, no more,
\* whatever asks run at once, fail or are retried.
THEOREM BudgetHolds == Spec => []BudgetBounds
<1>1. Spec => [](TypeOK /\ BudgetInv)
  BY InitTypeOK, NextTypeOK, InitBudgetInv, NextBudgetInv, PTL DEF Spec
<1>2. TypeOK /\ BudgetInv => BudgetBounds
  <2> SUFFICES ASSUME TypeOK, BudgetInv, DailyModelBudget > 0, NEW d \in Day
               PROVE  completed[d] <= 2 * DailyModelBudget
    BY DEF BudgetBounds
  <2> DEFINE C == Cardinality(Doing(pc, asked, "call", d))
             R == Cardinality(Doing(pc, asked, "retry", d))
  <2>1. C \in Nat /\ R \in Nat
    BY FS_CardinalityType DEF BudgetInv
  <2>2. completed[d] + 2 * C + R <= 2 * Paid(d)
    BY DEF BudgetInv
  <2>3. completed[d] \in Nat /\ Paid(d) \in Nat /\ Paid(d) <= DailyModelBudget
    BY Constants DEF TypeOK, Paid
  <2> HIDE DEF C, R
  <2> QED BY <2>1, <2>2, <2>3, Constants
<1> QED BY <1>1, <1>2, PTL

-----------------------------------------------------------------------------
(* The ladder: LevelEarned and LadderClimbs                                *)

\* The first hints of an owner are finite in number, and more among more.
LEMMA OfFacts ==
  ASSUME NEW hs, NEW o, NEW n \in Nat, NEW m \in 0..n
  PROVE  /\ IsFiniteSet(Of(hs, o, n)) /\ Cardinality(Of(hs, o, n)) \in Nat
         /\ Cardinality(Of(hs, o, m)) \in 0..Cardinality(Of(hs, o, n))
<1>1. IsFiniteSet(1..n)
  BY FS_Interval
<1>2. Of(hs, o, n) \in SUBSET (1..n)
  BY DEF Of
<1>3. IsFiniteSet(Of(hs, o, n))
  BY <1>1, <1>2, FS_Subset
<1>4. Of(hs, o, m) \in SUBSET Of(hs, o, n)
  BY DEF Of
<1>5. /\ IsFiniteSet(Of(hs, o, m))
      /\ Cardinality(Of(hs, o, m)) <= Cardinality(Of(hs, o, n))
  BY <1>3, <1>4, FS_Subset
<1> QED BY <1>3, <1>5, FS_CardinalityType

\* A new hint is not among the first ones.
LEMMA OfAppend ==
  ASSUME TypeOK, NEW h \in Hint, NEW o, NEW n \in 0..Len(hints)
  PROVE  Of(Append(hints, h), o, n) = Of(hints, o, n)
BY DEF TypeOK, Of

\* The steps that store no hint keep the levels of the hints stored.
LEMMA LevelKept ==
  ASSUME TypeOK, LevelInv, UNCHANGED hints,
         \A o \in Owner : passedAt'[o] = Never => passedAt[o] = Never,
         \A q \in Ask : LevelFits(q)'
  PROVE  LevelInv'
<1>1. LevelEarned'
  BY DEF LevelInv, LevelEarned, HintsOf
<1>2. LadderClimbs'
  <2>1. \A i \in DOMAIN hints : OwnerOf[hints[i].ask] \in Owner
    BY HintsFacts, Constants DEF Hint
  <2> QED BY <2>1 DEF LevelInv, LadderClimbs, HintsOf
<1> QED BY <1>1, <1>2 DEF LevelInv

\* What an ask's level needs is kept by steps that leave it alone.
LEMMA FitsKept ==
  ASSUME TypeOK, NEW q \in Ask, LevelFits(q), UNCHANGED hints,
         \A o \in Owner : passedAt'[o] = Never => passedAt[o] = Never,
         before'[q] = before[q], level'[q] = level[q], since'[q] = since[q],
         pc'[q] \in Leveled => pc[q] \in Leveled
  PROVE  LevelFits(q)'
BY Constants DEF LevelFits

\* The steps before the level is read.
LEMMA LevelBefore ==
  ASSUME TypeOK, LevelInv, NEW r \in Ask,
         Charge(r) \/ ChargeRefuses(r) \/ Begin(r) \/ ListProgress(r)
  PROVE  LevelInv'
<1>1. UNCHANGED <<hints, passedAt, level>> /\ pc'[r] \notin Leveled
  BY DEF TypeOK, Charge, ChargeRefuses, Count, Begin, ListProgress, Goto, storeVars, localVars,
         Leveled
<1>2. \A q \in Ask : q # r =>
        pc'[q] = pc[q] /\ before'[q] = before[q] /\ since'[q] = since[q]
  BY DEF TypeOK, Charge, ChargeRefuses, Begin, ListProgress, Goto, localVars
<1>3. before'[r] <= Len(hints)
  BY HintsFacts DEF TypeOK, LevelInv, LevelFits, Charge, ChargeRefuses, Begin, ListProgress, localVars
<1>4. passedAt[OwnerOf[r]] = Never => since'[r] = Never
  BY DEF TypeOK, LevelInv, LevelFits, Charge, ChargeRefuses, Begin, ListProgress, localVars
<1>5. LevelFits(r)'
  BY <1>1, <1>3, <1>4 DEF LevelInv, LevelFits
<1>6. \A q \in Ask : q # r => LevelFits(q)'
  BY <1>1, <1>2, FitsKept DEF LevelInv
<1> QED BY <1>1, <1>5, <1>6, LevelKept

\* The level that is read is earned, and climbs for an owner with no pass.
LEMMA LevelRead ==
  ASSUME TypeOK, LevelInv, NEW r \in Ask, CannedAnswers(r) \/ NotCanned(r)
  PROVE  LevelInv'
<1> DEFINE o == OwnerOf[r]
           H == HintsSince(o, since[r])
           n == Len(hints)
<1>1. /\ UNCHANGED <<hints, passedAt, before>> /\ ReadLevel(r)
      /\ \A q \in Ask : q # r => pc'[q] = pc[q]
  BY DEF TypeOK, CannedAnswers, NotCanned, ReadLevel, Goto, storeVars
<1>2. /\ level'[r] = Climb(Cardinality(H)) /\ since'[r] = Never
      /\ \A q \in Ask : q # r => level'[q] = level[q] /\ since'[q] = since[q]
  BY <1>1 DEF TypeOK, ReadLevel
<1>3. n \in Nat /\ before[r] \in 0..n
  BY HintsFacts DEF TypeOK, LevelInv, LevelFits
<1>4. /\ Cardinality(Of(hints, o, n)) \in Nat /\ IsFiniteSet(Of(hints, o, n))
      /\ Cardinality(Of(hints, o, before[r])) \in 0..Cardinality(Of(hints, o, n))
  BY <1>3, OfFacts
<1>5. Cardinality(H) \in 0..Cardinality(Of(hints, o, n))
  <2>1. H \in SUBSET Of(hints, o, n)
    BY HintsFacts DEF HintsSince, Of
  <2> QED BY <1>4, <2>1, FS_Subset, FS_CardinalityType
<1>6. passedAt[o] = Never => H = Of(hints, o, n)
  <2> SUFFICES ASSUME passedAt[o] = Never PROVE H = Of(hints, o, n)
    OBVIOUS
  <2>1. since[r] = -1
    BY DEF LevelInv, LevelFits, Never
  <2>2. \A i \in DOMAIN hints : hints[i].at \in Nat
    BY HintsFacts DEF Hint, Time
  <2> QED BY <2>1, <2>2, HintsFacts DEF HintsSince, Of
<1> HIDE DEF H
<1>7. level'[r] <= 1 + Cardinality(Of(hints, o, n))
  <2>1. Cardinality(H) \in Nat /\ Cardinality(H) <= Cardinality(Of(hints, o, n))
    BY <1>4, <1>5
  <2>2. \A k \in Nat : Climb(k) \in Level /\ Climb(k) <= k + 1
    BY ClimbFacts
  <2>3. level'[r] \in Level /\ level'[r] <= Cardinality(H) + 1
    BY <1>2, <2>1, <2>2
  <2> QED BY <1>4, <2>1, <2>3, Constants DEF Level
<1>8. passedAt[o] = Never => level'[r] >= Climb(Cardinality(Of(hints, o, before[r])))
  BY <1>2, <1>4, <1>6, ClimbFacts, Constants DEF Level
<1>9. LevelFits(r)'
  BY <1>1, <1>2, <1>3, <1>7, <1>8 DEF LevelFits
<1>10. \A q \in Ask : q # r => LevelFits(q)'
  BY <1>1, <1>2, FitsKept DEF LevelInv
<1> QED BY <1>1, <1>9, <1>10, LevelKept

\* The steps between the reading of the level and the hint.
LEMMA LevelAfter ==
  ASSUME TypeOK, LevelInv, NEW r \in Ask,
         \/ CacheHit(r) \/ CacheMiss(r) \/ WithinBudget(r) \/ Accept(r) \/ Reject(r)
         \/ CompleteFails(r) \/ PutCache(r)
  PROVE  LevelInv'
<1>1. UNCHANGED <<hints, passedAt, level, since, before>>
  BY DEF CacheHit, CacheMiss, WithinBudget, Accept, Reject, CompleteFails, Completing, PutCache,
         storeVars, localVars
<1>2. pc[r] \in Leveled /\ \A q \in Ask : q # r => pc'[q] = pc[q]
  BY DEF TypeOK, CacheHit, CacheMiss, WithinBudget, Accept, Reject, CompleteFails, Completing,
         PutCache, At, Goto, Leveled
<1>3. \A q \in Ask : LevelFits(q)'
  BY <1>1, <1>2, FitsKept DEF LevelInv
<1> QED BY <1>1, <1>3, LevelKept

\* An ask that ends has no level left to earn.
LEMMA LeaveFits ==
  ASSUME TypeOK, NEW r \in Ask, Leave(r), NEW n \in Nat, Len(hints') = n
  PROVE  LevelFits(r)'
<1>1. /\ pc'[r] = "done" /\ since'[r] = Never /\ level'[r] = 1 /\ before'[r] = 0
  BY DEF TypeOK, Leave, Goto
<1>2. Cardinality(Of(hints', OwnerOf[r], n)) \in Nat
  BY OfFacts
<1> QED BY <1>1, <1>2 DEF LevelFits, Leveled

\* A hint is stored with the level of its ask.
LEMMA LevelStore ==
  ASSUME TypeOK, LevelInv, NEW r \in Ask, CreateHint(r)
  PROVE  LevelInv'
<1> DEFINE h == HintOf(r)
           n == Len(hints)
<1>1. /\ hints' = Append(hints, h) /\ h \in Hint /\ UNCHANGED passedAt
      /\ Leave(r) /\ pc[r] = "store"
  BY DEF TypeOK, CreateHint, HintOf, Hint, At
<1>2. h.ask = r /\ h.level = level[r] /\ h.before = before[r]
  BY DEF HintOf
<1> HIDE DEF h
<1>3. /\ n \in Nat /\ Len(hints') = n + 1 /\ DOMAIN hints' = 1..n + 1 /\ DOMAIN hints = 1..n
      /\ hints'[n + 1] = h /\ \A i \in 1..n : hints'[i] = hints[i]
  BY <1>1, HintsFacts DEF TypeOK
<1>4. \A o : \A m \in 0..n : Of(hints', o, m) = Of(hints, o, m)
  BY <1>1, OfAppend
<1>5. \A q \in Ask : before[q] \in 0..n
  BY <1>3 DEF TypeOK, LevelInv, LevelFits
<1>6. \A i \in 1..n : hints[i].before \in 0..n
  BY <1>3, HintsFacts DEF LevelInv, Hint
<1>7. LevelEarned'
  <2> SUFFICES ASSUME NEW i \in 1..n + 1
               PROVE  hints'[i].level <=
                        1 + Cardinality(Of(hints', OwnerOf[hints'[i].ask], i - 1))
    BY <1>3 DEF LevelEarned, HintsOf, Of
  <2>1. Of(hints', OwnerOf[hints'[i].ask], i - 1) = Of(hints, OwnerOf[hints'[i].ask], i - 1)
    BY <1>3, <1>4
  <2>2. CASE i = n + 1
    BY <1>2, <1>3, <2>1, <2>2 DEF LevelInv, LevelFits
  <2>3. CASE i \in 1..n
    BY <1>3, <2>1, <2>3 DEF LevelInv, LevelEarned, HintsOf, Of
  <2> QED BY <1>3, <2>2, <2>3
<1>8. LadderClimbs'
  <2> SUFFICES ASSUME NEW i \in 1..n + 1, passedAt[OwnerOf[hints'[i].ask]] = Never
               PROVE  hints'[i].level >=
                        Climb(Cardinality(Of(hints', OwnerOf[hints'[i].ask], hints'[i].before)))
    BY <1>1, <1>3 DEF LadderClimbs, HintsOf, Of
  <2>1. CASE i = n + 1
    <3>1. Of(hints', OwnerOf[r], before[r]) = Of(hints, OwnerOf[r], before[r])
      BY <1>4, <1>5
    <3> QED BY <1>1, <1>2, <1>3, <2>1, <3>1 DEF LevelInv, LevelFits, Leveled
  <2>2. CASE i \in 1..n
    <3>1. Of(hints', OwnerOf[hints[i].ask], hints[i].before)
            = Of(hints, OwnerOf[hints[i].ask], hints[i].before)
      BY <1>4, <1>6, <2>2
    <3> QED BY <1>3, <2>2, <3>1 DEF LevelInv, LadderClimbs, HintsOf, Of
  <2> QED BY <1>3, <2>1, <2>2
<1>9. \A i \in DOMAIN hints' : hints'[i].before <= Len(hints')
  <2> SUFFICES ASSUME NEW i \in 1..n + 1 PROVE hints'[i].before <= n + 1
    BY <1>3
  <2>1. CASE i = n + 1
    BY <1>2, <1>3, <1>5, <2>1
  <2>2. CASE i \in 1..n
    BY <1>3, <1>6, <2>2
  <2> QED BY <1>3, <2>1, <2>2
<1>10. \A q \in Ask : LevelFits(q)'
  <2> SUFFICES ASSUME NEW q \in Ask PROVE LevelFits(q)'
    OBVIOUS
  <2>1. CASE q = r
    BY <1>1, <1>3, <2>1, LeaveFits
  <2>2. CASE q # r
    <3>1. /\ pc'[q] = pc[q] /\ since'[q] = since[q] /\ level'[q] = level[q]
          /\ before'[q] = before[q]
      BY <1>1, <2>2 DEF TypeOK, Leave, Goto
    <3>2. Of(hints', OwnerOf[q], before[q]) = Of(hints, OwnerOf[q], before[q])
      BY <1>4, <1>5
    <3>3. Cardinality(Of(hints', OwnerOf[q], n)) \in 0..Cardinality(Of(hints', OwnerOf[q], n + 1))
          /\ Cardinality(Of(hints', OwnerOf[q], n + 1)) \in Nat
      BY <1>3, OfFacts
    <3>4. Of(hints', OwnerOf[q], n) = Of(hints, OwnerOf[q], n)
      BY <1>3, <1>4
    <3>5. LevelFits(q) /\ level[q] \in Nat
      BY DEF LevelInv, TypeOK, Level
    <3>6. level[q] <= 1 + Cardinality(Of(hints', OwnerOf[q], n + 1))
      BY <1>3, <3>3, <3>4, <3>5 DEF LevelFits
    <3> QED BY <1>1, <1>3, <1>5, <3>1, <3>2, <3>5, <3>6 DEF LevelFits
  <2> QED BY <2>1, <2>2
<1> QED BY <1>7, <1>8, <1>9, <1>10 DEF LevelInv

\* An ask may end without a hint.
LEMMA LevelAbort ==
  ASSUME TypeOK, LevelInv, NEW r \in Ask, Abort(r)
  PROVE  LevelInv'
<1>1. UNCHANGED <<hints, passedAt>> /\ Leave(r)
  BY DEF Abort, storeVars
<1>2. LevelFits(r)'
  BY <1>1, HintsFacts, LeaveFits
<1>3. \A q \in Ask : q # r => /\ pc'[q] = pc[q] /\ since'[q] = since[q]
                              /\ level'[q] = level[q] /\ before'[q] = before[q]
  BY <1>1 DEF TypeOK, Leave, Goto
<1>4. \A q \in Ask : q # r => LevelFits(q)'
  BY <1>1, <1>3, FitsKept DEF LevelInv
<1> QED BY <1>1, <1>2, <1>4, LevelKept

\* A pass is never forgotten.
LEMMA LevelWorld ==
  ASSUME TypeOK, LevelInv,
         \/ \E o \in Owner, t \in Time : Pass(o, t)
         \/ \E d \in Device, s \in Student : LinkDevice(d, s)
         \/ Tick
         \/ UNCHANGED vars
  PROVE  LevelInv'
<1>1. UNCHANGED <<hints, pc, level, since, before>>
  BY DEF Pass, LinkDevice, Tick, vars, storeVars, localVars
<1>2. \A t, u \in Time \cup {Never} : Earliest(t, u) = Never => t = Never
  BY DEF Earliest, Time, Never
<1>3. \A o \in Owner : passedAt'[o] = Never => passedAt[o] = Never
  <2>1. ASSUME NEW p \in Owner, NEW t \in Time \cup {Never},
               passedAt' = [passedAt EXCEPT ![p] = Earliest(@, t)]
        PROVE  \A o \in Owner : passedAt'[o] = Never => passedAt[o] = Never
    BY <1>2, <2>1 DEF TypeOK
  <2>2. \A d \in Device : d \in Owner /\ passedAt[d] \in Time \cup {Never}
    BY DEF TypeOK, Owner
  <2>3. \A s \in Student : s \in Owner
    BY DEF Owner
  <2>4. CASE UNCHANGED passedAt
    BY <2>4
  <2>5. Tick \/ UNCHANGED vars => UNCHANGED passedAt
    BY DEF Tick, vars, storeVars
  <2> QED BY <2>1, <2>2, <2>3, <2>4, <2>5 DEF Pass, LinkDevice
<1>4. \A q \in Ask : LevelFits(q)'
  BY <1>1, <1>3, FitsKept DEF LevelInv
<1> QED BY <1>1, <1>3, <1>4, LevelKept

\* At the start there is no hint, and no ask is above the first level.
LEMMA InitLevelInv == Init => LevelInv
<1> SUFFICES ASSUME Init PROVE LevelInv
  OBVIOUS
<1>1. hints = <<>> /\ Len(hints) = 0 /\ DOMAIN hints = {}
  BY DEF Init
<1>2. LevelEarned /\ LadderClimbs
  BY <1>1 DEF LevelEarned, LadderClimbs
<1>3. \A q \in Ask : LevelFits(q)
  <2> SUFFICES ASSUME NEW q \in Ask PROVE LevelFits(q)
    OBVIOUS
  <2>1. Cardinality(Of(hints, OwnerOf[q], 0)) \in Nat
    BY OfFacts
  <2> QED BY <1>1, <2>1 DEF Init, LevelFits, Leveled
<1> QED BY <1>1, <1>2, <1>3 DEF LevelInv

\* The levels are earned and climb in every reachable state.
LEMMA LevelInvariant == Spec => []LevelInv
<1>1. TypeOK /\ LevelInv /\ [Next]_vars => LevelInv'
  BY LevelBefore, LevelRead, LevelAfter, LevelStore, LevelAbort, LevelWorld DEF Next, HintStep
<1> QED BY <1>1, InitTypeOK, NextTypeOK, InitLevelInv, PTL DEF Spec

\* Before a hint of level k its owner was given at least k - 1 hints, whatever
\* ran side by side and however passed_at moved.
THEOREM LevelsAreEarned == Spec => []LevelEarned
<1>1. LevelInv => LevelEarned
  BY DEF LevelInv
<1> QED BY <1>1, LevelInvariant, PTL

\* For an owner that has not passed, a hint is above every hint there was when
\* it was asked for, up to the last level.
THEOREM LevelsClimb == Spec => []LadderClimbs
<1>1. LevelInv => LadderClimbs
  BY DEF LevelInv
<1> QED BY <1>1, LevelInvariant, PTL

=============================================================================

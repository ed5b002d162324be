-------------------------- MODULE AttemptsProofs ---------------------------
(***************************************************************************)
(* Proofs about Attempts, for any requests, devices, browsers, accounts    *)
(* and times and for both stores.  The merge of two standings is taken     *)
(* first, away from the steps; IInv is then shown to be inductive part by  *)
(* part, and the safety properties and the action properties follow.       *)
(***************************************************************************)
EXTENDS Attempts, FiniteSetTheorems, TLAPS

\* A request is past its store.CreateAttempt, or was never to make one.
Settled == {"record", "respond", "done"}

\* Each kind of request stays on its handler, and is answered once.
PathInv ==
  \A r \in Request :
    /\ pc[r] \in {"upsert", "signin"} => KindOf[r] = "google"
    /\ pc[r] \in {"lookup", "run", "create"} => KindOf[r] \in {"run", "submit"}
    /\ pc[r] = "record" => KindOf[r] = "submit"
    /\ pc[r] \notin {"respond", "done"} => answer[r] = "none"

\* An attempt is stored by its own request and before progress hears of it;
\* Postgres keeps one for each device and key.
StoreInv ==
  /\ \A r \in Request : pc[r] \notin Settled => r \notin stored
  /\ \A r \in Request : pc[r] = "record" => r \in stored
  /\ \A o \in Owner : heard[o] \subseteq stored
  /\ backend = "postgres" =>
       \A a, b \in stored :
         DeviceOf[a] = DeviceOf[b] /\ KeyOf[a] = KeyOf[b] /\ KeyOf[a] # NoKey => a = b

\* Whoever acts for a student is on a device that was linked to them.
LinkedInv ==
  /\ \A d \in Device : linked[d] \in met[d] \cup {NoStudent}
  /\ \A r \in Request :
       /\ seen[r] \in met[DeviceOf[r]] \cup {NoStudent}
       /\ setCookie[r] \in met[DeviceOf[r]] \cup {"keep", "clear"}
       /\ pc[r] \in {"student", "link"} => session[r] # NoStudent
       /\ pc[r] = "link" => owner[r] = session[r]
       /\ pc[r] \in {"idle", "touch", "student"} => owner[r] = DeviceOf[r]
       /\ owner[r] \in Device => owner[r] = DeviceOf[r]
       /\ pc[r] = "signin" => owner[r] \in StudentId
       /\ pc[r] \in {"lookup", "run", "create", "record"} =>
            owner[r] \in met[DeviceOf[r]] \cup {DeviceOf[r]}
  /\ \A d \in Device : \A a \in heard[d] : DeviceOf[a] = d

\* With Postgres an answer to an attempt names a stored attempt of its device
\* and key, and its own success has been recorded.
AnswerInv ==
  backend = "postgres" =>
    \A r \in Request : KindOf[r] \in {"run", "submit"} /\ answer[r] \in Request =>
      /\ answer[r] \in stored
      /\ DeviceOf[answer[r]] = DeviceOf[r] /\ KeyOf[answer[r]] = KeyOf[r]
      /\ KindOf[r] = "submit" /\ answer[r] = r => r \in heard[owner[r]]

IInv ==
  /\ TypeOK /\ PathInv /\ StoreInv /\ LinkedInv /\ AnswerInv
  /\ StandingMatchesHistory /\ OnlyLinkedDevicesCount /\ CookieFollowsLink

-----------------------------------------------------------------------------
(* Merging two standings                                                   *)

\* The merge of two standings stands for the union of their histories, with
\* either store.
LEMMA MergeRepresents ==
  ASSUME NEW H1 \in SUBSET Request, NEW H2 \in SUBSET Request,
         NEW p1 \in Standing, NEW p2 \in Standing,
         passedAt \in [Request -> Time \cup {Never}],
         backend \in Backend,
         Represents(p1, H1), Represents(p2, H2), p2.status # "none"
  PROVE  Represents(Merge(p1, p2), H1 \cup H2) /\ Merge(p1, p2) \in Standing
<1>. USE TimeAssumption
<1>1. /\ \A a \in Passes(H1) : passedAt[a] \in Nat /\ passedAt[a] \in Time
      /\ \A a \in Passes(H2) : passedAt[a] \in Nat /\ passedAt[a] \in Time
  BY DEF Passes
<1>2. Passes(H1 \cup H2) = Passes(H1) \cup Passes(H2)
  BY DEF Passes
<1>3. /\ p1.status = "passed" => p1.at \in Nat
      /\ p2.status = "passed" => p2.at \in Nat
  BY <1>1 DEF Represents
<1>4. CASE p1.status = "none"
  <2>1. H1 = {}
    BY <1>4 DEF Represents
  <2>2. Merge(p1, p2) = p2
    BY <1>4 DEF Merge, MergeMemory, MergePostgres
  <2>. QED
    BY <2>1, <2>2
<1>5. CASE p1.status = "attempted" /\ p2.status = "attempted"
  <2>1. Passes(H1 \cup H2) = {} /\ H2 # {}
    BY <1>2, <1>5 DEF Represents
  <2>2. p1.at = Never /\ p2.at = Never /\ p2.best \in H2
    BY <1>5 DEF Represents
  <2>3. Merge(p1, p2) = p2
    BY <1>5, <2>2 DEF Merge, MergeMemory, MergePostgres, Least, Standing
  <2>. QED
    BY <1>5, <2>1, <2>2, <2>3 DEF Represents
<1>6. CASE p1.status = "attempted" /\ p2.status = "passed"
  <2>1. Passes(H1) = {} /\ p1.at = Never
    BY <1>6 DEF Represents
  <2>2. Passes(H1 \cup H2) = Passes(H2) /\ Passes(H2) # {} /\ H2 # {}
    BY <1>2, <1>6, <2>1 DEF Represents, Passes
  <2>3. Merge(p1, p2) = p2
    BY <1>6, <2>1 DEF Merge, MergeMemory, MergePostgres, Least, Standing
  <2>. QED
    BY <1>6, <2>2, <2>3 DEF Represents
<1>7. CASE p1.status = "passed" /\ p2.status = "attempted"
  <2>1. Passes(H2) = {} /\ p2.at = Never
    BY <1>7 DEF Represents
  <2>2. Passes(H1 \cup H2) = Passes(H1) /\ Passes(H1) # {} /\ H1 # {}
    BY <1>2, <1>7, <2>1 DEF Represents, Passes
  <2>3. Merge(p1, p2) = p1
    BY <1>3, <1>7, <2>1 DEF Merge, MergeMemory, MergePostgres, Least, Standing
  <2>. QED
    BY <1>7, <2>2, <2>3 DEF Represents
<1>8. CASE p1.status = "passed" /\ p2.status = "passed"
  <2> DEFINE m == Merge(p1, p2)
  <2>1. /\ Passes(H1) # {} /\ Passes(H2) # {} /\ H1 \cup H2 # {}
        /\ p1.best \in Passes(H1) /\ p2.best \in Passes(H2)
        /\ p1.at \in Time /\ p2.at \in Time
    BY <1>1, <1>8 DEF Represents, Passes
  <2>2. /\ m \in Standing /\ m.status = "passed"
        /\ m.at = IF p1.at <= p2.at THEN p1.at ELSE p2.at
        /\ m.best \in {p1.best, p2.best}
        /\ backend = "memory" => m \in {p1, p2}
    BY <1>3, <1>8, <2>1 DEF Merge, MergeMemory, MergePostgres, Least, Standing
  <2>3. /\ \E a \in Passes(H1) \cup Passes(H2) : m.at = passedAt[a]
        /\ \A a \in Passes(H1) \cup Passes(H2) : m.at <= passedAt[a]
    BY <1>1, <1>3, <1>8, <2>2 DEF Represents
  <2>4. backend = "memory" => m.at = passedAt[m.best]
    BY <1>8, <2>2 DEF Represents
  <2>. HIDE DEF m
  <2>5. Represents(m, H1 \cup H2)
    BY <1>2, <2>1, <2>2, <2>3, <2>4 DEF Represents
  <2>. QED
    BY <2>2, <2>5 DEF m
<1>. QED
  BY <1>4, <1>5, <1>6, <1>7, <1>8 DEF Standing

-----------------------------------------------------------------------------
(* The invariant is inductive                                              *)

\* Nothing is stored, linked or answered in the initial state.
LEMMA InitIInv == Init => IInv
<1>. SUFFICES ASSUME Init PROVE IInv
  OBVIOUS
<1>. USE RequestAssumption, OwnerAssumption, TimeAssumption
<1>1. TypeOK
  BY DEF Init, TypeOK, PC, Answer, SetCookie, Standing, NoStanding, Owner
<1>2. PathInv /\ StoreInv /\ AnswerInv
  BY DEF Init, PathInv, StoreInv, AnswerInv, Settled
<1>3. LinkedInv
  BY DEF Init, LinkedInv, Owner
<1>4. StandingMatchesHistory
  BY DEF Init, StandingMatchesHistory, Represents, NoStanding, Passes
<1>5. OnlyLinkedDevicesCount /\ CookieFollowsLink
  BY DEF Init, OnlyLinkedDevicesCount, CookieFollowsLink, Owner
<1>. QED
  BY <1>1, <1>2, <1>3, <1>4, <1>5 DEF IInv

\* Every step keeps each request on the path of its kind.
LEMMA NextPathInv ==
  ASSUME TypeOK, PathInv, [Next]_vars
  PROVE  PathInv'
<1>. USE RequestAssumption, OwnerAssumption, TimeAssumption
<1>. USE DEF vars, storeVars, headerVars, localVars, At, Goto, Reply, Leave, GotoOrErr, EnterWith, Entry, TypeOK, PathInv, Kind, PC, Answer, SameKey
<1>1. ASSUME NEW r \in Request, Send(r) PROVE PathInv'
  BY <1>1 DEF Send
<1>2. ASSUME NEW r \in Request, Touch(r) PROVE PathInv'
  BY <1>2 DEF Touch
<1>3. ASSUME NEW r \in Request, FindStudent(r) PROVE PathInv'
  BY <1>3 DEF FindStudent
<1>4. ASSUME NEW r \in Request, StudentGone(r) PROVE PathInv'
  BY <1>4 DEF StudentGone
<1>5. ASSUME NEW r \in Request, LinkOnUse(r) PROVE PathInv'
  BY <1>5 DEF LinkOnUse, LinkDevice
<1>6. ASSUME NEW r \in Request, Replay(r) PROVE PathInv'
  BY <1>6 DEF Replay
<1>7. ASSUME NEW r \in Request, LookupMisses(r) PROVE PathInv'
  BY <1>7 DEF LookupMisses
<1>8. ASSUME NEW r \in Request, RunAndGrade(r) PROVE PathInv'
  BY <1>8 DEF RunAndGrade
<1>9. ASSUME NEW r \in Request, CreateAttempt(r) PROVE PathInv'
  BY <1>9 DEF CreateAttempt
<1>10. ASSUME NEW r \in Request, RecordProgress(r) PROVE PathInv'
  BY <1>10 DEF RecordProgress, Fresh
<1>11. ASSUME NEW r \in Request, UpsertStudent(r) PROVE PathInv'
  BY <1>11 DEF UpsertStudent
<1>12. ASSUME NEW r \in Request, SignInLink(r) PROVE PathInv'
  BY <1>12 DEF SignInLink, LinkDevice
<1>13. ASSUME NEW r \in Request, Deliver(r) PROVE PathInv'
  BY <1>13 DEF Deliver
<1>14. ASSUME NEW r \in Request, Fail(r) PROVE PathInv'
  BY <1>14 DEF Fail
<1>15. ASSUME NEW r \in Request, Abort(r) PROVE PathInv'
  BY <1>15 DEF Abort
<1>16. ASSUME NEW b \in Browser, Expire(b) PROVE PathInv'
  BY <1>16 DEF Expire
<1>17. ASSUME Restart PROVE PathInv'
  BY <1>17 DEF Restart
<1>18. ASSUME UNCHANGED vars PROVE PathInv'
  BY <1>18
<1>. QED
  BY <1>1, <1>2, <1>3, <1>4, <1>5, <1>6, <1>7, <1>8, <1>9,
     <1>10, <1>11, <1>12, <1>13, <1>14, <1>15, <1>16, <1>17, <1>18 DEF Next, Step, Over

\* A step that stores nothing, tells an owner of stored attempts only, and
\* brings no request to RecordProgress or back before CreateAttempt.
LEMMA StoreFrame ==
  ASSUME StoreInv, UNCHANGED <<backend, stored>>,
         \A o \in Owner : heard'[o] \subseteq stored,
         \A q \in Request : pc'[q] # pc[q] =>
           pc'[q] # "record" /\ (pc[q] \in Settled => pc'[q] \in Settled)
  PROVE  StoreInv'
<1>1. \A q \in Request : pc'[q] \notin Settled => q \notin stored'
  BY DEF StoreInv
<1>2. \A q \in Request : pc'[q] = "record" => q \in stored'
  BY DEF StoreInv
<1>. QED
  BY <1>1, <1>2 DEF StoreInv

\* A device's progress tells a student of stored attempts only.
LEMMA LinkHeard ==
  ASSUME TypeOK, StoreInv, NEW d \in Device, NEW s, LinkDevice(d, s)
  PROVE  /\ UNCHANGED stored
         /\ \A o \in Owner : heard'[o] \subseteq stored
BY DEF LinkDevice, TypeOK, StoreInv, Owner

\* Every step keeps the store's own order.
LEMMA NextStoreInv ==
  ASSUME TypeOK, PathInv, StoreInv, [Next]_vars
  PROVE  StoreInv'
<1>. USE RequestAssumption
<1>. USE DEF At, Goto, Reply, Leave, GotoOrErr, EnterWith, Entry, Settled
<1>0. \A o \in Owner : heard[o] \subseteq stored
  BY DEF StoreInv
<1>1. ASSUME NEW r \in Request, Send(r) PROVE StoreInv'
  BY <1>0, <1>1, StoreFrame DEF Send, storeVars, TypeOK
<1>2. ASSUME NEW r \in Request, Touch(r) PROVE StoreInv'
  BY <1>0, <1>2, StoreFrame DEF Touch, storeVars, TypeOK
<1>3. ASSUME NEW r \in Request, FindStudent(r) PROVE StoreInv'
  BY <1>0, <1>3, StoreFrame DEF FindStudent, storeVars, TypeOK
<1>4. ASSUME NEW r \in Request, StudentGone(r) PROVE StoreInv'
  BY <1>0, <1>4, StoreFrame DEF StudentGone, storeVars, TypeOK
<1>5. ASSUME NEW r \in Request, LinkOnUse(r) PROVE StoreInv'
  <2>1. LinkDevice(DeviceOf[r], session[r]) /\ UNCHANGED backend
    BY <1>5 DEF LinkOnUse
  <2>2. UNCHANGED stored /\ \A o \in Owner : heard'[o] \subseteq stored
    BY <2>1, LinkHeard
  <2>. QED
    BY <1>5, <2>1, <2>2, StoreFrame DEF LinkOnUse, TypeOK
<1>6. ASSUME NEW r \in Request, Replay(r) PROVE StoreInv'
  BY <1>0, <1>6, StoreFrame DEF Replay, storeVars, TypeOK
<1>7. ASSUME NEW r \in Request, LookupMisses(r) PROVE StoreInv'
  BY <1>0, <1>7, StoreFrame DEF LookupMisses, storeVars, TypeOK
<1>8. ASSUME NEW r \in Request, RunAndGrade(r) PROVE StoreInv'
  BY <1>0, <1>8, StoreFrame DEF RunAndGrade, storeVars, TypeOK
<1>9. ASSUME NEW r \in Request, CreateAttempt(r) PROVE StoreInv'
  <2>1. /\ pc[r] = "create" /\ stored' = stored \cup {r} /\ UNCHANGED <<backend, heard>>
        /\ \E l \in {"record", "respond"} : pc' = [pc EXCEPT ![r] = l]
    BY <1>9 DEF CreateAttempt
  <2>2. \A q \in Request : pc'[q] \notin Settled => q \notin stored'
    BY <2>1 DEF StoreInv, TypeOK
  <2>3. \A q \in Request : pc'[q] = "record" => q \in stored'
    BY <2>1 DEF StoreInv, TypeOK
  <2>4. ASSUME backend = "postgres"
        PROVE  SameKey(r) = {}
    BY <1>9, <2>4 DEF CreateAttempt
  <2>5. ASSUME backend = "postgres", NEW a \in stored', NEW b \in stored',
               DeviceOf[a] = DeviceOf[b], KeyOf[a] = KeyOf[b], KeyOf[a] # NoKey
        PROVE  a = b
    BY <2>1, <2>4, <2>5 DEF SameKey, StoreInv
  <2>. QED
    BY <1>0, <2>1, <2>2, <2>3, <2>5 DEF StoreInv
<1>10. ASSUME NEW r \in Request, RecordProgress(r) PROVE StoreInv'
  <2>1. r \in stored /\ UNCHANGED <<backend, stored>>
    BY <1>10 DEF RecordProgress, StoreInv
  <2>2. \A o \in Owner : heard'[o] \subseteq stored
    BY <1>0, <1>10, <2>1 DEF RecordProgress, TypeOK
  <2>. QED
    BY <1>10, <2>1, <2>2, StoreFrame DEF RecordProgress, TypeOK
<1>11. ASSUME NEW r \in Request, UpsertStudent(r) PROVE StoreInv'
  BY <1>0, <1>11, StoreFrame DEF UpsertStudent, TypeOK
<1>12. ASSUME NEW r \in Request, SignInLink(r) PROVE StoreInv'
  <2>1. LinkDevice(DeviceOf[r], owner[r]) /\ UNCHANGED backend
    BY <1>12 DEF SignInLink
  <2>2. UNCHANGED stored /\ \A o \in Owner : heard'[o] \subseteq stored
    BY <2>1, LinkHeard
  <2>. QED
    BY <1>12, <2>1, <2>2, StoreFrame DEF SignInLink, TypeOK
<1>13. ASSUME NEW r \in Request, Deliver(r) PROVE StoreInv'
  BY <1>0, <1>13, StoreFrame DEF Deliver, storeVars, TypeOK
<1>14. ASSUME NEW r \in Request, Fail(r) PROVE StoreInv'
  BY <1>0, <1>14, StoreFrame DEF Fail, storeVars, TypeOK
<1>15. ASSUME NEW r \in Request, Abort(r) PROVE StoreInv'
  BY <1>0, <1>15, StoreFrame DEF Abort, storeVars, TypeOK
<1>16. ASSUME NEW b \in Browser, Expire(b) PROVE StoreInv'
  BY <1>0, <1>16, StoreFrame DEF Expire, storeVars
<1>17. ASSUME Restart PROVE StoreInv'
  BY <1>17 DEF Restart, StoreInv
<1>18. ASSUME UNCHANGED vars PROVE StoreInv'
  BY <1>0, <1>18, StoreFrame DEF vars, storeVars
<1>. QED
  BY <1>1, <1>2, <1>3, <1>4, <1>5, <1>6, <1>7, <1>8, <1>9, <1>10, <1>11,
     <1>12, <1>13, <1>14, <1>15, <1>16, <1>17, <1>18 DEF Next, Step, Over

\* A record of a submission is a standing, and stands for that submission.
LEMMA FreshRepresents ==
  ASSUME TypeOK, NEW r \in Request
  PROVE  /\ Fresh(r) \in Standing /\ Fresh(r).status # "none"
         /\ Represents(Fresh(r), {r})
<1>1. passedAt[r] \in Time \cup {Never} /\ (passedAt[r] # Never => passedAt[r] \in Nat)
  BY TimeAssumption DEF TypeOK
<1>2. Passes({r}) = IF passedAt[r] = Never THEN {} ELSE {r}
  BY DEF Passes
<1>. QED
  BY <1>1, <1>2 DEF Fresh, Represents, Standing

\* A merge of standings is a standing.
LEMMA MergeType ==
  ASSUME NEW p1 \in Standing, NEW p2 \in Standing
  PROVE  Merge(p1, p2) \in Standing
BY DEF Merge, MergeMemory, MergePostgres, Least, Standing

\* LinkDevice keeps the store's variables well typed.
LEMMA LinkTypeOK ==
  ASSUME TypeOK, NEW d \in Device, NEW s \in StudentId, LinkDevice(d, s)
  PROVE  /\ linked' \in [Device -> StudentId \cup {NoStudent}]
         /\ progress' \in [Owner -> Standing]
         /\ heard' \in [Owner -> SUBSET Request]
         /\ met' \in [Device -> SUBSET StudentId]
         /\ UNCHANGED <<students, issued, stored>>
<1>1. d \in Owner /\ s \in Owner /\ progress[s] \in Standing /\ progress[d] \in Standing
  BY DEF TypeOK, Owner
<1>2. Merge(progress[s], progress[d]) \in Standing
  BY <1>1, MergeType
<1>3. progress' \in [Owner -> Standing]
  BY <1>1, <1>2 DEF TypeOK, LinkDevice
<1>. QED
  BY <1>1, <1>3 DEF TypeOK, LinkDevice

\* So do a step into the handler behind withIdentity, and a step whose call
\* may report an error.
LEMMA EnterType ==
  ASSUME TypeOK, NEW r \in Request, NEW c \in SetCookie, EnterWith(r, c)
  PROVE  /\ pc' \in [Request -> PC]
         /\ setCookie' \in [Request -> SetCookie]
         /\ answer' = answer
<1>1. Entry(r) \in PC
  BY RequestAssumption DEF Entry, PC
<1>2. pc' \in [Request -> PC] /\ answer' = answer
  BY <1>1 DEF TypeOK, EnterWith, Goto
<1>3. setCookie' \in [Request -> SetCookie]
  BY DEF TypeOK, EnterWith, SetCookie
<1>. QED
  BY <1>2, <1>3

LEMMA MoveType ==
  ASSUME TypeOK, NEW r \in Request, NEW l \in PC,
         GotoOrErr(r, l) \/ Reply(r, r) \/ Reply(r, "error")
  PROVE  pc' \in [Request -> PC] /\ answer' \in [Request -> Answer]
<1>1. CASE Goto(r, l)
  BY <1>1 DEF TypeOK, Goto
<1>2. ASSUME NEW a \in Answer, Reply(r, a)
      PROVE  pc' \in [Request -> PC] /\ answer' \in [Request -> Answer]
  BY <1>2 DEF TypeOK, Reply, PC
<1>3. r \in Answer /\ "error" \in Answer
  BY DEF Answer
<1>. QED
  BY <1>1, <1>2, <1>3 DEF GotoOrErr

\* Every step keeps the variables well typed.
LEMMA NextTypeOK ==
  ASSUME TypeOK, LinkedInv, [Next]_vars
  PROVE  TypeOK'
<1>. USE RequestAssumption, OwnerAssumption
<1>. USE DEF TypeOK, At, Goto, Reply, Leave, GotoOrErr, EnterWith, Entry, PC,
       Answer, SetCookie, vars, storeVars, headerVars, localVars
<1>1. ASSUME NEW r \in Request, Send(r) PROVE TypeOK'
  BY <1>1 DEF Send, Jar
<1>2. ASSUME NEW r \in Request, Touch(r) PROVE TypeOK'
  <2>1. seen' \in [Request -> StudentId \cup {NoStudent}]
    BY <1>2 DEF Touch
  <2>2. CASE session[r] = NoStudent
    <3>1. EnterWith(r, "keep") /\ "keep" \in SetCookie
      BY <1>2, <2>2 DEF Touch
    <3>. HIDE DEF EnterWith
    <3>2. /\ pc' \in [Request -> PC]
          /\ setCookie' \in [Request -> SetCookie]
          /\ answer' = answer
      BY <3>1, EnterType
    <3>. QED
      BY <1>2, <2>1, <3>2 DEF Touch
  <2>3. CASE session[r] # NoStudent
    BY <1>2, <2>1, <2>3 DEF Touch
  <2>. QED
    BY <2>2, <2>3
<1>3. ASSUME NEW r \in Request, FindStudent(r) PROVE TypeOK'
  <2>1. session[r] \in Owner
    BY <1>3 DEF FindStudent, LinkedInv, Owner
  <2>. QED
    BY <1>3, <2>1 DEF FindStudent
<1>4. ASSUME NEW r \in Request, StudentGone(r) PROVE TypeOK'
  BY <1>4 DEF StudentGone
<1>5. ASSUME NEW r \in Request, LinkOnUse(r) PROVE TypeOK'
  <2>1. session[r] \in StudentId /\ DeviceOf[r] \in Device
    BY <1>5 DEF LinkOnUse, LinkedInv
  <2>2. LinkDevice(DeviceOf[r], session[r])
    BY <1>5 DEF LinkOnUse
  <2>3. /\ linked' \in [Device -> StudentId \cup {NoStudent}]
        /\ progress' \in [Owner -> Standing]
        /\ heard' \in [Owner -> SUBSET Request]
        /\ met' \in [Device -> SUBSET StudentId]
        /\ UNCHANGED <<students, issued, stored>>
    BY <2>1, <2>2, LinkTypeOK
  <2>4. /\ pc' \in [Request -> PC]
        /\ answer' \in [Request -> Answer]
        /\ setCookie' \in [Request -> SetCookie]
    <3>1. CASE EnterWith(r, "keep")
      <4>1. "keep" \in SetCookie
        OBVIOUS
      <4>. HIDE DEF EnterWith
      <4>. QED
        BY <3>1, <4>1, EnterType
    <3>2. CASE Reply(r, "error") /\ UNCHANGED setCookie
      BY <3>2
    <3>. QED
      BY <1>5, <3>1, <3>2 DEF LinkOnUse
  <2>. QED
    BY <1>5, <2>3, <2>4 DEF LinkOnUse
<1>6. ASSUME NEW r \in Request, Replay(r) PROVE TypeOK'
  BY <1>6 DEF Replay, SameKey
<1>7. ASSUME NEW r \in Request, LookupMisses(r) PROVE TypeOK'
  BY <1>7 DEF LookupMisses
<1>8. ASSUME NEW r \in Request, RunAndGrade(r) PROVE TypeOK'
  BY <1>8 DEF RunAndGrade
<1>9. ASSUME NEW r \in Request, CreateAttempt(r) PROVE TypeOK'
  <2>. HIDE DEF GotoOrErr, Reply
  <2>1. "record" \in PC
    OBVIOUS
  <2>2. GotoOrErr(r, "record") \/ Reply(r, r) \/ Reply(r, "error")
    BY <1>9 DEF CreateAttempt
  <2>3. pc' \in [Request -> PC] /\ answer' \in [Request -> Answer]
    BY <2>1, <2>2, MoveType
  <2>. QED
    BY <1>9, <2>3 DEF CreateAttempt
<1>10. ASSUME NEW r \in Request, RecordProgress(r) PROVE TypeOK'
  <2>1. Merge(progress[owner[r]], Fresh(r)) \in Standing
    BY FreshRepresents, MergeType
  <2>2. progress' \in [Owner -> Standing]
    BY <1>10, <2>1 DEF RecordProgress
  <2>3. heard' \in [Owner -> SUBSET Request]
    BY <1>10 DEF RecordProgress
  <2>4. /\ pc' = [pc EXCEPT ![r] = "respond"]
        /\ \E a \in Answer : answer' = [answer EXCEPT ![r] = a]
    BY <1>10 DEF RecordProgress
  <2>5. pc' \in [Request -> PC] /\ answer' \in [Request -> Answer]
    BY <2>4
  <2>. QED
    BY <1>10, <2>2, <2>3, <2>5 DEF RecordProgress
<1>11. ASSUME NEW r \in Request, UpsertStudent(r) PROVE TypeOK'
  <2>. HIDE DEF GotoOrErr, Reply
  <2>1. "signin" \in PC
    OBVIOUS
  <2>2. pc' \in [Request -> PC] /\ answer' \in [Request -> Answer]
    BY <1>11, <2>1, MoveType DEF UpsertStudent
  <2>3. /\ students' \in [Account -> StudentId \cup {NoStudent}]
        /\ issued' \in SUBSET StudentId
        /\ owner' \in [Request -> Owner]
    BY <1>11 DEF UpsertStudent, Owner
  <2>. QED
    BY <1>11, <2>2, <2>3 DEF UpsertStudent
<1>12. ASSUME NEW r \in Request, SignInLink(r) PROVE TypeOK'
  <2>1. owner[r] \in StudentId /\ DeviceOf[r] \in Device
    BY <1>12 DEF SignInLink, LinkedInv
  <2>2. LinkDevice(DeviceOf[r], owner[r])
    BY <1>12 DEF SignInLink
  <2>3. /\ linked' \in [Device -> StudentId \cup {NoStudent}]
        /\ progress' \in [Owner -> Standing]
        /\ heard' \in [Owner -> SUBSET Request]
        /\ met' \in [Device -> SUBSET StudentId]
        /\ UNCHANGED <<students, issued, stored>>
    BY <2>1, <2>2, LinkTypeOK
  <2>4. /\ pc' = [pc EXCEPT ![r] = "respond"]
        /\ \E a \in Answer : answer' = [answer EXCEPT ![r] = a]
        /\ setCookie' \in {setCookie, [setCookie EXCEPT ![r] = owner[r]]}
    BY <1>12 DEF SignInLink
  <2>5. /\ pc' \in [Request -> PC]
        /\ answer' \in [Request -> Answer]
        /\ setCookie' \in [Request -> SetCookie]
    BY <2>1, <2>4
  <2>. QED
    BY <1>12, <2>3, <2>5 DEF SignInLink
<1>13. ASSUME NEW r \in Request, Deliver(r) PROVE TypeOK'
  BY <1>13 DEF Deliver
<1>14. ASSUME NEW r \in Request, Fail(r) PROVE TypeOK'
  BY <1>14 DEF Fail
<1>15. ASSUME NEW r \in Request, Abort(r) PROVE TypeOK'
  BY <1>15 DEF Abort
<1>16. ASSUME NEW b \in Browser, Expire(b) PROVE TypeOK'
  BY <1>16 DEF Expire
<1>17. ASSUME Restart PROVE TypeOK'
  BY <1>17 DEF Restart, Standing, NoStanding
<1>18. ASSUME UNCHANGED vars PROVE TypeOK'
  BY <1>18
<1>. QED
  BY <1>1, <1>2, <1>3, <1>4, <1>5, <1>6, <1>7, <1>8, <1>9, <1>10, <1>11,
     <1>12, <1>13, <1>14, <1>15, <1>16, <1>17, <1>18 DEF Next, Step, Over

\* LinkDevice only adds to the students a device has met, and passes on only
\* what the device's own requests submitted.
LEMMA LinkMet ==
  ASSUME TypeOK, LinkedInv, NEW d \in Device, NEW s \in StudentId, LinkDevice(d, s)
  PROVE  /\ s \in met'[d]
         /\ \A e \in Device : met[e] \subseteq met'[e]
         /\ \A e \in Device : linked'[e] \in met'[e] \cup {NoStudent}
         /\ \A e \in Device : heard'[e] = heard[e]
BY OwnerAssumption DEF LinkDevice, TypeOK, LinkedInv, Owner

\* Every step keeps whoever acts for a student on a device linked to them.
LEMMA NextLinkedInv ==
  ASSUME TypeOK, PathInv, LinkedInv, [Next]_vars
  PROVE  LinkedInv'
<1>. USE RequestAssumption, OwnerAssumption
<1>. USE DEF At, Goto, Reply, Leave, GotoOrErr, Entry
<1>1. ASSUME NEW r \in Request, Send(r) PROVE LinkedInv'
  BY <1>1 DEF Send, LinkedInv, TypeOK, PathInv, Kind, EnterWith, vars, storeVars, localVars, headerVars
<1>2. ASSUME NEW r \in Request, Touch(r) PROVE LinkedInv'
  BY <1>2 DEF Touch, LinkedInv, TypeOK, PathInv, Kind, EnterWith, vars, storeVars, localVars, headerVars
<1>3. ASSUME NEW r \in Request, FindStudent(r) PROVE LinkedInv'
  BY <1>3 DEF FindStudent, LinkedInv, TypeOK, PathInv, Kind, EnterWith, vars, storeVars, localVars, headerVars
<1>4. ASSUME NEW r \in Request, StudentGone(r) PROVE LinkedInv'
  BY <1>4 DEF StudentGone, LinkedInv, TypeOK, PathInv, Kind, EnterWith, vars, storeVars, localVars, headerVars
<1>5. ASSUME NEW r \in Request, LinkOnUse(r) PROVE LinkedInv'
  <2>1. session[r] \in StudentId /\ DeviceOf[r] \in Device /\ LinkDevice(DeviceOf[r], session[r])
    BY <1>5 DEF LinkOnUse, LinkedInv, TypeOK
  <2>2. /\ session[r] \in met'[DeviceOf[r]]
        /\ \A e \in Device : met[e] \subseteq met'[e]
        /\ \A e \in Device : linked'[e] \in met'[e] \cup {NoStudent}
        /\ \A e \in Device : heard'[e] = heard[e]
    BY <2>1, LinkMet
  <2>3. owner[r] = session[r] /\ UNCHANGED <<session, seen, owner>>
    BY <1>5 DEF LinkOnUse, LinkedInv
  <2>4. /\ setCookie' \in [Request -> SetCookie]
        /\ \A q \in Request : setCookie'[q] \in {setCookie[q], "keep", "clear"}
    BY <1>5, <2>1 DEF LinkOnUse, EnterWith, TypeOK, SetCookie
  <2>5. /\ \E l \in {"respond", "upsert", "lookup", "run"} : pc' = [pc EXCEPT ![r] = l]
        /\ pc \in [Request -> PC]
    <3>1. Entry(r) \in {"respond", "upsert", "lookup", "run"}
      OBVIOUS
    <3>2. pc' \in {[pc EXCEPT ![r] = Entry(r)], [pc EXCEPT ![r] = "respond"]}
      BY <1>5 DEF LinkOnUse, EnterWith
    <3>. HIDE DEF Entry
    <3>. QED
      BY <3>1, <3>2 DEF TypeOK
  <2>6. \A q \in Request :
          /\ seen'[q] \in met'[DeviceOf[q]] \cup {NoStudent}
          /\ setCookie'[q] \in met'[DeviceOf[q]] \cup {"keep", "clear"}
          /\ pc'[q] \in {"lookup", "run", "create", "record"} =>
               owner'[q] \in met'[DeviceOf[q]] \cup {DeviceOf[q]}
    BY <2>2, <2>3, <2>4, <2>5 DEF LinkedInv
  <2>. QED
    BY <2>2, <2>3, <2>5, <2>6 DEF LinkedInv
<1>6. ASSUME NEW r \in Request, Replay(r) PROVE LinkedInv'
  BY <1>6 DEF Replay, LinkedInv, TypeOK, PathInv, Kind, EnterWith, vars, storeVars, localVars, headerVars
<1>7. ASSUME NEW r \in Request, LookupMisses(r) PROVE LinkedInv'
  BY <1>7 DEF LookupMisses, LinkedInv, TypeOK, PathInv, Kind, EnterWith, vars, storeVars, localVars, headerVars
<1>8. ASSUME NEW r \in Request, RunAndGrade(r) PROVE LinkedInv'
  BY <1>8 DEF RunAndGrade, LinkedInv, TypeOK, PathInv, Kind, EnterWith, vars, storeVars, localVars, headerVars
<1>9. ASSUME NEW r \in Request, CreateAttempt(r) PROVE LinkedInv'
  BY <1>9 DEF CreateAttempt, LinkedInv, TypeOK, PathInv, Kind, EnterWith, vars, storeVars, localVars, headerVars
<1>10. ASSUME NEW r \in Request, RecordProgress(r) PROVE LinkedInv'
  BY <1>10 DEF RecordProgress, LinkedInv, TypeOK, PathInv, Kind, EnterWith, vars, storeVars, localVars, headerVars
<1>11. ASSUME NEW r \in Request, UpsertStudent(r) PROVE LinkedInv'
  BY <1>11 DEF UpsertStudent, LinkedInv, TypeOK, PathInv, Kind, EnterWith, vars, storeVars, localVars, headerVars
<1>12. ASSUME NEW r \in Request, SignInLink(r) PROVE LinkedInv'
  <2>1. owner[r] \in StudentId /\ DeviceOf[r] \in Device /\ LinkDevice(DeviceOf[r], owner[r])
    BY <1>12 DEF SignInLink, LinkedInv, TypeOK
  <2>2. /\ owner[r] \in met'[DeviceOf[r]]
        /\ \A e \in Device : met[e] \subseteq met'[e]
        /\ \A e \in Device : linked'[e] \in met'[e] \cup {NoStudent}
        /\ \A e \in Device : heard'[e] = heard[e]
    BY <2>1, LinkMet
  <2>. QED
    BY <1>12, <2>1, <2>2 DEF SignInLink, LinkedInv, TypeOK, EnterWith
<1>13. ASSUME NEW r \in Request, Deliver(r) PROVE LinkedInv'
  BY <1>13 DEF Deliver, LinkedInv, TypeOK, PathInv, Kind, EnterWith, vars, storeVars, localVars, headerVars
<1>14. ASSUME NEW r \in Request, Fail(r) PROVE LinkedInv'
  BY <1>14 DEF Fail, LinkedInv, TypeOK, PathInv, Kind, EnterWith, vars, storeVars, localVars, headerVars
<1>15. ASSUME NEW r \in Request, Abort(r) PROVE LinkedInv'
  BY <1>15 DEF Abort, LinkedInv, TypeOK, PathInv, Kind, EnterWith, vars, storeVars, localVars, headerVars
<1>16. ASSUME NEW b \in Browser, Expire(b) PROVE LinkedInv'
  BY <1>16 DEF Expire, LinkedInv, TypeOK, PathInv, Kind, EnterWith, vars, storeVars, localVars, headerVars
<1>17. ASSUME Restart PROVE LinkedInv'
  <2>1. /\ \A d \in Device : linked'[d] = NoStudent /\ heard'[d] = {}
        /\ \A r \in Request :
             /\ pc'[r] \in {"idle", "done"} /\ (pc'[r] = "idle" => pc[r] = "idle")
             /\ seen'[r] = NoStudent /\ setCookie'[r] = "keep"
        /\ UNCHANGED <<met, owner>>
    BY <1>17 DEF Restart, Owner
  <2>. QED
    BY <2>1 DEF LinkedInv
<1>18. ASSUME UNCHANGED vars PROVE LinkedInv'
  BY <1>18 DEF LinkedInv, TypeOK, PathInv, Kind, EnterWith, vars, storeVars, localVars, headerVars
<1>. QED
  BY <1>1, <1>2, <1>3, <1>4, <1>5, <1>6, <1>7, <1>8, <1>9, <1>10, <1>11,
     <1>12, <1>13, <1>14, <1>15, <1>16, <1>17, <1>18 DEF Next, Step, Over

\* A step that gives no answer, loses no attempt and leaves the owner of who
\* has been answered keeps AnswerInv.
LEMMA AnswerFrame ==
  ASSUME AnswerInv, UNCHANGED backend,
         backend = "postgres" =>
           /\ stored \subseteq stored'
           /\ \A o \in Owner : heard[o] \subseteq heard'[o],
         owner \in [Request -> Owner],
         \A q \in Request : answer'[q] # answer[q] => answer'[q] \notin Request,
         \A q \in Request : answer[q] \in Request => owner'[q] = owner[q]
  PROVE  AnswerInv'
BY DEF AnswerInv

\* LinkDevice takes away no submission from anybody.
LEMMA LinkKeepsHeard ==
  ASSUME TypeOK, NEW d \in Device, NEW s, LinkDevice(d, s)
  PROVE  stored' = stored /\ \A o \in Owner : heard[o] \subseteq heard'[o]
BY DEF LinkDevice, TypeOK, Owner

\* Every step keeps what an answer says of the store.
LEMMA NextAnswerInv ==
  ASSUME TypeOK, PathInv, StoreInv, LinkedInv, AnswerInv, [Next]_vars
  PROVE  AnswerInv'
<1>. USE RequestAssumption, OwnerAssumption
<1>. USE DEF At, Goto, Reply, Leave, GotoOrErr, EnterWith, storeVars, localVars
<1>1. ASSUME NEW r \in Request, Send(r) PROVE AnswerInv'
  BY <1>1, AnswerFrame DEF Send, TypeOK
<1>2. ASSUME NEW r \in Request, Touch(r) PROVE AnswerInv'
  BY <1>2, AnswerFrame DEF Touch, TypeOK
<1>3. ASSUME NEW r \in Request, FindStudent(r) PROVE AnswerInv'
  <2>1. answer[r] = "none"
    BY <1>3 DEF FindStudent, PathInv
  <2>. QED
    BY <1>3, <2>1, AnswerFrame DEF FindStudent, TypeOK
<1>4. ASSUME NEW r \in Request, StudentGone(r) PROVE AnswerInv'
  BY <1>4, AnswerFrame DEF StudentGone, TypeOK
<1>5. ASSUME NEW r \in Request, LinkOnUse(r) PROVE AnswerInv'
  <2>1. LinkDevice(DeviceOf[r], session[r])
    BY <1>5 DEF LinkOnUse
  <2>2. stored' = stored /\ \A o \in Owner : heard[o] \subseteq heard'[o]
    BY <2>1, LinkKeepsHeard
  <2>. QED
    BY <1>5, <2>2, AnswerFrame DEF LinkOnUse, TypeOK
<1>6. ASSUME NEW r \in Request, Replay(r) PROVE AnswerInv'
  <2>1. PICK a \in SameKey(r) : answer' = [answer EXCEPT ![r] = a]
    BY <1>6 DEF Replay
  <2>2. a \in stored /\ a # r /\ DeviceOf[a] = DeviceOf[r] /\ KeyOf[a] = KeyOf[r]
    BY <1>6, <2>1 DEF Replay, SameKey, StoreInv, Settled
  <2>3. UNCHANGED <<backend, stored, heard, owner>>
    BY <1>6 DEF Replay
  <2>. QED
    BY <2>1, <2>2, <2>3 DEF AnswerInv, TypeOK
<1>7. ASSUME NEW r \in Request, LookupMisses(r) PROVE AnswerInv'
  BY <1>7, AnswerFrame DEF LookupMisses, TypeOK
<1>8. ASSUME NEW r \in Request, RunAndGrade(r) PROVE AnswerInv'
  BY <1>8, AnswerFrame DEF RunAndGrade, TypeOK
<1>9. ASSUME NEW r \in Request, CreateAttempt(r) PROVE AnswerInv'
  <2>1. /\ stored' = stored \cup {r}
        /\ UNCHANGED <<backend, heard, owner>>
        /\ \A q \in Request : q # r => answer'[q] = answer[q]
    BY <1>9 DEF CreateAttempt, TypeOK
  <2>2. answer[r] = "none"
    BY <1>9 DEF CreateAttempt, PathInv
  <2>3. answer'[r] \in Request => answer'[r] = r /\ KindOf[r] # "submit"
    BY <1>9, <2>2 DEF CreateAttempt, TypeOK
  <2>. QED
    BY <2>1, <2>2, <2>3 DEF AnswerInv, TypeOK
<1>10. ASSUME NEW r \in Request, RecordProgress(r) PROVE AnswerInv'
  <2>1. /\ r \in stored
        /\ UNCHANGED <<backend, stored, owner>>
        /\ \A q \in Request : q # r => answer'[q] = answer[q]
        /\ answer'[r] \in Request => answer'[r] = r
    BY <1>10 DEF RecordProgress, TypeOK, StoreInv
  <2>2. \A o \in Owner : heard[o] \subseteq heard'[o]
    BY <1>10 DEF RecordProgress, TypeOK
  <2>3. r \in heard'[owner[r]]
    BY <1>10 DEF RecordProgress, TypeOK
  <2>. QED
    BY <2>1, <2>2, <2>3 DEF AnswerInv, TypeOK
<1>11. ASSUME NEW r \in Request, UpsertStudent(r) PROVE AnswerInv'
  <2>1. answer[r] = "none"
    BY <1>11 DEF UpsertStudent, PathInv
  <2>. QED
    BY <1>11, <2>1, AnswerFrame DEF UpsertStudent, TypeOK
<1>12. ASSUME NEW r \in Request, SignInLink(r) PROVE AnswerInv'
  <2>1. LinkDevice(DeviceOf[r], owner[r]) /\ KindOf[r] = "google"
    BY <1>12 DEF SignInLink, PathInv
  <2>2. stored' = stored /\ \A o \in Owner : heard[o] \subseteq heard'[o]
    BY <2>1, LinkKeepsHeard
  <2>3. UNCHANGED <<backend, owner>> /\ \A q \in Request : q # r => answer'[q] = answer[q]
    BY <1>12 DEF SignInLink, TypeOK
  <2>. QED
    BY <2>1, <2>2, <2>3 DEF AnswerInv, TypeOK
<1>13. ASSUME NEW r \in Request, Deliver(r) PROVE AnswerInv'
  BY <1>13, AnswerFrame DEF Deliver, TypeOK
<1>14. ASSUME NEW r \in Request, Fail(r) PROVE AnswerInv'
  BY <1>14, AnswerFrame DEF Fail, TypeOK
<1>15. ASSUME NEW r \in Request, Abort(r) PROVE AnswerInv'
  BY <1>15, AnswerFrame DEF Abort, TypeOK
<1>16. ASSUME NEW b \in Browser, Expire(b) PROVE AnswerInv'
  BY <1>16, AnswerFrame DEF Expire, TypeOK
<1>17. ASSUME Restart PROVE AnswerInv'
  BY <1>17, AnswerFrame DEF Restart, TypeOK
<1>18. ASSUME UNCHANGED vars PROVE AnswerInv'
  BY <1>18, AnswerFrame DEF vars, TypeOK
<1>. QED
  BY <1>1, <1>2, <1>3, <1>4, <1>5, <1>6, <1>7, <1>8, <1>9, <1>10, <1>11,
     <1>12, <1>13, <1>14, <1>15, <1>16, <1>17, <1>18 DEF Next, Step, Over

-----------------------------------------------------------------------------
(* What a step does to standings                                           *)

\* Nobody's standing or student changes, nor the grade of an attempt stored.
Unheard ==
  /\ UNCHANGED <<backend, linked, progress, heard>>
  /\ \A a \in stored : passedAt'[a] = passedAt[a]

\* One submission reaches an owner who may act for the device it came from.
Recorded(r) ==
  /\ UNCHANGED <<backend, linked, passedAt>>
  /\ owner[r] \in met[DeviceOf[r]] \cup {DeviceOf[r]}
  /\ progress' = [progress EXCEPT ![owner[r]] = Merge(@, Fresh(r))]
  /\ heard' = [heard EXCEPT ![owner[r]] = @ \cup {r}]

\* A device is linked to a student.
Linked(d, s) == LinkDevice(d, s) /\ UNCHANGED <<backend, passedAt>>

StepEffect ==
  \/ Unheard
  \/ \E r \in Request : Recorded(r)
  \/ \E d \in Device, s \in StudentId : Linked(d, s)
  \/ Restart

\* These are all the ways a step can touch a standing.
LEMMA NextEffect ==
  ASSUME TypeOK, StoreInv, LinkedInv, [Next]_vars
  PROVE  StepEffect
<1>. USE RequestAssumption
<1>. USE DEF At, TypeOK, storeVars, localVars, StepEffect
<1>1. ASSUME NEW r \in Request, Send(r) PROVE StepEffect
  BY <1>1 DEF Send, Unheard
<1>2. ASSUME NEW r \in Request, Touch(r) PROVE StepEffect
  BY <1>2 DEF Touch, Unheard
<1>3. ASSUME NEW r \in Request, FindStudent(r) PROVE StepEffect
  BY <1>3 DEF FindStudent, Unheard
<1>4. ASSUME NEW r \in Request, StudentGone(r) PROVE StepEffect
  BY <1>4 DEF StudentGone, Unheard
<1>5. ASSUME NEW r \in Request, LinkOnUse(r) PROVE StepEffect
  BY <1>5 DEF LinkOnUse, Linked, LinkedInv
<1>6. ASSUME NEW r \in Request, Replay(r) PROVE StepEffect
  BY <1>6 DEF Replay, Unheard
<1>7. ASSUME NEW r \in Request, LookupMisses(r) PROVE StepEffect
  BY <1>7 DEF LookupMisses, Unheard
<1>8. ASSUME NEW r \in Request, RunAndGrade(r) PROVE StepEffect
  BY <1>8 DEF RunAndGrade, Unheard, StoreInv, Settled
<1>9. ASSUME NEW r \in Request, CreateAttempt(r) PROVE StepEffect
  BY <1>9 DEF CreateAttempt, Unheard
<1>10. ASSUME NEW r \in Request, RecordProgress(r) PROVE StepEffect
  BY <1>10 DEF RecordProgress, Recorded, LinkedInv
<1>11. ASSUME NEW r \in Request, UpsertStudent(r) PROVE StepEffect
  BY <1>11 DEF UpsertStudent, Unheard
<1>12. ASSUME NEW r \in Request, SignInLink(r) PROVE StepEffect
  BY <1>12 DEF SignInLink, Linked, LinkedInv
<1>13. ASSUME NEW r \in Request, Deliver(r) PROVE StepEffect
  BY <1>13 DEF Deliver, Leave, Unheard
<1>14. ASSUME NEW r \in Request, Fail(r) PROVE StepEffect
  BY <1>14 DEF Fail, Unheard
<1>15. ASSUME NEW r \in Request, Abort(r) PROVE StepEffect
  BY <1>15 DEF Abort, Leave, Unheard
<1>16. ASSUME NEW b \in Browser, Expire(b) PROVE StepEffect
  BY <1>16 DEF Expire, Unheard
<1>17. ASSUME Restart PROVE StepEffect
  BY <1>17
<1>18. ASSUME UNCHANGED vars PROVE StepEffect
  BY <1>18 DEF vars, Unheard
<1>. QED
  BY <1>1, <1>2, <1>3, <1>4, <1>5, <1>6, <1>7, <1>8, <1>9, <1>10, <1>11,
     <1>12, <1>13, <1>14, <1>15, <1>16, <1>17, <1>18 DEF Next, Step, Over

\* After a step that records a submission the standings still represent what
\* their owners have heard.
LEMMA RecordedStanding ==
  ASSUME TypeOK, StandingMatchesHistory, NEW r \in Request, Recorded(r)
  PROVE  StandingMatchesHistory'
<1> DEFINE o == owner[r]
<1>1. /\ o \in Owner /\ progress[o] \in Standing /\ heard[o] \in SUBSET Request
      /\ backend \in Backend /\ passedAt \in [Request -> Time \cup {Never}]
  BY DEF TypeOK
<1>2. Represents(Merge(progress[o], Fresh(r)), heard[o] \cup {r})
  BY <1>1, FreshRepresents, MergeRepresents DEF StandingMatchesHistory
<1>3. \A q \in Owner : Represents(progress'[q], heard'[q])
  BY <1>1, <1>2 DEF Recorded, TypeOK, StandingMatchesHistory
<1>4. /\ \A q \in Owner : heard'[q] \in SUBSET Request
      /\ UNCHANGED <<backend, passedAt>>
  BY <1>1 DEF Recorded, TypeOK
<1>. QED
  BY <1>3, <1>4 DEF StandingMatchesHistory, Represents, Passes

\* So they do after a device is linked.
LEMMA LinkedStanding ==
  ASSUME TypeOK, StandingMatchesHistory, NEW d \in Device, NEW s \in StudentId,
         Linked(d, s)
  PROVE  StandingMatchesHistory'
<1>1. /\ d \in Owner /\ s \in Owner
      /\ progress[s] \in Standing /\ heard[s] \in SUBSET Request
      /\ progress[d] \in Standing /\ heard[d] \in SUBSET Request
      /\ backend \in Backend /\ passedAt \in [Request -> Time \cup {Never}]
  BY DEF TypeOK, Owner
<1>2. Represents(progress'[s], heard'[s])
  <2>1. CASE progress[d].status = "none"
    <3>1. heard[d] = {}
      BY <1>1, <2>1 DEF StandingMatchesHistory, Represents
    <3>2. progress'[s] = progress[s] /\ heard'[s] = heard[s]
      BY <1>1, <2>1, <3>1 DEF Linked, LinkDevice, TypeOK
    <3>. QED
      BY <1>1, <3>2 DEF StandingMatchesHistory
  <2>2. CASE progress[d].status # "none"
    <3>1. Represents(Merge(progress[s], progress[d]), heard[s] \cup heard[d])
      BY <1>1, <2>2, MergeRepresents DEF StandingMatchesHistory
    <3>2. /\ progress'[s] = Merge(progress[s], progress[d])
          /\ heard'[s] = heard[s] \cup heard[d]
      BY <1>1, <2>2 DEF Linked, LinkDevice, TypeOK
    <3>. QED
      BY <3>1, <3>2
  <2>. QED
    BY <2>1, <2>2
<1>3. \A q \in Owner \ {s} : progress'[q] = progress[q] /\ heard'[q] = heard[q]
  BY DEF Linked, LinkDevice, TypeOK
<1>4. \A q \in Owner : Represents(progress'[q], heard'[q])
  BY <1>2, <1>3 DEF StandingMatchesHistory
<1>. QED
  BY <1>4 DEF StandingMatchesHistory, Represents, Passes, Linked

\* Every step keeps each standing that of its owner's submissions.
LEMMA NextStanding ==
  ASSUME TypeOK, StoreInv, LinkedInv, StandingMatchesHistory, [Next]_vars
  PROVE  StandingMatchesHistory'
<1>1. CASE Unheard
  <2>1. ASSUME NEW o \in Owner PROVE Represents(progress[o], heard[o])'
    <3>1. heard[o] \in SUBSET Request /\ heard[o] \subseteq stored
      BY DEF TypeOK, StoreInv
    <3>2. Represents(progress[o], heard[o]) /\ \A a \in heard[o] : passedAt'[a] = passedAt[a]
      BY <1>1, <3>1 DEF StandingMatchesHistory, Unheard
    <3>3. progress'[o] = progress[o] /\ heard'[o] = heard[o] /\ UNCHANGED backend
      BY <1>1 DEF Unheard
    <3>. QED
      BY <3>1, <3>2, <3>3 DEF Represents, Passes
  <2>. QED
    BY <2>1 DEF StandingMatchesHistory
<1>2. ASSUME NEW r \in Request, Recorded(r) PROVE StandingMatchesHistory'
  BY <1>2, RecordedStanding
<1>3. ASSUME NEW d \in Device, NEW s \in StudentId, Linked(d, s)
      PROVE  StandingMatchesHistory'
  BY <1>3, LinkedStanding
<1>4. CASE Restart
  BY <1>4 DEF Restart, StandingMatchesHistory, Represents, NoStanding, Passes
<1>. QED
  BY <1>1, <1>2, <1>3, <1>4, NextEffect DEF StepEffect

\* A device never forgets a student it was linked to.
LEMMA MetGrows ==
  ASSUME TypeOK, LinkedInv, [Next]_vars
  PROVE  \A d \in Device : met[d] \subseteq met'[d]
<1>1. ASSUME NEW r \in Request, LinkOnUse(r) PROVE \A d \in Device : met[d] \subseteq met'[d]
  BY <1>1 DEF LinkOnUse, LinkDevice, TypeOK
<1>2. ASSUME NEW r \in Request, SignInLink(r) PROVE \A d \in Device : met[d] \subseteq met'[d]
  BY <1>2 DEF SignInLink, LinkDevice, TypeOK
<1>3. ASSUME NEW r \in Request, Step(r), ~LinkOnUse(r), ~SignInLink(r)
      PROVE  UNCHANGED met
  BY <1>3 DEF Step, storeVars, Send, Touch, FindStudent, StudentGone, Replay, LookupMisses,
    RunAndGrade, CreateAttempt, RecordProgress, UpsertStudent, Deliver, Fail, Abort
<1>4. ASSUME NEW b \in Browser, Expire(b) PROVE UNCHANGED met
  BY <1>4 DEF Expire, storeVars
<1>5. ASSUME Restart \/ UNCHANGED vars PROVE UNCHANGED met
  BY <1>5 DEF Restart, vars, storeVars
<1>. QED
  BY <1>1, <1>2, <1>3, <1>4, <1>5 DEF Next, Over

\* Every step keeps a student's submissions on devices linked to them.
LEMMA NextOnlyLinked ==
  ASSUME TypeOK, StoreInv, LinkedInv, OnlyLinkedDevicesCount, [Next]_vars
  PROVE  OnlyLinkedDevicesCount'
<1>. USE RequestAssumption, OwnerAssumption
<1>. USE DEF OnlyLinkedDevicesCount
<1>1. \A s \in StudentId : \A a \in heard[s] : a \in Request /\ s \in met'[DeviceOf[a]]
  BY MetGrows DEF TypeOK, Owner
<1>2. CASE Unheard
  BY <1>1, <1>2 DEF Unheard
<1>3. ASSUME NEW r \in Request, Recorded(r) PROVE OnlyLinkedDevicesCount'
  <2>1. owner[r] \in StudentId => owner[r] \in met'[DeviceOf[r]]
    BY <1>3, MetGrows DEF Recorded
  <2>. QED
    BY <1>1, <1>3, <2>1 DEF Recorded, TypeOK, Owner
<1>4. ASSUME NEW d \in Device, NEW s \in StudentId, Linked(d, s)
      PROVE  OnlyLinkedDevicesCount'
  <2>1. s \in met'[d] /\ \A a \in heard[d] : DeviceOf[a] = d
    BY <1>4, LinkMet DEF Linked, LinkedInv
  <2>. QED
    BY <1>1, <1>4, <2>1 DEF Linked, LinkDevice, TypeOK, Owner
<1>5. CASE Restart
  BY <1>5 DEF Restart, Owner
<1>. QED
  BY <1>2, <1>3, <1>4, <1>5, NextEffect DEF StepEffect

\* A step sets a browser's cookie to what the response of one of its devices
\* says, clears it, or leaves it.
LEMMA CookieStep ==
  ASSUME TypeOK, [Next]_vars, NEW b \in Browser
  PROVE  \/ cookie'[b] \in {cookie[b], NoStudent}
         \/ \E r \in Request : /\ Jar(r) = b /\ cookie'[b] = setCookie[r]
                               /\ setCookie[r] \notin {"keep", "clear"}
<1>. DEFINE Goal == \/ cookie'[b] \in {cookie[b], NoStudent}
                    \/ \E r \in Request : /\ Jar(r) = b /\ cookie'[b] = setCookie[r]
                                          /\ setCookie[r] \notin {"keep", "clear"}
<1>1. ASSUME NEW r \in Request, Deliver(r) PROVE Goal
  <2>. USE DEF Deliver, TypeOK
  <2>1. CASE setCookie[r] = "keep"
    BY <1>1, <2>1
  <2>2. CASE setCookie[r] = "clear"
    BY <1>1, <2>2
  <2>3. CASE setCookie[r] \notin {"keep", "clear"}
    BY <1>1, <2>3
  <2>. QED
    BY <2>1, <2>2, <2>3
<1>2. ASSUME NEW r \in Request, Step(r), ~Deliver(r) PROVE UNCHANGED cookie
  BY <1>2 DEF Step, Send, Touch, FindStudent, StudentGone, LinkOnUse, Replay, LookupMisses,
    RunAndGrade, CreateAttempt, RecordProgress, UpsertStudent, SignInLink, Fail, Abort
<1>3. ASSUME NEW c \in Browser, Expire(c) PROVE Goal
  BY <1>3 DEF Expire, TypeOK
<1>4. ASSUME Restart \/ UNCHANGED vars PROVE UNCHANGED cookie
  BY <1>4 DEF Restart, vars
<1>. QED
  BY <1>1, <1>2, <1>3, <1>4 DEF Next, Over

\* Every step keeps a browser's student one that a device of its own has met.
LEMMA NextCookie ==
  ASSUME TypeOK, LinkedInv, CookieFollowsLink, [Next]_vars
  PROVE  CookieFollowsLink'
<1>. SUFFICES ASSUME NEW b \in Browser, cookie'[b] # NoStudent
              PROVE  \E d \in Device : BrowserOf[d] = b /\ cookie'[b] \in met'[d]
  BY DEF CookieFollowsLink
<1>1. CASE cookie'[b] = cookie[b]
  BY <1>1, MetGrows DEF CookieFollowsLink
<1>2. ASSUME NEW r \in Request, Jar(r) = b, cookie'[b] = setCookie[r],
             setCookie[r] \notin {"keep", "clear"}
      PROVE  \E d \in Device : BrowserOf[d] = b /\ cookie'[b] \in met'[d]
  <2>1. DeviceOf[r] \in Device /\ BrowserOf[DeviceOf[r]] = b
    BY <1>2, RequestAssumption DEF Jar
  <2>2. setCookie[r] \in met'[DeviceOf[r]]
    BY <1>2, <2>1, MetGrows DEF LinkedInv
  <2>. QED
    BY <1>2, <2>1, <2>2
<1>. QED
  BY <1>1, <1>2, CookieStep

\* All parts together.
LEMMA NextIInv == IInv /\ [Next]_vars => IInv'
BY NextTypeOK, NextPathInv, NextStoreInv, NextLinkedInv, NextAnswerInv, NextStanding,
   NextOnlyLinked, NextCookie DEF IInv

-----------------------------------------------------------------------------
(* The theorems                                                            *)

\* IInv is an invariant.
THEOREM Invariant == Spec => []IInv
BY InitIInv, NextIInv, PTL DEF Spec

\* The variables stay well typed.
THEOREM TypeCorrect == Spec => []TypeOK
<1>1. IInv => TypeOK
  BY DEF IInv
<1>. QED
  BY <1>1, Invariant, PTL

\* Whatever the order of records and merges, and with either store, a
\* standing is that of the set of submissions that reached its owner
\* (RecordProgress, LinkDevice, mergeProgress).
THEOREM StandingIsHistory == Spec => []StandingMatchesHistory
<1>1. IInv => StandingMatchesHistory
  BY DEF IInv
<1>. QED
  BY <1>1, Invariant, PTL

\* Progress reaches a student only from devices linked to them
\* (withIdentity, handleGoogle).
THEOREM OnlyLinkedCount == Spec => []OnlyLinkedDevicesCount
<1>1. IInv => OnlyLinkedDevicesCount
  BY DEF IInv
<1>. QED
  BY <1>1, Invariant, PTL

\* A cookie names a student that a device of the browser was linked to
\* (handleGoogle).
THEOREM CookieLinked == Spec => []CookieFollowsLink
<1>1. IInv => CookieFollowsLink
  BY DEF IInv
<1>. QED
  BY <1>1, Invariant, PTL

\* With Postgres a submission answered by its own request has been recorded,
\* and every attempt answered is stored (handleAttempt).
THEOREM AnswerRecorded == Spec => []AnsweredIsRecorded
<1>1. IInv => AnsweredIsRecorded
  BY DEF IInv, AnswerInv, AnsweredIsRecorded
<1>. QED
  BY <1>1, Invariant, PTL

\* With Postgres all answers to one idempotency_key name one attempt
\* (CreateAttempt's unique index and FindAttemptByIdempotencyKey).
THEOREM KeyHasOneResult == Spec => []OneResultPerKey
<1>1. ASSUME IInv PROVE OneResultPerKey
  <2>1. SUFFICES ASSUME backend = "postgres", NEW r \in Request, KeyOf[r] # NoKey
                 PROVE  Cardinality(KeyAnswers(r)) <= 1
    BY DEF OneResultPerKey
  <2>2. \A a \in KeyAnswers(r) :
          a \in stored /\ DeviceOf[a] = DeviceOf[r] /\ KeyOf[a] = KeyOf[r]
    BY <1>1, <2>1, RequestAssumption DEF IInv, AnswerInv, KeyAnswers, Kind
  <2>3. \A a, b \in KeyAnswers(r) : a = b
    BY <1>1, <2>1, <2>2 DEF IInv, StoreInv
  <2>4. CASE KeyAnswers(r) = {}
    BY <2>4, FS_EmptySet
  <2>5. ASSUME NEW a \in KeyAnswers(r) PROVE Cardinality(KeyAnswers(r)) <= 1
    <3>1. KeyAnswers(r) = {a}
      BY <2>3, <2>5
    <3>2. Cardinality({a}) = 1
      BY FS_Singleton
    <3>. QED
      BY <3>1, <3>2
  <2>. QED
    BY <2>4, <2>5
<1>. QED
  BY <1>1, Invariant, PTL

\* A merge with a pass on either side is a pass, no later than that one.
LEMMA MergeBound ==
  ASSUME NEW p1 \in Standing, NEW p2 \in Standing,
         \A p \in {p1, p2} : IF p.status = "passed" THEN p.at \in Nat ELSE p.at = Never
  PROVE  \A p \in {p1, p2} : p.status = "passed" =>
           Merge(p1, p2).status = "passed" /\ Merge(p1, p2).at <= p.at
BY TimeAssumption DEF Merge, MergeMemory, MergePostgres, Least, Standing

\* A standing has a time exactly when it is a pass.
LEMMA StandingTime ==
  ASSUME TypeOK, StandingMatchesHistory, NEW o \in Owner
  PROVE  IF progress[o].status = "passed" THEN progress[o].at \in Nat
         ELSE progress[o].at = Never
<1>1. \A a \in Passes(heard[o]) : passedAt[a] \in Nat
  BY TimeAssumption DEF Passes, TypeOK
<1>. QED
  BY <1>1 DEF StandingMatchesHistory, Represents

\* A device that is linked anew hands its pass to the student.
LEMMA LinkStep ==
  ASSUME IInv, NEW d \in Device, NEW s \in StudentId, LinkDevice(d, s),
         NEW o \in {d, s}, progress[o].status = "passed"
  PROVE  progress'[s].status = "passed" /\ progress'[s].at <= progress[o].at
<1>1. /\ d \in Owner /\ s \in Owner /\ progress[s] \in Standing /\ progress[d] \in Standing
      /\ \A p \in {progress[s], progress[d]} :
           IF p.status = "passed" THEN p.at \in Nat ELSE p.at = Never
  <2>1. d \in Owner /\ s \in Owner
    BY DEF Owner
  <2>. QED
    BY <2>1, StandingTime DEF IInv, TypeOK
<1>2. CASE progress[d].status = "none"
  BY <1>1, <1>2 DEF LinkDevice
<1>3. CASE progress[d].status # "none"
  <2>1. progress'[s] = Merge(progress[s], progress[d])
    BY <1>1, <1>3 DEF LinkDevice, IInv, TypeOK
  <2>. QED
    BY <1>1, <2>1, MergeBound
<1>. QED
  BY <1>2, <1>3

\* No step takes a pass away or moves its time on (RecordProgress,
\* LinkDevice), as long as the store is not lost.
THEOREM PassStays == Spec => PassNeverRegresses
<1> DEFINE Keeps == stored \subseteq stored' =>
      \A o \in Owner : progress[o].status = "passed" =>
        progress'[o].status = "passed" /\ progress'[o].at <= progress[o].at
<1>1. ASSUME IInv, [Next]_vars PROVE Keeps
  <2>1. SUFFICES ASSUME stored \subseteq stored', NEW o \in Owner,
                        progress[o].status = "passed"
                 PROVE  progress'[o].status = "passed" /\ progress'[o].at <= progress[o].at
    OBVIOUS
  <2>2. progress[o].at \in Nat
    BY <1>1, <2>1, StandingTime DEF IInv
  <2>3. CASE Unheard
    BY <2>1, <2>2, <2>3 DEF Unheard
  <2>4. ASSUME NEW r \in Request, Recorded(r)
        PROVE  progress'[o].status = "passed" /\ progress'[o].at <= progress[o].at
    <3>1. /\ owner[r] \in Owner /\ progress[o] \in Standing /\ Fresh(r) \in Standing
          /\ IF Fresh(r).status = "passed" THEN Fresh(r).at \in Nat ELSE Fresh(r).at = Never
      BY <1>1, FreshRepresents, TimeAssumption DEF IInv, TypeOK, Fresh
    <3>2. CASE o = owner[r]
      <4>1. progress'[o] = Merge(progress[o], Fresh(r))
        BY <1>1, <2>4, <3>2 DEF Recorded, IInv, TypeOK
      <4>. QED
        BY <2>1, <2>2, <3>1, <4>1, MergeBound
    <3>3. CASE o # owner[r]
      BY <1>1, <2>1, <2>2, <2>4, <3>3 DEF Recorded, IInv, TypeOK
    <3>. QED
      BY <3>2, <3>3
  <2>5. ASSUME NEW d \in Device, NEW s \in StudentId, Linked(d, s)
        PROVE  progress'[o].status = "passed" /\ progress'[o].at <= progress[o].at
    <3>1. CASE o = s
      BY <1>1, <2>1, <2>5, <3>1, LinkStep DEF Linked
    <3>2. CASE o # s
      BY <1>1, <2>1, <2>2, <2>5, <3>2 DEF Linked, LinkDevice, IInv, TypeOK
    <3>. QED
      BY <3>1, <3>2
  <2>6. ~Restart
    <3>1. heard[o] # {}
      BY <1>1, <2>1 DEF IInv, StandingMatchesHistory, Represents
    <3>2. stored # {}
      BY <1>1, <3>1 DEF IInv, StoreInv
    <3>. QED
      BY <2>1, <3>2 DEF Restart
  <2>. QED
    BY <1>1, <2>3, <2>4, <2>5, <2>6, NextEffect DEF StepEffect, IInv
<1>. QED
  BY <1>1, Invariant, PTL DEF Spec, PassNeverRegresses

\* A device that changes hands takes its pass along (LinkDevice).
THEOREM LinkHandsOver == Spec => LinkKeepsBetter
<1> DEFINE Hands == \A d \in Device :
      linked'[d] \notin {linked[d], NoStudent} /\ progress[d].status = "passed" =>
        progress'[linked'[d]].status = "passed" /\ progress'[linked'[d]].at <= progress[d].at
<1>1. ASSUME IInv, [Next]_vars PROVE Hands
  <2>1. SUFFICES ASSUME NEW d \in Device, linked'[d] \notin {linked[d], NoStudent},
                        progress[d].status = "passed"
                 PROVE  /\ progress'[linked'[d]].status = "passed"
                        /\ progress'[linked'[d]].at <= progress[d].at
    OBVIOUS
  <2>2. ~Unheard /\ ~Restart /\ \A r \in Request : ~Recorded(r)
    BY <2>1 DEF Unheard, Restart, Recorded
  <2>3. PICK e \in Device, s \in StudentId : Linked(e, s)
    BY <1>1, <2>2, NextEffect DEF StepEffect, IInv
  <2>4. e = d /\ linked'[d] = s
    BY <1>1, <2>1, <2>3 DEF Linked, LinkDevice, IInv, TypeOK
  <2>. QED
    BY <1>1, <2>1, <2>3, <2>4, LinkStep DEF Linked
<1>. QED
  BY <1>1, Invariant, PTL DEF Spec, LinkKeepsBetter

=============================================================================

------------------------------ MODULE Attempts ------------------------------
(***************************************************************************)
(* The HTTP requests that touch a student's attempts and progress:         *)
(* POST /v1/attempts (handleAttempt), POST /v1/auth/google (handleGoogle)  *)
(* and POST /v1/auth/logout (handleLogout), each behind withIdentity, over *)
(* a store that is Postgres (internal/store/postgres.go) or Memory         *)
(* (memory.go), and the session cookie in each browser.                    *)
(*                                                                         *)
(* Requests run concurrently, on one or several server instances.  A step  *)
(* of a request is one call of the store or of the runner with the local   *)
(* code up to the next one; each store call is a single SQL statement, a   *)
(* transaction or a critical section of Memory's mutex, so it takes effect *)
(* at one instant.                                                         *)
(*                                                                         *)
(* Progress is per exercise and no statement of the code relates two       *)
(* exercises, so the module follows one.  An attempt is identified with    *)
(* the request that made it (att.ID is fresh), and what is kept of its     *)
(* grade is the passed_at that handleAttempt would record: its time if it  *)
(* passed, Never if not.  The sandbox behind Runner.Run is SandboxPool.    *)
(***************************************************************************)
EXTENDS FiniteSets, Integers

CONSTANTS
  Backend,      \* the implementations of store.Store considered
  Request,      \* the HTTP requests
  KindOf,       \* what each request is: "run", "submit", "google", "logout"
  Device,       \* the values of X-Device-Id
  DeviceOf,     \* the device that sends each request
  Browser,      \* the cookie jars
  BrowserOf,    \* the jar of each device; a browser whose storage was cleared
                \* has a new device id and still its old cookie
  KeyOf,        \* the idempotency_key of each request
  NoKey,        \* the empty idempotency_key
  Account,      \* the Google accounts (google_sub)
  AccountOf,    \* the account a sign-in request's token names
  StudentId,    \* the identifiers NewID may give to a student
  NoStudent,    \* the empty student_id, and no session cookie
  NoRequest,    \* the empty best_attempt_id
  Time,         \* the values of s.Now()
  Never         \* a nil passed_at

Owner == Device \cup StudentId
Kind == {"run", "submit", "google", "logout"}

ASSUME RequestAssumption ==
  /\ Backend \subseteq {"memory", "postgres"}
  /\ KindOf \in [Request -> Kind]
  /\ DeviceOf \in [Request -> Device]
  /\ BrowserOf \in [Device -> Browser]
  /\ AccountOf \in [Request -> Account]
  /\ DOMAIN KeyOf = Request
  \* only an attempt has an idempotency_key
  /\ \A r \in Request : KindOf[r] \in {"google", "logout"} => KeyOf[r] = NoKey

\* store.Owner carries its kind, so a device and a student never coincide.
ASSUME OwnerAssumption ==
  /\ Device \cap StudentId = {}
  /\ NoStudent \notin Owner
  /\ Request \cap {NoRequest, "none", "error"} = {}

ASSUME TimeAssumption == Time \subseteq Nat /\ Never \notin Nat

VARIABLES
  backend,    \* the implementation that serves; it never changes
  students,   \* the student record of each account
  issued,     \* the student identifiers given out so far
  linked,     \* devices.student_id
  stored,     \* the attempts in the store
  progress,   \* the standing of each owner
  cookie,     \* the student each browser's session cookie names
  pc,         \* where each request is
  session,    \* the cookie a request carries
  seen,       \* the device's student_id as TouchDevice returned it
  owner,      \* id.Owner() of each request
  setCookie,  \* the Set-Cookie of its response
  passedAt,   \* the grade of its run
  answer,     \* what its response says
  heard,      \* ghost: the submissions that have reached each owner
  met         \* ghost: the students each device was ever linked to

storeVars == <<students, issued, linked, stored, progress, heard, met>>
headerVars == <<session, seen, setCookie>>
localVars == <<headerVars, owner, passedAt>>
vars == <<backend, storeVars, cookie, pc, localVars, answer>>

PC == {"idle", "touch", "student", "link", "lookup", "run", "create",
       "record", "upsert", "signin", "respond", "done"}

\* The answer r to r is its own success; another request's is a replay.
Answer == Request \cup {"none", "error"}
SetCookie == StudentId \cup {"keep", "clear"}

Standing == [status : {"none", "attempted", "passed"},
             best : Request \cup {NoRequest},
             at : Time \cup {Never}]

NoStanding == [status |-> "none", best |-> NoRequest, at |-> Never]

TypeOK ==
  /\ backend \in Backend
  /\ students \in [Account -> StudentId \cup {NoStudent}]
  /\ issued \in SUBSET StudentId
  /\ linked \in [Device -> StudentId \cup {NoStudent}]
  /\ stored \in SUBSET Request
  /\ progress \in [Owner -> Standing]
  /\ cookie \in [Browser -> StudentId \cup {NoStudent}]
  /\ pc \in [Request -> PC]
  /\ session \in [Request -> StudentId \cup {NoStudent}]
  /\ seen \in [Request -> StudentId \cup {NoStudent}]
  /\ owner \in [Request -> Owner]
  /\ setCookie \in [Request -> SetCookie]
  /\ passedAt \in [Request -> Time \cup {Never}]
  /\ answer \in [Request -> Answer]
  /\ heard \in [Owner -> SUBSET Request]
  /\ met \in [Device -> SUBSET StudentId]

\* NewMemory, or an empty database.
Init ==
  /\ backend \in Backend
  /\ students = [g \in Account |-> NoStudent]
  /\ issued = {}
  /\ linked = [d \in Device |-> NoStudent]
  /\ stored = {}
  /\ progress = [o \in Owner |-> NoStanding]
  /\ heard = [o \in Owner |-> {}]
  /\ met = [d \in Device |-> {}]
  /\ cookie = [b \in Browser |-> NoStudent]
  /\ pc = [r \in Request |-> "idle"]
  /\ session = [r \in Request |-> NoStudent]
  /\ seen = [r \in Request |-> NoStudent]
  /\ owner = DeviceOf
  /\ setCookie = [r \in Request |-> "keep"]
  /\ passedAt = [r \in Request |-> Never]
  /\ answer = [r \in Request |-> "none"]

-----------------------------------------------------------------------------
(* The store                                                               *)

\* Mutant: a later pass takes the place of an earlier one.
MergeLatest(cur, p) == IF cur.status = "passed" /\ p.status # "passed" THEN cur ELSE p

\* Memory.mergeProgress
MergeMemory(cur, p) ==
  IF cur.status = "passed" /\ (p.status = "passed" => p.at >= cur.at) THEN cur ELSE p

\* LEAST ignores NULL.
Least(t, u) ==
  IF t = Never THEN u ELSE IF u = Never THEN t ELSE IF t <= u THEN t ELSE u

\* Mutant: status is that of the row that comes in.
MergeRegresses(cur, p) == [status |-> p.status, best |-> p.best, at |-> Least(cur.at, p.at)]

\* The ON CONFLICT clause of RecordProgress and LinkDevice
MergePostgres(cur, p) ==
  IF cur.status = "none" THEN p
  ELSE [status |-> IF cur.status = "passed" THEN "passed" ELSE p.status,
        best |-> IF cur.status = "passed" /\ p.status # "passed" THEN cur.best ELSE p.best,
        at |-> Least(cur.at, p.at)]

Merge(cur, p) ==
  IF backend = "memory" THEN MergeMemory(cur, p) ELSE MergePostgres(cur, p)

\* Mutant: the device is attached and its progress is left where it is.
LinkOnly(d, s) ==
  /\ linked' = [linked EXCEPT ![d] = s]
  /\ met' = [met EXCEPT ![d] = @ \cup {s}]
  /\ UNCHANGED <<students, issued, stored, progress, heard>>

\* Attaches the device to the student and merges what the device has.
LinkDevice(d, s) ==
  /\ linked' = [linked EXCEPT ![d] = s]
  /\ progress' = IF progress[d].status = "none" THEN progress
                 ELSE [progress EXCEPT ![s] = Merge(@, progress[d])]
  /\ heard' = [heard EXCEPT ![s] = @ \cup heard[d]]
  /\ met' = [met EXCEPT ![d] = @ \cup {s}]
  /\ UNCHANGED <<students, issued, stored>>

\* The record RecordProgress makes of a submission.
Fresh(r) ==
  [status |-> IF passedAt[r] = Never THEN "attempted" ELSE "passed",
   best |-> r,
   at |-> passedAt[r]]

\* The attempts a lookup by device and key can return.
SameKey(r) ==
  {a \in stored : DeviceOf[a] = DeviceOf[r] /\ KeyOf[a] = KeyOf[r] /\ KeyOf[a] # NoKey}

-----------------------------------------------------------------------------
(* How a request moves                                                     *)

Jar(r) == BrowserOf[DeviceOf[r]]
At(r, l) == pc[r] = l
Goto(r, l) == pc' = [pc EXCEPT ![r] = l] /\ UNCHANGED answer

Reply(r, a) ==
  /\ pc' = [pc EXCEPT ![r] = "respond"]
  /\ answer' = [answer EXCEPT ![r] = a]

\* The request ends, and with it what the handler knew.
Leave(r) ==
  /\ Goto(r, "done")
  /\ session' = [session EXCEPT ![r] = NoStudent]
  /\ seen' = [seen EXCEPT ![r] = NoStudent]
  /\ setCookie' = [setCookie EXCEPT ![r] = "keep"]
  /\ UNCHANGED <<owner, passedAt>>

\* The call took effect; the handler learns so, or gets an error all the same.
GotoOrErr(r, l) == Goto(r, l) \/ Reply(r, "error")

\* Where the handler behind withIdentity begins: its first call.
Entry(r) ==
  CASE KindOf[r] = "logout" -> "respond"
    [] KindOf[r] = "google" -> "upsert"
    [] OTHER -> IF KeyOf[r] = NoKey THEN "run" ELSE "lookup"

\* handleLogout only asks the browser to drop its cookie.
EnterWith(r, c) ==
  /\ Goto(r, Entry(r))
  /\ setCookie' = [setCookie EXCEPT ![r] = IF KindOf[r] = "logout" THEN "clear" ELSE c]

-----------------------------------------------------------------------------
(* The browser, and withIdentity                                           *)

Send(r) ==
  /\ At(r, "idle")
  /\ session' = [session EXCEPT ![r] = cookie[Jar(r)]]
  /\ Goto(r, "touch")
  /\ UNCHANGED <<backend, storeVars, cookie, seen, owner, setCookie, passedAt>>

\* TouchDevice; without a session the device is the owner.
Touch(r) ==
  /\ At(r, "touch")
  /\ seen' = [seen EXCEPT ![r] = linked[DeviceOf[r]]]
  /\ IF session[r] = NoStudent THEN EnterWith(r, "keep")
     ELSE Goto(r, "student") /\ UNCHANGED setCookie
  /\ UNCHANGED <<backend, storeVars, cookie, session, owner, passedAt>>

Known(s) == \E g \in Account : students[g] = s

\* Mutant: the session is believed and the device never linked to it.
TrustSession(r) ==
  /\ At(r, "student")
  /\ Known(session[r])
  /\ owner' = [owner EXCEPT ![r] = session[r]]
  /\ EnterWith(r, "keep")
  /\ UNCHANGED <<backend, storeVars, cookie, session, seen, passedAt>>

\* GetStudent finds the session's student; the device is linked on first use.
FindStudent(r) ==
  /\ At(r, "student")
  /\ Known(session[r])
  /\ owner' = [owner EXCEPT ![r] = session[r]]
  /\ IF seen[r] = session[r] THEN EnterWith(r, "keep")
     ELSE Goto(r, "link") /\ UNCHANGED setCookie
  /\ UNCHANGED <<backend, storeVars, cookie, session, seen, passedAt>>

\* A session naming a student that does not exist is treated as signed out.
StudentGone(r) ==
  /\ At(r, "student")
  /\ ~Known(session[r])
  /\ EnterWith(r, "clear")
  /\ UNCHANGED <<backend, storeVars, cookie, session, seen, owner, passedAt>>

LinkOnUse(r) ==
  /\ At(r, "link")
  /\ LinkDevice(DeviceOf[r], session[r])
  /\ \/ EnterWith(r, "keep")
     \/ Reply(r, "error") /\ UNCHANGED setCookie
  /\ UNCHANGED <<backend, cookie, session, seen, owner, passedAt>>

-----------------------------------------------------------------------------
(* handleAttempt                                                           *)

\* The key is known: the original result is sent again.
Replay(r) ==
  /\ At(r, "lookup")
  /\ \E a \in SameKey(r) : Reply(r, a)
  /\ UNCHANGED <<backend, storeVars, cookie, localVars>>

\* The key is new.  A failed lookup counts as one (Memory's never fails).
LookupMisses(r) ==
  /\ At(r, "lookup")
  /\ SameKey(r) = {} \/ backend = "postgres"
  /\ Goto(r, "run")
  /\ UNCHANGED <<backend, storeVars, cookie, localVars>>

\* gateRun lets it through, Runner.Run returns a result, and it is graded; a
\* run is never passed.
RunAndGrade(r) ==
  /\ At(r, "run")
  /\ \E t \in Time \cup {Never} :
       /\ KindOf[r] = "run" => t = Never
       /\ passedAt' = [passedAt EXCEPT ![r] = t]
  /\ Goto(r, "create")
  /\ UNCHANGED <<backend, storeVars, cookie, session, seen, owner, setCookie>>

\* Mutant: no unique index.
CreateTwice(r) ==
  /\ At(r, "create")
  /\ stored' = stored \cup {r}
  /\ IF KindOf[r] = "submit" THEN Goto(r, "record") ELSE Reply(r, r)
  /\ UNCHANGED <<backend, students, issued, linked, progress, heard, met, cookie, localVars>>

\* Mutant: the answer is given before progress is recorded.
CreateAndAnswer(r) ==
  /\ At(r, "create")
  /\ backend = "memory" \/ SameKey(r) = {}
  /\ stored' = stored \cup {r}
  /\ Reply(r, r)
  /\ UNCHANGED <<backend, students, issued, linked, progress, heard, met, cookie, localVars>>

\* Postgres has a unique index on device and key; Memory does not look.
CreateAttempt(r) ==
  /\ At(r, "create")
  /\ backend = "memory" \/ SameKey(r) = {}
  /\ stored' = stored \cup {r}
  /\ IF KindOf[r] = "submit" THEN GotoOrErr(r, "record")
     ELSE Reply(r, r) \/ Reply(r, "error")
  /\ UNCHANGED <<backend, students, issued, linked, progress, heard, met, cookie, localVars>>

RecordProgress(r) ==
  /\ At(r, "record")
  /\ progress' = [progress EXCEPT ![owner[r]] = Merge(@, Fresh(r))]
  /\ heard' = [heard EXCEPT ![owner[r]] = @ \cup {r}]
  /\ Reply(r, r) \/ Reply(r, "error")
  /\ UNCHANGED <<backend, students, issued, linked, stored, met, cookie, localVars>>

-----------------------------------------------------------------------------
(* handleGoogle, the response, and failures                                *)

\* Verify accepted the token; UpsertStudent finds or makes the student.
UpsertStudent(r) ==
  /\ At(r, "upsert")
  /\ \E s \in StudentId :
       /\ IF students[AccountOf[r]] = NoStudent THEN s \notin issued
          ELSE s = students[AccountOf[r]]
       /\ students' = [students EXCEPT ![AccountOf[r]] = s]
       /\ issued' = issued \cup {s}
       /\ owner' = [owner EXCEPT ![r] = s]
  /\ GotoOrErr(r, "signin")
  /\ UNCHANGED <<backend, linked, stored, progress, heard, met, cookie,
                 session, seen, setCookie, passedAt>>

\* Mutant: the cookie is issued whether or not the device could be linked.
IssueAnyway(r) ==
  /\ At(r, "signin")
  /\ LinkDevice(DeviceOf[r], owner[r]) \/ UNCHANGED storeVars
  /\ Reply(r, r)
  /\ setCookie' = [setCookie EXCEPT ![r] = owner[r]]
  /\ UNCHANGED <<backend, cookie, session, seen, owner, passedAt>>

\* Mutant: the cookie names the session's student, not the one signed in.
IssueOldSession(r) ==
  /\ At(r, "signin")
  /\ LinkDevice(DeviceOf[r], owner[r])
  /\ Reply(r, r)
  /\ setCookie' = [setCookie EXCEPT ![r] = session[r]]
  /\ UNCHANGED <<backend, cookie, session, seen, owner, passedAt>>

\* LinkDevice, then the session cookie of the student.
SignInLink(r) ==
  /\ At(r, "signin")
  /\ LinkDevice(DeviceOf[r], owner[r])
  /\ \/ Reply(r, r) /\ setCookie' = [setCookie EXCEPT ![r] = owner[r]]
     \/ Reply(r, "error") /\ UNCHANGED setCookie
  /\ UNCHANGED <<backend, cookie, session, seen, owner, passedAt>>

\* The response reaches the browser, which obeys its Set-Cookie.
Deliver(r) ==
  /\ At(r, "respond")
  /\ Leave(r)
  /\ cookie' = CASE setCookie[r] = "keep" -> cookie
                 [] setCookie[r] = "clear" -> [cookie EXCEPT ![Jar(r)] = NoStudent]
                 [] OTHER -> [cookie EXCEPT ![Jar(r)] = setCookie[r]]
  /\ UNCHANGED <<backend, storeVars>>

\* A call fails without effect, or refuses: a store error, the rate limit, no
\* sandbox, a failed run, a duplicate key, a Google token that is not valid.
\* A lookup that fails is LookupMisses.
Fail(r) ==
  /\ pc[r] \in {"touch", "student", "link", "run", "create", "record", "upsert", "signin"}
  /\ Reply(r, "error")
  /\ UNCHANGED <<backend, storeVars, cookie, localVars>>

\* The client is gone, its connection is cut or the instance crashes: the
\* handler goes no further and the browser hears nothing.
Abort(r) ==
  /\ pc[r] \notin {"idle", "done"}
  /\ Leave(r)
  /\ UNCHANGED <<backend, storeVars, cookie>>

\* The session cookie expires or is deleted.
Expire(b) ==
  /\ cookie[b] # NoStudent
  /\ cookie' = [cookie EXCEPT ![b] = NoStudent]
  /\ UNCHANGED <<backend, storeVars, pc, localVars, answer>>

\* The process restarts: Memory's data is lost; the browsers keep theirs.
\* (With Postgres this is no more than an Abort of each request.)
Restart ==
  /\ backend = "memory"
  /\ students' = [g \in Account |-> NoStudent]
  /\ linked' = [d \in Device |-> NoStudent]
  /\ stored' = {}
  /\ progress' = [o \in Owner |-> NoStanding]
  /\ heard' = [o \in Owner |-> {}]
  /\ pc' = [r \in Request |-> IF pc[r] = "idle" THEN "idle" ELSE "done"]
  /\ session' = [r \in Request |-> NoStudent]
  /\ seen' = [r \in Request |-> NoStudent]
  /\ setCookie' = [r \in Request |-> "keep"]
  /\ UNCHANGED <<backend, issued, met, cookie, owner, passedAt, answer>>

-----------------------------------------------------------------------------
Step(r) ==
  \/ Send(r) \/ Touch(r) \/ FindStudent(r) \/ StudentGone(r) \/ LinkOnUse(r)
  \/ Replay(r) \/ LookupMisses(r) \/ RunAndGrade(r) \/ CreateAttempt(r) \/ RecordProgress(r)
  \/ UpsertStudent(r) \/ SignInLink(r)
  \/ Deliver(r) \/ Fail(r) \/ Abort(r)

\* Every request has ended.
Over == (\A r \in Request : pc[r] = "done") /\ UNCHANGED vars

Next ==
  \/ \E r \in Request : Step(r)
  \/ \E b \in Browser : Expire(b)
  \/ Restart
  \/ Over

Spec == Init /\ [][Next]_vars

-----------------------------------------------------------------------------
(* Safety                                                                  *)

Passes(H) == {a \in H : passedAt[a] # Never}

\* p is the standing of somebody whose submissions are H, in whatever order
\* they came: passed once one of them passed, with the time of the earliest
\* pass and a passing attempt as the best one.  Memory keeps the earliest pass
\* itself; Postgres the one that was merged last.
Represents(p, H) ==
  /\ p.status = IF H = {} THEN "none" ELSE IF Passes(H) = {} THEN "attempted" ELSE "passed"
  /\ p.status = "none" => p.best = NoRequest
  /\ p.status = "attempted" => p.best \in H
  /\ p.status # "passed" => p.at = Never
  /\ p.status = "passed" =>
       /\ p.best \in Passes(H)
       /\ \E a \in Passes(H) : p.at = passedAt[a]
       /\ \A a \in Passes(H) : p.at <= passedAt[a]
       /\ backend = "memory" => p.at = passedAt[p.best]

\* The standing of an owner depends only on the set of submissions that have
\* reached it, directly or with the progress of a device at sign-in, and not
\* on the order of records and merges, for both stores.
StandingMatchesHistory == \A o \in Owner : Represents(progress[o], heard[o])

\* "status never regresses from passed to attempted", nor does the time of
\* the first pass move on, whatever is recorded or merged.  A step that loses
\* Memory's data is no regress.
PassNeverRegresses ==
  [][stored \subseteq stored' =>
       \A o \in Owner : progress[o].status = "passed" =>
         progress'[o].status = "passed" /\ progress'[o].at <= progress[o].at]_vars

\* LinkDevice "merges the device's progress into the student's, keeping the
\* better status": when a device changes hands its pass goes with it.
LinkKeepsBetter ==
  [][\A d \in Device : linked'[d] \notin {linked[d], NoStudent} /\ progress[d].status = "passed" =>
       progress'[linked'[d]].status = "passed" /\ progress'[linked'[d]].at <= progress[d].at]_vars

\* With Postgres "a retried request gets the original result": two answers to
\* one key name the same attempt, even when the requests ran side by side.
KeyAnswers(r) == {answer[q] : q \in {q \in Request :
  DeviceOf[q] = DeviceOf[r] /\ KeyOf[q] = KeyOf[r]}} \cap Request
OneResultPerKey ==
  backend = "postgres" =>
    \A r \in Request : KeyOf[r] # NoKey => Cardinality(KeyAnswers(r)) <= 1

\* With Postgres an attempt that a client was told of is in the store, and a
\* submission answered by the request that ran it has reached its owner.
AnsweredIsRecorded ==
  backend = "postgres" =>
    \A r \in Request : KindOf[r] \in {"run", "submit"} /\ answer[r] \in Request =>
      /\ answer[r] \in stored
      /\ KindOf[r] = "submit" /\ answer[r] = r => r \in heard[owner[r]]

\* A student's progress comes only from devices that were linked to them.
OnlyLinkedDevicesCount ==
  \A s \in StudentId : \A a \in heard[s] : s \in met[DeviceOf[a]]

\* A browser is signed in only to a student that a device of its own has been
\* linked to: handleGoogle merges first and issues the cookie after.
CookieFollowsLink ==
  \A b \in Browser : cookie[b] # NoStudent =>
    \E d \in Device : BrowserOf[d] = b /\ cookie[b] \in met[d]

-----------------------------------------------------------------------------
(* What the documentation says and the code does not do                    *)

\* No request is under way.
Quiet == \A r \in Request : pc[r] \in {"idle", "done"}

\* "A retried request returns the original result", and handleAttempt is to
\* "gate, execute, grade, record, respond": once nothing is under way, a pass
\* that a client was told of, by the first answer or by a retry's, is in
\* somebody's progress.
ToldPassIsRecorded ==
  Quiet =>
    \A r \in Request :
      answer[r] \in stored /\ passedAt[answer[r]] # Never =>
        \E o \in Owner : progress[o].status = "passed"

\* Sign-in "syncs progress": once nothing is under way, a browser that is
\* signed in shows every pass its device was told of.
SignedInShowsPasses ==
  Quiet =>
    \A r \in Request :
      answer[r] = r /\ r \in stored /\ passedAt[r] # Never /\ cookie[Jar(r)] # NoStudent =>
        progress[cookie[Jar(r)]].status = "passed"

=============================================================================

---------------------------- MODULE SandboxPool ----------------------------
(***************************************************************************)
(* The sandbox-backed runner of internal/runner/neevcloud.go: attempts     *)
(* that call Run concurrently, the prewarm loop that Start launches, the   *)
(* goroutines of deleteAsync, and Stop, which main.go calls when the HTTP  *)
(* server is told to shut down.  The NeevCloud platform is external: it    *)
(* makes sandboxes ready, breaks them (Paused, RestoreFailed) and reaps    *)
(* them at their idle or lifetime limit, whenever it likes.                *)
(*                                                                         *)
(* One step of a process is the code between two points where another      *)
(* goroutine or the platform can intervene: a channel operation, or one    *)
(* HTTP call with the local code up to the next one.  A call takes effect  *)
(* at one instant and may fail with or without its effect.                 *)
(***************************************************************************)
EXTENDS FiniteSets, Integers

CONSTANTS
  Attempt,      \* the calls of Run
  Sandbox,      \* the identifiers the platform may hand out
  Prewarmer,    \* the goroutine Start launches
  Stopper,      \* the goroutine that calls Stop
  NoSandbox,    \* the nil *sandbox
  Prewarm,      \* cfg.Prewarm
  MaxInflight   \* cfg.MaxInflight

\* Something that calls create: an attempt, or the prewarm loop.
Creator == Attempt \cup {Prewarmer}

\* The goroutines that hold a sandbox in a local variable.
Process == Creator \cup {Stopper}

ASSUME ProcessAssumption ==
  /\ IsFiniteSet(Attempt)
  /\ Prewarmer \notin Attempt
  /\ Stopper \notin Creator

ASSUME SandboxAssumption ==
  /\ IsFiniteSet(Sandbox)
  /\ NoSandbox \notin Sandbox

\* NewNeevCloud replaces a MaxInflight below 1 by 50.
ASSUME ConfigAssumption ==
  /\ Prewarm \in Nat
  /\ MaxInflight \in Nat \ {0}

\* make(chan *sandbox, max(cfg.Prewarm, 1))
PoolCapacity == IF Prewarm = 0 THEN 1 ELSE Prewarm

VARIABLES
  phase,      \* the platform's record of each sandbox
  code,       \* the attempts whose files were written into each sandbox
  pool,       \* the sandboxes in the pool channel
  slots,      \* the number of tokens in the slots channel
  pc,         \* where each process is
  sb,         \* the sandbox each process holds
  signalled,  \* the context main.go passes to Start is done
  result,     \* what Run returned to each attempt
  deleting,   \* the sandboxes a deleteAsync goroutine is deleting
  fate,       \* why nobody will delete a sandbox any more, if so
  proc        \* the server process

platformVars == <<phase, code>>
vars == <<phase, code, pool, slots, pc, sb, signalled, result,
          deleting, fate, proc>>

Phase == {"unborn", "starting", "ready", "broken", "gone"}
RunPC == {"idle", "acquire", "recheck", "post", "wait", "stage", "exec",
          "cleanup", "release", "done"}
LoopPC == {"loop", "post", "wait", "push", "done"}
StopPC == {"serving", "wgwait", "drain", "delete", "returned"}
Result == {"none", "ok", "busy", "error"}

\* The ways a sandbox is left to the platform's own limits: the answer of its
\* create was lost, its delete failed, the process ended before the delete.
Fate == {"kept", "lost", "undeleted", "abandoned"}

TypeOK ==
  /\ phase \in [Sandbox -> Phase]
  /\ code \in [Sandbox -> SUBSET Attempt]
  /\ pool \in SUBSET Sandbox
  /\ slots \in Nat
  /\ pc \in [Process -> RunPC \cup LoopPC \cup StopPC]
  /\ \A a \in Attempt : pc[a] \in RunPC
  /\ pc[Prewarmer] \in LoopPC
  /\ pc[Stopper] \in StopPC
  /\ sb \in [Process -> Sandbox \cup {NoSandbox}]
  /\ signalled \in BOOLEAN
  /\ result \in [Attempt -> Result]
  /\ deleting \in SUBSET Sandbox
  /\ fate \in [Sandbox -> Fate]
  /\ proc \in {"running", "exited", "crashed"}

\* NewNeevCloud followed by Start.
Init ==
  /\ phase = [s \in Sandbox |-> "unborn"]
  /\ code = [s \in Sandbox |-> {}]
  /\ pool = {}
  /\ slots = 0
  /\ pc = [p \in Process |->
             IF p \in Attempt THEN "idle"
             ELSE IF p = Stopper THEN "serving"
             ELSE IF Prewarm > 0 THEN "loop" ELSE "done"]
  /\ sb = [p \in Process |-> NoSandbox]
  /\ signalled = FALSE
  /\ result = [a \in Attempt |-> "none"]
  /\ deleting = {}
  /\ fate = [s \in Sandbox |-> "kept"]
  /\ proc = "running"

-----------------------------------------------------------------------------
(* How a process moves, and what becomes of the sandbox it holds.          *)

At(p, l) == proc = "running" /\ pc[p] = l
Goto(p, l) == pc' = [pc EXCEPT ![p] = l]
Hold(p, s) == sb' = [sb EXCEPT ![p] = s]
Drop(p) == Hold(p, NoSandbox)
Return(a, res) == result' = [result EXCEPT ![a] = res]

\* deleteAsync(s), where s is what p holds.
HandToDelete(p) == deleting' = deleting \cup {sb[p]} /\ Drop(p)

\* p goes on from one place to another and changes nothing else.
Jump(p, from, to) ==
  /\ At(p, from)
  /\ Goto(p, to)
  /\ UNCHANGED <<platformVars, pool, slots, sb, signalled, result, deleting, fate, proc>>

\* The attempt's outcome is settled on the way.
Conclude(a, from, to, res) ==
  /\ At(a, from)
  /\ Goto(a, to)
  /\ Return(a, res)
  /\ UNCHANGED <<platformVars, pool, slots, sb, signalled, deleting, fate, proc>>

\* p gives its sandbox to deleteAsync on the way.
GiveUp(p, from, to) ==
  /\ At(p, from)
  /\ HandToDelete(p)
  /\ Goto(p, to)
  /\ UNCHANGED <<platformVars, pool, slots, signalled, result, fate, proc>>

\* p takes a sandbox out of the pool channel.
Receive(p, from, to) ==
  /\ At(p, from)
  /\ \E s \in pool : pool' = pool \ {s} /\ Hold(p, s)
  /\ Goto(p, to)
  /\ UNCHANGED <<platformVars, slots, signalled, result, deleting, fate, proc>>

\* The prewarm loop's calls fail at once when its context is done.  So do an
\* attempt's when its client is gone or its deadline has passed; as each of
\* its calls may fail at any time, that needs no variable of its own.
MayCall(p) == p = Prewarmer => ~signalled

\* create returned an error: Run returns it, the prewarm loop sleeps.
CreateFails(p, res) ==
  IF p \in Attempt THEN Goto(p, "release") /\ Return(p, res)
  ELSE Goto(p, "loop") /\ UNCHANGED result

\* create returned a Ready sandbox.
AfterCreate(p) == IF p \in Attempt THEN "stage" ELSE "push"

-----------------------------------------------------------------------------
(* Run and acquire                                                         *)

\* Mutant: the token is only ever given back.
TakeSlotNoToken(a) == slots < MaxInflight /\ Jump(a, "idle", "acquire")

\* The select on n.slots has room.
TakeSlot(a) ==
  /\ At(a, "idle")
  /\ slots < MaxInflight
  /\ slots' = slots + 1
  /\ Goto(a, "acquire")
  /\ UNCHANGED <<platformVars, pool, sb, signalled, result, deleting, fate, proc>>

\* The select on n.slots falls to default.
RefuseBusy(a) == slots >= MaxInflight /\ Conclude(a, "idle", "done", "busy")

\* Mutant: the sandbox is looked at and left in the channel.
PeekPooled(a) ==
  /\ At(a, "acquire")
  /\ \E s \in pool : Hold(a, s)
  /\ Goto(a, "recheck")
  /\ UNCHANGED <<platformVars, pool, slots, signalled, result, deleting, fate, proc>>

TakePooled(a) == Receive(a, "acquire", "recheck")

PoolEmpty(a) == pool = {} /\ Jump(a, "acquire", "post")

\* The pooled sandbox is still Ready: Run goes on with it.
RecheckReady(a) == At(a, "recheck") /\ phase[sb[a]] = "ready" /\ Jump(a, "recheck", "stage")

\* Mutant: the sandbox is given up and used all the same.
RecheckIgnored(a) ==
  /\ At(a, "recheck")
  /\ deleting' = deleting \cup {sb[a]}
  /\ Goto(a, "stage")
  /\ UNCHANGED <<platformVars, pool, slots, sb, signalled, result, fate, proc>>

\* get failed or reports another phase: the next one is tried.
RecheckFails(a) == GiveUp(a, "recheck", "acquire")

\* The three writeFile calls; the platform holds the sandbox's files.
StageFiles(a) ==
  /\ At(a, "stage")
  /\ phase[sb[a]] = "ready"
  /\ code' = [code EXCEPT ![sb[a]] = @ \cup {a}]
  /\ Goto(a, "exec")
  /\ UNCHANGED <<phase, pool, slots, sb, signalled, result, deleting, fate, proc>>

\* Mutant: the attempt starts again in another sandbox.
StageRetries(a) ==
  /\ At(a, "stage")
  /\ phase[sb[a]] = "ready" /\ code' = [code EXCEPT ![sb[a]] = @ \cup {a}]
  /\ HandToDelete(a)
  /\ Goto(a, "acquire")
  /\ UNCHANGED <<phase, pool, slots, signalled, result, fate, proc>>

\* One of the writes failed, with some of the files written or none.
StageFails(a) ==
  /\ At(a, "stage")
  /\ \/ phase[sb[a]] = "ready" /\ code' = [code EXCEPT ![sb[a]] = @ \cup {a}]
     \/ UNCHANGED code
  /\ Goto(a, "cleanup")
  /\ Return(a, "error")
  /\ UNCHANGED <<phase, pool, slots, sb, signalled, deleting, fate, proc>>

ExecSucceeds(a) == At(a, "exec") /\ phase[sb[a]] = "ready" /\ Conclude(a, "exec", "cleanup", "ok")

\* exec or parseResult failed.
ExecFails(a) == Conclude(a, "exec", "cleanup", "error")

\* Mutant: a sandbox that ran to the end goes back to the pool.
CleanupReuses(a) ==
  /\ At(a, "cleanup")
  /\ pool' = pool \cup {sb[a]} /\ Drop(a)
  /\ Goto(a, "release")
  /\ UNCHANGED <<platformVars, slots, signalled, result, deleting, fate, proc>>

\* Mutant: the deferred deleteAsync is missing.
CleanupForgets(a) ==
  /\ At(a, "cleanup")
  /\ Drop(a)
  /\ Goto(a, "release")
  /\ UNCHANGED <<platformVars, pool, slots, signalled, result, deleting, fate, proc>>

\* The deferred calls run last in, first out: deleteAsync, then the slot.
Cleanup(a) == GiveUp(a, "cleanup", "release")

ReleaseSlot(a) ==
  /\ At(a, "release")
  /\ slots' = slots - 1
  /\ Goto(a, "done")
  /\ UNCHANGED <<platformVars, pool, sb, signalled, result, deleting, fate, proc>>

-----------------------------------------------------------------------------
(* create, called by acquire and by the prewarm loop                       *)

\* The POST is answered with a sandbox that is still starting, or with a
\* Ready one from the platform's warm pool.
PostCreated(p) ==
  /\ At(p, "post")
  /\ MayCall(p)
  /\ \E s \in Sandbox, ph \in {"starting", "ready"} :
       /\ phase[s] = "unborn"
       /\ Hold(p, s)
       /\ phase' = [phase EXCEPT ![s] = ph]
       /\ Goto(p, IF ph = "ready" THEN AfterCreate(p) ELSE "wait")
  /\ UNCHANGED <<code, pool, slots, signalled, result, deleting, fate, proc>>

\* The platform made the sandbox but the answer was lost or unreadable:
\* controlJSON returns an error and nobody here knows the identifier.
PostLost(p) ==
  /\ At(p, "post")
  /\ MayCall(p)
  /\ \E s \in Sandbox :
       /\ phase[s] = "unborn"
       /\ phase' = [phase EXCEPT ![s] = "starting"]
       /\ fate' = [fate EXCEPT ![s] = "lost"]
  /\ CreateFails(p, "error")
  /\ UNCHANGED <<code, pool, slots, sb, signalled, deleting, proc>>

\* No sandbox was made: 429 and 503 are ErrBusy, anything else an error.
PostRefused(p) ==
  /\ At(p, "post")
  /\ \E res \in {"busy", "error"} : CreateFails(p, res)
  /\ UNCHANGED <<platformVars, pool, slots, sb, signalled, deleting, fate, proc>>

\* get reports Ready with a connect URL.
WaitReady(p) ==
  At(p, "wait") /\ MayCall(p) /\ phase[sb[p]] = "ready" /\ Jump(p, "wait", AfterCreate(p))

\* Mutant: the error path returns without deleteAsync.
WaitForgets(p) ==
  /\ At(p, "wait")
  /\ Drop(p)
  /\ CreateFails(p, "error")
  /\ UNCHANGED <<platformVars, pool, slots, signalled, deleting, fate, proc>>

\* Mutant: no ReadyTimeout, and a failed get is tried again.
WaitForever(p) ==
  /\ At(p, "wait")
  /\ phase[sb[p]] = "broken"
  /\ HandToDelete(p)
  /\ CreateFails(p, "error")
  /\ UNCHANGED <<platformVars, pool, slots, signalled, fate, proc>>

\* get failed or reports Paused or RestoreFailed, ReadyTimeout passed, or the
\* context is done.  (Another poll of a starting sandbox changes nothing.)
WaitFails(p) ==
  /\ At(p, "wait")
  /\ HandToDelete(p)
  /\ CreateFails(p, "error")
  /\ UNCHANGED <<platformVars, pool, slots, signalled, fate, proc>>

-----------------------------------------------------------------------------
(* The prewarm loop and deleteAsync                                        *)

Stopping == pc[Stopper] # "serving"

\* Mutant: > where the code has >=.
PrewarmOneMore ==
  ~signalled /\ ~Stopping /\ Cardinality(pool) <= Prewarm /\ Jump(Prewarmer, "loop", "post")

\* A full pool or a failed create only sleeps and comes back here.
PrewarmMore ==
  ~signalled /\ ~Stopping /\ Cardinality(pool) < Prewarm /\ Jump(Prewarmer, "loop", "post")

\* Mutant: the loop does not look at stopCh.
PrewarmIgnoresStop == signalled /\ Jump(Prewarmer, "loop", "done")

\* The context is done or stopCh is closed.
PrewarmStops == (signalled \/ Stopping) /\ Jump(Prewarmer, "loop", "done")

\* The send does not block: a full channel would have the sandbox deleted.
PrewarmPush ==
  /\ At(Prewarmer, "push")
  /\ IF Cardinality(pool) < PoolCapacity
     THEN pool' = pool \cup {sb[Prewarmer]} /\ Drop(Prewarmer) /\ UNCHANGED deleting
     ELSE HandToDelete(Prewarmer) /\ UNCHANGED pool
  /\ Goto(Prewarmer, "loop")
  /\ UNCHANGED <<platformVars, slots, signalled, result, fate, proc>>

\* The DELETE answers 204, 200 or 404.
DeleteSucceeds(s) ==
  /\ proc = "running"
  /\ s \in deleting
  /\ deleting' = deleting \ {s}
  /\ phase' = [phase EXCEPT ![s] = "gone"]
  /\ UNCHANGED <<code, pool, slots, pc, sb, signalled, result, fate, proc>>

\* The DELETE fails; that is logged, and nobody tries again.
DeleteFails(s) ==
  /\ proc = "running"
  /\ s \in deleting
  /\ deleting' = deleting \ {s}
  /\ fate' = [fate EXCEPT ![s] = "undeleted"]
  /\ UNCHANGED <<platformVars, pool, slots, pc, sb, signalled, result, proc>>

-----------------------------------------------------------------------------
(* Stop, and the end of the process                                        *)

\* SIGINT or SIGTERM: the context main.go passes to Start is done.
Signal ==
  /\ proc = "running"
  /\ ~signalled
  /\ signalled' = TRUE
  /\ UNCHANGED <<platformVars, pool, slots, pc, sb, result, deleting, fate, proc>>

\* ListenAndServe returned, on Shutdown or on an error; handlers may still be
\* running.  Stop closes stopCh.
BeginStop == Jump(Stopper, "serving", "wgwait")

\* Mutant: the prewarm loop is not counted.
DeletesZero == deleting = {}

\* n.wg counts the prewarm loop and the deleteAsync goroutines.
WaitGroupZero == pc[Prewarmer] = "done" /\ deleting = {}

WaitReturns == WaitGroupZero /\ Jump(Stopper, "wgwait", "drain")

DrainOne == Receive(Stopper, "drain", "delete")

DrainDelete ==
  /\ At(Stopper, "delete")
  /\ \/ phase' = [phase EXCEPT ![sb[Stopper]] = "gone"] /\ UNCHANGED fate
     \/ fate' = [fate EXCEPT ![sb[Stopper]] = "undeleted"] /\ UNCHANGED phase
  /\ Drop(Stopper)
  /\ Goto(Stopper, "drain")
  /\ UNCHANGED <<code, pool, slots, signalled, result, deleting, proc>>

DrainDone == pool = {} /\ Jump(Stopper, "drain", "returned")

\* The sandboxes the process knows of and will delete.
Owned == {sb[p] : p \in Process} \cup pool \cup deleting

\* The process ends and every goroutine with it; the platform and what the
\* clients were told are all that is left.
EndProcess(how) ==
  /\ proc = "running"
  /\ proc' = how
  /\ pool' = {}
  /\ deleting' = {}
  /\ slots' = 0
  /\ pc' = [p \in Process |-> IF p = Stopper THEN "returned" ELSE "done"]
  /\ sb' = [p \in Process |-> NoSandbox]
  /\ fate' = [s \in Sandbox |->
                IF s \in Owned /\ phase[s] # "gone" THEN "abandoned" ELSE fate[s]]
  /\ UNCHANGED <<platformVars, signalled, result>>

\* serve returns after its deferred cleanup: main ends, even while handlers
\* are still in Run.
Exit == At(Stopper, "returned") /\ EndProcess("exited")

Crash == EndProcess("crashed")

-----------------------------------------------------------------------------
(* The platform                                                            *)

PlatformStep(s, from, to) ==
  /\ phase[s] \in from
  /\ phase' = [phase EXCEPT ![s] = to]
  /\ UNCHANGED <<code, pool, slots, pc, sb, signalled, result, deleting, fate, proc>>

BecomeReady(s) == PlatformStep(s, {"starting"}, "ready")
Break(s) == PlatformStep(s, {"starting", "ready"}, "broken")

\* idle_timeout_seconds or max_lifetime_seconds passed.
Reap(s) == PlatformStep(s, {"starting", "ready", "broken"}, "gone")

-----------------------------------------------------------------------------
RunStep(a) ==
  \/ TakeSlot(a) \/ RefuseBusy(a)
  \/ TakePooled(a) \/ PoolEmpty(a) \/ RecheckReady(a) \/ RecheckFails(a)
  \/ StageFiles(a) \/ StageFails(a) \/ ExecSucceeds(a) \/ ExecFails(a)
  \/ Cleanup(a) \/ ReleaseSlot(a)

CreateStep(p) ==
  PostCreated(p) \/ PostLost(p) \/ PostRefused(p) \/ WaitReady(p) \/ WaitFails(p)

PrewarmStep == PrewarmMore \/ PrewarmStops \/ PrewarmPush

DeleteStep(s) == DeleteSucceeds(s) \/ DeleteFails(s)

StopStep == WaitReturns \/ DrainOne \/ DrainDelete \/ DrainDone \/ Exit

PlatformNext == \E s \in Sandbox : BecomeReady(s) \/ Break(s) \/ Reap(s)

\* Once the process has ended and the platform has nothing left to do.
Over == proc # "running" /\ UNCHANGED vars

Next ==
  \/ \E a \in Attempt : RunStep(a)
  \/ \E p \in Creator : CreateStep(p)
  \/ PrewarmStep
  \/ \E s \in Sandbox : DeleteStep(s)
  \/ Signal \/ BeginStop \/ StopStep \/ Crash
  \/ PlatformNext
  \/ Over

Spec == Init /\ [][Next]_vars

\* Every HTTP call, sleep and wait of the runner is bounded by a timeout, and
\* the Go scheduler runs every goroutine that can move.  Nothing is assumed of
\* the platform, of clients, of signals, or of new requests being made.
Fairness ==
  /\ \A a \in Attempt : WF_vars(RunStep(a) /\ pc[a] # "idle")
  /\ \A p \in Creator : WF_vars(CreateStep(p))
  /\ WF_vars(PrewarmStep)
  /\ \A s \in Sandbox : WF_vars(DeleteStep(s))
  /\ WF_vars(StopStep)

FairSpec == Spec /\ Fairness

-----------------------------------------------------------------------------
(* Safety                                                                  *)

\* "Sandboxes are never shared between attempts": over the whole life of a
\* sandbox, at most one attempt's files are ever written into it, however it
\* was obtained (pool or create) and whatever failed on the way.
NeverShared == \A s \in Sandbox : \A a, b \in code[s] : a = b

\* A sandbox belongs to at most one of: a goroutine, the pool, a pending
\* delete.  In particular no attempt works in a sandbox that is being deleted
\* or that acquire or Stop can still take from the pool.
OneOwner ==
  /\ \A p, q \in Process : sb[p] = sb[q] /\ sb[p] # NoSandbox => p = q
  /\ \A p \in Process : sb[p] \notin pool \cup deleting
  /\ pool \cap deleting = {}

\* "MaxInflight caps sandboxes in use at once": the attempts that hold a
\* sandbox, which they do until after deleteAsync, never exceed it.
InUse == {a \in Attempt : sb[a] # NoSandbox}
InflightCapped == Cardinality(InUse) <= MaxInflight

\* No error path of Run, acquire, create, the prewarm loop or Stop forgets a
\* sandbox: each one the platform still has is owned by somebody here, unless
\* its create answer was lost, its delete failed or the process ended.
Accounted ==
  \A s \in Sandbox :
    phase[s] \notin {"unborn", "gone"} => s \in Owned \/ fate[s] # "kept"

\* Once Stop has returned the pool is empty and stays so: the prewarm loop,
\* the only sender, ended before the drain began, although a create of its
\* own may have been under way when stopCh was closed.
StopEmptiesPool == pc[Stopper] = "returned" => pool = {}

\* The prewarm loop never makes more than Prewarm: when it comes to send, the
\* channel has room, so it never throws away a sandbox it has just made.
PushHasRoom == pc[Prewarmer] = "push" => Cardinality(pool) < PoolCapacity

\* A sandbox whose delete has begun is never used again: no file is written
\* into it and it is never pooled or held by anybody.
NoUseAfterDelete ==
  [][\A s \in deleting : code'[s] = code[s] /\ s \notin pool' /\ \A p \in Process : sb'[p] # s]_vars

-----------------------------------------------------------------------------
(* Liveness                                                                *)

\* Run always returns, whatever the platform does, while the process lives.
RunReturns ==
  \A a \in Attempt : pc[a] = "acquire" ~> (pc[a] = "done" \/ proc # "running")

\* "Run ... always deletes it afterwards": a sandbox with student files in it
\* is handed to the control plane for deletion, unless the process ends.
UsedIsDeleted ==
  \A s \in Sandbox :
    code[s] # {} ~> (phase[s] = "gone" \/ fate[s] # "kept")

\* Stop returns: what it waits for is bounded.
StopReturns == pc[Stopper] = "wgwait" ~> proc # "running"

-----------------------------------------------------------------------------
(* What the runner promises, and what main.go makes of it                  *)

\* The sandboxes no attempt may enter any more.
Retired == deleting \cup {s \in Sandbox : phase[s] = "gone" \/ fate[s] # "kept"}

Isolation == INSTANCE AttemptIsolation WITH user <- code, retired <- Retired, answer <- result

\* The runner implements AttemptIsolation.
ImplementsIsolation == Isolation!Spec

\* "Run executes spec in a fresh sandbox and always deletes it afterwards":
\* when the process ends by itself, no sandbox that ran student code is left
\* to the platform's lifetime limit because nobody waited for its delete.
ExitAbandonsNone ==
  proc = "exited" => \A s \in Sandbox : code[s] # {} => fate[s] # "abandoned"

=============================================================================

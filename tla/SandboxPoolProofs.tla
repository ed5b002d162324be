------------------------- MODULE SandboxPoolProofs -------------------------
(***************************************************************************)
(* Proofs about SandboxPool, for any number of attempts and sandboxes and  *)
(* any Prewarm and MaxInflight.  The invariant IInv is inductive; the four *)
(* lemmas that say so take its parts one by one, with one step per action. *)
(***************************************************************************)
EXTENDS SandboxPool, FiniteSetTheorems, TLAPS

\* Where a process holds a sandbox.
HoldPC == {"recheck", "wait", "stage", "exec", "cleanup", "push", "delete"}

\* A process holds a sandbox exactly where the code has one in a variable.
HoldInv == \A p \in Process : sb[p] # NoSandbox <=> pc[p] \in HoldPC

\* An identifier the platform has not handed out is nowhere.
UnbornInv ==
  \A s \in Sandbox : phase[s] = "unborn" =>
    /\ s \notin pool \cup deleting
    /\ \A p \in Process : sb[p] # s
    /\ code[s] = {}
    /\ fate[s] = "kept"

\* No student file is in a sandbox that an attempt may still be given.
CleanInv ==
  /\ \A s \in pool : code[s] = {}
  /\ \A p \in Process : pc[p] \in {"recheck", "wait", "stage", "push"} => code[sb[p]] = {}

OwnInv == HoldInv /\ OneOwner /\ UnbornInv /\ CleanInv /\ NeverShared

\* What somebody here owns was not given up.
CaredInv ==
  /\ \A s \in pool \cup deleting : fate[s] = "kept"
  /\ \A p \in Process : sb[p] # NoSandbox => fate[sb[p]] = "kept"

\* An attempt enters a sandbox once, and is answered after that.
EntryInv ==
  \A a \in Attempt :
    /\ pc[a] \in {"idle", "acquire", "recheck", "post", "wait", "stage"} =>
         result[a] = "none" /\ \A s \in Sandbox : a \notin code[s]
    /\ pc[a] = "exec" => result[a] = "none" /\ code[sb[a]] = {a}

\* The attempts between taking a token from the slots channel and giving it
\* back are as many as the tokens.
Inside == {a \in Attempt : pc[a] \notin {"idle", "done"}}
SlotInv == slots = Cardinality(Inside) /\ slots <= MaxInflight

\* The loop creates only when the pool has room, and nobody else fills it.
WarmInv == pc[Prewarmer] \in {"post", "wait", "push"} => Cardinality(pool) < Prewarm

\* Stop drains after the loop has ended.
StopInv ==
  /\ pc[Stopper] \in {"drain", "delete", "returned"} => pc[Prewarmer] = "done"
  /\ StopEmptiesPool

IInv ==
  /\ TypeOK /\ OwnInv /\ CaredInv /\ Accounted /\ EntryInv
  /\ SlotInv /\ WarmInv /\ StopInv

-----------------------------------------------------------------------------
(* The invariant holds initially and is preserved.                         *)

\* The initial state is well typed.
LEMMA InitTypeOK == Init => TypeOK
<1>. SUFFICES ASSUME Init PROVE TypeOK
  OBVIOUS
<1>1. /\ pc \in [Process -> RunPC \cup LoopPC \cup StopPC]
      /\ \A a \in Attempt : pc[a] \in RunPC
      /\ pc[Prewarmer] \in LoopPC
      /\ pc[Stopper] \in StopPC
  BY ProcessAssumption DEF Init, Process, Creator, RunPC, LoopPC, StopPC
<1>2. /\ phase \in [Sandbox -> Phase]
      /\ code \in [Sandbox -> SUBSET Attempt]
      /\ fate \in [Sandbox -> Fate]
      /\ result \in [Attempt -> Result]
      /\ sb \in [Process -> Sandbox \cup {NoSandbox}]
  BY DEF Init, Phase, Fate, Result
<1>. QED
  BY <1>1, <1>2 DEF Init, TypeOK

\* Nobody holds a sandbox in the initial state, and none exists.
LEMMA InitIInv == Init => IInv
<1>. SUFFICES ASSUME Init PROVE IInv
  OBVIOUS
<1>1. \A p \in Process : sb[p] = NoSandbox /\ pc[p] \notin HoldPC
  BY DEF Init, HoldPC
<1>2. OwnInv
  BY <1>1, SandboxAssumption
  DEF Init, OwnInv, HoldInv, OneOwner, UnbornInv, CleanInv, NeverShared, HoldPC
<1>3. CaredInv /\ Accounted /\ EntryInv
  BY <1>1, ProcessAssumption DEF Init, CaredInv, Accounted, EntryInv,
    Process, Creator
<1>4. Inside = {}
  BY DEF Init, Inside, Process, Creator
<1>5. SlotInv
  BY <1>4, FS_EmptySet, ConfigAssumption DEF Init, SlotInv
<1>6. WarmInv /\ StopInv
  BY ProcessAssumption DEF Init, WarmInv, StopInv, StopEmptiesPool, Process,
    Creator
<1>. QED
  BY <1>2, <1>3, <1>5, <1>6, InitTypeOK DEF IInv

\* An attempt that has a token is counted in slots.
LEMMA TokenCounted ==
  ASSUME TypeOK, SlotInv, NEW a \in Attempt, a \in Inside
  PROVE  slots > 0
<1>1. IsFiniteSet(Inside)
  BY ProcessAssumption, FS_Subset DEF Inside
<1>2. Cardinality(Inside \ {a}) \in Nat /\ Cardinality(Inside \ {a}) = Cardinality(Inside) - 1
  BY <1>1, FS_RemoveElement, FS_CardinalityType
<1>3. Cardinality(Inside) \in Nat
  BY <1>1, FS_CardinalityType
<1>. QED
  BY <1>2, <1>3 DEF SlotInv

\* Every step keeps the variables well typed.
LEMMA NextTypeOK ==
  ASSUME TypeOK, HoldInv, SlotInv, [Next]_vars
  PROVE  TypeOK'
<1>. USE ProcessAssumption, SandboxAssumption
<1>. USE DEF Process, Creator, TypeOK, HoldInv, HoldPC, RunPC, LoopPC, StopPC,
       Phase, Fate, Result, At, Goto, Hold, Drop, Return, HandToDelete, Jump,
       Conclude, GiveUp, Receive, platformVars
<1>1. ASSUME NEW a \in Attempt, TakeSlot(a) PROVE TypeOK'
  BY <1>1 DEF TakeSlot
<1>2. ASSUME NEW a \in Attempt, RefuseBusy(a) PROVE TypeOK'
  BY <1>2 DEF RefuseBusy
<1>3. ASSUME NEW a \in Attempt, TakePooled(a) PROVE TypeOK'
  BY <1>3 DEF TakePooled
<1>4. ASSUME NEW a \in Attempt, PoolEmpty(a) PROVE TypeOK'
  BY <1>4 DEF PoolEmpty
<1>5. ASSUME NEW a \in Attempt, RecheckReady(a) PROVE TypeOK'
  BY <1>5 DEF RecheckReady
<1>6. ASSUME NEW a \in Attempt, RecheckFails(a) PROVE TypeOK'
  BY <1>6 DEF RecheckFails
<1>7. ASSUME NEW a \in Attempt, StageFiles(a) PROVE TypeOK'
  BY <1>7 DEF StageFiles
<1>8. ASSUME NEW a \in Attempt, StageFails(a) PROVE TypeOK'
  BY <1>8 DEF StageFails
<1>9. ASSUME NEW a \in Attempt, ExecSucceeds(a) PROVE TypeOK'
  BY <1>9 DEF ExecSucceeds
<1>10. ASSUME NEW a \in Attempt, ExecFails(a) PROVE TypeOK'
  BY <1>10 DEF ExecFails
<1>11. ASSUME NEW a \in Attempt, Cleanup(a) PROVE TypeOK'
  BY <1>11 DEF Cleanup
<1>12. ASSUME NEW a \in Attempt, ReleaseSlot(a) PROVE TypeOK'
  <2>1. slots > 0
    BY <1>12, TokenCounted DEF ReleaseSlot, Inside
  <2>. QED
    BY <1>12, <2>1 DEF ReleaseSlot
<1>13. ASSUME NEW p \in Creator, PostCreated(p) PROVE TypeOK'
  BY <1>13 DEF PostCreated, AfterCreate
<1>14. ASSUME NEW p \in Creator, PostLost(p) PROVE TypeOK'
  BY <1>14 DEF PostLost, CreateFails
<1>15. ASSUME NEW p \in Creator, PostRefused(p) PROVE TypeOK'
  BY <1>15 DEF PostRefused, CreateFails
<1>16. ASSUME NEW p \in Creator, WaitReady(p) PROVE TypeOK'
  BY <1>16 DEF WaitReady, AfterCreate
<1>17. ASSUME NEW p \in Creator, WaitFails(p) PROVE TypeOK'
  BY <1>17 DEF WaitFails, CreateFails
<1>18. ASSUME PrewarmMore PROVE TypeOK'
  BY <1>18 DEF PrewarmMore
<1>19. ASSUME PrewarmStops PROVE TypeOK'
  BY <1>19 DEF PrewarmStops
<1>20. ASSUME PrewarmPush PROVE TypeOK'
  BY <1>20 DEF PrewarmPush
<1>21. ASSUME NEW s \in Sandbox, DeleteSucceeds(s) PROVE TypeOK'
  BY <1>21 DEF DeleteSucceeds
<1>22. ASSUME NEW s \in Sandbox, DeleteFails(s) PROVE TypeOK'
  BY <1>22 DEF DeleteFails
<1>23. ASSUME Signal PROVE TypeOK'
  BY <1>23 DEF Signal
<1>24. ASSUME BeginStop PROVE TypeOK'
  BY <1>24 DEF BeginStop
<1>25. ASSUME WaitReturns PROVE TypeOK'
  BY <1>25 DEF WaitReturns
<1>26. ASSUME DrainOne PROVE TypeOK'
  BY <1>26 DEF DrainOne
<1>27. ASSUME DrainDelete PROVE TypeOK'
  BY <1>27 DEF DrainDelete
<1>28. ASSUME DrainDone PROVE TypeOK'
  BY <1>28 DEF DrainDone
<1>29. ASSUME Exit PROVE TypeOK'
  BY <1>29 DEF Exit, EndProcess, Owned
<1>30. ASSUME Crash PROVE TypeOK'
  BY <1>30 DEF Crash, EndProcess, Owned
<1>31. ASSUME NEW s \in Sandbox, BecomeReady(s) PROVE TypeOK'
  BY <1>31 DEF BecomeReady, PlatformStep
<1>32. ASSUME NEW s \in Sandbox, Break(s) PROVE TypeOK'
  BY <1>32 DEF Break, PlatformStep
<1>33. ASSUME NEW s \in Sandbox, Reap(s) PROVE TypeOK'
  BY <1>33 DEF Reap, PlatformStep
<1>34. CASE UNCHANGED vars
  BY <1>34 DEF vars
<1>. QED
  BY <1>1, <1>2, <1>3, <1>4, <1>5, <1>6, <1>7, <1>8, <1>9, <1>10, <1>11,
    <1>12, <1>13, <1>14, <1>15, <1>16, <1>17, <1>18, <1>19, <1>20, <1>21,
    <1>22, <1>23, <1>24, <1>25, <1>26, <1>27, <1>28, <1>29, <1>30, <1>31,
    <1>32, <1>33, <1>34
  DEF Next, RunStep, CreateStep, PrewarmStep, DeleteStep, StopStep, PlatformNext, Over

\* Every step leaves each sandbox with one owner and one attempt's code.
LEMMA NextOwnInv ==
  ASSUME TypeOK, OwnInv, [Next]_vars
  PROVE  OwnInv'
<1>. USE ProcessAssumption, SandboxAssumption
<1>. USE DEF Process, Creator, TypeOK, OwnInv, HoldInv, OneOwner, UnbornInv,
       CleanInv, NeverShared, HoldPC, At, Goto, Hold, Drop, Return,
       HandToDelete, Jump, Conclude, GiveUp, Receive, platformVars
<1>1. ASSUME NEW a \in Attempt, TakeSlot(a) PROVE OwnInv'
  BY <1>1 DEF TakeSlot
<1>2. ASSUME NEW a \in Attempt, RefuseBusy(a) PROVE OwnInv'
  BY <1>2 DEF RefuseBusy
<1>3. ASSUME NEW a \in Attempt, TakePooled(a) PROVE OwnInv'
  BY <1>3 DEF TakePooled
<1>4. ASSUME NEW a \in Attempt, PoolEmpty(a) PROVE OwnInv'
  BY <1>4 DEF PoolEmpty
<1>5. ASSUME NEW a \in Attempt, RecheckReady(a) PROVE OwnInv'
  BY <1>5 DEF RecheckReady
<1>6. ASSUME NEW a \in Attempt, RecheckFails(a) PROVE OwnInv'
  BY <1>6 DEF RecheckFails
<1>7. ASSUME NEW a \in Attempt, StageFiles(a) PROVE OwnInv'
  BY <1>7 DEF StageFiles
<1>8. ASSUME NEW a \in Attempt, StageFails(a) PROVE OwnInv'
  BY <1>8 DEF StageFails
<1>9. ASSUME NEW a \in Attempt, ExecSucceeds(a) PROVE OwnInv'
  BY <1>9 DEF ExecSucceeds
<1>10. ASSUME NEW a \in Attempt, ExecFails(a) PROVE OwnInv'
  BY <1>10 DEF ExecFails
<1>11. ASSUME NEW a \in Attempt, Cleanup(a) PROVE OwnInv'
  BY <1>11 DEF Cleanup
<1>12. ASSUME NEW a \in Attempt, ReleaseSlot(a) PROVE OwnInv'
  BY <1>12 DEF ReleaseSlot
<1>13. ASSUME NEW p \in Creator, PostCreated(p) PROVE OwnInv'
  BY <1>13 DEF PostCreated, AfterCreate
<1>14. ASSUME NEW p \in Creator, PostLost(p) PROVE OwnInv'
  BY <1>14 DEF PostLost, CreateFails
<1>15. ASSUME NEW p \in Creator, PostRefused(p) PROVE OwnInv'
  BY <1>15 DEF PostRefused, CreateFails
<1>16. ASSUME NEW p \in Creator, WaitReady(p) PROVE OwnInv'
  BY <1>16 DEF WaitReady, AfterCreate
<1>17. ASSUME NEW p \in Creator, WaitFails(p) PROVE OwnInv'
  BY <1>17 DEF WaitFails, CreateFails
<1>18. ASSUME PrewarmMore PROVE OwnInv'
  BY <1>18 DEF PrewarmMore
<1>19. ASSUME PrewarmStops PROVE OwnInv'
  BY <1>19 DEF PrewarmStops
<1>20. ASSUME PrewarmPush PROVE OwnInv'
  BY <1>20 DEF PrewarmPush
<1>21. ASSUME NEW s \in Sandbox, DeleteSucceeds(s) PROVE OwnInv'
  BY <1>21 DEF DeleteSucceeds
<1>22. ASSUME NEW s \in Sandbox, DeleteFails(s) PROVE OwnInv'
  BY <1>22 DEF DeleteFails
<1>23. ASSUME Signal PROVE OwnInv'
  BY <1>23 DEF Signal
<1>24. ASSUME BeginStop PROVE OwnInv'
  BY <1>24 DEF BeginStop
<1>25. ASSUME WaitReturns PROVE OwnInv'
  BY <1>25 DEF WaitReturns
<1>26. ASSUME DrainOne PROVE OwnInv'
  BY <1>26 DEF DrainOne
<1>27. ASSUME DrainDelete PROVE OwnInv'
  BY <1>27 DEF DrainDelete
<1>28. ASSUME DrainDone PROVE OwnInv'
  BY <1>28 DEF DrainDone
<1>29. ASSUME Exit PROVE OwnInv'
  BY <1>29 DEF Exit, EndProcess, Owned
<1>30. ASSUME Crash PROVE OwnInv'
  BY <1>30 DEF Crash, EndProcess, Owned
<1>31. ASSUME NEW s \in Sandbox, BecomeReady(s) PROVE OwnInv'
  BY <1>31 DEF BecomeReady, PlatformStep
<1>32. ASSUME NEW s \in Sandbox, Break(s) PROVE OwnInv'
  BY <1>32 DEF Break, PlatformStep
<1>33. ASSUME NEW s \in Sandbox, Reap(s) PROVE OwnInv'
  BY <1>33 DEF Reap, PlatformStep
<1>34. CASE UNCHANGED vars
  BY <1>34 DEF vars
<1>. QED
  BY <1>1, <1>2, <1>3, <1>4, <1>5, <1>6, <1>7, <1>8, <1>9, <1>10, <1>11,
    <1>12, <1>13, <1>14, <1>15, <1>16, <1>17, <1>18, <1>19, <1>20, <1>21,
    <1>22, <1>23, <1>24, <1>25, <1>26, <1>27, <1>28, <1>29, <1>30, <1>31,
    <1>32, <1>33, <1>34
  DEF Next, RunStep, CreateStep, PrewarmStep, DeleteStep, StopStep, PlatformNext, Over

\* Every step keeps the sandboxes somebody owns cared for.
LEMMA NextCaredInv ==
  ASSUME TypeOK, OwnInv, CaredInv, [Next]_vars
  PROVE  CaredInv'
<1>. USE ProcessAssumption, SandboxAssumption
<1>. USE DEF Process, Creator, TypeOK, OwnInv, HoldInv, OneOwner, UnbornInv,
       CaredInv, HoldPC, At, Goto, Hold, Drop, Return, HandToDelete, Jump,
       Conclude, GiveUp, Receive, platformVars
<1>1. ASSUME NEW a \in Attempt, TakeSlot(a) PROVE CaredInv'
  BY <1>1 DEF TakeSlot
<1>2. ASSUME NEW a \in Attempt, RefuseBusy(a) PROVE CaredInv'
  BY <1>2 DEF RefuseBusy
<1>3. ASSUME NEW a \in Attempt, TakePooled(a) PROVE CaredInv'
  BY <1>3 DEF TakePooled
<1>4. ASSUME NEW a \in Attempt, PoolEmpty(a) PROVE CaredInv'
  BY <1>4 DEF PoolEmpty
<1>5. ASSUME NEW a \in Attempt, RecheckReady(a) PROVE CaredInv'
  BY <1>5 DEF RecheckReady
<1>6. ASSUME NEW a \in Attempt, RecheckFails(a) PROVE CaredInv'
  BY <1>6 DEF RecheckFails
<1>7. ASSUME NEW a \in Attempt, StageFiles(a) PROVE CaredInv'
  BY <1>7 DEF StageFiles
<1>8. ASSUME NEW a \in Attempt, StageFails(a) PROVE CaredInv'
  BY <1>8 DEF StageFails
<1>9. ASSUME NEW a \in Attempt, ExecSucceeds(a) PROVE CaredInv'
  BY <1>9 DEF ExecSucceeds
<1>10. ASSUME NEW a \in Attempt, ExecFails(a) PROVE CaredInv'
  BY <1>10 DEF ExecFails
<1>11. ASSUME NEW a \in Attempt, Cleanup(a) PROVE CaredInv'
  BY <1>11 DEF Cleanup
<1>12. ASSUME NEW a \in Attempt, ReleaseSlot(a) PROVE CaredInv'
  BY <1>12 DEF ReleaseSlot
<1>13. ASSUME NEW p \in Creator, PostCreated(p) PROVE CaredInv'
  BY <1>13 DEF PostCreated, AfterCreate
<1>14. ASSUME NEW p \in Creator, PostLost(p) PROVE CaredInv'
  BY <1>14 DEF PostLost, CreateFails
<1>15. ASSUME NEW p \in Creator, PostRefused(p) PROVE CaredInv'
  BY <1>15 DEF PostRefused, CreateFails
<1>16. ASSUME NEW p \in Creator, WaitReady(p) PROVE CaredInv'
  BY <1>16 DEF WaitReady, AfterCreate
<1>17. ASSUME NEW p \in Creator, WaitFails(p) PROVE CaredInv'
  BY <1>17 DEF WaitFails, CreateFails
<1>18. ASSUME PrewarmMore PROVE CaredInv'
  BY <1>18 DEF PrewarmMore
<1>19. ASSUME PrewarmStops PROVE CaredInv'
  BY <1>19 DEF PrewarmStops
<1>20. ASSUME PrewarmPush PROVE CaredInv'
  BY <1>20 DEF PrewarmPush
<1>21. ASSUME NEW s \in Sandbox, DeleteSucceeds(s) PROVE CaredInv'
  BY <1>21 DEF DeleteSucceeds
<1>22. ASSUME NEW s \in Sandbox, DeleteFails(s) PROVE CaredInv'
  BY <1>22 DEF DeleteFails
<1>23. ASSUME Signal PROVE CaredInv'
  BY <1>23 DEF Signal
<1>24. ASSUME BeginStop PROVE CaredInv'
  BY <1>24 DEF BeginStop
<1>25. ASSUME WaitReturns PROVE CaredInv'
  BY <1>25 DEF WaitReturns
<1>26. ASSUME DrainOne PROVE CaredInv'
  BY <1>26 DEF DrainOne
<1>27. ASSUME DrainDelete PROVE CaredInv'
  BY <1>27 DEF DrainDelete
<1>28. ASSUME DrainDone PROVE CaredInv'
  BY <1>28 DEF DrainDone
<1>29. ASSUME Exit PROVE CaredInv'
  BY <1>29 DEF Exit, EndProcess, Owned
<1>30. ASSUME Crash PROVE CaredInv'
  BY <1>30 DEF Crash, EndProcess, Owned
<1>31. ASSUME NEW s \in Sandbox, BecomeReady(s) PROVE CaredInv'
  BY <1>31 DEF BecomeReady, PlatformStep
<1>32. ASSUME NEW s \in Sandbox, Break(s) PROVE CaredInv'
  BY <1>32 DEF Break, PlatformStep
<1>33. ASSUME NEW s \in Sandbox, Reap(s) PROVE CaredInv'
  BY <1>33 DEF Reap, PlatformStep
<1>34. CASE UNCHANGED vars
  BY <1>34 DEF vars
<1>. QED
  BY <1>1, <1>2, <1>3, <1>4, <1>5, <1>6, <1>7, <1>8, <1>9, <1>10, <1>11,
    <1>12, <1>13, <1>14, <1>15, <1>16, <1>17, <1>18, <1>19, <1>20, <1>21,
    <1>22, <1>23, <1>24, <1>25, <1>26, <1>27, <1>28, <1>29, <1>30, <1>31,
    <1>32, <1>33, <1>34
  DEF Next, RunStep, CreateStep, PrewarmStep, DeleteStep, StopStep, PlatformNext, Over

\* No step forgets a sandbox.
LEMMA NextAccounted ==
  ASSUME TypeOK, OwnInv, CaredInv, Accounted, [Next]_vars
  PROVE  Accounted'
<1>. USE ProcessAssumption, SandboxAssumption
<1>. USE DEF Process, Creator, TypeOK, OwnInv, HoldInv, CaredInv, OneOwner,
       Accounted, Owned, HoldPC, At, Goto, Hold, Drop, Return, HandToDelete,
       Jump, Conclude, GiveUp, Receive, platformVars
<1>1. ASSUME NEW a \in Attempt, TakeSlot(a) PROVE Accounted'
  BY <1>1 DEF TakeSlot
<1>2. ASSUME NEW a \in Attempt, RefuseBusy(a) PROVE Accounted'
  BY <1>2 DEF RefuseBusy
<1>3. ASSUME NEW a \in Attempt, TakePooled(a) PROVE Accounted'
  BY <1>3 DEF TakePooled
<1>4. ASSUME NEW a \in Attempt, PoolEmpty(a) PROVE Accounted'
  BY <1>4 DEF PoolEmpty
<1>5. ASSUME NEW a \in Attempt, RecheckReady(a) PROVE Accounted'
  BY <1>5 DEF RecheckReady
<1>6. ASSUME NEW a \in Attempt, RecheckFails(a) PROVE Accounted'
  BY <1>6 DEF RecheckFails
<1>7. ASSUME NEW a \in Attempt, StageFiles(a) PROVE Accounted'
  BY <1>7 DEF StageFiles
<1>8. ASSUME NEW a \in Attempt, StageFails(a) PROVE Accounted'
  BY <1>8 DEF StageFails
<1>9. ASSUME NEW a \in Attempt, ExecSucceeds(a) PROVE Accounted'
  BY <1>9 DEF ExecSucceeds
<1>10. ASSUME NEW a \in Attempt, ExecFails(a) PROVE Accounted'
  BY <1>10 DEF ExecFails
<1>11. ASSUME NEW a \in Attempt, Cleanup(a) PROVE Accounted'
  BY <1>11 DEF Cleanup
<1>12. ASSUME NEW a \in Attempt, ReleaseSlot(a) PROVE Accounted'
  BY <1>12 DEF ReleaseSlot
<1>13. ASSUME NEW p \in Creator, PostCreated(p) PROVE Accounted'
  BY <1>13 DEF PostCreated, AfterCreate
<1>14. ASSUME NEW p \in Creator, PostLost(p) PROVE Accounted'
  BY <1>14 DEF PostLost, CreateFails
<1>15. ASSUME NEW p \in Creator, PostRefused(p) PROVE Accounted'
  BY <1>15 DEF PostRefused, CreateFails
<1>16. ASSUME NEW p \in Creator, WaitReady(p) PROVE Accounted'
  BY <1>16 DEF WaitReady, AfterCreate
<1>17. ASSUME NEW p \in Creator, WaitFails(p) PROVE Accounted'
  BY <1>17 DEF WaitFails, CreateFails
<1>18. ASSUME PrewarmMore PROVE Accounted'
  BY <1>18 DEF PrewarmMore
<1>19. ASSUME PrewarmStops PROVE Accounted'
  BY <1>19 DEF PrewarmStops
<1>20. ASSUME PrewarmPush PROVE Accounted'
  BY <1>20 DEF PrewarmPush
<1>21. ASSUME NEW s \in Sandbox, DeleteSucceeds(s) PROVE Accounted'
  BY <1>21 DEF DeleteSucceeds
<1>22. ASSUME NEW s \in Sandbox, DeleteFails(s) PROVE Accounted'
  BY <1>22 DEF DeleteFails
<1>23. ASSUME Signal PROVE Accounted'
  BY <1>23 DEF Signal
<1>24. ASSUME BeginStop PROVE Accounted'
  BY <1>24 DEF BeginStop
<1>25. ASSUME WaitReturns PROVE Accounted'
  BY <1>25 DEF WaitReturns
<1>26. ASSUME DrainOne PROVE Accounted'
  BY <1>26 DEF DrainOne
<1>27. ASSUME DrainDelete PROVE Accounted'
  BY <1>27 DEF DrainDelete
<1>28. ASSUME DrainDone PROVE Accounted'
  BY <1>28 DEF DrainDone
<1>29. ASSUME Exit PROVE Accounted'
  BY <1>29 DEF Exit, EndProcess, Owned
<1>30. ASSUME Crash PROVE Accounted'
  BY <1>30 DEF Crash, EndProcess, Owned
<1>31. ASSUME NEW s \in Sandbox, BecomeReady(s) PROVE Accounted'
  BY <1>31 DEF BecomeReady, PlatformStep
<1>32. ASSUME NEW s \in Sandbox, Break(s) PROVE Accounted'
  BY <1>32 DEF Break, PlatformStep
<1>33. ASSUME NEW s \in Sandbox, Reap(s) PROVE Accounted'
  BY <1>33 DEF Reap, PlatformStep
<1>34. CASE UNCHANGED vars
  BY <1>34 DEF vars
<1>. QED
  BY <1>1, <1>2, <1>3, <1>4, <1>5, <1>6, <1>7, <1>8, <1>9, <1>10, <1>11,
    <1>12, <1>13, <1>14, <1>15, <1>16, <1>17, <1>18, <1>19, <1>20, <1>21,
    <1>22, <1>23, <1>24, <1>25, <1>26, <1>27, <1>28, <1>29, <1>30, <1>31,
    <1>32, <1>33, <1>34
  DEF Next, RunStep, CreateStep, PrewarmStep, DeleteStep, StopStep, PlatformNext, Over

\* Every step lets an attempt enter a sandbox once, before its answer.
LEMMA NextEntryInv ==
  ASSUME TypeOK, OwnInv, EntryInv, [Next]_vars
  PROVE  EntryInv'
<1>. USE ProcessAssumption, SandboxAssumption
<1>. USE DEF Process, Creator, TypeOK, OwnInv, HoldInv, OneOwner, CleanInv,
       EntryInv, HoldPC, At, Goto, Hold, Drop, Return, HandToDelete, Jump,
       Conclude, GiveUp, Receive, platformVars
<1>1. ASSUME NEW a \in Attempt, TakeSlot(a) PROVE EntryInv'
  BY <1>1 DEF TakeSlot
<1>2. ASSUME NEW a \in Attempt, RefuseBusy(a) PROVE EntryInv'
  BY <1>2 DEF RefuseBusy
<1>3. ASSUME NEW a \in Attempt, TakePooled(a) PROVE EntryInv'
  BY <1>3 DEF TakePooled
<1>4. ASSUME NEW a \in Attempt, PoolEmpty(a) PROVE EntryInv'
  BY <1>4 DEF PoolEmpty
<1>5. ASSUME NEW a \in Attempt, RecheckReady(a) PROVE EntryInv'
  BY <1>5 DEF RecheckReady
<1>6. ASSUME NEW a \in Attempt, RecheckFails(a) PROVE EntryInv'
  BY <1>6 DEF RecheckFails
<1>7. ASSUME NEW a \in Attempt, StageFiles(a) PROVE EntryInv'
  BY <1>7 DEF StageFiles
<1>8. ASSUME NEW a \in Attempt, StageFails(a) PROVE EntryInv'
  BY <1>8 DEF StageFails
<1>9. ASSUME NEW a \in Attempt, ExecSucceeds(a) PROVE EntryInv'
  BY <1>9 DEF ExecSucceeds
<1>10. ASSUME NEW a \in Attempt, ExecFails(a) PROVE EntryInv'
  BY <1>10 DEF ExecFails
<1>11. ASSUME NEW a \in Attempt, Cleanup(a) PROVE EntryInv'
  BY <1>11 DEF Cleanup
<1>12. ASSUME NEW a \in Attempt, ReleaseSlot(a) PROVE EntryInv'
  BY <1>12 DEF ReleaseSlot
<1>13. ASSUME NEW p \in Creator, PostCreated(p) PROVE EntryInv'
  BY <1>13 DEF PostCreated, AfterCreate
<1>14. ASSUME NEW p \in Creator, PostLost(p) PROVE EntryInv'
  BY <1>14 DEF PostLost, CreateFails
<1>15. ASSUME NEW p \in Creator, PostRefused(p) PROVE EntryInv'
  BY <1>15 DEF PostRefused, CreateFails
<1>16. ASSUME NEW p \in Creator, WaitReady(p) PROVE EntryInv'
  BY <1>16 DEF WaitReady, AfterCreate
<1>17. ASSUME NEW p \in Creator, WaitFails(p) PROVE EntryInv'
  BY <1>17 DEF WaitFails, CreateFails
<1>18. ASSUME PrewarmMore PROVE EntryInv'
  BY <1>18 DEF PrewarmMore
<1>19. ASSUME PrewarmStops PROVE EntryInv'
  BY <1>19 DEF PrewarmStops
<1>20. ASSUME PrewarmPush PROVE EntryInv'
  BY <1>20 DEF PrewarmPush
<1>21. ASSUME NEW s \in Sandbox, DeleteSucceeds(s) PROVE EntryInv'
  BY <1>21 DEF DeleteSucceeds
<1>22. ASSUME NEW s \in Sandbox, DeleteFails(s) PROVE EntryInv'
  BY <1>22 DEF DeleteFails
<1>23. ASSUME Signal PROVE EntryInv'
  BY <1>23 DEF Signal
<1>24. ASSUME BeginStop PROVE EntryInv'
  BY <1>24 DEF BeginStop
<1>25. ASSUME WaitReturns PROVE EntryInv'
  BY <1>25 DEF WaitReturns
<1>26. ASSUME DrainOne PROVE EntryInv'
  BY <1>26 DEF DrainOne
<1>27. ASSUME DrainDelete PROVE EntryInv'
  BY <1>27 DEF DrainDelete
<1>28. ASSUME DrainDone PROVE EntryInv'
  BY <1>28 DEF DrainDone
<1>29. ASSUME Exit PROVE EntryInv'
  BY <1>29 DEF Exit, EndProcess, Owned
<1>30. ASSUME Crash PROVE EntryInv'
  BY <1>30 DEF Crash, EndProcess, Owned
<1>31. ASSUME NEW s \in Sandbox, BecomeReady(s) PROVE EntryInv'
  BY <1>31 DEF BecomeReady, PlatformStep
<1>32. ASSUME NEW s \in Sandbox, Break(s) PROVE EntryInv'
  BY <1>32 DEF Break, PlatformStep
<1>33. ASSUME NEW s \in Sandbox, Reap(s) PROVE EntryInv'
  BY <1>33 DEF Reap, PlatformStep
<1>34. CASE UNCHANGED vars
  BY <1>34 DEF vars
<1>. QED
  BY <1>1, <1>2, <1>3, <1>4, <1>5, <1>6, <1>7, <1>8, <1>9, <1>10, <1>11,
    <1>12, <1>13, <1>14, <1>15, <1>16, <1>17, <1>18, <1>19, <1>20, <1>21,
    <1>22, <1>23, <1>24, <1>25, <1>26, <1>27, <1>28, <1>29, <1>30, <1>31,
    <1>32, <1>33, <1>34
  DEF Next, RunStep, CreateStep, PrewarmStep, DeleteStep, StopStep, PlatformNext, Over

\* Every step keeps the tokens equal to the attempts inside, within the limit.
LEMMA NextSlotInv ==
  ASSUME TypeOK, SlotInv, [Next]_vars
  PROVE  SlotInv'
<1>. USE ProcessAssumption, SandboxAssumption
<1>. USE DEF Process, Creator, TypeOK, Inside, At, Goto, Hold, Drop, Return,
       HandToDelete, Jump, Conclude, GiveUp, Receive, platformVars
<1>0. IsFiniteSet(Inside)
  BY FS_Subset
<1>1. ASSUME NEW a \in Attempt, TakeSlot(a) PROVE SlotInv'
  <2>1. Inside' = Inside \cup {a} /\ a \notin Inside
    BY <1>1 DEF TakeSlot
  <2>2. Cardinality(Inside') = Cardinality(Inside) + 1
    <3>. HIDE DEF Inside
    <3>. QED
      BY <2>1, <1>0, FS_AddElement
  <2>. QED
    BY <1>1, <2>2, ConfigAssumption DEF TakeSlot, SlotInv
<1>2. ASSUME NEW a \in Attempt, RefuseBusy(a) PROVE SlotInv'
  BY <1>2 DEF RefuseBusy, SlotInv
<1>3. ASSUME NEW a \in Attempt, TakePooled(a) PROVE SlotInv'
  BY <1>3 DEF TakePooled, SlotInv
<1>4. ASSUME NEW a \in Attempt, PoolEmpty(a) PROVE SlotInv'
  BY <1>4 DEF PoolEmpty, SlotInv
<1>5. ASSUME NEW a \in Attempt, RecheckReady(a) PROVE SlotInv'
  BY <1>5 DEF RecheckReady, SlotInv
<1>6. ASSUME NEW a \in Attempt, RecheckFails(a) PROVE SlotInv'
  BY <1>6 DEF RecheckFails, SlotInv
<1>7. ASSUME NEW a \in Attempt, StageFiles(a) PROVE SlotInv'
  BY <1>7 DEF StageFiles, SlotInv
<1>8. ASSUME NEW a \in Attempt, StageFails(a) PROVE SlotInv'
  BY <1>8 DEF StageFails, SlotInv
<1>9. ASSUME NEW a \in Attempt, ExecSucceeds(a) PROVE SlotInv'
  BY <1>9 DEF ExecSucceeds, SlotInv
<1>10. ASSUME NEW a \in Attempt, ExecFails(a) PROVE SlotInv'
  BY <1>10 DEF ExecFails, SlotInv
<1>11. ASSUME NEW a \in Attempt, Cleanup(a) PROVE SlotInv'
  BY <1>11 DEF Cleanup, SlotInv
<1>12. ASSUME NEW a \in Attempt, ReleaseSlot(a) PROVE SlotInv'
  <2>1. Inside' = Inside \ {a} /\ a \in Inside
    BY <1>12 DEF ReleaseSlot
  <2>2. Cardinality(Inside') = Cardinality(Inside) - 1
    <3>. HIDE DEF Inside
    <3>. QED
      BY <2>1, <1>0, FS_RemoveElement
  <2>. QED
    BY <1>12, <2>2, ConfigAssumption DEF ReleaseSlot, SlotInv
<1>13. ASSUME NEW p \in Creator, PostCreated(p) PROVE SlotInv'
  BY <1>13 DEF PostCreated, AfterCreate, SlotInv
<1>14. ASSUME NEW p \in Creator, PostLost(p) PROVE SlotInv'
  <2>1. PICK l \in {"release", "loop"} : pc' = [pc EXCEPT ![p] = l]
    BY <1>14 DEF PostLost, CreateFails
  <2>2. pc[p] = "post" /\ slots' = slots
    BY <1>14 DEF PostLost
  <2>3. Inside' = Inside
    BY <2>1, <2>2
  <2>. HIDE DEF Inside
  <2>. QED
    BY <2>2, <2>3 DEF SlotInv
<1>15. ASSUME NEW p \in Creator, PostRefused(p) PROVE SlotInv'
  BY <1>15 DEF PostRefused, CreateFails, SlotInv
<1>16. ASSUME NEW p \in Creator, WaitReady(p) PROVE SlotInv'
  BY <1>16 DEF WaitReady, AfterCreate, SlotInv
<1>17. ASSUME NEW p \in Creator, WaitFails(p) PROVE SlotInv'
  BY <1>17 DEF WaitFails, CreateFails, SlotInv
<1>18. ASSUME PrewarmMore PROVE SlotInv'
  BY <1>18 DEF PrewarmMore, SlotInv
<1>19. ASSUME PrewarmStops PROVE SlotInv'
  <2>. HIDE DEF Inside
  <2>1. Inside' = Inside /\ slots' = slots
    BY <1>19 DEF PrewarmStops, Inside
  <2>. QED
    BY <2>1 DEF SlotInv
<1>20. ASSUME PrewarmPush PROVE SlotInv'
  BY <1>20 DEF PrewarmPush, SlotInv
<1>21. ASSUME NEW s \in Sandbox, DeleteSucceeds(s) PROVE SlotInv'
  BY <1>21 DEF DeleteSucceeds, SlotInv
<1>22. ASSUME NEW s \in Sandbox, DeleteFails(s) PROVE SlotInv'
  BY <1>22 DEF DeleteFails, SlotInv
<1>23. ASSUME Signal PROVE SlotInv'
  BY <1>23 DEF Signal, SlotInv
<1>24. ASSUME BeginStop PROVE SlotInv'
  BY <1>24 DEF BeginStop, SlotInv
<1>25. ASSUME WaitReturns PROVE SlotInv'
  BY <1>25 DEF WaitReturns, SlotInv
<1>26. ASSUME DrainOne PROVE SlotInv'
  BY <1>26 DEF DrainOne, SlotInv
<1>27. ASSUME DrainDelete PROVE SlotInv'
  BY <1>27 DEF DrainDelete, SlotInv
<1>28. ASSUME DrainDone PROVE SlotInv'
  BY <1>28 DEF DrainDone, SlotInv
<1>29. ASSUME Exit PROVE SlotInv'
  <2>. HIDE DEF Inside
  <2>1. Inside' = {} /\ slots' = 0
    BY <1>29 DEF Exit, EndProcess, Inside
  <2>. QED
    BY <2>1, FS_EmptySet, ConfigAssumption DEF SlotInv
<1>30. ASSUME Crash PROVE SlotInv'
  <2>. HIDE DEF Inside
  <2>1. Inside' = {} /\ slots' = 0
    BY <1>30 DEF Crash, EndProcess, Inside
  <2>. QED
    BY <2>1, FS_EmptySet, ConfigAssumption DEF SlotInv
<1>31. ASSUME NEW s \in Sandbox, BecomeReady(s) PROVE SlotInv'
  BY <1>31 DEF BecomeReady, PlatformStep, SlotInv
<1>32. ASSUME NEW s \in Sandbox, Break(s) PROVE SlotInv'
  BY <1>32 DEF Break, PlatformStep, SlotInv
<1>33. ASSUME NEW s \in Sandbox, Reap(s) PROVE SlotInv'
  BY <1>33 DEF Reap, PlatformStep, SlotInv
<1>34. CASE UNCHANGED vars
  BY <1>34 DEF vars, SlotInv
<1>. QED
  BY <1>1, <1>2, <1>3, <1>4, <1>5, <1>6, <1>7, <1>8, <1>9, <1>10, <1>11,
    <1>12, <1>13, <1>14, <1>15, <1>16, <1>17, <1>18, <1>19, <1>20, <1>21,
    <1>22, <1>23, <1>24, <1>25, <1>26, <1>27, <1>28, <1>29, <1>30, <1>31,
    <1>32, <1>33, <1>34
  DEF Next, RunStep, CreateStep, PrewarmStep, DeleteStep, StopStep, PlatformNext, Over

\* Every step keeps room in the pool for what the loop is creating.
LEMMA NextWarmInv ==
  ASSUME TypeOK, OwnInv, WarmInv, [Next]_vars
  PROVE  WarmInv'
<1>. USE ProcessAssumption, SandboxAssumption
<1>. USE DEF Process, Creator, TypeOK, WarmInv, At, Goto, Hold, Drop, Return,
       HandToDelete, Jump, Conclude, GiveUp, Receive, platformVars
<1>0. IsFiniteSet(pool)
  BY FS_Subset
<1>1. ASSUME NEW a \in Attempt, TakeSlot(a) PROVE WarmInv'
  BY <1>1 DEF TakeSlot
<1>2. ASSUME NEW a \in Attempt, RefuseBusy(a) PROVE WarmInv'
  BY <1>2 DEF RefuseBusy
<1>3. ASSUME NEW a \in Attempt, TakePooled(a) PROVE WarmInv'
  <2>1. PICK s \in pool : pool' = pool \ {s}
    BY <1>3 DEF TakePooled
  <2>2. Cardinality(pool') = Cardinality(pool) - 1
    BY <2>1, <1>0, FS_RemoveElement
  <2>. QED
    BY <1>3, <2>2, <1>0, FS_CardinalityType, ConfigAssumption DEF TakePooled
<1>4. ASSUME NEW a \in Attempt, PoolEmpty(a) PROVE WarmInv'
  BY <1>4 DEF PoolEmpty
<1>5. ASSUME NEW a \in Attempt, RecheckReady(a) PROVE WarmInv'
  BY <1>5 DEF RecheckReady
<1>6. ASSUME NEW a \in Attempt, RecheckFails(a) PROVE WarmInv'
  BY <1>6 DEF RecheckFails
<1>7. ASSUME NEW a \in Attempt, StageFiles(a) PROVE WarmInv'
  BY <1>7 DEF StageFiles
<1>8. ASSUME NEW a \in Attempt, StageFails(a) PROVE WarmInv'
  BY <1>8 DEF StageFails
<1>9. ASSUME NEW a \in Attempt, ExecSucceeds(a) PROVE WarmInv'
  BY <1>9 DEF ExecSucceeds
<1>10. ASSUME NEW a \in Attempt, ExecFails(a) PROVE WarmInv'
  BY <1>10 DEF ExecFails
<1>11. ASSUME NEW a \in Attempt, Cleanup(a) PROVE WarmInv'
  BY <1>11 DEF Cleanup
<1>12. ASSUME NEW a \in Attempt, ReleaseSlot(a) PROVE WarmInv'
  BY <1>12 DEF ReleaseSlot
<1>13. ASSUME NEW p \in Creator, PostCreated(p) PROVE WarmInv'
  BY <1>13 DEF PostCreated, AfterCreate
<1>14. ASSUME NEW p \in Creator, PostLost(p) PROVE WarmInv'
  BY <1>14 DEF PostLost, CreateFails
<1>15. ASSUME NEW p \in Creator, PostRefused(p) PROVE WarmInv'
  BY <1>15 DEF PostRefused, CreateFails
<1>16. ASSUME NEW p \in Creator, WaitReady(p) PROVE WarmInv'
  BY <1>16 DEF WaitReady, AfterCreate
<1>17. ASSUME NEW p \in Creator, WaitFails(p) PROVE WarmInv'
  BY <1>17 DEF WaitFails, CreateFails
<1>18. ASSUME PrewarmMore PROVE WarmInv'
  BY <1>18 DEF PrewarmMore
<1>19. ASSUME PrewarmStops PROVE WarmInv'
  BY <1>19 DEF PrewarmStops
<1>20. ASSUME PrewarmPush PROVE WarmInv'
  BY <1>20 DEF PrewarmPush
<1>21. ASSUME NEW s \in Sandbox, DeleteSucceeds(s) PROVE WarmInv'
  BY <1>21 DEF DeleteSucceeds
<1>22. ASSUME NEW s \in Sandbox, DeleteFails(s) PROVE WarmInv'
  BY <1>22 DEF DeleteFails
<1>23. ASSUME Signal PROVE WarmInv'
  BY <1>23 DEF Signal
<1>24. ASSUME BeginStop PROVE WarmInv'
  BY <1>24 DEF BeginStop
<1>25. ASSUME WaitReturns PROVE WarmInv'
  BY <1>25 DEF WaitReturns
<1>26. ASSUME DrainOne PROVE WarmInv'
  <2>1. PICK s \in pool : pool' = pool \ {s}
    BY <1>26 DEF DrainOne
  <2>2. Cardinality(pool') = Cardinality(pool) - 1
    BY <2>1, <1>0, FS_RemoveElement
  <2>. QED
    BY <1>26, <2>2, <1>0, FS_CardinalityType, ConfigAssumption DEF DrainOne
<1>27. ASSUME DrainDelete PROVE WarmInv'
  BY <1>27 DEF DrainDelete
<1>28. ASSUME DrainDone PROVE WarmInv'
  BY <1>28 DEF DrainDone
<1>29. ASSUME Exit PROVE WarmInv'
  BY <1>29 DEF Exit, EndProcess, Owned
<1>30. ASSUME Crash PROVE WarmInv'
  BY <1>30 DEF Crash, EndProcess, Owned
<1>31. ASSUME NEW s \in Sandbox, BecomeReady(s) PROVE WarmInv'
  BY <1>31 DEF BecomeReady, PlatformStep
<1>32. ASSUME NEW s \in Sandbox, Break(s) PROVE WarmInv'
  BY <1>32 DEF Break, PlatformStep
<1>33. ASSUME NEW s \in Sandbox, Reap(s) PROVE WarmInv'
  BY <1>33 DEF Reap, PlatformStep
<1>34. CASE UNCHANGED vars
  BY <1>34 DEF vars
<1>. QED
  BY <1>1, <1>2, <1>3, <1>4, <1>5, <1>6, <1>7, <1>8, <1>9, <1>10, <1>11,
    <1>12, <1>13, <1>14, <1>15, <1>16, <1>17, <1>18, <1>19, <1>20, <1>21,
    <1>22, <1>23, <1>24, <1>25, <1>26, <1>27, <1>28, <1>29, <1>30, <1>31,
    <1>32, <1>33, <1>34
  DEF Next, RunStep, CreateStep, PrewarmStep, DeleteStep, StopStep, PlatformNext, Over

\* Every step keeps the drain after the end of the loop.
LEMMA NextStopInv ==
  ASSUME TypeOK, StopInv, [Next]_vars
  PROVE  StopInv'
<1>. USE ProcessAssumption, SandboxAssumption
<1>. USE DEF Process, Creator, TypeOK, StopInv, StopEmptiesPool, Stopping,
       WaitGroupZero, At, Goto, Hold, Drop, Return, HandToDelete, Jump,
       Conclude, GiveUp, Receive, platformVars
<1>1. ASSUME NEW a \in Attempt, TakeSlot(a) PROVE StopInv'
  BY <1>1 DEF TakeSlot
<1>2. ASSUME NEW a \in Attempt, RefuseBusy(a) PROVE StopInv'
  BY <1>2 DEF RefuseBusy
<1>3. ASSUME NEW a \in Attempt, TakePooled(a) PROVE StopInv'
  BY <1>3 DEF TakePooled
<1>4. ASSUME NEW a \in Attempt, PoolEmpty(a) PROVE StopInv'
  BY <1>4 DEF PoolEmpty
<1>5. ASSUME NEW a \in Attempt, RecheckReady(a) PROVE StopInv'
  BY <1>5 DEF RecheckReady
<1>6. ASSUME NEW a \in Attempt, RecheckFails(a) PROVE StopInv'
  BY <1>6 DEF RecheckFails
<1>7. ASSUME NEW a \in Attempt, StageFiles(a) PROVE StopInv'
  BY <1>7 DEF StageFiles
<1>8. ASSUME NEW a \in Attempt, StageFails(a) PROVE StopInv'
  BY <1>8 DEF StageFails
<1>9. ASSUME NEW a \in Attempt, ExecSucceeds(a) PROVE StopInv'
  BY <1>9 DEF ExecSucceeds
<1>10. ASSUME NEW a \in Attempt, ExecFails(a) PROVE StopInv'
  BY <1>10 DEF ExecFails
<1>11. ASSUME NEW a \in Attempt, Cleanup(a) PROVE StopInv'
  BY <1>11 DEF Cleanup
<1>12. ASSUME NEW a \in Attempt, ReleaseSlot(a) PROVE StopInv'
  BY <1>12 DEF ReleaseSlot
<1>13. ASSUME NEW p \in Creator, PostCreated(p) PROVE StopInv'
  BY <1>13 DEF PostCreated, AfterCreate
<1>14. ASSUME NEW p \in Creator, PostLost(p) PROVE StopInv'
  BY <1>14 DEF PostLost, CreateFails
<1>15. ASSUME NEW p \in Creator, PostRefused(p) PROVE StopInv'
  BY <1>15 DEF PostRefused, CreateFails
<1>16. ASSUME NEW p \in Creator, WaitReady(p) PROVE StopInv'
  BY <1>16 DEF WaitReady, AfterCreate
<1>17. ASSUME NEW p \in Creator, WaitFails(p) PROVE StopInv'
  BY <1>17 DEF WaitFails, CreateFails
<1>18. ASSUME PrewarmMore PROVE StopInv'
  BY <1>18 DEF PrewarmMore
<1>19. ASSUME PrewarmStops PROVE StopInv'
  BY <1>19 DEF PrewarmStops
<1>20. ASSUME PrewarmPush PROVE StopInv'
  BY <1>20 DEF PrewarmPush
<1>21. ASSUME NEW s \in Sandbox, DeleteSucceeds(s) PROVE StopInv'
  BY <1>21 DEF DeleteSucceeds
<1>22. ASSUME NEW s \in Sandbox, DeleteFails(s) PROVE StopInv'
  BY <1>22 DEF DeleteFails
<1>23. ASSUME Signal PROVE StopInv'
  BY <1>23 DEF Signal
<1>24. ASSUME BeginStop PROVE StopInv'
  BY <1>24 DEF BeginStop
<1>25. ASSUME WaitReturns PROVE StopInv'
  BY <1>25 DEF WaitReturns
<1>26. ASSUME DrainOne PROVE StopInv'
  BY <1>26 DEF DrainOne
<1>27. ASSUME DrainDelete PROVE StopInv'
  BY <1>27 DEF DrainDelete
<1>28. ASSUME DrainDone PROVE StopInv'
  BY <1>28 DEF DrainDone
<1>29. ASSUME Exit PROVE StopInv'
  BY <1>29 DEF Exit, EndProcess, Owned
<1>30. ASSUME Crash PROVE StopInv'
  BY <1>30 DEF Crash, EndProcess, Owned
<1>31. ASSUME NEW s \in Sandbox, BecomeReady(s) PROVE StopInv'
  BY <1>31 DEF BecomeReady, PlatformStep
<1>32. ASSUME NEW s \in Sandbox, Break(s) PROVE StopInv'
  BY <1>32 DEF Break, PlatformStep
<1>33. ASSUME NEW s \in Sandbox, Reap(s) PROVE StopInv'
  BY <1>33 DEF Reap, PlatformStep
<1>34. CASE UNCHANGED vars
  BY <1>34 DEF vars
<1>. QED
  BY <1>1, <1>2, <1>3, <1>4, <1>5, <1>6, <1>7, <1>8, <1>9, <1>10, <1>11,
    <1>12, <1>13, <1>14, <1>15, <1>16, <1>17, <1>18, <1>19, <1>20, <1>21,
    <1>22, <1>23, <1>24, <1>25, <1>26, <1>27, <1>28, <1>29, <1>30, <1>31,
    <1>32, <1>33, <1>34
  DEF Next, RunStep, CreateStep, PrewarmStep, DeleteStep, StopStep, PlatformNext, Over

-----------------------------------------------------------------------------
(* Theorems                                                                *)

\* The invariant holds in every reachable state.
THEOREM Invariant == Spec => []IInv
<1>1. IInv /\ [Next]_vars => IInv'
  BY NextTypeOK, NextOwnInv, NextCaredInv, NextAccounted, NextEntryInv,
     NextSlotInv, NextWarmInv, NextStopInv
  DEF IInv, OwnInv
<1>. QED
  BY InitIInv, <1>1, PTL DEF Spec

\* The variables are well typed in every reachable state.
THEOREM TypeCorrect == Spec => []TypeOK
  BY Invariant, PTL DEF IInv

\* Two attempts never put their files into the same sandbox.
THEOREM SandboxesNeverShared == Spec => []NeverShared
  BY Invariant, PTL DEF IInv, OwnInv

\* A sandbox is in one hand at a time.
THEOREM SandboxesHaveOneOwner == Spec => []OneOwner
  BY Invariant, PTL DEF IInv, OwnInv

\* The platform's sandboxes are owned, or it is known why not.
THEOREM SandboxesAccounted == Spec => []Accounted
  BY Invariant, PTL DEF IInv

\* MaxInflight caps the attempts that hold a sandbox: each has a token.
THEOREM SandboxesCapped == Spec => []InflightCapped
<1>1. IInv => InflightCapped
  <2>. SUFFICES ASSUME IInv PROVE InflightCapped
    OBVIOUS
  <2>1. IsFiniteSet(Inside)
    BY ProcessAssumption, FS_Subset DEF Inside
  <2>2. InUse \subseteq Inside
    BY DEF IInv, OwnInv, HoldInv, HoldPC, InUse, Inside, Process, Creator
  <2>3. /\ Cardinality(InUse) \in Nat /\ Cardinality(Inside) \in Nat
        /\ Cardinality(InUse) <= Cardinality(Inside)
    BY <2>1, <2>2, FS_Subset, FS_CardinalityType
  <2>. QED
    BY <2>3, ConfigAssumption DEF IInv, SlotInv, InflightCapped
<1>. QED
  BY <1>1, Invariant, PTL

\* The prewarm loop never finds the channel full when it sends.
THEOREM LoopNeverBlocks == Spec => []PushHasRoom
<1>1. IInv => PushHasRoom
  BY ConfigAssumption, FS_Subset, FS_CardinalityType, SandboxAssumption
  DEF IInv, TypeOK, WarmInv, PushHasRoom, PoolCapacity
<1>. QED
  BY <1>1, Invariant, PTL

\* After Stop the pool is empty.
THEOREM StopLeavesNoPool == Spec => []StopEmptiesPool
  BY Invariant, PTL DEF IInv, StopInv

-----------------------------------------------------------------------------
(* Action properties and refinement                                        *)

\* No step uses a sandbox that is being deleted.
ForgetDeleting == \A t \in deleting : code'[t] = code[t] /\ t \notin pool' /\ \A q \in Process : sb'[q] # t

\* No step touches, pools or hands out a sandbox that is being deleted.
LEMMA NextForgets ==
  ASSUME TypeOK, OwnInv, [Next]_vars
  PROVE  ForgetDeleting
<1>. USE ProcessAssumption, SandboxAssumption
<1>. USE DEF Process, Creator, TypeOK, OwnInv, HoldInv, OneOwner, UnbornInv,
       HoldPC, ForgetDeleting, At, Goto, Hold, Drop, Return, HandToDelete,
       Jump, Conclude, GiveUp, Receive, platformVars
<1>1. ASSUME NEW a \in Attempt, TakeSlot(a) PROVE ForgetDeleting
  BY <1>1 DEF TakeSlot
<1>2. ASSUME NEW a \in Attempt, RefuseBusy(a) PROVE ForgetDeleting
  BY <1>2 DEF RefuseBusy
<1>3. ASSUME NEW a \in Attempt, TakePooled(a) PROVE ForgetDeleting
  BY <1>3 DEF TakePooled
<1>4. ASSUME NEW a \in Attempt, PoolEmpty(a) PROVE ForgetDeleting
  BY <1>4 DEF PoolEmpty
<1>5. ASSUME NEW a \in Attempt, RecheckReady(a) PROVE ForgetDeleting
  BY <1>5 DEF RecheckReady
<1>6. ASSUME NEW a \in Attempt, RecheckFails(a) PROVE ForgetDeleting
  BY <1>6 DEF RecheckFails
<1>7. ASSUME NEW a \in Attempt, StageFiles(a) PROVE ForgetDeleting
  BY <1>7 DEF StageFiles
<1>8. ASSUME NEW a \in Attempt, StageFails(a) PROVE ForgetDeleting
  BY <1>8 DEF StageFails
<1>9. ASSUME NEW a \in Attempt, ExecSucceeds(a) PROVE ForgetDeleting
  BY <1>9 DEF ExecSucceeds
<1>10. ASSUME NEW a \in Attempt, ExecFails(a) PROVE ForgetDeleting
  BY <1>10 DEF ExecFails
<1>11. ASSUME NEW a \in Attempt, Cleanup(a) PROVE ForgetDeleting
  BY <1>11 DEF Cleanup
<1>12. ASSUME NEW a \in Attempt, ReleaseSlot(a) PROVE ForgetDeleting
  BY <1>12 DEF ReleaseSlot
<1>13. ASSUME NEW p \in Creator, PostCreated(p) PROVE ForgetDeleting
  BY <1>13 DEF PostCreated, AfterCreate
<1>14. ASSUME NEW p \in Creator, PostLost(p) PROVE ForgetDeleting
  BY <1>14 DEF PostLost, CreateFails
<1>15. ASSUME NEW p \in Creator, PostRefused(p) PROVE ForgetDeleting
  BY <1>15 DEF PostRefused, CreateFails
<1>16. ASSUME NEW p \in Creator, WaitReady(p) PROVE ForgetDeleting
  BY <1>16 DEF WaitReady, AfterCreate
<1>17. ASSUME NEW p \in Creator, WaitFails(p) PROVE ForgetDeleting
  BY <1>17 DEF WaitFails, CreateFails
<1>18. ASSUME PrewarmMore PROVE ForgetDeleting
  BY <1>18 DEF PrewarmMore
<1>19. ASSUME PrewarmStops PROVE ForgetDeleting
  BY <1>19 DEF PrewarmStops
<1>20. ASSUME PrewarmPush PROVE ForgetDeleting
  BY <1>20 DEF PrewarmPush
<1>21. ASSUME NEW s \in Sandbox, DeleteSucceeds(s) PROVE ForgetDeleting
  BY <1>21 DEF DeleteSucceeds
<1>22. ASSUME NEW s \in Sandbox, DeleteFails(s) PROVE ForgetDeleting
  BY <1>22 DEF DeleteFails
<1>23. ASSUME Signal PROVE ForgetDeleting
  BY <1>23 DEF Signal
<1>24. ASSUME BeginStop PROVE ForgetDeleting
  BY <1>24 DEF BeginStop
<1>25. ASSUME WaitReturns PROVE ForgetDeleting
  BY <1>25 DEF WaitReturns
<1>26. ASSUME DrainOne PROVE ForgetDeleting
  BY <1>26 DEF DrainOne
<1>27. ASSUME DrainDelete PROVE ForgetDeleting
  BY <1>27 DEF DrainDelete
<1>28. ASSUME DrainDone PROVE ForgetDeleting
  BY <1>28 DEF DrainDone
<1>29. ASSUME Exit PROVE ForgetDeleting
  BY <1>29 DEF Exit, EndProcess, Owned
<1>30. ASSUME Crash PROVE ForgetDeleting
  BY <1>30 DEF Crash, EndProcess, Owned
<1>31. ASSUME NEW s \in Sandbox, BecomeReady(s) PROVE ForgetDeleting
  BY <1>31 DEF BecomeReady, PlatformStep
<1>32. ASSUME NEW s \in Sandbox, Break(s) PROVE ForgetDeleting
  BY <1>32 DEF Break, PlatformStep
<1>33. ASSUME NEW s \in Sandbox, Reap(s) PROVE ForgetDeleting
  BY <1>33 DEF Reap, PlatformStep
<1>34. CASE UNCHANGED vars
  BY <1>34 DEF vars
<1>. QED
  BY <1>1, <1>2, <1>3, <1>4, <1>5, <1>6, <1>7, <1>8, <1>9, <1>10, <1>11,
    <1>12, <1>13, <1>14, <1>15, <1>16, <1>17, <1>18, <1>19, <1>20, <1>21,
    <1>22, <1>23, <1>24, <1>25, <1>26, <1>27, <1>28, <1>29, <1>30, <1>31,
    <1>32, <1>33, <1>34
  DEF Next, RunStep, CreateStep, PrewarmStep, DeleteStep, StopStep, PlatformNext, Over

\* A sandbox whose delete has begun is never used again.
THEOREM DeletedNeverUsed == Spec => NoUseAfterDelete
<1>1. IInv /\ [Next]_vars => [ForgetDeleting]_vars
  BY NextForgets DEF IInv
<1>2. ForgetDeleting <=> \A s \in deleting : code'[s] = code[s] /\ s \notin pool' /\ \A p \in Process : sb'[p] # s
  BY DEF ForgetDeleting
<1>. QED
  BY <1>1, <1>2, Invariant, PTL DEF Spec, NoUseAfterDelete

\* No step brings a sandbox back that was given up.
LEMMA NextRetires ==
  ASSUME TypeOK, OwnInv, [Next]_vars
  PROVE  Retired \subseteq Retired'
<1>. USE ProcessAssumption, SandboxAssumption
<1>. USE DEF Process, Creator, TypeOK, OwnInv, HoldInv, UnbornInv, HoldPC,
       Retired, At, Goto, Hold, Drop, Return, HandToDelete, Jump, Conclude,
       GiveUp, Receive, platformVars
<1>1. ASSUME NEW a \in Attempt, TakeSlot(a) PROVE Retired \subseteq Retired'
  BY <1>1 DEF TakeSlot
<1>2. ASSUME NEW a \in Attempt, RefuseBusy(a) PROVE Retired \subseteq Retired'
  BY <1>2 DEF RefuseBusy
<1>3. ASSUME NEW a \in Attempt, TakePooled(a) PROVE Retired \subseteq Retired'
  BY <1>3 DEF TakePooled
<1>4. ASSUME NEW a \in Attempt, PoolEmpty(a) PROVE Retired \subseteq Retired'
  BY <1>4 DEF PoolEmpty
<1>5. ASSUME NEW a \in Attempt, RecheckReady(a) PROVE Retired \subseteq Retired'
  BY <1>5 DEF RecheckReady
<1>6. ASSUME NEW a \in Attempt, RecheckFails(a) PROVE Retired \subseteq Retired'
  BY <1>6 DEF RecheckFails
<1>7. ASSUME NEW a \in Attempt, StageFiles(a) PROVE Retired \subseteq Retired'
  BY <1>7 DEF StageFiles
<1>8. ASSUME NEW a \in Attempt, StageFails(a) PROVE Retired \subseteq Retired'
  BY <1>8 DEF StageFails
<1>9. ASSUME NEW a \in Attempt, ExecSucceeds(a) PROVE Retired \subseteq Retired'
  BY <1>9 DEF ExecSucceeds
<1>10. ASSUME NEW a \in Attempt, ExecFails(a) PROVE Retired \subseteq Retired'
  BY <1>10 DEF ExecFails
<1>11. ASSUME NEW a \in Attempt, Cleanup(a) PROVE Retired \subseteq Retired'
  BY <1>11 DEF Cleanup
<1>12. ASSUME NEW a \in Attempt, ReleaseSlot(a) PROVE Retired \subseteq Retired'
  BY <1>12 DEF ReleaseSlot
<1>13. ASSUME NEW p \in Creator, PostCreated(p) PROVE Retired \subseteq Retired'
  BY <1>13 DEF PostCreated, AfterCreate
<1>14. ASSUME NEW p \in Creator, PostLost(p) PROVE Retired \subseteq Retired'
  BY <1>14 DEF PostLost, CreateFails
<1>15. ASSUME NEW p \in Creator, PostRefused(p) PROVE Retired \subseteq Retired'
  BY <1>15 DEF PostRefused, CreateFails
<1>16. ASSUME NEW p \in Creator, WaitReady(p) PROVE Retired \subseteq Retired'
  BY <1>16 DEF WaitReady, AfterCreate
<1>17. ASSUME NEW p \in Creator, WaitFails(p) PROVE Retired \subseteq Retired'
  BY <1>17 DEF WaitFails, CreateFails
<1>18. ASSUME PrewarmMore PROVE Retired \subseteq Retired'
  BY <1>18 DEF PrewarmMore
<1>19. ASSUME PrewarmStops PROVE Retired \subseteq Retired'
  BY <1>19 DEF PrewarmStops
<1>20. ASSUME PrewarmPush PROVE Retired \subseteq Retired'
  BY <1>20 DEF PrewarmPush
<1>21. ASSUME NEW s \in Sandbox, DeleteSucceeds(s) PROVE Retired \subseteq Retired'
  BY <1>21 DEF DeleteSucceeds
<1>22. ASSUME NEW s \in Sandbox, DeleteFails(s) PROVE Retired \subseteq Retired'
  BY <1>22 DEF DeleteFails
<1>23. ASSUME Signal PROVE Retired \subseteq Retired'
  BY <1>23 DEF Signal
<1>24. ASSUME BeginStop PROVE Retired \subseteq Retired'
  BY <1>24 DEF BeginStop
<1>25. ASSUME WaitReturns PROVE Retired \subseteq Retired'
  BY <1>25 DEF WaitReturns
<1>26. ASSUME DrainOne PROVE Retired \subseteq Retired'
  BY <1>26 DEF DrainOne
<1>27. ASSUME DrainDelete PROVE Retired \subseteq Retired'
  BY <1>27 DEF DrainDelete
<1>28. ASSUME DrainDone PROVE Retired \subseteq Retired'
  BY <1>28 DEF DrainDone
<1>29. ASSUME Exit PROVE Retired \subseteq Retired'
  BY <1>29 DEF Exit, EndProcess, Owned
<1>30. ASSUME Crash PROVE Retired \subseteq Retired'
  BY <1>30 DEF Crash, EndProcess, Owned
<1>31. ASSUME NEW s \in Sandbox, BecomeReady(s) PROVE Retired \subseteq Retired'
  BY <1>31 DEF BecomeReady, PlatformStep
<1>32. ASSUME NEW s \in Sandbox, Break(s) PROVE Retired \subseteq Retired'
  BY <1>32 DEF Break, PlatformStep
<1>33. ASSUME NEW s \in Sandbox, Reap(s) PROVE Retired \subseteq Retired'
  BY <1>33 DEF Reap, PlatformStep
<1>34. CASE UNCHANGED vars
  BY <1>34 DEF vars
<1>. QED
  BY <1>1, <1>2, <1>3, <1>4, <1>5, <1>6, <1>7, <1>8, <1>9, <1>10, <1>11,
    <1>12, <1>13, <1>14, <1>15, <1>16, <1>17, <1>18, <1>19, <1>20, <1>21,
    <1>22, <1>23, <1>24, <1>25, <1>26, <1>27, <1>28, <1>29, <1>30, <1>31,
    <1>32, <1>33, <1>34
  DEF Next, RunStep, CreateStep, PrewarmStep, DeleteStep, StopStep, PlatformNext, Over

\* A step enters at most one sandbox, fresh, and with an attempt that has
\* entered none.
EntersOne == UNCHANGED code \/ \E a \in Attempt, s \in Sandbox : Isolation!Enter(a, s)

\* A step answers at most one attempt.
AnswersOne ==
  UNCHANGED result
    \/ \E a \in Attempt, res \in {"ok", "busy", "error"} : Isolation!Answer(a, res)

\* Files are written into a sandbox nobody entered and nobody gave up.
LEMMA NextEnters ==
  ASSUME TypeOK, OwnInv, CaredInv, EntryInv, [Next]_vars
  PROVE  EntersOne
<1>. USE ProcessAssumption, SandboxAssumption
<1>. USE DEF Process, Creator, TypeOK, OwnInv, HoldInv, OneOwner, CleanInv,
       EntryInv, HoldPC, At, Goto, Hold, Drop, Return, HandToDelete, Jump,
       Conclude, GiveUp, Receive, platformVars
<1>1. ASSUME NEW a \in Attempt, TakeSlot(a) PROVE EntersOne
  BY <1>1 DEF TakeSlot, EntersOne
<1>2. ASSUME NEW a \in Attempt, RefuseBusy(a) PROVE EntersOne
  BY <1>2 DEF RefuseBusy, EntersOne
<1>3. ASSUME NEW a \in Attempt, TakePooled(a) PROVE EntersOne
  BY <1>3 DEF TakePooled, EntersOne
<1>4. ASSUME NEW a \in Attempt, PoolEmpty(a) PROVE EntersOne
  BY <1>4 DEF PoolEmpty, EntersOne
<1>5. ASSUME NEW a \in Attempt, RecheckReady(a) PROVE EntersOne
  BY <1>5 DEF RecheckReady, EntersOne
<1>6. ASSUME NEW a \in Attempt, RecheckFails(a) PROVE EntersOne
  BY <1>6 DEF RecheckFails, EntersOne
<1>7. ASSUME NEW a \in Attempt, StageFiles(a) PROVE EntersOne
  <2>1. CASE UNCHANGED code
    BY <2>1 DEF EntersOne
  <2>2. CASE phase[sb[a]] = "ready" /\ code' = [code EXCEPT ![sb[a]] = @ \cup {a}]
    <3>1. sb[a] \in Sandbox /\ sb[a] \notin Retired /\ code[sb[a]] = {}
      BY <1>7, <2>2 DEF StageFiles, Retired, CaredInv
    <3>2. code[sb[a]] \cup {a} = {a}
      BY <3>1
    <3>3. Isolation!Enter(a, sb[a])
      <4>1. \A s \in Sandbox : a \notin code[s]
        BY <1>7 DEF StageFiles
      <4>2. code' = [code EXCEPT ![sb[a]] = {a}]
        BY <2>2, <3>2
      <4>. QED
        BY <3>1, <4>1, <4>2 DEF Isolation!Enter
    <3>. QED
      BY <3>1, <3>3 DEF EntersOne
  <2>. QED
    BY <1>7, <2>1, <2>2 DEF StageFiles
<1>8. ASSUME NEW a \in Attempt, StageFails(a) PROVE EntersOne
  <2>1. CASE UNCHANGED code
    BY <2>1 DEF EntersOne
  <2>2. CASE phase[sb[a]] = "ready" /\ code' = [code EXCEPT ![sb[a]] = @ \cup {a}]
    <3>1. sb[a] \in Sandbox /\ sb[a] \notin Retired /\ code[sb[a]] = {}
      BY <1>8, <2>2 DEF StageFails, Retired, CaredInv
    <3>2. code[sb[a]] \cup {a} = {a}
      BY <3>1
    <3>3. Isolation!Enter(a, sb[a])
      <4>1. \A s \in Sandbox : a \notin code[s]
        BY <1>8 DEF StageFails
      <4>2. code' = [code EXCEPT ![sb[a]] = {a}]
        BY <2>2, <3>2
      <4>. QED
        BY <3>1, <4>1, <4>2 DEF Isolation!Enter
    <3>. QED
      BY <3>1, <3>3 DEF EntersOne
  <2>. QED
    BY <1>8, <2>1, <2>2 DEF StageFails
<1>9. ASSUME NEW a \in Attempt, ExecSucceeds(a) PROVE EntersOne
  BY <1>9 DEF ExecSucceeds, EntersOne
<1>10. ASSUME NEW a \in Attempt, ExecFails(a) PROVE EntersOne
  BY <1>10 DEF ExecFails, EntersOne
<1>11. ASSUME NEW a \in Attempt, Cleanup(a) PROVE EntersOne
  BY <1>11 DEF Cleanup, EntersOne
<1>12. ASSUME NEW a \in Attempt, ReleaseSlot(a) PROVE EntersOne
  BY <1>12 DEF ReleaseSlot, EntersOne
<1>13. ASSUME NEW p \in Creator, PostCreated(p) PROVE EntersOne
  BY <1>13 DEF PostCreated, AfterCreate, EntersOne
<1>14. ASSUME NEW p \in Creator, PostLost(p) PROVE EntersOne
  BY <1>14 DEF PostLost, CreateFails, EntersOne
<1>15. ASSUME NEW p \in Creator, PostRefused(p) PROVE EntersOne
  BY <1>15 DEF PostRefused, CreateFails, EntersOne
<1>16. ASSUME NEW p \in Creator, WaitReady(p) PROVE EntersOne
  BY <1>16 DEF WaitReady, AfterCreate, EntersOne
<1>17. ASSUME NEW p \in Creator, WaitFails(p) PROVE EntersOne
  BY <1>17 DEF WaitFails, CreateFails, EntersOne
<1>18. ASSUME PrewarmMore PROVE EntersOne
  BY <1>18 DEF PrewarmMore, EntersOne
<1>19. ASSUME PrewarmStops PROVE EntersOne
  BY <1>19 DEF PrewarmStops, EntersOne
<1>20. ASSUME PrewarmPush PROVE EntersOne
  BY <1>20 DEF PrewarmPush, EntersOne
<1>21. ASSUME NEW s \in Sandbox, DeleteSucceeds(s) PROVE EntersOne
  BY <1>21 DEF DeleteSucceeds, EntersOne
<1>22. ASSUME NEW s \in Sandbox, DeleteFails(s) PROVE EntersOne
  BY <1>22 DEF DeleteFails, EntersOne
<1>23. ASSUME Signal PROVE EntersOne
  BY <1>23 DEF Signal, EntersOne
<1>24. ASSUME BeginStop PROVE EntersOne
  BY <1>24 DEF BeginStop, EntersOne
<1>25. ASSUME WaitReturns PROVE EntersOne
  BY <1>25 DEF WaitReturns, EntersOne
<1>26. ASSUME DrainOne PROVE EntersOne
  BY <1>26 DEF DrainOne, EntersOne
<1>27. ASSUME DrainDelete PROVE EntersOne
  BY <1>27 DEF DrainDelete, EntersOne
<1>28. ASSUME DrainDone PROVE EntersOne
  BY <1>28 DEF DrainDone, EntersOne
<1>29. ASSUME Exit PROVE EntersOne
  BY <1>29 DEF Exit, EndProcess, Owned, EntersOne
<1>30. ASSUME Crash PROVE EntersOne
  BY <1>30 DEF Crash, EndProcess, Owned, EntersOne
<1>31. ASSUME NEW s \in Sandbox, BecomeReady(s) PROVE EntersOne
  BY <1>31 DEF BecomeReady, PlatformStep, EntersOne
<1>32. ASSUME NEW s \in Sandbox, Break(s) PROVE EntersOne
  BY <1>32 DEF Break, PlatformStep, EntersOne
<1>33. ASSUME NEW s \in Sandbox, Reap(s) PROVE EntersOne
  BY <1>33 DEF Reap, PlatformStep, EntersOne
<1>34. CASE UNCHANGED vars
  BY <1>34 DEF vars, EntersOne
<1>. QED
  BY <1>1, <1>2, <1>3, <1>4, <1>5, <1>6, <1>7, <1>8, <1>9, <1>10, <1>11,
    <1>12, <1>13, <1>14, <1>15, <1>16, <1>17, <1>18, <1>19, <1>20, <1>21,
    <1>22, <1>23, <1>24, <1>25, <1>26, <1>27, <1>28, <1>29, <1>30, <1>31,
    <1>32, <1>33, <1>34
  DEF Next, RunStep, CreateStep, PrewarmStep, DeleteStep, StopStep, PlatformNext, Over

\* An attempt is answered once, and "ok" after it entered a sandbox alone.
LEMMA NextAnswers ==
  ASSUME TypeOK, OwnInv, EntryInv, [Next]_vars
  PROVE  AnswersOne
<1>. USE ProcessAssumption, SandboxAssumption
<1>. USE DEF Process, Creator, TypeOK, OwnInv, HoldInv, EntryInv, HoldPC, At,
       Goto, Hold, Drop, Return, HandToDelete, Jump, Conclude, GiveUp,
       Receive, platformVars
<1>1. ASSUME NEW a \in Attempt, TakeSlot(a) PROVE AnswersOne
  BY <1>1 DEF TakeSlot, AnswersOne, Isolation!Answer
<1>2. ASSUME NEW a \in Attempt, RefuseBusy(a) PROVE AnswersOne
  BY <1>2 DEF RefuseBusy, AnswersOne, Isolation!Answer
<1>3. ASSUME NEW a \in Attempt, TakePooled(a) PROVE AnswersOne
  BY <1>3 DEF TakePooled, AnswersOne, Isolation!Answer
<1>4. ASSUME NEW a \in Attempt, PoolEmpty(a) PROVE AnswersOne
  BY <1>4 DEF PoolEmpty, AnswersOne, Isolation!Answer
<1>5. ASSUME NEW a \in Attempt, RecheckReady(a) PROVE AnswersOne
  BY <1>5 DEF RecheckReady, AnswersOne, Isolation!Answer
<1>6. ASSUME NEW a \in Attempt, RecheckFails(a) PROVE AnswersOne
  BY <1>6 DEF RecheckFails, AnswersOne, Isolation!Answer
<1>7. ASSUME NEW a \in Attempt, StageFiles(a) PROVE AnswersOne
  BY <1>7 DEF StageFiles, AnswersOne, Isolation!Answer
<1>8. ASSUME NEW a \in Attempt, StageFails(a) PROVE AnswersOne
  BY <1>8 DEF StageFails, AnswersOne, Isolation!Answer
<1>9. ASSUME NEW a \in Attempt, ExecSucceeds(a) PROVE AnswersOne
  <2>1. sb[a] \in Sandbox /\ code[sb[a]] = {a} /\ result[a] = "none"
    BY <1>9 DEF ExecSucceeds
  <2>2. Isolation!Answer(a, "ok")
    BY <1>9, <2>1 DEF ExecSucceeds, Isolation!Answer
  <2>. QED
    BY <2>2 DEF AnswersOne
<1>10. ASSUME NEW a \in Attempt, ExecFails(a) PROVE AnswersOne
  BY <1>10 DEF ExecFails, AnswersOne, Isolation!Answer
<1>11. ASSUME NEW a \in Attempt, Cleanup(a) PROVE AnswersOne
  BY <1>11 DEF Cleanup, AnswersOne, Isolation!Answer
<1>12. ASSUME NEW a \in Attempt, ReleaseSlot(a) PROVE AnswersOne
  BY <1>12 DEF ReleaseSlot, AnswersOne, Isolation!Answer
<1>13. ASSUME NEW p \in Creator, PostCreated(p) PROVE AnswersOne
  BY <1>13 DEF PostCreated, AfterCreate, AnswersOne, Isolation!Answer
<1>14. ASSUME NEW p \in Creator, PostLost(p) PROVE AnswersOne
  BY <1>14 DEF PostLost, CreateFails, AnswersOne, Isolation!Answer
<1>15. ASSUME NEW p \in Creator, PostRefused(p) PROVE AnswersOne
  BY <1>15 DEF PostRefused, CreateFails, AnswersOne, Isolation!Answer
<1>16. ASSUME NEW p \in Creator, WaitReady(p) PROVE AnswersOne
  BY <1>16 DEF WaitReady, AfterCreate, AnswersOne, Isolation!Answer
<1>17. ASSUME NEW p \in Creator, WaitFails(p) PROVE AnswersOne
  BY <1>17 DEF WaitFails, CreateFails, AnswersOne, Isolation!Answer
<1>18. ASSUME PrewarmMore PROVE AnswersOne
  BY <1>18 DEF PrewarmMore, AnswersOne, Isolation!Answer
<1>19. ASSUME PrewarmStops PROVE AnswersOne
  BY <1>19 DEF PrewarmStops, AnswersOne, Isolation!Answer
<1>20. ASSUME PrewarmPush PROVE AnswersOne
  BY <1>20 DEF PrewarmPush, AnswersOne, Isolation!Answer
<1>21. ASSUME NEW s \in Sandbox, DeleteSucceeds(s) PROVE AnswersOne
  BY <1>21 DEF DeleteSucceeds, AnswersOne, Isolation!Answer
<1>22. ASSUME NEW s \in Sandbox, DeleteFails(s) PROVE AnswersOne
  BY <1>22 DEF DeleteFails, AnswersOne, Isolation!Answer
<1>23. ASSUME Signal PROVE AnswersOne
  BY <1>23 DEF Signal, AnswersOne, Isolation!Answer
<1>24. ASSUME BeginStop PROVE AnswersOne
  BY <1>24 DEF BeginStop, AnswersOne, Isolation!Answer
<1>25. ASSUME WaitReturns PROVE AnswersOne
  BY <1>25 DEF WaitReturns, AnswersOne, Isolation!Answer
<1>26. ASSUME DrainOne PROVE AnswersOne
  BY <1>26 DEF DrainOne, AnswersOne, Isolation!Answer
<1>27. ASSUME DrainDelete PROVE AnswersOne
  BY <1>27 DEF DrainDelete, AnswersOne, Isolation!Answer
<1>28. ASSUME DrainDone PROVE AnswersOne
  BY <1>28 DEF DrainDone, AnswersOne, Isolation!Answer
<1>29. ASSUME Exit PROVE AnswersOne
  BY <1>29 DEF Exit, EndProcess, Owned, AnswersOne, Isolation!Answer
<1>30. ASSUME Crash PROVE AnswersOne
  BY <1>30 DEF Crash, EndProcess, Owned, AnswersOne, Isolation!Answer
<1>31. ASSUME NEW s \in Sandbox, BecomeReady(s) PROVE AnswersOne
  BY <1>31 DEF BecomeReady, PlatformStep, AnswersOne, Isolation!Answer
<1>32. ASSUME NEW s \in Sandbox, Break(s) PROVE AnswersOne
  BY <1>32 DEF Break, PlatformStep, AnswersOne, Isolation!Answer
<1>33. ASSUME NEW s \in Sandbox, Reap(s) PROVE AnswersOne
  BY <1>33 DEF Reap, PlatformStep, AnswersOne, Isolation!Answer
<1>34. CASE UNCHANGED vars
  BY <1>34 DEF vars, AnswersOne, Isolation!Answer
<1>. QED
  BY <1>1, <1>2, <1>3, <1>4, <1>5, <1>6, <1>7, <1>8, <1>9, <1>10, <1>11,
    <1>12, <1>13, <1>14, <1>15, <1>16, <1>17, <1>18, <1>19, <1>20, <1>21,
    <1>22, <1>23, <1>24, <1>25, <1>26, <1>27, <1>28, <1>29, <1>30, <1>31,
    <1>32, <1>33, <1>34
  DEF Next, RunStep, CreateStep, PrewarmStep, DeleteStep, StopStep, PlatformNext, Over

\* The runner implements AttemptIsolation.
THEOREM Refinement == Spec => ImplementsIsolation
<1>1. Init => Isolation!Init
  BY DEF Init, Isolation!Init, Retired
<1>2. IInv /\ IInv' /\ [Next]_vars => [Isolation!Next]_(Isolation!vars)
  <2>. SUFFICES ASSUME IInv, IInv', [Next]_vars PROVE Isolation!Next
    OBVIOUS
  <2>1. EntersOne /\ AnswersOne /\ Retired \subseteq Retired'
    BY NextEnters, NextAnswers, NextRetires DEF IInv
  <2>2. Retired' \in SUBSET Sandbox
    BY DEF IInv, TypeOK, Retired
  <2>. QED
    BY <2>1, <2>2 DEF EntersOne, AnswersOne, Isolation!Next, Isolation!Retire
<1>. QED
  BY <1>1, <1>2, Invariant, PTL DEF Spec, ImplementsIsolation, Isolation!Spec

=============================================================================

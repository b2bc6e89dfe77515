------------------------- MODULE ControlPlaneProofs -------------------------
(***************************************************************************)
(* Proofs about ControlPlane for every set of jobs, workers, groups, calls *)
(* and faults: types and ClaimedOnce (Part 1), the registry (Part 2).      *)
(***************************************************************************)
EXTENDS ControlPlane, TLAPS

-----------------------------------------------------------------------------
(* Part 1: ClaimedOnce is not inductive by itself: that a job keeps out of *)
(* the queue once claimed depends on every status that is written later,   *)
(* so the invariant also says which statuses the slots and the reconcilers *)
(* are carrying (SlotInv, RecInv).                                         *)

(* What a slot's program counter says about the rest of its state.         *)
SlotOK(r) ==
    /\ r.pc = "idle" => r.job = NoJob
    /\ r.pc # "idle" => r.job \in Job
    /\ r.pc \in {"except", "cleanup", "killing", "close"} => r.outcome \in TERMINAL
    /\ r.pc \in {"idle", "claimed", "fetch", "log_prep", "prep", "launch", "log_engine", "engine"} => r.next = 1
    /\ r.pc = "register" => r.next \in 1 .. Groups

SlotInv == \A w \in Worker : SlotOK(slot[w])

(* A reconciler that is about to close a job has a status to close it with.*)
RecOK(r) == r.pc \in {"expire", "drop", "finish", "finish_write"} => r.outcome \in TERMINAL

RecInv == \A w \in Worker : RecOK(rec[w])

WInv == WorkersTypeOK /\ SlotInv
RInv == ReconcilersTypeOK /\ RecInv

IInv ==
    /\ SandboxesTypeOK
    /\ StoreTypeOK
    /\ WInv
    /\ RInv
    /\ CallsTypeOK
    /\ ClaimedOnce

-----------------------------------------------------------------------------
(* The members of the enumerated types, so that they need no expansion.    *)

LEMMA SlotPcs ==
    /\ "idle" \in SlotPc /\ "claimed" \in SlotPc /\ "fetch" \in SlotPc /\ "log_prep" \in SlotPc
    /\ "prep" \in SlotPc /\ "launch" \in SlotPc /\ "log_engine" \in SlotPc /\ "engine" \in SlotPc
    /\ "register" \in SlotPc /\ "handover" \in SlotPc /\ "except" \in SlotPc /\ "cleanup" \in SlotPc
    /\ "killing" \in SlotPc /\ "close" \in SlotPc
  BY DEF SlotPc

LEMMA RecPcs ==
    /\ "off" \in RecPc /\ "reattach" \in RecPc /\ "attach_list" \in RecPc /\ "attach" \in RecPc
    /\ "idle" \in RecPc /\ "tick" \in RecPc /\ "expire" \in RecPc /\ "drop" \in RecPc
    /\ "finish" \in RecPc /\ "finish_write" \in RecPc /\ "reap_list" \in RecPc /\ "reap" \in RecPc
    /\ "reap_killing" \in RecPc
  BY DEF RecPc

LEMMA CallPcs ==
    /\ "new" \in CallPc /\ "withdraw" \in CallPc /\ "flag" \in CallPc /\ "snapshot" \in CallPc
    /\ "killing" \in CallPc /\ "find" \in CallPc /\ "stop_serving" \in CallPc /\ "unregister" \in CallPc
    /\ "siblings" \in CallPc /\ "stop_group" \in CallPc /\ "drop_group" \in CallPc
    /\ "stop_sandbox" \in CallPc /\ "drop" \in CallPc /\ "finish" \in CallPc
    /\ "finish_write" \in CallPc /\ "done" \in CallPc /\ "flagged" \in CallPc
    /\ "group_stopped" \in CallPc /\ "raised" \in CallPc
  BY DEF CallPc

LEMMA Outcomes ==
    /\ "none" \in Outcome /\ "cancelled" \in Outcome /\ "failed" \in Outcome /\ "timeout" \in Outcome
    /\ "stopped" \in Outcome
    /\ "cancelled" \in TERMINAL /\ "failed" \in TERMINAL /\ "timeout" \in TERMINAL
    /\ "stopped" \in TERMINAL /\ "interrupted" \in TERMINAL /\ "none" \notin TERMINAL
    /\ "absent" \notin TERMINAL /\ "queued" \notin TERMINAL
  BY DEF Outcome, TERMINAL

LEMMA Statuses ==
    /\ TERMINAL \subseteq Status
    /\ "absent" \in Status /\ "queued" \in Status /\ "running" \in Status /\ "serving" \in Status
  BY DEF Status

LEMMA EndStatuses == ASSUME NEW rc PROVE EndStatus(rc) \in Outcome /\ EndStatus(rc) \in TERMINAL
  BY DEF EndStatus, Outcome, TERMINAL

-----------------------------------------------------------------------------
(* Sandboxes: every operation keeps the types.                             *)

LEMMA CreateType == ASSUME SandboxesTypeOK, NEW s, Create(s) PROVE SandboxesTypeOK'
  BY DEF Create, SandboxesTypeOK, ExitCode

LEMMA TerminateType == ASSUME SandboxesTypeOK, NEW s, Terminate(s) PROVE SandboxesTypeOK'
  BY DEF Terminate, SandboxesTypeOK, ExitCode

LEMMA ModalFrame == ASSUME SandboxesTypeOK, UNCHANGED modalVars PROVE SandboxesTypeOK'
  BY DEF modalVars, SandboxesTypeOK

LEMMA KillServerType == ASSUME SandboxesTypeOK, NEW e, KillServer(e) PROVE SandboxesTypeOK'
  BY DEF KillServer, SandboxesTypeOK

LEMMA KillUnlessSparedType ==
    ASSUME SandboxesTypeOK, NEW j, NEW s, NEW x, KillUnlessSpared(j, s, x) PROVE SandboxesTypeOK'
  BY TerminateType, ModalFrame DEF KillUnlessSpared

LEMMA ModalType == ASSUME SandboxesTypeOK, SandboxesNext PROVE SandboxesTypeOK'
  <1>1. ASSUME NEW j \in Job, AgentReady(j) PROVE SandboxesTypeOK'
    BY <1>1 DEF AgentReady, SandboxesTypeOK, EnginesOf, Engine
  <1>2. ASSUME NEW j \in Job, AgentExits(j) PROVE SandboxesTypeOK'
    BY <1>2 DEF AgentExits, SandboxesTypeOK, ExitCode
  <1>3. ASSUME NEW j \in Job, LifetimeOver(j) PROVE SandboxesTypeOK'
    BY <1>3 DEF LifetimeOver, SandboxesTypeOK
  <1>4. ASSUME NEW e \in Engine, ServerFails(e) PROVE SandboxesTypeOK'
    BY <1>4 DEF ServerFails, SandboxesTypeOK
  <1>5. ASSUME NEW s \in Sandbox, SandboxFails(s) \/ LifetimeCap(s) PROVE SandboxesTypeOK'
    BY <1>5 DEF SandboxFails, LifetimeCap, SandboxesTypeOK, ExitCode
  <1> QED BY <1>1, <1>2, <1>3, <1>4, <1>5 DEF SandboxesNext

-----------------------------------------------------------------------------
(* The jobs table: no statement but claim changes the owner of a row, and  *)
(* none puts a row back into the queue.                                    *)

InQueue(st) == st \in {"absent", "queued"}

JobsKept ==
    \A j \in Job : /\ jobs'[j].worker = jobs[j].worker
                   /\ ~InQueue(jobs[j].status) => ~InQueue(jobs'[j].status)

JobsType == jobs \in [Job -> Row]

LEMMA SetStatusKeeps ==
    ASSUME JobsType, NEW j, NEW st \in TERMINAL \cup {"serving"}, SetStatus(j, st)
    PROVE  JobsType' /\ JobsKept
  <1>1. st \in Status /\ ~InQueue(st) BY Statuses, Outcomes DEF InQueue
  <1> QED BY <1>1 DEF SetStatus, JobsType, Row, JobsKept

LEMMA ServeKeeps ==
    ASSUME JobsType, NEW j, jobs' = [jobs EXCEPT ![j].status = "serving", ![j].result = TRUE]
    PROVE  JobsType' /\ JobsKept
  BY Statuses DEF JobsType, Row, JobsKept, InQueue

LEMMA RequestCancelKeeps ==
    ASSUME JobsType, NEW j, RequestCancel(j) PROVE JobsType' /\ JobsKept
  BY DEF RequestCancel, JobsType, Row, JobsKept

LEMMA HeartbeatKeeps ==
    ASSUME JobsType, NEW j, NEW w, Heartbeat(j, w) PROVE JobsType' /\ JobsKept
  BY DEF Heartbeat, JobsType, Row, JobsKept

LEMMA AgeKeeps ==
    ASSUME JobsType, NEW j, Age(j) PROVE JobsType' /\ JobsKept
  BY DEF Age, JobsType, Row, JobsKept

LEMMA InsertKeeps ==
    ASSUME JobsType, clock \in Nat, NEW j \in Job, Insert(j) PROVE JobsType' /\ JobsKept /\ clock' \in Nat
  <1>1. JobsType' BY Statuses DEF Insert, JobsType, Row
  <1>2. JobsKept BY DEF Insert, JobsType, Row, JobsKept, InQueue, StatusOf
  <1>3. clock' \in Nat BY DEF Insert
  <1> QED BY <1>1, <1>2, <1>3

LEMMA JobsFrame == ASSUME JobsType, UNCHANGED jobs PROVE JobsType' /\ JobsKept
  BY DEF JobsType, JobsKept
-----------------------------------------------------------------------------
(* The slots: a step gives one of them a new state, and unless it claims a *)
(* job it keeps its job or lets it go.                                     *)

SlotsKeep == \A v \in Worker : slot'[v].job \in {slot[v].job, NoJob}

LEMMA SlotFrame ==
    ASSUME WInv, NEW w \in Worker, NEW r \in SlotState, SlotOK(r),
           slot' = [slot EXCEPT ![w] = r], UNCHANGED up
    PROVE  /\ WInv'
           /\ r.job \in {slot[w].job, NoJob} => SlotsKeep
  BY DEF WInv, WorkersTypeOK, SlotInv, SlotsKeep

LEMMA SlotSame == ASSUME WInv, UNCHANGED workerVars PROVE WInv' /\ SlotsKeep
  BY DEF WInv, WorkersTypeOK, SlotInv, SlotsKeep, workerVars

LEMMA SlotGoto ==
    ASSUME WInv, NEW w \in Worker, NEW p \in SlotPc, Goto(w, p), UNCHANGED up,
           SlotOK([slot[w] EXCEPT !.pc = p])
    PROVE  WInv' /\ SlotsKeep
  <1> DEFINE r == [slot[w] EXCEPT !.pc = p]
  <1>1. slot[w] \in SlotState BY DEF WInv, WorkersTypeOK
  <1>2. r \in SlotState /\ r.job = slot[w].job BY <1>1 DEF SlotState
  <1>3. slot' = [slot EXCEPT ![w] = r] BY DEF Goto, WInv, WorkersTypeOK
  <1> QED BY <1>2, <1>3, SlotFrame

LEMMA SlotRaise ==
    ASSUME WInv, NEW w \in Worker, NEW p \in {"except", "cleanup", "close"},
           NEW o \in {"cancelled", "failed", "timeout"},
           slot' = [slot EXCEPT ![w].pc = p, ![w].outcome = o], ~At(w, "idle"), UNCHANGED up
    PROVE  WInv' /\ SlotsKeep
  <1> DEFINE r == [slot[w] EXCEPT !.pc = p, !.outcome = o]
  <1>1. slot[w] \in SlotState BY DEF WInv, WorkersTypeOK
  <1>2. p \in SlotPc /\ o \in Outcome /\ o \in TERMINAL BY SlotPcs, Outcomes
  <1>3. r \in SlotState /\ r.job = slot[w].job /\ r.pc = p /\ r.outcome = o BY <1>1, <1>2 DEF SlotState
  <1>4. slot' = [slot EXCEPT ![w] = r] BY DEF WInv, WorkersTypeOK
  <1>5. slot[w].job \in Job BY DEF WInv, SlotInv, SlotOK, At
  <1>6. SlotOK(r) BY <1>2, <1>3, <1>5 DEF SlotOK
  <1> QED BY <1>3, <1>4, <1>6, SlotFrame

LEMMA SlotRelease ==
    ASSUME WInv, NEW w \in Worker, Release(w), up' \in [Worker -> {"off", "up", "dead"}]
    PROVE  WInv' /\ SlotsKeep
  <1>1. IdleSlot \in SlotState BY SlotPcs, Outcomes, GroupsAssumption DEF IdleSlot, SlotState
  <1>2. SlotOK(IdleSlot) BY DEF SlotOK, IdleSlot
  <1>3. IdleSlot.job = NoJob BY DEF IdleSlot
  <1> QED BY <1>1, <1>2, <1>3 DEF Release, WInv, WorkersTypeOK, SlotInv, SlotsKeep

(* The invariant ClaimedOnce survives whatever keeps owners and queue.     *)
LEMMA ClaimedOnceKept == ASSUME WInv, ClaimedOnce, JobsKept, SlotsKeep PROVE ClaimedOnce'
  <1> SUFFICES ASSUME NEW w \in Worker, slot'[w].job # NoJob
               PROVE  /\ jobs'[slot'[w].job].worker = w
                      /\ jobs'[slot'[w].job].status \notin {"absent", "queued"}
    BY DEF ClaimedOnce, StatusOf, JobOf
  <1>1. slot'[w].job = slot[w].job /\ slot[w].job # NoJob BY DEF SlotsKeep
  <1>2. slot[w].job \in Job BY <1>1 DEF WInv, SlotInv, SlotOK
  <1> QED BY <1>1, <1>2 DEF ClaimedOnce, JobsKept, InQueue, StatusOf, JobOf

-----------------------------------------------------------------------------
(* The reconcilers and the calls, one state at a time.                     *)

LEMMA RecFrame ==
    ASSUME RInv, NEW w \in Worker, NEW r \in RecState, RecOK(r), rec' = [rec EXCEPT ![w] = r]
    PROVE  RInv'
  BY DEF RInv, ReconcilersTypeOK, RecInv

LEMMA RecSame == ASSUME RInv, UNCHANGED reconcilerVars PROVE RInv'
  BY DEF RInv, ReconcilersTypeOK, RecInv, reconcilerVars

LEMMA RecGotoKeeps ==
    ASSUME RInv, NEW w \in Worker, NEW p \in RecPc, RecGoto(w, p),
           p \in {"expire", "drop", "finish", "finish_write"} => rec[w].outcome \in TERMINAL
    PROVE  RInv'
  <1> DEFINE r == [rec[w] EXCEPT !.pc = p]
  <1>1. rec[w] \in RecState BY DEF RInv, ReconcilersTypeOK
  <1>2. r \in RecState /\ RecOK(r) BY <1>1 DEF RecState, RecOK
  <1>3. rec' = [rec EXCEPT ![w] = r] BY DEF RecGoto, RInv, ReconcilersTypeOK
  <1> QED BY <1>2, <1>3, RecFrame

LEMMA RecBackKeeps ==
    ASSUME RInv, NEW w \in Worker, NEW p \in {"attach", "tick", "reap"}, RecBack(w, p)
    PROVE  RInv'
  <1> DEFINE r == [rec[w] EXCEPT !.pc = p, !.job = NoJob, !.outcome = "none", !.spare = {}]
  <1>1. rec[w] \in RecState BY DEF RInv, ReconcilersTypeOK
  <1>2. r \in RecState /\ RecOK(r) BY <1>1, RecPcs, Outcomes DEF RecState, RecOK
  <1>3. rec' = [rec EXCEPT ![w] = r] BY DEF RecBack, RInv, ReconcilersTypeOK
  <1> QED BY <1>2, <1>3, RecFrame

LEMMA RecReset ==
    ASSUME RInv, NEW w \in Worker, NEW p \in {"off", "idle"}, rec' = [rec EXCEPT ![w] = [OffRec EXCEPT !.pc = p]]
    PROVE  RInv'
  <1>1. [OffRec EXCEPT !.pc = p] \in RecState /\ RecOK([OffRec EXCEPT !.pc = p])
    BY RecPcs, Outcomes DEF OffRec, RecState, RecOK
  <1> QED BY <1>1, RecFrame

LEMMA CallFrame ==
    ASSUME CallsTypeOK, NEW c \in Call, NEW r \in CallState, call' = [call EXCEPT ![c] = r]
    PROVE  CallsTypeOK'
  BY DEF CallsTypeOK

LEMMA CallGotoKeeps ==
    ASSUME CallsTypeOK, NEW c \in Call, NEW p \in CallPc, CallGoto(c, p)
    PROVE  CallsTypeOK'
  BY DEF CallsTypeOK, CallGoto, CallState

LEMMA DbFrame == ASSUME StoreTypeOK, UNCHANGED dbVars PROVE StoreTypeOK' /\ JobsKept
  BY DEF StoreTypeOK, dbVars, JobsKept

LEMMA DbRows ==
    ASSUME StoreTypeOK, JobsType', UNCHANGED <<clock, logged, registered>> PROVE StoreTypeOK'
  BY DEF StoreTypeOK, JobsType

LEMMA RowsTyped == StoreTypeOK => JobsType
  BY DEF StoreTypeOK, JobsType

-----------------------------------------------------------------------------
(* One step of a slot that is not a claim.                                 *)

SlotGoal == SandboxesTypeOK' /\ StoreTypeOK' /\ JobsKept /\ WInv' /\ SlotsKeep

LEMMA SlotStep ==
    ASSUME SandboxesTypeOK, StoreTypeOK, WInv, NEW w \in Worker, SlotNext(w)
    PROVE  Claim(w) \/ SlotGoal
  <1>t. slot[w] \in SlotState BY DEF WInv, WorkersTypeOK
  <1>o. SlotOK(slot[w]) BY DEF WInv, SlotInv
  <1>1. CASE Begin(w)
    <2>1. UNCHANGED modalVars /\ UNCHANGED dbVars /\ UNCHANGED up BY <1>1 DEF Begin
    <2>2. CASE RaiseCancelled(w)
      BY <1>1, <2>1, <2>2, SlotRaise, DbFrame, ModalFrame DEF Begin, RaiseCancelled, At, SlotGoal
    <2>3. CASE \E p \in {"fetch", "launch"} : Goto(w, p)
      <3>1. PICK p \in {"fetch", "launch"} : Goto(w, p) BY <2>3
      <3>2. SlotOK([slot[w] EXCEPT !.pc = p])
        BY <1>1, <1>t, <1>o DEF Begin, At, SlotOK, SlotState
      <3> QED BY <2>1, <3>1, <3>2, SlotPcs, SlotGoto, DbFrame, ModalFrame DEF SlotGoal
    <2> QED BY <1>1, <2>2, <2>3 DEF Begin
  <1>2. CASE CreatePrep(w)
    <2>1. SlotOK([slot[w] EXCEPT !.pc = "log_prep"])
      BY <1>2, <1>t, <1>o DEF CreatePrep, At, SlotOK, SlotState
    <2> QED BY <1>2, <2>1, SlotPcs, SlotGoto, DbFrame, CreateType DEF CreatePrep, SlotGoal
  <1>3. CASE LogPrep(w)
    <2>1. SlotOK([slot[w] EXCEPT !.pc = "prep"])
      BY <1>3, <1>t, <1>o DEF LogPrep, At, SlotOK, SlotState
    <2>2. JobOf(w) \in Job BY <1>3, <1>o DEF LogPrep, At, SlotOK, JobOf
    <2>3. StoreTypeOK' BY <1>3, <2>2 DEF LogPrep, StoreTypeOK, Sandbox, Role
    <2>4. JobsKept BY <1>3, JobsFrame, RowsTyped DEF LogPrep
    <2> QED BY <1>3, <2>1, <2>3, <2>4, SlotPcs, SlotGoto, ModalFrame DEF LogPrep, SlotGoal
  <1>4. CASE PrepDone(w)
    <2>1. Terminate(<<JobOf(w), "prep">>) /\ UNCHANGED dbVars /\ UNCHANGED up BY <1>4 DEF PrepDone
    <2>2. CASE RaiseCancelled(w)
      BY <1>4, <2>1, <2>2, SlotRaise, DbFrame, TerminateType DEF PrepDone, RaiseCancelled, At, SlotGoal
    <2>3. CASE Goto(w, "launch")
      <3>1. SlotOK([slot[w] EXCEPT !.pc = "launch"])
        BY <1>4, <1>t, <1>o DEF PrepDone, At, SlotOK, SlotState
      <3> QED BY <2>1, <2>3, <3>1, SlotPcs, SlotGoto, DbFrame, TerminateType DEF SlotGoal
    <2> QED BY <1>4, <2>2, <2>3 DEF PrepDone
  <1>5. CASE PrepRaises(w)
    BY <1>5, SlotRaise, DbFrame, TerminateType DEF PrepRaises, Raise, At, SlotGoal
  <1>6. CASE CreateEngine(w)
    <2>1. SlotOK([slot[w] EXCEPT !.pc = "log_engine"])
      BY <1>6, <1>t, <1>o DEF CreateEngine, At, SlotOK, SlotState
    <2> QED BY <1>6, <2>1, SlotPcs, SlotGoto, DbFrame, CreateType DEF CreateEngine, SlotGoal
  <1>7. CASE LogEngine(w)
    <2>1. SlotOK([slot[w] EXCEPT !.pc = "engine"])
      BY <1>7, <1>t, <1>o DEF LogEngine, At, SlotOK, SlotState
    <2>2. JobOf(w) \in Job BY <1>7, <1>o DEF LogEngine, At, SlotOK, JobOf
    <2>3. StoreTypeOK' BY <1>7, <2>2 DEF LogEngine, StoreTypeOK, Sandbox, Role, EngineSandbox
    <2>4. JobsKept BY <1>7, JobsFrame, RowsTyped DEF LogEngine
    <2> QED BY <1>7, <2>1, <2>3, <2>4, SlotPcs, SlotGoto, ModalFrame DEF LogEngine, SlotGoal
  <1>8. CASE CheckRaises(w)
    BY <1>8, SlotRaise, DbFrame, ModalFrame DEF CheckRaises, RaiseCancelled, At, SlotGoal
  <1>9. CASE WaitReturns(w)
    <2>1. SlotOK([slot[w] EXCEPT !.pc = "register"])
      BY <1>9, <1>t, <1>o, GroupsAssumption DEF WaitReturns, At, SlotOK, SlotState
    <2> QED BY <1>9, <2>1, SlotPcs, SlotGoto, DbFrame, ModalFrame DEF WaitReturns, SlotGoal
  <1>10. CASE WaitExited(w)
    BY <1>10, SlotRaise, DbFrame, ModalFrame DEF WaitExited, Raise, At, SlotGoal
  <1>11. CASE RegisterGroup(w)
    <2> DEFINE n == slot[w].next
               p == IF n = Groups THEN "handover" ELSE "register"
               r == [slot[w] EXCEPT !.next = n + 1, !.pc = p]
    <2>1. n \in 1 .. Groups /\ JobOf(w) \in Job /\ slot[w].pc = "register"
      BY <1>11, <1>o DEF RegisterGroup, At, SlotOK, JobOf
    <2>a. p \in SlotPc BY SlotPcs
    <2>b. n + 1 \in 1 .. (Groups + 1) BY <2>1, GroupsAssumption
    <2> HIDE DEF p
    <2>2. r \in SlotState /\ r.pc = p /\ r.next = n + 1 /\ r.job = slot[w].job
      BY <2>a, <2>b, <1>t DEF SlotState
    <2> USE DEF p
    <2>3. SlotOK(r) BY <2>1, <2>2, GroupsAssumption DEF SlotOK, JobOf
    <2>4. slot' = [slot EXCEPT ![w] = r] BY <1>11, <2>1 DEF RegisterGroup, WInv, WorkersTypeOK
    <2>5. WInv' /\ SlotsKeep BY <1>11, <2>2, <2>3, <2>4, SlotFrame DEF RegisterGroup
    <2>6. StoreTypeOK' BY <1>11, <2>1 DEF RegisterGroup, StoreTypeOK, Engine
    <2>7. JobsKept BY <1>11, JobsFrame, RowsTyped DEF RegisterGroup
    <2> QED BY <1>11, <2>5, <2>6, <2>7, ModalFrame DEF RegisterGroup, SlotGoal
  <1>12. CASE Serve(w)
    <2>1. WInv' /\ SlotsKeep BY <1>12, SlotRelease DEF Serve, WInv, WorkersTypeOK
    <2>2. JobsType' /\ JobsKept BY <1>12, ServeKeeps, RowsTyped DEF Serve
    <2> QED BY <1>12, <2>1, <2>2, DbRows, ModalFrame DEF Serve, SlotGoal
  <1>13. CASE Fails(w)
    BY <1>13, SlotRaise, DbFrame, ModalFrame DEF Fails, Raise, At, SlotGoal
  <1>14. CASE Except(w)
    <2>1. UNCHANGED modalVars /\ UNCHANGED dbVars /\ UNCHANGED up /\ ~At(w, "idle") BY <1>14 DEF Except, At
    <2>2. CASE slot[w].event
      BY <1>14, <2>1, <2>2, SlotRaise, DbFrame, ModalFrame DEF Except, SlotGoal
    <2>3. CASE ~slot[w].event
      <3>1. SlotOK([slot[w] EXCEPT !.pc = "cleanup"])
        BY <1>14, <1>t, <1>o DEF Except, At, SlotOK, SlotState
      <3> QED BY <1>14, <2>1, <2>3, <3>1, SlotPcs, SlotGoto, DbFrame, ModalFrame DEF Except, SlotGoal
    <2> QED BY <2>2, <2>3
  <1>15. CASE Cleanup(w)
    <2> DEFINE r == [slot[w] EXCEPT !.pc = "killing", !.todo = LoggedOf(JobOf(w)), !.spare = RegisteredSandboxes]
    <2>1. LoggedOf(JobOf(w)) \in SUBSET Sandbox BY DEF LoggedOf, StoreTypeOK
    <2>2. RegisteredSandboxes \in SUBSET Sandbox
      BY DEF RegisteredSandboxes, StoreTypeOK, SandboxOf, EngineSandbox, Sandbox, Engine, Role
    <2>3. r \in SlotState /\ r.pc = "killing" /\ r.job = slot[w].job /\ r.outcome = slot[w].outcome
      BY <2>1, <2>2, <1>t, SlotPcs DEF SlotState
    <2>4. SlotOK(r) BY <1>15, <1>o, <2>3 DEF Cleanup, At, SlotOK
    <2>5. slot' = [slot EXCEPT ![w] = r] BY <1>15 DEF Cleanup, WInv, WorkersTypeOK
    <2> QED BY <1>15, <2>3, <2>4, <2>5, SlotFrame, DbFrame, ModalFrame DEF Cleanup, SlotGoal
  <1>16. CASE KillOne(w)
    <2>1. PICK s \in slot[w].todo :
             /\ KillUnlessSpared(JobOf(w), s, slot[w].spare) \/ UNCHANGED modalVars
             /\ slot' = [slot EXCEPT ![w].todo = @ \ {s}]
      BY <1>16 DEF KillOne
    <2> DEFINE r == [slot[w] EXCEPT !.todo = slot[w].todo \ {s}]
    <2>2. r \in SlotState /\ r.pc = slot[w].pc /\ r.job = slot[w].job /\ r.outcome = slot[w].outcome
      BY <1>t DEF SlotState
    <2>3. SlotOK(r) BY <1>16, <1>o, <2>2 DEF KillOne, At, SlotOK
    <2>4. slot' = [slot EXCEPT ![w] = r] BY <2>1 DEF WInv, WorkersTypeOK
    <2>5. SandboxesTypeOK' BY <2>1, KillUnlessSparedType, ModalFrame
    <2> QED BY <1>16, <2>2, <2>3, <2>4, <2>5, SlotFrame, DbFrame DEF KillOne, SlotGoal
  <1>17. CASE KillDone(w)
    <2>1. SlotOK([slot[w] EXCEPT !.pc = "close"])
      BY <1>17, <1>t, <1>o DEF KillDone, At, SlotOK, SlotState
    <2> QED BY <1>17, <2>1, SlotPcs, SlotGoto, DbFrame, ModalFrame DEF KillDone, SlotGoal
  <1>18. CASE CloseJob(w)
    <2>1. WInv' /\ SlotsKeep BY <1>18, SlotRelease DEF CloseJob, WInv, WorkersTypeOK
    <2>2. slot[w].outcome \in TERMINAL BY <1>18, <1>o DEF CloseJob, At, SlotOK
    <2>3. JobsType' /\ JobsKept BY <1>18, <2>2, SetStatusKeeps, RowsTyped DEF CloseJob
    <2> QED BY <1>18, <2>1, <2>3, DbRows, ModalFrame DEF CloseJob, SlotGoal
  <1> QED
    BY <1>1, <1>2, <1>3, <1>4, <1>5, <1>6, <1>7, <1>8, <1>9, <1>10, <1>11, <1>12, <1>13, <1>14,
       <1>15, <1>16, <1>17, <1>18 DEF SlotNext

-----------------------------------------------------------------------------
(* A claim: the one step that gives a job to a slot.                       *)

LEMMA ClaimStep ==
    ASSUME SandboxesTypeOK, StoreTypeOK, WInv, ClaimedOnce, NEW w \in Worker, Claim(w)
    PROVE  SandboxesTypeOK' /\ StoreTypeOK' /\ WInv' /\ ClaimedOnce'
  <1>1. PICK j \in Job : ClaimRow(j, w) /\ slot' = [slot EXCEPT ![w].pc = "claimed", ![w].job = j]
    BY DEF Claim
  <1>2. slot[w] \in SlotState /\ SlotOK(slot[w]) /\ slot[w].pc = "idle"
    BY DEF WInv, WorkersTypeOK, SlotInv, Claim, At
  <1>3. StoreTypeOK'
    <2>1. JobsType' BY <1>1, Statuses, ZenonT(40) DEF StoreTypeOK, JobsType, Row, ClaimRow
    <2> QED BY <2>1, DbRows DEF Claim
  <1>4. WInv'
    <2>1. \A v \in Worker : slot'[v] \in SlotState
      BY <1>1, SlotPcs DEF WInv, WorkersTypeOK, SlotState
    <2>2. slot' \in [Worker -> SlotState] BY <1>1, <2>1 DEF WInv, WorkersTypeOK
    <2>3. \A v \in Worker : SlotOK(slot'[v])
      <3>1. ASSUME NEW v \in Worker, v # w PROVE slot'[v] = slot[v]
        BY <1>1, <3>1 DEF WInv, WorkersTypeOK
      <3>2. slot'[w].pc = "claimed" /\ slot'[w].job = j /\ slot'[w].next = slot[w].next
        BY <1>1, <1>2 DEF WInv, WorkersTypeOK, SlotState
      <3>3. slot[w].next = 1 BY <1>2 DEF SlotOK
      <3>4. SlotOK(slot'[w]) BY <3>2, <3>3 DEF SlotOK
      <3> QED BY <3>1, <3>4 DEF WInv, SlotInv
    <2> QED BY <2>2, <2>3 DEF WInv, WorkersTypeOK, SlotInv, Claim
  <1>5. ClaimedOnce'
    <2> SUFFICES ASSUME NEW v \in Worker, slot'[v].job # NoJob
                 PROVE  /\ jobs'[slot'[v].job].worker = v
                        /\ jobs'[slot'[v].job].status \notin {"absent", "queued"}
      BY DEF ClaimedOnce, StatusOf, JobOf
    <2>1. jobs'[j].worker = w /\ jobs'[j].status = "running" /\ jobs[j].status = "queued"
      BY <1>1 DEF ClaimRow, OldestQueued, StatusOf, StoreTypeOK, Row
    <2>2. CASE v = w BY <1>1, <1>2, <2>1, <2>2 DEF WInv, WorkersTypeOK, SlotState
    <2>3. CASE v # w
      <3>1. slot'[v] = slot[v] BY <1>1, <2>3 DEF WInv, WorkersTypeOK
      <3>2. slot[v].job \in Job BY <3>1 DEF WInv, SlotInv, SlotOK
      <3>3. jobs[slot[v].job].worker = v /\ jobs[slot[v].job].status \notin {"absent", "queued"}
        BY <3>1 DEF ClaimedOnce, JobOf, StatusOf
      <3>4. slot[v].job # j BY <2>1, <3>3
      <3>5. jobs'[slot[v].job] = jobs[slot[v].job]
        BY <1>1, <3>2, <3>4 DEF ClaimRow, StoreTypeOK
      <3> QED BY <3>1, <3>3, <3>5
    <2> QED BY <2>2, <2>3
  <1>6. SandboxesTypeOK' BY ModalFrame DEF Claim
  <1> QED BY <1>3, <1>4, <1>5, <1>6

-----------------------------------------------------------------------------
(* One step of a reconciler thread.                                        *)

RecGoal == SandboxesTypeOK' /\ StoreTypeOK' /\ JobsKept /\ RInv' /\ UNCHANGED workerVars

LEMMA RecStep ==
    ASSUME SandboxesTypeOK, StoreTypeOK, RInv, NEW w \in Worker, RecNext(w)
    PROVE  RecGoal
  <1>t. rec[w] \in RecState /\ rec \in [Worker -> RecState] BY DEF RInv, ReconcilersTypeOK
  <1>o. RecOK(rec[w]) BY DEF RInv, RecInv
  <1>m. ASSUME UNCHANGED modalVars, UNCHANGED dbVars PROVE SandboxesTypeOK' /\ StoreTypeOK' /\ JobsKept
    BY <1>m, ModalFrame, DbFrame
  <1>s. RegisteredSandboxes \in SUBSET Sandbox /\ \A j : LoggedOf(j) \in SUBSET Sandbox
    BY DEF RegisteredSandboxes, LoggedOf, StoreTypeOK, SandboxOf, EngineSandbox, Sandbox, Engine, Role
  <1>1. CASE ReattachEngines(w)
    <2> DEFINE r == [rec[w] EXCEPT !.pc = "attach_list", !.engs = registered]
    <2>1. r \in RecState /\ RecOK(r) BY <1>1, <1>t, RecPcs DEF ReattachEngines, RecState, RecOK, RecAt, StoreTypeOK
    <2>2. rec' = [rec EXCEPT ![w] = r] BY <1>1, <1>t DEF ReattachEngines
    <2> QED BY <1>1, <1>m, <2>1, <2>2, RecFrame DEF ReattachEngines, RecGoal
  <1>2. CASE ReattachList(w)
    <2> DEFINE r == [rec[w] EXCEPT !.pc = "attach", !.jobs = {j \in Job : StatusOf(j) \in {"serving", "succeeded"} /\ jobs[j].result}]
    <2>1. r \in RecState /\ RecOK(r) BY <1>2, <1>t, RecPcs DEF ReattachList, RecState, RecOK, RecAt, StoreTypeOK
    <2>2. rec' = [rec EXCEPT ![w] = r] BY <1>2, <1>t DEF ReattachList
    <2> QED BY <1>2, <1>m, <2>1, <2>2, RecFrame DEF ReattachList, RecGoal
  <1>3. CASE AttachKeep(w)
    <2>1. PICK j \in rec[w].jobs : rec' = [rec EXCEPT ![w].jobs = @ \ {j}]
      BY <1>3 DEF AttachKeep
    <2> DEFINE r == [rec[w] EXCEPT !.jobs = rec[w].jobs \ {j}]
    <2>2. r \in RecState /\ RecOK(r) BY <2>1, <1>3, <1>t, <1>s, RecPcs, Outcomes DEF AttachKeep, RecState, RecOK, RecAt
    <2>3. rec' = [rec EXCEPT ![w] = r] BY <2>1, <1>t
    <2> QED BY <1>3, <1>m, <2>2, <2>3, RecFrame DEF AttachKeep, RecGoal
  <1>4. CASE AttachLost(w)
    <2>1. PICK j \in rec[w].jobs :
             /\ SetStatus(j, "serving")
             /\ rec' = [rec EXCEPT ![w].pc = "finish", ![w].jobs = @ \ {j}, ![w].job = j, ![w].back = "attach",
                                   ![w].outcome = EndStatus(code[EngineSandbox(j)])]
      BY <1>4 DEF AttachLost
    <2> DEFINE o == EndStatus(code[EngineSandbox(j)])
               r == [rec[w] EXCEPT !.pc = "finish", !.jobs = rec[w].jobs \ {j}, !.job = j, !.back = "attach",
                                   !.outcome = o]
    <2>2. o \in Outcome /\ o \in TERMINAL BY EndStatuses
    <2> HIDE DEF o
    <2>3. r \in RecState /\ RecOK(r) BY <2>1, <2>2, <1>t, RecPcs DEF RecState, RecOK
    <2>4. rec' = [rec EXCEPT ![w] = r] BY <2>1, <1>t DEF o
    <2>5. JobsType' /\ JobsKept BY <2>1, SetStatusKeeps, RowsTyped
    <2> QED BY <1>4, <2>3, <2>4, <2>5, RecFrame, DbRows, ModalFrame DEF AttachLost, RecGoal
  <1>5. CASE AttachDone(w)
    BY <1>5, <1>m, RecPcs, RecGotoKeeps DEF AttachDone, RecGoal
  <1>6. CASE TickList(w)
    <2> DEFINE r == [rec[w] EXCEPT !.pc = "tick", !.engs = registered, !.late = {e \in registered : e[1] \in expired}]
    <2>1. r \in RecState /\ RecOK(r) BY <1>6, <1>t, RecPcs DEF TickList, RecState, RecOK, RecAt, StoreTypeOK
    <2>2. rec' = [rec EXCEPT ![w] = r] BY <1>6, <1>t DEF TickList
    <2> QED BY <1>6, <1>m, <2>1, <2>2, RecFrame DEF TickList, RecGoal
  <1>7. CASE PollExited(w)
    <2>1. PICK e \in rec[w].engs :
             rec' = [rec EXCEPT ![w].pc = "drop", ![w].engs = @ \ {e}, ![w].eng = {e}, ![w].job = e[1],
                                ![w].outcome = EndStatus(code[SandboxOf(e)])]
      BY <1>7 DEF PollExited
    <2> DEFINE o == EndStatus(code[SandboxOf(e)])
               r == [rec[w] EXCEPT !.pc = "drop", !.engs = rec[w].engs \ {e}, !.eng = {e}, !.job = e[1],
                                   !.outcome = o]
    <2>2. o \in Outcome /\ o \in TERMINAL BY EndStatuses
    <2>3. e \in Engine /\ e[1] \in Job BY <1>t DEF RecState, Engine
    <2> HIDE DEF o
    <2>4. r \in RecState /\ RecOK(r) BY <2>1, <2>2, <2>3, <1>t, RecPcs DEF RecState, RecOK
    <2>5. rec' = [rec EXCEPT ![w] = r] BY <2>1, <1>t DEF o
    <2> QED BY <1>7, <1>m, <2>4, <2>5, RecFrame DEF PollExited, RecGoal
  <1>8. CASE PollRaises(w)
    <2>1. PICK e \in rec[w].engs :
             rec' = [rec EXCEPT ![w].pc = "drop", ![w].engs = @ \ {e}, ![w].eng = {e}, ![w].job = e[1],
                                ![w].outcome = "failed"]
      BY <1>8 DEF PollRaises
    <2> DEFINE r == [rec[w] EXCEPT !.pc = "drop", !.engs = rec[w].engs \ {e}, !.eng = {e}, !.job = e[1],
                                   !.outcome = "failed"]
    <2>2. e \in Engine /\ e[1] \in Job BY <1>t DEF RecState, Engine
    <2>3. r \in RecState /\ RecOK(r) BY <2>1, <2>2, <1>t, RecPcs, Outcomes DEF RecState, RecOK
    <2>4. rec' = [rec EXCEPT ![w] = r] BY <2>1, <1>t
    <2> QED BY <1>8, <1>m, <2>3, <2>4, RecFrame DEF PollRaises, RecGoal
  <1>9. CASE PollExpired(w)
    <2>1. PICK e \in rec[w].engs :
             rec' = [rec EXCEPT ![w].pc = "expire", ![w].engs = @ \ {e}, ![w].eng = {e}, ![w].job = e[1],
                                ![w].outcome = "timeout"]
      BY <1>9 DEF PollExpired
    <2> DEFINE r == [rec[w] EXCEPT !.pc = "expire", !.engs = rec[w].engs \ {e}, !.eng = {e}, !.job = e[1],
                                   !.outcome = "timeout"]
    <2>2. e \in Engine /\ e[1] \in Job BY <1>t DEF RecState, Engine
    <2>3. r \in RecState /\ RecOK(r) BY <2>1, <2>2, <1>t, RecPcs, Outcomes DEF RecState, RecOK
    <2>4. rec' = [rec EXCEPT ![w] = r] BY <2>1, <1>t
    <2> QED BY <1>9, <1>m, <2>3, <2>4, RecFrame DEF PollExpired, RecGoal
  <1>10. CASE PollFine(w)
    <2>1. PICK e \in rec[w].engs : rec' = [rec EXCEPT ![w].engs = @ \ {e}]
      BY <1>10 DEF PollFine
    <2> DEFINE r == [rec[w] EXCEPT !.engs = rec[w].engs \ {e}]
    <2>2. r \in RecState /\ RecOK(r) BY <2>1, <1>10, <1>t, <1>s, RecPcs, Outcomes DEF PollFine, RecState, RecOK, RecAt
    <2>3. rec' = [rec EXCEPT ![w] = r] BY <2>1, <1>t
    <2> QED BY <1>10, <1>m, <2>2, <2>3, RecFrame DEF PollFine, RecGoal
  <1>11. CASE Expire(w)
    <2>1. SandboxesTypeOK' BY <1>11, TerminateType, ModalFrame DEF Expire
    <2>2. rec[w].outcome \in TERMINAL BY <1>11, <1>o DEF Expire, RecAt, RecOK
    <2> QED BY <1>11, <2>1, <2>2, DbFrame, RecPcs, RecGotoKeeps DEF Expire, RecGoal
  <1>12. CASE Drop(w)
    <2> DEFINE r == [rec[w] EXCEPT !.pc = "finish", !.eng = {}, !.back = "tick"]
    <2>1. rec[w].outcome \in TERMINAL BY <1>12, <1>o DEF Drop, RecAt, RecOK
    <2>2. r \in RecState /\ RecOK(r) BY <2>1, <1>t, RecPcs DEF RecState, RecOK
    <2>3. rec' = [rec EXCEPT ![w] = r] BY <1>12, <1>t DEF Drop
    <2>4. StoreTypeOK' BY <1>12 DEF Drop, StoreTypeOK
    <2>5. JobsKept BY <1>12, JobsFrame, RowsTyped DEF Drop
    <2> QED BY <1>12, <2>2, <2>3, <2>4, <2>5, RecFrame, ModalFrame DEF Drop, RecGoal
  <1>13. CASE TickDone(w)
    BY <1>13, <1>m, RecPcs, RecGotoKeeps DEF TickDone, RecGoal
  <1>14. CASE RecFinishRead(w)
    <2>1. rec[w].back \in {"attach", "tick"} /\ rec[w].outcome \in TERMINAL
      BY <1>14, <1>t, <1>o DEF RecFinishRead, RecAt, RecOK, RecState
    <2>2. RInv' BY <1>14, <2>1, RecPcs, RecBackKeeps, RecGotoKeeps DEF RecFinishRead
    <2> QED BY <1>14, <1>m, <2>2 DEF RecFinishRead, RecGoal
  <1>15. CASE RecFinishWrite(w)
    <2>1. rec[w].back \in {"attach", "tick"} /\ rec[w].outcome \in TERMINAL
      BY <1>15, <1>t, <1>o DEF RecFinishWrite, RecAt, RecOK, RecState
    <2>2. RInv' BY <1>15, <2>1, RecBackKeeps DEF RecFinishWrite
    <2>3. JobsType' /\ JobsKept BY <1>15, <2>1, SetStatusKeeps, RowsTyped DEF RecFinishWrite
    <2> QED BY <1>15, <2>2, <2>3, DbRows, ModalFrame DEF RecFinishWrite, RecGoal
  <1>16. CASE TickRaises(w)
    BY <1>16, <1>m, RecReset DEF TickRaises, RecGoal
  <1>17. CASE ReapList(w)
    <2> DEFINE r == [rec[w] EXCEPT !.pc = "reap", !.jobs = StaleRunning]
    <2>1. StaleRunning \subseteq Job BY DEF StaleRunning
    <2>2. r \in RecState /\ RecOK(r) BY <2>1, <1>t, RecPcs DEF RecState, RecOK
    <2>3. rec' = [rec EXCEPT ![w] = r] BY <1>17, <1>t DEF ReapList
    <2> QED BY <1>17, <1>m, <2>2, <2>3, RecFrame DEF ReapList, RecGoal
  <1>18. CASE ReapOwn(w)
    <2>1. PICK j \in rec[w].jobs : rec' = [rec EXCEPT ![w].jobs = @ \ {j}]
      BY <1>18 DEF ReapOwn
    <2> DEFINE r == [rec[w] EXCEPT !.jobs = rec[w].jobs \ {j}]
    <2>2. r \in RecState /\ RecOK(r) BY <2>1, <1>18, <1>t, <1>s, RecPcs, Outcomes DEF ReapOwn, RecState, RecOK, RecAt
    <2>3. rec' = [rec EXCEPT ![w] = r] BY <2>1, <1>t
    <2> QED BY <1>18, <1>m, <2>2, <2>3, RecFrame DEF ReapOwn, RecGoal
  <1>19. CASE ReapJob(w)
    <2>1. PICK j \in rec[w].jobs :
             rec' = [rec EXCEPT ![w].pc = "reap_killing", ![w].jobs = @ \ {j}, ![w].job = j,
                                ![w].todo = LoggedOf(j), ![w].spare = RegisteredSandboxes]
      BY <1>19 DEF ReapJob
    <2> DEFINE r == [rec[w] EXCEPT !.pc = "reap_killing", !.jobs = rec[w].jobs \ {j}, !.job = j,
                                   !.todo = LoggedOf(j), !.spare = RegisteredSandboxes]
    <2>2. r \in RecState /\ RecOK(r) BY <2>1, <1>t, <1>s, RecPcs DEF RecState, RecOK
    <2>3. rec' = [rec EXCEPT ![w] = r] BY <2>1, <1>t
    <2> QED BY <1>19, <1>m, <2>2, <2>3, RecFrame DEF ReapJob, RecGoal
  <1>20. CASE ReapKill(w)
    <2>1. PICK s \in rec[w].todo :
             /\ KillUnlessSpared(rec[w].job, s, rec[w].spare) \/ UNCHANGED modalVars
             /\ rec' = [rec EXCEPT ![w].todo = @ \ {s}]
      BY <1>20 DEF ReapKill
    <2> DEFINE r == [rec[w] EXCEPT !.todo = rec[w].todo \ {s}]
    <2>2. r \in RecState /\ RecOK(r) BY <1>20, <1>t DEF ReapKill, RecAt, RecState, RecOK
    <2>3. rec' = [rec EXCEPT ![w] = r] BY <2>1, <1>t
    <2>4. SandboxesTypeOK' BY <2>1, KillUnlessSparedType, ModalFrame
    <2> QED BY <1>20, <2>2, <2>3, <2>4, RecFrame, DbFrame DEF ReapKill, RecGoal
  <1>21. CASE ReapWrite(w)
    <2>1. JobsType' /\ JobsKept BY <1>21, Outcomes, SetStatusKeeps, RowsTyped DEF ReapWrite
    <2>2. RInv' BY <1>21, RecBackKeeps DEF ReapWrite
    <2> QED BY <1>21, <2>1, <2>2, DbRows, ModalFrame DEF ReapWrite, RecGoal
  <1>22. CASE ReapDone(w)
    BY <1>22, <1>m, RecReset DEF ReapDone, RecGoal
  <1> QED
    BY <1>1, <1>2, <1>3, <1>4, <1>5, <1>6, <1>7, <1>8, <1>9, <1>10, <1>11, <1>12, <1>13, <1>14,
       <1>15, <1>16, <1>17, <1>18, <1>19, <1>20, <1>21, <1>22 DEF RecNext

-----------------------------------------------------------------------------
(* One step of a call.                                                     *)

CallGoal == SandboxesTypeOK' /\ StoreTypeOK' /\ JobsKept /\ CallsTypeOK'

LEMMA CallStep ==
    ASSUME SandboxesTypeOK, StoreTypeOK, CallsTypeOK, NEW c \in Call,
           CancelNext(c) \/ StopNext(c) \/ FinishNext(c) \/ CallDies(c)
    PROVE  CallGoal
  <1>t. call[c] \in CallState /\ call \in [Call -> CallState] BY DEF CallsTypeOK
  <1>m. ASSUME UNCHANGED modalVars, UNCHANGED dbVars PROVE SandboxesTypeOK' /\ StoreTypeOK' /\ JobsKept
    BY <1>m, ModalFrame, DbFrame
  <1>r. ASSUME NEW X, registered' = registered \ X, UNCHANGED modalVars, UNCHANGED <<jobs, clock, logged>>
        PROVE  SandboxesTypeOK' /\ StoreTypeOK' /\ JobsKept
    BY <1>r, ModalFrame, JobsFrame, RowsTyped DEF StoreTypeOK
  <1>1. CASE CancelGet(c)
    <2>1. PICK j \in Job :
             call' = [call EXCEPT ![c].job = j,
                                  ![c].engs = IF StatusOf(j) = "serving" THEN EnginesOf(j) ELSE {},
                                  ![c].pc = IF Closed(j) THEN "done"
                                            ELSE IF StatusOf(j) = "serving" THEN "find"
                                            ELSE "withdraw"]
      BY <1>1 DEF CancelGet
    <2> DEFINE E == IF StatusOf(j) = "serving" THEN EnginesOf(j) ELSE {}
               p == IF Closed(j) THEN "done" ELSE IF StatusOf(j) = "serving" THEN "find" ELSE "withdraw"
               r == [call[c] EXCEPT !.job = j, !.engs = E, !.pc = p]
    <2>2. E \subseteq Engine /\ p \in CallPc BY CallPcs DEF EnginesOf, Engine
    <2>3. r \in CallState BY <2>1, <2>2, <1>t, CallPcs DEF CallState
    <2>4. call' = [call EXCEPT ![c] = r] BY <2>1, <1>t
    <2> QED BY <1>1, <1>m, <2>3, <2>4, CallFrame DEF CancelGet, CallGoal
  <1>2. CASE CancelWithdraw(c)
    <2>1. JobsType' /\ JobsKept
      BY <1>2, Outcomes, SetStatusKeeps, JobsFrame, RowsTyped DEF CancelWithdraw, CancelQueued
    <2>2. CallsTypeOK' BY <1>2, CallPcs, CallGotoKeeps DEF CancelWithdraw
    <2> QED BY <1>2, <2>1, <2>2, DbRows, ModalFrame DEF CancelWithdraw, CallGoal
  <1>3. CASE CancelFlag(c)
    <2>1. JobsType' /\ JobsKept BY <1>3, RequestCancelKeeps, RowsTyped DEF CancelFlag
    <2>2. CallsTypeOK' BY <1>3, CallPcs, CallGotoKeeps DEF CancelFlag
    <2> QED BY <1>3, <2>1, <2>2, DbRows, ModalFrame DEF CancelFlag, CallGoal
  <1>4. CASE CancelSnapshot(c)
    <2> DEFINE r == [call[c] EXCEPT !.pc = "killing", !.todo = LoggedOf(call[c].job), !.spare = RegisteredSandboxes]
    <2>1. RegisteredSandboxes \in SUBSET Sandbox /\ LoggedOf(call[c].job) \in SUBSET Sandbox
      BY DEF RegisteredSandboxes, LoggedOf, StoreTypeOK, SandboxOf, EngineSandbox, Sandbox, Engine, Role
    <2>2. r \in CallState BY <2>1, <1>t, CallPcs DEF CallState
    <2>3. call' = [call EXCEPT ![c] = r] BY <1>4, <1>t DEF CancelSnapshot
    <2> QED BY <1>4, <1>m, <2>2, <2>3, CallFrame DEF CancelSnapshot, CallGoal
  <1>5. CASE CancelKill(c)
    <2>1. CASE CallGoto(c, "flagged") /\ UNCHANGED modalVars
      BY <1>5, <2>1, <1>m, CallPcs, CallGotoKeeps DEF CancelKill, CallGoal
    <2>2. CASE \E s \in call[c].todo : /\ KillUnlessSpared(call[c].job, s, call[c].spare) \/ UNCHANGED modalVars
                                       /\ call' = [call EXCEPT ![c].todo = @ \ {s}]
      <3>1. PICK s \in call[c].todo : /\ KillUnlessSpared(call[c].job, s, call[c].spare) \/ UNCHANGED modalVars
                                      /\ call' = [call EXCEPT ![c].todo = @ \ {s}]
        BY <2>2
      <3> DEFINE r == [call[c] EXCEPT !.todo = call[c].todo \ {s}]
      <3>2. r \in CallState BY <1>t DEF CallState
      <3>3. call' = [call EXCEPT ![c] = r] BY <3>1, <1>t
      <3>4. SandboxesTypeOK' BY <3>1, KillUnlessSparedType, ModalFrame
      <3> QED BY <1>5, <3>2, <3>3, <3>4, CallFrame, DbFrame DEF CancelKill, CallGoal
    <2> QED BY <1>5, <2>1, <2>2 DEF CancelKill
  <1>0. CASE CancelFind(c)
    BY <1>0, <1>m, CallPcs, CallGotoKeeps DEF CancelFind, CallGoal
  <1>6. CASE CancelStopServing(c)
    BY <1>6, TerminateType, ModalFrame, DbFrame, CallPcs, CallGotoKeeps DEF CancelStopServing, CallGoal
  <1>7. CASE CancelUnregister(c)
    <2>1. PICK e \in call[c].engs :
             /\ registered' = registered \ {e}
             /\ call' = [call EXCEPT ![c].engs = @ \ {e},
                                     ![c].pc = IF call[c].engs = {e} THEN "finish" ELSE @]
      BY <1>7 DEF CancelUnregister
    <2> DEFINE p == IF call[c].engs = {e} THEN "finish" ELSE call[c].pc
               r == [call[c] EXCEPT !.engs = call[c].engs \ {e}, !.pc = p]
    <2>2. r \in CallState BY <1>t, CallPcs DEF CallState
    <2>3. call' = [call EXCEPT ![c] = r] BY <2>1, <1>t
    <2> QED BY <1>7, <1>r, <2>1, <2>2, <2>3, CallFrame DEF CancelUnregister, CallGoal
  <1>8. CASE FinishRead(c)
    BY <1>8, <1>m, CallPcs, CallGotoKeeps DEF FinishRead, CallGoal
  <1>9. CASE FinishWrite(c)
    <2>1. JobsType' /\ JobsKept BY <1>9, Outcomes, SetStatusKeeps, RowsTyped DEF FinishWrite
    <2>2. CallsTypeOK' BY <1>9, CallPcs, CallGotoKeeps DEF FinishWrite
    <2> QED BY <1>9, <2>1, <2>2, DbRows, ModalFrame DEF FinishWrite, CallGoal
  <1>10. CASE StopRead(c)
    <2>1. PICK e \in registered : call' = [call EXCEPT ![c].pc = "siblings", ![c].job = e[1], ![c].engs = {e}]
      BY <1>10 DEF StopRead
    <2> DEFINE r == [call[c] EXCEPT !.pc = "siblings", !.job = e[1], !.engs = {e}]
    <2>2. e \in Engine /\ e[1] \in Job BY DEF StoreTypeOK, Engine
    <2>3. r \in CallState BY <2>2, <1>t, CallPcs DEF CallState
    <2>4. call' = [call EXCEPT ![c] = r] BY <2>1, <1>t
    <2> QED BY <1>10, <1>m, <2>3, <2>4, CallFrame DEF StopRead, CallGoal
  <1>11. CASE StopSiblings(c)
    BY <1>11, <1>m, CallPcs, CallGotoKeeps DEF StopSiblings, CallGoal
  <1>12. CASE StopGroup(c)
    <2>1. SandboxesTypeOK' BY <1>12, KillServerType, ModalFrame DEF StopGroup
    <2>2. CallsTypeOK' BY <1>12, CallPcs, CallGotoKeeps DEF StopGroup
    <2> QED BY <1>12, <2>1, <2>2, DbFrame DEF StopGroup, CallGoal
  <1>13. CASE DropGroup(c)
    BY <1>13, <1>r, CallPcs, CallGotoKeeps DEF DropGroup, CallGoal
  <1>14. CASE StopSandbox(c)
    BY <1>14, TerminateType, DbFrame, CallPcs, CallGotoKeeps DEF StopSandbox, CallGoal
  <1>15. CASE DropEngine(c)
    BY <1>15, <1>r, CallPcs, CallGotoKeeps DEF DropEngine, CallGoal
  <1>16. CASE CallDies(c)
    BY <1>16, <1>m, CallPcs, CallGotoKeeps DEF CallDies, CallGoal
  <1> QED
    BY <1>0, <1>1, <1>2, <1>3, <1>4, <1>5, <1>6, <1>7, <1>8, <1>9, <1>10, <1>11, <1>12, <1>13,
       <1>14, <1>15, <1>16 DEF CancelNext, StopNext, FinishNext

LEMMA CallsSame == ASSUME CallsTypeOK, UNCHANGED apiVars PROVE CallsTypeOK'
  BY DEF CallsTypeOK, apiVars

-----------------------------------------------------------------------------
(* The whole invariant                                                     *)

LEMMA InitIInv == Init => IInv
  <1> SUFFICES ASSUME Init PROVE IInv OBVIOUS
  <1> USE GroupsAssumption DEF Init
  <1>1. SandboxesTypeOK BY DEF SandboxesInit, SandboxesTypeOK
  <1>2. StoreTypeOK BY Statuses DEF StoreInit, StoreTypeOK, NoRow, Row
  <1>3. WInv
    <2>1. IdleSlot \in SlotState /\ SlotOK(IdleSlot)
      BY SlotPcs, Outcomes DEF IdleSlot, SlotState, SlotOK
    <2> QED BY <2>1 DEF WorkersInit, WInv, WorkersTypeOK, SlotInv
  <1>4. RInv
    <2>1. OffRec \in RecState /\ RecOK(OffRec)
      BY RecPcs, Outcomes DEF OffRec, RecState, RecOK
    <2> QED BY <2>1 DEF ReconcilersInit, RInv, ReconcilersTypeOK, RecInv
  <1>5. CallsTypeOK BY CallPcs DEF CallsInit, CallsTypeOK, CallState, NewCall
  <1>6. ClaimedOnce BY DEF WorkersInit, ClaimedOnce, JobOf, IdleSlot
  <1> QED BY <1>1, <1>2, <1>3, <1>4, <1>5, <1>6 DEF IInv

LEMMA NextIInv == IInv /\ [Next]_vars => IInv'
  <1> SUFFICES ASSUME IInv, [Next]_vars PROVE IInv' OBVIOUS
  <1> USE DEF IInv
  <1>1. ASSUME NEW w \in Worker, Start(w) PROVE IInv'
    <2>1. SandboxesTypeOK' /\ StoreTypeOK' /\ JobsKept BY <1>1, ModalFrame, DbFrame DEF Start
    <2>2. WInv' /\ SlotsKeep BY <1>1 DEF Start, WInv, WorkersTypeOK, SlotInv, SlotsKeep
    <2>3. RInv' BY <1>1, RecPcs, RecGotoKeeps DEF Start
    <2> QED BY <1>1, <2>1, <2>2, <2>3, ClaimedOnceKept, CallsSame DEF Start, apiVars
  <1>2. ASSUME NEW w \in Worker, Crash(w) PROVE IInv'
    <2>1. SandboxesTypeOK' /\ StoreTypeOK' /\ JobsKept BY <1>2, ModalFrame, DbFrame DEF Crash
    <2>2. up' \in [Worker -> {"off", "up", "dead"}] BY <1>2 DEF Crash, WInv, WorkersTypeOK
    <2>3. WInv' /\ SlotsKeep BY <1>2, <2>2, SlotRelease DEF Crash
    <2>4. OffRec = [OffRec EXCEPT !.pc = "off"] BY DEF OffRec
    <2>5. RInv' BY <1>2, <2>4, RecReset DEF Crash
    <2> QED BY <1>2, <2>1, <2>3, <2>5, ClaimedOnceKept, CallsSame DEF Crash, apiVars
  <1>3. ASSUME NEW w \in Worker, Slots(w) PROVE IInv'
    <2>1. RInv' /\ CallsTypeOK' BY <1>3, RecSame, CallsSame DEF Slots
    <2>2. CASE Claim(w) BY <2>1, <2>2, ClaimStep
    <2>3. CASE SlotGoal BY <2>1, <2>3, ClaimedOnceKept DEF SlotGoal
    <2> QED BY <1>3, <2>2, <2>3, SlotStep DEF Slots
  <1>4. ASSUME NEW w \in Worker, Monitor(w) PROVE IInv'
    <2>1. RInv' /\ CallsTypeOK' BY <1>4, RecSame, CallsSame DEF Monitor
    <2>2. CASE NoticeCancel(w)
      <3> DEFINE r == [slot[w] EXCEPT !.event = TRUE]
      <3>1. slot[w] \in SlotState /\ SlotOK(slot[w]) BY DEF WInv, WorkersTypeOK, SlotInv
      <3>2. r \in SlotState /\ SlotOK(r) /\ r.job = slot[w].job BY <3>1 DEF SlotState, SlotOK
      <3>3. slot' = [slot EXCEPT ![w] = r] BY <2>2 DEF NoticeCancel, WInv, WorkersTypeOK
      <3>4. WInv' /\ SlotsKeep BY <2>2, <3>2, <3>3, SlotFrame DEF NoticeCancel
      <3> QED BY <2>1, <2>2, <3>4, ModalFrame, DbFrame, ClaimedOnceKept DEF NoticeCancel
    <2>3. CASE Beat(w)
      <3>1. JobsType' /\ JobsKept BY <2>3, HeartbeatKeeps, RowsTyped DEF Beat
      <3>2. WInv' /\ SlotsKeep BY <2>3, SlotSame DEF Beat
      <3> QED BY <2>1, <2>3, <3>1, <3>2, DbRows, ModalFrame, ClaimedOnceKept DEF Beat
    <2> QED BY <1>4, <2>2, <2>3 DEF Monitor, MonitorNext
  <1>5. ASSUME NEW w \in Worker, Reconcile(w) PROVE IInv'
    BY <1>5, RecStep, SlotSame, CallsSame, ClaimedOnceKept DEF Reconcile, RecGoal
  <1>6. ASSUME NEW j \in Job, Submitted(j) PROVE IInv'
    <2>1. JobsType' /\ JobsKept /\ clock' \in Nat
      BY <1>6, InsertKeeps, RowsTyped DEF Submitted, Submit, StoreTypeOK
    <2>2. StoreTypeOK' BY <1>6, <2>1 DEF Submitted, Submit, StoreTypeOK, JobsType
    <2>3. WInv' /\ SlotsKeep /\ RInv' BY <1>6, SlotSame, RecSame DEF Submitted
    <2> QED BY <1>6, <2>1, <2>2, <2>3, ModalFrame, CallsSame, ClaimedOnceKept DEF Submitted, Submit, apiVars
  <1>7. ASSUME NEW j \in Job, Ages(j) PROVE IInv'
    <2>1. JobsType' /\ JobsKept BY <1>7, AgeKeeps, RowsTyped DEF Ages
    <2>2. WInv' /\ SlotsKeep /\ RInv' BY <1>7, SlotSame, RecSame DEF Ages, Age
    <2> QED BY <1>7, <2>1, <2>2, DbRows, ModalFrame, CallsSame, ClaimedOnceKept DEF Ages, Age
  <1>8. ASSUME NEW c \in Call, Cancelling(c) \/ Stopping(c) \/ RequestDies(c) PROVE IInv'
    <2>1. CallGoal BY <1>8, CallStep DEF Cancelling, Stopping, RequestDies
    <2>2. WInv' /\ SlotsKeep /\ RInv'
      BY <1>8, SlotSame, RecSame DEF Cancelling, Stopping, RequestDies
    <2> QED BY <2>1, <2>2, ClaimedOnceKept DEF CallGoal
  <1>9. ASSUME Modal PROVE IInv'
    BY <1>9, ModalType, DbFrame, SlotSame, RecSame, CallsSame, ClaimedOnceKept DEF Modal
  <1>10. ASSUME UNCHANGED vars PROVE IInv'
    BY <1>10, ModalFrame, DbFrame, SlotSame, RecSame, CallsSame, ClaimedOnceKept DEF vars
  <1> QED
    BY <1>1, <1>2, <1>3, <1>4, <1>5, <1>6, <1>7, <1>8, <1>9, <1>10 DEF Next, Call

(* The inductive invariant: types, what a slot and a reconciler hold when  *)
(* they are at a given step, and that nobody runs a job of somebody else.  *)
THEOREM Invariance == Spec => []IInv
  BY InitIInv, NextIInv, PTL DEF Spec

(* Every variable keeps its type, with any number of jobs, workers, groups *)
(* and calls and any set of faults.                                        *)
THEOREM TypeCorrect == Spec => []TypeOK
  <1>1. IInv => TypeOK BY DEF IInv, TypeOK, WInv, RInv
  <1> QED BY <1>1, Invariance, PTL

(* A job is in at most one slot and never returns to the queue, with any   *)
(* number of workers, crashes, cancels and late heartbeats: what           *)
(* Store.claim and Store.cancel_if_queued promise.                         *)
THEOREM NeverClaimedTwice == Spec => []ClaimedOnce
  <1>1. IInv => ClaimedOnce BY DEF IInv
  <1> QED BY <1>1, Invariance, PTL

-----------------------------------------------------------------------------
(* Part 2: the registry never loses an engine that still serves, as long   *)
(* as Modal answers (no fault `poll` and no fault `kill`: each breaks it); *)
(* and whatever goes wrong, a job that serves has its result and is no     *)
(* slot's any more.                                                        *)
(*                                                                         *)
(* Whoever is about to unregister an engine has seen it down at an earlier *)
(* step, so the argument is that down is for ever: the agent starts its    *)
(* servers once (an engine is registered after READY), and an exit code    *)
(* stays.  The one caller that looks at the registry instead is a cancel   *)
(* that finds no engine left; for it, no engine of a job that is serving   *)
(* may be registered any more, so the slot must have let go of the job.    *)

Known(e) == e[1] \in ready
Down(e) == Known(e) /\ ~ServerUp(e)

(* What a reconciler makes of an engine it takes out.                      *)
Answers == "poll" \notin Faults /\ "kill" \notin Faults
Stopped(e) == Answers => Down(e)

(* READY comes out of a sandbox, and before the registry hears of it.      *)
ReadyInv ==
    /\ \A j \in ready : code[EngineSandbox(j)] # "unborn"
    /\ \A e \in registered : Known(e)
    /\ \A w \in Worker : slot[w].pc \in {"register", "handover"} => slot[w].job \in ready

(* The result is written when the last engine is registered, by the slot   *)
(* as it lets go of the job; a job without result does not serve.          *)
ResultInv ==
    \A j \in Job :
       /\ jobs[j].result => /\ j \in ready
                            /\ StatusOf(j) \notin {"absent", "queued"}
                            /\ \A w \in Worker : slot[w].job # j
       /\ StatusOf(j) = "serving" => jobs[j].result

Attaching(r) == r.pc = "attach" \/ (r.pc \in {"finish", "finish_write"} /\ r.back = "attach")

RecDown(r) ==
    /\ \A e \in r.engs : Known(e)
    /\ Attaching(r) => \A j \in r.jobs : jobs[j].result
    /\ r.pc = "expire" => \A e \in r.eng : e[1] = r.job /\ Known(e)
    /\ r.pc = "drop" => \A e \in r.eng : Stopped(e)

CallDown(r) ==
    /\ r.pc \in {"find", "stop_serving", "unregister"} =>
          /\ r.job \in Job /\ jobs[r.job].result
          /\ \A e \in r.engs : e[1] = r.job
    /\ r.pc = "unregister" => Exited(EngineSandbox(r.job)) \/ r.engs \cap registered = {}
    /\ r.pc \in {"siblings", "stop_group", "stop_sandbox"} => \A e \in r.engs : e[1] = r.job /\ Known(e)
    /\ r.pc \in {"drop_group", "drop"} => \A e \in r.engs : Down(e)
    /\ r.pc \in {"siblings", "stop_group"} => \A e, f \in r.engs : e = f

UInv ==
    /\ ReadyInv
    /\ ResultInv
    /\ \A w \in Worker : RecDown(rec[w])
    /\ \A c \in Call : CallDown(call[c])

-----------------------------------------------------------------------------
(* What a step leaves as it is.  Sandboxes: READY, exits and down engines. *)

ModalKept ==
    /\ ready \subseteq ready'
    /\ \A j \in Job : Exited(EngineSandbox(j)) => Exited(EngineSandbox(j))'
    /\ \A e \in Engine : Down(e) => Down(e)'
    /\ \A j \in ready' : code'[EngineSandbox(j)] # "unborn"

(* The rows: no result is reset, and only a job with a result serves.      *)
ResultsKept ==
    \A j \in Job : /\ jobs'[j].result = jobs[j].result
                   /\ jobs'[j].status = "serving" => jobs[j].status = "serving" \/ jobs[j].result

(* The registry: what leaves it is down.                                   *)
RegistryKept ==
    /\ registered' \subseteq registered
    /\ \A e \in registered \ registered' : Stopped(e)

Born == \A j \in ready : code[EngineSandbox(j)] # "unborn"

LEMMA EngineSandboxes ==
    /\ \A j \in Job : EngineSandbox(j) \in Sandbox
    /\ \A e \in Engine : e[1] \in Job
  BY DEF EngineSandbox, Sandbox, Role, Engine

LEMMA ModalSame == ASSUME SandboxesTypeOK, Born, UNCHANGED modalVars PROVE ModalKept
  BY DEF modalVars, ModalKept, Born, Exited, Down, Known, ServerUp, Running

LEMMA CreateKeeps == ASSUME SandboxesTypeOK, Born, NEW s, Create(s) PROVE ModalKept
  BY EngineSandboxes DEF Create, SandboxesTypeOK, ModalKept, Born, Exited, ExitCode, Down, Known, ServerUp, Running, SandboxOf

LEMMA TerminateKeeps == ASSUME SandboxesTypeOK, Born, NEW s, Terminate(s) PROVE ModalKept
  BY EngineSandboxes DEF Terminate, SandboxesTypeOK, ModalKept, Born, Exited, ExitCode, Down, Known, ServerUp, Running, SandboxOf

LEMMA TerminateEnds ==
    ASSUME SandboxesTypeOK, Born, NEW j \in ready, Terminate(EngineSandbox(j))
    PROVE  code'[EngineSandbox(j)] \in ExitCode
  BY EngineSandboxes DEF Terminate, SandboxesTypeOK, Born, ExitCode

LEMMA KillServerKeeps == ASSUME SandboxesTypeOK, Born, NEW e, KillServer(e) PROVE ModalKept
  BY DEF KillServer, ModalKept, Born, Exited, Down, Known, ServerUp, Running

LEMMA KillUnlessSparedKeeps ==
    ASSUME SandboxesTypeOK, Born, NEW j, NEW s, NEW x, KillUnlessSpared(j, s, x) PROVE ModalKept
  BY TerminateKeeps, ModalSame DEF KillUnlessSpared

LEMMA ModalKeeps == ASSUME SandboxesTypeOK, Born, SandboxesNext PROVE ModalKept
  <1> USE EngineSandboxes DEF SandboxesTypeOK, ModalKept, Born, Exited, ExitCode, Down, Known, ServerUp, Running, SandboxOf
  <1>1. ASSUME NEW j \in Job, AgentReady(j) PROVE ModalKept
    BY <1>1 DEF AgentReady, EnginesOf, Engine
  <1>2. ASSUME NEW j \in Job, AgentExits(j) PROVE ModalKept
    BY <1>2 DEF AgentExits
  <1>3. ASSUME NEW j \in Job, LifetimeOver(j) PROVE ModalKept
    BY <1>3 DEF LifetimeOver
  <1>4. ASSUME NEW e \in Engine, ServerFails(e) PROVE ModalKept
    BY <1>4 DEF ServerFails
  <1>5. ASSUME NEW s \in Sandbox, SandboxFails(s) \/ LifetimeCap(s) PROVE ModalKept
    BY <1>5 DEF SandboxFails, LifetimeCap
  <1> QED BY <1>1, <1>2, <1>3, <1>4, <1>5 DEF SandboxesNext

-----------------------------------------------------------------------------
(* The statements on the rows.                                             *)

LEMMA SetStatusResults ==
    ASSUME JobsType, NEW j, NEW st, SetStatus(j, st),
           st = "serving" => jobs[j].result
    PROVE  ResultsKept
  BY DEF SetStatus, JobsType, Row, ResultsKept

LEMMA RowsResults ==
    ASSUME JobsType, NEW j, NEW w, RequestCancel(j) \/ Heartbeat(j, w) \/ Age(j) \/ Insert(j) \/ ClaimRow(j, w)
    PROVE  ResultsKept
  BY DEF RequestCancel, Heartbeat, Age, Insert, ClaimRow, JobsType, Row, ResultsKept

LEMMA ResultsSame == ASSUME UNCHANGED jobs PROVE ResultsKept
  BY DEF ResultsKept

LEMMA RegistrySame == ASSUME UNCHANGED registered PROVE RegistryKept
  BY DEF RegistryKept

-----------------------------------------------------------------------------
(* The parts of the invariant that a step does not touch.                  *)

Kept == ModalKept /\ ResultsKept /\ RegistryKept

SlotReady(r) == r.pc \in {"register", "handover"} => r.job \in ready

LEMMA ReadyKept ==
    ASSUME IInv, ReadyInv, ModalKept, RegistryKept, \A w \in Worker : SlotReady(slot[w])'
    PROVE  ReadyInv'
  <1>1. \A j \in ready' : code'[EngineSandbox(j)] # "unborn" BY DEF ModalKept
  <1>2. \A e \in registered' : e[1] \in ready' BY DEF ModalKept, RegistryKept, ReadyInv, Known
  <1> QED BY <1>1, <1>2 DEF ReadyInv, Known, SlotReady

LEMMA ResultKept ==
    ASSUME IInv, ResultInv, ModalKept, ResultsKept, JobsKept, SlotsKeep
    PROVE  ResultInv'
  <1> SUFFICES ASSUME NEW j \in Job
               PROVE  /\ jobs'[j].result => /\ j \in ready'
                                            /\ jobs'[j].status \notin {"absent", "queued"}
                                            /\ \A w \in Worker : slot'[w].job # j
                      /\ jobs'[j].status = "serving" => jobs'[j].result
    BY DEF ResultInv, StatusOf
  <1>1. jobs'[j].result = jobs[j].result BY DEF ResultsKept
  <1>2. jobs'[j].status = "serving" => jobs'[j].result BY <1>1 DEF ResultsKept, ResultInv, StatusOf
  <1>3. ASSUME jobs[j].result
        PROVE  j \in ready' /\ jobs'[j].status \notin {"absent", "queued"}
    BY <1>3 DEF ResultInv, StatusOf, ModalKept, JobsKept, InQueue
  <1>4. ASSUME jobs[j].result, NEW w \in Worker PROVE slot'[w].job # j
    BY <1>4, NoneAssumption DEF ResultInv, SlotsKeep
  <1> QED BY <1>1, <1>2, <1>3, <1>4

LEMMA RecKept ==
    ASSUME IInv, NEW w \in Worker, RecDown(rec[w]), ModalKept, \A j \in Job : jobs[j].result => jobs'[j].result,
           rec'[w] = rec[w]
    PROVE  RecDown(rec[w])'
  <1>1. rec[w] \in RecState BY DEF IInv, RInv, ReconcilersTypeOK
  <1>2. /\ rec[w].engs \subseteq Engine /\ rec[w].eng \subseteq Engine /\ rec[w].jobs \subseteq Job
    BY <1>1 DEF RecState
  <1>3. \A e \in rec'[w].engs : Known(e)' BY DEF RecDown, Known, ModalKept
  <1>4. Attaching(rec[w])' => \A j \in rec'[w].jobs : jobs'[j].result BY <1>2 DEF RecDown, Attaching
  <1>5. rec'[w].pc = "expire" => \A e \in rec'[w].eng : e[1] = rec'[w].job /\ Known(e)'
    BY DEF RecDown, Known, ModalKept
  <1>6. rec'[w].pc = "drop" => \A e \in rec'[w].eng : Stopped(e)' BY <1>2 DEF RecDown, Stopped, ModalKept
  <1> QED BY <1>3, <1>4, <1>5, <1>6 DEF RecDown

LEMMA CallKept ==
    ASSUME IInv, NEW c \in Call, CallDown(call[c]), ModalKept, \A j \in Job : jobs[j].result => jobs'[j].result,
           \A e \in registered' \ registered : ~jobs[e[1]].result,
           call'[c] = call[c]
    PROVE  CallDown(call[c])'
  <1>1. call[c] \in CallState BY DEF IInv, CallsTypeOK
  <1>2. call[c].engs \subseteq Engine BY <1>1 DEF CallState
  <1>3. call'[c].pc \in {"find", "stop_serving", "unregister"} =>
          /\ call'[c].job \in Job /\ jobs'[call'[c].job].result
          /\ \A e \in call'[c].engs : e[1] = call'[c].job
    BY DEF CallDown
  <1>4. call'[c].pc = "unregister" =>
           code'[EngineSandbox(call'[c].job)] \in ExitCode \/ call'[c].engs \cap registered' = {}
    BY DEF CallDown, ModalKept, Exited
  <1>5. call'[c].pc \in {"siblings", "stop_group", "stop_sandbox"} =>
           \A e \in call'[c].engs : e[1] = call'[c].job /\ Known(e)'
    BY DEF CallDown, Known, ModalKept
  <1>6. call'[c].pc \in {"drop_group", "drop"} => \A e \in call'[c].engs : Down(e)'
    BY <1>2 DEF CallDown, ModalKept
  <1>7. call'[c].pc \in {"siblings", "stop_group"} => \A e, f \in call'[c].engs : e = f
    BY DEF CallDown
  <1> QED BY <1>3, <1>4, <1>5, <1>6, <1>7 DEF CallDown, Exited

-----------------------------------------------------------------------------
(* One step of a slot.  All but three leave rows' results and registry.    *)

SlotOthers(w) == \A v \in Worker \ {w} : slot'[v] = slot[v]

LEMMA SlotQuiet ==
    ASSUME IInv, UInv, NEW w \in Worker, SlotNext(w), ~Claim(w), ~RegisterGroup(w), ~Serve(w)
    PROVE  Kept /\ SlotReady(slot[w])' /\ SlotOthers(w)
  <1>t. /\ SandboxesTypeOK /\ Born /\ JobsType
        /\ slot \in [Worker -> SlotState] /\ slot[w] \in SlotState
    BY RowsTyped DEF IInv, WInv, WorkersTypeOK, UInv, ReadyInv, Born
  <1>r. SlotReady(slot[w]) BY DEF UInv, ReadyInv, SlotReady
  <1>m. ASSUME UNCHANGED modalVars PROVE ModalKept BY <1>m, <1>t, ModalSame
  <1>j. ASSUME UNCHANGED <<jobs, registered>>, ModalKept PROVE Kept
    BY <1>j, ResultsSame, RegistrySame DEF Kept
  <1>1. CASE Begin(w)
    <2>1. SlotReady(slot[w])' /\ SlotOthers(w)
      BY <1>1, <1>t DEF Begin, RaiseCancelled, Goto, SlotReady, SlotOthers, SlotState
    <2> QED BY <1>1, <1>m, <1>j, <2>1 DEF Begin, dbVars
  <1>2. CASE CreatePrep(w)
    <2>1. SlotReady(slot[w])' /\ SlotOthers(w) BY <1>2, <1>t DEF CreatePrep, Goto, SlotReady, SlotOthers, SlotState
    <2> QED BY <1>2, <1>t, <1>j, <2>1, CreateKeeps DEF CreatePrep, dbVars
  <1>3. CASE LogPrep(w)
    <2>1. SlotReady(slot[w])' /\ SlotOthers(w) BY <1>3, <1>t DEF LogPrep, Goto, SlotReady, SlotOthers, SlotState
    <2> QED BY <1>3, <1>m, <1>j, <2>1 DEF LogPrep
  <1>4. CASE PrepDone(w)
    <2>1. SlotReady(slot[w])' /\ SlotOthers(w)
      BY <1>4, <1>t DEF PrepDone, RaiseCancelled, Goto, SlotReady, SlotOthers, SlotState
    <2> QED BY <1>4, <1>t, <1>j, <2>1, TerminateKeeps DEF PrepDone, dbVars
  <1>5. CASE PrepRaises(w)
    <2>1. SlotReady(slot[w])' /\ SlotOthers(w) BY <1>5, <1>t DEF PrepRaises, Raise, SlotReady, SlotOthers, SlotState
    <2> QED BY <1>5, <1>t, <1>j, <2>1, TerminateKeeps DEF PrepRaises, dbVars
  <1>6. CASE CreateEngine(w)
    <2>1. SlotReady(slot[w])' /\ SlotOthers(w) BY <1>6, <1>t DEF CreateEngine, Goto, SlotReady, SlotOthers, SlotState
    <2> QED BY <1>6, <1>t, <1>j, <2>1, CreateKeeps DEF CreateEngine, dbVars
  <1>7. CASE LogEngine(w)
    <2>1. SlotReady(slot[w])' /\ SlotOthers(w) BY <1>7, <1>t DEF LogEngine, Goto, SlotReady, SlotOthers, SlotState
    <2> QED BY <1>7, <1>m, <1>j, <2>1 DEF LogEngine
  <1>8. CASE CheckRaises(w)
    <2>1. SlotReady(slot[w])' /\ SlotOthers(w)
      BY <1>8, <1>t DEF CheckRaises, RaiseCancelled, SlotReady, SlotOthers, SlotState
    <2> QED BY <1>8, <1>m, <1>j, <2>1 DEF CheckRaises, dbVars
  <1>9. CASE WaitReturns(w)
    <2>1. SlotReady(slot[w])' /\ SlotOthers(w)
      BY <1>9, <1>t DEF WaitReturns, Goto, SlotReady, SlotOthers, SlotState, JobOf, modalVars
    <2> QED BY <1>9, <1>m, <1>j, <2>1 DEF WaitReturns, dbVars
  <1>10. CASE WaitExited(w)
    <2>1. SlotReady(slot[w])' /\ SlotOthers(w) BY <1>10, <1>t DEF WaitExited, Raise, SlotReady, SlotOthers, SlotState
    <2> QED BY <1>10, <1>m, <1>j, <2>1 DEF WaitExited, dbVars
  <1>11. CASE Fails(w)
    <2>1. SlotReady(slot[w])' /\ SlotOthers(w) BY <1>11, <1>t DEF Fails, Raise, SlotReady, SlotOthers, SlotState
    <2> QED BY <1>11, <1>m, <1>j, <2>1 DEF Fails, dbVars
  <1>12. CASE Except(w)
    <2>1. SlotReady(slot[w])' /\ SlotOthers(w) BY <1>12, <1>t DEF Except, Goto, SlotReady, SlotOthers, SlotState
    <2> QED BY <1>12, <1>m, <1>j, <2>1 DEF Except, dbVars
  <1>13. CASE Cleanup(w)
    <2>1. SlotReady(slot[w])' /\ SlotOthers(w) BY <1>13, <1>t DEF Cleanup, SlotReady, SlotOthers, SlotState
    <2> QED BY <1>13, <1>m, <1>j, <2>1 DEF Cleanup, dbVars
  <1>14. CASE KillOne(w)
    <2>1. PICK s \in slot[w].todo : /\ KillUnlessSpared(JobOf(w), s, slot[w].spare) \/ UNCHANGED modalVars
                                    /\ slot' = [slot EXCEPT ![w].todo = @ \ {s}]
      BY <1>14 DEF KillOne
    <2>2. ModalKept BY <1>t, <1>m, <2>1, KillUnlessSparedKeeps
    <2>3. SlotReady(slot[w])' /\ SlotOthers(w) BY <1>14, <1>t, <2>1 DEF KillOne, At, SlotReady, SlotOthers, SlotState
    <2> QED BY <1>14, <1>j, <2>2, <2>3 DEF KillOne, dbVars
  <1>15. CASE KillDone(w)
    <2>1. SlotReady(slot[w])' /\ SlotOthers(w) BY <1>15, <1>t DEF KillDone, Goto, SlotReady, SlotOthers, SlotState
    <2> QED BY <1>15, <1>m, <1>j, <2>1 DEF KillDone, dbVars
  <1>16. CASE CloseJob(w)
    <2>1. SlotReady(slot[w])' /\ SlotOthers(w)
      BY <1>16, <1>t DEF CloseJob, Release, IdleSlot, SlotReady, SlotOthers
    <2>2. slot[w].outcome # "serving" BY <1>t DEF SlotState, Outcome
    <2>3. ResultsKept BY <1>16, <1>t, <2>2, SetStatusResults DEF CloseJob
    <2> QED BY <1>16, <1>m, <2>1, <2>3, RegistrySame DEF CloseJob, Kept
  <1> QED
    BY <1>1, <1>2, <1>3, <1>4, <1>5, <1>6, <1>7, <1>8, <1>9, <1>10, <1>11, <1>12, <1>13, <1>14, <1>15, <1>16
    DEF SlotNext

(* What every step guarantees: the rest of UInv follows component by       *)
(* component.                                                              *)
UGoal ==
    /\ ModalKept
    /\ \A j \in Job : jobs[j].result => jobs'[j].result
    /\ \A e \in registered' \ registered : ~jobs[e[1]].result
    /\ \A e \in registered \ registered' : Stopped(e)
    /\ ReadyInv'
    /\ ResultInv'

LEMMA QuietStep ==
    ASSUME IInv, UInv, Kept, JobsKept, SlotsKeep, \A w \in Worker : SlotReady(slot[w])'
    PROVE  UGoal
  <1>1. ModalKept /\ ResultsKept /\ RegistryKept BY DEF Kept
  <1>2. ReadyInv' BY <1>1, ReadyKept DEF UInv
  <1>3. ResultInv' BY <1>1, ResultKept DEF UInv
  <1> QED BY <1>1, <1>2, <1>3 DEF UGoal, ResultsKept, RegistryKept

LEMMA SlotReadyKept ==
    ASSUME ReadyInv, ModalKept, NEW v \in Worker, slot'[v] = slot[v] PROVE SlotReady(slot[v])'
  BY DEF ReadyInv, ModalKept, SlotReady

LEMMA SlotUStep == ASSUME IInv, UInv, NEW w \in Worker, SlotNext(w) PROVE UGoal
  <1>t. /\ SandboxesTypeOK /\ Born /\ JobsType
        /\ slot \in [Worker -> SlotState] /\ slot[w] \in SlotState
        /\ SlotOK(slot[w])
    BY RowsTyped DEF IInv, WInv, WorkersTypeOK, SlotInv, UInv, ReadyInv, Born
  <1>1. CASE Claim(w)
    <2>1. ModalKept /\ RegistryKept BY <1>1, <1>t, ModalSame, RegistrySame DEF Claim
    <2>2. PICK j \in Job : ClaimRow(j, w) /\ slot' = [slot EXCEPT ![w].pc = "claimed", ![w].job = j]
      BY <1>1 DEF Claim
    <2>3. ResultsKept BY <1>t, <2>2, RowsResults
    <2>4. SlotReady(slot[w])' BY <1>t, <2>2 DEF SlotReady, SlotState
    <2>5. \A v \in Worker \ {w} : slot'[v] = slot[v] BY <1>t, <2>2
    <2>6. ReadyInv' BY <2>1, <2>4, <2>5, SlotReadyKept, ReadyKept DEF UInv
    <2>7. ~jobs[j].result BY <2>2 DEF ClaimRow, OldestQueued, UInv, ResultInv, StatusOf
    <2>8. jobs'[j].status = "running" BY <1>t, <2>2 DEF ClaimRow, JobsType, Row
    <2>9. \A i \in Job \ {j} : jobs'[i] = jobs[i] BY <1>t, <2>2 DEF ClaimRow, JobsType
    <2>10. slot'[w].job = j BY <1>t, <2>2 DEF SlotState
    <2>11. ~jobs'[j].result BY <2>3, <2>7 DEF ResultsKept
    <2>12. ASSUME NEW i \in Job \ {j}
           PROVE  /\ jobs'[i].result => /\ i \in ready'
                                        /\ jobs'[i].status \notin {"absent", "queued"}
                                        /\ \A v \in Worker : slot'[v].job # i
                  /\ jobs'[i].status = "serving" => jobs'[i].result
      BY <2>1, <2>5, <2>9, <2>10 DEF UInv, ResultInv, StatusOf, ModalKept
    <2>13. ResultInv' BY <2>8, <2>11, <2>12 DEF ResultInv, StatusOf
    <2> QED BY <2>1, <2>3, <2>6, <2>13 DEF UGoal, ResultsKept, RegistryKept
  <1>2. CASE RegisterGroup(w)
    <2>1. ModalKept /\ ResultsKept BY <1>2, <1>t, ModalSame, ResultsSame DEF RegisterGroup
    <2>2. /\ slot[w].job \in Job /\ slot[w].job \in ready
          /\ registered' = registered \cup {<<slot[w].job, slot[w].next>>}
      BY <1>2, <1>t DEF RegisterGroup, At, SlotOK, JobOf, UInv, ReadyInv
    <2>3. /\ slot'[w].job = slot[w].job
          /\ \A v \in Worker \ {w} : slot'[v] = slot[v]
      BY <1>2, <1>t DEF RegisterGroup, SlotState
    <2>4. ~jobs[slot[w].job].result BY <2>2 DEF UInv, ResultInv
    <2>5. \A v \in Worker : SlotReady(slot[v])'
      BY <2>1, <2>2, <2>3, SlotReadyKept DEF SlotReady, UInv, ModalKept
    <2>6. \A e \in registered' : e[1] \in ready' BY <2>1, <2>2 DEF ModalKept, UInv, ReadyInv, Known
    <2>7. ReadyInv' BY <2>1, <2>5, <2>6 DEF ReadyInv, ModalKept, SlotReady, Known
    <2>8. JobsKept BY <1>2, <1>t, JobsFrame DEF RegisterGroup
    <2>9. SlotsKeep BY <2>3 DEF SlotsKeep
    <2>10. ResultInv' BY <2>1, <2>8, <2>9, ResultKept DEF UInv
    <2> QED BY <2>1, <2>2, <2>4, <2>7, <2>10 DEF UGoal, ResultsKept
  <1>3. CASE Serve(w)
    <2> DEFINE j == slot[w].job
    <2>1. ModalKept /\ RegistryKept BY <1>3, <1>t, ModalSame, RegistrySame DEF Serve
    <2>2. j \in Job /\ j \in ready /\ j # NoJob
      BY <1>3, <1>t, NoneAssumption DEF Serve, At, SlotOK, UInv, ReadyInv
    <2>3. jobs' = [jobs EXCEPT ![j].status = "serving", ![j].result = TRUE] BY <1>3 DEF Serve, JobOf
    <2>4. slot'[w].job = NoJob /\ slot'[w].pc = "idle" /\ \A v \in Worker \ {w} : slot'[v] = slot[v]
      BY <1>3, <1>t DEF Serve, Release, IdleSlot
    <2>5. \A v \in Worker : SlotReady(slot[v])' BY <2>1, <2>4, SlotReadyKept DEF SlotReady, UInv
    <2>6. ReadyInv' BY <2>1, <2>5, ReadyKept DEF UInv
    <2>7. jobs'[j].result /\ jobs'[j].status = "serving" BY <1>t, <2>2, <2>3 DEF JobsType, Row
    <2>8. \A i \in Job \ {j} : jobs'[i] = jobs[i] BY <1>t, <2>3 DEF JobsType
    <2>9. \A v \in Worker : slot'[v].job # j
      <3>1. \A v \in Worker : slot[v].job = j => jobs[j].worker = v BY <2>2 DEF IInv, ClaimedOnce, JobOf
      <3> QED BY <2>2, <2>4, <3>1
    <2>10. ASSUME NEW i \in Job \ {j}
           PROVE  /\ jobs'[i].result => /\ i \in ready'
                                        /\ jobs'[i].status \notin {"absent", "queued"}
                                        /\ \A v \in Worker : slot'[v].job # i
                  /\ jobs'[i].status = "serving" => jobs'[i].result
      BY <2>1, <2>4, <2>8, NoneAssumption DEF UInv, ResultInv, StatusOf, ModalKept
    <2>11. j \in ready' BY <2>1, <2>2 DEF ModalKept
    <2>12. ResultInv' BY <2>7, <2>9, <2>10, <2>11 DEF ResultInv, StatusOf
    <2> QED BY <2>1, <2>6, <2>7, <2>8, <2>12 DEF UGoal, RegistryKept
  <1>4. CASE ~Claim(w) /\ ~RegisterGroup(w) /\ ~Serve(w)
    <2>1. Kept /\ SlotReady(slot[w])' /\ SlotOthers(w) BY <1>4, SlotQuiet
    <2>2. JobsKept /\ SlotsKeep BY <1>4, SlotStep DEF SlotGoal, IInv
    <2>3. \A v \in Worker : SlotReady(slot[v])' BY <2>1, SlotReadyKept DEF Kept, SlotOthers, UInv
    <2> QED BY <2>1, <2>2, <2>3, QuietStep
  <1> QED BY <1>1, <1>2, <1>3, <1>4

-----------------------------------------------------------------------------
(* One step of a reconciler.                                               *)

RecOthers(w) == \A v \in Worker \ {w} : rec'[v] = rec[v]

LEMMA RecQuiet ==
    ASSUME IInv, UInv, NEW w \in Worker, RecNext(w)
    PROVE  Kept /\ RecDown(rec[w])' /\ RecOthers(w)
  <1>t. /\ SandboxesTypeOK /\ Born /\ JobsType
        /\ rec \in [Worker -> RecState] /\ rec[w] \in RecState
    BY RowsTyped DEF IInv, RInv, ReconcilersTypeOK, UInv, ReadyInv, Born
  <1>e. rec[w].engs \subseteq Engine /\ rec[w].eng \subseteq Engine /\ rec[w].jobs \subseteq Job
    BY <1>t DEF RecState
  <1>d. RecDown(rec[w]) BY DEF UInv
  <1>f. RecOK(rec[w]) BY DEF IInv, RInv, RecInv
  <1>g. registered \subseteq Engine BY DEF IInv, StoreTypeOK
  <1>m. ASSUME UNCHANGED modalVars PROVE ModalKept BY <1>m, <1>t, ModalSame
  <1>k. ASSUME UNCHANGED <<modalVars, dbVars>> PROVE Kept
    BY <1>k, <1>m, ResultsSame, RegistrySame DEF Kept, dbVars
  <1>1. CASE ReattachEngines(w)
    <2>1. RecOthers(w) BY <1>1, <1>t DEF ReattachEngines, RecOthers
    <2>2. RecDown(rec[w])'
      BY <1>1, <1>t DEF ReattachEngines, RecDown, Attaching, RecState, UInv, ReadyInv, Known, modalVars
    <2> QED BY <1>1, <1>k, <2>1, <2>2 DEF ReattachEngines
  <1>2. CASE ReattachList(w)
    <2>1. RecOthers(w) BY <1>2, <1>t DEF ReattachList, RecOthers
    <2>2. RecDown(rec[w])'
      BY <1>2, <1>t, <1>d DEF ReattachList, RecDown, Attaching, RecState, Known, modalVars, dbVars
    <2> QED BY <1>2, <1>k, <2>1, <2>2 DEF ReattachList
  <1>3. CASE AttachKeep(w)
    <2>1. RecOthers(w) BY <1>3, <1>t DEF AttachKeep, RecOthers
    <2>2. RecDown(rec[w])'
      BY <1>3, <1>t, <1>d DEF AttachKeep, RecAt, RecDown, Attaching, RecState, Known, modalVars, dbVars
    <2> QED BY <1>3, <1>k, <2>1, <2>2 DEF AttachKeep
  <1>4. CASE AttachLost(w)
    <2>1. PICK j \in rec[w].jobs :
             /\ SetStatus(j, "serving")
             /\ rec' = [rec EXCEPT ![w].pc = "finish", ![w].jobs = @ \ {j}, ![w].job = j, ![w].back = "attach",
                                   ![w].outcome = EndStatus(code[EngineSandbox(j)])]
      BY <1>4 DEF AttachLost
    <2>2. jobs[j].result BY <1>4, <1>d DEF AttachLost, RecAt, RecDown, Attaching
    <2>3. ResultsKept BY <1>t, <2>1, <2>2, SetStatusResults
    <2>4. RecOthers(w) BY <1>t, <2>1 DEF RecOthers
    <2>5. rec'[w].pc = "finish" /\ rec'[w].jobs = rec[w].jobs \ {j} /\ rec'[w].engs = rec[w].engs
      BY <1>t, <2>1 DEF RecState
    <2>6. \A i \in rec'[w].jobs : jobs'[i].result
      BY <1>4, <1>d, <1>e, <2>3, <2>5 DEF AttachLost, RecAt, RecDown, Attaching, ResultsKept
    <2>7. RecDown(rec[w])' BY <1>4, <1>d, <2>5, <2>6 DEF AttachLost, RecDown, Attaching, Known, modalVars
    <2> QED BY <1>4, <1>m, <2>3, <2>4, <2>7, RegistrySame DEF AttachLost, Kept
  <1>5. CASE AttachDone(w) \/ TickDone(w)
    <2>1. RecOthers(w) BY <1>5, <1>t DEF AttachDone, TickDone, RecGoto, RecOthers
    <2>2. RecDown(rec[w])'
      BY <1>5, <1>t, <1>d DEF AttachDone, TickDone, RecGoto, RecDown, Attaching, RecState, Known, modalVars
    <2> QED BY <1>5, <1>k, <2>1, <2>2 DEF AttachDone, TickDone
  <1>6. CASE TickList(w)
    <2>1. RecOthers(w) BY <1>6, <1>t DEF TickList, RecOthers
    <2>2. RecDown(rec[w])'
      BY <1>6, <1>t DEF TickList, RecDown, Attaching, RecState, UInv, ReadyInv, Known, modalVars
    <2> QED BY <1>6, <1>k, <2>1, <2>2 DEF TickList
  <1>7. CASE PollExited(w)
    <2>1. PICK e \in rec[w].engs :
             /\ Exited(SandboxOf(e))
             /\ rec' = [rec EXCEPT ![w].pc = "drop", ![w].engs = @ \ {e}, ![w].eng = {e}, ![w].job = e[1],
                                   ![w].outcome = EndStatus(code[SandboxOf(e)])]
      BY <1>7 DEF PollExited
    <2>2. Down(e) BY <1>d, <2>1 DEF RecDown, Down, ServerUp, Running, Exited, ExitCode
    <2>3. rec'[w].pc = "drop" /\ rec'[w].engs = rec[w].engs \ {e} /\ rec'[w].eng = {e}
      BY <1>t, <2>1 DEF RecState
    <2>4. Stopped(e)' BY <1>7, <1>m, <1>e, <2>2 DEF PollExited, ModalKept, Stopped
    <2>5. RecOthers(w) BY <1>t, <2>1 DEF RecOthers
    <2>6. RecDown(rec[w])' BY <1>7, <1>d, <2>3, <2>4 DEF PollExited, RecDown, Attaching, Known, modalVars
    <2> QED BY <1>7, <1>k, <2>5, <2>6 DEF PollExited
  <1>8. CASE PollExpired(w)
    <2>1. PICK e \in rec[w].engs :
             rec' = [rec EXCEPT ![w].pc = "expire", ![w].engs = @ \ {e}, ![w].eng = {e}, ![w].job = e[1],
                                ![w].outcome = "timeout"]
      BY <1>8 DEF PollExpired
    <2>2. /\ rec'[w].pc = "expire" /\ rec'[w].engs = rec[w].engs \ {e} /\ rec'[w].eng = {e}
          /\ rec'[w].job = e[1]
      BY <1>t, <2>1 DEF RecState
    <2>3. RecOthers(w) BY <1>t, <2>1 DEF RecOthers
    <2>4. RecDown(rec[w])' BY <1>8, <1>d, <2>1, <2>2 DEF PollExpired, RecDown, Attaching, Known, modalVars
    <2> QED BY <1>8, <1>k, <2>3, <2>4 DEF PollExpired
  <1>9. CASE PollFine(w)
    <2>1. RecOthers(w) BY <1>9, <1>t DEF PollFine, RecOthers
    <2>2. RecDown(rec[w])'
      BY <1>9, <1>t, <1>d DEF PollFine, RecAt, RecDown, Attaching, RecState, Known, modalVars
    <2> QED BY <1>9, <1>k, <2>1, <2>2 DEF PollFine
  <1>10. CASE Expire(w)
    <2>1. Answers => Terminate(EngineSandbox(rec[w].job)) BY <1>10 DEF Expire, Answers
    <2>2. ModalKept BY <1>10, <1>t, <1>m, TerminateKeeps DEF Expire
    <2>3. rec'[w].pc = "drop" /\ rec'[w].engs = rec[w].engs /\ rec'[w].eng = rec[w].eng
      BY <1>10, <1>t DEF Expire, RecGoto, RecState
    <2>4. ASSUME Answers, NEW e \in rec[w].eng PROVE Down(e)'
      <3>1. e[1] = rec[w].job /\ e[1] \in ready BY <1>10, <1>d DEF Expire, RecAt, RecDown, Known
      <3>2. code'[EngineSandbox(e[1])] \in ExitCode BY <1>t, <2>1, <2>4, <3>1, TerminateEnds
      <3> QED BY <2>2, <3>1, <3>2 DEF Down, Known, ServerUp, Running, ExitCode, SandboxOf, ModalKept
    <2>5. RecOthers(w) BY <1>10, <1>t DEF Expire, RecGoto, RecOthers
    <2>6. RecDown(rec[w])' BY <1>d, <2>2, <2>3, <2>4 DEF RecDown, Stopped, Attaching, Known, ModalKept
    <2> QED BY <1>10, <2>2, <2>5, <2>6, ResultsSame, RegistrySame DEF Expire, Kept, dbVars
  <1>11. CASE Drop(w)
    <2>1. registered' = registered \ rec[w].eng /\ \A e \in rec[w].eng : Stopped(e)
      BY <1>11, <1>d DEF Drop, RecAt, RecDown
    <2>2. RecOthers(w) BY <1>11, <1>t DEF Drop, RecOthers
    <2>3. RecDown(rec[w])' BY <1>11, <1>t, <1>d DEF Drop, RecDown, Attaching, RecState, Known, modalVars
    <2>4. RegistryKept BY <2>1 DEF RegistryKept
    <2> QED BY <1>11, <1>m, <2>2, <2>3, <2>4, ResultsSame DEF Drop, Kept
  <1>12. CASE RecFinishRead(w)
    <2>1. RecOthers(w) BY <1>12, <1>t DEF RecFinishRead, RecBack, RecGoto, RecOthers
    <2>2. RecDown(rec[w])'
      BY <1>12, <1>t, <1>d
      DEF RecFinishRead, RecBack, RecGoto, RecAt, RecDown, Attaching, RecState, Known, modalVars, dbVars
    <2> QED BY <1>12, <1>k, <2>1, <2>2 DEF RecFinishRead
  <1>13. CASE RecFinishWrite(w)
    <2>1. rec[w].outcome \in TERMINAL BY <1>13, <1>f DEF RecFinishWrite, RecAt, RecOK
    <2>2. rec[w].outcome # "serving" BY <2>1 DEF TERMINAL
    <2>3. ResultsKept BY <1>13, <1>t, <2>2, SetStatusResults DEF RecFinishWrite
    <2>4. RecOthers(w) BY <1>13, <1>t DEF RecFinishWrite, RecBack, RecOthers
    <2>5. /\ rec'[w].pc = rec[w].back /\ rec[w].back \in {"attach", "tick"}
          /\ rec'[w].engs = rec[w].engs /\ rec'[w].jobs = rec[w].jobs /\ rec'[w].back = rec[w].back
      BY <1>13, <1>t DEF RecFinishWrite, RecBack, RecState
    <2>6. RecDown(rec[w])'
      BY <1>13, <1>d, <1>e, <2>3, <2>5
      DEF RecFinishWrite, RecAt, RecDown, Attaching, ResultsKept, Known, modalVars
    <2> QED BY <1>13, <1>m, <2>3, <2>4, <2>6, RegistrySame DEF RecFinishWrite, Kept
  <1>14. CASE TickRaises(w) \/ ReapDone(w)
    <2>1. RecOthers(w) BY <1>14, <1>t DEF TickRaises, ReapDone, RecOthers
    <2>2. RecDown(rec[w])' BY <1>14, <1>t DEF TickRaises, ReapDone, OffRec, RecDown, Attaching
    <2> QED BY <1>14, <1>k, <2>1, <2>2 DEF TickRaises, ReapDone
  <1>15. CASE ReapList(w) \/ ReapOwn(w)
    <2>1. RecOthers(w) BY <1>15, <1>t DEF ReapList, ReapOwn, RecOthers
    <2>2. RecDown(rec[w])'
      BY <1>15, <1>t, <1>d DEF ReapList, ReapOwn, RecAt, RecDown, Attaching, RecState, Known, modalVars
    <2> QED BY <1>15, <1>k, <2>1, <2>2 DEF ReapList, ReapOwn
  <1>16. CASE ReapJob(w)
    <2>1. RecOthers(w) BY <1>16, <1>t DEF ReapJob, RecOthers
    <2>2. RecDown(rec[w])' BY <1>16, <1>t, <1>d DEF ReapJob, RecDown, Attaching, RecState, Known, modalVars
    <2> QED BY <1>16, <1>k, <2>1, <2>2 DEF ReapJob
  <1>17. CASE ReapKill(w)
    <2>1. PICK s \in rec[w].todo : /\ KillUnlessSpared(rec[w].job, s, rec[w].spare) \/ UNCHANGED modalVars
                                   /\ rec' = [rec EXCEPT ![w].todo = @ \ {s}]
      BY <1>17 DEF ReapKill
    <2>2. ModalKept BY <1>t, <1>m, <2>1, KillUnlessSparedKeeps
    <2>3. RecOthers(w) BY <1>t, <2>1 DEF RecOthers
    <2>4. RecDown(rec[w])'
      BY <1>17, <1>t, <1>d, <2>1, <2>2 DEF ReapKill, RecAt, RecDown, Attaching, RecState, Known, ModalKept
    <2> QED BY <1>17, <2>2, <2>3, <2>4, ResultsSame, RegistrySame DEF ReapKill, Kept, dbVars
  <1>18. CASE ReapWrite(w)
    <2>1. ResultsKept BY <1>18, <1>t, SetStatusResults DEF ReapWrite
    <2>2. RecOthers(w) BY <1>18, <1>t DEF ReapWrite, RecBack, RecOthers
    <2>3. RecDown(rec[w])' BY <1>18, <1>t, <1>d DEF ReapWrite, RecBack, RecDown, Attaching, RecState, Known, modalVars
    <2> QED BY <1>18, <1>m, <2>1, <2>2, <2>3, RegistrySame DEF ReapWrite, Kept
  <1>19. CASE PollRaises(w)
    <2>1. PICK e \in rec[w].engs :
             rec' = [rec EXCEPT ![w].pc = "drop", ![w].engs = @ \ {e}, ![w].eng = {e}, ![w].job = e[1],
                                ![w].outcome = "failed"]
      BY <1>19 DEF PollRaises
    <2>2. rec'[w].pc = "drop" /\ rec'[w].engs = rec[w].engs \ {e} BY <1>t, <2>1 DEF RecState
    <2>3. ~Answers BY <1>19 DEF PollRaises, Answers
    <2>4. RecOthers(w) BY <1>t, <2>1 DEF RecOthers
    <2>5. RecDown(rec[w])'
      BY <1>19, <1>d, <2>2, <2>3 DEF PollRaises, RecDown, Stopped, Attaching, Known, modalVars
    <2> QED BY <1>19, <1>k, <2>4, <2>5 DEF PollRaises
  <1> QED
    BY <1>1, <1>2, <1>3, <1>4, <1>5, <1>6, <1>7, <1>8, <1>9, <1>10, <1>11, <1>12, <1>13, <1>14, <1>15,
       <1>16, <1>17, <1>18, <1>19 DEF RecNext

-----------------------------------------------------------------------------
(* One step of a call.                                                     *)

CallOthers(c) == \A d \in Call \ {c} : call'[d] = call[d]

LEMMA CallQuiet ==
    ASSUME IInv, UInv, NEW c \in Call, CancelNext(c) \/ StopNext(c) \/ FinishNext(c) \/ CallDies(c)
    PROVE  Kept /\ CallDown(call[c])' /\ CallOthers(c)
  <1>t. /\ SandboxesTypeOK /\ Born /\ JobsType
        /\ call \in [Call -> CallState] /\ call[c] \in CallState
    BY RowsTyped DEF IInv, CallsTypeOK, UInv, ReadyInv, Born
  <1>e. call[c].engs \subseteq Engine BY <1>t DEF CallState
  <1>d. CallDown(call[c]) BY DEF UInv
  <1>g. registered \subseteq Engine BY DEF IInv, StoreTypeOK
  <1>r. \A j \in Job : jobs[j].result => j \in ready BY DEF UInv, ResultInv
  <1>m. ASSUME UNCHANGED modalVars PROVE ModalKept BY <1>m, <1>t, ModalSame
  <1>k. ASSUME UNCHANGED <<modalVars, dbVars>> PROVE Kept
    BY <1>k, <1>m, ResultsSame, RegistrySame DEF Kept, dbVars
  <1>q. ASSUME call'[c].pc \notin {"find", "stop_serving", "unregister", "siblings", "stop_group",
                                   "stop_sandbox", "drop_group", "drop"}
        PROVE  CallDown(call[c])'
    BY <1>q DEF CallDown
  <1>1. CASE CancelGet(c)
    <2>1. PICK j \in Job :
             call' = [call EXCEPT ![c].job = j,
                                  ![c].engs = IF StatusOf(j) = "serving" THEN EnginesOf(j) ELSE {},
                                  ![c].pc = IF Closed(j) THEN "done"
                                            ELSE IF StatusOf(j) = "serving" THEN "find"
                                            ELSE "withdraw"]
      BY <1>1 DEF CancelGet
    <2>2. CallOthers(c) BY <1>t, <2>1 DEF CallOthers
    <2>3. CASE ~Closed(j) /\ StatusOf(j) = "serving"
      <3>1. call'[c].pc = "find" /\ call'[c].job = j /\ call'[c].engs = EnginesOf(j)
        BY <1>t, <2>1, <2>3 DEF CallState
      <3>2. jobs'[j].result BY <1>1, <2>3 DEF CancelGet, dbVars, UInv, ResultInv
      <3>3. \A e \in EnginesOf(j) : e[1] = j BY DEF EnginesOf
      <3>4. CallDown(call[c])' BY <3>1, <3>2, <3>3 DEF CallDown
      <3> QED BY <1>1, <1>k, <2>2, <3>4 DEF CancelGet
    <2>4. CASE ~(~Closed(j) /\ StatusOf(j) = "serving")
      <3>1. call'[c].pc \in {"done", "withdraw"} BY <1>t, <2>1, <2>4 DEF CallState
      <3> QED BY <1>1, <1>k, <1>q, <2>2, <3>1 DEF CancelGet
    <2> QED BY <2>3, <2>4
  <1>2. CASE CancelWithdraw(c)
    <2>1. ResultsKept
      BY <1>2, <1>t, SetStatusResults, ResultsSame DEF CancelWithdraw, CancelQueued
    <2>2. CallOthers(c) /\ call'[c].pc \in {"done", "flag"}
      BY <1>2, <1>t DEF CancelWithdraw, CallGoto, CallOthers, CallState
    <2> QED BY <1>2, <1>m, <1>q, <2>1, <2>2, RegistrySame DEF CancelWithdraw, Kept
  <1>3. CASE CancelFlag(c)
    <2>1. ResultsKept BY <1>3, <1>t, RowsResults DEF CancelFlag
    <2>2. CallOthers(c) /\ call'[c].pc = "snapshot"
      BY <1>3, <1>t DEF CancelFlag, CallGoto, CallOthers, CallState
    <2> QED BY <1>3, <1>m, <1>q, <2>1, <2>2, RegistrySame DEF CancelFlag, Kept
  <1>4. CASE CancelSnapshot(c)
    <2>1. CallOthers(c) /\ call'[c].pc = "killing" BY <1>4, <1>t DEF CancelSnapshot, CallOthers, CallState
    <2> QED BY <1>4, <1>k, <1>q, <2>1 DEF CancelSnapshot
  <1>5. CASE CancelKill(c)
    <2>1. CallOthers(c) /\ call'[c].pc \in {"killing", "flagged"}
      BY <1>5, <1>t DEF CancelKill, CallAt, CallGoto, CallOthers, CallState
    <2>2. ModalKept BY <1>5, <1>t, <1>m, KillUnlessSparedKeeps, ModalSame DEF CancelKill
    <2> QED BY <1>5, <1>q, <2>1, <2>2, ResultsSame, RegistrySame DEF CancelKill, Kept, dbVars
  <1>6. CASE CancelFind(c)
    <2>1. /\ CallOthers(c) /\ call'[c].job = call[c].job /\ call'[c].engs = call[c].engs
          /\ call'[c].pc = IF call[c].engs \cap registered # {} THEN "stop_serving" ELSE "unregister"
      BY <1>6, <1>t DEF CancelFind, CallGoto, CallOthers, CallState
    <2>2. CallDown(call[c])' BY <1>6, <1>d, <2>1 DEF CancelFind, CallAt, CallDown, dbVars
    <2> QED BY <1>6, <1>k, <2>1, <2>2 DEF CancelFind
  <1>7. CASE CancelStopServing(c)
    <2>1. /\ call[c].job \in ready /\ call[c].job \in Job /\ jobs[call[c].job].result
          /\ \A e \in call[c].engs : e[1] = call[c].job
      BY <1>7, <1>d, <1>r DEF CancelStopServing, CallAt, CallDown
    <2>2. code'[EngineSandbox(call[c].job)] \in ExitCode BY <1>7, <1>t, <2>1, TerminateEnds DEF CancelStopServing
    <2>3. ModalKept BY <1>7, <1>t, TerminateKeeps DEF CancelStopServing
    <2>4. /\ CallOthers(c) /\ call'[c].job = call[c].job /\ call'[c].engs = call[c].engs
          /\ call'[c].pc = "unregister"
      BY <1>7, <1>t DEF CancelStopServing, CallGoto, CallOthers, CallState
    <2>5. code'[EngineSandbox(call'[c].job)] \in ExitCode BY <2>2, <2>4
    <2>6. CallDown(call[c])' BY <1>7, <2>1, <2>4, <2>5 DEF CancelStopServing, CallDown, Exited, dbVars
    <2> QED BY <1>7, <2>3, <2>4, <2>6, ResultsSame, RegistrySame DEF CancelStopServing, Kept, dbVars
  <1>8. CASE CancelUnregister(c)
    <2>1. PICK e \in call[c].engs :
             /\ registered' = registered \ {e}
             /\ call' = [call EXCEPT ![c].engs = @ \ {e},
                                     ![c].pc = IF call[c].engs = {e} THEN "finish" ELSE @]
      BY <1>8 DEF CancelUnregister
    <2>2. /\ call[c].job \in ready /\ call[c].job \in Job /\ jobs[call[c].job].result
          /\ \A f \in call[c].engs : f[1] = call[c].job
          /\ Exited(EngineSandbox(call[c].job)) \/ call[c].engs \cap registered = {}
      BY <1>8, <1>d, <1>r DEF CancelUnregister, CallAt, CallDown
    <2>3. e \in registered => Down(e)
      BY <2>2 DEF Down, Known, ServerUp, Running, Exited, ExitCode, SandboxOf
    <2>4. RegistryKept BY <2>1, <2>3 DEF RegistryKept, Stopped
    <2>5. /\ CallOthers(c) /\ call'[c].job = call[c].job /\ call'[c].engs = call[c].engs \ {e}
          /\ call'[c].pc \in {"finish", "unregister"}
      BY <1>8, <1>t, <2>1 DEF CancelUnregister, CallAt, CallOthers, CallState
    <2>6. CallDown(call[c])' BY <1>8, <2>1, <2>2, <2>5 DEF CancelUnregister, CallDown, Exited, modalVars
    <2> QED BY <1>8, <1>m, <2>4, <2>5, <2>6, ResultsSame DEF CancelUnregister, Kept
  <1>9. CASE FinishRead(c)
    <2>1. CallOthers(c) /\ call'[c].pc \in {"done", "finish_write"}
      BY <1>9, <1>t DEF FinishRead, CallGoto, CallOthers, CallState
    <2> QED BY <1>9, <1>k, <1>q, <2>1 DEF FinishRead
  <1>10. CASE FinishWrite(c)
    <2>1. CallOthers(c) /\ call'[c].pc = "done" BY <1>10, <1>t DEF FinishWrite, CallGoto, CallOthers, CallState
    <2>2. ResultsKept BY <1>10, <1>t, SetStatusResults DEF FinishWrite
    <2> QED BY <1>10, <1>m, <1>q, <2>1, <2>2, RegistrySame DEF FinishWrite, Kept
  <1>11. CASE StopRead(c)
    <2>1. PICK e \in registered : call' = [call EXCEPT ![c].pc = "siblings", ![c].job = e[1], ![c].engs = {e}]
      BY <1>11 DEF StopRead
    <2>2. CallOthers(c) /\ call'[c].pc = "siblings" /\ call'[c].job = e[1] /\ call'[c].engs = {e}
      BY <1>t, <2>1 DEF CallOthers, CallState
    <2>3. e[1] \in ready' BY <1>11, <2>1 DEF StopRead, modalVars, UInv, ReadyInv, Known
    <2>4. CallDown(call[c])' BY <2>2, <2>3 DEF CallDown, Known
    <2> QED BY <1>11, <1>k, <2>2, <2>4 DEF StopRead
  <1>12. CASE StopSiblings(c)
    <2>1. /\ CallOthers(c) /\ call'[c].job = call[c].job /\ call'[c].engs = call[c].engs
          /\ call'[c].pc \in {"stop_group", "stop_sandbox"}
      BY <1>12, <1>t DEF StopSiblings, CallGoto, CallOthers, CallState
    <2>2. CallDown(call[c])' BY <1>12, <1>d, <2>1 DEF StopSiblings, CallAt, CallDown, Known, modalVars
    <2> QED BY <1>12, <1>k, <2>1, <2>2 DEF StopSiblings
  <1>13. CASE StopGroup(c)
    <2>1. PICK e \in call[c].engs :
             \/ KillServer(e) /\ CallGoto(c, "drop_group")
             \/ CallGoto(c, "raised") /\ UNCHANGED modalVars
      BY <1>13 DEF StopGroup
    <2>2. CASE CallGoto(c, "raised") /\ UNCHANGED modalVars
      <3>1. CallOthers(c) /\ call'[c].pc = "raised" BY <1>t, <2>2 DEF CallGoto, CallOthers, CallState
      <3> QED BY <1>13, <1>k, <1>q, <2>2, <3>1 DEF StopGroup
    <2>3. CASE KillServer(e) /\ CallGoto(c, "drop_group")
      <3>1. CallOthers(c) /\ call'[c].pc = "drop_group" /\ call'[c].engs = call[c].engs
        BY <1>t, <2>3 DEF CallGoto, CallOthers, CallState
      <3>2. ModalKept BY <1>t, <2>3, KillServerKeeps
      <3>3. \A f \in call[c].engs : f = e /\ Known(f) BY <1>13, <1>d DEF StopGroup, CallAt, CallDown
      <3>4. Down(e)' BY <2>3, <3>3 DEF KillServer, Down, Known, ServerUp
      <3>5. CallDown(call[c])' BY <3>1, <3>3, <3>4 DEF CallDown
      <3> QED BY <1>13, <3>1, <3>2, <3>5, ResultsSame, RegistrySame DEF StopGroup, Kept, dbVars
    <2> QED BY <2>1, <2>2, <2>3
  <1>14. CASE DropGroup(c) \/ DropEngine(c)
    <2>1. \A e \in call[c].engs : Down(e) BY <1>14, <1>d DEF DropGroup, DropEngine, CallAt, CallDown
    <2>2. RegistryKept BY <1>14, <2>1 DEF DropGroup, DropEngine, RegistryKept, Stopped
    <2>3. CallOthers(c) /\ call'[c].pc \in {"group_stopped", "finish"}
      BY <1>14, <1>t DEF DropGroup, DropEngine, CallGoto, CallOthers, CallState
    <2> QED BY <1>14, <1>m, <1>q, <2>2, <2>3, ResultsSame DEF DropGroup, DropEngine, Kept
  <1>15. CASE StopSandbox(c)
    <2>1. ModalKept BY <1>15, <1>t, TerminateKeeps DEF StopSandbox
    <2>2. CallOthers(c) /\ call'[c].pc = "drop" /\ call'[c].engs = call[c].engs
      BY <1>15, <1>t DEF StopSandbox, CallGoto, CallOthers, CallState
    <2>3. ASSUME NEW e \in call[c].engs PROVE Down(e)'
      <3>1. e[1] = call[c].job /\ e[1] \in ready BY <1>15, <1>d DEF StopSandbox, CallAt, CallDown, Known
      <3>2. code'[EngineSandbox(e[1])] \in ExitCode BY <1>15, <1>t, <3>1, TerminateEnds DEF StopSandbox
      <3> QED BY <2>1, <3>1, <3>2 DEF Down, Known, ServerUp, Running, ExitCode, SandboxOf, ModalKept
    <2>4. CallDown(call[c])' BY <2>2, <2>3 DEF CallDown
    <2> QED BY <1>15, <2>1, <2>2, <2>4, ResultsSame, RegistrySame DEF StopSandbox, Kept, dbVars
  <1>16. CASE CallDies(c)
    <2>1. CallOthers(c) /\ call'[c].pc = "raised" BY <1>16, <1>t DEF CallDies, CallGoto, CallOthers, CallState
    <2> QED BY <1>16, <1>k, <1>q, <2>1 DEF CallDies
  <1> QED
    BY <1>1, <1>2, <1>3, <1>4, <1>5, <1>6, <1>7, <1>8, <1>9, <1>10, <1>11, <1>12, <1>13, <1>14, <1>15,
       <1>16 DEF CancelNext, StopNext, FinishNext

-----------------------------------------------------------------------------
(* The whole step                                                          *)

LEMMA InitUInv == Init => UInv
  <1> SUFFICES ASSUME Init PROVE UInv OBVIOUS
  <1>1. ReadyInv BY DEF Init, SandboxesInit, StoreInit, WorkersInit, IdleSlot, ReadyInv
  <1>2. ResultInv BY DEF Init, StoreInit, NoRow, ResultInv, StatusOf
  <1>3. \A w \in Worker : RecDown(rec[w]) BY DEF Init, ReconcilersInit, OffRec, RecDown, Attaching
  <1>4. \A c \in Call : CallDown(call[c]) BY DEF Init, CallsInit, NewCall, CallDown
  <1> QED BY <1>1, <1>2, <1>3, <1>4 DEF UInv

LEMMA StepUInv == ASSUME IInv, UInv, [Next]_vars PROVE UInv' /\ UGoal
  <1>t. /\ SandboxesTypeOK /\ Born /\ JobsType /\ WInv /\ ReconcilersTypeOK
        /\ rec \in [Worker -> RecState]
    BY RowsTyped DEF IInv, RInv, ReconcilersTypeOK, UInv, ReadyInv, Born
  <1>m. ASSUME UNCHANGED modalVars PROVE ModalKept BY <1>m, <1>t, ModalSame
  <1>r. ASSUME UGoal, NEW w \in Worker, rec'[w] = rec[w] PROVE RecDown(rec[w])'
    BY <1>r, RecKept DEF UGoal, UInv
  <1>c. ASSUME UGoal, NEW c \in Call, call'[c] = call[c] PROVE CallDown(call[c])'
    BY <1>c, CallKept DEF UGoal, UInv
  <1>s. ASSUME Kept, JobsKept, SlotsKeep, UNCHANGED slot PROVE UGoal
    BY <1>s, SlotReadyKept, QuietStep DEF Kept, UInv
  <1>u. ASSUME UGoal, UNCHANGED <<rec, call>> PROVE UInv'
    BY <1>u, <1>r, <1>c DEF UGoal, UInv
  <1>1. ASSUME NEW w \in Worker, Start(w) PROVE UInv' /\ UGoal
    <2>1. Kept BY <1>1, <1>m, ResultsSame, RegistrySame DEF Start, Kept, dbVars
    <2>2. JobsKept /\ SlotsKeep BY <1>1, <1>t, JobsFrame DEF Start, dbVars, SlotsKeep
    <2>3. UGoal BY <1>1, <1>s, <2>1, <2>2 DEF Start
    <2>4. \A v \in Worker \ {w} : rec'[v] = rec[v] BY <1>1, <1>t DEF Start, RecGoto
    <2>5. rec'[w].engs = rec[w].engs /\ rec'[w].pc = "reattach"
      BY <1>1, <1>t DEF Start, RecGoto, RecState
    <2>6. RecDown(rec[w])' BY <1>1, <2>5 DEF Start, UInv, RecDown, Attaching, Known, modalVars
    <2> QED BY <1>1, <1>r, <1>c, <2>3, <2>4, <2>6 DEF Start, UGoal, UInv
  <1>2. ASSUME NEW w \in Worker, Crash(w) PROVE UInv' /\ UGoal
    <2>1. Kept BY <1>2, <1>m, ResultsSame, RegistrySame DEF Crash, Kept, dbVars
    <2>2. up' \in [Worker -> {"off", "up", "dead"}] BY <1>2, <1>t DEF Crash, WInv, WorkersTypeOK
    <2>3. JobsKept /\ SlotsKeep BY <1>2, <1>t, <2>2, JobsFrame, SlotRelease DEF Crash, dbVars
    <2>4. slot'[w].pc = "idle" /\ \A v \in Worker \ {w} : slot'[v] = slot[v]
      BY <1>2, <1>t DEF Crash, Release, IdleSlot, WInv, WorkersTypeOK
    <2>5. \A v \in Worker : SlotReady(slot[v])' BY <2>1, <2>4, SlotReadyKept DEF SlotReady, Kept, UInv
    <2>6. UGoal BY <2>1, <2>3, <2>5, QuietStep
    <2>7. \A v \in Worker \ {w} : rec'[v] = rec[v] BY <1>2, <1>t DEF Crash
    <2>8. RecDown(rec[w])' BY <1>2, <1>t DEF Crash, OffRec, RecDown, Attaching
    <2> QED BY <1>2, <1>r, <1>c, <2>6, <2>7, <2>8 DEF Crash, UGoal, UInv
  <1>3. ASSUME NEW w \in Worker, Slots(w) PROVE UInv' /\ UGoal
    BY <1>3, <1>u, SlotUStep DEF Slots, reconcilerVars, apiVars
  <1>4. ASSUME NEW w \in Worker, Monitor(w) PROVE UInv' /\ UGoal
    <2>1. CASE NoticeCancel(w)
      <3>1. Kept BY <2>1, <1>m, ResultsSame, RegistrySame DEF NoticeCancel, Kept, dbVars
      <3>2. \A v \in Worker : slot'[v].pc = slot[v].pc /\ slot'[v].job = slot[v].job
        BY <2>1, <1>t DEF NoticeCancel, WInv, WorkersTypeOK, SlotState
      <3>3. \A v \in Worker : SlotReady(slot[v])' BY <3>1, <3>2 DEF SlotReady, Kept, ModalKept, UInv, ReadyInv
      <3>4. JobsKept /\ SlotsKeep BY <2>1, <1>t, <3>2, JobsFrame DEF NoticeCancel, dbVars, SlotsKeep
      <3>5. UGoal BY <3>1, <3>3, <3>4, QuietStep
      <3> QED BY <1>4, <1>u, <3>5 DEF Monitor, reconcilerVars, apiVars
    <2>2. CASE Beat(w)
      <3>1. Kept BY <2>2, <1>m, <1>t, RowsResults, RegistrySame DEF Beat, Kept
      <3>2. JobsKept /\ SlotsKeep BY <2>2, <1>t, HeartbeatKeeps, SlotSame DEF Beat
      <3>3. UGoal BY <2>2, <1>s, <3>1, <3>2 DEF Beat, workerVars
      <3> QED BY <1>4, <1>u, <3>3 DEF Monitor, reconcilerVars, apiVars
    <2> QED BY <1>4, <2>1, <2>2 DEF Monitor, MonitorNext
  <1>5. ASSUME NEW w \in Worker, Reconcile(w) PROVE UInv' /\ UGoal
    <2>1. Kept /\ RecDown(rec[w])' /\ RecOthers(w) BY <1>5, RecQuiet DEF Reconcile
    <2>2. JobsKept /\ UNCHANGED workerVars BY <1>5, RecStep DEF Reconcile, RecGoal, IInv
    <2>3. SlotsKeep BY <1>t, <2>2, SlotSame
    <2>4. UGoal BY <1>s, <2>1, <2>2, <2>3 DEF workerVars
    <2> QED BY <1>5, <1>r, <1>c, <2>1, <2>4 DEF Reconcile, apiVars, RecOthers, UGoal, UInv
  <1>6. ASSUME NEW j \in Job, Submitted(j) PROVE UInv' /\ UGoal
    <2>1. Kept BY <1>6, <1>m, <1>t, RowsResults, RegistrySame DEF Submitted, Submit, Kept
    <2>2. JobsKept BY <1>6, <1>t, InsertKeeps DEF Submitted, Submit, IInv, StoreTypeOK
    <2>3. SlotsKeep BY <1>6, <1>t, SlotSame DEF Submitted
    <2>4. UGoal BY <1>6, <1>s, <2>1, <2>2, <2>3 DEF Submitted, workerVars
    <2> QED BY <1>6, <1>u, <2>4 DEF Submitted, Submit, reconcilerVars
  <1>7. ASSUME NEW j \in Job, Ages(j) PROVE UInv' /\ UGoal
    <2>1. Kept BY <1>7, <1>m, <1>t, RowsResults, RegistrySame DEF Ages, Age, Kept
    <2>2. JobsKept /\ SlotsKeep BY <1>7, <1>t, AgeKeeps, SlotSame DEF Ages, Age
    <2>3. UGoal BY <1>7, <1>s, <2>1, <2>2 DEF Ages, Age, workerVars
    <2> QED BY <1>7, <1>u, <2>3 DEF Ages, reconcilerVars, apiVars
  <1>8. ASSUME NEW c \in Call, Cancelling(c) \/ Stopping(c) \/ RequestDies(c) PROVE UInv' /\ UGoal
    <2>1. Kept /\ CallDown(call[c])' /\ CallOthers(c)
      BY <1>8, CallQuiet DEF Cancelling, Stopping, RequestDies
    <2>2. JobsKept BY <1>8, CallStep DEF Cancelling, Stopping, RequestDies, CallGoal, IInv
    <2>3. UNCHANGED workerVars /\ UNCHANGED reconcilerVars
      BY <1>8 DEF Cancelling, Stopping, RequestDies
    <2>4. SlotsKeep BY <1>t, <2>3, SlotSame
    <2>5. UGoal BY <1>s, <2>1, <2>2, <2>3, <2>4 DEF workerVars
    <2> QED BY <1>r, <1>c, <2>1, <2>3, <2>5 DEF reconcilerVars, CallOthers, UGoal, UInv
  <1>9. ASSUME Modal PROVE UInv' /\ UGoal
    <2>1. Kept BY <1>9, <1>t, ModalKeeps, ResultsSame, RegistrySame DEF Modal, Kept, dbVars
    <2>2. JobsKept /\ SlotsKeep BY <1>9, <1>t, JobsFrame, SlotSame DEF Modal, dbVars
    <2>3. UGoal BY <1>9, <1>s, <2>1, <2>2 DEF Modal, workerVars
    <2> QED BY <1>9, <1>u, <2>3 DEF Modal, reconcilerVars, apiVars
  <1>10. ASSUME UNCHANGED vars PROVE UInv' /\ UGoal
    <2>1. Kept BY <1>10, <1>m, ResultsSame, RegistrySame DEF vars, Kept, dbVars
    <2>2. JobsKept /\ SlotsKeep BY <1>10, <1>t, JobsFrame, SlotSame DEF vars, dbVars
    <2>3. UGoal BY <1>10, <1>s, <2>1, <2>2 DEF vars, workerVars
    <2> QED BY <1>10, <1>u, <2>3 DEF vars, reconcilerVars, apiVars
  <1> QED
    BY <1>1, <1>2, <1>3, <1>4, <1>5, <1>6, <1>7, <1>8, <1>9, <1>10 DEF Next, Call

(* An engine that leaves the registry has been stopped or seen exited, as  *)
(* long as exit codes can be read and terminate() works, with any number   *)
(* of jobs, groups, workers and requests, with crashes, late heartbeats,   *)
(* dying requests and abandoned ticks: the order in which Reconciler.tick, *)
(* JobAPI.cancel and stop_engine stop first and remove_engine afterwards.  *)
THEOREM UnregisteredWasDown == ASSUME Answers PROVE Spec => UnregisteredIsDown
  <1>1. Init => UInv BY InitUInv
  <1>2. IInv /\ UInv /\ [Next]_vars => UInv' BY StepUInv
  <1>3. IInv /\ UInv /\ [Next]_vars => [\A e \in registered \ registered' : ~ServerUp(e)]_vars
    BY StepUInv DEF UGoal, Stopped, Down
  <1>4. Spec => [](IInv /\ UInv)
    BY <1>1, <1>2, Invariance, PTL DEF Spec
  <1> QED BY <1>3, <1>4, PTL DEF Spec, UnregisteredIsDown
=============================================================================

---------------------------- MODULE ControlPlane ----------------------------
(***************************************************************************)
(* The control plane: any number of worker processes, each with its slot,  *)
(* its monitor and its reconciler, and the API's calls, sharing one        *)
(* database and one Modal account (src/fes/control_plane.py).              *)
(***************************************************************************)
EXTENDS Reconciler, JobAPI

CONSTANT Mortal   \* the workers that may crash

ASSUME MortalAssumption == Mortal \subseteq Worker

vars == <<modalVars, dbVars, workerVars, reconcilerVars, apiVars>>

TypeOK ==
    /\ SandboxesTypeOK
    /\ StoreTypeOK
    /\ WorkersTypeOK
    /\ ReconcilersTypeOK
    /\ CallsTypeOK

Init ==
    /\ SandboxesInit
    /\ StoreInit
    /\ WorkersInit
    /\ ReconcilersInit
    /\ CallsInit

(* main with role worker: the slot and monitor threads run from here on,   *)
(* while main goes on with reattach_serving and reap_stale.                *)
Start(w) ==
    /\ up[w] = "off"
    /\ up' = [up EXCEPT ![w] = "up"]
    /\ RecGoto(w, "reattach")
    /\ UNCHANGED <<modalVars, dbVars, slot, call>>

(* The process is gone, and with it everything its threads knew.           *)
Crash(w) ==
    /\ w \in Mortal
    /\ up[w] = "up"
    /\ up' = [up EXCEPT ![w] = "dead"]
    /\ Release(w)
    /\ rec' = [rec EXCEPT ![w] = OffRec]
    /\ UNCHANGED <<modalVars, dbVars, call>>

Slots(w) == SlotNext(w) /\ UNCHANGED <<reconcilerVars, apiVars>>
Monitor(w) == MonitorNext(w) /\ UNCHANGED <<reconcilerVars, apiVars>>
Reconcile(w) == RecNext(w) /\ UNCHANGED apiVars
Submitted(j) == Submit(j) /\ UNCHANGED <<workerVars, reconcilerVars>>
Cancelling(c) == (CancelNext(c) \/ FinishNext(c)) /\ UNCHANGED <<workerVars, reconcilerVars>>
Stopping(c) == (StopNext(c) \/ FinishNext(c)) /\ UNCHANGED <<workerVars, reconcilerVars>>
RequestDies(c) == "api" \in Faults /\ CallDies(c) /\ UNCHANGED <<workerVars, reconcilerVars>>
Ages(j) == Age(j) /\ UNCHANGED <<reconcilerVars, apiVars>>
Modal == SandboxesNext /\ UNCHANGED <<dbVars, workerVars, reconcilerVars, apiVars>>

Next ==
    \/ \E w \in Worker : Start(w) \/ Crash(w) \/ Slots(w) \/ Monitor(w) \/ Reconcile(w)
    \/ \E j \in Job : Submitted(j) \/ Ages(j)
    \/ \E c \in Cancels : Cancelling(c) \/ RequestDies(c)
    \/ \E c \in Stops : Stopping(c) \/ RequestDies(c)
    \/ Modal

Spec == Init /\ [][Next]_vars

-----------------------------------------------------------------------------
(* Fairness: the threads of a live process keep running, time passes (an   *)
(* unrefreshed heartbeat ages), Modal enforces the lifetime cap, and an    *)
(* agent whose servers are gone exits.  An operator starts the workers     *)
(* that are not going to crash.  Nothing is assumed of users, of requests, *)
(* of READY, or of when a mortal process starts or crashes.                *)
Fairness ==
    /\ \A w \in Worker \ Mortal : WF_vars(Start(w))
    /\ \A w \in Worker : WF_vars(Slots(w)) /\ WF_vars(Monitor(w)) /\ WF_vars(Reconcile(w))
    /\ \A j \in Job :
          /\ WF_vars(Ages(j))
          /\ WF_vars(LifetimeCap(EngineSandbox(j)) /\ UNCHANGED <<dbVars, workerVars, reconcilerVars, apiVars>>)
          /\ WF_vars(AgentExits(j) /\ UNCHANGED <<dbVars, workerVars, reconcilerVars, apiVars>>)

FairSpec == Spec /\ Fairness

-----------------------------------------------------------------------------
(* Safety                                                                  *)

(* No two slots ever run the same job, and a job in a slot is never back   *)
(* in the queue: claim never gives two workers the same row (Store.claim), *)
(* and cancel_if_queued cannot race a claim.                               *)
ClaimedOnce ==
    \A w \in Worker :
       JobOf(w) # NoJob =>
          /\ jobs[JobOf(w)].worker = w
          /\ StatusOf(JobOf(w)) \notin {"absent", "queued"}

(* Every logged sandbox that still runs has somebody who will end it: the  *)
(* slot that runs its job, the reaper (the row says running), or the       *)
(* reconciler and the users (an engine of it is registered); or it is      *)
(* about to end by itself.  So no GPU is billed that nobody knows of, for  *)
(* all orders of cancels, stops, expiry, crashes and restarts.             *)
Held(s) ==
    \/ \E w \in Worker : JobOf(w) = s[1]
    \/ StatusOf(s[1]) = "running"
    \/ s \in RegisteredSandboxes
    \/ s = EngineSandbox(s[1]) /\ s[1] \in ready /\ EnginesOf(s[1]) \cap servers = {}

NoLostSandbox == \A s \in logged : Running(s) => Held(s)

(* The registry never loses an engine that still serves: remove_engine     *)
(* comes after the sandbox or the server was stopped or seen exited, in    *)
(* the reconciler, in cancel and in stop_engine alike.                     *)
UnregisteredIsDown == [][\A e \in registered \ registered' : ~ServerUp(e)]_vars

(* A job's end status is the reason it ended, whoever wrote it and however *)
(* late: `timeout` needs a lifetime that is over, `stopped` a terminated   *)
(* sandbox or a request about the job, `failed` an engine's sandbox that   *)
(* exited, or the download's when there never was an engine, `cancelled` a *)
(* cancel, `interrupted` a dead worker.                                    *)
EndStatusHasCause ==
    \A j \in Job :
       LET s == EngineSandbox(j) IN
       /\ StatusOf(j) = "timeout" => j \in expired \/ code[s] = "exit124"
       /\ StatusOf(j) = "stopped" => code[s] = "exit137" \/ \E c \in Call : call[c].job = j
       /\ StatusOf(j) = "failed" => Exited(IF code[s] = "unborn" THEN <<j, "prep">> ELSE s)
       /\ StatusOf(j) = "cancelled" => jobs[j].cancel_requested \/ jobs[j].worker = NoWorker
       /\ StatusOf(j) = "interrupted" => up[jobs[j].worker] = "dead"

(* The engine of a serving job is only terminated because somebody asked   *)
(* or its lifetime is over: clean-up, which goes by the event log, and the *)
(* reaper spare an engine that was handed over in the meantime.            *)
ServingKilledForCause ==
    \A j \in Job :
       StatusOf(j) = "serving" /\ code[EngineSandbox(j)] = "exit137" =>
          \/ j \in expired
          \/ \E c \in Call : call[c].job = j

-----------------------------------------------------------------------------
(* Liveness                                                                *)

(* A job does not stay `running`: it is handed over, ends, or is reaped,   *)
(* as long as some worker stays alive.                                     *)
RunningEnds == \A j \in Job : StatusOf(j) = "running" ~> StatusOf(j) # "running"

(* An engine whose sandbox has exited leaves the registry.                 *)
ExitedIsDeregistered ==
    \A e \in Engine : e \in registered /\ Exited(SandboxOf(e)) ~> e \notin registered
-----------------------------------------------------------------------------
(* What docs and comments say of the program and its steps do not keep:    *)
(* each has a run that shows how (README, Findings).                       *)

(* stop_engine: "the sandbox (and the job) ends with the last one".  Once  *)
(* every engine of a job was stopped, each by a call of its own, the job   *)
(* is not serving any more.                                                *)
LastStopEndsJob ==
    \A j \in Job :
       (\A e \in EnginesOf(j) : \E c \in Stops : CallAt(c, "group_stopped") /\ e \in call[c].engs)
          => StatusOf(j) # "serving"

(* Cancelling a running job: "it is flagged for its worker, and its        *)
(* sandboxes are terminated right away".  When such a call saw the engine  *)
(* registered and has returned, the job does not serve from a live sandbox.*)
CancelledDoesNotServe ==
    \A c \in Cancels :
       LET s == EngineSandbox(call[c].job) IN
       CallAt(c, "flagged") /\ s \in call[c].spare =>
          ~(StatusOf(call[c].job) = "serving" /\ Running(s))

(* "queued -> running -> serving -> timeout | stopped | failed": a job     *)
(* that has ended keeps its end status.                                    *)
TerminalIsFinal == [][\A j \in Job : Closed(j) => StatusOf(j)' = StatusOf(j)]_vars

(* reap_stale: "mark them interrupted, don't resume, and terminate their   *)
(* sandboxes": an interrupted job has no sandbox that runs.                *)
InterruptedHasNoSandbox ==
    \A j \in Job : StatusOf(j) = "interrupted" => \A s \in SandboxesOf(j) : ~Running(s)

(* cancel: "terminate its sandboxes now so no GPU keeps billing": when no  *)
(* cancel is under way, a cancelled job has no sandbox that runs.          *)
CancelledHasNoSandbox ==
    (\A c \in Cancels : CallAt(c, "new") \/ Returned(c)) =>
       \A j \in Job : StatusOf(j) = "cancelled" => \A s \in SandboxesOf(j) : ~Running(s)
=============================================================================

------------------------------- MODULE JobAPI -------------------------------
(***************************************************************************)
(* The frontend side: JobAPI.submit and JobAPI.cancel, and stop_engine as  *)
(* called by POST /api/engines/<eid>/stop (src/fes/jobs.py, src/fes/       *)
(* api.py).  Each request runs in a thread of its own, so it is modelled   *)
(* as a call with a program counter; between any two of its statements     *)
(* other calls, the workers and the reconcilers may run.                   *)
(***************************************************************************)
EXTENDS Store

CONSTANTS Cancels,   \* the cancel calls that may be made, once each
          Stops      \* the engine-stop calls that may be made, once each

ASSUME CallsAssumption == Cancels \cap Stops = {}

VARIABLE call
apiVars == <<call>>

Call == Cancels \cup Stops

(* A finished call is "done", "flagged" (it cancelled a running job),      *)
(* "group_stopped" (it stopped one engine of several) or "raised".         *)
CallPc == {"new", "withdraw", "flag", "snapshot", "killing",
           "find", "stop_serving", "unregister",
           "siblings", "stop_group", "drop_group", "stop_sandbox", "drop",
           "finish", "finish_write",
           "done", "flagged", "group_stopped", "raised"}

(* engs: the engines the call is about.  todo, spare: as in JobWorker.     *)
CallState == [pc : CallPc, job : Job \cup {NoJob}, engs : SUBSET Engine,
              todo : SUBSET Sandbox, spare : SUBSET Sandbox]

NewCall == [pc |-> "new", job |-> NoJob, engs |-> {}, todo |-> {}, spare |-> {}]

CallsTypeOK == call \in [Call -> CallState]

CallsInit == call = [c \in Call |-> NewCall]

CallAt(c, pc) == call[c].pc = pc
Returned(c) == call[c].pc \in {"done", "flagged", "group_stopped"}
CallGoto(c, pc) == call' = [call EXCEPT ![c].pc = pc]

-----------------------------------------------------------------------------
(* submit: the parameters are valid; create is the only change of state.   *)

Submit(j) ==
    /\ Insert(j)
    /\ UNCHANGED <<modalVars, logged, registered, call>>

-----------------------------------------------------------------------------
(* cancel                                                                  *)

CancelGet(c) ==
    /\ CallAt(c, "new")
    /\ \E j \in Job :
          /\ StatusOf(j) # "absent"
          /\ call' = [call EXCEPT ![c].job = j,
                                  ![c].engs = IF StatusOf(j) = "serving" THEN EnginesOf(j) ELSE {},
                                  ![c].pc = IF Closed(j) THEN "done"
                                            ELSE IF StatusOf(j) = "serving" THEN "find"
                                            ELSE "withdraw"]
    /\ UNCHANGED <<modalVars, dbVars>>

CancelWithdraw(c) ==
    /\ CallAt(c, "withdraw")
    /\ \/ CancelQueued(call[c].job) /\ CallGoto(c, "done")
       \/ /\ StatusOf(call[c].job) # "queued"
          /\ CallGoto(c, "flag")
          /\ UNCHANGED jobs
    /\ UNCHANGED <<modalVars, clock, logged, registered>>

CancelFlag(c) ==
    /\ CallAt(c, "flag")
    /\ RequestCancel(call[c].job)
    /\ CallGoto(c, "snapshot")
    /\ UNCHANGED <<modalVars, clock, logged, registered>>

CancelSnapshot(c) ==
    /\ CallAt(c, "snapshot")
    /\ call' = [call EXCEPT ![c].pc = "killing", ![c].todo = LoggedOf(call[c].job),
                            ![c].spare = RegisteredSandboxes]
    /\ UNCHANGED <<modalVars, dbVars>>

CancelKill(c) ==
    /\ CallAt(c, "killing")
    /\ \/ \E s \in call[c].todo :
             /\ \/ KillUnlessSpared(call[c].job, s, call[c].spare)
                \/ "kill" \in Faults /\ UNCHANGED modalVars
             /\ call' = [call EXCEPT ![c].todo = @ \ {s}]
       \/ call[c].todo = {} /\ CallGoto(c, "flagged") /\ UNCHANGED modalVars
    /\ UNCHANGED dbVars

(* A serving job: find one of its engines that is still registered, stop   *)
(* the sandbox they share, drop them all, and close the job.  (An engine   *)
(* that goes between the two lookups of this line makes the call raise, as *)
(* in CallDies.)                                                           *)
CancelFind(c) ==
    /\ CallAt(c, "find")
    /\ CallGoto(c, IF call[c].engs \cap registered # {} THEN "stop_serving" ELSE "unregister")
    /\ UNCHANGED <<modalVars, dbVars>>

CancelStopServing(c) ==
    /\ CallAt(c, "stop_serving")
    /\ Terminate(EngineSandbox(call[c].job))
    /\ CallGoto(c, "unregister")
    /\ UNCHANGED dbVars

CancelUnregister(c) ==
    /\ CallAt(c, "unregister")
    /\ \E e \in call[c].engs :
          /\ registered' = registered \ {e}
          /\ call' = [call EXCEPT ![c].engs = @ \ {e},
                                  ![c].pc = IF call[c].engs = {e} THEN "finish" ELSE @]
    /\ UNCHANGED <<modalVars, jobs, clock, logged>>

-----------------------------------------------------------------------------
(* finish_engine_job(..., "stopped"): a read, then the update              *)

FinishRead(c) ==
    /\ CallAt(c, "finish")
    /\ CallGoto(c, IF Closed(call[c].job) THEN "done" ELSE "finish_write")
    /\ UNCHANGED <<modalVars, dbVars>>

FinishWrite(c) ==
    /\ CallAt(c, "finish_write")
    /\ SetStatus(call[c].job, "stopped")
    /\ CallGoto(c, "done")
    /\ UNCHANGED <<modalVars, clock, logged, registered>>

-----------------------------------------------------------------------------
(* stop_engine: find the engine, look for others in its sandbox, stop its  *)
(* server only or the whole sandbox, and take it out of the registry.      *)

StopRead(c) ==
    /\ CallAt(c, "new")
    /\ \E e \in registered :
          call' = [call EXCEPT ![c].pc = "siblings", ![c].job = e[1], ![c].engs = {e}]
    /\ UNCHANGED <<modalVars, dbVars>>

Siblings(c) == (EnginesOf(call[c].job) \cap registered) \ call[c].engs

StopSiblings(c) ==
    /\ CallAt(c, "siblings")
    /\ CallGoto(c, IF Siblings(c) # {} THEN "stop_group" ELSE "stop_sandbox")
    /\ UNCHANGED <<modalVars, dbVars>>

(* Nothing can be executed in a sandbox that has exited: exec raises.      *)
StopGroup(c) ==
    /\ CallAt(c, "stop_group")
    /\ \E e \in call[c].engs :
          \/ KillServer(e) /\ CallGoto(c, "drop_group")
          \/ ~Running(SandboxOf(e)) /\ CallGoto(c, "raised") /\ UNCHANGED modalVars
    /\ UNCHANGED dbVars

(* Faulty: drops every engine of the sandbox, not only the stopped one.    *)
DropGroups(c) ==
    /\ CallAt(c, "drop_group")
    /\ registered' = registered \ EnginesOf(call[c].job)
    /\ CallGoto(c, "group_stopped")
    /\ UNCHANGED <<modalVars, jobs, clock, logged>>

DropGroup(c) ==
    /\ CallAt(c, "drop_group")
    /\ registered' = registered \ call[c].engs
    /\ CallGoto(c, "group_stopped")
    /\ UNCHANGED <<modalVars, jobs, clock, logged>>

(* Faulty: leaves the sandbox to the reconciler.                           *)
StopSandboxLater(c) ==
    /\ CallAt(c, "stop_sandbox")
    /\ CallGoto(c, "drop")
    /\ UNCHANGED <<modalVars, dbVars>>

StopSandbox(c) ==
    /\ CallAt(c, "stop_sandbox")
    /\ Terminate(EngineSandbox(call[c].job))
    /\ CallGoto(c, "drop")
    /\ UNCHANGED dbVars

DropEngine(c) ==
    /\ CallAt(c, "drop")
    /\ registered' = registered \ call[c].engs
    /\ CallGoto(c, "finish")
    /\ UNCHANGED <<modalVars, jobs, clock, logged>>

-----------------------------------------------------------------------------
(* A request that dies between two of its steps: the API process is        *)
(* restarted, or Modal or the database raises.                             *)
CallDies(c) ==
    /\ ~CallAt(c, "new") /\ ~Returned(c) /\ ~CallAt(c, "raised")
    /\ CallGoto(c, "raised")
    /\ UNCHANGED <<modalVars, dbVars>>

CancelNext(c) ==
    \/ CancelGet(c) \/ CancelWithdraw(c) \/ CancelFlag(c) \/ CancelSnapshot(c) \/ CancelKill(c)
    \/ CancelFind(c) \/ CancelStopServing(c) \/ CancelUnregister(c)

StopNext(c) ==
    \/ StopRead(c) \/ StopSiblings(c) \/ StopGroup(c) \/ DropGroup(c)
    \/ StopSandbox(c) \/ DropEngine(c)

FinishNext(c) == FinishRead(c) \/ FinishWrite(c)
=============================================================================

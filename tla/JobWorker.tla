----------------------------- MODULE JobWorker -----------------------------
(***************************************************************************)
(* The slot and the monitor thread of a worker process: JobWorker._loop,   *)
(* _monitor and _execute (src/fes/jobs.py) with the steps of               *)
(* scheduler.execute and workers.prepare_weights / Engine.wait that touch  *)
(* a sandbox, the database or the cancel event.  Jobs are start_engine     *)
(* jobs; a worker has one slot, the default of --gpu-workers.              *)
(*                                                                         *)
(* self.sandboxes is not a variable: emit adds an id to it and to the      *)
(* event log in one go, so what _execute passes as `known` is in the log.  *)
(***************************************************************************)
EXTENDS Store

CONSTANT Cold  \* jobs that find their weights missing: prep worker first

ASSUME ColdAssumption == Cold \subseteq Job

VARIABLES up,   \* up[w]: the process has not started, is up, or is dead
          slot  \* slot[w]: where the slot thread of w is

workerVars == <<up, slot>>

SlotPc == {"idle", "claimed", "fetch", "log_prep", "prep", "launch", "log_engine", "engine",
           "register", "handover", "except", "cleanup", "killing", "close"}
Outcome == {"none", "cancelled", "failed", "timeout", "stopped", "interrupted"}

(* event: the job's in-process cancel event.  next: next group to          *)
(* register.  outcome: how the job is going to end.  todo, spare: the      *)
(* sandboxes cleanup still has to look at, and those it saw registered.    *)
SlotState == [pc : SlotPc, job : Job \cup {NoJob}, event : BOOLEAN, next : 1 .. (Groups + 1),
              outcome : Outcome, todo : SUBSET Sandbox, spare : SUBSET Sandbox]

IdleSlot == [pc |-> "idle", job |-> NoJob, event |-> FALSE, next |-> 1,
             outcome |-> "none", todo |-> {}, spare |-> {}]

WorkersTypeOK ==
    /\ up \in [Worker -> {"off", "up", "dead"}]
    /\ slot \in [Worker -> SlotState]

WorkersInit ==
    /\ up = [w \in Worker |-> "off"]
    /\ slot = [w \in Worker |-> IdleSlot]

At(w, pc) == slot[w].pc = pc
JobOf(w) == slot[w].job

(* The keys of self.running: from setdefault in _execute to its finally.   *)
Executing(w) == ~At(w, "idle") /\ ~At(w, "claimed")

Goto(w, pc) == slot' = [slot EXCEPT ![w].pc = pc]
Raise(w, outcome) == slot' = [slot EXCEPT ![w].pc = "except", ![w].outcome = outcome]
RaiseCancelled(w) == slot' = [slot EXCEPT ![w].pc = "cleanup", ![w].outcome = "cancelled"]
Release(w) == slot' = [slot EXCEPT ![w] = IdleSlot]

-----------------------------------------------------------------------------
(* _loop and the start of _execute                                         *)

Claim(w) ==
    /\ up[w] = "up"
    /\ At(w, "idle")
    /\ \E j \in Job :
          /\ ClaimRow(j, w)
          /\ slot' = [slot EXCEPT ![w].pc = "claimed", ![w].job = j]
    /\ UNCHANGED <<modalVars, clock, logged, registered, up>>

(* claim reads the row back and _execute enters it into self.running; a    *)
(* flag set before that read ends the job at once, a later one is the      *)
(* monitor's.  The plan then decides whether a prep worker is needed.      *)
Begin(w) ==
    /\ At(w, "claimed")
    /\ IF jobs[JobOf(w)].cancel_requested THEN RaiseCancelled(w)
       ELSE Goto(w, IF JobOf(w) \in Cold THEN "fetch" ELSE "launch")
    /\ UNCHANGED <<modalVars, dbVars, up>>

-----------------------------------------------------------------------------
(* workers.prepare_weights, called from execute                            *)

CreatePrep(w) ==
    /\ At(w, "fetch")
    /\ Create(<<JobOf(w), "prep">>)
    /\ Goto(w, "log_prep")
    /\ UNCHANGED <<dbVars, up>>

(* on_sandbox: emit("sandbox", role="prep")                                *)
LogPrep(w) ==
    /\ At(w, "log_prep")
    /\ logged' = logged \cup {<<JobOf(w), "prep">>}
    /\ Goto(w, "prep")
    /\ UNCHANGED <<modalVars, jobs, clock, registered, up>>

(* The download reports that it is complete (its line may be read when the *)
(* sandbox is no more); the finally clause terminates the sandbox; check() *)
(* looks at the cancel event.                                              *)
PrepDone(w) ==
    /\ At(w, "prep")
    /\ Terminate(<<JobOf(w), "prep">>)
    /\ IF slot[w].event THEN RaiseCancelled(w) ELSE Goto(w, "launch")
    /\ UNCHANGED <<dbVars, up>>

(* Its report is incomplete, or the sandbox is gone (a cancel kills it).   *)
PrepRaises(w) ==
    /\ At(w, "prep")
    /\ Terminate(<<JobOf(w), "prep">>)
    /\ Raise(w, "failed")
    /\ UNCHANGED <<dbVars, up>>

-----------------------------------------------------------------------------
(* The engine worker: execute from its last check() to the end             *)

CreateEngine(w) ==
    /\ At(w, "launch")
    /\ ~slot[w].event
    /\ Create(EngineSandbox(JobOf(w)))
    /\ Goto(w, "log_engine")
    /\ UNCHANGED <<dbVars, up>>

LogEngine(w) ==
    /\ At(w, "log_engine")
    /\ logged' = logged \cup {EngineSandbox(JobOf(w))}
    /\ Goto(w, "engine")
    /\ UNCHANGED <<modalVars, jobs, clock, registered, up>>

(* check() finds the cancel event set: before the engine is created, at    *)
(* the next line (or the end) of its output, or once it is registered.     *)
CheckRaises(w) ==
    /\ slot[w].pc \in {"launch", "engine", "handover"}
    /\ slot[w].event
    /\ RaiseCancelled(w)
    /\ UNCHANGED <<modalVars, dbVars, up>>

(* wait() has seen READY: it returns, even when the stream ended later     *)
(* because the sandbox is gone.                                            *)
WaitReturns(w) ==
    /\ At(w, "engine")
    /\ ~slot[w].event
    /\ JobOf(w) \in ready
    /\ Goto(w, "register")
    /\ UNCHANGED <<modalVars, dbVars, up>>

(* The stream ended before READY: EngineTimeout or RuntimeError.           *)
WaitExited(w) ==
    /\ At(w, "engine")
    /\ ~slot[w].event
    /\ JobOf(w) \notin ready
    /\ Exited(EngineSandbox(JobOf(w)))
    /\ Raise(w, IF code[EngineSandbox(JobOf(w))] = "exit124" THEN "timeout" ELSE "failed")
    /\ UNCHANGED <<modalVars, dbVars, up>>

(* Faulty: one group too many.                                             *)
RegisterGroupTooFar(w) ==
    /\ At(w, "register")
    /\ registered' = registered \cup {<<JobOf(w), slot[w].next>>}
    /\ slot' = [slot EXCEPT ![w].next = @ + 1, ![w].pc = IF slot[w].next > Groups THEN "handover" ELSE @]
    /\ UNCHANGED <<modalVars, jobs, clock, logged, up>>

(* One add_engine per group.                                               *)
RegisterGroup(w) ==
    /\ At(w, "register")
    /\ registered' = registered \cup {<<JobOf(w), slot[w].next>>}
    /\ slot' = [slot EXCEPT ![w].next = @ + 1, ![w].pc = IF slot[w].next = Groups THEN "handover" ELSE @]
    /\ UNCHANGED <<modalVars, jobs, clock, logged, up>>

(* The job stays `serving`; finally takes it out of self.running.          *)
Serve(w) ==
    /\ At(w, "handover")
    /\ ~slot[w].event
    /\ jobs' = [jobs EXCEPT ![JobOf(w)].status = "serving", ![JobOf(w)].result = TRUE]
    /\ Release(w)
    /\ UNCHANGED <<modalVars, clock, logged, registered, up>>

(* Any other exception, wherever the job is.                               *)
Fails(w) ==
    /\ "stream" \in Faults
    /\ slot[w].pc \in {"fetch", "launch", "engine", "register", "handover"}
    /\ Raise(w, "failed")
    /\ UNCHANGED <<modalVars, dbVars, up>>

-----------------------------------------------------------------------------
(* The except clauses of _execute                                          *)

(* An exception while the cancel event is set counts as the cancellation,  *)
(* which does not clean up: the cancel call has killed what it knew of.    *)
Except(w) ==
    /\ At(w, "except")
    /\ IF slot[w].event
       THEN slot' = [slot EXCEPT ![w].pc = "close", ![w].outcome = "cancelled"]
       ELSE Goto(w, "cleanup")
    /\ UNCHANGED <<modalVars, dbVars, up>>

(* cleanup: terminate_job_sandboxes lists the sandboxes ...                *)
Cleanup(w) ==
    /\ At(w, "cleanup")
    /\ slot' = [slot EXCEPT ![w].pc = "killing", ![w].todo = LoggedOf(JobOf(w)),
                            ![w].spare = RegisteredSandboxes]
    /\ UNCHANGED <<modalVars, dbVars, up>>

(* ... and takes them one at a time, swallowing what terminate() raises.   *)
KillOne(w) ==
    /\ At(w, "killing")
    /\ \E s \in slot[w].todo :
          /\ \/ KillUnlessSpared(JobOf(w), s, slot[w].spare)
             \/ "kill" \in Faults /\ UNCHANGED modalVars
          /\ slot' = [slot EXCEPT ![w].todo = @ \ {s}]
    /\ UNCHANGED <<dbVars, up>>

KillDone(w) ==
    /\ At(w, "killing")
    /\ slot[w].todo = {}
    /\ Goto(w, "close")
    /\ UNCHANGED <<modalVars, dbVars, up>>

(* update, whatever the row says by now; finally.                          *)
CloseJob(w) ==
    /\ At(w, "close")
    /\ SetStatus(JobOf(w), slot[w].outcome)
    /\ Release(w)
    /\ UNCHANGED <<modalVars, clock, logged, registered, up>>

SlotNext(w) ==
    \/ Claim(w) \/ Begin(w)
    \/ CreatePrep(w) \/ LogPrep(w) \/ PrepDone(w) \/ PrepRaises(w)
    \/ CreateEngine(w) \/ LogEngine(w) \/ CheckRaises(w) \/ WaitReturns(w) \/ WaitExited(w)
    \/ RegisterGroup(w) \/ Serve(w) \/ Fails(w)
    \/ Except(w) \/ Cleanup(w) \/ KillOne(w) \/ KillDone(w) \/ CloseJob(w)

-----------------------------------------------------------------------------
(* _monitor, and the clock that makes a heartbeat stale                    *)

NoticeCancel(w) ==
    /\ Executing(w)
    /\ ~slot[w].event
    /\ jobs[JobOf(w)].cancel_requested
    /\ slot' = [slot EXCEPT ![w].event = TRUE]
    /\ UNCHANGED <<modalVars, dbVars, up>>

Beat(w) ==
    /\ Executing(w)
    /\ jobs[JobOf(w)].stale
    /\ Heartbeat(JobOf(w), w)
    /\ UNCHANGED <<modalVars, clock, logged, registered, workerVars>>

(* STALE_AFTER_S without a heartbeat: six missed beats of a live worker    *)
(* (fault lag), or its process is dead.                                    *)
Age(j) ==
    /\ StatusOf(j) = "running"
    /\ ~jobs[j].stale
    /\ "lag" \in Faults \/ up[jobs[j].worker] # "up"
    /\ jobs' = [jobs EXCEPT ![j].stale = TRUE]
    /\ UNCHANGED <<modalVars, clock, logged, registered, workerVars>>

MonitorNext(w) == NoticeCancel(w) \/ Beat(w)
=============================================================================

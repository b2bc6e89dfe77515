----------------------------- MODULE Reconciler -----------------------------
(***************************************************************************)
(* What a worker process does besides running jobs: reattach_serving and   *)
(* reap_stale when it starts (control_plane.main), then Reconciler.tick    *)
(* for ever (src/fes/reconciler.py).  Both run in one thread at a time:    *)
(* main starts the reconciler thread when it is done.  The catalog sync of *)
(* a tick touches nothing modelled here.                                   *)
(***************************************************************************)
EXTENDS JobWorker

VARIABLE rec  \* rec[w]: where that thread of w is

reconcilerVars == <<rec>>

RecPc == {"off", "reattach", "attach_list", "attach", "idle", "tick", "expire", "drop",
          "finish", "finish_write", "reap_list", "reap", "reap_killing"}

(* engs: engines read and not handled yet.  late: those past expires_at    *)
(* when the tick began.  jobs: jobs read and not handled yet.  eng, job:   *)
(* the one in hand.  back: where finish_engine_job returns to.             *)
RecState == [pc : RecPc, engs : SUBSET Engine, late : SUBSET Engine, jobs : SUBSET Job,
             job : Job \cup {NoJob}, eng : SUBSET Engine, outcome : Outcome,
             todo : SUBSET Sandbox, spare : SUBSET Sandbox, back : {"attach", "tick"}]

OffRec == [pc |-> "off", engs |-> {}, late |-> {}, jobs |-> {}, job |-> NoJob, eng |-> {},
           outcome |-> "none", todo |-> {}, spare |-> {}, back |-> "tick"]

ReconcilersTypeOK == rec \in [Worker -> RecState]

ReconcilersInit == rec = [w \in Worker |-> OffRec]

RecAt(w, pc) == rec[w].pc = pc
RecGoto(w, pc) == rec' = [rec EXCEPT ![w].pc = pc]
RecBack(w, pc) == rec' = [rec EXCEPT ![w].pc = pc, ![w].job = NoJob, ![w].outcome = "none", ![w].spare = {}]

-----------------------------------------------------------------------------
(* reattach_serving: the registry is read first, the job list after it.    *)

ReattachEngines(w) ==
    /\ RecAt(w, "reattach")
    /\ rec' = [rec EXCEPT ![w].pc = "attach_list", ![w].engs = registered]
    /\ UNCHANGED <<modalVars, dbVars, workerVars>>

ReattachList(w) ==
    /\ RecAt(w, "attach_list")
    /\ rec' = [rec EXCEPT ![w].pc = "attach",
                          ![w].jobs = {j \in Job : StatusOf(j) \in {"serving", "succeeded"} /\ jobs[j].result}]
    /\ UNCHANGED <<modalVars, dbVars, workerVars>>

(* One of its engines was registered, or its sandbox still runs (or cannot *)
(* be asked): leave the job alone.  (The row that was read says `serving`: *)
(* _execute never has a start job succeed, so there is nothing to update.) *)
AttachKeep(w) ==
    /\ RecAt(w, "attach")
    /\ \E j \in rec[w].jobs :
          /\ \/ EnginesOf(j) \cap rec[w].engs # {}
             \/ ~Exited(EngineSandbox(j))
             \/ "poll" \in Faults
          /\ rec' = [rec EXCEPT ![w].jobs = @ \ {j}]
    /\ UNCHANGED <<modalVars, dbVars, workerVars>>

(* The engine is gone: make the row `serving`, whatever it is by now, so   *)
(* that finish_engine_job applies, and finish it.                          *)
AttachLost(w) ==
    /\ RecAt(w, "attach")
    /\ \E j \in rec[w].jobs :
          /\ EnginesOf(j) \cap rec[w].engs = {}
          /\ Exited(EngineSandbox(j))
          /\ SetStatus(j, "serving")
          /\ rec' = [rec EXCEPT ![w].pc = "finish", ![w].jobs = @ \ {j}, ![w].job = j, ![w].back = "attach",
                                ![w].outcome = EndStatus(code[EngineSandbox(j)])]
    /\ UNCHANGED <<modalVars, clock, logged, registered, workerVars>>

AttachDone(w) ==
    /\ RecAt(w, "attach")
    /\ rec[w].jobs = {}
    /\ RecGoto(w, "reap_list")
    /\ UNCHANGED <<modalVars, dbVars, workerVars>>

-----------------------------------------------------------------------------
(* tick: the registry and the clock are read once, at the start.           *)

TickList(w) ==
    /\ RecAt(w, "idle")
    /\ rec' = [rec EXCEPT ![w].pc = "tick", ![w].engs = registered,
                          ![w].late = {e \in registered : e[1] \in expired}]
    /\ UNCHANGED <<modalVars, dbVars, workerVars>>

(* Poll one engine's sandbox: it exited, is past its lifetime, or is fine. *)
PollExited(w) ==
    /\ RecAt(w, "tick")
    /\ \E e \in rec[w].engs :
          /\ Exited(SandboxOf(e))
          /\ rec' = [rec EXCEPT ![w].pc = "drop", ![w].engs = @ \ {e}, ![w].eng = {e}, ![w].job = e[1],
                                ![w].outcome = EndStatus(code[SandboxOf(e)])]
    /\ UNCHANGED <<modalVars, dbVars, workerVars>>

(* poll() raises: the exit code counts as -1.                              *)
PollRaises(w) ==
    /\ "poll" \in Faults
    /\ RecAt(w, "tick")
    /\ \E e \in rec[w].engs :
          rec' = [rec EXCEPT ![w].pc = "drop", ![w].engs = @ \ {e}, ![w].eng = {e}, ![w].job = e[1],
                             ![w].outcome = "failed"]
    /\ UNCHANGED <<modalVars, dbVars, workerVars>>

(* Faulty: goes on to drop the engine without stopping it.                 *)
PollExpiredKeepsSandbox(w) ==
    /\ RecAt(w, "tick")
    /\ \E e \in rec[w].engs \cap rec[w].late :
          /\ Running(SandboxOf(e))
          /\ rec' = [rec EXCEPT ![w].pc = "drop", ![w].engs = @ \ {e}, ![w].eng = {e}, ![w].job = e[1],
                                ![w].outcome = "timeout"]
    /\ UNCHANGED <<modalVars, dbVars, workerVars>>

PollExpired(w) ==
    /\ RecAt(w, "tick")
    /\ \E e \in rec[w].engs \cap rec[w].late :
          /\ Running(SandboxOf(e))
          /\ rec' = [rec EXCEPT ![w].pc = "expire", ![w].engs = @ \ {e}, ![w].eng = {e}, ![w].job = e[1],
                                ![w].outcome = "timeout"]
    /\ UNCHANGED <<modalVars, dbVars, workerVars>>

PollFine(w) ==
    /\ RecAt(w, "tick")
    /\ \E e \in rec[w].engs \ rec[w].late :
          /\ Running(SandboxOf(e))
          /\ rec' = [rec EXCEPT ![w].engs = @ \ {e}]
    /\ UNCHANGED <<modalVars, dbVars, workerVars>>

(* stop_engine; what it raises is swallowed.                               *)
Expire(w) ==
    /\ RecAt(w, "expire")
    /\ \/ Terminate(EngineSandbox(rec[w].job))
       \/ "kill" \in Faults /\ UNCHANGED modalVars
    /\ RecGoto(w, "drop")
    /\ UNCHANGED <<dbVars, workerVars>>

(* Faulty: closes the job and leaves the entry.                            *)
DropNothing(w) ==
    /\ RecAt(w, "drop")
    /\ rec' = [rec EXCEPT ![w].pc = "finish", ![w].eng = {}, ![w].back = "tick"]
    /\ UNCHANGED <<modalVars, dbVars, workerVars>>

Drop(w) ==
    /\ RecAt(w, "drop")
    /\ registered' = registered \ rec[w].eng
    /\ rec' = [rec EXCEPT ![w].pc = "finish", ![w].eng = {}, ![w].back = "tick"]
    /\ UNCHANGED <<modalVars, jobs, clock, logged, workerVars>>

(* Faulty: reaps at start-up only.                                         *)
TickWithoutReap(w) ==
    /\ RecAt(w, "tick")
    /\ rec[w].engs = {}
    /\ RecGoto(w, "idle")
    /\ UNCHANGED <<modalVars, dbVars, workerVars>>

TickDone(w) ==
    /\ RecAt(w, "tick")
    /\ rec[w].engs = {}
    /\ RecGoto(w, "reap_list")
    /\ UNCHANGED <<modalVars, dbVars, workerVars>>

-----------------------------------------------------------------------------
(* finish_engine_job: a read, then the update                              *)

RecFinishRead(w) ==
    /\ RecAt(w, "finish")
    /\ IF Closed(rec[w].job) THEN RecBack(w, rec[w].back) ELSE RecGoto(w, "finish_write")
    /\ UNCHANGED <<modalVars, dbVars, workerVars>>

RecFinishWrite(w) ==
    /\ RecAt(w, "finish_write")
    /\ SetStatus(rec[w].job, rec[w].outcome)
    /\ RecBack(w, rec[w].back)
    /\ UNCHANGED <<modalVars, clock, logged, registered, workerVars>>

(* Anything else that raises abandons the tick; the next one starts over.  *)
TickRaises(w) ==
    /\ "tick" \in Faults
    /\ rec[w].pc \in {"drop", "finish", "finish_write"} /\ rec[w].back = "tick"
    /\ rec' = [rec EXCEPT ![w] = [OffRec EXCEPT !.pc = "idle"]]
    /\ UNCHANGED <<modalVars, dbVars, workerVars>>

-----------------------------------------------------------------------------
(* reap_stale: the stale rows are listed once and not looked at again.     *)

ReapList(w) ==
    /\ RecAt(w, "reap_list")
    /\ rec' = [rec EXCEPT ![w].pc = "reap", ![w].jobs = StaleRunning]
    /\ UNCHANGED <<modalVars, dbVars, workerVars>>

(* Ours and alive.                                                         *)
ReapOwn(w) ==
    /\ RecAt(w, "reap")
    /\ \E j \in rec[w].jobs :
          /\ Executing(w) /\ JobOf(w) = j
          /\ rec' = [rec EXCEPT ![w].jobs = @ \ {j}]
    /\ UNCHANGED <<modalVars, dbVars, workerVars>>

(* Somebody else's: terminate_job_sandboxes lists the sandboxes ...        *)
ReapJob(w) ==
    /\ RecAt(w, "reap")
    /\ \E j \in rec[w].jobs :
          /\ ~(Executing(w) /\ JobOf(w) = j)
          /\ rec' = [rec EXCEPT ![w].pc = "reap_killing", ![w].jobs = @ \ {j}, ![w].job = j,
                                ![w].todo = LoggedOf(j), ![w].spare = RegisteredSandboxes]
    /\ UNCHANGED <<modalVars, dbVars, workerVars>>

(* ... takes them one at a time ...                                        *)
ReapKill(w) ==
    /\ RecAt(w, "reap_killing")
    /\ \E s \in rec[w].todo :
          /\ \/ KillUnlessSpared(rec[w].job, s, rec[w].spare)
             \/ "kill" \in Faults /\ UNCHANGED modalVars
          /\ rec' = [rec EXCEPT ![w].todo = @ \ {s}]
    /\ UNCHANGED <<dbVars, workerVars>>

(* Faulty: puts the job back into the queue.                               *)
ReapRequeue(w) ==
    /\ RecAt(w, "reap_killing")
    /\ rec[w].todo = {}
    /\ SetStatus(rec[w].job, "queued")
    /\ RecBack(w, "reap")
    /\ UNCHANGED <<modalVars, clock, logged, registered, workerVars>>

(* ... and the row becomes `interrupted`, whatever it is by now.           *)
ReapWrite(w) ==
    /\ RecAt(w, "reap_killing")
    /\ rec[w].todo = {}
    /\ SetStatus(rec[w].job, "interrupted")
    /\ RecBack(w, "reap")
    /\ UNCHANGED <<modalVars, clock, logged, registered, workerVars>>

(* Sleep for the reconciler's interval.                                    *)
ReapDone(w) ==
    /\ RecAt(w, "reap")
    /\ rec[w].jobs = {}
    /\ rec' = [rec EXCEPT ![w] = [OffRec EXCEPT !.pc = "idle"]]
    /\ UNCHANGED <<modalVars, dbVars, workerVars>>

RecNext(w) ==
    \/ ReattachEngines(w) \/ ReattachList(w) \/ AttachKeep(w) \/ AttachLost(w) \/ AttachDone(w)
    \/ TickList(w) \/ PollExited(w) \/ PollRaises(w) \/ PollExpired(w) \/ PollFine(w)
    \/ Expire(w) \/ Drop(w) \/ TickDone(w) \/ RecFinishRead(w) \/ RecFinishWrite(w) \/ TickRaises(w)
    \/ ReapList(w) \/ ReapOwn(w) \/ ReapJob(w) \/ ReapKill(w) \/ ReapWrite(w) \/ ReapDone(w)
=============================================================================

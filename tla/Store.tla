------------------------------- MODULE Store -------------------------------
(***************************************************************************)
(* The Postgres database the processes share (src/fes/store.py and the     *)
(* engine registry of src/fes/catalog.py): the jobs table, which is also   *)
(* the queue, the sandbox ids in the jobs' event logs, and the registered  *)
(* engines.  A call of Store or Catalog is one statement or one            *)
(* transaction, so one atomic step; whatever a caller does between two     *)
(* calls can interleave with everybody else's.                             *)
(***************************************************************************)
EXTENDS Sandboxes

CONSTANTS Worker,   \* worker processes; a restarted process is another one
          NoWorker, \* the column `worker` of a job nobody has claimed
          NoJob,
          Faults    \* what may go wrong, see FaultKind

(* stream: an exception that is not the sandbox's exit (a broken stdout    *)
(*   stream, a Modal or database error) reaches _execute                   *)
(* kill: a terminate() whose caller swallows exceptions does nothing       *)
(* poll: asking Modal for an exit code raises                              *)
(* lag: a live worker's heartbeats are late by more than STALE_AFTER_S     *)
(* tick: an exception that a tick does not handle                          *)
(* api: a request dies half way                                            *)
FaultKind == {"stream", "kill", "poll", "lag", "tick", "api"}

ASSUME NoneAssumption == NoWorker \notin Worker /\ NoJob \notin Job
ASSUME FaultsAssumption == Faults \subseteq FaultKind

TERMINAL == {"succeeded", "failed", "cancelled", "interrupted", "timeout", "stopped"}
Status == {"absent", "queued", "running", "serving"} \cup TERMINAL

VARIABLES jobs,        \* the jobs table
          clock,       \* the next value of the column `created`
          logged,      \* sandboxes whose id is in their job's event log
          registered   \* engines in the registry

dbVars == <<jobs, clock, logged, registered>>

(* stale: the heartbeat is older than STALE_AFTER_S.  result: the column   *)
(* is set; a start job's result names its engines, EnginesOf(j).           *)
Row == [status : Status, created : Nat, worker : Worker \cup {NoWorker},
        cancel_requested : BOOLEAN, stale : BOOLEAN, result : BOOLEAN]

NoRow == [status |-> "absent", created |-> 0, worker |-> NoWorker,
          cancel_requested |-> FALSE, stale |-> FALSE, result |-> FALSE]

StoreTypeOK ==
    /\ jobs \in [Job -> Row]
    /\ clock \in Nat
    /\ logged \subseteq Sandbox
    /\ registered \subseteq Engine

StoreInit ==
    /\ jobs = [j \in Job |-> NoRow]
    /\ clock = 1
    /\ logged = {}
    /\ registered = {}

StatusOf(j) == jobs[j].status

-----------------------------------------------------------------------------
(* Statements on the jobs table.  Each fixes jobs' and leaves the rest of  *)
(* the database to the action that uses it.                                *)

SetStatus(j, st) == jobs' = [jobs EXCEPT ![j].status = st]

(* create *)
Insert(j) ==
    /\ StatusOf(j) = "absent"
    /\ jobs' = [jobs EXCEPT ![j].status = "queued", ![j].created = clock]
    /\ clock' = clock + 1

(* Faulty: without ORDER BY created.                                       *)
AnyQueued(j) == StatusOf(j) = "queued"

(* ORDER BY created LIMIT 1 over the queued rows                           *)
OldestQueued(j) ==
    /\ StatusOf(j) = "queued"
    /\ \A i \in Job : StatusOf(i) = "queued" => jobs[j].created <= jobs[i].created

(* claim: one UPDATE; a row another claim holds is skipped, so of two      *)
(* concurrent claims the second takes the next row, as if it came later.   *)
ClaimRow(j, w) ==
    /\ OldestQueued(j)
    /\ jobs' = [jobs EXCEPT ![j].status = "running", ![j].worker = w, ![j].stale = FALSE]

(* cancel_if_queued, when it finds the row queued                          *)
CancelQueued(j) == StatusOf(j) = "queued" /\ SetStatus(j, "cancelled")

RequestCancel(j) == jobs' = [jobs EXCEPT ![j].cancel_requested = TRUE]

(* heartbeat: only the rows this worker still owns                         *)
Heartbeat(j, w) ==
    jobs' = [jobs EXCEPT ![j].stale = @ /\ jobs[j].worker # w]

(* Faulty: every running row, whatever its heartbeat.                      *)
AllRunning == {j \in Job : StatusOf(j) = "running"}

StaleRunning == {j \in Job : StatusOf(j) = "running" /\ jobs[j].stale}

-----------------------------------------------------------------------------
(* jobs.py helpers shared by the worker, the API and the reconciler.       *)

(* Faulty: the two exit codes the wrong way round.                         *)
SwappedEndStatus(rc) ==
    CASE rc = "exit137" -> "timeout"
      [] rc = "exit124" -> "stopped"
      [] OTHER -> "failed"

(* engine_end_status for an exit code, and for the poll that has none.     *)
EndStatus(rc) ==
    CASE rc = "exit137" -> "stopped"
      [] rc = "exit124" -> "timeout"
      [] OTHER -> "failed"

(* The early return of finish_engine_job.                                  *)
Closed(j) == StatusOf(j) \in TERMINAL

(* terminate_job_sandboxes reads the event log and then the registry.  At  *)
(* most one of a job's sandboxes, the engine's, can be in the registry, so *)
(* the two reads have the outcome of one.                                  *)
(* LoggedPrepOf is faulty: it forgets the sandbox of role "engine".        *)
LoggedPrepOf(j) == logged \cap {<<j, "prep">>}
LoggedOf(j) == logged \cap SandboxesOf(j)
RegisteredSandboxes == {SandboxOf(e) : e \in registered}

(* ... and spares a registered engine of a job that is done starting it.   *)
(* The status is read again for every sandbox, just before terminate().    *)
Spared(j, s, exempt) == s \in exempt /\ StatusOf(j) \in {"succeeded", "serving"}

KillUnlessSpared(j, s, exempt) ==
    IF Spared(j, s, exempt) THEN UNCHANGED modalVars ELSE Terminate(s)
=============================================================================

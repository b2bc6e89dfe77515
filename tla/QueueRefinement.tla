-------------------------- MODULE QueueRefinement --------------------------
(***************************************************************************)
(* The jobs table as a JobQueue: the queued rows by `created`, the column  *)
(* `worker`, and the rows cancelled without a worker.                      *)
(***************************************************************************)
EXTENDS ControlPlane

Queued == {j \in Job : StatusOf(j) = "queued"}
InOrder(s) == \A m, n \in DOMAIN s : m < n => jobs[s[m]].created < jobs[s[n]].created

Waiting == CHOOSE s \in [1 .. Cardinality(Queued) -> Queued] : InOrder(s)
Holder == [j \in Job |-> jobs[j].worker]
Withdrawn == {j \in Job : StatusOf(j) = "cancelled" /\ jobs[j].worker = NoWorker}

Queue == INSTANCE JobQueue WITH waiting <- Waiting, holder <- Holder, withdrawn <- Withdrawn

(* The control plane implements the queue its docstrings promise, whatever *)
(* its workers, cancels, crashes and late heartbeats do.                   *)
ImplementsQueue == Queue!QueueSpec
=============================================================================

------------------------------ MODULE JobQueue ------------------------------
(***************************************************************************)
(* What the job queue promises its users (the docstrings of Store and of   *)
(* JobWorker): jobs wait in the order of submission; a job that waits is   *)
(* taken by one worker, the longest waiting first, or withdrawn; neither   *)
(* can be undone, and nothing happens to a job twice.                      *)
(***************************************************************************)
EXTENDS Sequences, SequencesExt

CONSTANTS Job, Worker, NoWorker

VARIABLES waiting,    \* the jobs that wait, in order
          holder,     \* the worker that took a job
          withdrawn   \* the jobs cancelled before a worker took them

qvars == <<waiting, holder, withdrawn>>

QueueInit ==
    /\ waiting = <<>>
    /\ holder = [j \in Job |-> NoWorker]
    /\ withdrawn = {}

Fresh(j) == ~Contains(waiting, j) /\ holder[j] = NoWorker /\ j \notin withdrawn

Enqueue(j) ==
    /\ Fresh(j)
    /\ waiting' = Append(waiting, j)
    /\ UNCHANGED <<holder, withdrawn>>

Take(w) ==
    /\ waiting # <<>>
    /\ holder' = [holder EXCEPT ![Head(waiting)] = w]
    /\ waiting' = Tail(waiting)
    /\ UNCHANGED withdrawn

Withdraw(j) ==
    /\ \E i \in DOMAIN waiting : waiting[i] = j /\ waiting' = RemoveAt(waiting, i)
    /\ withdrawn' = withdrawn \cup {j}
    /\ UNCHANGED holder

QueueNext ==
    \/ \E j \in Job : Enqueue(j) \/ Withdraw(j)
    \/ \E w \in Worker : Take(w)

QueueSpec == QueueInit /\ [][QueueNext]_qvars
=============================================================================

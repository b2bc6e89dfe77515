------------------------------ MODULE EventLog ------------------------------
(***************************************************************************)
(* The events of one job: Store.append and Store.events (src/fes/store.py) *)
(* and the streams that follow them (job_stream in src/fes/api.py).        *)
(*                                                                         *)
(* An append is one INSERT that reads MAX(seq) and takes the next number.  *)
(* No other thread of its process comes between the two: they share the    *)
(* Store and its lock.  A thread of another process may: then the primary  *)
(* key lets one of them in and the other starts again.                     *)
(***************************************************************************)
EXTENDS Integers, FiniteSets

CONSTANTS Process,    \* the API and the workers, each with a Store of its own
          Thread,     \* the threads that write a job's events
          Reader,     \* the streams of its events
          ProcessOf,  \* the process each thread and stream is in
          NoThread,   \* nobody
          Attempts,   \* the range() of append: 20
          Limit,      \* the LIMIT of events: 5000
          Drops       \* connections a stream may lose, each (a bound)

Client == Thread \cup Reader

ASSUME ProcessAssumption == ProcessOf \in [Client -> Process]
ASSUME ClientAssumption == Thread \cap Reader = {} /\ NoThread \notin Thread
ASSUME LimitsAssumption == Attempts \in Nat \ {0} /\ Limit \in Nat \ {0} /\ Drops \in Nat

VARIABLES log,    \* the job's rows in events; `by` is who wrote it
          lock,   \* lock[p]: the thread inside append in p
          pen,    \* pen[t]: where a thread's append is
          reader  \* where the streams are

logVars == <<log, lock, pen, reader>>

(* top: the MAX(seq) the INSERT saw.  tries: the attempts lost to a clash. *)
(* since: the top of the first attempt.                                    *)
IdlePen == [busy |-> FALSE, top |-> 0, tries |-> 0, since |-> 0]

(* A batch is the rows after `after` up to `upto`; `empty` says that it    *)
(* had none.  got: the rows the client received, over all its connections. *)
NewReader == [pc |-> "fetch", after |-> 0, upto |-> 0, empty |-> FALSE, got |-> {}, drops |-> 0]

LogInit ==
    /\ log = {}
    /\ lock = [p \in Process |-> NoThread]
    /\ pen = [t \in Thread |-> IdlePen]
    /\ reader = [r \in Reader |-> NewReader]

Seqs == {row.seq : row \in log}
IsLast(n) == n \in Seqs \cup {0} /\ \A m \in Seqs : m <= n

(* Every other statement of a Store waits for the append in its process.   *)
Free(c) == lock[ProcessOf[c]] = NoThread

-----------------------------------------------------------------------------
(* append                                                                  *)

(* Faulty: the number comes from a counter, before the row is visible.     *)
SelectReserved(t) ==
    /\ Free(t) /\ ~pen[t].busy
    /\ LET taken == {0} \cup Seqs \cup {pen[u].top + 1 : u \in {v \in Thread : pen[v].busy}} IN
       \E n \in taken :
          /\ \A m \in taken : m <= n
          /\ pen' = [pen EXCEPT ![t] = [busy |-> TRUE, top |-> n, tries |-> 0, since |-> n]]
    /\ lock' = [lock EXCEPT ![ProcessOf[t]] = t]

(* Faulty: the threads of a process do not wait for each other.            *)
SelectUnlocked(t) ==
    /\ ~pen[t].busy
    /\ \E n \in Seqs \cup {0} :
          /\ IsLast(n)
          /\ pen' = [pen EXCEPT ![t] = [busy |-> TRUE, top |-> n, tries |-> 0, since |-> n]]
    /\ lock' = [lock EXCEPT ![ProcessOf[t]] = t]

(* Take the lock; the statement sees the rows committed by now.            *)
Select(t) ==
    /\ Free(t) /\ ~pen[t].busy
    /\ \E n \in Seqs \cup {0} :
          /\ IsLast(n)
          /\ pen' = [pen EXCEPT ![t] = [busy |-> TRUE, top |-> n, tries |-> 0, since |-> n]]
    /\ lock' = [lock EXCEPT ![ProcessOf[t]] = t]

Release(t) ==
    /\ pen' = [pen EXCEPT ![t] = IdlePen]
    /\ lock' = [lock EXCEPT ![ProcessOf[t]] = NoThread]

(* The row goes in: nobody else has its number.                            *)
Insert(t, type) ==
    /\ pen[t].busy /\ pen[t].top + 1 \notin Seqs
    /\ log' = log \cup {[seq |-> pen[t].top + 1, type |-> type, by |-> t]}
    /\ Release(t)

(* Faulty: no end to the attempts.                                         *)
ClashForever(t) ==
    /\ pen[t].busy /\ pen[t].top + 1 \in Seqs
    /\ \E n \in Seqs : IsLast(n) /\ pen' = [pen EXCEPT ![t].top = n, ![t].tries = @ + 1]
    /\ UNCHANGED lock

(* UniqueViolation: select again, in the same hold of the lock.            *)
Clash(t) ==
    /\ pen[t].busy /\ pen[t].top + 1 \in Seqs
    /\ pen[t].tries + 1 < Attempts
    /\ \E n \in Seqs : IsLast(n) /\ pen' = [pen EXCEPT ![t].top = n, ![t].tries = @ + 1]
    /\ UNCHANGED lock

(* RuntimeError("could not append an event"), after the last attempt.      *)
GiveUp(t) ==
    /\ pen[t].busy /\ pen[t].top + 1 \in Seqs
    /\ pen[t].tries + 1 = Attempts
    /\ Release(t)

-----------------------------------------------------------------------------
(* events, and the generator of job_stream                                 *)

(* The first Limit rows after `after`, in the order of seq.                *)
Fetch(r) ==
    /\ reader[r].pc = "fetch" /\ Free(r)
    /\ LET rows == {n \in Seqs : n > reader[r].after /\ Cardinality({m \in Seqs : m > reader[r].after /\ m <= n}) <= Limit} IN
       \E n \in rows \cup {reader[r].after} :
          /\ \A m \in rows : m <= n
          /\ reader' = [reader EXCEPT ![r].upto = n, ![r].empty = (rows = {}), ![r].pc = "yield"]

(* One event of the batch reaches the client.                              *)
Yield(r) ==
    /\ reader[r].pc = "yield"
    /\ \E row \in log :
          /\ row.seq > reader[r].after /\ row.seq <= reader[r].upto
          /\ \A n \in Seqs : n > reader[r].after => row.seq <= n
          /\ reader' = [reader EXCEPT ![r].got = @ \cup {row}, ![r].after = row.seq]

(* The batch is out: read the status; stop, or wait and fetch again.       *)
Check(r, over) ==
    /\ reader[r].pc = "yield" /\ reader[r].after = reader[r].upto /\ Free(r)
    /\ reader' = [reader EXCEPT ![r].pc = IF over /\ reader[r].empty THEN "ended" ELSE "fetch"]

(* The connection breaks; the browser comes back with the number of the    *)
(* last event it received as Last-Event-ID.                                *)
Reconnect(r) ==
    /\ reader[r].pc # "ended" /\ reader[r].drops < Drops
    /\ reader' = [reader EXCEPT ![r].pc = "fetch", ![r].drops = @ + 1]

-----------------------------------------------------------------------------
(* The events of a job: "progress" is any that a run emits before its end. *)
EventType == {"queued", "started", "progress", "serving", "succeeded", "error", "failed", "timeout",
              "cancel_requested", "cancelled", "engine_stopped", "engine_exited", "stopped", "interrupted"}

Row == [seq : Nat \ {0}, type : EventType, by : Thread]

LogTypeOK ==
    /\ log \subseteq Row
    /\ lock \in [Process -> Thread \cup {NoThread}]
    /\ pen \in [Thread -> [busy : BOOLEAN, top : Nat, tries : 0 .. (Attempts - 1), since : Nat]]
    /\ reader \in [Reader -> [pc : {"fetch", "yield", "ended"}, after : Nat, upto : Nat, empty : BOOLEAN,
                              got : SUBSET Row, drops : 0 .. Drops]]

(* Whatever processes append at once and whenever connections break, a     *)
(* client that has event n has every event of the log up to n, and each    *)
(* number stands for one event: a stream never passes an event that is     *)
(* committed later (`after` of src/fes/api.py, the clash of src/fes/       *)
(* store.py).                                                              *)
NoneSkipped ==
    /\ \A r \in Reader : \A row \in log : row.seq <= reader[r].after => row \in reader[r].got
    /\ \A a, b \in log : a.seq = b.seq => a = b

(* Each attempt an append lost was lost to a row of its own, written by    *)
(* another process since the append began; so an append fails only after   *)
(* `Attempts` foreign appends to the job have gone through meanwhile.      *)
LostToOthers ==
    \A t \in Thread : pen[t].busy =>
        \A n \in (pen[t].since + 1) .. (pen[t].since + pen[t].tries) :
            \E row \in log : row.seq = n /\ ProcessOf[row.by] # ProcessOf[t]
=============================================================================

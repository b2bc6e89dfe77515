------------------------------ MODULE JobStory ------------------------------
(***************************************************************************)
(* One job's status and its event log together: who updates the row, who   *)
(* appends what, and in which order (src/fes/jobs.py).  A thread's program *)
(* is a sequence of updates and appends; between any two of them the other *)
(* threads, the streams and the crash of a process may come.               *)
(***************************************************************************)
EXTENDS EventLog, Sequences

CONSTANTS Submitter,  \* the request that submits the job
          Slots,      \* the slot that claims it
          Cancellers, \* the cancel requests
          Finishers,  \* stop_engine, Reconciler.tick and reattach_serving,
                      \* for its engines
          Reapers,    \* reap_stale of the other workers
          Progress,   \* events a run emits before it ends, at most (a bound)
          Endings,    \* the statuses looked at, of those a run or an engine may
                      \* end with (a bound: many of them are told alike)
          Mortal      \* the processes that may crash

ASSUME RolesAssumption == Thread = {Submitter} \cup Slots \cup Cancellers \cup Finishers \cup Reapers
ASSUME MortalAssumption == Mortal \subseteq Process /\ Progress \in Nat

Terminal == {"succeeded", "failed", "cancelled", "interrupted", "timeout", "stopped"}
StreamEnd == Terminal \cup {"serving"}

VARIABLES status,   \* the row's status
          flagged,  \* its cancel_requested
          thread    \* what each thread still has to do

vars == <<status, flagged, thread, logVars>>

(* try: an exception goes to the except clauses of _execute.               *)
IdleThread == [pc |-> "new", todo |-> <<>>, try |-> FALSE, emits |-> 0]

Init ==
    /\ LogInit
    /\ status = "absent"
    /\ flagged = FALSE
    /\ thread = [t \in Thread |-> IdleThread]

App(type) == [op |-> "append", arg |-> type]
Upd(to) == [op |-> "update", arg |-> to]

(* The event that announces a status: _execute calls a failure "error".    *)
Announcement(t, to) == IF t \in Slots /\ to = "failed" THEN "error" ELSE to
End(t, to) == <<Upd(to), App(Announcement(t, to))>>

New(t) == thread[t].pc = "new" /\ Free(t)
Does(t, todo) == thread' = [thread EXCEPT ![t].pc = "busy", ![t].todo = todo]
Goto(t, pc) == thread' = [thread EXCEPT ![t].pc = pc]
NextIs(t, op) == thread[t].todo # <<>> /\ Head(thread[t].todo).op = op
Advance(t) == thread' = [thread EXCEPT ![t].todo = Tail(@)]

-----------------------------------------------------------------------------
(* One statement of a thread's program                                     *)

Update(t) ==
    /\ NextIs(t, "update") /\ Free(t)
    /\ status' = Head(thread[t].todo).arg
    /\ Advance(t)
    /\ UNCHANGED <<flagged, logVars>>

AppendSelect(t) == NextIs(t, "append") /\ Select(t) /\ UNCHANGED <<status, flagged, thread, log, reader>>
AppendClash(t) == NextIs(t, "append") /\ Clash(t) /\ UNCHANGED <<status, flagged, thread, log, reader>>

AppendInsert(t) ==
    /\ NextIs(t, "append") /\ Insert(t, Head(thread[t].todo).arg)
    /\ Advance(t)
    /\ UNCHANGED <<status, flagged, reader>>

(* The RuntimeError of append: within the try of _execute the job fails    *)
(* (or is cancelled, when its event is set); elsewhere the thread ends, a  *)
(* slot for good.                                                          *)
AppendRaises(t) ==
    /\ NextIs(t, "append") /\ GiveUp(t)
    /\ IF thread[t].try
       THEN \E to \in {"failed"} \cup (IF flagged THEN {"cancelled"} ELSE {}) :
               thread' = [thread EXCEPT ![t].pc = "busy", ![t].todo = End(t, to), ![t].try = FALSE]
       ELSE thread' = [thread EXCEPT ![t].pc = "raised", ![t].todo = <<>>]
    /\ UNCHANGED <<status, flagged, log, reader>>

-----------------------------------------------------------------------------
(* The programs                                                            *)

(* submit: create, then "queued".                                          *)
Submit ==
    /\ New(Submitter)
    /\ status' = "queued"
    /\ Does(Submitter, <<App("queued")>>)
    /\ UNCHANGED <<flagged, logVars>>

(* claim; _execute logs "started" before its try.                          *)
Claim(s) ==
    /\ New(s) /\ status = "queued"
    /\ status' = "running"
    /\ thread' = [thread EXCEPT ![s].pc = "run", ![s].todo = <<App("started")>>]
    /\ UNCHANGED <<flagged, logVars>>

(* In the try: emit a progress event ...                                   *)
Emit(s) ==
    /\ thread[s].pc = "run" /\ thread[s].todo = <<>> /\ thread[s].emits < Progress
    /\ thread' = [thread EXCEPT ![s].todo = <<App("progress")>>, ![s].try = TRUE, ![s].emits = @ + 1]
    /\ UNCHANGED <<status, flagged, logVars>>

Outcomes == Endings \cap ({"serving", "succeeded", "failed", "timeout"} \cup (IF flagged THEN {"cancelled"} ELSE {}))

(* Faulty: the row is closed and nothing says so.                          *)
EndRunSilently(s) ==
    /\ thread[s].pc = "run" /\ thread[s].todo = <<>>
    /\ \E to \in Outcomes : thread' = [thread EXCEPT ![s].pc = "busy", ![s].todo = <<Upd(to)>>]
    /\ UNCHANGED <<status, flagged, logVars>>

(* ... or end.  The update and the event of a success are still in the     *)
(* try, those of the except clauses are not.                               *)
EndRun(s) ==
    /\ thread[s].pc = "run" /\ thread[s].todo = <<>>
    /\ \E to \in Outcomes : thread' = [thread EXCEPT ![s].pc = "busy", ![s].todo = End(s, to),
                                                     ![s].try = to \in {"serving", "succeeded"}]
    /\ UNCHANGED <<status, flagged, logVars>>

(* cancel reads the row ...                                                *)
CancelGet(c) ==
    /\ New(c) /\ status # "absent"
    /\ Goto(c, IF status \in Terminal THEN "busy" ELSE IF status = "serving" THEN "finish" ELSE "withdraw")
    /\ UNCHANGED <<status, flagged, logVars>>

(* ... and withdraws the job if nobody has claimed it,                     *)
CancelWithdraw(c) ==
    /\ thread[c].pc = "withdraw" /\ Free(c)
    /\ IF status = "queued"
       THEN status' = "cancelled" /\ Does(c, <<App("cancelled")>>)
       ELSE Goto(c, "flag") /\ UNCHANGED status
    /\ UNCHANGED <<flagged, logVars>>

(* or asks its worker to stop it.                                          *)
CancelFlag(c) ==
    /\ thread[c].pc = "flag" /\ Free(c)
    /\ flagged' = TRUE
    /\ Does(c, <<App("cancel_requested")>>)
    /\ UNCHANGED <<status, logVars>>

(* A registered engine of the job is stopped, past its lifetime or gone;   *)
(* it may be so before its job is serving.  One of several that share the  *)
(* sandbox leaves the job as it is.                                        *)
EngineGone(f) ==
    /\ New(f) /\ status \in {"running", "serving"}
    /\ Goto(f, "finish") \/ Does(f, <<App("engine_stopped")>>)
    /\ UNCHANGED <<status, flagged, logVars>>

(* reattach_serving of a worker that starts lists a serving job whose      *)
(* engine is not registered ...                                            *)
Reattach(f) ==
    /\ New(f) /\ status = "serving"
    /\ Goto(f, "attach")
    /\ UNCHANGED <<flagged, status, logVars>>

(* ... and, if its sandbox is gone too, writes `serving` once more, over   *)
(* whatever the row is by now, for finish_engine_job to apply.             *)
AttachLost(f) ==
    /\ thread[f].pc = "attach" /\ Free(f)
    /\ status' = "serving"
    /\ Goto(f, "finish")
    /\ UNCHANGED <<flagged, logVars>>

(* finish_engine_job reads the row and decides.                            *)
Finish(t) ==
    /\ thread[t].pc = "finish" /\ Free(t)
    /\ \E to \in IF t \in Cancellers THEN {"stopped"} ELSE Endings \cap {"stopped", "timeout", "failed"} :
          Does(t, IF status \in Terminal THEN <<>> ELSE <<App("engine_exited")>> \o End(t, to))
    /\ UNCHANGED <<status, flagged, logVars>>

(* reap_stale: the heartbeat is old and the job is no slot's of ours.      *)
Reap(t) ==
    /\ New(t) /\ status = "running"
    /\ \A s \in Slots : ProcessOf[s] = ProcessOf[t] => thread[s].pc # "run"
    /\ Does(t, End(t, "interrupted"))
    /\ UNCHANGED <<status, flagged, logVars>>

(* A process dies with its threads; an INSERT that was under way is undone.*)
(* Streams of its clients reconnect when it is back.                       *)
Crash(p) ==
    /\ \E t \in Thread : ProcessOf[t] = p /\ (thread[t].todo # <<>> \/ thread[t].pc \notin {"new", "busy", "raised"})
    /\ thread' = [t \in Thread |-> IF ProcessOf[t] = p /\ thread[t].pc # "new"
                                   THEN [thread[t] EXCEPT !.pc = "raised", !.todo = <<>>] ELSE thread[t]]
    /\ pen' = [t \in Thread |-> IF ProcessOf[t] = p THEN IdlePen ELSE pen[t]]
    /\ lock' = [lock EXCEPT ![p] = NoThread]
    /\ reader' = [r \in Reader |-> IF ProcessOf[r] = p /\ reader[r].pc = "yield"
                                   THEN [reader[r] EXCEPT !.pc = "fetch"] ELSE reader[r]]
    /\ UNCHANGED <<status, flagged, log>>

-----------------------------------------------------------------------------
(* The streams                                                             *)

StreamFetch(r) == status # "absent" /\ Fetch(r) /\ UNCHANGED <<status, flagged, thread, log, lock, pen>>
StreamYield(r) == Yield(r) /\ UNCHANGED <<status, flagged, thread, log, lock, pen>>
StreamReconnect(r) == Reconnect(r) /\ UNCHANGED <<status, flagged, thread, log, lock, pen>>

(* Faulty: a job that serves is not over for its stream.                   *)
StreamCheckTerminal(r) == Check(r, status \in Terminal) /\ UNCHANGED <<status, flagged, thread, log, lock, pen>>

StreamCheck(r) == Check(r, status \in StreamEnd) /\ UNCHANGED <<status, flagged, thread, log, lock, pen>>

ThreadNext(t) == Update(t) \/ AppendSelect(t) \/ AppendClash(t) \/ AppendInsert(t) \/ AppendRaises(t)
StreamNext(r) == StreamFetch(r) \/ StreamYield(r) \/ StreamCheck(r)

Next ==
    \/ \E t \in Thread : ThreadNext(t)
    \/ Submit
    \/ \E s \in Slots : Claim(s) \/ Emit(s) \/ EndRun(s)
    \/ \E c \in Cancellers : CancelGet(c) \/ CancelWithdraw(c) \/ CancelFlag(c)
    \/ \E f \in Finishers : EngineGone(f) \/ Reattach(f) \/ AttachLost(f)
    \/ \E t \in Cancellers \cup Finishers : Finish(t)
    \/ \E t \in Reapers : Reap(t)
    \/ \E p \in Mortal : Crash(p)
    \/ \E r \in Reader : StreamNext(r) \/ StreamReconnect(r)

(* Threads that hold a lock get on with their statement, and the server    *)
(* gets on with its streams.  Nothing is asked of the job.                 *)
Fairness ==
    /\ \A t \in Thread : WF_vars(AppendClash(t)) /\ WF_vars(AppendInsert(t)) /\ WF_vars(AppendRaises(t))
    /\ \A r \in Reader : WF_vars(StreamFetch(r)) /\ WF_vars(StreamYield(r)) /\ WF_vars(StreamCheck(r))

Spec == Init /\ [][Next]_vars
FairSpec == Spec /\ Fairness

-----------------------------------------------------------------------------
(* A status that ends a stream is told in the log, or a thread is about to *)
(* tell it or to replace it (finish_engine_job replaces a row that serves),*)
(* or a thread died on the way: no order of two endings, of an ending and  *)
(* a failing append, of a cancel and a run, or of an ending and a worker   *)
(* that attaches closes a job in silence (update then append, throughout   *)
(* jobs.py; reattach_serving's update has no event of its own).            *)
EndIsAnnounced ==
    LET Tells(type) == type = status \/ (status = "failed" /\ type = "error") IN
    status \in StreamEnd =>
        \/ \E row \in log : Tells(row.type)
        \/ \E t \in Thread : \E i \in DOMAIN thread[t].todo :
               thread[t].todo[i].op = "update" \/ Tells(thread[t].todo[i].arg)
        \/ status = "serving" /\ \E t \in Thread : thread[t].pc = "finish"
        \/ \E t \in Thread : thread[t].pc = "raised"

(* A client that keeps reading is told that the job is over, or serving,   *)
(* however the log grows and connections break (job_stream ends when the   *)
(* status is in STREAM_END and nothing is left to send).                   *)
StreamsEnd == \A r \in Reader : status \in StreamEnd ~> reader[r].pc = "ended"

(* "replay a job's events after `after`, then follow live until it ends":  *)
(* when a stream ends, its client has every event of the log.              *)
EndsComplete ==
    [][\A r \in Reader : reader[r].pc # "ended" /\ reader'[r].pc = "ended" => log \subseteq reader[r].got]_vars
=============================================================================

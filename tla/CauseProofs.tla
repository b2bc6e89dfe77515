---------------------------- MODULE CauseProofs ----------------------------
(***************************************************************************)
(* Why a job ended, for every set of jobs, workers, groups and calls, with *)
(* crashes and any faults.  Some faults the code does not tell apart from  *)
(* the real thing: a broken stream or an unanswered poll counts as a       *)
(* failure, a late heartbeat as a death.  Each of them makes one status    *)
(* doubtful, and the others keep their meaning.                            *)
(*                                                                         *)
(* An end status is decided several steps before it is written, by a slot, *)
(* a reconciler or a call, so the invariant says of each what has already  *)
(* happened when it carries a status, and that it cannot be undone: exit   *)
(* codes stay, requests stay, the dead stay dead.                          *)
(***************************************************************************)
EXTENDS ControlPlaneProofs

(* Faults that look like something else: an exception like an exit, and a  *)
(* late heartbeat like a death.                                            *)
Truthful == Faults \cap {"stream", "poll"} = {}
Punctual == "lag" \notin Faults
NoLies == Truthful /\ Punctual

(* The places of a slot before there is an engine, while it downloads, and *)
(* on the way to the end of the job.                                       *)
Early == {"claimed", "fetch", "log_prep", "prep", "launch"}
Prepping == {"log_prep", "prep"}
Ending == {"except", "cleanup", "killing", "close"}

(* The download's sandbox has exited, and nobody will start an engine.     *)
GivenUp(j) ==
    /\ code[EngineSandbox(j)] = "unborn" /\ Exited(<<j, "prep">>)
    /\ \A w \in Worker : slot[w].job = j => slot[w].pc \in Ending

Broken(j) == Truthful => Exited(EngineSandbox(j)) \/ GivenUp(j)

(* The worker that claimed the job is dead.                                *)
Orphan(j) == Punctual => jobs[j].worker \in Worker /\ up[jobs[j].worker] = "dead"

(* EndStatusHasCause, as far as the faults leave statuses a meaning.       *)
CausesKnown ==
    \A j \in Job :
       LET s == EngineSandbox(j) IN
       /\ StatusOf(j) = "timeout" => j \in expired \/ code[s] = "exit124"
       /\ StatusOf(j) = "stopped" => code[s] = "exit137" \/ \E c \in Call : call[c].job = j
       /\ StatusOf(j) = "failed" => Broken(j)
       /\ StatusOf(j) = "cancelled" => jobs[j].cancel_requested \/ jobs[j].worker = NoWorker
       /\ StatusOf(j) = "interrupted" => Orphan(j)

(* What a slot or a reconciler knows when it carries the outcome o.        *)
Ended(j, o) ==
    /\ o = "timeout" => j \in expired \/ code[EngineSandbox(j)] = "exit124"
    /\ o = "stopped" => code[EngineSandbox(j)] = "exit137"
    /\ o = "failed" => Broken(j)
    /\ o = "cancelled" => jobs[j].cancel_requested
    /\ o # "interrupted"

(* A reconciler only ever sees engines.                                    *)
RecEnded(j, o) ==
    Ended(j, o) /\ (o = "failed" /\ Truthful => Exited(EngineSandbox(j)))

RowOK(j) ==
    /\ InQueue(StatusOf(j)) => jobs[j].worker = NoWorker /\ code[EngineSandbox(j)] = "unborn"
    /\ StatusOf(j) = "running" => jobs[j].worker \in Worker /\ up[jobs[j].worker] # "off"
    /\ StatusOf(j) = "running" /\ jobs[j].stale => Orphan(j)
    /\ StatusOf(j) = "interrupted" => Orphan(j)

SlotCause(r) ==
    /\ r.pc \in Ending => Ended(r.job, r.outcome)
    /\ r.event => r.job \in Job /\ jobs[r.job].cancel_requested
    /\ r.pc \in Prepping => code[<<r.job, "prep">>] # "unborn"
    /\ r.pc \in Early => code[EngineSandbox(r.job)] = "unborn"

RecCause(r) ==
    /\ r.pc \in {"expire", "drop", "finish", "finish_write"} => r.job \in Job /\ RecEnded(r.job, r.outcome)
    /\ r.pc = "expire" => r.job \in expired
    /\ \A e \in r.late : e[1] \in expired
    /\ r.pc \in {"reap", "reap_killing"} => \A j \in r.jobs : Orphan(j)
    /\ r.pc = "reap_killing" => r.job \in Job /\ Orphan(r.job)

CInv ==
    /\ \A j \in Job : RowOK(j)
    /\ CausesKnown
    /\ \A w \in Worker : SlotCause(slot[w]) /\ RecCause(rec[w])
    /\ \A c \in Call : call[c].pc = "new" => call[c].job = NoJob

-----------------------------------------------------------------------------
(* What no step undoes.                                                    *)

GivenUpNext(j) ==
    /\ code'[EngineSandbox(j)] = "unborn" /\ code'[<<j, "prep">>] \in ExitCode
    /\ \A w \in Worker : slot'[w].job = j => slot'[w].pc \in Ending

BrokenNext(j) == Truthful => code'[EngineSandbox(j)] \in ExitCode \/ GivenUpNext(j)

EndedNext(j, o) ==
    /\ o = "timeout" => j \in expired' \/ code'[EngineSandbox(j)] = "exit124"
    /\ o = "stopped" => code'[EngineSandbox(j)] = "exit137"
    /\ o = "failed" => BrokenNext(j)
    /\ o = "cancelled" => jobs'[j].cancel_requested
    /\ o # "interrupted"

RecEndedNext(j, o) ==
    EndedNext(j, o) /\ (o = "failed" /\ Truthful => code'[EngineSandbox(j)] \in ExitCode)

OrphanNext(j) == Punctual => jobs'[j].worker \in Worker /\ up'[jobs'[j].worker] = "dead"

CauseNext(j, st) ==
    /\ st = "timeout" => j \in expired' \/ code'[EngineSandbox(j)] = "exit124"
    /\ st = "stopped" => code'[EngineSandbox(j)] = "exit137" \/ \E c \in Call : call'[c].job = j
    /\ st = "failed" => BrokenNext(j)
    /\ st = "cancelled" => jobs'[j].cancel_requested \/ jobs'[j].worker = NoWorker
    /\ st = "interrupted" => OrphanNext(j)

(* Only the slot that has the job starts its engine.                       *)
Launching(j) ==
    \E w \in Worker : slot[w].job = j /\ slot[w].pc = "launch" /\ slot'[w].pc = "log_engine"

SandboxesKept ==
    /\ expired \subseteq expired'
    /\ \A s \in Sandbox : Exited(s) => code'[s] = code[s]
    /\ \A s \in Sandbox : code[s] # "unborn" => code'[s] # "unborn"
    /\ \A j \in Job : code[EngineSandbox(j)] = "unborn" => code'[EngineSandbox(j)] = "unborn" \/ Launching(j)

(* A slot gets its job from the queue, and there is no way back from an    *)
(* end that has begun.                                                     *)
SlotsMove ==
    \A w \in Worker : slot'[w].job \in Job =>
       \/ InQueue(jobs[slot'[w].job].status)
       \/ slot'[w].job = slot[w].job /\ (slot[w].pc \in Ending => slot'[w].pc \in Ending)

WorkersKept ==
    \A w \in Worker : /\ up[w] = "dead" => up'[w] = "dead"
                      /\ up[w] # "off" => up'[w] # "off"

CallsKept == \A c \in Call : call[c].job \in Job => call'[c].job = call[c].job

(* A row stays, is submitted, is claimed by a live worker, or is given a   *)
(* status for a cause.                                                     *)
RowMoves(j) ==
    \/ /\ jobs'[j].status = jobs[j].status
       /\ jobs'[j].worker = jobs[j].worker
       /\ Punctual /\ jobs'[j].stale => jobs[j].stale \/ up[jobs[j].worker] # "up"
    \/ /\ jobs[j].status = "absent" /\ jobs'[j].status = "queued"
       /\ jobs'[j].worker = jobs[j].worker
    \/ /\ jobs[j].status = "queued" /\ jobs'[j].status = "running"
       /\ jobs'[j].worker \in Worker /\ up'[jobs'[j].worker] = "up"
       /\ ~jobs'[j].stale
    \/ /\ jobs'[j].status \in TERMINAL \cup {"serving"}
       /\ jobs'[j].worker = jobs[j].worker
       /\ CauseNext(j, jobs'[j].status)

RowsMove ==
    \A j \in Job : RowMoves(j) /\ (jobs[j].cancel_requested => jobs'[j].cancel_requested)

Moves == SandboxesKept /\ SlotsMove /\ WorkersKept /\ CallsKept /\ RowsMove

-----------------------------------------------------------------------------
(* Sandboxes                                                               *)

LEMMA SandboxNames ==
    \A j \in Job : /\ EngineSandbox(j) \in Sandbox /\ <<j, "prep">> \in Sandbox
                   /\ EngineSandbox(j) \in SandboxesOf(j) /\ <<j, "prep">> \in SandboxesOf(j)
                   /\ SandboxesOf(j) \subseteq Sandbox
  BY DEF EngineSandbox, Sandbox, SandboxesOf, Role

LEMMA SandboxesSame == ASSUME UNCHANGED modalVars PROVE SandboxesKept
  BY DEF SandboxesKept, modalVars

LEMMA CreateKept ==
    ASSUME SandboxesTypeOK, NEW s, Create(s), \A j \in Job : s = EngineSandbox(j) => Launching(j)
    PROVE  SandboxesKept
  <1>1. \A t \in Sandbox : t # s => code'[t] = code[t] BY DEF Create, SandboxesTypeOK
  <1>2. \A j \in Job : code[EngineSandbox(j)] = "unborn" => code'[EngineSandbox(j)] = "unborn" \/ Launching(j)
    BY <1>1, SandboxNames
  <1> QED BY <1>2 DEF Create, SandboxesTypeOK, SandboxesKept, Exited, ExitCode

LEMMA TerminateKept == ASSUME SandboxesTypeOK, NEW s, Terminate(s) PROVE SandboxesKept
  BY SandboxNames DEF Terminate, SandboxesTypeOK, SandboxesKept, Exited, ExitCode

LEMMA KillServerKept == ASSUME NEW e, KillServer(e) PROVE SandboxesKept
  BY DEF KillServer, SandboxesKept

LEMMA KillKept == ASSUME SandboxesTypeOK, NEW j, NEW s, NEW x, KillUnlessSpared(j, s, x) PROVE SandboxesKept
  BY TerminateKept, SandboxesSame DEF KillUnlessSpared

LEMMA ModalKeptAll == ASSUME SandboxesTypeOK, SandboxesNext PROVE SandboxesKept
  <1> USE SandboxNames DEF SandboxesTypeOK, SandboxesKept, Exited, ExitCode, Running
  <1>1. ASSUME NEW j \in Job, AgentReady(j) PROVE SandboxesKept
    BY <1>1 DEF AgentReady
  <1>2. ASSUME NEW j \in Job, AgentExits(j) PROVE SandboxesKept
    BY <1>2 DEF AgentExits
  <1>3. ASSUME NEW j \in Job, LifetimeOver(j) PROVE SandboxesKept
    BY <1>3 DEF LifetimeOver
  <1>4. ASSUME NEW e \in Engine, ServerFails(e) PROVE SandboxesKept
    BY <1>4 DEF ServerFails
  <1>5. ASSUME NEW s \in Sandbox, SandboxFails(s) \/ LifetimeCap(s) PROVE SandboxesKept
    BY <1>5 DEF SandboxFails, LifetimeCap
  <1> QED BY <1>1, <1>2, <1>3, <1>4, <1>5 DEF SandboxesNext

-----------------------------------------------------------------------------
(* Rows                                                                    *)

LEMMA RowsSame == ASSUME UNCHANGED jobs PROVE RowsMove
  BY DEF RowsMove, RowMoves

LEMMA SetStatusMoves ==
    ASSUME JobsType, NEW j, NEW st \in TERMINAL \cup {"serving"}, SetStatus(j, st),
           j \in Job => CauseNext(j, st)
    PROVE  RowsMove
  <1> SUFFICES ASSUME NEW i \in Job
               PROVE  RowMoves(i) /\ (jobs[i].cancel_requested => jobs'[i].cancel_requested)
    BY DEF RowsMove
  <1>1. CASE i # j
    <2>1. jobs'[i] = jobs[i] BY <1>1 DEF SetStatus, JobsType
    <2> QED BY <2>1 DEF RowMoves
  <1>2. CASE i = j
    <2>1. /\ jobs'[i].status = st /\ jobs'[i].worker = jobs[i].worker
          /\ jobs'[i].cancel_requested = jobs[i].cancel_requested
      BY <1>2 DEF SetStatus, JobsType, Row
    <2>2. CauseNext(i, jobs'[i].status) BY <1>2, <2>1
    <2> QED BY <2>1, <2>2 DEF RowMoves
  <1> QED BY <1>1, <1>2

LEMMA ServeMoves ==
    ASSUME JobsType, NEW j, jobs' = [jobs EXCEPT ![j].status = "serving", ![j].result = TRUE]
    PROVE  RowsMove
  <1> SUFFICES ASSUME NEW i \in Job
               PROVE  RowMoves(i) /\ (jobs[i].cancel_requested => jobs'[i].cancel_requested)
    BY DEF RowsMove
  <1>1. CASE i # j
    <2>1. jobs'[i] = jobs[i] BY <1>1 DEF JobsType
    <2> QED BY <2>1 DEF RowMoves
  <1>2. CASE i = j
    <2>1. /\ jobs'[i].status = "serving" /\ jobs'[i].worker = jobs[i].worker
          /\ jobs'[i].cancel_requested = jobs[i].cancel_requested
      BY <1>2 DEF JobsType, Row
    <2> QED BY <2>1 DEF RowMoves, CauseNext
  <1> QED BY <1>1, <1>2

LEMMA SmallMoves ==
    ASSUME JobsType, NEW j, NEW w, RequestCancel(j) \/ Heartbeat(j, w) \/ Insert(j)
    PROVE  RowsMove
  BY DEF RequestCancel, Heartbeat, Insert, StatusOf, JobsType, Row, RowsMove, RowMoves

LEMMA AgeMoves == ASSUME JobsType, NEW j, Age(j) PROVE RowsMove
  BY DEF Punctual, Age, JobsType, Row, RowsMove, RowMoves

LEMMA ClaimMoves ==
    ASSUME JobsType, NEW j \in Job, NEW w \in Worker, ClaimRow(j, w), up'[w] = "up" PROVE RowsMove
  <1> SUFFICES ASSUME NEW i \in Job
               PROVE  RowMoves(i) /\ (jobs[i].cancel_requested => jobs'[i].cancel_requested)
    BY DEF RowsMove
  <1>1. CASE i # j
    <2>1. jobs'[i] = jobs[i] BY <1>1 DEF ClaimRow, JobsType
    <2> QED BY <2>1 DEF RowMoves
  <1>2. CASE i = j
    <2>1. /\ jobs[i].status = "queued" /\ jobs'[i].status = "running" /\ jobs'[i].worker = w /\ ~jobs'[i].stale
          /\ jobs'[i].cancel_requested = jobs[i].cancel_requested
      BY <1>2 DEF ClaimRow, OldestQueued, StatusOf, JobsType, Row
    <2> QED BY <2>1 DEF RowMoves
  <1> QED BY <1>1, <1>2

-----------------------------------------------------------------------------
(* Whatever moves so keeps what is known.                                  *)

(* The engine of a queued job is still to come, and only its own slot has  *)
(* anything to do with it later.                                           *)
LEMMA EngineUnborn ==
    ASSUME Moves, NEW j \in Job, code[EngineSandbox(j)] = "unborn",
           \A w \in Worker : slot[w].job = j /\ slot[w].pc = "launch" => slot'[w].pc # "log_engine"
    PROVE  code'[EngineSandbox(j)] = "unborn"
  BY DEF Moves, SandboxesKept, Launching

LEMMA BrokenKept ==
    ASSUME Moves, NEW j \in Job, ~InQueue(StatusOf(j)), Broken(j) PROVE BrokenNext(j)
  <1> SUFFICES ASSUME Truthful PROVE BrokenNext(j) BY DEF BrokenNext
  <1>1. CASE Exited(EngineSandbox(j))
    BY <1>1, SandboxNames DEF Moves, SandboxesKept, Exited, BrokenNext
  <1>2. CASE GivenUp(j)
    <2>1. code'[EngineSandbox(j)] = "unborn" BY <1>2, EngineUnborn DEF GivenUp, Ending
    <2>2. code'[<<j, "prep">>] \in ExitCode
      BY <1>2, SandboxNames DEF GivenUp, Moves, SandboxesKept, Exited
    <2>3. \A w \in Worker : slot'[w].job = j => slot'[w].pc \in Ending
      <3>1. \A w \in Worker : slot'[w].job = j => slot[w].job = j /\ (slot[w].pc \in Ending => slot'[w].pc \in Ending)
        BY DEF Moves, SlotsMove, StatusOf
      <3> QED BY <1>2, <3>1 DEF GivenUp
    <2> QED BY <2>1, <2>2, <2>3 DEF BrokenNext, GivenUpNext
  <1> QED BY <1>1, <1>2 DEF Broken

LEMMA EndedKept ==
    ASSUME Moves, NEW j \in Job, NEW o, Ended(j, o), o = "failed" => ~InQueue(StatusOf(j))
    PROVE  EndedNext(j, o)
  <1>1. o = "failed" => BrokenNext(j) BY BrokenKept DEF Ended
  <1>2. \A x \in ExitCode : code[EngineSandbox(j)] = x => code'[EngineSandbox(j)] = x
    BY SandboxNames DEF Moves, SandboxesKept, Exited
  <1>3. "exit124" \in ExitCode /\ "exit137" \in ExitCode BY DEF ExitCode
  <1>4. expired \subseteq expired' /\ (jobs[j].cancel_requested => jobs'[j].cancel_requested)
    BY DEF Moves, SandboxesKept, RowsMove
  <1> QED BY <1>1, <1>2, <1>3, <1>4 DEF Ended, EndedNext

LEMMA RecEndedKept ==
    ASSUME Moves, NEW j \in Job, NEW o, RecEnded(j, o) PROVE RecEndedNext(j, o)
  <1>1. o = "failed" /\ Truthful => code'[EngineSandbox(j)] \in ExitCode
    BY SandboxNames DEF RecEnded, Moves, SandboxesKept, Exited
  <1>2. \A x \in ExitCode : code[EngineSandbox(j)] = x => code'[EngineSandbox(j)] = x
    BY SandboxNames DEF Moves, SandboxesKept, Exited
  <1>3. "exit124" \in ExitCode /\ "exit137" \in ExitCode BY DEF ExitCode
  <1>4. expired \subseteq expired' /\ (jobs[j].cancel_requested => jobs'[j].cancel_requested)
    BY DEF Moves, SandboxesKept, RowsMove
  <1> QED BY <1>1, <1>2, <1>3, <1>4 DEF RecEnded, RecEndedNext, Ended, EndedNext, BrokenNext

LEMMA EndedCauses == ASSUME NEW j, NEW o, EndedNext(j, o) PROVE CauseNext(j, o)
  BY DEF EndedNext, CauseNext

LEMMA OrphanKept ==
    ASSUME Moves, NEW j \in Job, RowOK(j), Orphan(j) PROVE OrphanNext(j)
  <1> SUFFICES ASSUME Punctual PROVE OrphanNext(j) BY DEF OrphanNext
  <1>1. jobs'[j].worker = jobs[j].worker
    BY NoneAssumption DEF Moves, RowsMove, RowMoves, RowOK, InQueue, StatusOf, Orphan
  <1> QED BY <1>1 DEF Orphan, OrphanNext, Moves, WorkersKept

LEMMA RowsKept ==
    ASSUME IInv, CInv, Moves PROVE (\A j \in Job : RowOK(j))' /\ CausesKnown'
  <1>t. \A w \in Worker : up[w] \in {"off", "up", "dead"} BY DEF IInv, WInv, WorkersTypeOK
  <1>1. ASSUME NEW j \in Job PROVE RowOK(j)'
    <2>1. RowOK(j) /\ RowMoves(j) BY DEF CInv, Moves, RowsMove
    <2>2. \A w \in Worker : (up[w] = "dead" => up'[w] = "dead") /\ (up[w] # "off" => up'[w] # "off")
      BY DEF Moves, WorkersKept
    <2>3. InQueue(jobs'[j].status) => InQueue(StatusOf(j))
      BY <2>1 DEF RowMoves, InQueue, StatusOf, TERMINAL
    <2>4. InQueue(StatusOf(j)) => code'[EngineSandbox(j)] = "unborn"
      BY <2>1, EngineUnborn, NoneAssumption DEF RowOK, IInv, ClaimedOnce, JobOf, InQueue
    <2>5. InQueue(jobs'[j].status) => code'[EngineSandbox(j)] = "unborn" BY <2>3, <2>4
    <2> QED
      BY <1>t, <2>1, <2>2, <2>5 DEF RowMoves, RowOK, InQueue, StatusOf, Orphan, OrphanNext, CauseNext, TERMINAL
  <1>2. ASSUME NEW j \in Job PROVE CauseNext(j, jobs'[j].status)
    <2>1. RowMoves(j) BY DEF Moves, RowsMove
    <2>2. CASE jobs'[j].status = jobs[j].status /\ jobs'[j].worker = jobs[j].worker
      <3>1. jobs[j].status = "failed" => BrokenNext(j)
        BY BrokenKept DEF CInv, CausesKnown, StatusOf, InQueue
      <3>2. \A x \in ExitCode : code[EngineSandbox(j)] = x => code'[EngineSandbox(j)] = x
        BY SandboxNames DEF Moves, SandboxesKept, Exited
      <3>3. "exit124" \in ExitCode /\ "exit137" \in ExitCode BY DEF ExitCode
      <3>4. expired \subseteq expired' /\ (jobs[j].cancel_requested => jobs'[j].cancel_requested)
        BY DEF Moves, SandboxesKept, RowsMove
      <3>5. \A c \in Call : call[c].job = j => call'[c].job = j BY DEF Moves, CallsKept
      <3>6. jobs[j].status = "interrupted" => OrphanNext(j)
        BY OrphanKept DEF CInv, RowOK, StatusOf
      <3> QED BY <2>2, <3>1, <3>2, <3>3, <3>4, <3>5, <3>6 DEF CInv, CausesKnown, StatusOf, CauseNext
    <2>3. CASE jobs'[j].status \in {"queued", "running"} BY <2>3 DEF CauseNext
    <2> QED BY <2>1, <2>2, <2>3 DEF RowMoves
  <1>3. CausesKnown'
    BY <1>2 DEF CauseNext, Orphan, OrphanNext, Broken, BrokenNext, GivenUp, GivenUpNext, CausesKnown,
       StatusOf, Exited
  <1> QED BY <1>1, <1>3

-----------------------------------------------------------------------------
(* One step of a slot.                                                     *)

LEMMA SlotCauseNext ==
    ASSUME Moves, NEW w \in Worker, SlotCause(slot[w]),
           slot'[w].job = slot[w].job, slot'[w].event => slot[w].event,
           slot'[w].pc \in Ending => EndedNext(slot'[w].job, slot'[w].outcome),
           slot'[w].pc \in Prepping => code'[<<slot'[w].job, "prep">>] # "unborn",
           slot'[w].pc \in Early => code'[EngineSandbox(slot'[w].job)] = "unborn"
    PROVE  SlotCause(slot[w])'
  <1>1. slot'[w].event => slot'[w].job \in Job /\ jobs'[slot'[w].job].cancel_requested
    BY DEF SlotCause, Moves, RowsMove
  <1> QED BY <1>1 DEF SlotCause, Ended, EndedNext, Broken, BrokenNext, GivenUp, GivenUpNext, Exited

(* A claimed job has left the queue, and its engine is up to its slot.     *)
LEMMA SlotOwns ==
    ASSUME IInv, NEW w \in Worker, slot[w].pc # "idle"
    PROVE  /\ slot[w].job \in Job /\ ~InQueue(StatusOf(slot[w].job))
           /\ \A v \in Worker : slot[v].job = slot[w].job => v = w
  <1>1. slot[w].job \in Job BY DEF IInv, WInv, SlotInv, SlotOK
  <1>2. slot[w].job # NoJob BY <1>1, NoneAssumption
  <1> QED BY <1>1, <1>2 DEF IInv, ClaimedOnce, JobOf, InQueue

LEMMA EarlyKept ==
    ASSUME IInv, Moves, NEW w \in Worker, SlotCause(slot[w]), slot[w].pc \in Early,
           slot'[w].pc # "log_engine"
    PROVE  code'[EngineSandbox(slot[w].job)] = "unborn"
  BY SlotOwns, EngineUnborn DEF SlotCause, Early

LEMMA SlotCauseKept ==
    ASSUME IInv, Moves, NEW w \in Worker, SlotCause(slot[w]), slot'[w] = slot[w]
    PROVE  SlotCause(slot[w])'
  <1>1. slot[w].pc # "idle" => slot[w].job \in Job /\ ~InQueue(StatusOf(slot[w].job))
    BY SlotOwns
  <1>2. slot'[w].pc \in Ending => EndedNext(slot'[w].job, slot'[w].outcome)
    BY <1>1, EndedKept DEF SlotCause, Ending
  <1>3. slot'[w].pc \in Prepping => code'[<<slot'[w].job, "prep">>] # "unborn"
    BY <1>1, SandboxNames DEF SlotCause, Prepping, Moves, SandboxesKept
  <1>4. slot'[w].pc \in Early => code'[EngineSandbox(slot'[w].job)] = "unborn"
    BY EarlyKept DEF Early
  <1> QED BY <1>2, <1>3, <1>4, SlotCauseNext

(* Every step of a slot keeps its job or lets go of it, and goes on ending *)
(* what is ending.                                                         *)
LEMMA SlotLooksAhead ==
    ASSUME WInv, NEW w \in Worker, SlotOthers(w),
           \/ slot'[w].job = NoJob
           \/ slot'[w].job = slot[w].job /\ (slot[w].pc \in Ending => slot'[w].pc \in Ending)
           \/ InQueue(jobs[slot'[w].job].status)
    PROVE  SlotsMove
  BY NoneAssumption DEF SlotsMove, SlotOthers

LEMMA SlotsStill == ASSUME UNCHANGED slot PROVE SlotsMove
  BY DEF SlotsMove

LEMMA SlotsMoveOn == ASSUME WInv, NEW w \in Worker, SlotNext(w) PROVE SlotsMove
  <1>t. slot \in [Worker -> SlotState] /\ slot[w] \in SlotState BY DEF WInv, WorkersTypeOK
  <1>g. ASSUME NEW p \in SlotPc, Goto(w, p), slot[w].pc \in Ending => p \in Ending PROVE SlotsMove
    <2>1. slot'[w].job = slot[w].job /\ slot'[w].pc = p /\ SlotOthers(w)
      BY <1>g, <1>t DEF Goto, SlotState, SlotOthers
    <2> QED BY <1>g, <2>1, SlotLooksAhead
  <1>r. ASSUME Release(w) PROVE SlotsMove
    <2>1. slot'[w].job = NoJob /\ SlotOthers(w) BY <1>r, <1>t DEF Release, IdleSlot, SlotOthers
    <2> QED BY <2>1, SlotLooksAhead
  <1>x. ASSUME NEW o, Raise(w, o) \/ RaiseCancelled(w) PROVE SlotsMove
    <2>1. slot'[w].job = slot[w].job /\ slot'[w].pc \in {"except", "cleanup"} /\ SlotOthers(w)
      BY <1>x, <1>t DEF Raise, RaiseCancelled, SlotState, SlotOthers
    <2> QED BY <2>1, SlotLooksAhead DEF Ending
  <1>1. CASE Claim(w)
    <2>1. PICK i \in Job : ClaimRow(i, w) /\ slot' = [slot EXCEPT ![w].pc = "claimed", ![w].job = i]
      BY <1>1 DEF Claim
    <2>2. slot'[w].job = i /\ SlotOthers(w) BY <1>t, <2>1 DEF SlotState, SlotOthers
    <2>3. InQueue(jobs[i].status) BY <2>1 DEF ClaimRow, OldestQueued, StatusOf, InQueue
    <2> QED BY <2>2, <2>3, SlotLooksAhead
  <1>2. CASE Begin(w) \/ CreatePrep(w) \/ LogPrep(w) \/ PrepDone(w) \/ PrepRaises(w)
    <2>1. slot[w].pc \notin Ending
      BY <1>2 DEF Begin, CreatePrep, LogPrep, PrepDone, PrepRaises, At, Ending
    <2>2. \/ \E p \in SlotPc : Goto(w, p)
          \/ \E o \in Outcome : Raise(w, o) \/ RaiseCancelled(w)
      BY <1>2, SlotPcs, Outcomes DEF Begin, CreatePrep, LogPrep, PrepDone, PrepRaises
    <2> QED BY <1>g, <1>x, <2>1, <2>2
  <1>3. CASE CreateEngine(w) \/ LogEngine(w) \/ CheckRaises(w) \/ WaitReturns(w) \/ WaitExited(w) \/ Fails(w)
    <2>1. slot[w].pc \notin Ending
      BY <1>3 DEF CreateEngine, LogEngine, CheckRaises, WaitReturns, WaitExited, Fails, At, Ending
    <2>2. \/ \E p \in SlotPc : Goto(w, p)
          \/ \E o \in Outcome : Raise(w, o) \/ RaiseCancelled(w)
      BY <1>3, SlotPcs, Outcomes DEF CreateEngine, LogEngine, CheckRaises, WaitReturns, WaitExited, Fails
    <2> QED BY <1>g, <1>x, <2>1, <2>2
  <1>4. CASE RegisterGroup(w)
    <2>1. slot'[w].job = slot[w].job /\ slot[w].pc = "register" /\ SlotOthers(w)
      BY <1>4, <1>t DEF RegisterGroup, At, SlotState, SlotOthers
    <2> QED BY <2>1, SlotLooksAhead DEF Ending
  <1>5. CASE Serve(w) \/ CloseJob(w) BY <1>5, <1>r DEF Serve, CloseJob
  <1>6. CASE Except(w) \/ Cleanup(w) \/ KillDone(w)
    <2>1. slot'[w].job = slot[w].job /\ slot'[w].pc \in Ending /\ SlotOthers(w)
      BY <1>6, <1>t DEF Except, Cleanup, KillDone, Goto, SlotState, SlotOthers, Ending
    <2> QED BY <2>1, SlotLooksAhead
  <1>7. CASE KillOne(w)
    <2>1. PICK s \in slot[w].todo : slot' = [slot EXCEPT ![w].todo = @ \ {s}] BY <1>7 DEF KillOne
    <2>2. slot'[w].job = slot[w].job /\ slot'[w].pc \in Ending /\ SlotOthers(w)
      BY <1>7, <1>t, <2>1 DEF KillOne, At, SlotState, SlotOthers, Ending
    <2> QED BY <2>2, SlotLooksAhead
  <1> QED BY <1>1, <1>2, <1>3, <1>4, <1>5, <1>6, <1>7 DEF SlotNext

LEMMA SlotCauseStep ==
    ASSUME IInv, CInv, NEW w \in Worker, SlotNext(w), UNCHANGED call
    PROVE  Moves /\ SlotCause(slot[w])' /\ SlotOthers(w)
<1> DEFINE j == slot[w].job
<1>t. /\ SandboxesTypeOK /\ JobsType
      /\ slot \in [Worker -> SlotState] /\ slot[w] \in SlotState /\ SlotOK(slot[w])
      /\ SlotCause(slot[w])
  BY RowsTyped DEF IInv, WInv, WorkersTypeOK, SlotInv, CInv
<1>m. ASSUME UNCHANGED up, SandboxesKept, RowsMove PROVE Moves
  BY <1>m, SlotsMoveOn DEF Moves, WorkersKept, CallsKept, IInv
<1>q. ASSUME UNCHANGED <<modalVars, jobs, up>> PROVE Moves
  BY <1>q, <1>m, SandboxesSame, RowsSame
<1>c. ASSUME Moves, slot[w].event \/ jobs[j].cancel_requested, ~At(w, "idle") PROVE EndedNext(j, "cancelled")
  BY <1>c, <1>t DEF Moves, RowsMove, SlotCause, EndedNext, SlotOK, At
<1>o. ASSUME Moves, slot[w].pc \in Ending PROVE EndedNext(j, slot[w].outcome)
  BY <1>o, <1>t, SlotOwns, EndedKept DEF SlotCause, Ending
(* It goes on to a place where nothing is known ...                        *)
<1>g. ASSUME Moves, slot'[w].job = j, slot'[w].event = slot[w].event, slot'[w].pc \notin Ending \cup Prepping,
             slot'[w].pc \in Early => slot[w].pc \in Early
      PROVE  SlotCause(slot[w])'
  <2>1. slot'[w].pc \in Early => code'[EngineSandbox(slot'[w].job)] = "unborn"
    BY <1>g, <1>t, EarlyKept DEF Early
  <2> QED BY <1>g, <1>t, <2>1, SlotCauseNext
(* ... or it is ending.                                                    *)
<1>r. ASSUME Moves, slot'[w].job = j, slot'[w].event = slot[w].event, slot'[w].pc \in Ending,
             EndedNext(j, slot'[w].outcome)
      PROVE  SlotCause(slot[w])'
  BY <1>r, <1>t, SlotCauseNext DEF Ending, Prepping, Early
<1>x. ASSUME Moves, RaiseCancelled(w), slot[w].event \/ jobs[j].cancel_requested, ~At(w, "idle")
      PROVE  SlotCause(slot[w])' /\ SlotOthers(w)
  <2>1. /\ slot'[w].job = j /\ slot'[w].event = slot[w].event /\ slot'[w].pc = "cleanup"
        /\ slot'[w].outcome = "cancelled" /\ SlotOthers(w)
    BY <1>x, <1>t DEF RaiseCancelled, SlotState, SlotOthers
  <2> QED BY <1>x, <1>c, <1>r, <2>1 DEF Ending
<1>f. ASSUME Moves, NEW p \in SlotPc \ (Ending \cup Prepping), Goto(w, p), p \in Early => slot[w].pc \in Early
      PROVE  SlotCause(slot[w])' /\ SlotOthers(w)
  <2>1. slot'[w].job = j /\ slot'[w].event = slot[w].event /\ slot'[w].pc = p /\ SlotOthers(w)
    BY <1>f, <1>t DEF Goto, SlotState, SlotOthers
  <2> QED BY <1>f, <1>g, <2>1
<1>z. ASSUME Moves, Release(w) PROVE SlotCause(slot[w])' /\ SlotOthers(w)
  BY <1>z, <1>t DEF Release, IdleSlot, SlotCause, SlotOthers, Ending, Prepping, Early
<1>1. CASE Claim(w)
  <2>1. PICK i \in Job : ClaimRow(i, w) /\ slot' = [slot EXCEPT ![w].pc = "claimed", ![w].job = i]
    BY <1>1 DEF Claim
  <2>2. UNCHANGED <<modalVars, up>> /\ up[w] = "up" /\ At(w, "idle") BY <1>1 DEF Claim
  <2>3. Moves BY <1>m, <1>t, <2>1, <2>2, SandboxesSame, ClaimMoves
  <2>4. /\ InQueue(StatusOf(i)) /\ code' = code
    BY <2>1, <2>2 DEF ClaimRow, OldestQueued, InQueue, modalVars
  <2>5. code'[EngineSandbox(i)] = "unborn" BY <2>4 DEF CInv, RowOK
  <2>6. j = NoJob /\ ~slot[w].event BY <1>t, <2>2, NoneAssumption DEF At, SlotOK, SlotCause
  <2>7. slot'[w].pc = "claimed" /\ slot'[w].job = i /\ ~slot'[w].event /\ SlotOthers(w)
    BY <1>t, <2>1, <2>6 DEF SlotState, SlotOthers
  <2> QED BY <2>3, <2>7, <2>5 DEF SlotCause, Ending, Prepping
<1>2. CASE Begin(w)
  <2>1. Moves BY <1>2, <1>q DEF Begin, dbVars
  <2>2. CASE RaiseCancelled(w) /\ jobs[j].cancel_requested
    BY <1>2, <1>x, <2>1, <2>2 DEF Begin, At
  <2>3. CASE \E p \in {"fetch", "launch"} : Goto(w, p)
    BY <1>2, <1>f, <2>1, <2>3, SlotPcs DEF Begin, At, Ending, Prepping, Early
  <2> QED BY <1>2, <2>1, <2>2, <2>3 DEF Begin, JobOf
<1>3. CASE CreatePrep(w)
  <2>1. \A i \in Job : <<j, "prep">> # EngineSandbox(i) BY DEF EngineSandbox
  <2>2. Moves BY <1>3, <1>t, <1>m, <2>1, CreateKept, RowsSame DEF CreatePrep, JobOf, dbVars
  <2>3. j \in Job BY <1>3, <1>t DEF CreatePrep, At, SlotOK
  <2>4. code'[<<j, "prep">>] = "running"
    BY <1>3, <1>t, <2>3, SandboxNames DEF CreatePrep, Create, SandboxesTypeOK, JobOf
  <2>5. slot'[w].job = j /\ slot'[w].event = slot[w].event /\ slot'[w].pc = "log_prep" /\ SlotOthers(w)
    BY <1>3, <1>t DEF CreatePrep, Goto, SlotState, SlotOthers
  <2>6. code'[EngineSandbox(j)] = "unborn" BY <1>3, <1>t, <2>2, <2>5, EarlyKept DEF CreatePrep, At, Early
  <2> QED BY <1>t, <2>2, <2>4, <2>5, <2>6, SlotCauseNext DEF Ending
<1>4. CASE LogPrep(w)
  <2>1. Moves BY <1>4, <1>q DEF LogPrep
  <2>2. code'[<<j, "prep">>] # "unborn" BY <1>4, <1>t DEF LogPrep, At, SlotCause, Prepping, modalVars
  <2>3. slot'[w].job = j /\ slot'[w].event = slot[w].event /\ slot'[w].pc = "prep" /\ SlotOthers(w)
    BY <1>4, <1>t DEF LogPrep, Goto, SlotState, SlotOthers
  <2>4. code'[EngineSandbox(j)] = "unborn" BY <1>4, <1>t, <2>1, <2>3, EarlyKept DEF LogPrep, At, Early
  <2> QED BY <1>t, <2>1, <2>2, <2>3, <2>4, SlotCauseNext DEF Ending
<1>5. CASE PrepDone(w)
  <2>1. Moves BY <1>5, <1>t, <1>m, TerminateKept, RowsSame DEF PrepDone, dbVars
  <2>2. CASE slot[w].event /\ RaiseCancelled(w) BY <1>5, <1>x, <2>1, <2>2 DEF PrepDone, At
  <2>3. CASE Goto(w, "launch") BY <1>5, <1>f, <2>1, <2>3, SlotPcs DEF PrepDone, At, Ending, Prepping, Early
  <2> QED BY <1>5, <2>1, <2>2, <2>3 DEF PrepDone
<1>6. CASE PrepRaises(w)
  <2>1. Moves BY <1>6, <1>t, <1>m, TerminateKept, RowsSame DEF PrepRaises, dbVars
  <2>2. j \in Job /\ code[<<j, "prep">>] # "unborn" BY <1>6, <1>t DEF PrepRaises, At, SlotOK, SlotCause, Prepping
  <2>3. code'[<<j, "prep">>] \in ExitCode
    BY <1>6, <1>t, <2>2, SandboxNames DEF PrepRaises, Terminate, SandboxesTypeOK, ExitCode, JobOf
  <2>4. /\ slot'[w].job = j /\ slot'[w].event = slot[w].event /\ slot'[w].pc = "except"
        /\ slot'[w].outcome = "failed" /\ SlotOthers(w)
    BY <1>6, <1>t DEF PrepRaises, Raise, SlotState, SlotOthers
  <2>5. EndedNext(j, "failed")
    <3>1. slot[w].pc = "prep" BY <1>6 DEF PrepRaises, At
    <3>2. code'[EngineSandbox(j)] = "unborn" BY <1>t, <2>1, <2>4, <3>1, EarlyKept DEF Early
    <3>3. \A v \in Worker : slot'[v].job = j => v = w BY <2>4, <3>1, SlotOwns DEF SlotOthers
    <3>4. GivenUpNext(j) BY <2>3, <2>4, <3>2, <3>3 DEF GivenUpNext, Ending
    <3> QED BY <3>4 DEF EndedNext, BrokenNext
  <2> QED BY <1>r, <2>1, <2>5, <2>4 DEF Ending
<1>7. CASE CreateEngine(w)
  <2>1. slot[w].pc = "launch" /\ slot'[w].pc = "log_engine" /\ j \in Job
    BY <1>7, <1>t DEF CreateEngine, At, Goto, SlotState, SlotOK
  <2>2. \A i \in Job : EngineSandbox(j) = EngineSandbox(i) => Launching(i)
    BY <2>1 DEF EngineSandbox, Launching
  <2>3. Moves BY <1>7, <1>t, <1>m, <2>2, CreateKept, RowsSame DEF CreateEngine, JobOf, dbVars
  <2> QED BY <1>7, <1>f, <2>3, SlotPcs DEF CreateEngine, Ending, Prepping, Early
<1>8. CASE LogEngine(w)
  <2>1. Moves BY <1>8, <1>q DEF LogEngine
  <2> QED BY <1>8, <1>f, <2>1, SlotPcs DEF LogEngine, Ending, Prepping, Early
<1>9. CASE CheckRaises(w)
  <2>1. Moves BY <1>9, <1>q DEF CheckRaises, dbVars
  <2> QED BY <1>9, <1>x, <2>1 DEF CheckRaises, At
<1>10. CASE WaitReturns(w)
  <2>1. Moves BY <1>10, <1>q DEF WaitReturns, dbVars
  <2> QED BY <1>10, <1>f, <2>1, SlotPcs DEF WaitReturns, Ending, Prepping, Early
<1>11. CASE WaitExited(w)
  <2>1. Moves BY <1>11, <1>q DEF WaitExited, dbVars
  <2>2. j \in Job /\ Exited(EngineSandbox(j)) /\ code' = code
    BY <1>11, <1>t DEF WaitExited, At, SlotOK, JobOf, modalVars
  <2>3. PICK o \in {"timeout", "failed"} :
            Raise(w, o) /\ (o = "timeout" => code[EngineSandbox(j)] = "exit124")
    BY <1>11 DEF WaitExited, JobOf
  <2>4. EndedNext(j, o) BY <2>2, <2>3, SandboxNames DEF EndedNext, BrokenNext, Exited
  <2>5. /\ slot'[w].job = j /\ slot'[w].event = slot[w].event /\ slot'[w].pc = "except"
        /\ slot'[w].outcome = o /\ SlotOthers(w)
    BY <1>t, <2>3 DEF Raise, SlotState, SlotOthers
  <2> QED BY <1>r, <2>1, <2>4, <2>5 DEF Ending
<1>12. CASE RegisterGroup(w)
  <2>1. Moves BY <1>12, <1>q DEF RegisterGroup
  <2>2. /\ slot'[w].job = j /\ slot'[w].event = slot[w].event /\ slot'[w].pc \in {"register", "handover"}
        /\ SlotOthers(w)
    BY <1>12, <1>t DEF RegisterGroup, At, SlotState, SlotOthers
  <2> QED BY <1>g, <2>1, <2>2 DEF Ending, Prepping, Early
<1>13. CASE Serve(w)
  <2>1. Moves BY <1>13, <1>t, <1>m, SandboxesSame, ServeMoves DEF Serve
  <2> QED BY <1>13, <1>z, <2>1 DEF Serve
<1>14. CASE Fails(w)
  <2>1. Moves BY <1>14, <1>q DEF Fails, dbVars
  <2>2. "stream" \in Faults /\ Raise(w, "failed") BY <1>14 DEF Fails
  <2>3. EndedNext(j, "failed") BY <2>2 DEF EndedNext, BrokenNext, Truthful
  <2>4. /\ slot'[w].job = j /\ slot'[w].event = slot[w].event /\ slot'[w].pc = "except"
        /\ slot'[w].outcome = "failed" /\ SlotOthers(w)
    BY <1>t, <2>2 DEF Raise, SlotState, SlotOthers
  <2> QED BY <1>r, <2>1, <2>3, <2>4 DEF Ending
<1>15. CASE Except(w)
  <2>1. Moves BY <1>15, <1>q DEF Except, dbVars
  <2>2. CASE slot[w].event
    <3>1. slot' = [slot EXCEPT ![w].pc = "close", ![w].outcome = "cancelled"]
      BY <1>15, <2>2 DEF Except
    <3>2. /\ slot'[w].job = j /\ slot'[w].event = slot[w].event /\ slot'[w].pc = "close"
          /\ slot'[w].outcome = "cancelled" /\ SlotOthers(w)
      BY <1>t, <3>1 DEF SlotState, SlotOthers
    <3>3. EndedNext(j, "cancelled") BY <1>15, <1>c, <2>1, <2>2 DEF Except, At
    <3> QED BY <1>r, <2>1, <3>2, <3>3 DEF Ending
  <2>3. CASE ~slot[w].event
    <3>1. /\ slot'[w].job = j /\ slot'[w].event = slot[w].event /\ slot'[w].pc = "cleanup"
          /\ slot'[w].outcome = slot[w].outcome /\ SlotOthers(w)
      BY <1>15, <1>t, <2>3 DEF Except, Goto, SlotState, SlotOthers
    <3>2. EndedNext(j, slot[w].outcome) BY <1>15, <1>o, <2>1 DEF Except, At, Ending
    <3> QED BY <1>r, <2>1, <3>1, <3>2 DEF Ending
  <2> QED BY <2>1, <2>2, <2>3
<1>16. CASE Cleanup(w) \/ KillDone(w)
  <2>1. Moves BY <1>16, <1>q DEF Cleanup, KillDone, dbVars
  <2>2. /\ slot'[w].job = j /\ slot'[w].event = slot[w].event /\ slot'[w].pc \in {"killing", "close"}
        /\ slot'[w].outcome = slot[w].outcome /\ SlotOthers(w)
    BY <1>16, <1>t DEF Cleanup, KillDone, Goto, SlotState, SlotOthers
  <2>3. EndedNext(j, slot[w].outcome) BY <1>16, <1>o, <2>1 DEF Cleanup, KillDone, At, Ending
  <2> QED BY <1>r, <2>1, <2>2, <2>3 DEF Ending
<1>17. CASE KillOne(w)
  <2>1. PICK s \in slot[w].todo : /\ KillUnlessSpared(j, s, slot[w].spare) \/ UNCHANGED modalVars
                                  /\ slot' = [slot EXCEPT ![w].todo = @ \ {s}]
    BY <1>17 DEF KillOne, JobOf
  <2>2. Moves BY <1>17, <1>t, <1>m, <2>1, KillKept, SandboxesSame, RowsSame DEF KillOne, dbVars
  <2>3. /\ slot'[w].job = j /\ slot'[w].event = slot[w].event /\ slot'[w].pc = "killing"
        /\ slot'[w].outcome = slot[w].outcome /\ SlotOthers(w)
    BY <1>17, <1>t, <2>1 DEF KillOne, At, SlotState, SlotOthers
  <2>4. EndedNext(j, slot[w].outcome) BY <1>17, <1>o, <2>2 DEF KillOne, At, Ending
  <2> QED BY <1>r, <2>2, <2>3, <2>4 DEF Ending
<1>18. CASE CloseJob(w)
  <2>1. j \in Job /\ slot[w].outcome \in TERMINAL /\ Ended(j, slot[w].outcome)
    BY <1>18, <1>t DEF CloseJob, At, SlotOK, SlotCause, Ending
  <2>2. SetStatus(j, slot[w].outcome) /\ UNCHANGED <<code, expired>>
    BY <1>18 DEF CloseJob, JobOf, modalVars
  <2>3. jobs'[j].cancel_requested = jobs[j].cancel_requested BY <1>t, <2>1, <2>2 DEF SetStatus, JobsType, Row
  <2>4. \A v \in Worker : slot'[v] = slot[v] \/ slot'[v].job \notin Job
    BY <1>18, <1>t, NoneAssumption DEF CloseJob, Release, IdleSlot
  <2>5. EndedNext(j, slot[w].outcome)
    BY <2>1, <2>2, <2>3, <2>4 DEF Ended, EndedNext, Broken, BrokenNext, GivenUp, GivenUpNext, Exited
  <2>6. RowsMove BY <1>t, <2>1, <2>2, <2>5, EndedCauses, SetStatusMoves
  <2>7. Moves BY <1>18, <1>m, <2>6, SandboxesSame DEF CloseJob
  <2> QED BY <1>18, <1>z, <2>7 DEF CloseJob
<1> QED
  BY <1>1, <1>2, <1>3, <1>4, <1>5, <1>6, <1>7, <1>8, <1>9, <1>10, <1>11, <1>12, <1>13, <1>14, <1>15,
     <1>16, <1>17, <1>18 DEF SlotNext

-----------------------------------------------------------------------------
(* One step of a reconciler.                                               *)

Closing == {"expire", "drop", "finish", "finish_write"}
Reaping == {"reap", "reap_killing"}

LateNext(r) == \A e \in r.late : e[1] \in expired'
OrphansNext(r) == \A j \in r.jobs : OrphanNext(j)

LEMMA RecCauseNext ==
    ASSUME NEW w \in Worker, LateNext(rec'[w]),
           rec'[w].pc \in Closing => rec'[w].job \in Job /\ RecEndedNext(rec'[w].job, rec'[w].outcome),
           rec'[w].pc = "expire" => rec'[w].job \in expired',
           rec'[w].pc \in Reaping => OrphansNext(rec'[w]),
           rec'[w].pc = "reap_killing" => rec'[w].job \in Job /\ OrphanNext(rec'[w].job)
    PROVE  RecCause(rec[w])'
  BY DEF RecCause, LateNext, OrphansNext, RecEnded, RecEndedNext, Ended, EndedNext, Broken, BrokenNext, GivenUp,
     GivenUpNext, Exited, Orphan, OrphanNext, Closing, Reaping

LEMMA LateKept ==
    ASSUME IInv, CInv, Moves, NEW w \in Worker, rec'[w].late \subseteq rec[w].late PROVE LateNext(rec'[w])
  BY DEF CInv, RecCause, LateNext, Moves, SandboxesKept

LEMMA OrphansKept ==
    ASSUME IInv, CInv, Moves, NEW w \in Worker, rec[w].pc \in Reaping, NEW S \in SUBSET rec[w].jobs
    PROVE  \A j \in S : OrphanNext(j)
  <1>1. rec[w].jobs \subseteq Job BY DEF IInv, RInv, ReconcilersTypeOK, RecState
  <1> QED BY <1>1, OrphanKept DEF CInv, RecCause, Reaping

LEMMA RecCauseKept ==
    ASSUME IInv, CInv, Moves, NEW w \in Worker, rec'[w] = rec[w] PROVE RecCause(rec[w])'
  <1>1. LateNext(rec'[w]) BY LateKept
  <1>2. rec'[w].pc \in Closing => rec'[w].job \in Job /\ RecEndedNext(rec'[w].job, rec'[w].outcome)
    BY RecEndedKept DEF CInv, RecCause, Closing
  <1>3. rec'[w].pc = "expire" => rec'[w].job \in expired' BY DEF CInv, RecCause, Moves, SandboxesKept
  <1>4. rec'[w].pc \in Reaping => OrphansNext(rec'[w]) BY OrphansKept DEF OrphansNext
  <1>5. rec'[w].pc = "reap_killing" => rec'[w].job \in Job /\ OrphanNext(rec'[w].job)
    BY OrphanKept DEF CInv, RecCause
  <1> QED BY <1>1, <1>2, <1>3, <1>4, <1>5, RecCauseNext

(* engine_end_status tells the exit codes apart.                           *)
LEMMA EndStatusTrue ==
    ASSUME NEW j \in Job, Exited(EngineSandbox(j)), UNCHANGED code
    PROVE  RecEndedNext(j, EndStatus(code[EngineSandbox(j)]))
  BY SandboxNames DEF EndStatus, RecEndedNext, EndedNext, BrokenNext, Exited, ExitCode

LEMMA RecCauseStep ==
    ASSUME IInv, CInv, NEW w \in Worker, RecNext(w), UNCHANGED call
    PROVE  Moves /\ RecCause(rec[w])' /\ RecOthers(w)
<1> DEFINE j == rec[w].job
<1>t. /\ SandboxesTypeOK /\ JobsType /\ registered \subseteq Engine
      /\ rec \in [Worker -> RecState] /\ rec[w] \in RecState /\ RecOK(rec[w])
      /\ RecCause(rec[w])
      /\ rec[w].engs \subseteq Engine /\ rec[w].jobs \subseteq Job
  BY RowsTyped DEF IInv, RInv, ReconcilersTypeOK, RecInv, CInv, RecState, StoreTypeOK
<1>n. \A e \in Engine : e[1] \in Job /\ SandboxOf(e) = EngineSandbox(e[1])
  BY DEF Engine, SandboxOf
<1>m. ASSUME SandboxesKept, RowsMove, UNCHANGED workerVars PROVE Moves
  BY <1>m, SlotsStill DEF Moves, WorkersKept, CallsKept, workerVars
<1>q. ASSUME UNCHANGED <<modalVars, jobs, workerVars>> PROVE Moves
  BY <1>q, <1>m, SandboxesSame, RowsSame
<1>o. ASSUME Moves, rec[w].pc \in Closing PROVE j \in Job /\ RecEndedNext(j, rec[w].outcome)
  BY <1>o, <1>t, RecEndedKept DEF RecCause, Closing
(* It carries nothing ...                                                  *)
<1>g. ASSUME Moves, rec'[w].late \subseteq rec[w].late, rec'[w].pc \notin Closing \cup Reaping
      PROVE  RecCause(rec[w])'
  <2>1. LateNext(rec'[w]) BY <1>g, LateKept
  <2> QED BY <1>g, <2>1, RecCauseNext DEF Closing, Reaping
(* ... or a status ...                                                     *)
<1>k. ASSUME Moves, rec'[w].late \subseteq rec[w].late, rec'[w].pc \in Closing,
             rec'[w].job \in Job, RecEndedNext(rec'[w].job, rec'[w].outcome),
             rec'[w].pc = "expire" => rec'[w].job \in expired'
      PROVE  RecCause(rec[w])'
  <2>1. LateNext(rec'[w]) BY <1>k, LateKept
  <2> QED BY <1>k, <2>1, RecCauseNext DEF Closing, Reaping
(* ... or orphans.                                                         *)
<1>p. ASSUME Moves, rec'[w].late \subseteq rec[w].late, rec'[w].pc \in Reaping,
             OrphansNext(rec'[w]),
             rec'[w].pc = "reap_killing" => rec'[w].job \in Job /\ OrphanNext(rec'[w].job)
      PROVE  RecCause(rec[w])'
  <2>1. LateNext(rec'[w]) BY <1>p, LateKept
  <2> QED BY <1>p, <2>1, RecCauseNext DEF Closing, Reaping
<1>1. CASE ReattachEngines(w) \/ ReattachList(w) \/ AttachDone(w) \/ TickDone(w)
  <2>1. Moves BY <1>1, <1>q DEF ReattachEngines, ReattachList, AttachDone, TickDone, dbVars
  <2>2. /\ rec'[w].pc \in {"attach_list", "attach", "reap_list"} /\ rec'[w].late = rec[w].late
        /\ RecOthers(w)
    BY <1>1, <1>t DEF ReattachEngines, ReattachList, AttachDone, TickDone, RecGoto, RecState, RecOthers
  <2> QED BY <1>g, <2>1, <2>2 DEF Closing, Reaping
<1>2. CASE AttachKeep(w) \/ PollFine(w)
  <2>1. Moves BY <1>2, <1>q DEF AttachKeep, PollFine, dbVars
  <2>2. rec'[w].pc \in {"attach", "tick"} /\ rec'[w].late = rec[w].late /\ RecOthers(w)
    BY <1>2, <1>t DEF AttachKeep, PollFine, RecAt, RecState, RecOthers
  <2> QED BY <1>g, <2>1, <2>2 DEF Closing, Reaping
<1>3. CASE AttachLost(w)
  <2>1. PICK i \in rec[w].jobs :
           /\ Exited(EngineSandbox(i))
           /\ SetStatus(i, "serving")
           /\ rec' = [rec EXCEPT ![w].pc = "finish", ![w].jobs = @ \ {i}, ![w].job = i, ![w].back = "attach",
                                 ![w].outcome = EndStatus(code[EngineSandbox(i)])]
    BY <1>3 DEF AttachLost
  <2>2. UNCHANGED modalVars /\ UNCHANGED workerVars BY <1>3 DEF AttachLost
  <2>3. RowsMove BY <1>t, <2>1, SetStatusMoves DEF CauseNext
  <2>4. Moves BY <1>m, <2>2, <2>3, SandboxesSame
  <2>5. RecEndedNext(i, EndStatus(code[EngineSandbox(i)])) BY <1>t, <2>1, <2>2, EndStatusTrue DEF modalVars
  <2> DEFINE o == EndStatus(code[EngineSandbox(i)])
  <2> HIDE DEF o
  <2>6. /\ rec'[w].pc = "finish" /\ rec'[w].job = i /\ rec'[w].outcome = o /\ rec'[w].late = rec[w].late
        /\ RecOthers(w)
    BY <1>t, <2>1 DEF RecState, RecOthers, o
  <2> QED BY <1>k, <1>t, <2>4, <2>5, <2>6 DEF Closing, o
<1>4. CASE TickList(w)
  <2>1. Moves BY <1>4, <1>q DEF TickList, dbVars
  <2>2. /\ rec'[w].pc = "tick" /\ rec'[w].late = {e \in registered : e[1] \in expired} /\ RecOthers(w)
    BY <1>4, <1>t DEF TickList, RecState, RecOthers
  <2>3. LateNext(rec'[w]) BY <1>4, <2>2 DEF TickList, LateNext, modalVars
  <2> QED BY <2>1, <2>2, <2>3, RecCauseNext DEF Closing, Reaping
<1>5. CASE PollExited(w)
  <2>1. PICK e \in rec[w].engs :
           /\ Exited(SandboxOf(e))
           /\ rec' = [rec EXCEPT ![w].pc = "drop", ![w].engs = @ \ {e}, ![w].eng = {e}, ![w].job = e[1],
                                 ![w].outcome = EndStatus(code[SandboxOf(e)])]
    BY <1>5 DEF PollExited
  <2>2. UNCHANGED code /\ Moves BY <1>5, <1>q DEF PollExited, dbVars, modalVars
  <2>3. e[1] \in Job /\ SandboxOf(e) = EngineSandbox(e[1]) BY <1>t, <1>n
  <2>4. RecEndedNext(e[1], EndStatus(code[SandboxOf(e)])) BY <2>1, <2>2, <2>3, EndStatusTrue
  <2> DEFINE o == EndStatus(code[SandboxOf(e)])
  <2> HIDE DEF o
  <2>5. /\ rec'[w].pc = "drop" /\ rec'[w].job = e[1] /\ rec'[w].outcome = o /\ rec'[w].late = rec[w].late
        /\ RecOthers(w)
    BY <1>t, <2>1 DEF RecState, RecOthers, o
  <2> QED BY <1>k, <2>2, <2>3, <2>4, <2>5 DEF Closing, o
<1>6. CASE PollRaises(w)
  <2>1. PICK e \in rec[w].engs :
           rec' = [rec EXCEPT ![w].pc = "drop", ![w].engs = @ \ {e}, ![w].eng = {e}, ![w].job = e[1],
                              ![w].outcome = "failed"]
    BY <1>6 DEF PollRaises
  <2>2. Moves BY <1>6, <1>q DEF PollRaises, dbVars
  <2>3. RecEndedNext(e[1], "failed") BY <1>6 DEF PollRaises, RecEndedNext, EndedNext, BrokenNext, Truthful
  <2>4. /\ rec'[w].pc = "drop" /\ rec'[w].job = e[1] /\ rec'[w].outcome = "failed"
        /\ rec'[w].late = rec[w].late /\ RecOthers(w)
    BY <1>t, <2>1 DEF RecState, RecOthers
  <2>5. e[1] \in Job BY <1>t, <1>n
  <2> QED BY <1>k, <2>2, <2>3, <2>4, <2>5 DEF Closing
<1>7. CASE PollExpired(w)
  <2>1. PICK e \in rec[w].engs \cap rec[w].late :
           rec' = [rec EXCEPT ![w].pc = "expire", ![w].engs = @ \ {e}, ![w].eng = {e}, ![w].job = e[1],
                              ![w].outcome = "timeout"]
    BY <1>7 DEF PollExpired
  <2>2. UNCHANGED expired /\ Moves BY <1>7, <1>q DEF PollExpired, dbVars, modalVars
  <2>3. e[1] \in Job /\ e[1] \in expired' BY <1>t, <1>n, <2>2 DEF RecCause
  <2>4. RecEndedNext(e[1], "timeout") BY <2>3 DEF RecEndedNext, EndedNext
  <2>5. /\ rec'[w].pc = "expire" /\ rec'[w].job = e[1] /\ rec'[w].outcome = "timeout"
        /\ rec'[w].late = rec[w].late /\ RecOthers(w)
    BY <1>t, <2>1 DEF RecState, RecOthers
  <2> QED BY <1>k, <2>2, <2>3, <2>4, <2>5 DEF Closing
<1>8. CASE Expire(w) \/ Drop(w)
  <2>1. SandboxesKept /\ UNCHANGED <<jobs, workerVars>>
    BY <1>8, <1>t, TerminateKept, SandboxesSame DEF Expire, Drop, dbVars
  <2>2. Moves BY <1>m, <2>1, RowsSame
  <2>3. /\ rec'[w].pc \in {"drop", "finish"} /\ rec'[w].job = j /\ rec'[w].outcome = rec[w].outcome
        /\ rec'[w].late = rec[w].late /\ RecOthers(w)
    BY <1>8, <1>t DEF Expire, Drop, RecGoto, RecState, RecOthers
  <2>4. j \in Job /\ RecEndedNext(j, rec[w].outcome) BY <1>8, <1>o, <2>2 DEF Expire, Drop, RecAt, Closing
  <2> QED BY <1>k, <2>2, <2>3, <2>4 DEF Closing
<1>9. CASE RecFinishRead(w)
  <2>1. Moves BY <1>9, <1>q DEF RecFinishRead, dbVars
  <2>2. CASE RecBack(w, rec[w].back)
    <3>1. rec'[w].pc \in {"attach", "tick"} /\ rec'[w].late = rec[w].late /\ RecOthers(w)
      BY <1>t, <2>2 DEF RecBack, RecState, RecOthers
    <3> QED BY <1>g, <2>1, <3>1 DEF Closing, Reaping
  <2>3. CASE RecGoto(w, "finish_write")
    <3>1. /\ rec'[w].pc = "finish_write" /\ rec'[w].job = j /\ rec'[w].outcome = rec[w].outcome
          /\ rec'[w].late = rec[w].late /\ RecOthers(w)
      BY <1>t, <2>3 DEF RecGoto, RecState, RecOthers
    <3>2. j \in Job /\ RecEndedNext(j, rec[w].outcome) BY <1>9, <1>o, <2>1 DEF RecFinishRead, RecAt, Closing
    <3> QED BY <1>k, <2>1, <3>1, <3>2 DEF Closing
  <2> QED BY <1>9, <2>1, <2>2, <2>3 DEF RecFinishRead
<1>10. CASE RecFinishWrite(w)
  <2>1. /\ j \in Job /\ RecEnded(j, rec[w].outcome) /\ rec[w].outcome \in TERMINAL
        /\ SetStatus(j, rec[w].outcome) /\ UNCHANGED <<modalVars, workerVars>>
    BY <1>10, <1>t DEF RecFinishWrite, RecAt, RecOK, RecCause, RecEnded
  <2>2. jobs'[j].cancel_requested = jobs[j].cancel_requested BY <1>t, <2>1 DEF SetStatus, JobsType, Row
  <2>3. EndedNext(j, rec[w].outcome)
    BY <2>1, <2>2 DEF RecEnded, Ended, EndedNext, BrokenNext, Exited, modalVars
  <2>4. RowsMove BY <1>t, <2>1, <2>3, EndedCauses, SetStatusMoves
  <2>5. Moves BY <1>m, <2>1, <2>4, SandboxesSame
  <2>6. rec'[w].pc \in {"attach", "tick"} /\ rec'[w].late = rec[w].late /\ RecOthers(w)
    BY <1>10, <1>t DEF RecFinishWrite, RecBack, RecState, RecOthers
  <2> QED BY <1>g, <2>5, <2>6 DEF Closing, Reaping
<1>11. CASE TickRaises(w) \/ ReapDone(w)
  <2>1. Moves BY <1>11, <1>q DEF TickRaises, ReapDone, dbVars
  <2>2. rec'[w].pc = "idle" /\ rec'[w].late = {} /\ RecOthers(w)
    BY <1>11, <1>t DEF TickRaises, ReapDone, OffRec, RecOthers
  <2> QED BY <1>g, <2>1, <2>2 DEF Closing, Reaping
<1>12. CASE ReapList(w)
  <2>1. Moves BY <1>12, <1>q DEF ReapList, dbVars
  <2>2. rec'[w].pc = "reap" /\ rec'[w].jobs = StaleRunning /\ rec'[w].late = rec[w].late /\ RecOthers(w)
    BY <1>12, <1>t DEF ReapList, RecState, RecOthers
  <2>3. \A i \in StaleRunning : i \in Job /\ Orphan(i) BY DEF CInv, RowOK, StaleRunning
  <2>4. \A i \in StaleRunning : OrphanNext(i) BY <2>1, <2>3, OrphanKept DEF CInv
  <2>5. OrphansNext(rec'[w]) BY <2>2, <2>4 DEF OrphansNext
  <2> QED BY <1>p, <2>1, <2>2, <2>5 DEF Reaping
<1>13. CASE ReapOwn(w)
  <2>1. Moves BY <1>13, <1>q DEF ReapOwn, dbVars
  <2>2. /\ rec[w].pc = "reap" /\ rec'[w].pc = "reap" /\ rec'[w].jobs \subseteq rec[w].jobs
        /\ rec'[w].late = rec[w].late /\ RecOthers(w)
    BY <1>13, <1>t DEF ReapOwn, RecAt, RecState, RecOthers
  <2>3. OrphansNext(rec'[w]) BY <2>1, <2>2, OrphansKept DEF OrphansNext, Reaping
  <2> QED BY <1>p, <2>1, <2>2, <2>3 DEF Reaping
<1>14. CASE ReapJob(w)
  <2>1. Moves BY <1>14, <1>q DEF ReapJob, dbVars
  <2>2. PICK i \in rec[w].jobs :
           rec' = [rec EXCEPT ![w].pc = "reap_killing", ![w].jobs = @ \ {i}, ![w].job = i,
                              ![w].todo = LoggedOf(i), ![w].spare = RegisteredSandboxes]
    BY <1>14 DEF ReapJob
  <2>3. /\ rec'[w].pc = "reap_killing" /\ rec'[w].jobs \subseteq rec[w].jobs /\ rec'[w].job = i
        /\ rec'[w].late = rec[w].late /\ RecOthers(w)
    BY <1>t, <2>2 DEF RecState, RecOthers
  <2>4. \A k \in rec[w].jobs : OrphanNext(k) BY <1>14, <2>1, OrphansKept DEF ReapJob, RecAt, Reaping
  <2>5. OrphansNext(rec'[w]) BY <2>3, <2>4 DEF OrphansNext
  <2> QED BY <1>p, <1>t, <2>1, <2>3, <2>4, <2>5 DEF Reaping
<1>15. CASE ReapKill(w)
  <2>1. PICK s \in rec[w].todo :
           /\ KillUnlessSpared(j, s, rec[w].spare) \/ UNCHANGED modalVars
           /\ rec' = [rec EXCEPT ![w].todo = @ \ {s}]
    BY <1>15 DEF ReapKill
  <2>2. SandboxesKept /\ UNCHANGED <<jobs, workerVars>> /\ rec[w].pc = "reap_killing"
    BY <1>15, <1>t, <2>1, KillKept, SandboxesSame DEF ReapKill, RecAt, dbVars
  <2>3. Moves BY <1>m, <2>2, RowsSame
  <2>4. /\ rec'[w].pc = "reap_killing" /\ rec'[w].jobs = rec[w].jobs /\ rec'[w].job = j
        /\ rec'[w].late = rec[w].late /\ RecOthers(w)
    BY <1>t, <2>1, <2>2 DEF RecState, RecOthers
  <2>5. OrphansNext(rec'[w]) BY <2>2, <2>3, <2>4, OrphansKept DEF OrphansNext, Reaping
  <2>6. j \in Job /\ OrphanNext(j) BY <1>t, <2>2, <2>3, OrphanKept DEF RecCause, CInv
  <2> QED BY <1>p, <2>3, <2>4, <2>5, <2>6 DEF Reaping
<1>16. CASE ReapWrite(w)
  <2>1. /\ rec[w].pc = "reap_killing" /\ SetStatus(j, "interrupted") /\ RecBack(w, "reap")
        /\ UNCHANGED <<modalVars, workerVars>>
    BY <1>16 DEF ReapWrite, RecAt
  <2>2. j \in Job /\ Orphan(j) BY <1>t, <2>1 DEF RecCause
  <2>3. jobs'[j].worker = jobs[j].worker /\ up' = up
    BY <1>t, <2>1, <2>2 DEF SetStatus, JobsType, Row, workerVars
  <2>4. CauseNext(j, "interrupted") BY <2>2, <2>3 DEF CauseNext, Orphan, OrphanNext
  <2>5. RowsMove BY <1>t, <2>1, <2>4, Outcomes, SetStatusMoves
  <2>6. Moves BY <1>m, <2>1, <2>5, SandboxesSame
  <2>7. /\ rec'[w].pc = "reap" /\ rec'[w].jobs = rec[w].jobs /\ rec'[w].late = rec[w].late /\ RecOthers(w)
    BY <1>t, <2>1 DEF RecBack, RecState, RecOthers
  <2>8. OrphansNext(rec'[w]) BY <2>1, <2>6, <2>7, OrphansKept DEF OrphansNext, Reaping
  <2> QED BY <1>p, <2>6, <2>7, <2>8 DEF Reaping
<1> QED
  BY <1>1, <1>2, <1>3, <1>4, <1>5, <1>6, <1>7, <1>8, <1>9, <1>10, <1>11, <1>12, <1>13, <1>14, <1>15,
     <1>16 DEF RecNext

-----------------------------------------------------------------------------
(* One step of a call.                                                     *)

NewCalls == \A c \in Call : call[c].pc = "new" => call[c].job = NoJob

(* A call is about one job from its first step on.                         *)
LEMMA CallJobs ==
    ASSUME IInv, NewCalls, NEW c \in Call, CancelNext(c) \/ StopNext(c) \/ FinishNext(c) \/ CallDies(c)
    PROVE  /\ CallsKept /\ NewCalls'
           /\ call[c].pc # "new" => call'[c].job = call[c].job
<1>t. call \in [Call -> CallState] /\ call[c] \in CallState BY DEF IInv, CallsTypeOK
<1>1. CASE CancelGet(c) \/ StopRead(c)
  <2>1. call[c].job = NoJob /\ call[c].pc = "new" BY <1>1 DEF CancelGet, StopRead, CallAt, NewCalls
  <2>2. CASE CancelGet(c)
    <3>1. PICK j \in Job : \E p \in {"done", "find", "withdraw"}, E \in {{}, EnginesOf(j)} :
             call' = [call EXCEPT ![c].job = j, ![c].engs = E, ![c].pc = p]
      BY <2>2 DEF CancelGet
    <3> QED BY <1>t, <2>1, <3>1, NoneAssumption DEF CallsKept, NewCalls, CallState
  <2>3. CASE StopRead(c)
    <3>1. PICK e \in registered :
             call' = [call EXCEPT ![c].pc = "siblings", ![c].job = e[1], ![c].engs = {e}]
      BY <2>3 DEF StopRead
    <3> QED BY <1>t, <2>1, <3>1, NoneAssumption DEF CallsKept, NewCalls, CallState
  <2> QED BY <1>1, <2>2, <2>3
<1>2. CASE ~CancelGet(c) /\ ~StopRead(c)
  <2>1. CASE \E p \in CallPc \ {"new"} : CallGoto(c, p)
    BY <1>t, <2>1 DEF CallGoto, CallsKept, NewCalls, CallState
  <2>2. CASE CancelSnapshot(c)
    <3>1. CallOthers(c) /\ call'[c].job = call[c].job /\ call'[c].pc # "new"
      BY <1>t, <2>2 DEF CancelSnapshot, CallOthers, CallState
    <3> QED BY <3>1 DEF CallsKept, CallOthers, NewCalls
  <2>3. CASE CancelKill(c)
    <3>1. PICK T \in SUBSET Sandbox : call' = [call EXCEPT ![c].todo = T] \/ CallGoto(c, "flagged")
      BY <1>t, <2>3 DEF CancelKill, CallState
    <3>2. CallOthers(c) /\ call'[c].job = call[c].job /\ call'[c].pc # "new"
      BY <1>t, <2>3, <3>1 DEF CancelKill, CallAt, CallGoto, CallOthers, CallState
    <3> QED BY <3>2 DEF CallsKept, CallOthers, NewCalls
  <2>4. CASE CancelUnregister(c)
    <3>1. PICK p \in {"finish", "unregister"}, E \in SUBSET Engine :
             call' = [call EXCEPT ![c].engs = E, ![c].pc = p]
      BY <1>t, <2>4 DEF CancelUnregister, CallAt, CallState
    <3>2. CallOthers(c) /\ call'[c].job = call[c].job /\ call'[c].pc # "new"
      BY <1>t, <3>1 DEF CallOthers, CallState
    <3> QED BY <3>2 DEF CallsKept, CallOthers, NewCalls
  <2> QED
    BY <1>2, <2>1, <2>2, <2>3, <2>4, CallPcs DEF CancelNext, StopNext, FinishNext, CancelWithdraw, CancelFlag, CancelFind,
       CancelStopServing, StopSiblings, StopGroup, DropGroup, StopSandbox, DropEngine, FinishRead, FinishWrite,
       CallDies
<1> QED BY <1>1, <1>2

LEMMA CallCauseStep ==
    ASSUME IInv, CInv, NEW c \in Call, CancelNext(c) \/ StopNext(c) \/ FinishNext(c) \/ CallDies(c),
           UNCHANGED workerVars
    PROVE  Moves /\ NewCalls'
<1> DEFINE j == call[c].job
<1>t. SandboxesTypeOK /\ JobsType /\ NewCalls /\ call \in [Call -> CallState] /\ call[c] \in CallState
  BY RowsTyped DEF IInv, CInv, NewCalls, CallsTypeOK
<1>j. /\ CallsKept /\ NewCalls'
      /\ call[c].pc # "new" => call'[c].job = j
  BY <1>t, CallJobs
<1>m. ASSUME SandboxesKept, RowsMove PROVE Moves
  BY <1>m, <1>j, SlotsStill DEF Moves, WorkersKept, workerVars
<1>1. CASE CancelWithdraw(c)
  <2>1. CASE CancelQueued(j)
    <3>1. j \in Job => jobs'[j].worker = NoWorker
      BY <1>t, <2>1 DEF CancelQueued, SetStatus, StatusOf, JobsType, Row, CInv, RowOK, InQueue
    <3>2. j \in Job => CauseNext(j, "cancelled") BY <3>1 DEF CauseNext
    <3>3. RowsMove BY <1>t, <2>1, <3>2, Outcomes, SetStatusMoves DEF CancelQueued
    <3> QED BY <1>1, <1>m, <1>j, <3>3, SandboxesSame DEF CancelWithdraw
  <2>2. CASE UNCHANGED jobs BY <1>1, <1>m, <1>j, <2>2, SandboxesSame, RowsSame DEF CancelWithdraw
  <2> QED BY <1>1, <2>1, <2>2 DEF CancelWithdraw
<1>2. CASE CancelFlag(c)
  <2>1. RowsMove BY <1>2, <1>t, SmallMoves DEF CancelFlag
  <2> QED BY <1>2, <1>m, <1>j, <2>1, SandboxesSame DEF CancelFlag
<1>3. CASE FinishWrite(c)
  <2>1. j \in Job => CauseNext(j, "stopped")
    BY <1>3, <1>j DEF FinishWrite, CallAt, CauseNext
  <2>2. RowsMove BY <1>3, <1>t, <2>1, Outcomes, SetStatusMoves DEF FinishWrite
  <2> QED BY <1>3, <1>m, <1>j, <2>2, SandboxesSame DEF FinishWrite
<1>4. CASE ~CancelWithdraw(c) /\ ~CancelFlag(c) /\ ~FinishWrite(c)
  <2>1. UNCHANGED jobs
    BY <1>4 DEF CancelNext, StopNext, FinishNext, CancelGet, CancelSnapshot, CancelKill,
       CancelFind, CancelStopServing, CancelUnregister, StopRead, StopSiblings, StopGroup, DropGroup,
       StopSandbox, DropEngine, FinishRead, CallDies, dbVars
  <2>2. CASE CancelKill(c) BY <1>m, <1>j, <1>t, <2>1, <2>2, KillKept, SandboxesSame, RowsSame DEF CancelKill
  <2>3. CASE CancelStopServing(c) \/ StopSandbox(c)
    BY <1>m, <1>j, <1>t, <2>1, <2>3, TerminateKept, RowsSame DEF CancelStopServing, StopSandbox
  <2>4. CASE StopGroup(c) BY <1>m, <1>j, <2>1, <2>4, KillServerKept, SandboxesSame, RowsSame DEF StopGroup
  <2>5. CASE UNCHANGED modalVars BY <1>m, <1>j, <2>1, <2>5, SandboxesSame, RowsSame
  <2> QED
    BY <1>4, <2>2, <2>3, <2>4, <2>5 DEF CancelNext, StopNext, FinishNext, CancelGet, CancelSnapshot,
       CancelFind, CancelUnregister, StopRead, StopSiblings, DropGroup, DropEngine, FinishRead, CallDies
<1> QED BY <1>1, <1>2, <1>3, <1>4

-----------------------------------------------------------------------------
(* The whole step                                                          *)

LEMMA InitCInv == Init => CInv
  <1> SUFFICES ASSUME Init PROVE CInv OBVIOUS
  <1>1. \A j \in Job : RowOK(j) BY SandboxNames DEF Init, StoreInit, SandboxesInit, NoRow, RowOK, InQueue, StatusOf
  <1>2. CausesKnown BY DEF Init, StoreInit, NoRow, CausesKnown, StatusOf
  <1>3. \A w \in Worker : SlotCause(slot[w]) BY DEF Init, WorkersInit, IdleSlot, SlotCause, Ending, Prepping, Early
  <1>4. \A w \in Worker : RecCause(rec[w]) BY DEF Init, ReconcilersInit, OffRec, RecCause
  <1>5. \A c \in Call : call[c].pc = "new" => call[c].job = NoJob BY DEF Init, CallsInit, NewCall
  <1> QED BY <1>1, <1>2, <1>3, <1>4, <1>5 DEF CInv

LEMMA CInvFrom ==
    ASSUME IInv, CInv, Moves, NewCalls',
           \A w \in Worker : slot'[w] = slot[w] \/ SlotCause(slot[w])',
           \A w \in Worker : rec'[w] = rec[w] \/ RecCause(rec[w])'
    PROVE  CInv'
  <1>1. (\A j \in Job : RowOK(j))' /\ CausesKnown' BY RowsKept
  <1>2. ASSUME NEW w \in Worker PROVE SlotCause(slot[w])'
    BY SlotCauseKept DEF CInv
  <1>3. ASSUME NEW w \in Worker PROVE RecCause(rec[w])'
    BY RecCauseKept
  <1> QED BY <1>1, <1>2, <1>3 DEF CInv, NewCalls

LEMMA StepCInv == ASSUME IInv, CInv, [Next]_vars PROVE CInv' /\ Moves
<1>t. /\ SandboxesTypeOK /\ JobsType /\ WInv /\ NewCalls
      /\ rec \in [Worker -> RecState]
  BY RowsTyped DEF IInv, RInv, ReconcilersTypeOK, CInv, NewCalls
<1>u. up \in [Worker -> {"off", "up", "dead"}] /\ slot \in [Worker -> SlotState] BY <1>t DEF WInv, WorkersTypeOK
<1>n. UNCHANGED call => NewCalls' BY <1>t DEF NewCalls
<1>k. UNCHANGED call => CallsKept BY DEF CallsKept
<1>1. ASSUME NEW w \in Worker, Start(w) PROVE CInv' /\ Moves
  <2>1. WorkersKept BY <1>1, <1>u DEF Start, WorkersKept
  <2>2. Moves BY <1>1, <1>k, <2>1, SandboxesSame, SlotsStill, RowsSame DEF Start, dbVars, Moves
  <2>3. /\ rec'[w].pc = "reattach" /\ rec'[w].late = rec[w].late /\ RecOthers(w)
    BY <1>1, <1>t DEF Start, RecGoto, RecState, RecOthers
  <2>4. LateNext(rec'[w]) BY <2>2, <2>3, LateKept
  <2>5. RecCause(rec[w])' BY <2>3, <2>4, RecCauseNext DEF Closing, Reaping
  <2>6. \A v \in Worker : rec'[v] = rec[v] \/ RecCause(rec[v])' BY <2>3, <2>5 DEF RecOthers
  <2>7. UNCHANGED slot /\ UNCHANGED call BY <1>1 DEF Start
  <2> QED BY <1>n, <2>2, <2>6, <2>7, CInvFrom
<1>2. ASSUME NEW w \in Worker, Crash(w) PROVE CInv' /\ Moves
  <2>1. WorkersKept BY <1>2, <1>u DEF Crash, WorkersKept
  <2>2. SlotsMove
    <3>1. slot'[w].job = NoJob /\ SlotOthers(w) BY <1>2, <1>u DEF Crash, Release, IdleSlot, SlotOthers
    <3> QED BY <1>t, <3>1, SlotLooksAhead
  <2>3. Moves BY <1>2, <1>k, <2>1, <2>2, SandboxesSame, RowsSame DEF Crash, dbVars, Moves
  <2>4. SlotCause(slot[w])' /\ SlotOthers(w)
    BY <1>2, <1>u DEF Crash, Release, IdleSlot, SlotCause, SlotOthers, Ending, Prepping, Early
  <2>5. RecCause(rec[w])' /\ RecOthers(w) BY <1>2, <1>t DEF Crash, OffRec, RecCause, RecOthers
  <2>6. \A v \in Worker : rec'[v] = rec[v] \/ RecCause(rec[v])' BY <2>5 DEF RecOthers
  <2>7. \A v \in Worker : slot'[v] = slot[v] \/ SlotCause(slot[v])' BY <2>4 DEF SlotOthers
  <2> QED BY <1>2, <1>n, <2>3, <2>6, <2>7, CInvFrom DEF Crash
<1>3. ASSUME NEW w \in Worker, Slots(w) PROVE CInv' /\ Moves
  <2>1. SlotNext(w) /\ UNCHANGED rec /\ UNCHANGED call BY <1>3 DEF Slots, reconcilerVars, apiVars
  <2>2. Moves /\ SlotCause(slot[w])' /\ SlotOthers(w) BY <2>1, SlotCauseStep
  <2>3. \A v \in Worker : slot'[v] = slot[v] \/ SlotCause(slot[v])' BY <2>2 DEF SlotOthers
  <2> QED BY <1>n, <2>1, <2>2, <2>3, CInvFrom
<1>4. ASSUME NEW w \in Worker, Monitor(w) PROVE CInv' /\ Moves
  <2>1. UNCHANGED rec /\ UNCHANGED call BY <1>4 DEF Monitor, reconcilerVars, apiVars
  <2>2. CASE NoticeCancel(w)
    <3>1. /\ slot'[w].job = slot[w].job /\ slot'[w].pc = slot[w].pc /\ slot'[w].outcome = slot[w].outcome
           /\ SlotOthers(w)
      BY <1>u, <2>2 DEF NoticeCancel, SlotState, SlotOthers
    <3>2. SlotsMove BY <1>t, <3>1, SlotLooksAhead
    <3>3. Moves BY <1>k, <2>1, <2>2, <3>2, SandboxesSame, RowsSame DEF NoticeCancel, dbVars, Moves, WorkersKept
    <3>4. slot[w].job \in Job /\ slot[w].pc # "idle" BY <1>t, <2>2 DEF NoticeCancel, Executing, At, WInv, SlotInv, SlotOK
    <3>5. SlotCause(slot[w]) BY DEF CInv
    <3>6. jobs'[slot[w].job].cancel_requested BY <2>2 DEF NoticeCancel, JobOf, dbVars
    <3>7. slot[w].pc \in Ending => EndedNext(slot[w].job, slot[w].outcome)
      BY <3>3, <3>4, <3>5, SlotOwns, EndedKept DEF SlotCause, Ending
    <3>8. slot[w].pc \in Prepping => code'[<<slot[w].job, "prep">>] # "unborn"
      BY <2>2, <3>5 DEF NoticeCancel, modalVars, SlotCause, Prepping
    <3>9. slot[w].pc \in Early => code'[EngineSandbox(slot[w].job)] = "unborn"
      BY <2>2, <3>5 DEF NoticeCancel, modalVars, SlotCause
    <3>10. SlotCause(slot[w])'
      BY <3>4, <3>1, <3>6, <3>7, <3>8, <3>9 DEF SlotCause, Ended, EndedNext, Broken, BrokenNext, GivenUp,
         GivenUpNext, Exited
    <3>11. \A v \in Worker : slot'[v] = slot[v] \/ SlotCause(slot[v])' BY <3>1, <3>10 DEF SlotOthers
    <3> QED BY <1>n, <2>1, <3>3, <3>11, CInvFrom
  <2>3. CASE Beat(w)
    <3>1. RowsMove BY <1>t, <2>3, SmallMoves DEF Beat
    <3>2. Moves BY <1>k, <2>1, <2>3, <3>1, SandboxesSame, SlotsStill DEF Beat, Moves, WorkersKept, workerVars
    <3> QED BY <1>n, <2>1, <2>3, <3>2, CInvFrom DEF Beat, workerVars
  <2> QED BY <1>4, <2>2, <2>3 DEF Monitor, MonitorNext
<1>5. ASSUME NEW w \in Worker, Reconcile(w) PROVE CInv' /\ Moves
  <2>1. RecNext(w) /\ UNCHANGED call BY <1>5 DEF Reconcile, apiVars
  <2>2. Moves /\ RecCause(rec[w])' /\ RecOthers(w) BY <2>1, RecCauseStep
  <2>3. UNCHANGED slot BY <2>1, RecStep DEF RecGoal, IInv, workerVars
  <2>4. \A v \in Worker : rec'[v] = rec[v] \/ RecCause(rec[v])' BY <2>2 DEF RecOthers
  <2> QED BY <1>n, <2>1, <2>2, <2>3, <2>4, CInvFrom
<1>6. ASSUME NEW j \in Job, Submitted(j) \/ Ages(j) PROVE CInv' /\ Moves
  <2>1. RowsMove BY <1>6, <1>t, SmallMoves, AgeMoves DEF Submitted, Submit, Ages
  <2>2. UNCHANGED modalVars /\ UNCHANGED workerVars /\ UNCHANGED rec /\ UNCHANGED call
    BY <1>6 DEF Submitted, Submit, Ages, Age, reconcilerVars, apiVars
  <2>3. Moves BY <1>k, <2>1, <2>2, SandboxesSame, SlotsStill DEF Moves, WorkersKept, workerVars
  <2> QED BY <1>n, <2>2, <2>3, CInvFrom DEF workerVars
<1>7. ASSUME NEW c \in Call, Cancelling(c) \/ Stopping(c) \/ RequestDies(c) PROVE CInv' /\ Moves
  <2>1. /\ CancelNext(c) \/ StopNext(c) \/ FinishNext(c) \/ CallDies(c)
        /\ UNCHANGED workerVars /\ UNCHANGED rec
    BY <1>7 DEF Cancelling, Stopping, RequestDies, reconcilerVars
  <2>2. Moves /\ NewCalls' BY <2>1, CallCauseStep
  <2> QED BY <2>1, <2>2, CInvFrom DEF workerVars
<1>8. ASSUME Modal PROVE CInv' /\ Moves
  <2>1. SandboxesKept BY <1>8, <1>t, ModalKeptAll DEF Modal
  <2>2. UNCHANGED <<jobs, up, slot, rec>> /\ UNCHANGED call
    BY <1>8 DEF Modal, dbVars, workerVars, reconcilerVars, apiVars
  <2>3. Moves BY <1>k, <2>1, <2>2, SlotsStill, RowsSame DEF Moves, WorkersKept
  <2> QED BY <1>n, <2>2, <2>3, CInvFrom
<1>9. ASSUME UNCHANGED vars PROVE CInv' /\ Moves
  <2>1. UNCHANGED modalVars /\ UNCHANGED <<jobs, up, slot, rec>> /\ UNCHANGED call
    BY <1>9 DEF vars, dbVars, workerVars, reconcilerVars, apiVars
  <2>2. Moves BY <1>k, <2>1, SandboxesSame, SlotsStill, RowsSame DEF Moves, WorkersKept
  <2> QED BY <1>n, <2>1, <2>2, CInvFrom
<1> QED
  BY <1>1, <1>2, <1>3, <1>4, <1>5, <1>6, <1>7, <1>8, <1>9 DEF Next, Call

LEMMA CausesAlways == Spec => [](IInv /\ CInv)
  <1>1. Init => CInv BY InitCInv
  <1>2. IInv /\ CInv /\ [Next]_vars => CInv' BY StepCInv
  <1> QED BY <1>1, <1>2, Invariance, PTL DEF Spec

(* Whatever goes wrong, `timeout`, `stopped` and `cancelled` mean what     *)
(* they say (_execute, finish_engine_job, cancel); `failed` does unless an *)
(* exception or an unanswered poll can be taken for an exit, and           *)
(* `interrupted` unless a heartbeat can be late (reap_stale).              *)
THEOREM CausesAreKnown == Spec => []CausesKnown
  <1>1. CInv => CausesKnown BY DEF CInv
  <1> QED BY <1>1, CausesAlways, PTL

(* A job's end status is the reason it ended, whoever writes it: _execute, *)
(* finish_engine_job, reap_stale or cancel; with any number of jobs,       *)
(* groups, workers and requests, crashes, dying requests, abandoned ticks  *)
(* and terminations that do nothing.                                       *)
THEOREM EndsForACause == ASSUME NoLies PROVE Spec => []EndStatusHasCause
  <1>1. CausesKnown => EndStatusHasCause
    BY DEF NoLies, CausesKnown, Broken, GivenUp, Exited, ExitCode, Orphan, EndStatusHasCause
  <1> QED BY <1>1, CausesAreKnown, PTL
=============================================================================

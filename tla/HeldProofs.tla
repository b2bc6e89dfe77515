----------------------------- MODULE HeldProofs -----------------------------
(***************************************************************************)
(* What is terminated, and what is not forgotten, for every set of jobs,   *)
(* workers, groups and calls, with crashes, dying requests and abandoned   *)
(* ticks.                                                                  *)
(*                                                                         *)
(* Part 1: the engine of a serving job is terminated for a cause only, as  *)
(* long as no heartbeat of a live worker is late, whatever else fails.     *)
(*                                                                         *)
(* Part 2: no sandbox whose id was logged is lost, as long as, besides,    *)
(* Modal does what it is asked and exceptions mean what they are taken     *)
(* for.  Whoever gives a row its end status has to know that the job's     *)
(* sandboxes are down, or that its engines are registered.  The slot knows *)
(* because it has killed what was logged, and what is running was logged;  *)
(* the reaper because nobody runs the job any more; a reconciler because   *)
(* it saw an exit code; a call because it terminated the sandbox, or       *)
(* because the job had been handed over.                                   *)
(***************************************************************************)
EXTENDS CauseProofs

PrepSandbox(j) == <<j, "prep">>
Asked(j) == j \in expired \/ \E c \in Call : call[c].job = j

-----------------------------------------------------------------------------
(* Part 1: what is terminated.  Only who was asked to, or has the job and  *)
(* gives it up, terminates an engine: a slot at its clean-up, which does   *)
(* not hand the job over any more, or a reaper of a job whose worker is    *)
(* dead.  A job without result never serves, so neither hits one that      *)
(* does, whatever `spare` says.                                            *)

(* The places of a slot that gives its job up.                             *)
Killing == {"killing", "close"}

Unserved(j) ==
    ~jobs[j].result /\ \A w \in Worker : slot[w].job = j => slot[w].pc \in Killing

JobKills(j) ==
    /\ InQueue(StatusOf(j)) => code[EngineSandbox(j)] = "unborn"
    /\ StatusOf(j) = "running" => ~jobs[j].result
    /\ code[EngineSandbox(j)] = "exit137" => Asked(j) \/ Unserved(j)

SlotKills(r) == r.pc = "killing" => r.todo \subseteq SandboxesOf(r.job)

RecKills(r) ==
    /\ r.pc \in Reaping => \A j \in r.jobs : ~jobs[j].result
    /\ r.pc = "reap_killing" => ~jobs[r.job].result /\ r.todo \subseteq SandboxesOf(r.job)

CallKills(r) ==
    /\ r.pc # "new" => r.job \in Job
    /\ r.pc = "killing" => r.todo \subseteq SandboxesOf(r.job)

(* A process that is not up runs nothing.                                  *)
RunsOnlyUp == \A w \in Worker : up[w] # "up" => slot[w].pc = "idle"

KInv ==
    /\ RunsOnlyUp
    /\ \A j \in Job : JobKills(j)
    /\ \A w \in Worker : SlotKills(slot[w]) /\ RecKills(rec[w])
    /\ \A c \in Call : CallKills(call[c])

(* What is known before a step, and what the proofs before this one give   *)
(* of it.                                                                  *)
KBefore == Punctual /\ IInv /\ UInv /\ CInv /\ KInv
After == IInv' /\ UInv' /\ CInv' /\ Moves /\ UGoal

-----------------------------------------------------------------------------
(* What a step does to the engines' sandboxes, results and slots.          *)

Creates(j) ==
    code'[EngineSandbox(j)] # "unborn" => code[EngineSandbox(j)] # "unborn" \/ ~InQueue(StatusOf(j))

Serves(j) ==
    jobs'[j].result =>
       \/ jobs[j].result
       \/ jobs'[j].status = "serving" /\ \E w \in Worker : slot[w].job = j /\ slot[w].pc = "handover"

Kills(j) ==
    code'[EngineSandbox(j)] = "exit137" =>
       \/ code[EngineSandbox(j)] = "exit137"
       \/ j \in expired' \/ \E c \in Call : call'[c].job = j
       \/ ~jobs'[j].result /\ \A w \in Worker : slot'[w].job = j => slot'[w].pc \in Killing

(* A slot takes a job from the queue, and once it kills it only closes.    *)
SlotMoves(w) ==
    slot'[w].job \in Job =>
       \/ slot'[w].job = slot[w].job /\ (slot[w].pc \in Killing => slot'[w].pc \in Killing)
       \/ InQueue(jobs[slot'[w].job].status)

EngineMoves ==
    /\ \A j \in Job : Creates(j) /\ Serves(j) /\ Kills(j)
    /\ \A w \in Worker : SlotMoves(w)
    /\ RunsOnlyUp'

-----------------------------------------------------------------------------
(* What such a step keeps.                                                 *)

LEMMA OrphanFree ==
    ASSUME Punctual, IInv, RunsOnlyUp, NEW j \in Job, Orphan(j), NEW w \in Worker PROVE slot[w].job # j
  <1> SUFFICES ASSUME slot[w].job = j PROVE FALSE OBVIOUS
  <1>1. slot[w].pc # "idle" BY NoneAssumption DEF IInv, WInv, SlotInv, SlotOK
  <1>2. jobs[j].worker = w BY NoneAssumption DEF IInv, ClaimedOnce, JobOf
  <1> QED BY <1>1, <1>2 DEF RunsOnlyUp, Orphan

LEMMA OrphanUnserved ==
    ASSUME KBefore, EngineMoves, NEW j \in Job, Orphan(j), ~jobs[j].result PROVE ~jobs'[j].result
  <1>1. \A w \in Worker : slot[w].job # j BY OrphanFree DEF KBefore, KInv
  <1> QED BY <1>1 DEF EngineMoves, Serves

LEMMA JobKillsKept ==
    ASSUME KBefore, After, EngineMoves, NEW j \in Job PROVE JobKills(j)'
<1>1. JobKills(j) /\ Creates(j) /\ Serves(j) /\ Kills(j) BY DEF KBefore, KInv, EngineMoves
<1>2. RowMoves(j) BY DEF After, Moves, RowsMove
<1>3. InQueue(jobs'[j].status) => InQueue(StatusOf(j))
  BY <1>2 DEF RowMoves, InQueue, StatusOf, TERMINAL
<1>4. InQueue(jobs'[j].status) => code'[EngineSandbox(j)] = "unborn"
  BY <1>1, <1>3 DEF JobKills, Creates
<1>5. jobs'[j].status = "running" => ~jobs'[j].result
  <2>1. jobs'[j].status = "running" => StatusOf(j) \in {"running", "queued"}
    BY <1>2 DEF RowMoves, StatusOf, TERMINAL
  <2>2. StatusOf(j) \in {"running", "queued"} => ~jobs[j].result
    BY <1>1 DEF JobKills, KBefore, UInv, ResultInv
  <2> QED BY <1>1, <2>1, <2>2 DEF Serves
<1>6. ASSUME code'[EngineSandbox(j)] = "exit137", ~(j \in expired' \/ \E c \in Call : call'[c].job = j)
      PROVE  ~jobs'[j].result /\ \A w \in Worker : slot'[w].job = j => slot'[w].pc \in Killing
  <2>1. CASE code[EngineSandbox(j)] = "exit137"
    <3>1. ~Asked(j) BY <1>6 DEF Asked, After, Moves, SandboxesKept, CallsKept
    <3>2. Unserved(j) BY <1>1, <2>1, <3>1 DEF JobKills
    <3>3. ~jobs'[j].result BY <1>1, <3>2 DEF Serves, Unserved, Killing
    <3>4. ~InQueue(jobs[j].status) BY <1>1, <2>1 DEF JobKills, StatusOf
    <3> QED BY <3>2, <3>3, <3>4 DEF Unserved, EngineMoves, SlotMoves
  <2>2. CASE code[EngineSandbox(j)] # "exit137" BY <1>1, <1>6, <2>2 DEF Kills
  <2> QED BY <2>1, <2>2
<1> QED BY <1>4, <1>5, <1>6 DEF JobKills, StatusOf, Asked, Unserved

LEMMA RecKillsKept ==
    ASSUME KBefore, EngineMoves, NEW w \in Worker, rec'[w] = rec[w] PROVE RecKills(rec[w])'
<1>t. rec[w].jobs \subseteq Job BY DEF KBefore, IInv, RInv, ReconcilersTypeOK, RecState
<1>1. RecKills(rec[w]) /\ RecCause(rec[w]) BY DEF KBefore, KInv, CInv
<1>2. rec[w].pc \in Reaping => \A j \in rec[w].jobs : ~jobs'[j].result
  BY <1>t, <1>1, OrphanUnserved DEF RecKills, RecCause, Reaping
<1>3. rec[w].pc = "reap_killing" => ~jobs'[rec[w].job].result
  BY <1>1, OrphanUnserved DEF RecKills, RecCause
<1> QED BY <1>1, <1>2, <1>3 DEF RecKills

LEMMA KillsFrom ==
    ASSUME KBefore, After, EngineMoves,
           \A w \in Worker : slot'[w] = slot[w] \/ SlotKills(slot[w])',
           \A w \in Worker : rec'[w] = rec[w] \/ RecKills(rec[w])',
           \A c \in Call : call'[c] = call[c] \/ CallKills(call[c])'
    PROVE  KInv'
  <1>1. \A j \in Job : JobKills(j)' BY JobKillsKept
  <1>2. \A w \in Worker : SlotKills(slot[w])' BY DEF KBefore, KInv, SlotKills
  <1>3. \A w \in Worker : RecKills(rec[w])' BY RecKillsKept
  <1>4. \A c \in Call : CallKills(call[c])' BY DEF KBefore, KInv, CallKills
  <1>5. RunsOnlyUp' BY DEF EngineMoves
  <1> QED BY <1>1, <1>2, <1>3, <1>4, <1>5 DEF KInv

-----------------------------------------------------------------------------
(* Ways to leave the engines alone, and to end one.                        *)

LEMMA EnginesLeft ==
    ASSUME NEW j, code'[EngineSandbox(j)] = code[EngineSandbox(j)] PROVE Creates(j) /\ Kills(j)
  BY DEF Creates, Kills

LEMMA ResultsLeft == ASSUME ResultsKept, NEW j \in Job PROVE Serves(j)
  BY DEF ResultsKept, Serves

LEMMA OnlyOf ==
    ASSUME SandboxesTypeOK, NEW j \in Job, NEW s \in SandboxesOf(j),
           Terminate(s) \/ UNCHANGED modalVars,
           Kills(j)
    PROVE  \A i \in Job : Creates(i) /\ Kills(i)
  <1>1. ASSUME NEW i \in Job \ {j} PROVE code'[EngineSandbox(i)] = code[EngineSandbox(i)]
    <2>1. EngineSandbox(i) # s BY DEF SandboxesOf, EngineSandbox
    <2> QED BY <2>1, SandboxNames DEF Terminate, SandboxesTypeOK, modalVars
  <1>2. Creates(j) BY SandboxNames DEF Creates, Terminate, SandboxesTypeOK, modalVars
  <1> QED BY <1>1, <1>2, EnginesLeft

LEMMA PrepOnly ==
    ASSUME SandboxesTypeOK, NEW j \in Job, Create(PrepSandbox(j)) \/ Terminate(PrepSandbox(j)), NEW i \in Job
    PROVE  code'[EngineSandbox(i)] = code[EngineSandbox(i)]
  BY SandboxNames DEF Create, Terminate, SandboxesTypeOK, PrepSandbox, EngineSandbox

LEMMA SlotsStay == ASSUME UNCHANGED slot PROVE \A w \in Worker : SlotMoves(w)
  BY DEF SlotMoves

-----------------------------------------------------------------------------
(* One step of a slot.                                                     *)

LEMMA SlotAlive == ASSUME IInv, RunsOnlyUp, NEW w \in Worker, SlotNext(w) PROVE up[w] = "up" /\ UNCHANGED up
  <1>1. slot[w].pc # "idle" => up[w] = "up" BY DEF RunsOnlyUp
  <1>2. CASE Claim(w) BY <1>2 DEF Claim
  <1>3. CASE ~Claim(w)
    <2>1. slot[w].pc # "idle" /\ UNCHANGED up
      BY <1>3 DEF SlotNext, At, Begin, CreatePrep, LogPrep, PrepDone, PrepRaises, CreateEngine, LogEngine,
         CheckRaises, WaitReturns, WaitExited, RegisterGroup, Serve, Fails, Except, Cleanup, KillOne,
         KillDone, CloseJob
    <2> QED BY <1>1, <2>1
  <1> QED BY <1>2, <1>3

LEMMA SlotKillsFrom ==
    ASSUME KBefore, After, NEW w \in Worker, SlotNext(w), SlotOthers(w), UNCHANGED rec, UNCHANGED call,
           \A i \in Job : Creates(i) /\ Serves(i) /\ Kills(i), SlotMoves(w), SlotKills(slot[w])'
    PROVE  KInv'
  <1>1. \A v \in Worker : SlotMoves(v) BY DEF SlotOthers, SlotMoves
  <1>2. RunsOnlyUp' BY SlotAlive DEF KBefore, KInv, RunsOnlyUp, SlotOthers
  <1>3. EngineMoves BY <1>1, <1>2 DEF EngineMoves
  <1> QED BY <1>3, KillsFrom DEF SlotOthers

LEMMA SlotKillStep ==
    ASSUME KBefore, After, NEW w \in Worker, SlotNext(w), UNCHANGED rec, UNCHANGED call PROVE KInv'
<1> DEFINE j == slot[w].job
<1>t. /\ SandboxesTypeOK /\ JobsType
      /\ slot \in [Worker -> SlotState] /\ slot[w] \in SlotState /\ SlotOK(slot[w])
  BY RowsTyped DEF KBefore, IInv, WInv, WorkersTypeOK, SlotInv
<1>k. SlotKills(slot[w]) BY DEF KBefore, KInv
<1>o. SlotOthers(w) BY SlotCauseStep DEF KBefore
(* Nothing happens to an engine, and the slot is not about to kill.        *)
<1>q. ASSUME ResultsKept, \A i \in Job : code'[EngineSandbox(i)] = code[EngineSandbox(i)],
             slot'[w].job = j, slot[w].pc \notin Killing, slot'[w].pc # "killing"
      PROVE  KInv'
  <2>1. SlotMoves(w) /\ SlotKills(slot[w])' BY <1>q DEF SlotMoves, SlotKills
  <2> QED BY <1>q, <1>o, <2>1, EnginesLeft, ResultsLeft, SlotKillsFrom
<1>1. CASE Claim(w)
  <2>1. PICK i \in Job : ClaimRow(i, w) /\ slot' = [slot EXCEPT ![w].pc = "claimed", ![w].job = i]
    BY <1>1 DEF Claim
  <2>2. slot'[w].pc = "claimed" /\ slot'[w].job = i BY <1>t, <2>1 DEF SlotState
  <2>3. InQueue(jobs[i].status) BY <2>1 DEF ClaimRow, OldestQueued, InQueue, StatusOf
  <2>4. SlotMoves(w) /\ SlotKills(slot[w])' BY <2>2, <2>3 DEF SlotMoves, SlotKills
  <2>5. ResultsKept BY <1>t, <2>1, RowsResults
  <2>6. UNCHANGED code BY <1>1 DEF Claim, modalVars
  <2> QED BY <1>o, <2>4, <2>5, <2>6, EnginesLeft, ResultsLeft, SlotKillsFrom
<1>2. CASE Begin(w) \/ LogPrep(w) \/ LogEngine(w) \/ CheckRaises(w) \/ WaitReturns(w) \/ WaitExited(w)
           \/ Fails(w) \/ Except(w)
  <2>1. UNCHANGED code
    BY <1>2 DEF Begin, LogPrep, LogEngine, CheckRaises, WaitReturns, WaitExited, Fails, Except, modalVars
  <2>2. slot'[w].job = j /\ slot[w].pc \notin Killing /\ slot'[w].pc # "killing"
    BY <1>2, <1>t DEF Begin, LogPrep, LogEngine, CheckRaises, WaitReturns, WaitExited, Fails, Except,
       At, Goto, Raise, RaiseCancelled, Killing, SlotState
  <2>3. ResultsKept
    BY <1>2, ResultsSame DEF Begin, LogPrep, LogEngine, CheckRaises, WaitReturns, WaitExited, Fails, Except, dbVars
  <2> QED BY <1>q, <2>1, <2>2, <2>3
<1>3. CASE CreatePrep(w) \/ PrepDone(w) \/ PrepRaises(w)
  <2>1. j \in Job /\ (Create(PrepSandbox(j)) \/ Terminate(PrepSandbox(j)))
    BY <1>3, <1>t DEF CreatePrep, PrepDone, PrepRaises, At, SlotOK, JobOf, PrepSandbox
  <2>2. slot'[w].job = j /\ slot[w].pc \notin Killing /\ slot'[w].pc # "killing"
    BY <1>3, <1>t DEF CreatePrep, PrepDone, PrepRaises, At, Goto, Raise, RaiseCancelled, Killing, SlotState
  <2>3. ResultsKept BY <1>3, ResultsSame DEF CreatePrep, PrepDone, PrepRaises, dbVars
  <2> QED BY <1>t, <1>q, <2>1, <2>2, <2>3, PrepOnly
<1>4. CASE CreateEngine(w)
  <2>1. j \in Job /\ Create(EngineSandbox(j)) /\ ResultsKept
    BY <1>4, <1>t, ResultsSame DEF CreateEngine, At, SlotOK, JobOf, dbVars
  <2>2. ~InQueue(StatusOf(j)) BY <2>1, NoneAssumption DEF KBefore, IInv, ClaimedOnce, JobOf, InQueue
  <2>3. code'[EngineSandbox(j)] = "running" /\ \A i \in Job \ {j} : code'[EngineSandbox(i)] = code[EngineSandbox(i)]
    BY <1>t, <2>1, SandboxNames DEF Create, SandboxesTypeOK, EngineSandbox
  <2>4. Creates(j) /\ Kills(j) BY <2>2, <2>3 DEF Creates, Kills
  <2>5. slot'[w].job = j /\ slot[w].pc = "launch" /\ slot'[w].pc = "log_engine"
    BY <1>4, <1>t DEF CreateEngine, At, Goto, SlotState
  <2>6. SlotMoves(w) /\ SlotKills(slot[w])' BY <2>5 DEF SlotMoves, SlotKills, Killing
  <2> QED BY <1>o, <2>1, <2>3, <2>4, <2>6, EnginesLeft, ResultsLeft, SlotKillsFrom
<1>5. CASE RegisterGroup(w)
  <2>1. UNCHANGED code /\ ResultsKept BY <1>5, ResultsSame DEF RegisterGroup, modalVars
  <2>2. slot'[w].job = j /\ slot[w].pc \notin Killing /\ slot'[w].pc # "killing"
    BY <1>5, <1>t DEF RegisterGroup, At, Killing, SlotState
  <2> QED BY <1>q, <2>1, <2>2
<1>6. CASE Serve(w)
  <2>1. /\ UNCHANGED code /\ slot[w].pc = "handover" /\ j \in Job
        /\ jobs' = [jobs EXCEPT ![j].status = "serving", ![j].result = TRUE]
    BY <1>6, <1>t DEF Serve, At, SlotOK, JobOf, modalVars
  <2>2. slot'[w].pc = "idle" /\ slot'[w].job = NoJob BY <1>6, <1>t DEF Serve, Release, IdleSlot
  <2>3. jobs'[j].status = "serving" /\ \A i \in Job \ {j} : jobs'[i] = jobs[i]
    BY <1>t, <2>1 DEF JobsType, Row
  <2>4. \A i \in Job : Serves(i) BY <2>1, <2>3 DEF Serves
  <2>5. SlotMoves(w) /\ SlotKills(slot[w])' BY <2>2, NoneAssumption DEF SlotMoves, SlotKills
  <2> QED BY <1>o, <2>1, <2>4, <2>5, EnginesLeft, SlotKillsFrom
<1>7. CASE Cleanup(w)
  <2>1. UNCHANGED code /\ slot[w].pc = "cleanup" BY <1>7 DEF Cleanup, At, modalVars
  <2>2. slot'[w].job = j /\ slot'[w].pc = "killing" /\ slot'[w].todo = LoggedOf(j)
    BY <1>7, <1>t DEF Cleanup, SlotState, JobOf
  <2>3. SlotMoves(w) /\ SlotKills(slot[w])' BY <2>1, <2>2 DEF SlotMoves, SlotKills, LoggedOf, Killing
  <2>4. ResultsKept BY <1>7, ResultsSame DEF Cleanup, dbVars
  <2> QED BY <1>o, <2>1, <2>3, <2>4, EnginesLeft, ResultsLeft, SlotKillsFrom
<1>8. CASE KillOne(w)
  <2>1. slot[w].pc = "killing" /\ j \in Job /\ ResultsKept /\ UNCHANGED jobs
    BY <1>8, <1>t, ResultsSame DEF KillOne, At, SlotOK, dbVars
  <2>2. PICK s \in slot[w].todo : /\ Terminate(s) \/ UNCHANGED modalVars
                                 /\ slot' = [slot EXCEPT ![w].todo = @ \ {s}]
    BY <1>8 DEF KillOne, KillUnlessSpared
  <2>3. slot[w].todo \subseteq SandboxesOf(j) BY <1>k, <2>1 DEF SlotKills
  <2>4. /\ slot'[w].job = j /\ slot'[w].pc = "killing" /\ slot'[w].todo = slot[w].todo \ {s}
    BY <1>t, <2>1, <2>2 DEF SlotState
  <2>5. \A v \in Worker : slot'[v].job = j => slot'[v].pc = "killing"
    BY <1>o, <2>1, <2>4, NoneAssumption DEF KBefore, IInv, ClaimedOnce, JobOf, SlotOthers
  <2>6. ~jobs'[j].result BY <2>1 DEF KBefore, UInv, ResultInv
  <2>7. Kills(j) BY <2>5, <2>6 DEF Kills, Killing
  <2>8. \A i \in Job : Creates(i) /\ Kills(i) BY <1>t, <2>1, <2>2, <2>3, <2>7, OnlyOf
  <2>9. SlotMoves(w) /\ SlotKills(slot[w])' BY <2>3, <2>4 DEF SlotMoves, SlotKills, Killing
  <2> QED BY <1>o, <2>1, <2>8, <2>9, ResultsLeft, SlotKillsFrom
<1>9. CASE KillDone(w)
  <2>1. UNCHANGED code /\ ResultsKept BY <1>9, ResultsSame DEF KillDone, modalVars, dbVars
  <2>2. slot'[w].job = j /\ slot'[w].pc = "close" BY <1>9, <1>t DEF KillDone, Goto, SlotState
  <2>3. SlotMoves(w) /\ SlotKills(slot[w])' BY <2>2 DEF SlotMoves, SlotKills, Killing
  <2> QED BY <1>o, <2>1, <2>3, EnginesLeft, ResultsLeft, SlotKillsFrom
<1>10. CASE CloseJob(w)
  <2>1. UNCHANGED code BY <1>10 DEF CloseJob, modalVars
  <2>2. slot'[w].pc = "idle" /\ slot'[w].job = NoJob BY <1>10, <1>t DEF CloseJob, Release, IdleSlot
  <2>3. SlotMoves(w) /\ SlotKills(slot[w])' BY <2>2, NoneAssumption DEF SlotMoves, SlotKills
  <2>4. slot[w].outcome # "serving" BY <1>t DEF SlotState, Outcome
  <2>5. ResultsKept BY <1>10, <1>t, <2>4, SetStatusResults DEF CloseJob
  <2> QED BY <1>o, <2>1, <2>3, <2>5, EnginesLeft, ResultsLeft, SlotKillsFrom
<1> QED
  BY <1>1, <1>2, <1>3, <1>4, <1>5, <1>6, <1>7, <1>8, <1>9, <1>10 DEF SlotNext

-----------------------------------------------------------------------------
(* One step of a reconciler.                                               *)

LEMMA WorkersStill ==
    ASSUME RunsOnlyUp, UNCHANGED workerVars PROVE RunsOnlyUp' /\ \A w \in Worker : SlotMoves(w)
  BY DEF RunsOnlyUp, SlotMoves, workerVars

LEMMA RecKillsFrom ==
    ASSUME KBefore, After, NEW w \in Worker, UNCHANGED workerVars, UNCHANGED call, RecOthers(w), ResultsKept,
           \A i \in Job : Creates(i) /\ Kills(i), RecKills(rec[w])'
    PROVE  KInv'
  <1>1. EngineMoves BY WorkersStill, ResultsLeft DEF EngineMoves, KBefore, KInv
  <1> QED BY <1>1, KillsFrom DEF RecOthers, workerVars

LEMMA RecKillStep ==
    ASSUME KBefore, After, NEW w \in Worker, RecNext(w), UNCHANGED call PROVE KInv'
<1> DEFINE j == rec[w].job
<1>t. /\ SandboxesTypeOK /\ JobsType
      /\ rec \in [Worker -> RecState] /\ rec[w] \in RecState /\ rec[w].jobs \subseteq Job
      /\ RecKills(rec[w]) /\ RecCause(rec[w])
  BY RowsTyped DEF KBefore, IInv, RInv, ReconcilersTypeOK, KInv, CInv, RecState
<1>o. RecOthers(w) /\ UNCHANGED workerVars BY RecCauseStep, RecStep DEF KBefore, RecGoal, IInv
<1>r. ResultsKept BY RecQuiet DEF KBefore, Kept
<1>q. ASSUME UNCHANGED code, RecKills(rec[w])' PROVE KInv'
  BY <1>q, <1>o, <1>r, EnginesLeft, RecKillsFrom
<1>1. CASE ReattachEngines(w) \/ ReattachList(w) \/ AttachKeep(w) \/ AttachLost(w) \/ AttachDone(w)
           \/ TickList(w) \/ PollExited(w) \/ PollRaises(w) \/ PollExpired(w) \/ PollFine(w)
  <2>1. UNCHANGED code
    BY <1>1 DEF ReattachEngines, ReattachList, AttachKeep, AttachLost, AttachDone, TickList, PollExited,
       PollRaises, PollExpired, PollFine, modalVars
  <2>2. CASE ReattachEngines(w) \/ ReattachList(w) \/ AttachKeep(w) \/ AttachDone(w) \/ TickList(w) \/ PollFine(w)
    <3>1. rec'[w].pc \in {"attach_list", "attach", "reap_list", "tick"}
      BY <2>2, <1>t DEF ReattachEngines, ReattachList, AttachKeep, AttachDone, TickList, PollFine, RecAt,
         RecGoto, RecState
    <3> QED BY <1>q, <2>1, <3>1 DEF RecKills, Reaping
  <2>3. CASE AttachLost(w) \/ PollExited(w) \/ PollRaises(w) \/ PollExpired(w)
    <3>1. rec'[w].pc \in {"finish", "drop", "expire"}
      <4>1. AttachLost(w) => rec'[w].pc = "finish" BY <1>t DEF AttachLost, RecState
      <4>2. PollExited(w) => rec'[w].pc = "drop" BY <1>t DEF PollExited, RecState
      <4>3. PollRaises(w) => rec'[w].pc = "drop" BY <1>t DEF PollRaises, RecState
      <4>4. PollExpired(w) => rec'[w].pc = "expire" BY <1>t DEF PollExpired, RecState
      <4> QED BY <2>3, <4>1, <4>2, <4>3, <4>4
    <3> QED BY <1>q, <2>1, <3>1 DEF RecKills, Reaping
  <2> QED BY <1>1, <2>2, <2>3
<1>2. CASE Drop(w) \/ TickDone(w) \/ RecFinishRead(w) \/ RecFinishWrite(w) \/ TickRaises(w) \/ ReapDone(w)
  <2>1. UNCHANGED code
    BY <1>2 DEF Drop, TickDone, RecFinishRead, RecFinishWrite, TickRaises, ReapDone, modalVars
  <2>2. rec'[w].pc \in {"attach", "tick", "finish", "finish_write", "reap_list", "idle"}
    BY <1>2, <1>t DEF Drop, TickDone, RecFinishRead, RecFinishWrite, TickRaises, ReapDone, RecGoto, RecBack,
       RecState, OffRec
  <2>3. RecKills(rec[w])' BY <2>2 DEF RecKills, Reaping
  <2> QED BY <1>q, <2>1, <2>3
<1>3. CASE ReapList(w)
  <2>1. UNCHANGED <<code, jobs>> BY <1>3 DEF ReapList, modalVars, dbVars
  <2>2. rec'[w].pc = "reap" /\ rec'[w].jobs = StaleRunning BY <1>3, <1>t DEF ReapList, RecState
  <2>3. \A i \in StaleRunning : ~jobs[i].result BY DEF StaleRunning, KBefore, KInv, JobKills
  <2>4. RecKills(rec[w])' BY <2>1, <2>2, <2>3 DEF RecKills, Reaping
  <2> QED BY <1>q, <2>1, <2>4
<1>4. CASE ReapOwn(w)
  <2>1. UNCHANGED <<code, jobs>> /\ rec[w].pc = "reap" BY <1>4 DEF ReapOwn, RecAt, modalVars, dbVars
  <2>2. rec'[w].pc = "reap" /\ rec'[w].jobs \subseteq rec[w].jobs BY <1>4, <1>t, <2>1 DEF ReapOwn, RecState
  <2>3. RecKills(rec[w])' BY <1>t, <2>1, <2>2 DEF RecKills, Reaping
  <2> QED BY <1>q, <2>1, <2>3
<1>5. CASE ReapJob(w)
  <2>1. UNCHANGED <<code, jobs>> /\ rec[w].pc = "reap" BY <1>5 DEF ReapJob, RecAt, modalVars, dbVars
  <2>2. PICK i \in rec[w].jobs :
           rec' = [rec EXCEPT ![w].pc = "reap_killing", ![w].jobs = @ \ {i}, ![w].job = i,
                              ![w].todo = LoggedOf(i), ![w].spare = RegisteredSandboxes]
    BY <1>5 DEF ReapJob
  <2>3. /\ rec'[w].jobs \subseteq rec[w].jobs /\ rec'[w].job = i /\ rec'[w].todo = LoggedOf(i)
    BY <1>t, <2>2 DEF RecState
  <2>4. \A k \in rec[w].jobs : ~jobs'[k].result BY <1>t, <2>1 DEF RecKills, Reaping
  <2>5. LoggedOf(i) \subseteq SandboxesOf(i) BY DEF LoggedOf
  <2>6. RecKills(rec[w])' BY <2>3, <2>4, <2>5 DEF RecKills
  <2> QED BY <1>q, <2>1, <2>6
<1>6. CASE Expire(w)
  <2>1. /\ j \in Job /\ j \in expired
        /\ Terminate(EngineSandbox(j)) \/ UNCHANGED modalVars
    BY <1>6, <1>t DEF Expire, RecAt, RecCause
  <2>2. j \in expired' BY <2>1 DEF After, Moves, SandboxesKept
  <2>3. Kills(j) BY <2>2 DEF Kills
  <2>4. EngineSandbox(j) \in SandboxesOf(j) BY <2>1, SandboxNames
  <2>5. \A i \in Job : Creates(i) /\ Kills(i) BY <1>t, <2>1, <2>3, <2>4, OnlyOf
  <2>6. rec'[w].pc = "drop" BY <1>6, <1>t DEF Expire, RecGoto, RecState
  <2>7. RecKills(rec[w])' BY <2>6 DEF RecKills, Reaping
  <2> QED BY <1>o, <1>r, <2>5, <2>7, RecKillsFrom
<1>7. CASE ReapKill(w)
  <2>1. /\ rec[w].pc = "reap_killing" /\ j \in Job /\ Orphan(j) /\ ~jobs[j].result
        /\ rec[w].todo \subseteq SandboxesOf(j) /\ UNCHANGED jobs
    BY <1>7, <1>t DEF ReapKill, RecAt, RecCause, RecKills, dbVars
  <2>2. PICK s \in rec[w].todo : /\ Terminate(s) \/ UNCHANGED modalVars
                                /\ rec' = [rec EXCEPT ![w].todo = @ \ {s}]
    BY <1>7 DEF ReapKill, KillUnlessSpared
  <2>3. \A v \in Worker : slot'[v].job # j
    BY <1>o, <2>1, OrphanFree DEF KBefore, KInv, workerVars
  <2>4. Kills(j) BY <2>1, <2>3 DEF Kills
  <2>5. \A i \in Job : Creates(i) /\ Kills(i) BY <1>t, <2>1, <2>2, <2>4, OnlyOf
  <2>6. /\ rec'[w].jobs = rec[w].jobs /\ rec'[w].job = j /\ rec'[w].todo = rec[w].todo \ {s}
    BY <1>t, <2>2 DEF RecState
  <2>7. \A k \in rec[w].jobs : ~jobs'[k].result BY <1>t, <2>1 DEF RecKills, Reaping
  <2>8. RecKills(rec[w])' BY <2>1, <2>6, <2>7 DEF RecKills
  <2> QED BY <1>o, <1>r, <2>5, <2>8, RecKillsFrom
<1>8. CASE ReapWrite(w)
  <2>1. UNCHANGED code /\ rec[w].pc = "reap_killing" BY <1>8 DEF ReapWrite, RecAt, modalVars
  <2>2. rec'[w].pc = "reap" /\ rec'[w].jobs = rec[w].jobs BY <1>8, <1>t DEF ReapWrite, RecBack, RecState
  <2>3. \A k \in rec[w].jobs : ~jobs'[k].result BY <1>t, <1>r, <2>1 DEF RecKills, Reaping, ResultsKept
  <2>4. RecKills(rec[w])' BY <2>2, <2>3 DEF RecKills
  <2> QED BY <1>q, <2>1, <2>4
<1> QED BY <1>1, <1>2, <1>3, <1>4, <1>5, <1>6, <1>7, <1>8 DEF RecNext

-----------------------------------------------------------------------------
(* One step of a call.                                                     *)

LEMMA CallKillStep ==
    ASSUME KBefore, After, NEW c \in Call, CancelNext(c) \/ StopNext(c) \/ FinishNext(c) \/ CallDies(c),
           UNCHANGED workerVars, UNCHANGED rec
    PROVE  KInv'
<1> DEFINE j == call[c].job
<1>t. /\ SandboxesTypeOK /\ registered \subseteq Engine
      /\ call \in [Call -> CallState] /\ call[c] \in CallState /\ CallKills(call[c]) /\ NewCalls
  BY DEF KBefore, IInv, CallsTypeOK, KInv, CInv, StoreTypeOK, NewCalls
<1>o. /\ CallOthers(c) /\ ResultsKept
      /\ call[c].pc # "new" => call'[c].job = j
  BY <1>t, CallQuiet, CallJobs DEF KBefore, Kept
<1>f. ASSUME \A i \in Job : Creates(i) /\ Kills(i), CallKills(call[c])' PROVE KInv'
  <2>1. EngineMoves BY <1>f, <1>o, WorkersStill, ResultsLeft DEF EngineMoves, KBefore, KInv
  <2> QED BY <1>f, <1>o, <2>1, KillsFrom DEF CallOthers, workerVars
<1>q. ASSUME UNCHANGED code, CallKills(call[c])' PROVE KInv'
  BY <1>q, <1>f, EnginesLeft
(* It terminates a sandbox of its job.                                     *)
<1>k. ASSUME call[c].pc # "new", NEW s \in SandboxesOf(j), Terminate(s) \/ UNCHANGED modalVars,
             CallKills(call[c])'
      PROVE  KInv'
  <2>1. j \in Job /\ call'[c].job = j BY <1>k, <1>t, <1>o DEF CallKills
  <2>2. Kills(j) BY <2>1 DEF Kills
  <2>3. \A i \in Job : Creates(i) /\ Kills(i) BY <1>k, <1>t, <2>1, <2>2, OnlyOf
  <2> QED BY <1>k, <1>f, <2>3
<1>1. CASE CancelGet(c)
  <2>1. PICK i \in Job : \E p \in {"done", "find", "withdraw"}, E \in {{}, EnginesOf(i)} :
           call' = [call EXCEPT ![c].job = i, ![c].engs = E, ![c].pc = p]
    BY <1>1 DEF CancelGet
  <2>2. CallKills(call[c])' BY <1>t, <2>1 DEF CallKills, CallState
  <2> QED BY <1>1, <1>q, <2>2 DEF CancelGet, modalVars
<1>2. CASE StopRead(c)
  <2>1. PICK e \in registered : call' = [call EXCEPT ![c].pc = "siblings", ![c].job = e[1], ![c].engs = {e}]
    BY <1>2 DEF StopRead
  <2>2. e[1] \in Job BY <1>t, EngineSandboxes
  <2>3. CallKills(call[c])' BY <1>t, <2>1, <2>2 DEF CallKills, CallState
  <2> QED BY <1>2, <1>q, <2>3 DEF StopRead, modalVars
<1>3. CASE CancelSnapshot(c)
  <2>1. j \in Job /\ call'[c].job = j /\ call'[c].todo = LoggedOf(j)
    BY <1>3, <1>t DEF CancelSnapshot, CallAt, CallKills, CallState
  <2>2. CallKills(call[c])' BY <2>1 DEF CallKills, LoggedOf
  <2> QED BY <1>3, <1>q, <2>2 DEF CancelSnapshot, modalVars
<1>4. CASE CancelKill(c)
  <2>1. /\ call[c].pc = "killing" /\ j \in Job /\ call'[c].job = j
        /\ call[c].todo \subseteq SandboxesOf(j)
    BY <1>4, <1>t, <1>o DEF CancelKill, CallAt, CallKills
  <2>2. CASE \E s \in call[c].todo :
               (KillUnlessSpared(j, s, call[c].spare) \/ UNCHANGED modalVars) /\ call' = [call EXCEPT ![c].todo = @ \ {s}]
    <3>1. PICK s \in call[c].todo :
             (KillUnlessSpared(j, s, call[c].spare) \/ UNCHANGED modalVars) /\ call' = [call EXCEPT ![c].todo = @ \ {s}]
      BY <2>2
    <3>2. call'[c].todo = call[c].todo \ {s} BY <1>t, <3>1 DEF CallState
    <3>3. CallKills(call[c])' BY <2>1, <3>2 DEF CallKills
    <3> QED BY <1>k, <2>1, <3>1, <3>3 DEF KillUnlessSpared
  <2>3. CASE CallGoto(c, "flagged") /\ UNCHANGED modalVars
    <3>1. call'[c].pc = "flagged" BY <1>t, <2>3 DEF CallGoto, CallState
    <3>2. CallKills(call[c])' BY <2>1, <3>1 DEF CallKills
    <3> QED BY <1>q, <2>3, <3>2 DEF modalVars
  <2> QED BY <1>4, <2>2, <2>3 DEF CancelKill
<1>5. CASE CancelStopServing(c) \/ StopSandbox(c)
  <2>1. call[c].pc # "new" /\ Terminate(EngineSandbox(j)) BY <1>5 DEF CancelStopServing, StopSandbox, CallAt
  <2>2. j \in Job /\ call'[c].job = j BY <1>t, <1>o, <2>1 DEF CallKills
  <2>3. call'[c].pc \in {"unregister", "drop"}
    BY <1>5, <1>t DEF CancelStopServing, StopSandbox, CallGoto, CallState
  <2>4. CallKills(call[c])' BY <2>2, <2>3 DEF CallKills
  <2> QED BY <1>k, <2>1, <2>2, <2>4, SandboxNames
<1>6. CASE CancelWithdraw(c) \/ CancelFlag(c) \/ CancelFind(c) \/ CancelUnregister(c) \/ StopSiblings(c)
           \/ StopGroup(c) \/ DropGroup(c) \/ DropEngine(c) \/ FinishRead(c) \/ FinishWrite(c) \/ CallDies(c)
  <2>1. UNCHANGED code
    BY <1>6 DEF CancelWithdraw, CancelFlag, CancelFind, CancelUnregister, StopSiblings, StopGroup, DropGroup,
       DropEngine, FinishRead, FinishWrite, CallDies, KillServer, modalVars
  <2>2. call[c].pc # "new"
    BY <1>6 DEF CancelWithdraw, CancelFlag, CancelFind, CancelUnregister, StopSiblings, StopGroup, DropGroup,
       DropEngine, FinishRead, FinishWrite, CallDies, CallAt
  <2>3. call'[c].pc # "killing"
    BY <1>6, <1>t, ZenonT(40) DEF CancelWithdraw, CancelFlag, CancelFind, CancelUnregister, StopSiblings, StopGroup, DropGroup,
       DropEngine, FinishRead, FinishWrite, CallDies, CallAt, CallGoto, CallState
  <2>4. CallKills(call[c])' BY <1>t, <1>o, <2>2, <2>3 DEF CallKills
  <2> QED BY <1>q, <2>1, <2>4
<1> QED BY <1>1, <1>2, <1>3, <1>4, <1>5, <1>6 DEF CancelNext, StopNext, FinishNext

-----------------------------------------------------------------------------
(* The whole step                                                          *)

LEMMA InitKInv == Init => KInv
  <1> SUFFICES ASSUME Init PROVE KInv OBVIOUS
  <1>1. RunsOnlyUp BY DEF Init, WorkersInit, IdleSlot, RunsOnlyUp
  <1>2. \A w \in Worker : SlotKills(slot[w]) BY DEF Init, WorkersInit, IdleSlot, SlotKills
  <1>3. \A w \in Worker : RecKills(rec[w]) BY DEF Init, ReconcilersInit, OffRec, RecKills, Reaping
  <1>4. \A c \in Call : CallKills(call[c]) BY DEF Init, CallsInit, NewCall, CallKills
  <1>5. ASSUME NEW j \in Job PROVE JobKills(j)
    <2>1. code[EngineSandbox(j)] = "unborn" BY SandboxNames DEF Init, SandboxesInit
    <2>2. StatusOf(j) = "absent" BY DEF Init, StoreInit, NoRow, StatusOf
    <2> QED BY <2>1, <2>2 DEF JobKills
  <1> QED BY <1>1, <1>2, <1>3, <1>4, <1>5 DEF KInv

(* A step that is about no engine's sandbox.                               *)
LEMMA KillsQuiet ==
    ASSUME KBefore, After, ResultsKept,
           \A j \in Job : Creates(j) /\ Kills(j), \A w \in Worker : SlotMoves(w), RunsOnlyUp',
           \A w \in Worker : slot'[w] = slot[w] \/ SlotKills(slot[w])',
           \A w \in Worker : rec'[w] = rec[w] \/ RecKills(rec[w])',
           UNCHANGED call
    PROVE  KInv'
  <1>1. EngineMoves BY ResultsLeft DEF EngineMoves
  <1> QED BY <1>1, KillsFrom

LEMMA StepKInv == ASSUME Punctual, IInv, UInv, CInv, KInv, [Next]_vars PROVE KInv'
<1>b. KBefore BY DEF KBefore
<1>a. After BY NextIInv, StepUInv, StepCInv DEF After
<1>t. /\ SandboxesTypeOK /\ JobsType /\ WInv /\ rec \in [Worker -> RecState] /\ RunsOnlyUp
  BY RowsTyped DEF IInv, RInv, ReconcilersTypeOK, KInv
<1>u. up \in [Worker -> {"off", "up", "dead"}] /\ slot \in [Worker -> SlotState] BY <1>t DEF WInv, WorkersTypeOK
<1>e. UNCHANGED code => \A j \in Job : Creates(j) /\ Kills(j) BY EnginesLeft
<1>1. ASSUME NEW w \in Worker, Start(w) PROVE KInv'
  <2>1. UNCHANGED code /\ ResultsKept /\ UNCHANGED slot /\ UNCHANGED call
    BY <1>1, ResultsSame DEF Start, modalVars, dbVars
  <2>2. RunsOnlyUp' BY <1>1, <1>t, <1>u DEF Start, RunsOnlyUp
  <2>3. rec'[w].pc = "reattach" /\ RecOthers(w) BY <1>1, <1>t DEF Start, RecGoto, RecState, RecOthers
  <2>4. RecKills(rec[w])' BY <2>3 DEF RecKills, Reaping
  <2>5. \A v \in Worker : rec'[v] = rec[v] \/ RecKills(rec[v])' BY <2>3, <2>4 DEF RecOthers
  <2> QED BY <1>b, <1>a, <1>e, <2>1, <2>2, <2>5, SlotsStay, KillsQuiet
<1>2. ASSUME NEW w \in Worker, Crash(w) PROVE KInv'
  <2>1. UNCHANGED code /\ ResultsKept /\ UNCHANGED call BY <1>2, ResultsSame DEF Crash, modalVars, dbVars
  <2>2. slot'[w].pc = "idle" /\ slot'[w].job = NoJob /\ SlotOthers(w)
    BY <1>2, <1>u DEF Crash, Release, IdleSlot, SlotOthers
  <2>3. RunsOnlyUp' BY <1>2, <1>t, <1>u, <2>2 DEF Crash, RunsOnlyUp, SlotOthers
  <2>4. \A v \in Worker : SlotMoves(v) BY <2>2, NoneAssumption DEF SlotMoves, SlotOthers
  <2>5. SlotKills(slot[w])' BY <2>2 DEF SlotKills
  <2>6. \A v \in Worker : slot'[v] = slot[v] \/ SlotKills(slot[v])' BY <2>2, <2>5 DEF SlotOthers
  <2>7. rec'[w].pc = "off" /\ RecOthers(w) BY <1>2, <1>t DEF Crash, OffRec, RecOthers
  <2>8. RecKills(rec[w])' BY <2>7 DEF RecKills, Reaping
  <2>9. \A v \in Worker : rec'[v] = rec[v] \/ RecKills(rec[v])' BY <2>7, <2>8 DEF RecOthers
  <2> QED BY <1>b, <1>a, <1>e, <2>1, <2>3, <2>4, <2>6, <2>9, KillsQuiet
<1>3. ASSUME NEW w \in Worker, Slots(w) PROVE KInv'
  <2>1. SlotNext(w) /\ UNCHANGED rec /\ UNCHANGED call BY <1>3 DEF Slots, reconcilerVars, apiVars
  <2> QED BY <1>b, <1>a, <2>1, SlotKillStep
<1>4. ASSUME NEW w \in Worker, Monitor(w) PROVE KInv'
  <2>1. UNCHANGED rec /\ UNCHANGED call BY <1>4 DEF Monitor, reconcilerVars, apiVars
  <2>2. CASE NoticeCancel(w)
    <3>1. UNCHANGED code /\ ResultsKept /\ UNCHANGED up BY <2>2, ResultsSame DEF NoticeCancel, modalVars, dbVars
    <3>2. /\ SlotOthers(w) /\ slot'[w].pc = slot[w].pc /\ slot'[w].job = slot[w].job
          /\ slot'[w].todo = slot[w].todo
      BY <1>u, <2>2 DEF NoticeCancel, SlotState, SlotOthers
    <3>3. RunsOnlyUp' BY <1>t, <3>1, <3>2 DEF RunsOnlyUp, SlotOthers
    <3>4. \A v \in Worker : SlotMoves(v) BY <3>2 DEF SlotMoves, SlotOthers
    <3>5. SlotKills(slot[w])' BY <3>2 DEF KInv, SlotKills
    <3>6. \A v \in Worker : slot'[v] = slot[v] \/ SlotKills(slot[v])' BY <3>2, <3>5 DEF SlotOthers
    <3> QED BY <1>b, <1>a, <1>e, <2>1, <3>1, <3>3, <3>4, <3>6, KillsQuiet
  <2>3. CASE Beat(w)
    <3>1. UNCHANGED code /\ UNCHANGED workerVars BY <2>3 DEF Beat, modalVars
    <3>2. ResultsKept BY <1>t, <2>3, RowsResults DEF Beat
    <3> QED BY <1>b, <1>a, <1>t, <1>e, <2>1, <3>1, <3>2, WorkersStill, KillsQuiet DEF workerVars
  <2> QED BY <1>4, <2>2, <2>3 DEF Monitor, MonitorNext
<1>5. ASSUME NEW w \in Worker, Reconcile(w) PROVE KInv'
  <2>1. RecNext(w) /\ UNCHANGED call BY <1>5 DEF Reconcile, apiVars
  <2> QED BY <1>b, <1>a, <2>1, RecKillStep
<1>6. ASSUME NEW j \in Job, Submitted(j) \/ Ages(j) PROVE KInv'
  <2>1. UNCHANGED code /\ UNCHANGED workerVars /\ UNCHANGED rec /\ UNCHANGED call
    BY <1>6 DEF Submitted, Submit, Ages, Age, modalVars, reconcilerVars, apiVars
  <2>2. ResultsKept BY <1>6, <1>t, RowsResults DEF Submitted, Submit, Ages
  <2> QED BY <1>b, <1>a, <1>t, <1>e, <2>1, <2>2, WorkersStill, KillsQuiet DEF workerVars
<1>7. ASSUME NEW c \in Call, Cancelling(c) \/ Stopping(c) \/ RequestDies(c) PROVE KInv'
  <2>1. /\ CancelNext(c) \/ StopNext(c) \/ FinishNext(c) \/ CallDies(c)
        /\ UNCHANGED workerVars /\ UNCHANGED rec
    BY <1>7 DEF Cancelling, Stopping, RequestDies, reconcilerVars
  <2> QED BY <1>b, <1>a, <2>1, CallKillStep
<1>8. ASSUME Modal PROVE KInv'
  <2>1. /\ ResultsKept /\ UNCHANGED workerVars /\ UNCHANGED rec /\ UNCHANGED call
    BY <1>8, ResultsSame DEF Modal, dbVars, reconcilerVars, apiVars
  <2>2. \A s \in Sandbox : code'[s] = code[s] \/ (code[s] = "running" /\ code'[s] \in {"exit1", "exit124"})
    BY <1>8, <1>t DEF Modal, SandboxesNext, AgentReady, AgentExits, LifetimeOver, ServerFails,
                      SandboxFails, LifetimeCap, SandboxesTypeOK, Running
  <2>3. \A j \in Job : Creates(j) /\ Kills(j) BY <2>2, SandboxNames DEF Creates, Kills
  <2> QED BY <1>b, <1>a, <1>t, <2>1, <2>3, WorkersStill, KillsQuiet DEF workerVars
<1>9. ASSUME UNCHANGED vars PROVE KInv'
  <2>1. UNCHANGED code /\ ResultsKept /\ UNCHANGED workerVars /\ UNCHANGED rec /\ UNCHANGED call
    BY <1>9, ResultsSame DEF vars, modalVars, dbVars, reconcilerVars, apiVars
  <2> QED BY <1>b, <1>a, <1>t, <1>e, <2>1, WorkersStill, KillsQuiet DEF workerVars
<1> QED
  BY <1>1, <1>2, <1>3, <1>4, <1>5, <1>6, <1>7, <1>8, <1>9 DEF Next, Call

LEMMA KillsAlways == ASSUME Punctual PROVE Spec => [](IInv /\ UInv /\ CInv /\ KInv)
  <1>1. Init => UInv /\ CInv /\ KInv BY InitUInv, InitCInv, InitKInv
  <1>2. IInv /\ UInv /\ CInv /\ KInv /\ [Next]_vars => UInv' /\ CInv' /\ KInv'
    BY StepUInv, StepCInv, StepKInv
  <1> QED BY <1>1, <1>2, Invariance, PTL DEF Spec

(* The engine of a serving job is only terminated by a cancel or a stop of *)
(* the job or when its lifetime is over: _execute's clean-up and           *)
(* reap_stale leave a job that was handed over alone, as long as no        *)
(* heartbeat of a live worker is late; with any number of jobs, groups,    *)
(* workers and requests, crashes, and whatever else goes wrong.            *)
THEOREM KilledForCause == ASSUME Punctual PROVE Spec => []ServingKilledForCause
  <1>1. ASSUME UInv, KInv PROVE ServingKilledForCause
    <2> SUFFICES ASSUME NEW j \in Job, StatusOf(j) = "serving", code[EngineSandbox(j)] = "exit137"
                 PROVE  Asked(j)
      BY DEF ServingKilledForCause, Asked
    <2>1. jobs[j].result BY <1>1 DEF UInv, ResultInv
    <2> QED BY <1>1, <2>1 DEF KInv, JobKills, Unserved
  <1> QED BY <1>1, KillsAlways, PTL

-----------------------------------------------------------------------------
(* Part 2: what is not forgotten.                                          *)

(* It can be stopped through the registry, or it is down.                  *)
Placed(e) == e \in registered \/ Down(e)

SlotHolds(r) ==
    /\ r.pc \in {"claimed", "fetch"} => code[PrepSandbox(r.job)] = "unborn"
    /\ r.pc \in Early => StatusOf(r.job) = "running" /\ code[EngineSandbox(r.job)] = "unborn"
    /\ r.pc \in {"launch", "log_engine", "engine", "register", "handover"} \cup Ending =>
          ~Running(PrepSandbox(r.job))
    /\ r.pc = "log_engine" =>
          /\ code[EngineSandbox(r.job)] # "unborn"
          /\ StatusOf(r.job) = "running" \/ ~Running(EngineSandbox(r.job))
    /\ r.pc \in {"engine", "register", "handover", "cleanup"} /\ Running(EngineSandbox(r.job)) =>
          EngineSandbox(r.job) \in logged
    /\ r.pc = "register" => \A e \in EnginesOf(r.job) : e[2] < r.next => Placed(e)
    /\ r.pc = "handover" => \A e \in EnginesOf(r.job) : Placed(e)
    /\ r.pc \in {"except", "close"} => ~Running(EngineSandbox(r.job))
    /\ r.pc = "killing" /\ Running(EngineSandbox(r.job)) => EngineSandbox(r.job) \in r.todo

RecHolds(r) ==
    /\ r.pc = "expire" => code[EngineSandbox(r.job)] # "unborn"
    /\ r.pc \in {"drop", "finish", "finish_write"} => Exited(EngineSandbox(r.job))
    /\ r.pc = "reap_killing" => \A s \in LoggedOf(r.job) : Running(s) => s \in r.todo

CallHolds(r) ==
    /\ r.pc \in {"siblings", "stop_sandbox"} => r.job \in ready
    /\ r.pc \in {"drop", "finish", "finish_write"} => Exited(EngineSandbox(r.job)) \/ jobs[r.job].result

JobHolds(j) ==
    /\ code[EngineSandbox(j)] # "unborn" => ~Running(PrepSandbox(j))
    /\ InQueue(StatusOf(j)) => \A s \in SandboxesOf(j) : code[s] = "unborn"
    /\ StatusOf(j) # "succeeded"
    /\ StatusOf(j) # "running" /\ ~jobs[j].result => \A s \in LoggedOf(j) : ~Running(s)
    /\ jobs[j].result => \A e \in EnginesOf(j) : Placed(e)

(* What is logged was created.                                             *)
LoggedExist == \A s \in logged : code[s] # "unborn"

HInv ==
    /\ LoggedExist
    /\ \A w \in Worker : SlotHolds(slot[w]) /\ RecHolds(rec[w])
    /\ \A c \in Call : CallHolds(call[c])
    /\ \A j \in Job : JobHolds(j)

-----------------------------------------------------------------------------
(* What a step does to the jobs.                                           *)

(* No sandbox of the job is created, and none is logged.                   *)
Calm(j) ==
    \A s \in SandboxesOf(j) :
       /\ code'[s] = "running" => code[s] = "running"
       /\ code[s] = "unborn" => code'[s] = "unborn"
       /\ s \in logged' <=> s \in logged

(* Its row stays, or is queued, claimed or withdrawn, or is given a status *)
(* for good by somebody who knows its sandboxes are down.                  *)
RowEnds(j) ==
    \/ jobs'[j].status = jobs[j].status /\ jobs'[j].result = jobs[j].result
    \/ /\ InQueue(jobs[j].status) /\ jobs'[j].result = jobs[j].result
       /\ jobs'[j].status \in {"queued", "running", "cancelled"}
    \/ /\ jobs'[j].status \notin {"absent", "queued", "running", "succeeded"}
       /\ jobs'[j].result => jobs[j].result \/ \E w \in Worker : slot[w].job = j /\ slot[w].pc = "handover"
       /\ \/ Exited(EngineSandbox(j))
          \/ jobs'[j].result
          \/ /\ \A s \in LoggedOf(j) : ~Running(s)
             /\ \A w \in Worker : slot'[w].job # j

(* The jobs in S excepted, which have a slot.                              *)
Effects(S) ==
    /\ \A j \in Job \ S : Calm(j)
    /\ \A j \in Job : RowEnds(j)
    /\ LoggedExist'

Before == NoLies /\ Answers /\ IInv /\ UInv /\ CInv /\ KInv /\ HInv

-----------------------------------------------------------------------------
(* What such a step keeps of the others.                                   *)

LEMMA PlacedKept == ASSUME Answers, UGoal, NEW e \in Engine, Placed(e) PROVE Placed(e)'
  BY DEF UGoal, ModalKept, Placed, Stopped

LEMMA EngineNames == \A j \in Job : EnginesOf(j) \subseteq Engine
  BY DEF EnginesOf, Engine

LEMMA Both == \A j \in Job : SandboxesOf(j) = {EngineSandbox(j), PrepSandbox(j)}
  BY DEF SandboxesOf, EngineSandbox, PrepSandbox, Role

LEMMA ExitsKept == ASSUME Moves, NEW j \in Job, Exited(EngineSandbox(j)) PROVE code'[EngineSandbox(j)] \in ExitCode
  BY SandboxNames DEF Moves, SandboxesKept, Exited

LEMMA SlotHoldsKept ==
    ASSUME Before, After, NEW S, Effects(S), NEW w \in Worker, slot'[w] = slot[w], slot[w].job \notin S
    PROVE  SlotHolds(slot[w])'
<1> DEFINE j == slot[w].job
<1>1. CASE slot[w].pc = "idle"
  BY <1>1 DEF SlotHolds, Early, Ending
<1>2. CASE slot[w].pc # "idle"
  <2>1. j \in Job BY <1>2 DEF Before, IInv, WInv, SlotInv, SlotOK
  <2>2. SlotHolds(slot[w]) BY DEF Before, HInv
  <2>3. Calm(j) BY <2>1 DEF Effects
  <2>4. /\ Running(EngineSandbox(j))' => Running(EngineSandbox(j))
        /\ Running(PrepSandbox(j))' => Running(PrepSandbox(j))
        /\ code[EngineSandbox(j)] = "unborn" => code'[EngineSandbox(j)] = "unborn"
        /\ code[PrepSandbox(j)] = "unborn" => code'[PrepSandbox(j)] = "unborn"
        /\ EngineSandbox(j) \in logged => EngineSandbox(j) \in logged'
    BY <2>1, <2>3, Both DEF Calm, Running
  <2>5. code[EngineSandbox(j)] # "unborn" => code'[EngineSandbox(j)] # "unborn"
    BY <2>1, SandboxNames DEF After, Moves, SandboxesKept
  <2>6. \A e \in EnginesOf(j) : Placed(e) => Placed(e)'
    BY <2>1, EngineNames, PlacedKept DEF Before, After
  <2>7. StatusOf(j) = "running" => jobs'[j].status = "running" \/ code'[EngineSandbox(j)] \in ExitCode
    <3>1. RowEnds(j) BY <2>1 DEF Effects
    <3>2. ~jobs'[j].result BY <2>1 DEF After, UInv, ResultInv
    <3> QED BY <2>1, <3>1, <3>2, ExitsKept DEF RowEnds, StatusOf, InQueue, After
  <2>8. slot[w].pc \in Early => jobs'[j].status = "running"
    <3>1. slot[w].pc \in Early => code'[EngineSandbox(j)] = "unborn" /\ StatusOf(j) = "running"
      BY <2>2, <2>4 DEF SlotHolds
    <3> QED BY <2>7, <3>1 DEF ExitCode
  <2>9. slot[w].pc = "log_engine" => jobs'[j].status = "running" \/ ~Running(EngineSandbox(j))'
    BY <2>2, <2>4, <2>7 DEF SlotHolds, Running, ExitCode
  <2> QED BY <2>2, <2>4, <2>5, <2>6, <2>8, <2>9 DEF SlotHolds, StatusOf
<1> QED BY <1>1, <1>2

LEMMA RecHoldsKept ==
    ASSUME Before, After, NEW S, Effects(S), NEW w \in Worker, rec'[w] = rec[w],
           \A j \in Job \cap S : \E v \in Worker : slot[v].job = j
    PROVE  RecHolds(rec[w])'
<1>1. RecHolds(rec[w]) /\ RecCause(rec[w]) BY DEF Before, HInv, CInv
<1>2. rec[w].pc = "expire" => code'[EngineSandbox(rec[w].job)] # "unborn"
  BY <1>1, SandboxNames DEF RecHolds, RecCause, After, Moves, SandboxesKept
<1>3. rec[w].pc \in {"drop", "finish", "finish_write"} => code'[EngineSandbox(rec[w].job)] \in ExitCode
  BY <1>1, ExitsKept DEF RecHolds, RecCause, After
<1>4. ASSUME rec[w].pc = "reap_killing" PROVE \A s \in LoggedOf(rec[w].job)' : Running(s)' => s \in rec[w].todo
  <2>1. rec[w].job \in Job /\ Orphan(rec[w].job) BY <1>1, <1>4 DEF RecCause
  <2>2. rec[w].job \notin S BY <2>1, OrphanFree DEF Before, NoLies, KInv
  <2>3. Calm(rec[w].job) BY <2>1, <2>2 DEF Effects
  <2>4. \A s \in LoggedOf(rec[w].job)' : Running(s)' => s \in LoggedOf(rec[w].job) /\ Running(s)
    BY <2>3 DEF Calm, LoggedOf, Running
  <2> QED BY <1>1, <1>4, <2>4 DEF RecHolds
<1> QED BY <1>1, <1>2, <1>3, <1>4 DEF RecHolds, Exited, LoggedOf, Running

LEMMA CallHoldsKept ==
    ASSUME Before, After, NEW c \in Call, call'[c] = call[c] PROVE CallHolds(call[c])'
  <1>1. CallHolds(call[c]) /\ CallKills(call[c]) BY DEF Before, HInv, KInv
  <1>2. ready \subseteq ready' /\ \A j \in Job : jobs[j].result => jobs'[j].result
    BY DEF After, UGoal, ModalKept
  <1> QED BY <1>1, <1>2, ExitsKept DEF CallHolds, CallKills, After, Exited

LEMMA JobHoldsKept ==
    ASSUME Before, After, NEW S, Effects(S), NEW j \in Job \ S PROVE JobHolds(j)'
<1>1. JobHolds(j) /\ Calm(j) /\ RowEnds(j) BY DEF Before, HInv, Effects
<1>2. code'[EngineSandbox(j)] # "unborn" => ~Running(PrepSandbox(j))'
  BY <1>1, Both DEF JobHolds, Calm, Running
<1>3. InQueue(jobs'[j].status) => InQueue(StatusOf(j)) BY <1>1 DEF RowEnds, InQueue, StatusOf
<1>4. InQueue(jobs'[j].status) => \A s \in SandboxesOf(j) : code'[s] = "unborn"
  BY <1>1, <1>3 DEF JobHolds, Calm
<1>5. ASSUME jobs'[j].status # "running", ~jobs'[j].result
      PROVE  \A s \in LoggedOf(j)' : ~Running(s)'
  <2>1. \A s \in LoggedOf(j)' : s \in LoggedOf(j) /\ s \in SandboxesOf(j) /\ (Running(s)' => Running(s))
    BY <1>1 DEF Calm, LoggedOf, Running
  <2>2. CASE jobs'[j].status = jobs[j].status /\ jobs'[j].result = jobs[j].result
    BY <1>1, <1>5, <2>1, <2>2 DEF JobHolds, StatusOf
  <2>3. CASE InQueue(jobs[j].status)
    BY <1>1, <2>1, <2>3 DEF JobHolds, StatusOf, Running
  <2>4. CASE Exited(EngineSandbox(j))
    <3>1. ~Running(PrepSandbox(j)) /\ ~Running(EngineSandbox(j))
      BY <1>1, <2>4 DEF JobHolds, Exited, ExitCode, Running
    <3> QED BY <2>1, <3>1, Both
  <2>5. CASE \A s \in LoggedOf(j) : ~Running(s) BY <2>1, <2>5
  <2> QED BY <1>1, <1>5, <2>2, <2>3, <2>4, <2>5 DEF RowEnds
<1>6. ASSUME jobs'[j].result, NEW e \in EnginesOf(j) PROVE Placed(e)'
  <2>1. CASE jobs[j].result BY <1>1, <2>1, EngineNames, PlacedKept DEF JobHolds, Before, After
  <2>2. CASE ~jobs[j].result
    <3>1. PICK w \in Worker : slot[w].job = j /\ slot[w].pc = "handover" BY <1>1, <1>6, <2>2 DEF RowEnds
    <3>2. Placed(e) BY <3>1 DEF Before, HInv, SlotHolds
    <3> QED BY <3>2, EngineNames, PlacedKept DEF Before, After
  <2> QED BY <2>1, <2>2
<1>7. jobs'[j].status # "succeeded" BY <1>1 DEF RowEnds, JobHolds, StatusOf
<1> QED BY <1>2, <1>4, <1>5, <1>6, <1>7 DEF JobHolds, StatusOf

(* The invariant, component by component: who has moved knows what he has  *)
(* to, and so do the excepted jobs.                                        *)
LEMMA HeldFrom ==
    ASSUME Before, After, NEW S, Effects(S),
           \A j \in Job \cap S : JobHolds(j)' /\ \E v \in Worker : slot[v].job = j,
           \A w \in Worker : (slot'[w] = slot[w] /\ slot[w].job \notin S) \/ SlotHolds(slot[w])',
           \A w \in Worker : rec'[w] = rec[w] \/ RecHolds(rec[w])',
           \A c \in Call : call'[c] = call[c] \/ CallHolds(call[c])'
    PROVE  HInv'
  <1>1. \A w \in Worker : SlotHolds(slot[w])' BY SlotHoldsKept
  <1>2. \A w \in Worker : RecHolds(rec[w])' BY RecHoldsKept
  <1>3. \A c \in Call : CallHolds(call[c])' BY CallHoldsKept
  <1>4. \A j \in Job : JobHolds(j)' BY JobHoldsKept
  <1>5. LoggedExist' BY DEF Effects
  <1> QED BY <1>1, <1>2, <1>3, <1>4, <1>5 DEF HInv

-----------------------------------------------------------------------------
(* Ways to have no effect.                                                 *)

LEMMA CalmSame == ASSUME UNCHANGED code, UNCHANGED logged, NEW j PROVE Calm(j)
  BY DEF Calm

LEMMA CalmTerminate ==
    ASSUME SandboxesTypeOK, NEW s, Terminate(s), UNCHANGED logged, NEW j \in Job PROVE Calm(j)
  BY SandboxNames DEF Calm, Terminate, SandboxesTypeOK

LEMMA RowsStay ==
    ASSUME NEW j, jobs'[j].status = jobs[j].status, jobs'[j].result = jobs[j].result PROVE RowEnds(j)
  BY DEF RowEnds

LEMMA LoggedKept == ASSUME Before, After, UNCHANGED logged PROVE LoggedExist'
  BY DEF Before, HInv, LoggedExist, IInv, StoreTypeOK, After, Moves, SandboxesKept

-----------------------------------------------------------------------------
(* One step of a slot.                                                     *)

LEMMA SlotFrom ==
    ASSUME Before, After, NEW w \in Worker, SlotNext(w), SlotOthers(w), UNCHANGED rec, UNCHANGED call,
           NEW S \in SUBSET ({slot[w].job} \cap Job),
           \A i \in Job \ S : Calm(i),
           \A i \in Job : RowEnds(i),
           LoggedExist', SlotHolds(slot[w])',
           \A i \in S : JobHolds(i)'
    PROVE  HInv'
  <1>1. \A v \in Worker \ {w} : slot'[v] = slot[v] BY DEF SlotOthers
  <1>2. Effects(S) BY DEF Effects
  <1>3. \A v \in Worker \ {w} : slot[v].job \notin S
    BY NoneAssumption DEF Before, IInv, ClaimedOnce, JobOf
  <1> QED BY <1>1, <1>2, <1>3, HeldFrom

LEMMA SlotFromCalm ==
    ASSUME Before, After, NEW w \in Worker, SlotNext(w), SlotOthers(w), UNCHANGED rec, UNCHANGED call,
           \A i \in Job : Calm(i) /\ RowEnds(i), UNCHANGED logged,
           SlotHolds(slot[w])'
    PROVE  HInv'
  <1>1. LoggedExist' BY LoggedKept
  <1>2. {} \in SUBSET ({slot[w].job} \cap Job) OBVIOUS
  <1> QED BY <1>1, <1>2, SlotFrom

(* It only looks, or registers.                                            *)
LEMMA SlotLooks ==
    ASSUME Before, After, NEW w \in Worker, SlotNext(w), SlotOthers(w), UNCHANGED rec, UNCHANGED call,
           UNCHANGED <<code, jobs, logged>>,
           SlotHolds(slot[w])'
    PROVE  HInv'
  <1>1. \A i \in Job : Calm(i) /\ RowEnds(i) BY CalmSame, RowsStay
  <1> QED BY <1>1, SlotFromCalm

LEMMA SlotHeldStep ==
    ASSUME Before, After, NEW w \in Worker, SlotNext(w), UNCHANGED rec, UNCHANGED call
    PROVE  HInv'
<1> DEFINE j == slot[w].job
           engine == EngineSandbox(j)
           prep == PrepSandbox(j)
<1>t. /\ SandboxesTypeOK /\ JobsType
      /\ slot \in [Worker -> SlotState] /\ slot[w] \in SlotState /\ SlotOK(slot[w])
      /\ SlotHolds(slot[w]) /\ SlotKills(slot[w]) /\ SlotCause(slot[w])
  BY RowsTyped DEF Before, IInv, WInv, WorkersTypeOK, SlotInv, HInv, KInv, CInv
<1>o. SlotOthers(w) BY SlotCauseStep DEF Before
<1>a. j \in Job => ~jobs[j].result BY DEF Before, UInv, ResultInv
<1>n. j \in Job => /\ engine \in Sandbox /\ prep \in Sandbox /\ engine # prep
                  /\ SandboxesOf(j) = {engine, prep}
  BY SandboxNames, Both DEF EngineSandbox, PrepSandbox
<1>1. CASE Claim(w)
  <2>1. PICK i \in Job : ClaimRow(i, w) /\ slot' = [slot EXCEPT ![w].pc = "claimed", ![w].job = i]
    BY <1>1 DEF Claim
  <2>2. UNCHANGED <<code, logged>> BY <1>1 DEF Claim, modalVars
  <2>3. slot'[w].pc = "claimed" /\ slot'[w].job = i BY <1>t, <2>1 DEF SlotState
  <2>4. InQueue(jobs[i].status) BY <2>1 DEF ClaimRow, OldestQueued, InQueue, StatusOf
  <2>5. jobs'[i].status = "running" /\ jobs'[i].result = jobs[i].result BY <1>t, <2>1 DEF ClaimRow, JobsType, Row
  <2>6. \A k \in Job : RowEnds(k)
    <3>1. \A k \in Job \ {i} : jobs'[k] = jobs[k] BY <1>t, <2>1 DEF ClaimRow, JobsType
    <3>2. RowEnds(i) BY <2>4, <2>5 DEF RowEnds
    <3> QED BY <3>1, <3>2, RowsStay
  <2>7. code[EngineSandbox(i)] = "unborn" /\ code[PrepSandbox(i)] = "unborn"
    BY <2>4, Both DEF Before, HInv, JobHolds, StatusOf
  <2>8. SlotHolds(slot[w])'
    BY <2>2, <2>3, <2>5, <2>7 DEF SlotHolds, Early, Ending, StatusOf, Running
  <2> QED BY <1>o, <2>2, <2>6, <2>8, CalmSame, SlotFromCalm
<1>2. CASE Begin(w)
  <2>1. UNCHANGED <<code, jobs, logged>> /\ slot[w].pc = "claimed" BY <1>2 DEF Begin, At, modalVars, dbVars
  <2>2. slot'[w].job = j /\ slot'[w].pc \in {"cleanup", "fetch", "launch"}
    BY <1>2, <1>t DEF Begin, RaiseCancelled, Goto, SlotState
  <2>3. SlotHolds(slot[w])'
    BY <1>t, <2>1, <2>2 DEF SlotHolds, Early, Ending, StatusOf, Running
  <2> QED BY <1>o, <2>1, <2>2, <2>3, SlotLooks
<1>3. CASE CreatePrep(w)
  <2>1. /\ j \in Job /\ code[engine] = "unborn" /\ StatusOf(j) = "running"
        /\ UNCHANGED jobs /\ UNCHANGED logged /\ Create(prep)
    BY <1>3, <1>t DEF CreatePrep, At, SlotOK, SlotHolds, Early, JobOf, PrepSandbox, dbVars
  <2>2. /\ \A s \in Sandbox \ {prep} : code'[s] = code[s]
        /\ code'[prep] = "running"
    BY <1>t, <1>n, <2>1 DEF Create, SandboxesTypeOK
  <2>3. \A i \in Job \ {j} : Calm(i) BY <2>1, <2>2, SandboxNames DEF Calm, SandboxesOf, PrepSandbox
  <2>4. \A i \in Job : RowEnds(i) BY <2>1, RowsStay
  <2>5. slot'[w].job = j /\ slot'[w].pc = "log_prep" BY <1>3, <1>t DEF CreatePrep, Goto, SlotState
  <2>6. code'[engine] = "unborn" BY <1>n, <2>1, <2>2
  <2>7. SlotHolds(slot[w])' BY <2>1, <2>5, <2>6 DEF SlotHolds, Early, Ending, StatusOf
  <2>8. ASSUME NEW i \in {j} PROVE JobHolds(i)'
    <3>1. ~jobs'[j].result /\ jobs'[j].status = "running" BY <1>a, <2>1 DEF StatusOf
    <3> QED BY <2>6, <3>1 DEF JobHolds, StatusOf, InQueue
  <2>9. LoggedExist' BY <2>1, LoggedKept
  <2>10. {j} \in SUBSET ({slot[w].job} \cap Job) BY <2>1
  <2> QED BY <1>o, <2>3, <2>4, <2>7, <2>8, <2>9, <2>10, SlotFrom
<1>4. CASE LogPrep(w)
  <2>1. /\ j \in Job /\ code[engine] = "unborn" /\ StatusOf(j) = "running" /\ code[prep] # "unborn"
        /\ UNCHANGED jobs /\ UNCHANGED code /\ logged' = logged \cup {prep}
    BY <1>4, <1>t DEF LogPrep, At, SlotOK, SlotHolds, SlotCause, Early, Prepping, JobOf, PrepSandbox,
       modalVars
  <2>2. \A i \in Job \ {j} : Calm(i) BY <2>1 DEF Calm, SandboxesOf, PrepSandbox
  <2>3. \A i \in Job : RowEnds(i) BY <2>1, RowsStay
  <2>4. slot'[w].job = j /\ slot'[w].pc = "prep" BY <1>4, <1>t DEF LogPrep, Goto, SlotState
  <2>5. SlotHolds(slot[w])' BY <2>1, <2>4 DEF SlotHolds, Early, Ending, StatusOf
  <2>6. ASSUME NEW i \in {j} PROVE JobHolds(i)'
    <3>1. ~jobs'[j].result /\ jobs'[j].status = "running" BY <1>a, <2>1 DEF StatusOf
    <3> QED BY <2>1, <3>1 DEF JobHolds, StatusOf, InQueue
  <2>7. LoggedExist' BY <2>1 DEF Before, HInv, LoggedExist
  <2>8. {j} \in SUBSET ({slot[w].job} \cap Job) BY <2>1
  <2> QED BY <1>o, <2>2, <2>3, <2>5, <2>6, <2>7, <2>8, SlotFrom
<1>5. CASE PrepDone(w) \/ PrepRaises(w)
  <2>1. /\ j \in Job /\ code[engine] = "unborn" /\ StatusOf(j) = "running"
        /\ UNCHANGED jobs /\ UNCHANGED logged /\ Terminate(prep) /\ slot[w].pc = "prep"
    BY <1>5, <1>t DEF PrepDone, PrepRaises, At, SlotOK, SlotHolds, Early, JobOf, PrepSandbox, dbVars
  <2>2. /\ \A s \in Sandbox \ {prep} : code'[s] = code[s]
        /\ code'[prep] # "running"
    BY <1>t, <1>n, <2>1 DEF Terminate, SandboxesTypeOK
  <2>3. \A i \in Job : Calm(i) /\ RowEnds(i) BY <1>t, <2>1, CalmTerminate, RowsStay
  <2>4. slot'[w].job = j /\ slot'[w].pc \in {"cleanup", "launch", "except"}
    BY <1>5, <1>t DEF PrepDone, PrepRaises, Raise, RaiseCancelled, Goto, SlotState
  <2>5. code'[engine] = "unborn" BY <1>n, <2>1, <2>2
  <2>6. SlotHolds(slot[w])' BY <2>1, <2>2, <2>4, <2>5 DEF SlotHolds, Early, Ending, StatusOf, Running
  <2> QED BY <1>o, <2>1, <2>3, <2>6, SlotFromCalm
<1>6. CASE CreateEngine(w)
  <2>1. /\ j \in Job /\ StatusOf(j) = "running" /\ ~Running(prep)
        /\ UNCHANGED jobs /\ UNCHANGED logged /\ Create(engine)
    BY <1>6, <1>t DEF CreateEngine, At, SlotOK, SlotHolds, Early, JobOf, PrepSandbox, dbVars
  <2>2. /\ \A s \in Sandbox \ {engine} : code'[s] = code[s]
        /\ code'[engine] = "running"
    BY <1>t, <1>n, <2>1 DEF Create, SandboxesTypeOK
  <2>3. \A i \in Job \ {j} : Calm(i) BY <2>1, <2>2, SandboxNames DEF Calm, SandboxesOf, EngineSandbox
  <2>4. \A i \in Job : RowEnds(i) BY <2>1, RowsStay
  <2>5. slot'[w].job = j /\ slot'[w].pc = "log_engine" BY <1>6, <1>t DEF CreateEngine, Goto, SlotState
  <2>6. code'[prep] # "running" BY <1>n, <2>1, <2>2 DEF Running
  <2>7. SlotHolds(slot[w])' BY <2>1, <2>2, <2>5, <2>6 DEF SlotHolds, Early, Ending, StatusOf, Running
  <2>8. ASSUME NEW i \in {j} PROVE JobHolds(i)'
    <3>1. ~jobs'[j].result /\ jobs'[j].status = "running" BY <1>a, <2>1 DEF StatusOf
    <3> QED BY <2>6, <3>1 DEF JobHolds, StatusOf, InQueue, Running
  <2>9. LoggedExist' BY <2>1, LoggedKept
  <2>10. {j} \in SUBSET ({slot[w].job} \cap Job) BY <2>1
  <2> QED BY <1>o, <2>3, <2>4, <2>7, <2>8, <2>9, <2>10, SlotFrom
<1>7. CASE LogEngine(w)
  <2>1. /\ j \in Job /\ code[engine] # "unborn" /\ ~Running(prep)
        /\ StatusOf(j) = "running" \/ ~Running(engine)
        /\ UNCHANGED jobs /\ UNCHANGED code /\ logged' = logged \cup {engine}
    BY <1>7, <1>t DEF LogEngine, At, SlotOK, SlotHolds, Early, JobOf, PrepSandbox, modalVars
  <2>2. \A i \in Job \ {j} : Calm(i) BY <2>1 DEF Calm, SandboxesOf, EngineSandbox
  <2>3. \A i \in Job : RowEnds(i) BY <2>1, RowsStay
  <2>4. slot'[w].job = j /\ slot'[w].pc = "engine" BY <1>7, <1>t DEF LogEngine, Goto, SlotState
  <2>5. SlotHolds(slot[w])' BY <2>1, <2>4 DEF SlotHolds, Early, Ending, StatusOf, Running
  <2>6. ASSUME NEW i \in {j} PROVE JobHolds(i)'
    <3>1. ~jobs'[j].result /\ jobs'[j].status = StatusOf(j) BY <1>a, <2>1 DEF StatusOf
    <3>2. ~InQueue(StatusOf(j)) BY <2>1, NoneAssumption DEF Before, IInv, ClaimedOnce, JobOf, InQueue
    <3>3. StatusOf(j) # "running" => \A s \in {engine, prep} : ~Running(s) BY <2>1
    <3>4. StatusOf(j) # "succeeded" BY <2>1 DEF Before, HInv, JobHolds
    <3> QED BY <1>n, <2>1, <3>1, <3>2, <3>3, <3>4 DEF JobHolds, StatusOf, Running, LoggedOf
  <2>7. LoggedExist' BY <2>1 DEF Before, HInv, LoggedExist
  <2>8. {j} \in SUBSET ({slot[w].job} \cap Job) BY <2>1
  <2> QED BY <1>o, <2>2, <2>3, <2>5, <2>6, <2>7, <2>8, SlotFrom
<1>8. CASE CheckRaises(w)
  <2>1. UNCHANGED <<code, jobs, logged>> /\ slot[w].pc \in {"launch", "engine", "handover"}
    BY <1>8 DEF CheckRaises, modalVars, dbVars
  <2>2. slot'[w].job = j /\ slot'[w].pc = "cleanup" BY <1>8, <1>t DEF CheckRaises, RaiseCancelled, SlotState
  <2>3. SlotHolds(slot[w])' BY <1>t, <2>1, <2>2 DEF SlotHolds, Early, Ending, StatusOf, Running
  <2> QED BY <1>o, <2>1, <2>2, <2>3, SlotLooks
<1>9. CASE WaitReturns(w)
  <2>1. UNCHANGED <<code, jobs, logged>> /\ slot[w].pc = "engine" /\ j \in Job
    BY <1>9, <1>t DEF WaitReturns, At, modalVars, dbVars, SlotOK
  <2>2. slot'[w].job = j /\ slot'[w].pc = "register" /\ slot'[w].next = 1
    BY <1>9, <1>t, <2>1 DEF WaitReturns, Goto, SlotState, SlotOK
  <2>3. \A e \in EnginesOf(j) : ~(e[2] < 1) BY GroupsAssumption DEF EnginesOf
  <2>4. SlotHolds(slot[w])' BY <1>t, <2>1, <2>2, <2>3 DEF SlotHolds, Early, Ending, StatusOf, Running
  <2> QED BY <1>o, <2>1, <2>2, <2>4, SlotLooks
<1>10. CASE WaitExited(w)
  <2>1. /\ UNCHANGED <<code, jobs, logged>> /\ slot[w].pc = "engine"
        /\ ~Running(engine)
    BY <1>10 DEF WaitExited, At, JobOf, modalVars, dbVars, Exited, ExitCode, Running
  <2>2. slot'[w].job = j /\ slot'[w].pc = "except" BY <1>10, <1>t DEF WaitExited, Raise, SlotState
  <2>3. SlotHolds(slot[w])' BY <1>t, <2>1, <2>2 DEF SlotHolds, Early, Ending, StatusOf, Running
  <2> QED BY <1>o, <2>1, <2>2, <2>3, SlotLooks
<1>11. CASE RegisterGroup(w)
  <2>1. /\ UNCHANGED <<code, jobs, logged>> /\ slot[w].pc = "register" /\ j \in Job
        /\ slot[w].next \in 1 .. Groups /\ UNCHANGED modalVars
        /\ registered' = registered \cup {<<j, slot[w].next>>}
    BY <1>11, <1>t DEF RegisterGroup, At, JobOf, modalVars, SlotOK
  <2>2. /\ slot'[w].job = j /\ slot'[w].next = slot[w].next + 1
        /\ slot'[w].pc = IF slot[w].next = Groups THEN "handover" ELSE "register"
    BY <1>11, <1>t, <2>1 DEF RegisterGroup, SlotState
  <2>3. ASSUME NEW e \in EnginesOf(j), e[2] < slot[w].next + 1 PROVE Placed(e)'
    <3>1. e = <<j, e[2]>> /\ e[2] \in 1 .. Groups BY DEF EnginesOf
    <3>2. CASE e[2] = slot[w].next BY <2>1, <3>1, <3>2 DEF Placed
    <3>3. CASE e[2] < slot[w].next
      <4>1. Placed(e) BY <1>t, <2>1, <3>3 DEF SlotHolds
      <4> QED BY <2>1, <4>1 DEF Placed, Down, Known, ServerUp, Running, modalVars
    <3> QED BY <2>1, <2>3, <3>1, <3>2, <3>3, GroupsAssumption
  <2>4. slot[w].next = Groups => \A e \in EnginesOf(j) : e[2] < slot[w].next + 1
    BY GroupsAssumption DEF EnginesOf
  <2>5. SlotHolds(slot[w])' BY <1>t, <2>1, <2>2, <2>3, <2>4 DEF SlotHolds, Early, Ending, StatusOf, Running
  <2> QED BY <1>o, <2>1, <2>2, <2>5, SlotLooks
<1>12. CASE Serve(w)
  <2>1. /\ j \in Job /\ slot[w].pc = "handover" /\ UNCHANGED code /\ UNCHANGED logged
        /\ jobs' = [jobs EXCEPT ![j].status = "serving", ![j].result = TRUE]
    BY <1>12, <1>t DEF Serve, At, SlotOK, JobOf, modalVars
  <2>2. slot'[w].pc = "idle" /\ slot'[w].job = NoJob BY <1>12, <1>t DEF Serve, Release, IdleSlot
  <2>3. jobs'[j].status = "serving" /\ jobs'[j].result BY <1>t, <2>1 DEF JobsType, Row
  <2>4. \A i \in Job \ {j} : jobs'[i] = jobs[i] BY <1>t, <2>1 DEF JobsType
  <2>5. RowEnds(j) BY <2>1, <2>3 DEF RowEnds
  <2>6. \A i \in Job : RowEnds(i) BY <2>4, <2>5, RowsStay
  <2>7. SlotHolds(slot[w])' BY <2>2 DEF SlotHolds, Early, Ending
  <2> QED BY <1>o, <2>1, <2>6, <2>7, CalmSame, SlotFromCalm
<1>13. CASE Fails(w)
  BY <1>13 DEF Fails, Before, NoLies, Truthful
<1>14. CASE Except(w)
  <2>1. UNCHANGED <<code, jobs, logged>> /\ slot[w].pc = "except" BY <1>14 DEF Except, At, modalVars, dbVars
  <2>2. slot'[w].job = j /\ slot'[w].pc \in {"close", "cleanup"}
    BY <1>14, <1>t DEF Except, Goto, SlotState
  <2>3. SlotHolds(slot[w])' BY <1>t, <2>1, <2>2 DEF SlotHolds, Early, Ending, StatusOf, Running
  <2> QED BY <1>o, <2>1, <2>2, <2>3, SlotLooks
<1>15. CASE Cleanup(w)
  <2>1. UNCHANGED <<code, jobs, logged>> /\ slot[w].pc = "cleanup" /\ j \in Job
    BY <1>15, <1>t DEF Cleanup, At, modalVars, dbVars, SlotOK
  <2>2. slot'[w].job = j /\ slot'[w].pc = "killing" /\ slot'[w].todo = LoggedOf(j)
    BY <1>15, <1>t DEF Cleanup, SlotState, JobOf
  <2>3. LoggedOf(j) \subseteq SandboxesOf(j) /\ (engine \in logged => engine \in LoggedOf(j))
    BY <1>n, <2>1 DEF LoggedOf
  <2>4. SlotHolds(slot[w])'
    BY <1>t, <2>1, <2>2, <2>3 DEF SlotHolds, Early, Ending, StatusOf, Running
  <2> QED BY <1>o, <2>1, <2>2, <2>4, SlotLooks
<1>16. CASE KillOne(w)
  <2>1. /\ slot[w].pc = "killing" /\ j \in Job /\ UNCHANGED jobs /\ UNCHANGED logged
    BY <1>16, <1>t DEF KillOne, At, SlotOK, dbVars
  <2>2. PICK s \in slot[w].todo : /\ KillUnlessSpared(j, s, slot[w].spare)
                                 /\ slot' = [slot EXCEPT ![w].todo = @ \ {s}]
    BY <1>16 DEF KillOne, JobOf, Before, Answers
  <2>3. StatusOf(j) \notin {"serving", "succeeded"}
    <3>1. StatusOf(j) # "serving" BY <1>a, <2>1 DEF Before, UInv, ResultInv
    <3>2. StatusOf(j) # "succeeded" BY <2>1 DEF Before, HInv, JobHolds
    <3> QED BY <3>1, <3>2
  <2>4. Terminate(s) BY <2>2, <2>3 DEF KillUnlessSpared, Spared
  <2>5. slot[w].todo \subseteq SandboxesOf(j) /\ (Running(engine) => engine \in slot[w].todo)
    BY <1>t, <2>1 DEF SlotHolds, SlotKills
  <2>6. /\ \A u \in Sandbox \ {s} : code'[u] = code[u]
        /\ code'[s] # "running"
    BY <1>t, <1>n, <2>1, <2>4, <2>5 DEF Terminate, SandboxesTypeOK
  <2>7. /\ slot'[w].job = j /\ slot'[w].pc = "killing" /\ slot'[w].todo = slot[w].todo \ {s}
    BY <1>t, <2>1, <2>2 DEF SlotState
  <2>8. \A i \in Job : Calm(i) /\ RowEnds(i) BY <1>t, <2>1, <2>4, CalmTerminate, RowsStay
  <2>9. ~Running(prep) BY <1>t, <2>1 DEF SlotHolds, Ending
  <2>10. code'[prep] # "running" BY <1>n, <2>1, <2>6, <2>9 DEF Running
  <2>11. code'[engine] = "running" => engine \in slot'[w].todo BY <1>n, <2>1, <2>5, <2>6, <2>7 DEF Running
  <2>12. SlotHolds(slot[w])' BY <2>5, <2>7, <2>10, <2>11 DEF SlotHolds, Early, Ending, Running
  <2> QED BY <1>o, <2>1, <2>8, <2>12, SlotFromCalm
<1>17. CASE KillDone(w)
  <2>1. UNCHANGED <<code, jobs, logged>> /\ slot[w].pc = "killing" /\ slot[w].todo = {}
    BY <1>17 DEF KillDone, At, modalVars, dbVars
  <2>2. slot'[w].job = j /\ slot'[w].pc = "close" BY <1>17, <1>t DEF KillDone, Goto, SlotState
  <2>3. SlotHolds(slot[w])' BY <1>t, <2>1, <2>2 DEF SlotHolds, Early, Ending, StatusOf, Running
  <2> QED BY <1>o, <2>1, <2>2, <2>3, SlotLooks
<1>18. CASE CloseJob(w)
  <2>1. /\ j \in Job /\ UNCHANGED code /\ UNCHANGED logged /\ ~Running(engine) /\ ~Running(prep)
        /\ SetStatus(j, slot[w].outcome) /\ slot[w].outcome \in TERMINAL
    BY <1>18, <1>t DEF CloseJob, At, SlotOK, SlotHolds, Ending, JobOf, modalVars
  <2>2. slot'[w].pc = "idle" /\ slot'[w].job = NoJob BY <1>18, <1>t DEF CloseJob, Release, IdleSlot
  <2>3. jobs'[j].status = slot[w].outcome /\ jobs'[j].result = jobs[j].result
    BY <1>t, <2>1 DEF SetStatus, JobsType, Row
  <2>4. \A i \in Job \ {j} : jobs'[i] = jobs[i] BY <1>t, <2>1 DEF SetStatus, JobsType
  <2>5. \A v \in Worker : slot'[v].job # j
    BY <1>o, <2>1, <2>2, NoneAssumption DEF Before, IInv, ClaimedOnce, JobOf, SlotOthers
  <2>6. \A u \in LoggedOf(j) : ~Running(u) BY <1>n, <2>1 DEF LoggedOf
  <2>7. slot[w].outcome \notin {"absent", "queued", "running", "succeeded"}
    BY <1>t, <2>1 DEF TERMINAL, SlotState, Outcome
  <2>8. RowEnds(j) BY <2>3, <2>5, <2>6, <2>7 DEF RowEnds
  <2>9. \A i \in Job : RowEnds(i) BY <2>4, <2>8, RowsStay
  <2>10. SlotHolds(slot[w])' BY <2>2 DEF SlotHolds, Early, Ending
  <2> QED BY <1>o, <2>1, <2>9, <2>10, CalmSame, SlotFromCalm
<1> QED
  BY <1>1, <1>2, <1>3, <1>4, <1>5, <1>6, <1>7, <1>8, <1>9, <1>10, <1>11, <1>12, <1>13, <1>14, <1>15,
     <1>16, <1>17, <1>18 DEF SlotNext

-----------------------------------------------------------------------------
(* One step of a reconciler.                                               *)

LEMMA SetStatusRows ==
    ASSUME JobsType, NEW j \in Job, NEW st, SetStatus(j, st), RowEnds(j) PROVE \A i \in Job : RowEnds(i)
  <1>1. \A i \in Job \ {j} : jobs'[i] = jobs[i] BY DEF SetStatus, JobsType
  <1> QED BY <1>1, RowsStay

LEMMA RecFrom ==
    ASSUME Before, After, NEW w \in Worker, UNCHANGED workerVars, UNCHANGED call, UNCHANGED logged,
           RecOthers(w), \A i \in Job : Calm(i) /\ RowEnds(i), RecHolds(rec[w])'
    PROVE  HInv'
  <1>1. LoggedExist' BY LoggedKept
  <1>2. Effects({}) BY <1>1 DEF Effects
  <1> QED BY <1>2, HeldFrom DEF RecOthers, workerVars

LEMMA RecLooks ==
    ASSUME Before, After, NEW w \in Worker, UNCHANGED workerVars, UNCHANGED call,
           UNCHANGED <<code, jobs, logged>>, RecOthers(w), RecHolds(rec[w])'
    PROVE  HInv'
  <1>1. \A i \in Job : Calm(i) /\ RowEnds(i) BY CalmSame, RowsStay
  <1> QED BY <1>1, RecFrom

LEMMA RecHeldStep ==
    ASSUME Before, After, NEW w \in Worker, RecNext(w), UNCHANGED call PROVE HInv'
<1> DEFINE j == rec[w].job
<1>t. /\ SandboxesTypeOK /\ JobsType /\ registered \subseteq Engine
      /\ rec \in [Worker -> RecState] /\ rec[w] \in RecState /\ RecOK(rec[w])
      /\ RecHolds(rec[w]) /\ RecKills(rec[w]) /\ RecCause(rec[w]) /\ RecDown(rec[w])
      /\ rec[w].engs \subseteq Engine /\ rec[w].jobs \subseteq Job
  BY RowsTyped DEF Before, IInv, RInv, ReconcilersTypeOK, RecInv, HInv, KInv, CInv, UInv,
     RecState, StoreTypeOK
<1>o. RecOthers(w) /\ UNCHANGED workerVars
  BY RecCauseStep, RecStep DEF Before, RecGoal, IInv
<1>n. \A e \in Engine : e[1] \in Job /\ SandboxOf(e) = EngineSandbox(e[1])
  BY DEF Engine, SandboxOf
<1>s. ASSUME NEW i \in Job, NEW st, SetStatus(i, st)
      PROVE  jobs'[i].status = st /\ \A k \in Job : jobs'[k].result = jobs[k].result
  BY <1>s, <1>t DEF SetStatus, JobsType, Row
<1>1. CASE ReattachEngines(w) \/ ReattachList(w) \/ AttachKeep(w) \/ AttachDone(w) \/ TickList(w)
           \/ TickDone(w) \/ PollFine(w) \/ TickRaises(w)
           \/ ReapList(w) \/ ReapOwn(w) \/ ReapDone(w)
  <2>1. UNCHANGED <<code, jobs, logged>>
    BY <1>1 DEF ReattachEngines, ReattachList, AttachKeep, AttachDone, TickList, TickDone, PollFine,
       TickRaises, ReapList, ReapOwn, ReapDone, modalVars, dbVars
  <2>2. rec'[w].pc \in {"attach_list", "attach", "tick", "reap_list", "reap", "idle"}
    BY <1>1, <1>t DEF ReattachEngines, ReattachList, AttachKeep, AttachDone, TickList, TickDone, PollFine,
       TickRaises, ReapList, ReapOwn, ReapDone, RecGoto, RecAt, RecState, OffRec
  <2>3. RecHolds(rec[w])' BY <2>2 DEF RecHolds
  <2> QED BY <1>o, <2>1, <2>3, RecLooks
<1>2. CASE PollRaises(w)
  BY <1>2 DEF PollRaises, Before, NoLies, Truthful
<1>3. CASE PollExited(w)
  <2>1. PICK e \in rec[w].engs :
           /\ Exited(SandboxOf(e))
           /\ rec' = [rec EXCEPT ![w].pc = "drop", ![w].engs = @ \ {e}, ![w].eng = {e}, ![w].job = e[1],
                                 ![w].outcome = EndStatus(code[SandboxOf(e)])]
    BY <1>3 DEF PollExited
  <2>2. UNCHANGED <<code, jobs, logged>> BY <1>3 DEF PollExited, modalVars, dbVars
  <2>3. rec'[w].pc = "drop" /\ rec'[w].job = e[1] BY <1>t, <2>1 DEF RecState
  <2>4. Exited(EngineSandbox(e[1])) BY <1>t, <1>n, <2>1
  <2>5. RecHolds(rec[w])' BY <2>2, <2>3, <2>4 DEF RecHolds, Exited
  <2> QED BY <1>o, <2>2, <2>5, RecLooks
<1>4. CASE PollExpired(w)
  <2>1. PICK e \in rec[w].engs :
           /\ Running(SandboxOf(e))
           /\ rec' = [rec EXCEPT ![w].pc = "expire", ![w].engs = @ \ {e}, ![w].eng = {e}, ![w].job = e[1],
                                 ![w].outcome = "timeout"]
    BY <1>4 DEF PollExpired
  <2>2. UNCHANGED <<code, jobs, logged>> BY <1>4 DEF PollExpired, modalVars, dbVars
  <2>3. rec'[w].pc = "expire" /\ rec'[w].job = e[1] BY <1>t, <2>1 DEF RecState
  <2>4. code[EngineSandbox(e[1])] # "unborn" BY <1>t, <1>n, <2>1 DEF Running
  <2>5. RecHolds(rec[w])' BY <2>2, <2>3, <2>4 DEF RecHolds
  <2> QED BY <1>o, <2>2, <2>5, RecLooks
<1>5. CASE Drop(w)
  <2>1. UNCHANGED <<code, jobs, logged>> /\ rec[w].pc = "drop" BY <1>5 DEF Drop, RecAt, modalVars
  <2>2. rec'[w].pc = "finish" /\ rec'[w].job = j BY <1>5, <1>t DEF Drop, RecState
  <2>3. RecHolds(rec[w])' BY <1>t, <2>1, <2>2 DEF RecHolds, Exited
  <2> QED BY <1>o, <2>1, <2>3, RecLooks
<1>6. CASE RecFinishRead(w)
  <2>1. UNCHANGED <<code, jobs, logged>> /\ rec[w].pc = "finish"
    BY <1>6 DEF RecFinishRead, RecAt, modalVars, dbVars
  <2>2. rec'[w].pc \in {"attach", "tick"} \/ (rec'[w].pc = "finish_write" /\ rec'[w].job = j)
    BY <1>6, <1>t DEF RecFinishRead, RecGoto, RecBack, RecState
  <2>3. RecHolds(rec[w])' BY <1>t, <2>1, <2>2 DEF RecHolds, Exited
  <2> QED BY <1>o, <2>1, <2>3, RecLooks
<1>7. CASE ReapJob(w)
  <2>1. UNCHANGED <<code, jobs, logged>> /\ rec[w].pc = "reap" BY <1>7 DEF ReapJob, RecAt, modalVars, dbVars
  <2>2. PICK i \in rec[w].jobs :
           rec' = [rec EXCEPT ![w].pc = "reap_killing", ![w].jobs = @ \ {i}, ![w].job = i,
                              ![w].todo = LoggedOf(i), ![w].spare = RegisteredSandboxes]
    BY <1>7 DEF ReapJob
  <2>3. rec'[w].pc = "reap_killing" /\ rec'[w].job = i /\ rec'[w].todo = LoggedOf(i)
    BY <1>t, <2>2 DEF RecState
  <2>4. LoggedOf(i)' = LoggedOf(i) BY <2>1 DEF LoggedOf
  <2>5. RecHolds(rec[w])' BY <2>3, <2>4 DEF RecHolds
  <2> QED BY <1>o, <2>1, <2>5, RecLooks
<1>8. CASE Expire(w)
  <2>1. /\ rec[w].pc = "expire" /\ j \in Job /\ j \in expired /\ code[EngineSandbox(j)] # "unborn"
        /\ Terminate(EngineSandbox(j)) /\ UNCHANGED jobs /\ UNCHANGED logged
    BY <1>8, <1>t DEF Expire, RecAt, RecCause, RecHolds, Before, Answers, dbVars
  <2>2. /\ \A u \in Sandbox \ {EngineSandbox(j)} : code'[u] = code[u]
        /\ code'[EngineSandbox(j)] \in ExitCode /\ expired' = expired
    BY <1>t, <2>1, SandboxNames DEF Terminate, SandboxesTypeOK, ExitCode
  <2>3. \A i \in Job : Calm(i) /\ RowEnds(i) BY <1>t, <2>1, CalmTerminate, RowsStay, SandboxNames
  <2>4. rec'[w].pc = "drop" /\ rec'[w].job = j BY <1>8, <1>t DEF Expire, RecGoto, RecState
  <2>5. RecHolds(rec[w])' BY <2>2, <2>4 DEF RecHolds, Exited
  <2> QED BY <1>o, <2>1, <2>3, <2>5, RecFrom
<1>9. CASE ReapKill(w)
  <2>1. /\ rec[w].pc = "reap_killing" /\ j \in Job /\ Orphan(j) /\ ~jobs[j].result
        /\ rec[w].todo \subseteq SandboxesOf(j) /\ UNCHANGED jobs /\ UNCHANGED logged
    BY <1>9, <1>t DEF ReapKill, RecAt, RecCause, RecKills, dbVars
  <2>2. PICK s \in rec[w].todo : /\ KillUnlessSpared(j, s, rec[w].spare)
                                /\ rec' = [rec EXCEPT ![w].todo = @ \ {s}]
    BY <1>9 DEF ReapKill, Before, Answers
  <2>3. StatusOf(j) \notin {"serving", "succeeded"}
    <3>1. StatusOf(j) # "serving" BY <2>1 DEF Before, UInv, ResultInv
    <3>2. StatusOf(j) # "succeeded" BY <2>1 DEF Before, HInv, JobHolds
    <3> QED BY <3>1, <3>2
  <2>4. Terminate(s) BY <2>2, <2>3 DEF KillUnlessSpared, Spared
  <2>5. /\ \A u \in Sandbox \ {s} : code'[u] = code[u]
        /\ code'[s] # "running"
    BY <1>t, <2>1, <2>4, SandboxNames DEF Terminate, SandboxesTypeOK
  <2>6. \A i \in Job : Calm(i) /\ RowEnds(i) BY <1>t, <2>1, <2>4, CalmTerminate, RowsStay
  <2>7. /\ rec'[w].pc = "reap_killing" /\ rec'[w].job = j /\ rec'[w].todo = rec[w].todo \ {s}
    BY <1>t, <2>1, <2>2 DEF RecState
  <2>8. \A u \in LoggedOf(j) : code'[u] = "running" => u \in rec[w].todo \ {s}
    <3>1. \A u \in LoggedOf(j) : u \in Sandbox /\ (Running(u) => u \in rec[w].todo)
      BY <1>t, <2>1, SandboxNames DEF RecHolds, LoggedOf
    <3> QED BY <2>5, <3>1 DEF Running
  <2>9. RecHolds(rec[w])' BY <2>1, <2>7, <2>8 DEF RecHolds, Running, LoggedOf
  <2> QED BY <1>o, <2>1, <2>6, <2>9, RecFrom
<1>10. CASE AttachLost(w)
  <2>1. PICK i \in rec[w].jobs :
           /\ Exited(EngineSandbox(i))
           /\ SetStatus(i, "serving")
           /\ rec' = [rec EXCEPT ![w].pc = "finish", ![w].jobs = @ \ {i}, ![w].job = i, ![w].back = "attach",
                                 ![w].outcome = EndStatus(code[EngineSandbox(i)])]
    BY <1>10 DEF AttachLost
  <2>2. UNCHANGED code /\ UNCHANGED logged BY <1>10 DEF AttachLost, modalVars
  <2>3. i \in Job /\ jobs'[i].status = "serving" /\ jobs'[i].result = jobs[i].result BY <1>t, <1>s, <2>1
  <2>4. RowEnds(i) BY <2>1, <2>3 DEF RowEnds
  <2>5. \A k \in Job : Calm(k) /\ RowEnds(k)
    BY <1>t, <2>1, <2>2, <2>3, <2>4, CalmSame, SetStatusRows
  <2>6. rec'[w].pc = "finish" /\ rec'[w].job = i BY <1>t, <2>1 DEF RecState
  <2>7. RecHolds(rec[w])' BY <2>1, <2>2, <2>6 DEF RecHolds, Exited
  <2> QED BY <1>o, <2>2, <2>5, <2>7, RecFrom
<1>11. CASE RecFinishWrite(w)
  <2>1. /\ j \in Job /\ Exited(EngineSandbox(j)) /\ SetStatus(j, rec[w].outcome) /\ RecBack(w, rec[w].back)
        /\ UNCHANGED code /\ UNCHANGED logged
        /\ rec[w].outcome \notin {"absent", "queued", "running", "succeeded"}
    BY <1>11, <1>t DEF RecFinishWrite, RecAt, RecHolds, RecCause, RecOK, TERMINAL, RecState, Outcome, modalVars
  <2>2. jobs'[j].status = rec[w].outcome /\ jobs'[j].result = jobs[j].result BY <1>s, <2>1
  <2>3. RowEnds(j) BY <2>1, <2>2 DEF RowEnds
  <2>4. \A k \in Job : Calm(k) /\ RowEnds(k)
    BY <1>t, <2>1, <2>3, CalmSame, SetStatusRows
  <2>5. rec'[w].pc \in {"attach", "tick"} BY <1>t, <2>1 DEF RecBack, RecState
  <2>6. RecHolds(rec[w])' BY <2>5 DEF RecHolds
  <2> QED BY <1>o, <2>1, <2>4, <2>6, RecFrom
<1>12. CASE ReapWrite(w)
  <2>1. /\ rec[w].pc = "reap_killing" /\ rec[w].todo = {} /\ SetStatus(j, "interrupted") /\ RecBack(w, "reap")
        /\ UNCHANGED code /\ UNCHANGED logged
    BY <1>12 DEF ReapWrite, RecAt, modalVars
  <2>2. j \in Job /\ Orphan(j) /\ ~jobs[j].result /\ \A s \in LoggedOf(j) : ~Running(s)
    BY <1>t, <2>1 DEF RecCause, RecHolds, RecKills
  <2>3. jobs'[j].status = "interrupted" /\ \A k \in Job : jobs'[k].result = jobs[k].result
    BY <1>s, <2>1, <2>2
  <2>4. \A v \in Worker : slot'[v].job # j BY <1>o, <2>2, OrphanFree DEF Before, NoLies, KInv, workerVars
  <2>5. RowEnds(j) BY <2>2, <2>3, <2>4 DEF RowEnds
  <2>6. \A k \in Job : Calm(k) /\ RowEnds(k)
    BY <1>t, <2>1, <2>2, <2>5, CalmSame, SetStatusRows
  <2>7. rec'[w].pc = "reap" BY <1>t, <2>1 DEF RecBack, RecState
  <2>8. RecHolds(rec[w])' BY <2>7 DEF RecHolds
  <2> QED BY <1>o, <2>1, <2>6, <2>8, RecFrom
<1> QED
  BY <1>1, <1>2, <1>3, <1>4, <1>5, <1>6, <1>7, <1>8, <1>9, <1>10, <1>11, <1>12 DEF RecNext

-----------------------------------------------------------------------------
(* One step of a call.                                                     *)

LEMMA CallFrom ==
    ASSUME Before, After, NEW c \in Call, UNCHANGED workerVars, UNCHANGED rec, UNCHANGED logged,
           CallOthers(c), \A i \in Job : Calm(i) /\ RowEnds(i), CallHolds(call[c])'
    PROVE  HInv'
  <1>1. LoggedExist' BY LoggedKept
  <1>2. Effects({}) BY <1>1 DEF Effects
  <1> QED BY <1>2, HeldFrom DEF CallOthers, workerVars

LEMMA CallLooks ==
    ASSUME Before, After, NEW c \in Call, UNCHANGED workerVars, UNCHANGED rec,
           UNCHANGED <<code, jobs, logged>>, CallOthers(c), CallHolds(call[c])'
    PROVE  HInv'
  <1>1. \A i \in Job : Calm(i) /\ RowEnds(i) BY CalmSame, RowsStay
  <1> QED BY <1>1, CallFrom

LEMMA CallHeldStep ==
    ASSUME Before, After, NEW c \in Call,
           CancelNext(c) \/ StopNext(c) \/ FinishNext(c) \/ CallDies(c),
           UNCHANGED workerVars, UNCHANGED rec
    PROVE  HInv'
<1> DEFINE j == call[c].job
<1>t. /\ SandboxesTypeOK /\ JobsType /\ registered \subseteq Engine
      /\ call \in [Call -> CallState] /\ call[c] \in CallState
      /\ CallHolds(call[c]) /\ CallKills(call[c]) /\ CallDown(call[c]) /\ NewCalls
  BY RowsTyped DEF Before, IInv, CallsTypeOK, HInv, KInv, CInv, UInv, StoreTypeOK, NewCalls
<1>o. CallOthers(c) /\ (call[c].pc # "new" => call'[c].job = j)
  BY <1>t, CallQuiet, CallJobs DEF Before
<1>s. ASSUME NEW i \in Job, NEW st, SetStatus(i, st)
      PROVE  jobs'[i].status = st /\ jobs'[i].result = jobs[i].result
  BY <1>s, <1>t DEF SetStatus, JobsType, Row
(* It terminates a sandbox of its job.                                     *)
<1>k. ASSUME NEW s \in SandboxesOf(j), Terminate(s), j \in Job, call'[c].job = j, UNCHANGED jobs, UNCHANGED logged
      PROVE  \A i \in Job : Calm(i) /\ RowEnds(i)
  <2>1. \A i \in Job : Calm(i) /\ RowEnds(i) BY <1>t, <1>k, CalmTerminate, RowsStay
  <2> QED BY <2>1
<1>1. CASE CancelGet(c)
  <2>1. UNCHANGED <<code, jobs, logged>> BY <1>1 DEF CancelGet, modalVars, dbVars
  <2>2. PICK i \in Job : \E p \in {"done", "find", "withdraw"}, E \in {{}, EnginesOf(i)} :
           call' = [call EXCEPT ![c].job = i, ![c].engs = E, ![c].pc = p]
    BY <1>1 DEF CancelGet
  <2>3. call'[c].job \in Job /\ call'[c].pc \in {"done", "find", "withdraw"} BY <1>t, <2>2 DEF CallState
  <2>4. CallHolds(call[c])' BY <2>3 DEF CallHolds
  <2> QED BY <1>o, <2>1, <2>4, CallLooks
<1>2. CASE CancelWithdraw(c)
  <2>1. j \in Job /\ UNCHANGED code /\ UNCHANGED logged /\ call[c].pc = "withdraw"
    BY <1>2, <1>t DEF CancelWithdraw, CallAt, CallKills, modalVars
  <2>2. call'[c].job = j /\ call'[c].pc \in {"done", "flag"}
    BY <1>2, <1>t, <1>o, <2>1 DEF CancelWithdraw, CallGoto, CallState
  <2>3. CallHolds(call[c])' BY <2>1, <2>2 DEF CallHolds
  <2>4. CASE CancelQueued(j)
    <3>1. InQueue(jobs[j].status) /\ SetStatus(j, "cancelled") BY <2>4 DEF CancelQueued, StatusOf, InQueue
    <3>2. jobs'[j].status = "cancelled" /\ jobs'[j].result = jobs[j].result BY <1>s, <2>1, <3>1
    <3>3. RowEnds(j) BY <3>1, <3>2 DEF RowEnds
    <3>4. \A i \in Job : Calm(i) /\ RowEnds(i)
      BY <1>t, <2>1, <3>1, <3>3, CalmSame, SetStatusRows
    <3> QED BY <1>o, <2>1, <2>3, <3>4, CallFrom
  <2>5. CASE UNCHANGED jobs BY <1>o, <2>1, <2>3, <2>5, CallLooks
  <2> QED BY <1>2, <2>4, <2>5 DEF CancelWithdraw
<1>3. CASE CancelFlag(c)
  <2>1. j \in Job /\ UNCHANGED code /\ UNCHANGED logged /\ RequestCancel(j) /\ call[c].pc = "flag"
    BY <1>3, <1>t DEF CancelFlag, CallAt, CallKills, modalVars
  <2>2. \A i \in Job : jobs'[i].status = jobs[i].status /\ jobs'[i].result = jobs[i].result
    BY <1>t, <2>1 DEF RequestCancel, JobsType, Row
  <2>3. \A i \in Job : Calm(i) /\ RowEnds(i) BY <2>1, <2>2, CalmSame, RowsStay
  <2>4. call'[c].job = j /\ call'[c].pc = "snapshot" BY <1>3, <1>t, <1>o, <2>1 DEF CancelFlag, CallGoto, CallState
  <2>5. CallHolds(call[c])' BY <2>1, <2>4 DEF CallHolds
  <2> QED BY <1>o, <2>1, <2>3, <2>5, CallFrom
<1>4. CASE CancelSnapshot(c)
  <2>1. UNCHANGED <<code, jobs, logged>> BY <1>4 DEF CancelSnapshot, modalVars, dbVars
  <2>2. call'[c].pc = "killing" BY <1>4, <1>t DEF CancelSnapshot, CallState
  <2>3. CallHolds(call[c])' BY <2>2 DEF CallHolds
  <2> QED BY <1>o, <2>1, <2>3, CallLooks
<1>5. CASE CancelKill(c)
  <2>1. /\ j \in Job /\ UNCHANGED jobs /\ UNCHANGED logged /\ call[c].pc = "killing"
        /\ call[c].todo \subseteq SandboxesOf(j)
    BY <1>5, <1>t DEF CancelKill, CallAt, CallKills, dbVars
  <2>2. CASE \E s \in call[c].todo :
               (KillUnlessSpared(j, s, call[c].spare) \/ UNCHANGED modalVars) /\ call' = [call EXCEPT ![c].todo = @ \ {s}]
    <3>1. PICK s \in call[c].todo :
             (KillUnlessSpared(j, s, call[c].spare) \/ UNCHANGED modalVars) /\ call' = [call EXCEPT ![c].todo = @ \ {s}]
      BY <2>2
    <3>2. call'[c].job = j /\ call'[c].pc = "killing" BY <1>t, <2>1, <3>1 DEF CallState
    <3>3. CallHolds(call[c])' BY <3>2 DEF CallHolds
    <3>4. CASE Terminate(s) BY <1>k, <1>o, <2>1, <3>2, <3>3, <3>4, CallFrom
    <3>5. CASE UNCHANGED modalVars BY <1>o, <2>1, <3>3, <3>5, CallLooks DEF modalVars
    <3> QED BY <3>1, <3>4, <3>5 DEF KillUnlessSpared
  <2>3. CASE CallGoto(c, "flagged") /\ UNCHANGED modalVars
    <3>1. call'[c].job = j /\ call'[c].pc = "flagged" BY <1>t, <2>3 DEF CallGoto, CallState
    <3>2. CallHolds(call[c])' BY <2>1, <3>1 DEF CallHolds
    <3> QED BY <1>o, <2>1, <2>3, <3>2, CallLooks DEF modalVars
  <2> QED BY <1>5, <2>2, <2>3 DEF CancelKill
<1>6. CASE CancelFind(c) \/ StopSiblings(c) \/ FinishRead(c) \/ DropGroup(c) \/ CallDies(c)
  <2>1. UNCHANGED <<code, jobs, logged>> /\ UNCHANGED ready
    BY <1>6 DEF CancelFind, StopSiblings, FinishRead, DropGroup, CallDies, modalVars, dbVars
  <2>2. j \in Job /\ call'[c].job = j
    BY <1>6, <1>t, <1>o DEF CancelFind, StopSiblings, FinishRead, DropGroup, CallDies, CallAt, CallKills
  <2>3. \/ call'[c].pc \in {"stop_serving", "unregister", "stop_group", "done", "group_stopped", "raised"}
        \/ call[c].pc = "siblings" /\ call'[c].pc = "stop_sandbox"
        \/ call[c].pc = "finish" /\ call'[c].pc = "finish_write"
    BY <1>6, <1>t DEF CancelFind, StopSiblings, FinishRead, DropGroup, CallDies, CallAt, CallGoto, CallState
  <2>4. CallHolds(call[c])' BY <1>t, <2>1, <2>2, <2>3 DEF CallHolds, Exited
  <2> QED BY <1>o, <2>1, <2>4, CallLooks
<1>7. CASE CancelStopServing(c) \/ StopSandbox(c)
  <2>1. j \in Job /\ UNCHANGED jobs /\ UNCHANGED logged /\ Terminate(EngineSandbox(j)) /\ call'[c].job = j
    BY <1>7, <1>t, <1>o DEF CancelStopServing, StopSandbox, CallAt, CallKills, dbVars
  <2>2. \A i \in Job : Calm(i) /\ RowEnds(i) BY <1>k, <2>1, SandboxNames
  <2>3. CallHolds(call[c])'
    <3>1. CASE CancelStopServing(c)
      <4>1. call'[c].pc = "unregister" BY <1>t, <3>1 DEF CancelStopServing, CallGoto, CallState
      <4> QED BY <2>1, <4>1 DEF CallHolds
    <3>2. CASE StopSandbox(c)
      <4>1. call'[c].pc = "drop" /\ j \in ready
        BY <1>t, <3>2 DEF StopSandbox, CallAt, CallGoto, CallState, CallHolds
      <4>2. code'[EngineSandbox(j)] \in ExitCode
        BY <1>t, <2>1, <4>1, TerminateEnds DEF Before, UInv, ReadyInv, Born
      <4> QED BY <2>1, <4>1, <4>2 DEF CallHolds, Exited
    <3> QED BY <1>7, <3>1, <3>2
  <2> QED BY <1>o, <2>1, <2>2, <2>3, CallFrom
<1>8. CASE CancelUnregister(c) \/ DropEngine(c)
  <2>1. j \in Job /\ UNCHANGED <<code, jobs, logged>> /\ call'[c].job = j
    BY <1>8, <1>t, <1>o DEF CancelUnregister, DropEngine, CallAt, CallKills, modalVars
  <2>2. Exited(EngineSandbox(j)) \/ jobs[j].result
    BY <1>8, <1>t DEF CancelUnregister, DropEngine, CallAt, CallHolds, CallDown
  <2>3. call'[c].pc \in {"unregister", "finish"}
    BY <1>8, <1>t, ZenonT(40) DEF CancelUnregister, DropEngine, CallAt, CallGoto, CallState, Engine, EnginesOf
  <2>4. CallHolds(call[c])' BY <2>1, <2>2, <2>3 DEF CallHolds, Exited
  <2> QED BY <1>o, <2>1, <2>4, CallLooks
<1>9. CASE FinishWrite(c)
  <2>1. /\ j \in Job /\ UNCHANGED code /\ UNCHANGED logged /\ SetStatus(j, "stopped")
        /\ Exited(EngineSandbox(j)) \/ jobs[j].result
    BY <1>9, <1>t DEF FinishWrite, CallAt, CallHolds, CallKills, modalVars
  <2>2. jobs'[j].status = "stopped" /\ jobs'[j].result = jobs[j].result BY <1>s, <2>1
  <2>3. RowEnds(j) BY <2>1, <2>2 DEF RowEnds
  <2>4. \A i \in Job : Calm(i) /\ RowEnds(i)
    BY <1>t, <2>1, <2>3, CalmSame, SetStatusRows
  <2>5. call'[c].job = j /\ call'[c].pc = "done" BY <1>9, <1>t, <1>o DEF FinishWrite, CallAt, CallGoto, CallState
  <2>6. CallHolds(call[c])' BY <2>1, <2>5 DEF CallHolds
  <2> QED BY <1>o, <2>1, <2>4, <2>6, CallFrom
<1>10. CASE StopRead(c)
  <2>1. UNCHANGED <<code, jobs, logged>> /\ UNCHANGED ready BY <1>10 DEF StopRead, modalVars, dbVars
  <2>2. PICK e \in registered :
           call' = [call EXCEPT ![c].pc = "siblings", ![c].job = e[1], ![c].engs = {e}]
    BY <1>10 DEF StopRead
  <2>3. call'[c].pc = "siblings" /\ call'[c].job = e[1] BY <1>t, <2>2 DEF CallState
  <2>4. e[1] \in Job /\ e[1] \in ready
    BY <1>t, EngineSandboxes DEF Before, UInv, ReadyInv, Known
  <2>5. CallHolds(call[c])' BY <2>1, <2>3, <2>4 DEF CallHolds
  <2> QED BY <1>o, <2>1, <2>5, CallLooks
<1>11. CASE StopGroup(c)
  <2>1. j \in Job /\ UNCHANGED <<code, jobs, logged>> /\ call'[c].job = j
    BY <1>11, <1>t, <1>o DEF StopGroup, CallAt, CallKills, KillServer, modalVars, dbVars
  <2>2. call'[c].pc \in {"drop_group", "raised"} BY <1>11, <1>t DEF StopGroup, CallGoto, CallState
  <2>3. CallHolds(call[c])' BY <2>1, <2>2 DEF CallHolds
  <2> QED BY <1>o, <2>1, <2>3, CallLooks
<1> QED
  BY <1>1, <1>2, <1>3, <1>4, <1>5, <1>6, <1>7, <1>8, <1>9, <1>10, <1>11
  DEF CancelNext, StopNext, FinishNext

-----------------------------------------------------------------------------
(* The whole step                                                          *)

LEMMA InitHInv == Init => HInv
  <1> SUFFICES ASSUME Init PROVE HInv OBVIOUS
  <1>1. LoggedExist BY DEF Init, StoreInit, LoggedExist
  <1>2. \A w \in Worker : SlotHolds(slot[w]) BY DEF Init, WorkersInit, IdleSlot, SlotHolds, Early, Ending
  <1>3. \A w \in Worker : RecHolds(rec[w]) BY DEF Init, ReconcilersInit, OffRec, RecHolds
  <1>4. \A c \in Call : CallHolds(call[c]) BY DEF Init, CallsInit, NewCall, CallHolds
  <1>5. ASSUME NEW j \in Job PROVE JobHolds(j)
    <2>1. \A s \in SandboxesOf(j) : code[s] = "unborn" BY SandboxNames DEF Init, SandboxesInit
    <2>2. StatusOf(j) = "absent" /\ ~jobs[j].result BY DEF Init, StoreInit, NoRow, StatusOf
    <2>3. code[EngineSandbox(j)] = "unborn" BY <2>1, SandboxNames
    <2> QED BY <2>1, <2>2, <2>3 DEF JobHolds, LoggedOf, Running
  <1> QED BY <1>1, <1>2, <1>3, <1>4, <1>5 DEF HInv

(* A step that is about no job's sandboxes.                                *)
LEMMA HeldQuiet ==
    ASSUME Before, After, \A j \in Job : Calm(j) /\ RowEnds(j),
           UNCHANGED logged,
           \A w \in Worker : slot'[w] = slot[w] \/ SlotHolds(slot[w])',
           \A w \in Worker : rec'[w] = rec[w] \/ RecHolds(rec[w])',
           UNCHANGED call
    PROVE  HInv'
  <1>1. Effects({}) BY LoggedKept DEF Effects
  <1> QED BY <1>1, HeldFrom

LEMMA StepHInv == ASSUME NoLies, Answers, IInv, UInv, CInv, KInv, HInv, [Next]_vars PROVE HInv'
<1>b. Before BY DEF Before
<1>a. After BY NextIInv, StepUInv, StepCInv DEF After
<1>t. /\ SandboxesTypeOK /\ JobsType /\ WInv /\ rec \in [Worker -> RecState]
  BY RowsTyped DEF IInv, RInv, ReconcilersTypeOK
<1>u. up \in [Worker -> {"off", "up", "dead"}] /\ slot \in [Worker -> SlotState] BY <1>t DEF WInv, WorkersTypeOK
<1>s. UNCHANGED <<code, logged, jobs>> => \A j \in Job : Calm(j) /\ RowEnds(j)
  BY CalmSame, RowsStay
<1>1. ASSUME NEW w \in Worker, Start(w) PROVE HInv'
  <2>1. UNCHANGED <<code, logged, jobs>> /\ UNCHANGED slot /\ UNCHANGED call
    BY <1>1 DEF Start, modalVars, dbVars
  <2>2. rec'[w].pc = "reattach" /\ RecOthers(w) BY <1>1, <1>t DEF Start, RecGoto, RecState, RecOthers
  <2>3. RecHolds(rec[w])' BY <2>2 DEF RecHolds
  <2>4. \A v \in Worker : rec'[v] = rec[v] \/ RecHolds(rec[v])' BY <2>2, <2>3 DEF RecOthers
  <2> QED BY <1>b, <1>a, <1>s, <2>1, <2>4, HeldQuiet
<1>2. ASSUME NEW w \in Worker, Crash(w) PROVE HInv'
  <2>1. UNCHANGED <<code, logged, jobs>> /\ UNCHANGED call BY <1>2 DEF Crash, modalVars, dbVars
  <2>2. slot'[w].pc = "idle" /\ slot'[w].job = NoJob /\ SlotOthers(w)
    BY <1>2, <1>u DEF Crash, Release, IdleSlot, SlotOthers
  <2>3. SlotHolds(slot[w])' BY <2>2 DEF SlotHolds, Early, Ending
  <2>4. \A v \in Worker : slot'[v] = slot[v] \/ SlotHolds(slot[v])' BY <2>2, <2>3 DEF SlotOthers
  <2>5. rec'[w].pc = "off" /\ RecOthers(w) BY <1>2, <1>t DEF Crash, OffRec, RecOthers
  <2>6. RecHolds(rec[w])' BY <2>5 DEF RecHolds
  <2>7. \A v \in Worker : rec'[v] = rec[v] \/ RecHolds(rec[v])' BY <2>5, <2>6 DEF RecOthers
  <2> QED BY <1>b, <1>a, <1>s, <2>1, <2>4, <2>7, HeldQuiet
<1>3. ASSUME NEW w \in Worker, Slots(w) PROVE HInv'
  <2>1. SlotNext(w) /\ UNCHANGED rec /\ UNCHANGED call BY <1>3 DEF Slots, reconcilerVars, apiVars
  <2> QED BY <1>b, <1>a, <2>1, SlotHeldStep
<1>4. ASSUME NEW w \in Worker, Monitor(w) PROVE HInv'
  <2>1. UNCHANGED rec /\ UNCHANGED call BY <1>4 DEF Monitor, reconcilerVars, apiVars
  <2>2. CASE NoticeCancel(w)
    <3>1. UNCHANGED <<code, logged, jobs>> /\ UNCHANGED up BY <2>2 DEF NoticeCancel, modalVars, dbVars
    <3>2. /\ SlotOthers(w) /\ slot'[w].pc = slot[w].pc /\ slot'[w].job = slot[w].job
          /\ slot'[w].todo = slot[w].todo /\ slot'[w].next = slot[w].next
      BY <1>u, <2>2 DEF NoticeCancel, SlotState, SlotOthers
    <3>3. SlotHolds(slot[w]) /\ UNCHANGED modalVars /\ UNCHANGED registered
      BY <2>2 DEF HInv, NoticeCancel, dbVars
    <3>4. SlotHolds(slot[w])'
      BY <3>1, <3>2, <3>3
      DEF SlotHolds, Running, StatusOf, Placed, Down, Known, ServerUp, modalVars
    <3>5. \A v \in Worker : slot'[v] = slot[v] \/ SlotHolds(slot[v])' BY <3>2, <3>4 DEF SlotOthers
    <3> QED BY <1>b, <1>a, <1>s, <2>1, <3>1, <3>5, HeldQuiet
  <2>3. CASE Beat(w)
    <3>1. UNCHANGED code /\ UNCHANGED logged /\ UNCHANGED workerVars BY <2>3 DEF Beat, modalVars
    <3>2. \A j \in Job : jobs'[j].status = jobs[j].status /\ jobs'[j].result = jobs[j].result
      BY <1>t, <2>3 DEF Beat, Heartbeat, JobsType, Row
    <3>3. \A j \in Job : Calm(j) /\ RowEnds(j) BY <3>1, <3>2, CalmSame, RowsStay
    <3> QED BY <1>b, <1>a, <2>1, <3>1, <3>3, HeldQuiet DEF workerVars
  <2> QED BY <1>4, <2>2, <2>3 DEF Monitor, MonitorNext
<1>5. ASSUME NEW w \in Worker, Reconcile(w) PROVE HInv'
  <2>1. RecNext(w) /\ UNCHANGED call BY <1>5 DEF Reconcile, apiVars
  <2> QED BY <1>b, <1>a, <2>1, RecHeldStep
<1>6. ASSUME NEW j \in Job, Submitted(j) \/ Ages(j) PROVE HInv'
  <2>1. /\ UNCHANGED code /\ UNCHANGED logged /\ UNCHANGED workerVars /\ UNCHANGED rec /\ UNCHANGED call
    BY <1>6 DEF Submitted, Submit, Ages, Age, modalVars, reconcilerVars, apiVars
  <2>2. CASE Submitted(j)
    <3>1. jobs' = [jobs EXCEPT ![j].status = "queued", ![j].created = clock] /\ InQueue(jobs[j].status)
      BY <2>2 DEF Submitted, Submit, Insert, StatusOf, InQueue
    <3>2. jobs'[j].status = "queued" /\ jobs'[j].result = jobs[j].result
      BY <1>t, <3>1 DEF JobsType, Row
    <3>3. \A i \in Job \ {j} : jobs'[i] = jobs[i] BY <1>t, <3>1 DEF JobsType
    <3>4. RowEnds(j) BY <3>1, <3>2 DEF RowEnds
    <3>5. \A i \in Job : RowEnds(i) BY <3>3, <3>4 DEF RowEnds
    <3>6. \A i \in Job : Calm(i) BY <2>1, CalmSame
    <3> QED BY <1>b, <1>a, <2>1, <3>5, <3>6, HeldQuiet DEF workerVars
  <2>3. CASE Ages(j)
    <3>1. \A i \in Job : jobs'[i].status = jobs[i].status /\ jobs'[i].result = jobs[i].result
      BY <1>t, <2>3 DEF Ages, Age, JobsType, Row
    <3>2. \A i \in Job : Calm(i) /\ RowEnds(i) BY <2>1, <3>1, CalmSame, RowsStay
    <3> QED BY <1>b, <1>a, <2>1, <3>2, HeldQuiet DEF workerVars
  <2> QED BY <1>6, <2>2, <2>3
<1>7. ASSUME NEW c \in Call, Cancelling(c) \/ Stopping(c) \/ RequestDies(c) PROVE HInv'
  <2>1. /\ CancelNext(c) \/ StopNext(c) \/ FinishNext(c) \/ CallDies(c)
        /\ UNCHANGED workerVars /\ UNCHANGED rec
    BY <1>7 DEF Cancelling, Stopping, RequestDies, reconcilerVars
  <2> QED BY <1>b, <1>a, <2>1, CallHeldStep
<1>8. ASSUME Modal PROVE HInv'
  <2>1. /\ UNCHANGED logged /\ UNCHANGED jobs /\ UNCHANGED workerVars /\ UNCHANGED rec /\ UNCHANGED call
    BY <1>8 DEF Modal, dbVars, reconcilerVars, apiVars
  <2>2. \A s \in Sandbox : code'[s] = code[s] \/ (code[s] = "running" /\ code'[s] \in {"exit1", "exit124"})
    BY <1>8, <1>t DEF Modal, SandboxesNext, AgentReady, AgentExits, LifetimeOver, ServerFails,
                      SandboxFails, LifetimeCap, SandboxesTypeOK, Running
  <2>3. \A j \in Job : Calm(j) BY <2>1, <2>2, SandboxNames DEF Calm
  <2>4. \A j \in Job : RowEnds(j) BY <2>1, RowsStay
  <2> QED BY <1>b, <1>a, <2>1, <2>3, <2>4, HeldQuiet DEF workerVars
<1>9. ASSUME UNCHANGED vars PROVE HInv'
  <2>1. UNCHANGED <<code, logged, jobs>> /\ UNCHANGED workerVars /\ UNCHANGED rec /\ UNCHANGED call
    BY <1>9 DEF vars, modalVars, dbVars, reconcilerVars, apiVars
  <2> QED BY <1>b, <1>a, <1>s, <2>1, HeldQuiet DEF workerVars
<1> QED
  BY <1>1, <1>2, <1>3, <1>4, <1>5, <1>6, <1>7, <1>8, <1>9 DEF Next, Call

LEMMA HeldAlways == ASSUME NoLies, Answers PROVE Spec => [](IInv /\ UInv /\ HInv)
  <1>1. Init => HInv BY InitHInv
  <1>2. IInv /\ UInv /\ CInv /\ KInv /\ HInv /\ [Next]_vars => HInv' BY StepHInv
  <1> QED BY <1>1, <1>2, KillsAlways, PTL DEF Spec, NoLies

(* A sandbox that runs and whose id was logged has somebody who will end   *)
(* it (_execute, reap_stale, a reconciler's tick or a user), or ends by    *)
(* itself; with any number of jobs, groups, workers and requests, crashes, *)
(* dying requests and abandoned ticks.                                     *)
THEOREM NothingIsLost == ASSUME NoLies, Answers PROVE Spec => []NoLostSandbox
  <1>1. ASSUME IInv, UInv, HInv PROVE NoLostSandbox
    <2> SUFFICES ASSUME NEW s \in logged, Running(s), ~Held(s) PROVE FALSE
      BY DEF NoLostSandbox
    <2>1. PICK j \in Job, k \in Role : s = <<j, k>> BY <1>1 DEF IInv, StoreTypeOK, Sandbox
    <2>2. s[1] = j /\ s \in LoggedOf(j) BY <2>1 DEF LoggedOf, SandboxesOf
    <2>3. JobHolds(j) BY <1>1 DEF HInv
    <2>4. StatusOf(j) # "running" BY <2>2 DEF Held
    <2>5. jobs[j].result BY <2>2, <2>3, <2>4 DEF JobHolds
    <2>6. j \in ready /\ code[EngineSandbox(j)] # "unborn" BY <1>1, <2>5 DEF UInv, ResultInv, ReadyInv
    <2>7. s = EngineSandbox(j) BY <2>1, <2>3, <2>6 DEF JobHolds, Role, PrepSandbox, EngineSandbox
    <2>8. ASSUME NEW e \in EnginesOf(j) PROVE e \notin servers
      <3>1. SandboxOf(e) = s BY <2>7, <2>8 DEF SandboxOf, EnginesOf
      <3>2. e \notin registered BY <3>1 DEF Held, RegisteredSandboxes
      <3>3. Down(e) BY <2>3, <2>5, <3>2 DEF JobHolds, Placed
      <3> QED BY <3>1, <3>3 DEF Down, ServerUp
    <2> QED BY <2>2, <2>6, <2>7, <2>8 DEF Held
  <1> QED BY <1>1, HeldAlways, PTL
=============================================================================

---------------------------- MODULE BenchProofs ----------------------------
(***************************************************************************)
(* Proofs about a bench job (Bench, BenchRunner), for any number of        *)
(* trials, attempts and GPU groups, any download modes, and every          *)
(* exception, cancel, lost sandbox and death of the worker: one sandbox at *)
(* a time, nothing left behind, rows only for what was measured, servers   *)
(* stopped.                                                                *)
(***************************************************************************)
EXTENDS Bench, TLAPS

(* Where _trial has its GPU sandbox.                                       *)
Measuring == {"probe", "fetch", "exec", "read", "wait", "summary", "terminate"}

(* A trial is under way, unless the matrix is between two or over; and the *)
(* job has a status only then.                                             *)
PlaceOK ==
    /\ at \notin {"loop", "over"} => trial \in Trial
    /\ at = "over" <=> verdict # "running"

(* What the runner has started, and what its finally clause has stopped.   *)
RunnerOK ==
    /\ runner.pc \in {"off", "prep", "infra"} => \A g \in Group : runner.server[g] = "none"
    /\ runner.raised => runner.pc \in {"unwind", "failed"}
    /\ ServersStopped

(* The runner is not there before it is started; a summary that was heard  *)
(* of is one.                                                              *)
WordOK ==
    /\ at \in {"loop", "volume", "prep", "prepare", "create", "probe", "fetch", "exec"} => RunnerAt("off")
    /\ at \in {"wait", "summary"} /\ call.heard => RunnerAt("done")
    /\ RowsAreTrue

(* The one sandbox with an event, by the place of the slot's thread.       *)
BoxesOK ==
    /\ Sequential
    /\ at # "over" => \A b \in Up \ lost : (b = Prep /\ at = "prepare") \/ (b = Gpu /\ at \in Measuring)

(* A temporary volume is there only in its trial.                          *)
VolumesOK ==
    \A t \in Trial : volume[t] = "there" =>
        \/ verdict = "interrupted"
        \/ t = trial /\ at \in {"prep", "prepare", "create", "delete"} \cup Measuring

(* The inductive invariant.                                                *)
BenchInv == TypeOK /\ PlaceOK /\ RunnerOK /\ WordOK /\ BoxesOK /\ VolumesOK /\ NothingLeft

-----------------------------------------------------------------------------
(* The runner                                                              *)

(* A step of the runner keeps what it has started and stopped in order.    *)
LEMMA RunnerStep ==
    ASSUME runner \in RunnerState, RunnerOK, RunnerNext
    PROVE  /\ runner' \in RunnerState /\ RunnerOK'
           /\ runner.pc \notin {"off", "done", "failed"} /\ runner'.pc # "off"
           /\ runner.pc = "print" => runner'.pc = "done"
<1> DEFINE r == runner
<1> USE DEF RunnerAt, RunnerGoes
<1>g. ASSUME NEW pc \in {"failed", "load", "summary", "print", "done"}, r' = [r EXCEPT !.pc = pc],
             ~r.raised, r.pc # "off", r.pc = "print" <=> pc = "done", r.pc \notin {"done", "failed"},
             pc # "load" /\ (\E g \in Group : r.server[g] # "none")
                => ~r.sampler /\ r.infra = {} /\ \A g \in Group : r.server[g] # "up"
      PROVE  runner' \in RunnerState /\ RunnerOK' /\ r'.pc = pc
  <2>1. r' \in RunnerState /\ r'.pc = pc /\ r'.raised = r.raised /\ r'.sampler = r.sampler
        /\ r'.infra = r.infra /\ r'.server = r.server
    BY <1>g DEF RunnerState
  <2> QED BY <1>g, <2>1 DEF RunnerOK, ServersStopped
<1>1. CASE RunnerPrep
  <2>1. CASE r' = [r EXCEPT !.pc = "failed"]
    BY <1>1, <1>g, <2>1 DEF RunnerPrep, RunnerOK
  <2>2. CASE \E pc \in {"infra", "launch"} : r' = [r EXCEPT !.pc = pc, !.sampler = TRUE]
    <3>1. r' \in RunnerState /\ r'.pc \in {"infra", "launch"} /\ r'.raised = r.raised /\ r'.server = r.server
      BY <2>2 DEF RunnerState
    <3> QED BY <1>1, <3>1 DEF RunnerPrep, RunnerOK, ServersStopped
  <2> QED BY <1>1, <2>1, <2>2 DEF RunnerPrep
<1>11. CASE StartMx
  <2>1. PICK pc \in {"launch", "failed"}, left \in SUBSET {"redis", "mx"} :
          r' = [r EXCEPT !.pc = pc, !.infra = left]
    BY <1>11 DEF StartMx
  <2>2. r.pc = "infra" /\ ~r.raised /\ \A g \in Group : r.server[g] = "none"
    BY <1>11 DEF StartMx, RunnerOK
  <2>3. r' \in RunnerState /\ r'.pc = pc /\ r'.raised = r.raised /\ r'.server = r.server
    BY <2>1 DEF RunnerState
  <2> QED BY <2>2, <2>3 DEF RunnerOK, ServersStopped
<1>2. CASE \E g \in Group : Launch(g)
  <2>1. r' \in RunnerState /\ r.pc = "launch" /\ r'.pc = "launch" /\ r'.raised = r.raised
    BY <1>2 DEF Launch, RunnerState
  <2> QED BY <2>1 DEF RunnerOK, ServersStopped
<1>3. CASE LaunchJoined
  <2>1. CASE r' = [r EXCEPT !.pc = "load"]
    BY <1>3, <1>g, <2>1 DEF LaunchJoined, RunnerOK
  <2>2. CASE r' = [r EXCEPT !.pc = "unwind", !.raised = TRUE]
    <3>1. r' \in RunnerState /\ r'.pc = "unwind"
      BY <2>2 DEF RunnerState
    <3> QED BY <1>3, <3>1 DEF LaunchJoined, RunnerOK, ServersStopped
  <2> QED BY <1>3, <2>1, <2>2 DEF LaunchJoined
<1>4. CASE Load
  <2>1. r' \in RunnerState /\ r.pc = "load" /\ r'.pc = "unwind"
    BY <1>4 DEF Load, RunnerState
  <2> QED BY <2>1 DEF RunnerOK, ServersStopped
<1>5. CASE Unwind
  <2> DEFINE stopped == [g \in Group |-> IF r.server[g] = "up" THEN "stopped" ELSE r.server[g]]
             pc == IF r.raised THEN "failed" ELSE "save"
  <2>1. stopped \in [Group -> {"none", "up", "exited", "stuck", "stopped"}] /\ \A g \in Group : stopped[g] # "up"
    <3>1. r.server \in [Group -> {"none", "up", "exited", "stuck", "stopped"}]
      BY DEF RunnerState
    <3> QED BY <3>1
  <2>2. r' = [r EXCEPT !.pc = pc, !.sampler = FALSE, !.infra = {}, !.server = stopped] /\ r.pc = "unwind"
    BY <1>5 DEF Unwind
  <2>3. pc \in {"failed", "save"} /\ (r.raised => pc = "failed")
    OBVIOUS
  <2> HIDE DEF stopped, pc
  <2>4. r' \in RunnerState /\ r'.pc = pc /\ r'.raised = r.raised /\ ~r'.sampler /\ r'.infra = {} /\ r'.server = stopped
    BY <2>1, <2>2, <2>3 DEF RunnerState
  <2> QED BY <2>1, <2>2, <2>3, <2>4 DEF RunnerOK, ServersStopped
<1>6. CASE SaveCache
  <2>1. PICK pc \in {"summary", "failed"} : r' = [r EXCEPT !.pc = pc]
    BY <1>6 DEF SaveCache
  <2>2. r.pc = "save" /\ ~r.raised
        /\ ((\E g \in Group : r.server[g] # "none") => ~r.sampler /\ r.infra = {} /\ \A g \in Group : r.server[g] # "up")
    <3>1. r.pc = "save"
      BY <1>6 DEF SaveCache
    <3> QED BY <3>1 DEF RunnerOK, ServersStopped
  <2>3. r'.pc \in {"summary", "failed"} /\ runner' \in RunnerState /\ RunnerOK'
    BY <1>g, <2>1, <2>2
  <2> QED BY <2>2, <2>3
<1>7. CASE WriteSummary \/ PrintSummary
  BY <1>7, <1>g DEF WriteSummary, PrintSummary, RunnerOK, ServersStopped
<1> QED BY <1>1, <1>11, <1>2, <1>3, <1>4, <1>5, <1>6, <1>7 DEF RunnerNext

-----------------------------------------------------------------------------
(* Types and places                                                        *)

(* Termination takes sandboxes from those that are up, and adds none.      *)
LEMMA KilledAreDown ==
    ASSUME box \in [Box -> {"none", "up", "down"}], NEW gone, box' = Without(gone)
    PROVE  box' \in [Box -> {"none", "up", "down"}] /\ Up' = Up \ gone
BY DEF Without, Up

Most == IF Tries > Reads THEN Tries ELSE Reads

(* Everything but the runner, whose steps RunnerStep is about.             *)
PlaceType ==
    /\ at \in {"loop", "row", "over", "volume", "prep", "prepare", "create", "delete"} \cup Measuring
    /\ trial \in 1 .. (Trials + 1)
    /\ call \in [tries : 1 .. Most, failing : BOOLEAN, heard : BOOLEAN]
    /\ rows \in Seq({"ok", "failed"})
    /\ volume \in [Trial -> {"none", "there", "stray", "stuck"}]

BoxType ==
    /\ box \in [Box -> {"none", "up", "down"}]
    /\ known \subseteq Box /\ logged \subseteq Box /\ lost \subseteq Box

RestType ==
    /\ download \in {"none", "cpu", "gpu"}
    /\ cancel \in {"none", "requested", "killed"} /\ event \in BOOLEAN
    /\ verdict \in {"running", "succeeded", "failed", "cancelled", "interrupted"}

LEMMA TypeParts == TypeOK <=> PlaceType /\ BoxType /\ RestType /\ runner \in RunnerState
BY DEF TypeOK, PlaceType, BoxType, RestType, Measuring, Most

(* The place moves on, with an exception or without.                       *)
LEMMA PlaceStep ==
    ASSUME TypeOK, PlaceOK, Next
    PROVE  PlaceType' /\ PlaceOK'
<1> USE TrialsAssumption, TypeParts DEF PlaceType, RestType, Measuring, Trial
<1>m. Most \in Nat /\ Tries \in 1 .. Most /\ Reads \in 1 .. Most /\ 1 \in 1 .. Most
  BY DEF Most
<1>c. call.tries \in 1 .. Most /\ call.failing \in BOOLEAN /\ call.heard \in BOOLEAN
  OBVIOUS
<1>d. Calm \in [tries : 1 .. Most, failing : BOOLEAN, heard : BOOLEAN]
  BY <1>m DEF Calm
<1>r. ASSUME NEW pc, RaiseTo(pc), pc \in {"row", "delete", "terminate"}, trial \in Trial,
             verdict = "running", UNCHANGED <<volume, verdict>>
      PROVE  PlaceType' /\ PlaceOK'
  <2>1. call' \in [tries : 1 .. Most, failing : BOOLEAN, heard : BOOLEAN]
    BY <1>r DEF RaiseTo
  <2> QED BY <1>r, <2>1 DEF RaiseTo, Goto, PlaceOK
<1>g. ASSUME NEW pc, Goto(pc), trial \in Trial, verdict = "running",
             pc \in {"prep", "prepare", "create", "delete", "row", "volume"} \cup Measuring,
             call' \in [tries : 1 .. Most, failing : BOOLEAN, heard : BOOLEAN],
             volume' \in [Trial -> {"none", "there", "stray", "stuck"}], UNCHANGED verdict
      PROVE  PlaceType' /\ PlaceOK'
  BY <1>g DEF Goto, PlaceOK
<1>o. ASSUME Goto("over"), UNCHANGED <<call, volume>>, verdict' # "running"
      PROVE  PlaceType' /\ PlaceOK'
  BY <1>o DEF Goto, PlaceOK
<1>u. ASSUME UNCHANGED <<place, call, volume, verdict>>
      PROVE  PlaceType' /\ PlaceOK'
  BY <1>u DEF place, PlaceOK
<1>1. CASE MatrixEnds \/ RowLost \/ WorkerDies
  BY <1>1, <1>o DEF MatrixEnds, RowLost, WorkerDies, Returns, Raises
<1>2. CASE TrialStarts
  <2>1. trial \in Trial /\ at = "loop" /\ verdict = "running"
    BY <1>2 DEF TrialStarts, PlaceOK
  <2>2. [Calm EXCEPT !.failing = TRUE] \in [tries : 1 .. Most, failing : BOOLEAN, heard : BOOLEAN]
    BY <1>d
  <2>3. PICK pc \in {"create", "volume", "row"} :
          Goto(pc) /\ call' \in [tries : 1 .. Most, failing : BOOLEAN, heard : BOOLEAN]
    BY <1>2, <1>d, <2>2 DEF TrialStarts
  <2>4. UNCHANGED <<volume, verdict>>
    BY <1>2 DEF TrialStarts
  <2> QED BY <1>g, <2>1, <2>3, <2>4
<1>3. CASE RowAdded
  <2>1. trial \in Trial /\ verdict = "running"
    BY <1>3 DEF RowAdded, PlaceOK
  <2>2. rows' \in Seq({"ok", "failed"})
    BY <1>3 DEF RowAdded
  <2> QED BY <1>3, <2>1, <2>2 DEF RowAdded, PlaceOK
<1>4. CASE MakeVolume \/ StartPrep \/ PrepEnds \/ DeleteVolume
  <2>1. trial \in Trial /\ verdict = "running"
    BY <1>4 DEF MakeVolume, StartPrep, PrepEnds, DeleteVolume, PlaceOK
  <2>2. volume' \in [Trial -> {"none", "there", "stray", "stuck"}]
    BY <1>4 DEF MakeVolume, StartPrep, PrepEnds, DeleteVolume
  <2>3. CASE MakeVolume
    <3>1. CASE RaiseTo("row")
      <4>1. call' \in [tries : 1 .. Most, failing : BOOLEAN, heard : BOOLEAN]
        BY <3>1 DEF RaiseTo
      <4> QED BY <1>g, <2>1, <2>2, <2>3, <3>1, <4>1 DEF MakeVolume, RaiseTo
    <3>2. CASE UNCHANGED call
      BY <1>g, <2>1, <2>2, <2>3, <3>2 DEF MakeVolume, RaiseTo
    <3> QED BY <2>3, <3>1, <3>2 DEF MakeVolume
  <2>4. CASE StartPrep \/ PrepEnds
    BY <1>g, <1>r, <2>1, <2>4 DEF StartPrep, PrepEnds
  <2>5. CASE DeleteVolume
    <3>1. call' \in [tries : 1 .. Most, failing : BOOLEAN, heard : BOOLEAN]
      <4>1. call' = call \/ \E failing \in {call.failing, TRUE} : call' = [call EXCEPT !.failing = failing]
        BY <2>5 DEF DeleteVolume
      <4> QED BY <1>c, <4>1
    <3> QED BY <1>g, <2>1, <2>2, <2>5, <3>1 DEF DeleteVolume
  <2> QED BY <1>4, <2>3, <2>4, <2>5
<1>5. CASE CreateGpu
  <2>1. trial \in Trial /\ verdict = "running"
    BY <1>5 DEF CreateGpu, PlaceOK
  <2> QED BY <1>5, <1>d, <1>g, <1>r, <2>1 DEF CreateGpu
<1>6. CASE ExecAgain \/ SummaryAgain
  <2>1. PICK n \in 1 .. Most : call' = [call EXCEPT !.tries = n]
    <3>1. call.tries + 1 \in 1 .. Most
      BY <1>6, <1>c, <1>m DEF ExecAgain, SummaryAgain
    <3> QED BY <1>6, <3>1 DEF ExecAgain, SummaryAgain
  <2>2. call' \in [tries : 1 .. Most, failing : BOOLEAN, heard : BOOLEAN]
    BY <2>1
  <2> QED BY <1>6, <2>2 DEF ExecAgain, SummaryAgain, place, PlaceOK
<1>7. CASE ExecFails \/ Probed \/ Fetched \/ StartRunner
  <2>1. trial \in Trial /\ verdict = "running"
    BY <1>7 DEF ExecFails, Probed, Fetched, StartRunner, PlaceOK
  <2> QED BY <1>7, <1>d, <1>g, <1>r, <2>1 DEF ExecFails, Probed, Fetched, StartRunner
<1>8. CASE CancelSeen \/ WaitRunner \/ SummaryFound \/ SummaryMissing
  <2>1. trial \in Trial /\ verdict = "running"
    BY <1>8 DEF CancelSeen, WaitRunner, SummaryFound, SummaryMissing, PlaceOK
  <2> QED BY <1>8, <1>g, <1>r, <2>1 DEF CancelSeen, WaitRunner, SummaryFound, SummaryMissing
<1>9. CASE OutputEnds
  <2>1. trial \in Trial /\ verdict = "running"
    BY <1>9 DEF OutputEnds, PlaceOK
  <2>2. CASE RaiseTo("terminate")
    BY <1>9, <1>r, <2>1, <2>2 DEF OutputEnds
  <2>3. CASE Goto("wait") /\ \E heard \in BOOLEAN : call' = [call EXCEPT !.heard = heard]
    <3>1. call' \in [tries : 1 .. Most, failing : BOOLEAN, heard : BOOLEAN]
      BY <2>3
    <3> QED BY <1>9, <1>g, <2>1, <2>3, <3>1 DEF OutputEnds
  <2> QED BY <1>9, <2>2, <2>3 DEF OutputEnds, RunnerAt
<1>10. CASE Terminate
  <2>1. trial \in Trial /\ verdict = "running"
    BY <1>10 DEF Terminate, PlaceOK
  <2>2. call' \in [tries : 1 .. Most, failing : BOOLEAN, heard : BOOLEAN]
    <3>1. \E failing \in {call.failing, TRUE} : call' = [call EXCEPT !.failing = failing]
      BY <1>10 DEF Terminate, RaiseTo
    <3> QED BY <1>c, <3>1
  <2>3. Goto("delete") /\ UNCHANGED <<volume, verdict>>
    BY <1>10 DEF Terminate, RaiseTo
  <2> QED BY <1>g, <2>1, <2>2, <2>3
<1>11. CASE RequestCancel \/ KillLogged \/ Monitor \/ (\E b \in Box : BoxEnds(b)) \/ RunnerRuns
  BY <1>11, <1>u DEF RequestCancel, KillLogged, Monitor, BoxEnds, RunnerRuns
<1> QED
  BY <1>1, <1>2, <1>3, <1>4, <1>5, <1>6, <1>7, <1>8, <1>9, <1>10, <1>11 DEF Next, Driver

-----------------------------------------------------------------------------
(* Rows                                                                    *)

(* Only a summary that was written lets a trial go on without an           *)
(* exception.                                                              *)
LEMMA WordStep ==
    ASSUME TypeOK, RunnerOK, WordOK, Next
    PROVE  runner' \in RunnerState /\ RunnerOK' /\ WordOK'
<1> USE DEF RunnerAt
<1>0. /\ call \in [tries : 1 .. Most, failing : BOOLEAN, heard : BOOLEAN]
      /\ runner \in RunnerState
  BY TypeParts DEF PlaceType
<1>u. ASSUME UNCHANGED runner PROVE runner' \in RunnerState /\ RunnerOK'
  BY <1>0, <1>u DEF RunnerOK, ServersStopped
<1>r. ASSUME NEW pc, RaiseTo(pc), pc \in {"row", "delete", "terminate"}
      PROVE  WordOK'
  BY <1>0, <1>r DEF RaiseTo, Goto, WordOK, RowsAreTrue
<1>g. ASSUME NEW pc, Goto(pc), pc \in {"volume", "prep", "prepare", "create", "probe", "fetch", "exec"},
             at \in {"loop", "volume", "prep", "prepare", "create", "probe", "fetch"}, UNCHANGED runner
      PROVE  WordOK'
  BY <1>g DEF Goto, WordOK, RowsAreTrue
<1>k. ASSUME UNCHANGED <<at, runner>>, call'.heard = call.heard, call'.failing = call.failing
      PROVE  WordOK'
  BY <1>k DEF WordOK, RowsAreTrue
<1>1. CASE MatrixEnds \/ RowLost \/ WorkerDies
  <2>1. at' = "over" /\ UNCHANGED runner
    BY <1>1 DEF MatrixEnds, RowLost, WorkerDies, Goto
  <2>2. WordOK'
    BY <2>1 DEF WordOK, RowsAreTrue
  <2> QED BY <1>u, <2>1, <2>2
<1>2. CASE TrialStarts
  <2>1. UNCHANGED runner /\ at = "loop"
    BY <1>2 DEF TrialStarts
  <2>2. CASE \E pc \in {"create", "volume"} : Goto(pc)
    BY <1>g, <1>u, <2>1, <2>2
  <2>3. CASE Goto("row") /\ call' = [Calm EXCEPT !.failing = TRUE]
    <3>1. call'.failing /\ at' = "row"
      BY <2>3 DEF Calm, Goto
    <3>2. WordOK'
      BY <3>1 DEF WordOK, RowsAreTrue
    <3> QED BY <1>u, <2>1, <3>2
  <2> QED BY <1>2, <2>2, <2>3 DEF TrialStarts
<1>3. CASE RowAdded
  <2>1. runner' = NoRunner /\ at' = "loop"
    BY <1>3 DEF RowAdded
  <2>2. NoRunner \in RunnerState /\ NoRunner.pc = "off" /\ ~NoRunner.raised /\ ~NoRunner.sampler
        /\ \A g \in Group : NoRunner.server[g] = "none"
    BY DEF NoRunner, RunnerState
  <2> QED BY <2>1, <2>2 DEF RunnerOK, ServersStopped, WordOK, RowsAreTrue
<1>4. CASE MakeVolume \/ StartPrep \/ PrepEnds \/ CreateGpu \/ ExecFails \/ Probed \/ Fetched
           \/ CancelSeen \/ SummaryMissing
  <2>1. UNCHANGED runner
    BY <1>4 DEF MakeVolume, StartPrep, PrepEnds, CreateGpu, ExecFails, Probed, Fetched, CancelSeen, SummaryMissing
  <2>2. \/ \E pc \in {"row", "delete", "terminate"} : RaiseTo(pc)
        \/ /\ \E pc \in {"prep", "prepare", "create", "probe", "fetch", "exec"} : Goto(pc)
           /\ at \in {"volume", "prep", "prepare", "create", "probe", "fetch"}
    BY <1>4 DEF MakeVolume, StartPrep, PrepEnds, CreateGpu, ExecFails, Probed, Fetched, CancelSeen, SummaryMissing
  <2> QED BY <1>g, <1>r, <1>u, <2>1, <2>2
<1>5. CASE DeleteVolume
  <2>1. UNCHANGED runner /\ at = "delete" /\ at' = "row"
    BY <1>5 DEF DeleteVolume, Goto
  <2>2. call.failing => call'.failing
    BY <1>0, <1>5 DEF DeleteVolume
  <2>3. WordOK'
    BY <2>1, <2>2 DEF WordOK, RowsAreTrue
  <2> QED BY <1>u, <2>1, <2>3
<1>6. CASE ExecAgain \/ SummaryAgain
  <2>1. UNCHANGED <<at, runner>> /\ call' = [call EXCEPT !.tries = call.tries + 1]
    BY <1>6 DEF ExecAgain, SummaryAgain, place
  <2>2. call'.heard = call.heard /\ call'.failing = call.failing
    BY <1>0, <2>1
  <2> QED BY <1>k, <1>u, <2>1, <2>2
<1>7. CASE StartRunner
  <2>1. CASE RaiseTo("terminate") /\ UNCHANGED runner
    BY <1>r, <1>u, <2>1
  <2>2. CASE runner' = [runner EXCEPT !.pc = "prep"] /\ Goto("read")
    <3>1. runner.pc = "off"
      BY <1>7 DEF StartRunner, WordOK
    <3>2. runner' \in RunnerState /\ runner'.pc = "prep" /\ runner'.raised = runner.raised
          /\ runner'.server = runner.server
      BY <1>0, <2>2 DEF RunnerState
    <3> QED BY <2>2, <3>1, <3>2 DEF RunnerOK, ServersStopped, WordOK, RowsAreTrue, Goto
  <2> QED BY <1>7, <2>1, <2>2 DEF StartRunner
<1>8. CASE OutputEnds
  <2>1. UNCHANGED runner
    BY <1>8 DEF OutputEnds
  <2>2. CASE RaiseTo("terminate")
    BY <1>r, <1>u, <2>1, <2>2
  <2>3. CASE Goto("wait") /\ \E heard \in {FALSE, RunnerAt("done")} : call' = [call EXCEPT !.heard = heard]
    <3>1. at' = "wait" /\ (call'.heard => runner.pc = "done")
      BY <1>0, <2>3 DEF Goto
    <3>2. WordOK'
      BY <2>1, <3>1 DEF WordOK, RowsAreTrue
    <3> QED BY <1>u, <2>1, <3>2
  <2> QED BY <1>8, <2>2, <2>3 DEF OutputEnds
<1>9. CASE WaitRunner
  <2>1. UNCHANGED <<call, runner>> /\ at = "wait" /\ at' = "summary"
    BY <1>9 DEF WaitRunner, Goto
  <2>2. WordOK'
    BY <2>1 DEF WordOK, RowsAreTrue
  <2> QED BY <1>u, <2>1, <2>2
<1>10. CASE SummaryFound
  <2>1. UNCHANGED <<call, runner>> /\ at = "summary" /\ at' = "terminate" /\ runner.pc \in {"print", "done"}
    BY <1>10 DEF SummaryFound, Goto, WordOK
  <2>2. WordOK'
    BY <2>1 DEF WordOK, RowsAreTrue, RunnerOK
  <2> QED BY <1>u, <2>1, <2>2
<1>11. CASE Terminate
  <2>1. UNCHANGED runner /\ at = "terminate" /\ at' = "delete"
    BY <1>11 DEF Terminate, RaiseTo, Goto
  <2>2. call.failing => call'.failing
    <3>1. \E failing \in {call.failing, TRUE} : call' = [call EXCEPT !.failing = failing]
      BY <1>11 DEF Terminate, RaiseTo
    <3> QED BY <1>0, <3>1
  <2>3. WordOK'
    BY <2>1, <2>2 DEF WordOK, RowsAreTrue
  <2> QED BY <1>u, <2>1, <2>3
<1>12. CASE RequestCancel \/ KillLogged \/ Monitor \/ \E b \in Box : BoxEnds(b)
  <2>1. UNCHANGED <<at, call, runner>>
    BY <1>12 DEF RequestCancel, KillLogged, Monitor, BoxEnds, place
  <2> QED BY <1>k, <1>u, <2>1
<1>13. CASE RunnerRuns
  <2>1. RunnerNext /\ UNCHANGED <<at, call>>
    BY <1>13 DEF RunnerRuns, place
  <2>2. /\ runner' \in RunnerState /\ RunnerOK'
        /\ runner.pc \notin {"off", "done", "failed"}
        /\ runner.pc = "print" => runner'.pc = "done"
    BY <1>0, <2>1, RunnerStep
  <2>3. WordOK'
    BY <2>1, <2>2 DEF WordOK, RowsAreTrue, RunnerOK
  <2> QED BY <2>2, <2>3
<1> QED
  BY <1>1, <1>2, <1>3, <1>4, <1>5, <1>6, <1>7, <1>8, <1>9, <1>10, <1>11, <1>12, <1>13 DEF Next, Driver

-----------------------------------------------------------------------------
(* Sandboxes                                                               *)

(* A sandbox is created only when no other one with an event is up.        *)
LEMMA BoxStep ==
    ASSUME TypeOK, PlaceOK, BoxesOK, Next
    PROVE  BoxType' /\ BoxesOK'
<1> USE TypeParts DEF BoxType, Measuring
<1>0. at \in {"loop", "row", "over", "volume", "prep", "prepare", "create", "delete"} \cup Measuring
  BY DEF PlaceType
<1>e. at \notin {"prepare", "over"} \cup Measuring => Up \ lost = {}
  BY DEF BoxesOK
<1>b. at \notin {"loop", "over"} => Prep \in Box /\ Gpu \in Box /\ Prep # Gpu
  BY DEF PlaceOK, Box, Prep, Gpu
<1>up. UNCHANGED box => Up' = Up
  BY DEF Up
<1>s. ASSUME Up' \subseteq Up, UNCHANGED trial, lost \subseteq lost',
             at' = at \/ at' = "over" \/ (at \in Measuring /\ at' \in Measuring) \/ Up' \ lost' = {}
      PROVE  BoxesOK'
  <2>1. Sequential'
    BY <1>s DEF BoxesOK, Sequential
  <2>2. at' # "over" => \A b \in Up' \ lost' : (b = Prep' /\ at' = "prepare") \/ (b = Gpu' /\ at' \in Measuring)
    <3>1. Prep' = Prep /\ Gpu' = Gpu
      BY <1>s DEF Prep, Gpu
    <3>2. CASE Up' \ lost' = {}
      BY <1>s, <3>2
    <3>3. CASE at' = at \/ at' = "over" \/ (at \in Measuring /\ at' \in Measuring)
      <4>1. ASSUME at' # "over" PROVE at # "over" /\ (at' = at \/ (at \in Measuring /\ at' \in Measuring))
        BY <1>0, <3>3, <4>1 DEF PlaceOK
      <4>2. at # "over" => \A b \in Up' \ lost' : (b = Prep /\ at = "prepare") \/ (b = Gpu /\ at \in Measuring)
        BY <1>s DEF BoxesOK
      <4> QED BY <3>1, <4>1, <4>2
    <3> QED BY <1>s, <3>2, <3>3
  <2> QED BY <2>1, <2>2 DEF BoxesOK
<1>n. ASSUME NEW b \in Box, Up' \subseteq Up \cup {b}, UNCHANGED trial, lost \subseteq lost', Up \ lost = {},
             b \in lost' \/ (b = Prep /\ at' = "prepare") \/ (b = Gpu /\ at' \in Measuring)
      PROVE  BoxesOK'
  <2>1. Up' \ lost' \subseteq {b} \ lost'
    BY <1>n
  <2>2. Prep' = Prep /\ Gpu' = Gpu
    BY <1>n DEF Prep, Gpu
  <2>3. Sequential'
    BY <2>1 DEF Sequential
  <2> QED BY <1>n, <2>1, <2>2, <2>3 DEF BoxesOK
<1>1. CASE MatrixEnds \/ RowLost \/ WorkerDies
  <2>1. at' = "over" /\ UNCHANGED <<trial, lost, known, logged>>
    BY <1>1 DEF MatrixEnds, RowLost, WorkerDies, Goto
  <2>2. \/ UNCHANGED box
        \/ \E gone : box' = Without(gone)
    BY <1>1 DEF MatrixEnds, RowLost, WorkerDies, Returns, Raises
  <2>3. box' \in [Box -> {"none", "up", "down"}] /\ Up' \subseteq Up
    BY <1>up, <2>2, KilledAreDown
  <2>4. BoxesOK'
    BY <1>s, <2>1, <2>3
  <2> QED BY <2>1, <2>3, <2>4
<1>2. CASE RowAdded
  <2>1. UNCHANGED boxVars /\ at = "row"
    BY <1>2 DEF RowAdded
  <2>2. Up' = Up /\ Up \ lost = {} /\ UNCHANGED boxVars
    BY <1>e, <1>up, <2>1 DEF boxVars
  <2> QED BY <2>2 DEF boxVars, BoxesOK, Sequential
<1>3. CASE TrialStarts \/ MakeVolume \/ DeleteVolume
  <2>1. UNCHANGED <<trial, boxVars>> /\ at \notin {"prepare", "over"} \cup Measuring
    BY <1>3 DEF TrialStarts, MakeVolume, DeleteVolume, Goto, RaiseTo
  <2>2. UNCHANGED <<trial, lost, known, logged, box>> /\ Up' \ lost = {}
    BY <1>e, <1>up, <2>1 DEF boxVars
  <2> QED BY <1>s, <1>up, <2>2
<1>4. CASE StartPrep
  <2>1. box' = [box EXCEPT ![Prep] = "up"] /\ at = "prep" /\ UNCHANGED trial
    BY <1>4 DEF StartPrep, Goto, RaiseTo
  <2>2. box' \in [Box -> {"none", "up", "down"}] /\ Up' \subseteq Up \cup {Prep} /\ Prep \in Box /\ Up \ lost = {}
    BY <1>b, <1>e, <2>1 DEF Up
  <2>3. /\ known' \subseteq Box /\ logged' \subseteq Box /\ lost' \subseteq Box /\ lost \subseteq lost'
        /\ Prep \in lost' \/ at' = "prepare"
    BY <1>4, <2>2 DEF StartPrep, Goto, RaiseTo
  <2> QED BY <1>n, <2>1, <2>2, <2>3
<1>5. CASE PrepEnds \/ Terminate
  <2>1. at \in {"prepare", "terminate"} /\ UNCHANGED <<trial, known, logged>>
    BY <1>5 DEF PrepEnds, Terminate, Goto, RaiseTo
  <2>2. PICK b \in Box : /\ Up \ lost \subseteq {b}
                         /\ \/ box' = Without({b}) /\ UNCHANGED lost
                            \/ lost' = lost \cup ({b} \cap Up) /\ UNCHANGED box
    <3>1. CASE PrepEnds
      <4>1. Up \ lost \subseteq {Prep}
        BY <3>1 DEF PrepEnds, BoxesOK
      <4> QED BY <1>b, <3>1, <4>1 DEF PrepEnds
    <3>2. CASE Terminate
      <4>1. Up \ lost \subseteq {Gpu}
        BY <3>2 DEF Terminate, BoxesOK
      <4> QED BY <1>b, <3>2, <4>1 DEF Terminate
    <3> QED BY <1>5, <3>1, <3>2
  <2>3. CASE box' = Without({b}) /\ UNCHANGED lost
    <3>1. box' \in [Box -> {"none", "up", "down"}] /\ Up' = Up \ {b}
      BY <2>3, KilledAreDown
    <3> QED BY <1>s, <2>1, <2>2, <2>3, <3>1
  <2>4. CASE lost' = lost \cup ({b} \cap Up) /\ UNCHANGED box
    BY <1>s, <1>up, <2>1, <2>2, <2>4
  <2> QED BY <2>2, <2>3, <2>4
<1>6. CASE CreateGpu
  <2>1. at = "create" /\ UNCHANGED <<trial, known, logged>>
    BY <1>6 DEF CreateGpu, Goto, RaiseTo
  <2>2. Gpu \in Box /\ Up \ lost = {}
    BY <1>b, <1>e, <2>1
  <2>3. CASE box' = [box EXCEPT ![Gpu] = "up"]
    <3>1. box' \in [Box -> {"none", "up", "down"}] /\ Up' \subseteq Up \cup {Gpu}
      BY <2>2, <2>3 DEF Up
    <3>2. CASE Goto("probe") /\ UNCHANGED lost
      <4>1. at' = "probe"
        BY <3>2 DEF Goto
      <4> QED BY <1>n, <2>1, <2>2, <3>1, <3>2, <4>1
    <3>3. CASE lost' = lost \cup {Gpu}
      BY <1>n, <2>1, <2>2, <3>1, <3>3
    <3>4. CASE UNCHANGED <<box, lost>>
      BY <1>s, <1>up, <2>1, <2>2, <3>4
    <3> QED BY <1>6, <3>2, <3>3, <3>4 DEF CreateGpu
  <2>4. CASE UNCHANGED <<box, lost>>
    BY <1>s, <1>up, <2>1, <2>2, <2>4
  <2> QED BY <1>6, <2>3, <2>4 DEF CreateGpu
<1>7. CASE ExecAgain \/ ExecFails \/ Fetched \/ StartRunner \/ CancelSeen \/ OutputEnds
           \/ WaitRunner \/ SummaryFound \/ SummaryAgain \/ SummaryMissing
  <2>1. UNCHANGED <<trial, boxVars>> /\ at \in Measuring /\ at' \in Measuring
    BY <1>7 DEF ExecAgain, ExecFails, Fetched, StartRunner, CancelSeen, OutputEnds, WaitRunner,
                SummaryFound, SummaryAgain, SummaryMissing, Goto, RaiseTo, place
  <2> QED BY <1>s, <1>up, <2>1 DEF boxVars
<1>8. CASE Probed
  <2>1. UNCHANGED <<trial, box, lost>> /\ at = "probe" /\ at' \in Measuring
    BY <1>8 DEF Probed, Goto, RaiseTo
  <2>2. known' \subseteq Box /\ logged' \subseteq Box
    BY <1>8, <1>b, <2>1 DEF Probed
  <2> QED BY <1>s, <1>up, <2>1, <2>2
<1>9. CASE KillLogged \/ \E b \in Box : BoxEnds(b)
  <2>1. UNCHANGED <<at, trial, known, logged, lost>> /\ \E gone : box' = Without(gone)
    BY <1>9 DEF KillLogged, BoxEnds, place
  <2>2. box' \in [Box -> {"none", "up", "down"}] /\ Up' \subseteq Up
    BY <2>1, KilledAreDown
  <2>3. BoxesOK'
    BY <1>s, <2>1, <2>2
  <2> QED BY <2>1, <2>2, <2>3
<1>10. CASE RequestCancel \/ Monitor \/ RunnerRuns
  <2>1. UNCHANGED <<at, trial, boxVars>>
    BY <1>10 DEF RequestCancel, Monitor, RunnerRuns, place
  <2>2. Up' = Up /\ UNCHANGED <<box, known, logged, lost>>
    BY <1>up, <2>1 DEF boxVars
  <2>3. BoxesOK'
    BY <1>s, <2>1, <2>2
  <2> QED BY <2>2, <2>3
<1> QED
  BY <1>1, <1>2, <1>3, <1>4, <1>5, <1>6, <1>7, <1>8, <1>9, <1>10 DEF Next, Driver

-----------------------------------------------------------------------------
(* What is left                                                            *)

(* After the end sandboxes only go down, and while the job runs the        *)
(* property says nothing: what counts is the step that ends it.            *)
LEMMA LeftStep ==
    ASSUME TypeOK, PlaceOK, BoxesOK, VolumesOK, NothingLeft, Next
    PROVE  VolumesOK' /\ NothingLeft'
<1> USE TypeParts DEF Measuring
<1>0. /\ at \in {"loop", "row", "over", "volume", "prep", "prepare", "create", "delete"} \cup Measuring
      /\ volume \in [Trial -> {"none", "there", "stray", "stuck"}]
      /\ box \in [Box -> {"none", "up", "down"}]
      /\ verdict \in {"running", "succeeded", "failed", "cancelled", "interrupted"}
  BY DEF PlaceType, BoxType, RestType
<1>l. at \in {"loop", "row"} => Up \subseteq lost /\ \A t \in Trial : volume[t] = "there" => verdict = "interrupted"
  BY DEF BoxesOK, VolumesOK
<1>r. at # "over" <=> verdict = "running"
  BY DEF PlaceOK
<1>v. ASSUME UNCHANGED <<volume, trial, verdict>>,
             \/ at' = at
             \/ at' \in {"prep", "prepare", "create", "delete"} \cup Measuring
             \/ at \notin {"prep", "prepare", "create", "delete"} \cup Measuring
      PROVE  VolumesOK'
  BY <1>v DEF VolumesOK
<1>g. ASSUME verdict = "running", UNCHANGED verdict PROVE NothingLeft'
  BY <1>g DEF NothingLeft
<1>s. ASSUME Up' \subseteq Up, UNCHANGED <<lost, known, logged, volume, verdict>> PROVE NothingLeft'
  BY <1>s DEF NothingLeft
<1>1. CASE MatrixEnds \/ RowLost
  <2>1. /\ at \in {"loop", "row"} /\ at' = "over" /\ UNCHANGED <<trial, volume, known, logged, lost>>
        /\ Returns \/ Raises
    BY <1>1 DEF MatrixEnds, RowLost, Goto
  <2>2. /\ verdict' \in {"succeeded", "failed", "cancelled"}
        /\ UNCHANGED box \/ \E gone : box' = Without(gone)
        /\ verdict' = "failed" => box' = Without(known)
    BY <2>1 DEF Returns, Raises
  <2>3. Up' \subseteq Up /\ (verdict' = "failed" => Up' = Up \ known)
    <3>1. UNCHANGED box => Up' = Up
      BY DEF Up
    <3> QED BY <1>0, <2>2, <3>1, KilledAreDown
  <2>4. Up \subseteq lost /\ \A t \in Trial : volume[t] # "there"
    BY <1>l, <1>r, <2>1
  <2>5. NothingLeft'
    BY <2>1, <2>2, <2>3, <2>4 DEF NothingLeft
  <2>6. VolumesOK'
    BY <2>1, <2>4 DEF VolumesOK
  <2> QED BY <2>5, <2>6
<1>2. CASE WorkerDies
  <2>1. verdict' = "interrupted" /\ box' = Without(logged) /\ UNCHANGED <<volume, logged>>
    BY <1>2 DEF WorkerDies
  <2>2. Up' = Up \ logged
    BY <1>0, <2>1, KilledAreDown
  <2> QED BY <2>1, <2>2 DEF NothingLeft, VolumesOK
<1>3. CASE RowAdded
  <2>1. at = "row" /\ at' = "loop" /\ UNCHANGED <<volume, verdict>>
    BY <1>3 DEF RowAdded
  <2>2. VolumesOK'
    BY <1>l, <2>1 DEF VolumesOK
  <2> QED BY <1>g, <1>r, <2>1, <2>2
<1>4. CASE TrialStarts \/ StartPrep \/ PrepEnds \/ CreateGpu \/ ExecFails \/ Probed \/ Fetched \/ StartRunner
           \/ CancelSeen \/ OutputEnds \/ WaitRunner \/ SummaryFound \/ SummaryMissing \/ Terminate
  <2>1. /\ UNCHANGED <<volume, trial, verdict>> /\ at # "over"
        /\ at = "loop" \/ at' \in {"prep", "prepare", "create", "delete"} \cup Measuring
    BY <1>4 DEF TrialStarts, StartPrep, PrepEnds, CreateGpu, ExecFails, Probed, Fetched, StartRunner,
                CancelSeen, OutputEnds, WaitRunner, SummaryFound, SummaryMissing, Terminate, Goto, RaiseTo
  <2>2. VolumesOK'
    BY <1>v, <2>1
  <2> QED BY <1>g, <1>r, <2>1, <2>2
<1>5. CASE MakeVolume
  <2>1. at = "volume" /\ UNCHANGED <<trial, verdict>>
    BY <1>5 DEF MakeVolume, Goto, RaiseTo
  <2>2. \A t \in Trial : volume'[t] = "there" => t = trial /\ at' \in {"prep", "create"}
    <3>1. \A t \in Trial : volume[t] # "there"
      BY <1>r, <2>1 DEF VolumesOK
    <3>2. CASE volume' = [volume EXCEPT ![trial] = "there"] /\ Goto(IF download = "cpu" THEN "prep" ELSE "create")
      BY <1>0, <3>1, <3>2 DEF Goto
    <3>3. CASE volume' = [volume EXCEPT ![trial] = "stray"]
      BY <1>0, <3>1, <3>3
    <3> QED BY <1>5, <3>2, <3>3 DEF MakeVolume
  <2>3. VolumesOK'
    BY <2>1, <2>2 DEF VolumesOK
  <2> QED BY <1>g, <1>r, <2>1, <2>3
<1>6. CASE DeleteVolume
  <2>1. at = "delete" /\ UNCHANGED <<trial, verdict>>
    BY <1>6 DEF DeleteVolume, Goto
  <2>2. \A t \in Trial : volume'[t] # "there"
    <3>1. \A t \in Trial : volume[t] = "there" => t = trial
      BY <1>r, <2>1 DEF VolumesOK
    <3> QED BY <1>0, <1>6, <3>1 DEF DeleteVolume
  <2>3. VolumesOK'
    BY <2>2 DEF VolumesOK
  <2> QED BY <1>g, <1>r, <2>1, <2>3
<1>7. CASE KillLogged \/ \E b \in Box : BoxEnds(b)
  <2>1. UNCHANGED <<at, trial, volume, verdict, known, logged, lost>> /\ \E gone : box' = Without(gone)
    BY <1>7 DEF KillLogged, BoxEnds, place
  <2>2. Up' \subseteq Up
    BY <1>0, <2>1, KilledAreDown
  <2> QED BY <1>s, <1>v, <2>1, <2>2
<1>8. CASE ExecAgain \/ SummaryAgain \/ RequestCancel \/ Monitor \/ RunnerRuns
  <2>1. UNCHANGED <<at, trial, volume, verdict, boxVars>>
    BY <1>8 DEF ExecAgain, SummaryAgain, RequestCancel, Monitor, RunnerRuns, place
  <2>2. Up' = Up /\ UNCHANGED <<known, logged, lost>>
    BY <2>1 DEF boxVars, Up
  <2> QED BY <1>s, <1>v, <2>1, <2>2
<1> QED
  BY <1>1, <1>2, <1>3, <1>4, <1>5, <1>6, <1>7, <1>8 DEF Next, Driver

-----------------------------------------------------------------------------
(* All of it together                                                      *)

(* Modes, cancels and statuses keep their type.                            *)
LEMMA RestStep ==
    ASSUME TypeOK, Next
    PROVE  RestType'
<1> USE TypeParts DEF RestType
<1>1. UNCHANGED download
  BY DEF Next, Driver, MatrixEnds, RowLost, TrialStarts, RowAdded, MakeVolume, StartPrep, PrepEnds, DeleteVolume,
         CreateGpu, ExecAgain, ExecFails, Probed, Fetched, StartRunner, CancelSeen, OutputEnds, WaitRunner,
         SummaryFound, SummaryAgain, SummaryMissing, Terminate, RunnerRuns, RequestCancel, KillLogged, Monitor,
         BoxEnds, WorkerDies
<1>2. UNCHANGED verdict \/ verdict' \in {"succeeded", "failed", "cancelled", "interrupted"}
  BY DEF Next, Driver, MatrixEnds, RowLost, TrialStarts, RowAdded, MakeVolume, StartPrep, PrepEnds, DeleteVolume,
         CreateGpu, ExecAgain, ExecFails, Probed, Fetched, StartRunner, CancelSeen, OutputEnds, WaitRunner,
         SummaryFound, SummaryAgain, SummaryMissing, Terminate, RunnerRuns, RequestCancel, KillLogged, Monitor,
         BoxEnds, WorkerDies, Returns, Raises
<1>3. /\ UNCHANGED cancel \/ cancel' \in {"requested", "killed"}
      /\ UNCHANGED event \/ event' = TRUE
  BY DEF Next, Driver, MatrixEnds, RowLost, TrialStarts, RowAdded, MakeVolume, StartPrep, PrepEnds, DeleteVolume,
         CreateGpu, ExecAgain, ExecFails, Probed, Fetched, StartRunner, CancelSeen, OutputEnds, WaitRunner,
         SummaryFound, SummaryAgain, SummaryMissing, Terminate, RunnerRuns, RequestCancel, KillLogged, Monitor,
         BoxEnds, WorkerDies, cancelVars
<1> QED BY <1>1, <1>2, <1>3

(* The first trial has not begun.                                          *)
LEMMA BenchInvInit == Init => BenchInv
<1> SUFFICES ASSUME Init PROVE BenchInv
  OBVIOUS
<1>1. /\ Most \in Nat \ {0} /\ Calm \in [tries : 1 .. Most, failing : BOOLEAN, heard : BOOLEAN]
      /\ 1 \in 1 .. (Trials + 1) /\ <<>> \in Seq({"ok", "failed"})
  BY TrialsAssumption DEF Most, Calm
<1>2. TypeOK
  <2>1. PlaceType /\ BoxType /\ RestType
    BY <1>1, DownloadsAssumption DEF Init, PlaceType, BoxType, RestType
  <2>2. runner \in RunnerState
    BY DEF Init, NoRunner, RunnerState
  <2> QED BY <2>1, <2>2, TypeParts
<1>3. Up = {}
  BY DEF Init, Up
<1>4. RunnerOK
  BY DEF Init, RunnerOK, ServersStopped, NoRunner
<1>5. PlaceOK /\ WordOK /\ BoxesOK /\ VolumesOK /\ NothingLeft
  BY <1>3 DEF Init, PlaceOK, WordOK, RowsAreTrue, RunnerAt, NoRunner, BoxesOK, Sequential, VolumesOK, NothingLeft
<1> QED BY <1>2, <1>4, <1>5 DEF BenchInv

(* Every step keeps its part, by the lemmas above.                         *)
LEMMA BenchInvStep == BenchInv /\ [Next]_vars => BenchInv'
<1> SUFFICES ASSUME BenchInv, [Next]_vars PROVE BenchInv'
  OBVIOUS
<1>1. CASE Next
  <2>1. runner' \in RunnerState /\ RunnerOK' /\ WordOK'
    BY <1>1, WordStep DEF BenchInv
  <2>2. PlaceType' /\ PlaceOK' /\ BoxType' /\ BoxesOK' /\ RestType' /\ VolumesOK' /\ NothingLeft'
    BY <1>1, PlaceStep, BoxStep, RestStep, LeftStep DEF BenchInv
  <2>3. TypeOK'
    BY <2>1, <2>2 DEF TypeOK, PlaceType, BoxType, RestType, Measuring, Most
  <2> QED BY <2>1, <2>2, <2>3 DEF BenchInv
<1>2. CASE UNCHANGED vars
  <2>1. UNCHANGED <<at, trial, rows, call, volume, box, known, logged, lost, download, cancel, event, verdict, runner>>
    BY <1>2 DEF vars, place, boxVars, cancelVars
  <2>2. TypeOK' /\ PlaceOK' /\ RunnerOK' /\ VolumesOK' /\ NothingLeft'
    BY <2>1 DEF BenchInv, TypeOK, PlaceOK, RunnerOK, ServersStopped, VolumesOK, NothingLeft, Up
  <2>3. WordOK' /\ BoxesOK'
    BY <2>1 DEF BenchInv, WordOK, RowsAreTrue, RunnerAt, BoxesOK, Sequential, Up, Prep, Gpu
  <2> QED BY <2>2, <2>3 DEF BenchInv
<1> QED BY <1>1, <1>2

(* So the invariant holds at all times.                                    *)
LEMMA BenchInvAlways == Spec => []BenchInv
BY BenchInvInit, BenchInvStep, PTL DEF Spec

-----------------------------------------------------------------------------
(* One sandbox at a time.                                                  *)
THEOREM OneSandbox == Spec => []Sequential
<1>1. BenchInv => Sequential
  BY DEF BenchInv, BoxesOK
<1> QED BY <1>1, BenchInvAlways, PTL

(* A job that has ended leaves nothing that it knew of.                    *)
THEOREM NothingStays == Spec => []NothingLeft
<1>1. BenchInv => NothingLeft
  BY DEF BenchInv
<1> QED BY <1>1, BenchInvAlways, PTL

(* A trial that counts was measured, and its summary written.              *)
THEOREM RowsWereMeasured == Spec => []RowsAreTrue
<1>1. BenchInv => RowsAreTrue
  BY DEF BenchInv, WordOK
<1> QED BY <1>1, BenchInvAlways, PTL

(* Once the runner has got to its launches, it stops all it has started.   *)
THEOREM RunnerStops == Spec => []ServersStopped
<1>1. BenchInv => ServersStopped
  BY DEF BenchInv, RunnerOK
<1> QED BY <1>1, BenchInvAlways, PTL

(* Types.                                                                  *)
THEOREM BenchTypes == Spec => []TypeOK
<1>1. BenchInv => TypeOK
  BY DEF BenchInv
<1> QED BY <1>1, BenchInvAlways, PTL
=============================================================================

------------------------------- MODULE Bench -------------------------------
(***************************************************************************)
(* A bench job: run_matrix, run_trial, _exec_text and _trial of            *)
(* src/fes/bench.py, from its claim to what JobWorker._execute makes of    *)
(* it.  Trials run one after the other, each with a temporary volume (if   *)
(* it is to download), a prep sandbox (if on a CPU) and a GPU sandbox in   *)
(* which BenchRunner runs.  A cancel, the end of a sandbox and the death   *)
(* of the worker may come at any point.                                    *)
(***************************************************************************)
EXTENDS BenchRunner, Sequences

CONSTANTS Trials,      \* approaches times repetitions
          Downloads,   \* the download modes looked at, of "none", "cpu", "gpu"
          Tries,       \* attempts of _exec_text: 3
          Reads        \* reads of the volume for a summary: 12

ASSUME TrialsAssumption == {Trials, Tries, Reads} \subseteq Nat \ {0}
ASSUME DownloadsAssumption == Downloads \subseteq {"none", "cpu", "gpu"}

Trial == 1 .. Trials
Box == {"prep", "gpu"} \X Trial

VARIABLES at,       \* where the slot's thread is
          trial,    \* the trial it is at
          call,     \* the attempt, an exception under way, the summary line seen
          rows,     \* how the trials before it went
          volume,   \* volume[t]: the temporary volume of trial t
          box,      \* the sandboxes
          known,    \* those in the worker's `sandboxes`
          logged,   \* those in the job's event log
          lost,     \* those whose first event could not be appended, or whose
                    \* terminate() raised
          download, \* the job's download mode
          cancel,   \* how far a cancel got
          event,    \* the in-process cancel event
          verdict   \* the job's status

place == <<at, trial, rows>>
boxVars == <<box, known, logged, lost>>
cancelVars == <<cancel, event>>
vars == <<place, call, volume, boxVars, download, cancelVars, verdict, runner>>

Calm == [tries |-> 1, failing |-> FALSE, heard |-> FALSE]

Init ==
    /\ at = "loop" /\ trial = 1 /\ rows = <<>> /\ call = Calm
    /\ volume = [t \in Trial |-> "none"]
    /\ box = [b \in Box |-> "none"] /\ known = {} /\ logged = {} /\ lost = {}
    /\ download \in Downloads
    /\ cancel = "none" /\ event = FALSE /\ verdict = "running"
    /\ runner = NoRunner

Prep == <<"prep", trial>>
Gpu == <<"gpu", trial>>
Up == {b \in Box : box[b] = "up"}
Without(gone) == [b \in Box |-> IF b \in gone \cap Up THEN "down" ELSE box[b]]

Goto(pc) == at' = pc /\ UNCHANGED <<trial, rows>>
(* An exception: it ends in the finally clause of _trial, before that in   *)
(* run_trial's, before that in run_matrix.                                 *)
RaiseTo(pc) == Goto(pc) /\ call' = [call EXCEPT !.failing = TRUE]

-----------------------------------------------------------------------------
(* run_matrix, and what _run and _execute make of its end                  *)

(* Without an exception a cancel ends in Cancelled, and in the clean-up.   *)
Returns ==
    IF event THEN verdict' = "cancelled" /\ box' = Without(known)
    ELSE verdict' = "succeeded" /\ UNCHANGED box

(* Faulty: no clean-up.                                                    *)
RaisesOnly == verdict' = (IF event THEN "cancelled" ELSE "failed") /\ UNCHANGED box

(* With one it is the other way round.                                     *)
Raises ==
    IF event THEN verdict' = "cancelled" /\ UNCHANGED box
    ELSE verdict' = "failed" /\ box' = Without(known)

MatrixEnds ==
    /\ at = "loop"
    /\ event \/ trial > Trials
    /\ Goto("over")
    /\ IF rows # <<>> /\ \A i \in DOMAIN rows : rows[i] = "failed" THEN Raises ELSE Returns
    /\ UNCHANGED <<call, volume, known, logged, lost, download, cancelVars, runner>>

(* emit("trial_started") may raise, as any emit may: it is an append.      *)
TrialStarts ==
    /\ at = "loop" /\ ~event /\ trial <= Trials
    /\ \/ Goto(IF download = "none" THEN "create" ELSE "volume") /\ call' = Calm
       \/ Goto("row") /\ call' = [Calm EXCEPT !.failing = TRUE]
    /\ UNCHANGED <<volume, boxVars, download, cancelVars, verdict, runner>>

RowAdded ==
    /\ at = "row"
    /\ rows' = Append(rows, IF call.failing THEN "failed" ELSE "ok")
    /\ trial' = trial + 1
    /\ at' = "loop"
    /\ runner' = NoRunner
    /\ UNCHANGED <<call, volume, boxVars, download, cancelVars, verdict>>

(* emit("trial_failed") raises out of run_matrix.                          *)
RowLost ==
    /\ at = "row" /\ call.failing
    /\ Goto("over")
    /\ Raises
    /\ UNCHANGED <<call, volume, known, logged, lost, download, cancelVars, runner>>

-----------------------------------------------------------------------------
(* run_trial: the temporary volume, and the download on a CPU              *)

(* An emit that raises after a creation and before the try that would undo *)
(* it: the volume stays.                                                   *)
MakeVolume ==
    /\ at = "volume"
    /\ \/ /\ volume' = [volume EXCEPT ![trial] = "there"]
          /\ Goto(IF download = "cpu" THEN "prep" ELSE "create")
          /\ UNCHANGED call
       \/ volume' = [volume EXCEPT ![trial] = "stray"] /\ RaiseTo("row")
    /\ UNCHANGED <<boxVars, download, cancelVars, verdict, runner>>

(* prepare_weights: emit notes the sandbox in the worker before it appends *)
(* the event.                                                              *)
StartPrep ==
    /\ at = "prep"
    /\ box' = [box EXCEPT ![Prep] = "up"] /\ known' = known \cup {Prep}
    /\ \/ logged' = logged \cup {Prep} /\ Goto("prepare") /\ UNCHANGED <<call, lost>>
       \/ lost' = lost \cup {Prep} /\ RaiseTo("delete") /\ UNCHANGED logged
    /\ UNCHANGED <<volume, download, cancelVars, verdict, runner>>

(* The download is complete, or not, or its sandbox is gone; the sandbox   *)
(* is terminated either way, unless terminate() raises.                    *)
PrepEnds ==
    /\ at = "prepare"
    /\ \/ Prep \in Up /\ Goto("create") /\ box' = Without({Prep}) /\ UNCHANGED <<call, lost>>
       \/ RaiseTo("delete") /\ box' = Without({Prep}) /\ UNCHANGED lost
       \/ RaiseTo("delete") /\ lost' = lost \cup ({Prep} \cap Up) /\ UNCHANGED box
    /\ UNCHANGED <<volume, known, logged, download, cancelVars, verdict, runner>>

(* finally of run_trial; a deletion that fails is logged and let go.  The  *)
(* logging may raise, and fails the trial.                                 *)
DeleteVolume ==
    /\ at = "delete"
    /\ IF volume[trial] = "there"
       THEN \E left \in {"none", "stuck"}, failing \in {call.failing, TRUE} :
               /\ volume' = [volume EXCEPT ![trial] = left]
               /\ call' = [call EXCEPT !.failing = failing]
       ELSE UNCHANGED <<volume, call>>
    /\ Goto("row")
    /\ UNCHANGED <<boxVars, download, cancelVars, verdict, runner>>

-----------------------------------------------------------------------------
(* _trial: the sandbox, and the commands before the measurement            *)

CreateGpu ==
    /\ at = "create"
    /\ \/ box' = [box EXCEPT ![Gpu] = "up"] /\ Goto("probe") /\ call' = Calm /\ UNCHANGED lost
       \/ box' = [box EXCEPT ![Gpu] = "up"] /\ lost' = lost \cup {Gpu} /\ RaiseTo("delete")
       \/ RaiseTo("delete") /\ UNCHANGED <<box, lost>>
    /\ UNCHANGED <<volume, known, logged, download, cancelVars, verdict, runner>>

(* Faulty: one attempt too many.                                           *)
ExecOnceMore ==
    /\ at \in {"probe", "fetch"} /\ call.tries <= Tries
    /\ call' = [call EXCEPT !.tries = @ + 1]
    /\ UNCHANGED <<place, volume, boxVars, download, cancelVars, verdict, runner>>

(* _exec_text: a lost output stream, and only that, is tried again.        *)
ExecAgain ==
    /\ at \in {"probe", "fetch"} /\ call.tries < Tries
    /\ call' = [call EXCEPT !.tries = @ + 1]
    /\ UNCHANGED <<place, volume, boxVars, download, cancelVars, verdict, runner>>

(* The last attempt, the end of the sandbox, a download with files missing.*)
ExecFails ==
    /\ at \in {"probe", "fetch"}
    /\ RaiseTo("terminate")
    /\ UNCHANGED <<volume, boxVars, download, cancelVars, verdict, runner>>

(* The container is up: only now the sandbox gets into the event log.      *)
Probed ==
    /\ at = "probe" /\ Gpu \in Up
    /\ known' = known \cup {Gpu}
    /\ \/ logged' = logged \cup {Gpu} /\ Goto(IF download = "gpu" THEN "fetch" ELSE "exec") /\ call' = Calm
       \/ RaiseTo("terminate") /\ UNCHANGED logged
    /\ UNCHANGED <<volume, box, lost, download, cancelVars, verdict, runner>>

Fetched ==
    /\ at = "fetch" /\ Gpu \in Up
    /\ Goto("exec")
    /\ UNCHANGED <<call, volume, boxVars, download, cancelVars, verdict, runner>>

StartRunner ==
    /\ at = "exec"
    /\ IF Gpu \in Up
       THEN runner' = [runner EXCEPT !.pc = "prep"] /\ Goto("read") /\ UNCHANGED call
       ELSE RaiseTo("terminate") /\ UNCHANGED runner
    /\ UNCHANGED <<volume, boxVars, download, cancelVars, verdict>>

-----------------------------------------------------------------------------
(* _trial: following the runner                                            *)

RunnerOver == ~RunnerLive \/ Gpu \notin Up

(* A line of output arrives: look at the cancel event.                     *)
CancelSeen ==
    /\ at = "read" /\ event /\ ~RunnerOver
    /\ RaiseTo("terminate")
    /\ UNCHANGED <<volume, boxVars, download, cancelVars, verdict, runner>>

(* The output ends with the runner, with the summary line or without one   *)
(* that can be read - or is lost, and the runner goes on.                  *)
OutputEnds ==
    /\ at = "read"
    /\ \E heard \in {FALSE, RunnerAt("done")} :
          IF event THEN RaiseTo("terminate") ELSE Goto("wait") /\ call' = [call EXCEPT !.heard = heard]
    /\ UNCHANGED <<volume, boxVars, download, cancelVars, verdict, runner>>

(* Faulty: waits for the runner's word.                                    *)
WaitForWord ==
    /\ at = "wait" /\ ~RunnerLive
    /\ Goto("summary")
    /\ UNCHANGED <<call, volume, boxVars, download, cancelVars, verdict, runner>>

(* p.wait: the process, or its sandbox, is over.                           *)
WaitRunner ==
    /\ at = "wait" /\ RunnerOver
    /\ Goto("summary")
    /\ UNCHANGED <<call, volume, boxVars, download, cancelVars, verdict, runner>>

(* The summary seen, or the copy on the volume, which may not be there yet.*)
SummaryFound ==
    /\ at = "summary"
    /\ call.heard \/ runner.pc \in {"print", "done"}
    /\ Goto("terminate")
    /\ UNCHANGED <<call, volume, boxVars, download, cancelVars, verdict, runner>>

SummaryAgain ==
    /\ at = "summary" /\ ~call.heard /\ call.tries < Reads
    /\ call' = [call EXCEPT !.tries = @ + 1]
    /\ UNCHANGED <<place, volume, boxVars, download, cancelVars, verdict, runner>>

(* Faulty: a trial without a summary is as good as one with it.            *)
SummaryOptional ==
    /\ at = "summary" /\ ~call.heard /\ call.tries = Reads
    /\ Goto("terminate")
    /\ UNCHANGED <<call, volume, boxVars, download, cancelVars, verdict, runner>>

SummaryMissing ==
    /\ at = "summary" /\ ~call.heard /\ call.tries = Reads
    /\ RaiseTo("terminate")
    /\ UNCHANGED <<volume, boxVars, download, cancelVars, verdict, runner>>

(* Faulty: not in a finally clause.                                        *)
TerminateIfDone ==
    /\ at = "terminate"
    /\ box' = IF call.failing THEN box ELSE Without({Gpu})
    /\ Goto("delete")
    /\ \E failing \in {call.failing, TRUE} : call' = [call EXCEPT !.failing = failing]
    /\ UNCHANGED <<volume, known, logged, lost, download, cancelVars, verdict, runner>>

(* finally of _trial, where terminate() may raise; then emit("trial_done"),*)
(* or the exception goes on.                                               *)
Terminate ==
    /\ at = "terminate"
    /\ \/ /\ box' = Without({Gpu}) /\ Goto("delete") /\ UNCHANGED lost
          /\ \E failing \in {call.failing, TRUE} : call' = [call EXCEPT !.failing = failing]
       \/ RaiseTo("delete") /\ lost' = lost \cup ({Gpu} \cap Up) /\ UNCHANGED box
    /\ UNCHANGED <<volume, known, logged, download, cancelVars, verdict, runner>>

-----------------------------------------------------------------------------
(* Around it                                                               *)

(* JobAPI.cancel: the flag, then the sandboxes of the event log.           *)
RequestCancel ==
    /\ cancel = "none" /\ at # "over"
    /\ cancel' = "requested"
    /\ UNCHANGED <<place, call, volume, boxVars, download, event, verdict, runner>>

KillLogged ==
    /\ cancel = "requested"
    /\ cancel' = "killed"
    /\ box' = Without(logged)
    /\ UNCHANGED <<place, call, volume, known, logged, lost, download, event, verdict, runner>>

(* The worker's monitor thread.                                            *)
Monitor ==
    /\ cancel # "none" /\ ~event /\ at # "over"
    /\ event' = TRUE
    /\ UNCHANGED <<place, call, volume, boxVars, download, cancel, verdict, runner>>

(* Modal: the lifetime of a sandbox is over, or its host is lost.          *)
BoxEnds(b) ==
    /\ b \in Up
    /\ box' = Without({b})
    /\ UNCHANGED <<place, call, volume, known, logged, lost, download, cancelVars, verdict, runner>>

(* The worker dies, and the reaper ends its job from the event log.        *)
WorkerDies ==
    /\ at # "over"
    /\ Goto("over")
    /\ verdict' = "interrupted"
    /\ box' = Without(logged)
    /\ UNCHANGED <<call, volume, known, logged, lost, download, cancelVars, runner>>

RunnerRuns ==
    /\ trial \in Trial /\ Gpu \in Up
    /\ RunnerNext
    /\ UNCHANGED <<place, call, volume, boxVars, download, cancelVars, verdict>>

Driver ==
    \/ MatrixEnds \/ TrialStarts \/ RowAdded \/ RowLost
    \/ MakeVolume \/ StartPrep \/ PrepEnds \/ DeleteVolume
    \/ CreateGpu \/ ExecAgain \/ ExecFails \/ Probed \/ Fetched \/ StartRunner
    \/ CancelSeen \/ OutputEnds \/ WaitRunner
    \/ SummaryFound \/ SummaryAgain \/ SummaryMissing \/ Terminate

Next ==
    \/ Driver \/ RunnerRuns
    \/ RequestCancel \/ KillLogged \/ Monitor
    \/ \E b \in Box : BoxEnds(b)
    \/ WorkerDies

(* The slot's thread, the monitor and the cancelling call get on; a        *)
(* sandbox does not outlive its timeout.  The runner may hang.             *)
Fairness ==
    /\ WF_vars(Driver) /\ WF_vars(KillLogged) /\ WF_vars(Monitor)
    /\ \A b \in Box : WF_vars(BoxEnds(b))

Spec == Init /\ [][Next]_vars
FairSpec == Spec /\ Fairness

-----------------------------------------------------------------------------
TypeOK ==
    /\ at \in {"loop", "volume", "prep", "prepare", "create", "probe", "fetch", "exec", "read",
               "wait", "summary", "terminate", "delete", "row", "over"}
    /\ trial \in 1 .. (Trials + 1)
    /\ call \in [tries : 1 .. (IF Tries > Reads THEN Tries ELSE Reads), failing : BOOLEAN, heard : BOOLEAN]
    /\ rows \in Seq({"ok", "failed"})
    /\ volume \in [Trial -> {"none", "there", "stray", "stuck"}]
    /\ box \in [Box -> {"none", "up", "down"}]
    /\ {known, logged, lost} \subseteq SUBSET Box
    /\ download \in {"none", "cpu", "gpu"}
    /\ cancel \in {"none", "requested", "killed"} /\ event \in BOOLEAN
    /\ verdict \in {"running", "succeeded", "failed", "cancelled", "interrupted"}
    /\ runner \in RunnerState

(* "Sequential on purpose": no two sandboxes of a job run at once, also    *)
(* when trials fail, are cancelled or lose their sandbox - except those    *)
(* whose first event could not be appended, or whose terminate() raised    *)
(* (they run on by themselves).                                            *)
Sequential == \A a, b \in Up \ lost : a = b

(* When the worker has ended the job, no sandbox it knew of is up: after a *)
(* failure none at all but a GPU sandbox with no event, otherwise only     *)
(* what lost its first event or raised at its termination.  After a crash  *)
(* what was logged is down.  A temporary volume is left only if it could   *)
(* not be deleted, or its creation could not be logged.                    *)
NothingLeft ==
    /\ verdict = "failed" => Up \subseteq lost \ known
    /\ verdict \in {"succeeded", "cancelled"} => Up \subseteq lost
    /\ verdict = "interrupted" => Up \cap logged = {}
    /\ verdict \notin {"running", "interrupted"} => \A t \in Trial : volume[t] # "there"

(* A trial counts only if its runner measured everything and wrote its     *)
(* summary, however the output stream and the sandbox ended meanwhile.     *)
RowsAreTrue ==
    at \in {"terminate", "delete", "row"} /\ ~call.failing => runner.pc \in {"print", "done"} /\ ~runner.raised

(* Once the runner has got to its launches, then however a launch or a     *)
(* request goes wrong, nothing of it runs on when it is over: neither the  *)
(* sampler nor Redis and its server, nor any engine that had come up.  (An *)
(* exception in start_mx leaves the sampler, and maybe Redis and its       *)
(* server, to the end of the sandbox.)                                     *)
ServersStopped ==
    /\ runner.pc \in {"save", "summary", "print", "done", "failed"}
    /\ \E g \in Group : runner.server[g] # "none"
    => ~runner.sampler /\ runner.infra = {} /\ \A g \in Group : runner.server[g] # "up"

(* A cancelled bench ends, even when the runner hangs in the middle.       *)
CancelEnds == cancel # "none" ~> at = "over"
=============================================================================

----------------------------- MODULE LaunchLog -----------------------------
(***************************************************************************)
(* What a launch leaves behind and what is made of it: the marks launch of *)
(* src/fes/engine/sglang_engine.py takes from SGLang's output, those       *)
(* parse_log of src/fes/dashboard.py takes from the same log later,        *)
(* build_launch's segments, and how long the wait for a host was, for      *)
(* execute of src/fes/scheduler.py and the Compare page.                   *)
(*                                                                         *)
(* A log is a sequence of phase names: the line at position t was printed  *)
(* at time t, by any of the ranks.  A line of no phase is "other"; of the  *)
(* CUDA graphs, older SGLang prints the lines "cuda_graph_begin" and       *)
(* "cuda_graph_end" only.                                                  *)
(***************************************************************************)
EXTENDS Integers, Sequences, FiniteSets, SequencesExt

CONSTANTS Boot, LongBoot   \* BOOT_S and SCHED_THRESHOLD_S: 5 and 15

Ends == {"dist_end", "load_end", "prefill_graph_end", "decode_graph_end"}
Phase == Ends \cup {"server_args", "dist_begin", "load_begin", "kv_alloc", "prefill_graph_begin", "decode_graph_begin",
                    "uvicorn", "fired_up"}

-----------------------------------------------------------------------------
(* The marks                                                               *)

Smaller(a, b) == IF a <= b THEN a ELSE b

Hits(log, phase) == {t \in DOMAIN log : log[t] = phase}
IsFirst(t, times) == \A u \in times : t <= u
IsLast(t, times) == \A u \in times : u <= t

(* launch, when the first request is done: a phase begins with the first   *)
(* rank and ends with the last.                                            *)
LaunchMarks(log) ==
    [phase \in {p \in Phase : Hits(log, p) # {}} |->
        CHOOSE t \in Hits(log, phase) : IF phase \in Ends THEN IsLast(t, Hits(log, phase)) ELSE IsFirst(t, Hits(log, phase))]

Mark(marks, name, t) == [m \in DOMAIN marks \cup {name} |-> IF m = name THEN t ELSE marks[m]]

(* Faulty: the first line of every phase.                                  *)
MarkFirst(marks, phase, t) == IF phase \in Phase \ DOMAIN marks THEN Mark(marks, phase, t) ELSE marks

(* Faulty: the last line of a begin, and the first of an end.              *)
MarkLastBegin(marks, phase, t) ==
    IF phase \in Phase /\ (phase \notin DOMAIN marks \/ phase \notin Ends) THEN Mark(marks, phase, t) ELSE marks

(* One line of parse_log.                                                  *)
MarkLine(marks, phase, t) ==
    IF phase \in Phase /\ (phase \notin DOMAIN marks \/ phase \in Ends) THEN Mark(marks, phase, t) ELSE marks

(* The patterns of the page know the old lines; launch's do not.           *)
ReadLine(line) ==
    IF line = "cuda_graph_begin" THEN "decode_graph_begin" ELSE IF line = "cuda_graph_end" THEN "decode_graph_end" ELSE line
Read(log) == [t \in DOMAIN log |-> ReadLine(log[t])]

NoMarks == [phase \in {} |-> 0]
MarksOf(lines) == FoldLeft(LAMBDA marks, t : MarkLine(marks, lines[t], t), NoMarks, [t \in 1 .. Len(lines) |-> t])
ParseLog(log) == MarksOf(Read(log))

-----------------------------------------------------------------------------
(* build_launch                                                            *)

Segments == {<<"spawn", "server_args", 1>>, <<"server_args", "dist_begin", 1>>, <<"dist_begin", "dist_end", 2>>,
             <<"dist_end", "load_begin", 5>>, <<"load_begin", "load_end", 3>>, <<"load_end", "prefill_graph_begin", 5>>,
             <<"prefill_graph_begin", "prefill_graph_end", 4>>, <<"decode_graph_begin", "decode_graph_end", 4>>,
             <<"decode_graph_end", "fired_up", 5>>, <<"fired_up", "first_request_done", 5>>}

(* spawn is time 0; the first request was done at `ready`.                 *)
AllMarks(log, ready) == Mark(Mark(ParseLog(log), "spawn", 0), "first_request_done", ready)

(* A segment is shown if both of its marks are there, in order.            *)
Shown(log, ready) ==
    LET marks == AllMarks(log, ready) IN
    {s \in Segments : {s[1], s[2]} \subseteq DOMAIN marks /\ marks[s[2]] >= marks[s[1]]}

Length(log, ready, s) == AllMarks(log, ready)[s[2]] - AllMarks(log, ready)[s[1]]
GroupTotal(log, ready, group) ==
    SumFunction([s \in {s \in Shown(log, ready) : s[3] = group} |-> Length(log, ready, s)])

-----------------------------------------------------------------------------
(* proc_breakdown splits the first segments of a trial traced with         *)
(* trace_imports: rows are [at, cost, nested] and workers the times the    *)
(* spawned processes began.                                                *)

Top(rows) == {r \in rows : ~r.nested}
CostOf(rows) == SumFunction([r \in rows |-> r.cost])

(* An import is the launcher's if it is done before any worker begins.     *)
LauncherImports(rows, workers) == CostOf({r \in Top(rows) : \A w \in workers : r.at < w})
WorkerImports(rows, workers) == CostOf({r \in Top(rows) : \E w \in workers : r.at >= w})

(* worker_imports_s and worker_setup_s, here of all workers together, are  *)
(* per worker in the code: they import in parallel.                        *)
Breakdown(rows, workers, serverArgs, distBegin) ==
    LET first == CHOOSE w \in workers : IsFirst(w, workers)
        launcher == LauncherImports(rows, workers)
        worker == WorkerImports(rows, workers) IN
    IF workers = {} THEN [launcherImports |-> launcher, launcherOther |-> serverArgs - launcher]
    ELSE [launcherImports |-> launcher, launcherOther |-> serverArgs - launcher,
          toFirstWorker |-> first - serverArgs, workerImports |-> worker,
          spread |-> (CHOOSE w \in workers : IsLast(w, workers)) - first,
          workerSetup |-> Cardinality(workers) * (distBegin - first) - worker]

-----------------------------------------------------------------------------
(* The wait for a host.  A start is [asked, prep, claimed, up, ready]:     *)
(* when the request came, how long its download took, when the GPU sandbox *)
(* was asked for, when its agent ran, when the engine was ready; uptime    *)
(* and skew are what the container says of itself.                         *)

(* Faulty: the container's word is taken as it is.                         *)
SchedulingWaitRaw(now, uptime, claimed, container) == now - uptime - claimed

(* The container's start, by its own clock, less the request; no less than *)
(* nothing and no more than all of the container's start.                  *)
SchedulingWait(now, uptime, claimed, container) ==
    LET wait == now - uptime - claimed IN
    IF wait < 0 THEN 0 ELSE IF wait > container THEN container ELSE wait

Record(s) ==
    LET container == s.up - s.claimed
        wait == SchedulingWait(s.up + s.skew, s.uptime, s.claimed, container) IN
    [requestToReady |-> s.ready - s.asked, wait |-> wait, container |-> container,
     startup |-> s.ready - s.asked - wait, billed |-> s.ready - s.claimed - wait]

(* scheduling_wait of the Compare page: measured, or estimated for records *)
(* from before it was.                                                     *)
NotMeasured == -1

CompareWait(measured, container) ==
    IF measured # NotMeasured THEN measured ELSE IF container > LongBoot THEN container - Boot ELSE 0

(* _cmp_item for a scheduler start, which downloads on a CPU if at all.    *)
(* An older record counts the wait as billed.                              *)
CompareItem(record, measured, prep) ==
    LET wait == CompareWait(measured, record.container) IN
    [endToEnd |-> record.requestToReady - wait - prep,
     billed |-> IF measured = NotMeasured THEN record.billed + record.wait - wait ELSE record.billed]

(* _cmp_item for a benchmark trial, of which neither is recorded: launch   *)
(* is its restore and its time to ready, and GPUs that were claimed for a  *)
(* download are billed for it.                                             *)
TrialItem(container, launch, measured, download, mode) ==
    LET startup == container + launch - CompareWait(measured, container) IN
    [endToEnd |-> startup, billed |-> IF mode = "gpu" THEN startup + download ELSE startup]

-----------------------------------------------------------------------------
(* The page shows every mark the engine reported, from a log that goes on  *)
(* after the launch: begins with the first rank, ends with the last.       *)
MarksAgree(log, ready) ==
    LET marks == LaunchMarks(SubSeq(log, 1, Smaller(ready, Len(log)))) shown == ParseLog(log) IN
    \A phase \in DOMAIN marks : phase \in DOMAIN shown /\ shown[phase] = marks[phase]

(* However the ranks' lines interleave, the segments of a group do not     *)
(* overlap: together they are no longer than the launch.  Not so the CUDA  *)
(* graphs, when a rank begins to decode while another one is still at the  *)
(* prefill.                                                                *)
SegmentsFit(log, ready) == \A group \in {1, 2, 3, 5} : GroupTotal(log, ready, group) <= ready

(* Every import is in one part of the breakdown, with what it imported,    *)
(* and the parts add up to the time until torch is initialised.            *)
BreakdownAddsUp(rows, workers, serverArgs, distBegin) ==
    LET b == Breakdown(rows, workers, serverArgs, distBegin) n == Cardinality(workers) IN
    IF n = 0 THEN b.launcherImports = CostOf(Top(rows))
    ELSE /\ b.launcherImports + b.workerImports = CostOf(Top(rows)) /\ b.spread >= 0
         /\ n * (b.launcherImports + b.launcherOther + b.toFirstWorker) + b.workerImports + b.workerSetup = n * distBegin

(* Whatever the container's clock says, the parts of a start add up: none  *)
(* is negative, and the Compare page excludes the wait from the time and   *)
(* from the bill once, as the record does.  An older record is billed at   *)
(* least from the container's start on.  A trial takes and bills its whole *)
(* launch at least, and bills more only for a download on the GPU box.     *)
WaitExcluded(s) ==
    LET record == Record(s)
        item == CompareItem(record, record.wait, s.prep)
        old == CompareItem(record, NotMeasured, s.prep)
        trial(measured, mode) == TrialItem(record.container, s.ready - s.up, measured, s.prep, mode) IN
    /\ record.billed >= 0 /\ record.startup >= record.billed
    /\ item.billed = record.billed /\ item.endToEnd = record.startup - s.prep
    /\ item.endToEnd >= item.billed /\ old.endToEnd >= old.billed
    /\ old.billed >= s.ready - s.up
    /\ \A measured \in {record.wait, NotMeasured} :
          /\ trial(measured, "cpu").endToEnd >= s.ready - s.up /\ trial(measured, "cpu").billed = trial(measured, "cpu").endToEnd
          /\ trial(measured, "gpu").endToEnd = trial(measured, "cpu").endToEnd
          /\ trial(measured, "gpu").billed = trial(measured, "cpu").billed + s.prep
=============================================================================

------------------------------ MODULE HostPlan ------------------------------
(***************************************************************************)
(* What a start asks for and what the scheduler makes of it: Request       *)
(* (from_dict, group_layout, effective_graphs) and plan of                 *)
(* src/fes/scheduler.py, the sizes of src/fes/common.py, and the threads   *)
(* of a prefetch in src/fes/engine/sglang_engine.py.  Sizes are in GiB,    *)
(* times in seconds, rates in GiB per second.                              *)
(***************************************************************************)
EXTENDS Integers, Sequences, FiniteSets, Functions

CONSTANTS RamPerWeight, RamBase, RamPerGpu,  \* 2, 64, 180 (common.py)
          CpusPerGpu,                        \* 4
          MinTtl,                            \* MinTtl[m]: the shortest lifetime of a model
          ReferenceBytes                     \* DEFAULT_WEIGHT_BYTES: what warm_load_s was measured on

ASSUME SizesAssumption == {RamPerWeight, RamBase, RamPerGpu, CpusPerGpu, ReferenceBytes} \subseteq Nat \ {0}

(* A GPU spec is "H100" or "H100:n", which is 0 when there is none.        *)
GpuCount(gpu) == IF gpu = 0 THEN 1 ELSE gpu

Smaller(a, b) == IF a <= b THEN a ELSE b
Larger(a, b) == IF a >= b THEN a ELSE b

-----------------------------------------------------------------------------
(* from_dict: the parameters of a job, if it accepts them.                 *)

Accepts(d) == d.groups \in 1 .. (8 \div d.tp)

(* A host with several groups has tp GPUs for each; a lifetime is raised   *)
(* to the model's minimum; unknown graph sizes are the default.            *)
RequestOf(d) ==
    [d EXCEPT !.gpu = IF d.groups > 1 THEN d.tp * d.groups ELSE @,
              !.ttl = Larger(@, MinTtl[d.model]),
              !.graphs = IF @ \in {"pow2", "full"} THEN @ ELSE "pow2"]

(* Faulty: the devices of a group start at its number.                     *)
GroupLayoutShifted(r) ==
    IF r.groups = 1 THEN <<>>
    ELSE [i \in 1 .. r.groups |-> [devices |-> {i - 1 + j : j \in 0 .. (r.tp - 1)}, port |-> 30000 + 10 * (i - 1)]]

GroupLayout(r) ==
    IF r.groups = 1 THEN <<>>
    ELSE [i \in 1 .. r.groups |-> [devices |-> {(i - 1) * r.tp + j : j \in 0 .. (r.tp - 1)}, port |-> 30000 + 10 * (i - 1)]]

(* The graph flags of the caller, if there are any, win over the preset;   *)
(* only "pow2" has flags of its own.                                       *)
EffectiveGraphs(r) == IF r.flags # {} THEN "custom" ELSE r.graphs
EngineArgs(r) == r.flags \cup (IF EffectiveGraphs(r) = "pow2" THEN {"preset-decode", "preset-prefill"} ELSE {})

-----------------------------------------------------------------------------
EngineCpus(gpu) == CpusPerGpu * GpuCount(gpu)

Need(bytes) == bytes * RamPerWeight + RamBase
Cap(gpu) == RamPerGpu * GpuCount(gpu)

(* Faulty: the weights once, as before they were seen to be held twice.    *)
EngineMemoryOnce(bytes, gpu) ==
    [request |-> Smaller(Need(bytes), Cap(gpu)), limit |-> Cap(gpu), fits |-> bytes + RamBase <= Cap(gpu)]

EngineMemory(bytes, gpu) ==
    [request |-> Smaller(Need(bytes), Cap(gpu)), limit |-> Cap(gpu), fits |-> Need(bytes) <= Cap(gpu)]

(* thread_cap: cpus is what the sandbox was requested with (0: not known), *)
(* visible what it may run on.                                             *)
ThreadCap(requested, cpus, visible) ==
    Larger(1, Smaller(requested, 2 * Smaller(IF cpus = 0 THEN visible ELSE cpus, visible)))

-----------------------------------------------------------------------------
(* plan: a is what the catalog says (onVolume, hit, bytes, and whether the *)
(* model has measured a warm load), st the learned timings.                *)

Prefetches(r, a) == r.prefetch /\ EngineMemory(a.bytes, r.gpu).fits

WarmLoad(r, a, st) ==
    IF a.measured THEN st.warmLoad
    ELSE (st.warmLoad * a.bytes) \div (ReferenceBytes * Larger(r.tp \div 2, 1))

LoadTime(r, a, st) ==
    IF Prefetches(r, a) THEN Larger(WarmLoad(r, a, st), a.bytes \div st.prefetchRate - st.preLoad)
    ELSE a.bytes \div st.volumeRate

GraphTime(r, a, st) == st.graphs[a.hit][EffectiveGraphs(r) = "pow2"]

Step(where, action, time) == {[where |-> where, action |-> action, time |-> time]}
If(condition, step) == IF condition THEN step ELSE {}

(* From the claim of a GPU on, whatever the policy.                        *)
LaunchSteps(r, a, st) ==
    Step("gpu", "claim", st.container)
    \cup If(a.hit, Step("gpu", "restore", 0)) \cup If(Prefetches(r, a), Step("gpu", "prefetch", 0))
    \cup Step("gpu", "init", st.other) \cup Step("gpu", "load", LoadTime(r, a, st))
    \cup Step("gpu", "graphs", GraphTime(r, a, st))

FetchTime(a, st) == a.bytes \div st.hubRate

(* Faulty: the GPU box downloads whatever is not on the volume.            *)
StepsFetchTwice(r, a, st) ==
    If(~a.onVolume /\ r.policy = "late_claim", Step("cpu", "prep", FetchTime(a, st)))
    \cup If(~a.onVolume, Step("gpu", "download", FetchTime(a, st)))
    \cup LaunchSteps(r, a, st)

(* The weights come in a CPU sandbox (late_claim) or on the GPU box (asap);*)
(* from_dict takes any other policy too, and that has neither step.        *)
Steps(r, a, st) ==
    If(~a.onVolume /\ r.policy = "late_claim", Step("cpu", "prep", FetchTime(a, st)))
    \cup If(~a.onVolume /\ r.policy = "asap", Step("gpu", "download", FetchTime(a, st)))
    \cup LaunchSteps(r, a, st)

Predicted(r, a, st, where) == SumFunction([s \in {s \in Steps(r, a, st) : s.where = where} |-> s.time])

(* execute decides again: what it prepares, and what it tells the agent of *)
(* the engine to download.                                                 *)
Prepares(r, a) == ~a.onVolume /\ r.policy = "late_claim"
DownloadsOnBox(r, a) == r.policy = "asap" /\ ~a.onVolume

-----------------------------------------------------------------------------
(* The groups of an accepted request share no GPU and no port, and use     *)
(* exactly the GPUs of the host that is asked for.                         *)
GroupsFit(r) ==
    LET groups == GroupLayout(r) IN
    r.groups > 1 =>
        /\ \A i, j \in DOMAIN groups : i # j =>
              groups[i].devices \cap groups[j].devices = {} /\ groups[i].port # groups[j].port
        /\ UNION {groups[i].devices : i \in DOMAIN groups} = 0 .. (GpuCount(r.gpu) - 1)

(* Whatever is prefetched fits: the page cache and the ranks' copies are   *)
(* within the memory that is requested, and that within the host's limit.  *)
PrefetchFits(r, a) ==
    LET memory == EngineMemory(a.bytes, r.gpu) IN
    /\ memory.request <= memory.limit
    /\ Prefetches(r, a) => memory.request >= 2 * a.bytes + RamBase

(* The plan has a CPU step exactly when execute prepares the weights, and  *)
(* the GPU box downloads exactly when the plan says so: never both.        *)
DownloadsAsPlanned(r, a, st) ==
    LET planned == Steps(r, a, st) IN
    /\ (\E s \in planned : s.where = "cpu") <=> Prepares(r, a)
    /\ (\E s \in planned : s.where = "gpu" /\ s.action = "download") <=> DownloadsOnBox(r, a)
    /\ ~(Prepares(r, a) /\ DownloadsOnBox(r, a))

(* The two policies promise the same time to ready, and late_claim bills   *)
(* no GPU for a download.                                                  *)
PoliciesDiffer(r, a, st) ==
    LET late == [r EXCEPT !.policy = "late_claim"]
        asap == [r EXCEPT !.policy = "asap"]
        download == IF a.onVolume THEN 0 ELSE FetchTime(a, st) IN
    /\ Predicted(late, a, st, "cpu") = download /\ Predicted(asap, a, st, "cpu") = 0
    /\ Predicted(asap, a, st, "gpu") = Predicted(late, a, st, "gpu") + download
=============================================================================

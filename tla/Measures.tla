------------------------------ MODULE Measures ------------------------------
(***************************************************************************)
(* What a launch is filed under: the key of its compile cache, computed by *)
(* the scheduler before there is a GPU and by the agent on it (compile_key *)
(* of src/fes/catalog.py, gpu_name of src/fes/scheduler.py, cache_key of   *)
(* src/fes/engine/sglang_engine.py), and the timings execute feeds back    *)
(* (observe's arguments in src/fes/scheduler.py).                          *)
(***************************************************************************)
EXTENDS HostPlan, Sequences

(***************************************************************************)
(* Names are sequences of pieces, so that pieces of two names may run into *)
(* each other: the hash is over their concatenation.                       *)
(***************************************************************************)
GpuNames == [H100 |-> <<"NVIDIA H", "1", "0", "0", " 80GB HBM", "3">>,
             H200 |-> <<"NVIDIA H", "2", "0", "0">>,
             B200 |-> <<"NVIDIA B", "2", "0", "0">>]

(* Faulty: "H100!" is not in the table, and stands for itself.             *)
GpuNameAsWritten(spec) ==
    IF spec.base \in DOMAIN GpuNames /\ ~spec.bang THEN GpuNames[spec.base] ELSE <<spec.base>>

(* gpu_name: spec is "H100" or, no other will do, "H100!".                 *)
GpuName(spec) == IF spec.base \in DOMAIN GpuNames THEN GpuNames[spec.base] ELSE <<spec.base>>

(* str(tp), of the GPUs of one host.                                       *)
Decimal == <<"1", "2", "3", "4", "5", "6", "7", "8">>

(* compile_key; c is [sglang, spec, tp, config].                           *)
CompileKey(c) == c.sglang \o GpuName(c.spec) \o <<Decimal[c.tp]>> \o c.config

(* cache_key, with what nvidia-smi says in the container.                  *)
Device(spec) == GpuNames[spec.base]
CacheKey(c) == c.sglang \o Device(c.spec) \o <<Decimal[c.tp]>> \o c.config

-----------------------------------------------------------------------------
(* A launch l is the request r it was planned for, whether the plan had a  *)
(* prefetch, the actual cache hit, and moments: the agent began (start),   *)
(* the server was spawned, the first rank began to load, the last shard    *)
(* was in the page cache (Never: not by the time it was ready).            *)
Never == 1000

(* done_at_s, pre_launch_s and the mark load_begin have origins of their   *)
(* own: the agent's start, and the spawn.                                  *)
DoneAt(l) == IF l.copied = Never THEN Never ELSE l.copied - l.start
PreLaunch(l) == l.spawned - l.start
LoadBegin(l) == l.loading - l.spawned

(* Faulty: two times with different origins are compared.                  *)
LoadMeasureByMark(l) ==
    IF ~l.prefetch THEN {"volume_gbps"}
    ELSE IF DoneAt(l) - PreLaunch(l) <= LoadBegin(l) + PreLaunch(l) THEN {"warm_load_s"} ELSE {}

LoadMeasure(l) ==
    IF ~l.prefetch THEN {"volume_gbps"}
    ELSE IF DoneAt(l) <= LoadBegin(l) + PreLaunch(l) THEN {"warm_load_s"} ELSE {}

(* The estimate of a graph capture: a learned timing for each case.        *)
GraphEstimate(hit, preset) ==
    IF preset = "pow2" THEN IF hit THEN "graph_s_hit_pow2" ELSE "graph_s_miss_pow2"
    ELSE IF hit THEN "graph_s_hit" ELSE "graph_s_miss"
GraphMeasure(l) ==
    IF EffectiveGraphs(l.r) \in {"pow2", "full"} THEN {GraphEstimate(l.hit, EffectiveGraphs(l.r))} ELSE {}

(* What is passed to observe and is not None.                              *)
Measured(l) ==
    IF l.r.groups # 1 THEN {}
    ELSE {"container_start_s", "other_s", "pre_load_s"} \cup LoadMeasure(l) \cup GraphMeasure(l)
         \cup (IF l.hit THEN {"restore_gbps"} ELSE {}) \cup (IF l.copied = Never THEN {} ELSE {"prefetch_gbps"})

(* What plan reads of a load and of graphs: see LoadTime and GraphTime.    *)
PlanReads(l) ==
    (IF l.prefetch THEN {"warm_load_s", "prefetch_gbps", "pre_load_s"} ELSE {"volume_gbps"})
    \cup {GraphEstimate(l.hit, EffectiveGraphs(l.r))}

-----------------------------------------------------------------------------
(* "Must match": both sides know a configuration by the same key, and no   *)
(* other configuration of those in use by that one.                        *)
KeysMatch(c, others) ==
    /\ CompileKey(c) = CacheKey(c)
    /\ \A d \in others :
          CompileKey(d) = CacheKey(c)
          <=> <<c.sglang, c.spec.base, c.tp, c.config>> = <<d.sglang, d.spec.base, d.tp, d.config>>

(* An estimate learns from the launches it is about, and from all of them: *)
(* warm_load_s from loads that found every shard in memory, volume_gbps    *)
(* from loads nothing competed with, a graph time from its own preset; the *)
(* plan of such a launch reads what it taught, and a launch of several     *)
(* engines, another workload, teaches nothing.                             *)
TeachesItsKind(l) ==
    LET single == l.r.groups = 1 IN
    /\ "warm_load_s" \in Measured(l) <=> single /\ l.prefetch /\ l.copied <= l.loading
    /\ "volume_gbps" \in Measured(l) <=> single /\ ~l.prefetch
    /\ \A hit \in BOOLEAN, preset \in {"pow2", "full"} :
          GraphEstimate(hit, preset) \in Measured(l) <=> single /\ l.hit = hit /\ EffectiveGraphs(l.r) = preset
    /\ single => Measured(l) \ {"container_start_s", "other_s", "pre_load_s", "restore_gbps"} \subseteq PlanReads(l)
    /\ ~single => Measured(l) = {}
=============================================================================

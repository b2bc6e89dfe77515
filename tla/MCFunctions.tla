---------------------------- MODULE MCFunctions ----------------------------
(***************************************************************************)
(* The pure parts of the system over bounded inputs.  Init chooses one     *)
(* input of one kind, and each property is about one kind; the learned     *)
(* timings and the recovered trials, which are state, move on from there.  *)
(***************************************************************************)
EXTENDS HostPlan, StartupFiles, Timings, Measures, Results

Log == INSTANCE LaunchLog WITH Boot <- 5, LongBoot <- 15

VARIABLE input

fVars == <<input, timingVars, resultsVars>>

MCMinTtl == [small |-> 5, large |-> 15]

(* What may come with a job, with the defaults of the API filled in.       *)
Dicts == [tp : {1, 2, 4, 8}, groups : 0 .. 9, gpu : {0, 2, 8}, model : {"small", "large"}, ttl : {1, 30},
          graphs : {"pow2", "full", "odd"}, flags : {{}, {"graph-bs"}}, prefetch : BOOLEAN,
          policy : {"late_claim", "asap", "other"}]

(* Half of RAM_MAX_GIB_PER_GPU for 1, 2 and 8 GPUs is 90, 180 and 720 GiB. *)
Artifacts == {a \in [onVolume : BOOLEAN, hit : BOOLEAN, bytes : {8, 58, 59, 180, 690}, measured : BOOLEAN] :
                 a.hit => a.onVolume}
Learned == [hubRate : {2}, volumeRate : {1, 4}, prefetchRate : {4}, preLoad : {20}, warmLoad : {10}, container : {7},
            other : {30}, graphs : {[hit \in BOOLEAN |-> [pow2 \in BOOLEAN |-> IF hit THEN 10 ELSE 60]]}]

(* What an interrupted download, or a hand on the volume, may leave.       *)
Listings == SUBSET ({"config.json", "index.json", "model.safetensors", "tokenizer.json", "vocab.json", "merges.txt"}
                    \cup Shard)

Paths == {<<"root", "cache", "torch", "aot", "k">>, <<"root", "cache", "f">>, <<"root", "cache", "jit", "g">>,
          <<"root", "lib", "jit", "m">>, <<"root", "lib", "data">>, <<"results", "cache", "log">>, <<"tmp", "t", "s", "u", "jit", "z">>}
NewFiles == UNION {{{[path |-> p, size |-> size[p]] : p \in paths} : size \in [paths -> {1, 2}]} : paths \in SUBSET Paths}

(* The lines of one rank - of a newer and of an older SGLang, and without  *)
(* CUDA graphs - and every way those of two ranks may interleave; the      *)
(* server reports itself before or after the first request is done.        *)
Loading == <<"dist_begin", "dist_end", "load_begin", "load_end">>
RankLines == {Loading \o <<"prefill_graph_begin", "prefill_graph_end", "decode_graph_begin", "decode_graph_end">>,
              Loading \o <<"cuda_graph_begin", "cuda_graph_end">>, <<"load_begin", "kv_alloc", "load_end">>}
Orders(n) == {order \in [1 .. 2 * n -> {1, 2}] : Cardinality({i \in 1 .. 2 * n : order[i] = 1}) = n}
Interleaved(lines, order) ==
    [i \in DOMAIN order |-> lines[Cardinality({j \in 1 .. i : order[j] = order[i]})]]
Ranks == RankLines \cup UNION {{Interleaved(lines, order) : order \in Orders(Len(lines))} : lines \in RankLines}
Logs == {[log |-> <<"server_args">> \o ranks \o tail, ready |-> 2 + Len(ranks) + late] :
            ranks \in Ranks, tail \in {<<"uvicorn", "fired_up", "other">>, <<"fired_up", "other">>}, late \in 0 .. 2}

(* A host is awaited, its container boots, the clock of the container is   *)
(* off by skew, and uptime is what its kernel says.                        *)
Starts == {s \in [asked : {0}, prep : 0 .. 2, claimed : {2, 3}, up : {3, 4, 6, 9, 18, 20}, ready : {8, 11, 21}, uptime : 0 .. 6, skew : -4 .. 4] :
              s.up > s.claimed /\ s.ready > s.up /\ s.prep <= s.claimed}

(* What a trial with trace_imports prints, with up to two spawned ranks.   *)
ImportRows == SUBSET ([at : {2}, cost : {1, 2}, nested : {FALSE}] \cup [at : {5, 6, 8}, cost : {2}, nested : BOOLEAN])

(* Configurations that share a volume of compile caches.                   *)
Configurations == [sglang : {<<"v0.5.", "2", "0">>, <<"v0.5.", "2">>}, spec : [base : DOMAIN GpuNames, bang : BOOLEAN],
                   tp : {1, 2, 4, 8}, config : {<<"{30B}">>, <<"{235B}">>}]

Launched == {l \in [r : [groups : {1, 2}, graphs : {"pow2", "full"}, flags : {{}, {"graph-bs"}}], prefetch : BOOLEAN,
                     hit : BOOLEAN, start : {0, 3}, spawned : {3, 4}, loading : {6, 8}, copied : {4, 6, 7, 8, 10, Never}] :
                ~l.prefetch => l.copied = Never}

-----------------------------------------------------------------------------
Init ==
    /\ \/ \E d \in {d \in Dicts : Accepts(d) /\ d.policy = "late_claim"} : input = [kind |-> "request", d |-> d]
       \/ \E d \in {d \in Dicts : Accepts(d) /\ d.tp = 2 /\ d.groups \in {1, 2} /\ d.ttl = 30}, a \in Artifacts, st \in Learned :
             input = [kind |-> "plan", d |-> d, a |-> a, st |-> st]
       \/ \E files \in Listings : input = [kind |-> "checkpoint", files |-> files]
       \/ \E files \in NewFiles : input = [kind |-> "writes", files |-> files]
       \/ \E l \in Logs : input = [kind |-> "log", log |-> l.log, ready |-> l.ready]
       \/ \E rows \in ImportRows, workers \in {{}, {4}, {4, 6}} : input = [kind |-> "imports", rows |-> rows, workers |-> workers]
       \/ \E s \in Starts : input = [kind |-> "wait", start |-> s]
       \/ \E c \in Configurations : input = [kind |-> "key", c |-> c]
       \/ \E l \in Launched : input = [kind |-> "launch", l |-> l]
       \/ input = [kind |-> "timings"]
       \/ input = [kind |-> "results"]
    /\ TimingsInit /\ ResultsInit

Next ==
    \/ input.kind = "timings" /\ TimingsNext /\ UNCHANGED <<input, resultsVars>>
    \/ input.kind = "results" /\ ResultsNext /\ UNCHANGED <<input, timingVars>>

Spec == Init /\ [][Next]_fVars

-----------------------------------------------------------------------------
(* The properties, each over its kind of input.                            *)

(* GroupsFit of every accepted request.                                    *)
GroupsShareNothing == input.kind = "request" => GroupsFit(RequestOf(input.d))

(* PrefetchFits: a host that prefetches has room for two copies.           *)
PrefetchHasRoom == input.kind = "plan" => PrefetchFits(RequestOf(input.d), input.a)

(* DownloadsAsPlanned under any policy, and PoliciesDiffer only in who pays*)
(* for the download: plan, which promises it, and execute, which has it    *)
(* done, decide each on their own (scheduler.py).                          *)
PlansAreKept ==
    input.kind = "plan" =>
        LET r == RequestOf(input.d) IN DownloadsAsPlanned(r, input.a, input.st) /\ PoliciesDiffer(r, input.a, input.st)

(* SameRule for the scheduler and the prep worker.                         *)
CompletenessAgrees == input.kind = "checkpoint" => SameRule(input.files)

(* CacheIsSaved: whole, once, and nothing else.                            *)
CachesAreSaved == input.kind = "writes" => CacheIsSaved(input.files)

(* MarksAgree of the agent and the Analysis page.                          *)
PageShowsTheMarks == input.kind = "log" => Log!MarksAgree(input.log, input.ready)

(* SegmentsFit into the launch, and BreakdownAddsUp to the first of them.  *)
SegmentsAreTrue ==
    /\ input.kind = "log" => Log!SegmentsFit(input.log, input.ready)
    /\ input.kind = "imports" => Log!BreakdownAddsUp(input.rows, input.workers, 3, 9)

(* WaitExcluded from the startup and from the bill, once.                  *)
WaitsAreExcluded == input.kind = "wait" => Log!WaitExcluded(input.start)

(* KeysMatch, for the scheduler and the engine agent.                      *)
KeysAgree == input.kind = "key" => KeysMatch(input.c, Configurations)

(* TeachesItsKind: what a launch feeds back is what its estimates mean.    *)
EstimatesMeanIt == input.kind = "launch" => TeachesItsKind(input.l)
=============================================================================

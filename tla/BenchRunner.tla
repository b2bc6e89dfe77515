---------------------------- MODULE BenchRunner ----------------------------
(***************************************************************************)
(* One benchmark trial inside its sandbox: main of src/fes/engine/         *)
(* bench_runner.py.  It starts the nvidia-smi sampler, for ModelExpress a  *)
(* Redis and a metadata server, and one SGLang server per GPU group; it    *)
(* measures, and stops them in its finally clause, which is entered only   *)
(* when the first three are there.                                         *)
(* (The library and weight prefetches only warm the page cache; nothing    *)
(* waits for them.)                                                        *)
(***************************************************************************)
EXTENDS Naturals, FiniteSets

CONSTANT Group   \* the GPU groups of the host

ASSUME GroupAssumption == Group # {}

VARIABLE runner

(* raised: a launch or a measurement did.  infra: the processes of         *)
(* start_mx.  server: what became of each group's launch ("stuck": it      *)
(* raised and left a process).                                             *)
RunnerState == [pc : {"off", "prep", "infra", "launch", "load", "unwind", "save", "summary", "print", "done", "failed"},
                sampler : BOOLEAN, raised : BOOLEAN, infra : SUBSET {"redis", "mx"},
                server : [Group -> {"none", "up", "exited", "stuck", "stopped"}]]

NoRunner == [pc |-> "off", sampler |-> FALSE,
             raised |-> FALSE, infra |-> {}, server |-> [g \in Group |-> "none"]]

RunnerAt(pc) == runner.pc = pc
RunnerLive == runner.pc \notin {"off", "done", "failed"}
RunnerGoes(pc) == runner' = [runner EXCEPT !.pc = pc]

-----------------------------------------------------------------------------
(* The cache key, the restore and the sampler; or an exception, before the *)
(* sampler is there.  With mx_infra, start_mx next.                        *)
RunnerPrep ==
    /\ RunnerAt("prep")
    /\ \/ RunnerGoes("failed")
       \/ \E pc \in {"infra", "launch"} :
             runner' = [runner EXCEPT !.pc = pc, !.sampler = TRUE]

(* start_mx: Redis, then the metadata server, each given two minutes to    *)
(* open its port.  If one does not, or cannot be started, the exception    *)
(* ends main before its try clause, and what runs then is left.            *)
StartMx ==
    /\ RunnerAt("infra")
    /\ \/ runner' = [runner EXCEPT !.pc = "launch", !.infra = {"redis", "mx"}]
       \/ \E left \in {{}, {"redis"}, {"redis", "mx"}} :
             runner' = [runner EXCEPT !.pc = "failed", !.infra = left]

(* launch: the server serves a request, exits before it does, or answers   *)
(* the first request with an error and stays.                              *)
Launch(g) ==
    /\ RunnerAt("launch") /\ runner.server[g] = "none"
    /\ \E how \in {"up", "exited", "stuck"} : runner' = [runner EXCEPT !.server[g] = how]

LaunchJoined ==
    /\ RunnerAt("launch") /\ \A g \in Group : runner.server[g] # "none"
    /\ IF \A g \in Group : runner.server[g] = "up" THEN RunnerGoes("load")
       ELSE runner' = [runner EXCEPT !.pc = "unwind", !.raised = TRUE]

(* correctness and the serving loads, in order; any request may fail.      *)
Load ==
    /\ RunnerAt("load")
    /\ \E raised \in BOOLEAN : runner' = [runner EXCEPT !.pc = "unwind", !.raised = raised]

(* Faulty: what is after the measurements, and not in a finally clause.    *)
UnwindIfMeasured ==
    /\ RunnerAt("unwind")
    /\ runner' = IF runner.raised THEN [runner EXCEPT !.pc = "failed"]
                 ELSE [runner EXCEPT !.pc = "save", !.sampler = FALSE, !.infra = {},
                                     !.server = [g \in Group |-> IF runner.server[g] = "up" THEN "stopped" ELSE runner.server[g]]]

(* finally: the sampler, Redis and its server, and the servers in `procs`, *)
(* those that came up.                                                     *)
Unwind ==
    /\ RunnerAt("unwind")
    /\ runner' = [runner EXCEPT !.pc = IF runner.raised THEN "failed" ELSE "save", !.sampler = FALSE, !.infra = {},
                                !.server = [g \in Group |-> IF runner.server[g] = "up" THEN "stopped" ELSE runner.server[g]]]

(* What start-up wrote is listed, and packed as the next cache when the    *)
(* restore was a miss; either may raise.                                   *)
SaveCache ==
    /\ RunnerAt("save")
    /\ RunnerGoes("summary") \/ RunnerGoes("failed")

(* summary.json on the results volume, then the __SUMMARY__ line.          *)
WriteSummary == RunnerAt("summary") /\ RunnerGoes("print")
PrintSummary == RunnerAt("print") /\ RunnerGoes("done")

RunnerNext ==
    \/ RunnerPrep \/ StartMx
    \/ \E g \in Group : Launch(g)
    \/ LaunchJoined \/ Load \/ Unwind \/ SaveCache \/ WriteSummary \/ PrintSummary
=============================================================================

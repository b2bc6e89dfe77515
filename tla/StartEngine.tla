---------------------------- MODULE StartEngine ----------------------------
(***************************************************************************)
(* One engine start from its plan to its registration: plan and execute of *)
(* src/fes/scheduler.py, prepare_weights, start_engine and Engine.wait of  *)
(* src/fes/workers.py, for jobs that start the same model at once, each    *)
(* with the agent in its sandbox, while the catalog is synced and repaired *)
(* and people delete from the volumes.                                     *)
(***************************************************************************)
EXTENDS EngineAgent

CONSTANT Policy   \* Policy[j]: "late_claim" or "asap"

ASSUME PolicyAssumption == Policy \in [Start -> {"late_claim", "asap"}]

VARIABLE job
vars == <<job, agent, catalogVars>>

(* onVolume, hit: the plan.  got: the lines read.                          *)
JobState == [pc : {"new", "check", "replan", "prep", "record", "replan_prep", "claim", "wait",
                   "prove", "validate", "written", "register", "serving", "failed"},
             onVolume : BOOLEAN, hit : BOOLEAN, got : SUBSET {"STARTED", "READY", "SAVED", "UNSAVED"}]

NewJob == [pc |-> "new", onVolume |-> FALSE, hit |-> FALSE, got |-> {}]

Init ==
    /\ CatalogInit
    /\ AgentInit
    /\ job = [j \in Start |-> NewJob]

JobAt(j, pc) == job[j].pc = pc
JobGoes(j, pc) == job' = [job EXCEPT ![j].pc = pc]

-----------------------------------------------------------------------------
(* plan: what the catalog lists is taken to be there; the compile key      *)
(* needs a config.json that can be read.                                   *)
PlanThen(j, pcListed, pcMissing) ==
    \E readable \in Answers(HasConfig) :
       LET listed == Find("weights") IN
       job' = [job EXCEPT ![j].onVolume = listed, ![j].hit = listed /\ readable /\ Find("compile"),
                          ![j].pc = IF listed THEN pcListed ELSE pcMissing]

Fetch(j) == IF Policy[j] = "late_claim" THEN "prep" ELSE "claim"

Plan(j) ==
    /\ JobAt(j, "new")
    /\ PlanThen(j, "check", Fetch(j))
    /\ UNCHANGED <<agent, catalogVars>>

(* Faulty: the catalog is believed.                                        *)
BelieveCatalog(j) ==
    /\ JobAt(j, "check")
    /\ JobGoes(j, "claim")
    /\ UNCHANGED <<agent, catalogVars>>

(* The catalog can be stale: weights_complete looks at the volume (and     *)
(* says no when it cannot, or raises when only the index cannot be read).  *)
CheckWeights(j) ==
    /\ JobAt(j, "check")
    /\ \/ WeightsComplete /\ JobGoes(j, "claim") /\ UNCHANGED arts
       \/ /\ ~WeightsComplete \/ Unreachable
          /\ Remove("weights") /\ JobGoes(j, "replan")
       \/ Unreachable /\ JobGoes(j, "failed") /\ UNCHANGED arts
    /\ UNCHANGED <<agent, volumeVars, sync, repair>>

Replan(j) ==
    /\ JobAt(j, "replan")
    /\ PlanThen(j, "claim", Fetch(j))
    /\ UNCHANGED <<agent, catalogVars>>

-----------------------------------------------------------------------------
(* prepare_weights: the prep worker downloads what is missing and then     *)
(* looks again.                                                            *)

PrepDownloads(j) ==
    /\ JobAt(j, "prep") /\ ~WeightsComplete
    /\ Download
    /\ UNCHANGED <<job, agent, arts, tar, deleted, sync, repair>>

PrepDone(j) ==
    /\ JobAt(j, "prep") /\ WeightsComplete
    /\ JobGoes(j, "record")
    /\ UNCHANGED <<agent, catalogVars>>

(* An incomplete checkpoint, or a dead prep worker.                        *)
PrepFails(j) ==
    /\ JobAt(j, "prep")
    /\ JobGoes(j, "failed")
    /\ UNCHANGED <<agent, catalogVars>>

RecordWeights(j) ==
    /\ JobAt(j, "record")
    /\ Register("weights", FALSE)
    /\ JobGoes(j, "replan_prep")
    /\ UNCHANGED <<agent, volumeVars, sync, repair>>

(* Plan again: now the compile key can be computed.                        *)
ReplanAfterPrep(j) ==
    /\ JobAt(j, "replan_prep")
    /\ PlanThen(j, "claim", "claim")
    /\ UNCHANGED <<agent, catalogVars>>

-----------------------------------------------------------------------------
(* start_engine, and wait, which reads the agent's lines                   *)

ClaimGpu(j) ==
    /\ JobAt(j, "claim")
    /\ agent' = [agent EXCEPT ![j].pc = "boot", ![j].restore = job[j].hit,
                              ![j].fetch = Policy[j] = "asap" /\ ~job[j].onVolume]
    /\ JobGoes(j, "wait")
    /\ UNCHANGED catalogVars

(* READY is the last line to wait for when the cache was to be restored,   *)
(* WRITEBACK when it was not.                                              *)
ReadLine(j) ==
    /\ JobAt(j, "wait") /\ agent[j].out # <<>>
    /\ LET line == Head(agent[j].out) IN
       job' = [job EXCEPT ![j].got = @ \cup {line},
                          ![j].pc = IF line \in {"SAVED", "UNSAVED"} \/ (line = "READY" /\ agent[j].restore)
                                    THEN "prove" ELSE @]
    /\ agent' = [agent EXCEPT ![j].out = Tail(@)]
    /\ UNCHANGED catalogVars

(* Faulty: the end of the stream is taken for READY.                       *)
StreamEndsReady(j) ==
    /\ JobAt(j, "wait") /\ agent[j].pc = "gone" /\ agent[j].out = <<>>
    /\ JobGoes(j, "prove")
    /\ UNCHANGED <<agent, catalogVars>>

(* The sandbox is gone and its last line read: fine if READY was among     *)
(* them, else EngineTimeout or RuntimeError.                               *)
StreamEnds(j) ==
    /\ JobAt(j, "wait") /\ agent[j].pc = "gone" /\ agent[j].out = <<>>
    /\ JobGoes(j, IF "READY" \in job[j].got THEN "prove" ELSE "failed")
    /\ UNCHANGED <<agent, catalogVars>>

(* A cancel is seen at the next boundary: after the prep, before and after *)
(* the GPU sandbox, at a line of its output.                               *)
Cancelled(j) ==
    /\ job[j].pc \in {"record", "claim", "wait", "prove"}
    /\ JobGoes(j, "failed")
    /\ UNCHANGED <<agent, catalogVars>>

-----------------------------------------------------------------------------
(* After wait: what has served is registered and validated                 *)

ProveWeights(j) ==
    /\ JobAt(j, "prove")
    /\ Register("weights", TRUE)
    /\ JobGoes(j, "validate")
    /\ UNCHANGED <<agent, volumeVars, sync, repair>>

ValidateCache(j) ==
    /\ JobAt(j, "validate")
    /\ IF agent[j].hit THEN Validate("compile") ELSE UNCHANGED arts
    /\ JobGoes(j, "written")
    /\ UNCHANGED <<agent, volumeVars, sync, repair>>

(* Faulty: what was saved by an engine that serves counts as proven.       *)
RegisterCacheProven(j) ==
    /\ JobAt(j, "written")
    /\ IF "SAVED" \in job[j].got THEN Register("compile", TRUE) ELSE UNCHANGED arts
    /\ JobGoes(j, "register")
    /\ UNCHANGED <<agent, volumeVars, sync, repair>>

RegisterCache(j) ==
    /\ JobAt(j, "written")
    /\ IF "SAVED" \in job[j].got THEN Register("compile", FALSE) ELSE UNCHANGED arts
    /\ JobGoes(j, "register")
    /\ UNCHANGED <<agent, volumeVars, sync, repair>>

(* add_engine, for every group.                                            *)
AddEngines(j) ==
    /\ JobAt(j, "register")
    /\ JobGoes(j, "serving")
    /\ UNCHANGED <<agent, catalogVars>>

JobNext(j) ==
    \/ Plan(j) \/ CheckWeights(j) \/ Replan(j)
    \/ PrepDownloads(j) \/ PrepDone(j) \/ PrepFails(j) \/ RecordWeights(j) \/ ReplanAfterPrep(j)
    \/ ClaimGpu(j) \/ ReadLine(j) \/ StreamEnds(j)
    \/ ProveWeights(j) \/ ValidateCache(j) \/ RegisterCache(j) \/ AddEngines(j)

Next ==
    \/ \E j \in Start : JobNext(j) \/ Cancelled(j) \/ (AgentNext(j) /\ UNCHANGED job)
    \/ CatalogNext /\ UNCHANGED <<job, agent>>

(* The worker's threads, the agent's and Modal's get on.  Nobody has to    *)
(* cancel or stop anything, and downloads and launches may fail or succeed.*)
Fairness ==
    /\ \A j \in Start : /\ WF_vars(JobNext(j))
                        /\ WF_vars(AgentMain(j) /\ UNCHANGED job)
                        /\ WF_vars(AgentThreads(j) /\ UNCHANGED job)
    /\ WF_vars(SyncList /\ UNCHANGED <<job, agent>>)
    /\ SF_vars(SyncAsk /\ UNCHANGED <<job, agent>>)
    /\ WF_vars(SyncDrop /\ UNCHANGED <<job, agent>>)

Spec == Init /\ [][Next]_vars
FairSpec == Spec /\ Fairness

-----------------------------------------------------------------------------
TypeOK == CatalogTypeOK /\ AgentTypeOK /\ job \in [Start -> JobState]

(* late_claim: whatever the catalog believed at first, and whatever other  *)
(* starts, syncs and repairs do to it meanwhile, no GPU is claimed before  *)
(* all of the checkpoint is on the volume (execute's check and the prep    *)
(* worker's report) - unless someone deletes it.                           *)
GpuFindsWeights ==
    \A j \in Start : JobAt(j, "claim") /\ Policy[j] = "late_claim" /\ deleted = 0 => WeightsComplete

(* A copy that was on its volume from the time a sync listed it to the     *)
(* time the sync ends is not dropped, even when Modal does not answer.     *)
SyncSparesCopies == sync.drop \cap sync.seen = {}

(* "Artifacts that just served traffic are proven good": an artifact gets  *)
(* validated in the catalog only for a start all of whose groups have      *)
(* served, and a compile cache only if it was restored there; and only     *)
(* then is an engine registered (execute, after wait).                     *)
ProvenHasServed ==
    [][/\ \A k \in Key : arts[k] # "proven" /\ arts'[k] = "proven" =>
             \E j \in Start : agent[j].served = Group /\ (k = "compile" => agent[j].cache = "hit")
       /\ \A j \in Start : job[j].pc # "serving" /\ job'[j].pc = "serving" => agent[j].served = Group]_vars

(* Every start ends: served, or failed; wait does not outlive the agent    *)
(* and does not wait for a line that never comes.                          *)
StartEnds == \A j \in Start : JobAt(j, "new") ~> job[j].pc \in {"serving", "failed"}

(* A copy that is gone is forgotten, or is there again.                    *)
GoneIsForgotten == \A k \in Key : Find(k) /\ ~OnVolume(k) ~> ~Find(k) \/ OnVolume(k)
=============================================================================

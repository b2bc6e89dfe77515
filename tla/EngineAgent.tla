---------------------------- MODULE EngineAgent ----------------------------
(***************************************************************************)
(* The entrypoint of a GPU sandbox, src/fes/engine/engine_agent.py, with   *)
(* what it calls of src/fes/engine/sglang_engine.py: one agent for each    *)
(* start job.  Its threads run at once: the main thread, one launch per    *)
(* GPU group, and the restorer of the compile cache.  (The import and      *)
(* weight prefetches only warm the page cache; nothing waits for them.)    *)
(* What it prints is the protocol the scheduler reads.                     *)
(***************************************************************************)
EXTENDS Catalog, Sequences

CONSTANTS Start,    \* the start jobs
          Group     \* the GPU groups of a sandbox (one for a plain start)

ASSUME GroupAssumption == Group # {}

VARIABLE agent

(* restore: restore_cache of its config (write_back is its negation).      *)
(* restorer: how far the thread is.  cache: what restore_cache returned.   *)
(* key, hit: what main took of it for READY and the write-back.            *)
(* server: each group's SGLang.  served: the groups that have served a     *)
(* request.  out: the lines printed and not read yet.                      *)
AgentState == [pc : {"off", "boot", "look", "download", "launch", "join", "ready", "save", "replace", "serve", "gone"},
               restore : BOOLEAN, fetch : BOOLEAN, restorer : {"key", "tar", "done", "dead"},
               cache : {"none", "hit", "miss"}, key : BOOLEAN, hit : BOOLEAN,
               server : [Group -> {"spawned", "up", "failed", "down"}], served : SUBSET Group,
               out : Seq({"STARTED", "READY", "SAVED", "UNSAVED"})]

NoAgent == [pc |-> "off", restore |-> FALSE, fetch |-> FALSE, restorer |-> "key", cache |-> "none",
            key |-> FALSE, hit |-> FALSE, server |-> [g \in Group |-> "spawned"], served |-> {},
            out |-> <<>>]

AgentInit == agent = [j \in Start |-> NoAgent]

AgentAt(j, pc) == agent[j].pc = pc
Alive(j) == agent[j].pc \notin {"off", "gone"}
Launched(j) == Alive(j) /\ agent[j].pc \notin {"boot", "look", "download"}
Goes(j, pc) == agent' = [agent EXCEPT ![j].pc = pc]
Prints(j, pc, line) == agent' = [agent EXCEPT ![j].pc = pc, ![j].out = Append(@, line)]
Exits(j) == Goes(j, "gone")

-----------------------------------------------------------------------------
(* main, up to the launch                                                  *)

PrintStarted(j) ==
    /\ AgentAt(j, "boot")
    /\ Prints(j, IF agent[j].fetch THEN "look" ELSE "launch", "STARTED")
    /\ UNCHANGED catalogVars

(* ensure_weights (asap): config.json stands for a complete checkpoint;    *)
(* without it snapshot_download fetches every file.                        *)
EnsureWeights(j) ==
    /\ AgentAt(j, "look")
    /\ Goes(j, IF HasConfig THEN "launch" ELSE "download")
    /\ UNCHANGED catalogVars

DownloadHere(j) ==
    /\ AgentAt(j, "download")
    /\ IF WeightsComplete THEN Goes(j, "launch") /\ UNCHANGED weights ELSE Download /\ UNCHANGED agent
    /\ UNCHANGED <<arts, tar, deleted, sync, repair>>

-----------------------------------------------------------------------------
(* _restore: the cache key reads config.json; restore_cache looks for the  *)
(* tar and unpacks it.                                                     *)

RestoreKey(j) ==
    /\ Launched(j) /\ agent[j].restorer = "key"
    /\ agent' = [agent EXCEPT ![j].restorer = IF ~HasConfig THEN "dead"
                                               ELSE IF agent[j].restore THEN "tar" ELSE "done"]
    /\ UNCHANGED catalogVars

RestoreTar(j) ==
    /\ Launched(j) /\ agent[j].restorer = "tar"
    /\ agent' = [agent EXCEPT ![j].restorer = "done", ![j].cache = IF tar THEN "hit" ELSE "miss"]
    /\ UNCHANGED catalogVars

-----------------------------------------------------------------------------
(* _launch, one thread per group: launch blocks until the server has       *)
(* served a request, or raises because it exited first.                    *)

GroupServes(j, g) ==
    /\ AgentAt(j, "launch") /\ agent[j].server[g] = "spawned" /\ WeightsComplete
    /\ agent' = [agent EXCEPT ![j].server[g] = "up", ![j].served = @ \cup {g}]
    /\ UNCHANGED catalogVars

GroupFails(j, g) ==
    /\ AgentAt(j, "launch") /\ agent[j].server[g] = "spawned"
    /\ agent' = [agent EXCEPT ![j].server[g] = "failed"]
    /\ UNCHANGED catalogVars

(* A server that has served may exit, or be killed by stop_group.          *)
ServerExits(j, g) ==
    /\ Launched(j) /\ agent[j].server[g] = "up"
    /\ agent' = [agent EXCEPT ![j].server[g] = "down"]
    /\ UNCHANGED catalogVars

(* Faulty: the first group to come up is enough.                           *)
LaunchAny(j) ==
    /\ AgentAt(j, "launch")
    /\ \E g \in Group : agent[j].server[g] # "spawned"
    /\ IF \A g \in Group : agent[j].server[g] # "up" THEN Exits(j) ELSE Goes(j, "join")
    /\ UNCHANGED catalogVars

(* All threads joined: one error ends the agent, and its sandbox.          *)
LaunchDone(j) ==
    /\ AgentAt(j, "launch")
    /\ \A g \in Group : agent[j].server[g] # "spawned"
    /\ IF \E g \in Group : agent[j].server[g] = "failed" THEN Exits(j) ELSE Goes(j, "join")
    /\ UNCHANGED catalogVars

-----------------------------------------------------------------------------
(* READY, the write-back, and the end                                      *)

(* restorer.join(timeout=60): the thread has ended, with a key or without, *)
(* or it is too slow and still at it.                                      *)
PrintReady(j) ==
    /\ AgentAt(j, "join")
    /\ agent' = [agent EXCEPT ![j].pc = "ready", ![j].out = Append(@, "READY"),
                              ![j].key = agent[j].restorer \in {"tar", "done"}, ![j].hit = agent[j].cache = "hit"]
    /\ UNCHANGED catalogVars

(* Faulty: no line when there was nothing to do.                           *)
WriteBackOrNothing(j) ==
    /\ AgentAt(j, "ready")
    /\ \/ ~agent[j].restore /\ ~agent[j].hit /\ Goes(j, "save")
       \/ Goes(j, "serve")
    /\ UNCHANGED catalogVars

(* Only a run that was not to restore writes back, and only if             *)
(* discover_writes and cache_roots find something to save.                 *)
WriteBack(j) ==
    /\ AgentAt(j, "ready")
    /\ \/ ~agent[j].restore /\ ~agent[j].hit /\ Goes(j, "save")
       \/ Prints(j, "serve", "UNSAVED")
    /\ UNCHANGED catalogVars

(* save_cache: the tar goes to a temporary name first.  Without a key      *)
(* there is no path to save to, and the agent dies of it.                  *)
SaveTar(j) ==
    /\ AgentAt(j, "save")
    /\ IF agent[j].key THEN Goes(j, "replace") ELSE Exits(j)
    /\ UNCHANGED catalogVars

(* os.replace, then WRITEBACK.                                             *)
ReplaceTar(j) ==
    /\ AgentAt(j, "replace")
    /\ tar' = TRUE
    /\ Prints(j, "serve", "SAVED")
    /\ UNCHANGED <<arts, weights, deleted, sync, repair>>

(* main waits for every server.                                            *)
AgentEnds(j) ==
    /\ AgentAt(j, "serve")
    /\ \A g \in Group : agent[j].server[g] = "down"
    /\ Exits(j)
    /\ UNCHANGED catalogVars

(* An exception in main: a download or a save that fails.                  *)
AgentRaises(j) ==
    /\ agent[j].pc \in {"download", "save", "replace"}
    /\ Exits(j)
    /\ UNCHANGED catalogVars

(* terminate(), or the lifetime of the sandbox.                            *)
SandboxEnds(j) ==
    /\ Alive(j)
    /\ Exits(j)
    /\ UNCHANGED catalogVars

AgentMain(j) ==
    \/ PrintStarted(j) \/ EnsureWeights(j) \/ DownloadHere(j) \/ LaunchDone(j)
    \/ PrintReady(j) \/ WriteBack(j) \/ SaveTar(j) \/ ReplaceTar(j)
AgentThreads(j) ==
    \/ RestoreKey(j) \/ RestoreTar(j)
    \/ \E g \in Group : GroupServes(j, g) \/ GroupFails(j, g)
AgentNext(j) ==
    \/ AgentMain(j) \/ AgentThreads(j) \/ AgentEnds(j) \/ AgentRaises(j) \/ SandboxEnds(j)
    \/ \E g \in Group : ServerExits(j, g)

-----------------------------------------------------------------------------
AgentTypeOK == agent \in [Start -> AgentState]

(* A line stands for what it says, whatever servers, threads and people do *)
(* meanwhile: READY that every group has served a request, SAVED that      *)
(* there was a key to save under and no cache was to be restored.          *)
LinesAreTrue ==
    \A j \in Start : \A i \in DOMAIN agent[j].out :
        /\ agent[j].out[i] \in {"READY", "SAVED", "UNSAVED"} => agent[j].served = Group
        /\ agent[j].out[i] = "SAVED" => agent[j].key /\ ~agent[j].restore
=============================================================================

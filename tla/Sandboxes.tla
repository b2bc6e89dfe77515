----------------------------- MODULE Sandboxes -----------------------------
(***************************************************************************)
(* The Modal sandboxes of the control plane and what runs in them:         *)
(* src/fes/workers.py, src/fes/engine/engine_agent.py and, as an external  *)
(* service, Modal itself.                                                  *)
(*                                                                         *)
(* A start_engine job creates at most one CPU sandbox that fetches the     *)
(* weights (role "prep") and one GPU sandbox with its engines (role        *)
(* "engine"): scheduler.execute calls prepare_weights at most once and     *)
(* start_engine once, and a job is executed once (ClaimedOnce in           *)
(* ControlPlane).  So a sandbox is named by its job and its role, and an   *)
(* engine (one SGLang server of a GPU group) by its job and its group.     *)
(***************************************************************************)
EXTENDS Integers, FiniteSets

CONSTANTS Job,      \* the start_engine jobs that may be submitted
          Groups    \* GPU groups of an engine sandbox (1: a single engine)

ASSUME GroupsAssumption == Groups \in Nat \ {0}

Role == {"prep", "engine"}
Sandbox == Job \X Role
Engine == Job \X (1 .. Groups)
EngineSandbox(j) == <<j, "engine">>
SandboxesOf(j) == {j} \X Role
EnginesOf(j) == {j} \X (1 .. Groups)
SandboxOf(e) == EngineSandbox(e[1])

(* Modal's exit codes: 124 lifetime cap, 137 terminate(); 1 is any other.  *)
ExitCode == {"exit1", "exit124", "exit137"}

VARIABLES code,     \* code[s]: not created, running, or the exit code
          ready,    \* jobs whose agent has printed READY
          servers,  \* engines whose server process was started and not killed
          expired   \* jobs whose engine is past expires_at

modalVars == <<code, ready, servers, expired>>

SandboxesTypeOK ==
    /\ code \in [Sandbox -> {"unborn", "running"} \cup ExitCode]
    /\ ready \subseteq Job
    /\ servers \subseteq Engine
    /\ expired \subseteq Job

SandboxesInit ==
    /\ code = [s \in Sandbox |-> "unborn"]
    /\ ready = {}
    /\ servers = {}
    /\ expired = {}

Running(s) == code[s] = "running"
Exited(s) == code[s] \in ExitCode
ServerUp(e) == e \in servers /\ Running(SandboxOf(e))

-----------------------------------------------------------------------------
(* What the control plane does to sandboxes.                               *)

Create(s) ==
    /\ code[s] = "unborn"
    /\ code' = [code EXCEPT ![s] = "running"]
    /\ UNCHANGED <<ready, servers, expired>>

(* stop_engine and every terminate(): an exit code once set stays.         *)
Terminate(s) ==
    /\ code' = [code EXCEPT ![s] = IF @ = "running" THEN "exit137" ELSE @]
    /\ UNCHANGED <<ready, servers, expired>>

(* stop_group: pkill the one server in a sandbox that is still running.    *)
KillServer(e) ==
    /\ Running(SandboxOf(e))
    /\ servers' = servers \ {e}
    /\ UNCHANGED <<code, ready, expired>>

-----------------------------------------------------------------------------
(* What happens in and to a sandbox on its own.                            *)

(* Every group has served its first request: the agent prints READY.       *)
AgentReady(j) ==
    /\ Running(EngineSandbox(j))
    /\ j \notin ready
    /\ ready' = ready \cup {j}
    /\ servers' = servers \cup EnginesOf(j)
    /\ UNCHANGED <<code, expired>>

ServerFails(e) ==
    /\ ServerUp(e)
    /\ servers' = servers \ {e}
    /\ UNCHANGED <<code, ready, expired>>

(* The agent serves until every group's server has exited, then exits.     *)
AgentExits(j) ==
    /\ Running(EngineSandbox(j))
    /\ j \in ready
    /\ EnginesOf(j) \cap servers = {}
    /\ code' = [code EXCEPT ![EngineSandbox(j)] = "exit1"]
    /\ UNCHANGED <<ready, servers, expired>>

(* The process in the sandbox dies: an error before READY, or Modal's.     *)
SandboxFails(s) ==
    /\ Running(s)
    /\ code' = [code EXCEPT ![s] = "exit1"]
    /\ UNCHANGED <<ready, servers, expired>>

(* Modal ends a sandbox that reaches the timeout it was created with.  Why *)
(* a prep sandbox exited nobody asks: one code is enough for it.           *)
LifetimeCap(s) ==
    /\ Running(s)
    /\ code' = [code EXCEPT ![s] = IF s[2] = "engine" THEN "exit124" ELSE "exit1"]
    /\ UNCHANGED <<ready, servers, expired>>

(* Time passes expires_at = creation + ttl_s of an engine.                 *)
LifetimeOver(j) ==
    /\ code[EngineSandbox(j)] # "unborn"
    /\ j \notin expired
    /\ expired' = expired \cup {j}
    /\ UNCHANGED <<code, ready, servers>>

SandboxesNext ==
    \/ \E j \in Job : AgentReady(j) \/ AgentExits(j) \/ LifetimeOver(j)
    \/ \E e \in Engine : ServerFails(e)
    \/ \E s \in Sandbox : SandboxFails(s) \/ LifetimeCap(s)
=============================================================================

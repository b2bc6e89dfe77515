------------------------------ MODULE Catalog ------------------------------
(***************************************************************************)
(* The artifact catalog of one model and the volumes it describes: what    *)
(* src/fes/catalog.py records of the weights and of the compile cache, and *)
(* the two repairs of src/fes/scheduler.py that compare it with Modal,     *)
(* sync_catalog and reconcile.                                             *)
(*                                                                         *)
(* Every copy is on a volume of the model's own, at a path its key         *)
(* determines, so an artifact has one copy or none: arts says which, and   *)
(* whether the copy is validated.                                          *)
(***************************************************************************)
EXTENDS Integers, FiniteSets

CONSTANTS Deletions,     \* times someone deletes from a volume, at most (a bound)
          Unreachable,   \* whether Modal may fail to answer
          Repairs        \* of {"sync", "reconcile"}, those that run

ASSUME DeletionsAssumption == Deletions \in Nat /\ Unreachable \in BOOLEAN
ASSUME RepairsAssumption == Repairs \subseteq {"sync", "reconcile"}

VARIABLES arts,    \* the catalog: "absent", "listed" or "proven"
          weights, \* what the weights volume holds of the checkpoint
          tar,     \* whether the artifacts volume holds the cache's tar
          deleted, \* deletions so far
          sync,    \* a sync_catalog under way
          repair   \* a reconcile under way

catalogVars == <<arts, weights, tar, deleted, sync, repair>>
volumeVars == <<weights, tar, deleted>>

Key == {"weights", "compile"}

(* Nothing; a download without config.json yet; with it; all of the files. *)
Checkpoint == {"gone", "partial", "config", "complete"}

NoSync == [pc |-> "idle", ask |-> {}, drop |-> {}, seen |-> {}]
NoRepair == [pc |-> "idle", found |-> "none"]

(* The catalog may be stale from the start, and so may a download.         *)
CatalogInit ==
    /\ arts \in [Key -> {"absent", "listed", "proven"}]
    /\ weights \in Checkpoint
    /\ tar \in BOOLEAN
    /\ deleted = 0
    /\ sync = NoSync
    /\ repair = NoRepair

OnVolume(key) == IF key = "weights" THEN weights # "gone" ELSE tar
WeightsComplete == weights = "complete"
HasConfig == weights \in {"config", "complete"}

-----------------------------------------------------------------------------
(* The statements of Catalog: each is one transaction                      *)

Find(key) == arts[key] # "absent"

(* register: a new copy, or the known one, which can only be upgraded.     *)
Register(key, validated) ==
    arts' = [arts EXCEPT ![key] = IF validated \/ @ = "proven" THEN "proven" ELSE "listed"]

(* remove, and remove_location of the only copy.                           *)
Remove(key) == arts' = [arts EXCEPT ![key] = "absent"]

Validate(key) == arts' = [arts EXCEPT ![key] = IF @ = "absent" THEN @ ELSE "proven"]

-----------------------------------------------------------------------------
(* The volumes: downloads go on file by file; people delete by hand        *)

Download == weights' = CASE weights = "gone" -> "partial" [] weights = "partial" -> "config"
                         [] OTHER -> "complete"

DeleteByHand ==
    /\ deleted < Deletions
    /\ deleted' = deleted + 1
    /\ \/ weights # "gone" /\ weights' = "gone" /\ UNCHANGED tar
       \/ tar /\ tar' = FALSE /\ UNCHANGED weights
    /\ sync' = [sync EXCEPT !.seen = {k \in @ : OnVolume(k)'}]
    /\ UNCHANGED <<arts, repair>>

-----------------------------------------------------------------------------
(* sync_catalog: list the copies, ask Modal for each of them, and then     *)
(* drop those that are gone.  seen: the listed copies that have been on    *)
(* their volume ever since.                                                *)

SyncList ==
    /\ "sync" \in Repairs /\ sync.pc = "idle"
    /\ LET listed == {k \in Key : Find(k)} IN
       sync' = [pc |-> "ask", ask |-> listed, drop |-> {}, seen |-> {k \in listed : OnVolume(k)}]
    /\ UNCHANGED <<arts, weights, tar, deleted, repair>>

(* Faulty: a volume that is not found counts as no answer.                 *)
SyncAskLenient ==
    /\ sync.pc = "ask"
    /\ \E k \in sync.ask : sync' = [sync EXCEPT !.ask = @ \ {k}]
    /\ UNCHANGED <<arts, weights, tar, deleted, repair>>

(* location_exists: True or False, ...                                     *)
SyncAsk ==
    /\ sync.pc = "ask"
    /\ \E k \in sync.ask : sync' = [sync EXCEPT !.ask = @ \ {k}, !.drop = IF OnVolume(k) THEN @ ELSE @ \cup {k}]
    /\ UNCHANGED <<arts, weights, tar, deleted, repair>>

(* Faulty: `if not ok` takes no answer for an answer.                      *)
SyncNoAnswerDrops ==
    /\ Unreachable /\ sync.pc = "ask"
    /\ \E k \in sync.ask : sync' = [sync EXCEPT !.ask = @ \ {k}, !.drop = @ \cup {k}]
    /\ UNCHANGED <<arts, weights, tar, deleted, repair>>

(* ... or None, if Modal could not be asked: the copy is kept.             *)
SyncNoAnswer ==
    /\ Unreachable /\ sync.pc = "ask"
    /\ \E k \in sync.ask : sync' = [sync EXCEPT !.ask = @ \ {k}]
    /\ UNCHANGED <<arts, weights, tar, deleted, repair>>

SyncDrop ==
    /\ sync.pc = "ask" /\ sync.ask = {}
    /\ \/ \E k \in sync.drop : Remove(k) /\ sync' = [sync EXCEPT !.drop = @ \ {k}]
       \/ sync.drop = {} /\ sync' = NoSync /\ UNCHANGED arts
    /\ UNCHANGED <<weights, tar, deleted, repair>>

-----------------------------------------------------------------------------
(* reconcile: look twice at the weights, whether there are any and whether *)
(* they are complete; write down what was seen, an incomplete checkpoint   *)
(* by taking it out of the catalog; then list the tars.                    *)

(* What an answer may be: without one it is taken for FALSE.               *)
Answers(fact) == {fact, fact /\ ~Unreachable}

(* volume_bytes                                                            *)
RepairLook ==
    /\ "reconcile" \in Repairs /\ repair.pc = "idle"
    /\ \E some \in Answers(OnVolume("weights")) :
          repair' = [pc |-> "check", found |-> IF some THEN "some" ELSE "none"]
    /\ UNCHANGED <<arts, weights, tar, deleted, sync>>

(* weights_complete, which raises when the index cannot be read.           *)
RepairCheck ==
    /\ repair.pc = "check"
    /\ \/ \E complete \in Answers(WeightsComplete) :
             repair' = [pc |-> "weights", found |-> IF complete /\ repair.found = "some" THEN "complete" ELSE repair.found]
       \/ Unreachable /\ repair' = [repair EXCEPT !.pc = "done"]
    /\ UNCHANGED <<arts, weights, tar, deleted, sync>>

RepairWeights ==
    /\ repair.pc = "weights"
    /\ CASE repair.found = "complete" -> Register("weights", FALSE)
         [] repair.found = "some" -> Remove("weights")
         [] OTHER -> UNCHANGED arts
    /\ repair' = [repair EXCEPT !.pc = "list"]
    /\ UNCHANGED <<weights, tar, deleted, sync>>

RepairList ==
    /\ repair.pc = "list"
    /\ \E listed \in Answers(tar) : repair' = [repair EXCEPT !.pc = IF listed THEN "compile" ELSE "done"]
    /\ UNCHANGED <<arts, weights, tar, deleted, sync>>

RepairCompile ==
    /\ repair.pc = "compile"
    /\ Register("compile", FALSE)
    /\ repair' = [repair EXCEPT !.pc = "done"]
    /\ UNCHANGED <<weights, tar, deleted, sync>>

SyncNext == SyncList \/ SyncAsk \/ SyncNoAnswer \/ SyncDrop
RepairNext == RepairLook \/ RepairCheck \/ RepairWeights \/ RepairList \/ RepairCompile
CatalogNext == DeleteByHand \/ SyncNext \/ RepairNext

CatalogTypeOK ==
    /\ arts \in [Key -> {"absent", "listed", "proven"}]
    /\ weights \in Checkpoint
    /\ tar \in BOOLEAN
    /\ deleted \in 0 .. Deletions
    /\ sync \in [pc : {"idle", "ask"}, ask : SUBSET Key, drop : SUBSET Key, seen : SUBSET Key]
    /\ repair \in [pc : {"idle", "check", "weights", "list", "compile", "done"}, found : {"none", "some", "complete"}]
=============================================================================

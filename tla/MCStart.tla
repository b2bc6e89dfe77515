------------------------------ MODULE MCStart ------------------------------
(***************************************************************************)
(* start: two starts of the same model, one with each policy, as far as    *)
(* the launch.  agent: one start of two GPU groups, to its end.            *)
(***************************************************************************)
EXTENDS StartEngine

CONSTANTS late, asap, a, b

MCPolicy == [j \in Start |-> IF j = late THEN "late_claim" ELSE "asap"]
Preparing == \A j \in Start : agent[j].pc \in {"off", "boot", "look", "download"}
=============================================================================

------------------------------- MODULE MCQueue -------------------------------
(***************************************************************************)
(* The queue on its own: two jobs, and slots that give up (or are          *)
(* cancelled) before they create an engine, so that each of them comes     *)
(* back for the next job.  Of the workers, those that do not crash get as  *)
(* far as reaping.                                                         *)
(***************************************************************************)
EXTENDS QueueRefinement, TLC

QueueOnly ==
    /\ \A s \in Sandbox : code[s] = "unborn"
    /\ \A w \in Mortal : rec[w].pc \in {"off", "reattach"}

Interchangeable == Permutations(Job)
=============================================================================

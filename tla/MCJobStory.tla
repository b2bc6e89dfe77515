----------------------------- MODULE MCJobStory -----------------------------
(***************************************************************************)
(* One job: the slot of one worker runs it; the other process is the API   *)
(* and a second worker in one (role all), with the submit and one request  *)
(* or reconciler thread that cancels, stops, finishes or reaps the job.    *)
(***************************************************************************)
EXTENDS JobStory, TLC

CONSTANTS main, worker, submit, slot, other, stream

MCProcess == {main, worker}
MCThread == {submit, slot, other}
MCProcessOf == (submit :> main) @@ (other :> main) @@ (stream :> main) @@ (slot :> worker)
=============================================================================

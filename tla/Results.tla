------------------------------ MODULE Results ------------------------------
(***************************************************************************)
(* Trials brought back from the results volume: recover of                 *)
(* src/fes/bench.py, a command that may be interrupted anywhere and run    *)
(* again, while trials still write to the volume.                          *)
(***************************************************************************)
EXTENDS Naturals

CONSTANT Trial   \* trials on the results volume

VARIABLES volume,  \* volume[t]: the trial's directory on the volume
          local,   \* local[t]: its directory under results/
          missed,  \* the trials whose log could not be fetched
          pass     \* the recovery under way

resultsVars == <<volume, local, missed, pass>>

NoPass == [pc |-> "off", trial |-> {}, todo |-> {}]

ResultsInit ==
    /\ volume = [t \in Trial |-> [log |-> "part", summary |-> "none"]]
    /\ local = [t \in Trial |-> [log |-> "none", summary |-> "none"]]
    /\ missed = {}
    /\ pass = NoPass

(* The trial, in its sandbox: its log ends, then it writes its summary.    *)
TrialWrites(t) ==
    /\ \/ volume[t].log = "part" /\ volume' = [volume EXCEPT ![t].log = "whole"]
       \/ volume[t] = [log |-> "whole", summary |-> "none"] /\ volume' = [volume EXCEPT ![t].summary = "part"]
       \/ volume[t].summary = "part" /\ volume' = [volume EXCEPT ![t].summary = "whole"]
    /\ UNCHANGED <<local, missed, pass>>

(* listdir                                                                 *)
RecoverList ==
    /\ pass.pc = "off" /\ \E t \in Trial : local[t].summary = "none"
    /\ pass' = [pc |-> "next", trial |-> {}, todo |-> Trial]
    /\ UNCHANGED <<volume, local, missed>>

(* Faulty: a trial that has not finished is copied as it is.               *)
RecoverNextAny(t) ==
    /\ pass.pc = "next" /\ t \in pass.todo
    /\ pass' = [pc |-> IF local[t].summary # "none" THEN "next" ELSE "copy",
                trial |-> {t}, todo |-> pass.todo \ {t}]
    /\ UNCHANGED <<volume, local, missed>>

(* A trial with a local summary, or without one that can be parsed on the  *)
(* volume, is passed over.                                                 *)
RecoverNext(t) ==
    /\ pass.pc = "next" /\ t \in pass.todo
    /\ pass' = [pc |-> IF local[t].summary # "none" \/ volume[t].summary # "whole" THEN "next" ELSE "copy",
                trial |-> {t}, todo |-> pass.todo \ {t}]
    /\ UNCHANGED <<volume, local, missed>>

(* The local file is opened, then the volume's is read into it, or not.    *)
RecoverOpen ==
    /\ pass.pc = "copy"
    /\ \E t \in pass.trial : local' = [local EXCEPT ![t].log = "empty"]
    /\ pass' = [pass EXCEPT !.pc = "fill"]
    /\ UNCHANGED <<volume, missed>>

RecoverFill ==
    /\ pass.pc = "fill"
    /\ \E t \in pass.trial :
          \/ local' = [local EXCEPT ![t].log = volume[t].log] /\ UNCHANGED missed
          \/ missed' = missed \cup {t} /\ UNCHANGED local
    /\ pass' = [pass EXCEPT !.pc = "open"]
    /\ UNCHANGED volume

(* summary.json, last: opened, then written.                               *)
RecoverSummary ==
    /\ \/ /\ pass.pc = "open"
          /\ \E t \in pass.trial : local' = [local EXCEPT ![t].summary = "part"]
          /\ pass' = [pass EXCEPT !.pc = "dump"]
       \/ /\ pass.pc = "dump"
          /\ \E t \in pass.trial : local' = [local EXCEPT ![t].summary = "whole"]
          /\ pass' = [pass EXCEPT !.pc = "next"]
    /\ UNCHANGED <<volume, missed>>

(* The command ends, or is interrupted where it is.                        *)
RecoverEnds ==
    /\ pass # NoPass /\ pass' = NoPass
    /\ UNCHANGED <<volume, local, missed>>

ResultsNext ==
    \/ \E t \in Trial : TrialWrites(t) \/ RecoverNext(t)
    \/ RecoverList \/ RecoverOpen \/ RecoverFill \/ RecoverSummary \/ RecoverEnds

-----------------------------------------------------------------------------
(* A trial shown (it has a summary) has its whole log, unless the log      *)
(* could not be fetched: however often recover was interrupted before, and *)
(* whatever the trial was writing meanwhile.                               *)
ShownTrialsAreWhole == \A t \in Trial : local[t].summary # "none" => local[t].log = "whole" \/ t \in missed
=============================================================================

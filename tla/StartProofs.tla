---------------------------- MODULE StartProofs ----------------------------
(***************************************************************************)
(* Proofs about the start of engines (StartEngine, EngineAgent, Catalog),  *)
(* for any number of starts and GPU groups, any catalog and volume to      *)
(* begin with, and every fault: what an agent prints is true, what is      *)
(* registered has served, a sync drops nothing that is there, and          *)
(* late_claim claims no GPU for a checkpoint that is not.                  *)
(***************************************************************************)
EXTENDS StartEngine, TLAPS

Word == {"STARTED", "READY", "SAVED", "UNSAVED"}

(* The lines printed by the agent of j and not read yet.                   *)
Lines(j) == {agent[j].out[i] : i \in DOMAIN agent[j].out}

-----------------------------------------------------------------------------
(* Queues of lines                                                         *)

(* Printing a line adds it, at the end.                                    *)
LEMMA LineAdded ==
    ASSUME NEW S, NEW s \in Seq(S), NEW e \in S
    PROVE  /\ Append(s, e) \in Seq(S)
           /\ \A i \in DOMAIN Append(s, e) : Append(s, e)[i] = e \/ \E k \in DOMAIN s : Append(s, e)[i] = s[k]
<1>1. Append(s, e) \in Seq(S) /\ Len(Append(s, e)) = Len(s) + 1
  OBVIOUS
<1>2. ASSUME NEW i \in DOMAIN Append(s, e)
      PROVE  Append(s, e)[i] = e \/ \E k \in DOMAIN s : Append(s, e)[i] = s[k]
  <2>1. i \in 1 .. (Len(s) + 1) BY <1>1
  <2>2. CASE i = Len(s) + 1 BY <2>2
  <2>3. CASE i \in 1 .. Len(s)
    <3>1. i \in DOMAIN s /\ Append(s, e)[i] = s[i] BY <2>3
    <3> QED BY <3>1
  <2> QED BY <2>1, <2>2, <2>3
<1> QED BY <1>1, <1>2

(* Reading one takes it from the front.                                    *)
LEMMA LineRead ==
    ASSUME NEW S, NEW s \in Seq(S), s # <<>>
    PROVE  /\ Tail(s) \in Seq(S) /\ Head(s) \in S
           /\ \E k \in DOMAIN s : Head(s) = s[k]
           /\ \A i \in DOMAIN Tail(s) : \E k \in DOMAIN s : Tail(s)[i] = s[k]
<1>1. Len(s) \in Nat \ {0} /\ Head(s) = s[1] /\ 1 \in DOMAIN s
  OBVIOUS
<1>2. Tail(s) \in Seq(S) /\ Len(Tail(s)) = Len(s) - 1
  OBVIOUS
<1>3. ASSUME NEW i \in DOMAIN Tail(s) PROVE \E k \in DOMAIN s : Tail(s)[i] = s[k]
  <2>1. i \in 1 .. (Len(s) - 1) BY <1>2
  <2>2. i + 1 \in DOMAIN s /\ Tail(s)[i] = s[i + 1] BY <1>1, <2>1
  <2> QED BY <2>2
<1>4. Head(s) \in S BY <1>1
<1> QED BY <1>1, <1>2, <1>3, <1>4

-----------------------------------------------------------------------------
(* Part 1: one step of one agent                                           *)

PastLaunch == {"join", "ready", "save", "replace", "serve"}

(* What is true of one agent at all times: who has served, that it is past *)
(* the launch only when all have, and what its lines may say.              *)
AgentOK(j) ==
    /\ \A g \in Group : agent[j].server[g] \in {"up", "down"} => g \in agent[j].served
    /\ agent[j].pc \in PastLaunch => agent[j].served = Group
    /\ agent[j].pc \in {"save", "replace"} => ~agent[j].restore
    /\ agent[j].pc = "replace" => agent[j].key
    /\ \A i \in DOMAIN agent[j].out :
          /\ agent[j].out[i] \in {"READY", "SAVED", "UNSAVED"} => agent[j].served = Group
          /\ agent[j].out[i] = "SAVED" =>
                agent[j].key /\ ~agent[j].restore /\ agent[j].pc \in {"serve", "gone"}

(* What an agent's step may do: only to itself, never when it is off, and  *)
(* a group serves only with the checkpoint complete.                       *)
AgentMoves(j) ==
    /\ agent' = [agent EXCEPT ![j] = agent'[j]]
    /\ agent'[j] \in AgentState
    /\ agent[j].pc # "off" /\ agent'[j].pc # "off"
    /\ agent[j].served \subseteq agent'[j].served
    /\ agent[j].served = agent'[j].served \/ WeightsComplete

(* The catalog and the agents' volumes in an agent's step.                 *)
VolumesGrow ==
    /\ WeightsComplete => WeightsComplete'
    /\ \A k \in Key : OnVolume(k) => OnVolume(k)'
    /\ UNCHANGED <<arts, deleted, sync, repair>>
    /\ weights' \in Checkpoint /\ tar' \in BOOLEAN

(* A download only adds files.                                             *)
LEMMA DownloadGrows ==
    ASSUME weights \in Checkpoint, Download
    PROVE  /\ weights' \in Checkpoint /\ weights' # "gone"
           /\ WeightsComplete => WeightsComplete'
BY DEF Download, Checkpoint, WeightsComplete

(* Every action of an agent keeps AgentOK.                                 *)
LEMMA AgentStep ==
    ASSUME TypeOK, NEW j \in Start, AgentOK(j), AgentNext(j)
    PROVE  AgentOK(j)' /\ AgentMoves(j) /\ VolumesGrow
<1> DEFINE a == agent[j]
<1>0. /\ agent \in [Start -> AgentState] /\ a \in AgentState
      /\ weights \in Checkpoint /\ tar \in BOOLEAN
  BY DEF TypeOK, AgentTypeOK, CatalogTypeOK
<1>q. a.out \in Seq(Word)
  BY <1>0 DEF AgentState, Word
<1>v. ASSUME UNCHANGED catalogVars PROVE VolumesGrow
  BY <1>0, <1>v DEF VolumesGrow, catalogVars, WeightsComplete, OnVolume
<1>g. ASSUME NEW pc \in {"look", "download", "launch", "gone"}, Goes(j, pc), a.pc # "off",
             pc = "gone" \/ a.pc \in {"look", "download"}
      PROVE  AgentOK(j)' /\ AgentMoves(j)
  <2>1. agent' = [agent EXCEPT ![j] = [a EXCEPT !.pc = pc]]
    BY <1>g DEF Goes
  <2>2. agent'[j] = [a EXCEPT !.pc = pc]
    BY <1>0, <2>1
  <2> DEFINE b == [a EXCEPT !.pc = pc]
  <2>3. /\ b \in AgentState /\ b.pc = pc /\ b.out = a.out /\ b.served = a.served
        /\ b.key = a.key /\ b.restore = a.restore /\ b.server = a.server
    BY <1>0 DEF AgentState
  <2>4. AgentOK(j)'
    BY <2>2, <2>3, <1>g DEF AgentOK, PastLaunch
  <2>5. AgentMoves(j)
    BY <2>1, <2>2, <2>3, <1>g DEF AgentMoves
  <2> QED BY <2>4, <2>5
<1>1. CASE PrintStarted(j)
  <2> DEFINE pc == IF a.fetch THEN "look" ELSE "launch"
  <2> DEFINE b == [a EXCEPT !.pc = pc, !.out = Append(@, "STARTED")]
  <2>1. agent' = [agent EXCEPT ![j] = b] /\ a.pc = "boot"
    BY <1>1 DEF PrintStarted, Prints, AgentAt
  <2>2. agent'[j] = b
    BY <1>0, <2>1
  <2>3. b.out \in Seq(Word) /\ \A i \in DOMAIN b.out : b.out[i] = "STARTED" \/ \E k \in DOMAIN a.out : b.out[i] = a.out[k]
    <3>1. "STARTED" \in Word BY DEF Word
    <3>2. b.out = Append(a.out, "STARTED") BY <1>0 DEF AgentState
    <3> QED BY <1>q, <3>1, <3>2, LineAdded
  <2>4. AgentOK(j)'
    <3>1. \A i \in DOMAIN b.out : /\ b.out[i] \in {"READY", "SAVED", "UNSAVED"} => b.served = Group
                                   /\ b.out[i] # "SAVED"
      BY <1>0, <2>1, <2>3 DEF AgentOK, AgentState
    <3>2. b.server = a.server /\ b.served = a.served /\ b.pc \in {"look", "launch"}
      BY <1>0 DEF AgentState
    <3> QED BY <2>2, <3>1, <3>2 DEF AgentOK, PastLaunch
  <2>5. AgentMoves(j)
    <3>1. b \in AgentState BY <1>0, <2>3 DEF AgentState, Word
    <3> QED BY <1>0, <2>1, <2>2, <3>1 DEF AgentMoves, AgentState
  <2> QED BY <2>4, <2>5, <1>v, <1>1 DEF PrintStarted
<1>2. CASE EnsureWeights(j)
  BY <1>2, <1>g, <1>v DEF EnsureWeights, AgentAt
<1>3. CASE DownloadHere(j)
  <2>1. CASE WeightsComplete
    <3>1. UNCHANGED catalogVars /\ Goes(j, "launch") /\ a.pc = "download"
      BY <1>3, <2>1 DEF DownloadHere, catalogVars, AgentAt
    <3> QED BY <3>1, <1>g, <1>v
  <2>2. CASE ~WeightsComplete
    <3>1. agent' = agent /\ Download /\ a.pc = "download" /\ UNCHANGED <<arts, tar, deleted, sync, repair>>
      BY <1>3, <2>2 DEF DownloadHere, AgentAt
    <3>2. VolumesGrow
      BY <1>0, <3>1, DownloadGrows DEF VolumesGrow, OnVolume
    <3> QED BY <1>0, <3>1, <3>2 DEF AgentMoves, AgentOK
  <2> QED BY <2>1, <2>2
<1>4. CASE RestoreKey(j) \/ RestoreTar(j)
  <2>1. PICK b \in AgentState :
            /\ agent' = [agent EXCEPT ![j] = b] /\ a.pc # "off"
            /\ b.pc = a.pc /\ b.server = a.server /\ b.served = a.served /\ b.out = a.out
            /\ b.key = a.key /\ b.restore = a.restore
    <3>1. CASE RestoreKey(j)
      <4> DEFINE b == [a EXCEPT !.restorer = IF ~HasConfig THEN "dead" ELSE IF a.restore THEN "tar" ELSE "done"]
      <4>1. b \in AgentState BY <1>0 DEF AgentState
      <4>2. agent' = [agent EXCEPT ![j] = b] BY <3>1 DEF RestoreKey
      <4>3. /\ b.pc = a.pc /\ b.server = a.server /\ b.served = a.served /\ b.out = a.out
            /\ b.key = a.key /\ b.restore = a.restore
        BY <1>0 DEF AgentState
      <4>4. a.pc # "off" BY <3>1 DEF RestoreKey, Launched, Alive
      <4> HIDE DEF b
      <4> QED BY <4>1, <4>2, <4>3, <4>4
    <3>2. CASE RestoreTar(j)
      <4> DEFINE b == [a EXCEPT !.restorer = "done", !.cache = IF tar THEN "hit" ELSE "miss"]
      <4>1. b \in AgentState BY <1>0 DEF AgentState
      <4>2. agent' = [agent EXCEPT ![j] = b] BY <3>2 DEF RestoreTar
      <4>3. /\ b.pc = a.pc /\ b.server = a.server /\ b.served = a.served /\ b.out = a.out
            /\ b.key = a.key /\ b.restore = a.restore
        BY <1>0 DEF AgentState
      <4>4. a.pc # "off" BY <3>2 DEF RestoreTar, Launched, Alive
      <4> HIDE DEF b
      <4> QED BY <4>1, <4>2, <4>3, <4>4
    <3> QED BY <1>4, <3>1, <3>2
  <2>2. agent'[j] = b
    BY <1>0, <2>1
  <2>3. AgentOK(j)' /\ AgentMoves(j)
    BY <1>0, <2>1, <2>2 DEF AgentOK, AgentMoves
  <2> QED BY <2>3, <1>v, <1>4 DEF RestoreKey, RestoreTar
<1>5. ASSUME NEW g \in Group, GroupServes(j, g) PROVE AgentOK(j)' /\ AgentMoves(j) /\ VolumesGrow
  <2> DEFINE b == [a EXCEPT !.server[g] = "up", !.served = @ \cup {g}]
  <2>1. agent' = [agent EXCEPT ![j] = b] /\ a.pc = "launch" /\ WeightsComplete
    BY <1>5 DEF GroupServes, AgentAt
  <2>2. agent'[j] = b
    BY <1>0, <2>1
  <2>3. /\ b \in AgentState /\ b.pc = "launch" /\ b.out = a.out /\ b.served = a.served \cup {g}
        /\ b.key = a.key /\ b.restore = a.restore /\ b.server = [a.server EXCEPT ![g] = "up"]
    BY <1>0, <2>1 DEF AgentState
  <2>4. \A h \in Group : b.server[h] \in {"up", "down"} => h \in b.served
    BY <1>0, <2>3 DEF AgentOK, AgentState
  <2>5. a.served \subseteq Group
    BY <1>0 DEF AgentState
  <2>6. AgentOK(j)'
    BY <2>1, <2>2, <2>3, <2>4, <2>5 DEF AgentOK, PastLaunch
  <2>7. AgentMoves(j)
    BY <2>1, <2>2, <2>3 DEF AgentMoves
  <2> QED BY <2>6, <2>7, <1>v, <1>5 DEF GroupServes
<1>6. ASSUME NEW g \in Group, GroupFails(j, g) \/ ServerExits(j, g) PROVE AgentOK(j)' /\ AgentMoves(j) /\ VolumesGrow
  <2>1. PICK to \in {"failed", "down"} :
            /\ agent' = [agent EXCEPT ![j] = [a EXCEPT !.server[g] = to]]
            /\ a.pc # "off" /\ (to = "down" => a.server[g] = "up")
    BY <1>6 DEF GroupFails, ServerExits, Launched, Alive, AgentAt
  <2> DEFINE b == [a EXCEPT !.server[g] = to]
  <2>2. agent'[j] = b
    BY <1>0, <2>1
  <2>3. /\ b \in AgentState /\ b.pc = a.pc /\ b.out = a.out /\ b.served = a.served
        /\ b.key = a.key /\ b.restore = a.restore /\ b.server = [a.server EXCEPT ![g] = to]
    BY <1>0, <2>1 DEF AgentState
  <2>4. \A h \in Group : b.server[h] \in {"up", "down"} => h \in b.served
    BY <1>0, <2>1, <2>3 DEF AgentOK, AgentState
  <2>6. AgentOK(j)'
    BY <2>2, <2>3, <2>4 DEF AgentOK
  <2>7. AgentMoves(j)
    BY <2>1, <2>2, <2>3 DEF AgentMoves
  <2> QED BY <2>6, <2>7, <1>v, <1>6 DEF GroupFails, ServerExits
<1>7. CASE LaunchDone(j)
  <2>1. CASE \E g \in Group : a.server[g] = "failed"
    BY <1>7, <2>1, <1>g, <1>v DEF LaunchDone, Exits, AgentAt
  <2>2. CASE \A g \in Group : a.server[g] # "failed"
    <3> DEFINE b == [a EXCEPT !.pc = "join"]
    <3>1. agent' = [agent EXCEPT ![j] = b] /\ a.pc = "launch" /\ UNCHANGED catalogVars
      BY <1>7, <2>2 DEF LaunchDone, Goes, AgentAt
    <3>2. agent'[j] = b
      BY <1>0, <3>1
    <3>3. /\ b \in AgentState /\ b.pc = "join" /\ b.out = a.out /\ b.served = a.served
          /\ b.key = a.key /\ b.restore = a.restore /\ b.server = a.server
      BY <1>0 DEF AgentState
    <3>4. a.served = Group
      <4>1. \A g \in Group : a.server[g] \in {"up", "down"}
        BY <1>0, <1>7, <2>2 DEF LaunchDone, AgentState
      <4> QED BY <1>0, <4>1 DEF AgentOK, AgentState
    <3>5. AgentOK(j)'
      BY <3>1, <3>2, <3>3, <3>4 DEF AgentOK, PastLaunch
    <3>6. AgentMoves(j)
      BY <3>1, <3>2, <3>3 DEF AgentMoves
    <3> QED BY <3>1, <3>5, <3>6, <1>v
  <2> QED BY <2>1, <2>2
<1>p. ASSUME NEW b \in AgentState, NEW line \in {"READY", "SAVED", "UNSAVED"},
             agent' = [agent EXCEPT ![j] = b], b.out = Append(a.out, line),
             b.server = a.server, b.served = a.served, b.restore = a.restore, a.served = Group,
             b.pc \in {"ready", "serve"}, b.key = a.key \/ b.pc = "ready", a.pc \in {"join", "ready", "replace"},
             line = "SAVED" => b.key /\ ~b.restore /\ b.pc = "serve"
      PROVE  AgentOK(j)' /\ AgentMoves(j)
  <2>1. agent'[j] = b
    BY <1>0, <1>p
  <2>2. \A i \in DOMAIN b.out : b.out[i] = line \/ \E k \in DOMAIN a.out : b.out[i] = a.out[k]
    <3>1. line \in Word BY DEF Word
    <3> QED BY <1>q, <1>p, <3>1, LineAdded
  <2>3. \A k \in DOMAIN a.out : a.out[k] # "SAVED"
    BY <1>p DEF AgentOK
  <2>4. AgentOK(j)'
    BY <1>p, <2>1, <2>2, <2>3 DEF AgentOK, PastLaunch
  <2>5. AgentMoves(j)
    BY <1>p, <2>1 DEF AgentMoves
  <2> QED BY <2>4, <2>5
<1>8. CASE PrintReady(j)
  <2> DEFINE key == a.restorer \in {"tar", "done"}
             hit == a.cache = "hit"
             b == [a EXCEPT !.pc = "ready", !.out = Append(@, "READY"), !.key = key, !.hit = hit]
  <2>0. key \in BOOLEAN /\ hit \in BOOLEAN
    OBVIOUS
  <2>1. agent' = [agent EXCEPT ![j] = b] /\ a.pc = "join"
    BY <1>8 DEF PrintReady, AgentAt
  <2> HIDE DEF key, hit
  <2>2. Append(a.out, "READY") \in Seq(Word)
    BY <1>q, LineAdded DEF Word
  <2>3. /\ b \in AgentState /\ b.pc = "ready" /\ b.out = Append(a.out, "READY") /\ b.served = a.served
        /\ b.restore = a.restore /\ b.server = a.server
    BY <1>0, <2>0, <2>2 DEF AgentState, Word
  <2>4. a.served = Group
    BY <2>1 DEF AgentOK, PastLaunch
  <2>5. AgentOK(j)' /\ AgentMoves(j)
    BY <1>p, <2>1, <2>3, <2>4
  <2> QED BY <2>5, <1>v, <1>8 DEF PrintReady
<1>9. CASE WriteBack(j)
  <2>1. CASE ~a.restore /\ ~a.hit /\ Goes(j, "save")
    <3> DEFINE b == [a EXCEPT !.pc = "save"]
    <3>1. agent' = [agent EXCEPT ![j] = b] /\ a.pc = "ready"
      BY <1>9, <2>1 DEF WriteBack, Goes, AgentAt
    <3>2. agent'[j] = b
      BY <1>0, <3>1
    <3>3. /\ b \in AgentState /\ b.pc = "save" /\ b.out = a.out /\ b.served = a.served
          /\ b.key = a.key /\ b.restore = a.restore /\ b.server = a.server
      BY <1>0 DEF AgentState
    <3>5. AgentOK(j)'
      BY <2>1, <3>1, <3>2, <3>3 DEF AgentOK, PastLaunch
    <3>6. AgentMoves(j)
      BY <3>1, <3>2, <3>3 DEF AgentMoves
    <3> QED BY <3>5, <3>6, <1>v, <1>9 DEF WriteBack
  <2>2. CASE Prints(j, "serve", "UNSAVED")
    <3> DEFINE b == [a EXCEPT !.pc = "serve", !.out = Append(@, "UNSAVED")]
    <3>1. agent' = [agent EXCEPT ![j] = b] /\ a.pc = "ready"
      BY <1>9, <2>2 DEF WriteBack, Prints, AgentAt
    <3>2. Append(a.out, "UNSAVED") \in Seq(Word)
      BY <1>q, LineAdded DEF Word
    <3>3. /\ b \in AgentState /\ b.pc = "serve" /\ b.out = Append(a.out, "UNSAVED") /\ b.served = a.served
          /\ b.restore = a.restore /\ b.server = a.server /\ b.key = a.key
      BY <1>0, <3>2 DEF AgentState, Word
    <3>4. a.served = Group
      BY <3>1 DEF AgentOK, PastLaunch
    <3>5. AgentOK(j)' /\ AgentMoves(j)
      BY <1>p, <3>1, <3>3, <3>4
    <3> QED BY <3>5, <1>v, <1>9 DEF WriteBack
  <2> QED BY <1>9, <2>1, <2>2 DEF WriteBack
<1>10. CASE SaveTar(j)
  <2>1. CASE ~a.key
    BY <1>10, <2>1, <1>g, <1>v DEF SaveTar, Exits, AgentAt
  <2>2. CASE a.key
    <3> DEFINE b == [a EXCEPT !.pc = "replace"]
    <3>1. agent' = [agent EXCEPT ![j] = b] /\ a.pc = "save"
      BY <1>10, <2>2 DEF SaveTar, Goes, AgentAt
    <3>2. agent'[j] = b
      BY <1>0, <3>1
    <3>3. /\ b \in AgentState /\ b.pc = "replace" /\ b.out = a.out /\ b.served = a.served
          /\ b.key = a.key /\ b.restore = a.restore /\ b.server = a.server
      BY <1>0 DEF AgentState
    <3>5. AgentOK(j)'
      BY <2>2, <3>1, <3>2, <3>3 DEF AgentOK, PastLaunch
    <3>6. AgentMoves(j)
      BY <3>1, <3>2, <3>3 DEF AgentMoves
    <3> QED BY <3>5, <3>6, <1>v, <1>10 DEF SaveTar
  <2> QED BY <2>1, <2>2
<1>11. CASE ReplaceTar(j)
  <2> DEFINE b == [a EXCEPT !.pc = "serve", !.out = Append(@, "SAVED")]
  <2>1. agent' = [agent EXCEPT ![j] = b] /\ a.pc = "replace" /\ tar' = TRUE /\ UNCHANGED <<arts, weights, deleted, sync, repair>>
    BY <1>11 DEF ReplaceTar, Prints, AgentAt
  <2>2. Append(a.out, "SAVED") \in Seq(Word)
    BY <1>q, LineAdded DEF Word
  <2>3. /\ b \in AgentState /\ b.pc = "serve" /\ b.out = Append(a.out, "SAVED") /\ b.served = a.served
        /\ b.restore = a.restore /\ b.server = a.server /\ b.key = a.key
    BY <1>0, <2>2 DEF AgentState, Word
  <2>4. a.served = Group /\ a.key /\ ~a.restore
    BY <2>1 DEF AgentOK, PastLaunch
  <2>5. AgentOK(j)' /\ AgentMoves(j)
    BY <1>p, <2>1, <2>3, <2>4
  <2>6. VolumesGrow
    BY <1>0, <2>1 DEF VolumesGrow, WeightsComplete, OnVolume
  <2> QED BY <2>5, <2>6
<1>12. CASE AgentEnds(j) \/ AgentRaises(j) \/ SandboxEnds(j)
  BY <1>12, <1>g, <1>v DEF AgentEnds, AgentRaises, SandboxEnds, Exits, AgentAt, Alive
<1> QED
  BY <1>1, <1>2, <1>3, <1>4, <1>5, <1>6, <1>7, <1>8, <1>9, <1>10, <1>11, <1>12
     DEF AgentNext, AgentMain, AgentThreads

-----------------------------------------------------------------------------
(* Part 2: one step of one job                                             *)

Early == {"new", "check", "replan", "prep", "record", "replan_prep", "claim"}
Late == {"prove", "validate", "written", "register", "serving"}

(* A job has no agent before it claims a GPU; it reads READY, and goes on  *)
(* from there, only if all groups have served.                             *)
JobOK(j) ==
    /\ job[j].pc \in Early => agent[j] = NoAgent
    /\ job[j].got \cap {"READY", "SAVED", "UNSAVED"} # {} => agent[j].served = Group
    /\ job[j].pc \in Late => agent[j].served = Group

(* Only late_claim prepares weights.                                       *)
PrepOK(j) == job[j].pc \in {"prep", "record", "replan_prep"} => Policy[j] = "late_claim"

(* As long as nobody deletes: what claims that the checkpoint is complete, *)
(* is right.  (The catalog itself is not believed until it was checked or  *)
(* cleared, at "replan".)                                                  *)
PcOK(j) ==
    /\ Policy[j] = "late_claim" /\ job[j].pc \in {"record", "replan_prep", "claim"} => WeightsComplete
    /\ job[j].pc = "replan" /\ Find("weights") => WeightsComplete
    /\ agent[j].served # {} => WeightsComplete

(* A new catalog entry for the weights is one for a complete checkpoint.   *)
EntryIsTrue == Find("weights")' => Find("weights") \/ (deleted = 0 => WeightsComplete)

(* What a plan decides, as a step of the job's record.                     *)
LEMMA PlanStep ==
    ASSUME TypeOK, NEW j \in Start, NEW p, NEW q, PlanThen(j, p, q)
    PROVE  \E onVolume, hit \in BOOLEAN :
              job' = [job EXCEPT ![j] = [job[j] EXCEPT !.onVolume = onVolume, !.hit = hit,
                                                      !.pc = IF Find("weights") THEN p ELSE q]]
<1> DEFINE listed == Find("weights")
<1>1. PICK readable \in Answers(HasConfig) :
          job' = [job EXCEPT ![j].onVolume = listed, ![j].hit = listed /\ readable /\ Find("compile"),
                             ![j].pc = IF listed THEN p ELSE q]
  BY DEF PlanThen
<1> DEFINE hit == listed /\ readable /\ Find("compile")
<1>2. listed \in BOOLEAN /\ hit \in BOOLEAN
  BY DEF Find, Answers
<1>3. job \in [Start -> JobState]
  BY DEF TypeOK
<1> HIDE DEF listed, hit
<1>4. job' = [job EXCEPT ![j] = [job[j] EXCEPT !.onVolume = listed, !.hit = hit, !.pc = IF listed THEN p ELSE q]]
  BY <1>1, <1>3 DEF JobState, hit
<1> QED BY <1>2, <1>4 DEF listed

(* The same for a step that only goes on.                                  *)
LEMMA GoStep ==
    ASSUME TypeOK, NEW j \in Start, NEW pc, JobGoes(j, pc)
    PROVE  job' = [job EXCEPT ![j] = [job[j] EXCEPT !.pc = pc]]
BY DEF TypeOK, JobGoes, JobState

(* A step of j's job changes its own record, and that of its agent.        *)
JobMoves(j) ==
    /\ job' = [job EXCEPT ![j] = job'[j]]
    /\ job'[j] \in JobState
    /\ agent' = [agent EXCEPT ![j] = agent'[j]]
    /\ agent'[j] \in AgentState /\ agent'[j].served = agent[j].served

(* And how the catalog and the volumes may change with it.                 *)
EntriesTrue ==
    /\ WeightsComplete => WeightsComplete'
    /\ \A k \in Key : OnVolume(k) => OnVolume(k)'
    /\ UNCHANGED <<deleted, sync, repair>>
    /\ arts' \in [Key -> {"absent", "listed", "proven"}]
    /\ weights' \in Checkpoint /\ tar' \in BOOLEAN
    /\ EntryIsTrue

Kept(j) == AgentOK(j)' /\ JobOK(j)' /\ PrepOK(j)' /\ (deleted = 0 => PcOK(j)')

(* Every action of a job keeps what is true of it and its agent.           *)
LEMMA JobStep ==
    ASSUME TypeOK, NEW j \in Start, AgentOK(j), JobOK(j), PrepOK(j), deleted = 0 => PcOK(j),
           JobNext(j) \/ Cancelled(j)
    PROVE  Kept(j) /\ JobMoves(j) /\ EntriesTrue
<1> DEFINE c == job[j]
           a == agent[j]
<1>0. /\ job \in [Start -> JobState] /\ c \in JobState
      /\ agent \in [Start -> AgentState] /\ a \in AgentState
      /\ arts \in [Key -> {"absent", "listed", "proven"}]
      /\ weights \in Checkpoint /\ tar \in BOOLEAN
      /\ "weights" \in Key /\ "compile" \in Key /\ "weights" # "compile"
  BY DEF TypeOK, AgentTypeOK, CatalogTypeOK, Key
<1>u. ASSUME UNCHANGED catalogVars PROVE EntriesTrue
  BY <1>0, <1>u DEF EntriesTrue, EntryIsTrue, Find, catalogVars, WeightsComplete, OnVolume
<1>r. ASSUME arts' \in [Key -> {"absent", "listed", "proven"}],
             arts'["weights"] # "absent" => Find("weights") \/ (deleted = 0 => WeightsComplete),
             UNCHANGED <<volumeVars, sync, repair>>
      PROVE  EntriesTrue
  BY <1>0, <1>r DEF EntriesTrue, EntryIsTrue, Find, volumeVars, WeightsComplete, OnVolume
(* A step that moves the job on and leaves the agent alone.                *)
<1>g. ASSUME NEW b \in JobState, job' = [job EXCEPT ![j] = b], agent' = agent,
             b.got = c.got,
             b.pc \in Early => c.pc \in Early,
             b.pc \in Late => a.served = Group,
             b.pc \in {"prep", "record", "replan_prep"} => Policy[j] = "late_claim",
             deleted = 0 /\ Policy[j] = "late_claim" /\ b.pc \in {"record", "replan_prep", "claim"} => WeightsComplete',
             deleted = 0 /\ b.pc = "replan" /\ Find("weights")' => WeightsComplete',
             WeightsComplete => WeightsComplete'
      PROVE  Kept(j) /\ JobMoves(j)
  <2>1. job'[j] = b
    BY <1>0, <1>g
  <2>2. AgentOK(j)'
    BY <1>g DEF AgentOK
  <2>3. JobOK(j)' /\ PrepOK(j)'
    BY <2>1, <1>g DEF JobOK, PrepOK
  <2>4. deleted = 0 => PcOK(j)'
    BY <2>1, <1>g DEF PcOK
  <2>5. JobMoves(j)
    BY <2>1, <1>0, <1>g DEF JobMoves
  <2> QED BY <2>2, <2>3, <2>4, <2>5 DEF Kept
<1>1. CASE Plan(j) \/ Replan(j) \/ ReplanAfterPrep(j)
  <2>1. PICK p \in {"check", "claim"}, q \in {"prep", "claim"} :
          /\ PlanThen(j, p, q) /\ UNCHANGED <<agent, catalogVars>> /\ c.pc \in {"new", "replan", "replan_prep"}
          /\ p = "claim" => c.pc \in {"replan", "replan_prep"}
          /\ q = "prep" => Policy[j] = "late_claim"
          /\ q = "claim" => Policy[j] # "late_claim" \/ c.pc = "replan_prep"
    BY <1>1 DEF Plan, Replan, ReplanAfterPrep, Fetch, JobAt
  <2>2. PICK onVolume \in BOOLEAN, hit \in BOOLEAN :
          job' = [job EXCEPT ![j] = [c EXCEPT !.onVolume = onVolume, !.hit = hit, !.pc = IF Find("weights") THEN p ELSE q]]
    BY <2>1, PlanStep
  <2> DEFINE b == [c EXCEPT !.onVolume = onVolume, !.hit = hit, !.pc = IF Find("weights") THEN p ELSE q]
  <2>3. b \in JobState /\ b.got = c.got /\ b.pc = IF Find("weights") THEN p ELSE q
    BY <1>0 DEF JobState
  <2>4. UNCHANGED arts /\ WeightsComplete' = WeightsComplete /\ agent' = agent
    BY <2>1 DEF catalogVars, WeightsComplete
  <2>5. deleted = 0 /\ Policy[j] = "late_claim" /\ b.pc = "claim" => WeightsComplete
    BY <2>1, <2>3 DEF PcOK
  <2>6. b.pc \in {"check", "claim", "prep"} /\ (b.pc = "prep" => Policy[j] = "late_claim")
    BY <2>1, <2>3
  <2>7. c.pc \in Early /\ b.pc \notin Late
    BY <2>1, <2>6 DEF Early, Late
  <2> HIDE DEF b
  <2>8. Kept(j) /\ JobMoves(j)
    BY <1>g, <2>2, <2>3, <2>4, <2>5, <2>6, <2>7 DEF b
  <2> QED BY <1>u, <2>1, <2>8
<1>h. ASSUME NEW pc \in Early \cup Late \cup {"failed"}, JobGoes(j, pc)
      PROVE  \E b \in JobState : job' = [job EXCEPT ![j] = b] /\ b.pc = pc /\ b.got = c.got
  <2> DEFINE b == [c EXCEPT !.pc = pc]
  <2>1. job' = [job EXCEPT ![j] = b]
    BY <1>h, GoStep
  <2>2. b \in JobState /\ b.pc = pc /\ b.got = c.got
    BY <1>0 DEF JobState, Early, Late
  <2> QED BY <2>1, <2>2
<1>2. CASE CheckWeights(j)
  <2>1. CASE WeightsComplete /\ JobGoes(j, "claim") /\ UNCHANGED arts
    <3>1. PICK b \in JobState : job' = [job EXCEPT ![j] = b] /\ b.pc = "claim" /\ b.got = c.got
      BY <2>1, <1>h DEF Early
    <3>2. UNCHANGED <<agent, catalogVars>> /\ c.pc = "check"
      BY <1>2, <2>1 DEF CheckWeights, JobAt, catalogVars, volumeVars
    <3>3. WeightsComplete'
      BY <2>1, <3>2 DEF WeightsComplete, catalogVars
    <3>4. Kept(j) /\ JobMoves(j)
      BY <1>g, <3>1, <3>2, <3>3 DEF Early, Late
    <3> QED BY <3>2, <3>4, <1>u
  <2>2. CASE Remove("weights") /\ JobGoes(j, "replan")
    <3>1. PICK b \in JobState : job' = [job EXCEPT ![j] = b] /\ b.pc = "replan" /\ b.got = c.got
      BY <2>2, <1>h DEF Early
    <3>2. UNCHANGED <<agent, volumeVars, sync, repair>> /\ c.pc = "check"
      BY <1>2 DEF CheckWeights, JobAt
    <3>3. WeightsComplete' = WeightsComplete /\ ~Find("weights")'
      BY <1>0, <2>2, <3>2 DEF WeightsComplete, volumeVars, Remove, Find
    <3>4. Kept(j) /\ JobMoves(j)
      BY <1>g, <3>1, <3>2, <3>3 DEF Early, Late
    <3>5. EntriesTrue
      BY <1>0, <1>r, <2>2, <3>2 DEF Remove
    <3> QED BY <3>4, <3>5
  <2>3. CASE JobGoes(j, "failed") /\ UNCHANGED arts
    <3>1. PICK b \in JobState : job' = [job EXCEPT ![j] = b] /\ b.pc = "failed" /\ b.got = c.got
      BY <2>3, <1>h
    <3>2. UNCHANGED <<agent, catalogVars>> /\ WeightsComplete' = WeightsComplete
      BY <1>2, <2>3 DEF CheckWeights, catalogVars, volumeVars, WeightsComplete
    <3>3. Kept(j) /\ JobMoves(j)
      BY <1>g, <3>1, <3>2 DEF Early, Late
    <3> QED BY <3>2, <3>3, <1>u
  <2> QED BY <1>2, <2>1, <2>2, <2>3 DEF CheckWeights
<1>3. CASE PrepDownloads(j)
  <2>1. /\ job' = job /\ agent' = agent /\ Download /\ UNCHANGED <<arts, tar, deleted, sync, repair>>
        /\ ~WeightsComplete
    BY <1>3 DEF PrepDownloads
  <2>2. EntriesTrue
    BY <1>0, <2>1, DownloadGrows DEF EntriesTrue, EntryIsTrue, OnVolume, Find
  <2>3. job' = [job EXCEPT ![j] = c] /\ (WeightsComplete => WeightsComplete')
    BY <1>0, <2>1
  <2>4. Kept(j)
    BY <2>1, <2>3 DEF Kept, AgentOK, JobOK, PrepOK, PcOK, Find
  <2>5. JobMoves(j)
    BY <1>0, <2>1 DEF JobMoves
  <2> QED BY <2>2, <2>4, <2>5
<1>4. CASE PrepDone(j)
  <2>1. PICK b \in JobState : job' = [job EXCEPT ![j] = b] /\ b.pc = "record" /\ b.got = c.got
    BY <1>4, <1>h DEF Early, PrepDone
  <2>2. UNCHANGED <<agent, catalogVars>> /\ c.pc = "prep" /\ WeightsComplete
    BY <1>4 DEF PrepDone, JobAt
  <2>3. WeightsComplete' /\ Policy[j] = "late_claim"
    BY <2>2 DEF WeightsComplete, catalogVars, PrepOK
  <2>4. Kept(j) /\ JobMoves(j)
    BY <1>g, <2>1, <2>2, <2>3 DEF Early, Late
  <2> QED BY <2>2, <2>4, <1>u
<1>5. CASE PrepFails(j) \/ StreamEnds(j) \/ AddEngines(j) \/ Cancelled(j)
  <2>1. PICK pc \in {"failed", "prove", "serving"} :
          /\ JobGoes(j, pc) /\ UNCHANGED <<agent, catalogVars>>
          /\ pc = "prove" => "READY" \in c.got
          /\ pc = "serving" => c.pc = "register"
    BY <1>5 DEF PrepFails, StreamEnds, AddEngines, Cancelled, JobAt
  <2>2. PICK b \in JobState : job' = [job EXCEPT ![j] = b] /\ b.pc = pc /\ b.got = c.got
    BY <2>1, <1>h DEF Late
  <2>3. b.pc \in Late => a.served = Group
    BY <2>1, <2>2 DEF JobOK, Late
  <2>4. WeightsComplete' = WeightsComplete /\ b.pc \notin Early
    BY <2>1, <2>2 DEF WeightsComplete, catalogVars, Early
  <2>5. Kept(j) /\ JobMoves(j)
    BY <1>g, <2>1, <2>2, <2>3, <2>4
  <2> QED BY <2>1, <2>5, <1>u
<1>6. CASE RecordWeights(j)
  <2>1. PICK b \in JobState : job' = [job EXCEPT ![j] = b] /\ b.pc = "replan_prep" /\ b.got = c.got
    BY <1>6, <1>h DEF Early, RecordWeights
  <2>2. UNCHANGED <<agent, volumeVars, sync, repair>> /\ c.pc = "record" /\ Register("weights", FALSE)
    BY <1>6 DEF RecordWeights, JobAt
  <2>3. Policy[j] = "late_claim" /\ (deleted = 0 => WeightsComplete) /\ WeightsComplete' = WeightsComplete
    BY <2>2 DEF PrepOK, PcOK, WeightsComplete, volumeVars
  <2>4. Kept(j) /\ JobMoves(j)
    BY <1>g, <2>1, <2>2, <2>3 DEF Early, Late
  <2>5. EntriesTrue
    BY <1>0, <1>r, <2>2, <2>3 DEF Register, Find
  <2> QED BY <2>4, <2>5
<1>7. CASE ProveWeights(j) \/ ValidateCache(j) \/ RegisterCache(j)
  <2>1. PICK pc \in {"validate", "written", "register"} : JobGoes(j, pc)
    BY <1>7 DEF ProveWeights, ValidateCache, RegisterCache
  <2>2. UNCHANGED <<agent, volumeVars, sync, repair>> /\ c.pc \in Late
    BY <1>7 DEF ProveWeights, ValidateCache, RegisterCache, JobAt, Late
  <2>3. PICK b \in JobState : job' = [job EXCEPT ![j] = b] /\ b.pc = pc /\ b.got = c.got
    BY <2>1, <1>h DEF Late
  <2>4. a.served = Group /\ WeightsComplete' = WeightsComplete
    BY <2>2 DEF JobOK, WeightsComplete, volumeVars
  <2>5. Kept(j) /\ JobMoves(j)
    BY <1>g, <2>2, <2>3, <2>4 DEF Early
  <2>6. deleted = 0 => WeightsComplete
    BY <2>4, GroupAssumption DEF PcOK
  <2>7. ASSUME Register("weights", TRUE) PROVE EntriesTrue
    <3>1. arts' \in [Key -> {"absent", "listed", "proven"}]
      BY <1>0, <2>7 DEF Register
    <3> QED BY <1>r, <2>2, <2>6, <3>1
  <2>8. ASSUME Register("compile", FALSE) \/ Validate("compile") \/ UNCHANGED arts PROVE EntriesTrue
    <3>1. arts' \in [Key -> {"absent", "listed", "proven"}] /\ arts'["weights"] = arts["weights"]
      BY <1>0, <2>8 DEF Register, Validate
    <3> QED BY <1>r, <2>2, <3>1 DEF Find
  <2>9. EntriesTrue
    BY <1>7, <2>7, <2>8 DEF ProveWeights, ValidateCache, RegisterCache
  <2> QED BY <2>5, <2>9
<1>8. CASE ClaimGpu(j)
  <2>1. PICK b \in JobState : job' = [job EXCEPT ![j] = b] /\ b.pc = "wait" /\ b.got = c.got
    <3> DEFINE b == [c EXCEPT !.pc = "wait"]
    <3>1. job' = [job EXCEPT ![j] = b]
      BY <1>8, GoStep DEF ClaimGpu
    <3>2. b \in JobState /\ b.pc = "wait" /\ b.got = c.got
      BY <1>0 DEF JobState
    <3> QED BY <3>1, <3>2
  <2>2. c.pc = "claim" /\ UNCHANGED catalogVars /\ a = NoAgent
    BY <1>8 DEF ClaimGpu, JobAt, JobOK, Early
  <2>3. PICK restore \in BOOLEAN, fetch \in BOOLEAN :
          agent' = [agent EXCEPT ![j] = [a EXCEPT !.pc = "boot", !.restore = restore, !.fetch = fetch]]
    <3> DEFINE fetch == Policy[j] = "asap" /\ ~c.onVolume
    <3>1. fetch \in BOOLEAN /\ c.hit \in BOOLEAN
      BY <1>0 DEF JobState
    <3>2. agent' = [agent EXCEPT ![j].pc = "boot", ![j].restore = c.hit, ![j].fetch = fetch]
      BY <1>8 DEF ClaimGpu
    <3> HIDE DEF fetch
    <3>3. agent' = [agent EXCEPT ![j] = [a EXCEPT !.pc = "boot", !.restore = c.hit, !.fetch = fetch]]
      BY <1>0, <3>2 DEF AgentState
    <3> QED BY <3>1, <3>3
  <2> DEFINE d == [a EXCEPT !.pc = "boot", !.restore = restore, !.fetch = fetch]
  <2>4. d \in AgentState /\ d.pc = "boot" /\ d.out = a.out /\ d.served = a.served /\ d.server = a.server
    BY <1>0 DEF AgentState
  <2>0. a.out = <<>>
    BY <2>2 DEF NoAgent
  <2>5. agent'[j] = d /\ job'[j] = b
    BY <1>0, <2>1, <2>3
  <2> HIDE DEF d
  <2>6. AgentOK(j)'
    BY <2>0, <2>4, <2>5 DEF AgentOK, PastLaunch
  <2>7. JobOK(j)' /\ PrepOK(j)'
    BY <2>1, <2>4, <2>5 DEF JobOK, PrepOK, Early, Late
  <2>8. deleted = 0 => PcOK(j)'
    BY <2>1, <2>2, <2>4, <2>5 DEF PcOK, WeightsComplete, catalogVars
  <2>9. JobMoves(j)
    BY <1>0, <2>1, <2>3, <2>4, <2>5 DEF JobMoves, d
  <2> QED BY <1>u, <2>2, <2>6, <2>7, <2>8, <2>9 DEF Kept
<1>9. CASE ReadLine(j)
  <2> DEFINE line == Head(a.out)
             b == [c EXCEPT !.got = @ \cup {line},
                            !.pc = IF line \in {"SAVED", "UNSAVED"} \/ (line = "READY" /\ a.restore) THEN "prove" ELSE @]
             d == [a EXCEPT !.out = Tail(@)]
  <2>1. c.pc = "wait" /\ a.out # <<>> /\ UNCHANGED catalogVars
    BY <1>9 DEF ReadLine, JobAt
  <2>2. a.out \in Seq(Word)
    BY <1>0 DEF AgentState, Word
  <2>3. /\ Tail(a.out) \in Seq(Word) /\ line \in Word /\ \E k \in DOMAIN a.out : line = a.out[k]
        /\ \A i \in DOMAIN Tail(a.out) : \E k \in DOMAIN a.out : Tail(a.out)[i] = a.out[k]
    BY <2>1, <2>2, LineRead
  <2>4. job' = [job EXCEPT ![j] = b]
    BY <1>0, <1>9 DEF ReadLine, JobState
  <2>5. agent' = [agent EXCEPT ![j] = d]
    BY <1>0, <1>9 DEF ReadLine, AgentState
  <2>6. /\ d \in AgentState /\ d.out = Tail(a.out) /\ d.pc = a.pc /\ d.server = a.server /\ d.served = a.served
        /\ d.key = a.key /\ d.restore = a.restore
    BY <1>0, <2>3 DEF AgentState, Word
  <2> HIDE DEF line
  <2>7. b \in JobState /\ b.got = c.got \cup {line} /\ b.pc \in {"wait", "prove"}
    BY <1>0, <2>1, <2>3 DEF JobState, Word
  <2>8. b.pc = "prove" => line \in {"READY", "SAVED", "UNSAVED"}
    BY <1>0, <2>1 DEF JobState
  <2>9. line \in {"READY", "SAVED", "UNSAVED"} => a.served = Group
    BY <2>3 DEF AgentOK
  <2>10. agent'[j] = d /\ job'[j] = b
    BY <1>0, <2>4, <2>5
  <2> HIDE DEF b, d
  <2>11. AgentOK(j)'
    <3>1. \A i \in DOMAIN d.out : \E k \in DOMAIN a.out : d.out[i] = a.out[k]
      BY <2>3, <2>6
    <3>2. \A i \in DOMAIN d.out :
             /\ d.out[i] \in {"READY", "SAVED", "UNSAVED"} => d.served = Group
             /\ d.out[i] = "SAVED" => d.key /\ ~d.restore /\ d.pc \in {"serve", "gone"}
      BY <3>1, <2>6 DEF AgentOK
    <3> QED BY <2>6, <2>10, <3>2 DEF AgentOK
  <2>12. JobOK(j)' /\ PrepOK(j)'
    BY <2>6, <2>7, <2>8, <2>9, <2>10 DEF JobOK, PrepOK, Early, Late
  <2>13. deleted = 0 => PcOK(j)'
    BY <2>1, <2>6, <2>7, <2>10 DEF PcOK, WeightsComplete, catalogVars
  <2>14. JobMoves(j)
    BY <1>0, <2>4, <2>5, <2>6, <2>7, <2>10 DEF JobMoves
  <2> QED BY <1>u, <2>1, <2>11, <2>12, <2>13, <2>14 DEF Kept
<1> QED
  BY <1>1, <1>2, <1>3, <1>4, <1>5, <1>6, <1>7, <1>8, <1>9 DEF JobNext

-----------------------------------------------------------------------------
(* Part 3: the catalog's own steps, and all steps together                 *)

(* A sync has seen what it spares, and still does.                         *)
SyncOK == sync.drop \cap sync.seen = {} /\ \A k \in sync.seen : OnVolume(k)

RepairOK == deleted = 0 => (repair.found = "complete" => WeightsComplete)

(* The inductive invariant.                                                *)
StartInv ==
    /\ TypeOK /\ SyncOK /\ RepairOK
    /\ \A j \in Start : AgentOK(j) /\ JobOK(j) /\ PrepOK(j) /\ (deleted = 0 => PcOK(j))

(* While nobody deletes, a complete checkpoint stays one.                  *)
NothingIsUndone ==
    /\ deleted' = 0 => deleted = 0 /\ (WeightsComplete => WeightsComplete')
    /\ EntryIsTrue

(* A deletion, a sync and a reconcile keep the catalog's part.             *)
LEMMA CatalogStep ==
    ASSUME CatalogTypeOK, SyncOK, RepairOK, CatalogNext
    PROVE  CatalogTypeOK' /\ SyncOK' /\ RepairOK' /\ NothingIsUndone
<1> USE DEF CatalogTypeOK
<1>0. "weights" \in Key /\ "compile" \in Key /\ \A k \in Key : k = "weights" \/ k = "compile"
  BY DEF Key
<1>1. CASE DeleteByHand
  <2>1. deleted' \in 0 .. Deletions /\ deleted' # 0
    BY <1>1, DeletionsAssumption DEF DeleteByHand
  <2>2. weights' \in Checkpoint /\ tar' \in BOOLEAN /\ UNCHANGED <<arts, repair>>
    BY <1>1 DEF DeleteByHand, Checkpoint
  <2>3. sync' = [sync EXCEPT !.seen = {k \in sync.seen : OnVolume(k)'}]
    BY <1>1 DEF DeleteByHand
  <2>4. SyncOK' /\ sync' \in [pc : {"idle", "ask"}, ask : SUBSET Key, drop : SUBSET Key, seen : SUBSET Key]
    BY <2>3 DEF SyncOK, OnVolume
  <2> QED BY <2>1, <2>2, <2>4 DEF RepairOK, NothingIsUndone, EntryIsTrue, Find
<1>2. CASE SyncList
  <2> DEFINE listed == {k \in Key : Find(k)}
             on == {k \in listed : OnVolume(k)}
  <2>1. sync' = [pc |-> "ask", ask |-> listed, drop |-> {}, seen |-> on] /\ UNCHANGED <<arts, weights, tar, deleted, repair>>
    BY <1>2 DEF SyncList
  <2>2. CatalogTypeOK'
    BY <2>1
  <2>3. SyncOK'
    BY <2>1 DEF SyncOK, OnVolume
  <2> QED BY <2>1, <2>2, <2>3 DEF RepairOK, NothingIsUndone, EntryIsTrue, Find, WeightsComplete
<1>3. CASE SyncAsk \/ SyncNoAnswer
  <2>1. PICK k \in sync.ask, drop \in SUBSET Key :
          /\ sync' = [sync EXCEPT !.ask = @ \ {k}, !.drop = drop]
          /\ drop = sync.drop \/ (drop = sync.drop \cup {k} /\ ~OnVolume(k))
    <3>0. sync.drop \in SUBSET Key /\ sync.ask \in SUBSET Key
      OBVIOUS
    <3>1. CASE SyncAsk
      <4>1. PICK k \in sync.ask :
              sync' = [sync EXCEPT !.ask = @ \ {k}, !.drop = IF OnVolume(k) THEN @ ELSE @ \cup {k}]
        BY <3>1 DEF SyncAsk
      <4> DEFINE drop == IF OnVolume(k) THEN sync.drop ELSE sync.drop \cup {k}
      <4>2. sync' = [sync EXCEPT !.ask = @ \ {k}, !.drop = drop]
        BY <4>1
      <4>3. drop \in SUBSET Key /\ (drop = sync.drop \/ (drop = sync.drop \cup {k} /\ ~OnVolume(k)))
        BY <3>0
      <4> QED BY <4>2, <4>3
    <3>2. CASE SyncNoAnswer
      <4>1. PICK k \in sync.ask : sync' = [sync EXCEPT !.ask = @ \ {k}]
        BY <3>2 DEF SyncNoAnswer
      <4>2. sync' = [sync EXCEPT !.ask = @ \ {k}, !.drop = sync.drop]
        BY <4>1
      <4> QED BY <3>0, <4>2
    <3> QED BY <1>3, <3>1, <3>2
  <2>2. UNCHANGED <<arts, weights, tar, deleted, repair>>
    BY <1>3 DEF SyncAsk, SyncNoAnswer
  <2>3. CatalogTypeOK'
    BY <2>1, <2>2
  <2>4. SyncOK'
    BY <2>1, <2>2 DEF SyncOK, OnVolume
  <2> QED BY <2>2, <2>3, <2>4 DEF RepairOK, NothingIsUndone, EntryIsTrue, Find, WeightsComplete
<1>4. CASE SyncDrop
  <2>1. UNCHANGED <<weights, tar, deleted, repair>>
    BY <1>4 DEF SyncDrop
  <2>2. CASE \E k \in sync.drop : Remove(k) /\ sync' = [sync EXCEPT !.drop = @ \ {k}]
    <3>1. PICK k \in sync.drop : Remove(k) /\ sync' = [sync EXCEPT !.drop = @ \ {k}]
      BY <2>2
    <3>2. arts' \in [Key -> {"absent", "listed", "proven"}] /\ (Find("weights")' => Find("weights"))
      BY <1>0, <3>1 DEF Remove, Find
    <3>3. SyncOK' /\ sync' \in [pc : {"idle", "ask"}, ask : SUBSET Key, drop : SUBSET Key, seen : SUBSET Key]
      BY <2>1, <3>1 DEF SyncOK, OnVolume
    <3> QED BY <2>1, <3>2, <3>3 DEF RepairOK, NothingIsUndone, EntryIsTrue, WeightsComplete
  <2>3. CASE sync' = NoSync /\ UNCHANGED arts
    BY <2>1, <2>3 DEF NoSync, SyncOK, RepairOK, NothingIsUndone, EntryIsTrue, Find, WeightsComplete
  <2> QED BY <1>4, <2>2, <2>3 DEF SyncDrop
<1>5. CASE RepairLook \/ RepairCheck \/ RepairList
  <2>1. UNCHANGED <<arts, weights, tar, deleted, sync>>
    BY <1>5 DEF RepairLook, RepairCheck, RepairList
  <2>2. /\ repair' \in [pc : {"check", "weights", "list", "compile", "done"}, found : {"none", "some", "complete"}]
        /\ repair'.found = "complete" => WeightsComplete \/ repair.found = "complete"
    <3>1. CASE RepairLook
      BY <3>1 DEF RepairLook
    <3>2. CASE RepairCheck
      <4>1. CASE repair' = [repair EXCEPT !.pc = "done"]
        BY <4>1
      <4>2. ASSUME NEW complete \in Answers(WeightsComplete),
                   repair' = [pc |-> "weights", found |-> IF complete /\ repair.found = "some" THEN "complete" ELSE repair.found]
            PROVE  /\ repair' \in [pc : {"check", "weights", "list", "compile", "done"}, found : {"none", "some", "complete"}]
                   /\ repair'.found = "complete" => WeightsComplete \/ repair.found = "complete"
        <5>1. complete => WeightsComplete
          BY DEF Answers
        <5> DEFINE found == IF complete /\ repair.found = "some" THEN "complete" ELSE repair.found
        <5>2. found \in {"none", "some", "complete"} /\ (found = "complete" => WeightsComplete \/ repair.found = "complete")
          BY <5>1
        <5>3. repair' = [pc |-> "weights", found |-> found]
          BY <4>2
        <5> HIDE DEF found
        <5> QED BY <5>2, <5>3
      <4> QED BY <3>2, <4>1, <4>2 DEF RepairCheck
    <3>3. CASE RepairList
      BY <3>3 DEF RepairList
    <3> QED BY <1>5, <3>1, <3>2, <3>3
  <2> QED BY <2>1, <2>2 DEF SyncOK, OnVolume, RepairOK, NothingIsUndone, EntryIsTrue, Find, WeightsComplete
<1>6. CASE RepairWeights
  <2>1. UNCHANGED <<weights, tar, deleted, sync>> /\ repair.pc = "weights"
    BY <1>6 DEF RepairWeights
  <2>2. /\ repair' \in [pc : {"idle", "check", "weights", "list", "compile", "done"}, found : {"none", "some", "complete"}]
        /\ repair'.found = repair.found
    BY <1>6 DEF RepairWeights
  <2>3. arts' \in [Key -> {"absent", "listed", "proven"}] /\ EntryIsTrue
    <3>1. CASE repair.found = "complete" /\ Register("weights", FALSE)
      BY <1>0, <3>1 DEF Register, EntryIsTrue, RepairOK, Find
    <3>2. CASE UNCHANGED arts
      BY <3>2 DEF EntryIsTrue, Find
    <3>3. CASE Remove("weights")
      BY <1>0, <3>3 DEF EntryIsTrue, Remove, Find
    <3> QED BY <1>6, <3>1, <3>2, <3>3 DEF RepairWeights
  <2> QED BY <2>1, <2>2, <2>3 DEF SyncOK, OnVolume, RepairOK, NothingIsUndone, WeightsComplete
<1>7. CASE RepairCompile
  <2>1. UNCHANGED <<weights, tar, deleted, sync>> /\ repair' = [repair EXCEPT !.pc = "done"]
    BY <1>7 DEF RepairCompile
  <2>2. arts' \in [Key -> {"absent", "listed", "proven"}] /\ (Find("weights")' => Find("weights"))
    BY <1>0, <1>7 DEF RepairCompile, Register, Find
  <2> QED BY <2>1, <2>2 DEF SyncOK, OnVolume, RepairOK, NothingIsUndone, EntryIsTrue, WeightsComplete
<1> QED
  BY <1>1, <1>2, <1>3, <1>4, <1>5, <1>6, <1>7 DEF CatalogNext, SyncNext, RepairNext

(* A step of another start, or of the catalog, does not disturb this one.  *)
LEMMA OthersKept ==
    ASSUME NEW i \in Start, job'[i] = job[i], agent'[i] = agent[i], NothingIsUndone,
           AgentOK(i), JobOK(i), PrepOK(i), deleted = 0 => PcOK(i)
    PROVE  AgentOK(i)' /\ JobOK(i)' /\ PrepOK(i)' /\ (deleted' = 0 => PcOK(i)')
<1>1. AgentOK(i)' /\ JobOK(i)' /\ PrepOK(i)'
  BY DEF AgentOK, JobOK, PrepOK
<1>2. ASSUME deleted' = 0 PROVE PcOK(i)'
  BY <1>2 DEF PcOK, NothingIsUndone, EntryIsTrue
<1> QED BY <1>1, <1>2

(* Nothing is planned or launched yet.                                     *)
LEMMA StartInvInit == Init => StartInv
<1> SUFFICES ASSUME Init PROVE StartInv
  OBVIOUS
<1>1. /\ job = [j \in Start |-> NewJob] /\ agent = [j \in Start |-> NoAgent]
      /\ CatalogInit
  BY DEF Init, AgentInit
<1>2. NewJob \in JobState
  BY DEF NewJob, JobState
<1>3. NoAgent \in AgentState
  <2>1. <<>> \in Seq({"STARTED", "READY", "SAVED", "UNSAVED"})
    OBVIOUS
  <2> QED BY <2>1 DEF NoAgent, AgentState
<1>4. TypeOK
  BY <1>1, <1>2, <1>3, DeletionsAssumption
     DEF TypeOK, CatalogTypeOK, AgentTypeOK, CatalogInit, NoSync, NoRepair, Checkpoint
<1>5. SyncOK /\ RepairOK
  BY <1>1 DEF SyncOK, RepairOK, CatalogInit, NoSync, NoRepair
<1>6. ASSUME NEW j \in Start PROVE AgentOK(j) /\ JobOK(j) /\ PrepOK(j) /\ PcOK(j)
  <2>1. agent[j] = NoAgent /\ job[j] = NewJob
    BY <1>1
  <2>2. /\ NoAgent.pc = "off" /\ NoAgent.out = <<>> /\ NoAgent.served = {} /\ \A g \in Group : NoAgent.server[g] = "spawned"
        /\ NewJob.pc = "new" /\ NewJob.got = {}
    BY DEF NoAgent, NewJob
  <2> QED BY <2>1, <2>2 DEF AgentOK, PastLaunch, JobOK, Early, Late, PrepOK, PcOK
<1> QED BY <1>4, <1>5, <1>6 DEF StartInv

(* A step is a job's, its agent's, or the catalog's.                       *)
LEMMA StartInvStep == StartInv /\ [Next]_vars => StartInv'
<1> SUFFICES ASSUME StartInv, [Next]_vars PROVE StartInv'
  OBVIOUS
<1>0. /\ job \in [Start -> JobState] /\ agent \in [Start -> AgentState] /\ CatalogTypeOK
  BY DEF StartInv, TypeOK, AgentTypeOK
<1>1. ASSUME NEW j \in Start, JobNext(j) \/ Cancelled(j) PROVE StartInv'
  <2>1. Kept(j) /\ JobMoves(j) /\ EntriesTrue
    BY <1>1, JobStep DEF StartInv
  <2>2. NothingIsUndone
    BY <2>1 DEF NothingIsUndone, EntriesTrue
  <2>3. ASSUME NEW i \in Start PROVE AgentOK(i)' /\ JobOK(i)' /\ PrepOK(i)' /\ (deleted' = 0 => PcOK(i)')
    <3>1. CASE i = j
      BY <2>1, <3>1 DEF Kept, EntriesTrue
    <3>2. CASE i # j
      <4>1. job'[i] = job[i] /\ agent'[i] = agent[i]
        BY <1>0, <2>1, <3>2 DEF JobMoves
      <4> QED BY <2>2, <4>1, OthersKept DEF StartInv
    <3> QED BY <3>1, <3>2
  <2>4. TypeOK'
    <3>1. CatalogTypeOK'
      BY <1>0, <2>1 DEF CatalogTypeOK, EntriesTrue
    <3>2. job' \in [Start -> JobState] /\ agent' \in [Start -> AgentState]
      BY <1>0, <2>1 DEF JobMoves
    <3> QED BY <3>1, <3>2 DEF TypeOK, AgentTypeOK
  <2>5. SyncOK' /\ RepairOK'
    <3>1. sync.seen \subseteq Key
      BY <1>0 DEF CatalogTypeOK
    <3> QED BY <2>1, <3>1 DEF SyncOK, RepairOK, EntriesTrue, StartInv
  <2> QED BY <2>3, <2>4, <2>5 DEF StartInv
<1>2. ASSUME NEW j \in Start, AgentNext(j), UNCHANGED job PROVE StartInv'
  <2>1. AgentOK(j)' /\ AgentMoves(j) /\ VolumesGrow
    BY <1>2, AgentStep DEF StartInv
  <2>2. NothingIsUndone
    BY <2>1 DEF NothingIsUndone, VolumesGrow, EntryIsTrue, Find
  <2>3. ASSUME NEW i \in Start PROVE AgentOK(i)' /\ JobOK(i)' /\ PrepOK(i)' /\ (deleted' = 0 => PcOK(i)')
    <3>1. CASE i = j
      <4>1. job[j].pc \notin Early
        BY <2>1 DEF StartInv, JobOK, AgentMoves, NoAgent
      <4>2. agent[j].served = Group => agent'[j].served = Group
        BY <2>1 DEF AgentMoves, AgentState
      <4>3. JobOK(j)' /\ PrepOK(j)'
        BY <1>2, <4>1, <4>2 DEF StartInv, JobOK, PrepOK
      <4>4. deleted' = 0 => PcOK(j)'
        BY <1>2, <2>1, <2>2, <4>1 DEF StartInv, PcOK, AgentMoves, NothingIsUndone, Early
      <4> QED BY <2>1, <3>1, <4>3, <4>4
    <3>2. CASE i # j
      <4>1. job'[i] = job[i] /\ agent'[i] = agent[i]
        BY <1>0, <1>2, <2>1, <3>2 DEF AgentMoves
      <4> QED BY <2>2, <4>1, OthersKept DEF StartInv
    <3> QED BY <3>1, <3>2
  <2>4. TypeOK'
    <3>1. CatalogTypeOK'
      BY <1>0, <2>1 DEF CatalogTypeOK, VolumesGrow
    <3>2. job' \in [Start -> JobState] /\ agent' \in [Start -> AgentState]
      BY <1>0, <1>2, <2>1 DEF AgentMoves
    <3> QED BY <3>1, <3>2 DEF TypeOK, AgentTypeOK
  <2>5. SyncOK' /\ RepairOK'
    <3>1. sync.seen \subseteq Key
      BY <1>0 DEF CatalogTypeOK
    <3> QED BY <2>1, <3>1 DEF SyncOK, RepairOK, VolumesGrow, StartInv
  <2> QED BY <2>3, <2>4, <2>5 DEF StartInv
<1>3. ASSUME CatalogNext, UNCHANGED <<job, agent>> PROVE StartInv'
  <2>1. CatalogTypeOK' /\ SyncOK' /\ RepairOK' /\ NothingIsUndone
    BY <1>0, <1>3, CatalogStep DEF StartInv
  <2>2. ASSUME NEW i \in Start PROVE AgentOK(i)' /\ JobOK(i)' /\ PrepOK(i)' /\ (deleted' = 0 => PcOK(i)')
    BY <1>3, <2>1, OthersKept DEF StartInv
  <2> QED BY <1>0, <1>3, <2>1, <2>2 DEF StartInv, TypeOK, AgentTypeOK
<1>4. CASE UNCHANGED vars
  <2>1. NothingIsUndone /\ UNCHANGED <<job, agent, catalogVars>>
    BY <1>4 DEF vars, catalogVars, NothingIsUndone, EntryIsTrue, Find, WeightsComplete
  <2>2. ASSUME NEW i \in Start PROVE AgentOK(i)' /\ JobOK(i)' /\ PrepOK(i)' /\ (deleted' = 0 => PcOK(i)')
    BY <2>1, OthersKept DEF StartInv
  <2>3. CatalogTypeOK' /\ SyncOK' /\ RepairOK'
    BY <1>0, <2>1 DEF StartInv, catalogVars, CatalogTypeOK, SyncOK, RepairOK, OnVolume, WeightsComplete
  <2> QED BY <1>0, <2>1, <2>2, <2>3 DEF StartInv, TypeOK, AgentTypeOK
<1> QED
  BY <1>1, <1>2, <1>3, <1>4 DEF Next

(* So the invariant holds at all times.                                    *)
LEMMA StartInvAlways == Spec => []StartInv
BY StartInvInit, StartInvStep, PTL DEF Spec

-----------------------------------------------------------------------------
(* Part 4: what gets validated                                             *)

(* A restored cache was restored by the thread that is done; main takes    *)
(* its word.                                                               *)
CacheOK(j) ==
    /\ agent[j].hit => agent[j].cache = "hit"
    /\ agent[j].cache = "hit" => agent[j].restorer = "done"

CacheInv == \A j \in Start : CacheOK(j)

(* Only the restorer and READY touch these.                                *)
LEMMA CacheStep ==
    ASSUME TypeOK, NEW j \in Start, CacheOK(j), AgentNext(j) \/ JobNext(j) \/ Cancelled(j)
    PROVE  CacheOK(j)'
<1> DEFINE a == agent[j]
           Same == agent'[j].hit = a.hit /\ agent'[j].cache = a.cache /\ agent'[j].restorer = a.restorer
<1>0. agent \in [Start -> AgentState] /\ a \in AgentState
  BY DEF TypeOK, AgentTypeOK
<1>s. ASSUME Same PROVE CacheOK(j)'
  BY <1>s DEF CacheOK
<1>g. ASSUME NEW pc, Goes(j, pc) PROVE Same
  BY <1>0, <1>g DEF Goes, AgentState
<1>p. ASSUME NEW pc, NEW line, Prints(j, pc, line) PROVE Same
  BY <1>0, <1>p DEF Prints, AgentState
<1>1. CASE PrintStarted(j) \/ EnsureWeights(j) \/ LaunchDone(j) \/ WriteBack(j) \/ SaveTar(j) \/ ReplaceTar(j)
           \/ AgentEnds(j) \/ AgentRaises(j) \/ SandboxEnds(j)
  <2>1. (\E pc : Goes(j, pc)) \/ (\E pc, line : Prints(j, pc, line))
    BY <1>1 DEF PrintStarted, EnsureWeights, LaunchDone, WriteBack, SaveTar, ReplaceTar, AgentEnds, AgentRaises,
                SandboxEnds, Exits
  <2> QED BY <1>g, <1>p, <1>s, <2>1
<1>2. CASE DownloadHere(j)
  <2>1. Same
    BY <1>2, <1>g DEF DownloadHere
  <2> QED BY <1>s, <2>1
<1>3. ASSUME NEW g \in Group, GroupServes(j, g) \/ GroupFails(j, g) \/ ServerExits(j, g) PROVE CacheOK(j)'
  <2>1. Same
    BY <1>0, <1>3 DEF GroupServes, GroupFails, ServerExits, AgentState
  <2> QED BY <1>s, <2>1
<1>4. CASE RestoreKey(j)
  <2>1. agent'[j].hit = a.hit /\ agent'[j].cache = a.cache /\ a.restorer = "key"
    BY <1>0, <1>4 DEF RestoreKey, AgentState
  <2> QED BY <2>1 DEF CacheOK
<1>5. CASE RestoreTar(j)
  <2>1. agent'[j].hit = a.hit /\ agent'[j].restorer = "done" /\ a.restorer = "tar"
    BY <1>0, <1>5 DEF RestoreTar, AgentState
  <2> QED BY <2>1 DEF CacheOK
<1>6. CASE PrintReady(j)
  <2>1. agent'[j].hit = (a.cache = "hit") /\ agent'[j].cache = a.cache /\ agent'[j].restorer = a.restorer
    BY <1>0, <1>6 DEF PrintReady, AgentState
  <2> QED BY <2>1 DEF CacheOK
<1>7. CASE JobNext(j) \/ Cancelled(j)
  <2>1. CASE ClaimGpu(j) \/ ReadLine(j)
    <3>1. Same
      BY <1>0, <2>1 DEF ClaimGpu, ReadLine, AgentState
    <3> QED BY <1>s, <3>1
  <2>2. CASE UNCHANGED agent
    BY <2>2 DEF CacheOK
  <2> QED BY <1>7, <2>1, <2>2
        DEF JobNext, Cancelled, Plan, CheckWeights, Replan, PrepDownloads, PrepDone, PrepFails, RecordWeights,
            ReplanAfterPrep, StreamEnds, ProveWeights, ValidateCache, RegisterCache, AddEngines
<1> QED
  BY <1>1, <1>2, <1>3, <1>4, <1>5, <1>6, <1>7 DEF AgentNext, AgentMain, AgentThreads

LEMMA CacheInvAlways == Spec => []CacheInv
<1>1. Init => CacheInv
  <2>1. NoAgent.hit = FALSE /\ NoAgent.cache = "none"
    BY DEF NoAgent
  <2> QED BY <2>1 DEF Init, AgentInit, CacheInv, CacheOK
<1>2. StartInv /\ CacheInv /\ [Next]_vars => CacheInv'
  <2> SUFFICES ASSUME StartInv, CacheInv, [Next]_vars, NEW i \in Start PROVE CacheOK(i)'
    BY DEF CacheInv
  <2>0. TypeOK /\ agent \in [Start -> AgentState]
    BY DEF StartInv, TypeOK, AgentTypeOK
  <2>1. ASSUME NEW j \in Start, AgentNext(j) \/ JobNext(j) \/ Cancelled(j) PROVE CacheOK(i)'
    <3>1. agent' = [agent EXCEPT ![j] = agent'[j]]
      BY <2>1, AgentStep, JobStep DEF StartInv, AgentMoves, JobMoves
    <3>2. CASE i = j
      BY <2>0, <2>1, <3>2, CacheStep DEF CacheInv
    <3>3. CASE i # j
      <4>1. agent'[i] = agent[i]
        BY <2>0, <3>1, <3>3
      <4> QED BY <4>1 DEF CacheInv, CacheOK
    <3> QED BY <3>2, <3>3
  <2>2. CASE UNCHANGED agent
    BY <2>2 DEF CacheInv, CacheOK
  <2> QED BY <2>1, <2>2 DEF Next, vars
<1> QED BY <1>1, <1>2, StartInvAlways, PTL DEF Spec

(* A step validates only what served, and registers only who did.          *)
Justified ==
    /\ \A k \in Key : arts[k] # "proven" /\ arts'[k] = "proven" =>
          \E j \in Start : agent[j].served = Group /\ (k = "compile" => agent[j].cache = "hit")
    /\ \A j \in Start : job[j].pc # "serving" /\ job'[j].pc = "serving" => agent[j].served = Group

LEMMA StepJustified == StartInv /\ CacheInv /\ [Next]_vars => [Justified]_vars
<1> SUFFICES ASSUME StartInv, CacheInv, Next PROVE Justified
  OBVIOUS
<1>0. /\ job \in [Start -> JobState] /\ arts \in [Key -> {"absent", "listed", "proven"}]
      /\ Key = {"weights", "compile"}
  BY DEF StartInv, TypeOK, CatalogTypeOK, Key
(* Nothing else makes "proven" of an entry.                                *)
<1>a. ASSUME \/ UNCHANGED arts
             \/ \E k \in Key : Remove(k) \/ Register(k, FALSE)
      PROVE  \A k \in Key : arts'[k] = "proven" => arts[k] = "proven"
  BY <1>0, <1>a DEF Remove, Register
<1>1. ASSUME NEW j \in Start, AgentNext(j), UNCHANGED job PROVE Justified
  <2>1. UNCHANGED arts
    BY <1>1, AgentStep DEF StartInv, VolumesGrow
  <2> QED BY <1>1, <2>1 DEF Justified
<1>2. ASSUME CatalogNext, UNCHANGED <<job, agent>> PROVE Justified
  <2>1. \/ UNCHANGED arts
        \/ \E k \in Key : Remove(k) \/ Register(k, FALSE)
    BY <1>0, <1>2 DEF CatalogNext, SyncNext, RepairNext, DeleteByHand, SyncList, SyncAsk, SyncNoAnswer, SyncDrop,
                      RepairLook, RepairCheck, RepairWeights, RepairList, RepairCompile, StartInv, TypeOK, CatalogTypeOK
  <2> QED BY <1>2, <1>a, <2>1 DEF Justified
<1>3. ASSUME NEW j \in Start, JobNext(j) \/ Cancelled(j) PROVE Justified
  <2>1. \A i \in Start \ {j} : job'[i] = job[i]
    <3>1. job' = [job EXCEPT ![j] = job'[j]]
      BY <1>3, JobStep DEF StartInv, JobMoves
    <3> QED BY <1>0, <3>1
  <2>2. job[j].pc # "serving" /\ job'[j].pc = "serving" => agent[j].served = Group
    <3>1. ASSUME NEW pc, JobGoes(j, pc) PROVE job'[j].pc = pc
      BY <1>0, <3>1 DEF JobGoes, JobState
    <3>2. ASSUME NEW pc, NEW q, PlanThen(j, pc, q) PROVE job'[j].pc \in {pc, q}
      BY <1>0, <3>2 DEF PlanThen, JobState
    <3>3. CASE AddEngines(j)
      BY <3>3 DEF AddEngines, JobAt, StartInv, JobOK, Late
    <3>4. CASE ReadLine(j)
      <4>1. job'[j].pc \in {"prove", job[j].pc}
        BY <1>0, <3>4 DEF ReadLine, JobState
      <4> QED BY <4>1
    <3>5. CASE Plan(j) \/ Replan(j) \/ ReplanAfterPrep(j)
      <4>1. job'[j].pc # "serving"
        BY <3>2, <3>5 DEF Plan, Replan, ReplanAfterPrep, Fetch
      <4> QED BY <4>1
    <3>6. CASE PrepDownloads(j)
      BY <3>6 DEF PrepDownloads
    <3>7. CASE CheckWeights(j) \/ PrepDone(j) \/ PrepFails(j) \/ RecordWeights(j) \/ ClaimGpu(j)
               \/ StreamEnds(j) \/ ProveWeights(j) \/ ValidateCache(j) \/ RegisterCache(j) \/ Cancelled(j)
      <4>1. \E pc \in (Early \cup Late \cup {"wait", "failed"}) \ {"serving"} : JobGoes(j, pc)
        BY <3>7 DEF CheckWeights, PrepDone, PrepFails, RecordWeights, ClaimGpu, StreamEnds, ProveWeights,
                    ValidateCache, RegisterCache, Cancelled, Early, Late
      <4> QED BY <3>1, <4>1
    <3> QED BY <1>3, <3>3, <3>4, <3>5, <3>6, <3>7 DEF JobNext
  <2>3. ASSUME NEW k \in Key, arts[k] # "proven", arts'[k] = "proven"
        PROVE  agent[j].served = Group /\ (k = "compile" => agent[j].cache = "hit")
    <3>1. CASE ProveWeights(j)
      <4>1. k = "weights"
        BY <1>0, <2>3, <3>1 DEF ProveWeights, Register
      <4> QED BY <3>1, <4>1 DEF ProveWeights, JobAt, StartInv, JobOK, Late
    <3>2. CASE ValidateCache(j) /\ agent[j].hit
      BY <3>2 DEF ValidateCache, JobAt, StartInv, JobOK, Late, CacheInv, CacheOK
    <3>3. CASE \/ UNCHANGED arts
               \/ \E l \in Key : Remove(l) \/ Register(l, FALSE)
      BY <1>a, <2>3, <3>3
    <3> QED
      BY <1>0, <1>3, <3>1, <3>2, <3>3
         DEF JobNext, Cancelled, Plan, CheckWeights, Replan, PrepDownloads, PrepDone, PrepFails, RecordWeights,
             ReplanAfterPrep, ClaimGpu, ReadLine, StreamEnds, ValidateCache, RegisterCache, AddEngines,
             catalogVars
  <2> QED BY <2>1, <2>2, <2>3 DEF Justified
<1> QED BY <1>1, <1>2, <1>3 DEF Next

-----------------------------------------------------------------------------
(* late_claim claims no GPU for a checkpoint that is not complete.         *)
THEOREM WeightsBeforeGpu == Spec => []GpuFindsWeights
<1>1. StartInv => GpuFindsWeights
  BY DEF StartInv, PcOK, GpuFindsWeights, JobAt
<1> QED BY <1>1, StartInvAlways, PTL

(* A sync never drops a copy that was there all along.                     *)
THEOREM CopiesSpared == Spec => []SyncSparesCopies
<1>1. StartInv => SyncSparesCopies
  BY DEF StartInv, SyncOK, SyncSparesCopies
<1> QED BY <1>1, StartInvAlways, PTL

(* What an agent prints is true.                                           *)
THEOREM AgentsTellTheTruth == Spec => []LinesAreTrue
<1>1. StartInv => LinesAreTrue
  BY DEF StartInv, AgentOK, LinesAreTrue
<1> QED BY <1>1, StartInvAlways, PTL

(* What is validated, and what is registered, has served.                  *)
THEOREM ValidatedHasServed == Spec => ProvenHasServed
<1>1. Spec => [][Justified]_vars
  BY StepJustified, StartInvAlways, CacheInvAlways, PTL DEF Spec
<1> QED BY <1>1 DEF ProvenHasServed, Justified
=============================================================================

---------------------------- MODULE QueueProofs ----------------------------
(***************************************************************************)
(* The control plane implements the queue, for every set of jobs, workers, *)
(* calls and faults.                                                       *)
(***************************************************************************)
EXTENDS ControlPlaneProofs, QueueRefinement, FiniteSetTheorems, SequenceTheorems

-----------------------------------------------------------------------------
(* Part 1: sequences that list a finite set in the order of a number.      *)

Ranked(s, Q, c) ==
    /\ s \in [1 .. Cardinality(Q) -> Q]
    /\ \A m, n \in 1 .. Cardinality(Q) : m < n => c[s[m]] < c[s[n]]

(* Such a sequence lists every element, and none twice.                    *)
LEMMA RankedCovers ==
    ASSUME NEW Q, IsFiniteSet(Q), NEW c, \A q \in Q : c[q] \in Nat, NEW s, Ranked(s, Q, c)
    PROVE  /\ Cardinality(Q) \in Nat
           /\ \A m, n \in 1 .. Cardinality(Q) : s[m] = s[n] => m = n
           /\ \A q \in Q : \E m \in 1 .. Cardinality(Q) : s[m] = q
<1> DEFINE N == Cardinality(Q)
<1>1. N \in Nat
  BY FS_CardinalityType
<1>2. ASSUME NEW m \in 1 .. N, NEW n \in 1 .. N, s[m] = s[n] PROVE m = n
  <2>1. c[s[m]] \in Nat
    BY DEF Ranked
  <2>2. ~(m < n) /\ ~(n < m)
    BY <1>2, <2>1 DEF Ranked
  <2> QED BY <1>1, <2>2
<1>3. s \in Injection(1 .. N, Q)
  BY <1>2 DEF Injection, IsInjective, Ranked
<1>4. Cardinality(1 .. N) = N
  BY <1>1, FS_Interval
<1>5. s \in Surjection(1 .. N, Q)
  BY <1>3, <1>4, FS_Injection
<1>6. \A q \in Q : \E m \in 1 .. N : s[m] = q
  BY <1>5 DEF Surjection
<1> QED BY <1>1, <1>2, <1>6

(* The place of an element is the number of those before it ...            *)
LEMMA RankedPlace ==
    ASSUME NEW Q, IsFiniteSet(Q), NEW c, \A q \in Q : c[q] \in Nat, NEW s, Ranked(s, Q, c),
           NEW k \in 1 .. Cardinality(Q)
    PROVE  Cardinality({q \in Q : c[q] < c[s[k]]}) = k - 1
<1> DEFINE N == Cardinality(Q)
           D == {q \in Q : c[q] < c[s[k]]}
           f == [m \in 1 .. (k - 1) |-> s[m]]
<1>1. /\ N \in Nat
      /\ \A m, n \in 1 .. N : s[m] = s[n] => m = n
      /\ \A q \in Q : \E m \in 1 .. N : s[m] = q
  BY RankedCovers
<1>2. \A m \in 1 .. (k - 1) : m \in 1 .. N /\ m < k
  BY <1>1
<1>3. f \in [1 .. (k - 1) -> D]
  BY <1>2 DEF Ranked
<1>4. f \in Injection(1 .. (k - 1), D)
  BY <1>1, <1>2, <1>3 DEF Injection, IsInjective
<1>5. ASSUME NEW q \in D PROVE \E m \in 1 .. (k - 1) : f[m] = q
  <2>1. PICK m \in 1 .. N : s[m] = q
    BY <1>1
  <2>2. m < k
    <3>1. c[s[m]] < c[s[k]] /\ c[s[m]] \in Nat /\ c[s[k]] \in Nat
      BY <2>1, <1>5 DEF Ranked
    <3>2. m # k
      BY <3>1
    <3>3. ~(k < m)
      BY <3>1 DEF Ranked
    <3> QED BY <1>1, <3>2, <3>3
  <2>3. m \in 1 .. (k - 1)
    BY <2>2, <1>1
  <2> QED BY <2>1, <2>3
<1>6. f \in Surjection(1 .. (k - 1), D)
  BY <1>3, <1>5 DEF Surjection
<1>7. ExistsBijection(1 .. (k - 1), D)
  BY <1>4, <1>6 DEF ExistsBijection, Bijection
<1>8. IsFiniteSet(1 .. (k - 1)) /\ Cardinality(1 .. (k - 1)) = k - 1
  <2>1. 1 \in Int /\ k - 1 \in Int /\ k >= 1
    BY <1>1
  <2> QED BY <2>1, FS_Interval
<1> QED BY <1>7, <1>8, FS_Bijection

(* ... so there is only one.                                               *)
LEMMA RankedUnique ==
    ASSUME NEW Q, IsFiniteSet(Q), NEW c, \A q \in Q : c[q] \in Nat,
           NEW s, Ranked(s, Q, c), NEW t, Ranked(t, Q, c)
    PROVE  s = t
<1> DEFINE N == Cardinality(Q)
<1>1. N \in Nat /\ \A q \in Q : \E m \in 1 .. N : t[m] = q
  BY RankedCovers
<1>2. ASSUME NEW k \in 1 .. N PROVE s[k] = t[k]
  <2>1. s[k] \in Q
    BY DEF Ranked
  <2>2. PICK m \in 1 .. N : t[m] = s[k]
    BY <1>1, <2>1
  <2>3. Cardinality({q \in Q : c[q] < c[s[k]]}) = k - 1
    BY RankedPlace
  <2>4. Cardinality({q \in Q : c[q] < c[t[m]]}) = m - 1
    BY RankedPlace
  <2>5. k - 1 = m - 1
    BY <2>2, <2>3, <2>4
  <2> QED BY <2>2, <2>5
<1> QED BY <1>1, <1>2 DEF Ranked

(* Adding an element that comes last.                                      *)
LEMMA RankedAppend ==
    ASSUME NEW Q, IsFiniteSet(Q), NEW c, NEW d, NEW s, Ranked(s, Q, c),
           NEW j, j \notin Q, \A q \in Q : d[q] = c[q] /\ d[q] < d[j]
    PROVE  Ranked(Append(s, j), Q \cup {j}, d)
<1> DEFINE N == Cardinality(Q)
           t == Append(s, j)
<1>1. N \in Nat /\ Cardinality(Q \cup {j}) = N + 1
  BY FS_CardinalityType, FS_AddElement
<1>2. s \in Seq(Q) /\ Len(s) = N
  BY <1>1 DEF Ranked
<1>3. /\ t \in [1 .. (N + 1) -> Q \cup {j}] /\ t[N + 1] = j
      /\ \A m \in 1 .. N : t[m] = s[m] /\ s[m] \in Q
  <2>1. s \in Seq(Q \cup {j}) /\ Len(s) = N
    BY <1>2, SeqMonotonic
  <2>2. t \in Seq(Q \cup {j}) /\ Len(t) = N + 1 /\ t[N + 1] = j /\ \A m \in 1 .. N : t[m] = s[m]
    BY <2>1, AppendProperties
  <2>3. t \in [1 .. (N + 1) -> Q \cup {j}]
    BY <2>2, LenProperties
  <2> QED BY <1>1, <1>2, <2>2, <2>3 DEF Ranked
<1> HIDE DEF t
<1>4. \A m \in 1 .. (N + 1) : m = N + 1 \/ m \in 1 .. N
  BY <1>1
<1>5. t \in [1 .. (N + 1) -> Q \cup {j}]
  BY <1>3
<1>6. ASSUME NEW m \in 1 .. (N + 1), NEW n \in 1 .. (N + 1), m < n PROVE d[t[m]] < d[t[n]]
  <2>1. m \in 1 .. N
    BY <1>6, <1>1
  <2>2. CASE n = N + 1
    BY <2>1, <2>2, <1>3
  <2>3. CASE n \in 1 .. N
    BY <2>1, <2>3, <1>3, <1>6 DEF Ranked
  <2> QED BY <2>2, <2>3, <1>4
<1> QED BY <1>1, <1>5, <1>6 DEF Ranked, t

(* Taking one out, wherever it is.                                         *)
LEMMA RankedWithout ==
    ASSUME NEW Q, IsFiniteSet(Q), NEW c, \A q \in Q : c[q] \in Nat, NEW s, Ranked(s, Q, c),
           NEW i \in 1 .. Cardinality(Q), NEW d, \A q \in Q : d[q] = c[q],
           NEW t, t = [n \in 1 .. (Cardinality(Q) - 1) |-> IF n < i THEN s[n] ELSE s[n + 1]]
    PROVE  Ranked(t, Q \ {s[i]}, d)
<1> DEFINE N == Cardinality(Q)
           R == Q \ {s[i]}
<1>1. N \in Nat /\ \A m, n \in 1 .. N : s[m] = s[n] => m = n
  BY RankedCovers
<1>2. s[i] \in Q
  BY DEF Ranked
<1>3. Cardinality(R) = N - 1
  BY <1>2, FS_RemoveElement
<1> DEFINE g(n) == IF n < i THEN n ELSE n + 1
<1>4. ASSUME NEW n \in 1 .. (N - 1)
      PROVE  g(n) \in 1 .. N /\ g(n) # i /\ t[n] = s[g(n)]
  BY <1>1
<1>5. ASSUME NEW n \in 1 .. (N - 1) PROVE t[n] \in R
  <2>1. g(n) \in 1 .. N /\ g(n) # i /\ t[n] = s[g(n)]
    BY <1>4
  <2> HIDE DEF g
  <2>2. s[g(n)] \in Q /\ s[g(n)] # s[i]
    BY <2>1, <1>1 DEF Ranked
  <2> QED BY <2>1, <2>2
<1>6. ASSUME NEW m \in 1 .. (N - 1), NEW n \in 1 .. (N - 1), m < n PROVE d[t[m]] < d[t[n]]
  <2>1. g(m) < g(n)
    BY <1>1, <1>6
  <2>2. g(m) \in 1 .. N /\ t[m] = s[g(m)] /\ g(n) \in 1 .. N /\ t[n] = s[g(n)]
    BY <1>4
  <2> HIDE DEF g
  <2>3. c[t[m]] < c[t[n]]
    BY <2>1, <2>2 DEF Ranked
  <2> QED BY <2>2, <2>3 DEF Ranked
<1>7. t \in [1 .. (N - 1) -> R]
  BY <1>5
<1> QED BY <1>3, <1>6, <1>7 DEF Ranked

(* Append, Tail and RemoveAt of the abstract queue in these terms.         *)
LEMMA WithoutAt ==
    ASSUME NEW Q, NEW N \in Nat, NEW s \in [1 .. N -> Q], NEW i \in 1 .. N
    PROVE  [n \in 1 .. (N - 1) |-> IF n < i THEN s[n] ELSE s[n + 1]]
             = SubSeq(s, 1, i - 1) \o SubSeq(s, i + 1, Len(s))
<1> DEFINE t == [n \in 1 .. (N - 1) |-> IF n < i THEN s[n] ELSE s[n + 1]]
           a == SubSeq(s, 1, i - 1)
           b == SubSeq(s, i + 1, Len(s))
<1>1. s \in Seq(Q) /\ Len(s) = N
  OBVIOUS
<1>2. a \in Seq(Q) /\ Len(a) = i - 1 /\ \A k \in 1 .. (i - 1) : a[k] = s[k]
  <2>1. \A k \in 1 .. (i - 1) : s[k] \in Q
    OBVIOUS
  <2> QED BY <2>1, SubSeqProperties
<1>3. b \in Seq(Q) /\ Len(b) = N - i /\ \A k \in 1 .. (N - i) : b[k] = s[i + k]
  <2>1. \A k \in (i + 1) .. N : s[k] \in Q
    OBVIOUS
  <2> QED BY <1>1, <2>1, SubSeqProperties
<1> HIDE DEF a, b
<1>4. /\ a \o b \in Seq(Q) /\ Len(a \o b) = N - 1
      /\ \A k \in 1 .. (N - 1) : (a \o b)[k] = IF k <= i - 1 THEN a[k] ELSE b[k - (i - 1)]
  <2>1. Len(a) + Len(b) = N - 1
    BY <1>2, <1>3
  <2>2. /\ a \o b \in Seq(Q) /\ Len(a \o b) = Len(a) + Len(b)
        /\ \A k \in 1 .. Len(a) + Len(b) : (a \o b)[k] = IF k <= Len(a) THEN a[k] ELSE b[k - Len(a)]
    BY <1>2, <1>3, ConcatProperties
  <2>3. Len(a) = i - 1
    BY <1>2
  <2> QED BY <2>1, <2>2, <2>3
<1>5. t \in Seq(Q) /\ Len(t) = N - 1
  <2>1. \A n \in 1 .. (N - 1) : n \in 1 .. N /\ n + 1 \in 1 .. N
    OBVIOUS
  <2>2. t \in [1 .. (N - 1) -> Q]
    BY <2>1
  <2>3. ASSUME NEW M \in Nat, NEW f \in [1 .. M -> Q] PROVE f \in Seq(Q) /\ Len(f) = M
    OBVIOUS
  <2>4. N - 1 \in Nat
    OBVIOUS
  <2> HIDE DEF t
  <2> QED BY <2>2, <2>3, <2>4
<1>6. ASSUME NEW k \in 1 .. (N - 1) PROVE (a \o b)[k] = t[k]
  <2>1. CASE k < i
    <3>1. k \in 1 .. (i - 1) /\ k <= i - 1
      BY <2>1
    <3> QED BY <2>1, <3>1, <1>2, <1>4
  <2>2. CASE ~(k < i)
    <3>1. k - (i - 1) \in 1 .. (N - i) /\ i + (k - (i - 1)) = k + 1
      BY <2>2
    <3>2. b[k - (i - 1)] = s[k + 1]
      BY <3>1, <1>3
    <3>3. ~(k <= i - 1)
      BY <2>2
    <3> QED BY <2>2, <3>2, <3>3, <1>4
  <2> QED BY <2>1, <2>2
<1> HIDE DEF t
<1>7. t = a \o b
  BY <1>4, <1>5, <1>6, SeqEqual
<1> QED BY <1>7 DEF t, a, b

-----------------------------------------------------------------------------
(* Part 2: what a step does to the queue.  The invariant says of the rows  *)
(* that a job is taken exactly when it has left the queue otherwise than   *)
(* by being withdrawn, that the queue has an order, and that everybody who *)
(* is going to overwrite a status does so to a job that was taken: the     *)
(* engines in the registry, the reconcilers' lists and the calls that stop *)
(* an engine all descend from a claim.                                     *)

Created == [j \in Job |-> jobs[j].created]
Taken(j) == jobs[j].worker \in Worker

RowOK(j) ==
    IF Taken(j) THEN ~InQueue(StatusOf(j))
    ELSE StatusOf(j) \in {"absent", "queued", "cancelled"} /\ jobs[j].result = FALSE

EnginesTaken(engs) == \A e \in engs : Taken(e[1])

RecTaken(r) ==
    /\ EnginesTaken(r.engs)
    /\ \A j \in r.jobs : Taken(j)
    /\ r.job # NoJob => Taken(r.job)

Closing == {"find", "stop_serving", "unregister", "siblings", "stop_group", "drop_group",
            "stop_sandbox", "drop", "finish", "finish_write"}

CallTaken(r) == r.pc \in Closing => r.job \in Job /\ Taken(r.job)

RowsOK == \A j \in Job : RowOK(j)
RecsTaken == \A w \in Worker : RecTaken(rec[w])
CallsTaken == \A c \in Call : CallTaken(call[c])

TakenInv == RowsOK /\ EnginesTaken(registered) /\ RecsTaken /\ CallsTaken

OrderInv ==
    /\ IsFiniteSet(Queued)
    /\ \A j \in Queued : jobs[j].created < clock
    /\ \E s : Ranked(s, Queued, Created)

(* A step leaves the queue alone, or is one of the three that change it.   *)
RowsQuiet ==
    \A j \in Job :
       /\ jobs'[j].worker = jobs[j].worker
       /\ jobs'[j].created = jobs[j].created
       /\ Taken(j) => ~InQueue(jobs'[j].status)
       /\ ~Taken(j) => jobs'[j].status = jobs[j].status /\ jobs'[j].result = jobs[j].result

QueueStep ==
    \/ RowsQuiet /\ clock' = clock
    \/ \E j \in Job : Insert(j)
    \/ \E j \in Job, w \in Worker : ClaimRow(j, w) /\ clock' = clock
    \/ \E j \in Job : CancelQueued(j) /\ clock' = clock

-----------------------------------------------------------------------------
(* Statements on the jobs table that leave the queue alone.                *)

LEMMA SetStatusQuiet ==
    ASSUME JobsType, RowsOK, NEW j, j \in Job => Taken(j), NEW st \in TERMINAL \cup {"serving"}, SetStatus(j, st)
    PROVE  RowsQuiet
<1>1. ~InQueue(st)
  BY Outcomes DEF InQueue
<1> QED BY <1>1 DEF SetStatus, JobsType, Row, RowsQuiet, RowsOK, RowOK, StatusOf

LEMMA ServeQuiet ==
    ASSUME JobsType, RowsOK, NEW j \in Job, Taken(j),
           jobs' = [jobs EXCEPT ![j].status = "serving", ![j].result = TRUE]
    PROVE  RowsQuiet
BY DEF JobsType, Row, RowsQuiet, RowsOK, RowOK, InQueue, StatusOf

LEMMA FlagsQuiet ==
    ASSUME JobsType, RowsOK, NEW j, NEW w, RequestCancel(j) \/ Heartbeat(j, w) \/ Age(j)
    PROVE  RowsQuiet
BY DEF RequestCancel, Heartbeat, Age, JobsType, Row, RowsQuiet, RowsOK, RowOK, StatusOf

LEMMA SameQuiet == ASSUME RowsOK, UNCHANGED jobs PROVE RowsQuiet
BY DEF RowsQuiet, RowsOK, RowOK, StatusOf

LEMMA DbQuiet == ASSUME RowsOK, UNCHANGED dbVars PROVE QueueStep /\ registered' = registered
BY SameQuiet DEF QueueStep, dbVars

(* The job of a slot was taken by its worker.                              *)
LEMMA SlotTaken ==
    ASSUME IInv, NEW w \in Worker, slot[w].pc # "idle"
    PROVE  JobOf(w) \in Job /\ Taken(JobOf(w))
<1>1. JobOf(w) \in Job /\ JobOf(w) # NoJob
  BY NoneAssumption DEF IInv, WInv, SlotInv, SlotOK, JobOf
<1> QED BY <1>1 DEF IInv, ClaimedOnce, Taken

-----------------------------------------------------------------------------
(* The steps of the slots.                                                 *)

LEMMA SlotQueue ==
    ASSUME IInv, TakenInv, NEW w \in Worker, SlotNext(w)
    PROVE  QueueStep /\ EnginesTaken(registered')
<1> USE DEF TakenInv
<1>j. JobsType
  BY RowsTyped DEF IInv
<1>1. CASE Claim(w)
  BY <1>1 DEF Claim, QueueStep
<1>2. CASE UNCHANGED dbVars
  BY <1>2, DbQuiet
<1>3. CASE LogPrep(w) \/ LogEngine(w)
  BY <1>3, SameQuiet DEF LogPrep, LogEngine, QueueStep
<1>4. CASE RegisterGroup(w)
  <2>1. JobOf(w) \in Job /\ Taken(JobOf(w))
    BY <1>4, SlotTaken DEF RegisterGroup, At
  <2> QED BY <1>4, <2>1, SameQuiet DEF RegisterGroup, QueueStep, EnginesTaken
<1>5. CASE Serve(w)
  <2>1. JobOf(w) \in Job /\ Taken(JobOf(w))
    BY <1>5, SlotTaken DEF Serve, At
  <2> QED BY <1>5, <1>j, <2>1, ServeQuiet DEF Serve, QueueStep
<1>6. CASE CloseJob(w)
  <2>1. JobOf(w) \in Job /\ Taken(JobOf(w)) /\ slot[w].outcome \in TERMINAL
    BY <1>6, SlotTaken DEF CloseJob, At, IInv, WInv, SlotInv, SlotOK
  <2> QED BY <1>6, <1>j, <2>1, SetStatusQuiet DEF CloseJob, QueueStep
<1> QED
  BY <1>1, <1>2, <1>3, <1>4, <1>5, <1>6
  DEF SlotNext, Begin, CreatePrep, PrepDone, PrepRaises, CreateEngine, CheckRaises, WaitReturns, WaitExited,
      Fails, Except, Cleanup, KillOne, KillDone

-----------------------------------------------------------------------------
(* The steps of the reconcilers.                                           *)

(* The rows a reconciler lists have been taken.                            *)
LEMMA ListedTaken ==
    ASSUME RowsOK, NEW j \in Job, StatusOf(j) \in {"running", "serving"} \/ jobs[j].result = TRUE
    PROVE  Taken(j)
BY DEF RowsOK, RowOK

LEMMA RecQueue ==
    ASSUME IInv, TakenInv, NEW w \in Worker, RecNext(w)
    PROVE  QueueStep /\ EnginesTaken(registered') /\ \A v \in Worker : RecTaken(rec'[v])
<1> USE DEF TakenInv
<1>j. JobsType
  BY RowsTyped DEF IInv
<1>t. rec \in [Worker -> RecState] /\ rec[w] \in RecState /\ RecTaken(rec[w]) /\ RecOK(rec[w])
  BY DEF IInv, RInv, ReconcilersTypeOK, RecInv, RecsTaken
<1>e. \A e \in Engine : e[1] \in Job
  BY DEF Engine
<1>o. ASSUME NEW r, rec' = [rec EXCEPT ![w] = r], RecTaken(r)
      PROVE  \A v \in Worker : RecTaken(rec'[v])
  BY <1>o, <1>t DEF RecsTaken
<1>g. ASSUME NEW p, RecGoto(w, p) PROVE \A v \in Worker : RecTaken(rec'[v])
  <2>1. RecTaken([rec[w] EXCEPT !.pc = p])
    BY <1>t DEF RecState, RecTaken
  <2>2. rec' = [rec EXCEPT ![w] = [rec[w] EXCEPT !.pc = p]]
    BY <1>g, <1>t DEF RecGoto
  <2> QED BY <2>1, <2>2, <1>o
<1>b. ASSUME NEW p, RecBack(w, p) PROVE \A v \in Worker : RecTaken(rec'[v])
  <2> DEFINE r == [rec[w] EXCEPT !.pc = p, !.job = NoJob, !.outcome = "none", !.spare = {}]
  <2>1. RecTaken(r)
    BY <1>t DEF RecState, RecTaken
  <2>2. rec' = [rec EXCEPT ![w] = r]
    BY <1>b, <1>t DEF RecBack
  <2> QED BY <2>1, <2>2, <1>o
<1>i. ASSUME rec' = [rec EXCEPT ![w] = [OffRec EXCEPT !.pc = "idle"]] PROVE \A v \in Worker : RecTaken(rec'[v])
  <2>1. RecTaken([OffRec EXCEPT !.pc = "idle"])
    BY DEF OffRec, RecTaken, EnginesTaken
  <2> QED BY <2>1, <1>i, <1>o
<1>1. CASE ReattachEngines(w) \/ TickList(w)
  <2>1. PICK late, p : rec' = [rec EXCEPT ![w].pc = p, ![w].engs = registered, ![w].late = late]
    <3>1. CASE ReattachEngines(w)
      <4>1. rec' = [rec EXCEPT ![w].pc = "attach_list", ![w].engs = registered, ![w].late = rec[w].late]
        BY <3>1, <1>t DEF ReattachEngines, RecState
      <4> QED BY <4>1
    <3>2. CASE TickList(w)
      BY <3>2 DEF TickList
    <3> QED BY <1>1, <3>1, <3>2
  <2> DEFINE r == [rec[w] EXCEPT !.pc = p, !.engs = registered, !.late = late]
  <2>2. RecTaken(r)
    BY <1>t DEF RecState, RecTaken
  <2>3. rec' = [rec EXCEPT ![w] = r]
    BY <2>1, <1>t
  <2> QED BY <1>1, <2>2, <2>3, <1>o, DbQuiet DEF ReattachEngines, TickList
<1>2. CASE ReattachList(w)
  <2> DEFINE L == {j \in Job : StatusOf(j) \in {"serving", "succeeded"} /\ jobs[j].result}
             r == [rec[w] EXCEPT !.pc = "attach", !.jobs = L]
  <2>1. \A j \in L : Taken(j)
    BY DEF RowsOK, RowOK
  <2>2. rec' = [rec EXCEPT ![w] = r]
    BY <1>2, <1>t DEF ReattachList
  <2> HIDE DEF L
  <2>3. RecTaken(r)
    BY <1>t, <2>1 DEF RecState, RecTaken
  <2> QED BY <1>2, <2>2, <2>3, <1>o, DbQuiet DEF ReattachList
<1>3. CASE ReapList(w)
  <2> DEFINE r == [rec[w] EXCEPT !.pc = "reap", !.jobs = StaleRunning]
  <2>1. \A j \in StaleRunning : Taken(j)
    BY ListedTaken DEF StaleRunning
  <2>2. rec' = [rec EXCEPT ![w] = r]
    BY <1>3, <1>t DEF ReapList
  <2>3. RecTaken(r)
    BY <1>t, <2>1 DEF RecState, RecTaken
  <2> QED BY <1>3, <2>2, <2>3, <1>o, DbQuiet DEF ReapList
<1>4. CASE AttachKeep(w) \/ ReapOwn(w)
  <2>1. PICK j \in rec[w].jobs : rec' = [rec EXCEPT ![w].jobs = @ \ {j}]
    BY <1>4 DEF AttachKeep, ReapOwn
  <2> DEFINE r == [rec[w] EXCEPT !.jobs = rec[w].jobs \ {j}]
  <2>2. RecTaken(r)
    BY <1>t DEF RecState, RecTaken
  <2>3. rec' = [rec EXCEPT ![w] = r]
    BY <2>1, <1>t
  <2> QED BY <1>4, <2>2, <2>3, <1>o, DbQuiet DEF AttachKeep, ReapOwn
<1>5. CASE AttachLost(w)
  <2>1. PICK j \in rec[w].jobs :
           /\ SetStatus(j, "serving")
           /\ rec' = [rec EXCEPT ![w].pc = "finish", ![w].jobs = @ \ {j}, ![w].job = j, ![w].back = "attach",
                                 ![w].outcome = EndStatus(code[EngineSandbox(j)])]
    BY <1>5 DEF AttachLost
  <2> DEFINE o == EndStatus(code[EngineSandbox(j)])
             r == [rec[w] EXCEPT !.pc = "finish", !.jobs = rec[w].jobs \ {j}, !.job = j, !.back = "attach",
                                 !.outcome = o]
  <2>2. rec' = [rec EXCEPT ![w] = r]
    BY <2>1, <1>t
  <2> HIDE DEF o
  <2>3. RecTaken(r)
    BY <1>t DEF RecState, RecTaken
  <2>4. RowsQuiet
    BY <1>j, <2>1, <1>t, SetStatusQuiet DEF RecTaken
  <2> QED BY <1>5, <2>2, <2>3, <2>4, <1>o DEF AttachLost, QueueStep
<1>6. CASE PollExited(w) \/ PollRaises(w) \/ PollExpired(w)
  <2>1. PICK p, o : \E e \in rec[w].engs :
           rec' = [rec EXCEPT ![w].pc = p, ![w].engs = @ \ {e}, ![w].eng = {e}, ![w].job = e[1], ![w].outcome = o]
    BY <1>6 DEF PollExited, PollRaises, PollExpired
  <2>2. PICK e \in rec[w].engs :
           rec' = [rec EXCEPT ![w].pc = p, ![w].engs = @ \ {e}, ![w].eng = {e}, ![w].job = e[1], ![w].outcome = o]
    BY <2>1
  <2> DEFINE r == [rec[w] EXCEPT !.pc = p, !.engs = rec[w].engs \ {e}, !.eng = {e}, !.job = e[1], !.outcome = o]
  <2>3. rec' = [rec EXCEPT ![w] = r]
    BY <2>2, <1>t
  <2>4. RecTaken(r)
    BY <1>t DEF RecState, RecTaken, EnginesTaken
  <2> QED BY <1>6, <2>3, <2>4, <1>o, DbQuiet DEF PollExited, PollRaises, PollExpired
<1>7. CASE PollFine(w)
  <2>1. PICK e \in rec[w].engs : rec' = [rec EXCEPT ![w].engs = @ \ {e}]
    BY <1>7 DEF PollFine
  <2> DEFINE r == [rec[w] EXCEPT !.engs = rec[w].engs \ {e}]
  <2>2. rec' = [rec EXCEPT ![w] = r]
    BY <2>1, <1>t
  <2>3. RecTaken(r)
    BY <1>t DEF RecState, RecTaken, EnginesTaken
  <2> QED BY <1>7, <2>2, <2>3, <1>o, DbQuiet DEF PollFine
<1>8. CASE AttachDone(w) \/ Expire(w) \/ TickDone(w)
  BY <1>8, <1>g, DbQuiet DEF AttachDone, Expire, TickDone
<1>9. CASE Drop(w)
  <2> DEFINE r == [rec[w] EXCEPT !.pc = "finish", !.eng = {}, !.back = "tick"]
  <2>1. RecTaken(r)
    BY <1>t DEF RecState, RecTaken
  <2>2. rec' = [rec EXCEPT ![w] = r]
    BY <1>9, <1>t DEF Drop
  <2>3. RowsQuiet
    BY <1>9, SameQuiet DEF Drop
  <2> QED BY <1>9, <2>1, <2>2, <2>3, <1>o DEF Drop, QueueStep, EnginesTaken
<1>10. CASE RecFinishRead(w)
  BY <1>10, <1>g, <1>b, DbQuiet DEF RecFinishRead
<1>11. CASE RecFinishWrite(w)
  <2>1. rec[w].outcome \in TERMINAL /\ (rec[w].job \in Job => Taken(rec[w].job))
    BY <1>11, <1>t, NoneAssumption DEF RecFinishWrite, RecAt, RecOK, RecTaken
  <2>2. RowsQuiet
    BY <1>11, <1>j, <2>1, SetStatusQuiet DEF RecFinishWrite
  <2> QED BY <1>11, <2>2, <1>b DEF RecFinishWrite, QueueStep
<1>12. CASE TickRaises(w) \/ ReapDone(w)
  BY <1>12, <1>i, DbQuiet DEF TickRaises, ReapDone
<1>13. CASE ReapJob(w)
  <2>1. PICK todo, spare : \E j \in rec[w].jobs :
           rec' = [rec EXCEPT ![w].pc = "reap_killing", ![w].jobs = @ \ {j}, ![w].job = j,
                              ![w].todo = todo, ![w].spare = spare]
    BY <1>13 DEF ReapJob
  <2>2. PICK j \in rec[w].jobs :
           rec' = [rec EXCEPT ![w].pc = "reap_killing", ![w].jobs = @ \ {j}, ![w].job = j,
                              ![w].todo = todo, ![w].spare = spare]
    BY <2>1
  <2> DEFINE r == [rec[w] EXCEPT !.pc = "reap_killing", !.jobs = rec[w].jobs \ {j}, !.job = j,
                                 !.todo = todo, !.spare = spare]
  <2>3. rec' = [rec EXCEPT ![w] = r]
    BY <2>2, <1>t
  <2>4. RecTaken(r)
    BY <1>t DEF RecState, RecTaken
  <2> QED BY <1>13, <2>3, <2>4, <1>o, DbQuiet DEF ReapJob
<1>14. CASE ReapKill(w)
  <2>1. PICK todo : rec' = [rec EXCEPT ![w].todo = todo]
    BY <1>14, <1>t DEF ReapKill
  <2> DEFINE r == [rec[w] EXCEPT !.todo = todo]
  <2>2. rec' = [rec EXCEPT ![w] = r]
    BY <2>1, <1>t
  <2>3. RecTaken(r)
    BY <1>t DEF RecState, RecTaken
  <2> QED BY <1>14, <2>2, <2>3, <1>o, DbQuiet DEF ReapKill
<1>15. CASE ReapWrite(w)
  <2>1. rec[w].job \in Job => Taken(rec[w].job)
    BY <1>t, NoneAssumption DEF RecTaken
  <2>2. RowsQuiet
    BY <1>15, <1>j, <2>1, Outcomes, SetStatusQuiet DEF ReapWrite
  <2> QED BY <1>15, <2>2, <1>b DEF ReapWrite, QueueStep
<1> QED
  BY <1>1, <1>2, <1>3, <1>4, <1>5, <1>6, <1>7, <1>8, <1>9, <1>10, <1>11, <1>12, <1>13, <1>14, <1>15 DEF RecNext

-----------------------------------------------------------------------------
(* The steps of the calls.                                                 *)

LEMMA CallQueue ==
    ASSUME IInv, TakenInv, NEW c \in Call, CancelNext(c) \/ StopNext(c) \/ FinishNext(c) \/ CallDies(c)
    PROVE  QueueStep /\ EnginesTaken(registered') /\ \A d \in Call : CallTaken(call'[d])
<1> USE DEF TakenInv
<1>j. JobsType
  BY RowsTyped DEF IInv
<1>t. call \in [Call -> CallState] /\ call[c] \in CallState /\ CallTaken(call[c])
  BY DEF IInv, CallsTypeOK, CallsTaken
<1>e. registered \subseteq Engine /\ \A e \in Engine : e[1] \in Job
  BY DEF Engine, IInv, StoreTypeOK
<1>o. ASSUME NEW r, call' = [call EXCEPT ![c] = r], CallTaken(r)
      PROVE  \A d \in Call : CallTaken(call'[d])
  BY <1>o, <1>t DEF CallsTaken
<1>g. ASSUME NEW p, CallGoto(c, p), p \in Closing => call[c].pc \in Closing
      PROVE  \A d \in Call : CallTaken(call'[d])
  <2>1. CallTaken([call[c] EXCEPT !.pc = p])
    BY <1>g, <1>t DEF CallState, CallTaken
  <2>2. call' = [call EXCEPT ![c] = [call[c] EXCEPT !.pc = p]]
    BY <1>g, <1>t DEF CallGoto
  <2> QED BY <2>1, <2>2, <1>o
<1>r. ASSUME NEW X, registered' = registered \ X, UNCHANGED <<jobs, clock>>
      PROVE  QueueStep /\ EnginesTaken(registered')
  BY <1>r, SameQuiet DEF QueueStep, EnginesTaken
<1>1. CASE CancelGet(c)
  <2>1. PICK j \in Job :
           call' = [call EXCEPT ![c].job = j,
                                ![c].engs = IF StatusOf(j) = "serving" THEN EnginesOf(j) ELSE {},
                                ![c].pc = IF Closed(j) THEN "done"
                                          ELSE IF StatusOf(j) = "serving" THEN "find"
                                          ELSE "withdraw"]
    BY <1>1 DEF CancelGet
  <2> DEFINE E == IF StatusOf(j) = "serving" THEN EnginesOf(j) ELSE {}
             p == IF Closed(j) THEN "done" ELSE IF StatusOf(j) = "serving" THEN "find" ELSE "withdraw"
             r == [call[c] EXCEPT !.job = j, !.engs = E, !.pc = p]
  <2>2. p \in Closing => Taken(j)
    BY ListedTaken DEF Closing
  <2>3. call' = [call EXCEPT ![c] = r]
    BY <2>1, <1>t
  <2> HIDE DEF p, E
  <2>4. CallTaken(r)
    BY <2>2, <1>t DEF CallState, CallTaken
  <2> QED BY <1>1, <2>3, <2>4, <1>o, DbQuiet DEF CancelGet
<1>2. CASE CancelWithdraw(c)
  <2>1. \A d \in Call : CallTaken(call'[d])
    BY <1>2, <1>g DEF CancelWithdraw, Closing
  <2>2. CASE UNCHANGED jobs
    BY <1>2, <2>1, <2>2, SameQuiet DEF CancelWithdraw, QueueStep
  <2>3. CASE CancelQueued(call[c].job)
    <3>1. CASE call[c].job \in Job
      BY <1>2, <2>1, <2>3, <3>1 DEF CancelWithdraw, QueueStep
    <3>2. CASE call[c].job \notin Job
      <4>1. jobs' = jobs
        BY <2>3, <3>2, <1>j DEF CancelQueued, SetStatus, JobsType
      <4> QED BY <1>2, <2>1, <4>1, SameQuiet DEF CancelWithdraw, QueueStep
    <3> QED BY <3>1, <3>2
  <2> QED BY <1>2, <2>2, <2>3 DEF CancelWithdraw
<1>3. CASE CancelFlag(c)
  BY <1>3, <1>j, <1>g, FlagsQuiet DEF CancelFlag, QueueStep, Closing
<1>4. CASE CancelSnapshot(c)
  <2> DEFINE r == [call[c] EXCEPT !.pc = "killing", !.todo = LoggedOf(call[c].job), !.spare = RegisteredSandboxes]
  <2>1. CallTaken(r)
    BY <1>t DEF CallState, CallTaken, Closing
  <2>2. call' = [call EXCEPT ![c] = r]
    BY <1>4, <1>t DEF CancelSnapshot
  <2> QED BY <1>4, <2>1, <2>2, <1>o, DbQuiet DEF CancelSnapshot
<1>5. CASE CancelKill(c)
  <2>1. CASE CallGoto(c, "flagged")
    BY <1>5, <2>1, <1>g, DbQuiet DEF CancelKill, Closing
  <2>2. CASE \E s \in call[c].todo : call' = [call EXCEPT ![c].todo = @ \ {s}]
    <3>1. PICK s \in call[c].todo : call' = [call EXCEPT ![c].todo = @ \ {s}]
      BY <2>2
    <3> DEFINE r == [call[c] EXCEPT !.todo = call[c].todo \ {s}]
    <3>2. CallTaken(r)
      BY <1>t DEF CallState, CallTaken
    <3>3. call' = [call EXCEPT ![c] = r]
      BY <3>1, <1>t
    <3> QED BY <1>5, <3>2, <3>3, <1>o, DbQuiet DEF CancelKill
  <2> QED BY <1>5, <2>1, <2>2 DEF CancelKill
<1>6. CASE CancelFind(c) \/ CancelStopServing(c) \/ FinishRead(c) \/ StopGroup(c) \/ StopSandbox(c)
  <2>1. call[c].pc \in Closing /\ UNCHANGED dbVars /\ \E p : CallGoto(c, p)
    BY <1>6 DEF CancelFind, CancelStopServing, FinishRead, StopGroup, StopSandbox, Closing, CallAt
  <2> QED BY <2>1, <1>g, DbQuiet
<1>7. CASE CancelUnregister(c)
  <2>1. PICK e \in call[c].engs :
           /\ registered' = registered \ {e}
           /\ call' = [call EXCEPT ![c].engs = @ \ {e},
                                   ![c].pc = IF call[c].engs = {e} THEN "finish" ELSE @]
    BY <1>7 DEF CancelUnregister
  <2> DEFINE p == IF call[c].engs = {e} THEN "finish" ELSE call[c].pc
             r == [call[c] EXCEPT !.engs = call[c].engs \ {e}, !.pc = p]
  <2>2. call[c].pc \in Closing
    BY <1>7 DEF CancelUnregister, CallAt, Closing
  <2>3. CallTaken(r)
    BY <2>2, <1>t DEF CallState, CallTaken
  <2>4. call' = [call EXCEPT ![c] = r]
    BY <2>1, <1>t
  <2> QED BY <1>7, <1>r, <2>1, <2>3, <2>4, <1>o DEF CancelUnregister
<1>8. CASE FinishWrite(c)
  <2>1. Taken(call[c].job)
    BY <1>8, <1>t DEF FinishWrite, CallAt, CallTaken, Closing
  <2>2. RowsQuiet
    BY <1>8, <1>j, <2>1, Outcomes, SetStatusQuiet DEF FinishWrite
  <2> QED BY <1>8, <2>2, <1>g DEF FinishWrite, QueueStep, Closing
<1>9. CASE StopRead(c)
  <2>1. PICK e \in registered : call' = [call EXCEPT ![c].pc = "siblings", ![c].job = e[1], ![c].engs = {e}]
    BY <1>9 DEF StopRead
  <2> DEFINE r == [call[c] EXCEPT !.pc = "siblings", !.job = e[1], !.engs = {e}]
  <2>2. e[1] \in Job /\ Taken(e[1])
    BY <1>e DEF EnginesTaken
  <2>3. CallTaken(r)
    BY <2>2, <1>t DEF CallState, CallTaken
  <2>4. call' = [call EXCEPT ![c] = r]
    BY <2>1, <1>t
  <2> QED BY <1>9, <2>3, <2>4, <1>o, DbQuiet DEF StopRead
<1>10. CASE StopSiblings(c)
  <2>1. call[c].pc \in Closing
    BY <1>10 DEF StopSiblings, CallAt, Closing
  <2> QED BY <1>10, <2>1, <1>g, DbQuiet DEF StopSiblings
<1>11. CASE DropGroup(c) \/ DropEngine(c)
  <2>1. call[c].pc \in Closing /\ (\E p : CallGoto(c, p))
    BY <1>11 DEF DropGroup, DropEngine, CallAt, Closing
  <2> QED BY <1>11, <2>1, <1>g, <1>r DEF DropGroup, DropEngine
<1>12. CASE CallDies(c)
  BY <1>12, <1>g, DbQuiet DEF CallDies, Closing
<1> QED
  BY <1>1, <1>2, <1>3, <1>4, <1>5, <1>6, <1>7, <1>8, <1>9, <1>10, <1>11, <1>12
  DEF CancelNext, StopNext, FinishNext

-----------------------------------------------------------------------------
(* Every step of the control plane is one of these.                        *)

StepGoal ==
    /\ QueueStep
    /\ EnginesTaken(registered')
    /\ \A w \in Worker : RecTaken(rec'[w])
    /\ \A c \in Call : CallTaken(call'[c])

LEMMA StepQueue == ASSUME IInv, TakenInv, [Next]_vars PROVE StepGoal
<1> USE DEF TakenInv
<1>j. JobsType
  BY RowsTyped DEF IInv
<1>t. rec \in [Worker -> RecState]
  BY DEF IInv, RInv, ReconcilersTypeOK
<1>r. UNCHANGED reconcilerVars => \A w \in Worker : RecTaken(rec'[w])
  BY DEF RecsTaken, reconcilerVars
<1>c. UNCHANGED apiVars => \A c \in Call : CallTaken(call'[c])
  BY DEF CallsTaken, apiVars
<1>1. ASSUME NEW w \in Worker, Start(w) PROVE StepGoal
  <2>1. RecTaken([rec[w] EXCEPT !.pc = "reattach"])
    BY <1>t DEF RecState, RecTaken, RecsTaken
  <2>2. rec' = [rec EXCEPT ![w] = [rec[w] EXCEPT !.pc = "reattach"]]
    BY <1>1, <1>t DEF Start, RecGoto
  <2>3. \A v \in Worker : RecTaken(rec'[v])
    BY <2>1, <2>2, <1>t DEF RecsTaken
  <2> QED BY <1>1, <2>3, <1>c, DbQuiet DEF Start, StepGoal, apiVars
<1>2. ASSUME NEW w \in Worker, Crash(w) PROVE StepGoal
  <2>1. RecTaken(OffRec)
    BY DEF OffRec, RecTaken, EnginesTaken
  <2>2. \A v \in Worker : RecTaken(rec'[v])
    BY <1>2, <2>1, <1>t DEF Crash, RecsTaken
  <2> QED BY <1>2, <2>2, <1>c, DbQuiet DEF Crash, StepGoal, apiVars
<1>3. ASSUME NEW w \in Worker, Slots(w) PROVE StepGoal
  BY <1>3, <1>r, <1>c, SlotQueue DEF Slots, StepGoal
<1>4. ASSUME NEW w \in Worker, Monitor(w) PROVE StepGoal
  <2>1. CASE NoticeCancel(w)
    BY <1>4, <2>1, <1>r, <1>c, DbQuiet DEF Monitor, NoticeCancel, StepGoal
  <2>2. CASE Beat(w)
    <3>1. RowsQuiet
      BY <2>2, <1>j, FlagsQuiet DEF Beat
    <3> QED BY <1>4, <2>2, <3>1, <1>r, <1>c DEF Monitor, Beat, StepGoal, QueueStep
  <2> QED BY <1>4, <2>1, <2>2 DEF Monitor, MonitorNext
<1>5. ASSUME NEW w \in Worker, Reconcile(w) PROVE StepGoal
  BY <1>5, <1>c, RecQueue DEF Reconcile, StepGoal
<1>6. ASSUME NEW j \in Job, Submitted(j) PROVE StepGoal
  BY <1>6, <1>r, <1>c DEF Submitted, Submit, StepGoal, QueueStep, apiVars
<1>7. ASSUME NEW j \in Job, Ages(j) PROVE StepGoal
  <2>1. RowsQuiet
    BY <1>7, <1>j, FlagsQuiet DEF Ages
  <2> QED BY <1>7, <2>1, <1>r, <1>c DEF Ages, Age, StepGoal, QueueStep
<1>8. ASSUME NEW c \in Call, Cancelling(c) \/ Stopping(c) \/ RequestDies(c) PROVE StepGoal
  BY <1>8, <1>r, CallQueue DEF Cancelling, Stopping, RequestDies, StepGoal
<1>9. CASE Modal
  BY <1>9, <1>r, <1>c, DbQuiet DEF Modal, StepGoal
<1>10. CASE UNCHANGED vars
  BY <1>10, <1>r, <1>c, DbQuiet DEF vars, StepGoal
<1> QED
  BY <1>1, <1>2, <1>3, <1>4, <1>5, <1>6, <1>7, <1>8, <1>9, <1>10 DEF Next, Call

LEMMA TakenNext == ASSUME IInv, TakenInv, [Next]_vars PROVE TakenInv'
<1>1. IInv'
  BY NextIInv
<1>2. StepGoal
  BY StepQueue
<1>3. JobsType /\ RowsOK
  BY RowsTyped DEF IInv, TakenInv
<1>4. (\A j \in Job : Taken(j) => Taken(j)') /\ RowsOK'
  <2>1. CASE RowsQuiet
    BY <2>1, <1>3 DEF RowsQuiet, RowsOK, RowOK, Taken, StatusOf, InQueue
  <2>2. ASSUME NEW i \in Job, Insert(i) PROVE (\A j \in Job : Taken(j) => Taken(j)') /\ RowsOK'
    BY <2>2, <1>3 DEF Insert, JobsType, Row, RowsOK, RowOK, Taken, StatusOf, InQueue
  <2>3. ASSUME NEW i \in Job, NEW w \in Worker, ClaimRow(i, w)
        PROVE  (\A j \in Job : Taken(j) => Taken(j)') /\ RowsOK'
    BY <2>3, <1>3 DEF ClaimRow, OldestQueued, JobsType, Row, RowsOK, RowOK, Taken, StatusOf, InQueue
  <2>4. ASSUME NEW i \in Job, CancelQueued(i) PROVE (\A j \in Job : Taken(j) => Taken(j)') /\ RowsOK'
    BY <2>4, <1>3 DEF CancelQueued, SetStatus, JobsType, Row, RowsOK, RowOK, Taken, StatusOf, InQueue
  <2> QED BY <1>2, <2>1, <2>2, <2>3, <2>4 DEF StepGoal, QueueStep
<1>5. \A e \in Engine : e[1] \in Job
  BY DEF Engine
<1>6. EnginesTaken(registered)'
  <2>1. registered' \subseteq Engine
    BY <1>1 DEF IInv, StoreTypeOK
  <2> QED BY <1>2, <1>4, <1>5, <2>1 DEF StepGoal, EnginesTaken
<1>7. RecsTaken'
  <2> SUFFICES ASSUME NEW w \in Worker PROVE RecTaken(rec[w])'
    BY DEF RecsTaken
  <2>1. rec'[w] \in RecState
    BY <1>1 DEF IInv, RInv, ReconcilersTypeOK
  <2>2. RecTaken(rec'[w])
    BY <1>2 DEF StepGoal
  <2>3. rec'[w].engs \subseteq Engine /\ rec'[w].jobs \subseteq Job /\ rec'[w].job \in Job \cup {NoJob}
    BY <2>1 DEF RecState
  <2> QED BY <1>4, <1>5, <2>2, <2>3 DEF RecTaken, EnginesTaken
<1>8. CallsTaken'
  BY <1>2, <1>4 DEF StepGoal, CallsTaken, CallTaken
<1> QED BY <1>4, <1>6, <1>7, <1>8 DEF TakenInv

-----------------------------------------------------------------------------
(* Part 3: the order of the queue, and the steps of the abstract queue.    *)

(* The mapping's sequence is the only one that lists the queue in order.   *)
OnlyWaiting == \A s : Ranked(s, Queued, Created) <=> s = Waiting

LEMMA WaitingIs == JobsType /\ OrderInv => OnlyWaiting
<1> SUFFICES ASSUME JobsType, OrderInv PROVE OnlyWaiting
  OBVIOUS
<1>1. Queued \subseteq Job /\ \A q \in Queued : Created[q] = jobs[q].created /\ Created[q] \in Nat
  BY DEF Queued, Created, JobsType, Row
<1>2. ASSUME NEW s PROVE Ranked(s, Queued, Created) <=> s \in [1 .. Cardinality(Queued) -> Queued] /\ InOrder(s)
  <2> SUFFICES ASSUME s \in [1 .. Cardinality(Queued) -> Queued]
               PROVE  (\A m, n \in 1 .. Cardinality(Queued) : m < n => Created[s[m]] < Created[s[n]]) <=> InOrder(s)
    BY DEF Ranked
  <2>1. DOMAIN s = 1 .. Cardinality(Queued) /\ \A m \in DOMAIN s : s[m] \in Queued
    OBVIOUS
  <2> QED BY <1>1, <2>1 DEF InOrder
<1>3. \E s \in [1 .. Cardinality(Queued) -> Queued] : InOrder(s)
  BY <1>2 DEF OrderInv
<1>4. Waiting \in [1 .. Cardinality(Queued) -> Queued] /\ InOrder(Waiting)
  BY <1>3 DEF Waiting
<1>5. Ranked(Waiting, Queued, Created)
  BY <1>2, <1>4
<1>6. ASSUME NEW s, Ranked(s, Queued, Created) PROVE s = Waiting
  BY <1>1, <1>5, <1>6, RankedUnique DEF OrderInv
<1> QED BY <1>5, <1>6 DEF OnlyWaiting

LEMMA WaitingIsAfter == (JobsType /\ OrderInv => OnlyWaiting)'
  BY WaitingIs, PTL

QueueInv == IInv /\ TakenInv /\ OrderInv

QueueGoal == OrderInv' /\ [Queue!QueueNext]_(Queue!qvars)

(* What a queue step knows of the state it starts from.                    *)
QueueFacts ==
    /\ Queued \subseteq Job
    /\ IsFiniteSet(Queued)
    /\ \A q \in Queued : Created[q] = jobs[q].created /\ Created[q] \in Nat /\ Created[q] < clock
    /\ Ranked(Waiting, Queued, Created)
    /\ Cardinality(Queued) \in Nat
    /\ Waiting \in [1 .. Cardinality(Queued) -> Queued]
    /\ Waiting \in Seq(Queued) /\ Len(Waiting) = Cardinality(Queued)
    /\ \A j \in Job : StatusOf(j) \in {"absent", "queued"} => jobs[j].worker = NoWorker

LEMMA Facts == ASSUME QueueInv PROVE QueueFacts
<1>1. JobsType
  BY RowsTyped DEF QueueInv, IInv
<1>2. Queued \subseteq Job /\ \A q \in Queued : Created[q] = jobs[q].created /\ Created[q] \in Nat
  BY <1>1 DEF Queued, Created, JobsType, Row
<1>3. Ranked(Waiting, Queued, Created)
  BY <1>1, WaitingIs DEF QueueInv, OnlyWaiting
<1>4. IsFiniteSet(Queued) /\ \A q \in Queued : jobs[q].created < clock
  BY DEF QueueInv, OrderInv
<1>5. Cardinality(Queued) \in Nat
  BY <1>4, FS_CardinalityType
<1>6. Waiting \in [1 .. Cardinality(Queued) -> Queued]
  BY <1>3 DEF Ranked
<1>7. Waiting \in Seq(Queued) /\ Len(Waiting) = Cardinality(Queued)
  BY <1>5, <1>6
<1>8. ASSUME NEW j \in Job, StatusOf(j) \in {"absent", "queued"} PROVE jobs[j].worker = NoWorker
  BY <1>1, <1>8 DEF QueueInv, TakenInv, RowsOK, RowOK, Taken, InQueue, StatusOf, JobsType, Row
<1> QED BY <1>2, <1>3, <1>4, <1>5, <1>6, <1>7, <1>8 DEF QueueFacts

(* To know the queue after a step it is enough to show a sequence that     *)
(* lists it.                                                               *)
LEMMA WaitingNext ==
    ASSUME JobsType', IsFiniteSet(Queued'), \A j \in Queued' : jobs'[j].created < clock',
           NEW s, Ranked(s, Queued', Created')
    PROVE  OrderInv' /\ Waiting' = s
<1>1. OrderInv'
  BY DEF OrderInv
<1>2. OnlyWaiting'
  BY <1>1, WaitingIsAfter
<1>3. Ranked(s, Queued, Created)' <=> Ranked(s, Queued', Created')
  BY DEF Ranked
<1> QED BY <1>1, <1>2, <1>3 DEF OnlyWaiting

LEMMA IdleStep == ASSUME QueueInv, JobsType', RowsQuiet, clock' = clock PROVE QueueGoal
<1>1. QueueFacts
  BY Facts
<1>2. JobsType /\ RowsOK
  BY RowsTyped DEF QueueInv, IInv, TakenInv
<1>3. Queued' = Queued
  BY <1>2 DEF RowsQuiet, RowsOK, RowOK, Queued, StatusOf, InQueue
<1>4. Created' = Created /\ Holder' = Holder
  BY DEF RowsQuiet, Created, Holder
<1>5. Withdrawn' = Withdrawn
  BY NoneAssumption DEF RowsQuiet, Withdrawn, StatusOf, Taken
<1>6. \A q \in Queued' : jobs'[q].created < clock'
  BY <1>1, <1>3 DEF QueueFacts, RowsQuiet
<1>7. OrderInv' /\ Waiting' = Waiting
  BY <1>1, <1>3, <1>4, <1>6, WaitingNext DEF QueueFacts
<1> QED BY <1>4, <1>5, <1>7 DEF QueueGoal, Queue!qvars

LEMMA EnqueueStep ==
    ASSUME QueueInv, JobsType', NEW j \in Job, Insert(j)
    PROVE  OrderInv' /\ Queue!Enqueue(j)
<1>1. QueueFacts
  BY Facts
<1>2. JobsType /\ clock \in Nat
  BY RowsTyped DEF QueueInv, IInv, StoreTypeOK
<1>3. /\ StatusOf(j) = "absent" /\ clock' = clock + 1
      /\ jobs' = [jobs EXCEPT ![j].status = "queued", ![j].created = clock]
  BY DEF Insert
<1>4. j \notin Queued /\ Queued' = Queued \cup {j}
  BY <1>2, <1>3 DEF Queued, StatusOf, JobsType, Row
<1>5. Created'[j] = clock /\ \A q \in Queued : Created'[q] = Created[q] /\ jobs'[q].created = jobs[q].created
  BY <1>1, <1>2, <1>3, <1>4 DEF Created, QueueFacts, JobsType, Row
<1>6. Holder' = Holder
  BY <1>2, <1>3 DEF Holder, JobsType, Row
<1>7. Withdrawn' = Withdrawn /\ j \notin Withdrawn
  BY <1>2, <1>3 DEF Withdrawn, StatusOf, JobsType, Row
<1>8. Ranked(Append(Waiting, j), Queued', Created')
  BY <1>1, <1>4, <1>5, RankedAppend DEF QueueFacts
<1>9. \A q \in Queued' : jobs'[q].created < clock'
  <2>1. \A q \in Queued : jobs[q].created \in Nat /\ jobs[q].created < clock
    BY <1>1 DEF QueueFacts
  <2>2. jobs'[j].created = clock
    BY <1>2, <1>3 DEF JobsType, Row
  <2>3. ASSUME NEW q \in Queued PROVE jobs'[q].created < clock'
    <3>1. jobs'[q].created = jobs[q].created
      BY <1>5
    <3>2. jobs[q].created \in Nat /\ jobs[q].created < clock
      BY <2>1
    <3>3. clock' = clock + 1 /\ clock \in Nat
      BY <1>2, <1>3
    <3> QED BY <3>1, <3>2, <3>3
  <2>4. jobs'[j].created < clock'
    BY <1>2, <1>3, <2>2
  <2> QED BY <1>4, <2>3, <2>4
<1>10. IsFiniteSet(Queued')
  BY <1>1, <1>4, FS_AddElement DEF QueueFacts
<1>11. OrderInv' /\ Waiting' = Append(Waiting, j)
  BY <1>8, <1>9, <1>10, WaitingNext
<1>12. ~Queue!Contains(Waiting, j)
  BY <1>1, <1>4 DEF QueueFacts, Queue!Contains
<1>13. Holder[j] = NoWorker
  BY <1>1, <1>3 DEF Holder, QueueFacts
<1> QED BY <1>6, <1>7, <1>11, <1>12, <1>13 DEF Queue!Enqueue, Queue!Fresh

(* A job that leaves the queue, whichever way.                             *)
LEMMA LeaveStep ==
    ASSUME QueueInv, JobsType', clock' = clock, NEW i \in 1 .. Cardinality(Queued),
           Queued' = Queued \ {Waiting[i]}, \A q \in Queued : jobs'[q].created = jobs[q].created
    PROVE  OrderInv' /\ Waiting' = SubSeq(Waiting, 1, i - 1) \o SubSeq(Waiting, i + 1, Len(Waiting))
<1>1. QueueFacts
  BY Facts
<1> DEFINE t == [n \in 1 .. (Cardinality(Queued) - 1) |-> IF n < i THEN Waiting[n] ELSE Waiting[n + 1]]
<1>2. \A q \in Queued : Created'[q] = Created[q]
  BY <1>1 DEF QueueFacts, Created
<1>3. Ranked(t, Queued', Created')
  BY <1>1, <1>2, RankedWithout DEF QueueFacts
<1>4. t = SubSeq(Waiting, 1, i - 1) \o SubSeq(Waiting, i + 1, Len(Waiting))
  <2>1. Cardinality(Queued) \in Nat /\ Waiting \in [1 .. Cardinality(Queued) -> Queued]
    BY <1>1 DEF QueueFacts
  <2> QED BY <2>1, WithoutAt, ZenonT(40)
<1> HIDE DEF t
<1>5. IsFiniteSet(Queued')
  BY <1>1, FS_Subset DEF QueueFacts
<1>6. \A q \in Queued' : jobs'[q].created < clock'
  BY <1>1 DEF QueueFacts
<1>7. OrderInv' /\ Waiting' = t
  BY <1>3, <1>5, <1>6, WaitingNext
<1> QED BY <1>4, <1>7

LEMMA TakeStep ==
    ASSUME QueueInv, JobsType', NEW j \in Job, NEW w \in Worker, ClaimRow(j, w), clock' = clock
    PROVE  OrderInv' /\ Queue!Take(w)
<1>1. QueueFacts
  BY Facts
<1>2. JobsType
  BY RowsTyped DEF QueueInv, IInv
<1>3. /\ StatusOf(j) = "queued"
      /\ \A i \in Job : StatusOf(i) = "queued" => jobs[j].created <= jobs[i].created
      /\ jobs' = [jobs EXCEPT ![j].status = "running", ![j].worker = w, ![j].stale = FALSE]
  BY DEF ClaimRow, OldestQueued
<1>4. j \in Queued /\ Queued' = Queued \ {j}
  BY <1>2, <1>3 DEF Queued, StatusOf, JobsType, Row
<1>5. \A q \in Queued : jobs'[q].created = jobs[q].created
  BY <1>1, <1>2, <1>3 DEF QueueFacts, JobsType, Row
<1>6. PICK m \in 1 .. Cardinality(Queued) : Waiting[m] = j
  BY <1>1, <1>4, RankedCovers DEF QueueFacts
<1>7. Cardinality(Queued) >= 1 /\ 1 \in 1 .. Cardinality(Queued)
  BY <1>1, <1>6 DEF QueueFacts
<1>8. m = 1
  <2> SUFFICES ASSUME 1 < m PROVE FALSE
    BY <1>1, <1>6 DEF QueueFacts
  <2>1. Waiting[1] \in Queued
    BY <1>1, <1>7 DEF QueueFacts
  <2>2. Created[Waiting[1]] < Created[j]
    BY <1>1, <1>6, <1>7 DEF QueueFacts, Ranked
  <2>3. jobs[j].created <= jobs[Waiting[1]].created
    BY <1>3, <2>1 DEF Queued
  <2> QED BY <1>1, <1>4, <2>1, <2>2, <2>3 DEF QueueFacts
<1>9. /\ OrderInv'
      /\ Waiting' = SubSeq(Waiting, 1, 0) \o SubSeq(Waiting, 2, Len(Waiting))
  <2>1. Waiting[1] = j
    BY <1>6, <1>8
  <2>2. OrderInv' /\ Waiting' = SubSeq(Waiting, 1, 1 - 1) \o SubSeq(Waiting, 1 + 1, Len(Waiting))
    BY <1>4, <1>5, <1>7, <2>1, LeaveStep
  <2>3. 1 - 1 = 0 /\ 1 + 1 = 2
    OBVIOUS
  <2> QED BY <2>2, <2>3
<1>10. Waiting # <<>> /\ Head(Waiting) = j /\ Waiting' = Tail(Waiting)
  <2>1. Waiting # <<>>
    BY <1>1, <1>7 DEF QueueFacts
  <2>2. Tail(Waiting) = SubSeq(Waiting, 2, Len(Waiting)) /\ Tail(Waiting) \in Seq(Queued)
    BY <1>1, <2>1, TailIsSubSeq, HeadTailProperties DEF QueueFacts
  <2>3. SubSeq(Waiting, 1, 0) = <<>>
    BY SubSeqEmpty
  <2>4. <<>> \o Tail(Waiting) = Tail(Waiting)
    BY <2>2, ConcatEmptySeq
  <2> QED BY <1>1, <1>6, <1>8, <1>9, <2>1, <2>2, <2>3, <2>4 DEF QueueFacts
<1>11. Holder' = [Holder EXCEPT ![j] = w]
  BY <1>2, <1>3 DEF Holder, JobsType, Row
<1>12. Withdrawn' = Withdrawn
  BY <1>2, <1>3, NoneAssumption DEF Withdrawn, StatusOf, JobsType, Row
<1> QED BY <1>9, <1>10, <1>11, <1>12 DEF Queue!Take

LEMMA WithdrawStep ==
    ASSUME QueueInv, JobsType', NEW j \in Job, CancelQueued(j), clock' = clock
    PROVE  OrderInv' /\ Queue!Withdraw(j)
<1>1. QueueFacts
  BY Facts
<1>2. JobsType
  BY RowsTyped DEF QueueInv, IInv
<1>3. StatusOf(j) = "queued" /\ jobs' = [jobs EXCEPT ![j].status = "cancelled"]
  BY DEF CancelQueued, SetStatus
<1>4. j \in Queued /\ Queued' = Queued \ {j}
  BY <1>2, <1>3 DEF Queued, StatusOf, JobsType, Row
<1>5. \A q \in Queued : jobs'[q].created = jobs[q].created
  BY <1>1, <1>2, <1>3 DEF QueueFacts, JobsType, Row
<1>6. PICK i \in 1 .. Cardinality(Queued) : Waiting[i] = j
  BY <1>1, <1>4, RankedCovers DEF QueueFacts
<1>7. /\ OrderInv'
      /\ Waiting' = SubSeq(Waiting, 1, i - 1) \o SubSeq(Waiting, i + 1, Len(Waiting))
  BY <1>4, <1>5, <1>6, LeaveStep
<1>8. i \in DOMAIN Waiting /\ Waiting' = Queue!RemoveAt(Waiting, i)
  BY <1>1, <1>7 DEF QueueFacts, Queue!RemoveAt
<1>9. Holder' = Holder
  BY <1>2, <1>3 DEF Holder, JobsType, Row
<1>10. Withdrawn' = Withdrawn \cup {j}
  <2>1. jobs[j].worker = NoWorker
    BY <1>1, <1>3 DEF QueueFacts
  <2> QED BY <1>2, <1>3, <2>1 DEF Withdrawn, StatusOf, JobsType, Row
<1> QED BY <1>6, <1>7, <1>8, <1>9, <1>10 DEF Queue!Withdraw

LEMMA InitQueue == Init => QueueInv /\ Queue!QueueInit
<1> SUFFICES ASSUME Init PROVE QueueInv /\ Queue!QueueInit
  OBVIOUS
<1>1. IInv
  BY InitIInv
<1>2. /\ jobs = [j \in Job |-> NoRow] /\ registered = {}
      /\ rec = [w \in Worker |-> OffRec] /\ call = [c \in Call |-> NewCall]
  BY DEF Init, StoreInit, ReconcilersInit, CallsInit
<1>3. TakenInv
  <2>1. RowsOK
    BY <1>2, NoneAssumption DEF RowsOK, RowOK, Taken, NoRow, StatusOf
  <2>2. RecsTaken
    BY <1>2 DEF RecsTaken, RecTaken, OffRec, EnginesTaken
  <2>3. CallsTaken
    BY <1>2 DEF CallsTaken, CallTaken, NewCall, Closing
  <2> QED BY <1>2, <2>1, <2>2, <2>3 DEF TakenInv, EnginesTaken
<1>4. Queued = {}
  BY <1>2 DEF Queued, StatusOf, NoRow
<1>5. IsFiniteSet({}) /\ Cardinality({}) = 0
  BY FS_EmptySet
<1>6. Ranked(<<>>, Queued, Created)
  BY <1>4, <1>5 DEF Ranked
<1>7. OrderInv
  BY <1>4, <1>5, <1>6 DEF OrderInv
<1>8. Waiting = <<>>
  BY <1>1, <1>6, <1>7, WaitingIs, RowsTyped DEF IInv, OnlyWaiting
<1>9. Holder = [j \in Job |-> NoWorker] /\ Withdrawn = {}
  BY <1>2 DEF Holder, Withdrawn, StatusOf, NoRow
<1> QED BY <1>1, <1>3, <1>7, <1>8, <1>9 DEF QueueInv, Queue!QueueInit

LEMMA NextQueue == QueueInv /\ [Next]_vars => QueueInv' /\ [Queue!QueueNext]_(Queue!qvars)
<1> SUFFICES ASSUME QueueInv, [Next]_vars PROVE QueueInv' /\ [Queue!QueueNext]_(Queue!qvars)
  OBVIOUS
<1>1. IInv' /\ TakenInv'
  BY NextIInv, TakenNext DEF QueueInv
<1>2. JobsType'
  BY <1>1 DEF IInv, StoreTypeOK, JobsType
<1>3. QueueStep
  BY StepQueue DEF QueueInv, StepGoal
<1>4. QueueGoal
  <2>1. CASE RowsQuiet /\ clock' = clock
    BY <1>2, <2>1, IdleStep
  <2>2. CASE \E j \in Job : Insert(j)
    BY <1>2, <2>2, EnqueueStep DEF QueueGoal, Queue!QueueNext
  <2>3. CASE \E j \in Job, w \in Worker : ClaimRow(j, w) /\ clock' = clock
    BY <1>2, <2>3, TakeStep DEF QueueGoal, Queue!QueueNext
  <2>4. CASE \E j \in Job : CancelQueued(j) /\ clock' = clock
    BY <1>2, <2>4, WithdrawStep DEF QueueGoal, Queue!QueueNext
  <2> QED BY <1>3, <2>1, <2>2, <2>3, <2>4 DEF QueueStep
<1> QED BY <1>1, <1>4 DEF QueueInv, QueueGoal

(* Whatever workers, cancels, crashes and late heartbeats do, the jobs     *)
(* table behaves as the queue its docstrings promise: jobs wait in the     *)
(* order of submission, each is taken once, the longest waiting first, or  *)
(* withdrawn once, and nothing else ever moves one (Store.create, claim    *)
(* and cancel_if_queued).                                                  *)
THEOREM TheTableIsAQueue == Spec => ImplementsQueue
  BY InitQueue, NextQueue, PTL DEF Spec, ImplementsQueue, Queue!QueueSpec
=============================================================================

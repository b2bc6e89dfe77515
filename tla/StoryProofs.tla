---------------------------- MODULE StoryProofs ----------------------------
(***************************************************************************)
(* Proofs about one job's events and its story (EventLog, JobStory), for   *)
(* any number of processes, threads and streams and any bounds: a stream   *)
(* skips no event, an append is only ever beaten by other processes        *)
(* (LogInv), an end is never told to nobody (StoryInv), and the log keeps  *)
(* its types (LogLimits).                                                  *)
(***************************************************************************)
EXTENDS JobStory, SequenceTheorems, TLAPS

-----------------------------------------------------------------------------
(* Part 1: the log. What a step may do to its variables.                  *)

LogCrash(p) ==
    /\ pen' = [t \in Thread |-> IF ProcessOf[t] = p THEN IdlePen ELSE pen[t]]
    /\ lock' = [lock EXCEPT ![p] = NoThread]
    /\ reader' = [r \in Reader |-> IF ProcessOf[r] = p /\ reader[r].pc = "yield"
                                   THEN [reader[r] EXCEPT !.pc = "fetch"] ELSE reader[r]]
    /\ log' = log

ReaderStep(r, over) == Fetch(r) \/ Yield(r) \/ Check(r, over) \/ Reconnect(r)

LogStep ==
    \/ \E t \in Thread : Select(t) /\ log' = log /\ reader' = reader
    \/ \E t \in Thread : Clash(t) /\ log' = log /\ reader' = reader
    \/ \E t \in Thread : NextIs(t, "append") /\ Insert(t, Head(thread[t].todo).arg) /\ reader' = reader
    \/ \E t \in Thread : GiveUp(t) /\ log' = log /\ reader' = reader
    \/ \E p \in Process : LogCrash(p)
    \/ \E r \in Reader : \E over : ReaderStep(r, over) /\ log' = log /\ pen' = pen /\ lock' = lock
    \/ UNCHANGED logVars

(* Every step of the job is one of these for the log.                      *)
LEMMA StepOfLog == [Next]_vars => LogStep
<1> SUFFICES ASSUME [Next]_vars PROVE LogStep
  OBVIOUS
<1>1. CASE UNCHANGED vars
  BY <1>1 DEF vars, logVars, LogStep
<1>2. ASSUME NEW t \in Thread, ThreadNext(t) PROVE LogStep
  <2>1. CASE Update(t) BY <2>1 DEF Update, LogStep
  <2>2. CASE AppendSelect(t) BY <2>2 DEF AppendSelect, LogStep
  <2>3. CASE AppendClash(t) BY <2>3 DEF AppendClash, LogStep
  <2>4. CASE AppendInsert(t) BY <2>4 DEF AppendInsert, LogStep
  <2>5. CASE AppendRaises(t) BY <2>5 DEF AppendRaises, LogStep
  <2> QED BY <1>2, <2>1, <2>2, <2>3, <2>4, <2>5 DEF ThreadNext
<1>3. CASE Submit
  BY <1>3 DEF Submit, LogStep
<1>4. ASSUME NEW s \in Slots, Claim(s) \/ Emit(s) \/ EndRun(s) PROVE LogStep
  BY <1>4 DEF Claim, Emit, EndRun, LogStep
<1>5. ASSUME NEW c \in Cancellers, CancelGet(c) \/ CancelWithdraw(c) \/ CancelFlag(c) PROVE LogStep
  BY <1>5 DEF CancelGet, CancelWithdraw, CancelFlag, LogStep
<1>6. ASSUME NEW f \in Finishers, EngineGone(f) \/ Reattach(f) \/ AttachLost(f) PROVE LogStep
  BY <1>6 DEF EngineGone, Reattach, AttachLost, LogStep
<1>7. ASSUME NEW t \in Cancellers \cup Finishers, Finish(t) PROVE LogStep
  BY <1>7 DEF Finish, LogStep
<1>8. ASSUME NEW t \in Reapers, Reap(t) PROVE LogStep
  BY <1>8 DEF Reap, LogStep
<1>9. ASSUME NEW p \in Mortal, Crash(p) PROVE LogStep
  BY <1>9, MortalAssumption DEF Crash, LogCrash, LogStep
<1>10. ASSUME NEW r \in Reader, StreamNext(r) \/ StreamReconnect(r) PROVE LogStep
  <2>1. ReaderStep(r, status \in StreamEnd) /\ log' = log /\ pen' = pen /\ lock' = lock
    BY <1>10 DEF StreamNext, StreamFetch, StreamYield, StreamCheck, StreamReconnect, ReaderStep
  <2> QED BY <2>1 DEF LogStep
<1> QED
  BY <1>1, <1>2, <1>3, <1>4, <1>5, <1>6, <1>7, <1>8, <1>9, <1>10 DEF Next

-----------------------------------------------------------------------------
(* The inductive invariant.  The numbers of the log have no gap, so the    *)
(* next one is above all of them and above every stream; and a thread that *)
(* appends has its process's lock, so what is added meanwhile is foreign.  *)

PenShape == [busy : BOOLEAN, top : Nat, tries : Nat, since : Nat]
ReaderShape == [pc : {"fetch", "yield", "ended"}, after : Nat, upto : Nat, empty : BOOLEAN, got : SUBSET log, drops : Nat]

Shapes ==
    /\ \A row \in log : row.seq \in Nat \ {0} /\ row.by \in Thread
    /\ pen \in [Thread -> PenShape]
    /\ lock \in [Process -> Thread \cup {NoThread}]
    /\ reader \in [Reader -> ReaderShape]

Unique == \A a, b \in log : a.seq = b.seq => a = b
NoGap == \A n \in Seqs : \A m \in 1 .. n : m \in Seqs

PenOK(t) ==
    pen[t].busy =>
        /\ pen[t].top \in Seqs \cup {0}
        /\ lock[ProcessOf[t]] = t
        /\ pen[t].since + pen[t].tries <= pen[t].top
        /\ \A row \in log : row.seq > pen[t].since => ProcessOf[row.by] # ProcessOf[t]

ReaderOK(r) ==
    /\ reader[r].after \in Seqs \cup {0}
    /\ \A row \in log : row.seq <= reader[r].after => row \in reader[r].got

PensOK == \A t \in Thread : PenOK(t)
ReadersOK == \A r \in Reader : ReaderOK(r)

LogInv == Shapes /\ Unique /\ NoGap /\ PensOK /\ ReadersOK

LEMMA LogInvInit == LogInit => LogInv
BY ProcessAssumption, ClientAssumption
   DEF LogInit, LogInv, Shapes, PenShape, ReaderShape, Unique, NoGap, PensOK, PenOK, ReadersOK, ReaderOK,
       Seqs, IdlePen, NewReader, Client

(* The process of a thread or a stream is a process.                       *)
LEMMA ProcessOfClient ==
    /\ \A t \in Thread : ProcessOf[t] \in Process /\ t # NoThread
    /\ \A r \in Reader : ProcessOf[r] \in Process
BY ProcessAssumption, ClientAssumption DEF Client

(* While the log and the pens stand still, only the streams can disturb    *)
(* the invariant.                                                          *)
LEMMA LogFrame ==
    ASSUME LogInv, log' = log
    PROVE  /\ Seqs' = Seqs /\ Unique' /\ NoGap'
           /\ \A row \in log' : row.seq \in Nat \ {0} /\ row.by \in Thread
           /\ reader' = reader => reader' \in [Reader -> ReaderShape'] /\ ReadersOK'
           /\ pen' = pen /\ lock' = lock => pen' \in [Thread -> PenShape] /\ PensOK'
<1>1. Seqs' = Seqs
  BY DEF Seqs
<1>2. Unique' /\ NoGap'
  BY <1>1 DEF LogInv, Unique, NoGap
<1>3. reader' = reader => reader' \in [Reader -> ReaderShape'] /\ ReadersOK'
  BY <1>1 DEF LogInv, Shapes, ReaderShape, ReadersOK, ReaderOK
<1>4. pen' = pen /\ lock' = lock => pen' \in [Thread -> PenShape] /\ PensOK'
  BY <1>1 DEF LogInv, Shapes, PensOK, PenOK
<1> QED BY <1>1, <1>2, <1>3, <1>4 DEF LogInv, Shapes

LEMMA SelectKeeps ==
    ASSUME LogInv, NEW t \in Thread, Select(t), log' = log, reader' = reader
    PROVE  LogInv'
<1>1. PICK n \in Seqs \cup {0} :
         IsLast(n) /\ pen' = [pen EXCEPT ![t] = [busy |-> TRUE, top |-> n, tries |-> 0, since |-> n]]
  BY DEF Select
<1>2. n \in Nat
  BY DEF LogInv, Shapes, Seqs
<1>3. pen' \in [Thread -> PenShape] /\ lock' \in [Process -> Thread \cup {NoThread}]
  BY <1>1, <1>2, ProcessOfClient DEF LogInv, Shapes, PenShape, Select
<1>4. PenOK(t)'
  <2>1. \A row \in log : ~(row.seq > n)
    BY <1>1, <1>2 DEF IsLast, Seqs, LogInv, Shapes
  <2>2. /\ pen'[t] = [busy |-> TRUE, top |-> n, tries |-> 0, since |-> n]
        /\ lock'[ProcessOf[t]] = t
    BY <1>1, ProcessOfClient DEF LogInv, Shapes, Select
  <2> QED BY <1>2, <2>1, <2>2, LogFrame DEF PenOK
<1>5. ASSUME NEW u \in Thread, u # t PROVE PenOK(u)'
  <2>1. pen'[u] = pen[u]
    BY <1>1, <1>5 DEF LogInv, Shapes
  <2>2. pen[u].busy => ProcessOf[u] # ProcessOf[t]
    BY ProcessOfClient DEF Select, Free, LogInv, PensOK, PenOK
  <2>3. pen[u].busy => lock'[ProcessOf[u]] = lock[ProcessOf[u]]
    BY <2>2, ProcessOfClient DEF Select, LogInv, Shapes
  <2> QED BY <2>1, <2>3, LogFrame DEF PenOK, LogInv, PensOK
<1> QED BY <1>3, <1>4, <1>5, LogFrame DEF LogInv, Shapes, PensOK

LEMMA ClashKeeps ==
    ASSUME LogInv, NEW t \in Thread, Clash(t), log' = log, reader' = reader
    PROVE  LogInv'
<1>1. PICK n \in Seqs : IsLast(n) /\ pen' = [pen EXCEPT ![t].top = n, ![t].tries = @ + 1]
  BY DEF Clash
<1>2. n \in Nat /\ pen[t] \in PenShape
  BY DEF LogInv, Shapes, Seqs
<1>3. pen'[t] = [pen[t] EXCEPT !.top = n, !.tries = @ + 1]
  BY <1>1 DEF LogInv, Shapes
<1>4. pen' \in [Thread -> PenShape] /\ lock' = lock
  BY <1>1, <1>2 DEF LogInv, Shapes, PenShape, Clash
<1>5. PenOK(t)'
  <2>1. pen[t].busy /\ pen[t].top + 1 <= n
    BY <1>1 DEF Clash, IsLast
  <2>2. pen'[t].top = n /\ pen'[t].tries = pen[t].tries + 1 /\ pen'[t].since = pen[t].since
    BY <1>2, <1>3 DEF PenShape
  <2>3. pen[t].since + (pen[t].tries + 1) <= n
    BY <1>2, <2>1 DEF LogInv, PensOK, PenOK, PenShape
  <2> QED BY <1>4, <2>1, <2>2, <2>3, LogFrame DEF PenOK, LogInv, PensOK
<1>6. ASSUME NEW u \in Thread, u # t PROVE PenOK(u)'
  <2>1. pen'[u] = pen[u]
    BY <1>1, <1>6 DEF LogInv, Shapes
  <2> QED BY <2>1, <1>4, LogFrame DEF PenOK, LogInv, PensOK
<1> QED BY <1>4, <1>5, <1>6, LogFrame DEF LogInv, Shapes, PensOK

(* A release leaves the others' pens and locks as they are.                *)
LEMMA ReleaseFrame ==
    ASSUME LogInv, NEW t \in Thread, pen[t].busy, Release(t)
    PROVE  /\ pen' \in [Thread -> PenShape]
           /\ lock' \in [Process -> Thread \cup {NoThread}]
           /\ ~pen'[t].busy
           /\ \A u \in Thread : u # t => pen'[u] = pen[u]
           /\ \A u \in Thread : u # t /\ pen[u].busy =>
                 ProcessOf[u] # ProcessOf[t] /\ lock'[ProcessOf[u]] = lock[ProcessOf[u]]
<1>1. /\ pen' \in [Thread -> PenShape]
      /\ lock' \in [Process -> Thread \cup {NoThread}]
      /\ ~pen'[t].busy
      /\ \A u \in Thread : u # t => pen'[u] = pen[u]
  BY ProcessOfClient DEF Release, IdlePen, LogInv, Shapes, PenShape
<1>2. \A u \in Thread : u # t /\ pen[u].busy => ProcessOf[u] # ProcessOf[t]
  BY DEF LogInv, PensOK, PenOK
<1> QED BY <1>1, <1>2, ProcessOfClient DEF Release, LogInv, Shapes

LEMMA GiveUpKeeps ==
    ASSUME LogInv, NEW t \in Thread, GiveUp(t), log' = log, reader' = reader
    PROVE  LogInv'
<1>1. pen[t].busy /\ Release(t)
  BY DEF GiveUp
<1>2. PensOK'
  BY <1>1, ReleaseFrame, LogFrame DEF LogInv, PensOK, PenOK
<1> QED BY <1>1, <1>2, ReleaseFrame, LogFrame DEF LogInv, Shapes

LEMMA RowKeeps ==
    ASSUME LogInv, NEW t \in Thread, NEW type, Insert(t, type), reader' = reader
    PROVE  LogInv'
<1> DEFINE next == pen[t].top + 1
           row0 == [seq |-> next, type |-> type, by |-> t]
<1>1. /\ pen[t].busy /\ next \notin Seqs /\ Release(t)
      /\ log' = log \cup {row0}
  BY DEF Insert
<1>2. next \in Nat \ {0} /\ next - 1 \in Seqs \cup {0} /\ Seqs \subseteq Nat \ {0}
  BY <1>1 DEF LogInv, Shapes, PensOK, PenOK, PenShape, Seqs
<1>3. row0.seq = next /\ row0.by = t
  OBVIOUS
<1> HIDE DEF row0
<1>4. Seqs' = Seqs \cup {next}
  BY <1>1, <1>3 DEF Seqs
<1>5. \A n \in Seqs : n < next
  BY <1>1, <1>2 DEF LogInv, NoGap
<1>6. \A row \in log : row.seq \in Seqs
  BY DEF Seqs
<1>7. Unique'
  BY <1>1, <1>3, <1>6 DEF LogInv, Unique
<1>8. NoGap'
  <2> SUFFICES ASSUME NEW m \in 1 .. next PROVE m \in Seqs \cup {next}
    BY <1>4, <1>2 DEF LogInv, NoGap
  <2>1. CASE next - 1 = 0
    BY <2>1, <1>2
  <2>2. CASE next - 1 \in Seqs
    BY <2>2, <1>2 DEF LogInv, NoGap
  <2> QED BY <2>1, <2>2, <1>2
<1>9. PensOK'
  <2> SUFFICES ASSUME NEW u \in Thread, pen'[u].busy PROVE PenOK(u)'
    BY DEF PensOK, PenOK
  <2>1. u # t /\ pen'[u] = pen[u] /\ ProcessOf[u] # ProcessOf[t] /\ lock'[ProcessOf[u]] = lock[ProcessOf[u]]
    BY <1>1, ReleaseFrame
  <2>2. PenOK(u) /\ pen[u].busy
    BY <2>1 DEF LogInv, PensOK
  <2> QED BY <1>1, <1>3, <1>4, <2>1, <2>2 DEF PenOK
<1>10. ReadersOK'
  <2> SUFFICES ASSUME NEW r \in Reader PROVE ReaderOK(r)'
    BY DEF ReadersOK
  <2>1. ReaderOK(r)
    BY DEF LogInv, ReadersOK
  <2>2. reader[r].after \in Seqs \cup {0}
    BY <2>1 DEF ReaderOK
  <2>3. ASSUME NEW n \in Seqs \cup {0} PROVE n \in Nat /\ n < next /\ ~(next <= n)
    <3>1. CASE n = 0
      BY <3>1, <1>2
    <3>2. CASE n \in Seqs
      <4>1. n < next /\ n \in Nat /\ next \in Nat
        BY <3>2, <1>2, <1>5
      <4> QED BY <4>1
    <3> QED BY <3>1, <3>2
  <2>4. ~(next <= reader[r].after)
    BY <2>2, <2>3
  <2>5. \A row \in log' : row.seq <= reader[r].after => row \in reader[r].got
    BY <1>1, <1>3, <2>1, <2>4 DEF ReaderOK
  <2> QED BY <1>4, <2>2, <2>5 DEF ReaderOK
<1>11. reader' \in [Reader -> ReaderShape']
  BY <1>1 DEF LogInv, Shapes, ReaderShape
<1>12. Shapes'
  BY <1>1, <1>2, <1>3, <1>11, ReleaseFrame DEF LogInv, Shapes
<1> QED BY <1>7, <1>8, <1>9, <1>10, <1>12 DEF LogInv

LEMMA LostKeeps ==
    ASSUME LogInv, NEW p \in Process, LogCrash(p)
    PROVE  LogInv'
<1>1. log' = log
  BY DEF LogCrash
<1>2. pen' \in [Thread -> PenShape] /\ lock' \in [Process -> Thread \cup {NoThread}]
  BY DEF LogCrash, LogInv, Shapes, PenShape, IdlePen
<1>3. PensOK'
  <2> SUFFICES ASSUME NEW u \in Thread, pen'[u].busy PROVE PenOK(u)'
    BY DEF PensOK, PenOK
  <2>1. ProcessOf[u] # p /\ pen'[u] = pen[u]
    BY DEF LogCrash, IdlePen
  <2>2. lock'[ProcessOf[u]] = lock[ProcessOf[u]]
    BY <2>1, ProcessOfClient DEF LogCrash, LogInv, Shapes
  <2> QED BY <1>1, <2>1, <2>2, LogFrame DEF PenOK, LogInv, PensOK
<1>4. ASSUME NEW r \in Reader
      PROVE  /\ reader'[r] \in ReaderShape
             /\ reader'[r].after = reader[r].after /\ reader'[r].got = reader[r].got
  BY DEF LogCrash, LogInv, Shapes, ReaderShape
<1>5. reader' \in [Reader -> ReaderShape'] /\ ReadersOK'
  <2>1. reader' \in [Reader -> ReaderShape]
    BY <1>4 DEF LogCrash
  <2> QED BY <1>1, <1>4, <2>1, LogFrame DEF ReaderShape, ReadersOK, ReaderOK, LogInv
<1> QED BY <1>1, <1>2, <1>3, <1>5, LogFrame DEF LogInv, Shapes

(* What a fetch does to a stream, without the batch it chooses.            *)
LEMMA FetchSets ==
    ASSUME LogInv, NEW r \in Reader, Fetch(r)
    PROVE  \E n \in Nat, e \in BOOLEAN : reader' = [reader EXCEPT ![r].upto = n, ![r].empty = e, ![r].pc = "yield"]
<1> DEFINE old == reader[r]
<1>1. old \in ReaderShape /\ Seqs \subseteq Nat
  BY DEF LogInv, Shapes, Seqs
<1> DEFINE rows == {n \in Seqs : n > old.after /\ Cardinality({m \in Seqs : m > old.after /\ m <= n}) <= Limit}
<1>2. PICK n \in rows \cup {old.after} :
         reader' = [reader EXCEPT ![r].upto = n, ![r].empty = (rows = {}), ![r].pc = "yield"]
  BY Zenon DEF Fetch
<1>3. rows \subseteq Seqs
  OBVIOUS
<1>4. n \in Nat
  BY <1>3, <1>1 DEF ReaderShape
<1>5. (rows = {}) \in BOOLEAN
  OBVIOUS
<1> HIDE DEF rows
<1> QED BY <1>2, <1>4, <1>5

LEMMA ReaderKeeps ==
    ASSUME LogInv, NEW r \in Reader, NEW over, ReaderStep(r, over), log' = log, pen' = pen, lock' = lock
    PROVE  LogInv'
<1> DEFINE old == reader[r] new == reader'[r]
<1>1. old \in ReaderShape /\ ReaderOK(r) /\ Seqs \subseteq Nat
  BY DEF LogInv, Shapes, ReadersOK, Seqs
<1>2. new \in ReaderShape /\ (\A q \in Reader : q # r => reader'[q] = reader[q]) /\ DOMAIN reader' = Reader
      /\ reader' = [q \in Reader |-> reader'[q]]
  <2>1. CASE Fetch(r)
    <3>1. PICK n \in Nat, e \in BOOLEAN : reader' = [reader EXCEPT ![r].upto = n, ![r].empty = e, ![r].pc = "yield"]
      BY <2>1, FetchSets
    <3>2. new \in ReaderShape
      BY <1>1, <3>1 DEF LogInv, Shapes, ReaderShape
    <3> QED BY <3>1, <3>2 DEF LogInv, Shapes
  <2>2. CASE Yield(r)
    BY <2>2, <1>1 DEF Yield, LogInv, Shapes, ReaderShape
  <2>3. CASE Check(r, over)
    BY <2>3, <1>1 DEF Check, LogInv, Shapes, ReaderShape
  <2>4. CASE Reconnect(r)
    BY <2>4, <1>1 DEF Reconnect, LogInv, Shapes, ReaderShape
  <2> QED BY <2>1, <2>2, <2>3, <2>4 DEF ReaderStep
<1>3. new.after \in Seqs \cup {0} /\ \A row \in log : row.seq <= new.after => row \in new.got
  <2>1. CASE Fetch(r)
    <3>1. new.after = old.after /\ new.got = old.got
      <4>1. PICK n \in Nat, e \in BOOLEAN : reader' = [reader EXCEPT ![r].upto = n, ![r].empty = e, ![r].pc = "yield"]
        BY <2>1, FetchSets
      <4> QED BY <1>1, <4>1 DEF LogInv, Shapes, ReaderShape
    <3> QED BY <3>1, <1>1 DEF ReaderOK
  <2>2. CASE Yield(r)
    <3>1. PICK row0 \in log :
             /\ row0.seq > old.after
             /\ \A n \in Seqs : n > old.after => row0.seq <= n
             /\ reader' = [reader EXCEPT ![r].got = @ \cup {row0}, ![r].after = row0.seq]
      BY <2>2 DEF Yield
    <3>2. new.after = row0.seq /\ new.got = old.got \cup {row0}
      BY <3>1, <1>1 DEF LogInv, Shapes, ReaderShape
    <3>3. ASSUME NEW row \in log, row.seq <= row0.seq PROVE row \in new.got
      <4>1. row.seq \in Nat /\ row0.seq \in Nat /\ old.after \in Nat /\ row.seq \in Seqs
        BY <1>1 DEF LogInv, Shapes, ReaderShape, Seqs
      <4>2. CASE row.seq <= old.after
        BY <4>2, <3>2, <1>1 DEF ReaderOK
      <4>3. CASE row.seq > old.after
        <5>1. row.seq = row0.seq
          BY <4>1, <4>3, <3>1, <3>3
        <5>2. row = row0
          BY <5>1 DEF LogInv, Unique
        <5> QED BY <5>2, <3>2
      <4> QED BY <4>1, <4>2, <4>3
    <3> QED BY <3>2, <3>3 DEF Seqs
  <2>3. CASE Check(r, over)
    <3>1. new.after = old.after /\ new.got = old.got
      BY <2>3, <1>1 DEF Check, LogInv, Shapes, ReaderShape
    <3> QED BY <3>1, <1>1 DEF ReaderOK
  <2>4. CASE Reconnect(r)
    <3>1. new.after = old.after /\ new.got = old.got
      BY <2>4, <1>1 DEF Reconnect, LogInv, Shapes, ReaderShape
    <3> QED BY <3>1, <1>1 DEF ReaderOK
  <2> QED BY <2>1, <2>2, <2>3, <2>4 DEF ReaderStep
<1>4. ReadersOK'
  BY <1>2, <1>3, LogFrame DEF ReadersOK, ReaderOK, LogInv
<1>5. reader' \in [Reader -> ReaderShape']
  <2>1. reader' \in [Reader -> ReaderShape]
    BY <1>2 DEF LogInv, Shapes
  <2> QED BY <2>1 DEF ReaderShape
<1> QED BY <1>4, <1>5, LogFrame DEF LogInv, Shapes

LEMMA LogInvStep == LogInv /\ [Next]_vars => LogInv'
<1> SUFFICES ASSUME LogInv, LogStep PROVE LogInv'
  BY StepOfLog
<1>1. CASE UNCHANGED logVars
  BY <1>1, LogFrame DEF logVars, LogInv, Shapes
<1> QED
  BY <1>1, SelectKeeps, ClashKeeps, RowKeeps, GiveUpKeeps, LostKeeps, ReaderKeeps DEF LogStep

(* The two properties follow from it.                                      *)
LEMMA LogInvImplies == LogInv => NoneSkipped /\ LostToOthers
<1> SUFFICES ASSUME LogInv PROVE NoneSkipped /\ LostToOthers
  OBVIOUS
<1>1. NoneSkipped
  BY DEF LogInv, Unique, ReadersOK, ReaderOK, NoneSkipped
<1>2. ASSUME NEW t \in Thread, pen[t].busy, NEW n \in (pen[t].since + 1) .. (pen[t].since + pen[t].tries)
      PROVE  \E row \in log : row.seq = n /\ ProcessOf[row.by] # ProcessOf[t]
  <2>1. pen[t] \in PenShape /\ PenOK(t) /\ Seqs \subseteq Nat
    BY DEF LogInv, Shapes, PensOK, Seqs
  <2>2. n \in Nat /\ n > pen[t].since /\ n <= pen[t].top /\ 1 <= n
    BY <1>2, <2>1 DEF PenOK, PenShape
  <2>3. n \in Seqs
    BY <1>2, <2>1, <2>2 DEF PenOK, PenShape, LogInv, NoGap
  <2> QED BY <1>2, <2>1, <2>2, <2>3 DEF Seqs, PenOK
<1> QED BY <1>1, <1>2 DEF LostToOthers

LEMMA LogInvariance == Spec => []LogInv
<1>1. Init => LogInv
  BY LogInvInit DEF Init
<1> QED BY <1>1, LogInvStep, PTL DEF Spec

(* NoneSkipped: however appends, crashes and broken connections interleave *)
(* and whatever the limits, no stream ever passes an event by (append and  *)
(* events of src/fes/store.py, job_stream of src/fes/api.py).              *)
THEOREM NothingIsSkipped == Spec => []NoneSkipped
BY LogInvariance, LogInvImplies, PTL

(* LostToOthers: the lock of a Store leaves only other processes to lose a *)
(* number to, once per attempt (append of src/fes/store.py).               *)
THEOREM OnlyOthersWin == Spec => []LostToOthers
BY LogInvariance, LogInvImplies, PTL

-----------------------------------------------------------------------------
(* Part 2: the threads' programs.  An update in a program is followed by   *)
(* the append that announces it.                                           *)
Op == [op : {"append", "update"}, arg : EventType]
Idle == {"new", "attach", "finish", "withdraw", "flag", "raised"}
ThreadShape == [pc : Idle \cup {"busy", "run"}, todo : Seq(Op), try : BOOLEAN, emits : Nat]

Followed(t, q) ==
    \A i \in 1 .. Len(q) : q[i].op = "update" =>
        /\ i + 1 \in 1 .. Len(q)
        /\ q[i + 1] = App(Announcement(t, q[i].arg))

ProgramOK(t, th) == Followed(t, th.todo) /\ (th.pc \in Idle => th.todo = <<>>)

Programs ==
    /\ thread \in [Thread -> ThreadShape]
    /\ \A t \in Thread : ProgramOK(t, thread[t])

Tells(type, to) == type = to \/ (to = "failed" /\ type = "error")
WillTell(q, to) == \E i \in 1 .. Len(q) : q[i].op = "update" \/ Tells(q[i].arg, to)

(* A thread whose program tells of it, or that will read it and replace it.*)
Settles(th, to) == WillTell(th.todo, to) \/ (to = "serving" /\ th.pc = "finish")

Told(to) == \E row \in log : Tells(row.type, to)

StoryInv == Programs /\ EndIsAnnounced

(* EndIsAnnounced in these terms.                                          *)
LEMMA Announced ==
    ASSUME Programs
    PROVE  EndIsAnnounced <=>
             (status \in StreamEnd =>
                 \/ Told(status)
                 \/ \E t \in Thread : Settles(thread[t], status)
                 \/ \E t \in Thread : thread[t].pc = "raised")
<1>1. ASSUME NEW t \in Thread PROVE DOMAIN thread[t].todo = 1 .. Len(thread[t].todo)
  BY DEF Programs, ThreadShape
<1> QED BY <1>1 DEF EndIsAnnounced, Told, Settles, WillTell, Tells

LEMMA AnnouncedNext ==
    ASSUME Programs'
    PROVE  EndIsAnnounced' <=>
             (status' \in StreamEnd =>
                 \/ \E row \in log' : Tells(row.type, status')
                 \/ \E t \in Thread : Settles(thread'[t], status')
                 \/ \E t \in Thread : thread'[t].pc = "raised")
<1>1. ASSUME NEW t \in Thread PROVE DOMAIN thread'[t].todo = 1 .. Len(thread'[t].todo)
  BY DEF Programs, ThreadShape
<1> QED BY <1>1 DEF EndIsAnnounced, Settles, WillTell, Tells

-----------------------------------------------------------------------------
(* The programs of jobs.py.                                                *)

LEMMA AnnouncementWord ==
    ASSUME NEW t, NEW to \in EventType PROVE Announcement(t, to) \in EventType
BY DEF Announcement, EventType

LEMMA AppOp == ASSUME NEW type \in EventType PROVE App(type) \in Op /\ App(type).op = "append" /\ App(type).arg = type
BY DEF App, Op

LEMMA UpdOp == ASSUME NEW to \in EventType PROVE Upd(to) \in Op /\ Upd(to).op = "update" /\ Upd(to).arg = to
BY DEF Upd, Op

LEMMA EmptyProgram == ASSUME NEW t PROVE <<>> \in Seq(Op) /\ Followed(t, <<>>) /\ \A to : ~WillTell(<<>>, to)
BY DEF Followed, WillTell

LEMMA OneAppend ==
    ASSUME NEW t, NEW type \in EventType
    PROVE  <<App(type)>> \in Seq(Op) /\ Followed(t, <<App(type)>>) /\ WillTell(<<App(type)>>, type)
<1> DEFINE q == <<App(type)>>
<1>1. q \in Seq(Op) /\ Len(q) = 1 /\ q[1] = App(type)
  BY AppOp
<1> QED BY <1>1, AppOp DEF Followed, WillTell, Tells

(* An update and its announcement, a and u, as a sequence of two.          *)
LEMMA TwoOps ==
    ASSUME NEW u \in Op, NEW a \in Op
    PROVE  /\ <<u, a>> \in Seq(Op) /\ Len(<<u, a>>) = 2 /\ <<u, a>>[1] = u /\ <<u, a>>[2] = a
OBVIOUS

LEMMA ThreeOps ==
    ASSUME NEW b \in Op, NEW u \in Op, NEW a \in Op, NEW q, q = <<b>> \o <<u, a>>
    PROVE  q \in Seq(Op) /\ Len(q) = 3 /\ q[1] = b /\ q[2] = u /\ q[3] = a
OBVIOUS

LEMMA EndProgram ==
    ASSUME NEW t, NEW to \in EventType
    PROVE  /\ End(t, to) \in Seq(Op) /\ Followed(t, End(t, to))
           /\ \A s : WillTell(End(t, to), s)
<1> DEFINE q == End(t, to)
<1> DEFINE u == Upd(to) a == App(Announcement(t, to))
<1>0. u \in Op /\ a \in Op /\ u.op = "update" /\ u.arg = to /\ a.op = "append" /\ q = <<u, a>>
  BY AppOp, UpdOp, AnnouncementWord DEF End
<1> HIDE DEF u, a
<1>1. q \in Seq(Op) /\ Len(q) = 2 /\ q[1] = u /\ q[2] = a
  BY <1>0, TwoOps
<1> HIDE DEF q
<1>2. Followed(t, q)
  <2>1. ASSUME NEW i \in 1 .. Len(q), q[i].op = "update" PROVE i = 1
    BY <1>0, <1>1, <2>1
  <2>2. 1 + 1 \in 1 .. Len(q) /\ q[1 + 1] = App(Announcement(t, q[1].arg))
    BY <1>0, <1>1 DEF a
  <2> QED BY <2>1, <2>2 DEF Followed
<1>3. \A s : WillTell(q, s)
  BY <1>0, <1>1 DEF WillTell
<1> QED BY <1>1, <1>2, <1>3 DEF q

LEMMA FinishProgram ==
    ASSUME NEW t, NEW to \in EventType
    PROVE  /\ <<App("engine_exited")>> \o End(t, to) \in Seq(Op)
           /\ Followed(t, <<App("engine_exited")>> \o End(t, to))
           /\ \A any : WillTell(<<App("engine_exited")>> \o End(t, to), any)
<1> DEFINE q == <<App("engine_exited")>> \o End(t, to)
<1> DEFINE b == App("engine_exited") u == Upd(to) a == App(Announcement(t, to))
<1>s. "engine_exited" \in EventType
  BY DEF EventType
<1>0. /\ b \in Op /\ u \in Op /\ a \in Op /\ q = <<b>> \o <<u, a>>
      /\ b.op = "append" /\ u.op = "update" /\ u.arg = to /\ a.op = "append"
  BY <1>s, AppOp, UpdOp, AnnouncementWord DEF End
<1> HIDE DEF b, u, a, q
<1>1. q \in Seq(Op) /\ Len(q) = 3 /\ q[1] = b /\ q[2] = u /\ q[3] = a
  BY <1>0, ThreeOps
<1>2. Followed(t, q)
  <2>1. ASSUME NEW i \in 1 .. Len(q), q[i].op = "update" PROVE i = 2
    BY <1>0, <1>1, <2>1
  <2>2. 2 + 1 \in 1 .. Len(q) /\ q[2 + 1] = App(Announcement(t, q[2].arg))
    BY <1>0, <1>1 DEF a
  <2> QED BY <2>1, <2>2 DEF Followed
<1>3. \A any : WillTell(q, any)
  <2>1. 2 \in 1 .. Len(q) /\ q[2].op = "update"
    BY <1>0, <1>1
  <2> QED BY <2>1 DEF WillTell
<1> QED BY <1>1, <1>2, <1>3 DEF q

LEMMA TailProgram ==
    ASSUME NEW t, NEW q \in Seq(Op), q # <<>>, Followed(t, q)
    PROVE  /\ Tail(q) \in Seq(Op) /\ Len(Tail(q)) = Len(q) - 1
           /\ \A i \in 1 .. (Len(q) - 1) : Tail(q)[i] = q[i + 1]
           /\ Head(q) = q[1] /\ Head(q) \in Op
           /\ Followed(t, Tail(q))
<1>1. /\ Tail(q) \in Seq(Op) /\ Len(Tail(q)) = Len(q) - 1
      /\ \A i \in 1 .. (Len(q) - 1) : Tail(q)[i] = q[i + 1]
      /\ Head(q) = q[1] /\ Head(q) \in Op /\ Len(q) \in Nat \ {0}
  OBVIOUS
<1>2. Followed(t, Tail(q))
  BY <1>1 DEF Followed
<1> QED BY <1>1, <1>2

-----------------------------------------------------------------------------
(* A step that gives one thread a new record.                              *)
LEMMA Replaced ==
    ASSUME Programs, NEW t \in Thread, NEW th \in ThreadShape, ProgramOK(t, th),
           thread' = [thread EXCEPT ![t] = th]
    PROVE  Programs' /\ thread'[t] = th /\ \A u \in Thread : u # t => thread'[u] = thread[u]
BY DEF Programs

(* ... one that had nothing to do: what was promised still is.             *)
LEMMA NewProgram ==
    ASSUME StoryInv, NEW t \in Thread, NEW th \in ThreadShape, ProgramOK(t, th),
           thread' = [thread EXCEPT ![t] = th],
           thread[t].todo = <<>>, thread[t].pc # "raised",
           thread[t].pc = "finish" => status # "serving" \/ WillTell(th.todo, status),
           log' = log,
           status' = status \/ status' \notin StreamEnd \/ WillTell(th.todo, status')
    PROVE  StoryInv'
<1>1. Programs' /\ thread'[t] = th /\ \A u \in Thread : u # t => thread'[u] = thread[u]
  BY Replaced DEF StoryInv
<1>2. SUFFICES ASSUME status' \in StreamEnd
      PROVE  \/ \E row \in log' : Tells(row.type, status')
             \/ \E u \in Thread : Settles(thread'[u], status')
             \/ \E u \in Thread : thread'[u].pc = "raised"
  BY <1>1, AnnouncedNext DEF StoryInv
<1>3. CASE WillTell(th.todo, status')
  BY <1>1, <1>3 DEF Settles
<1>4. CASE status' = status
  <2>1. \/ Told(status)
        \/ \E u \in Thread : Settles(thread[u], status)
        \/ \E u \in Thread : thread[u].pc = "raised"
    BY <1>2, <1>4, Announced DEF StoryInv
  <2>2. CASE Told(status)
    BY <2>2, <1>4 DEF Told
  <2>3. ASSUME NEW u \in Thread, Settles(thread[u], status)
        PROVE  Settles(thread'[u], status')
    <3>1. CASE u # t BY <2>3, <3>1, <1>1, <1>4
    <3>2. CASE u = t
      <4>1. ~WillTell(thread[t].todo, status)
        BY EmptyProgram
      <4> QED BY <2>3, <3>2, <4>1, <1>1, <1>4 DEF Settles
    <3> QED BY <3>1, <3>2
  <2>4. ASSUME NEW u \in Thread, thread[u].pc = "raised" PROVE thread'[u].pc = "raised"
    BY <2>4, <1>1
  <2> QED BY <2>1, <2>2, <2>3, <2>4
<1> QED BY <1>2, <1>3, <1>4

LEMMA Frame ==
    ASSUME StoryInv, status' = status, log' = log, thread' = thread
    PROVE  StoryInv'
BY DEF StoryInv, Programs, EndIsAnnounced

-----------------------------------------------------------------------------
(* The steps.                                                              *)

LEMMA StoryInvInit == Init => StoryInv
<1> SUFFICES ASSUME Init PROVE StoryInv
  OBVIOUS
<1>1. IdleThread \in ThreadShape /\ \A t : ProgramOK(t, IdleThread)
  BY EmptyProgram DEF IdleThread, ThreadShape, Idle, ProgramOK
<1>2. Programs
  BY <1>1 DEF Init, Programs
<1>3. status \notin StreamEnd
  BY DEF Init, StreamEnd, Terminal
<1> QED BY <1>2, <1>3 DEF StoryInv, EndIsAnnounced

(* A thread with the program q and the place pc.                           *)
LEMMA Starts ==
    ASSUME StoryInv, NEW t \in Thread, NEW pc \in Idle \cup {"busy", "run"},
           NEW q \in Seq(Op), Followed(t, q), pc \in Idle => q = <<>>
    PROVE  /\ [thread[t] EXCEPT !.pc = pc, !.todo = q] \in ThreadShape
           /\ ProgramOK(t, [thread[t] EXCEPT !.pc = pc, !.todo = q])
           /\ [thread[t] EXCEPT !.pc = pc, !.todo = q].todo = q
BY DEF StoryInv, Programs, ThreadShape, ProgramOK

LEMMA SubmitKeeps == ASSUME StoryInv, Submit PROVE StoryInv'
<1> DEFINE q == <<App("queued")>>
           th == [thread[Submitter] EXCEPT !.pc = "busy", !.todo = q]
<1>1. Submitter \in Thread /\ "queued" \in EventType
  BY RolesAssumption DEF EventType
<1>2. th \in ThreadShape /\ ProgramOK(Submitter, th)
  BY <1>1, OneAppend, Starts DEF Idle
<1>3. thread' = [thread EXCEPT ![Submitter] = th] /\ log' = log /\ status' = "queued"
  BY <1>1 DEF Submit, Does, logVars, StoryInv, Programs
<1>4. thread[Submitter].todo = <<>> /\ thread[Submitter].pc \notin {"finish", "raised"}
  BY <1>1 DEF Submit, New, StoryInv, Programs, ProgramOK, Idle
<1>5. status' \notin StreamEnd
  BY <1>3 DEF StreamEnd, Terminal
<1> HIDE DEF th
<1> QED BY <1>1, <1>2, <1>3, <1>4, <1>5, NewProgram

LEMMA ClaimKeeps == ASSUME StoryInv, NEW s \in Slots, Claim(s) PROVE StoryInv'
<1> DEFINE q == <<App("started")>>
           th == [thread[s] EXCEPT !.pc = "run", !.todo = q]
<1>1. s \in Thread /\ "started" \in EventType
  BY RolesAssumption DEF EventType
<1>2. th \in ThreadShape /\ ProgramOK(s, th)
  BY <1>1, OneAppend, Starts DEF Idle
<1>3. thread' = [thread EXCEPT ![s] = th] /\ log' = log /\ status' = "running"
  BY <1>1 DEF Claim, logVars, StoryInv, Programs
<1>4. thread[s].todo = <<>> /\ thread[s].pc \notin {"finish", "raised"}
  BY <1>1 DEF Claim, New, StoryInv, Programs, ProgramOK, Idle
<1>5. status' \notin StreamEnd
  BY <1>3 DEF StreamEnd, Terminal
<1> HIDE DEF th
<1> QED BY <1>1, <1>2, <1>3, <1>4, <1>5, NewProgram

LEMMA EmitKeeps == ASSUME StoryInv, NEW s \in Slots, Emit(s) PROVE StoryInv'
<1> DEFINE q == <<App("progress")>>
           th == [thread[s] EXCEPT !.todo = q, !.try = TRUE, !.emits = @ + 1]
<1>1. s \in Thread /\ "progress" \in EventType
  BY RolesAssumption DEF EventType
<1>2. q \in Seq(Op) /\ Followed(s, q) /\ thread[s].pc = "run" /\ thread[s].todo = <<>>
  BY <1>1, OneAppend DEF Emit
<1> HIDE DEF q
<1>3. th \in ThreadShape /\ ProgramOK(s, th)
  <2>1. thread[s] \in ThreadShape
    BY <1>1 DEF StoryInv, Programs
  <2>2. thread[s].emits + 1 \in Nat
    BY <2>1 DEF ThreadShape
  <2>3. th.todo = q /\ th.pc = "run"
    BY <1>2, <2>1 DEF ThreadShape
  <2>4. th \in ThreadShape
    BY <1>2, <2>1, <2>2 DEF ThreadShape
  <2> QED BY <1>2, <2>3, <2>4 DEF ProgramOK, Idle
<1>4. thread' = [thread EXCEPT ![s] = th] /\ log' = log /\ status' = status
  BY <1>1 DEF Emit, q, logVars, StoryInv, Programs
<1> HIDE DEF th
<1> QED BY <1>1, <1>2, <1>3, <1>4, NewProgram

LEMMA EndRunKeeps == ASSUME StoryInv, NEW s \in Slots, EndRun(s) PROVE StoryInv'
<1>1. s \in Thread
  BY RolesAssumption
<1>2. PICK to \in Outcomes :
         thread' = [thread EXCEPT ![s].pc = "busy", ![s].todo = End(s, to), ![s].try = to \in {"serving", "succeeded"}]
  BY DEF EndRun
<1>3. to \in EventType
  BY DEF Outcomes, EventType
<1> DEFINE q == End(s, to)
           try == to \in {"serving", "succeeded"}
           th == [thread[s] EXCEPT !.pc = "busy", !.todo = q, !.try = try]
<1>4. q \in Seq(Op) /\ Followed(s, q) /\ try \in BOOLEAN
  BY <1>3, EndProgram
<1>5. thread' = [thread EXCEPT ![s] = th] /\ log' = log /\ status' = status
  BY <1>1, <1>2 DEF EndRun, logVars, StoryInv, Programs
<1> HIDE DEF q, try
<1>6. th \in ThreadShape /\ ProgramOK(s, th)
  BY <1>1, <1>4 DEF StoryInv, Programs, ThreadShape, ProgramOK, Idle
<1>7. thread[s].todo = <<>> /\ thread[s].pc \notin {"finish", "raised"}
  BY DEF EndRun
<1> HIDE DEF th
<1> QED BY <1>1, <1>5, <1>6, <1>7, NewProgram

(* Steps that leave a thread at pc, with nothing to do yet.                *)
LEMMA GotoKeeps ==
    ASSUME StoryInv, NEW t \in Thread, NEW pc \in Idle \cup {"busy", "run"}, Goto(t, pc),
           thread[t].todo = <<>>, thread[t].pc \notin {"finish", "raised"}, log' = log,
           status' = status \/ status' \notin StreamEnd
    PROVE  StoryInv'
<1> DEFINE th == [thread[t] EXCEPT !.pc = pc]
<1>1. th \in ThreadShape /\ ProgramOK(t, th)
  BY DEF StoryInv, Programs, ThreadShape, ProgramOK
<1>2. thread' = [thread EXCEPT ![t] = th]
  BY DEF Goto, StoryInv, Programs
<1> HIDE DEF th
<1> QED BY <1>1, <1>2, NewProgram

(* Steps that give a thread the program q.                                 *)
LEMMA DoesKeeps ==
    ASSUME StoryInv, NEW t \in Thread, NEW q \in Seq(Op), Followed(t, q), Does(t, q),
           thread[t].todo = <<>>, thread[t].pc # "raised", log' = log,
           thread[t].pc = "finish" => status # "serving" \/ WillTell(q, status),
           status' = status \/ WillTell(q, status')
    PROVE  StoryInv'
<1> DEFINE th == [thread[t] EXCEPT !.pc = "busy", !.todo = q]
<1>1. th \in ThreadShape /\ ProgramOK(t, th) /\ th.todo = q
  BY Starts DEF Idle
<1>2. thread' = [thread EXCEPT ![t] = th]
  BY DEF Does, StoryInv, Programs
<1> HIDE DEF th
<1> QED BY <1>1, <1>2, NewProgram

(* A thread in one of these places has nothing to do.                      *)
LEMMA IdleHasNothing ==
    ASSUME StoryInv, NEW t \in Thread, thread[t].pc \in Idle
    PROVE  thread[t].todo = <<>>
BY DEF StoryInv, Programs, ProgramOK

LEMMA CancelKeeps ==
    ASSUME StoryInv, NEW c \in Cancellers, CancelGet(c) \/ CancelWithdraw(c) \/ CancelFlag(c)
    PROVE  StoryInv'
<1>1. c \in Thread
  BY RolesAssumption
<1>2. CASE CancelGet(c)
  <2> DEFINE pc == IF status \in Terminal THEN "busy" ELSE IF status = "serving" THEN "finish" ELSE "withdraw"
  <2>1. pc \in Idle \cup {"busy", "run"}
    BY DEF Idle
  <2>2. Goto(c, pc) /\ log' = log /\ status' = status /\ thread[c].pc = "new"
    BY <1>2 DEF CancelGet, New, logVars
  <2>3. thread[c].todo = <<>>
    BY <1>1, <2>2, IdleHasNothing DEF Idle
  <2> HIDE DEF pc
  <2> QED BY <1>1, <2>1, <2>2, <2>3, GotoKeeps
<1>3. CASE CancelWithdraw(c)
  <2>1. thread[c].pc = "withdraw" /\ thread[c].todo = <<>> /\ log' = log
    BY <1>1, <1>3, IdleHasNothing DEF CancelWithdraw, Idle, logVars
  <2>2. CASE status = "queued"
    <3>1. status' = "cancelled" /\ Does(c, <<App("cancelled")>>)
      BY <1>3, <2>2 DEF CancelWithdraw
    <3>2. "cancelled" \in EventType
      BY DEF EventType
    <3> QED BY <1>1, <2>1, <3>1, <3>2, OneAppend, DoesKeeps
  <2>3. CASE status # "queued"
    <3>1. status' = status /\ Goto(c, "flag")
      BY <1>3, <2>3 DEF CancelWithdraw
    <3> QED BY <1>1, <2>1, <3>1, GotoKeeps DEF Idle
  <2> QED BY <2>2, <2>3
<1>4. CASE CancelFlag(c)
  <2>1. thread[c].pc = "flag" /\ thread[c].todo = <<>> /\ log' = log /\ status' = status
    BY <1>1, <1>4, IdleHasNothing DEF CancelFlag, Idle, logVars
  <2>2. Does(c, <<App("cancel_requested")>>) /\ "cancel_requested" \in EventType
    BY <1>4 DEF CancelFlag, EventType
  <2> QED BY <1>1, <2>1, <2>2, OneAppend, DoesKeeps
<1> QED BY <1>2, <1>3, <1>4

LEMMA EngineGoneKeeps == ASSUME StoryInv, NEW f \in Finishers, EngineGone(f) PROVE StoryInv'
<1>1. f \in Thread /\ "engine_stopped" \in EventType
  BY RolesAssumption DEF EventType
<1>2. thread[f].pc = "new" /\ thread[f].todo = <<>> /\ log' = log /\ status' = status
  BY <1>1, IdleHasNothing DEF EngineGone, New, Idle, logVars
<1>3. CASE Goto(f, "finish")
  BY <1>1, <1>2, <1>3, GotoKeeps DEF Idle
<1>4. CASE Does(f, <<App("engine_stopped")>>)
  BY <1>1, <1>2, <1>4, OneAppend, DoesKeeps
<1> QED BY <1>3, <1>4 DEF EngineGone

(* The row serves again, and the thread that wrote it is to close it.      *)
LEMMA AttachKeeps == ASSUME StoryInv, NEW f \in Finishers, Reattach(f) \/ AttachLost(f) PROVE StoryInv'
<1>1. f \in Thread
  BY RolesAssumption
<1>2. CASE Reattach(f)
  <2>1. thread[f].pc = "new" /\ thread[f].todo = <<>> /\ log' = log /\ status' = status /\ Goto(f, "attach")
    BY <1>1, <1>2, IdleHasNothing DEF Reattach, New, Idle, logVars
  <2> QED BY <1>1, <2>1, GotoKeeps DEF Idle
<1>3. CASE AttachLost(f)
  <2> DEFINE th == [thread[f] EXCEPT !.pc = "finish"]
  <2>1. thread[f].pc = "attach" /\ thread[f].todo = <<>> /\ status' = "serving" /\ Goto(f, "finish")
    BY <1>1, <1>3, IdleHasNothing DEF AttachLost, Idle
  <2>2. th \in ThreadShape /\ ProgramOK(f, th) /\ th.pc = "finish"
    BY <1>1, <2>1 DEF StoryInv, Programs, ThreadShape, ProgramOK, Idle
  <2>3. thread' = [thread EXCEPT ![f] = th]
    BY <2>1 DEF Goto, StoryInv, Programs
  <2> HIDE DEF th
  <2>4. Programs' /\ thread'[f] = th
    BY <1>1, <2>2, <2>3, Replaced DEF StoryInv
  <2>5. Settles(thread'[f], status')
    BY <2>1, <2>2, <2>4 DEF Settles
  <2> QED BY <1>1, <2>4, <2>5, AnnouncedNext DEF StoryInv
<1> QED BY <1>2, <1>3

LEMMA FinishKeeps == ASSUME StoryInv, NEW t \in Cancellers \cup Finishers, Finish(t) PROVE StoryInv'
<1>1. t \in Thread
  BY RolesAssumption
<1>2. thread[t].pc = "finish" /\ thread[t].todo = <<>> /\ log' = log /\ status' = status
  BY <1>1, IdleHasNothing DEF Finish, Idle, logVars
<1>3. PICK to \in {"stopped", "timeout", "failed"} :
         Does(t, IF status \in Terminal THEN <<>> ELSE <<App("engine_exited")>> \o End(t, to))
  BY DEF Finish
<1>4. CASE status \in Terminal
  <2>1. status # "serving"
    BY <1>4 DEF Terminal
  <2> QED BY <1>1, <1>2, <1>3, <1>4, <2>1, EmptyProgram, DoesKeeps
<1>5. CASE status \notin Terminal
  <2>1. to \in EventType
    BY DEF EventType
  <2> DEFINE q == <<App("engine_exited")>> \o End(t, to)
  <2>2. Does(t, q) /\ q \in Seq(Op) /\ Followed(t, q) /\ WillTell(q, status)
    BY <1>1, <1>3, <1>5, <2>1, FinishProgram
  <2> HIDE DEF q
  <2> QED BY <1>1, <1>2, <2>2, DoesKeeps
<1> QED BY <1>4, <1>5

LEMMA ReapKeeps == ASSUME StoryInv, NEW t \in Reapers, Reap(t) PROVE StoryInv'
<1>1. t \in Thread /\ "interrupted" \in EventType
  BY RolesAssumption DEF EventType
<1>2. thread[t].pc = "new" /\ thread[t].todo = <<>> /\ log' = log /\ status' = status
  BY <1>1, IdleHasNothing DEF Reap, New, Idle, logVars
<1> QED BY <1>1, <1>2, EndProgram, DoesKeeps DEF Reap

LEMMA UpdateKeeps == ASSUME StoryInv, NEW t \in Thread, Update(t) PROVE StoryInv'
<1> DEFINE q == thread[t].todo
           th == [thread[t] EXCEPT !.todo = Tail(q)]
<1>1. /\ q \in Seq(Op) /\ q # <<>> /\ Followed(t, q) /\ thread[t] \in ThreadShape /\ thread[t].pc \notin Idle
      /\ Head(q).op = "update" /\ status' = Head(q).arg /\ log' = log
  BY DEF Update, NextIs, StoryInv, Programs, ProgramOK, ThreadShape, logVars
<1>2. thread' = [thread EXCEPT ![t] = th]
  BY DEF Update, Advance, StoryInv, Programs
<1> HIDE DEF q
<1>3. /\ Tail(q) \in Seq(Op) /\ Len(Tail(q)) = Len(q) - 1 /\ Len(q) \in Nat \ {0}
      /\ \A i \in 1 .. (Len(q) - 1) : Tail(q)[i] = q[i + 1]
      /\ Head(q) = q[1] /\ Head(q) \in Op /\ Followed(t, Tail(q))
  BY <1>1, TailProgram
<1>4. 2 \in 1 .. Len(q) /\ q[2] = App(Announcement(t, Head(q).arg))
  <2>1. 1 \in 1 .. Len(q) /\ q[1].op = "update"
    BY <1>1, <1>3
  <2>2. 1 + 1 \in 1 .. Len(q) /\ q[1 + 1] = App(Announcement(t, q[1].arg))
    BY <1>1, <2>1 DEF Followed
  <2> QED BY <2>2, <1>3
<1>5. WillTell(Tail(q), Head(q).arg)
  <2>1. 1 \in 1 .. Len(Tail(q)) /\ Tail(q)[1] = q[2]
    BY <1>3, <1>4
  <2>2. Tells(q[2].arg, Head(q).arg)
    BY <1>4 DEF App, Announcement, Tells
  <2> QED BY <2>1, <2>2 DEF WillTell
<1>6. th \in ThreadShape /\ th.todo = Tail(q) /\ th.pc = thread[t].pc
  BY <1>1, <1>3 DEF ThreadShape
<1>7. ProgramOK(t, th)
  BY <1>1, <1>3, <1>6 DEF ProgramOK
<1> HIDE DEF th
<1>8. Programs' /\ thread'[t] = th
  BY <1>2, <1>6, <1>7, Replaced DEF StoryInv
<1>9. Settles(thread'[t], status')
  BY <1>1, <1>5, <1>6, <1>8 DEF Settles
<1> QED BY <1>8, <1>9, AnnouncedNext DEF StoryInv

LEMMA InsertKeeps == ASSUME StoryInv, NEW t \in Thread, AppendInsert(t) PROVE StoryInv'
<1> DEFINE q == thread[t].todo
           th == [thread[t] EXCEPT !.todo = Tail(q)]
           row0 == [seq |-> pen[t].top + 1, type |-> Head(q).arg, by |-> t]
<1>1. /\ q \in Seq(Op) /\ q # <<>> /\ Followed(t, q) /\ thread[t] \in ThreadShape /\ thread[t].pc \notin Idle
      /\ Head(q).op = "append" /\ status' = status /\ log' = log \cup {row0} /\ row0.type = Head(q).arg
  BY DEF AppendInsert, Insert, NextIs, StoryInv, Programs, ProgramOK, ThreadShape
<1>2. thread' = [thread EXCEPT ![t] = th]
  BY DEF AppendInsert, Advance, StoryInv, Programs
<1> HIDE DEF q, row0
<1>3. /\ Tail(q) \in Seq(Op) /\ Len(Tail(q)) = Len(q) - 1 /\ Len(q) \in Nat \ {0}
      /\ \A i \in 1 .. (Len(q) - 1) : Tail(q)[i] = q[i + 1]
      /\ Head(q) = q[1] /\ Head(q) \in Op /\ Followed(t, Tail(q))
  BY <1>1, TailProgram
<1>6. th \in ThreadShape /\ th.todo = Tail(q) /\ th.pc = thread[t].pc
  BY <1>1, <1>3 DEF ThreadShape
<1>7. ProgramOK(t, th)
  BY <1>1, <1>3, <1>6 DEF ProgramOK
<1> HIDE DEF th
<1>8. Programs' /\ thread'[t] = th /\ \A u \in Thread : u # t => thread'[u] = thread[u]
  BY <1>2, <1>6, <1>7, Replaced DEF StoryInv
<1>9. SUFFICES ASSUME status \in StreamEnd
      PROVE  \/ \E row \in log' : Tells(row.type, status)
             \/ \E u \in Thread : Settles(thread'[u], status)
             \/ \E u \in Thread : thread'[u].pc = "raised"
  BY <1>1, <1>8, AnnouncedNext DEF StoryInv
<1>10. \/ Told(status)
       \/ \E u \in Thread : Settles(thread[u], status)
       \/ \E u \in Thread : thread[u].pc = "raised"
  BY <1>9, Announced DEF StoryInv
<1>11. CASE Told(status)
  BY <1>1, <1>11 DEF Told
<1>12. ASSUME NEW u \in Thread, u # t, Settles(thread[u], status) PROVE Settles(thread'[u], status)
  BY <1>8, <1>12
<1>13. ASSUME WillTell(q, status)
       PROVE  Tells(row0.type, status) \/ WillTell(Tail(q), status)
  <2>1. PICK i \in 1 .. Len(q) : q[i].op = "update" \/ Tells(q[i].arg, status)
    BY <1>13 DEF WillTell
  <2>2. CASE i = 1
    BY <1>1, <1>3, <2>1, <2>2
  <2>3. CASE i # 1
    <3>1. i - 1 \in 1 .. Len(Tail(q)) /\ Tail(q)[i - 1] = q[i]
      <4>1. i - 1 \in 1 .. (Len(q) - 1) /\ (i - 1) + 1 = i
        BY <2>3, <1>3
      <4> QED BY <4>1, <1>3
    <3> QED BY <2>1, <3>1 DEF WillTell
  <2> QED BY <2>2, <2>3
<1>14. ASSUME NEW u \in Thread, thread[u].pc = "raised" PROVE thread'[u].pc = "raised"
  BY <1>14, <1>6, <1>8
<1>15. CASE Settles(thread[t], status)
  <2>1. WillTell(q, status)
    BY <1>1, <1>15 DEF q, Settles, Idle
  <2>2. row0 \in log' /\ thread'[t].todo = Tail(q)
    BY <1>1, <1>6, <1>8
  <2> QED BY <2>1, <2>2, <1>13 DEF Settles
<1> QED BY <1>10, <1>11, <1>12, <1>14, <1>15

LEMMA RaiseKeeps == ASSUME StoryInv, NEW t \in Thread, AppendRaises(t) PROVE StoryInv'
<1>1. thread[t] \in ThreadShape /\ log' = log /\ status' = status
  BY DEF AppendRaises, StoryInv, Programs
<1>2. CASE thread[t].try
  <2>1. PICK to \in {"failed", "cancelled"} :
           thread' = [thread EXCEPT ![t].pc = "busy", ![t].todo = End(t, to), ![t].try = FALSE]
    BY <1>2 DEF AppendRaises
  <2>2. to \in EventType
    BY DEF EventType
  <2> DEFINE q == End(t, to)
             th == [thread[t] EXCEPT !.pc = "busy", !.todo = q, !.try = FALSE]
  <2>3. q \in Seq(Op) /\ Followed(t, q) /\ WillTell(q, status')
    BY <2>2, EndProgram
  <2>4. thread' = [thread EXCEPT ![t] = th]
    BY <2>1 DEF StoryInv, Programs
  <2> HIDE DEF q
  <2>5. th \in ThreadShape /\ th.todo = q /\ ProgramOK(t, th)
    BY <1>1, <2>3 DEF ThreadShape, ProgramOK, Idle
  <2> HIDE DEF th
  <2>6. Programs' /\ thread'[t] = th
    BY <2>4, <2>5, Replaced DEF StoryInv
  <2>7. Settles(thread'[t], status')
    BY <2>3, <2>5, <2>6 DEF Settles
  <2> QED BY <2>6, <2>7, AnnouncedNext DEF StoryInv
<1>3. CASE ~thread[t].try
  <2> DEFINE th == [thread[t] EXCEPT !.pc = "raised", !.todo = <<>>]
  <2>1. thread' = [thread EXCEPT ![t] = th]
    BY <1>3 DEF AppendRaises, StoryInv, Programs
  <2>2. th \in ThreadShape /\ ProgramOK(t, th) /\ th.pc = "raised"
    BY <1>1, EmptyProgram DEF ThreadShape, ProgramOK, Idle
  <2> HIDE DEF th
  <2>3. Programs' /\ thread'[t] = th
    BY <2>1, <2>2, Replaced DEF StoryInv
  <2> QED BY <2>2, <2>3, AnnouncedNext DEF StoryInv
<1> QED BY <1>2, <1>3

LEMMA CrashKeeps == ASSUME StoryInv, NEW p, Crash(p) PROVE StoryInv'
<1>1. log' = log /\ status' = status
  BY DEF Crash
<1>2. ASSUME NEW t \in Thread
      PROVE  \/ thread'[t] = thread[t]
             \/ thread'[t] = [thread[t] EXCEPT !.pc = "raised", !.todo = <<>>]
  BY DEF Crash
<1>3. ASSUME NEW t \in Thread PROVE [thread[t] EXCEPT !.pc = "raised", !.todo = <<>>] \in ThreadShape
                                   /\ ProgramOK(t, [thread[t] EXCEPT !.pc = "raised", !.todo = <<>>])
  BY EmptyProgram, Starts DEF Idle
<1>4. ASSUME NEW t \in Thread
      PROVE  /\ thread'[t] \in ThreadShape /\ ProgramOK(t, thread'[t])
             /\ thread'[t] = thread[t] \/ thread'[t].pc = "raised"
  <2>1. thread[t] \in ThreadShape /\ ProgramOK(t, thread[t])
    BY DEF StoryInv, Programs
  <2> QED BY <1>2, <1>3, <2>1 DEF ThreadShape
<1>5. Programs'
  BY <1>4 DEF Crash, Programs
<1>6. SUFFICES ASSUME status \in StreamEnd
      PROVE  \/ \E row \in log : Tells(row.type, status)
             \/ \E u \in Thread : Settles(thread'[u], status)
             \/ \E u \in Thread : thread'[u].pc = "raised"
  BY <1>1, <1>5, AnnouncedNext DEF StoryInv
<1>7. \/ Told(status)
      \/ \E u \in Thread : Settles(thread[u], status)
      \/ \E u \in Thread : thread[u].pc = "raised"
  BY <1>6, Announced DEF StoryInv
<1> QED BY <1>4, <1>7 DEF Told

-----------------------------------------------------------------------------
LEMMA StoryInvStep == StoryInv /\ [Next]_vars => StoryInv'
<1> SUFFICES ASSUME StoryInv, [Next]_vars PROVE StoryInv'
  OBVIOUS
<1>1. CASE UNCHANGED vars
  BY <1>1, Frame DEF vars, logVars
<1>2. ASSUME NEW t \in Thread, ThreadNext(t) PROVE StoryInv'
  <2>1. CASE AppendSelect(t) \/ AppendClash(t)
    BY <2>1, Frame DEF AppendSelect, AppendClash
  <2> QED BY <1>2, <2>1, UpdateKeeps, InsertKeeps, RaiseKeeps DEF ThreadNext
<1>3. ASSUME NEW r \in Reader, StreamNext(r) \/ StreamReconnect(r) PROVE StoryInv'
  BY <1>3, Frame DEF StreamNext, StreamFetch, StreamYield, StreamCheck, StreamReconnect
<1> QED
  BY <1>1, <1>2, <1>3, SubmitKeeps, ClaimKeeps, EmitKeeps, EndRunKeeps, CancelKeeps, EngineGoneKeeps,
     AttachKeeps, FinishKeeps, ReapKeeps, CrashKeeps
  DEF Next

(* EndIsAnnounced: a job that is over, or serving, has it told in its log, *)
(* or a thread is about to, or the thread that was to tell it is dead,     *)
(* whatever the order of ends, cancels, failing appends and crashes, for   *)
(* any number of threads (the updates and appends of src/fes/jobs.py).     *)
THEOREM EndsAnnounced == Spec => []EndIsAnnounced
<1>1. StoryInv => EndIsAnnounced
  BY DEF StoryInv
<1> QED BY <1>1, StoryInvInit, StoryInvStep, PTL DEF Spec

-----------------------------------------------------------------------------
(* Part 3: the types of the log, which rest on both: a row's type is a     *)
(* word of a program, and a client has only rows of the log.               *)

LogLimits ==
    /\ log \subseteq Row
    /\ \A t \in Thread : pen[t].tries <= Attempts - 1
    /\ \A r \in Reader : reader[r].drops <= Drops

LEMMA LimitsInit == Init => LogLimits
BY LimitsAssumption DEF Init, LogInit, LogLimits, IdlePen, NewReader

LEMMA LimitsStep == LogInv /\ Programs /\ LogLimits /\ [Next]_vars => LogLimits'
<1> SUFFICES ASSUME LogInv, Programs, LogLimits, LogStep PROVE LogLimits'
  BY StepOfLog
<1>s. Shapes
  BY DEF LogInv
<1>n. Attempts \in Nat \ {0} /\ Drops \in Nat
  BY LimitsAssumption
<1>1. ASSUME NEW t \in Thread, Select(t), log' = log, reader' = reader PROVE LogLimits'
  <2>1. ASSUME NEW u \in Thread PROVE pen'[u].tries <= Attempts - 1
    BY <1>1, <1>s, <1>n DEF Select, LogLimits, Shapes
  <2> QED BY <1>1, <2>1 DEF LogLimits
<1>2. ASSUME NEW t \in Thread, Clash(t), log' = log, reader' = reader PROVE LogLimits'
  <2>1. ASSUME NEW u \in Thread PROVE pen'[u].tries <= Attempts - 1
    <3>1. pen[t] \in PenShape /\ pen[u] \in PenShape
      BY <1>s DEF Shapes
    <3> QED BY <1>2, <1>s, <1>n, <3>1 DEF Clash, LogLimits, Shapes, PenShape
  <2> QED BY <1>2, <2>1 DEF LogLimits
<1>3. ASSUME NEW t \in Thread, Release(t), reader' = reader
      PROVE  /\ \A u \in Thread : pen'[u].tries <= Attempts - 1
             /\ \A r \in Reader : reader'[r].drops <= Drops
  BY <1>3, <1>s, <1>n DEF Release, IdlePen, LogLimits, Shapes
<1>4. ASSUME NEW t \in Thread, NextIs(t, "append"), Insert(t, Head(thread[t].todo).arg), reader' = reader
      PROVE  LogLimits'
  <2> DEFINE type == Head(thread[t].todo).arg
             row0 == [seq |-> pen[t].top + 1, type |-> type, by |-> t]
  <2>1. type \in EventType
    <3>1. thread[t].todo \in Seq(Op) /\ thread[t].todo # <<>>
      BY <1>4 DEF NextIs, Programs, ThreadShape
    <3>2. Head(thread[t].todo) \in Op
      BY <3>1
    <3> QED BY <3>2 DEF Op
  <2>2. pen[t].top + 1 \in Nat \ {0}
    <3>1. pen[t] \in PenShape
      BY <1>s DEF Shapes
    <3> QED BY <3>1 DEF PenShape
  <2>3. row0 \in Row /\ log' = log \cup {row0} /\ Release(t)
    BY <1>4, <2>1, <2>2 DEF Row, Insert
  <2> HIDE DEF row0
  <2> QED BY <1>3, <1>4, <2>3 DEF LogLimits
<1>5. ASSUME NEW t \in Thread, GiveUp(t), log' = log, reader' = reader PROVE LogLimits'
  BY <1>3, <1>5 DEF GiveUp, LogLimits
<1>6. ASSUME NEW p \in Process, LogCrash(p) PROVE LogLimits'
  <2>1. ASSUME NEW u \in Thread PROVE pen'[u].tries <= Attempts - 1
    BY <1>6, <1>n DEF LogCrash, IdlePen, LogLimits
  <2>2. ASSUME NEW r \in Reader PROVE reader'[r].drops <= Drops
    BY <1>6, <1>s DEF LogCrash, LogLimits, Shapes, ReaderShape
  <2> QED BY <1>6, <2>1, <2>2 DEF LogCrash, LogLimits
<1>7. ASSUME NEW r \in Reader, NEW over, ReaderStep(r, over), log' = log, pen' = pen, lock' = lock
      PROVE  LogLimits'
  <2>1. ASSUME NEW q \in Reader PROVE reader'[q].drops <= Drops
    <3>1. reader[q] \in ReaderShape /\ reader[r] \in ReaderShape /\ reader[q].drops <= Drops
      BY <1>s DEF Shapes, LogLimits
    <3>2. CASE Fetch(r)
      <4>1. PICK n \in Nat, e \in BOOLEAN : reader' = [reader EXCEPT ![r].upto = n, ![r].empty = e, ![r].pc = "yield"]
        BY <3>2, FetchSets
      <4> QED BY <3>1, <4>1, <1>s DEF Shapes, ReaderShape
    <3>3. CASE Yield(r) BY <3>1, <3>3, <1>s DEF Yield, Shapes, ReaderShape
    <3>4. CASE Check(r, over) BY <3>1, <3>4, <1>s DEF Check, Shapes, ReaderShape
    <3>5. CASE Reconnect(r) BY <3>1, <3>5, <1>s, <1>n DEF Reconnect, Shapes, ReaderShape
    <3> QED BY <1>7, <3>2, <3>3, <3>4, <3>5 DEF ReaderStep
  <2> QED BY <1>7, <2>1 DEF LogLimits
<1>8. CASE UNCHANGED logVars
  BY <1>8 DEF logVars, LogLimits
<1> QED BY <1>1, <1>2, <1>4, <1>5, <1>6, <1>7, <1>8 DEF LogStep

LEMMA LimitsImply == LogInv /\ LogLimits => LogTypeOK
<1> SUFFICES ASSUME LogInv, LogLimits PROVE LogTypeOK
  OBVIOUS
<1>n. Attempts \in Nat \ {0} /\ Drops \in Nat /\ Shapes
  BY LimitsAssumption DEF LogInv
<1>1. ASSUME NEW t \in Thread
      PROVE  pen[t] \in [busy : BOOLEAN, top : Nat, tries : 0 .. (Attempts - 1), since : Nat]
  <2>1. pen[t] \in PenShape /\ pen[t].tries <= Attempts - 1
    BY <1>n DEF Shapes, LogLimits
  <2>2. pen[t].tries \in 0 .. (Attempts - 1)
    BY <1>n, <2>1 DEF PenShape
  <2> QED BY <2>1, <2>2, Zenon DEF PenShape
<1>2. ASSUME NEW r \in Reader
      PROVE  reader[r] \in [pc : {"fetch", "yield", "ended"}, after : Nat, upto : Nat, empty : BOOLEAN,
                            got : SUBSET Row, drops : 0 .. Drops]
  <2>1. reader[r] \in ReaderShape /\ reader[r].drops <= Drops
    BY <1>n DEF Shapes, LogLimits
  <2>2. reader[r].drops \in 0 .. Drops /\ reader[r].got \in SUBSET Row
    BY <1>n, <2>1 DEF ReaderShape, LogLimits
  <2> QED BY <2>1, <2>2 DEF ReaderShape
<1> QED BY <1>n, <1>1, <1>2 DEF Shapes, LogLimits, LogTypeOK

(* LogTypeOK: every row of the log has its number, its word and its writer,*)
(* an append gives up after Attempts and a stream after Drops reconnects,  *)
(* and a client holds rows of the log only (append and events of           *)
(* src/fes/store.py, job_stream of src/fes/api.py).                        *)
THEOREM LogKeepsItsTypes == Spec => []LogTypeOK
<1>1. Spec => []StoryInv
  BY StoryInvInit, StoryInvStep, PTL DEF Spec
<1>2. StoryInv => Programs
  BY DEF StoryInv
<1>3. Spec => []LogLimits
  BY <1>1, <1>2, LogInvariance, LimitsInit, LimitsStep, PTL DEF Spec
<1> QED BY <1>3, LogInvariance, LimitsImply, PTL
=============================================================================

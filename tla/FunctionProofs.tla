--------------------------- MODULE FunctionProofs ---------------------------
(***************************************************************************)
(* Proofs about the parts MCFunctions checks over bounded inputs: the      *)
(* learned timings and the recovered trials, as systems of their own, for  *)
(* any number of workers, models and trials; and the rules that are no     *)
(* more than arithmetic or sets, for every input.                          *)
(***************************************************************************)
EXTENDS MCFunctions, FiniteSetTheorems, SequenceTheorems, TLAPS

-----------------------------------------------------------------------------
(* Part 1: the learned timings.  What a fold has read may be out of date   *)
(* when it is written, so the invariant says of every observe under way    *)
(* what its value is worth, and that two of one model are known as a race. *)

FoldOf(names) == [busy : {TRUE}, model : Model, value : [names -> Value], first : BOOLEAN, count : Nat,
                  seen : [names -> Nat], updated : SUBSET (Estimate \X Nat)]

TimingsTyped ==
    /\ own \in [Model -> SUBSET (Estimate \X Nat)]
    /\ samples \in [Model -> Nat]
    /\ measured \in [Model -> SUBSET (Estimate \X Value)]
    /\ fold \in [Worker -> {NoFold} \cup UNION {FoldOf(names) : names \in SUBSET Estimate}]

FoldTrue(f) ==
    \A k \in DOMAIN f.value :
       /\ <<k, f.value[k]>> \in measured[f.model]
       /\ Between(f.seen[k], MeasuredOf(f.model, k) \cup {Prior})
       /\ f.model \notin raced /\ HasOwn(f.model, k) => Between(f.seen[k], MeasuredOf(f.model, k))

FoldsTrue == \A w \in Worker : fold[w].busy = TRUE => FoldTrue(fold[w])

(* What is folded in is worth as much as an estimate.                      *)
UpdateTrue(f) ==
    \A pair \in f.updated :
       /\ f.model \notin raced => Between(pair[2], MeasuredOf(f.model, pair[1]))
       /\ Between(pair[2], MeasuredOf(f.model, pair[1]) \cup {Prior})

UpdatesTrue == \A w \in Worker : fold[w].busy = TRUE => UpdateTrue(fold[w])

RacesKnown ==
    \A u, w \in Worker :
       u # w /\ fold[u].busy = TRUE /\ fold[w].busy = TRUE /\ fold[u].model = fold[w].model => fold[w].model \in raced

TimingsInv == TimingsTyped /\ FoldsTrue /\ UpdatesTrue /\ RacesKnown /\ OwnMeasurements

LEMMA BetweenMore == ASSUME NEW S, NEW T, S \subseteq T, NEW v, Between(v, S) PROVE Between(v, T)
BY DEF Between

LEMMA BetweenMember == ASSUME NEW S, NEW v \in Nat, v \in S PROVE Between(v, S)
BY DEF Between

(* A mean lies between what its two values lie between.                    *)
LEMMA BetweenMix ==
    ASSUME NEW S \in SUBSET Nat, NEW a \in Nat, NEW b \in Nat, Between(a, S), Between(b, S)
    PROVE  Mix(a, b) \in Nat /\ Between(Mix(a, b), S)
<1>1. Mix(a, b) \in Nat
  BY DEF Mix
<1>2. \A x \in Nat : x <= a /\ x <= b => x <= Mix(a, b)
  BY DEF Mix
<1>3. \A x \in Nat : a <= x /\ b <= x => Mix(a, b) <= x
  BY DEF Mix
<1>4. PICK x \in S : x <= a
  BY DEF Between
<1>5. PICK y \in S : y <= b
  BY DEF Between
<1>6. PICK p \in S : a <= p
  BY DEF Between
<1>7. PICK q \in S : b <= q
  BY DEF Between
<1>8. \E v \in S : v <= Mix(a, b)
  <2>1. CASE x <= y
    <3>1. x <= b /\ x \in Nat
      BY <1>5, <2>1
    <3> QED BY <3>1, <1>2, <1>4
  <2>2. CASE y <= x
    <3>1. y <= a /\ y \in Nat
      BY <1>4, <2>2
    <3> QED BY <3>1, <1>2, <1>5
  <2> QED BY <2>1, <2>2
<1>9. \E v \in S : Mix(a, b) <= v
  <2>1. CASE p <= q
    <3>1. a <= q /\ q \in Nat
      BY <1>6, <2>1
    <3> QED BY <3>1, <1>3, <1>7
  <2>2. CASE q <= p
    <3>1. b <= p /\ p \in Nat
      BY <1>7, <2>2
    <3> QED BY <3>1, <1>3, <1>6
  <2> QED BY <2>1, <2>2
<1> QED BY <1>1, <1>8, <1>9 DEF Between

(* A fold under way, unpacked.                                             *)
LEMMA BusyFold ==
    ASSUME TimingsTyped, NEW w \in Worker, fold[w].busy = TRUE
    PROVE  \E names \in SUBSET Estimate : fold[w] \in FoldOf(names)
<1>1. NoFold.busy = FALSE
  BY DEF NoFold
<1> QED BY <1>1 DEF TimingsTyped

LEMMA MeasuredValues ==
    ASSUME TimingsTyped, NEW m \in Model, NEW k
    PROVE  /\ MeasuredOf(m, k) \subseteq Nat
           /\ \A v : <<k, v>> \in measured[m] => v \in MeasuredOf(m, k)
<1>1. \A p \in measured[m] : p[2] \in Value
  BY DEF TimingsTyped
<1>2. MeasuredOf(m, k) \subseteq Value
  BY <1>1 DEF MeasuredOf
<1>3. ASSUME NEW v, <<k, v>> \in measured[m] PROVE v \in MeasuredOf(m, k)
  <2>1. <<k, v>>[1] = k /\ <<k, v>>[2] = v
    OBVIOUS
  <2> QED BY <1>3, <2>1 DEF MeasuredOf
<1> QED BY <1>2, <1>3, ValueAssumption

LEMMA StatTrue ==
    ASSUME TimingsTyped, OwnMeasurements, NEW m \in Model, NEW k
    PROVE  /\ Stat(m, k) \in Nat
           /\ Between(Stat(m, k), MeasuredOf(m, k) \cup {Prior})
           /\ m \notin raced /\ HasOwn(m, k) => Between(Stat(m, k), MeasuredOf(m, k))
<1>1. CASE HasOwn(m, k)
  <2> DEFINE p == CHOOSE pair \in own[m] : pair[1] = k
  <2>1. p \in own[m] /\ p[1] = k
    BY <1>1 DEF HasOwn
  <2>2. Stat(m, k) = p[2]
    BY <1>1 DEF Stat
  <2> HIDE DEF p
  <2>3. p[2] \in Nat
    BY <2>1 DEF TimingsTyped
  <2> QED BY <2>1, <2>2, <2>3 DEF OwnMeasurements
<1>2. CASE ~HasOwn(m, k)
  <2>1. Stat(m, k) = Prior /\ Prior \in Nat
    BY <1>2, ValueAssumption DEF Stat
  <2> QED BY <1>2, <2>1, BetweenMember
<1> QED BY <1>1, <1>2

LEMMA ReadKeeps ==
    ASSUME TimingsInv, NEW w \in Worker, NEW m \in Model, ObserveRead(w, m)
    PROVE  TimingsInv'
<1> USE DEF TimingsInv
<1>1. PICK names \in (SUBSET Estimate) \ {{}} : \E value \in [names -> Value] :
         /\ fold' = [fold EXCEPT ![w] = [busy |-> TRUE, model |-> m, value |-> value, first |-> samples[m] = 0,
                                         count |-> samples[m], seen |-> [k \in names |-> Stat(m, k)],
                                         updated |-> {}]]
         /\ measured' = [measured EXCEPT ![m] = @ \cup {<<k, value[k]>> : k \in names}]
  BY DEF ObserveRead
<1>2. PICK value \in [names -> Value] :
         /\ fold' = [fold EXCEPT ![w] = [busy |-> TRUE, model |-> m, value |-> value, first |-> samples[m] = 0,
                                         count |-> samples[m], seen |-> [k \in names |-> Stat(m, k)],
                                         updated |-> {}]]
         /\ measured' = [measured EXCEPT ![m] = @ \cup {<<k, value[k]>> : k \in names}]
  BY <1>1
<1> DEFINE f == [busy |-> TRUE, model |-> m, value |-> value, first |-> samples[m] = 0,
                 count |-> samples[m], seen |-> [k \in names |-> Stat(m, k)], updated |-> {}]
<1>3. f.updated = {} /\ f \in FoldOf(names) /\ f.busy = TRUE /\ f.model = m /\ f.value = value
      /\ f.seen = [k \in names |-> Stat(m, k)]
  BY StatTrue DEF FoldOf, TimingsTyped
<1>4. fold' = [fold EXCEPT ![w] = f]
  BY <1>2
<1> HIDE DEF f
<1>5. /\ UNCHANGED <<own, samples>>
      /\ raced \subseteq raced'
      /\ (\E u \in Worker : fold[u].busy /\ fold[u].model = m) => m \in raced'
  BY DEF ObserveRead
<1>6. TimingsTyped'
  <2>1. measured' \in [Model -> SUBSET (Estimate \X Value)]
    BY <1>2 DEF TimingsTyped
  <2>2. fold' \in [Worker -> {NoFold} \cup UNION {FoldOf(n) : n \in SUBSET Estimate}]
    BY <1>3, <1>4 DEF TimingsTyped
  <2> QED BY <1>5, <2>1, <2>2 DEF TimingsTyped
<1>7. \A n \in Model : \A k : MeasuredOf(n, k) \subseteq MeasuredOf(n, k)'
  BY <1>2 DEF MeasuredOf, TimingsTyped
<1>8. \A n \in Model : \A k : HasOwn(n, k)' = HasOwn(n, k)
  BY <1>5 DEF HasOwn
<1>9. OwnMeasurements'
  <2> SUFFICES ASSUME NEW n \in Model, NEW pair \in own'[n]
               PROVE  /\ n \notin raced' => Between(pair[2], MeasuredOf(n, pair[1])')
                      /\ Between(pair[2], MeasuredOf(n, pair[1])' \cup {Prior})
    BY DEF OwnMeasurements
  <2>1. pair \in own[n]
    BY <1>5
  <2>2. /\ n \notin raced => Between(pair[2], MeasuredOf(n, pair[1]))
        /\ Between(pair[2], MeasuredOf(n, pair[1]) \cup {Prior})
    BY <2>1 DEF OwnMeasurements
  <2>3. MeasuredOf(n, pair[1]) \subseteq MeasuredOf(n, pair[1])'
    BY <1>7
  <2> QED BY <1>5, <2>2, <2>3, BetweenMore
<1>10. FoldsTrue'
  <2>1. ASSUME NEW g, g = f PROVE FoldTrue(g)'
    <3> SUFFICES ASSUME NEW k \in DOMAIN g.value
                 PROVE  /\ <<k, g.value[k]>> \in measured'[g.model]
                        /\ Between(g.seen[k], MeasuredOf(g.model, k)' \cup {Prior})
                        /\ g.model \notin raced' /\ HasOwn(g.model, k)' => Between(g.seen[k], MeasuredOf(g.model, k)')
      BY ZenonT(30) DEF FoldTrue
    <3>1. g.model = m /\ k \in names /\ g.value[k] = value[k] /\ g.seen[k] = Stat(m, k)
      BY <1>3, <2>1
    <3>2. <<k, value[k]>> \in measured'[m]
      BY <1>2, <3>1 DEF TimingsTyped
    <3>3. MeasuredOf(m, k) \subseteq MeasuredOf(m, k)'
      BY <1>7
    <3>4. Between(Stat(m, k), MeasuredOf(m, k)' \cup {Prior})
      BY <3>3, StatTrue, BetweenMore
    <3>5. m \notin raced /\ HasOwn(m, k) => Between(Stat(m, k), MeasuredOf(m, k)')
      BY <3>3, StatTrue, BetweenMore
    <3> QED BY <1>5, <1>8, <3>1, <3>2, <3>4, <3>5
  <2>2. ASSUME NEW u \in Worker, NEW g, g = fold[u], g.busy = TRUE PROVE FoldTrue(g)'
    <3> SUFFICES ASSUME NEW k \in DOMAIN g.value
                 PROVE  /\ <<k, g.value[k]>> \in measured'[g.model]
                        /\ Between(g.seen[k], MeasuredOf(g.model, k)' \cup {Prior})
                        /\ g.model \notin raced' /\ HasOwn(g.model, k)' => Between(g.seen[k], MeasuredOf(g.model, k)')
      BY DEF FoldTrue
    <3>1. g.model \in Model
      BY <2>2, BusyFold DEF FoldOf
    <3>2. FoldTrue(g)
      BY <2>2 DEF FoldsTrue
    <3>3. <<k, g.value[k]>> \in measured'[g.model]
      BY <1>2, <3>1, <3>2 DEF FoldTrue, TimingsTyped
    <3>4. MeasuredOf(g.model, k) \subseteq MeasuredOf(g.model, k)'
      BY <1>7, <3>1
    <3>a. MeasuredOf(g.model, k) \cup {Prior} \subseteq MeasuredOf(g.model, k)' \cup {Prior}
      BY <3>4
    <3>b. Between(g.seen[k], MeasuredOf(g.model, k) \cup {Prior})
      BY <3>2 DEF FoldTrue
    <3>5. Between(g.seen[k], MeasuredOf(g.model, k)' \cup {Prior})
      BY <3>a, <3>b, BetweenMore
    <3>6. g.model \notin raced /\ HasOwn(g.model, k) => Between(g.seen[k], MeasuredOf(g.model, k)')
      BY <3>2, <3>4, BetweenMore DEF FoldTrue
    <3> QED BY <1>5, <1>8, <3>1, <3>3, <3>5, <3>6
  <2>3. ASSUME NEW u \in Worker, fold'[u].busy = TRUE PROVE FoldTrue(fold[u])'
    <3>1. CASE u = w
      BY <1>4, <2>1, <3>1 DEF TimingsTyped, FoldTrue, HasOwn, MeasuredOf
    <3>2. CASE u # w
      <4>1. fold'[u] = fold[u]
        BY <1>4, <3>2 DEF TimingsTyped
      <4> QED BY <2>2, <2>3, <4>1 DEF FoldTrue, HasOwn, MeasuredOf
    <3> QED BY <3>1, <3>2
  <2> QED BY <2>3 DEF FoldsTrue
<1>11. RacesKnown'
  <2> SUFFICES ASSUME NEW u \in Worker, NEW v \in Worker, u # v, fold'[u].busy = TRUE, fold'[v].busy = TRUE,
                      fold'[u].model = fold'[v].model
               PROVE  fold'[v].model \in raced'
    BY DEF RacesKnown
  <2>1. CASE u # w /\ v # w
    <3>1. fold'[u] = fold[u] /\ fold'[v] = fold[v]
      BY <1>4, <2>1 DEF TimingsTyped
    <3> QED BY <1>5, <3>1 DEF RacesKnown
  <2>2. CASE u = w
    <3>1. fold'[u] = f /\ fold'[v] = fold[v]
      BY <1>4, <2>2 DEF TimingsTyped
    <3> QED BY <1>3, <1>5, <3>1
  <2>3. CASE v = w
    <3>1. fold'[v] = f /\ fold'[u] = fold[u]
      BY <1>4, <2>3 DEF TimingsTyped
    <3> QED BY <1>3, <1>5, <3>1
  <2> QED BY <2>1, <2>2, <2>3
<1>12. UpdatesTrue'
  <2> SUFFICES ASSUME NEW u \in Worker, fold'[u].busy = TRUE, NEW pair \in fold'[u].updated,
                      NEW n, n = fold'[u].model
               PROVE  /\ n \notin raced' => Between(pair[2], MeasuredOf(n, pair[1])')
                      /\ Between(pair[2], MeasuredOf(n, pair[1])' \cup {Prior})
    BY DEF UpdatesTrue, UpdateTrue, MeasuredOf
  <2>1. u # w /\ fold'[u] = fold[u]
    BY <1>3, <1>4 DEF TimingsTyped
  <2>2. n = fold[u].model /\ n \in Model
    BY <2>1, BusyFold DEF FoldOf
  <2>3. /\ n \notin raced => Between(pair[2], MeasuredOf(n, pair[1]))
        /\ Between(pair[2], MeasuredOf(n, pair[1]) \cup {Prior})
    BY <2>1, <2>2 DEF UpdatesTrue, UpdateTrue
  <2>4. MeasuredOf(n, pair[1]) \subseteq MeasuredOf(n, pair[1])'
    BY <1>7, <2>2
  <2>5. MeasuredOf(n, pair[1]) \cup {Prior} \subseteq MeasuredOf(n, pair[1])' \cup {Prior}
    BY <2>4
  <2> QED BY <1>5, <2>3, <2>4, <2>5, BetweenMore
<1> QED BY <1>6, <1>9, <1>10, <1>11, <1>12

LEMMA FoldIsTrue ==
    ASSUME TimingsInv, NEW w \in Worker, fold[w].busy = TRUE, NEW k \in DOMAIN fold[w].value
    PROVE  LET f == fold[w] m == f.model IN
           /\ Fold(m, f, k) \in Nat
           /\ m \notin raced => Between(Fold(m, f, k), MeasuredOf(m, k))
           /\ Between(Fold(m, f, k), MeasuredOf(m, k) \cup {Prior})
<1> USE DEF TimingsInv
<1>1. PICK f : f = fold[w]
  OBVIOUS
<1> DEFINE m == f.model
           names == DOMAIN f.value
<1>2. f.busy = TRUE /\ k \in names
  BY <1>1
<1>3. PICK n \in SUBSET Estimate : f \in FoldOf(n)
  BY <1>1, <1>2, BusyFold
<1>4. /\ m \in Model /\ names \subseteq Estimate /\ f.count \in Nat
      /\ \A j \in names : f.value[j] \in Nat /\ f.seen[j] \in Nat
  BY <1>3, ValueAssumption DEF FoldOf
<1>5. FoldTrue(f)
  BY <1>1, <1>2 DEF FoldsTrue
<1>6. MeasuredOf(m, k) \subseteq Nat /\ \A v : <<k, v>> \in measured[m] => v \in MeasuredOf(m, k)
  BY <1>4, MeasuredValues
<1>7. /\ Fold(m, f, k) \in Nat
      /\ m \notin raced => Between(Fold(m, f, k), MeasuredOf(m, k))
      /\ Between(Fold(m, f, k), MeasuredOf(m, k) \cup {Prior})
  <2>1. f.value[k] \in MeasuredOf(m, k) /\ f.value[k] \in Nat /\ f.seen[k] \in Nat
    BY <1>2, <1>4, <1>5, <1>6 DEF FoldTrue
  <2>2. Between(f.value[k], MeasuredOf(m, k)) /\ Between(f.value[k], MeasuredOf(m, k) \cup {Prior})
    BY <2>1, BetweenMember
  <2>3. CASE Fold(m, f, k) = f.value[k]
    BY <2>1, <2>2, <2>3
  <2>4. CASE Fold(m, f, k) = Mix(f.seen[k], f.value[k]) /\ HasOwn(m, k)
    <3>1. MeasuredOf(m, k) \in SUBSET Nat /\ MeasuredOf(m, k) \cup {Prior} \in SUBSET Nat
      BY <1>4, <1>6, ValueAssumption
    <3>2. /\ m \notin raced => Between(f.seen[k], MeasuredOf(m, k))
          /\ Between(f.seen[k], MeasuredOf(m, k) \cup {Prior})
      BY <1>2, <1>5, <2>4 DEF FoldTrue
    <3>3. m \notin raced => Between(Mix(f.seen[k], f.value[k]), MeasuredOf(m, k))
      BY <2>1, <2>2, <3>1, <3>2, BetweenMix
    <3>4. Mix(f.seen[k], f.value[k]) \in Nat
          /\ Between(Mix(f.seen[k], f.value[k]), MeasuredOf(m, k) \cup {Prior})
      BY <2>1, <2>2, <3>1, <3>2, BetweenMix
    <3> QED BY <2>4, <3>3, <3>4
  <2> QED BY <2>3, <2>4 DEF Fold
<1> QED BY <1>1, <1>7

LEMMA FoldKeeps ==
    ASSUME TimingsInv, NEW w \in Worker, NEW k \in Estimate, ObserveFold(w, k)
    PROVE  TimingsInv'
<1> USE DEF TimingsInv
<1>1. PICK f : f = fold[w]
  OBVIOUS
<1> DEFINE new == Fold(f.model, f, k)
           g == [f EXCEPT !.updated = @ \cup {<<k, new>>}]
<1>2. /\ f.busy = TRUE /\ k \in DOMAIN f.value
      /\ fold' = [fold EXCEPT ![w] = g]
      /\ UNCHANGED <<own, samples, measured, raced>>
  BY <1>1 DEF ObserveFold, TimingsTyped, NoFold
<1>3. PICK n \in SUBSET Estimate : f \in FoldOf(n)
  BY <1>1, <1>2, BusyFold
<1>4. /\ new \in Nat
      /\ f.model \notin raced => Between(new, MeasuredOf(f.model, k))
      /\ Between(new, MeasuredOf(f.model, k) \cup {Prior})
  BY <1>1, <1>2, FoldIsTrue
<1> HIDE DEF new
<1>5. /\ g \in FoldOf(n) /\ g.busy = TRUE /\ g.model = f.model /\ g.value = f.value /\ g.seen = f.seen
      /\ g.updated = f.updated \cup {<<k, new>>}
  <2>1. <<k, new>> \in Estimate \X Nat
    BY <1>4
  <2>2. f.updated \in SUBSET (Estimate \X Nat) /\ f.busy = TRUE
    BY <1>2, <1>3 DEF FoldOf
  <2>3. f = [busy |-> f.busy, model |-> f.model, value |-> f.value, first |-> f.first, count |-> f.count,
             seen |-> f.seen, updated |-> f.updated]
    BY <1>3 DEF FoldOf
  <2>4. g = [busy |-> f.busy, model |-> f.model, value |-> f.value, first |-> f.first, count |-> f.count,
             seen |-> f.seen, updated |-> f.updated \cup {<<k, new>>}]
    BY <2>3
  <2>5. g \in FoldOf(n)
    BY <1>3, <2>1, <2>2, <2>4 DEF FoldOf
  <2> QED BY <2>2, <2>4, <2>5
<1> HIDE DEF g
<1>6. fold'[w] = g /\ \A u \in Worker : u # w => fold'[u] = fold[u]
  BY <1>2 DEF TimingsTyped
<1>7. \A u \in Worker : fold'[u].busy = fold[u].busy /\ fold'[u].model = fold[u].model
  <2> TAKE u \in Worker
  <2>1. CASE u = w
    BY <1>1, <1>2, <1>5, <1>6, <2>1
  <2>2. CASE u # w
    BY <1>6, <2>2
  <2> QED BY <2>1, <2>2
<1>8. TimingsTyped'
  BY <1>2, <1>5 DEF TimingsTyped
<1>9. FoldsTrue'
  <2>1. FoldTrue(g)
    BY <1>1, <1>2, <1>5 DEF FoldsTrue, FoldTrue
  <2>2. ASSUME NEW u \in Worker, NEW h, h = fold'[u], h.busy = TRUE PROVE FoldTrue(h)'
    <3>1. FoldTrue(h)
      BY <1>6, <1>7, <2>1, <2>2 DEF FoldsTrue
    <3> QED BY <1>2, <3>1 DEF FoldTrue, HasOwn, MeasuredOf
  <2>3. ASSUME NEW u \in Worker, fold'[u].busy = TRUE PROVE FoldTrue(fold[u])'
    BY <2>2, <2>3 DEF FoldTrue, HasOwn, MeasuredOf
  <2> QED BY <2>3 DEF FoldsTrue
<1>10. UpdatesTrue'
  <2>1. UpdateTrue(g)
    <3> SUFFICES ASSUME NEW pair \in g.updated
                 PROVE  /\ g.model \notin raced => Between(pair[2], MeasuredOf(g.model, pair[1]))
                        /\ Between(pair[2], MeasuredOf(g.model, pair[1]) \cup {Prior})
      BY DEF UpdateTrue
    <3>1. CASE pair \in f.updated
      BY <1>1, <1>2, <1>5, <3>1 DEF UpdatesTrue, UpdateTrue
    <3>2. CASE pair = <<k, new>>
      <4>1. pair[1] = k /\ pair[2] = new
        BY <3>2
      <4> QED BY <1>4, <1>5, <4>1
    <3> QED BY <1>5, <3>1, <3>2
  <2>2. ASSUME NEW u \in Worker, NEW h, h = fold'[u], h.busy = TRUE PROVE UpdateTrue(h)'
    <3>1. UpdateTrue(h)
      BY <1>6, <1>7, <2>1, <2>2 DEF UpdatesTrue
    <3> QED BY <1>2, <3>1 DEF UpdateTrue, MeasuredOf
  <2>3. ASSUME NEW u \in Worker, fold'[u].busy = TRUE PROVE UpdateTrue(fold[u])'
    BY <2>2, <2>3 DEF UpdateTrue, MeasuredOf
  <2> QED BY <2>3 DEF UpdatesTrue
<1>11. RacesKnown'
  BY <1>2, <1>7 DEF RacesKnown
<1>12. OwnMeasurements'
  BY <1>2 DEF OwnMeasurements, MeasuredOf
<1> QED BY <1>8, <1>9, <1>10, <1>11, <1>12

LEMMA WriteKeeps ==
    ASSUME TimingsInv, NEW w \in Worker, ObserveWrite(w)
    PROVE  TimingsInv'
<1> USE DEF TimingsInv
<1>1. PICK f : f = fold[w]
  OBVIOUS
<1> DEFINE m == f.model
           names == DOMAIN f.value
<1>2. /\ f.busy = TRUE
      /\ own' = [own EXCEPT ![m] = {pair \in @ : pair[1] \notin names} \cup f.updated]
      /\ samples' = [samples EXCEPT ![m] = f.count + 1]
      /\ fold' = [fold EXCEPT ![w] = NoFold]
      /\ UNCHANGED <<measured, raced>>
  BY <1>1 DEF ObserveWrite, TimingsTyped, NoFold
<1>3. PICK n \in SUBSET Estimate : f \in FoldOf(n)
  BY <1>1, <1>2, BusyFold
<1>4. m \in Model /\ f.count \in Nat /\ f.updated \in SUBSET (Estimate \X Nat)
  BY <1>3 DEF FoldOf
<1>5. UpdateTrue(f)
  BY <1>1, <1>2 DEF UpdatesTrue
<1>8. TimingsTyped'
  <2>1. {pair \in own[m] : pair[1] \notin names} \cup f.updated \subseteq Estimate \X Nat
    BY <1>4 DEF TimingsTyped
  <2>2. own' \in [Model -> SUBSET (Estimate \X Nat)]
    BY <1>2, <2>1 DEF TimingsTyped
  <2>3. samples' \in [Model -> Nat]
    BY <1>2, <1>4 DEF TimingsTyped
  <2> QED BY <1>2, <2>2, <2>3 DEF TimingsTyped
<1>9. OwnMeasurements'
  <2> SUFFICES ASSUME NEW o \in Model, NEW pair \in own'[o]
               PROVE  /\ o \notin raced => Between(pair[2], MeasuredOf(o, pair[1]))
                      /\ Between(pair[2], MeasuredOf(o, pair[1]) \cup {Prior})
    BY <1>2 DEF OwnMeasurements, MeasuredOf
  <2>1. CASE pair \in own[o]
    BY <2>1 DEF OwnMeasurements
  <2>2. CASE pair \notin own[o]
    <3>1. o = m /\ pair \in f.updated
      BY <1>2, <2>2 DEF TimingsTyped
    <3> QED BY <1>5, <3>1 DEF UpdateTrue
  <2> QED BY <2>1, <2>2
<1>10. FoldsTrue'
  <2>1. ASSUME NEW u \in Worker, NEW g, g = fold[u], u # w, g.busy = TRUE PROVE FoldTrue(g)'
    <3>1. FoldTrue(g) /\ g.model \in Model
      BY <2>1, BusyFold DEF FoldsTrue, FoldOf
    <3>2. g.model = m => m \in raced
      BY <1>1, <1>2, <2>1 DEF RacesKnown
    <3>3. g.model # m => \A k : HasOwn(g.model, k)' = HasOwn(g.model, k)
      BY <1>2, <3>1 DEF HasOwn, TimingsTyped
    <3> QED BY <1>2, <3>1, <3>2, <3>3 DEF FoldTrue, MeasuredOf
  <2>2. ASSUME NEW u \in Worker, fold'[u].busy = TRUE PROVE FoldTrue(fold[u])'
    <3>1. u # w /\ fold'[u] = fold[u]
      BY <1>2, <2>2 DEF NoFold, TimingsTyped
    <3> QED BY <2>1, <2>2, <3>1 DEF FoldTrue, HasOwn, MeasuredOf
  <2> QED BY <2>2 DEF FoldsTrue
<1>11. RacesKnown'
  <2>1. \A u \in Worker : fold'[u].busy = TRUE => fold'[u] = fold[u]
    BY <1>2 DEF NoFold, TimingsTyped
  <2> QED BY <1>2, <2>1 DEF RacesKnown
<1>12. UpdatesTrue'
  <2>1. \A u \in Worker : fold'[u].busy = TRUE => fold'[u] = fold[u]
    BY <1>2 DEF NoFold, TimingsTyped
  <2>2. ASSUME NEW u \in Worker, NEW h, h = fold'[u], h.busy = TRUE PROVE UpdateTrue(h)'
    <3>1. UpdateTrue(h)
      BY <2>1, <2>2 DEF UpdatesTrue
    <3> QED BY <1>2, <3>1 DEF UpdateTrue, MeasuredOf
  <2>3. ASSUME NEW u \in Worker, fold'[u].busy = TRUE PROVE UpdateTrue(fold[u])'
    BY <2>2, <2>3 DEF UpdateTrue, MeasuredOf
  <2> QED BY <2>3 DEF UpdatesTrue
<1> QED BY <1>8, <1>9, <1>10, <1>11, <1>12

(* Whatever observes of however many workers overlap, and however many     *)
(* launches there are: a model's estimate is a mixture of what was         *)
(* measured of it, and of the prior only if two of its launches were       *)
(* folded at once (Catalog.stats and observe).                             *)
THEOREM EstimatesAreMeasured == TimingsInit /\ [][TimingsNext]_timingVars => []OwnMeasurements
<1>1. TimingsInit => TimingsInv
  <2> SUFFICES ASSUME TimingsInit PROVE TimingsInv
    OBVIOUS
  <2> USE DEF TimingsInit
  <2>1. TimingsTyped
    BY DEF TimingsTyped
  <2>2. \A w \in Worker : fold[w].busy = FALSE
    BY DEF NoFold
  <2> QED BY <2>1, <2>2 DEF TimingsInv, FoldsTrue, UpdatesTrue, RacesKnown, OwnMeasurements
<1>2. TimingsInv /\ [TimingsNext]_timingVars => TimingsInv'
  <2> SUFFICES ASSUME TimingsInv, [TimingsNext]_timingVars PROVE TimingsInv'
    OBVIOUS
  <2>1. CASE UNCHANGED timingVars
    <3>1. UNCHANGED <<own, samples, fold, launches, measured, raced>>
      BY <2>1 DEF timingVars
    <3>2. TimingsTyped'
      BY <3>1 DEF TimingsInv, TimingsTyped
    <3>3. FoldsTrue'
      BY <3>1, Zenon DEF TimingsInv, FoldsTrue, FoldTrue, HasOwn, MeasuredOf
    <3>4. UpdatesTrue'
      BY <3>1, Zenon DEF TimingsInv, UpdatesTrue, UpdateTrue, MeasuredOf
    <3>5. RacesKnown'
      BY <3>1, Zenon DEF TimingsInv, RacesKnown
    <3>6. OwnMeasurements'
      BY <3>1, Zenon DEF TimingsInv, OwnMeasurements, MeasuredOf
    <3> QED BY <3>2, <3>3, <3>4, <3>5, <3>6 DEF TimingsInv
  <2>2. CASE TimingsNext
    BY <2>2, ReadKeeps, FoldKeeps, WriteKeeps DEF TimingsNext
  <2> QED BY <2>1, <2>2
<1>3. TimingsInv => OwnMeasurements
  BY DEF TimingsInv
<1> QED BY <1>1, <1>2, <1>3, PTL

-----------------------------------------------------------------------------
(* Part 2: the recovered trials.  A trial is chosen because its summary is *)
(* whole, so its log is; its log is copied before its summary, and only of *)
(* a trial that has none locally is the log opened anew.                   *)

ResultsTyped ==
    /\ volume \in [Trial -> [log : {"part", "whole"}, summary : {"none", "part", "whole"}]]
    /\ local \in [Trial -> [log : {"none", "empty", "part", "whole"}, summary : {"none", "part", "whole"}]]
    /\ missed \subseteq Trial
    /\ pass \in [pc : {"off", "next", "copy", "fill", "open", "dump"}, trial : SUBSET Trial, todo : SUBSET Trial]

SummaryIsLast == \A t \in Trial : volume[t].summary # "none" => volume[t].log = "whole"

PassOK ==
    /\ \A t, u \in pass.trial : t = u
    /\ pass.pc \in {"copy", "fill"} =>
          \A t \in pass.trial : volume[t].log = "whole" /\ local[t].summary = "none"
    /\ pass.pc \in {"open", "dump"} =>
          \A t \in pass.trial : local[t].log = "whole" \/ t \in missed

ResultsInv == ResultsTyped /\ SummaryIsLast /\ PassOK /\ ShownTrialsAreWhole

LEMMA NextResults == ASSUME ResultsInv, [ResultsNext]_resultsVars PROVE ResultsInv'
<1> USE DEF ResultsInv
<1>1. ASSUME NEW t \in Trial, TrialWrites(t) PROVE ResultsInv'
  <2>1. ResultsTyped'
    BY <1>1 DEF TrialWrites, ResultsTyped
  <2>2. \A u \in Trial : volume[u].log = "whole" => volume'[u].log = "whole"
    BY <1>1 DEF TrialWrites, ResultsTyped
  <2>3. SummaryIsLast'
    BY <1>1 DEF TrialWrites, ResultsTyped, SummaryIsLast
  <2>4. PassOK' /\ ShownTrialsAreWhole'
    BY <1>1, <2>2 DEF TrialWrites, ResultsTyped, PassOK, ShownTrialsAreWhole
  <2> QED BY <2>1, <2>3, <2>4
<1>2. ASSUME NEW t \in Trial, RecoverNext(t) PROVE ResultsInv'
  <2>1. ResultsTyped' /\ SummaryIsLast' /\ ShownTrialsAreWhole'
    BY <1>2 DEF RecoverNext, ResultsTyped, SummaryIsLast, ShownTrialsAreWhole
  <2>2. PassOK'
    BY <1>2 DEF RecoverNext, ResultsTyped, SummaryIsLast, PassOK
  <2> QED BY <2>1, <2>2
<1>3. CASE RecoverList
  BY <1>3 DEF RecoverList, ResultsTyped, SummaryIsLast, PassOK, ShownTrialsAreWhole
<1>4. CASE RecoverOpen
  <2>1. PICK t \in pass.trial : local' = [local EXCEPT ![t].log = "empty"]
    BY <1>4 DEF RecoverOpen
  <2>2. t \in Trial /\ local[t].summary = "none"
    BY <1>4 DEF RecoverOpen, ResultsTyped, PassOK
  <2>3. ResultsTyped' /\ SummaryIsLast'
    BY <1>4, <2>1 DEF RecoverOpen, ResultsTyped, SummaryIsLast
  <2>4. PassOK'
    BY <1>4, <2>1 DEF RecoverOpen, ResultsTyped, PassOK
  <2>5. ShownTrialsAreWhole'
    BY <1>4, <2>1, <2>2 DEF RecoverOpen, ResultsTyped, ShownTrialsAreWhole
  <2> QED BY <2>3, <2>4, <2>5
<1>5. CASE RecoverFill
  <2>1. PICK t \in pass.trial : (local' = [local EXCEPT ![t].log = volume[t].log] /\ UNCHANGED missed)
                               \/ (missed' = missed \cup {t} /\ UNCHANGED local)
    BY <1>5 DEF RecoverFill
  <2>2. t \in Trial /\ volume[t].log = "whole" /\ \A u \in pass.trial : u = t
    BY <1>5 DEF RecoverFill, ResultsTyped, PassOK
  <2>3. ResultsTyped' /\ SummaryIsLast'
    <3>1. local' \in [Trial -> [log : {"none", "empty", "part", "whole"}, summary : {"none", "part", "whole"}]]
      BY <2>1, <2>2 DEF ResultsTyped
    <3>2. missed' \subseteq Trial
      BY <2>1, <2>2 DEF ResultsTyped
    <3>3. pass' \in [pc : {"off", "next", "copy", "fill", "open", "dump"}, trial : SUBSET Trial, todo : SUBSET Trial]
      BY <1>5 DEF RecoverFill, ResultsTyped
    <3>4. volume' = volume
      BY <1>5 DEF RecoverFill
    <3> QED BY <3>1, <3>2, <3>3, <3>4 DEF ResultsTyped, SummaryIsLast
  <2>4. PassOK'
    BY <1>5, <2>1, <2>2 DEF RecoverFill, ResultsTyped, PassOK
  <2>5. ShownTrialsAreWhole'
    BY <1>5, <2>1, <2>2 DEF RecoverFill, ResultsTyped, ShownTrialsAreWhole
  <2> QED BY <2>3, <2>4, <2>5
<1>6. CASE RecoverSummary
  <2>1. PICK t \in pass.trial, st \in {"part", "whole"} : local' = [local EXCEPT ![t].summary = st]
    BY <1>6 DEF RecoverSummary
  <2>2. PICK p \in {"dump", "next"} : pass' = [pass EXCEPT !.pc = p]
    BY <1>6 DEF RecoverSummary
  <2>3. /\ pass.pc \in {"open", "dump"} /\ UNCHANGED <<volume, missed>>
        /\ t \in Trial /\ (local[t].log = "whole" \/ t \in missed)
    BY <1>6 DEF RecoverSummary, ResultsTyped, PassOK
  <2>4. ResultsTyped' /\ SummaryIsLast'
    BY <2>1, <2>2, <2>3 DEF ResultsTyped, SummaryIsLast
  <2>5. PassOK'
    BY <2>1, <2>2, <2>3 DEF ResultsTyped, PassOK
  <2>6. ShownTrialsAreWhole'
    BY <2>1, <2>3 DEF ResultsTyped, ShownTrialsAreWhole
  <2> QED BY <2>4, <2>5, <2>6
<1>7. CASE RecoverEnds
  BY <1>7 DEF RecoverEnds, NoPass, ResultsTyped, SummaryIsLast, PassOK, ShownTrialsAreWhole
<1>8. CASE UNCHANGED resultsVars
  BY <1>8 DEF resultsVars, ResultsTyped, SummaryIsLast, PassOK, ShownTrialsAreWhole
<1> QED BY <1>1, <1>2, <1>3, <1>4, <1>5, <1>6, <1>7, <1>8 DEF ResultsNext

(* However often recover is interrupted and run again, and whatever the    *)
(* trials write meanwhile: a trial that is shown has its whole log, unless *)
(* that could not be fetched (recover of bench.py).                        *)
THEOREM RecoveredTrialsAreWhole == ResultsInit /\ [][ResultsNext]_resultsVars => []ShownTrialsAreWhole
<1>1. ResultsInit => ResultsInv
  BY DEF ResultsInit, NoPass, ResultsInv, ResultsTyped, SummaryIsLast, PassOK, ShownTrialsAreWhole
<1>2. ResultsInv /\ [ResultsNext]_resultsVars => ResultsInv'
  BY NextResults
<1>3. ResultsInv => ShownTrialsAreWhole
  BY DEF ResultsInv
<1> QED BY <1>1, <1>2, <1>3, PTL

-----------------------------------------------------------------------------
(* Part 3: rules.                                                          *)

(* "Same completeness rule as the prep worker": the scheduler and the prep *)
(* worker miss the same files, and what neither misses anything of has all *)
(* its weights, whatever files there are and whatever shards the index     *)
(* lists (weights_complete of scheduler.py, PREP_WEIGHTS of workers.py).   *)
THEOREM OneRuleForCheckpoints == CompletenessAgrees
<1> SUFFICES ASSUME NEW files PROVE SameRule(files)
  BY DEF CompletenessAgrees
<1>1. ASSUME NEW f PROVE f \in WeightsMissing(files) <=> f \in PrepMissing(files)
  BY DEF WeightsMissing, PrepMissing
<1>2. WeightsMissing(files) = PrepMissing(files)
  BY <1>1
<1>3. ASSUME WeightsMissing(files) = {}
      PROVE  /\ "config.json" \in files
             /\ "model.safetensors" \in files \/ Shard \cup {"index.json"} \subseteq files
             /\ "tokenizer.json" \in files \/ {"vocab.json", "merges.txt"} \subseteq files
  BY <1>3 DEF WeightsMissing
<1> QED BY <1>2, <1>3 DEF SameRule

(* A start of a host: the request, its download, the GPU sandbox, READY.   *)
IsStart(s) ==
    /\ {s.asked, s.prep, s.claimed, s.up, s.ready} \subseteq Nat /\ s.uptime \in Int /\ s.skew \in Int
    /\ s.asked + s.prep <= s.claimed /\ s.claimed < s.up /\ s.up < s.ready

(* Whatever the container says of its uptime and of the time: no part of a *)
(* start is negative, and the wait for a host is excluded once, from the   *)
(* startup and from the bill, by the record and by the Compare page alike, *)
(* which bills a trial for a download on the GPU box and for nothing else  *)
(* besides (execute of scheduler.py, _cmp_item of dashboard.py).           *)
THEOREM WaitsAreExcludedOnce ==
    ASSUME input.kind = "wait" => IsStart(input.start)
    PROVE  WaitsAreExcluded
<1> SUFFICES ASSUME NEW s, IsStart(s) PROVE Log!WaitExcluded(s)
  BY DEF WaitsAreExcluded
<1> DEFINE container == s.up - s.claimed
           wait == Log!SchedulingWait(s.up + s.skew, s.uptime, s.claimed, container)
           record == Log!Record(s)
           Compared(known, mode) == Log!TrialItem(record.container, s.ready - s.up, known, s.prep, mode)
<1>1. s.asked \in Nat /\ s.prep \in Nat /\ s.claimed \in Nat /\ s.up \in Nat /\ s.ready \in Nat
  BY DEF IsStart
<1>2. container \in Nat /\ wait \in Int /\ 0 <= wait /\ wait <= container
  BY <1>1 DEF IsStart, Log!SchedulingWait
<1>3. /\ record.requestToReady = s.ready - s.asked /\ record.wait = wait /\ record.container = container
      /\ record.startup = s.ready - s.asked - wait /\ record.billed = s.ready - s.claimed - wait
  BY DEF Log!Record
<1> HIDE DEF wait, record
<1>4. Log!CompareWait(wait, container) = wait
  BY <1>2 DEF Log!CompareWait, Log!NotMeasured
<1>5. /\ Log!CompareItem(record, wait, s.prep).endToEnd = s.ready - s.asked - wait - s.prep
      /\ Log!CompareItem(record, wait, s.prep).billed = s.ready - s.claimed - wait
  BY <1>2, <1>3, <1>4 DEF Log!CompareItem, Log!NotMeasured
<1>6. PICK guess : guess = Log!CompareWait(Log!NotMeasured, container)
  OBVIOUS
<1>7. guess \in Int /\ 0 <= guess /\ guess <= container
  BY <1>2, <1>6 DEF Log!CompareWait
<1>8. /\ Log!CompareItem(record, Log!NotMeasured, s.prep).endToEnd = s.ready - s.asked - guess - s.prep
      /\ Log!CompareItem(record, Log!NotMeasured, s.prep).billed = s.ready - s.claimed - guess
  <2>1. record.billed + record.wait - guess = s.ready - s.claimed - guess
    BY <1>1, <1>2, <1>3, <1>7
  <2> QED BY <1>3, <1>6, <2>1 DEF Log!CompareItem
<1>9. /\ s.ready - s.claimed - wait >= 0
      /\ s.ready - s.asked - wait >= s.ready - s.claimed - wait
      /\ s.ready - s.asked - wait - s.prep >= s.ready - s.claimed - wait
      /\ s.ready - s.asked - guess - s.prep >= s.ready - s.claimed - guess
      /\ s.ready - s.claimed - guess >= s.ready - s.up
  BY <1>1, <1>2, <1>7 DEF IsStart
<1>10. ASSUME NEW known \in {wait, Log!NotMeasured}
       PROVE  /\ Compared(known, "cpu").endToEnd >= s.ready - s.up /\ Compared(known, "cpu").billed = Compared(known, "cpu").endToEnd
              /\ Compared(known, "gpu").endToEnd = Compared(known, "cpu").endToEnd
              /\ Compared(known, "gpu").billed = Compared(known, "cpu").billed + s.prep
  <2>1. PICK excluded : excluded = Log!CompareWait(known, container)
    OBVIOUS
  <2>2. excluded \in Int /\ excluded <= container
    BY <1>2, <1>4, <1>6, <1>7, <1>10, <2>1
  <2> DEFINE total == container + (s.ready - s.up) - excluded
  <2>3. /\ Compared(known, "cpu") = [endToEnd |-> total, billed |-> total]
        /\ Compared(known, "gpu") = [endToEnd |-> total, billed |-> total + s.prep]
    BY <1>3, <2>1 DEF Log!TrialItem
  <2>4. total >= s.ready - s.up
    BY <1>1, <1>2, <2>2
  <2> HIDE DEF total, Compared
  <2> QED BY <2>3, <2>4
<1> QED BY <1>3, <1>5, <1>8, <1>9, <1>10 DEF Log!WaitExcluded, record

(* Whatever is prefetched fits, for weights of any size and any number of  *)
(* GPUs: the memory that is asked for is within the host's limit and holds *)
(* the weights twice, because RAM_GIB_PER_WEIGHT_GIB is two at least       *)
(* (engine_memory of common.py, plan of scheduler.py).                     *)
THEOREM PrefetchedFits ==
    ASSUME RamPerWeight >= 2,
           input.kind = "plan" => input.a.bytes \in Nat /\ RequestOf(input.d).gpu \in Nat
    PROVE  PrefetchHasRoom
<1> SUFFICES ASSUME NEW r, NEW a, a.bytes \in Nat, r.gpu \in Nat PROVE PrefetchFits(r, a)
  BY DEF PrefetchHasRoom
<1>1. /\ RamPerWeight \in Nat /\ RamBase \in Nat /\ RamPerGpu \in Nat /\ GpuCount(r.gpu) \in Nat
      /\ RamPerGpu * GpuCount(r.gpu) \in Nat
  BY SizesAssumption DEF GpuCount
<1>2. 2 * a.bytes <= a.bytes * RamPerWeight /\ a.bytes * RamPerWeight \in Nat
  BY <1>1
<1>3. Need(a.bytes) \in Nat /\ Cap(r.gpu) \in Nat /\ 2 * a.bytes + RamBase <= Need(a.bytes)
  BY <1>1, <1>2 DEF Need, Cap
<1>4. /\ EngineMemory(a.bytes, r.gpu).request = Smaller(Need(a.bytes), Cap(r.gpu))
      /\ EngineMemory(a.bytes, r.gpu).limit = Cap(r.gpu)
  BY DEF EngineMemory
<1>5. EngineMemory(a.bytes, r.gpu).request <= EngineMemory(a.bytes, r.gpu).limit
  BY <1>3, <1>4 DEF Smaller
<1>6. ASSUME Prefetches(r, a) PROVE Need(a.bytes) <= Cap(r.gpu)
  <2>1. EngineMemory(a.bytes, r.gpu).fits = (Need(a.bytes) <= Cap(r.gpu))
    BY DEF EngineMemory
  <2>2. EngineMemory(a.bytes, r.gpu).fits
    BY <1>6 DEF Prefetches
  <2> QED BY <2>1, <2>2, Zenon
<1>7. ASSUME Prefetches(r, a) PROVE EngineMemory(a.bytes, r.gpu).request >= 2 * a.bytes + RamBase
  BY <1>1, <1>3, <1>4, <1>6, <1>7 DEF Smaller
<1> QED BY <1>5, <1>7 DEF PrefetchFits

-----------------------------------------------------------------------------
(* The parameters that may come with a job.                                *)
IsDict(d) ==
    /\ d = [tp |-> d.tp, groups |-> d.groups, gpu |-> d.gpu, model |-> d.model, ttl |-> d.ttl, graphs |-> d.graphs,
            flags |-> d.flags, prefetch |-> d.prefetch, policy |-> d.policy]
    /\ d.tp \in Nat \ {0} /\ d.groups \in Nat

LEMMA Requested ==
    ASSUME NEW d, IsDict(d)
    PROVE  LET r == RequestOf(d) IN
           /\ r.tp = d.tp /\ r.groups = d.groups /\ r.model = d.model
           /\ r.gpu = (IF d.groups > 1 THEN d.tp * d.groups ELSE d.gpu)
BY DEF IsDict, RequestOf

(* The device of a group's rank, and the group and rank of a device.       *)
LEMMA Devices ==
    ASSUME NEW tp \in Nat \ {0}, NEW n \in 1 .. (8 \div tp), n > 1
    PROVE  /\ \A i, k \in 1 .. n : \A j, l \in 0 .. (tp - 1) : i # k => (i - 1) * tp + j # (k - 1) * tp + l
           /\ \A i \in 1 .. n : \A j \in 0 .. (tp - 1) : (i - 1) * tp + j \in 0 .. (tp * n - 1)
           /\ \A x \in 0 .. (tp * n - 1) : \E i \in 1 .. n : \E j \in 0 .. (tp - 1) : x = (i - 1) * tp + j
<1>1. tp \in {1, 2, 3, 4}
  <2> SUFFICES ASSUME tp > 4 PROVE FALSE
    OBVIOUS
  <2> QED OBVIOUS
<1>2. CASE tp = 1
  BY <1>2
<1>3. CASE tp = 2
  BY <1>3
<1>4. CASE tp = 3
  BY <1>4
<1>5. CASE tp = 4
  BY <1>5
<1> QED BY <1>1, <1>2, <1>3, <1>4, <1>5

(* The groups of an accepted request share no GPU and no port and use all  *)
(* the GPUs of their host, whatever the GPUs each of them has (from_dict   *)
(* and group_layout of scheduler.py).                                      *)
THEOREM GroupsHaveTheirOwn ==
    ASSUME input.kind = "request" => IsDict(input.d) /\ Accepts(input.d)
    PROVE  GroupsShareNothing
<1> SUFFICES ASSUME NEW d, IsDict(d), Accepts(d) PROVE GroupsFit(RequestOf(d))
  BY DEF GroupsShareNothing
<1>1. ASSUME d.groups > 1 PROVE GroupsFit(RequestOf(d))
  <2> DEFINE layout == GroupLayout(RequestOf(d))
             Devs(i, tp) == {(i - 1) * tp + j : j \in 0 .. (tp - 1)}
  <2>1. d.tp \in Nat \ {0} /\ d.groups \in 1 .. (8 \div d.tp) /\ d.groups \in Nat
    BY DEF IsDict, Accepts
  <2>2. PICK tp \in Nat \ {0} : tp = d.tp
    BY <2>1
  <2>3. PICK n \in 1 .. (8 \div tp) : n = d.groups
    BY <2>1, <2>2
  <2>4. n \in Nat /\ n > 1
    BY <1>1, <2>1, <2>3
  <2>5. RequestOf(d).tp = tp /\ RequestOf(d).groups = n /\ RequestOf(d).gpu = tp * n
    BY <1>1, <2>2, <2>3, Requested
  <2>6. layout = [i \in 1 .. n |-> [devices |-> Devs(i, tp), port |-> 30000 + 10 * (i - 1)]]
    BY <2>4, <2>5 DEF GroupLayout
  <2>7. \A i, x : x \in Devs(i, tp) <=> \E j \in 0 .. (tp - 1) : x = (i - 1) * tp + j
    OBVIOUS
  <2> HIDE DEF Devs
  <2>8. /\ DOMAIN layout = 1 .. n
        /\ \A i \in 1 .. n : layout[i].devices = Devs(i, tp) /\ layout[i].port = 30000 + 10 * (i - 1)
    BY <2>6
  <2> HIDE DEF layout
  <2>9. \A i \in 1 .. n : \A x : x \in layout[i].devices <=> \E j \in 0 .. (tp - 1) : x = (i - 1) * tp + j
    <3> SUFFICES ASSUME NEW i \in 1 .. n
                 PROVE  \A x : x \in layout[i].devices <=> \E j \in 0 .. (tp - 1) : x = (i - 1) * tp + j
      OBVIOUS
    <3>1. layout[i].devices = Devs(i, tp)
      BY <2>8
    <3> QED BY <2>7, <3>1, Zenon
  <2>10. ASSUME NEW i \in 1 .. n, NEW k \in 1 .. n, i # k
        PROVE  layout[i].devices \cap layout[k].devices = {} /\ layout[i].port # layout[k].port
    <3>1. layout[i].port # layout[k].port
      <4>1. 30000 + 10 * (i - 1) # 30000 + 10 * (k - 1)
        BY <2>4, <2>10
      <4> QED BY <2>8, <4>1
    <3>2. ASSUME NEW x \in layout[i].devices, x \in layout[k].devices PROVE FALSE
      <4>1. PICK j \in 0 .. (tp - 1) : x = (i - 1) * tp + j
        BY <2>9
      <4>2. PICK l \in 0 .. (tp - 1) : x = (k - 1) * tp + l
        BY <2>9, <3>2
      <4> QED BY <2>4, <2>10, <4>1, <4>2, Devices
    <3> QED BY <3>1, <3>2
  <2>11. UNION {layout[i].devices : i \in 1 .. n} = 0 .. (tp * n - 1)
    <3>1. ASSUME NEW i \in 1 .. n, NEW x \in layout[i].devices PROVE x \in 0 .. (tp * n - 1)
      <4>1. PICK j \in 0 .. (tp - 1) : x = (i - 1) * tp + j
        BY <2>9
      <4> QED BY <2>4, <4>1, Devices
    <3>2. ASSUME NEW x \in 0 .. (tp * n - 1) PROVE \E i \in 1 .. n : x \in layout[i].devices
      <4>1. PICK i \in 1 .. n : \E j \in 0 .. (tp - 1) : x = (i - 1) * tp + j
        BY <2>4, Devices
      <4> QED BY <2>9, <4>1
    <3> QED BY <3>1, <3>2
  <2>12. GpuCount(RequestOf(d).gpu) = tp * n
    <3>1. tp * n # 0
      BY <2>4
    <3> QED BY <2>5, <3>1 DEF GpuCount
  <2> QED BY <2>5, <2>8, <2>10, <2>11, <2>12 DEF GroupsFit, layout
<1>2. ASSUME ~ (d.groups > 1) PROVE GroupsFit(RequestOf(d))
  BY <1>2, Requested DEF GroupsFit
<1> QED BY <1>1, <1>2

-----------------------------------------------------------------------------
(* A launch that has come to READY: spawned by the agent, loaded, and its  *)
(* prefetch, if it had one, done by then or not at all.                    *)
IsLaunch(l) ==
    /\ {l.hit, l.prefetch} \subseteq BOOLEAN /\ l.r.graphs \in {"pow2", "full"}
    /\ {l.start, l.spawned, l.loading, l.copied} \subseteq Nat
    /\ l.start <= l.spawned /\ l.spawned <= l.loading /\ l.loading < Never
    /\ l.copied # Never => l.prefetch

(* An estimate learns from the launches it is about, and from all of them: *)
(* two times with different origins are never compared, whatever the times *)
(* are, and what a plan reads next is what a launch like it has taught     *)
(* (execute and plan of scheduler.py).                                     *)
THEOREM LaunchesTeachTheirKind ==
    ASSUME input.kind = "launch" => IsLaunch(input.l)
    PROVE  EstimatesMeanIt
<1> SUFFICES ASSUME NEW l, IsLaunch(l) PROVE TeachesItsKind(l)
  BY DEF EstimatesMeanIt
<1>1. /\ l.hit \in BOOLEAN /\ l.prefetch \in BOOLEAN
      /\ l.start \in Nat /\ l.spawned \in Nat /\ l.loading \in Nat /\ l.copied \in Nat
      /\ l.start <= l.spawned /\ l.spawned <= l.loading /\ l.loading < Never
      /\ l.copied # Never => l.prefetch
  BY DEF IsLaunch
<1>2. EffectiveGraphs(l.r) \in {"pow2", "full", "custom"}
  BY DEF IsLaunch, EffectiveGraphs
<1>3. DoneAt(l) <= LoadBegin(l) + PreLaunch(l) <=> l.copied <= l.loading
  BY <1>1 DEF DoneAt, LoadBegin, PreLaunch, Never
<1>4. LoadMeasure(l) = IF ~l.prefetch THEN {"volume_gbps"} ELSE IF l.copied <= l.loading THEN {"warm_load_s"} ELSE {}
  BY <1>3 DEF LoadMeasure
<1>5. ASSUME l.r.groups # 1 PROVE Measured(l) = {}
  BY <1>5 DEF Measured
<1>6. ASSUME NEW hit \in BOOLEAN, NEW preset \in {"pow2", "full"}
      PROVE  GraphEstimate(hit, preset) \in GraphMeasure(l) <=> l.hit = hit /\ EffectiveGraphs(l.r) = preset
  BY <1>1, <1>2 DEF GraphMeasure, GraphEstimate
<1>7. GraphMeasure(l) \subseteq {"graph_s_hit", "graph_s_miss", "graph_s_hit_pow2", "graph_s_miss_pow2"}
  BY DEF GraphMeasure, GraphEstimate
<1>8. CASE l.r.groups = 1
  <2>1. Measured(l) = {"container_start_s", "other_s", "pre_load_s"} \cup LoadMeasure(l) \cup GraphMeasure(l)
                      \cup (IF l.hit THEN {"restore_gbps"} ELSE {})
                      \cup (IF l.copied = Never THEN {} ELSE {"prefetch_gbps"})
    BY <1>8 DEF Measured
  <2>2. "warm_load_s" \in Measured(l) <=> l.prefetch /\ l.copied <= l.loading
    BY <1>1, <1>4, <1>7, <2>1
  <2>3. "volume_gbps" \in Measured(l) <=> ~l.prefetch
    BY <1>1, <1>4, <1>7, <2>1
  <2>4. ASSUME NEW hit \in BOOLEAN, NEW preset \in {"pow2", "full"}
        PROVE  GraphEstimate(hit, preset) \in Measured(l) <=> l.hit = hit /\ EffectiveGraphs(l.r) = preset
    <3>1. GraphEstimate(hit, preset) \in Measured(l) <=> GraphEstimate(hit, preset) \in GraphMeasure(l)
      BY <1>4, <2>1 DEF GraphEstimate
    <3> QED BY <1>6, <3>1
  <2>5. Measured(l) \ {"container_start_s", "other_s", "pre_load_s", "restore_gbps"} \subseteq PlanReads(l)
    BY <1>1, <1>4, <2>1 DEF PlanReads, GraphMeasure
  <2> QED BY <1>8, <2>2, <2>3, <2>4, <2>5 DEF TeachesItsKind
<1>9. CASE l.r.groups # 1
  BY <1>5, <1>9 DEF TeachesItsKind
<1> QED BY <1>8, <1>9

-----------------------------------------------------------------------------
(* Part 4: sums and folds.  A recursive function over the subsets of a     *)
(* finite set exists, and a sum does not depend on the order of its terms. *)
(* Induction is on a set of numbers, or of subsets, that a set without a   *)
(* least counterexample must be.                                           *)

(* Induction over the numbers, for a set that contains them.               *)
LEMMA NumbersInductively ==
    ASSUME NEW P \in SUBSET Nat, 0 \in P, \A n \in Nat : n \in P => n + 1 \in P
    PROVE  P = Nat
<1> DEFINE R == OpToRel(<, Nat)
<1> SUFFICES ASSUME Nat \ P # {} PROVE FALSE
  OBVIOUS
<1>1. IsWellFoundedOn(R, Nat)
  BY NatLessThanWellFounded, Zenon
<1> HIDE DEF R
<1>2. PICK n \in Nat \ P : \A m \in Nat \ P : <<m, n>> \notin R
  <2>1. Nat \ P \subseteq Nat
    OBVIOUS
  <2> QED BY <1>1, <2>1, WFMin
<1>3. n - 1 \in Nat /\ (n - 1) + 1 = n
  BY <1>2
<1>4. <<n - 1, n>> \in R
  BY <1>3 DEF R, OpToRel
<1>5. n - 1 \in P
  BY <1>2, <1>3, <1>4
<1> QED BY <1>2, <1>3, <1>5

(* Induction over the subsets of a finite set, by how many they have.      *)
LEMMA SubsetsInductively ==
    ASSUME NEW S, IsFiniteSet(S), NEW P \in SUBSET SUBSET S,
           \A T \in SUBSET S : (\A U \in SUBSET T : U # T => U \in P) => T \in P
    PROVE  P = SUBSET S
<1> DEFINE K == {n \in Nat : \A T \in SUBSET S : Cardinality(T) <= n => T \in P}
<1>1. \A T \in SUBSET S : IsFiniteSet(T) /\ Cardinality(T) \in Nat
  BY FS_Subset, FS_CardinalityType
<1>2. \A T \in SUBSET S : \A U \in SUBSET T : U # T => Cardinality(U) < Cardinality(T)
  BY <1>1, FS_Subset
<1>3. ASSUME NEW T \in SUBSET S, Cardinality(T) <= 0 PROVE T \in P
  <2>1. \A U \in SUBSET T : U = T
    <3> SUFFICES ASSUME NEW U \in SUBSET T, U # T PROVE FALSE
      OBVIOUS
    <3>1. Cardinality(U) < Cardinality(T) /\ Cardinality(U) \in Nat /\ Cardinality(T) \in Nat
      BY <1>1, <1>2
    <3> QED BY <1>3, <3>1
  <2> QED BY <2>1
<1>4. ASSUME NEW n \in Nat, n \in K PROVE n + 1 \in K
  <2> SUFFICES ASSUME NEW T \in SUBSET S, Cardinality(T) <= n + 1 PROVE T \in P
    BY <1>4
  <2> SUFFICES ASSUME NEW U \in SUBSET T, U # T PROVE U \in P
    OBVIOUS
  <2>1. Cardinality(U) <= n
    <3>1. Cardinality(U) < Cardinality(T) /\ Cardinality(U) \in Nat /\ Cardinality(T) \in Nat
      BY <1>1, <1>2
    <3> QED BY <3>1
  <2> QED BY <1>4, <2>1
<1>5. 0 \in K
  BY <1>3
<1>6. K = Nat
  <2>1. K \subseteq Nat
    OBVIOUS
  <2> HIDE DEF K
  <2> QED BY <1>4, <1>5, <2>1, NumbersInductively
<1> QED BY <1>1, <1>6

(* A function of the subsets of a finite set may be given by what it is of *)
(* a subset without the element that `next` names.                         *)
Foldable(S, V, base, next, h) ==
    /\ IsFiniteSet(S) /\ base \in V
    /\ \A T \in SUBSET S : T # {} => next[T] \in T
    /\ \A T \in SUBSET S : \A v \in V : h[T][v] \in V

FoldOver(g, S, V, base, next, h) ==
    /\ g \in [SUBSET S -> V]
    /\ \A T \in SUBSET S : g[T] = IF T = {} THEN base ELSE h[T][g[T \ {next[T]}]]

LEMMA FoldExists ==
    ASSUME NEW S, NEW V, NEW base, NEW next, NEW h, Foldable(S, V, base, next, h)
    PROVE  \E g : FoldOver(g, S, V, base, next, h)
<1> DEFINE Good(g, n) == \A T \in SUBSET S : Cardinality(T) <= n =>
                            g[T] = IF T = {} THEN base ELSE h[T][g[T \ {next[T]}]]
           K == {n \in Nat : \E g \in [SUBSET S -> V] : Good(g, n)}
<1> USE DEF Foldable
<1>1. \A T \in SUBSET S : IsFiniteSet(T) /\ Cardinality(T) \in Nat /\ (Cardinality(T) = 0 <=> T = {})
  BY FS_Subset, FS_CardinalityType, FS_EmptySet
<1>2. \A T \in SUBSET S : T # {} => T \ {next[T]} \in SUBSET S /\ Cardinality(T \ {next[T]}) = Cardinality(T) - 1
  BY <1>1, FS_RemoveElement
<1>3. 0 \in K
  <2> DEFINE g == [T \in SUBSET S |-> base]
  <2>1. g \in [SUBSET S -> V]
    OBVIOUS
  <2>2. Good(g, 0)
    BY <1>1
  <2> QED BY <2>1, <2>2
<1>4. ASSUME NEW n \in Nat, n \in K PROVE n + 1 \in K
  <2>1. PICK g \in [SUBSET S -> V] : Good(g, n)
    BY <1>4
  <2> DEFINE k == [T \in SUBSET S |-> IF Cardinality(T) = n + 1 THEN h[T][g[T \ {next[T]}]] ELSE g[T]]
  <2>2. k \in [SUBSET S -> V]
    BY <1>1, <1>2
  <2>3. ASSUME NEW T \in SUBSET S, Cardinality(T) <= n + 1
        PROVE  k[T] = IF T = {} THEN base ELSE h[T][k[T \ {next[T]}]]
    <3>1. CASE T = {}
      <4>1. Cardinality(T) = 0
        BY <1>1, <3>1
      <4>2. k[T] = g[T] /\ Cardinality(T) <= n
        BY <4>1
      <4>3. g[T] = base
        BY <2>1, <3>1, <4>2
      <4> QED BY <3>1, <4>2, <4>3
    <3>2. CASE T # {}
      <4>1. T \ {next[T]} \in SUBSET S /\ Cardinality(T \ {next[T]}) = Cardinality(T) - 1 /\ Cardinality(T) \in Nat
        BY <1>1, <1>2, <3>2
      <4>2. Cardinality(T \ {next[T]}) # n + 1
        BY <2>3, <4>1
      <4>3. k[T \ {next[T]}] = g[T \ {next[T]}]
        BY <4>1, <4>2
      <4>4. CASE Cardinality(T) = n + 1
        BY <3>2, <4>3, <4>4
      <4>5. CASE Cardinality(T) # n + 1
        <5>1. Cardinality(T) <= n /\ k[T] = g[T]
          BY <2>3, <4>1, <4>5
        <5> QED BY <2>1, <3>2, <4>3, <5>1
      <4> QED BY <4>4, <4>5
    <3> QED BY <3>1, <3>2
  <2> HIDE DEF k
  <2>4. Good(k, n + 1)
    BY <2>3
  <2>5. \E f \in [SUBSET S -> V] : Good(f, n + 1)
    BY <2>2, <2>4
  <2> HIDE DEF Good
  <2> QED BY <2>5
<1>5. K = Nat
  <2>1. K \subseteq Nat
    OBVIOUS
  <2> HIDE DEF K
  <2> QED BY <1>3, <1>4, <2>1, NumbersInductively
<1>6. PICK g \in [SUBSET S -> V] : Good(g, Cardinality(S))
  BY <1>1, <1>5
<1>7. \A T \in SUBSET S : Cardinality(T) <= Cardinality(S)
  BY FS_Subset
<1> QED BY <1>6, <1>7 DEF FoldOver

(* SumFunction is such a fold, ...                                         *)
Chosen(T) == CHOOSE x \in T : TRUE

IsFold(g, f) ==
    g = [T \in SUBSET DOMAIN f |-> IF T = {} THEN 0 ELSE LET x == CHOOSE x \in T : TRUE IN f[x] + g[T \ {x}]]

LEMMA SumIsFold ==
    ASSUME NEW f, IsFiniteSet(DOMAIN f), \A x \in DOMAIN f : f[x] \in Int
    PROVE  \E g \in [SUBSET DOMAIN f -> Int] :
              /\ SumFunction(f) = g[DOMAIN f]
              /\ \A T \in SUBSET DOMAIN f : g[T] = IF T = {} THEN 0 ELSE f[Chosen(T)] + g[T \ {Chosen(T)}]
<1> DEFINE S == DOMAIN f
           next == [T \in SUBSET S |-> Chosen(T)]
           h == [T \in SUBSET S |-> [v \in Int |-> f[Chosen(T)] + v]]
<1>1. \A T \in SUBSET S : T # {} => Chosen(T) \in T
  BY DEF Chosen
<1>2. \E g \in [SUBSET S -> Int] : \A T \in SUBSET S : g[T] = IF T = {} THEN 0 ELSE f[Chosen(T)] + g[T \ {Chosen(T)}]
  <2>1. \A T \in SUBSET S : T # {} => next[T] \in T
    BY <1>1
  <2> DEFINE k == [T \in SUBSET S |-> IF T = {} THEN [v \in Int |-> 0] ELSE h[T]]
  <2>2. \A T \in SUBSET S, v \in Int : k[T][v] \in Int
    BY <1>1
  <2>3. \A T \in SUBSET S : T # {} => \A v \in Int : k[T][v] = f[Chosen(T)] + v /\ next[T] = Chosen(T)
    OBVIOUS
  <2>4. \A T \in SUBSET S : T \ {next[T]} \in SUBSET S
    OBVIOUS
  <2> HIDE DEF next, k
  <2>5. PICK g \in [SUBSET S -> Int] : \A T \in SUBSET S : g[T] = IF T = {} THEN 0 ELSE k[T][g[T \ {next[T]}]]
    <3>1. Foldable(S, Int, 0, next, k)
      BY <2>1, <2>2 DEF Foldable
    <3>2. \E g : FoldOver(g, S, Int, 0, next, k)
      BY <3>1, FoldExists
    <3> QED BY <3>2 DEF FoldOver
  <2>6. ASSUME NEW T \in SUBSET S PROVE g[T] = IF T = {} THEN 0 ELSE f[Chosen(T)] + g[T \ {Chosen(T)}]
    <3>1. g[T \ {next[T]}] \in Int
      BY <2>4
    <3> QED BY <2>3, <2>5, <3>1
  <2> QED BY <2>6
<1>3. PICK g \in [SUBSET S -> Int] : \A T \in SUBSET S : g[T] = IF T = {} THEN 0 ELSE f[Chosen(T)] + g[T \ {Chosen(T)}]
  BY <1>2
<1>4. g = [T \in SUBSET S |-> IF T = {} THEN 0 ELSE f[Chosen(T)] + g[T \ {Chosen(T)}]]
  BY <1>3
<1>5. IsFold(g, f)
  BY <1>4 DEF IsFold, Chosen
<1>6. IsFold(CHOOSE k : IsFold(k, f), f)
  BY <1>5
<1>7. SumFunction(f) = (CHOOSE k : IsFold(k, f))[S]
  BY DEF SumFunction, SumFunctionOnSet, FoldFunctionOnSet, MapThenFoldSet, IsFold
<1>8. PICK k : IsFold(k, f) /\ SumFunction(f) = k[S]
  BY <1>6, <1>7
<1>9. \A T \in SUBSET S : k[T] = IF T = {} THEN 0 ELSE f[Chosen(T)] + k[T \ {Chosen(T)}]
  BY <1>8 DEF IsFold, Chosen
<1>10. \A T \in SUBSET S : k[T] = g[T]
  <2> DEFINE P == {T \in SUBSET S : k[T] = g[T]}
  <2>1. ASSUME NEW T \in SUBSET S, \A U \in SUBSET T : U # T => U \in P PROVE T \in P
    <3>1. CASE T = {}
      BY <1>3, <1>9, <3>1
    <3>2. CASE T # {}
      <4>1. T \ {Chosen(T)} \in SUBSET T /\ T \ {Chosen(T)} # T
        BY <1>1, <3>2
      <4>2. k[T \ {Chosen(T)}] = g[T \ {Chosen(T)}]
        BY <2>1, <4>1
      <4>3. k[T] = g[T]
        BY <1>3, <1>9, <3>2, <4>2
      <4> QED BY <4>3
    <3> QED BY <3>1, <3>2
  <2>2. P \in SUBSET SUBSET S
    OBVIOUS
  <2> HIDE DEF P
  <2>3. P = SUBSET S
    <3> HIDE DEF S
    <3>1. IsFiniteSet(S)
      BY DEF S
    <3> QED BY <2>1, <2>2, <3>1, SubsetsInductively
  <2> QED BY <2>3 DEF P
<1> QED BY <1>3, <1>8, <1>10

IsSum(g, f) ==
    /\ g \in [SUBSET DOMAIN f -> Int]
    /\ \A T \in SUBSET DOMAIN f : g[T] = IF T = {} THEN 0 ELSE f[Chosen(T)] + g[T \ {Chosen(T)}]

Summable(f) == IsFiniteSet(DOMAIN f) /\ \A x \in DOMAIN f : f[x] \in Int

(* ... which does not depend on the order.                                 *)
LEMMA SumAnyOrder ==
    ASSUME NEW f, Summable(f), NEW g, IsSum(g, f)
    PROVE  \A T \in SUBSET DOMAIN f : \A y \in T : g[T] = f[y] + g[T \ {y}]
<1> DEFINE S == DOMAIN f
           P == {T \in SUBSET S : \A y \in T : g[T] = f[y] + g[T \ {y}]}
<1>1. IsFiniteSet(S) /\ (\A x \in S : f[x] \in Int) /\ (\A T \in SUBSET S : g[T] \in Int)
  BY DEF Summable, IsSum
<1>2. \A T \in SUBSET S : T # {} => Chosen(T) \in T /\ g[T] = f[Chosen(T)] + g[T \ {Chosen(T)}]
  BY DEF IsSum, Chosen
<1>3. ASSUME NEW T \in SUBSET S, \A U \in SUBSET T : U # T => U \in P, NEW y \in T
      PROVE  g[T] = f[y] + g[T \ {y}]
  <2>1. PICK a \in T : a = Chosen(T) /\ g[T] = f[a] + g[T \ {a}]
    BY <1>2
  <2>2. CASE y = a
    BY <2>1, <2>2
  <2>3. CASE y # a
    <3>1. g[T \ {a}] = f[y] + g[(T \ {a}) \ {y}]
      BY <1>3, <2>3
    <3>2. g[T \ {y}] = f[a] + g[(T \ {y}) \ {a}]
      BY <1>3, <2>3
    <3>3. (T \ {a}) \ {y} = (T \ {y}) \ {a}
      OBVIOUS
    <3>4. PICK rest \in Int : rest = g[(T \ {a}) \ {y}]
      BY <1>1
    <3>5. f[a] \in Int /\ f[y] \in Int
      BY <1>1
    <3>6. g[T \ {a}] = f[y] + rest /\ g[T \ {y}] = f[a] + rest
      BY <3>1, <3>2, <3>3, <3>4
    <3>7. g[T] = f[a] + (f[y] + rest)
      BY <2>1, <3>6
    <3>8. f[a] + (f[y] + rest) = f[y] + (f[a] + rest)
      BY <3>5
    <3> QED BY <3>6, <3>7, <3>8
  <2> QED BY <2>2, <2>3
<1>4. P = SUBSET S
  <2>1. P \in SUBSET SUBSET S
    OBVIOUS
  <2>2. \A T \in SUBSET S : (\A U \in SUBSET T : U # T => U \in P) => T \in P
    BY <1>3
  <2> HIDE DEF P, S
  <2> QED BY <1>1, <2>1, <2>2, SubsetsInductively
<1> QED BY <1>4

(* What is summed of a part of a function.                                 *)
LEMMA SumOfPart ==
    ASSUME NEW f, Summable(f), NEW g, IsSum(g, f), NEW T \in SUBSET DOMAIN f
    PROVE  SumFunction([x \in T |-> f[x]]) = g[T]
<1> DEFINE r == [x \in T |-> f[x]]
<1>1. DOMAIN r = T /\ IsFiniteSet(T) /\ \A x \in T : r[x] = f[x] /\ r[x] \in Int
  BY FS_Subset DEF Summable
<1>2. \E k : IsSum(k, r) /\ SumFunction(r) = k[T]
  <2> HIDE DEF r
  <2> QED BY <1>1, SumIsFold DEF IsSum
<1> HIDE DEF r
<1>3. PICK k : IsSum(k, r) /\ SumFunction(r) = k[T]
  BY <1>2
<1>4. /\ \A U \in SUBSET T : U # {} => /\ Chosen(U) \in U /\ k[U] = r[Chosen(U)] + k[U \ {Chosen(U)}]
                                       /\ g[U] = f[Chosen(U)] + g[U \ {Chosen(U)}]
      /\ k[{}] = 0 /\ g[{}] = 0
  BY <1>1, <1>3 DEF IsSum, Chosen
<1> DEFINE P == {U \in SUBSET T : k[U] = g[U]}
<1>5. ASSUME NEW U \in SUBSET T, \A W \in SUBSET U : W # U => W \in P PROVE U \in P
  <2>1. CASE U = {}
    BY <1>4, <2>1
  <2>2. CASE U # {}
    <3>1. k[U \ {Chosen(U)}] = g[U \ {Chosen(U)}]
      BY <1>4, <1>5, <2>2
    <3>2. r[Chosen(U)] = f[Chosen(U)]
      BY <1>1, <1>4, <2>2
    <3>3. k[U] = g[U]
      BY <1>4, <2>2, <3>1, <3>2
    <3> QED BY <3>3
  <2> QED BY <2>1, <2>2
<1>6. P = SUBSET T
  <2>1. P \in SUBSET SUBSET T
    OBVIOUS
  <2> HIDE DEF P
  <2> QED BY <1>1, <1>5, <2>1, SubsetsInductively
<1> QED BY <1>3, <1>6 DEF r

(* The sum of nothing, of one more, and of a whole.                        *)
LEMMA SumOfNothing == ASSUME NEW f, DOMAIN f = {} PROVE SumFunction(f) = 0
<1>1. IsFiniteSet(DOMAIN f) /\ \A x \in DOMAIN f : f[x] \in Int
  BY FS_EmptySet
<1> QED BY <1>1, SumIsFold

LEMMA SumType == ASSUME NEW f, Summable(f) PROVE SumFunction(f) \in Int
<1>1. \E g \in [SUBSET DOMAIN f -> Int] : SumFunction(f) = g[DOMAIN f]
  BY SumIsFold DEF Summable
<1> QED BY <1>1

LEMMA SumOfOneMore ==
    ASSUME NEW f, Summable(f), NEW y \in DOMAIN f
    PROVE  SumFunction(f) \in Int /\ SumFunction(f) = f[y] + SumFunction([x \in DOMAIN f \ {y} |-> f[x]])
<1>1. \E g : IsSum(g, f) /\ SumFunction(f) = g[DOMAIN f]
  BY SumIsFold DEF Summable, IsSum
<1>2. PICK g : IsSum(g, f) /\ SumFunction(f) = g[DOMAIN f]
  BY <1>1
<1>3. g[DOMAIN f] = f[y] + g[DOMAIN f \ {y}]
  BY <1>2, SumAnyOrder
<1>4. SumFunction([x \in DOMAIN f \ {y} |-> f[x]]) = g[DOMAIN f \ {y}]
  BY <1>2, SumOfPart
<1> QED BY <1>2, <1>3, <1>4 DEF IsSum

LEMMA SumOfParts ==
    ASSUME NEW f, Summable(f), NEW A, NEW B, A \cup B = DOMAIN f, A \cap B = {}
    PROVE  SumFunction(f) = SumFunction([x \in A |-> f[x]]) + SumFunction([x \in B |-> f[x]])
<1>1. \E g : IsSum(g, f) /\ SumFunction(f) = g[DOMAIN f]
  BY SumIsFold DEF Summable, IsSum
<1>2. PICK g : IsSum(g, f) /\ SumFunction(f) = g[DOMAIN f]
  BY <1>1
<1>3. A \in SUBSET DOMAIN f /\ B \in SUBSET DOMAIN f /\ IsFiniteSet(B)
  BY FS_Subset DEF Summable
<1> DEFINE P == {T \in SUBSET B : g[A \cup T] = g[A] + g[T]}
<1>4. ASSUME NEW T \in SUBSET B, \A U \in SUBSET T : U # T => U \in P PROVE T \in P
  <2>1. CASE T = {}
    <3>1. A \cup T = A /\ g[T] = 0 /\ g[A] \in Int
      BY <1>2, <1>3, <2>1 DEF IsSum
    <3>2. g[A \cup T] = g[A]
      BY <3>1, Zenon
    <3>3. g[A \cup T] = g[A] + g[T]
      BY <3>1, <3>2
    <3> QED BY <3>3
  <2>2. CASE T # {}
    <3>1. PICK y \in T : TRUE
      BY <2>2
    <3>2. /\ (A \cup T) \ {y} = A \cup (T \ {y}) /\ A \cup T \in SUBSET DOMAIN f /\ T \in SUBSET DOMAIN f
          /\ T \ {y} \in SUBSET DOMAIN f
      BY <1>3
    <3>3. g[A \cup T] = f[y] + g[A \cup (T \ {y})] /\ g[T] = f[y] + g[T \ {y}]
      BY <1>2, <3>2, SumAnyOrder
    <3>4. g[A \cup (T \ {y})] = g[A] + g[T \ {y}]
      BY <1>4
    <3>5. g[A] \in Int /\ g[T \ {y}] \in Int /\ f[y] \in Int
      BY <1>2, <1>3, <3>2 DEF IsSum, Summable
    <3>6. g[A \cup T] = g[A] + g[T]
      BY <3>3, <3>4, <3>5
    <3> QED BY <3>6
  <2> QED BY <2>1, <2>2
<1>5. P = SUBSET B
  <2>1. P \in SUBSET SUBSET B
    OBVIOUS
  <2> HIDE DEF P
  <2> QED BY <1>3, <1>4, <2>1, SubsetsInductively
<1>6. g[DOMAIN f] = g[A] + g[B]
  BY <1>5
<1>7. SumFunction([x \in A |-> f[x]]) = g[A] /\ SumFunction([x \in B |-> f[x]]) = g[B]
  BY <1>2, <1>3, SumOfPart
<1> QED BY <1>2, <1>6, <1>7

-----------------------------------------------------------------------------
(* Part 5: the plan.                                                       *)

(* What the catalog may say, and the timings that were learned.            *)
IsArtifact(a) == {a.onVolume, a.hit, a.measured} \subseteq BOOLEAN /\ a.bytes \in Nat
IsLearned(st) ==
    /\ {st.hubRate, st.volumeRate, st.prefetchRate} \subseteq Nat \ {0}
    /\ {st.preLoad, st.warmLoad, st.container, st.other} \subseteq Nat
    /\ \A hit, preset \in BOOLEAN : st.graphs[hit][preset] \in Nat

Prep(a, st) == [where |-> "cpu", action |-> "prep", time |-> FetchTime(a, st)]
Download(a, st) == [where |-> "gpu", action |-> "download", time |-> FetchTime(a, st)]

LEMMA TimesAreNumbers ==
    ASSUME NEW r, r.tp \in Nat, NEW a, IsArtifact(a), NEW st, IsLearned(st)
    PROVE  LoadTime(r, a, st) \in Int /\ GraphTime(r, a, st) \in Int /\ FetchTime(a, st) \in Int
<1>1. ReferenceBytes \in Nat \ {0}
  BY SizesAssumption
<1>2. /\ a.bytes \in Nat /\ a.hit \in BOOLEAN /\ st.hubRate \in Nat \ {0} /\ st.volumeRate \in Nat \ {0}
      /\ st.prefetchRate \in Nat \ {0} /\ st.preLoad \in Nat /\ st.warmLoad \in Nat
  BY DEF IsArtifact, IsLearned
<1>3. Larger(r.tp \div 2, 1) \in Nat \ {0}
  BY DEF Larger
<1>4. PICK scale \in Nat \ {0} : scale = ReferenceBytes * Larger(r.tp \div 2, 1)
  BY <1>1, <1>3
<1>5. WarmLoad(r, a, st) \in Int
  <2>1. (st.warmLoad * a.bytes) \div scale \in Int
    <3>1. PICK work \in Nat : work = st.warmLoad * a.bytes
      BY <1>2
    <3>2. work \div scale \in Int
      OBVIOUS
    <3> QED BY <3>1, <3>2
  <2> QED BY <1>2, <1>4, <2>1 DEF WarmLoad
<1>6. a.bytes \div st.volumeRate \in Int /\ a.bytes \div st.prefetchRate \in Int /\ a.bytes \div st.hubRate \in Int
  BY <1>2
<1>7. a.bytes \div st.prefetchRate - st.preLoad \in Int
  BY <1>2, <1>6
<1>8. LoadTime(r, a, st) \in Int
  BY <1>5, <1>6, <1>7 DEF LoadTime, Larger
<1>9. GraphTime(r, a, st) \in Int
  <2>1. (EffectiveGraphs(r) = "pow2") \in BOOLEAN
    OBVIOUS
  <2>2. \A hit, preset \in BOOLEAN : st.graphs[hit][preset] \in Int
    BY DEF IsLearned
  <2> QED BY <1>2, <2>1, <2>2, Zenon DEF GraphTime
<1> QED BY <1>6, <1>8, <1>9 DEF FetchTime

LEMMA GpuSteps ==
    ASSUME NEW r, r.tp \in Nat, NEW a, IsArtifact(a), NEW st, IsLearned(st)
    PROVE  /\ IsFiniteSet(LaunchSteps(r, a, st))
           /\ \A s \in LaunchSteps(r, a, st) : s.where = "gpu" /\ s.action \notin {"prep", "download"} /\ s.time \in Int
<1> DEFINE All == {[where |-> "gpu", action |-> "claim", time |-> st.container],
                   [where |-> "gpu", action |-> "restore", time |-> 0],
                   [where |-> "gpu", action |-> "prefetch", time |-> 0],
                   [where |-> "gpu", action |-> "init", time |-> st.other],
                   [where |-> "gpu", action |-> "load", time |-> LoadTime(r, a, st)],
                   [where |-> "gpu", action |-> "graphs", time |-> GraphTime(r, a, st)]}
<1>1. LaunchSteps(r, a, st) \subseteq All
  BY DEF LaunchSteps, Step, If
<1>2. IsFiniteSet(All)
  <2>1. \A a1, a2, a3, a4, a5, a6 : IsFiniteSet({a1, a2, a3, a4, a5, a6})
    <3> TAKE a1, a2, a3, a4, a5, a6
    <3>1. IsFiniteSet({a1, a2, a3})
      <4>1. IsFiniteSet({a1}) /\ IsFiniteSet({a2}) /\ IsFiniteSet({a3})
        BY FS_Singleton
      <4>2. {a1, a2, a3} = ({a1} \cup {a2}) \cup {a3}
        OBVIOUS
      <4> QED BY <4>1, <4>2, FS_Union, ZenonT(40)
    <3>2. IsFiniteSet({a4, a5, a6})
      <4>1. IsFiniteSet({a4}) /\ IsFiniteSet({a5}) /\ IsFiniteSet({a6})
        BY FS_Singleton
      <4>2. {a4, a5, a6} = ({a4} \cup {a5}) \cup {a6}
        OBVIOUS
      <4> QED BY <4>1, <4>2, FS_Union, ZenonT(40)
    <3>3. {a1, a2, a3, a4, a5, a6} = {a1, a2, a3} \cup {a4, a5, a6}
      OBVIOUS
    <3> QED BY <3>1, <3>2, <3>3, FS_Union
  <2> QED BY <2>1
<1>3. IsFiniteSet(LaunchSteps(r, a, st))
  <2> HIDE DEF All
  <2> QED BY <1>1, <1>2, FS_Subset
<1>4. st.container \in Int /\ st.other \in Int /\ LoadTime(r, a, st) \in Int /\ GraphTime(r, a, st) \in Int
  BY TimesAreNumbers DEF IsLearned
<1>5. \A s \in All : s.where = "gpu" /\ s.action \notin {"prep", "download"} /\ s.time \in Int
  <2> HIDE DEF All
  <2> QED BY <1>4 DEF All
<1> QED BY <1>1, <1>3, <1>5

(* What the GPU host takes without a download.                             *)
LaunchTime(r, a, st) == SumFunction([s \in LaunchSteps(r, a, st) |-> s.time])

LEMMA GpuTotal ==
    ASSUME NEW r, r.tp \in Nat, NEW a, IsArtifact(a), NEW st, IsLearned(st)
    PROVE  LaunchTime(r, a, st) \in Int
<1> DEFINE f == [s \in LaunchSteps(r, a, st) |-> s.time]
<1>1. Summable(f)
  BY GpuSteps DEF Summable
<1> QED BY <1>1, SumType DEF LaunchTime

LEMMA StepsOf ==
    ASSUME NEW r, r.tp \in Nat, NEW a, IsArtifact(a), NEW st, IsLearned(st), NEW p,
           p.tp = r.tp, p.prefetch = r.prefetch, p.gpu = r.gpu, p.flags = r.flags, p.graphs = r.graphs
    PROVE  Steps(p, a, st) = (If(~a.onVolume /\ p.policy = "late_claim", {Prep(a, st)})
                              \cup If(~a.onVolume /\ p.policy = "asap", {Download(a, st)}))
                             \cup LaunchSteps(r, a, st)
<1>1. Prefetches(p, a) = Prefetches(r, a)
  BY DEF Prefetches
<1>2. WarmLoad(p, a, st) = WarmLoad(r, a, st)
  BY DEF WarmLoad
<1>3. LoadTime(p, a, st) = LoadTime(r, a, st)
  BY <1>1, <1>2 DEF LoadTime
<1>4. EffectiveGraphs(p) = EffectiveGraphs(r)
  BY DEF EffectiveGraphs
<1>5. GraphTime(p, a, st) = GraphTime(r, a, st)
  BY <1>4 DEF GraphTime
<1>6. LaunchSteps(p, a, st) = LaunchSteps(r, a, st)
  BY <1>1, <1>3, <1>5, Zenon DEF LaunchSteps
<1>7. /\ Step("cpu", "prep", FetchTime(a, st)) = {Prep(a, st)}
      /\ Step("gpu", "download", FetchTime(a, st)) = {Download(a, st)}
  BY DEF Step, Prep, Download
<1> QED BY <1>6, <1>7, Zenon DEF Steps

LEMMA PredictedOf ==
    ASSUME NEW r, r.tp \in Nat, NEW a, IsArtifact(a), NEW st, IsLearned(st), NEW p,
           NEW place \in {"cpu", "gpu"}, NEW d, d.where = place, d.action \in {"prep", "download"}, d.time = FetchTime(a, st),
           Steps(p, a, st) = If(~a.onVolume, {d}) \cup LaunchSteps(r, a, st)
    PROVE  /\ Predicted(p, a, st, "cpu") = IF ~a.onVolume /\ place = "cpu" THEN FetchTime(a, st) ELSE 0
           /\ Predicted(p, a, st, "gpu") = LaunchTime(r, a, st) + IF ~a.onVolume /\ place = "gpu" THEN FetchTime(a, st) ELSE 0
<1> DEFINE G == LaunchSteps(r, a, st)
           At(where) == {s \in Steps(p, a, st) : s.where = where}
           Times(T) == [s \in T |-> s.time]
<1>1. IsFiniteSet(G) /\ \A s \in G : s.where = "gpu" /\ s.action \notin {"prep", "download"} /\ s.time \in Int
  BY GpuSteps
<1>2. d.where = place /\ d.time = FetchTime(a, st) /\ d.time \in Int /\ d \notin G
  BY <1>1, TimesAreNumbers
<1>3. \A where : Predicted(p, a, st, where) = SumFunction(Times(At(where)))
  BY DEF Predicted
<1>4. /\ ~a.onVolume => Steps(p, a, st) = {d} \cup G
      /\ a.onVolume => Steps(p, a, st) = G
  BY DEF If
<1> HIDE DEF G
<1>5. /\ At("cpu") = IF ~a.onVolume /\ place = "cpu" THEN {d} ELSE {}
      /\ At("gpu") = IF ~a.onVolume /\ place = "gpu" THEN {d} \cup G ELSE G
  BY <1>1, <1>2, <1>4 DEF IsArtifact
<1>6. SumFunction(Times({})) = 0
  BY SumOfNothing
<1>7. SumFunction(Times({d})) = d.time
  <2>1. DOMAIN Times({d}) = {d} /\ Times({d})[d] = d.time /\ IsFiniteSet({d}) /\ {d} \ {d} = {}
    BY FS_Singleton
  <2>2. Summable(Times({d}))
    BY <1>2, <2>1 DEF Summable
  <2>3. SumFunction(Times({d})) = d.time + SumFunction([s \in {d} \ {d} |-> Times({d})[s]])
    BY <2>1, <2>2, SumOfOneMore
  <2>4. SumFunction([s \in {d} \ {d} |-> Times({d})[s]]) = 0
    BY SumOfNothing
  <2> QED BY <1>2, <2>3, <2>4
<1>8. SumFunction(Times({d} \cup G)) = d.time + SumFunction(Times(G))
  <2>1. /\ DOMAIN Times({d} \cup G) = {d} \cup G /\ Times({d} \cup G)[d] = d.time
        /\ IsFiniteSet({d} \cup G) /\ ({d} \cup G) \ {d} = G
    BY <1>1, <1>2, FS_AddElement
  <2>2. Summable(Times({d} \cup G))
    BY <1>1, <1>2, <2>1 DEF Summable
  <2>3. SumFunction(Times({d} \cup G)) = d.time + SumFunction([s \in ({d} \cup G) \ {d} |-> Times({d} \cup G)[s]])
    BY <2>1, <2>2, SumOfOneMore
  <2>4. [s \in ({d} \cup G) \ {d} |-> Times({d} \cup G)[s]] = Times(G)
    BY <2>1
  <2> QED BY <2>3, <2>4
<1>9. SumFunction(Times(G)) \in Int
  <2>1. Summable(Times(G))
    BY <1>1 DEF Summable
  <2> QED BY <2>1, SumType
<1> HIDE DEF Times, At
<1>10. Predicted(p, a, st, "cpu") = IF ~a.onVolume /\ place = "cpu" THEN d.time ELSE 0
  BY <1>3, <1>5, <1>6, <1>7
<1>11. Predicted(p, a, st, "gpu") = SumFunction(Times(G)) + IF ~a.onVolume /\ place = "gpu" THEN d.time ELSE 0
  <2>1. PICK total \in Int : total = SumFunction(Times(G))
    BY <1>9
  <2>2. CASE ~a.onVolume /\ place = "gpu"
    <3>1. Predicted(p, a, st, "gpu") = d.time + total
      BY <1>3, <1>5, <1>8, <2>1, <2>2
    <3> QED BY <1>2, <2>1, <2>2, <3>1
  <2>3. CASE ~(~a.onVolume /\ place = "gpu")
    <3>1. Predicted(p, a, st, "gpu") = total
      BY <1>3, <1>5, <2>1, <2>3
    <3> QED BY <2>1, <2>3, <3>1
  <2> QED BY <2>2, <2>3
<1>12. SumFunction(Times(G)) = LaunchTime(r, a, st)
  BY Zenon DEF LaunchTime, Times, G
<1> QED BY <1>2, <1>10, <1>11, <1>12

LEMMA RequestFields ==
    ASSUME NEW d, IsDict(d), NEW policy
    PROVE  LET r == RequestOf(d) p == [r EXCEPT !.policy = policy] IN
           /\ p.policy = policy /\ r.tp \in Nat
           /\ p.tp = r.tp /\ p.prefetch = r.prefetch /\ p.gpu = r.gpu /\ p.flags = r.flags /\ p.graphs = r.graphs
BY DEF IsDict, RequestOf, Larger

(* What execute has downloaded, and where, is what plan promised, for any  *)
(* policy, known or not, and any catalog entry.                            *)
LEMMA DownloadsKept ==
    ASSUME NEW r, r.tp \in Nat, NEW a, IsArtifact(a), NEW st, IsLearned(st)
    PROVE  DownloadsAsPlanned(r, a, st)
<1>1. Steps(r, a, st) = (If(~a.onVolume /\ r.policy = "late_claim", {Prep(a, st)})
                         \cup If(~a.onVolume /\ r.policy = "asap", {Download(a, st)}))
                        \cup LaunchSteps(r, a, st)
  BY StepsOf
<1>2. \A s \in LaunchSteps(r, a, st) : s.where = "gpu" /\ s.action \notin {"prep", "download"}
  BY GpuSteps
<1>3. /\ Prep(a, st).where = "cpu"
      /\ Download(a, st).where = "gpu" /\ Download(a, st).action = "download"
  BY DEF Prep, Download
<1>4. (\E s \in Steps(r, a, st) : s.where = "cpu") <=> Prepares(r, a)
  BY <1>1, <1>2, <1>3 DEF If, Prepares
<1>5. (\E s \in Steps(r, a, st) : s.where = "gpu" /\ s.action = "download") <=> DownloadsOnBox(r, a)
  BY <1>1, <1>2, <1>3 DEF If, DownloadsOnBox
<1>6. ~(Prepares(r, a) /\ DownloadsOnBox(r, a))
  BY DEF Prepares, DownloadsOnBox
<1> QED BY <1>4, <1>5, <1>6 DEF DownloadsAsPlanned

(* plan promises a download exactly where execute has it done, for every   *)
(* request (its policy may be any text), catalog entry and learned timings;*)
(* and the two known policies promise the same time to READY: one's plan   *)
(* is the other's with the download moved from the CPU sandbox to the GPU  *)
(* box (scheduler.py).                                                     *)
THEOREM PlansAreCarriedOut ==
    ASSUME input.kind = "plan" => IsDict(input.d) /\ IsArtifact(input.a) /\ IsLearned(input.st)
    PROVE  PlansAreKept
<1> SUFFICES ASSUME NEW d, IsDict(d), NEW a, IsArtifact(a), NEW st, IsLearned(st)
             PROVE  DownloadsAsPlanned(RequestOf(d), a, st) /\ PoliciesDiffer(RequestOf(d), a, st)
  BY DEF PlansAreKept
<1> DEFINE r == RequestOf(d)
           late == [r EXCEPT !.policy = "late_claim"]
           asap == [r EXCEPT !.policy = "asap"]
           download == IF a.onVolume THEN 0 ELSE FetchTime(a, st)
           onGpu == LaunchTime(r, a, st)
<1>1. /\ r.tp \in Nat /\ late.policy = "late_claim" /\ asap.policy = "asap"
      /\ late.tp = r.tp /\ late.prefetch = r.prefetch /\ late.gpu = r.gpu /\ late.flags = r.flags /\ late.graphs = r.graphs
      /\ asap.tp = r.tp /\ asap.prefetch = r.prefetch /\ asap.gpu = r.gpu /\ asap.flags = r.flags /\ asap.graphs = r.graphs
  BY RequestFields
<1> HIDE DEF r, late, asap
<1>2. Steps(late, a, st) = If(~a.onVolume, {Prep(a, st)}) \cup LaunchSteps(r, a, st)
  <2>1. Steps(late, a, st) = (If(~a.onVolume /\ late.policy = "late_claim", {Prep(a, st)})
                              \cup If(~a.onVolume /\ late.policy = "asap", {Download(a, st)}))
                             \cup LaunchSteps(r, a, st)
    BY <1>1, StepsOf
  <2> QED BY <1>1, <2>1 DEF If
<1>3. Steps(asap, a, st) = If(~a.onVolume, {Download(a, st)}) \cup LaunchSteps(r, a, st)
  <2>1. Steps(asap, a, st) = (If(~a.onVolume /\ asap.policy = "late_claim", {Prep(a, st)})
                              \cup If(~a.onVolume /\ asap.policy = "asap", {Download(a, st)}))
                             \cup LaunchSteps(r, a, st)
    BY <1>1, StepsOf
  <2> QED BY <1>1, <2>1 DEF If
<1>4. FetchTime(a, st) \in Int /\ a.onVolume \in BOOLEAN
  BY <1>1, TimesAreNumbers DEF IsArtifact
<1>5. /\ Prep(a, st).where = "cpu" /\ Prep(a, st).action = "prep" /\ Prep(a, st).time = FetchTime(a, st)
      /\ Download(a, st).where = "gpu" /\ Download(a, st).action = "download" /\ Download(a, st).time = FetchTime(a, st)
  BY DEF Prep, Download
<1>6. Predicted(late, a, st, "cpu") = download /\ Predicted(late, a, st, "gpu") = onGpu + 0
  <2>1. /\ Predicted(late, a, st, "cpu") = IF ~a.onVolume /\ "cpu" = "cpu" THEN FetchTime(a, st) ELSE 0
        /\ Predicted(late, a, st, "gpu") = onGpu + IF ~a.onVolume /\ "cpu" = "gpu" THEN FetchTime(a, st) ELSE 0
    <3> DEFINE s == Prep(a, st)
    <3>1. s.where = "cpu" /\ s.action \in {"prep", "download"} /\ s.time = FetchTime(a, st) /\ "cpu" \in {"cpu", "gpu"}
      BY <1>5
    <3>2. Steps(late, a, st) = If(~a.onVolume, {s}) \cup LaunchSteps(r, a, st)
      BY <1>2
    <3> HIDE DEF s
    <3> QED BY <1>1, <3>1, <3>2, PredictedOf
  <2> QED BY <2>1
<1>7. Predicted(asap, a, st, "cpu") = 0 /\ Predicted(asap, a, st, "gpu") = onGpu + download
  <2>1. /\ Predicted(asap, a, st, "cpu") = IF ~a.onVolume /\ "gpu" = "cpu" THEN FetchTime(a, st) ELSE 0
        /\ Predicted(asap, a, st, "gpu") = onGpu + IF ~a.onVolume /\ "gpu" = "gpu" THEN FetchTime(a, st) ELSE 0
    <3> DEFINE s == Download(a, st)
    <3>1. s.where = "gpu" /\ s.action \in {"prep", "download"} /\ s.time = FetchTime(a, st) /\ "gpu" \in {"cpu", "gpu"}
      BY <1>5
    <3>2. Steps(asap, a, st) = If(~a.onVolume, {s}) \cup LaunchSteps(r, a, st)
      BY <1>3
    <3> HIDE DEF s
    <3> QED BY <1>1, <3>1, <3>2, PredictedOf
  <2>2. ("gpu" = "cpu") = FALSE
    OBVIOUS
  <2> QED BY <2>1, <2>2
<1>8. onGpu \in Int
  BY <1>1, GpuTotal
<1>9. Predicted(asap, a, st, "gpu") = Predicted(late, a, st, "gpu") + download
  <2>1. download \in Int
    BY <1>4
  <2> HIDE DEF download, onGpu
  <2> QED BY <1>6, <1>7, <1>8, <2>1
<1>10. DownloadsAsPlanned(r, a, st)
  BY <1>1, DownloadsKept
<1> QED BY <1>6, <1>7, <1>9, <1>10 DEF PoliciesDiffer, r, late, asap

-----------------------------------------------------------------------------
(* Part 6: the marks of a launch and what is made of them.                 *)

(* A finite set of numbers has a first and a last.                         *)
HasEnds(U) == \E a, b \in U : \A u \in U : a <= u /\ u <= b

LEMMA FirstAndLast ==
    ASSUME NEW T \in SUBSET Int, IsFiniteSet(T), T # {}
    PROVE  HasEnds(T)
<1> DEFINE P == {U \in SUBSET T : U = {} \/ HasEnds(U)}
<1>1. ASSUME NEW U \in SUBSET T, \A W \in SUBSET U : W # U => W \in P PROVE U \in P
  <2> SUFFICES ASSUME U # {} PROVE HasEnds(U)
    OBVIOUS
  <2>1. PICK y \in U : TRUE
    OBVIOUS
  <2>2. U \ {y} = {} \/ HasEnds(U \ {y})
    BY <1>1
  <2>3. CASE U \ {y} = {}
    BY <2>1, <2>3 DEF HasEnds
  <2>4. CASE HasEnds(U \ {y})
    <3>1. PICK a \in U \ {y}, b \in U \ {y} : \A u \in U \ {y} : a <= u /\ u <= b
      BY <2>4 DEF HasEnds
    <3>2. \A u \in U : u = y \/ (a <= u /\ u <= b)
      <4> TAKE u \in U
      <4>1. u = y \/ u \in U \ {y}
        OBVIOUS
      <4> QED BY <3>1, <4>1
    <3>3. PICK c \in U : c <= a /\ c <= y
      BY <2>1
    <3>4. PICK d \in U : b <= d /\ y <= d
      BY <2>1
    <3>5. \A u \in U : c <= u /\ u <= d
      <4>1. a \in Int /\ b \in Int /\ c \in Int /\ d \in Int /\ y \in Int
        BY <3>1, <3>3, <3>4
      <4> TAKE u \in U
      <4>2. u \in Int /\ (u = y \/ (a <= u /\ u <= b))
        BY <3>2
      <4> QED BY <3>3, <3>4, <4>1, <4>2
    <3> QED BY <3>5 DEF HasEnds
  <2> QED BY <2>2, <2>3, <2>4
<1>2. P = SUBSET T
  <2>1. P \in SUBSET SUBSET T
    OBVIOUS
  <2> HIDE DEF P
  <2> QED BY <1>1, <2>1, SubsetsInductively
<1> QED BY <1>2

(* LaunchLog has instances of its own of the operators it extends.         *)
LEMMA LogSums == ASSUME NEW f PROVE Log!SumFunction(f) = SumFunction(f)
BY DEF Log!SumFunction, Log!SumFunctionOnSet, Log!FoldFunctionOnSet, Log!MapThenFoldSet,
       SumFunction, SumFunctionOnSet, FoldFunctionOnSet, MapThenFoldSet

(* The marks of the first n lines.                                         *)
IsMarks(m, log, n) ==
    /\ DOMAIN m = {p \in Log!Phase : \E t \in 1 .. n : log[t] = p}
    /\ \A p \in DOMAIN m :
          /\ m[p] \in 1 .. n /\ log[m[p]] = p
          /\ \A t \in 1 .. n : log[t] = p => IF p \in Log!Ends THEN t <= m[p] ELSE m[p] <= t

Marks == UNION {[P -> Nat] : P \in SUBSET Log!Phase}

LEMMA MarksOfNoLine == ASSUME NEW log PROVE Log!NoMarks \in Marks /\ IsMarks(Log!NoMarks, log, 0)
BY DEF IsMarks, Log!NoMarks, Marks

(* A line adds its mark, or moves that of an end.                          *)
LEMMA MarkLineKeepsMarks ==
    ASSUME NEW m \in Marks, NEW phase, NEW t \in Nat
    PROVE  Log!MarkLine(m, phase, t) \in Marks
<1>1. PICK P \in SUBSET Log!Phase : m \in [P -> Nat]
  BY DEF Marks
<1>2. CASE phase \in Log!Phase
  <2>1. P \cup {phase} \in SUBSET Log!Phase /\ DOMAIN m = P
    BY <1>1, <1>2
  <2>2. Log!Mark(m, phase, t) \in [P \cup {phase} -> Nat]
    BY <1>1, <2>1 DEF Log!Mark
  <2>3. Log!Mark(m, phase, t) \in Marks
    BY <2>1, <2>2 DEF Marks
  <2> QED BY <2>3 DEF Log!MarkLine
<1>3. CASE phase \notin Log!Phase
  BY <1>3 DEF Log!MarkLine
<1> QED BY <1>2, <1>3

LEMMA MarksOfOneMoreLine ==
    ASSUME NEW log, NEW n \in Nat, NEW m \in Marks, IsMarks(m, log, n)
    PROVE  IsMarks(Log!MarkLine(m, log[n + 1], n + 1), log, n + 1)
<1> DEFINE phase == log[n + 1]
           k == Log!MarkLine(m, phase, n + 1)
<1>1. \A t \in 1 .. (n + 1) : t \in 1 .. n \/ t = n + 1
  OBVIOUS
<1>2. 1 .. n \subseteq 1 .. (n + 1) /\ n + 1 \in 1 .. (n + 1) /\ n + 1 \notin 1 .. n /\ \A t \in 1 .. n : t <= n + 1
  OBVIOUS
<1>3. /\ DOMAIN m = {p \in Log!Phase : \E t \in 1 .. n : log[t] = p}
      /\ \A p \in DOMAIN m :
            /\ m[p] \in 1 .. n /\ log[m[p]] = p
            /\ \A t \in 1 .. n : log[t] = p => IF p \in Log!Ends THEN t <= m[p] ELSE m[p] <= t
  BY DEF IsMarks
<1>4. CASE phase \in Log!Phase /\ (phase \notin DOMAIN m \/ phase \in Log!Ends)
  <2>1. k = Log!Mark(m, phase, n + 1)
    BY <1>4 DEF Log!MarkLine
  <2>2. DOMAIN k = DOMAIN m \cup {phase} /\ \A p \in DOMAIN k : k[p] = IF p = phase THEN n + 1 ELSE m[p]
    BY <2>1 DEF Log!Mark
  <2> HIDE DEF k, phase
  <2>3. DOMAIN k = {p \in Log!Phase : \E t \in 1 .. (n + 1) : log[t] = p}
    BY <1>1, <1>2, <1>3, <1>4, <2>2 DEF phase
  <2>4. ASSUME NEW p \in DOMAIN k
        PROVE  /\ k[p] \in 1 .. (n + 1) /\ log[k[p]] = p
               /\ \A t \in 1 .. (n + 1) : log[t] = p => IF p \in Log!Ends THEN t <= k[p] ELSE k[p] <= t
    <3>1. CASE p = phase
      <4>1. k[p] = n + 1 /\ log[n + 1] = p
        BY <2>2, <2>4, <3>1 DEF phase
      <4>2. ASSUME NEW t \in 1 .. (n + 1), log[t] = p PROVE IF p \in Log!Ends THEN t <= k[p] ELSE k[p] <= t
        <5>1. CASE p \in Log!Ends
          BY <4>1, <5>1
        <5>2. CASE p \notin Log!Ends
          <6>1. p \notin DOMAIN m
            BY <1>4, <3>1, <5>2
          <6>2. t = n + 1
            BY <1>1, <1>3, <1>4, <3>1, <4>2, <6>1
          <6> QED BY <4>1, <5>2, <6>2
        <5> QED BY <5>1, <5>2
      <4> QED BY <1>2, <4>1, <4>2
    <3>2. CASE p # phase
      <4>1. p \in DOMAIN m /\ k[p] = m[p] /\ log[n + 1] # p
        BY <2>2, <2>4, <3>2 DEF phase
      <4>2. m[p] \in 1 .. (n + 1) /\ log[m[p]] = p
        BY <1>2, <1>3, <4>1
      <4>3. ASSUME NEW t \in 1 .. (n + 1), log[t] = p PROVE IF p \in Log!Ends THEN t <= m[p] ELSE m[p] <= t
        <5>1. t \in 1 .. n
          BY <1>1, <4>1, <4>3
        <5> QED BY <1>3, <4>1, <4>3, <5>1
      <4> QED BY <4>1, <4>2, <4>3
    <3> QED BY <3>1, <3>2
  <2>5. IsMarks(k, log, n + 1)
    BY <2>3, <2>4 DEF IsMarks
  <2> QED BY <2>5 DEF k, phase
<1>5. CASE ~(phase \in Log!Phase /\ (phase \notin DOMAIN m \/ phase \in Log!Ends))
  <2>1. k = m
    BY <1>5 DEF Log!MarkLine
  <2> HIDE DEF k, phase
  <2>2. DOMAIN m = {p \in Log!Phase : \E t \in 1 .. (n + 1) : log[t] = p}
    BY <1>1, <1>2, <1>3, <1>5 DEF phase
  <2>3. ASSUME NEW p \in DOMAIN m
        PROVE  /\ m[p] \in 1 .. (n + 1) /\ log[m[p]] = p
               /\ \A t \in 1 .. (n + 1) : log[t] = p => IF p \in Log!Ends THEN t <= m[p] ELSE m[p] <= t
    <3>1. m[p] \in 1 .. (n + 1) /\ log[m[p]] = p /\ m[p] \in 1 .. n
      BY <1>2, <1>3
    <3>2. ASSUME NEW t \in 1 .. (n + 1), log[t] = p PROVE IF p \in Log!Ends THEN t <= m[p] ELSE m[p] <= t
      <4>1. CASE t \in 1 .. n
        BY <1>3, <3>2, <4>1
      <4>2. CASE t = n + 1
        <5>1. p \notin Log!Ends
          BY <1>3, <1>5, <3>2, <4>2 DEF phase
        <5> QED BY <3>1, <4>2, <5>1
      <4> QED BY <1>1, <4>1, <4>2
    <3> QED BY <3>1, <3>2
  <2>4. IsMarks(m, log, n + 1)
    BY <2>2, <2>3 DEF IsMarks
  <2> QED BY <2>1, <2>4 DEF k, phase
<1> QED BY <1>4, <1>5

(* parse_log, line by line.                                                *)
Positions(log) == [t \in 1 .. Len(log) |-> t]

IsParse(g, log) ==
    g = [T \in SUBSET DOMAIN Positions(log) |->
            IF T = {} THEN Log!NoMarks
            ELSE LET x == Log!Max(T) IN Log!MarkLine(g[T \ {x}], log[Positions(log)[x]], Positions(log)[x])]

LEMMA ParseIsAFold == ASSUME NEW log PROVE Log!MarksOf(log) = (CHOOSE g : IsParse(g, log))[DOMAIN Positions(log)]
BY DEF Log!MarksOf, Log!FoldLeft, Log!MapThenFoldSet, IsParse, Positions

(* The last of some lines.                                                 *)
LEMMA Latest ==
    ASSUME NEW n \in Nat, NEW T \in SUBSET (1 .. n), T # {}
    PROVE  Max(T) \in T /\ \A t \in T : t <= Max(T)
<1>1. T \in SUBSET Int /\ IsFiniteSet(1 .. n)
  BY FS_Interval
<1>2. \E b \in T : \A t \in T : b >= t
  BY <1>1, FS_Subset, FirstAndLast DEF HasEnds
<1>3. Max(T) \in T /\ \A t \in T : Max(T) >= t
  BY <1>2 DEF Max
<1> QED BY <1>1, <1>3

LEMMA LastOfLines ==
    ASSUME NEW n \in Nat, NEW T \in SUBSET (1 .. n), T # {}
    PROVE  Log!Max(T) \in T /\ \A t \in T : t <= Log!Max(T)
<1>1. Log!Max(T) = Max(T)
  BY DEF Log!Max, Max
<1> QED BY <1>1, Latest

LEMMA ParsedMarks ==
    ASSUME NEW log, Len(log) \in Nat
    PROVE  Log!MarksOf(log) \in Marks /\ IsMarks(Log!MarksOf(log), log, Len(log))
<1> DEFINE n == Len(log)
           S == 1 .. n
           next == [T \in SUBSET S |-> Log!Max(T)]
           h == [T \in SUBSET S |-> [m \in Marks |-> IF T = {} THEN m ELSE Log!MarkLine(m, log[Log!Max(T)], Log!Max(T))]]
<1>1. IsFiniteSet(S) /\ Log!NoMarks \in Marks
  <2>1. 1 \in Int /\ n \in Int
    OBVIOUS
  <2> HIDE DEF n
  <2> QED BY <2>1, FS_Interval, MarksOfNoLine
<1>2. ASSUME NEW T \in SUBSET S, T # {} PROVE next[T] \in T /\ next[T] = Log!Max(T) /\ Log!Max(T) \in Nat
  <2>1. Log!Max(T) \in T
    <3>1. n \in Nat
      OBVIOUS
    <3> HIDE DEF n
    <3> QED BY <1>2, <3>1, LastOfLines
  <2>2. next[T] = Log!Max(T)
    OBVIOUS
  <2>3. Log!Max(T) \in S
    BY <2>1
  <2>4. \A t \in S : t \in Nat
    OBVIOUS
  <2> HIDE DEF next, S
  <2> QED BY <2>1, <2>2, <2>3, <2>4
<1>3. ASSUME NEW T \in SUBSET S, NEW m \in Marks PROVE h[T][m] \in Marks
  <2>1. CASE T = {}
    BY <2>1
  <2>2. CASE T # {}
    BY <1>2, <2>2, MarkLineKeepsMarks
  <2> QED BY <2>1, <2>2
<1>4. \A T \in SUBSET S : \A m \in Marks : T # {} => h[T][m] = Log!MarkLine(m, log[Log!Max(T)], Log!Max(T))
  OBVIOUS
<1> HIDE DEF next, h
<1>5. Foldable(S, Marks, Log!NoMarks, next, h)
  BY <1>1, <1>2, <1>3 DEF Foldable
<1>6. PICK g : FoldOver(g, S, Marks, Log!NoMarks, next, h)
  BY <1>5, FoldExists
<1>7. /\ g \in [SUBSET S -> Marks] /\ g[{}] = Log!NoMarks
      /\ \A T \in SUBSET S : T # {} => g[T] = Log!MarkLine(g[T \ {Log!Max(T)}], log[Log!Max(T)], Log!Max(T))
  <2>1. /\ g \in [SUBSET S -> Marks]
        /\ \A T \in SUBSET S : g[T] = IF T = {} THEN Log!NoMarks ELSE h[T][g[T \ {next[T]}]]
    BY <1>6 DEF FoldOver
  <2>2. g[{}] = Log!NoMarks
    BY <2>1
  <2>3. ASSUME NEW T \in SUBSET S, T # {}
        PROVE  g[T] = Log!MarkLine(g[T \ {Log!Max(T)}], log[Log!Max(T)], Log!Max(T))
    <3>1. g[T] = h[T][g[T \ {next[T]}]]
      BY <2>1, <2>3
    <3>2. next[T] = Log!Max(T)
      BY <1>2, <2>3
    <3>3. g[T \ {next[T]}] \in Marks
      BY <2>1
    <3> QED BY <1>4, <2>3, <3>1, <3>2, <3>3
  <2> QED BY <2>1, <2>2, <2>3
<1>8. DOMAIN Positions(log) = S /\ \A x \in S : Positions(log)[x] = x
  BY DEF Positions
<1>9. IsParse(g, log)
  <2>1. g = [T \in SUBSET S |-> IF T = {} THEN Log!NoMarks
                                ELSE Log!MarkLine(g[T \ {Log!Max(T)}], log[Positions(log)[Log!Max(T)]],
                                                  Positions(log)[Log!Max(T)])]
    <3>1. \A T \in SUBSET S : T # {} => Positions(log)[Log!Max(T)] = Log!Max(T)
      BY <1>2, <1>8
    <3> HIDE DEF S
    <3> QED BY <1>7, <3>1
  <2> QED BY <1>8, <2>1 DEF IsParse
<1>10. IsParse(CHOOSE k : IsParse(k, log), log)
  BY <1>9
<1>11. PICK k : IsParse(k, log) /\ Log!MarksOf(log) = k[S]
  BY <1>8, <1>10, ParseIsAFold
<1>12. /\ k[{}] = Log!NoMarks
       /\ \A T \in SUBSET S : T # {} => k[T] = Log!MarkLine(k[T \ {Log!Max(T)}], log[Log!Max(T)], Log!Max(T))
  <2>1. k = [T \in SUBSET S |-> IF T = {} THEN Log!NoMarks
                                ELSE Log!MarkLine(k[T \ {Log!Max(T)}], log[Positions(log)[Log!Max(T)]],
                                                  Positions(log)[Log!Max(T)])]
    BY <1>8, <1>11 DEF IsParse
  <2>2. \A T \in SUBSET S : T # {} => Positions(log)[Log!Max(T)] = Log!Max(T)
    BY <1>2, <1>8
  <2> HIDE DEF S
  <2> QED BY <2>1, <2>2
<1> DEFINE P == {i \in Nat : i <= n => k[1 .. i] \in Marks /\ IsMarks(k[1 .. i], log, i)}
<1>13. 0 \in P
  <2>1. 1 .. 0 = {}
    OBVIOUS
  <2> QED BY <1>12, <2>1, MarksOfNoLine
<1>14. ASSUME NEW i \in Nat, i \in P PROVE i + 1 \in P
  <2> SUFFICES ASSUME i + 1 <= n PROVE k[1 .. (i + 1)] \in Marks /\ IsMarks(k[1 .. (i + 1)], log, i + 1)
    OBVIOUS
  <2>1. k[1 .. i] \in Marks /\ IsMarks(k[1 .. i], log, i)
    BY <1>14
  <2>2. 1 .. (i + 1) \in SUBSET S /\ 1 .. (i + 1) # {} /\ (1 .. (i + 1)) \ {i + 1} = 1 .. i
    <3>1. n \in Nat /\ i + 1 <= n
      OBVIOUS
    <3>2. \A t \in 1 .. (i + 1) : t \in 1 .. n
      BY <3>1
    <3>3. i + 1 \in 1 .. (i + 1)
      OBVIOUS
    <3>4. \A t : t \in (1 .. (i + 1)) \ {i + 1} <=> t \in 1 .. i
      OBVIOUS
    <3> QED BY <3>2, <3>3, <3>4
  <2>3. Log!Max(1 .. (i + 1)) = i + 1
    <3>1. Log!Max(1 .. (i + 1)) \in 1 .. (i + 1) /\ \A t \in 1 .. (i + 1) : t <= Log!Max(1 .. (i + 1))
      BY <2>2, LastOfLines
    <3>2. i + 1 \in 1 .. (i + 1)
      OBVIOUS
    <3> QED BY <3>1, <3>2
  <2>4. k[1 .. (i + 1)] = Log!MarkLine(k[1 .. i], log[i + 1], i + 1)
    BY <1>12, <2>2, <2>3
  <2> QED BY <2>1, <2>4, MarkLineKeepsMarks, MarksOfOneMoreLine
<1>15. P = Nat
  <2>1. P \in SUBSET Nat
    OBVIOUS
  <2> HIDE DEF P
  <2> QED BY <1>13, <1>14, <2>1, NumbersInductively
<1> QED BY <1>11, <1>15

(* A log as the page reads it.                                             *)
LEMMA LinesAsRead ==
    ASSUME NEW log, Len(log) \in Nat, DOMAIN log = 1 .. Len(log)
    PROVE  /\ Len(Log!Read(log)) = Len(log) /\ \A t \in 1 .. Len(log) : Log!Read(log)[t] = Log!ReadLine(log[t])
           /\ IsMarks(Log!ParseLog(log), Log!Read(log), Len(log))
<1> DEFINE n == Len(log)
           lines == Log!Read(log)
<1>1. n \in Nat /\ lines = [t \in 1 .. n |-> Log!ReadLine(log[t])]
  BY DEF Log!Read
<1> HIDE DEF n, lines
<1>2. Len(lines) = n /\ \A t \in 1 .. n : lines[t] = Log!ReadLine(log[t])
  BY <1>1
<1>3. IsMarks(Log!MarksOf(lines), lines, n)
  BY <1>1, <1>2, ParsedMarks
<1> QED BY <1>2, <1>3 DEF Log!ParseLog, lines, n

(* A log of a launch that was done at `ready`: no rank ends a phase after  *)
(* that, and all of it is SGLang's of one version.                         *)
EndsBy(log, ready) == \A t \in 1 .. Len(log) : log[t] \in Log!Ends => t <= ready

OneVersion(log) ==
    \A t, u \in 1 .. Len(log) : log[t] \in {"cuda_graph_begin", "cuda_graph_end"} => log[u] \notin {"decode_graph_begin", "decode_graph_end"}

(* The marks of a log, as the engine takes them.                           *)
LEMMA LaunchMarksAre ==
    ASSUME NEW log, Len(log) \in Nat, DOMAIN log = 1 .. Len(log)
    PROVE  IsMarks(Log!LaunchMarks(log), log, Len(log))
<1> DEFINE n == Len(log)
           m == Log!LaunchMarks(log)
           at(p) == Log!Hits(log, p)
<1>1. \A p : \A t : t \in at(p) <=> t \in 1 .. n /\ log[t] = p
  BY DEF Log!Hits
<1>2. \A p : at(p) \in SUBSET (1 .. n)
  BY <1>1
<1>3. DOMAIN m = {p \in Log!Phase : at(p) # {}}
  BY DEF Log!LaunchMarks
<1>4. ASSUME NEW p \in DOMAIN m
      PROVE  m[p] \in at(p) /\ \A t \in at(p) : IF p \in Log!Ends THEN t <= m[p] ELSE m[p] <= t
  <2>1. at(p) # {} /\ at(p) \in SUBSET Int /\ IsFiniteSet(at(p))
    <3>1. IsFiniteSet(1 .. n)
      BY FS_Interval
    <3> HIDE DEF at
    <3>2. at(p) # {} /\ at(p) \in SUBSET Int
      BY <1>2, <1>3, <1>4
    <3> QED BY <1>2, <3>1, <3>2, FS_Subset
  <2>2. PICK a \in at(p), b \in at(p) : \A t \in at(p) : a <= t /\ t <= b
    BY <2>1, FirstAndLast DEF HasEnds
  <2>3. m[p] = CHOOSE t \in at(p) : IF p \in Log!Ends THEN Log!IsLast(t, at(p)) ELSE Log!IsFirst(t, at(p))
    BY <1>4 DEF Log!LaunchMarks
  <2>4. \E t \in at(p) : IF p \in Log!Ends THEN Log!IsLast(t, at(p)) ELSE Log!IsFirst(t, at(p))
    BY <2>2 DEF Log!IsLast, Log!IsFirst
  <2>5. m[p] \in at(p) /\ IF p \in Log!Ends THEN Log!IsLast(m[p], at(p)) ELSE Log!IsFirst(m[p], at(p))
    BY <2>3, <2>4
  <2> QED BY <2>5 DEF Log!IsLast, Log!IsFirst
<1> HIDE DEF at, m
<1>5. DOMAIN m = {p \in Log!Phase : \E t \in 1 .. n : log[t] = p}
  BY <1>1, <1>3
<1>6. ASSUME NEW p \in DOMAIN m
      PROVE  /\ m[p] \in 1 .. n /\ log[m[p]] = p
             /\ \A t \in 1 .. n : log[t] = p => IF p \in Log!Ends THEN t <= m[p] ELSE m[p] <= t
  BY <1>1, <1>4, <1>6
<1> QED BY <1>5, <1>6 DEF IsMarks, m

LEMMA MarksOfAPrefix ==
    ASSUME NEW log, Len(log) \in Nat, DOMAIN log = 1 .. Len(log), NEW n \in 0 .. Len(log)
    PROVE  IsMarks(Log!LaunchMarks(SubSeq(log, 1, n)), log, n)
<1> DEFINE s == SubSeq(log, 1, n)
<1>1. n \in Nat /\ 1 .. n \subseteq 1 .. Len(log)
  OBVIOUS
<1>2. s = [t \in 1 .. n |-> log[t]]
  BY <1>1
<1>3. Len(s) = n
  BY <1>1, <1>2
<1> HIDE DEF s
<1>4. DOMAIN s = 1 .. n /\ \A t \in 1 .. n : s[t] = log[t]
  BY <1>2
<1>5. Len(s) \in Nat /\ DOMAIN s = 1 .. Len(s)
  BY <1>1, <1>3, <1>4
<1>6. IsMarks(Log!LaunchMarks(s), s, n)
  BY <1>3, <1>5, LaunchMarksAre
<1> QED BY <1>4, <1>6 DEF IsMarks, s

(* The Analysis page shows the marks the engine reported, for every log,   *)
(* in which the ranks' lines interleave as they do, as long as no rank     *)
(* ends a phase after the first request was done and the lines are those   *)
(* of an older SGLang or of a newer one: parse_log, line by line, keeps    *)
(* the first line of a begin and the last of an end (launch of             *)
(* sglang_engine.py, parse_log of dashboard.py).                           *)
THEOREM PageAgreesWithEngine ==
    ASSUME input.kind = "log" => /\ Len(input.log) \in Nat /\ DOMAIN input.log = 1 .. Len(input.log)
                                 /\ input.ready \in Nat /\ EndsBy(input.log, input.ready) /\ OneVersion(input.log)
    PROVE  PageShowsTheMarks
<1> SUFFICES ASSUME NEW log, Len(log) \in Nat, DOMAIN log = 1 .. Len(log), NEW ready \in Nat,
                    EndsBy(log, ready), OneVersion(log)
             PROVE  Log!MarksAgree(log, ready)
  BY DEF PageShowsTheMarks
<1> DEFINE n == Log!Smaller(ready, Len(log))
           marks == Log!LaunchMarks(SubSeq(log, 1, n))
           shown == Log!ParseLog(log)
           lines == Log!Read(log)
<1>1. n \in 0 .. Len(log) /\ n <= ready /\ (ready <= n \/ Len(log) <= n)
  BY DEF Log!Smaller
<1>2. IsMarks(marks, log, n) /\ IsMarks(shown, lines, Len(log)) /\ \A t \in 1 .. Len(log) : lines[t] = Log!ReadLine(log[t])
  <2> HIDE DEF n
  <2> QED BY <1>1, MarksOfAPrefix, LinesAsRead
<1> HIDE DEF n, marks, shown, lines
<1>3. ASSUME NEW p \in DOMAIN marks PROVE p \in DOMAIN shown /\ shown[p] = marks[p]
  <2>1. /\ p \in Log!Phase /\ marks[p] \in 1 .. n /\ log[marks[p]] = p
        /\ \A t \in 1 .. n : log[t] = p => IF p \in Log!Ends THEN t <= marks[p] ELSE marks[p] <= t
    BY <1>2, <1>3 DEF IsMarks
  <2>2. marks[p] \in 1 .. Len(log)
    <3>1. n \in Int /\ Len(log) \in Int /\ n <= Len(log)
      BY <1>1
    <3>2. marks[p] \in Int /\ 1 <= marks[p] /\ marks[p] <= n
      BY <2>1, <3>1
    <3> QED BY <3>1, <3>2
  <2>3. \A t \in 1 .. Len(log) : lines[t] = p <=> log[t] = p
    <3>1. TAKE t \in 1 .. Len(log)
    <3>2. lines[t] = Log!ReadLine(log[t])
      BY <1>2
    <3>3. CASE log[t] \notin {"cuda_graph_begin", "cuda_graph_end"}
      BY <3>2, <3>3 DEF Log!ReadLine
    <3>4. CASE log[t] \in {"cuda_graph_begin", "cuda_graph_end"}
      <4>1. p \notin {"decode_graph_begin", "decode_graph_end"}
        BY <2>1, <2>2, <3>4 DEF OneVersion
      <4>2. p \notin {"cuda_graph_begin", "cuda_graph_end"}
        BY <2>1 DEF Log!Phase, Log!Ends
      <4>3. lines[t] \in {"decode_graph_begin", "decode_graph_end"}
        BY <3>2, <3>4 DEF Log!ReadLine
      <4> QED BY <3>4, <4>1, <4>2, <4>3
    <3> QED BY <3>3, <3>4
  <2>4. /\ p \in DOMAIN shown /\ shown[p] \in 1 .. Len(log) /\ log[shown[p]] = p
        /\ \A t \in 1 .. Len(log) : log[t] = p => IF p \in Log!Ends THEN t <= shown[p] ELSE shown[p] <= t
    <3>1. p \in DOMAIN shown
      BY <1>2, <2>1, <2>2, <2>3 DEF IsMarks
    <3> QED BY <1>2, <2>3, <3>1 DEF IsMarks
  <2>5. IF p \in Log!Ends THEN marks[p] <= shown[p] ELSE shown[p] <= marks[p]
    BY <2>1, <2>2, <2>4
  <2>6. shown[p] \in 1 .. n
    <3>1. n \in Int /\ Len(log) \in Int /\ n <= Len(log) /\ (ready <= n \/ Len(log) <= n)
      BY <1>1
    <3>2. marks[p] \in Int /\ marks[p] <= n
      BY <2>1, <3>1
    <3>3. shown[p] \in Int /\ 1 <= shown[p] /\ shown[p] <= Len(log)
      BY <2>4, <3>1
    <3>4. p \in Log!Ends => shown[p] <= ready
      BY <2>4 DEF EndsBy
    <3>5. shown[p] <= n
      BY <2>5, <3>1, <3>2, <3>3, <3>4
    <3> QED BY <3>1, <3>3, <3>5
  <2>7. IF p \in Log!Ends THEN shown[p] <= marks[p] ELSE marks[p] <= shown[p]
    BY <2>1, <2>4, <2>6
  <2> QED BY <2>1, <2>4, <2>5, <2>7
<1> QED BY <1>3 DEF Log!MarksAgree, n, marks, shown

(* A sum, and the share of one of its terms, which may not be there.       *)
SumOver(T, v) == SumFunction([x \in T |-> v[x]])
Share(T, v, x) == IF x \in T THEN v[x] ELSE 0

LEMMA SumWithout ==
    ASSUME NEW T, IsFiniteSet(T), NEW v, \A x \in T : v[x] \in Int, NEW y
    PROVE  SumOver(T, v) \in Int /\ SumOver(T, v) = Share(T, v, y) + SumOver(T \ {y}, v)
<1> DEFINE f == [x \in T |-> v[x]]
<1>1. DOMAIN f = T /\ \A x \in T : f[x] = v[x]
  OBVIOUS
<1>2. SumOver(T, v) = SumFunction(f)
  BY DEF SumOver
<1>3. \A A \in SUBSET T : [x \in A |-> v[x]] = [x \in A |-> f[x]]
  OBVIOUS
<1> HIDE DEF f
<1>4. Summable(f)
  BY <1>1 DEF Summable
<1>5. SumOver(T, v) \in Int
  BY <1>2, <1>4, SumType
<1>6. CASE y \in T
  <2>1. SumFunction(f) = f[y] + SumFunction([x \in DOMAIN f \ {y} |-> f[x]])
    BY <1>1, <1>4, <1>6, SumOfOneMore
  <2>2. SumOver(T \ {y}, v) = SumFunction([x \in T \ {y} |-> f[x]])
    BY <1>3 DEF SumOver
  <2>3. SumFunction([x \in DOMAIN f \ {y} |-> f[x]]) = SumFunction([x \in T \ {y} |-> f[x]])
    BY <1>1, Zenon
  <2>4. Share(T, v, y) = f[y]
    BY <1>1, <1>6 DEF Share
  <2> QED BY <1>2, <1>5, <2>1, <2>2, <2>3, <2>4
<1>7. CASE y \notin T
  <2>1. T \ {y} = T
    BY <1>7
  <2>2. SumOver(T \ {y}, v) = SumOver(T, v)
    BY <2>1, Zenon
  <2>3. Share(T, v, y) = 0
    BY <1>7 DEF Share
  <2> QED BY <1>5, <2>2, <2>3
<1> QED BY <1>6, <1>7

LEMMA SumOfFour ==
    ASSUME NEW v, NEW a, NEW b, NEW c, NEW d, a # b, a # c, a # d, b # c, b # d, c # d,
           NEW T \in SUBSET {a, b, c, d}, \A x \in T : v[x] \in Int
    PROVE  SumOver(T, v) = Share(T, v, a) + Share(T, v, b) + Share(T, v, c) + Share(T, v, d)
<1> DEFINE A == T \ {a}
           B == A \ {b}
           C == B \ {c}
           D == C \ {d}
<1>1. IsFiniteSet(T) /\ IsFiniteSet(A) /\ IsFiniteSet(B) /\ IsFiniteSet(C)
  <2>1. IsFiniteSet({a, b, c, d})
    <3>1. \A S, x : IsFiniteSet(S) => IsFiniteSet(S \cup {x})
      BY FS_AddElement
    <3>2. IsFiniteSet({} \cup {a})
      BY <3>1, FS_EmptySet
    <3>3. IsFiniteSet({} \cup {a} \cup {b})
      BY <3>1, <3>2
    <3>4. IsFiniteSet({} \cup {a} \cup {b} \cup {c})
      BY <3>1, <3>3
    <3>5. IsFiniteSet({} \cup {a} \cup {b} \cup {c} \cup {d})
      BY <3>1, <3>4
    <3>6. {a, b, c, d} = {} \cup {a} \cup {b} \cup {c} \cup {d}
      OBVIOUS
    <3> QED BY <3>5, <3>6
  <2> QED BY <2>1, FS_Subset
<1>2. D = {} /\ A \in SUBSET T /\ B \in SUBSET T /\ C \in SUBSET T
  OBVIOUS
<1>3. (b \in A <=> b \in T) /\ (c \in B <=> c \in T) /\ (d \in C <=> d \in T)
  OBVIOUS
<1> HIDE DEF D, C, B, A
<1>4. SumOver(T, v) \in Int /\ SumOver(T, v) = Share(T, v, a) + SumOver(A, v)
  BY <1>1, SumWithout DEF A
<1>5. SumOver(A, v) \in Int /\ SumOver(A, v) = Share(A, v, b) + SumOver(B, v)
  BY <1>1, <1>2, SumWithout DEF B
<1>6. SumOver(B, v) \in Int /\ SumOver(B, v) = Share(B, v, c) + SumOver(C, v)
  BY <1>1, <1>2, SumWithout DEF C
<1>7. SumOver(C, v) \in Int /\ SumOver(C, v) = Share(C, v, d) + SumOver(D, v)
  BY <1>1, <1>2, SumWithout DEF D
<1>8. SumOver(D, v) = 0
  <2>1. DOMAIN [x \in D |-> v[x]] = {}
    BY <1>2
  <2> QED BY <2>1, SumOfNothing DEF SumOver
<1>9. Share(A, v, b) = Share(T, v, b) /\ Share(B, v, c) = Share(T, v, c) /\ Share(C, v, d) = Share(T, v, d)
  BY <1>3 DEF Share
<1>10. Share(T, v, a) \in Int /\ Share(T, v, b) \in Int /\ Share(T, v, c) \in Int /\ Share(T, v, d) \in Int
  BY DEF Share
<1> QED BY <1>4, <1>5, <1>6, <1>7, <1>8, <1>9, <1>10

(* No line of a phase before the first one of another.                     *)
Precedes(lines, p, q) ==
    \A t, u \in 1 .. Len(lines) : lines[t] = p /\ lines[u] = q => \E first \in 1 .. Len(lines) : first <= u /\ lines[first] = p

Preceding == {<<"load_begin", "load_end">>, <<"load_begin", "decode_graph_end">>, <<"load_begin", "fired_up">>,
              <<"prefill_graph_begin", "decode_graph_end">>, <<"prefill_graph_begin", "fired_up">>}

(* The log of a launch that was done at `ready`, however its ranks         *)
(* interleave.  No phase is begun or ended later than that, only the       *)
(* server may report itself one line after its first request.  A rank      *)
(* begins to load before it is done, and to capture graphs for the prefill *)
(* before it has those for decoding; the server is up after all of that.   *)
IsLaunchLog(log, ready) ==
    /\ Len(log) \in Nat /\ DOMAIN log = 1 .. Len(log) /\ ready \in Nat
    /\ \A t \in 1 .. Len(log) : Log!Read(log)[t] \in Log!Phase => t <= IF log[t] = "fired_up" THEN ready + 1 ELSE ready
    /\ \A pair \in Preceding : Precedes(Log!Read(log), pair[1], pair[2])

(* What the segments are taken from.                                       *)
InOrderMarks(m, ready) ==
    /\ m["spawn"] = 0 /\ m["first_request_done"] = ready
    /\ \A p \in DOMAIN m \ {"spawn", "first_request_done"} : m[p] \in Int /\ 1 <= m[p] /\ (p = "fired_up" \/ m[p] <= ready)
    /\ "fired_up" \in DOMAIN m => m["fired_up"] <= ready + 1
    /\ \A pair \in Preceding : pair[1] \in DOMAIN m /\ pair[2] \in DOMAIN m => m[pair[1]] <= m[pair[2]]

LEMMA MarksOfALaunch ==
    ASSUME NEW log, NEW ready, IsLaunchLog(log, ready)
    PROVE  InOrderMarks(Log!AllMarks(log, ready), ready)
<1> DEFINE k == Log!ParseLog(log)
           m == Log!AllMarks(log, ready)
           n == Len(log)
           lines == Log!Read(log)
<1>1. n \in Nat /\ ready \in Nat /\ DOMAIN log = 1 .. n
  BY DEF IsLaunchLog
<1>2. IsMarks(k, lines, n) /\ Len(lines) = n /\ \A t \in 1 .. n : lines[t] = Log!ReadLine(log[t])
  BY <1>1, LinesAsRead
<1>3. DOMAIN m = DOMAIN k \cup {"spawn", "first_request_done"} /\ m["spawn"] = 0 /\ m["first_request_done"] = ready
  BY DEF Log!AllMarks, Log!Mark
<1>4. \A p \in DOMAIN k : p # "spawn" /\ p # "first_request_done"
  BY <1>2 DEF IsMarks, Log!Phase, Log!Ends
<1>5. \A p \in DOMAIN k : m[p] = k[p]
  BY <1>4 DEF Log!AllMarks, Log!Mark
<1> HIDE DEF k, m
<1>6. ASSUME NEW p \in DOMAIN m \ {"spawn", "first_request_done"}
      PROVE  /\ m[p] \in 1 .. n /\ lines[m[p]] = p /\ p \in Log!Phase
             /\ \A t \in 1 .. n : lines[t] = p => IF p \in Log!Ends THEN t <= m[p] ELSE m[p] <= t
  <2>1. p \in DOMAIN k /\ m[p] = k[p]
    BY <1>3, <1>5
  <2> HIDE DEF lines
  <2> QED BY <1>2, <2>1 DEF IsMarks
<1>7. ASSUME NEW t \in 1 .. n, lines[t] \in Log!Phase PROVE IF lines[t] = "fired_up" THEN t <= ready + 1 ELSE t <= ready
  <2>1. t <= IF log[t] = "fired_up" THEN ready + 1 ELSE ready
    BY <1>7 DEF IsLaunchLog
  <2>2. log[t] = "fired_up" => lines[t] = "fired_up"
    BY <1>2 DEF Log!ReadLine
  <2> HIDE DEF lines
  <2>3. CASE log[t] = "fired_up"
    BY <2>1, <2>2, <2>3
  <2>4. CASE log[t] # "fired_up"
    BY <1>1, <2>1, <2>4
  <2> QED BY <2>3, <2>4
<1>8. ASSUME NEW p \in DOMAIN m \ {"spawn", "first_request_done"}
      PROVE  m[p] \in Int /\ 1 <= m[p] /\ m[p] <= (IF p = "fired_up" THEN ready + 1 ELSE ready)
  <2>1. m[p] \in 1 .. n /\ lines[m[p]] = p /\ p \in Log!Phase
    BY <1>6
  <2>2. m[p] <= IF p = "fired_up" THEN ready + 1 ELSE ready
    BY <1>7, <2>1
  <2> QED BY <1>1, <2>1, <2>2
<1>9. ASSUME NEW pair \in Preceding, pair[1] \in DOMAIN m, pair[2] \in DOMAIN m PROVE m[pair[1]] <= m[pair[2]]
  <2> DEFINE p == pair[1]
             q == pair[2]
  <2>1. p \notin Log!Ends /\ p # "spawn" /\ p # "first_request_done" /\ q # "spawn" /\ q # "first_request_done"
    BY DEF Preceding, Log!Ends
  <2>2. Precedes(lines, p, q)
    BY DEF IsLaunchLog
  <2> HIDE DEF p, q, lines
  <2>3. m[p] \in 1 .. n /\ lines[m[p]] = p /\ \A t \in 1 .. n : lines[t] = p => m[p] <= t
    BY <1>6, <1>9, <2>1 DEF p
  <2>4. m[q] \in 1 .. n /\ lines[m[q]] = q
    BY <1>6, <1>9, <2>1 DEF q
  <2>5. PICK first \in 1 .. n : first <= m[q] /\ lines[first] = p
    BY <1>2, <2>2, <2>3, <2>4 DEF Precedes
  <2>6. m[p] <= first
    BY <2>3, <2>5
  <2>7. m[p] <= m[q]
    BY <1>1, <2>3, <2>4, <2>5, <2>6
  <2> QED BY <2>7 DEF p, q
<1> QED BY <1>3, <1>8, <1>9 DEF InOrderMarks, m

LEMMA SegmentsFitTheLaunch ==
    ASSUME NEW log, NEW ready, IsLaunchLog(log, ready)
    PROVE  Log!SegmentsFit(log, ready)
<1> DEFINE m == Log!AllMarks(log, ready)
           shown == Log!Shown(log, ready)
           long(s) == m[s[2]] - m[s[1]]
           T(g) == {s \in shown : s[3] = g}
           v(g) == [s \in T(g) |-> long(s)]
           a == <<"spawn", "server_args", 1>>
           b == <<"server_args", "dist_begin", 1>>
           c == <<"dist_begin", "dist_end", 2>>
           d == <<"load_begin", "load_end", 3>>
           w == <<"dist_end", "load_begin", 5>>
           x == <<"load_end", "prefill_graph_begin", 5>>
           y == <<"decode_graph_end", "fired_up", 5>>
           z == <<"fired_up", "first_request_done", 5>>
<1>1. InOrderMarks(m, ready) /\ ready \in Nat
  BY MarksOfALaunch DEF IsLaunchLog
<1>2. \A s : s \in shown <=> s \in Log!Segments /\ s[1] \in DOMAIN m /\ s[2] \in DOMAIN m /\ m[s[2]] >= m[s[1]]
  BY DEF Log!Shown
<1>3. \A s : Log!Length(log, ready, s) = long(s)
  BY DEF Log!Length
<1>4. \A g : Log!GroupTotal(log, ready, g) = SumOver(T(g), v(g))
  <2> TAKE g
  <2>1. Log!GroupTotal(log, ready, g) = Log!SumFunction([s \in T(g) |-> Log!Length(log, ready, s)])
    BY DEF Log!GroupTotal
  <2>2. [s \in T(g) |-> Log!Length(log, ready, s)] = [s \in T(g) |-> v(g)[s]]
    BY <1>3
  <2>3. Log!GroupTotal(log, ready, g) = SumFunction([s \in T(g) |-> Log!Length(log, ready, s)])
    BY <2>1, LogSums
  <2> QED BY <2>2, <2>3 DEF SumOver
<1> HIDE DEF m, shown
<1>5. \A p \in DOMAIN m : m[p] \in Int
  BY <1>1 DEF InOrderMarks
<1>6. \A s \in shown : long(s) \in Int
  BY <1>2, <1>5
<1>7. \A s \in shown : /\ s[3] = 1 => s \in {a, b}
                       /\ s[3] = 2 => s = c
                       /\ s[3] = 3 => s = d
                       /\ s[3] = 5 => s \in {w, x, y, z}
  BY <1>2 DEF Log!Segments
<1>8. /\ a # b /\ a # c /\ a # d /\ b # c /\ b # d /\ c # d
      /\ w # x /\ w # y /\ w # z /\ x # y /\ x # z /\ y # z
  OBVIOUS
<1>9. /\ T(1) \in SUBSET {a, b, c, d} /\ T(2) \in SUBSET {a, b, c, d} /\ T(3) \in SUBSET {a, b, c, d}
      /\ T(5) \in SUBSET {w, x, y, z}
  BY <1>7
<1>10. /\ c \notin T(1) /\ d \notin T(1) /\ a \notin T(2) /\ b \notin T(2) /\ d \notin T(2)
       /\ a \notin T(3) /\ b \notin T(3) /\ c \notin T(3)
  OBVIOUS
<1>11. \A g : \A s \in T(g) : v(g)[s] = long(s) /\ v(g)[s] \in Int
  BY <1>6
<1>12. \A g \in {1, 2, 3} :
          SumOver(T(g), v(g)) = Share(T(g), v(g), a) + Share(T(g), v(g), b) + Share(T(g), v(g), c) + Share(T(g), v(g), d)
  <2> HIDE DEF T, v, a, b, c, d
  <2> QED BY <1>8, <1>9, <1>11, SumOfFour
<1>13. ASSUME NEW g, NEW s \in T(g)
       PROVE  s[1] \in DOMAIN m /\ s[2] \in DOMAIN m /\ Share(T(g), v(g), s) = m[s[2]] - m[s[1]]
  BY <1>2, <1>13 DEF Share
<1>14. \A g : \A s : s \notin T(g) => Share(T(g), v(g), s) = 0
  BY DEF Share
<1>15. SumOver(T(1), v(1)) <= ready
  <2>1. SumOver(T(1), v(1)) = Share(T(1), v(1), a) + Share(T(1), v(1), b) + 0 + 0
    <3> HIDE DEF T, v, a, b, c, d
    <3> QED BY <1>10, <1>12, <1>14
  <2>2. a \in T(1) => /\ Share(T(1), v(1), a) = m["server_args"] - 0
                      /\ m["server_args"] \in Int /\ m["server_args"] <= ready
    <3> SUFFICES ASSUME a \in T(1) PROVE /\ Share(T(1), v(1), a) = m[a[2]] - m[a[1]]
                                         /\ a[2] \in DOMAIN m
                                         /\ a[1] = "spawn" /\ a[2] = "server_args"
      BY <1>1 DEF InOrderMarks
    <3> HIDE DEF T, v
    <3> QED BY <1>13
  <2>3. b \in T(1) => /\ Share(T(1), v(1), b) = m["dist_begin"] - m["server_args"]
                      /\ m["dist_begin"] \in Int /\ m["dist_begin"] <= ready
                      /\ m["server_args"] \in Int /\ 1 <= m["server_args"]
    <3> SUFFICES ASSUME b \in T(1) PROVE /\ Share(T(1), v(1), b) = m[b[2]] - m[b[1]]
                                         /\ b[2] \in DOMAIN m /\ b[1] \in DOMAIN m
                                         /\ b[1] = "server_args" /\ b[2] = "dist_begin"
      BY <1>1 DEF InOrderMarks
    <3> HIDE DEF T, v
    <3> QED BY <1>13
  <2> HIDE DEF T, v, a, b
  <2> QED BY <1>1, <1>14, <2>1, <2>2, <2>3
<1>16. SumOver(T(2), v(2)) <= ready
  <2>1. SumOver(T(2), v(2)) = 0 + 0 + Share(T(2), v(2), c) + 0
    <3> HIDE DEF T, v, a, b, c, d
    <3> QED BY <1>10, <1>12, <1>14
  <2>2. c \in T(2) => /\ Share(T(2), v(2), c) = m["dist_end"] - m["dist_begin"]
                      /\ m["dist_end"] \in Int /\ m["dist_end"] <= ready
                      /\ m["dist_begin"] \in Int /\ 1 <= m["dist_begin"]
    <3> SUFFICES ASSUME c \in T(2) PROVE /\ Share(T(2), v(2), c) = m[c[2]] - m[c[1]]
                                         /\ c[2] \in DOMAIN m /\ c[1] \in DOMAIN m
                                         /\ c[1] = "dist_begin" /\ c[2] = "dist_end"
      BY <1>1 DEF InOrderMarks
    <3> HIDE DEF T, v
    <3> QED BY <1>13
  <2> HIDE DEF T, v, c
  <2> QED BY <1>1, <1>14, <2>1, <2>2
<1>17. SumOver(T(3), v(3)) <= ready
  <2>1. SumOver(T(3), v(3)) = 0 + 0 + 0 + Share(T(3), v(3), d)
    <3> HIDE DEF T, v, a, b, c, d
    <3> QED BY <1>10, <1>12, <1>14
  <2>2. d \in T(3) => /\ Share(T(3), v(3), d) = m["load_end"] - m["load_begin"]
                      /\ m["load_end"] \in Int /\ m["load_end"] <= ready
                      /\ m["load_begin"] \in Int /\ 1 <= m["load_begin"]
    <3> SUFFICES ASSUME d \in T(3) PROVE /\ Share(T(3), v(3), d) = m[d[2]] - m[d[1]]
                                         /\ d[2] \in DOMAIN m /\ d[1] \in DOMAIN m
                                         /\ d[1] = "load_begin" /\ d[2] = "load_end"
      BY <1>1 DEF InOrderMarks
    <3> HIDE DEF T, v
    <3> QED BY <1>13
  <2> HIDE DEF T, v, d
  <2> QED BY <1>1, <1>14, <2>1, <2>2
<1>18. SumOver(T(5), v(5)) <= ready
  <2>1. SumOver(T(5), v(5)) = Share(T(5), v(5), w) + Share(T(5), v(5), x) + Share(T(5), v(5), y) + Share(T(5), v(5), z)
    <3> HIDE DEF T, v, w, x, y, z
    <3> QED BY <1>8, <1>9, <1>11, SumOfFour
  <2>2. w \in T(5) => /\ Share(T(5), v(5), w) = m["load_begin"] - m["dist_end"]
                      /\ "load_begin" \in DOMAIN m
                      /\ m["load_begin"] \in Int /\ m["load_begin"] <= ready
                      /\ m["dist_end"] \in Int /\ 1 <= m["dist_end"]
    <3> SUFFICES ASSUME w \in T(5) PROVE /\ Share(T(5), v(5), w) = m[w[2]] - m[w[1]]
                                         /\ w[2] \in DOMAIN m /\ w[1] \in DOMAIN m
                                         /\ w[1] = "dist_end" /\ w[2] = "load_begin"
      BY <1>1 DEF InOrderMarks
    <3> HIDE DEF T, v
    <3> QED BY <1>13
  <2>3. x \in T(5) => /\ Share(T(5), v(5), x) = m["prefill_graph_begin"] - m["load_end"]
                      /\ "prefill_graph_begin" \in DOMAIN m /\ "load_end" \in DOMAIN m
                      /\ m["prefill_graph_begin"] \in Int /\ m["prefill_graph_begin"] <= ready
                      /\ m["load_end"] \in Int /\ 1 <= m["load_end"]
    <3> SUFFICES ASSUME x \in T(5) PROVE /\ Share(T(5), v(5), x) = m[x[2]] - m[x[1]]
                                         /\ x[2] \in DOMAIN m /\ x[1] \in DOMAIN m
                                         /\ x[1] = "load_end" /\ x[2] = "prefill_graph_begin"
      BY <1>1 DEF InOrderMarks
    <3> HIDE DEF T, v
    <3> QED BY <1>13
  <2>4. y \in T(5) => /\ Share(T(5), v(5), y) = m["fired_up"] - m["decode_graph_end"]
                      /\ "fired_up" \in DOMAIN m /\ "decode_graph_end" \in DOMAIN m
                      /\ m["decode_graph_end"] \in Int /\ 1 <= m["decode_graph_end"]
                      /\ m["fired_up"] \in Int /\ m["fired_up"] <= ready + 1
    <3> SUFFICES ASSUME y \in T(5) PROVE /\ Share(T(5), v(5), y) = m[y[2]] - m[y[1]]
                                         /\ y[2] \in DOMAIN m /\ y[1] \in DOMAIN m
                                         /\ y[1] = "decode_graph_end" /\ y[2] = "fired_up"
      BY <1>1 DEF InOrderMarks
    <3> HIDE DEF T, v
    <3> QED BY <1>13
  <2>5. z \in T(5) => /\ Share(T(5), v(5), z) = ready - m["fired_up"]
                      /\ "fired_up" \in DOMAIN m
                      /\ m["fired_up"] \in Int /\ 1 <= m["fired_up"]
    <3> SUFFICES ASSUME z \in T(5) PROVE /\ Share(T(5), v(5), z) = m[z[2]] - m[z[1]]
                                         /\ z[2] \in DOMAIN m /\ z[1] \in DOMAIN m
                                         /\ z[1] = "fired_up" /\ z[2] = "first_request_done"
      BY <1>1 DEF InOrderMarks
    <3> HIDE DEF T, v
    <3> QED BY <1>13
  <2>6. /\ {"load_begin", "load_end"} \subseteq DOMAIN m => m["load_begin"] <= m["load_end"]
        /\ {"load_begin", "decode_graph_end"} \subseteq DOMAIN m => m["load_begin"] <= m["decode_graph_end"]
        /\ {"load_begin", "fired_up"} \subseteq DOMAIN m => m["load_begin"] <= m["fired_up"]
        /\ {"prefill_graph_begin", "decode_graph_end"} \subseteq DOMAIN m => m["prefill_graph_begin"] <= m["decode_graph_end"]
        /\ {"prefill_graph_begin", "fired_up"} \subseteq DOMAIN m => m["prefill_graph_begin"] <= m["fired_up"]
    <3>1. \A p, q : <<p, q>> \in Preceding => (p \in DOMAIN m /\ q \in DOMAIN m => m[p] <= m[q])
      BY <1>1 DEF InOrderMarks
    <3>2. /\ <<"load_begin", "load_end">> \in Preceding /\ <<"load_begin", "decode_graph_end">> \in Preceding
          /\ <<"load_begin", "fired_up">> \in Preceding /\ <<"prefill_graph_begin", "decode_graph_end">> \in Preceding
          /\ <<"prefill_graph_begin", "fired_up">> \in Preceding
      BY DEF Preceding
    <3> QED BY <3>1, <3>2
  <2> HIDE DEF T, v, w, x, y, z
  <2>7. w \notin T(5) => Share(T(5), v(5), w) = 0
    BY <1>14
  <2>8. x \notin T(5) => Share(T(5), v(5), x) = 0
    BY <1>14
  <2>9. y \notin T(5) => Share(T(5), v(5), y) = 0
    BY <1>14
  <2>10. z \notin T(5) => Share(T(5), v(5), z) = 0
    BY <1>14
  <2> QED BY <1>1, <2>1, <2>2, <2>3, <2>4, <2>5, <2>6, <2>7, <2>8, <2>9, <2>10
<1> HIDE DEF long, T, v
<1> QED BY <1>4, <1>15, <1>16, <1>17, <1>18 DEF Log!SegmentsFit

LEMMA LogCounts == ASSUME NEW T PROVE Log!Cardinality(T) = Cardinality(T)
BY DEF Log!Cardinality, Cardinality

(* The imports of a traced launch, and when its workers began.             *)
IsTrace(rows, workers) ==
    /\ IsFiniteSet(rows) /\ \A r \in rows : r.at \in Int /\ r.cost \in Int
    /\ IsFiniteSet(workers) /\ workers \in SUBSET Int

LEMMA BreakdownIsWhole ==
    ASSUME NEW rows, NEW workers, IsTrace(rows, workers), NEW serverArgs \in Int, NEW distBegin \in Int
    PROVE  Log!BreakdownAddsUp(rows, workers, serverArgs, distBegin)
<1> DEFINE top == Log!Top(rows)
           L == {r \in top : \A w \in workers : r.at < w}
           W == {r \in top : \E w \in workers : r.at >= w}
           f == [r \in top |-> r.cost]
           launcher == Log!LauncherImports(rows, workers)
           worker == Log!WorkerImports(rows, workers)
           n == Cardinality(workers)
           first == CHOOSE w \in workers : Log!IsFirst(w, workers)
           last == CHOOSE w \in workers : Log!IsLast(w, workers)
           b == Log!Breakdown(rows, workers, serverArgs, distBegin)
<1>1. top \in SUBSET rows /\ \A r \in top : r.at \in Int /\ r.cost \in Int
  BY DEF Log!Top, IsTrace
<1>2. IsFiniteSet(top)
  BY <1>1, FS_Subset DEF IsTrace
<1>3. /\ Log!CostOf(top) = SumFunction(f)
      /\ launcher = SumFunction([r \in L |-> r.cost])
      /\ worker = SumFunction([r \in W |-> r.cost])
  BY LogSums DEF Log!LauncherImports, Log!WorkerImports, Log!CostOf
<1> HIDE DEF top, launcher, worker
<1>4. L \cup W = top /\ L \cap W = {}
  <2>1. ASSUME NEW r \in top PROVE (r \in L \/ r \in W) /\ ~(r \in L /\ r \in W)
    <3>1. r.at \in Int /\ workers \in SUBSET Int
      BY <1>1 DEF IsTrace
    <3> QED BY <3>1
  <2> QED BY <2>1
<1>5. Summable(f) /\ DOMAIN f = top
  BY <1>1, <1>2 DEF Summable
<1>6. /\ [r \in L |-> r.cost] = [r \in L |-> f[r]]
      /\ [r \in W |-> r.cost] = [r \in W |-> f[r]]
  OBVIOUS
<1>7. IsFiniteSet(L) /\ IsFiniteSet(W)
  BY <1>2, FS_Subset
<1>8. launcher \in Int /\ worker \in Int
  <2>1. Summable([r \in L |-> r.cost]) /\ Summable([r \in W |-> r.cost])
    BY <1>1, <1>7 DEF Summable
  <2> QED BY <1>3, <2>1, SumType
<1>9. Log!CostOf(top) = launcher + worker
  <2> HIDE DEF f, L, W
  <2> QED BY <1>3, <1>4, <1>5, <1>6, SumOfParts
<1> HIDE DEF f, first, last, n
<1>10. CASE workers = {}
  <2>1. n = 0
    BY <1>10, FS_EmptySet DEF n
  <2>2. b.launcherImports = launcher
    BY <1>10 DEF Log!Breakdown, launcher
  <2>3. worker = 0
    <3>1. DOMAIN [r \in W |-> r.cost] = {}
      BY <1>10
    <3> QED BY <1>3, <3>1, SumOfNothing
  <2>4. b.launcherImports = Log!CostOf(top)
    BY <1>8, <1>9, <2>2, <2>3
  <2> HIDE DEF b, L, W
  <2> QED BY <2>1, <2>4, LogCounts DEF Log!BreakdownAddsUp, n, b, top
<1>11. CASE workers # {}
  <2>1. n \in Nat /\ n # 0
    BY <1>11, FS_EmptySet, FS_CardinalityType DEF IsTrace, n
  <2>2. PICK p \in workers, q \in workers : \A w \in workers : p <= w /\ w <= q
    BY <1>11, FirstAndLast DEF IsTrace, HasEnds
  <2>3. first \in workers /\ last \in workers /\ first <= last
    <3>1. first \in workers /\ Log!IsFirst(first, workers)
      BY <2>2 DEF first, Log!IsFirst
    <3>2. last \in workers /\ Log!IsLast(last, workers)
      BY <2>2 DEF last, Log!IsLast
    <3> QED BY <3>1, <3>2 DEF Log!IsFirst
  <2>4. first \in Int /\ last \in Int
    BY <2>3 DEF IsTrace
  <2>5. /\ b.launcherImports = launcher /\ b.launcherOther = serverArgs - launcher
        /\ b.toFirstWorker = first - serverArgs /\ b.workerImports = worker
        /\ b.spread = last - first /\ b.workerSetup = n * (distBegin - first) - worker
    BY <1>11, LogCounts DEF Log!Breakdown, launcher, worker, first, last, n
  <2> HIDE DEF b, L, W
  <2>6. b.launcherImports + b.workerImports = Log!CostOf(top) /\ b.spread >= 0
    BY <1>9, <2>3, <2>4, <2>5
  <2>7. n * (b.launcherImports + b.launcherOther + b.toFirstWorker) + b.workerImports + b.workerSetup = n * distBegin
    <3>1. b.launcherImports + b.launcherOther + b.toFirstWorker = first
      BY <1>8, <2>4, <2>5
    <3>2. \A i, j, k \in Int : i * j + (i * (k - j)) = i * k
      OBVIOUS
    <3>3. n * first + n * (distBegin - first) = n * distBegin
      BY <2>1, <2>4, <3>2
    <3>4. n * first \in Int /\ n * (distBegin - first) \in Int
      BY <2>1, <2>4
    <3>5. n * first + worker + (n * (distBegin - first) - worker) = n * first + n * (distBegin - first)
      BY <1>8, <3>4
    <3> QED BY <2>5, <3>1, <3>3, <3>5
  <2> QED BY <2>1, <2>6, <2>7, LogCounts DEF Log!BreakdownAddsUp, n, b, top
<1> QED BY <1>10, <1>11

(* However the ranks' lines interleave, the segments of a group of serial  *)
(* phases fit into the launch together; and whatever it imports, every     *)
(* import is in one part of the breakdown, and the parts add up to the     *)
(* time until torch is initialised (build_launch and proc_breakdown of     *)
(* dashboard.py).                                                          *)
THEOREM SegmentsAddUp ==
    ASSUME input.kind = "log" => IsLaunchLog(input.log, input.ready),
           input.kind = "imports" => IsTrace(input.rows, input.workers)
    PROVE  SegmentsAreTrue
<1>1. input.kind = "log" => Log!SegmentsFit(input.log, input.ready)
  BY SegmentsFitTheLaunch
<1>2. input.kind = "imports" => Log!BreakdownAddsUp(input.rows, input.workers, 3, 9)
  BY BreakdownIsWhole
<1> QED BY <1>1, <1>2 DEF SegmentsAreTrue

-----------------------------------------------------------------------------
(* Part 7: the compile cache.  The roots of the directories seen so far:   *)
(* each of them is below one, none is below another, and each looks like a *)
(* cache and is above a directory that counts.                             *)

(* Paths are sequences of names; one is above another, or it is the same,  *)
(* if it is a prefix.                                                      *)
PathName == Seq(STRING)

LEMMA PrefixMeans ==
    ASSUME NEW x \in PathName, NEW y \in PathName
    PROVE  IsPrefix(x, y) <=> Len(x) <= Len(y) /\ \A i \in 1 .. Len(x) : x[i] = y[i]
<1>1. Len(x) \in Nat /\ Len(y) \in Nat
  BY DEF PathName
<1>2. ASSUME Len(x) <= Len(y) PROVE SubSeq(x, 1, Len(x)) = SubSeq(y, 1, Len(x)) <=> \A i \in 1 .. Len(x) : x[i] = y[i]
  <2>1. SubSeq(x, 1, Len(x)) = [i \in 1 .. Len(x) |-> x[i]]
    BY DEF PathName
  <2>2. SubSeq(y, 1, Len(x)) = [i \in 1 .. Len(x) |-> y[i]]
    BY <1>1, <1>2 DEF PathName
  <2> QED BY <2>1, <2>2
<1> QED BY <1>2 DEF IsPrefix

(* What is above two is above one, and of two above a third one is above   *)
(* the other.                                                              *)
LEMMA PrefixOrder ==
    /\ \A x \in PathName : IsPrefix(x, x)
    /\ \A x, y, z \in PathName : IsPrefix(x, y) /\ IsPrefix(y, z) => IsPrefix(x, z)
    /\ \A x, y, z \in PathName : IsPrefix(x, z) /\ IsPrefix(y, z) => IsPrefix(x, y) \/ IsPrefix(y, x)
<1>1. \A x \in PathName : Len(x) \in Nat
  BY DEF PathName
<1>2. ASSUME NEW x \in PathName PROVE IsPrefix(x, x)
  BY <1>1, PrefixMeans
<1>3. ASSUME NEW x \in PathName, NEW y \in PathName, NEW z \in PathName, IsPrefix(x, y), IsPrefix(y, z) PROVE IsPrefix(x, z)
  <2>1. Len(x) <= Len(y) /\ Len(y) <= Len(z) /\ Len(x) \in Nat /\ Len(y) \in Nat /\ Len(z) \in Nat
    BY <1>1, <1>3, PrefixMeans
  <2>2. \A i \in 1 .. Len(x) : i \in 1 .. Len(y)
    BY <2>1
  <2>3. \A i \in 1 .. Len(x) : x[i] = z[i]
    BY <1>3, <2>2, PrefixMeans
  <2>4. Len(x) <= Len(z)
    BY <2>1
  <2> QED BY <2>3, <2>4, PrefixMeans
<1>4. ASSUME NEW x \in PathName, NEW y \in PathName, NEW z \in PathName, IsPrefix(x, z), IsPrefix(y, z)
      PROVE  IsPrefix(x, y) \/ IsPrefix(y, x)
  <2>1. Len(x) \in Nat /\ Len(y) \in Nat
    BY <1>1
  <2>2. (\A i \in 1 .. Len(x) : x[i] = z[i]) /\ (\A i \in 1 .. Len(y) : y[i] = z[i])
    BY <1>4, PrefixMeans
  <2>3. CASE Len(x) <= Len(y)
    <3>1. \A i \in 1 .. Len(x) : i \in 1 .. Len(y)
      BY <2>1, <2>3
    <3>2. \A i \in 1 .. Len(x) : x[i] = y[i]
      BY <2>2, <3>1
    <3> QED BY <2>3, <3>2, PrefixMeans
  <2>4. CASE Len(y) <= Len(x)
    <3>1. \A i \in 1 .. Len(y) : i \in 1 .. Len(x)
      BY <2>1, <2>4
    <3>2. \A i \in 1 .. Len(y) : y[i] = x[i]
      BY <2>2, <3>1
    <3> QED BY <2>4, <3>2, PrefixMeans
  <2> QED BY <2>1, <2>3, <2>4
<1> QED BY <1>2, <1>3, <1>4

(* The name of a directory that looks like a cache.                        *)
RootOf(dir) == SubSeq(dir, 1, FirstHint(dir))

LEMMA HintIsHinted ==
    ASSUME NEW dir \in PathName, FirstHint(dir) # 0
    PROVE  FirstHint(dir) \in 1 .. Len(dir) /\ IsHinted(dir[FirstHint(dir)])
<1> DEFINE I == {i \in 1 .. Len(dir) : IsHinted(dir[i])}
<1>1. FirstHint(dir) = IF I # {} THEN Min(I) ELSE 0
  BY DEF FirstHint, SelectInSeq
<1>2. I # {} /\ FirstHint(dir) = Min(I)
  BY <1>1
<1>3. I \in SUBSET Int /\ IsFiniteSet(I)
  <2>1. Len(dir) \in Nat
    BY DEF PathName
  <2>2. IsFiniteSet(1 .. Len(dir)) /\ I \in SUBSET (1 .. Len(dir)) /\ 1 .. Len(dir) \in SUBSET Int
    BY <2>1, FS_Interval
  <2> HIDE DEF I
  <2> QED BY <2>2, FS_Subset
<1>4. \E a \in I : \A i \in I : a <= i
  <2> HIDE DEF I
  <2> QED BY <1>2, <1>3, FirstAndLast DEF HasEnds
<1>5. Min(I) \in I
  BY <1>4 DEF Min
<1> QED BY <1>2, <1>5

LEMMA RootIsAbove ==
    ASSUME NEW dir \in PathName, FirstHint(dir) # 0
    PROVE  /\ RootOf(dir) \in PathName /\ RootOf(dir) # <<>> /\ IsPrefix(RootOf(dir), dir)
           /\ IsHinted(RootOf(dir)[Len(RootOf(dir))]) /\ RootOf(dir)[1] = dir[1]
<1> DEFINE n == FirstHint(dir)
<1>1. n \in 1 .. Len(dir) /\ IsHinted(dir[n]) /\ Len(dir) \in Nat
  BY HintIsHinted DEF PathName
<1> HIDE DEF n
<1>2. /\ SubSeq(dir, 1, n) \in PathName /\ Len(SubSeq(dir, 1, n)) = n
      /\ \A i \in 1 .. n : SubSeq(dir, 1, n)[i] = dir[i]
  BY <1>1 DEF PathName
<1>3. n \in Nat /\ n >= 1 /\ n <= Len(dir) /\ 1 \in 1 .. n /\ n \in 1 .. n
  BY <1>1
<1>4. SubSeq(dir, 1, n) # <<>>
  BY <1>2, <1>3
<1>5. IsPrefix(SubSeq(dir, 1, n), dir)
  BY <1>2, <1>3, PrefixMeans
<1> QED BY <1>1, <1>2, <1>3, <1>4, <1>5 DEF RootOf, n

(* The roots of the directories dirs.                                      *)
RootsOf(roots, dirs) ==
    /\ roots \in SUBSET PathName
    /\ \A x \in roots : \E d \in dirs : FirstHint(d) # 0 /\ x = RootOf(d)
    /\ \A d \in dirs : FirstHint(d) # 0 => \E x \in roots : IsPrefix(x, RootOf(d))
    /\ \A x, y \in roots : IsPrefix(x, y) => x = y

LEMMA AddKeepsPaths ==
    ASSUME NEW roots \in SUBSET PathName, NEW dir \in PathName
    PROVE  Add(roots, dir) \in SUBSET PathName
BY RootIsAbove DEF Add, RootOf

(* A round of cache_roots adds one directory to those the roots are of.    *)
LEMMA AddKeepsRoots ==
    ASSUME NEW roots, NEW dirs \in SUBSET PathName, RootsOf(roots, dirs), NEW dir \in PathName
    PROVE  RootsOf(Add(roots, dir), dirs \cup {dir})
<1> DEFINE root == RootOf(dir)
           kept == {x \in roots : ~IsPrefix(root, x)}
<1>1. /\ roots \in SUBSET PathName
      /\ \A x \in roots : \E d \in dirs : FirstHint(d) # 0 /\ x = RootOf(d)
      /\ \A d \in dirs : FirstHint(d) # 0 => \E x \in roots : IsPrefix(x, RootOf(d))
      /\ \A x, y \in roots : IsPrefix(x, y) => x = y
  BY DEF RootsOf
<1>2. Add(roots, dir) = IF FirstHint(dir) = 0 \/ \E x \in roots : IsPrefix(x, root) THEN roots ELSE kept \cup {root}
  BY DEF Add, RootOf
<1>3. CASE FirstHint(dir) = 0 \/ \E x \in roots : IsPrefix(x, root)
  <2>1. Add(roots, dir) = roots
    BY <1>2, <1>3
  <2>2. \A d \in dirs \cup {dir} : FirstHint(d) # 0 => \E x \in roots : IsPrefix(x, RootOf(d))
    BY <1>1, <1>3
  <2>3. RootsOf(roots, dirs \cup {dir})
    BY <1>1, <2>2 DEF RootsOf
  <2> QED BY <2>1, <2>3
<1>4. CASE FirstHint(dir) # 0 /\ \A x \in roots : ~IsPrefix(x, root)
  <2>1. Add(roots, dir) = kept \cup {root}
    BY <1>2, <1>4
  <2>2. root \in PathName
    BY <1>4, RootIsAbove
  <2> HIDE DEF root
  <2>3. kept \cup {root} \in SUBSET PathName
    BY <1>1, <2>2
  <2>4. \A x \in kept \cup {root} : \E d \in dirs \cup {dir} : FirstHint(d) # 0 /\ x = RootOf(d)
    BY <1>1, <1>4 DEF root
  <2>5. ASSUME NEW d \in dirs \cup {dir}, FirstHint(d) # 0 PROVE \E x \in kept \cup {root} : IsPrefix(x, RootOf(d))
    <3>1. CASE d = dir
      BY <2>2, <3>1, PrefixOrder DEF root
    <3>2. CASE d \in dirs
      <4>1. PICK x \in roots : IsPrefix(x, RootOf(d))
        BY <1>1, <2>5, <3>2
      <4>2. RootOf(d) \in PathName
        BY <2>5, <3>2, RootIsAbove
      <4>3. CASE IsPrefix(root, x)
        BY <1>1, <2>2, <4>1, <4>2, <4>3, PrefixOrder
      <4>4. CASE ~IsPrefix(root, x)
        BY <4>1, <4>4
      <4> QED BY <4>3, <4>4
    <3> QED BY <3>1, <3>2
  <2>6. \A x, y \in kept \cup {root} : IsPrefix(x, y) => x = y
    BY <1>1, <1>4 DEF root
  <2>7. RootsOf(kept \cup {root}, dirs \cup {dir})
    BY <2>3, <2>4, <2>5, <2>6 DEF RootsOf
  <2> QED BY <2>1, <2>7
<1> QED BY <1>3, <1>4

(* All rounds.                                                             *)
IsRounds(g, found) ==
    g = [T \in SUBSET DOMAIN found |-> IF T = {} THEN {} ELSE LET x == Max(T) IN Add(g[T \ {x}], found[x])]

LEMMA RoundsAreAFold == ASSUME NEW found PROVE CacheRoots(found) = (CHOOSE g : IsRounds(g, found))[DOMAIN found]
BY DEF CacheRoots, FoldLeft, MapThenFoldSet, IsRounds

LEMMA RootsOfFound ==
    ASSUME NEW n \in Nat, NEW found \in [1 .. n -> PathName]
    PROVE  RootsOf(CacheRoots(found), {found[i] : i \in 1 .. n})
<1> DEFINE S == 1 .. n
           Sets == SUBSET PathName
           next == [T \in SUBSET S |-> Max(T)]
           h == [T \in SUBSET S |-> [roots \in Sets |-> IF T = {} THEN roots ELSE Add(roots, found[Max(T)])]]
<1>1. IsFiniteSet(S) /\ {} \in Sets
  BY FS_Interval
<1>2. ASSUME NEW T \in SUBSET S, T # {} PROVE next[T] \in T /\ next[T] = Max(T) /\ Max(T) \in S /\ found[Max(T)] \in PathName
  <2>1. Max(T) \in T
    BY <1>2, Latest
  <2>2. next[T] = Max(T)
    OBVIOUS
  <2> QED BY <2>1, <2>2
<1>3. ASSUME NEW T \in SUBSET S, NEW roots \in Sets PROVE h[T][roots] \in Sets
  <2>1. CASE T = {}
    BY <2>1
  <2>2. CASE T # {}
    BY <1>2, <2>2, AddKeepsPaths
  <2> QED BY <2>1, <2>2
<1>4. \A T \in SUBSET S : \A roots \in Sets : T # {} => h[T][roots] = Add(roots, found[Max(T)])
  OBVIOUS
<1> HIDE DEF next, h, Sets
<1>5. Foldable(S, Sets, {}, next, h)
  BY <1>1, <1>2, <1>3 DEF Foldable
<1>6. PICK g : FoldOver(g, S, Sets, {}, next, h)
  BY <1>5, FoldExists
<1>7. g = [T \in SUBSET S |-> IF T = {} THEN {} ELSE Add(g[T \ {Max(T)}], found[Max(T)])]
  <2>1. /\ g \in [SUBSET S -> Sets]
        /\ \A T \in SUBSET S : g[T] = IF T = {} THEN {} ELSE h[T][g[T \ {next[T]}]]
    BY <1>6 DEF FoldOver
  <2>2. ASSUME NEW T \in SUBSET S, T # {} PROVE g[T] = Add(g[T \ {Max(T)}], found[Max(T)])
    <3>1. g[T] = h[T][g[T \ {next[T]}]]
      BY <2>1, <2>2
    <3>2. next[T] = Max(T)
      BY <1>2, <2>2
    <3>3. g[T \ {next[T]}] \in Sets
      BY <2>1
    <3> QED BY <1>4, <2>2, <3>1, <3>2, <3>3
  <2> QED BY <2>1, <2>2
<1>8. DOMAIN found = S
  OBVIOUS
<1>9. IsRounds(g, found)
  BY <1>7, <1>8 DEF IsRounds
<1>10. IsRounds(CHOOSE k : IsRounds(k, found), found)
  BY <1>9
<1>11. PICK k : IsRounds(k, found) /\ CacheRoots(found) = k[S]
  BY <1>8, <1>10, RoundsAreAFold
<1>12. k[{}] = {} /\ \A T \in SUBSET S : T # {} => k[T] = Add(k[T \ {Max(T)}], found[Max(T)])
  BY <1>8, <1>11 DEF IsRounds
<1> DEFINE Seen(i) == {found[j] : j \in 1 .. i}
           P == {i \in Nat : i <= n => RootsOf(k[1 .. i], Seen(i))}
<1>13. 0 \in P
  <2>1. 1 .. 0 = {} /\ Seen(0) = {}
    OBVIOUS
  <2>2. RootsOf({}, {})
    BY DEF RootsOf
  <2> QED BY <1>12, <2>1, <2>2
<1>14. ASSUME NEW i \in Nat, i \in P PROVE i + 1 \in P
  <2> SUFFICES ASSUME i + 1 <= n PROVE RootsOf(k[1 .. (i + 1)], Seen(i + 1))
    OBVIOUS
  <2>1. RootsOf(k[1 .. i], Seen(i))
    BY <1>14
  <2>2. 1 .. (i + 1) \in SUBSET S /\ 1 .. (i + 1) # {} /\ (1 .. (i + 1)) \ {i + 1} = 1 .. i
    <3>1. \A t \in 1 .. (i + 1) : t \in 1 .. n
      OBVIOUS
    <3>2. i + 1 \in 1 .. (i + 1)
      OBVIOUS
    <3>3. \A t : t \in (1 .. (i + 1)) \ {i + 1} <=> t \in 1 .. i
      OBVIOUS
    <3> QED BY <3>1, <3>2, <3>3
  <2>3. Max(1 .. (i + 1)) = i + 1
    <3>1. Max(1 .. (i + 1)) \in 1 .. (i + 1) /\ \A t \in 1 .. (i + 1) : t <= Max(1 .. (i + 1))
      BY <2>2, Latest
    <3>2. i + 1 \in 1 .. (i + 1)
      OBVIOUS
    <3> QED BY <3>1, <3>2
  <2>4. k[1 .. (i + 1)] = Add(k[1 .. i], found[i + 1])
    BY <1>12, <2>2, <2>3
  <2>5. Seen(i) \in SUBSET PathName /\ found[i + 1] \in PathName
    <3>1. \A t \in 1 .. (i + 1) : t \in 1 .. n
      OBVIOUS
    <3>2. i + 1 \in 1 .. (i + 1) /\ \A t \in 1 .. i : t \in 1 .. (i + 1)
      OBVIOUS
    <3> QED BY <3>1, <3>2
  <2>6. Seen(i + 1) = Seen(i) \cup {found[i + 1]}
    <3>1. \A t : t \in 1 .. (i + 1) <=> t \in 1 .. i \/ t = i + 1
      OBVIOUS
    <3> QED BY <3>1
  <2> HIDE DEF Seen
  <2>7. RootsOf(Add(k[1 .. i], found[i + 1]), Seen(i) \cup {found[i + 1]})
    BY <2>1, <2>5, AddKeepsRoots
  <2> QED BY <2>4, <2>6, <2>7
<1>15. P = Nat
  <2>1. P \in SUBSET Nat
    OBVIOUS
  <2> HIDE DEF P
  <2> QED BY <1>13, <1>14, <2>1, NumbersInductively
<1>16. RootsOf(k[1 .. n], Seen(n))
  <2>1. n \in P
    BY <1>15
  <2> HIDE DEF Seen
  <2> QED BY <2>1
<1> QED BY <1>11, <1>16

(* The files find lists: each has a path and a size.                       *)
IsListing(files) == IsFiniteSet(files) /\ \A f \in files : f.path \in PathName /\ f.path # <<>>

LEMMA DirIsAbove ==
    ASSUME NEW f, f.path \in PathName, f.path # <<>>
    PROVE  /\ DirOf(f) \in PathName /\ IsPrefix(DirOf(f), f.path)
           /\ FirstHint(DirOf(f)) # 0 => DirOf(f)[1] = f.path[1]
<1> DEFINE p == f.path
           n == IF Len(p) > 4 THEN 4 ELSE Len(p) - 1
<1>1. Len(p) \in Nat /\ Len(p) # 0
  BY DEF PathName
<1>2. n \in 0 .. Len(p) /\ DirOf(f) = SubSeq(p, 1, n)
  BY <1>1 DEF DirOf
<1> HIDE DEF n
<1>3. SubSeq(p, 1, n) \in PathName /\ Len(SubSeq(p, 1, n)) = n /\ \A i \in 1 .. n : SubSeq(p, 1, n)[i] = p[i]
  BY <1>1, <1>2 DEF PathName
<1>4. IsPrefix(DirOf(f), p)
  <2>1. n \in Nat /\ n <= Len(p)
    BY <1>1, <1>2
  <2> DEFINE d == SubSeq(p, 1, n)
  <2>2. d \in PathName /\ p \in PathName /\ Len(d) = n /\ \A i \in 1 .. n : d[i] = p[i]
    BY <1>3
  <2> HIDE DEF d, p
  <2>3. IsPrefix(d, p)
    BY <2>1, <2>2, PrefixMeans
  <2> QED BY <1>2, <2>3 DEF d
<1>5. ASSUME FirstHint(DirOf(f)) # 0 PROVE DirOf(f)[1] = p[1]
  <2>1. FirstHint(DirOf(f)) \in 1 .. n
    BY <1>2, <1>3, <1>5, HintIsHinted
  <2>2. 1 \in 1 .. n
    BY <1>1, <1>2, <2>1
  <2> QED BY <1>2, <1>3, <2>2
<1> QED BY <1>2, <1>3, <1>4, <1>5

(* Every new file of a directory that looks like a cache and has enough of *)
(* them is saved, and once, whatever files a launch wrote and in whatever  *)
(* order find lists them; nothing else becomes a root (discover_writes and *)
(* cache_roots of sglang_engine.py).                                       *)
THEOREM CachesAreWhole ==
    ASSUME input.kind = "writes" => IsListing(input.files)
    PROVE  CachesAreSaved
<1> SUFFICES ASSUME NEW files, IsListing(files), NEW found \in Discovered(files)
             PROVE  LET roots == CacheRoots(found) IN
                    /\ \A f \in Counted(files) :
                          FirstHint(DirOf(f)) # 0 /\ BytesOf(files, DirOf(f)) >= MinBytes =>
                              Cardinality({x \in roots : IsPrefix(x, f.path)}) = 1
                    /\ \A x \in roots : x # <<>> /\ IsHinted(x[Len(x)]) /\ x[1] \notin Skipped
                    /\ \A x, y \in roots : IsPrefix(x, y) => x = y
  BY DEF CachesAreSaved, CacheIsSaved
<1> DEFINE dirs == {d \in {DirOf(f) : f \in Counted(files)} : BytesOf(files, d) >= MinBytes}
           n == Cardinality(dirs)
           roots == CacheRoots(found)
<1>1. /\ \A f \in Counted(files) : f \in files /\ f.path \in PathName /\ f.path # <<>> /\ f.path[1] \notin Skipped
      /\ IsFiniteSet(Counted(files))
  <2>1. Counted(files) \in SUBSET files
    BY DEF Counted
  <2>2. IsFiniteSet(Counted(files))
    BY <2>1, FS_Subset DEF IsListing
  <2> QED BY <2>2 DEF Counted, IsListing
<1>2. dirs \in SUBSET PathName
  BY <1>1, DirIsAbove
<1>3. n \in Nat
  <2>1. IsFiniteSet({DirOf(f) : f \in Counted(files)})
    <3> DEFINE dir == [f \in Counted(files) |-> DirOf(f)]
               T == {DirOf(f) : f \in Counted(files)}
    <3>1. dir \in Surjection(Counted(files), T)
      BY DEF Surjection
    <3> QED BY <1>1, <3>1, FS_Surjection
  <2>2. IsFiniteSet(dirs)
    BY <2>1, FS_Subset
  <2> QED BY <2>2, FS_CardinalityType
<1>4. found \in [1 .. n -> dirs] /\ Range(found) = dirs
  BY DEF Discovered
<1> HIDE DEF dirs, n, roots
<1>5. {found[i] : i \in 1 .. n} = dirs
  BY <1>4 DEF Range
<1>6. RootsOf(roots, dirs)
  <2>1. found \in [1 .. n -> PathName]
    BY <1>2, <1>4
  <2>2. RootsOf(roots, {found[i] : i \in 1 .. n})
    BY <1>3, <2>1, RootsOfFound DEF roots
  <2> QED BY <1>5, <2>2
<1>7. /\ roots \in SUBSET PathName
      /\ \A x \in roots : \E d \in dirs : FirstHint(d) # 0 /\ x = RootOf(d)
      /\ \A d \in dirs : FirstHint(d) # 0 => \E x \in roots : IsPrefix(x, RootOf(d))
      /\ \A x, y \in roots : IsPrefix(x, y) => x = y
  BY <1>6 DEF RootsOf
<1>8. ASSUME NEW f \in Counted(files), FirstHint(DirOf(f)) # 0, BytesOf(files, DirOf(f)) >= MinBytes
      PROVE  Cardinality({x \in roots : IsPrefix(x, f.path)}) = 1
  <2>1. DirOf(f) \in dirs
    BY <1>8 DEF dirs
  <2>2. DirOf(f) \in PathName /\ IsPrefix(DirOf(f), f.path) /\ f.path \in PathName
    BY <1>1, DirIsAbove
  <2>3. RootOf(DirOf(f)) \in PathName /\ IsPrefix(RootOf(DirOf(f)), DirOf(f))
    BY <1>8, <2>2, RootIsAbove
  <2>4. PICK x \in roots : IsPrefix(x, RootOf(DirOf(f)))
    BY <1>7, <1>8, <2>1
  <2>5. IsPrefix(x, f.path)
    <3>1. IsPrefix(x, DirOf(f))
      BY <1>7, <2>2, <2>3, <2>4, PrefixOrder
    <3> QED BY <1>7, <2>2, <3>1, PrefixOrder
  <2>6. ASSUME NEW y \in roots, IsPrefix(y, f.path) PROVE y = x
    <3>1. IsPrefix(x, y) \/ IsPrefix(y, x)
      BY <1>7, <2>2, <2>5, <2>6, PrefixOrder
    <3> QED BY <1>7, <3>1
  <2>7. {y \in roots : IsPrefix(y, f.path)} = {x}
    BY <2>5, <2>6
  <2>8. Cardinality({x}) = 1
    BY FS_Singleton
  <2> QED BY <2>7, <2>8, Zenon
<1>9. ASSUME NEW x \in roots PROVE x # <<>> /\ IsHinted(x[Len(x)]) /\ x[1] \notin Skipped
  <2>1. PICK d \in dirs : FirstHint(d) # 0 /\ x = RootOf(d)
    BY <1>7
  <2>2. PICK f \in Counted(files) : d = DirOf(f)
    BY DEF dirs
  <2>3. d \in PathName /\ d[1] = f.path[1] /\ f.path[1] \notin Skipped
    BY <1>1, <2>1, <2>2, DirIsAbove
  <2> QED BY <2>1, <2>3, RootIsAbove
<1> QED BY <1>7, <1>8, <1>9 DEF roots

-----------------------------------------------------------------------------
(* Part 8: the key of an artifact.  The agent hashes the pieces of the     *)
(* configuration one after the other, so what keeps two keys apart is      *)
(* that the pieces can be found again in their concatenation.              *)

(* A configuration: a version that does not name a GPU, a GPU of the       *)
(* table, a part of a host of eight, and any config.json.                  *)
IsConfiguration(c, Piece) ==
    /\ c.sglang \in Seq(Piece) /\ \A i \in 1 .. Len(c.sglang) : c.sglang[i] \notin {"NVIDIA H", "NVIDIA B"}
    /\ c.spec.base \in DOMAIN GpuNames /\ c.tp \in 1 .. 8 /\ c.config \in Seq(Piece)

AreParts(S, s, g, n, t) == s \in Seq(S) /\ g \in Seq(S) /\ n \in S /\ t \in Seq(S) /\ Len(g) > 1

Without(s, x) == \A i \in 1 .. Len(s) : s[i] # x

(* The parts of a key, and where each of them is in it.                    *)
KeyOf(s, g, n, t) == s \o g \o <<n>> \o t

HasParts(k, s, g, n, t) ==
    /\ Len(k) = Len(s) + Len(g) + 1 + Len(t)
    /\ \A i \in 1 .. Len(s) : k[i] = s[i]
    /\ \A i \in 1 .. Len(g) : k[Len(s) + i] = g[i]
    /\ k[Len(s) + Len(g) + 1] = n
    /\ \A i \in 1 .. Len(t) : k[Len(s) + Len(g) + 1 + i] = t[i]

LEMMA PartsOfAKey ==
    ASSUME NEW S, NEW s \in Seq(S), NEW g \in Seq(S), NEW n \in S, NEW t \in Seq(S)
    PROVE  HasParts(KeyOf(s, g, n, t), s, g, n, t)
<1> DEFINE u == s \o g
           one == <<n>>
           v == u \o one
           k == v \o t
<1>1. Len(s) \in Nat /\ Len(g) \in Nat /\ Len(t) \in Nat /\ one \in Seq(S) /\ Len(one) = 1 /\ one[1] = n
  OBVIOUS
<1> HIDE DEF one
<1>2. /\ u \in Seq(S) /\ Len(u) = Len(s) + Len(g)
      /\ \A i \in 1 .. Len(s) + Len(g) : u[i] = IF i <= Len(s) THEN s[i] ELSE g[i - Len(s)]
  BY ConcatProperties
<1> HIDE DEF u
<1>3. /\ v \in Seq(S) /\ Len(v) = Len(u) + Len(one)
      /\ \A i \in 1 .. Len(u) + Len(one) : v[i] = IF i <= Len(u) THEN u[i] ELSE one[i - Len(u)]
  <2>1. u \in Seq(S) /\ one \in Seq(S)
    BY <1>1, <1>2
  <2> QED BY <2>1, ConcatProperties
<1> HIDE DEF v
<1>4. /\ Len(k) = Len(v) + Len(t)
      /\ \A i \in 1 .. Len(v) + Len(t) : k[i] = IF i <= Len(v) THEN v[i] ELSE t[i - Len(v)]
  <2>1. v \in Seq(S) /\ t \in Seq(S)
    BY <1>3
  <2> QED BY <2>1, ConcatProperties
<1>5. KeyOf(s, g, n, t) = k
  BY DEF KeyOf, k, v, u, one
<1> HIDE DEF k
<1>6. ASSUME NEW i \in 1 .. Len(s) PROVE k[i] = s[i]
  BY <1>1, <1>2, <1>3, <1>4
<1>7. ASSUME NEW i \in 1 .. Len(g) PROVE k[Len(s) + i] = g[i]
  <2>1. k[Len(s) + i] = v[Len(s) + i]
    BY <1>1, <1>2, <1>3, <1>4
  <2>2. v[Len(s) + i] = u[Len(s) + i]
    <3>1. Len(s) + i \in 1 .. Len(u) + Len(one) /\ Len(s) + i <= Len(u)
      BY <1>1, <1>2
    <3> QED BY <1>3, <3>1
  <2>3. u[Len(s) + i] = g[(Len(s) + i) - Len(s)] /\ (Len(s) + i) - Len(s) = i
    BY <1>1, <1>2
  <2> QED BY <2>1, <2>2, <2>3
<1>8. k[Len(s) + Len(g) + 1] = n
  <2>1. k[Len(s) + Len(g) + 1] = v[Len(s) + Len(g) + 1]
    BY <1>1, <1>2, <1>3, <1>4
  <2> DEFINE x == Len(s) + Len(g) + 1
  <2>2. x \in 1 .. Len(u) + Len(one) /\ ~ (x <= Len(u)) /\ x - Len(u) = 1
    BY <1>1, <1>2
  <2> HIDE DEF x
  <2>3. v[x] = one[1]
    BY <1>3, <2>2
  <2> USE DEF x
  <2> QED BY <1>1, <2>1, <2>3
<1>9. ASSUME NEW i \in 1 .. Len(t) PROVE k[Len(s) + Len(g) + 1 + i] = t[i]
  <2> DEFINE x == Len(s) + Len(g) + 1 + i
  <2>1. x \in 1 .. Len(v) + Len(t) /\ ~ (x <= Len(v)) /\ x - Len(v) = i
    BY <1>1, <1>2, <1>3
  <2> HIDE DEF x
  <2>2. k[x] = t[i]
    BY <1>4, <2>1
  <2> QED BY <2>2 DEF x
<1>10. Len(k) = Len(s) + Len(g) + 1 + Len(t)
  BY <1>1, <1>2, <1>3, <1>4
<1> QED BY <1>5, <1>6, <1>7, <1>8, <1>9, <1>10 DEF HasParts

(* Two keys that agree have the same parts, if the second part begins with *)
(* what the first parts do not have, and is as long if it begins alike.    *)
LEMMA PartsAreTheKeys ==
    ASSUME NEW S, NEW s, NEW g, NEW n, NEW t, AreParts(S, s, g, n, t),
           NEW p, NEW h, NEW m, NEW q, AreParts(S, p, h, m, q),
           Without(s, h[1]), Without(p, g[1]),
           KeyOf(s, g, n, t) = KeyOf(p, h, m, q)
    PROVE  s = p /\ g[1] = h[1] /\ g[2] = h[2] /\ (g = h => n = m /\ t = q)
<1> DEFINE k == KeyOf(s, g, n, t)
<1>1. /\ Len(s) \in Nat /\ Len(g) \in Nat /\ Len(t) \in Nat /\ Len(p) \in Nat /\ Len(h) \in Nat /\ Len(q) \in Nat
      /\ s \in Seq(S) /\ p \in Seq(S) /\ t \in Seq(S) /\ q \in Seq(S) /\ Len(g) > 1 /\ Len(h) > 1
  BY DEF AreParts
<1>2. HasParts(k, s, g, n, t)
  BY PartsOfAKey DEF AreParts
<1>3. HasParts(k, p, h, m, q)
  <2>1. HasParts(KeyOf(p, h, m, q), p, h, m, q)
    BY PartsOfAKey DEF AreParts
  <2> QED BY <2>1
<1> HIDE DEF k
<1>4. k[Len(s) + 1] = g[1] /\ k[Len(p) + 1] = h[1]
  BY <1>1, <1>2, <1>3 DEF HasParts
<1>5. ~ (Len(s) < Len(p))
  <2> SUFFICES ASSUME Len(s) < Len(p) PROVE FALSE
    OBVIOUS
  <2>1. Len(s) + 1 \in 1 .. Len(p)
    BY <1>1
  <2> QED BY <1>3, <1>4, <2>1 DEF HasParts, Without
<1>6. ~ (Len(p) < Len(s))
  <2> SUFFICES ASSUME Len(p) < Len(s) PROVE FALSE
    OBVIOUS
  <2>1. Len(p) + 1 \in 1 .. Len(s)
    BY <1>1
  <2> QED BY <1>2, <1>4, <2>1 DEF HasParts, Without
<1>7. Len(s) = Len(p)
  BY <1>1, <1>5, <1>6
<1>8. s = p
  <2>1. \A i \in 1 .. Len(s) : s[i] = p[i]
    BY <1>2, <1>3, <1>7 DEF HasParts
  <2> QED BY <1>1, <1>7, <2>1, SeqEqual
<1>9. g[1] = h[1] /\ g[2] = h[2]
  <2>1. k[Len(s) + 2] = g[2] /\ k[Len(p) + 2] = h[2]
    BY <1>1, <1>2, <1>3 DEF HasParts
  <2> QED BY <1>4, <1>7, <2>1
<1>10. ASSUME g = h PROVE n = m /\ t = q
  <2>1. Len(g) = Len(h) /\ Len(t) = Len(q) /\ n = m
    BY <1>1, <1>2, <1>3, <1>7, <1>10 DEF HasParts
  <2>2. \A i \in 1 .. Len(t) : t[i] = q[i]
    BY <1>2, <1>3, <1>7, <2>1 DEF HasParts
  <2> QED BY <1>1, <2>1, <2>2, SeqEqual
<1> QED BY <1>8, <1>9, <1>10

(* The names of the GPUs, told apart by their first two pieces.            *)
IsName(s, S, a, b) == s \in Seq(S) /\ Len(s) > 1 /\ s[1] = a /\ s[2] = b

LEMMA ShortName ==
    ASSUME NEW S, NEW a \in S, NEW b \in S, NEW c \in S, NEW d \in S, NEW s, s = <<a, b, c, d>>
    PROVE  IsName(s, S, a, b)
  BY DEF IsName

LEMMA LongName ==
    ASSUME NEW S, NEW a \in S, NEW b \in S, NEW c \in S, NEW d \in S, NEW e \in S, NEW f \in S,
           NEW s, s = <<a, b, c, d, e, f>>
    PROVE  IsName(s, S, a, b)
  BY DEF IsName

NamePieces == {"NVIDIA H", "NVIDIA B", "0", "1", "2", "3", " 80GB HBM"}

LEMMA NamesOfGpus ==
    /\ DOMAIN GpuNames = {"H100", "H200", "B200"}
    /\ \A b \in DOMAIN GpuNames :
          GpuNames[b] \in Seq(NamePieces) /\ Len(GpuNames[b]) > 1 /\ GpuNames[b][1] \in {"NVIDIA H", "NVIDIA B"}
    /\ \A a, b \in DOMAIN GpuNames : GpuNames[a][1] = GpuNames[b][1] /\ GpuNames[a][2] = GpuNames[b][2] => a = b
<1>1. DOMAIN GpuNames = {"H100", "H200", "B200"}
  BY DEF GpuNames
<1>2. IsName(GpuNames["H100"], NamePieces, "NVIDIA H", "1")
  <2>1. GpuNames["H100"] = <<"NVIDIA H", "1", "0", "0", " 80GB HBM", "3">>
    BY DEF GpuNames
  <2>2. /\ "NVIDIA H" \in NamePieces /\ "1" \in NamePieces /\ "0" \in NamePieces /\ " 80GB HBM" \in NamePieces
        /\ "3" \in NamePieces
    BY DEF NamePieces
  <2> QED BY <2>1, <2>2, LongName
<1>3. IsName(GpuNames["H200"], NamePieces, "NVIDIA H", "2")
  <2>1. GpuNames["H200"] = <<"NVIDIA H", "2", "0", "0">>
    BY DEF GpuNames
  <2> QED BY <2>1, ShortName DEF NamePieces
<1>4. IsName(GpuNames["B200"], NamePieces, "NVIDIA B", "2")
  <2>1. GpuNames["B200"] = <<"NVIDIA B", "2", "0", "0">>
    BY DEF GpuNames
  <2> QED BY <2>1, ShortName DEF NamePieces
<1>5. ASSUME NEW b \in DOMAIN GpuNames
      PROVE  GpuNames[b] \in Seq(NamePieces) /\ Len(GpuNames[b]) > 1 /\ GpuNames[b][1] \in {"NVIDIA H", "NVIDIA B"}
  BY <1>1, <1>2, <1>3, <1>4 DEF IsName
<1>6. ASSUME NEW a \in DOMAIN GpuNames, NEW b \in DOMAIN GpuNames,
             GpuNames[a][1] = GpuNames[b][1], GpuNames[a][2] = GpuNames[b][2]
      PROVE  a = b
  BY <1>1, <1>2, <1>3, <1>4, <1>6 DEF IsName
<1> QED BY <1>1, <1>5, <1>6

LEMMA Digits == \A i, j \in 1 .. 8 : Decimal[i] = Decimal[j] => i = j
<1>1. /\ Decimal[1] = "1" /\ Decimal[2] = "2" /\ Decimal[3] = "3" /\ Decimal[4] = "4"
      /\ Decimal[5] = "5" /\ Decimal[6] = "6" /\ Decimal[7] = "7" /\ Decimal[8] = "8"
  BY DEF Decimal
<1>2. \A i \in 1 .. 8 : i \in {1, 2, 3, 4, 5, 6, 7, 8}
  OBVIOUS
<1> QED BY <1>1, <1>2

(* Of any two configurations, whatever their versions and config.json:     *)
(* scheduler and agent know one by one key, and it is the key of the other *)
(* only if version, GPU, tp and config.json are the same (compile_key and  *)
(* cache_key hash the parts without separators).                           *)
THEOREM KeysTellApart ==
    ASSUME NEW Piece, NEW Other, NEW c, NEW d, IsConfiguration(c, Piece), IsConfiguration(d, Other)
    PROVE  /\ CompileKey(c) = CacheKey(c)
           /\ CompileKey(d) = CacheKey(c)
              <=> <<c.sglang, c.spec.base, c.tp, c.config>> = <<d.sglang, d.spec.base, d.tp, d.config>>
<1> DEFINE g == GpuNames[c.spec.base]
           h == GpuNames[d.spec.base]
           n == Decimal[c.tp]
           m == Decimal[d.tp]
           S == Piece \cup Other \cup NamePieces \cup {n, m}
<1>1. /\ c.sglang \in Seq(Piece) /\ c.config \in Seq(Piece) /\ d.sglang \in Seq(Other) /\ d.config \in Seq(Other)
      /\ c.spec.base \in DOMAIN GpuNames /\ d.spec.base \in DOMAIN GpuNames /\ c.tp \in 1 .. 8 /\ d.tp \in 1 .. 8
      /\ \A i \in 1 .. Len(c.sglang) : c.sglang[i] \notin {"NVIDIA H", "NVIDIA B"}
      /\ \A i \in 1 .. Len(d.sglang) : d.sglang[i] \notin {"NVIDIA H", "NVIDIA B"}
  BY DEF IsConfiguration
<1>2. g \in Seq(NamePieces) /\ h \in Seq(NamePieces) /\ Len(g) > 1 /\ Len(h) > 1
  BY <1>1, NamesOfGpus
<1>7. AreParts(S, c.sglang, g, n, c.config) /\ AreParts(S, d.sglang, h, m, d.config)
  <2>1. Piece \subseteq S /\ Other \subseteq S /\ NamePieces \subseteq S /\ n \in S /\ m \in S
    OBVIOUS
  <2> HIDE DEF g, h, n, m, S
  <2>2. \A x : x \in Seq(Piece) \/ x \in Seq(Other) \/ x \in Seq(NamePieces) => x \in Seq(S)
    BY <2>1, SeqMonotonic
  <2> QED BY <1>1, <1>2, <2>1, <2>2 DEF AreParts
<1>3. /\ CompileKey(c) = KeyOf(c.sglang, g, n, c.config) /\ CacheKey(c) = KeyOf(c.sglang, g, n, c.config)
      /\ CompileKey(d) = KeyOf(d.sglang, h, m, d.config)
  BY <1>1 DEF CompileKey, CacheKey, KeyOf, GpuName, Device
<1>4. Without(c.sglang, h[1]) /\ Without(d.sglang, g[1])
  BY <1>1, NamesOfGpus DEF Without
<1> HIDE DEF g, h, n, m, S
<1>5. ASSUME CompileKey(d) = CacheKey(c)
      PROVE  c.sglang = d.sglang /\ c.spec.base = d.spec.base /\ c.tp = d.tp /\ c.config = d.config
  <2>1. KeyOf(c.sglang, g, n, c.config) = KeyOf(d.sglang, h, m, d.config)
    BY <1>3, <1>5
  <2>2. c.sglang = d.sglang /\ g[1] = h[1] /\ g[2] = h[2] /\ (g = h => n = m /\ c.config = d.config)
    BY <1>4, <1>7, <2>1, PartsAreTheKeys
  <2>3. c.spec.base = d.spec.base
    BY <1>1, <2>2, NamesOfGpus DEF g, h
  <2>4. n = m /\ c.config = d.config
    BY <2>2, <2>3 DEF g, h
  <2>5. c.tp = d.tp
    BY <1>1, <2>4, Digits DEF n, m
  <2> QED BY <2>2, <2>3, <2>4, <2>5
<1>6. ASSUME c.sglang = d.sglang, c.spec.base = d.spec.base, c.tp = d.tp, c.config = d.config
      PROVE  CompileKey(d) = CacheKey(c)
  BY <1>3, <1>6 DEF g, h, n, m
<1> QED BY <1>3, <1>5, <1>6

LEMMA OfPieces ==
    ASSUME NEW S, NEW a \in S, NEW b \in S, NEW c \in S
    PROVE  <<a>> \in Seq(S) /\ <<a, b>> \in Seq(S) /\ <<a, b, c>> \in Seq(S)
  OBVIOUS

(* Scheduler and agent know every configuration by one key, and none of    *)
(* those that share the volume by the key of another (compile_key of       *)
(* catalog.py, cache_key of sglang_engine.py): the parts are hashed        *)
(* without separators, but the name of the GPU shows where the version     *)
(* ends, and it and a number of one digit where config.json begins.        *)
THEOREM KeysAreIdentities ==
    ASSUME NEW Piece, input.kind = "key" => IsConfiguration(input.c, Piece)
    PROVE  KeysAgree
<1> SUFFICES ASSUME NEW c, IsConfiguration(c, Piece) PROVE KeysMatch(c, Configurations)
  BY DEF KeysAgree
<1>1. ASSUME NEW d \in Configurations PROVE \E Other : IsConfiguration(d, Other)
  <2> DEFINE Other == {"v0.5.", "2", "0", "{30B}", "{235B}"}
  <2>1. /\ d.sglang \in {<<"v0.5.", "2", "0">>, <<"v0.5.", "2">>} /\ d.config \in {<<"{30B}">>, <<"{235B}">>}
        /\ d.spec.base \in DOMAIN GpuNames /\ d.tp \in {1, 2, 4, 8}
    BY DEF Configurations
  <2>2. "v0.5." \in Other /\ "2" \in Other /\ "0" \in Other /\ "{30B}" \in Other /\ "{235B}" \in Other
    OBVIOUS
  <2>3. \A x \in Other : x \notin {"NVIDIA H", "NVIDIA B"}
    OBVIOUS
  <2> HIDE DEF Other
  <2>4. d.sglang \in Seq(Other)
    BY <2>1, <2>2, OfPieces
  <2>5. d.config \in Seq(Other)
    BY <2>1, <2>2, OfPieces
  <2>6. \A i \in 1 .. Len(d.sglang) : d.sglang[i] \in Other
    BY <2>4
  <2>7. \A i \in 1 .. Len(d.sglang) : d.sglang[i] \notin {"NVIDIA H", "NVIDIA B"}
    BY <2>3, <2>6
  <2>8. d.tp \in 1 .. 8
    <3>1. d.tp \in {1, 2, 4, 8}
      BY <2>1, Zenon
    <3> QED BY <3>1
  <2>9. IsConfiguration(d, Other)
    BY <2>1, <2>4, <2>5, <2>7, <2>8 DEF IsConfiguration
  <2> QED BY <2>9
<1> QED BY <1>1, KeysTellApart DEF KeysMatch
=============================================================================

------------------------------ MODULE Timings ------------------------------
(***************************************************************************)
(* The learned timings: stats and observe of src/fes/catalog.py, called by *)
(* execute after every launch.  A worker's threads share one Catalog and   *)
(* its lock; two workers do not, so observe - read the timings, fold each  *)
(* measurement in, write - may be under way in several of them.            *)
(***************************************************************************)
EXTENDS Integers, FiniteSets

CONSTANTS Worker,     \* processes with a Catalog
          Model,      \* the models started
          Estimate,   \* names of timings
          Value,      \* what a launch may measure
          Prior,      \* DEFAULT_STATS, one value for all estimates
          Launches    \* launches folded in (a bound)

ASSUME ValueAssumption == Value \subseteq Nat /\ Value # {} /\ Prior \in Nat
ASSUME LaunchesAssumption == Launches \in Nat /\ Estimate # {}

VARIABLES own,      \* the stats table: own[m] holds m's estimates, as <<name, value>> pairs
          samples,  \* its row "samples" of each model
          fold,     \* fold[w]: the observe under way in w
          launches, \* launches so far
          measured, \* measured[m]: what was measured, as pairs
          raced     \* the models two of whose launches were folded at once

timingVars == <<own, samples, fold, launches, measured, raced>>

NoFold == [busy |-> FALSE]

TimingsInit ==
    /\ own = [m \in Model |-> {}]
    /\ samples = [m \in Model |-> 0]
    /\ fold = [w \in Worker |-> NoFold]
    /\ launches = 0
    /\ measured = [m \in Model |-> {}]
    /\ raced = {}

(* stats(model): its own estimate, else the prior.  (The shared rows are   *)
(* another prior: observe with a model never writes them.)                 *)
HasOwn(m, k) == \E pair \in own[m] : pair[1] = k
Stat(m, k) == IF HasOwn(m, k) THEN (CHOOSE pair \in own[m] : pair[1] = k)[2] ELSE Prior

-----------------------------------------------------------------------------
(* observe reads stats(model) once, at its start.  None is not measured.   *)
ObserveRead(w, m) ==
    /\ ~fold[w].busy /\ launches < Launches
    /\ \E names \in (SUBSET Estimate) \ {{}} : \E value \in [names -> Value] :
          /\ fold' = [fold EXCEPT ![w] = [busy |-> TRUE, model |-> m, value |-> value, first |-> samples[m] = 0,
                                          count |-> samples[m], seen |-> [k \in names |-> Stat(m, k)],
                                          updated |-> {}]]
          /\ measured' = [measured EXCEPT ![m] = @ \cup {<<k, value[k]>> : k \in names}]
    /\ launches' = launches + 1
    /\ raced' = IF \E u \in Worker : fold[u].busy /\ fold[u].model = m THEN raced \cup {m} ELSE raced
    /\ UNCHANGED <<own, samples>>

(* EWMA, weight 0.5.                                                       *)
Mix(old, new) == (old + new) \div 2

(* Faulty: the borrowed value is folded in like one of the model's own.    *)
FoldAlways(m, f, k) == IF f.first THEN f.value[k] ELSE Mix(f.seen[k], f.value[k])

(* A model's first measurement of an estimate replaces the borrowed one.   *)
Fold(m, f, k) == IF f.first \/ ~HasOwn(m, k) THEN f.value[k] ELSE Mix(f.seen[k], f.value[k])

(* One measurement is folded in: whether the model has an estimate of its  *)
(* own is asked again, for each of them.                                   *)
ObserveFold(w, k) ==
    /\ fold[w].busy /\ k \in DOMAIN fold[w].value /\ \A pair \in fold[w].updated : pair[1] # k
    /\ fold' = [fold EXCEPT ![w].updated = @ \cup {<<k, Fold(fold[w].model, fold[w], k)>>}]
    /\ UNCHANGED <<own, samples, launches, measured, raced>>

(* The new values go in in one transaction.                                *)
ObserveWrite(w) ==
    /\ fold[w].busy /\ \A k \in DOMAIN fold[w].value : \E pair \in fold[w].updated : pair[1] = k
    /\ LET f == fold[w] m == f.model IN
       /\ own' = [own EXCEPT ![m] = {pair \in @ : pair[1] \notin DOMAIN f.value} \cup f.updated]
       /\ samples' = [samples EXCEPT ![m] = f.count + 1]
    /\ fold' = [fold EXCEPT ![w] = NoFold]
    /\ UNCHANGED <<launches, measured, raced>>

TimingsNext ==
    \E w \in Worker : ObserveWrite(w) \/ (\E m \in Model : ObserveRead(w, m)) \/ (\E k \in Estimate : ObserveFold(w, k))

-----------------------------------------------------------------------------
Between(v, set) == (\E x \in set : x <= v) /\ (\E x \in set : v <= x)
MeasuredOf(m, k) == {pair[2] : pair \in {p \in measured[m] : p[1] = k}}

(* A model's estimate lies within what was measured of it, and nothing of  *)
(* the borrowed value is in it - unless two of its launches were folded at *)
(* once: observe takes the old value from one moment and whether it is the *)
(* model's own from another.                                               *)
OwnMeasurements ==
    \A m \in Model : \A pair \in own[m] :
        /\ m \notin raced => Between(pair[2], MeasuredOf(m, pair[1]))
        /\ Between(pair[2], MeasuredOf(m, pair[1]) \cup {Prior})
=============================================================================

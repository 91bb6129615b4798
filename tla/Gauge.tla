-------------------------------- MODULE Gauge --------------------------------
(***************************************************************************)
(* gauge of stats.go: four atomic words shared by the goroutines that      *)
(* record values and by the Dogstatsd goroutine that harvests them at an   *)
(* interval.  Each word is atomic, the gauge is not: every atomic          *)
(* operation is a step of its own.                                         *)
(***************************************************************************)
EXTENDS Integers, FiniteSets

CONSTANTS
  Recorders,      \* the goroutines that call record
  Harvester,      \* the goroutine of exportDogstatsd
  Values,         \* what may be recorded
  MaxUint64,      \* the sentinel of min
  MaxRecords      \* bound: calls of record in an interval

ASSUME GaugeAssumption ==
  /\ Harvester \notin Recorders
  /\ Values \subseteq Nat
  /\ MaxUint64 \in Nat /\ \A v \in Values : v < MaxUint64
  /\ MaxRecords \in Nat

VARIABLES
  sum, count, min, max,  \* the atomic words
  pc,                    \* where each goroutine is
  val,                   \* the argument of its call of record
  old,                   \* what it loaded in the loop it is in
  snap,                  \* the gaugeSnapshot in the making
  sampled                \* exportDogstatsd records this gauge before it harvests it

gaugeVars == <<sum, count, min, max, pc, val, old, snap, sampled>>

Goroutines == Recorders \cup {Harvester}

RecordPcs == {"idle", "count", "loadMax", "casMax", "loadMin", "casMin"}
HarvestPcs == RecordPcs \cup {"swapSum", "swapCount", "swapMin", "swapMax", "export"}

EmptySnap == [sum |-> 0, count |-> 0, min |-> MaxUint64, max |-> 0]

Init ==
  /\ sum = 0 /\ count = 0 /\ min = MaxUint64 /\ max = 0
  /\ pc = [g \in Goroutines |-> "idle"]
  /\ val = [g \in Goroutines |-> 0]
  /\ old = [g \in Goroutines |-> 0]
  /\ snap = EmptySnap
  /\ sampled \in BOOLEAN

Goto(g, l) == pc' = [pc EXCEPT ![g] = l]

\* Where record returns to.
AfterRecord(g) == IF g = Harvester THEN "swapSum" ELSE "idle"

-----------------------------------------------------------------------------
\* record(v): g.sum.Add(val)
AddSum(g, v) ==
  /\ pc[g] = "idle"
  /\ sum' = sum + v
  /\ val' = [val EXCEPT ![g] = v]
  /\ Goto(g, "count")
  /\ UNCHANGED <<count, min, max, old, snap, sampled>>

\* g.count.Add(1)
AddCount(g) ==
  /\ pc[g] = "count"
  /\ count' = count + 1
  /\ Goto(g, "loadMax")
  /\ UNCHANGED <<sum, min, max, val, old, snap, sampled>>

\* What g loaded is dead once it leaves a loop, its argument at the end.
Forget(g) == old' = [old EXCEPT ![g] = 0]
Return(g) ==
  /\ Goto(g, AfterRecord(g))
  /\ val' = [val EXCEPT ![g] = 0]
  /\ Forget(g)

\* The loop over max: load it, leave if it is large enough.
LoadMax(g) ==
  /\ pc[g] = "loadMax"
  /\ IF val[g] <= max
     THEN Goto(g, "loadMin") /\ UNCHANGED old
     ELSE Goto(g, "casMax") /\ old' = [old EXCEPT ![g] = max]
  /\ UNCHANGED <<sum, count, min, max, val, snap, sampled>>

\* (mutant) the value is stored without a compare.
StoreMax(g) ==
  /\ pc[g] = "casMax"
  /\ max' = val[g]
  /\ Goto(g, "loadMin")
  /\ Forget(g)
  /\ UNCHANGED <<sum, count, min, val, snap, sampled>>

\* CompareAndSwap(old, val): leave if it succeeds, load again otherwise.
CasMax(g) ==
  /\ pc[g] = "casMax"
  /\ IF max = old[g]
     THEN max' = val[g] /\ Goto(g, "loadMin")
     ELSE Goto(g, "loadMax") /\ UNCHANGED max
  /\ Forget(g)
  /\ UNCHANGED <<sum, count, min, val, snap, sampled>>

\* The same for min, where record ends.
LoadMin(g) ==
  /\ pc[g] = "loadMin"
  /\ IF val[g] >= min
     THEN Return(g)
     ELSE /\ Goto(g, "casMin")
          /\ old' = [old EXCEPT ![g] = min]
          /\ UNCHANGED val
  /\ UNCHANGED <<sum, count, min, max, snap, sampled>>

\* (mutant) the value is stored without a compare.
StoreMin(g) ==
  /\ pc[g] = "casMin"
  /\ min' = val[g]
  /\ Return(g)
  /\ UNCHANGED <<sum, count, max, snap, sampled>>

CasMin(g) ==
  /\ pc[g] = "casMin"
  /\ IF min = old[g]
     THEN min' = val[g] /\ Return(g)
     ELSE Goto(g, "loadMin") /\ Forget(g) /\ UNCHANGED <<min, val>>
  /\ UNCHANGED <<sum, count, max, snap, sampled>>

RecordStep(g) ==
  AddCount(g) \/ LoadMax(g) \/ CasMax(g) \/ LoadMin(g) \/ CasMin(g)

-----------------------------------------------------------------------------
\* (mutant) the tick harvests a gauge without recording it.
TickHarvestAnyway ==
  /\ pc[Harvester] = "idle"
  /\ Goto(Harvester, "swapSum")
  /\ UNCHANGED <<sum, count, min, max, val, old, snap, sampled>>

\* The tick of exportDogstatsd for a gauge that it does not record itself.
TickHarvest ==
  /\ pc[Harvester] = "idle"
  /\ ~sampled
  /\ Goto(Harvester, "swapSum")
  /\ UNCHANGED <<sum, count, min, max, val, old, snap, sampled>>

\* harvest: each word is swapped with its initial value, one after the other.
SwapSum ==
  /\ pc[Harvester] = "swapSum"
  /\ sum' = 0
  /\ snap' = [snap EXCEPT !.sum = sum]
  /\ Goto(Harvester, "swapCount")
  /\ UNCHANGED <<count, min, max, val, old, sampled>>

\* (mutant) the count is read but not reset.
LoadCount ==
  /\ pc[Harvester] = "swapCount"
  /\ snap' = [snap EXCEPT !.count = count]
  /\ Goto(Harvester, "swapMin")
  /\ UNCHANGED <<sum, count, min, max, val, old, sampled>>

SwapCount ==
  /\ pc[Harvester] = "swapCount"
  /\ count' = 0
  /\ snap' = [snap EXCEPT !.count = count]
  /\ Goto(Harvester, "swapMin")
  /\ UNCHANGED <<sum, min, max, val, old, sampled>>

\* (mutant) min is reset to zero, as the other words are.
SwapMinToZero ==
  /\ pc[Harvester] = "swapMin"
  /\ min' = 0
  /\ snap' = [snap EXCEPT !.min = min]
  /\ Goto(Harvester, "swapMax")
  /\ UNCHANGED <<sum, count, max, val, old, sampled>>

SwapMin ==
  /\ pc[Harvester] = "swapMin"
  /\ min' = MaxUint64
  /\ snap' = [snap EXCEPT !.min = min]
  /\ Goto(Harvester, "swapMax")
  /\ UNCHANGED <<sum, count, max, val, old, sampled>>

SwapMax ==
  /\ pc[Harvester] = "swapMax"
  /\ max' = 0
  /\ snap' = [snap EXCEPT !.max = max]
  /\ Goto(Harvester, "export")
  /\ UNCHANGED <<sum, count, min, val, old, sampled>>

HarvestStep == TickHarvest \/ SwapSum \/ SwapCount \/ SwapMin \/ SwapMax

\* dogstatsdGauge skips a gauge whose min is the sentinel.
Skipped == snap.min = MaxUint64

\* harvest passes on no sum or count but their quotient, 0 for a count of 0.
Averaged == ~Skipped /\ snap.count > 0

\* dogstatsdGauge, which ends the tick for this gauge.
Export ==
  /\ pc[Harvester] = "export"
  /\ Goto(Harvester, "idle")
  /\ snap' = EmptySnap
  /\ UNCHANGED <<sum, count, min, max, val, old, sampled>>
=============================================================================

------------------------------ MODULE GaugeSpec ------------------------------
(***************************************************************************)
(* Goroutines that record values while the harvester exports, with the     *)
(* history that says what should have been exported.                       *)
(***************************************************************************)
EXTENDS Gauge

VARIABLES
  calls,        \* how often others called record in this interval
  unexported,   \* the sum and the number of what was recorded and not exported
  unharvested,  \* values whose record ended and whose max is not harvested yet
  apart,        \* the calls of record that no harvest has overlapped so far
  whole         \* the values of those that have returned in this interval

vars == <<gaugeVars, calls, unexported, unharvested, apart, whole>>

Words == [sum |-> sum, count |-> count]

SpecInit ==
  /\ Init
  /\ calls = 0
  /\ unexported = Words
  /\ unharvested = {} /\ apart = {} /\ whole = {}

\* The harvester records only if it is its turn to.
MayRecord(g) == g = Harvester => sampled

\* The harvester has begun to swap the words and not yet exported them.
InHarvest == pc[Harvester] \in {"swapCount", "swapMin", "swapMax", "export"}

Record(g) ==
  /\ MayRecord(g)
  /\ g \in Recorders => calls < MaxRecords
  /\ \E v \in Values :
       AddSum(g, v) /\ unexported' = [unexported EXCEPT !.sum = @ + v]
  /\ calls' = IF g = Harvester THEN calls ELSE calls + 1
  /\ apart' = IF InHarvest \/ g = Harvester THEN apart ELSE apart \cup {g}
  /\ UNCHANGED <<unharvested, whole>>

Recording(g) ==
  /\ RecordStep(g)
  /\ unexported' = [unexported EXCEPT !.count = @ + (IF pc[g] = "count" THEN 1 ELSE 0)]
  /\ unharvested' = IF pc[g] \in {"loadMax", "casMax"} /\ pc'[g] = "loadMin"
                    THEN unharvested \cup {val[g]} ELSE unharvested
  /\ IF g \in apart /\ pc'[g] = "idle"
     THEN whole' = whole \cup {val[g]} /\ apart' = apart \ {g}
     ELSE UNCHANGED <<whole, apart>>
  /\ UNCHANGED calls

Harvesting ==
  /\ HarvestStep
  /\ unharvested' = IF pc[Harvester] = "swapMax" THEN {} ELSE unharvested
  /\ apart' = {}
  /\ UNCHANGED <<calls, unexported, whole>>

\* What the snapshot of a sampled gauge has that is not exported stays in
\* unexported for ever.  A gauge of the other kind starts afresh: it may lose.
Exporting ==
  /\ Export
  /\ unexported' = IF sampled /\ ~Averaged
                   THEN unexported
                   ELSE [sum |-> unexported.sum - snap.sum,
                         count |-> unexported.count - snap.count]
  /\ calls' = 0
  /\ whole' = {}
  /\ UNCHANGED <<unharvested, apart>>

Next ==
  \/ \E g \in Goroutines : Record(g) \/ Recording(g)
  \/ Harvesting
  \/ Exporting

Spec == SpecInit /\ [][Next]_vars

-----------------------------------------------------------------------------
\* Every variable has its type.
TypeOK ==
  /\ sum \in Nat /\ count \in Nat
  /\ min \in Values \cup {MaxUint64}
  /\ max \in Values \cup {0}
  /\ pc \in [Goroutines -> HarvestPcs]
  /\ \A g \in Recorders : pc[g] \in RecordPcs
  /\ val \in [Goroutines -> Values \cup {0}]
  /\ old \in [Goroutines -> Values \cup {0, MaxUint64}]
  /\ sampled \in BOOLEAN
  /\ snap.min \in Values \cup {MaxUint64} /\ snap.max \in Values \cup {0}

\* Nothing recorded to a gauge that the harvester records itself is lost or
\* exported twice, although records run into the middle of harvests: what has
\* not reached Dogstatsd is in the words or in the snapshot.  Neither of the
\* ways to drop a snapshot, the sentinel and a count of zero, is ever taken.
Conserved ==
  sampled => unexported = [sum |-> snap.sum + sum, count |-> snap.count + count]

\* Nor is a record lost that no harvest overlaps, whether the harvester
\* records the gauge or not: it is exported with a count and between the min
\* and the max, whatever other records do.
WholeExported ==
  pc[Harvester] = "export" /\ whole # {} =>
    Averaged /\ \A v \in whole : snap.min <= v /\ v <= snap.max

\* The compare-and-swap loop loses no maximum: max covers each value whose
\* record has passed the loop since max was last harvested.
MaxCovers == \A v \in unharvested : v <= max

\* A gauge that the harvester records itself is exported at every interval.
AlwaysExported == sampled /\ pc[Harvester] = "export" => ~Skipped

\* "If min is still the sentinel, it means record() was never called this
\* interval": then nothing is in the sum and in the count that go with it.
SentinelMeansIdle ==
  pc[Harvester] = "export" /\ Skipped => snap.sum = 0 /\ snap.count = 0
=============================================================================

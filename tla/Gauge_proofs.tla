----------------------------- MODULE Gauge_proofs -----------------------------
(***************************************************************************)
(* What holds of a gauge for every number of goroutines that record while  *)
(* it is harvested, and for every set of values: each of its words is      *)
(* atomic, the gauge is not.                                               *)
(***************************************************************************)
EXTENDS GaugeSpec, TLAPS

Snapshot ==
  [sum : Nat, count : Nat, min : Values \cup {MaxUint64}, max : Values \cup {0}]

InRecord == {"count", "loadMax", "casMax", "loadMin", "casMin"}

(* The strengthening of TypeOK: a goroutine that is inside of record has   *)
(* the value it was called with.                                           *)
TypeInv ==
  /\ TypeOK
  /\ snap \in Snapshot
  /\ \A g \in Goroutines : pc[g] \in InRecord => val[g] \in Values

LEMMA InitTypeInv == SpecInit => TypeInv
<1> SUFFICES ASSUME SpecInit PROVE TypeInv
  OBVIOUS
<1>1. sampled \in BOOLEAN
  BY DEF SpecInit, Init
<1>2. snap \in Snapshot
  BY DEF SpecInit, Init, EmptySnap, Snapshot
<1>3. /\ sum \in Nat /\ count \in Nat /\ min \in Values \cup {MaxUint64}
      /\ max \in Values \cup {0}
      /\ val \in [Goroutines -> Values \cup {0}]
      /\ old \in [Goroutines -> Values \cup {0, MaxUint64}]
  BY DEF SpecInit, Init
<1>4. /\ pc \in [Goroutines -> HarvestPcs]
      /\ \A g \in Recorders : pc[g] \in RecordPcs
      /\ \A g \in Goroutines : pc[g] \notin InRecord
  BY DEF SpecInit, Init, HarvestPcs, RecordPcs, Goroutines, InRecord
<1>5. snap.min \in Values \cup {MaxUint64} /\ snap.max \in Values \cup {0}
  BY <1>2 DEF Snapshot
<1> QED BY <1>1, <1>2, <1>3, <1>4, <1>5 DEF TypeInv, TypeOK

LEMMA NextTypeInv == TypeInv /\ [Next]_vars => TypeInv'
<1> SUFFICES ASSUME TypeInv, [Next]_vars PROVE TypeInv'
  OBVIOUS
<1>a. /\ Harvester \in Goroutines /\ Recorders \subseteq Goroutines /\ Harvester \notin Recorders
      /\ \A g \in Goroutines : g \in Recorders \/ g = Harvester
      /\ Values \subseteq Nat
  BY GaugeAssumption DEF Goroutines
<1>b. /\ sum \in Nat /\ count \in Nat
      /\ min \in Values \cup {MaxUint64} /\ max \in Values \cup {0}
      /\ pc \in [Goroutines -> HarvestPcs]
      /\ \A g \in Recorders : pc[g] \in RecordPcs
      /\ val \in [Goroutines -> Values \cup {0}]
      /\ old \in [Goroutines -> Values \cup {0, MaxUint64}]
      /\ snap \in Snapshot
      /\ \A g \in Goroutines : pc[g] \in InRecord => val[g] \in Values
  BY DEF TypeInv, TypeOK
(* The conditions that concern the words, the snapshot and the places.     *)
<1>c. ASSUME sum' \in Nat, count' \in Nat,
             min' \in Values \cup {MaxUint64}, max' \in Values \cup {0},
             pc' \in [Goroutines -> HarvestPcs],
             \A g \in Recorders : pc'[g] \in RecordPcs,
             val' \in [Goroutines -> Values \cup {0}],
             old' \in [Goroutines -> Values \cup {0, MaxUint64}],
             snap' \in Snapshot, sampled' = sampled,
             \A g \in Goroutines : pc'[g] \in InRecord => val'[g] \in Values
      PROVE  TypeInv'
  <2>1. sampled' \in BOOLEAN
    BY <1>c DEF TypeInv, TypeOK
  <2>2. snap'.min \in Values \cup {MaxUint64} /\ snap'.max \in Values \cup {0}
    BY <1>c DEF Snapshot
  <2> QED BY <1>c, <2>1, <2>2 DEF TypeInv, TypeOK
(* A goroutine goes on within record.                                      *)
<1>d. ASSUME NEW g \in Goroutines, NEW l \in RecordPcs, Goto(g, l)
      PROVE  /\ pc' \in [Goroutines -> HarvestPcs]
             /\ \A h \in Recorders : pc'[h] \in RecordPcs
             /\ \A h \in Goroutines \ {g} : pc'[h] = pc[h]
             /\ pc'[g] = l
  BY <1>a, <1>b, <1>d DEF Goto, HarvestPcs
<1>e. ASSUME NEW g \in Goroutines, Return(g)
      PROVE  /\ pc' \in [Goroutines -> HarvestPcs]
             /\ \A h \in Recorders : pc'[h] \in RecordPcs
             /\ val' \in [Goroutines -> Values \cup {0}]
             /\ old' \in [Goroutines -> Values \cup {0, MaxUint64}]
             /\ \A h \in Goroutines : pc'[h] \in InRecord => val'[h] \in Values
  <2>1. /\ pc' = [pc EXCEPT ![g] = AfterRecord(g)]
        /\ val' = [val EXCEPT ![g] = 0] /\ old' = [old EXCEPT ![g] = 0]
    BY <1>e DEF Return, Goto, Forget
  <2>2. /\ AfterRecord(g) \in HarvestPcs /\ AfterRecord(g) \notin InRecord
        /\ g \in Recorders => AfterRecord(g) \in RecordPcs
    BY <1>a DEF AfterRecord, HarvestPcs, RecordPcs, InRecord
  <2> QED BY <1>a, <1>b, <2>1, <2>2
<1>1. ASSUME NEW g \in Goroutines, Record(g) PROVE TypeInv'
  <2>1. PICK v \in Values : AddSum(g, v)
    BY <1>1 DEF Record
  <2>2. /\ sum' = sum + v /\ val' = [val EXCEPT ![g] = v] /\ Goto(g, "count")
        /\ UNCHANGED <<count, min, max, old, snap, sampled>>
    BY <2>1 DEF AddSum
  <2>3. sum' \in Nat /\ val' \in [Goroutines -> Values \cup {0}] /\ "count" \in RecordPcs
    BY <1>a, <1>b, <2>2 DEF RecordPcs
  <2>4. \A h \in Goroutines : pc'[h] \in InRecord => val'[h] \in Values
    BY <1>b, <1>d, <2>2, <2>3
  <2> QED BY <1>b, <1>c, <1>d, <2>2, <2>3, <2>4
<1>2. ASSUME NEW g \in Goroutines, Recording(g) PROVE TypeInv'
  <2>1. CASE AddCount(g)
    <3>1. /\ pc[g] = "count" /\ count' = count + 1 /\ Goto(g, "loadMax")
          /\ UNCHANGED <<sum, min, max, val, old, snap, sampled>>
      BY <2>1 DEF AddCount
    <3>2. count' \in Nat /\ "loadMax" \in RecordPcs /\ val[g] \in Values
      BY <1>b, <3>1 DEF RecordPcs, InRecord
    <3>3. \A h \in Goroutines : pc'[h] \in InRecord => val'[h] \in Values
      BY <1>b, <1>d, <3>1, <3>2
    <3> QED BY <1>b, <1>c, <1>d, <3>1, <3>2, <3>3
  <2>2. CASE LoadMax(g)
    <3>1. PICK l \in {"loadMin", "casMax"} :
            /\ pc[g] = "loadMax" /\ Goto(g, l)
            /\ UNCHANGED old \/ old' = [old EXCEPT ![g] = max]
            /\ UNCHANGED <<sum, count, min, max, val, snap, sampled>>
      BY <2>2 DEF LoadMax
    <3>2. l \in RecordPcs /\ val[g] \in Values /\ old' \in [Goroutines -> Values \cup {0, MaxUint64}]
      BY <1>b, <3>1 DEF RecordPcs, InRecord
    <3>3. \A h \in Goroutines : pc'[h] \in InRecord => val'[h] \in Values
      BY <1>b, <1>d, <3>1, <3>2
    <3> QED BY <1>b, <1>c, <1>d, <3>1, <3>2, <3>3
  <2>3. CASE CasMax(g)
    <3>1. PICK l \in {"loadMin", "loadMax"} :
            /\ pc[g] = "casMax" /\ Goto(g, l)
            /\ max' = val[g] \/ UNCHANGED max
            /\ old' = [old EXCEPT ![g] = 0]
            /\ UNCHANGED <<sum, count, min, val, snap, sampled>>
      BY <2>3 DEF CasMax, Forget
    <3>2. /\ l \in RecordPcs /\ val[g] \in Values /\ max' \in Values \cup {0}
          /\ old' \in [Goroutines -> Values \cup {0, MaxUint64}]
      BY <1>b, <3>1 DEF RecordPcs, InRecord
    <3>3. \A h \in Goroutines : pc'[h] \in InRecord => val'[h] \in Values
      BY <1>b, <1>d, <3>1, <3>2
    <3> QED BY <1>b, <1>c, <1>d, <3>1, <3>2, <3>3
  <2>4. CASE LoadMin(g)
    <3>1. /\ pc[g] = "loadMin" /\ val[g] \in Values
          /\ UNCHANGED <<sum, count, min, max, snap, sampled>>
          /\ \/ Return(g)
             \/ Goto(g, "casMin") /\ old' = [old EXCEPT ![g] = min] /\ UNCHANGED val
      BY <2>4, <1>b DEF LoadMin, InRecord
    <3>2. CASE Return(g)
      BY <1>b, <1>c, <1>e, <3>1, <3>2
    <3>3. CASE Goto(g, "casMin") /\ old' = [old EXCEPT ![g] = min] /\ UNCHANGED val
      <4>1. "casMin" \in RecordPcs /\ old' \in [Goroutines -> Values \cup {0, MaxUint64}]
        BY <1>b, <3>3 DEF RecordPcs
      <4>2. \A h \in Goroutines : pc'[h] \in InRecord => val'[h] \in Values
        BY <1>b, <1>d, <3>1, <3>3, <4>1
      <4> QED BY <1>b, <1>c, <1>d, <3>1, <3>3, <4>1, <4>2
    <3> QED BY <3>1, <3>2, <3>3
  <2>5. CASE CasMin(g)
    <3>1. /\ pc[g] = "casMin" /\ val[g] \in Values
          /\ UNCHANGED <<sum, count, max, snap, sampled>>
          /\ \/ min' = val[g] /\ Return(g)
             \/ Goto(g, "loadMin") /\ old' = [old EXCEPT ![g] = 0] /\ UNCHANGED <<min, val>>
      BY <2>5, <1>b DEF CasMin, Forget, InRecord
    <3>2. CASE min' = val[g] /\ Return(g)
      BY <1>b, <1>c, <1>e, <3>1, <3>2
    <3>3. CASE Goto(g, "loadMin") /\ old' = [old EXCEPT ![g] = 0] /\ UNCHANGED <<min, val>>
      <4>1. "loadMin" \in RecordPcs /\ old' \in [Goroutines -> Values \cup {0, MaxUint64}]
        BY <1>b, <3>3 DEF RecordPcs
      <4>2. \A h \in Goroutines : pc'[h] \in InRecord => val'[h] \in Values
        BY <1>b, <1>d, <3>1, <3>3, <4>1
      <4> QED BY <1>b, <1>c, <1>d, <3>1, <3>3, <4>1, <4>2
    <3> QED BY <3>1, <3>2, <3>3
  <2> QED BY <1>2, <2>1, <2>2, <2>3, <2>4, <2>5 DEF Recording, RecordStep
<1>3. CASE Harvesting \/ Exporting
  <2>1. PICK l \in {"swapSum", "swapCount", "swapMin", "swapMax", "export", "idle"} :
          Goto(Harvester, l)
    BY <1>3 DEF Harvesting, HarvestStep, Exporting, TickHarvest, SwapSum, SwapCount, SwapMin,
                SwapMax, Export
  <2>2. UNCHANGED <<val, old, sampled>>
    BY <1>3 DEF Harvesting, HarvestStep, Exporting, TickHarvest, SwapSum, SwapCount, SwapMin,
                SwapMax, Export
  <2>3. /\ pc' \in [Goroutines -> HarvestPcs]
        /\ \A h \in Recorders : pc'[h] \in RecordPcs
        /\ \A h \in Goroutines : pc'[h] \in InRecord => val'[h] \in Values
    BY <1>a, <1>b, <2>1, <2>2 DEF Goto, HarvestPcs, RecordPcs, InRecord
  <2>4. sum' \in Nat /\ count' \in Nat
    BY <1>3, <1>b DEF Harvesting, HarvestStep, Exporting, TickHarvest, SwapSum, SwapCount,
                      SwapMin, SwapMax, Export
  <2>5. min' \in Values \cup {MaxUint64} /\ max' \in Values \cup {0}
    BY <1>3, <1>b DEF Harvesting, HarvestStep, Exporting, TickHarvest, SwapSum, SwapCount,
                      SwapMin, SwapMax, Export
  <2>6. snap' \in Snapshot
    <3>1. CASE TickHarvest
      BY <3>1, <1>b DEF TickHarvest
    <3>2. CASE SwapSum
      BY <3>2, <1>b DEF SwapSum, Snapshot
    <3>3. CASE SwapCount
      BY <3>3, <1>b DEF SwapCount, Snapshot
    <3>4. CASE SwapMin
      BY <3>4, <1>b DEF SwapMin, Snapshot
    <3>5. CASE SwapMax
      BY <3>5, <1>b DEF SwapMax, Snapshot
    <3>6. CASE Export
      BY <3>6 DEF Export, EmptySnap, Snapshot
    <3> QED BY <1>3, <3>1, <3>2, <3>3, <3>4, <3>5, <3>6 DEF Harvesting, HarvestStep, Exporting
  <2> QED BY <1>c, <2>2, <2>3, <2>4, <2>5, <2>6, <1>b
<1>4. CASE UNCHANGED vars
  BY <1>4 DEF vars, gaugeVars, TypeInv, TypeOK
<1> QED BY <1>1, <1>2, <1>3, <1>4 DEF Next

(* The words, the snapshot and what each goroutine is at keep their types: *)
(* min is never anything but a recorded value or the sentinel.             *)
THEOREM TypeCorrect == Spec => []TypeOK
<1>1. TypeInv => TypeOK
  BY DEF TypeInv
<1> QED BY <1>1, InitTypeInv, NextTypeInv, PTL DEF Spec

LEMMA TypeInvariant == Spec => []TypeInv
BY InitTypeInv, NextTypeInv, PTL DEF Spec

-----------------------------------------------------------------------------
(* A compare-and-swap of max only ever raises it.                          *)
MaxInv ==
  /\ MaxCovers
  /\ unharvested \in SUBSET Nat
  /\ \A g \in Goroutines : pc[g] = "casMax" => old[g] < val[g]

LEMMA NextMaxCovers == TypeInv /\ MaxInv /\ [Next]_vars => MaxInv'
<1> SUFFICES ASSUME TypeInv, MaxInv, [Next]_vars PROVE MaxInv'
  OBVIOUS
<1>a. /\ Values \subseteq Nat /\ max \in Nat
      /\ pc \in [Goroutines -> HarvestPcs]
      /\ val \in [Goroutines -> Nat]
      /\ old \in [Goroutines -> Nat]
      /\ Harvester \in Goroutines
  <2>1. Values \subseteq Nat /\ MaxUint64 \in Nat
    BY GaugeAssumption
  <2>2. /\ max \in Values \cup {0}
        /\ pc \in [Goroutines -> HarvestPcs]
        /\ val \in [Goroutines -> Values \cup {0}]
        /\ old \in [Goroutines -> Values \cup {0, MaxUint64}]
    BY DEF TypeInv, TypeOK
  <2>3. Values \cup {0} \subseteq Nat /\ Values \cup {0, MaxUint64} \subseteq Nat
    BY <2>1
  <2>4. \A S : S \subseteq Nat => [Goroutines -> S] \subseteq [Goroutines -> Nat]
    OBVIOUS
  <2>5. val \in [Goroutines -> Nat] /\ old \in [Goroutines -> Nat]
    BY <2>2, <2>3, <2>4
  <2>6. Harvester \in Goroutines
    BY DEF Goroutines
  <2> QED BY <2>1, <2>2, <2>3, <2>5, <2>6
<1>b. /\ \A v \in unharvested : v <= max
      /\ unharvested \in SUBSET Nat
      /\ \A g \in Goroutines : pc[g] = "casMax" => old[g] < val[g]
  BY DEF MaxInv, MaxCovers
<1> USE DEF MaxInv, MaxCovers, Goto
<1>1. ASSUME NEW g \in Goroutines, Record(g) PROVE MaxInv'
  <2>1. PICK v \in Values : AddSum(g, v)
    BY <1>1 DEF Record
  <2>2. /\ pc' = [pc EXCEPT ![g] = "count"] /\ val' = [val EXCEPT ![g] = v]
        /\ UNCHANGED <<old, max, unharvested>>
    BY <1>1, <2>1 DEF AddSum, Record
  <2>3. \A h \in Goroutines : pc'[h] = "casMax" => old'[h] < val'[h]
    BY <1>a, <1>b, <2>2
  <2> QED BY <1>b, <2>2, <2>3
(* Inside of record, except when max is compared and swapped.              *)
<1>2. ASSUME NEW g \in Goroutines, Recording(g), pc[g] \notin {"loadMax", "casMax"}
      PROVE  MaxInv'
  <2>1. unharvested' = unharvested
    BY <1>2 DEF Recording
  <2>2. max' = max
    BY <1>2 DEF Recording, RecordStep, AddCount, LoadMax, CasMax, LoadMin, CasMin
  <2>3. \A h \in Goroutines \ {g} : pc'[h] = pc[h] /\ old'[h] = old[h] /\ val'[h] = val[h]
    BY <1>2, <1>a DEF Recording, RecordStep, AddCount, LoadMax, CasMax, LoadMin, CasMin,
                      Return, Forget
  <2>4. pc'[g] # "casMax"
    BY <1>2, <1>a DEF Recording, RecordStep, AddCount, LoadMax, CasMax, LoadMin, CasMin,
                      Return, Forget, AfterRecord
  <2> QED BY <1>b, <2>1, <2>2, <2>3, <2>4
<1>3. ASSUME NEW g \in Goroutines, Recording(g), pc[g] = "loadMax" PROVE MaxInv'
  <2>1. /\ LoadMax(g)
        /\ unharvested' = IF pc'[g] = "loadMin" THEN unharvested \cup {val[g]} ELSE unharvested
    BY <1>3 DEF Recording, RecordStep, AddCount, LoadMax, CasMax, LoadMin, CasMin
  <2>2. max' = max /\ val' = val /\ val[g] \in Nat
    BY <1>a, <2>1 DEF LoadMax
  <2>3. CASE val[g] <= max
    <3>1. pc' = [pc EXCEPT ![g] = "loadMin"] /\ old' = old
      BY <2>1, <2>3 DEF LoadMax
    <3>2. unharvested' = unharvested \cup {val[g]}
      BY <1>a, <2>1, <3>1
    <3>3. \A h \in Goroutines : pc'[h] = "casMax" => old'[h] < val'[h]
      BY <1>a, <1>b, <2>2, <3>1
    <3> QED BY <1>b, <2>2, <2>3, <3>2, <3>3
  <2>4. CASE ~(val[g] <= max)
    <3>1. pc' = [pc EXCEPT ![g] = "casMax"] /\ old' = [old EXCEPT ![g] = max]
      BY <2>1, <2>4 DEF LoadMax
    <3>2. unharvested' = unharvested
      BY <1>a, <2>1, <3>1
    <3>3. old'[g] < val'[g]
      BY <1>a, <2>2, <2>4, <3>1
    <3>4. \A h \in Goroutines : pc'[h] = "casMax" => old'[h] < val'[h]
      BY <1>a, <1>b, <2>2, <3>1, <3>3
    <3> QED BY <1>b, <2>2, <3>2, <3>4
  <2> QED BY <2>3, <2>4
<1>4. ASSUME NEW g \in Goroutines, Recording(g), pc[g] = "casMax" PROVE MaxInv'
  <2>1. /\ CasMax(g)
        /\ unharvested' = IF pc'[g] = "loadMin" THEN unharvested \cup {val[g]} ELSE unharvested
    BY <1>4 DEF Recording, RecordStep, AddCount, LoadMax, CasMax, LoadMin, CasMin
  <2>2. /\ val' = val /\ val[g] \in Nat /\ old[g] \in Nat /\ old[g] < val[g]
        /\ old' = [old EXCEPT ![g] = 0]
    BY <1>4, <1>a, <1>b, <2>1 DEF CasMax, Forget
  <2>3. \A h \in Goroutines : pc'[h] = "casMax" => old'[h] < val'[h]
    BY <1>a, <1>b, <2>1, <2>2 DEF CasMax
  <2>4. CASE max = old[g]
    <3>1. max' = val[g] /\ pc' = [pc EXCEPT ![g] = "loadMin"]
      BY <2>1, <2>4 DEF CasMax
    <3>2. unharvested' = unharvested \cup {val[g]} /\ max < max'
      BY <1>a, <2>1, <2>2, <2>4, <3>1
    <3>3. \A v \in unharvested : v \in Nat /\ v <= max
      BY <1>b
    <3>4. \A v \in unharvested' : v <= max'
      BY <1>a, <2>2, <3>1, <3>2, <3>3
    <3> QED BY <1>b, <2>2, <2>3, <3>2, <3>4
  <2>5. CASE max # old[g]
    <3>1. max' = max /\ pc' = [pc EXCEPT ![g] = "loadMax"]
      BY <2>1, <2>5 DEF CasMax
    <3>2. unharvested' = unharvested
      BY <1>a, <2>1, <3>1
    <3> QED BY <1>b, <2>3, <3>1, <3>2
  <2> QED BY <2>4, <2>5
<1>5. CASE Harvesting \/ Exporting
  <2>1. /\ UNCHANGED <<val, old>>
        /\ \E l : l # "casMax" /\ pc' = [pc EXCEPT ![Harvester] = l]
    BY <1>5 DEF Harvesting, HarvestStep, Exporting, TickHarvest, SwapSum, SwapCount, SwapMin,
                SwapMax, Export
  <2>2. \A h \in Goroutines : pc'[h] = "casMax" => old'[h] < val'[h]
    BY <1>a, <1>b, <2>1
  <2>3. unharvested' = {} \/ (unharvested' = unharvested /\ max' = max)
    BY <1>5 DEF Harvesting, HarvestStep, Exporting, TickHarvest, SwapSum, SwapCount, SwapMin,
                SwapMax, Export
  <2> QED BY <1>b, <2>2, <2>3
<1>6. CASE UNCHANGED vars
  BY <1>6 DEF vars, gaugeVars
<1> QED BY <1>1, <1>2, <1>3, <1>4, <1>5, <1>6 DEF Next

(* The compare-and-swap loop loses no maximum.                             *)
THEOREM MaximumCovers == Spec => []MaxCovers
<1>1. SpecInit => MaxInv
  BY DEF SpecInit, Init, MaxInv, MaxCovers
<1>2. MaxInv => MaxCovers
  BY DEF MaxInv
<1> QED BY <1>1, <1>2, TypeInvariant, NextMaxCovers, PTL DEF Spec

-----------------------------------------------------------------------------
(* A gauge that the harvester records itself: from the end of its record   *)
(* until min is swapped min is not the sentinel, whatever the others do,   *)
(* and afterwards the snapshot's is not.                                   *)
SampledInv ==
  sampled => /\ pc[Harvester] \in {"swapSum", "swapCount", "swapMin"} => min # MaxUint64
             /\ pc[Harvester] \in {"swapMax", "export"} => snap.min # MaxUint64

LEMMA NextSampledInv == TypeInv /\ SampledInv /\ [Next]_vars => SampledInv'
<1> SUFFICES ASSUME TypeInv, SampledInv, [Next]_vars PROVE SampledInv'
  OBVIOUS
<1>a. /\ Harvester \in Goroutines /\ pc \in [Goroutines -> HarvestPcs]
      /\ \A v \in Values : v \in Nat /\ v < MaxUint64 /\ v # MaxUint64
      /\ MaxUint64 \in Nat /\ min \in Values \cup {MaxUint64}
      /\ snap \in Snapshot
      /\ \A g \in Goroutines : pc[g] \in InRecord => val[g] \in Values
  BY GaugeAssumption DEF TypeInv, TypeOK, Goroutines
<1> USE DEF SampledInv, Goto
(* What others do between: they may lower min.                             *)
<1>1. ASSUME min' = min \/ min' \in Values, pc'[Harvester] = pc[Harvester],
             UNCHANGED <<snap, sampled>>
      PROVE  SampledInv'
  BY <1>1, <1>a
<1>2. ASSUME NEW l, l \notin {"swapSum", "swapCount", "swapMin", "swapMax", "export"},
             pc'[Harvester] = l
      PROVE  SampledInv'
  BY <1>2
<1>3. ASSUME NEW g \in Goroutines, Record(g) PROVE SampledInv'
  <2>1. /\ pc' = [pc EXCEPT ![g] = "count"] /\ UNCHANGED <<min, snap, sampled>>
    BY <1>3 DEF Record, AddSum
  <2>2. CASE g = Harvester
    <3>1. pc'[Harvester] = "count"
      BY <2>1, <2>2, <1>a
    <3> QED BY <3>1, <1>2
  <2>3. CASE g # Harvester
    <3>1. pc'[Harvester] = pc[Harvester]
      BY <2>1, <2>3, <1>a
    <3> QED BY <2>1, <3>1, <1>1
  <2> QED BY <2>2, <2>3
<1>4. ASSUME NEW g \in Goroutines, Recording(g), g # Harvester PROVE SampledInv'
  <2>1. pc'[Harvester] = pc[Harvester] /\ UNCHANGED <<snap, sampled>>
    BY <1>4, <1>a DEF Recording, RecordStep, AddCount, LoadMax, CasMax, LoadMin, CasMin, Return
  <2>2. pc[g] = "casMin" => val[g] \in Values
    BY <1>a DEF InRecord
  <2>3. min' = min \/ min' \in Values
    BY <1>4, <2>2 DEF Recording, RecordStep, AddCount, LoadMax, CasMax, LoadMin, CasMin
  <2> QED BY <2>1, <2>3, <1>1
<1>5. CASE Recording(Harvester)
  <2>1. CASE AddCount(Harvester) \/ LoadMax(Harvester) \/ CasMax(Harvester)
    <3>1. pc'[Harvester] \in {"loadMax", "loadMin", "casMax"}
      BY <2>1, <1>a DEF AddCount, LoadMax, CasMax
    <3> QED BY <3>1, <1>2
  <2>2. CASE LoadMin(Harvester)
    <3>1. pc[Harvester] = "loadMin" /\ val[Harvester] \in Values
      BY <2>2, <1>a DEF LoadMin, InRecord
    <3>2. CASE val[Harvester] >= min
      <4>1. min # MaxUint64
        BY <3>1, <3>2, <1>a
      <4>2. pc'[Harvester] = "swapSum" /\ min' = min
        BY <2>2, <3>2, <1>a DEF LoadMin, Return, AfterRecord
      <4> QED BY <4>1, <4>2
    <3>3. CASE ~(val[Harvester] >= min)
      <4>1. pc'[Harvester] = "casMin"
        BY <2>2, <3>3, <1>a DEF LoadMin
      <4> QED BY <4>1, <1>2
    <3> QED BY <3>2, <3>3
  <2>3. CASE CasMin(Harvester)
    <3>1. pc[Harvester] = "casMin" /\ val[Harvester] \in Values
      BY <2>3, <1>a DEF CasMin, InRecord
    <3>2. CASE min = old[Harvester]
      <4>1. pc'[Harvester] = "swapSum" /\ min' = val[Harvester]
        BY <2>3, <3>2, <1>a DEF CasMin, Return, AfterRecord
      <4> QED BY <3>1, <4>1, <1>a
    <3>3. CASE min # old[Harvester]
      <4>1. pc'[Harvester] = "loadMin"
        BY <2>3, <3>3, <1>a DEF CasMin
      <4> QED BY <4>1, <1>2
    <3> QED BY <3>2, <3>3
  <2> QED BY <1>5, <2>1, <2>2, <2>3 DEF Recording, RecordStep
<1>6. CASE Harvesting
  <2>1. CASE TickHarvest
    BY <2>1 DEF TickHarvest
  <2>2. CASE SwapSum
    BY <2>2, <1>a DEF SwapSum
  <2>3. CASE SwapCount
    BY <2>3, <1>a DEF SwapCount
  <2>4. CASE SwapMin
    <3>1. /\ pc[Harvester] = "swapMin" /\ pc'[Harvester] = "swapMax"
          /\ snap' = [snap EXCEPT !.min = min] /\ sampled' = sampled
      BY <2>4, <1>a DEF SwapMin
    <3>2. snap'.min = min
      BY <3>1, <1>a DEF Snapshot
    <3> QED BY <3>1, <3>2
  <2>5. CASE SwapMax
    <3>1. /\ pc[Harvester] = "swapMax" /\ pc'[Harvester] = "export"
          /\ snap' = [snap EXCEPT !.max = max] /\ sampled' = sampled
      BY <2>5, <1>a DEF SwapMax
    <3>2. snap'.min = snap.min
      BY <3>1, <1>a DEF Snapshot
    <3> QED BY <3>1, <3>2
  <2> QED BY <1>6, <2>1, <2>2, <2>3, <2>4, <2>5 DEF Harvesting, HarvestStep
<1>7. CASE Exporting
  <2>1. pc'[Harvester] = "idle"
    BY <1>7, <1>a DEF Exporting, Export
  <2> QED BY <2>1, <1>2
<1>8. CASE UNCHANGED vars
  BY <1>8 DEF vars, gaugeVars
<1> QED BY <1>3, <1>4, <1>5, <1>6, <1>7, <1>8 DEF Next

(* A gauge that the harvester records itself is exported at every interval. *)
THEOREM SampledExported == Spec => []AlwaysExported
<1>1. SpecInit => SampledInv
  BY DEF SpecInit, Init, SampledInv, Goroutines
<1>2. SampledInv => AlwaysExported
  BY DEF SampledInv, AlwaysExported, Skipped
<1> QED BY <1>1, <1>2, TypeInvariant, NextSampledInv, PTL DEF Spec

-----------------------------------------------------------------------------
(* The snapshot is empty of what has not been swapped yet.                 *)
SnapEmpty ==
  /\ ~InHarvest => snap.sum = 0
  /\ pc[Harvester] \notin {"swapMin", "swapMax", "export"} => snap.count = 0

(* A gauge that the harvester records itself: its own record is counted    *)
(* before it harvests.                                                     *)
SampledCounted ==
  sampled =>
    /\ pc[Harvester] \in {"loadMax", "casMax", "loadMin", "casMin", "swapSum", "swapCount"}
         => count > 0
    /\ pc[Harvester] \in {"swapMin", "swapMax", "export"} => snap.count > 0

Account == [sum : Int, count : Int]

ConservedInv == Conserved /\ unexported \in Account /\ SnapEmpty /\ SampledCounted

(* Each word is changed by an atomic operation together with its account,  *)
(* and nothing of a sampled gauge is dropped at the export.                *)
LEMMA NextConserved ==
  TypeInv /\ SampledInv /\ ConservedInv /\ [Next]_vars => ConservedInv'
<1> SUFFICES ASSUME TypeInv, SampledInv, ConservedInv, [Next]_vars PROVE ConservedInv'
  OBVIOUS
<1>a. /\ sum \in Nat /\ count \in Nat /\ Values \subseteq Nat
      /\ pc \in [Goroutines -> HarvestPcs] /\ Harvester \in Goroutines
      /\ snap \in Snapshot /\ snap.sum \in Nat /\ snap.count \in Nat
      /\ unexported \in Account /\ unexported.sum \in Int /\ unexported.count \in Int
  BY GaugeAssumption DEF TypeInv, TypeOK, ConservedInv, Goroutines, Snapshot, Account
<1>b. sampled => unexported.sum = snap.sum + sum /\ unexported.count = snap.count + count
  BY DEF ConservedInv, Conserved
<1>c. ASSUME NEW x, NEW y, x \in Account, y \in Account, x.sum = y.sum, x.count = y.count
      PROVE  x = y
  BY <1>c DEF Account
<1>d. SnapEmpty /\ SampledCounted
  BY DEF ConservedInv
(* It is enough to compare the two accounts by their fields.               *)
<1>e. ASSUME unexported' \in Account, snap' \in Snapshot, sum' \in Nat, count' \in Nat,
             sampled' => /\ unexported'.sum = snap'.sum + sum'
                         /\ unexported'.count = snap'.count + count',
             SnapEmpty', SampledCounted'
      PROVE  ConservedInv'
  <2>1. [sum |-> snap'.sum + sum', count |-> snap'.count + count'] \in Account
    BY <1>e DEF Account, Snapshot
  <2>2. Conserved'
    BY <1>c, <1>e, <2>1 DEF Conserved
  <2> QED BY <1>e, <2>2 DEF ConservedInv
<1>1. ASSUME NEW g \in Goroutines, Record(g) PROVE ConservedInv'
  <2>1. PICK v \in Values : AddSum(g, v) /\ unexported' = [unexported EXCEPT !.sum = @ + v]
    BY <1>1 DEF Record
  <2>2. /\ unexported'.sum = unexported.sum + v /\ unexported'.count = unexported.count
        /\ unexported' \in Account
    BY <1>a, <2>1 DEF Account
  <2>3. /\ pc[g] = "idle" /\ pc' = [pc EXCEPT ![g] = "count"] /\ sum' = sum + v
        /\ UNCHANGED <<count, snap, sampled>>
    BY <2>1 DEF AddSum, Goto
  <2>4. pc'[Harvester] = pc[Harvester] \/ (pc[Harvester] = "idle" /\ pc'[Harvester] = "count")
    BY <1>a, <2>3
  <2>5. SnapEmpty' /\ SampledCounted'
    BY <1>d, <2>3, <2>4 DEF SnapEmpty, SampledCounted, InHarvest
  <2> QED BY <1>a, <1>b, <1>e, <2>2, <2>3, <2>5
<1>2. ASSUME NEW g \in Goroutines, Recording(g) PROVE ConservedInv'
  <2>1. unexported' = [unexported EXCEPT !.count = @ + (IF pc[g] = "count" THEN 1 ELSE 0)]
    BY <1>2 DEF Recording
  <2>2. /\ unexported'.sum = unexported.sum
        /\ unexported'.count = unexported.count + (IF pc[g] = "count" THEN 1 ELSE 0)
        /\ unexported' \in Account
    BY <1>a, <2>1 DEF Account
  <2>3. /\ sum' = sum /\ count' = count + (IF pc[g] = "count" THEN 1 ELSE 0)
        /\ UNCHANGED <<snap, sampled>>
    BY <1>2, <1>a DEF Recording, RecordStep, AddCount, LoadMax, CasMax, LoadMin, CasMin, Return
  <2>4. CASE g # Harvester
    <3>1. pc'[Harvester] = pc[Harvester]
      BY <1>2, <1>a, <2>4 DEF Recording, RecordStep, AddCount, LoadMax, CasMax, LoadMin, CasMin,
                              Return, Goto
    <3>2. SnapEmpty' /\ SampledCounted'
      BY <1>a, <1>d, <2>3, <3>1 DEF SnapEmpty, SampledCounted, InHarvest
    <3> QED BY <1>a, <1>b, <1>e, <2>2, <2>3, <3>2
  <2>5. CASE g = Harvester
    <3>1. /\ pc[Harvester] \in InRecord
          /\ pc'[Harvester] \in {"loadMax", "casMax", "loadMin", "casMin", "swapSum"}
      BY <1>2, <1>a, <2>5 DEF Recording, RecordStep, AddCount, LoadMax, CasMax, LoadMin, CasMin,
                              Return, Goto, AfterRecord, InRecord
    <3>2. SnapEmpty'
      BY <1>d, <2>3, <3>1 DEF SnapEmpty, InHarvest, InRecord
    <3>3. sampled => count' > 0
      BY <1>a, <1>d, <2>3, <2>5, <3>1 DEF SampledCounted, InRecord
    <3>4. SampledCounted'
      BY <2>3, <3>1, <3>3 DEF SampledCounted
    <3> QED BY <1>a, <1>b, <1>e, <2>2, <2>3, <3>2, <3>4
  <2> QED BY <2>4, <2>5
<1>3. CASE Harvesting
  <2>1. unexported' = unexported
    BY <1>3 DEF Harvesting
  <2>2. CASE TickHarvest
    <3>1. /\ pc[Harvester] = "idle" /\ pc'[Harvester] = "swapSum" /\ ~sampled
          /\ UNCHANGED <<sum, count, snap, sampled>>
      BY <2>2, <1>a DEF TickHarvest, Goto
    <3>2. SnapEmpty' /\ SampledCounted'
      BY <1>d, <3>1 DEF SnapEmpty, SampledCounted, InHarvest
    <3> QED BY <1>a, <1>b, <1>e, <2>1, <3>1, <3>2
  <2>3. CASE SwapSum
    <3>1. /\ pc[Harvester] = "swapSum" /\ pc'[Harvester] = "swapCount" /\ sum' = 0
          /\ snap' = [snap EXCEPT !.sum = sum] /\ UNCHANGED <<count, sampled>>
      BY <2>3, <1>a DEF SwapSum, Goto
    <3>2. /\ snap' \in Snapshot /\ snap'.sum = sum /\ snap'.count = snap.count
          /\ snap.sum = 0
      BY <1>a, <1>d, <3>1 DEF Snapshot, SnapEmpty, InHarvest
    <3>3. SnapEmpty' /\ SampledCounted'
      BY <1>d, <3>1, <3>2 DEF SnapEmpty, SampledCounted, InHarvest
    <3> QED BY <1>a, <1>b, <1>e, <2>1, <3>1, <3>2, <3>3
  <2>4. CASE SwapCount
    <3>1. /\ pc[Harvester] = "swapCount" /\ pc'[Harvester] = "swapMin" /\ count' = 0
          /\ snap' = [snap EXCEPT !.count = count] /\ UNCHANGED <<sum, sampled>>
      BY <2>4, <1>a DEF SwapCount, Goto
    <3>2. /\ snap' \in Snapshot /\ snap'.sum = snap.sum /\ snap'.count = count
          /\ snap.count = 0
      BY <1>a, <1>d, <3>1 DEF Snapshot, SnapEmpty
    <3>3. SnapEmpty' /\ SampledCounted'
      BY <1>d, <3>1, <3>2 DEF SnapEmpty, SampledCounted, InHarvest
    <3> QED BY <1>a, <1>b, <1>e, <2>1, <3>1, <3>2, <3>3
  <2>5. CASE SwapMin \/ SwapMax
    <3>1. /\ pc[Harvester] \in {"swapMin", "swapMax"} /\ pc'[Harvester] \in {"swapMax", "export"}
          /\ \/ snap' = [snap EXCEPT !.min = min]
             \/ snap' = [snap EXCEPT !.max = max]
          /\ UNCHANGED <<sum, count, sampled>>
      BY <2>5, <1>a DEF SwapMin, SwapMax, Goto
    <3>2. min \in Values \cup {MaxUint64} /\ max \in Values \cup {0}
      BY DEF TypeInv, TypeOK
    <3>3. snap' \in Snapshot /\ snap'.sum = snap.sum /\ snap'.count = snap.count
      BY <1>a, <3>1, <3>2 DEF Snapshot
    <3>4. SnapEmpty' /\ SampledCounted'
      BY <1>d, <3>1, <3>3 DEF SnapEmpty, SampledCounted, InHarvest
    <3> QED BY <1>a, <1>b, <1>e, <2>1, <3>1, <3>3, <3>4
  <2> QED BY <1>3, <2>2, <2>3, <2>4, <2>5 DEF Harvesting, HarvestStep
<1>4. CASE Exporting
  <2>1. /\ pc[Harvester] = "export" /\ pc'[Harvester] = "idle"
        /\ snap' = EmptySnap /\ UNCHANGED <<sum, count, sampled>>
    BY <1>4, <1>a DEF Exporting, Export, Goto
  <2>2. snap' \in Snapshot /\ snap'.sum = 0 /\ snap'.count = 0
    BY <2>1, GaugeAssumption DEF EmptySnap, Snapshot
  (* A sampled gauge is exported with its sum and its count.               *)
  <2>3. sampled => Averaged
    BY <2>1, <1>d DEF SampledInv, SampledCounted, Averaged, Skipped
  <2>4. /\ unexported' \in Account
        /\ sampled => /\ unexported'.sum = unexported.sum - snap.sum
                      /\ unexported'.count = unexported.count - snap.count
    BY <1>4, <1>a, <2>3 DEF Exporting, Account
  <2>5. SnapEmpty' /\ SampledCounted'
    BY <2>1, <2>2 DEF SnapEmpty, SampledCounted
  <2> QED BY <1>a, <1>b, <1>e, <2>1, <2>2, <2>4, <2>5
<1>5. CASE UNCHANGED vars
  BY <1>5 DEF vars, gaugeVars, ConservedInv, Conserved, SnapEmpty, SampledCounted, InHarvest
<1> QED BY <1>1, <1>2, <1>3, <1>4, <1>5 DEF Next

(* A gauge that the harvester records itself exports every value that is   *)
(* recorded to it, and exports it once: no snapshot of it is dropped, and  *)
(* what a harvest cuts off from a record comes with the next one.          *)
THEOREM NothingUnaccounted == Spec => []Conserved
<1>1. SpecInit => ConservedInv
  BY DEF SpecInit, Init, Words, ConservedInv, Conserved, SnapEmpty, SampledCounted, InHarvest,
         EmptySnap, Goroutines, Account
<1>2. SpecInit => SampledInv
  BY DEF SpecInit, Init, SampledInv, Goroutines
<1>3. ConservedInv => Conserved
  BY DEF ConservedInv
<1> QED
  BY <1>1, <1>2, <1>3, TypeInvariant, NextSampledInv, NextConserved, PTL DEF Spec

-----------------------------------------------------------------------------
(* What the present harvest will find in count, min and max, or has found. *)
CountSeen == IF pc[Harvester] \in {"swapMin", "swapMax", "export"} THEN snap.count ELSE count
MinSeen == IF pc[Harvester] \in {"swapMax", "export"} THEN snap.min ELSE min
MaxSeen == IF pc[Harvester] = "export" THEN snap.max ELSE max

(* A record that no harvest has overlapped finds in the words what it has  *)
(* put there, and one that returned so is in what the harvest sees.        *)
ApartInWords ==
  /\ apart \subseteq Recorders
  /\ apart # {} => ~InHarvest
  /\ \A g \in apart :
       /\ pc[g] \in {"loadMax", "casMax", "loadMin", "casMin"} => count > 0
       /\ pc[g] \in {"loadMin", "casMin"} => val[g] <= max

WholeSeen ==
  /\ whole \subseteq Values
  /\ whole # {} => CountSeen > 0
  /\ \A v \in whole : MinSeen <= v /\ v <= MaxSeen

(* A compare-and-swap of min only ever lowers it.                          *)
MinLowered == \A g \in Goroutines : pc[g] = "casMin" => val[g] < old[g]

WholeInv == ApartInWords /\ WholeSeen /\ MinLowered

LEMMA Numbers ==
  ASSUME TypeInv
  PROVE  /\ Values \subseteq Nat /\ count \in Nat /\ min \in Nat /\ max \in Nat
         /\ pc \in [Goroutines -> HarvestPcs]
         /\ val \in [Goroutines -> Nat] /\ old \in [Goroutines -> Nat]
         /\ snap.count \in Nat /\ snap.min \in Nat /\ snap.max \in Nat
         /\ Harvester \in Goroutines /\ Recorders \subseteq Goroutines
         /\ Harvester \notin Recorders
<1>1. /\ Values \subseteq Nat /\ MaxUint64 \in Nat /\ Harvester \notin Recorders
  BY GaugeAssumption
<1>2. Values \cup {0} \subseteq Nat /\ Values \cup {0, MaxUint64} \subseteq Nat
  BY <1>1
<1>3. \A S : S \subseteq Nat => [Goroutines -> S] \subseteq [Goroutines -> Nat]
  OBVIOUS
<1>4. /\ val \in [Goroutines -> Values \cup {0}]
      /\ old \in [Goroutines -> Values \cup {0, MaxUint64}]
  BY DEF TypeInv, TypeOK
<1>5. val \in [Goroutines -> Nat] /\ old \in [Goroutines -> Nat]
  BY <1>2, <1>3, <1>4
<1>6. /\ count \in Nat /\ min \in Nat /\ max \in Nat /\ pc \in [Goroutines -> HarvestPcs]
  BY <1>1 DEF TypeInv, TypeOK
<1>7. snap.count \in Nat /\ snap.min \in Nat /\ snap.max \in Nat
  <2>1. /\ snap.count \in Nat /\ snap.min \in Values \cup {MaxUint64}
        /\ snap.max \in Values \cup {0}
    BY DEF TypeInv, Snapshot
  <2> QED BY <1>2, <2>1
<1> QED BY <1>1, <1>5, <1>6, <1>7 DEF Goroutines

(* The steps of record: what they do to the words, to the goroutine that   *)
(* takes them and to the others.                                           *)
LEMMA RecordingEffect ==
  ASSUME TypeInv, MaxInv, MinLowered, NEW g \in Goroutines, RecordStep(g)
  PROVE  /\ count' >= count /\ min' <= min /\ max' >= max
         /\ count' \in Nat /\ min' \in Nat /\ max' \in Nat
         /\ UNCHANGED snap
         /\ \A h \in Goroutines \ {g} : pc'[h] = pc[h] /\ val'[h] = val[h] /\ old'[h] = old[h]
         /\ pc[g] \in InRecord
         /\ pc'[g] \in {"loadMax", "casMax", "loadMin", "casMin", AfterRecord(g)}
         /\ pc[g] = "count" => count' > 0
         /\ pc'[g] = "casMin" => val'[g] < old'[g]
         /\ pc'[g] # AfterRecord(g) => val'[g] = val[g]
         /\ pc[g] \in {"loadMax", "casMax"} /\ pc'[g] = "loadMin" => val[g] <= max'
         /\ pc'[g] \in {"casMin", AfterRecord(g)} => pc[g] \in {"loadMin", "casMin"}
         /\ pc'[g] = AfterRecord(g) => min' <= val[g]
<1>a. /\ Values \subseteq Nat /\ count \in Nat /\ min \in Nat /\ max \in Nat
      /\ pc \in [Goroutines -> HarvestPcs]
      /\ val \in [Goroutines -> Nat] /\ old \in [Goroutines -> Nat]
      /\ val[g] \in Nat /\ old[g] \in Nat
  BY Numbers
<1>b. AfterRecord(g) \in {"idle", "swapSum"}
  BY DEF AfterRecord
<1>1. CASE AddCount(g)
  BY <1>1, <1>a, <1>b DEF AddCount, Goto, InRecord
<1>2. CASE LoadMax(g)
  BY <1>2, <1>a, <1>b DEF LoadMax, Goto, InRecord
<1>3. CASE CasMax(g)
  <2>1. pc[g] = "casMax" /\ old[g] < val[g] /\ UNCHANGED <<count, min, val, snap>>
    BY <1>3 DEF CasMax, MaxInv
  <2>2. CASE max = old[g]
    BY <1>3, <1>a, <1>b, <2>1, <2>2 DEF CasMax, Goto, Forget, InRecord
  <2>3. CASE max # old[g]
    BY <1>3, <1>a, <1>b, <2>1, <2>3 DEF CasMax, Goto, Forget, InRecord
  <2> QED BY <2>2, <2>3
<1>4. CASE LoadMin(g)
  <2>1. CASE val[g] >= min
    BY <1>4, <1>a, <1>b, <2>1 DEF LoadMin, Return, Goto, Forget, InRecord
  <2>2. CASE ~(val[g] >= min)
    BY <1>4, <1>a, <1>b, <2>2 DEF LoadMin, Goto, InRecord
  <2> QED BY <2>1, <2>2
<1>5. CASE CasMin(g)
  <2>1. pc[g] = "casMin" /\ val[g] < old[g] /\ UNCHANGED <<count, max, snap>>
    BY <1>5 DEF CasMin, MinLowered
  <2>2. CASE min = old[g]
    BY <1>5, <1>a, <1>b, <2>1, <2>2 DEF CasMin, Return, Goto, Forget, InRecord
  <2>3. CASE min # old[g]
    BY <1>5, <1>a, <1>b, <2>1, <2>3 DEF CasMin, Goto, Forget, InRecord
  <2> QED BY <2>2, <2>3
<1> QED BY <1>1, <1>2, <1>3, <1>4, <1>5 DEF RecordStep

LEMMA NextWhole == TypeInv /\ MaxInv /\ WholeInv /\ [Next]_vars => WholeInv'
<1> SUFFICES ASSUME TypeInv, MaxInv, WholeInv, [Next]_vars PROVE WholeInv'
  OBVIOUS
<1>a. /\ Values \subseteq Nat /\ count \in Nat /\ min \in Nat /\ max \in Nat
      /\ pc \in [Goroutines -> HarvestPcs]
      /\ val \in [Goroutines -> Nat] /\ old \in [Goroutines -> Nat]
      /\ snap.count \in Nat /\ snap.min \in Nat /\ snap.max \in Nat
      /\ Harvester \in Goroutines /\ Recorders \subseteq Goroutines
      /\ Harvester \notin Recorders
  BY Numbers
<1>b. ApartInWords /\ WholeSeen /\ MinLowered
  BY DEF WholeInv
<1>c. CountSeen \in Nat /\ MinSeen \in Nat /\ MaxSeen \in Nat
  BY <1>a DEF CountSeen, MinSeen, MaxSeen
(* What has been seen stays seen as long as no more values are in whole.   *)
<1>d. ASSUME CountSeen' \in Nat, MinSeen' \in Nat, MaxSeen' \in Nat,
             CountSeen' >= CountSeen, MinSeen' <= MinSeen, MaxSeen' >= MaxSeen,
             whole' = whole
      PROVE  WholeSeen'
  <2>1. whole' \subseteq Values /\ (whole' # {} => CountSeen' > 0)
    BY <1>b, <1>c, <1>d DEF WholeSeen
  <2>2. ASSUME NEW v \in whole' PROVE MinSeen' <= v /\ v <= MaxSeen'
    <3>1. v \in Nat /\ MinSeen <= v /\ v <= MaxSeen
      BY <1>a, <1>b, <1>d, <2>2 DEF WholeSeen
    <3> QED BY <1>c, <1>d, <3>1
  <2> QED BY <2>1, <2>2 DEF WholeSeen
<1>1. ASSUME NEW g \in Goroutines, Record(g) PROVE WholeInv'
  <2>1. PICK v \in Values : AddSum(g, v)
    BY <1>1 DEF Record
  <2>2. /\ pc[g] = "idle" /\ pc' = [pc EXCEPT ![g] = "count"]
        /\ val' = [val EXCEPT ![g] = v]
        /\ UNCHANGED <<count, min, max, old, snap, whole>>
        /\ apart' = IF InHarvest \/ g = Harvester THEN apart ELSE apart \cup {g}
    BY <1>1, <2>1 DEF AddSum, Goto, Record
  <2>3. pc'[Harvester] = pc[Harvester] \/ (pc[Harvester] = "idle" /\ pc'[Harvester] = "count")
    BY <1>a, <2>2
  <2>4. CountSeen' = CountSeen /\ MinSeen' = MinSeen /\ MaxSeen' = MaxSeen
    BY <2>2, <2>3 DEF CountSeen, MinSeen, MaxSeen
  <2>5. WholeSeen'
    BY <1>c, <1>d, <2>2, <2>4
  <2>6. MinLowered'
    BY <1>a, <1>b, <2>2 DEF MinLowered
  <2>7. /\ apart' \subseteq Recorders
        /\ apart' # {} => ~InHarvest'
    BY <1>b, <2>2, <2>3 DEF ApartInWords, InHarvest, Goroutines
  <2>8. ASSUME NEW h \in apart'
        PROVE  /\ pc'[h] \in {"loadMax", "casMax", "loadMin", "casMin"} => count' > 0
               /\ pc'[h] \in {"loadMin", "casMin"} => val'[h] <= max'
    <3>1. h \in Goroutines /\ (h = g \/ h \in apart)
      BY <1>a, <2>2, <2>7, <2>8
    <3>2. h = g => pc'[h] = "count"
      BY <1>a, <2>2
    <3>3. h # g => pc'[h] = pc[h] /\ val'[h] = val[h]
      BY <1>a, <2>2, <3>1
    <3> QED BY <1>b, <2>2, <3>1, <3>2, <3>3 DEF ApartInWords
  <2> QED BY <2>5, <2>6, <2>7, <2>8 DEF WholeInv, ApartInWords
<1>2. ASSUME NEW g \in Goroutines, Recording(g) PROVE WholeInv'
  <2>a. /\ count' >= count /\ min' <= min /\ max' >= max
        /\ count' \in Nat /\ min' \in Nat /\ max' \in Nat
        /\ UNCHANGED snap
        /\ \A h \in Goroutines \ {g} : pc'[h] = pc[h] /\ val'[h] = val[h] /\ old'[h] = old[h]
        /\ pc[g] \in InRecord
        /\ pc'[g] \in {"loadMax", "casMax", "loadMin", "casMin", AfterRecord(g)}
        /\ pc[g] = "count" => count' > 0
        /\ pc'[g] = "casMin" => val'[g] < old'[g]
        /\ pc'[g] # AfterRecord(g) => val'[g] = val[g]
        /\ pc[g] \in {"loadMax", "casMax"} /\ pc'[g] = "loadMin" => val[g] <= max'
        /\ pc'[g] \in {"casMin", AfterRecord(g)} => pc[g] \in {"loadMin", "casMin"}
        /\ pc'[g] = AfterRecord(g) => min' <= val[g]
    BY <1>2, <1>b, RecordingEffect DEF Recording
  (* The harvester is not within a harvest while it records.               *)
  <2>b. \/ pc'[Harvester] = pc[Harvester]
        \/ /\ pc[Harvester] \in InRecord
           /\ pc'[Harvester] \in {"loadMax", "casMax", "loadMin", "casMin", "swapSum"}
    BY <1>a, <2>a DEF AfterRecord
  <2>c. /\ CountSeen' \in Nat /\ MinSeen' \in Nat /\ MaxSeen' \in Nat
        /\ CountSeen' >= CountSeen /\ MinSeen' <= MinSeen /\ MaxSeen' >= MaxSeen
    BY <1>a, <2>a, <2>b DEF CountSeen, MinSeen, MaxSeen, InRecord
  <2>d. InHarvest' = InHarvest
    BY <2>b DEF InHarvest, InRecord
  <2>1. MinLowered'
    BY <1>b, <2>a DEF MinLowered
  (* A record that no harvest overlaps: it goes on, or it returns.         *)
  <2>2. ASSUME g \in apart
        PROVE  /\ AfterRecord(g) = "idle" /\ ~InHarvest /\ val[g] \in Nat
               /\ count' > 0
               /\ pc'[g] \in {"loadMin", "casMin", AfterRecord(g)} => val[g] <= max'
    <3>1. AfterRecord(g) = "idle" /\ ~InHarvest /\ val[g] \in Nat
      BY <1>a, <1>b, <2>2 DEF ApartInWords, AfterRecord
    <3>2. count' > 0
      BY <1>a, <1>b, <2>2, <2>a DEF ApartInWords, InRecord
    <3>3. pc[g] \in {"loadMin", "casMin"} => val[g] <= max'
      BY <1>a, <1>b, <2>2, <2>a, <3>1 DEF ApartInWords
    <3>4. pc'[g] = "loadMin" => val[g] <= max'
      <4>1. pc[g] \in {"count", "loadMax", "casMax", "loadMin", "casMin"}
        BY <2>a DEF InRecord
      <4>2. pc[g] = "count" => pc'[g] # "loadMin"
        BY <1>2, <1>a DEF Recording, RecordStep, AddCount, LoadMax, CasMax, LoadMin, CasMin, Goto
      <4> QED BY <2>a, <3>3, <4>1, <4>2
    <3> QED BY <2>a, <3>1, <3>2, <3>3, <3>4
  <2>3. ASSUME NEW h \in apart, h # g \/ pc'[g] # AfterRecord(g)
        PROVE  /\ pc'[h] \in {"loadMax", "casMax", "loadMin", "casMin"} => count' > 0
               /\ pc'[h] \in {"loadMin", "casMin"} => val'[h] <= max'
    <3>1. CASE h = g
      BY <2>2, <2>3, <2>a, <3>1
    <3>2. CASE h # g
      <4>1. h \in Goroutines /\ pc'[h] = pc[h] /\ val'[h] = val[h] /\ val[h] \in Nat
        BY <1>a, <1>b, <2>3, <2>a, <3>2 DEF ApartInWords
      <4> QED BY <1>a, <1>b, <2>3, <2>a, <4>1 DEF ApartInWords
    <3> QED BY <3>1, <3>2
  <2>4. CASE g \in apart /\ pc'[g] = "idle"
    <3>1. whole' = whole \cup {val[g]} /\ apart' = apart \ {g}
      BY <1>2, <2>4 DEF Recording
    <3>2. /\ CountSeen' = count' /\ MinSeen' = min' /\ MaxSeen' = max'
      BY <2>2, <2>4, <2>d DEF InHarvest, CountSeen, MinSeen, MaxSeen
    <3>3. val[g] \in Values
      BY <2>a, <2>4 DEF TypeInv
    <3>4. /\ CountSeen' > 0 /\ MinSeen' <= val[g] /\ val[g] <= MaxSeen'
      BY <2>2, <2>4, <2>a, <3>2
    <3>5. \A v \in whole : MinSeen' <= v /\ v <= MaxSeen'
      <4> SUFFICES ASSUME NEW v \in whole PROVE MinSeen' <= v /\ v <= MaxSeen'
        OBVIOUS
      <4>1. v \in Nat /\ MinSeen <= v /\ v <= MaxSeen
        BY <1>a, <1>b DEF WholeSeen
      <4> QED BY <1>c, <2>c, <4>1
    <3>6. WholeSeen'
      BY <1>b, <3>1, <3>3, <3>4, <3>5 DEF WholeSeen
    <3>7. ApartInWords'
      BY <1>b, <2>3, <2>d, <3>1 DEF ApartInWords
    <3> QED BY <2>1, <3>6, <3>7 DEF WholeInv
  <2>5. CASE ~(g \in apart /\ pc'[g] = "idle")
    <3>1. whole' = whole /\ apart' = apart
      BY <1>2, <2>5 DEF Recording
    <3>2. g \in apart => pc'[g] # AfterRecord(g)
      BY <2>2, <2>5
    <3>3. ApartInWords'
      BY <1>b, <2>3, <2>d, <3>1, <3>2 DEF ApartInWords
    <3>4. WholeSeen'
      BY <1>d, <2>c, <3>1
    <3> QED BY <2>1, <3>3, <3>4 DEF WholeInv
  <2> QED BY <2>4, <2>5
<1>3. CASE Harvesting
  <2>1. apart' = {} /\ whole' = whole /\ UNCHANGED <<val, old>>
    BY <1>3 DEF Harvesting, HarvestStep, TickHarvest, SwapSum, SwapCount, SwapMin, SwapMax
  <2>2. ApartInWords'
    BY <2>1 DEF ApartInWords
  <2>3. /\ pc'[Harvester] \in {"swapSum", "swapCount", "swapMin", "swapMax", "export"}
        /\ \A h \in Goroutines \ {Harvester} : pc'[h] = pc[h]
    BY <1>3, <1>a DEF Harvesting, HarvestStep, TickHarvest, SwapSum, SwapCount, SwapMin,
                      SwapMax, Goto
  <2>4. MinLowered'
    BY <1>b, <2>1, <2>3 DEF MinLowered
  (* A word that is swapped goes on being seen in the snapshot.            *)
  <2>5. CountSeen' = CountSeen /\ MinSeen' = MinSeen /\ MaxSeen' = MaxSeen
    <3>a. snap \in Snapshot
      BY DEF TypeInv
    <3> USE DEF CountSeen, MinSeen, MaxSeen
    <3>1. CASE TickHarvest
      BY <1>a, <3>1 DEF TickHarvest, Goto
    <3>2. CASE SwapSum
      <4>1. /\ pc[Harvester] = "swapSum" /\ pc'[Harvester] = "swapCount"
            /\ UNCHANGED <<count, min, max>>
        BY <1>a, <3>2 DEF SwapSum, Goto
      <4> QED BY <4>1
    <3>3. CASE SwapCount
      <4>1. /\ pc[Harvester] = "swapCount" /\ pc'[Harvester] = "swapMin"
            /\ snap' = [snap EXCEPT !.count = count] /\ UNCHANGED <<min, max>>
        BY <1>a, <3>3 DEF SwapCount, Goto
      <4>2. snap'.count = count
        BY <3>a, <4>1 DEF Snapshot
      <4> QED BY <4>1, <4>2
    <3>4. CASE SwapMin
      <4>1. /\ pc[Harvester] = "swapMin" /\ pc'[Harvester] = "swapMax"
            /\ snap' = [snap EXCEPT !.min = min] /\ UNCHANGED max
        BY <1>a, <3>4 DEF SwapMin, Goto
      <4>2. snap'.min = min /\ snap'.count = snap.count
        BY <3>a, <4>1 DEF Snapshot
      <4> QED BY <4>1, <4>2
    <3>5. CASE SwapMax
      <4>1. /\ pc[Harvester] = "swapMax" /\ pc'[Harvester] = "export"
            /\ snap' = [snap EXCEPT !.max = max]
        BY <1>a, <3>5 DEF SwapMax, Goto
      <4>2. snap'.max = max /\ snap'.min = snap.min /\ snap'.count = snap.count
        BY <3>a, <4>1 DEF Snapshot
      <4> QED BY <4>1, <4>2
    <3> QED BY <1>3, <3>1, <3>2, <3>3, <3>4, <3>5 DEF Harvesting, HarvestStep
  <2>6. WholeSeen'
    BY <1>c, <1>d, <2>1, <2>5
  <2> QED BY <2>2, <2>4, <2>6 DEF WholeInv
<1>4. CASE Exporting
  <2>1. /\ whole' = {} /\ apart' = apart /\ pc[Harvester] = "export"
        /\ pc' = [pc EXCEPT ![Harvester] = "idle"] /\ UNCHANGED <<val, old>>
    BY <1>4 DEF Exporting, Export, Goto
  <2>2. apart' = {}
    BY <1>b, <2>1 DEF ApartInWords, InHarvest
  <2>3. MinLowered'
    BY <1>a, <1>b, <2>1 DEF MinLowered
  <2> QED BY <2>1, <2>2, <2>3 DEF WholeInv, WholeSeen, ApartInWords
<1>5. CASE UNCHANGED vars
  BY <1>5, <1>b DEF vars, gaugeVars, WholeInv, WholeSeen, ApartInWords, MinLowered, InHarvest,
                    CountSeen, MinSeen, MaxSeen
<1> QED BY <1>1, <1>2, <1>3, <1>4, <1>5 DEF Next

(* A record that no harvest overlaps is exported, with a count and between *)
(* the min and the max, whoever else records at the same time and however  *)
(* the compare-and-swap loops of both fare.                                *)
THEOREM UndisturbedExported == Spec => []WholeExported
<1>1. SpecInit => MaxInv /\ WholeInv
  BY DEF SpecInit, Init, MaxInv, MaxCovers, WholeInv, WholeSeen, ApartInWords, MinLowered
<1>2. TypeInv /\ WholeInv => WholeExported
  <2> SUFFICES ASSUME TypeInv, WholeInv, pc[Harvester] = "export", whole # {}
               PROVE  Averaged /\ \A v \in whole : snap.min <= v /\ v <= snap.max
    BY DEF WholeExported
  <2>1. snap.count > 0 /\ \A v \in whole : v \in Values /\ snap.min <= v /\ v <= snap.max
    BY DEF WholeInv, WholeSeen, CountSeen, MinSeen, MaxSeen
  <2>2. PICK v \in whole : v \in Values /\ snap.min <= v
    BY <2>1
  <2>3. v \in Nat /\ v < MaxUint64 /\ MaxUint64 \in Nat /\ snap.min \in Nat
    BY <2>2, GaugeAssumption, Numbers
  <2>4. snap.min # MaxUint64
    BY <2>2, <2>3
  <2> QED BY <2>1, <2>4 DEF Averaged, Skipped
<1> QED
  BY <1>1, <1>2, TypeInvariant, NextMaxCovers, NextWhole, PTL DEF Spec
=============================================================================

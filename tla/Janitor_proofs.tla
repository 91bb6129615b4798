---------------------------- MODULE Janitor_proofs ----------------------------
(***************************************************************************)
(* What holds of the janitors for every number of goroutines, every buffer *)
(* size and every set of messages.                                         *)
(***************************************************************************)
EXTENDS JanitorSpec, Pipeline_proofs

-----------------------------------------------------------------------------
LEMMA InitTypeInv == Init => JanTypeInv
BY JanInitTypes DEF Init, SqsTypeOK

LEMMA NextTypeInv == JanTypeInv /\ [Next]_vars => JanTypeInv'
<1> SUFFICES ASSUME JanTypeInv, [Next]_vars PROVE JanTypeInv'
  OBVIOUS
<1> USE DEF JanTypeInv, JanTypeOK, JanHands, DeleteFlusherWaits
<1>1. CASE JanitorsStep
  BY <1>1, JanStepTypes
<1>2. ASSUME NEW a \in DeleteAgents, DeleteCall(a) PROVE JanTypeInv'
  BY <1>2, JanCallTypes
<1>3. ASSUME NEW d \in Arrivals, Deliver(d) PROVE JanTypeInv'
  <2>1. /\ d \in Delivery /\ deleteCh' = Append(deleteCh, d) /\ publishCh' = publishCh
        /\ Len(deleteCh) < BufferSizeDelete
    BY <1>3, ArrivalsAssumption DEF Deliver, SendDelete
  <2>2. deleteCh' \in Seq(Delivery) /\ Len(deleteCh') = Len(deleteCh) + 1 /\ Len(deleteCh) \in Nat
    BY <2>1 DEF ChTypeOK
  <2>3. ChTypeOK'
    BY <2>1, <2>2, QueueAssumption DEF ChTypeOK
  <2>4. SqsTypeOK'
    BY <1>3 DEF Deliver, SqsTypeOK
  <2> QED BY <1>3, <2>3, <2>4 DEF Deliver, janVars
<1>4. CASE UNCHANGED vars
  BY <1>4 DEF vars, janVars, chVars, sqsVars, ChTypeOK, SqsTypeOK
<1> QED BY <1>1, <1>2, <1>3, <1>4 DEF Next

(* The counter, the channels, the pool and the hands of the janitors keep  *)
(* their types.                                                            *)
THEOREM TypeCorrect == Spec => []TypeOK
<1>1. JanTypeInv => TypeOK
  BY DEF JanTypeInv, TypeOK
<1> QED BY <1>1, InitTypeInv, NextTypeInv, PTL DEF Spec

LEMMA TypeInvariant == Spec => []JanTypeInv
BY InitTypeInv, NextTypeInv, PTL DEF Spec

(* DeleteMessageBatch is never asked for nothing, for more than            *)
(* maxBatchItems, or for two entries with one id.                          *)
THEOREM BatchesLegal == Spec => []DeleteBatchLegal
<1>1. JanTypeInv => DeleteBatchLegal
  BY DEF JanTypeInv, JanHands, DeleteBatchLegal, DistinctIDs, BatchEntryID
<1> QED BY <1>1, TypeInvariant, PTL

-----------------------------------------------------------------------------
(* What Held says, in numbers.                                             *)
LEMMA HeldCounts ==
  ASSUME NEW d
  PROVE  /\ Held(d) <=> JanStored(d) > 0 \/ \E a \in DeleteAgents : Occurrences(janBatch[a], d) > 0
         /\ Held(d)' <=> JanStored(d)' > 0 \/ \E a \in DeleteAgents : Occurrences(janBatch'[a], d) > 0
BY DEF Held, JanStored

LEMMA StepLetsGo == JanTypeInv /\ JanTypeInv' /\ [Next]_vars => [LetGoInBatch]_vars
<1> SUFFICES ASSUME JanTypeInv, JanTypeInv', Next, NEW d \in Arrivals, Held(d), ~Held(d)'
             PROVE  \E a \in DeleteAgents : /\ janPc[a] = "delete" /\ janPc'[a] # "delete"
                                            /\ Occurrences(janBatch[a], d) > 0
  BY DEF LetGoInBatch
<1>a. /\ JanStored(d) \in Nat /\ JanStored(d)' \in Nat
      /\ \A a \in DeleteAgents : /\ Occurrences(janBatch[a], d) \in Nat
                                 /\ Occurrences(janBatch'[a], d) \in Nat
  BY JanCounts, JanCountsNext
<1>b. /\ JanStored(d) > 0 \/ \E a \in DeleteAgents : Occurrences(janBatch[a], d) > 0
      /\ JanStored(d)' = 0
      /\ \A a \in DeleteAgents : Occurrences(janBatch'[a], d) = 0
  BY <1>a, HeldCounts
<1>1. CASE JanitorsStep
  <2>1. PICK a \in DeleteAgents : JanMoves(a, d)
    BY <1>1, JanStepMoves
  <2>2. /\ \A b \in DeleteAgents \ {a} : Occurrences(janBatch[b], d) = 0
        /\ JanStored(d) + Occurrences(janBatch[a], d) = 0
    BY <1>b, <2>1 DEF JanMoves
  <2>3. JanStored(d) = 0 /\ Occurrences(janBatch[a], d) = 0
    BY <1>a, <2>2
  <2> QED BY <1>b, <2>2, <2>3
<1>2. ASSUME NEW a \in DeleteAgents, DeleteCall(a)
      PROVE  /\ janPc[a] = "delete" /\ janPc'[a] # "delete"
             /\ Occurrences(janBatch[a], d) > 0
  <2>1. /\ janPc[a] = "delete" /\ janPc'[a] # "delete"
        /\ UNCHANGED <<deleteCh, deletePool>>
        /\ janBatch' = [janBatch EXCEPT ![a] = <<>>]
    BY <1>2, JanCallDrops
  <2>2. JanStored(d) = 0
    BY <1>b, <2>1 DEF JanStored
  <2>3. \A b \in DeleteAgents \ {a} : janBatch'[b] = janBatch[b]
    BY <2>1 DEF JanTypeInv, JanTypeOK
  <2>4. \A b \in DeleteAgents \ {a} : Occurrences(janBatch[b], d) = 0
    BY <1>b, <2>3
  <2> QED BY <1>a, <1>b, <2>1, <2>2, <2>4
<1>3. ASSUME NEW e \in Arrivals, Deliver(e) PROVE FALSE
  <2>1. /\ e \in Delivery /\ deleteCh' = Append(deleteCh, e)
        /\ UNCHANGED <<deletePool, janBatch>>
    BY <1>3, ArrivalsAssumption DEF Deliver, SendDelete, janVars
  <2>2. deleteCh \in Seq(Delivery)
    BY DEF JanTypeInv, ChTypeOK
  <2>3. /\ Occurrences(deleteCh', d) = Occurrences(deleteCh, d) + Occurrences(<<e>>, d)
        /\ Occurrences(<<e>>, d) \in Nat
    BY <2>1, <2>2, OccurrencesAppend, OccurrencesOne
  <2>4. Occurrences(deleteCh, d) \in Nat /\ Occurrences(deletePool, d) \in Nat
    BY JanCounts
  <2>5. JanStored(d) = 0
    BY <1>b, <2>1, <2>3, <2>4 DEF JanStored
  <2> QED BY <1>b, <2>1, <2>5
<1> QED BY <1>1, <1>2, <1>3 DEF Next

(* No shift of the pool, by a janitor or the flusher, and no end of a      *)
(* sibling drops a delivery: it leaves in a DeleteMessageBatch.            *)
THEOREM NoneLost == Spec => NothingLost
<1>1. JanTypeInv /\ JanTypeInv' /\ [Next]_vars => [LetGoInBatch]_vars
  BY StepLetsGo
<1> QED BY <1>1, TypeInvariant, PTL DEF Spec, NothingLost

-----------------------------------------------------------------------------
(* SingleCustody, in numbers.                                              *)
Custody(d) ==
  /\ \A a \in DeleteAgents : Occurrences(janBatch[a], d) <= 1
  /\ JanStored(d) + Cardinality({a \in DeleteAgents : Occurrences(janBatch[a], d) > 0}) <= 1

CustodyInv == \A d \in Arrivals : Custody(d)

LEMMA CustodyImplies == JanTypeInv /\ CustodyInv => SingleCustody
<1> SUFFICES ASSUME JanTypeInv, CustodyInv PROVE SingleCustody
  OBVIOUS
<1>1. ASSUME NEW d \in Arrivals, NEW a \in DeleteAgents, Occurrences(janBatch[a], d) > 0
      PROVE  Occurrences(janBatch[a], d) = 1
  <2>1. Occurrences(janBatch[a], d) \in Nat
    BY JanCounts
  <2>2. Occurrences(janBatch[a], d) <= 1
    BY DEF CustodyInv, Custody
  <2> QED BY <1>1, <2>1, <2>2
<1> QED BY <1>1 DEF SingleCustody, CustodyInv, Custody, JanStored

LEMMA NextCustody ==
  ASSUME JanTypeInv, JanTypeInv', [Next]_vars, NEW d \in Arrivals, Custody(d)
  PROVE  Custody(d)'
<1> DEFINE h == [a \in DeleteAgents |-> Occurrences(janBatch[a], d)]
           g == [a \in DeleteAgents |-> Occurrences(janBatch'[a], d)]
           c == JanStored(d)
           k == JanStored(d)'
<1>a. /\ c \in Nat /\ h \in [DeleteAgents -> Nat]
      /\ k \in Nat /\ g \in [DeleteAgents -> Nat]
  BY JanCounts, JanCountsNext
<1>b. /\ \A a \in DeleteAgents : h[a] <= 1
      /\ c + Cardinality({a \in DeleteAgents : h[a] > 0}) <= 1
  <2>1. {a \in DeleteAgents : h[a] > 0} = {a \in DeleteAgents : Occurrences(janBatch[a], d) > 0}
    OBVIOUS
  <2> QED BY <2>1 DEF Custody
<1>1. ASSUME NEW a \in DeleteAgents, \A b \in DeleteAgents \ {a} : janBatch'[b] = janBatch[b],
             k + g[a] <= c + h[a]
      PROVE  Custody(d)'
  <2>1. \A b \in DeleteAgents \ {a} : g[b] = h[b]
    BY <1>1
  <2>2. {b \in DeleteAgents : g[b] > 0} = {b \in DeleteAgents : Occurrences(janBatch'[b], d) > 0}
    OBVIOUS
  <2>3. \A b \in DeleteAgents : g[b] = Occurrences(janBatch'[b], d)
    OBVIOUS
  <2> HIDE DEF h, g, c
  <2>4. /\ \A b \in DeleteAgents : g[b] <= 1
        /\ k + Cardinality({b \in DeleteAgents : g[b] > 0}) <= 1
    <3> HIDE DEF k
    <3> QED BY <1>1, <1>a, <1>b, <2>1, DeleteAgentsFinite, CustodyMove
  <2> QED BY <2>2, <2>3, <2>4 DEF Custody
<1>2. CASE JanitorsStep
  <2>1. PICK a \in DeleteAgents : JanMoves(a, d)
    BY <1>2, JanStepMoves
  <2>2. k + g[a] <= c + h[a]
    <3>1. k + g[a] = c + h[a]
      BY <2>1 DEF JanMoves
    <3>2. h[a] \in Nat
      BY <1>a
    <3> HIDE DEF c, k, g, h
    <3> QED BY <1>a, <3>1, <3>2
  <2> QED BY <1>1, <2>1, <2>2 DEF JanMoves
<1>3. ASSUME NEW a \in DeleteAgents, DeleteCall(a) PROVE Custody(d)'
  <2>1. /\ UNCHANGED <<deleteCh, deletePool>>
        /\ janBatch' = [janBatch EXCEPT ![a] = <<>>]
    BY <1>3, JanCallDrops
  <2>2. janBatch'[a] = <<>> /\ \A b \in DeleteAgents \ {a} : janBatch'[b] = janBatch[b]
    BY <2>1 DEF JanTypeInv, JanTypeOK
  <2>3. g[a] = 0 /\ k = c
    BY <2>1, <2>2, OccurrencesEmpty DEF JanStored
  <2>4. h[a] \in Nat
    BY <1>a
  <2>5. k + g[a] <= c + h[a]
    <3> HIDE DEF c, k, g, h
    <3> QED BY <1>a, <2>3, <2>4
  <2> QED BY <1>1, <2>2, <2>5
<1>4. ASSUME NEW e \in Arrivals, Deliver(e) PROVE Custody(d)'
  <2>1. /\ e \in Delivery /\ deleteCh' = Append(deleteCh, e) /\ ~Held(e)
        /\ UNCHANGED <<deletePool, janBatch>>
    BY <1>4, ArrivalsAssumption DEF Deliver, SendDelete, janVars
  <2>2. deleteCh \in Seq(Delivery)
    BY DEF JanTypeInv, ChTypeOK
  <2>3. /\ Occurrences(deleteCh', d) = Occurrences(deleteCh, d) + Occurrences(<<e>>, d)
        /\ Occurrences(<<e>>, d) = IF e = d THEN 1 ELSE 0
    BY <2>1, <2>2, OccurrencesAppend, OccurrencesOne
  <2>4. Occurrences(deleteCh, d) \in Nat /\ Occurrences(deletePool, d) \in Nat
    BY JanCounts
  <2>5. CASE e # d
    <3>1. k = c
      BY <2>1, <2>3, <2>4, <2>5 DEF JanStored
    <3> QED BY <2>1, <3>1 DEF Custody
  <2>6. CASE e = d
    <3>1. c = 0 /\ \A a \in DeleteAgents : Occurrences(janBatch[a], d) = 0
      BY <2>1, <2>6, <1>a, HeldCounts
    <3>2. k = 1
      BY <2>1, <2>3, <2>4, <2>6, <3>1 DEF JanStored
    <3>3. {a \in DeleteAgents : Occurrences(janBatch'[a], d) > 0} = {}
      BY <2>1, <3>1
    <3>4. Cardinality({a \in DeleteAgents : Occurrences(janBatch'[a], d) > 0}) = 0
      BY <3>3, FS_EmptySet
    <3>5. \A a \in DeleteAgents : Occurrences(janBatch'[a], d) <= 1
      BY <2>1, <3>1
    <3> QED BY <3>2, <3>4, <3>5 DEF Custody
  <2> QED BY <2>5, <2>6
<1>5. CASE UNCHANGED vars
  <2>1. UNCHANGED <<deleteCh, deletePool, janBatch>>
    BY <1>5 DEF vars, janVars, chVars
  <2> QED BY <2>1 DEF Custody, JanStored
<1> QED BY <1>2, <1>3, <1>4, <1>5 DEF Next

(* No delivery is at two places: no message is deleted twice because a     *)
(* shift of the pool left it behind or two goroutines took it.             *)
THEOREM CustodySingle == Spec => []SingleCustody
<1>1. Init => CustodyInv
  <2> SUFFICES ASSUME Init, NEW d \in Arrivals PROVE Custody(d)
    BY DEF CustodyInv
  <2>1. /\ deleteCh = <<>> /\ deletePool = <<>>
        /\ \A a \in DeleteAgents : janBatch[a] = <<>>
    BY DEF Init, JanInit, ChInit
  <2>2. JanStored(d) = 0 /\ \A a \in DeleteAgents : Occurrences(janBatch[a], d) = 0
    BY <2>1, OccurrencesEmpty DEF JanStored
  <2>3. {a \in DeleteAgents : Occurrences(janBatch[a], d) > 0} = {}
    BY <2>2
  <2> QED BY <2>2, <2>3, FS_EmptySet DEF Custody
<1>2. JanTypeInv /\ JanTypeInv' /\ CustodyInv /\ [Next]_vars => CustodyInv'
  BY NextCustody DEF CustodyInv
<1> QED BY <1>1, <1>2, CustodyImplies, TypeInvariant, PTL DEF Spec

-----------------------------------------------------------------------------
(* Each message that makes the pool longer makes a janitor owe a drain,    *)
(* and a janitor that stops owing one has seen less than a batch.          *)
LEMMA NextPoolBound == JanTypeInv /\ DeletePoolBound /\ [Next]_vars => DeletePoolBound'
<1> SUFFICES ASSUME JanTypeInv, DeletePoolBound, [Next]_vars
             PROVE  DeletePoolBound'
  OBVIOUS
<1> USE DEF JanGoto, JanHold, chVars
<1>a. /\ DeleteFlusher \notin Janitors /\ RootJanitor \in Janitors
      /\ DeleteFlusher \in DeleteAgents /\ Janitors \subseteq DeleteAgents
      /\ \A a \in DeleteAgents : a \in Janitors \/ a = DeleteFlusher
  BY JanitorAssumption DEF DeleteAgents
<1>b. /\ deletePool \in Seq(Delivery) /\ Len(deletePool) \in Nat
      /\ janPc \in [DeleteAgents -> JanitorPcs \cup DeleteFlusherPcs]
      /\ janBatch \in [DeleteAgents -> Seq(Delivery)]
      /\ MaxBatchItems \in Nat
  BY PoolAssumption DEF JanTypeInv, JanTypeOK
<1>c. /\ Cardinality(OwingDelete) \in Nat /\ IsFiniteSet(OwingDelete)
      /\ Cardinality(OwingDelete') \in Nat
  <2>1. OwingDelete \in SUBSET Janitors /\ OwingDelete' \in SUBSET Janitors
    BY DEF OwingDelete
  <2> QED BY <2>1, JanitorAssumption, FS_Subset, FS_CardinalityType
<1>1. ASSUME OwingDelete' = OwingDelete, deletePool' = deletePool
      PROVE  DeletePoolBound'
  BY <1>1 DEF DeletePoolBound
<1>2. ASSUME OwingDelete' = OwingDelete, deletePool' = SurvivorsV1(deletePool)
      PROVE  DeletePoolBound'
  <2>1. /\ Len(SurvivorsV1(deletePool)) = Len(deletePool) - AvailableV1(deletePool)
        /\ AvailableV1(deletePool) \in Nat
    BY <1>b, BatchV1Type DEF AvailableV1
  <2> QED BY <1>2, <1>b, <1>c, <2>1 DEF DeletePoolBound
<1>3. ASSUME NEW j \in Janitors, AddDelete(j)
      PROVE  DeletePoolBound'
  <2>1. /\ deletePool' = deletePool \o janBatch[j] /\ janPc[j] = "add"
        /\ JanGoto(j, "getFullBatch") /\ Len(janBatch[j]) = 1
    BY <1>3, <1>a DEF AddDelete, JanTypeInv, JanHands
  <2>2. j \notin OwingDelete /\ OwingDelete' = OwingDelete \cup {j}
    BY <2>1, <1>a, <1>b DEF OwingDelete
  <2>3. Cardinality(OwingDelete') = Cardinality(OwingDelete) + 1
    BY <2>2, <1>c, FS_AddElement
  <2>4. Len(deletePool') = Len(deletePool) + 1
    <3>1. janBatch[j] \in Seq(Delivery)
      BY <1>a, <1>b
    <3>2. Len(deletePool \o janBatch[j]) = Len(deletePool) + Len(janBatch[j])
      BY <3>1, <1>b, ConcatProperties
    <3> QED BY <2>1, <3>2
  <2> QED BY <2>3, <2>4, <1>b, <1>c DEF DeletePoolBound
<1>4. ASSUME NEW j \in Janitors, DrainedDelete(j)
      PROVE  DeletePoolBound'
  <2>1. ~(Len(deletePool) >= MaxBatchItems) /\ deletePool' = deletePool
    BY <1>4 DEF DrainedDelete, FullBatchFoundV1
  <2> QED BY <2>1, <1>b, <1>c DEF DeletePoolBound
<1>5. ASSUME NEW j \in Janitors, DrainDelete(j)
      PROVE  DeletePoolBound'
  <2>1. OwingDelete' = OwingDelete
    BY <1>5, <1>a, <1>b DEF DrainDelete, OwingDelete
  <2> QED BY <2>1, <1>2, <1>5 DEF DrainDelete
<1>6. ASSUME NEW a \in DeleteAgents, DeleteCall(a)
      PROVE  DeletePoolBound'
  <2>1. /\ deletePool' = deletePool /\ janPc[a] = "delete"
        /\ janPc' = [janPc EXCEPT ![a] = JanCaller(a)]
    BY <1>6 DEF DeleteCall, BatchDelete
  <2>2. OwingDelete' = OwingDelete
    BY <2>1, <1>a, <1>b DEF OwingDelete, JanCaller
  <2> QED BY <2>1, <2>2, <1>1
<1>7. ASSUME NEW j \in Janitors, JanitorStep(j)
      PROVE  DeletePoolBound'
  <2>1. CASE TakeDelete(j)
    <3>1. OwingDelete' = OwingDelete
      BY <2>1, <1>a, <1>b DEF TakeDelete, OwingDelete
    <3> QED BY <3>1, <2>1, <1>1 DEF TakeDelete
  <2>2. CASE ScaleUpJanitor(j)
    <3>1. OwingDelete' = OwingDelete
      BY <2>2, <1>a, <1>b DEF ScaleUpJanitor, OwingDelete
    <3> QED BY <3>1, <2>2, <1>1 DEF ScaleUpJanitor
  <2>3. CASE CheckLimitDeleters(j)
    <3>1. OwingDelete' = OwingDelete
      BY <2>3, <1>a, <1>b DEF CheckLimitDeleters, OwingDelete
    <3> QED BY <3>1, <2>3, <1>1 DEF CheckLimitDeleters
  <2>4. CASE ExitJanitor(j) \/ StayJanitor(j)
    <3>1. OwingDelete' = OwingDelete
      BY <2>4, <1>a, <1>b DEF ExitJanitor, StayJanitor, OwingDelete
    <3> QED BY <3>1, <2>4, <1>1 DEF ExitJanitor, StayJanitor
  <2>5. ASSUME NEW k \in Janitors, SpawnJanitor(j, k)
        PROVE  DeletePoolBound'
    <3>1. OwingDelete' = OwingDelete
      BY <2>5, <1>a, <1>b DEF SpawnJanitor, OwingDelete
    <3> QED BY <3>1, <2>5, <1>1 DEF SpawnJanitor
  <2> QED BY <1>7, <2>1, <2>2, <2>3, <2>4, <2>5, <1>3, <1>4, <1>5 DEF JanitorStep
<1>8. CASE TickDelete
  <2>1. OwingDelete' = OwingDelete
    BY <1>8, <1>a, <1>b DEF TickDelete, OwingDelete
  <2> QED BY <2>1, <1>8, <1>1 DEF TickDelete
<1>9. CASE FlushDelete
  <2>1. OwingDelete' = OwingDelete
    BY <1>9, <1>a, <1>b DEF FlushDelete, OwingDelete
  <2> QED BY <2>1, <1>9, <1>1, <1>2 DEF FlushDelete
<1>10. CASE StartRootJanitor
  <2>1. OwingDelete' = OwingDelete
    BY <1>10, <1>a, <1>b DEF StartRootJanitor, OwingDelete
  <2> QED BY <2>1, <1>1, <1>10 DEF StartRootJanitor
<1>11. ASSUME UNCHANGED <<janPc, deletePool>>
       PROVE  DeletePoolBound'
  BY <1>11, <1>1 DEF OwingDelete
<1>12. CASE (\E d \in Arrivals : Deliver(d)) \/ ElapseDelete \/ UNCHANGED vars
  BY <1>11, <1>12 DEF Deliver, ElapseDelete, vars, janVars
<1> QED BY <1>6, <1>7, <1>8, <1>9, <1>10, <1>12
        DEF Next, JanitorsStep, DeleteFlusherStep

(* The pool never holds more than a batch less one and one message for     *)
(* each janitor that has still to look for a full batch.                   *)
THEOREM PoolBounded == Spec => []DeletePoolBound
<1>1. Init => DeletePoolBound
  <2> SUFFICES ASSUME Init PROVE DeletePoolBound
    OBVIOUS
  <2>1. deletePool = <<>> /\ Len(<<>>) = 0
    BY DEF Init, JanInit
  <2>2. OwingDelete \in SUBSET Janitors
    BY DEF OwingDelete
  <2>3. Cardinality(OwingDelete) \in Nat
    BY <2>2, JanitorAssumption, FS_Subset, FS_CardinalityType
  <2> QED BY <2>1, <2>3, PoolAssumption DEF DeletePoolBound
<1> QED BY <1>1, TypeInvariant, NextPoolBound, PTL DEF Spec

-----------------------------------------------------------------------------
(* Why check and increment need no lock: only the root is ever between the *)
(* two, and until it increments nobody else makes the counter grow.        *)
LimitInv ==
  /\ JanitorLimit
  /\ \A j \in Janitors : janPc[j] \in {"limit", "spawn"} => j = RootJanitor
  /\ janPc[RootJanitor] = "spawn" => janitors < LimitDeleters
  /\ janPc[RootJanitor] = "start" => LiveJanitors = {}

LEMMA NextLimitInv == JanTypeInv /\ LimitInv /\ [Next]_vars => LimitInv'
<1> SUFFICES ASSUME JanTypeInv, LimitInv, [Next]_vars PROVE LimitInv'
  OBVIOUS
<1> USE DEF LimitInv, JanitorLimit, JanGoto
<1>a. /\ DeleteFlusher \notin Janitors /\ RootJanitor \in Janitors
      /\ DeleteFlusher \in DeleteAgents /\ Janitors \subseteq DeleteAgents
      /\ \A a \in DeleteAgents : a \in Janitors \/ a = DeleteFlusher
      /\ LimitDeleters \in Nat /\ LimitDeleters >= 1
  BY JanitorAssumption DEF DeleteAgents
<1>b. LiveJanitors \in SUBSET Janitors
  BY DEF LiveJanitors
<1>c. /\ janPc \in [DeleteAgents -> JanitorPcs \cup DeleteFlusherPcs]
      /\ janitors \in Nat /\ IsFiniteSet(LiveJanitors)
  BY <1>b, JanitorAssumption, FS_Subset, FS_CardinalityType DEF JanTypeInv, JanTypeOK
<1>1. CASE UNCHANGED <<janPc, janitors>>
  BY <1>1 DEF LiveJanitors
(* A janitor that stays alive and does not come to decide on a spawn.      *)
<1>2. ASSUME NEW a \in DeleteAgents, NEW l, l \notin {"none", "start", "limit", "spawn"},
             janPc[a] \notin {"none", "start"},
             JanGoto(a, l), UNCHANGED janitors
      PROVE  LimitInv'
  <2>1. LiveJanitors' = LiveJanitors
    BY <1>2, <1>a, <1>c DEF LiveJanitors
  <2> QED BY <2>1, <1>2, <1>a, <1>c
<1>3. ASSUME NEW a \in DeleteAgents, DeleteCall(a) PROVE LimitInv'
  <2>1. janPc[a] = "delete" /\ UNCHANGED janitors /\ JanGoto(a, JanCaller(a))
    BY <1>3 DEF DeleteCall, BatchDelete
  <2>2. JanGoto(a, "ticker") \/ JanGoto(a, "getFullBatch")
    BY <2>1 DEF JanCaller
  <2> QED BY <2>1, <2>2, <1>2
<1>4. ASSUME NEW j \in Janitors, CheckLimitDeleters(j) PROVE LimitInv'
  <2>1. j = RootJanitor /\ janPc[j] = "limit" /\ UNCHANGED janitors
    BY <1>4 DEF CheckLimitDeleters
  <2>2. LiveJanitors' = LiveJanitors
    BY <1>4, <1>a, <1>c DEF CheckLimitDeleters, LiveJanitors
  <2>3. CASE janitors < LimitDeleters
    BY <2>1, <2>2, <2>3, <1>4, <1>a, <1>c DEF CheckLimitDeleters, BelowLimit
  <2>4. CASE ~(janitors < LimitDeleters)
    BY <2>1, <2>2, <2>4, <1>4, <1>a, <1>c DEF CheckLimitDeleters, BelowLimit
  <2> QED BY <2>3, <2>4
<1>5. ASSUME NEW j \in Janitors, NEW k \in Janitors, SpawnJanitor(j, k) PROVE LimitInv'
  <2>1. /\ j = RootJanitor /\ j # k /\ janPc[k] = "none" /\ janPc[j] = "spawn"
        /\ janitors < LimitDeleters /\ janitors' = janitors + 1
        /\ janPc' = [janPc EXCEPT ![j] = "range", ![k] = "range"]
    BY <1>5 DEF SpawnJanitor
  <2>2. k \notin LiveJanitors /\ LiveJanitors' = LiveJanitors \cup {k}
    BY <2>1, <1>a, <1>c DEF LiveJanitors
  <2>3. Cardinality(LiveJanitors') = Cardinality(LiveJanitors) + 1
    BY <2>2, <1>c, FS_AddElement
  <2>4. janitors' <= LimitDeleters
    BY <2>1, <1>a, <1>c
  <2> QED BY <2>1, <2>3, <2>4, <1>a, <1>c
<1>6. ASSUME NEW j \in Janitors, ExitJanitor(j) PROVE LimitInv'
  <2>1. /\ janPc[j] = "load" /\ j # RootJanitor /\ janitors' = janitors - 1
        /\ janPc' = [janPc EXCEPT ![j] = "none"]
    BY <1>6 DEF ExitJanitor, JanitorLeaves
  <2>2. j \in LiveJanitors /\ LiveJanitors' = LiveJanitors \ {j}
    BY <2>1, <1>a, <1>c DEF LiveJanitors
  <2>3. Cardinality(LiveJanitors') = Cardinality(LiveJanitors) - 1
    BY <2>2, <1>c, FS_RemoveElement
  <2>4. janitors' <= LimitDeleters /\ janitors' < janitors
    BY <2>1, <1>a, <1>c
  <2>5. janPc'[RootJanitor] = janPc[RootJanitor]
    BY <2>1, <1>a, <1>c
  <2>6. janPc[RootJanitor] = "spawn" => janitors' < LimitDeleters
    BY <2>1, <2>4, <1>a, <1>c
  <2>7. \A q \in Janitors : janPc'[q] \in {"limit", "spawn"} => q = RootJanitor
    BY <2>1, <1>a, <1>c
  <2>8. janPc[RootJanitor] # "start"
    BY <2>2
  <2> QED BY <2>1, <2>3, <2>4, <2>5, <2>6, <2>7, <2>8
<1>7. ASSUME NEW j \in Janitors, JanitorStep(j) PROVE LimitInv'
  <2>1. CASE TakeDelete(j)
    BY <2>1, <1>2, <1>a DEF TakeDelete
  <2>2. CASE AddDelete(j)
    BY <2>2, <1>2, <1>a DEF AddDelete
  <2>3. CASE DrainDelete(j)
    BY <2>3, <1>2, <1>a DEF DrainDelete
  <2>4. CASE DrainedDelete(j)
    BY <2>4, <1>2, <1>a DEF DrainedDelete
  <2>5. CASE ScaleUpJanitor(j)
    <3>1. j = RootJanitor /\ janPc[j] = "load" /\ UNCHANGED janitors
      BY <2>5 DEF ScaleUpJanitor
    <3>2. JanGoto(j, "limit") \/ JanGoto(j, "range")
      BY <2>5 DEF ScaleUpJanitor
    <3>3. LiveJanitors' = LiveJanitors
      BY <3>1, <3>2, <1>a, <1>c DEF LiveJanitors
    <3> QED BY <3>1, <3>2, <3>3, <1>a, <1>c
  <2>6. CASE StayJanitor(j)
    BY <2>6, <1>2, <1>a DEF StayJanitor
  <2> QED BY <1>7, <2>1, <2>2, <2>3, <2>4, <2>5, <2>6, <1>4, <1>5, <1>6 DEF JanitorStep
<1>8. CASE TickDelete \/ FlushDelete
  <2>1. CASE TickDelete
    BY <2>1, <1>2, <1>a DEF TickDelete
  <2>2. CASE FlushDelete
    <3>1. JanGoto(DeleteFlusher, "delete") \/ JanGoto(DeleteFlusher, "ticker")
      BY <2>2 DEF FlushDelete
    <3> QED BY <2>2, <3>1, <1>2, <1>a DEF FlushDelete
  <2> QED BY <1>8, <2>1, <2>2
<1>9. CASE StartRootJanitor
  <2>1. /\ janPc[RootJanitor] = "start" /\ janitors' = janitors + 1
        /\ janPc' = [janPc EXCEPT ![RootJanitor] = "range", ![DeleteFlusher] = "ticker"]
    BY <1>9 DEF StartRootJanitor
  <2>2. LiveJanitors = {} /\ janitors = 0
    BY <2>1, FS_EmptySet
  <2>3. LiveJanitors' = {RootJanitor}
    BY <2>1, <2>2, <1>a, <1>c DEF LiveJanitors
  <2>4. Cardinality(LiveJanitors') = 1
    BY <2>3, FS_Singleton
  <2> QED BY <2>1, <2>2, <2>4, <1>a, <1>c
<1>10. CASE (\E d \in Arrivals : Deliver(d)) \/ ElapseDelete \/ UNCHANGED vars
  BY <1>1, <1>10 DEF Deliver, ElapseDelete, vars, janVars
<1> QED BY <1>3, <1>7, <1>8, <1>9, <1>10 DEF Next, JanitorsStep, DeleteFlusherStep

(* The counter is the number of janitors, and never above the limit.       *)
THEOREM JanitorsLimited == Spec => []JanitorLimit
<1>1. Init => LimitInv
  <2> SUFFICES ASSUME Init PROVE LimitInv
    OBVIOUS
  <2>1. janitors = 0 /\ janPc = JanPcInit
    BY DEF Init, JanInit
  <2>2. LiveJanitors = {}
    BY <2>1 DEF JanPcInit, LiveJanitors, DeleteAgents
  <2>3. \A j \in Janitors : janPc[j] \notin {"limit", "spawn"}
    BY <2>1 DEF JanPcInit, DeleteAgents
  <2> QED BY <2>1, <2>2, <2>3, FS_EmptySet, JanitorAssumption
          DEF LimitInv, JanitorLimit
<1>2. LimitInv => JanitorLimit
  BY DEF LimitInv
<1> QED BY <1>1, <1>2, TypeInvariant, NextLimitInv, PTL DEF Spec
=============================================================================

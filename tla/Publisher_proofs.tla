-------------------------- MODULE Publisher_proofs --------------------------
(***************************************************************************)
(* What holds of the publishers for every number of goroutines, every      *)
(* buffer size and every set of messages.                                  *)
(***************************************************************************)
EXTENDS PublisherSpec, Pipeline_proofs

-----------------------------------------------------------------------------
LEMMA InitTypeInv == Init => PubTypeInv
BY PubInitTypes DEF Init, PubInit

LEMMA NextTypeInv == PubTypeInv /\ [Next]_vars => PubTypeInv'
<1> SUFFICES ASSUME PubTypeInv, [Next]_vars PROVE PubTypeInv'
  OBVIOUS
<1> USE DEF PubTypeInv, PubTypeOK, ChTypeOK, PubHands, PublishFlusherWaits, chVars, pubProcVars
<1>1. CASE PublishersStep
  BY <1>1, PubStepTypes
<1>2. ASSUME NEW a \in PublishAgents, PublishCall(a) PROVE PubTypeInv'
  BY <1>2, PubCallTypes
<1>3. ASSUME NEW d \in Arrivals, Deliver(d) PROVE PubTypeInv'
  <2>1. d \in Delivery
    BY ArrivalsAssumption
  <2>2. ChTypeOK'
    BY <1>3, <2>1, SendType, QueueAssumption DEF Deliver, SendPublish
  <2>3. accepted' \subseteq Delivery /\ UNCHANGED pubProcVars
    BY <1>3 DEF Deliver
  <2> QED BY <2>2, <2>3
<1>4. CASE Dispose
  <2>1. ChTypeOK'
    BY <1>4, ReceiveType, QueueAssumption DEF Dispose, ReceiveDelete
  <2>2. UNCHANGED pubVars
    BY <1>4 DEF Dispose
  <2> QED BY <2>1, <2>2 DEF pubVars
<1>5. CASE UNCHANGED vars
  BY <1>5 DEF vars, pubVars
<1> QED BY <1>1, <1>2, <1>3, <1>4, <1>5 DEF Next, Environment

(* The counters, channels, pool and hands of the publishers keep their     *)
(* types, and no goroutine holds more than a batch.                        *)
THEOREM TypeCorrect == Spec => []TypeOK
<1>1. PubTypeInv => TypeOK
  BY DEF PubTypeInv, TypeOK
<1> QED BY <1>1, InitTypeInv, NextTypeInv, PTL DEF Spec

LEMMA TypeInvariant == Spec => []PubTypeInv
BY InitTypeInv, NextTypeInv, PTL DEF Spec

-----------------------------------------------------------------------------
(* What a goroutine still has to forward is accepted: by itself this is    *)
(* inductive once PubHands is known, because only batchPublish sets pubOk and *)
(* because a delivery whose name is used again is held by nobody.          *)
LEMMA NextForwardedAccepted ==
  PubTypeInv /\ ForwardedAccepted /\ [Next]_vars => ForwardedAccepted'
<1> SUFFICES ASSUME PubTypeInv, ForwardedAccepted, [Next]_vars
             PROVE  ForwardedAccepted'
  OBVIOUS
<1> USE DEF ForwardedAccepted, PubGoto, PubHold, chVars, pubProcVars
<1>a. /\ PublishFlusher \notin Publishers /\ RootPublisher \in Publishers
      /\ PublishFlusher \in PublishAgents /\ Publishers \subseteq PublishAgents
      /\ \A a \in PublishAgents : a \in Publishers \/ a = PublishFlusher
  BY PublisherAssumption DEF PublishAgents
<1>b. /\ deleteCh \in Seq(Delivery)
      /\ pubBatch \in [PublishAgents -> Seq(Delivery)]
      /\ pubOk \in [PublishAgents -> SUBSET (1..MaxBatchItems)]
      /\ \A a \in PublishAgents : /\ pubOk[a] \in SUBSET DOMAIN pubBatch[a]
                                  /\ pubOk[a] # {} => pubPc[a] = "forward"
  BY DEF PubTypeInv, PubTypeOK, ChTypeOK, PubHands
<1>1. CASE UNCHANGED <<deleteCh, pubBatch, pubOk, accepted>>
  BY <1>1
<1>2. ASSUME NEW a \in PublishAgents, pubPc[a] # "forward", NEW batch,
             PubHold(a, batch), UNCHANGED <<deleteCh, pubOk, accepted>>
      PROVE  ForwardedAccepted'
  BY <1>2, <1>b
<1>3. ASSUME NEW a \in PublishAgents, PublishCall(a)
      PROVE  ForwardedAccepted'
  <2> PICK successful \in SUBSET DOMAIN pubBatch[a], errPub \in BOOLEAN :
          BatchPublish(a, successful, errPub)
    BY <1>3 DEF PublishCall
  <2> DEFINE pub == IF errPub THEN {} ELSE Returned(pubBatch[a], successful)
  <2>1. pub \subseteq successful
    BY ReturnedSuccessful
  <2>2. /\ accepted' = accepted \cup {pubBatch[a][i] : i \in successful}
        /\ pubOk' = [pubOk EXCEPT ![a] = pub]
        /\ \/ pub = {} /\ pubBatch' = [pubBatch EXCEPT ![a] = <<>>]
           \/ pub # {} /\ pubBatch' = pubBatch
        /\ deleteCh' = deleteCh
    BY DEF BatchPublish
  <2> HIDE DEF pub
  <2>3. ASSUME NEW b \in PublishAgents, NEW i \in pubOk'[b]
        PROVE  pubBatch'[b][i] \in accepted'
    <3>1. CASE b # a
      BY <3>1, <2>2, <2>3, <1>b
    <3>2. CASE b = a
      <4>1. i \in pub /\ pubBatch' = pubBatch
        BY <3>2, <2>2, <2>3, <1>b
      <4> QED BY <3>2, <4>1, <2>1, <2>2
    <3> QED BY <3>1, <3>2
  <2> QED BY <2>2, <2>3
<1>4. ASSUME NEW a \in PublishAgents, ForwardPublished(a)
      PROVE  ForwardedAccepted'
  <2> PICK i \in pubOk[a] :
         /\ SendDelete(pubBatch[a][i])
         /\ pubOk' = [pubOk EXCEPT ![a] = @ \ {i}]
         /\ IF pubOk[a] = {i}
            THEN PubHold(a, <<>>) /\ PubGoto(a, PubCaller(a))
            ELSE UNCHANGED <<pubBatch, pubPc>>
    BY <1>4 DEF ForwardPublished
  <2>1. accepted' = accepted
    BY <1>4 DEF ForwardPublished
  <2>2. deleteCh' = Append(deleteCh, pubBatch[a][i]) /\ pubBatch[a][i] \in Delivery
    BY <1>b DEF SendDelete
  <2>3. \A k \in DOMAIN deleteCh' : deleteCh'[k] \in accepted'
    BY <2>1, <2>2, <1>b
  <2>4. \A b \in PublishAgents : \A k \in pubOk'[b] : pubBatch'[b][k] \in accepted'
    BY <2>1, <1>b
  <2> QED BY <2>3, <2>4
<1>5. ASSUME NEW d \in Arrivals, Deliver(d)
      PROVE  ForwardedAccepted'
  <2>1. /\ ~Held(d) /\ accepted' = accepted \ {d}
        /\ UNCHANGED <<deleteCh, pubBatch, pubOk>>
    BY <1>5 DEF Deliver
  <2>2. \A i \in DOMAIN deleteCh : deleteCh[i] # d
    BY <2>1 DEF Held
  <2>3. ASSUME NEW a \in PublishAgents, NEW i \in pubOk[a], pubBatch[a][i] = d
        PROVE  FALSE
    <3> DEFINE mine == {j \in pubOk[a] : pubBatch[a][j] = d}
    <3>1. pubPc[a] = "forward"
      BY <1>b
    <3>2. ~(Cardinality(mine) > 0)
      BY <2>1, <3>1 DEF Held, PubInHand
    <3>3. mine \in SUBSET (1..MaxBatchItems) /\ i \in mine
      BY <1>b, <2>3
    <3> HIDE DEF mine
    <3>4. IsFiniteSet(mine)
      BY <3>3, PoolAssumption, UpToFinite, FS_Subset
    <3>5. Cardinality(mine) \in Nat /\ Cardinality(mine) # 0
      BY <3>3, <3>4, FS_CardinalityType, FS_EmptySet
    <3> QED BY <3>2, <3>5
  <2> QED BY <2>1, <2>2, <2>3
<1>6. CASE Dispose
  <2>1. UNCHANGED <<pubBatch, pubOk, accepted>>
    BY <1>6 DEF Dispose, pubVars
  <2>2. deleteCh # <<>> /\ deleteCh' = Tail(deleteCh)
    BY <1>6 DEF Dispose, ReceiveDelete
  <2>3. \A k \in DOMAIN deleteCh' : deleteCh'[k] \in accepted'
    BY <2>1, <2>2, <1>b
  <2> QED BY <2>1, <2>3
<1>7. ASSUME NEW p \in Publishers, PublisherStep(p)
      PROVE  ForwardedAccepted'
  <2>1. CASE TakePublish(p)
    BY <2>1, <1>2, <1>a DEF TakePublish
  <2>2. CASE AddPublish(p)
    BY <2>2, <1>2, <1>a DEF AddPublish
  <2>3. CASE DrainPublish(p)
    BY <2>3, <1>2, <1>a DEF DrainPublish
  <2>4. CASE DrainedPublish(p)
    BY <2>4, <1>1 DEF DrainedPublish
  <2>5. CASE ForwardPublished(p)
    BY <2>5, <1>4, <1>a
  <2>6. CASE ScaleUpPublisher(p)
    BY <2>6, <1>1 DEF ScaleUpPublisher
  <2>7. CASE CheckLimitPublishers(p)
    BY <2>7, <1>1 DEF CheckLimitPublishers
  <2>8. CASE ScaleDownPublisher(p)
    BY <2>8, <1>1 DEF ScaleDownPublisher
  <2>9. CASE \E q \in Publishers : SpawnPublisher(p, q)
    BY <2>9, <1>1 DEF SpawnPublisher
  <2> QED BY <1>7, <2>1, <2>2, <2>3, <2>4, <2>5, <2>6, <2>7, <2>8, <2>9 DEF PublisherStep
<1>8. CASE PublishFlusherStep
  <2>1. CASE TickPublish
    BY <2>1, <1>1 DEF TickPublish
  <2>2. CASE FlushPublish
    BY <2>2, <1>1, <1>2, <1>a DEF FlushPublish
  <2>3. CASE ForwardPublished(PublishFlusher)
    BY <2>3, <1>4, <1>a
  <2> QED BY <1>8, <2>1, <2>2, <2>3 DEF PublishFlusherStep
<1>9. CASE StartRootPublisher
  BY <1>9, <1>1 DEF StartRootPublisher
<1>10. CASE ElapsePublish
  BY <1>10, <1>1 DEF ElapsePublish
<1>11. CASE UNCHANGED vars
  BY <1>11, <1>1 DEF vars, pubVars
<1> QED BY <1>3, <1>5, <1>6, <1>7, <1>8, <1>9, <1>10, <1>11
        DEF Next, PublishersStep, Environment

(* A message goes to the janitors only when SNS has accepted it, whatever  *)
(* fails and however the goroutines interleave.                            *)
THEOREM OnlyAcceptedForwarded == Spec => []ForwardedAccepted
<1>1. Init => ForwardedAccepted
  BY DEF Init, PubInit, PubInitProc, ChInit, ForwardedAccepted
<1> QED BY <1>1, TypeInvariant, NextForwardedAccepted, PTL DEF Spec

-----------------------------------------------------------------------------
(* Everything on its way to the pool is publishable by itself.             *)
AllFit ==
  /\ \A i \in DOMAIN publishCh : Fits(publishCh[i].id)
  /\ \A i \in DOMAIN publishPool : Fits(publishPool[i].id)
  /\ \A p \in Publishers :
       pubPc[p] = "add" => Len(pubBatch[p]) = 1 /\ Fits(pubBatch[p][1].id)

LEMMA NextAllFit == PubTypeInv /\ AllFit /\ [Next]_vars => AllFit'
<1> SUFFICES ASSUME PubTypeInv, AllFit, [Next]_vars
             PROVE  AllFit'
  OBVIOUS
<1> USE DEF AllFit, PubGoto, PubHold, chVars, pubProcVars
<1>a. /\ PublishFlusher \notin Publishers /\ RootPublisher \in Publishers
      /\ PublishFlusher \in PublishAgents /\ Publishers \subseteq PublishAgents
      /\ \A a \in PublishAgents : a \in Publishers \/ a = PublishFlusher
  BY PublisherAssumption DEF PublishAgents
<1>b. /\ publishCh \in Seq(Delivery) /\ publishPool \in Seq(Delivery)
      /\ pubPc \in [PublishAgents -> PublisherPcs \cup FlusherPcs]
      /\ pubBatch \in [PublishAgents -> Seq(Delivery)]
  BY DEF PubTypeInv, PubTypeOK, ChTypeOK
<1>1. CASE UNCHANGED <<publishCh, publishPool, pubPc, pubBatch>>
  BY <1>1
(* A goroutine that is not going to "add" leaves everyone else's hands.    *)
<1>2. ASSUME NEW a \in PublishAgents, NEW l, l # "add", PubGoto(a, l),
             \/ UNCHANGED pubBatch
             \/ \E batch : PubHold(a, batch)
      PROVE  \A p \in Publishers :
               pubPc'[p] = "add" => Len(pubBatch'[p]) = 1 /\ Fits(pubBatch'[p][1].id)
  BY <1>2, <1>b, <1>a
<1>3. (\A i \in DOMAIN Survivors(publishPool) : Fits(Survivors(publishPool)[i].id))
  BY <1>b, SurvivorsType
<1>4. ASSUME NEW p \in Publishers, TakePublish(p)
      PROVE  AllFit'
  <2>1. /\ publishCh # <<>> /\ publishCh' = Tail(publishCh)
        /\ PubHold(p, <<Head(publishCh)>>) /\ PubGoto(p, "add")
        /\ UNCHANGED publishPool
    BY <1>4 DEF TakePublish, ReceivePublish
  <2>2. Head(publishCh) = publishCh[1] /\ 1 \in DOMAIN publishCh
    BY <2>1, <1>b
  <2>3. \A k \in DOMAIN publishCh' : publishCh'[k] = publishCh[k + 1]
                                     /\ k + 1 \in DOMAIN publishCh
    BY <2>1, <1>b
  <2>4. Fits(Head(publishCh).id)
    BY <2>2
  <2> QED BY <2>1, <2>3, <2>4, <1>a, <1>b
<1>5. ASSUME NEW p \in Publishers, AddPublish(p)
      PROVE  AllFit'
  <2>1. /\ publishPool' = publishPool \o pubBatch[p]
        /\ Len(pubBatch[p]) = 1 /\ Fits(pubBatch[p][1].id)
        /\ PubHold(p, <<>>) /\ PubGoto(p, "getFullBatch")
        /\ UNCHANGED publishCh
    BY <1>5 DEF AddPublish
  <2>2. \A k \in DOMAIN publishPool' :
          \/ k \in DOMAIN publishPool /\ publishPool'[k] = publishPool[k]
          \/ publishPool'[k] = pubBatch[p][1]
    BY <2>1, <1>a, <1>b
  <2>3. \A k \in DOMAIN publishPool' : Fits(publishPool'[k].id)
    BY <2>1, <2>2
  <2> QED BY <2>1, <2>3, <1>a, <1>2
<1>6. ASSUME NEW p \in Publishers, DrainPublish(p)
      PROVE  AllFit'
  BY <1>6, <1>2, <1>3, <1>a DEF DrainPublish
<1>7. ASSUME NEW a \in PublishAgents, PublishCall(a)
      PROVE  AllFit'
  <2>1. /\ UNCHANGED <<publishCh, publishPool>>
        /\ \/ PubGoto(a, PubCaller(a)) /\ PubHold(a, <<>>)
           \/ PubGoto(a, "forward") /\ UNCHANGED pubBatch
    BY <1>7 DEF PublishCall, BatchPublish
  <2>2. PubCaller(a) # "add"
    BY DEF PubCaller
  <2>3. CASE PubGoto(a, PubCaller(a)) /\ PubHold(a, <<>>)
    <3> DEFINE l == PubCaller(a)
    <3>1. PubGoto(a, l) /\ l # "add"
      BY <2>2, <2>3
    <3>2. \E batch : PubHold(a, batch)
      BY <2>3
    <3> HIDE DEF l, PubGoto, PubHold
    <3> QED BY <2>1, <3>1, <3>2, <1>2
  <2>4. CASE PubGoto(a, "forward") /\ UNCHANGED pubBatch
    BY <2>1, <2>4, <1>2
  <2>5. CASE UNCHANGED <<pubBatch, pubPc>>
    BY <2>1, <2>5
  <2> QED BY <2>1, <2>3, <2>4, <2>5
<1>8. ASSUME NEW a \in PublishAgents, ForwardPublished(a)
      PROVE  AllFit'
  <2>1. /\ UNCHANGED <<publishCh, publishPool>>
        /\ \/ PubGoto(a, PubCaller(a)) /\ PubHold(a, <<>>)
           \/ UNCHANGED <<pubBatch, pubPc>>
    BY <1>8 DEF ForwardPublished
  <2>2. PubCaller(a) # "add"
    BY DEF PubCaller
  <2>3. CASE PubGoto(a, PubCaller(a)) /\ PubHold(a, <<>>)
    <3> DEFINE l == PubCaller(a)
    <3>1. PubGoto(a, l) /\ l # "add"
      BY <2>2, <2>3
    <3>2. \E batch : PubHold(a, batch)
      BY <2>3
    <3> HIDE DEF l, PubGoto, PubHold
    <3> QED BY <2>1, <3>1, <3>2, <1>2
  <2>4. CASE PubGoto(a, "forward") /\ UNCHANGED pubBatch
    BY <2>1, <2>4, <1>2
  <2>5. CASE UNCHANGED <<pubBatch, pubPc>>
    BY <2>1, <2>5
  <2> QED BY <2>1, <2>3, <2>4, <2>5
<1>9. ASSUME NEW d \in Arrivals, Deliver(d)
      PROVE  AllFit'
  <2>1. /\ Fits(d.id) /\ publishCh' = Append(publishCh, d) /\ d \in Delivery
        /\ UNCHANGED <<publishPool, pubPc, pubBatch>>
    BY <1>9, ArrivalsAssumption DEF Deliver, SendPublish
  <2>2. \A k \in DOMAIN publishCh' : Fits(publishCh'[k].id)
    BY <2>1, <1>b
  <2> QED BY <2>1, <2>2
<1>10. ASSUME NEW p \in Publishers, PublisherStep(p)
       PROVE  AllFit'
  <2>1. CASE DrainedPublish(p)
    BY <2>1, <1>2, <1>a DEF DrainedPublish
  <2>2. CASE ScaleUpPublisher(p)
    BY <2>2, <1>2, <1>a DEF ScaleUpPublisher
  <2>3. CASE CheckLimitPublishers(p)
    BY <2>3, <1>2, <1>a DEF CheckLimitPublishers
  <2>4. CASE ScaleDownPublisher(p)
    <3>1. /\ UNCHANGED <<publishCh, publishPool, pubBatch>>
          /\ PubGoto(p, "none") \/ PubGoto(p, "range")
      BY <2>4 DEF ScaleDownPublisher
    <3> HIDE DEF PubGoto, PubHold
    <3> QED BY <3>1, <1>2, <1>a
  <2>5. ASSUME NEW q \in Publishers, SpawnPublisher(p, q)
        PROVE  AllFit'
    BY <2>5, <1>a, <1>b DEF SpawnPublisher
  <2> QED BY <1>10, <2>1, <2>2, <2>3, <2>4, <2>5, <1>4, <1>5, <1>6, <1>8, <1>a
          DEF PublisherStep
<1>11. CASE PublishFlusherStep
  <2>1. CASE TickPublish
    BY <2>1, <1>2, <1>a DEF TickPublish
  <2>2. CASE FlushPublish
    <3>1. CASE Available(publishPool)
      BY <2>2, <3>1, <1>2, <1>3, <1>a DEF FlushPublish
    <3>2. CASE ~Available(publishPool)
      BY <2>2, <3>2, <1>2, <1>a DEF FlushPublish
    <3> QED BY <3>1, <3>2
  <2> QED BY <1>11, <2>1, <2>2, <1>8, <1>a DEF PublishFlusherStep
<1>12. CASE StartRootPublisher
  BY <1>12, <1>a, <1>b DEF StartRootPublisher
<1>13. CASE Dispose \/ ElapsePublish
  BY <1>13, <1>1 DEF Dispose, ElapsePublish, pubVars
<1>14. CASE UNCHANGED vars
  BY <1>14, <1>1 DEF vars, pubVars
<1> QED BY <1>7, <1>9, <1>10, <1>11, <1>12, <1>13, <1>14
        DEF Next, PublishersStep, Environment

-----------------------------------------------------------------------------
LEMMA ConcatLength ==
  ASSUME NEW s \in Seq(Delivery), NEW t \in Seq(Delivery)
  PROVE  Len(s \o t) = Len(s) + Len(t)
OBVIOUS

LEMMA OwingDrainFinite ==
  IsFiniteSet(OwingDrain) /\ Cardinality(OwingDrain) \in Nat
<1>1. OwingDrain \in SUBSET Publishers
  BY DEF OwingDrain
<1> QED BY <1>1, PublisherAssumption, FS_Subset, FS_CardinalityType

(* Each message that makes the pool longer makes a publisher owe a drain,  *)
(* and a publisher that stops owing one has seen less than a batch.        *)
LEMMA NextPoolBound == PubTypeInv /\ AllFit /\ PoolBound /\ [Next]_vars => PoolBound'
<1> SUFFICES ASSUME PubTypeInv, AllFit, PoolBound, [Next]_vars
             PROVE  PoolBound'
  OBVIOUS
<1> USE DEF PubGoto, PubHold, chVars, pubProcVars
<1>a. /\ PublishFlusher \notin Publishers /\ RootPublisher \in Publishers
      /\ PublishFlusher \in PublishAgents /\ Publishers \subseteq PublishAgents
      /\ \A a \in PublishAgents : a \in Publishers \/ a = PublishFlusher
  BY PublisherAssumption DEF PublishAgents
<1>b. /\ publishPool \in Seq(Delivery)
      /\ pubPc \in [PublishAgents -> PublisherPcs \cup FlusherPcs]
      /\ pubBatch \in [PublishAgents -> Seq(Delivery)]
      /\ MaxBatchItems \in Nat
  BY PoolAssumption DEF PubTypeInv, PubTypeOK
<1>c. /\ Cardinality(OwingDrain) \in Nat /\ IsFiniteSet(OwingDrain)
      /\ Cardinality(OwingDrain') \in Nat
  <2>1. OwingDrain' \in SUBSET Publishers
    BY DEF OwingDrain
  <2> QED BY <2>1, OwingDrainFinite, PublisherAssumption, FS_Subset, FS_CardinalityType
<1>1. ASSUME OwingDrain' = OwingDrain, publishPool' = publishPool
      PROVE  PoolBound'
  BY <1>1 DEF PoolBound
<1>2. ASSUME OwingDrain' = OwingDrain, publishPool' = Survivors(publishPool)
      PROVE  PoolBound'
  <2>1. Len(Survivors(publishPool)) \in Nat /\ Len(publishPool) \in Nat
        /\ Len(Survivors(publishPool)) <= Len(publishPool)
    BY <1>b, SurvivorsType
  <2> QED BY <1>2, <1>b, <1>c, <2>1 DEF PoolBound
<1>3. ASSUME NEW p \in Publishers, AddPublish(p)
      PROVE  PoolBound'
  <2>1. /\ publishPool' = publishPool \o pubBatch[p] /\ pubPc[p] = "add"
        /\ PubGoto(p, "getFullBatch") /\ Len(pubBatch[p]) = 1
    BY <1>3 DEF AddPublish, AllFit
  <2>2. p \notin OwingDrain /\ OwingDrain' = OwingDrain \cup {p}
    BY <2>1, <1>a, <1>b DEF OwingDrain
  <2>3. Cardinality(OwingDrain') = Cardinality(OwingDrain) + 1
    BY <2>2, <1>c, FS_AddElement
  <2>4. Len(publishPool') = Len(publishPool) + 1
    <3>1. pubBatch[p] \in Seq(Delivery)
      BY <1>a, <1>b
    <3> QED BY <2>1, <3>1, <1>b, ConcatLength
  <2>5. Len(publishPool) \in Nat
    BY <1>b
  <2> QED BY <2>3, <2>4, <2>5, <1>b, <1>c DEF PoolBound
<1>4. ASSUME NEW p \in Publishers, DrainedPublish(p)
      PROVE  PoolBound'
  <2>1. ~FullBatchFound(publishPool) /\ publishPool' = publishPool
    BY <1>4 DEF DrainedPublish
  <2>2. Len(publishPool) <= MaxBatchItems - 1
    BY <2>1, <1>b, NotFullShort DEF AllFit
  <2>3. Len(publishPool) \in Nat
    BY <1>b
  <2> QED BY <2>1, <2>2, <2>3, <1>b, <1>c DEF PoolBound
<1>5. ASSUME NEW p \in Publishers, DrainPublish(p)
      PROVE  PoolBound'
  <2>1. OwingDrain' = OwingDrain
    BY <1>5, <1>a, <1>b DEF DrainPublish, OwingDrain
  <2> QED BY <2>1, <1>2, <1>5 DEF DrainPublish
<1>6. ASSUME NEW a \in PublishAgents, PublishCall(a)
      PROVE  PoolBound'
  <2>1. /\ publishPool' = publishPool /\ pubPc[a] = "publish"
        /\ \/ pubPc' = [pubPc EXCEPT ![a] = PubCaller(a)]
           \/ pubPc' = [pubPc EXCEPT ![a] = "forward"]
    BY <1>6 DEF PublishCall, BatchPublish
  <2>2. OwingDrain' = OwingDrain
    BY <2>1, <1>a, <1>b DEF OwingDrain, PubCaller
  <2> QED BY <2>1, <2>2, <1>1
<1>7. ASSUME NEW a \in PublishAgents, ForwardPublished(a)
      PROVE  PoolBound'
  <2>1. /\ publishPool' = publishPool /\ pubPc[a] = "forward"
        /\ \/ pubPc' = [pubPc EXCEPT ![a] = PubCaller(a)]
           \/ pubPc' = pubPc
    BY <1>7 DEF ForwardPublished
  <2>2. OwingDrain' = OwingDrain
    BY <2>1, <1>a, <1>b DEF OwingDrain, PubCaller
  <2> QED BY <2>1, <2>2, <1>1
<1>8. ASSUME NEW p \in Publishers, PublisherStep(p)
      PROVE  PoolBound'
  <2>1. CASE TakePublish(p)
    <3>1. OwingDrain' = OwingDrain
      BY <2>1, <1>a, <1>b DEF TakePublish, OwingDrain
    <3> QED BY <3>1, <2>1, <1>1 DEF TakePublish
  <2>2. CASE ScaleUpPublisher(p)
    <3>1. OwingDrain' = OwingDrain
      BY <2>2, <1>a, <1>b DEF ScaleUpPublisher, OwingDrain
    <3> QED BY <3>1, <2>2, <1>1 DEF ScaleUpPublisher
  <2>3. CASE CheckLimitPublishers(p)
    <3>1. OwingDrain' = OwingDrain
      BY <2>3, <1>a, <1>b DEF CheckLimitPublishers, OwingDrain
    <3> QED BY <3>1, <2>3, <1>1 DEF CheckLimitPublishers
  <2>4. CASE ScaleDownPublisher(p)
    <3>1. OwingDrain' = OwingDrain
      BY <2>4, <1>a, <1>b DEF ScaleDownPublisher, OwingDrain
    <3> QED BY <3>1, <2>4, <1>1 DEF ScaleDownPublisher
  <2>5. ASSUME NEW q \in Publishers, SpawnPublisher(p, q)
        PROVE  PoolBound'
    <3>1. OwingDrain' = OwingDrain
      BY <2>5, <1>a, <1>b DEF SpawnPublisher, OwingDrain
    <3> QED BY <3>1, <2>5, <1>1 DEF SpawnPublisher
  <2> QED BY <1>8, <2>1, <2>2, <2>3, <2>4, <2>5, <1>3, <1>4, <1>5, <1>7, <1>a
          DEF PublisherStep
<1>9. CASE PublishFlusherStep
  <2>1. CASE TickPublish
    <3>1. OwingDrain' = OwingDrain
      BY <2>1, <1>a, <1>b DEF TickPublish, OwingDrain
    <3> QED BY <3>1, <2>1, <1>1 DEF TickPublish
  <2>2. CASE FlushPublish
    <3>1. OwingDrain' = OwingDrain
      BY <2>2, <1>a, <1>b DEF FlushPublish, OwingDrain
    <3> QED BY <3>1, <2>2, <1>1, <1>2 DEF FlushPublish
  <2> QED BY <1>9, <2>1, <2>2, <1>7, <1>a DEF PublishFlusherStep
<1>10. CASE StartRootPublisher
  <2>1. OwingDrain' = OwingDrain
    BY <1>10, <1>a, <1>b DEF StartRootPublisher, OwingDrain
  <2> QED BY <2>1, <1>1, <1>10 DEF StartRootPublisher
<1>11. ASSUME UNCHANGED <<pubPc, publishPool>>
       PROVE  PoolBound'
  BY <1>11, <1>1 DEF OwingDrain
<1>12. CASE Environment \/ ElapsePublish \/ UNCHANGED vars
  BY <1>11, <1>12 DEF Environment, Deliver, Dispose, ElapsePublish, vars, pubVars
<1> QED BY <1>6, <1>8, <1>9, <1>10, <1>12 DEF Next, PublishersStep

(* The pool never holds more than a batch less one and one message for     *)
(* each publisher that has still to look for a full batch.                 *)
THEOREM PoolBounded == Spec => []PoolBound
<1>1. Init => AllFit
  BY DEF Init, PubInit, PubInitProc, PubPcInit, ChInit, AllFit, PublishAgents
<1>2. Init => PoolBound
  <2> SUFFICES ASSUME Init PROVE PoolBound
    OBVIOUS
  <2>1. publishPool = <<>> /\ Len(<<>>) = 0
    BY DEF Init, PubInit, PubInitProc
  <2> QED BY <2>1, OwingDrainFinite, PoolAssumption DEF PoolBound
<1> QED BY <1>1, <1>2, TypeInvariant, NextAllFit, NextPoolBound, PTL DEF Spec

-----------------------------------------------------------------------------
(* Why check and increment need no lock: only the root is ever between the *)
(* two, and until it increments nobody else makes the counter grow.        *)
LimitInv ==
  /\ PublisherLimit
  /\ \A p \in Publishers : pubPc[p] \in {"limit", "spawn"} => p = RootPublisher
  /\ pubPc[RootPublisher] = "spawn" => publishers < LimitPublishers
  /\ pubPc[RootPublisher] = "start" => Live = {}

LEMMA LiveFinite ==
  IsFiniteSet(Live) /\ Cardinality(Live) \in Nat
<1>1. Live \in SUBSET Publishers
  BY DEF Live
<1> QED BY <1>1, PublisherAssumption, FS_Subset, FS_CardinalityType

LEMMA NextLimitInv == PubTypeInv /\ LimitInv /\ [Next]_vars => LimitInv'
<1> SUFFICES ASSUME PubTypeInv, LimitInv, [Next]_vars
             PROVE  LimitInv'
  OBVIOUS
<1> USE DEF LimitInv, PublisherLimit, PubGoto, chVars, pubProcVars
<1>a. /\ PublishFlusher \notin Publishers /\ RootPublisher \in Publishers
      /\ PublishFlusher \in PublishAgents /\ Publishers \subseteq PublishAgents
      /\ \A a \in PublishAgents : a \in Publishers \/ a = PublishFlusher
      /\ LimitPublishers \in Nat /\ LimitPublishers >= 1
  BY PublisherAssumption DEF PublishAgents
<1>b. /\ pubPc \in [PublishAgents -> PublisherPcs \cup FlusherPcs]
      /\ publishers \in Nat /\ IsFiniteSet(Live)
  BY LiveFinite DEF PubTypeInv, PubTypeOK
<1>1. CASE UNCHANGED <<pubPc, publishers>>
  BY <1>1 DEF Live
(* A publisher that stays alive and does not come to decide on a spawn.    *)
<1>2. ASSUME NEW a \in PublishAgents, NEW l,
             l \notin {"none", "start", "limit", "spawn"},
             pubPc[a] \notin {"none", "start"},
             PubGoto(a, l), UNCHANGED publishers
      PROVE  LimitInv'
  <2>1. Live' = Live
    BY <1>2, <1>a, <1>b DEF Live
  <2> QED BY <2>1, <1>2, <1>a, <1>b
<1>3. ASSUME NEW a \in PublishAgents, PublishCall(a)
      PROVE  LimitInv'
  <2>1. /\ pubPc[a] = "publish" /\ UNCHANGED publishers
        /\ \/ PubGoto(a, PubCaller(a))
           \/ PubGoto(a, "forward")
    BY <1>3 DEF PublishCall, BatchPublish
  <2>2. PubGoto(a, "ticker") \/ PubGoto(a, "getFullBatch") \/ PubGoto(a, "forward")
    BY <2>1 DEF PubCaller
  <2> QED BY <2>1, <2>2, <1>2
<1>4. ASSUME NEW a \in PublishAgents, ForwardPublished(a)
      PROVE  LimitInv'
  <2>1. /\ pubPc[a] = "forward" /\ UNCHANGED publishers
        /\ \/ PubGoto(a, PubCaller(a))
           \/ UNCHANGED pubPc
    BY <1>4 DEF ForwardPublished
  <2>2. PubGoto(a, "ticker") \/ PubGoto(a, "getFullBatch") \/ UNCHANGED pubPc
    BY <2>1 DEF PubCaller
  <2> QED BY <2>1, <2>2, <1>1, <1>2
<1>5. ASSUME NEW p \in Publishers, CheckLimitPublishers(p)
      PROVE  LimitInv'
  <2>1. p = RootPublisher /\ pubPc[p] = "limit" /\ UNCHANGED publishers
    BY <1>5 DEF CheckLimitPublishers
  <2>2. Live' = Live
    BY <1>5, <1>a, <1>b DEF CheckLimitPublishers, Live
  <2>3. CASE publishers < LimitPublishers
    BY <2>1, <2>2, <2>3, <1>5, <1>a, <1>b DEF CheckLimitPublishers, BelowLimitPublishers
  <2>4. CASE ~(publishers < LimitPublishers)
    BY <2>1, <2>2, <2>4, <1>5, <1>a, <1>b DEF CheckLimitPublishers, BelowLimitPublishers
  <2> QED BY <2>3, <2>4
<1>6. ASSUME NEW p \in Publishers, NEW q \in Publishers, SpawnPublisher(p, q)
      PROVE  LimitInv'
  <2>1. /\ p = RootPublisher /\ p # q /\ pubPc[q] = "none"
        /\ publishers < LimitPublishers /\ publishers' = publishers + 1
        /\ pubPc' = [pubPc EXCEPT ![p] = "range", ![q] = "range"]
        /\ pubPc[p] = "spawn"
    BY <1>6 DEF SpawnPublisher
  <2>2. q \notin Live /\ Live' = Live \cup {q}
    BY <2>1, <1>a, <1>b DEF Live
  <2>3. Cardinality(Live') = Cardinality(Live) + 1
    BY <2>2, <1>b, FS_AddElement
  <2>4. publishers' <= LimitPublishers
    BY <2>1, <1>a, <1>b
  <2> QED BY <2>1, <2>3, <2>4, <1>a, <1>b
<1>7. ASSUME NEW p \in Publishers, ScaleDownPublisher(p)
      PROVE  LimitInv'
  <2>1. pubPc[p] = "load" /\ p # RootPublisher
    BY <1>7 DEF ScaleDownPublisher
  <2>2. CASE PubGoto(p, "range") /\ UNCHANGED publishers
    BY <2>1, <2>2, <1>2, <1>a
  <2>3. CASE PubGoto(p, "none") /\ publishers' = publishers - 1
    <3>1. p \in Live /\ Live' = Live \ {p}
      BY <2>1, <2>3, <1>a, <1>b DEF Live
    <3>2. Cardinality(Live') = Cardinality(Live) - 1
      BY <3>1, <1>b, FS_RemoveElement
    <3>3. publishers' <= LimitPublishers /\ publishers' < publishers
      BY <2>3, <1>a, <1>b
    <3>4. pubPc'[RootPublisher] = pubPc[RootPublisher]
      BY <2>1, <2>3, <1>a, <1>b
    <3>5. pubPc[RootPublisher] = "spawn" => publishers' < LimitPublishers
      BY <2>3, <3>3, <1>a, <1>b
    <3>6. \A q \in Publishers : pubPc'[q] \in {"limit", "spawn"} => q = RootPublisher
      BY <2>3, <1>a, <1>b
    <3>7. pubPc[RootPublisher] # "start"
      BY <3>1
    <3> QED BY <2>3, <3>2, <3>3, <3>4, <3>5, <3>6, <3>7
  <2> QED BY <2>2, <2>3, <1>7 DEF ScaleDownPublisher
<1>8. ASSUME NEW p \in Publishers, ScaleUpPublisher(p)
      PROVE  LimitInv'
  <2>1. p = RootPublisher /\ pubPc[p] = "load" /\ UNCHANGED publishers
    BY <1>8 DEF ScaleUpPublisher
  <2>2. PubGoto(p, "limit") \/ PubGoto(p, "range")
    BY <1>8 DEF ScaleUpPublisher
  <2>3. Live' = Live
    BY <2>1, <2>2, <1>a, <1>b DEF Live
  <2> QED BY <2>1, <2>2, <2>3, <1>a, <1>b
<1>9. ASSUME NEW p \in Publishers, PublisherStep(p)
      PROVE  LimitInv'
  <2>1. CASE TakePublish(p)
    BY <2>1, <1>2, <1>a DEF TakePublish
  <2>2. CASE AddPublish(p)
    BY <2>2, <1>2, <1>a DEF AddPublish
  <2>3. CASE DrainPublish(p)
    BY <2>3, <1>2, <1>a DEF DrainPublish
  <2>4. CASE DrainedPublish(p)
    BY <2>4, <1>2, <1>a DEF DrainedPublish
  <2> QED BY <1>9, <2>1, <2>2, <2>3, <2>4, <1>4, <1>5, <1>6, <1>7, <1>8, <1>a
          DEF PublisherStep
<1>10. CASE PublishFlusherStep
  <2>1. CASE TickPublish
    BY <2>1, <1>2, <1>a DEF TickPublish
  <2>2. CASE FlushPublish
    <3>1. PubGoto(PublishFlusher, "publish") \/ PubGoto(PublishFlusher, "ticker")
      BY <2>2 DEF FlushPublish
    <3> QED BY <2>2, <3>1, <1>2, <1>a DEF FlushPublish
  <2> QED BY <1>10, <2>1, <2>2, <1>4, <1>a DEF PublishFlusherStep
<1>11. CASE StartRootPublisher
  <2>1. /\ pubPc[RootPublisher] = "start" /\ publishers' = publishers + 1
        /\ pubPc' = [pubPc EXCEPT ![RootPublisher] = "range",
                                  ![PublishFlusher] = "ticker"]
    BY <1>11 DEF StartRootPublisher
  <2>2. Live = {} /\ publishers = 0
    BY <2>1, FS_EmptySet
  <2>3. Live' = {RootPublisher}
    BY <2>1, <2>2, <1>a, <1>b DEF Live
  <2>4. Cardinality(Live') = 1
    BY <2>3, FS_Singleton
  <2> QED BY <2>1, <2>2, <2>4, <1>a, <1>b
<1>12. CASE Environment \/ ElapsePublish \/ UNCHANGED vars
  BY <1>1, <1>12 DEF Environment, Deliver, Dispose, ElapsePublish, vars, pubVars
<1> QED BY <1>3, <1>9, <1>10, <1>11, <1>12 DEF Next, PublishersStep

(* The counter is the number of publishers, and never above the limit.     *)
THEOREM PublishersLimited == Spec => []PublisherLimit
<1>1. Init => LimitInv
  <2> SUFFICES ASSUME Init PROVE LimitInv
    OBVIOUS
  <2>1. publishers = 0 /\ pubPc = PubPcInit
    BY DEF Init, PubInit, PubInitProc
  <2>2. Live = {}
    BY <2>1 DEF PubPcInit, Live, PublishAgents
  <2>3. \A p \in Publishers : pubPc[p] \notin {"limit", "spawn"}
    BY <2>1 DEF PubPcInit, PublishAgents
  <2> QED BY <2>1, <2>2, <2>3, FS_EmptySet, PublisherAssumption
          DEF LimitInv, PublisherLimit
<1>2. LimitInv => PublisherLimit
  BY DEF LimitInv
<1> QED BY <1>1, <1>2, TypeInvariant, NextLimitInv, PTL DEF Spec

-----------------------------------------------------------------------------
(* A publisher that stops owing a drain has seen that there is no full     *)
(* batch, and the flusher cannot leave one behind.                         *)
LEMMA NextNoStrandedBatch ==
  PubTypeInv /\ NoStrandedBatch /\ [Next]_vars => NoStrandedBatch'
<1> SUFFICES ASSUME PubTypeInv, NoStrandedBatch, [Next]_vars
             PROVE  NoStrandedBatch'
  OBVIOUS
<1> USE DEF PubGoto, PubHold, chVars, pubProcVars
<1>a. /\ PublishFlusher \notin Publishers /\ RootPublisher \in Publishers
      /\ PublishFlusher \in PublishAgents /\ Publishers \subseteq PublishAgents
      /\ \A a \in PublishAgents : a \in Publishers \/ a = PublishFlusher
  BY PublisherAssumption DEF PublishAgents
<1>b. /\ publishPool \in Seq(Delivery)
      /\ pubPc \in [PublishAgents -> PublisherPcs \cup FlusherPcs]
  BY DEF PubTypeInv, PubTypeOK
<1>1. ASSUME OwingDrain \subseteq OwingDrain', publishPool' = publishPool
      PROVE  NoStrandedBatch'
  BY <1>1 DEF NoStrandedBatch
<1>2. ASSUME NEW p \in Publishers, p \in OwingDrain'
      PROVE  NoStrandedBatch'
  BY <1>2 DEF NoStrandedBatch
<1>3. ASSUME NEW p \in Publishers, AddPublish(p) \/ DrainPublish(p)
      PROVE  NoStrandedBatch'
  <2>1. p \in OwingDrain'
    BY <1>3, <1>a, <1>b DEF AddPublish, DrainPublish, OwingDrain
  <2> QED BY <2>1, <1>2
<1>4. ASSUME NEW p \in Publishers, DrainedPublish(p)
      PROVE  NoStrandedBatch'
  BY <1>4 DEF DrainedPublish, NoStrandedBatch
<1>5. ASSUME NEW a \in PublishAgents, PublishCall(a)
      PROVE  NoStrandedBatch'
  <2>1. /\ publishPool' = publishPool /\ pubPc[a] = "publish"
        /\ \/ pubPc' = [pubPc EXCEPT ![a] = PubCaller(a)]
           \/ pubPc' = [pubPc EXCEPT ![a] = "forward"]
    BY <1>5 DEF PublishCall, BatchPublish
  <2>2. OwingDrain \subseteq OwingDrain'
    BY <2>1, <1>a, <1>b DEF OwingDrain, PubCaller
  <2> QED BY <2>1, <2>2, <1>1
<1>6. ASSUME NEW a \in PublishAgents, ForwardPublished(a)
      PROVE  NoStrandedBatch'
  <2>1. /\ publishPool' = publishPool /\ pubPc[a] = "forward"
        /\ \/ pubPc' = [pubPc EXCEPT ![a] = PubCaller(a)]
           \/ pubPc' = pubPc
    BY <1>6 DEF ForwardPublished
  <2>2. OwingDrain \subseteq OwingDrain'
    BY <2>1, <1>a, <1>b DEF OwingDrain, PubCaller
  <2> QED BY <2>1, <2>2, <1>1
(* The flusher takes part of the pool only if somebody owes a drain, for   *)
(* otherwise there is no full batch and it takes all.                      *)
<1>7. CASE FlushPublish
  <2>1. OwingDrain' = OwingDrain
    BY <1>7, <1>a, <1>b DEF FlushPublish, OwingDrain
  <2>2. CASE OwingDrain # {}
    BY <2>1, <2>2 DEF NoStrandedBatch
  <2>3. CASE ~Available(publishPool)
    BY <1>7, <1>1, <2>1, <2>3 DEF FlushPublish
  <2>4. CASE OwingDrain = {} /\ Available(publishPool)
    <3>1. ~FullBatchFound(publishPool)
      BY <2>4 DEF NoStrandedBatch
    <3>2. publishPool' = <<>>
      BY <1>7, <1>b, <2>4, <3>1, NotFullAllAvailable DEF FlushPublish
    <3> QED BY <3>2, EmptyNotFull DEF NoStrandedBatch
  <2> QED BY <2>2, <2>3, <2>4
<1>8. ASSUME NEW p \in Publishers, PublisherStep(p)
      PROVE  NoStrandedBatch'
  <2>1. CASE \/ TakePublish(p) \/ ScaleUpPublisher(p) \/ CheckLimitPublishers(p)
             \/ ScaleDownPublisher(p) \/ \E q \in Publishers : SpawnPublisher(p, q)
    <3>1. publishPool' = publishPool
      BY <2>1 DEF TakePublish, ScaleUpPublisher, CheckLimitPublishers, ScaleDownPublisher,
                  SpawnPublisher
    <3>2. /\ pubPc[p] \notin {"getFullBatch", "publish", "forward"}
          /\ \/ \E l : PubGoto(p, l)
             \/ \E q \in Publishers :
                  pubPc[q] = "none" /\ pubPc' = [pubPc EXCEPT ![p] = "range", ![q] = "range"]
      BY <2>1 DEF TakePublish, ScaleUpPublisher, CheckLimitPublishers, ScaleDownPublisher,
                  SpawnPublisher
    <3>3. OwingDrain \subseteq OwingDrain'
      BY <3>2, <1>a, <1>b DEF OwingDrain
    <3> QED BY <3>1, <3>3, <1>1
  <2> QED BY <1>8, <2>1, <1>3, <1>4, <1>6, <1>a DEF PublisherStep
<1>9. CASE StartRootPublisher
  <2>1. OwingDrain \subseteq OwingDrain'
    BY <1>9, <1>a, <1>b DEF StartRootPublisher, OwingDrain
  <2> QED BY <2>1, <1>1, <1>9 DEF StartRootPublisher
<1>10. CASE TickPublish
  <2>1. OwingDrain \subseteq OwingDrain'
    BY <1>10, <1>a, <1>b DEF TickPublish, OwingDrain
  <2> QED BY <2>1, <1>1, <1>10 DEF TickPublish
<1>11. ASSUME UNCHANGED <<pubPc, publishPool>>
       PROVE  NoStrandedBatch'
  BY <1>11, <1>1 DEF OwingDrain
<1>12. CASE Environment \/ ElapsePublish \/ UNCHANGED vars
  BY <1>11, <1>12 DEF Environment, Deliver, Dispose, ElapsePublish, vars, pubVars
<1> QED BY <1>5, <1>6, <1>7, <1>8, <1>9, <1>10, <1>12, <1>a
        DEF Next, PublishersStep, PublishFlusherStep

(* A full batch never waits for the flush interval: while the pool has one *)
(* some publisher has still to ask for it.                                 *)
THEOREM NoneStranded == Spec => []NoStrandedBatch
<1>1. Init => NoStrandedBatch
  BY EmptyNotFull DEF Init, PubInit, PubInitProc, NoStrandedBatch
<1> QED BY <1>1, TypeInvariant, NextNoStrandedBatch, PTL DEF Spec

-----------------------------------------------------------------------------
(* The payload of a batch, message by message: the recursive function      *)
(* exists, so it satisfies its definition.                                 *)
SumsUp(f, batch, n) ==
  f = [i \in 0..n |-> IF i = 0 THEN 0 ELSE f[i - 1] + Weight(batch[i])]

LEMMA PayloadExists ==
  ASSUME NEW batch
  PROVE  \A n \in Nat : \E f : SumsUp(f, batch, n)
<1> DEFINE S == {n \in Nat : \E f : SumsUp(f, batch, n)}
<1>1. 0 \in S
  <2> DEFINE f == [i \in 0..0 |-> 0]
  <2>1. f = [i \in 0..0 |-> IF i = 0 THEN 0 ELSE f[i - 1] + Weight(batch[i])]
    OBVIOUS
  <2>2. SumsUp(f, batch, 0)
    BY <2>1 DEF SumsUp
  <2> QED BY <2>2
<1>2. ASSUME NEW n \in Nat, n \in S
      PROVE  n + 1 \in S
  <2>1. PICK f : SumsUp(f, batch, n)
    BY <1>2
  <2> DEFINE g == [i \in 0..(n + 1) |-> IF i = n + 1 THEN f[n] + Weight(batch[i]) ELSE f[i]]
             Rhs(i) == IF i = 0 THEN 0 ELSE g[i - 1] + Weight(batch[i])
  <2>2. \A i \in 0..n : f[i] = IF i = 0 THEN 0 ELSE f[i - 1] + Weight(batch[i])
    BY <2>1, Zenon DEF SumsUp
  <2>3. \A i \in 0..n : g[i] = f[i]
    OBVIOUS
  <2>4. ASSUME NEW i \in 0..(n + 1)
        PROVE  g[i] = Rhs(i)
    <3>1. CASE i = 0
      <4>1. g[i] = f[i] /\ f[i] = 0
        BY <2>2, <2>3, <3>1
      <4> QED BY <3>1, <4>1
    <3>2. CASE i # 0 /\ i # n + 1
      <4>1. i \in 0..n /\ i - 1 \in 0..n
        BY <3>2
      <4>2. g[i] = f[i] /\ g[i - 1] = f[i - 1]
        BY <2>3, <4>1
      <4>3. f[i] = f[i - 1] + Weight(batch[i])
        BY <2>2, <3>2, <4>1
      <4> HIDE DEF g
      <4> QED BY <3>2, <4>2, <4>3
    <3>3. CASE i = n + 1
      <4>1. i # 0 /\ i - 1 = n
        BY <3>3
      <4>2. g[i] = f[n] + Weight(batch[i])
        BY <3>3
      <4>3. g[n] = f[n]
        BY <2>3
      <4> HIDE DEF g
      <4> QED BY <4>1, <4>2, <4>3
    <3> QED BY <3>1, <3>2, <3>3
  <2>5. DOMAIN g = 0..(n + 1) /\ g = [i \in 0..(n + 1) |-> g[i]]
    OBVIOUS
  <2>6. SumsUp(g, batch, n + 1)
    <3>1. g = [i \in 0..(n + 1) |-> Rhs(i)]
      <4> HIDE DEF g, Rhs
      <4> QED BY <2>4, <2>5
    <3> HIDE DEF g
    <3> QED BY <3>1 DEF SumsUp
  <2> HIDE DEF g
  <2> QED BY <2>6
<1> HIDE DEF S
<1>3. Nat \subseteq S
  BY <1>1, <1>2, NatSetInduction
<1> QED BY <1>3 DEF S

LEMMA PayloadUnfolds ==
  ASSUME NEW batch \in Seq(Delivery)
  PROVE  /\ Payload(batch)[0] = 0
         /\ \A i \in 1..Len(batch) :
              Payload(batch)[i] = Payload(batch)[i - 1] + Weight(batch[i])
<1>1. Len(batch) \in Nat
  OBVIOUS
<1>2. PICK f : SumsUp(f, batch, Len(batch))
  BY <1>1, PayloadExists
<1>3. Payload(batch) = CHOOSE g : SumsUp(g, batch, Len(batch))
  BY DEF Payload, SumsUp
<1>4. SumsUp(Payload(batch), batch, Len(batch))
  BY <1>2, <1>3
<1>5. \A i \in 0..Len(batch) :
        Payload(batch)[i] = IF i = 0 THEN 0 ELSE Payload(batch)[i - 1] + Weight(batch[i])
  BY <1>4, Zenon DEF SumsUp
<1>6. 0 \in 0..Len(batch) /\ \A i \in 1..Len(batch) : i \in 0..Len(batch) /\ i # 0
  BY <1>1
<1> QED BY <1>5, <1>6

(* One message more adds its weight, padding included.                     *)
LEMMA PayloadAppend ==
  ASSUME NEW batch \in Seq(Delivery), NEW d \in Delivery
  PROVE  Payload(Append(batch, d))[Len(batch) + 1] = Payload(batch)[Len(batch)] + Weight(d)
<1> DEFINE n == Len(batch)
           more == Append(batch, d)
           S == {i \in Nat : i <= n => Payload(more)[i] = Payload(batch)[i]}
<1>1. /\ n \in Nat /\ more \in Seq(Delivery) /\ Len(more) = n + 1
      /\ more[n + 1] = d
      /\ \A i \in 1..n : more[i] = batch[i]
  OBVIOUS
<1> HIDE DEF more
<1>2. /\ Payload(more)[0] = 0
      /\ \A i \in 1..(n + 1) : Payload(more)[i] = Payload(more)[i - 1] + Weight(more[i])
  BY <1>1, PayloadUnfolds
<1>3. /\ Payload(batch)[0] = 0
      /\ \A i \in 1..n : Payload(batch)[i] = Payload(batch)[i - 1] + Weight(batch[i])
  BY PayloadUnfolds
<1>4. 0 \in S
  BY <1>2, <1>3
<1>5. ASSUME NEW i \in Nat, i \in S
      PROVE  i + 1 \in S
  <2>1. SUFFICES ASSUME i + 1 <= n
                 PROVE  Payload(more)[i + 1] = Payload(batch)[i + 1]
    OBVIOUS
  <2>2. /\ i + 1 \in 1..n /\ i + 1 \in 1..(n + 1) /\ (i + 1) - 1 = i
        /\ Payload(more)[i] = Payload(batch)[i]
    BY <1>1, <1>5, <2>1
  <2> QED BY <1>1, <1>2, <1>3, <2>2
<1> HIDE DEF S
<1>6. Nat \subseteq S
  BY <1>4, <1>5, NatSetInduction
<1>7. Payload(more)[n] = Payload(batch)[n]
  BY <1>1, <1>6 DEF S
<1>8. n + 1 \in 1..(n + 1) /\ (n + 1) - 1 = n
  BY <1>1
<1>9. Payload(more)[n + 1] = Payload(more)[n] + Weight(d)
  BY <1>1, <1>2, <1>8
<1> QED BY <1>7, <1>9 DEF more

(* What findIndices adds up while it scans is the payload of what it takes. *)
LEMMA ScanPayload ==
  ASSUME NEW buf \in Seq(Delivery)
  PROVE  \A i \in 0..Len(buf) :
           LET batch == Pick(buf, Scan(buf)[i].indices)
           IN Payload(batch)[Len(batch)] = Scan(buf)[i].payloadSum
<1> DEFINE B(i) == Pick(buf, Scan(buf)[i].indices)
           S == {i \in Nat : i <= Len(buf) => Payload(B(i))[Len(B(i))] = Scan(buf)[i].payloadSum}
<1>0. Len(buf) \in Nat /\ DOMAIN buf = 1..Len(buf)
  OBVIOUS
<1>1. 0 \in S
  <2>1. Scan(buf)[0] = [indices |-> {}, payloadSum |-> 0]
    BY ScanUnfolds
  <2>2. Scan(buf)[0].indices = {} /\ Scan(buf)[0].payloadSum = 0
    BY <2>1
  <2>3. Pick(buf, {}) \in Seq(Delivery) /\ Len(Pick(buf, {})) = 0
    <3>1. {} \in SUBSET DOMAIN buf /\ Cardinality({}) = 0
      BY FS_EmptySet
    <3> QED BY <3>1, PickType
  <2>4. Payload(Pick(buf, {}))[0] = 0
    BY <2>3, PayloadUnfolds
  <2>5. Payload(B(0))[Len(B(0))] = Scan(buf)[0].payloadSum
    BY <2>2, <2>3, <2>4
  <2> HIDE DEF B
  <2> QED BY <2>5
<1>2. ASSUME NEW i \in Nat, i \in S
      PROVE  i + 1 \in S
  <2>1. SUFFICES ASSUME i + 1 <= Len(buf)
                 PROVE  Payload(B(i + 1))[Len(B(i + 1))] = Scan(buf)[i + 1].payloadSum
    OBVIOUS
  <2> DEFINE t == Scan(buf)[i]
             I == t.indices
             d == buf[i + 1]
  <2>2. Payload(Pick(buf, I))[Len(Pick(buf, I))] = t.payloadSum
    BY <1>0, <1>2, <2>1
  <2>3. i + 1 \in 1..Len(buf) /\ (i + 1) - 1 = i /\ d \in Delivery /\ i \in 0..Len(buf)
    BY <1>0, <2>1
  <2>4. Scan(buf)[i + 1] = Consider(t, buf, i + 1)
    BY <2>3, ScanUnfolds
  <2>5. I \in SUBSET (1..i)
    BY <2>3, ScanInvariant DEF Taken
  <2>6. CASE ~RoomFor(t, d)
    <3>1. Scan(buf)[i + 1] = t
      BY <2>4, <2>6 DEF Consider
    <3> QED BY <2>2, <3>1
  <2>7. CASE RoomFor(t, d)
    <3>1. Scan(buf)[i + 1] = [indices |-> I \cup {i + 1}, payloadSum |-> t.payloadSum + Weight(d)]
      BY <2>4, <2>7 DEF Consider
    <3>2. /\ B(i + 1) = Pick(buf, I \cup {i + 1})
          /\ Scan(buf)[i + 1].payloadSum = t.payloadSum + Weight(d)
      BY <3>1
    <3> HIDE DEF t, I, d, B
    <3>3. Pick(buf, I \cup {i + 1}) = Append(Pick(buf, I), d)
      BY <2>1, <2>5, PickAppend DEF d
    <3>4. I \in SUBSET DOMAIN buf
      BY <1>0, <2>1, <2>5
    <3>5. Pick(buf, I) \in Seq(Delivery)
      BY <3>4, PickType
    <3> DEFINE b == Pick(buf, I)
    <3>6. b \in Seq(Delivery) /\ Payload(b)[Len(b)] = t.payloadSum /\ B(i + 1) = Append(b, d)
      BY <2>2, <3>2, <3>3, <3>5
    <3> HIDE DEF b
    <3>7. Len(Append(b, d)) = Len(b) + 1
      BY <2>3, <3>6
    <3>8. Payload(Append(b, d))[Len(b) + 1] = Payload(b)[Len(b)] + Weight(d)
      BY <2>3, <3>6, PayloadAppend
    <3> QED BY <3>2, <3>6, <3>7, <3>8
  <2> QED BY <2>6, <2>7
<1> HIDE DEF S
<1>3. Nat \subseteq S
  BY <1>1, <1>2, NatSetInduction
<1> QED BY <1>3 DEF S

LEMMA BatchPayload ==
  ASSUME NEW buf \in Seq(Delivery)
  PROVE  Payload(Batch(buf))[Len(Batch(buf))] <= MaxSnsPublishPayload
<1>1. Len(buf) \in 0..Len(buf)
  OBVIOUS
<1>2. Payload(Batch(buf))[Len(Batch(buf))] = FindIndices(buf).payloadSum
  BY <1>1, ScanPayload DEF Batch, FindIndices
<1> QED BY <1>2, FindIndicesType, PoolAssumption

Publishable(batch) ==
  /\ Len(batch) \in 1..MaxBatchItems
  /\ Payload(batch)[Len(batch)] <= MaxSnsPublishPayload

BatchInv == \A a \in PublishAgents : pubPc[a] = "publish" => Publishable(pubBatch[a])

(* Only getFullBatch and getAvailable lead to a publish.                   *)
LEMMA NextBatchInv == PubTypeInv /\ BatchInv /\ [Next]_vars => BatchInv'
<1> SUFFICES ASSUME PubTypeInv, BatchInv, [Next]_vars
             PROVE  BatchInv'
  OBVIOUS
<1> USE DEF PubGoto, PubHold, chVars, pubProcVars
<1>a. /\ PublishFlusher \in PublishAgents /\ Publishers \subseteq PublishAgents
      /\ \A a \in PublishAgents : a \in Publishers \/ a = PublishFlusher
  BY DEF PublishAgents
<1>b. /\ publishPool \in Seq(Delivery)
      /\ pubPc \in [PublishAgents -> PublisherPcs \cup FlusherPcs]
      /\ pubBatch \in [PublishAgents -> Seq(Delivery)]
  BY DEF PubTypeInv, PubTypeOK
<1>1. ASSUME FullBatchFound(publishPool) \/ Available(publishPool)
      PROVE  Publishable(Batch(publishPool))
  BY <1>1, <1>b, BatchNotEmpty, BatchPayload DEF Publishable
<1>2. ASSUME NEW a \in PublishAgents, PubHold(a, Batch(publishPool)), PubGoto(a, "publish"),
             FullBatchFound(publishPool) \/ Available(publishPool)
      PROVE  BatchInv'
  <2>1. Publishable(pubBatch'[a])
    BY <1>1, <1>2, <1>b
  <2>2. \A b \in PublishAgents \ {a} : pubBatch'[b] = pubBatch[b] /\ pubPc'[b] = pubPc[b]
    BY <1>2, <1>b
  <2> QED BY <2>1, <2>2 DEF BatchInv
<1>3. ASSUME NEW a \in PublishAgents, NEW l, l # "publish", PubGoto(a, l),
             \A b \in PublishAgents \ {a} : pubBatch'[b] = pubBatch[b]
      PROVE  BatchInv'
  <2>1. \A b \in PublishAgents \ {a} : pubPc'[b] = pubPc[b]
    BY <1>3, <1>b
  <2>2. pubPc'[a] # "publish"
    BY <1>3, <1>b
  <2> QED BY <2>1, <2>2, <1>3 DEF BatchInv
<1>4. ASSUME UNCHANGED <<pubPc, pubBatch>> PROVE BatchInv'
  BY <1>4 DEF BatchInv
<1>5. ASSUME NEW a \in PublishAgents, PublishCall(a) PROVE BatchInv'
  <2>1. /\ \E l : l # "publish" /\ PubGoto(a, l)
        /\ UNCHANGED pubBatch \/ PubHold(a, <<>>)
    BY <1>5 DEF PublishCall, BatchPublish, PubCaller
  <2> QED BY <2>1, <1>3, <1>b
<1>6. ASSUME NEW a \in PublishAgents, ForwardPublished(a) PROVE BatchInv'
  <2>1. \/ UNCHANGED <<pubPc, pubBatch>>
        \/ /\ \E l : l # "publish" /\ PubGoto(a, l)
           /\ PubHold(a, <<>>)
    BY <1>6 DEF ForwardPublished, PubCaller
  <2> QED BY <2>1, <1>3, <1>4, <1>b
<1>7. ASSUME NEW p \in Publishers, PublisherStep(p) PROVE BatchInv'
  <2>1. CASE TakePublish(p) \/ AddPublish(p)
    <3>1. /\ \E l : l # "publish" /\ PubGoto(p, l)
          /\ \E batch : PubHold(p, batch)
      BY <2>1 DEF TakePublish, AddPublish
    <3> QED BY <3>1, <1>3, <1>a, <1>b
  <2>2. CASE DrainPublish(p)
    BY <2>2, <1>2, <1>a DEF DrainPublish
  <2>3. CASE \/ DrainedPublish(p) \/ ScaleUpPublisher(p) \/ CheckLimitPublishers(p)
             \/ ScaleDownPublisher(p)
    <3>1. UNCHANGED pubBatch /\ \E l : l # "publish" /\ PubGoto(p, l)
      BY <2>3 DEF DrainedPublish, ScaleUpPublisher, CheckLimitPublishers, ScaleDownPublisher
    <3> QED BY <3>1, <1>3, <1>a
  <2>4. ASSUME NEW q \in Publishers, SpawnPublisher(p, q) PROVE BatchInv'
    <3>1. UNCHANGED pubBatch /\ pubPc' = [pubPc EXCEPT ![p] = "range", ![q] = "range"]
      BY <2>4 DEF SpawnPublisher
    <3> QED BY <3>1, <1>a, <1>b DEF BatchInv
  <2> QED BY <1>7, <2>1, <2>2, <2>3, <2>4, <1>6, <1>a DEF PublisherStep
<1>8. CASE FlushPublish
  <2>1. CASE Available(publishPool)
    BY <1>8, <2>1, <1>2, <1>a DEF FlushPublish
  <2>2. CASE ~Available(publishPool)
    BY <1>8, <2>2, <1>3, <1>a DEF FlushPublish
  <2> QED BY <2>1, <2>2
<1>9. CASE TickPublish
  BY <1>9, <1>3, <1>a DEF TickPublish
<1>10. CASE StartRootPublisher
  <2>1. /\ UNCHANGED pubBatch
        /\ pubPc' = [pubPc EXCEPT ![RootPublisher] = "range", ![PublishFlusher] = "ticker"]
    BY <1>10 DEF StartRootPublisher
  <2> QED BY <2>1, <1>a, <1>b DEF BatchInv
<1>11. CASE Environment \/ ElapsePublish \/ UNCHANGED vars
  BY <1>11, <1>4 DEF Environment, Deliver, Dispose, ElapsePublish, vars, pubVars
<1> QED BY <1>5, <1>6, <1>7, <1>8, <1>9, <1>10, <1>11, <1>a
        DEF Next, PublishersStep, PublishFlusherStep

(* PublishBatch is never asked for nothing, for too many messages, for too *)
(* large a payload, or for two entries with one id.                        *)
THEOREM BatchesLegal == Spec => []BatchLegal
<1>1. Init => BatchInv
  BY PublisherAssumption DEF Init, PubInit, PubInitProc, PubPcInit, BatchInv
<1>2. BatchInv => BatchLegal
  BY DEF BatchInv, Publishable, BatchLegal, DistinctIDs, BatchEntryID
<1> QED BY <1>1, <1>2, TypeInvariant, NextBatchInv, PTL DEF Spec

-----------------------------------------------------------------------------
LEMMA NextIdle == PubTypeInv /\ PubIdle /\ [Next]_vars => PubIdle'
<1> SUFFICES ASSUME PubTypeInv, PubIdle, [Next]_vars PROVE PubIdle'
  OBVIOUS
<1>1. CASE Environment \/ UNCHANGED vars
  BY <1>1 DEF PubIdle, Environment, Deliver, Dispose, vars, pubVars, pubProcVars
<1> QED BY <1>1, PubStepIdle, PubCallIdle DEF Next

-----------------------------------------------------------------------------
(* What Held says, in numbers.                                             *)
LEMMA HeldCounts ==
  ASSUME PubTypeInv, NEW d
  PROVE  Held(d) <=> PubStored(d) > 0 \/ \E a \in PublishAgents : PubInHand(a, d) > 0
<1>1. /\ publishCh \in Seq(Delivery) /\ deleteCh \in Seq(Delivery)
      /\ publishPool \in Seq(Delivery)
  BY DEF PubTypeInv, PubTypeOK, ChTypeOK
<1>2. /\ Occurrences(publishCh, d) = 0 <=> d \notin {publishCh[i] : i \in DOMAIN publishCh}
      /\ Occurrences(publishPool, d) = 0 <=> d \notin {publishPool[i] : i \in DOMAIN publishPool}
      /\ Occurrences(deleteCh, d) = 0 <=> d \notin {deleteCh[i] : i \in DOMAIN deleteCh}
  <2>1. /\ Occurrences(publishCh, d) = 0 <=> \A i \in DOMAIN publishCh : publishCh[i] # d
        /\ Occurrences(publishPool, d) = 0 <=> \A i \in DOMAIN publishPool : publishPool[i] # d
        /\ Occurrences(deleteCh, d) = 0 <=> \A i \in DOMAIN deleteCh : deleteCh[i] # d
    BY <1>1, OccurrencesType
  <2> QED BY <2>1
<1>3. PubStored(d) > 0 <=> \/ Occurrences(publishCh, d) # 0
                        \/ Occurrences(publishPool, d) # 0
                        \/ Occurrences(deleteCh, d) # 0
  BY PubCounts DEF PubStored
<1> QED BY <1>2, <1>3 DEF Held

LEMMA HeldCountsNext ==
  ASSUME PubTypeInv', NEW d
  PROVE  Held(d)' <=> PubStored(d)' > 0 \/ \E a \in PublishAgents : PubInHand(a, d)' > 0
<1>1. /\ publishCh' \in Seq(Delivery) /\ deleteCh' \in Seq(Delivery)
      /\ publishPool' \in Seq(Delivery)
  BY DEF PubTypeInv, PubTypeOK, ChTypeOK
<1>2. /\ Occurrences(publishCh', d) = 0 <=> d \notin {publishCh'[i] : i \in DOMAIN publishCh'}
      /\ Occurrences(publishPool', d) = 0 <=> d \notin {publishPool'[i] : i \in DOMAIN publishPool'}
      /\ Occurrences(deleteCh', d) = 0 <=> d \notin {deleteCh'[i] : i \in DOMAIN deleteCh'}
      /\ Occurrences(publishCh', d) \in Nat /\ Occurrences(publishPool', d) \in Nat
      /\ Occurrences(deleteCh', d) \in Nat
  <2>1. /\ Occurrences(publishCh', d) = 0 <=> \A i \in DOMAIN publishCh' : publishCh'[i] # d
        /\ Occurrences(publishPool', d) = 0 <=> \A i \in DOMAIN publishPool' : publishPool'[i] # d
        /\ Occurrences(deleteCh', d) = 0 <=> \A i \in DOMAIN deleteCh' : deleteCh'[i] # d
        /\ Occurrences(publishCh', d) \in Nat /\ Occurrences(publishPool', d) \in Nat
        /\ Occurrences(deleteCh', d) \in Nat
    BY <1>1, OccurrencesType
  <2> QED BY <2>1
<1>3. PubStored(d)' > 0 <=> \/ Occurrences(publishCh', d) # 0
                         \/ Occurrences(publishPool', d) # 0
                         \/ Occurrences(deleteCh', d) # 0
  BY <1>2 DEF PubStored
<1> QED BY <1>2, <1>3 DEF Held

(* A reader's send, and what a janitor takes.                              *)
LEMMA DeliverAdds ==
  ASSUME PubTypeInv, NEW e \in Arrivals, Deliver(e), NEW d
  PROVE  /\ ~Held(e)
         /\ PubStored(d)' = PubStored(d) + (IF e = d THEN 1 ELSE 0)
         /\ \A a \in PublishAgents : PubInHand(a, d)' = PubInHand(a, d)
<1>1. /\ e \in Delivery /\ publishCh' = Append(publishCh, e) /\ ~Held(e)
      /\ UNCHANGED <<publishPool, deleteCh, pubPc, pubBatch, pubOk>>
  BY ArrivalsAssumption DEF Deliver, SendPublish, pubProcVars
<1>2. publishCh \in Seq(Delivery)
  BY DEF PubTypeInv, PubTypeOK, ChTypeOK
<1>3. /\ Occurrences(Append(publishCh, e), d)
           = Occurrences(publishCh, d) + Occurrences(<<e>>, d)
  BY <1>1, <1>2, OccurrencesAppend
<1>4. Occurrences(publishCh', d) = Occurrences(publishCh, d) + (IF e = d THEN 1 ELSE 0)
  BY <1>1, <1>3, OccurrencesOne
<1>5. \A a \in PublishAgents : PubInHand(a, d)' = PubInHand(a, d)
  BY <1>1 DEF PubInHand
<1>6. /\ Occurrences(publishPool', d) = Occurrences(publishPool, d)
      /\ Occurrences(deleteCh', d) = Occurrences(deleteCh, d)
  BY <1>1
<1> QED BY <1>1, <1>4, <1>5, <1>6, PubCounts DEF PubStored

LEMMA DisposeTakes ==
  ASSUME PubTypeInv, Dispose, NEW d
  PROVE  /\ deleteCh # <<>> /\ deleteCh' = Tail(deleteCh)
         /\ PubStored(d)' = PubStored(d) - (IF Head(deleteCh) = d THEN 1 ELSE 0)
         /\ \A a \in PublishAgents : PubInHand(a, d)' = PubInHand(a, d)
<1>1. /\ deleteCh # <<>> /\ deleteCh' = Tail(deleteCh)
      /\ UNCHANGED <<publishPool, publishCh, pubPc, pubBatch, pubOk>>
  BY DEF Dispose, ReceiveDelete, pubVars, pubProcVars
<1>2. deleteCh \in Seq(Delivery)
  BY DEF PubTypeInv, PubTypeOK, ChTypeOK
<1>3. Occurrences(deleteCh, d)
        = Occurrences(<<Head(deleteCh)>>, d) + Occurrences(Tail(deleteCh), d)
  BY <1>1, <1>2, OccurrencesHeadTail
<1>4. Occurrences(<<Head(deleteCh)>>, d) = IF Head(deleteCh) = d THEN 1 ELSE 0
  BY OccurrencesOne
<1>5. \A a \in PublishAgents : PubInHand(a, d)' = PubInHand(a, d)
  BY <1>1 DEF PubInHand
<1>6. /\ Occurrences(publishPool', d) = Occurrences(publishPool, d)
      /\ Occurrences(publishCh', d) = Occurrences(publishCh, d)
      /\ Occurrences(deleteCh', d) = Occurrences(Tail(deleteCh), d)
  BY <1>1
<1>7. Tail(deleteCh) \in Seq(Delivery)
  BY <1>1, <1>2
<1>8. Occurrences(Tail(deleteCh), d) \in Nat
  BY <1>7, OccurrencesType
<1> QED BY <1>1, <1>3, <1>4, <1>5, <1>6, <1>8, PubCounts DEF PubStored

LEMMA StepLetsGo ==
  PubTypeInv /\ PubTypeInv' /\ PubIdle /\ [Next]_vars => [LetGoByCallOrJanitor]_vars
<1> SUFFICES ASSUME PubTypeInv, PubTypeInv', PubIdle, Next, NEW d \in Arrivals, Held(d), ~Held(d)'
             PROVE  \/ deleteCh # <<>> /\ deleteCh' = Tail(deleteCh) /\ d = Head(deleteCh)
                    \/ \E a \in PublishAgents : /\ pubPc[a] = "publish" /\ pubPc'[a] # "publish"
                                                /\ Occurrences(pubBatch[a], d) > 0
  BY DEF LetGoByCallOrJanitor
<1>a. /\ PubStored(d) \in Nat /\ PubStored(d)' \in Nat
      /\ \A a \in PublishAgents : PubInHand(a, d) \in Nat /\ PubInHand(a, d)' \in Nat
  BY PubCounts, PubCountsNext
<1>b. /\ PubStored(d) > 0 \/ \E a \in PublishAgents : PubInHand(a, d) > 0
      /\ PubStored(d)' = 0
      /\ \A a \in PublishAgents : PubInHand(a, d)' = 0
  BY <1>a, HeldCounts, HeldCountsNext
<1>1. CASE PublishersStep
  <2>1. PICK a \in PublishAgents : PubMoves(a, d)
    BY <1>1, PubStepMoves
  <2>2. /\ \A b \in PublishAgents \ {a} : PubInHand(b, d) = 0
        /\ PubStored(d) + PubInHand(a, d) = 0
    BY <1>b, <2>1 DEF PubMoves
  <2>3. PubStored(d) = 0 /\ PubInHand(a, d) = 0
    BY <1>a, <2>2
  <2> QED BY <1>b, <2>2, <2>3
<1>2. ASSUME NEW a \in PublishAgents, PublishCall(a)
      PROVE  /\ pubPc[a] = "publish" /\ pubPc'[a] # "publish"
             /\ Occurrences(pubBatch[a], d) > 0
  <2>1. /\ pubPc[a] = "publish" /\ pubPc'[a] # "publish"
        /\ UNCHANGED <<publishCh, publishPool, deleteCh>>
        /\ \A b \in PublishAgents \ {a} : PubInHand(b, d)' = PubInHand(b, d)
    BY <1>2, PubCallDrops
  <2>2. PubStored(d) = 0
    BY <1>b, <2>1 DEF PubStored
  <2>3. \A b \in PublishAgents \ {a} : PubInHand(b, d) = 0
    BY <1>b, <2>1
  <2>4. PubInHand(a, d) > 0
    BY <1>a, <1>b, <2>2, <2>3
  <2>5. PubInHand(a, d) = Occurrences(pubBatch[a], d)
    BY <2>1 DEF PubInHand
  <2> QED BY <2>1, <2>4, <2>5
<1>3. ASSUME NEW e \in Arrivals, Deliver(e) PROVE FALSE
  <2>1. /\ PubStored(d)' = PubStored(d) + (IF e = d THEN 1 ELSE 0)
        /\ \A a \in PublishAgents : PubInHand(a, d)' = PubInHand(a, d)
    BY <1>3, DeliverAdds
  <2>2. PubStored(d) = 0
    BY <1>a, <1>b, <2>1
  <2> QED BY <1>b, <2>1, <2>2
<1>4. CASE Dispose
  <2>1. /\ deleteCh # <<>> /\ deleteCh' = Tail(deleteCh)
        /\ PubStored(d)' = PubStored(d) - (IF Head(deleteCh) = d THEN 1 ELSE 0)
        /\ \A a \in PublishAgents : PubInHand(a, d)' = PubInHand(a, d)
    BY <1>4, DisposeTakes
  <2>2. PubStored(d) > 0
    BY <1>a, <1>b, <2>1
  <2>3. Head(deleteCh) = d
    BY <1>a, <1>b, <2>1, <2>2
  <2> QED BY <2>1, <2>3
<1> QED BY <1>1, <1>2, <1>3, <1>4 DEF Next, Environment

LEMMA AlwaysIdle == Spec => []PubIdle
<1>1. Init => PubIdle
  BY DEF Init, PubInit, PubInitProc, PubIdle
<1> QED BY <1>1, TypeInvariant, NextIdle, PTL DEF Spec

(* No batch extracted from the pool, no partial failure and no end of a    *)
(* sibling drops a delivery: it is let go after a PublishBatch that did    *)
(* not acknowledge it, or passed on to a janitor.                          *)
THEOREM NoneLost == Spec => NothingLost
<1>1. PubTypeInv /\ PubTypeInv' /\ PubIdle /\ [Next]_vars => [LetGoByCallOrJanitor]_vars
  BY StepLetsGo
<1> QED BY <1>1, TypeInvariant, AlwaysIdle, PTL DEF Spec, NothingLost

-----------------------------------------------------------------------------
(* SingleCustody, in numbers.                                              *)
Custody(d) ==
  /\ \A a \in PublishAgents : PubInHand(a, d) <= 1
  /\ PubStored(d) + Cardinality({a \in PublishAgents : PubInHand(a, d) > 0}) <= 1

CustodyInv == \A d \in Arrivals : Custody(d)

LEMMA CustodyImplies == PubTypeInv /\ CustodyInv => SingleCustody
<1> SUFFICES ASSUME PubTypeInv, CustodyInv PROVE SingleCustody
  OBVIOUS
<1>1. ASSUME NEW d \in Arrivals, NEW a \in PublishAgents, PubInHand(a, d) > 0
      PROVE  PubInHand(a, d) = 1
  <2>1. PubInHand(a, d) \in Nat
    BY PubCounts
  <2>2. PubInHand(a, d) <= 1
    BY DEF CustodyInv, Custody
  <2> QED BY <1>1, <2>1, <2>2
<1> QED BY <1>1 DEF SingleCustody, CustodyInv, Custody, PubStored

LEMMA NextCustody ==
  ASSUME PubTypeInv, PubTypeInv', PubIdle, [Next]_vars, NEW d \in Arrivals, Custody(d)
  PROVE  Custody(d)'
<1> DEFINE h == [a \in PublishAgents |-> PubInHand(a, d)]
           g == [a \in PublishAgents |-> PubInHand(a, d)']
           c == PubStored(d)
           k == PubStored(d)'
<1>a. /\ c \in Nat /\ h \in [PublishAgents -> Nat]
      /\ k \in Nat /\ g \in [PublishAgents -> Nat]
  BY PubCounts, PubCountsNext
<1>b. /\ \A a \in PublishAgents : h[a] <= 1
      /\ c + Cardinality({a \in PublishAgents : h[a] > 0}) <= 1
  <2>1. {a \in PublishAgents : h[a] > 0} = {a \in PublishAgents : PubInHand(a, d) > 0}
    OBVIOUS
  <2> QED BY <2>1 DEF Custody
<1>1. ASSUME NEW a \in PublishAgents,
             \A b \in PublishAgents \ {a} : PubInHand(b, d)' = PubInHand(b, d),
             k + g[a] <= c + h[a]
      PROVE  Custody(d)'
  <2>1. \A b \in PublishAgents \ {a} : g[b] = h[b]
    BY <1>1
  <2>2. {b \in PublishAgents : g[b] > 0} = {b \in PublishAgents : PubInHand(b, d)' > 0}
    OBVIOUS
  <2>3. \A b \in PublishAgents : g[b] = PubInHand(b, d)'
    OBVIOUS
  <2> HIDE DEF h, g, c
  <2>4. /\ \A b \in PublishAgents : g[b] <= 1
        /\ k + Cardinality({b \in PublishAgents : g[b] > 0}) <= 1
    <3> HIDE DEF k
    <3> QED BY <1>1, <1>a, <1>b, <2>1, PublishAgentsFinite, CustodyMove
  <2> QED BY <2>2, <2>3, <2>4 DEF Custody
<1>2. CASE PublishersStep
  <2>1. PICK a \in PublishAgents : PubMoves(a, d)
    BY <1>2, PubStepMoves
  <2>2. k + g[a] <= c + h[a]
    <3>1. k + g[a] = c + h[a]
      BY <2>1 DEF PubMoves
    <3>2. h[a] \in Nat
      BY <1>a
    <3> HIDE DEF c, k, g, h
    <3> QED BY <1>a, <3>1, <3>2
  <2> QED BY <1>1, <2>1, <2>2 DEF PubMoves
<1>3. ASSUME NEW a \in PublishAgents, PublishCall(a) PROVE Custody(d)'
  <2>1. /\ UNCHANGED <<publishCh, publishPool, deleteCh>>
        /\ \A b \in PublishAgents \ {a} : PubInHand(b, d)' = PubInHand(b, d)
        /\ PubInHand(a, d)' <= PubInHand(a, d)
    BY <1>3, PubCallDrops
  <2>2. g[a] <= h[a] /\ k = c
    BY <2>1 DEF PubStored
  <2>3. h[a] \in Nat /\ g[a] \in Nat
    BY <1>a
  <2>4. k + g[a] <= c + h[a]
    <3> HIDE DEF c, k, g, h
    <3> QED BY <1>a, <2>2, <2>3
  <2> QED BY <1>1, <2>1, <2>4
<1>4. ASSUME NEW e \in Arrivals, Deliver(e) PROVE Custody(d)'
  <2>1. /\ ~Held(e) /\ k = c + (IF e = d THEN 1 ELSE 0)
        /\ \A a \in PublishAgents : PubInHand(a, d)' = PubInHand(a, d)
    BY <1>4, DeliverAdds
  <2>2. CASE e # d
    <3>1. k = c
      <4> HIDE DEF c, k
      <4> QED BY <2>1, <2>2, <1>a
    <3> QED BY <2>1, <3>1 DEF Custody
  <2>3. CASE e = d
    <3>1. c = 0 /\ \A a \in PublishAgents : PubInHand(a, d) = 0
      BY <2>1, <2>3, <1>a, HeldCounts, PubCounts
    <3>2. k = 1
      <4> HIDE DEF c, k
      <4> QED BY <2>1, <2>3, <3>1
    <3>3. {a \in PublishAgents : PubInHand(a, d)' > 0} = {}
      BY <2>1, <3>1
    <3>4. Cardinality({a \in PublishAgents : PubInHand(a, d)' > 0}) = 0
      BY <3>3, FS_EmptySet
    <3>5. \A a \in PublishAgents : PubInHand(a, d)' <= 1
      BY <2>1, <3>1
    <3> QED BY <3>2, <3>4, <3>5 DEF Custody
  <2> QED BY <2>2, <2>3
<1>5. CASE Dispose
  <2>1. /\ k = c - (IF Head(deleteCh) = d THEN 1 ELSE 0)
        /\ \A a \in PublishAgents : PubInHand(a, d)' = PubInHand(a, d)
    BY <1>5, DisposeTakes
  <2>2. k <= c
    <3> HIDE DEF c, k
    <3> QED BY <2>1, <1>a
  <2>3. PublishFlusher \in PublishAgents
    BY DEF PublishAgents
  <2>4. g[PublishFlusher] = h[PublishFlusher] /\ h[PublishFlusher] \in Nat
    BY <2>1, <2>3, <1>a
  <2>5. k + g[PublishFlusher] <= c + h[PublishFlusher]
    <3> HIDE DEF c, k, g, h
    <3> QED BY <2>2, <2>4, <1>a
  <2> QED BY <1>1, <2>1, <2>3, <2>5
<1>6. CASE UNCHANGED vars
  <2>1. UNCHANGED <<publishCh, publishPool, deleteCh, pubPc, pubBatch, pubOk>>
    BY <1>6 DEF vars, pubVars, pubProcVars, chVars
  <2>2. PubStored(d)' = PubStored(d) /\ \A a \in PublishAgents : PubInHand(a, d)' = PubInHand(a, d)
    BY <2>1 DEF PubStored, PubInHand
  <2> QED BY <2>2 DEF Custody
<1> QED BY <1>2, <1>3, <1>4, <1>5, <1>6 DEF Next, Environment

(* No delivery is at two places: none is published twice because a batch   *)
(* left it behind in the pool or two goroutines took it.                   *)
THEOREM CustodySingle == Spec => []SingleCustody
<1>1. Init => CustodyInv
  <2> SUFFICES ASSUME Init, NEW d \in Arrivals PROVE Custody(d)
    BY DEF CustodyInv
  <2>1. /\ publishCh = <<>> /\ deleteCh = <<>> /\ publishPool = <<>>
        /\ \A a \in PublishAgents : pubBatch[a] = <<>> /\ pubOk[a] = {}
    BY DEF Init, PubInit, PubInitProc, ChInit
  <2>2. PubStored(d) = 0
    BY <2>1, OccurrencesEmpty DEF PubStored
  <2>3. ASSUME NEW a \in PublishAgents PROVE PubInHand(a, d) = 0
    <3>1. {i \in pubOk[a] : pubBatch[a][i] = d} = {}
      BY <2>1
    <3> QED BY <2>1, <3>1, OccurrencesEmpty, FS_EmptySet DEF PubInHand
  <2>4. {a \in PublishAgents : PubInHand(a, d) > 0} = {}
    BY <2>3
  <2> QED BY <2>2, <2>3, <2>4, FS_EmptySet DEF Custody
<1>2. PubTypeInv /\ PubTypeInv' /\ PubIdle /\ CustodyInv /\ [Next]_vars => CustodyInv'
  BY NextCustody DEF CustodyInv
<1> QED BY <1>1, <1>2, CustodyImplies, TypeInvariant, AlwaysIdle, PTL DEF Spec
=============================================================================

--------------------------- MODULE Forwarder_proofs ---------------------------
(***************************************************************************)
(* The whole forwarder: its types; NoLoss, that a message leaves SQS only  *)
(* after SNS has accepted it, whatever fails, crashes, times out or is     *)
(* handed out twice; and FaultFree, that without any of this a message is  *)
(* always at exactly one place.  The steps of the components are those of  *)
(* Pipeline_proofs; what is proved here is that the components, SQS, SNS   *)
(* and the life of the process fit together.                               *)
(***************************************************************************)
EXTENDS Forwarder, Pipeline_proofs

-----------------------------------------------------------------------------
(* The types of all components together: what each component's own proof   *)
(* needs, which the others disturb through the channels and SQS only.      *)
TypeInv ==
  /\ RdTypeInv /\ PubTypeInv /\ JanTypeInv /\ PubIdle
  /\ proc \in {"up", "down"}
  /\ faults \in 0..MaxFaults

(* A process that starts, or has just ended, with nothing in its memory.    *)
LEMMA ForgottenTypes ==
  MemInit /\ SqsTypeOK /\ accepted \subseteq Delivery =>
    RdTypeInv /\ PubTypeInv /\ JanTypeInv /\ PubIdle
<1>1. PubInitProc => PubIdle
  BY DEF PubInitProc, PubIdle
<1> QED BY <1>1, RdInitTypes, PubInitTypes, JanInitTypes DEF MemInit

LEMMA ForgottenTypesNext ==
  (MemInit /\ SqsTypeOK /\ accepted \subseteq Delivery =>
    RdTypeInv /\ PubTypeInv /\ JanTypeInv /\ PubIdle)'
BY ForgottenTypes, PTL

LEMMA GoDownForgets == GoDown => MemInit'
BY DEF GoDown, MemInit, RdForget, RdInit, PubForget, PubInitProc, JanForget, JanInit, ChInit

LEMMA InitTypeInv == Init => TypeInv
<1> SUFFICES ASSUME Init PROVE TypeInv
  OBVIOUS
<1>1. SqsTypeOK /\ accepted \subseteq Delivery
  BY DEF Init, SqsInit, SqsTypeOK
<1>2. RdTypeInv /\ PubTypeInv /\ JanTypeInv /\ PubIdle
  BY <1>1, ForgottenTypes DEF Init
<1>3. proc \in {"up", "down"} /\ faults \in 0..MaxFaults
  BY ForwarderAssumption DEF Init
<1> QED BY <1>2, <1>3 DEF TypeInv

(* A component whose own variables do not change keeps its types, if the   *)
(* channels and SQS keep theirs.                                           *)
LEMMA ReadersRest ==
  ASSUME RdTypeInv, UNCHANGED readerVars, ChTypeOK', SqsTypeOK'
  PROVE  RdTypeInv'
BY DEF RdTypeInv, readerVars, RdTypeOK, RdHands

LEMMA PublishersRest ==
  ASSUME PubTypeInv, PubIdle, UNCHANGED pubVars, ChTypeOK'
  PROVE  PubTypeInv' /\ PubIdle'
<1>1. PubTypeOK'
  BY DEF PubTypeInv, PubTypeOK, pubVars, pubProcVars
<1>2. PubHands' /\ PublishFlusherWaits'
  BY DEF PubTypeInv, PubHands, PublishFlusherWaits, pubVars, pubProcVars
<1>3. PubIdle'
  BY DEF PubIdle, pubVars, pubProcVars
<1> QED BY <1>1, <1>2, <1>3 DEF PubTypeInv

LEMMA JanitorsRest ==
  ASSUME JanTypeInv, UNCHANGED janVars, ChTypeOK', SqsTypeOK'
  PROVE  JanTypeInv'
<1>1. JanTypeOK'
  BY DEF JanTypeInv, JanTypeOK, janVars
<1>2. JanHands' /\ DeleteFlusherWaits'
  BY DEF JanTypeInv, JanHands, DeleteFlusherWaits, janVars
<1> QED BY <1>1, <1>2 DEF JanTypeInv

LEMMA FaultType ==
  ASSUME TypeInv, Fault \/ UNCHANGED faults
  PROVE  faults' \in 0..MaxFaults
BY ForwarderAssumption DEF TypeInv, Fault

LEMMA NextTypeInv == TypeInv /\ [Next]_vars => TypeInv'
<1> SUFFICES ASSUME TypeInv, [Next]_vars PROVE TypeInv'
  OBVIOUS
<1>t. /\ RdTypeInv /\ PubTypeInv /\ JanTypeInv /\ PubIdle
      /\ proc \in {"up", "down"} /\ SqsTypeOK /\ ChTypeOK
  BY DEF TypeInv, RdTypeInv
<1>1. ASSUME RdTypeInv', UNCHANGED <<pubVars, janVars, proc>>, Fault \/ UNCHANGED faults
      PROVE  TypeInv'
  <2>1. ChTypeOK' /\ SqsTypeOK'
    BY <1>1 DEF RdTypeInv
  <2> QED BY <1>t, <1>1, <2>1, PublishersRest, JanitorsRest, FaultType DEF TypeInv
<1>2. ASSUME PubTypeInv', PubIdle', UNCHANGED <<readerVars, janVars, sqsVars, proc>>,
             Fault \/ UNCHANGED faults
      PROVE  TypeInv'
  <2>1. ChTypeOK' /\ SqsTypeOK'
    BY <1>t, <1>2 DEF PubTypeInv, sqsVars, SqsTypeOK
  <2> QED BY <1>t, <1>2, <2>1, ReadersRest, JanitorsRest, FaultType DEF TypeInv
<1>3. ASSUME JanTypeInv', UNCHANGED <<readerVars, pubVars, proc>>, Fault \/ UNCHANGED faults
      PROVE  TypeInv'
  <2>1. ChTypeOK' /\ SqsTypeOK'
    BY <1>3 DEF JanTypeInv
  <2> QED BY <1>t, <1>3, <2>1, ReadersRest, PublishersRest, FaultType DEF TypeInv
<1>4. CASE ReaderAct(ReadersStep)
  BY <1>t, <1>1, <1>4, RdStepTypes DEF ReaderAct
<1>5. CASE PublisherAct(PublishersStep)
  BY <1>t, <1>2, <1>5, PubStepTypes, PubStepIdle DEF PublisherAct
<1>6. CASE JanitorAct(JanitorsStep)
  BY <1>t, <1>3, <1>6, JanStepTypes DEF JanitorAct
<1>7. ASSUME NEW r \in Readers, ReceiveMessage(r) PROVE TypeInv'
  <2>1. RdTypeInv'
    BY <1>t, <1>7, ReceiveTypes, ReceiveErrorTypes DEF ReceiveMessage
  <2>2. Fault \/ UNCHANGED faults
    BY <1>7 DEF ReceiveMessage, FaultIf
  <2> QED BY <1>1, <1>7, <2>1, <2>2 DEF ReceiveMessage
<1>8. ASSUME NEW a \in PublishAgents, PublishMessages(a) PROVE TypeInv'
  <2>1. PublishCall(a)
    BY <1>8 DEF PublishMessages, PublishCall
  <2>2. PubTypeInv' /\ PubIdle'
    BY <1>t, <2>1, PubCallTypes, PubCallIdle
  <2>3. Fault \/ UNCHANGED faults
    BY <1>8 DEF PublishMessages, FaultIf
  <2> QED BY <1>2, <1>8, <2>2, <2>3 DEF PublishMessages
<1>9. ASSUME NEW a \in DeleteAgents, DeleteMessages(a) PROVE TypeInv'
  <2>1. DeleteCall(a)
    BY <1>9 DEF DeleteMessages, DeleteCall
  <2>2. JanTypeInv'
    BY <1>t, <2>1, JanCallTypes
  <2>3. Fault \/ UNCHANGED faults
    BY <1>9 DEF DeleteMessages, FaultIf
  <2> QED BY <1>3, <1>9, <2>2, <2>3 DEF DeleteMessages
<1>10. ASSUME NEW m \in Msg, MessageTimeout(m) PROVE TypeInv'
  <2>1. UNCHANGED <<readerVars, pubVars, janVars, chVars, proc>>
    BY <1>10 DEF MessageTimeout, memVars, pubVars
  <2>2. SqsTypeOK' /\ ChTypeOK'
    BY <1>t, <1>10, <2>1 DEF MessageTimeout, VisibilityTimeout, SqsTypeOK, ChTypeOK, chVars
  <2>3. Fault \/ UNCHANGED faults
    BY <1>10 DEF MessageTimeout, FaultIf
  <2> QED BY <1>t, <1>1, <2>1, <2>2, <2>3, ReadersRest
<1>11. CASE Signal
  BY <1>t, <1>1, <1>11, StopTypes DEF Signal
<1>12. CASE CancelReceive
  BY <1>t, <1>1, <1>12, StopTypes DEF CancelReceive, ReaderAct
<1>13. CASE Exit \/ Crash
  <2>1. GoDown /\ (Fault \/ UNCHANGED faults)
    BY <1>13 DEF Exit, Crash
  <2>2. SqsTypeOK' /\ accepted' \subseteq Delivery
    BY <1>t, <2>1 DEF GoDown, sqsVars, SqsTypeOK, PubTypeInv, PubTypeOK
  <2>3. RdTypeInv' /\ PubTypeInv' /\ JanTypeInv' /\ PubIdle'
    BY <2>1, <2>2, GoDownForgets, ForgottenTypesNext
  <2>4. faults' \in 0..MaxFaults
    BY <2>1, FaultType
  <2> QED BY <2>1, <2>3, <2>4 DEF TypeInv, GoDown
<1>14. CASE Restart \/ UNCHANGED vars
  <2>1. UNCHANGED <<readerVars, pubVars, janVars, chVars, sqsVars, faults>>
        /\ proc' \in {"up", "down"}
    BY <1>t, <1>14 DEF Restart, vars, memVars, pubVars
  <2>2. SqsTypeOK' /\ ChTypeOK'
    BY <1>t, <2>1 DEF SqsTypeOK, ChTypeOK, chVars, sqsVars
  <2>3. RdTypeInv' /\ PubTypeInv' /\ PubIdle' /\ JanTypeInv'
    BY <1>t, <2>1, <2>2, ReadersRest, PublishersRest, JanitorsRest
  <2>4. faults' \in 0..MaxFaults
    BY <2>1, FaultType
  <2> QED BY <2>1, <2>3, <2>4 DEF TypeInv
<1> QED BY <1>4, <1>5, <1>6, <1>7, <1>8, <1>9, <1>10, <1>11, <1>12, <1>13, <1>14 DEF Next

(* With any number of goroutines and messages every variable keeps its     *)
(* type, whatever fails and whenever the process goes down.                *)
THEOREM TypeCorrect == Spec => []TypeOK
<1>1. TypeInv => TypeOK
  BY DEF TypeInv, TypeOK, RdTypeInv, PubTypeInv, JanTypeInv
<1> QED BY <1>1, InitTypeInv, NextTypeInv, PTL DEF Spec

-----------------------------------------------------------------------------
(* Everything past batchPublish has been accepted: what a publisher has    *)
(* still to forward, deleteCh, deletePool and the janitors' batches.       *)
OkAccepted == \A a \in PublishAgents : \A i \in pubOk[a] : pubBatch[a][i] \in accepted

Downstream ==
  /\ deleteCh \in Seq(accepted)
  /\ deletePool \in Seq(accepted)
  /\ janBatch \in [DeleteAgents -> Seq(accepted)]

LossInv == OkAccepted /\ Downstream

\* The state of AtLeastOnce, as ALO maps it.
Queued == {m \in Msg : sqs[m] # "deleted"}
Published == {d.id : d \in accepted}

LEMMA SeqMonotone ==
  ASSUME NEW S, NEW T, S \subseteq T, NEW s \in Seq(S)
  PROVE  s \in Seq(T)
<1>1. s \in [1..Len(s) -> T] /\ Len(s) \in Nat
  OBVIOUS
<1> QED BY <1>1

LEMMA AppendType ==
  ASSUME NEW S, NEW s \in Seq(S), NEW e \in S
  PROVE  Append(s, e) \in Seq(S)
OBVIOUS

LEMMA HeadTailType ==
  ASSUME NEW S, NEW s \in Seq(S), s # <<>>
  PROVE  Head(s) \in S /\ <<Head(s)>> \in Seq(S) /\ Tail(s) \in Seq(S)
OBVIOUS

LEMMA ConcatType ==
  ASSUME NEW S, NEW s \in Seq(S), NEW t \in Seq(S)
  PROVE  s \o t \in Seq(S)
OBVIOUS

LEMMA EmptyType == \A S : <<>> \in Seq(S)
OBVIOUS

-----------------------------------------------------------------------------
(* Hands with nothing to forward may change.                               *)
LEMMA LossHands ==
  ASSUME LossInv, UNCHANGED <<pubOk, accepted, deleteCh, janVars>>,
         \A a \in PublishAgents : pubOk[a] # {} => pubBatch'[a] = pubBatch[a]
  PROVE  LossInv'
BY DEF LossInv, OkAccepted, Downstream, janVars

(* q.deleteCh <- m: what goes to the janitors has been accepted.           *)
LEMMA LossForward ==
  ASSUME TypeInv, LossInv, NEW a \in PublishAgents, UNCHANGED janVars, ForwardPublished(a)
  PROVE  LossInv'
<1>1. /\ pubBatch \in [PublishAgents -> Seq(Delivery)]
      /\ pubOk \in [PublishAgents -> SUBSET (1..MaxBatchItems)]
      /\ deleteCh \in Seq(accepted)
  BY DEF TypeInv, PubTypeInv, PubTypeOK, LossInv, Downstream
<1>2. PICK i \in pubOk[a] :
        /\ SendDelete(pubBatch[a][i])
        /\ pubOk' = [pubOk EXCEPT ![a] = @ \ {i}]
        /\ IF pubOk[a] = {i}
           THEN PubHold(a, <<>>) /\ PubGoto(a, PubCaller(a))
           ELSE UNCHANGED <<pubBatch, pubPc>>
  BY DEF ForwardPublished
<1>3. deleteCh' \in Seq(accepted)
  BY <1>1, <1>2, AppendType DEF LossInv, OkAccepted, SendDelete
<1>4. UNCHANGED accepted /\ Downstream'
  BY <1>3 DEF ForwardPublished, LossInv, Downstream, janVars
<1>5. ASSUME NEW b \in PublishAgents, NEW j \in pubOk'[b] PROVE pubBatch'[b][j] \in accepted
  <2>1. j \in pubOk[b]
    BY <1>1, <1>2, <1>5
  <2>2. pubBatch'[b] = pubBatch[b]
    <3>1. CASE b = a
      <4>1. pubOk[a] # {i}
        BY <1>1, <1>2, <1>5, <3>1
      <4> QED BY <1>2, <4>1
    <3>2. CASE b # a
      BY <1>1, <1>2, <3>2 DEF PubHold
    <3> QED BY <3>1, <3>2
  <2> QED BY <2>1, <2>2 DEF LossInv, OkAccepted
<1> QED BY <1>4, <1>5 DEF LossInv, OkAccepted

LEMMA LossPublishers ==
  ASSUME TypeInv, LossInv, PublisherAct(PublishersStep)
  PROVE  LossInv'
<1>1. /\ pubBatch \in [PublishAgents -> Seq(Delivery)] /\ PubHands
      /\ UNCHANGED janVars /\ PublishersStep
      /\ Publishers \subseteq PublishAgents /\ PublishFlusher \in PublishAgents
  BY DEF TypeInv, PubTypeInv, PubTypeOK, PublisherAct, PublishAgents
<1>2. ASSUME NEW a \in PublishAgents, pubPc[a] # "forward",
             UNCHANGED <<pubOk, accepted, deleteCh>>,
             \A b \in PublishAgents \ {a} : pubBatch'[b] = pubBatch[b]
      PROVE  LossInv'
  BY <1>1, <1>2, LossHands DEF PubHands
<1>3. ASSUME UNCHANGED <<pubBatch, pubOk, accepted, chVars>> PROVE LossInv'
  BY <1>1, <1>3, LossHands DEF chVars
<1>4. ASSUME NEW p \in Publishers, PublisherStep(p) PROVE LossInv'
  <2>1. CASE TakePublish(p)
    BY <1>1, <1>2, <2>1 DEF TakePublish, PubHold
  <2>2. CASE AddPublish(p)
    BY <1>1, <1>2, <2>2 DEF AddPublish, PubHold, chVars
  <2>3. CASE DrainPublish(p)
    BY <1>1, <1>2, <2>3 DEF DrainPublish, PubHold, chVars
  <2>4. CASE DrainedPublish(p)
    BY <1>3, <2>4 DEF DrainedPublish
  <2>5. CASE ForwardPublished(p)
    BY <1>1, <2>5, LossForward
  <2>6. CASE ScaleUpPublisher(p)
    BY <1>3, <2>6 DEF ScaleUpPublisher
  <2>7. CASE CheckLimitPublishers(p)
    BY <1>3, <2>7 DEF CheckLimitPublishers
  <2>8. CASE ScaleDownPublisher(p)
    BY <1>3, <2>8 DEF ScaleDownPublisher
  <2>9. ASSUME NEW q \in Publishers, SpawnPublisher(p, q) PROVE LossInv'
    BY <1>3, <2>9 DEF SpawnPublisher
  <2> QED BY <1>4, <2>1, <2>2, <2>3, <2>4, <2>5, <2>6, <2>7, <2>8, <2>9 DEF PublisherStep
<1>5. CASE StartRootPublisher \/ TickPublish \/ ElapsePublish
  BY <1>3, <1>5 DEF StartRootPublisher, TickPublish, ElapsePublish
<1>6. CASE FlushPublish
  BY <1>1, <1>2, <1>6 DEF FlushPublish, PubHold, chVars
<1>7. CASE ForwardPublished(PublishFlusher)
  BY <1>1, <1>7, LossForward
<1> QED BY <1>1, <1>4, <1>5, <1>6, <1>7 DEF PublishersStep, PublishFlusherStep

(* batchPublish: what it goes on to forward SNS has just accepted, and what *)
(* was accepted before still is.                                           *)
LEMMA LossPublish ==
  ASSUME TypeInv, LossInv, NEW a \in PublishAgents, PublishMessages(a)
  PROVE  LossInv' /\ accepted \subseteq accepted'
<1>1. /\ pubBatch \in [PublishAgents -> Seq(Delivery)]
      /\ pubOk \in [PublishAgents -> SUBSET (1..MaxBatchItems)]
      /\ UNCHANGED janVars
  BY DEF TypeInv, PubTypeInv, PubTypeOK, PublishMessages
<1>2. PICK successful \in SUBSET DOMAIN pubBatch[a], errPub \in BOOLEAN :
        BatchPublish(a, successful, errPub)
  BY DEF PublishMessages
<1> DEFINE pub == IF errPub THEN {} ELSE Returned(pubBatch[a], successful)
<1>3. /\ accepted' = accepted \cup {pubBatch[a][i] : i \in successful}
      /\ pubOk' = [pubOk EXCEPT ![a] = pub]
      /\ IF pub = {}
         THEN PubHold(a, <<>>) /\ PubGoto(a, PubCaller(a))
         ELSE UNCHANGED pubBatch /\ PubGoto(a, "forward")
      /\ UNCHANGED deleteCh
  BY <1>2 DEF BatchPublish, chVars
<1>4. accepted \subseteq accepted' /\ \A i \in pub : pubBatch[a][i] \in accepted'
  BY <1>3, ReturnedSuccessful
<1> HIDE DEF pub
<1>5. OkAccepted'
  <2> SUFFICES ASSUME NEW b \in PublishAgents, NEW j \in pubOk'[b]
               PROVE  pubBatch'[b][j] \in accepted'
    BY DEF OkAccepted
  <2>1. CASE b = a
    <3>1. j \in pub
      BY <1>1, <1>3, <2>1
    <3>2. UNCHANGED pubBatch
      BY <1>3, <3>1
    <3> QED BY <1>4, <2>1, <3>1, <3>2
  <2>2. CASE b # a
    <3>1. j \in pubOk[b] /\ pubBatch'[b] = pubBatch[b]
      BY <1>1, <1>3, <2>2 DEF PubHold
    <3> QED BY <1>4, <3>1 DEF LossInv, OkAccepted
  <2> QED BY <2>1, <2>2
<1>6. Downstream'
  <2>1. /\ deleteCh \in Seq(accepted) /\ deletePool \in Seq(accepted)
        /\ janBatch \in [DeleteAgents -> Seq(accepted)]
    BY DEF LossInv, Downstream
  <2>2. deleteCh' \in Seq(accepted') /\ deletePool' \in Seq(accepted')
    BY <1>1, <1>3, <1>4, <2>1, SeqMonotone DEF janVars
  <2>3. \A b \in DeleteAgents : janBatch[b] \in Seq(accepted')
    BY <1>4, <2>1, SeqMonotone
  <2>4. janBatch' \in [DeleteAgents -> Seq(accepted')]
    BY <1>1, <2>1, <2>3 DEF janVars
  <2> QED BY <2>2, <2>4 DEF Downstream
<1> QED BY <1>4, <1>5, <1>6 DEF LossInv

(* The janitors only move what is downstream.                              *)
LEMMA LossDownstream ==
  ASSUME LossInv, UNCHANGED <<pubVars>>,
         deleteCh' \in Seq(accepted),
         deletePool' \in Seq(accepted),
         janBatch' \in [DeleteAgents -> Seq(accepted)]
  PROVE  LossInv'
BY DEF LossInv, OkAccepted, Downstream, pubVars, pubProcVars

LEMMA LossJanitors ==
  ASSUME LossInv, JanitorAct(JanitorsStep)
  PROVE  LossInv'
<1> USE DEF JanHold, chVars, sqsVars
<1>1. /\ deleteCh \in Seq(accepted) /\ deletePool \in Seq(accepted)
      /\ janBatch \in [DeleteAgents -> Seq(accepted)]
      /\ UNCHANGED <<pubVars>> /\ JanitorsStep
      /\ Janitors \subseteq DeleteAgents
  BY DEF LossInv, Downstream, JanitorAct, DeleteAgents
<1>2. ASSUME UNCHANGED <<deletePool, janBatch, chVars, sqsVars>> PROVE LossInv'
  BY <1>1, <1>2, LossDownstream
<1>3. ASSUME NEW j \in Janitors, TakeDelete(j) PROVE LossInv'
  <2>1. Tail(deleteCh) \in Seq(accepted) /\ <<Head(deleteCh)>> \in Seq(accepted)
    BY <1>1, <1>3, HeadTailType DEF TakeDelete, ReceiveDelete
  <2>2. deleteCh' \in Seq(accepted) /\ janBatch' \in [DeleteAgents -> Seq(accepted)]
    BY <1>1, <1>3, <2>1 DEF TakeDelete, ReceiveDelete
  <2> QED BY <1>1, <1>3, <2>2, LossDownstream DEF TakeDelete
<1>4. ASSUME NEW j \in Janitors, AddDelete(j) PROVE LossInv'
  <2>1. deletePool \o janBatch[j] \in Seq(accepted) /\ <<>> \in Seq(accepted)
    BY <1>1, ConcatType, EmptyType
  <2>2. deletePool' \in Seq(accepted) /\ janBatch' \in [DeleteAgents -> Seq(accepted)]
    BY <1>1, <1>4, <2>1 DEF AddDelete
  <2> QED BY <1>1, <1>4, <2>2, LossDownstream DEF AddDelete
<1>5. BatchV1(deletePool) \in Seq(accepted) /\ SurvivorsV1(deletePool) \in Seq(accepted)
  BY <1>1, BatchV1Type
<1>6. ASSUME NEW j \in Janitors, DrainDelete(j) PROVE LossInv'
  <2>1. deletePool' \in Seq(accepted) /\ janBatch' \in [DeleteAgents -> Seq(accepted)]
    BY <1>1, <1>5, <1>6 DEF DrainDelete
  <2> QED BY <1>1, <1>6, <2>1, LossDownstream DEF DrainDelete
<1>7. CASE FlushDelete
  <2>1. deletePool' \in Seq(accepted) /\ janBatch' \in [DeleteAgents -> Seq(accepted)]
    BY <1>1, <1>5, <1>7 DEF FlushDelete
  <2> QED BY <1>1, <1>7, <2>1, LossDownstream DEF FlushDelete
<1>8. ASSUME NEW j \in Janitors, JanitorStep(j) PROVE LossInv'
  <2>1. CASE DrainedDelete(j)
    BY <2>1, <1>2 DEF DrainedDelete
  <2>2. CASE ScaleUpJanitor(j)
    BY <2>2, <1>2 DEF ScaleUpJanitor
  <2>3. CASE CheckLimitDeleters(j)
    BY <2>3, <1>2 DEF CheckLimitDeleters
  <2>4. CASE ExitJanitor(j) \/ StayJanitor(j)
    BY <2>4, <1>2 DEF ExitJanitor, StayJanitor
  <2>5. ASSUME NEW k \in Janitors, SpawnJanitor(j, k) PROVE LossInv'
    BY <2>5, <1>2 DEF SpawnJanitor
  <2> QED BY <1>3, <1>4, <1>6, <1>8, <2>1, <2>2, <2>3, <2>4, <2>5 DEF JanitorStep
<1>9. CASE StartRootJanitor \/ TickDelete \/ ElapseDelete
  BY <1>9, <1>2 DEF StartRootJanitor, TickDelete, ElapseDelete
<1> QED BY <1>1, <1>7, <1>8, <1>9 DEF JanitorsStep, DeleteFlusherStep

(* batchDelete deletes what it was given, all of it accepted.              *)
LEMMA LossDelete ==
  ASSUME TypeInv, LossInv, NEW a \in DeleteAgents, DeleteMessages(a)
  PROVE  /\ LossInv' /\ UNCHANGED accepted
         /\ \E S \in SUBSET Msg : S \subseteq Published /\ Queued' = Queued \ S
<1>1. /\ deleteCh \in Seq(accepted) /\ deletePool \in Seq(accepted)
      /\ janBatch \in [DeleteAgents -> Seq(accepted)]
      /\ accepted \subseteq Delivery /\ UNCHANGED <<pubVars>>
  BY DEF TypeInv, PubTypeInv, PubTypeOK, LossInv, Downstream, DeleteMessages
<1>2. PICK applied \in SUBSET DOMAIN janBatch[a] : BatchDelete(a, applied)
  BY DEF DeleteMessages
<1> DEFINE D == {janBatch[a][i] : i \in applied}
           S == {d.id : d \in D}
<1>3. D \subseteq accepted
  BY <1>1
<1>4. S \in SUBSET Msg /\ S \subseteq Published
  BY <1>1, <1>3 DEF Delivery, Published
<1>5. /\ SqsDelete(D) /\ janBatch' = [janBatch EXCEPT ![a] = <<>>]
      /\ UNCHANGED <<deletePool, chVars>>
  BY <1>2 DEF BatchDelete, JanHold
<1> HIDE DEF D
<1>6. sqs' = [m \in Msg |-> IF \E d \in D : d.id = m THEN "deleted" ELSE sqs[m]]
  BY <1>5 DEF SqsDelete
<1>7. janBatch' \in [DeleteAgents -> Seq(accepted)]
  BY <1>1, <1>5, EmptyType
<1>8. LossInv'
  BY <1>1, <1>5, <1>7, LossDownstream DEF chVars
<1>9. \A m \in Msg : sqs'[m] # "deleted" <=> sqs[m] # "deleted" /\ m \notin S
  BY <1>6
<1>10. Queued' = Queued \ S
  BY <1>9 DEF Queued
<1> QED BY <1>1, <1>4, <1>8, <1>10 DEF pubVars

(* The process ends: what it held is gone, what SNS accepted is not.       *)
LEMMA LossForgotten == MemInit => LossInv
BY EmptyType DEF MemInit, PubInitProc, JanInit, ChInit, LossInv, OkAccepted, Downstream

LEMMA LossForgottenNext == (MemInit => LossInv)'
BY LossForgotten, PTL

-----------------------------------------------------------------------------
(* What one step does to what SQS still has and SNS has accepted.          *)
Promised ==
  \/ Queued' = Queued /\ accepted \subseteq accepted'
  \/ /\ UNCHANGED accepted
     /\ \E S \in SUBSET Msg : S \subseteq Published /\ Queued' = Queued \ S

(* Only visible messages are handed out.                                   *)
LEMMA ReceiveKeepsQueued ==
  ASSUME NEW S \in Receivable(MaxNumberOfMessages), SqsReceive(S)
  PROVE  Queued' = Queued
<1>1. \A m \in S : sqs[m] = "visible"
  BY DEF Receivable
<1>2. \A m \in Msg : sqs'[m] # "deleted" <=> sqs[m] # "deleted"
  BY <1>1 DEF SqsReceive
<1> QED BY <1>2 DEF Queued

LEMMA NextLossInv == TypeInv /\ LossInv /\ [Next]_vars => LossInv' /\ Promised
<1> SUFFICES ASSUME TypeInv, LossInv, [Next]_vars PROVE LossInv' /\ Promised
  OBVIOUS
<1>a. ASSUME UNCHANGED <<sqs, accepted>> PROVE Promised
  BY <1>a DEF Promised, Queued
<1>b. ASSUME UNCHANGED <<pubVars, janVars, deleteCh>> PROVE LossInv'
  BY <1>b DEF LossInv, OkAccepted, Downstream, pubVars, pubProcVars, janVars
<1>1. CASE ReaderAct(ReadersStep)
  <2>1. UNCHANGED <<sqs, deleteCh>>
    BY <1>1 DEF ReaderAct, ReadersStep, StartRootReader, ReaderStep, CheckStopped,
                Reread, ForwardReceived, ScaleUpReader, CheckLimitReaders,
                ScaleDownReader, SpawnReader, sqsVars, chVars
  <2>2. UNCHANGED <<pubVars, janVars>>
    BY <1>1 DEF ReaderAct
  <2> QED BY <1>a, <1>b, <2>1, <2>2 DEF pubVars
<1>2. CASE PublisherAct(PublishersStep)
  <2>1. UNCHANGED <<sqs, accepted>>
    BY <1>2 DEF PublisherAct, PublishersStep, StartRootPublisher, PublisherStep,
                TakePublish, AddPublish, DrainPublish, DrainedPublish,
                ForwardPublished, ScaleUpPublisher, CheckLimitPublishers,
                ScaleDownPublisher, SpawnPublisher, PublishFlusherStep,
                TickPublish, FlushPublish, ElapsePublish, sqsVars
  <2> QED BY <1>2, <1>a, <2>1, LossPublishers
<1>3. CASE JanitorAct(JanitorsStep)
  <2>1. UNCHANGED <<sqs, accepted>>
    BY <1>3 DEF JanitorAct, JanitorsStep, StartRootJanitor, JanitorStep,
                TakeDelete, AddDelete, DrainDelete, DrainedDelete, ScaleUpJanitor,
                CheckLimitDeleters, ExitJanitor, StayJanitor, SpawnJanitor,
                DeleteFlusherStep, TickDelete, FlushDelete, ElapseDelete,
                sqsVars, pubVars
  <2> QED BY <1>3, <1>a, <2>1, LossJanitors
<1>4. ASSUME NEW r \in Readers, ReceiveMessage(r) PROVE LossInv' /\ Promised
  <2>1. UNCHANGED <<pubVars, janVars, deleteCh>> /\ Queued' = Queued
    BY <1>4, ReceiveKeepsQueued DEF ReceiveMessage, Receive, ReceiveError, chVars
  <2> QED BY <1>b, <2>1 DEF Promised, pubVars
<1>5. ASSUME NEW a \in PublishAgents, PublishMessages(a) PROVE LossInv' /\ Promised
  <2>1. Queued' = Queued
    BY <1>5 DEF PublishMessages, sqsVars, Queued
  <2> QED BY <1>5, <2>1, LossPublish DEF Promised
<1>6. ASSUME NEW a \in DeleteAgents, DeleteMessages(a) PROVE LossInv' /\ Promised
  BY <1>6, LossDelete DEF Promised
<1>7. ASSUME NEW m \in Msg, MessageTimeout(m) PROVE LossInv' /\ Promised
  <2>1. /\ UNCHANGED <<pubVars, janVars, deleteCh>>
        /\ sqs[m] = "inflight" /\ sqs' = [sqs EXCEPT ![m] = "visible"]
    BY <1>7 DEF MessageTimeout, VisibilityTimeout, memVars, pubVars, chVars
  <2>2. sqs \in [Msg -> {"visible", "inflight", "deleted"}]
    BY DEF TypeInv, RdTypeInv, SqsTypeOK
  <2>3. Queued' = Queued
    BY <2>1, <2>2 DEF Queued
  <2> QED BY <1>b, <2>1, <2>3 DEF Promised, pubVars
<1>8. CASE Signal \/ CancelReceive
  BY <1>8, <1>a, <1>b DEF Signal, StopFlag, CancelReceive, ReaderAct, Cancel, sqsVars, chVars, pubVars
<1>9. CASE Exit \/ Crash
  <2>1. GoDown
    BY <1>9 DEF Exit, Crash
  <2>2. UNCHANGED <<sqs, accepted>>
    BY <2>1 DEF GoDown, sqsVars
  <2> QED BY <1>a, <2>1, <2>2, GoDownForgets, LossForgottenNext
<1>10. CASE Restart \/ UNCHANGED vars
  BY <1>10, <1>a, <1>b DEF Restart, vars, memVars, pubVars, sqsVars, chVars
<1> QED BY <1>1, <1>2, <1>3, <1>4, <1>5, <1>6, <1>7, <1>8, <1>9, <1>10 DEF Next

(* A step that keeps the promise is a step of AtLeastOnce or stutters.     *)
LEMMA PromisedRefines ==
  TypeInv' /\ Promised => [ALO!ANext]_<<Queued, Published>>
<1> SUFFICES ASSUME TypeInv', Promised PROVE [ALO!ANext]_<<Queued, Published>>
  OBVIOUS
<1>1. CASE Queued' = Queued /\ accepted \subseteq accepted'
  <2>1. {d.id : d \in accepted'} \in SUBSET Msg
    BY DEF TypeInv, PubTypeInv, PubTypeOK, Delivery
  <2>2. PICK S \in SUBSET Msg : S = {d.id : d \in accepted'}
    BY <2>1
  <2>3. Published' = Published \cup S
    BY <1>1, <2>2 DEF Published
  <2>4. ALO!Publish(S)
    BY <1>1, <2>3 DEF ALO!Publish, Queued, Published
  <2> QED BY <2>4 DEF ALO!ANext
<1>2. ASSUME UNCHANGED accepted, NEW S \in SUBSET Msg, S \subseteq Published,
             Queued' = Queued \ S
      PROVE  ALO!ANext
  <2>1. ALO!Delete(S)
    BY <1>2 DEF ALO!Delete, Queued, Published
  <2> QED BY <2>1 DEF ALO!ANext
<1> QED BY <1>1, <1>2 DEF Promised

LEMMA InitLossInv == Init => LossInv /\ ALO!AInit
<1> SUFFICES ASSUME Init PROVE LossInv /\ ALO!AInit
  OBVIOUS
<1>1. ALO!AInit
  BY DEF Init, SqsInit, ALO!AInit
<1> QED BY <1>1, LossForgotten DEF Init

(* Through partial failures, calls that fail after they took effect,       *)
(* timeouts, crashes and restarts, and with any number of goroutines and   *)
(* messages, only what SNS has accepted is ever deleted from SQS.          *)
THEOREM NoLoss == Spec => AtLeastOnceSpec
<1>1. Init => TypeInv /\ LossInv /\ ALO!AInit
  BY InitTypeInv, InitLossInv
<1>2. TypeInv /\ LossInv /\ [Next]_vars =>
        TypeInv' /\ LossInv' /\ [ALO!ANext]_<<Queued, Published>>
  BY NextTypeInv, NextLossInv, PromisedRefines
<1> QED BY <1>1, <1>2, PTL DEF Spec, AtLeastOnceSpec, ALO!ASpec, Queued, Published

-----------------------------------------------------------------------------
\* The places of FaultFree, family by family.
Stored(d) ==
  Occurrences(publishCh, d) + Occurrences(publishPool, d)
    + Occurrences(deleteCh, d) + Occurrences(deletePool, d)

RdHolders(d) == {r \in Readers : RdInHand(r, d) > 0}
PubHolders(d) == {a \in PublishAgents : PubInHand(a, d) > 0}
JanHolders(d) == {a \in DeleteAgents : Occurrences(janBatch[a], d) > 0}

Whole(d) ==
  Stored(d) + Cardinality(RdHolders(d)) + Cardinality(PubHolders(d))
    + Cardinality(JanHolders(d))

\* Without faults the process has the delivery that SQS handed out, once, until
\* SQS has deleted its message.
Owed(d) == IF d.rcpt = receives[d.id] /\ sqs[d.id] = "inflight" THEN 1 ELSE 0

Balanced(d) ==
  /\ \A a \in PublishAgents : PubInHand(a, d) <= 1
  /\ \A a \in DeleteAgents : Occurrences(janBatch[a], d) <= 1
  /\ Whole(d) = Owed(d)

\* What SQS knows of a message then.
Untroubled(m) ==
  /\ receives[m] <= 1
  /\ receives[m] = 0 <=> sqs[m] = "visible"
  /\ sqs[m] = "deleted" => Latest(m) \in accepted

Undisturbed ==
  /\ proc = "up" /\ ~stopped /\ ~cancelled
  /\ \A m \in Msg : Fits(m) => Untroubled(m)
  /\ \A d \in Delivery : Fits(d.id) => Balanced(d)

Quiet == faults = 0 => Undisturbed

(* Only goroutine a's hands change: so does the number of those who hold   *)
(* the delivery, by as much.                                               *)
LEMMA HoldersChange ==
  ASSUME NEW A, IsFiniteSet(A), NEW h \in [A -> Nat], NEW g \in [A -> Nat],
         NEW a \in A, \A b \in A \ {a} : g[b] = h[b], \A b \in A : h[b] <= 1
  PROVE  /\ Cardinality({b \in A : h[b] > 0}) \in Nat
         /\ Cardinality({b \in A : g[b] > 0}) \in Nat
         /\ h[a] <= Cardinality({b \in A : h[b] > 0})
         /\ g[a] <= 1 => Cardinality({b \in A : g[b] > 0}) + h[a]
                           = Cardinality({b \in A : h[b] > 0}) + g[a]
<1> DEFINE R == {b \in A \ {a} : h[b] > 0}
           H == {b \in A : h[b] > 0}
           G == {b \in A : g[b] > 0}
<1>1. IsFiniteSet(R) /\ IsFiniteSet(H) /\ IsFiniteSet(G)
  BY FS_Subset
<1>2. /\ Cardinality(R) \in Nat /\ Cardinality(H) \in Nat /\ Cardinality(G) \in Nat
      /\ a \notin R
  BY <1>1, FS_CardinalityType
<1>3. Cardinality(R \cup {a}) = Cardinality(R) + 1
  BY <1>1, <1>2, FS_AddElement
<1>4. Cardinality(H) = Cardinality(R) + h[a]
  <2>1. CASE h[a] = 0
    <3>1. H = R
      BY <2>1
    <3> HIDE DEF R, H, G
    <3> QED BY <1>2, <2>1, <3>1
  <2>2. CASE h[a] = 1
    <3>1. H = R \cup {a}
      BY <2>2
    <3> HIDE DEF R, H, G
    <3> QED BY <1>3, <2>2, <3>1
  <2>3. h[a] \in Nat /\ h[a] <= 1
    OBVIOUS
  <2> QED BY <2>1, <2>2, <2>3
<1>5. ASSUME g[a] <= 1 PROVE Cardinality(G) = Cardinality(R) + g[a]
  <2>1. CASE g[a] = 0
    <3>1. G = R
      BY <2>1
    <3> HIDE DEF R, H, G
    <3> QED BY <1>2, <2>1, <3>1
  <2>2. CASE g[a] = 1
    <3>1. G = R \cup {a}
      BY <2>2
    <3> HIDE DEF R, H, G
    <3> QED BY <1>3, <2>2, <3>1
  <2>3. g[a] \in Nat
    OBVIOUS
  <2> QED BY <1>5, <2>1, <2>2, <2>3
<1>6. h[a] \in Nat /\ g[a] \in Nat
  OBVIOUS
<1> HIDE DEF R, H, G
<1>7. h[a] <= Cardinality(H) /\ (g[a] <= 1 => Cardinality(G) + h[a] = Cardinality(H) + g[a])
  BY <1>2, <1>4, <1>5, <1>6
<1> QED BY <1>2, <1>7 DEF H, G

LEMMA HoldersFinite ==
  ASSUME NEW d
  PROVE  /\ IsFiniteSet(RdHolders(d)) /\ Cardinality(RdHolders(d)) \in Nat
         /\ IsFiniteSet(PubHolders(d)) /\ Cardinality(PubHolders(d)) \in Nat
         /\ IsFiniteSet(JanHolders(d)) /\ Cardinality(JanHolders(d)) \in Nat
<1>1. IsFiniteSet(RdHolders(d)) /\ IsFiniteSet(PubHolders(d)) /\ IsFiniteSet(JanHolders(d))
  BY ReaderAssumption, PublishAgentsFinite, DeleteAgentsFinite, FS_Subset
     DEF RdHolders, PubHolders, JanHolders
<1> QED BY <1>1, FS_CardinalityType

LEMMA HoldersFiniteNext ==
  ASSUME NEW d
  PROVE  /\ Cardinality(RdHolders(d)') \in Nat
         /\ Cardinality(PubHolders(d)') \in Nat
         /\ Cardinality(JanHolders(d)') \in Nat
<1>1. IsFiniteSet(RdHolders(d)') /\ IsFiniteSet(PubHolders(d)') /\ IsFiniteSet(JanHolders(d)')
  BY ReaderAssumption, PublishAgentsFinite, DeleteAgentsFinite, FS_Subset
     DEF RdHolders, PubHolders, JanHolders
<1> QED BY <1>1, FS_CardinalityType

LEMMA StoredCounts ==
  ASSUME TypeInv, NEW d
  PROVE  Stored(d) \in Nat
BY PubCounts, JanCounts DEF TypeInv, Stored

LEMMA StoredCountsNext ==
  ASSUME TypeInv', NEW d
  PROVE  Stored(d)' \in Nat
<1>1. /\ publishCh' \in Seq(Delivery) /\ publishPool' \in Seq(Delivery)
      /\ deleteCh' \in Seq(Delivery) /\ deletePool' \in Seq(Delivery)
  BY DEF TypeInv, PubTypeInv, JanTypeInv, ChTypeOK, PubTypeOK, JanTypeOK
<1>2. /\ Occurrences(publishCh', d) \in Nat /\ Occurrences(publishPool', d) \in Nat
      /\ Occurrences(deleteCh', d) \in Nat /\ Occurrences(deletePool', d) \in Nat
  BY <1>1, OccurrencesType
<1> QED BY <1>2 DEF Stored

-----------------------------------------------------------------------------
(* One reader's hands, the stores and what is owed change together, and so *)
(* for one publisher and for one janitor: the balance is kept.             *)
LEMMA ReaderBalance ==
  ASSUME TypeInv, TypeInv', UNCHANGED <<pubPc, pubBatch, pubOk, janBatch>>,
         NEW d, Balanced(d), NEW r \in Readers,
         \A q \in Readers \ {r} : RdInHand(q, d)' = RdInHand(q, d),
         Stored(d)' + RdInHand(r, d)' + Owed(d) = Stored(d) + RdInHand(r, d) + Owed(d)'
  PROVE  Balanced(d)'
<1> DEFINE h == [q \in Readers |-> RdInHand(q, d)]
           g == [q \in Readers |-> RdInHand(q, d)']
           e == Cardinality(PubHolders(d)) + Cardinality(JanHolders(d))
           H == Cardinality(RdHolders(d))
           G == Cardinality(RdHolders(d)')
           s == Stored(d)
           t == Stored(d)'
           x == RdInHand(r, d)
           y == RdInHand(r, d)'
           n == Owed(d)
           o == Owed(d)'
<1>1. /\ s \in Nat /\ t \in Nat /\ e \in Nat /\ n \in {0, 1} /\ o \in {0, 1}
      /\ H \in Nat /\ G \in Nat
  BY StoredCounts, StoredCountsNext, HoldersFinite, HoldersFiniteNext DEF Owed
<1>2. /\ PubHolders(d)' = PubHolders(d) /\ JanHolders(d)' = JanHolders(d)
      /\ \A a \in PublishAgents : PubInHand(a, d)' = PubInHand(a, d)
  BY DEF PubHolders, JanHolders, PubInHand
<1>3. h \in [Readers -> Nat] /\ g \in [Readers -> Nat] /\ \A q \in Readers : h[q] <= 1
  BY DEF RdInHand
<1>4. RdHolders(d) = {q \in Readers : h[q] > 0} /\ RdHolders(d)' = {q \in Readers : g[q] > 0}
  BY DEF RdHolders
<1>5. h[r] = x /\ g[r] = y /\ x \in Nat /\ y \in Nat
  <2>1. h[r] = x /\ g[r] = y
    OBVIOUS
  <2> QED BY <1>3, <2>1
<1>6. x <= H /\ (y <= 1 => G + x = H + y)
  <2>1. \A q \in Readers \ {r} : g[q] = h[q]
    OBVIOUS
  <2> HIDE DEF h, g, x, y
  <2> QED BY <1>3, <1>4, <1>5, <2>1, ReaderAssumption, HoldersChange
<1>7. s + H + e = n
  <2>1. Stored(d) + Cardinality(RdHolders(d)) + Cardinality(PubHolders(d))
          + Cardinality(JanHolders(d)) = Owed(d)
    BY DEF Balanced, Whole
  <2> QED BY <1>1, <2>1, HoldersFinite
<1>8. t + y + n = s + x + o
  OBVIOUS
<1>9. y <= 1 /\ t + G + e = o
  <2>1. n \in Nat /\ o \in Nat /\ o <= 1
    BY <1>1
  <2>2. x \in Nat /\ y \in Nat
    BY <1>5
  <2> HIDE DEF x, y, e, H, G, s, t, n, o
  <2> QED BY <1>1, <1>6, <1>7, <1>8, <2>1, <2>2
<1>10. Whole(d)' = o
  <2>1. Whole(d)' = t + G + Cardinality(PubHolders(d)) + Cardinality(JanHolders(d))
    BY <1>2 DEF Whole
  <2> QED BY <1>1, <1>9, <2>1, HoldersFinite
<1> QED BY <1>2, <1>10 DEF Balanced

LEMMA PublisherBalance ==
  ASSUME TypeInv, TypeInv', UNCHANGED <<rdHand, janBatch>>,
         NEW d, Balanced(d), NEW a \in PublishAgents,
         \A b \in PublishAgents \ {a} : PubInHand(b, d)' = PubInHand(b, d),
         Stored(d)' + PubInHand(a, d)' + Owed(d) = Stored(d) + PubInHand(a, d) + Owed(d)'
  PROVE  Balanced(d)'
<1> DEFINE h == [b \in PublishAgents |-> PubInHand(b, d)]
           g == [b \in PublishAgents |-> PubInHand(b, d)']
           e == Cardinality(RdHolders(d)) + Cardinality(JanHolders(d))
           H == Cardinality(PubHolders(d))
           G == Cardinality(PubHolders(d)')
           s == Stored(d)
           t == Stored(d)'
           x == PubInHand(a, d)
           y == PubInHand(a, d)'
           n == Owed(d)
           o == Owed(d)'
<1>1. /\ s \in Nat /\ t \in Nat /\ e \in Nat /\ n \in {0, 1} /\ o \in {0, 1}
      /\ H \in Nat /\ G \in Nat
  BY StoredCounts, StoredCountsNext, HoldersFinite, HoldersFiniteNext DEF Owed
<1>2. RdHolders(d)' = RdHolders(d) /\ JanHolders(d)' = JanHolders(d)
  BY DEF RdHolders, RdInHand, JanHolders
<1>3. /\ h \in [PublishAgents -> Nat] /\ g \in [PublishAgents -> Nat]
      /\ \A b \in PublishAgents : h[b] <= 1
  <2>1. PubTypeInv /\ PubTypeInv'
    BY DEF TypeInv
  <2>2. \A b \in PublishAgents : PubInHand(b, d) \in Nat /\ PubInHand(b, d)' \in Nat
    BY <2>1, PubCounts, PubCountsNext
  <2> QED BY <2>2 DEF Balanced
<1>4. /\ PubHolders(d) = {b \in PublishAgents : h[b] > 0}
      /\ PubHolders(d)' = {b \in PublishAgents : g[b] > 0}
  BY DEF PubHolders
<1>5. h[a] = x /\ g[a] = y /\ x \in Nat /\ y \in Nat
  <2>1. h[a] = x /\ g[a] = y
    OBVIOUS
  <2> QED BY <1>3, <2>1
<1>6. x <= H /\ (y <= 1 => G + x = H + y)
  <2>1. \A b \in PublishAgents \ {a} : g[b] = h[b]
    OBVIOUS
  <2> HIDE DEF h, g, x, y
  <2> QED BY <1>3, <1>4, <1>5, <2>1, PublishAgentsFinite, HoldersChange
<1>7. s + H + e = n
  <2>1. Stored(d) + Cardinality(RdHolders(d)) + Cardinality(PubHolders(d))
          + Cardinality(JanHolders(d)) = Owed(d)
    BY DEF Balanced, Whole
  <2> QED BY <1>1, <2>1, HoldersFinite
<1>8. t + y + n = s + x + o
  OBVIOUS
<1>9. y <= 1 /\ t + G + e = o
  <2>1. n \in Nat /\ o \in Nat /\ o <= 1
    BY <1>1
  <2>2. x \in Nat /\ y \in Nat
    BY <1>5
  <2> HIDE DEF x, y, e, H, G, s, t, n, o
  <2> QED BY <1>1, <1>6, <1>7, <1>8, <2>1, <2>2
<1>10. Whole(d)' = o
  <2>1. Whole(d)' = t + Cardinality(RdHolders(d)) + G + Cardinality(JanHolders(d))
    BY <1>2 DEF Whole
  <2> QED BY <1>1, <1>9, <2>1, HoldersFinite
<1>11. \A b \in PublishAgents : PubInHand(b, d)' <= 1
  BY <1>5, <1>9 DEF Balanced
<1>12. \A b \in DeleteAgents : Occurrences(janBatch'[b], d) <= 1
  BY DEF Balanced
<1> QED BY <1>10, <1>11, <1>12 DEF Balanced

LEMMA JanitorBalance ==
  ASSUME TypeInv, TypeInv', UNCHANGED <<rdHand, pubPc, pubBatch, pubOk>>,
         NEW d, Balanced(d), NEW a \in DeleteAgents,
         \A b \in DeleteAgents \ {a} : janBatch'[b] = janBatch[b],
         Stored(d)' + Occurrences(janBatch'[a], d) + Owed(d)
           = Stored(d) + Occurrences(janBatch[a], d) + Owed(d)'
  PROVE  Balanced(d)'
<1> DEFINE h == [b \in DeleteAgents |-> Occurrences(janBatch[b], d)]
           g == [b \in DeleteAgents |-> Occurrences(janBatch'[b], d)]
           e == Cardinality(RdHolders(d)) + Cardinality(PubHolders(d))
           H == Cardinality(JanHolders(d))
           G == Cardinality(JanHolders(d)')
           s == Stored(d)
           t == Stored(d)'
           x == Occurrences(janBatch[a], d)
           y == Occurrences(janBatch'[a], d)
           n == Owed(d)
           o == Owed(d)'
<1>1. /\ s \in Nat /\ t \in Nat /\ e \in Nat /\ n \in {0, 1} /\ o \in {0, 1}
      /\ H \in Nat /\ G \in Nat
  BY StoredCounts, StoredCountsNext, HoldersFinite, HoldersFiniteNext DEF Owed
<1>2. /\ RdHolders(d)' = RdHolders(d) /\ PubHolders(d)' = PubHolders(d)
      /\ \A b \in PublishAgents : PubInHand(b, d)' = PubInHand(b, d)
  BY DEF RdHolders, RdInHand, PubHolders, PubInHand
<1>3. /\ h \in [DeleteAgents -> Nat] /\ g \in [DeleteAgents -> Nat]
      /\ \A b \in DeleteAgents : h[b] <= 1
  <2>1. JanTypeInv /\ JanTypeInv'
    BY DEF TypeInv
  <2>2. \A b \in DeleteAgents : /\ Occurrences(janBatch[b], d) \in Nat
                               /\ Occurrences(janBatch'[b], d) \in Nat
    BY <2>1, JanCounts, JanCountsNext
  <2> QED BY <2>2 DEF Balanced
<1>4. /\ JanHolders(d) = {b \in DeleteAgents : h[b] > 0}
      /\ JanHolders(d)' = {b \in DeleteAgents : g[b] > 0}
  BY DEF JanHolders
<1>5. h[a] = x /\ g[a] = y /\ x \in Nat /\ y \in Nat
  <2>1. h[a] = x /\ g[a] = y
    OBVIOUS
  <2> QED BY <1>3, <2>1
<1>6. x <= H /\ (y <= 1 => G + x = H + y)
  <2>1. \A b \in DeleteAgents \ {a} : g[b] = h[b]
    OBVIOUS
  <2> HIDE DEF h, g, x, y
  <2> QED BY <1>3, <1>4, <1>5, <2>1, DeleteAgentsFinite, HoldersChange
<1>7. s + H + e = n
  <2>1. Stored(d) + Cardinality(RdHolders(d)) + Cardinality(PubHolders(d))
          + Cardinality(JanHolders(d)) = Owed(d)
    BY DEF Balanced, Whole
  <2> QED BY <1>1, <2>1, HoldersFinite
<1>8. t + y + n = s + x + o
  OBVIOUS
<1>9. y <= 1 /\ t + G + e = o
  <2>1. n \in Nat /\ o \in Nat /\ o <= 1
    BY <1>1
  <2>2. x \in Nat /\ y \in Nat
    BY <1>5
  <2> HIDE DEF x, y, e, H, G, s, t, n, o
  <2> QED BY <1>1, <1>6, <1>7, <1>8, <2>1, <2>2
<1>10. Whole(d)' = o
  <2>1. Whole(d)' = t + Cardinality(RdHolders(d)) + Cardinality(PubHolders(d)) + G
    BY <1>2 DEF Whole
  <2> QED BY <1>1, <1>9, <2>1, HoldersFinite
<1>11. \A b \in PublishAgents : PubInHand(b, d)' <= 1
  BY <1>2 DEF Balanced
<1>12. \A b \in DeleteAgents : Occurrences(janBatch'[b], d) <= 1
  BY <1>5, <1>9 DEF Balanced
<1> QED BY <1>10, <1>11, <1>12 DEF Balanced
-----------------------------------------------------------------------------
(* Only the calls of SQS change what is owed and what SQS knows.           *)
LEMMA SqsRests ==
  ASSUME UNCHANGED sqsVars, accepted \subseteq accepted'
  PROVE  /\ \A d : Owed(d)' = Owed(d)
         /\ \A m : Untroubled(m) => Untroubled(m)'
<1>1. \A d : Owed(d)' = Owed(d)
  BY DEF Owed, sqsVars
<1>2. \A m : Untroubled(m) => Untroubled(m)'
  BY DEF Untroubled, Latest, sqsVars
<1> QED BY <1>1, <1>2

LEMMA OwedIs == \A d : Owed(d) \in {0, 1} /\ Owed(d)' \in {0, 1}
BY DEF Owed

LEMMA QuietReaders ==
  ASSUME TypeInv, TypeInv', Undisturbed, ReaderAct(ReadersStep)
  PROVE  Undisturbed'
<1>1. /\ RdTypeInv /\ ReadersStep
      /\ UNCHANGED <<pubVars, janVars, proc>>
  BY DEF TypeInv, ReaderAct
<1>2. UNCHANGED <<stopped, cancelled, sqsVars>>
  BY <1>1 DEF ReadersStep, StartRootReader, ReaderStep, CheckStopped, Reread, ForwardReceived,
              ScaleUpReader, CheckLimitReaders, ScaleDownReader, SpawnReader
<1>3. ASSUME NEW d \in Delivery, Balanced(d) PROVE Balanced(d)'
  <2>1. PICK r \in Readers : RdMoves(r, d)
    BY <1>1, RdStepMoves
  <2>2. UNCHANGED <<publishPool, deletePool, pubPc, pubBatch, pubOk, janBatch>>
    BY <1>1 DEF pubVars, pubProcVars, janVars
  <2>3. Stored(d)' + RdInHand(r, d)' = Stored(d) + RdInHand(r, d)
    <3>1. /\ Occurrences(publishCh, d) \in Nat /\ Occurrences(publishPool, d) \in Nat
          /\ Occurrences(deleteCh, d) \in Nat /\ Occurrences(deletePool, d) \in Nat
      BY PubCounts, JanCounts DEF TypeInv
    <3>2. PubTypeInv'
      BY DEF TypeInv
    <3>3. publishCh' \in Seq(Delivery)
      BY <3>2 DEF PubTypeInv, ChTypeOK
    <3>4. Occurrences(publishCh', d) \in Nat
      BY <3>3, OccurrencesType
    <3>5. RdInHand(r, d) \in Nat /\ RdInHand(r, d)' \in Nat
      BY DEF RdInHand
    <3>6. Occurrences(publishCh', d) + RdInHand(r, d)' = Occurrences(publishCh, d) + RdInHand(r, d)
      BY <2>1 DEF RdMoves
    <3>7. Stored(d)' = Occurrences(publishCh', d) + Occurrences(publishPool, d)
                         + Occurrences(deleteCh, d) + Occurrences(deletePool, d)
      BY <2>1, <2>2 DEF Stored, RdMoves
    <3> QED BY <3>1, <3>4, <3>5, <3>6, <3>7 DEF Stored
  <2>4. Owed(d)' = Owed(d)
    BY <1>1, <1>2, SqsRests DEF pubVars
  <2>5. \A q \in Readers \ {r} : RdInHand(q, d)' = RdInHand(q, d)
    BY <2>1 DEF RdMoves
  <2>6. Stored(d)' + RdInHand(r, d)' + Owed(d) = Stored(d) + RdInHand(r, d) + Owed(d)'
    BY <2>3, <2>4
  <2> QED BY <1>3, <2>2, <2>5, <2>6, ReaderBalance
<1>4. \A m \in Msg : Fits(m) => Untroubled(m)'
  BY <1>1, <1>2, SqsRests DEF Undisturbed, pubVars
<1> QED BY <1>1, <1>2, <1>3, <1>4 DEF Undisturbed
LEMMA QuietPublishers ==
  ASSUME TypeInv, TypeInv', Undisturbed, PublisherAct(PublishersStep)
  PROVE  Undisturbed'
<1>1. /\ PubTypeInv /\ PubTypeInv' /\ PubIdle /\ JanTypeInv /\ PublishersStep
      /\ UNCHANGED <<readerVars, janVars, sqsVars, proc>>
  BY DEF TypeInv, PublisherAct
<1>2. UNCHANGED <<stopped, cancelled, rdHand, deletePool, janBatch>>
  BY <1>1 DEF readerVars, janVars
<1>3. UNCHANGED accepted
  BY <1>1 DEF PublishersStep, StartRootPublisher, PublisherStep, TakePublish, AddPublish,
              DrainPublish, DrainedPublish, ForwardPublished, ScaleUpPublisher,
              CheckLimitPublishers, ScaleDownPublisher, SpawnPublisher,
              PublishFlusherStep, TickPublish, FlushPublish, ElapsePublish
<1>4. ASSUME NEW d \in Delivery, Balanced(d) PROVE Balanced(d)'
  <2>1. PICK a \in PublishAgents : PubMoves(a, d)
    BY <1>1, PubStepMoves
  <2>2. /\ \A b \in PublishAgents \ {a} : PubInHand(b, d)' = PubInHand(b, d)
        /\ PubStored(d)' + PubInHand(a, d)' = PubStored(d) + PubInHand(a, d)
    BY <2>1 DEF PubMoves
  <2>3. /\ PubStored(d) \in Nat /\ PubStored(d)' \in Nat
        /\ PubInHand(a, d) \in Nat /\ PubInHand(a, d)' \in Nat
        /\ Occurrences(deletePool, d) \in Nat
    BY <1>1, PubCounts, PubCountsNext, JanCounts
  <2>4. /\ Stored(d) = PubStored(d) + Occurrences(deletePool, d)
        /\ Stored(d)' = PubStored(d)' + Occurrences(deletePool, d)
    BY <1>2 DEF Stored, PubStored
  <2>5. Owed(d)' = Owed(d) /\ Owed(d) \in Nat
    BY <1>1, <1>3, SqsRests, OwedIs
  <2>6. Stored(d)' + PubInHand(a, d)' + Owed(d) = Stored(d) + PubInHand(a, d) + Owed(d)'
    BY <2>2, <2>3, <2>4, <2>5
  <2> QED BY <1>2, <1>4, <2>2, <2>6, PublisherBalance
<1>5. \A m \in Msg : Fits(m) => Untroubled(m)'
  BY <1>1, <1>3, SqsRests DEF Undisturbed
<1> QED BY <1>1, <1>2, <1>4, <1>5 DEF Undisturbed

LEMMA QuietJanitors ==
  ASSUME TypeInv, TypeInv', Undisturbed, JanitorAct(JanitorsStep)
  PROVE  Undisturbed'
<1>1. /\ JanTypeInv /\ JanTypeInv' /\ PubTypeInv /\ PubTypeInv' /\ JanitorsStep
      /\ UNCHANGED <<readerVars, pubVars, proc>>
  BY DEF TypeInv, JanitorAct
<1>2. UNCHANGED <<stopped, cancelled, rdHand, publishPool, pubPc, pubBatch, pubOk, accepted>>
  BY <1>1 DEF readerVars, pubVars, pubProcVars
<1>3. UNCHANGED <<sqsVars, publishCh>>
  BY <1>1 DEF JanitorsStep, StartRootJanitor, JanitorStep, TakeDelete, AddDelete, DrainDelete,
              DrainedDelete, ScaleUpJanitor, CheckLimitDeleters, ExitJanitor, StayJanitor,
              SpawnJanitor, DeleteFlusherStep, TickDelete, FlushDelete, ElapseDelete, chVars
<1>4. ASSUME NEW d \in Delivery, Balanced(d) PROVE Balanced(d)'
  <2>1. PICK a \in DeleteAgents : JanMoves(a, d)
    BY <1>1, JanStepMoves
  <2>2. /\ \A b \in DeleteAgents \ {a} : janBatch'[b] = janBatch[b]
        /\ JanStored(d)' + Occurrences(janBatch'[a], d)
             = JanStored(d) + Occurrences(janBatch[a], d)
    BY <2>1 DEF JanMoves
  <2>3. /\ JanStored(d) \in Nat /\ JanStored(d)' \in Nat
        /\ Occurrences(janBatch[a], d) \in Nat /\ Occurrences(janBatch'[a], d) \in Nat
        /\ Occurrences(publishCh, d) \in Nat /\ Occurrences(publishPool, d) \in Nat
    BY <1>1, JanCounts, JanCountsNext, PubCounts
  <2>4. Stored(d) = Occurrences(publishCh, d) + Occurrences(publishPool, d) + JanStored(d)
    <3>1. Occurrences(deleteCh, d) \in Nat /\ Occurrences(deletePool, d) \in Nat
      BY <1>1, JanCounts
    <3> QED BY <2>3, <3>1 DEF Stored, JanStored
  <2>5. Stored(d)' = Occurrences(publishCh, d) + Occurrences(publishPool, d) + JanStored(d)'
    <3>1. deleteCh' \in Seq(Delivery) /\ deletePool' \in Seq(Delivery)
      BY <1>1 DEF JanTypeInv, ChTypeOK, JanTypeOK
    <3>2. Occurrences(deleteCh', d) \in Nat /\ Occurrences(deletePool', d) \in Nat
      BY <3>1, OccurrencesType
    <3> QED BY <1>2, <1>3, <2>3, <3>2 DEF Stored, JanStored
  <2>6. Owed(d)' = Owed(d) /\ Owed(d) \in Nat
    BY <1>2, <1>3, SqsRests, OwedIs
  <2>7. Stored(d)' + Occurrences(janBatch'[a], d) + Owed(d)
          = Stored(d) + Occurrences(janBatch[a], d) + Owed(d)'
    BY <2>2, <2>3, <2>4, <2>5, <2>6
  <2> QED BY <1>2, <1>4, <2>2, <2>7, JanitorBalance
<1>5. \A m \in Msg : Fits(m) => Untroubled(m)'
  BY <1>2, <1>3, SqsRests DEF Undisturbed
<1> QED BY <1>1, <1>2, <1>4, <1>5 DEF Undisturbed
-----------------------------------------------------------------------------
(* Custody, counted family by family.                                      *)
LEMMA TaggedCardinality ==
  ASSUME NEW T, IsFiniteSet(T), NEW tag, NEW U,
         \A u : u \in U <=> \E x \in T : u = <<tag, x>>
  PROVE  IsFiniteSet(U) /\ Cardinality(U) = Cardinality(T)
<1> DEFINE f == [x \in T |-> <<tag, x>>]
<1>1. f \in [T -> U]
  OBVIOUS
<1>2. \A x, y \in T : f[x] = f[y] => x = y
  OBVIOUS
<1>3. \A u \in U : \E x \in T : f[x] = u
  OBVIOUS
<1> HIDE DEF f
<1>4. f \in Bijection(T, U)
  BY <1>1, <1>2, <1>3 DEF Bijection, Injection, Surjection, IsInjective
<1>5. ExistsBijection(T, U)
  BY <1>4 DEF ExistsBijection
<1> QED BY <1>5, FS_Bijection

LEMMA DisjointCardinality ==
  ASSUME NEW S, NEW T, IsFiniteSet(S), IsFiniteSet(T), S \cap T = {}
  PROVE  IsFiniteSet(S \cup T) /\ Cardinality(S \cup T) = Cardinality(S) + Cardinality(T)
<1>1. Cardinality(S) \in Nat /\ Cardinality(T) \in Nat /\ Cardinality({}) = 0
  BY FS_CardinalityType, FS_EmptySet
<1>2. /\ IsFiniteSet(S \cup T)
      /\ Cardinality(S \cup T) = Cardinality(S) + Cardinality(T) - Cardinality(S \cap T)
  BY FS_Union
<1>3. Cardinality(S \cap T) = 0
  BY <1>1
<1> QED BY <1>1, <1>2, <1>3

LEMMA CustodyIsWhole ==
  ASSUME TypeInv, NEW d
  PROVE  Custody(d) = Whole(d)
<1> DEFINE R == {<<"reader", r>> : r \in RdHolders(d)}
           P == {<<"publisher", a>> : a \in PubHolders(d)}
           J == {<<"janitor", a>> : a \in JanHolders(d)}
<1>1. /\ IsFiniteSet(R) /\ Cardinality(R) = Cardinality(RdHolders(d))
      /\ IsFiniteSet(P) /\ Cardinality(P) = Cardinality(PubHolders(d))
      /\ IsFiniteSet(J) /\ Cardinality(J) = Cardinality(JanHolders(d))
  <2>1. IsFiniteSet(R) /\ Cardinality(R) = Cardinality(RdHolders(d))
    <3>1. \A u : u \in R <=> \E x \in RdHolders(d) : u = <<"reader", x>>
      OBVIOUS
    <3> HIDE DEF R
    <3> QED BY <3>1, HoldersFinite, TaggedCardinality
  <2>2. IsFiniteSet(P) /\ Cardinality(P) = Cardinality(PubHolders(d))
    <3>1. \A u : u \in P <=> \E x \in PubHolders(d) : u = <<"publisher", x>>
      OBVIOUS
    <3> HIDE DEF P
    <3> QED BY <3>1, HoldersFinite, TaggedCardinality
  <2>3. IsFiniteSet(J) /\ Cardinality(J) = Cardinality(JanHolders(d))
    <3>1. \A u : u \in J <=> \E x \in JanHolders(d) : u = <<"janitor", x>>
      OBVIOUS
    <3> HIDE DEF J
    <3> QED BY <3>1, HoldersFinite, TaggedCardinality
  <2> QED BY <2>1, <2>2, <2>3
<1>2. R \cap P = {} /\ (R \cup P) \cap J = {}
  OBVIOUS
<1>3. RdHolders(d) = {r \in Readers : d \in rdHand[r]}
  BY DEF RdHolders, RdInHand
<1>4. Holders(d) = R \cup P \cup J
  BY <1>3 DEF Holders, PubHolders, JanHolders
<1> HIDE DEF R, P, J
<1>5. IsFiniteSet(R \cup P) /\ Cardinality(R \cup P) = Cardinality(R) + Cardinality(P)
  BY <1>1, <1>2, DisjointCardinality
<1>6. Cardinality(Holders(d)) = Cardinality(R) + Cardinality(P) + Cardinality(J)
  BY <1>1, <1>2, <1>4, <1>5, DisjointCardinality
<1>7. /\ Occurrences(publishCh, d) \in Nat /\ Occurrences(publishPool, d) \in Nat
      /\ Occurrences(deleteCh, d) \in Nat /\ Occurrences(deletePool, d) \in Nat
  BY PubCounts, JanCounts DEF TypeInv
<1>8. Custody(d) = Cardinality(RdHolders(d)) + Cardinality(PubHolders(d))
        + Cardinality(JanHolders(d)) + Occurrences(publishCh, d) + Occurrences(publishPool, d)
        + Occurrences(deleteCh, d) + Occurrences(deletePool, d)
  BY <1>1, <1>6 DEF Custody
<1> QED BY <1>7, <1>8, HoldersFinite DEF Whole, Stored

LEMMA QuietFaultFree == TypeInv /\ Quiet => FaultFree
<1> SUFFICES ASSUME TypeInv, Quiet, faults = 0, NEW m \in Msg, Fits(m)
             PROVE  /\ receives[m] <= 1
                    /\ sqs[m] = "inflight" => Custody(Latest(m)) = 1
                    /\ sqs[m] = "deleted" => Latest(m) \in accepted /\ Custody(Latest(m)) = 0
  BY DEF FaultFree
<1>1. Latest(m) \in Delivery /\ Latest(m).id = m /\ Latest(m).rcpt = receives[m]
  BY DEF TypeInv, RdTypeInv, SqsTypeOK, Latest, Delivery
<1>2. Untroubled(m) /\ Balanced(Latest(m))
  BY <1>1 DEF Quiet, Undisturbed
<1>3. Custody(Latest(m)) = Owed(Latest(m))
  BY <1>2, CustodyIsWhole DEF Balanced
<1> QED BY <1>1, <1>2, <1>3 DEF Untroubled, Owed
-----------------------------------------------------------------------------
(* The calls, when nothing goes wrong.  A receive: SQS owes what it hands  *)
(* out, and the reader, whose hands were empty, has it.                    *)
LEMMA NoFault == TypeInv /\ UNCHANGED faults => ~Fault
BY ForwarderAssumption DEF TypeInv, Fault

LEMMA QuietReceive ==
  ASSUME TypeInv, TypeInv', Undisturbed, UNCHANGED faults,
         NEW r \in Readers, ReceiveMessage(r)
  PROVE  Undisturbed'
<1>1. /\ RdTypeInv /\ UNCHANGED <<pubVars, janVars, proc>>
      /\ sqs \in [Msg -> {"visible", "inflight", "deleted"}] /\ receives \in [Msg -> Nat]
      /\ rdHand \in [Readers -> SUBSET Delivery]
  BY DEF TypeInv, ReceiveMessage, RdTypeInv, SqsTypeOK, RdTypeOK
<1>2. PICK S \in Receivable(MaxNumberOfMessages) : Receive(r, S)
  BY NoFault DEF ReceiveMessage, FaultIf, ReceiveError, Undisturbed
<1>3. /\ UNCHANGED <<stopped, cancelled, chVars>>
      /\ rdHand' = [rdHand EXCEPT ![r] = {[id |-> m, rcpt |-> receives'[m]] : m \in Kept(S)}]
      /\ rdHand[r] = {}
  BY <1>1, <1>2 DEF Receive, RdTypeInv, RdHands
<1>4. /\ sqs' = [m \in Msg |-> IF m \in S THEN "inflight" ELSE sqs[m]]
      /\ receives' = [m \in Msg |-> IF m \in S THEN receives[m] + 1 ELSE receives[m]]
      /\ S \subseteq Msg /\ \A m \in S : sqs[m] = "visible"
  BY <1>2 DEF Receive, SqsReceive, Receivable
<1>5. /\ UNCHANGED <<pubPc, pubBatch, pubOk, janBatch, accepted>>
      /\ \A d : Stored(d)' = Stored(d)
  BY <1>1, <1>3 DEF pubVars, pubProcVars, janVars, chVars, Stored
<1>6. ASSUME NEW m \in Msg, Untroubled(m) PROVE Untroubled(m)'
  <2>1. CASE m \in S
    <3>1. receives[m] = 0
      BY <1>4, <1>6, <2>1 DEF Untroubled
    <3>2. receives'[m] = 1 /\ sqs'[m] = "inflight"
      BY <1>4, <2>1, <3>1
    <3> QED BY <3>2 DEF Untroubled
  <2>2. CASE m \notin S
    BY <1>4, <1>5, <1>6, <2>2 DEF Untroubled, Latest
  <2> QED BY <2>1, <2>2
<1>7. ASSUME NEW d \in Delivery, Fits(d.id), Balanced(d) PROVE Balanced(d)'
  <2>1. d.id \in Msg /\ d.rcpt \in Nat /\ d = [id |-> d.id, rcpt |-> d.rcpt]
    BY DEF Delivery
  <2>2. RdInHand(r, d)' + Owed(d) = RdInHand(r, d) + Owed(d)'
    <3>1. RdInHand(r, d) = 0
      BY <1>3 DEF RdInHand
    <3>2. CASE d.id \in S
      <4>1. d.id \in Kept(S)
        BY <1>7, <3>2 DEF Kept
      <4>2. d \in rdHand'[r] <=> d.rcpt = receives'[d.id]
        <5>1. ASSUME d.rcpt = receives'[d.id] PROVE d \in rdHand'[r]
          BY <1>1, <1>3, <2>1, <4>1, <5>1
        <5>2. ASSUME d \in rdHand'[r] PROVE d.rcpt = receives'[d.id]
          <6>1. PICK m \in Kept(S) : d = [id |-> m, rcpt |-> receives'[m]]
            BY <1>1, <1>3, <5>2
          <6> QED BY <6>1
        <5> QED BY <5>1, <5>2
      <4>3. Owed(d) = 0
        BY <1>4, <3>2 DEF Owed
      <4>4. sqs'[d.id] = "inflight"
        BY <1>4, <2>1, <3>2
      <4> QED BY <3>1, <4>2, <4>3, <4>4 DEF Owed, RdInHand
    <3>3. CASE d.id \notin S
      <4>1. d \notin rdHand'[r]
        BY <1>1, <1>3, <3>3 DEF Kept
      <4>2. Owed(d)' = Owed(d)
        BY <1>4, <2>1, <3>3 DEF Owed
      <4> QED BY <3>1, <4>1, <4>2 DEF RdInHand, Owed
    <3> QED BY <3>2, <3>3
  <2>3. Stored(d)' + RdInHand(r, d)' + Owed(d) = Stored(d) + RdInHand(r, d) + Owed(d)'
    <3>1. Stored(d) \in Nat /\ Owed(d) \in Nat /\ Owed(d)' \in Nat
      BY StoredCounts, OwedIs
    <3>2. RdInHand(r, d) \in Nat /\ RdInHand(r, d)' \in Nat
      BY DEF RdInHand
    <3> QED BY <1>5, <2>2, <3>1, <3>2
  <2>4. \A q \in Readers \ {r} : RdInHand(q, d)' = RdInHand(q, d)
    BY <1>1, <1>3 DEF RdInHand
  <2> QED BY <1>5, <1>7, <2>3, <2>4, ReaderBalance
<1> QED BY <1>1, <1>3, <1>6, <1>7 DEF Undisturbed

(* A publish: SNS accepts the whole batch and all of it is to be forwarded. *)
LEMMA QuietPublish ==
  ASSUME TypeInv, TypeInv', Undisturbed, UNCHANGED faults,
         NEW a \in PublishAgents, PublishMessages(a)
  PROVE  Undisturbed'
<1>1. /\ PubTypeInv /\ UNCHANGED <<readerVars, janVars, sqsVars, proc>>
      /\ pubPc \in [PublishAgents -> PublisherPcs \cup FlusherPcs]
      /\ pubBatch \in [PublishAgents -> Seq(Delivery)]
      /\ pubOk \in [PublishAgents -> SUBSET (1..MaxBatchItems)]
  BY DEF TypeInv, PublishMessages, PubTypeInv, PubTypeOK
<1> DEFINE all == DOMAIN pubBatch[a]
<1>2. BatchPublish(a, all, FALSE)
  BY NoFault DEF PublishMessages, FaultIf
<1>3. Returned(pubBatch[a], all) = all
  BY DEF Returned, BatchEntryID
<1>4. /\ pubPc[a] = "publish"
      /\ accepted \subseteq accepted'
      /\ pubOk' = [pubOk EXCEPT ![a] = all]
      /\ IF all = {}
         THEN PubHold(a, <<>>) /\ PubGoto(a, PubCaller(a))
         ELSE UNCHANGED pubBatch /\ PubGoto(a, "forward")
      /\ UNCHANGED <<publishPool, chVars>>
  BY <1>2, <1>3 DEF BatchPublish
<1>5. /\ UNCHANGED <<stopped, cancelled, rdHand, janBatch, deletePool>>
      /\ \A d : Stored(d)' = Stored(d)
  BY <1>1, <1>4 DEF readerVars, janVars, chVars, Stored
<1>6. ASSUME NEW d \in Delivery, Balanced(d) PROVE Balanced(d)'
  <2>1. \A b \in PublishAgents \ {a} : PubInHand(b, d)' = PubInHand(b, d)
    BY <1>1, <1>4 DEF PubInHand, PubHold, PubGoto
  <2>2. PubInHand(a, d)' = PubInHand(a, d)
    <3>1. CASE all = {}
      <4>1. pubBatch[a] = <<>>
        <5>1. pubBatch[a] \in Seq(Delivery)
          BY <1>1
        <5>2. 1 \notin DOMAIN pubBatch[a]
          BY <3>1
        <5> QED BY <5>1, <5>2, EmptySeq
      <4>2. pubBatch'[a] = <<>> /\ pubPc'[a] # "forward"
        BY <1>1, <1>4, <3>1 DEF PubHold, PubGoto, PubCaller
      <4> QED BY <1>4, <4>1, <4>2 DEF PubInHand
    <3>2. CASE all # {}
      <4>1. pubBatch'[a] = pubBatch[a] /\ pubPc'[a] = "forward" /\ pubOk'[a] = all
        BY <1>1, <1>4, <3>2 DEF PubGoto
      <4>2. PubInHand(a, d)' = Cardinality({i \in all : pubBatch[a][i] = d})
        BY <4>1 DEF PubInHand
      <4>3. PubInHand(a, d) = Occurrences(pubBatch[a], d)
        BY <1>4 DEF PubInHand
      <4> QED BY <4>2, <4>3 DEF Occurrences
    <3> QED BY <3>1, <3>2
  <2>3. Owed(d)' = Owed(d)
    BY <1>1, <1>4, SqsRests
  <2>4. Stored(d)' + PubInHand(a, d)' + Owed(d) = Stored(d) + PubInHand(a, d) + Owed(d)'
    BY <1>5, <2>2, <2>3
  <2> QED BY <1>5, <1>6, <2>1, <2>4, PublisherBalance
<1>7. \A m \in Msg : Fits(m) => Untroubled(m)'
  BY <1>1, <1>4, SqsRests DEF Undisturbed
<1> QED BY <1>1, <1>5, <1>6, <1>7 DEF Undisturbed
(* What a janitor deletes is the delivery that SQS handed out last, so SQS *)
(* deletes it; nobody else has it, and no other delivery of that message   *)
(* is in the batch.                                                        *)
LEMMA QuietDelete ==
  ASSUME TypeInv, TypeInv', Undisturbed, Downstream, UNCHANGED faults,
         NEW a \in DeleteAgents, DeleteMessages(a)
  PROVE  Undisturbed'
<1>1. /\ JanTypeInv /\ UNCHANGED <<readerVars, pubVars, proc>>
      /\ sqs \in [Msg -> {"visible", "inflight", "deleted"}] /\ receives \in [Msg -> Nat]
      /\ janBatch \in [DeleteAgents -> Seq(Delivery)]
  BY DEF TypeInv, DeleteMessages, JanTypeInv, JanTypeOK, SqsTypeOK
<1> DEFINE b == janBatch[a]
<1>b. b \in Seq(Delivery) /\ b \in Seq(accepted)
  BY <1>1 DEF Downstream
<1>c. \A d : /\ Occurrences(b, d) \in Nat
             /\ Occurrences(b, d) = 0 <=> \A i \in DOMAIN b : b[i] # d
  <2> HIDE DEF b
  <2> QED BY <1>b, OccurrencesType
<1>2. PICK applied \in SUBSET DOMAIN b :
        /\ BatchDelete(a, applied)
        /\ \A i \in DOMAIN b \ applied : b[i] # Latest(b[i].id)
  BY NoFault DEF DeleteMessages, FaultIf
<1>3. /\ UNCHANGED <<stopped, cancelled, rdHand, pubPc, pubBatch, pubOk, accepted>>
      /\ janBatch' = [janBatch EXCEPT ![a] = <<>>]
      /\ \A d : Stored(d)' = Stored(d)
  BY <1>1, <1>2 DEF readerVars, pubVars, pubProcVars, BatchDelete, JanHold, chVars, Stored
<1>4. /\ UNCHANGED receives
      /\ \A m \in Msg : sqs'[m] = IF \E i \in applied : b[i].id = m THEN "deleted" ELSE sqs[m]
  <2> DEFINE D == {b[i] : i \in applied}
  <2>1. \A m : (\E d \in D : d.id = m) <=> \E i \in applied : b[i].id = m
    OBVIOUS
  <2>2. SqsDelete(D)
    BY <1>2 DEF BatchDelete
  <2> HIDE DEF D
  <2> QED BY <2>1, <2>2 DEF SqsDelete
<1>5. ASSUME NEW i \in DOMAIN b, Fits(b[i].id)
      PROVE  /\ b[i] \in Delivery /\ b[i] \in accepted
             /\ b[i].id \in Msg /\ b[i] = Latest(b[i].id)
             /\ sqs[b[i].id] = "inflight"
             /\ i \in applied
             /\ Owed(b[i]) = 1 /\ Occurrences(b, b[i]) = 1
  <2> DEFINE d == b[i]
  <2>1. /\ d \in Delivery /\ d \in accepted /\ d.id \in Msg
        /\ d = [id |-> d.id, rcpt |-> d.rcpt]
    <3>1. d \in Delivery /\ d \in accepted
      <4> HIDE DEF b
      <4> QED BY <1>b, <1>5
    <3> HIDE DEF d
    <3> QED BY <3>1 DEF Delivery
  <2>2. Balanced(d)
    BY <1>5, <2>1 DEF Undisturbed
  <2>3. Occurrences(b, d) \in Nat /\ Occurrences(b, d) # 0
    BY <1>c
  <2>4. Occurrences(b, d) = 1 /\ a \in JanHolders(d)
    BY <2>2, <2>3 DEF Balanced, JanHolders
  <2>5. Cardinality(JanHolders(d)) \in Nat /\ Cardinality(JanHolders(d)) # 0
    BY <2>4, HoldersFinite, FS_EmptySet
  <2> HIDE DEF d
  <2>6. Owed(d) = 1
    <3>1. Owed(d) # 0
      BY <2>2, <2>5, StoredCounts, HoldersFinite DEF Balanced, Whole
    <3> QED BY <3>1, OwedIs
  <2>7. d.rcpt = receives[d.id] /\ sqs[d.id] = "inflight"
    BY <2>6 DEF Owed
  <2>8. d = Latest(d.id)
    BY <2>1, <2>7 DEF Latest
  <2>9. i \in applied
    BY <1>2, <2>8 DEF d
  <2> QED BY <2>1, <2>4, <2>6, <2>7, <2>8, <2>9 DEF d
<1>6. ASSUME NEW m \in Msg, Fits(m) PROVE Untroubled(m)'
  <2>1. Untroubled(m) /\ Latest(m)' = Latest(m)
    BY <1>4, <1>6 DEF Undisturbed, Latest
  <2>2. CASE \E i \in applied : b[i].id = m
    <3>1. PICK i \in applied : b[i].id = m
      BY <2>2
    <3>2. b[i] \in accepted /\ b[i] = Latest(m) /\ sqs[m] = "inflight"
      BY <1>2, <1>5, <1>6, <3>1
    <3>3. sqs'[m] = "deleted"
      BY <1>4, <2>2
    <3> QED BY <1>3, <1>4, <2>1, <3>2, <3>3 DEF Untroubled
  <2>3. CASE ~\E i \in applied : b[i].id = m
    BY <1>3, <1>4, <2>1, <2>3 DEF Untroubled
  <2> QED BY <2>2, <2>3
<1>7. ASSUME NEW d \in Delivery, Fits(d.id), Balanced(d) PROVE Balanced(d)'
  <2>1. d.id \in Msg /\ d = [id |-> d.id, rcpt |-> d.rcpt]
    BY DEF Delivery
  <2>2. Occurrences(janBatch'[a], d) = 0 /\ \A c \in DeleteAgents \ {a} : janBatch'[c] = janBatch[c]
    BY <1>1, <1>3, OccurrencesEmpty
  <2>3. Owed(d) = Occurrences(b, d) + Owed(d)'
    <3>1. CASE \E i \in DOMAIN b : b[i] = d
      <4>1. PICK i \in DOMAIN b : b[i] = d
        BY <3>1
      <4>2. Owed(d) = 1 /\ Occurrences(b, d) = 1 /\ i \in applied
        BY <1>5, <1>7, <4>1
      <4>3. sqs'[d.id] = "deleted"
        BY <1>4, <2>1, <4>1, <4>2
      <4> QED BY <4>2, <4>3 DEF Owed
    <3>2. CASE ~\E i \in DOMAIN b : b[i] = d
      <4>1. Occurrences(b, d) = 0
        BY <1>c, <3>2
      <4>2. Owed(d)' = Owed(d)
        <5>1. CASE \E i \in applied : b[i].id = d.id
          <6>1. PICK i \in applied : b[i].id = d.id
            BY <5>1
          <6>2. b[i] = [id |-> d.id, rcpt |-> receives[d.id]]
            BY <1>2, <1>5, <1>7, <6>1 DEF Latest
          <6>3. d.rcpt # receives[d.id]
            BY <1>2, <2>1, <3>2, <6>1, <6>2
          <6> QED BY <1>4, <6>3 DEF Owed
        <5>2. CASE ~\E i \in applied : b[i].id = d.id
          BY <1>4, <2>1, <5>2 DEF Owed
        <5> QED BY <5>1, <5>2
      <4> QED BY <4>1, <4>2, OwedIs
    <3> QED BY <3>1, <3>2
  <2>4. Stored(d)' + Occurrences(janBatch'[a], d) + Owed(d)
          = Stored(d) + Occurrences(janBatch[a], d) + Owed(d)'
    <3>1. Stored(d) \in Nat /\ Owed(d) \in Nat /\ Owed(d)' \in Nat /\ Occurrences(b, d) \in Nat
      BY <1>c, StoredCounts, OwedIs
    <3> QED BY <1>3, <2>2, <2>3, <3>1
  <2> QED BY <1>3, <1>7, <2>2, <2>4, JanitorBalance
<1> QED BY <1>1, <1>3, <1>6, <1>7 DEF Undisturbed

(* A timeout that is no disturbance is one of a message that is never      *)
(* published: for any other the process still has the delivery.            *)
LEMMA QuietTimeout ==
  ASSUME TypeInv, Undisturbed, UNCHANGED faults, NEW m \in Msg, MessageTimeout(m)
  PROVE  Undisturbed'
<1>1. /\ UNCHANGED <<memVars, accepted, proc, receives>>
      /\ sqs[m] = "inflight" /\ sqs' = [sqs EXCEPT ![m] = "visible"]
      /\ ~(Custody(Latest(m)) > 0)
  BY NoFault DEF MessageTimeout, VisibilityTimeout, FaultIf
<1>2. /\ sqs \in [Msg -> {"visible", "inflight", "deleted"}] /\ receives \in [Msg -> Nat]
  BY DEF TypeInv, RdTypeInv, SqsTypeOK
<1>3. ~Fits(m)
  <2>1. Latest(m) \in Delivery /\ Latest(m).id = m /\ Owed(Latest(m)) = 1
    BY <1>1, <1>2 DEF Latest, Delivery, Owed
  <2>2. Fits(m) => Custody(Latest(m)) = 1
    BY <2>1, CustodyIsWhole DEF Undisturbed, Balanced
  <2> QED BY <1>1, <2>2
<1>4. \A n \in Msg : n # m => sqs'[n] = sqs[n]
  BY <1>1, <1>2
<1>5. UNCHANGED <<stopped, cancelled, rdHand, publishCh, deleteCh, publishPool, deletePool,
                  pubPc, pubBatch, pubOk, janBatch>>
  BY <1>1 DEF memVars, readerVars, pubProcVars, janVars, chVars
<1>6. ASSUME NEW n \in Msg, Fits(n) PROVE Untroubled(n)'
  BY <1>1, <1>3, <1>4, <1>6 DEF Undisturbed, Untroubled, Latest
<1>7. ASSUME NEW d \in Delivery, Fits(d.id) PROVE Balanced(d)'
  <2>1. Owed(d)' = Owed(d)
    BY <1>1, <1>3, <1>4, <1>7 DEF Owed, Delivery
  <2>2. Stored(d)' = Stored(d)
    BY <1>5 DEF Stored
  <2>3. /\ RdHolders(d)' = RdHolders(d) /\ PubHolders(d)' = PubHolders(d)
        /\ JanHolders(d)' = JanHolders(d)
    BY <1>5 DEF RdHolders, RdInHand, PubHolders, PubInHand, JanHolders
  <2>4. \A a \in PublishAgents : PubInHand(a, d)' = PubInHand(a, d)
    BY <1>5 DEF PubInHand
  <2>5. Balanced(d)
    BY <1>7 DEF Undisturbed
  <2> QED BY <1>5, <2>1, <2>2, <2>3, <2>4, <2>5 DEF Balanced, Whole
<1> QED BY <1>1, <1>5, <1>6, <1>7 DEF Undisturbed
-----------------------------------------------------------------------------
LEMMA InitQuiet == Init => Quiet
<1> SUFFICES ASSUME Init PROVE Undisturbed
  BY DEF Quiet
<1> USE DEF Init, MemInit
<1>1. proc = "up" /\ ~stopped /\ ~cancelled
  BY DEF RdInit
<1>2. ASSUME NEW m \in Msg PROVE Untroubled(m)
  BY DEF SqsInit, Untroubled
<1>3. ASSUME NEW d \in Delivery PROVE Balanced(d)
  <2>1. /\ \A r \in Readers : RdInHand(r, d) = 0
        /\ \A a \in PublishAgents : PubInHand(a, d) = 0
        /\ \A a \in DeleteAgents : Occurrences(janBatch[a], d) = 0
    <3>1. \A r \in Readers : RdInHand(r, d) = 0
      BY DEF RdInit, RdInHand
    <3>2. \A a \in PublishAgents : PubInHand(a, d) = 0
      <4>1. \A a \in PublishAgents : pubBatch[a] = <<>> /\ pubPc[a] # "forward"
        BY DEF PubInitProc, PubPcInit
      <4> QED BY <4>1, OccurrencesEmpty DEF PubInHand
    <3>3. \A a \in DeleteAgents : Occurrences(janBatch[a], d) = 0
      BY OccurrencesEmpty DEF JanInit
    <3> QED BY <3>1, <3>2, <3>3
  <2>2. RdHolders(d) = {} /\ PubHolders(d) = {} /\ JanHolders(d) = {}
    BY <2>1 DEF RdHolders, PubHolders, JanHolders
  <2>3. Stored(d) = 0
    <3>1. /\ publishCh = <<>> /\ publishPool = <<>> /\ deleteCh = <<>> /\ deletePool = <<>>
      BY DEF ChInit, PubInitProc, JanInit
    <3> QED BY <3>1, OccurrencesEmpty DEF Stored
  <2>4. Whole(d) = 0
    BY <2>2, <2>3, FS_EmptySet DEF Whole
  <2>5. Owed(d) = 0
    BY DEF SqsInit, Owed, Delivery
  <2> QED BY <2>1, <2>4, <2>5 DEF Balanced
<1> QED BY <1>1, <1>2, <1>3 DEF Undisturbed

LEMMA NextQuiet ==
  TypeInv /\ TypeInv' /\ Downstream /\ Quiet /\ [Next]_vars => Quiet'
<1> SUFFICES ASSUME TypeInv, TypeInv', Downstream, Quiet, [Next]_vars, faults' = 0
             PROVE  Undisturbed'
  BY DEF Quiet
<1>1. ASSUME Fault PROVE FALSE
  BY <1>1, ForwarderAssumption DEF TypeInv, Fault
<1>2. ASSUME UNCHANGED faults PROVE Undisturbed
  BY <1>2 DEF Quiet
<1>3. CASE ReaderAct(ReadersStep)
  BY <1>2, <1>3, QuietReaders DEF ReaderAct
<1>4. CASE PublisherAct(PublishersStep)
  BY <1>2, <1>4, QuietPublishers DEF PublisherAct
<1>5. CASE JanitorAct(JanitorsStep)
  BY <1>2, <1>5, QuietJanitors DEF JanitorAct
<1>6. ASSUME NEW r \in Readers, ReceiveMessage(r) PROVE Undisturbed'
  <2>1. UNCHANGED faults
    BY <1>1, <1>6 DEF ReceiveMessage, FaultIf
  <2> QED BY <1>2, <1>6, <2>1, QuietReceive
<1>7. ASSUME NEW a \in PublishAgents, PublishMessages(a) PROVE Undisturbed'
  <2>1. UNCHANGED faults
    BY <1>1, <1>7 DEF PublishMessages, FaultIf
  <2> QED BY <1>2, <1>7, <2>1, QuietPublish
<1>8. ASSUME NEW a \in DeleteAgents, DeleteMessages(a) PROVE Undisturbed'
  <2>1. UNCHANGED faults
    BY <1>1, <1>8 DEF DeleteMessages, FaultIf
  <2> QED BY <1>2, <1>8, <2>1, QuietDelete
<1>9. ASSUME NEW m \in Msg, MessageTimeout(m) PROVE Undisturbed'
  <2>1. UNCHANGED faults
    BY <1>1, <1>9 DEF MessageTimeout, FaultIf
  <2> QED BY <1>2, <1>9, <2>1, QuietTimeout
<1>10. CASE Signal \/ Crash
  BY <1>1, <1>10 DEF Signal, Crash
<1>11. CASE CancelReceive
  BY <1>2, <1>11 DEF CancelReceive, ReaderAct, Cancel, MayCancel, Undisturbed
<1>12. CASE Exit
  BY <1>2, <1>12 DEF Exit, Undisturbed
<1>13. CASE Restart
  BY <1>2, <1>13 DEF Restart, Undisturbed
<1>14. CASE UNCHANGED vars
  <2>1. /\ UNCHANGED <<faults, proc, stopped, cancelled, accepted, rdHand, publishCh, deleteCh,
                       publishPool, deletePool, pubPc, pubBatch, pubOk, janBatch, sqs, receives>>
    BY <1>14 DEF vars, memVars, readerVars, pubProcVars, janVars, chVars, sqsVars
  <2> QED BY <1>2, <2>1
          DEF Undisturbed, Untroubled, Latest, Balanced, Whole, Stored, RdHolders, PubHolders,
              JanHolders, RdInHand, PubInHand, Owed
<1> QED BY <1>3, <1>4, <1>5, <1>6, <1>7, <1>8, <1>9, <1>10, <1>11, <1>12, <1>13, <1>14 DEF Next

(* As long as nothing goes wrong, with any number of goroutines, messages  *)
(* and places in the channels, a publishable message is received once, is  *)
(* at exactly one place of the pipeline until it is deleted, and nowhere   *)
(* afterwards: no interleaving loses or duplicates it.                     *)
THEOREM FaultFreeHolds == Spec => []FaultFree
<1>1. Init => TypeInv /\ LossInv /\ Quiet
  BY InitTypeInv, InitLossInv, InitQuiet
<1>2. TypeInv /\ LossInv /\ Quiet /\ [Next]_vars => (TypeInv /\ LossInv /\ Quiet)'
  BY NextTypeInv, NextLossInv, NextQuiet DEF LossInv
<1>3. TypeInv /\ Quiet => FaultFree
  BY QuietFaultFree
<1> QED BY <1>1, <1>2, <1>3, PTL DEF Spec
=============================================================================

------------------------------- MODULE V1_proofs -------------------------------
(***************************************************************************)
(* The first version, with any number of queues, messages, goroutines and  *)
(* faults: its types, and that it implements AtLeastOnce.                  *)
(***************************************************************************)
EXTENDS V1, TLAPS

(* What a channel holds after a receive and after a send.                  *)
LEMMA ChannelType ==
  ASSUME NEW s \in Seq(Msg)
  PROVE  /\ s # <<>> => /\ Head(s) \in Msg /\ Tail(s) \in Seq(Msg)
                        /\ Len(Tail(s)) = Len(s) - 1
         /\ \A m \in Msg : Append(s, m) \in Seq(Msg) /\ Len(Append(s, m)) = Len(s) + 1
OBVIOUS

LEMMA FaultType ==
  ASSUME faults \in 0..MaxFaults, NEW b \in BOOLEAN, Fault \/ FaultIf(b)
  PROVE  faults' \in 0..MaxFaults
BY V1Assumption DEF Fault, FaultIf

(* A reader's receive, whatever SQS hands out.                             *)
LEMMA ReceiveTypeOK ==
  ASSUME TypeOK, NEW r \in Readers, NEW S \in Receivable(r), Step(Receive(r, S))
  PROVE  TypeOK'
<1> USE DEF TypeOK, Step, healthVars
<1>1. S \in SUBSET Msg /\ Of[r] \in Queues
  BY V1QueueAssumption DEF Receivable
<1>2. sqs' \in [Msg -> {"visible", "inflight", "deleted"}]
  BY DEF Receive
<1>3. rdPc' \in [Readers -> {"receive", "send", "cooldown", "hung"}]
  BY DEF Receive, RdGoto
<1>4. rdHand' \in [Readers -> SUBSET Msg]
  BY <1>1 DEF Receive, RdHold
<1>5. status' \in [Queues -> {"nil", "error"}]
  BY <1>1 DEF Receive, PutStatus, EmptyStatus
<1> QED BY <1>2, <1>3, <1>4, <1>5 DEF Receive

LEMMA ReaderTypeOK ==
  ASSUME TypeOK, NEW r \in Readers, Step(ReaderStep(r))
  PROVE  TypeOK'
<1> USE DEF TypeOK, Step, healthVars, RdGoto, RdHold, PutStatus
<1>1. Of[r] \in Queues
  BY V1QueueAssumption
<1>2. CASE Send(r)
  <2>1. PICK m \in rdHand[r] :
          /\ ch' = [ch EXCEPT ![Of[r]] = Append(@, m)]
          /\ rdHand' = [rdHand EXCEPT ![r] = rdHand[r] \ {m}]
          /\ rdPc' = [rdPc EXCEPT ![r] = IF rdHand[r] = {m} THEN "receive" ELSE "send"]
    BY <1>2 DEF Send
  <2>2. ch' \in [Queues -> Seq(Msg)] /\ \A q \in Queues : Len(ch'[q]) <= Buffer
    BY <1>1, <1>2, <2>1, ChannelType, V1QueueAssumption DEF Send, Room
  <2> QED BY <1>2, <2>1, <2>2 DEF Send
<1>3. CASE ReaderCooled(r)
  BY <1>1, <1>3 DEF ReaderCooled, ContinueLoop
<1> QED BY <1>2, <1>3 DEF ReaderStep

LEMMA WriterTypeOK ==
  ASSUME TypeOK, NEW w \in Writers, Step(WriterStep(w))
  PROVE  TypeOK'
<1> USE DEF TypeOK, Step, healthVars, WrGoto, WrHold, PutStatus
<1>1. Of[w] \in Queues
  BY V1QueueAssumption
<1>2. CASE Take(w)
  <2>1. /\ Head(ch[Of[w]]) \in Msg /\ Tail(ch[Of[w]]) \in Seq(Msg)
        /\ Len(Tail(ch[Of[w]])) = Len(ch[Of[w]]) - 1
    BY <1>1, <1>2, ChannelType DEF Take
  <2>2. ch' \in [Queues -> Seq(Msg)] /\ \A q \in Queues : Len(ch'[q]) <= Buffer
    BY <1>1, <1>2, <2>1, V1QueueAssumption DEF Take
  <2> QED BY <1>2, <2>1, <2>2 DEF Take
<1>3. CASE Publish(w)
  BY <1>1, <1>3 DEF Publish, AfterPublish
<1>4. CASE Delivered(w) \/ WriterCooled(w)
  BY <1>1, <1>4 DEF Delivered, WriterCooled, Handled
<1> QED BY <1>2, <1>3, <1>4 DEF WriterStep

LEMMA DeleteTypeOK ==
  ASSUME TypeOK, NEW w \in Writers, DeleteMessage(w)
  PROVE  TypeOK'
<1>1. PICK applied \in BOOLEAN :
        /\ Delete(w, applied)
        /\ FaultIf(~applied /\ ~Fails("delete", w))
        /\ UNCHANGED healthVars
  BY DEF DeleteMessage
<1>2. faults' \in 0..MaxFaults
  BY <1>1, FaultType DEF TypeOK, FaultIf
<1> QED BY <1>1, <1>2 DEF TypeOK, Delete, DeleteAtSqs, WrGoto, healthVars

(* A call that hangs leaves its goroutine where it has no step.            *)
LEMMA HangTypeOK ==
  ASSUME TypeOK, Hang
  PROVE  TypeOK'
<1> USE DEF TypeOK, healthVars
<1>1. faults' \in 0..MaxFaults /\ UNCHANGED healthVars
  BY FaultType DEF Hang
<1>2. ASSUME NEW r \in Readers, NEW S \in Receivable(r), ReceiveHangs(r, S) PROVE TypeOK'
  BY <1>1, <1>2 DEF ReceiveHangs, RdGoto
<1>3. ASSUME NEW w \in Writers, PublishHangs(w) PROVE TypeOK'
  BY <1>1, <1>3 DEF PublishHangs, WrGoto
<1>4. ASSUME NEW w \in Writers, NEW applied \in BOOLEAN, DeleteHangs(w, applied) PROVE TypeOK'
  BY <1>1, <1>4 DEF DeleteHangs, DeleteAtSqs, WrGoto
<1> QED BY <1>2, <1>3, <1>4 DEF Hang

LEMMA HealthTypeOK ==
  ASSUME TypeOK, Health \/ Time
  PROVE  TypeOK'
<1>1. /\ QueueList \in Seq(Queues) /\ Len(QueueList) \in Nat
      /\ DOMAIN QueueList = 1..Len(QueueList) /\ CacheTTL \in Nat
  BY V1HealthAssumption
<1>2. UNCHANGED <<queueVars, faults>>
  BY DEF Health, HealthStep, Time, Tick
<1>3. AnswerCached \/ StartScan \/ ReadStatus \/ NoError \/ Tick
  BY DEF Health, HealthStep, Time
<1>4. /\ scan' \in 0..Len(QueueList) + 1
      /\ lastQueue' \in Queues \cup {NoQueue}
      /\ age' \in 0..CacheTTL
  <2> USE DEF TypeOK
  <2>1. CASE AnswerCached \/ StartScan
    BY <1>1, <2>1 DEF AnswerCached, CachedAge, StartScan
  <2>2. CASE ReadStatus
    BY <1>1, <2>2 DEF ReadStatus, Save
  <2>3. CASE NoError
    BY <1>1, <2>3 DEF NoError, Save
  <2>4. CASE Tick
    BY <1>1, <2>4 DEF Tick
  <2> QED BY <1>3, <2>1, <2>2, <2>3, <2>4
<1> QED BY <1>2, <1>4 DEF TypeOK, queueVars, memVars

LEMMA EnvironmentTypeOK ==
  ASSUME TypeOK,
         \/ \E q \in Queues : Repair(q) \/ \E call \in Calls : Break(q, call)
         \/ \E m \in Msg : VisibilityTimeout(m)
         \/ Crash
  PROVE  TypeOK'
<1> USE DEF TypeOK, memVars, healthVars
<1>1. ASSUME NEW q \in Queues, Repair(q) PROVE TypeOK'
  BY <1>1 DEF Repair
<1>2. ASSUME NEW q \in Queues, NEW call \in Calls, Break(q, call) PROVE TypeOK'
  <2>1. faults' \in 0..MaxFaults
    BY <1>2, FaultType DEF Break
  <2> QED BY <1>2, <2>1 DEF Break
<1>3. ASSUME NEW m \in Msg, VisibilityTimeout(m) PROVE TypeOK'
  <2>1. faults' \in 0..MaxFaults
    BY <1>3, V1Assumption DEF VisibilityTimeout, FaultIf, Fault
  <2> QED BY <1>3, <2>1 DEF VisibilityTimeout
<1>4. CASE Crash
  <2>1. faults' \in 0..MaxFaults
    BY <1>4, FaultType DEF Crash
  <2>2. Len(QueueList) \in Nat /\ Buffer \in Nat /\ CacheTTL \in Nat
    BY V1HealthAssumption, V1QueueAssumption
  <2>3. <<>> \in Seq(Msg) /\ Len(<<>>) = 0
    OBVIOUS
  <2> QED BY <1>4, <2>1, <2>2, <2>3 DEF Crash, MemForget, HealthForget
<1> QED BY <1>1, <1>2, <1>3, <1>4

LEMMA InitTypeOK == Init => TypeOK
<1> SUFFICES ASSUME Init PROVE TypeOK
  OBVIOUS
<1>1. /\ Len(QueueList) \in Nat /\ Buffer \in Nat /\ CacheTTL \in Nat
      /\ <<>> \in Seq(Msg) /\ Len(<<>>) = 0 /\ MaxFaults \in Nat
  BY V1HealthAssumption, V1QueueAssumption, V1Assumption
<1> QED BY <1>1 DEF Init, MemInit, HealthInit, TypeOK

LEMMA StepTypeOK == TypeOK /\ [Next]_vars => TypeOK'
<1> SUFFICES ASSUME TypeOK, [Next]_vars PROVE TypeOK'
  OBVIOUS
<1>1. ASSUME NEW r \in Readers, ReceiveMessage(r) \/ Step(ReaderStep(r)) PROVE TypeOK'
  BY <1>1, ReceiveTypeOK, ReaderTypeOK DEF ReceiveMessage
<1>2. ASSUME NEW w \in Writers, Step(WriterStep(w)) \/ DeleteMessage(w) PROVE TypeOK'
  BY <1>2, WriterTypeOK, DeleteTypeOK
<1>3. CASE UNCHANGED vars
  BY <1>3 DEF vars, TypeOK, queueVars, memVars, healthVars
<1> QED BY <1>1, <1>2, <1>3, HealthTypeOK, HangTypeOK, EnvironmentTypeOK DEF Next

(* Every reachable state of the first version is well typed: channels stay *)
(* within Buffer, writers hold messages, the scan stays within the list.   *)
THEOREM TypeCorrect == Spec => []TypeOK
BY InitTypeOK, StepTypeOK, PTL DEF Spec

-----------------------------------------------------------------------------
(* A writer about to delete, or done with it, has had its message accepted. *)
AcceptedFirst ==
  \A w \in Writers : wrPc[w] = "delete" => wrHand[w] \subseteq accepted

NoLossInv == TypeOK /\ AcceptedFirst

Queued == {m \in Msg : sqs[m] # "deleted"}

(* What AtLeastOnce allows a step to do.                                    *)
Promised ==
  \/ UNCHANGED <<Queued, accepted>>
  \/ \E S \in SUBSET Msg : accepted' = accepted \cup S /\ UNCHANGED Queued
  \/ \E S \in SUBSET accepted : Queued' = Queued \ S /\ UNCHANGED accepted

LEMMA PublishPromised ==
  ASSUME NoLossInv, NEW w \in Writers, Publish(w)
  PROVE  AcceptedFirst' /\ Promised
<1>1. wrHand[w] \in SUBSET Msg /\ wrHand' = wrHand /\ sqs' = sqs
  BY DEF NoLossInv, TypeOK, Publish
<1>2. accepted' = accepted \cup wrHand[w] \/ (Fails("publish", w) /\ accepted' = accepted)
  BY DEF Publish
<1>3. wrPc' = [wrPc EXCEPT ![w] = AfterPublish(w)]
  BY DEF Publish, WrGoto
<1>4. AcceptedFirst'
  <2> SUFFICES ASSUME NEW v \in Writers, wrPc'[v] = "delete"
               PROVE  wrHand'[v] \subseteq accepted'
    BY DEF AcceptedFirst
  <2>1. CASE v = w
    BY <1>1, <1>2, <1>3, <2>1 DEF AfterPublish, NoLossInv, TypeOK
  <2>2. CASE v # w
    BY <1>1, <1>2, <1>3, <2>2 DEF NoLossInv, AcceptedFirst
  <2> QED BY <2>1, <2>2
<1> QED BY <1>1, <1>2, <1>4 DEF Promised, Queued

(* What SQS does for a call of a writer that is about to delete.            *)
LEMMA DeleteAtSqsPromised ==
  ASSUME NoLossInv, NEW w \in Writers, wrPc[w] = "delete",
         NEW applied \in BOOLEAN, DeleteAtSqs(w, applied), UNCHANGED accepted
  PROVE  Promised
<1>1. wrHand[w] \subseteq accepted
  BY DEF NoLossInv, AcceptedFirst
<1>2. sqs' = [m \in Msg |-> IF applied /\ m \in wrHand[w] THEN "deleted" ELSE sqs[m]]
  BY DEF DeleteAtSqs
<1>3. \E S \in SUBSET accepted : Queued' = Queued \ S
  <2>1. CASE applied
    <3>1. Queued' = Queued \ wrHand[w]
      BY <1>2, <2>1 DEF Queued
    <3> QED BY <1>1, <3>1
  <2>2. CASE ~applied
    BY <1>2, <2>2 DEF Queued
  <2> QED BY <2>1, <2>2
<1> QED BY <1>3 DEF Promised

LEMMA DeletePromised ==
  ASSUME NoLossInv, NEW w \in Writers, DeleteMessage(w)
  PROVE  AcceptedFirst' /\ Promised
<1>1. PICK applied \in BOOLEAN : Delete(w, applied)
  BY DEF DeleteMessage
<1>2. Promised
  BY <1>1, DeleteAtSqsPromised DEF Delete
<1>3. AcceptedFirst'
  BY <1>1 DEF Delete, WrGoto, NoLossInv, TypeOK, AcceptedFirst
<1> QED BY <1>2, <1>3

(* A call that hangs has done what such a call may do, or nothing.          *)
LEMMA HangPromised ==
  ASSUME NoLossInv, Hang
  PROVE  AcceptedFirst' /\ Promised
<1>1. ASSUME NEW r \in Readers, NEW S \in Receivable(r), ReceiveHangs(r, S)
      PROVE  AcceptedFirst' /\ Promised
  <2>1. \A m \in S : m \in Msg /\ sqs[m] = "visible"
    BY DEF Receivable
  <2>2. sqs' = [m \in Msg |-> IF m \in S THEN "inflight" ELSE sqs[m]]
        /\ UNCHANGED <<accepted, wrPc, wrHand>>
    BY <1>1 DEF ReceiveHangs
  <2>3. Queued' = Queued
    BY <2>1, <2>2 DEF Queued
  <2> QED BY <2>2, <2>3 DEF NoLossInv, AcceptedFirst, Promised
<1>2. ASSUME NEW w \in Writers, PublishHangs(w) PROVE AcceptedFirst' /\ Promised
  <2>1. /\ accepted' = accepted \cup wrHand[w] \/ accepted' = accepted
        /\ UNCHANGED <<sqs, wrHand>> /\ wrHand[w] \in SUBSET Msg
        /\ \A v \in Writers : wrPc'[v] = "delete" => wrPc[v] = "delete"
    BY <1>2 DEF PublishHangs, WrGoto, NoLossInv, TypeOK
  <2>2. AcceptedFirst'
    BY <2>1 DEF NoLossInv, AcceptedFirst
  <2> QED BY <2>1, <2>2 DEF Promised, Queued
<1>3. ASSUME NEW w \in Writers, NEW applied \in BOOLEAN, DeleteHangs(w, applied)
      PROVE  AcceptedFirst' /\ Promised
  <2>1. Promised
    BY <1>3, DeleteAtSqsPromised DEF DeleteHangs
  <2>2. AcceptedFirst'
    BY <1>3 DEF DeleteHangs, WrGoto, NoLossInv, TypeOK, AcceptedFirst
  <2> QED BY <2>1, <2>2
<1> QED BY <1>1, <1>2, <1>3 DEF Hang

LEMMA WriterPromised ==
  ASSUME NoLossInv, NEW w \in Writers, Step(WriterStep(w))
  PROVE  AcceptedFirst' /\ Promised
<1> USE DEF NoLossInv, TypeOK, AcceptedFirst, WrGoto, WrHold, Promised, Queued
<1>1. CASE Take(w)
  BY <1>1 DEF Take
<1>2. CASE Delivered(w) \/ WriterCooled(w)
  BY <1>2 DEF Delivered, WriterCooled, Handled
<1> QED BY <1>1, <1>2, PublishPromised DEF Step, WriterStep

(* Everything else leaves accepted and the deleted messages alone.          *)
LEMMA OthersPromised ==
  ASSUME NoLossInv,
         \/ \E r \in Readers : ReceiveMessage(r) \/ Step(ReaderStep(r))
         \/ Health \/ Time
         \/ \E q \in Queues : Repair(q) \/ \E call \in Calls : Break(q, call)
         \/ \E m \in Msg : VisibilityTimeout(m)
         \/ Crash
         \/ UNCHANGED vars
  PROVE  AcceptedFirst' /\ Promised
<1> USE DEF NoLossInv, TypeOK, AcceptedFirst, Promised, Queued
<1>1. ASSUME NEW r \in Readers, ReceiveMessage(r) PROVE AcceptedFirst' /\ Promised
  <2>1. PICK S \in Receivable(r) : Receive(r, S)
    BY <1>1 DEF ReceiveMessage, Step
  <2>2. \A m \in S : m \in Msg /\ sqs[m] = "visible"
    BY DEF Receivable
  <2>3. sqs' = [m \in Msg |-> IF m \in S THEN "inflight" ELSE sqs[m]]
        /\ UNCHANGED <<accepted, wrPc, wrHand>>
    BY <2>1 DEF Receive
  <2>4. Queued' = Queued
    BY <2>2, <2>3
  <2> QED BY <2>3, <2>4
<1>2. ASSUME NEW r \in Readers, Step(ReaderStep(r)) PROVE AcceptedFirst' /\ Promised
  BY <1>2 DEF Step, ReaderStep, Send, ReaderCooled
<1>3. CASE Health \/ Time \/ UNCHANGED vars
  BY <1>3 DEF Health, HealthStep, Time, Tick, vars, queueVars, memVars
<1>4. ASSUME NEW q \in Queues, NEW call \in Calls, Repair(q) \/ Break(q, call)
      PROVE  AcceptedFirst' /\ Promised
  BY <1>4 DEF Repair, Break, memVars
<1>5. ASSUME NEW m \in Msg, VisibilityTimeout(m) PROVE AcceptedFirst' /\ Promised
  BY <1>5 DEF VisibilityTimeout, memVars
<1>6. CASE Crash
  BY <1>6 DEF Crash, MemForget
<1> QED
  <2>1. "receive" \in Calls
    BY DEF Calls
  <2> QED BY <1>1, <1>2, <1>3, <1>4, <1>5, <1>6, <2>1

LEMMA StepPromised == NoLossInv /\ [Next]_vars => NoLossInv' /\ Promised
<1> SUFFICES ASSUME NoLossInv, [Next]_vars PROVE NoLossInv' /\ Promised
  OBVIOUS
<1>1. TypeOK'
  BY StepTypeOK DEF NoLossInv
<1>2. AcceptedFirst' /\ Promised
  BY WriterPromised, DeletePromised, HangPromised, OthersPromised DEF Next
<1> QED BY <1>1, <1>2 DEF NoLossInv

LEMMA InitNoLossInv == Init => NoLossInv /\ ALO!AInit
BY InitTypeOK DEF NoLossInv, AcceptedFirst, Init, MemInit, ALO!AInit

LEMMA PromisedRefines ==
  NoLossInv /\ Promised => [ALO!ANext]_<<Queued, accepted>>
<1> SUFFICES ASSUME NoLossInv, Promised PROVE [ALO!ANext]_<<Queued, accepted>>
  OBVIOUS
<1>1. accepted \in SUBSET Msg
  BY DEF NoLossInv, TypeOK
<1> QED BY <1>1 DEF Promised, Queued, ALO!ANext, ALO!Publish, ALO!Delete

(* The first version implements AtLeastOnce: a writer asks SQS to delete a  *)
(* message only after SNS has accepted it, through errors, redelivery, hung *)
(* calls and crashes, for any number of queues, readers and writers.       *)
THEOREM NoLoss == Spec => AtLeastOnceSpec
<1>1. Init => NoLossInv /\ ALO!AInit
  BY InitNoLossInv
<1>2. NoLossInv /\ [Next]_vars => NoLossInv' /\ [ALO!ANext]_<<Queued, accepted>>
  BY StepPromised, PromisedRefines
<1> QED BY <1>1, <1>2, PTL DEF Spec, AtLeastOnceSpec, ALO!ASpec, Queued
=============================================================================

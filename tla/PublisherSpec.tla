---------------------------- MODULE PublisherSpec ----------------------------
(***************************************************************************)
(* The publishers of one queue between an environment that stands for the  *)
(* readers (it sends deliveries to publishCh) and for the janitors (it     *)
(* empties deleteCh).                                                      *)
(***************************************************************************)
EXTENDS Publisher

CONSTANT Arrivals  \* the deliveries that readers may hand over

ASSUME ArrivalsAssumption == Arrivals \subseteq Delivery

vars == <<pubVars, chVars>>

Init == PubInit /\ ChInit

-----------------------------------------------------------------------------
\* The process holds d somewhere.
Held(d) ==
  \/ d \in {publishCh[i] : i \in DOMAIN publishCh}
  \/ d \in {publishPool[i] : i \in DOMAIN publishPool}
  \/ d \in {deleteCh[i] : i \in DOMAIN deleteCh}
  \/ \E a \in PublishAgents : PubInHand(a, d) > 0

\* A reader forwards a delivery, which newMessage let through.  The model has
\* few names for deliveries, so one that nothing holds any more is used again;
\* "accepted" then speaks of the new one.
Deliver(d) ==
  /\ Fits(d.id)
  /\ ~Held(d)
  /\ SendPublish(d)
  /\ accepted' = accepted \ {d}
  /\ UNCHANGED <<pubProcVars, deleteCh>>

\* A janitor takes a message.
Dispose ==
  /\ \E d \in {deleteCh[i] : i \in DOMAIN deleteCh} : ReceiveDelete(d)
  /\ UNCHANGED <<pubVars, publishCh>>

Environment ==
  \/ \E d \in Arrivals : Deliver(d)
  \/ Dispose

Next ==
  \/ PublishersStep
  \/ \E a \in PublishAgents : PublishCall(a)
  \/ Environment

Spec == Init /\ [][Next]_vars

\* Goroutines that can run do run; an API call returns (awsAPITimeout bounds
\* it); the ticker ticks.  The flush interval passes unless publishing goes on
\* and on, which is all that real time promises: it is not WF(ElapsePublish).
PublishingGoesOn == []<><<\E a \in PublishAgents : PublishCall(a)>>_vars

Fairness ==
  /\ WF_vars(StartRootPublisher)
  /\ \A p \in Publishers : WF_vars(PublisherStep(p))
  /\ WF_vars(PublishFlusherStep)
  /\ \A a \in PublishAgents : WF_vars(PublishCall(a))
  /\ WF_vars(ElapsePublish) \/ PublishingGoesOn
  /\ WF_vars(Dispose)

FairSpec == Spec /\ Fairness

-----------------------------------------------------------------------------
\* Every variable has its type; a batch in hand is within maxBatchItems.
TypeOK == ChTypeOK /\ PubTypeOK

Live == {p \in Publishers : pubPc[p] \notin {"none", "start"}}

\* The check and the increment of startPublisher are two atomic operations;
\* still the counter is the number of publisher goroutines and never exceeds
\* LimitPublishers.
PublisherLimit ==
  /\ publishers = Cardinality(Live)
  /\ publishers <= LimitPublishers

\* Publishers that have added a message and not yet been told "no full batch".
OwingDrain == {p \in Publishers : pubPc[p] \in {"getFullBatch", "publish", "forward"}}

\* The pool is an unbounded slice, but backpressure bounds it: fewer elements
\* than a batch, plus one for each publisher that still has to drain.
PoolBound ==
  Len(publishPool) <= (MaxBatchItems - 1) + Cardinality(OwingDrain)

\* A full batch in the pool is never left to the flusher: some publisher will
\* ask for it again.
NoStrandedBatch == FullBatchFound(publishPool) => OwingDrain # {}

\* The payload of the first i messages of a batch, paddings included.
Payload(batch) ==
  LET sum[i \in 0..Len(batch)] == IF i = 0 THEN 0 ELSE sum[i - 1] + Weight(batch[i])
  IN sum

\* What SNS is asked to publish is legal: not empty, at most maxBatchItems
\* entries, within the payload limit, paddings included, and no two entries
\* with one id, although SQS may hand out a message twice.
BatchLegal ==
  \A a \in PublishAgents : pubPc[a] = "publish" =>
    LET batch == pubBatch[a]
    IN /\ Len(batch) \in 1..MaxBatchItems
       /\ Payload(batch)[Len(batch)] <= MaxSnsPublishPayload
       /\ DistinctIDs(batch)

\* A message goes to the janitors only when SNS has accepted it, whatever
\* failed partially, failed after it was accepted, or was interleaved.
ForwardedAccepted ==
  /\ \A i \in DOMAIN deleteCh : deleteCh[i] \in accepted
  /\ \A a \in PublishAgents : \A i \in pubOk[a] : pubBatch[a][i] \in accepted

\* A delivery is at one place only: no goroutine publishes or deletes it twice
\* because another one took it as well.
SingleCustody ==
  \A d \in Arrivals :
    LET hands == {a \in PublishAgents : PubInHand(a, d) > 0}
    IN /\ \A a \in hands : PubInHand(a, d) = 1
       /\ Occurrences(publishCh, d) + Occurrences(publishPool, d)
            + Occurrences(deleteCh, d) + Cardinality(hands) <= 1

\* A delivery is let go by a janitor that takes it or by batchPublish when it
\* was in a batch that SNS did not acknowledge, and in no other way.
LetGoByCallOrJanitor ==
  \A d \in Arrivals : Held(d) /\ ~Held(d)' =>
    \/ deleteCh # <<>> /\ deleteCh' = Tail(deleteCh) /\ d = Head(deleteCh)
    \/ \E a \in PublishAgents : /\ pubPc[a] = "publish" /\ pubPc'[a] # "publish"
                                /\ Occurrences(pubBatch[a], d) > 0

NothingLost == [][LetGoByCallOrJanitor]_vars

\* A message that entered the process is offered to SNS sooner or later, even
\* when it waits in the pool behind messages that keep filling the batches and
\* keep the flusher quiet.
NoStarvation ==
  \A d \in Arrivals :
    (Occurrences(publishCh, d) + Occurrences(publishPool, d) > 0)
      ~> (Occurrences(publishCh, d) + Occurrences(publishPool, d) = 0)
=============================================================================

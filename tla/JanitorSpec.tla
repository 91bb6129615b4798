----------------------------- MODULE JanitorSpec -----------------------------
(***************************************************************************)
(* The janitors of one queue between an environment that stands for the    *)
(* publishers (it sends deliveries to deleteCh) and SQS.                   *)
(***************************************************************************)
EXTENDS Janitor

CONSTANT Arrivals  \* the deliveries that publishers may hand over

ASSUME ArrivalsAssumption == Arrivals \subseteq Delivery

vars == <<janVars, chVars, sqsVars>>

Init ==
  /\ JanInit /\ ChInit
  /\ sqs = [m \in Msg |-> "inflight"]
  /\ receives = [m \in Msg |-> 1]

Held(d) ==
  \/ Occurrences(deleteCh, d) + Occurrences(deletePool, d) > 0
  \/ \E a \in DeleteAgents : Occurrences(janBatch[a], d) > 0

\* A publisher forwards a delivery.  A name that nothing holds any more is
\* used again, for a message that SQS has in flight.
Deliver(d) ==
  /\ ~Held(d)
  /\ SendDelete(d)
  /\ sqs' = [sqs EXCEPT ![d.id] = "inflight"]
  /\ UNCHANGED <<janVars, receives, publishCh>>

Next ==
  \/ JanitorsStep
  \/ \E a \in DeleteAgents : DeleteCall(a)
  \/ \E d \in Arrivals : Deliver(d)

Spec == Init /\ [][Next]_vars

\* As for the publishers: goroutines run, calls return, the ticker ticks, and
\* the flush interval passes unless deleting goes on and on.
DeletingGoesOn == []<><<\E a \in DeleteAgents : DeleteCall(a)>>_vars

Fairness ==
  /\ WF_vars(StartRootJanitor)
  /\ \A j \in Janitors : WF_vars(JanitorStep(j))
  /\ WF_vars(DeleteFlusherStep)
  /\ \A a \in DeleteAgents : WF_vars(DeleteCall(a))
  /\ WF_vars(ElapseDelete) \/ DeletingGoesOn

FairSpec == Spec /\ Fairness

-----------------------------------------------------------------------------
\* Every variable has its type.
TypeOK == ChTypeOK /\ JanTypeOK /\ SqsTypeOK

LiveJanitors == {j \in Janitors : janPc[j] \notin {"none", "start"}}

\* The counter is the number of janitors and never exceeds LimitDeleters.
JanitorLimit ==
  /\ janitors = Cardinality(LiveJanitors)
  /\ janitors <= LimitDeleters

\* Janitors that have added a message and not yet been told "no full batch".
OwingDelete == {j \in Janitors : janPc[j] \in {"getFullBatch", "delete"}}

\* The delete pool is an unbounded slice, but it holds fewer elements than a
\* batch, plus one for each janitor that still has to drain.
DeletePoolBound ==
  Len(deletePool) <= (MaxBatchItems - 1) + Cardinality(OwingDelete)

\* What SQS is asked to delete is legal: not empty, at most maxBatchItems
\* entries, and no two of them with one id.
DeleteBatchLegal ==
  \A a \in DeleteAgents : janPc[a] = "delete" =>
    Len(janBatch[a]) \in 1..MaxBatchItems /\ DistinctIDs(janBatch[a])

\* A delivery is at one place only, however janitors and the flusher shift the
\* pool: none is deleted twice because a shift left it behind.
SingleCustody ==
  \A d \in Arrivals :
    LET hands == {a \in DeleteAgents : Occurrences(janBatch[a], d) > 0}
    IN /\ \A a \in hands : Occurrences(janBatch[a], d) = 1
       /\ Occurrences(deleteCh, d) + Occurrences(deletePool, d) + Cardinality(hands) <= 1

\* A delivery leaves the janitors only in a DeleteMessageBatch that has it: no
\* shift of the pool, by whichever of them, and no end of a sibling drops it.
\* One that is dropped would be received and published once more.
LetGoInBatch ==
  \A d \in Arrivals : Held(d) /\ ~Held(d)' =>
    \E a \in DeleteAgents : /\ janPc[a] = "delete" /\ janPc'[a] # "delete"
                            /\ Occurrences(janBatch[a], d) > 0

NothingLost == [][LetGoInBatch]_vars

\* A message handed to the janitors gets into a DeleteMessageBatch: the root
\* keeps taking from deleteCh and what does not fill a batch is flushed.
DeleteRequested ==
  \A d \in Arrivals :
    (Occurrences(deleteCh, d) + Occurrences(deletePool, d) > 0)
      ~> (Occurrences(deleteCh, d) + Occurrences(deletePool, d) = 0)

\* When demand is gone for good, all siblings end and only the root is left,
\* as the README says of nonroot goroutines.
SiblingsEnd ==
  <>[](deleteCh = <<>> /\ deletePool = <<>>) => <>[](LiveJanitors = {RootJanitor})
=============================================================================

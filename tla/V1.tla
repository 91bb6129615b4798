--------------------------------- MODULE V1 ---------------------------------
(***************************************************************************)
(* The first version as a whole: its queues and its health check, with SQS *)
(* and SNS, whose calls may fail for a while or never return, and a        *)
(* process that is killed and started again.  It has no other end.         *)
(***************************************************************************)
EXTENDS V1Health

CONSTANT MaxFaults  \* bound: how often something goes wrong in a behaviour

ASSUME V1Assumption == MaxFaults \in Nat

VARIABLE faults

vars == <<queueVars, healthVars, faults>>

Init ==
  /\ MemInit /\ HealthInit
  /\ sqs = [m \in Msg |-> "visible"]
  /\ accepted = {}
  /\ broken = [q \in Queues |-> {}]
  /\ faults = 0

Fault == faults < MaxFaults /\ faults' = faults + 1
FaultIf(b) == IF b THEN Fault ELSE UNCHANGED faults

-----------------------------------------------------------------------------
Step(A) == A /\ UNCHANGED <<healthVars, faults>>

ReceiveMessage(r) == \E S \in Receivable(r) : Step(Receive(r, S))

DeleteMessage(w) ==
  \E applied \in BOOLEAN :
    /\ Delete(w, applied)
    /\ FaultIf(~applied /\ ~Fails("delete", w))
    /\ UNCHANGED healthVars

\* A call is made that never returns.
Hang ==
  /\ Fault
  /\ \/ \E r \in Readers : \E S \in Receivable(r) : ReceiveHangs(r, S)
     \/ \E w \in Writers : PublishHangs(w) \/ \E applied \in BOOLEAN : DeleteHangs(w, applied)
  /\ UNCHANGED healthVars

Health == HealthStep /\ UNCHANGED faults
Time == Tick /\ UNCHANGED faults

\* From now on a call of a queue fails; or all of them work again.
Break(q, call) ==
  /\ call \notin broken[q]
  /\ Fault
  /\ broken' = [broken EXCEPT ![q] = @ \cup {call}]
  /\ UNCHANGED <<sqs, accepted, memVars, healthVars>>

Repair(q) ==
  /\ broken[q] # {}
  /\ broken' = [broken EXCEPT ![q] = {}]
  /\ UNCHANGED <<sqs, accepted, memVars, healthVars, faults>>

\* The process has message m and may still come to delete it.
Holds(m) ==
  \/ \E r \in Readers : m \in rdHand[r]
  \/ \E w \in Writers : m \in wrHand[w] /\ wrPc[w] # "hung"
  \/ \E q \in Queues : \E i \in DOMAIN ch[q] : ch[q][i] = m

\* A message that is not deleted in time becomes visible again.  While the
\* process has it that is a disturbance, otherwise the recovery.
VisibilityTimeout(m) ==
  /\ sqs[m] = "inflight"
  /\ sqs' = [sqs EXCEPT ![m] = "visible"]
  /\ FaultIf(Holds(m))
  /\ UNCHANGED <<accepted, broken, memVars, healthVars>>

\* The process is killed, with all it holds, and started again.
Crash ==
  /\ Fault
  /\ MemForget /\ HealthForget
  /\ UNCHANGED <<sqs, accepted, broken>>

Next ==
  \/ \E r \in Readers : ReceiveMessage(r) \/ Step(ReaderStep(r))
  \/ \E w \in Writers : Step(WriterStep(w)) \/ DeleteMessage(w)
  \/ Health \/ Time
  \/ \E q \in Queues : Repair(q) \/ \E call \in Calls : Break(q, call)
  \/ \E m \in Msg : VisibilityTimeout(m)
  \/ Hang
  \/ Crash

Spec == Init /\ [][Next]_vars

\* SQS hands out m to a reader.
HandsOut(m) ==
  \E r \in Readers : \E S \in Receivable(r) : m \in S /\ Step(Receive(r, S))

\* Goroutines run, a call that does not hang (Hang, which is never fair and
\* leaves its goroutine without a step) returns, and somebody asks for the
\* health again and again.  SQS hands out every visible message to readers that
\* keep asking.
Fairness ==
  /\ \A r \in Readers : WF_vars(ReceiveMessage(r) \/ Step(ReaderStep(r)))
  /\ \A w \in Writers : WF_vars(Step(WriterStep(w)) \/ DeleteMessage(w))
  /\ \A m \in Msg : SF_vars(HandsOut(m)) /\ WF_vars(~Holds(m) /\ VisibilityTimeout(m))
  /\ WF_vars(Health) /\ WF_vars(Time)

FairSpec == Spec /\ Fairness

-----------------------------------------------------------------------------
\* Every variable has its type.
TypeOK ==
  /\ sqs \in [Msg -> {"visible", "inflight", "deleted"}]
  /\ accepted \in SUBSET Msg
  /\ broken \in [Queues -> SUBSET Calls]
  /\ ch \in [Queues -> Seq(Msg)]
  /\ \A q \in Queues : Len(ch[q]) <= Buffer
  /\ status \in [Queues -> {"nil", "error"}]
  /\ rdPc \in [Readers -> {"receive", "send", "cooldown", "hung"}]
  /\ rdHand \in [Readers -> SUBSET Msg]
  /\ wrPc \in [Writers -> {"range", "publish", "delete", "deleted", "cooldown", "hung"}]
  /\ wrHand \in [Writers -> SUBSET Msg]
  /\ scan \in 0..Len(QueueList) + 1
  /\ lastQueue \in Queues \cup {NoQueue}
  /\ age \in 0..CacheTTL
  /\ faults \in 0..MaxFaults

\* The first version implements AtLeastOnce too: a writer deletes a message
\* only after SNS has accepted it, whatever fails, expires or is killed.
ALO == INSTANCE AtLeastOnce WITH
         Message <- Msg,
         queued <- {m \in Msg : sqs[m] # "deleted"},
         published <- accepted

AtLeastOnceSpec == ALO!ASpec

\* The calls of q work, and it has a reader and a writer that no call has lost.
Serves(q) ==
  /\ broken[q] = {}
  /\ \E r \in Readers : Of[r] = q /\ rdPc[r] # "hung"
  /\ \E w \in Writers : Of[w] = q /\ wrPc[w] # "hung"

\* When the queue of a message serves for good, the message is deleted in the
\* end, also one that a hung call has taken out of sight or has in hand: no
\* reader or writer is lost to an error, a full channel, a crash or a hung
\* neighbour.
AllForwarded == \A m \in Msg : <>[]Serves(Of[m]) => <>(sqs[m] = "deleted")

Failing(q) ==
  \/ \E r \in Readers : Of[r] = q /\ rdPc[r] = "cooldown"
  \/ \E w \in Writers : Of[w] = q /\ wrPc[w] = "cooldown"

\* When a call of a queue fails for good and the queue goes on needing it, the
\* health check answers 500 from some time on: no success of another call, of
\* an older message or of another queue hides it, and neither does the cache.
FailureReported ==
  \A q \in Queues, call \in Calls :
    <>[](call \in broken[q]) /\ []<>Failing(q) => <>[](lastQueue # NoQueue)

\* The first queue of the list that has an error, in s.
FirstError(s) ==
  LET errors == {i \in DOMAIN QueueList : s[QueueList[i]] = "error"}
  IN IF errors = {} THEN NoQueue
     ELSE QueueList[CHOOSE i \in errors : \A j \in errors : i <= j]

\* Once no status changes any more, the answers follow it, however often and
\* however fast they are asked for.
AnswersFollow ==
  \A s \in [Queues -> {"nil", "error"}] :
    <>[](status = s) => <>[](lastQueue = FirstError(s))
=============================================================================

--------------------------------- MODULE Sqs ---------------------------------
(***************************************************************************)
(* The SQS queue as the program sees it (external).  A received message is *)
(* in flight until it is deleted or its visibility timeout makes it        *)
(* visible again; each receive gives it a new receipt handle.              *)
(***************************************************************************)
EXTENDS Pool

CONSTANT MaxReceives  \* bound: how often SQS hands out one message

ASSUME SqsAssumption == MaxReceives \in Nat

VARIABLES
  sqs,       \* the state of each message
  receives   \* how often each message was handed out: its latest receipt

sqsVars == <<sqs, receives>>

SqsTypeOK ==
  /\ sqs \in [Msg -> {"visible", "inflight", "deleted"}]
  /\ receives \in [Msg -> Nat]

SqsInit ==
  /\ sqs = [m \in Msg |-> "visible"]
  /\ receives = [m \in Msg |-> 0]

\* What a ReceiveMessage of at most n messages may return.
Receivable(n) ==
  {S \in SUBSET {m \in Msg : sqs[m] = "visible" /\ receives[m] < MaxReceives} :
     IsFiniteSet(S) /\ Cardinality(S) <= n}

SqsReceive(S) ==
  /\ sqs' = [m \in Msg |-> IF m \in S THEN "inflight" ELSE sqs[m]]
  /\ receives' = [m \in Msg |-> IF m \in S THEN receives[m] + 1 ELSE receives[m]]

Latest(m) == [id |-> m, rcpt |-> receives[m]]

\* The messages of D are removed.  With an old receipt handle SQS may or may
\* not do so: the caller chooses D.
SqsDelete(D) ==
  /\ sqs' = [m \in Msg |-> IF \E d \in D : d.id = m THEN "deleted" ELSE sqs[m]]
  /\ UNCHANGED receives

VisibilityTimeout(m) ==
  /\ sqs[m] = "inflight"
  /\ sqs' = [sqs EXCEPT ![m] = "visible"]
  /\ UNCHANGED receives
=============================================================================

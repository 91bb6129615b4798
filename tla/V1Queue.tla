------------------------------- MODULE V1Queue -------------------------------
(***************************************************************************)
(* The first version of the program (src/cmd/sqs-to-sns): every queue has  *)
(* a fixed number of readers, one channel and a fixed number of writers,   *)
(* which publish and delete one message at a time.  A queue remembers what *)
(* its last call came to.  No call has a timeout: it answers, or it hangs  *)
(* and its goroutine is lost until the next start.                         *)
(***************************************************************************)
EXTENDS Integers, Sequences, FiniteSets

CONSTANTS
  Msg,                  \* the messages SQS holds, of all queues
  Queues,
  Readers, Writers,     \* the goroutines of all queues
  Of,                   \* the queue of each message and goroutine
  Buffer,               \* cap(q.ch)
  MaxNumberOfMessages

ASSUME V1QueueAssumption ==
  /\ Of \in [Msg \cup Readers \cup Writers -> Queues]
  /\ Buffer \in Nat \ {0}
  /\ MaxNumberOfMessages \in Nat \ {0}

VARIABLES
  sqs,       \* external: the state of each message
  accepted,  \* external: the messages SNS has accepted
  broken,    \* external: the calls that fail, of each queue
  ch,        \* q.ch
  status,    \* q.healthStatus
  rdPc, rdHand,
  wrPc, wrHand

memVars == <<ch, status, rdPc, rdHand, wrPc, wrHand>>
queueVars == <<memVars, sqs, accepted, broken>>

Calls == {"receive", "publish", "delete"}

Fails(call, g) == call \in broken[Of[g]]

PutStatus(g, s) == status' = [status EXCEPT ![Of[g]] = s]

MemInit ==
  /\ ch = [q \in Queues |-> <<>>]
  /\ status = [q \in Queues |-> "nil"]
  /\ rdPc = [r \in Readers |-> "receive"]
  /\ rdHand = [r \in Readers |-> {}]
  /\ wrPc = [w \in Writers |-> "range"]
  /\ wrHand = [w \in Writers |-> {}]

\* The end of the process and the next start.
MemForget ==
  /\ ch' = [q \in Queues |-> <<>>]
  /\ status' = [q \in Queues |-> "nil"]
  /\ rdPc' = [r \in Readers |-> "receive"]
  /\ rdHand' = [r \in Readers |-> {}]
  /\ wrPc' = [w \in Writers |-> "range"]
  /\ wrHand' = [w \in Writers |-> {}]

-----------------------------------------------------------------------------
RdGoto(r, l) == rdPc' = [rdPc EXCEPT ![r] = l]
RdHold(r, S) == rdHand' = [rdHand EXCEPT ![r] = S]

\* What SQS may hand out to a reader.
Receivable(r) ==
  {S \in SUBSET {m \in Msg : sqs[m] = "visible" /\ Of[m] = Of[r]} :
     Cardinality(S) <= MaxNumberOfMessages}

\* (mutant) an empty receive counts as a success.
NilStatus(r) == "nil"

\* An empty receive leaves the status alone.
EmptyStatus(r) == status[Of[r]]

\* ReceiveMessage.  A call that fails may have taken messages out of sight.
Receive(r, S) ==
  /\ rdPc[r] = "receive"
  /\ sqs' = [m \in Msg |-> IF m \in S THEN "inflight" ELSE sqs[m]]
  /\ IF Fails("receive", r)
     THEN RdGoto(r, "cooldown") /\ UNCHANGED <<rdHand, status>>
     ELSE /\ RdGoto(r, IF S = {} THEN "receive" ELSE "send")
          /\ RdHold(r, S)
          /\ IF S = {} THEN PutStatus(r, EmptyStatus(r)) ELSE UNCHANGED status
  /\ UNCHANGED <<accepted, broken, ch, wrPc, wrHand>>

\* The call never returns, whatever SQS has taken out of sight for it.
ReceiveHangs(r, S) ==
  /\ rdPc[r] = "receive"
  /\ sqs' = [m \in Msg |-> IF m \in S THEN "inflight" ELSE sqs[m]]
  /\ RdGoto(r, "hung")
  /\ UNCHANGED <<accepted, broken, ch, status, rdHand, wrPc, wrHand>>

\* (mutant) the channel takes one message more than its capacity.
RoomBeyond(q) == Len(ch[q]) <= Buffer

Room(q) == Len(ch[q]) < Buffer

\* q.ch <- message
Send(r) ==
  /\ rdPc[r] = "send"
  /\ Room(Of[r])
  /\ \E m \in rdHand[r] :
       /\ ch' = [ch EXCEPT ![Of[r]] = Append(@, m)]
       /\ RdHold(r, rdHand[r] \ {m})
       /\ RdGoto(r, IF rdHand[r] = {m} THEN "receive" ELSE "send")
  /\ UNCHANGED <<sqs, accepted, broken, status, wrPc, wrHand>>

\* (mutant) an error ends the loop: at "send" with nothing in hand a reader has
\* no step any more.
BreakLoop(r) == "send"

ContinueLoop(r) == "receive"

\* The error is put after the sleep, over whatever was put meanwhile.
ReaderCooled(r) ==
  /\ rdPc[r] = "cooldown"
  /\ PutStatus(r, "error")
  /\ RdGoto(r, ContinueLoop(r))
  /\ UNCHANGED <<sqs, accepted, broken, ch, rdHand, wrPc, wrHand>>

-----------------------------------------------------------------------------
WrGoto(w, l) == wrPc' = [wrPc EXCEPT ![w] = l]
WrHold(w, S) == wrHand' = [wrHand EXCEPT ![w] = S]

\* sqsMsg := <-q.ch
Take(w) ==
  /\ wrPc[w] = "range"
  /\ ch[Of[w]] # <<>>
  /\ WrHold(w, {Head(ch[Of[w]])})
  /\ ch' = [ch EXCEPT ![Of[w]] = Tail(@)]
  /\ WrGoto(w, "publish")
  /\ UNCHANGED <<sqs, accepted, broken, status, rdPc, rdHand>>

\* (mutant) handleMessage does not look at what snsPublish returned.
DeleteAnyway(w) == "delete"

AfterPublish(w) == IF Fails("publish", w) THEN "cooldown" ELSE "delete"

\* snsPublish up to the answer; SNS may have accepted what it fails to answer.
Publish(w) ==
  /\ wrPc[w] = "publish"
  /\ \/ accepted' = accepted \cup wrHand[w]
     \/ Fails("publish", w) /\ UNCHANGED accepted
  /\ WrGoto(w, AfterPublish(w))
  /\ UNCHANGED <<sqs, broken, ch, status, rdPc, rdHand, wrHand>>

\* The call never returns; SNS may have accepted the message.
PublishHangs(w) ==
  /\ wrPc[w] = "publish"
  /\ accepted' = accepted \cup wrHand[w] \/ UNCHANGED accepted
  /\ WrGoto(w, "hung")
  /\ UNCHANGED <<sqs, broken, ch, status, rdPc, rdHand, wrHand>>

\* What SQS does for a DeleteMessage, if it gets and applies it.
DeleteAtSqs(w, applied) ==
  sqs' = [m \in Msg |-> IF applied /\ m \in wrHand[w] THEN "deleted" ELSE sqs[m]]

\* sqsDelete up to the answer.  With an old receipt handle a call may answer
\* well and do nothing, as one that fails may have deleted.
Delete(w, applied) ==
  /\ wrPc[w] = "delete"
  /\ DeleteAtSqs(w, applied)
  /\ WrGoto(w, IF Fails("delete", w) THEN "cooldown" ELSE "deleted")
  /\ UNCHANGED <<accepted, broken, ch, status, rdPc, rdHand, wrHand>>

\* The call never returns; SQS may have deleted the message.
DeleteHangs(w, applied) ==
  /\ wrPc[w] = "delete"
  /\ DeleteAtSqs(w, applied)
  /\ WrGoto(w, "hung")
  /\ UNCHANGED <<accepted, broken, ch, status, rdPc, rdHand, wrHand>>

\* The end of handleMessage, after a success and after the sleep that follows
\* an error; the message is let go.
Handled(w, pc, s) ==
  /\ wrPc[w] = pc
  /\ PutStatus(w, s)
  /\ WrHold(w, {})
  /\ WrGoto(w, "range")
  /\ UNCHANGED <<sqs, accepted, broken, ch, rdPc, rdHand>>

Delivered(w) == Handled(w, "deleted", "nil")
WriterCooled(w) == Handled(w, "cooldown", "error")

ReaderStep(r) == Send(r) \/ ReaderCooled(r)
WriterStep(w) == Take(w) \/ Publish(w) \/ Delivered(w) \/ WriterCooled(w)
=============================================================================

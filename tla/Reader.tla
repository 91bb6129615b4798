-------------------------------- MODULE Reader --------------------------------
(***************************************************************************)
(* startReader and receiverReal for one queue: the root reader, its        *)
(* siblings, and stop(), which main calls on a signal.  A reader reads     *)
(* "stopped" under a lock, calls the API without it, and reads "stopped"   *)
(* again when the call fails; stop sets the flag and then cancels.         *)
(***************************************************************************)
EXTENDS Queue, Sqs

CONSTANTS
  Readers,              \* slots for reader goroutines
  RootReader,           \* the one that run() starts
  LimitReaders,         \* queueCfg.LimitReaders
  MaxNumberOfMessages,  \* queueCfg.MaxNumberOfMessages
  FullReceive           \* the literal 10 of len(msg) >= 10

ASSUME ReaderAssumption ==
  /\ IsFiniteSet(Readers)
  /\ RootReader \in Readers
  /\ LimitReaders \in Nat \ {0}
  /\ MaxNumberOfMessages \in Nat \ {0}
  /\ FullReceive \in Nat \ {0}

VARIABLES
  readers,        \* the atomic counter of reader goroutines
  stopped,        \* receiverReal.stopped
  cancelled,      \* receiverReal.cancel was called
  rdPc,           \* where each goroutine is
  rdHand,         \* the messages it still has to send to publishCh
  rdLen,          \* len(msg) of its last receive
  rdErr,          \* why its last ReceiveMessage failed
  receiveErrors   \* stats.receiveErrors: the kinds of failure it counted

readerVars == <<readers, stopped, cancelled, rdPc, rdHand, rdLen, rdErr, receiveErrors>>

ReaderPcs == {"start", "none", "receive", "waiting", "reread", "forward",
              "scale", "limit", "spawn"}
Errors == {"nil", "api", "cancelled"}

RdPcInit == [r \in Readers |-> IF r = RootReader THEN "start" ELSE "none"]

RdInit ==
  /\ readers = 0
  /\ stopped = FALSE
  /\ cancelled = FALSE
  /\ rdPc = RdPcInit
  /\ rdHand = [r \in Readers |-> {}]
  /\ rdLen = [r \in Readers |-> 0]
  /\ rdErr = [r \in Readers |-> "nil"]
  /\ receiveErrors = {}

\* The end of the process.
RdForget ==
  /\ readers' = 0
  /\ stopped' = FALSE
  /\ cancelled' = FALSE
  /\ rdPc' = RdPcInit
  /\ rdHand' = [r \in Readers |-> {}]
  /\ rdLen' = [r \in Readers |-> 0]
  /\ rdErr' = [r \in Readers |-> "nil"]
  /\ receiveErrors' = {}

RdTypeOK ==
  /\ readers \in Int
  /\ stopped \in BOOLEAN
  /\ cancelled \in BOOLEAN
  /\ rdPc \in [Readers -> ReaderPcs]
  /\ rdHand \in [Readers -> SUBSET Delivery]
  /\ rdLen \in [Readers -> 0..MaxNumberOfMessages]
  /\ rdErr \in [Readers -> Errors]
  /\ receiveErrors \subseteq Errors

RdGoto(r, l) == rdPc' = [rdPc EXCEPT ![r] = l]

\* The deferred readers.Add(-1) and the end of the goroutine.
ExitReader(r) == RdGoto(r, "none") /\ readers' = readers - 1

-----------------------------------------------------------------------------
\* run() counts the root and starts it.
StartRootReader ==
  /\ rdPc[RootReader] = "start"
  /\ readers' = readers + 1
  /\ RdGoto(RootReader, "receive")
  /\ UNCHANGED <<stopped, cancelled, rdHand, rdLen, rdErr, receiveErrors, chVars, sqsVars>>

\* (mutant) the caller ignores mustStop and calls receive again.
CheckStoppedIgnored(r) ==
  /\ rdPc[r] = "receive"
  /\ RdGoto(r, IF stopped THEN "receive" ELSE "waiting")
  /\ UNCHANGED <<readers, stopped, cancelled, rdHand, rdLen, rdErr, receiveErrors, chVars, sqsVars>>

\* receive: if the receiver was stopped it returns no message and no error,
\* and the reader ends; otherwise it calls ReceiveMessage.
CheckStopped(r) ==
  /\ rdPc[r] = "receive"
  /\ IF stopped
     THEN ExitReader(r)
     ELSE RdGoto(r, "waiting") /\ UNCHANGED readers
  /\ UNCHANGED <<stopped, cancelled, rdHand, rdLen, rdErr, receiveErrors, chVars, sqsVars>>

\* (mutant) a response that arrives after the stop is thrown away.
KeptUnlessStopped(S) == IF stopped THEN {} ELSE {m \in S : Fits(m)}

\* The messages of a response that newMessage lets through.
Kept(S) == {m \in S : Fits(m)}

\* ReceiveMessage answers with the messages S, none of them after a long poll.
\* A response may still arrive although the context was cancelled.
Receive(r, S) ==
  /\ rdPc[r] = "waiting"
  /\ SqsReceive(S)
  /\ rdHand' = [rdHand EXCEPT ![r] = {[id |-> m, rcpt |-> receives'[m]] : m \in Kept(S)}]
  /\ rdLen' = [rdLen EXCEPT ![r] = Cardinality(Kept(S))]
  /\ RdGoto(r, IF Kept(S) = {} THEN "scale" ELSE "forward")
  /\ UNCHANGED <<readers, stopped, cancelled, rdErr, receiveErrors, chVars>>

\* ReceiveMessage fails: the API, its timeout, or the cancelled context.
\* SQS may have handed out messages (lost) that the response did not bring.
ReceiveError(r, why, lost) ==
  /\ rdPc[r] = "waiting"
  /\ why = "cancelled" => cancelled
  /\ SqsReceive(lost)
  /\ rdErr' = [rdErr EXCEPT ![r] = why]
  /\ RdGoto(r, "reread")
  /\ UNCHANGED <<readers, stopped, cancelled, rdHand, rdLen, receiveErrors, chVars>>

\* The second look at "stopped": the reader ends, or it counts the failure,
\* sleeps and tries again.
Reread(r) ==
  /\ rdPc[r] = "reread"
  /\ IF stopped
     THEN ExitReader(r) /\ UNCHANGED receiveErrors
     ELSE /\ receiveErrors' = receiveErrors \cup {rdErr[r]}
          /\ RdGoto(r, "receive")
          /\ UNCHANGED readers
  /\ rdErr' = [rdErr EXCEPT ![r] = "nil"]
  /\ UNCHANGED <<stopped, cancelled, rdHand, rdLen, chVars, sqsVars>>

\* q.publishCh <- m.  SQS returns messages in any order.
ForwardReceived(r) ==
  /\ rdPc[r] = "forward"
  /\ \E d \in rdHand[r] :
       /\ SendPublish(d)
       /\ rdHand' = [rdHand EXCEPT ![r] = @ \ {d}]
       /\ RdGoto(r, IF rdHand[r] = {d} THEN "scale" ELSE "forward")
  /\ UNCHANGED <<readers, stopped, cancelled, rdLen, rdErr, receiveErrors, deleteCh, sqsVars>>

-----------------------------------------------------------------------------
\* (mutant) the limit is compared with <=.
BelowLimitReadersOrAt == readers <= LimitReaders

BelowLimitReaders == readers < LimitReaders

\* The root, after a full receive, will look at the limit.
ScaleUpReader(r) ==
  /\ rdPc[r] = "scale"
  /\ r = RootReader
  /\ RdGoto(r, IF rdLen[r] >= FullReceive THEN "limit" ELSE "receive")
  /\ UNCHANGED <<readers, stopped, cancelled, rdHand, rdLen, rdErr, receiveErrors, chVars, sqsVars>>

\* q.readers.Load() < LimitReaders
CheckLimitReaders(r) ==
  /\ rdPc[r] = "limit"
  /\ RdGoto(r, IF BelowLimitReaders THEN "spawn" ELSE "receive")
  /\ UNCHANGED <<readers, stopped, cancelled, rdHand, rdLen, rdErr, receiveErrors, chVars, sqsVars>>

\* q.readers.Add(1) and the go statement.
SpawnReader(r, q) ==
  /\ rdPc[r] = "spawn"
  /\ rdPc[q] = "none"
  /\ readers' = readers + 1
  /\ rdPc' = [rdPc EXCEPT ![r] = "receive", ![q] = "receive"]
  /\ UNCHANGED <<stopped, cancelled, rdHand, rdLen, rdErr, receiveErrors, chVars, sqsVars>>

\* A sibling ends after an empty receive and goes on otherwise.
ScaleDownReader(r) ==
  /\ rdPc[r] = "scale"
  /\ r # RootReader
  /\ IF rdLen[r] = 0
     THEN ExitReader(r)
     ELSE RdGoto(r, "receive") /\ UNCHANGED readers
  /\ UNCHANGED <<stopped, cancelled, rdHand, rdLen, rdErr, receiveErrors, chVars, sqsVars>>

-----------------------------------------------------------------------------
\* receiverReal.stop, in two steps: the flag under the lock, then cancel().
StopFlag ==
  /\ ~stopped
  /\ stopped' = TRUE
  /\ UNCHANGED <<readers, cancelled, rdPc, rdHand, rdLen, rdErr, receiveErrors, chVars, sqsVars>>

\* (mutant) stop() cancels first and sets the flag afterwards.
CancelAnytime == ~cancelled

MayCancel == stopped /\ ~cancelled

Cancel ==
  /\ MayCancel
  /\ cancelled' = TRUE
  /\ UNCHANGED <<readers, stopped, rdPc, rdHand, rdLen, rdErr, receiveErrors, chVars, sqsVars>>

\* One step of reader r, apart from the calls of SQS.
ReaderStep(r) ==
  \/ CheckStopped(r) \/ Reread(r) \/ ForwardReceived(r)
  \/ ScaleUpReader(r) \/ CheckLimitReaders(r) \/ ScaleDownReader(r)
  \/ \E q \in Readers : SpawnReader(r, q)

ReadersStep ==
  \/ StartRootReader
  \/ \E r \in Readers : ReaderStep(r)
=============================================================================

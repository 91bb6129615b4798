------------------------------ MODULE Forwarder ------------------------------
(***************************************************************************)
(* The program for one queue: readers, publishers and janitors joined by   *)
(* their channels, with SQS and SNS around them, the process that may be   *)
(* killed, stopped gracefully and started again, and calls that may fail.  *)
(***************************************************************************)
EXTENDS Reader, Publisher, Janitor

CONSTANT MaxFaults  \* bound: how often something goes wrong in a behaviour

ASSUME ForwarderAssumption == MaxFaults \in Nat

VARIABLES
  proc,    \* the process is "up" or "down"
  faults   \* how often something went wrong

memVars == <<readerVars, pubProcVars, janVars, chVars>>
vars == <<memVars, sqsVars, accepted, proc, faults>>

MemInit == RdInit /\ PubInitProc /\ JanInit /\ ChInit

Init ==
  /\ MemInit /\ SqsInit
  /\ accepted = {}
  /\ proc = "up"
  /\ faults = 0

-----------------------------------------------------------------------------
\* How often the process holds delivery d.
Holders(d) ==
  {<<"reader", r>> : r \in {x \in Readers : d \in rdHand[x]}}
    \cup {<<"publisher", a>> : a \in {x \in PublishAgents : PubInHand(x, d) > 0}}
    \cup {<<"janitor", a>> : a \in {x \in DeleteAgents : Occurrences(janBatch[x], d) > 0}}

Custody(d) ==
  Cardinality(Holders(d)) + Occurrences(publishCh, d) + Occurrences(publishPool, d)
    + Occurrences(deleteCh, d) + Occurrences(deletePool, d)

\* Something goes wrong: counted, and no more than MaxFaults times.
Fault == faults < MaxFaults /\ faults' = faults + 1
FaultIf(b) == IF b THEN Fault ELSE UNCHANGED faults

-----------------------------------------------------------------------------
\* A step of the goroutines of the process that concerns one component.
ReaderAct(A) ==
  proc = "up" /\ A /\ UNCHANGED <<pubVars, janVars, proc, faults>>
PublisherAct(A) ==
  proc = "up" /\ A /\ UNCHANGED <<readerVars, janVars, sqsVars, proc, faults>>
JanitorAct(A) ==
  proc = "up" /\ A /\ UNCHANGED <<readerVars, pubVars, proc, faults>>

\* The calls, as SQS and SNS answer them.
ReceiveMessage(r) ==
  /\ proc = "up"
  /\ \/ \E S \in Receivable(MaxNumberOfMessages) : Receive(r, S) /\ UNCHANGED faults
     \/ \E why \in {"api", "cancelled"}, lost \in Receivable(MaxNumberOfMessages) :
          ReceiveError(r, why, lost) /\ FaultIf(why = "api" \/ lost # {})
  /\ UNCHANGED <<pubVars, janVars, proc>>

PublishMessages(a) ==
  /\ proc = "up"
  /\ \E successful \in SUBSET DOMAIN pubBatch[a], errPub \in BOOLEAN :
       /\ BatchPublish(a, successful, errPub)
       /\ FaultIf(errPub \/ successful # DOMAIN pubBatch[a])
  /\ UNCHANGED <<readerVars, janVars, sqsVars, proc>>

\* An old receipt handle may do nothing and SQS does not say so.
DeleteMessages(a) ==
  /\ proc = "up"
  /\ \E applied \in SUBSET DOMAIN janBatch[a] :
       /\ BatchDelete(a, applied)
       /\ FaultIf(\E i \in DOMAIN janBatch[a] \ applied :
                    LET d == janBatch[a][i] IN d = Latest(d.id))
  /\ UNCHANGED <<readerVars, pubVars, proc>>

\* A message that is not deleted in time becomes visible again.  While the
\* process still works on it that is a disturbance, otherwise the recovery.
MessageTimeout(m) ==
  /\ VisibilityTimeout(m)
  /\ FaultIf(Custody(Latest(m)) > 0)
  /\ UNCHANGED <<memVars, accepted, proc>>

-----------------------------------------------------------------------------
\* main: a signal arrives, stopReaders stops the receiver, and exitDelay later
\* the process exits, whatever its goroutines hold.
Signal ==
  /\ proc = "up"
  /\ StopFlag
  /\ Fault
  /\ UNCHANGED <<pubVars, janVars, proc>>

CancelReceive == ReaderAct(Cancel)

\* The memory of the process is gone; the next one starts from scratch.
GoDown ==
  /\ proc = "up"
  /\ proc' = "down"
  /\ RdForget /\ PubForget /\ JanForget
  /\ publishCh' = <<>> /\ deleteCh' = <<>>
  /\ UNCHANGED <<sqsVars, accepted>>

Exit == cancelled /\ GoDown /\ UNCHANGED faults

Crash == GoDown /\ Fault

Restart ==
  /\ proc = "down"
  /\ proc' = "up"
  /\ UNCHANGED <<memVars, sqsVars, accepted, faults>>

Next ==
  \/ ReaderAct(ReadersStep) \/ PublisherAct(PublishersStep) \/ JanitorAct(JanitorsStep)
  \/ \E r \in Readers : ReceiveMessage(r)
  \/ \E a \in PublishAgents : PublishMessages(a)
  \/ \E a \in DeleteAgents : DeleteMessages(a)
  \/ \E m \in Msg : MessageTimeout(m)
  \/ Signal \/ CancelReceive \/ Exit \/ Crash \/ Restart

Spec == Init /\ [][Next]_vars

-----------------------------------------------------------------------------
\* Goroutines that can run do run and calls return; a call may fail, but not
\* more than MaxFaults times.  SQS hands out every visible message sooner or
\* later to a process that keeps asking.  Messages are finite, so
\* publishing ends and a flush interval without it passes.
HandsOut(m) ==
  \E r \in Readers, S \in Receivable(MaxNumberOfMessages) :
    /\ m \in S
    /\ proc = "up"
    /\ Receive(r, S)
    /\ UNCHANGED <<pubVars, janVars, proc, faults>>

Fairness ==
  /\ WF_vars(ReaderAct(StartRootReader))
  /\ WF_vars(PublisherAct(StartRootPublisher))
  /\ WF_vars(JanitorAct(StartRootJanitor))
  /\ \A r \in Readers : /\ WF_vars(ReaderAct(ReaderStep(r)))
                        /\ WF_vars(ReceiveMessage(r))
  /\ \A p \in Publishers : WF_vars(PublisherAct(PublisherStep(p)))
  /\ \A j \in Janitors : WF_vars(JanitorAct(JanitorStep(j)))
  /\ WF_vars(PublisherAct(PublishFlusherStep))
  /\ WF_vars(JanitorAct(DeleteFlusherStep))
  /\ \A a \in PublishAgents : WF_vars(PublishMessages(a))
  /\ \A a \in DeleteAgents : WF_vars(DeleteMessages(a))
  /\ WF_vars(PublisherAct(ElapsePublish))
  /\ WF_vars(JanitorAct(ElapseDelete))
  /\ \A m \in Msg : SF_vars(HandsOut(m)) /\ WF_vars(MessageTimeout(m))
  /\ WF_vars(CancelReceive) /\ WF_vars(Exit) /\ WF_vars(Restart)

FairSpec == Spec /\ Fairness

-----------------------------------------------------------------------------
\* Every variable has its type.
TypeOK ==
  /\ RdTypeOK /\ PubTypeOK /\ JanTypeOK /\ ChTypeOK /\ SqsTypeOK
  /\ proc \in {"up", "down"}
  /\ faults \in 0..MaxFaults

\* The program implements AtLeastOnce: through partial failures, calls that
\* fail after they took effect, visibility timeouts, crashes and exits, only
\* messages that SNS has accepted are ever deleted from SQS.
ALO == INSTANCE AtLeastOnce WITH
         Message <- Msg,
         queued <- {m \in Msg : sqs[m] # "deleted"},
         published <- {d.id : d \in accepted}

AtLeastOnceSpec == ALO!ASpec

\* As long as nothing goes wrong, each publishable message is received once, is
\* at exactly one place of the pipeline until it is deleted, and is nowhere
\* afterwards: no interleaving of the goroutines loses or duplicates it.
FaultFree ==
  faults = 0 =>
    \A m \in Msg : Fits(m) =>
      /\ receives[m] <= 1
      /\ sqs[m] = "inflight" => Custody(Latest(m)) = 1
      /\ sqs[m] = "deleted" => Latest(m) \in accepted /\ Custody(Latest(m)) = 0

\* Every publishable message is published and deleted in the end, although a
\* bounded number of calls fails and the process is stopped or killed.
AllForwarded == \A m \in Msg : Fits(m) => <>(sqs[m] = "deleted")

\* "any message already 'in flight' within the internal buffers is successfully
\* published to SNS and deleted from SQS before the process exits".
InternalBuffersEmpty ==
  /\ publishCh = <<>> /\ publishPool = <<>> /\ deleteCh = <<>> /\ deletePool = <<>>

DrainedOnExit == [][Exit => InternalBuffersEmpty]_vars
=============================================================================

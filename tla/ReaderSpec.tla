----------------------------- MODULE ReaderSpec -----------------------------
(***************************************************************************)
(* The readers of one queue between SQS and an environment that stands for *)
(* the publishers: it empties publishCh.                                   *)
(***************************************************************************)
EXTENDS Reader

VARIABLES
  brought,  \* the publishable deliveries that responses of SQS contained
  handed    \* the deliveries that publishers have taken

vars == <<readerVars, chVars, sqsVars, brought, handed>>

Init == RdInit /\ ChInit /\ SqsInit /\ brought = {} /\ handed = {}

\* A publisher takes a message.
Take ==
  /\ publishCh # <<>>
  /\ ReceivePublish(Head(publishCh))
  /\ handed' = handed \cup {Head(publishCh)}
  /\ UNCHANGED <<readerVars, sqsVars, deleteCh, brought>>

\* The call as SQS may answer it.
ReceiveCall(r) ==
  /\ \/ \E S \in Receivable(MaxNumberOfMessages) :
          /\ Receive(r, S)
          /\ brought' = brought \cup {[id |-> m, rcpt |-> receives'[m]] : m \in {n \in S : Fits(n)}}
     \/ \E why \in {"api", "cancelled"}, lost \in Receivable(MaxNumberOfMessages) :
          ReceiveError(r, why, lost) /\ UNCHANGED brought
  /\ UNCHANGED handed

Timeout ==
  /\ \E m \in Msg : VisibilityTimeout(m)
  /\ UNCHANGED <<readerVars, chVars, brought, handed>>

Next ==
  \/ (ReadersStep \/ StopFlag \/ Cancel) /\ UNCHANGED <<brought, handed>>
  \/ \E r \in Readers : ReceiveCall(r)
  \/ Take
  \/ Timeout

Spec == Init /\ [][Next]_vars

\* Goroutines that can run do run, a call returns (awsAPITimeout bounds it),
\* stop() runs to its end once called, publishers take what is sent.
Fairness ==
  /\ WF_vars(StartRootReader /\ UNCHANGED <<brought, handed>>)
  /\ \A r \in Readers : /\ WF_vars(ReaderStep(r) /\ UNCHANGED <<brought, handed>>)
                        /\ WF_vars(ReceiveCall(r))
  /\ WF_vars(Cancel /\ UNCHANGED <<brought, handed>>)
  /\ WF_vars(Take)

FairSpec == Spec /\ Fairness

-----------------------------------------------------------------------------
\* Every variable has its type.
TypeOK ==
  /\ RdTypeOK /\ ChTypeOK /\ SqsTypeOK
  /\ brought \subseteq Delivery /\ handed \subseteq Delivery

LiveReaders == {r \in Readers : rdPc[r] \notin {"none", "start"}}

\* Only the root spawns, so check and increment of startReader need no lock:
\* the counter is the number of readers and never exceeds LimitReaders.
ReaderLimit ==
  /\ readers = Cardinality(LiveReaders)
  /\ readers <= LimitReaders

\* receiveErrors counts failures of the API only: an interrupted receive finds
\* "stopped" set, because stop() sets it before it cancels.
CancellationNotCounted == "cancelled" \notin receiveErrors

\* Every publishable message that a response brought reaches a publisher, even
\* when the receiver was stopped during the call: it is in the hands of a
\* reader or in publishCh until a publisher takes it.
ReceivedForwarded ==
  brought \subseteq handed
            \cup {publishCh[i] : i \in DOMAIN publishCh}
            \cup UNION {rdHand[r] : r \in Readers}

\* stop() ends every reader: it wakes those in a long poll, and those that
\* hold messages send them first.
StopEndsReaders == stopped ~> [](LiveReaders = {})
=============================================================================

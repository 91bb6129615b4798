------------------------------- MODULE Queue -------------------------------
(***************************************************************************)
(* The queue struct: the two buffered Go channels that join the goroutines *)
(* of one queue.  Readers send to publishCh, publishers receive from it    *)
(* and send to deleteCh, janitors receive from that one.  The other fields *)
(* of the struct are variables of the component that uses them.            *)
(***************************************************************************)
EXTENDS Pool

CONSTANTS
  BufferSizePublish,  \* cap(publishCh)
  BufferSizeDelete    \* cap(deleteCh)

\* queueDefaults replaces a size below one.
ASSUME QueueAssumption ==
  /\ BufferSizePublish \in Nat \ {0}
  /\ BufferSizeDelete \in Nat \ {0}

VARIABLES publishCh, deleteCh

chVars == <<publishCh, deleteCh>>

ChTypeOK ==
  /\ publishCh \in Seq(Delivery) /\ Len(publishCh) <= BufferSizePublish
  /\ deleteCh \in Seq(Delivery) /\ Len(deleteCh) <= BufferSizeDelete

ChInit == publishCh = <<>> /\ deleteCh = <<>>

-----------------------------------------------------------------------------
\* (mutants) the buffer takes one message more than its capacity.
SendPublishOverrun(d) == /\ Len(publishCh) <= BufferSizePublish
                         /\ publishCh' = Append(publishCh, d)
SendDeleteOverrun(d) == /\ Len(deleteCh) <= BufferSizeDelete
                        /\ deleteCh' = Append(deleteCh, d)

\* A send blocks while the channel is full, a receive while it is empty.
SendPublish(d) == /\ Len(publishCh) < BufferSizePublish
                  /\ publishCh' = Append(publishCh, d)

SendDelete(d) == /\ Len(deleteCh) < BufferSizeDelete
                 /\ deleteCh' = Append(deleteCh, d)

ReceivePublish(d) == /\ publishCh # <<>>
                     /\ d = Head(publishCh)
                     /\ publishCh' = Tail(publishCh)
ReceiveDelete(d) == /\ deleteCh # <<>>
                    /\ d = Head(deleteCh)
                    /\ deleteCh' = Tail(deleteCh)

\* channelLoad against a watermark given as a percentage.
LoadAbove(ch, size, watermark) == 100 * Len(ch) > watermark * size
LoadBelow(ch, size, watermark) == 100 * Len(ch) < watermark * size

\* How often a delivery occurs in a sequence.
Occurrences(s, d) == Cardinality({i \in DOMAIN s : s[i] = d})
=============================================================================

-------------------------------- MODULE Pool --------------------------------
(***************************************************************************)
(* What a message is to this program, and the two accumulators that batch  *)
(* messages: poolV2 (publishing, limited by items and by payload bytes)    *)
(* and poolV1 (deleting, limited by items only).  Every method of a pool   *)
(* runs under the pool's mutex, so a method is an operator on the buffer.  *)
(***************************************************************************)
EXTENDS Integers, Sequences, FiniteSets

CONSTANTS
  Msg,                   \* the messages SQS holds, by MessageId
  Size,                  \* snsPayloadSize of each message, in units of payload
  PerMessagePadding,     \* PER_MESSAGE_PADDING
  MaxSnsPublishPayload,  \* maxSnsPublishPayload, 262144 in the code
  MaxBatchItems          \* maxBatchItems, 10 in the code

ASSUME PoolAssumption ==
  /\ Size \in [Msg -> Nat]
  /\ PerMessagePadding \in Nat
  /\ MaxSnsPublishPayload \in Nat \ {0}
  /\ MaxBatchItems \in Nat \ {0}

-----------------------------------------------------------------------------
\* SQS may hand out a message more than once, each time under a new receipt
\* handle: what the program holds is a delivery.
Delivery == [id : Msg, rcpt : Nat]

Weight(d) == Size[d.id] + PerMessagePadding

\* (mutant) the message id alone.
UnindexedEntryID(batch, i) == <<batch[i].id>>

\* getBatchEntryID: the message and its index, as a batch may hold two
\* deliveries of one message.  AWS refuses a batch with equal ids.
BatchEntryID(batch, i) == <<batch[i].id, i>>

DistinctIDs(batch) ==
  \A i, j \in DOMAIN batch : BatchEntryID(batch, i) = BatchEntryID(batch, j) => i = j

\* (mutant) the filter forgets the padding that the pool will add.
FitsUnpadded(m) == Size[m] <= MaxSnsPublishPayload

\* newMessage: a message that could not be published alone is refused.
Fits(m) == Size[m] + PerMessagePadding <= MaxSnsPublishPayload

-----------------------------------------------------------------------------
\* The k-th smallest element of I, and the elements of s at the indices I, in
\* the order of s.
Nth(I, k) == CHOOSE i \in I : Cardinality({j \in I : j <= i}) = k
Pick(s, I) == [k \in 1..Cardinality(I) |-> s[Nth(I, k)]]

\* poolV2.findIndices, state of the scan: the indices taken and the payload
\* they add up to.  Once the sum is at the limit the code stops scanning.
Room(taken) == /\ Cardinality(taken.indices) < MaxBatchItems
               /\ taken.payloadSum < MaxSnsPublishPayload

RoomFor(taken, d) ==
  Room(taken) /\ taken.payloadSum + Weight(d) <= MaxSnsPublishPayload

Consider(taken, buf, i) ==
  IF RoomFor(taken, buf[i])
  THEN [indices |-> taken.indices \cup {i},
        payloadSum |-> taken.payloadSum + Weight(buf[i])]
  ELSE taken

\* The scan after each prefix of the buffer.
Scan(buf) ==
  LET scan[i \in 0..Len(buf)] ==
        IF i = 0 THEN [indices |-> {}, payloadSum |-> 0]
                 ELSE Consider(scan[i - 1], buf, i)
  IN scan

FindIndices(buf) == Scan(buf)[Len(buf)]

\* (mutant) the density rule is forgotten: elements that do not fit wait.
FullBatchWithoutDensity(buf) ==
  LET found == FindIndices(buf)
  IN /\ found.indices # {}
     /\ \/ Cardinality(found.indices) >= MaxBatchItems
        \/ found.payloadSum = MaxSnsPublishPayload

\* poolV2.getFullBatch: full by count, by exact weight, or by density (what is
\* left over does not fit next to what was taken).
FullBatchFound(buf) ==
  LET found == FindIndices(buf)
  IN /\ found.indices # {}
     /\ \/ Cardinality(found.indices) >= MaxBatchItems
        \/ found.payloadSum = MaxSnsPublishPayload
        \/ Cardinality(found.indices) < Len(buf)

\* (mutant) the caller does not look at what getAvailable gave it.
AvailableUnchecked(buf) == TRUE

\* poolV2.getAvailable gives at least one message.
Available(buf) == FindIndices(buf).indices # {}

\* What findIndices selects, handed to the caller; extractUnsafe keeps the
\* others in their order.
Batch(buf) == Pick(buf, FindIndices(buf).indices)

\* (mutant) the buffer is shifted as poolV1 does it, as if the batch had been
\* its first elements.
SurvivorsShifted(buf) ==
  SubSeq(buf, Cardinality(FindIndices(buf).indices) + 1, Len(buf))

Survivors(buf) == Pick(buf, DOMAIN buf \ FindIndices(buf).indices)

-----------------------------------------------------------------------------
\* (mutant) off by one: ten messages are not a full batch yet.
FullBatchFoundV1Late(buf) == Len(buf) > MaxBatchItems

\* poolV1.getFullBatch, and poolV1.shiftUnsafe which splits the buffer.
FullBatchFoundV1(buf) == Len(buf) >= MaxBatchItems
AvailableV1(buf) == IF Len(buf) < MaxBatchItems THEN Len(buf) ELSE MaxBatchItems
BatchV1(buf) == SubSeq(buf, 1, AvailableV1(buf))

\* (mutant) the copy starts one element early: the last one of the batch stays.
SurvivorsV1Early(buf) == SubSeq(buf, AvailableV1(buf), Len(buf))

\* (mutant) the copy starts one element late.
SurvivorsV1Late(buf) == SubSeq(buf, AvailableV1(buf) + 2, Len(buf))

SurvivorsV1(buf) == SubSeq(buf, AvailableV1(buf) + 1, Len(buf))
=============================================================================

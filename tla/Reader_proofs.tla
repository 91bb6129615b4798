----------------------------- MODULE Reader_proofs -----------------------------
(***************************************************************************)
(* What holds of the readers for every number of them, every buffer size   *)
(* and every set of messages, whenever stop() is called.                   *)
(***************************************************************************)
EXTENDS ReaderSpec, Pipeline_proofs

-----------------------------------------------------------------------------
(* TypeOK, and a reader that does not forward has empty hands.             *)
TypeInv == TypeOK /\ RdHands

LEMMA InitTypeInv == Init => TypeInv
<1> SUFFICES ASSUME Init PROVE TypeInv
  OBVIOUS
<1>1. SqsTypeOK
  BY DEF Init, SqsInit, SqsTypeOK
<1>2. RdTypeInv
  BY <1>1, RdInitTypes DEF Init
<1> QED BY <1>2 DEF Init, RdTypeInv, TypeInv, TypeOK

LEMMA NextTypeInv == TypeInv /\ [Next]_vars => TypeInv'
<1> SUFFICES ASSUME TypeInv, [Next]_vars PROVE TypeInv'
  OBVIOUS
<1>a. RdTypeInv /\ brought \subseteq Delivery /\ handed \subseteq Delivery
  BY DEF TypeInv, TypeOK, RdTypeInv
<1>b. ASSUME RdTypeInv', brought' \subseteq Delivery, handed' \subseteq Delivery
      PROVE  TypeInv'
  BY <1>b DEF TypeInv, TypeOK, RdTypeInv
<1>1. CASE (ReadersStep \/ StopFlag \/ Cancel) /\ UNCHANGED <<brought, handed>>
  BY <1>1, <1>a, <1>b, RdStepTypes, StopTypes
<1>2. ASSUME NEW r \in Readers, ReceiveCall(r) PROVE TypeInv'
  <2>1. ASSUME NEW S \in Receivable(MaxNumberOfMessages), Receive(r, S),
               brought' = brought \cup {[id |-> m, rcpt |-> receives'[m]] :
                                          m \in {n \in S : Fits(n)}},
               UNCHANGED handed
        PROVE  TypeInv'
    <3>1. RdTypeInv'
      BY <2>1, <1>a, ReceiveTypes
    <3>2. {[id |-> m, rcpt |-> receives'[m]] : m \in Kept(S)} \subseteq Delivery
      BY <2>1, <1>a, ResponseType DEF Receive, RdTypeInv
    <3> QED BY <2>1, <3>1, <3>2, <1>a, <1>b DEF Kept
  <2>2. ASSUME NEW why \in {"api", "cancelled"},
               NEW lost \in Receivable(MaxNumberOfMessages),
               ReceiveError(r, why, lost), UNCHANGED <<brought, handed>>
        PROVE  TypeInv'
    BY <2>2, <1>a, <1>b, ReceiveErrorTypes
  <2> QED BY <1>2, <2>1, <2>2 DEF ReceiveCall
<1>3. CASE Take
  <2>1. publishCh # <<>> /\ publishCh' = Tail(publishCh) /\ deleteCh' = deleteCh
    BY <1>3 DEF Take, ReceivePublish
  <2>2. /\ Head(publishCh) \in Delivery /\ Tail(publishCh) \in Seq(Delivery)
        /\ Len(Tail(publishCh)) = Len(publishCh) - 1 /\ Len(publishCh) \in Nat
    BY <1>a, <2>1, ReceiveType DEF RdTypeInv, ChTypeOK
  <2>3. ChTypeOK'
    BY <1>a, <2>1, <2>2, QueueAssumption DEF RdTypeInv, ChTypeOK
  <2>4. handed' \subseteq Delivery /\ UNCHANGED <<readerVars, sqsVars, brought>>
    BY <1>3, <1>a, <2>2 DEF Take
  <2>5. RdTypeInv'
    BY <1>a, <2>3, <2>4 DEF RdTypeInv, RdTypeOK, RdHands, SqsTypeOK, readerVars, sqsVars
  <2> QED BY <1>a, <1>b, <2>4, <2>5
<1>4. CASE Timeout
  <2>1. PICK m \in Msg : VisibilityTimeout(m)
    BY <1>4 DEF Timeout
  <2>2. SqsTypeOK'
    BY <1>a, <2>1 DEF VisibilityTimeout, RdTypeInv, SqsTypeOK
  <2>3. RdTypeInv'
    BY <1>a, <1>4, <2>2 DEF Timeout, RdTypeInv, RdTypeOK, RdHands, ChTypeOK, readerVars, chVars
  <2> QED BY <1>a, <1>b, <1>4, <2>3 DEF Timeout
<1>5. CASE UNCHANGED vars
  BY <1>5, <1>a, <1>b DEF vars, RdTypeInv, RdTypeOK, RdHands, ChTypeOK, SqsTypeOK,
                          readerVars, chVars, sqsVars
<1> QED BY <1>1, <1>2, <1>3, <1>4, <1>5 DEF Next

(* The receiver, the readers and publishCh keep their types: in particular *)
(* a receive never brings more than MaxNumberOfMessages.                   *)
THEOREM TypeCorrect == Spec => []TypeOK
<1>1. TypeInv => TypeOK
  BY DEF TypeInv
<1> QED BY <1>1, InitTypeInv, NextTypeInv, PTL DEF Spec

-----------------------------------------------------------------------------
(* Why a cancelled receive is never counted: between the cancelled call    *)
(* and the second look at "stopped" the flag can only have been set, as    *)
(* stop() sets it before it cancels.                                       *)
CancelInv ==
  /\ CancellationNotCounted
  /\ cancelled => stopped
  /\ \A r \in Readers : rdErr[r] = "cancelled" => cancelled

LEMMA NextCancelInv == TypeInv /\ CancelInv /\ [Next]_vars => CancelInv'
<1> SUFFICES ASSUME TypeInv, CancelInv, [Next]_vars PROVE CancelInv'
  OBVIOUS
<1> USE DEF CancelInv, CancellationNotCounted
<1>a. rdErr \in [Readers -> Errors]
  BY DEF TypeInv, TypeOK, RdTypeOK
<1>1. CASE UNCHANGED <<stopped, cancelled, rdErr, receiveErrors>>
  BY <1>1
<1>2. ASSUME NEW r \in Readers, ReaderStep(r) PROVE CancelInv'
  <2>1. CASE CheckStopped(r)
    BY <2>1, <1>1 DEF CheckStopped
  <2>2. CASE Reread(r)
    <3>1. /\ UNCHANGED <<stopped, cancelled>>
          /\ rdErr' = [rdErr EXCEPT ![r] = "nil"]
          /\ \/ receiveErrors' = receiveErrors
             \/ ~stopped /\ receiveErrors' = receiveErrors \cup {rdErr[r]}
      BY <2>2 DEF Reread
    <3>2. ~stopped => rdErr[r] # "cancelled"
      OBVIOUS
    <3> QED BY <3>1, <3>2, <1>a
  <2>3. CASE ForwardReceived(r)
    BY <2>3, <1>1 DEF ForwardReceived
  <2>4. CASE ScaleUpReader(r) \/ CheckLimitReaders(r) \/ ScaleDownReader(r)
    BY <2>4, <1>1 DEF ScaleUpReader, CheckLimitReaders, ScaleDownReader
  <2>5. CASE \E q \in Readers : SpawnReader(r, q)
    BY <2>5, <1>1 DEF SpawnReader
  <2> QED BY <1>2, <2>1, <2>2, <2>3, <2>4, <2>5 DEF ReaderStep
<1>3. ASSUME NEW r \in Readers, ReceiveCall(r) PROVE CancelInv'
  <2>1. CASE \E S : Receive(r, S)
    BY <2>1, <1>1 DEF Receive
  <2>2. ASSUME NEW why, NEW lost, ReceiveError(r, why, lost) PROVE CancelInv'
    <3>1. /\ why = "cancelled" => cancelled
          /\ rdErr' = [rdErr EXCEPT ![r] = why]
          /\ UNCHANGED <<stopped, cancelled, receiveErrors>>
      BY <2>2 DEF ReceiveError
    <3> QED BY <3>1, <1>a
  <2> QED BY <1>3, <2>1, <2>2 DEF ReceiveCall
<1>4. CASE StopFlag \/ Cancel
  BY <1>4 DEF StopFlag, Cancel, MayCancel
<1>5. CASE StartRootReader \/ Take \/ Timeout \/ UNCHANGED vars
  BY <1>1, <1>5 DEF StartRootReader, Take, Timeout, vars, readerVars
<1> QED BY <1>2, <1>3, <1>4, <1>5 DEF Next, ReadersStep

(* A receive that stop() interrupts is not counted as a failure of the API, *)
(* however the readers and stop() interleave.                              *)
THEOREM CancellationSilent == Spec => []CancellationNotCounted
<1>1. Init => CancelInv
  BY DEF Init, RdInit, CancelInv, CancellationNotCounted
<1>2. CancelInv => CancellationNotCounted
  BY DEF CancelInv
<1> QED BY <1>1, <1>2, InitTypeInv, NextTypeInv, NextCancelInv, PTL DEF Spec

-----------------------------------------------------------------------------
(* A reader gives up none of its messages: when it comes to receive again  *)
(* or ends, its hands are empty, so nothing is overwritten.                *)
LEMMA NextReceivedForwarded == TypeInv /\ ReceivedForwarded /\ [Next]_vars => ReceivedForwarded'
<1> SUFFICES ASSUME TypeInv, ReceivedForwarded, [Next]_vars PROVE ReceivedForwarded'
  OBVIOUS
<1> USE DEF ReceivedForwarded, RdGoto
<1>a. /\ rdPc \in [Readers -> ReaderPcs] /\ rdHand \in [Readers -> SUBSET Delivery]
      /\ publishCh \in Seq(Delivery) /\ RootReader \in Readers
      /\ \A r \in Readers : rdHand[r] # {} => rdPc[r] = "forward"
  BY ReaderAssumption DEF TypeInv, TypeOK, RdTypeOK, ChTypeOK, RdHands
<1>1. CASE UNCHANGED <<brought, handed, publishCh, rdHand, rdPc>>
  BY <1>1
(* A reader with empty hands goes anywhere.                                *)
<1>2. ASSUME NEW r \in Readers, rdPc[r] # "forward", NEW l, RdGoto(r, l),
             UNCHANGED <<brought, handed, publishCh, rdHand>>
      PROVE  ReceivedForwarded'
  BY <1>2, <1>a
<1>3. ASSUME NEW r \in Readers, ForwardReceived(r), UNCHANGED <<brought, handed>>
      PROVE  ReceivedForwarded'
  <2> PICK d \in rdHand[r] : /\ SendPublish(d)
                             /\ rdHand' = [rdHand EXCEPT ![r] = @ \ {d}]
                             /\ RdGoto(r, IF rdHand[r] = {d} THEN "scale" ELSE "forward")
    BY <1>3 DEF ForwardReceived
  <2>1. publishCh' = Append(publishCh, d) /\ d \in Delivery
    BY <1>a DEF SendPublish
  <2>2. \A i \in DOMAIN publishCh : i \in DOMAIN publishCh' /\ publishCh'[i] = publishCh[i]
    BY <2>1, <1>a
  <2>3. Len(publishCh) + 1 \in DOMAIN publishCh' /\ publishCh'[Len(publishCh) + 1] = d
    BY <2>1, <1>a
  <2>4. \A e \in UNION {rdHand[q] : q \in Readers} :
          e = d \/ e \in UNION {rdHand'[q] : q \in Readers}
    BY <1>a
  <2> QED BY <1>3, <2>2, <2>3, <2>4
<1>4. ASSUME NEW r \in Readers, ReaderStep(r), UNCHANGED <<brought, handed>>
      PROVE  ReceivedForwarded'
  <2>1. CASE CheckStopped(r)
    BY <1>4, <2>1, <1>2 DEF CheckStopped, ExitReader, chVars
  <2>2. CASE Reread(r)
    BY <1>4, <2>2, <1>2 DEF Reread, ExitReader, chVars
  <2>3. CASE ScaleUpReader(r)
    BY <1>4, <2>3, <1>2 DEF ScaleUpReader, chVars
  <2>4. CASE CheckLimitReaders(r)
    BY <1>4, <2>4, <1>2 DEF CheckLimitReaders, chVars
  <2>5. CASE ScaleDownReader(r)
    BY <1>4, <2>5, <1>2 DEF ScaleDownReader, ExitReader, chVars
  <2>6. ASSUME NEW q \in Readers, SpawnReader(r, q) PROVE ReceivedForwarded'
    BY <1>4, <2>6, <1>a DEF SpawnReader, chVars
  <2> QED BY <1>4, <1>3, <2>1, <2>2, <2>3, <2>4, <2>5, <2>6 DEF ReaderStep
<1>5. ASSUME NEW r \in Readers, ReceiveCall(r) PROVE ReceivedForwarded'
  <2>1. ASSUME NEW S, Receive(r, S), UNCHANGED handed,
               brought' = brought \cup {[id |-> m, rcpt |-> receives'[m]] :
                                          m \in {n \in S : Fits(n)}}
        PROVE  ReceivedForwarded'
    <3> DEFINE D == {[id |-> m, rcpt |-> receives'[m]] : m \in Kept(S)}
    <3>1. /\ rdPc[r] = "waiting" /\ publishCh' = publishCh
          /\ rdHand' = [rdHand EXCEPT ![r] = D]
          /\ brought' = brought \cup D
      BY <2>1 DEF Receive, chVars, Kept
    <3> HIDE DEF D
    <3>2. rdHand[r] = {}
      BY <3>1, <1>a
    <3>3. /\ D \subseteq UNION {rdHand'[q] : q \in Readers}
          /\ UNION {rdHand[q] : q \in Readers} \subseteq UNION {rdHand'[q] : q \in Readers}
      BY <3>1, <3>2, <1>a
    <3> QED BY <2>1, <3>1, <3>3
  <2>2. ASSUME NEW why, NEW lost, ReceiveError(r, why, lost), UNCHANGED <<brought, handed>>
        PROVE  ReceivedForwarded'
    BY <2>2, <1>2 DEF ReceiveError, chVars
  <2> QED BY <1>5, <2>1, <2>2 DEF ReceiveCall
<1>6. CASE Take
  <2>1. /\ publishCh # <<>> /\ publishCh' = Tail(publishCh)
        /\ handed' = handed \cup {Head(publishCh)}
        /\ UNCHANGED <<brought, rdHand, rdPc>>
    BY <1>6 DEF Take, ReceivePublish, readerVars
  <2>2. \A i \in DOMAIN publishCh :
          \/ publishCh[i] = Head(publishCh)
          \/ i - 1 \in DOMAIN Tail(publishCh) /\ publishCh[i] = Tail(publishCh)[i - 1]
    BY <2>1, <1>a
  <2>3. \A i \in DOMAIN publishCh :
          publishCh[i] \in handed' \cup {publishCh'[k] : k \in DOMAIN publishCh'}
    <3>1. \A k \in DOMAIN Tail(publishCh) :
            Tail(publishCh)[k] \in {publishCh'[j] : j \in DOMAIN publishCh'}
      BY <2>1
    <3>2. Head(publishCh) \in handed'
      BY <2>1
    <3> QED BY <2>2, <3>1, <3>2
  <2> QED BY <2>1, <2>3
<1>7. CASE StartRootReader /\ UNCHANGED <<brought, handed>>
  BY <1>7, <1>2, <1>a DEF StartRootReader, chVars
<1>8. CASE (StopFlag \/ Cancel) /\ UNCHANGED <<brought, handed>>
  BY <1>8, <1>1 DEF StopFlag, Cancel, chVars
<1>9. CASE Timeout \/ UNCHANGED vars
  BY <1>9, <1>1 DEF Timeout, vars, readerVars, chVars
<1> QED BY <1>4, <1>5, <1>6, <1>7, <1>8, <1>9 DEF Next, ReadersStep

(* What a response brought is forwarded, also when the receiver is stopped *)
(* while the call is under way or while messages wait for room.            *)
THEOREM AllForwardedReceived == Spec => []ReceivedForwarded
<1>1. Init => ReceivedForwarded
  BY DEF Init, RdInit, ReceivedForwarded
<1> QED BY <1>1, InitTypeInv, NextTypeInv, NextReceivedForwarded, PTL DEF Spec

-----------------------------------------------------------------------------
(* Why check and increment need no lock: only the root is ever between the *)
(* two, and until it increments nobody else makes the counter grow.        *)
LimitInv ==
  /\ ReaderLimit
  /\ \A r \in Readers : rdPc[r] \in {"limit", "spawn"} => r = RootReader
  /\ rdPc[RootReader] = "spawn" => readers < LimitReaders
  /\ rdPc[RootReader] = "start" => LiveReaders = {}

LEMMA NextLimitInv == TypeInv /\ LimitInv /\ [Next]_vars => LimitInv'
<1> SUFFICES ASSUME TypeInv, LimitInv, [Next]_vars PROVE LimitInv'
  OBVIOUS
<1> USE DEF LimitInv, ReaderLimit, RdGoto
<1>a. RootReader \in Readers /\ LimitReaders \in Nat /\ LimitReaders >= 1
  BY ReaderAssumption
<1>b. LiveReaders \in SUBSET Readers
  BY DEF LiveReaders
<1>c. /\ rdPc \in [Readers -> ReaderPcs]
      /\ readers \in Nat /\ IsFiniteSet(LiveReaders)
  BY <1>b, ReaderAssumption, FS_Subset, FS_CardinalityType DEF TypeInv, TypeOK, RdTypeOK
<1>1. CASE UNCHANGED <<rdPc, readers>>
  BY <1>1 DEF LiveReaders
(* A reader that stays alive and does not come to decide on a spawn.       *)
<1>2. ASSUME NEW r \in Readers, NEW l, l \notin {"none", "start", "limit", "spawn"},
             rdPc[r] \notin {"none", "start"},
             RdGoto(r, l), UNCHANGED readers
      PROVE  LimitInv'
  <2>1. LiveReaders' = LiveReaders
    BY <1>2, <1>a, <1>c DEF LiveReaders
  <2> QED BY <2>1, <1>2, <1>a, <1>c
(* A reader ends: the root only when it was not about to spawn.            *)
<1>3. ASSUME NEW r \in Readers, rdPc[r] \notin {"none", "start", "limit", "spawn"},
             ExitReader(r)
      PROVE  LimitInv'
  <2>0. rdPc' = [rdPc EXCEPT ![r] = "none"] /\ readers' = readers - 1
    BY <1>3 DEF ExitReader
  <2>1. r \in LiveReaders /\ LiveReaders' = LiveReaders \ {r}
    BY <1>3, <2>0, <1>a, <1>c DEF LiveReaders
  <2>2. Cardinality(LiveReaders') = Cardinality(LiveReaders) - 1
    BY <2>1, <1>c, FS_RemoveElement
  <2>3. readers' <= LimitReaders /\ readers' < readers
    BY <2>0, <1>a, <1>c
  <2>4. rdPc'[RootReader] = "spawn" => rdPc[RootReader] = "spawn"
    BY <2>0, <1>a, <1>c
  <2>5. rdPc'[RootReader] = "spawn" => readers' < LimitReaders
    BY <2>3, <2>4, <1>a, <1>c, <2>0
  <2>6. \A q \in Readers : rdPc'[q] \in {"limit", "spawn"} => q = RootReader
    BY <2>0, <1>c
  <2>7. rdPc'[RootReader] # "start"
    BY <2>0, <2>1, <1>a, <1>c
  <2> QED BY <2>0, <2>2, <2>3, <2>5, <2>6, <2>7
<1>4. ASSUME NEW r \in Readers, CheckLimitReaders(r) PROVE LimitInv'
  <2>1. r = RootReader /\ rdPc[r] = "limit" /\ UNCHANGED readers
    BY <1>4 DEF CheckLimitReaders
  <2>2. LiveReaders' = LiveReaders
    BY <1>4, <1>a, <1>c DEF CheckLimitReaders, LiveReaders
  <2>3. CASE readers < LimitReaders
    BY <2>1, <2>2, <2>3, <1>4, <1>a, <1>c DEF CheckLimitReaders, BelowLimitReaders
  <2>4. CASE ~(readers < LimitReaders)
    BY <2>1, <2>2, <2>4, <1>4, <1>a, <1>c DEF CheckLimitReaders, BelowLimitReaders
  <2> QED BY <2>3, <2>4
<1>5. ASSUME NEW r \in Readers, NEW q \in Readers, SpawnReader(r, q) PROVE LimitInv'
  <2>1. /\ r = RootReader /\ r # q /\ rdPc[q] = "none" /\ rdPc[r] = "spawn"
        /\ readers < LimitReaders /\ readers' = readers + 1
        /\ rdPc' = [rdPc EXCEPT ![r] = "receive", ![q] = "receive"]
    BY <1>5 DEF SpawnReader
  <2>2. q \notin LiveReaders /\ LiveReaders' = LiveReaders \cup {q}
    BY <2>1, <1>a, <1>c DEF LiveReaders
  <2>3. Cardinality(LiveReaders') = Cardinality(LiveReaders) + 1
    BY <2>2, <1>c, FS_AddElement
  <2>4. readers' <= LimitReaders
    BY <2>1, <1>a, <1>c
  <2> QED BY <2>1, <2>3, <2>4, <1>a, <1>c
<1>6. ASSUME NEW r \in Readers, ReaderStep(r) PROVE LimitInv'
  <2>1. CASE CheckStopped(r)
    BY <2>1, <1>2, <1>3 DEF CheckStopped
  <2>2. CASE Reread(r)
    BY <2>2, <1>2, <1>3 DEF Reread
  <2>3. CASE ForwardReceived(r)
    <3>1. /\ rdPc[r] = "forward" /\ UNCHANGED readers
          /\ RdGoto(r, "scale") \/ RdGoto(r, "forward")
      BY <2>3 DEF ForwardReceived
    <3> QED BY <3>1, <1>2
  <2>4. CASE ScaleUpReader(r)
    <3>1. r = RootReader /\ rdPc[r] = "scale" /\ UNCHANGED readers
      BY <2>4 DEF ScaleUpReader
    <3>2. RdGoto(r, "limit") \/ RdGoto(r, "receive")
      BY <2>4 DEF ScaleUpReader
    <3>3. LiveReaders' = LiveReaders
      BY <3>1, <3>2, <1>a, <1>c DEF LiveReaders
    <3> QED BY <3>1, <3>2, <3>3, <1>a, <1>c
  <2>5. CASE ScaleDownReader(r)
    BY <2>5, <1>2, <1>3 DEF ScaleDownReader
  <2> QED BY <1>6, <1>4, <1>5, <2>1, <2>2, <2>3, <2>4, <2>5 DEF ReaderStep
<1>7. ASSUME NEW r \in Readers, ReceiveCall(r) PROVE LimitInv'
  <2>1. /\ rdPc[r] = "waiting" /\ UNCHANGED readers
        /\ RdGoto(r, "scale") \/ RdGoto(r, "forward") \/ RdGoto(r, "reread")
    BY <1>7 DEF ReceiveCall, Receive, ReceiveError
  <2> QED BY <2>1, <1>2
<1>8. CASE StartRootReader
  <2>1. /\ rdPc[RootReader] = "start" /\ readers' = readers + 1
        /\ rdPc' = [rdPc EXCEPT ![RootReader] = "receive"]
    BY <1>8 DEF StartRootReader
  <2>2. LiveReaders = {} /\ readers = 0
    BY <2>1, FS_EmptySet
  <2>3. LiveReaders' = {RootReader}
    BY <2>1, <2>2, <1>a, <1>c DEF LiveReaders
  <2>4. Cardinality(LiveReaders') = 1
    BY <2>3, FS_Singleton
  <2> QED BY <2>1, <2>2, <2>4, <1>a, <1>c
<1>9. CASE StopFlag \/ Cancel \/ Take \/ Timeout \/ UNCHANGED vars
  BY <1>1, <1>9 DEF StopFlag, Cancel, Take, Timeout, vars, readerVars
<1> QED BY <1>6, <1>7, <1>8, <1>9 DEF Next, ReadersStep

(* The counter is the number of readers, and never above the limit, also   *)
(* while stop() makes readers end.                                         *)
THEOREM ReadersLimited == Spec => []ReaderLimit
<1>1. Init => LimitInv
  <2> SUFFICES ASSUME Init PROVE LimitInv
    OBVIOUS
  <2>1. readers = 0 /\ rdPc = RdPcInit
    BY DEF Init, RdInit
  <2>2. LiveReaders = {}
    BY <2>1 DEF RdPcInit, LiveReaders
  <2>3. \A r \in Readers : rdPc[r] \notin {"limit", "spawn"}
    BY <2>1 DEF RdPcInit
  <2> QED BY <2>1, <2>2, <2>3, FS_EmptySet, ReaderAssumption
          DEF LimitInv, ReaderLimit
<1>2. LimitInv => ReaderLimit
  BY DEF LimitInv
<1> QED BY <1>1, <1>2, InitTypeInv, NextTypeInv, NextLimitInv, PTL DEF Spec
=============================================================================

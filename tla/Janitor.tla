------------------------------- MODULE Janitor -------------------------------
(***************************************************************************)
(* startJanitor and batchDelete for one queue: the root janitor, its       *)
(* siblings and the periodic flusher.  The structure is that of Publisher; *)
(* the pool is a poolV1 and what was deleted is only counted, never passed *)
(* on, so a batch leaves the process whether or not SQS deleted it.        *)
(***************************************************************************)
EXTENDS Queue, Sqs

CONSTANTS
  Janitors,             \* slots for janitor goroutines
  RootJanitor,          \* the one that run() starts
  DeleteFlusher,        \* the flusher goroutine
  LimitDeleters,        \* queueCfg.LimitDeleters
  WatermarkLowDelete,   \* percentages of cap(deleteCh)
  WatermarkHighDelete

ASSUME JanitorAssumption ==
  /\ IsFiniteSet(Janitors)
  /\ RootJanitor \in Janitors
  /\ DeleteFlusher \notin Janitors
  /\ LimitDeleters \in Nat \ {0}
  /\ WatermarkLowDelete \in Nat
  /\ WatermarkHighDelete \in Nat

VARIABLES
  deletePool,    \* poolV1.buf
  janitors,      \* the atomic counter of janitor goroutines
  deleteRecent,  \* lastDeleteUnix is less than a flush interval ago
  janPc,         \* where each goroutine is
  janBatch       \* the messages in its hands

janVars == <<deletePool, janitors, deleteRecent, janPc, janBatch>>

DeleteAgents == Janitors \cup {DeleteFlusher}

JanitorPcs == {"start", "none", "range", "add", "getFullBatch", "delete",
               "load", "limit", "spawn"}
DeleteFlusherPcs == {"none", "ticker", "getAvailable", "delete"}

JanPcInit == [a \in DeleteAgents |-> IF a = RootJanitor THEN "start" ELSE "none"]

JanInit ==
  /\ deletePool = <<>>
  /\ janitors = 0
  /\ deleteRecent = FALSE
  /\ janPc = JanPcInit
  /\ janBatch = [a \in DeleteAgents |-> <<>>]

\* The end of the process.
JanForget ==
  /\ deletePool' = <<>>
  /\ janitors' = 0
  /\ deleteRecent' = FALSE
  /\ janPc' = JanPcInit
  /\ janBatch' = [a \in DeleteAgents |-> <<>>]

JanTypeOK ==
  /\ deletePool \in Seq(Delivery)
  /\ janitors \in Int
  /\ deleteRecent \in BOOLEAN
  /\ janPc \in [DeleteAgents -> JanitorPcs \cup DeleteFlusherPcs]
  /\ janPc[DeleteFlusher] \in DeleteFlusherPcs
  /\ \A j \in Janitors : janPc[j] \in JanitorPcs
  /\ janBatch \in [DeleteAgents -> Seq(Delivery)]

JanGoto(a, l) == janPc' = [janPc EXCEPT ![a] = l]
JanHold(a, batch) == janBatch' = [janBatch EXCEPT ![a] = batch]

\* Where batchDelete returns to.
JanCaller(a) == IF a = DeleteFlusher THEN "ticker" ELSE "getFullBatch"

-----------------------------------------------------------------------------
\* run() counts the root and starts it; the root starts the flusher.
StartRootJanitor ==
  /\ janPc[RootJanitor] = "start"
  /\ janitors' = janitors + 1
  /\ janPc' = [janPc EXCEPT ![RootJanitor] = "range", ![DeleteFlusher] = "ticker"]
  /\ UNCHANGED <<deletePool, deleteRecent, janBatch, chVars, sqsVars>>

\* for msg := range q.deleteCh
TakeDelete(j) ==
  /\ janPc[j] = "range"
  /\ ReceiveDelete(Head(deleteCh))
  /\ JanHold(j, <<Head(deleteCh)>>)
  /\ JanGoto(j, "add")
  /\ UNCHANGED <<deletePool, janitors, deleteRecent, publishCh, sqsVars>>

\* q.deletePool.add(msg)
AddDelete(j) ==
  /\ janPc[j] = "add"
  /\ deletePool' = deletePool \o janBatch[j]
  /\ JanHold(j, <<>>)
  /\ JanGoto(j, "getFullBatch")
  /\ UNCHANGED <<janitors, deleteRecent, chVars, sqsVars>>

\* q.deletePool.getFullBatch(), found: the loop deletes and asks again.
DrainDelete(j) ==
  /\ janPc[j] = "getFullBatch"
  /\ FullBatchFoundV1(deletePool)
  /\ JanHold(j, BatchV1(deletePool))
  /\ deletePool' = SurvivorsV1(deletePool)
  /\ JanGoto(j, "delete")
  /\ UNCHANGED <<janitors, deleteRecent, chVars, sqsVars>>

\* q.deletePool.getFullBatch(), not found.
DrainedDelete(j) ==
  /\ janPc[j] = "getFullBatch"
  /\ ~FullBatchFoundV1(deletePool)
  /\ JanGoto(j, "load")
  /\ UNCHANGED <<deletePool, janitors, deleteRecent, janBatch, chVars, sqsVars>>

\* batchDelete: lastDeleteUnix is stored, SQS deletes the entries "applied".
\* Error, partial failure or success only differ in what is logged, counted
\* and slept: the batch leaves the process.
BatchDelete(a, applied) ==
  /\ janPc[a] = "delete"
  /\ deleteRecent' = TRUE
  /\ SqsDelete({janBatch[a][i] : i \in applied})
  /\ JanHold(a, <<>>)
  /\ JanGoto(a, JanCaller(a))
  /\ UNCHANGED <<deletePool, janitors, chVars>>

\* The call as SQS may answer it.
DeleteCall(a) == \E applied \in SUBSET DOMAIN janBatch[a] : BatchDelete(a, applied)

-----------------------------------------------------------------------------
\* (mutant) the limit is compared with <=.
BelowLimitOrAt == janitors <= LimitDeleters

BelowLimit == janitors < LimitDeleters

\* The root, load above the high watermark: it will look at the limit.
ScaleUpJanitor(j) ==
  /\ janPc[j] = "load"
  /\ j = RootJanitor
  /\ JanGoto(j, IF LoadAbove(deleteCh, BufferSizeDelete, WatermarkHighDelete)
                THEN "limit" ELSE "range")
  /\ UNCHANGED <<deletePool, janitors, deleteRecent, janBatch, chVars, sqsVars>>

\* q.janitors.Load() < LimitDeleters
CheckLimitDeleters(j) ==
  /\ janPc[j] = "limit"
  /\ JanGoto(j, IF BelowLimit THEN "spawn" ELSE "range")
  /\ UNCHANGED <<deletePool, janitors, deleteRecent, janBatch, chVars, sqsVars>>

\* q.janitors.Add(1) and the go statement.
SpawnJanitor(j, k) ==
  /\ janPc[j] = "spawn"
  /\ janPc[k] = "none"
  /\ janitors' = janitors + 1
  /\ janPc' = [janPc EXCEPT ![j] = "range", ![k] = "range"]
  /\ UNCHANGED <<deletePool, deleteRecent, janBatch, chVars, sqsVars>>

\* (mutant) the root, too, leaves when the channel is nearly empty.
AnyJanitorLeaves(j) == LoadBelow(deleteCh, BufferSizeDelete, WatermarkLowDelete)

\* Only a sibling exits, below the low watermark.
JanitorLeaves(j) ==
  /\ j # RootJanitor
  /\ LoadBelow(deleteCh, BufferSizeDelete, WatermarkLowDelete)

ExitJanitor(j) ==
  /\ janPc[j] = "load"
  /\ JanitorLeaves(j)
  /\ janitors' = janitors - 1
  /\ JanGoto(j, "none")
  /\ UNCHANGED <<deletePool, deleteRecent, janBatch, chVars, sqsVars>>

StayJanitor(j) ==
  /\ janPc[j] = "load"
  /\ j # RootJanitor
  /\ ~JanitorLeaves(j)
  /\ JanGoto(j, "range")
  /\ UNCHANGED <<deletePool, janitors, deleteRecent, janBatch, chVars, sqsVars>>

-----------------------------------------------------------------------------
\* The flush interval passes and nothing was deleted in it.
ElapseDelete ==
  /\ deleteRecent
  /\ deleteRecent' = FALSE
  /\ UNCHANGED <<deletePool, janitors, janPc, janBatch, chVars, sqsVars>>

\* The flusher's tick.  With a recent delete it does nothing.
TickDelete ==
  /\ janPc[DeleteFlusher] = "ticker"
  /\ ~deleteRecent
  /\ JanGoto(DeleteFlusher, "getAvailable")
  /\ UNCHANGED <<deletePool, janitors, deleteRecent, janBatch, chVars, sqsVars>>

\* q.deletePool.getAvailable() and, if it gave anything, batchDelete.
FlushDelete ==
  /\ janPc[DeleteFlusher] = "getAvailable"
  /\ IF deletePool # <<>>
     THEN /\ JanHold(DeleteFlusher, BatchV1(deletePool))
          /\ deletePool' = SurvivorsV1(deletePool)
          /\ JanGoto(DeleteFlusher, "delete")
     ELSE JanGoto(DeleteFlusher, "ticker") /\ UNCHANGED <<deletePool, janBatch>>
  /\ UNCHANGED <<janitors, deleteRecent, chVars, sqsVars>>

\* One step of janitor j, and of the flusher, apart from the calls of SQS.
JanitorStep(j) ==
  \/ TakeDelete(j) \/ AddDelete(j) \/ DrainDelete(j) \/ DrainedDelete(j)
  \/ ScaleUpJanitor(j) \/ CheckLimitDeleters(j) \/ ExitJanitor(j) \/ StayJanitor(j)
  \/ \E k \in Janitors : SpawnJanitor(j, k)

DeleteFlusherStep == TickDelete \/ FlushDelete

JanitorsStep ==
  \/ StartRootJanitor
  \/ \E j \in Janitors : JanitorStep(j)
  \/ DeleteFlusherStep
  \/ ElapseDelete
=============================================================================

------------------------------ MODULE V1Health ------------------------------
(***************************************************************************)
(* serveHealth and findError of the first version: a request is answered   *)
(* from a cache of CacheTTL units of time, or by reading the status of one *)
(* queue after the other.  The handlers do this under lastLock, so one at  *)
(* a time is at it and those that wait hold nothing.                       *)
(***************************************************************************)
EXTENDS V1Queue

CONSTANTS
  QueueList,  \* the queues in the order of the configuration
  CacheTTL,   \* cacheTTL
  NoQueue     \* the queue named by an answer 200

ASSUME V1HealthAssumption ==
  /\ QueueList \in Seq(Queues)
  /\ CacheTTL \in Nat \ {0}
  /\ NoQueue \notin Queues

VARIABLES
  scan,       \* the next queue that findError reads, 0 outside of it
  lastQueue,  \* the cached answer: 500 for a queue, 200 for NoQueue
  age         \* the time since lastFind, CacheTTL for anything older

healthVars == <<scan, lastQueue, age>>

HealthInit ==
  /\ scan = 0
  /\ lastQueue = NoQueue
  /\ age = CacheTTL

HealthForget == scan' = 0 /\ lastQueue' = NoQueue /\ age' = CacheTTL

-----------------------------------------------------------------------------
\* (mutant) a request renews the time of the cache.
Renewed == 0

\* An answer from the cache leaves lastFind as it is.
CachedAge == age

AnswerCached ==
  /\ scan = 0
  /\ age < CacheTTL
  /\ age' = CachedAge
  /\ UNCHANGED <<scan, lastQueue>>

StartScan ==
  /\ scan = 0
  /\ age = CacheTTL
  /\ scan' = 1
  /\ UNCHANGED <<lastQueue, age>>

Save(q) == scan' = 0 /\ lastQueue' = q /\ age' = 0

\* getStatus of the next queue: the first error ends the scan.
ReadStatus ==
  /\ scan \in DOMAIN QueueList
  /\ IF status[QueueList[scan]] = "error"
     THEN Save(QueueList[scan])
     ELSE scan' = scan + 1 /\ UNCHANGED <<lastQueue, age>>

NoError == scan = Len(QueueList) + 1 /\ Save(NoQueue)

HealthStep == (AnswerCached \/ StartScan \/ ReadStatus \/ NoError) /\ UNCHANGED queueVars

\* Time passes.
Tick ==
  /\ age < CacheTTL
  /\ age' = age + 1
  /\ UNCHANGED <<scan, lastQueue, queueVars>>
=============================================================================

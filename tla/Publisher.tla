------------------------------ MODULE Publisher ------------------------------
(***************************************************************************)
(* startPublisher and batchPublish for one queue: the root publisher, the  *)
(* siblings it spawns while publishCh fills up, and the periodic flusher.  *)
(* They share publishPool, the counter publishers and lastPublishUnix; a   *)
(* step is one operation on something shared (a channel, the pool, a       *)
(* counter, an API call), so any two goroutines interleave between them.   *)
(***************************************************************************)
EXTENDS Queue

CONSTANTS
  Publishers,            \* slots for publisher goroutines
  RootPublisher,         \* the one that run() starts
  PublishFlusher,        \* the flusher goroutine
  LimitPublishers,       \* queueCfg.LimitPublishers
  WatermarkLowPublish,   \* percentages of cap(publishCh)
  WatermarkHighPublish

ASSUME PublisherAssumption ==
  /\ IsFiniteSet(Publishers)
  /\ RootPublisher \in Publishers
  /\ PublishFlusher \notin Publishers
  /\ LimitPublishers \in Nat \ {0}
  /\ WatermarkLowPublish \in Nat
  /\ WatermarkHighPublish \in Nat

VARIABLES
  publishPool,    \* poolV2.buf
  publishers,     \* the atomic counter of publisher goroutines
  publishRecent,  \* lastPublishUnix is less than a flush interval ago
  pubPc,          \* where each goroutine is
  pubBatch,       \* the messages in its hands
  pubOk,          \* batchPublish: indices of pubBatch still to go to deleteCh
  accepted        \* external: the deliveries whose message SNS has accepted

pubProcVars == <<publishPool, publishers, publishRecent, pubPc, pubBatch, pubOk>>
pubVars == <<pubProcVars, accepted>>

\* The goroutines that run batchPublish.
PublishAgents == Publishers \cup {PublishFlusher}

PublisherPcs == {"start", "none", "range", "add", "getFullBatch", "publish",
                 "forward", "load", "limit", "spawn"}
FlusherPcs == {"none", "ticker", "getAvailable", "publish", "forward"}

PubPcInit == [a \in PublishAgents |-> IF a = RootPublisher THEN "start" ELSE "none"]

PubInitProc ==
  /\ publishPool = <<>>
  /\ publishers = 0
  /\ publishRecent = FALSE
  /\ pubPc = PubPcInit
  /\ pubBatch = [a \in PublishAgents |-> <<>>]
  /\ pubOk = [a \in PublishAgents |-> {}]

\* The end of the process.
PubForget ==
  /\ publishPool' = <<>>
  /\ publishers' = 0
  /\ publishRecent' = FALSE
  /\ pubPc' = PubPcInit
  /\ pubBatch' = [a \in PublishAgents |-> <<>>]
  /\ pubOk' = [a \in PublishAgents |-> {}]

PubInit == PubInitProc /\ accepted = {}

PubTypeOK ==
  /\ publishPool \in Seq(Delivery)
  /\ publishers \in Int
  /\ publishRecent \in BOOLEAN
  /\ accepted \subseteq Delivery
  /\ pubPc \in [PublishAgents -> PublisherPcs \cup FlusherPcs]
  /\ pubPc[PublishFlusher] \in FlusherPcs
  /\ \A p \in Publishers : pubPc[p] \in PublisherPcs
  /\ pubBatch \in [PublishAgents -> Seq(Delivery)]
  /\ pubOk \in [PublishAgents -> SUBSET (1..MaxBatchItems)]

\* How often d occurs in the hands of goroutine a.
PubInHand(a, d) ==
  IF pubPc[a] = "forward"
  THEN Cardinality({i \in pubOk[a] : pubBatch[a][i] = d})
  ELSE Occurrences(pubBatch[a], d)

PubGoto(a, l) == pubPc' = [pubPc EXCEPT ![a] = l]
PubHold(a, batch) == pubBatch' = [pubBatch EXCEPT ![a] = batch]

\* (mutant) the pool is asked for a full batch once, not until it has none.
PubCallerOnce(a) == IF a = PublishFlusher THEN "ticker" ELSE "load"

\* Where batchPublish returns to.
PubCaller(a) == IF a = PublishFlusher THEN "ticker" ELSE "getFullBatch"

-----------------------------------------------------------------------------
\* run() counts the root and starts it; the root starts the flusher.
StartRootPublisher ==
  /\ pubPc[RootPublisher] = "start"
  /\ publishers' = publishers + 1
  /\ pubPc' = [pubPc EXCEPT ![RootPublisher] = "range", ![PublishFlusher] = "ticker"]
  /\ UNCHANGED <<publishPool, publishRecent, pubBatch, pubOk, accepted, chVars>>

\* for msg := range q.publishCh
TakePublish(p) ==
  /\ pubPc[p] = "range"
  /\ ReceivePublish(Head(publishCh))
  /\ PubHold(p, <<Head(publishCh)>>)
  /\ PubGoto(p, "add")
  /\ UNCHANGED <<publishPool, publishers, publishRecent, pubOk, accepted, deleteCh>>

\* q.publishPool.add(msg)
AddPublish(p) ==
  /\ pubPc[p] = "add"
  /\ publishPool' = publishPool \o pubBatch[p]
  /\ PubHold(p, <<>>)
  /\ PubGoto(p, "getFullBatch")
  /\ UNCHANGED <<publishers, publishRecent, pubOk, accepted, chVars>>

\* q.publishPool.getFullBatch(), found: the loop publishes and asks again.
DrainPublish(p) ==
  /\ pubPc[p] = "getFullBatch"
  /\ FullBatchFound(publishPool)
  /\ PubHold(p, Batch(publishPool))
  /\ publishPool' = Survivors(publishPool)
  /\ PubGoto(p, "publish")
  /\ UNCHANGED <<publishers, publishRecent, pubOk, accepted, chVars>>

\* q.publishPool.getFullBatch(), not found.
DrainedPublish(p) ==
  /\ pubPc[p] = "getFullBatch"
  /\ ~FullBatchFound(publishPool)
  /\ PubGoto(p, "load")
  /\ UNCHANGED <<publishPool, publishers, publishRecent, pubBatch, pubOk, accepted, chVars>>

\* (mutant) a partial failure is taken for a success: every message of the
\* batch goes on to the janitors.
ReturnedAll(batch, successful) == IF successful = {} THEN {} ELSE DOMAIN batch

\* publisherReal.publish: the messages returned to batchPublish are those
\* whose entry id SNS names among the successful ones.
Returned(batch, successful) ==
  LET successIDs == {BatchEntryID(batch, i) : i \in successful}
  IN {i \in DOMAIN batch : BatchEntryID(batch, i) \in successIDs}

\* batchPublish up to the API's answer: lastPublishUnix is stored, SNS accepts
\* the entries "successful", and either the call answers which they are, or it
\* fails (an error or a timeout, whatever SNS did) and the batch is dropped.
BatchPublish(a, successful, errPub) ==
  LET pub == IF errPub THEN {} ELSE Returned(pubBatch[a], successful)
  IN /\ pubPc[a] = "publish"
     /\ publishRecent' = TRUE
     /\ accepted' = accepted \cup {pubBatch[a][i] : i \in successful}
     /\ pubOk' = [pubOk EXCEPT ![a] = pub]
     /\ IF pub = {}
        THEN PubHold(a, <<>>) /\ PubGoto(a, PubCaller(a))
        ELSE UNCHANGED pubBatch /\ PubGoto(a, "forward")
     /\ UNCHANGED <<publishPool, publishers, chVars>>

\* The call as SNS may answer it: all of it, a part of it, or not at all.
PublishCall(a) ==
  \E successful \in SUBSET DOMAIN pubBatch[a], errPub \in BOOLEAN :
    BatchPublish(a, successful, errPub)

\* q.deleteCh <- m, in order; the last one ends batchPublish.
ForwardPublished(a) ==
  /\ pubPc[a] = "forward"
  /\ \E i \in pubOk[a] :
       /\ \A j \in pubOk[a] : i <= j
       /\ SendDelete(pubBatch[a][i])
       /\ pubOk' = [pubOk EXCEPT ![a] = @ \ {i}]
       /\ IF pubOk[a] = {i}
          THEN PubHold(a, <<>>) /\ PubGoto(a, PubCaller(a))
          ELSE UNCHANGED <<pubBatch, pubPc>>
  /\ UNCHANGED <<publishPool, publishers, publishRecent, accepted, publishCh>>

-----------------------------------------------------------------------------
\* (mutant) the limit is compared with <=.
BelowLimitPublishersOrAt == publishers <= LimitPublishers

BelowLimitPublishers == publishers < LimitPublishers

\* The root, load above the high watermark: it will look at the limit.
ScaleUpPublisher(p) ==
  /\ pubPc[p] = "load"
  /\ p = RootPublisher
  /\ PubGoto(p, IF LoadAbove(publishCh, BufferSizePublish, WatermarkHighPublish)
                THEN "limit" ELSE "range")
  /\ UNCHANGED <<publishPool, publishers, publishRecent, pubBatch, pubOk, accepted, chVars>>

\* q.publishers.Load() < LimitPublishers
CheckLimitPublishers(p) ==
  /\ pubPc[p] = "limit"
  /\ PubGoto(p, IF BelowLimitPublishers THEN "spawn" ELSE "range")
  /\ UNCHANGED <<publishPool, publishers, publishRecent, pubBatch, pubOk, accepted, chVars>>

\* q.publishers.Add(1) and the go statement.
SpawnPublisher(p, q) ==
  /\ pubPc[p] = "spawn"
  /\ pubPc[q] = "none"
  /\ publishers' = publishers + 1
  /\ pubPc' = [pubPc EXCEPT ![p] = "range", ![q] = "range"]
  /\ UNCHANGED <<publishPool, publishRecent, pubBatch, pubOk, accepted, chVars>>

\* A sibling exits below the low watermark and goes on otherwise.
ScaleDownPublisher(p) ==
  /\ pubPc[p] = "load"
  /\ p # RootPublisher
  /\ IF LoadBelow(publishCh, BufferSizePublish, WatermarkLowPublish)
     THEN PubGoto(p, "none") /\ publishers' = publishers - 1
     ELSE PubGoto(p, "range") /\ UNCHANGED publishers
  /\ UNCHANGED <<publishPool, publishRecent, pubBatch, pubOk, accepted, chVars>>

-----------------------------------------------------------------------------
\* The flush interval passes and nothing was published in it.
ElapsePublish ==
  /\ publishRecent
  /\ publishRecent' = FALSE
  /\ UNCHANGED <<publishPool, publishers, pubPc, pubBatch, pubOk, accepted, chVars>>

\* (mutant) the comparison with the interval is the wrong way round.
TickPublishBackwards ==
  /\ pubPc[PublishFlusher] = "ticker"
  /\ publishRecent
  /\ PubGoto(PublishFlusher, "getAvailable")
  /\ UNCHANGED <<publishPool, publishers, publishRecent, pubBatch, pubOk, accepted, chVars>>

\* The flusher's tick.  With a recent publish it does nothing.
TickPublish ==
  /\ pubPc[PublishFlusher] = "ticker"
  /\ ~publishRecent
  /\ PubGoto(PublishFlusher, "getAvailable")
  /\ UNCHANGED <<publishPool, publishers, publishRecent, pubBatch, pubOk, accepted, chVars>>

\* q.publishPool.getAvailable() and, if it gave anything, batchPublish.  The
\* pool may have changed since the tick looked at lastPublishUnix.
FlushPublish ==
  /\ pubPc[PublishFlusher] = "getAvailable"
  /\ IF Available(publishPool)
     THEN /\ PubHold(PublishFlusher, Batch(publishPool))
          /\ publishPool' = Survivors(publishPool)
          /\ PubGoto(PublishFlusher, "publish")
     ELSE PubGoto(PublishFlusher, "ticker") /\ UNCHANGED <<publishPool, pubBatch>>
  /\ UNCHANGED <<publishers, publishRecent, pubOk, accepted, chVars>>

\* One step of publisher p, and of the flusher, apart from the calls of SNS.
PublisherStep(p) ==
  \/ TakePublish(p) \/ AddPublish(p) \/ DrainPublish(p) \/ DrainedPublish(p)
  \/ ForwardPublished(p)
  \/ ScaleUpPublisher(p) \/ CheckLimitPublishers(p) \/ ScaleDownPublisher(p)
  \/ \E q \in Publishers : SpawnPublisher(p, q)

PublishFlusherStep == TickPublish \/ FlushPublish \/ ForwardPublished(PublishFlusher)

PublishersStep ==
  \/ StartRootPublisher
  \/ \E p \in Publishers : PublisherStep(p)
  \/ PublishFlusherStep
  \/ ElapsePublish
=============================================================================

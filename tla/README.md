# Verification of sqs-to-sns

TLA+ specifications of `sqs-to-sns`: a process that receives messages from SQS
queues, publishes them to SNS topics and deletes them from SQS when SNS has
accepted them. It stores nothing. The repository has two versions of it. v2
(`src/v2/cmd/sqs-to-sns`), the current one, works in batches; v1
(`src/cmd/sqs-to-sns`) handles one message at a time. Both promise at-least-once
delivery, and what makes that hard in v2 is its concurrency: per queue, three
growing and shrinking families of goroutines, two flushers, two bounded channels,
two shared pools, calls that fail partially or after they took effect, visibility
timeouts, shutdown and crashes.

Paths below without a directory are in `src/v2/cmd/sqs-to-sns/`; `v1/` stands for
`src/cmd/sqs-to-sns/`.

## The system

| component | state | operations | properties that make it correct |
|---|---|---|---|
| pools (`pool.go`, `poolv2.go`) | a slice under a mutex | add, getFullBatch, getAvailable | batches are legal for SNS, nothing lost or doubled, bounded, no message waits for ever |
| queue struct (`app.go:469`) | publishCh, deleteCh, counters, lastPublishUnix, lastDeleteUnix | sends and receives that block, channelLoad | capacity, order |
| readers (`startReader`, `receiverReal`) | goroutines, counter, stopped, cancel | receive, forward, spawn, end, stop | everything received is forwarded, stop ends all, limit |
| publishers (`startPublisher`, `batchPublish`, `publisherReal`) | goroutines, counter, messages in hand | take, add, drain, publish, forward, spawn, end, flush | only what SNS accepted goes on, no starvation, limit |
| janitors (`startJanitor`, `batchDelete`, `deleterReal`) | goroutines, counter, messages in hand | the same with DeleteMessageBatch | what is published is deleted in the end, limit |
| process (`main.go`, `run`, `stopReaders`) | up or down | start, signal, exit after exitDelay | at-least-once through any crash |
| gauges (`stats.go`, `dogstatsd.go`) | four atomic words each | record, harvest | nothing lost or counted twice, extremes kept |
| health check (`health.go`) | lastHeartbeat | heartbeat, handler | no alarm while a queue works, a broken receiver is reported in time |
| v1 queues (`v1/main.go`) | one channel, fixed readers and writers, the last status | receive, send, take, publish, delete, cool down | at-least-once, no goroutine is lost but to a call that never returns |
| v1 health check (`v1/health.go`) | a cached answer and its time | scan the queues, answer from the cache | a lasting failure is reported, answers follow the statuses |
| `batch-sqs`, `publish-batch`, metrics, configuration, logs, AWS clients, charts | | | not modelled, see below |

Readers send to publishCh, publishers take from it, put messages into
publishPool and take batches out, publish them and send what was accepted to
deleteCh; janitors do the same with deletePool and SQS. A flusher per pool
empties it when nothing was published (deleted) for an interval. Every queue has
its own set of all this; queues share only the health check. In v1 a queue has one
channel: readers send to it, each writer takes a message, publishes it, deletes it
and stores what its last call came to, which the health check reads. The hard behaviour,
line by line, is the list `hazards` in `PROJECT.json`.

## The modules

| module | models | extends |
|---|---|---|
| `Pool` | messages, payload sizes, poolV1 and poolV2 as operators on a buffer | |
| `Queue` | the two channels and channelLoad | Pool |
| `Sqs` | SQS as the program sees it (external) | Pool |
| `Reader`, `Publisher`, `Janitor` | one family of goroutines each: state and actions | Queue (and Sqs) |
| `ReaderSpec`, `PublisherSpec`, `JanitorSpec` | that family alone, between an environment that stands for its neighbours; its properties | |
| `Forwarder` | all three families, SQS, SNS, the life of the process | Reader, Publisher, Janitor |
| `AtLeastOnce` | what the forwarder promises, abstractly | |
| `Gauge`, `GaugeSpec` | record and harvest, one atomic operation a step | |
| `Health` | heartbeat, handler and the times a reader takes | |
| `V1Queue` | v1: the queues with their readers and writers, and the calls | |
| `V1Health` | v1: serveHealth with its cache, findError | V1Queue |
| `V1` | v1 as a whole with SQS, SNS, failures and a kill; its properties | V1Health |
| `MC*` with their `.cfg` | small instances for TLC | |
| `Pipeline_proofs` | what the proofs share: lemmas about pools, channels, and the steps of each family of goroutines | Reader, Publisher, Janitor |
| `Publisher_proofs`, `Reader_proofs`, `Janitor_proofs`, `Forwarder_proofs`, `Gauge_proofs`, `Health_proofs`, `V1_proofs` | theorems for all values of the constants | the module they are about |

Conventions. Every goroutine has a program counter (`rdPc`, `pubPc`, `janPc`),
"none" for a slot whose goroutine does not exist. A step is one operation on
something shared: a channel operation, a method of a pool (it holds the pool's
mutex all along), one load or addition of an atomic counter, one API call. So the
check of a limit (`CheckLimitPublishers`) and the increment (`SpawnPublisher`)
are two steps, and so are the flusher's look at lastPublishUnix (`TickPublish`)
and its getAvailable (`FlushPublish`). A call with its answer is one step; what
it may answer is an `\E`. (In `Health`, which is about time, a call has a beginning
and an end.) A message in hand is a *delivery*: a message and the
receipt handle (a number) that one receive gave it.

Abstractions. A message's body and attributes are its payload size, a constant.
lastPublishUnix is the bit "less than a flush interval ago": batchPublish sets
it, time clears it (`ElapsePublish`). The entry id of a message in a batch is the pair of
its message id and its index (`BatchEntryID`), not a string. Cooldown sleeps take time and
change nothing, so they are no steps. Log calls and plain counters are left out,
except receiveErrors. Where a comment begins with "(mutant)", the operator is a
deliberately wrong variant of the one below it; `PROJECT.json` says which
property notices.

Answers of AWS. ReceiveMessage may return any visible messages up to the
maximum, none, or fail, and a failing call may have taken messages out of sight.
PublishBatch may accept any subset; it may also accept any subset and then fail
or time out. DeleteMessageBatch may delete any subset, with an old receipt handle
too or not. A message in flight may become visible at any time.

In v1 a call that fails goes on failing until it is repaired (`Break`, `Repair`), for
each queue and each of the three calls separately; while it fails it may take
effect all the same. v2 bounds each call by awsAPITimeout; v1 does not (`context.TODO()` at
`v1/main.go:214`, 405 and 436), so a call may also never return (`Hang`): it may take effect, and
its goroutine is at "hung" from then on, with what it has in hand, until the next start. Receipt handles are left out: a DeleteMessage with an old one
is an answer without an error that deletes nothing, and counts as a fault. One
health request at a time stands for all, as `lastLock` admits one; those that wait
hold nothing. A kill and the next start are one step (`Crash`); v1 handles no signals.
The error is stored after the cooldown sleep, so "cooldown" is a place of its own.

## The runs

`TypeOK` is checked where it is listed; the other properties are these.

| run | what it shows | states |
|---|---|---|
| `publisher` | `PoolBound`: the slice is bounded by the drain loop. `NoStrandedBatch`: a full batch always has a publisher that will ask for it. `BatchLegal`: what SNS gets is legal, at exactly ten entries and at exactly the limit too, and with distinct entry ids when one message is in it twice. `ForwardedAccepted`, `SingleCustody`, `NothingLost`: no message is deleted unpublished, taken twice or dropped. `PublisherLimit`. `NoStarvation`: a message that waits is offered to SNS however others fill the batches | 60 thousand |
| `reader` | `ReceivedForwarded`: a response that arrives after stop is forwarded. `StopEndsReaders`. `CancellationNotCounted`: the order in stop() matters. `ReaderLimit` | 158 thousand |
| `janitor` | `JanitorLimit`, `DeletePoolBound`, `DeleteBatchLegal`, `SingleCustody`, `NothingLost`, `DeleteRequested`: the same for poolV1 | 107 thousand |
| `forwarder` | `AtLeastOnceSpec`: the pipeline implements `AtLeastOnce`, with one fault of any kind at any point. `FaultFree`: until then each message is received once, is at exactly one place until it is deleted, and is nowhere afterwards | 1.5 million |
| `forwarder_live` | `AllForwarded`: with one fault every publishable message is still published and deleted, although a message that newMessage refuses comes along | 166 thousand |
| `gauge` | Two recorders and the harvester, word by word. `Conserved`: a gauge that the exporter samples passes on everything recorded exactly once; none of its snapshots is dropped. `WholeExported`: in any gauge, a record that no harvest overlaps is exported, between the min and the max. `MaxCovers`, `AlwaysExported` | 4.8 million |
| `health` | One queue, whose receives begin to fail and work again at any time. `BrokenReported`: the answer is 500 once they have failed for the limit and the round that the failure met. `NoFalseAlarm`: it is 200 once they have worked for as long as a recovery takes | 35 thousand |
| `v1` | `AtLeastOnceSpec`: v1 implements `AtLeastOnce` too. `AllForwarded`: when the calls of a queue work again for good and a reader and a writer of it are not hung, everything is delivered, also what a hung call took along; no goroutine is lost to an error, a full channel or a hung neighbour. `FailureReported`: a call that fails for good and is needed again and again makes the health check answer 500 from some time on; an empty receive, another queue's success or the cache does not hide it. `AnswersFollow`: once the statuses stay as they are, the answers follow them | 49 thousand |

Four runs show that the program does not do what a document or a comment says;
`findings` quotes both sides.

- `forwarder_exit`: `DrainedOnExit` (`v2/README.md:206`) does not hold. Nothing
  waits for the buffers; the process exits after exitDelay. At-least-once holds
  all the same, at the price of duplicates.
- `janitor_siblings`: `SiblingsEnd` (`v2/README.md:66-68`) does not hold. A sibling
  looks at the watermark only after taking a message. The default low watermark
  of publishers is 0 (`config.go:75`; the README's table says .01), with which
  publisher siblings do not end even under load.
- `gauge_sentinel`: `SentinelMeansIdle` (`dogstatsd.go:69`) does not hold: harvest
  may run between record's additions and its update of min, and then the sum and the count
  that it has taken are dropped. That concerns forward_latency only, the one gauge that the
  exporter does not sample itself: for the others `Conserved` excludes it.
- `health_queues`: `BrokenReported` (`health.go:60-61`) does not hold with two
  queues: the heartbeat of either stands for both.

### Bounds

- Messages: `SizeOf` of `MCPublisher` gives payload sizes such that two deliveries
  of one message fill a batch exactly by weight, a second message fills one alone
  (so it never fits next to another), and a third fits only without its padding.
  `MaxBatchItems` is 2: full by count, by exact weight and by density, and partial
  batches, all occur. `Arriving` has one message under two receipt handles, in
  `MCPublisher` and in `MCJanitor`: two of its deliveries meet in a batch.
- `PublisherSpec` and `JanitorSpec` use the name of a delivery again when nothing
  holds it any more. So arrivals never end, which `NoStarvation` and
  `DeleteRequested` need: a steady stream keeps the flusher quiet.
- Three slots for goroutines under a limit of two: one more than the limit
  allows, so that exceeding it is possible in the model.
- Channels of capacity one to three: full and empty channels, and loads above and
  below the watermarks, occur.
- `MaxReceives`: how often SQS hands out one message, 1 or 2. `AllForwarded` needs
  one more than the faults that may waste a receive, and has it.
- `MaxFaults`: how often something goes wrong. One fault may hit at any step, on
  top of unlimited recovery (restart, redelivery). What no fault needs is not
  bounded: `Exit` after `Signal`, `Restart`, redelivery of what nobody holds.
- `FullReceive` is the literal 10 of `app.go:154`; with the default configuration
  it equals `MaxNumberOfMessages`, as in the runs.
- `MCReader` has no message that newMessage refuses, `MCForwarderLive` has one.
- `MCForwarder` has one goroutine of each kind besides the flushers. Siblings, whose
  interleavings multiply, are in the runs of the components, where `SingleCustody`
  states for them what `FaultFree` states for the pipeline.
- `MCV1`: a busy queue with two readers and two writers, so that one of each may hang, and an idle one, which comes
  first in the list and so must not end the scan. The channel takes one message and a receive
  two, so a reader blocks with a message in hand. `CacheTTL` is 2 units: a cached
  answer is asked for before and after one of them.
- `MCGauge`: two recorders and at most two calls of record an interval, so a
  harvest overlaps a complete and an incomplete one. `MCHealth` counts in units of
  five seconds: limit 6, long poll 4, cooldowns 1 (one second in the code) and at
  most 1 blocked on publishCh. Longer blocking can exceed the limit, which the
  bound `MaxBlocked` states. Times are counted up to the first one beyond all that
  they are compared with (`Later`). With `Recovery` or `Detection` one unit shorter TLC finds
  the property violated. `MCHealthQueues` has shorter times, as its trace is long.

Deadlock is checked everywhere except in `reader`: after stop() all readers end,
and that is the intention.

### Fairness

Weak fairness for each goroutine's next step (Go schedules what can run), for the
answer of each call (in v2 awsAPITimeout bounds it; on v1 see below) and for the tickers. The flush
interval passes only if nothing is published in it, so its fairness is
`WF(ElapsePublish) \/ PublishingGoesOn`: a starvation argument may not assume that
the flusher gets its turn while publishing goes on and on. In `Forwarder` the
messages are finite, so publishing ends and `WF(ElapsePublish)` is justified; SQS
hands out each visible message to a process that keeps asking, `SF(HandsOut(m))`,
and a message that is not deleted becomes visible again. A signal or a fault is
never fair: nothing has to go wrong.

`V1` assumes the same of goroutines and SQS, and that somebody asks for the
health again and again and time passes. That a call answers is not assumed, as nothing in v1
bounds it: weak fairness is about goroutines that have a step, and one whose call hangs has none;
`Hang` itself is not fair. What v1 can
owe then is the hypothesis of `AllForwarded`: `Serves`, a reader and a writer of the
queue are left. `Repair` is not fair either: that a broken call is repaired, or stays
broken, is the hypothesis of `AllForwarded` and of `FailureReported`. Such behaviours are in the run: calls break at most `MaxFaults`
times, and may or may not be repaired.

## The proofs

`Publisher_proofs` proves for all constants that satisfy the named assumptions
(any messages, sizes, capacities, limits and numbers of goroutines):

- `TypeCorrect`: `Spec => []TypeOK`. TypeOK is not inductive: that a batch has at
  most `MaxBatchItems` indices in `pubOk` depends on what goroutines hold at each
  program counter. `PubTypeInv` adds `PubHands` (one message in hand at "add", a batch
  of the pool's making at "publish" and "forward") and `PublishFlusherWaits` (the
  flusher does not run before the root has started it).
- `OnlyAcceptedForwarded`: `Spec => []ForwardedAccepted`, from `PubTypeInv`: `pubOk`
  gets only indices that SNS accepted in the same step, and `Deliver` forgets an
  acceptance only for a delivery that nothing holds.
- `PoolBounded`: `Spec => []PoolBound`. Needs `AllFit`: every message in the
  process fits a batch alone. Then a drained pool is short, lemma `NotFullShort`:
  if getFullBatch finds nothing, it took the whole buffer and that was fewer than
  `MaxBatchItems`; for a non-empty buffer it finds something, lemma `HeadTaken`.
  A publisher that leaves the drain loop leaves a short pool, one that adds owes
  a drain.
- `PublishersLimited`: `Spec => []PublisherLimit`, from `LimitInv`: only the root is
  ever at "limit" or "spawn", and at "spawn" the counter is below the limit and
  nobody but the root can raise it, so that check and increment need no lock.

- `NoneStranded`: `Spec => []NoStrandedBatch`. A buffer stops having a full batch only
  by giving it away: a publisher that stops owing a drain has just seen that none is left
  (`DrainedPublish`), an empty buffer has none (`EmptyNotFull`), and while nobody owes a drain the
  flusher takes all there is (`NotFullAllAvailable`). The only step that makes a full batch is an
  add, and it makes its publisher owe a drain.
- `BatchesLegal`: `Spec => []BatchLegal`, from `BatchInv`: only getFullBatch and
  getAvailable bring a goroutine to "publish". That their batch is within the limit of the
  payload is `ScanPayload`: the sum that findIndices keeps is the payload of the
  messages it took.
- `NoneLost`: `Spec => NothingLost`, an action property, and `CustodySingle`:
  `Spec => []SingleCustody`. Both count. `PubStored(d)` is how often a delivery is in the channels and the
  pool, and `PubStepMoves` says that a step of a goroutine changes the count of its own
  hands and of `PubStored` only, and leaves their sum alone. That extracting a batch splits the counts
  exactly is `OccurrencesPick`: indices taken and indices kept partition the
  buffer. The exceptions are the failed batchPublish and the send
  to deleteCh, which `StepLetsGo` singles out. For `SingleCustody` the sum over the goroutines is
  stated with `Cardinality` (`Custody`), as at most one of them has the delivery.
  `PubIdle` (empty hands wherever the code has no variable for a message) keeps a
  step from overwriting what is in hand.

`Janitor_proofs` proves the same of janitors and poolV1: `TypeCorrect`, `BatchesLegal`,
`NoneLost`, `CustodySingle`, `PoolBounded` and `JanitorsLimited`. The shifting
of the slice in poolV1 needs its own splitting lemma (`SplitV1`), and a full batch
is a matter of the length alone.

`Reader_proofs` proves

- `CancellationSilent`: `Spec => []CancellationNotCounted`, from `CancelInv`: whoever has
  the error of a cancelled call has seen `cancelled`, which implies `stopped`, and
  neither is ever reset;
- `AllForwardedReceived`: `Spec => []ReceivedForwarded`, from `RdHands`: only at
  "forward" does a reader have messages, so neither the next receive nor its end drops any;
- `ReadersLimited` from a `LimitInv` like that of publishers, and `TypeCorrect`.

`Gauge_proofs` proves, for any goroutines and values, `TypeCorrect` and

- `MaximumCovers`: `Spec => []MaxCovers`. The invariant `MaxInv` says of a goroutine before its
  compare-and-swap that the old value it has read is below its own;
- `SampledExported`: `Spec => []AlwaysExported`, from `SampledInv`: from the
  harvester's own record until its swap of min no step of others makes min the sentinel;
- `NothingUnaccounted`: `Spec => []Conserved`. A harvest moves each word into the snapshot, and
  the export takes away what the snapshot has, but only if it is not dropped. So the
  invariant has, besides `SnapEmpty` (nothing is in the snapshot outside of a harvest),
  the reason why no snapshot of a sampled gauge is: `SampledInv` for the sentinel and
  `SampledCounted` for the count;
- `UndisturbedExported`: `Spec => []WholeExported`. `WholeInv` follows a record that has begun since
  the last harvest: its count stays in the words until that harvest (`CountSeen`), and
  `MinLowered` is for min what `MaxInv` is for max, so that min and max cover it (`MinSeen`, `MaxSeen`).

`Health_proofs` proves, for any cooldowns and times,

- `QuietWhileWorking`: `Spec => []NoFalseAlarm`, for any number of queues, if
  `EmptyReceiveCooldown + WaitTime + MaxBlocked <= Limit`. The invariant `InTime` says of the root of a
  queue that works: the age of the heartbeat, what is left of the present step and the steps
  ahead fit into the limit, or, after a repair, the time since then and the same sum fit into
  `Recovery`. A repair may meet the root anywhere; in the pause after an empty receive, which
  may be longer than a recovery, the former holds of any root.
  With a smaller limit TLC finds a false alarm, so the hypothesis is exact.
  The code does not enforce it: cooldowns and buffer sizes are configured freely, and 30s is fixed;
- `BreakdownReported`: `Spec => []BrokenReported` for a single queue, the hypothesis that run
  `health_queues` shows to be needed. The invariant `LastRound`: a receive or a loop over publishCh
  that goes on while the queue fails began before, so the last heartbeat is given at the
  latest `WaitTime + MaxBlocked` after the failure.

`Forwarder_proofs` proves three theorems about the whole forwarder, with any numbers of
messages, goroutines and faults. It takes the steps of the goroutines from
`Pipeline_proofs` and shows that they fit together.

`TypeCorrect`, `Spec => []TypeOK`. `TypeInv` is the conjunction of what the three
families need (`RdTypeInv`, `PubTypeInv`, `JanTypeInv`). A step of one family disturbs
the others only through the channels and SQS (`ReadersRest`, `PublishersRest`,
`JanitorsRest`), and the end of the process leaves the state it starts from
(`GoDownForgets`).

`NoLoss`, `Spec => AtLeastOnceSpec`. A step that deletes must delete something
accepted, and what a janitor holds says nothing about acceptance by itself; so the
inductive invariant `LossInv` follows a delivery all the way from batchPublish:

- `OkAccepted`: SNS accepted what a publisher has still to forward. By `PubHands` those
  indices are of the batch in hand and the goroutine is at "forward", so no other
  step replaces the batch under them;
- `Downstream`: deleteCh, deletePool and the janitors' batches are sequences of
  accepted deliveries. `accepted` only grows, a poolV1 gives and keeps elements
  of its buffer (`BatchV1Type`), and the end of a process empties all of them.

Readers, receives and visibility timeouts leave the invariant and the set of
queued messages alone (`ReceiveKeepsQueued`: only visible messages are handed out, and
deleted ones are not visible). `PromisedRefines` turns what one step does into a
step of `AtLeastOnce`.

`FaultFreeHolds`, `Spec => []FaultFree`. `FaultFree` is not inductive: it speaks of the
latest delivery only, and does not say that there was no stop. `Quiet` strengthens it:
while `faults = 0` the process is up and not stopped; a publishable message is visible
exactly if it was never received (`Untroubled`); and every delivery of such a message
is as often in the process as it is `Owed` (`Balanced`): once if it is the latest one
and in flight, and otherwise not at all, with no goroutine holding it twice.
Each step is one of three kinds:

- a goroutine moves a delivery between its hands and the channels and pools
  (`RdStepMoves`, `PubStepMoves`, `JanStepMoves` of `Pipeline_proofs`, and nothing is owed
  or repaid);
- a receive or a delete changes hands and what is owed together. A receive fills
  empty hands with what SQS owes from then on (`QuietReceive`). What a janitor deletes is
  owed, hence the latest delivery, so that SQS does delete it, and no other
  delivery of the message is in the batch (`QuietDelete`);
- a publish keeps what it has in hand (`QuietPublish`), and only a message that is never
  published can time out (`QuietTimeout`), for of any other the process has the delivery.

`ReaderBalance`, `PublisherBalance` and `JanitorBalance` do the counting: if one
goroutine's hands, the places outside and what is owed change by the same amount,
the balance is kept. `CustodyIsWhole` ties the sum to `Custody`, which counts a set of holders.
TLC has checked `Quiet` on the instance of run `forwarder`.

`ReturnedSuccessful` is what the entry ids are for: since an id has the index in it, the
messages picked by id are those that SNS accepted.

`V1_proofs` proves `NoLoss` for v1, `Spec => AtLeastOnceSpec`, for any queues, buffers,
numbers of goroutines and failures, and `TypeCorrect`, `Spec => []TypeOK`. The invariant
that makes the first one inductive is `AcceptedFirst`: what a writer has in hand at
"delete" SNS has accepted. Only `Publish` brings a writer there, and only without an
error; a message that failed is let go by `WriterCooled`, a
writer that hangs never gets there any more, and a kill empties all hands.

`Pipeline_proofs` has what these proofs share. About the pool: findIndices as a recursive
function (its existence and unfolding, `ScanExists` and `ScanUnfolds`), the invariant of the
scan (`ScanInvariant`), the types and lengths of what a pool gives and keeps, and how often
a delivery occurs in it (`SplitV1`, `SplitV2`). About each family of goroutines: that a step
keeps the types (`RdStepTypes`, `PubStepTypes`, `JanStepTypes`) and only moves a delivery
(`RdStepMoves`, `PubStepMoves`, `JanStepMoves`). The proofs about a family alone and those about
the whole forwarder cite the same lemmas. Since the library's induction theorem
takes an operator parameter, `NatSetInduction` restates induction for sets.

Checked by TLC only: liveness (`NoStarvation`, `StopEndsReaders`,
`DeleteRequested`, `AllForwarded`, `FailureReported`, `AnswersFollow`), which the
prover cannot do. All safety properties of the passing runs are theorems.

## Not modelled

- `batch-sqs`, `publish-batch`: tools for benchmarks and measurements. Their loops are
  sequential and share nothing, so there is no behaviour that a test would miss.
- The metrics of v1 and the plain counters of v2: calls of client libraries, or one
  atomic addition and one swap each. The buffer gauge of v1 is among them.
- Reading configuration, logs, construction of AWS clients, the HTTP server, the
  Dogstatsd client: input and output.
- The computation of payload sizes (`snsutils`) and the copying of attributes:
  data that no property tells apart.
- More than one queue in `Forwarder`: queues share nothing there.

## Plan

1. Done: pools with batch entry ids, publishers, readers, janitors, the forwarder,
   gauges, health; v1 with its health check; the theorems about publishers and both
   refinements of `AtLeastOnce`.
2. Done: the theorems about the safety properties of publishers, readers, janitors,
   gauges and the health check of v2.
3. Done: `FaultFree` and `TypeOK` of the forwarder, on lemmas shared with the proofs
   about the single families.
4. Left: theorems about v1 beyond types and `NoLoss`, such as the safety half of
   `FailureReported`.

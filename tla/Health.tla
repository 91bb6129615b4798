-------------------------------- MODULE Health --------------------------------
(***************************************************************************)
(* The health check: one heartbeat for the whole program, given by the     *)
(* root reader of every queue when it has received and forwarded, and a    *)
(* handler that answers 500 when the last heartbeat is too old.  Queues    *)
(* break and work again.  Time is counted in units; what a reader does     *)
(* takes at most so many of them.                                          *)
(***************************************************************************)
EXTENDS Integers, FiniteSets

CONSTANTS
  Queues,         \* the queues of the configuration
  Limit,          \* limit of the handler, 30s
  WaitTime,       \* the longest answer of a ReceiveMessage that works, 20s
  AwsApiTimeout,  \* awsAPITimeout, the longest wait for one that fails, 30s
  EmptyReceiveCooldown,
  ReceiveErrorCooldown,
  MaxBlocked      \* the longest time publishCh keeps a reader waiting

ASSUME HealthAssumption ==
  {Limit, WaitTime, AwsApiTimeout, EmptyReceiveCooldown,
   ReceiveErrorCooldown, MaxBlocked} \subseteq Nat

VARIABLES
  failing, \* external: the queues whose ReceiveMessage fails now
  since,   \* how long each queue has been failing, or working
  age,     \* the time since lastHeartbeat
  doing,   \* what each reader does
  left     \* the time it has left for that

vars == <<failing, since, age, doing, left>>

\* Each queue has its root and may have siblings: one stands for all of them.
Readers == Queues \X {"root", "sibling"}
QueueOf(r) == r[1]
IsRoot(r) == r[2] = "root"

\* The longest time of what a reader does: a ReceiveMessage that will work or
\* fail, the loop over publishCh, and the sleeps after an empty receive and
\* after an error.
Longest(what) ==
  CASE what = "receive"  -> WaitTime
    [] what = "fail"     -> AwsApiTimeout
    [] what = "forward"  -> MaxBlocked
    [] what = "pause"    -> EmptyReceiveCooldown
    [] what = "cooldown" -> ReceiveErrorCooldown

\* How long it takes at most until a queue that works again gives a heartbeat.
Recovery == AwsApiTimeout + ReceiveErrorCooldown + WaitTime + MaxBlocked

\* How long it takes at most until the alarm for a queue that fails: its last
\* round, then the limit.
Detection == WaitTime + MaxBlocked + Limit

\* Times matter up to the first one beyond all that they are compared with.
Later(t) == IF t > Limit /\ t > Recovery /\ t > Detection THEN t ELSE t + 1

\* newHealthServer sets a heartbeat before there was any.  A queue that works
\* has done so for long; another one fails from the start.
Init ==
  /\ failing \in SUBSET Queues
  /\ since = [q \in Queues |-> IF q \in failing THEN 0 ELSE Recovery + 1]
  /\ age = 0
  /\ doing = [r \in Readers |-> IF QueueOf(r) \in failing THEN "fail" ELSE "receive"]
  /\ left = [r \in Readers |-> Longest(doing[r])]

Begin(r, what) ==
  /\ doing' = [doing EXCEPT ![r] = what]
  /\ left' = [left EXCEPT ![r] = Longest(what)]
  /\ UNCHANGED <<failing, since>>

\* The call of the next ReceiveMessage.
Poll(r) == Begin(r, IF QueueOf(r) \in failing THEN "fail" ELSE "receive")

-----------------------------------------------------------------------------
\* (mutant) the root gives heartbeats only when it has received something.
BusyHeartbeats(r, empty) == IsRoot(r) /\ ~empty

Heartbeats(r, empty) == IsRoot(r)

\* A reader has no message on its hands (any more): the heartbeat, and the
\* cooldown of a root after an empty receive.
Handled(r, empty) ==
  /\ age' = IF Heartbeats(r, empty) THEN 0 ELSE age
  /\ IF empty /\ IsRoot(r) THEN Begin(r, "pause") ELSE Poll(r)

ReceiveEmpty(r) == doing[r] = "receive" /\ Handled(r, TRUE)

ReceiveMessages(r) ==
  /\ doing[r] = "receive"
  /\ Begin(r, "forward")
  /\ UNCHANGED age

Forwarded(r) == doing[r] = "forward" /\ Handled(r, FALSE)

\* A call fails that began while the queue failed, or that the failure met.
Failed(r) == doing[r] = "fail" \/ (doing[r] = "receive" /\ QueueOf(r) \in failing)

\* (mutant) the root tells that it is alive before it looks at the error.
FailsAlive(r) ==
  /\ Failed(r)
  /\ Begin(r, "cooldown")
  /\ age' = IF IsRoot(r) THEN 0 ELSE age

ReceiveFails(r) ==
  /\ Failed(r)
  /\ Begin(r, "cooldown")
  /\ UNCHANGED age

Rested(r) ==
  /\ doing[r] \in {"pause", "cooldown"}
  /\ Poll(r)
  /\ UNCHANGED age

\* The calls of a queue fail from now on, or work again.
Break(q) ==
  /\ q \notin failing
  /\ failing' = failing \cup {q}
  /\ since' = [since EXCEPT ![q] = 0]
  /\ UNCHANGED <<age, doing, left>>

Repair(q) ==
  /\ q \in failing
  /\ failing' = failing \ {q}
  /\ since' = [since EXCEPT ![q] = 0]
  /\ UNCHANGED <<age, doing, left>>

\* Time passes while nobody has to do something.
Tick ==
  /\ \A r \in Readers : left[r] > 0
  /\ left' = [r \in Readers |-> left[r] - 1]
  /\ age' = Later(age)
  /\ since' = [q \in Queues |-> Later(since[q])]
  /\ UNCHANGED <<failing, doing>>

Next ==
  \/ \E r \in Readers :
       \/ ReceiveEmpty(r) \/ ReceiveMessages(r) \/ Forwarded(r)
       \/ ReceiveFails(r) \/ Rested(r)
  \/ \E q \in Queues : Break(q) \/ Repair(q)
  \/ Tick

Spec == Init /\ [][Next]_vars

\* The handler of the health path.
Status == IF age > Limit THEN 500 ELSE 200

-----------------------------------------------------------------------------
\* A queue whose calls have worked for long enough to recover from whatever
\* was before keeps the health check from failing, however slow its long polls
\* are and however long publishCh is full within bounds, and whatever becomes
\* of the other queues.
NoFalseAlarm == (\E q \in Queues \ failing : since[q] > Recovery) => Status = 200

\* "If the receiver is broken, the health check endpoint will start returning
\* 500s after the 30s limit is exceeded": when the calls of a queue have failed
\* for the limit and the round that the failure met, neither a late success nor
\* a sibling nor an error that is over keeps the answer at 200.
BrokenReported == \A q \in failing : since[q] > Detection => Status = 500
=============================================================================

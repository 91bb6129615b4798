----------------------------- MODULE Health_proofs -----------------------------
(***************************************************************************)
(* What the health check owes its users, for any number of queues and any  *)
(* times: no alarm while one queue works, if the limit leaves time for one *)
(* round of a reader; and, for a program with a single queue, an alarm     *)
(* when its calls have failed for long enough.                             *)
(***************************************************************************)
EXTENDS Health, TLAPS

(* The longest round of a root: from a heartbeat through the cooldown of   *)
(* an empty receive, a long poll and a full publishCh to the next one.     *)
Round == EmptyReceiveCooldown + WaitTime + MaxBlocked

Doings == {"receive", "fail", "forward", "pause", "cooldown"}

TypeInv ==
  /\ failing \in SUBSET Queues
  /\ since \in [Queues -> Nat]
  /\ age \in Nat
  /\ doing \in [Readers -> Doings]
  /\ left \in [Readers -> Nat]
  /\ \A r \in Readers : left[r] <= Longest(doing[r])

-----------------------------------------------------------------------------
LEMMA Times == /\ Limit \in Nat /\ WaitTime \in Nat /\ AwsApiTimeout \in Nat
               /\ EmptyReceiveCooldown \in Nat /\ ReceiveErrorCooldown \in Nat
               /\ MaxBlocked \in Nat
  BY HealthAssumption

LEMMA LongestTimes ==
  /\ Longest("receive") = WaitTime
  /\ Longest("fail") = AwsApiTimeout
  /\ Longest("forward") = MaxBlocked
  /\ Longest("pause") = EmptyReceiveCooldown
  /\ Longest("cooldown") = ReceiveErrorCooldown
  /\ \A d \in Doings : Longest(d) \in Nat
<1>1. /\ Longest("receive") = WaitTime
      /\ Longest("fail") = AwsApiTimeout
      /\ Longest("forward") = MaxBlocked
      /\ Longest("pause") = EmptyReceiveCooldown
      /\ Longest("cooldown") = ReceiveErrorCooldown
  BY DEF Longest
<1> QED BY <1>1, Times DEF Doings

LEMMA LaterTimes ==
  \A t \in Nat : /\ Later(t) \in {t, t + 1}
                 /\ t <= Limit => Later(t) = t + 1
  BY Times DEF Later

(* How a reader begins what it does next.                                  *)
LEMMA BeginEffect ==
  ASSUME TypeInv, NEW r \in Readers, NEW what \in Doings, Begin(r, what)
  PROVE  /\ doing' \in [Readers -> Doings] /\ left' \in [Readers -> Nat]
         /\ doing'[r] = what /\ left'[r] = Longest(what)
         /\ \A s \in Readers \ {r} : doing'[s] = doing[s] /\ left'[s] = left[s]
         /\ failing' = failing /\ since' = since
  BY LongestTimes DEF Begin, TypeInv

(* The steps of a reader, by what it does before and afterwards.  The last *)
(* disjunct but one is the only one that renews the heartbeat.             *)
ReaderMoves(r) ==
  \E what \in Doings :
    /\ Begin(r, what)
    /\ \/ /\ doing[r] = "receive" /\ what = "forward" /\ age' = age
       \/ /\ doing[r] \in {"fail", "receive"} /\ what = "cooldown" /\ age' = age
          /\ doing[r] = "receive" => QueueOf(r) \in failing
       \/ /\ doing[r] \in {"pause", "cooldown"} /\ age' = age
          /\ what = IF QueueOf(r) \in failing THEN "fail" ELSE "receive"
       \/ /\ doing[r] \in {"receive", "forward"} /\ IsRoot(r) /\ age' = 0
          /\ \/ what = "pause"
             \/ what = IF QueueOf(r) \in failing THEN "fail" ELSE "receive"
       \/ /\ doing[r] \in {"receive", "forward"} /\ ~IsRoot(r) /\ age' = age
          /\ what = IF QueueOf(r) \in failing THEN "fail" ELSE "receive"

LEMMA ReaderStepMoves ==
  ASSUME NEW r \in Readers,
         \/ ReceiveEmpty(r) \/ ReceiveMessages(r) \/ Forwarded(r)
         \/ ReceiveFails(r) \/ Rested(r)
  PROVE  ReaderMoves(r)
<1> DEFINE next == IF QueueOf(r) \in failing THEN "fail" ELSE "receive"
<1>1. /\ next \in Doings /\ "pause" \in Doings /\ "forward" \in Doings
      /\ "cooldown" \in Doings
  BY DEF Doings
<1>2. CASE ReceiveEmpty(r) \/ Forwarded(r)
  <2>1. /\ doing[r] \in {"receive", "forward"}
        /\ age' = IF IsRoot(r) THEN 0 ELSE age
        /\ \/ IsRoot(r) /\ Begin(r, "pause")
           \/ Begin(r, next)
    BY <1>2 DEF ReceiveEmpty, Forwarded, Handled, Heartbeats, Poll
  <2>2. CASE IsRoot(r) /\ Begin(r, "pause")
    BY <1>1, <2>1, <2>2 DEF ReaderMoves
  <2>3. CASE Begin(r, next)
    BY <1>1, <2>1, <2>3 DEF ReaderMoves
  <2> QED BY <2>1, <2>2, <2>3
<1>3. CASE ReceiveMessages(r)
  BY <1>1, <1>3 DEF ReceiveMessages, ReaderMoves
<1>4. CASE ReceiveFails(r)
  BY <1>1, <1>4 DEF ReceiveFails, Failed, ReaderMoves
<1>5. CASE Rested(r)
  BY <1>1, <1>5 DEF Rested, Poll, ReaderMoves
<1> QED BY <1>2, <1>3, <1>4, <1>5

LEMMA InitTypes == Init => TypeInv
<1> SUFFICES ASSUME Init PROVE TypeInv
  OBVIOUS
<1>1. doing \in [Readers -> Doings]
  BY DEF Init, Doings
<1>2. \A r \in Readers : left[r] = Longest(doing[r]) /\ left[r] \in Nat
  BY <1>1, LongestTimes DEF Init
<1>3. left \in [Readers -> Nat] /\ \A r \in Readers : left[r] <= Longest(doing[r])
  BY <1>2 DEF Init
<1>4. since \in [Queues -> Nat] /\ age \in Nat /\ failing \in SUBSET Queues
  BY Times DEF Init, Recovery
<1> QED BY <1>1, <1>3, <1>4 DEF TypeInv

LEMMA NextTypes == TypeInv /\ [Next]_vars => TypeInv'
<1> SUFFICES ASSUME TypeInv, [Next]_vars PROVE TypeInv'
  OBVIOUS
<1>1. ASSUME NEW r \in Readers, ReaderMoves(r) PROVE TypeInv'
  <2>1. PICK what \in Doings : Begin(r, what) /\ age' \in {0, age}
    BY <1>1 DEF ReaderMoves
  <2>2. \A s \in Readers : left'[s] <= Longest(doing'[s])
    BY <2>1, BeginEffect, LongestTimes DEF TypeInv
  <2> QED BY <2>1, <2>2, BeginEffect DEF TypeInv
<1>2. ASSUME NEW q \in Queues, Break(q) \/ Repair(q) PROVE TypeInv'
  BY <1>2 DEF Break, Repair, TypeInv
<1>3. CASE Tick
  <2>1. \A r \in Readers : /\ left[r] - 1 \in Nat
                           /\ left[r] - 1 <= Longest(doing[r])
    BY <1>3, LongestTimes DEF Tick, TypeInv
  <2>2. \A t \in Nat : Later(t) \in Nat
    BY LaterTimes
  <2> QED BY <1>3, <2>1, <2>2 DEF Tick, TypeInv
<1>4. CASE UNCHANGED vars
  BY <1>4 DEF vars, TypeInv
<1> QED BY <1>1, <1>2, <1>3, <1>4, ReaderStepMoves DEF Next

-----------------------------------------------------------------------------
(* What a root has still to do, after what it does now, until it gives the *)
(* next heartbeat, if no further call fails.                               *)
Ahead(d) ==
  CASE d = "receive"  -> MaxBlocked
    [] d = "forward"  -> 0
    [] d = "pause"    -> WaitTime + MaxBlocked
    [] d = "cooldown" -> WaitTime + MaxBlocked
    [] d = "fail"     -> ReceiveErrorCooldown + WaitTime + MaxBlocked

ToGo(r) == left[r] + Ahead(doing[r])

(* The root of a queue that works gives its next heartbeat before the last *)
(* one is too old, or before the time to recover is over.  In the pause    *)
(* after an empty receive, which may be long, it is the former, whether    *)
(* the queue works or not: that is what a repair finds.                    *)
RootInTime(r) ==
  /\ doing[r] = "pause" => age + ToGo(r) <= Limit
  /\ QueueOf(r) \notin failing =>
       age + ToGo(r) <= Limit \/ since[QueueOf(r)] + ToGo(r) <= Recovery

InTime == \A r \in Readers : IsRoot(r) => RootInTime(r)

LEMMA AheadTimes ==
  /\ Ahead("receive") = MaxBlocked
  /\ Ahead("forward") = 0
  /\ Ahead("pause") = WaitTime + MaxBlocked
  /\ Ahead("cooldown") = WaitTime + MaxBlocked
  /\ Ahead("fail") = ReceiveErrorCooldown + WaitTime + MaxBlocked
  /\ \A d \in Doings : Ahead(d) \in Nat
<1>1. /\ Ahead("receive") = MaxBlocked
      /\ Ahead("forward") = 0
      /\ Ahead("pause") = WaitTime + MaxBlocked
      /\ Ahead("cooldown") = WaitTime + MaxBlocked
      /\ Ahead("fail") = ReceiveErrorCooldown + WaitTime + MaxBlocked
  BY DEF Ahead
<1> QED BY <1>1, Times DEF Doings

LEMMA ToGoType ==
  ASSUME TypeInv, NEW r \in Readers
  PROVE  /\ ToGo(r) \in Nat /\ left[r] \in Nat /\ age \in Nat
         /\ QueueOf(r) \in Queues /\ since[QueueOf(r)] \in Nat
         /\ left[r] <= ToGo(r)
<1>1. left[r] \in Nat /\ Ahead(doing[r]) \in Nat
  BY AheadTimes DEF TypeInv
<1>2. QueueOf(r) \in Queues
  BY DEF Readers, QueueOf
<1> QED BY <1>1, <1>2 DEF TypeInv, ToGo

LEMMA InitInTime == Round <= Limit /\ Init => InTime
<1> SUFFICES ASSUME Round <= Limit, Init, NEW r \in Readers PROVE RootInTime(r)
  BY DEF InTime
<1>1. doing[r] = IF QueueOf(r) \in failing THEN "fail" ELSE "receive"
  BY DEF Init
<1>2. QueueOf(r) \notin failing => age + ToGo(r) <= Limit
  <2> SUFFICES ASSUME QueueOf(r) \notin failing PROVE age + ToGo(r) <= Limit
    OBVIOUS
  <2>1. age = 0 /\ left[r] = WaitTime /\ doing[r] = "receive"
    BY <1>1, LongestTimes DEF Init
  <2> QED BY <2>1, AheadTimes, Times DEF ToGo, Round
<1> QED BY <1>1, <1>2 DEF RootInTime

(* A step of the root itself.                                              *)
LEMMA RootMoves ==
  ASSUME Round <= Limit, TypeInv, NEW r \in Readers, IsRoot(r), RootInTime(r),
         ReaderMoves(r)
  PROVE  RootInTime(r)'
<1>1. PICK what \in Doings :
        /\ Begin(r, what)
        /\ \/ /\ doing[r] = "receive" /\ what = "forward" /\ age' = age
           \/ /\ doing[r] \in {"fail", "receive"} /\ what = "cooldown" /\ age' = age
              /\ doing[r] = "receive" => QueueOf(r) \in failing
           \/ /\ doing[r] \in {"pause", "cooldown"} /\ age' = age
              /\ what = IF QueueOf(r) \in failing THEN "fail" ELSE "receive"
           \/ /\ doing[r] \in {"receive", "forward"} /\ IsRoot(r) /\ age' = 0
              /\ \/ what = "pause"
                 \/ what = IF QueueOf(r) \in failing THEN "fail" ELSE "receive"
  BY DEF ReaderMoves
<1>2. /\ doing'[r] = what /\ failing' = failing /\ since' = since
      /\ ToGo(r)' = Longest(what) + Ahead(what)
  BY <1>1, BeginEffect DEF ToGo
<1>3. /\ ToGo(r) \in Nat /\ left[r] \in Nat /\ age \in Nat
      /\ since[QueueOf(r)] \in Nat
      /\ ToGo(r) = left[r] + Ahead(doing[r])
  BY ToGoType DEF ToGo
(* A step either renews the heartbeat or leaves no more to do.             *)
<1>4. CASE age' = 0 /\ what \in {"pause", "receive"}
  <2>1. age' + ToGo(r)' <= Limit
    BY <1>2, <1>4, LongestTimes, AheadTimes, Times DEF Round
  <2> QED BY <1>2, <2>1 DEF RootInTime
<1>5. CASE QueueOf(r) \in failing /\ what # "pause"
  BY <1>2, <1>5 DEF RootInTime
<1>6. CASE QueueOf(r) \notin failing /\ age' = age /\ what # "pause"
  <2>1. \/ doing[r] = "receive" /\ what = "forward"
        \/ doing[r] = "fail" /\ what = "cooldown"
        \/ doing[r] \in {"pause", "cooldown"} /\ what = "receive"
        \/ doing[r] \in {"receive", "forward"} /\ age = 0 /\ what = "receive"
    BY <1>1, <1>6
  <2>2. CASE ~(age' = 0 /\ what \in {"pause", "receive"})
    <3>1. \/ doing[r] = "receive" /\ what = "forward"
          \/ doing[r] = "fail" /\ what = "cooldown"
          \/ doing[r] \in {"pause", "cooldown"} /\ what = "receive"
      BY <1>6, <2>1, <2>2
    <3>2. ToGo(r)' <= ToGo(r) /\ ToGo(r)' \in Nat
      BY <1>2, <1>3, <3>1, LongestTimes, AheadTimes, Times
    <3>3. age + ToGo(r) <= Limit \/ since[QueueOf(r)] + ToGo(r) <= Recovery
      BY <1>6 DEF RootInTime
    <3>4. age' + ToGo(r)' <= Limit \/ since'[QueueOf(r)] + ToGo(r)' <= Recovery
      BY <1>2, <1>3, <1>6, <3>2, <3>3, Times DEF Recovery
    <3> QED BY <1>2, <1>6, <3>4 DEF RootInTime
  <2> QED BY <1>4, <2>2
<1> QED
  BY <1>1, <1>4, <1>5, <1>6

LEMMA NextInTime ==
  ASSUME Round <= Limit
  PROVE  TypeInv /\ InTime /\ [Next]_vars => InTime'
<1> SUFFICES ASSUME TypeInv, InTime, [Next]_vars, NEW s \in Readers, IsRoot(s)
             PROVE  RootInTime(s)'
  BY DEF InTime
<1>a. /\ ToGo(s) \in Nat /\ left[s] \in Nat /\ age \in Nat
      /\ QueueOf(s) \in Queues /\ since[QueueOf(s)] \in Nat
      /\ RootInTime(s) /\ Recovery \in Nat /\ Limit \in Nat
  BY ToGoType, Times DEF InTime, Recovery
<1>1. ASSUME NEW r \in Readers, ReaderMoves(r) PROVE RootInTime(s)'
  <2>1. CASE r = s
    BY <1>1, <1>a, <2>1, RootMoves
  <2>2. CASE r # s
    <3>1. PICK what \in Doings : Begin(r, what) /\ age' \in {0, age}
      BY <1>1 DEF ReaderMoves
    <3>2. /\ doing'[s] = doing[s] /\ ToGo(s)' = ToGo(s)
          /\ failing' = failing /\ since' = since
      BY <2>2, <3>1, BeginEffect DEF ToGo
    <3>3. age' + ToGo(s)' <= age + ToGo(s)
      BY <1>a, <3>1, <3>2
    <3>4. age + ToGo(s) <= Limit => age' + ToGo(s)' <= Limit
      BY <1>a, <3>1, <3>2
    <3> QED BY <1>a, <3>2, <3>4 DEF RootInTime
  <2> QED BY <2>1, <2>2
<1>2. ASSUME NEW q \in Queues, Break(q) PROVE RootInTime(s)'
  <2>1. /\ UNCHANGED <<age, doing, left>> /\ failing' = failing \cup {q}
        /\ \A p \in Queues \ {q} : since'[p] = since[p]
    BY <1>2 DEF Break, TypeInv
  <2> QED BY <1>a, <2>1 DEF RootInTime, ToGo
<1>3. ASSUME NEW q \in Queues, Repair(q) PROVE RootInTime(s)'
  <2>1. /\ UNCHANGED <<age, doing, left>> /\ failing' = failing \ {q}
        /\ since'[q] = 0
        /\ \A p \in Queues \ {q} : since'[p] = since[p]
    BY <1>3 DEF Repair, TypeInv
  <2>2. CASE QueueOf(s) # q \/ doing[s] = "pause"
    BY <1>a, <2>1, <2>2 DEF RootInTime, ToGo
  <2>3. CASE QueueOf(s) = q /\ doing[s] # "pause"
    <3>1. doing[s] \in Doings /\ left[s] <= Longest(doing[s])
      BY DEF TypeInv
    <3>2. ToGo(s) <= Recovery
      BY <1>a, <2>3, <3>1, LongestTimes, AheadTimes, Times DEF ToGo, Recovery, Doings
    <3>3. since'[QueueOf(s)] + ToGo(s)' <= Recovery /\ doing'[s] # "pause"
      BY <1>a, <2>1, <2>3, <3>2 DEF ToGo
    <3> QED BY <3>3 DEF RootInTime
  <2> QED BY <2>2, <2>3
<1>4. CASE Tick
  <2>1. /\ doing' = doing /\ failing' = failing
        /\ age' \in {age, age + 1}
        /\ since'[QueueOf(s)] \in {since[QueueOf(s)], since[QueueOf(s)] + 1}
    BY <1>4, <1>a, LaterTimes DEF Tick
  <2>2. left'[s] = left[s] - 1 /\ Ahead(doing[s]) \in Nat
    BY <1>4, AheadTimes DEF Tick, TypeInv
  <2>3. ToGo(s)' = ToGo(s) - 1
    BY <1>a, <2>1, <2>2 DEF ToGo
  <2>4. /\ age + ToGo(s) <= Limit => age' + ToGo(s)' <= Limit
        /\ since[QueueOf(s)] + ToGo(s) <= Recovery =>
             since'[QueueOf(s)] + ToGo(s)' <= Recovery
    BY <1>a, <2>1, <2>3
  <2> QED BY <1>a, <2>1, <2>4 DEF RootInTime
<1>5. CASE UNCHANGED vars
  BY <1>a, <1>5 DEF vars, RootInTime, ToGo
<1> QED BY <1>1, <1>2, <1>3, <1>4, <1>5, ReaderStepMoves DEF Next

(* No false alarm: one queue whose calls have worked for long enough keeps *)
(* the answer at 200, whatever becomes of the others, if the limit of the  *)
(* handler leaves time for a cooldown, a long poll and the wait for        *)
(* publishCh.  With the 30s of the handler, the 20s of a long poll and a   *)
(* cooldown of some seconds the rest is what publishCh may block; no       *)
(* smaller limit would do.                                                 *)
THEOREM QuietWhileWorking ==
  ASSUME Round <= Limit
  PROVE  Spec => []NoFalseAlarm
<1>1. TypeInv /\ InTime => NoFalseAlarm
  <2> SUFFICES ASSUME TypeInv, InTime,
                      NEW q \in Queues \ failing, since[q] > Recovery
               PROVE  Status = 200
    BY DEF NoFalseAlarm
  <2>1. PICK r \in Readers : QueueOf(r) = q /\ IsRoot(r)
    <3>1. /\ <<q, "root">> \in Readers /\ QueueOf(<<q, "root">>) = q
          /\ IsRoot(<<q, "root">>)
      BY DEF Readers, QueueOf, IsRoot
    <3> QED BY <3>1
  <2>2. /\ ToGo(r) \in Nat /\ age \in Nat /\ since[q] \in Nat
        /\ age + ToGo(r) <= Limit \/ since[q] + ToGo(r) <= Recovery
    BY <2>1, ToGoType DEF InTime, RootInTime
  <2>3. age <= Limit
    BY <2>2, Times DEF Recovery
  <2> QED BY <2>2, <2>3, Times DEF Status
<1> QED
  BY <1>1, InitTypes, NextTypes, InitInTime, NextInTime, PTL DEF Spec

-----------------------------------------------------------------------------
(* While a queue fails its root can have one more success, of the receive  *)
(* that the failure met or of the messages it was forwarding, and so one   *)
(* more heartbeat, after WaitTime and MaxBlocked at the latest.            *)
LastRound(q) ==
  LET r == <<q, "root">> IN
  q \in failing =>
    /\ doing[r] = "receive" => since[q] + left[r] <= WaitTime
    /\ doing[r] = "forward" => since[q] + left[r] <= WaitTime + MaxBlocked
    /\ age > Limit \/ since[q] <= age + WaitTime + MaxBlocked

LEMMA NextLastRound ==
  ASSUME NEW q, Queues = {q}, TypeInv, LastRound(q), [Next]_vars
  PROVE  LastRound(q)'
<1> DEFINE r == <<q, "root">>
<1>a. /\ r \in Readers /\ IsRoot(r) /\ QueueOf(r) = q /\ q \in Queues
      /\ \A s \in Readers \ {r} : ~IsRoot(s) /\ QueueOf(s) = q
  BY DEF Readers, IsRoot, QueueOf
<1>b. q \in failing => /\ doing[r] = "receive" => since[q] + left[r] <= WaitTime
                       /\ doing[r] = "forward" => since[q] + left[r] <= WaitTime + MaxBlocked
                       /\ age > Limit \/ since[q] <= age + WaitTime + MaxBlocked
  BY DEF LastRound
<1> SUFFICES ASSUME q \in failing'
             PROVE  /\ doing'[r] = "receive" => since'[q] + left'[r] <= WaitTime
                    /\ doing'[r] = "forward" => since'[q] + left'[r] <= WaitTime + MaxBlocked
                    /\ age' > Limit \/ since'[q] <= age' + WaitTime + MaxBlocked
  BY DEF LastRound
<1> HIDE DEF r
<1>c. /\ since[q] \in Nat /\ left[r] \in Nat /\ age \in Nat
      /\ left[r] <= Longest(doing[r])
      /\ WaitTime \in Nat /\ MaxBlocked \in Nat /\ Limit \in Nat
  BY <1>a, Times DEF TypeInv
<1>1. ASSUME NEW s \in Readers, s # r, ReaderMoves(s)
      PROVE  UNCHANGED <<since, failing, age>> /\ doing'[r] = doing[r] /\ left'[r] = left[r]
  <2>1. PICK what \in Doings : Begin(s, what) /\ age' = age
    BY <1>a, <1>1 DEF ReaderMoves
  <2> QED BY <1>1, <1>a, <2>1, BeginEffect
<1>2. CASE ReaderMoves(r)
  <2>1. PICK what \in Doings :
          /\ Begin(r, what)
          /\ \/ doing[r] = "receive" /\ what = "forward" /\ age' = age
             \/ what = "cooldown" /\ age' = age
             \/ what = "fail" /\ age' = age
             \/ doing[r] \in {"receive", "forward"} /\ what \in {"pause", "fail"} /\ age' = 0
    <3>1. q \in failing
      BY <1>2 DEF ReaderMoves, Begin
    <3> QED BY <1>2, <1>a, <3>1 DEF ReaderMoves
  <2>2. /\ doing'[r] = what /\ left'[r] = Longest(what)
        /\ failing' = failing /\ since' = since
    BY <1>a, <2>1, BeginEffect
  <2>3. CASE doing[r] = "receive" /\ what = "forward" /\ age' = age
    BY <1>b, <1>c, <2>2, <2>3, LongestTimes
  <2>4. CASE what \in {"cooldown", "fail"} /\ age' = age
    BY <1>b, <2>2, <2>4
  <2>5. CASE doing[r] \in {"receive", "forward"} /\ what \in {"pause", "fail"} /\ age' = 0
    <3>1. since[q] <= WaitTime + MaxBlocked
      BY <1>b, <1>c, <2>2, <2>5
    <3> QED BY <1>c, <2>2, <2>5, <3>1
  <2> QED BY <2>1, <2>3, <2>4, <2>5
<1>3. ASSUME NEW p \in Queues, Break(p) \/ Repair(p)
      PROVE  /\ doing'[r] = "receive" => since'[q] + left'[r] <= WaitTime
             /\ doing'[r] = "forward" => since'[q] + left'[r] <= WaitTime + MaxBlocked
             /\ age' > Limit \/ since'[q] <= age' + WaitTime + MaxBlocked
  <2>1. since'[q] = 0 /\ UNCHANGED <<age, doing, left>>
    BY <1>3 DEF Break, Repair, TypeInv
  <2> QED BY <1>c, <2>1, LongestTimes
<1>4. CASE Tick
  <2>1. /\ doing' = doing /\ failing' = failing /\ left'[r] = left[r] - 1
        /\ since'[q] \in {since[q], since[q] + 1}
        /\ age' \in {age, age + 1}
        /\ age <= Limit => age' = age + 1
    BY <1>4, <1>a, <1>c, LaterTimes DEF Tick
  <2>2. /\ doing[r] = "receive" => since[q] + left[r] <= WaitTime
        /\ doing[r] = "forward" => since[q] + left[r] <= WaitTime + MaxBlocked
        /\ age > Limit \/ since[q] <= age + WaitTime + MaxBlocked
    BY <1>b, <2>1
  <2>3. age' > Limit \/ since'[q] <= age' + WaitTime + MaxBlocked
    BY <1>c, <2>1, <2>2
  <2>4. since'[q] + left'[r] <= since[q] + left[r]
    BY <1>c, <2>1
  <2> QED BY <1>c, <2>1, <2>2, <2>3, <2>4
<1>5. CASE UNCHANGED vars
  BY <1>b, <1>5 DEF vars
<1> QED
  BY <1>1, <1>2, <1>3, <1>4, <1>5, <1>b, <1>a, ReaderStepMoves DEF Next

(* With a single queue a broken receiver is reported: when its calls have  *)
(* failed for as long as the round that the failure met and the limit of   *)
(* the handler, the answer is 500 and stays it until they work again.      *)
(* (With two queues it is not so.)                                         *)
THEOREM BreakdownReported ==
  ASSUME NEW q, Queues = {q}
  PROVE  Spec => []BrokenReported
<1>1. Init => LastRound(q)
  <2> SUFFICES ASSUME Init, q \in failing PROVE LastRound(q)
    BY DEF LastRound
  <2>1. /\ <<q, "root">> \in Readers /\ QueueOf(<<q, "root">>) = q
        /\ since[q] = 0 /\ age = 0
    BY DEF Init, Readers, QueueOf
  <2>2. doing[<<q, "root">>] = "fail"
    BY <2>1 DEF Init
  <2> QED BY <2>1, <2>2, Times DEF LastRound
<1>2. TypeInv /\ LastRound(q) /\ [Next]_vars => LastRound(q)'
  BY NextLastRound
<1>3. TypeInv /\ LastRound(q) => BrokenReported
  <2> SUFFICES ASSUME TypeInv, LastRound(q),
                      NEW p \in failing, since[p] > Detection
               PROVE  age > Limit
    BY DEF BrokenReported, Status
  <2>1. p = q /\ since[q] \in Nat /\ age \in Nat
    BY DEF TypeInv
  <2>2. age > Limit \/ since[q] <= age + WaitTime + MaxBlocked
    BY <2>1 DEF LastRound
  <2> QED BY <2>1, <2>2, Times DEF Detection
<1> QED BY <1>1, <1>2, <1>3, InitTypes, NextTypes, PTL DEF Spec
=============================================================================

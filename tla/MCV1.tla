-------------------------------- MODULE MCV1 --------------------------------
(* Two queues: one has messages, the other one is idle.                    *)
EXTENDS V1, TLC

CONSTANTS busy, idle, m1, m2, r1, r2, r3, w1, w2, w3

OfQueue == [g \in Msg \cup Readers \cup Writers |-> IF g \in {r2, w3} THEN idle ELSE busy]

InOrder == <<idle, busy>>
=============================================================================

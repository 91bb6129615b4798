------------------------------ MODULE MCJanitor ------------------------------
(* The janitors of a queue on small instances.                             *)
EXTENDS JanitorSpec

CONSTANTS m1, m2, m3, root, s1, s2

\* The delete pool does not look at payload sizes.
SizeOf == [m \in Msg |-> 1]

\* SQS hands out m1 twice.
Arriving == [id : Msg, rcpt : {1}] \cup [id : {m1}, rcpt : {2}]
=============================================================================

----------------------------- MODULE MCPublisher -----------------------------
(* The publishers of a queue on small instances.                           *)
EXTENDS PublisherSpec, TLC

CONSTANTS m1, m2, m3, root, s1, s2

\* Payload sizes, to which the padding adds 1 each.  With a limit of 4, two
\* deliveries of m1 fit together and fill a batch exactly, m2 fills one by
\* itself, and m3 would fit only without its padding: the readers refuse it.
SizeOf == m1 :> 1 @@ m2 :> 3 @@ m3 :> 4

\* SQS hands out m1 twice.
Arriving == [id : {m1, m2, m3}, rcpt : {1}] \cup [id : {m1}, rcpt : {2}]
=============================================================================

------------------------------- MODULE MCReader -------------------------------
(* The readers of a queue on small instances.                              *)
EXTENDS ReaderSpec

CONSTANTS m1, m2, root, s1, s2

\* Both messages can be published; MCForwarder has one that newMessage refuses.
SizeOf == [m \in Msg |-> CASE m = m1 -> 1 [] m = m2 -> 2]
=============================================================================

----------------------------- MODULE MCForwarder -----------------------------
(* One queue with all its goroutines on small instances.                   *)
EXTENDS Forwarder, TLC

CONSTANTS m1, m2, m3, root, sibling

\* m1 and m2 fit into a batch together and fill it; m3 fits nowhere once it is
\* padded.
SizeOf == [m \in Msg |-> CASE m = m1 -> 1 [] m = m2 -> 2 [] m = m3 -> 5]
=============================================================================

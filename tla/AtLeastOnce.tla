----------------------------- MODULE AtLeastOnce -----------------------------
(***************************************************************************)
(* What the forwarder promises, whatever fails: a message leaves SQS only  *)
(* after SNS has accepted it, and SQS keeps or hands out again all others. *)
(* Publishing a message more than once is allowed.                         *)
(***************************************************************************)
CONSTANT Message

VARIABLES
  queued,     \* the messages SQS still has
  published   \* the messages SNS has accepted at least once

AInit == queued = Message /\ published = {}

Publish(S) == published' = published \cup S /\ UNCHANGED queued

Delete(S) == S \subseteq published /\ queued' = queued \ S /\ UNCHANGED published

ANext == \E S \in SUBSET Message : Publish(S) \/ Delete(S)

ASpec == AInit /\ [][ANext]_<<queued, published>>
=============================================================================

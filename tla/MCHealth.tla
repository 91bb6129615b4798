------------------------------- MODULE MCHealth -------------------------------
(* The health check, in units of five seconds.                             *)
EXTENDS Health

CONSTANTS q1, q2

=============================================================================

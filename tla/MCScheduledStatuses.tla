------------------------ MODULE MCScheduledStatuses ------------------------
(* Processes p and q, a schedule s and one without params, b. *)
EXTENDS ScheduledStatuses

CONSTANTS p, q, s, b
=============================================================================

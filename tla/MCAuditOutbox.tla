---------------------------- MODULE MCAuditOutbox ----------------------------
(***************************************************************************)
(* A small instance of AuditOutbox, for all six outboxes: two server       *)
(* processes, batches of up to two rows, so that a row may wait behind a   *)
(* failing one, and few attempts.                                          *)
(***************************************************************************)
EXTENDS AuditOutbox
=============================================================================

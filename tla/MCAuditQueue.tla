---------------------------- MODULE MCAuditQueue ----------------------------
(* Instances of AuditQueue for TLC. *)
EXTENDS AuditQueue
=============================================================================

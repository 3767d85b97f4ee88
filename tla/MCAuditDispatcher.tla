-------------------------- MODULE MCAuditDispatcher --------------------------
(* An instance of AuditDispatcher for TLC. *)
EXTENDS AuditDispatcher

ThreeSeverities == 0..2

=============================================================================

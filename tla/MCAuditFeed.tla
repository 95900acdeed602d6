------------------------------- MODULE MCAuditFeed -------------------------------
(* Instances of AuditFeed for TLC. *)
EXTENDS AuditFeed, TLC

Symmetry == Permutations(Conns)

=============================================================================

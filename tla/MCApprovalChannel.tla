--------------------------- MODULE MCApprovalChannel ---------------------------
(* Instances of ApprovalChannel for TLC. *)
EXTENDS ApprovalChannel, TLC

Symmetry == Permutations(Conns) \cup Permutations(Reqs)

=============================================================================

------------------------------ MODULE MCSupervisor ------------------------------
(* The supervisor for TLC: servers, targets and callers are interchangeable. *)
EXTENDS Supervisor, TLC

Symmetry == Permutations(Names) \cup Permutations(Targets) \cup Permutations(Callers)

=============================================================================

---------------------------- MODULE MCRunRuntime ----------------------------
(* RunRuntime on small instances. *)
EXTENDS RunRuntime, TLC

\* Replicas are interchangeable, and so are runs before they begin.
ReplicaSymmetry == Permutations(Replicas)

ThreadSymmetry == Permutations(Replicas) \cup Permutations(Runs)

=============================================================================

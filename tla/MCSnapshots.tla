---------------------------- MODULE MCSnapshots ----------------------------
(* Small instances of Snapshots.                                           *)
EXTENDS Snapshots, TLC

\* Handler goroutines are interchangeable.
Symmetry == Permutations(Requests)

=============================================================================

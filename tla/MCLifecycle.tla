---------------------------- MODULE MCLifecycle ----------------------------
(* Small instances of Lifecycle.                                          *)
EXTENDS Lifecycle, TLC

\* Handler goroutines are interchangeable.
Symmetry == Permutations(Requests)

=============================================================================

----------------------------- MODULE MCRegistry -----------------------------
(* A small instance of Registry.                                           *)
EXTENDS Registry

=============================================================================

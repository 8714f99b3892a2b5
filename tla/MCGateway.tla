----------------------------- MODULE MCGateway -----------------------------
(* Small instances of Gateway.                                            *)
EXTENDS Gateway, TLC

CONSTANTS h1, h2

\* One host is larger, so that pickHost prefers it until it fills up.
MCSlots == (h1 :> 1) @@ (h2 :> 2)

=============================================================================

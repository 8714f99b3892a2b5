----------------------------- MODULE Allocator -----------------------------
(***************************************************************************)
(* What a registry of exclusive resources promises, whatever it stores: a  *)
(* resource is granted only while nobody holds it, and only its holder's   *)
(* release gives it back.                                                  *)
(***************************************************************************)
CONSTANTS Owners, Resources

VARIABLE held  \* pairs <<resource, owner>>

HeldBy(o) == {h \in held : h[2] = o}
FreeResources == {x \in Resources : \A h \in held : h[1] # x}

Init == held = {}

\* An owner is granted a set of free resources at once.
Grant(o) == \E R \in SUBSET FreeResources :
                held' = held \cup {<<x, o>> : x \in R}

\* An owner gives back some or all of what it holds.
Release(o) == \E H \in SUBSET HeldBy(o) : held' = held \ H

Next == \E o \in Owners : Grant(o) \/ Release(o)

Spec == Init /\ [][Next]_held

\* A resource has one holder.
OneHolder == \A g, h \in held : g[1] = h[1] => g = h
=============================================================================

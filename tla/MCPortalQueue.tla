---------------------------- MODULE MCPortalQueue ----------------------------
(* Instances of PortalQueue for TLC. *)
EXTENDS PortalQueue, TLC

CONSTANTS leader, m1, p1, p2, h1, h2, h3

Symmetric == Permutations({p1, p2}) \cup Permutations({h1, h2})

=============================================================================

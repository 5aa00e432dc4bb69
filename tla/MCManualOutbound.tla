--------------------------- MODULE MCManualOutbound ---------------------------
(* Instances of ManualOutbound for TLC. *)
EXTENDS ManualOutbound

CONSTANTS r1, r2, r3

\* Three requests, two of them the same text; one of the three is a citation.
SameText == [r \in Requests |-> IF r = r3 THEN "citation" ELSE "hello"]
MixedKinds == [r \in Requests |-> IF r = r3 THEN "citation" ELSE "text"]

=============================================================================

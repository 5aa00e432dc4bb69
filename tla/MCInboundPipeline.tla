--------------------------- MODULE MCInboundPipeline ---------------------------
(* Instances of InboundPipeline for TLC. *)
EXTENDS InboundPipeline, TLC

CONSTANTS c1, p1, p2, t1

\* Every message comes from one candidate: the harder case, since turns then
\* share the candidate's pause flag and its newest reply.
OneSender == [m \in Messages |-> c1]

\* One worker process, as start.sh starts it: its ticks die together.
OneHost == [t \in Ticks |-> p1]

\* Two processes, as during a redeploy: each tick can die alone.
TwoHosts == [t \in Ticks |-> IF t = t1 THEN p1 ELSE p2]

\* Messages of one sender, and ticks of one process, are interchangeable.
Interchangeable == Permutations(Messages) \cup Permutations(Ticks)

=============================================================================

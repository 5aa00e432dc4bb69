------------------------------ MODULE TurnDelivery ------------------------------
(***************************************************************************)
(* What the inbound pipeline promises for every WhatsApp message it is     *)
(* handed: the message is admitted once, answered at most once, answered   *)
(* only while its turn is open, and its turn is closed for good.           *)
(* InboundPipeline implements this specification.                          *)
(***************************************************************************)
EXTENDS Naturals

CONSTANT Messages

VARIABLES
  phase,     \* [Messages -> Phase], where each turn stands
  replies    \* [Messages -> Nat], replies the candidate can have received

Phase == {"unknown", "open", "closed"}

vars == <<phase, replies>>

TypeOK ==
  /\ phase \in [Messages -> Phase]
  /\ replies \in [Messages -> Nat]

Init ==
  /\ phase = [m \in Messages |-> "unknown"]
  /\ replies = [m \in Messages |-> 0]

\* The turn becomes durable.
Admit(m) ==
  /\ phase[m] = "unknown"
  /\ phase' = [phase EXCEPT ![m] = "open"]
  /\ UNCHANGED replies

\* The one reply of the turn reaches the provider.
Answer(m) ==
  /\ phase[m] = "open"
  /\ replies[m] = 0
  /\ replies' = [replies EXCEPT ![m] = 1]
  /\ UNCHANGED phase

\* The turn is over, answered or not.
Close(m) ==
  /\ phase[m] = "open"
  /\ phase' = [phase EXCEPT ![m] = "closed"]
  /\ UNCHANGED replies

Next == \E m \in Messages : Admit(m) \/ Answer(m) \/ Close(m)

Spec == Init /\ [][Next]_vars

=============================================================================

------------------------ MODULE MCDispatchConfirmations ------------------------
(* Instances of DispatchConfirmations for TLC. *)
EXTENDS DispatchConfirmations, TLC

CONSTANTS a1, a2, t1, t2, m1, m2

\* A novelty or a written confirmation, and a confirmation with the button.
EveryKind == [m \in {m1, m2} |->
               IF m = m1 THEN {<<"NOVELTY", TRUE>>, <<"CONFIRM", FALSE>>}
               ELSE {<<"CONFIRM", TRUE>>}]

\* One worker to ask, and one who said no and can be asked again.
OneSaidNo == [a \in {a1, a2} |-> IF a = a1 THEN "ASSIGNED" ELSE "NO_CONFIRMO"]

Interchangeable == Permutations({t1, t2})

=============================================================================

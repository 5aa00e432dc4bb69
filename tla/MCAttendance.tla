----------------------------- MODULE MCAttendance -----------------------------
(* Instances of Attendance for TLC. *)
EXTENDS Attendance, TLC

CONSTANTS c1, r1, r2, r3, r4

\* Half an hour before the start, and near the planned end.
EarlyAndLate == {450 * Minute + 30, 900 * Minute}

\* Two marks of the worker; coordination makes the others, ends of breaks
\* among them.
AnyMark == [r \in {r1, r2} |-> MarkType \ {"BREAK_END"}]
EitherKey == Permutations({r1, r2})
FewForms == {{"ARRIVAL", "DEPARTURE"}, {"BREAK_END"}}

\* Before the start, just after it, in the morning and near the planned end.
FourMoments == {450 * Minute, 490 * Minute, 600 * Minute, 900 * Minute}

\* A whole day of the worker, and one mark more, of any type.
WholeDay == [r \in {r1, r2, r3, r4} |-> MarkType]
AnyKey == Permutations({r1, r2, r3, r4})

=============================================================================

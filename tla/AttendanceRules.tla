---------------------------- MODULE AttendanceRules ----------------------------
(***************************************************************************)
(* The arithmetic of a workday: which moments a mark may have and how many *)
(* minutes a timeline is worth.  A moment is a number of seconds after the *)
(* local midnight that opens the service date.                             *)
(***************************************************************************)
EXTENDS Integers

\* A mark that was not made, or a planned end that was not given.
Missing == -1

Recorded(m) == m # Missing

Minute == 60
Day == 1440 * Minute
ArrivalWindow == 480 * Minute

\* In minutes.
StandardWorkday == 420
StandardBreak == 60
IncompleteBreakPenalty == 90

Earlier(a, b) == IF a <= b THEN a ELSE b
Later(a, b) == IF a <= b THEN b ELSE a

\* Whole minutes: each span of a day is rounded down on its own.
MinutesBetween(from, to) == Later(0, (to - from) \div Minute)

Clamp(m, low, high) == IF m < low THEN low ELSE Earlier(m, high)

-----------------------------------------------------------------------------
(* What a timeline [arrival, breakStart, breakEnd, departure] is worth *)

\* Time before the planned start counts only when coordination recognizes it.
EffectiveStart(arrival, start, recognizeEarly) ==
  IF recognizeEarly \/ arrival >= start THEN arrival ELSE start

GrossMinutes(t, start, recognizeEarly) ==
  MinutesBetween(EffectiveStart(t.arrival, start, recognizeEarly), t.departure)

\* A break that was never ended costs a fixed penalty; the others cost what
\* they lasted inside the paid span.
UnpaidBreak(t, start, recognizeEarly) ==
  LET from == EffectiveStart(t.arrival, start, recognizeEarly)
      inside(m) == Clamp(m, from, t.departure)
  IN  CASE ~Recorded(t.breakStart) -> 0
        [] Recorded(t.breakStart) /\ ~Recorded(t.breakEnd) ->
             Earlier(IncompleteBreakPenalty, GrossMinutes(t, start, recognizeEarly))
        [] OTHER -> MinutesBetween(inside(t.breakStart), inside(t.breakEnd))

WorkedMinutes(t, start, recognizeEarly) ==
  Later(0, GrossMinutes(t, start, recognizeEarly) - UnpaidBreak(t, start, recognizeEarly))

OrdinaryMinutes(worked) == Earlier(worked, StandardWorkday)
OvertimeMinutes(worked) == Later(0, worked - StandardWorkday)

\* The timelines the calculation does not throw on.  A missing arrival reaches
\* it as null and is read as the epoch, before every other moment.
Calculable(t) ==
  /\ t.departure >= t.arrival
  /\ Recorded(t.breakEnd) => Recorded(t.breakStart) /\ t.breakEnd >= t.breakStart

-----------------------------------------------------------------------------
(* When a mark may be made *)

\* An end that is not after the start, or more than a day after it, is ignored.
ValidEnd(end, start) ==
  IF Recorded(end) /\ end > start /\ end - start <= Day THEN end ELSE Missing

\* The widest valid end, of the session and of the schedule.
PlannedEnd(start, sessionEnd, scheduledEnd) ==
  Later(ValidEnd(sessionEnd, start), ValidEnd(scheduledEnd, start))

OperationalWindow(start, sessionEnd, scheduledEnd, arrival) ==
  LET planned   == PlannedEnd(start, sessionEnd, scheduledEnd)
      derived   == ~Recorded(planned)
      end       == IF derived THEN start + (StandardWorkday + StandardBreak) * Minute ELSE planned
      overnight == end >= Day
  IN  [opens   |-> IF Recorded(arrival) THEN Earlier(arrival, start) ELSE start,
       end     |-> end,
       closes  |-> IF overnight THEN Earlier(start + Day, end + (end - start)) ELSE Day,
       derived |-> derived]

BreakStartAllowed(w, m) == w.opens <= m /\ m < (IF w.derived THEN w.closes ELSE w.end)
BreakEndAllowed(w, m) == w.opens <= m /\ m < w.closes
DepartureAllowed(w, m) == w.opens <= m /\ m < w.closes

ArrivalAllowed(start, m) == 0 <= m /\ m <= start + ArrivalWindow

\* What coordination may write by hand.
ValidTimeline(t, w) ==
  LET window == IF Recorded(t.arrival) THEN [w EXCEPT !.opens = Earlier(t.arrival, w.opens)] ELSE w
      after(m) == Recorded(m) /\ Recorded(t.arrival) => m >= t.arrival
  IN  /\ Recorded(t.arrival) => 0 <= t.arrival /\ t.arrival < Day
      /\ after(t.departure) /\ after(t.breakStart) /\ after(t.breakEnd)
      /\ Recorded(t.breakStart) /\ Recorded(t.breakEnd) => t.breakEnd >= t.breakStart
      /\ Recorded(t.departure) /\ Recorded(t.breakStart) => t.breakStart <= t.departure
      /\ Recorded(t.departure) /\ Recorded(t.breakEnd) => t.breakEnd <= t.departure
      /\ Recorded(t.breakStart) => BreakStartAllowed(window, t.breakStart)
      /\ Recorded(t.breakEnd) => BreakEndAllowed(window, t.breakEnd)
      /\ Recorded(t.departure) => DepartureAllowed(window, t.departure)

=============================================================================

------------------------ MODULE AttendanceRules_proofs -------------------------
(***************************************************************************)
(* What the arithmetic of a workday guarantees, for any moments.           *)
(***************************************************************************)
EXTENDS AttendanceRules, TLAPS

Moments == Nat \cup {Missing}

Timelines ==
  [arrival : Moments, breakStart : Moments, breakEnd : Moments, departure : Moments]

-----------------------------------------------------------------------------
(* The helpers *)

\* Rounding down: monotone, and a span is at most a minute more than its parts.
LEMMA WholeMinutes ==
  ASSUME NEW x \in Int, NEW y \in Int
  PROVE  /\ x \div Minute \in Int
         /\ x >= 0 => x \div Minute >= 0
         /\ x < 0 => x \div Minute < 0
         /\ x <= y => x \div Minute <= y \div Minute
         /\ x \div Minute + y \div Minute <= (x + y) \div Minute
         /\ (x + y) \div Minute <= x \div Minute + y \div Minute + 1
BY DEF Minute

LEMMA SpanFacts ==
  ASSUME NEW from \in Int, NEW to \in Int
  PROVE  /\ MinutesBetween(from, to) \in Nat
         /\ from <= to => MinutesBetween(from, to) = (to - from) \div Minute
         /\ to <= from => MinutesBetween(from, to) = 0
<1>1. to - from \in Int
  OBVIOUS
<1>2. /\ (to - from) \div Minute \in Int
      /\ to - from >= 0 => (to - from) \div Minute >= 0
      /\ to - from < 0 => (to - from) \div Minute < 0
  BY <1>1, WholeMinutes
<1>3. 0 \div Minute = 0
  BY DEF Minute
<1> QED BY <1>2, <1>3 DEF MinutesBetween, Later

\* A longer span is worth no less, and two that meet at most a minute less
\* than the whole.
LEMMA SpansCompare ==
  ASSUME NEW a \in Int, NEW b \in Int, NEW c \in Int, a <= b, b <= c
  PROVE  /\ MinutesBetween(b, c) <= MinutesBetween(a, c)
         /\ MinutesBetween(a, b) <= MinutesBetween(a, c)
         /\ MinutesBetween(a, b) + MinutesBetween(b, c) <= MinutesBetween(a, c)
         /\ MinutesBetween(a, c) <= MinutesBetween(a, b) + MinutesBetween(b, c) + 1
<1> DEFINE x == b - a
           y == c - b
<1>1. /\ x \in Int /\ y \in Int /\ x >= 0 /\ y >= 0 /\ x + y = c - a /\ a <= c
  OBVIOUS
<1>2. /\ MinutesBetween(a, b) = x \div Minute
      /\ MinutesBetween(b, c) = y \div Minute
      /\ MinutesBetween(a, c) = (c - a) \div Minute
  BY <1>1, SpanFacts
<1> HIDE DEF x, y
<1>3. /\ x \div Minute \in Int /\ y \div Minute \in Int /\ (x + y) \div Minute \in Int
      /\ x \div Minute >= 0 /\ y \div Minute >= 0
      /\ x \div Minute + y \div Minute <= (x + y) \div Minute
      /\ (x + y) \div Minute <= x \div Minute + y \div Minute + 1
  BY <1>1, WholeMinutes
<1> QED BY <1>1, <1>2, <1>3

LEMMA ClampFacts ==
  ASSUME NEW m \in Int, NEW low \in Int, NEW high \in Int
  PROVE  /\ Clamp(m, low, high) \in Int
         /\ low <= high => low <= Clamp(m, low, high) /\ Clamp(m, low, high) <= high
         /\ low <= m /\ m <= high => Clamp(m, low, high) = m
         /\ m <= low /\ low <= high => Clamp(m, low, high) = low
         /\ low <= high /\ high <= m => Clamp(m, low, high) = high
BY DEF Clamp, Earlier

LEMMA TimelineParts ==
  ASSUME NEW t \in Timelines
  PROVE  /\ t.arrival \in Int /\ t.breakStart \in Int /\ t.breakEnd \in Int /\ t.departure \in Int
BY DEF Timelines, Moments, Missing

LEMMA StartFacts ==
  ASSUME NEW arrival \in Int, NEW start \in Nat, NEW early \in BOOLEAN
  PROVE  EffectiveStart(arrival, start, early) \in Int /\ arrival <= EffectiveStart(arrival, start, early)
BY DEF EffectiveStart

\* A break costs minutes of the paid span and no others.
LEMMA BreakInsideGross ==
  ASSUME NEW t \in Timelines, NEW start \in Nat, NEW early \in BOOLEAN
  PROVE  /\ GrossMinutes(t, start, early) \in Nat
         /\ UnpaidBreak(t, start, early) \in Nat
         /\ EffectiveStart(t.arrival, start, early) <= t.departure =>
              UnpaidBreak(t, start, early) <= GrossMinutes(t, start, early)
<1> DEFINE from == EffectiveStart(t.arrival, start, early)
           gross == GrossMinutes(t, start, early)
           begin == Clamp(t.breakStart, from, t.departure)
           end == Clamp(t.breakEnd, from, t.departure)
<1>1. from \in Int /\ t.departure \in Int
  BY TimelineParts, StartFacts
<1>2. gross = MinutesBetween(from, t.departure)
  BY DEF GrossMinutes
<1>3. /\ begin \in Int /\ end \in Int
      /\ from <= t.departure => from <= begin /\ end <= t.departure
  <2> HIDE DEF from
  <2> QED BY <1>1, TimelineParts, ClampFacts
<1>4. UnpaidBreak(t, start, early) \in {0, Earlier(IncompleteBreakPenalty, gross), MinutesBetween(begin, end)}
  BY DEF UnpaidBreak
<1> HIDE DEF from, gross, begin, end
<1>5. gross \in Nat /\ MinutesBetween(begin, end) \in Nat
  BY <1>1, <1>2, <1>3, SpanFacts
<1>6. Earlier(IncompleteBreakPenalty, gross) \in Nat /\ Earlier(IncompleteBreakPenalty, gross) <= gross
  BY <1>5 DEF Earlier, IncompleteBreakPenalty
<1>7. from <= t.departure => MinutesBetween(begin, end) <= gross
  <2>1. CASE begin <= end /\ from <= t.departure
    <3>1. MinutesBetween(begin, end) <= MinutesBetween(from, end)
      BY <1>1, <1>3, <2>1, SpansCompare
    <3>2. MinutesBetween(from, end) <= gross
      BY <1>1, <1>2, <1>3, <2>1, SpansCompare
    <3> QED BY <1>1, <1>2, <1>3, <1>5, <3>1, <3>2, SpanFacts
  <2>2. CASE ~(begin <= end)
    BY <1>3, <1>5, <2>2, SpanFacts
  <2> QED BY <2>1, <2>2
<1>8. QED BY <1>4, <1>5, <1>6, <1>7 DEF from, gross

-----------------------------------------------------------------------------
(* Theorems *)

\* No timeline, however odd, is worth less than nothing or more than the time
\* between the effective start and the departure; and the minutes of a day are
\* its ordinary and its overtime minutes (calculateDispatchWorkedTime).
THEOREM WorkedMinutesAreBounded ==
  ASSUME NEW t \in Timelines, NEW start \in Nat, NEW early \in BOOLEAN
  PROVE  LET worked == WorkedMinutes(t, start, early) IN
         /\ worked \in Nat /\ worked <= GrossMinutes(t, start, early)
         /\ OrdinaryMinutes(worked) + OvertimeMinutes(worked) = worked
         /\ OrdinaryMinutes(worked) \in 0 .. StandardWorkday
<1>1. GrossMinutes(t, start, early) \in Nat /\ UnpaidBreak(t, start, early) \in Nat
  BY BreakInsideGross
<1>2. WorkedMinutes(t, start, early) \in Nat /\ WorkedMinutes(t, start, early) <= GrossMinutes(t, start, early)
  BY <1>1 DEF WorkedMinutes, Later
<1> QED BY <1>2 DEF OrdinaryMinutes, OvertimeMinutes, StandardWorkday, Earlier, Later

\* The minutes of a day are paid or deducted once: worked and unpaid break add
\* up to the span from the effective start to the departure, although each is
\* rounded down (attendanceWorkdayPolicy.js:22).
THEOREM BreakAndWorkShareTheSpan ==
  ASSUME NEW t \in Timelines, NEW start \in Nat, NEW early \in BOOLEAN,
         EffectiveStart(t.arrival, start, early) <= t.departure
  PROVE  WorkedMinutes(t, start, early) + UnpaidBreak(t, start, early)
           = MinutesBetween(EffectiveStart(t.arrival, start, early), t.departure)
<1>1. /\ GrossMinutes(t, start, early) \in Nat
      /\ UnpaidBreak(t, start, early) \in Nat
      /\ UnpaidBreak(t, start, early) <= GrossMinutes(t, start, early)
  BY BreakInsideGross
<1>2. WorkedMinutes(t, start, early) + UnpaidBreak(t, start, early) = GrossMinutes(t, start, early)
  BY <1>1 DEF WorkedMinutes, Later
<1> QED BY <1>2 DEF GrossMinutes

\* What a day is worth from an effective start f: for comparing two of them.
PaidFrom(f, b, e, d) == Later(0, MinutesBetween(f, d) - MinutesBetween(Clamp(b, f, d), Clamp(e, f, d)))

\* Counting from an earlier moment adds a span to the day, and at most that
\* span and a minute to its break.
LEMMA EarlierStartPays ==
  ASSUME NEW a \in Int, NEW f \in Int, NEW b \in Int, NEW e \in Int, NEW d \in Int,
         a <= f, a <= d, b <= e
  PROVE  /\ PaidFrom(f, b, e, d) <= PaidFrom(a, b, e, d) + 1
         /\ f <= b => PaidFrom(f, b, e, d) <= PaidFrom(a, b, e, d)
BY SMTT(60) DEF PaidFrom, MinutesBetween, Minute, Clamp, Earlier, Later

\* Recognizing an early arrival may cost the worker a minute, because the
\* break and the span are rounded apart, and never more; it costs nothing when
\* the break comes after the planned start (attendanceWorkdayPolicy.js:37).
THEOREM RecognitionCostsAtMostAMinute ==
  ASSUME NEW t \in Timelines, NEW start \in Nat, Calculable(t)
  PROVE  /\ WorkedMinutes(t, start, FALSE) <= WorkedMinutes(t, start, TRUE) + 1
         /\ (Recorded(t.breakStart) /\ Recorded(t.breakEnd) => start <= t.breakStart)
              => WorkedMinutes(t, start, FALSE) <= WorkedMinutes(t, start, TRUE)
<1> DEFINE a == t.arrival
           b == t.breakStart
           e == t.breakEnd
           d == t.departure
           from == EffectiveStart(a, start, FALSE)
           plain == WorkedMinutes(t, start, FALSE)
           early == WorkedMinutes(t, start, TRUE)
<1>1. a \in Int /\ b \in Int /\ e \in Int /\ d \in Int
  BY TimelineParts
<1>2. a <= d /\ (Recorded(e) => b <= e)
  BY <1>1 DEF Calculable
<1>3. from \in Int /\ a <= from /\ (from = a \/ from = start)
  BY <1>1 DEF EffectiveStart
<1>4. CASE ~Recorded(b) \/ ~Recorded(e)
  <2> DEFINE paid(g) == IF Recorded(b) THEN Later(0, g - Earlier(IncompleteBreakPenalty, g)) ELSE Later(0, g - 0)
  <2>1. plain = paid(MinutesBetween(from, d)) /\ early = paid(MinutesBetween(a, d))
    BY <1>4 DEF WorkedMinutes, UnpaidBreak, GrossMinutes, EffectiveStart
  <2> HIDE DEF a, b, d, from, plain, early
  <2>2. MinutesBetween(from, d) \in Nat /\ MinutesBetween(a, d) \in Nat
    BY <1>1, <1>3, SpanFacts
  <2>3. MinutesBetween(from, d) <= MinutesBetween(a, d)
    <3>1. CASE from <= d
      BY <1>1, <1>3, <3>1, SpansCompare
    <3>2. CASE d < from
      BY <1>1, <1>3, <2>2, <3>2, SpanFacts
    <3> QED BY <1>1, <1>3, <3>1, <3>2
  <2>4. plain <= early + 1 /\ plain <= early
    BY <2>1, <2>2, <2>3 DEF Later, Earlier, IncompleteBreakPenalty
  <2> QED BY <2>4 DEF plain, early
<1>5. CASE Recorded(b) /\ Recorded(e)
  <2>1. plain = PaidFrom(from, b, e, d) /\ early = PaidFrom(a, b, e, d)
    BY <1>5 DEF WorkedMinutes, UnpaidBreak, GrossMinutes, EffectiveStart, PaidFrom
  <2> HIDE DEF a, b, d, e, from
  <2>2. /\ PaidFrom(from, b, e, d) <= PaidFrom(a, b, e, d) + 1
        /\ from <= b => PaidFrom(from, b, e, d) <= PaidFrom(a, b, e, d)
    BY <1>1, <1>2, <1>3, <1>5, EarlierStartPays
  <2>3. from = a => PaidFrom(from, b, e, d) <= PaidFrom(a, b, e, d)
    <3>1. PaidFrom(a, b, e, d) \in Int
      BY <1>1 DEF PaidFrom, MinutesBetween, Minute, Clamp, Earlier, Later
    <3> QED BY <3>1
  <2> HIDE DEF plain, early
  <2>4. plain <= early + 1 /\ (start <= b => plain <= early)
    BY <1>3, <2>1, <2>2, <2>3
  <2> QED BY <1>5, <2>4 DEF plain, early, b, e
<1> QED BY <1>4, <1>5

\* Leaving later never costs minutes, once the break is over.
THEOREM LaterDepartureNeverCosts ==
  ASSUME NEW s \in Timelines, NEW t \in Timelines, NEW start \in Nat, NEW early \in BOOLEAN,
         s.arrival = t.arrival, s.breakStart = t.breakStart, s.breakEnd = t.breakEnd,
         s.breakEnd <= s.departure, s.departure <= t.departure, Calculable(s), Calculable(t)
  PROVE  WorkedMinutes(s, start, early) <= WorkedMinutes(t, start, early)
<1> DEFINE from == EffectiveStart(s.arrival, start, early)
           b == s.breakStart
           e == s.breakEnd
           c == s.departure
           d == t.departure
           shorter == WorkedMinutes(s, start, early)
           longer == WorkedMinutes(t, start, early)
<1>1. /\ from \in Int /\ from = EffectiveStart(t.arrival, start, early)
      /\ b \in Int /\ e \in Int /\ c \in Int /\ d \in Int
  BY TimelineParts, StartFacts
<1>2. c <= d /\ e <= c /\ (Recorded(e) => b <= e)
  BY <1>1 DEF Calculable
<1>3. CASE ~Recorded(b) \/ ~Recorded(e)
  <2> DEFINE paid(g) == IF Recorded(b) THEN Later(0, g - Earlier(IncompleteBreakPenalty, g)) ELSE Later(0, g - 0)
  <2>1. shorter = paid(MinutesBetween(from, c)) /\ longer = paid(MinutesBetween(from, d))
    <3> HIDE DEF from
    <3>1. GrossMinutes(s, start, early) = MinutesBetween(from, c) /\ GrossMinutes(t, start, early) = MinutesBetween(from, d)
      BY <1>1 DEF GrossMinutes, from
    <3> QED BY <1>3, <3>1 DEF WorkedMinutes, UnpaidBreak
  <2> HIDE DEF from, b, c, d, shorter, longer
  <2>2. MinutesBetween(from, c) \in Nat /\ MinutesBetween(from, d) \in Nat
    BY <1>1, SpanFacts
  <2>3. MinutesBetween(from, c) <= MinutesBetween(from, d)
    <3>1. CASE from <= c
      BY <1>1, <1>2, <3>1, SpansCompare
    <3>2. CASE c < from
      BY <1>1, <2>2, <3>2, SpanFacts
    <3> QED BY <1>1, <3>1, <3>2
  <2>4. shorter <= longer
    BY <2>1, <2>2, <2>3 DEF Later, Earlier, IncompleteBreakPenalty
  <2> QED BY <2>4 DEF shorter, longer
<1>4. CASE Recorded(b) /\ Recorded(e)
  <2>1. shorter = PaidFrom(from, b, e, c) /\ longer = PaidFrom(from, b, e, d)
    <3> HIDE DEF from
    <3>1. GrossMinutes(s, start, early) = MinutesBetween(from, c) /\ GrossMinutes(t, start, early) = MinutesBetween(from, d)
      BY <1>1 DEF GrossMinutes, from
    <3>2. /\ UnpaidBreak(s, start, early) = MinutesBetween(Clamp(b, from, c), Clamp(e, from, c))
          /\ UnpaidBreak(t, start, early) = MinutesBetween(Clamp(b, from, d), Clamp(e, from, d))
      BY <1>1, <1>4 DEF UnpaidBreak, from
    <3> QED BY <3>1, <3>2 DEF WorkedMinutes, PaidFrom
  <2> HIDE DEF from, b, c, d, e, shorter, longer
  <2>2. b <= e
    BY <1>2, <1>4
  <2>3. PaidFrom(from, b, e, c) <= PaidFrom(from, b, e, d)
    BY <1>1, <1>2, <2>2, SMTT(60) DEF PaidFrom, MinutesBetween, Minute, Clamp, Earlier, Later
  <2> QED BY <2>1, <2>3 DEF shorter, longer
<1> QED BY <1>3, <1>4

\* The window of a shift that lasts less than a day contains its planned end:
\* who leaves then may record it, across midnight too (registerArrival.js:171).
THEOREM DepartureAtThePlannedEnd ==
  ASSUME NEW start \in 0 .. Day - 1, NEW sessionEnd \in Moments, NEW scheduledEnd \in Moments,
         NEW arrival \in Moments,
         PlannedEnd(start, sessionEnd, scheduledEnd) < start + Day
  PROVE  LET w == OperationalWindow(start, sessionEnd, scheduledEnd, arrival) IN
         start < w.end /\ w.end < w.closes /\ DepartureAllowed(w, w.end)
<1> DEFINE planned == PlannedEnd(start, sessionEnd, scheduledEnd)
           end == IF ~Recorded(planned) THEN start + (StandardWorkday + StandardBreak) * Minute ELSE planned
           closes == IF end >= Day THEN Earlier(start + Day, end + (end - start)) ELSE Day
           opens == IF Recorded(arrival) THEN Earlier(arrival, start) ELSE start
           w == OperationalWindow(start, sessionEnd, scheduledEnd, arrival)
<1>1. planned = Missing \/ (planned \in Nat /\ start < planned)
  BY DEF PlannedEnd, ValidEnd, Later, Moments, Missing, Recorded, Day, Minute
<1>2. w.end = end /\ w.closes = closes /\ w.opens = opens
  BY DEF OperationalWindow
<1>3. end \in Nat /\ start < end /\ end < start + Day
  <2>1. planned < start + Day
    OBVIOUS
  <2> HIDE DEF planned
  <2>2. CASE planned = Missing
    <3>1. end = start + (StandardWorkday + StandardBreak) * Minute
      BY <2>2 DEF Recorded
    <3> HIDE DEF end
    <3> QED BY <3>1 DEF StandardWorkday, StandardBreak, Day, Minute
  <2>3. CASE planned # Missing
    <3>1. end = planned
      BY <2>3 DEF Recorded
    <3> HIDE DEF end
    <3> QED BY <1>1, <2>1, <2>3, <3>1
  <2> QED BY <2>2, <2>3
<1>4. opens \in Int /\ opens <= start
  BY DEF Recorded, Missing, Moments, Earlier, Day, Minute
<1> HIDE DEF planned, end, opens, w
<1>5. closes \in Int /\ end < closes
  BY <1>3 DEF Earlier, Day, Minute
<1> HIDE DEF closes
<1>6. start < w.end /\ w.end < w.closes /\ w.opens <= w.end
  BY <1>2, <1>3, <1>4, <1>5
<1> QED BY <1>6 DEF DepartureAllowed, w

=============================================================================

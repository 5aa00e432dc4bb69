--------------------------- MODULE Attendance_proofs ---------------------------
(***************************************************************************)
(* The inductive invariant of a workday, and what follows from it for any  *)
(* number of coordinators, requests and moments.                           *)
(***************************************************************************)
EXTENDS Attendance, AttendanceRules_proofs, FiniteSetTheorems, WellFoundedInduction

-----------------------------------------------------------------------------
(* The first and the latest of some moments *)

\* Moments have a least one.
LEMMA LeastMoment ==
  ASSUME NEW S \in SUBSET Nat, S # {}
  PROVE  \E x \in S : \A y \in S : x <= y
<1>1. PICK x \in S : \A y \in S : ~ (<<y, x>> \in OpToRel(<, Nat))
  BY NatLessThanWellFounded, WFMin
<1>2. ASSUME NEW y \in S PROVE x <= y
  <2>1. ~ (y < x)
    BY <1>1 DEF OpToRel
  <2> QED BY <2>1
<1> QED BY <1>2

\* A finite set of moments has a bound: the shortest prefix of a
\* listing that has none would end one that has.
LEMMA FiniteIsBounded ==
  ASSUME NEW S \in SUBSET Nat, IsFiniteSet(S)
  PROVE  \E n \in Nat : \A x \in S : x <= n
<1>0. PICK len \in Nat : ExistsSurjection(1 .. len, S)
  BY FS_NatSurjection
<1>1. PICK f : f \in Surjection(1 .. len, S)
  BY <1>0 DEF ExistsSurjection
<1>2. \A i \in 1 .. len : f[i] \in Nat
  BY <1>1 DEF Surjection
<1> DEFINE Bounds(n, k) == \A i \in 1 .. k : f[i] <= n
           Unbounded == {k \in 0 .. len : \A n \in Nat : ~Bounds(n, k)}
<1>3. Unbounded = {}
  <2>1. SUFFICES ASSUME Unbounded # {} PROVE FALSE
    OBVIOUS
  <2>2. PICK k \in Unbounded : \A j \in Unbounded : k <= j
    <3>1. Unbounded \in SUBSET Nat
      BY <1>2
    <3> HIDE DEF Unbounded
    <3> QED BY <2>1, <3>1, LeastMoment
  <2>3. Bounds(0, 0)
    BY <1>2
  <2>4. k # 0
    BY <2>2, <2>3
  <2>5. k \in 1 .. len /\ k - 1 \in 0 .. len
    BY <1>1, <2>2, <2>4
  <2>6. k - 1 \notin Unbounded
    <3>1. ~(k <= k - 1)
      BY <2>5
    <3> HIDE DEF Unbounded
    <3> QED BY <2>2, <3>1
  <2>7. PICK n \in Nat : Bounds(n, k - 1)
    BY <2>5, <2>6
  <2>8. f[k] \in Nat
    BY <1>2, <2>5
  <2>9. PICK top \in Nat : n <= top /\ f[k] <= top
    BY <2>8
  <2>10. ASSUME NEW i \in 1 .. k PROVE f[i] <= top
    <3>1. CASE i = k
      BY <2>9, <3>1
    <3>2. CASE i # k
      <4>1. i \in 1 .. (k - 1) /\ f[i] \in Nat
        BY <1>2, <2>5, <3>2
      <4> QED BY <2>7, <2>9, <4>1
    <3> QED BY <3>1, <3>2
  <2> QED BY <2>2, <2>9, <2>10
<1>4. PICK n \in Nat : Bounds(n, len)
  <2>1. len \in 0 .. len
    BY <1>0
  <2> QED BY <1>3, <2>1
<1>5. \A x \in S : \E i \in 1 .. len : f[i] = x
  BY <1>1 DEF Surjection
<1> QED BY <1>4, <1>5

LEMMA GreatestMoment ==
  ASSUME NEW S \in SUBSET Nat, IsFiniteSet(S), S # {}
  PROVE  \E x \in S : \A y \in S : x >= y
<1> DEFINE Above == {n \in Nat : \A y \in S : y <= n}
<1>1. Above \in SUBSET Nat /\ Above # {}
  BY FiniteIsBounded
<1>2. PICK x \in Above : \A y \in Above : x <= y
  <2> HIDE DEF Above
  <2> QED BY <1>1, LeastMoment
<1>3. x \in S
  <2>1. SUFFICES ASSUME x \notin S PROVE FALSE
    OBVIOUS
  <2>2. PICK y \in S : TRUE
    OBVIOUS
  <2>3. \A z \in S : z <= x - 1
    BY <1>2, <2>1
  <2>4. x - 1 \in Nat
    BY <1>2, <2>2, <2>3
  <2> QED BY <1>2, <2>3, <2>4
<1> QED BY <1>2, <1>3

LEMMA MaxFacts ==
  ASSUME NEW S \in SUBSET Nat, IsFiniteSet(S), S # {}
  PROVE  Max(S) \in S /\ \A y \in S : y <= Max(S)
<1>1. \E x \in S : \A y \in S : x >= y
  BY GreatestMoment
<1>2. Max(S) \in S /\ \A y \in S : Max(S) >= y
  BY <1>1 DEF Max
<1> QED BY <1>2

LEMMA MinFacts ==
  ASSUME NEW S \in SUBSET Nat, S # {}
  PROVE  Min(S) \in S /\ \A y \in S : Min(S) <= y
<1>1. \E x \in S : \A y \in S : x =< y
  BY LeastMoment
<1> QED BY <1>1 DEF Min

-----------------------------------------------------------------------------
(* Reading marks *)

AllMarks == MarksBy(MaxManual)

LEMMA MomentsKnown ==
  Moment \subseteq Nat /\ Moment \cup {Missing} \subseteq Moments
  BY AttendanceAssumption DEF Moments

LEMMA MarkParts ==
  ASSUME NEW n, NEW m \in MarksBy(n)
  PROVE  /\ m.type \in MarkType /\ m.at \in Moment /\ m.at \in Nat
         /\ m.key \in Request \cup (MarkType \X (1 .. n))
  BY MomentsKnown DEF MarksBy

\* Marks that agree are the same mark.
LEMMA SameMark ==
  ASSUME NEW n, NEW m \in MarksBy(n), NEW k \in MarksBy(n),
         m.type = k.type, m.at = k.at, m.key = k.key
  PROVE  m = k
  BY DEF MarksBy

LEMMA MoreMarks ==
  ASSUME NEW n \in Nat, NEW k \in Nat, n <= k
  PROVE  MarksBy(n) \subseteq MarksBy(k)
  BY DEF MarksBy

LEMMA NewMark ==
  ASSUME NEW n, NEW type \in MarkType, NEW at \in Moment,
         NEW key \in Request \cup (MarkType \X (1 .. n))
  PROVE  /\ Mark(type, at, key) \in MarksBy(n)
         /\ Mark(type, at, key).type = type /\ Mark(type, at, key).at = at
         /\ Mark(type, at, key).key = key
  BY DEF MarksBy, Mark

LEMMA AtFacts ==
  ASSUME NEW n, NEW ms \in SUBSET MarksBy(n), NEW type
  PROVE  /\ AtOf(ms, type) \subseteq Moment /\ AtOf(ms, type) \subseteq Nat
         /\ \A m \in ms : m.type = type => m.at \in AtOf(ms, type)
         /\ \A x \in AtOf(ms, type) : \E m \in ms : m.type = type /\ m.at = x
         /\ IsFiniteSet(ms) => IsFiniteSet(AtOf(ms, type))
<1>1. AtOf(ms, type) \subseteq Moment /\ AtOf(ms, type) \subseteq Nat
  BY MarkParts DEF AtOf
<1>2. ASSUME IsFiniteSet(ms) PROVE IsFiniteSet(AtOf(ms, type))
  <2> DEFINE mine == {x \in ms : x.type = type}
             at == [m \in mine |-> m.at]
  <2>1. IsFiniteSet(mine)
    BY <1>2, FS_Subset
  <2>2. at \in Surjection(mine, AtOf(ms, type))
    BY DEF AtOf, Surjection
  <2> HIDE DEF mine, at
  <2> QED BY <2>1, <2>2, FS_Surjection
<1> QED BY <1>1, <1>2 DEF AtOf

\* What the latest and the first mark of a type are.
LEMMA LatestFacts ==
  ASSUME NEW n, NEW ms \in SUBSET MarksBy(n), IsFiniteSet(ms), NEW type
  PROVE  /\ Latest(ms, type) \in Moment \cup {Missing} /\ Latest(ms, type) \in Moments
         /\ First(ms, type) \in Moment \cup {Missing} /\ First(ms, type) \in Moments
         /\ AtOf(ms, type) = {} => ~Recorded(Latest(ms, type)) /\ ~Recorded(First(ms, type))
         /\ AtOf(ms, type) # {} =>
              /\ Recorded(Latest(ms, type)) /\ Recorded(First(ms, type))
              /\ Latest(ms, type) \in AtOf(ms, type) /\ First(ms, type) \in AtOf(ms, type)
              /\ \A x \in AtOf(ms, type) : First(ms, type) <= x /\ x <= Latest(ms, type)
<1>1. AtOf(ms, type) \in SUBSET Nat /\ AtOf(ms, type) \subseteq Moment /\ IsFiniteSet(AtOf(ms, type))
  BY AtFacts
<1>2. CASE AtOf(ms, type) = {}
  BY <1>2 DEF Latest, First, Recorded, Missing, Moments
<1>3. CASE AtOf(ms, type) # {}
  <2>1. Latest(ms, type) = Max(AtOf(ms, type)) /\ First(ms, type) = Min(AtOf(ms, type))
    BY <1>3 DEF Latest, First
  <2>2. /\ Latest(ms, type) \in AtOf(ms, type) /\ First(ms, type) \in AtOf(ms, type)
        /\ \A x \in AtOf(ms, type) : First(ms, type) <= x /\ x <= Latest(ms, type)
    BY <1>1, <1>3, <2>1, MaxFacts, MinFacts
  <2> QED BY <1>1, <1>3, <2>2 DEF Recorded, Missing, Moments
<1> QED BY <1>2, <1>3

\* The only moment of a type is its latest and its first.
LEMMA OnlyMoment ==
  ASSUME NEW n, NEW ms \in SUBSET MarksBy(n), IsFiniteSet(ms), NEW type,
         NEW at \in AtOf(ms, type), \A x \in AtOf(ms, type) : x = at
  PROVE  Latest(ms, type) = at /\ First(ms, type) = at
  BY LatestFacts

\* Marks of other types change nothing.
LEMMA OtherMarks ==
  ASSUME NEW ms, NEW ns, NEW type,
         \A m \in ms \ ns : m.type # type, \A m \in ns \ ms : m.type # type
  PROVE  /\ AtOf(ms, type) = AtOf(ns, type)
         /\ Latest(ms, type) = Latest(ns, type) /\ First(ms, type) = First(ns, type)
<1>1. AtOf(ms, type) = AtOf(ns, type)
  BY DEF AtOf
<1> QED BY <1>1 DEF Latest, First

LEMMA TimelineType ==
  ASSUME NEW n, NEW ms \in SUBSET MarksBy(n), IsFiniteSet(ms)
  PROVE  LatestTimeline(ms) \in Timelines
  BY LatestFacts DEF LatestTimeline, Timelines

LEMMA WorkedType ==
  ASSUME NEW t \in Timelines, NEW early \in BOOLEAN
  PROVE  Worked(t, early) \in Nat /\ Recorded(Worked(t, early))
<1>1. Worked(t, early) \in Nat
  BY AttendanceAssumption, WorkedMinutesAreBounded DEF Worked
<1> QED BY <1>1 DEF Recorded, Missing

-----------------------------------------------------------------------------
(* What the writers of the session write *)

LEMMA SessionParts ==
  ASSUME NEW att, NEW val, NEW arrival, NEW departure, NEW worked
  PROVE  LET s == Session(att, val, arrival, departure, worked) IN
         /\ s.att = att /\ s.val = val
         /\ s.arrival = arrival /\ s.departure = departure /\ s.worked = worked
  BY DEF Session

LEMMA SessionType ==
  ASSUME NEW att \in AttendanceStatus, NEW val \in ValidationStatus,
         NEW arrival \in Moment \cup {Missing}, NEW departure \in Moment \cup {Missing},
         NEW worked \in Nat \cup {Missing}
  PROVE  Session(att, val, arrival, departure, worked) \in Sessions
  BY DEF Session, Sessions

LEMMA SessionFields ==
  ASSUME NEW s \in Sessions
  PROVE  /\ s.att \in AttendanceStatus /\ s.val \in ValidationStatus
         /\ s.arrival \in Moment \cup {Missing} /\ s.departure \in Moment \cup {Missing}
         /\ s.arrival \in Moments /\ s.departure \in Moments
         /\ s.worked \in Nat \cup {Missing}
  BY MomentsKnown DEF Sessions

\* The session a correction writes tells the marks it leaves.
LEMMA CorrectedFacts ==
  ASSUME NEW n, NEW ms \in SUBSET MarksBy(n), IsFiniteSet(ms), NEW types, NEW early \in BOOLEAN
  PROVE  LET s == CorrectedSession(ms, types, early) IN
         /\ s \in Sessions
         /\ s.arrival = Latest(ms, "ARRIVAL")
         /\ s.departure \in {Missing, Latest(ms, "DEPARTURE")}
         /\ s.att = "COMPLETED" =>
              Recorded(s.departure) /\ Recorded(s.worked) /\ s.val = "MANUAL_VALIDATED"
         /\ Recorded(s.worked) =>
              /\ Recorded(s.arrival) /\ Recorded(s.departure)
              /\ s.worked = Worked(LatestTimeline(ms), early)
<1> DEFINE t == LatestTimeline(ms)
           A == Latest(ms, "ARRIVAL")
           D == Latest(ms, "DEPARTURE")
           W == Worked(t, early)
           s == CorrectedSession(ms, types, early)
<1>1. t.arrival = A /\ t.departure = D
  BY DEF LatestTimeline
<1>2. /\ W \in Nat /\ Recorded(W)
      /\ A \in Moment \cup {Missing} /\ D \in Moment \cup {Missing}
  BY TimelineType, WorkedType, LatestFacts
<1>3. \/ ~Recorded(A) /\ ~Recorded(D) /\ s = Session("PENDING", "PENDING", Missing, Missing, Missing)
      \/ ~Recorded(A) /\ Recorded(D) /\ s = Session("DEPARTURE_REPORTED", "REVIEW_REQUIRED", Missing, D, Missing)
      \/ Recorded(A) /\ s = Session("ARRIVAL_REPORTED", "REVIEW_REQUIRED", A, Missing, Missing)
      \/ Recorded(A) /\ s = Session("DEPARTURE_REPORTED", "REVIEW_REQUIRED", A, Missing, Missing)
      \/ Recorded(A) /\ Recorded(D) /\ s = Session("COMPLETED", "MANUAL_VALIDATED", A, D, W)
  <2> HIDE DEF A, D, W, t
  <2>1. CASE ~Recorded(A) /\ ~Recorded(D)
    BY <1>1, <2>1 DEF CorrectedSession, t
  <2>2. CASE ~Recorded(A) /\ Recorded(D)
    BY <1>1, <2>2 DEF CorrectedSession, t
  <2>3. CASE Recorded(A) /\ ~Recorded(D)
    BY <1>1, <2>3 DEF CorrectedSession, t
  <2>4. CASE Recorded(A) /\ Recorded(D)
    BY <1>1, <2>4 DEF CorrectedSession, t, W
  <2> QED BY <2>1, <2>2, <2>3, <2>4
<1> HIDE DEF A, D, W, s
<1>4. s \in Sessions
  BY <1>2, <1>3 DEF Session, Sessions, AttendanceStatus, ValidationStatus
<1>5. /\ s.arrival = A
      /\ s.departure \in {Missing, D}
      /\ s.att = "COMPLETED" => Recorded(s.departure) /\ Recorded(s.worked) /\ s.val = "MANUAL_VALIDATED"
      /\ Recorded(s.worked) => Recorded(s.arrival) /\ Recorded(s.departure) /\ s.worked = W
  BY <1>2, <1>3, SessionParts DEF Recorded
<1> QED BY <1>4, <1>5 DEF A, D, W, s

LEMMA ManualTimelineFacts ==
  ASSUME NEW n, NEW ms \in SUBSET MarksBy(n), IsFiniteSet(ms), NEW s \in Sessions
  PROVE  LET t == ManualTimeline(s, ms)
             A == Latest(ms, "ARRIVAL")
             D == Latest(ms, "DEPARTURE")
         IN  /\ t \in Timelines
             /\ t.arrival = IF Recorded(A) THEN A ELSE s.arrival
             /\ t.departure = IF Recorded(D) THEN D ELSE s.departure
             /\ Recorded(A) /\ Recorded(D) => t = LatestTimeline(ms)
  BY LatestFacts, SessionFields DEF ManualTimeline, LatestTimeline, Timelines

\* The session a form writes.
LEMMA ManualFacts ==
  ASSUME NEW n, NEW ms \in SUBSET MarksBy(n), IsFiniteSet(ms), NEW old \in Sessions
  PROVE  LET s == ManualSession(old, ms)
             t == ManualTimeline(old, ms)
         IN  /\ s \in Sessions
             /\ s.arrival = t.arrival /\ s.departure = t.departure
             /\ s.att = "COMPLETED" =>
                  Recorded(s.departure) /\ Recorded(s.worked) /\ s.val = "MANUAL_VALIDATED"
             /\ Recorded(s.worked) =>
                  Recorded(s.arrival) /\ Recorded(s.departure) /\ s.worked = Worked(t, FALSE)
<1> DEFINE t == ManualTimeline(old, ms)
           A == t.arrival
           D == t.departure
           W == Worked(t, FALSE)
           s == ManualSession(old, ms)
<1>1. /\ W \in Nat /\ Recorded(W)
      /\ A \in Moment \cup {Missing} /\ D \in Moment \cup {Missing}
  BY ManualTimelineFacts, WorkedType, LatestFacts, SessionFields
<1>2. \/ \E att \in AttendanceStatus \ {"COMPLETED"} : s = Session(att, "REVIEW_REQUIRED", A, D, Missing)
      \/ Recorded(A) /\ Recorded(D) /\ s = Session("COMPLETED", "MANUAL_VALIDATED", A, D, W)
  <2> DEFINE work == Recorded(A) /\ Recorded(D) /\ (Recorded(t.breakEnd) => Recorded(t.breakStart))
  <2> HIDE DEF A, D, W, t
  <2>1. CASE work
    BY <2>1 DEF ManualSession, A, D, W, t
  <2>2. CASE ~work
    BY <2>2 DEF ManualSession, A, D, W, t, AttendanceStatus
  <2> QED BY <2>1, <2>2
<1> HIDE DEF A, D, W, s, t
<1>3. s \in Sessions
  BY <1>1, <1>2 DEF Session, Sessions, AttendanceStatus, ValidationStatus
<1>4. /\ s.arrival = A /\ s.departure = D
      /\ s.att = "COMPLETED" => Recorded(s.departure) /\ Recorded(s.worked) /\ s.val = "MANUAL_VALIDATED"
      /\ Recorded(s.worked) => Recorded(s.arrival) /\ Recorded(s.departure) /\ s.worked = W
  BY <1>1, <1>2, SessionParts DEF Recorded
<1> QED BY <1>3, <1>4 DEF A, D, W, s, t

-----------------------------------------------------------------------------
(* The start, and the steps that leave the rows alone *)

LEMMA NoMarks == \A type : AtOf({}, type) = {}
  BY DEF AtOf

LEMMA NothingSeen == NoView \in Views /\ IsFiniteSet(NoView.marks)
<1>1. NoSession \in Sessions
  BY DEF NoSession, Session, Sessions, AttendanceStatus, ValidationStatus
<1> QED BY <1>1, FS_EmptySet DEF NoView, Views

LEMMA InitInv == Init => Inv
<1> SUFFICES ASSUME Init PROVE Inv
  OBVIOUS
<1>1. TypeOK
  <2>1. op \in [Coordinator -> [phase : Phase, seen : Views]] /\ \A c \in Coordinator : IsFiniteSet(op[c].seen.marks)
    BY NothingSeen DEF Init, Idle, Phase
  <2>2. session \in Sessions /\ IsFiniteSet(marks)
    BY NothingSeen, FS_EmptySet DEF Init, NoSession, Session, Sessions, AttendanceStatus, ValidationStatus
  <2>3. made \in 0 .. MaxManual /\ marks \subseteq MarksBy(made)
    BY AttendanceAssumption DEF Init
  <2> QED BY <2>1, <2>2, <2>3 DEF Init, TypeOK
<1>2. KeysInv
  BY DEF Init, KeysInv
<1>3. WorkdayInv
  BY DEF Init, WorkdayInv, Idle
<1>4. \A type : ~Recorded(Latest(marks, type)) /\ Latest(marks, type) = Missing
  BY NoMarks DEF Init, Latest, Recorded
<1>5. Told
  BY <1>4, NoMarks DEF Init, Told, NoSession, Session, Recorded
<1>6. BreakFits
  BY DEF Init, BreakFits
<1>7. ~overlapped /\ WorkersDay
  BY <1>4 DEF Init, WorkersDay, NoSession, Session
<1> QED BY <1>1, <1>2, <1>3, <1>5, <1>6, <1>7 DEF Inv, Agreement

LEMMA SeenFacts ==
  ASSUME TypeOK, NEW c \in Coordinator
  PROVE  /\ op[c].phase \in Phase /\ op[c].seen \in Views
         /\ op[c].seen.session \in Sessions
         /\ op[c].seen.marks \in SUBSET MarksBy(MaxManual) /\ IsFiniteSet(op[c].seen.marks)
         /\ op[c].seen.pending \subseteq MarkType /\ op[c].seen.recognized \in BOOLEAN
<1>1. op[c].phase \in Phase /\ op[c].seen \in Views /\ IsFiniteSet(op[c].seen.marks)
  BY DEF TypeOK
<1> QED BY <1>1 DEF Views

LEMMA MarksMade ==
  ASSUME TypeOK
  PROVE  /\ marks \in SUBSET MarksBy(made) /\ marks \in SUBSET MarksBy(MaxManual)
         /\ IsFiniteSet(marks) /\ made \in Nat /\ made <= MaxManual
  BY AttendanceAssumption, MoreMarks DEF TypeOK

LEMMA CurrentView ==
  ASSUME TypeOK
  PROVE  /\ View \in Views /\ IsFiniteSet(View.marks)
         /\ View.session = session /\ View.marks = marks
         /\ View.pending = pending /\ View.recognized = recognized
  BY MarksMade DEF TypeOK, View, Views

\* A step that changes neither the rows nor what was told of them.
LEMMA RowsStay ==
  ASSUME Inv, TypeOK', WorkdayInv', UNCHANGED <<rows, history>>,
         brk' = brk \/ (KeysInv' /\ (~overlapped => BreakFits'))
  PROVE  Inv'
<1>1. KeysInv'
  BY DEF Inv, KeysInv, rows, Keys
<1>2. ASSUME ~overlapped' PROVE Agreement'
  <2>1. Told' /\ ~overlapped /\ Agreement
    BY <1>2 DEF Inv, Agreement, Told, OneDeparture, rows, history
  <2>2. BreakFits'
    BY <1>2, <2>1 DEF Agreement, BreakFits, rows
  <2> QED BY <2>1, <2>2 DEF Agreement
<1>3. ASSUME ~touched' PROVE ~overlapped' /\ WorkersDay'
  BY <1>3 DEF Inv, WorkersDay, rows, history
<1> QED BY <1>1, <1>2, <1>3 DEF Inv

\* A coordinator that opens, chooses or abandons.
LEMMA OpMoves ==
  ASSUME Inv, NEW c \in Coordinator, NEW phase \in Phase, NEW seen \in Views,
         IsFiniteSet(seen.marks),
         phase = "reviewing workday" => Recorded(seen.session.departure),
         op' = [op EXCEPT ![c] = [phase |-> phase, seen |-> seen]],
         UNCHANGED <<now, rows, brk, history>>
  PROVE  Inv'
<1>0. op \in [Coordinator -> [phase : Phase, seen : Views]] /\ \A d \in Coordinator : IsFiniteSet(op[d].seen.marks)
  BY DEF Inv, TypeOK
<1>1. /\ op' \in [Coordinator -> [phase : Phase, seen : Views]]
      /\ op'[c].phase = phase /\ op'[c].seen = seen
      /\ \A d \in Coordinator : d # c => op'[d] = op[d]
  BY <1>0
<1>2. \A d \in Coordinator : IsFiniteSet(op'[d].seen.marks)
  BY <1>0, <1>1
<1>3. TypeOK'
  BY <1>1, <1>2 DEF Inv, TypeOK, rows, history
<1>4. WorkdayInv'
  BY <1>1 DEF Inv, WorkdayInv
<1> QED BY <1>3, <1>4, RowsStay

LEMMA OpSteps ==
  ASSUME Inv, NEW c \in Coordinator,
         \/ ChooseReview(c) \/ OpenArrivalReview(c) \/ OpenWorkdayReview(c)
         \/ OpenCorrection(c) \/ OpenManual(c) \/ Abandon(c)
  PROVE  Inv'
<1>1. ASSUME NEW from, NEW to \in Phase, Open(c, from, to),
             to = "reviewing workday" => Recorded(session.departure)
      PROVE  Inv'
  <2>1. op' = [op EXCEPT ![c] = [phase |-> to, seen |-> View]] /\ UNCHANGED <<now, rows, brk, history>>
    BY <1>1 DEF Open
  <2>2. View \in Views /\ IsFiniteSet(View.marks) /\ View.session = session
    BY CurrentView DEF Inv
  <2> QED BY <1>1, <2>1, <2>2, OpMoves
<1>2. CASE ChooseReview(c)
  <2>1. PICK phase \in {"workday", "arrival"} :
          op' = [op EXCEPT ![c] = [phase |-> phase, seen |-> NoView]]
    BY <1>2 DEF ChooseReview
  <2>2. UNCHANGED <<now, rows, brk, history>>
    BY <1>2 DEF ChooseReview
  <2>3. phase \in Phase /\ phase # "reviewing workday"
    BY DEF Phase
  <2> QED BY <2>1, <2>2, <2>3, NothingSeen, OpMoves
<1>3. CASE OpenArrivalReview(c)
  BY <1>1, <1>3 DEF OpenArrivalReview, Phase
<1>4. CASE OpenWorkdayReview(c)
  BY <1>1, <1>4 DEF OpenWorkdayReview, Phase
<1>5. CASE OpenCorrection(c)
  BY <1>1, <1>5 DEF OpenCorrection, Phase
<1>6. CASE OpenManual(c)
  BY <1>1, <1>6 DEF OpenManual, Phase
<1>7. CASE Abandon(c)
  <2>1. op' = [op EXCEPT ![c] = [phase |-> "idle", seen |-> NoView]] /\ UNCHANGED <<now, rows, brk, history>>
    BY <1>7 DEF Abandon, Idle
  <2>2. "idle" \in Phase
    BY DEF Phase
  <2> QED BY <2>1, <2>2, NothingSeen, OpMoves
<1> QED BY <1>2, <1>3, <1>4, <1>5, <1>6, <1>7

-----------------------------------------------------------------------------
(* The marks of the worker *)

LEMMA CaptureFacts ==
  ASSUME TypeOK, NEW capture \in Captures
  PROVE  capture.at \in Moment /\ capture.trusted \in BOOLEAN
<1>1. now \in Moment
  BY DEF TypeOK
<1>2. CASE \E trusted \in BOOLEAN : capture = [offline |-> FALSE, trusted |-> trusted, at |-> now]
  BY <1>1, <1>2
<1>3. CASE \E at \in Moment : capture = [offline |-> TRUE, trusted |-> FALSE, at |-> at]
  BY <1>3
<1> QED BY <1>2, <1>3 DEF Captures

\* The first mark of a type is its latest and its first.
LEMMA FirstOfType ==
  ASSUME NEW ms, NEW m, AtOf(ms, m.type) = {}
  PROVE  AtOf(ms \cup {m}, m.type) = {m.at}
  BY DEF AtOf

LEMMA AddedMark ==
  ASSUME NEW n, NEW ms \in SUBSET MarksBy(n), IsFiniteSet(ms), NEW m \in MarksBy(n)
  PROVE  /\ ms \cup {m} \in SUBSET MarksBy(n) /\ IsFiniteSet(ms \cup {m})
         /\ m.at \in AtOf(ms \cup {m}, m.type)
         /\ AtOf(ms, m.type) = {} => Latest(ms \cup {m}, m.type) = m.at
         /\ \A type : type # m.type =>
              /\ AtOf(ms \cup {m}, type) = AtOf(ms, type)
              /\ Latest(ms \cup {m}, type) = Latest(ms, type)
<1>1. ms \cup {m} \in SUBSET MarksBy(n) /\ IsFiniteSet(ms \cup {m})
  BY FS_AddElement
<1>2. m.at \in AtOf(ms \cup {m}, m.type)
  BY DEF AtOf
<1>3. ASSUME AtOf(ms, m.type) = {} PROVE Latest(ms \cup {m}, m.type) = m.at
  <2> DEFINE more == ms \cup {m}
  <2>1. AtOf(more, m.type) = {m.at}
    BY <1>3, FirstOfType
  <2>2. more \in SUBSET MarksBy(n) /\ IsFiniteSet(more)
    BY <1>1
  <2> HIDE DEF more
  <2>3. Latest(more, m.type) = m.at
    BY <2>1, <2>2, OnlyMoment
  <2> QED BY <2>3 DEF more
<1>4. ASSUME NEW type, type # m.type
      PROVE  /\ AtOf(ms \cup {m}, type) = AtOf(ms, type)
             /\ Latest(ms \cup {m}, type) = Latest(ms, type)
  BY <1>4, OtherMarks
<1> QED BY <1>1, <1>2, <1>3, <1>4

LEMMA MarkAdded ==
  ASSUME TypeOK, NEW m \in MarksBy(made), marks' = marks \cup {m}
  PROVE  /\ marks' \in SUBSET MarksBy(made) /\ IsFiniteSet(marks')
         /\ m.at \in AtOf(marks', m.type)
         /\ AtOf(marks, m.type) = {} => Latest(marks', m.type) = m.at
         /\ \A type : type # m.type =>
              /\ AtOf(marks', type) = AtOf(marks, type)
              /\ Latest(marks', type) = Latest(marks, type)
<1>1. marks \in SUBSET MarksBy(made) /\ IsFiniteSet(marks)
  BY MarksMade
<1>2. /\ marks \cup {m} \in SUBSET MarksBy(made) /\ IsFiniteSet(marks \cup {m})
      /\ m.at \in AtOf(marks \cup {m}, m.type)
      /\ AtOf(marks, m.type) = {} => Latest(marks \cup {m}, m.type) = m.at
      /\ \A type : type # m.type =>
           /\ AtOf(marks \cup {m}, type) = AtOf(marks, type)
           /\ Latest(marks \cup {m}, type) = Latest(marks, type)
  BY <1>1, AddedMark
<1> QED BY <1>2

\* A type that no mark has has no latest moment, and the other way round.
LEMMA NoneOfType ==
  ASSUME TypeOK, NEW type
  PROVE  /\ ~Recorded(Latest(marks, type)) <=> AtOf(marks, type) = {}
         /\ AtOf(marks, type) = {} <=> \A m \in marks : m.type # type
  BY MarksMade, LatestFacts DEF AtOf

\* What every mark of the worker leaves right.
LEMMA WorkerWrites ==
  ASSUME Inv, NEW m \in MarksBy(made), m.key \notin Keys(marks),
         marks' = marks \cup {m}, session' \in Sessions, brk' = NoBreak,
         UNCHANGED <<now, pending, recognized, made, op, history>>,
         ~overlapped => Told', ~touched => WorkersDay'
  PROVE  Inv'
<1>1. IsFiniteSet(marks') /\ marks' \in SUBSET MarksBy(made)
  BY MarksMade, AddedMark DEF Inv
<1>2. TypeOK'
  BY <1>1 DEF Inv, TypeOK, history
<1>3. KeysInv'
  BY DEF Inv, KeysInv, Keys
<1>4. WorkdayInv'
  BY DEF Inv, WorkdayInv
<1>5. BreakFits'
  BY DEF BreakFits
<1> QED BY <1>2, <1>3, <1>4, <1>5 DEF Inv, Agreement, history

LEMMA RegisterArrivalStep ==
  ASSUME Inv, NEW r \in Request, NEW capture \in Captures, RegisterArrival(r, capture)
  PROVE  Inv'
<1> DEFINE at == capture.at
           m == Mark("ARRIVAL", at, r)
           att == IF capture.trusted THEN "CLASSIFIED" ELSE "ARRIVAL_REPORTED"
           val == IF capture.trusted THEN "AUTO_VALIDATED" ELSE "REVIEW_REQUIRED"
<1>0. TypeOK /\ at \in Moment /\ at \in Nat /\ session \in Sessions
  BY CaptureFacts, MomentsKnown DEF Inv, TypeOK
<1>1. /\ ~Recorded(session.arrival) /\ r \notin Keys(marks)
      /\ marks' = marks \cup {m} /\ brk' = NoBreak
      /\ session' = Session(att, val, at, session.departure, session.worked)
      /\ UNCHANGED <<now, pending, recognized, made, op, history>>
  BY DEF RegisterArrival, Fresh, Insert
<1>2. m \in MarksBy(made) /\ m.type = "ARRIVAL" /\ m.at = at /\ m.key = r
  BY <1>0, NewMark DEF MarkType
<1>3. session' \in Sessions
  BY <1>0, <1>1, SessionFields, SessionType DEF AttendanceStatus, ValidationStatus
<1>4. /\ session'.att \in {"CLASSIFIED", "ARRIVAL_REPORTED"} /\ session'.arrival = at
      /\ session'.departure = session.departure /\ session'.worked = session.worked
  BY <1>1, SessionParts
<1> HIDE DEF at, m
<1>5. ASSUME ~overlapped PROVE Told'
  <2>1. Told
    BY <1>5 DEF Inv, Agreement
  <2>2. AtOf(marks, "ARRIVAL") = {}
    BY <1>0, <1>1, <2>1, NoneOfType DEF Told
  <2>3. /\ Latest(marks', "ARRIVAL") = at
        /\ AtOf(marks', "DEPARTURE") = AtOf(marks, "DEPARTURE")
        /\ Latest(marks', "DEPARTURE") = Latest(marks, "DEPARTURE")
    BY <1>0, <1>1, <1>2, <2>2, MarkAdded
  <2>4. \A j, k \in marks' : j.type = k.type /\ j.type \in BreakType => j = k
    BY <1>1, <1>2, <2>1 DEF Told, BreakType
  <2>5. ~(~blind' /\ Recorded(session'.worked))
    BY <1>1, <1>4, <2>1 DEF Told, history
  <2> QED BY <1>4, <2>1, <2>3, <2>4, <2>5 DEF Told, OneDeparture
<1>6. ASSUME ~touched PROVE WorkersDay'
  <2>1. WorkersDay
    BY <1>6 DEF Inv
  <2>2. marks = {}
    BY <1>1, <2>1 DEF WorkersDay
  <2>3. marks' = {m} /\ Recorded(at)
    BY <1>0, <1>1, <2>2 DEF Recorded, Missing
  <2>4. Latest(marks', "DEPARTURE") = Latest(marks, "DEPARTURE")
    BY <1>0, <1>1, <1>2, MarkAdded
  <2> QED BY <1>0, <1>2, <1>4, <2>1, <2>3, <2>4 DEF WorkersDay
<1> QED BY <1>1, <1>2, <1>3, <1>5, <1>6, WorkerWrites

\* The validation a departure leaves: what waits for a reviewer goes on waiting.
LEMMA DepartureValidationFacts ==
  ASSUME NEW prior, NEW trusted \in BOOLEAN
  PROVE  /\ DepartureValidation(prior, trusted) \in {"REVIEW_REQUIRED", "MANUAL_VALIDATED", "AUTO_VALIDATED"}
         /\ prior \in {"REVIEW_REQUIRED", "REJECTED"} => DepartureValidation(prior, trusted) = "REVIEW_REQUIRED"
  BY DEF DepartureValidation

\* A break that began and ended once has one moment for each.
LEMMA FirstIsLatest ==
  ASSUME TypeOK, Told, NEW type \in BreakType
  PROVE  First(marks, type) = Latest(marks, type)
<1>1. CASE AtOf(marks, type) = {}
  BY <1>1 DEF First, Latest
<1>2. CASE AtOf(marks, type) # {}
  <2>1. PICK at : at \in AtOf(marks, type)
    BY <1>2
  <2>2. \A x \in AtOf(marks, type) : x = at
    BY <2>1 DEF AtOf, Told
  <2> QED BY <2>1, <2>2, MarksMade, OnlyMoment
<1> QED BY <1>1, <1>2

LEMMA RegisterDepartureStep ==
  ASSUME Inv, NEW r \in Request, NEW capture \in Captures, RegisterDeparture(r, capture)
  PROVE  Inv'
<1> DEFINE at == capture.at
           m == Mark("DEPARTURE", at, r)
           t == [arrival |-> session.arrival, breakStart |-> First(marks, "BREAK_START"),
                 breakEnd |-> First(marks, "BREAK_END"), departure |-> at]
           val == DepartureValidation(session.val, capture.trusted)
           att == IF val = "REVIEW_REQUIRED" THEN "DEPARTURE_REPORTED" ELSE "COMPLETED"
           W == Worked(t, FALSE)
<1>0. TypeOK /\ at \in Moment /\ at \in Nat /\ session \in Sessions /\ capture.trusted \in BOOLEAN
  BY CaptureFacts, MomentsKnown DEF Inv, TypeOK
<1>1. /\ Recorded(session.arrival) /\ ~Recorded(session.departure) /\ at >= session.arrival
      /\ r \notin Keys(marks)
      /\ marks' = marks \cup {m} /\ brk' = NoBreak
      /\ session' = Session(att, val, session.arrival, at, W)
      /\ UNCHANGED <<now, pending, recognized, made, op, history>>
  BY DEF RegisterDeparture, Fresh, Insert
<1>2. m \in MarksBy(made) /\ m.type = "DEPARTURE" /\ m.at = at /\ m.key = r
  BY <1>0, NewMark DEF MarkType
<1>3. t \in Timelines
  <2>1. session.arrival \in Moments /\ First(marks, "BREAK_START") \in Moments /\ First(marks, "BREAK_END") \in Moments
    BY <1>0, SessionFields, MarksMade, LatestFacts
  <2> QED BY <1>0, <2>1 DEF Timelines, Moments
<1>4. W \in Nat /\ Recorded(W)
  BY <1>3, WorkedType
<1>5. val \in {"REVIEW_REQUIRED", "MANUAL_VALIDATED", "AUTO_VALIDATED"}
  BY <1>0, DepartureValidationFacts
<1> HIDE DEF at, m, t, val, W
<1>6. session' \in Sessions
  BY <1>0, <1>1, <1>4, <1>5, SessionFields, SessionType DEF AttendanceStatus, ValidationStatus
<1>7. /\ session'.att = att /\ session'.val = val /\ session'.arrival = session.arrival
      /\ session'.departure = at /\ session'.worked = W /\ Recorded(at)
  BY <1>0, <1>1, SessionParts DEF Recorded, Missing
<1>8. /\ marks' \in SUBSET MarksBy(made) /\ IsFiniteSet(marks')
      /\ at \in AtOf(marks', "DEPARTURE")
      /\ \A type : type # "DEPARTURE" => Latest(marks', type) = Latest(marks, type)
      /\ AtOf(marks, "DEPARTURE") = {} => Latest(marks', "DEPARTURE") = at
  BY <1>0, <1>1, <1>2, MarkAdded
<1>9. ASSUME ~overlapped PROVE Told'
  <2>1. Told
    BY <1>9 DEF Inv, Agreement
  <2>2. session'.arrival = Latest(marks', "ARRIVAL")
    BY <1>7, <1>8, <2>1 DEF Told
  <2>3. OneDeparture' => session'.departure = Latest(marks', "DEPARTURE")
    BY <1>7, <1>8, OnlyMoment DEF OneDeparture
  <2>4. \A j, k \in marks' : j.type = k.type /\ j.type \in BreakType => j = k
    BY <1>1, <1>2, <2>1 DEF Told, BreakType
  <2>5. OneDeparture' => t = LatestTimeline(marks')
    BY <1>0, <1>7, <1>8, <2>1, <2>2, <2>3, FirstIsLatest DEF LatestTimeline, t, BreakType
  <2>6. OneDeparture' => session'.worked = Worked(LatestTimeline(marks'), FALSE)
    BY <1>7, <2>5 DEF W
  <2>7. session'.att = "COMPLETED" => session'.val \in {"AUTO_VALIDATED", "MANUAL_VALIDATED"}
    BY <1>5, <1>7
  <2> QED BY <1>1, <1>4, <1>7, <2>2, <2>3, <2>4, <2>6, <2>7 DEF Told
<1>10. ASSUME ~touched PROVE WorkersDay'
  <2>1. WorkersDay
    BY <1>10 DEF Inv
  <2>2. AtOf(marks, "DEPARTURE") = {} /\ \A j \in marks : j.type # "DEPARTURE"
    BY <1>0, <1>1, <2>1, NoneOfType DEF WorkersDay
  <2>3. session'.departure = Latest(marks', "DEPARTURE")
    BY <1>7, <1>8, <2>2
  <2>4. \A j, k \in marks' : j.type = k.type => j = k
    BY <1>1, <1>2, <2>1, <2>2 DEF WorkersDay
  <2>5. \A j \in marks' : Recorded(session'.arrival) /\ session'.arrival <= j.at
    <3>1. session.arrival <= at
      BY <1>0, <1>1, SessionFields DEF Moments, Missing
    <3> QED BY <1>1, <1>2, <1>7, <2>1, <3>1 DEF WorkersDay
  <2>6. \A j \in marks' : j.type = "BREAK_END" => \E k \in marks' : k.type = "BREAK_START" /\ k.at <= j.at
    BY <1>1, <1>2, <2>1 DEF WorkersDay
  <2> QED BY <2>3, <2>4, <2>5, <2>6 DEF WorkersDay
<1> QED BY <1>1, <1>2, <1>6, <1>9, <1>10, WorkerWrites

\* A break that fits leaves session and marks in agreement.
LEMMA BreakInserted ==
  ASSUME Inv, NEW m \in MarksBy(made), m.type \in BreakType, m.key \notin Keys(marks),
         marks' = marks \cup {m}, brk' = NoBreak,
         UNCHANGED <<now, pending, recognized, made, op, history>>,
         session' \in Sessions, session'.att = session.att, session'.arrival = session.arrival,
         session'.departure = session.departure, session'.worked = session.worked,
         ~overlapped => /\ Recorded(session.arrival) /\ session.arrival <= m.at
                        /\ ~Recorded(session.departure)
                        /\ AtOf(marks, m.type) = {}
                        /\ m.type = "BREAK_END" => \E start \in AtOf(marks, "BREAK_START") : start <= m.at
  PROVE  Inv'
<1>0. TypeOK
  BY DEF Inv
<1>1. /\ m.type # "ARRIVAL" /\ m.type # "DEPARTURE"
      /\ AtOf(marks', "DEPARTURE") = AtOf(marks, "DEPARTURE")
      /\ Latest(marks', "DEPARTURE") = Latest(marks, "DEPARTURE")
      /\ Latest(marks', "ARRIVAL") = Latest(marks, "ARRIVAL")
  BY <1>0, MarkAdded DEF BreakType
<1>2. ASSUME ~overlapped PROVE \A j \in marks : j.type # m.type
  BY <1>2 DEF AtOf
<1>3. ASSUME ~overlapped PROVE Told'
  <2>1. Told
    BY <1>3 DEF Inv, Agreement
  <2>2. \A j, k \in marks' : j.type = k.type /\ j.type \in BreakType => j = k
    BY <1>2, <1>3, <2>1 DEF Told
  <2>3. session'.att # "COMPLETED" /\ ~(~blind' /\ Recorded(session'.worked))
    BY <1>3, <2>1 DEF Told, history
  <2> QED BY <1>1, <2>1, <2>2, <2>3 DEF Told, OneDeparture
<1>4. ASSUME ~touched PROVE WorkersDay'
  <2>1. WorkersDay /\ ~overlapped
    BY <1>4 DEF Inv
  <2>2. \A j, k \in marks' : j.type = k.type => j = k
    BY <1>2, <2>1 DEF WorkersDay
  <2>3. m.type = "BREAK_END" => \E k \in marks : k.type = "BREAK_START" /\ k.at <= m.at
    BY <2>1 DEF AtOf
  <2> QED BY <1>1, <2>1, <2>2, <2>3 DEF WorkersDay
<1> QED BY <1>3, <1>4, WorkerWrites

\* What the acceptance of a break establishes.
LEMMA AcceptedFits ==
  ASSUME TypeOK, NEW r \in Request, NEW type \in BreakType, NEW at \in Moment, BreakAccepted(r, type, at)
  PROVE  /\ r \notin Keys(marks)
         /\ Recorded(session.arrival) /\ session.arrival <= at /\ ~Recorded(session.departure)
         /\ AtOf(marks, type) = {}
         /\ type = "BREAK_END" => \E start \in AtOf(marks, "BREAK_START") : start <= at
<1>1. session.arrival \in Int /\ at \in Int /\ AtOf(marks, "BREAK_START") \subseteq Int
  <2>1. session.arrival \in Moments /\ AtOf(marks, "BREAK_START") \subseteq Nat
    BY MarksMade, AtFacts, SessionFields DEF TypeOK
  <2> QED BY <2>1, MomentsKnown DEF Moments, Missing
<1>2. /\ r \notin Keys(marks) /\ Recorded(session.arrival) /\ at >= session.arrival
      /\ ~Recorded(session.departure) /\ AtOf(marks, "BREAK_END") = {}
      /\ type = "BREAK_START" => AtOf(marks, "BREAK_START") = {}
      /\ type = "BREAK_END" => \E start \in AtOf(marks, "BREAK_START") : at >= start
  BY DEF BreakAccepted, Fresh
<1> QED BY <1>1, <1>2 DEF BreakType

LEMMA RegisterOfflineBreakStep ==
  ASSUME Inv, NEW r \in Request, NEW type \in BreakType, NEW capture \in Captures,
         RegisterOfflineBreak(r, type, capture)
  PROVE  Inv'
<1> DEFINE at == capture.at
           m == Mark(type, at, r)
<1>0. TypeOK /\ at \in Moment /\ session \in Sessions
  BY CaptureFacts DEF Inv, TypeOK
<1>1. /\ BreakAccepted(r, type, at) /\ marks' = marks \cup {m} /\ brk' = NoBreak
      /\ session' = Session(session.att, "REVIEW_REQUIRED", session.arrival, session.departure, session.worked)
      /\ UNCHANGED <<now, pending, recognized, made, op, history>>
  BY DEF RegisterOfflineBreak, Insert
<1>2. m \in MarksBy(made) /\ m.type = type /\ m.at = at /\ m.key = r
  BY <1>0, NewMark DEF MarkType, BreakType
<1>3. session' \in Sessions
  BY <1>0, <1>1, SessionFields, SessionType DEF ValidationStatus
<1>4. /\ session'.att = session.att /\ session'.arrival = session.arrival
      /\ session'.departure = session.departure /\ session'.worked = session.worked
  BY <1>1, SessionParts
<1> HIDE DEF at, m
<1>5. /\ m.key \notin Keys(marks)
      /\ Recorded(session.arrival) /\ session.arrival <= m.at /\ ~Recorded(session.departure)
      /\ AtOf(marks, m.type) = {}
      /\ m.type = "BREAK_END" => \E start \in AtOf(marks, "BREAK_START") : start <= m.at
  BY <1>0, <1>1, <1>2, AcceptedFits
<1> QED BY <1>1, <1>2, <1>3, <1>4, <1>5, BreakInserted

LEMMA ReadForOnlineBreakStep ==
  ASSUME Inv, NEW r \in Request, NEW type \in BreakType, ReadForOnlineBreak(r, type)
  PROVE  Inv'
<1>0. TypeOK /\ now \in Moment
  BY DEF Inv, TypeOK
<1>1. BreakAccepted(r, type, now) /\ brk' = Mark(type, now, r) /\ UNCHANGED <<now, rows, op, history>>
  BY DEF ReadForOnlineBreak
<1>2. brk' \in [type : BreakType, at : Moment, key : Request]
  BY <1>0, <1>1 DEF Mark
<1>3. brk'.type = type /\ brk'.at = now /\ brk'.key = r
  BY <1>1 DEF Mark
<1>4. TypeOK' /\ WorkdayInv'
  BY <1>1, <1>2 DEF Inv, TypeOK, WorkdayInv, rows, history
<1>5. KeysInv'
  BY <1>0, <1>1, <1>3, AcceptedFits DEF Inv, KeysInv, Keys, rows
<1>6. BreakFits'
  <2>1. /\ Recorded(session.arrival) /\ session.arrival <= now /\ ~Recorded(session.departure)
        /\ AtOf(marks, type) = {}
        /\ type = "BREAK_END" => \E start \in AtOf(marks, "BREAK_START") : start <= now
    BY <1>0, <1>1, AcceptedFits
  <2> QED BY <1>1, <1>3, <2>1 DEF BreakFits, rows
<1> QED BY <1>1, <1>4, <1>5, <1>6, RowsStay

LEMMA InsertOnlineBreakStep ==
  ASSUME Inv, InsertOnlineBreak
  PROVE  Inv'
<1>0. TypeOK /\ brk # NoBreak /\ session \in Sessions
  BY DEF Inv, TypeOK, InsertOnlineBreak
<1>1. /\ marks' = marks \cup {brk} /\ brk' = NoBreak /\ session' = session
      /\ UNCHANGED <<now, pending, recognized, made, op, history>>
  BY DEF InsertOnlineBreak
<1>2. brk \in [type : BreakType, at : Moment, key : Request]
  BY <1>0 DEF TypeOK
<1>3. brk \in MarksBy(made) /\ brk.type \in BreakType
  BY <1>2 DEF MarksBy, MarkType, BreakType
<1>4. brk.key \notin Keys(marks)
  BY <1>0 DEF Inv, KeysInv
<1>5. ~overlapped => BreakFits
  BY DEF Inv, Agreement
<1> QED BY <1>0, <1>1, <1>3, <1>4, <1>5, BreakInserted DEF BreakFits

LEMMA WorkerSteps ==
  ASSUME Inv, WorkerStep
  PROVE  Inv'
BY RegisterArrivalStep, RegisterDepartureStep, RegisterOfflineBreakStep, ReadForOnlineBreakStep,
   InsertOnlineBreakStep DEF WorkerStep

-----------------------------------------------------------------------------
(* The writes of coordination *)

\* Who wrote over nothing new still sees the rows as they are.
LEMMA StillCurrent ==
  ASSUME Inv, NEW c \in Coordinator, Close(c), ~overlapped'
  PROVE  /\ op[c].seen.session = session /\ op[c].seen.marks = marks
         /\ op[c].seen.pending = pending /\ op[c].seen.recognized = recognized
         /\ brk = NoBreak /\ ~overlapped /\ Told
<1>1. op[c].seen = View /\ brk = NoBreak /\ ~overlapped
  BY DEF Close
<1> QED BY <1>1, CurrentView DEF Inv, Agreement

\* What every write of coordination leaves right.
LEMMA Closes ==
  ASSUME Inv, NEW c \in Coordinator, Close(c), session' \in Sessions,
         marks' \in SUBSET MarksBy(made'), IsFiniteSet(marks'), pending' \subseteq MarkType,
         recognized' \in BOOLEAN, made' \in 0 .. MaxManual, blind' \in BOOLEAN,
         \A j, k \in marks' : j.key = k.key => j = k,
         \A j \in marks' : j.key \in Request => j.key \in Keys(marks),
         ~overlapped' => Told'
  PROVE  Inv'
<1>1. /\ op' = [op EXCEPT ![c] = Idle] /\ touched' = TRUE
      /\ overlapped' = (overlapped \/ op[c].seen # View \/ brk # NoBreak)
      /\ UNCHANGED <<now, brk>>
  BY DEF Close
<1>2. /\ op' \in [Coordinator -> [phase : Phase, seen : Views]]
      /\ op'[c] = Idle /\ \A d \in Coordinator : d # c => op'[d] = op[d]
  <2>1. Idle \in [phase : Phase, seen : Views]
    BY NothingSeen DEF Idle, Phase
  <2>2. op \in [Coordinator -> [phase : Phase, seen : Views]]
    BY DEF Inv, TypeOK
  <2> QED BY <1>1, <2>1, <2>2
<1>3. TypeOK'
  <2>1. \A d \in Coordinator : IsFiniteSet(op'[d].seen.marks)
    BY <1>2, NothingSeen DEF Inv, TypeOK, Idle
  <2>2. overlapped' \in BOOLEAN
    BY <1>1 DEF Inv, TypeOK
  <2> QED BY <1>1, <1>2, <2>1, <2>2 DEF Inv, TypeOK
<1>4. KeysInv'
  <2>1. brk # NoBreak => brk.key \in Request
    BY DEF Inv, TypeOK
  <2> QED BY <1>1, <2>1 DEF Inv, KeysInv, Keys
<1>5. WorkdayInv'
  <2>1. WorkdayInv
    BY DEF Inv
  <2>2. op'[c].phase # "reviewing workday"
    BY <1>2 DEF Idle
  <2> QED BY <1>2, <2>1, <2>2 DEF WorkdayInv
<1>6. ASSUME ~overlapped' PROVE BreakFits'
  BY <1>1, <1>6 DEF BreakFits
<1> QED BY <1>1, <1>3, <1>4, <1>5, <1>6 DEF Inv, Agreement

\* A write that leaves the marks alone.
LEMMA ClosesOnSession ==
  ASSUME Inv, NEW c \in Coordinator, Close(c), session' \in Sessions,
         UNCHANGED <<marks, pending, made>>, recognized' = FALSE, blind' \in BOOLEAN,
         ~overlapped' => Told'
  PROVE  Inv'
<1>1. /\ marks' \in SUBSET MarksBy(made') /\ IsFiniteSet(marks') /\ pending' \subseteq MarkType
      /\ recognized' \in BOOLEAN /\ made' \in 0 .. MaxManual
  BY DEF Inv, TypeOK
<1>2. /\ \A j, k \in marks' : j.key = k.key => j = k
      /\ \A j \in marks' : j.key \in Request => j.key \in Keys(marks)
  BY DEF Inv, KeysInv, Keys
<1> QED BY <1>1, <1>2, Closes

\* What is told of marks that stay, by a session that keeps its moments.
LEMMA ToldStays ==
  ASSUME Told, UNCHANGED marks, session'.arrival = session.arrival,
         session'.departure = session.departure,
         session'.att = "COMPLETED" =>
           /\ Recorded(session'.departure) /\ Recorded(session'.worked)
           /\ session'.val \in {"AUTO_VALIDATED", "MANUAL_VALIDATED"},
         ~blind' /\ Recorded(session'.worked) =>
           /\ Recorded(session'.arrival) /\ Recorded(session'.departure)
           /\ OneDeparture => \E early \in BOOLEAN : session'.worked = Worked(LatestTimeline(marks), early)
  PROVE  Told'
  BY DEF Told, OneDeparture

LEMMA ReviewArrivalStep ==
  ASSUME Inv, NEW c \in Coordinator, ReviewArrival(c)
  PROVE  Inv'
<1>0. session \in Sessions /\ blind \in BOOLEAN
  BY DEF Inv, TypeOK
<1>1. PICK att \in AttendanceStatus \ {"COMPLETED"}, val \in ValidationStatus :
        session' = Session(att, val, session.arrival, session.departure, session.worked)
  <2>1. PICK outcome \in {<<"CLASSIFIED", "MANUAL_VALIDATED">>, <<"REJECTED", "REJECTED">>,
                          <<"ARRIVAL_REPORTED", "REVIEW_REQUIRED">>} :
          session' = Session(outcome[1], outcome[2], session.arrival, session.departure, session.worked)
    BY DEF ReviewArrival
  <2>2. /\ outcome[1] \in AttendanceStatus \ {"COMPLETED"}
        /\ outcome[2] \in ValidationStatus
    BY DEF AttendanceStatus, ValidationStatus
  <2> QED BY <2>1, <2>2
<1>2. recognized' = FALSE /\ Close(c) /\ UNCHANGED <<blind, marks, pending, made>>
  BY DEF ReviewArrival
<1>3. session' \in Sessions
  BY <1>0, <1>1, SessionFields, SessionType
<1>4. /\ session'.att # "COMPLETED" /\ session'.arrival = session.arrival
      /\ session'.departure = session.departure /\ session'.worked = session.worked
  BY <1>1, SessionParts
<1>5. ASSUME ~overlapped' PROVE Told'
  <2>1. Told
    BY <1>2, <1>5, StillCurrent
  <2> QED BY <1>2, <1>4, <2>1, ToldStays DEF Told
<1> QED BY <1>0, <1>2, <1>3, <1>5, ClosesOnSession

LEMMA ReviewWorkdayStep ==
  ASSUME Inv, NEW c \in Coordinator, ReviewWorkday(c)
  PROVE  Inv'
<1> DEFINE seen == op[c].seen
           t == [LatestTimeline(seen.marks) EXCEPT !.arrival = seen.session.arrival,
                                                   !.departure = seen.session.departure]
<1>0. TypeOK /\ session \in Sessions /\ blind \in BOOLEAN
  BY DEF Inv, TypeOK
<1>1. op[c].phase = "reviewing workday" /\ recognized' = FALSE /\ Close(c) /\ UNCHANGED <<marks, pending, made>>
  BY DEF ReviewWorkday
<1>2. \/ \E early \in BOOLEAN :
           /\ session' = Session("COMPLETED", "MANUAL_VALIDATED", session.arrival, session.departure, Worked(t, early))
           /\ blind' = (blind \/ ~Recorded(seen.session.arrival))
      \/ /\ session' \in {Session("REJECTED", "REJECTED", session.arrival, session.departure, session.worked),
                          Session("DEPARTURE_REPORTED", "REVIEW_REQUIRED", session.arrival,
                                  session.departure, session.worked)}
         /\ UNCHANGED blind
  BY DEF ReviewWorkday
<1>3. Recorded(seen.session.departure)
  BY <1>1 DEF Inv, WorkdayInv
<1>4. seen.session \in Sessions /\ seen.marks \in SUBSET MarksBy(MaxManual) /\ IsFiniteSet(seen.marks)
  BY <1>0, SeenFacts
<1> HIDE DEF seen
<1>5. t \in Timelines
  BY <1>4, TimelineType, SessionFields DEF Timelines
<1>6. ASSUME ~overlapped'
      PROVE  /\ seen.session = session /\ seen.marks = marks /\ Told
             /\ OneDeparture => t = LatestTimeline(marks)
  <2>1. seen.session = session /\ seen.marks = marks /\ Told
    BY <1>1, <1>6, StillCurrent DEF seen
  <2>2. ASSUME OneDeparture
        PROVE  session.arrival = Latest(marks, "ARRIVAL") /\ session.departure = Latest(marks, "DEPARTURE")
    <3>1. session.departure # Missing
      BY <1>3, <2>1 DEF Recorded
    <3> QED BY <2>1, <2>2, <3>1 DEF Told
  <2>3. ASSUME OneDeparture PROVE t = LatestTimeline(marks)
    <3>1. t = [LatestTimeline(marks) EXCEPT !.arrival = Latest(marks, "ARRIVAL"),
                                            !.departure = Latest(marks, "DEPARTURE")]
      BY <2>1, <2>2, <2>3
    <3> HIDE DEF t
    <3> QED BY <3>1 DEF LatestTimeline
  <2> QED BY <2>1, <2>3
<1> HIDE DEF t
<1>7. ASSUME NEW early \in BOOLEAN,
             session' = Session("COMPLETED", "MANUAL_VALIDATED", session.arrival, session.departure, Worked(t, early)),
             blind' = (blind \/ ~Recorded(seen.session.arrival))
      PROVE  Inv'
  <2>1. Worked(t, early) \in Nat /\ Recorded(Worked(t, early))
    BY <1>5, WorkedType
  <2>2. session' \in Sessions
    BY <1>0, <1>7, <2>1, SessionFields, SessionType DEF AttendanceStatus, ValidationStatus
  <2>3. /\ session'.val = "MANUAL_VALIDATED" /\ session'.arrival = session.arrival
        /\ session'.departure = session.departure /\ session'.worked = Worked(t, early)
    BY <1>7, SessionParts
  <2>4. blind' \in BOOLEAN
    BY <1>7
  <2>5. ASSUME ~overlapped' PROVE Told'
    <3>1. seen.session = session /\ Told /\ (OneDeparture => t = LatestTimeline(marks))
      BY <1>6, <2>5
    <3>2. OneDeparture => session'.worked = Worked(LatestTimeline(marks), early)
      BY <2>3, <3>1
    <3> QED BY <1>1, <1>3, <1>7, <2>1, <2>3, <3>1, <3>2, ToldStays
  <2> QED BY <1>1, <2>2, <2>4, <2>5, ClosesOnSession
<1>8. ASSUME NEW att \in {"REJECTED", "DEPARTURE_REPORTED"}, NEW val \in ValidationStatus,
             session' = Session(att, val, session.arrival, session.departure, session.worked),
             UNCHANGED blind
      PROVE  Inv'
  <2>1. session' \in Sessions
    BY <1>0, <1>8, SessionFields, SessionType DEF AttendanceStatus
  <2>2. /\ session'.att # "COMPLETED" /\ session'.arrival = session.arrival
        /\ session'.departure = session.departure /\ session'.worked = session.worked
    BY <1>8, SessionParts
  <2>3. ASSUME ~overlapped' PROVE Told'
    <3>1. Told
      BY <1>6, <2>3
    <3> QED BY <1>1, <1>8, <2>2, <3>1, ToldStays DEF Told
  <2> QED BY <1>0, <1>1, <1>8, <2>1, <2>3, ClosesOnSession
<1> QED BY <1>2, <1>7, <1>8 DEF ValidationStatus

\* A correction's session tells the marks that it leaves.
LEMMA CorrectionTells ==
  ASSUME NEW n, NEW ms \in SUBSET MarksBy(n), IsFiniteSet(ms), NEW types, NEW early \in BOOLEAN,
         marks' = ms, session' = CorrectedSession(ms, types, early),
         \A j, k \in ms : j.type = k.type /\ j.type \in BreakType => j = k
  PROVE  Told'
<1>1. /\ session'.arrival = Latest(marks', "ARRIVAL")
      /\ session'.departure \in {Missing, Latest(marks', "DEPARTURE")}
      /\ session'.att = "COMPLETED" =>
           Recorded(session'.departure) /\ Recorded(session'.worked) /\ session'.val = "MANUAL_VALIDATED"
      /\ Recorded(session'.worked) =>
           /\ Recorded(session'.arrival) /\ Recorded(session'.departure)
           /\ session'.worked = Worked(LatestTimeline(marks'), early)
  BY CorrectedFacts
<1> QED BY <1>1 DEF Told

LEMMA EarlyType ==
  ASSUME TypeOK, NEW c \in Coordinator
  PROVE  RecognizesEarly(op[c].seen) \in BOOLEAN
  BY SeenFacts DEF RecognizesEarly

LEMMA ClearMarksStep ==
  ASSUME Inv, NEW c \in Coordinator, ClearMarks(c)
  PROVE  Inv'
<1>1. /\ session' = Session("PENDING", "PENDING", Missing, Missing, Missing)
      /\ marks' = {} /\ pending' = {} /\ recognized' = FALSE /\ Close(c) /\ UNCHANGED <<blind, made>>
  BY DEF ClearMarks
<1>2. session' \in Sessions
  BY <1>1, SessionType DEF AttendanceStatus, ValidationStatus
<1>3. Told'
  <2>1. \A type : Latest(marks', type) = Missing /\ AtOf(marks', type) = {}
    BY <1>1, NoMarks DEF Latest
  <2> QED BY <1>1, <2>1, SessionParts DEF Told, Recorded
<1>4. marks' \in SUBSET MarksBy(made') /\ IsFiniteSet(marks') /\ pending' \subseteq MarkType
  BY <1>1, FS_EmptySet
<1>5. recognized' \in BOOLEAN /\ made' \in 0 .. MaxManual /\ blind' \in BOOLEAN
  BY <1>1 DEF Inv, TypeOK
<1> QED BY <1>1, <1>2, <1>3, <1>4, <1>5, Closes

\* The key of a mark is enough to take it out.
LEMMA KeyTaken ==
  ASSUME Inv, NEW target \in marks
  PROVE  {m \in marks : m.key # target.key} = marks \ {target}
  BY DEF Inv, KeysInv

LEMMA DeleteMarkStep ==
  ASSUME Inv, NEW c \in Coordinator, DeleteMark(c)
  PROVE  Inv'
<1> DEFINE seen == op[c].seen
           early == RecognizesEarly(seen)
           left(target) == seen.marks \ {target}
<1>0. TypeOK /\ early \in BOOLEAN
  BY EarlyType DEF Inv
<1>1. PICK target \in seen.marks :
        /\ marks' = {m \in marks : m.key # target.key}
        /\ session' = CorrectedSession(left(target), seen.pending \cup {target.type}, early)
        /\ pending' = pending \cup {target.type}
  BY DEF DeleteMark
<1>2. recognized' = early /\ Close(c) /\ UNCHANGED <<blind, made>>
  BY DEF DeleteMark
<1>3. seen.marks \in SUBSET MarksBy(MaxManual) /\ IsFiniteSet(seen.marks)
  BY <1>0, SeenFacts
<1>4. left(target) \in SUBSET MarksBy(MaxManual) /\ IsFiniteSet(left(target))
  BY <1>3, FS_RemoveElement
<1> HIDE DEF early
<1>5. session' \in Sessions
  BY <1>0, <1>1, <1>4, CorrectedFacts
<1>6. marks' \subseteq marks /\ marks' \in SUBSET MarksBy(made') /\ IsFiniteSet(marks')
  BY <1>0, <1>1, <1>2, MarksMade, FS_Subset
<1>7. /\ \A j, k \in marks' : j.key = k.key => j = k
      /\ \A j \in marks' : j.key \in Request => j.key \in Keys(marks)
  BY <1>6 DEF Inv, KeysInv, Keys
<1>8. ASSUME ~overlapped' PROVE Told'
  <2>1. seen.marks = marks /\ Told
    BY <1>2, <1>8, StillCurrent
  <2>2. marks' = left(target)
    BY <1>1, <2>1, KeyTaken
  <2>3. \A j, k \in left(target) : j.type = k.type /\ j.type \in BreakType => j = k
    BY <2>1 DEF Told
  <2> HIDE DEF left, seen
  <2> QED BY <1>0, <1>1, <1>4, <2>2, <2>3, CorrectionTells
<1>9. target.type \in MarkType
  BY <1>1, <1>3, MarkParts
<1>10. /\ pending' \subseteq MarkType /\ recognized' \in BOOLEAN
       /\ made' \in 0 .. MaxManual /\ blind' \in BOOLEAN
  BY <1>0, <1>1, <1>2, <1>9 DEF TypeOK
<1> QED BY <1>2, <1>5, <1>6, <1>7, <1>8, <1>10, Closes

LEMMA EditMarkStep ==
  ASSUME Inv, NEW c \in Coordinator, EditMark(c)
  PROVE  Inv'
<1> DEFINE seen == op[c].seen
           early == RecognizesEarly(seen)
           edited(target, at) == Mark(target.type, at, target.key)
           next(target, at) == (seen.marks \ {target}) \cup {edited(target, at)}
<1>0. TypeOK /\ early \in BOOLEAN
  BY EarlyType DEF Inv
<1>1. PICK target \in seen.marks, at \in Moment :
        /\ target.key \in Keys(marks)
        /\ marks' = {m \in marks : m.key # target.key} \cup {edited(target, at)}
        /\ session' = CorrectedSession(next(target, at), seen.pending, early)
  BY DEF EditMark
<1>2. recognized' = early /\ Close(c) /\ UNCHANGED <<blind, pending, made>>
  BY DEF EditMark
<1>3. seen.marks \in SUBSET MarksBy(MaxManual) /\ IsFiniteSet(seen.marks)
  BY <1>0, SeenFacts
<1>4. target.type \in MarkType /\ target.key \in Request \cup (MarkType \X (1 .. made))
  <2>1. target.type \in MarkType
    BY <1>1, <1>3, MarkParts
  <2>2. PICK m \in marks : m.key = target.key
    BY <1>1 DEF Keys
  <2>3. m.key \in Request \cup (MarkType \X (1 .. made))
    BY <1>0, <2>2, MarksMade, MarkParts
  <2> QED BY <2>1, <2>2, <2>3
<1> DEFINE new == edited(target, at)
<1>5. /\ new \in MarksBy(made) /\ new \in MarksBy(MaxManual)
      /\ new.type = target.type /\ new.key = target.key
  <2>1. new \in MarksBy(made) /\ new.type = target.type /\ new.key = target.key
    BY <1>1, <1>4, NewMark
  <2>2. MarksBy(made) \subseteq MarksBy(MaxManual)
    BY <1>0, AttendanceAssumption, MarksMade, MoreMarks
  <2> QED BY <2>1, <2>2
<1> HIDE DEF new, early
<1> DEFINE fixed == (seen.marks \ {target}) \cup {new}
<1>6. fixed \in SUBSET MarksBy(MaxManual) /\ IsFiniteSet(fixed)
  <2>1. IsFiniteSet(seen.marks \ {target})
    BY <1>3, FS_RemoveElement
  <2> QED BY <1>3, <1>5, <2>1, FS_AddElement
<1>7. session' = CorrectedSession(fixed, seen.pending, early)
  BY <1>1 DEF new
<1>8. session' \in Sessions
  BY <1>0, <1>6, <1>7, CorrectedFacts
<1>9. marks' = {m \in marks : m.key # target.key} \cup {new}
  BY <1>1 DEF new
<1>10. marks' \in SUBSET MarksBy(made') /\ IsFiniteSet(marks')
  <2>1. {m \in marks : m.key # target.key} \in SUBSET marks
    OBVIOUS
  <2>2. IsFiniteSet({m \in marks : m.key # target.key})
    BY <1>0, <2>1, MarksMade, FS_Subset
  <2> QED BY <1>0, <1>2, <1>5, <1>9, <2>2, MarksMade, FS_AddElement
<1>11. /\ \A j, k \in marks' : j.key = k.key => j = k
       /\ \A j \in marks' : j.key \in Request => j.key \in Keys(marks)
  BY <1>1, <1>5, <1>9 DEF Inv, KeysInv, Keys
<1>12. ASSUME ~overlapped' PROVE Told'
  <2>1. seen.marks = marks /\ Told
    BY <1>2, <1>12, StillCurrent
  <2>2. marks' = fixed
    BY <1>1, <1>9, <2>1, KeyTaken
  <2>3. \A j, k \in fixed : j.type = k.type /\ j.type \in BreakType => j = k
    BY <1>1, <1>5, <2>1 DEF Told
  <2> HIDE DEF fixed, seen
  <2> QED BY <1>0, <1>6, <1>7, <2>2, <2>3, CorrectionTells
<1>13. /\ pending' \subseteq MarkType /\ recognized' \in BOOLEAN
       /\ made' \in 0 .. MaxManual /\ blind' \in BOOLEAN
  BY <1>0, <1>2 DEF TypeOK
<1> QED BY <1>2, <1>8, <1>10, <1>11, <1>12, <1>13, Closes

\* The key of a mark of coordination is new.
LEMMA ManualKeyIsNew ==
  ASSUME TypeOK, made < MaxManual, NEW type \in MarkType
  PROVE  /\ <<type, made + 1>> \notin Request /\ <<type, made + 1>> \notin Keys(marks)
         /\ <<type, made + 1>> \in MarkType \X (1 .. (made + 1))
         /\ made + 1 \in 0 .. MaxManual
<1>1. made \in Nat /\ MaxManual \in Nat
  BY AttendanceAssumption DEF TypeOK
<1>2. <<type, made + 1>> \in MarkType \X (1 .. MaxManual) /\ <<type, made + 1>> \in MarkType \X (1 .. (made + 1))
  BY <1>1
<1>3. <<type, made + 1>> \notin Request
  BY <1>2, AttendanceAssumption
<1>4. ASSUME NEW m \in marks, m.key = <<type, made + 1>> PROVE FALSE
  <2>1. m.key \in MarkType \X (1 .. made)
    BY <1>3, <1>4, MarksMade, MarkParts
  <2>2. made + 1 \in 1 .. made
    BY <1>4, <2>1
  <2> QED BY <1>1, <2>2
<1> QED BY <1>1, <1>2, <1>3, <1>4 DEF Keys

LEMMA AddMarkStep ==
  ASSUME Inv, NEW c \in Coordinator, AddMark(c)
  PROVE  Inv'
<1> DEFINE seen == op[c].seen
           early == RecognizesEarly(seen)
<1>0. TypeOK /\ early \in BOOLEAN
  BY EarlyType DEF Inv
<1>1. PICK type \in seen.pending, at \in Moment :
        LET mark == Mark(type, at, <<type, made'>>) IN
        /\ AtOf(seen.marks, type) = {}
        /\ marks' = marks \cup {mark}
        /\ session' = CorrectedSession(seen.marks \cup {mark}, seen.pending \ {type}, early)
        /\ pending' = pending \ {type}
  BY DEF AddMark
<1>2. recognized' = early /\ Close(c) /\ UNCHANGED blind /\ made < MaxManual /\ made' = made + 1
  BY DEF AddMark
<1>3. /\ seen.marks \in SUBSET MarksBy(MaxManual) /\ IsFiniteSet(seen.marks)
      /\ type \in MarkType
  BY <1>0, <1>1, SeenFacts
<1> DEFINE mark == Mark(type, at, <<type, made + 1>>)
<1>4. /\ mark \in MarksBy(made + 1) /\ mark \in MarksBy(MaxManual)
      /\ mark.type = type /\ mark.key \notin Request /\ mark.key \notin Keys(marks)
      /\ made + 1 \in 0 .. MaxManual
  <2>1. /\ <<type, made + 1>> \notin Request /\ <<type, made + 1>> \notin Keys(marks)
        /\ <<type, made + 1>> \in MarkType \X (1 .. (made + 1))
        /\ made + 1 \in 0 .. MaxManual
    BY <1>0, <1>2, <1>3, ManualKeyIsNew
  <2>2. mark \in MarksBy(made + 1) /\ mark.type = type /\ mark.key = <<type, made + 1>>
    BY <1>1, <1>3, <2>1, NewMark
  <2>3. MarksBy(made + 1) \subseteq MarksBy(MaxManual)
    BY <2>1, AttendanceAssumption, MoreMarks
  <2> QED BY <2>1, <2>2, <2>3
<1>5. /\ marks' = marks \cup {mark}
      /\ session' = CorrectedSession(seen.marks \cup {mark}, seen.pending \ {type}, early)
      /\ AtOf(seen.marks, type) = {} /\ pending' = pending \ {type}
  BY <1>1, <1>2
<1> HIDE DEF mark, early
<1>6. seen.marks \cup {mark} \in SUBSET MarksBy(MaxManual) /\ IsFiniteSet(seen.marks \cup {mark})
  BY <1>3, <1>4, FS_AddElement
<1>7. session' \in Sessions
  BY <1>0, <1>5, <1>6, CorrectedFacts
<1>8. marks' \in SUBSET MarksBy(made') /\ IsFiniteSet(marks')
  <2>1. marks \subseteq MarksBy(made + 1) /\ IsFiniteSet(marks)
    BY <1>0, MarksMade, MoreMarks
  <2> QED BY <1>2, <1>4, <1>5, <2>1, FS_AddElement
<1>9. /\ \A j, k \in marks' : j.key = k.key => j = k
      /\ \A j \in marks' : j.key \in Request => j.key \in Keys(marks)
  BY <1>4, <1>5 DEF Inv, KeysInv, Keys
<1>10. ASSUME ~overlapped' PROVE Told'
  <2>1. seen.marks = marks /\ Told
    BY <1>2, <1>10, StillCurrent
  <2>2. marks' = seen.marks \cup {mark}
    BY <1>5, <2>1
  <2>3. \A j \in marks : j.type # type
    BY <1>5, <2>1 DEF AtOf
  <2>4. \A j, k \in seen.marks \cup {mark} : j.type = k.type /\ j.type \in BreakType => j = k
    BY <1>4, <2>1, <2>3 DEF Told
  <2> QED BY <1>0, <1>5, <1>6, <2>2, <2>4, CorrectionTells
<1>11. /\ pending' \subseteq MarkType /\ recognized' \in BOOLEAN
       /\ made' \in 0 .. MaxManual /\ blind' \in BOOLEAN
  BY <1>0, <1>2, <1>4, <1>5 DEF TypeOK
<1> QED BY <1>2, <1>7, <1>8, <1>9, <1>10, <1>11, Closes

LEMMA MarkTypesAreFinite == \A types \in SUBSET MarkType : IsFiniteSet(types)
<1>1. MarkType = (({"ARRIVAL"} \cup {"BREAK_START"}) \cup {"BREAK_END"}) \cup {"DEPARTURE"}
  BY DEF MarkType
<1>2. IsFiniteSet({"ARRIVAL"})
  BY FS_Singleton
<1>3. IsFiniteSet(MarkType)
  BY <1>1, <1>2, FS_AddElement
<1> QED BY <1>3, FS_Subset

\* The marks of a form: one for each type it names.
LEMMA FormMarks ==
  ASSUME TypeOK, made < MaxManual, NEW form \in Forms
  PROVE  LET given == {Mark(type, form[type], <<type, made + 1>>) : type \in DOMAIN form} IN
         /\ given \in SUBSET MarksBy(made + 1) /\ IsFiniteSet(given)
         /\ \A m \in given : /\ m.type \in DOMAIN form
                             /\ m.key = <<m.type, made + 1>>
                             /\ m.key \notin Request /\ m.key \notin Keys(marks)
         /\ \A j, k \in given : j.type = k.type \/ j.key = k.key => j = k
<1> DEFINE mark == [type \in DOMAIN form |-> Mark(type, form[type], <<type, made + 1>>)]
           given == {Mark(type, form[type], <<type, made + 1>>) : type \in DOMAIN form}
<1>1. DOMAIN form \in SUBSET MarkType /\ \A type \in DOMAIN form : form[type] \in Moment
  BY AttendanceAssumption DEF Forms
<1>2. ASSUME NEW type \in DOMAIN form
      PROVE  /\ mark[type] \in MarksBy(made + 1)
             /\ mark[type].type = type /\ mark[type].key = <<type, made + 1>>
             /\ mark[type].key \notin Request /\ mark[type].key \notin Keys(marks)
  <2>1. /\ <<type, made + 1>> \notin Request /\ <<type, made + 1>> \notin Keys(marks)
        /\ <<type, made + 1>> \in MarkType \X (1 .. (made + 1))
    BY <1>1, ManualKeyIsNew
  <2> QED BY <1>1, <2>1, NewMark
<1>3. given = {mark[type] : type \in DOMAIN form}
  OBVIOUS
<1>4. IsFiniteSet(given)
  <2>1. IsFiniteSet(DOMAIN form)
    BY <1>1, MarkTypesAreFinite
  <2>2. mark \in Surjection(DOMAIN form, given)
    BY <1>3 DEF Surjection
  <2> HIDE DEF mark, given
  <2> QED BY <2>1, <2>2, FS_Surjection
<1> HIDE DEF mark, given
<1>5. \A m \in given : /\ m \in MarksBy(made + 1) /\ m.type \in DOMAIN form
                       /\ m.key = <<m.type, made + 1>> /\ m = mark[m.type]
                       /\ m.key \notin Request /\ m.key \notin Keys(marks)
  BY <1>2, <1>3
<1>6. ASSUME NEW j \in given, NEW k \in given, j.type = k.type \/ j.key = k.key PROVE j = k
  BY <1>5, <1>6
<1> QED BY <1>4, <1>5, <1>6 DEF given

LEMMA RegisterManualWorkdayStep ==
  ASSUME Inv, NEW c \in Coordinator, RegisterManualWorkday(c)
  PROVE  Inv'
<1> DEFINE seen == op[c].seen
<1>0. TypeOK
  BY DEF Inv
<1>1. PICK form \in Forms :
        LET given == {Mark(type, form[type], <<type, made'>>) : type \in DOMAIN form} IN
        /\ FormAllowed(seen, form)
        /\ session' = ManualSession(seen.session, seen.marks \cup given)
        /\ marks' = marks \cup given
        /\ pending' = IF {"ARRIVAL", "DEPARTURE"} \subseteq DOMAIN form THEN {} ELSE pending
  BY DEF RegisterManualWorkday
<1>2. recognized' = FALSE /\ Close(c) /\ UNCHANGED blind /\ made < MaxManual /\ made' = made + 1
  BY DEF RegisterManualWorkday
<1> DEFINE given == {Mark(type, form[type], <<type, made + 1>>) : type \in DOMAIN form}
           ms == seen.marks \cup given
<1>3. /\ FormAllowed(seen, form)
      /\ session' = ManualSession(seen.session, ms)
      /\ marks' = marks \cup given
      /\ pending' \in {{}, pending}
  BY <1>1, <1>2
<1>4. /\ given \in SUBSET MarksBy(made + 1) /\ IsFiniteSet(given)
      /\ \A m \in given : /\ m.type \in DOMAIN form
                          /\ m.key \notin Request /\ m.key \notin Keys(marks)
      /\ \A j, k \in given : j.type = k.type \/ j.key = k.key => j = k
  BY <1>0, <1>2, FormMarks
<1>5. /\ seen.session \in Sessions /\ seen.marks \in SUBSET MarksBy(MaxManual)
      /\ IsFiniteSet(seen.marks)
  BY <1>0, SeenFacts
<1>6. \A m \in seen.marks : m.type \notin DOMAIN form
  BY <1>3 DEF FormAllowed
<1> HIDE DEF given, seen
<1>7. made + 1 \in 0 .. MaxManual /\ MarksBy(made) \subseteq MarksBy(made + 1) /\ MarksBy(made + 1) \subseteq MarksBy(MaxManual)
  BY <1>0, <1>2, AttendanceAssumption, MoreMarks DEF TypeOK
<1>8. ms \in SUBSET MarksBy(MaxManual) /\ IsFiniteSet(ms)
  BY <1>4, <1>5, <1>7, FS_Union
<1> HIDE DEF ms
<1>9. session' \in Sessions
  BY <1>3, <1>5, <1>8, ManualFacts
<1>10. marks' \in SUBSET MarksBy(made') /\ IsFiniteSet(marks')
  BY <1>0, <1>2, <1>3, <1>4, <1>7, MarksMade, FS_Union
<1>11. /\ \A j, k \in marks' : j.key = k.key => j = k
       /\ \A j \in marks' : j.key \in Request => j.key \in Keys(marks)
  BY <1>3, <1>4 DEF Inv, KeysInv, Keys
<1>12. /\ pending' \subseteq MarkType /\ recognized' \in BOOLEAN
       /\ made' \in 0 .. MaxManual /\ blind' \in BOOLEAN
  BY <1>0, <1>2, <1>3, <1>7 DEF TypeOK
<1>13. ASSUME ~overlapped' PROVE Told'
  <2> DEFINE t == ManualTimeline(session, ms)
             A == Latest(ms, "ARRIVAL")
             D == Latest(ms, "DEPARTURE")
  <2>1. seen.marks = marks /\ seen.session = session /\ Told
    BY <1>2, <1>13, StillCurrent DEF seen
  <2>2. marks' = ms /\ session' = ManualSession(session, ms) /\ marks \subseteq ms
    BY <1>3, <2>1 DEF ms
  <2>3. /\ session'.arrival = t.arrival /\ session'.departure = t.departure
        /\ session'.att = "COMPLETED" =>
             Recorded(session'.departure) /\ Recorded(session'.worked) /\ session'.val = "MANUAL_VALIDATED"
        /\ Recorded(session'.worked) =>
             Recorded(session'.arrival) /\ Recorded(session'.departure) /\ session'.worked = Worked(t, FALSE)
    BY <1>5, <1>8, <2>1, <2>2, ManualFacts
  <2>4. /\ t.arrival = IF Recorded(A) THEN A ELSE session.arrival
        /\ t.departure = IF Recorded(D) THEN D ELSE session.departure
        /\ Recorded(A) /\ Recorded(D) => t = LatestTimeline(ms)
    BY <1>5, <1>8, <2>1, ManualTimelineFacts
  <2>5. \A type : /\ ~Recorded(Latest(ms, type)) <=> AtOf(ms, type) = {}
                  /\ ~Recorded(Latest(marks, type)) <=> AtOf(marks, type) = {}
                  /\ AtOf(marks, type) \subseteq AtOf(ms, type)
    <3>1. \A type : ~Recorded(Latest(ms, type)) <=> AtOf(ms, type) = {}
      BY <1>8, LatestFacts
    <3>2. \A type : ~Recorded(Latest(marks, type)) <=> AtOf(marks, type) = {}
      BY <1>0, NoneOfType
    <3>3. \A type : AtOf(marks, type) \subseteq AtOf(ms, type)
      BY <2>2 DEF AtOf
    <3> QED BY <3>1, <3>2, <3>3
  <2> HIDE DEF t, A, D
  <2>6. session'.arrival = A /\ (~Recorded(A) => ~Recorded(session.arrival))
    <3>1. CASE Recorded(A)
      BY <2>3, <2>4, <3>1
    <3>2. CASE ~Recorded(A)
      <4>1. ~Recorded(Latest(marks, "ARRIVAL"))
        BY <2>5, <3>2 DEF A
      <4>2. session.arrival = Missing /\ A = Missing
        BY <2>1, <3>2, <4>1 DEF Told, Recorded
      <4> QED BY <2>3, <2>4, <3>2, <4>2 DEF Recorded
    <3> QED BY <3>1, <3>2
  <2>7. ASSUME OneDeparture' PROVE session'.departure = D
    <3>1. CASE Recorded(D)
      BY <2>3, <2>4, <3>1
    <3>2. CASE ~Recorded(D)
      <4>1. ~Recorded(Latest(marks, "DEPARTURE")) /\ AtOf(marks, "DEPARTURE") = {}
        BY <2>5, <3>2 DEF D
      <4>2. session.departure = Missing /\ D = Missing
        BY <2>1, <3>2, <4>1 DEF Told, Recorded, OneDeparture
      <4> QED BY <2>3, <2>4, <3>2, <4>2 DEF Recorded
    <3> QED BY <3>1, <3>2
  <2>8. \A j, k \in marks' : j.type = k.type /\ j.type \in BreakType => j = k
    <3>1. \A j, k \in marks : j.type = k.type /\ j.type \in BreakType => j = k
      BY <2>1 DEF Told
    <3>2. \A j \in marks, k \in given : j.type # k.type
      BY <1>4, <1>6, <2>1
    <3> QED BY <1>3, <1>4, <3>1, <3>2
  <2>9. ASSUME OneDeparture', Recorded(session'.worked)
        PROVE  session'.worked = Worked(LatestTimeline(marks'), FALSE)
    BY <2>2, <2>3, <2>4, <2>6, <2>7, <2>9
  <2>10. session'.arrival = Latest(marks', "ARRIVAL") /\ (OneDeparture' => session'.departure = Latest(marks', "DEPARTURE"))
    BY <2>2, <2>6, <2>7 DEF A, D
  <2> QED BY <2>3, <2>8, <2>9, <2>10 DEF Told
<1> QED BY <1>2, <1>9, <1>10, <1>11, <1>12, <1>13, Closes

LEMMA RegisterManualArrivalStep ==
  ASSUME Inv, NEW c \in Coordinator, RegisterManualArrival(c)
  PROVE  Inv'
<1> DEFINE seen == op[c].seen
<1>0. TypeOK /\ session \in Sessions /\ made \in Nat
  BY DEF Inv, TypeOK
<1>1. PICK at \in Moment :
        /\ session' = Session("CLASSIFIED", "MANUAL_VALIDATED", at, session.departure, session.worked)
        /\ marks' = marks \cup {Mark("ARRIVAL", at, <<"ARRIVAL", made'>>)}
  BY DEF RegisterManualArrival
<1>2. /\ recognized' = FALSE /\ Close(c) /\ UNCHANGED <<blind, pending>>
      /\ made < MaxManual /\ made' = made + 1 /\ ~Recorded(seen.session.arrival)
  BY DEF RegisterManualArrival
<1> DEFINE m == Mark("ARRIVAL", at, <<"ARRIVAL", made + 1>>)
<1>3. /\ m \in MarksBy(made + 1) /\ m.type = "ARRIVAL" /\ m.at = at
      /\ m.key \notin Request /\ m.key \notin Keys(marks) /\ made + 1 \in 0 .. MaxManual
  <2>1. "ARRIVAL" \in MarkType
    BY DEF MarkType
  <2>2. /\ <<"ARRIVAL", made + 1>> \notin Request /\ <<"ARRIVAL", made + 1>> \notin Keys(marks)
        /\ <<"ARRIVAL", made + 1>> \in MarkType \X (1 .. (made + 1))
        /\ made + 1 \in 0 .. MaxManual
    BY <1>0, <1>2, <2>1, ManualKeyIsNew
  <2> QED BY <1>1, <2>1, <2>2, NewMark
<1>4. marks' = marks \cup {m}
  BY <1>1, <1>2
<1> HIDE DEF m
<1>5. marks \in SUBSET MarksBy(made + 1) /\ IsFiniteSet(marks)
  BY <1>0, MarksMade, MoreMarks
<1>6. /\ marks' \in SUBSET MarksBy(made') /\ IsFiniteSet(marks')
      /\ AtOf(marks, "ARRIVAL") = {} => Latest(marks', "ARRIVAL") = at
      /\ AtOf(marks', "DEPARTURE") = AtOf(marks, "DEPARTURE")
      /\ Latest(marks', "DEPARTURE") = Latest(marks, "DEPARTURE")
  <2> DEFINE n == made + 1
  <2>0. m \in MarksBy(n) /\ marks \in SUBSET MarksBy(n) /\ IsFiniteSet(marks)
    BY <1>3, <1>5
  <2> HIDE DEF n
  <2>1. /\ marks \cup {m} \in SUBSET MarksBy(n) /\ IsFiniteSet(marks \cup {m})
        /\ AtOf(marks, m.type) = {} => Latest(marks \cup {m}, m.type) = m.at
        /\ \A type : type # m.type =>
              /\ AtOf(marks \cup {m}, type) = AtOf(marks, type)
              /\ Latest(marks \cup {m}, type) = Latest(marks, type)
    BY <2>0, AddedMark
  <2> QED BY <1>2, <1>3, <1>4, <2>1 DEF n
<1>7. session' \in Sessions
  BY <1>0, <1>1, SessionFields, SessionType DEF AttendanceStatus, ValidationStatus
<1>8. /\ session'.att = "CLASSIFIED" /\ session'.arrival = at
      /\ session'.departure = session.departure /\ session'.worked = session.worked
  BY <1>1, SessionParts
<1>9. /\ \A j, k \in marks' : j.key = k.key => j = k
      /\ \A j \in marks' : j.key \in Request => j.key \in Keys(marks)
  BY <1>3, <1>4 DEF Inv, KeysInv, Keys
<1>10. ASSUME ~overlapped' PROVE Told'
  <2>1. seen.session = session /\ Told
    BY <1>2, <1>10, StillCurrent
  <2>2. AtOf(marks, "ARRIVAL") = {} /\ ~Recorded(session.arrival)
    BY <1>0, <1>2, <2>1, NoneOfType DEF Told
  <2>3. \A j, k \in marks' : j.type = k.type /\ j.type \in BreakType => j = k
    BY <1>3, <1>4, <2>1 DEF Told, BreakType
  <2>4. ~(~blind' /\ Recorded(session'.worked))
    BY <1>2, <1>8, <2>1, <2>2 DEF Told
  <2> QED BY <1>6, <1>8, <2>1, <2>2, <2>3, <2>4 DEF Told, OneDeparture
<1>11. /\ pending' \subseteq MarkType /\ recognized' \in BOOLEAN
       /\ made' \in 0 .. MaxManual /\ blind' \in BOOLEAN
  BY <1>0, <1>2, <1>3 DEF TypeOK
<1> QED BY <1>2, <1>6, <1>7, <1>9, <1>10, <1>11, Closes

-----------------------------------------------------------------------------
(* Theorems *)

LEMMA NextInv == Inv /\ [Next]_vars => Inv'
<1> SUFFICES ASSUME Inv, [Next]_vars PROVE Inv'
  OBVIOUS
<1>1. CASE Tick
  <2>1. TypeOK' /\ WorkdayInv'
    BY <1>1 DEF Tick, Inv, TypeOK, WorkdayInv, rows, history
  <2> QED BY <1>1, <2>1, RowsStay DEF Tick
<1>2. CASE UNCHANGED vars
  <2>1. TypeOK' /\ WorkdayInv'
    BY <1>2 DEF vars, Inv, TypeOK, WorkdayInv, rows, history
  <2> QED BY <1>2, <2>1, RowsStay DEF vars
<1>3. CASE WorkerStep
  BY <1>3, WorkerSteps
<1>4. ASSUME NEW c \in Coordinator, CoordinatorStep(c) PROVE Inv'
  BY <1>4, OpSteps, ReviewArrivalStep, ReviewWorkdayStep, ClearMarksStep, DeleteMarkStep, EditMarkStep,
     AddMarkStep, RegisterManualWorkdayStep, RegisterManualArrivalStep DEF CoordinatorStep
<1> QED BY <1>1, <1>2, <1>3, <1>4 DEF Next

\* Every state of an attendance satisfies the inductive invariant.
THEOREM AttendanceInvariant == Spec => []Inv
<1>1. Init => Inv
  BY InitInv
<1>2. Inv /\ [Next]_vars => Inv'
  BY NextInv
<1> QED BY <1>1, <1>2, PTL DEF Spec

\* The arrival of the session is that of its marks, and so is its departure
\* unless a correction hid it, whoever wrote and in whatever order, until
\* someone writes over what it has not read (attendanceCorrectionService.js).
THEOREM SessionsAreTrue == Spec => []SessionTellsTheMarks
<1>1. Inv => SessionTellsTheMarks
  BY DEF Inv, Agreement, Told, SessionTellsTheMarks, Straight
<1> QED BY <1>1, AttendanceInvariant, PTL

\* The minutes of a day are those of its marks.
THEOREM MinutesAreTrue == Spec => []WorkedMinutesComeFromMarks
<1>1. Inv => WorkedMinutesComeFromMarks
  BY DEF Inv, Agreement, Told, WorkedMinutesComeFromMarks, Straight
<1> QED BY <1>1, AttendanceInvariant, PTL

\* A completed day has a departure, its minutes and a validation.
THEOREM CompletedMeansWhole == Spec => []CompletedDaysAreWhole
<1>1. Inv => CompletedDaysAreWhole
  BY DEF Inv, Agreement, Told, CompletedDaysAreWhole
<1> QED BY <1>1, AttendanceInvariant, PTL

\* The marks of a worker left alone tell one day, for any number of requests
\* delivered in any order with any times.
THEOREM WorkersTellOneDay == Spec => []WorkersTimelineIsOrdered
<1> SUFFICES ASSUME Inv, ~touched
             PROVE  /\ \A m, n \in marks : m.type = n.type => m = n
                    /\ \A m \in marks : AtOf(marks, "ARRIVAL") # {} /\ First(marks, "ARRIVAL") <= m.at
                    /\ AtOf(marks, "BREAK_END") # {} =>
                         /\ AtOf(marks, "BREAK_START") # {}
                         /\ First(marks, "BREAK_START") <= First(marks, "BREAK_END")
  <2>1. Inv => WorkersTimelineIsOrdered
    BY DEF WorkersTimelineIsOrdered
  <2> QED BY <2>1, AttendanceInvariant, PTL
<1>1. TypeOK /\ Told /\ WorkersDay
  BY DEF Inv, Agreement
<1>2. \A type : AtOf(marks, type) # {} => /\ First(marks, type) \in AtOf(marks, type)
                                         /\ \A x \in AtOf(marks, type) : First(marks, type) <= x
  BY <1>1, MarksMade, LatestFacts
<1>3. \A m, n \in marks : m.type = n.type => m = n
  BY <1>1 DEF WorkersDay
<1>4. ASSUME NEW m \in marks PROVE AtOf(marks, "ARRIVAL") # {} /\ First(marks, "ARRIVAL") <= m.at
  <2>1. Recorded(session.arrival) /\ session.arrival <= m.at /\ session.arrival = Latest(marks, "ARRIVAL")
    BY <1>1 DEF WorkersDay, Told
  <2>2. AtOf(marks, "ARRIVAL") # {}
    BY <1>1, <2>1, NoneOfType
  <2>3. First(marks, "ARRIVAL") = session.arrival
    <3>1. PICK at : at \in AtOf(marks, "ARRIVAL")
      BY <2>2
    <3>2. \A x \in AtOf(marks, "ARRIVAL") : x = at
      BY <1>3, <3>1 DEF AtOf
    <3> QED BY <1>1, <2>1, <3>1, <3>2, MarksMade, OnlyMoment
  <2> QED BY <2>1, <2>2, <2>3
<1>5. ASSUME AtOf(marks, "BREAK_END") # {}
      PROVE  AtOf(marks, "BREAK_START") # {} /\ First(marks, "BREAK_START") <= First(marks, "BREAK_END")
  <2>1. PICK m \in marks : m.type = "BREAK_END" /\ m.at = First(marks, "BREAK_END")
    BY <1>2, <1>5 DEF AtOf
  <2>2. PICK n \in marks : n.type = "BREAK_START" /\ n.at <= m.at
    BY <1>1, <2>1 DEF WorkersDay
  <2>3. n.at \in AtOf(marks, "BREAK_START")
    BY <2>2 DEF AtOf
  <2>4. First(marks, "BREAK_START") <= n.at /\ First(marks, "BREAK_START") \in Nat /\ n.at \in Nat /\ m.at \in Nat
    BY <1>1, <1>2, <2>1, <2>2, <2>3, MarksMade, MarkParts, AtFacts
  <2> QED BY <2>1, <2>2, <2>3, <2>4
<1> QED BY <1>3, <1>4, <1>5

\* What a step may do to a validation that waits for a reviewer.
LEMMA NextValidation ==
  ASSUME TypeOK, [Next]_vars, session.val \in {"REVIEW_REQUIRED", "REJECTED"},
         session'.val \in {"AUTO_VALIDATED", "MANUAL_VALIDATED"}, Recorded(session.arrival)
  PROVE  \E c \in Coordinator : op[c] # Idle /\ op'[c] = Idle
<1>1. ASSUME NEW c \in Coordinator, Close(c), op[c].phase # "idle"
      PROVE  \E d \in Coordinator : op[d] # Idle /\ op'[d] = Idle
  <2>1. op'[c] = Idle
    BY <1>1 DEF Close, TypeOK
  <2>2. op[c] # Idle
    BY <1>1 DEF Idle
  <2> QED BY <2>1, <2>2
<1>2. session' # session
  OBVIOUS
<1>3. ~Tick /\ ~UNCHANGED vars
  BY <1>2 DEF Tick, vars, rows
<1>4. ASSUME WorkerStep PROVE FALSE
  <2>1. ASSUME NEW r \in Request, NEW capture \in Captures, RegisterArrival(r, capture) PROVE FALSE
    BY <2>1 DEF RegisterArrival
  <2>2. ASSUME NEW r \in Request, NEW capture \in Captures, RegisterDeparture(r, capture) PROVE FALSE
    <3>1. session'.val = DepartureValidation(session.val, capture.trusted)
      BY <2>2 DEF RegisterDeparture, Session
    <3>2. capture.trusted \in BOOLEAN
      BY CaptureFacts
    <3> QED BY <3>1, <3>2, DepartureValidationFacts
  <2>3. ASSUME NEW r \in Request, NEW type \in BreakType, NEW capture \in Captures,
               RegisterOfflineBreak(r, type, capture)
        PROVE  FALSE
    <3>1. session'.val = "REVIEW_REQUIRED"
      BY <2>3 DEF RegisterOfflineBreak, Session
    <3> QED BY <3>1
  <2>4. ASSUME NEW r \in Request, NEW type \in BreakType, ReadForOnlineBreak(r, type) PROVE FALSE
    BY <1>2, <2>4 DEF ReadForOnlineBreak, rows
  <2>5. ASSUME InsertOnlineBreak PROVE FALSE
    BY <1>2, <2>5 DEF InsertOnlineBreak
  <2> QED BY <1>4, <2>1, <2>2, <2>3, <2>4, <2>5 DEF WorkerStep
<1>5. ASSUME NEW c \in Coordinator, CoordinatorStep(c) PROVE Close(c) /\ op[c].phase # "idle"
  <2>1. ~(\/ ChooseReview(c) \/ OpenArrivalReview(c) \/ OpenWorkdayReview(c)
          \/ OpenCorrection(c) \/ OpenManual(c) \/ Abandon(c))
    BY <1>2 DEF ChooseReview, OpenArrivalReview, OpenWorkdayReview, OpenCorrection, OpenManual, Open,
                Abandon, rows
  <2>2. CASE ReviewArrival(c) \/ ReviewWorkday(c)
    BY <2>2 DEF ReviewArrival, ReviewWorkday
  <2>3. CASE ClearMarks(c) \/ DeleteMark(c) \/ EditMark(c) \/ AddMark(c)
    BY <2>3 DEF ClearMarks, DeleteMark, EditMark, AddMark
  <2>4. CASE RegisterManualWorkday(c) \/ RegisterManualArrival(c)
    BY <2>4 DEF RegisterManualWorkday, RegisterManualArrival
  <2> QED BY <1>5, <2>1, <2>2, <2>3, <2>4 DEF CoordinatorStep
<1> QED BY <1>1, <1>3, <1>4, <1>5 DEF Next

\* No mark of the worker clears what waits for a reviewer or was rejected.
THEOREM OnlyCoordinationValidates == Spec => WorkersDoNotValidate
<1>1. Inv /\ [Next]_vars =>
        [ /\ session.val \in {"REVIEW_REQUIRED", "REJECTED"}
          /\ session'.val \in {"AUTO_VALIDATED", "MANUAL_VALIDATED"}
          /\ Recorded(session.arrival)
          => \E c \in Coordinator : op[c] # Idle /\ op'[c] = Idle ]_vars
  BY NextValidation DEF Inv
<1> QED BY <1>1, AttendanceInvariant, PTL DEF Spec, WorkersDoNotValidate

=============================================================================

------------------------------ MODULE Attendance ------------------------------
(***************************************************************************)
(* The workday of one assignment: a session row, its marks, the worker who *)
(* marks from the portal and coordination that reviews and corrects.       *)
(*                                                                         *)
(* A worker's mark is a SERIALIZABLE transaction, retried on conflict, so  *)
(* it is one step; except an online break, which reads the session and     *)
(* only inserts a mark, and so does not conflict with coordination.        *)
(* Coordination works at READ COMMITTED: it reads everything, then writes  *)
(* without looking again.                                                  *)
(***************************************************************************)
EXTENDS AttendanceRules, FiniteSets, FiniteSetsExt

CONSTANTS
  Request,       \* idempotency keys of the portal
  Asks,          \* by request, the types of mark it may ask for
  Coordinator,
  Moment,        \* when something may happen
  ExpectedStart,
  ExpectedEnd,
  FormShapes,    \* the sets of mark types a manual form fills in
  MaxManual      \* bound: manual registrations and added marks

MarkType == {"ARRIVAL", "BREAK_START", "BREAK_END", "DEPARTURE"}
BreakType == {"BREAK_START", "BREAK_END"}

ASSUME AttendanceAssumption ==
  /\ Asks \in [Request -> SUBSET MarkType]
  /\ Moment \subseteq Nat
  /\ ExpectedStart \in Nat
  /\ ExpectedEnd \in Nat \cup {Missing}
  /\ FormShapes \subseteq (SUBSET MarkType) \ {{}}
  /\ MaxManual \in Nat
  /\ Request \cap (MarkType \X (1 .. MaxManual)) = {}

\* CLASSIFIED stands for ON_TIME and LATE.
AttendanceStatus == {"NONE", "PENDING", "ARRIVAL_REPORTED", "CLASSIFIED",
                     "DEPARTURE_REPORTED", "COMPLETED", "REJECTED"}
ValidationStatus == {"NONE", "PENDING", "AUTO_VALIDATED", "REVIEW_REQUIRED",
                     "MANUAL_VALIDATED", "REJECTED"}

VARIABLES
  now,
  session,     \* the DispatchAttendanceSession row
  marks,       \* its DispatchAttendanceMark rows
  pending,     \* mark types whose correction is pending, by the reviews
  recognized,  \* the last review is a correction that recognizes early arrival
  made,        \* marks made by coordination so far
  brk,         \* an online break between its read and its insert
  op,          \* by coordinator, the open transaction
  \* history
  touched,     \* coordination has written
  overlapped,  \* someone wrote over a state it had not read
  blind        \* a day without an arrival was validated

rows == <<session, marks, pending, recognized, made>>
history == <<touched, overlapped, blind>>
vars == <<now, rows, brk, op, history>>

Session(att, val, arrival, departure, worked) ==
  [att |-> att, val |-> val, arrival |-> arrival, departure |-> departure, worked |-> worked]

NoSession == Session("NONE", "NONE", Missing, Missing, Missing)
Exists(s) == s.att # "NONE"

Mark(type, at, key) == [type |-> type, at |-> at, key |-> key]

NoBreak == Mark("NONE", Missing, "NONE")

View == [session |-> session, marks |-> marks, pending |-> pending, recognized |-> recognized]
NoView == [session |-> NoSession, marks |-> {}, pending |-> {}, recognized |-> FALSE]
Idle == [phase |-> "idle", seen |-> NoView]

Init ==
  /\ now \in Moment
  /\ session = NoSession
  /\ marks = {}
  /\ pending = {}
  /\ recognized = FALSE
  /\ made = 0
  /\ brk = NoBreak
  /\ op = [c \in Coordinator |-> Idle]
  /\ touched = FALSE
  /\ overlapped = FALSE
  /\ blind = FALSE

-----------------------------------------------------------------------------
(* Reading marks *)

AtOf(ms, type) == {m.at : m \in {x \in ms : x.type = type}}
Keys(ms) == {m.key : m \in ms}

Latest(ms, type) == IF AtOf(ms, type) = {} THEN Missing ELSE Max(AtOf(ms, type))
First(ms, type) == IF AtOf(ms, type) = {} THEN Missing ELSE Min(AtOf(ms, type))

LatestTimeline(ms) ==
  [arrival |-> Latest(ms, "ARRIVAL"), breakStart |-> Latest(ms, "BREAK_START"),
   breakEnd |-> Latest(ms, "BREAK_END"), departure |-> Latest(ms, "DEPARTURE")]

WindowOf(s) == OperationalWindow(ExpectedStart, ExpectedEnd, ExpectedEnd, s.arrival)

Worked(t, early) == WorkedMinutes(t, ExpectedStart, early)

-----------------------------------------------------------------------------
(* The worker *)

\* A request may be delivered at any time, late, again and in any order.  An
\* online one is dated by the server, an offline one by the phone; trusted is
\* an online capture from the worker's own device and with sure storage.
Captures ==
  {[offline |-> FALSE, trusted |-> trusted, at |-> now] : trusted \in BOOLEAN}
  \cup {[offline |-> TRUE, trusted |-> FALSE, at |-> at] : at \in {m \in Moment : m <= now}}

\* A key that has a mark is answered from it.  An assignment that stops being
\* active refuses marks from then on, as requests that never arrive show too.
Fresh(r, type) == type \in Asks[r] /\ r \notin Keys(marks)

Insert(r, type, at) == marks' = marks \cup {Mark(type, at, r)}

\* An unauthorized or shared device, unsure storage or an offline capture
\* leaves the arrival to a reviewer.
RegisterArrival(r, capture) ==
  LET at == capture.at IN
  /\ Fresh(r, "ARRIVAL")
  /\ ~Recorded(session.arrival)
  /\ ArrivalAllowed(ExpectedStart, at)
  /\ Insert(r, "ARRIVAL", at)
  /\ session' = Session(IF capture.trusted THEN "CLASSIFIED" ELSE "ARRIVAL_REPORTED",
                        IF capture.trusted THEN "AUTO_VALIDATED" ELSE "REVIEW_REQUIRED",
                        at, session.departure, session.worked)
  /\ brk' = NoBreak
  /\ UNCHANGED <<now, pending, recognized, made, op, history>>

\* Faulty variant: the validation the session had is not looked at.
DepartureValidationAnew(prior, trusted) ==
  IF trusted THEN "AUTO_VALIDATED" ELSE "REVIEW_REQUIRED"

\* What registerDeparture makes of the validation the session had.
DepartureValidation(prior, trusted) ==
  CASE prior \in {"REVIEW_REQUIRED", "REJECTED"} \/ ~trusted -> "REVIEW_REQUIRED"
    [] prior = "MANUAL_VALIDATED" /\ trusted -> "MANUAL_VALIDATED"
    [] OTHER -> "AUTO_VALIDATED"

RegisterDeparture(r, capture) ==
  LET at == capture.at
      t  == [arrival |-> session.arrival, breakStart |-> First(marks, "BREAK_START"),
             breakEnd |-> First(marks, "BREAK_END"), departure |-> at]
      val == DepartureValidation(session.val, capture.trusted)
  IN
  /\ Fresh(r, "DEPARTURE")
  /\ Recorded(session.arrival)
  /\ ~Recorded(session.departure)
  /\ at >= session.arrival
  /\ DepartureAllowed(WindowOf(session), at)
  /\ Calculable(t)
  /\ Insert(r, "DEPARTURE", at)
  /\ session' = Session(IF val = "REVIEW_REQUIRED" THEN "DEPARTURE_REPORTED" ELSE "COMPLETED",
                        val, session.arrival, at, Worked(t, FALSE))
  /\ brk' = NoBreak
  /\ UNCHANGED <<now, pending, recognized, made, op, history>>

\* Faulty variant: an end is not compared with its start.
BreakAcceptedAnyOrder(r, type, at) ==
  /\ Fresh(r, type)
  /\ Recorded(session.arrival)
  /\ ~Recorded(session.departure)
  /\ at >= session.arrival
  /\ type \in BreakType
  /\ BreakEndAllowed(WindowOf(session), at)
  /\ type = "BREAK_START" => AtOf(marks, "BREAK_START") = {}
  /\ type = "BREAK_END" => AtOf(marks, "BREAK_START") # {}
  /\ AtOf(marks, "BREAK_END") = {}

BreakAccepted(r, type, at) ==
  /\ Fresh(r, type)
  /\ Recorded(session.arrival)
  /\ ~Recorded(session.departure)
  /\ at >= session.arrival
  /\ \/ /\ type = "BREAK_START"
        /\ BreakStartAllowed(WindowOf(session), at)
        /\ AtOf(marks, "BREAK_START") = {}
     \/ /\ type = "BREAK_END"
        /\ BreakEndAllowed(WindowOf(session), at)
        /\ \E start \in AtOf(marks, "BREAK_START") : at >= start
  /\ AtOf(marks, "BREAK_END") = {}

RegisterOfflineBreak(r, type, capture) ==
  /\ capture.offline
  /\ BreakAccepted(r, type, capture.at)
  /\ Insert(r, type, capture.at)
  /\ session' = Session(session.att, "REVIEW_REQUIRED", session.arrival, session.departure, session.worked)
  /\ brk' = NoBreak
  /\ UNCHANGED <<now, pending, recognized, made, op, history>>

ReadForOnlineBreak(r, type) ==
  /\ brk = NoBreak
  /\ BreakAccepted(r, type, now)
  /\ brk' = Mark(type, now, r)
  /\ UNCHANGED <<now, rows, op, history>>

\* Another mark of the worker aborts it; coordination does not.
InsertOnlineBreak ==
  /\ brk # NoBreak
  /\ marks' = marks \cup {brk}
  /\ brk' = NoBreak
  /\ UNCHANGED <<now, session, pending, recognized, made, op, history>>

-----------------------------------------------------------------------------
(* Coordination: opening a transaction *)

\* reviewAttendanceWorkdaySession reads the departure before the transaction
\* and chooses which review it will run.
ChooseReview(c) ==
  /\ op[c] = Idle
  /\ Exists(session)
  /\ op' = [op EXCEPT ![c] = [phase |-> IF Recorded(session.departure) THEN "workday" ELSE "arrival",
                              seen |-> NoView]]
  /\ UNCHANGED <<now, rows, brk, history>>

Open(c, from, to) ==
  /\ op[c] = [phase |-> from, seen |-> NoView]
  /\ op' = [op EXCEPT ![c] = [phase |-> to, seen |-> View]]
  /\ UNCHANGED <<now, rows, brk, history>>

OpenArrivalReview(c) == Recorded(session.arrival) /\ Open(c, "arrival", "reviewing arrival")

OpenWorkdayReview(c) ==
  /\ Recorded(session.departure)
  /\ Open(c, "workday", "reviewing workday")

OpenCorrection(c) == Exists(session) /\ Open(c, "idle", "correcting")

OpenManual(c) == Open(c, "idle", "registering")

Abandon(c) ==
  /\ op[c] # Idle
  /\ op' = [op EXCEPT ![c] = Idle]
  /\ UNCHANGED <<now, rows, brk, history>>

\* The end of every transaction of coordination.  A break in flight has read
\* what this write changes.
Close(c) ==
  /\ op' = [op EXCEPT ![c] = Idle]
  /\ touched' = TRUE
  /\ overlapped' = (overlapped \/ op[c].seen # View \/ brk # NoBreak)
  /\ UNCHANGED <<now, brk>>

-----------------------------------------------------------------------------
(* Coordination: reviews *)

ReviewArrival(c) ==
  /\ op[c].phase = "reviewing arrival"
  /\ \E outcome \in {<<"CLASSIFIED", "MANUAL_VALIDATED">>, <<"REJECTED", "REJECTED">>,
                     <<"ARRIVAL_REPORTED", "REVIEW_REQUIRED">>} :
       session' = Session(outcome[1], outcome[2], session.arrival, session.departure, session.worked)
  /\ recognized' = FALSE
  /\ Close(c)
  /\ UNCHANGED <<blind, marks, pending, made>>

\* The decision is copied to the latest departure mark, which must still exist.
DepartureMarkRemains(ms) ==
  AtOf(ms, "DEPARTURE") # {} =>
    \E m \in ms : m.type = "DEPARTURE" /\ m.at = Latest(ms, "DEPARTURE") /\ m.key \in Keys(marks)

ReviewWorkday(c) ==
  LET seen == op[c].seen
      t    == [LatestTimeline(seen.marks) EXCEPT !.arrival = seen.session.arrival,
                                                 !.departure = seen.session.departure]
  IN
  /\ op[c].phase = "reviewing workday"
  /\ Calculable(t)
  /\ DepartureMarkRemains(seen.marks)
  /\ \/ \E early \in BOOLEAN :
          /\ session' = Session("COMPLETED", "MANUAL_VALIDATED", session.arrival, session.departure,
                                Worked(t, early))
          /\ blind' = (blind \/ ~Recorded(seen.session.arrival))
     \/ /\ session' \in {Session("REJECTED", "REJECTED", session.arrival, session.departure,
                                 session.worked),
                         Session("DEPARTURE_REPORTED", "REVIEW_REQUIRED", session.arrival,
                                 session.departure, session.worked)}
        /\ UNCHANGED blind
  /\ recognized' = FALSE
  /\ Close(c)
  /\ UNCHANGED <<marks, pending, made>>

-----------------------------------------------------------------------------
(* Coordination: corrections *)

InferredEarly(seen) ==
  LET s == seen.session
      latest == LatestTimeline(seen.marks)
      t == [latest EXCEPT !.arrival = IF Recorded(s.arrival) THEN s.arrival ELSE @,
                          !.departure = IF Recorded(s.departure) THEN s.departure ELSE @]
  IN  /\ Recorded(t.arrival) /\ Recorded(t.departure) /\ Recorded(s.worked)
      /\ Calculable(t)
      /\ t.arrival < ExpectedStart
      /\ s.worked = Worked(t, TRUE)

RecognizesEarly(seen) == InferredEarly(seen) \/ seen.recognized

\* Faulty variant: a hidden departure completes the day all the same.
CorrectedSessionWhole(ms, types, early) ==
  LET t == LatestTimeline(ms)
      open == ~Recorded(t.departure) \/ types \cap BreakType # {}
  IN  IF ~Recorded(t.arrival)
      THEN Session("PENDING", "PENDING", Missing, t.departure, Missing)
      ELSE Session("COMPLETED", "MANUAL_VALIDATED", t.arrival,
                   IF open THEN Missing ELSE t.departure,
                   IF open THEN Missing ELSE Worked(t, early))

\* The session that the marks ms deserve while corrections of types are pending.
CorrectedSession(ms, types, early) ==
  LET t == LatestTimeline(ms) IN
  CASE ~Recorded(t.arrival) /\ ~Recorded(t.departure) ->
         Session("PENDING", "PENDING", Missing, Missing, Missing)
    [] ~Recorded(t.arrival) /\ Recorded(t.departure) ->
         Session("DEPARTURE_REPORTED", "REVIEW_REQUIRED", Missing, t.departure, Missing)
    [] Recorded(t.arrival) /\ ~Recorded(t.departure) ->
         Session("ARRIVAL_REPORTED", "REVIEW_REQUIRED", t.arrival, Missing, Missing)
    [] /\ Recorded(t.arrival) /\ Recorded(t.departure)
       /\ \/ types \cap BreakType # {}
          \/ Recorded(t.breakEnd) /\ ~Recorded(t.breakStart) ->
         Session("DEPARTURE_REPORTED", "REVIEW_REQUIRED", t.arrival, Missing, Missing)
    [] OTHER ->
         Session("COMPLETED", "MANUAL_VALIDATED", t.arrival, t.departure, Worked(t, early))

\* The calculation is reached, and throws, only on a complete timeline.
Correctable(ms, types) ==
  CorrectedSession(ms, types, FALSE).att = "COMPLETED" => Calculable(LatestTimeline(ms))

\* Faulty variant: the session is cleared and the marks stay.
ClearMarksKept(c) ==
  /\ op[c].phase = "correcting"
  /\ session' = Session("PENDING", "PENDING", Missing, Missing, Missing)
  /\ pending' = {}
  /\ recognized' = FALSE
  /\ Close(c)
  /\ UNCHANGED <<blind, marks, made>>

ClearMarks(c) ==
  LET seen == op[c].seen IN
  /\ op[c].phase = "correcting"
  /\ seen.marks # {} \/ Recorded(seen.session.arrival) \/ Recorded(seen.session.departure)
  /\ session' = Session("PENDING", "PENDING", Missing, Missing, Missing)
  /\ marks' = {}
  /\ pending' = {}
  /\ recognized' = FALSE
  /\ Close(c)
  /\ UNCHANGED <<blind, made>>

DeleteMark(c) ==
  LET seen == op[c].seen
      early == RecognizesEarly(seen)
  IN
  /\ op[c].phase = "correcting"
  /\ \E target \in seen.marks :
       LET left  == seen.marks \ {target}
           types == seen.pending \cup {target.type}
       IN  /\ target.key \in Keys(marks)
           /\ Correctable(left, types)
           /\ marks' = {m \in marks : m.key # target.key}
           /\ session' = CorrectedSession(left, types, early)
           /\ pending' = pending \cup {target.type}
  /\ recognized' = early
  /\ Close(c)
  /\ UNCHANGED <<blind, made>>

\* Faulty variant: minutes calculated before the edit are kept.
EditMarkStale(c) ==
  LET seen == op[c].seen
      early == RecognizesEarly(seen)
  IN
  /\ op[c].phase = "correcting"
  /\ \E target \in seen.marks, at \in Moment :
       LET edited == Mark(target.type, at, target.key)
           next   == (seen.marks \ {target}) \cup {edited}
           fixed  == CorrectedSession(next, seen.pending, early)
       IN  /\ target.key \in Keys(marks)
           /\ ValidTimeline(LatestTimeline(next), WindowOf(seen.session))
           /\ Correctable(next, seen.pending)
           /\ marks' = {m \in marks : m.key # target.key} \cup {edited}
           /\ session' = IF Recorded(fixed.worked) /\ Recorded(seen.session.worked)
                         THEN [fixed EXCEPT !.worked = seen.session.worked] ELSE fixed
  /\ recognized' = early
  /\ Close(c)
  /\ UNCHANGED <<blind, pending, made>>

EditMark(c) ==
  LET seen == op[c].seen
      early == RecognizesEarly(seen)
  IN
  /\ op[c].phase = "correcting"
  /\ \E target \in seen.marks, at \in Moment :
       LET edited == Mark(target.type, at, target.key)
           next   == (seen.marks \ {target}) \cup {edited}
       IN  /\ target.key \in Keys(marks)
           /\ ValidTimeline(LatestTimeline(next), WindowOf(seen.session))
           /\ Correctable(next, seen.pending)
           /\ marks' = {m \in marks : m.key # target.key} \cup {edited}
           /\ session' = CorrectedSession(next, seen.pending, early)
  /\ recognized' = early
  /\ Close(c)
  /\ UNCHANGED <<blind, pending, made>>

\* Faulty variant: an added mark takes a key already given.
AddMarkUncounted(c) ==
  /\ op[c].phase = "correcting"
  /\ made < MaxManual
  /\ \E type \in op[c].seen.pending, at \in Moment :
       LET mark == Mark(type, at, <<type, made + 1>>)
           next == op[c].seen.marks \cup {mark}
       IN  /\ marks' = marks \cup {mark}
           /\ session' = CorrectedSession(next, op[c].seen.pending \ {type}, FALSE)
           /\ pending' = pending \ {type}
  /\ recognized' = FALSE
  /\ Close(c)
  /\ UNCHANGED <<blind, made>>

AddMark(c) ==
  LET seen == op[c].seen
      early == RecognizesEarly(seen)
  IN
  /\ op[c].phase = "correcting"
  /\ made < MaxManual
  /\ made' = made + 1
  /\ \E type \in seen.pending, at \in Moment :
       LET mark == Mark(type, at, <<type, made'>>)
           next == seen.marks \cup {mark}
       IN  /\ AtOf(seen.marks, type) = {}
           /\ ValidTimeline(LatestTimeline(next), WindowOf(seen.session))
           /\ Correctable(next, seen.pending \ {type})
           /\ marks' = marks \cup {mark}
           /\ session' = CorrectedSession(next, seen.pending \ {type}, early)
           /\ pending' = pending \ {type}
  /\ recognized' = early
  /\ Close(c)
  /\ UNCHANGED blind

-----------------------------------------------------------------------------
(* Coordination: marks registered by hand *)

Forms == UNION {[types -> Moment] : types \in FormShapes}

ManualTimeline(s, ms) ==
  [LatestTimeline(ms) EXCEPT !.arrival = IF Recorded(@) THEN @ ELSE s.arrival,
                             !.departure = IF Recorded(@) THEN @ ELSE s.departure]

ManualSession(s, ms) ==
  LET t    == ManualTimeline(s, ms)
      both == Recorded(t.arrival) /\ Recorded(t.departure)
      work == both /\ (Recorded(t.breakEnd) => Recorded(t.breakStart))
  IN  Session(CASE work -> "COMPLETED"
                [] ~work /\ Recorded(t.departure) -> "DEPARTURE_REPORTED"
                [] Recorded(t.arrival) /\ ~Recorded(t.departure) -> "ARRIVAL_REPORTED"
                [] OTHER -> "PENDING",
              IF work THEN "MANUAL_VALIDATED" ELSE "REVIEW_REQUIRED",
              t.arrival, t.departure, IF work THEN Worked(t, FALSE) ELSE Missing)

\* A form names only types that neither the marks nor the session have yet.
\* Without a session it creates one, and fails if one appeared meanwhile.
FormAllowed(seen, form) ==
  LET types == DOMAIN form
      taken == {m.type : m \in seen.marks}
               \cup {x \in {"ARRIVAL"} : Recorded(seen.session.arrival)}
               \cup {x \in {"DEPARTURE"} : Recorded(seen.session.departure)}
      made_ == {Mark(type, form[type], type) : type \in types}
      t     == ManualTimeline(seen.session, seen.marks \cup made_)
  IN  types \cap taken = {} /\ ValidTimeline(t, WindowOf(seen.session))

RegisterManualWorkday(c) ==
  LET seen == op[c].seen IN
  /\ op[c].phase = "registering"
  /\ made < MaxManual
  /\ made' = made + 1
  /\ Exists(session) = Exists(seen.session)
  /\ \E form \in Forms :
       LET given == {Mark(type, form[type], <<type, made'>>) : type \in DOMAIN form} IN
       /\ FormAllowed(seen, form)
       /\ session' = ManualSession(seen.session, seen.marks \cup given)
       /\ marks' = marks \cup given
       /\ pending' = IF {"ARRIVAL", "DEPARTURE"} \subseteq DOMAIN form THEN {} ELSE pending
  /\ recognized' = FALSE
  /\ Close(c)
  /\ UNCHANGED blind

\* The older form: an arrival, already classified.
RegisterManualArrival(c) ==
  LET seen == op[c].seen IN
  /\ op[c].phase = "registering"
  /\ made < MaxManual
  /\ made' = made + 1
  /\ Exists(session) = Exists(seen.session)
  /\ ~Recorded(seen.session.arrival)
  /\ \E at \in Moment :
       /\ session' = Session("CLASSIFIED", "MANUAL_VALIDATED", at, session.departure, session.worked)
       /\ marks' = marks \cup {Mark("ARRIVAL", at, <<"ARRIVAL", made'>>)}
  /\ recognized' = FALSE
  /\ Close(c)
  /\ UNCHANGED <<blind, pending>>

-----------------------------------------------------------------------------
(* The world *)

Tick ==
  /\ now' \in Moment
  /\ now' > now
  /\ UNCHANGED <<rows, brk, op, history>>

WorkerStep ==
  \/ \E r \in Request, capture \in Captures :
       RegisterArrival(r, capture) \/ RegisterDeparture(r, capture)
  \/ \E r \in Request, type \in BreakType :
       \/ \E capture \in Captures : RegisterOfflineBreak(r, type, capture)
       \/ ReadForOnlineBreak(r, type)
  \/ InsertOnlineBreak

CoordinatorStep(c) ==
  \/ ChooseReview(c) \/ OpenArrivalReview(c) \/ OpenWorkdayReview(c)
  \/ OpenCorrection(c) \/ OpenManual(c) \/ Abandon(c)
  \/ ReviewArrival(c) \/ ReviewWorkday(c)
  \/ ClearMarks(c) \/ DeleteMark(c) \/ EditMark(c) \/ AddMark(c)
  \/ RegisterManualWorkday(c) \/ RegisterManualArrival(c)

Next == Tick \/ WorkerStep \/ \E c \in Coordinator : CoordinatorStep(c)

Spec == Init /\ [][Next]_vars

-----------------------------------------------------------------------------
(* Properties *)

Phase == {"idle", "arrival", "workday", "reviewing arrival", "reviewing workday",
          "correcting", "registering"}

Sessions == [att : AttendanceStatus, val : ValidationStatus,
             arrival : Moment \cup {Missing}, departure : Moment \cup {Missing},
             worked : Nat \cup {Missing}]

\* The marks there may be after n of coordination.
MarksBy(n) == [type : MarkType, at : Moment, key : Request \cup (MarkType \X (1 .. n))]

Views == [session : Sessions, marks : SUBSET MarksBy(MaxManual), pending : SUBSET MarkType,
          recognized : BOOLEAN]

TypeOK ==
  /\ now \in Moment
  /\ session \in Sessions
  /\ marks \subseteq MarksBy(made)
  /\ IsFiniteSet(marks)
  /\ pending \subseteq MarkType
  /\ recognized \in BOOLEAN
  /\ made \in 0 .. MaxManual
  /\ brk \in [type : BreakType, at : Moment, key : Request] \cup {NoBreak}
  /\ op \in [Coordinator -> [phase : Phase, seen : Views]]
  /\ \A c \in Coordinator : IsFiniteSet(op[c].seen.marks)
  /\ touched \in BOOLEAN
  /\ overlapped \in BOOLEAN
  /\ blind \in BOOLEAN

\* Marks that only the worker made tell one day: no type twice, nothing
\* before the arrival, no break ended before it started
\* (registerArrival.js, registerBreak.js, registerDeparture.js, in any order
\* of delivery and with any client time).
WorkersTimelineIsOrdered ==
  ~touched =>
    /\ \A m, n \in marks : m.type = n.type => m = n
    /\ \A m \in marks : AtOf(marks, "ARRIVAL") # {} /\ First(marks, "ARRIVAL") <= m.at
    /\ AtOf(marks, "BREAK_END") # {} => /\ AtOf(marks, "BREAK_START") # {}
                                       /\ First(marks, "BREAK_START") <= First(marks, "BREAK_END")

OneDeparture == \A x, y \in AtOf(marks, "DEPARTURE") : x = y

\* Nobody wrote over a state it had not read, and there is one departure.
Straight == ~overlapped /\ OneDeparture

\* The session tells the arrival of the marks, and their departure unless a
\* correction hid it.
SessionTellsTheMarks ==
  Straight =>
    /\ session.arrival = Latest(marks, "ARRIVAL")
    /\ session.departure \in {Missing, Latest(marks, "DEPARTURE")}

\* docs/architecture/20_portal_auxiliar_salida_horas_netas.md:17 rules out "una
\* segunda salida": while nobody wrote over what it had not read, a session
\* has at most one departure mark (registerDeparture.js:215).
OneDepartureMark ==
  ~overlapped => Cardinality({m \in marks : m.type = "DEPARTURE"}) <= 1

\* Worked minutes are those of the marks, with or without the early arrival,
\* unless coordination validated a day that had no arrival.
WorkedMinutesComeFromMarks ==
  Straight /\ ~blind /\ Recorded(session.worked) =>
    \E early \in BOOLEAN : session.worked = Worked(LatestTimeline(marks), early)

\* A completed day has a departure, its minutes and a validation.
CompletedDaysAreWhole ==
  ~overlapped /\ session.att = "COMPLETED" =>
    /\ Recorded(session.departure) /\ Recorded(session.worked)
    /\ session.val \in {"AUTO_VALIDATED", "MANUAL_VALIDATED"}

\* What waits for a reviewer, or was rejected, is validated only by
\* coordination: no mark of the worker clears it while the arrival stands.
WorkersDoNotValidate ==
  [][ /\ session.val \in {"REVIEW_REQUIRED", "REJECTED"}
      /\ session'.val \in {"AUTO_VALIDATED", "MANUAL_VALIDATED"}
      /\ Recorded(session.arrival)
      => \E c \in Coordinator : op[c] # Idle /\ op'[c] = Idle ]_vars

-----------------------------------------------------------------------------
(* The inductive invariant *)

\* A key has one mark, and a break on its way in has a key without one.
KeysInv ==
  /\ \A m, n \in marks : m.key = n.key => m = n
  /\ brk # NoBreak => brk.key \notin Keys(marks)

\* A review of a workday saw a departure.
WorkdayInv ==
  \A c \in Coordinator :
    op[c].phase = "reviewing workday" => Recorded(op[c].seen.session.departure)

\* The online break that was read can still be inserted.
BreakFits ==
  brk # NoBreak =>
    /\ Recorded(session.arrival) /\ session.arrival <= brk.at
    /\ ~Recorded(session.departure)
    /\ AtOf(marks, brk.type) = {}
    /\ brk.type = "BREAK_END" => \E start \in AtOf(marks, "BREAK_START") : start <= brk.at

\* What the session tells of its marks.
Told ==
  /\ session.arrival = Latest(marks, "ARRIVAL")
  /\ OneDeparture => session.departure \in {Missing, Latest(marks, "DEPARTURE")}
  /\ \A m, n \in marks : m.type = n.type /\ m.type \in BreakType => m = n
  /\ session.att = "COMPLETED" =>
       /\ Recorded(session.departure) /\ Recorded(session.worked)
       /\ session.val \in {"AUTO_VALIDATED", "MANUAL_VALIDATED"}
  /\ ~blind /\ Recorded(session.worked) =>
       /\ Recorded(session.arrival) /\ Recorded(session.departure)
       /\ OneDeparture => \E early \in BOOLEAN : session.worked = Worked(LatestTimeline(marks), early)

\* Session, marks and break agree while nobody wrote over what it had not read.
Agreement == Told /\ BreakFits

\* The marks of a worker left alone.
WorkersDay ==
  /\ session.departure = Latest(marks, "DEPARTURE")
  /\ \A m, n \in marks : m.type = n.type => m = n
  /\ \A m \in marks : Recorded(session.arrival) /\ session.arrival <= m.at
  /\ \A m \in marks : m.type = "BREAK_END" =>
       \E n \in marks : n.type = "BREAK_START" /\ n.at <= m.at

\* What an attendance never loses: types, keys and, while nobody wrote over a
\* state it had not read, the agreement of the session with its marks.
Inv ==
  /\ TypeOK
  /\ KeysInv
  /\ WorkdayInv
  /\ ~overlapped => Agreement
  /\ ~touched => ~overlapped /\ WorkersDay

=============================================================================

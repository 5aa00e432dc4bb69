----------------------- MODULE InterviewBooking_proofs -----------------------
(***************************************************************************)
(* Proofs about InterviewBooking, for any candidates, requests, slots,     *)
(* times, bookings and messages.  Every writer of the agenda is shown once *)
(* to be a BookingStep; the invariants and the action properties follow    *)
(* from that.                                                              *)
(***************************************************************************)
EXTENDS InterviewBooking, TLAPS

RowType == [cand : Candidates, place : Places, status : RowStatus, reminderSent : BOOLEAN]

\* A booking keeps its candidate and its place, and its id is never reused.
RowsKept == \A b \in Ids : booking[b].status # "NONE" =>
    /\ booking'[b].cand = booking[b].cand
    /\ booking'[b].place = booking[b].place
    /\ booking'[b].status # "NONE"

\* The step properties TransitionsAreLegal and RescheduledAreReplaced.
MovesLegally == \A b \in Ids : booking'[b].status # booking[b].status =>
    <<booking[b].status, booking'[b].status>> \in Matrix

Replaces == \A b \in Ids :
    booking[b].status \in ActiveStatuses /\ booking'[b].status = "RESCHEDULED"
    => \E a \in Ids : /\ booking[a].status = "NONE"
                      /\ booking'[a].status = "SCHEDULED"
                      /\ booking'[a].cand = booking[b].cand

\* What any writer of the agenda does to it.
BookingStep ==
    /\ booking' \in [Ids -> RowType]
    /\ RowsKept /\ MovesLegally /\ Replaces /\ OneActiveBooking'

\* Ids are natural numbers.
LEMMA IdsAreNat == Ids \subseteq Nat \ {0}
  BY AgendaAssumption DEF AgendaAssumption, Ids

\* The next id is unique: ids are taken in order.
LEMMA NextIsUnique ==
  ASSUME NEW a \in Ids, NEW b \in Ids, IsNext(a), IsNext(b)
  PROVE  a = b
<1>1. a <= b /\ b <= a
  BY DEF IsNext
<1> QED BY <1>1, IdsAreNat

\* There is a candidate and a place to start from.
LEMMA AnyArePossible == AnyCandidate \in Candidates /\ AnyPlace \in Places
<1>1. \E c \in Candidates : TRUE
  BY AgendaAssumption DEF AgendaAssumption
<1>2. \E p \in Places : TRUE
  <2>1. PICK t \in Times : TRUE
    BY AgendaAssumption DEF AgendaAssumption
  <2>2. [slot |-> NoSlot, at |-> t] \in Places
    BY DEF Places
  <2> QED BY <2>2
<1> QED BY <1>1, <1>2 DEF AnyCandidate, AnyPlace

\* What the transition policy allows is in the matrix.
LEMMA AllowedOriginsAreLegal ==
  ASSUME NEW next \in AdminActions, NEW s \in AllowedOrigins(next) \cup {next}
  PROVE  s = next \/ <<s, next>> \in Matrix
<1>1. CASE next \in {"CONFIRMED", "NO_RESPONSE"}
  <2>1. AllowedOrigins(next) = {"SCHEDULED"}
    BY <1>1 DEF AllowedOrigins
  <2> QED BY <1>1, <2>1 DEF Matrix, BookingStatus, ActiveStatuses
<1>2. CASE next \in {"ATTENDED", "NO_SHOW", "CANCELLED"}
  <2>1. AllowedOrigins(next) = {"SCHEDULED", "CONFIRMED", "NO_RESPONSE"}
    BY <1>2 DEF AllowedOrigins
  <2> QED BY <1>2, <2>1 DEF Matrix, BookingStatus, ActiveStatuses
<1> QED BY <1>1, <1>2 DEF AdminActions

\* A step that leaves the agenda alone is one.
LEMMA QuietStep ==
  ASSUME booking \in [Ids -> RowType], OneActiveBooking, UNCHANGED booking
  PROVE  BookingStep
  BY DEF BookingStep, RowsKept, MovesLegally, Replaces, OneActiveBooking, ActiveStatuses

\* A row rewritten with another status along the matrix, at most as active as
\* it was, is one.
LEMMA RewriteStep ==
  ASSUME booking \in [Ids -> RowType], OneActiveBooking,
         booking' \in [Ids -> RowType],
         \A b \in Ids :
            \/ booking'[b] = booking[b]
            \/ /\ booking[b].status # "NONE"
               /\ booking'[b].cand = booking[b].cand
               /\ booking'[b].place = booking[b].place
               /\ \/ booking'[b].status = booking[b].status
                  \/ <<booking[b].status, booking'[b].status>> \in Matrix
               /\ booking'[b].status \notin {"NONE", "RESCHEDULED"}
               /\ booking'[b].status \in ActiveStatuses => booking[b].status \in ActiveStatuses
  PROVE  BookingStep
<1>1. RowsKept
  BY DEF RowsKept
<1>2. MovesLegally
  BY DEF MovesLegally
<1>3. Replaces
  BY DEF Replaces, ActiveStatuses
<1>4. OneActiveBooking'
  BY DEF OneActiveBooking, ActiveStatuses
<1> QED BY <1>1, <1>2, <1>3, <1>4 DEF BookingStep

\* The creation of a booking that closes the active ones the index forbids.
LEMMA CreateStep ==
  ASSUME booking \in [Ids -> RowType], OneActiveBooking,
         NEW c \in Candidates, NEW p \in Places, NEW closing \in SUBSET ActiveOf(c),
         UniqueIndexAllows(c, closing), Create(c, p, closing)
  PROVE  /\ BookingStep
         /\ \E b \in Ids : /\ IsNext(b)
                           /\ booking'[b] = Row(c, p, "SCHEDULED", FALSE)
<1>1. PICK b \in Ids : IsNext(b) /\ booking' = [a \in Ids |->
               IF a = b THEN Row(c, p, "SCHEDULED", FALSE)
               ELSE IF a \in closing THEN WithStatus(a, "RESCHEDULED")
               ELSE booking[a]]
  BY DEF Create
<1>2. booking[b].status = "NONE"
  BY <1>1 DEF IsNext, Unused
<1>3. booking'[b] = Row(c, p, "SCHEDULED", FALSE)
  BY <1>1
<1>4. /\ booking'[b].cand = c
      /\ booking'[b].place = p
      /\ booking'[b].status = "SCHEDULED"
      /\ booking'[b] \in RowType
  BY <1>3 DEF Row, RowType, RowStatus, BookingStatus, ActiveStatuses
<1>5. ASSUME NEW a \in Ids, a # b, a \in closing
      PROVE  /\ booking[a].cand = c
             /\ booking[a].status \in ActiveStatuses
             /\ booking'[a].cand = c
             /\ booking'[a].place = booking[a].place
             /\ booking'[a].status = "RESCHEDULED"
             /\ booking'[a] \in RowType
  <2>1. booking'[a] = WithStatus(a, "RESCHEDULED")
    BY <1>1, <1>5
  <2>2. booking[a].cand = c /\ booking[a].status \in ActiveStatuses
    BY <1>5 DEF ActiveOf
  <2>3. booking[a] \in RowType
    BY <1>5
  <2> QED BY <2>1, <2>2, <2>3 DEF WithStatus, Row, RowType, RowStatus, BookingStatus
<1>6. ASSUME NEW a \in Ids, a # b, a \notin closing
      PROVE  booking'[a] = booking[a]
  BY <1>1, <1>6
<1>7. ActiveOf(c) = closing
  BY DEF UniqueIndexAllows
<1>8. booking' \in [Ids -> RowType]
  <2>1. \A a \in Ids : booking'[a] \in RowType
    BY <1>4, <1>5, <1>6
  <2>2. booking' = [a \in Ids |-> booking'[a]]
    BY <1>1
  <2> QED BY <2>1, <2>2
<1>9. RowsKept
  BY <1>2, <1>5, <1>6 DEF RowsKept
<1>10. MovesLegally
  <2>1. <<"NONE", "SCHEDULED">> \in Matrix
    BY DEF Matrix
  <2>2. \A s \in ActiveStatuses : <<s, "RESCHEDULED">> \in Matrix
    BY DEF Matrix, ActiveStatuses, BookingStatus
  <2> QED BY <1>2, <1>4, <1>5, <1>6, <2>1, <2>2 DEF MovesLegally
<1>11. Replaces
  <2>1. "RESCHEDULED" \notin ActiveStatuses
    BY DEF ActiveStatuses
  <2>2. ASSUME NEW a \in Ids, booking[a].status \in ActiveStatuses,
               booking'[a].status = "RESCHEDULED"
        PROVE  booking[a].cand = c
    BY <1>4, <1>5, <1>6, <2>1, <2>2
  <2> QED BY <1>2, <1>4, <2>2 DEF Replaces
<1>12. OneActiveBooking'
  <2>1. ASSUME NEW a \in Ids, booking'[a].status \in ActiveStatuses, a # b
        PROVE  /\ booking'[a] = booking[a]
               /\ booking[a].cand # c
    BY <1>5, <1>6, <1>7, <2>1 DEF ActiveOf, ActiveStatuses
  <2> QED BY <1>4, <2>1 DEF OneActiveBooking, ActiveStatuses
<1> QED BY <1>1, <1>3, <1>8, <1>9, <1>10, <1>11, <1>12 DEF BookingStep

\* Cancelling the active bookings of a candidate.
LEMMA CancelStep ==
  ASSUME booking \in [Ids -> RowType], OneActiveBooking,
         NEW c \in Candidates, CancelActive(c)
  PROVE  BookingStep
<1>1. booking' = [b \in Ids |->
          IF b \in ActiveOf(c) THEN WithStatus(b, "CANCELLED") ELSE booking[b]]
  BY DEF CancelActive
<1>2. ASSUME NEW b \in Ids, b \in ActiveOf(c)
      PROVE  /\ booking[b].status \in ActiveStatuses
             /\ booking'[b].cand = booking[b].cand
             /\ booking'[b].place = booking[b].place
             /\ booking'[b].status = "CANCELLED"
             /\ booking'[b] \in RowType
  <2>1. booking'[b] = WithStatus(b, "CANCELLED")
    BY <1>1, <1>2
  <2>2. booking[b] \in RowType /\ booking[b].status \in ActiveStatuses
    BY <1>2 DEF ActiveOf
  <2> QED BY <2>1, <2>2 DEF WithStatus, Row, RowType, RowStatus, BookingStatus
<1>3. ASSUME NEW b \in Ids, b \notin ActiveOf(c)
      PROVE  booking'[b] = booking[b]
  BY <1>1, <1>3
<1>4. booking' \in [Ids -> RowType]
  <2>1. \A b \in Ids : booking'[b] \in RowType
    BY <1>2, <1>3
  <2> QED BY <1>1, <2>1
<1>5. \A s \in ActiveStatuses : s # "NONE" /\ <<s, "CANCELLED">> \in Matrix
  BY DEF Matrix, ActiveStatuses, BookingStatus
<1>6. "CANCELLED" \notin ActiveStatuses
  BY DEF ActiveStatuses
<1> QED BY <1>2, <1>3, <1>4, <1>5, <1>6, RewriteStep

\* One row rewritten: the administrative transition, the deletion and the
\* claim of a reminder.
LEMMA OneRowStep ==
  ASSUME booking \in [Ids -> RowType], OneActiveBooking,
         NEW t \in Ids, NEW s \in RowStatus, NEW sent \in BOOLEAN,
         booking[t].status # "NONE", s \notin {"NONE", "RESCHEDULED"},
         s = booking[t].status \/ <<booking[t].status, s>> \in Matrix,
         s \in ActiveStatuses => booking[t].status \in ActiveStatuses,
         booking' = [b \in Ids |->
             IF b = t THEN Row(booking[t].cand, booking[t].place, s, sent) ELSE booking[b]]
  PROVE  BookingStep
<1>1. /\ booking'[t].cand = booking[t].cand
      /\ booking'[t].place = booking[t].place
      /\ booking'[t].status = s
      /\ booking'[t] \in RowType
  <2>1. booking'[t] = Row(booking[t].cand, booking[t].place, s, sent)
    OBVIOUS
  <2>2. booking[t] \in RowType
    OBVIOUS
  <2> QED BY <2>1, <2>2 DEF Row, RowType
<1>2. \A b \in Ids : b # t => booking'[b] = booking[b]
  OBVIOUS
<1>3. booking' \in [Ids -> RowType]
  <2>1. \A b \in Ids : booking'[b] \in RowType
    BY <1>1, <1>2
  <2> QED BY <2>1
<1> QED BY <1>1, <1>2, <1>3, RewriteStep

-----------------------------------------------------------------------------
(* Every step of the specification is a BookingStep.                        *)

\* An assignment closes all the active bookings, so the index lets it through.
LEMMA AssignBookStep ==
  ASSUME Inv, NEW r \in Requests, AssignBook(r)
  PROVE  BookingStep
<1>1. booking \in [Ids -> RowType] /\ OneActiveBooking
  BY DEF Inv, TypeOK, RowType
<1>2. CASE UNCHANGED booking
  BY <1>1, <1>2, QuietStep
<1>3. CASE Create(req[r].cand, req[r].place, ActiveOf(req[r].cand))
  <2>1. req[r].cand \in Candidates /\ req[r].place \in Places
    BY DEF Inv, TypeOK
  <2>2. UniqueIndexAllows(req[r].cand, ActiveOf(req[r].cand))
    BY DEF UniqueIndexAllows
  <2>3. ActiveOf(req[r].cand) \in SUBSET ActiveOf(req[r].cand)
    OBVIOUS
  <2> QED BY <1>1, <1>3, <2>1, <2>2, <2>3, CreateStep
<1> QED BY <1>2, <1>3 DEF AssignBook

\* A coordination creates only what the index allows.
LEMMA CoordWriteStep ==
  ASSUME Inv, NEW r \in Requests, CoordWrite(r)
  PROVE  BookingStep
<1>1. booking \in [Ids -> RowType] /\ OneActiveBooking
  BY DEF Inv, TypeOK, RowType
<1>2. CASE UNCHANGED booking
  BY <1>1, <1>2, QuietStep
<1>3. CASE /\ UniqueIndexAllows(req[r].cand, Closing(r))
           /\ Create(req[r].cand, req[r].place, Closing(r))
  <2>1. req[r].cand \in Candidates /\ req[r].place \in Places
    BY DEF Inv, TypeOK
  <2>2. Closing(r) \in SUBSET ActiveOf(req[r].cand)
    BY DEF Closing
  <2> QED BY <1>1, <1>3, <2>1, <2>2, CreateStep
<1> QED BY <1>2, <1>3 DEF CoordWrite

\* The compare-and-set of the status writes what the policy allowed.
LEMMA StatusWriteStep ==
  ASSUME Inv, NEW r \in Requests, StatusWrite(r)
  PROVE  BookingStep
<1>1. booking \in [Ids -> RowType] /\ OneActiveBooking
  BY DEF Inv, TypeOK, RowType
<1>2. CASE UNCHANGED booking
  BY <1>1, <1>2, QuietStep
<1>3. CASE /\ StillAsRead(r)
           /\ booking' = [b \in Ids |->
                 IF b = req[r].target THEN WithStatus(b, req[r].next) ELSE booking[b]]
  <2> DEFINE t == req[r].target
             s == req[r].next
  <2>1. /\ t \in Ids /\ s \in AdminActions
        /\ booking[t].status = s \/ <<booking[t].status, s>> \in Matrix
    BY <1>3 DEF StatusWrite, Inv, RequestsInv, StillAsRead
  <2>2. /\ s \in RowStatus /\ s \notin {"NONE", "RESCHEDULED"}
        /\ s \in ActiveStatuses => s = "CONFIRMED"
    BY <2>1 DEF AdminActions, RowStatus, BookingStatus, ActiveStatuses
  <2>3. booking[t].status # "NONE"
    BY <2>1, <2>2 DEF Matrix, BookingStatus, ActiveStatuses, AdminActions
  <2>4. s \in ActiveStatuses => booking[t].status \in ActiveStatuses
    BY <2>1, <2>2 DEF Matrix, ActiveStatuses, BookingStatus
  <2>5. booking[t].reminderSent \in BOOLEAN
    BY <1>1, <2>1 DEF RowType
  <2>6. booking' = [b \in Ids |-> IF b = t
            THEN Row(booking[t].cand, booking[t].place, s, booking[t].reminderSent)
            ELSE booking[b]]
    BY <1>3 DEF WithStatus
  <2> HIDE DEF t, s
  <2> QED BY <1>1, <2>1, <2>2, <2>3, <2>4, <2>5, <2>6, OneRowStep
<1> QED BY <1>2, <1>3 DEF StatusWrite

\* A deletion is a row rewritten as DELETED.
LEMMA DeleteRowStep ==
  ASSUME Inv, NEW r \in Requests, DeleteRow(r)
  PROVE  BookingStep
<1>1. booking \in [Ids -> RowType] /\ OneActiveBooking
  BY DEF Inv, TypeOK, RowType
<1>2. CASE UNCHANGED booking
  BY <1>1, <1>2, QuietStep
<1>3. CASE /\ booking[req[r].target].status # "DELETED"
           /\ booking' = [a \in Ids |->
                 IF a = req[r].target THEN WithStatus(a, "DELETED") ELSE booking[a]]
  <2> DEFINE t == req[r].target
  <2>1. t \in Ids /\ booking[t].status # "NONE"
    BY <1>3 DEF DeleteRow, Inv, RequestsInv
  <2>2. booking[t] \in RowType
    BY <1>1, <2>1
  <2>3. booking[t].status \in BookingStatus /\ booking[t].reminderSent \in BOOLEAN
    BY <1>3, <2>1, <2>2 DEF RowType, RowStatus
  <2>4. <<booking[t].status, "DELETED">> \in Matrix
    BY <2>3 DEF Matrix
  <2>5. "DELETED" \in RowStatus /\ "DELETED" \notin ActiveStatuses
    BY DEF RowStatus, ActiveStatuses
  <2>6. booking' = [b \in Ids |-> IF b = t
            THEN Row(booking[t].cand, booking[t].place, "DELETED", booking[t].reminderSent)
            ELSE booking[b]]
    BY <1>3 DEF WithStatus
  <2> HIDE DEF t
  <2> QED BY <1>1, <2>1, <2>3, <2>4, <2>5, <2>6, OneRowStep
<1> QED BY <1>2, <1>3 DEF DeleteRow

\* The claim of a reminder keeps the status.
LEMMA CronInterviewStep ==
  ASSUME Inv, NEW t \in Ids, CronInterview(t)
  PROVE  BookingStep
<1>1. booking \in [Ids -> RowType] /\ OneActiveBooking
  BY DEF Inv, TypeOK, RowType
<1>2. /\ booking[t].status = "SCHEDULED"
      /\ booking' = [b \in Ids |-> IF b = t
            THEN Row(booking[t].cand, booking[t].place, "SCHEDULED", TRUE) ELSE booking[b]]
  BY DEF CronInterview
<1>3. "SCHEDULED" \in RowStatus
  BY DEF RowStatus, BookingStatus, ActiveStatuses
<1> QED BY <1>1, <1>2, <1>3, OneRowStep

\* Any step, whoever takes it, is a BookingStep.
LEMMA NextBookingStep ==
  ASSUME Inv, [Next]_vars
  PROVE  BookingStep
<1>1. booking \in [Ids -> RowType] /\ OneActiveBooking
  BY DEF Inv, TypeOK, RowType
<1>2. CASE UNCHANGED booking
  BY <1>1, <1>2, QuietStep
<1>3. ASSUME NEW r \in Requests, PanelStep(r)
      PROVE  BookingStep
  <2>1. CASE AssignBook(r)
    BY <2>1, AssignBookStep
  <2>2. CASE CoordWrite(r)
    BY <2>2, CoordWriteStep
  <2>3. CASE CoordCancel(r)
    <3>1. req[r].cand \in Candidates
      BY DEF Inv, TypeOK
    <3> QED BY <1>1, <2>3, <3>1, CancelStep DEF CoordCancel
  <2>4. CASE StatusWrite(r)
    BY <2>4, StatusWriteStep
  <2>5. CASE DeleteRow(r)
    BY <2>5, DeleteRowStep
  <2>6. CASE \/ \E c \in Candidates, p \in Places : AssignRead(r, c, p)
             \/ AssignConflict(r) \/ AssignRecover(r)
             \/ AssignReflect(r) \/ ReflectError(r)
             \/ \E c \in Candidates, t \in Times : CoordRead(r, c, t)
             \/ CoordList(r)
             \/ \E c \in Candidates : CoordRevoke(r, c)
             \/ \E b \in Ids, next \in AdminActions : StatusRead(r, b, next)
             \/ \E b \in Ids : DeleteRead(r, b)
             \/ DeleteReflect(r)
    BY <1>2, <2>6 DEF AssignRead, AssignConflict, AssignRecover, AssignReflect,
         ReflectError, Reflect, CoordRead, CoordList, CoordRevoke, StatusRead,
         DeleteRead, DeleteReflect
  <2> QED BY <1>3, <2>1, <2>2, <2>3, <2>4, <2>5, <2>6 DEF PanelStep
<1>4. ASSUME BotStep
      PROVE  BookingStep
  <2>1. ASSUME NEW c \in Candidates, CommitTurn(c)
        PROVE  BookingStep
    BY <1>1, <1>2, <2>1, CancelStep DEF CommitTurn
  <2>2. ASSUME NEW b \in Ids, CronInterview(b)
        PROVE  BookingStep
    BY <2>2, CronInterviewStep
  <2>3. CASE \/ \E c \in Candidates, m \in Messages : MessageTurn(c, m)
             \/ \E b \in Ids : InterviewReminderTurn(b)
             \/ \E c \in Candidates : InactivityReminderTurn(c) \/ CronInactivity(c)
    BY <1>2, <2>3 DEF MessageTurn, InterviewReminderTurn, InactivityReminderTurn, CronInactivity
  <2> QED BY <1>4, <2>1, <2>2, <2>3 DEF BotStep
<1> QED BY <1>2, <1>3, <1>4 DEF Next, vars

-----------------------------------------------------------------------------
(* The requests of the panel.                                               *)

ReqPc == {"idle", "assign", "recover", "assigned", "list", "write", "revoke",
          "status", "delete", "deleted", "done", "failed"}
ReqType == [pc : ReqPc, cand : Candidates, place : Places, target : Ids \cup {0},
            read : RowStatus \cup Steps, next : RowStatus \cup Steps, listed : SUBSET Ids]

\* What RequestsInv and AssignedAsAsked say of one request.
ReqInv(r) ==
    /\ req[r].pc = "assigned" =>
           /\ req[r].target \in Ids
           /\ booking[req[r].target].status # "NONE"
           /\ booking[req[r].target].cand = req[r].cand
           /\ booking[req[r].target].place = req[r].place
    /\ req[r].pc = "status" =>
           /\ req[r].target \in Ids
           /\ req[r].next \in AdminActions
           /\ req[r].read = req[r].next \/ <<req[r].read, req[r].next>> \in Matrix
    /\ req[r].pc = "delete" =>
           req[r].target \in Ids /\ booking[req[r].target].status # "NONE"
    /\ req[r].pc \in {"assign", "recover", "assigned", "delete", "deleted"} =>
           req[r].read \in Steps /\ req[r].next \in Steps

\* A step of the request r, with what it leaves there.
RequestStep(r) ==
    /\ req' \in [Requests -> ReqType]
    /\ \A s \in Requests \ {r} : req'[s] = req[s]
    /\ ReqInv(r)'

\* A request keeps what it knows while others write the agenda.
LEMMA WaitingKeepsReqInv ==
  ASSUME BookingStep, NEW s \in Requests, ReqInv(s), req'[s] = req[s]
  PROVE  ReqInv(s)'
  BY DEF BookingStep, RowsKept, ReqInv

\* The first step of a request.
LEMMA StartType ==
  ASSUME req \in [Requests -> ReqType], NEW r \in Requests,
         NEW pc \in ReqPc, NEW c \in Candidates, NEW p \in Places,
         NEW target \in Ids \cup {0}, NEW read \in RowStatus \cup Steps,
         NEW next \in RowStatus \cup Steps,
         req' = [req EXCEPT ![r] = Req(pc, c, p, target, read, next, {})]
  PROVE  /\ req' \in [Requests -> ReqType]
         /\ \A s \in Requests \ {r} : req'[s] = req[s]
         /\ req'[r].pc = pc /\ req'[r].target = target
         /\ req'[r].read = read /\ req'[r].next = next
<1>1. req'[r] = Req(pc, c, p, target, read, next, {})
  OBVIOUS
<1>2. Req(pc, c, p, target, read, next, {}) \in ReqType
  BY DEF Req, ReqType
<1>3. \A s \in Requests \ {r} : req'[s] = req[s]
  OBVIOUS
<1>4. req' \in [Requests -> ReqType]
  BY <1>2
<1> QED BY <1>1, <1>3, <1>4 DEF Req

\* A later step of a request.
LEMMA AdvanceType ==
  ASSUME req \in [Requests -> ReqType], NEW r \in Requests,
         NEW pc \in ReqPc, NEW target \in Ids \cup {0}, NEW listed \in SUBSET Ids,
         Advance(r, pc, target, listed)
  PROVE  /\ req' \in [Requests -> ReqType]
         /\ \A s \in Requests \ {r} : req'[s] = req[s]
         /\ req'[r].pc = pc /\ req'[r].target = target
         /\ req'[r].cand = req[r].cand /\ req'[r].place = req[r].place
         /\ req'[r].read = req[r].read /\ req'[r].next = req[r].next
<1> DEFINE new == Req(pc, req[r].cand, req[r].place, target, req[r].read, req[r].next, listed)
<1>1. req' = [req EXCEPT ![r] = new]
  BY DEF Advance
<1>2. req[r] \in ReqType
  OBVIOUS
<1>3. /\ new \in ReqType
      /\ new.pc = pc /\ new.target = target
      /\ new.cand = req[r].cand /\ new.place = req[r].place
      /\ new.read = req[r].read /\ new.next = req[r].next
  BY <1>2 DEF Req, ReqType
<1> HIDE DEF new
<1>4. req'[r] = new /\ \A s \in Requests \ {r} : req'[s] = req[s]
  BY <1>1
<1>5. req' \in [Requests -> ReqType]
  BY <1>1, <1>3
<1> QED BY <1>3, <1>4, <1>5

\* A step that ends a request, or that leaves it where nothing is known of it.
LEMMA QuietRequestStep ==
  ASSUME req \in [Requests -> ReqType], NEW r \in Requests,
         NEW pc \in {"list", "write", "revoke", "done", "failed"},
         NEW target \in Ids \cup {0}, NEW listed \in SUBSET Ids,
         Advance(r, pc, target, listed)
  PROVE  RequestStep(r)
<1>1. pc \in ReqPc
  BY DEF ReqPc
<1>2. /\ req' \in [Requests -> ReqType]
      /\ \A s \in Requests \ {r} : req'[s] = req[s]
      /\ req'[r].pc = pc
  BY <1>1, AdvanceType
<1> QED BY <1>2 DEF RequestStep, ReqInv

\* A request that succeeds holds a booking as it was asked.
LEMMA AssignedStep ==
  ASSUME Inv, NEW r \in Requests, NEW b \in Ids,
         req[r].pc \in {"assign", "recover"}, Advance(r, "assigned", b, {}),
         booking'[b].status # "NONE",
         booking'[b].cand = req[r].cand, booking'[b].place = req[r].place
  PROVE  RequestStep(r)
<1>1. req \in [Requests -> ReqType] /\ "assigned" \in ReqPc
  BY DEF Inv, TypeOK, ReqType, ReqPc
<1>2. b \in Ids \cup {0} /\ {} \in SUBSET Ids
  OBVIOUS
<1>3. /\ req' \in [Requests -> ReqType]
      /\ \A s \in Requests \ {r} : req'[s] = req[s]
      /\ req'[r].pc = "assigned" /\ req'[r].target = b
      /\ req'[r].cand = req[r].cand /\ req'[r].place = req[r].place
      /\ req'[r].read = req[r].read /\ req'[r].next = req[r].next
  BY <1>1, <1>2, AdvanceType
<1>4. req[r].read \in Steps /\ req[r].next \in Steps
  BY DEF Inv, RequestsInv
<1> QED BY <1>3, <1>4 DEF RequestStep, ReqInv

\* Every step of the panel is a RequestStep.
LEMMA PanelRequestStep ==
  ASSUME Inv, NEW r \in Requests, PanelStep(r)
  PROVE  RequestStep(r)
<1> DEFINE c0 == req[r].cand
           p0 == req[r].place
<1>1. req \in [Requests -> ReqType]
  BY DEF Inv, TypeOK, ReqType, ReqPc
<1>2. /\ req[r].target \in Ids \cup {0} /\ req[r].listed \in SUBSET Ids
      /\ req[r].read \in RowStatus \cup Steps /\ req[r].next \in RowStatus \cup Steps
  BY <1>1 DEF ReqType
<1>3. ASSUME NEW c \in Candidates, NEW p \in Places, AssignRead(r, c, p)
      PROVE  RequestStep(r)
  <2>1. req' = [req EXCEPT ![r] = Req("assign", c, p, 0, step[c], "SCHEDULED", {})]
    BY <1>3 DEF AssignRead
  <2>2. step[c] \in Steps /\ "SCHEDULED" \in Steps /\ "assign" \in ReqPc /\ 0 \in Ids \cup {0}
    BY DEF Inv, TypeOK, Steps, ReqPc
  <2>3. step[c] \in RowStatus \cup Steps /\ "SCHEDULED" \in RowStatus \cup Steps
    BY <2>2
  <2>4. /\ req' \in [Requests -> ReqType]
        /\ \A s \in Requests \ {r} : req'[s] = req[s]
        /\ req'[r].pc = "assign" /\ req'[r].read = step[c] /\ req'[r].next = "SCHEDULED"
    <3> DEFINE new == Req("assign", c, p, 0, step[c], "SCHEDULED", {})
    <3>1. /\ new \in ReqType
          /\ new.pc = "assign" /\ new.read = step[c] /\ new.next = "SCHEDULED"
      BY <2>2, <2>3 DEF Req, ReqType
    <3>2. req' = [req EXCEPT ![r] = new]
      BY <2>1
    <3> HIDE DEF new
    <3> QED BY <1>1, <3>1, <3>2
  <2>5. req'[r].read \in Steps /\ req'[r].next \in Steps
    BY <2>2, <2>4
  <2>6. ReqInv(r)'
    BY <2>4, <2>5 DEF ReqInv
  <2> QED BY <2>4, <2>6 DEF RequestStep
<1>4. CASE AssignBook(r)
  <2>1. req[r].pc = "assign" /\ c0 \in Candidates /\ p0 \in Places
    BY <1>4 DEF AssignBook, Inv, TypeOK
  <2>2. ASSUME NEW b \in Exact(c0, p0), Advance(r, "assigned", b, {}), UNCHANGED booking
        PROVE  RequestStep(r)
    <3>1. /\ b \in Ids
          /\ booking'[b].status # "NONE"
          /\ booking'[b].cand = c0 /\ booking'[b].place = p0
      BY <2>2 DEF Exact, ActiveOf, ActiveStatuses
    <3> QED BY <2>1, <2>2, <3>1, AssignedStep
  <2>3. ASSUME NEW b \in Ids, IsNext(b), Advance(r, "assigned", b, {}),
               Create(c0, p0, ActiveOf(c0))
        PROVE  RequestStep(r)
    <3>1. booking \in [Ids -> RowType] /\ OneActiveBooking
      BY DEF Inv, TypeOK, RowType
    <3>2. UniqueIndexAllows(c0, ActiveOf(c0)) /\ ActiveOf(c0) \in SUBSET ActiveOf(c0)
      BY DEF UniqueIndexAllows
    <3>3. PICK a \in Ids : IsNext(a) /\ booking'[a] = Row(c0, p0, "SCHEDULED", FALSE)
      <4> HIDE DEF c0, p0
      <4> QED BY <2>1, <2>3, <3>1, <3>2, CreateStep
    <3>4. a = b
      BY <2>3, <3>3, NextIsUnique
    <3>5. /\ booking'[b].status # "NONE"
          /\ booking'[b].cand = c0 /\ booking'[b].place = p0
      BY <3>3, <3>4 DEF Row
    <3> QED BY <2>1, <2>3, <3>5, AssignedStep
  <2> QED BY <1>4, <2>2, <2>3 DEF AssignBook
<1>5. CASE AssignConflict(r)
  <2>1. req[r].pc = "assign" /\ "recover" \in ReqPc
    BY <1>5 DEF AssignConflict, ReqPc
  <2>2. Advance(r, "recover", req[r].target, req[r].listed)
    BY <1>5 DEF AssignConflict, Finish
  <2>3. /\ req' \in [Requests -> ReqType]
        /\ \A s \in Requests \ {r} : req'[s] = req[s]
        /\ req'[r].pc = "recover"
        /\ req'[r].read = req[r].read /\ req'[r].next = req[r].next
    BY <1>1, <1>2, <2>1, <2>2, AdvanceType
  <2>4. req[r].read \in Steps /\ req[r].next \in Steps
    BY <2>1 DEF Inv, RequestsInv
  <2> QED BY <2>3, <2>4 DEF RequestStep, ReqInv
<1>6. CASE AssignRecover(r)
  <2>1. req[r].pc = "recover" /\ UNCHANGED booking
    BY <1>6 DEF AssignRecover
  <2>2. ASSUME NEW b \in Recoverable(c0, p0), Advance(r, "assigned", b, {})
        PROVE  RequestStep(r)
    <3>1. /\ b \in Ids
          /\ booking'[b].status # "NONE"
          /\ booking'[b].cand = c0 /\ booking'[b].place = p0
      BY <2>1, <2>2 DEF Recoverable, Exact, ActiveOf, ActiveStatuses
    <3> QED BY <2>1, <2>2, <3>1, AssignedStep
  <2>3. CASE Finish(r, "failed")
    BY <1>1, <1>2, <2>3, QuietRequestStep DEF Finish
  <2> QED BY <1>6, <2>2, <2>3 DEF AssignRecover
<1>7. CASE AssignReflect(r) \/ DeleteReflect(r) \/ ReflectError(r)
  <2>1. Advance(r, "done", req[r].target, req[r].listed)
    BY <1>7 DEF AssignReflect, DeleteReflect, ReflectError, Reflect, Finish
  <2> QED BY <1>1, <1>2, <2>1, QuietRequestStep
<1>8. ASSUME NEW c \in Candidates, NEW t \in Times, CoordRead(r, c, t)
      PROVE  RequestStep(r)
  <2>1. PICK pc \in {"done", "list"} :
          req' = [req EXCEPT ![r] = Req(pc, c, [slot |-> NoSlot, at |-> t], 0, "NONE", "NONE", {})]
    BY <1>8 DEF CoordRead
  <2>2. /\ [slot |-> NoSlot, at |-> t] \in Places /\ 0 \in Ids \cup {0}
        /\ "NONE" \in RowStatus \cup Steps /\ pc \in ReqPc
    BY DEF Places, RowStatus, ReqPc
  <2>3. /\ req' \in [Requests -> ReqType]
        /\ \A s \in Requests \ {r} : req'[s] = req[s]
        /\ req'[r].pc = pc
    BY <1>1, <2>1, <2>2, StartType
  <2> QED BY <2>3 DEF RequestStep, ReqInv
<1>9. CASE CoordList(r)
  <2>1. Advance(r, "write", 0, ActiveOf(req[r].cand))
    BY <1>9 DEF CoordList
  <2>2. ActiveOf(req[r].cand) \in SUBSET Ids /\ 0 \in Ids \cup {0}
    BY DEF ActiveOf
  <2> QED BY <1>1, <2>1, <2>2, QuietRequestStep
<1>10. CASE CoordWrite(r) \/ CoordCancel(r) \/ StatusWrite(r)
  <2>1. Finish(r, "done") \/ Finish(r, "failed")
    BY <1>10 DEF CoordWrite, CoordCancel, StatusWrite
  <2> QED BY <1>1, <1>2, <2>1, QuietRequestStep DEF Finish
<1>11. ASSUME NEW c \in Candidates, CoordRevoke(r, c)
       PROVE  RequestStep(r)
  <2>1. req' = [req EXCEPT ![r] = Req("revoke", c, AnyPlace, 0, "NONE", "NONE", {})]
    BY <1>11 DEF CoordRevoke
  <2>2. /\ AnyPlace \in Places /\ 0 \in Ids \cup {0}
        /\ "NONE" \in RowStatus \cup Steps /\ "revoke" \in ReqPc
    BY AnyArePossible DEF RowStatus, ReqPc
  <2>3. /\ req' \in [Requests -> ReqType]
        /\ \A s \in Requests \ {r} : req'[s] = req[s]
        /\ req'[r].pc = "revoke"
    BY <1>1, <2>1, <2>2, StartType
  <2> QED BY <2>3 DEF RequestStep, ReqInv
<1>12. ASSUME NEW b \in Ids, NEW next \in AdminActions, StatusRead(r, b, next)
       PROVE  RequestStep(r)
  <2>1. /\ booking[b].status \in AllowedOrigins(next) \cup {next}
        /\ req' = [req EXCEPT ![r] = Req("status", booking[b].cand, booking[b].place, b,
                                         booking[b].status, next, {})]
    BY <1>12 DEF StatusRead
  <2>2. booking[b] \in RowType
    BY DEF Inv, TypeOK, RowType
  <2>3. /\ booking[b].cand \in Candidates /\ booking[b].place \in Places
        /\ booking[b].status \in RowStatus \cup Steps
        /\ next \in RowStatus \cup Steps /\ "status" \in ReqPc /\ b \in Ids \cup {0}
    BY <2>2 DEF RowType, AdminActions, RowStatus, BookingStatus, ActiveStatuses, ReqPc
  <2>4. booking[b].status = next \/ <<booking[b].status, next>> \in Matrix
    BY <2>1, AllowedOriginsAreLegal
  <2>5. /\ req' \in [Requests -> ReqType]
        /\ \A s \in Requests \ {r} : req'[s] = req[s]
        /\ req'[r].pc = "status" /\ req'[r].target = b
        /\ req'[r].read = booking[b].status /\ req'[r].next = next
    <3> DEFINE new == Req("status", booking[b].cand, booking[b].place, b,
                          booking[b].status, next, {})
    <3>1. /\ new \in ReqType
          /\ new.pc = "status" /\ new.target = b
          /\ new.read = booking[b].status /\ new.next = next
      BY <2>3 DEF Req, ReqType
    <3>2. req' = [req EXCEPT ![r] = new]
      BY <2>1
    <3> HIDE DEF new
    <3> QED BY <1>1, <3>1, <3>2
  <2>6. /\ req'[r].target \in Ids /\ req'[r].next \in AdminActions
        /\ req'[r].read = req'[r].next \/ <<req'[r].read, req'[r].next>> \in Matrix
    BY <2>4, <2>5
  <2>7. ReqInv(r)'
    BY <2>5, <2>6 DEF ReqInv
  <2> QED BY <2>5, <2>7 DEF RequestStep
<1>13. ASSUME NEW b \in Ids, DeleteRead(r, b)
       PROVE  RequestStep(r)
  <2>1. /\ booking[b].status \in BookingStatus
        /\ req' = [req EXCEPT ![r] = Req("delete", booking[b].cand, booking[b].place, b,
                                         step[booking[b].cand], "SCHEDULING", {})]
        /\ UNCHANGED booking
    BY <1>13 DEF DeleteRead
  <2>2. booking[b] \in RowType
    BY DEF Inv, TypeOK, RowType
  <2>3. /\ booking[b].cand \in Candidates /\ booking[b].place \in Places
        /\ "delete" \in ReqPc /\ b \in Ids \cup {0} /\ "SCHEDULING" \in Steps
    BY <2>2 DEF RowType, ReqPc, Steps
  <2>4. step[booking[b].cand] \in Steps
    BY <2>3 DEF Inv, TypeOK
  <2>5. booking[b].status # "NONE"
    BY <2>1 DEF BookingStatus, ActiveStatuses
  <2>6. step[booking[b].cand] \in RowStatus \cup Steps /\ "SCHEDULING" \in RowStatus \cup Steps
    BY <2>3, <2>4
  <2>7. /\ req' \in [Requests -> ReqType]
        /\ \A s \in Requests \ {r} : req'[s] = req[s]
        /\ req'[r].pc = "delete" /\ req'[r].target = b
        /\ req'[r].read = step[booking[b].cand] /\ req'[r].next = "SCHEDULING"
    BY <1>1, <2>1, <2>3, <2>6, StartType
  <2> QED BY <2>1, <2>3, <2>4, <2>5, <2>7 DEF RequestStep, ReqInv
<1>14. CASE DeleteRow(r)
  <2>1. req[r].pc = "delete"
    BY <1>14 DEF DeleteRow
  <2>2. PICK pc \in {"deleted", "done", "failed"} :
          Advance(r, pc, req[r].target, req[r].listed)
    BY <1>14 DEF DeleteRow, Finish
  <2>3. pc \in ReqPc
    BY DEF ReqPc
  <2>4. /\ req' \in [Requests -> ReqType]
        /\ \A s \in Requests \ {r} : req'[s] = req[s]
        /\ req'[r].pc = pc
        /\ req'[r].read = req[r].read /\ req'[r].next = req[r].next
    BY <1>1, <1>2, <2>2, <2>3, AdvanceType
  <2>5. req[r].read \in Steps /\ req[r].next \in Steps
    BY <2>1 DEF Inv, RequestsInv
  <2> QED BY <2>4, <2>5 DEF RequestStep, ReqInv
<1> QED BY <1>3, <1>4, <1>5, <1>6, <1>7, <1>8, <1>9, <1>10, <1>11, <1>12, <1>13, <1>14
        DEF PanelStep

\* Whoever takes the step, the requests keep their types and their invariant.
LEMMA NextRequests ==
  ASSUME Inv, [Next]_vars
  PROVE  /\ req' \in [Requests -> ReqType]
         /\ \A r \in Requests : ReqInv(r)'
<1>1. BookingStep
  BY NextBookingStep
<1>2. req \in [Requests -> ReqType]
  BY DEF Inv, TypeOK, ReqType, ReqPc
<1>3. \A r \in Requests : ReqInv(r)
  BY DEF Inv, AssignedAsAsked, RequestsInv, ReqInv
<1>4. CASE UNCHANGED req
  BY <1>1, <1>2, <1>3, <1>4, WaitingKeepsReqInv
<1>5. ASSUME NEW r \in Requests, PanelStep(r)
      PROVE  /\ req' \in [Requests -> ReqType]
             /\ \A s \in Requests : ReqInv(s)'
  <2>1. RequestStep(r)
    BY <1>5, PanelRequestStep
  <2>2. ASSUME NEW s \in Requests, s # r PROVE ReqInv(s)'
    <3>1. req'[s] = req[s]
      BY <2>1, <2>2 DEF RequestStep
    <3> QED BY <1>1, <1>3, <3>1, WaitingKeepsReqInv
  <2> QED BY <2>1, <2>2 DEF RequestStep
<1>6. CASE BotStep
  <2>1. UNCHANGED req
    BY <1>6 DEF BotStep, MessageTurn, InterviewReminderTurn, InactivityReminderTurn,
                CommitTurn, CronInterview, CronInactivity
  <2> QED BY <1>4, <2>1
<1> QED BY <1>4, <1>5, <1>6 DEF Next, vars

-----------------------------------------------------------------------------
(* The turns and the step of the candidates.                                *)

TurnType == [msg : Messages \cup SystemIntents \cup {"none"}, about : Ids \cup {0},
             effect : {"none", "cancel_booking", "suggest_slots"},
             reply : {"NONE", "ANSWER", "SEND_REMINDER", "REVIEW_NOTICE"},
             reset : BOOLEAN]
ReplyType == {"NONE", "ANSWER", "SEND_REMINDER", "REVIEW_NOTICE", "SLOTS"}

\* The part of TypeOK that says nothing of bookings and requests.
TurnsTyped ==
    /\ step \in [Candidates -> Steps]
    /\ turn \in [Candidates -> TurnType]
    /\ turns \in 0 .. MaxTurns
    /\ interviewJobs \subseteq Ids
    /\ inactivityJobs \subseteq Candidates /\ flagged \subseteq Candidates
    /\ lastReply \in [Candidates -> ReplyType]

\* A turn decides an effect and a reply of the types.
LEMMA DecideType ==
  ASSUME TurnsTyped, NEW c \in Candidates, NEW m \in Messages \cup SystemIntents,
         NEW b \in Ids \cup {0}, Decide(c, m, b)
  PROVE  turn' \in [Candidates -> TurnType]
<1>1. SchedulingPolicy(c, m) \in {"none", "cancel_booking", "suggest_slots"}
  BY DEF SchedulingPolicy
<1>2. Effect(c, m) \in {"none", "cancel_booking", "suggest_slots"}
  BY <1>1 DEF Effect
<1>3. DecidedReply(c, m) \in {"NONE", "ANSWER", "SEND_REMINDER", "REVIEW_NOTICE"}
  BY DEF DecidedReply
<1> DEFINE new == [msg |-> m, about |-> b, effect |-> Effect(c, m),
                   reply |-> DecidedReply(c, m),
                   reset |-> m \notin SystemIntents /\ c \in flagged]
<1>4. new \in TurnType
  <2>1. (m \notin SystemIntents /\ c \in flagged) \in BOOLEAN
    OBVIOUS
  <2> QED BY <1>2, <1>3, <2>1 DEF TurnType
<1>5. turn' = [turn EXCEPT ![c] = new]
  BY DEF Decide
<1> HIDE DEF new
<1> QED BY <1>4, <1>5 DEF TurnsTyped

\* Reflecting the outcome of a request writes a step.
LEMMA ReflectType ==
  ASSUME TurnsTyped, NEW r \in Requests, Reflect(r), req[r].next \in Steps
  PROVE  TurnsTyped'
<1>1. step' \in [Candidates -> Steps]
  BY DEF Reflect, TurnsTyped
<1>2. UNCHANGED turnVars
  BY DEF Reflect
<1> QED BY <1>1, <1>2 DEF TurnsTyped, turnVars

\* Every step keeps the types of the turns.
LEMMA NextTurns ==
  ASSUME Inv, [Next]_vars
  PROVE  TurnsTyped'
<1>1. TurnsTyped
  BY DEF Inv, TypeOK, TurnsTyped, TurnType, ReplyType
<1>2. CASE UNCHANGED <<step, turnVars>>
  BY <1>1, <1>2 DEF TurnsTyped, turnVars
<1>3. ASSUME NEW r \in Requests, PanelStep(r)
      PROVE  TurnsTyped'
  <2>1. CASE AssignReflect(r) \/ DeleteReflect(r)
    <3>1. Reflect(r) /\ req[r].next \in Steps
      BY <2>1 DEF AssignReflect, DeleteReflect, Inv, RequestsInv
    <3> QED BY <1>1, <3>1, ReflectType
  <2>2. CASE ~(AssignReflect(r) \/ DeleteReflect(r))
    <3>1. UNCHANGED <<step, turnVars>>
      BY <1>3, <2>2 DEF PanelStep, AssignRead, AssignBook, AssignConflict, AssignRecover,
           ReflectError, CoordRead, CoordList, CoordWrite, CoordRevoke, CoordCancel,
           StatusRead, StatusWrite, DeleteRead, DeleteRow
    <3> QED BY <1>2, <3>1
  <2> QED BY <2>1, <2>2
<1>4. ASSUME NEW c \in Candidates, NEW m \in Messages, MessageTurn(c, m)
      PROVE  TurnsTyped'
  <2>1. turn' \in [Candidates -> TurnType]
    BY <1>1, <1>4, DecideType DEF MessageTurn
  <2>2. turns' \in 0 .. MaxTurns
    BY <1>1, <1>4, AgendaAssumption DEF AgendaAssumption, MessageTurn, TurnsTyped
  <2> QED BY <1>1, <1>4, <2>1, <2>2 DEF TurnsTyped, MessageTurn
<1>5. ASSUME NEW b \in Ids, InterviewReminderTurn(b)
      PROVE  TurnsTyped'
  <2>1. booking[b].cand \in Candidates
    BY DEF Inv, TypeOK
  <2>2. turn' \in [Candidates -> TurnType]
    BY <1>1, <1>5, <2>1, DecideType DEF InterviewReminderTurn, SystemIntents
  <2> QED BY <1>1, <1>5, <2>2 DEF TurnsTyped, InterviewReminderTurn
<1>6. ASSUME NEW c \in Candidates, InactivityReminderTurn(c)
      PROVE  TurnsTyped'
  <2>1. turn' \in [Candidates -> TurnType]
    BY <1>1, <1>6, DecideType DEF InactivityReminderTurn, SystemIntents
  <2> QED BY <1>1, <1>6, <2>1 DEF TurnsTyped, InactivityReminderTurn
<1>7. ASSUME NEW c \in Candidates, CommitTurn(c)
      PROVE  TurnsTyped'
  <2>1. NoTurn \in TurnType
    BY DEF NoTurn, TurnType
  <2>2. turn' \in [Candidates -> TurnType]
    BY <1>1, <1>7, <2>1 DEF CommitTurn, TurnsTyped
  <2>3. Reply(c) \in ReplyType
    <3>1. turn[c] \in TurnType
      BY <1>1 DEF TurnsTyped
    <3> QED BY <3>1 DEF Reply, TurnType, ReplyType
  <2>4. lastReply' \in [Candidates -> ReplyType]
    BY <1>1, <1>7, <2>3 DEF CommitTurn, TurnsTyped
  <2>5. step' \in [Candidates -> Steps]
    BY <1>1, <1>7 DEF CommitTurn, TurnsTyped, Steps
  <2>6. flagged' \subseteq Candidates /\ UNCHANGED <<turns, interviewJobs, inactivityJobs>>
    BY <1>1, <1>7 DEF CommitTurn, TurnsTyped
  <2> QED BY <1>1, <2>2, <2>4, <2>5, <2>6 DEF TurnsTyped
<1>8. ASSUME NEW b \in Ids, CronInterview(b)
      PROVE  TurnsTyped'
  BY <1>1, <1>8 DEF TurnsTyped, CronInterview
<1>9. ASSUME NEW c \in Candidates, CronInactivity(c)
      PROVE  TurnsTyped'
  BY <1>1, <1>9 DEF TurnsTyped, CronInactivity
<1> QED BY <1>2, <1>3, <1>4, <1>5, <1>6, <1>7, <1>8, <1>9 DEF Next, BotStep, vars, turnVars

\* A reminder turn decides on the reminder, unless it would repeat it, and on
\* an offer only for a candidate who lacks nothing.
LEMMA DecideReminder ==
  ASSUME NEW c \in Candidates
  PROVE  LET m == "interview_reminder" IN
         /\ DecidedReply(c, m) = "SEND_REMINDER" \/ lastReply[c] = "SEND_REMINDER"
         /\ Effect(c, m) = "suggest_slots" => c \in Complete
BY DEF DecidedReply, Effect, SchedulingPolicy, Intent, SystemIntents, Lifecycle

\* Every step keeps what the invariant says of reminder turns.
LEMMA NextReminders ==
  ASSUME Inv, [Next]_vars
  PROVE  RemindersInv'
<1> USE DEF RemindersInv
<1>1. RemindersInv /\ turn \in [Candidates -> TurnType]
  BY DEF Inv, TypeOK, TurnType
<1>2. ASSUME UNCHANGED <<turn, lastReply>>
      PROVE  RemindersInv'
  BY <1>1, <1>2
<1>3. ASSUME NEW c \in Candidates, NEW m \in Messages \cup SystemIntents,
             NEW b \in Ids \cup {0}, Decide(c, m, b), UNCHANGED lastReply
      PROVE  RemindersInv'
  <2>1. turn'[c].msg = m /\ turn'[c].reply = DecidedReply(c, m) /\ turn'[c].effect = Effect(c, m)
    BY <1>1, <1>3 DEF Decide
  <2>2. \A d \in Candidates \ {c} : turn'[d] = turn[d]
    BY <1>1, <1>3 DEF Decide
  <2>3. m = "interview_reminder" =>
          /\ turn'[c].reply = "SEND_REMINDER" \/ lastReply[c] = "SEND_REMINDER"
          /\ turn'[c].effect = "suggest_slots" => c \in Complete
    BY <2>1, DecideReminder
  <2> QED BY <1>1, <1>3, <2>1, <2>2, <2>3
<1>4. ASSUME NEW r \in Requests, PanelStep(r)
      PROVE  RemindersInv'
  <2>1. UNCHANGED <<turn, lastReply>>
    BY <1>4 DEF PanelStep, AssignRead, AssignBook, AssignConflict, AssignRecover,
         AssignReflect, DeleteReflect, Reflect, ReflectError, CoordRead, CoordList,
         CoordWrite, CoordRevoke, CoordCancel, StatusRead, StatusWrite, DeleteRead,
         DeleteRow, turnVars
  <2> QED BY <1>2, <2>1
<1>5. ASSUME NEW c \in Candidates, NEW m \in Messages, MessageTurn(c, m)
      PROVE  RemindersInv'
  BY <1>3, <1>5 DEF MessageTurn
<1>6. ASSUME NEW b \in Ids, InterviewReminderTurn(b)
      PROVE  RemindersInv'
  <2>1. booking[b].cand \in Candidates
    BY DEF Inv, TypeOK
  <2> QED BY <1>3, <1>6, <2>1 DEF InterviewReminderTurn, SystemIntents
<1>7. ASSUME NEW c \in Candidates, InactivityReminderTurn(c)
      PROVE  RemindersInv'
  BY <1>3, <1>7 DEF InactivityReminderTurn, SystemIntents
<1>8. ASSUME NEW c \in Candidates, CommitTurn(c)
      PROVE  RemindersInv'
  <2>1. turn'[c] = NoTurn /\ \A d \in Candidates \ {c} : turn'[d] = turn[d]
    BY <1>1, <1>8 DEF CommitTurn
  <2>2. \A d \in Candidates \ {c} : lastReply'[d] = lastReply[d]
    BY <1>8 DEF CommitTurn, Inv, TypeOK
  <2>3. turn'[c].msg # "interview_reminder"
    BY <2>1 DEF NoTurn
  <2> QED BY <1>1, <2>1, <2>2, <2>3
<1>9. ASSUME NEW b \in Ids, CronInterview(b)
      PROVE  RemindersInv'
  BY <1>2, <1>9 DEF CronInterview
<1>10. ASSUME NEW c \in Candidates, CronInactivity(c)
       PROVE  RemindersInv'
  BY <1>2, <1>10 DEF CronInactivity
<1>11. CASE UNCHANGED vars
  BY <1>2, <1>11 DEF vars
<1> QED BY <1>4, <1>5, <1>6, <1>7, <1>8, <1>9, <1>10, <1>11 DEF Next, BotStep

-----------------------------------------------------------------------------
\* The invariant holds before anything is booked.
LEMMA InitInv == Init => Inv
<1> SUFFICES ASSUME Init PROVE Inv
  OBVIOUS
<1>1. AnyCandidate \in Candidates /\ AnyPlace \in Places
  BY AnyArePossible
<1>2. booking \in [Ids -> RowType]
  BY <1>1 DEF Init, Row, RowType, RowStatus
<1>3. req \in [Requests -> ReqType]
  BY <1>1 DEF Init, Idle, Req, ReqType, ReqPc, RowStatus
<1>4. TurnsTyped
  BY AgendaAssumption
     DEF AgendaAssumption, Init, TurnsTyped, TurnType, ReplyType, NoTurn, Steps
<1>5. TypeOK
  BY <1>2, <1>3, <1>4
     DEF TypeOK, RowType, ReqType, ReqPc, TurnsTyped, TurnType, ReplyType
<1>6. \A b \in Ids : booking[b].status = "NONE"
  BY DEF Init, Row
<1>7. \A r \in Requests : req[r].pc = "idle"
  BY DEF Init, Idle, Req
<1>8. RemindersInv
  BY DEF Init, RemindersInv, NoTurn
<1> QED BY <1>5, <1>6, <1>7, <1>8
        DEF Inv, OneActiveBooking, AssignedAsAsked, RequestsInv, ActiveStatuses

\* Every step keeps the invariant.
LEMMA NextInv == Inv /\ [Next]_vars => Inv'
<1> SUFFICES ASSUME Inv, [Next]_vars PROVE Inv'
  OBVIOUS
<1>1. BookingStep
  BY NextBookingStep
<1>2. req' \in [Requests -> ReqType] /\ \A r \in Requests : ReqInv(r)'
  BY NextRequests
<1>3. TurnsTyped'
  BY NextTurns
<1>4. TypeOK'
  BY <1>1, <1>2, <1>3
     DEF BookingStep, TypeOK, RowType, ReqType, ReqPc, TurnsTyped, TurnType, ReplyType
<1>5. AssignedAsAsked' /\ RequestsInv'
  BY <1>2 DEF ReqInv, AssignedAsAsked, RequestsInv
<1>6. RemindersInv'
  BY NextReminders
<1> QED BY <1>1, <1>4, <1>5, <1>6 DEF Inv, BookingStep

\* The agenda keeps its inductive invariant, whatever the instance.
THEOREM Invariance == Spec => []Inv
  BY InitInv, NextInv, PTL DEF Spec

\* Rows, requests, turns and queues keep their types, whatever the instance.
THEOREM TypeCorrect == Spec => []TypeOK
<1>1. Inv => TypeOK
  BY DEF Inv
<1> QED BY <1>1, Invariance, PTL

\* No interleaving of panel, bot and cron gives a candidate two active bookings.
THEOREM OneBookingEach == Spec => []OneActiveBooking
<1>1. Inv => OneActiveBooking
  BY DEF Inv
<1> QED BY <1>1, Invariance, PTL

\* An assignment never reports success for a place that was not booked.
THEOREM AssignmentsAreHonest == Spec => []AssignedAsAsked
<1>1. Inv => AssignedAsAsked
  BY DEF Inv
<1> QED BY <1>1, Invariance, PTL

\* Bookings move only along the matrix: a closed booking is never revived.
THEOREM LegalTransitions == Spec => TransitionsAreLegal
<1>1. Inv /\ [Next]_vars => [\A b \in Ids : booking'[b].status # booking[b].status =>
                <<booking[b].status, booking'[b].status>> \in Matrix]_booking
  BY NextBookingStep DEF BookingStep, MovesLegally
<1> QED BY <1>1, Invariance, PTL DEF Spec, TransitionsAreLegal

\* A place is given up only for another: replacing a booking is atomic.
THEOREM NoPlaceIsLost == Spec => RescheduledAreReplaced
<1>1. Inv /\ [Next]_vars => [\A b \in Ids :
           booking[b].status \in ActiveStatuses /\ booking'[b].status = "RESCHEDULED"
           => \E a \in Ids : /\ booking[a].status = "NONE"
                             /\ booking'[a].status = "SCHEDULED"
                             /\ booking'[a].cand = booking[b].cand]_booking
  BY NextBookingStep DEF BookingStep, Replaces
<1> QED BY <1>1, Invariance, PTL DEF Spec, RescheduledAreReplaced

\* The reminder that was queued is what the candidate gets, whatever the panel
\* does meanwhile, but for an offer of slots and for a repetition.
THEOREM RemindersGoOut == Spec => RemindersAreDisplacedOnlyByOffersAndRepetition
<1>1. Inv /\ [Next]_vars =>
        [\A c \in Candidates :
           turn[c].msg = "interview_reminder" /\ turn'[c] = NoTurn
           => Reply(c) = "SEND_REMINDER" \/ lastReply[c] = "SEND_REMINDER" \/ c \in Complete]_vars
  BY DEF Inv, RemindersInv, Reply
<1> QED BY <1>1, Invariance, PTL DEF Spec, RemindersAreDisplacedOnlyByOffersAndRepetition
=============================================================================

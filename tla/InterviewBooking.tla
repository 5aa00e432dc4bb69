-------------------------- MODULE InterviewBooking --------------------------
(***************************************************************************)
(* The agenda: the rows of InterviewBooking, the only table two people and *)
(* a bot book interviews in, and the conversation step of each candidate.  *)
(* Its writers are HTTP requests of the panel (assign, coordinate, change  *)
(* the status of a booking, delete it), the conversation turns of the job  *)
(* worker and the reminder cron.  A request reads in one step and writes   *)
(* in a later one.  A transaction is one step from its first write to its  *)
(* commit: PostgreSQL keeps the rows it wrote locked and its unique index  *)
(* makes a conflicting insert wait and fail.                               *)
(*                                                                         *)
(* Every candidate has accepted the data consent and applies to a vacancy  *)
(* with scheduling enabled; Complete are those with no pending field.      *)
(* slotId and scheduledAt are the two fields of a place.                   *)
(***************************************************************************)
EXTENDS Integers, FiniteSets

CONSTANTS Candidates, Complete, Requests, Slots, Times, NoSlot,
          MaxCandidates,  \* InterviewSlot.maxCandidates, of every slot
          MaxBookings,    \* bound: bookings ever created
          MaxTurns        \* bound: messages of the candidates

ASSUME AgendaAssumption ==
    /\ Candidates # {} /\ Times # {}
    /\ Complete \subseteq Candidates
    /\ NoSlot \notin Slots
    /\ MaxBookings \in Nat /\ MaxTurns \in Nat /\ MaxCandidates \in Nat

Ids == 1 .. MaxBookings
Places == [slot : Slots \cup {NoSlot}, at : Times]

ActiveStatuses == {"SCHEDULED", "CONFIRMED"}
BookingStatus == ActiveStatuses \cup
    {"ATTENDED", "NO_RESPONSE", "RESCHEDULED", "NO_SHOW", "CANCELLED"}
\* "NONE" is an id not used yet, "DELETED" a row deleteMany removed.
RowStatus == BookingStatus \cup {"NONE", "DELETED"}

\* COLLECTING_DATA stands for every step before the agenda.
Steps == {"COLLECTING_DATA", "SCHEDULING", "SCHEDULED"}

VARIABLES
    booking,    \* [Ids -> row]
    step,       \* [Candidates -> Candidate.currentStep]
    req,        \* [Requests -> state of an HTTP request of the panel]
    turn,       \* [Candidates -> the turn of the candidate under way]
    turns,      \* messages written so far
    interviewJobs, \* bookings whose reminder turn is queued
    inactivityJobs, \* candidates whose inactivity reminder turn is queued
    flagged,    \* candidates whose inactivityReminderSent is set
    lastReply   \* [Candidates -> identity of the newest outbound row]

vars == <<booking, step, req, turn, turns, interviewJobs, inactivityJobs, flagged, lastReply>>
turnVars == <<turn, turns, interviewJobs, inactivityJobs, flagged, lastReply>>

Row(c, p, s, sent) == [cand |-> c, place |-> p, status |-> s, reminderSent |-> sent]
WithStatus(b, s) == Row(booking[b].cand, booking[b].place, s, booking[b].reminderSent)

ActiveOf(c) == {b \in Ids : booking[b].cand = c /\ booking[b].status \in ActiveStatuses}
Exact(c, p) == {b \in ActiveOf(c) : booking[b].place = p}
Unused == {b \in Ids : booking[b].status = "NONE"}
IsNext(b) == b \in Unused /\ \A a \in Unused : b <= a

\* A request between two of its steps: the booking it is about (0: none), the
\* status or step it read and the one it means to write, the active bookings
\* its transaction listed.
Req(pc, c, p, target, read, next, listed) ==
    [pc |-> pc, cand |-> c, place |-> p, target |-> target,
     read |-> read, next |-> next, listed |-> listed]
AnyCandidate == CHOOSE c \in Candidates : TRUE
AnyPlace == CHOOSE p \in Places : TRUE
Idle == Req("idle", AnyCandidate, AnyPlace, 0, "NONE", "NONE", {})
Advance(r, pc, target, listed) ==
    req' = [req EXCEPT ![r] = Req(pc, @.cand, @.place, target, @.read, @.next, listed)]
Finish(r, pc) == Advance(r, pc, req[r].target, req[r].listed)

NoTurn == [msg |-> "none", about |-> 0, effect |-> "none", reply |-> "NONE",
           reset |-> FALSE]

Init ==
    /\ booking = [b \in Ids |-> Row(AnyCandidate, AnyPlace, "NONE", FALSE)]
    /\ step = [c \in Candidates |-> "COLLECTING_DATA"]
    /\ req = [r \in Requests |-> Idle]
    /\ turn = [c \in Candidates |-> NoTurn]
    /\ turns = 0
    /\ interviewJobs = {}
    /\ inactivityJobs = {}
    /\ flagged = {}
    /\ lastReply = [c \in Candidates |-> "NONE"]

-----------------------------------------------------------------------------
(* interviewBookingStateService: creation and replacement                  *)

\* Faulty variant: the index of the migration was dropped.
UniqueIndexDropped(c, closing) == TRUE

\* The partial unique index of the migration: one active booking a candidate.
UniqueIndexAllows(c, closing) == ActiveOf(c) \subseteq closing

\* Faulty variant: closing and creation are two transactions, the second fails.
CreateSplit(c, p, closing) ==
    booking' = [a \in Ids |->
        IF a \in closing THEN WithStatus(a, "RESCHEDULED")
        ELSE IF closing = {} /\ IsNext(a) THEN Row(c, p, "SCHEDULED", FALSE)
        ELSE booking[a]]

\* createBookingRow after updateMany closed the bookings in closing.
Create(c, p, closing) ==
    \E b \in Ids :
        /\ IsNext(b)
        /\ booking' = [a \in Ids |->
               IF a = b THEN Row(c, p, "SCHEDULED", FALSE)
               ELSE IF a \in closing THEN WithStatus(a, "RESCHEDULED")
               ELSE booking[a]]

-----------------------------------------------------------------------------
(* POST /candidates/:id/interview-assign                                   *)

\* candidateCount of getAvailableSlots.
Occupancy(p) == Cardinality({b \in Ids :
    booking[b].status \in ActiveStatuses /\ booking[b].place = p})
Available(p) == p.slot # NoSlot /\ Occupancy(p) < MaxCandidates

AssignRead(r, c, p) ==
    /\ req[r].pc = "idle"
    /\ Available(p)
    /\ req' = [req EXCEPT ![r] = Req("assign", c, p, 0, step[c], "SCHEDULED", {})]
    /\ UNCHANGED <<booking, step, turnVars>>

\* createOrReplaceInsideTransaction in a serializable transaction of its own.
AssignBook(r) ==
    LET c == req[r].cand
        p == req[r].place
    IN  /\ req[r].pc = "assign"
        /\ \/ \E b \in Exact(c, p) :
                 /\ Advance(r, "assigned", b, {})
                 /\ UNCHANGED booking
           \/ /\ Exact(c, p) = {}
              /\ Create(c, p, ActiveOf(c))
              /\ \E b \in Ids : IsNext(b) /\ Advance(r, "assigned", b, {})
        /\ UNCHANGED <<step, turnVars>>

\* Three serialization failures, or a unique conflict.
AssignConflict(r) ==
    /\ req[r].pc = "assign"
    /\ Finish(r, "recover")
    /\ UNCHANGED <<booking, step, turnVars>>

\* Faulty variant: any active booking of the candidate answers the conflict.
RecoverableAny(c, p) == ActiveOf(c)

\* findExactActiveBooking, what a conflict may be answered with.
Recoverable(c, p) == Exact(c, p)

AssignRecover(r) ==
    LET found == Recoverable(req[r].cand, req[r].place)
    IN  /\ req[r].pc = "recover"
        /\ \/ \E b \in found : Advance(r, "assigned", b, {})
           \/ found = {} /\ Finish(r, "failed")
        /\ UNCHANGED <<booking, step, turnVars>>

\* reflectCandidateAdminInterviewProgress: a compare-and-set on the step read.
Reflect(r) ==
    /\ step' = IF step[req[r].cand] = req[r].read
               THEN [step EXCEPT ![req[r].cand] = req[r].next] ELSE step
    /\ Finish(r, "done")
    /\ UNCHANGED <<booking, turnVars>>

AssignReflect(r) == req[r].pc = "assigned" /\ Reflect(r)

\* The write of the step fails; the route logs it and goes on.
ReflectError(r) ==
    /\ req[r].pc \in {"assigned", "deleted"}
    /\ Finish(r, "done")
    /\ UNCHANGED <<booking, step, turnVars>>

-----------------------------------------------------------------------------
(* POST /interview-management/candidates/:candidateId/coordination          *)

\* data.booking, the active booking of the candidate, loaded before the
\* transaction.  CONFIRMED at the time it already has books nothing.
CoordRead(r, c, t) ==
    /\ req[r].pc = "idle"
    /\ LET p == [slot |-> NoSlot, at |-> t]
           same == {b \in ActiveOf(c) : booking[b].place.at = t}
       IN  req' = [req EXCEPT ![r] =
               Req(IF same # {} THEN "done" ELSE "list", c, p, 0, "NONE", "NONE", {})]
    /\ UNCHANGED <<booking, step, turnVars>>

\* listActiveBookings, the first statement of the READ COMMITTED transaction.
CoordList(r) ==
    /\ req[r].pc = "list"
    /\ Advance(r, "write", 0, ActiveOf(req[r].cand))
    /\ UNCHANGED <<booking, step, turnVars>>

\* What updateMany closes when the statement runs: nothing if the list was empty.
Closing(r) == IF req[r].listed = {} THEN {} ELSE ActiveOf(req[r].cand)

CoordWrite(r) ==
    LET c == req[r].cand
        p == req[r].place
        exact == {b \in req[r].listed : booking[b].place = p}
    IN  /\ req[r].pc = "write"
        /\ \/ exact # {} /\ Finish(r, "done") /\ UNCHANGED booking
           \/ /\ exact = {} /\ UniqueIndexAllows(c, Closing(r))
              /\ Create(c, p, Closing(r)) /\ Finish(r, "done")
           \/ /\ exact = {} /\ ~UniqueIndexAllows(c, Closing(r))
              /\ Finish(r, "failed") /\ UNCHANGED booking
        /\ UNCHANGED <<step, turnVars>>

\* cancelActiveInterviewBookings.
CancelActive(c) ==
    booking' = [b \in Ids |->
        IF b \in ActiveOf(c) THEN WithStatus(b, "CANCELLED") ELSE booking[b]]

\* Another status than CONFIRMED, for a candidate loaded with a booking.
CoordRevoke(r, c) ==
    /\ req[r].pc = "idle" /\ ActiveOf(c) # {}
    /\ req' = [req EXCEPT ![r] = Req("revoke", c, AnyPlace, 0, "NONE", "NONE", {})]
    /\ UNCHANGED <<booking, step, turnVars>>

CoordCancel(r) ==
    /\ req[r].pc = "revoke"
    /\ CancelActive(req[r].cand)
    /\ Finish(r, "done")
    /\ UNCHANGED <<step, turnVars>>

-----------------------------------------------------------------------------
(* POST /interviews/:id/status and /interviews/:id/delete                  *)

\* Faulty variant: one set of origins for every action.
AllowedOriginsLax(next) == {"SCHEDULED", "CONFIRMED", "NO_RESPONSE"}

\* ADMIN_INTERVIEW_ACTION_TO_TRANSITION_ACTION, by destination.  The action
\* "rescheduled" only answers that a replacement is needed.
AdminActions == {"CONFIRMED", "ATTENDED", "NO_RESPONSE", "NO_SHOW", "CANCELLED"}
AllowedOrigins(next) ==
    CASE next \in {"CONFIRMED", "NO_RESPONSE"} -> {"SCHEDULED"}
      [] OTHER -> {"SCHEDULED", "CONFIRMED", "NO_RESPONSE"}

\* transitionOrIdempotent on the status the route has read.
StatusRead(r, b, next) ==
    /\ req[r].pc = "idle"
    /\ booking[b].status \in AllowedOrigins(next) \cup {next}
    /\ req' = [req EXCEPT ![r] = Req("status", booking[b].cand, booking[b].place, b,
           booking[b].status, next, {})]
    /\ UNCHANGED <<booking, step, turnVars>>

\* Faulty variant: the status is written by id alone.
StillAsReadUnchecked(r) == TRUE

\* The compare-and-set of applyAdministrativeInterviewBookingAction.
StillAsRead(r) == booking[req[r].target].status = req[r].read

StatusWrite(r) ==
    /\ req[r].pc = "status"
    /\ \/ /\ StillAsRead(r)
          /\ booking' = [b \in Ids |->
                 IF b = req[r].target THEN WithStatus(b, req[r].next) ELSE booking[b]]
          /\ Finish(r, "done")
       \/ ~StillAsRead(r) /\ Finish(r, "failed") /\ UNCHANGED booking
    /\ UNCHANGED <<step, turnVars>>

DeleteRead(r, b) ==
    /\ req[r].pc = "idle" /\ booking[b].status \in BookingStatus
    /\ req' = [req EXCEPT ![r] = Req("delete", booking[b].cand, booking[b].place, b,
           step[booking[b].cand], "SCHEDULING", {})]
    /\ UNCHANGED <<booking, step, turnVars>>

\* The transaction deletes the row and looks for another active booking.
DeleteRow(r) ==
    LET b == req[r].target
        remaining == ActiveOf(req[r].cand) \ {b}
    IN  /\ req[r].pc = "delete"
        /\ \/ /\ booking[b].status # "DELETED"
              /\ booking' = [a \in Ids |->
                     IF a = b THEN WithStatus(a, "DELETED") ELSE booking[a]]
              /\ Finish(r, IF remaining = {} THEN "deleted" ELSE "done")
           \/ /\ booking[b].status = "DELETED"
              /\ Finish(r, "failed") /\ UNCHANGED booking
        /\ UNCHANGED <<step, turnVars>>

DeleteReflect(r) == req[r].pc = "deleted" /\ Reflect(r)

-----------------------------------------------------------------------------
(* The turns of the job worker                                             *)

\* What a candidate writes: a lifecycle intent, a wish for an interview, or
\* anything else, the number of an offered slot included.
Lifecycle == {"cancel", "reschedule", "confirm"}
Messages == Lifecycle \cup {"schedule", "other"}
SystemIntents == {"interview_reminder", "inactivity_reminder"}

\* A message is interpreted only while fields are pending.
Intent(c, m) == IF m \in SystemIntents THEN m
                ELSE IF c \in Complete THEN "other" ELSE m

\* No turn can name a slot: the extractor has no scheduling field and the
\* builder leaves pending.actions empty, so "reserve_slot" is never decided.
SchedulingPolicy(c, m) ==
    CASE Intent(c, m) = "cancel" -> "cancel_booking"
      [] Intent(c, m) \in {"schedule", "reschedule"} -> "suggest_slots"
      [] OTHER -> "none"

\* Faulty variant: the pending fields are looked at last.
EffectOffersFirst(c, m) ==
    IF step[c] = "SCHEDULED" THEN SchedulingPolicy(c, m) ELSE "suggest_slots"

\* What progressionPolicy leaves of the effect.
Effect(c, m) ==
    IF step[c] = "SCHEDULED" /\ (c \in Complete \/ Intent(c, m) \in Lifecycle) THEN SchedulingPolicy(c, m)
    ELSE IF c \in Complete THEN "suggest_slots" ELSE "none"

\* chatPolicy and preventRepeatedReply.  What a candidate is answered
\* otherwise is another text each time.
DecidedReply(c, m) ==
    IF m \notin SystemIntents THEN "ANSWER"
    ELSE IF lastReply[c] = "SEND_REMINDER" THEN "REVIEW_NOTICE" ELSE "SEND_REMINDER"

Decide(c, m, b) ==
    turn' = [turn EXCEPT ![c] =
        [msg |-> m, about |-> b, effect |-> Effect(c, m), reply |-> DecidedReply(c, m),
         reset |-> m \notin SystemIntents /\ c \in flagged]]

MessageTurn(c, m) ==
    /\ turn[c] = NoTurn /\ turns < MaxTurns
    /\ turns' = turns + 1
    /\ Decide(c, m, 0)
    /\ UNCHANGED <<booking, step, req, interviewJobs, inactivityJobs, flagged, lastReply>>

InterviewReminderTurn(b) ==
    /\ b \in interviewJobs /\ turn[booking[b].cand] = NoTurn
    /\ interviewJobs' = interviewJobs \ {b}
    /\ Decide(booking[b].cand, "interview_reminder", b)
    /\ UNCHANGED <<booking, step, req, turns, inactivityJobs, flagged, lastReply>>

InactivityReminderTurn(c) ==
    /\ c \in inactivityJobs /\ turn[c] = NoTurn
    /\ inactivityJobs' = inactivityJobs \ {c}
    /\ Decide(c, "inactivity_reminder", 0)
    /\ UNCHANGED <<booking, step, req, turns, interviewJobs, flagged, lastReply>>

\* executeSchedulingMutation in the transaction of the turn; the reply of an
\* effect replaces the one decided.
Reply(c) == IF turn[c].effect = "suggest_slots" THEN "SLOTS" ELSE turn[c].reply

CommitTurn(c) ==
    /\ turn[c] # NoTurn
    /\ turn' = [turn EXCEPT ![c] = NoTurn]
    /\ IF turn[c].effect = "cancel_booking" THEN CancelActive(c) ELSE UNCHANGED booking
    /\ step' = IF turn[c].effect = "suggest_slots"
               THEN [step EXCEPT ![c] = "SCHEDULING"] ELSE step
    /\ lastReply' = [lastReply EXCEPT ![c] = Reply(c)]
    /\ flagged' = IF turn[c].reset THEN flagged \ {c} ELSE flagged
    /\ UNCHANGED <<req, turns, interviewJobs, inactivityJobs>>

-----------------------------------------------------------------------------
(* runReminderSweep                                                        *)

CronInterview(b) ==
    /\ booking[b].status = "SCHEDULED" /\ ~booking[b].reminderSent
    /\ booking' = [a \in Ids |->
           IF a = b THEN Row(booking[b].cand, booking[b].place, "SCHEDULED", TRUE)
           ELSE booking[a]]
    /\ interviewJobs' = interviewJobs \cup {b}
    /\ UNCHANGED <<step, req, turn, turns, inactivityJobs, flagged, lastReply>>

CronInactivity(c) ==
    /\ c \notin Complete /\ c \notin flagged
    /\ flagged' = flagged \cup {c}
    /\ inactivityJobs' = inactivityJobs \cup {c}
    /\ UNCHANGED <<booking, step, req, turn, turns, interviewJobs, lastReply>>

-----------------------------------------------------------------------------
PanelStep(r) ==
    \/ \E c \in Candidates, p \in Places : AssignRead(r, c, p)
    \/ AssignBook(r) \/ AssignConflict(r) \/ AssignRecover(r)
    \/ AssignReflect(r) \/ ReflectError(r)
    \/ \E c \in Candidates, t \in Times : CoordRead(r, c, t)
    \/ CoordList(r) \/ CoordWrite(r)
    \/ \E c \in Candidates : CoordRevoke(r, c)
    \/ CoordCancel(r)
    \/ \E b \in Ids, next \in AdminActions : StatusRead(r, b, next)
    \/ StatusWrite(r)
    \/ \E b \in Ids : DeleteRead(r, b)
    \/ DeleteRow(r) \/ DeleteReflect(r)

BotStep ==
    \/ \E c \in Candidates, m \in Messages : MessageTurn(c, m)
    \/ \E b \in Ids : InterviewReminderTurn(b) \/ CronInterview(b)
    \/ \E c \in Candidates :
           InactivityReminderTurn(c) \/ CommitTurn(c) \/ CronInactivity(c)

Next == (\E r \in Requests : PanelStep(r)) \/ BotStep

Spec == Init /\ [][Next]_vars

-----------------------------------------------------------------------------
TypeOK ==
    /\ booking \in [Ids -> [cand : Candidates, place : Places, status : RowStatus,
                            reminderSent : BOOLEAN]]
    /\ step \in [Candidates -> Steps]
    /\ req \in [Requests ->
          [pc : {"idle", "assign", "recover", "assigned", "list", "write", "revoke",
                 "status", "delete", "deleted", "done", "failed"},
           cand : Candidates, place : Places, target : Ids \cup {0},
           read : RowStatus \cup Steps, next : RowStatus \cup Steps,
           listed : SUBSET Ids]]
    /\ turn \in [Candidates ->
          [msg : Messages \cup SystemIntents \cup {"none"}, about : Ids \cup {0},
           effect : {"none", "cancel_booking", "suggest_slots"},
           reply : {"NONE", "ANSWER", "SEND_REMINDER", "REVIEW_NOTICE"},
           reset : BOOLEAN]]
    /\ turns \in 0 .. MaxTurns
    /\ interviewJobs \subseteq Ids
    /\ inactivityJobs \subseteq Candidates /\ flagged \subseteq Candidates
    /\ lastReply \in [Candidates ->
          {"NONE", "ANSWER", "SEND_REMINDER", "REVIEW_NOTICE", "SLOTS"}]

\* A candidate has at most one active booking, whoever books and in whatever
\* order: panel requests in their two isolation levels, and the bot.
OneActiveBooking ==
    \A a, b \in Ids :
        /\ booking[a].status \in ActiveStatuses /\ booking[b].status \in ActiveStatuses
        /\ booking[a].cand = booking[b].cand
        => a = b

\* An assignment that goes on to report success holds a booking of that
\* candidate at the slot and time that were asked, also when it lost a race
\* and answers with the booking of another request.
AssignedAsAsked ==
    \A r \in Requests : req[r].pc = "assigned" =>
        /\ booking[req[r].target].cand = req[r].cand
        /\ booking[req[r].target].place = req[r].place

\* The matrix of the inventory of transitions, with the deletion.
Matrix == {<<"NONE", "SCHEDULED">>}
    \cup {<<"SCHEDULED", s>> : s \in BookingStatus \ {"SCHEDULED"}}
    \cup {<<"CONFIRMED", s>> : s \in {"ATTENDED", "NO_SHOW", "CANCELLED", "RESCHEDULED"}}
    \cup {<<"NO_RESPONSE", s>> : s \in {"ATTENDED", "NO_SHOW", "CANCELLED"}}
    \cup {<<s, "DELETED">> : s \in BookingStatus}

\* The inductive invariant of the proofs: what a request between two steps
\* knows of the booking it is about, for as long as it waits.
RequestsInv ==
    \A r \in Requests :
        /\ req[r].pc = "assigned" =>
               /\ req[r].target \in Ids
               /\ booking[req[r].target].status # "NONE"
        /\ req[r].pc = "status" =>
               /\ req[r].target \in Ids
               /\ req[r].next \in AdminActions
               /\ req[r].read = req[r].next \/ <<req[r].read, req[r].next>> \in Matrix
        /\ req[r].pc = "delete" =>
               req[r].target \in Ids /\ booking[req[r].target].status # "NONE"
        /\ req[r].pc \in {"assign", "recover", "assigned", "delete", "deleted"} =>
               req[r].read \in Steps /\ req[r].next \in Steps

\* The inductive invariant of the proofs: what a reminder turn decided, which
\* stays true because nobody else answers the candidate until it commits.
RemindersInv ==
    \A c \in Candidates : turn[c].msg = "interview_reminder" =>
        /\ turn[c].reply = "SEND_REMINDER" \/ lastReply[c] = "SEND_REMINDER"
        /\ turn[c].effect = "suggest_slots" => c \in Complete

Inv == TypeOK /\ OneActiveBooking /\ AssignedAsAsked /\ RequestsInv /\ RemindersInv

\* A booking only moves along the matrix, though each writer decided on a
\* status it read some steps before: a closed booking is never revived.
TransitionsAreLegal ==
    [][\A b \in Ids : booking'[b].status # booking[b].status =>
           <<booking[b].status, booking'[b].status>> \in Matrix]_booking

\* A booking becomes RESCHEDULED only in the step that gives its candidate
\* another active booking: no failure loses the place a candidate had.
RescheduledAreReplaced ==
    [][\A b \in Ids :
           booking[b].status \in ActiveStatuses /\ booking'[b].status = "RESCHEDULED"
           => \E a \in Ids : /\ booking[a].status = "NONE"
                             /\ booking'[a].status = "SCHEDULED"
                             /\ booking'[a].cand = booking[b].cand]_booking

\* The turn that the cron queued for a booking answers with the reminder,
\* whatever the panel does to booking and step meanwhile, except in the two
\* cases the README names: the newest message was a reminder too, or the
\* candidate lacks no field and the step is not SCHEDULED.
RemindersAreDisplacedOnlyByOffersAndRepetition ==
    [][\A c \in Candidates :
           turn[c].msg = "interview_reminder" /\ turn'[c] = NoTurn
           => Reply(c) = "SEND_REMINDER" \/ lastReply[c] = "SEND_REMINDER" \/ c \in Complete]_vars
=============================================================================

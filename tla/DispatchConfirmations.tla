------------------------- MODULE DispatchConfirmations -------------------------
(*****************************************************************************)
(* The WhatsApp confirmation of the assignments of one dispatch request.     *)
(* The server asks a worker with a message of two buttons, one               *)
(* DispatchWhatsappConfirmation row (a link) per message; the worker answers *)
(* CONFIRMADO or REPORTAR NOVEDAD through the dispatch webhook; the provider *)
(* reports deliveries through the same webhook; the coordinator writes the   *)
(* assignment from the panel.  The webhook answers 200 only at the end, so   *)
(* the provider delivers a message again, even while the first delivery is   *)
(* still being handled.                                                      *)
(*                                                                           *)
(* A thread is one HTTP request the server is handling: a send, an inbound   *)
(* message, a status or a panel form.  Every await of the code separates two *)
(* actions; a READ COMMITTED transaction is cut between its reads and its    *)
(* writes.  The coordinator is active, has an alert phone and no other       *)
(* request that day, so that the notice that everyone confirmed goes out and *)
(* is about these assignments.  Left out: the incident a novelty opens,      *)
(* audits, the automatic scheduler (it calls the same send), the deletion    *)
(* and the creation of an assignment, the instant a request lapses (answers  *)
(* come before it), and a written answer that quotes a request (it looks for *)
(* that request first, as a button does).                                    *)
(*****************************************************************************)
EXTENDS Naturals, FiniteSets

CONSTANTS
  Assignments,      \* the assignments of the request, one worker each
  RequiredWorkers,  \* DispatchServiceRequest.requiredWorkers
  Start,            \* the status each assignment starts with
  Messages,         \* ids of inbound messages
  Says,             \* what each message may be: <<"CONFIRM" or "NOVELTY", a button?>>
  Threads,          \* HTTP requests handled at once
  Marks,            \* what the forms that confirm or not an assignment write
  Deliveries,       \* delivery states the provider reports
  MaxLinks,         \* bound: confirmation rows
  MaxEvents,        \* bound: panel forms, crashes and repeated deliveries
  None

ASSUME DispatchAssumption ==
  /\ RequiredWorkers \in Nat
  /\ Start \in [Assignments -> {"ASSIGNED", "CONFIRMATION_PENDING", "NO_CONFIRMO"}]
  /\ Says \in [Messages -> SUBSET ({"CONFIRM", "NOVELTY"} \X BOOLEAN)]
  /\ MaxLinks \in Nat
  /\ MaxEvents \in Nat
  /\ Marks \subseteq {"CONFIRMED", "NO_CONFIRMO"}
  /\ Deliveries \subseteq {"SENT", "DELIVERED", "READ", "FAILED"}
  /\ None \notin Messages \cup Assignments

VARIABLES
  assignment,  \* status of each assignment
  request,     \* DispatchServiceRequest.status
  link,        \* the confirmation rows, numbered as they are created
  created,     \* how many there are
  inHand,      \* links whose message reached the phone
  answer,      \* what each inbound message says, None before it is written
  delivered,   \* messages delivered at least once
  thread,      \* what each HTTP request is doing
  notice,      \* last mark of the everyone-confirmed notice of a set of assignments
  events,      \* panel forms, crashes and repeated deliveries so far
  last,        \* who changed an assignment last
  crossed,     \* two recalculations were open at once
  lost         \* a crash cut a confirmation short of its notice, or a recalculation

rows == <<assignment, request, link, created>>
world == <<inHand, answer, delivered>>
history == <<events, last, crossed, lost>>
vars == <<rows, world, thread, notice, history>>

Links == 1 .. MaxLinks

\* Status sets of dispatchWhatsappCloudConfig.js; nothing writes DELIVERY_UNKNOWN.
Inbound == {"PENDING", "SENT", "DELIVERED", "READ", "NOVELTY_REPORTED"}
Active == Inbound \cup {"CONFIRMED_REPLY_PENDING"}
Terminal == {"CONFIRMED", "EXPIRED", "FAILED"}
Ranked == {"PENDING", "SENT", "DELIVERED", "READ"}
Rank == [s \in Ranked |-> CASE s = "PENDING" -> 0 [] s = "SENT" -> 1
                            [] s = "DELIVERED" -> 2 [] s = "READ" -> 3]

Pending == {"ASSIGNED", "CONFIRMATION_PENDING"}
Serving == Pending \cup {"CONFIRMED"}
AssignmentStatus == Serving \cup {"NO_CONFIRMO"}
RequestStatus == {"PENDING_ASSIGNMENT", "ASSIGNMENT_PARTIAL", "PENDING_CONFIRMATION",
                  "ASSIGNMENT_COMPLETE"}

(***************************************************************************)
(* Derived data                                                            *)
(***************************************************************************)
ActiveOnes == {a \in Assignments : assignment[a] \in Serving}
ConfirmedOnes == {a \in Assignments : assignment[a] = "CONFIRMED"}
EveryoneConfirmed == ActiveOnes # {} /\ ActiveOnes = ConfirmedOnes

\* deriveDispatchRequestOperationalState
DerivedStatus ==
  LET enough(S) == Cardinality(S) >= RequiredWorkers /\ RequiredWorkers > 0
  IN  CASE enough(ConfirmedOnes) -> "ASSIGNMENT_COMPLETE"
        [] ~enough(ConfirmedOnes) /\ enough(ActiveOnes) -> "PENDING_CONFIRMATION"
        [] ~enough(ConfirmedOnes) /\ ~enough(ActiveOnes) /\ ActiveOnes # {}
             -> "ASSIGNMENT_PARTIAL"
        [] OTHER -> "PENDING_ASSIGNMENT"

LinksOf(a) == {l \in Links : link[l].assignment = a}

Row(a, status, sent, evidence) ==
  [assignment |-> a, status |-> status, sent |-> sent, evidence |-> evidence]
NoRow == Row(None, "PENDING", FALSE, None)

Job(at, a, m, l, status, everyone) ==
  [at |-> at, assignment |-> a, message |-> m, link |-> l, status |-> status,
   everyone |-> everyone]
Idle == Job("idle", None, None, 0, None, {})

Become(t, job) == thread' = [thread EXCEPT ![t] = job]
Finish(t) == Become(t, Idle)
\* The same request, one await later.
Advance(t, at) ==
  Become(t, Job(at, thread[t].assignment, thread[t].message, thread[t].link,
                thread[t].status, thread[t].everyone))

\* The status of the request is computed again, after a form or a message.
Recalculation(m) == Job("recalculate", None, m, 0, None, {})

(***************************************************************************)
(* Sending a request                                                       *)
(***************************************************************************)
\* validateDispatchAssignmentContext and ensureNoRecentConfirmationSend.  The
\* row of a send still open is younger than the duplicate-send window, which
\* outlasts the provider call; any other row may have outlived it.
ValidateSend(t, a) ==
  LET open(l) == \E u \in Threads : /\ thread[u].link = l
                                    /\ thread[u].at \in {"calling", "accepted"}
  IN /\ thread[t] = Idle
     /\ created < MaxLinks
     /\ assignment[a] \in Pending
     /\ \A l \in LinksOf(a) : open(l) => link[l].status \notin Active
     /\ Become(t, Job("validated", a, None, 0, None, {}))
     /\ UNCHANGED <<rows, world, notice, history>>

\* Faulty variant: the earlier requests are superseded before the provider is called.
CreateLinkSupersedes(t) ==
  LET a == thread[t].assignment
  IN /\ thread[t].at = "validated"
     /\ created < MaxLinks
     /\ created' = created + 1
     /\ link' = [l \in Links |->
                   IF l = created + 1 THEN Row(a, "PENDING", FALSE, None)
                   ELSE IF link[l].assignment = a /\ link[l].status \in Active
                        THEN Row(a, "EXPIRED", link[l].sent, link[l].evidence)
                        ELSE link[l]]
     /\ Become(t, Job("calling", a, None, created + 1, None, {}))
     /\ UNCHANGED <<assignment, request, world, notice, history>>

\* Two validated sends may both create their row.
CreateLink(t) ==
  /\ thread[t].at = "validated"
  /\ created < MaxLinks
  /\ created' = created + 1
  /\ link' = [link EXCEPT ![created + 1] = Row(thread[t].assignment, "PENDING", FALSE, None)]
  /\ Become(t, Job("calling", thread[t].assignment, None, created + 1, None, {}))
  /\ UNCHANGED <<assignment, request, world, notice, history>>

ProviderAccepts(t) ==
  /\ thread[t].at = "calling"
  /\ inHand' = inHand \cup {thread[t].link}
  /\ Advance(t, "accepted")
  /\ UNCHANGED <<rows, answer, delivered, notice, history>>

\* Faulty variant: the status of the assignment is written without looking at it.
CommitSendAnew(t) ==
  LET a == thread[t].assignment
  IN /\ thread[t].at = "accepted"
     /\ link' = [link EXCEPT ![thread[t].link] = Row(a, "SENT", TRUE, @.evidence)]
     /\ assignment' = [assignment EXCEPT ![a] = "CONFIRMATION_PENDING"]
     /\ Finish(t)
     /\ UNCHANGED <<request, created, world, notice, history>>

\* The transaction after the provider's answer: the earlier requests are
\* superseded, this one becomes SENT whatever it was.
CommitSend(t) ==
  LET a == thread[t].assignment
      superseded(l) == /\ link[l].assignment = a
                       /\ l # thread[t].link
                       /\ link[l].status \in Active
  IN /\ thread[t].at = "accepted"
     /\ link' = [l \in Links |->
                   IF superseded(l)
                   THEN Row(a, "EXPIRED", link[l].sent, link[l].evidence)
                   ELSE IF l = thread[t].link
                        THEN Row(a, "SENT", TRUE, link[l].evidence)
                        ELSE link[l]]
     /\ assignment' = [assignment EXCEPT
          ![a] = IF @ = "ASSIGNED" THEN "CONFIRMATION_PENDING" ELSE @]
     /\ Finish(t)
     /\ UNCHANGED <<request, created, world, notice, history>>

\* The call is rejected, or it fails after the provider took the message, or
\* the transaction fails: the row is FAILED if nothing moved it meanwhile.
FailSend(t) ==
  LET l == thread[t].link
  IN /\ thread[t].at \in {"calling", "accepted"}
     /\ link' = IF link[l].status = "PENDING"
                THEN [link EXCEPT ![l] = Row(link[l].assignment, "FAILED", link[l].sent,
                                             link[l].evidence)]
                ELSE link
     /\ Finish(t)
     /\ UNCHANGED <<assignment, request, created, world, notice, history>>

(***************************************************************************)
(* Answering one                                                           *)
(***************************************************************************)
Answer(a, action, l, upto) ==
  [assignment |-> a, action |-> action, context |-> l, upto |-> upto]

\* A button of a message in the phone carries that message and its assignment;
\* a written answer carries neither.  Later rows are newer than the answer.
PressButton(m, l, action) ==
  /\ answer[m] = None
  /\ <<action, TRUE>> \in Says[m]
  /\ l \in inHand
  /\ answer' = [answer EXCEPT ![m] = Answer(link[l].assignment, action, l, created)]
  /\ UNCHANGED <<rows, inHand, delivered, thread, notice, history>>

WriteAnswer(m, a, action) ==
  /\ answer[m] = None
  /\ <<action, FALSE>> \in Says[m]
  /\ inHand \cap LinksOf(a) # {}
  /\ answer' = [answer EXCEPT ![m] = Answer(a, action, 0, created)]
  /\ UNCHANGED <<rows, inHand, delivered, thread, notice, history>>

\* candidateMatchesScopeAndAssignment; superseded rows answer for a button that
\* confirms.
Candidate(l, m) ==
  LET to == answer[m]
  IN /\ link[l].assignment = to.assignment
     /\ l <= to.upto
     /\ assignment[to.assignment] \in Serving
     /\ \/ link[l].status \in Inbound
        \/ link[l].status = "EXPIRED" /\ to.action = "CONFIRM" /\ to.context # 0

\* findConfirmationTarget: the very message the button came from, else the
\* newest row of the assignment that can still be answered.
Target(m) ==
  LET to == answer[m]
      exact == {l \in Links : l = to.context /\ link[l].sent /\ Candidate(l, m)}
      any == {l \in Links : Candidate(l, m)}
  IN IF exact # {} THEN exact ELSE any

\* The webhook receives the message, or receives it again, and looks for its row.
Deliver(t, m) ==
  /\ thread[t] = Idle
  /\ answer[m] # None
  /\ m \in delivered => events < MaxEvents
  /\ events' = IF m \in delivered THEN events + 1 ELSE events
  /\ delivered' = delivered \cup {m}
  /\ IF Target(m) = {}
     THEN UNCHANGED thread
     ELSE \E l \in Target(m) :
            /\ \A k \in Target(m) : k <= l
            /\ Become(t, Job("check", answer[m].assignment, m, l, None, {}))
  /\ UNCHANGED <<rows, inHand, answer, notice, last, crossed, lost>>

\* The reads that open the claim: an evidence of this message makes it a
\* duplicate; a confirmation needs the assignment in a live status.
CheckAnswer(t) ==
  LET m == thread[t].message
      duplicate == \E l \in Links : link[l].evidence = m
      live == \/ answer[m].action = "NOVELTY"
              \/ assignment[thread[t].assignment] \in Serving
  IN /\ thread[t].at = "check"
     /\ IF duplicate \/ ~live THEN Finish(t) ELSE Advance(t, "claim")
     /\ UNCHANGED <<rows, world, notice, history>>

\* The writes of claimDispatchAssignmentConfirmation.  An assignment that left
\* the live statuses rolls the claim back; a row that left them ends it.
ClaimConfirmation(t) ==
  LET m == thread[t].message
      a == thread[t].assignment
      l == thread[t].link
      claimed == /\ link[l].status \in Inbound \cup {"EXPIRED"}
                 /\ assignment[a] \in Serving
      changes == assignment[a] \in Pending
  IN /\ thread[t].at = "claim"
     /\ answer[m].action = "CONFIRM"
     /\ IF claimed
        THEN /\ link' = [link EXCEPT ![l] = Row(a, "CONFIRMED_REPLY_PENDING",
                                                link[l].sent, m)]
             /\ assignment' = [assignment EXCEPT ![a] = "CONFIRMED"]
             /\ last' = IF changes THEN "WHATSAPP" ELSE last
             /\ Become(t, Job("settle", a, m, l, IF changes THEN "changed" ELSE None, {}))
        ELSE Finish(t) /\ UNCHANGED <<link, assignment, last>>
     /\ UNCHANGED <<request, created, world, notice, events, crossed, lost>>

\* claimDispatchAssignmentNovelty: every answerable row of the assignment.
ClaimNovelty(t) ==
  LET m == thread[t].message
      a == thread[t].assignment
  IN /\ thread[t].at = "claim"
     /\ answer[m].action = "NOVELTY"
     /\ link' = [l \in Links |->
                   IF link[l].assignment = a /\ link[l].status \in Inbound
                   THEN Row(a, "NOVELTY_REPORTED", link[l].sent, m)
                   ELSE link[l]]
     /\ Finish(t)
     /\ UNCHANGED <<assignment, request, created, world, notice, history>>

\* Faulty variant: the notice is looked at without computing the status again.
SettleConfirmationOnly(t) ==
  /\ thread[t].at = "settle"
  /\ link' = [link EXCEPT ![thread[t].link].status = "CONFIRMED"]
  /\ Become(t, Job("survey", None, thread[t].message, 0, None, {}))
  /\ UNCHANGED <<assignment, request, created, world, notice, history>>

\* A statement of its own, after the claim has committed.
SettleConfirmation(t) ==
  LET settles(l) == /\ link[l].assignment = thread[t].assignment
                    /\ link[l].evidence = thread[t].message
                    /\ link[l].status = "CONFIRMED_REPLY_PENDING"
  IN /\ thread[t].at = "settle"
     /\ link' = [l \in Links |->
                   IF settles(l)
                   THEN Row(link[l].assignment, "CONFIRMED", link[l].sent, link[l].evidence)
                   ELSE link[l]]
     /\ IF thread[t].status = "changed"
        THEN Become(t, Recalculation(thread[t].message))
        ELSE Finish(t)
     /\ UNCHANGED <<assignment, request, created, world, notice, history>>

(***************************************************************************)
(* What follows a change of the assignments                                *)
(***************************************************************************)
\* recalculateDispatchServiceRequestStatus reads, and then writes what it read.
ReadAssignments(t) ==
  /\ thread[t].at = "recalculate"
  /\ Become(t, Job("rewrite", None, thread[t].message, 0, DerivedStatus, {}))
  /\ crossed' = (crossed \/ \E u \in Threads : thread[u].at = "rewrite")
  /\ UNCHANGED <<rows, world, notice, events, last, lost>>

WriteRequest(t) ==
  /\ thread[t].at = "rewrite"
  /\ request' = thread[t].status
  /\ IF thread[t].message = None
     THEN Finish(t)
     ELSE Become(t, Job("survey", None, thread[t].message, 0, None, {}))
  /\ UNCHANGED <<assignment, link, created, world, notice, history>>

\* sendDispatchAllConfirmedAdminAlert: nothing while someone is pending.
SurveyEveryone(t) ==
  /\ thread[t].at = "survey"
  /\ IF EveryoneConfirmed
     THEN Become(t, Job("notify", None, thread[t].message, 0, None, ActiveOnes))
     ELSE Finish(t)
  /\ UNCHANGED <<rows, world, notice, history>>

\* activeNotificationClaims, in memory: a key stays from its claim to its mark.
Notifying == {thread[t].everyone : t \in {u \in Threads : thread[u].at = "notifying"}}

\* Faulty variant: one notice for the request, whoever its workers are.
ClaimNoticeOnce(t) ==
  /\ thread[t].at = "notify"
  /\ IF \E key \in DOMAIN notice : notice[key] # "NONE"
     THEN Finish(t) /\ UNCHANGED notice
     ELSE /\ notice' = [notice EXCEPT ![thread[t].everyone] = "PENDING"]
          /\ Advance(t, "notifying")
  /\ UNCHANGED <<rows, world, history>>

\* claimDispatchWhatsappNotification.  A mark that is not SENT holds back a
\* second try only during its cooldown.
ClaimNotice(t) ==
  LET key == thread[t].everyone
  IN /\ thread[t].at = "notify"
     /\ \/ /\ key \in Notifying \/ notice[key] # "NONE"
           /\ Finish(t)
           /\ UNCHANGED notice
        \/ /\ key \notin Notifying
           /\ notice[key] # "SENT"
           /\ notice' = [notice EXCEPT ![key] = "PENDING"]
           /\ Advance(t, "notifying")
     /\ UNCHANGED <<rows, world, history>>

SendNotice(t, mark) ==
  LET key == thread[t].everyone
  IN /\ thread[t].at = "notifying"
     /\ notice' = [notice EXCEPT ![key] = mark]
     /\ Finish(t)
     /\ UNCHANGED <<rows, world, history>>

(***************************************************************************)
(* Delivery states, the panel and crashes                                  *)
(***************************************************************************)
\* processDispatchWhatsappProviderStatus decides on what it reads of the row.
\* NOVELTY_REPORTED has no rank and is not terminal: any state replaces it.
ReadDelivery(t, l, status) ==
  LET now == link[l].status
  IN /\ thread[t] = Idle
     /\ link[l].sent
     /\ now \notin Terminal \cup {"CONFIRMED_REPLY_PENDING"}
     /\ IF status = "FAILED" THEN now # "READ"
        ELSE now \in Ranked => Rank[status] >= Rank[now]
     /\ Become(t, Job("deliver", None, None, l, status, {}))
     /\ UNCHANGED <<rows, world, notice, history>>

\* The write is by id, whatever the row has become.
WriteDelivery(t) ==
  LET l == thread[t].link
  IN /\ thread[t].at = "deliver"
     /\ link' = [link EXCEPT ![l] = Row(link[l].assignment, thread[t].status, link[l].sent,
                                        link[l].evidence)]
     /\ Finish(t)
     /\ UNCHANGED <<assignment, request, created, world, notice, history>>

\* The forms /asignaciones/confirmar and /asignaciones/no-confirmado.
MarkAssignment(t, a, status) ==
  /\ thread[t] = Idle
  /\ events < MaxEvents
  /\ events' = events + 1
  /\ assignment' = [assignment EXCEPT ![a] = status]
  /\ last' = "PANEL"
  /\ Become(t, Recalculation(None))
  /\ UNCHANGED <<request, link, created, world, notice, crossed, lost>>

\* The form /asignaciones/assign for a worker who has an assignment: it counts,
\* then reads the assignment, then writes it.  A full request is recalculated.
CheckAssign(t, a) ==
  LET full == Cardinality(ActiveOnes) >= RequiredWorkers
  IN /\ thread[t] = Idle
     /\ events < MaxEvents
     /\ events' = events + 1
     /\ Become(t, IF full THEN Recalculation(None) ELSE Job("existing", a, None, 0, None, {}))
     /\ UNCHANGED <<rows, world, notice, last, crossed, lost>>

ReadExisting(t) ==
  /\ thread[t].at = "existing"
  /\ IF assignment[thread[t].assignment] \in Serving THEN Finish(t) ELSE Advance(t, "reassign")
  /\ UNCHANGED <<rows, world, notice, history>>

WriteAssign(t) ==
  LET a == thread[t].assignment
  IN /\ thread[t].at = "reassign"
     /\ assignment' = [assignment EXCEPT ![a] = "CONFIRMATION_PENDING"]
     /\ last' = "PANEL"
     /\ Become(t, Recalculation(None))
     /\ UNCHANGED <<request, link, created, world, notice, events, crossed,
                    lost>>

\* A request owes something once it has changed an assignment.
Owing == {"settle", "recalculate", "rewrite", "survey", "notify", "notifying"}
Owes(t) == /\ thread[t].at \in Owing
           /\ thread[t].at = "settle" => thread[t].status = "changed"

Crash ==
  /\ events < MaxEvents
  /\ events' = events + 1
  /\ \E t \in Threads : thread[t] # Idle
  /\ thread' = [t \in Threads |-> Idle]
  /\ lost' = (lost \/ \E t \in Threads : Owes(t))
  /\ UNCHANGED <<rows, world, notice, last, crossed>>

Init ==
  /\ assignment = Start
  /\ request = DerivedStatus
  /\ link = [l \in Links |-> NoRow]
  /\ created = 0
  /\ inHand = {}
  /\ answer = [m \in Messages |-> None]
  /\ delivered = {}
  /\ thread = [t \in Threads |-> Idle]
  /\ notice = [S \in SUBSET Assignments |-> "NONE"]
  /\ events = 0
  /\ last = "PANEL"
  /\ crossed = FALSE
  /\ lost = FALSE

SendStep(t) ==
  \/ \E a \in Assignments : ValidateSend(t, a)
  \/ CreateLink(t)
  \/ ProviderAccepts(t)
  \/ CommitSend(t)
  \/ FailSend(t)

AnswerStep(t) ==
  \/ \E m \in Messages : Deliver(t, m)
  \/ CheckAnswer(t)
  \/ ClaimConfirmation(t)
  \/ ClaimNovelty(t)
  \/ SettleConfirmation(t)

FollowUpStep(t) ==
  \/ ReadAssignments(t)
  \/ WriteRequest(t)
  \/ SurveyEveryone(t)
  \/ ClaimNotice(t)
  \/ \E mark \in {"SENT", "FAILED"} : SendNotice(t, mark)

DeliveryStep(t) ==
  \/ \E l \in Links, status \in Deliveries : ReadDelivery(t, l, status)
  \/ WriteDelivery(t)

PanelStep(t) ==
  \/ \E a \in Assignments, s \in Marks : MarkAssignment(t, a, s)
  \/ \E a \in Assignments : CheckAssign(t, a)
  \/ ReadExisting(t)
  \/ WriteAssign(t)

WorldStep ==
  \/ \E m \in Messages, l \in Links, action \in {"CONFIRM", "NOVELTY"} :
       PressButton(m, l, action)
  \/ \E m \in Messages, a \in Assignments, action \in {"CONFIRM", "NOVELTY"} :
       WriteAnswer(m, a, action)
  \/ Crash

Next ==
  \/ \E t \in Threads : \/ SendStep(t)
                        \/ AnswerStep(t)
                        \/ FollowUpStep(t)
                        \/ DeliveryStep(t)
                        \/ PanelStep(t)
  \/ WorldStep

Spec == Init /\ [][Next]_vars

(***************************************************************************)
(* Properties                                                              *)
(***************************************************************************)
Phases == {"idle", "validated", "calling", "accepted", "check", "claim", "deliver",
           "existing", "reassign"} \cup Owing

RowType == [assignment : Assignments \cup {None}, status : Active \cup Terminal,
            sent : BOOLEAN, evidence : Messages \cup {None}]
AnswerType == [assignment : Assignments, action : {"CONFIRM", "NOVELTY"},
               context : 0 .. MaxLinks, upto : 0 .. MaxLinks]
JobType == [at : Phases, assignment : Assignments \cup {None},
            message : Messages \cup {None}, link : 0 .. MaxLinks,
            status : RequestStatus \cup Deliveries \cup {"changed", None},
            everyone : SUBSET Assignments]

TypeOK ==
  /\ assignment \in [Assignments -> AssignmentStatus]
  /\ request \in RequestStatus
  /\ link \in [Links -> RowType]
  /\ created \in 0 .. MaxLinks
  /\ inHand \subseteq Links
  /\ answer \in [Messages -> AnswerType \cup {None}]
  /\ delivered \subseteq Messages
  /\ thread \in [Threads -> JobType]
  /\ notice \in [SUBSET Assignments -> {"NONE", "PENDING", "SENT", "FAILED"}]
  /\ events \in 0 .. MaxEvents
  /\ last \in {"PANEL", "WHATSAPP"}
  /\ crossed \in BOOLEAN
  /\ lost \in BOOLEAN

\* A send or an answer works on a row of its own assignment; a delivery state
\* waits with the state it will write.
OwnsItsLink(job) ==
  /\ job.at \in {"calling", "accepted", "check", "claim", "settle"}
       => job.link \in 1 .. created /\ job.assignment = link[job.link].assignment
  /\ job.at \in {"check", "claim", "settle"}
       => job.message \in Messages /\ answer[job.message] # None
  /\ job.at \in {"validated", "existing", "reassign"} => job.assignment \in Assignments
  /\ job.at = "deliver" => job.link \in 1 .. created /\ job.status \in Deliveries
  /\ job.at = "rewrite" => job.status \in RequestStatus

RequestsOwnTheirLinks == \A t \in Threads : OwnsItsLink(thread[t])

RowsAreFreshBeyondCreated ==
  /\ \A l \in Links : l > created => link[l] = NoRow
  /\ \A l \in 1 .. created : link[l].assignment \in Assignments
  /\ inHand \subseteq 1 .. created

\* However many sends of one assignment cross, fail or are cut by a crash, one
\* of the requests that reached its worker is not superseded: a request is
\* superseded only by another whose sending has ended well
\* (dispatchWhatsappAssignmentService.js 157-176).
SomeRequestStaysAnswerable ==
  \A a \in Assignments :
    (\E l \in LinksOf(a) : link[l].sent)
      => \E l \in LinksOf(a) : link[l].sent /\ link[l].status # "EXPIRED"

\* Types, where each open request stands, and that a worker keeps a request.
Inv ==
  /\ TypeOK
  /\ RequestsOwnTheirLinks
  /\ RowsAreFreshBeyondCreated
  /\ SomeRequestStaysAnswerable

\* A confirmed assignment is taken back by a form of the panel and by nothing
\* else: not by a request whose sending ends after the answer, nor by a late
\* delivery state, nor by an answer delivered again.
OnlyThePanelTakesBack ==
  [][\A a \in Assignments :
       assignment[a] = "CONFIRMED" /\ assignment'[a] # "CONFIRMED"
         => last' = "PANEL" /\ \E t \in Threads : thread'[t].at = "recalculate"]_vars

\* When WhatsApp brings the last confirmation and nobody is left pending, the
\* notice that everyone confirmed has been tried once the requests are done,
\* however their claims and their looks at the assignments cross
\* (dispatchWhatsappWebhookService.js 388-394).  Only a crash loses it.
TheLastConfirmationIsAnnounced ==
  (/\ EveryoneConfirmed
   /\ last = "WHATSAPP"
   /\ ~lost
   /\ \A t \in Threads : ~Owes(t))
    => notice[ActiveOnes] \in {"SENT", "FAILED"}

\* The status of the request is the one its assignments give, once every change
\* has been recalculated, unless two recalculations were open at once or a crash
\* cut one (dispatchOperationalCoverage.js 35-55).
RequestStatusAgrees ==
  (/\ \A t \in Threads : ~Owes(t)
   /\ ~crossed
   /\ ~lost)
    => request = DerivedStatus

=============================================================================

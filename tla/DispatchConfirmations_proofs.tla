---------------------- MODULE DispatchConfirmations_proofs ----------------------
(***************************************************************************)
(* Theorems about the confirmation of assignments, for any number of       *)
(* workers, messages, requests in progress, rows, forms and faults.        *)
(***************************************************************************)
EXTENDS DispatchConfirmations, TLAPS

USE DispatchAssumption

-----------------------------------------------------------------------------
(* Records *)

\* The fields of a request, as types.
LEMMA FieldsAreTyped ==
  ASSUME Inv, NEW t \in Threads
  PROVE  /\ thread[t] \in JobType
         /\ thread[t].assignment \in Assignments \cup {None}
         /\ thread[t].message \in Messages \cup {None}
         /\ thread[t].link \in 0 .. MaxLinks
         /\ thread[t].everyone \in SUBSET Assignments
         /\ thread[t].status \in RequestStatus \cup Deliveries \cup {"changed", None}
         /\ OwnsItsLink(thread[t])
  BY DEF Inv, TypeOK, RequestsOwnTheirLinks, JobType

LEMMA IdleIsTyped == Idle \in JobType /\ Idle.at = "idle" /\ OwnsItsLink(Idle)
  BY DEF Idle, Job, JobType, Phases, Owing, OwnsItsLink

LEMMA RecalculationIsTyped ==
  ASSUME NEW m \in Messages \cup {None}
  PROVE  Recalculation(m) \in JobType /\ OwnsItsLink(Recalculation(m))
                                      /\ Recalculation(m).at = "recalculate"
  BY DEF Recalculation, Job, JobType, Phases, Owing, OwnsItsLink

LEMMA DerivedStatusIsTyped == DerivedStatus \in RequestStatus
  BY DEF DerivedStatus, RequestStatus

-----------------------------------------------------------------------------
(* What a step may disturb *)

OthersStay(t) == \A u \in Threads : u # t => thread'[u] = thread[u]

\* Rows keep their assignment.
RowsStay ==
  /\ created <= created'
  /\ \A l \in 1 .. created : link'[l].assignment = link[l].assignment

AnswersStay == \A m \in Messages : answer[m] # None => answer'[m] # None

NoneIsSuperseded ==
  \A l \in Links :
    /\ link'[l].sent = link[l].sent
    /\ link[l].sent => /\ link'[l].assignment = link[l].assignment
                       /\ link[l].status # "EXPIRED" => link'[l].status # "EXPIRED"

\* The types of everything but the rows and the threads.
RestTyped ==
  /\ inHand \subseteq 1 .. created
  /\ answer \in [Messages -> AnswerType \cup {None}]
  /\ delivered \subseteq Messages
  /\ notice \in [SUBSET Assignments -> {"NONE", "PENDING", "SENT", "FAILED"}]
  /\ events \in 0 .. MaxEvents
  /\ last \in {"PANEL", "WHATSAPP"}
  /\ crossed \in BOOLEAN
  /\ lost \in BOOLEAN

RowsTyped ==
  /\ assignment \in [Assignments -> AssignmentStatus]
  /\ request \in RequestStatus
  /\ link \in [Links -> RowType]
  /\ created \in 0 .. MaxLinks
  /\ \A l \in Links : l > created => link[l] = NoRow
  /\ \A l \in 1 .. created : link[l].assignment \in Assignments

LEMMA InvParts ==
  ASSUME Inv
  PROVE  /\ RestTyped /\ RowsTyped
         /\ thread \in [Threads -> JobType]
         /\ RequestsOwnTheirLinks
         /\ SomeRequestStaysAnswerable
  BY DEF Inv, TypeOK, RowsAreFreshBeyondCreated, RestTyped, RowsTyped

LEMMA Becomes ==
  ASSUME NEW t \in Threads, NEW job \in JobType, thread \in [Threads -> JobType],
         Become(t, job)
  PROVE  thread' \in [Threads -> JobType] /\ thread'[t] = job /\ OthersStay(t)
  BY DEF Become, OthersStay

LEMMA SomeStaysAnswerable ==
  ASSUME SomeRequestStaysAnswerable, NoneIsSuperseded
  PROVE  SomeRequestStaysAnswerable'
  BY DEF SomeRequestStaysAnswerable, NoneIsSuperseded, LinksOf

LEMMA OthersOwnTheirLinks ==
  ASSUME RequestsOwnTheirLinks, created \in Nat, created' \in Nat,
         NEW u \in Threads, thread'[u] = thread[u], RowsStay, AnswersStay
  PROVE  OwnsItsLink(thread[u])'
  <1>1. OwnsItsLink(thread[u])
    BY DEF RequestsOwnTheirLinks
  <1> QED
    BY <1>1 DEF OwnsItsLink, RowsStay, AnswersStay

\* A step of one request.
LEMMA StepOfOne ==
  ASSUME Inv, NEW t \in Threads, NEW job \in JobType, Become(t, job),
         RestTyped', RowsTyped', RowsStay, AnswersStay,
         OwnsItsLink(thread[t])', SomeRequestStaysAnswerable'
  PROVE  Inv'
  <1> USE InvParts
  <1>1. thread' \in [Threads -> JobType] /\ thread'[t] = job /\ OthersStay(t)
    BY Becomes
  <1>2. created \in Nat /\ created' \in Nat
    BY DEF RowsTyped
  <1>3. RequestsOwnTheirLinks'
    <2> SUFFICES ASSUME NEW u \in Threads PROVE OwnsItsLink(thread[u])'
      BY DEF RequestsOwnTheirLinks
    <2>1. CASE u = t
      BY <2>1
    <2>2. CASE u # t
      BY <2>2, <1>1, <1>2, OthersOwnTheirLinks DEF OthersStay
    <2> QED BY <2>1, <2>2
  <1>4. inHand' \subseteq Links
    BY DEF RestTyped, RowsTyped, Links
  <1> QED
    BY <1>1, <1>3, <1>4
    DEF Inv, TypeOK, RowsAreFreshBeyondCreated, RestTyped, RowsTyped

\* One that leaves rows and answers alone.
LEMMA ThreadStep ==
  ASSUME Inv, NEW t \in Threads, NEW job \in JobType, Become(t, job),
         OwnsItsLink(job), UNCHANGED <<rows, answer>>, RestTyped'
  PROVE  Inv'
  <1> USE InvParts
  <1>1. thread'[t] = job
    BY Becomes
  <1>2. RowsTyped'
    BY DEF RowsTyped, rows, NoRow
  <1>3. RowsStay /\ AnswersStay
    BY DEF RowsStay, AnswersStay, rows, RowsTyped
  <1>4. OwnsItsLink(thread[t])'
    BY <1>1 DEF OwnsItsLink, rows
  <1>5. SomeRequestStaysAnswerable'
    BY DEF SomeRequestStaysAnswerable, LinksOf, rows
  <1> QED
    BY <1>2, <1>3, <1>4, <1>5, StepOfOne

-----------------------------------------------------------------------------
(* Steps that only move their request *)

LEMMA ValidateSendKeeps ==
  ASSUME Inv, NEW t \in Threads, NEW a \in Assignments, ValidateSend(t, a)
  PROVE  Inv'
  <1> DEFINE job == Job("validated", a, None, 0, None, {})
  <1>1. job \in JobType /\ job.at = "validated" /\ job.assignment = a
    BY DEF Job, JobType, Phases
  <1>2. OwnsItsLink(job)
    BY <1>1 DEF OwnsItsLink
  <1>3. Become(t, job) /\ UNCHANGED <<rows, answer>> /\ RestTyped'
    BY InvParts DEF ValidateSend, rows, world, history, RestTyped
  <1> QED
    BY <1>1, <1>2, <1>3, ThreadStep

\* The request moves on, on the same row and the same message.
LEMMA AdvanceIsTyped ==
  ASSUME Inv, NEW t \in Threads, NEW at \in Phases
  PROVE  LET job == Job(at, thread[t].assignment, thread[t].message, thread[t].link,
                        thread[t].status, thread[t].everyone)
         IN  /\ job \in JobType
             /\ job.at = at
             /\ job.assignment = thread[t].assignment
             /\ job.message = thread[t].message
             /\ job.link = thread[t].link
  BY InvParts DEF Job, JobType

LEMMA ProviderAcceptsKeeps ==
  ASSUME Inv, NEW t \in Threads, ProviderAccepts(t)
  PROVE  Inv'
  <1> DEFINE job == Job("accepted", thread[t].assignment, thread[t].message,
                        thread[t].link, thread[t].status, thread[t].everyone)
  <1>1. /\ job \in JobType /\ job.at = "accepted" /\ job.link = thread[t].link
        /\ job.assignment = thread[t].assignment
    BY AdvanceIsTyped DEF Phases
  <1>2. OwnsItsLink(thread[t]) /\ thread[t].at = "calling"
    BY InvParts DEF ProviderAccepts, RequestsOwnTheirLinks
  <1>3. thread[t].link \in 1 .. created
    BY <1>2 DEF OwnsItsLink
  <1>4. Become(t, job) /\ UNCHANGED <<rows, answer>>
    BY DEF ProviderAccepts, Advance, rows
  <1>5. RestTyped'
    BY <1>3, InvParts DEF ProviderAccepts, rows, history, RestTyped
  <1> HIDE DEF job
  <1>6. OwnsItsLink(job)
    BY <1>1, <1>2 DEF OwnsItsLink
  <1> QED
    BY <1>1, <1>4, <1>5, <1>6, ThreadStep

LEMMA CandidatesAreRows ==
  ASSUME Inv, NEW m \in Messages, answer[m] # None, NEW l \in Target(m)
  PROVE  l \in 1 .. created /\ link[l].assignment = answer[m].assignment
  <1>1. l \in Links /\ link[l].assignment = answer[m].assignment
    BY DEF Target, Candidate
  <1>2. answer[m].assignment \in Assignments
    BY InvParts DEF RestTyped, AnswerType
  <1>3. CASE l > created
    BY <1>1, <1>2, <1>3, InvParts DEF RowsTyped, NoRow, Row
  <1> QED
    BY <1>1, <1>3, InvParts DEF Links, RowsTyped

LEMMA DeliverKeeps ==
  ASSUME Inv, NEW t \in Threads, NEW m \in Messages, Deliver(t, m)
  PROVE  Inv'
  <1>1. answer[m] # None /\ UNCHANGED <<rows, answer>> /\ thread[t] = Idle
    BY DEF Deliver, rows
  <1>2. RestTyped'
    <2>1. events' \in 0 .. MaxEvents
      BY InvParts DEF Deliver, RestTyped
    <2> QED
      BY <2>1, InvParts DEF Deliver, rows, RestTyped
  <1>3. CASE Target(m) = {}
    <2>1. thread' = thread
      BY <1>3 DEF Deliver
    <2>2. Become(t, Idle)
      BY <2>1, <1>1, InvParts DEF Become
    <2> QED
      BY <2>2, <1>1, <1>2, IdleIsTyped, ThreadStep
  <1>4. CASE Target(m) # {}
    <2>1. PICK l \in Target(m) :
            Become(t, Job("check", answer[m].assignment, m, l, None, {}))
      BY <1>4 DEF Deliver
    <2> DEFINE job == Job("check", answer[m].assignment, m, l, None, {})
    <2>2. /\ l \in 1 .. created /\ l \in 0 .. MaxLinks
          /\ link[l].assignment = answer[m].assignment
          /\ answer[m].assignment \in Assignments
      BY <1>1, CandidatesAreRows, InvParts DEF RowsTyped, RestTyped, AnswerType
    <2>3. /\ job \in JobType /\ job.at = "check" /\ job.link = l /\ job.message = m
          /\ job.assignment = answer[m].assignment
      <3> DEFINE a == answer[m].assignment
      <3>1. /\ "check" \in Phases /\ {} \in SUBSET Assignments
            /\ a \in Assignments \cup {None}
            /\ m \in Messages \cup {None}
            /\ None \in RequestStatus \cup Deliveries \cup {"changed", None}
        BY <2>2 DEF Phases
      <3> HIDE DEF a
      <3>2. /\ Job("check", a, m, l, None, {}) \in JobType
            /\ Job("check", a, m, l, None, {}).at = "check"
            /\ Job("check", a, m, l, None, {}).link = l
            /\ Job("check", a, m, l, None, {}).message = m
            /\ Job("check", a, m, l, None, {}).assignment = a
        BY <3>1, <2>2 DEF Job, JobType
      <3> QED
        BY <3>2 DEF a
    <2>4. Become(t, job)
      BY <2>1
    <2> HIDE DEF job
    <2>5. OwnsItsLink(job)
      BY <2>2, <2>3, <1>1 DEF OwnsItsLink
    <2> QED
      BY <2>3, <2>4, <2>5, <1>1, <1>2, ThreadStep
  <1> QED
    BY <1>3, <1>4

\* A step that ends its request.
LEMMA FinishStep ==
  ASSUME Inv, NEW t \in Threads, Finish(t), UNCHANGED <<rows, answer>>, RestTyped'
  PROVE  Inv'
  BY IdleIsTyped, ThreadStep DEF Finish

LEMMA CheckAnswerKeeps ==
  ASSUME Inv, NEW t \in Threads, CheckAnswer(t)
  PROVE  Inv'
  <1>1. UNCHANGED <<rows, answer>> /\ RestTyped'
    BY InvParts DEF CheckAnswer, rows, world, history, RestTyped
  <1>2. CASE Finish(t)
    BY <1>1, <1>2, FinishStep
  <1>3. CASE Advance(t, "claim")
    <2> DEFINE job == Job("claim", thread[t].assignment, thread[t].message,
                          thread[t].link, thread[t].status, thread[t].everyone)
    <2>1. /\ job \in JobType /\ job.at = "claim" /\ job.link = thread[t].link
          /\ job.assignment = thread[t].assignment /\ job.message = thread[t].message
      BY AdvanceIsTyped DEF Phases
    <2>2. OwnsItsLink(thread[t]) /\ thread[t].at = "check"
      BY InvParts DEF CheckAnswer, RequestsOwnTheirLinks
    <2>3. Become(t, job)
      BY <1>3 DEF Advance
    <2> HIDE DEF job
    <2>4. OwnsItsLink(job)
      BY <2>1, <2>2 DEF OwnsItsLink
    <2> QED
      BY <2>1, <2>3, <2>4, <1>1, ThreadStep
  <1> QED
    BY <1>2, <1>3 DEF CheckAnswer

LEMMA ReadAssignmentsKeeps ==
  ASSUME Inv, NEW t \in Threads, ReadAssignments(t)
  PROVE  Inv'
  <1> DEFINE job == Job("rewrite", None, thread[t].message, 0, DerivedStatus, {})
  <1>1. job \in JobType /\ job.at = "rewrite" /\ job.status = DerivedStatus
    <2>1. /\ "rewrite" \in Phases /\ 0 \in 0 .. MaxLinks /\ {} \in SUBSET Assignments
          /\ DerivedStatus \in RequestStatus \cup Deliveries \cup {"changed", None}
      BY DerivedStatusIsTyped DEF Phases, Owing
    <2> QED
      BY <2>1, FieldsAreTyped DEF Job, JobType
  <1>2. Become(t, job) /\ UNCHANGED <<rows, answer>> /\ RestTyped'
    BY InvParts DEF ReadAssignments, rows, world, RestTyped
  <1> HIDE DEF job
  <1>3. OwnsItsLink(job)
    BY <1>1, DerivedStatusIsTyped DEF OwnsItsLink
  <1> QED
    BY <1>1, <1>2, <1>3, ThreadStep

LEMMA SurveyEveryoneKeeps ==
  ASSUME Inv, NEW t \in Threads, SurveyEveryone(t)
  PROVE  Inv'
  <1>1. UNCHANGED <<rows, answer>> /\ RestTyped'
    BY InvParts DEF SurveyEveryone, rows, world, history, RestTyped
  <1>2. CASE Finish(t)
    BY <1>1, <1>2, FinishStep
  <1>3. CASE ~Finish(t)
    <2> DEFINE job == Job("notify", None, thread[t].message, 0, None, ActiveOnes)
    <2>1. Become(t, job)
      BY <1>3 DEF SurveyEveryone
    <2>2. job \in JobType /\ job.at = "notify"
      BY FieldsAreTyped DEF Job, JobType, Phases, Owing, ActiveOnes
    <2> HIDE DEF job
    <2>3. OwnsItsLink(job)
      BY <2>2 DEF OwnsItsLink
    <2> QED
      BY <2>1, <2>2, <2>3, <1>1, ThreadStep
  <1> QED
    BY <1>2, <1>3

LEMMA ClaimNoticeKeeps ==
  ASSUME Inv, NEW t \in Threads, ClaimNotice(t)
  PROVE  Inv'
  <1>1. UNCHANGED <<rows, answer>>
    BY DEF ClaimNotice, rows, world
  <1>2. CASE Finish(t) /\ UNCHANGED notice
    <2>1. RestTyped'
      BY <1>2, InvParts DEF ClaimNotice, rows, world, history, RestTyped
    <2> QED
      BY <1>1, <1>2, <2>1, FinishStep
  <1>3. CASE /\ notice' = [notice EXCEPT ![thread[t].everyone] = "PENDING"]
             /\ Advance(t, "notifying")
    <2> DEFINE job == Job("notifying", thread[t].assignment, thread[t].message,
                          thread[t].link, thread[t].status, thread[t].everyone)
    <2>1. Become(t, job)
      BY <1>3 DEF Advance
    <2>2. job \in JobType /\ job.at = "notifying"
      BY FieldsAreTyped DEF Job, JobType, Phases, Owing
    <2>3. RestTyped'
      BY <1>3, InvParts, FieldsAreTyped DEF ClaimNotice, rows, world, history, RestTyped
    <2> HIDE DEF job
    <2>4. OwnsItsLink(job)
      BY <2>2 DEF OwnsItsLink
    <2> QED
      BY <2>1, <2>2, <2>3, <2>4, <1>1, ThreadStep
  <1> QED
    BY <1>2, <1>3 DEF ClaimNotice

LEMMA SendNoticeKeeps ==
  ASSUME Inv, NEW t \in Threads, NEW mark \in {"SENT", "FAILED"}, SendNotice(t, mark)
  PROVE  Inv'
  <1>1. UNCHANGED <<rows, answer>> /\ Finish(t)
    BY DEF SendNotice, rows, world
  <1>2. RestTyped'
    BY InvParts, FieldsAreTyped DEF SendNotice, rows, world, history, RestTyped
  <1> QED
    BY <1>1, <1>2, FinishStep

LEMMA ReadDeliveryKeeps ==
  ASSUME Inv, NEW t \in Threads, NEW l \in Links, NEW status \in Deliveries,
         ReadDelivery(t, l, status)
  PROVE  Inv'
  <1> DEFINE job == Job("deliver", None, None, l, status, {})
  <1>1. /\ job \in JobType /\ job.at = "deliver" /\ job.link = l /\ job.status = status
    BY DEF Job, JobType, Phases, Links
  <1>2. Become(t, job) /\ UNCHANGED <<rows, answer>> /\ RestTyped'
    BY InvParts DEF ReadDelivery, rows, world, history, RestTyped
  <1>3. l \in 1 .. created
    <2>1. link[l].sent
      BY DEF ReadDelivery
    <2>2. l > created => ~link[l].sent
      BY InvParts DEF RowsTyped, NoRow, Row
    <2> QED
      BY <2>1, <2>2, InvParts DEF Links, RowsTyped
  <1> HIDE DEF job
  <1>4. OwnsItsLink(job)
    BY <1>1, <1>3 DEF OwnsItsLink
  <1> QED
    BY <1>1, <1>2, <1>4, ThreadStep

LEMMA CheckAssignKeeps ==
  ASSUME Inv, NEW t \in Threads, NEW a \in Assignments, CheckAssign(t, a)
  PROVE  Inv'
  <1>1. UNCHANGED <<rows, answer>>
    BY DEF CheckAssign, rows, world
  <1>2. RestTyped'
    <2>1. events' \in 0 .. MaxEvents
      BY InvParts DEF CheckAssign, RestTyped
    <2> QED
      BY <2>1, InvParts DEF CheckAssign, rows, world, RestTyped
  <1>3. CASE Become(t, Recalculation(None))
    BY <1>1, <1>2, <1>3, RecalculationIsTyped, ThreadStep
  <1>4. CASE Become(t, Job("existing", a, None, 0, None, {}))
    <2> DEFINE job == Job("existing", a, None, 0, None, {})
    <2>1. job \in JobType /\ job.at = "existing" /\ job.assignment = a
      BY DEF Job, JobType, Phases
    <2>2. Become(t, job)
      BY <1>4
    <2> HIDE DEF job
    <2>3. OwnsItsLink(job)
      BY <2>1 DEF OwnsItsLink
    <2> QED
      BY <2>1, <2>2, <2>3, <1>1, <1>2, ThreadStep
  <1> QED
    BY <1>3, <1>4 DEF CheckAssign

LEMMA ReadExistingKeeps ==
  ASSUME Inv, NEW t \in Threads, ReadExisting(t)
  PROVE  Inv'
  <1>1. UNCHANGED <<rows, answer>> /\ RestTyped'
    BY InvParts DEF ReadExisting, rows, world, history, RestTyped
  <1>2. CASE Finish(t)
    BY <1>1, <1>2, FinishStep
  <1>3. CASE Advance(t, "reassign")
    <2> DEFINE job == Job("reassign", thread[t].assignment, thread[t].message,
                          thread[t].link, thread[t].status, thread[t].everyone)
    <2>1. Become(t, job)
      BY <1>3 DEF Advance
    <2>2. job \in JobType /\ job.at = "reassign" /\ job.assignment = thread[t].assignment
      BY FieldsAreTyped DEF Job, JobType, Phases
    <2>3. thread[t].assignment \in Assignments
      BY FieldsAreTyped DEF ReadExisting, OwnsItsLink
    <2> HIDE DEF job
    <2>4. OwnsItsLink(job)
      BY <2>2, <2>3 DEF OwnsItsLink
    <2> QED
      BY <2>1, <2>2, <2>4, <1>1, ThreadStep
  <1> QED
    BY <1>2, <1>3 DEF ReadExisting

-----------------------------------------------------------------------------
(* Steps that write the status of the assignments or of the request *)

\* The rows of the confirmations are left alone.
LEMMA StatusStep ==
  ASSUME Inv, NEW t \in Threads, NEW job \in JobType, Become(t, job), OwnsItsLink(job),
         UNCHANGED <<link, created, answer>>, RestTyped',
         assignment' \in [Assignments -> AssignmentStatus], request' \in RequestStatus
  PROVE  Inv'
  <1> USE InvParts
  <1>1. thread'[t] = job
    BY Becomes
  <1>2. RowsTyped'
    BY DEF RowsTyped, NoRow
  <1>3. RowsStay /\ AnswersStay
    BY DEF RowsStay, AnswersStay, RowsTyped
  <1>4. OwnsItsLink(thread[t])'
    BY <1>1 DEF OwnsItsLink
  <1>5. SomeRequestStaysAnswerable'
    BY DEF SomeRequestStaysAnswerable, LinksOf
  <1> QED
    BY <1>2, <1>3, <1>4, <1>5, StepOfOne

LEMMA WriteRequestKeeps ==
  ASSUME Inv, NEW t \in Threads, WriteRequest(t)
  PROVE  Inv'
  <1>1. UNCHANGED <<link, created, answer>> /\ RestTyped'
    BY InvParts DEF WriteRequest, world, history, RestTyped
  <1>2. request' \in RequestStatus
    BY FieldsAreTyped DEF WriteRequest, OwnsItsLink
  <1>3. assignment' \in [Assignments -> AssignmentStatus]
    BY InvParts DEF WriteRequest, RowsTyped
  <1>4. CASE Finish(t)
    BY <1>1, <1>2, <1>3, <1>4, IdleIsTyped, StatusStep DEF Finish
  <1>5. CASE Become(t, Job("survey", None, thread[t].message, 0, None, {}))
    <2> DEFINE job == Job("survey", None, thread[t].message, 0, None, {})
    <2>1. job \in JobType /\ job.at = "survey"
      BY FieldsAreTyped DEF Job, JobType, Phases, Owing
    <2>2. Become(t, job)
      BY <1>5
    <2> HIDE DEF job
    <2>3. OwnsItsLink(job)
      BY <2>1 DEF OwnsItsLink
    <2> QED
      BY <2>1, <2>2, <2>3, <1>1, <1>2, <1>3, StatusStep
  <1> QED
    BY <1>4, <1>5 DEF WriteRequest

LEMMA MarkAssignmentKeeps ==
  ASSUME Inv, NEW t \in Threads, NEW a \in Assignments, NEW status \in Marks,
         MarkAssignment(t, a, status)
  PROVE  Inv'
  <1>1. UNCHANGED <<link, created, answer>> /\ Become(t, Recalculation(None))
    BY DEF MarkAssignment, world
  <1>2. RestTyped'
    <2>1. events' \in 0 .. MaxEvents
      BY InvParts DEF MarkAssignment, RestTyped
    <2> QED
      BY <2>1, InvParts DEF MarkAssignment, world, RestTyped
  <1>3. /\ assignment' \in [Assignments -> AssignmentStatus]
        /\ request' \in RequestStatus
    BY InvParts DEF MarkAssignment, RowsTyped, AssignmentStatus, Serving
  <1> QED
    BY <1>1, <1>2, <1>3, RecalculationIsTyped, StatusStep

LEMMA WriteAssignKeeps ==
  ASSUME Inv, NEW t \in Threads, WriteAssign(t)
  PROVE  Inv'
  <1>1. UNCHANGED <<link, created, answer>> /\ Become(t, Recalculation(None))
    BY DEF WriteAssign, world
  <1>2. RestTyped'
    BY InvParts DEF WriteAssign, world, RestTyped
  <1>3. /\ assignment' \in [Assignments -> AssignmentStatus]
        /\ request' \in RequestStatus
    BY InvParts DEF WriteAssign, RowsTyped, AssignmentStatus, Serving, Pending
  <1> QED
    BY <1>1, <1>2, <1>3, RecalculationIsTyped, StatusStep

-----------------------------------------------------------------------------
(* Steps that write the rows *)

\* Rows keep their assignment and whether they were sent, and none is superseded.
RowsMoveOn ==
  \A l \in Links :
    /\ link'[l].assignment = link[l].assignment
    /\ link'[l].sent = link[l].sent
    /\ link[l].status # "EXPIRED" => link'[l].status # "EXPIRED"
    /\ l > created => link'[l] = link[l]

LEMMA RowStep ==
  ASSUME Inv, NEW t \in Threads, NEW job \in JobType, Become(t, job), OwnsItsLink(job),
         UNCHANGED <<request, created, answer>>, RestTyped', RowsMoveOn,
         assignment' \in [Assignments -> AssignmentStatus], link' \in [Links -> RowType]
  PROVE  Inv'
  <1> USE InvParts
  <1>1. thread'[t] = job
    BY Becomes
  <1>2. 1 .. created \subseteq Links /\ created \in Nat
    BY DEF RowsTyped, Links
  <1>3. RowsTyped'
    BY <1>2 DEF RowsTyped, NoRow, RowsMoveOn
  <1>4. RowsStay /\ AnswersStay
    BY <1>2 DEF RowsStay, AnswersStay, RowsMoveOn
  <1>5. OwnsItsLink(thread[t])'
    BY <1>1, <1>2 DEF OwnsItsLink, RowsMoveOn
  <1>6. SomeRequestStaysAnswerable'
    BY SomeStaysAnswerable DEF NoneIsSuperseded, RowsMoveOn
  <1> QED
    BY <1>3, <1>4, <1>5, <1>6, StepOfOne

\* The row a request works on.
LEMMA RowAtWork ==
  ASSUME Inv, NEW t \in Threads,
         thread[t].at \in {"calling", "accepted", "check", "claim", "settle"}
  PROVE  /\ thread[t].link \in 1 .. created /\ thread[t].link \in Links
         /\ thread[t].assignment = link[thread[t].link].assignment
         /\ thread[t].assignment \in Assignments
         /\ thread[t].assignment \in Assignments \cup {None}
  BY InvParts, FieldsAreTyped DEF OwnsItsLink, RowsTyped, Links

LEMMA CreateLinkKeeps ==
  ASSUME Inv, NEW t \in Threads, CreateLink(t)
  PROVE  Inv'
  <1> DEFINE a == thread[t].assignment
             job == Job("calling", a, None, created + 1, None, {})
             new == Row(a, "PENDING", FALSE, None)
  <1>1. a \in Assignments
    BY FieldsAreTyped DEF CreateLink, OwnsItsLink
  <1>2. /\ created \in Nat /\ created' = created + 1 /\ created + 1 \in Links
        /\ created + 1 \in 0 .. MaxLinks
    BY InvParts DEF CreateLink, RowsTyped, Links
  <1>3. /\ new \in RowType /\ new.assignment = a /\ new.sent = FALSE
    BY <1>1 DEF Row, RowType, Active, Inbound
  <1>4. /\ job \in JobType /\ job.at = "calling" /\ job.link = created + 1
        /\ job.assignment = a
    BY <1>1, <1>2 DEF Job, JobType, Phases
  <1>5. Become(t, job) /\ link' = [link EXCEPT ![created + 1] = new]
        /\ UNCHANGED <<assignment, request, answer>>
    BY DEF CreateLink, world
  <1>6. RestTyped'
    BY <1>2, InvParts DEF CreateLink, world, history, RestTyped
  <1> HIDE DEF a, job, new
  <1>7. /\ link' \in [Links -> RowType] /\ link'[created + 1] = new
        /\ \A l \in Links : l # created + 1 => link'[l] = link[l]
    BY <1>2, <1>3, <1>5, InvParts DEF RowsTyped
  <1>8. RowsTyped'
    <2>1. \A l \in Links : l > created' => link'[l] = NoRow
      BY <1>2, <1>7, InvParts DEF RowsTyped, Links
    <2>2. \A l \in 1 .. created' : link'[l].assignment \in Assignments
      BY <1>1, <1>2, <1>3, <1>7, InvParts DEF RowsTyped, Links
    <2> QED
      BY <2>1, <2>2, <1>2, <1>5, <1>7, InvParts DEF RowsTyped, NoRow
  <1>9. RowsStay /\ AnswersStay
    BY <1>2, <1>5, <1>7 DEF RowsStay, AnswersStay, Links
  <1>10. ~link[created + 1].sent /\ link[created + 1].sent = FALSE
    BY <1>2, InvParts DEF RowsTyped, NoRow, Row
  <1>11. SomeRequestStaysAnswerable'
    BY <1>3, <1>7, <1>10, InvParts, SomeStaysAnswerable DEF NoneIsSuperseded
  <1>12. OwnsItsLink(thread[t])'
    <2>1. thread'[t] = job
      BY <1>4, <1>5, Becomes, InvParts
    <2>2. created + 1 \in 1 .. created'
      BY <1>2
    <2> QED
      BY <2>1, <2>2, <1>3, <1>4, <1>7 DEF OwnsItsLink
  <1> QED
    BY <1>4, <1>5, <1>6, <1>8, <1>9, <1>11, <1>12, StepOfOne

LEMMA FailSendKeeps ==
  ASSUME Inv, NEW t \in Threads, FailSend(t)
  PROVE  Inv'
  <1> DEFINE l == thread[t].link
             new == Row(link[l].assignment, "FAILED", link[l].sent, link[l].evidence)
  <1>1. l \in 1 .. created /\ l \in Links
    BY RowAtWork DEF FailSend
  <1>2. link[l] \in RowType
    BY <1>1, InvParts DEF RowsTyped
  <1>3. /\ new \in RowType /\ new.assignment = link[l].assignment
        /\ new.sent = link[l].sent /\ new.status = "FAILED"
    BY <1>2 DEF Row, RowType, Active, Terminal
  <1>4. /\ Become(t, Idle) /\ UNCHANGED <<assignment, request, created, answer>>
        /\ link' = IF link[l].status = "PENDING" THEN [link EXCEPT ![l] = new] ELSE link
    BY DEF FailSend, world, Finish
  <1>5. RestTyped'
    BY InvParts DEF FailSend, world, history, RestTyped
  <1> HIDE DEF l, new
  <1>6. RowsMoveOn /\ link' \in [Links -> RowType]
    BY <1>1, <1>3, <1>4, InvParts DEF RowsMoveOn, RowsTyped, Links
  <1>7. assignment' \in [Assignments -> AssignmentStatus]
    BY <1>4, InvParts DEF RowsTyped
  <1> QED
    BY <1>4, <1>5, <1>6, <1>7, IdleIsTyped, RowStep

LEMMA ClaimConfirmationKeeps ==
  ASSUME Inv, NEW t \in Threads, ClaimConfirmation(t)
  PROVE  Inv'
  <1> DEFINE a == thread[t].assignment
             l == thread[t].link
             m == thread[t].message
             changes == assignment[a] \in Pending
             outcome == IF changes THEN "changed" ELSE None
             new == Row(a, "CONFIRMED_REPLY_PENDING", link[l].sent, m)
             job == Job("settle", a, m, l, outcome, {})
  <1>1. /\ l \in 1 .. created /\ l \in Links /\ a = link[l].assignment
        /\ a \in Assignments /\ a \in Assignments \cup {None}
    BY RowAtWork DEF ClaimConfirmation
  <1>2. m \in Messages /\ answer[m] # None
    BY FieldsAreTyped DEF ClaimConfirmation, OwnsItsLink
  <1>3. link[l] \in RowType /\ l \in 0 .. MaxLinks
    BY <1>1, InvParts DEF RowsTyped, Links
  <1>4. UNCHANGED <<request, created, answer>> /\ RestTyped'
    BY InvParts DEF ClaimConfirmation, world, RestTyped
  <1>5. CASE Finish(t) /\ UNCHANGED <<link, assignment, last>>
    BY <1>4, <1>5, IdleIsTyped, InvParts, StatusStep DEF RowsTyped, Finish
  <1>6. CASE /\ link' = [link EXCEPT ![l] = new]
             /\ assignment' = [assignment EXCEPT ![a] = "CONFIRMED"]
             /\ Become(t, job)
    <2>1. /\ new \in RowType /\ new.assignment = link[l].assignment
          /\ new.sent = link[l].sent /\ new.status = "CONFIRMED_REPLY_PENDING"
      BY <1>1, <1>2, <1>3 DEF Row, RowType, Active
    <2>2. outcome \in RequestStatus \cup Deliveries \cup {"changed", None}
      OBVIOUS
    <2> HIDE DEF outcome
    <2>3. /\ job \in JobType /\ job.at = "settle" /\ job.link = l /\ job.message = m
          /\ job.assignment = a
      BY <1>1, <1>2, <1>3, <2>2 DEF Job, JobType, Phases, Owing
    <2>4. assignment' \in [Assignments -> AssignmentStatus]
      BY <1>1, <1>6, InvParts DEF RowsTyped, AssignmentStatus, Serving
    <2> HIDE DEF new, job, a, m, l
    <2>5. RowsMoveOn /\ link' \in [Links -> RowType]
      BY <1>1, <1>6, <2>1, InvParts DEF RowsMoveOn, RowsTyped, Links
    <2>6. OwnsItsLink(job)
      BY <1>1, <1>2, <2>3 DEF OwnsItsLink
    <2> QED
      BY <1>4, <1>6, <2>3, <2>4, <2>5, <2>6, RowStep
  <1> QED
    BY <1>5, <1>6 DEF ClaimConfirmation

LEMMA ClaimNoveltyKeeps ==
  ASSUME Inv, NEW t \in Threads, ClaimNovelty(t)
  PROVE  Inv'
  <1> DEFINE a == thread[t].assignment
             m == thread[t].message
             hit(l) == link[l].assignment = a /\ link[l].status \in Inbound
             new(l) == Row(a, "NOVELTY_REPORTED", link[l].sent, m)
  <1>1. a \in Assignments
    BY RowAtWork DEF ClaimNovelty
  <1>2. m \in Messages
    BY FieldsAreTyped DEF ClaimNovelty, OwnsItsLink
  <1>3. /\ UNCHANGED <<assignment, request, created, answer>> /\ Become(t, Idle)
        /\ link' = [l \in Links |-> IF hit(l) THEN new(l) ELSE link[l]]
    BY DEF ClaimNovelty, world, Finish
  <1>4. RestTyped'
    BY InvParts DEF ClaimNovelty, world, history, RestTyped
  <1>5. ASSUME NEW l \in Links
        PROVE  /\ link'[l] \in RowType
               /\ link'[l].assignment = link[l].assignment
               /\ link'[l].sent = link[l].sent
               /\ link[l].status # "EXPIRED" => link'[l].status # "EXPIRED"
               /\ l > created => link'[l] = link[l]
    <2>1. link[l] \in RowType
      BY InvParts DEF RowsTyped
    <2>2. CASE hit(l)
      <3>1. link'[l] = new(l)
        BY <1>3, <2>2
      <3>2. /\ new(l) \in RowType /\ new(l).assignment = a
            /\ new(l).sent = link[l].sent /\ new(l).status = "NOVELTY_REPORTED"
        BY <1>1, <1>2, <2>1 DEF Row, RowType, Active, Inbound
      <3>3. ~(l > created)
        BY <1>1, <2>2, InvParts DEF RowsTyped, NoRow, Row
      <3> HIDE DEF new
      <3> QED
        BY <2>2, <3>1, <3>2, <3>3
    <2>3. CASE ~hit(l)
      BY <1>3, <2>1, <2>3
    <2> QED
      BY <2>2, <2>3
  <1>6. RowsMoveOn
    BY <1>5 DEF RowsMoveOn
  <1>7. link' \in [Links -> RowType]
    BY <1>3, <1>5
  <1>8. assignment' \in [Assignments -> AssignmentStatus]
    BY <1>3, InvParts DEF RowsTyped
  <1> QED
    BY <1>3, <1>4, <1>6, <1>7, <1>8, IdleIsTyped, RowStep

LEMMA SettleConfirmationKeeps ==
  ASSUME Inv, NEW t \in Threads, SettleConfirmation(t)
  PROVE  Inv'
  <1> DEFINE hit(l) == /\ link[l].assignment = thread[t].assignment
                       /\ link[l].evidence = thread[t].message
                       /\ link[l].status = "CONFIRMED_REPLY_PENDING"
             new(l) == Row(link[l].assignment, "CONFIRMED", link[l].sent, link[l].evidence)
  <1>1. /\ UNCHANGED <<assignment, request, created, answer>>
        /\ link' = [l \in Links |-> IF hit(l) THEN new(l) ELSE link[l]]
    BY DEF SettleConfirmation, world
  <1>2. RestTyped'
    BY InvParts DEF SettleConfirmation, world, history, RestTyped
  <1>3. ASSUME NEW l \in Links
        PROVE  /\ link'[l] \in RowType
               /\ link'[l].assignment = link[l].assignment
               /\ link'[l].sent = link[l].sent
               /\ link[l].status # "EXPIRED" => link'[l].status # "EXPIRED"
               /\ l > created => link'[l] = link[l]
    <2>1. link[l] \in RowType
      BY InvParts DEF RowsTyped
    <2>2. CASE hit(l)
      <3>1. link'[l] = new(l)
        BY <1>1, <2>2
      <3>2. /\ new(l) \in RowType /\ new(l).assignment = link[l].assignment
            /\ new(l).sent = link[l].sent /\ new(l).status = "CONFIRMED"
        BY <2>1 DEF Row, RowType, Terminal
      <3>3. ~(l > created)
        BY <2>2, InvParts DEF RowsTyped, NoRow, Row
      <3> HIDE DEF new
      <3> QED
        BY <2>2, <3>1, <3>2, <3>3
    <2>3. CASE ~hit(l)
      BY <1>1, <2>1, <2>3
    <2> QED
      BY <2>2, <2>3
  <1>4. RowsMoveOn
    BY <1>3 DEF RowsMoveOn
  <1>5. link' \in [Links -> RowType] /\ assignment' \in [Assignments -> AssignmentStatus]
    BY <1>1, <1>3, InvParts DEF RowsTyped
  <1>6. CASE Become(t, Recalculation(thread[t].message))
    BY <1>1, <1>2, <1>4, <1>5, <1>6, FieldsAreTyped, RecalculationIsTyped, RowStep
  <1>7. CASE Finish(t)
    BY <1>1, <1>2, <1>4, <1>5, <1>7, IdleIsTyped, RowStep DEF Finish
  <1> QED
    BY <1>6, <1>7 DEF SettleConfirmation

LEMMA WriteDeliveryKeeps ==
  ASSUME Inv, NEW t \in Threads, WriteDelivery(t)
  PROVE  Inv'
  <1> DEFINE l == thread[t].link
             new == Row(link[l].assignment, thread[t].status, link[l].sent, link[l].evidence)
  <1>1. l \in 1 .. created /\ thread[t].status \in Deliveries
    BY FieldsAreTyped DEF WriteDelivery, OwnsItsLink
  <1>2. l \in Links /\ link[l] \in RowType
    BY <1>1, InvParts DEF RowsTyped, Links
  <1>3. /\ new \in RowType /\ new.assignment = link[l].assignment
        /\ new.sent = link[l].sent /\ new.status # "EXPIRED"
    BY <1>1, <1>2 DEF Row, RowType, Active, Inbound, Terminal
  <1>4. /\ Become(t, Idle) /\ UNCHANGED <<assignment, request, created, answer>>
        /\ link' = [link EXCEPT ![l] = new]
    BY DEF WriteDelivery, world, Finish
  <1>5. RestTyped'
    BY InvParts DEF WriteDelivery, world, history, RestTyped
  <1> HIDE DEF l, new
  <1>6. RowsMoveOn /\ link' \in [Links -> RowType]
    BY <1>1, <1>2, <1>3, <1>4, InvParts DEF RowsMoveOn, RowsTyped, Links
  <1>7. assignment' \in [Assignments -> AssignmentStatus]
    BY <1>4, InvParts DEF RowsTyped
  <1> QED
    BY <1>4, <1>5, <1>6, <1>7, IdleIsTyped, RowStep

\* The only step that supersedes a request leaves another one behind.
LEMMA CommitSendKeeps ==
  ASSUME Inv, NEW t \in Threads, CommitSend(t)
  PROVE  Inv'
  <1> DEFINE a == thread[t].assignment
             own == thread[t].link
             superseded(l) == /\ link[l].assignment = a
                              /\ l # own
                              /\ link[l].status \in Active
             old(l) == Row(a, "EXPIRED", link[l].sent, link[l].evidence)
             new(l) == Row(a, "SENT", TRUE, link[l].evidence)
  <1>1. own \in 1 .. created /\ own \in Links /\ a = link[own].assignment
        /\ a \in Assignments
    BY RowAtWork DEF CommitSend
  <1>2. /\ link' = [l \in Links |-> IF superseded(l) THEN old(l)
                                     ELSE IF l = own THEN new(l) ELSE link[l]]
        /\ Become(t, Idle) /\ UNCHANGED <<request, created, answer>>
    BY DEF CommitSend, world, Finish
  <1>3. assignment' \in [Assignments -> AssignmentStatus]
    BY <1>1, InvParts DEF CommitSend, RowsTyped, AssignmentStatus, Serving, Pending
  <1>4. RestTyped'
    BY InvParts DEF CommitSend, world, history, RestTyped
  <1>5. ASSUME NEW l \in Links
        PROVE  /\ link'[l] \in RowType
               /\ link'[l].assignment = link[l].assignment
               /\ l > created => link'[l] = link[l]
               /\ l = own => link'[l].sent /\ link'[l].status = "SENT"
               /\ link[l].assignment # a => link'[l] = link[l]
    <2>1. link[l] \in RowType
      BY InvParts DEF RowsTyped
    <2>2. /\ old(l) \in RowType /\ old(l).assignment = a
          /\ new(l) \in RowType /\ new(l).assignment = a /\ new(l).sent
          /\ new(l).status = "SENT"
      BY <1>1, <2>1 DEF Row, RowType, Active, Inbound, Terminal
    <2>3. l > created => ~superseded(l) /\ l # own
      BY <1>1, InvParts DEF RowsTyped, NoRow, Row
    <2>4. link'[l] = IF superseded(l) THEN old(l) ELSE IF l = own THEN new(l) ELSE link[l]
      BY <1>2
    <2>5. superseded(l) => link[l].assignment = a /\ l # own
      OBVIOUS
    <2> HIDE DEF old, new, superseded
    <2> QED
      BY <1>1, <2>1, <2>2, <2>3, <2>4, <2>5
  <1>6. link' \in [Links -> RowType] /\ UNCHANGED <<request, created, answer>>
    BY <1>2, <1>5
  <1>7. 1 .. created \subseteq Links
    BY InvParts DEF RowsTyped, Links
  <1>8. \A l \in Links : /\ link'[l].assignment = link[l].assignment
                         /\ l > created => link'[l] = link[l]
    BY <1>5
  <1> HIDE DEF a, own, superseded, old, new
  <1>9. RowsTyped'
    BY <1>3, <1>6, <1>7, <1>8, InvParts DEF RowsTyped, NoRow
  <1>10. RowsStay /\ AnswersStay
    BY <1>6, <1>7, <1>8, InvParts DEF RowsStay, AnswersStay, RowsTyped
  <1>11. SomeRequestStaysAnswerable'
    <2> SUFFICES ASSUME NEW b \in Assignments,
                        NEW l \in Links, link'[l].assignment = b, link'[l].sent
                 PROVE  \E k \in Links : /\ link'[k].assignment = b /\ link'[k].sent
                                        /\ link'[k].status # "EXPIRED"
      BY DEF SomeRequestStaysAnswerable, LinksOf
    <2>1. CASE b = a
      BY <1>1, <1>5, <2>1
    <2>2. CASE b # a
      <3>1. link[l].assignment = b /\ link[l].sent
        BY <1>5, <2>2
      <3>2. PICK k \in Links : link[k].assignment = b /\ link[k].sent
                              /\ link[k].status # "EXPIRED"
        BY <3>1, InvParts DEF SomeRequestStaysAnswerable, LinksOf
      <3> QED
        BY <1>5, <2>2, <3>2
    <2> QED
      BY <2>1, <2>2
  <1>12. OwnsItsLink(thread[t])'
    BY <1>2, IdleIsTyped, Becomes, InvParts DEF OwnsItsLink
  <1> QED
    BY <1>2, <1>4, <1>9, <1>10, <1>11, <1>12, IdleIsTyped, StepOfOne

-----------------------------------------------------------------------------
(* Workers and crashes *)

\* A step that leaves rows and requests alone: answers are only added.
LEMMA WorldKeeps ==
  ASSUME Inv, UNCHANGED <<rows, thread>>, AnswersStay, RestTyped'
  PROVE  Inv'
  <1> USE InvParts
  <1>1. RowsTyped' /\ SomeRequestStaysAnswerable'
    BY DEF RowsTyped, rows, NoRow, SomeRequestStaysAnswerable, LinksOf
  <1>2. RequestsOwnTheirLinks'
    BY DEF RequestsOwnTheirLinks, OwnsItsLink, rows, AnswersStay
  <1>3. inHand' \subseteq Links
    BY <1>1 DEF RestTyped, RowsTyped, Links
  <1> QED
    BY <1>1, <1>2, <1>3
    DEF Inv, TypeOK, RowsAreFreshBeyondCreated, RestTyped, RowsTyped

LEMMA AnswersAreAdded ==
  ASSUME Inv, NEW m \in Messages, answer[m] = None, NEW a \in Assignments,
         NEW action \in {"CONFIRM", "NOVELTY"}, NEW l \in 0 .. MaxLinks,
         answer' = [answer EXCEPT ![m] = Answer(a, action, l, created)],
         UNCHANGED <<rows, inHand, delivered, thread, notice, history>>
  PROVE  Inv'
  <1> DEFINE new == Answer(a, action, l, created)
  <1>1. new \in AnswerType
    BY InvParts DEF Answer, AnswerType, RowsTyped
  <1>2. answer' = [answer EXCEPT ![m] = new]
    OBVIOUS
  <1> HIDE DEF new
  <1>3. RestTyped'
    BY <1>1, <1>2, InvParts DEF RestTyped, rows, history
  <1>4. AnswersStay
    BY <1>2, InvParts DEF AnswersStay, RestTyped
  <1> QED
    BY <1>3, <1>4, WorldKeeps

LEMMA PressButtonKeeps ==
  ASSUME Inv, NEW m \in Messages, NEW l \in Links,
         NEW action \in {"CONFIRM", "NOVELTY"}, PressButton(m, l, action)
  PROVE  Inv'
  <1>1. link[l].assignment \in Assignments /\ l \in 0 .. MaxLinks
    BY InvParts DEF PressButton, RestTyped, RowsTyped, Links
  <1> QED
    BY <1>1, AnswersAreAdded DEF PressButton

LEMMA WriteAnswerKeeps ==
  ASSUME Inv, NEW m \in Messages, NEW a \in Assignments,
         NEW action \in {"CONFIRM", "NOVELTY"}, WriteAnswer(m, a, action)
  PROVE  Inv'
  <1>1. 0 \in 0 .. MaxLinks
    OBVIOUS
  <1> QED
    BY <1>1, AnswersAreAdded DEF WriteAnswer

LEMMA CrashKeeps ==
  ASSUME Inv, Crash
  PROVE  Inv'
  <1> USE InvParts
  <1>1. UNCHANGED <<rows, answer>> /\ thread' = [t \in Threads |-> Idle]
    BY DEF Crash, world
  <1>2. RestTyped'
    <2>1. events' \in 0 .. MaxEvents
      BY DEF Crash, RestTyped
    <2>2. lost' \in BOOLEAN
      <3>1. CASE \E t \in Threads : Owes(t)
        BY <3>1 DEF Crash
      <3>2. CASE ~\E t \in Threads : Owes(t)
        BY <3>2 DEF Crash, RestTyped
      <3> QED
        BY <3>1, <3>2
    <2> QED
      BY <2>1, <2>2 DEF Crash, rows, world, RestTyped
  <1>3. RowsTyped' /\ SomeRequestStaysAnswerable'
    BY <1>1 DEF RowsTyped, rows, NoRow, SomeRequestStaysAnswerable, LinksOf
  <1>4. thread' \in [Threads -> JobType]
    BY <1>1, IdleIsTyped
  <1>5. RequestsOwnTheirLinks'
    BY <1>1, IdleIsTyped DEF RequestsOwnTheirLinks, OwnsItsLink
  <1>6. inHand' \subseteq Links
    BY <1>2, <1>3 DEF RestTyped, RowsTyped, Links
  <1> QED
    BY <1>2, <1>3, <1>4, <1>5, <1>6
    DEF Inv, TypeOK, RowsAreFreshBeyondCreated, RestTyped, RowsTyped

-----------------------------------------------------------------------------
(* Theorems *)

LEMMA InitHolds == Init => Inv
  <1> SUFFICES ASSUME Init PROVE Inv
    OBVIOUS
  <1>1. NoRow \in RowType /\ NoRow.sent = FALSE
    BY DEF NoRow, Row, RowType, Active, Inbound
  <1>2. RowsTyped
    <2>1. assignment \in [Assignments -> AssignmentStatus]
      BY DEF Init, AssignmentStatus, Serving, Pending
    <2>2. link = [l \in Links |-> NoRow] /\ created = 0 /\ request = DerivedStatus
      BY DEF Init
    <2> QED
      BY <1>1, <2>1, <2>2, DerivedStatusIsTyped DEF RowsTyped
  <1>6. RestTyped
    <2>1. answer \in [Messages -> AnswerType \cup {None}]
      BY DEF Init
    <2>2. notice \in [SUBSET Assignments -> {"NONE", "PENDING", "SENT", "FAILED"}]
      BY DEF Init
    <2>3. /\ inHand = {} /\ delivered = {} /\ events = 0
          /\ last = "PANEL" /\ crossed = FALSE /\ lost = FALSE
      BY DEF Init
    <2>4. crossed \in BOOLEAN /\ lost \in BOOLEAN /\ last \in {"PANEL", "WHATSAPP"}
      BY <2>3, Zenon
    <2>5. events \in 0 .. MaxEvents
      BY <2>3
    <2>6. inHand \subseteq 1 .. created /\ delivered \subseteq Messages
      BY <2>3
    <2> QED
      BY <2>1, <2>2, <2>4, <2>5, <2>6, Zenon DEF RestTyped
  <1>3. SomeRequestStaysAnswerable
    BY <1>1 DEF Init, SomeRequestStaysAnswerable, LinksOf
  <1>4. thread \in [Threads -> JobType] /\ RequestsOwnTheirLinks
    BY IdleIsTyped DEF Init, RequestsOwnTheirLinks
  <1>5. inHand \subseteq Links
    BY DEF Init
  <1> QED
    BY <1>2, <1>3, <1>4, <1>5, <1>6
    DEF Inv, TypeOK, RowsAreFreshBeyondCreated, RestTyped, RowsTyped

LEMMA NextKeeps == Inv /\ [Next]_vars => Inv'
  <1> SUFFICES ASSUME Inv, [Next]_vars PROVE Inv'
    OBVIOUS
  <1>1. CASE UNCHANGED vars
    BY <1>1, InvParts, WorldKeeps
    DEF vars, world, history, rows, AnswersStay, RestTyped
  <1>2. ASSUME NEW t \in Threads, SendStep(t) PROVE Inv'
    BY <1>2, ValidateSendKeeps, CreateLinkKeeps, ProviderAcceptsKeeps, CommitSendKeeps,
       FailSendKeeps DEF SendStep
  <1>3. ASSUME NEW t \in Threads, AnswerStep(t) PROVE Inv'
    BY <1>3, DeliverKeeps, CheckAnswerKeeps, ClaimConfirmationKeeps, ClaimNoveltyKeeps,
       SettleConfirmationKeeps DEF AnswerStep
  <1>4. ASSUME NEW t \in Threads, FollowUpStep(t) PROVE Inv'
    BY <1>4, ReadAssignmentsKeeps, WriteRequestKeeps, SurveyEveryoneKeeps,
       ClaimNoticeKeeps, SendNoticeKeeps DEF FollowUpStep
  <1>5. ASSUME NEW t \in Threads, DeliveryStep(t) PROVE Inv'
    BY <1>5, ReadDeliveryKeeps, WriteDeliveryKeeps DEF DeliveryStep
  <1>6. ASSUME NEW t \in Threads, PanelStep(t) PROVE Inv'
    BY <1>6, MarkAssignmentKeeps, CheckAssignKeeps, ReadExistingKeeps, WriteAssignKeeps
    DEF PanelStep
  <1>7. CASE WorldStep
    BY <1>7, PressButtonKeeps, WriteAnswerKeeps, CrashKeeps DEF WorldStep
  <1> QED
    BY <1>1, <1>2, <1>3, <1>4, <1>5, <1>6, <1>7 DEF Next

\* Rows and requests are what their types say, every request in progress works
\* on a row of its own assignment, and a worker who was asked keeps a request
\* that no other has superseded, for any number of workers, rows and requests.
THEOREM Invariance == Spec => []Inv
  BY InitHolds, NextKeeps, PTL DEF Spec

\* However many sends of one assignment cross or fail, a request that reached
\* its worker is superseded only when another has been sent for good.
THEOREM WorkersKeepARequest == Spec => []SomeRequestStaysAnswerable
  <1>1. Inv => SomeRequestStaysAnswerable
    BY DEF Inv
  <1> QED
    BY <1>1, Invariance, PTL

TakesBackByForm ==
  \A a \in Assignments :
    assignment[a] = "CONFIRMED" /\ assignment'[a] # "CONFIRMED"
      => last' = "PANEL" /\ \E t \in Threads : thread'[t].at = "recalculate"

\* Of all the steps that write an assignment, only the forms move it away from
\* CONFIRMED.
LEMMA StepTakesBackByForm == Inv /\ [Next]_vars => TakesBackByForm
  <1> SUFFICES ASSUME Inv, [Next]_vars, NEW a \in Assignments,
                      assignment[a] = "CONFIRMED", assignment'[a] # "CONFIRMED"
               PROVE  last' = "PANEL" /\ \E t \in Threads : thread'[t].at = "recalculate"
    BY DEF TakesBackByForm
  <1>1. assignment' # assignment
    OBVIOUS
  <1>2. CASE UNCHANGED vars
    BY <1>1, <1>2 DEF vars, rows
  <1>3. ASSUME NEW t \in Threads, SendStep(t) PROVE FALSE
    BY <1>1, <1>3, InvParts
    DEF SendStep, ValidateSend, CreateLink, ProviderAccepts, CommitSend, FailSend, rows,
        RowsTyped
  <1>4. ASSUME NEW t \in Threads, AnswerStep(t) PROVE FALSE
    BY <1>1, <1>4, InvParts
    DEF AnswerStep, Deliver, CheckAnswer, ClaimConfirmation, ClaimNovelty,
        SettleConfirmation, rows, RowsTyped
  <1>5. ASSUME NEW t \in Threads, FollowUpStep(t) PROVE FALSE
    BY <1>1, <1>5
    DEF FollowUpStep, ReadAssignments, WriteRequest, SurveyEveryone, ClaimNotice,
        SendNotice, rows
  <1>6. ASSUME NEW t \in Threads, DeliveryStep(t) PROVE FALSE
    BY <1>1, <1>6 DEF DeliveryStep, ReadDelivery, WriteDelivery, rows
  <1>7. CASE WorldStep
    BY <1>1, <1>7 DEF WorldStep, PressButton, WriteAnswer, Crash, rows
  <1>8. ASSUME NEW t \in Threads, PanelStep(t)
        PROVE  last' = "PANEL" /\ thread'[t].at = "recalculate"
    <2>1. last' = "PANEL" /\ Become(t, Recalculation(None))
      BY <1>1, <1>8
      DEF PanelStep, MarkAssignment, CheckAssign, ReadExisting, WriteAssign, rows
    <2>2. Recalculation(None) \in JobType /\ Recalculation(None).at = "recalculate"
      BY RecalculationIsTyped
    <2>3. thread'[t] = Recalculation(None)
      BY <2>1, <2>2, Becomes, InvParts
    <2> QED
      BY <2>1, <2>2, <2>3
  <1> QED
    BY <1>2, <1>3, <1>4, <1>5, <1>6, <1>7, <1>8 DEF Next

\* A confirmed assignment is taken back by the forms of the panel alone.
THEOREM ConfirmationsStand == Spec => OnlyThePanelTakesBack
  <1>1. Inv /\ [Next]_vars => [TakesBackByForm]_vars
    BY StepTakesBackByForm
  <1>2. Spec => [][TakesBackByForm]_vars
    BY <1>1, Invariance, PTL DEF Spec
  <1> QED
    BY <1>2 DEF OnlyThePanelTakesBack, TakesBackByForm

-----------------------------------------------------------------------------
(* What follows a change of the assignments *)

\* It will still read the assignments before the status is written.
WillRead(u) ==
  \/ thread[u].at = "recalculate"
  \/ thread[u].at = "settle" /\ thread[u].status = "changed"

\* It will still look whether everyone confirmed, or is telling that they did.
WillAnnounce(u) ==
  \/ thread[u].at = "settle" /\ thread[u].status = "changed"
  \/ thread[u].at \in {"recalculate", "rewrite"} /\ thread[u].message # None
  \/ thread[u].at = "survey"
  \/ thread[u].at \in {"notify", "notifying"} /\ thread[u].everyone = ActiveOnes

\* A status read before the last change of an assignment has a reader behind it.
StatusIsOnItsWay ==
  ~crossed /\ ~lost =>
    \/ \E u \in Threads : WillRead(u)
    \/ /\ \A u \in Threads : thread[u].at = "rewrite" => thread[u].status = DerivedStatus
       /\ request = DerivedStatus \/ \E u \in Threads : thread[u].at = "rewrite"

\* A pending notice is being sent.
PendingNoticesAreInProgress ==
  ~lost => \A S \in SUBSET Assignments :
    notice[S] = "PENDING"
      => \E u \in Threads : thread[u].at = "notifying" /\ thread[u].everyone = S

AnnouncementIsOnItsWay ==
  EveryoneConfirmed /\ last = "WHATSAPP" /\ ~lost =>
    \/ notice[ActiveOnes] \in {"SENT", "FAILED"}
    \/ \E u \in Threads : WillAnnounce(u)

FollowUp == StatusIsOnItsWay /\ PendingNoticesAreInProgress /\ AnnouncementIsOnItsWay

\* What the follow-up depends on in the assignments.
SameSets == ActiveOnes' = ActiveOnes /\ ConfirmedOnes' = ConfirmedOnes

LEMMA SameSetsSameStatus ==
  ASSUME SameSets
  PROVE  DerivedStatus' = DerivedStatus /\ EveryoneConfirmed' = EveryoneConfirmed
  BY DEF SameSets, DerivedStatus, EveryoneConfirmed

LEMMA SameAssignmentSameSets ==
  ASSUME assignment' = assignment
  PROVE  SameSets
  BY DEF SameSets, ActiveOnes, ConfirmedOnes

\* A step of a request that owes nothing, and that changes nothing of this.
LEMMA QuietStep ==
  ASSUME FollowUp, NEW t \in Threads, OthersStay(t), ~Owes(t),
         thread'[t].at # "rewrite", SameSets,
         UNCHANGED <<request, notice, last, crossed, lost>>
  PROVE  FollowUp'
  <1> USE DEF FollowUp
  <1>1. DerivedStatus' = DerivedStatus /\ EveryoneConfirmed' = EveryoneConfirmed
    BY SameSetsSameStatus
  <1>2. last' = last /\ crossed' = crossed /\ lost' = lost
    OBVIOUS
  <1>3. ~WillRead(t) /\ ~WillAnnounce(t)
        /\ thread[t].at # "rewrite" /\ thread[t].at # "notifying"
    BY DEF WillRead, WillAnnounce, Owes, Owing
  <1>4. \A u \in Threads : /\ WillRead(u) => WillRead(u)'
                           /\ WillAnnounce(u) => WillAnnounce(u)'
    BY <1>3 DEF OthersStay, WillRead, WillAnnounce, SameSets
  <1>5. StatusIsOnItsWay'
    <2> SUFFICES ASSUME ~crossed', ~lost', ~\E u \in Threads : WillRead(u)'
                 PROVE  /\ \A u \in Threads : thread'[u].at = "rewrite"
                                              => thread'[u].status = DerivedStatus'
                        /\ \/ request' = DerivedStatus'
                           \/ \E u \in Threads : thread'[u].at = "rewrite"
      BY DEF StatusIsOnItsWay
    <2>1. ~crossed /\ ~lost
      BY <1>2
    <2>2. ~\E u \in Threads : WillRead(u)
      BY <1>4
    <2>3. /\ \A u \in Threads : thread[u].at = "rewrite" => thread[u].status = DerivedStatus
          /\ request = DerivedStatus \/ \E u \in Threads : thread[u].at = "rewrite"
      BY <2>1, <2>2 DEF StatusIsOnItsWay
    <2> QED
      BY <1>1, <1>3, <2>3 DEF OthersStay
  <1>6. PendingNoticesAreInProgress'
    BY <1>3 DEF PendingNoticesAreInProgress, OthersStay
  <1>7. AnnouncementIsOnItsWay'
    <2> SUFFICES ASSUME EveryoneConfirmed', last' = "WHATSAPP", ~lost',
                        ~\E u \in Threads : WillAnnounce(u)'
                 PROVE  notice'[ActiveOnes'] \in {"SENT", "FAILED"}
      BY DEF AnnouncementIsOnItsWay
    <2>1. ~lost
      BY <1>2
    <2>2. EveryoneConfirmed /\ last = "WHATSAPP"
      BY <1>1, <1>2
    <2>3. ~\E u \in Threads : WillAnnounce(u)
      BY <1>4
    <2> QED
      BY <2>1, <2>2, <2>3 DEF AnnouncementIsOnItsWay, SameSets
  <1> QED
    BY <1>5, <1>6, <1>7

\* A step that changes an assignment leaves its request about to read them; one
\* of WhatsApp leaves it about to announce as well.
LEMMA ChangingStep ==
  ASSUME FollowUp, NEW t \in Threads, OthersStay(t), thread[t].at # "notifying",
         WillRead(t)', last' = "WHATSAPP" => WillAnnounce(t)',
         UNCHANGED <<notice, lost>>
  PROVE  FollowUp'
  <1>1. StatusIsOnItsWay'
    BY DEF StatusIsOnItsWay
  <1>2. PendingNoticesAreInProgress'
    BY DEF FollowUp, PendingNoticesAreInProgress, OthersStay
  <1>3. AnnouncementIsOnItsWay'
    BY DEF AnnouncementIsOnItsWay
  <1> QED
    BY <1>1, <1>2, <1>3 DEF FollowUp

LEMMA JobFields ==
  ASSUME NEW at, NEW a, NEW m, NEW l, NEW status, NEW everyone
  PROVE  /\ Job(at, a, m, l, status, everyone).at = at
         /\ Job(at, a, m, l, status, everyone).assignment = a
         /\ Job(at, a, m, l, status, everyone).message = m
         /\ Job(at, a, m, l, status, everyone).status = status
         /\ Job(at, a, m, l, status, everyone).everyone = everyone
  BY DEF Job

LEMMA BecomesJob ==
  ASSUME Inv, NEW t \in Threads, NEW job, Become(t, job)
  PROVE  thread'[t] = job /\ OthersStay(t)
  BY InvParts DEF Become, OthersStay

LEMMA SendFollowUp ==
  ASSUME Inv, FollowUp, NEW t \in Threads, SendStep(t)
  PROVE  FollowUp'
  <1>1. UNCHANGED <<request, notice, last, crossed, lost>>
    BY DEF SendStep, ValidateSend, CreateLink, ProviderAccepts, CommitSend, FailSend,
           rows, history
  <1>2. ~Owes(t)
    <2>1. \/ thread[t].at \in {"validated", "calling", "accepted"}
          \/ thread[t] = Idle
      BY DEF SendStep, ValidateSend, CreateLink, ProviderAccepts, CommitSend, FailSend
    <2>2. Idle.at = "idle"
      BY IdleIsTyped
    <2> QED
      BY <2>1, <2>2 DEF Owes, Owing
  <1>3. SameSets
    <2>1. CASE CommitSend(t)
      BY <2>1, InvParts
      DEF CommitSend, SameSets, ActiveOnes, ConfirmedOnes, Serving, Pending, RowsTyped
    <2>2. CASE ~CommitSend(t)
      <3>1. assignment' = assignment
        BY <2>2 DEF SendStep, ValidateSend, CreateLink, ProviderAccepts, FailSend, rows
      <3> QED
        BY <3>1, SameAssignmentSameSets
    <2> QED
      BY <2>1, <2>2
  <1>4. OthersStay(t) /\ thread'[t].at # "rewrite"
    <2>1. ASSUME NEW a, ValidateSend(t, a) PROVE OthersStay(t) /\ thread'[t].at # "rewrite"
      BY <2>1, BecomesJob, JobFields DEF ValidateSend
    <2>2. CASE CreateLink(t)
      BY <2>2, BecomesJob, JobFields DEF CreateLink
    <2>3. CASE ProviderAccepts(t)
      BY <2>3, BecomesJob, JobFields DEF ProviderAccepts, Advance
    <2>4. CASE CommitSend(t) \/ FailSend(t)
      <3>1. Become(t, Idle)
        BY <2>4 DEF CommitSend, FailSend, Finish
      <3> QED
        BY <3>1, BecomesJob, IdleIsTyped
    <2> QED
      BY <2>1, <2>2, <2>3, <2>4 DEF SendStep
  <1> QED
    BY <1>1, <1>2, <1>3, <1>4, QuietStep

LEMMA AnswerFollowUp ==
  ASSUME Inv, FollowUp, NEW t \in Threads, AnswerStep(t)
  PROVE  FollowUp'
  <1>1. ASSUME NEW m \in Messages, Deliver(t, m) PROVE FollowUp'
    <2>1. UNCHANGED <<request, notice, last, crossed, lost, assignment>> /\ ~Owes(t)
      BY <1>1, JobFields DEF Deliver, rows, Idle, Owes, Owing
    <2>2. OthersStay(t) /\ thread'[t].at # "rewrite"
      <3>1. CASE Target(m) = {}
        BY <1>1, <3>1, JobFields DEF Deliver, OthersStay, Idle
      <3>2. CASE Target(m) # {}
        <4>1. PICK l : Become(t, Job("check", answer[m].assignment, m, l, None, {}))
          BY <1>1, <3>2 DEF Deliver
        <4> QED
          BY <4>1, BecomesJob, JobFields
      <3> QED
        BY <3>1, <3>2
    <2> QED
      BY <2>1, <2>2, SameAssignmentSameSets, QuietStep
  <1>2. CASE CheckAnswer(t)
    <2>1. UNCHANGED <<request, notice, last, crossed, lost, assignment>> /\ ~Owes(t)
      BY <1>2 DEF CheckAnswer, rows, history, Owes, Owing
    <2>2. OthersStay(t) /\ thread'[t].at # "rewrite"
      BY <1>2, BecomesJob, JobFields DEF CheckAnswer, Finish, Advance, Idle
    <2> QED
      BY <2>1, <2>2, SameAssignmentSameSets, QuietStep
  <1>3. CASE ClaimConfirmation(t)
    <2>1. UNCHANGED <<request, notice, crossed, lost>> /\ ~Owes(t)
          /\ thread[t].at # "notifying"
      BY <1>3 DEF ClaimConfirmation, Owes, Owing
    <2>2. CASE Finish(t) /\ UNCHANGED <<link, assignment, last>>
      <3>1. OthersStay(t) /\ thread'[t].at # "rewrite"
        BY <2>2, BecomesJob, JobFields DEF Finish, Idle
      <3> QED
        BY <2>1, <2>2, <3>1, SameAssignmentSameSets, QuietStep
    <2>3. CASE ~(Finish(t) /\ UNCHANGED <<link, assignment, last>>)
      <3> DEFINE a == thread[t].assignment
                 changes == assignment[a] \in Pending
                 outcome == IF changes THEN "changed" ELSE None
                 job == Job("settle", a, thread[t].message, thread[t].link, outcome, {})
      <3>1. /\ assignment' = [assignment EXCEPT ![a] = "CONFIRMED"]
            /\ last' = IF changes THEN "WHATSAPP" ELSE last
            /\ Become(t, job) /\ assignment[a] \in Serving
        BY <1>3, <2>3 DEF ClaimConfirmation
      <3>2. job.at = "settle" /\ job.status = outcome
        BY JobFields
      <3> HIDE DEF job
      <3>3. thread'[t] = job /\ OthersStay(t)
        BY <3>1, BecomesJob
      <3>4. CASE changes
        <4>1. WillRead(t)' /\ WillAnnounce(t)'
          BY <3>2, <3>3, <3>4 DEF WillRead, WillAnnounce
        <4> QED
          BY <2>1, <3>3, <4>1, ChangingStep
      <3>5. CASE ~changes
        <4>1. assignment' = assignment
          BY <3>1, <3>5, InvParts DEF Serving, RowsTyped
        <4>2. last' = last /\ thread'[t].at # "rewrite"
          BY <3>1, <3>2, <3>3, <3>5
        <4> QED
          BY <2>1, <3>3, <4>1, <4>2, SameAssignmentSameSets, QuietStep
      <3> QED
        BY <3>4, <3>5
    <2> QED
      BY <2>2, <2>3
  <1>4. CASE ClaimNovelty(t)
    <2>1. UNCHANGED <<request, notice, last, crossed, lost, assignment>> /\ ~Owes(t)
      BY <1>4 DEF ClaimNovelty, history, Owes, Owing
    <2>2. OthersStay(t) /\ thread'[t].at # "rewrite"
      BY <1>4, BecomesJob, JobFields DEF ClaimNovelty, Finish, Idle
    <2> QED
      BY <2>1, <2>2, SameAssignmentSameSets, QuietStep
  <1>5. CASE SettleConfirmation(t)
    <2>1. UNCHANGED <<request, notice, last, crossed, lost, assignment>>
          /\ thread[t].at = "settle"
      BY <1>5 DEF SettleConfirmation, history
    <2>2. CASE thread[t].status = "changed"
      <3>1. thread'[t] = Recalculation(thread[t].message) /\ OthersStay(t)
        BY <1>5, <2>2, BecomesJob DEF SettleConfirmation
      <3>2. thread[t].message # None
        BY <2>1, FieldsAreTyped DEF OwnsItsLink
      <3>3. /\ Recalculation(thread[t].message).at = "recalculate"
            /\ Recalculation(thread[t].message).message = thread[t].message
        BY JobFields DEF Recalculation
      <3>4. WillRead(t)' /\ WillAnnounce(t)'
        BY <3>1, <3>2, <3>3 DEF WillRead, WillAnnounce
      <3> QED
        BY <2>1, <3>1, <3>4, ChangingStep
    <2>3. CASE thread[t].status # "changed"
      <3>1. ~Owes(t)
        BY <2>1, <2>3 DEF Owes, Owing
      <3>2. OthersStay(t) /\ thread'[t].at # "rewrite"
        BY <1>5, <2>3, BecomesJob, JobFields DEF SettleConfirmation, Finish, Idle
      <3> QED
        BY <2>1, <3>1, <3>2, SameAssignmentSameSets, QuietStep
    <2> QED
      BY <2>2, <2>3
  <1> QED
    BY <1>1, <1>2, <1>3, <1>4, <1>5 DEF AnswerStep

LEMMA DeliveryFollowUp ==
  ASSUME Inv, FollowUp, NEW t \in Threads, DeliveryStep(t)
  PROVE  FollowUp'
  <1>1. UNCHANGED <<request, notice, last, crossed, lost, assignment>>
    BY DEF DeliveryStep, ReadDelivery, WriteDelivery, rows, history
  <1>2. ~Owes(t)
    <2>1. thread[t].at = "deliver" \/ thread[t] = Idle
      BY DEF DeliveryStep, ReadDelivery, WriteDelivery
    <2> QED
      BY <2>1, IdleIsTyped DEF Owes, Owing
  <1>3. OthersStay(t) /\ thread'[t].at # "rewrite"
    <2>1. CASE WriteDelivery(t)
      BY <2>1, BecomesJob, IdleIsTyped DEF WriteDelivery, Finish
    <2>2. ASSUME NEW l, NEW status, ReadDelivery(t, l, status)
          PROVE  OthersStay(t) /\ thread'[t].at # "rewrite"
      BY <2>2, BecomesJob, JobFields DEF ReadDelivery
    <2> QED
      BY <2>1, <2>2 DEF DeliveryStep
  <1> QED
    BY <1>1, <1>2, <1>3, SameAssignmentSameSets, QuietStep

LEMMA PanelFollowUp ==
  ASSUME Inv, FollowUp, NEW t \in Threads, PanelStep(t)
  PROVE  FollowUp'
  <1>1. UNCHANGED <<request, notice, lost, crossed>>
    BY DEF PanelStep, MarkAssignment, CheckAssign, ReadExisting, WriteAssign, rows, history
  <1>2. ~Owes(t) /\ thread[t].at # "notifying"
    <2>1. thread[t].at \in {"existing", "reassign"} \/ thread[t] = Idle
      BY DEF PanelStep, MarkAssignment, CheckAssign, ReadExisting, WriteAssign
    <2> QED
      BY <2>1, IdleIsTyped DEF Owes, Owing
  <1>3. CASE Become(t, Recalculation(None)) /\ last' = "PANEL"
    <2>1. thread'[t] = Recalculation(None) /\ OthersStay(t)
      BY <1>3, BecomesJob
    <2>2. WillRead(t)'
      BY <2>1, RecalculationIsTyped DEF WillRead
    <2> QED
      BY <1>1, <1>2, <1>3, <2>1, <2>2, ChangingStep
  <1>4. CASE ReadExisting(t)
    <2>1. OthersStay(t) /\ thread'[t].at # "rewrite"
      <3>1. CASE Finish(t)
        BY <3>1, BecomesJob, IdleIsTyped DEF Finish
      <3>2. CASE Advance(t, "reassign")
        BY <3>2, BecomesJob, JobFields DEF Advance
      <3> QED
        BY <1>4, <3>1, <3>2 DEF ReadExisting
    <2>2. UNCHANGED <<assignment, last>>
      BY <1>4 DEF ReadExisting, rows, history
    <2> QED
      BY <1>1, <1>2, <2>1, <2>2, SameAssignmentSameSets, QuietStep
  <1>5. ASSUME NEW a \in Assignments, CheckAssign(t, a) PROVE FollowUp'
    <2>1. UNCHANGED <<assignment, last>>
      BY <1>5 DEF CheckAssign, rows
    <2>2. OthersStay(t) /\ thread'[t].at # "rewrite"
      <3>1. CASE Become(t, Recalculation(None))
        BY <3>1, BecomesJob, RecalculationIsTyped
      <3>2. CASE Become(t, Job("existing", a, None, 0, None, {}))
        BY <3>2, BecomesJob, JobFields
      <3> QED
        BY <1>5, <3>1, <3>2 DEF CheckAssign
    <2> QED
      BY <1>1, <1>2, <2>1, <2>2, SameAssignmentSameSets, QuietStep
  <1> QED
    BY <1>3, <1>4, <1>5 DEF PanelStep, MarkAssignment, WriteAssign

\* A step of the follow-up itself keeps the assignments.
LEMMA ReadAssignmentsFollowUp ==
  ASSUME Inv, FollowUp, NEW t \in Threads, ReadAssignments(t)
  PROVE  FollowUp'
  <1> USE DEF FollowUp
  <1> DEFINE job == Job("rewrite", None, thread[t].message, 0, DerivedStatus, {})
  <1>1. job.at = "rewrite" /\ job.status = DerivedStatus /\ job.message = thread[t].message
    BY JobFields
  <1>2. thread'[t] = job /\ OthersStay(t)
    BY BecomesJob DEF ReadAssignments
  <1> HIDE DEF job
  <1>3. /\ UNCHANGED <<assignment, request, notice, last, lost>>
        /\ thread[t].at = "recalculate"
        /\ crossed' = (crossed \/ \E u \in Threads : thread[u].at = "rewrite")
    BY DEF ReadAssignments, rows
  <1>4. SameSets /\ DerivedStatus' = DerivedStatus /\ EveryoneConfirmed' = EveryoneConfirmed
    BY <1>3, SameAssignmentSameSets, SameSetsSameStatus
  <1>5. StatusIsOnItsWay'
    <2> SUFFICES ASSUME ~crossed'
                 PROVE  /\ \A u \in Threads : thread'[u].at = "rewrite"
                                              => thread'[u].status = DerivedStatus'
                        /\ \E u \in Threads : thread'[u].at = "rewrite"
      BY DEF StatusIsOnItsWay
    <2>1. ~\E u \in Threads : thread[u].at = "rewrite"
      BY <1>3
    <2> QED
      BY <1>1, <1>2, <1>4, <2>1 DEF OthersStay
  <1>6. PendingNoticesAreInProgress'
    BY <1>2, <1>3 DEF PendingNoticesAreInProgress, OthersStay
  <1>7. \A u \in Threads : WillAnnounce(u) => WillAnnounce(u)'
    BY <1>1, <1>2, <1>3, <1>4 DEF OthersStay, WillAnnounce, SameSets
  <1>8. AnnouncementIsOnItsWay'
    <2> SUFFICES ASSUME EveryoneConfirmed', last' = "WHATSAPP", ~lost',
                        ~\E u \in Threads : WillAnnounce(u)'
                 PROVE  notice'[ActiveOnes'] \in {"SENT", "FAILED"}
      BY DEF AnnouncementIsOnItsWay
    <2>1. ~lost
      BY <1>3, Zenon
    <2>2. EveryoneConfirmed /\ last = "WHATSAPP"
      BY <1>3, <1>4, Zenon
    <2>3. ~\E u \in Threads : WillAnnounce(u)
      BY <1>7
    <2> QED
      BY <1>3, <1>4, <2>1, <2>2, <2>3 DEF AnnouncementIsOnItsWay, SameSets
  <1> QED
    BY <1>5, <1>6, <1>8

LEMMA WriteRequestFollowUp ==
  ASSUME Inv, FollowUp, NEW t \in Threads, WriteRequest(t)
  PROVE  FollowUp'
  <1> USE DEF FollowUp
  <1>1. /\ UNCHANGED <<assignment, notice, last, crossed, lost>>
        /\ thread[t].at = "rewrite" /\ request' = thread[t].status
    BY DEF WriteRequest, history
  <1>2. SameSets /\ DerivedStatus' = DerivedStatus /\ EveryoneConfirmed' = EveryoneConfirmed
    BY <1>1, SameAssignmentSameSets, SameSetsSameStatus
  <1>3. /\ OthersStay(t) /\ thread'[t].at \in {"idle", "survey"}
        /\ thread[t].message # None => thread'[t].at = "survey"
    <2> DEFINE job == Job("survey", None, thread[t].message, 0, None, {})
    <2>1. CASE Finish(t) /\ thread[t].message = None
      BY <2>1, BecomesJob, IdleIsTyped DEF Finish
    <2>2. CASE Become(t, job)
      BY <2>2, BecomesJob, JobFields
    <2> QED
      BY <2>1, <2>2 DEF WriteRequest
  <1>4. ASSUME NEW u \in Threads
        PROVE  /\ WillRead(u) => WillRead(u)'
               /\ WillAnnounce(u) => WillAnnounce(u)'
    <2>1. CASE u = t
      BY <1>1, <1>3, <2>1 DEF WillRead, WillAnnounce
    <2>2. CASE u # t
      BY <1>2, <1>3, <2>2 DEF OthersStay, WillRead, WillAnnounce, SameSets
    <2> QED
      BY <2>1, <2>2
  <1>5. StatusIsOnItsWay'
    <2> SUFFICES ASSUME ~crossed', ~lost', ~\E u \in Threads : WillRead(u)'
                 PROVE  /\ \A u \in Threads : thread'[u].at = "rewrite"
                                              => thread'[u].status = DerivedStatus'
                        /\ request' = DerivedStatus'
      BY DEF StatusIsOnItsWay
    <2>1. ~crossed /\ ~lost
      BY <1>1
    <2>2. ~\E u \in Threads : WillRead(u)
      BY <1>4
    <2>3. \A u \in Threads : thread[u].at = "rewrite" => thread[u].status = DerivedStatus
      BY <2>1, <2>2 DEF StatusIsOnItsWay
    <2> QED
      BY <1>1, <1>2, <1>3, <2>3 DEF OthersStay
  <1>6. PendingNoticesAreInProgress'
    BY <1>1, <1>3 DEF PendingNoticesAreInProgress, OthersStay
  <1>7. AnnouncementIsOnItsWay'
    <2> SUFFICES ASSUME EveryoneConfirmed', last' = "WHATSAPP", ~lost',
                        ~\E u \in Threads : WillAnnounce(u)'
                 PROVE  notice'[ActiveOnes'] \in {"SENT", "FAILED"}
      BY DEF AnnouncementIsOnItsWay
    <2>1. ~lost
      BY <1>1
    <2>2. EveryoneConfirmed /\ last = "WHATSAPP"
      BY <1>1, <1>2
    <2>3. ~\E u \in Threads : WillAnnounce(u)
      BY <1>4
    <2> QED
      BY <1>1, <1>2, <2>1, <2>2, <2>3 DEF AnnouncementIsOnItsWay, SameSets
  <1> QED
    BY <1>5, <1>6, <1>7

\* Once the status is written, what is left does not touch it.
LEMMA StatusStays ==
  ASSUME StatusIsOnItsWay, NEW t \in Threads, OthersStay(t),
         thread[t].at \in {"survey", "notify", "notifying"}, thread'[t].at # "rewrite",
         assignment' = assignment, UNCHANGED <<request, crossed, lost>>
  PROVE  StatusIsOnItsWay'
  <1>1. DerivedStatus' = DerivedStatus
    BY SameAssignmentSameSets, SameSetsSameStatus
  <1>2. \A u \in Threads : WillRead(u) => WillRead(u)'
    BY DEF OthersStay, WillRead
  <1> SUFFICES ASSUME ~crossed', ~lost', ~\E u \in Threads : WillRead(u)'
               PROVE  /\ \A u \in Threads : thread'[u].at = "rewrite"
                                            => thread'[u].status = DerivedStatus'
                      /\ \/ request' = DerivedStatus'
                         \/ \E u \in Threads : thread'[u].at = "rewrite"
    BY DEF StatusIsOnItsWay
  <1>3. ~crossed /\ ~lost
    OBVIOUS
  <1>4. ~\E u \in Threads : WillRead(u)
    BY <1>2
  <1>5. /\ \A u \in Threads : thread[u].at = "rewrite" => thread[u].status = DerivedStatus
        /\ request = DerivedStatus \/ \E u \in Threads : thread[u].at = "rewrite"
    BY <1>3, <1>4 DEF StatusIsOnItsWay
  <1> QED
    BY <1>1, <1>5 DEF OthersStay

\* A request passes on what it had to announce, or has announced it.
HandsOn ==
  EveryoneConfirmed /\ (\E u \in Threads : WillAnnounce(u))
    => \/ notice'[ActiveOnes] \in {"SENT", "FAILED"}
       \/ \E u \in Threads : WillAnnounce(u)'

LEMMA AnnouncementStays ==
  ASSUME AnnouncementIsOnItsWay, HandsOn,
         notice[ActiveOnes] \in {"SENT", "FAILED"}
           => \/ notice'[ActiveOnes] \in {"SENT", "FAILED"}
              \/ \E u \in Threads : WillAnnounce(u)',
         assignment' = assignment, UNCHANGED <<last, lost>>
  PROVE  AnnouncementIsOnItsWay'
  <1>1. ActiveOnes' = ActiveOnes /\ EveryoneConfirmed' = EveryoneConfirmed
    BY SameAssignmentSameSets, SameSetsSameStatus DEF SameSets
  <1> SUFFICES ASSUME EveryoneConfirmed', last' = "WHATSAPP", ~lost'
               PROVE  \/ notice'[ActiveOnes'] \in {"SENT", "FAILED"}
                      \/ \E u \in Threads : WillAnnounce(u)'
    BY DEF AnnouncementIsOnItsWay
  <1>2. ~lost
    OBVIOUS
  <1>3. EveryoneConfirmed /\ last = "WHATSAPP"
    BY <1>1
  <1>4. \/ notice[ActiveOnes] \in {"SENT", "FAILED"}
        \/ \E u \in Threads : WillAnnounce(u)
    BY <1>2, <1>3 DEF AnnouncementIsOnItsWay
  <1> QED
    BY <1>1, <1>3, <1>4 DEF HandsOn

LEMMA SurveyEveryoneFollowUp ==
  ASSUME Inv, FollowUp, NEW t \in Threads, SurveyEveryone(t)
  PROVE  FollowUp'
  <1> USE DEF FollowUp
  <1>1. /\ UNCHANGED <<assignment, request, notice, last, crossed, lost>>
        /\ thread[t].at = "survey"
    BY DEF SurveyEveryone, rows, history
  <1>2. /\ OthersStay(t) /\ thread'[t].at \in {"idle", "notify"}
        /\ EveryoneConfirmed => thread'[t].at = "notify" /\ thread'[t].everyone = ActiveOnes
    <2> DEFINE job == Job("notify", None, thread[t].message, 0, None, ActiveOnes)
    <2>1. CASE Finish(t) /\ ~EveryoneConfirmed
      BY <2>1, BecomesJob, IdleIsTyped DEF Finish
    <2>2. CASE Become(t, job)
      BY <2>2, BecomesJob, JobFields
    <2> QED
      BY <2>1, <2>2 DEF SurveyEveryone
  <1>3. ActiveOnes' = ActiveOnes
    BY <1>1, SameAssignmentSameSets DEF SameSets
  <1>4. StatusIsOnItsWay'
    BY <1>1, <1>2, StatusStays
  <1>5. PendingNoticesAreInProgress'
    BY <1>1, <1>2 DEF PendingNoticesAreInProgress, OthersStay
  <1>6. HandsOn
    <2> SUFFICES ASSUME EveryoneConfirmed, NEW u \in Threads, WillAnnounce(u)
                 PROVE  \E v \in Threads : WillAnnounce(v)'
      BY DEF HandsOn
    <2>1. CASE u = t
      BY <1>2, <1>3, <2>1 DEF WillAnnounce
    <2>2. CASE u # t
      BY <1>2, <1>3, <2>2 DEF OthersStay, WillAnnounce
    <2> QED
      BY <2>1, <2>2
  <1>7. AnnouncementIsOnItsWay'
    BY <1>1, <1>6, AnnouncementStays
  <1> QED
    BY <1>4, <1>5, <1>7

LEMMA ClaimNoticeFollowUp ==
  ASSUME Inv, FollowUp, NEW t \in Threads, ClaimNotice(t)
  PROVE  FollowUp'
  <1> USE DEF FollowUp
  <1> DEFINE key == thread[t].everyone
  <1>1. /\ UNCHANGED <<assignment, request, last, crossed, lost>>
        /\ thread[t].at = "notify" /\ key \in SUBSET Assignments
    BY FieldsAreTyped DEF ClaimNotice, rows, history
  <1>2. ActiveOnes' = ActiveOnes
    BY <1>1, SameAssignmentSameSets DEF SameSets
  <1>3. ASSUME OthersStay(t), thread'[t].at # "rewrite" PROVE StatusIsOnItsWay'
    BY <1>1, <1>3, StatusStays
  <1>4. CASE /\ key \in Notifying \/ notice[key] # "NONE"
             /\ Finish(t) /\ UNCHANGED notice
    <2>1. OthersStay(t) /\ thread'[t].at = "idle"
      BY <1>4, BecomesJob, IdleIsTyped DEF Finish
    <2>2. PendingNoticesAreInProgress'
      BY <1>1, <1>4, <2>1 DEF PendingNoticesAreInProgress, OthersStay
    <2>3. ASSUME key = ActiveOnes, ~lost
          PROVE  \/ notice[ActiveOnes] \in {"SENT", "FAILED"}
                 \/ \E v \in Threads : v # t /\ WillAnnounce(v)
      <3>1. ASSUME NEW v \in Threads, thread[v].at = "notifying", thread[v].everyone = key
            PROVE  v # t /\ WillAnnounce(v)
        BY <1>1, <2>3, <3>1 DEF WillAnnounce
      <3>2. CASE key \in Notifying
        BY <3>1, <3>2 DEF Notifying
      <3>3. CASE notice[key] = "PENDING"
        BY <1>1, <2>3, <3>1, <3>3 DEF PendingNoticesAreInProgress
      <3>4. CASE notice[key] \in {"SENT", "FAILED"}
        BY <2>3, <3>4
      <3> QED
        BY <1>1, <1>4, <3>2, <3>3, <3>4, InvParts DEF RestTyped
    <2>4. AnnouncementIsOnItsWay'
      <3> SUFFICES ASSUME EveryoneConfirmed', last' = "WHATSAPP", ~lost'
                   PROVE  \/ notice'[ActiveOnes'] \in {"SENT", "FAILED"}
                          \/ \E u \in Threads : WillAnnounce(u)'
        BY DEF AnnouncementIsOnItsWay
      <3>1. ~lost
        BY <1>1
      <3>2. EveryoneConfirmed /\ last = "WHATSAPP"
        BY <1>1, SameAssignmentSameSets, SameSetsSameStatus
      <3>3. \/ notice[ActiveOnes] \in {"SENT", "FAILED"}
            \/ \E u \in Threads : u # t /\ WillAnnounce(u)
        <4>1. CASE key = ActiveOnes
          BY <2>3, <3>1, <4>1
        <4>2. CASE key # ActiveOnes
          <5>1. ~WillAnnounce(t)
            BY <1>1, <4>2 DEF WillAnnounce
          <5> QED
            BY <3>1, <3>2, <5>1 DEF AnnouncementIsOnItsWay
        <4> QED
          BY <4>1, <4>2
      <3>4. \A u \in Threads : u # t /\ WillAnnounce(u) => WillAnnounce(u)'
        BY <1>2, <2>1 DEF OthersStay, WillAnnounce
      <3> QED
        BY <1>2, <1>4, <3>3, <3>4
    <2> QED
      BY <1>3, <2>1, <2>2, <2>4
  <1>5. CASE notice' = [notice EXCEPT ![key] = "PENDING"] /\ Advance(t, "notifying")
    <2>1. /\ OthersStay(t) /\ thread'[t].at = "notifying" /\ thread'[t].everyone = key
      BY <1>5, BecomesJob, JobFields DEF Advance
    <2>2. /\ notice'[key] = "PENDING"
          /\ \A S \in SUBSET Assignments : S # key => notice'[S] = notice[S]
      BY <1>1, <1>5, InvParts DEF RestTyped
    <2>3. PendingNoticesAreInProgress'
      <3> SUFFICES ASSUME ~lost', NEW S \in SUBSET Assignments, notice'[S] = "PENDING"
                   PROVE  \E u \in Threads : /\ thread'[u].at = "notifying"
                                            /\ thread'[u].everyone = S
        BY DEF PendingNoticesAreInProgress
      <3>1. CASE S = key
        BY <2>1, <3>1
      <3>2. CASE S # key
        <4>1. notice[S] = "PENDING" /\ ~lost
          BY <1>1, <2>2, <3>2
        <4>2. PICK u \in Threads : thread[u].at = "notifying" /\ thread[u].everyone = S
          BY <4>1 DEF PendingNoticesAreInProgress
        <4> QED
          BY <1>1, <2>1, <4>2 DEF OthersStay
      <3> QED
        BY <3>1, <3>2
    <2>4. HandsOn
      <3> SUFFICES ASSUME NEW u \in Threads, WillAnnounce(u)
                   PROVE  WillAnnounce(u)'
        BY DEF HandsOn
      <3>1. CASE u = t
        BY <1>1, <1>2, <2>1, <3>1 DEF WillAnnounce
      <3>2. CASE u # t
        BY <1>2, <2>1, <3>2 DEF OthersStay, WillAnnounce
      <3> QED
        BY <3>1, <3>2
    <2>5. ASSUME notice[ActiveOnes] \in {"SENT", "FAILED"}
          PROVE  \/ notice'[ActiveOnes] \in {"SENT", "FAILED"}
                 \/ \E u \in Threads : WillAnnounce(u)'
      <3>1. ActiveOnes \in SUBSET Assignments
        BY DEF ActiveOnes
      <3>2. CASE ActiveOnes = key
        BY <1>2, <2>1, <3>2 DEF WillAnnounce
      <3>3. CASE ActiveOnes # key
        BY <2>2, <2>5, <3>1, <3>3
      <3> QED
        BY <3>2, <3>3
    <2>6. AnnouncementIsOnItsWay'
      BY <1>1, <2>4, <2>5, AnnouncementStays
    <2> QED
      BY <1>3, <2>1, <2>3, <2>6
  <1> QED
    BY <1>4, <1>5 DEF ClaimNotice

LEMMA SendNoticeFollowUp ==
  ASSUME Inv, FollowUp, NEW t \in Threads, NEW mark \in {"SENT", "FAILED"},
         SendNotice(t, mark)
  PROVE  FollowUp'
  <1> USE DEF FollowUp
  <1> DEFINE key == thread[t].everyone
  <1>1. /\ UNCHANGED <<assignment, request, last, crossed, lost>>
        /\ thread[t].at = "notifying" /\ key \in SUBSET Assignments
        /\ notice' = [notice EXCEPT ![key] = mark]
    BY FieldsAreTyped DEF SendNotice, rows, history
  <1>2. ActiveOnes' = ActiveOnes
    BY <1>1, SameAssignmentSameSets DEF SameSets
  <1>3. OthersStay(t) /\ thread'[t].at = "idle"
    BY BecomesJob, IdleIsTyped DEF SendNotice, Finish
  <1>4. /\ notice'[key] = mark
        /\ \A S \in SUBSET Assignments : S # key => notice'[S] = notice[S]
    BY <1>1, InvParts DEF RestTyped
  <1>5. StatusIsOnItsWay'
    BY <1>1, <1>3, StatusStays
  <1>6. PendingNoticesAreInProgress'
    <2> SUFFICES ASSUME ~lost', NEW S \in SUBSET Assignments, notice'[S] = "PENDING"
                 PROVE  \E u \in Threads : /\ thread'[u].at = "notifying"
                                          /\ thread'[u].everyone = S
      BY DEF PendingNoticesAreInProgress
    <2>1. S # key
      BY <1>4
    <2>2. notice[S] = "PENDING" /\ ~lost
      BY <1>1, <1>4, <2>1
    <2>3. PICK u \in Threads : thread[u].at = "notifying" /\ thread[u].everyone = S
      BY <2>2 DEF PendingNoticesAreInProgress
    <2> QED
      BY <1>3, <2>1, <2>3 DEF OthersStay
  <1>7. ActiveOnes \in SUBSET Assignments
    BY DEF ActiveOnes
  <1>8. HandsOn
    <2> SUFFICES ASSUME NEW u \in Threads, WillAnnounce(u)
                 PROVE  \/ notice'[ActiveOnes] \in {"SENT", "FAILED"}
                        \/ \E v \in Threads : WillAnnounce(v)'
      BY DEF HandsOn
    <2>1. CASE u = t
      BY <1>1, <1>4, <2>1 DEF WillAnnounce
    <2>2. CASE u # t
      BY <1>2, <1>3, <2>2 DEF OthersStay, WillAnnounce
    <2> QED
      BY <2>1, <2>2
  <1>9. notice[ActiveOnes] \in {"SENT", "FAILED"} => notice'[ActiveOnes] \in {"SENT", "FAILED"}
    BY <1>4, <1>7
  <1>10. AnnouncementIsOnItsWay'
    BY <1>1, <1>8, <1>9, AnnouncementStays
  <1> QED
    BY <1>5, <1>6, <1>10

LEMMA CrashFollowUp ==
  ASSUME Inv, FollowUp, Crash
  PROVE  FollowUp'
  <1> USE DEF FollowUp
  <1>1. /\ UNCHANGED <<assignment, request, notice, last, crossed>>
        /\ thread' = [t \in Threads |-> Idle]
    BY DEF Crash, rows
  <1>2. lost' = (lost \/ \E t \in Threads : Owes(t))
    BY DEF Crash
  <1>3. CASE \E t \in Threads : Owes(t)
    <2>1. lost'
      BY <1>2, <1>3
    <2> QED
      BY <2>1
      DEF StatusIsOnItsWay, PendingNoticesAreInProgress, AnnouncementIsOnItsWay
  <1>4. CASE ~\E t \in Threads : Owes(t)
    <2>1. ~lost' => ~lost
      BY <1>2
    <2>2. SameSets /\ DerivedStatus' = DerivedStatus /\ EveryoneConfirmed' = EveryoneConfirmed
      BY <1>1, SameAssignmentSameSets, SameSetsSameStatus
    <2>3. \A u \in Threads : /\ ~WillRead(u) /\ ~WillAnnounce(u)
                            /\ thread[u].at # "rewrite" /\ thread[u].at # "notifying"
                            /\ thread'[u].at # "rewrite"
      BY <1>1, <1>4, IdleIsTyped DEF WillRead, WillAnnounce, Owes, Owing
    <2>4. StatusIsOnItsWay'
      <3> SUFFICES ASSUME ~crossed', ~lost'
                   PROVE  request' = DerivedStatus'
        BY <2>3 DEF StatusIsOnItsWay
      <3>1. ~crossed /\ ~lost
        BY <1>1, <2>1
      <3> QED
        BY <1>1, <2>2, <2>3, <3>1 DEF StatusIsOnItsWay
    <2>5. PendingNoticesAreInProgress'
      BY <1>1, <2>1, <2>3 DEF PendingNoticesAreInProgress
    <2>6. AnnouncementIsOnItsWay'
      <3> SUFFICES ASSUME EveryoneConfirmed', last' = "WHATSAPP", ~lost'
                   PROVE  notice'[ActiveOnes'] \in {"SENT", "FAILED"}
        BY DEF AnnouncementIsOnItsWay
      <3>1. EveryoneConfirmed /\ last = "WHATSAPP" /\ ~lost
        BY <1>1, <2>1, <2>2
      <3> QED
        BY <1>1, <2>2, <2>3, <3>1 DEF AnnouncementIsOnItsWay, SameSets
    <2> QED
      BY <2>4, <2>5, <2>6
  <1> QED
    BY <1>3, <1>4

\* Nothing of the follow-up is touched.
LEMMA IdleFollowUp ==
  ASSUME FollowUp, UNCHANGED <<assignment, request, thread, notice, last, crossed, lost>>
  PROVE  FollowUp'
  <1>1. ActiveOnes' = ActiveOnes /\ DerivedStatus' = DerivedStatus
        /\ EveryoneConfirmed' = EveryoneConfirmed
    BY SameAssignmentSameSets, SameSetsSameStatus DEF SameSets
  <1>2. \A u \in Threads : (WillRead(u)' <=> WillRead(u)) /\ (WillAnnounce(u)' <=> WillAnnounce(u))
    BY <1>1 DEF WillRead, WillAnnounce
  <1>3. StatusIsOnItsWay'
    BY <1>1, <1>2 DEF FollowUp, StatusIsOnItsWay
  <1>4. PendingNoticesAreInProgress'
    BY DEF FollowUp, PendingNoticesAreInProgress
  <1>5. AnnouncementIsOnItsWay'
    BY <1>1, <1>2 DEF FollowUp, AnnouncementIsOnItsWay
  <1> QED
    BY <1>3, <1>4, <1>5 DEF FollowUp

LEMMA InitFollowUp == Init => FollowUp
  <1> SUFFICES ASSUME Init PROVE FollowUp
    OBVIOUS
  <1>1. \A u \in Threads : thread[u].at = "idle"
    BY IdleIsTyped DEF Init
  <1>2. StatusIsOnItsWay
    BY <1>1 DEF Init, StatusIsOnItsWay
  <1>3. PendingNoticesAreInProgress
    BY DEF Init, PendingNoticesAreInProgress
  <1>4. AnnouncementIsOnItsWay
    BY DEF Init, AnnouncementIsOnItsWay
  <1> QED
    BY <1>2, <1>3, <1>4 DEF FollowUp

LEMMA NextFollowUp == Inv /\ FollowUp /\ [Next]_vars => FollowUp'
  <1> SUFFICES ASSUME Inv, FollowUp, [Next]_vars PROVE FollowUp'
    OBVIOUS
  <1>1. CASE UNCHANGED vars
    BY <1>1, IdleFollowUp DEF vars, rows, history
  <1>2. ASSUME NEW t \in Threads,
               SendStep(t) \/ AnswerStep(t) \/ DeliveryStep(t) \/ PanelStep(t)
        PROVE  FollowUp'
    BY <1>2, SendFollowUp, AnswerFollowUp, DeliveryFollowUp, PanelFollowUp
  <1>3. ASSUME NEW t \in Threads, FollowUpStep(t) PROVE FollowUp'
    BY <1>3, ReadAssignmentsFollowUp, WriteRequestFollowUp, SurveyEveryoneFollowUp,
       ClaimNoticeFollowUp, SendNoticeFollowUp DEF FollowUpStep
  <1>4. CASE WorldStep /\ ~Crash
    BY <1>4, IdleFollowUp DEF WorldStep, PressButton, WriteAnswer, rows, history
  <1>5. CASE Crash
    BY <1>5, CrashFollowUp
  <1> QED
    BY <1>1, <1>2, <1>3, <1>4, <1>5 DEF Next, WorldStep

\* Until the status of the request agrees with its assignments, some request in
\* progress will read them; until the last confirmation is announced, some
\* request in progress will announce it.
THEOREM FollowUpIsUnderWay == Spec => []FollowUp
  BY InitFollowUp, NextFollowUp, Invariance, PTL DEF Spec

\* The status of the request agrees with its assignments once every request is
\* done, unless two recalculations crossed or a crash cut one.
THEOREM StatusAgrees == Spec => []RequestStatusAgrees
  <1>1. FollowUp => RequestStatusAgrees
    BY DEF FollowUp, StatusIsOnItsWay, RequestStatusAgrees, WillRead, Owes, Owing
  <1> QED
    BY <1>1, FollowUpIsUnderWay, PTL

\* However requests cross, the last confirmation of WhatsApp has been announced
\* once they are done; only a crash loses the notice.
THEOREM LastConfirmationIsTold == Spec => []TheLastConfirmationIsAnnounced
  <1>1. FollowUp => TheLastConfirmationIsAnnounced
    BY DEF FollowUp, AnnouncementIsOnItsWay, TheLastConfirmationIsAnnounced, WillAnnounce,
           Owes, Owing
  <1> QED
    BY <1>1, FollowUpIsUnderWay, PTL

=============================================================================

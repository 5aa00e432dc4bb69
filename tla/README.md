# Lórren: a TLA+ verification project

This directory specifies the core of "Lórren" in TLA+, model-checks it with TLC
on small instances and proves its main safety properties with TLAPS for every
instance. Three parts of the program are covered: the recruitment bot (what
every WhatsApp message of a candidate goes through, what people do to the same
candidate, and the interviews), the attendance of dispatched workers (their
workday and the offline queue of their portal) and the WhatsApp confirmation of
their assignments. Paths in this file are relative to the `src/` of the
repository unless they start with `docs/`, `prisma/` or `test/`.

## 1. The system and its parts

`start.sh` starts four processes on one PostgreSQL database: the HTTP server
(`bootstrap.js`), the job worker, the reminder cron and the billing worker. All
shared state of the server is in the database, but for a few sets kept in the
memory of one process; each process is one Node.js event loop, so what
interleaves is the code between two `await`s. The worker portal adds the
service worker and the IndexedDB of a phone.

| Component | State | Operations | Talks to |
|---|---|---|---|
| Webhook (`routes/webhookController.js`) | none | verify, parse, enqueue, answer 200/500 | job queue |
| Job queue (`services/jobQueue.js`) | `JobQueueItem`: status, attempts, maxAttempts, run_at, unique (type, dedupeKey) | enqueue, claimDueJobs (SKIP LOCKED), completeJob, failJob | webhook, cron, worker |
| Job worker (`workers/jobWorker.js`) | the batch and the job of each tick, in memory | tick (not awaited by setInterval), runJob | all of the bot |
| Message lock (`infrastructure/transport/messageIdempotency.js`) | `WebhookEvent` rows | acquireMessageLock, releaseMessageLock | worker |
| Turn input (`core/middlewares/buildConversationTurnInput.js`) | candidate row, newest outbound row (read) | load or create the candidate, assemble the turn | worker |
| Decision (`core/engine/**`, ten policies) | none: pure | calculateConversationDecision, preventRepeatedReply | worker |
| Executor (`core/shell/executeConversationDecision.js`) | one transaction over `Message`, `Candidate`, consent and bookings | store inbound, review pause, candidate, consent and scheduling effects, notify, reply | all state services |
| Automatic outbound (`services/automaticOutboundDeliveryService.js`) | `Message.rawPayload.delivery` | claim (serializable), send, record | executor, reminders |
| Manual outbound (`services/manualOutboundDeliveryService.js`) | the same rows, and the candidate's pause fields | prepare, send, finalize, restore, mark unknown | admin panel |
| Candidate state (`services/candidateStateService.js`) | `Candidate`: status, pause fields, reminder, profile | compare-and-swap transitions | everyone |
| Consent (`services/consentStateService.js`) | consent status, version, event rows | conditional transitions | executor |
| Interviews (`services/interviewBookingStateService.js`, `modules/interviews`) | `InterviewBooking`, one active per candidate | create, transition, replace | executor, panel, outreach |
| Reminders (`workers/cronReminders.js`) | `Candidate.reminderState`, `InterviewBooking.reminderSentAt` | claim and enqueue | queue, outbound |
| Attendance workday (`modules/dispatch-attendance`) | session, marks and reviews of an assignment | worker's marks; review, clear, delete, edit, add, manual registration | portal, panel |
| Worker portal queue (`public/worker-portal-*.js`, `routes/workerPortalCore.js`) | the marks queue and receipts in the phone | queue, sync passes, expire; handleMark, repetition for the crew | attendance workday |
| Device activation and portal session | device and session rows of a worker | activate, rotate, replace, resolve | portal |
| Dispatch WhatsApp (`services/dispatchWhatsapp*.js`, `routes/dispatchOpsExtras.js`) | `DispatchAssignment`, `DispatchWhatsappConfirmation`, status of the request, notification audit | send, answer, delivery state, panel forms, recalculate, notify, automatic scheduler | provider, panel |
| Payroll, billing, support tickets, biometrics, Meta ads, CV intelligence, views of the panel | their own tables | batch reads, CRUD, scoring, rendering | panel |

How the parts interact: the webhook and the cron write `JobQueueItem` rows and
nothing else a turn reads; the worker turns each row into one turn (build,
decide, execute, deliver); the executor writes candidates, consent and bookings
in the transaction of the turn and calls the automatic outbound service after
it; the panel writes candidates, bookings and messages directly. The phone
posts marks, each with an idempotency key, and the handler writes attendance;
coordination writes the same rows from the panel. The dispatch webhook, the
panel and the scheduler write assignments and confirmation rows. There are no
callbacks between processes: whatever one does for another goes through a row.

Hard behaviours, each listed with its line under `hazards` in `PROJECT.json`:

| Kind | Where it bites |
|---|---|
| interleaving | overlapping ticks (`jobWorker.js:314`); the provider call of a panel send (`manualOutboundDeliveryService.js:391`); an empty list read before an insert (`interviewBookingStateService.js:168`); two passes of the service worker over one queue (`worker-portal-sw.js:624`); last confirmations that cross (`dispatchWhatsappWebhookService.js:391`) |
| crash and partial failure | a worker dies with a batch (`jobQueue.js:54`); the lock is not deleted (`jobWorker.js:249`); sent but not recorded (`automaticOutboundDeliveryService.js:311`, `manualOutboundDeliveryService.js:466`); closing and creating a booking are two statements (`interviewBookingStateService.js:190`); a crew is marked member by member (`registerCrewArrival.js:540`) |
| timeout and retry | a reply accepted by a call that times out (`automaticOutboundDeliveryService.js:302`); a person repeats a send of unknown outcome; a conflict answered with somebody else's booking; a mark recorded whose answer is lost (`workerPortalCore.js:630`) |
| ordering and delivery | the reply before its transaction; two messages of one candidate in two ticks; offline marks late, repeated and in any order (`registerBreak.js:179`); the transaction of a send after the answer to it (`dispatchWhatsappAssignmentService.js:172`) |
| stale state, atomicity | the status, step, capacity or pause a step read some awaits earlier; coordination reads and writes at READ COMMITTED (`attendanceAdminWorkday.js:503`); check and insert of a confirmation request (`dispatchWhatsappAssignmentService.js:121`); a derived status written blindly (`dispatchOperationalCoverage.js:49`) |
| numeric edges | every span of a day is rounded down on its own (`attendanceWorkdayPolicy.js:22`) |
| liveness | a failing job keeps the head of the queue (`jobQueue.js:80`); a refusal the phone does not know (`worker-portal-sw.js:445`) |

Correctness, component by component:

* **Queue and worker.** A job has one holder; a DONE job had its effects
  committed; an acknowledged message is settled unless a tick was lost.
* **Executor and outbound.** At most one reply per message, never before the
  turn is committed; the outbox row tells what became of an owed reply.
* **Manual outbound.** A text is not accepted twice; a send gives back the
  candidate it claimed, and never over a take-over by the panel.
* **Candidate, consent, interviews, reminders.** Transitions are conditional on
  what was read; one active booking; a reminder is not lost without reason.
* **Attendance.** The session tells its marks, the minutes are those of the
  marks, the worker's marks tell one ordered day, and what waits for a reviewer
  is cleared only by one.
* **Portal queue.** A receipt is true, marks keep their order, the queue drains.
* **Dispatch confirmations.** Every asked worker keeps a request to answer; a
  confirmation stands; the last one is announced; the status of the request
  follows its assignments.

## 2. Plan

The order is that of importance: what every message goes through, then what a
person does to the same candidate, then what the conversation is for; then the
attendance of workers and the confirmation of their assignments, which run
beside the bot.

| Stage | Modules | State |
|---|---|---|
| 1 | `OutboundDelivery`, `TurnDelivery`, `InboundPipeline`, `ManualOutbound`, `InterviewBooking`, with MC and proof modules | done |
| 2 | `AttendanceRules`, `Attendance`, `PortalQueue`, with MC and proof modules | done |
| 3 | `DispatchConfirmations`, with MC and proof modules | done |
| 4a | `Consent`: status, version and event row, conditional on what was read; consent turns against the resend from the panel | not done |
| 4b | `Decision`: the fold of the ten policies as a recursive function over a list of partial decisions, against a reference (which policy wins each field) | not done |
| 4c | `CandidateState`: status, vacancy and profile transitions, the inactivity cycle, composed with `InterviewBooking` through `Candidate.currentStep` | not done |
| 5a | device activation and portal session, composed with `PortalQueue`, where a session that is good or not is an input; the queue of crew presences and the modes of a crew arrival | not done |
| 5b | `PayrollConcepts`: the concept engine as pure operators over bounded shifts, against a minute-by-minute reference, on top of `AttendanceRules` | not done |
| 5c | the automatic scheduler of dispatch (its slots and retries), the incident a novelty opens and the deletion of an assignment, on top of `DispatchConfirmations` | not done |
| 6 | theorems for every safety property of the runs, `Attendance` and order in `PortalQueue` included | done |
| 7 | liveness of the reminder path (queue, turn, outbox composed) | not done |

How modules compose: `InboundPipeline` and `ManualOutbound` extend
`OutboundDelivery` (one delivery-state policy, two services); `InboundPipeline`
is shown to implement `TurnDelivery`; `Attendance` extends `AttendanceRules`
(the arithmetic and windows of a day). `PortalQueue` and `Attendance` meet in
the handler of a mark: `PortalQueue` keeps of attendance only who has which
mark under which key, `Attendance` keeps of delivery that a mark comes late,
repeated and in any order. Every component is written the same way: parameters
as constants with named assumptions, one action per operation, an invariant
that is a conjunction of named parts, no `RECURSIVE` operator.

## 3. Modules and code

### OutboundDelivery

The delivery-state policy shared by the two outbound services: the states of
`Message.rawPayload.delivery`, the three ways a provider call goes wrong
(`config`, `rejected`, `uncertain`), what each transport throws for it
(`WhatsAppDeliveryError` of `whatsappClient.js`, the axios error of
`services/whatsapp.js`) and what each service concludes. The conversion of the
error is the point: the two services read the same field of two different
errors.

### InboundPipeline

One thread of control per member of `Ticks`, each in a process (`Host`); the
label `pc[t]` names the next `await`.

| Code | Model |
|---|---|
| `JobQueueItem` | `status`, `attempts`, `queue` (the order of `run_at`, which `failJob` does not touch) |
| `WebhookEvent` lock rows | `lock` |
| `Candidate`, `Candidate.botPaused` | `candidates`, `paused` |
| INBOUND and OUTBOUND `Message` rows | `inbound`, `outbox`, `lastReply` |
| `webhookController` POST, `enqueueInboundMessage` | `ReceiveWebhook`, `EnqueueInboundMessage` |
| `claimDueJobs` | `ClaimDueJobs` (with `Due`: the first of the queue, up to the limit) |
| `acquireMessageLock` | `AcquireMessageLock`, `FindLockTaken`, `AcquireError` |
| `buildConversationTurnInput`, `calculateConversationDecision` | `BuildAndDecide`, `BuildError` |
| `executeConversationDecision`, its transaction | `CommitSilent`, `CommitReply`, `CommitReview`, `CommitReviewMiss`, `Rollback` |
| notification of a manual review | `NotifySupervisor`, `NotifyError` |
| `deliverAutomaticOutboundText` | `ClaimOutbound`, `SuppressOutbound`, `ReplyError`, `SendText`, `SendError`, `MarkDeliveryFailure`, `RecordSent`, `RecordSentError` |
| catch of `runJob` | `ReleaseMessageLock`, `ReleaseError` |
| `completeJob`, `failJob`, the loop of `tick` | `CompleteJob`, `CompleteError`, `FailJob`, `FailJobError` |
| death of a worker | `Crash` |
| pause and resume from the panel | `AdminTogglePause` |

What a policy decides is a choice of `DecisionsFor`: any reply or none, a review
only with a reply, and a repetition exactly when the reply is the newest
outbound row. No code returns a RUNNING job to the queue, so the model has no
such action. `accepted` counts what the provider may have accepted: an uncertain
fault may or may not count. `owed`, `review`, `leaked`, `stranded` and
`lostTicks` are history.

`TurnDelivery` is the abstract specification: a message is admitted once,
answered at most once and only while its turn is open, and closed for good. The
refinement maps `phase` to `TurnPhase` (no row: unknown; PENDING or RUNNING:
open; DONE or FAILED: closed) and `replies` to `accepted`.

### ManualOutbound

One candidate and any number of calls of `deliverManualOutboundText`.
`candidate` is the snapshot the compare-and-swaps compare, all eight fields of
it: `paused`, `mode` (`botResumeMode`), `since` (`botPausedAt`, `botPausedBy`
and `botPauseReason`, which every writer stamps together), `reminder`
(`reminderState` and `reminderScheduledFor`, which every live writer clears with
it) and `out` (`lastOutboundAt`). `row` is the `Message` row of each request;
`clock` gives each write its own stamp.

| Code | Model |
|---|---|
| first duplicate check | `Start` (the rows out of the window then are `ignored`) |
| `prepareManualOutboundDelivery` (one transaction) | `Prepare`, `PrepareRefused` |
| the provider call | `Send`, `SendError` |
| `persistProviderFailure` | `PersistFailure` |
| `finalizeManualOutboundDelivery`, with `finalizeApprovedInterviewOutreachHandoff` for a citation | `Finalize`, `HandoffConflict` |
| a failing last transaction, a dead server | `PersistenceError`, `Crash` |
| `pauseCandidateAutomationFromAdmin`, `resumeCandidateAutomationFromAdmin`, `recordManualWhatsAppOpen` | `AdminPause`, `AdminResume`, `OpenWhatsApp` |
| the panel's forms for a status and for a candidate's data | `EditStatus`, `EditForReview` |
| `claimCandidateDataConsentPromptPendingState` | `ResendConsent` |
| the transaction of a turn: `pauseCandidateAutomationForManualReview`, the fields of `executeConversationDecision.js:563-568`, the end of the conversation at `:589-597` | `BotTurn(t)` |
| `recordCandidateAutomaticOutboundSent` | `AutomaticSent` |
| the vacancy of a campaign is written to its candidate | `AssociateCampaign` |
| the dedupe window passes | `RowAges` |

What the policies decide of these fields (`consentPolicy.js:186-206`,
`vacancyPolicy.js:401-441`) is a choice of `Turn`: a pause, an end, a resume mode
kept, cleared or set to one that waits for an answer ("asking"). Only the pause
compares; the rest is a plain update, which may replace the mark of a claim or
of an explicit pause.

History: `held` (a pause the administrator asked for: "whole", or "displaced"
once something wrote another mode over it), `overruled` (requests whose claim
the panel took away), `rewritten` (requests whose mark in the resume mode
somebody wrote over; with `overruled`, the `Overtaken`), `restated` (requests in
flight when the panel wrote another status) and `cut` (requests without a
stored outcome).

### InterviewBooking

The table of bookings and the conversation step of each candidate, written by
panel requests (`req`), turns of the worker (`turn`) and the cron.

| Code | Model |
|---|---|
| `POST /candidates/:id/interview-assign` | `AssignRead`, `AssignBook`, `AssignConflict`, `AssignRecover`, `AssignReflect`, `ReflectError` |
| `POST .../coordination` | `CoordRead`, `CoordList`, `CoordWrite`; `CoordRevoke`, `CoordCancel` |
| `POST /interviews/:id/status` | `StatusRead`, `StatusWrite` |
| `POST /interviews/:id/delete` | `DeleteRead`, `DeleteRow`, `DeleteReflect`, `ReflectError` |
| a turn of the worker | `MessageTurn`, `InterviewReminderTurn`, `InactivityReminderTurn`, then `CommitTurn` |
| `schedulingPolicy`, `progressionPolicy`, `chatPolicy`, `preventRepeatedReply` | `SchedulingPolicy`, `Effect`, `DecidedReply` |
| `runReminderSweep` | `CronInterview`, `CronInactivity` |
| `InterviewBooking_one_active_per_candidate_idx` | `UniqueIndexAllows` |

The assignment runs in a serializable transaction and is one step; the
coordination runs in the default READ COMMITTED one, so the list it reads first
and the statements that follow are two steps. A transaction is one step from its
first write to its commit: the rows it wrote are locked, and the unique index
makes a conflicting insert wait and then fail. The cron writes the table
directly, not through the state service.

### AttendanceRules

The arithmetic and the windows of a workday (`attendanceWorkdayPolicy.js`, and
`resolveDispatchAttendanceOperationalWindow` with the limits beside it in
`registerArrival.js`), as operators on seconds since the local midnight of the
service date:
`WorkedMinutes`, `UnpaidBreak`, `EffectiveStart`, `OperationalWindow`,
`ArrivalAllowed`, `BreakStartAllowed`, `BreakEndAllowed`, `DepartureAllowed`,
`ValidTimeline`. Rounding is modelled as the code does it, span by span.

### Attendance

One assignment: `session` is its `DispatchAttendanceSession` row, `marks` its
`DispatchAttendanceMark` rows, `pending` and `recognized` what its reviews say
of corrections.

| Code | Model |
|---|---|
| `registerArrival`, `registerDeparture` (serializable, retried) | `RegisterArrival`, `RegisterDeparture`, with `DepartureValidation` |
| `registerBreak` | `RegisterOfflineBreak`; online, `ReadForOnlineBreak` then `InsertOnlineBreak`, because it only inserts and so does not conflict with coordination |
| `reviewAttendanceWorkdaySession`, `reviewAttendanceSession` | `ChooseReview` (reads before the transaction), `OpenArrivalReview` / `OpenWorkdayReview`, `ReviewArrival` / `ReviewWorkday` |
| `clear-`, `delete-`, `edit-`, `addAttendanceWorkdayMark(s)` | `OpenCorrection`, then `ClearMarks`, `DeleteMark`, `EditMark`, `AddMark`, all through `CorrectedSession` (`correctedSessionData`) |
| `registerManualAttendance`, both forms | `OpenManual`, then `RegisterManualWorkday`, `RegisterManualArrival` |
| a transaction that throws or is given up | `Abandon` |

A transaction of coordination is READ COMMITTED: it reads (`Open...`) and later
writes what it decided, whatever happened in between (`Close`). `overlapped`
records that somebody wrote over a state it had not read, `blind` that a day
without an arrival was validated, `touched` that coordination wrote at all.
`CLASSIFIED` stands for ON_TIME and LATE.

### PortalQueue

`queue`, `deferred` and `receipt` are the IndexedDB of the phone; `pass[p]` is
a walk of `syncMarkQueue`; `handler[h]` a request in the server; `day` who has
which mark and under which key.

| Code | Model |
|---|---|
| `queueMark`, a tap with connection | `QueueMark`, `TapOnline` |
| 72 hours pass; `cleanupExpiredData`; `retryNotBefore` passes | `Age`, `CleanUpExpiredData`, `DelayPasses`, `EarlierDelayPasses` |
| `syncMarkQueue`, `syncMarkRecord` | `StartPass`, `ExpireRecord`, `SendRecord`, `TakeAnswer` (with `Settle` and `EndsPass`), `PassIsOver` |
| network and service worker faults | `NetworkError`, `KillPass` |
| `handleMark`, `registerCrewMarkForLeader` | `RefuseMark`, `ReceiveMark` (with `Precheck`), `MarkLeader` (with `Outcome`), `MarkMember`, `FailRequest`, `CrashRequest` |
| the session of the portal | `SessionEnds`, `ReactivateSession` |

What the server asks of a mark beyond its place in the day changes between two
requests of one key: the assignment and its window (`workerPortalCore.js:617-623`,
`workerPortal.js:785-794`), the geofence (`workerPortal.js:818-825`), the
delegation of the crew (`workerPortalAssignments.js:423`). It is looked at on
every request before the key is, and again in the transaction. `RefuseMark` and
`MarkMember` may therefore refuse any request whatever earlier requests of its
key were told: with a status the phone knows ("rejected") or with one it does
not ("unlisted": 409 `break_before_arrival`, `crew_group_not_available`,
`crew_group_online_required`).
`refused`, a history, keeps the keys one of whose requests ended so.

### DispatchConfirmations

The assignments of one request. `link` are the `DispatchWhatsappConfirmation`
rows; `thread` is the HTTP request each of the concurrent handlers serves, its
`at` naming the next `await`.

| Code | Model |
|---|---|
| `sendDispatchWhatsappMessage` | `ValidateSend`, `CreateLink`, `ProviderAccepts`, `CommitSend`, `FailSend` |
| `processDispatchWhatsappInboundMessage`, `findConfirmationTarget` | `PressButton` / `WriteAnswer` (the worker), `Deliver` with `Candidate` and `Target` |
| `claimDispatchAssignmentConfirmation`, `-Novelty` | `CheckAnswer` (its reads), `ClaimConfirmation` / `ClaimNovelty` (its writes), `SettleConfirmation` |
| `recalculateDispatchServiceRequestStatus` | `ReadAssignments`, `WriteRequest` with `DerivedStatus` |
| `sendDispatchAllConfirmedAdminAlert` | `SurveyEveryone`, `ClaimNotice`, `SendNotice` |
| `processDispatchWhatsappProviderStatus` | `ReadDelivery`, `WriteDelivery` |
| forms `/asignaciones/confirmar`, `/no-confirmado`, `/assign` | `MarkAssignment`; `CheckAssign`, `ReadExisting`, `WriteAssign` |
| the server process dies | `Crash` |

The transaction after a send is one step: it reads nothing before it writes, and
it holds the rows it writes until it commits. The claim of an answer reads first,
at READ COMMITTED, and is cut between its reads and its writes. `last`, `crossed`
and `lost` are history: who changed an assignment last, whether two
recalculations were open at once, whether a crash cut one.

The deactivation of a worker
(`dispatchWorkerDeactivationAnalytics.js:89-109`) refuses or cancels the worker's
assignments and recalculates their requests, as `MarkAssignment` does with one.

## 4. Runs

| Run | Instance | States | Question |
|---|---|---|---|
| `PipelineRetries` | 1 message, 2 fair ticks in 2 processes, 3 attempts, 1 lost tick, 2 replies | 34,821 | one reply at most, after its commit; queue and outbox tell the truth; every step refines `TurnDelivery`; an acknowledged message is settled unless a tick was lost with it |
| `PipelineOverlap` | 2 messages of one candidate, 2 ticks, batches of 2, 1 lost tick | 350,839 | one holder per job; the inductive invariant |
| `PipelineHeadOfLine` | 2 messages, 1 fair tick, one job per claim, 3 attempts, 1 lost tick | 20,453 | a failing job at the head does not starve the next |
| `ManualSends` | 3 requests (two equal texts, a citation), 1 event of the panel, the bot or a crash | 1,462,707 | people, panel and bot on one candidate |
| `Agenda` | 1 candidate, 3 requests, 3 bookings, 1 message, a slot and no slot | 627,767 | one active booking, legal transitions, no place lost, reminders |
| `Attendance` | 2 marks of the worker (arrival, start of break or departure), 1 coordinator, 2 moments, 1 form or mark by hand | 538,528 | session, marks and minutes agree; reviews are not bypassed; the inductive invariant |
| `WorkerMarks` | 4 marks of the worker of any type, 4 moments, nobody in coordination | 613 | the worker's marks tell one ordered day |
| `CrossingPasses` | leader and 1 member, 2 passes, 2 requests, 2 records, 1 fault, conditions refuse members only | 1,130,066 | receipts, order, crew; the inductive invariant |
| `QueueDrains` | a worker without a crew, 1 pass, 1 request, 2 records, either of which may grow too old and be refused for its conditions, in both ways, 1 fault | 313,546 | the queue empties; what is shown rejected |
| `Confirmations` | 2 workers (one to ask, one who said no), 2 answers, 2 requests at once, 2 rows, 1 form, crash or repeated delivery | 992,255 | confirmations stand and are announced; the request's status |
| `FindSecondDeparture`, `FindRepeatedMark` | the smallest that shows it | | section 7: TLC violates the property |

What the properties say, in the words of the code:

* `AtMostOneReply`: with retries, overlapping ticks, repeated deliveries,
  crashes and uncertain sends, the claim of the outbox row keeps the provider
  from accepting two replies of a turn.
* `DoneTurnsWereCommitted`, `RepliesFollowCommits`,
  `OwedRepliesAreAccountedFor`: the queue row, the transaction and the outbox
  row agree. The one exception is a lock that an earlier attempt could not
  delete (`leaked`), see Known divergences.
* `ReviewsGoSilentOnlyAfterAFailure`: a review that pauses the bot is announced
  to the supervisor, unless an attempt failed between the two.
* `ExclusiveTurns`, `RunningJobsAreHeldOrStranded`: SKIP LOCKED and the status
  give every job one holder; a tick that is lost strands its batch for good.
* `AckedTurnsSettle`: locks, retries and the order by `run_at` cannot hold a
  message up for ever; only a lost tick can.
* `OneSendAtATime`, `TextsAreSentOnce`: the claim of the candidate serialises
  people, and the dedupe window catches a repeated text even when both requests
  passed the first check, until the panel takes the candidate over or a bot turn
  or the campaign sync writes over the mark of the claim.
* `ExplicitPausesLast`: whatever becomes of a send, the bot stays paused until
  the panel resumes it, under the explicit mode unless a writer that compares
  nothing displaced it.
* `ClaimsAreGivenBack`, `OverruledRequestsKeepOff`: a send gives back what it
  took, and leaves alone a candidate somebody took away from it. A claim stays
  behind when its outcome could not be stored, or when the bot meanwhile moved
  `lastOutboundAt` or ended the conversation, which makes the compare miss.
* `CitationsStickOnlyToExplicitPauses`: a citation that was sent does not leave
  the candidate as its claim left it, but over an explicit pause, another status
  from the panel, or a last transaction that failed.
* `OneActiveBooking`, `AssignedAsAsked`, `TransitionsAreLegal`,
  `RescheduledAreReplaced`: two isolation levels, the unique index, the
  recovery of a conflict and the compare-and-swap on the status, together.
* `RemindersAreDisplacedOnlyByOffersAndRepetition`: a reminder that was queued
  is sent, whatever the panel does meanwhile, but in two cases.
* `SessionTellsTheMarks`, `WorkedMinutesComeFromMarks`, `CompletedDaysAreWhole`:
  one row derived by a dozen writers from the rows of the marks, at READ
  COMMITTED; they hold while nobody wrote over what it had not read.
* `WorkersDoNotValidate`: no later mark of the worker clears what waits for a
  reviewer. `WorkersTimelineIsOrdered`: whatever comes late or twice, a day has
  one arrival first, and no break ends before it starts.
* `ReceiptsAreTrue`, `MarksKeepTheirOrder`, `LeadersAreMarkedFirst`,
  `RejectedMarksAreNotKept`, `QueueDrains`: passes cross, answers are lost and
  requests repeated, and the phone still tells the worker the truth, sends marks
  in order, and keeps none for ever. What is shown rejected is not on the server,
  unless the answer to the mark changed between two of its requests, in one of
  the ways that `RejectedMarksAreNotKept` names: see section 6.
* `Inv` of `DispatchConfirmations` holds `SomeRequestStaysAnswerable`: crossing,
  failing and dying sends never leave a worker with superseded requests alone.
* `OnlyThePanelTakesBack`, `TheLastConfirmationIsAnnounced`,
  `RequestStatusAgrees`: an answer, a late send, a delivery state, a form and
  the recalculations that follow them, in any order.

Each property has a mutant in `PROJECT.json`: the operator named "Faulty
variant" before a definition, put in its place, makes TLC violate the property.

### Bounds, and why they are enough

* `MaxAttempts` is 3 where retries matter: a first attempt that fails half-way,
  a second that meets what it left, and the last one. The code's default is
  larger and changes nothing in between.
* `MaxLostTicks` is 1: a lost tick leaves a stranded job or lock that nothing
  touches again, so a second loss repeats the first on another job.
* `ClaimLimit` is 1 or 2 for the code's 20: what matters is whether it is
  smaller than the queue (`PipelineHeadOfLine`) or not (`PipelineOverlap`).
* Two ticks and two messages: the races are over one lock, one queue row, one
  outbox row or one candidate, between two holders.
* In `ManualSends`, `MaxEvents` is 1 per behaviour, at any await of any of the
  three requests, so every writer meets every state of a send; two writers on
  one send are left to the proofs, which have no such bound. Each request is
  used once, a repetition being another request with the same `Body`.
* `MaxBookings` 3, `MaxTurns` 1, three requests: a booking, its replacement and
  one more, with two writers and a turn between them. A candidate has one turn
  under way in `InterviewBooking`: the overlap of two turns is the question of
  `InboundPipeline`. `Complete` (who has no pending fields) is fixed.
* In `ManualOutbound` two writes never get the same stamp. The code compares
  millisecond timestamps together with actor and reason.
* `Attendance`: two marks of the worker and one by hand make a day that a form
  completes; two moments, one before the planned start (with half a minute, so
  that rounding shows) and one near the planned end. Whole days of the worker
  and the worker's ends of breaks are in `WorkerMarks`; here only coordination
  makes those. One coordinator suffices for the races with the worker;
  a second one only sets `overlapped`, under which the properties claim nothing.
* `CrossingPasses` lets no mark grow old (`MaxOld` 0) and refuses none of the
  worker's for its conditions (`MaxRefused` 0, `Refusals` only for the members):
  there a mark is refused for its place in the day, while a repetition and its original are in the server together
  (`RefusalsHaveReasons`, a conjunct of `Inv`, is what `RejectedMarksAreNotKept`
  follows from). `QueueDrains` has the age of both marks and both refusals, at
  any request of either (`MaxRefused` counts marks, not requests), and leaves the
  crew to `CrossingPasses`; its one request is over before the next is sent, and
  everything at once is left to the proofs, which have no bound. Two records
  show order and overtaking; two passes and two requests show every crossing of
  a repetition with its original; a second fault repeats the first.
* `Confirmations`: two rows are a request and the one that supersedes it; two
  HTTP requests at once are every pair of handlers; two answers are a novelty
  and a confirmation or two confirmations. `MaxEvents` is 1 in each behaviour:
  a form before, between or after them, which is what brings the second worker
  in, or a crash, or a repeated delivery; that one of these follows another is
  left to the proofs, which cover every property of the run. The request has
  two places, so both the partial and the complete status appear. DELIVERED
  stands for the delivery states; the rank of the others is left to the proofs.

## 5. Fairness

`InboundPipeline`. `FairSpec` assumes weak fairness of `ClaimDueJobs(t)` and
`Turn(t)` for each tick and nothing else. The code justifies it: `setInterval`
starts a tick every `POLL_MS` whatever became of the earlier ones; the calls to
the provider, to the media service and to the LLM have a timeout
(`whatsappClient.js:132`, `whatsappMediaService.js:94`, `openaiAdapter.js:139`,
`extractRecruitmentTurn.js:164`) and a database statement answers or fails.
Every step has its failing twin in `Turn`, so fairness never makes a call
succeed; Meta, the administrator and the crash of a process are under no
fairness. A lost tick does strand its jobs: `AckedTurnsSettle` excepts them by
name (`stranded`), and `RunningJobsAreHeldOrStranded` says that only they are.

`PortalQueue`. `FairSpec` assumes weak fairness of each pass (Background Sync
is registered with every queued mark and starts again until the queue is
empty), of each request in the server (it answers, fails or times out) and of
`Age` (72 hours pass). Nothing is assumed of the network, of the server's good
will, of a session coming back or of a delay passing before the age does; the
bound on faults does not help either, since expiry alone empties the queue.

## 6. Proofs

TLAPS proves, for every value of the constants allowed by the named
assumptions, the theorems below. TLC evaluates the assumptions in the runs and
has checked each inductive invariant first.

| Module | Assumption | Theorems |
|---|---|---|
| `InboundPipeline_proofs` | `PipelineAssumption` | `Invariance`, `TypeCorrect`, `ReplySafety`, `MutualExclusion`, `NoJobIsForgotten`, `DoneTurnsAreSettled`, `ReviewsAreTold`, `CommitBeforeReply`, `Refinement` |
| `ManualOutbound_proofs` | `ManualAssumption` | `Invariance`, `TypeCorrect`, `SendsExcludeEachOther`, `NoTextTwice`, `PausesLast`, `ClaimsReturn`, `TakeOversStand`, `CitationsAreRecorded` |
| `InterviewBooking_proofs` | `AgendaAssumption` | `Invariance`, `TypeCorrect`, `OneBookingEach`, `AssignmentsAreHonest`, `LegalTransitions`, `NoPlaceIsLost`, `RemindersGoOut` |
| `AttendanceRules_proofs` | none | `WorkedMinutesAreBounded`, `BreakAndWorkShareTheSpan`, `RecognitionCostsAtMostAMinute`, `LaterDepartureNeverCosts`, `DepartureAtThePlannedEnd` |
| `Attendance_proofs` | `AttendanceAssumption` | `AttendanceInvariant`, `SessionsAreTrue`, `MinutesAreTrue`, `CompletedMeansWhole`, `WorkersTellOneDay`, `OnlyCoordinationValidates` |
| `PortalQueue_proofs` | `PortalQueueAssumption` | `QueueInvariant`, `ReceiptsStayTrue`, `CrewFollowsItsLeader`, `NoMarkOvertakes`, `RefusalsAreSound` |
| `DispatchConfirmations_proofs` | `DispatchAssumption` | `Invariance`, `WorkersKeepARequest`, `ConfirmationsStand`, `FollowUpIsUnderWay`, `StatusAgrees`, `LastConfirmationIsTold` |

**InboundPipeline.** `AtMostOneReply` is not inductive: a tick about to send
must know that its turn was not answered. `OutboxInv` says what an outbox row
tells of `accepted` and ties a tick in "send", "mark" or "record" to its own
SENDING row; for that the tick must be the only one on the message, which is
`JobsInv` (one holder, RUNNING, not stranded) on top of `TicksInv` (a tick in a
job holds it apart from its batch). `LocksInv` says why a lock may stand without
a running turn (leaked, stranded, or the turn is settled); without it a retry
that finds its lock taken could complete an unfinished job. `ReviewsInv` follows
a review pause in its first attempt: until the turn is over the tick is about to
notify, to release the lock or to fail the job, so only a failed attempt can end
it without the notice. `Refinement` takes `Inv` on both sides of a step and maps
each step to `Admit`, `Answer`, `Close` or a stutter.

**ManualOutbound.** The compare-and-swap compares a snapshot, and a snapshot can
come back when a rejected send restores an older one. `StampsInv` (stamps grow,
no two claims share one) with `OwnersInv` exclude the A-B-A: until a request is
overtaken the mode and the stamp in the candidate are those of its claim, though
`lastOutboundAt` and the reminder may not be, so that its compare may miss; once
it is overtaken nothing makes the snapshot its claim again. The lemma `LostStays`
carries the second half: a writer of the mode writes one that no claim has, and a
later claim has a later stamp. `PausesInv` says what a claim can have found,
`RequestsInv` relates the program counter, the row and the acceptance, and
`TextsInv` that an equal text claimed later found the earlier one rejected, too
old or overtaken. `CitationsInv` gives the hand-off what it compares: while the
snapshot is the claim of a citation whose status nobody wrote, that status is
APROBADO.

**InterviewBooking.** Every action is first reduced to one of four kinds of step
of the table (no change, one row rewritten along the matrix, the active bookings
cancelled, a booking created while the others close), which carry
`OneActiveBooking` and both action properties. `RequestsInv` keeps, for a
request between two steps, the facts about the booking it waits for.
`RemindersInv` says that what a reminder turn decided, some steps before its
commit, can only be the reminder, its repetition or an offer of slots to a
candidate with nothing pending.

**AttendanceRules.** Arithmetic over all integers, not bounded inputs: worked
minutes lie between zero and the gross span, and add up to it with the unpaid
ones; rounding each span on its own can cost at most one minute when an early
arrival is recognized; a later departure is never worth less; a departure at
the planned end is always inside the window.

**Attendance.** `Inv` has three layers, each on its own condition. Always: a key
has one mark (`KeysInv`) and a workday review saw a departure (`WorkdayInv`).
While nobody wrote over what it had not read: the session is what its marks tell
(`Told`) and an online break that was read can still be inserted (`BreakFits`),
the one fact that the transaction of a break, which conflicts with nothing,
leans on. While coordination wrote nothing: the marks are one ordered day
(`WorkersDay`). The session keeps maxima over its marks, so every step that adds,
moves or deletes one needs that a finite set of moments has its maximum and how
it changes; those lemmas come first. `WorkdayInv` is what makes a day that a
review completes whole: the review writes over the session, and only the
departure it read tells that the minutes will be there.

**PortalQueue.** A receipt says what an answer said, and an answer what the
server had when it was given. `IInv` follows that chain: keys are known before
they are used, a pass that waits has its request, a mark carries the key of a
request that was made, an answer is true when given, and marks are never taken
away; so a receipt that came by any pass is true, whichever pass wrote last.

Order (`OrderInv`) rests on when a mark is `Settled`: on the server, with a
receipt, or too old. A pass has in its list everything unsettled before each of
its records; so when it sends one, all before it is settled, and settled it
stays, however long the request lingers in the server; hence nothing overtakes
(`MarksKeepTheirOrder`).

That a refusal is sound is harder, because a request may outlive the answer of
its twin. With one request in the server the exceptions are a mark that was too
old and a break repeated after the departure. With two, TLC found a third: a
start of break is refused because there is no arrival, the worker then marks
the arrival online, and a second, delayed request of the same key records the
break that the phone shows as rejected. `InPlace` leaves out a mark whose
predecessor was queued after it, was too old, or was made online by a tap whose
moment the model does not keep; an arrival that was there before the queue
counts as in place. `Reason` is the invariant: every refusal keeps a reason that
no later step takes away, and a mark refused for lack of an arrival or of a
start of break is kept only if what was lacking came later; `DayBegins` says what
any recorded mark has passed. A mark that was refused for its conditions may be
kept: the conditions were others when an earlier or a later request looked. Such
marks join those that were too old in `Hindered`, which the theorem excepts, as
it does a mark whose predecessor is one of them. What it leaves is that lost
answers, repetitions and crossing passes alone never make a kept mark rejected.

**DispatchConfirmations.** `SomeRequestStaysAnswerable` is inductive once each
open request is known to work on a row of its own assignment
(`RequestsOwnTheirLinks`, `RowsAreFreshBeyondCreated`): a row is superseded only
in the step that makes another SENT. The three properties of what follows a
change speak of the moment when everything is done, so `FollowUp` says who still
brings it about: the status is right or some request will read the assignments
again or is about to write the status they give (`StatusIsOnItsWay`); a pending
notice is being sent (`PendingNoticesAreInProgress`); the notice was tried, or a
request will still look and find everyone confirmed (`AnnouncementIsOnItsWay`).
Without the middle part, a claim refused because of a pending notice would end
the last request without anybody sending it.

Only model-checked: liveness under fairness (`AckedTurnsSettle`,
`QueueDrains`), which the prover does not reach, and the two properties that
the code violates, which have no proof. Every other property of the runs has a
theorem. The theorems have no bound on messages, ticks, requests, passes or
moments; where a constant bounds a counter (`MaxFaults`, `MaxEvents`,
`MaxManual`), it is any natural number.

## 7. Findings

Each is a run that TLC ends with a counterexample; `PROJECT.json` quotes both
sides.

1. `FindSecondDeparture`: a worker can depart twice. A correction of a break
   hides the departure of a finished day (`attendanceAdminWorkday.js:369-384`)
   and leaves its mark; `registerDeparture.js:215` asks only for the field of
   the session, so a second request inserts a second mark.
   `docs/architecture/20_portal_auxiliar_salida_horas_netas.md:17` rules out
   "una segunda salida".
2. `FindRepeatedMark`: a departure or a break whose answer was lost is repeated
   with its key and is answered 409, because `workerPortalCore.js:628-641` looks
   at the assignment before the key; the same document promises that the same
   key reproduces the result. When the first request failed between two members
   of a crew, the repetition does not mark those that were left.

### Known divergences

What the models also show. The properties name these cases where they bear on
them, and no property is kept for the rest, since it would only restate the code.

Recruitment bot:

* **Leaked lock.** When the delete of the lock fails (`jobWorker.js:249`), the
  retry takes the lock for a finished turn and the job ends DONE without one
  (`leaked`).
* **Rejections of automatic replies.** `providerFailureState` reads
  `error.response.status` and `WhatsAppDeliveryError` has only `.status`, so a
  reply Meta refuses with 4xx is recorded UNKNOWN, never FAILED, and is not
  tried again.
* **Paused candidates are answered.** Nothing on the inbound path reads
  `botPaused`; `shouldBlockAutomation` (`botAutomationPolicy.js:486`) has no
  live caller.
* **Silent reviews.** The review pause commits, the notification fails, the
  retry misses the compare-and-swap and returns
  (`ReviewsGoSilentOnlyAfterAFailure` names the case).
* **Stuck citations.** A citation over an explicit pause is sent and its last
  transaction always rolls back (`CitationsStickOnlyToExplicitPauses`).
* **Doubts nobody reviewed.** A text whose outcome is in doubt blocks the
  candidate until a person reviews it, says
  `docs/architecture/state-authority-map.md:37`. The block is the resume mode
  alone (`candidateStateService.js:265-269`), and a turn writes the mode its
  policies decided without comparing anything
  (`executeConversationDecision.js:564`): the next text leaves unreviewed.
* **Claims written over.** The same plain update during a send replaces the mark
  of the claim: a second request claims and sends while the first is in flight,
  and may send the same text (`rewritten` in `OneSendAtATime` and
  `TextsAreSentOnce`). The campaign sync does so too.
* **Explicit pauses displaced.** The update also replaces the mode of an explicit
  pause. The candidate stays paused, but a later send no longer finds the mode
  that it puts back (`test/manualOutboundDeliveryService.test.js:212`) and leaves
  the pause the next inbound lifts (`displaced`).
* **Claims left behind.** A turn that ends its conversation, or its reply, moves
  a field the release compares: the send ends SENT or FAILED and the candidate
  stays "sending" until the panel takes it over. After a developer's edit that
  leaves the candidate to a person, the mode "sending" is nobody's claim.
* **Status over a claim.** The form for a status looks at the resume mode and
  then writes (`admin.js:2755-2759`): a send may start in between, and a citation
  then meets a status its hand-off refuses (`restated`).
* **Overbooking.** The transaction that books counts nothing: two assignments
  may take the last place of a slot (`admin.js:2656`).
* **Reminders replaced.** The reminder of a booking made by coordination becomes
  an offer of slots (the step is not SCHEDULED), and one after another reminder
  is a repetition to the guard and becomes the hand-off text
  (`calculateConversationDecision.js:184`);
  `RemindersAreDisplacedOnlyByOffersAndRepetition` says that there is no third
  case.
* **Repetition guard.** The guard compares with the newest OUTBOUND row
  whatever its state (`buildConversationTurnInput.js:457-459`): a reply that was
  never accepted counts as said, and the retry of its own turn may be answered
  with the hand-off text.
* **Step after a deletion.** `admin.js:2589` writes the step after the
  transaction, guarded by the step value alone: a candidate booked again in
  between, with the same step, is moved back to SCHEDULING.
* **Closed bookings are reminded.** The reminder turn reads no booking
  (`cronReminders.js:57` enqueues it while the booking is active).
* **Confirmations of interviews are not recorded.**
  `handleInterviewReminderResponse` (`reminder.js:606`) has no live caller.
* **Slots cannot be chosen by number.** `pending.actions` is always empty
  (`buildConversationTurnInput.js:495`), so `reserve_slot` is never decided and
  the bot itself books nothing.

Attendance and portal:

* **Validation without an arrival.** A workday review accepts a session whose
  arrival was cleared; the missing arrival is read as the epoch (`blind`).
* **Arrival again.** After the deletion of its ARRIVAL mark a departed session
  takes a new arrival and stays departed.
* **Hidden departures.** A manual form with a BREAK_END and no BREAK_START,
  then an edit, leaves the departure hidden with nothing pending.
* **Marks come back.** A repeated delivery after a mark was cleared or deleted
  records it again: the key went with the row.
* **Rounding.** Each span of a day is rounded down on its own, so recognizing an
  early arrival may cost a minute.
* **Two passes.** `syncNow` starts a pass by Background Sync and another by
  message with no lock; a late put of SYNCING may bring back a record that was
  finished. The mark is then sent again and answered from its key.
* **Marks that disappear.** `cleanupExpiredData` deletes a mark that grew too old
  without a receipt; `docs/` says a record leaves the queue only when the server
  confirms it.
* **Unlisted refusals.** A 4xx that the phone does not list (409
  `break_before_arrival`, `crew_group_not_available`,
  `crew_group_online_required`) keeps the mark pending without delay and holds
  the marks behind it until it expires.
* **Refused, then recorded.** A delayed second request of a mark that was
  refused for lack of an arrival records it when the arrival was made in
  between; the phone keeps showing it as rejected (`InPlace`).
* **Refused, though kept.** The answer of a mark that was recorded is lost, its
  conditions change (the assignment closes, coordination moves the geofence), and
  the repetition is refused before its key is looked at; the phone shows as
  rejected what the server kept (`refused` in `RejectedMarksAreNotKept`).
* **Crew presences.** Any 400, 404 or 409 ends the whole bundle of a crew as
  rejected (`worker-portal-sw.js:270`).

Dispatch confirmations:

* **Delivery states.** The webhook reads the status of a row and writes by id
  (`dispatchWhatsappWebhookService.js:440`), so a state that crosses an answer
  overwrites CONFIRMED or EXPIRED, and a novelty, which has no rank, is always
  replaced. `test/dispatchWhatsappRuntimeContracts.test.js:173` tests the
  sequential case. The assignment keeps its confirmation.
* **A send over an answer.** `CommitSend` writes SENT on its own row whatever it
  was, and supersedes another row in CONFIRMED_REPLY_PENDING.
* **Repeated reports.** The duplicate check looks for the message id of the last
  answer of each row: an older novelty delivered again after a newer one counts
  again, and two deliveries at once open two incidents.
* **Stale request status.** Two recalculations that cross may leave the older
  result (`RequestStatusAgrees` excepts `crossed`).
* **Who is told.** The notice that everyone confirmed is sent only when WhatsApp
  brings the last confirmation, not when the panel does; a crash loses it, and a
  failed notice waits for the next confirmation, which may never come. The
  completion e-mail of the webhook is asked for without `manual` and is never
  sent.
* **Asked again.** A worker reactivated with a CONFIRMED row is not asked by the
  scheduler, and a button of the old request is ignored.
* **Quoted answers.** A written answer that quotes an already confirmed request
  falls back to the newest open row of the phone and may confirm another
  assignment.

## 8. What is not modelled

* A statement that fails and yet took effect (a commit whose answer is lost).
  A process may die right after any statement, which covers the same states
  except for a caller that goes on to handle the error.
* The end of a tick (`ensureSupervisorWindowOpen`, the window reminders of
  dispatch): it runs after the batch and touches none of the modelled rows.
* Job types other than the inbound message, the legacy dispatchers of
  `services/reminder.js` and the similarity window of callers without an
  idempotency key: nothing enqueues or calls them on the modelled paths.
* Writers of the pause fields that nothing calls, and those equal to one that is
  modelled: the interview reminder and the message that keeps a conversation
  alive write `lastOutboundAt` as `AutomaticSent` does.
* The content of messages, profiles and documents, the LLM and the parser:
  inputs chosen freely.
* Vacancies with scheduling disabled, consent (accepted throughout the agenda)
  and the step DONE: constants of the models.
* Attendance: the decision on a failed attempt
  (`resolveAttendanceFailureDecision`), punctuality labels, evidence (an input:
  trusted or not), the geofence (in `PortalQueue`, one of the conditions of
  `RefuseMark`); the presence, manual and targeted modes of a crew
  arrival, which can mark a member without the leader, and the queue of crew
  presences; the activation of devices.
* Dispatch: the automatic scheduler and auto-assignment, the incident of a
  novelty, deletion and creation of assignments, the lapse of a request, the
  monitor, other requests of the same coordinator on one day, and a database
  error in the middle of one request that leaves the others alone (`Crash` ends
  them all).
* Payroll, billing, tickets, biometrics, ads, CV intelligence and the views of
  the panel: other subsystems, with the reason under `components`
  in `PROJECT.json`. Most of the repository by lines is of this kind: routes
  that render, queries, scoring and calls to services, where no state changes
  hands.

## 9. Running it

    tlc -workers 2 -config PipelineRetries.cfg MCInboundPipeline.tla
    tlc -workers 2 -config ManualSends.cfg MCManualOutbound.tla
    tlc -workers 2 -config Agenda.cfg MCInterviewBooking.tla
    tlc -workers 2 -config Attendance.cfg MCAttendance.tla
    tlc -workers 2 -config CrossingPasses.cfg MCPortalQueue.tla
    tlc -workers 2 -config Confirmations.cfg MCDispatchConfirmations.tla
    tlapm InboundPipeline_proofs.tla

`PROJECT.json` names the module and configuration of every run, the property
and faulty variant of every mutant, and the lines of the source behind every
definition.

---------------------------- MODULE InboundPipeline ----------------------------
(***************************************************************************)
(* The inbound pipeline of the recruitment bot.  Meta posts a message to   *)
(* the webhook; the webhook stores it in JobQueue before it answers 200;   *)
(* every POLL_MS the worker starts a tick, which claims due jobs and, one  *)
(* after the other, locks the message id, computes the conversation        *)
(* decision, commits its effects in one transaction and delivers the reply *)
(* through the outbox of automaticOutboundDeliveryService.                 *)
(*                                                                         *)
(* setInterval does not wait for the previous tick, so ticks overlap: each *)
(* member of Ticks is one thread of control.  Between two awaits of a tick *)
(* every other process may take steps, the database may fail a statement,  *)
(* and the process of the tick may die.                                    *)
(*                                                                         *)
(* A failed statement had no effect; a process may die right after one     *)
(* that had.  Turns that the cron worker enqueues ("system:..." ids) take  *)
(* the same path and are ordinary members of Messages.                     *)
(***************************************************************************)
EXTENDS Naturals, Sequences, FiniteSets, OutboundDelivery

CONSTANTS
  Messages,     \* WhatsApp message ids (payload.messageId)
  Candidates,   \* Candidate rows, one per phone number
  Sender,       \* [Messages -> Candidates], payload.from
  Ticks,        \* concurrent executions of tick()
  Processes,    \* worker processes
  Host,         \* [Ticks -> Processes], the process that runs a tick
  Directives,   \* identities of the replies the policies can decide on
  MaxAttempts,  \* JobQueueItem.maxAttempts
  ClaimLimit,   \* the limit of claimDueJobs
  MaxLostTicks, \* bound: how many times ticks are lost to a crash or to failJob
  NoMessage     \* no job in hand

Silence == "silence"          \* the decision carries no reply
HandoffText == "handoff text" \* the fixed text of preventRepeatedReply
NoReplyYet == "no reply yet"  \* no outbound row exists for the candidate

ASSUME PipelineAssumption ==
  /\ Sender \in [Messages -> Candidates]
  /\ Host \in [Ticks -> Processes]
  /\ MaxAttempts \in Nat \ {0}
  /\ ClaimLimit \in Nat \ {0}
  /\ MaxLostTicks \in Nat
  /\ NoMessage \notin Messages
  /\ Directives \cap {Silence, HandoffText, NoReplyYet} = {}

VARIABLES
  \* PostgreSQL
  status,      \* JobQueueItem.status by message, "NONE" before the row exists
  attempts,    \* JobQueueItem.attempts
  queue,       \* the messages in the order of their run_at
  lock,        \* message ids with a WebhookEvent row
  candidates,  \* Candidate rows that exist
  paused,      \* Candidate.botPaused
  inbound,     \* turns whose INBOUND Message row is stored
  outbox,      \* delivery state of the newest outbound row of a turn
  lastReply,   \* identity of the newest outbound row of a candidate
  \* the worker
  pc, cur, batch, plan,
  fault,       \* what the send of the tick threw, while it is being handled
  \* the world outside
  acked,       \* messages the webhook answered with 200
  accepted,    \* [Messages -> Nat], replies of a turn the provider accepted
  \* history
  owed,        \* turns whose last committed decision calls for a reply
  review,      \* by turn: no manual-review pause, one applied, supervisor told
  leaked,      \* turns whose lock survived a failed attempt
  stranded,    \* jobs left RUNNING by a lost tick
  lostTicks    \* how many times ticks were lost

dbVars == <<status, attempts, queue, lock, candidates, paused, inbound,
            outbox, lastReply>>
tickVars == <<pc, cur, batch, plan, fault>>
worldVars == <<acked, accepted>>
historyVars == <<owed, review, leaked, stranded, lostTicks>>
jobVars == <<status, attempts, queue>>
turnVars == <<candidates, paused, inbound, outbox, lastReply>>
vars == <<dbVars, tickVars, worldVars, historyVars>>

JobStatus == {"NONE", "PENDING", "RUNNING", "DONE", "FAILED"}
ReplyIdentities == Directives \cup {HandoffText}

(***************************************************************************)
(* What calculateConversationDecision returned, as far as the shell tells  *)
(* decisions apart: the reply the policies chose, whether the repetition   *)
(* guard replaced it, and whether the turn asks for a manual review.       *)
(***************************************************************************)
Decision == [directive : Directives \cup {Silence}, repeated : BOOLEAN, review : BOOLEAN]

NoPlan == [directive |-> Silence, repeated |-> FALSE, review |-> FALSE]

ReplyIdentity(decision) ==
  IF decision.repeated THEN HandoffText ELSE decision.directive

(***************************************************************************)
(* Where a tick stands.  "idle": between ticks; "loop": about to take the  *)
(* next job of its batch; the other values name the next await of runJob,  *)
(* executeConversationDecision or deliverAutomaticOutboundText.            *)
(***************************************************************************)
InTurn == {"build", "execute", "notify", "reply", "send", "record",
           "mark", "release"}
PcVal == {"idle", "loop", "complete", "fail"} \cup InTurn

Busy(t) == pc[t] \in InTurn \cup {"complete", "fail"}

Owned == [t \in Ticks |-> batch[t] \cup (IF Busy(t) THEN {cur[t]} ELSE {})]

Init ==
  /\ status = [m \in Messages |-> "NONE"]
  /\ attempts = [m \in Messages |-> 0]
  /\ queue = <<>>
  /\ lock = {}
  /\ candidates = {}
  /\ paused = [c \in Candidates |-> FALSE]
  /\ inbound = {}
  /\ outbox = [m \in Messages |-> "NONE"]
  /\ lastReply = [c \in Candidates |-> NoReplyYet]
  /\ pc = [t \in Ticks |-> "idle"]
  /\ cur = [t \in Ticks |-> NoMessage]
  /\ batch = [t \in Ticks |-> {}]
  /\ plan = [t \in Ticks |-> NoPlan]
  /\ fault = [t \in Ticks |-> "none"]
  /\ acked = {}
  /\ accepted = [m \in Messages |-> 0]
  /\ owed = {}
  /\ review = [m \in Messages |-> "none"]
  /\ leaked = {}
  /\ stranded = {}
  /\ lostTicks = 0

-----------------------------------------------------------------------------
(* The webhook *)

\* Faulty variant: without the unique key every delivery starts the job again.
EnqueueInboundMessageAgain(m) ==
  /\ status' = [status EXCEPT ![m] = "PENDING"]
  /\ queue' = Append(queue, m)
  /\ UNCHANGED attempts

\* The unique (type, dedupeKey) makes a second delivery a no-op.
EnqueueInboundMessage(m) ==
  IF status[m] = "NONE"
    THEN /\ status' = [status EXCEPT ![m] = "PENDING"]
         /\ queue' = Append(queue, m)
         /\ UNCHANGED attempts
    ELSE UNCHANGED jobVars

(***************************************************************************)
(* One delivery of a message by Meta, which repeats it until it is         *)
(* answered with 200.  The answer can be lost, or the server can die after *)
(* the insert.  A refused signature, an event without a message and an     *)
(* insert that fails (500) change nothing.                                 *)
(***************************************************************************)
ReceiveWebhook(m) ==
  /\ m \notin acked
  /\ EnqueueInboundMessage(m)
  /\ acked' \in {acked, acked \cup {m}}
  /\ UNCHANGED <<lock, turnVars, tickVars, accepted, historyVars>>

-----------------------------------------------------------------------------
(* Claiming jobs *)

\* Faulty variant: the SELECT forgets that RUNNING jobs are taken.
PendingOrRunning == {m \in Messages : status[m] \in {"PENDING", "RUNNING"}}

Pending == {m \in Messages : status[m] = "PENDING"}

RunsBefore(m, n) ==
  \E i, j \in DOMAIN queue : i < j /\ queue[i] = m /\ queue[j] = n

\* What ORDER BY run_at LIMIT picks: failJob leaves run_at alone, so a job that
\* failed keeps its place.
Due(jobs) ==
  /\ jobs \subseteq Pending
  /\ jobs # {}
  /\ Cardinality(jobs) <= ClaimLimit
  /\ jobs # Pending => Cardinality(jobs) = ClaimLimit
  /\ \A m \in jobs, n \in Pending \ jobs : RunsBefore(m, n)

ClaimDueJobs(t) ==
  /\ pc[t] = "idle"
  /\ \E jobs \in SUBSET Messages :
       /\ Due(jobs)
       /\ status' = [m \in Messages |-> IF m \in jobs THEN "RUNNING" ELSE status[m]]
       /\ batch' = [batch EXCEPT ![t] = jobs]
  /\ pc' = [pc EXCEPT ![t] = "loop"]
  /\ UNCHANGED <<attempts, queue, lock, turnVars, cur, plan, fault, worldVars, historyVars>>

-----------------------------------------------------------------------------
(* The message lock.  RETURNING gives the claimed rows in no given order.  *)

Take(t, m) ==
  /\ pc[t] = "loop"
  /\ m \in batch[t]
  /\ cur' = [cur EXCEPT ![t] = m]
  /\ batch' = [batch EXCEPT ![t] = @ \ {m}]

GoTo(t, label) == pc' = [pc EXCEPT ![t] = label]

AcquireMessageLock(t, m) ==
  /\ Take(t, m)
  /\ m \notin lock
  /\ lock' = lock \cup {m}
  /\ GoTo(t, "build")
  /\ UNCHANGED <<jobVars, turnVars, plan, fault, worldVars, historyVars>>

\* Faulty variant: a job that finds its lock taken is put back to wait.
FindLockTakenWaits(t, m) ==
  /\ Take(t, m)
  /\ m \in lock
  /\ status' = [status EXCEPT ![m] = "PENDING"]
  /\ GoTo(t, IF batch[t] = {m} THEN "idle" ELSE "loop")
  /\ UNCHANGED <<attempts, queue, lock, turnVars, plan, fault, worldVars, historyVars>>

\* P2002: runJob returns and the tick completes the job.
FindLockTaken(t, m) ==
  /\ Take(t, m)
  /\ m \in lock
  /\ GoTo(t, "complete")
  /\ UNCHANGED <<jobVars, lock, turnVars, plan, fault, worldVars, historyVars>>

AcquireError(t, m) ==
  /\ Take(t, m)
  /\ GoTo(t, "fail")
  /\ UNCHANGED <<jobVars, lock, turnVars, plan, fault, worldVars, historyVars>>

-----------------------------------------------------------------------------
(* Understanding the message and deciding *)

\* A second tick creating the same candidate hits P2002 and reads the row.
LoadOrCreateCandidate(c) == candidates' = candidates \cup {c}

(***************************************************************************)
(* The policies may decide on any directive or on none; eligibilityPolicy  *)
(* alone asks for a review, always with a reply.  preventRepeatedReply     *)
(* compares the reply with the newest OUTBOUND row, whatever its state.    *)
(***************************************************************************)
DecisionsFor(c) ==
  {d \in Decision :
     /\ d.repeated <=> d.directive = lastReply[c]
     /\ d.review => d.directive # Silence}

BuildAndDecide(t) ==
  LET c == Sender[cur[t]] IN
  /\ pc[t] = "build"
  /\ LoadOrCreateCandidate(c)
  /\ \E d \in DecisionsFor(c) : plan' = [plan EXCEPT ![t] = d]
  /\ GoTo(t, "execute")
  /\ UNCHANGED <<jobVars, lock, paused, inbound, outbox, lastReply, cur, batch, fault,
                 worldVars, historyVars>>

\* The download, the parser, the extraction, a query or the core throws.
BuildError(t) ==
  /\ pc[t] = "build"
  /\ candidates' \in {candidates, candidates \cup {Sender[cur[t]]}}
  /\ GoTo(t, "release")
  /\ UNCHANGED <<jobVars, lock, paused, inbound, outbox, lastReply, cur, batch,
                 plan, fault, worldVars, historyVars>>

-----------------------------------------------------------------------------
(* executeConversationDecision: the transaction *)

\* createMany with skipDuplicates on waMessageId.
StoreInbound(m) == inbound' = inbound \cup {m}

\* The text of a scheduling effect replaces the reply, past the repetition guard.
Resolved(decision) ==
  {decision} \cup [directive : Directives, repeated : {FALSE}, review : {decision.review}]

\* The decision is committed and no reply follows.
CommitSilent(t) ==
  /\ pc[t] = "execute"
  /\ ~plan[t].review
  /\ plan[t].directive = Silence
  /\ StoreInbound(cur[t])
  /\ owed' = owed \ {cur[t]}
  /\ GoTo(t, "complete")
  /\ UNCHANGED <<jobVars, lock, candidates, paused, outbox, lastReply, cur, batch,
                 plan, fault, worldVars, review, leaked, stranded, lostTicks>>

\* The decision is committed and its reply is to be generated and delivered.
CommitReply(t) ==
  /\ pc[t] = "execute"
  /\ ~plan[t].review
  /\ \E d \in Resolved(plan[t]) :
       d.directive # Silence /\ plan' = [plan EXCEPT ![t] = d]
  /\ StoreInbound(cur[t])
  /\ owed' = owed \cup {cur[t]}
  /\ GoTo(t, "reply")
  /\ UNCHANGED <<jobVars, lock, candidates, paused, outbox, lastReply, cur, batch,
                 fault, worldVars, review, leaked, stranded, lostTicks>>

\* pauseCandidateAutomationForManualReview wins its compare-and-swap.
CommitReview(t) ==
  LET c == Sender[cur[t]] IN
  /\ pc[t] = "execute"
  /\ plan[t].review
  /\ ~paused[c]
  /\ \E d \in Resolved(plan[t]) : plan' = [plan EXCEPT ![t] = d]
  /\ StoreInbound(cur[t])
  /\ paused' = [paused EXCEPT ![c] = TRUE]
  /\ owed' = owed \cup {cur[t]}
  /\ review' = [review EXCEPT ![cur[t]] = "paused"]
  /\ GoTo(t, "notify")
  /\ UNCHANGED <<jobVars, lock, candidates, outbox, lastReply, cur, batch, fault,
                 worldVars, leaked, stranded, lostTicks>>

\* The compare-and-swap misses: the candidate is paused already, or one of the
\* seven fields of its snapshot (reminders included) changed under it.  The
\* inbound row stays, nothing else does, and no reply follows.
CommitReviewMiss(t) ==
  /\ pc[t] = "execute"
  /\ plan[t].review
  /\ StoreInbound(cur[t])
  /\ owed' = owed \ {cur[t]}
  /\ GoTo(t, "complete")
  /\ UNCHANGED <<jobVars, lock, candidates, paused, outbox, lastReply, cur, batch,
                 plan, fault, worldVars, review, leaked, stranded, lostTicks>>

\* Faulty variant: the error of the transaction is swallowed.
RollbackIgnored(t) ==
  /\ pc[t] = "execute"
  /\ plan[t].directive # Silence
  /\ GoTo(t, "reply")
  /\ UNCHANGED <<jobVars, lock, turnVars, cur, batch, plan, fault, worldVars, historyVars>>

\* A statement fails or the consent transition conflicts: nothing is kept.
Rollback(t) ==
  /\ pc[t] = "execute"
  /\ GoTo(t, "release")
  /\ UNCHANGED <<jobVars, lock, turnVars, cur, batch, plan, fault, worldVars, historyVars>>

\* manualReviewNotifier: a WhatsApp message to the supervisor, then its record.
NotifySupervisor(t) ==
  /\ pc[t] = "notify"
  /\ review' = [review EXCEPT ![cur[t]] = "notified"]
  /\ GoTo(t, "reply")
  /\ UNCHANGED <<jobVars, lock, turnVars, cur, batch, plan, fault, worldVars, owed, leaked,
                 stranded, lostTicks>>

\* Faulty variant: the error of the notice is swallowed.
NotifyErrorIgnored(t) ==
  /\ pc[t] = "notify"
  /\ review' \in {review, [review EXCEPT ![cur[t]] = "notified"]}
  /\ GoTo(t, "reply")
  /\ UNCHANGED <<jobVars, lock, turnVars, cur, batch, plan, fault, worldVars, owed, leaked,
                 stranded, lostTicks>>

NotifyError(t) ==
  /\ pc[t] = "notify"
  /\ review' \in {review, [review EXCEPT ![cur[t]] = "notified"]}
  /\ GoTo(t, "release")
  /\ UNCHANGED <<jobVars, lock, turnVars, cur, batch, plan, fault, worldVars, owed, leaked,
                 stranded, lostTicks>>

-----------------------------------------------------------------------------
(* deliverAutomaticOutboundText, keyed by conversation-turn:<candidate>:<turn> *)

\* The reply is generated, then claimed in a serializable transaction.
ClaimOutbound(t) ==
  LET m == cur[t] IN
  /\ pc[t] = "reply"
  /\ ~CanBlockDuplicate(outbox[m])
  /\ outbox' = [outbox EXCEPT ![m] = "SENDING"]
  /\ lastReply' = [lastReply EXCEPT ![Sender[m]] = ReplyIdentity(plan[t])]
  /\ GoTo(t, "send")
  /\ UNCHANGED <<jobVars, lock, candidates, paused, inbound, cur, batch, plan, fault,
                 worldVars, historyVars>>

\* A row of the turn is SENDING, SENT or UNKNOWN: nothing is sent.
SuppressOutbound(t) ==
  /\ pc[t] = "reply"
  /\ CanBlockDuplicate(outbox[cur[t]])
  /\ GoTo(t, "complete")
  /\ UNCHANGED <<jobVars, lock, turnVars, cur, batch, plan, fault, worldVars, historyVars>>

\* Faulty variant: the error of the generation is swallowed.
ReplyErrorIgnored(t) ==
  /\ pc[t] = "reply"
  /\ GoTo(t, "complete")
  /\ UNCHANGED <<jobVars, lock, turnVars, cur, batch, plan, fault, worldVars, historyVars>>

\* The LLM fails, or the claim is refused three times with P2034.
ReplyError(t) ==
  /\ pc[t] = "reply"
  /\ GoTo(t, "release")
  /\ UNCHANGED <<jobVars, lock, turnVars, cur, batch, plan, fault, worldVars, historyVars>>

Accept(t) == accepted' = [accepted EXCEPT ![cur[t]] = @ + 1]

SendText(t) ==
  /\ pc[t] = "send"
  /\ Accept(t)
  /\ GoTo(t, "record")
  /\ UNCHANGED <<jobVars, lock, turnVars, cur, batch, plan, fault, acked, historyVars>>

SendError(t) ==
  /\ pc[t] = "send"
  /\ \E e \in SendFault :
       /\ fault' = [fault EXCEPT ![t] = e]
       /\ \/ UNCHANGED accepted
          \/ MayHaveBeenAccepted(e) /\ Accept(t)
  /\ GoTo(t, "mark")
  /\ UNCHANGED <<jobVars, lock, turnVars, cur, batch, plan, acked, historyVars>>

\* An error of this write is swallowed and the row stays SENDING.
MarkDeliveryFailure(t) ==
  LET state == ProviderFailureState(WhatsAppDeliveryError(fault[t])) IN
  /\ pc[t] = "mark"
  /\ outbox' \in {outbox, [outbox EXCEPT ![cur[t]] = state]}
  /\ fault' = [fault EXCEPT ![t] = "none"]
  /\ GoTo(t, "release")
  /\ UNCHANGED <<jobVars, lock, candidates, paused, inbound, lastReply, cur, batch,
                 plan, worldVars, historyVars>>

RecordSent(t) ==
  /\ pc[t] = "record"
  /\ outbox' = [outbox EXCEPT ![cur[t]] = "SENT"]
  /\ GoTo(t, "complete")
  /\ UNCHANGED <<jobVars, lock, candidates, paused, inbound, lastReply, cur, batch,
                 plan, fault, worldVars, historyVars>>

\* The reply is sent and its row stays SENDING ("pending reconciliation").
RecordSentError(t) ==
  /\ pc[t] = "record"
  /\ GoTo(t, "release")
  /\ UNCHANGED <<jobVars, lock, turnVars, cur, batch, plan, fault, worldVars, historyVars>>

-----------------------------------------------------------------------------
(* The end of a job *)

\* Faulty variant: the catch of runJob forgets the lock.
ReleaseMessageLockForgotten(t) ==
  /\ pc[t] = "release"
  /\ GoTo(t, "fail")
  /\ UNCHANGED <<jobVars, lock, turnVars, cur, batch, plan, fault, worldVars, historyVars>>

ReleaseMessageLock(t) ==
  /\ pc[t] = "release"
  /\ lock' = lock \ {cur[t]}
  /\ GoTo(t, "fail")
  /\ UNCHANGED <<jobVars, turnVars, cur, batch, plan, fault, worldVars, historyVars>>

\* The error of the delete replaces the error of the turn.
ReleaseError(t) ==
  /\ pc[t] = "release"
  /\ leaked' = leaked \cup {cur[t]}
  /\ GoTo(t, "fail")
  /\ UNCHANGED <<jobVars, lock, turnVars, cur, batch, plan, fault, worldVars, owed, review,
                 stranded, lostTicks>>

\* The for loop of tick: the next job of the batch, or the end of the tick.
NextJob(t) ==
  /\ GoTo(t, IF batch[t] = {} THEN "idle" ELSE "loop")
  /\ cur' = [cur EXCEPT ![t] = NoMessage]
  /\ plan' = [plan EXCEPT ![t] = NoPlan]
  /\ UNCHANGED batch

CompleteJob(t) ==
  /\ pc[t] = "complete"
  /\ status' = [status EXCEPT ![cur[t]] = "DONE"]
  /\ NextJob(t)
  /\ UNCHANGED <<attempts, queue, lock, turnVars, fault, worldVars, historyVars>>

\* Faulty variant: completeJob outside the try, its error logged.
CompleteErrorIgnored(t) ==
  /\ pc[t] = "complete"
  /\ NextJob(t)
  /\ UNCHANGED <<jobVars, lock, turnVars, fault, worldVars, historyVars>>

\* completeJob is inside the try: its error is handled as the job's.
CompleteError(t) ==
  /\ pc[t] = "complete"
  /\ GoTo(t, "fail")
  /\ UNCHANGED <<jobVars, lock, turnVars, cur, batch, plan, fault, worldVars, historyVars>>

\* Faulty variant: failed attempts are not counted.
FailJobUncounted(t) ==
  /\ pc[t] = "fail"
  /\ status' = [status EXCEPT ![cur[t]] = "PENDING"]
  /\ NextJob(t)
  /\ UNCHANGED <<attempts, queue, lock, turnVars, fault, worldVars, historyVars>>

FailJob(t) ==
  LET m == cur[t] IN
  /\ pc[t] = "fail"
  /\ attempts' = [attempts EXCEPT ![m] = @ + 1]
  /\ status' = [status EXCEPT ![m] =
                  IF attempts[m] + 1 >= MaxAttempts THEN "FAILED" ELSE "PENDING"]
  /\ NextJob(t)
  /\ UNCHANGED <<queue, lock, turnVars, fault, worldVars, historyVars>>

\* The ticks of T stop where they stand; what they had claimed stays RUNNING.
LoseTicks(T) ==
  /\ lostTicks < MaxLostTicks
  /\ lostTicks' = lostTicks + 1
  /\ stranded' = stranded \cup UNION {Owned[t] : t \in T}
  /\ pc' = [t \in Ticks |-> IF t \in T THEN "idle" ELSE pc[t]]
  /\ cur' = [t \in Ticks |-> IF t \in T THEN NoMessage ELSE cur[t]]
  /\ batch' = [t \in Ticks |-> IF t \in T THEN {} ELSE batch[t]]
  /\ plan' = [t \in Ticks |-> IF t \in T THEN NoPlan ELSE plan[t]]
  /\ fault' = [t \in Ticks |-> IF t \in T THEN "none" ELSE fault[t]]
  /\ UNCHANGED <<dbVars, worldVars, owed, review, leaked>>

\* failJob throws: the error leaves the loop and the rest of the batch with it.
FailJobError(t) == pc[t] = "fail" /\ LoseTicks({t})

\* The worker process dies; start.sh starts another one with the container.
Crash(p) ==
  LET T == {t \in Ticks : Host[t] = p} IN
  /\ \E t \in T : pc[t] # "idle"
  /\ LoseTicks(T)

-----------------------------------------------------------------------------
(* The administrator pauses or resumes the candidate from the panel. *)

AdminTogglePause(c) ==
  /\ c \in candidates
  /\ paused' = [paused EXCEPT ![c] = ~@]
  /\ UNCHANGED <<jobVars, lock, candidates, inbound, outbox, lastReply, tickVars,
                 worldVars, historyVars>>

-----------------------------------------------------------------------------

Turn(t) ==
  \/ \E m \in Messages : AcquireMessageLock(t, m) \/ FindLockTaken(t, m)
                         \/ AcquireError(t, m)
  \/ BuildAndDecide(t) \/ BuildError(t)
  \/ CommitSilent(t) \/ CommitReply(t) \/ CommitReview(t) \/ CommitReviewMiss(t)
  \/ Rollback(t)
  \/ NotifySupervisor(t) \/ NotifyError(t)
  \/ ClaimOutbound(t) \/ SuppressOutbound(t) \/ ReplyError(t)
  \/ SendText(t) \/ SendError(t)
  \/ MarkDeliveryFailure(t) \/ RecordSent(t) \/ RecordSentError(t)
  \/ ReleaseMessageLock(t) \/ ReleaseError(t)
  \/ CompleteJob(t) \/ CompleteError(t) \/ FailJob(t)

Next ==
  \/ \E m \in Messages : ReceiveWebhook(m)
  \/ \E t \in Ticks : ClaimDueJobs(t) \/ Turn(t) \/ FailJobError(t)
  \/ \E p \in Processes : Crash(p)
  \/ \E c \in Candidates : AdminTogglePause(c)

Spec == Init /\ [][Next]_vars

(***************************************************************************)
(* setInterval starts a tick every POLL_MS and every await settles: the    *)
(* calls to the provider, to the LLM and to the database have time limits. *)
(* Nothing forces a call to succeed, nor Meta to deliver.                  *)
(***************************************************************************)
Fairness == \A t \in Ticks : WF_vars(ClaimDueJobs(t)) /\ WF_vars(Turn(t))

FairSpec == Spec /\ Fairness

-----------------------------------------------------------------------------
TypeOK ==
  /\ status \in [Messages -> JobStatus]
  /\ attempts \in [Messages -> Nat]
  /\ queue \in Seq(Messages)
  /\ lock \subseteq Messages
  /\ candidates \subseteq Candidates
  /\ paused \in [Candidates -> BOOLEAN]
  /\ inbound \subseteq Messages
  /\ outbox \in [Messages -> DeliveryState]
  /\ lastReply \in [Candidates -> ReplyIdentities \cup {NoReplyYet}]
  /\ pc \in [Ticks -> PcVal]
  /\ cur \in [Ticks -> Messages \cup {NoMessage}]
  /\ batch \in [Ticks -> SUBSET Messages]
  /\ plan \in [Ticks -> Decision]
  /\ fault \in [Ticks -> SendFault \cup {"none"}]
  /\ acked \subseteq Messages
  /\ accepted \in [Messages -> Nat]
  /\ owed \subseteq Messages
  /\ review \in [Messages -> {"none", "paused", "notified"}]
  /\ leaked \subseteq Messages
  /\ stranded \subseteq Messages
  /\ lostTicks \in Nat

-----------------------------------------------------------------------------
(* Safety *)

\* The candidate can receive at most one reply for a message, whatever is
\* retried, lost, repeated by Meta or claimed by overlapping ticks.
AtMostOneReply == \A m \in Messages : accepted[m] <= 1

\* Two ticks never hold the same job, and a held job is RUNNING.
ExclusiveTurns ==
  /\ \A s, t \in Ticks : s # t => Owned[s] \cap Owned[t] = {}
  /\ \A t \in Ticks : \A m \in Owned[t] : status[m] = "RUNNING"

\* A RUNNING job that no tick holds was left behind by a lost tick, and a job
\* left behind stays RUNNING: no code returns it to the queue.
RunningJobsAreHeldOrStranded ==
  \A m \in Messages :
    status[m] = "RUNNING" <=> (m \in stranded \/ \E t \in Ticks : m \in Owned[t])

\* A job is DONE only after the effects of its turn were committed, except when
\* an earlier attempt could not delete its lock.
DoneTurnsWereCommitted ==
  \A m \in Messages : status[m] = "DONE" => m \in inbound \cup leaked

\* A reply reaches the provider only after the transaction of its turn.
RepliesFollowCommits == \A m \in Messages : accepted[m] > 0 => m \in inbound

\* When the last committed decision of a DONE turn calls for a reply, an outbox
\* row of the turn tells what became of it; a FAILED row is never the last word.
OwedRepliesAreAccountedFor ==
  \A m \in owed \ leaked : status[m] = "DONE" => CanBlockDuplicate(outbox[m])

\* The supervisor is told of a review pause before its turn is over; only an
\* attempt that failed between the pause and the notice leaves it silent.
ReviewsGoSilentOnlyAfterAFailure ==
  \A m \in Messages : status[m] = "DONE" /\ review[m] = "paused" => attempts[m] > 0

(***************************************************************************)
(* The pipeline implements TurnDelivery: a turn is open from its insert    *)
(* into JobQueue until its job is DONE or FAILED.                          *)
(***************************************************************************)
TurnPhase ==
  [m \in Messages |-> IF status[m] = "NONE" THEN "unknown"
                     ELSE IF status[m] \in {"PENDING", "RUNNING"} THEN "open"
                     ELSE "closed"]

Delivery == INSTANCE TurnDelivery WITH phase <- TurnPhase, replies <- accepted

DeliversTurns == Delivery!Spec

-----------------------------------------------------------------------------
(***************************************************************************)
(* The inductive invariant behind the safety properties.                   *)
(***************************************************************************)

\* A tick between two jobs holds at most its batch; one in a job holds it apart.
TicksInv ==
  \A t \in Ticks :
    /\ pc[t] = "idle" => batch[t] = {}
    /\ Busy(t) => cur[t] \in Messages \ batch[t]
    /\ pc[t] = "mark" => fault[t] \in SendFault
    /\ pc[t] = "execute" /\ plan[t].review => plan[t].directive # Silence
    /\ pc[t] \in {"notify", "reply", "send"} => plan[t].directive # Silence

\* Every RUNNING job has one holder or none for good.
JobsInv ==
  /\ ExclusiveTurns
  /\ RunningJobsAreHeldOrStranded
  /\ \A t \in Ticks : Owned[t] \cap stranded = {}

\* What an outbox row says of what the candidate can have received.
OutboxInv ==
  /\ \A m \in Messages : accepted[m] = 0 \/ (accepted[m] = 1 /\ CanBlockDuplicate(outbox[m]))
  /\ \A t \in Ticks :
       /\ pc[t] \in {"send", "mark", "record"} => outbox[cur[t]] = "SENDING"
       /\ \/ pc[t] = "send"
          \/ pc[t] = "mark" /\ ~MayHaveBeenAccepted(fault[t])
          => accepted[cur[t]] = 0

\* The turn of m needs nothing more.
Settled(m) == m \in inbound /\ (m \in owed => CanBlockDuplicate(outbox[m]))

\* A lock is held by a running turn, was leaked or lost, or guards a settled turn.
LocksInv ==
  /\ \A m \in lock :
       \/ m \in leaked \cup stranded
       \/ Settled(m)
       \/ \E t \in Ticks : pc[t] \in InTurn /\ cur[t] = m
  /\ \A t \in Ticks :
       /\ pc[t] \in {"notify", "reply", "send", "mark", "record"} => cur[t] \in inbound
       /\ pc[t] = "complete" => cur[t] \in leaked \/ Settled(cur[t])
  /\ \A m \in Messages : status[m] = "DONE" => m \in leaked \/ Settled(m)
  /\ RepliesFollowCommits

\* A review pause nobody was told of, in a first attempt: its tick is about to
\* tell the supervisor or to fail, or was lost.
ReviewsInv ==
  \A m \in Messages :
    review[m] = "paused" /\ attempts[m] = 0 =>
      \/ m \in stranded
      \/ \E t \in Ticks : cur[t] = m /\ pc[t] \in {"notify", "release", "fail"}

Inv == TypeOK /\ TicksInv /\ JobsInv /\ OutboxInv /\ LocksInv /\ ReviewsInv

-----------------------------------------------------------------------------
(* Liveness *)

\* Every acknowledged message gets its turn, and the turn ends, unless a lost
\* tick took the message with it: no lock, retry, outbox row or job of another
\* message can hold it up for ever (jobQueue.js, jobWorker.js).
AckedTurnsSettle ==
  \A m \in Messages : m \in acked ~> status[m] \in {"DONE", "FAILED"} \/ m \in stranded

=============================================================================

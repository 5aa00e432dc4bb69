------------------------ MODULE InboundPipeline_proofs ------------------------
(***************************************************************************)
(* Proofs about InboundPipeline, for any number of messages, candidates,   *)
(* ticks, processes and attempts.                                          *)
(***************************************************************************)
EXTENDS InboundPipeline, TLAPS

\* Every variable starts with its type.
LEMMA InitTypeOK == ASSUME Init PROVE TypeOK
  BY PipelineAssumption
  DEF PipelineAssumption, Init, TypeOK, JobStatus, DeliveryState, PcVal, InTurn,
      NoPlan, Decision, Silence

\* A scheduling effect only ever supplies a reply.
LEMMA ResolvedType ==
  ASSUME NEW decision \in Decision, NEW d \in Resolved(decision)
  PROVE  /\ d \in Decision
         /\ decision.directive # Silence => d.directive # Silence
  BY PipelineAssumption DEF PipelineAssumption, Resolved, Decision

\* Every step keeps the types.
LEMMA NextTypeOK ==
  ASSUME TypeOK, TicksInv, [Next]_vars
  PROVE  TypeOK'
<1> USE PipelineAssumption
        DEF PipelineAssumption, TypeOK, TicksInv, JobStatus, PcVal, InTurn, GoTo,
            jobVars, turnVars, worldVars, historyVars, tickVars, dbVars
<1>1. CASE UNCHANGED vars
  BY <1>1 DEF vars
<1>2. ASSUME NEW m \in Messages, ReceiveWebhook(m) PROVE TypeOK'
  <2>1. acked' \subseteq Messages
    BY <1>2 DEF ReceiveWebhook
  <2>2. status' \in [Messages -> JobStatus] /\ attempts' = attempts
    BY <1>2 DEF ReceiveWebhook, EnqueueInboundMessage
  <2>3. Append(queue, m) \in Seq(Messages)
    OBVIOUS
  <2>4. queue' \in Seq(Messages)
    BY <1>2, <2>3 DEF ReceiveWebhook, EnqueueInboundMessage
  <2> QED BY <1>2, <2>1, <2>2, <2>4 DEF ReceiveWebhook
<1>3. ASSUME NEW t \in Ticks, ClaimDueJobs(t) PROVE TypeOK'
  BY <1>3 DEF ClaimDueJobs
<1>4. ASSUME NEW t \in Ticks, Turn(t) PROVE TypeOK'
  <2>1. ASSUME NEW m \in Messages, AcquireMessageLock(t, m) PROVE TypeOK'
    BY <2>1 DEF AcquireMessageLock, Take
  <2>2. ASSUME NEW m \in Messages, FindLockTaken(t, m) PROVE TypeOK'
    BY <2>2 DEF FindLockTaken, Take
  <2>3. ASSUME NEW m \in Messages, AcquireError(t, m) PROVE TypeOK'
    BY <2>3 DEF AcquireError, Take
  <2>4. CASE BuildAndDecide(t)
    <3>1. PICK d \in DecisionsFor(Sender[cur[t]]) : plan' = [plan EXCEPT ![t] = d]
      BY <2>4 DEF BuildAndDecide
    <3>2. d \in Decision
      BY DEF DecisionsFor
    <3> QED BY <2>4, <3>1, <3>2 DEF BuildAndDecide, LoadOrCreateCandidate, Busy
  <2>5. CASE BuildError(t)
    BY <2>5 DEF BuildError, Busy
  <2>6. CASE CommitSilent(t)
    BY <2>6 DEF CommitSilent, StoreInbound, Busy
  <2>7. CASE CommitReply(t)
    <3>1. PICK d \in Resolved(plan[t]) : plan' = [plan EXCEPT ![t] = d]
      BY <2>7 DEF CommitReply
    <3>2. d \in Decision
      BY ResolvedType
    <3> QED BY <2>7, <3>1, <3>2 DEF CommitReply, StoreInbound, Busy
  <2>8. CASE CommitReview(t)
    <3>1. PICK d \in Resolved(plan[t]) : plan' = [plan EXCEPT ![t] = d]
      BY <2>8 DEF CommitReview
    <3>2. d \in Decision
      BY ResolvedType
    <3> QED BY <2>8, <3>1, <3>2 DEF CommitReview, StoreInbound, Busy
  <2>9. CASE CommitReviewMiss(t)
    BY <2>9 DEF CommitReviewMiss, StoreInbound, Busy
  <2>10. CASE Rollback(t)
    BY <2>10 DEF Rollback
  <2>11. CASE NotifySupervisor(t)
    BY <2>11 DEF NotifySupervisor, Busy
  <2>12. CASE NotifyError(t)
    BY <2>12 DEF NotifyError, Busy
  <2>13. ASSUME pc[t] \in {"reply", "send"}
         PROVE  ReplyIdentity(plan[t]) \in ReplyIdentities
    BY <2>13 DEF ReplyIdentity, ReplyIdentities, Decision
  <2>14. CASE ClaimOutbound(t)
    BY <2>13, <2>14 DEF ClaimOutbound, Busy, DeliveryState
  <2>15. CASE SuppressOutbound(t)
    BY <2>15 DEF SuppressOutbound
  <2>16. CASE ReplyError(t)
    BY <2>16 DEF ReplyError
  <2>17. ASSUME Accept(t), pc[t] = "send"
         PROVE  accepted' \in [Messages -> Nat]
    BY <2>13, <2>17 DEF Accept, Busy
  <2>18. CASE SendText(t)
    BY <2>17, <2>18 DEF SendText
  <2>19. CASE SendError(t)
    <3>1. accepted' \in [Messages -> Nat]
      BY <2>17, <2>19 DEF SendError
    <3>2. fault' \in [Ticks -> SendFault \cup {"none"}]
      BY <2>19 DEF SendError
    <3> QED BY <2>19, <3>1, <3>2 DEF SendError
  <2>20. CASE MarkDeliveryFailure(t)
    <3>1. outbox' \in [Messages -> DeliveryState]
      BY <2>20 DEF MarkDeliveryFailure, ProviderFailureState, DeliveryState
    <3> QED BY <2>20, <3>1 DEF MarkDeliveryFailure
  <2>21. CASE RecordSent(t)
    BY <2>21 DEF RecordSent, DeliveryState
  <2>22. CASE RecordSentError(t)
    BY <2>22 DEF RecordSentError
  <2>23. CASE ReleaseMessageLock(t)
    BY <2>23 DEF ReleaseMessageLock
  <2>24. CASE ReleaseError(t)
    BY <2>24 DEF ReleaseError, Busy
  <2>25. CASE CompleteJob(t)
    BY <2>25 DEF CompleteJob, NextJob, NoPlan, Decision
  <2>26. CASE CompleteError(t)
    BY <2>26 DEF CompleteError
  <2>27. CASE FailJob(t)
    <3>1. cur[t] \in Messages
      BY <2>27 DEF FailJob, Busy
    <3>2. attempts[cur[t]] + 1 \in Nat
      BY <3>1
    <3>3. attempts' \in [Messages -> Nat]
      BY <2>27, <3>2 DEF FailJob
    <3>4. status' \in [Messages -> JobStatus]
      BY <2>27 DEF FailJob
    <3> QED BY <2>27, <3>3, <3>4 DEF FailJob, NextJob, NoPlan, Decision
  <2> QED BY <1>4, <2>1, <2>2, <2>3, <2>4, <2>5, <2>6, <2>7, <2>8, <2>9, <2>10,
             <2>11, <2>12, <2>14, <2>15, <2>16, <2>18, <2>19, <2>20, <2>21, <2>22,
             <2>23, <2>24, <2>25, <2>26, <2>27 DEF Turn
<1>5. ASSUME NEW T \in SUBSET Ticks, LoseTicks(T) PROVE TypeOK'
  <2>1. \A t \in T : Owned[t] \subseteq Messages
    BY DEF Owned, Busy
  <2> QED BY <1>5, <2>1 DEF LoseTicks, NoPlan, Decision
<1>6. ASSUME NEW t \in Ticks, FailJobError(t) PROVE TypeOK'
  BY <1>5, <1>6 DEF FailJobError
<1>7. ASSUME NEW p \in Processes, Crash(p) PROVE TypeOK'
  BY <1>5, <1>7 DEF Crash
<1>8. ASSUME NEW c \in Candidates, AdminTogglePause(c) PROVE TypeOK'
  BY <1>8 DEF AdminTogglePause
<1> QED
  BY <1>1, <1>2, <1>3, <1>4, <1>6, <1>7, <1>8 DEF Next

-----------------------------------------------------------------------------
(* Ticks *)

\* The actions of a tick between the choice of a job and its end.
InJob(t) ==
  \/ \E m \in Messages : AcquireMessageLock(t, m) \/ FindLockTaken(t, m)
                         \/ AcquireError(t, m)
  \/ BuildAndDecide(t) \/ BuildError(t)
  \/ CommitSilent(t) \/ CommitReply(t) \/ CommitReview(t) \/ CommitReviewMiss(t)
  \/ Rollback(t)
  \/ NotifySupervisor(t) \/ NotifyError(t)
  \/ ClaimOutbound(t) \/ SuppressOutbound(t) \/ ReplyError(t)
  \/ SendText(t) \/ SendError(t)
  \/ MarkDeliveryFailure(t) \/ RecordSent(t) \/ RecordSentError(t)
  \/ ReleaseMessageLock(t) \/ ReleaseError(t) \/ CompleteError(t)

\* Every step keeps what the invariant says of the ticks.
LEMMA NextTicksInv ==
  ASSUME TypeOK, TicksInv, [Next]_vars
  PROVE  TicksInv'
<1> USE DEF TypeOK, TicksInv, Busy, InTurn, GoTo, tickVars
<1>1. CASE UNCHANGED vars
  BY <1>1 DEF vars
<1>2. ASSUME NEW m \in Messages, ReceiveWebhook(m) PROVE TicksInv'
  BY <1>2 DEF ReceiveWebhook
<1>3. ASSUME NEW t \in Ticks, ClaimDueJobs(t) PROVE TicksInv'
  BY <1>3 DEF ClaimDueJobs
<1>4. ASSUME NEW t \in Ticks, Turn(t) PROVE TicksInv'
  <2>1. ASSUME NEW m \in Messages,
               AcquireMessageLock(t, m) \/ FindLockTaken(t, m) \/ AcquireError(t, m)
        PROVE  TicksInv'
    BY <2>1 DEF AcquireMessageLock, FindLockTaken, AcquireError, Take
  <2>2. CASE BuildAndDecide(t)
    <3>1. PICK d \in DecisionsFor(Sender[cur[t]]) : plan' = [plan EXCEPT ![t] = d]
      BY <2>2 DEF BuildAndDecide
    <3>2. d.review => d.directive # Silence
      BY DEF DecisionsFor
    <3> QED BY <2>2, <3>1, <3>2 DEF BuildAndDecide
  <2>3. CASE BuildError(t) \/ Rollback(t) \/ NotifyError(t) \/ ReplyError(t)
             \/ RecordSentError(t)
    BY <2>3 DEF BuildError, Rollback, NotifyError, ReplyError, RecordSentError
  <2>4. CASE CommitSilent(t) \/ CommitReviewMiss(t)
    BY <2>4 DEF CommitSilent, CommitReviewMiss
  <2>10. CASE CommitReply(t)
    <3>1. PICK d \in Resolved(plan[t]) :
            d.directive # Silence /\ plan' = [plan EXCEPT ![t] = d]
      BY <2>10 DEF CommitReply
    <3> QED BY <2>10, <3>1 DEF CommitReply
  <2>11. CASE CommitReview(t)
    <3>1. PICK d \in Resolved(plan[t]) : plan' = [plan EXCEPT ![t] = d]
      BY <2>11 DEF CommitReview
    <3>2. d.directive # Silence
      BY <2>11, ResolvedType DEF CommitReview
    <3> QED BY <2>11, <3>1, <3>2 DEF CommitReview
  <2>5. CASE NotifySupervisor(t) \/ ClaimOutbound(t) \/ SuppressOutbound(t)
    BY <2>5 DEF NotifySupervisor, ClaimOutbound, SuppressOutbound
  <2>6. CASE SendText(t) \/ SendError(t) \/ MarkDeliveryFailure(t) \/ RecordSent(t)
    BY <2>6 DEF SendText, SendError, MarkDeliveryFailure, RecordSent
  <2>7. CASE ReleaseMessageLock(t) \/ ReleaseError(t) \/ CompleteError(t)
    BY <2>7 DEF ReleaseMessageLock, ReleaseError, CompleteError
  <2>8. CASE NextJob(t) /\ UNCHANGED fault /\ pc[t] \in {"complete", "fail"}
    BY <2>8 DEF NextJob
  <2>9. CASE CompleteJob(t) \/ FailJob(t)
    BY <2>8, <2>9 DEF CompleteJob, FailJob
  <2> QED BY <1>4, <2>1, <2>2, <2>3, <2>4, <2>5, <2>6, <2>7, <2>9, <2>10,
             <2>11 DEF Turn
<1>5. ASSUME NEW T \in SUBSET Ticks, LoseTicks(T) PROVE TicksInv'
  BY <1>5 DEF LoseTicks
<1>6. ASSUME NEW t \in Ticks, FailJobError(t) PROVE TicksInv'
  BY <1>5, <1>6 DEF FailJobError
<1>7. ASSUME NEW p \in Processes, Crash(p) PROVE TicksInv'
  BY <1>5, <1>7 DEF Crash
<1>8. ASSUME NEW c \in Candidates, AdminTogglePause(c) PROVE TicksInv'
  BY <1>8 DEF AdminTogglePause
<1> QED
  BY <1>1, <1>2, <1>3, <1>4, <1>6, <1>7, <1>8 DEF Next

-----------------------------------------------------------------------------
(* Jobs *)

\* Inside a job no tick takes or gives up a job.
LEMMA HoldersInJob ==
  ASSUME TypeOK, TicksInv, NEW t \in Ticks, InJob(t)
  PROVE  /\ \A s \in Ticks : Owned'[s] = Owned[s]
         /\ UNCHANGED <<status, stranded>>
<1> USE DEF TypeOK, TicksInv, Owned, Busy, InTurn, GoTo, jobVars, historyVars
<1>1. ASSUME NEW m \in Messages,
             AcquireMessageLock(t, m) \/ FindLockTaken(t, m) \/ AcquireError(t, m)
      PROVE  /\ \A s \in Ticks : Owned'[s] = Owned[s]
             /\ UNCHANGED <<status, stranded>>
  BY <1>1 DEF AcquireMessageLock, FindLockTaken, AcquireError, Take
<1>2. ASSUME ~ \E m \in Messages : AcquireMessageLock(t, m) \/ FindLockTaken(t, m)
                                   \/ AcquireError(t, m)
      PROVE  /\ UNCHANGED <<status, stranded, cur, batch>>
             /\ pc[t] \in InTurn \cup {"complete"}
             /\ \E label \in InTurn \cup {"complete", "fail"} :
                  pc' = [pc EXCEPT ![t] = label]
  <2>1. CASE BuildAndDecide(t) \/ BuildError(t) \/ Rollback(t) \/ NotifySupervisor(t)
             \/ NotifyError(t)
    BY <2>1 DEF BuildAndDecide, BuildError, Rollback, NotifySupervisor, NotifyError
  <2>2. CASE CommitSilent(t) \/ CommitReply(t) \/ CommitReview(t) \/ CommitReviewMiss(t)
    BY <2>2 DEF CommitSilent, CommitReply, CommitReview, CommitReviewMiss
  <2>3. CASE ClaimOutbound(t) \/ SuppressOutbound(t) \/ ReplyError(t)
    BY <2>3 DEF ClaimOutbound, SuppressOutbound, ReplyError
  <2>4. CASE SendText(t) \/ SendError(t) \/ MarkDeliveryFailure(t) \/ RecordSent(t)
             \/ RecordSentError(t)
    BY <2>4 DEF SendText, SendError, MarkDeliveryFailure, RecordSent, RecordSentError
  <2>5. CASE ReleaseMessageLock(t) \/ ReleaseError(t) \/ CompleteError(t)
    BY <2>5 DEF ReleaseMessageLock, ReleaseError, CompleteError
  <2> QED BY <1>2, <2>1, <2>2, <2>3, <2>4, <2>5, InJob(t) DEF InJob
<1> QED BY <1>1, <1>2

\* Every step keeps what the invariant says of the jobs.
LEMMA NextJobsInv ==
  ASSUME TypeOK, TicksInv, JobsInv, [Next]_vars
  PROVE  JobsInv'
<1> USE DEF TypeOK, TicksInv, JobsInv, ExclusiveTurns, RunningJobsAreHeldOrStranded
<1>1. ASSUME \A s \in Ticks : Owned'[s] = Owned[s], UNCHANGED <<status, stranded>>
      PROVE  JobsInv'
  BY <1>1
<1>2. CASE UNCHANGED vars
  BY <1>1, <1>2 DEF vars, tickVars, dbVars, historyVars, Owned, Busy
<1>3. ASSUME NEW m \in Messages, ReceiveWebhook(m) PROVE JobsInv'
  <2>1. \A s \in Ticks : Owned'[s] = Owned[s]
    BY <1>3 DEF ReceiveWebhook, tickVars, Owned, Busy
  <2>2. \A n \in Messages : status'[n] = "RUNNING" <=> status[n] = "RUNNING"
    BY <1>3 DEF ReceiveWebhook, EnqueueInboundMessage, jobVars
  <2>3. stranded' = stranded
    BY <1>3 DEF ReceiveWebhook, historyVars
  <2>4. \A s \in Ticks : Owned[s] \subseteq Messages
    BY DEF Owned
  <2> QED BY <2>1, <2>2, <2>3, <2>4
<1>4. ASSUME NEW t \in Ticks, ClaimDueJobs(t) PROVE JobsInv'
  <2>1. PICK jobs \in SUBSET Pending :
          /\ status' = [m \in Messages |-> IF m \in jobs THEN "RUNNING" ELSE status[m]]
          /\ batch' = [batch EXCEPT ![t] = jobs]
    BY <1>4 DEF ClaimDueJobs, Due
  <2>2. Owned'[t] = jobs /\ Owned[t] = {}
    BY <1>4, <2>1 DEF ClaimDueJobs, Owned, Busy, InTurn
  <2>3. \A s \in Ticks \ {t} : Owned'[s] = Owned[s]
    BY <1>4, <2>1 DEF ClaimDueJobs, Owned, Busy
  <2>4. stranded' = stranded
    BY <1>4 DEF ClaimDueJobs, historyVars
  <2>5. \A m \in jobs : status[m] = "PENDING" /\ m \in Messages
    BY DEF Pending
  <2>6. \A s \in Ticks : Owned[s] \cap jobs = {}
    BY <2>5
  <2>7. \A m \in Messages : status'[m] = "RUNNING" <=> status[m] = "RUNNING" \/ m \in jobs
    BY <2>1
  <2>8. \A s \in Ticks : Owned'[s] = IF s = t THEN jobs ELSE Owned[s]
    BY <2>2, <2>3
  <2>9. \A r, s \in Ticks : r # s => Owned'[r] \cap Owned'[s] = {}
    BY <2>6, <2>8
  <2>10. \A s \in Ticks : \A m \in Owned'[s] : m \in Messages /\ status'[m] = "RUNNING"
    BY <2>5, <2>7, <2>8 DEF Owned
  <2>11. \A m \in Messages : (\E s \in Ticks : m \in Owned'[s])
                             <=> m \in jobs \/ \E s \in Ticks : m \in Owned[s]
    BY <2>2, <2>8
  <2>12. \A s \in Ticks : Owned'[s] \cap stranded' = {}
    BY <2>4, <2>5, <2>8
  <2>13. RunningJobsAreHeldOrStranded'
    BY <2>4, <2>7, <2>11
  <2> QED BY <2>9, <2>10, <2>12, <2>13
<1>5. ASSUME NEW t \in Ticks, Turn(t) PROVE JobsInv'
  <2>1. CASE InJob(t)
    BY <1>1, <2>1, HoldersInJob
  <2>2. CASE CompleteJob(t) \/ FailJob(t)
    <3>1. Owned'[t] = Owned[t] \ {cur[t]} /\ cur[t] \in Owned[t]
      BY <2>2 DEF CompleteJob, FailJob, NextJob, GoTo, Owned, Busy, InTurn
    <3>2. \A s \in Ticks \ {t} : Owned'[s] = Owned[s]
      BY <2>2 DEF CompleteJob, FailJob, NextJob, GoTo, Owned, Busy
    <3>3. stranded' = stranded
      BY <2>2 DEF CompleteJob, FailJob, historyVars
    <3>4. /\ \A m \in Messages \ {cur[t]} : status'[m] = status[m]
          /\ status'[cur[t]] # "RUNNING"
      BY <2>2 DEF CompleteJob, FailJob, Busy, InTurn
    <3>5. \A s \in Ticks : Owned'[s] = Owned[s] \ {cur[t]}
      <4>1. ASSUME NEW s \in Ticks, s # t PROVE cur[t] \notin Owned[s]
        <5>1. Owned[s] \cap Owned[t] = {}
          BY <4>1
        <5> QED BY <3>1, <5>1
      <4>2. \A s \in Ticks \ {t} : Owned[s] = Owned[s] \ {cur[t]}
        BY <4>1
      <4> QED BY <3>1, <3>2, <4>2
    <3>6. \A r, s \in Ticks : r # s => Owned'[r] \cap Owned'[s] = {}
      BY <3>5
    <3>7. \A s \in Ticks : \A m \in Owned'[s] : m \in Messages /\ status'[m] = "RUNNING"
      BY <3>4, <3>5 DEF Owned
    <3>8. \A m \in Messages : (\E s \in Ticks : m \in Owned'[s])
                              <=> m # cur[t] /\ \E s \in Ticks : m \in Owned[s]
      BY <3>5
    <3>9. cur[t] \notin stranded
      BY <3>1
    <3>10. RunningJobsAreHeldOrStranded'
      <4> SUFFICES ASSUME NEW m \in Messages
                   PROVE  status'[m] = "RUNNING"
                          <=> m \in stranded' \/ \E s \in Ticks : m \in Owned'[s]
        OBVIOUS
      <4>1. CASE m = cur[t]
        BY <3>3, <3>4, <3>8, <3>9, <4>1
      <4>2. CASE m # cur[t]
        <5>1. status'[m] = status[m] /\ stranded' = stranded
          BY <3>3, <3>4, <4>2
        <5>2. (\E s \in Ticks : m \in Owned'[s]) <=> \E s \in Ticks : m \in Owned[s]
          BY <3>8, <4>2
        <5>3. status[m] = "RUNNING" <=> m \in stranded \/ \E s \in Ticks : m \in Owned[s]
          OBVIOUS
        <5> QED BY <5>1, <5>2, <5>3
      <4> QED BY <4>1, <4>2
    <3>11. \A s \in Ticks : Owned'[s] \cap stranded' = {}
      BY <3>3, <3>5
    <3> QED BY <3>6, <3>7, <3>10, <3>11
  <2> QED BY <1>5, <2>1, <2>2 DEF Turn, InJob
<1>6. ASSUME NEW T \in SUBSET Ticks, LoseTicks(T) PROVE JobsInv'
  <2>1. \A s \in T : Owned'[s] = {}
    BY <1>6 DEF LoseTicks, Owned, Busy, InTurn
  <2>2. \A s \in Ticks \ T : Owned'[s] = Owned[s]
    BY <1>6 DEF LoseTicks, Owned, Busy
  <2>3. /\ status' = status
        /\ \A m : m \in stranded' <=> m \in stranded \/ \E s \in T : m \in Owned[s]
    BY <1>6 DEF LoseTicks, dbVars
  <2>4. \A s \in Ticks : Owned'[s] = IF s \in T THEN {} ELSE Owned[s]
    BY <2>1, <2>2
  <2>5. ExclusiveTurns'
    <3>1. \A s \in Ticks : Owned'[s] \subseteq Owned[s]
      BY <2>4
    <3> QED BY <2>3, <3>1
  <2>6. \A s \in Ticks \ T : \A m \in Owned[s] : m \notin stranded'
    <3> SUFFICES ASSUME NEW s \in Ticks \ T, NEW m \in Owned[s],
                        NEW r \in T, m \in Owned[r]
                 PROVE  FALSE
      BY <2>3
    <3>1. r \in Ticks /\ s \in Ticks /\ r # s
      OBVIOUS
    <3> QED BY <3>1
  <2>7. \A s \in Ticks : Owned'[s] \cap stranded' = {}
    BY <2>4, <2>6
  <2>8. \A m : (\E s \in Ticks : m \in Owned'[s]) <=> \E s \in Ticks \ T : m \in Owned[s]
    BY <2>4
  <2>9. RunningJobsAreHeldOrStranded'
    BY <2>3, <2>8
  <2> QED BY <2>5, <2>7, <2>9
<1>7. ASSUME NEW t \in Ticks, FailJobError(t) PROVE JobsInv'
  <2>1. {t} \in SUBSET Ticks /\ LoseTicks({t})
    BY <1>7 DEF FailJobError
  <2> QED BY ONLY <2>1, <1>6
<1>8. ASSUME NEW p \in Processes, Crash(p) PROVE JobsInv'
  BY <1>6, <1>8 DEF Crash
<1>9. ASSUME NEW c \in Candidates, AdminTogglePause(c) PROVE JobsInv'
  BY <1>1, <1>9 DEF AdminTogglePause, tickVars, jobVars, historyVars, Owned, Busy
<1> QED
  BY <1>2, <1>3, <1>4, <1>5, <1>7, <1>8, <1>9 DEF Next

\* The job a busy tick has in hand is nobody else's; nor is one of its batch.
LEMMA OneHolder ==
  ASSUME TypeOK, TicksInv, JobsInv, NEW t \in Ticks
  PROVE  /\ Busy(t) => /\ cur[t] \in Messages \ stranded
                       /\ status[cur[t]] = "RUNNING"
                       /\ \A s \in Ticks \ {t} : Busy(s) => cur[s] # cur[t]
         /\ \A m \in batch[t] : /\ m \in Messages \ stranded
                               /\ status[m] = "RUNNING"
                               /\ \A s \in Ticks : Busy(s) => cur[s] # m
<1> USE DEF TypeOK, TicksInv, JobsInv, ExclusiveTurns, Owned
<1>1. ASSUME Busy(t)
      PROVE  /\ cur[t] \in Messages \ stranded
             /\ status[cur[t]] = "RUNNING"
             /\ \A s \in Ticks \ {t} : Busy(s) => cur[s] # cur[t]
  <2>1. cur[t] \in Owned[t] /\ \A s \in Ticks \ {t} : Busy(s) => cur[s] \in Owned[s]
    BY <1>1
  <2> QED BY <1>1, <2>1
<1>2. ASSUME NEW m \in batch[t]
      PROVE  /\ m \in Messages \ stranded
             /\ status[m] = "RUNNING"
             /\ \A s \in Ticks : Busy(s) => cur[s] # m
  <2>1. m \in Owned[t] /\ \A s \in Ticks \ {t} : Busy(s) => cur[s] \in Owned[s]
    BY <1>2
  <2>2. \A s \in Ticks \ {t} : Busy(s) => cur[s] # m
    BY <2>1
  <2>3. Busy(t) => cur[t] # m
    BY <1>2
  <2> QED BY <1>2, <2>1, <2>2, <2>3
<1> QED BY <1>1, <1>2

-----------------------------------------------------------------------------
(* The outbox *)

\* Every step keeps what the invariant says of the outbox.
LEMMA NextOutboxInv ==
  ASSUME TypeOK, TicksInv, JobsInv, OutboxInv, [Next]_vars
  PROVE  OutboxInv'
<1> USE DEF TypeOK, OutboxInv, GoTo, CanBlockDuplicate, BlockingStates
<1>1. ASSUME UNCHANGED <<outbox, accepted>>,
             \A s \in Ticks : pc'[s] \in {"send", "mark", "record"}
                => pc'[s] = pc[s] /\ cur'[s] = cur[s] /\ fault'[s] = fault[s]
      PROVE  OutboxInv'
  BY <1>1
<1>2. CASE UNCHANGED vars
  BY <1>1, <1>2 DEF vars, dbVars, tickVars, worldVars
<1>3. ASSUME NEW m \in Messages, ReceiveWebhook(m) PROVE OutboxInv'
  BY <1>1, <1>3 DEF ReceiveWebhook, turnVars, tickVars
<1>4. ASSUME NEW t \in Ticks, ClaimDueJobs(t) PROVE OutboxInv'
  BY <1>1, <1>4 DEF ClaimDueJobs, turnVars, worldVars
<1>5. ASSUME NEW t \in Ticks, Turn(t) PROVE OutboxInv'
  <2> USE DEF turnVars, worldVars
  <2>1. ASSUME NEW m \in Messages,
               AcquireMessageLock(t, m) \/ FindLockTaken(t, m) \/ AcquireError(t, m)
        PROVE  OutboxInv'
    BY <1>1, <2>1 DEF AcquireMessageLock, FindLockTaken, AcquireError, Take
  <2>2. CASE BuildAndDecide(t) \/ BuildError(t) \/ Rollback(t) \/ NotifySupervisor(t)
             \/ NotifyError(t)
    BY <1>1, <2>2 DEF BuildAndDecide, BuildError, Rollback, NotifySupervisor, NotifyError
  <2>3. CASE CommitSilent(t) \/ CommitReply(t) \/ CommitReview(t) \/ CommitReviewMiss(t)
    BY <1>1, <2>3 DEF CommitSilent, CommitReply, CommitReview, CommitReviewMiss
  <2>4. CASE SuppressOutbound(t) \/ ReplyError(t) \/ RecordSentError(t)
    BY <1>1, <2>4 DEF SuppressOutbound, ReplyError, RecordSentError
  <2>5. CASE ReleaseMessageLock(t) \/ ReleaseError(t) \/ CompleteError(t)
    BY <1>1, <2>5 DEF ReleaseMessageLock, ReleaseError, CompleteError
  <2>6. CASE CompleteJob(t) \/ FailJob(t)
    BY <1>1, <2>6 DEF CompleteJob, FailJob, NextJob
  <2>7. ASSUME Busy(t)
        PROVE  /\ cur[t] \in Messages
               /\ \A s \in Ticks \ {t} :
                    pc[s] \in {"send", "mark", "record"} => cur[s] # cur[t]
    BY <2>7, OneHolder DEF Busy, InTurn
  <2>8. CASE ClaimOutbound(t)
    BY <2>7, <2>8 DEF ClaimOutbound, Busy, InTurn
  <2>9. CASE SendText(t)
    BY <2>7, <2>9 DEF SendText, Accept, Busy, InTurn
  <2>10. CASE SendError(t)
    <3>1. Busy(t) /\ outbox[cur[t]] = "SENDING" /\ accepted[cur[t]] = 0
      BY <2>10 DEF SendError, Busy, InTurn
    <3>2. outbox' = outbox /\ cur' = cur /\ pc' = [pc EXCEPT ![t] = "mark"]
      BY <2>10 DEF SendError
    <3>3. PICK e \in SendFault :
            /\ fault' = [fault EXCEPT ![t] = e]
            /\ UNCHANGED accepted \/ (MayHaveBeenAccepted(e) /\ Accept(t))
      BY <2>10 DEF SendError
    <3>4. CASE UNCHANGED accepted
      BY <2>7, <3>1, <3>2, <3>3, <3>4
    <3>5. CASE MayHaveBeenAccepted(e) /\ Accept(t)
      BY <2>7, <3>1, <3>2, <3>3, <3>5 DEF Accept
    <3> QED BY <3>3, <3>4, <3>5
  <2>11. CASE MarkDeliveryFailure(t)
    <3>1. Busy(t) /\ outbox[cur[t]] = "SENDING" /\ fault[t] \in SendFault
      BY <2>11 DEF MarkDeliveryFailure, TicksInv, Busy, InTurn
    <3>2. /\ accepted' = accepted /\ cur' = cur
          /\ pc' = [pc EXCEPT ![t] = "release"]
          /\ \A s \in Ticks \ {t} : fault'[s] = fault[s]
      BY <2>11 DEF MarkDeliveryFailure
    <3>3. \/ outbox' = outbox
          \/ outbox' = [outbox EXCEPT ![cur[t]] = "UNKNOWN"]
          \/ outbox' = [outbox EXCEPT ![cur[t]] = "FAILED"] /\ accepted[cur[t]] = 0
      BY <2>11, <3>1
      DEF MarkDeliveryFailure, ProviderFailureState, WhatsAppDeliveryError,
          MayHaveBeenAccepted, SendFault
    <3>4. CASE outbox' = outbox
      BY <2>7, <3>1, <3>2, <3>4
    <3>5. CASE outbox' = [outbox EXCEPT ![cur[t]] = "UNKNOWN"]
      BY <2>7, <3>1, <3>2, <3>5
    <3>6. CASE outbox' = [outbox EXCEPT ![cur[t]] = "FAILED"] /\ accepted[cur[t]] = 0
      BY <2>7, <3>1, <3>2, <3>6
    <3> QED BY <3>3, <3>4, <3>5, <3>6
  <2>12. CASE RecordSent(t)
    BY <2>7, <2>12 DEF RecordSent, Busy, InTurn
  <2> QED BY <1>5, <2>1, <2>2, <2>3, <2>4, <2>5, <2>6, <2>8, <2>9, <2>10, <2>11,
             <2>12 DEF Turn
<1>6. ASSUME NEW T \in SUBSET Ticks, LoseTicks(T) PROVE OutboxInv'
  BY <1>1, <1>6 DEF LoseTicks, dbVars, worldVars
<1>7. ASSUME NEW t \in Ticks, FailJobError(t) PROVE OutboxInv'
  BY <1>6, <1>7 DEF FailJobError
<1>8. ASSUME NEW p \in Processes, Crash(p) PROVE OutboxInv'
  BY <1>6, <1>8 DEF Crash
<1>9. ASSUME NEW c \in Candidates, AdminTogglePause(c) PROVE OutboxInv'
  BY <1>1, <1>9 DEF AdminTogglePause, tickVars, worldVars
<1> QED
  BY <1>2, <1>3, <1>4, <1>5, <1>7, <1>8, <1>9 DEF Next

-----------------------------------------------------------------------------
(* Locks and settled turns *)

\* Every step keeps what the invariant says of the locks.
LEMMA NextLocksInv ==
  ASSUME TypeOK, TicksInv, JobsInv, OutboxInv, LocksInv, [Next]_vars
  PROVE  LocksInv'
<1> USE DEF TypeOK, LocksInv, Settled, RepliesFollowCommits, GoTo, CanBlockDuplicate,
            BlockingStates, jobVars, turnVars, worldVars, historyVars
<1>0. ASSUME UNCHANGED <<lock, inbound, owed, outbox, accepted, leaked, stranded>>,
             \A s \in Ticks : pc[s] \in InTurn => pc'[s] \in InTurn /\ cur'[s] = cur[s],
             \A s \in Ticks :
                pc'[s] \in {"notify", "reply", "send", "mark", "record", "complete"}
                  => pc'[s] = pc[s] /\ cur'[s] = cur[s],
             \A n \in Messages : status'[n] = "DONE" => status[n] = "DONE"
      PROVE  LocksInv'
  <2>1. \A m \in Messages : Settled(m)' <=> Settled(m)
    BY <1>0
  <2>2. ASSUME NEW m \in lock'
        PROVE  (\/ m \in leaked \cup stranded
                \/ Settled(m)
                \/ \E s \in Ticks : pc[s] \in InTurn /\ cur[s] = m)'
    <3>1. m \in lock /\ m \in Messages
      BY <1>0, <2>2
    <3>2. CASE \E s \in Ticks : pc[s] \in InTurn /\ cur[s] = m
      BY <1>0, <3>2
    <3>3. CASE m \in leaked \cup stranded \/ Settled(m)
      BY <1>0, <2>1, <3>1, <3>3
    <3> QED BY <3>1, <3>2, <3>3
  <2>3. ASSUME NEW s \in Ticks
        PROVE  (/\ pc[s] \in {"notify", "reply", "send", "mark", "record"}
                    => cur[s] \in inbound
                /\ pc[s] = "complete" => cur[s] \in leaked \/ Settled(cur[s]))'
    BY <1>0
  <2>4. \A m \in Messages : status'[m] = "DONE" => m \in leaked' \/ Settled(m)'
    BY <1>0, <2>1
  <2> QED BY <1>0, <2>2, <2>3, <2>4
<1>1. CASE UNCHANGED vars
  BY <1>1 DEF vars, dbVars, tickVars
<1>2. ASSUME NEW m \in Messages, ReceiveWebhook(m) PROVE LocksInv'
  BY <1>2 DEF ReceiveWebhook, EnqueueInboundMessage, tickVars
<1>3. ASSUME NEW t \in Ticks, ClaimDueJobs(t) PROVE LocksInv'
  <2>1. PICK jobs \in SUBSET Messages :
          status' = [n \in Messages |-> IF n \in jobs THEN "RUNNING" ELSE status[n]]
    BY <1>3 DEF ClaimDueJobs
  <2> QED BY <1>0, <1>3, <2>1 DEF ClaimDueJobs, InTurn
<1>4. ASSUME NEW t \in Ticks, Turn(t) PROVE LocksInv'
  <2> DEFINE m == cur[t]
  <2>1. ASSUME Busy(t)
        PROVE  /\ m \in Messages \ stranded
               /\ status[m] = "RUNNING"
               /\ \A s \in Ticks \ {t} : pc[s] \in InTurn \cup {"complete"} => cur[s] # m
    BY <2>1, OneHolder DEF Busy
  <2> USE DEF Busy, InTurn
  <2>2. ASSUME NEW n \in Messages, AcquireMessageLock(t, n) PROVE LocksInv'
    <3>1. /\ pc[t] = "loop" /\ pc' = [pc EXCEPT ![t] = "build"]
          /\ cur' = [cur EXCEPT ![t] = n]
          /\ lock' = lock \cup {n}
      BY <2>2 DEF AcquireMessageLock, Take
    <3>2. ASSUME NEW k \in lock'
          PROVE  \/ k \in leaked \cup stranded
                 \/ Settled(k)
                 \/ \E s \in Ticks : pc'[s] \in InTurn /\ cur'[s] = k
      <4>1. CASE k = n
        BY <3>1, <4>1
      <4>2. CASE \E s \in Ticks : pc[s] \in InTurn /\ cur[s] = k
        BY <3>1, <4>2
      <4> QED BY <3>1, <4>1, <4>2
    <3> QED BY <2>2, <3>1, <3>2 DEF AcquireMessageLock
  <2>3. ASSUME NEW n \in Messages, FindLockTaken(t, n) PROVE LocksInv'
    <3>1. /\ pc[t] = "loop" /\ pc' = [pc EXCEPT ![t] = "complete"]
          /\ cur' = [cur EXCEPT ![t] = n]
          /\ n \in lock /\ n \in batch[t]
      BY <2>3 DEF FindLockTaken, Take
    <3>2. n \in leaked \/ Settled(n)
      BY <3>1, OneHolder
    <3>3. \A s \in Ticks : pc[s] \in InTurn => pc'[s] \in InTurn /\ cur'[s] = cur[s]
      BY <3>1
    <3> QED BY <2>3, <3>1, <3>2, <3>3 DEF FindLockTaken
  <2>4. ASSUME NEW n \in Messages, AcquireError(t, n) PROVE LocksInv'
    BY <1>0, <2>4 DEF AcquireError, Take
  <2>5. CASE BuildAndDecide(t)
    BY <2>1, <2>5 DEF BuildAndDecide
  <2>6. CASE BuildError(t)
    BY <2>1, <2>6 DEF BuildError
  <2>7. CASE CommitSilent(t)
    BY <2>1, <2>7 DEF CommitSilent, StoreInbound
  <2>8. CASE CommitReply(t)
    BY <2>1, <2>8 DEF CommitReply, StoreInbound
  <2>9. CASE CommitReview(t)
    BY <2>1, <2>9 DEF CommitReview, StoreInbound
  <2>10. CASE CommitReviewMiss(t)
    BY <2>1, <2>10 DEF CommitReviewMiss, StoreInbound
  <2>11. CASE Rollback(t)
    BY <2>1, <2>11 DEF Rollback
  <2>12. CASE NotifySupervisor(t)
    BY <2>1, <2>12 DEF NotifySupervisor
  <2>13. CASE NotifyError(t)
    BY <2>1, <2>13 DEF NotifyError
  <2>14. CASE ClaimOutbound(t)
    BY <2>1, <2>14 DEF ClaimOutbound
  <2>15. CASE SuppressOutbound(t)
    BY <2>1, <2>15 DEF SuppressOutbound
  <2>16. CASE ReplyError(t)
    BY <2>1, <2>16 DEF ReplyError
  <2>17. CASE SendText(t)
    BY <2>1, <2>17 DEF SendText, Accept
  <2>18. CASE SendError(t)
    <3>1. Busy(t) /\ m \in inbound
      BY <2>18 DEF SendError
    <3>2. \A k \in Messages : accepted'[k] > 0 => accepted[k] > 0 \/ k = m
      BY <2>18 DEF SendError, Accept
    <3> QED BY <2>1, <2>18, <3>1, <3>2 DEF SendError
  <2>19. CASE MarkDeliveryFailure(t)
    <3>1. /\ Busy(t)
          /\ pc[t] = "mark" /\ pc' = [pc EXCEPT ![t] = "release"]
          /\ cur' = cur
          /\ \A k \in Messages \ {m} : outbox'[k] = outbox[k]
      BY <2>19 DEF MarkDeliveryFailure
    <3>2. UNCHANGED <<lock, status, inbound, owed, accepted, leaked, stranded>>
      BY <2>19 DEF MarkDeliveryFailure
    <3>3. \A k \in Messages \ {m} : Settled(k) => Settled(k)'
      BY <3>1, <3>2
    <3> QED BY <2>1, <3>1, <3>2, <3>3
  <2>20. CASE RecordSent(t)
    BY <2>1, <2>20 DEF RecordSent
  <2>21. CASE RecordSentError(t)
    BY <2>1, <2>21 DEF RecordSentError
  <2>22. CASE ReleaseMessageLock(t)
    BY <2>1, <2>22 DEF ReleaseMessageLock
  <2>23. CASE ReleaseError(t)
    BY <2>1, <2>23 DEF ReleaseError
  <2>24. CASE CompleteJob(t)
    BY <2>1, <2>24 DEF CompleteJob, NextJob
  <2>25. CASE CompleteError(t)
    BY <2>1, <2>25 DEF CompleteError
  <2>26. CASE FailJob(t)
    <3>1. \A n \in Messages : status'[n] = "DONE" => status[n] = "DONE"
      BY <2>26 DEF FailJob
    <3>2. pc[t] = "fail" /\ pc'[t] \in {"idle", "loop"}
      BY <2>26 DEF FailJob, NextJob
    <3>3. \A s \in Ticks \ {t} : pc'[s] = pc[s] /\ cur'[s] = cur[s]
      BY <2>26 DEF FailJob, NextJob
    <3> QED BY <1>0, <2>26, <3>1, <3>2, <3>3 DEF FailJob
  <2> QED BY <1>4, <2>2, <2>3, <2>4, <2>5, <2>6, <2>7, <2>8, <2>9, <2>10,
             <2>11, <2>12, <2>13, <2>14, <2>15, <2>16, <2>17, <2>18, <2>19, <2>20,
             <2>21, <2>22, <2>23, <2>24, <2>25, <2>26 DEF Turn
<1>5. ASSUME NEW T \in SUBSET Ticks, LoseTicks(T) PROVE LocksInv'
  BY <1>5 DEF LoseTicks, dbVars, Owned, Busy, InTurn
<1>6. ASSUME NEW t \in Ticks, FailJobError(t) PROVE LocksInv'
  BY <1>5, <1>6 DEF FailJobError
<1>7. ASSUME NEW p \in Processes, Crash(p) PROVE LocksInv'
  BY <1>5, <1>7 DEF Crash
<1>8. ASSUME NEW c \in Candidates, AdminTogglePause(c) PROVE LocksInv'
  BY <1>8 DEF AdminTogglePause, tickVars
<1> QED
  BY <1>1, <1>2, <1>3, <1>4, <1>6, <1>7, <1>8 DEF Next

-----------------------------------------------------------------------------
(* The reviews *)

\* Every step keeps what the invariant says of review pauses.
LEMMA NextReviewsInv ==
  ASSUME TypeOK, TicksInv, JobsInv, ReviewsInv, [Next]_vars
  PROVE  ReviewsInv'
<1> DEFINE Telling == {"notify", "release", "fail"}
<1> USE DEF TypeOK, ReviewsInv, GoTo, jobVars, turnVars, worldVars, historyVars
<1>1. ASSUME UNCHANGED <<review, stranded>>,
             \A n \in Messages : attempts'[n] = 0 => attempts[n] = 0,
             \A s \in Ticks : pc[s] \in Telling =>
               \/ pc'[s] \in Telling /\ cur'[s] = cur[s]
               \/ attempts'[cur[s]] > 0
      PROVE  ReviewsInv'
  <2> SUFFICES ASSUME NEW m \in Messages, review[m] = "paused", attempts'[m] = 0
               PROVE  \/ m \in stranded
                      \/ \E s \in Ticks : cur'[s] = m /\ pc'[s] \in Telling
    BY <1>1
  <2>1. CASE m \in stranded
    BY <2>1
  <2>2. ASSUME NEW s \in Ticks, cur[s] = m, pc[s] \in Telling
        PROVE  cur'[s] = m /\ pc'[s] \in Telling
    <3>1. ~(attempts'[cur[s]] > 0)
      BY <2>2
    <3> QED BY <1>1, <2>2, <3>1
  <2> QED BY <1>1, <2>1, <2>2
<1>2. CASE UNCHANGED vars
  BY <1>1, <1>2 DEF vars, dbVars, tickVars
<1>3. ASSUME NEW m \in Messages, ReceiveWebhook(m) PROVE ReviewsInv'
  BY <1>1, <1>3 DEF ReceiveWebhook, EnqueueInboundMessage, tickVars
<1>4. ASSUME NEW t \in Ticks, ClaimDueJobs(t) PROVE ReviewsInv'
  BY <1>1, <1>4 DEF ClaimDueJobs
<1>5. ASSUME NEW t \in Ticks, Turn(t) PROVE ReviewsInv'
  <2> DEFINE m == cur[t]
  <2>1. ASSUME NEW n \in Messages,
               AcquireMessageLock(t, n) \/ FindLockTaken(t, n) \/ AcquireError(t, n)
        PROVE  ReviewsInv'
    BY <1>1, <2>1 DEF AcquireMessageLock, FindLockTaken, AcquireError, Take
  <2>2. CASE BuildAndDecide(t) \/ BuildError(t) \/ Rollback(t)
    BY <1>1, <2>2 DEF BuildAndDecide, BuildError, Rollback
  <2>3. CASE CommitSilent(t) \/ CommitReply(t) \/ CommitReviewMiss(t)
    BY <1>1, <2>3 DEF CommitSilent, CommitReply, CommitReviewMiss
  <2>4. CASE CommitReview(t)
    <3>1. m \in Messages
      BY <2>4 DEF CommitReview, TicksInv, Busy, InTurn
    <3>2. /\ pc[t] = "execute" /\ pc' = [pc EXCEPT ![t] = "notify"]
          /\ review' = [review EXCEPT ![m] = "paused"]
          /\ UNCHANGED <<cur, attempts, stranded>>
      BY <2>4 DEF CommitReview
    <3> QED BY <3>1, <3>2
  <2>5. CASE NotifySupervisor(t)
    <3>1. /\ pc[t] = "notify" /\ pc' = [pc EXCEPT ![t] = "reply"]
          /\ review' = [review EXCEPT ![m] = "notified"]
          /\ UNCHANGED <<cur, attempts, stranded>>
      BY <2>5 DEF NotifySupervisor
    <3>2. m \in Messages
      BY <3>1 DEF TicksInv, Busy, InTurn
    <3> QED BY <3>1, <3>2
  <2>6. CASE NotifyError(t)
    <3>1. /\ pc[t] = "notify" /\ pc' = [pc EXCEPT ![t] = "release"]
          /\ review' \in {review, [review EXCEPT ![m] = "notified"]}
          /\ UNCHANGED <<cur, attempts, stranded>>
      BY <2>6 DEF NotifyError
    <3> QED BY <3>1
  <2>7. CASE ClaimOutbound(t) \/ SuppressOutbound(t) \/ ReplyError(t)
    BY <1>1, <2>7 DEF ClaimOutbound, SuppressOutbound, ReplyError
  <2>8. CASE SendText(t) \/ SendError(t) \/ MarkDeliveryFailure(t)
    BY <1>1, <2>8 DEF SendText, SendError, MarkDeliveryFailure
  <2>9. CASE RecordSent(t) \/ RecordSentError(t)
    BY <1>1, <2>9 DEF RecordSent, RecordSentError
  <2>10. CASE ReleaseMessageLock(t) \/ ReleaseError(t)
    BY <1>1, <2>10 DEF ReleaseMessageLock, ReleaseError
  <2>11. CASE CompleteJob(t) \/ CompleteError(t)
    BY <1>1, <2>11 DEF CompleteJob, CompleteError, NextJob
  <2>12. CASE FailJob(t)
    <3>1. m \in Messages
      BY <2>12 DEF FailJob, TicksInv, Busy
    <3>2. attempts' = [attempts EXCEPT ![m] = @ + 1] /\ UNCHANGED <<review, stranded>>
      BY <2>12 DEF FailJob
    <3>3. attempts'[m] > 0 /\ \A n \in Messages : attempts'[n] = 0 => attempts[n] = 0
      BY <3>1, <3>2
    <3>4. \A s \in Ticks \ {t} : pc'[s] = pc[s] /\ cur'[s] = cur[s]
      BY <2>12 DEF FailJob, NextJob
    <3> QED BY <1>1, <3>2, <3>3, <3>4
  <2> QED BY <1>5, <2>1, <2>2, <2>3, <2>4, <2>5, <2>6, <2>7, <2>8, <2>9, <2>10, <2>11,
             <2>12 DEF Turn
<1>6. ASSUME NEW T \in SUBSET Ticks, LoseTicks(T) PROVE ReviewsInv'
  <2>1. \A s \in Ticks : pc[s] \in Telling => cur[s] \in Owned[s]
    BY DEF Owned, Busy, InTurn
  <2>2. /\ stranded \subseteq stranded'
        /\ \A s \in T : Owned[s] \subseteq stranded'
    BY <1>6 DEF LoseTicks
  <2>3. UNCHANGED <<review, attempts>>
    BY <1>6 DEF LoseTicks, dbVars
  <2>4. \A s \in Ticks \ T : pc'[s] = pc[s] /\ cur'[s] = cur[s]
    BY <1>6 DEF LoseTicks
  <2> SUFFICES ASSUME NEW m \in Messages, review[m] = "paused", attempts[m] = 0
               PROVE  \/ m \in stranded'
                      \/ \E s \in Ticks : cur'[s] = m /\ pc'[s] \in Telling
    BY <2>3
  <2>5. ASSUME NEW s \in Ticks, cur[s] = m, pc[s] \in Telling
        PROVE  \/ m \in stranded'
               \/ cur'[s] = m /\ pc'[s] \in Telling
    BY <2>1, <2>2, <2>4, <2>5
  <2> QED BY <2>2, <2>5
<1>7. ASSUME NEW t \in Ticks, FailJobError(t) PROVE ReviewsInv'
  BY <1>6, <1>7 DEF FailJobError
<1>8. ASSUME NEW p \in Processes, Crash(p) PROVE ReviewsInv'
  BY <1>6, <1>8 DEF Crash
<1>9. ASSUME NEW c \in Candidates, AdminTogglePause(c) PROVE ReviewsInv'
  BY <1>1, <1>9 DEF AdminTogglePause, tickVars
<1> QED
  BY <1>2, <1>3, <1>4, <1>5, <1>7, <1>8, <1>9 DEF Next

-----------------------------------------------------------------------------
(* The invariant *)

\* The invariant holds at the start.
LEMMA InitInv == ASSUME Init PROVE Inv
<1>1. TypeOK
  BY InitTypeOK
<1>2. TicksInv /\ OutboxInv /\ LocksInv /\ ReviewsInv
  BY DEF Init, TicksInv, Busy, InTurn, OutboxInv, LocksInv, RepliesFollowCommits, ReviewsInv
<1>3. \A t \in Ticks : Owned[t] = {}
  BY DEF Init, Owned, Busy, InTurn
<1>4. JobsInv
  BY <1>3 DEF Init, JobsInv, ExclusiveTurns, RunningJobsAreHeldOrStranded
<1> QED BY <1>1, <1>2, <1>4 DEF Inv

\* Inv is an invariant of the pipeline.
THEOREM Invariance == Spec => []Inv
<1>1. Inv /\ [Next]_vars => Inv'
  BY NextTypeOK, NextTicksInv, NextJobsInv, NextOutboxInv, NextLocksInv, NextReviewsInv
  DEF Inv
<1> QED BY InitInv, <1>1, PTL DEF Spec

\* Every variable keeps its type.
THEOREM TypeCorrect == Spec => []TypeOK
<1>1. Inv => TypeOK
  BY DEF Inv
<1> QED BY Invariance, <1>1, PTL

\* No message is answered twice, for any number of retries, overlapping ticks,
\* crashes and repeated webhooks.
THEOREM ReplySafety == Spec => []AtMostOneReply
<1>1. Inv => AtMostOneReply
  BY DEF Inv, OutboxInv, AtMostOneReply
<1> QED BY Invariance, <1>1, PTL

\* Two ticks never work on the same job.
THEOREM MutualExclusion == Spec => []ExclusiveTurns
<1>1. Inv => ExclusiveTurns
  BY DEF Inv, JobsInv
<1> QED BY Invariance, <1>1, PTL

\* A job is RUNNING exactly while a tick holds it or after its tick was lost.
THEOREM NoJobIsForgotten == Spec => []RunningJobsAreHeldOrStranded
<1>1. Inv => RunningJobsAreHeldOrStranded
  BY DEF Inv, JobsInv
<1> QED BY Invariance, <1>1, PTL

\* A DONE job whose lock was not leaked committed the effects of its turn, and
\* the reply it owed has an outbox row that tells what became of it.
THEOREM DoneTurnsAreSettled ==
  Spec => [](DoneTurnsWereCommitted /\ OwedRepliesAreAccountedFor)
<1>1. Inv => DoneTurnsWereCommitted /\ OwedRepliesAreAccountedFor
  BY DEF Inv, TypeOK, LocksInv, Settled, DoneTurnsWereCommitted, OwedRepliesAreAccountedFor
<1> QED BY Invariance, <1>1, PTL

\* The provider hears of a turn only after its transaction.
THEOREM CommitBeforeReply == Spec => []RepliesFollowCommits
<1>1. Inv => RepliesFollowCommits
  BY DEF Inv, LocksInv
<1> QED BY Invariance, <1>1, PTL

\* A turn that is over told the supervisor of its pause, or failed once before.
THEOREM ReviewsAreTold == Spec => []ReviewsGoSilentOnlyAfterAFailure
<1>1. ASSUME Inv, NEW m \in Messages, status[m] = "DONE", review[m] = "paused"
      PROVE  attempts[m] > 0
  <2>1. m \notin stranded
    BY <1>1 DEF Inv, JobsInv, RunningJobsAreHeldOrStranded
  <2>2. ~ \E t \in Ticks : cur[t] = m /\ pc[t] \in {"notify", "release", "fail"}
    BY <1>1, OneHolder DEF Inv, Busy, InTurn
  <2> QED BY <1>1, <2>1, <2>2 DEF Inv, ReviewsInv, TypeOK
<1>2. Inv => ReviewsGoSilentOnlyAfterAFailure
  BY <1>1 DEF ReviewsGoSilentOnlyAfterAFailure
<1> QED BY Invariance, <1>2, PTL

-----------------------------------------------------------------------------
(* Refinement *)

\* What a step does to the turns: at most one of them is admitted, answered or
\* closed.
LEMMA NextRefines ==
  ASSUME Inv, [Next]_vars
  PROVE  [Delivery!Next]_(Delivery!vars)
<1> USE DEF Inv, TypeOK, JobStatus, GoTo, jobVars, turnVars, worldVars
<1>1. ASSUME UNCHANGED <<status, accepted>>
      PROVE  UNCHANGED Delivery!vars
  BY <1>1 DEF Delivery!vars, TurnPhase
<1>2. CASE UNCHANGED vars
  BY <1>1, <1>2 DEF vars, dbVars
<1>3. ASSUME NEW m \in Messages, ReceiveWebhook(m)
      PROVE  Delivery!Admit(m) \/ UNCHANGED Delivery!vars
  <2>1. CASE status[m] = "NONE"
    <3>1. status' = [status EXCEPT ![m] = "PENDING"] /\ accepted' = accepted
      BY <1>3, <2>1 DEF ReceiveWebhook, EnqueueInboundMessage
    <3>2. TurnPhase' = [TurnPhase EXCEPT ![m] = "open"] /\ TurnPhase[m] = "unknown"
      BY <2>1, <3>1 DEF TurnPhase
    <3> QED BY <3>1, <3>2 DEF Delivery!Admit
  <2>2. CASE status[m] # "NONE"
    BY <1>1, <1>3, <2>2 DEF ReceiveWebhook, EnqueueInboundMessage
  <2> QED BY <2>1, <2>2
<1>4. ASSUME NEW t \in Ticks, ClaimDueJobs(t) PROVE UNCHANGED Delivery!vars
  <2>1. PICK jobs \in SUBSET Pending :
          status' = [m \in Messages |-> IF m \in jobs THEN "RUNNING" ELSE status[m]]
    BY <1>4 DEF ClaimDueJobs, Due
  <2>2. TurnPhase' = TurnPhase
    BY <2>1 DEF Pending, TurnPhase
  <2>3. accepted' = accepted
    BY <1>4 DEF ClaimDueJobs
  <2> QED BY <2>2, <2>3 DEF Delivery!vars
<1>5. ASSUME NEW t \in Ticks, Accept(t), pc[t] = "send", status' = status
      PROVE  Delivery!Answer(cur[t])
  <2>1. cur[t] \in Messages /\ status[cur[t]] = "RUNNING"
    BY <1>5, OneHolder DEF Busy, InTurn
  <2>2. accepted[cur[t]] = 0
    BY <1>5 DEF OutboxInv
  <2>3. accepted' = [accepted EXCEPT ![cur[t]] = 1]
    BY <1>5, <2>2 DEF Accept
  <2> QED BY <1>5, <2>1, <2>2, <2>3 DEF Delivery!Answer, TurnPhase
<1>6. ASSUME NEW t \in Ticks, Turn(t)
      PROVE  \/ \E m \in Messages : Delivery!Answer(m) \/ Delivery!Close(m)
             \/ UNCHANGED Delivery!vars
  <2>1. ASSUME NEW m \in Messages,
               AcquireMessageLock(t, m) \/ FindLockTaken(t, m) \/ AcquireError(t, m)
        PROVE  UNCHANGED Delivery!vars
    BY <1>1, <2>1 DEF AcquireMessageLock, FindLockTaken, AcquireError
  <2>2. CASE BuildAndDecide(t) \/ BuildError(t) \/ Rollback(t) \/ NotifySupervisor(t)
             \/ NotifyError(t)
    BY <1>1, <2>2 DEF BuildAndDecide, BuildError, Rollback, NotifySupervisor, NotifyError
  <2>3. CASE CommitSilent(t) \/ CommitReply(t) \/ CommitReview(t) \/ CommitReviewMiss(t)
    BY <1>1, <2>3 DEF CommitSilent, CommitReply, CommitReview, CommitReviewMiss
  <2>4. CASE ClaimOutbound(t) \/ SuppressOutbound(t) \/ ReplyError(t)
             \/ MarkDeliveryFailure(t) \/ RecordSent(t) \/ RecordSentError(t)
    BY <1>1, <2>4
    DEF ClaimOutbound, SuppressOutbound, ReplyError, MarkDeliveryFailure, RecordSent,
        RecordSentError
  <2>5. CASE ReleaseMessageLock(t) \/ ReleaseError(t) \/ CompleteError(t)
    BY <1>1, <2>5 DEF ReleaseMessageLock, ReleaseError, CompleteError
  <2>6. ASSUME SendText(t) \/ SendError(t)
        PROVE  Delivery!Answer(cur[t]) \/ UNCHANGED Delivery!vars
    <3>1. pc[t] = "send" /\ status' = status /\ (Accept(t) \/ UNCHANGED accepted)
      BY <2>6 DEF SendText, SendError
    <3> QED BY <1>1, <1>5, <3>1
  <2>7. ASSUME SendText(t) \/ SendError(t) PROVE cur[t] \in Messages
    BY <2>7, OneHolder DEF SendText, SendError, Busy, InTurn
  <2>8. ASSUME CompleteJob(t) \/ FailJob(t)
        PROVE  cur[t] \in Messages /\ status[cur[t]] = "RUNNING" /\ accepted' = accepted
    BY <2>8, OneHolder DEF CompleteJob, FailJob, Busy
  <2>9. CASE CompleteJob(t)
    <3>1. status' = [status EXCEPT ![cur[t]] = "DONE"]
      BY <2>9 DEF CompleteJob
    <3>2. /\ TurnPhase[cur[t]] = "open"
          /\ TurnPhase' = [TurnPhase EXCEPT ![cur[t]] = "closed"]
      BY <2>8, <2>9, <3>1 DEF TurnPhase
    <3> QED BY <2>8, <2>9, <3>2 DEF Delivery!Close
  <2>10. CASE FailJob(t)
    <3>1. \E s \in {"PENDING", "FAILED"} : status' = [status EXCEPT ![cur[t]] = s]
      BY <2>10 DEF FailJob
    <3>2. CASE status' = [status EXCEPT ![cur[t]] = "FAILED"]
      <4>1. /\ TurnPhase[cur[t]] = "open"
            /\ TurnPhase' = [TurnPhase EXCEPT ![cur[t]] = "closed"]
        BY <2>8, <2>10, <3>2 DEF TurnPhase
      <4> QED BY <2>8, <2>10, <4>1 DEF Delivery!Close
    <3>3. CASE status' = [status EXCEPT ![cur[t]] = "PENDING"]
      <4>1. TurnPhase' = TurnPhase
        BY <2>8, <2>10, <3>3 DEF TurnPhase
      <4> QED BY <2>8, <2>10, <4>1 DEF Delivery!vars
    <3> QED BY <3>1, <3>2, <3>3
  <2> QED BY <1>6, <2>1, <2>2, <2>3, <2>4, <2>5, <2>6, <2>7, <2>9, <2>10 DEF Turn
<1>7. ASSUME NEW T \in SUBSET Ticks, LoseTicks(T) PROVE UNCHANGED Delivery!vars
  BY <1>1, <1>7 DEF LoseTicks, dbVars
<1>8. ASSUME NEW t \in Ticks, FailJobError(t) PROVE UNCHANGED Delivery!vars
  BY <1>7, <1>8 DEF FailJobError
<1>9. ASSUME NEW p \in Processes, Crash(p) PROVE UNCHANGED Delivery!vars
  BY <1>7, <1>9 DEF Crash
<1>10. ASSUME NEW c \in Candidates, AdminTogglePause(c) PROVE UNCHANGED Delivery!vars
  BY <1>1, <1>10 DEF AdminTogglePause
<1> QED
  BY <1>2, <1>3, <1>4, <1>6, <1>8, <1>9, <1>10 DEF Next, Delivery!Next

\* The pipeline implements TurnDelivery: every message is admitted once,
\* answered at most once and only while its turn is open, and closed for good.
THEOREM Refinement == Spec => DeliversTurns
<1>1. Init => Delivery!Init
  BY DEF Init, Delivery!Init, TurnPhase
<1>2. Inv /\ [Next]_vars => [Delivery!Next]_(Delivery!vars)
  BY NextRefines
<1> QED BY Invariance, <1>1, <1>2, PTL DEF Spec, DeliversTurns, Delivery!Spec

=============================================================================

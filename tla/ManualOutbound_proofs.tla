------------------------- MODULE ManualOutbound_proofs -------------------------
(***************************************************************************)
(* Proofs about ManualOutbound, for any number of requests and events.     *)
(***************************************************************************)
EXTENDS ManualOutbound, TLAPS

-----------------------------------------------------------------------------
(* What the steps write *)

\* The snapshot and the claim that a preparation stores.
LEMMA PrepareOutcome ==
  ASSUME NEW r \in Requests, Prepare(r), TypeOK
  PROVE  /\ pc[r] = "prepare" /\ pc' = [pc EXCEPT ![r] = "send"]
         /\ Claimable /\ ~Duplicate(r, ignored[r])
         /\ Kind[r] # "text" => selection = "APROBADO"
         /\ previous' = [previous EXCEPT ![r] = candidate]
         /\ claimed' = [claimed EXCEPT ![r] = candidate']
         /\ claimed'[r] = candidate' /\ previous'[r] = candidate
         /\ candidate' \in Snapshot
         /\ candidate'.paused /\ candidate'.mode = "sending" /\ candidate'.since = clock
         /\ candidate'.reminder = "CANCELLED" /\ candidate'.out = candidate.out
         /\ clock' = clock + 1
         /\ row' = [row EXCEPT ![r] = "SENDING"]
         /\ UNCHANGED <<selection, aged, events, ignored, fault, accepted, historyVars>>
<1> DEFINE claim == [paused |-> TRUE, mode |-> "sending", since |-> clock,
                     reminder |-> "CANCELLED", out |-> candidate.out]
<1>1. candidate' = claim /\ claimed' = [claimed EXCEPT ![r] = claim]
  BY DEF Prepare
<1>2. /\ claim.paused /\ claim.mode = "sending" /\ claim.since = clock
      /\ claim.reminder = "CANCELLED" /\ claim.out = candidate.out
  OBVIOUS
<1>3. claim \in Snapshot
  BY DEF TypeOK, Snapshot, ResumeMode, ReminderState
<1> HIDE DEF claim
<1> QED BY <1>1, <1>2, <1>3 DEF Prepare, TypeOK, GoTo

\* What persistProviderFailure leaves in the candidate.
LEMMA FailureOutcome ==
  ASSUME NEW r \in Requests, PersistFailure(r), TypeOK, fault[r] \in SendFault
  PROVE  LET rejected == fault[r] = "rejected" IN
         /\ pc[r] = "fail" /\ pc' = [pc EXCEPT ![r] = "done"]
         /\ row' = [row EXCEPT ![r] = IF rejected THEN "FAILED" ELSE "UNKNOWN"]
         /\ candidate' \in Snapshot
         /\ \/ ~OwnsClaim(r) /\ candidate' = candidate
            \/ OwnsClaim(r) /\ rejected /\ candidate' = previous[r]
            \/ /\ OwnsClaim(r) /\ ~rejected
               /\ candidate'.paused = candidate.paused /\ candidate'.mode = "unknown"
               /\ candidate'.since = candidate.since /\ candidate'.out = candidate.out
         /\ UNCHANGED <<selection, aged, clock, events, ignored, previous, claimed, fault,
                        accepted, historyVars>>
<1>1. IsConfirmedProviderRejection(AxiosError(fault[r])) <=> fault[r] = "rejected"
  BY DEF IsConfirmedProviderRejection, AxiosError, SendFault
<1> DEFINE doubtful == [candidate EXCEPT !.mode = "unknown"]
<1>2. candidate' = IF OwnsClaim(r) THEN IF fault[r] = "rejected" THEN previous[r] ELSE doubtful
                                   ELSE candidate
  BY <1>1 DEF PersistFailure
<1>3. /\ doubtful \in Snapshot
      /\ doubtful.paused = candidate.paused /\ doubtful.mode = "unknown"
      /\ doubtful.since = candidate.since /\ doubtful.out = candidate.out
  BY DEF TypeOK, Snapshot, ResumeMode
<1>4. previous[r] \in Snapshot /\ candidate \in Snapshot
  BY DEF TypeOK
<1> HIDE DEF doubtful
<1> QED BY <1>1, <1>2, <1>3, <1>4 DEF PersistFailure, GoTo

\* What the finalization leaves in the candidate: untouched unless the request
\* still owns it, otherwise released with the explicit pause it found or taken over.
LEMMA FinalOutcome ==
  ASSUME NEW r \in Requests, Finalize(r), TypeOK
  PROVE  /\ pc[r] = "finalize" /\ pc' = [pc EXCEPT ![r] = "done"]
         /\ row' = [row EXCEPT ![r] = "SENT"]
         /\ clock' = clock + 1
         /\ candidate' \in Snapshot
         /\ \/ ~OwnsClaim(r) /\ candidate' = candidate /\ selection' = selection
            \/ /\ OwnsClaim(r)
               /\ previous[r].paused /\ previous[r].mode = "explicit pause"
               /\ candidate'.paused /\ candidate'.mode = "explicit pause"
               /\ candidate'.since = previous[r].since /\ candidate'.out = clock
            \/ /\ OwnsClaim(r)
               /\ ~(previous[r].paused /\ previous[r].mode = "explicit pause")
               /\ candidate'.paused = candidate.paused
               /\ candidate'.mode \in {"resume from panel", "handoff"}
               /\ candidate'.since \in {candidate.since, clock}
               /\ candidate'.out = clock
         /\ selection' \in Selection
         /\ UNCHANGED <<aged, events, ignored, previous, claimed, fault, accepted, historyVars>>
<1> USE DEF TypeOK
<1>1. previous[r] \in Snapshot /\ candidate \in Snapshot /\ clock \in Nat
  OBVIOUS
<1>2. CASE ~OwnsClaim(r)
  BY <1>2 DEF Finalize, GoTo
<1>3. CASE OwnsClaim(r) /\ previous[r].paused /\ previous[r].mode = "explicit pause"
  <2> DEFINE kept == [previous[r] EXCEPT !.out = clock]
  <2>1. Finalized(r) = kept
    BY <1>3 DEF Finalized
  <2>2. /\ kept \in Snapshot /\ kept.paused /\ kept.mode = "explicit pause"
        /\ kept.since = previous[r].since /\ kept.out = clock
    BY <1>1, <1>3 DEF Snapshot
  <2> HIDE DEF kept
  <2>3. ~HandoffApplies(r)
    BY <2>1, <2>2 DEF HandoffApplies
  <2>4. candidate' = Finalized(r) /\ selection' = selection
    BY <1>3, <2>3 DEF Finalize
  <2> QED BY <1>3, <2>1, <2>2, <2>4 DEF Finalize, GoTo
<1>4. CASE OwnsClaim(r) /\ ~(previous[r].paused /\ previous[r].mode = "explicit pause")
  <2> DEFINE taken == TakenOver("resume from panel")
  <2>1. Finalized(r) = taken
    BY <1>4 DEF Finalized
  <2>2. /\ taken \in Snapshot
        /\ taken.paused = candidate.paused /\ taken.mode = "resume from panel"
        /\ taken.since = candidate.since /\ taken.out = clock
    BY <1>1 DEF TakenOver, Snapshot, ResumeMode
  <2>3. CASE candidate' = taken /\ selection' = selection
    <3> HIDE DEF taken
    <3> QED BY <1>4, <2>2, <2>3 DEF Finalize, GoTo
  <2>4. CASE /\ candidate' = [paused |-> TRUE, mode |-> "handoff", since |-> clock,
                               reminder |-> "CANCELLED", out |-> clock]
             /\ selection' = "CONTACTADO" /\ taken.paused
    <3> HIDE DEF taken
    <3>1. /\ candidate' \in Snapshot
          /\ candidate'.paused = candidate.paused /\ candidate'.mode = "handoff"
          /\ candidate'.since = clock /\ candidate'.out = clock
      BY <2>2, <2>4, <1>1 DEF Snapshot, ResumeMode, ReminderState
    <3> QED BY <1>4, <2>4, <3>1 DEF Finalize, GoTo, Selection
  <2> QED BY <1>4, <2>1, <2>3, <2>4 DEF Finalize, HandoffApplies
<1> QED BY <1>2, <1>3, <1>4

\* A step that writes neither the candidate nor a row.
Quiet(r) ==
  \/ Start(r) \/ PrepareRefused(r) \/ Send(r) \/ SendError(r) \/ HandoffConflict(r)
  \/ PersistenceError(r) \/ RowAges(r)

\* What quiet steps leave alone.
LEMMA QuietSteps ==
  ASSUME NEW r \in Requests, Quiet(r) \/ Crash
  PROVE  UNCHANGED <<candidate, selection, row, clock, previous, claimed, held, overruled,
                     rewritten, restated>>
<1> USE DEF rowVars, requestVars, historyVars
<1>1. CASE Start(r) \/ PrepareRefused(r)
  BY <1>1 DEF Start, PrepareRefused
<1>2. CASE Send(r) \/ SendError(r)
  BY <1>2 DEF Send, SendError
<1>3. CASE HandoffConflict(r) \/ PersistenceError(r)
  BY <1>3 DEF HandoffConflict, PersistenceError
<1>4. CASE RowAges(r)
  BY <1>4 DEF RowAges
<1>5. CASE Crash
  BY <1>5 DEF Crash
<1> QED BY <1>1, <1>2, <1>3, <1>4, <1>5 DEF Quiet

-----------------------------------------------------------------------------
(* What the panel and the bot write *)

SomeEvent ==
  \/ AdminPause \/ AdminResume \/ OpenWhatsApp \/ EditStatus \/ EditForReview \/ ResendConsent
  \/ (\E t \in Turn : BotTurn(t)) \/ AutomaticSent \/ AssociateCampaign

\* An administrator's pause.
Holds ==
  /\ ~candidate.paused /\ candidate'.paused /\ candidate'.mode = "explicit pause"
  /\ held' = "whole" /\ UNCHANGED <<overruled, rewritten>>

\* The panel frees the candidate, or takes it for a person.
Frees ==
  candidate'.mode = "resume from panel" /\ held' = "no" /\ Overrules /\ UNCHANGED rewritten

\* The panel pauses anew under the mode there was.
Reviews ==
  /\ candidate'.paused /\ candidate'.mode = candidate.mode /\ candidate'.since = clock
  /\ held' = (IF held = "whole" /\ Blocking # {} THEN "displaced" ELSE held)
  /\ Overrules /\ UNCHANGED rewritten

\* A pause, or a new resume mode, of a candidate that nobody holds.
Unheld ==
  /\ ~candidate.paused
  /\ \/ candidate'.paused /\ candidate'.mode = candidate.mode /\ candidate'.since = clock
     \/ candidate'.mode = "asking"
  /\ UNCHANGED <<held, overruled, rewritten>>

\* The bot writes the resume mode over whatever it says.
Rewrites ==
  /\ candidate.paused => candidate'.paused
  /\ candidate'.mode \in {"none", "asking"}
  /\ Displaces /\ UNCHANGED overruled

\* Whatever else is written, the pause and its mode stay.
Touches ==
  /\ candidate'.paused = candidate.paused /\ candidate'.mode = candidate.mode
  /\ candidate'.since = candidate.since
  /\ \/ candidate' = candidate
     \/ candidate'.out = clock \/ candidate'.reminder = "SKIPPED"
  /\ UNCHANGED <<held, overruled, rewritten>>

EventKind == Holds \/ Frees \/ Reviews \/ Unheld \/ Rewrites \/ Touches

\* The status only changes with the candidate, or is remembered to have.
StatusIsTold ==
  \/ selection' = selection
  \/ restated' = restated \cup InFlight
  \/ candidate'.mode = "resume from panel" \/ candidate'.reminder = "SKIPPED"

Stamped ==
  /\ candidate' \in Snapshot
  /\ candidate'.since \in {0, candidate.since, clock}
  /\ candidate'.out \in {candidate.out, clock}

\* What a turn of the bot writes.
LEMMA TurnOutcome ==
  ASSUME TypeOK, NEW t \in Turn, BotTurn(t)
  PROVE  /\ Stamped /\ StatusIsTold /\ EventKind
         /\ selection' \in Selection /\ restated' = restated
<1>1. /\ candidate \in Snapshot /\ clock \in Nat /\ selection \in Selection
      /\ t.pausing \in BOOLEAN /\ t.ending \in BOOLEAN /\ t.mode \in {"kept", "none", "asking"}
  BY DEF TypeOK, Turn
<1> DEFINE pauses == t.pausing /\ ~candidate.paused
           writes == (t.pausing => pauses) /\ t.mode # "kept"
           paused == IF pauses
                       THEN [candidate EXCEPT !.paused = TRUE, !.since = clock,
                                              !.reminder = "CANCELLED"]
                       ELSE candidate
           written == IF writes THEN [paused EXCEPT !.mode = t.mode] ELSE paused
           ended == IF t.ending THEN [written EXCEPT !.reminder = "SKIPPED"] ELSE written
<1>2. /\ candidate' = ended
      /\ selection' \in {selection, "REGISTRADO"}
      /\ selection' # selection => t.ending
      /\ IF writes THEN Displaces ELSE UNCHANGED <<rewritten, held>>
      /\ UNCHANGED <<overruled, restated>>
  BY DEF BotTurn
<1>3. /\ paused \in Snapshot /\ paused.out = candidate.out /\ paused.mode = candidate.mode
      /\ pauses => paused.paused /\ paused.since = clock
      /\ ~pauses => paused = candidate
  BY <1>1 DEF Snapshot, ReminderState
<1> HIDE DEF paused
<1>4. /\ written \in Snapshot /\ written.out = paused.out
      /\ written.paused = paused.paused /\ written.since = paused.since
      /\ writes => written.mode = t.mode
      /\ ~writes => written = paused
  BY <1>1, <1>3 DEF Snapshot, ResumeMode
<1> HIDE DEF written
<1>5. /\ ended \in Snapshot /\ ended.out = written.out
      /\ ended.paused = written.paused /\ ended.since = written.since
      /\ ended.mode = written.mode
      /\ t.ending => ended.reminder = "SKIPPED"
      /\ ~t.ending => ended = written
  BY <1>1, <1>4 DEF Snapshot, ReminderState
<1> HIDE DEF ended
<1>6. Stamped /\ StatusIsTold /\ selection' \in Selection /\ restated' = restated
  BY <1>1, <1>2, <1>3, <1>4, <1>5 DEF Stamped, StatusIsTold, Selection
<1>7. CASE writes
  <2>1. candidate'.mode \in {"none", "asking"} /\ (candidate.paused => candidate'.paused)
    BY <1>1, <1>2, <1>3, <1>4, <1>5, <1>7
  <2> QED BY <1>2, <1>6, <1>7, <2>1 DEF EventKind, Rewrites
<1>8. CASE ~writes /\ pauses
  <2>1. ~candidate.paused /\ candidate'.paused /\ candidate'.since = clock
        /\ candidate'.mode = candidate.mode
    BY <1>2, <1>3, <1>4, <1>5, <1>8
  <2> QED BY <1>2, <1>6, <1>8, <2>1 DEF EventKind, Unheld
<1>9. CASE ~writes /\ ~pauses
  <2>1. /\ candidate'.paused = candidate.paused /\ candidate'.since = candidate.since
        /\ candidate'.mode = candidate.mode
        /\ candidate' = candidate \/ candidate'.reminder = "SKIPPED"
    BY <1>2, <1>3, <1>4, <1>5, <1>9
  <2> QED BY <1>2, <1>6, <1>9, <2>1 DEF EventKind, Touches
<1> QED BY <1>6, <1>7, <1>8, <1>9

\* What an event writes.
LEMMA EventOutcome ==
  ASSUME TypeOK, SomeEvent
  PROVE  /\ clock' = clock + 1 /\ events' \in 0..MaxEvents
         /\ UNCHANGED <<row, aged, pc, ignored, previous, claimed, fault, accepted, cut>>
         /\ Stamped /\ StatusIsTold /\ EventKind
         /\ selection' \in Selection
         /\ restated' \in {restated, restated \cup InFlight}
<1>0. candidate \in Snapshot /\ clock \in Nat /\ selection \in Selection /\ events \in 0..MaxEvents
  BY DEF TypeOK
<1>1. Event
  BY DEF SomeEvent, AdminPause, AdminResume, OpenWhatsApp, EditStatus, EditForReview,
         ResendConsent, BotTurn, AutomaticSent, AssociateCampaign
<1>2. /\ clock' = clock + 1 /\ events' \in 0..MaxEvents
      /\ UNCHANGED <<row, aged, pc, ignored, previous, claimed, fault, accepted, cut>>
  BY <1>0, <1>1, ManualAssumption DEF Event, rowVars, requestVars, ManualAssumption
<1> DEFINE Goal == /\ Stamped /\ StatusIsTold /\ EventKind
                   /\ selection' \in Selection
                   /\ restated' \in {restated, restated \cup InFlight}
<1>3. CASE AdminPause
  <2>1. Stamped /\ Holds
    BY <1>0, <1>3 DEF AdminPause, Stamped, Holds, Snapshot, ResumeMode, ReminderState
  <2> QED BY <1>0, <1>2, <1>3, <2>1 DEF AdminPause, StatusIsTold, EventKind
<1>4. CASE AdminResume
  <2>1. Stamped /\ Frees
    BY <1>0, <1>4 DEF AdminResume, Stamped, Frees, Snapshot, ResumeMode, ReminderState
  <2> QED BY <1>0, <1>2, <1>4, <2>1 DEF AdminResume, StatusIsTold, EventKind
<1>5. CASE OpenWhatsApp
  <2>1. Stamped /\ Frees
    BY <1>0, <1>5 DEF OpenWhatsApp, Stamped, Frees, Snapshot, ResumeMode, ReminderState
  <2> QED BY <1>0, <1>2, <1>5, <2>1 DEF OpenWhatsApp, StatusIsTold, EventKind, Frees, Selection
<1>6. CASE EditStatus
  <2>1. Stamped /\ Touches
    BY <1>0, <1>6 DEF EditStatus, Stamped, Touches
  <2> QED BY <1>0, <1>2, <1>6, <2>1 DEF EditStatus, StatusIsTold, EventKind
<1>7. CASE EditForReview
  <2> DEFINE reviewed == [candidate EXCEPT !.paused = TRUE, !.since = clock,
                                           !.reminder = "SKIPPED"]
  <2>1. /\ reviewed \in Snapshot /\ reviewed.paused /\ reviewed.mode = candidate.mode
        /\ reviewed.since = clock /\ reviewed.reminder = "SKIPPED"
        /\ reviewed.out = candidate.out
    BY <1>0 DEF Snapshot, ReminderState
  <2>2. candidate' = reviewed
    BY <1>7 DEF EditForReview
  <2> HIDE DEF reviewed
  <2> QED BY <1>0, <1>2, <1>7, <2>1, <2>2
          DEF EditForReview, StatusIsTold, EventKind, Reviews, Stamped
<1>8. CASE ResendConsent
  <2> DEFINE asked == [candidate EXCEPT !.mode = "asking", !.reminder = "SKIPPED"]
  <2>1. /\ asked \in Snapshot /\ asked.mode = "asking"
        /\ asked.since = candidate.since /\ asked.out = candidate.out
    BY <1>0 DEF Snapshot, ReminderState, ResumeMode
  <2>2. candidate' = asked
    BY <1>8 DEF ResendConsent
  <2> HIDE DEF asked
  <2> QED BY <1>0, <1>2, <1>8, <2>1, <2>2
          DEF ResendConsent, StatusIsTold, EventKind, Unheld, Stamped
<1>9. ASSUME NEW t \in Turn, BotTurn(t) PROVE Goal
  BY <1>9, TurnOutcome
<1>10. CASE AutomaticSent
  <2> DEFINE sent == TakenOver(candidate.mode)
  <2>1. /\ sent \in Snapshot /\ sent.paused = candidate.paused /\ sent.mode = candidate.mode
        /\ sent.since = candidate.since /\ sent.out = clock
    BY <1>0 DEF Snapshot, TakenOver
  <2>2. candidate' = sent
    BY <1>10 DEF AutomaticSent
  <2> HIDE DEF sent
  <2> QED BY <1>0, <1>2, <1>10, <2>1, <2>2
          DEF AutomaticSent, StatusIsTold, EventKind, Touches, Stamped
<1>11. CASE AssociateCampaign
  <2> DEFINE asked == [candidate EXCEPT !.mode = "asking"]
  <2>1. /\ asked \in Snapshot /\ asked.paused = candidate.paused /\ asked.mode = "asking"
        /\ asked.since = candidate.since /\ asked.out = candidate.out
    BY <1>0 DEF Snapshot, ResumeMode
  <2>2. candidate' = asked
    BY <1>11 DEF AssociateCampaign
  <2> HIDE DEF asked
  <2> QED BY <1>0, <1>2, <1>11, <2>1, <2>2
          DEF AssociateCampaign, StatusIsTold, EventKind, Rewrites, Stamped
<1> QED BY <1>2, <1>3, <1>4, <1>5, <1>6, <1>7, <1>8, <1>9, <1>10, <1>11 DEF SomeEvent

\* The kinds of steps there are.
LEMMA StepCases ==
  ASSUME [Next]_vars
  PROVE  \/ UNCHANGED vars
         \/ \E r \in Requests : Prepare(r) \/ PersistFailure(r) \/ Finalize(r) \/ Quiet(r)
         \/ Crash
         \/ SomeEvent
  BY DEF Next, Quiet, SomeEvent

-----------------------------------------------------------------------------
(* Types *)

\* The initial states are well typed.
LEMMA InitTypeOK == ASSUME Init PROVE TypeOK
<1>1. NoSnapshot \in Snapshot
  BY DEF NoSnapshot, Snapshot, ResumeMode, ReminderState
<1>2. events \in 0..MaxEvents
  BY ManualAssumption DEF ManualAssumption, Init
<1>3. /\ previous \in [Requests -> Snapshot] /\ claimed \in [Requests -> Snapshot]
      /\ candidate \in Snapshot
  BY <1>1 DEF Init
<1> QED
  BY <1>2, <1>3 DEF Init, TypeOK, DeliveryState, PcVal, Selection

\* An event writes its part of the history within its types.
LEMMA EventTypes ==
  ASSUME TypeOK, EventKind
  PROVE  /\ held' \in {"no", "whole", "displaced"}
         /\ overruled' \subseteq Requests /\ rewritten' \subseteq Requests
<1>1. InFlight \subseteq Requests /\ Blocking \subseteq Requests
  BY DEF InFlight, Blocking
<1> QED
  BY <1>1 DEF TypeOK, EventKind, Holds, Frees, Reviews, Unheld, Rewrites, Touches, Overrules,
              Displaces

\* Every step keeps the types.
LEMMA NextTypeOK ==
  ASSUME TypeOK, RequestsInv, [Next]_vars
  PROVE  TypeOK'
<1> USE ManualAssumption
        DEF ManualAssumption, TypeOK, GoTo, PcVal, DeliveryState, rowVars, requestVars,
            historyVars
<1>1. CASE UNCHANGED vars
  BY <1>1 DEF vars
<1>2. ASSUME NEW r \in Requests, Start(r) PROVE TypeOK'
  BY <1>2 DEF Start
<1>3. ASSUME NEW r \in Requests, Prepare(r) PROVE TypeOK'
  <2>1. /\ candidate' \in Snapshot /\ claimed' = [claimed EXCEPT ![r] = candidate']
        /\ previous' = [previous EXCEPT ![r] = candidate] /\ clock' = clock + 1
        /\ row' = [row EXCEPT ![r] = "SENDING"] /\ pc' = [pc EXCEPT ![r] = "send"]
        /\ UNCHANGED <<selection, aged, events, ignored, fault, accepted, historyVars>>
    BY <1>3, PrepareOutcome
  <2> QED BY <2>1
<1>4. ASSUME NEW r \in Requests, PrepareRefused(r) \/ HandoffConflict(r) \/ PersistenceError(r)
      PROVE  TypeOK'
  BY <1>4 DEF PrepareRefused, HandoffConflict, PersistenceError
<1>5. ASSUME NEW r \in Requests, Send(r) PROVE TypeOK'
  BY <1>5 DEF Send
<1>6. ASSUME NEW r \in Requests, SendError(r) PROVE TypeOK'
  <2>1. /\ fault' \in [Requests -> SendFault \cup {"none"}]
        /\ accepted' \subseteq Requests
    BY <1>6 DEF SendError
  <2> QED BY <1>6, <2>1 DEF SendError
<1>7. ASSUME NEW r \in Requests, PersistFailure(r) PROVE TypeOK'
  <2>1. fault[r] \in SendFault
    BY <1>7 DEF PersistFailure, RequestsInv
  <2>2. /\ candidate' \in Snapshot /\ pc' = [pc EXCEPT ![r] = "done"]
        /\ \E d \in {"FAILED", "UNKNOWN"} : row' = [row EXCEPT ![r] = d]
        /\ UNCHANGED <<selection, aged, clock, events, ignored, previous, claimed, fault,
                       accepted, historyVars>>
    BY <1>7, <2>1, FailureOutcome
  <2> QED BY <2>2
<1>8. ASSUME NEW r \in Requests, Finalize(r) PROVE TypeOK'
  <2>1. /\ candidate' \in Snapshot /\ selection' \in Selection
        /\ clock' = clock + 1
        /\ row' = [row EXCEPT ![r] = "SENT"] /\ pc' = [pc EXCEPT ![r] = "done"]
        /\ UNCHANGED <<aged, events, ignored, previous, claimed, fault, accepted, historyVars>>
    BY <1>8, FinalOutcome
  <2> QED BY <2>1
<1>9. ASSUME NEW r \in Requests, RowAges(r) PROVE TypeOK'
  BY <1>9 DEF RowAges
<1>10. CASE Crash
  BY <1>10 DEF Crash, InFlight
<1>11. CASE SomeEvent
  <2>1. /\ clock' = clock + 1 /\ events' \in 0..MaxEvents
        /\ UNCHANGED <<row, aged, pc, ignored, previous, claimed, fault, accepted, cut>>
        /\ candidate' \in Snapshot /\ selection' \in Selection
        /\ restated' \in {restated, restated \cup InFlight} /\ EventKind
    BY <1>11, EventOutcome DEF Stamped
  <2>2. /\ held' \in {"no", "whole", "displaced"}
        /\ overruled' \subseteq Requests /\ rewritten' \subseteq Requests
    BY <2>1, EventTypes
  <2>3. restated' \subseteq Requests
    BY <2>1 DEF InFlight
  <2> QED BY <2>1, <2>2, <2>3
<1> HIDE DEF TypeOK
<1> QED
  BY <1>1, <1>2, <1>3, <1>4, <1>5, <1>6, <1>7, <1>8, <1>9, <1>10, <1>11 DEF Next, SomeEvent

-----------------------------------------------------------------------------
(* Stamps and claims *)

\* Stamps stay fresh and unshared.
LEMMA NextStampsInv ==
  ASSUME TypeOK, TypeOK', StampsInv, RequestsInv, [Next]_vars
  PROVE  StampsInv'
<1> USE DEF StampsInv, Prepared
<1>0. /\ clock \in Nat /\ candidate \in Snapshot /\ candidate' \in Snapshot
      /\ previous \in [Requests -> Snapshot] /\ claimed \in [Requests -> Snapshot]
      /\ \A c \in Snapshot : c.since \in Nat /\ c.out \in Nat
      /\ row \in [Requests -> DeliveryState]
  BY DEF TypeOK, Snapshot
<1>1. CASE UNCHANGED <<candidate, row, clock, previous, claimed>>
  BY <1>1
<1>2. ASSUME NEW r \in Requests, Prepare(r) PROVE StampsInv'
  <2> USE PrepareOutcome, <1>2
  <2>1. candidate'.since < clock' /\ candidate'.out < clock'
    BY <1>0
  <2>2. ASSUME NEW s \in Prepared'
        PROVE  /\ claimed'[s].paused /\ claimed'[s].mode = "sending"
               /\ claimed'[s].reminder = "CANCELLED"
               /\ claimed'[s].since < clock' /\ claimed'[s].out < clock'
               /\ previous'[s].since < claimed'[s].since /\ previous'[s].out < clock'
    <3>1. CASE s = r
      BY <1>0, <2>1, <3>1
    <3>2. CASE s # r
      BY <1>0, <2>2, <3>2
    <3> QED BY <3>1, <3>2
  <2>3. ASSUME NEW s \in Prepared', NEW u \in Prepared', claimed'[s].since = claimed'[u].since
        PROVE  s = u
    <3>1. CASE s # r /\ u # r
      BY <1>0, <2>3, <3>1
    <3>2. ASSUME NEW v \in Prepared', v # r PROVE claimed'[v].since < clock
      BY <1>0, <3>2
    <3>3. claimed'[r].since = clock
      BY <1>0
    <3> QED BY <1>0, <2>3, <3>1, <3>2, <3>3
  <2> QED BY <2>1, <2>2, <2>3
<1>3. ASSUME NEW r \in Requests, PersistFailure(r) PROVE StampsInv'
  <2>1. fault[r] \in SendFault /\ r \in Prepared
    BY <1>3, <1>0 DEF PersistFailure, RequestsInv, InFlight
  <2>2. previous[r].since < clock /\ previous[r].out < clock
    BY <1>0, <2>1
  <2>3. /\ candidate'.since < clock /\ candidate'.out < clock
        /\ UNCHANGED <<clock, previous, claimed>>
    BY <1>3, <2>1, <2>2, FailureOutcome
  <2>4. \A s \in Prepared' : s \in Prepared
    BY <1>0, <1>3, <2>1, FailureOutcome
  <2> HIDE DEF Prepared
  <2> QED BY <1>0, <2>3, <2>4
<1>4. ASSUME clock' = clock + 1, UNCHANGED <<previous, claimed>>,
             candidate'.since < clock', candidate'.out < clock',
             \A s \in Prepared' : s \in Prepared
      PROVE  StampsInv'
  <2> HIDE DEF Prepared
  <2>1. ASSUME NEW s \in Prepared'
        PROVE  claimed[s].since < clock' /\ claimed[s].out < clock' /\ previous[s].out < clock'
    <3>1. claimed[s] \in Snapshot /\ previous[s] \in Snapshot
      BY <1>0, <1>4 DEF Prepared
    <3> QED BY <1>0, <1>4, <3>1
  <2> QED BY <1>4, <2>1
<1>5. ASSUME NEW r \in Requests, Finalize(r) PROVE StampsInv'
  <2>1. r \in Prepared
    BY <1>5, <1>0 DEF Finalize, RequestsInv, InFlight
  <2>2. /\ clock' = clock + 1 /\ UNCHANGED <<previous, claimed>>
        /\ candidate'.since \in {candidate.since, previous[r].since, clock}
        /\ candidate'.out \in {candidate.out, clock}
    BY <1>5, FinalOutcome
  <2>3. candidate'.since < clock' /\ candidate'.out < clock'
    BY <1>0, <2>1, <2>2
  <2>4. \A s \in Prepared' : s \in Prepared
    BY <1>0, <1>5, <2>1, FinalOutcome
  <2> QED BY <1>4, <2>2, <2>3, <2>4
<1>6. CASE SomeEvent
  <2>1. clock' = clock + 1 /\ UNCHANGED <<row, previous, claimed>> /\ Stamped
    BY <1>6, EventOutcome
  <2>2. candidate'.since < clock' /\ candidate'.out < clock'
    BY <1>0, <2>1 DEF Stamped
  <2> QED BY <1>4, <2>1, <2>2
<1>7. CASE UNCHANGED vars
  BY <1>1, <1>7 DEF vars, rowVars, requestVars
<1>8. ASSUME NEW r \in Requests, Quiet(r) \/ Crash PROVE StampsInv'
  BY <1>1, <1>8, QuietSteps
<1>9. CASE Crash
  BY <1>1, <1>9 DEF Crash, rowVars
<1> QED
  BY <1>2, <1>3, <1>5, <1>6, <1>7, <1>8, <1>9, StepCases

\* What an event writes is no earlier claim.
LEMMA EventsClaimNothing ==
  ASSUME TypeOK, StampsInv, SomeEvent, NEW r \in Prepared
  PROVE  candidate' = candidate \/ candidate' # claimed[r]
<1>1. /\ claimed[r].mode = "sending" /\ claimed[r].reminder = "CANCELLED"
      /\ claimed[r].since # clock /\ claimed[r].out # clock
  BY DEF StampsInv, TypeOK, Snapshot, Prepared
<1>2. EventKind
  BY EventOutcome
<1> QED
  BY <1>1, <1>2 DEF EventKind, Holds, Frees, Reviews, Unheld, Rewrites, Touches

\* A claim that somebody overtook is never the claimant's again, and its
\* snapshots stand.
LEMMA LostStays ==
  ASSUME TypeOK, StampsInv, RequestsInv, PausesInv, [Next]_vars, NEW r \in Prepared
  PROVE  /\ r \in Prepared'
         /\ claimed'[r] = claimed[r] /\ previous'[r] = previous[r]
         /\ candidate' = candidate \/ candidate' # claimed'[r]
<1>0. /\ r \in Requests /\ row[r] # "NONE"
      /\ clock \in Nat /\ row \in [Requests -> DeliveryState]
      /\ previous \in [Requests -> Snapshot] /\ claimed \in [Requests -> Snapshot]
  BY DEF TypeOK, Prepared
<1>1. claimed[r].mode = "sending" /\ claimed[r].since # clock
  <2>1. claimed[r].since \in Nat /\ claimed[r].since < clock
    BY <1>0 DEF StampsInv, Snapshot
  <2> QED BY <1>0, <2>1 DEF StampsInv
<1>2. ASSUME NEW q \in Requests, Prepare(q)
      PROVE  /\ row'[r] # "NONE" /\ claimed'[r] = claimed[r] /\ previous'[r] = previous[r]
             /\ candidate' # claimed'[r]
  <2>1. /\ pc[q] = "prepare" /\ row' = [row EXCEPT ![q] = "SENDING"]
        /\ previous' = [previous EXCEPT ![q] = candidate]
        /\ claimed' = [claimed EXCEPT ![q] = candidate']
        /\ candidate'.since = clock
    BY <1>2, PrepareOutcome
  <2>2. q # r
    BY <1>0, <2>1 DEF RequestsInv
  <2>3. row'[r] = row[r] /\ claimed'[r] = claimed[r] /\ previous'[r] = previous[r]
    BY <1>0, <2>1, <2>2
  <2> QED BY <1>0, <1>1, <2>1, <2>3
<1>3. ASSUME NEW q \in Requests, PersistFailure(q)
      PROVE  /\ row'[r] # "NONE" /\ UNCHANGED <<claimed, previous>>
             /\ candidate' = candidate \/ candidate' # claimed'[r]
  <2>1. fault[q] \in SendFault /\ q \in Prepared
    BY <1>3 DEF PersistFailure, RequestsInv, InFlight, Prepared
  <2>2. UNCHANGED <<claimed, previous>> /\ row'[r] # "NONE"
    BY <1>0, <1>3, <2>1, FailureOutcome
  <2>3. previous[q].mode # "sending"
    BY <2>1 DEF PausesInv
  <2> QED BY <1>1, <1>3, <2>1, <2>2, <2>3, FailureOutcome
<1>4. ASSUME NEW q \in Requests, Finalize(q)
      PROVE  /\ row'[r] # "NONE" /\ UNCHANGED <<claimed, previous>>
             /\ candidate' = candidate \/ candidate' # claimed'[r]
  <2>1. UNCHANGED <<claimed, previous>> /\ row'[r] # "NONE"
    BY <1>0, <1>4, FinalOutcome
  <2> QED BY <1>1, <1>4, <2>1, FinalOutcome
<1>5. CASE SomeEvent
  <2>1. UNCHANGED <<row, claimed, previous>>
    BY <1>5, EventOutcome
  <2> QED BY <1>0, <1>5, <2>1, EventsClaimNothing DEF Prepared
<1>6. ASSUME NEW q \in Requests, Quiet(q) \/ Crash
      PROVE  UNCHANGED <<candidate, row, claimed, previous>>
  BY <1>6, QuietSteps
<1>7. CASE UNCHANGED vars
  BY <1>0, <1>7 DEF vars, rowVars, requestVars, Prepared
<1> QED BY <1>0, <1>2, <1>3, <1>4, <1>5, <1>6, <1>7, StepCases DEF Prepared

-----------------------------------------------------------------------------
(* Requests *)

\* A request's counter, row and outcome agree after every step.
LEMMA NextRequestsInv ==
  ASSUME TypeOK, RequestsInv, [Next]_vars
  PROVE  RequestsInv'
<1> USE DEF RequestsInv, InFlight, Overtaken
<1>0. /\ pc \in [Requests -> PcVal] /\ row \in [Requests -> DeliveryState]
      /\ fault \in [Requests -> SendFault \cup {"none"}]
      /\ accepted \subseteq Requests /\ overruled \subseteq Requests
  BY DEF TypeOK
<1>1. CASE UNCHANGED vars
  BY <1>1 DEF vars, rowVars, requestVars, historyVars
<1>2. ASSUME NEW r \in Requests, Prepare(r) PROVE RequestsInv'
  <2>1. /\ pc[r] = "prepare" /\ pc' = [pc EXCEPT ![r] = "send"]
        /\ row' = [row EXCEPT ![r] = "SENDING"]
        /\ UNCHANGED <<fault, accepted, overruled, rewritten, restated>>
    BY <1>2, PrepareOutcome DEF historyVars
  <2> QED BY <1>0, <2>1
<1>3. ASSUME NEW r \in Requests, PersistFailure(r) PROVE RequestsInv'
  <2>1. pc[r] = "fail" /\ fault[r] \in SendFault
    BY <1>3 DEF PersistFailure
  <2>2. fault[r] = "rejected" => r \notin accepted
    BY <2>1 DEF MayHaveBeenAccepted
  <2>3. /\ pc' = [pc EXCEPT ![r] = "done"]
        /\ row' = [row EXCEPT ![r] = IF fault[r] = "rejected" THEN "FAILED" ELSE "UNKNOWN"]
        /\ UNCHANGED <<fault, accepted, overruled, rewritten, restated>>
    BY <1>3, <2>1, FailureOutcome DEF historyVars
  <2> QED BY <1>0, <2>1, <2>2, <2>3
<1>4. ASSUME NEW r \in Requests, Finalize(r) PROVE RequestsInv'
  <2>1. /\ pc[r] = "finalize" /\ pc' = [pc EXCEPT ![r] = "done"]
        /\ row' = [row EXCEPT ![r] = "SENT"]
        /\ UNCHANGED <<fault, accepted, overruled, rewritten, restated>>
    BY <1>4, FinalOutcome DEF historyVars
  <2> QED BY <1>0, <2>1
<1>5. ASSUME NEW r \in Requests, Start(r) \/ PrepareRefused(r) PROVE RequestsInv'
  <2>1. \E label \in {"prepare", "done"} : pc' = [pc EXCEPT ![r] = label]
    BY <1>5 DEF Start, PrepareRefused, GoTo
  <2>2. /\ pc[r] \in {"start", "prepare"}
        /\ UNCHANGED <<row, fault, accepted, overruled, rewritten, restated>>
    BY <1>5 DEF Start, PrepareRefused, rowVars, historyVars
  <2> QED BY <1>0, <2>1, <2>2
<1>6. ASSUME NEW r \in Requests, Send(r) PROVE RequestsInv'
  BY <1>0, <1>6 DEF Send, GoTo, rowVars, historyVars
<1>7. ASSUME NEW r \in Requests, SendError(r) PROVE RequestsInv'
  <2>1. PICK e \in SendFault :
          /\ fault' = [fault EXCEPT ![r] = e]
          /\ \/ accepted' = accepted
             \/ MayHaveBeenAccepted(e) /\ accepted' = accepted \cup {r}
    BY <1>7 DEF SendError
  <2>2. /\ pc[r] = "send" /\ pc' = [pc EXCEPT ![r] = "fail"]
        /\ UNCHANGED <<row, overruled, rewritten, restated>>
    BY <1>7 DEF SendError, GoTo, rowVars, historyVars
  <2> QED BY <1>0, <2>1, <2>2
<1>8. ASSUME NEW r \in Requests, HandoffConflict(r) \/ PersistenceError(r) PROVE RequestsInv'
  <2>1. /\ pc[r] \in {"fail", "finalize"} /\ pc' = [pc EXCEPT ![r] = "done"]
        /\ UNCHANGED <<row, fault, accepted, overruled, rewritten, restated>>
    BY <1>8 DEF HandoffConflict, PersistenceError, GoTo, rowVars, historyVars
  <2> QED BY <1>0, <2>1
<1>9. ASSUME NEW r \in Requests, RowAges(r) PROVE RequestsInv'
  BY <1>9 DEF RowAges, requestVars, historyVars
<1>10. CASE Crash
  BY <1>0, <1>10 DEF Crash, rowVars
<1>11. CASE SomeEvent
  <2>1. /\ UNCHANGED <<pc, row, fault, accepted>>
        /\ restated' \in {restated, restated \cup InFlight} /\ EventKind
    BY <1>11, EventOutcome
  <2>2. /\ overruled' \subseteq overruled \cup InFlight \cup Blocking
        /\ rewritten' \subseteq rewritten \cup Blocking
    BY <2>1 DEF EventKind, Holds, Frees, Reviews, Unheld, Rewrites, Touches, Overrules, Displaces
  <2> QED BY <2>1, <2>2 DEF Blocking
<1> QED
  BY <1>1, <1>2, <1>3, <1>4, <1>5, <1>6, <1>7, <1>8, <1>9, <1>10, <1>11, StepCases DEF Quiet

-----------------------------------------------------------------------------
(* Pauses *)

\* A request that ends writes the row of a request that had one.
LEMMA EndedRows ==
  ASSUME TypeOK, NEW r \in Prepared, NEW d \in DeliveryState \ {"NONE"},
         row' = [row EXCEPT ![r] = d]
  PROVE  Prepared' = Prepared
BY DEF TypeOK, Prepared, DeliveryState

\* Claims never find a claim, and keep explicit pauses as they found them.
LEMMA NextPausesInv ==
  ASSUME TypeOK, StampsInv, RequestsInv, PausesInv, ExplicitPausesLast, [Next]_vars
  PROVE  PausesInv'
<1>0. /\ clock \in Nat /\ row \in [Requests -> DeliveryState]
      /\ previous \in [Requests -> Snapshot] /\ claimed \in [Requests -> Snapshot]
  BY DEF TypeOK
<1>1. \A r \in Prepared : claimed[r].since # clock
  BY DEF StampsInv, TypeOK, Snapshot, Prepared
<1> USE DEF PausesInv, Prepared, Blocked, Blocking
<1>2. CASE UNCHANGED <<candidate, row, previous, claimed, held>>
  BY <1>2
<1>3. ASSUME NEW r \in Requests, Prepare(r) PROVE PausesInv'
  <2>1. /\ previous' = [previous EXCEPT ![r] = candidate] /\ previous'[r] = candidate
        /\ claimed' = [claimed EXCEPT ![r] = candidate']
        /\ row' = [row EXCEPT ![r] = "SENDING"]
        /\ candidate'.paused /\ candidate'.mode = "sending" /\ candidate'.since = clock
        /\ candidate.mode \notin {"sending", "unknown"}
        /\ held' = held
    BY <1>3, PrepareOutcome DEF Claimable, historyVars
  <2>2. ASSUME NEW s \in Prepared'
        PROVE  /\ previous'[s].mode \notin {"sending", "unknown"}
               /\ previous'[s].mode = "explicit pause" => previous'[s].paused
               /\ s # r => claimed'[s].since # clock
    <3>1. CASE s = r
      BY <2>1, <3>1
    <3>2. CASE s # r
      BY <1>0, <1>1, <2>1, <2>2, <3>2
    <3> QED BY <3>1, <3>2
  <2>3. Blocking' \subseteq {r}
    BY <2>1, <2>2
  <2>4. held' # "no" => previous'[r].paused
    BY <2>1 DEF ExplicitPausesLast
  <2> QED BY <2>1, <2>2, <2>3, <2>4
<1>4. ASSUME Prepared' = Prepared, UNCHANGED <<previous, claimed, held>>,
             \/ candidate' = candidate
             \/ candidate'.mode \notin {"sending", "unknown"}
             \/ candidate.mode \in {"sending", "unknown"} /\ candidate'.since = candidate.since,
             \/ candidate' = candidate
             \/ candidate'.mode \in {"sending", "unknown", "explicit pause"}
                  => candidate'.paused
      PROVE  PausesInv'
  <2>1. Blocking' \subseteq Blocking
    BY <1>4
  <2> HIDE DEF Blocking
  <2> QED BY <1>4, <2>1
<1>5. ASSUME NEW r \in Requests, PersistFailure(r) PROVE PausesInv'
  <2>1. fault[r] \in SendFault /\ r \in Prepared
    BY <1>5 DEF PersistFailure, RequestsInv, InFlight
  <2>2. /\ UNCHANGED <<previous, claimed, held>>
        /\ \E d \in DeliveryState \ {"NONE"} : row' = [row EXCEPT ![r] = d]
    BY <1>5, <2>1, FailureOutcome DEF DeliveryState, historyVars
  <2>3. Prepared' = Prepared
    BY <2>1, <2>2, EndedRows
  <2>4. CASE OwnsClaim(r)
    <3>1. candidate.mode = "sending" /\ candidate.paused
      BY <2>1, <2>4 DEF OwnsClaim, StampsInv
    <3>2. \/ candidate' = previous[r]
          \/ candidate'.paused = candidate.paused /\ candidate'.mode = "unknown"
             /\ candidate'.since = candidate.since
      BY <1>5, <2>1, <2>4, FailureOutcome
    <3> HIDE DEF Prepared
    <3> QED BY <1>4, <2>1, <2>2, <2>3, <3>1, <3>2
  <2>5. CASE ~OwnsClaim(r)
    <3>1. candidate' = candidate
      BY <1>5, <2>1, <2>5, FailureOutcome
    <3> QED BY <1>4, <2>2, <2>3, <3>1
  <2> QED BY <2>4, <2>5
<1>6. ASSUME NEW r \in Requests, Finalize(r) PROVE PausesInv'
  <2>1. r \in Prepared
    BY <1>6 DEF Finalize, RequestsInv, InFlight
  <2>2. UNCHANGED <<previous, claimed, held>> /\ row' = [row EXCEPT ![r] = "SENT"]
    BY <1>6, FinalOutcome DEF historyVars
  <2>3. Prepared' = Prepared
    BY <2>1, <2>2, EndedRows DEF DeliveryState
  <2>4. \/ candidate' = candidate
        \/ candidate'.paused /\ candidate'.mode = "explicit pause"
        \/ candidate'.mode \in {"resume from panel", "handoff"}
    BY <1>6, FinalOutcome
  <2> QED BY <1>4, <2>2, <2>3, <2>4
<1>7. CASE SomeEvent
  <2>1. UNCHANGED <<row, previous, claimed>> /\ EventKind
    BY <1>7, EventOutcome
  <2>2. CASE Holds \/ Frees \/ Rewrites
    <3>1. /\ candidate'.mode \in {"explicit pause", "resume from panel", "none", "asking"}
          /\ candidate'.mode = "explicit pause" => candidate'.paused
      BY <2>2 DEF Holds, Frees, Rewrites
    <3> QED BY <2>1, <3>1
  <2>3. CASE Reviews
    BY <1>1, <2>1, <2>3 DEF Reviews
  <2>4. CASE Unheld
    BY <2>1, <2>4 DEF Unheld
  <2>5. CASE Touches
    BY <2>1, <2>5 DEF Touches
  <2> QED BY <2>1, <2>2, <2>3, <2>4, <2>5 DEF EventKind
<1>8. CASE UNCHANGED vars
  BY <1>2, <1>8 DEF vars, rowVars, requestVars, historyVars
<1>9. ASSUME NEW r \in Requests, Quiet(r) \/ Crash PROVE PausesInv'
  BY <1>2, <1>9, QuietSteps
<1>10. CASE Crash
  BY <1>2, <1>10 DEF Crash, rowVars
<1> QED BY <1>3, <1>5, <1>6, <1>7, <1>8, <1>9, <1>10, StepCases

-----------------------------------------------------------------------------
(* Owners *)

\* A claim that still owns the candidate is the only one.
LEMMA OneOwner ==
  ASSUME StampsInv, OwnersInv, NEW r \in Prepared, OwnsClaim(r)
  PROVE  /\ candidate.mode = "sending" /\ candidate.paused
         /\ candidate.since = claimed[r].since
         /\ r \notin Overtaken /\ r \in Blocking
         /\ \A s \in Blocking : s = r
         /\ \A s \in Requests \ Overtaken :
              s \in Prepared /\ (s \in InFlight \/ row[s] = "UNKNOWN") => s = r
<1>1. candidate = claimed[r]
  BY DEF OwnsClaim
<1>2. \A s \in Prepared : claimed[r].since = claimed[s].since => r = s
  BY DEF StampsInv
<1> QED BY <1>1, <1>2 DEF StampsInv, OwnersInv, Blocking, Prepared

\* The claimant keeps the candidate until it is overtaken, and never gets it
\* back afterwards.
LEMMA NextOwnersInv ==
  ASSUME TypeOK, StampsInv, RequestsInv, PausesInv, OwnersInv, [Next]_vars
  PROVE  OwnersInv'
<1>0. /\ row \in [Requests -> DeliveryState] /\ pc \in [Requests -> PcVal]
      /\ claimed \in [Requests -> Snapshot]
  BY DEF TypeOK
<1>1. Overtaken \subseteq Prepared /\ InFlight \subseteq Prepared /\ Blocking \subseteq Prepared
  BY <1>0 DEF TypeOK, RequestsInv, Prepared, InFlight, Overtaken, Blocking
<1> DEFINE Theirs(r) ==
             /\ r \in InFlight => candidate.mode = "sending" /\ candidate.since = claimed[r].since
             /\ row[r] = "UNKNOWN" => Blocked /\ candidate.since = claimed[r].since
<1>2. \A r \in Requests \ Overtaken : Theirs(r)
  BY DEF OwnersInv
<1>3. ASSUME \A r \in Requests \ Overtaken' : Theirs(r)',
             \A r \in Overtaken' \ Overtaken : r \in Prepared /\ candidate' # claimed'[r]
      PROVE  OwnersInv'
  <2>1. ASSUME NEW r \in Overtaken PROVE candidate' # claimed'[r]
    BY <1>1, <2>1, LostStays DEF OwnersInv
  <2> HIDE DEF Overtaken
  <2> QED BY <1>3, <2>1 DEF OwnersInv
<1>4. CASE /\ UNCHANGED <<candidate, row, claimed, overruled, rewritten>>
           /\ InFlight' \subseteq InFlight
  <2>1. Overtaken' = Overtaken
    BY <1>4 DEF Overtaken
  <2>2. \A r \in Requests \ Overtaken : Theirs(r)'
    BY <1>2, <1>4 DEF Blocked
  <2> HIDE DEF Theirs, Overtaken
  <2> QED BY <1>3, <2>1, <2>2
<1>5. ASSUME NEW r \in Requests, Prepare(r) PROVE OwnersInv'
  <2>1. /\ candidate.mode \notin {"sending", "unknown"}
        /\ pc' = [pc EXCEPT ![r] = "send"] /\ row' = [row EXCEPT ![r] = "SENDING"]
        /\ claimed'[r] = candidate' /\ candidate'.mode = "sending"
        /\ Overtaken' = Overtaken
    BY <1>5, PrepareOutcome DEF Claimable, Overtaken, historyVars
  <2>2. ASSUME NEW s \in Requests \ Overtaken PROVE Theirs(s)'
    <3>1. CASE s = r
      BY <1>0, <2>1, <3>1
    <3>2. CASE s # r
      <4>1. s \notin InFlight /\ row[s] # "UNKNOWN"
        BY <1>2, <2>1, <2>2 DEF Blocked
      <4> QED BY <1>0, <2>1, <3>2, <4>1 DEF InFlight
    <3> QED BY <3>1, <3>2
  <2> HIDE DEF Theirs, Overtaken
  <2> QED BY <1>3, <2>1, <2>2
<1>6. ASSUME NEW r \in Prepared, UNCHANGED <<claimed, overruled, rewritten>>,
             pc[r] \in {"fail", "finalize"}, pc' = [pc EXCEPT ![r] = "done"],
             NEW d \in {"FAILED", "SENT", "UNKNOWN"}, row' = [row EXCEPT ![r] = d],
             \/ candidate' = candidate
             \/ /\ OwnsClaim(r)
                /\ d = "UNKNOWN" => candidate'.mode = "unknown" /\ candidate'.since = candidate.since
      PROVE  OwnersInv'
  <2>1. Overtaken' = Overtaken
    BY <1>6 DEF Overtaken
  <2>2. ASSUME NEW s \in Requests \ Overtaken, candidate' = candidate PROVE Theirs(s)'
    <3>1. /\ s \in InFlight' => s \in InFlight
          /\ row'[s] = "UNKNOWN" => row[s] = "UNKNOWN" \/ s \in InFlight
      BY <1>0, <1>6 DEF InFlight, Prepared
    <3> QED BY <1>2, <1>6, <2>2, <3>1 DEF Blocked
  <2>3. ASSUME NEW s \in Requests \ Overtaken, OwnsClaim(r),
               d = "UNKNOWN" => candidate'.mode = "unknown" /\ candidate'.since = candidate.since
        PROVE  Theirs(s)'
    <3>1. CASE s # r
      <4>1. s \notin InFlight /\ row[s] # "UNKNOWN"
        BY <1>1, <2>3, <3>1, OneOwner DEF Prepared
      <4> QED BY <1>0, <1>6, <3>1, <4>1 DEF InFlight
    <3>2. CASE s = r
      <4>1. row'[r] = d /\ r \notin InFlight' /\ candidate.since = claimed[r].since
        BY <1>0, <1>6, <2>3 DEF InFlight, Prepared, OwnsClaim
      <4> QED BY <1>6, <2>3, <3>2, <4>1 DEF Blocked
    <3> QED BY <3>1, <3>2
  <2> HIDE DEF Theirs, Overtaken
  <2> QED BY <1>3, <1>6, <2>1, <2>2, <2>3
<1>7. ASSUME NEW r \in Requests, PersistFailure(r) PROVE OwnersInv'
  <2>1. pc[r] = "fail" /\ fault[r] \in SendFault /\ r \in Prepared
    BY <1>1, <1>7 DEF PersistFailure, RequestsInv, InFlight
  <2> DEFINE d == IF fault[r] = "rejected" THEN "FAILED" ELSE "UNKNOWN"
  <2>2. /\ pc' = [pc EXCEPT ![r] = "done"] /\ row' = [row EXCEPT ![r] = d]
        /\ UNCHANGED <<claimed, overruled, rewritten>>
        /\ \/ candidate' = candidate
           \/ /\ OwnsClaim(r)
              /\ d = "UNKNOWN" => candidate'.mode = "unknown" /\ candidate'.since = candidate.since
    BY <1>7, <2>1, FailureOutcome DEF historyVars
  <2>3. d \in {"FAILED", "SENT", "UNKNOWN"}
    OBVIOUS
  <2> HIDE DEF d
  <2> QED BY <1>6, <2>1, <2>2, <2>3
<1>8. ASSUME NEW r \in Requests, Finalize(r) PROVE OwnersInv'
  <2>1. r \in Prepared
    BY <1>1, <1>8 DEF Finalize, InFlight
  <2>2. /\ pc[r] = "finalize" /\ pc' = [pc EXCEPT ![r] = "done"]
        /\ row' = [row EXCEPT ![r] = "SENT"]
        /\ UNCHANGED <<claimed, overruled, rewritten>>
        /\ candidate' = candidate \/ OwnsClaim(r)
    BY <1>8, FinalOutcome DEF historyVars
  <2> QED BY <1>6, <2>1, <2>2
<1>9. CASE SomeEvent
  <2>1. UNCHANGED <<row, pc, claimed>> /\ EventKind
    BY <1>9, EventOutcome
  <2>2. ASSUME NEW r \in Requests \ Overtaken, r \notin Blocking
        PROVE  Theirs(r)'
    <3>1. r \notin InFlight /\ row[r] # "UNKNOWN"
      BY <1>1, <1>2, <2>2 DEF Blocking, Blocked, Prepared
    <3> QED BY <2>1, <3>1 DEF InFlight
  <2>3. \A r \in Prepared : claimed[r].mode = "sending" /\ claimed[r].since # clock
    BY DEF StampsInv, TypeOK, Snapshot, Prepared
  <2>4. CASE Frees \/ Reviews \/ Rewrites
    <3>1. /\ Overtaken \cup Blocking \subseteq Overtaken'
          /\ Overtaken' \subseteq Prepared
          /\ \/ candidate'.mode \in {"resume from panel", "none", "asking"}
             \/ candidate'.since = clock
      BY <1>1, <2>4 DEF Frees, Reviews, Rewrites, Overtaken, Overrules, Displaces
    <3>2. \A r \in Prepared : candidate' # claimed[r]
      BY <2>3, <3>1
    <3> HIDE DEF Theirs, Overtaken
    <3> QED BY <1>3, <2>1, <2>2, <3>1, <3>2
  <2>5. CASE Holds \/ Unheld
    <3>1. Overtaken' = Overtaken /\ Blocking = {}
      BY <2>5 DEF Holds, Unheld, Overtaken, Blocking, PausesInv, Blocked
    <3> HIDE DEF Theirs, Overtaken
    <3> QED BY <1>3, <2>2, <3>1
  <2>6. CASE Touches
    <3>1. Overtaken' = Overtaken
      BY <2>6 DEF Touches, Overtaken
    <3>2. ASSUME NEW r \in Requests \ Overtaken PROVE Theirs(r)'
      BY <1>2, <2>1, <2>6, <3>2 DEF Touches, Blocked, InFlight
    <3> HIDE DEF Theirs, Overtaken
    <3> QED BY <1>3, <3>1, <3>2
  <2> QED BY <2>1, <2>4, <2>5, <2>6 DEF EventKind
<1>10. CASE UNCHANGED vars
  BY <1>4, <1>10 DEF vars, rowVars, requestVars, historyVars, InFlight
<1>11. ASSUME NEW r \in Requests, Start(r) \/ PrepareRefused(r) PROVE OwnersInv'
  <2>1. \E label \in {"prepare", "done"} : pc' = [pc EXCEPT ![r] = label]
    BY <1>11 DEF Start, PrepareRefused, GoTo
  <2>2. InFlight' \subseteq InFlight
    BY <1>0, <2>1 DEF InFlight
  <2> QED BY <1>4, <1>11, <2>2, QuietSteps DEF Quiet
<1>12. ASSUME NEW r \in Requests,
              Send(r) \/ SendError(r) \/ HandoffConflict(r) \/ PersistenceError(r) \/ RowAges(r)
       PROVE  OwnersInv'
  <2>1. \/ pc' = pc
        \/ \E label \in PcVal : r \in InFlight /\ pc' = [pc EXCEPT ![r] = label]
    BY <1>12
    DEF Send, SendError, HandoffConflict, PersistenceError, RowAges, GoTo, requestVars, PcVal,
        InFlight
  <2>2. InFlight' \subseteq InFlight
    BY <1>0, <2>1 DEF InFlight
  <2> QED BY <1>4, <1>12, <2>2, QuietSteps DEF Quiet
<1>13. CASE Crash
  <2>1. InFlight' \subseteq InFlight
    BY <1>0, <1>13 DEF Crash, InFlight
  <2> QED BY <1>4, <1>13, <2>1 DEF Crash, rowVars
<1> QED BY <1>5, <1>7, <1>8, <1>9, <1>10, <1>11, <1>12, <1>13, StepCases DEF Quiet

-----------------------------------------------------------------------------
(* Texts *)

\* A request that prepares finds no open row of its text in its window.
LEMMA NextTextsInv ==
  ASSUME TypeOK, StampsInv, RequestsInv, PausesInv, OwnersInv, TextsInv, [Next]_vars
  PROVE  TextsInv'
<1>0. /\ row \in [Requests -> DeliveryState] /\ clock \in Nat
      /\ claimed \in [Requests -> Snapshot]
      /\ ignored \in [Requests -> SUBSET Requests]
  BY DEF TypeOK
<1>1. ASSUME NEW r \in Prepared PROVE claimed[r].since \in Nat /\ claimed[r].since < clock
  BY DEF TypeOK, Snapshot, Prepared, StampsInv
<1>2. ASSUME UNCHANGED claimed, Overtaken \subseteq Overtaken',
             \A s \in Prepared' : s \in Prepared /\ ignored'[s] = ignored[s],
             \A s \in Prepared : row[s] = "FAILED" => row'[s] = "FAILED"
      PROVE  TextsInv'
  BY <1>2 DEF TextsInv
<1>3. ASSUME NEW r \in Requests, Prepare(r) PROVE TextsInv'
  <2>1. /\ pc[r] = "prepare" /\ Claimable /\ ~Duplicate(r, ignored[r])
        /\ row' = [row EXCEPT ![r] = "SENDING"]
        /\ claimed' = [claimed EXCEPT ![r] = candidate'] /\ claimed'[r] = candidate'
        /\ candidate'.since = clock
        /\ ignored' = ignored /\ Overtaken' = Overtaken
    BY <1>3, PrepareOutcome DEF historyVars, Overtaken
  <2>2. r \notin Prepared
    BY <2>1 DEF RequestsInv, Prepared
  <2>3. ASSUME NEW s \in Requests, s # r
        PROVE  row'[s] = row[s] /\ claimed'[s] = claimed[s] /\ (s \in Prepared' <=> s \in Prepared)
    BY <1>0, <2>1, <2>3 DEF Prepared
  <2>4. ASSUME NEW s \in Prepared, Body[s] = Body[r], s # r
        PROVE  row[s] = "FAILED" \/ s \in ignored[r] \/ s \in Overtaken
    <3>1. CASE row[s] = "UNKNOWN"
      BY <2>1, <2>4, <3>1 DEF OwnersInv, Claimable, Blocked, Prepared
    <3>2. CASE row[s] # "UNKNOWN" /\ s \notin ignored[r]
      <4>1. row[s] \notin {"SENDING", "SENT"}
        BY <2>1, <2>4, <3>2 DEF Duplicate, Prepared
      <4> QED BY <1>0, <2>4, <3>2, <4>1 DEF Prepared, DeliveryState
    <3> QED BY <3>1, <3>2
  <2>5. ASSUME NEW s \in Prepared', NEW u \in Prepared', Body[s] = Body[u],
               claimed'[s].since < claimed'[u].since
        PROVE  row'[s] = "FAILED" \/ s \in ignored'[u] \/ s \in Overtaken'
    <3>1. CASE s # r /\ u # r
      BY <2>1, <2>3, <2>5, <3>1 DEF TextsInv, Prepared
    <3>2. CASE s # r /\ u = r
      BY <2>1, <2>3, <2>4, <2>5, <3>2 DEF Prepared
    <3>3. CASE s = r /\ u = r
      BY <1>0, <2>1, <2>5, <3>3
    <3>4. CASE s = r /\ u # r
      <4>1. u \in Prepared /\ claimed'[u] = claimed[u]
        BY <2>3, <2>5, <3>4 DEF Prepared
      <4>2. clock < claimed[u].since
        BY <2>1, <2>5, <3>4, <4>1
      <4> QED BY <1>0, <1>1, <4>1, <4>2
    <3> QED BY <3>1, <3>2, <3>3, <3>4
  <2> QED BY <2>5 DEF TextsInv
<1>4. ASSUME NEW r \in Requests, PersistFailure(r) PROVE TextsInv'
  <2>1. pc[r] = "fail" /\ fault[r] \in SendFault /\ row[r] = "SENDING"
    BY <1>4 DEF PersistFailure, RequestsInv, InFlight
  <2>2. /\ \E d \in {"FAILED", "UNKNOWN"} : row' = [row EXCEPT ![r] = d]
        /\ UNCHANGED <<claimed, ignored, overruled, rewritten>>
    BY <1>4, <2>1, FailureOutcome DEF historyVars
  <2> QED BY <1>0, <1>2, <2>1, <2>2 DEF Prepared, Overtaken
<1>5. ASSUME NEW r \in Requests, Finalize(r) PROVE TextsInv'
  <2>1. row[r] = "SENDING"
    BY <1>5 DEF Finalize, RequestsInv, InFlight
  <2>2. /\ row' = [row EXCEPT ![r] = "SENT"]
        /\ UNCHANGED <<claimed, ignored, overruled, rewritten>>
    BY <1>5, FinalOutcome DEF historyVars
  <2> QED BY <1>0, <1>2, <2>1, <2>2 DEF Prepared, Overtaken
<1>6. ASSUME NEW r \in Requests, Start(r) PROVE TextsInv'
  <2>1. r \notin Prepared
    BY <1>6 DEF Start, RequestsInv, Prepared
  <2>2. /\ ignored' = [ignored EXCEPT ![r] = aged]
        /\ UNCHANGED <<row, claimed, overruled, rewritten>>
    BY <1>6 DEF Start, rowVars, historyVars
  <2> QED BY <1>0, <1>2, <2>1, <2>2 DEF Prepared, Overtaken
<1>7. ASSUME UNCHANGED <<row, claimed, ignored>>, Overtaken \subseteq Overtaken'
      PROVE  TextsInv'
  BY <1>2, <1>7 DEF Prepared
<1>8. ASSUME NEW r \in Requests,
             PrepareRefused(r) \/ Send(r) \/ SendError(r) \/ HandoffConflict(r)
               \/ PersistenceError(r) \/ RowAges(r)
      PROVE  TextsInv'
  <2>1. UNCHANGED <<row, claimed, overruled, rewritten>>
    BY <1>8, QuietSteps DEF Quiet
  <2>2. UNCHANGED ignored
    BY <1>8
    DEF PrepareRefused, Send, SendError, HandoffConflict, PersistenceError, RowAges, requestVars
  <2> QED BY <1>7, <2>1, <2>2 DEF Overtaken
<1>9. CASE Crash
  BY <1>7, <1>9 DEF Crash, rowVars, Overtaken
<1>10. CASE SomeEvent
  <2>1. UNCHANGED <<row, claimed, ignored>> /\ EventKind
    BY <1>10, EventOutcome
  <2>2. Overtaken \subseteq Overtaken'
    BY <2>1 DEF EventKind, Holds, Frees, Reviews, Unheld, Rewrites, Touches, Overrules,
                Displaces, Overtaken
  <2> QED BY <1>7, <2>1, <2>2
<1>11. CASE UNCHANGED vars
  BY <1>7, <1>11 DEF vars, rowVars, requestVars, historyVars, Overtaken
<1> QED
  BY <1>3, <1>4, <1>5, <1>6, <1>8, <1>9, <1>10, <1>11, StepCases DEF Quiet

-----------------------------------------------------------------------------
(* The administrator's pause *)

\* A send takes an explicit pause over and gives it back; only the panel ends it.
LEMMA NextExplicitPausesLast ==
  ASSUME TypeOK, StampsInv, RequestsInv, PausesInv, OwnersInv, ExplicitPausesLast, [Next]_vars
  PROVE  ExplicitPausesLast'
<1>0. /\ row \in [Requests -> DeliveryState] /\ claimed \in [Requests -> Snapshot]
      /\ previous \in [Requests -> Snapshot]
  BY DEF TypeOK
<1> USE DEF ExplicitPausesLast
<1>1. CASE UNCHANGED <<candidate, row, claimed, previous, held>>
  BY <1>1 DEF Blocking
<1>2. ASSUME NEW r \in Requests, Prepare(r) PROVE ExplicitPausesLast'
  <2>1. /\ Claimable /\ held' = held
        /\ candidate'.paused /\ candidate'.mode = "sending"
        /\ row' = [row EXCEPT ![r] = "SENDING"]
        /\ claimed'[r] = candidate' /\ previous'[r] = candidate
    BY <1>2, PrepareOutcome DEF historyVars
  <2>2. held = "whole" => candidate.mode = "explicit pause"
    BY <2>1 DEF Claimable, Blocking
  <2>3. r \in Blocking'
    BY <1>0, <2>1 DEF Blocking
  <2> QED BY <2>1, <2>2, <2>3
<1>3. ASSUME NEW r \in Prepared, OwnsClaim(r), held # "no"
      PROVE  /\ previous[r].paused /\ candidate.paused
             /\ held = "whole" => previous[r].mode = "explicit pause"
  <2>1. /\ candidate.mode = "sending" /\ candidate.paused
        /\ r \in Blocking /\ \A s \in Blocking : s = r
    BY <1>3, OneOwner
  <2>2. previous[r].paused
    BY <1>3, <2>1 DEF PausesInv
  <2> QED BY <1>3, <2>1, <2>2
<1>4. ASSUME NEW r \in Prepared, candidate' = candidate,
             UNCHANGED <<claimed, previous, held>>,
             NEW d \in DeliveryState \ {"NONE"}, row' = [row EXCEPT ![r] = d]
      PROVE  ExplicitPausesLast'
  <2>1. Blocking' = Blocking
    <3>1. Prepared' = Prepared
      BY <1>4, EndedRows
    <3> QED BY <1>4, <3>1 DEF Blocking, Prepared
  <2> QED BY <1>4, <2>1
<1>5. ASSUME NEW r \in Requests, PersistFailure(r) PROVE ExplicitPausesLast'
  <2>1. fault[r] \in SendFault /\ r \in Prepared
    BY <1>5 DEF PersistFailure, RequestsInv, InFlight, Prepared
  <2>2. /\ \E d \in DeliveryState \ {"NONE"} : row' = [row EXCEPT ![r] = d]
        /\ UNCHANGED <<claimed, previous, held>>
    BY <1>5, <2>1, FailureOutcome DEF historyVars, DeliveryState
  <2>3. CASE ~OwnsClaim(r)
    <3>1. candidate' = candidate
      BY <1>5, <2>1, <2>3, FailureOutcome
    <3> QED BY <1>4, <2>1, <2>2, <3>1
  <2>4. CASE OwnsClaim(r) /\ held # "no"
    <3>1. /\ previous[r].paused /\ candidate.paused
          /\ held = "whole" => previous[r].mode = "explicit pause"
      BY <1>3, <2>1, <2>4
    <3>2. CASE candidate' = previous[r]
      BY <2>2, <3>1, <3>2
    <3>3. CASE /\ candidate'.paused = candidate.paused /\ candidate'.mode = "unknown"
               /\ candidate'.since = candidate.since
      <4>1. r \in Blocking'
        BY <1>0, <2>1, <2>2, <2>4, <3>3 DEF Blocking, OwnsClaim, Prepared
      <4> QED BY <2>2, <3>1, <3>3, <4>1
    <3> QED BY <1>5, <2>1, <2>4, <3>2, <3>3, FailureOutcome
  <2> QED BY <2>2, <2>3, <2>4
<1>6. ASSUME NEW r \in Requests, Finalize(r) PROVE ExplicitPausesLast'
  <2>1. r \in Prepared
    BY <1>6 DEF Finalize, RequestsInv, InFlight, Prepared
  <2>2. row' = [row EXCEPT ![r] = "SENT"] /\ UNCHANGED <<claimed, previous, held>>
    BY <1>6, FinalOutcome DEF historyVars
  <2>3. CASE ~OwnsClaim(r)
    <3>1. candidate' = candidate
      BY <1>6, <2>3, FinalOutcome
    <3> QED BY <1>4, <2>1, <2>2, <3>1 DEF DeliveryState
  <2>4. CASE OwnsClaim(r) /\ held # "no"
    <3>1. /\ previous[r].paused /\ candidate.paused
          /\ held = "whole" => previous[r].mode = "explicit pause"
      BY <1>3, <2>1, <2>4
    <3>2. /\ candidate'.paused
          /\ held = "whole" => candidate'.mode = "explicit pause"
      BY <1>6, <2>4, <3>1, FinalOutcome
    <3> QED BY <2>2, <3>2
  <2> QED BY <2>2, <2>3, <2>4
<1>7. CASE SomeEvent
  <2>1. UNCHANGED <<row, claimed, previous>> /\ EventKind
    BY <1>7, EventOutcome
  <2>2. CASE Holds \/ Frees
    BY <2>2 DEF Holds, Frees
  <2>3. CASE Reviews
    BY <2>3 DEF Reviews
  <2>4. CASE Unheld
    BY <2>4 DEF Unheld
  <2>5. CASE Rewrites
    BY <2>5 DEF Rewrites, Displaces
  <2>6. CASE Touches
    <3>1. Blocking' = Blocking
      BY <2>1, <2>6 DEF Touches, Blocking
    <3> QED BY <2>1, <2>6, <3>1 DEF Touches
  <2> QED BY <2>1, <2>2, <2>3, <2>4, <2>5, <2>6 DEF EventKind
<1>8. ASSUME NEW r \in Requests, Quiet(r) \/ Crash PROVE ExplicitPausesLast'
  BY <1>1, <1>8, QuietSteps
<1>9. CASE Crash
  BY <1>1, <1>9 DEF Crash, rowVars
<1>10. CASE UNCHANGED vars
  BY <1>1, <1>10 DEF vars, rowVars, requestVars, historyVars
<1> QED BY <1>2, <1>5, <1>6, <1>7, <1>8, <1>9, <1>10, StepCases

-----------------------------------------------------------------------------
(* Giving the candidate back *)

\* Snapshots that agree on every field are equal.
LEMMA SnapshotsAreFields ==
  ASSUME NEW c \in Snapshot, NEW d \in Snapshot,
         c.paused = d.paused, c.mode = d.mode, c.since = d.since, c.reminder = d.reminder,
         c.out = d.out
  PROVE  c = d
<1>1. c = [paused |-> c.paused, mode |-> c.mode, since |-> c.since, reminder |-> c.reminder,
           out |-> c.out]
  BY DEF Snapshot
<1>2. d = [paused |-> d.paused, mode |-> d.mode, since |-> d.since, reminder |-> d.reminder,
           out |-> d.out]
  BY DEF Snapshot
<1> QED BY <1>1, <1>2

\* A request ends only after it released a candidate it still owned.
LEMMA NextClaimsAreGivenBack ==
  ASSUME TypeOK, StampsInv, RequestsInv, PausesInv, ClaimsAreGivenBack, [Next]_vars
  PROVE  ClaimsAreGivenBack'
<1>0. /\ clock \in Nat /\ row \in [Requests -> DeliveryState] /\ pc \in [Requests -> PcVal]
      /\ candidate \in Snapshot /\ claimed \in [Requests -> Snapshot]
      /\ previous \in [Requests -> Snapshot]
  BY DEF TypeOK
<1>1. ASSUME NEW r \in Prepared
      PROVE  /\ claimed[r].since # clock /\ claimed[r].out # clock
             /\ claimed[r].reminder = "CANCELLED"
  <2>1. claimed[r].since \in Nat /\ claimed[r].out \in Nat
    BY <1>0 DEF Snapshot, Prepared
  <2>2. /\ claimed[r].since < clock /\ claimed[r].out < clock
        /\ claimed[r].reminder = "CANCELLED"
    BY DEF StampsInv
  <2> QED BY <1>0, <2>1, <2>2
<1>2. ASSUME UNCHANGED <<candidate, claimed>>,
             \A s \in Requests : pc'[s] = "done" /\ row'[s] \notin {"NONE", "SENDING"}
                                   => pc[s] = "done" /\ row[s] = row'[s]
      PROVE  ClaimsAreGivenBack'
  BY <1>2 DEF ClaimsAreGivenBack
<1>3. ASSUME NEW r \in Requests, Prepare(r) PROVE ClaimsAreGivenBack'
  <2>1. /\ pc' = [pc EXCEPT ![r] = "send"] /\ row' = [row EXCEPT ![r] = "SENDING"]
        /\ claimed' = [claimed EXCEPT ![r] = candidate']
        /\ candidate'.since = clock
    BY <1>3, PrepareOutcome
  <2>2. ASSUME NEW s \in Requests, pc'[s] = "done", row'[s] # "NONE"
        PROVE  candidate'.since # claimed'[s].since
    <3>1. s # r /\ s \in Prepared /\ claimed'[s] = claimed[s]
      BY <1>0, <2>1, <2>2 DEF Prepared
    <3> QED BY <1>1, <2>1, <3>1
  <2> QED BY <2>2 DEF ClaimsAreGivenBack
<1>4. ASSUME NEW r \in Requests, pc[r] \in {"fail", "finalize"}, ~OwnsClaim(r),
             candidate' = candidate, claimed' = claimed,
             pc' = [pc EXCEPT ![r] = "done"],
             NEW d \in DeliveryState, row' = [row EXCEPT ![r] = d]
      PROVE  ClaimsAreGivenBack'
  <2>1. claimed[r].paused /\ claimed[r].mode = "sending"
    BY <1>4 DEF RequestsInv, InFlight, StampsInv, Prepared
  <2>2. ASSUME candidate.mode = "sending", candidate.since = claimed[r].since,
               candidate.out = claimed[r].out, candidate.reminder = claimed[r].reminder
        PROVE  FALSE
    <3>1. candidate.paused = claimed[r].paused
      BY <1>0, <2>1, <2>2 DEF PausesInv, Blocked, Snapshot
    <3>2. candidate = claimed[r]
      BY <1>0, <2>1, <2>2, <3>1, SnapshotsAreFields
    <3> QED BY <1>4, <3>2 DEF OwnsClaim
  <2>3. ASSUME NEW s \in Requests, s # r PROVE pc'[s] = pc[s] /\ row'[s] = row[s]
    BY <1>0, <1>4, <2>3
  <2> QED BY <1>4, <2>2, <2>3 DEF ClaimsAreGivenBack
<1>5. ASSUME NEW r \in Requests, PersistFailure(r) PROVE ClaimsAreGivenBack'
  <2>1. pc[r] = "fail" /\ fault[r] \in SendFault /\ r \in Prepared
    BY <1>5 DEF PersistFailure, RequestsInv, InFlight, Prepared
  <2>2. CASE OwnsClaim(r)
    <3>1. candidate' = previous[r] \/ candidate'.mode = "unknown"
      BY <1>5, <2>1, <2>2, FailureOutcome
    <3>2. candidate'.mode # "sending"
      BY <2>1, <3>1 DEF PausesInv
    <3> QED BY <3>2 DEF ClaimsAreGivenBack
  <2>3. CASE ~OwnsClaim(r)
    <3>1. /\ candidate' = candidate /\ claimed' = claimed
          /\ pc' = [pc EXCEPT ![r] = "done"]
          /\ \E d \in DeliveryState : row' = [row EXCEPT ![r] = d]
      BY <1>5, <2>1, <2>3, FailureOutcome DEF DeliveryState
    <3> QED BY <1>4, <2>1, <2>3, <3>1
  <2> QED BY <2>2, <2>3
<1>6. ASSUME NEW r \in Requests, Finalize(r) PROVE ClaimsAreGivenBack'
  <2>1. CASE OwnsClaim(r)
    <3>1. candidate'.mode # "sending"
      BY <1>6, <2>1, FinalOutcome
    <3> QED BY <3>1 DEF ClaimsAreGivenBack
  <2>2. CASE ~OwnsClaim(r)
    <3>1. /\ pc[r] = "finalize" /\ candidate' = candidate /\ claimed' = claimed
          /\ pc' = [pc EXCEPT ![r] = "done"] /\ row' = [row EXCEPT ![r] = "SENT"]
      BY <1>6, <2>2, FinalOutcome
    <3> QED BY <1>4, <2>2, <3>1 DEF DeliveryState
  <2> QED BY <2>1, <2>2
<1>7. CASE SomeEvent
  <2>1. UNCHANGED <<row, pc, claimed>> /\ EventKind
    BY <1>7, EventOutcome
  <2>2. CASE Holds \/ Frees \/ Rewrites
    <3>1. candidate'.mode # "sending"
      BY <2>2 DEF Holds, Frees, Rewrites
    <3> QED BY <3>1 DEF ClaimsAreGivenBack
  <2>3. CASE Reviews
    BY <1>1, <2>1, <2>3 DEF Reviews, ClaimsAreGivenBack, Prepared
  <2>4. CASE Unheld
    <3>1. candidate'.mode # "sending"
      BY <2>4 DEF Unheld, PausesInv, Blocked
    <3> QED BY <3>1 DEF ClaimsAreGivenBack
  <2>5. CASE Touches
    BY <1>1, <2>1, <2>5 DEF Touches, ClaimsAreGivenBack, Prepared
  <2> QED BY <2>1, <2>2, <2>3, <2>4, <2>5 DEF EventKind
<1>8. ASSUME NEW r \in Requests, Quiet(r) PROVE ClaimsAreGivenBack'
  <2>1. UNCHANGED <<candidate, row, claimed>>
    BY <1>8, QuietSteps
  <2>2. \/ pc' = pc
        \/ \E label \in {"prepare", "done"} :
             pc[r] \in {"start", "prepare"} /\ pc' = [pc EXCEPT ![r] = label]
        \/ \E label \in PcVal : r \in InFlight /\ pc' = [pc EXCEPT ![r] = label]
    <3>1. CASE Start(r) \/ PrepareRefused(r)
      BY <3>1 DEF Start, PrepareRefused, GoTo
    <3>2. CASE Send(r) \/ SendError(r) \/ HandoffConflict(r) \/ PersistenceError(r)
      BY <3>2 DEF Send, SendError, HandoffConflict, PersistenceError, GoTo, PcVal, InFlight
    <3>3. CASE RowAges(r)
      BY <3>3 DEF RowAges, requestVars
    <3> QED BY <1>8, <3>1, <3>2, <3>3 DEF Quiet
  <2>3. pc'[r] = "done" => row[r] \in {"NONE", "SENDING"} \/ pc' = pc
    BY <1>0, <2>2 DEF RequestsInv
  <2> QED BY <1>0, <1>2, <2>1, <2>2, <2>3
<1>9. CASE Crash
  <2>1. UNCHANGED <<candidate, row, claimed>>
    BY <1>9 DEF Crash, rowVars
  <2>2. ASSUME NEW s \in Requests, pc'[s] = "done", row[s] \notin {"NONE", "SENDING"}
        PROVE  pc[s] = "done"
    BY <1>0, <2>2 DEF RequestsInv, InFlight, PcVal
  <2> QED BY <1>2, <2>1, <2>2
<1>10. CASE UNCHANGED vars
  BY <1>10 DEF vars, rowVars, requestVars, ClaimsAreGivenBack
<1> QED BY <1>3, <1>5, <1>6, <1>7, <1>8, <1>9, <1>10, StepCases

-----------------------------------------------------------------------------
(* Citations *)

\* While the candidate is as a citation's claim left it, nobody but a person of
\* the panel changes the status it was claimed under.
LEMMA NextCitationsInv ==
  ASSUME TypeOK, StampsInv, RequestsInv, PausesInv, CitationsInv, [Next]_vars
  PROVE  CitationsInv'
<1>0. /\ pc \in [Requests -> PcVal] /\ row \in [Requests -> DeliveryState]
      /\ InFlight \subseteq Prepared
  BY DEF TypeOK, RequestsInv, InFlight, Prepared
<1>1. ASSUME InFlight' \subseteq InFlight, restated \subseteq restated',
             selection' = selection \/ candidate' # candidate \/ InFlight \subseteq restated'
      PROVE  CitationsInv'
  <2> SUFFICES ASSUME NEW r \in InFlight' \ restated', Kind[r] = "citation",
                      candidate' = claimed'[r]
               PROVE  selection' = "APROBADO"
    BY DEF CitationsInv
  <2>1. r \in InFlight \ restated
    BY <1>1
  <2>2. claimed'[r] = claimed[r] /\ candidate' = candidate
    BY <1>0, <2>1, LostStays
  <2> QED BY <1>1, <2>1, <2>2 DEF CitationsInv
<1>2. ASSUME NEW q \in Requests, Prepare(q) PROVE CitationsInv'
  <2>1. /\ pc' = [pc EXCEPT ![q] = "send"] /\ selection' = selection
        /\ restated' = restated
        /\ Kind[q] # "text" => selection = "APROBADO"
    BY <1>2, PrepareOutcome DEF historyVars
  <2> SUFFICES ASSUME NEW r \in InFlight' \ restated', Kind[r] = "citation",
                      candidate' = claimed'[r]
               PROVE  selection' = "APROBADO"
    BY DEF CitationsInv
  <2>2. CASE r = q
    BY <2>1, <2>2
  <2>3. CASE r # q
    <3>1. r \in InFlight \ restated
      BY <1>0, <2>1, <2>3 DEF InFlight
    <3>2. claimed'[r] = claimed[r] /\ candidate' = candidate
      BY <1>0, <3>1, LostStays
    <3> QED BY <2>1, <3>1, <3>2 DEF CitationsInv
  <2> QED BY <2>2, <2>3
<1>3. ASSUME NEW q \in Requests, PersistFailure(q) PROVE CitationsInv'
  <2>1. /\ pc' = [pc EXCEPT ![q] = "done"] /\ selection' = selection
        /\ restated' = restated
    BY <1>3 DEF PersistFailure, GoTo, historyVars
  <2> QED BY <1>0, <1>1, <2>1 DEF InFlight
<1>4. ASSUME NEW q \in Requests, Finalize(q) PROVE CitationsInv'
  <2>1. /\ pc[q] = "finalize" /\ pc' = [pc EXCEPT ![q] = "done"]
        /\ restated' = restated
        /\ selection' = selection \/ (OwnsClaim(q) /\ candidate'.mode # "sending")
    BY <1>4, FinalOutcome DEF historyVars
  <2>2. InFlight' \subseteq InFlight /\ q \in Prepared
    BY <1>0, <2>1 DEF InFlight
  <2>3. selection' = selection \/ candidate' # candidate
    BY <2>1, <2>2 DEF OwnsClaim, StampsInv
  <2> QED BY <1>1, <2>1, <2>2, <2>3
<1>5. ASSUME NEW q \in Requests, Quiet(q) PROVE CitationsInv'
  <2>1. UNCHANGED <<selection, restated>>
    BY <1>5, QuietSteps
  <2>2. InFlight' \subseteq InFlight
    <3>1. CASE Start(q) \/ PrepareRefused(q)
      BY <1>0, <3>1 DEF Start, PrepareRefused, GoTo, InFlight
    <3>2. CASE Send(q) \/ SendError(q) \/ HandoffConflict(q) \/ PersistenceError(q)
      BY <1>0, <3>2 DEF Send, SendError, HandoffConflict, PersistenceError, GoTo, InFlight
    <3>3. CASE RowAges(q)
      BY <3>3 DEF RowAges, requestVars, InFlight
    <3> QED BY <1>5, <3>1, <3>2, <3>3 DEF Quiet
  <2> QED BY <1>1, <2>1, <2>2
<1>6. CASE Crash
  <2>1. InFlight' = {}
    BY <1>6 DEF Crash, InFlight
  <2> QED BY <2>1 DEF CitationsInv
<1>7. CASE SomeEvent
  <2>1. /\ InFlight' = InFlight /\ StatusIsTold /\ UNCHANGED claimed
        /\ restated' \in {restated, restated \cup InFlight}
    BY <1>7, EventOutcome DEF InFlight
  <2>2. CASE selection' = selection \/ restated' = restated \cup InFlight
    BY <1>1, <2>1, <2>2
  <2>3. CASE candidate'.mode = "resume from panel" \/ candidate'.reminder = "SKIPPED"
    <3>1. \A r \in InFlight : candidate' # claimed'[r]
      BY <1>0, <2>1, <2>3 DEF StampsInv
    <3> QED BY <2>1, <3>1 DEF CitationsInv
  <2> QED BY <2>1, <2>2, <2>3 DEF StatusIsTold
<1>8. CASE UNCHANGED vars
  BY <1>1, <1>8 DEF vars, requestVars, historyVars, InFlight
<1> QED BY <1>2, <1>3, <1>4, <1>5, <1>6, <1>7, <1>8, StepCases

\* A citation that ends as its claim left it went over an explicit pause.
LEMMA NextCitationsStick ==
  ASSUME TypeOK, StampsInv, RequestsInv, PausesInv, OwnersInv, CitationsInv,
         CitationsStickOnlyToExplicitPauses, [Next]_vars
  PROVE  CitationsStickOnlyToExplicitPauses'
<1>0. /\ pc \in [Requests -> PcVal] /\ row \in [Requests -> DeliveryState]
      /\ fault \in [Requests -> SendFault \cup {"none"}]
      /\ accepted \subseteq Requests
      /\ previous \in [Requests -> Snapshot]
  BY DEF TypeOK
<1>1. accepted' \subseteq Requests
  BY <1>0, NextTypeOK DEF TypeOK
<1> SUFFICES ASSUME NEW r \in Requests, r \in accepted', r \notin restated', r \notin cut',
                    Kind[r] = "citation", pc'[r] = "done", fault'[r] = "none",
                    candidate' = claimed'[r]
             PROVE  previous'[r].mode = "explicit pause"
  BY <1>1 DEF CitationsStickOnlyToExplicitPauses
<1>2. ASSUME r \in Prepared
      PROVE  previous'[r] = previous[r] /\ OwnsClaim(r) /\ candidate' = candidate
  BY <1>2, LostStays DEF OwnsClaim
<1>3. ASSUME r \in accepted, pc[r] = "done", fault'[r] = fault[r],
             restated \subseteq restated', cut \subseteq cut'
      PROVE  previous'[r].mode = "explicit pause"
  <2>1. r \in Prepared
    BY <1>3 DEF RequestsInv, Prepared
  <2> QED BY <1>2, <1>3, <2>1 DEF CitationsStickOnlyToExplicitPauses, OwnsClaim
<1>4. ASSUME UNCHANGED <<accepted, fault, restated, cut>>, NEW q \in Requests, q # r,
             pc' = [pc EXCEPT ![q] = pc'[q]]
      PROVE  previous'[r].mode = "explicit pause"
  BY <1>0, <1>3, <1>4
<1>5. ASSUME UNCHANGED <<accepted, fault, cut, pc>>, restated \subseteq restated'
      PROVE  previous'[r].mode = "explicit pause"
  BY <1>3, <1>5
<1>6. ASSUME NEW q \in Requests, Prepare(q) PROVE previous'[r].mode = "explicit pause"
  <2>1. pc' = [pc EXCEPT ![q] = "send"] /\ UNCHANGED <<accepted, fault, restated, cut>>
    BY <1>6, PrepareOutcome DEF historyVars
  <2>2. q # r
    BY <1>0, <2>1
  <2> QED BY <1>0, <1>4, <2>1, <2>2
<1>7. ASSUME NEW q \in Requests, PersistFailure(q) PROVE previous'[r].mode = "explicit pause"
  <2>1. fault[q] \in SendFault
    BY <1>7 DEF PersistFailure, RequestsInv
  <2>2. pc' = [pc EXCEPT ![q] = "done"] /\ UNCHANGED <<accepted, fault, restated, cut>>
    BY <1>7, <2>1, FailureOutcome DEF historyVars
  <2>3. q # r
    BY <2>1, <2>2 DEF SendFault
  <2> QED BY <1>0, <1>4, <2>2, <2>3
<1>8. ASSUME NEW q \in Requests, Finalize(q) PROVE previous'[r].mode = "explicit pause"
  <2>1. /\ pc[q] = "finalize" /\ pc' = [pc EXCEPT ![q] = "done"]
        /\ UNCHANGED <<accepted, fault, restated, cut>>
        /\ OwnsClaim(q) => candidate'.mode # "sending"
    BY <1>8, FinalOutcome DEF historyVars
  <2>2. q # r
    <3>1. q \in Prepared
      BY <2>1 DEF RequestsInv, InFlight, Prepared
    <3> QED BY <1>2, <2>1, <3>1 DEF StampsInv, OwnsClaim
  <2> QED BY <1>0, <1>4, <2>1, <2>2
<1>9. ASSUME NEW q \in Requests, HandoffConflict(q) PROVE previous'[r].mode = "explicit pause"
  <2>1. /\ pc[q] = "finalize" /\ pc' = [pc EXCEPT ![q] = "done"]
        /\ OwnsClaim(q) /\ ~HandoffApplies(q)
        /\ UNCHANGED <<accepted, fault, restated, cut>>
    BY <1>9 DEF HandoffConflict, GoTo, historyVars
  <2>2. CASE q = r
    <3>1. r \in InFlight \ restated /\ r \in Prepared
      BY <2>1, <2>2 DEF RequestsInv, InFlight, Prepared
    <3>2. selection = "APROBADO" /\ candidate.paused
      BY <2>1, <2>2, <3>1, OneOwner DEF CitationsInv, OwnsClaim
    <3>3. candidate \in Snapshot
      BY DEF TypeOK
    <3>4. TakenOver("resume from panel").paused
          /\ TakenOver("resume from panel").mode = "resume from panel"
      BY <3>2, <3>3 DEF TakenOver, Snapshot
    <3>5. previous[r].mode = "explicit pause"
      BY <2>1, <2>2, <3>2, <3>4 DEF HandoffApplies, Finalized
    <3> QED BY <1>2, <3>1, <3>5
  <2> QED BY <1>0, <1>4, <2>1, <2>2
<1>10. ASSUME NEW q \in Requests, PersistenceError(q) PROVE previous'[r].mode = "explicit pause"
  <2>1. /\ pc' = [pc EXCEPT ![q] = "done"] /\ cut' = cut \cup {q}
        /\ UNCHANGED <<accepted, fault, restated>>
    BY <1>10 DEF PersistenceError, GoTo
  <2>2. pc[r] = "done"
    BY <1>0, <2>1
  <2> QED BY <1>3, <2>1, <2>2
<1>11. ASSUME NEW q \in Requests, Start(q) \/ PrepareRefused(q)
       PROVE  previous'[r].mode = "explicit pause"
  <2>1. /\ pc[q] \in {"start", "prepare"}
        /\ pc' = [pc EXCEPT ![q] = pc'[q]]
        /\ UNCHANGED <<accepted, fault, restated, cut>>
    BY <1>0, <1>11 DEF Start, PrepareRefused, GoTo, historyVars
  <2>2. q # r
    BY <2>1 DEF RequestsInv
  <2> QED BY <1>4, <2>1, <2>2
<1>12. ASSUME NEW q \in Requests, Send(q) \/ SendError(q)
       PROVE  previous'[r].mode = "explicit pause"
  <2>1. /\ pc' = [pc EXCEPT ![q] = pc'[q]] /\ pc'[q] # "done"
        /\ UNCHANGED <<restated, cut>>
    BY <1>0, <1>12 DEF Send, SendError, GoTo, historyVars
  <2>2. q # r
    BY <2>1
  <2>3. r \in accepted /\ fault'[r] = fault[r]
    <3>1. CASE Send(q)
      BY <2>2, <3>1 DEF Send
    <3>2. CASE SendError(q)
      <4>1. PICK e \in SendFault : /\ fault' = [fault EXCEPT ![q] = e]
                                  /\ accepted' \in {accepted, accepted \cup {q}}
        BY <3>2, Zenon DEF SendError
      <4> QED BY <1>0, <2>2, <4>1
    <3> QED BY <1>12, <3>1, <3>2
  <2> QED BY <1>0, <1>3, <2>1, <2>2, <2>3
<1>13. ASSUME NEW q \in Requests, RowAges(q) PROVE previous'[r].mode = "explicit pause"
  BY <1>5, <1>13 DEF RowAges, requestVars, historyVars
<1>14. CASE Crash
  <2>1. /\ UNCHANGED <<accepted, fault, restated>> /\ cut' = cut \cup InFlight
        /\ pc[r] # "start"
    BY <1>0, <1>14 DEF Crash
  <2>2. pc[r] \notin {"prepare", "send", "fail", "finalize"}
    BY <2>1 DEF RequestsInv, InFlight
  <2> QED BY <1>0, <1>3, <2>1, <2>2 DEF PcVal
<1>15. CASE SomeEvent
  <2>1. /\ UNCHANGED <<pc, accepted, fault, cut>>
        /\ restated' \in {restated, restated \cup InFlight}
    BY <1>15, EventOutcome
  <2> QED BY <1>5, <2>1
<1>16. CASE UNCHANGED vars
  BY <1>5, <1>16 DEF vars, requestVars, historyVars
<1> QED BY <1>6, <1>7, <1>8, <1>9, <1>10, <1>11, <1>12, <1>13, <1>14, <1>15, <1>16, StepCases
        DEF Quiet

-----------------------------------------------------------------------------
(* The invariant *)

\* The initial states satisfy the invariant.
LEMMA InitInv == ASSUME Init PROVE Inv
<1>1. TypeOK
  BY InitTypeOK
<1>2. Prepared = {} /\ InFlight = {} /\ accepted = {} /\ Overtaken = {} /\ Blocking = {}
  BY DEF Init, Prepared, InFlight, Overtaken, Blocking
<1>3. candidate.since = 0 /\ candidate.out = 0 /\ candidate.mode = "none" /\ clock = 1
  BY DEF Init, NoSnapshot
<1>4. StampsInv /\ RequestsInv /\ PausesInv /\ TextsInv
  BY <1>2, <1>3 DEF Init, StampsInv, RequestsInv, PausesInv, TextsInv, Blocked
<1>5. OwnersInv /\ CitationsInv /\ CitationsStickOnlyToExplicitPauses
  BY <1>2 DEF Init, OwnersInv, CitationsInv, CitationsStickOnlyToExplicitPauses
<1>6. ExplicitPausesLast /\ ClaimsAreGivenBack
  BY DEF Init, ExplicitPausesLast, ClaimsAreGivenBack
<1> QED BY <1>1, <1>4, <1>5, <1>6 DEF Inv

\* Inv is an invariant of the manual deliveries.
THEOREM Invariance == Spec => []Inv
<1>1. Inv /\ [Next]_vars => Inv'
  <2> SUFFICES ASSUME Inv, [Next]_vars PROVE Inv'
    OBVIOUS
  <2>1. /\ TypeOK /\ StampsInv /\ RequestsInv /\ PausesInv /\ OwnersInv /\ TextsInv
        /\ ExplicitPausesLast /\ ClaimsAreGivenBack /\ CitationsInv
        /\ CitationsStickOnlyToExplicitPauses
    BY DEF Inv
  <2>2. TypeOK' /\ RequestsInv'
    BY <2>1, NextTypeOK, NextRequestsInv
  <2>3. StampsInv' /\ PausesInv' /\ OwnersInv' /\ TextsInv'
    BY <2>1, <2>2, NextStampsInv, NextPausesInv, NextOwnersInv, NextTextsInv
  <2>4. ExplicitPausesLast' /\ ClaimsAreGivenBack'
    BY <2>1, NextExplicitPausesLast, NextClaimsAreGivenBack
  <2>5. CitationsInv' /\ CitationsStickOnlyToExplicitPauses'
    BY <2>1, NextCitationsInv, NextCitationsStick
  <2> QED BY <2>2, <2>3, <2>4, <2>5 DEF Inv
<1> QED BY InitInv, <1>1, PTL DEF Spec

\* Every variable keeps its type.
THEOREM TypeCorrect == Spec => []TypeOK
<1>1. Inv => TypeOK
  BY DEF Inv
<1> QED BY Invariance, <1>1, PTL

\* Two sends to a candidate overlap only after the panel took one of them over
\* or somebody wrote over the mark of its claim.
THEOREM SendsExcludeEachOther == Spec => []OneSendAtATime
<1>1. Inv => OneSendAtATime
  <2> SUFFICES ASSUME Inv, NEW r \in InFlight, NEW s \in InFlight, r # s
               PROVE  {r, s} \cap Overtaken # {}
    BY DEF OneSendAtATime
  <2>1. r \in Prepared /\ s \in Prepared
    BY DEF Inv, RequestsInv, InFlight, Prepared
  <2>2. claimed[r].since # claimed[s].since
    BY <2>1 DEF Inv, StampsInv
  <2>3. r \in Overtaken \/ s \in Overtaken
    BY <2>2 DEF Inv, OwnersInv, InFlight
  <2> QED BY <2>3
<1> QED BY Invariance, <1>1, PTL

\* Equal texts are accepted twice only out of the window or after a claim was
\* overtaken.
THEOREM NoTextTwice == Spec => []TextsAreSentOnce
<1>1. Inv => TextsAreSentOnce
  <2> SUFFICES ASSUME Inv, NEW r \in accepted, NEW s \in accepted, r # s, Body[r] = Body[s]
               PROVE  r \in ignored[s] \/ s \in ignored[r] \/ {r, s} \cap Overtaken # {}
    BY DEF TextsAreSentOnce
  <2>1. /\ r \in Prepared /\ s \in Prepared
        /\ row[r] # "FAILED" /\ row[s] # "FAILED"
    BY DEF Inv, TypeOK, RequestsInv, Prepared
  <2>2. claimed[r].since \in Nat /\ claimed[s].since \in Nat
    BY <2>1 DEF Inv, TypeOK, Snapshot, Prepared
  <2>3. claimed[r].since # claimed[s].since
    BY <2>1 DEF Inv, StampsInv
  <2>4. claimed[r].since < claimed[s].since \/ claimed[s].since < claimed[r].since
    BY <2>2, <2>3
  <2>5. CASE claimed[r].since < claimed[s].since
    BY <2>1, <2>5 DEF Inv, TextsInv
  <2>6. CASE claimed[s].since < claimed[r].since
    BY <2>1, <2>6 DEF Inv, TextsInv
  <2> QED BY <2>4, <2>5, <2>6
<1> QED BY Invariance, <1>1, PTL

\* A send never ends the pause an administrator asked for.
THEOREM PausesLast == Spec => []ExplicitPausesLast
<1>1. Inv => ExplicitPausesLast
  BY DEF Inv
<1> QED BY Invariance, <1>1, PTL

\* A finished request whose outcome was stored does not keep the candidate,
\* unless the bot wrote a stamp or ended the conversation under its claim.
THEOREM ClaimsReturn == Spec => []ClaimsAreGivenBack
<1>1. Inv => ClaimsAreGivenBack
  BY DEF Inv
<1> QED BY Invariance, <1>1, PTL

\* A request that was overtaken leaves the candidate alone to the end.
THEOREM TakeOversStand == Spec => OverruledRequestsKeepOff
<1>1. Inv /\ [Next]_vars
        => [\A r \in Overtaken : pc'[r] # pc[r] => candidate' = candidate]_vars
  <2> SUFFICES ASSUME Inv, [Next]_vars, NEW r \in Overtaken, pc'[r] # pc[r]
               PROVE  candidate' = candidate
    OBVIOUS
  <2>1. /\ r \in Requests /\ pc \in [Requests -> PcVal]
        /\ row[r] # "NONE" /\ ~OwnsClaim(r)
    BY DEF Inv, TypeOK, RequestsInv, OwnersInv, OwnsClaim, Overtaken
  <2>2. ASSUME NEW s \in Requests, Prepare(s) PROVE candidate' = candidate
    <3>1. s = r /\ pc[r] = "prepare"
      BY <2>1, <2>2, PrepareOutcome DEF Inv
    <3> QED BY <2>1, <3>1 DEF Inv, RequestsInv
  <2>3. ASSUME NEW s \in Requests, PersistFailure(s) PROVE candidate' = candidate
    <3>1. fault[s] \in SendFault
      BY <2>3 DEF PersistFailure, Inv, RequestsInv
    <3>2. s = r
      BY <2>1, <2>3, <3>1, FailureOutcome DEF Inv
    <3> QED BY <2>1, <2>3, <3>1, <3>2, FailureOutcome DEF Inv
  <2>4. ASSUME NEW s \in Requests, Finalize(s) PROVE candidate' = candidate
    <3>1. s = r
      BY <2>1, <2>4, FinalOutcome DEF Inv
    <3> QED BY <2>1, <2>4, <3>1, FinalOutcome DEF Inv
  <2>5. ASSUME NEW s \in Requests, Quiet(s) PROVE candidate' = candidate
    BY <2>5, QuietSteps
  <2>6. CASE Crash
    BY <2>6 DEF Crash
  <2>7. CASE SomeEvent
    BY <2>7, EventOutcome DEF Inv
  <2>8. CASE UNCHANGED vars
    BY <2>8 DEF vars
  <2> QED BY <2>2, <2>3, <2>4, <2>5, <2>6, <2>7, <2>8, StepCases
<1> QED BY Invariance, <1>1, PTL DEF Spec, OverruledRequestsKeepOff

\* A citation that was sent is recorded unless its claim was lost or it went
\* over an explicit pause; the status edits of the panel are set apart.
THEOREM CitationsAreRecorded == Spec => []CitationsStickOnlyToExplicitPauses
<1>1. Inv => CitationsStickOnlyToExplicitPauses
  BY DEF Inv
<1> QED BY Invariance, <1>1, PTL

=============================================================================

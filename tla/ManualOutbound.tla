----------------------------- MODULE ManualOutbound -----------------------------
(***************************************************************************)
(* Texts that people send to one candidate from the panel.  A request      *)
(* claims the candidate (it pauses the bot with mode "sending"), stores a  *)
(* Message row, calls WhatsApp and gives the candidate back with a         *)
(* compare-and-swap over the whole snapshot it left.  Meanwhile the panel  *)
(* pauses, resumes, edits and opens WhatsApp, and the bot's turns write    *)
(* the candidate without comparing anything, so the claim can be           *)
(* overtaken at any await.                                                 *)
(*                                                                         *)
(* Each transaction is one step: the claim's UPDATE locks the candidate    *)
(* row, and a competing one waits for it and then misses.                  *)
(***************************************************************************)
EXTENDS Naturals, OutboundDelivery

CONSTANTS
  Requests,    \* calls of deliverManualOutboundText for this candidate
  Body,        \* [Requests -> dedupe keys]: source, action and text
  Kind,        \* [Requests -> RequestKind]
  MaxEvents    \* bound: events of the panel and the bot

RequestKind == {"text", "approved text", "citation"}

ASSUME ManualAssumption ==
  /\ DOMAIN Body = Requests
  /\ Kind \in [Requests -> RequestKind]
  /\ MaxEvents \in Nat

VARIABLES
  candidate,  \* the eight fields the snapshot compares
  selection,  \* Candidate.status
  row,        \* delivery state of the Message row of a request
  aged,       \* requests whose row left the dedupe window
  clock,      \* a stamp no earlier write has used
  events,
  pc,
  ignored,    \* by request, the rows that were too old when it started
  previous,   \* by request, the snapshot it read
  claimed,    \* by request, the snapshot its claim left
  fault,      \* by request, what its send threw
  accepted,   \* requests whose text the provider may have accepted
  \* history
  held,       \* whether a pause of the administrator stands
  overruled,  \* requests in flight or blocking when the panel took over
  rewritten,  \* requests whose mark in the resume mode somebody overwrote
  restated,   \* requests in flight when the panel wrote another status
  cut         \* requests that died, or whose last transaction failed

rowVars == <<row, aged>>
requestVars == <<pc, ignored, previous, claimed, fault>>
historyVars == <<held, overruled, rewritten, restated, cut>>
vars == <<candidate, selection, rowVars, clock, events, requestVars, accepted, historyVars>>

\* "asking": the bot waits for an answer (interest, consent, vacancy).
ResumeMode ==
  {"none", "asking", "resume from panel", "explicit pause", "sending", "unknown", "handoff"}

\* Every writer that is called clears reminderScheduledFor with the state.
ReminderState == {"NONE", "CANCELLED", "SKIPPED"}

\* since: botPausedAt, botPausedBy and botPauseReason, stamped together;
\* reminder: reminderState and reminderScheduledFor; out: lastOutboundAt.
Snapshot ==
  [paused : BOOLEAN, mode : ResumeMode, since : Nat, reminder : ReminderState, out : Nat]

NoSnapshot ==
  [paused |-> FALSE, mode |-> "none", since |-> 0, reminder |-> "NONE", out |-> 0]

Selection == {"APROBADO", "CONTACTADO", "REGISTRADO"}

PcVal == {"start", "prepare", "send", "fail", "finalize", "done"}

InFlight == {r \in Requests : pc[r] \in {"send", "fail", "finalize"}}

\* Requests whose claim is what blocks the candidate.
Blocking ==
  {r \in Requests : /\ row[r] # "NONE"
                    /\ candidate.mode \in {"sending", "unknown"}
                    /\ candidate.since = claimed[r].since}

Init ==
  /\ candidate = NoSnapshot
  /\ selection = "APROBADO"
  /\ row = [r \in Requests |-> "NONE"]
  /\ aged = {}
  /\ clock = 1
  /\ events = 0
  /\ pc = [r \in Requests |-> "start"]
  /\ ignored = [r \in Requests |-> {}]
  /\ previous = [r \in Requests |-> NoSnapshot]
  /\ claimed = [r \in Requests |-> NoSnapshot]
  /\ fault = [r \in Requests |-> "none"]
  /\ accepted = {}
  /\ held = "no"
  /\ overruled = {}
  /\ rewritten = {}
  /\ restated = {}
  /\ cut = {}

GoTo(r, label) == pc' = [pc EXCEPT ![r] = label]

-----------------------------------------------------------------------------
(* Before the send *)

\* Faulty variant: the window is not consulted.
DuplicateNever(r, old) == FALSE

\* findRecentOutboundConversationDelivery: UNKNOWN rows do not count.
Duplicate(r, old) ==
  \E s \in Requests \ old : Body[s] = Body[r] /\ row[s] \in {"SENDING", "SENT"}

\* The first look for a duplicate, outside the transaction.
Start(r) ==
  /\ pc[r] = "start"
  /\ ignored' = [ignored EXCEPT ![r] = aged]
  /\ GoTo(r, IF Duplicate(r, aged) THEN "done" ELSE "prepare")
  /\ UNCHANGED <<candidate, selection, rowVars, clock, events, previous, claimed, fault,
                 accepted, historyVars>>

\* Faulty variant: a delivery in course is not looked for.
ClaimableUnlessUnknown == candidate.mode # "unknown"

Claimable == candidate.mode \notin {"sending", "unknown"}

\* One transaction: snapshot, claim, expected status, duplicate, Message row.
Prepare(r) ==
  LET claim == [paused |-> TRUE, mode |-> "sending", since |-> clock,
                reminder |-> "CANCELLED", out |-> candidate.out]
  IN
  /\ pc[r] = "prepare"
  /\ Claimable
  /\ Kind[r] # "text" => selection = "APROBADO"
  /\ ~Duplicate(r, ignored[r])
  /\ previous' = [previous EXCEPT ![r] = candidate]
  /\ claimed' = [claimed EXCEPT ![r] = claim]
  /\ candidate' = claim
  /\ clock' = clock + 1
  /\ row' = [row EXCEPT ![r] = "SENDING"]
  /\ GoTo(r, "send")
  /\ UNCHANGED <<selection, aged, events, ignored, fault, accepted, historyVars>>

\* A claim that is blocked or overtaken, another status, a duplicate or a failed
\* statement: the transaction leaves nothing.
PrepareRefused(r) ==
  /\ pc[r] = "prepare"
  /\ GoTo(r, "done")
  /\ UNCHANGED <<candidate, selection, rowVars, clock, events, ignored, previous, claimed,
                 fault, accepted, historyVars>>

-----------------------------------------------------------------------------
(* The send and what follows it *)

Send(r) ==
  /\ pc[r] = "send"
  /\ accepted' = accepted \cup {r}
  /\ GoTo(r, "finalize")
  /\ UNCHANGED <<candidate, selection, rowVars, clock, events, ignored, previous, claimed,
                 fault, historyVars>>

SendError(r) ==
  /\ pc[r] = "send"
  /\ \E e \in SendFault :
       /\ fault' = [fault EXCEPT ![r] = e]
       /\ \/ UNCHANGED accepted
          \/ MayHaveBeenAccepted(e) /\ accepted' = accepted \cup {r}
  /\ GoTo(r, "fail")
  /\ UNCHANGED <<candidate, selection, rowVars, clock, events, ignored, previous, claimed,
                 historyVars>>

\* Faulty variant: the update asks only for the mode.
OwnsClaimByMode(r) == candidate.mode = "sending"

\* Faulty variant: the update expects the snapshot from before the claim.
OwnsClaimStale(r) == candidate = previous[r]

\* The expected snapshot of the compare-and-swap.
OwnsClaim(r) == candidate = claimed[r]

\* persistProviderFailure: a rejection restores, anything else stays in doubt.
PersistFailure(r) ==
  LET rejected == IsConfirmedProviderRejection(AxiosError(fault[r]))
      released == IF rejected THEN previous[r] ELSE [candidate EXCEPT !.mode = "unknown"]
  IN
  /\ pc[r] = "fail"
  /\ candidate' = IF OwnsClaim(r) THEN released ELSE candidate
  /\ row' = [row EXCEPT ![r] = IF rejected THEN "FAILED" ELSE "UNKNOWN"]
  /\ GoTo(r, "done")
  /\ UNCHANGED <<selection, aged, clock, events, ignored, previous, claimed, fault, accepted,
                 historyVars>>

TakenOver(mode) == [candidate EXCEPT !.mode = mode, !.out = clock]

\* Faulty variant: every sent text leaves the pause that the next inbound lifts.
FinalizedForgetful(r) == TakenOver("resume from panel")

\* Faulty variant: a mode that no reader of botResumeMode knows.
FinalizedUntagged(r) == TakenOver("manual")

\* An explicit pause is put back; any other state becomes a manual take-over.
Finalized(r) ==
  IF previous[r].paused /\ previous[r].mode = "explicit pause"
    THEN [previous[r] EXCEPT !.out = clock]
    ELSE TakenOver("resume from panel")

\* finalizeApprovedInterviewOutreachHandoff, in the same transaction.
HandoffApplies(r) ==
  selection = "APROBADO" /\ Finalized(r).paused /\ Finalized(r).mode = "resume from panel"

Finalize(r) ==
  /\ pc[r] = "finalize"
  /\ IF OwnsClaim(r)
       THEN \/ /\ Kind[r] # "citation"
               /\ candidate' = Finalized(r)
               /\ UNCHANGED selection
            \/ /\ Kind[r] = "citation"
               /\ HandoffApplies(r)
               /\ candidate' = [paused |-> TRUE, mode |-> "handoff", since |-> clock,
                                 reminder |-> "CANCELLED", out |-> clock]
               /\ selection' = "CONTACTADO"
       ELSE UNCHANGED <<candidate, selection>>
  /\ row' = [row EXCEPT ![r] = "SENT"]
  /\ clock' = clock + 1
  /\ GoTo(r, "done")
  /\ UNCHANGED <<aged, events, ignored, previous, claimed, fault, accepted, historyVars>>

\* approved_interview_handoff_state_conflict rolls the transaction back.
HandoffConflict(r) ==
  /\ pc[r] = "finalize"
  /\ Kind[r] = "citation" /\ OwnsClaim(r) /\ ~HandoffApplies(r)
  /\ GoTo(r, "done")
  /\ UNCHANGED <<candidate, selection, rowVars, clock, events, ignored, previous, claimed,
                 fault, accepted, historyVars>>

\* The last transaction fails: the row stays SENDING and the claim stands.
PersistenceError(r) ==
  /\ pc[r] \in {"fail", "finalize"}
  /\ cut' = cut \cup {r}
  /\ GoTo(r, "done")
  /\ UNCHANGED <<candidate, selection, rowVars, clock, events, ignored, previous, claimed,
                 fault, accepted, held, overruled, rewritten, restated>>

\* The server dies with every request it serves.
Crash ==
  /\ events < MaxEvents
  /\ events' = events + 1
  /\ InFlight # {}
  /\ cut' = cut \cup InFlight
  /\ pc' = [r \in Requests |-> IF pc[r] = "start" THEN "start" ELSE "done"]
  /\ UNCHANGED <<candidate, selection, rowVars, clock, ignored, previous, claimed, fault,
                 accepted, held, overruled, rewritten, restated>>

-----------------------------------------------------------------------------
(* The panel *)

Event ==
  /\ events < MaxEvents
  /\ events' = events + 1
  /\ clock' = clock + 1
  /\ UNCHANGED <<rowVars, requestVars, accepted, cut>>

\* The panel takes the candidate over: no claim of before is its own again.
Overrules == overruled' = overruled \cup InFlight \cup Blocking

\* pauseCandidateAutomationFromAdmin
AdminPause ==
  /\ Event
  /\ ~candidate.paused
  /\ candidate' = [paused |-> TRUE, mode |-> "explicit pause", since |-> clock,
                    reminder |-> "CANCELLED", out |-> candidate.out]
  /\ held' = "whole"
  /\ UNCHANGED <<selection, overruled, rewritten, restated>>

\* resumeCandidateAutomationFromAdmin
AdminResume ==
  /\ Event
  /\ candidate.paused
  /\ candidate' = [paused |-> FALSE, mode |-> "resume from panel", since |-> 0,
                    reminder |-> "CANCELLED", out |-> candidate.out]
  /\ held' = "no"
  /\ Overrules
  /\ UNCHANGED <<selection, rewritten, restated>>

\* recordManualWhatsAppOpen, by a developer or by an administrator.
OpenWhatsApp ==
  /\ Event
  /\ candidate' = [paused |-> TRUE, mode |-> "resume from panel", since |-> clock,
                    reminder |-> "CANCELLED", out |-> clock]
  /\ selection' \in {selection, "CONTACTADO"}
  /\ held' = "no"
  /\ Overrules
  /\ UNCHANGED <<rewritten, restated>>

\* Another status: the resume mode was looked at in an earlier read, when the
\* candidate may have been free.
EditStatus ==
  /\ Event
  /\ selection' \in Selection \ {selection}
  /\ restated' = restated \cup InFlight
  /\ UNCHANGED <<candidate, held, overruled, rewritten>>

\* A developer's edit that leaves the candidate to a person: a new pause under
\* the mode there was, so that a claim of that mode is nobody's.
EditForReview ==
  /\ Event
  /\ candidate' = [candidate EXCEPT !.paused = TRUE, !.since = clock, !.reminder = "SKIPPED"]
  /\ selection' \in Selection
  /\ held' = IF held = "whole" /\ Blocking # {} THEN "displaced" ELSE held
  /\ Overrules
  /\ UNCHANGED <<rewritten, restated>>

\* claimCandidateDataConsentPromptPendingState: the consent is asked again.
ResendConsent ==
  /\ Event
  /\ ~candidate.paused
  /\ candidate' = [candidate EXCEPT !.mode = "asking", !.reminder = "SKIPPED"]
  /\ UNCHANGED <<selection, held, overruled, rewritten, restated>>

-----------------------------------------------------------------------------
(* The bot *)

\* What the policies decide of these fields: a pause for manual review, the end
\* of the conversation, a resume mode.  Only a pending consent is asked for.
Turn ==
  {t \in [pausing : BOOLEAN, ending : BOOLEAN, mode : {"kept", "none", "asking"}] :
     t.mode = "asking" => ~t.pausing /\ ~t.ending}

\* The resume mode is written over whatever it says.
Displaces ==
  /\ rewritten' = rewritten \cup Blocking
  /\ held' = IF held = "whole" THEN "displaced" ELSE held

\* The transaction of a turn.  Only the pause compares; where it was asked for
\* and missed, the fields of the turn are not written, but its end is.
BotTurn(t) ==
  LET pauses   == t.pausing /\ ~candidate.paused
      writes   == t.pausing => pauses
      paused   == IF pauses
                    THEN [candidate EXCEPT !.paused = TRUE, !.since = clock,
                                           !.reminder = "CANCELLED"]
                    ELSE candidate
      written  == IF writes /\ t.mode # "kept" THEN [paused EXCEPT !.mode = t.mode] ELSE paused
  IN
  /\ Event
  /\ candidate' = IF t.ending THEN [written EXCEPT !.reminder = "SKIPPED"] ELSE written
  /\ selection' = IF t.ending /\ writes THEN "REGISTRADO" ELSE selection
  /\ IF writes /\ t.mode # "kept" THEN Displaces ELSE UNCHANGED <<rewritten, held>>
  /\ UNCHANGED <<overruled, restated>>

\* recordCandidateAutomaticOutboundSent, after the turn's transaction.
AutomaticSent ==
  /\ Event
  /\ candidate' = TakenOver(candidate.mode)
  /\ UNCHANGED <<selection, held, overruled, rewritten, restated>>

\* The campaign of the candidate's ad turns out to have a vacancy.
AssociateCampaign ==
  /\ Event
  /\ candidate' = [candidate EXCEPT !.mode = "asking"]
  /\ Displaces
  /\ UNCHANGED <<selection, overruled, restated>>

\* The row of r gets older than the dedupe window.
RowAges(r) ==
  /\ row[r] # "NONE" /\ r \notin aged
  /\ aged' = aged \cup {r}
  /\ UNCHANGED <<candidate, selection, row, clock, events, requestVars, accepted, historyVars>>

-----------------------------------------------------------------------------

Next ==
  \/ \E r \in Requests :
       \/ Start(r) \/ Prepare(r) \/ PrepareRefused(r) \/ Send(r) \/ SendError(r)
       \/ PersistFailure(r) \/ Finalize(r) \/ HandoffConflict(r) \/ PersistenceError(r)
       \/ RowAges(r)
  \/ Crash
  \/ AdminPause \/ AdminResume \/ OpenWhatsApp \/ EditStatus \/ EditForReview \/ ResendConsent
  \/ \E t \in Turn : BotTurn(t)
  \/ AutomaticSent \/ AssociateCampaign

Spec == Init /\ [][Next]_vars

-----------------------------------------------------------------------------
TypeOK ==
  /\ candidate \in Snapshot
  /\ selection \in Selection
  /\ row \in [Requests -> DeliveryState]
  /\ aged \subseteq Requests
  /\ clock \in Nat
  /\ events \in 0..MaxEvents
  /\ pc \in [Requests -> PcVal]
  /\ ignored \in [Requests -> SUBSET Requests]
  /\ previous \in [Requests -> Snapshot]
  /\ claimed \in [Requests -> Snapshot]
  /\ fault \in [Requests -> SendFault \cup {"none"}]
  /\ accepted \subseteq Requests
  /\ held \in {"no", "whole", "displaced"}
  /\ overruled \subseteq Requests
  /\ rewritten \subseteq Requests
  /\ restated \subseteq Requests
  /\ cut \subseteq Requests

Overtaken == overruled \cup rewritten

\* Two people never have a text for the candidate on its way at the same time,
\* unless the panel took the candidate over from one of them or the bot wrote
\* over the mark of its claim.
OneSendAtATime ==
  \A r, s \in InFlight : r # s => {r, s} \cap Overtaken # {}

\* The same text is accepted twice only when the first row left the dedupe
\* window, the panel stepped in, or the bot wrote over the mark of a claim.
TextsAreSentOnce ==
  \A r, s \in accepted :
    /\ r # s
    /\ Body[r] = Body[s]
    => \/ r \in ignored[s] \/ s \in ignored[r]
       \/ {r, s} \cap Overtaken # {}

\* A finished request leaves the candidate blocked as "sending" only when its
\* outcome could not be stored, or when the bot meanwhile recorded a message of
\* its own or ended the conversation.
ClaimsAreGivenBack ==
  \A r \in Requests :
    /\ pc[r] = "done" /\ row[r] # "NONE"
    /\ candidate.mode = "sending"
    /\ candidate.since = claimed[r].since
    => \/ row[r] = "SENDING"
       \/ candidate.out # claimed[r].out \/ candidate.reminder # claimed[r].reminder

\* A send keeps the pause an administrator asked for, whatever becomes of the
\* send: the bot stays paused until the panel resumes, under the explicit mode
\* unless a writer that compares nothing displaced it.
ExplicitPausesLast ==
  /\ held # "no" => candidate.paused
  /\ held = "whole" =>
       \/ candidate.mode = "explicit pause"
       \/ \E r \in Blocking : previous[r].mode = "explicit pause"

\* A request that was overtaken, by the panel or by a writer of the resume
\* mode, no longer touches the candidate.
OverruledRequestsKeepOff ==
  [][\A r \in Overtaken : pc'[r] # pc[r] => candidate' = candidate]_vars

\* A citation WhatsApp accepted never leaves the candidate as its claim left it,
\* unless its last transaction failed, the panel gave the candidate another
\* status, or it went over an explicit pause, which the hand-off does not accept.
CitationsStickOnlyToExplicitPauses ==
  \A r \in accepted \ (restated \cup cut) :
    /\ Kind[r] = "citation" /\ pc[r] = "done"
    /\ fault[r] = "none"
    /\ candidate = claimed[r]
    => previous[r].mode = "explicit pause"

-----------------------------------------------------------------------------
(* The inductive invariant. *)

Prepared == {r \in Requests : row[r] # "NONE"}

Blocked == candidate.mode \in {"sending", "unknown"}

\* Stamps grow, and no two claims share one.
StampsInv ==
  /\ candidate.since < clock /\ candidate.out < clock
  /\ \A r \in Prepared :
       /\ claimed[r].paused /\ claimed[r].mode = "sending"
       /\ claimed[r].reminder = "CANCELLED"
       /\ claimed[r].since < clock /\ claimed[r].out < clock
       /\ previous[r].since < claimed[r].since /\ previous[r].out < clock
  /\ \A r, s \in Prepared : claimed[r].since = claimed[s].since => r = s

\* What a request has done so far, by its program counter and its row.
RequestsInv ==
  \A r \in Requests :
    /\ pc[r] \in {"start", "prepare"} => row[r] = "NONE"
    /\ r \in InFlight => row[r] = "SENDING"
    /\ r \in accepted => row[r] \in {"SENDING", "SENT", "UNKNOWN"} /\ pc[r] # "send"
    /\ r \in Overtaken \cup restated => row[r] # "NONE"
    /\ pc[r] = "fail" => fault[r] \in SendFault
    /\ pc[r] = "fail" /\ r \in accepted => MayHaveBeenAccepted(fault[r])

\* What a claim found, and what it leaves in the candidate.
PausesInv ==
  /\ Blocked \/ candidate.mode = "explicit pause" => candidate.paused
  /\ \A r \in Prepared :
       /\ previous[r].mode \notin {"sending", "unknown"}
       /\ previous[r].mode = "explicit pause" => previous[r].paused
  /\ \A r \in Blocking : held # "no" => previous[r].paused

\* Until it is overtaken, the candidate is the claimant's; afterwards nothing
\* makes it the claimant's again.
OwnersInv ==
  /\ \A r \in Requests \ Overtaken :
       /\ r \in InFlight => candidate.mode = "sending" /\ candidate.since = claimed[r].since
       /\ row[r] = "UNKNOWN" => Blocked /\ candidate.since = claimed[r].since
  /\ \A r \in Overtaken : candidate # claimed[r]

\* A text claimed after an equal one found it rejected, too old or overtaken.
TextsInv ==
  \A r, s \in Prepared :
    Body[r] = Body[s] /\ claimed[r].since < claimed[s].since
      => row[r] = "FAILED" \/ r \in ignored[s] \/ r \in Overtaken

\* The status a citation was claimed under stands as long as its claim does.
CitationsInv ==
  \A r \in InFlight \ restated :
    Kind[r] = "citation" /\ candidate = claimed[r] => selection = "APROBADO"

\* The invariant the proofs are built on (ManualOutbound_proofs).
Inv ==
  /\ TypeOK /\ StampsInv /\ RequestsInv /\ PausesInv /\ OwnersInv /\ TextsInv
  /\ ExplicitPausesLast /\ ClaimsAreGivenBack /\ CitationsInv
  /\ CitationsStickOnlyToExplicitPauses

=============================================================================

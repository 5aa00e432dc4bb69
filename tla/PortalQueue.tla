----------------------------- MODULE PortalQueue -----------------------------
(***************************************************************************)
(* A worker's marks made without connection: the queue of the portal in    *)
(* the phone, the passes of its service worker, the network, and the       *)
(* handler of the server that records a mark and, when the worker leads a  *)
(* crew, repeats it for the members.                                       *)
(*                                                                         *)
(* Every sync request starts two passes, one by Background Sync and one by *)
(* message, and nothing keeps them apart.                                  *)
(***************************************************************************)
EXTENDS Integers, FiniteSets, FiniteSetsExt

CONSTANTS
  Member,       \* the crew the worker leads, without the worker
  Leader,       \* the worker
  Pass,         \* passes of the service worker that may run at once
  Handler,      \* requests the server may have at once
  Refusals,     \* how the server may refuse a mark for its conditions
  MaxRecords,   \* bound: marks queued in the phone
  MaxOld,       \* bound: marks that grow too old in the queue
  MaxRefused,   \* bound: marks of the queue refused for their conditions
  MaxFaults     \* bound: lost answers, crashes, server errors, kills and lost sessions

ASSUME PortalQueueAssumption ==
  /\ Leader \notin Member
  /\ Refusals \subseteq {"rejected", "unlisted"}
  /\ MaxRecords \in Nat
  /\ MaxOld \in Nat
  /\ MaxRefused \in Nat
  /\ MaxFaults \in Nat

\* The stages of a day, MARK_STAGE of the page.
MarkType == {"ARRIVAL", "BREAK_START", "BREAK_END", "DEPARTURE"}

MarkStage == [ARRIVAL |-> 1, BREAK_START |-> 2, BREAK_END |-> 3, DEPARTURE |-> 4]

\* Keys of the queue in the order of queuedAt; Online is the key of a mark
\* made directly, Elsewhere that of an arrival the queue knows nothing of.
Key == 1 .. MaxRecords
Online == 0
Elsewhere == MaxRecords + 1
NoMark == -1

\* A request in the server: the members that are left, and the answer once
\* it is done; an answer is "unread" when nobody waits for it.
Request(phase, key, todo, answer) == [phase |-> phase, key |-> key, todo |-> todo, answer |-> answer]
Free == Request("free", NoMark, {}, "none")

\* A pass: the records it has left, those it read with a delay, and the record
\* and the request it waits for.
PassIn(phase, todo, late, key, serving) ==
  [phase |-> phase, todo |-> todo, late |-> late, key |-> key, handler |-> serving]
IdlePass == PassIn("idle", {}, {}, NoMark, "none")
Walking(todo, late) == PassIn("walking", todo, late, NoMark, "none")

VARIABLES
  type,      \* by key, the type of mark
  refused,   \* keys of which a request was refused for its conditions
  queue,     \* keys in arrivalQueue
  deferred,  \* keys of the queue whose retryNotBefore has not come
  old,       \* keys queued more than 72 hours ago
  receipt,   \* by key, the receipt in arrivalReceipts
  pass,      \* by pass, what it is doing
  handler,   \* by handler, the request it serves
  day,       \* by worker and type, the key of the mark on the server
  signedIn,  \* the session of the portal is good
  faults

records == <<type, refused, queue, deferred, old, receipt>>
vars == <<records, pass, handler, day, signedIn, faults>>

Init ==
  /\ type = [k \in {Online} \cup Key |-> "NONE"]
  /\ refused = {}
  /\ queue = {}
  /\ deferred = {}
  /\ old = {}
  /\ receipt = [k \in Key |-> "NONE"]
  /\ pass = [p \in Pass |-> IdlePass]
  /\ handler = [h \in Handler |-> Free]
  /\ day \in [{Leader} \cup Member -> {[t \in MarkType |-> NoMark],
                                       [t \in MarkType |-> IF t = "ARRIVAL" THEN Elsewhere ELSE NoMark]}]
  /\ signedIn = TRUE
  /\ faults = 0

Has(w, t) == day[w][t] # NoMark

\* The mark of key k is on the server.
Kept(k) == \E t \in MarkType : day[Leader][t] = k

-----------------------------------------------------------------------------
(* The page *)

Stage(keys) == Max({0} \cup {MarkStage[type[k]] : k \in keys})

\* What the page offers once a stage is reached.
Offered(stage) ==
  CASE stage = 0 -> {"ARRIVAL"}
    [] stage = 1 -> {"BREAK_START", "DEPARTURE"}
    [] stage = 2 -> {"BREAK_END"}
    [] stage = 3 -> {"DEPARTURE"}
    [] OTHER -> {}

\* The page was rendered before or after the marks the server has.
Rendered == {0, Max({0} \cup {MarkStage[t] : t \in {x \in MarkType : Has(Leader, x)}})}

LocalStage == Stage(queue \cup {k \in Key : receipt[k] \in {"SYNCED", "ALREADY_RECORDED"}})

QueueMark ==
  \E k \in Key, base \in Rendered :
    /\ type[k] = "NONE"
    /\ \A j \in Key : j < k => type[j] # "NONE"
    /\ \E t \in Offered(Max({base, LocalStage})) : type' = [type EXCEPT ![k] = t]
    /\ queue' = queue \cup {k}
    /\ UNCHANGED <<refused, deferred, old, receipt, pass, handler, day, signedIn, faults>>

\* With connection the page posts the mark itself and does not ask the queue.
TapOnline(h) ==
  /\ type[Online] = "NONE"
  /\ handler[h] = Free
  /\ \E base \in Rendered, t \in MarkType :
       /\ t \in Offered(Max({base, LocalStage}))
       /\ type' = [type EXCEPT ![Online] = t]
  /\ handler' = [handler EXCEPT ![h] = Request("received", Online, {}, "unread")]
  /\ UNCHANGED <<refused, queue, deferred, old, receipt, pass, day, signedIn, faults>>

Age(k) ==
  /\ k \in queue \ old
  /\ Cardinality(old) < MaxOld
  /\ old' = old \cup {k}
  /\ UNCHANGED <<type, refused, queue, deferred, receipt, pass, handler, day, signedIn, faults>>

\* Opening the portal drops what is too old, and leaves no receipt.
CleanUpExpiredData ==
  /\ queue \cap old # {}
  /\ queue' = queue \ old
  /\ deferred' = deferred \ old
  /\ UNCHANGED <<type, refused, old, receipt, pass, handler, day, signedIn, faults>>

WithoutDelay(q, k) == PassIn(q.phase, q.todo, q.late \ {k}, q.key, q.handler)

DelayPasses(k) ==
  /\ k \in deferred \cup UNION {pass[p].late : p \in Pass}
  /\ deferred' = deferred \ {k}
  /\ pass' = [p \in Pass |-> WithoutDelay(pass[p], k)]
  /\ UNCHANGED <<type, refused, queue, old, receipt, handler, day, signedIn, faults>>

\* The delay a pass read may be an earlier one.
EarlierDelayPasses(p) ==
  /\ pass[p].late # {}
  /\ \E k \in pass[p].late : pass' = [pass EXCEPT ![p] = WithoutDelay(@, k)]
  /\ UNCHANGED <<records, handler, day, signedIn, faults>>

-----------------------------------------------------------------------------
(* The service worker *)

\* Faulty variant: a pass that was told to wait walks on.
EndsPassNever(answer) == FALSE

\* The answers after which a pass leaves the assignment alone.
EndsPass(answer) == answer \in {"rejected", "session", "busy", "unlisted"}

\* The queue is read once, when the pass begins.
StartPass(p) ==
  /\ pass[p] = IdlePass
  /\ queue # {}
  /\ pass' = [pass EXCEPT ![p] = Walking(queue, deferred)]
  /\ UNCHANGED <<records, handler, day, signedIn, faults>>

\* The record k is the next of pass p.
IsNext(p, k) == k \in pass[p].todo /\ \A j \in pass[p].todo : k <= j

EndPass(p) == pass' = [pass EXCEPT ![p] = IdlePass]

PassIsOver(p) ==
  /\ pass[p].phase = "walking"
  /\ \/ pass[p].todo = {}
     \/ \E k \in pass[p].late \ old : IsNext(p, k)
  /\ EndPass(p)
  /\ UNCHANGED <<records, handler, day, signedIn, faults>>

\* Faulty variant: a record that is too old is passed over and stays.
ExpireRecordPassedOver(p) ==
  /\ pass[p].phase = "walking"
  /\ \E k \in old : IsNext(p, k)
  /\ EndPass(p)
  /\ UNCHANGED <<records, handler, day, signedIn, faults>>

ExpireRecord(p) ==
  /\ pass[p].phase = "walking"
  /\ \E k \in old :
       /\ IsNext(p, k)
       /\ queue' = queue \ {k}
       /\ deferred' = deferred \ {k}
       /\ receipt' = [receipt EXCEPT ![k] = "REJECTED"]
  /\ EndPass(p)
  /\ UNCHANGED <<type, refused, old, handler, day, signedIn, faults>>

\* The record is put back as SYNCING, even if another pass completed it.
SendRecord(p, h) ==
  /\ pass[p].phase = "walking"
  /\ handler[h] = Free
  /\ \E k \in Key \ (old \cup pass[p].late) :
       /\ IsNext(p, k)
       /\ queue' = queue \cup {k}
       /\ deferred' = deferred \ {k}
       /\ pass' = [pass EXCEPT ![p] = PassIn("waiting", @.todo, @.late, k, h)]
       /\ handler' = [handler EXCEPT ![h] = Request("received", k, {}, "none")]
  /\ UNCHANGED <<type, refused, old, receipt, day, signedIn, faults>>

\* Faulty variant: a completed record keeps the delay of its last retry.
SettleKeepsDelay(p, answer) ==
  /\ queue' = IF answer \in {"session", "busy", "unlisted"} THEN queue \cup {pass[p].key} ELSE queue \ {pass[p].key}
  /\ deferred' = IF answer = "busy" THEN deferred \cup {pass[p].key} ELSE deferred
  /\ UNCHANGED receipt
  /\ EndPass(p)

\* What syncMarkRecord does with an answer: a terminal one completes the
\* record and writes its receipt, any other puts it back.
Settle(p, answer) ==
  LET k == pass[p].key IN
  /\ queue' = IF answer \in {"session", "busy", "unlisted"} THEN queue \cup {k} ELSE queue \ {k}
  /\ deferred' = IF answer = "busy" THEN deferred \cup {k} ELSE deferred \ {k}
  /\ receipt' = [receipt EXCEPT ![k] = CASE answer = "ok" -> "SYNCED"
                                         [] answer = "already" -> "ALREADY_RECORDED"
                                         [] answer = "rejected" -> "REJECTED"
                                         [] OTHER -> @]
  /\ IF EndsPass(answer)
     THEN EndPass(p)
     ELSE pass' = [pass EXCEPT ![p] = Walking(@.todo \ {k}, @.late)]

TakeAnswer(p) ==
  LET h == pass[p].handler IN
  /\ pass[p].phase = "waiting"
  /\ handler[h].phase = "done"
  /\ Settle(p, handler[h].answer)
  /\ handler' = [handler EXCEPT ![h] = Free]
  /\ UNCHANGED <<type, refused, old, day, signedIn, faults>>

Fault == faults < MaxFaults /\ faults' = faults + 1

Serves(h) == {p \in Pass : pass[p].phase = "waiting" /\ pass[p].handler = h}

\* The answer to a request is lost; the request goes on.
Unlink(h) ==
  handler' = [handler EXCEPT ![h] = IF @.phase = "done" THEN Free ELSE Request(@.phase, @.key, @.todo, "unread")]

\* The request or its answer is lost; the server may go on with it.
NetworkError(p) ==
  LET h == pass[p].handler IN
  /\ pass[p].phase = "waiting"
  /\ Fault
  /\ Settle(p, "busy")
  /\ Unlink(h)
  /\ UNCHANGED <<type, refused, old, day, signedIn>>

\* The browser stops the service worker in the middle of a pass.
KillPass(p) ==
  /\ pass[p].phase # "idle"
  /\ Fault
  /\ EndPass(p)
  /\ IF pass[p].phase = "waiting" THEN Unlink(pass[p].handler) ELSE UNCHANGED handler
  /\ UNCHANGED <<records, day, signedIn>>

-----------------------------------------------------------------------------
(* The server *)

Reply(h, answer) ==
  handler' = [handler EXCEPT ![h] = IF @.answer = "unread" THEN Free ELSE Request("done", @.key, {}, answer)]

\* Faulty variant: a mark is told apart by its type and not by its key.
OutcomeByType(w, t, k) == IF Has(w, t) THEN "replayed" ELSE "recorded"

\* A mark already made, a mark that may be made, or the refusal of one: what
\* the transactions of registerArrival, registerBreak and registerDeparture
\* answer for the mark (t, k) of worker w.
Outcome(w, t, k) ==
  LET misplaced == \/ t # "ARRIVAL" /\ ~Has(w, "ARRIVAL")
                   \/ t \in {"BREAK_START", "BREAK_END"} /\ Has(w, "DEPARTURE")
                   \/ t = "BREAK_END" /\ ~Has(w, "BREAK_START")
      made == Has(w, t) \/ (t = "BREAK_START" /\ Has(w, "BREAK_END"))
  IN  IF k \in {day[w][x] : x \in MarkType} THEN "replayed"
      ELSE IF misplaced THEN "rejected" ELSE IF made THEN "already" ELSE "recorded"

Record(w, t, k) == day' = [day EXCEPT ![w] = [@ EXCEPT ![t] = k]]

\* Faulty variant: a mark that is there already is a terminal refusal.
PrecheckStrict(t) ==
  IF t # "ARRIVAL" /\ Has(Leader, t) THEN "rejected" ELSE "none"

\* handleMark looks at the assignment before it looks for the key; the
\* assignment of the portal never says that a break is open.
Precheck(t) ==
  LET misplaced == \/ t \in {"BREAK_START", "DEPARTURE"} /\ ~Has(Leader, "ARRIVAL")
                   \/ t = "BREAK_START" /\ Has(Leader, "DEPARTURE")
                   \/ t = "BREAK_END" /\ ~Has(Leader, "BREAK_START")
  IN  IF misplaced THEN "rejected" ELSE IF t # "ARRIVAL" /\ Has(Leader, t) THEN "already" ELSE "none"

ReceiveMark(h) ==
  LET k == handler[h].key
      refusal == IF ~signedIn THEN "session" ELSE Precheck(type[k])
  IN
  /\ handler[h].phase = "received"
  /\ IF refusal = "none" THEN handler' = [handler EXCEPT ![h] = Request("checked", k, {}, @.answer)] ELSE Reply(h, refusal)
  /\ UNCHANGED <<records, pass, day, signedIn, faults>>

\* Who is marked after the leader; an arrival is the worker's own.
Crew(t) == IF t = "ARRIVAL" THEN {} ELSE Member

\* The conditions of a mark, which the panel may change between two requests:
\* the assignment is active and is the worker's to mark, the operation takes
\* marks, and the place and the time lie within its bounds.  They are looked at
\* before the key is, and again in the transaction unless the key is there.
RefuseMark(h) ==
  LET k == handler[h].key IN
  /\ \/ handler[h].phase = "received" /\ signedIn
     \/ /\ handler[h].phase = "checked"
        /\ Outcome(Leader, type[k], k) = "replayed" => Crew(type[k]) # {}
  /\ \E answer \in Refusals : Reply(h, answer)
  /\ refused' = refused \cup ({k} \cap Key)
  /\ Cardinality(refused') <= MaxRefused
  /\ UNCHANGED <<type, queue, deferred, old, receipt, pass, day, signedIn, faults>>

\* Faulty variant: the crew is marked whatever became of its leader.
MarkLeaderOrNot(h) ==
  LET k == handler[h].key
      outcome == Outcome(Leader, type[k], k)
  IN
  /\ handler[h].phase = "checked"
  /\ IF outcome = "recorded" THEN Record(Leader, type[k], k) ELSE UNCHANGED day
  /\ IF type[k] = "ARRIVAL" THEN Reply(h, "ok")
     ELSE handler' = [handler EXCEPT ![h] = Request("crew", k, Member, @.answer)]
  /\ UNCHANGED <<records, pass, signedIn, faults>>

\* The leader's mark, and for a mark that is there the crew that is left.
MarkLeader(h) ==
  LET k == handler[h].key
      outcome == Outcome(Leader, type[k], k)
      crew == Crew(type[k])
  IN
  /\ handler[h].phase = "checked"
  /\ IF outcome = "recorded" THEN Record(Leader, type[k], k) ELSE UNCHANGED day
  /\ CASE outcome \in {"already", "rejected"} -> Reply(h, outcome)
       [] outcome \in {"recorded", "replayed"} /\ crew = {} -> Reply(h, "ok")
       [] OTHER -> handler' = [handler EXCEPT ![h] = Request("crew", k, crew, @.answer)]
  /\ UNCHANGED <<records, pass, signedIn, faults>>

\* One member; the refusal of a member, for the day or for the conditions, is
\* a line of the summary.
MarkMember(h, m) ==
  LET k == handler[h].key
      left == handler[h].todo \ {m}
  IN
  /\ handler[h].phase = "crew"
  /\ m \in handler[h].todo
  /\ \/ Outcome(m, type[k], k) = "recorded" /\ Record(m, type[k], k)
     \/ (Outcome(m, type[k], k) # "recorded" \/ "rejected" \in Refusals) /\ UNCHANGED day
  /\ IF left = {} THEN Reply(h, "ok") ELSE handler' = [handler EXCEPT ![h] = Request("crew", k, left, @.answer)]
  /\ UNCHANGED <<records, pass, signedIn, faults>>

\* Any other error ends the request with a 500.
FailRequest(h) ==
  /\ handler[h].phase \in {"received", "checked", "crew"}
  /\ Fault
  /\ Reply(h, "busy")
  /\ UNCHANGED <<records, pass, day, signedIn>>

\* A restart of the server: the phone sees a network error.
CrashRequest(h) ==
  /\ handler[h].phase \in {"received", "checked", "crew"}
  /\ Fault
  /\ handler' = [handler EXCEPT ![h] = Free]
  /\ IF Serves(h) = {}
     THEN UNCHANGED <<queue, deferred, receipt, pass>>
     ELSE \E p \in Serves(h) : Settle(p, "busy")
  /\ UNCHANGED <<type, refused, old, day, signedIn>>

SessionEnds ==
  /\ signedIn
  /\ Fault
  /\ signedIn' = FALSE
  /\ UNCHANGED <<records, pass, handler, day>>

ReactivateSession ==
  /\ ~signedIn
  /\ signedIn' = TRUE
  /\ UNCHANGED <<records, pass, handler, day, faults>>

-----------------------------------------------------------------------------

PassStep(p) ==
  \/ StartPass(p) \/ PassIsOver(p) \/ ExpireRecord(p) \/ TakeAnswer(p)
  \/ \E h \in Handler : SendRecord(p, h)

HandlerStep(h) == ReceiveMark(h) \/ RefuseMark(h) \/ MarkLeader(h) \/ \E m \in Member : MarkMember(h, m)

Next ==
  \/ QueueMark \/ CleanUpExpiredData \/ SessionEnds \/ ReactivateSession
  \/ \E k \in Key : Age(k) \/ DelayPasses(k)
  \/ \E p \in Pass : PassStep(p) \/ EarlierDelayPasses(p) \/ NetworkError(p) \/ KillPass(p)
  \/ \E h \in Handler : HandlerStep(h) \/ TapOnline(h) \/ FailRequest(h) \/ CrashRequest(h)

\* Passes are started by the openings of the portal, by Background Sync and
\* by timers; a request that is not lost is served, and 72 hours pass.  No
\* delay need end, and an ended session need not be reactivated.
Fairness ==
  /\ \A p \in Pass : WF_vars(PassStep(p))
  /\ \A h \in Handler : WF_vars(HandlerStep(h))
  /\ \A k \in Key : WF_vars(Age(k))

Spec == Init /\ [][Next]_vars

FairSpec == Spec /\ Fairness

-----------------------------------------------------------------------------
(* Properties *)

\* A receipt that says a mark is on the server is true, in spite of lost
\* answers, repeated requests and passes that cross (worker-portal-sw.js).
ReceiptsAreTrue ==
  \A k \in Key :
    /\ receipt[k] = "SYNCED" => Kept(k)
    /\ receipt[k] = "ALREADY_RECORDED" => Has(Leader, type[k])

\* No mark of the queue overtakes an older one: when a mark is recorded, the
\* older ones are recorded, have a receipt, or were too old to be sent.
MarksKeepTheirOrder ==
  \A j, k \in Key :
    j < k /\ Kept(k) => Kept(j) \/ receipt[j] # "NONE" \/ j \in old

\* A member is marked by a request only after its leader was.
LeadersAreMarkedFirst ==
  \A m \in Member, t \in MarkType \ {"ARRIVAL"} :
    day[m][t] # NoMark => day[Leader][t] = day[m][t]

\* Marks that may have got an answer they would not have got at another time:
\* they grew too old, or met conditions that did not last.
Hindered == old \cup refused

\* The leader's mark of type t came from elsewhere, or from the queue, where it
\* was older than the mark of type u and nothing held it up.
CameBefore(t, u) ==
  LET j == day[Leader][t] IN j = Elsewhere \/ (j \in Key \ Hindered /\ j < day[Leader][u])

\* The marks that a mark of type t follows were in the queue before it.
InPlace(t) ==
  /\ t \in {"BREAK_START", "DEPARTURE"} => CameBefore("ARRIVAL", t)
  /\ t = "BREAK_END" => CameBefore("BREAK_START", t) /\ CameBefore("ARRIVAL", "BREAK_START")

\* A mark that the phone shows as rejected is on the server only when the
\* answer to it changed between two of its requests: the panel changed its
\* conditions (workerPortal.js:785, workerPortalCore.js:617), it grew too old,
\* a departure came before the repetition of the break it starts
\* (workerPortalCore.js:635), or what it follows was made after it, without
\* the queue, or was itself held up.  Lost answers, repetitions and passes
\* that cross are not enough.
RejectedMarksAreNotKept ==
  \A k \in Key : receipt[k] = "REJECTED" /\ Kept(k) /\ InPlace(type[k]) =>
    k \in Hindered \/ (type[k] = "BREAK_START" /\ Has(Leader, "DEPARTURE"))

\* docs/architecture/20_portal_auxiliar_salida_horas_netas.md:17 says that the
\* same key reproduces the result: who repeats a recorded request is not told
\* that another mark was there (workerPortalCore.js:628).
SameKeyReproducesTheResult ==
  \A k \in Key : receipt[k] = "ALREADY_RECORDED" => ~Kept(k)

\* The queue empties: no answer, fault or refusal keeps a mark in the phone
\* for ever, or the marks that wait behind it (worker-portal-sw.js:624).
QueueDrains == <>[](queue = {})

-----------------------------------------------------------------------------
(* The inductive invariant *)

Keys == {Online} \cup Key

Known(k) == type[k] # "NONE"

Answers == {"ok", "already", "rejected", "session", "busy", "unlisted"}

Requests ==
  [phase : {"free", "received", "checked", "crew", "done"}, key : Keys \cup {NoMark},
   todo : SUBSET Member, answer : {"none", "unread"} \cup Answers]

Passes ==
  [phase : {"idle", "walking", "waiting"}, todo : SUBSET Key, late : SUBSET Key,
   key : Key \cup {NoMark}, handler : Handler \cup {"none"}]

TypeOK ==
  /\ type \in [Keys -> MarkType \cup {"NONE"}]
  /\ refused \subseteq Key
  /\ queue \subseteq Key /\ deferred \subseteq queue /\ old \subseteq Key
  /\ receipt \in [Key -> {"NONE", "SYNCED", "ALREADY_RECORDED", "REJECTED"}]
  /\ pass \in [Pass -> Passes]
  /\ \A p \in Pass : pass[p].phase = "waiting" => IsNext(p, pass[p].key)
  /\ handler \in [Handler -> Requests]
  /\ day \in [{Leader} \cup Member -> [MarkType -> Keys \cup {Elsewhere, NoMark}]]
  /\ signedIn \in BOOLEAN
  /\ faults \in 0 .. MaxFaults

\* Keys that something refers to have a type.
KeysAreKnown ==
  /\ \A k \in queue : Known(k)
  /\ \A p \in Pass : \A k \in pass[p].todo : Known(k)
  /\ \A h \in Handler : handler[h].phase # "free" => handler[h].key \in Keys /\ Known(handler[h].key)

\* A waiting pass has a request of its own, for its record.
PassesHaveRequests ==
  \A p \in Pass : pass[p].phase = "waiting" =>
    /\ pass[p].key \in Key
    /\ pass[p].handler \in Handler
    /\ handler[pass[p].handler].phase # "free"
    /\ handler[pass[p].handler].key = pass[p].key
    /\ handler[pass[p].handler].answer # "unread"
    /\ \A q \in Pass : q # p /\ pass[q].phase = "waiting" => pass[q].handler # pass[p].handler

\* A key is recorded only as the type of mark it is, and no break ends that
\* did not start.
MarksAreSound ==
  \A w \in {Leader} \cup Member :
    /\ \A t \in MarkType : day[w][t] \in Keys => type[day[w][t]] = t
    /\ Has(w, "BREAK_END") => Has(w, "BREAK_START")

\* What a request knows of its leader's mark.
AnswersAreTrue ==
  \A h \in Handler :
    /\ handler[h].phase = "crew" =>
         /\ type[handler[h].key] # "ARRIVAL"
         /\ day[Leader][type[handler[h].key]] = handler[h].key
    /\ handler[h].phase = "done" =>
         /\ handler[h].answer = "ok" => day[Leader][type[handler[h].key]] = handler[h].key
         /\ handler[h].answer = "already" => Has(Leader, type[handler[h].key])

ReceiptsAreEarned ==
  \A k \in Key :
    /\ receipt[k] = "SYNCED" => Known(k) /\ day[Leader][type[k]] = k
    /\ receipt[k] = "ALREADY_RECORDED" => Known(k) /\ Has(Leader, type[k])

\* Nothing is done any more with a mark that is on the server, has a receipt
\* or is too old; until then it is in the queue.
Settled(k) == Kept(k) \/ receipt[k] # "NONE" \/ k \in old

KeysAreInOrder ==
  \A k \in Key : Known(k) =>
    /\ k \in queue \/ Settled(k)
    /\ \A j \in Key : j < k => Known(j)

\* A pass has all that is not settled before each of its records.
PassesAreInOrder ==
  \A p \in Pass : \A k \in pass[p].todo, j \in Key : j < k => j \in pass[p].todo \/ Settled(j)

\* A request is made, and lingers in the server, when all before it is settled.
EarlierAreSettled(k) == \A j \in Key : j < k => Settled(j)

RequestsAreInOrder ==
  \A h \in Handler :
    /\ handler[h].phase # "free" => \A k \in Key : handler[h].key = k => EarlierAreSettled(k)
    /\ handler[h].phase = "done" => handler[h].answer \in Answers

OrderInv ==
  /\ KeysAreInOrder
  /\ PassesAreInOrder
  /\ RequestsAreInOrder
  /\ MarksKeepTheirOrder

\* A day begins with an arrival, the only mark that may come from elsewhere.
DayBegins ==
  \A t \in MarkType \ {"ARRIVAL"} : day[Leader][t] # Elsewhere /\ (Has(Leader, t) => Has(Leader, "ARRIVAL"))

\* The leader has no arrival made before k, and gets none that nothing held up.
NoArrivalBefore(k) ==
  /\ day[Leader]["ARRIVAL"] # Elsewhere
  /\ \A j \in Key : j < k /\ type[j] = "ARRIVAL" => j \in Hindered

\* Why the mark k may have been refused.
Reason(k) ==
  \/ k \in Hindered
  \/ type[k] = "BREAK_START" /\ Has(Leader, "DEPARTURE")
  \/ type[k] \in {"BREAK_START", "DEPARTURE"} /\ NoArrivalBefore(k)
  \/ type[k] = "BREAK_END" /\ Has(Leader, "DEPARTURE") /\ ~Kept(k)
  \/ /\ type[k] = "BREAK_END"
     /\ \A j \in Key : j < k /\ type[j] = "BREAK_START" => j \in Hindered \/ NoArrivalBefore(j)

RefusalsHaveReasons ==
  /\ \A k \in Key : receipt[k] = "REJECTED" => Known(k) /\ Reason(k)
  /\ \A h \in Handler : handler[h].phase = "done" /\ handler[h].answer = "rejected" =>
       \A k \in Key : handler[h].key = k => Reason(k)

Inv ==
  /\ TypeOK
  /\ KeysAreKnown /\ PassesHaveRequests /\ MarksAreSound
  /\ AnswersAreTrue /\ ReceiptsAreEarned /\ LeadersAreMarkedFirst
  /\ OrderInv
  /\ DayBegins /\ RefusalsHaveReasons

=============================================================================

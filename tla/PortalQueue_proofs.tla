-------------------------- MODULE PortalQueue_proofs --------------------------
(***************************************************************************)
(* Theorems about the queue of the portal and the marks it delivers, for   *)
(* any crew, any number of marks, passes, requests and faults.             *)
(***************************************************************************)
EXTENDS PortalQueue, TLAPS

\* What the chain from the keys of the phone to its receipts says of types.
Types ==
  /\ type \in [Keys -> MarkType \cup {"NONE"}]
  /\ queue \in SUBSET Key
  /\ deferred \in SUBSET Key
  /\ receipt \in [Key -> {"NONE", "SYNCED", "ALREADY_RECORDED", "REJECTED"}]
  /\ pass \in [Pass -> Passes]
  /\ handler \in [Handler -> Requests]
  /\ day \in [{Leader} \cup Member -> [MarkType -> Int]]

\* The part of Inv that keeps itself: order and refusals rest on it.
IInv ==
  /\ Types
  /\ KeysAreKnown
  /\ PassesHaveRequests
  /\ MarksAreSound
  /\ AnswersAreTrue
  /\ ReceiptsAreEarned
  /\ LeadersAreMarkedFirst

-----------------------------------------------------------------------------
(* Facts about keys and records *)

LEMMA KeyFacts ==
  /\ Key \in SUBSET Keys /\ Online \in Keys /\ Online \notin Key
  /\ NoMark \notin Keys /\ Elsewhere \notin Keys
  /\ Keys \in SUBSET Int /\ NoMark \in Int /\ Elsewhere \in Int
BY PortalQueueAssumption DEF Key, Keys, Online, NoMark, Elsewhere

LEMMA RequestType ==
  ASSUME NEW phase \in {"free", "received", "checked", "crew", "done"}, NEW key \in Keys \cup {NoMark},
         NEW todo \in SUBSET Member,
         NEW answer \in {"none", "unread", "ok", "already", "rejected", "session", "busy", "unlisted"}
  PROVE  /\ Request(phase, key, todo, answer) \in Requests
         /\ Request(phase, key, todo, answer).phase = phase
         /\ Request(phase, key, todo, answer).key = key
         /\ Request(phase, key, todo, answer).todo = todo
         /\ Request(phase, key, todo, answer).answer = answer
BY DEF Request, Requests, Answers

LEMMA PassType ==
  ASSUME NEW phase \in {"idle", "walking", "waiting"}, NEW todo \in SUBSET Key, NEW late \in SUBSET Key,
         NEW key \in Key \cup {NoMark}, NEW serving \in Handler \cup {"none"}
  PROVE  /\ PassIn(phase, todo, late, key, serving) \in Passes
         /\ PassIn(phase, todo, late, key, serving).phase = phase
         /\ PassIn(phase, todo, late, key, serving).todo = todo
         /\ PassIn(phase, todo, late, key, serving).late = late
         /\ PassIn(phase, todo, late, key, serving).key = key
         /\ PassIn(phase, todo, late, key, serving).handler = serving
BY DEF PassIn, Passes

LEMMA FreeType == Free \in Requests /\ Free.phase = "free"
BY RequestType, NoMark \in Keys \cup {NoMark} DEF Free

LEMMA IdleType == IdlePass \in Passes /\ IdlePass.phase = "idle" /\ IdlePass.todo = {}
BY PassType, NoMark \in Key \cup {NoMark} DEF IdlePass

LEMMA PassParts ==
  ASSUME Types, NEW p \in Pass
  PROVE  /\ pass[p] \in Passes
         /\ pass[p].phase \in {"idle", "walking", "waiting"}
         /\ pass[p].todo \in SUBSET Key
         /\ pass[p].late \in SUBSET Key
         /\ pass[p].key \in Key \cup {NoMark}
         /\ pass[p].handler \in Handler \cup {"none"}
BY DEF Types, Passes

LEMMA RequestParts ==
  ASSUME Types, NEW h \in Handler
  PROVE  /\ handler[h] \in Requests
         /\ handler[h].phase \in {"free", "received", "checked", "crew", "done"}
         /\ handler[h].key \in Keys \cup {NoMark}
         /\ handler[h].todo \in SUBSET Member
         /\ handler[h].answer \in {"none", "unread", "ok", "already", "rejected", "session", "busy", "unlisted"}
BY DEF Types, Requests, Answers

-----------------------------------------------------------------------------
(* The initial state *)

LEMMA InitIInv == Init => IInv
<1> SUFFICES ASSUME Init PROVE IInv
  OBVIOUS
<1> USE DEF Init
<1>0. \A w \in {Leader} \cup Member, t \in MarkType : day[w][t] \in {NoMark, Elsewhere}
  OBVIOUS
<1>1. Types
  <2>1. day \in [{Leader} \cup Member -> [MarkType -> Int]]
    BY KeyFacts
  <2> QED BY <2>1, FreeType, IdleType, KeyFacts DEF Types, Keys
<1>2. KeysAreKnown
  BY FreeType, IdleType DEF KeysAreKnown
<1>3. PassesHaveRequests
  BY IdleType DEF PassesHaveRequests
<1>4. MarksAreSound
  BY <1>0, KeyFacts DEF MarksAreSound, Has, MarkType
<1>5. AnswersAreTrue
  BY FreeType DEF AnswersAreTrue
<1>6. ReceiptsAreEarned
  BY DEF ReceiptsAreEarned
<1>7. LeadersAreMarkedFirst
  BY DEF LeadersAreMarkedFirst, MarkType
<1> QED BY <1>1, <1>2, <1>3, <1>4, <1>5, <1>6, <1>7 DEF IInv

-----------------------------------------------------------------------------
(* Steps of the phone *)

LEMMA QuietStep ==
  ASSUME IInv, UNCHANGED <<type, refused, queue, deferred, receipt, pass, handler, day>>
  PROVE  IInv'
BY DEF IInv, Types, KeysAreKnown, Known, PassesHaveRequests, MarksAreSound, AnswersAreTrue,
       ReceiptsAreEarned, LeadersAreMarkedFirst, Has

\* Delays end and old records are dropped.
LEMMA QueueShrinks ==
  ASSUME IInv, queue' \in SUBSET queue, deferred' \in SUBSET deferred,
         UNCHANGED <<type, refused, receipt, pass, handler, day>>
  PROVE  IInv'
BY DEF IInv, Types, KeysAreKnown, Known, PassesHaveRequests, MarksAreSound, AnswersAreTrue,
       ReceiptsAreEarned, LeadersAreMarkedFirst, Has

LEMMA WithoutDelayType ==
  ASSUME Types, NEW p \in Pass, NEW k
  PROVE  LET q == WithoutDelay(pass[p], k) IN
         /\ q \in Passes /\ q.phase = pass[p].phase /\ q.todo = pass[p].todo
         /\ q.key = pass[p].key /\ q.handler = pass[p].handler
<1>1. pass[p].late \ {k} \in SUBSET Key
  BY PassParts
<1> QED BY <1>1, PassParts, PassType DEF WithoutDelay

\* Passes forget delays.
LEMMA DelaysForgotten ==
  ASSUME IInv, deferred' \in SUBSET deferred,
         pass' \in [Pass -> Passes],
         \A p \in Pass : /\ pass'[p].phase = pass[p].phase /\ pass'[p].todo = pass[p].todo
                         /\ pass'[p].key = pass[p].key /\ pass'[p].handler = pass[p].handler,
         UNCHANGED <<type, refused, queue, receipt, handler, day>>
  PROVE  IInv'
<1> USE DEF IInv
<1>1. Types'
  BY DEF Types
<1>2. KeysAreKnown'
  BY DEF KeysAreKnown, Known
<1>3. PassesHaveRequests'
  BY DEF PassesHaveRequests
<1>4. /\ MarksAreSound' /\ AnswersAreTrue' /\ ReceiptsAreEarned' /\ LeadersAreMarkedFirst'
  BY DEF MarksAreSound, AnswersAreTrue, ReceiptsAreEarned, LeadersAreMarkedFirst, Has, Known
<1> QED BY <1>1, <1>2, <1>3, <1>4

LEMMA DelayPassesStep ==
  ASSUME IInv, NEW k \in Key, DelayPasses(k)
  PROVE  IInv'
<1>1. pass' \in [Pass -> Passes]
  BY WithoutDelayType DEF DelayPasses, IInv
<1>2. \A p \in Pass : /\ pass'[p].phase = pass[p].phase /\ pass'[p].todo = pass[p].todo
                      /\ pass'[p].key = pass[p].key /\ pass'[p].handler = pass[p].handler
  BY WithoutDelayType DEF DelayPasses, IInv
<1> QED BY <1>1, <1>2, DelaysForgotten DEF DelayPasses

LEMMA EarlierDelayPassesStep ==
  ASSUME IInv, NEW p \in Pass, EarlierDelayPasses(p)
  PROVE  IInv'
<1>0. PICK k \in pass[p].late : pass' = [pass EXCEPT ![p] = WithoutDelay(pass[p], k)]
  BY DEF EarlierDelayPasses
<1>1. pass' \in [Pass -> Passes]
  BY <1>0, WithoutDelayType DEF IInv, Types
<1>2. \A q \in Pass : /\ pass'[q].phase = pass[q].phase /\ pass'[q].todo = pass[q].todo
                      /\ pass'[q].key = pass[q].key /\ pass'[q].handler = pass[q].handler
  BY <1>0, WithoutDelayType DEF IInv, Types
<1> QED BY <1>1, <1>2, DelaysForgotten DEF EarlierDelayPasses, records, IInv, Types

\* A key gets its type while nothing refers to it.
LEMMA TypeGiven ==
  ASSUME IInv, NEW k \in Keys, type[k] = "NONE", NEW t \in MarkType, type' = [type EXCEPT ![k] = t]
  PROVE  /\ type' \in [Keys -> MarkType \cup {"NONE"}]
         /\ \A j \in Keys : Known(j) => type'[j] = type[j] /\ Known(j)'
         /\ Known(k)'
BY DEF IInv, Types, Known, MarkType

LEMMA TypesKept ==
  ASSUME IInv, \A j \in Keys : Known(j) => type'[j] = type[j] /\ Known(j)'
  PROVE  /\ day' = day => MarksAreSound' /\ LeadersAreMarkedFirst'
         /\ day' = day /\ handler' = handler => AnswersAreTrue'
         /\ day' = day /\ receipt' = receipt => ReceiptsAreEarned'
<1> USE DEF IInv
<1>1. ASSUME day' = day PROVE MarksAreSound' /\ LeadersAreMarkedFirst'
  <2>1. \A w \in {Leader} \cup Member, t \in MarkType : day[w][t] \in Keys => Known(day[w][t])
    BY DEF MarksAreSound, Known, MarkType
  <2> QED BY <1>1, <2>1 DEF MarksAreSound, LeadersAreMarkedFirst, Has
<1>2. ASSUME day' = day, handler' = handler PROVE AnswersAreTrue'
  <2>1. \A h \in Handler : handler[h].phase # "free" =>
          handler[h].key \in Keys /\ type'[handler[h].key] = type[handler[h].key]
    BY DEF KeysAreKnown
  <2> QED BY <1>2, <2>1 DEF AnswersAreTrue, Has
<1>3. ASSUME day' = day, receipt' = receipt PROVE ReceiptsAreEarned'
  BY <1>3, KeyFacts DEF ReceiptsAreEarned, Has
<1> QED BY <1>1, <1>2, <1>3

LEMMA QueueMarkStep ==
  ASSUME IInv, QueueMark
  PROVE  IInv'
<1> USE DEF IInv
<1>0. PICK k \in Key : /\ type[k] = "NONE"
                       /\ \E t \in MarkType : type' = [type EXCEPT ![k] = t]
                       /\ queue' = queue \cup {k}
  <2>1. \A stage : Offered(stage) \in SUBSET MarkType
    BY DEF Offered, MarkType
  <2> QED BY <2>1 DEF QueueMark
<1>1. PICK t \in MarkType : type' = [type EXCEPT ![k] = t]
  BY <1>0
<1>2. /\ type' \in [Keys -> MarkType \cup {"NONE"}]
      /\ \A j \in Keys : Known(j) => type'[j] = type[j] /\ Known(j)'
      /\ Known(k)'
  BY <1>0, <1>1, TypeGiven, KeyFacts
<1>3. UNCHANGED <<deferred, receipt, pass, handler, day>>
  BY DEF QueueMark
<1>4. Types'
  BY <1>0, <1>2, <1>3 DEF Types
<1>5. KeysAreKnown'
  <2>1. \A j \in queue' : Known(j)'
    BY <1>0, <1>2, KeyFacts DEF KeysAreKnown, Types
  <2>2. \A p \in Pass : \A j \in pass'[p].todo : Known(j)'
    BY <1>2, <1>3, KeyFacts, PassParts DEF KeysAreKnown
  <2>3. \A h \in Handler : handler'[h].phase # "free" => handler'[h].key \in Keys /\ type'[handler'[h].key] # "NONE"
    BY <1>2, <1>3 DEF KeysAreKnown, Known
  <2> QED BY <2>1, <2>2, <2>3 DEF KeysAreKnown, Known
<1>6. PassesHaveRequests'
  BY <1>3 DEF PassesHaveRequests
<1>7. MarksAreSound' /\ LeadersAreMarkedFirst' /\ AnswersAreTrue' /\ ReceiptsAreEarned'
  BY <1>2, <1>3, TypesKept
<1> QED BY <1>4, <1>5, <1>6, <1>7

\* A free request is taken for a key that has a type.
LEMMA RequestTaken ==
  ASSUME IInv, NEW h \in Handler, handler[h] = Free, NEW k \in Keys, Known(k),
         NEW answer \in {"none", "unread"},
         handler' = [handler EXCEPT ![h] = Request("received", k, {}, answer)],
         UNCHANGED <<type, day>>
  PROVE  /\ handler' \in [Handler -> Requests]
         /\ \A g \in Handler : handler'[g].phase # "free" => handler'[g].key \in Keys /\ type'[handler'[g].key] # "NONE"
         /\ AnswersAreTrue'
         /\ handler'[h].phase = "received" /\ handler'[h].key = k /\ handler'[h].answer = answer
         /\ \A p \in Pass : pass[p].phase = "waiting" => pass[p].handler # h
<1> USE DEF IInv
<1>1. /\ Request("received", k, {}, answer) \in Requests
      /\ Request("received", k, {}, answer).phase = "received"
      /\ Request("received", k, {}, answer).key = k
      /\ Request("received", k, {}, answer).answer = answer
  BY RequestType
<1>2. handler' \in [Handler -> Requests] /\ \A g \in Handler \ {h} : handler'[g] = handler[g]
  BY <1>1 DEF Types
<1>3. handler'[h] = Request("received", k, {}, answer)
  BY DEF Types
<1>4. \A g \in Handler : handler'[g].phase # "free" => handler'[g].key \in Keys /\ type'[handler'[g].key] # "NONE"
  BY <1>1, <1>2, <1>3 DEF KeysAreKnown, Known
<1>5. AnswersAreTrue'
  BY <1>1, <1>2, <1>3 DEF AnswersAreTrue, Has
<1>6. \A p \in Pass : pass[p].phase = "waiting" => pass[p].handler # h
  BY FreeType DEF PassesHaveRequests
<1> QED BY <1>1, <1>2, <1>3, <1>4, <1>5, <1>6

LEMMA TapOnlineStep ==
  ASSUME IInv, NEW h \in Handler, TapOnline(h)
  PROVE  IInv'
<1> USE DEF IInv
<1>0. PICK t \in MarkType : type' = [type EXCEPT ![Online] = t]
  BY DEF TapOnline
<1>1. /\ type' \in [Keys -> MarkType \cup {"NONE"}]
      /\ \A j \in Keys : Known(j) => type'[j] = type[j] /\ Known(j)'
      /\ Known(Online)'
  BY <1>0, TypeGiven, KeyFacts DEF TapOnline
<1>2. /\ handler' = [handler EXCEPT ![h] = Request("received", Online, {}, "unread")]
      /\ handler[h] = Free
      /\ UNCHANGED <<refused, queue, deferred, receipt, pass, day>>
  BY DEF TapOnline
<1>3. /\ Request("received", Online, {}, "unread") \in Requests
      /\ Request("received", Online, {}, "unread").phase = "received"
      /\ Request("received", Online, {}, "unread").key = Online
  BY RequestType, KeyFacts
<1>4. /\ handler' \in [Handler -> Requests] /\ \A g \in Handler \ {h} : handler'[g] = handler[g]
      /\ handler'[h] = Request("received", Online, {}, "unread")
  BY <1>2, <1>3 DEF Types
<1>5. Types'
  BY <1>1, <1>2, <1>4 DEF Types
<1>6. KeysAreKnown'
  <2>1. \A j \in queue' : Known(j)'
    BY <1>1, <1>2, KeyFacts DEF KeysAreKnown, Types
  <2>2. \A p \in Pass : \A j \in pass'[p].todo : Known(j)'
    BY <1>1, <1>2, KeyFacts, PassParts DEF KeysAreKnown
  <2>3. \A g \in Handler : handler'[g].phase # "free" => handler'[g].key \in Keys /\ type'[handler'[g].key] # "NONE"
    BY <1>1, <1>3, <1>4, KeyFacts DEF KeysAreKnown, Known
  <2> QED BY <2>1, <2>2, <2>3 DEF KeysAreKnown, Known
<1>7. PassesHaveRequests'
  <2>1. \A p \in Pass : pass[p].phase = "waiting" => pass[p].handler # h
    BY <1>2, FreeType DEF PassesHaveRequests
  <2> QED BY <2>1, <1>2, <1>4 DEF PassesHaveRequests
<1>8. MarksAreSound' /\ LeadersAreMarkedFirst' /\ ReceiptsAreEarned'
  BY <1>1, <1>2, TypesKept
<1>9. AnswersAreTrue'
  <2>1. \A g \in Handler : handler[g].phase # "free" => type'[handler[g].key] = type[handler[g].key]
    BY <1>1 DEF KeysAreKnown
  <2> QED BY <2>1, <1>2, <1>3, <1>4 DEF AnswersAreTrue, Has
<1> QED BY <1>5, <1>6, <1>7, <1>8, <1>9

-----------------------------------------------------------------------------
(* Steps of a pass *)

\* A pass that stops waiting, or did not wait, disturbs only the queue and the
\* receipts.
LEMMA PassMoves ==
  ASSUME IInv, NEW p \in Pass, NEW q \in Passes, q.phase # "waiting",
         \A k \in q.todo : Known(k),
         pass' = [pass EXCEPT ![p] = q],
         queue' \in SUBSET Key, \A k \in queue' : Known(k),
         deferred' \in SUBSET Key,
         UNCHANGED <<type, refused, receipt, handler, day>>
  PROVE  IInv'
<1> USE DEF IInv
<1>1. pass' \in [Pass -> Passes] /\ pass'[p] = q /\ \A r \in Pass \ {p} : pass'[r] = pass[r]
  BY DEF Types
<1>2. Types'
  BY <1>1 DEF Types
<1>3. KeysAreKnown'
  BY <1>1 DEF KeysAreKnown, Known
<1>4. PassesHaveRequests'
  BY <1>1 DEF PassesHaveRequests
<1>5. MarksAreSound' /\ AnswersAreTrue' /\ ReceiptsAreEarned' /\ LeadersAreMarkedFirst'
  BY DEF MarksAreSound, AnswersAreTrue, ReceiptsAreEarned, LeadersAreMarkedFirst, Has, Known
<1> QED BY <1>2, <1>3, <1>4, <1>5

LEMMA WalkingType ==
  ASSUME NEW todo \in SUBSET Key, NEW late \in SUBSET Key
  PROVE  /\ Walking(todo, late) \in Passes
         /\ Walking(todo, late).phase = "walking"
         /\ Walking(todo, late).todo = todo
BY PassType, NoMark \in Key \cup {NoMark}, "none" \in Handler \cup {"none"} DEF Walking

LEMMA StartPassStep ==
  ASSUME IInv, NEW p \in Pass, StartPass(p)
  PROVE  IInv'
<1>1. queue \in SUBSET Key /\ deferred \in SUBSET Key /\ \A k \in queue : Known(k)
  BY DEF IInv, Types, KeysAreKnown
<1>2. pass' = [pass EXCEPT ![p] = Walking(queue, deferred)] /\ UNCHANGED <<records, handler, day>>
  BY DEF StartPass
<1> QED BY <1>1, <1>2, WalkingType, PassMoves DEF records

LEMMA PassIsOverStep ==
  ASSUME IInv, NEW p \in Pass, PassIsOver(p)
  PROVE  IInv'
<1>1. queue \in SUBSET Key /\ deferred \in SUBSET Key /\ \A k \in queue : Known(k)
  BY DEF IInv, Types, KeysAreKnown
<1>2. pass' = [pass EXCEPT ![p] = IdlePass] /\ UNCHANGED <<records, handler, day>>
  BY DEF PassIsOver, EndPass
<1> QED BY <1>1, <1>2, IdleType, PassMoves DEF records

\* A receipt is given for what the server has, or says it was rejected.
LEMMA ReceiptGiven ==
  ASSUME IInv, NEW k \in Key, NEW r \in {"NONE", "SYNCED", "ALREADY_RECORDED", "REJECTED"},
         receipt' = [receipt EXCEPT ![k] = r],
         r = "SYNCED" => Known(k) /\ day[Leader][type[k]] = k,
         r = "ALREADY_RECORDED" => Known(k) /\ Has(Leader, type[k]),
         UNCHANGED <<type, day>>
  PROVE  /\ receipt' \in [Key -> {"NONE", "SYNCED", "ALREADY_RECORDED", "REJECTED"}]
         /\ ReceiptsAreEarned'
BY DEF IInv, Types, ReceiptsAreEarned, Known, Has

\* The same as PassMoves, with a receipt.
LEMMA PassSettles ==
  ASSUME IInv, NEW p \in Pass, NEW q \in Passes, q.phase # "waiting",
         \A k \in q.todo : Known(k),
         pass' = [pass EXCEPT ![p] = q],
         queue' \in SUBSET Key, \A k \in queue' : Known(k),
         deferred' \in SUBSET Key,
         receipt' \in [Key -> {"NONE", "SYNCED", "ALREADY_RECORDED", "REJECTED"}], ReceiptsAreEarned',
         UNCHANGED <<type, refused, handler, day>>
  PROVE  IInv'
<1> USE DEF IInv
<1>1. pass' \in [Pass -> Passes] /\ pass'[p] = q /\ \A r \in Pass \ {p} : pass'[r] = pass[r]
  BY DEF Types
<1>2. Types'
  BY <1>1 DEF Types
<1>3. KeysAreKnown'
  BY <1>1 DEF KeysAreKnown, Known
<1>4. PassesHaveRequests'
  BY <1>1 DEF PassesHaveRequests
<1>5. MarksAreSound' /\ AnswersAreTrue' /\ LeadersAreMarkedFirst'
  BY DEF MarksAreSound, AnswersAreTrue, LeadersAreMarkedFirst, Has
<1> QED BY <1>2, <1>3, <1>4, <1>5

LEMMA ExpireRecordStep ==
  ASSUME IInv, NEW p \in Pass, ExpireRecord(p)
  PROVE  IInv'
<1>0. PICK k \in old : /\ IsNext(p, k)
                       /\ queue' = queue \ {k}
                       /\ deferred' = deferred \ {k}
                       /\ receipt' = [receipt EXCEPT ![k] = "REJECTED"]
  BY DEF ExpireRecord
<1>1. k \in Key
  BY <1>0, PassParts DEF IsNext, IInv
<1>2. /\ pass' = [pass EXCEPT ![p] = IdlePass]
      /\ UNCHANGED <<type, refused, handler, day>>
  BY DEF ExpireRecord, EndPass
<1>3. queue' \in SUBSET Key /\ deferred' \in SUBSET Key /\ \A j \in queue' : Known(j)
  BY <1>0 DEF IInv, Types, KeysAreKnown
<1>4. /\ receipt' \in [Key -> {"NONE", "SYNCED", "ALREADY_RECORDED", "REJECTED"}]
      /\ ReceiptsAreEarned'
  BY <1>0, <1>1, <1>2, ReceiptGiven
<1> QED BY <1>2, <1>3, <1>4, IdleType, PassSettles

LEMMA SendRecordStep ==
  ASSUME IInv, NEW p \in Pass, NEW h \in Handler, SendRecord(p, h)
  PROVE  IInv'
<1> USE DEF IInv
<1>0. PICK k \in Key :
        /\ IsNext(p, k)
        /\ queue' = queue \cup {k}
        /\ deferred' = deferred \ {k}
        /\ pass' = [pass EXCEPT ![p] = PassIn("waiting", pass[p].todo, pass[p].late, k, h)]
        /\ handler' = [handler EXCEPT ![h] = Request("received", k, {}, "none")]
  BY DEF SendRecord
<1>1. handler[h] = Free /\ UNCHANGED <<type, refused, receipt, day>> /\ pass[p].phase # "waiting"
  BY DEF SendRecord
<1>2. k \in Keys /\ Known(k)
  BY <1>0, KeyFacts DEF IsNext, KeysAreKnown
<1> DEFINE q == PassIn("waiting", pass[p].todo, pass[p].late, k, h)
<1>3. /\ q \in Passes /\ q.phase = "waiting" /\ q.todo = pass[p].todo
      /\ q.key = k /\ q.handler = h
  BY PassType, PassParts
<1>4. /\ handler' \in [Handler -> Requests]
      /\ \A g \in Handler : handler'[g].phase # "free" => handler'[g].key \in Keys /\ type'[handler'[g].key] # "NONE"
      /\ AnswersAreTrue'
      /\ handler'[h].phase = "received" /\ handler'[h].key = k /\ handler'[h].answer = "none"
      /\ \A r \in Pass : pass[r].phase = "waiting" => pass[r].handler # h
  <2> HIDE DEF IInv
  <2> QED BY <1>0, <1>1, <1>2, RequestTaken
<1> HIDE DEF q
<1>5. pass' \in [Pass -> Passes] /\ pass'[p] = q /\ \A r \in Pass \ {p} : pass'[r] = pass[r]
  BY <1>0, <1>3 DEF Types, q
<1>6. \A g \in Handler \ {h} : handler'[g] = handler[g]
  BY <1>0 DEF Types
<1>7. Types'
  BY <1>0, <1>1, <1>4, <1>5 DEF Types
<1>8. KeysAreKnown'
  BY <1>0, <1>1, <1>2, <1>3, <1>4, <1>5 DEF KeysAreKnown, Known
<1>9. PassesHaveRequests'
  <2> SUFFICES ASSUME NEW r \in Pass, pass'[r].phase = "waiting"
               PROVE  /\ pass'[r].key \in Key
                      /\ pass'[r].handler \in Handler
                      /\ handler'[pass'[r].handler].phase # "free"
                      /\ handler'[pass'[r].handler].key = pass'[r].key
                      /\ handler'[pass'[r].handler].answer # "unread"
                      /\ \A o \in Pass : o # r /\ pass'[o].phase = "waiting"
                                       => pass'[o].handler # pass'[r].handler
    BY DEF PassesHaveRequests
  <2>1. CASE r = p
    BY <2>1, <1>3, <1>4, <1>5
  <2>2. CASE r # p
    BY <2>2, <1>3, <1>4, <1>5, <1>6 DEF PassesHaveRequests
  <2> QED BY <2>1, <2>2
<1>10. MarksAreSound' /\ ReceiptsAreEarned' /\ LeadersAreMarkedFirst'
  BY <1>1 DEF MarksAreSound, ReceiptsAreEarned, LeadersAreMarkedFirst, Has, Known
<1> QED BY <1>4, <1>7, <1>8, <1>9, <1>10

LEMMA SettleOutcome ==
  ASSUME IInv, NEW p \in Pass, pass[p].phase = "waiting",
         NEW answer \in {"none", "unread", "ok", "already", "rejected", "session", "busy", "unlisted"},
         Settle(p, answer),
         answer = "ok" => day[Leader][type[pass[p].key]] = pass[p].key,
         answer = "already" => Has(Leader, type[pass[p].key]),
         UNCHANGED <<type, day>>
  PROVE  /\ \E q \in Passes : /\ q.phase # "waiting"
                              /\ \A k \in q.todo : Known(k)
                              /\ pass' = [pass EXCEPT ![p] = q]
         /\ queue' \in SUBSET Key /\ \A k \in queue' : Known(k)
         /\ deferred' \in SUBSET Key
         /\ receipt' \in [Key -> {"NONE", "SYNCED", "ALREADY_RECORDED", "REJECTED"}]
         /\ ReceiptsAreEarned'
<1> DEFINE k == pass[p].key
<1>1. k \in Key /\ Known(k)
  <2>1. k \in Key
    BY DEF IInv, PassesHaveRequests
  <2>2. Known(k)
    BY DEF IInv, PassesHaveRequests, KeysAreKnown
  <2> QED BY <2>1, <2>2
<1>2. \E q \in Passes : /\ q.phase # "waiting"
                        /\ \A j \in q.todo : Known(j)
                        /\ pass' = [pass EXCEPT ![p] = q]
  <2>1. CASE EndsPass(answer)
    <3>1. pass' = [pass EXCEPT ![p] = IdlePass]
      BY <2>1 DEF Settle, EndPass
    <3> QED BY <3>1, IdleType
  <2>2. CASE ~EndsPass(answer)
    <3>1. pass' = [pass EXCEPT ![p] = Walking(pass[p].todo \ {k}, pass[p].late)]
      BY <2>2 DEF Settle
    <3>2. /\ pass[p].todo \ {k} \in SUBSET Key /\ pass[p].late \in SUBSET Key
          /\ \A j \in pass[p].todo : Known(j)
      BY PassParts DEF IInv, KeysAreKnown
    <3>3. /\ Walking(pass[p].todo \ {k}, pass[p].late) \in Passes
          /\ Walking(pass[p].todo \ {k}, pass[p].late).phase = "walking"
          /\ Walking(pass[p].todo \ {k}, pass[p].late).todo = pass[p].todo \ {k}
      BY <3>2, WalkingType
    <3> QED BY <3>1, <3>2, <3>3
  <2> QED BY <2>1, <2>2
<1>3. queue' \in SUBSET Key /\ \A j \in queue' : Known(j)
  BY <1>1 DEF Settle, IInv, Types, KeysAreKnown
<1>4. deferred' \in SUBSET Key
  BY <1>1 DEF Settle, IInv, Types
<1>5. /\ receipt' \in [Key -> {"NONE", "SYNCED", "ALREADY_RECORDED", "REJECTED"}]
      /\ ReceiptsAreEarned'
  <2> DEFINE r == CASE answer = "ok" -> "SYNCED"
                    [] answer = "already" -> "ALREADY_RECORDED"
                    [] answer = "rejected" -> "REJECTED"
                    [] OTHER -> receipt[k]
  <2>1. receipt' = [receipt EXCEPT ![k] = r]
    BY DEF Settle
  <2>2. receipt[k] \in {"NONE", "SYNCED", "ALREADY_RECORDED", "REJECTED"}
    BY <1>1 DEF IInv, Types
  <2>3. r \in {"NONE", "SYNCED", "ALREADY_RECORDED", "REJECTED"}
    BY <2>2
  <2>4. r = "SYNCED" => Known(k) /\ day[Leader][type[k]] = k
    BY <1>1 DEF IInv, ReceiptsAreEarned
  <2>5. r = "ALREADY_RECORDED" => Known(k) /\ Has(Leader, type[k])
    BY <1>1 DEF IInv, ReceiptsAreEarned
  <2> HIDE DEF r, k
  <2> QED BY <1>1, <2>1, <2>3, <2>4, <2>5, ReceiptGiven
<1> QED BY <1>2, <1>3, <1>4, <1>5

\* No pass but p waits for the request h.
NoOtherWaits(p, h) ==
  \A o \in Pass \ {p} : pass[o].phase = "waiting" => pass[o].handler # h

\* A pass leaves its request, which ends or goes on without a reader.
LEMMA PassLeaves ==
  ASSUME IInv, NEW p \in Pass, NEW q \in Passes, q.phase # "waiting",
         \A k \in q.todo : Known(k),
         pass' = [pass EXCEPT ![p] = q],
         NEW h \in Handler, NEW r \in Requests,
         r.phase # "free" => r.phase = handler[h].phase /\ r.phase # "done" /\ r.key = handler[h].key,
         handler' = [handler EXCEPT ![h] = r],
         NoOtherWaits(p, h),
         queue' \in SUBSET Key, \A k \in queue' : Known(k),
         deferred' \in SUBSET Key,
         receipt' \in [Key -> {"NONE", "SYNCED", "ALREADY_RECORDED", "REJECTED"}], ReceiptsAreEarned',
         UNCHANGED <<type, refused, day>>
  PROVE  IInv'
<1> USE DEF IInv
<1>1. pass' \in [Pass -> Passes] /\ pass'[p] = q /\ \A o \in Pass \ {p} : pass'[o] = pass[o]
  BY DEF Types
<1>2. handler' \in [Handler -> Requests] /\ handler'[h] = r /\ \A g \in Handler \ {h} : handler'[g] = handler[g]
  BY DEF Types
<1>3. Types'
  BY <1>1, <1>2 DEF Types
<1>4. KeysAreKnown'
  <2>1. \A k \in queue' : Known(k)'
    BY DEF Known
  <2>2. \A o \in Pass : \A k \in pass'[o].todo : Known(k)'
    BY <1>1 DEF KeysAreKnown, Known
  <2>3. \A g \in Handler : handler'[g].phase # "free" => handler'[g].key \in Keys /\ type'[handler'[g].key] # "NONE"
    BY <1>2 DEF KeysAreKnown, Known
  <2> QED BY <2>1, <2>2, <2>3 DEF KeysAreKnown, Known
<1>5. PassesHaveRequests'
  <2>1. \A o \in Pass : pass'[o].phase = "waiting" => o # p /\ pass'[o] = pass[o] /\ pass[o].handler # h
    BY <1>1 DEF NoOtherWaits
  <2> QED BY <2>1, <1>2 DEF PassesHaveRequests
<1>6. AnswersAreTrue'
  BY <1>2 DEF AnswersAreTrue, Has
<1>7. MarksAreSound' /\ LeadersAreMarkedFirst'
  BY DEF MarksAreSound, LeadersAreMarkedFirst, Has
<1> QED BY <1>3, <1>4, <1>5, <1>6, <1>7

LEMMA RequestIsOwn ==
  ASSUME IInv, NEW p \in Pass, pass[p].phase = "waiting"
  PROVE  /\ pass[p].handler \in Handler
         /\ NoOtherWaits(p, pass[p].handler)
BY DEF IInv, PassesHaveRequests, NoOtherWaits

LEMMA TakeAnswerStep ==
  ASSUME IInv, NEW p \in Pass, TakeAnswer(p)
  PROVE  IInv'
<1> DEFINE h == pass[p].handler
           answer == handler[h].answer
<1>1. /\ pass[p].phase = "waiting" /\ handler[h].phase = "done"
      /\ Settle(p, answer)
      /\ handler' = [handler EXCEPT ![h] = Free]
      /\ UNCHANGED <<type, refused, day>>
  BY DEF TakeAnswer
<1>2. /\ h \in Handler
      /\ NoOtherWaits(p, h)
  BY <1>1, RequestIsOwn
<1>3. /\ answer \in {"none", "unread", "ok", "already", "rejected", "session", "busy", "unlisted"}
      /\ answer = "ok" => day[Leader][type[pass[p].key]] = pass[p].key
      /\ answer = "already" => Has(Leader, type[pass[p].key])
  BY <1>1, <1>2, RequestParts DEF IInv, PassesHaveRequests, AnswersAreTrue
<1> HIDE DEF h, answer
<1>4. PICK q \in Passes :
      /\ q.phase # "waiting"
      /\ \A k \in q.todo : Known(k)
      /\ pass' = [pass EXCEPT ![p] = q]
      /\ queue' \in SUBSET Key /\ \A k \in queue' : Known(k)
      /\ deferred' \in SUBSET Key
      /\ receipt' \in [Key -> {"NONE", "SYNCED", "ALREADY_RECORDED", "REJECTED"}]
      /\ ReceiptsAreEarned'
  BY <1>1, <1>3, SettleOutcome
<1>5. Free \in Requests /\ Free.phase = "free"
  BY FreeType
<1> HIDE DEF IInv
<1> QED BY <1>1, <1>2, <1>4, <1>5, PassLeaves

\* What Unlink leaves of a request.
LEMMA UnlinkOutcome ==
  ASSUME IInv, NEW h \in Handler, Unlink(h)
  PROVE  \E r \in Requests :
           /\ r.phase # "free" => r.phase = handler[h].phase /\ r.phase # "done" /\ r.key = handler[h].key
           /\ handler' = [handler EXCEPT ![h] = r]
<1>1. CASE handler[h].phase = "done"
  BY <1>1, FreeType DEF Unlink
<1>2. CASE handler[h].phase # "done"
  <2> DEFINE r == Request(handler[h].phase, handler[h].key, handler[h].todo, "unread")
  <2>1. handler' = [handler EXCEPT ![h] = r]
    BY <1>2 DEF Unlink
  <2>2. r \in Requests /\ r.phase = handler[h].phase /\ r.key = handler[h].key
    BY RequestParts, RequestType DEF IInv
  <2> HIDE DEF r
  <2> QED BY <1>2, <2>1, <2>2
<1> QED BY <1>1, <1>2

LEMMA NetworkErrorStep ==
  ASSUME IInv, NEW p \in Pass, NetworkError(p)
  PROVE  IInv'
<1> DEFINE h == pass[p].handler
<1>1. /\ pass[p].phase = "waiting"
      /\ Settle(p, "busy")
      /\ Unlink(h)
      /\ UNCHANGED <<type, refused, day>>
  BY DEF NetworkError
<1>2. /\ h \in Handler
      /\ NoOtherWaits(p, h)
  BY <1>1, RequestIsOwn
<1> HIDE DEF h
<1>3. PICK r \in Requests :
           /\ r.phase # "free" => r.phase = handler[h].phase /\ r.phase # "done" /\ r.key = handler[h].key
           /\ handler' = [handler EXCEPT ![h] = r]
  BY <1>1, <1>2, UnlinkOutcome
<1>4. PICK q \in Passes :
      /\ q.phase # "waiting"
      /\ \A k \in q.todo : Known(k)
      /\ pass' = [pass EXCEPT ![p] = q]
      /\ queue' \in SUBSET Key /\ \A k \in queue' : Known(k)
      /\ deferred' \in SUBSET Key
      /\ receipt' \in [Key -> {"NONE", "SYNCED", "ALREADY_RECORDED", "REJECTED"}]
      /\ ReceiptsAreEarned'
  BY <1>1, SettleOutcome
<1> QED BY <1>1, <1>2, <1>3, <1>4, PassLeaves

LEMMA KillPassStep ==
  ASSUME IInv, NEW p \in Pass, KillPass(p)
  PROVE  IInv'
<1>1. PICK ended \in Passes :
      /\ ended.phase # "waiting"
      /\ \A k \in ended.todo : Known(k)
      /\ pass' = [pass EXCEPT ![p] = ended]
  BY IdleType DEF KillPass, EndPass
<1>2. UNCHANGED <<type, refused, queue, deferred, receipt, day>>
  BY DEF KillPass, records
<1>3. /\ queue' \in SUBSET Key /\ \A k \in queue' : Known(k)
      /\ deferred' \in SUBSET Key
      /\ receipt' \in [Key -> {"NONE", "SYNCED", "ALREADY_RECORDED", "REJECTED"}]
      /\ ReceiptsAreEarned'
  BY <1>2 DEF IInv, Types, KeysAreKnown, ReceiptsAreEarned, Known, Has
<1>4. CASE pass[p].phase # "waiting"
  <2>1. handler' = handler
    BY <1>4 DEF KillPass
  <2> QED BY <2>1, <1>1, <1>2, <1>3, PassMoves
<1>5. CASE pass[p].phase = "waiting"
  <2>1. PICK g \in Handler :
          /\ g = pass[p].handler
          /\ NoOtherWaits(p, g)
    BY <1>5, RequestIsOwn
  <2>2. Unlink(g)
    BY <1>5, <2>1 DEF KillPass
  <2>3. PICK left \in Requests :
           /\ left.phase # "free" => left.phase = handler[g].phase /\ left.phase # "done" /\ left.key = handler[g].key
           /\ handler' = [handler EXCEPT ![g] = left]
    BY <2>2, UnlinkOutcome
  <2>4. UNCHANGED <<type, refused, day>>
    BY <1>2
  <2> QED BY <1>1, <1>3, <2>1, <2>3, <2>4, PassLeaves
<1> QED BY <1>4, <1>5

-----------------------------------------------------------------------------
(* Steps of the server *)

Workers == {Leader} \cup Member

\* Marks are never taken back.
MarksStay == \A w \in Workers, t \in MarkType : Has(w, t) => day'[w][t] = day[w][t]

LEMMA RequestMoves ==
  ASSUME IInv, NEW h \in Handler, handler[h].phase # "free",
         NEW r \in Requests, handler' = [handler EXCEPT ![h] = r],
         r.phase # "free" => r.key = handler[h].key,
         handler[h].answer # "unread" => r.phase # "free" /\ r.answer # "unread",
         r.phase = "crew" => /\ type[r.key] # "ARRIVAL"
                             /\ day'[Leader][type[r.key]] = r.key,
         r.phase = "done" =>
           /\ r.answer = "ok" => day'[Leader][type[r.key]] = r.key
           /\ r.answer = "already" => day'[Leader][type[r.key]] # NoMark,
         day' \in [Workers -> [MarkType -> Int]],
         MarksStay, MarksAreSound', LeadersAreMarkedFirst',
         UNCHANGED <<type, queue, deferred, receipt, pass>>
  PROVE  IInv'
<1> USE DEF IInv
<1>1. handler' \in [Handler -> Requests] /\ handler'[h] = r /\ \A g \in Handler \ {h} : handler'[g] = handler[g]
  BY DEF Types
<1>2. \A g \in Handler : handler[g].phase # "free" =>
        /\ handler[g].key \in Keys /\ type[handler[g].key] # "NONE"
        /\ type[handler[g].key] \in MarkType
  BY DEF Types, KeysAreKnown, Known
<1>3. Types'
  BY <1>1 DEF Types, Workers
<1>4. KeysAreKnown'
  BY <1>1, <1>2 DEF KeysAreKnown, Known
<1>5. PassesHaveRequests'
  BY <1>1 DEF PassesHaveRequests
<1>6. AnswersAreTrue'
  <2>1. \A g \in Handler \ {h} : handler[g].phase = "crew" =>
          /\ type[handler[g].key] # "ARRIVAL"
          /\ day'[Leader][type[handler[g].key]] = handler[g].key
    BY <1>2, KeyFacts DEF AnswersAreTrue, MarksStay, Has, Workers
  <2>2. \A g \in Handler \ {h} : handler[g].phase = "done" =>
          /\ handler[g].answer = "ok" => day'[Leader][type[handler[g].key]] = handler[g].key
          /\ handler[g].answer = "already" => day'[Leader][type[handler[g].key]] # NoMark
    BY <1>2, KeyFacts DEF AnswersAreTrue, MarksStay, Has, Workers
  <2> QED BY <1>1, <2>1, <2>2 DEF AnswersAreTrue, Has
<1>7. ReceiptsAreEarned'
  <2>1. \A k \in Key : Known(k) => type[k] \in MarkType
    BY KeyFacts DEF Types, Known
  <2> QED BY <2>1, KeyFacts DEF ReceiptsAreEarned, MarksStay, Has, Known, Workers
<1> QED BY <1>3, <1>4, <1>5, <1>6, <1>7

LEMMA ReplyOutcome ==
  ASSUME IInv, NEW h \in Handler,
         NEW answer \in {"ok", "already", "rejected", "session", "busy", "unlisted"},
         Reply(h, answer)
  PROVE  \E r \in Requests :
           /\ handler' = [handler EXCEPT ![h] = r]
           /\ r.phase \in {"free", "done"}
           /\ r.phase # "free" => r.key = handler[h].key /\ r.answer = answer
           /\ handler[h].answer # "unread" => r.phase # "free" /\ r.answer # "unread"
<1>1. CASE handler[h].answer = "unread"
  BY <1>1, FreeType DEF Reply
<1>2. CASE handler[h].answer # "unread"
  <2> DEFINE r == Request("done", handler[h].key, {}, answer)
  <2>1. handler' = [handler EXCEPT ![h] = r]
    BY <1>2 DEF Reply
  <2>2. r \in Requests /\ r.phase = "done" /\ r.key = handler[h].key /\ r.answer = answer
    BY RequestParts, RequestType DEF IInv
  <2> HIDE DEF r
  <2> QED BY <2>1, <2>2
<1> QED BY <1>1, <1>2

\* A request that records nothing answers.
LEMMA ReplyStep ==
  ASSUME IInv, NEW h \in Handler, handler[h].phase # "free",
         NEW answer \in {"ok", "already", "rejected", "session", "busy", "unlisted"},
         Reply(h, answer),
         answer = "ok" => day[Leader][type[handler[h].key]] = handler[h].key,
         answer = "already" => Has(Leader, type[handler[h].key]),
         UNCHANGED <<type, queue, deferred, receipt, pass, day>>
  PROVE  IInv'
<1>1. PICK r \in Requests :
           /\ handler' = [handler EXCEPT ![h] = r]
           /\ r.phase \in {"free", "done"}
           /\ r.phase # "free" => r.key = handler[h].key /\ r.answer = answer
           /\ handler[h].answer # "unread" => r.phase # "free" /\ r.answer # "unread"
  BY ReplyOutcome
<1>2. /\ day' \in [Workers -> [MarkType -> Int]]
      /\ MarksStay /\ MarksAreSound' /\ LeadersAreMarkedFirst'
  BY DEF IInv, Types, Workers, MarksStay, MarksAreSound, LeadersAreMarkedFirst, Has
<1>3. r.phase = "done" =>
           /\ r.answer = "ok" => day'[Leader][type[r.key]] = r.key
           /\ r.answer = "already" => day'[Leader][type[r.key]] # NoMark
  BY <1>1 DEF Has
<1> QED BY <1>1, <1>2, <1>3, RequestMoves

LEMMA KeyOfRequest ==
  ASSUME IInv, NEW h \in Handler, handler[h].phase # "free"
  PROVE  /\ handler[h].key \in Keys
         /\ type[handler[h].key] \in MarkType
BY DEF IInv, Types, KeysAreKnown, Known

LEMMA ReceiveMarkStep ==
  ASSUME IInv, NEW h \in Handler, ReceiveMark(h)
  PROVE  IInv'
<1> DEFINE k == handler[h].key
           refusal == IF ~signedIn THEN "session" ELSE Precheck(type[k])
<1>1. /\ handler[h].phase = "received"
      /\ UNCHANGED <<type, refused, queue, deferred, receipt, pass, day>>
  BY DEF ReceiveMark, records
<1>2. refusal \in {"none", "already", "rejected", "session"}
  BY DEF Precheck
<1>3. refusal = "already" => Has(Leader, type[k])
  BY DEF Precheck
<1>4. CASE refusal # "none"
  <2>1. Reply(h, refusal)
    BY <1>4 DEF ReceiveMark
  <2> HIDE DEF refusal
  <2> QED BY <1>1, <1>2, <1>3, <1>4, <2>1, ReplyStep
<1>5. CASE refusal = "none"
  <2> DEFINE r == Request("checked", k, {}, handler[h].answer)
  <2>1. handler' = [handler EXCEPT ![h] = r]
    BY <1>5 DEF ReceiveMark
  <2>2. r \in Requests /\ r.phase = "checked" /\ r.key = handler[h].key /\ r.answer = handler[h].answer
    BY RequestParts, RequestType DEF IInv
  <2>3. /\ day' \in [Workers -> [MarkType -> Int]]
        /\ MarksStay /\ MarksAreSound' /\ LeadersAreMarkedFirst'
    BY <1>1 DEF IInv, Types, Workers, MarksStay, MarksAreSound, LeadersAreMarkedFirst, Has
  <2> HIDE DEF r
  <2> QED BY <1>1, <2>1, <2>2, <2>3, RequestMoves
<1> QED BY <1>4, <1>5

LEMMA RefuseMarkStep ==
  ASSUME IInv, NEW h \in Handler, RefuseMark(h)
  PROVE  IInv'
<1>1. /\ handler[h].phase # "free"
      /\ UNCHANGED <<type, queue, deferred, receipt, pass, day>>
  BY DEF RefuseMark
<1>2. PICK answer \in {"rejected", "unlisted"} : Reply(h, answer)
  BY PortalQueueAssumption DEF RefuseMark
<1> QED BY <1>1, <1>2, ReplyStep

\* What a mark that is recorded changes.
LEMMA RecordOutcome ==
  ASSUME IInv, NEW w \in Workers, NEW t \in MarkType, NEW k \in Keys, type[k] = t,
         ~Has(w, t), t = "BREAK_END" => Has(w, "BREAK_START"),
         Record(w, t, k), type' = type
  PROVE  /\ day' \in [Workers -> [MarkType -> Int]]
         /\ day'[w][t] = k
         /\ \A v \in Workers, u \in MarkType : v # w \/ u # t => day'[v][u] = day[v][u]
         /\ MarksStay
         /\ MarksAreSound'
<1>1. day \in [Workers -> [MarkType -> Int]]
  BY DEF IInv, Types, Workers
<1>2. /\ day' \in [Workers -> [MarkType -> Int]]
      /\ day'[w][t] = k
      /\ \A v \in Workers, u \in MarkType : v # w \/ u # t => day'[v][u] = day[v][u]
  BY <1>1, KeyFacts DEF Record
<1>3. MarksStay
  BY <1>2 DEF MarksStay, Has
<1>4. MarksAreSound'
  BY <1>2, KeyFacts DEF IInv, MarksAreSound, Workers, Has, MarkType
<1> QED BY <1>2, <1>3, <1>4

\* A mark is recorded only where there was none, and a key that was recorded
\* was recorded as the mark it is.
LEMMA OutcomeFacts ==
  ASSUME IInv, NEW w \in Workers, NEW k \in Keys, type[k] \in MarkType
  PROVE  /\ Outcome(w, type[k], k) \in {"recorded", "replayed", "already", "rejected"}
         /\ Outcome(w, type[k], k) = "recorded" =>
              ~Has(w, type[k]) /\ (type[k] = "BREAK_END" => Has(w, "BREAK_START"))
         /\ Outcome(w, type[k], k) = "replayed" => day[w][type[k]] = k
         /\ Outcome(w, type[k], k) = "already" => Has(w, type[k])
<1>1. k \in {day[w][x] : x \in MarkType} => day[w][type[k]] = k
  BY DEF IInv, MarksAreSound, Workers
<1>2. Has(w, "BREAK_END") => Has(w, "BREAK_START")
  BY DEF IInv, MarksAreSound, Workers
<1> QED BY <1>1, <1>2 DEF Outcome, MarkType

\* A leader's mark keeps the leader first.
LEMMA LeaderStaysFirst ==
  ASSUME IInv, NEW t \in MarkType, NEW k \in Keys, ~Has(Leader, t),
         day'[Leader][t] = k,
         \A v \in Workers, u \in MarkType : v # Leader \/ u # t => day'[v][u] = day[v][u]
  PROVE  LeadersAreMarkedFirst'
BY PortalQueueAssumption DEF IInv, LeadersAreMarkedFirst, Has, Workers

LEMMA MarkLeaderStep ==
  ASSUME IInv, NEW h \in Handler, MarkLeader(h)
  PROVE  IInv'
<1> DEFINE k == handler[h].key
           t == type[k]
           outcome == Outcome(Leader, t, k)
           crew == Crew(t)
<1>1. /\ handler[h].phase # "free"
      /\ UNCHANGED <<type, refused, queue, deferred, receipt, pass>>
  BY DEF MarkLeader, records
<1>2. k \in Keys /\ t \in MarkType /\ Leader \in Workers
  BY <1>1, KeyOfRequest DEF Workers
<1>3. /\ outcome \in {"recorded", "replayed", "already", "rejected"}
      /\ outcome = "recorded" => ~Has(Leader, t) /\ (t = "BREAK_END" => Has(Leader, "BREAK_START"))
      /\ outcome = "replayed" => day[Leader][t] = k
      /\ outcome = "already" => Has(Leader, t)
  BY <1>2, OutcomeFacts
<1>4. /\ IF outcome = "recorded" THEN Record(Leader, t, k) ELSE UNCHANGED day
      /\ outcome \in {"already", "rejected"} => Reply(h, outcome)
      /\ outcome \in {"recorded", "replayed"} /\ crew = {} => Reply(h, "ok")
      /\ outcome \in {"recorded", "replayed"} /\ crew # {} =>
           handler' = [handler EXCEPT ![h] = Request("crew", k, crew, handler[h].answer)]
  BY <1>3 DEF MarkLeader
<1>5. CASE outcome \in {"already", "rejected"}
  BY <1>1, <1>3, <1>4, <1>5, ReplyStep
<1>6. CASE outcome \in {"recorded", "replayed"}
  <2>1. /\ day' \in [Workers -> [MarkType -> Int]]
        /\ MarksStay /\ MarksAreSound' /\ LeadersAreMarkedFirst'
        /\ day'[Leader][t] = k
    <3>1. CASE outcome = "recorded"
      <4>1. Record(Leader, t, k) /\ type' = type
        BY <3>1, <1>1, <1>4
      <4> HIDE DEF k, t, outcome
      <4> QED BY <3>1, <4>1, <1>2, <1>3, RecordOutcome, LeaderStaysFirst DEF t
    <3>2. CASE outcome = "replayed"
      <4>1. day' = day
        BY <3>2, <1>4
      <4> QED BY <4>1, <3>2, <1>1, <1>3
              DEF IInv, Types, Workers, MarksStay, MarksAreSound, LeadersAreMarkedFirst, Has
    <3> QED BY <1>6, <3>1, <3>2
  <2>2. CASE crew = {}
    <3>1. Reply(h, "ok")
      BY <1>4, <1>6, <2>2
    <3>2. PICK r \in Requests :
           /\ handler' = [handler EXCEPT ![h] = r]
           /\ r.phase \in {"free", "done"}
           /\ r.phase # "free" => r.key = handler[h].key /\ r.answer = "ok"
           /\ handler[h].answer # "unread" => r.phase # "free" /\ r.answer # "unread"
      BY <3>1, ReplyOutcome
    <3> QED BY <1>1, <2>1, <3>2, RequestMoves
  <2>3. CASE crew # {}
    <3> DEFINE r == Request("crew", k, crew, handler[h].answer)
    <3>1. handler' = [handler EXCEPT ![h] = r] /\ t # "ARRIVAL"
      BY <1>4, <1>6, <2>3 DEF Crew
    <3>2. r \in Requests /\ r.phase = "crew" /\ r.key = handler[h].key /\ r.answer = handler[h].answer
      BY RequestParts, RequestType DEF IInv, Crew
    <3> HIDE DEF r
    <3> QED BY <1>1, <2>1, <3>1, <3>2, RequestMoves
  <2> QED BY <2>2, <2>3
<1> QED BY <1>3, <1>5, <1>6

LEMMA MarkMemberStep ==
  ASSUME IInv, NEW h \in Handler, NEW m \in Member, MarkMember(h, m)
  PROVE  IInv'
<1> DEFINE k == handler[h].key
           t == type[k]
           left == handler[h].todo \ {m}
<1>1. /\ handler[h].phase = "crew"
      /\ UNCHANGED <<type, refused, queue, deferred, receipt, pass>>
      /\ (Outcome(m, t, k) = "recorded" /\ Record(m, t, k)) \/ UNCHANGED day
      /\ IF left = {} THEN Reply(h, "ok")
         ELSE handler' = [handler EXCEPT ![h] = Request("crew", k, left, handler[h].answer)]
  BY DEF MarkMember, records
<1>2. k \in Keys /\ t \in MarkType /\ m \in Workers /\ m # Leader
  BY <1>1, KeyOfRequest, PortalQueueAssumption DEF Workers
<1>3. t # "ARRIVAL" /\ day[Leader][t] = k
  BY <1>1 DEF IInv, AnswersAreTrue
<1>4. /\ day' \in [Workers -> [MarkType -> Int]]
      /\ MarksStay /\ MarksAreSound' /\ LeadersAreMarkedFirst'
      /\ day'[Leader][t] = k
  <2>1. CASE Outcome(m, t, k) = "recorded" /\ Record(m, t, k)
    <3>1. Record(m, t, k) /\ type' = type /\ ~Has(m, t) /\ (t = "BREAK_END" => Has(m, "BREAK_START"))
      BY <2>1, <1>1, <1>2, OutcomeFacts
    <3>2. /\ day' \in [Workers -> [MarkType -> Int]]
          /\ MarksStay /\ MarksAreSound'
          /\ day'[m][t] = k
          /\ \A v \in Workers, u \in MarkType : v # m \/ u # t => day'[v][u] = day[v][u]
      <4> HIDE DEF k
      <4> QED BY <3>1, <1>2, RecordOutcome
    <3> QED BY <3>2, <1>2, <1>3 DEF IInv, LeadersAreMarkedFirst, Workers
  <2>2. CASE UNCHANGED day
    <3>1. day' = day
      BY <2>2, <1>1
    <3> QED BY <3>1, <1>1, <1>3
            DEF IInv, Types, Workers, MarksStay, MarksAreSound, LeadersAreMarkedFirst, Has
  <2> QED BY <1>1, <2>1, <2>2
<1>5. CASE left = {}
  <2>1. Reply(h, "ok")
    BY <1>1, <1>5
  <2>2. PICK r \in Requests :
           /\ handler' = [handler EXCEPT ![h] = r]
           /\ r.phase \in {"free", "done"}
           /\ r.phase # "free" => r.key = handler[h].key /\ r.answer = "ok"
           /\ handler[h].answer # "unread" => r.phase # "free" /\ r.answer # "unread"
    BY <2>1, ReplyOutcome
  <2> QED BY <1>1, <1>4, <2>2, RequestMoves
<1>6. CASE left # {}
  <2> DEFINE r == Request("crew", k, left, handler[h].answer)
  <2>1. handler' = [handler EXCEPT ![h] = r]
    BY <1>1, <1>6
  <2>2. left \in SUBSET Member
    BY RequestParts DEF IInv
  <2>3. /\ "crew" \in {"free", "received", "checked", "crew", "done"}
        /\ handler[h].key \in Keys \cup {NoMark}
        /\ handler[h].answer \in {"none", "unread", "ok", "already", "rejected", "session", "busy", "unlisted"}
    BY RequestParts DEF IInv
  <2>4. r \in Requests /\ r.phase = "crew" /\ r.key = handler[h].key /\ r.answer = handler[h].answer
    <3> HIDE DEF left
    <3> QED BY <2>2, <2>3, RequestType
  <2> HIDE DEF r
  <2> QED BY <1>1, <1>3, <1>4, <2>1, <2>4, RequestMoves
<1> QED BY <1>5, <1>6

LEMMA FailRequestStep ==
  ASSUME IInv, NEW h \in Handler, FailRequest(h)
  PROVE  IInv'
<1>1. /\ handler[h].phase # "free"
      /\ Reply(h, "busy")
      /\ UNCHANGED <<type, refused, queue, deferred, receipt, pass, day>>
  BY DEF FailRequest, records
<1> QED BY <1>1, ReplyStep

LEMMA CrashRequestStep ==
  ASSUME IInv, NEW h \in Handler, CrashRequest(h)
  PROVE  IInv'
<1>1. /\ handler' = [handler EXCEPT ![h] = Free]
      /\ UNCHANGED <<type, refused, day>>
      /\ handler[h].phase \in {"received", "checked", "crew"}
  BY DEF CrashRequest
<1>2. CASE Serves(h) = {}
  <2>1. UNCHANGED <<queue, deferred, receipt, pass>>
    BY <1>2 DEF CrashRequest
  <2>2. \A p \in Pass : pass[p].phase = "waiting" => pass[p].handler # h
    BY <1>2 DEF Serves
  <2>3. handler' \in [Handler -> Requests] /\ handler'[h] = Free /\ \A g \in Handler \ {h} : handler'[g] = handler[g]
    BY <1>1, FreeType DEF IInv, Types
  <2>4. Types'
    BY <1>1, <2>1, <2>3 DEF IInv, Types
  <2>5. KeysAreKnown'
    BY <1>1, <2>1, <2>3, FreeType DEF IInv, KeysAreKnown, Known
  <2>6. PassesHaveRequests'
    BY <2>1, <2>2, <2>3 DEF IInv, PassesHaveRequests
  <2>7. AnswersAreTrue'
    BY <1>1, <2>3, FreeType DEF IInv, AnswersAreTrue, Has
  <2>8. MarksAreSound' /\ ReceiptsAreEarned' /\ LeadersAreMarkedFirst'
    BY <1>1, <2>1 DEF IInv, MarksAreSound, ReceiptsAreEarned, LeadersAreMarkedFirst, Has, Known
  <2> QED BY <2>4, <2>5, <2>6, <2>7, <2>8 DEF IInv
<1>3. CASE Serves(h) # {}
  <2>1. PICK p \in Serves(h) : Settle(p, "busy")
    BY <1>3 DEF CrashRequest
  <2>2. p \in Pass /\ pass[p].phase = "waiting" /\ pass[p].handler = h
    BY <2>1 DEF Serves
  <2>3. NoOtherWaits(p, h)
    BY <2>2, RequestIsOwn
  <2>4. PICK q \in Passes :
        /\ q.phase # "waiting"
        /\ \A k \in q.todo : Known(k)
        /\ pass' = [pass EXCEPT ![p] = q]
        /\ queue' \in SUBSET Key /\ \A k \in queue' : Known(k)
        /\ deferred' \in SUBSET Key
        /\ receipt' \in [Key -> {"NONE", "SYNCED", "ALREADY_RECORDED", "REJECTED"}]
        /\ ReceiptsAreEarned'
    BY <1>1, <2>1, <2>2, SettleOutcome
  <2>5. Free \in Requests /\ Free.phase = "free"
    BY FreeType
  <2> QED BY <1>1, <2>2, <2>3, <2>4, <2>5, PassLeaves
<1> QED BY <1>2, <1>3

-----------------------------------------------------------------------------
(* Order and refusals: what every step leaves *)

\* IInv with the parts of Inv that say in which order marks come and why one
\* may be refused.
Orderly == IInv /\ OrderInv /\ DayBegins /\ RefusalsHaveReasons

\* Keys keep their type and get one in turn, what held a mark up and a receipt
\* stay, and a mark stays where it is.
Grows ==
  /\ \A k \in Keys : Known(k) => type'[k] = type[k]
  /\ \A k \in Key : Known(k)' => Known(k) \/ (k \in queue' /\ \A j \in Key : j < k => Known(j))
  /\ old \subseteq old' /\ refused \subseteq refused'
  /\ \A k \in Key : receipt[k] # "NONE" => receipt'[k] # "NONE"
  /\ \A t \in MarkType : day'[Leader][t] = day[Leader][t] \/ (~Has(Leader, t) /\ day'[Leader][t] \in Keys)

\* A record leaves the queue only settled.
QueueAdvances == \A k \in queue : k \in queue' \/ Settled(k)'

\* A pass begins with the queue, ends, or goes on without settled records.
PassesAdvance ==
  \A p \in Pass :
    \/ pass'[p].todo \in {{}, queue}
    \/ /\ pass'[p].todo \subseteq pass[p].todo
       /\ \A j \in pass[p].todo : j \in pass'[p].todo \/ Settled(j)'

\* A request ends, begins when all before its key is settled, or goes on.
RequestAdvances(h) ==
  \/ handler'[h].phase = "free"
  \/ /\ handler'[h].phase = "received"
     /\ \A k \in Key : handler'[h].key = k => EarlierAreSettled(k)
  \/ /\ handler[h].phase # "free" /\ handler'[h].key = handler[h].key
     /\ handler'[h].phase = "done" =>
          \/ handler[h].phase = "done" /\ handler'[h].answer = handler[h].answer
          \/ /\ handler'[h].answer \in Answers
             /\ handler'[h].answer = "rejected" => \A k \in Key : handler[h].key = k => Reason(k) \/ k \in refused'

\* A mark is recorded for a request, in its place.
MarksAdvance ==
  /\ \A k \in Key : Kept(k)' =>
       \/ Kept(k)
       \/ /\ EarlierAreSettled(k) /\ Known(k)
          /\ type[k] = "BREAK_END" => ~Has(Leader, "DEPARTURE")
  /\ \A t \in MarkType \ {"ARRIVAL"} : day'[Leader][t] = day[Leader][t] \/ Has(Leader, "ARRIVAL")

ReceiptsAdvance ==
  \A k \in Key : receipt'[k] = "REJECTED" => receipt[k] = "REJECTED" \/ (Known(k) /\ Reason(k))

Advances ==
  /\ Grows /\ QueueAdvances /\ PassesAdvance /\ MarksAdvance /\ ReceiptsAdvance
  /\ \A h \in Handler : RequestAdvances(h)

\* What is settled stays settled.
LEMMA SettledStays ==
  ASSUME Grows, NEW k \in Key, Settled(k)
  PROVE  Settled(k)'
<1>1. CASE Kept(k)
  <2>1. PICK t \in MarkType : day[Leader][t] = k
    BY <1>1 DEF Kept
  <2>2. Has(Leader, t)
    BY <2>1, KeyFacts DEF Has
  <2> QED BY <2>1, <2>2 DEF Grows, Settled, Kept
<1>2. CASE receipt[k] # "NONE" \/ k \in old
  BY <1>2 DEF Grows, Settled
<1> QED BY <1>1, <1>2 DEF Settled

\* What is on the server is known as the type of mark it is.
LEMMA KeptIsKnown ==
  ASSUME IInv, NEW k \in Key, Kept(k)
  PROVE  Known(k) /\ type[k] \in MarkType /\ day[Leader][type[k]] = k
<1>1. PICK t \in MarkType : day[Leader][t] = k
  BY DEF Kept
<1>2. type[k] = t
  BY <1>1, KeyFacts DEF IInv, MarksAreSound
<1> QED BY <1>1, <1>2 DEF Known, MarkType

LEMMA OrderStep ==
  ASSUME Orderly, Advances
  PROVE  OrderInv'
<1> USE DEF Orderly
<1>0. Grows /\ \A k \in Key : Settled(k) => Settled(k)'
  BY SettledStays DEF Advances
<1>1. KeysAreInOrder'
  <2> SUFFICES ASSUME NEW k \in Key, Known(k)'
               PROVE  (k \in queue' \/ Settled(k)') /\ \A j \in Key : j < k => Known(j)'
    BY DEF KeysAreInOrder
  <2>1. \A j \in Key : Known(j) => Known(j)'
    BY <1>0, KeyFacts DEF Grows, Known
  <2>2. CASE Known(k)
    <3>1. k \in queue \/ Settled(k)
      BY <2>2 DEF OrderInv, KeysAreInOrder
    <3>2. k \in queue' \/ Settled(k)'
      BY <3>1, <1>0 DEF Advances, QueueAdvances
    <3>3. \A j \in Key : j < k => Known(j)
      BY <2>2 DEF OrderInv, KeysAreInOrder
    <3> QED BY <2>1, <3>2, <3>3
  <2>3. CASE ~Known(k)
    BY <2>1, <2>3, <1>0 DEF Grows
  <2> QED BY <2>2, <2>3
<1>2. PassesAreInOrder'
  <2> SUFFICES ASSUME NEW p \in Pass, NEW k \in pass'[p].todo, NEW j \in Key, j < k
               PROVE  j \in pass'[p].todo \/ Settled(j)'
    BY DEF PassesAreInOrder
  <2>1. CASE pass'[p].todo = {}
    BY <2>1
  <2>2. CASE pass'[p].todo = queue
    <3>1. k \in Key /\ Known(k)
      BY <2>2 DEF IInv, Types, KeysAreKnown
    <3>2. j \in queue \/ Settled(j)
      BY <3>1 DEF OrderInv, KeysAreInOrder
    <3> QED BY <2>2, <3>2, <1>0
  <2>3. CASE /\ pass'[p].todo \subseteq pass[p].todo
             /\ \A i \in pass[p].todo : i \in pass'[p].todo \/ Settled(i)'
    <3>1. j \in pass[p].todo \/ Settled(j)
      BY <2>3 DEF OrderInv, PassesAreInOrder
    <3> QED BY <2>3, <3>1, <1>0
  <2> QED BY <2>1, <2>2, <2>3 DEF Advances, PassesAdvance
<1>3. RequestsAreInOrder'
  <2> SUFFICES ASSUME NEW h \in Handler
               PROVE  /\ handler'[h].phase # "free" => \A k \in Key : handler'[h].key = k => EarlierAreSettled(k)'
                      /\ handler'[h].phase = "done" => handler'[h].answer \in Answers
    BY DEF RequestsAreInOrder
  <2>1. RequestAdvances(h)
    BY DEF Advances
  <2>2. /\ handler[h].phase # "free" => \A k \in Key : handler[h].key = k => EarlierAreSettled(k)
        /\ handler[h].phase = "done" => handler[h].answer \in Answers
    BY DEF OrderInv, RequestsAreInOrder
  <2>3. \A k \in Key : EarlierAreSettled(k) => EarlierAreSettled(k)'
    BY <1>0 DEF EarlierAreSettled
  <2>4. ASSUME NEW k \in Key, handler'[h].phase # "free", handler'[h].key = k
        PROVE  EarlierAreSettled(k)'
    <3>1. EarlierAreSettled(k)
      BY <2>1, <2>2, <2>4 DEF RequestAdvances
    <3> QED BY <3>1, <2>3
  <2>5. handler'[h].phase = "done" => handler'[h].answer \in Answers
    BY <2>1, <2>2 DEF RequestAdvances
  <2> QED BY <2>4, <2>5
<1>4. MarksKeepTheirOrder'
  <2> SUFFICES ASSUME NEW j \in Key, NEW k \in Key, j < k, Kept(k)'
               PROVE  Settled(j)'
    BY DEF MarksKeepTheirOrder, Settled
  <2>1. Kept(k) \/ EarlierAreSettled(k)
    BY DEF Advances, MarksAdvance
  <2>2. Settled(j)
    BY <2>1 DEF EarlierAreSettled, OrderInv, MarksKeepTheirOrder, Settled
  <2> QED BY <2>2, <1>0
<1> QED BY <1>1, <1>2, <1>3, <1>4 DEF OrderInv

-----------------------------------------------------------------------------
(* Reasons last *)

LEMMA EarlierAreKnown ==
  ASSUME Orderly, NEW k \in Key, Known(k), NEW j \in Key, j < k
  PROVE  Known(j)
BY DEF Orderly, OrderInv, KeysAreInOrder

LEMMA NoArrivalStays ==
  ASSUME Orderly, Grows, NEW k \in Key, Known(k), NoArrivalBefore(k)
  PROVE  NoArrivalBefore(k)'
<1>1. day'[Leader]["ARRIVAL"] # Elsewhere
  BY KeyFacts DEF Grows, NoArrivalBefore, MarkType
<1>2. ASSUME NEW j \in Key, j < k, type'[j] = "ARRIVAL"
      PROVE  j \in Hindered'
  <2>1. Known(j)
    BY <1>2, EarlierAreKnown
  <2> QED BY <1>2, <2>1, KeyFacts DEF Grows, NoArrivalBefore, Hindered
<1> QED BY <1>1, <1>2 DEF NoArrivalBefore

LEMMA ReasonStays ==
  ASSUME Orderly, Grows, MarksAdvance, NEW k \in Key, Known(k), Reason(k)
  PROVE  Reason(k)'
<1>1. type'[k] = type[k] /\ Hindered \subseteq Hindered'
  BY KeyFacts DEF Grows, Hindered
<1>2. Has(Leader, "DEPARTURE") => Has(Leader, "DEPARTURE")'
  BY KeyFacts DEF Grows, Has, MarkType
<1>3. CASE k \in Hindered
  BY <1>1, <1>3 DEF Reason
<1>4. CASE type[k] = "BREAK_START" /\ Has(Leader, "DEPARTURE")
  BY <1>1, <1>2, <1>4 DEF Reason
<1>5. CASE type[k] \in {"BREAK_START", "DEPARTURE"} /\ NoArrivalBefore(k)
  BY <1>1, <1>5, NoArrivalStays DEF Reason
<1>6. CASE type[k] = "BREAK_END" /\ Has(Leader, "DEPARTURE") /\ ~Kept(k)
  BY <1>1, <1>2, <1>6 DEF MarksAdvance, Reason
<1>7. CASE /\ type[k] = "BREAK_END"
           /\ \A j \in Key : j < k /\ type[j] = "BREAK_START" => j \in Hindered \/ NoArrivalBefore(j)
  <2>1. ASSUME NEW j \in Key, j < k, type'[j] = "BREAK_START"
        PROVE  j \in Hindered' \/ NoArrivalBefore(j)'
    <3>1. Known(j)
      BY <2>1, EarlierAreKnown
    <3>2. type[j] = "BREAK_START"
      BY <2>1, <3>1, KeyFacts DEF Grows
    <3>3. j \in Hindered \/ NoArrivalBefore(j)
      BY <1>7, <2>1, <3>2
    <3>4. NoArrivalBefore(j) => NoArrivalBefore(j)'
      BY <3>1, NoArrivalStays
    <3> QED BY <1>1, <3>3, <3>4
  <2> QED BY <1>1, <1>7, <2>1 DEF Reason
<1> QED BY <1>3, <1>4, <1>5, <1>6, <1>7 DEF Reason

LEMMA RefusalStep ==
  ASSUME Orderly, Advances
  PROVE  DayBegins' /\ RefusalsHaveReasons'
<1>0. Grows /\ MarksAdvance /\ IInv
  BY DEF Advances, Orderly
<1>1. DayBegins'
  <2> SUFFICES ASSUME NEW t \in MarkType \ {"ARRIVAL"}
               PROVE  day'[Leader][t] # Elsewhere /\ (Has(Leader, t)' => Has(Leader, "ARRIVAL")')
    BY DEF DayBegins
  <2>1. day[Leader][t] # Elsewhere /\ (Has(Leader, t) => Has(Leader, "ARRIVAL"))
    BY DEF Orderly, DayBegins
  <2>2. day'[Leader][t] # Elsewhere
    BY <2>1, <1>0, KeyFacts DEF Grows
  <2>3. Has(Leader, "ARRIVAL") => Has(Leader, "ARRIVAL")'
    BY <1>0, KeyFacts DEF Grows, Has, MarkType
  <2>4. Has(Leader, t)' => Has(Leader, t) \/ Has(Leader, "ARRIVAL")
    BY <1>0 DEF MarksAdvance, Has
  <2> QED BY <2>1, <2>2, <2>3, <2>4
<1>2. RefusalsHaveReasons'
  <2>1. ASSUME NEW k \in Key, receipt'[k] = "REJECTED"
        PROVE  Known(k)' /\ Reason(k)'
    <3>1. Known(k) /\ Reason(k)
      BY <2>1 DEF Advances, ReceiptsAdvance, Orderly, RefusalsHaveReasons
    <3>2. Known(k)'
      BY <3>1, <1>0, KeyFacts DEF Grows, Known
    <3> QED BY <3>1, <3>2, <1>0, ReasonStays
  <2>2. ASSUME NEW h \in Handler, handler'[h].phase = "done", handler'[h].answer = "rejected",
               NEW k \in Key, handler'[h].key = k
        PROVE  Reason(k)'
    <3>1. handler[h].phase # "free" /\ handler[h].key = k /\ (Reason(k) \/ k \in refused')
      BY <2>2 DEF Advances, RequestAdvances, Orderly, RefusalsHaveReasons
    <3>2. Known(k)
      BY <3>1, <1>0 DEF IInv, KeysAreKnown
    <3>3. k \in refused' => Reason(k)'
      BY DEF Reason, Hindered
    <3> QED BY <3>1, <3>2, <3>3, <1>0, ReasonStays
  <2> QED BY <2>1, <2>2 DEF RefusalsHaveReasons
<1> QED BY <1>1, <1>2

-----------------------------------------------------------------------------
(* Every step of the phone advances *)

LEMMA RequestStays ==
  ASSUME Orderly, NEW h \in Handler, handler'[h] = handler[h]
  PROVE  RequestAdvances(h)
BY DEF Orderly, RequestAdvances

\* Steps that give no type and record no mark.
LEMMA NothingIsRecorded ==
  ASSUME UNCHANGED <<type, day>>, old \subseteq old', refused \subseteq refused',
         \A k \in Key : receipt[k] # "NONE" => receipt'[k] # "NONE"
  PROVE  Grows /\ MarksAdvance
<1>1. Grows
  BY DEF Grows, Known
<1>2. MarksAdvance
  BY DEF MarksAdvance, Kept
<1> QED BY <1>1, <1>2

\* Steps that leave the server alone.
LEMMA PhoneAdvances ==
  ASSUME Orderly, UNCHANGED <<type, refused, handler, day>>, old \subseteq old',
         \A k \in Key : receipt[k] # "NONE" => receipt'[k] # "NONE",
         QueueAdvances, PassesAdvance, ReceiptsAdvance
  PROVE  Advances
<1>1. \A h \in Handler : RequestAdvances(h)
  BY RequestStays
<1> QED BY <1>1, NothingIsRecorded DEF Advances

\* Steps that leave the queue, the passes' records and the receipts alone.
LEMMA PhoneIsStill ==
  ASSUME queue \subseteq queue', receipt' = receipt,
         \A p \in Pass : pass'[p].todo = pass[p].todo
  PROVE  QueueAdvances /\ PassesAdvance /\ ReceiptsAdvance
BY DEF QueueAdvances, PassesAdvance, ReceiptsAdvance

LEMMA QueueMarkAdvances ==
  ASSUME Orderly, QueueMark
  PROVE  Advances
<1>0. PICK k \in Key : /\ type[k] = "NONE"
                       /\ \A j \in Key : j < k => type[j] # "NONE"
                       /\ \E t \in MarkType : type' = [type EXCEPT ![k] = t]
                       /\ queue' = queue \cup {k}
  <2>1. \A stage : Offered(stage) \in SUBSET MarkType
    BY DEF Offered, MarkType
  <2> QED BY <2>1 DEF QueueMark
<1>1. UNCHANGED <<refused, old, receipt, pass, handler, day>>
  BY DEF QueueMark
<1>2. \A j \in Keys \ {k} : type'[j] = type[j]
  BY <1>0 DEF Orderly, IInv, Types
<1>3. Grows
  BY <1>0, <1>1, <1>2, KeyFacts DEF Grows, Known
<1>4. MarksAdvance
  BY <1>1 DEF MarksAdvance, Kept
<1>5. QueueAdvances /\ PassesAdvance /\ ReceiptsAdvance
  BY <1>0, <1>1, PhoneIsStill
<1>6. \A h \in Handler : RequestAdvances(h)
  BY <1>1, RequestStays
<1> QED BY <1>3, <1>4, <1>5, <1>6 DEF Advances

LEMMA TapOnlineAdvances ==
  ASSUME Orderly, NEW h \in Handler, TapOnline(h)
  PROVE  Advances
<1>0. PICK t \in MarkType : type' = [type EXCEPT ![Online] = t]
  BY DEF TapOnline
<1>1. /\ handler' = [handler EXCEPT ![h] = Request("received", Online, {}, "unread")]
      /\ type[Online] = "NONE"
      /\ UNCHANGED <<refused, queue, old, receipt, pass, day>>
  BY DEF TapOnline
<1>2. \A j \in Key : type'[j] = type[j]
  BY <1>0, KeyFacts DEF Orderly, IInv, Types
<1>3. Grows
  BY <1>1, <1>2, KeyFacts DEF Grows, Known, Keys
<1>4. MarksAdvance
  BY <1>1 DEF MarksAdvance, Kept
<1>5. QueueAdvances /\ PassesAdvance /\ ReceiptsAdvance
  BY <1>1, PhoneIsStill
<1>6. ASSUME NEW g \in Handler PROVE RequestAdvances(g)
  <2>1. CASE g = h
    <3>1. handler'[g] = Request("received", Online, {}, "unread")
      BY <1>1, <2>1 DEF Orderly, IInv, Types
    <3>2. handler'[g].phase = "received" /\ handler'[g].key \notin Key
      BY <3>1, KeyFacts, RequestType
    <3> QED BY <3>2 DEF RequestAdvances
  <2>2. CASE g # h
    <3>1. handler'[g] = handler[g]
      BY <1>1, <2>2 DEF Orderly, IInv, Types
    <3> QED BY <3>1, RequestStays
  <2> QED BY <2>1, <2>2
<1> QED BY <1>3, <1>4, <1>5, <1>6 DEF Advances

LEMMA CleanUpAdvances ==
  ASSUME Orderly, CleanUpExpiredData
  PROVE  Advances
<1>1. /\ queue' = queue \ old
      /\ UNCHANGED <<type, refused, old, receipt, pass, handler, day>>
  BY DEF CleanUpExpiredData
<1>2. QueueAdvances
  BY <1>1 DEF QueueAdvances, Settled
<1>3. PassesAdvance /\ ReceiptsAdvance
  BY <1>1 DEF PassesAdvance, ReceiptsAdvance
<1> QED BY <1>1, <1>2, <1>3, PhoneAdvances

LEMMA DelayAdvances ==
  ASSUME Orderly, UNCHANGED <<type, refused, queue, old, receipt, handler, day>>,
         \A p \in Pass : pass'[p].todo = pass[p].todo
  PROVE  Advances
BY PhoneIsStill, PhoneAdvances

LEMMA AgeAdvances ==
  ASSUME Orderly, NEW k \in Key, Age(k)
  PROVE  Advances
BY PhoneIsStill, PhoneAdvances DEF Age

\* One pass takes another state, the others keep theirs.
LEMMA OnePassAdvances ==
  ASSUME IInv, NEW p \in Pass, NEW q \in Passes, pass' = [pass EXCEPT ![p] = q],
         \/ q.todo \in {{}, queue}
         \/ q.todo \subseteq pass[p].todo /\ \A j \in pass[p].todo : j \in q.todo \/ Settled(j)'
  PROVE  PassesAdvance
<1>1. pass'[p] = q /\ \A o \in Pass \ {p} : pass'[o] = pass[o]
  BY DEF IInv, Types
<1> QED BY <1>1 DEF PassesAdvance

LEMMA StartPassAdvances ==
  ASSUME Orderly, NEW p \in Pass, StartPass(p)
  PROVE  Advances
<1>1. /\ pass' = [pass EXCEPT ![p] = Walking(queue, deferred)]
      /\ UNCHANGED <<records, handler, day>>
  BY DEF StartPass
<1>2. queue \in SUBSET Key /\ deferred \in SUBSET Key
  BY DEF Orderly, IInv, Types
<1>3. PassesAdvance
  BY <1>1, <1>2, WalkingType, OnePassAdvances DEF Orderly
<1>4. QueueAdvances /\ ReceiptsAdvance
  BY <1>1 DEF records, QueueAdvances, ReceiptsAdvance
<1> QED BY <1>1, <1>3, <1>4, PhoneAdvances DEF records

LEMMA PassIsOverAdvances ==
  ASSUME Orderly, NEW p \in Pass, PassIsOver(p)
  PROVE  Advances
<1>1. /\ pass' = [pass EXCEPT ![p] = IdlePass]
      /\ UNCHANGED <<records, handler, day>>
  BY DEF PassIsOver, EndPass
<1>2. PassesAdvance
  BY <1>1, IdleType, OnePassAdvances DEF Orderly
<1>3. QueueAdvances /\ ReceiptsAdvance
  BY <1>1 DEF records, QueueAdvances, ReceiptsAdvance
<1> QED BY <1>1, <1>2, <1>3, PhoneAdvances DEF records

LEMMA ExpireRecordAdvances ==
  ASSUME Orderly, NEW p \in Pass, ExpireRecord(p)
  PROVE  Advances
<1>0. PICK k \in old : /\ IsNext(p, k)
                       /\ queue' = queue \ {k}
                       /\ receipt' = [receipt EXCEPT ![k] = "REJECTED"]
  BY DEF ExpireRecord
<1>1. k \in Key /\ Known(k)
  BY <1>0, PassParts DEF IsNext, Orderly, IInv, KeysAreKnown
<1>2. /\ pass' = [pass EXCEPT ![p] = IdlePass]
      /\ UNCHANGED <<type, refused, old, handler, day>>
  BY DEF ExpireRecord, EndPass
<1>3. receipt'[k] = "REJECTED" /\ \A j \in Key \ {k} : receipt'[j] = receipt[j]
  BY <1>0, <1>1 DEF Orderly, IInv, Types
<1>4. PassesAdvance
  BY <1>2, IdleType, OnePassAdvances DEF Orderly
<1>5. QueueAdvances
  BY <1>0, <1>2 DEF QueueAdvances, Settled
<1>6. ReceiptsAdvance
  BY <1>1, <1>3 DEF ReceiptsAdvance, Reason, Hindered
<1> QED BY <1>1, <1>2, <1>3, <1>4, <1>5, <1>6, PhoneAdvances

LEMMA SendRecordAdvances ==
  ASSUME Orderly, NEW p \in Pass, NEW h \in Handler, SendRecord(p, h)
  PROVE  Advances
<1>0. PICK k \in Key :
        /\ IsNext(p, k)
        /\ queue' = queue \cup {k}
        /\ pass' = [pass EXCEPT ![p] = PassIn("waiting", pass[p].todo, pass[p].late, k, h)]
        /\ handler' = [handler EXCEPT ![h] = Request("received", k, {}, "none")]
  BY DEF SendRecord
<1>1. UNCHANGED <<type, refused, old, receipt, day>> /\ IInv
  BY DEF SendRecord, Orderly
<1> DEFINE q == PassIn("waiting", pass[p].todo, pass[p].late, k, h)
<1>2. q \in Passes /\ q.todo = pass[p].todo /\ pass' = [pass EXCEPT ![p] = q]
  BY <1>0, <1>1, PassType, PassParts DEF IInv
<1> HIDE DEF q
<1>3. PassesAdvance
  BY <1>1, <1>2, OnePassAdvances
<1>4. QueueAdvances /\ ReceiptsAdvance
  BY <1>0, <1>1 DEF QueueAdvances, ReceiptsAdvance
<1>5. Grows /\ MarksAdvance
  BY <1>1, NothingIsRecorded
<1>6. EarlierAreSettled(k)
  <2> SUFFICES ASSUME NEW j \in Key, j < k PROVE Settled(j)
    BY DEF EarlierAreSettled
  <2>1. j \notin pass[p].todo
    BY <1>0 DEF IsNext, Key
  <2>2. k \in pass[p].todo
    BY <1>0 DEF IsNext
  <2> QED BY <2>1, <2>2 DEF Orderly, OrderInv, PassesAreInOrder
<1>7. ASSUME NEW g \in Handler PROVE RequestAdvances(g)
  <2>1. CASE g = h
    <3>1. handler'[g] = Request("received", k, {}, "none")
      BY <1>0, <1>1, <2>1 DEF IInv, Types
    <3>2. handler'[g].phase = "received" /\ handler'[g].key = k
      BY <3>1, KeyFacts, RequestType
    <3> QED BY <3>2, <1>6 DEF RequestAdvances
  <2>2. CASE g # h
    <3>1. handler'[g] = handler[g]
      BY <1>0, <1>1, <2>2 DEF IInv, Types
    <3> QED BY <3>1, RequestStays
  <2> QED BY <2>1, <2>2
<1> QED BY <1>3, <1>4, <1>5, <1>7 DEF Advances

\* An answer settles its record, or leaves it in the queue.
LEMMA SettleAdvances ==
  ASSUME Orderly, NEW p \in Pass, pass[p].phase = "waiting",
         NEW answer \in Answers, Settle(p, answer),
         answer = "rejected" => Reason(pass[p].key),
         UNCHANGED <<type, refused, old, day>>
  PROVE  /\ Grows /\ MarksAdvance
         /\ QueueAdvances /\ PassesAdvance /\ ReceiptsAdvance
<1>0. IInv
  BY DEF Orderly
<1>1. PICK k \in Key : k = pass[p].key /\ Known(k)
  <2>1. pass[p].key \in Key
    BY <1>0 DEF IInv, PassesHaveRequests
  <2>2. Known(pass[p].key)
    BY <1>0 DEF IInv, PassesHaveRequests, KeysAreKnown
  <2> QED BY <2>1, <2>2
<1> DEFINE r == CASE answer = "ok" -> "SYNCED"
                  [] answer = "already" -> "ALREADY_RECORDED"
                  [] answer = "rejected" -> "REJECTED"
                  [] OTHER -> receipt[k]
<1>2. receipt' = [receipt EXCEPT ![k] = r] /\ (answer = "rejected" => Reason(k))
  BY <1>1 DEF Settle
<1>3. /\ answer \in {"ok", "already", "rejected"} => r # "NONE"
      /\ answer \notin {"ok", "already", "rejected"} => r = receipt[k]
      /\ receipt[k] # "NONE" => r # "NONE"
      /\ r = "REJECTED" => answer = "rejected" \/ receipt[k] = "REJECTED"
  OBVIOUS
<1>4. queue' = IF answer \in {"session", "busy", "unlisted"} THEN queue \cup {k} ELSE queue \ {k}
  BY <1>1 DEF Settle
<1>5. \/ pass' = [pass EXCEPT ![p] = IdlePass]
      \/ /\ answer \in {"ok", "already"}
         /\ pass' = [pass EXCEPT ![p] = Walking(pass[p].todo \ {k}, pass[p].late)]
  BY <1>1 DEF Settle, EndsPass, EndPass, Answers
<1> HIDE DEF r
<1>6. receipt'[k] = r /\ \A j \in Key \ {k} : receipt'[j] = receipt[j]
  BY <1>0, <1>1, <1>2 DEF IInv, Types
<1>7. answer \in {"ok", "already", "rejected"} => Settled(k)'
  BY <1>3, <1>6 DEF Settled
<1>8. Grows /\ MarksAdvance
  BY <1>1, <1>3, <1>6, NothingIsRecorded
<1>9. QueueAdvances
  BY <1>4, <1>7 DEF QueueAdvances, Answers
<1>10. PassesAdvance
  <2>1. CASE pass' = [pass EXCEPT ![p] = IdlePass]
    BY <2>1, <1>0, IdleType, OnePassAdvances
  <2>2. CASE /\ answer \in {"ok", "already"}
             /\ pass' = [pass EXCEPT ![p] = Walking(pass[p].todo \ {k}, pass[p].late)]
    <3>1. pass[p].todo \ {k} \in SUBSET Key /\ pass[p].late \in SUBSET Key
      BY <1>0, PassParts DEF IInv
    <3>2. /\ Walking(pass[p].todo \ {k}, pass[p].late) \in Passes
          /\ Walking(pass[p].todo \ {k}, pass[p].late).todo = pass[p].todo \ {k}
      BY <3>1, WalkingType
    <3> QED BY <2>2, <3>2, <1>0, <1>7, OnePassAdvances
  <2> QED BY <1>5, <2>1, <2>2
<1>11. ReceiptsAdvance
  BY <1>1, <1>2, <1>3, <1>6 DEF ReceiptsAdvance
<1> QED BY <1>8, <1>9, <1>10, <1>11

\* A pass that leaves its request.
LEMMA LeavingAdvances ==
  ASSUME Orderly, NEW h \in Handler, NEW r \in Requests,
         handler' = [handler EXCEPT ![h] = r],
         r.phase # "free" => r.phase = handler[h].phase /\ r.phase # "done" /\ r.key = handler[h].key,
         Grows, MarksAdvance, QueueAdvances, PassesAdvance, ReceiptsAdvance
  PROVE  Advances
<1>1. ASSUME NEW g \in Handler PROVE RequestAdvances(g)
  <2>1. CASE g = h
    <3>1. handler'[g] = r
      BY <2>1 DEF Orderly, IInv, Types
    <3> QED BY <2>1, <3>1 DEF RequestAdvances, Orderly
  <2>2. CASE g # h
    <3>1. handler'[g] = handler[g]
      BY <2>2 DEF Orderly, IInv, Types
    <3> QED BY <3>1, RequestStays
  <2> QED BY <2>1, <2>2
<1> QED BY <1>1 DEF Advances

LEMMA TakeAnswerAdvances ==
  ASSUME Orderly, NEW p \in Pass, TakeAnswer(p)
  PROVE  Advances
<1> DEFINE h == pass[p].handler
           answer == handler[h].answer
<1>1. /\ pass[p].phase = "waiting" /\ handler[h].phase = "done"
      /\ Settle(p, answer)
      /\ handler' = [handler EXCEPT ![h] = Free]
      /\ UNCHANGED <<type, refused, old, day>>
  BY DEF TakeAnswer
<1>2. h \in Handler /\ handler[h].key = pass[p].key /\ pass[p].key \in Key
  BY <1>1 DEF Orderly, IInv, PassesHaveRequests
<1>3. /\ answer \in Answers
      /\ answer = "rejected" => Reason(pass[p].key)
  BY <1>1, <1>2 DEF Orderly, OrderInv, RequestsAreInOrder, RefusalsHaveReasons
<1> HIDE DEF h, answer
<1>4. Grows /\ MarksAdvance /\ QueueAdvances /\ PassesAdvance /\ ReceiptsAdvance
  BY <1>1, <1>3, SettleAdvances
<1> QED BY <1>1, <1>2, <1>4, FreeType, LeavingAdvances

LEMMA NetworkErrorAdvances ==
  ASSUME Orderly, NEW p \in Pass, NetworkError(p)
  PROVE  Advances
<1>1. /\ pass[p].phase = "waiting"
      /\ Settle(p, "busy")
      /\ Unlink(pass[p].handler)
      /\ UNCHANGED <<type, refused, old, day>>
  BY DEF NetworkError
<1>2. PICK h \in Handler : h = pass[p].handler
  BY <1>1, RequestIsOwn DEF Orderly
<1>3. PICK r \in Requests :
           /\ r.phase # "free" => r.phase = handler[h].phase /\ r.phase # "done" /\ r.key = handler[h].key
           /\ handler' = [handler EXCEPT ![h] = r]
  BY <1>1, <1>2, UnlinkOutcome DEF Orderly
<1>4. "busy" \in Answers
  BY DEF Answers
<1>5. Grows /\ MarksAdvance /\ QueueAdvances /\ PassesAdvance /\ ReceiptsAdvance
  BY <1>1, <1>4, SettleAdvances
<1> QED BY <1>3, <1>5, LeavingAdvances

LEMMA KillPassAdvances ==
  ASSUME Orderly, NEW p \in Pass, KillPass(p)
  PROVE  Advances
<1>1. /\ pass' = [pass EXCEPT ![p] = IdlePass]
      /\ UNCHANGED <<type, refused, queue, old, receipt, day>>
  BY DEF KillPass, EndPass, records
<1>2. PassesAdvance
  BY <1>1, IdleType, OnePassAdvances DEF Orderly
<1>3. QueueAdvances /\ ReceiptsAdvance
  BY <1>1 DEF QueueAdvances, ReceiptsAdvance
<1>4. Grows /\ MarksAdvance
  BY <1>1, NothingIsRecorded
<1>5. CASE pass[p].phase # "waiting"
  <2>1. handler' = handler
    BY <1>5 DEF KillPass
  <2> QED BY <2>1, <1>1, <1>2, <1>3, PhoneAdvances
<1>6. CASE pass[p].phase = "waiting"
  <2>1. PICK g \in Handler : g = pass[p].handler
    BY <1>6, RequestIsOwn DEF Orderly
  <2>2. Unlink(g)
    BY <1>6, <2>1 DEF KillPass
  <2>3. PICK r \in Requests :
           /\ r.phase # "free" => r.phase = handler[g].phase /\ r.phase # "done" /\ r.key = handler[g].key
           /\ handler' = [handler EXCEPT ![g] = r]
    BY <2>2, UnlinkOutcome DEF Orderly
  <2> QED BY <2>3, <1>2, <1>3, <1>4, LeavingAdvances
<1> QED BY <1>5, <1>6

LEMMA CrashRequestAdvances ==
  ASSUME Orderly, NEW h \in Handler, CrashRequest(h)
  PROVE  Advances
<1>1. /\ handler' = [handler EXCEPT ![h] = Free]
      /\ UNCHANGED <<type, refused, old, day>>
  BY DEF CrashRequest
<1>2. Grows /\ MarksAdvance /\ QueueAdvances /\ PassesAdvance /\ ReceiptsAdvance
  <2>1. CASE Serves(h) = {}
    <3>1. UNCHANGED <<queue, receipt, pass>>
      BY <2>1 DEF CrashRequest
    <3> QED BY <1>1, <3>1, PhoneIsStill, NothingIsRecorded
  <2>2. CASE Serves(h) # {}
    <3>1. PICK p \in Serves(h) : Settle(p, "busy")
      BY <2>2 DEF CrashRequest
    <3>2. p \in Pass /\ pass[p].phase = "waiting" /\ "busy" \in Answers
      BY <3>1 DEF Serves, Answers
    <3> QED BY <1>1, <3>1, <3>2, SettleAdvances
  <2> QED BY <2>1, <2>2
<1> QED BY <1>1, <1>2, FreeType, LeavingAdvances

-----------------------------------------------------------------------------
(* Why the server refuses a mark *)

LEMMA ReceiptOfSettled ==
  ASSUME Orderly, NEW j \in Key, type[j] \in MarkType, Settled(j), ~Has(Leader, type[j])
  PROVE  j \in old \/ Reason(j)
<1>1. ~Kept(j)
  BY KeptIsKnown, KeyFacts DEF Orderly, Has
<1>2. receipt[j] \in {"NONE", "SYNCED", "ALREADY_RECORDED", "REJECTED"}
  BY DEF Orderly, IInv, Types
<1>3. receipt[j] # "SYNCED" /\ receipt[j] # "ALREADY_RECORDED"
  BY KeyFacts DEF Orderly, IInv, ReceiptsAreEarned, Has
<1> QED BY <1>1, <1>2, <1>3 DEF Settled, Orderly, RefusalsHaveReasons

LEMMA RefusedForArrival ==
  ASSUME Orderly, NEW k \in Key, EarlierAreSettled(k), ~Has(Leader, "ARRIVAL")
  PROVE  NoArrivalBefore(k)
<1>1. day[Leader]["ARRIVAL"] # Elsewhere
  BY PortalQueueAssumption DEF Has, NoMark, Elsewhere
<1>2. ASSUME NEW j \in Key, j < k, type[j] = "ARRIVAL"
      PROVE  j \in Hindered
  <2>1. Settled(j)
    BY <1>2 DEF EarlierAreSettled
  <2>2. j \in old \/ Reason(j)
    BY <1>2, <2>1, ReceiptOfSettled DEF MarkType
  <2> QED BY <1>2, <2>2 DEF Reason, Hindered
<1> QED BY <1>1, <1>2 DEF NoArrivalBefore

LEMMA RefusedForBreak ==
  ASSUME Orderly, NEW k \in Key, type[k] = "BREAK_END", EarlierAreSettled(k), ~Has(Leader, "BREAK_START")
  PROVE  Reason(k)
<1>1. ~Kept(k)
  BY KeptIsKnown, KeyFacts DEF Orderly, IInv, MarksAreSound, Has
<1>2. CASE Has(Leader, "DEPARTURE")
  BY <1>1, <1>2 DEF Reason
<1>3. CASE ~Has(Leader, "DEPARTURE")
  <2>1. ASSUME NEW j \in Key, j < k, type[j] = "BREAK_START"
        PROVE  j \in Hindered \/ NoArrivalBefore(j)
    <3>1. Settled(j)
      BY <2>1 DEF EarlierAreSettled
    <3>2. j \in old \/ Reason(j)
      BY <2>1, <3>1, ReceiptOfSettled DEF MarkType
    <3> QED BY <1>3, <2>1, <3>2 DEF Reason, Hindered
  <2> QED BY <2>1 DEF Reason
<1> QED BY <1>2, <1>3

\* What the check of the assignment refuses has a reason.
LEMMA PrecheckHasReason ==
  ASSUME Orderly, NEW k \in Key, EarlierAreSettled(k), Precheck(type[k]) = "rejected"
  PROVE  Reason(k)
<1>1. \/ type[k] \in {"BREAK_START", "DEPARTURE"} /\ ~Has(Leader, "ARRIVAL")
      \/ type[k] = "BREAK_START" /\ Has(Leader, "DEPARTURE")
      \/ type[k] = "BREAK_END" /\ ~Has(Leader, "BREAK_START")
  BY DEF Precheck
<1>2. CASE type[k] \in {"BREAK_START", "DEPARTURE"} /\ ~Has(Leader, "ARRIVAL")
  BY <1>2, RefusedForArrival DEF Reason
<1>3. CASE type[k] = "BREAK_START" /\ Has(Leader, "DEPARTURE")
  BY <1>3 DEF Reason
<1>4. CASE type[k] = "BREAK_END" /\ ~Has(Leader, "BREAK_START")
  BY <1>4, RefusedForBreak
<1> QED BY <1>1, <1>2, <1>3, <1>4

\* What the transaction refuses has a reason.
LEMMA OutcomeHasReason ==
  ASSUME Orderly, NEW k \in Key, type[k] \in MarkType, EarlierAreSettled(k),
         Outcome(Leader, type[k], k) = "rejected"
  PROVE  Reason(k)
<1>0. k \notin {day[Leader][x] : x \in MarkType}
  BY DEF Outcome
<1>1. /\ type[k] # "ARRIVAL"
      /\ \/ ~Has(Leader, "ARRIVAL")
         \/ type[k] \in {"BREAK_START", "BREAK_END"} /\ Has(Leader, "DEPARTURE")
         \/ type[k] = "BREAK_END" /\ ~Has(Leader, "BREAK_START")
      /\ ~Kept(k)
  <2>1. ~Kept(k)
    BY <1>0 DEF Kept
  <2>2. /\ type[k] # "ARRIVAL"
        /\ \/ ~Has(Leader, "ARRIVAL")
           \/ type[k] \in {"BREAK_START", "BREAK_END"} /\ Has(Leader, "DEPARTURE")
           \/ type[k] = "BREAK_END" /\ ~Has(Leader, "BREAK_START")
    BY <1>0 DEF Outcome, MarkType
  <2> QED BY <2>1, <2>2
<1>2. ~Has(Leader, "ARRIVAL") => ~Has(Leader, "BREAK_START")
  BY DEF Orderly, DayBegins, MarkType
<1>3. CASE type[k] \in {"BREAK_START", "DEPARTURE"} /\ ~Has(Leader, "ARRIVAL")
  BY <1>3, RefusedForArrival DEF Reason
<1>4. CASE type[k] \in {"BREAK_START", "BREAK_END"} /\ Has(Leader, "DEPARTURE")
  BY <1>1, <1>4 DEF Reason
<1>5. CASE type[k] = "BREAK_END" /\ ~Has(Leader, "BREAK_START")
  BY <1>5, RefusedForBreak
<1> QED BY <1>1, <1>2, <1>3, <1>4, <1>5 DEF MarkType

-----------------------------------------------------------------------------
(* Every step of the server advances *)

LEMMA ServerAdvances ==
  ASSUME Orderly, NEW h \in Handler, NEW r, handler' = [handler EXCEPT ![h] = r], RequestAdvances(h),
         Grows, MarksAdvance, UNCHANGED <<queue, receipt, pass>>
  PROVE  Advances
<1>1. ASSUME NEW g \in Handler PROVE RequestAdvances(g)
  <2>1. CASE g # h
    <3>1. handler'[g] = handler[g]
      BY <2>1 DEF Orderly, IInv, Types
    <3> QED BY <3>1, RequestStays
  <2> QED BY <2>1
<1>2. QueueAdvances /\ PassesAdvance /\ ReceiptsAdvance
  BY PhoneIsStill
<1> QED BY <1>1, <1>2 DEF Advances

\* An answer ends a request.
LEMMA ReplyAdvances ==
  ASSUME Orderly, NEW h \in Handler, handler[h].phase # "free", NEW answer \in Answers, Reply(h, answer),
         answer = "rejected" => \A k \in Key : handler[h].key = k => Reason(k) \/ k \in refused',
         Grows, MarksAdvance, UNCHANGED <<queue, receipt, pass>>
  PROVE  Advances
<1>1. PICK r \in Requests :
           /\ handler' = [handler EXCEPT ![h] = r]
           /\ r.phase \in {"free", "done"}
           /\ r.phase # "free" => r.key = handler[h].key /\ r.answer = answer
  BY ReplyOutcome DEF Orderly, Answers
<1>2. handler'[h] = r
  BY <1>1 DEF Orderly, IInv, Types
<1>3. RequestAdvances(h)
  BY <1>1, <1>2 DEF RequestAdvances
<1> QED BY <1>1, <1>3, ServerAdvances

LEMMA EarlierThanRequest ==
  ASSUME Orderly, NEW h \in Handler, handler[h].phase # "free", NEW k \in Key, handler[h].key = k
  PROVE  EarlierAreSettled(k) /\ Known(k) /\ type[k] \in MarkType
BY KeyOfRequest DEF Orderly, OrderInv, RequestsAreInOrder, IInv, KeysAreKnown

LEMMA ReceiveMarkAdvances ==
  ASSUME Orderly, NEW h \in Handler, ReceiveMark(h)
  PROVE  Advances
<1> DEFINE k == handler[h].key
           refusal == IF ~signedIn THEN "session" ELSE Precheck(type[k])
<1>1. /\ handler[h].phase = "received"
      /\ UNCHANGED <<type, refused, queue, old, receipt, pass, day>>
  BY DEF ReceiveMark, records
<1>2. Grows /\ MarksAdvance
  BY <1>1, NothingIsRecorded
<1>3. /\ refusal \in {"none"} \cup Answers
      /\ refusal = "rejected" => Precheck(type[k]) = "rejected"
  BY DEF Precheck, Answers
<1>4. IF refusal = "none" THEN handler' = [handler EXCEPT ![h] = Request("checked", k, {}, handler[h].answer)]
      ELSE Reply(h, refusal)
  BY DEF ReceiveMark
<1> HIDE DEF refusal
<1>5. CASE refusal # "none"
  <2>1. refusal \in Answers
    BY <1>3, <1>5
  <2>2. ASSUME refusal = "rejected", NEW j \in Key, handler[h].key = j
        PROVE  Reason(j)
    <3>1. EarlierAreSettled(j)
      BY <1>1, <2>2, EarlierThanRequest
    <3>2. Precheck(type[j]) = "rejected"
      BY <1>3, <2>2
    <3> QED BY <3>1, <3>2, PrecheckHasReason
  <2>3. Reply(h, refusal)
    BY <1>4, <1>5
  <2> QED BY <1>1, <1>2, <2>1, <2>2, <2>3, ReplyAdvances
<1>6. CASE refusal = "none"
  <2> DEFINE r == Request("checked", k, {}, handler[h].answer)
  <2>1. handler' = [handler EXCEPT ![h] = r]
    BY <1>4, <1>6
  <2>2. r \in Requests /\ r.phase = "checked" /\ r.key = handler[h].key
    BY RequestParts, RequestType DEF Orderly, IInv, Answers
  <2>3. handler'[h] = r
    BY <2>1 DEF Orderly, IInv, Types
  <2> HIDE DEF r
  <2>4. RequestAdvances(h)
    BY <1>1, <2>2, <2>3 DEF RequestAdvances
  <2> QED BY <1>1, <1>2, <2>1, <2>4, ServerAdvances
<1> QED BY <1>5, <1>6

LEMMA RefuseMarkAdvances ==
  ASSUME Orderly, NEW h \in Handler, RefuseMark(h)
  PROVE  Advances
<1>1. /\ handler[h].phase # "free"
      /\ UNCHANGED <<type, queue, old, receipt, pass, day>>
      /\ refused \subseteq refused'
      /\ \A k \in Key : handler[h].key = k => k \in refused'
  BY DEF RefuseMark
<1>2. PICK answer \in {"rejected", "unlisted"} : Reply(h, answer)
  BY PortalQueueAssumption DEF RefuseMark
<1>3. answer \in Answers
  BY DEF Answers
<1>4. Grows /\ MarksAdvance
  BY <1>1, NothingIsRecorded
<1> QED BY <1>1, <1>2, <1>3, <1>4, ReplyAdvances

LEMMA FailRequestAdvances ==
  ASSUME Orderly, NEW h \in Handler, FailRequest(h)
  PROVE  Advances
<1>1. /\ handler[h].phase # "free"
      /\ Reply(h, "busy")
      /\ UNCHANGED <<type, refused, queue, old, receipt, pass, day>>
  BY DEF FailRequest, records
<1>2. "busy" \in Answers
  BY DEF Answers
<1> QED BY <1>1, <1>2, NothingIsRecorded, ReplyAdvances

\* What the transaction asks of the day before it records a mark.
LEMMA RecordedInPlace ==
  ASSUME NEW w \in Workers, NEW t \in MarkType, NEW k, Outcome(w, t, k) = "recorded"
  PROVE  /\ ~Has(w, t)
         /\ t # "ARRIVAL" => Has(w, "ARRIVAL")
         /\ t = "BREAK_END" => ~Has(w, "DEPARTURE")
BY DEF Outcome, MarkType, Has

LEMMA MarkLeaderAdvances ==
  ASSUME Orderly, NEW h \in Handler, MarkLeader(h)
  PROVE  Advances
<1>0. IInv
  BY DEF Orderly
<1>1. PICK k \in Keys : k = handler[h].key /\ type[k] \in MarkType
  BY <1>0, KeyOfRequest DEF MarkLeader
<1> DEFINE t == type[k]
           outcome == Outcome(Leader, t, k)
           crew == Crew(t)
<1>2. /\ handler[h].phase = "checked" /\ Leader \in Workers
      /\ UNCHANGED <<type, refused, queue, old, receipt, pass>>
  BY DEF MarkLeader, records, Workers
<1>3. /\ outcome \in {"recorded", "replayed", "already", "rejected"}
      /\ outcome = "recorded" => ~Has(Leader, t) /\ (t = "BREAK_END" => Has(Leader, "BREAK_START"))
  BY <1>0, <1>1, <1>2, OutcomeFacts
<1>4. /\ IF outcome = "recorded" THEN Record(Leader, t, k) ELSE UNCHANGED day
      /\ outcome \in {"already", "rejected"} => Reply(h, outcome)
      /\ outcome \in {"recorded", "replayed"} /\ crew = {} => Reply(h, "ok")
      /\ outcome \in {"recorded", "replayed"} /\ crew # {} =>
           handler' = [handler EXCEPT ![h] = Request("crew", k, crew, handler[h].answer)]
  BY <1>1, <1>3 DEF MarkLeader
<1>5. k \in Key => EarlierAreSettled(k) /\ Known(k)
  BY <1>1, <1>2, EarlierThanRequest
<1>6. Grows /\ MarksAdvance
  <2>1. CASE outcome = "recorded"
    <3>1. /\ ~Has(Leader, t)
          /\ t # "ARRIVAL" => Has(Leader, "ARRIVAL")
          /\ t = "BREAK_END" => ~Has(Leader, "DEPARTURE")
      BY <1>1, <1>2, <2>1, RecordedInPlace
    <3>2. /\ day'[Leader][t] = k
          /\ \A u \in MarkType : u # t => day'[Leader][u] = day[Leader][u]
      <4>1. Record(Leader, t, k) /\ type' = type
        BY <1>2, <1>4, <2>1
      <4> HIDE DEF outcome
      <4> QED BY <1>0, <1>1, <1>2, <1>3, <2>1, <4>1, RecordOutcome
    <3> HIDE DEF outcome
    <3>3. Grows
      BY <1>1, <1>2, <3>1, <3>2 DEF Grows, Known
    <3>4. MarksAdvance
      BY <1>1, <1>5, <3>1, <3>2 DEF MarksAdvance, Kept
    <3> QED BY <3>3, <3>4
  <2>2. CASE outcome # "recorded"
    BY <1>2, <1>4, <2>2, NothingIsRecorded
  <2> QED BY <2>1, <2>2
<1>7. CASE outcome \in {"already", "rejected"}
  <2>1. ASSUME outcome = "rejected", NEW j \in Key, handler[h].key = j
        PROVE  Reason(j)
    BY <1>1, <1>5, <2>1, OutcomeHasReason
  <2>2. outcome \in Answers
    BY <1>7 DEF Answers
  <2> HIDE DEF outcome
  <2> QED BY <1>2, <1>4, <1>6, <1>7, <2>1, <2>2, ReplyAdvances
<1>8. CASE outcome \in {"recorded", "replayed"}
  <2>1. CASE crew = {}
    <3>1. "ok" \in Answers /\ "ok" # "rejected"
      BY DEF Answers
    <3> QED BY <1>2, <1>4, <1>6, <1>8, <2>1, <3>1, ReplyAdvances
  <2>2. CASE crew # {}
    <3> DEFINE r == Request("crew", k, crew, handler[h].answer)
    <3>1. handler' = [handler EXCEPT ![h] = r]
      BY <1>4, <1>8, <2>2
    <3>2. r \in Requests /\ r.phase = "crew" /\ r.key = handler[h].key
      BY <1>0, <1>1, RequestParts, RequestType DEF IInv, Answers, Crew
    <3>3. handler'[h] = r
      BY <1>0, <3>1 DEF IInv, Types
    <3> HIDE DEF r
    <3>4. RequestAdvances(h)
      BY <1>1, <1>2, <1>5, <3>2, <3>3 DEF RequestAdvances
    <3> QED BY <1>2, <1>6, <3>1, <3>4, ServerAdvances
  <2> QED BY <2>1, <2>2
<1> QED BY <1>3, <1>7, <1>8

LEMMA MarkMemberAdvances ==
  ASSUME Orderly, NEW h \in Handler, NEW m \in Member, MarkMember(h, m)
  PROVE  Advances
<1>0. IInv
  BY DEF Orderly
<1>1. PICK k \in Keys : k = handler[h].key /\ type[k] \in MarkType
  BY <1>0, KeyOfRequest DEF MarkMember
<1> DEFINE t == type[k]
           left == handler[h].todo \ {m}
<1>2. /\ handler[h].phase = "crew"
      /\ UNCHANGED <<type, refused, queue, old, receipt, pass>>
      /\ (Outcome(m, t, k) = "recorded" /\ Record(m, t, k)) \/ UNCHANGED day
      /\ IF left = {} THEN Reply(h, "ok")
         ELSE handler' = [handler EXCEPT ![h] = Request("crew", k, left, handler[h].answer)]
  BY <1>1 DEF MarkMember, records
<1>3. m # Leader
  BY PortalQueueAssumption
<1>4. \A u \in MarkType : day'[Leader][u] = day[Leader][u]
  BY <1>0, <1>2, <1>3 DEF Record, IInv, Types
<1>5. Grows
  BY <1>2, <1>4 DEF Grows, Known
<1>6. MarksAdvance
  BY <1>4 DEF MarksAdvance, Kept
<1>7. CASE left = {}
  <2>1. "ok" \in Answers /\ "ok" # "rejected"
    BY DEF Answers
  <2> QED BY <1>2, <1>5, <1>6, <1>7, <2>1, ReplyAdvances
<1>8. CASE left # {}
  <2> DEFINE r == Request("crew", k, left, handler[h].answer)
  <2>1. handler' = [handler EXCEPT ![h] = r]
    BY <1>2, <1>8
  <2>2. left \in SUBSET Member
    BY <1>0, RequestParts DEF IInv
  <2>3. r.phase = "crew" /\ r.key = handler[h].key
    BY <1>1 DEF Request
  <2>4. handler'[h] = r
    BY <1>0, <2>1 DEF IInv, Types
  <2> HIDE DEF r
  <2>5. RequestAdvances(h)
    BY <1>2, <2>3, <2>4 DEF RequestAdvances, Orderly
  <2> QED BY <1>2, <1>5, <1>6, <2>1, <2>5, ServerAdvances
<1> QED BY <1>7, <1>8

-----------------------------------------------------------------------------
(* The types that IInv does not need *)

Bounds ==
  /\ refused \subseteq Key
  /\ deferred \subseteq queue /\ old \subseteq Key
  /\ \A p \in Pass : pass[p].phase = "waiting" => IsNext(p, pass[p].key)
  /\ day \in [Workers -> [MarkType -> Keys \cup {Elsewhere, NoMark}]]
  /\ signedIn \in BOOLEAN
  /\ faults \in 0 .. MaxFaults

LEMMA TypesAndBounds == TypeOK <=> Types /\ Bounds
<1>1. TypeOK => Types /\ Bounds
  <2> SUFFICES ASSUME TypeOK PROVE Types /\ Bounds
    OBVIOUS
  <2>1. Bounds
    BY DEF TypeOK, Bounds, Workers
  <2>2. day \in [{Leader} \cup Member -> [MarkType -> Int]]
    <3>1. Keys \cup {Elsewhere, NoMark} \subseteq Int
      BY KeyFacts
    <3> QED BY <3>1 DEF TypeOK
  <2> QED BY <2>1, <2>2 DEF TypeOK, Types
<1>2. Types /\ Bounds => TypeOK
  BY DEF TypeOK, Types, Bounds, Workers
<1> QED BY <1>1, <1>2

\* Who waits, waited for the same record, with the same records after it.
WaitsStay ==
  \A p \in Pass : pass'[p].phase = "waiting" =>
    pass[p].phase = "waiting" /\ pass'[p].key = pass[p].key /\ pass'[p].todo = pass[p].todo

LEMMA WaitEnds ==
  ASSUME IInv, NEW p \in Pass, NEW q \in Passes, q.phase # "waiting", pass' = [pass EXCEPT ![p] = q]
  PROVE  WaitsStay
BY DEF IInv, Types, WaitsStay

LEMMA BoundsStay ==
  ASSUME Bounds, deferred' \subseteq queue', WaitsStay,
         UNCHANGED <<refused, old, day, signedIn>>, UNCHANGED faults \/ Fault
  PROVE  Bounds'
<1>1. faults' \in 0 .. MaxFaults
  BY PortalQueueAssumption DEF Bounds, Fault
<1>2. \A p \in Pass : pass'[p].phase = "waiting" => IsNext(p, pass[p].key)'
  BY DEF Bounds, WaitsStay, IsNext
<1> QED BY <1>1, <1>2 DEF Bounds, WaitsStay, IsNext

LEMMA SettleBounds ==
  ASSUME IInv, Bounds, NEW p \in Pass, pass[p].phase = "waiting", NEW answer \in Answers, Settle(p, answer)
  PROVE  deferred' \subseteq queue' /\ WaitsStay
<1>1. deferred' \subseteq queue'
  BY DEF Settle, Bounds
<1>2. CASE EndsPass(answer)
  <2>1. pass' = [pass EXCEPT ![p] = IdlePass]
    BY <1>2 DEF Settle, EndPass
  <2> QED BY <1>1, <2>1, IdleType, WaitEnds
<1>3. CASE ~EndsPass(answer)
  <2>1. pass' = [pass EXCEPT ![p] = Walking(pass[p].todo \ {pass[p].key}, pass[p].late)]
    BY <1>3 DEF Settle
  <2>2. pass[p].todo \ {pass[p].key} \in SUBSET Key /\ pass[p].late \in SUBSET Key
    BY PassParts DEF IInv
  <2> QED BY <1>1, <2>1, <2>2, WalkingType, WaitEnds
<1> QED BY <1>2, <1>3

LEMMA PassBounds ==
  ASSUME Orderly, Bounds, NEW p \in Pass,
         PassStep(p) \/ EarlierDelayPasses(p) \/ NetworkError(p) \/ KillPass(p)
  PROVE  Bounds'
<1>0. IInv
  BY DEF Orderly
<1>1. CASE StartPass(p)
  <2>1. queue \in SUBSET Key /\ deferred \in SUBSET Key
    BY <1>0 DEF IInv, Types
  <2>2. WaitsStay
    BY <1>0, <1>1, <2>1, WalkingType, WaitEnds DEF StartPass
  <2> QED BY <1>1, <2>2, BoundsStay DEF StartPass, records, Bounds
<1>2. CASE PassIsOver(p)
  <2>1. WaitsStay
    BY <1>0, <1>2, IdleType, WaitEnds DEF PassIsOver, EndPass
  <2> QED BY <1>2, <2>1, BoundsStay DEF PassIsOver, records, Bounds
<1>3. CASE ExpireRecord(p)
  <2>1. WaitsStay
    BY <1>0, <1>3, IdleType, WaitEnds DEF ExpireRecord, EndPass
  <2> QED BY <1>3, <2>1, BoundsStay DEF ExpireRecord, Bounds
<1>4. CASE TakeAnswer(p)
  <2>1. pass[p].phase = "waiting" /\ pass[p].handler \in Handler
    BY <1>0, <1>4 DEF TakeAnswer, IInv, PassesHaveRequests
  <2>2. PICK answer \in Answers : Settle(p, answer)
    BY <1>4, <2>1 DEF TakeAnswer, Orderly, OrderInv, RequestsAreInOrder
  <2> QED BY <1>0, <1>4, <2>1, <2>2, SettleBounds, BoundsStay DEF TakeAnswer
<1>5. ASSUME NEW h \in Handler, SendRecord(p, h) PROVE Bounds'
  <2>0. PICK k \in Key :
          /\ IsNext(p, k)
          /\ queue' = queue \cup {k}
          /\ deferred' = deferred \ {k}
          /\ pass' = [pass EXCEPT ![p] = PassIn("waiting", pass[p].todo, pass[p].late, k, h)]
    BY <1>5 DEF SendRecord
  <2>1. UNCHANGED <<refused, old, day, signedIn, faults>>
    BY <1>5 DEF SendRecord
  <2> DEFINE q == PassIn("waiting", pass[p].todo, pass[p].late, k, h)
  <2>2. q \in Passes /\ q.todo = pass[p].todo /\ q.key = k
    BY <1>0, PassType, PassParts DEF IInv
  <2>3. pass' = [pass EXCEPT ![p] = q]
    BY <2>0
  <2> HIDE DEF q
  <2>4. pass'[p] = q /\ \A o \in Pass \ {p} : pass'[o] = pass[o]
    BY <1>0, <2>3 DEF IInv, Types
  <2>5. \A o \in Pass : pass'[o].phase = "waiting" => IsNext(o, pass[o].key)'
    BY <2>0, <2>2, <2>4 DEF Bounds, IsNext
  <2> QED BY <2>0, <2>1, <2>5 DEF Bounds
<1>6. CASE EarlierDelayPasses(p)
  <2>1. PICK k \in pass[p].late : pass' = [pass EXCEPT ![p] = WithoutDelay(pass[p], k)]
    BY <1>6 DEF EarlierDelayPasses
  <2>2. WaitsStay
    BY <1>0, <2>1, WithoutDelayType DEF WaitsStay, IInv, Types
  <2> QED BY <1>6, <2>2, BoundsStay DEF EarlierDelayPasses, records, Bounds
<1>7. CASE NetworkError(p)
  <2>1. "busy" \in Answers
    BY DEF Answers
  <2> QED BY <1>0, <1>7, <2>1, SettleBounds, BoundsStay DEF NetworkError
<1>8. CASE KillPass(p)
  <2>1. WaitsStay
    BY <1>0, <1>8, IdleType, WaitEnds DEF KillPass, EndPass
  <2> QED BY <1>8, <2>1, BoundsStay DEF KillPass, records, Bounds
<1> QED BY <1>1, <1>2, <1>3, <1>4, <1>5, <1>6, <1>7, <1>8 DEF PassStep

\* A mark that is recorded keeps to the keys.
LEMMA RecordBounds ==
  ASSUME Bounds, NEW w \in Workers, NEW t \in MarkType, NEW k \in Keys, Record(w, t, k) \/ UNCHANGED day,
         UNCHANGED <<refused, queue, deferred, old, pass, signedIn, faults>>
  PROVE  Bounds'
<1>1. day' \in [Workers -> [MarkType -> Keys \cup {Elsewhere, NoMark}]]
  BY DEF Bounds, Record
<1> QED BY <1>1 DEF Bounds, IsNext

LEMMA HandlerBounds ==
  ASSUME Orderly, Bounds, NEW h \in Handler,
         HandlerStep(h) \/ TapOnline(h) \/ FailRequest(h) \/ CrashRequest(h)
  PROVE  Bounds'
<1>0. IInv
  BY DEF Orderly
<1>1. UNCHANGED pass => WaitsStay
  BY DEF WaitsStay
<1>2. CASE ReceiveMark(h)
  BY <1>1, <1>2, BoundsStay DEF ReceiveMark, records, Bounds
<1>3. CASE TapOnline(h)
  BY <1>1, <1>3, BoundsStay DEF TapOnline, Bounds
<1>4. CASE FailRequest(h)
  BY <1>1, <1>4, BoundsStay DEF FailRequest, records, Bounds
<1>5. CASE MarkLeader(h)
  <2>1. handler[h].key \in Keys /\ type[handler[h].key] \in MarkType /\ Leader \in Workers
    BY <1>0, <1>5, KeyOfRequest DEF MarkLeader, Workers
  <2>2. Record(Leader, type[handler[h].key], handler[h].key) \/ UNCHANGED day
    BY <1>5 DEF MarkLeader
  <2> QED BY <1>5, <2>1, <2>2, RecordBounds DEF MarkLeader, records
<1>6. ASSUME NEW m \in Member, MarkMember(h, m) PROVE Bounds'
  <2>1. handler[h].key \in Keys /\ type[handler[h].key] \in MarkType /\ m \in Workers
    BY <1>0, <1>6, KeyOfRequest DEF MarkMember, Workers
  <2>2. Record(m, type[handler[h].key], handler[h].key) \/ UNCHANGED day
    BY <1>6 DEF MarkMember
  <2> QED BY <1>6, <2>1, <2>2, RecordBounds DEF MarkMember, records
<1>7. CASE CrashRequest(h)
  <2>1. CASE Serves(h) = {}
    <3>1. UNCHANGED <<queue, deferred, pass>>
      BY <1>7, <2>1 DEF CrashRequest
    <3> QED BY <1>1, <1>7, <3>1, BoundsStay DEF CrashRequest, Bounds
  <2>2. CASE Serves(h) # {}
    <3>1. PICK p \in Serves(h) : Settle(p, "busy")
      BY <1>7, <2>2 DEF CrashRequest
    <3>2. p \in Pass /\ pass[p].phase = "waiting" /\ "busy" \in Answers
      BY <3>1 DEF Serves, Answers
    <3> QED BY <1>0, <1>7, <3>1, <3>2, SettleBounds, BoundsStay DEF CrashRequest
  <2> QED BY <2>1, <2>2
<1>8. CASE RefuseMark(h)
  BY <1>8 DEF RefuseMark, Bounds, IsNext
<1> QED BY <1>2, <1>3, <1>4, <1>5, <1>6, <1>7, <1>8 DEF HandlerStep

LEMMA NextBounds ==
  ASSUME Orderly, Bounds, [Next]_vars
  PROVE  Bounds'
<1>0. IInv /\ (UNCHANGED pass => WaitsStay)
  BY DEF Orderly, WaitsStay
<1>1. CASE QueueMark
  <2>1. PICK k \in Key : queue' = queue \cup {k}
    BY <1>1 DEF QueueMark
  <2>2. UNCHANGED <<refused, deferred, old, pass, day, signedIn, faults>>
    BY <1>1 DEF QueueMark
  <2> QED BY <2>1, <2>2 DEF Bounds, IsNext
<1>2. CASE CleanUpExpiredData
  BY <1>0, <1>2, BoundsStay DEF CleanUpExpiredData, Bounds
<1>3. CASE SessionEnds \/ ReactivateSession
  <2>1. UNCHANGED <<refused, queue, deferred, old, pass, day>> /\ signedIn' \in BOOLEAN
    BY <1>3 DEF SessionEnds, ReactivateSession, records
  <2>2. faults' \in 0 .. MaxFaults
    BY <1>3, PortalQueueAssumption DEF SessionEnds, ReactivateSession, Fault, Bounds
  <2> QED BY <2>1, <2>2 DEF Bounds, IsNext
<1>4. ASSUME NEW k \in Key, Age(k) PROVE Bounds'
  <2>1. old' \subseteq Key /\ UNCHANGED <<refused, queue, deferred, pass, day, signedIn, faults>>
    BY <1>4 DEF Age, Bounds
  <2> QED BY <2>1 DEF Bounds, IsNext
<1>5. ASSUME NEW k \in Key, DelayPasses(k) PROVE Bounds'
  <2>1. WaitsStay
    BY <1>0, <1>5, WithoutDelayType DEF DelayPasses, WaitsStay, IInv
  <2> QED BY <1>5, <2>1, BoundsStay DEF DelayPasses, Bounds
<1>6. CASE UNCHANGED vars
  BY <1>0, <1>6, BoundsStay DEF vars, records, Bounds
<1> QED BY <1>1, <1>2, <1>3, <1>4, <1>5, <1>6, PassBounds, HandlerBounds DEF Next

-----------------------------------------------------------------------------
(* Theorems *)

LEMMA NextIInv == IInv /\ [Next]_vars => IInv'
<1> SUFFICES ASSUME IInv, [Next]_vars PROVE IInv'
  OBVIOUS
<1>1. CASE QueueMark
  BY <1>1, QueueMarkStep
<1>2. CASE CleanUpExpiredData
  BY <1>2, QueueShrinks DEF CleanUpExpiredData
<1>3. CASE SessionEnds \/ ReactivateSession
  BY <1>3, QuietStep DEF SessionEnds, ReactivateSession, records
<1>4. ASSUME NEW k \in Key, Age(k) \/ DelayPasses(k) PROVE IInv'
  <2>1. CASE Age(k)
    BY <2>1, QuietStep DEF Age
  <2>2. CASE DelayPasses(k)
    BY <2>2, DelayPassesStep
  <2> QED BY <1>4, <2>1, <2>2
<1>5. ASSUME NEW p \in Pass, PassStep(p) \/ EarlierDelayPasses(p) \/ NetworkError(p) \/ KillPass(p)
      PROVE  IInv'
  <2>1. CASE PassStep(p)
    BY <2>1, StartPassStep, PassIsOverStep, ExpireRecordStep, TakeAnswerStep, SendRecordStep DEF PassStep
  <2> QED BY <1>5, <2>1, EarlierDelayPassesStep, NetworkErrorStep, KillPassStep
<1>6. ASSUME NEW h \in Handler, HandlerStep(h) \/ TapOnline(h) \/ FailRequest(h) \/ CrashRequest(h)
      PROVE  IInv'
  <2>1. CASE HandlerStep(h)
    BY <2>1, ReceiveMarkStep, RefuseMarkStep, MarkLeaderStep, MarkMemberStep DEF HandlerStep
  <2> QED BY <1>6, <2>1, TapOnlineStep, FailRequestStep, CrashRequestStep
<1>7. CASE UNCHANGED vars
  BY <1>7, QuietStep DEF vars, records
<1> QED BY <1>1, <1>2, <1>3, <1>4, <1>5, <1>6, <1>7 DEF Next

LEMMA NextAdvances == Orderly /\ [Next]_vars => Advances
<1> SUFFICES ASSUME Orderly, [Next]_vars PROVE Advances
  OBVIOUS
<1>1. CASE QueueMark
  BY <1>1, QueueMarkAdvances
<1>2. CASE CleanUpExpiredData
  BY <1>2, CleanUpAdvances
<1>3. CASE SessionEnds \/ ReactivateSession
  BY <1>3, DelayAdvances DEF SessionEnds, ReactivateSession, records
<1>4. ASSUME NEW k \in Key, Age(k) \/ DelayPasses(k) PROVE Advances
  <2>1. CASE Age(k)
    BY <2>1, AgeAdvances
  <2>2. CASE DelayPasses(k)
    <3>1. \A p \in Pass : pass'[p].todo = pass[p].todo
      BY <2>2, WithoutDelayType DEF DelayPasses, Orderly, IInv
    <3> QED BY <2>2, <3>1, DelayAdvances DEF DelayPasses
  <2> QED BY <1>4, <2>1, <2>2
<1>5. ASSUME NEW p \in Pass, PassStep(p) \/ EarlierDelayPasses(p) \/ NetworkError(p) \/ KillPass(p)
      PROVE  Advances
  <2>1. CASE PassStep(p)
    BY <2>1, StartPassAdvances, PassIsOverAdvances, ExpireRecordAdvances, TakeAnswerAdvances, SendRecordAdvances
       DEF PassStep
  <2>2. CASE EarlierDelayPasses(p)
    <3>1. PICK k \in pass[p].late : pass' = [pass EXCEPT ![p] = WithoutDelay(pass[p], k)]
      BY <2>2 DEF EarlierDelayPasses
    <3>2. \A o \in Pass : pass'[o].todo = pass[o].todo
      BY <3>1, WithoutDelayType DEF Orderly, IInv, Types
    <3> QED BY <2>2, <3>2, DelayAdvances DEF EarlierDelayPasses, records
  <2> QED BY <1>5, <2>1, <2>2, NetworkErrorAdvances, KillPassAdvances
<1>6. ASSUME NEW h \in Handler, HandlerStep(h) \/ TapOnline(h) \/ FailRequest(h) \/ CrashRequest(h)
      PROVE  Advances
  <2>1. CASE HandlerStep(h)
    BY <2>1, ReceiveMarkAdvances, RefuseMarkAdvances, MarkLeaderAdvances, MarkMemberAdvances DEF HandlerStep
  <2> QED BY <1>6, <2>1, TapOnlineAdvances, FailRequestAdvances, CrashRequestAdvances
<1>7. CASE UNCHANGED vars
  BY <1>7, DelayAdvances DEF vars, records
<1> QED BY <1>1, <1>2, <1>3, <1>4, <1>5, <1>6, <1>7 DEF Next

LEMMA InitOrderly == Init => Orderly /\ Bounds
<1> SUFFICES ASSUME Init PROVE Orderly /\ Bounds
  OBVIOUS
<1>1. \A w \in Workers, t \in MarkType : day[w][t] = NoMark \/ (t = "ARRIVAL" /\ day[w][t] = Elsewhere)
  BY DEF Init, Workers
<1>2. /\ \A k \in Key : ~Kept(k)
      /\ \A k \in Key : ~Known(k) /\ receipt[k] = "NONE"
      /\ \A h \in Handler : handler[h].phase = "free"
      /\ \A p \in Pass : pass[p].todo = {} /\ pass[p].phase = "idle"
  BY <1>1, KeyFacts, FreeType, IdleType DEF Init, Kept, Known, Workers
<1>3. OrderInv
  BY <1>2 DEF OrderInv, KeysAreInOrder, PassesAreInOrder, RequestsAreInOrder, MarksKeepTheirOrder
<1>4. DayBegins
  BY <1>1, PortalQueueAssumption DEF DayBegins, Has, Workers, NoMark, Elsewhere
<1>5. RefusalsHaveReasons
  BY <1>2 DEF RefusalsHaveReasons
<1>6. Bounds
  <2>1. day \in [Workers -> [MarkType -> Keys \cup {Elsewhere, NoMark}]]
    BY DEF Init, Workers
  <2> QED BY <1>2, <2>1, PortalQueueAssumption DEF Init, Bounds
<1> QED BY <1>3, <1>4, <1>5, <1>6, InitIInv DEF Orderly

\* The inductive invariant: what a pass, a request and a receipt know of the
\* marks of the leader stays true, because marks are not taken back here; a
\* pass, a request and a refusal come after all that was made before.
THEOREM QueueInvariant == Spec => []Inv
<1>1. Init => Orderly /\ Bounds
  BY InitOrderly
<1>2. (Orderly /\ Bounds) /\ [Next]_vars => (Orderly /\ Bounds)'
  <2> SUFFICES ASSUME Orderly, Bounds, [Next]_vars PROVE Orderly' /\ Bounds'
    OBVIOUS
  <2>1. IInv'
    BY NextIInv DEF Orderly
  <2>2. Advances
    BY NextAdvances
  <2> QED BY <2>1, <2>2, OrderStep, RefusalStep, NextBounds DEF Orderly
<1>3. Orderly /\ Bounds => Inv
  BY TypesAndBounds DEF Orderly, IInv, Inv
<1> QED BY <1>1, <1>2, <1>3, PTL DEF Spec

\* A receipt of the phone that says a mark is on the server is true, whatever
\* answers are lost and however passes cross.
THEOREM ReceiptsStayTrue == Spec => []ReceiptsAreTrue
<1>1. Inv => ReceiptsAreTrue
  <2> SUFFICES ASSUME Inv, NEW k \in Key
               PROVE  /\ receipt[k] = "SYNCED" => Kept(k)
                      /\ receipt[k] = "ALREADY_RECORDED" => Has(Leader, type[k])
    BY DEF ReceiptsAreTrue
  <2>1. Known(k) => type[k] \in MarkType
    BY KeyFacts DEF Inv, TypeOK, Known
  <2> QED BY <2>1 DEF Inv, ReceiptsAreEarned, Kept
<1> QED BY <1>1, QueueInvariant, PTL

\* No member of a crew is marked by a request that did not mark the leader.
THEOREM CrewFollowsItsLeader == Spec => []LeadersAreMarkedFirst
<1>1. Inv => LeadersAreMarkedFirst
  BY DEF Inv
<1> QED BY <1>1, QueueInvariant, PTL

\* No mark of the queue overtakes an older one, however many passes walk the
\* queue and however long a request lingers in the server.
THEOREM NoMarkOvertakes == Spec => []MarksKeepTheirOrder
<1>1. Inv => MarksKeepTheirOrder
  BY DEF Inv, OrderInv
<1> QED BY <1>1, QueueInvariant, PTL

\* A mark shown as rejected is on the server only when the conditions of its
\* assignment changed between two of its requests, it grew too old, its break
\* is repeated after the departure, or it does not follow its predecessor in
\* the queue: no loss, repetition or crossing by itself makes a refusal false.
THEOREM RefusalsAreSound == Spec => []RejectedMarksAreNotKept
<1>1. Inv => RejectedMarksAreNotKept
  <2> SUFFICES ASSUME Inv, NEW k \in Key, receipt[k] = "REJECTED", Kept(k), InPlace(type[k])
               PROVE  k \in Hindered \/ (type[k] = "BREAK_START" /\ Has(Leader, "DEPARTURE"))
    BY DEF RejectedMarksAreNotKept
  <2>0. IInv
    BY TypesAndBounds DEF Inv, IInv
  <2>1. Known(k) /\ type[k] \in MarkType /\ day[Leader][type[k]] = k
    BY <2>0, KeptIsKnown
  <2>2. Reason(k)
    BY DEF Inv, RefusalsHaveReasons
  <2>3. ASSUME NEW t \in MarkType, NEW u \in MarkType, CameBefore(t, u), NEW i \in Key, day[Leader][u] = i,
               day[Leader][t] # Elsewhere
        PROVE  \E j \in Key \ Hindered : day[Leader][t] = j /\ j < i /\ type[j] = t
    <3>1. PICK j \in Key \ Hindered : day[Leader][t] = j /\ j < i
      BY <2>3 DEF CameBefore
    <3>2. type[j] = t
      BY <3>1, KeyFacts DEF Inv, MarksAreSound
    <3> QED BY <3>1, <3>2
  <2>4. CASE type[k] \in {"BREAK_START", "DEPARTURE"} /\ NoArrivalBefore(k)
    <3>1. CameBefore("ARRIVAL", type[k]) /\ day[Leader]["ARRIVAL"] # Elsewhere
      BY <2>4 DEF InPlace, NoArrivalBefore
    <3>2. "ARRIVAL" \in MarkType
      BY DEF MarkType
    <3>3. PICK j \in Key \ Hindered : j < k /\ type[j] = "ARRIVAL"
      BY <2>1, <2>3, <3>1, <3>2
    <3> QED BY <2>4, <3>3 DEF NoArrivalBefore
  <2>5. CASE /\ type[k] = "BREAK_END"
             /\ \A j \in Key : j < k /\ type[j] = "BREAK_START" => j \in Hindered \/ NoArrivalBefore(j)
    <3>1. CameBefore("BREAK_START", "BREAK_END") /\ CameBefore("ARRIVAL", "BREAK_START")
      BY <2>5 DEF InPlace
    <3>2. {"ARRIVAL", "BREAK_START", "BREAK_END"} \subseteq MarkType
      BY DEF MarkType
    <3>3. day[Leader]["BREAK_START"] # Elsewhere
      BY DEF Inv, DayBegins, MarkType
    <3>4. PICK j \in Key \ Hindered : /\ day[Leader]["BREAK_START"] = j
                                 /\ j < k /\ type[j] = "BREAK_START"
      BY <2>1, <2>3, <2>5, <3>1, <3>2, <3>3
    <3>5. NoArrivalBefore(j)
      BY <2>5, <3>4
    <3>6. day[Leader]["ARRIVAL"] # Elsewhere
      BY <3>5 DEF NoArrivalBefore
    <3>7. PICK i \in Key \ Hindered : i < j /\ type[i] = "ARRIVAL"
      BY <2>3, <3>1, <3>2, <3>4, <3>6
    <3> QED BY <3>5, <3>7 DEF NoArrivalBefore
  <2> QED BY <2>2, <2>4, <2>5 DEF Reason
<1> QED BY <1>1, QueueInvariant, PTL

=============================================================================

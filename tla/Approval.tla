-------------------------------- MODULE Approval --------------------------------
(***************************************************************************)
(* The approval service: a subscriber that turns a human_review decision   *)
(* into an escalation record and a queue entry, the verdict endpoint that  *)
(* resolves, publishes and dequeues (and rolls back when it cannot         *)
(* publish), and the queue view that evicts what it finds resolved.        *)
(*                                                                         *)
(* The record and the queue index are two keys of the state store, so each *)
(* of the three moves them in two steps and the others run in between.     *)
(* One action is one awaited call.  A compare-and-swap on one key is one   *)
(* action (CasStore shows that it is atomic).                              *)
(***************************************************************************)
EXTENDS Integers, FiniteSetsExt

CONSTANTS
  Handlers,     \* concurrent activations of the subscriber
  Approvers,    \* people who post verdicts, one at a time each
  Viewers,      \* concurrent reads of the queue
  Events,       \* decision-made events
  Invoices,
  Payload,      \* what each event says: see PayloadType
  Verdicts,     \* the verdicts people give
  MaxVerdicts,  \* bound on the number of verdicts posted
  MaxViews,     \* bound on the number of queue views
  FaultKinds,   \* which faults may happen: see AllFaultKinds
  MaxFaults,    \* bound on the number of faults
  None

\* resubmission: the decision on an invoice that was sent back, so it exists
\* only once a needs_info verdict was published.
PayloadType == [invoice : Invoices, review : BOOLEAN, resubmission : BOOLEAN]

\* call: a call on the store raises before it has an effect; broker: a publish
\* does; lost: either raises after its effect; miss: a read of a record that
\* exists finds nothing (the store is eventually consistent); twice: an event is
\* delivered while it is being handled; rollback, mark, forget, crash: see the
\* actions.
AllFaultKinds ==
  {"call", "broker", "lost", "miss", "twice", "rollback", "mark", "forget", "crash"}

ASSUME ApprovalAssumption ==
  /\ Payload \in [Events -> PayloadType]
  /\ Verdicts \subseteq {"approved", "rejected", "needs_info"}
  /\ MaxVerdicts \in Nat
  /\ MaxViews \in Nat
  /\ MaxFaults \in Nat
  /\ FaultKinds \subseteq AllFaultKinds
  /\ Handlers \cap Approvers = {}
  /\ Handlers \cap Viewers = {}
  /\ Approvers \cap Viewers = {}
  /\ None \notin Events \cup Invoices \cup Approvers

Workers == Handlers \cup Approvers \cup Viewers

Final == {"approved", "rejected"}
Statuses == {"pending", "needs_info"} \cup Final

\* An escalation: its status, the event its decision fields come from, and who
\* resolved it.
Escalation == [status : Statuses, review : Events, by : Approvers \cup {None}]

\* What an approver asked for and the review it settled.
Request == [invoice : Invoices, verdict : Verdicts, review : Events \cup {None}]

Resolution == [invoice : Invoices, verdict : Verdicts, review : Events, by : Approvers]

ASSUME SentinelAssumption == None \notin Escalation /\ None \notin Request

VARIABLES
  unsent,      \* events that do not exist yet
  unacked,     \* events the broker still has to deliver (again)
  processed,   \* dedupe marks, processed:{event_id}
  escalation,  \* escalation:{invoice_id}, None if absent
  queue,       \* queue:pending, the ids in it
  published,   \* approval-resolved events sent
  accepted,    \* history: verdicts the caller got a 200 for
  overtaken,   \* history: calls an invoice became pending under, see Overtake
  pc,          \* the next call of every worker
  event,       \* the event of each handler
  request,     \* the request of each approver
  todo,        \* the ids each queue view has still to read
  target,      \* the id each queue view is about to evict
  posted,      \* verdicts posted so far
  views,       \* views of the queue so far
  faults       \* faults so far, by kind

stores  == <<processed, escalation, queue>>
broker  == <<unsent, unacked>>
locals  == <<event, request, todo, target>>
history == <<accepted, overtaken>>
vars    == <<broker, stores, published, history, pc, locals, posted, views, faults>>

HandlerPcs  == {"first_time", "save_new", "inspect", "reopen", "add", "ack", "forget"}
ApproverPcs == {"resolve", "publish", "revert", "requeue", "dequeue"}
ViewerPcs   == {"read", "evict"}

\* The calls that act on a review which their worker found settled.
SettledPcs == {"publish", "revert", "dequeue", "evict"}

TypeOK ==
  /\ unsent \in SUBSET Events /\ unacked \in SUBSET Events
  /\ processed \in SUBSET Events
  /\ escalation \in [Invoices -> Escalation \cup {None}]
  /\ queue \in SUBSET Invoices
  /\ published \in SUBSET Resolution /\ accepted \in SUBSET Resolution
  /\ overtaken \in [Invoices -> SUBSET SettledPcs]
  /\ pc \in [Workers -> {"idle"} \cup HandlerPcs \cup ApproverPcs \cup ViewerPcs]
  /\ event \in [Handlers -> Events \cup {None}]
  /\ request \in [Approvers -> Request \cup {None}]
  /\ todo \in [Viewers -> SUBSET Invoices]
  /\ target \in [Viewers -> Invoices \cup {None}]
  /\ posted \in 0 .. MaxVerdicts /\ views \in 0 .. MaxViews
  /\ faults \in [AllFaultKinds -> 0 .. MaxFaults]

\* Nothing was handled yet.
Fresh ==
  /\ processed  = {}
  /\ escalation = [i \in Invoices |-> None]
  /\ queue      = {}
  /\ published  = {} /\ accepted = {}
  /\ overtaken  = [i \in Invoices |-> {}]
  /\ pc         = [w \in Workers |-> "idle"]
  /\ event      = [h \in Handlers |-> None]
  /\ request    = [a \in Approvers |-> None]
  /\ todo       = [v \in Viewers |-> {}]
  /\ target     = [v \in Viewers |-> None]
  /\ posted     = 0 /\ views = 0
  /\ faults     = [kind \in AllFaultKinds |-> 0]

Init ==
  /\ unsent  = {e \in Events : Payload[e].resubmission}
  /\ unacked = Events \ unsent
  /\ Fresh

Goto(w, next) == pc' = [pc EXCEPT ![w] = next]

Fault(kind) ==
  /\ kind \in FaultKinds
  /\ MapThenSumSet(LAMBDA k : faults[k], AllFaultKinds) < MaxFaults
  /\ faults' = [faults EXCEPT ![kind] = @ + 1]

\* A fault of one of the kinds happened.
Suffered(kinds) == \E kind \in kinds : faults[kind] > 0

HasStatus(i, statuses) == escalation[i] # None /\ escalation[i].status \in statuses

\* A get of the escalation of i returns record.
Finds(i, record) ==
  \/ record = escalation[i] /\ UNCHANGED faults
  \/ record = None /\ escalation[i] # None /\ Fault("miss")

\* Calls that are about to be made for invoice i by workers that found it settled.
CallsOn(i) ==
  LET approvers == {a \in Approvers : request[a] # None /\ request[a].invoice = i}
      viewers   == {v \in Viewers : target[v] = i}
  IN {pc[w] : w \in approvers \cup viewers} \cap SettledPcs

\* Invoice i becomes pending again under those who make the calls.
Overtake(i, calls) == overtaken' = [overtaken EXCEPT ![i] = @ \cup calls]

--------------------------------------------------------------------------------
\* on_decision_made: the subscriber.

Subject(h) == Payload[event[h]].invoice

\* The handler leaves, whatever it answered.
Leave(h) ==
  /\ Goto(h, "idle")
  /\ event' = [event EXCEPT ![h] = None]
  /\ UNCHANGED <<request, todo, target>>

\* Only human_review needs a human; the rest is acknowledged unmarked.
Filter(e) ==
  /\ e \in unacked
  /\ ~Payload[e].review
  /\ unacked' = unacked \ {e}
  /\ UNCHANGED <<unsent, stores, published, history, pc, locals, posted, views, faults>>

Deliver(h, e) ==
  /\ pc[h] = "idle"
  /\ e \in unacked
  /\ Payload[e].review
  /\ IF \E g \in Handlers : event[g] = e THEN Fault("twice") ELSE UNCHANGED faults
  /\ Goto(h, "first_time")
  /\ event' = [event EXCEPT ![h] = e]
  /\ UNCHANGED <<broker, stores, published, history, request, todo, target, posted, views>>

FirstTime(h) ==
  /\ pc[h] = "first_time"
  /\ Goto(h, IF event[h] \in processed THEN "ack" ELSE "save_new")
  /\ processed' = processed \cup {event[h]}
  /\ UNCHANGED <<broker, escalation, queue, published, history, locals, posted, views, faults>>

\* Register the escalation unless the invoice has one.
SaveNew(h) ==
  /\ pc[h] = "save_new"
  /\ \/ /\ escalation[Subject(h)] = None
        /\ escalation' = [escalation EXCEPT ![Subject(h)] =
             [status |-> "pending", review |-> event[h], by |-> None]]
        /\ Goto(h, "add")
     \/ /\ escalation[Subject(h)] # None
        /\ UNCHANGED escalation
        /\ Goto(h, "inspect")
  /\ UNCHANGED <<broker, processed, queue, published, history, locals, posted, views, faults>>

\* Mutant: an escalation that exists is acknowledged, queued or not.
AfterInspectAcks(record) ==
  IF record # None /\ record.status = "needs_info" THEN "reopen" ELSE "ack"

\* Mutant: a resubmission is not told from a review that is over.
AfterInspectFreezes(record) ==
  IF record # None /\ record.status = "pending" THEN "add" ELSE "ack"

AfterInspect(record) ==
  IF record = None THEN "ack"
  ELSE IF record.status = "pending" THEN "add"
  ELSE IF record.status = "needs_info" THEN "reopen" ELSE "ack"

\* Read the escalation that exists already.
Inspect(h) ==
  /\ pc[h] = "inspect"
  /\ \E record \in {escalation[Subject(h)], None} :
       Finds(Subject(h), record) /\ Goto(h, AfterInspect(record))
  /\ UNCHANGED <<broker, stores, published, history, locals, posted, views>>

\* Flip needs_info back to pending with the fields of this decision, unless the
\* record moved on since it was read.
Reopen(h) ==
  /\ pc[h] = "reopen"
  /\ \/ /\ HasStatus(Subject(h), {"needs_info"})
        /\ escalation' = [escalation EXCEPT ![Subject(h)] =
             [status |-> "pending", review |-> event[h], by |-> None]]
        /\ Overtake(Subject(h), CallsOn(Subject(h)))
        /\ Goto(h, "add")
     \/ /\ ~HasStatus(Subject(h), {"needs_info"})
        /\ UNCHANGED <<escalation, overtaken>>
        /\ Goto(h, "ack")
  /\ UNCHANGED <<broker, processed, queue, published, accepted, locals, posted, views, faults>>

Add(h) ==
  /\ pc[h] = "add"
  /\ queue' = queue \cup {Subject(h)}
  /\ Goto(h, "ack")
  /\ UNCHANGED <<broker, processed, escalation, published, history, locals, posted, views, faults>>

Ack(h) ==
  /\ pc[h] = "ack"
  /\ unacked' = unacked \ {event[h]}
  /\ Leave(h)
  /\ UNCHANGED <<unsent, stores, published, history, posted, views, faults>>

\* _compensate_forget, then the error the broker answers with a redelivery.
Forget(h) ==
  /\ pc[h] = "forget"
  /\ processed' = processed \ {event[h]}
  /\ Leave(h)
  /\ UNCHANGED <<broker, escalation, queue, published, history, posted, views, faults>>

--------------------------------------------------------------------------------
\* submit_verdict: the endpoint.

Invoice(a) == request[a].invoice

\* The endpoint answers; `ok` if it is the 200.
Answer(a, ok) ==
  /\ Goto(a, "idle")
  /\ request' = [request EXCEPT ![a] = None]
  /\ accepted' = IF ok
                 THEN accepted \cup
                      {[invoice |-> Invoice(a), verdict |-> request[a].verdict,
                        review |-> request[a].review, by |-> a]}
                 ELSE accepted
  /\ UNCHANGED <<overtaken, event, todo, target>>

Post(a, i, verdict) ==
  /\ pc[a] = "idle"
  /\ posted < MaxVerdicts
  /\ posted' = posted + 1
  /\ Goto(a, "resolve")
  /\ request' = [request EXCEPT ![a] =
       [invoice |-> i, verdict |-> verdict, review |-> None]]
  /\ UNCHANGED <<broker, stores, published, history, event, todo, target, views, faults>>

\* Mutant: a verdict is accepted on a review that is over.
OpenForAnyone(i) == escalation[i] # None

OpenForVerdict(i) == HasStatus(i, {"pending"})

\* The compare-and-swap of the verdict.
Settle(a) ==
  /\ escalation' = [escalation EXCEPT ![Invoice(a)] =
       [@ EXCEPT !.status = request[a].verdict, !.by = a]]
  /\ UNCHANGED <<processed, queue>>

\* What is published comes from the record as it was settled.
Noted(req, record) == [req EXCEPT !.review = record.review]

\* The first approver to find the escalation pending settles it; the others
\* get a 409, and a 404 answers an unknown invoice.
Resolve(a) ==
  /\ pc[a] = "resolve"
  /\ \/ /\ ~OpenForVerdict(Invoice(a))
        /\ Answer(a, FALSE)
        /\ UNCHANGED stores
     \/ /\ OpenForVerdict(Invoice(a))
        /\ Settle(a)
        /\ Goto(a, "publish")
        /\ request' = [request EXCEPT ![a] = Noted(@, escalation[Invoice(a)])]
        /\ UNCHANGED <<history, event, todo, target>>
  /\ UNCHANGED <<broker, published, posted, views, faults>>

Sent(a) == published' = published \cup
  {[invoice |-> Invoice(a), verdict |-> request[a].verdict,
    review |-> request[a].review, by |-> a]}

Publish(a) ==
  /\ pc[a] = "publish"
  /\ Sent(a)
  /\ Goto(a, "dequeue")
  /\ UNCHANGED <<broker, stores, history, locals, posted, views, faults>>

Dequeue(a) ==
  /\ pc[a] = "dequeue"
  /\ queue' = queue \ {Invoice(a)}
  /\ Answer(a, TRUE)
  /\ UNCHANGED <<broker, processed, escalation, published, posted, views, faults>>

\* Roll back: the escalation becomes pending, whatever it is now.
Revert(a) ==
  /\ pc[a] = "revert"
  /\ escalation' = [escalation EXCEPT ![Invoice(a)] =
       [@ EXCEPT !.status = "pending", !.by = None]]
  /\ Overtake(Invoice(a), CallsOn(Invoice(a)) \ {"revert"})
  /\ Goto(a, "requeue")
  /\ UNCHANGED <<broker, processed, queue, published, accepted, locals, posted, views, faults>>

\* The end of the rollback, answered by a 503.
Requeue(a) ==
  /\ pc[a] = "requeue"
  /\ queue' = queue \cup {Invoice(a)}
  /\ Answer(a, FALSE)
  /\ UNCHANGED <<broker, processed, escalation, published, posted, views, faults>>

--------------------------------------------------------------------------------
\* get_queue: the self-healing view.

ListQueue(v) ==
  /\ pc[v] = "idle"
  /\ queue # {}
  /\ views < MaxViews
  /\ views' = views + 1
  /\ todo' = [todo EXCEPT ![v] = queue]
  /\ Goto(v, "read")
  /\ UNCHANGED <<broker, stores, published, history, event, request, target, posted, faults>>

\* Only a record that reads back as resolved is evicted.
Evictable(record) == record # None /\ record.status # "pending"

\* Read one record of the list; what is pending is shown, what cannot be read
\* is skipped, what is resolved is evicted next.
Read(v) ==
  /\ pc[v] = "read"
  /\ \E i \in todo[v] : \E record \in {escalation[i], None} :
       /\ Finds(i, record)
       /\ todo' = [todo EXCEPT ![v] = @ \ {i}]
       /\ \/ /\ Evictable(record)
             /\ target' = [target EXCEPT ![v] = i]
             /\ Goto(v, "evict")
          \/ /\ ~Evictable(record)
             /\ UNCHANGED target
             /\ Goto(v, IF todo[v] = {i} THEN "idle" ELSE "read")
  /\ UNCHANGED <<broker, stores, published, history, event, request, posted, views>>

Evict(v) ==
  /\ pc[v] = "evict"
  /\ queue' = queue \ {target[v]}
  /\ target' = [target EXCEPT ![v] = None]
  /\ Goto(v, IF todo[v] = {} THEN "idle" ELSE "read")
  /\ UNCHANGED <<broker, processed, escalation, published, history, event, request, todo,
                 posted, views, faults>>

--------------------------------------------------------------------------------
\* The environment: an invoice sent back is resubmitted and decided again.
Resubmit(e) ==
  /\ e \in unsent
  /\ \E r \in published : r.invoice = Payload[e].invoice /\ r.verdict = "needs_info"
  /\ unsent'  = unsent \ {e}
  /\ unacked' = unacked \cup {e}
  /\ UNCHANGED <<stores, published, history, pc, locals, posted, views, faults>>

--------------------------------------------------------------------------------
\* Faults.

\* A call of the subscriber raises.  (A call whose answer is lost is the call's
\* own action followed by this one.)
Raise(h) ==
  /\ pc[h] \in {"save_new", "inspect", "reopen", "add"}
  /\ Fault("call")
  /\ Goto(h, "forget")
  /\ UNCHANGED <<broker, stores, published, history, locals, posted, views>>

\* first_time() itself raises, outside the try block.
RaiseInFirstTime(h) ==
  /\ pc[h] = "first_time"
  /\ Fault("mark")
  /\ processed' \in {processed, processed \cup {event[h]}}
  /\ Leave(h)
  /\ UNCHANGED <<broker, escalation, queue, published, history, posted, views>>

\* forget() raises too, is logged, and the mark persists.
ForgetFails(h) ==
  /\ pc[h] = "forget"
  /\ Fault("forget")
  /\ Leave(h)
  /\ UNCHANGED <<broker, stores, published, history, posted, views>>

\* The store fails under the verdict: a 500, with the verdict saved or not (and
\* a 404, if the record cannot be read).
ResolveFails(a) ==
  /\ pc[a] = "resolve"
  /\ \/ Fault("call") /\ UNCHANGED stores
     \/ Fault("lost") /\ OpenForVerdict(Invoice(a)) /\ Settle(a)
  /\ Answer(a, FALSE)
  /\ UNCHANGED <<broker, published, posted, views>>

\* Mutant: the rollback is forgotten, the approver posts again.
PublishFailsForGood(a) ==
  /\ pc[a] = "publish"
  /\ \/ Fault("broker") /\ UNCHANGED published
     \/ Fault("lost") /\ Sent(a)
  /\ Answer(a, FALSE)
  /\ UNCHANGED <<broker, stores, posted, views>>

\* The broker cannot be reached, or took the event and the answer got lost.
PublishFails(a) ==
  /\ pc[a] = "publish"
  /\ \/ Fault("broker") /\ UNCHANGED published
     \/ Fault("lost") /\ Sent(a)
  /\ Goto(a, "revert")
  /\ UNCHANGED <<broker, stores, history, locals, posted, views>>

\* The rollback fails: a critical log line and a 500.
RollbackFails(a) ==
  /\ pc[a] \in {"revert", "requeue"}
  /\ Fault("rollback")
  /\ Answer(a, FALSE)
  /\ UNCHANGED <<broker, stores, published, posted, views>>

\* Dequeuing fails after the verdict was delivered: still the 200.
DequeueFails(a) ==
  /\ pc[a] = "dequeue"
  /\ Fault("call")
  /\ Answer(a, TRUE)
  /\ UNCHANGED <<broker, stores, published, posted, views>>

\* A read of the queue view fails.
ViewFails(v) ==
  /\ pc[v] \in ViewerPcs
  /\ Fault("call")
  /\ Goto(v, "idle")
  /\ todo'   = [todo EXCEPT ![v] = {}]
  /\ target' = [target EXCEPT ![v] = None]
  /\ UNCHANGED <<broker, stores, published, history, event, request, posted, views>>

\* The process dies: the stores and the broker stay.
Crash ==
  /\ \E w \in Workers : pc[w] # "idle"
  /\ Fault("crash")
  /\ pc'      = [w \in Workers |-> "idle"]
  /\ event'   = [h \in Handlers |-> None]
  /\ request' = [a \in Approvers |-> None]
  /\ todo'    = [v \in Viewers |-> {}]
  /\ target'  = [v \in Viewers |-> None]
  /\ UNCHANGED <<broker, stores, published, history, posted, views>>

--------------------------------------------------------------------------------
Subscriber(h) ==
  FirstTime(h) \/ SaveNew(h) \/ Inspect(h) \/ Reopen(h) \/ Add(h) \/ Ack(h) \/ Forget(h)

Endpoint(a) == Resolve(a) \/ Publish(a) \/ Dequeue(a) \/ Revert(a) \/ Requeue(a)

Next ==
  \/ \E e \in Events : Filter(e) \/ Resubmit(e)
  \/ \E h \in Handlers, e \in Events : Deliver(h, e)
  \/ \E h \in Handlers : Subscriber(h)
  \/ \E a \in Approvers, i \in Invoices, verdict \in Verdicts : Post(a, i, verdict)
  \/ \E a \in Approvers : Endpoint(a)
  \/ \E v \in Viewers : ListQueue(v) \/ Read(v) \/ Evict(v)
  \/ \E h \in Handlers : Raise(h) \/ RaiseInFirstTime(h) \/ ForgetFails(h)
  \/ \E a \in Approvers :
       ResolveFails(a) \/ PublishFails(a) \/ RollbackFails(a) \/ DequeueFails(a)
  \/ \E v \in Viewers : ViewFails(v)
  \/ Crash

Spec == Init /\ [][Next]_vars

\* The event loop resumes every handler and every request, and the broker
\* delivers what is unacknowledged as long as a worker is free.  Nobody has to
\* post a verdict, look at the queue or resubmit.
Fairness ==
  /\ \A h \in Handlers : WF_vars(Subscriber(h))
  /\ \A a \in Approvers : WF_vars(Endpoint(a))
  /\ \A e \in Events : WF_vars(Filter(e)) /\ WF_vars(\E h \in Handlers : Deliver(h, e))

FairSpec == Spec /\ Fairness

--------------------------------------------------------------------------------
\* Properties.

AtRest == unacked = {} /\ \A w \in Workers : pc[w] = "idle"

\* Once nothing is in flight, an escalation that waits for a verdict is in the
\* queue: a pending one that is not is "invisible to approvers, forever"
\* (api.py:36-40).
NeverInvisible ==
  AtRest => \A i \in Invoices : HasStatus(i, {"pending"}) => i \in queue

\* No failing call or compensation makes the service forget an event it must
\* handle again, or what it was about to put back: forget() and the rollback get
\* through, and the process does not die; and where a call of the subscriber
\* raises, the redelivery is not acknowledged for another reason.
NothingForgotten ==
  /\ ~Suffered({"forget", "crash", "rollback"})
  /\ ~(Suffered({"call"}) /\ Suffered({"mark", "miss", "twice"}))

\* So it is, for every invoice that did not become pending again while a verdict
\* on it was still being answered, or while a view was about to evict it.
PendingIsQueued ==
  AtRest /\ NothingForgotten =>
    \A i \in Invoices :
      HasStatus(i, {"pending"}) /\ overtaken[i] = {} => i \in queue

\* Once nothing is in flight, a settled escalation was published as it stands:
\* "resolved-but-unpublished is the invoice-hangs-forever failure" (api.py:41-43).
\* (A resolve() that commits and raises leaves the endpoint before the publish, and
\* so does the process when it dies; a rollback that fails is logged as critical.)
ResolvedIsPublished ==
  AtRest /\ ~Suffered({"lost", "rollback", "crash"}) =>
    \A i \in Invoices : HasStatus(i, Statuses \ {"pending"}) =>
      [invoice |-> i, verdict |-> escalation[i].status,
       review |-> escalation[i].review, by |-> escalation[i].by] \in published

\* revert() asks neither for the status nor for who resolved: the record it finds
\* is the approver's own unless the invoice was reopened while the publish of the
\* verdict that sent it back was under way.
Undisturbed(i) == overtaken[i] \cap {"publish", "revert"} = {}

\* One review gets one approval or rejection, however many approvers race for
\* it: no two answers of 200, and nobody else is told both (api.py:18-26, M10
\* applied to people).  (Others are told of a verdict that is rolled back when the
\* broker took an event whose publish raised.)
OneVerdictPerReview ==
  /\ \A r1, r2 \in accepted :
       (/\ r1.review = r2.review
        /\ {r1.verdict, r2.verdict} \subseteq Final
        /\ Undisturbed(r1.invoice)) => r1 = r2
  /\ ~Suffered({"lost"}) =>
       \A r1, r2 \in published :
         (/\ r1.review = r2.review
          /\ {r1.verdict, r2.verdict} \subseteq Final
          /\ Undisturbed(r1.invoice)) => r1 = r2

\* An approval or a rejection is only ever taken back by the rollback of the
\* very approver who gave it (subscriptions.py:56-57).
OnlyOwnRollback ==
  [][\A i \in Invoices :
       HasStatus(i, Final) /\ escalation'[i] # escalation[i] /\ Undisturbed(i) =>
         \E a \in Approvers : /\ pc[a] = "revert"
                              /\ Invoice(a) = i
                              /\ escalation[i].by = a]_vars

\* An invoice that was sent back and decided again is reviewed again: it is
\* never frozen in needs_info (subscriptions.py:42-50), and no failing publish or
\* rollback changes that.  (A subscriber that acknowledges without adopting the
\* decision does: its mark outlived it, another delivery is in flight, its read
\* missed the record, or the first decision was delivered again and reopened the
\* review before the new one did.)
EventuallyReopened ==
  []~Suffered(AllFaultKinds \ {"broker", "rollback"}) =>
    \A e \in Events : Payload[e].resubmission =>
      (e \in unacked ~> LET i == Payload[e].invoice
                        IN  ~HasStatus(i, {"needs_info"}) \/ escalation[i].review = e)
================================================================================

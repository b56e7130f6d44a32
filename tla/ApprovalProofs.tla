----------------------------- MODULE ApprovalProofs -----------------------------
(***************************************************************************)
(* What holds of Approval for any number of handlers, approvers, views,    *)
(* events, invoices, verdicts and faults, and for every payload.           *)
(***************************************************************************)
EXTENDS Approval, Sums

--------------------------------------------------------------------------------
(* Type correctness.  Beside the types, a worker in flight has the locals    *)
(* its next call needs, and a review is about the invoice of its event.      *)

Published(a) ==
  [invoice |-> Invoice(a), verdict |-> request[a].verdict,
   review |-> request[a].review, by |-> a]

HandlerTyped(h) ==
  /\ pc[h] \in {"idle"} \cup HandlerPcs
  /\ pc[h] = "idle" => event[h] = None
  /\ pc[h] # "idle" => event[h] \in Events

\* Past resolve() an approver holds the review that was settled.
ApproverTyped(a) ==
  /\ pc[a] \in {"idle"} \cup ApproverPcs
  /\ pc[a] = "idle" => request[a] = None
  /\ pc[a] # "idle" => request[a] \in Request
  /\ pc[a] \in {"publish", "revert", "requeue", "dequeue"} =>
       /\ request[a].review \in Events
       /\ Payload[request[a].review].invoice = Invoice(a)
       /\ escalation[Invoice(a)] # None

ViewerTyped(v) ==
  /\ pc[v] \in {"idle"} \cup ViewerPcs
  /\ pc[v] = "evict" <=> target[v] # None

ReviewsOwn(i) == escalation[i] # None => Payload[escalation[i].review].invoice = i

LocalInv ==
  /\ \A h \in Handlers : HandlerTyped(h)
  /\ \A a \in Approvers : ApproverTyped(a)
  /\ \A v \in Viewers : ViewerTyped(v)
  /\ \A i \in Invoices : ReviewsOwn(i)

TypeInv == TypeOK /\ LocalInv

\* The workers' kinds do not overlap, and no worker is a sentinel.
LEMMA WorkersApart ==
  /\ \A h \in Handlers : h \in Workers /\ h \notin Approvers /\ h \notin Viewers
  /\ \A a \in Approvers : a \in Workers /\ a \notin Handlers /\ a \notin Viewers
  /\ \A v \in Viewers : v \in Workers /\ v \notin Handlers /\ v \notin Approvers
  /\ \A a \in Approvers : a # None
  /\ \A e \in Events : e # None
  /\ \A i \in Invoices : i # None
BY ApprovalAssumption DEF Workers

\* What an event says.
LEMMA PayloadTyped ==
  \A e \in Events : Payload[e] \in PayloadType /\ Payload[e].invoice \in Invoices
BY ApprovalAssumption DEF PayloadType

LEMMA HandlerLocals ==
  ASSUME TypeInv, NEW h \in Handlers, pc[h] # "idle"
  PROVE  event[h] \in Events /\ Subject(h) \in Invoices
BY PayloadTyped DEF TypeInv, LocalInv, HandlerTyped, Subject

LEMMA ApproverLocals ==
  ASSUME TypeInv, NEW a \in Approvers, pc[a] # "idle"
  PROVE  /\ request[a] \in Request
         /\ Invoice(a) \in Invoices
         /\ request[a].verdict \in Verdicts
         /\ request[a].verdict \in {"approved", "rejected", "needs_info"}
BY ApprovalAssumption DEF TypeInv, LocalInv, ApproverTyped, Request, Invoice

\* The faults are counted up to their bound.
LEMMA FaultCounted ==
  ASSUME faults \in [AllFaultKinds -> 0 .. MaxFaults], NEW kind, Fault(kind)
  PROVE  /\ faults' \in [AllFaultKinds -> 0 .. MaxFaults]
         /\ kind \in AllFaultKinds
         /\ faults' = [faults EXCEPT ![kind] = @ + 1]
         /\ \A k \in AllFaultKinds : faults[k] > 0 => faults'[k] > 0
         /\ faults'[kind] > 0
<1>1. kind \in AllFaultKinds /\ faults' = [faults EXCEPT ![kind] = @ + 1]
  BY ApprovalAssumption DEF Fault
<1>2. SumFunctionOnSet(faults, AllFaultKinds) < MaxFaults
  BY SumOfValues DEF Fault
<1>3. IsFiniteSet(AllFaultKinds)
  <2>1. AllFaultKinds = {"call", "broker", "lost"} \cup
                        ({"miss", "twice", "rollback"} \cup {"mark", "forget", "crash"})
    BY DEF AllFaultKinds
  <2>2. \A x, y, z : IsFiniteSet({x, y, z})
    <3> SUFFICES ASSUME NEW x, NEW y, NEW z PROVE IsFiniteSet({x, y, z})
      OBVIOUS
    <3>1. IsFiniteSet({x} \cup ({y} \cup {z}))
      BY FS_Singleton, FS_Union
    <3>2. {x, y, z} = {x} \cup ({y} \cup {z})
      OBVIOUS
    <3>3. QED
      BY <3>1, <3>2
  <2>3. IsFiniteSet({"miss", "twice", "rollback"} \cup {"mark", "forget", "crash"})
    BY <2>2, FS_Union
  <2>4. QED
    BY <2>1, <2>2, <2>3, FS_Union
<1>4. \A k \in AllFaultKinds : faults[k] \in Nat
  OBVIOUS
<1>5. faults[kind] <= SumFunctionOnSet(faults, AllFaultKinds)
  BY <1>1, <1>3, <1>4, SumBoundsEach
<1>6. SumFunctionOnSet(faults, AllFaultKinds) \in Int /\ MaxFaults \in Nat
  BY <1>3, <1>4, SumTyped, ApprovalAssumption
<1>7. faults[kind] + 1 \in 0 .. MaxFaults
  BY <1>1, <1>2, <1>4, <1>5, <1>6
<1>8. QED
  BY <1>1, <1>7

\* Nothing that failed is forgotten.
LEMMA FaultsStay ==
  ASSUME TypeOK, [Next]_vars
  PROVE  /\ faults' \in [AllFaultKinds -> 0 .. MaxFaults]
         /\ \A k \in AllFaultKinds : faults[k] > 0 => faults'[k] > 0
<1>1. CASE UNCHANGED faults
  BY <1>1 DEF TypeOK
<1>2. CASE \E kind \in AllFaultKinds : Fault(kind)
  BY <1>2, FaultCounted DEF TypeOK
<1>3. QED
  BY <1>1, <1>2
  DEF Next, Subscriber, Endpoint, vars, Filter, Resubmit, Deliver, FirstTime, SaveNew, Inspect,
      Reopen, Add, Ack, Forget, Post, Resolve, Publish, Dequeue, Revert, Requeue, ListQueue, Read,
      Evict, Raise, RaiseInFirstTime, ForgetFails, ResolveFails, PublishFails, RollbackFails,
      DequeueFails, ViewFails, Crash, Finds, AllFaultKinds

\* The record a verdict leaves.
Settled(a) == [status |-> request[a].verdict, review |-> request[a].review, by |-> a]

LEMMA SettleTyped ==
  ASSUME TypeInv, NEW a \in Approvers, pc[a] # "idle", OpenForVerdict(Invoice(a)), Settle(a)
  PROVE  LET i == Invoice(a) IN
         /\ escalation' \in [Invoices -> Escalation \cup {None}]
         /\ escalation'[i] = [status |-> request[a].verdict, review |-> escalation[i].review,
                              by |-> a]
         /\ escalation'[i] # None
         /\ escalation[i] \in Escalation
         /\ \A j \in Invoices : j # i => escalation'[j] = escalation[j]
         /\ \A j \in Invoices : ReviewsOwn(j)'
<1> DEFINE i == Invoice(a)
<1>1. /\ i \in Invoices
      /\ request[a].verdict \in Statuses
  BY ApproverLocals DEF Statuses, Final
<1>2. escalation[i] \in Escalation
  BY <1>1 DEF TypeInv, TypeOK, OpenForVerdict, HasStatus
<1>3. escalation' = [escalation EXCEPT ![i] = [@ EXCEPT !.status = request[a].verdict, !.by = a]]
  BY DEF Settle
<1>4. escalation'[i] = [status |-> request[a].verdict, review |-> escalation[i].review, by |-> a]
  BY <1>1, <1>2, <1>3 DEF TypeInv, TypeOK, Escalation
<1>5. escalation'[i] \in Escalation
  BY <1>1, <1>2, <1>4 DEF Escalation
<1>6. \A j \in Invoices : j # i => escalation'[j] = escalation[j]
  BY <1>3 DEF TypeInv, TypeOK
<1>7. escalation' \in [Invoices -> Escalation \cup {None}]
  BY <1>1, <1>3, <1>5 DEF TypeInv, TypeOK
<1>8. escalation'[i] # None
  BY <1>5, SentinelAssumption
<1>9. \A j \in Invoices : ReviewsOwn(j)'
  BY <1>2, <1>4, <1>6, SentinelAssumption DEF TypeInv, LocalInv, ReviewsOwn
<1> HIDE DEF i
<1>10. QED
  BY <1>2, <1>4, <1>6, <1>7, <1>8, <1>9 DEF i

\* The record a rollback leaves.
LEMMA RevertTyped ==
  ASSUME TypeInv, NEW a \in Approvers, Revert(a)
  PROVE  LET i == Invoice(a) IN
         /\ i \in Invoices
         /\ escalation' \in [Invoices -> Escalation \cup {None}]
         /\ escalation'[i] = [status |-> "pending", review |-> escalation[i].review, by |-> None]
         /\ escalation'[i] # None
         /\ escalation[i] \in Escalation
         /\ \A j \in Invoices : j # i => escalation'[j] = escalation[j]
         /\ \A j \in Invoices : ReviewsOwn(j)'
<1> DEFINE i == Invoice(a)
<1>1. i \in Invoices /\ escalation[i] # None
  BY ApproverLocals DEF Revert, TypeInv, LocalInv, ApproverTyped
<1>2. escalation[i] \in Escalation
  BY <1>1 DEF TypeInv, TypeOK
<1>3. escalation' = [escalation EXCEPT ![i] = [@ EXCEPT !.status = "pending", !.by = None]]
  BY DEF Revert
<1>4. escalation'[i] = [status |-> "pending", review |-> escalation[i].review, by |-> None]
  BY <1>1, <1>2, <1>3 DEF TypeInv, TypeOK, Escalation
<1>5. escalation'[i] \in Escalation
  BY <1>2, <1>4 DEF Escalation, Statuses
<1>6. \A j \in Invoices : j # i => escalation'[j] = escalation[j]
  BY <1>3 DEF TypeInv, TypeOK
<1>7. escalation' \in [Invoices -> Escalation \cup {None}]
  BY <1>1, <1>3, <1>5 DEF TypeInv, TypeOK
<1>8. escalation'[i] # None
  BY <1>5, SentinelAssumption
<1>9. \A j \in Invoices : ReviewsOwn(j)'
  BY <1>1, <1>4, <1>6 DEF TypeInv, LocalInv, ReviewsOwn
<1> HIDE DEF i
<1>10. QED
  BY <1>1, <1>2, <1>4, <1>6, <1>7, <1>8, <1>9 DEF i

\* The record a handler registers or reopens.
LEMMA OpenedTyped ==
  ASSUME TypeInv, NEW h \in Handlers, pc[h] # "idle",
         escalation' = [escalation EXCEPT ![Subject(h)] =
           [status |-> "pending", review |-> event[h], by |-> None]]
  PROVE  LET i == Subject(h) IN
         /\ i \in Invoices
         /\ escalation' \in [Invoices -> Escalation \cup {None}]
         /\ escalation'[i] = [status |-> "pending", review |-> event[h], by |-> None]
         /\ escalation'[i] # None
         /\ \A j \in Invoices : j # i => escalation'[j] = escalation[j]
         /\ \A j \in Invoices : ReviewsOwn(j)'
<1> DEFINE i == Subject(h)
           r == [status |-> "pending", review |-> event[h], by |-> None]
<1>1. i \in Invoices /\ event[h] \in Events /\ i = Payload[event[h]].invoice
  BY HandlerLocals DEF Subject
<1>2. r \in Escalation /\ r.review = event[h]
  BY <1>1 DEF Escalation, Statuses
<1> HIDE DEF r
<1>3. escalation' = [escalation EXCEPT ![i] = r]
  BY DEF r
<1> HIDE DEF i
<1>4. escalation \in [Invoices -> Escalation \cup {None}]
  BY DEF TypeInv, TypeOK
<1>5. escalation'[i] = r
  BY <1>1, <1>3, <1>4
<1>6. \A j \in Invoices : j # i => escalation'[j] = escalation[j]
  BY <1>1, <1>3, <1>4
<1>7. escalation' \in [Invoices -> Escalation \cup {None}]
  BY <1>1, <1>2, <1>3, <1>4
<1>8. r # None
  BY <1>2, SentinelAssumption
<1>9. \A j \in Invoices : ReviewsOwn(j)'
  BY <1>1, <1>2, <1>5, <1>6 DEF TypeInv, LocalInv, ReviewsOwn
<1>10. QED
  BY <1>1, <1>5, <1>6, <1>7, <1>8, <1>9 DEF r, i


\* The records a step leaves alone stay typed, and no record disappears.
Kept ==
  /\ escalation' \in [Invoices -> Escalation \cup {None}]
  /\ \A i \in Invoices : escalation[i] # None => escalation'[i] # None
  /\ \A i \in Invoices : ReviewsOwn(i)'

LEMMA SameKept == ASSUME TypeInv, UNCHANGED escalation PROVE Kept
BY DEF TypeInv, TypeOK, LocalInv, ReviewsOwn, Kept

\* The locals of everyone stay typed when one handler moves ...
LEMMA HandlerMoved ==
  ASSUME TypeInv, NEW h \in Handlers, NEW next \in {"idle"} \cup HandlerPcs, Goto(h, next),
         \/ next # "idle" /\ UNCHANGED event /\ pc[h] # "idle"
         \/ next # "idle" /\ \E e \in Events : event' = [event EXCEPT ![h] = e]
         \/ next = "idle" /\ event' = [event EXCEPT ![h] = None],
         UNCHANGED <<request, todo, target>>, Kept
  PROVE  /\ LocalInv'
         /\ event' \in [Handlers -> Events \cup {None}]
         /\ pc' \in [Workers -> {"idle"} \cup HandlerPcs \cup ApproverPcs \cup ViewerPcs]
<1>1. pc' = [pc EXCEPT ![h] = next]
  BY DEF Goto
<1>2. pc' \in [Workers -> {"idle"} \cup HandlerPcs \cup ApproverPcs \cup ViewerPcs]
  BY <1>1, WorkersApart DEF TypeInv, TypeOK
<1>3. /\ pc'[h] = next
      /\ \A w \in Workers : w # h => pc'[w] = pc[w]
  BY <1>1, WorkersApart DEF TypeInv, TypeOK
<1>4. event' \in [Handlers -> Events \cup {None}]
  BY DEF TypeInv, TypeOK
<1>5. /\ next = "idle" => event'[h] = None
      /\ next # "idle" => event'[h] \in Events
      /\ \A g \in Handlers : g # h => event'[g] = event[g]
  BY DEF TypeInv, TypeOK, LocalInv, HandlerTyped
<1>6. \A g \in Handlers : HandlerTyped(g)'
  BY <1>3, <1>5, WorkersApart DEF TypeInv, LocalInv, HandlerTyped
<1>7. \A a \in Approvers : ApproverTyped(a)'
  <2> TAKE a \in Approvers
  <2>1. pc'[a] = pc[a] /\ request'[a] = request[a] /\ Invoice(a)' = Invoice(a)
    BY <1>3, WorkersApart DEF Invoice
  <2>2. pc[a] # "idle" => Invoice(a) \in Invoices
    BY ApproverLocals
  <2>3. ApproverTyped(a)
    BY DEF TypeInv, LocalInv
  <2>4. QED
    BY <2>1, <2>2, <2>3 DEF ApproverTyped, Kept
<1>8. \A v \in Viewers : ViewerTyped(v)'
  BY <1>3, WorkersApart DEF TypeInv, LocalInv, ViewerTyped
<1>9. QED
  BY <1>2, <1>4, <1>6, <1>7, <1>8 DEF LocalInv, Kept

\* ... or one approver ...
LEMMA ApproverMoved ==
  ASSUME TypeInv, NEW a \in Approvers, NEW next \in {"idle"} \cup ApproverPcs, Goto(a, next),
         NEW r \in Request \cup {None}, request' = [request EXCEPT ![a] = r],
         next = "idle" => r = None,
         next # "idle" => r \in Request,
         next \in {"publish", "revert", "requeue", "dequeue"} =>
           /\ r.review \in Events
           /\ Payload[r.review].invoice = r.invoice
           /\ escalation'[r.invoice] # None,
         UNCHANGED <<event, todo, target>>, Kept
  PROVE  /\ LocalInv'
         /\ request' \in [Approvers -> Request \cup {None}]
         /\ pc' \in [Workers -> {"idle"} \cup HandlerPcs \cup ApproverPcs \cup ViewerPcs]
<1>1. pc' = [pc EXCEPT ![a] = next]
  BY DEF Goto
<1>2. pc' \in [Workers -> {"idle"} \cup HandlerPcs \cup ApproverPcs \cup ViewerPcs]
  BY <1>1, WorkersApart DEF TypeInv, TypeOK
<1>3. /\ pc'[a] = next
      /\ \A w \in Workers : w # a => pc'[w] = pc[w]
  BY <1>1, WorkersApart DEF TypeInv, TypeOK
<1>4. /\ request' \in [Approvers -> Request \cup {None}]
      /\ request'[a] = r
      /\ \A b \in Approvers : b # a => request'[b] = request[b]
  BY DEF TypeInv, TypeOK
<1>5. \A h \in Handlers : HandlerTyped(h)'
  BY <1>3, WorkersApart DEF TypeInv, LocalInv, HandlerTyped
<1>6. ApproverTyped(a)'
  BY <1>3, <1>4 DEF ApproverTyped, Invoice
<1>7. \A b \in Approvers : b # a => ApproverTyped(b)'
  <2> SUFFICES ASSUME NEW b \in Approvers, b # a PROVE ApproverTyped(b)'
    OBVIOUS
  <2>1. pc'[b] = pc[b] /\ request'[b] = request[b] /\ Invoice(b)' = Invoice(b)
    BY <1>3, <1>4, WorkersApart DEF Invoice
  <2>2. pc[b] # "idle" => Invoice(b) \in Invoices
    BY ApproverLocals
  <2>3. ApproverTyped(b)
    BY DEF TypeInv, LocalInv
  <2>4. QED
    BY <2>1, <2>2, <2>3 DEF ApproverTyped, Kept
<1>8. \A v \in Viewers : ViewerTyped(v)'
  BY <1>3, WorkersApart DEF TypeInv, LocalInv, ViewerTyped
<1>9. QED
  BY <1>2, <1>4, <1>5, <1>6, <1>7, <1>8 DEF LocalInv, Kept

\* ... or one view.
LEMMA ViewerMoved ==
  ASSUME TypeInv, NEW v \in Viewers, NEW next \in {"idle"} \cup ViewerPcs, Goto(v, next),
         NEW i \in Invoices \cup {None},
         \/ target' = [target EXCEPT ![v] = i]
         \/ UNCHANGED target /\ i = target[v],
         next = "evict" <=> i # None,
         UNCHANGED <<event, request>>, UNCHANGED escalation
  PROVE  /\ LocalInv'
         /\ target' \in [Viewers -> Invoices \cup {None}]
         /\ pc' \in [Workers -> {"idle"} \cup HandlerPcs \cup ApproverPcs \cup ViewerPcs]
<1>1. pc' = [pc EXCEPT ![v] = next]
  BY DEF Goto
<1>2. pc' \in [Workers -> {"idle"} \cup HandlerPcs \cup ApproverPcs \cup ViewerPcs]
  BY <1>1, WorkersApart DEF TypeInv, TypeOK
<1>3. /\ pc'[v] = next
      /\ \A w \in Workers : w # v => pc'[w] = pc[w]
  BY <1>1, WorkersApart DEF TypeInv, TypeOK
<1>4. /\ target' \in [Viewers -> Invoices \cup {None}]
      /\ target'[v] = i
      /\ \A u \in Viewers : u # v => target'[u] = target[u]
  BY DEF TypeInv, TypeOK
<1>5. \A h \in Handlers : HandlerTyped(h)'
  BY <1>3, WorkersApart DEF TypeInv, LocalInv, HandlerTyped
<1>6. \A a \in Approvers : ApproverTyped(a)'
  BY <1>3, WorkersApart DEF TypeInv, LocalInv, ApproverTyped, Invoice
<1>7. \A u \in Viewers : ViewerTyped(u)'
  BY <1>3, <1>4, WorkersApart DEF TypeInv, LocalInv, ViewerTyped
<1>8. \A j \in Invoices : ReviewsOwn(j)'
  BY DEF TypeInv, LocalInv, ReviewsOwn
<1>9. QED
  BY <1>2, <1>4, <1>5, <1>6, <1>7, <1>8 DEF LocalInv


LEMMA CallsTyped == \A i : CallsOn(i) \in SUBSET SettledPcs
BY DEF CallsOn

\* What an approver past resolve() publishes, and answers.
LEMMA PublishedTyped ==
  ASSUME TypeInv, NEW a \in Approvers, pc[a] \in {"publish", "revert", "requeue", "dequeue"}
  PROVE  Published(a) \in Resolution /\ Invoice(a) \in Invoices
BY ApproverLocals DEF TypeInv, LocalInv, ApproverTyped, Published, Resolution

\* An answer ends the request.
LEMMA AnswerTyped ==
  ASSUME TypeInv, NEW a \in Approvers, NEW ok \in BOOLEAN, Answer(a, ok), Kept,
         ok => pc[a] \in {"publish", "revert", "requeue", "dequeue"}
  PROVE  /\ LocalInv'
         /\ accepted' \in SUBSET Resolution
         /\ request' \in [Approvers -> Request \cup {None}]
         /\ pc' \in [Workers -> {"idle"} \cup HandlerPcs \cup ApproverPcs \cup ViewerPcs]
         /\ UNCHANGED <<overtaken, event, todo, target>>
<1>1. accepted' \in SUBSET Resolution
  BY PublishedTyped DEF Answer, TypeInv, TypeOK, Published
<1>2. QED
  BY <1>1, ApproverMoved DEF Answer

LEMMA TypeInit == ASSUME Init PROVE TypeInv
<1>1. TypeOK
  BY ApprovalAssumption DEF Init, Fresh, TypeOK
<1>2. LocalInv
  BY WorkersApart DEF Init, Fresh, LocalInv, HandlerTyped, ApproverTyped, ViewerTyped, ReviewsOwn
<1>3. QED
  BY <1>1, <1>2 DEF TypeInv

LEMMA TypeStep == ASSUME TypeInv, [Next]_vars PROVE TypeInv'
<1>f. faults' \in [AllFaultKinds -> 0 .. MaxFaults]
  BY FaultsStay DEF TypeInv
<1>s. UNCHANGED escalation => Kept
  BY SameKept
<1>h. ASSUME NEW h \in Handlers, NEW next \in HandlerPcs, pc[h] # "idle", Goto(h, next),
             UNCHANGED locals, Kept
      PROVE  /\ LocalInv'
             /\ pc' \in [Workers -> {"idle"} \cup HandlerPcs \cup ApproverPcs \cup ViewerPcs]
  BY <1>h, HandlerMoved DEF locals, HandlerPcs
<1>l. ASSUME NEW h \in Handlers, Leave(h), Kept
      PROVE  /\ LocalInv'
             /\ event' \in [Handlers -> Events \cup {None}]
             /\ pc' \in [Workers -> {"idle"} \cup HandlerPcs \cup ApproverPcs \cup ViewerPcs]
             /\ UNCHANGED <<request, todo, target>>
  BY <1>l, HandlerMoved DEF Leave
<1>a. ASSUME NEW a \in Approvers, NEW next \in {"publish", "revert", "requeue", "dequeue"},
             Goto(a, next), UNCHANGED locals, Kept,
             pc[a] \in {"publish", "revert", "requeue", "dequeue"}
      PROVE  /\ LocalInv'
             /\ pc' \in [Workers -> {"idle"} \cup HandlerPcs \cup ApproverPcs \cup ViewerPcs]
  <2>1. /\ request[a] \in Request /\ Invoice(a) \in Invoices
        /\ request[a].review \in Events
        /\ Payload[request[a].review].invoice = request[a].invoice
        /\ escalation'[request[a].invoice] # None
    BY <1>a, ApproverLocals DEF TypeInv, LocalInv, ApproverTyped, Kept, Invoice
  <2>2. request' = [request EXCEPT ![a] = request[a]]
    BY <1>a DEF locals, TypeInv, TypeOK
  <2>3. QED
    BY <1>a, <2>1, <2>2, ApproverMoved DEF locals, ApproverPcs
<1> USE DEF TypeInv
<1>1. CASE \E e \in Events : Filter(e) \/ Resubmit(e)
  <2>1. UNCHANGED <<stores, published, history, pc, locals, posted, views, faults>>
    BY <1>1 DEF Filter, Resubmit
  <2>2. TypeOK'
    BY <1>1, <2>1, <1>f DEF Filter, Resubmit, TypeOK, stores, history, locals
  <2>3. LocalInv'
    BY <2>1, <1>s DEF stores, locals, LocalInv, HandlerTyped, ApproverTyped, ViewerTyped, Kept, Invoice
  <2>4. QED
    BY <2>2, <2>3
<1>2. ASSUME NEW h \in Handlers, NEW e \in Events, Deliver(h, e) PROVE TypeInv'
  <2>1. /\ LocalInv' /\ event' \in [Handlers -> Events \cup {None}]
        /\ pc' \in [Workers -> {"idle"} \cup HandlerPcs \cup ApproverPcs \cup ViewerPcs]
    BY <1>2, <1>s, HandlerMoved DEF Deliver, stores, HandlerPcs
  <2>2. QED
    BY <1>2, <2>1, <1>f DEF Deliver, TypeOK, broker, stores, history
<1>3. ASSUME NEW h \in Handlers, FirstTime(h) PROVE TypeInv'
  <2>1. event[h] \in Events
    BY <1>3, HandlerLocals DEF FirstTime
  <2>2. PICK next \in HandlerPcs : Goto(h, next)
    BY <1>3 DEF FirstTime, HandlerPcs
  <2>3. QED
    BY <1>3, <2>1, <2>2, <1>f, <1>s, <1>h DEF FirstTime, TypeOK, broker, history, locals
<1>4. ASSUME NEW h \in Handlers, SaveNew(h) \/ Reopen(h) PROVE TypeInv'
  <2>1. pc[h] # "idle" /\ event[h] \in Events /\ Subject(h) \in Invoices
    BY <1>4, HandlerLocals DEF SaveNew, Reopen
  <2>2. PICK next \in HandlerPcs : Goto(h, next)
    BY <1>4 DEF SaveNew, Reopen, HandlerPcs
  <2>3. Kept
    <3>1. CASE UNCHANGED escalation
      BY <3>1, <1>s
    <3>2. CASE escalation' = [escalation EXCEPT ![Subject(h)] =
                 [status |-> "pending", review |-> event[h], by |-> None]]
      BY <3>2, <2>1, OpenedTyped DEF Kept
    <3>3. QED
      BY <1>4, <3>1, <3>2 DEF SaveNew, Reopen
  <2>4. overtaken' \in [Invoices -> SUBSET SettledPcs]
    BY <1>4, CallsTyped DEF SaveNew, Reopen, Overtake, TypeOK, history
  <2>5. UNCHANGED <<unsent, unacked, processed, queue, published, accepted, locals, posted, views>>
    BY <1>4 DEF SaveNew, Reopen, broker, history
  <2>6. QED
    BY <2>1, <2>2, <2>3, <2>4, <2>5, <1>f, <1>h DEF TypeOK, locals, Kept
<1>5. ASSUME NEW h \in Handlers, Inspect(h) \/ Add(h) \/ Raise(h) PROVE TypeInv'
  <2>1. pc[h] # "idle" /\ event[h] \in Events /\ Subject(h) \in Invoices
    BY <1>5, HandlerLocals DEF Inspect, Add, Raise
  <2>2. PICK next \in HandlerPcs : Goto(h, next)
    BY <1>5 DEF Inspect, Add, Raise, HandlerPcs, AfterInspect
  <2>3. /\ UNCHANGED <<unsent, unacked, processed, escalation, published, history, locals, posted,
                        views>>
        /\ queue' = queue \/ queue' = queue \cup {Subject(h)}
    BY <1>5 DEF Inspect, Add, Raise, broker, stores
  <2>4. QED
    BY <2>1, <2>2, <2>3, <1>f, <1>s, <1>h DEF TypeOK, locals, history
<1>6. ASSUME NEW h \in Handlers, Ack(h) \/ Forget(h) \/ RaiseInFirstTime(h) \/ ForgetFails(h)
      PROVE  TypeInv'
  <2>1. pc[h] # "idle" /\ event[h] \in Events
    BY <1>6, HandlerLocals DEF Ack, Forget, RaiseInFirstTime, ForgetFails
  <2>2. /\ UNCHANGED <<unsent, escalation, queue, published, history, posted, views>>
        /\ Leave(h)
        /\ unacked' \in SUBSET Events
        /\ processed' \in SUBSET Events
    BY <1>6, <2>1 DEF Ack, Forget, RaiseInFirstTime, ForgetFails, broker, stores, TypeOK
  <2>3. QED
    BY <2>2, <1>f, <1>s, <1>l DEF TypeOK, history
<1>7. ASSUME NEW a \in Approvers, NEW i \in Invoices, NEW verdict \in Verdicts, Post(a, i, verdict)
      PROVE  TypeInv'
  <2> DEFINE r == [invoice |-> i, verdict |-> verdict, review |-> None]
  <2>1. r \in Request
    BY DEF Request
  <2>2. request' = [request EXCEPT ![a] = r] /\ Goto(a, "resolve")
    BY <1>7 DEF Post
  <2> HIDE DEF r
  <2>3. /\ LocalInv' /\ request' \in [Approvers -> Request \cup {None}]
        /\ pc' \in [Workers -> {"idle"} \cup HandlerPcs \cup ApproverPcs \cup ViewerPcs]
    <3>1. Kept /\ UNCHANGED <<event, todo, target>>
      BY <1>7, <1>s DEF Post, stores
    <3>2. "resolve" \in {"idle"} \cup ApproverPcs
      BY DEF ApproverPcs
    <3>3. QED
      BY <2>1, <2>2, <3>1, <3>2, ApproverMoved
  <2>4. posted' \in 0 .. MaxVerdicts
    BY <1>7, ApprovalAssumption DEF Post, TypeOK
  <2>5. QED
    BY <1>7, <2>3, <2>4, <1>f DEF Post, TypeOK, broker, stores, history
<1>8. ASSUME NEW a \in Approvers, Resolve(a) \/ ResolveFails(a) PROVE TypeInv'
  <2>1. pc[a] # "idle"
    BY <1>8 DEF Resolve, ResolveFails
  <2>2. Settle(a) /\ OpenForVerdict(Invoice(a)) => Kept
    BY <2>1, SettleTyped DEF Kept
  <2>3. UNCHANGED stores => Kept
    BY <1>s DEF stores
  <2>4. CASE Answer(a, FALSE)
    BY <1>8, <2>2, <2>3, <2>4, <1>f, AnswerTyped
    DEF Resolve, ResolveFails, TypeOK, Kept, Settle, stores, broker
  <2>5. CASE /\ OpenForVerdict(Invoice(a)) /\ Settle(a) /\ Goto(a, "publish")
             /\ request' = [request EXCEPT ![a] = Noted(@, escalation[Invoice(a)])]
             /\ UNCHANGED <<history, event, todo, target>>
    <3> DEFINE r == Noted(request[a], escalation[Invoice(a)])
    <3>1. request[a] \in Request /\ Invoice(a) \in Invoices
      BY <2>1, ApproverLocals
    <3>2. escalation[Invoice(a)] \in Escalation /\ ReviewsOwn(Invoice(a))
      BY <2>1, <2>5, <3>1, SettleTyped DEF LocalInv
    <3>3. /\ r \in Request /\ r.review \in Events /\ r.invoice = Invoice(a)
          /\ Payload[r.review].invoice = r.invoice
      BY <3>1, <3>2, SentinelAssumption DEF Noted, Request, Escalation, ReviewsOwn, Invoice
    <3>4. escalation'[Invoice(a)] # None
      BY <2>1, <2>5, SettleTyped
    <3>5. request' = [request EXCEPT ![a] = r]
      BY <2>5
    <3> HIDE DEF r
    <3>6. /\ LocalInv' /\ request' \in [Approvers -> Request \cup {None}]
          /\ pc' \in [Workers -> {"idle"} \cup HandlerPcs \cup ApproverPcs \cup ViewerPcs]
      <4>1. Kept /\ UNCHANGED <<event, todo, target>> /\ Goto(a, "publish")
        BY <2>2, <2>5
      <4>2. "publish" \in {"idle"} \cup ApproverPcs
        BY DEF ApproverPcs
      <4>3. escalation'[r.invoice] # None
        BY <3>3, <3>4
      <4>4. QED
        BY <3>3, <3>5, <4>1, <4>2, <4>3, ApproverMoved
    <3>7. UNCHANGED <<broker, published, posted, views>>
      BY <1>8 DEF Resolve, ResolveFails
    <3>8. QED
      BY <2>2, <2>5, <3>6, <3>7, <1>f DEF TypeOK, Settle, Kept, broker, history
  <2>6. QED
    BY <1>8, <2>4, <2>5 DEF Resolve, ResolveFails
<1>9. ASSUME NEW a \in Approvers, Publish(a) \/ PublishFails(a) PROVE TypeInv'
  <2>1. /\ UNCHANGED <<broker, stores, history, locals, posted, views>>
        /\ pc[a] = "publish"
        /\ Goto(a, "dequeue") \/ Goto(a, "revert")
        /\ published' = published \/ published' = published \cup {Published(a)}
    BY <1>9 DEF Publish, PublishFails, Sent, Published
  <2>2. published' \in SUBSET Resolution
    BY <2>1, PublishedTyped DEF TypeOK
  <2>3. QED
    BY <2>1, <2>2, <1>f, <1>a, <1>s DEF TypeOK, broker, stores, history, locals
<1>10. ASSUME NEW a \in Approvers, Revert(a) PROVE TypeInv'
  <2>1. Kept
    BY <1>10, RevertTyped DEF Kept
  <2>2. overtaken' \in [Invoices -> SUBSET SettledPcs]
    BY <1>10, CallsTyped DEF Revert, Overtake, TypeOK
  <2>3. QED
    BY <1>10, <2>1, <2>2, <1>f, <1>a DEF Revert, TypeOK, Kept, broker, locals
<1>11. ASSUME NEW a \in Approvers, Dequeue(a) \/ Requeue(a) \/ RollbackFails(a) \/ DequeueFails(a)
       PROVE  TypeInv'
  <2>1. /\ UNCHANGED <<broker, processed, escalation, published, posted, views>>
        /\ pc[a] \in {"publish", "revert", "requeue", "dequeue"}
        /\ \E ok \in BOOLEAN : Answer(a, ok)
        /\ queue' \in {queue, queue \ {Invoice(a)}, queue \cup {Invoice(a)}}
    BY <1>11 DEF Dequeue, Requeue, RollbackFails, DequeueFails, stores
  <2>2. Invoice(a) \in Invoices
    BY <2>1, PublishedTyped
  <2>3. QED
    BY <2>1, <2>2, <1>f, <1>s, AnswerTyped DEF TypeOK, broker
<1>12. ASSUME NEW v \in Viewers, ListQueue(v) PROVE TypeInv'
  <2>1. /\ LocalInv' /\ target' \in [Viewers -> Invoices \cup {None}]
        /\ pc' \in [Workers -> {"idle"} \cup HandlerPcs \cup ApproverPcs \cup ViewerPcs]
    BY <1>12, ViewerMoved DEF ListQueue, stores, ViewerPcs, LocalInv, ViewerTyped, TypeOK
  <2>2. views' \in 0 .. MaxViews
    BY <1>12, ApprovalAssumption DEF ListQueue, TypeOK
  <2>3. todo' \in [Viewers -> SUBSET Invoices]
    BY <1>12 DEF ListQueue, TypeOK
  <2>4. QED
    BY <1>12, <2>1, <2>2, <2>3, <1>f DEF ListQueue, TypeOK, broker, stores, history
<1>13. ASSUME NEW v \in Viewers, Read(v) PROVE TypeInv'
  <2>1. PICK i \in todo[v] :
          /\ todo' = [todo EXCEPT ![v] = @ \ {i}]
          /\ \/ target' = [target EXCEPT ![v] = i] /\ Goto(v, "evict")
             \/ UNCHANGED target /\ \E next \in {"idle", "read"} : Goto(v, next)
    BY <1>13 DEF Read
  <2>2. i \in Invoices /\ i # None /\ target[v] = None
    BY <1>13, WorkersApart DEF Read, TypeOK, LocalInv, ViewerTyped
  <2>3. /\ LocalInv' /\ target' \in [Viewers -> Invoices \cup {None}]
        /\ pc' \in [Workers -> {"idle"} \cup HandlerPcs \cup ApproverPcs \cup ViewerPcs]
    BY <1>13, <2>1, <2>2, ViewerMoved DEF Read, ViewerPcs, stores
  <2>4. todo' \in [Viewers -> SUBSET Invoices]
    BY <2>1 DEF TypeOK
  <2>5. QED
    BY <1>13, <2>3, <2>4, <1>f DEF Read, TypeOK, broker, stores, history
<1>14. ASSUME NEW v \in Viewers, Evict(v) \/ ViewFails(v) PROVE TypeInv'
  <2>1. /\ target' = [target EXCEPT ![v] = None]
        /\ \E next \in {"idle", "read"} : Goto(v, next)
        /\ UNCHANGED <<unsent, unacked, processed, escalation, published, history, event, request,
                       posted, views>>
        /\ queue' \in SUBSET Invoices
        /\ todo' \in [Viewers -> SUBSET Invoices]
    BY <1>14 DEF Evict, ViewFails, broker, stores, TypeOK
  <2>2. /\ LocalInv' /\ target' \in [Viewers -> Invoices \cup {None}]
        /\ pc' \in [Workers -> {"idle"} \cup HandlerPcs \cup ApproverPcs \cup ViewerPcs]
    BY <2>1, ViewerMoved DEF ViewerPcs
  <2>3. QED
    BY <2>1, <2>2, <1>f DEF TypeOK, history
<1>15. CASE Crash
  <2>1. LocalInv'
    BY <1>15, <1>s, WorkersApart
    DEF Crash, stores, LocalInv, HandlerTyped, ApproverTyped, ViewerTyped, Kept
  <2>2. QED
    BY <1>15, <2>1, <1>f DEF Crash, TypeOK, broker, stores, history
<1>16. CASE UNCHANGED vars
  <2>1. LocalInv'
    BY <1>16, <1>s DEF vars, stores, locals, LocalInv, HandlerTyped, ApproverTyped, ViewerTyped,
       Kept, Invoice
  <2>2. QED
    BY <1>16, <2>1, <1>f DEF vars, TypeOK, broker, stores, history, locals
<1>17. QED
  BY <1>1, <1>2, <1>3, <1>4, <1>5, <1>6, <1>7, <1>8, <1>9, <1>10, <1>11, <1>12, <1>13, <1>14,
     <1>15, <1>16
  DEF Next, Subscriber, Endpoint

LEMMA TypeInvariant == Spec => []TypeInv
<1>1. Init => TypeInv
  BY TypeInit
<1>2. TypeInv /\ [Next]_vars => TypeInv'
  BY TypeStep
<1>3. QED
  BY <1>1, <1>2, PTL DEF Spec

\* Every variable keeps its type, whatever fails or is delivered twice: no verdict
\* is published or accepted that names no review (api.py:100-196).
THEOREM TypeCorrect == Spec => []TypeOK
<1>1. TypeInv => TypeOK
  BY DEF TypeInv
<1>2. QED
  BY <1>1, TypeInvariant, PTL

--------------------------------------------------------------------------------
(* Who changes what.  Most steps change no record and publish nothing; the   *)
(* others are named by what they do to the record of one invoice.            *)

Same(w) == pc'[w] = pc[w]

Aside ==
  /\ UNCHANGED <<escalation, published, overtaken>>
  /\ \A a \in Approvers : \/ Same(a) /\ request'[a] = request[a]
                          \/ pc'[a] \notin SettledPcs
  /\ \A a \in Approvers : pc[a] \in {"publish", "revert"} =>
       \/ Same(a) /\ request'[a] = request[a]
       \/ faults'["rollback"] > 0 \/ faults'["crash"] > 0
  /\ \A r \in accepted' : \/ r \in accepted
                          \/ \E a \in Approvers : pc[a] = "dequeue" /\ r = Published(a)
  /\ \A v \in Viewers : pc'[v] = "evict" =>
       \/ pc[v] = "evict" /\ target'[v] = target[v]
       \/ HasStatus(target'[v], Statuses \ {"pending"})

\* The record of i becomes pending, for the event of h.
Opens(h, i) ==
  /\ i = Subject(h)
  /\ pc[h] \in {"save_new", "reopen"} /\ event[h] \in Events
  /\ escalation'[i] = [status |-> "pending", review |-> event[h], by |-> None]
  /\ \A j \in Invoices : j # i => escalation'[j] = escalation[j]
  /\ \/ escalation[i] = None /\ UNCHANGED overtaken
     \/ HasStatus(i, {"needs_info"}) /\ Overtake(i, CallsOn(i))
  /\ pc' = [pc EXCEPT ![h] = "add"]
  /\ UNCHANGED <<request, target, published, accepted>>

\* The record of i is settled by a.
Settles(a, i) ==
  /\ i = Invoice(a)
  /\ pc[a] = "resolve"
  /\ HasStatus(i, {"pending"})
  /\ escalation'[i] = [status |-> request[a].verdict, review |-> escalation[i].review, by |-> a]
  /\ \A j \in Invoices : j # i => escalation'[j] = escalation[j]
  /\ \/ /\ pc' = [pc EXCEPT ![a] = "publish"]
        /\ request' = [request EXCEPT ![a] = Noted(@, escalation[i])]
        /\ escalation'[i] = Settled(a)'
     \/ /\ pc' = [pc EXCEPT ![a] = "idle"]
        /\ request' = [request EXCEPT ![a] = None]
        /\ faults'["lost"] > 0
  /\ UNCHANGED <<target, published, accepted, overtaken>>

\* What a settled is published, or is not.
Publishes(a) ==
  /\ pc[a] = "publish"
  /\ \/ /\ pc' = [pc EXCEPT ![a] = "dequeue"]
        /\ published' = published \cup {Published(a)}
     \/ /\ pc' = [pc EXCEPT ![a] = "revert"]
        /\ published' = published \/ faults'["lost"] > 0
  /\ UNCHANGED <<escalation, request, target, accepted, overtaken>>

\* The record of i is rolled back by a.
Reverts(a, i) ==
  /\ i = Invoice(a)
  /\ pc[a] = "revert"
  /\ escalation[i] \in Escalation
  /\ escalation'[i] = [status |-> "pending", review |-> escalation[i].review, by |-> None]
  /\ \A j \in Invoices : j # i => escalation'[j] = escalation[j]
  /\ Overtake(i, CallsOn(i) \ {"revert"})
  /\ pc' = [pc EXCEPT ![a] = "requeue"]
  /\ UNCHANGED <<request, target, published, accepted>>

LEMMA StepKinds ==
  ASSUME TypeInv, [Next]_vars
  PROVE  \/ Aside
         \/ \E h \in Handlers, i \in Invoices : Opens(h, i)
         \/ \E a \in Approvers, i \in Invoices : Settles(a, i)
         \/ \E a \in Approvers : Publishes(a)
         \/ \E a \in Approvers, i \in Invoices : Reverts(a, i)
<1>t. pc \in [Workers -> {"idle"} \cup HandlerPcs \cup ApproverPcs \cup ViewerPcs]
  BY DEF TypeInv, TypeOK
<1>f. ASSUME NEW kind \in AllFaultKinds, Fault(kind) PROVE faults'[kind] > 0
  BY <1>f, FaultCounted DEF TypeInv, TypeOK
<1>q. ASSUME UNCHANGED <<escalation, published, overtaken, accepted, request, target>>,
             \A a \in Approvers : Same(a),
             \A v \in Viewers : pc'[v] = "evict" => pc[v] = "evict"
      PROVE  Aside
  BY <1>q DEF Aside
<1>g. ASSUME NEW h \in Handlers, NEW next, Goto(h, next)
      PROVE  /\ \A a \in Approvers : Same(a)
             /\ \A v \in Viewers : Same(v)
  BY <1>g, <1>t, WorkersApart DEF Goto, Same
<1>a. ASSUME NEW a \in Approvers, NEW next, Goto(a, next)
      PROVE  /\ \A b \in Approvers : b # a => Same(b)
             /\ pc'[a] = next
             /\ \A v \in Viewers : Same(v)
  BY <1>a, <1>t, WorkersApart DEF Goto, Same
<1>r. ASSUME NEW a \in Approvers, NEW r, request' = [request EXCEPT ![a] = r]
      PROVE  \A b \in Approvers : b # a => request'[b] = request[b]
  BY <1>r DEF TypeInv, TypeOK
<1>1. CASE (\E e \in Events : Filter(e) \/ Resubmit(e)) \/ UNCHANGED vars
  BY <1>1, <1>q DEF Filter, Resubmit, vars, stores, history, locals, Same
<1>2. ASSUME NEW h \in Handlers,
             \/ \E e \in Events : Deliver(h, e)
             \/ FirstTime(h) \/ Inspect(h) \/ Add(h) \/ Ack(h) \/ Forget(h)
             \/ Raise(h) \/ RaiseInFirstTime(h) \/ ForgetFails(h)
      PROVE  Aside
  <2>1. UNCHANGED <<escalation, published, overtaken, accepted, request, target>>
    BY <1>2 DEF Deliver, FirstTime, Inspect, Add, Ack, Forget, Raise, RaiseInFirstTime, ForgetFails,
       Leave, stores, history, locals
  <2>2. \E next : Goto(h, next)
    BY <1>2 DEF Deliver, FirstTime, Inspect, Add, Ack, Forget, Raise, RaiseInFirstTime, ForgetFails,
       Leave
  <2>3. QED
    BY <2>1, <2>2, <1>q, <1>g DEF Same
<1>3. ASSUME NEW h \in Handlers, SaveNew(h) \/ Reopen(h)
      PROVE  Aside \/ \E i \in Invoices : Opens(h, i)
  <2>1. /\ pc[h] \in {"save_new", "reopen"} /\ event[h] \in Events /\ Subject(h) \in Invoices
        /\ UNCHANGED <<request, target, published, accepted>>
    BY <1>3, HandlerLocals DEF SaveNew, Reopen, locals, history
  <2>2. CASE UNCHANGED <<escalation, overtaken>>
    <3>1. \E next : Goto(h, next)
      BY <1>3 DEF SaveNew, Reopen
    <3>2. QED
      BY <2>1, <2>2, <3>1, <1>q, <1>g DEF Same
  <2>3. CASE /\ escalation' = [escalation EXCEPT ![Subject(h)] =
                   [status |-> "pending", review |-> event[h], by |-> None]]
             /\ \/ escalation[Subject(h)] = None /\ UNCHANGED overtaken
                \/ HasStatus(Subject(h), {"needs_info"}) /\ Overtake(Subject(h), CallsOn(Subject(h)))
             /\ Goto(h, "add")
    <3>1. Opens(h, Subject(h))
      BY <2>1, <2>3, OpenedTyped DEF Opens, Goto
    <3>2. QED
      BY <2>1, <3>1
  <2>4. QED
    BY <1>3, <2>2, <2>3 DEF SaveNew, Reopen, history
<1>4. ASSUME NEW a \in Approvers, NEW i \in Invoices, NEW verdict \in Verdicts, Post(a, i, verdict)
      PROVE  Aside
  <2>1. UNCHANGED <<escalation, published, overtaken, accepted, target>>
    BY <1>4 DEF Post, stores, history
  <2>2. /\ pc[a] = "idle" /\ pc'[a] = "resolve" /\ \A v \in Viewers : Same(v)
        /\ \A b \in Approvers : b # a => Same(b) /\ request'[b] = request[b]
    BY <1>4, <1>a, <1>r DEF Post
  <2>3. QED
    BY <2>1, <2>2 DEF Aside, Same, SettledPcs
<1>5. ASSUME NEW a \in Approvers, Resolve(a) \/ ResolveFails(a)
      PROVE  Aside \/ \E i \in Invoices : Settles(a, i)
  <2>1. pc[a] = "resolve" /\ Invoice(a) \in Invoices /\ request[a] \in Request
    BY <1>5, ApproverLocals DEF Resolve, ResolveFails
  <2>2. CASE UNCHANGED stores /\ Answer(a, FALSE)
    <3>1. UNCHANGED <<escalation, published, overtaken, accepted, target>>
      BY <1>5, <2>2 DEF Resolve, ResolveFails, stores, Answer
    <3>2. /\ pc'[a] = "idle" /\ \A v \in Viewers : Same(v)
          /\ \A b \in Approvers : b # a => Same(b) /\ request'[b] = request[b]
      BY <2>2, <1>a, <1>r DEF Answer
    <3>3. QED
      BY <2>1, <3>1, <3>2 DEF Aside, Same, SettledPcs
  <2>3. CASE OpenForVerdict(Invoice(a)) /\ Settle(a)
    <3> DEFINE i == Invoice(a)
    <3>1. /\ HasStatus(i, {"pending"})
          /\ escalation'[i] = [status |-> request[a].verdict, review |-> escalation[i].review,
                               by |-> a]
          /\ \A j \in Invoices : j # i => escalation'[j] = escalation[j]
      BY <2>1, <2>3, SettleTyped DEF OpenForVerdict
    <3>2. UNCHANGED <<target, published, accepted, overtaken>>
      BY <1>5, <2>3 DEF Resolve, ResolveFails, Answer, history
    <3>3. CASE Goto(a, "publish") /\ request' = [request EXCEPT ![a] = Noted(@, escalation[i])]
      <4>1. request'[a] = Noted(request[a], escalation[i])
        BY <3>3 DEF TypeInv, TypeOK
      <4>2. /\ request'[a].invoice = i /\ request'[a].verdict = request[a].verdict
            /\ request'[a].review = escalation[i].review
        BY <4>1, <2>1 DEF Noted, Request, Invoice
      <4>3. escalation'[i] = Settled(a)'
        BY <3>1, <4>2 DEF Settled
      <4>4. Settles(a, i)
        BY <2>1, <3>1, <3>2, <3>3, <4>3 DEF Settles, Goto
      <4>5. QED
        BY <2>1, <4>4
    <3>4. CASE Answer(a, FALSE) /\ Fault("lost")
      <4>1. faults'["lost"] > 0
        BY <3>4, <1>f DEF AllFaultKinds
      <4>2. pc' = [pc EXCEPT ![a] = "idle"] /\ request' = [request EXCEPT ![a] = None]
        BY <3>4 DEF Answer, Goto
      <4>3. Settles(a, i)
        BY <2>1, <3>1, <3>2, <4>1, <4>2 DEF Settles
      <4>4. QED
        BY <2>1, <4>3
    <3>5. QED
      BY <1>5, <2>3, <3>3, <3>4, <2>2 DEF Resolve, ResolveFails
  <2>4. QED
    BY <1>5, <2>2, <2>3 DEF Resolve, ResolveFails
<1>6. ASSUME NEW a \in Approvers, Publish(a) \/ PublishFails(a) PROVE Publishes(a)
  <2>1. Fault("lost") => faults'["lost"] > 0
    BY <1>f DEF AllFaultKinds
  <2>2. QED
    BY <1>6, <2>1
    DEF Publish, PublishFails, Publishes, Sent, Published, Goto, stores, history, locals
<1>7. ASSUME NEW a \in Approvers, Revert(a) PROVE \E i \in Invoices : Reverts(a, i)
  <2>1. Reverts(a, Invoice(a)) /\ Invoice(a) \in Invoices
    BY <1>7, RevertTyped DEF Revert, Reverts, Goto, locals
  <2>2. QED
    BY <2>1
<1>8. ASSUME NEW a \in Approvers, Dequeue(a) \/ Requeue(a) \/ RollbackFails(a) \/ DequeueFails(a)
      PROVE  Aside
  <2>1. UNCHANGED <<escalation, published, overtaken, target>>
    BY <1>8 DEF Dequeue, Requeue, RollbackFails, DequeueFails, Answer, stores
  <2>2. /\ pc'[a] = "idle" /\ \A v \in Viewers : Same(v)
        /\ \A b \in Approvers : b # a => Same(b) /\ request'[b] = request[b]
    BY <1>8, <1>a, <1>r DEF Dequeue, Requeue, RollbackFails, DequeueFails, Answer
  <2>3. pc[a] \in {"publish", "revert"} => faults'["rollback"] > 0
    BY <1>8, <1>f DEF Dequeue, Requeue, RollbackFails, DequeueFails, AllFaultKinds
  <2>4. \/ accepted' = accepted
        \/ pc[a] = "dequeue" /\ accepted' = accepted \cup {Published(a)}
    <3>1. \A ok : Answer(a, ok) =>
            accepted' = IF ok THEN accepted \cup {Published(a)} ELSE accepted
      BY DEF Answer, Published
    <3>2. Answer(a, FALSE) \/ (pc[a] = "dequeue" /\ Answer(a, TRUE))
      BY <1>8 DEF Dequeue, Requeue, RollbackFails, DequeueFails
    <3>3. QED
      BY <3>1, <3>2
  <2>5. QED
    BY <2>1, <2>2, <2>3, <2>4 DEF Aside, Same, SettledPcs
<1>9. ASSUME NEW v \in Viewers, ListQueue(v) \/ Read(v) \/ Evict(v) \/ ViewFails(v) PROVE Aside
  <2>1. UNCHANGED <<escalation, published, overtaken, accepted, request>>
    BY <1>9 DEF ListQueue, Read, Evict, ViewFails, stores, history
  <2>2. /\ \A a \in Approvers : Same(a)
        /\ \A u \in Viewers : u # v => Same(u) /\ target'[u] = target[u]
    BY <1>9, <1>t, WorkersApart DEF ListQueue, Read, Evict, ViewFails, Goto, Same, TypeInv, TypeOK
  <2>3. pc'[v] = "evict" => HasStatus(target'[v], Statuses \ {"pending"})
    <3>1. CASE Read(v)
      <4>1. PICK i \in todo[v] : \E record \in {escalation[i], None} :
              /\ Finds(i, record)
              /\ \/ /\ Evictable(record)
                    /\ target' = [target EXCEPT ![v] = i]
                 \/ pc'[v] # "evict"
        BY <3>1, <1>t, WorkersApart DEF Read, Goto
      <4>2. i \in Invoices /\ escalation[i] \in Escalation \cup {None}
        BY DEF TypeInv, TypeOK
      <4>3. \A record \in {escalation[i], None} :
              Finds(i, record) /\ Evictable(record) => HasStatus(i, Statuses \ {"pending"})
        BY <4>2 DEF Evictable, Finds, HasStatus, Escalation
      <4>4. target' = [target EXCEPT ![v] = i] => target'[v] = i
        BY DEF TypeInv, TypeOK
      <4>5. HasStatus(i, Statuses \ {"pending"}) /\ target'[v] = i =>
              HasStatus(target'[v], Statuses \ {"pending"})
        OBVIOUS
      <4>6. QED
        BY <4>1, <4>3, <4>4, <4>5
    <3>2. CASE ListQueue(v) \/ Evict(v) \/ ViewFails(v)
      BY <3>2, <1>t, WorkersApart DEF ListQueue, Evict, ViewFails, Goto
    <3>3. QED
      BY <1>9, <3>1, <3>2
  <2>4. QED
    BY <2>1, <2>2, <2>3 DEF Aside, Same
<1>10. CASE Crash
  <2>1. faults'["crash"] > 0
    BY <1>10, <1>f DEF Crash, AllFaultKinds
  <2>2. QED
    BY <1>10, <2>1, WorkersApart DEF Crash, Aside, stores, history, SettledPcs
<1>11. QED
  BY <1>1, <1>2, <1>3, <1>4, <1>5, <1>6, <1>7, <1>8, <1>9, <1>10 DEF Next, Subscriber, Endpoint

--------------------------------------------------------------------------------
(* Whose the record is.  While an approver is about to publish, roll back or *)
(* dequeue, the record of the invoice is the one it settled, unless the      *)
(* invoice became pending again under that very kind of call.                *)

Owns(a) ==
  \/ pc[a] \in {"publish", "revert"} /\ Undisturbed(Invoice(a))
  \/ pc[a] = "dequeue" /\ overtaken[Invoice(a)] = {}

OwnedInv ==
  /\ \A a \in Approvers : Owns(a) => escalation[Invoice(a)] = Settled(a)
  /\ \A v \in Viewers : pc[v] = "evict" /\ overtaken[target[v]] = {} =>
       HasStatus(target[v], Statuses \ {"pending"})

LEMMA InCallsOn ==
  ASSUME TypeInv
  PROVE  /\ \A a \in Approvers : pc[a] \in {"publish", "revert", "dequeue"} =>
              pc[a] \in CallsOn(Invoice(a))
         /\ \A v \in Viewers : pc[v] = "evict" => pc[v] \in CallsOn(target[v])
<1>1. \A a \in Approvers : pc[a] # "idle" => request[a] # None
  BY SentinelAssumption DEF TypeInv, LocalInv, ApproverTyped
<1>2. QED
  BY <1>1 DEF CallsOn, SettledPcs, Invoice

LEMMA Overtaken ==
  ASSUME TypeInv, NEW i \in Invoices, NEW calls, Overtake(i, calls)
  PROVE  /\ overtaken'[i] = overtaken[i] \cup calls
         /\ \A j \in Invoices : j # i => overtaken'[j] = overtaken[j]
BY DEF Overtake, TypeInv, TypeOK

\* Once a review is disturbed it stays so.
LEMMA OvertakenGrows ==
  ASSUME TypeInv, [Next]_vars
  PROVE  \A i \in Invoices : overtaken[i] \subseteq overtaken'[i]
<1>1. CASE UNCHANGED overtaken
  BY <1>1
<1>2. CASE \E i \in Invoices : Overtake(i, CallsOn(i)) \/ Overtake(i, CallsOn(i) \ {"revert"})
  <2>1. PICK i \in Invoices : Overtake(i, CallsOn(i)) \/ Overtake(i, CallsOn(i) \ {"revert"})
    BY <1>2
  <2>2. \E calls : Overtake(i, calls)
    BY <2>1
  <2>3. QED
    BY <2>2, Overtaken
<1>3. QED
  BY StepKinds, <1>1, <1>2 DEF Aside, Opens, Settles, Publishes, Reverts

LEMMA MovedPc ==
  ASSUME TypeInv, NEW w \in Workers, NEW next, pc' = [pc EXCEPT ![w] = next]
  PROVE  pc'[w] = next /\ \A x \in Workers : x # w => Same(x)
BY DEF TypeInv, TypeOK, Same

LEMMA OwnedStep == ASSUME TypeInv, OwnedInv, [Next]_vars PROVE OwnedInv'
<1>t. TypeInv'
  BY TypeStep
<1>i. /\ \A a \in Approvers : pc[a] \in {"publish", "revert", "dequeue"} => Invoice(a) \in Invoices
      /\ \A v \in Viewers : pc[v] = "evict" => target[v] \in Invoices
  BY PublishedTyped DEF TypeInv, TypeOK, LocalInv, ViewerTyped
<1>o. ASSUME NEW a \in Approvers, Same(a), request'[a] = request[a], Owns(a)'
      PROVE  Owns(a) /\ Invoice(a)' = Invoice(a) /\ Settled(a)' = Settled(a)
  <2>1. Invoice(a)' = Invoice(a) /\ Settled(a)' = Settled(a)
    BY <1>o DEF Invoice, Settled
  <2>2. pc[a] \in {"publish", "revert", "dequeue"}
    BY <1>o DEF Owns, Same
  <2>3. Invoice(a) \in Invoices /\ overtaken[Invoice(a)] \subseteq overtaken'[Invoice(a)]
    BY <2>2, <1>i, OvertakenGrows
  <2>4. QED
    BY <1>o, <2>1, <2>3 DEF Owns, Same, Undisturbed
<1>v. ASSUME NEW v \in Viewers, Same(v), pc'[v] = "evict", UNCHANGED target, overtaken'[target'[v]] = {}
      PROVE  HasStatus(target[v], Statuses \ {"pending"}) /\ target[v] \in Invoices
  BY <1>v, <1>i, OvertakenGrows DEF OwnedInv, Same
<1>1. CASE Aside
  <2>1. ASSUME NEW a \in Approvers, Owns(a)' PROVE escalation'[Invoice(a)'] = Settled(a)'
    <3>1. Same(a) /\ request'[a] = request[a]
      BY <1>1, <2>1 DEF Aside, Owns, SettledPcs
    <3>2. QED
      BY <1>1, <2>1, <3>1, <1>o DEF Aside, OwnedInv
  <2>2. ASSUME NEW v \in Viewers, pc'[v] = "evict", overtaken'[target'[v]] = {}
        PROVE  HasStatus(target[v], Statuses \ {"pending"})'
    <3>1. \A i : HasStatus(i, Statuses \ {"pending"})' <=> HasStatus(i, Statuses \ {"pending"})
      BY <1>1 DEF Aside, HasStatus
    <3>2. CASE pc[v] = "evict" /\ target'[v] = target[v]
      <4>1. HasStatus(target[v], Statuses \ {"pending"})
        BY <1>1, <2>2, <3>2 DEF Aside, OwnedInv
      <4>2. QED
        BY <1>1, <3>2, <4>1 DEF Aside, HasStatus
    <3>3. CASE HasStatus(target'[v], Statuses \ {"pending"})
      BY <1>1, <3>3 DEF Aside, HasStatus
    <3>4. QED
      BY <1>1, <2>2, <3>2, <3>3 DEF Aside
  <2>3. QED
    BY <2>1, <2>2 DEF OwnedInv
<1>2. ASSUME NEW h \in Handlers, NEW i \in Invoices, Opens(h, i) PROVE OwnedInv'
  <2>1. /\ \A a \in Approvers : Same(a) /\ request'[a] = request[a]
        /\ \A v \in Viewers : Same(v)
        /\ UNCHANGED target
    BY <1>2, WorkersApart, MovedPc DEF Opens
  <2>2. escalation[i] # None => CallsOn(i) \subseteq overtaken'[i]
    BY <1>2, Overtaken DEF Opens
  <2>3. \A j \in Invoices : j # i => escalation'[j] = escalation[j]
    BY <1>2 DEF Opens
  <2>4. ASSUME NEW a \in Approvers, Owns(a)' PROVE escalation'[Invoice(a)'] = Settled(a)'
    <3>1. Owns(a) /\ Invoice(a)' = Invoice(a) /\ Settled(a)' = Settled(a)
      BY <2>1, <2>4, <1>o
    <3>2. /\ Invoice(a) \in Invoices /\ escalation[Invoice(a)] = Settled(a)
          /\ escalation[Invoice(a)] # None
          /\ pc[a] \in CallsOn(Invoice(a))
      BY <3>1, <1>i, InCallsOn DEF OwnedInv, Owns, TypeInv, LocalInv, ApproverTyped
    <3>3. Invoice(a) # i
      <4> SUFFICES ASSUME Invoice(a) = i PROVE FALSE
        OBVIOUS
      <4>1. pc[a] \in overtaken'[i]
        BY <2>2, <3>2
      <4>2. QED
        BY <2>1, <2>4, <3>1, <4>1 DEF Owns, Undisturbed, Same
    <3>4. QED
      BY <2>3, <3>1, <3>2, <3>3
  <2>5. ASSUME NEW v \in Viewers, pc'[v] = "evict", overtaken'[target'[v]] = {}
        PROVE  HasStatus(target[v], Statuses \ {"pending"})'
    <3>1. HasStatus(target[v], Statuses \ {"pending"}) /\ target[v] \in Invoices
      BY <2>1, <2>5, <1>v
    <3>2. pc[v] \in CallsOn(target[v])
      BY <2>1, <2>5, InCallsOn DEF Same
    <3>3. target[v] # i
      BY <2>1, <2>2, <2>5, <3>1, <3>2 DEF HasStatus
    <3>4. QED
      BY <2>1, <2>3, <3>1, <3>3 DEF HasStatus
  <2>6. QED
    BY <2>4, <2>5 DEF OwnedInv
<1>3. ASSUME NEW a \in Approvers, NEW i \in Invoices, Settles(a, i) PROVE OwnedInv'
  <2>1. /\ \A b \in Approvers : b # a => Same(b) /\ request'[b] = request[b]
        /\ \A v \in Viewers : Same(v)
        /\ UNCHANGED target
    BY <1>3, WorkersApart, MovedPc DEF Settles, TypeInv, TypeOK
  <2>2. /\ HasStatus(i, {"pending"})
        /\ \A j \in Invoices : j # i => escalation'[j] = escalation[j]
        /\ escalation'[i].status = request[a].verdict
    BY <1>3 DEF Settles
  <2>3. /\ request[a].verdict \in Statuses \ {"pending"}
        /\ escalation'[i] # None
    <3>1. request[a].verdict \in Statuses \ {"pending"}
      BY <1>3, ApproverLocals DEF Settles, Statuses, Final
    <3>2. escalation[i] \in Escalation
      BY <2>2 DEF HasStatus, TypeInv, TypeOK
    <3>3. escalation'[i] = [status |-> request[a].verdict, review |-> escalation[i].review,
                            by |-> a]
      BY <1>3 DEF Settles
    <3>4. escalation'[i] \in Escalation
      BY <3>1, <3>2, <3>3 DEF Escalation
    <3>5. QED
      BY <3>1, <3>4, SentinelAssumption
  <2>4. ASSUME NEW b \in Approvers, Owns(b)', b # a PROVE escalation'[Invoice(b)'] = Settled(b)'
    <3>1. Owns(b) /\ Invoice(b)' = Invoice(b) /\ Settled(b)' = Settled(b)
      BY <2>1, <2>4, <1>o
    <3>2. Invoice(b) \in Invoices /\ escalation[Invoice(b)] = Settled(b)
      BY <3>1, <1>i DEF OwnedInv, Owns
    <3>3. Settled(b).status # "pending"
      BY <3>1, ApproverLocals DEF Settled, Owns
    <3>4. Invoice(b) # i
      BY <2>2, <3>2, <3>3 DEF HasStatus
    <3>5. QED
      BY <2>2, <3>1, <3>2, <3>4
  <2>5. Owns(a)' => escalation'[Invoice(a)'] = Settled(a)'
    <3>1. CASE pc' = [pc EXCEPT ![a] = "idle"]
      BY <3>1, WorkersApart, MovedPc DEF Owns
    <3>2. CASE /\ request' = [request EXCEPT ![a] = Noted(@, escalation[i])]
               /\ escalation'[i] = Settled(a)'
      <4>1. request'[a] = Noted(request[a], escalation[i])
        BY <3>2 DEF TypeInv, TypeOK
      <4>2. request[a] \in Request
        BY <1>3, ApproverLocals DEF Settles
      <4>3. Invoice(a)' = i
        BY <1>3, <4>1, <4>2 DEF Noted, Invoice, Settles, Request
      <4>4. QED
        BY <3>2, <4>3
    <3>3. QED
      BY <1>3, <3>1, <3>2 DEF Settles
  <2>6. ASSUME NEW v \in Viewers, pc'[v] = "evict", overtaken'[target'[v]] = {}
        PROVE  HasStatus(target[v], Statuses \ {"pending"})'
    <3>1. HasStatus(target[v], Statuses \ {"pending"}) /\ target[v] \in Invoices
      BY <2>1, <2>6, <1>v
    <3>2. CASE target[v] # i
      BY <2>1, <2>2, <3>1, <3>2 DEF HasStatus
    <3>3. CASE target[v] = i
      BY <2>1, <2>2, <2>3, <3>3 DEF HasStatus
    <3>4. QED
      BY <3>2, <3>3
  <2>7. QED
    BY <2>4, <2>5, <2>6 DEF OwnedInv
<1>4. ASSUME NEW a \in Approvers, Publishes(a) PROVE OwnedInv'
  <2>1. /\ \A b \in Approvers : b # a => Same(b)
        /\ \A v \in Viewers : Same(v)
        /\ UNCHANGED <<escalation, request, target, overtaken>>
        /\ pc[a] = "publish" /\ pc'[a] \in {"dequeue", "revert"}
    BY <1>4, WorkersApart, MovedPc DEF Publishes
  <2>2. ASSUME NEW b \in Approvers, Owns(b)' PROVE escalation'[Invoice(b)'] = Settled(b)'
    <3>1. Owns(b)
      BY <2>1, <2>2 DEF Owns, Same, Undisturbed, Invoice
    <3>2. QED
      BY <2>1, <3>1 DEF OwnedInv, Invoice, Settled
  <2>3. \A v \in Viewers : pc'[v] = "evict" /\ overtaken'[target'[v]] = {} =>
          HasStatus(target[v], Statuses \ {"pending"})'
    BY <2>1, <1>v DEF HasStatus, Same
  <2>4. QED
    BY <2>2, <2>3 DEF OwnedInv
<1>5. ASSUME NEW a \in Approvers, NEW i \in Invoices, Reverts(a, i) PROVE OwnedInv'
  <2>1. /\ \A b \in Approvers : b # a => Same(b)
        /\ \A v \in Viewers : Same(v)
        /\ UNCHANGED <<request, target>>
        /\ i = Invoice(a) /\ pc[a] = "revert" /\ pc'[a] = "requeue"
    BY <1>5, WorkersApart, MovedPc DEF Reverts
  <2>2. /\ CallsOn(i) \ {"revert"} \subseteq overtaken'[i]
        /\ \A j \in Invoices : j # i => escalation'[j] = escalation[j]
    BY <1>5, Overtaken DEF Reverts
  <2>3. ASSUME NEW b \in Approvers, Owns(b)' PROVE escalation'[Invoice(b)'] = Settled(b)'
    <3>1. b # a
      BY <2>1, <2>3 DEF Owns
    <3>2. Owns(b) /\ Invoice(b)' = Invoice(b) /\ Settled(b)' = Settled(b)
      BY <2>1, <2>3, <3>1, <1>o
    <3>3. /\ Invoice(b) \in Invoices /\ escalation[Invoice(b)] = Settled(b)
          /\ pc[b] \in CallsOn(Invoice(b))
      BY <3>2, <1>i, InCallsOn DEF OwnedInv, Owns
    <3>4. Invoice(b) # i
      <4> SUFFICES ASSUME Invoice(b) = i PROVE FALSE
        OBVIOUS
      <4>1. CASE pc[b] = "revert"
        <5>1. Undisturbed(i)
          BY <3>2, <4>1 DEF Owns
        <5>2. escalation[i] = Settled(a)
          BY <2>1, <5>1 DEF OwnedInv, Owns
        <5>3. QED
          BY <3>1, <3>3, <5>2 DEF Settled
      <4>2. CASE pc[b] # "revert"
        <5>1. pc[b] \in overtaken'[i]
          BY <2>2, <3>3, <4>2
        <5>2. QED
          BY <2>1, <2>3, <3>1, <3>2, <4>2, <5>1 DEF Owns, Undisturbed, Same
      <4>3. QED
        BY <4>1, <4>2
    <3>5. QED
      BY <2>2, <3>2, <3>3, <3>4
  <2>4. ASSUME NEW v \in Viewers, pc'[v] = "evict", overtaken'[target'[v]] = {}
        PROVE  HasStatus(target[v], Statuses \ {"pending"})'
    <3>1. HasStatus(target[v], Statuses \ {"pending"}) /\ target[v] \in Invoices
      BY <2>1, <2>4, <1>v
    <3>2. pc[v] \in CallsOn(target[v])
      BY <2>1, <2>4, InCallsOn DEF Same
    <3>3. pc[v] = "evict"
      BY <2>1, <2>4 DEF Same
    <3>4. target[v] # i
      BY <2>1, <2>2, <2>4, <3>2, <3>3
    <3>5. QED
      BY <2>1, <2>2, <3>1, <3>4 DEF HasStatus
  <2>5. QED
    BY <2>3, <2>4 DEF OwnedInv
<1>6. QED
  BY StepKinds, <1>1, <1>2, <1>3, <1>4, <1>5

LEMMA OwnedInvariant == Spec => [](TypeInv /\ OwnedInv)
<1>1. Init => OwnedInv
  BY WorkersApart DEF Init, Fresh, OwnedInv, Owns
<1>2. TypeInv /\ OwnedInv /\ [Next]_vars => OwnedInv'
  BY OwnedStep
<1>3. QED
  BY <1>1, <1>2, TypeInvariant, PTL DEF Spec

\* An approval or a rejection is only ever taken back by the rollback of the very
\* approver who gave it, whatever is delivered twice and whatever fails, as long as
\* the invoice was not reopened under a publish (api.py:150-185).
THEOREM TakenBackByItsGiver == Spec => OnlyOwnRollback
<1>1. ASSUME TypeInv, OwnedInv, [Next]_vars, NEW i \in Invoices,
             HasStatus(i, Final), escalation'[i] # escalation[i], Undisturbed(i)
      PROVE  \E a \in Approvers : pc[a] = "revert" /\ Invoice(a) = i /\ escalation[i].by = a
  <2>1. PICK a \in Approvers : Reverts(a, i)
    BY <1>1, StepKinds DEF Aside, Opens, Settles, Publishes, Reverts, HasStatus, Final
  <2>2. escalation[i] = Settled(a)
    BY <1>1, <2>1 DEF OwnedInv, Owns, Reverts
  <2>3. QED
    BY <2>1, <2>2 DEF Reverts, Settled
<1>2. TypeInv /\ OwnedInv /\ [Next]_vars =>
        [\A i \in Invoices :
           HasStatus(i, Final) /\ escalation'[i] # escalation[i] /\ Undisturbed(i) =>
             \E a \in Approvers : /\ pc[a] = "revert"
                                  /\ Invoice(a) = i
                                  /\ escalation[i].by = a]_vars
  BY <1>1
<1>3. QED
  BY <1>2, OwnedInvariant, PTL DEF Spec, OnlyOwnRollback

--------------------------------------------------------------------------------
(* What stands.  An approval or a rejection that was answered or published is *)
(* what the record says, and nobody is about to take it back.                 *)

Stands(r) ==
  /\ r \in Resolution
  /\ Payload[r.review].invoice = r.invoice
  /\ r.verdict \in Final /\ Undisturbed(r.invoice) =>
       /\ escalation[r.invoice] = [status |-> r.verdict, review |-> r.review, by |-> r.by]
       /\ \A a \in Approvers : pc[a] \in {"publish", "revert"} => Invoice(a) # r.invoice

StandInv ==
  /\ \A r \in accepted : Stands(r)
  /\ \A a \in Approvers : pc[a] = "dequeue" => Stands(Published(a))
  /\ ~Suffered({"lost"}) => \A r \in published : Stands(r)

\* What stands stays.
LEMMA StandsStays ==
  ASSUME TypeInv, [Next]_vars, NEW r, Stands(r) PROVE Stands(r)'
<1> SUFFICES ASSUME r.verdict \in Final, Undisturbed(r.invoice)'
             PROVE  /\ escalation'[r.invoice] = escalation[r.invoice]
                    /\ \A a \in Approvers : pc'[a] \in {"publish", "revert"} =>
                         Invoice(a)' # r.invoice
  <2>1. Undisturbed(r.invoice)' => Undisturbed(r.invoice)
    BY OvertakenGrows DEF Stands, Resolution, Undisturbed
  <2>2. QED
    BY <2>1 DEF Stands
<1> DEFINE j == r.invoice
<1>1. /\ j \in Invoices /\ Undisturbed(j)
      /\ escalation[j] = [status |-> r.verdict, review |-> r.review, by |-> r.by]
      /\ \A a \in Approvers : pc[a] \in {"publish", "revert"} => Invoice(a) # j
  BY OvertakenGrows DEF Stands, Resolution, Undisturbed
<1>2. ~HasStatus(j, {"pending"}) /\ ~HasStatus(j, {"needs_info"})
  BY <1>1 DEF HasStatus, Final
<1>3. escalation[j] # None
  <2>1. escalation[j] \in Escalation
    BY <1>1 DEF Stands, Resolution, Escalation, Final, Statuses
  <2>2. QED
    BY <2>1, SentinelAssumption
<1> HIDE DEF j
<1>4. CASE Aside
  BY <1>1, <1>4 DEF Aside, Same, SettledPcs, Invoice, j
<1>5. ASSUME NEW h \in Handlers, NEW i \in Invoices, Opens(h, i)
      PROVE  /\ escalation'[j] = escalation[j]
             /\ \A a \in Approvers : pc'[a] \in {"publish", "revert"} => Invoice(a)' # j
  <2>1. i # j
    BY <1>2, <1>3, <1>5 DEF Opens
  <2>2. \A a \in Approvers : Same(a) /\ Invoice(a)' = Invoice(a)
    BY <1>5, WorkersApart, MovedPc DEF Opens, Invoice
  <2>3. QED
    BY <1>1, <1>5, <2>1, <2>2 DEF Opens, Same
<1>6. ASSUME NEW b \in Approvers, NEW i \in Invoices, Settles(b, i)
      PROVE  /\ escalation'[j] = escalation[j]
             /\ \A a \in Approvers : pc'[a] \in {"publish", "revert"} => Invoice(a)' # j
  <2>1. i # j
    BY <1>2, <1>6 DEF Settles
  <2>2. \A a \in Approvers : a # b => Same(a) /\ Invoice(a)' = Invoice(a)
    BY <1>6, WorkersApart, MovedPc DEF Settles, Invoice, TypeInv, TypeOK
  <2>3. pc'[b] \in {"publish", "revert"} => Invoice(b)' # j
    <3>1. CASE pc' = [pc EXCEPT ![b] = "idle"]
      BY <3>1, WorkersApart, MovedPc
    <3>2. CASE request' = [request EXCEPT ![b] = Noted(@, escalation[i])]
      <4>1. request'[b] = Noted(request[b], escalation[i])
        BY <3>2 DEF TypeInv, TypeOK
      <4>2. request[b] \in Request
        BY <1>6, ApproverLocals DEF Settles
      <4>3. Invoice(b)' = i
        BY <1>6, <4>1, <4>2 DEF Noted, Invoice, Settles, Request
      <4>4. QED
        BY <2>1, <4>3
    <3>3. QED
      BY <1>6, <3>1, <3>2 DEF Settles
  <2>4. QED
    BY <1>1, <1>6, <2>1, <2>2, <2>3 DEF Settles, Same
<1>7. ASSUME NEW b \in Approvers, Publishes(b)
      PROVE  /\ escalation'[j] = escalation[j]
             /\ \A a \in Approvers : pc'[a] \in {"publish", "revert"} => Invoice(a)' # j
  <2>1. /\ \A a \in Approvers : a # b => Same(a)
        /\ UNCHANGED <<escalation, request>>
        /\ pc[b] = "publish"
    BY <1>7, WorkersApart, MovedPc DEF Publishes
  <2>2. QED
    BY <1>1, <2>1 DEF Same, Invoice
<1>8. ASSUME NEW b \in Approvers, NEW i \in Invoices, Reverts(b, i)
      PROVE  /\ escalation'[j] = escalation[j]
             /\ \A a \in Approvers : pc'[a] \in {"publish", "revert"} => Invoice(a)' # j
  <2>1. /\ \A a \in Approvers : a # b => Same(a)
        /\ UNCHANGED request
        /\ pc[b] = "revert" /\ i = Invoice(b) /\ pc'[b] = "requeue"
    BY <1>8, WorkersApart, MovedPc DEF Reverts
  <2>2. QED
    BY <1>1, <1>8, <2>1 DEF Same, Invoice, Reverts
<1>9. QED
  BY StepKinds, <1>4, <1>5, <1>6, <1>7, <1>8 DEF j

\* What is published is what the record says.
LEMMA PublishedStands ==
  ASSUME TypeInv, OwnedInv, [Next]_vars, NEW a \in Approvers, Publishes(a), pc'[a] = "dequeue"
  PROVE  Stands(Published(a))' /\ Published(a)' = Published(a)
<1> DEFINE r == Published(a)
           i == Invoice(a)
<1>1. r \in Resolution /\ i \in Invoices /\ Payload[r.review].invoice = i
  BY PublishedTyped DEF Publishes, TypeInv, LocalInv, ApproverTyped, Published
<1>2. /\ \A b \in Approvers : b # a => Same(b)
      /\ UNCHANGED <<escalation, request, overtaken>>
      /\ pc[a] = "publish"
  BY WorkersApart, MovedPc DEF Publishes
<1>3. /\ r.invoice = i /\ r.verdict = request[a].verdict /\ r.review = request[a].review
      /\ r.by = a
  BY DEF Published
<1>4. r' = r /\ i' = i
  BY <1>2 DEF Published, Invoice
<1> HIDE DEF r, i
<1>5. ASSUME Undisturbed(i)
      PROVE  /\ escalation[i] = [status |-> r.verdict, review |-> r.review, by |-> r.by]
             /\ \A b \in Approvers : pc'[b] \in {"publish", "revert"} => Invoice(b) # i
  <2>1. escalation[i] = Settled(a)
    BY <1>2, <1>5 DEF OwnedInv, Owns, i
  <2>2. ASSUME NEW b \in Approvers, pc'[b] \in {"publish", "revert"}, Invoice(b) = i PROVE FALSE
    <3>1. b # a /\ pc[b] = pc'[b]
      BY <1>2, <2>2 DEF Same
    <3>2. escalation[i] = Settled(b)
      BY <1>5, <2>2, <3>1 DEF OwnedInv, Owns
    <3>3. QED
      BY <2>1, <3>1, <3>2 DEF Settled
  <2>3. QED
    BY <1>3, <2>1, <2>2 DEF Settled
<1>6. \A b \in Approvers : Invoice(b)' = Invoice(b)
  BY <1>2 DEF Invoice
<1>7. Undisturbed(i)' = Undisturbed(i)
  BY <1>2, <1>4 DEF Undisturbed
<1>8. QED
  BY <1>1, <1>2, <1>3, <1>4, <1>5, <1>6, <1>7 DEF Stands, r, Undisturbed

LEMMA StandStep == ASSUME TypeInv, OwnedInv, StandInv, [Next]_vars PROVE StandInv'
<1>1. \A r : Stands(r) => Stands(r)'
  BY StandsStays
<1>2. \A a \in Approvers : Same(a) /\ request'[a] = request[a] => Published(a)' = Published(a)
  BY DEF Published, Invoice
<1>3. \A a \in Approvers : pc'[a] = "dequeue" => Stands(Published(a))'
  <2> SUFFICES ASSUME NEW a \in Approvers, pc'[a] = "dequeue" PROVE Stands(Published(a))'
    OBVIOUS
  <2>1. CASE Same(a) /\ request'[a] = request[a]
    <3>1. Published(a)' = Published(a) /\ Stands(Published(a))
      BY <1>2, <2>1 DEF StandInv, Same
    <3>2. QED
      BY <1>1, <3>1 DEF Stands
  <2>2. CASE Publishes(a)
    BY <2>2, PublishedStands
  <2>3. (Same(a) /\ request'[a] = request[a]) \/ Publishes(a)
    <3>1. CASE Aside
      BY <3>1 DEF Aside, SettledPcs
    <3>2. CASE \E h \in Handlers, i \in Invoices : Opens(h, i)
      BY <3>2, WorkersApart, MovedPc DEF Opens
    <3>3. ASSUME NEW b \in Approvers, \E i \in Invoices : Settles(b, i)
          PROVE  Same(a) /\ request'[a] = request[a]
      <4>1. pc'[b] # "dequeue"
        BY <3>3, WorkersApart, MovedPc DEF Settles
      <4>2. QED
        BY <3>3, <4>1, WorkersApart, MovedPc DEF Settles, TypeInv, TypeOK
    <3>4. ASSUME NEW b \in Approvers, Publishes(b)
          PROVE  (Same(a) /\ request'[a] = request[a]) \/ Publishes(a)
      BY <3>4, WorkersApart, MovedPc DEF Publishes
    <3>5. ASSUME NEW b \in Approvers, \E i \in Invoices : Reverts(b, i)
          PROVE  Same(a) /\ request'[a] = request[a]
      <4>1. pc' = [pc EXCEPT ![b] = "requeue"] /\ UNCHANGED request
        BY <3>5 DEF Reverts
      <4>2. pc'[b] = "requeue" /\ \A c \in Approvers : c # b => Same(c)
        BY <4>1, WorkersApart, MovedPc
      <4>3. QED
        BY <4>1, <4>2
    <3>6. QED
      BY StepKinds, <3>1, <3>2, <3>3, <3>4, <3>5
  <2>4. QED
    BY <2>1, <2>2, <2>3
<1>4. \A r \in accepted' : Stands(r)'
  <2>1. \A r \in accepted' : \/ r \in accepted
                             \/ \E a \in Approvers : pc[a] = "dequeue" /\ r = Published(a)
    BY StepKinds DEF Aside, Opens, Settles, Publishes, Reverts
  <2>2. QED
    BY <1>1, <2>1 DEF StandInv
<1>5. ~Suffered({"lost"})' => \A r \in published' : Stands(r)'
  <2> SUFFICES ASSUME ~Suffered({"lost"})' PROVE \A r \in published' : Stands(r)'
    OBVIOUS
  <2>1. ~Suffered({"lost"})
    BY FaultsStay DEF Suffered, AllFaultKinds, TypeInv
  <2>2. \A r \in published : Stands(r)'
    BY <1>1, <2>1 DEF StandInv
  <2>3. CASE published' = published
    BY <2>2, <2>3
  <2>4. CASE \E a \in Approvers : Publishes(a)
    <3>1. PICK a \in Approvers : Publishes(a)
      BY <2>4
    <3>2. CASE pc' = [pc EXCEPT ![a] = "dequeue"] /\ published' = published \cup {Published(a)}
      <4>1. pc'[a] = "dequeue"
        BY <3>2, WorkersApart, MovedPc
      <4>2. Stands(Published(a))' /\ Published(a)' = Published(a)
        BY <3>1, <4>1, PublishedStands
      <4>3. \A r : r = Published(a) => Stands(r)'
        BY <4>2 DEF Stands
      <4>4. QED
        BY <2>2, <3>2, <4>3
    <3>3. CASE published' = published
      BY <2>2, <3>3
    <3>4. QED
      BY <3>1, <3>2, <3>3 DEF Publishes, Suffered
  <2>5. QED
    BY StepKinds, <2>3, <2>4 DEF Aside, Opens, Settles, Reverts
<1>6. QED
  BY <1>3, <1>4, <1>5 DEF StandInv

LEMMA StandInvariant == Spec => [](TypeInv /\ StandInv)
<1>1. Init => StandInv
  BY WorkersApart DEF Init, Fresh, StandInv
<1>2. TypeInv /\ OwnedInv /\ StandInv /\ [Next]_vars => StandInv'
  BY StandStep
<1>3. QED
  BY <1>1, <1>2, OwnedInvariant, PTL DEF Spec

\* However many approvers race, whatever is delivered twice, dies or fails: one review
\* has one approval or rejection that was answered with a 200, and, unless the broker
\* took an event whose publish raised, one that others were told (api.py:18-26).
THEOREM OneVerdict == Spec => []OneVerdictPerReview
<1>1. ASSUME NEW r1, NEW r2, Stands(r1), Stands(r2), r1.review = r2.review,
             {r1.verdict, r2.verdict} \subseteq Final, Undisturbed(r1.invoice)
      PROVE  r1 = r2
  <2>1. r1.invoice = r2.invoice
    BY <1>1 DEF Stands
  <2>2. [status |-> r1.verdict, review |-> r1.review, by |-> r1.by]
          = [status |-> r2.verdict, review |-> r2.review, by |-> r2.by]
    BY <1>1, <2>1 DEF Stands
  <2>3. r1.verdict = r2.verdict /\ r1.by = r2.by
    BY <2>2
  <2>4. QED
    BY <1>1, <2>1, <2>3 DEF Stands, Resolution
<1>2. StandInv => OneVerdictPerReview
  BY <1>1 DEF StandInv, OneVerdictPerReview
<1>3. QED
  BY <1>2, StandInvariant, PTL

--------------------------------------------------------------------------------
(* What was settled is told.  A settled record was published, or the approver *)
(* who settled it is still about to publish it or to take it back.            *)

Telling(i) ==
  \E a \in Approvers : /\ pc[a] \in {"publish", "revert"}
                       /\ Invoice(a) = i
                       /\ escalation[i] = Settled(a)

Told(i) ==
  [invoice |-> i, verdict |-> escalation[i].status,
   review |-> escalation[i].review, by |-> escalation[i].by] \in published

ToldInv ==
  ~Suffered({"lost", "rollback", "crash"}) =>
    \A i \in Invoices : HasStatus(i, Statuses \ {"pending"}) => Told(i) \/ Telling(i)

LEMMA ToldStep == ASSUME TypeInv, ToldInv, [Next]_vars PROVE ToldInv'
<1> SUFFICES ASSUME ~Suffered({"lost", "rollback", "crash"})', NEW j \in Invoices,
                    HasStatus(j, Statuses \ {"pending"})'
             PROVE  Told(j)' \/ Telling(j)'
  BY DEF ToldInv
<1>1. /\ ~(faults'["lost"] > 0) /\ ~(faults'["rollback"] > 0) /\ ~(faults'["crash"] > 0)
      /\ ~Suffered({"lost", "rollback", "crash"})
  BY FaultsStay DEF Suffered, AllFaultKinds, TypeInv
<1>2. HasStatus(j, Statuses \ {"pending"}) => Told(j) \/ Telling(j)
  BY <1>1 DEF ToldInv
<1>s. escalation'[j] = escalation[j] => HasStatus(j, Statuses \ {"pending"})
  BY DEF HasStatus
<1>t. escalation'[j] = escalation[j] /\ published \subseteq published' /\ Told(j) => Told(j)'
  BY DEF Told
<1>p. ASSUME escalation'[j] = escalation[j],
             \A a \in Approvers : pc[a] \in {"publish", "revert"} /\ Invoice(a) = j =>
               pc'[a] \in {"publish", "revert"} /\ request'[a] = request[a],
             Telling(j)
      PROVE  Telling(j)'
  BY <1>p DEF Telling, Invoice, Settled
<1>3. CASE Aside
  <2>1. \A a \in Approvers : pc[a] \in {"publish", "revert"} =>
          pc'[a] \in {"publish", "revert"} /\ request'[a] = request[a]
    BY <1>1, <1>3 DEF Aside, Same
  <2>2. escalation'[j] = escalation[j] /\ published \subseteq published'
    BY <1>3 DEF Aside
  <2>3. QED
    BY <2>1, <2>2, <1>2, <1>s, <1>t, <1>p
<1>4. ASSUME NEW h \in Handlers, NEW i \in Invoices, Opens(h, i) PROVE Told(j)' \/ Telling(j)'
  <2>1. j # i
    BY <1>4 DEF Opens, HasStatus
  <2>2. escalation'[j] = escalation[j] /\ published \subseteq published' /\ UNCHANGED request
    BY <1>4, <2>1 DEF Opens
  <2>3. \A a \in Approvers : Same(a)
    BY <1>4, WorkersApart, MovedPc DEF Opens
  <2>4. QED
    BY <2>2, <2>3, <1>2, <1>s, <1>t, <1>p DEF Same
<1>5. ASSUME NEW b \in Approvers, NEW i \in Invoices, Settles(b, i)
      PROVE  Told(j)' \/ Telling(j)'
  <2>1. /\ pc' = [pc EXCEPT ![b] = "publish"]
        /\ request' = [request EXCEPT ![b] = Noted(@, escalation[i])]
        /\ escalation'[i] = Settled(b)'
        /\ pc[b] = "resolve" /\ i = Invoice(b) /\ published \subseteq published'
    BY <1>1, <1>5 DEF Settles
  <2>2. CASE j = i
    <3>1. request'[b] = Noted(request[b], escalation[i]) /\ request[b] \in Request
      BY <1>5, <2>1, ApproverLocals DEF TypeInv, TypeOK
    <3>2. Invoice(b)' = i
      BY <2>1, <3>1 DEF Noted, Invoice, Request
    <3>3. pc'[b] = "publish"
      BY <2>1, WorkersApart, MovedPc
    <3>4. QED
      BY <2>1, <2>2, <3>2, <3>3 DEF Telling
  <2>3. CASE j # i
    <3>1. escalation'[j] = escalation[j]
      BY <1>5, <2>3 DEF Settles
    <3>2. \A a \in Approvers : a # b => Same(a) /\ request'[a] = request[a]
      BY <2>1, WorkersApart, MovedPc DEF TypeInv, TypeOK
    <3>3. QED
      BY <2>1, <3>1, <3>2, <1>2, <1>s, <1>t, <1>p DEF Same
  <2>4. QED
    BY <2>2, <2>3
<1>6. ASSUME NEW b \in Approvers, Publishes(b) PROVE Told(j)' \/ Telling(j)'
  <2>1. /\ pc[b] = "publish" /\ UNCHANGED <<escalation, request>>
        /\ published \subseteq published'
    BY <1>1, <1>6 DEF Publishes
  <2>2. \A a \in Approvers : a # b => Same(a)
    BY <1>6, WorkersApart, MovedPc DEF Publishes
  <2>3. CASE Told(j)
    BY <2>1, <2>3, <1>t
  <2>4. CASE Telling(j)
    <3>1. PICK a \in Approvers : /\ pc[a] \in {"publish", "revert"}
                                 /\ Invoice(a) = j
                                 /\ escalation[j] = Settled(a)
      BY <2>4 DEF Telling
    <3>2. CASE pc'[a] \in {"publish", "revert"}
      BY <2>1, <3>1, <3>2 DEF Telling, Invoice, Settled
    <3>3. CASE pc'[a] \notin {"publish", "revert"}
      <4>1. a = b
        BY <2>2, <3>1, <3>3 DEF Same
      <4>2. published' = published \cup {Published(a)}
        BY <1>6, <3>3, <4>1, WorkersApart, MovedPc DEF Publishes
      <4>3. Published(a) = [invoice |-> j, verdict |-> escalation[j].status,
                            review |-> escalation[j].review, by |-> escalation[j].by]
        BY <3>1 DEF Published, Settled
      <4>4. QED
        BY <2>1, <4>2, <4>3 DEF Told
    <3>4. QED
      BY <3>2, <3>3
  <2>5. QED
    BY <2>1, <2>3, <2>4, <1>2, <1>s
<1>7. ASSUME NEW b \in Approvers, NEW i \in Invoices, Reverts(b, i)
      PROVE  Told(j)' \/ Telling(j)'
  <2>1. j # i
    BY <1>7 DEF Reverts, HasStatus
  <2>2. /\ escalation'[j] = escalation[j] /\ published \subseteq published'
        /\ UNCHANGED request /\ i = Invoice(b)
    BY <1>7, <2>1 DEF Reverts
  <2>3. \A a \in Approvers : a # b => Same(a)
    BY <1>7, WorkersApart, MovedPc DEF Reverts
  <2>4. QED
    BY <2>1, <2>2, <2>3, <1>2, <1>s, <1>t, <1>p DEF Same
<1>8. QED
  BY StepKinds, <1>3, <1>4, <1>5, <1>6, <1>7

\* Nothing is resolved and left unpublished once nothing is in flight, unless a call took
\* effect and raised, a rollback failed or the process died (api.py:41-43, 150-185).
THEOREM SettledIsTold == Spec => []ResolvedIsPublished
<1>1. Init => ToldInv
  BY DEF Init, Fresh, ToldInv, HasStatus
<1>2. TypeInv /\ ToldInv /\ [Next]_vars => ToldInv'
  BY ToldStep
<1>3. ToldInv => ResolvedIsPublished
  BY WorkersApart DEF ToldInv, ResolvedIsPublished, AtRest, Told, Telling
<1>4. QED
  BY <1>1, <1>2, <1>3, TypeInvariant, PTL DEF Spec

--------------------------------------------------------------------------------
(* What waits is seen.  While no delivery overlaps another and no process     *)
(* dies, an event has one handler, which is delivered until it acknowledges;  *)
(* so an escalation that is pending and not in the queue yet has somebody who *)
(* is about to put it there, or an event that is delivered again.             *)

Overlapped == Suffered({"twice", "crash", "mark"})

Alone ==
  /\ \A g, h \in Handlers : pc[g] # "idle" /\ pc[h] # "idle" /\ event[g] = event[h] => g = h
  /\ \A h \in Handlers : pc[h] # "idle" => event[h] \in unacked /\ Payload[event[h]].review
  /\ \A h \in Handlers : pc[h] \notin {"idle", "first_time"} => event[h] \in processed

AloneInv == ~Overlapped => Alone

HandlerSteps(h) ==
  \/ \E e \in Events : Deliver(h, e)
  \/ Subscriber(h)
  \/ Raise(h) \/ RaiseInFirstTime(h) \/ ForgetFails(h)

\* Approvers and viewers do not touch what the handlers go by.
LEMMA Bystanders ==
  ASSUME TypeInv, [Next]_vars
  PROVE  \/ \E h \in Handlers : HandlerSteps(h)
         \/ \E e \in Events : Filter(e) \/ Resubmit(e)
         \/ Crash
         \/ /\ UNCHANGED <<event, processed, unacked>>
            /\ \A h \in Handlers : Same(h)
<1>g. ASSUME NEW w \in Approvers \cup Viewers, NEW next, Goto(w, next)
      PROVE  \A h \in Handlers : Same(h)
  BY <1>g, WorkersApart, MovedPc DEF Goto
<1>1. ASSUME NEW a \in Approvers,
             \/ \E i \in Invoices, verdict \in Verdicts : Post(a, i, verdict)
             \/ Endpoint(a)
             \/ ResolveFails(a) \/ PublishFails(a) \/ RollbackFails(a) \/ DequeueFails(a)
      PROVE  /\ UNCHANGED <<event, processed, unacked>>
             /\ \A h \in Handlers : Same(h)
  <2>1. UNCHANGED <<event, processed, unacked>>
    BY <1>1 DEF Endpoint, Post, Resolve, Publish, Dequeue, Revert, Requeue, ResolveFails, PublishFails,
       RollbackFails, DequeueFails, Answer, Settle, broker, stores, locals
  <2>2. \E next : Goto(a, next)
    BY <1>1 DEF Endpoint, Post, Resolve, Publish, Dequeue, Revert, Requeue, ResolveFails, PublishFails,
       RollbackFails, DequeueFails, Answer
  <2>3. QED
    BY <2>1, <2>2, <1>g
<1>2. ASSUME NEW v \in Viewers, ListQueue(v) \/ Read(v) \/ Evict(v) \/ ViewFails(v)
      PROVE  /\ UNCHANGED <<event, processed, unacked>>
             /\ \A h \in Handlers : Same(h)
  <2>1. UNCHANGED <<event, processed, unacked>>
    BY <1>2 DEF ListQueue, Read, Evict, ViewFails, broker, stores
  <2>2. \E next : Goto(v, next)
    BY <1>2 DEF ListQueue, Read, Evict, ViewFails
  <2>3. QED
    BY <2>1, <2>2, <1>g
<1>3. CASE UNCHANGED vars
  BY <1>3 DEF vars, broker, stores, locals, Same
<1>4. QED
  BY <1>1, <1>2, <1>3 DEF Next, HandlerSteps

LEMMA HandlerPc ==
  ASSUME TypeInv, NEW h \in Handlers, NEW next, Goto(h, next)
  PROVE  /\ pc'[h] = next
         /\ \A g \in Handlers : g # h => Same(g)
         /\ \A a \in Approvers : Same(a)
BY WorkersApart, MovedPc DEF Goto

LEMMA LeaveEvent ==
  ASSUME TypeInv, NEW h \in Handlers, Leave(h)
  PROVE  /\ pc'[h] = "idle"
         /\ \A g \in Handlers : g # h => Same(g) /\ event'[g] = event[g]
         /\ \A a \in Approvers : Same(a)
         /\ UNCHANGED request
BY HandlerPc DEF Leave, TypeInv, TypeOK

LEMMA AloneStep == ASSUME TypeInv, AloneInv, [Next]_vars PROVE AloneInv'
<1> SUFFICES ASSUME ~Overlapped' PROVE Alone'
  BY DEF AloneInv
<1>1. /\ ~(faults'["twice"] > 0) /\ ~(faults'["crash"] > 0) /\ ~(faults'["mark"] > 0)
      /\ ~Overlapped
  BY FaultsStay DEF Overlapped, Suffered, AllFaultKinds, TypeInv
<1>2. Alone
  BY <1>1 DEF AloneInv
<1>f. ASSUME NEW kind \in AllFaultKinds, Fault(kind) PROVE faults'[kind] > 0
  BY <1>f, FaultCounted DEF TypeInv, TypeOK
<1>3. CASE UNCHANGED <<event, processed, unacked>> /\ \A h \in Handlers : Same(h)
  BY <1>2, <1>3 DEF Alone, Same
<1>4. ASSUME NEW e \in Events, Filter(e) \/ Resubmit(e) PROVE Alone'
  <2>1. /\ UNCHANGED <<event, processed, pc>>
        /\ unacked' = unacked \cup {e} \/ (unacked' = unacked \ {e} /\ ~Payload[e].review)
    BY <1>4 DEF Filter, Resubmit, stores, locals
  <2>2. QED
    BY <1>2, <2>1 DEF Alone
<1>5. ~Crash
  BY <1>1, <1>f DEF Crash, AllFaultKinds
<1>6. ASSUME NEW h \in Handlers, HandlerSteps(h) PROVE Alone'
  <2>1. CASE \E e \in Events : Deliver(h, e)
    <3>1. PICK e \in Events : Deliver(h, e)
      BY <2>1
    <3>2. /\ pc[h] = "idle" /\ e \in unacked /\ Payload[e].review
          /\ pc'[h] = "first_time" /\ event'[h] = e
          /\ \A g \in Handlers : g # h => Same(g) /\ event'[g] = event[g]
          /\ UNCHANGED <<processed, unacked>>
      BY <3>1, HandlerPc DEF Deliver, broker, stores, TypeInv, TypeOK
    <3>3. \A g \in Handlers : event[g] # e
      BY <3>1, <1>1, <1>f DEF Deliver, AllFaultKinds
    <3>4. QED
      BY <1>2, <3>2, <3>3 DEF Alone, Same
  <2>2. CASE FirstTime(h)
    <3>1. \E next \in HandlerPcs : Goto(h, next)
      BY <2>2 DEF FirstTime, HandlerPcs
    <3>2. /\ processed' = processed \cup {event[h]} /\ UNCHANGED <<event, unacked>>
          /\ \A g \in Handlers : g # h => Same(g)
          /\ pc[h] # "idle"
      BY <2>2, <3>1, HandlerPc DEF FirstTime, broker, locals
    <3>3. QED
      BY <1>2, <3>2 DEF Alone, Same
  <2>3. CASE SaveNew(h) \/ Inspect(h) \/ Reopen(h) \/ Add(h) \/ Raise(h)
    <3>1. \E next : Goto(h, next)
      BY <2>3 DEF SaveNew, Inspect, Reopen, Add, Raise
    <3>2. /\ UNCHANGED <<event, unacked, processed>>
          /\ \A g \in Handlers : g # h => Same(g)
          /\ pc[h] \notin {"idle", "first_time"}
      BY <2>3, <3>1, HandlerPc DEF SaveNew, Inspect, Reopen, Add, Raise, broker, stores, locals
    <3>3. QED
      BY <1>2, <3>2 DEF Alone, Same
  <2>4. CASE Ack(h) \/ Forget(h) \/ ForgetFails(h)
    <3>1. /\ Leave(h) /\ pc[h] # "idle"
          /\ unacked \ {event[h]} \subseteq unacked'
          /\ processed \ {event[h]} \subseteq processed'
      BY <2>4 DEF Ack, Forget, ForgetFails, broker, stores
    <3>2. QED
      BY <1>2, <3>1, LeaveEvent DEF Alone, Same
  <2>5. ~RaiseInFirstTime(h)
    BY <1>1, <1>f DEF RaiseInFirstTime, AllFaultKinds
  <2>6. QED
    BY <1>6, <2>1, <2>2, <2>3, <2>4, <2>5 DEF HandlerSteps, Subscriber
<1>7. QED
  BY Bystanders, <1>3, <1>4, <1>5, <1>6


\* Deliveries of e that will look at the record again, or make the broker.
Again(e) ==
  \/ e \notin processed
  \/ \E h \in Handlers : event[h] = e /\ pc[h] \in {"save_new", "inspect", "forget"}

Retried(i) == {e \in unacked : Payload[e].review /\ Payload[e].invoice = i /\ Again(e)}

Seen(i) ==
  \/ i \in queue
  \/ \E h \in Handlers : pc[h] = "add" /\ Subject(h) = i
  \/ \E a \in Approvers : pc[a] = "requeue" /\ Invoice(a) = i
  \/ Suffered({"call"}) /\ Retried(i) # {}

SeenInv ==
  NothingForgotten =>
    \A i \in Invoices : HasStatus(i, {"pending"}) /\ overtaken[i] = {} => Seen(i)

LEMMA NothingForgottenBefore ==
  ASSUME TypeInv, [Next]_vars, NothingForgotten' PROVE NothingForgotten
BY FaultsStay DEF NothingForgotten, Suffered, AllFaultKinds, TypeInv

\* Who is waited for is still there.
LEMMA SeenStays ==
  ASSUME TypeInv, [Next]_vars, NEW j \in Invoices, Seen(j),
         j \in queue => j \in queue',
         \A h \in Handlers : pc[h] = "add" /\ Subject(h) = j => Seen(j)',
         \A a \in Approvers : pc[a] = "requeue" /\ Invoice(a) = j => Seen(j)',
         \A e \in unacked : Payload[e].review /\ Payload[e].invoice = j /\ Suffered({"call"}) =>
           (Again(e) => e \in unacked' /\ Again(e)') \/ Seen(j)'
  PROVE  Seen(j)'
<1>1. Suffered({"call"}) => Suffered({"call"})'
  BY FaultsStay DEF Suffered, AllFaultKinds, TypeInv
<1>2. CASE Suffered({"call"}) /\ Retried(j) # {}
  <2>1. PICK e \in unacked : Payload[e].review /\ Payload[e].invoice = j /\ Again(e)
    BY <1>2 DEF Retried
  <2>2. CASE e \in unacked' /\ Again(e)'
    BY <1>1, <1>2, <2>1, <2>2 DEF Seen, Retried
  <2>3. QED
    BY <1>2, <2>1, <2>2
<1>3. QED
  BY <1>2 DEF Seen

LEMMA SeenStep ==
  ASSUME TypeInv, OwnedInv, AloneInv, SeenInv, [Next]_vars PROVE SeenInv'
<1> SUFFICES ASSUME NothingForgotten', NEW j \in Invoices,
                    HasStatus(j, {"pending"})', overtaken'[j] = {}
             PROVE  Seen(j)'
  BY DEF SeenInv
<1>1. NothingForgotten /\ overtaken[j] = {}
  BY NothingForgottenBefore, OvertakenGrows
<1>2. escalation'[j] = escalation[j] => HasStatus(j, {"pending"}) /\ Seen(j)
  BY <1>1 DEF HasStatus, SeenInv
<1>f. ASSUME NEW kind \in AllFaultKinds, Fault(kind) PROVE faults'[kind] > 0
  BY <1>f, FaultCounted DEF TypeInv, TypeOK
<1>c. ~Fault("crash") /\ ~Fault("rollback") /\ ~Fault("forget")
  BY <1>f DEF NothingForgotten, Suffered, AllFaultKinds
<1>l. Suffered({"call"})' => /\ ~Overlapped /\ ~Fault("mark") /\ ~Fault("miss")
                             /\ Alone
  <2> SUFFICES ASSUME Suffered({"call"})'
               PROVE  ~Overlapped /\ ~Fault("mark") /\ ~Fault("miss") /\ Alone
    OBVIOUS
  <2>1. /\ ~(faults'["mark"] > 0) /\ ~(faults'["miss"] > 0) /\ ~(faults'["twice"] > 0)
        /\ ~(faults'["crash"] > 0)
    BY DEF NothingForgotten, Suffered
  <2>2. ~Fault("mark") /\ ~Fault("miss")
    BY <2>1, <1>f DEF AllFaultKinds
  <2>3. ~Overlapped
    BY <2>1, FaultsStay DEF Overlapped, Suffered, AllFaultKinds, TypeInv
  <2>4. QED
    BY <2>2, <2>3 DEF AloneInv
<1>m. Suffered({"call"}) => Suffered({"call"})'
  BY FaultsStay DEF Suffered, AllFaultKinds, TypeInv
<1>a. ASSUME NEW h \in Handlers, NEW next, Goto(h, next), next # "add",
             pc[h] # "add" \/ Subject(h) # j,
             UNCHANGED <<event, request, escalation>>, queue \subseteq queue',
             \A e \in unacked : Payload[e].review /\ Payload[e].invoice = j /\ Suffered({"call"}) =>
               (Again(e) => e \in unacked' /\ Again(e)') \/ Seen(j)'
      PROVE  Seen(j)'
  <2>1. \A g \in Handlers : g # h => Same(g)
    BY <1>a, HandlerPc
  <2>2. \A a \in Approvers : Same(a)
    BY <1>a, HandlerPc
  <2>3. \A g \in Handlers : pc[g] = "add" /\ Subject(g) = j => Seen(j)'
    BY <1>a, <2>1 DEF Seen, Same, Subject
  <2>4. \A a \in Approvers : pc[a] = "requeue" /\ Invoice(a) = j => Seen(j)'
    BY <1>a, <2>2 DEF Seen, Same, Invoice
  <2>5. Seen(j)
    BY <1>a, <1>2
  <2>6. QED
    BY <1>a, <2>3, <2>4, <2>5, SeenStays
<1>b. ASSUME UNCHANGED <<event, processed, unacked, escalation>>, \A h \in Handlers : Same(h),
             j \in queue => j \in queue',
             \A a \in Approvers : pc[a] = "requeue" /\ Invoice(a) = j => Seen(j)'
      PROVE  Seen(j)'
  <2>1. \A h \in Handlers : pc[h] = "add" /\ Subject(h) = j => Seen(j)'
    BY <1>b DEF Seen, Same, Subject
  <2>2. \A e : Again(e) => Again(e)'
    BY <1>b DEF Again, Same
  <2>3. Seen(j)
    BY <1>b, <1>2
  <2>4. QED
    BY <1>b, <2>1, <2>2, <2>3, SeenStays
<1>3. ASSUME NEW e \in Events, Filter(e) \/ Resubmit(e) PROVE Seen(j)'
  <2>1. /\ UNCHANGED <<escalation, queue, processed, event, request, pc>>
        /\ \A x \in unacked : Payload[x].review => x \in unacked'
    BY <1>3 DEF Filter, Resubmit, stores, locals
  <2>2. Seen(j)
    BY <2>1, <1>2
  <2>3. \A x : Again(x) => Again(x)'
    BY <2>1 DEF Again
  <2>4. /\ \A h \in Handlers : pc[h] = "add" /\ Subject(h) = j => Seen(j)'
        /\ \A a \in Approvers : pc[a] = "requeue" /\ Invoice(a) = j => Seen(j)'
    BY <2>1 DEF Seen, Subject, Invoice
  <2>5. QED
    BY <2>1, <2>2, <2>3, <2>4, SeenStays
<1>4. ASSUME NEW h \in Handlers, NEW e \in Events, Deliver(h, e) PROVE Seen(j)'
  <2>1. /\ UNCHANGED <<escalation, queue, processed, unacked, request>>
        /\ pc[h] = "idle" /\ event[h] = None
        /\ \A g \in Handlers : g # h => Same(g) /\ event'[g] = event[g]
        /\ \A a \in Approvers : Same(a)
    BY <1>4, HandlerPc DEF Deliver, broker, stores, TypeInv, TypeOK, LocalInv, HandlerTyped
  <2>2. \A x : Again(x) => Again(x)'
    BY <2>1 DEF Again, Same
  <2>3. /\ \A g \in Handlers : pc[g] = "add" /\ Subject(g) = j => Seen(j)'
        /\ \A a \in Approvers : pc[a] = "requeue" /\ Invoice(a) = j => Seen(j)'
    BY <2>1 DEF Seen, Subject, Invoice, Same
  <2>4. QED
    BY <2>1, <2>2, <2>3, <1>2, SeenStays
<1>5. ASSUME NEW h \in Handlers, FirstTime(h) PROVE Seen(j)'
  <2> DEFINE next == IF event[h] \in processed THEN "ack" ELSE "save_new"
  <2>1. /\ pc[h] = "first_time" /\ Goto(h, next)
        /\ processed' = processed \cup {event[h]}
        /\ UNCHANGED <<escalation, queue, unacked, request, event>>
    BY <1>5 DEF FirstTime, broker, locals
  <2>2. pc'[h] = next /\ \A g \in Handlers : g # h => Same(g)
    BY <2>1, HandlerPc
  <2>3. \A x : Again(x) => Again(x)'
    <3> SUFFICES ASSUME NEW x, Again(x) PROVE Again(x)'
      OBVIOUS
    <3>1. CASE \E g \in Handlers : event[g] = x /\ pc[g] \in {"save_new", "inspect", "forget"}
      BY <2>1, <2>2, <3>1 DEF Again, Same
    <3>2. CASE x \notin processed
      BY <2>1, <2>2, <3>2 DEF Again
    <3>3. QED
      BY <3>1, <3>2 DEF Again
  <2>4. next # "add"
    OBVIOUS
  <2> HIDE DEF next
  <2>5. QED
    BY <2>1, <2>3, <2>4, <1>a
<1>6. ASSUME NEW h \in Handlers, SaveNew(h) \/ Reopen(h) PROVE Seen(j)'
  <2>1. /\ UNCHANGED <<queue, processed, unacked, request, event>>
        /\ pc[h] \in {"save_new", "reopen"}
        /\ Subject(h) \in Invoices
    BY <1>6, HandlerLocals DEF SaveNew, Reopen, broker, locals
  <2>2. CASE Goto(h, "add") /\ Subject(h) = j
    BY <2>1, <2>2, HandlerPc DEF Seen, Subject
  <2>3. CASE /\ Goto(h, "add") /\ Subject(h) # j
             /\ escalation' = [escalation EXCEPT ![Subject(h)] =
                  [status |-> "pending", review |-> event[h], by |-> None]]
    <3>1. Seen(j)
      BY <2>3, <1>2 DEF TypeInv, TypeOK
    <3>2. /\ \A g \in Handlers : g # h => Same(g)
          /\ \A a \in Approvers : Same(a)
      BY <2>3, HandlerPc
    <3>3. \A x : Payload[x].invoice = j => (Again(x) => Again(x)')
      BY <2>1, <2>3, <3>2 DEF Again, Same, Subject
    <3>4. /\ \A g \in Handlers : pc[g] = "add" /\ Subject(g) = j => Seen(j)'
          /\ \A a \in Approvers : pc[a] = "requeue" /\ Invoice(a) = j => Seen(j)'
      BY <2>1, <3>2 DEF Seen, Subject, Invoice, Same
    <3>5. QED
      BY <2>1, <3>1, <3>3, <3>4, SeenStays
  <2>4. CASE UNCHANGED escalation /\ Goto(h, IF pc[h] = "save_new" THEN "inspect" ELSE "ack")
    <3> DEFINE next == IF pc[h] = "save_new" THEN "inspect" ELSE "ack"
    <3>1. pc'[h] = next /\ \A g \in Handlers : g # h => Same(g)
      BY <2>4, HandlerPc
    <3>2. \A x : Again(x) => Again(x)'
      BY <2>1, <3>1 DEF Again, Same
    <3>3. QED
      BY <2>1, <2>4, <3>2, <1>a
  <2>5. QED
    BY <1>6, <2>1, <2>2, <2>3, <2>4 DEF SaveNew, Reopen
<1>7. ASSUME NEW h \in Handlers, Inspect(h) PROVE Seen(j)'
  <2>1. /\ UNCHANGED <<escalation, queue, processed, unacked, request, event>>
        /\ pc[h] = "inspect"
    BY <1>7 DEF Inspect, broker, stores, locals
  <2>2. PICK record \in {escalation[Subject(h)], None} :
          Finds(Subject(h), record) /\ Goto(h, AfterInspect(record))
    BY <1>7 DEF Inspect
  <2>3. pc'[h] = AfterInspect(record) /\ \A g \in Handlers : g # h => Same(g)
    BY <2>2, HandlerPc
  <2>4. CASE Subject(h) = j /\ record = escalation[j]
    <3>1. AfterInspect(record) = "add"
      BY <2>1, <2>4, <1>2 DEF AfterInspect, HasStatus
    <3>2. QED
      BY <2>1, <2>3, <2>4, <3>1 DEF Seen, Subject
  <2>5. CASE Subject(h) # j
    <3>1. \A x : Payload[x].invoice = j => (Again(x) => Again(x)')
      BY <2>1, <2>3, <2>5 DEF Again, Same, Subject
    <3>2. /\ \A g \in Handlers : pc[g] = "add" /\ Subject(g) = j => Seen(j)'
          /\ \A a \in Approvers : pc[a] = "requeue" /\ Invoice(a) = j => Seen(j)'
      BY <2>1, <2>2, <2>3, HandlerPc DEF Seen, Subject, Invoice, Same
    <3>3. QED
      BY <2>1, <3>1, <3>2, <1>2, SeenStays
  <2>6. CASE Fault("miss")
    <3>1. ~Suffered({"call"})
      BY <2>6, <1>l, <1>m
    <3>2. /\ \A g \in Handlers : pc[g] = "add" /\ Subject(g) = j => Seen(j)'
          /\ \A a \in Approvers : pc[a] = "requeue" /\ Invoice(a) = j => Seen(j)'
      BY <2>1, <2>2, <2>3, HandlerPc DEF Seen, Subject, Invoice, Same
    <3>3. QED
      BY <2>1, <3>1, <3>2, <1>2, SeenStays
  <2>7. QED
    BY <2>2, <2>4, <2>5, <2>6 DEF Finds
<1>8. ASSUME NEW h \in Handlers, Add(h) PROVE Seen(j)'
  <2>1. /\ UNCHANGED <<escalation, processed, unacked, request, event>>
        /\ queue' = queue \cup {Subject(h)} /\ pc[h] = "add" /\ Goto(h, "ack")
    BY <1>8 DEF Add, broker, locals
  <2>2. CASE Subject(h) = j
    BY <2>1, <2>2 DEF Seen
  <2>3. CASE Subject(h) # j
    <3>1. \A g \in Handlers : g # h => Same(g)
      BY <2>1, HandlerPc
    <3>2. \A x : Again(x) => Again(x)'
      BY <2>1, <3>1 DEF Again, Same
    <3>3. QED
      BY <2>1, <2>3, <3>2, <1>a
  <2>4. QED
    BY <2>2, <2>3
<1>9. ASSUME NEW h \in Handlers, Ack(h) \/ Forget(h) PROVE Seen(j)'
  <2>1. /\ Leave(h) /\ pc[h] \in {"ack", "forget"}
        /\ UNCHANGED <<escalation, queue, request>>
        /\ \/ pc[h] = "ack" /\ unacked' = unacked \ {event[h]} /\ UNCHANGED processed
           \/ pc[h] = "forget" /\ processed' = processed \ {event[h]} /\ UNCHANGED unacked
    BY <1>9 DEF Ack, Forget, Leave, broker, stores
  <2>2. /\ \A g \in Handlers : g # h => Same(g) /\ event'[g] = event[g]
        /\ \A a \in Approvers : Same(a)
    BY <2>1, LeaveEvent
  <2>3. /\ \A g \in Handlers : pc[g] = "add" /\ Subject(g) = j => Seen(j)'
        /\ \A a \in Approvers : pc[a] = "requeue" /\ Invoice(a) = j => Seen(j)'
    BY <2>1, <2>2 DEF Seen, Subject, Invoice, Same
  <2>4. ASSUME NEW x \in unacked, Suffered({"call"}), Again(x)
        PROVE  x \in unacked' /\ Again(x)'
    <3>1. Alone
      BY <2>4, <1>l, <1>m
    <3>2. CASE pc[h] = "ack"
      <4>1. x # event[h]
        <5> SUFFICES ASSUME x = event[h] PROVE FALSE
          OBVIOUS
        <5>1. x \in processed
          BY <3>1, <3>2 DEF Alone
        <5>2. PICK g \in Handlers : event[g] = x /\ pc[g] \in {"save_new", "inspect", "forget"}
          BY <2>4, <5>1 DEF Again
        <5>3. g = h
          BY <3>1, <3>2, <5>2 DEF Alone
        <5>4. QED
          BY <3>2, <5>2, <5>3
      <4>2. QED
        BY <2>1, <2>2, <2>4, <3>2, <4>1 DEF Again, Same
    <3>3. CASE pc[h] = "forget"
      BY <2>1, <2>2, <2>4, <3>3 DEF Again, Same
    <3>4. QED
      BY <2>1, <3>2, <3>3
  <2>5. QED
    BY <2>1, <2>3, <2>4, <1>2, SeenStays
<1>10. ASSUME NEW h \in Handlers, Raise(h) PROVE Seen(j)'
  <2>1. /\ UNCHANGED <<escalation, queue, processed, unacked, request, event>>
        /\ pc[h] \in {"save_new", "inspect", "reopen", "add"}
        /\ Goto(h, "forget") /\ Fault("call")
    BY <1>10 DEF Raise, broker, stores, locals
  <2>2. Suffered({"call"})' /\ Alone
    BY <2>1, <1>f, <1>l DEF Suffered, AllFaultKinds
  <2>3. pc'[h] = "forget" /\ \A g \in Handlers : g # h => Same(g)
    BY <2>1, HandlerPc
  <2>4. CASE Subject(h) = j
    <3>1. /\ event[h] \in unacked' /\ Payload[event[h]].review /\ Payload[event[h]].invoice = j
      BY <2>1, <2>2, <2>4 DEF Alone, Subject
    <3>2. Again(event[h])'
      BY <2>1, <2>3 DEF Again
    <3>3. event[h] \in Retried(j)'
      BY <2>1, <3>1, <3>2 DEF Retried, Again
    <3>4. QED
      BY <2>2, <3>3 DEF Seen
  <2>5. CASE Subject(h) # j
    <3>1. \A x : Again(x) => Again(x)'
      BY <2>1, <2>3 DEF Again, Same
    <3>2. QED
      BY <2>1, <2>5, <3>1, <1>a
  <2>6. QED
    BY <2>4, <2>5
<1>11. ASSUME NEW h \in Handlers, RaiseInFirstTime(h) PROVE Seen(j)'
  <2>1. /\ Leave(h) /\ pc[h] = "first_time" /\ UNCHANGED <<escalation, queue>>
        /\ ~Suffered({"call"})
    BY <1>11, <1>l, <1>m DEF RaiseInFirstTime
  <2>2. /\ \A g \in Handlers : pc[g] = "add" /\ Subject(g) = j => Seen(j)'
        /\ \A a \in Approvers : pc[a] = "requeue" /\ Invoice(a) = j => Seen(j)'
    BY <2>1, LeaveEvent DEF Seen, Subject, Invoice, Same
  <2>3. QED
    BY <2>1, <2>2, <1>2, SeenStays
<1>12. ASSUME NEW a \in Approvers, NEW i \in Invoices, NEW verdict \in Verdicts, Post(a, i, verdict)
       PROVE  Seen(j)'
  <2>1. /\ UNCHANGED <<event, processed, unacked, escalation, queue>>
        /\ pc[a] = "idle" /\ Goto(a, "resolve")
        /\ \A b \in Approvers : b # a => request'[b] = request[b]
    BY <1>12 DEF Post, broker, stores, TypeInv, TypeOK
  <2>2. (\A h \in Handlers : Same(h)) /\ (\A b \in Approvers : b # a => Same(b))
    BY <2>1, WorkersApart, MovedPc DEF Goto
  <2>3. \A b \in Approvers : pc[b] = "requeue" /\ Invoice(b) = j => Seen(j)'
    BY <2>1, <2>2 DEF Seen, Same, Invoice
  <2>4. QED
    BY <2>1, <2>2, <2>3, <1>b
<1>13. ASSUME NEW a \in Approvers, Resolve(a) \/ ResolveFails(a) PROVE Seen(j)'
  <2>1. /\ UNCHANGED <<event, processed, unacked, queue>>
        /\ pc[a] = "resolve" /\ \E next : Goto(a, next)
        /\ \A b \in Approvers : b # a => request'[b] = request[b]
    BY <1>13 DEF Resolve, ResolveFails, Answer, Settle, broker, stores, TypeInv, TypeOK
  <2>2. (\A h \in Handlers : Same(h)) /\ (\A b \in Approvers : b # a => Same(b))
    BY <2>1, WorkersApart, MovedPc DEF Goto
  <2>3. \A b \in Approvers : pc[b] = "requeue" /\ Invoice(b) = j => Seen(j)'
    BY <2>1, <2>2 DEF Seen, Same, Invoice
  <2>4. escalation'[j] = escalation[j]
    <3>1. CASE UNCHANGED stores
      BY <3>1 DEF stores
    <3>2. CASE OpenForVerdict(Invoice(a)) /\ Settle(a)
      <4>1. /\ escalation'[Invoice(a)] = [status |-> request[a].verdict,
                                          review |-> escalation[Invoice(a)].review, by |-> a]
            /\ \A k \in Invoices : k # Invoice(a) => escalation'[k] = escalation[k]
        BY <2>1, <3>2, SettleTyped
      <4>2. request[a].verdict # "pending"
        BY <2>1, ApproverLocals
      <4>3. QED
        BY <4>1, <4>2 DEF HasStatus
    <3>3. QED
      BY <1>13, <3>1, <3>2 DEF Resolve, ResolveFails
  <2>5. \A x : Again(x) => Again(x)'
    BY <2>1, <2>2 DEF Again, Same
  <2>6. \A h \in Handlers : pc[h] = "add" /\ Subject(h) = j => Seen(j)'
    BY <2>1, <2>2 DEF Seen, Same, Subject
  <2>7. QED
    BY <2>1, <2>3, <2>4, <2>5, <2>6, <1>2, SeenStays
<1>14. ASSUME NEW a \in Approvers, Publish(a) \/ PublishFails(a) \/ DequeueFails(a) PROVE Seen(j)'
  <2>1. /\ UNCHANGED <<event, processed, unacked, escalation, queue>>
        /\ pc[a] \in {"publish", "dequeue"} /\ \E next : Goto(a, next)
        /\ \A b \in Approvers : b # a => request'[b] = request[b]
    BY <1>14 DEF Publish, PublishFails, DequeueFails, Answer, broker, stores, locals, TypeInv, TypeOK
  <2>2. (\A h \in Handlers : Same(h)) /\ (\A b \in Approvers : b # a => Same(b))
    BY <2>1, WorkersApart, MovedPc DEF Goto
  <2>3. \A b \in Approvers : pc[b] = "requeue" /\ Invoice(b) = j => Seen(j)'
    BY <2>1, <2>2 DEF Seen, Same, Invoice
  <2>4. QED
    BY <2>1, <2>2, <2>3, <1>b
<1>15. ASSUME NEW a \in Approvers, Dequeue(a) \/ Requeue(a) PROVE Seen(j)'
  <2>1. /\ UNCHANGED <<event, processed, unacked, escalation>>
        /\ Goto(a, "idle")
        /\ \A b \in Approvers : b # a => request'[b] = request[b]
        /\ \/ pc[a] = "dequeue" /\ queue' = queue \ {Invoice(a)}
           \/ pc[a] = "requeue" /\ queue' = queue \cup {Invoice(a)}
    BY <1>15 DEF Dequeue, Requeue, Answer, broker, stores, TypeInv, TypeOK
  <2>2. (\A h \in Handlers : Same(h)) /\ (\A b \in Approvers : b # a => Same(b))
    BY <2>1, WorkersApart, MovedPc DEF Goto
  <2>3. \A b \in Approvers : pc[b] = "requeue" /\ Invoice(b) = j => Seen(j)'
    BY <2>1, <2>2 DEF Seen, Same, Invoice
  <2>4. pc[a] = "dequeue" => Invoice(a) # j
    <3> SUFFICES ASSUME pc[a] = "dequeue", Invoice(a) = j PROVE FALSE
      OBVIOUS
    <3>1. escalation[j] = Settled(a)
      BY <1>1 DEF OwnedInv, Owns
    <3>2. request[a].verdict # "pending"
      BY ApproverLocals
    <3>3. HasStatus(j, {"pending"})
      BY <2>1, <1>2
    <3>4. QED
      BY <3>1, <3>2, <3>3 DEF HasStatus, Settled
  <2>5. QED
    BY <2>1, <2>2, <2>3, <2>4, <1>b
<1>16. ASSUME NEW a \in Approvers, Revert(a) PROVE Seen(j)'
  <2>1. /\ UNCHANGED <<event, processed, unacked, queue, request>>
        /\ pc[a] = "revert" /\ Goto(a, "requeue")
    BY <1>16 DEF Revert, broker, locals
  <2>2. /\ \A h \in Handlers : Same(h)
        /\ \A b \in Approvers : b # a => Same(b)
        /\ pc'[a] = "requeue"
    BY <2>1, WorkersApart, MovedPc DEF Goto
  <2>3. CASE Invoice(a) = j
    BY <2>1, <2>2, <2>3 DEF Seen, Invoice
  <2>4. CASE Invoice(a) # j
    <3>1. escalation'[j] = escalation[j]
      BY <1>16, <2>4, RevertTyped
    <3>2. \A b \in Approvers : pc[b] = "requeue" /\ Invoice(b) = j => Seen(j)'
      BY <2>1, <2>2 DEF Seen, Same, Invoice
    <3>3. \A x : Again(x) => Again(x)'
      BY <2>1, <2>2 DEF Again, Same
    <3>4. \A h \in Handlers : pc[h] = "add" /\ Subject(h) = j => Seen(j)'
      BY <2>1, <2>2 DEF Seen, Same, Subject
    <3>5. QED
      BY <2>1, <3>1, <3>2, <3>3, <3>4, <1>2, SeenStays
  <2>5. QED
    BY <2>3, <2>4
<1>17. ASSUME NEW v \in Viewers, ListQueue(v) \/ Read(v) \/ Evict(v) \/ ViewFails(v) PROVE Seen(j)'
  <2>1. /\ UNCHANGED <<event, processed, unacked, escalation, request>>
        /\ \E next : Goto(v, next)
        /\ queue' = queue \/ (pc[v] = "evict" /\ queue' = queue \ {target[v]})
    BY <1>17 DEF ListQueue, Read, Evict, ViewFails, broker, stores
  <2>2. (\A h \in Handlers : Same(h)) /\ (\A b \in Approvers : Same(b))
    BY <2>1, WorkersApart, MovedPc DEF Goto
  <2>3. \A b \in Approvers : pc[b] = "requeue" /\ Invoice(b) = j => Seen(j)'
    BY <2>1, <2>2 DEF Seen, Same, Invoice
  <2>4. pc[v] = "evict" => target[v] # j
    <3> SUFFICES ASSUME pc[v] = "evict", target[v] = j PROVE FALSE
      OBVIOUS
    <3>1. HasStatus(j, Statuses \ {"pending"}) /\ HasStatus(j, {"pending"})
      BY <2>1, <1>1, <1>2 DEF OwnedInv
    <3>2. QED
      BY <3>1 DEF HasStatus
  <2>5. QED
    BY <2>1, <2>2, <2>3, <2>4, <1>b
<1>18. CASE UNCHANGED vars
  <2>1. /\ UNCHANGED <<event, processed, unacked, escalation, queue, request>>
        /\ (\A h \in Handlers : Same(h)) /\ (\A b \in Approvers : Same(b))
    BY <1>18 DEF vars, broker, stores, locals, Same
  <2>2. \A b \in Approvers : pc[b] = "requeue" /\ Invoice(b) = j => Seen(j)'
    BY <2>1 DEF Seen, Same, Invoice
  <2>3. QED
    BY <2>1, <2>2, <1>b
<1>19. /\ ~Crash
       /\ \A h \in Handlers : ~ForgetFails(h)
       /\ \A a \in Approvers : ~RollbackFails(a)
  BY <1>c DEF Crash, ForgetFails, RollbackFails
<1>20. QED
  BY <1>3, <1>4, <1>5, <1>6, <1>7, <1>8, <1>9, <1>10, <1>11, <1>12, <1>13, <1>14, <1>15, <1>16,
     <1>17, <1>18, <1>19
  DEF Next, Subscriber, Endpoint

\* No escalation that waits for a verdict is invisible to approvers once nothing is in
\* flight, as long as nothing is forgotten and the invoice did not become pending under
\* another verdict or view (api.py:36-40, subscriptions.py:59-108).
THEOREM WaitingIsSeen == Spec => []PendingIsQueued
<1>1. Init => AloneInv /\ SeenInv
  BY WorkersApart DEF Init, Fresh, AloneInv, Alone, SeenInv, HasStatus
<1>2. TypeInv /\ OwnedInv /\ AloneInv /\ SeenInv /\ [Next]_vars => AloneInv' /\ SeenInv'
  BY AloneStep, SeenStep
<1>3. SeenInv => PendingIsQueued
  BY WorkersApart DEF SeenInv, Seen, Retried, PendingIsQueued, AtRest
<1>4. QED
  BY <1>1, <1>2, <1>3, OwnedInvariant, PTL DEF Spec

================================================================================

--------------------------------- MODULE Intake ---------------------------------
(***************************************************************************)
(* The intake service: it stores an invoice, publishes it, and keeps the   *)
(* status the submitter sees by following the events of the other          *)
(* services.  POST and PUT write the record blindly, from the copy the     *)
(* request holds; event handlers change it by compare-and-swap, and only   *)
(* from the one status each event expects.  An event that finds another    *)
(* status is acknowledged and dropped.                                     *)
(*                                                                         *)
(* One action is one awaited call.  Of the other services this module      *)
(* knows what they publish: an answer to what was published, with any      *)
(* outcome, and another one when something failed there (module Flow puts  *)
(* two of the services themselves in their place).                         *)
(***************************************************************************)
EXTENDS Integers, FiniteSetsExt

CONSTANTS
  Clients,      \* concurrent POST and PUT requests
  Handlers,     \* concurrent activations of the subscriber
  Invoices,
  MaxVersions,  \* bound on the number of times an invoice is (re)submitted
  FaultKinds,   \* which faults may happen: see AllFaultKinds
  MaxFaults,    \* bound on the number of faults
  None

\* call: a call raises before it has an effect; lost: a publish raises after the
\* broker took the event; reorder: an event arrives out of turn, see ItsTurn;
\* crash: see Crash; again: another service answers once more, see Publishes.
AllFaultKinds == {"call", "lost", "reorder", "crash", "again"}

Workers == Clients \cup Handlers

\* What the submitter wrote is its version, 1 for the POST.
Versions == 1 .. MaxVersions

InvoiceStatus ==
  {"submitted", "evaluating", "pending_approval", "needs_info", "approved",
   "rejected", "duplicate", "paid", "payment_failed", "submit_failed"}

\* decided_by: an approver's id is the one value "approver".
InvoiceRecord ==
  [status : InvoiceStatus, version : Versions, decided_by : {"router", "approver", None}]

\* What a request holds: an invoice and a copy of its record.
Draft == [invoice : Invoices, record : InvoiceRecord]

Routes   == {"auto_approve", "human_review", "reject", "duplicate"}
Verdicts == {"approved", "rejected", "needs_info"}

\* An event says what happened to one version of an invoice.  (The version is
\* not in the payload: it tells which submission the event goes back to.  copy
\* stands for the event id where the same is said twice.)
Message == [topic   : {"invoice-submitted", "decision-made", "approval-resolved",
                       "payment-completed", "payment-failed"},
            invoice : Invoices,
            version : Versions,
            outcome : Routes \cup Verdicts \cup {None},
            copy    : 0 .. MaxFaults]

ASSUME IntakeAssumption ==
  /\ MaxVersions \in Nat \ {0}
  /\ MaxFaults \in Nat
  /\ FaultKinds \subseteq AllFaultKinds
  /\ Clients \cap Handlers = {}
  /\ None \notin Clients \cup Handlers \cup Invoices
  /\ None \notin InvoiceRecord /\ None \notin Draft /\ None \notin Message
  /\ None \notin InvoiceStatus \cup Routes \cup Verdicts

Msg(topic, i, v, outcome) ==
  [topic |-> topic, invoice |-> i, version |-> v, outcome |-> outcome, copy |-> 0]

\* The dashboard.  (paid_auto_cents and paid_human_cents count invoices here; the
\* counter paid is their sum and is written with them.)
Counters ==
  {<<"submitted", "all">>, <<"paid", "auto">>, <<"paid", "human">>, <<"payment_failed", "all">>}
    \cup ({"decided"} \X Routes) \cup ({"verdict"} \X Verdicts)

VARIABLES
  record,     \* invoice:{invoice_id}, None if absent
  counters,   \* dashboard:counters
  processed,  \* dedupe marks, processed:{event_id}
  sent,       \* every event published
  unacked,    \* events the broker still has to deliver to intake (again)
  pc,         \* the next call of every worker
  draft,      \* the record each request holds and the invoice it is for
  event,      \* the event of each handler
  updated,    \* the record each handler got back from its update
  accepted,   \* history: the submissions answered 202
  versions,   \* the number of submissions made of each invoice
  faults      \* faults so far, by kind

stores == <<record, counters, processed>>
bus    == <<sent, unacked>>
locals == <<draft, event, updated>>
vars   == <<stores, bus, pc, locals, accepted, versions, faults>>

ClientPcs  == {"publish", "save_evaluating", "save_failed", "bump_submitted",
               "save_resubmitted", "publish_again"}
HandlerPcs == {"first_time", "update", "bump", "ack"}

TypeOK ==
  /\ record \in [Invoices -> InvoiceRecord \cup {None}]
  /\ counters \in [Counters -> Nat]
  /\ processed \subseteq Message
  /\ sent \subseteq Message /\ unacked \subseteq sent
  /\ pc \in [Workers -> {"idle"} \cup ClientPcs \cup HandlerPcs]
  /\ draft \in [Clients -> Draft \cup {None}]
  /\ event \in [Handlers -> Message \cup {None}]
  /\ updated \in [Handlers -> InvoiceRecord \cup {None}]
  /\ accepted \subseteq Invoices \X Versions
  /\ versions \in [Invoices -> 0 .. MaxVersions]
  /\ faults \in [AllFaultKinds -> 0 .. MaxFaults]

Init ==
  /\ record    = [i \in Invoices |-> None]
  /\ counters  = [k \in Counters |-> 0]
  /\ processed = {}
  /\ sent      = {} /\ unacked = {}
  /\ pc        = [w \in Workers |-> "idle"]
  /\ draft     = [c \in Clients |-> None]
  /\ event     = [h \in Handlers |-> None]
  /\ updated   = [h \in Handlers |-> None]
  /\ accepted  = {}
  /\ versions  = [i \in Invoices |-> 0]
  /\ faults    = [kind \in AllFaultKinds |-> 0]

Goto(w, next) == pc' = [pc EXCEPT ![w] = next]

Fault(kind) ==
  /\ kind \in FaultKinds
  /\ MapThenSumSet(LAMBDA k : faults[k], AllFaultKinds) < MaxFaults
  /\ faults' = [faults EXCEPT ![kind] = @ + 1]

\* A fault of one of the kinds happened.
Suffered(kinds) == \E kind \in kinds : faults[kind] > 0

Broadcast(m) ==
  /\ sent'    = sent \cup {m}
  /\ unacked' = unacked \cup {m}

HasStatus(i, s) == record[i] # None /\ record[i].status = s

--------------------------------------------------------------------------------
\* submit and resubmit: the endpoints.

Own(c) == draft[c].invoice

\* save_record: a blind write of the copy the request holds.
SaveRecord(i, r) == record' = [record EXCEPT ![i] = r]

Hold(c, i, r) == draft' = [draft EXCEPT ![c] = [invoice |-> i, record |-> r]]

\* The request ends; `ok` if it is answered 202.
Answer(c, ok) ==
  /\ Goto(c, "idle")
  /\ draft' = [draft EXCEPT ![c] = None]
  /\ accepted' = IF ok THEN accepted \cup {<<Own(c), draft[c].record.version>>} ELSE accepted
  /\ UNCHANGED <<event, updated>>

\* POST: the record is saved under a fresh id.
Submit(c, i) ==
  LET new == [status |-> "submitted", version |-> 1, decided_by |-> None] IN
  /\ pc[c] = "idle"
  /\ versions[i] = 0
  /\ versions' = [versions EXCEPT ![i] = 1]
  /\ SaveRecord(i, new)
  /\ Hold(c, i, new)
  /\ Goto(c, "publish")
  /\ UNCHANGED <<counters, processed, bus, event, updated, accepted, faults>>

Publish(c) ==
  /\ pc[c] = "publish"
  /\ Broadcast(Msg("invoice-submitted", Own(c), draft[c].record.version, None))
  /\ Goto(c, "save_evaluating")
  /\ UNCHANGED <<stores, locals, accepted, versions, faults>>

\* Mutant: the status is not advanced.
EvaluatingUntouched(r) == r

Evaluating(r) == [r EXCEPT !.status = "evaluating"]

SaveEvaluating(c) ==
  /\ pc[c] = "save_evaluating"
  /\ SaveRecord(Own(c), Evaluating(draft[c].record))
  /\ Hold(c, Own(c), Evaluating(draft[c].record))
  /\ Goto(c, "bump_submitted")
  /\ UNCHANGED <<counters, processed, bus, event, updated, accepted, versions, faults>>

BumpSubmitted(c) ==
  /\ pc[c] = "bump_submitted"
  /\ counters' = [counters EXCEPT ![<<"submitted", "all">>] = @ + 1]
  /\ Answer(c, TRUE)
  /\ UNCHANGED <<record, processed, bus, versions, faults>>

\* The publish raised: the record says so, and the answer is a 503.
SaveFailed(c) ==
  /\ pc[c] = "save_failed"
  /\ SaveRecord(Own(c), [draft[c].record EXCEPT !.status = "submit_failed"])
  /\ Answer(c, FALSE)
  /\ UNCHANGED <<counters, processed, bus, versions, faults>>

\* Mutant: any invoice that was escalated may be resubmitted.
MayResubmitEarly(i) == HasStatus(i, "needs_info") \/ HasStatus(i, "pending_approval")

MayResubmit(i) == HasStatus(i, "needs_info")

\* PUT reads the record; unless it is sent back the answer is a 404 or a 409 and
\* nothing changes.
Resubmit(c, i) ==
  /\ pc[c] = "idle"
  /\ versions[i] \in 1 .. MaxVersions - 1
  /\ MayResubmit(i)
  /\ versions' = [versions EXCEPT ![i] = @ + 1]
  /\ Hold(c, i, Evaluating([record[i] EXCEPT !.version = versions[i] + 1]))
  /\ Goto(c, "save_resubmitted")
  /\ UNCHANGED <<stores, bus, event, updated, accepted, faults>>

SaveResubmitted(c) ==
  /\ pc[c] = "save_resubmitted"
  /\ SaveRecord(Own(c), draft[c].record)
  /\ Goto(c, "publish_again")
  /\ UNCHANGED <<counters, processed, bus, locals, accepted, versions, faults>>

PublishAgain(c) ==
  /\ pc[c] = "publish_again"
  /\ Broadcast(Msg("invoice-submitted", Own(c), draft[c].record.version, None))
  /\ Answer(c, TRUE)
  /\ UNCHANGED <<stores, versions, faults>>

--------------------------------------------------------------------------------
\* The subscriber.

\* The position of an event in the life of its invoice.
Rank(m) == 4 * m.version +
  (CASE m.topic = "invoice-submitted" -> 0
     [] m.topic = "decision-made"     -> 1
     [] m.topic = "approval-resolved" -> 2
     [] OTHER                         -> 3)

\* Events of an invoice arrive in the order in which they were caused, and after
\* the request that caused them wrote.
ItsTurn(m) ==
  /\ \A n \in unacked : n.invoice = m.invoice => Rank(m) <= Rank(n)
  /\ \A c \in Clients : pc[c] = "save_evaluating" => Own(c) # m.invoice

Deliver(h, m) ==
  /\ pc[h] = "idle"
  /\ m \in unacked
  /\ \A g \in Handlers : event[g] # m
  /\ \/ ItsTurn(m) /\ UNCHANGED faults
     \/ ~ItsTurn(m) /\ Fault("reorder")
  /\ Goto(h, "first_time")
  /\ event' = [event EXCEPT ![h] = m]
  /\ UNCHANGED <<stores, bus, draft, updated, accepted, versions>>

\* The dedupe mark; invoice-submitted has no other effect here.
FirstTime(h) ==
  /\ pc[h] = "first_time"
  /\ Goto(h, IF event[h] \in processed \/ event[h].topic = "invoice-submitted"
             THEN "ack" ELSE "update")
  /\ processed' = processed \cup {event[h]}
  /\ UNCHANGED <<record, counters, bus, locals, accepted, versions, faults>>

\* Mutant: an event applies whatever the status is.
ExpectedNothing(m, s) == TRUE

\* _require: the one status from which the event of m applies.
Expected(m, s) ==
  CASE m.topic = "decision-made"     -> s = "evaluating"
    [] m.topic = "approval-resolved" -> s = "pending_approval"
    [] OTHER                         -> s = "approved"

\* The status each event leads to.
Target(m) ==
  CASE m.topic = "payment-completed" -> "paid"
    [] m.topic = "payment-failed"    -> "payment_failed"
    [] m.outcome \in {"auto_approve", "approved"}   -> "approved"
    [] m.outcome \in {"reject", "rejected"}         -> "rejected"
    [] m.outcome = "human_review"    -> "pending_approval"
    [] m.outcome = "duplicate"       -> "duplicate"
    [] m.outcome = "needs_info"      -> "needs_info"

DecidedBy(m, r) ==
  CASE m.topic = "decision-made" -> IF m.outcome = "human_review" THEN None ELSE "router"
    [] m.topic = "approval-resolved" /\ m.outcome # "needs_info" -> "approver"
    [] OTHER -> r.decided_by

\* apply_decision, apply_approval, apply_payment_completed, apply_payment_failed.
Applied(m, r) == [r EXCEPT !.status = Target(m), !.decided_by = DecidedBy(m, r)]

\* Mutant: an event that does not apply is counted all the same.
UpdateCountsAnyway(h) ==
  LET m == event[h] IN
  /\ pc[h] = "update"
  /\ record' = IF record[m.invoice] # None /\ Expected(m, record[m.invoice].status)
               THEN [record EXCEPT ![m.invoice] = Applied(m, @)] ELSE record
  /\ updated' = [updated EXCEPT ![h] = record'[m.invoice]]
  /\ Goto(h, "bump")
  /\ UNCHANGED <<counters, processed, bus, draft, event, accepted, versions, faults>>

\* update_record: the compare-and-swap; an unknown invoice or a status the event
\* does not expect is acknowledged.
Update(h) ==
  LET m == event[h]
      applies == record[m.invoice] # None /\ Expected(m, record[m.invoice].status)
  IN /\ pc[h] = "update"
     /\ \/ /\ applies
           /\ record' = [record EXCEPT ![m.invoice] = Applied(m, @)]
           /\ updated' = [updated EXCEPT ![h] = record'[m.invoice]]
           /\ Goto(h, "bump")
        \/ /\ ~applies
           /\ Goto(h, "ack")
           /\ UNCHANGED <<record, updated>>
     /\ UNCHANGED <<counters, processed, bus, draft, event, accepted, versions, faults>>

\* The counter of the dashboard an event moves.
Counter(m, r) ==
  CASE m.topic = "decision-made"     -> <<"decided", m.outcome>>
    [] m.topic = "approval-resolved" -> <<"verdict", m.outcome>>
    [] m.topic = "payment-failed"    -> <<"payment_failed", "all">>
    [] OTHER -> <<"paid", IF r.decided_by = "router" THEN "auto" ELSE "human">>

Bump(h) ==
  /\ pc[h] = "bump"
  /\ counters' = [counters EXCEPT ![Counter(event[h], updated[h])] = @ + 1]
  /\ Goto(h, "ack")
  /\ UNCHANGED <<record, processed, bus, locals, accepted, versions, faults>>

\* The handler leaves, whatever it answered.
Leave(h) ==
  /\ Goto(h, "idle")
  /\ event'   = [event EXCEPT ![h] = None]
  /\ updated' = [updated EXCEPT ![h] = None]
  /\ UNCHANGED draft

Ack(h) ==
  /\ pc[h] = "ack"
  /\ unacked' = unacked \ {event[h]}
  /\ Leave(h)
  /\ UNCHANGED <<stores, sent, accepted, versions, faults>>

--------------------------------------------------------------------------------
\* What the other services publish.

Answered(topics, i, v) ==
  \E n \in sent : n.topic \in topics /\ n.invoice = i /\ n.version = v

\* One more answer to the same is an event of its own.
Again(n) == [n EXCEPT !.copy = faults["again"] + 1]

\* A service answers once, unless something fails there: the broker takes what
\* it publishes and the publish raises all the same, so that the decision
\* service forgets its mark and decides again, and the approval service rolls
\* back and another verdict is posted; or two deliveries overlap in payment.
Publishes(again, n) ==
  \/ ~again /\ Broadcast(n) /\ UNCHANGED faults
  \/ again /\ Fault("again") /\ Broadcast(Again(n))

\* The decision service routes a submission, anew if it has done so.
Decide(m, again) ==
  /\ m.topic = "invoice-submitted"
  /\ again = Answered({"decision-made"}, m.invoice, m.version)
  /\ \E route \in Routes :
       Publishes(again, Msg("decision-made", m.invoice, m.version, route))

\* An approver gives a verdict on what needs one.
Review(m, again) ==
  /\ m.topic = "decision-made" /\ m.outcome = "human_review"
  /\ again = Answered({"approval-resolved"}, m.invoice, m.version)
  /\ \E verdict \in Verdicts :
       Publishes(again, Msg("approval-resolved", m.invoice, m.version, verdict))

\* The payment service reports on an invoice, whatever triggers it.
Pay(m, again) ==
  /\ m.outcome \in {"auto_approve", "approved"}
  /\ again = \E v \in Versions : Answered({"payment-completed", "payment-failed"}, m.invoice, v)
  /\ \E topic \in {"payment-completed", "payment-failed"} :
       Publishes(again, Msg(topic, m.invoice, m.version, None))

Downstream(again) ==
  /\ \E m \in sent : Decide(m, again) \/ Review(m, again) \/ Pay(m, again)
  /\ UNCHANGED <<stores, pc, locals, accepted, versions>>

--------------------------------------------------------------------------------
\* Faults.

\* A save or a bump of a request raises: a 500, and nothing is undone.
RequestFails(c) ==
  /\ pc[c] \in {"save_evaluating", "save_failed", "bump_submitted", "save_resubmitted"}
  /\ Fault("call")
  /\ Answer(c, FALSE)
  /\ UNCHANGED <<stores, bus, versions>>

\* The broker takes the event or not, and the publish raises either way.
Ambiguous(c) ==
  \/ Fault("call") /\ UNCHANGED bus
  \/ Fault("lost") /\
     Broadcast(Msg("invoice-submitted", Own(c), draft[c].record.version, None))

PublishFails(c) ==
  /\ pc[c] = "publish"
  /\ Ambiguous(c)
  /\ Goto(c, "save_failed")
  /\ UNCHANGED <<stores, locals, accepted, versions>>

\* resubmit has no compensation: a 500.
PublishAgainFails(c) ==
  /\ pc[c] = "publish_again"
  /\ Ambiguous(c)
  /\ Answer(c, FALSE)
  /\ UNCHANGED <<stores, versions>>

\* A call of the subscriber raises: the broker redelivers, and nobody forgets
\* the mark, which first_time() may have written.  (A call whose answer is lost
\* is the call's own action followed by this one.)
Raise(h) ==
  /\ pc[h] \in {"first_time", "update", "bump"}
  /\ Fault("call")
  /\ processed' \in {processed, IF pc[h] = "first_time" THEN processed \cup {event[h]}
                                ELSE processed}
  /\ Leave(h)
  /\ UNCHANGED <<record, counters, bus, accepted, versions>>

\* The process dies: requests and handlers vanish, the stores and the broker stay.
Crash ==
  /\ \E w \in Workers : pc[w] # "idle"
  /\ Fault("crash")
  /\ pc'      = [w \in Workers |-> "idle"]
  /\ draft'   = [c \in Clients |-> None]
  /\ event'   = [h \in Handlers |-> None]
  /\ updated' = [h \in Handlers |-> None]
  /\ UNCHANGED <<stores, bus, accepted, versions>>

--------------------------------------------------------------------------------
ClientStep(c) ==
  \/ Publish(c) \/ SaveEvaluating(c) \/ BumpSubmitted(c) \/ SaveFailed(c)
  \/ SaveResubmitted(c) \/ PublishAgain(c)

HandlerStep(h) == FirstTime(h) \/ Update(h) \/ Bump(h) \/ Ack(h)

Next ==
  \/ \E c \in Clients, i \in Invoices : Submit(c, i) \/ Resubmit(c, i)
  \/ \E c \in Clients : ClientStep(c)
  \/ \E h \in Handlers : \E m \in unacked : Deliver(h, m)
  \/ \E h \in Handlers : HandlerStep(h)
  \/ Downstream(FALSE) \/ Downstream(TRUE)
  \/ \E c \in Clients : RequestFails(c) \/ PublishFails(c) \/ PublishAgainFails(c)
  \/ \E h \in Handlers : Raise(h)
  \/ Crash

Spec == Init /\ [][Next]_vars

\* The event loop runs what was started, the broker delivers, and the other
\* services answer, once.  Nobody is obliged to submit or to resubmit.
FairSpec ==
  /\ Spec
  /\ \A c \in Clients : WF_vars(ClientStep(c))
  /\ \A h \in Handlers : WF_vars(HandlerStep(h))
  /\ WF_vars(\E h \in Handlers : \E m \in unacked : Deliver(h, m))
  /\ WF_vars(Downstream(FALSE))

--------------------------------------------------------------------------------
\* Properties.

\* An event about the version that is stored was published.
Said(i, topic, outcome) ==
  \E m \in sent : /\ m.topic = topic /\ m.outcome = outcome
                  /\ m.invoice = i /\ m.version = record[i].version

ApprovedBy(i) ==
  \/ record[i].decided_by = "router"   /\ Said(i, "decision-made", "auto_approve")
  \/ record[i].decided_by = "approver" /\ Said(i, "approval-resolved", "approved")

\* The status, and who is named as having decided, go back to events about the
\* very submission that is stored: an approval never covers an invoice that was
\* rewritten since, in whatever order the events arrive (status.py:15-63).  That
\* rests on the other services answering once: intake cannot tell a decision or
\* a verdict about an earlier submission from one about the record, and a second
\* one that comes late finds the status it expects.
StatusIsEarned ==
  ~Suffered({"again"}) =>
    \A i \in Invoices : record[i] # None =>
      LET s == record[i].status IN
      /\ s \in {"approved", "paid", "payment_failed"} => ApprovedBy(i)
      /\ s = "paid" => Said(i, "payment-completed", None)
      /\ s = "payment_failed" => Said(i, "payment-failed", None)
      /\ s = "pending_approval" => Said(i, "decision-made", "human_review")
      /\ s = "needs_info" => Said(i, "approval-resolved", "needs_info")
      /\ s = "rejected" => Said(i, "decision-made", "reject")
                             \/ Said(i, "approval-resolved", "rejected")
      /\ s = "duplicate" => Said(i, "decision-made", "duplicate")

\* What the submitter is shown, and of which submission.
StatusShown  == [i \in Invoices |-> IF record[i] = None THEN None ELSE record[i].status]
VersionShown == [i \in Invoices |-> IF record[i] = None THEN 0 ELSE record[i].version]

Shown == INSTANCE Lifecycle WITH status <- StatusShown, version <- VersionShown

\* The record moves as the life of an invoice allows: a story that ended is not
\* rewritten by a late event or by a request that holds an old copy, no status is
\* skipped, and a submission is replaced only while it is sent back ("resubmission
\* only allowed from needs_info", api.py:97-100).  This holds as long as requests
\* for an invoice do not overlap: PUT asks and writes in two steps.
FollowsLifecycle == Shown!Spec

\* What the dashboard should say.
Published(topic, outcome) ==
  Cardinality({m \in sent : m.topic = topic /\ m.outcome = outcome})

Paid(by) ==
  Cardinality({i \in Invoices : HasStatus(i, "paid") /\ record[i].decided_by = by})

True(k) ==
  CASE k[1] = "submitted"      -> Cardinality({i \in Invoices : record[i] # None})
    [] k[1] = "paid"           -> Paid(IF k[2] = "auto" THEN "router" ELSE "approver")
    [] k[1] = "payment_failed" -> Published("payment-failed", None)
    [] k[1] = "decided"        -> Published("decision-made", k[2])
    [] k[1] = "verdict"        -> Published("approval-resolved", k[2])

AtRest == unacked = {} /\ \A w \in Workers : pc[w] = "idle"

\* However the events arrive and whatever fails, the dashboard never counts what
\* did not happen: no invoice is counted as paid twice, or before it is, or in
\* the other bucket.  When nothing is on its way and nothing failed or overtook,
\* it counts all that did.
DashboardIsTrue ==
  /\ \A k \in Counters : counters[k] <= True(k)
  /\ AtRest /\ ~Suffered(AllFaultKinds) => \A k \in Counters : counters[k] = True(k)

\* What was accepted with a 202 gets its decision shown ("within seconds ... the
\* decision service routes it", README.md:111).
AcceptedIsDecided ==
  \A i \in Invoices, v \in Versions :
    (<<i, v>> \in accepted) ~> ~(HasStatus(i, "submitted") \/ HasStatus(i, "evaluating"))

\* It does when nothing fails and no event overtakes what caused it, and the
\* outcome of a payment then reaches the record of its invoice, too (approved is
\* followed by paid or payment_failed, status.py:15-63).
OutcomeIsShown ==
  []~Suffered(AllFaultKinds) =>
    /\ AcceptedIsDecided
    /\ \A i \in Invoices, v \in Versions :
         /\ (Msg("payment-completed", i, v, None) \in sent) ~> HasStatus(i, "paid")
         /\ (Msg("payment-failed", i, v, None) \in sent) ~> HasStatus(i, "payment_failed")
================================================================================

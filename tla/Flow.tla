---------------------------------- MODULE Flow ----------------------------------
(***************************************************************************)
(* The story of an invoice across the services: intake, approval and       *)
(* payment as their own modules describe them, joined by the events they   *)
(* publish to each other.  Of the decision service only its answers are    *)
(* here: it decides a submission, once more if that answer was taken and   *)
(* the publish raised (module Decision), with any route but an automatic   *)
(* approval above the ceiling (module Routing).  Audit and notification    *)
(* only listen.                                                            *)
(*                                                                         *)
(* Each service is a process with marks and workers of its own; a step of  *)
(* the system is a step of one of them.                                    *)
(***************************************************************************)
EXTENDS Intake

CONSTANTS
  Approvers,     \* people who post verdicts
  MaxVerdicts,   \* bound on the verdicts they post
  Amount,        \* what each version of an invoice asks for
  Ceiling,       \* the ceiling of automatic approvals
  Budget,        \* of the one department
  ReviewFaults, SagaFaults  \* which faults the other services meet

ASSUME FlowAssumption ==
  /\ Amount \in [Versions -> Nat \ {0}] /\ Ceiling \in Nat /\ Budget \in Nat
  /\ ReviewFaults \subseteq {"broker", "lost"} /\ SagaFaults \subseteq {"call"}
  /\ Handlers \cap Approvers = {} /\ None \notin Approvers /\ None \notin Int

VARIABLES
  apUnacked, apProcessed, escalation, queue, resolutions, verdicts, apPc, apEvent, request,
  posted, overtaken, apFaults,                                \* the approval service
  paUnacked, paProcessed, saga, budget, provider, reports, paPc, call, paFaults,
  reserves, releases                                          \* the payment service

\* The variables of each service but for what the broker has for it.
intakeOwn   == <<stores, pc, locals, accepted, versions, faults>>
approvalOwn == <<apProcessed, escalation, queue, resolutions, verdicts, apPc, apEvent, request,
                 posted, overtaken, apFaults>>
paymentOwn  == <<paProcessed, saga, budget, provider, reports, paPc, call, paFaults, reserves,
                 releases>>

approvalVars == <<apUnacked, approvalOwn>>
paymentVars  == <<paUnacked, paymentOwn>>
flowVars     == <<vars, approvalVars, paymentVars>>

Decisions == {m \in Message : m.topic = "decision-made"}
Triggers  == {m \in Message : m.topic \in {"decision-made", "approval-resolved"}}

\* What the events say to the approval service and to the payment service.
Reviews ==
  [m \in Decisions |-> [invoice      |-> m.invoice,
                        review       |-> m.outcome = "human_review",
                        resubmission |-> m.version > 1]]

Requests ==
  [m \in Triggers |-> [topic   |-> m.topic,
                       go      |-> m.outcome \in {"auto_approve", "approved"},
                       invoice |-> m.invoice,
                       dept    |-> "dept",
                       amount  |-> Amount[m.version],
                       ceiling |-> Ceiling]]

Budgets == [d \in {"dept"} |-> Budget]

Approval == INSTANCE Approval WITH
  Viewers <- {}, MaxViews <- 0, views <- 0, todo <- <<>>, target <- <<>>,
  Events  <- Decisions, unsent <- {},
  Payload <- Reviews,
  FaultKinds <- ReviewFaults, unacked <- apUnacked, processed <- apProcessed,
  published <- resolutions, accepted <- verdicts, pc <- apPc, event <- apEvent,
  faults <- apFaults

Payment == INSTANCE PaymentSaga WITH
  Events <- Triggers, Depts <- {"dept"}, Declining <- {},
  Payload <- Requests, InitialBudget <- Budgets,
  NoBudget <- None, NoCeiling <- None, NoSaga <- None, NoPayment <- None, NoCall <- None,
  FaultKinds <- SagaFaults, unacked <- paUnacked, processed <- paProcessed,
  published <- reports, pc <- paPc, faults <- paFaults

ASSUME SentinelAssumption ==
  /\ None \notin Approval!Escalation /\ None \notin Approval!Request
  /\ None \notin Payment!SagaRecord /\ None \notin Payment!Payment /\ None \notin Payment!Call

FlowInit ==
  /\ Init
  /\ apUnacked = {} /\ Approval!Fresh
  /\ paUnacked = {} /\ Payment!Fresh
  /\ budget = [d \in {"dept"} |-> None]

--------------------------------------------------------------------------------
\* The topics, and who subscribes to them.

Announce(m) ==
  /\ Broadcast(m)
  /\ apUnacked' = apUnacked \cup ({m} \cap Decisions)
  /\ paUnacked' = paUnacked \cup ({m} \cap Triggers)

--------------------------------------------------------------------------------
\* The services.

\* Intake, as in its module, but for the other services there.
IntakeStep ==
  /\ \/ \E c \in Clients : ClientStep(c)
     \/ \E h \in Handlers : (\E m \in unacked : Deliver(h, m)) \/ HandlerStep(h)
  /\ UNCHANGED <<approvalVars, paymentVars>>

\* The decision service: the first answer to a submission, or another one.
DecisionStep(again) ==
  /\ \E m \in sent, route \in Routes :
       LET n == Msg("decision-made", m.invoice, m.version, route) IN
       /\ m.topic = "invoice-submitted"
       /\ again = Answered({"decision-made"}, m.invoice, m.version)
       /\ route = "auto_approve" => Amount[m.version] <= Ceiling
       /\ \/ ~again /\ Announce(n) /\ UNCHANGED faults
          \/ again /\ Fault("again") /\ Announce(Again(n))
  /\ UNCHANGED <<stores, pc, locals, accepted, versions, approvalOwn, paymentOwn>>

\* What is published names the submission the review was opened with, and has
\* an id of its own.
Resolution(a) ==
  [Msg("approval-resolved", request[a].invoice, request[a].review.version, request[a].verdict)
     EXCEPT !.copy = apFaults["lost"]]

ApprovalPublish(a) ==
  /\ Approval!Publish(a)
  /\ Announce(Resolution(a))
  /\ UNCHANGED <<intakeOwn, paymentOwn>>

ApprovalStep ==
  \/ /\ \/ \E e \in apUnacked : Approval!Filter(e) \/ \E h \in Handlers : Approval!Deliver(h, e)
        \/ \E h \in Handlers : Approval!Subscriber(h)
        \/ \E a \in Approvers :
             Approval!Resolve(a) \/ Approval!Dequeue(a) \/ Approval!Revert(a) \/ Approval!Requeue(a)
     /\ UNCHANGED <<vars, paymentVars>>
  \/ \E a \in Approvers : ApprovalPublish(a)

\* A report names the submission that triggered the payment.
PaymentPublish(h) ==
  /\ Payment!Publish(h)
  /\ Announce(Msg(IF paPc[h] = "publish_completed" THEN "payment-completed" ELSE "payment-failed",
                  call[h].event.invoice, call[h].event.version, None))
  /\ UNCHANGED <<intakeOwn, approvalOwn>>

PaymentStep ==
  \/ /\ \/ \E e \in paUnacked : Payment!Filter(e) \/ \E h \in Handlers : Payment!Deliver(h, e)
        \/ \E h \in Handlers :
             \/ Payment!FirstTime(h) \/ Payment!Load(h) \/ Payment!Mark(h) \/ Payment!Reserve(h)
             \/ Payment!Execute(h) \/ Payment!Release(h) \/ Payment!Ack(h) \/ Payment!Forget(h)
     /\ UNCHANGED <<vars, approvalVars>>
  \/ \E h \in Handlers : PaymentPublish(h)

--------------------------------------------------------------------------------
\* People submit, resubmit, and post a verdict on what the queue shows.
People ==
  \/ /\ \E c \in Clients, i \in Invoices :
          Submit(c, i) \/ Resubmit(c, i)
     /\ UNCHANGED <<approvalVars, paymentVars>>
  \/ /\ \E a \in Approvers, i \in queue, verdict \in Verdicts : Approval!Post(a, i, verdict)
     /\ UNCHANGED <<vars, paymentVars>>

ReviewFailed  == Approval!Suffered({"broker", "lost"})
PaymentFailed == Payment!Suffered({"call"})

\* The publish of a verdict raises; what the broker took is delivered.
VerdictFails(a) ==
  /\ Approval!PublishFails(a)
  /\ \/ apFaults'["lost"] = apFaults["lost"]
        /\ UNCHANGED <<bus, apUnacked, paUnacked>>
     \/ apFaults'["lost"] # apFaults["lost"] /\ Announce(Resolution(a))
  /\ UNCHANGED <<intakeOwn, paymentOwn>>

\* The faults, as in the modules of the services, of one service at most.
Faults ==
  \/ /\ ~ReviewFailed /\ ~PaymentFailed
     /\ \E c \in Clients : RequestFails(c) \/ PublishFails(c) \/ PublishAgainFails(c)
     /\ UNCHANGED <<approvalVars, paymentVars>>
  \/ /\ ~ReviewFailed /\ ~PaymentFailed
     /\ \E h \in Handlers : Raise(h)
     /\ UNCHANGED <<approvalVars, paymentVars>>
  \/ /\ ~ReviewFailed /\ ~PaymentFailed
     /\ DecisionStep(TRUE)
  \/ /\ ~Suffered(AllFaultKinds) /\ ~PaymentFailed
     /\ \E a \in Approvers : VerdictFails(a)
  \/ /\ ~Suffered(AllFaultKinds) /\ ~ReviewFailed
     /\ \E h \in Handlers : Payment!Raise(h)
     /\ UNCHANGED <<vars, approvalVars>>

Progress == IntakeStep \/ DecisionStep(FALSE) \/ ApprovalStep \/ PaymentStep

FlowNext == Progress \/ People \/ Faults

FlowSpec == FlowInit /\ [][FlowNext]_flowVars

\* Some service goes on with what was begun and delivered, as long as one can (all
\* of that is finite, so none is left behind); no person has to act.
FairFlowSpec == FlowSpec /\ WF_flowVars(Progress)

--------------------------------------------------------------------------------
\* Properties.

\* Nothing was decided or judged once more: no service answered again after an
\* answer that the broker took although its publish raised.
AnsweredOnce == ~Suffered({"again"}) /\ ~Approval!Suffered({"lost"})

\* Money moves for the submission that is shown, and never behind a refusal: what
\* is paid is the amount of the version intake stores, which is not rejected, sent
\* back or a duplicate, however the three services lag behind each other and
\* whatever else fails in one of them, as long as every service answers once.
PaidAsShown ==
  AnsweredOnce =>
    \A i \in Invoices : provider[i] # None =>
      /\ record[i] # None
      /\ record[i].status \notin {"rejected", "duplicate", "needs_info"}
      /\ provider[i].amount = Amount[record[i].version]

LetThrough(i, v) ==
  \E m \in sent : /\ m.outcome \in {"auto_approve", "approved"}
                  /\ m.invoice = i /\ m.version = v

\* And when one answers again, so that an earlier version may be paid than the one
\* shown, the money still moves for a version that was let through, and what is
\* shown of it is true: paid only if the provider paid, failed only if it did not
\* and does not later, however many events ask for the payment ("consumers MUST be
\* idempotent per invoice_id, NOT per event_id", approval/src/api.py:160-162).
MoneyIsShown ==
  \A i \in Invoices :
    /\ provider[i] # None =>
         \E v \in Versions : LetThrough(i, v) /\ provider[i].amount = Amount[v]
    /\ HasStatus(i, "paid") => provider[i] # None
    /\ HasStatus(i, "payment_failed") => provider[i] = None

SagaIn(i, states) == saga[i] # None /\ saga[i].state \in states

\* The review of the version that is shown is open, and approvers see it.  (The
\* last call of a verdict's request is to take the invoice out of the queue: it
\* removes the new entry of a review that was reopened before it.)
Open(i) ==
  /\ Approval!HasStatus(i, {"pending"})
  /\ overtaken[i] = {} => i \in queue
  /\ escalation[i].review.version = record[i].version

Unharmed ==
  /\ ~Suffered(AllFaultKinds)
  /\ ~Approval!Suffered({"lost"})
  /\ ~Payment!Suffered(Payment!AllFaultKinds)

\* When nothing is on its way any more and nothing failed (the broker may have
\* refused to take a verdict), the services tell one story: intake shows paid, failed, pending or
\* sent back exactly if the saga or the escalation says so.
ServicesAgree ==
  AtRest /\ Approval!AtRest /\ Payment!AtRest /\ Unharmed =>
    \A i \in Invoices : record[i] # None =>
      /\ HasStatus(i, "paid") <=> SagaIn(i, {"paid"})
      /\ HasStatus(i, "payment_failed") <=> SagaIn(i, Payment!TerminalStates \ {"paid"})
      /\ HasStatus(i, "pending_approval") <=> Approval!HasStatus(i, {"pending"})
      /\ HasStatus(i, "pending_approval") => Open(i)
      /\ HasStatus(i, "needs_info") => Approval!HasStatus(i, {"needs_info"})

\* Every submission comes to an end, or to a person who can act on it.
EveryStoryEnds ==
  []Unharmed =>
    \A i \in Invoices :
      (record[i] # None) ~>
        \/ \E s \in {"rejected", "duplicate", "paid", "payment_failed", "needs_info"} : HasStatus(i, s)
        \/ HasStatus(i, "pending_approval") /\ Open(i)
================================================================================

------------------------------ MODULE PaymentSaga ------------------------------
(***************************************************************************)
(* The payment service: two subscribers (decision-made, approval-resolved) *)
(* that drive one persisted-step saga per invoice, against a budget per    *)
(* department and a payment provider that is idempotent per invoice.       *)
(*                                                                         *)
(* One action is one awaited call on the state store, the provider or the  *)
(* broker; everything the code does between two awaits is part of the      *)
(* action that precedes it.  A handler may raise at any of those calls,    *)
(* the process may die between any two of them, and the broker redelivers  *)
(* an event until it is acknowledged.                                      *)
(***************************************************************************)
EXTENDS Integers, FiniteSetsExt

CONSTANTS
  Handlers,       \* concurrent activations of the two subscribers
  Events,         \* event ids the broker delivers to this service
  Invoices,       \* invoice ids
  Depts,          \* department names a payload may carry
  Payload,        \* what each event says: see PayloadType
  InitialBudget,  \* starting budget of a department, NoBudget if it has none
  Declining,      \* events whose scenario asks for a decline
  FaultKinds,     \* which faults may happen: see AllFaultKinds
  MaxFaults,      \* bound on the number of faults of a behaviour
  NoBudget, NoCeiling, NoSaga, NoPayment, NoCall

\* twice: a delivery for an invoice starts while another one is in flight; the
\* others: see the actions.
AllFaultKinds == {"call", "mark", "forget", "crash", "twice", "switch"}

PayloadType ==
  [topic   : {"decision-made", "approval-resolved"},
   go      : BOOLEAN,              \* route = auto_approve, verdict = approved
   invoice : Invoices,
   dept    : Depts,
   amount  : Int,
   ceiling : Int \cup {NoCeiling}]

ASSUME InvoicesAssumption == IsFiniteSet(Invoices)
ASSUME PayloadAssumption == Payload \in [Events -> PayloadType]
ASSUME BudgetAssumption == InitialBudget \in [Depts -> Nat \cup {NoBudget}]
ASSUME DecliningAssumption == Declining \subseteq Events
ASSUME FaultAssumption == MaxFaults \in Nat /\ FaultKinds \subseteq AllFaultKinds

TerminalStates == {"paid", "compensated", "rejected_insufficient_budget"}

SagaRecord ==
  [state  : {"started", "reserved"} \cup TerminalStates,
   dept   : Depts,
   amount : Int]

Payment == [dept : Depts, amount : Int]

\* The local variables of a call of saga.handle() and the event it is for.
Call == [event : Events, dept : Depts, amount : Int]

ASSUME SentinelAssumption ==
  /\ NoBudget \notin Int
  /\ NoCeiling \notin Int
  /\ NoSaga \notin SagaRecord
  /\ NoPayment \notin Payment
  /\ NoCall \notin Call

--------------------------------------------------------------------------------
VARIABLES
  unacked,    \* events the broker still has to deliver (again)
  processed,  \* dedupe marks, processed:{event_id}
  saga,       \* saga:{invoice_id}
  budget,     \* budget:{department}, remaining_cents
  provider,   \* provider:{invoice_id}: the real payment, if one was executed
  published,  \* payment-completed and payment-failed events sent
  pc,         \* the call each handler is about to make
  call,       \* the local variables of each handler's saga.handle()
  faults,     \* faults so far, by kind
  reserves,   \* history: successful reserve() calls for the invoice
  releases    \* history: release() calls for the invoice

stores  == <<processed, saga, budget, provider>>
history == <<reserves, releases>>
vars    == <<unacked, stores, published, pc, call, faults, history>>

IsTerminal(record) == record # NoSaga /\ record.state \in TerminalStates

\* The calls of saga.handle() that raising may interrupt, in program order.
BodyPcs ==
  {"load", "mark_refused", "mark_started", "reserve", "mark_rejected",
   "mark_reserved", "execute", "release", "mark_compensated", "mark_paid",
   "publish_failed", "publish_compensated", "publish_completed", "published"}

Pcs == {"idle", "first_time", "forget", "ack"} \cup BodyPcs

Report ==
  [topic       : {"payment-completed", "payment-failed"},
   invoice     : Invoices,
   compensated : BOOLEAN,
   trigger     : Events]

TypeOK ==
  /\ unacked \in SUBSET Events
  /\ processed \in SUBSET Events
  /\ saga \in [Invoices -> SagaRecord \cup {NoSaga}]
  /\ budget \in [Depts -> Nat \cup {NoBudget}]
  /\ provider \in [Invoices -> Payment \cup {NoPayment}]
  /\ published \in SUBSET Report
  /\ pc \in [Handlers -> Pcs]
  /\ call \in [Handlers -> Call \cup {NoCall}]
  /\ \A h \in Handlers : pc[h] # "idle" => call[h] \in Call
  /\ faults \in [AllFaultKinds -> Nat]
  /\ reserves \in [Invoices -> Nat]
  /\ releases \in [Invoices -> Nat]

\* Nothing was handled yet.
Fresh ==
  /\ processed = {}
  /\ saga      = [i \in Invoices |-> NoSaga]
  /\ provider  = [i \in Invoices |-> NoPayment]
  /\ published = {}
  /\ pc        = [h \in Handlers |-> "idle"]
  /\ call      = [h \in Handlers |-> NoCall]
  /\ faults    = [kind \in AllFaultKinds |-> 0]
  /\ reserves  = [i \in Invoices |-> 0]
  /\ releases  = [i \in Invoices |-> 0]

Init ==
  /\ unacked = Events
  /\ budget  = [d \in Depts |-> NoBudget]
  /\ Fresh

--------------------------------------------------------------------------------
\* Helpers.

InvoiceOf(h) == Payload[call[h].event].invoice

Goto(h, next) == pc' = [pc EXCEPT ![h] = next]

Fault(kind) ==
  /\ kind \in FaultKinds
  /\ MapThenSumSet(LAMBDA k : faults[k], AllFaultKinds) < MaxFaults
  /\ faults' = [faults EXCEPT ![kind] = @ + 1]

\* A fault of one of the kinds happened.
Suffered(kinds) == \E kind \in kinds : faults[kind] > 0

\* FAILURE_INJECTION_ENABLED, which the process reads when it starts: on at
\* first, see Switch.
Injecting == faults["switch"] % 2 = 0

\* The handler leaves, whatever it answered.
Return(h) ==
  /\ pc'   = [pc EXCEPT ![h] = "idle"]
  /\ call' = [call EXCEPT ![h] = NoCall]

\* Mutant: seeding resets a budget that was spent against.
SeededAgain(b) == InitialBudget

\* seed_if_absent: register every department that has no budget record yet.
Seeded(b) == [d \in Depts |-> IF b[d] = NoBudget THEN InitialBudget[d] ELSE b[d]]

\* _transition: a blind write of the state that keeps the other fields of a
\* record that exists.
Transition(h, state) ==
  saga' = [saga EXCEPT ![InvoiceOf(h)] =
             IF @ = NoSaga
             THEN [state |-> state, dept |-> call[h].dept, amount |-> call[h].amount]
             ELSE [@ EXCEPT !.state = state]]

\* The independent ceiling re-check on auto-routed amounts.
AboveCeiling(e, amount) ==
  /\ Payload[e].topic = "decision-made"
  /\ Payload[e].ceiling # NoCeiling
  /\ amount > Payload[e].ceiling

\* Mutant: a started saga is taken for a reserved one.
AfterLoadSkipsReserve(e, record, amount) ==
  IF amount <= 0 THEN "mark_refused"
  ELSE IF record # NoSaga THEN "execute"
  ELSE IF AboveCeiling(e, amount) THEN "mark_refused" ELSE "mark_started"

\* Mutant: the ceiling is checked again on a saga that holds a reservation.
AfterLoadRefusesReserved(e, record, amount) ==
  IF amount <= 0 \/ AboveCeiling(e, amount) THEN "mark_refused"
  ELSE IF record = NoSaga THEN "mark_started"
  ELSE IF record.state = "reserved" THEN "execute" ELSE "reserve"

\* What handle() does next once it has read `record` and settled on `amount`.
AfterLoad(e, record, amount) ==
  IF amount <= 0 THEN "mark_refused"
  ELSE IF record = NoSaga
       THEN IF AboveCeiling(e, amount) THEN "mark_refused" ELSE "mark_started"
  ELSE IF record.state = "reserved" THEN "execute"
  ELSE IF AboveCeiling(e, amount) THEN "mark_refused" ELSE "reserve"

--------------------------------------------------------------------------------
\* The broker and the subscribers' shell.

\* Another delivery for the invoice of e is in flight.
Busy(e) == \E h \in Handlers : pc[h] # "idle" /\ InvoiceOf(h) = Payload[e].invoice

\* A route or verdict this service does not act on is acknowledged unmarked.
Filter(e) ==
  /\ e \in unacked
  /\ ~Payload[e].go
  /\ unacked' = unacked \ {e}
  /\ UNCHANGED <<stores, published, pc, call, faults, history>>

Deliver(h, e) ==
  /\ pc[h] = "idle"
  /\ e \in unacked
  /\ Payload[e].go
  /\ IF Busy(e) THEN Fault("twice") ELSE UNCHANGED faults
  /\ Goto(h, "first_time")
  /\ call' = [call EXCEPT ![h] = [event  |-> e,
                                  dept   |-> Payload[e].dept,
                                  amount |-> Payload[e].amount]]
  /\ UNCHANGED <<unacked, stores, published, history>>

FirstTime(h) ==
  /\ pc[h] = "first_time"
  /\ Goto(h, IF call[h].event \in processed THEN "ack" ELSE "load")
  /\ processed' = processed \cup {call[h].event}
  /\ UNCHANGED <<unacked, saga, budget, provider, published, call, faults, history>>

Ack(h) ==
  /\ pc[h] \in {"ack", "published"}
  /\ unacked' = unacked \ {call[h].event}
  /\ Return(h)
  /\ UNCHANGED <<stores, published, faults, history>>

\* Mutant: the handler fails without undoing its mark.
ForgetNothing(h) ==
  /\ pc[h] = "forget"
  /\ Return(h)
  /\ UNCHANGED <<unacked, stores, published, faults, history>>

\* _compensate_forget, then the re-raise that the broker answers with a
\* redelivery: the event stays unacknowledged.
Forget(h) ==
  /\ pc[h] = "forget"
  /\ processed' = processed \ {call[h].event}
  /\ Return(h)
  /\ UNCHANGED <<unacked, saga, budget, provider, published, faults, history>>

--------------------------------------------------------------------------------
\* PaymentSaga.handle().

\* Mutant: a resumed saga trusts the payload of this call.
AdoptedTrustsPayload(own, record) == own

\* A record that exists overrides the department and the amount of this call.
Adopted(own, record) ==
  IF record = NoSaga THEN own
  ELSE [own EXCEPT !.dept = record.dept, !.amount = record.amount]

\* Mutant: a terminal saga is resumed like any other.
LoadResumesAnything(h) ==
  LET record  == saga[InvoiceOf(h)]
      adopted == Adopted(call[h], record)
  IN /\ pc[h] = "load"
     /\ Goto(h, AfterLoad(adopted.event, record, adopted.amount))
     /\ call' = [call EXCEPT ![h] = adopted]
     /\ UNCHANGED <<unacked, stores, published, faults, history>>

\* Read the record; a terminal one is returned unchanged.
Load(h) ==
  LET record  == saga[InvoiceOf(h)]
      adopted == Adopted(call[h], record)
  IN /\ pc[h] = "load"
     /\ \/ /\ IsTerminal(record)
           /\ Goto(h, "ack")
           /\ UNCHANGED call
        \/ /\ ~IsTerminal(record)
           /\ Goto(h, AfterLoad(adopted.event, record, adopted.amount))
           /\ call' = [call EXCEPT ![h] = adopted]
     /\ UNCHANGED <<unacked, stores, published, faults, history>>

\* Mutant: a refused or rejected saga is marked and nobody is told.
MarkerSilentRefusal ==
  {[at |-> "mark_refused",     writes |-> "compensated", next |-> "published"],
   [at |-> "mark_started",     writes |-> "started",     next |-> "reserve"],
   [at |-> "mark_reserved",    writes |-> "reserved",    next |-> "execute"],
   [at |-> "mark_compensated", writes |-> "compensated", next |-> "publish_compensated"],
   [at |-> "mark_paid",        writes |-> "paid",        next |-> "publish_completed"]}

\* The writes of a state marker: where the handler is, what it writes and
\* where that takes it.
Marker ==
  {[at |-> "mark_refused",     writes |-> "compensated", next |-> "publish_failed"],
   [at |-> "mark_started",     writes |-> "started",     next |-> "reserve"],
   [at |-> "mark_reserved",    writes |-> "reserved",    next |-> "execute"],
   [at |-> "mark_compensated", writes |-> "compensated", next |-> "publish_compensated"],
   [at |-> "mark_paid",        writes |-> "paid",        next |-> "publish_completed"],
   [at |-> "mark_rejected",    writes |-> "rejected_insufficient_budget",
    next |-> "publish_failed"]}

Mark(h) ==
  \E m \in Marker :
    /\ pc[h] = m.at
    /\ Transition(h, m.writes)
    /\ Goto(h, m.next)
    /\ UNCHANGED <<unacked, processed, budget, provider, published, call, faults, history>>

Covers(remaining, amount) == remaining # NoBudget /\ remaining >= amount

\* BudgetStore.reserve: a compare-and-swap debit, refused when the department
\* is unknown or its remaining budget does not cover the amount.
Reserve(h) ==
  LET d == call[h].dept
      b == Seeded(budget)
      covered == Covers(b[d], call[h].amount)
  IN /\ pc[h] = "reserve"
     /\ \/ /\ covered
           /\ budget' = [b EXCEPT ![d] = @ - call[h].amount]
           /\ reserves' = [reserves EXCEPT ![InvoiceOf(h)] = @ + 1]
           /\ Goto(h, "mark_reserved")
        \/ /\ ~covered
           /\ budget' = b
           /\ UNCHANGED reserves
           /\ Goto(h, "mark_rejected")
     /\ UNCHANGED <<unacked, processed, saga, provider, published, call, faults, releases>>

\* MockPaymentProvider.execute: the first call for an invoice pays, a later one
\* returns the same reference; an injected decline leaves no record, so that the
\* next call pays if its event does not ask for one or injection is off by then.
Execute(h) ==
  LET i == InvoiceOf(h) IN
  /\ pc[h] = "execute"
  /\ \/ /\ provider[i] # NoPayment
        /\ UNCHANGED provider
        /\ Goto(h, "mark_paid")
     \/ /\ provider[i] = NoPayment
        /\ Injecting /\ call[h].event \in Declining
        /\ UNCHANGED provider
        /\ Goto(h, "release")
     \/ /\ provider[i] = NoPayment
        /\ ~(Injecting /\ call[h].event \in Declining)
        /\ provider' = [provider EXCEPT ![i] = [dept   |-> call[h].dept,
                                                amount |-> call[h].amount]]
        /\ Goto(h, "mark_paid")
  /\ UNCHANGED <<unacked, processed, saga, budget, published, call, faults, history>>

\* Mutant: the decline is recorded and the reservation kept.
CreditedForgotten(remaining, amount) == remaining

Credited(remaining, amount) ==
  IF remaining = NoBudget THEN NoBudget ELSE remaining + amount

\* BudgetStore.release: the compare-and-swap credit after a decline.
Release(h) ==
  LET d == call[h].dept
      b == Seeded(budget)
  IN /\ pc[h] = "release"
     /\ budget' = [b EXCEPT ![d] = Credited(@, call[h].amount)]
     /\ releases' = [releases EXCEPT ![InvoiceOf(h)] = @ + 1]
     /\ Goto(h, "mark_compensated")
     /\ UNCHANGED <<unacked, processed, saga, provider, published, call, faults, reserves>>

Publish(h) ==
  /\ pc[h] \in {"publish_failed", "publish_compensated", "publish_completed"}
  /\ published' = published \cup
       {[topic       |-> IF pc[h] = "publish_completed"
                         THEN "payment-completed" ELSE "payment-failed",
         invoice     |-> InvoiceOf(h),
         compensated |-> pc[h] = "publish_compensated",
         trigger     |-> call[h].event]}
  /\ Goto(h, "published")
  /\ UNCHANGED <<unacked, stores, call, faults, history>>

--------------------------------------------------------------------------------
\* Seeding outside the saga: process start-up and the budget endpoint.
Seed ==
  /\ budget' = Seeded(budget)
  /\ budget' # budget
  /\ UNCHANGED <<unacked, processed, saga, provider, published, pc, call, faults, history>>

--------------------------------------------------------------------------------
\* Faults.

\* A call of saga.handle() raises.  A call that took effect and whose answer
\* was lost is the call's own action followed by this one.
Raise(h) ==
  /\ pc[h] \in BodyPcs
  /\ Fault("call")
  /\ Goto(h, "forget")
  /\ UNCHANGED <<unacked, stores, published, call, history>>

\* first_time() itself raises, outside the try block: nobody forgets the mark,
\* which may have been written.
RaiseInFirstTime(h) ==
  /\ pc[h] = "first_time"
  /\ Fault("mark")
  /\ processed' \in {processed, processed \cup {call[h].event}}
  /\ Return(h)
  /\ UNCHANGED <<unacked, saga, budget, provider, published, history>>

\* forget() raises too, is logged, and the mark persists.
ForgetFails(h) ==
  /\ pc[h] = "forget"
  /\ Fault("forget")
  /\ Return(h)
  /\ UNCHANGED <<unacked, stores, published, history>>

\* The process dies: every handler vanishes, the stores and the broker stay.
Crash ==
  /\ \E h \in Handlers : pc[h] # "idle"
  /\ Fault("crash")
  /\ pc'   = [h \in Handlers |-> "idle"]
  /\ call' = [h \in Handlers |-> NoCall]
  /\ UNCHANGED <<unacked, stores, published, history>>

\* The process is started anew (see Crash) with failure injection switched.
Switch ==
  /\ \A h \in Handlers : pc[h] = "idle"
  /\ Fault("switch")
  /\ UNCHANGED <<unacked, stores, published, pc, call, history>>

--------------------------------------------------------------------------------
\* What a handler does when nothing goes wrong.
Step(h) ==
  \/ FirstTime(h) \/ Load(h) \/ Mark(h) \/ Reserve(h) \/ Execute(h)
  \/ Release(h) \/ Publish(h) \/ Ack(h) \/ Forget(h)

Next ==
  \/ \E e \in Events : Filter(e)
  \/ \E h \in Handlers, e \in Events : Deliver(h, e)
  \/ \E h \in Handlers : Step(h)
  \/ Seed
  \/ \E h \in Handlers : Raise(h) \/ RaiseInFirstTime(h) \/ ForgetFails(h)
  \/ Crash
  \/ Switch

Spec == Init /\ [][Next]_vars

\* The event loop runs every handler, and the broker redelivers what is not
\* acknowledged as long as a worker is free.
Fairness ==
  /\ \A h \in Handlers : WF_vars(Step(h))
  /\ \A e \in Events : WF_vars(Filter(e) \/ \E h \in Handlers : Deliver(h, e))

FairSpec == Spec /\ Fairness

--------------------------------------------------------------------------------
\* Properties.

PaidFrom(d) == {i \in Invoices : provider[i] # NoPayment /\ provider[i].dept = d}

Spent(d) == SumFunction([i \in PaidFrom(d) |-> provider[i].amount])

Start(d) == IF InitialBudget[d] = NoBudget THEN 0 ELSE InitialBudget[d]

\* The payments really executed against a department never add up to more than
\* its starting budget ("never overspend", saga.py:21-25).
NeverOverspend == \A d \in Depts : Spent(d) <= Start(d)

\* One delivery for an invoice was in flight at a time.
Sequential == ~Suffered({"twice"})

\* The events that trigger a payment of one invoice ask for the same one.
Unanimous ==
  \A e, f \in Events :
    Payload[e].go /\ Payload[f].go /\ Payload[e].invoice = Payload[f].invoice =>
      Payload[e].dept = Payload[f].dept /\ Payload[e].amount = Payload[f].amount

\* No reservation was given back twice, nor given back and paid all the same.
ReservationsStand ==
  \A i \in Invoices :
    releases[i] + (IF provider[i] = NoPayment THEN 0 ELSE 1) <= reserves[i]

\* The budget errs on the safe side only: what is left never exceeds what was
\* there at the start less what was really paid ("budget under-credit",
\* saga.py:21-25), whatever is in flight and whichever calls fail, and when
\* deliveries that ask for the same overlap.  (A release that is repeated breaks
\* it: by a failure, see NeverOverspend, or by overlapping deliveries that are
\* both declined; so does a payment after the release, see PaymentIsReserved, and
\* the overlap of deliveries with different amounts.)
FailsSafe ==
  (\/ Sequential /\ ~Suffered({"call", "crash"})
   \/ (Sequential \/ Unanimous) /\ ReservationsStand) =>
    \A d \in Depts : budget[d] # NoBudget => budget[d] + Spent(d) <= Start(d)

\* What makes the provider decline the invoice, or not, stays as it is.
CauseStands(i) ==
  /\ ~Suffered({"switch"})
  /\ LET triggers == {e \in Events : Payload[e].go /\ Payload[e].invoice = i}
     IN triggers \subseteq Declining \/ triggers \cap Declining = {}

\* Money only moves out of a reservation that has not been given back: one handler
\* at a time that no call fails under never pays what it released, nor do handlers
\* that overlap, fail and crash, unless the cause of a decline goes away.  (Then
\* they may: a decline, the release, a failure of the marker that follows it, and
\* the retry pays at reserved, provider.py:11-16.)
PaymentIsReserved ==
  \A i \in Invoices :
    /\ provider[i] # NoPayment
    /\ (Sequential /\ ~Suffered({"call", "crash"})) \/ CauseStands(i)
    => reserves[i] > releases[i]

\* Some event asks for this payment of the invoice and may ask for it.
Authorised(i, dept, amount) ==
  \E e \in Events : /\ Payload[e].go
                   /\ Payload[e].invoice = i
                   /\ Payload[e].dept = dept
                   /\ Payload[e].amount = amount
                   /\ ~AboveCeiling(e, amount)

\* Money only moves as one event asked for: a human approved that amount from
\* that department, or it was routed automatically within its ceiling (the
\* fourth layer of M12), however many events and retries got mixed up.
PaymentIsAuthorised ==
  Sequential => \A i \in Invoices :
    provider[i] # NoPayment => Authorised(i, provider[i].dept, provider[i].amount)

\* What the service tells the others is so: payment-completed follows a real
\* payment, an invoice reported as failed is never paid, then or later, and
\* however often an invoice is triggered, one outcome is published.
ReportsAreTrue ==
  Sequential => \A r \in published :
    /\ (r.topic = "payment-completed") <=> (provider[r.invoice] # NoPayment)
    /\ \A other \in published : other.invoice = r.invoice => other = r

\* A terminal saga never changes again (saga.py:12-19).
TerminalIsFinal ==
  [][Sequential' => \A i \in Invoices : IsTerminal(saga[i]) => saga'[i] = saga[i]]_vars

AtRest == unacked = {} /\ \A h \in Handlers : pc[h] = "idle"

\* Once every event is handled, each budget is what was there at the start
\* less what was really paid: no reservation is orphaned, none is credited twice.
\* (A call that fails, or a crash, between a side effect and its marker repeats
\* the side effect, and so do overlapping deliveries that both read the invoice
\* before either marked it: residuals a and b of saga.py:21-25.)
BooksBalance ==
  AtRest /\ Sequential /\ ~Suffered({"call", "crash"}) =>
    \A d \in Depts : budget[d] # NoBudget => budget[d] = Start(d) - Spent(d)

Triggered == {Payload[e].invoice : e \in {ev \in Events : Payload[ev].go}}

\* Every invoice that was routed here reaches a terminal saga, whichever calls
\* raise on the way: forget and redelivery resume it from its last marker, and it
\* never stays at started or reserved (saga.py:4-6, dedupe.py:36-49).  (A mark
\* that outlives its handler makes the redelivery a duplicate, see Crash,
\* RaiseInFirstTime and ForgetFails; and so does the mark of a handler in flight,
\* whose failure then finds the event acknowledged.)
EventuallyTerminal ==
  []~Suffered({"mark", "forget", "crash", "twice"}) =>
    <>(\A i \in Triggered : IsTerminal(saga[i]))
================================================================================

# A TLA+ model of ApprovalFlow

ApprovalFlow takes invoices over HTTP, lets an agent judge each of them, routes
it with a deterministic router (approve, escalate to a person, reject, call it a
duplicate), and pays what was approved out of a budget per department. Six
services share nothing but a message bus and a key-value store. This directory
holds TLA+ models of the parts that are hard to test, the TLC configurations
that check them on small instances, and proofs that TLAPS checks for every value
of the constants. Paths below are relative to `src/`.

    tlc -workers 2 -config PaymentSaga_retries.cfg MCPaymentSaga.tla
    tlapm PaymentSagaProofs.tla

## 1. Inventory

### What every service stands on

* **The bus** (Dapr pub/sub over Redis). Five topics: `invoice-submitted`,
  `decision-made`, `approval-resolved`, `payment-completed`, `payment-failed`. A
  delivery is acknowledged by a 200 and repeated otherwise, so every event
  arrives at least once. Topics are queues of their own: nothing orders an event
  of one topic with an event of another.
* **The state store** (`libs/afcommon/afcommon/state.py`). One key at a time:
  `get` with an etag, `save`, `try_save` that writes only over the etag it was
  given, `delete`. `cas_update` and `try_register` are built from them. No
  transaction covers two keys.
* **Dedupe** (`libs/afcommon/afcommon/dedupe.py`). `first_time(event_id)`
  registers the key `processed:{event_id}`; `forget(event_id)` deletes it, so
  that a redelivery of a failed event is not taken for a duplicate.

Every handler is an `async` function. Between two `await`s nothing else of its
process runs, and at every `await` everything else may.

### Components

| Component | State | Operations | Talks to | Hard behaviour | What makes it correct |
|---|---|---|---|---|---|
| State store and dedupe, `libs/afcommon` | value and etag of a key | `get`, `save`, `try_save`, `delete`, `cas_update`, `try_register`, `first_time`, `forget` | used by all | callers interleave between read and write; an answer is lost after the write; a loop runs out of retries | a read-modify-write happens at one instant or not at all |
| Payment, `services/payment` | `saga:{invoice}`, `budget:{dept}`, `provider:{invoice}`, dedupe marks | two subscribers, `PaymentSaga.handle`, `BudgetStore.seed_if_absent/reserve/release`, `MockPaymentProvider.execute` | in: `decision-made`, `approval-resolved`; out: `payment-completed`, `payment-failed` | a crash or a failing call between any two steps of the saga; retries with another event's payload; two deliveries at once | money moves once, out of a reservation, only when authorised; the books balance; the outcome is reported truly and once |
| Approval, `services/approval` | `escalation:{invoice}`, the queue index, dedupe marks | subscriber, `POST verdict` with its rollback, `GET queue` with its eviction | in: `decision-made`; out: `approval-resolved` | record and queue are two keys moved in two steps by three kinds of worker; a publish that fails after the record was resolved | nothing pending is invisible, nothing settled is unpublished, one verdict per review |
| Intake, `services/intake` | `invoice:{id}`, dashboard counters, dedupe marks | `POST`, `PUT`, five subscribers, the status machine | out: `invoice-submitted`; in: all five topics | blind writes from a request's own copy against compare-and-swap by handlers; events out of order | a status is earned by events about the submission it stands on; what is shown follows one lifecycle; counters count what happened |
| Decision: gates, `validators.py`, `router.py` | none (pure) | `validate`, `route_invoice` | called by the pipeline | boundaries of amounts, conversion and rounding, numbers that do not parse | no recommendation widens what the gates allow |
| Decision: pipeline, `pipeline.py`, `fingerprint.py`, `config.py`, `trust.py` | fingerprint registry, thresholds, trust history, routing cache, dedupe marks | two subscribers, `DecisionPipeline.handle_submission`, `PUT thresholds` | in: `invoice-submitted`, `payment-completed`; out: `decision-made` | submissions race for a fingerprint; a pipeline that fails half way is run again; defaults written over tuned values | one owner per fingerprint, one route per submission, trust only from payments |
| Decision: agents, `agents/`, `retrieval.py` | attempts of one conversation | `StubAgent.evaluate`, `HandrolledAgent.evaluate`, policy retrieval | a model API | transport retries and the corrective re-ask share a budget of attempts; free text that tries to steer | ends in a recommendation or as unavailable, with the budget used up; no word gets an invoice approved |
| Audit, `services/audit` | `trail:{correlation_id}`, `index:auto-approvals`, dedupe marks | subscriber of every topic, `ceiling-compliance` with its two reads | in: all topics; asked by intake | trail and index are two keys; redelivery appends again; the index grows between the two reads | every event once in the trail, every auto-approved invoice once in the index; what is proved compliant is |
| Notification, `services/notification` | notifications with a status and a count of attempts, in memory; dedupe marks | subscribers, `send_one`, SMS segmenter | in: `decision-made`, `payment-completed`, `payment-failed` | the process dies between the mark and the message; the provider fails; two deliveries at once | no event told twice, each rejection by the router and each payment report told; segments are minimal |
| Contracts, events, logging, middleware, `libs/afcommon` | none | envelope, publish, correlation ids | used by all | none of their own | payloads say what the handlers need |
| Authentication, `auth.py`, `auth_api.py` | none | token issue and check, roles | in front of endpoints | none | sequential |
| Audit client of intake | none | one GET, errors swallowed | audit | none | cannot fail its caller |
| UI, gateway, Dapr components, compose file, scripts, evaluation harness | browser or deployment | | | | |

`PROJECT.json` lists the same components with their sources and status, and,
under `hazards`, each place where the code is exposed, by line.

## 2. Modules

Each module is one component; its `VARIABLES` are the keys the component keeps,
the messages the broker has yet to deliver, and the program counter and locals
of each activation. **One action is one awaited call**, with everything the code
does between that call and the next. What is pure between two awaits is an
operator. A name in the model is the name in the code wherever TLA+ allows it.

| Module | Models | Actions and the code |
|---|---|---|
| `AtomicStore` | the promise: an operation on one key happens at one instant or not at all | `Perform`, `Refuse`, `GiveUp`: an abstract specification, which `CasStore` implements |
| `CasStore` | `state.py`: the loops of `cas_update`, `try_register`, `reserve`, `release`; `forget` | `Get`; `Save` (`try_save` accepted), `Reject` (a conflict), `Misread` (an error taken for one), both with `NextRound` (another round, or given up); `Delete`; `Raise` |
| `PaymentSaga` | the payment service | `Deliver`/`Filter`/`FirstTime`/`Forget`/`Ack` are `subscriptions.py`; `Load` ... `Publish` are `saga.handle`, one action per marker and call; `Execute` is the provider, which declines what an event asks it to while injection is on, and `Switch` a restart that turns injection on or off; `Seed` is the seeding of budgets outside the saga: start-up and the budget endpoint |
| `Approval` | the approval service | `FirstTime`, `SaveNew`, `Inspect`, `Reopen`, `Add`, `Ack`, `Forget` are the subscriber; `Post`, `Resolve`, `Publish`, `Dequeue`, `Revert`, `Requeue` the verdict endpoint; `ListQueue`, `Read`, `Evict` the queue view |
| `Intake` | the intake service | `Submit`, `Publish`, `SaveEvaluating`, `BumpSubmitted`, `SaveFailed` are POST; `Resubmit`, `SaveResubmitted`, `PublishAgain` are PUT; `Deliver`, `FirstTime`, `Update`, `Bump`, `Ack` the subscribers; `Decide`, `Review`, `Pay` (`Downstream`) are what the other services publish: any answer to what was published, and another one as the fault `again` |
| `Lifecycle` | the life of an invoice as the submitter is shown it | `Submit`, `Advance`, `Reopen`: an abstract specification, which `Intake` implements |
| `Router` | `validators.py` and `router.py` as operators | `HardStops`, `Route` and what they use |
| `Agents` | `agents/stub.py` as operators; the types of a recommendation; EXTENDS `Router` | `Stub`, one operator per rule |
| `Routing` | the pipeline past its first gate, on every input of a set; EXTENDS `Agents` | `Skip` (a duplicate), `AskStub`, and the conversation of `agents/handrolled.py`, one action per answer of the provider: `Recommended`, `Retryable`, `Unusable`, `Fatal`; the router runs in the step that ends it |
| `Decision` | the pipeline and the two subscribers; EXTENDS `Router` | `Register`, `ReadOwner`, `ReadThresholds`, `WriteDefaults`, `IsTrusted`, `Remember`, `Publish` are the pipeline; `Recall`, `Credit` the payment subscriber; `Tune` the endpoint; `Review`, `Resubmit`, `Pay` what approval, intake and payment do to a submission |
| `Subscriber` | what the subscribers of the listening services share: delivery, mark, ack, forget and their faults | `Deliver`, `Filter`, `FirstTime`, `Ack`, `Forget`, `Raise`, ... |
| `Audit` | the audit service; EXTENDS `Subscriber` | `AppendEntry`, `AppendRow`; `CountRows` and `FindViolations` are the endpoint, and `Reads` its reads, which may miss |
| `Notification` | the notification service; EXTENDS `Subscriber` | `Notify` is `add_notification` and `send_one` up to the provider, `Send` the provider's answer, `Die` a crash with the memory it takes along |
| `Segmenter` | `segmenter.py` as a recursive function, and a reference definition | `Segments` |
| `Flow` | the composition: `Intake` extended, `Approval` and `PaymentSaga` as instances, joined by topics | `IntakeStep`, `ApprovalStep`, `PaymentStep` are steps of one service; `DecisionStep` answers a submission, or answers it again; `Announce` delivers an event to its subscribers; `People`; `Faults`, among them `VerdictFails`, a publish of a verdict that raises with the event taken or not |
| `Listeners` | `Audit` and `Notification` as instances, each on a story of its own | `Init` chooses one of the two: they share nothing |
| `MC*` | small instances for TLC | `MCListeners` also runs the segmenter |
| `Sums` | what the sum of a function over a finite set is, which the installed library has no theorems about | |
| `*Proofs` | theorems: `CasStoreProofs`, `PaymentSagaProofs`, `ApprovalProofs`, `RoutingProofs`, `DecisionProofs`, `ListenersProofs`, and `FlowProofs`, which is about intake and about the story it is part of | |

How they fit together: `CasStore` justifies that the other modules treat a
compare-and-swap on one key as one action. `Router` is called by `Routing`, which
explores it, and by `Decision`, which runs it inside the pipeline. The service
modules take the events of the others in any order and repetition the bus allows.
They do rest on *which* events there are, though. `Intake` lets the other services
answer a submission with anything, once; a second answer is the fault `again`. It
is real: when the broker takes a decision and the publish raises, the decision service
forgets its mark and decides the event anew (`pipeline.py:171`), and when it takes a
verdict so, the approval service rolls the record back and the next verdict may be
another (`approval/src/api.py:172-204`). Intake cannot tell such an answer from one to
the record it holds, which is why `StatusIsEarned` excepts it (section 6).

`Flow` joins three of the services for the properties that are about several: intake
is extended, with the other services of its module switched off, and the actions of
`Approval` and `PaymentSaga` are used as they stand, each event announced to the
topics' subscribers. The decision service is external there: it answers a submission
with any route but an automatic approval above the ceiling (`Routing`), and again when
its publish was lost (`Decision`).

A service module lets the others do what `Flow` then has them do, and that is a
theorem too: as long as nobody answers twice, a behaviour of the composition is one of
`Intake`, and under the mappings of `FlowProofs` one of `Approval` (`Reviewing`) and
one of `PaymentSaga` (`Paying`). The last two are given
their events at the start and deliver each until it is acknowledged; in the story
events are published one by one, so the mappings count an event that is not published
yet as on its way, or, for a resubmission, as not yet existing (`unsent` of `Approval`).

### Faults

Each service module has `FaultKinds`, a bound `MaxFaults` on the faults of a
behaviour, all kinds together (in `Decision` a failing `forget()`, which only
follows another fault, is counted apart), and `faults`, a count by kind. A fault
is an action of its own:

| Kind | What happens |
|---|---|
| `call` | a call on the store, the provider or the broker raises before it had an effect. For a subscriber, a call that raises after its effect is the call's own action followed by this one |
| `broker` | (`Approval`) a publish raises before the broker took the event; there `call` is for the store only |
| `lost` | a publish raises after the broker took the event; in `Approval` also a `resolve()` after it was saved |
| `again` | (`Intake`, `Flow`, `Decision`) another service answers once more, as a publish of its own was lost |
| `switch` | (`PaymentSaga`) the process is started anew with the injection of declines turned on or off |
| `miss` | a read finds nothing where a record exists (`state.py:53`: an error without a body reads so) |
| `mark` | `first_time()` raises, with the mark written or not |
| `forget` | `forget()` raises, is logged, and the mark stays |
| `rollback` | a step of the verdict's rollback raises |
| `twice` | an event is delivered while its first delivery is being handled |
| `reorder` | an event arrives before what caused it was recorded |
| `crash` | the process dies: handlers vanish, stores and broker stay |

A property says in a hypothesis (`~Suffered({...})`) which kinds it does not
withstand, and holds under all others. Such a hypothesis is not for convenience:
dropping it gives a counterexample, and section 6 says which.

### Fairness

`FairSpec` is weak fairness of each step of each activation (the event loop
resumes what it started), and of delivery for each unacknowledged event (the
broker redelivers while a worker is free). In `Intake` the other services answer
what was published. In `Flow` it is weak fairness of `Progress` as a whole: some
service goes on while one can. All that was begun and delivered is finite, so
nothing is left behind by that, and it asks less of the scheduler than fairness of
each step. Nobody is obliged to submit, resubmit, post a verdict, look
at the queue or tune a threshold, and no fault is fair.

### What is abstracted

Amounts are small integers where only their comparison matters, and cents on the
real limits in `Router`. Names, notes, confidence texts, correlation ids,
timestamps and log lines are left out. An approver's id is kept in `Approval`
(who resolved matters to the rollback) and is one value in `Intake`. Totals are
natural numbers: negative totals are not modelled. Parsing a number is
abstracted to whether it succeeds. Exchange rates are stored and defaulted the
way thresholds are, and only thresholds are modelled. Of the thresholds one, the
ceiling, is tuned. Of the text of an invoice there remain the words the stub looks
for. Back-off times, prompts and what the provider writes are left out; a
notification is told when it is handed to the provider, and of the channels there
is the one the service uses, email. The segmenter is modelled although only the SMS
channel reaches it, because it is the one algorithm of the service that is easy to get
wrong. How Dapr words its errors is left out but for what `try_save` makes of them.

## 3. What the runs check

| Run | Instance | Shows |
|---|---|---|
| `saga_retries` | 2 handlers, 4 events: a verdict and a late automatic routing of one invoice with another amount, an invoice whose event asks for a decline, one that waits for a person; injection on at first; 2 faults of 6 kinds | a payment is made out of a reservation not given back, whatever overlaps and fails while the cause of a decline stays as it is, and when it does not as long as no call fails, nothing crashes and nothing overlaps (`PaymentIsReserved`). The budget with the payments never exceeds what there was while nothing fails and deliveries of one invoice do not overlap, and, whatever fails, as long as no reservation is given back twice, or given back and paid (`FailsSafe`; that overlaps do no more harm where all events of an invoice ask for the same is for the proof to say, as the events of this run do not). While deliveries of one invoice do not overlap: it is authorised by a real event within its ceiling and is the one its record describes (`PaymentIsAuthorised`), is reported truly and once (`ReportsAreTrue`), the books balance at rest if no call failed and nothing crashed (`BooksBalance`), a terminal saga never changes (`TerminalIsFinal`), and raising calls only delay it (`EventuallyTerminal`) |
| `saga_decline` | *violated*, see section 5 | `NeverOverspend` |
| `cas_races` | 5 callers on one key: two debits, an update, a registration, a deletion; 2 rounds; any call may raise, and any write with an etag may fail with an error that reads like a conflict | the loop implements `AtomicStore` (`IsAtomic`); a budget stays at or above zero (`NeverNegative`); a loop gives up only because others got through or errors were taken for conflicts, one for each round (`ConflictMeansContention`) |
| `approval_rollback` | 3 events on 2 invoices, 2 approvers, one view, 3 verdicts, 1 fault of 4 kinds | at rest what is pending is in the queue (`PendingIsQueued`) and what is settled is published (`ResolvedIsPublished`) |
| `approval_sendback` | an escalation and its resubmission, 2 verdicts of 3 kinds, 2 faults of 9 kinds | one approval or rejection per review (`OneVerdictPerReview`), taken back only by whoever gave it (`OnlyOwnRollback`); what was sent back is reviewed again (`EventuallyReopened`) |
| `approval_evicted` | *violated*, see section 5 | `NeverInvisible` |
| `intake_disorder` | one invoice in 2 versions, 2 handlers, 1 fault of 5 kinds | `StatusIsEarned` unless another service answers twice; `FollowsLifecycle` (the refinement of `Lifecycle`) and the counters of `DashboardIsTrue` under every disorder, fault and second answer; `OutcomeIsShown`, and exact counters, without |
| `intake_lostdecision` | *violated*, see section 5 | `AcceptedIsDecided` |
| `routing` | totals on both sides of every limit, 3 currencies, 4 categories, one defect at a time, 6 recommendations, every text for the stub, 2 settings; 3 attempts, of which any fail for the small sound invoices of `Flaky` | `AutonomyIsBounded`, `ApprovingIsWorst`, `TrustOnlyHelps`, `TextNeverApproves`, `OneBudget` |
| `decision_races` | a submission, its resubmission, another invoice with the same fingerprint; an agent that is unavailable or approves; verdicts that send back or approve; 1 fault of 8 kinds; thresholds not yet stored and tuned once | `TypeOK`, `OneOwner`, `DuplicateOfAnother`, `TrustIsEarned`, `OneRoute`, `EventuallyDecided`, each but for the faults it names |
| `listeners` | 2 handlers, 4 events of 2 invoices, one decision published twice, one above its ceiling; 2 faults of 6 kinds (audit) or 3 (notification), one answer of the endpoint; messages of up to 4 words of up to 6 letters in segments of 5 | `RecordedOnce`, `NothingIsMissing`, `ProofIsSound`; `ToldOnce`, `EndIsTold` (each rejection by the router and each payment report is handed to the provider; a rejection by a human and a duplicate are told nothing, and a send that fails counts as told); `MessagesAreCut` |
| `flow` | one invoice in 2 versions of which the budget covers the first, 2 verdicts, one worker per service, one fault in one service | `PaidAsShown` (while every service answers once, money moves only for the submission that is shown and never behind a refusal), `MoneyIsShown` (and when one answers twice, only for a version that was let through, and what is shown as paid or failed is), `ServicesAgree` (at rest they tell one story), `EveryStoryEnds` |

Every property has a mutant in `PROJECT.json`: a definition changed the way a
plausible bug would change it, under which TLC finds the property violated in the
same run. Type invariants are proved for every service, for `CasStore` and for
`Routing`, and model-checked for `Decision` as well, where it says that no submission
is routed without thresholds.

**Bounds.** Two concurrent activations suffice for every race in the code, since
a handler is in conflict with one other writer of a key at a time; the store has
five callers because its loops conflict with several. Two faults are what it takes
for a retry to fail again, or for a rollback to fail after the publish it answers;
where the state space leaves room for one, the hazards the run is about take one.
In `intake_disorder` one fault is enough for
every single disorder, and two of all kinds come to some 3 million states, too many
for a run; that `StatusIsEarned`, `FollowsLifecycle` and `DashboardIsTrue` hold for any
number is proved, and `OutcomeIsShown` is about none.
Three events are a first delivery, another event for the same invoice,
and a competitor for the same budget, fingerprint or queue. Two versions of an
invoice are one send-back. `Flow` has one worker per service: that the workers of
one service disturb each other is what the other runs are about, and here one step
of each service against those of the others is the question. `Flow_story.cfg` keeps
to the states of `Bounded`: the fault is in one service, a decision is repeated on a
submission nobody has judged yet, and the verdict that is lost is an approval of the
first version, the one the next can contradict. It leaves out only states after a
fault from which `EveryStoryEnds` asks nothing. The segmenter's
boundary is at words of a segment's length, one more and one less, so segments of
5 letters have every case the code's 160 have. The listeners share nothing, so
one run checks either, with the faults of each: states of the two do not multiply.
`Flaky` bounds the invoices on which the provider fails, because the conversation
does not look at the invoice. `MaxRetries` is 2 where the code has 10: the loop is
the same and giving up is reachable. `CHECK_DEADLOCK FALSE` stands in every
configuration because these systems come to rest when all events are handled.

**Symmetry** is used only in runs without liveness, over handlers or approvers,
which no constant tells apart.

## 4. What is proved

TLAPS proves the following for all values of the constants. The assumptions are
the named `ASSUME`s of the modules: types of the constants, and that sentinels
such as `NoSaga` are not values of the type they stand beside. TLC evaluates them
in every run. (`Subscriber` and `Audit` name theirs as definitions, since they are
instantiated; `Listeners` assumes them.) Sets of handlers, clients, approvers,
events and invoices may be infinite unless a module says otherwise; what is counted
is finite because it grows by one at a time, and the invariants say so.

**`Sums`** is about `SumFunctionOnSet` of the community modules: what it is for an
empty set and with one element taken out, that changing one value changes it by as
much, that it is monotonic. The induction over finite sets it needs comes from
`WFMin` of the library, which is about a set, not an operator.

**`CasStoreProofs`**

* `CasInvariant`: `CasInv`, of which the heart is `SeenInv`, *an etag names one
  value*: if the etag a caller holds is the one in the store, then so is the value
  it holds. Without it a `try_save` that succeeds says nothing about the value
  its caller computed from.
* `CasIsAtomic`: `Spec` implements `AtomicStore`: a successful `try_save` is
  `Perform`, a lost registration or an operation that does not apply is `Refuse`,
  a loop that gives up is `GiveUp`, and every other step is a stutter.
* `BudgetNeverNegative`: `[]NeverNegative`. With `CasInv` a `Save` writes what the
  operation makes of the current value, and `Apply` refuses to go below zero.
* `ConflictsAreEarned`: `[]ConflictMeansContention`, for any number of callers.
  `Contended` says that a caller lost no more rounds than others wrote and errors were
  taken for conflicts, and one less while the round it is in is already lost: no two
  rounds are lost to one write.

**`PaymentSagaProofs`**

* `TypeCorrect`: `[]TypeOK`, which says that a budget is a natural number. That is
  not inductive: `release()` adds an amount, and only `Load` keeps amounts that are
  not positive from getting there. `PositiveAmounts` says so of every handler past
  `Load`.
* `PaymentsAreReserved`: `[]PaymentIsReserved`, under every overlap and every fault for an
  invoice whose events all ask for a decline, or none, while injection is not switched
  (`CauseStands`), and for every invoice while no call fails, nothing crashes and nothing
  overlaps. For the first, `ReservationInv` adds that a saga marked `reserved`, and a
  handler on its way to `execute()`, have a reservation behind them, and `CauseInv` that
  only an invoice the provider keeps declining, and so never pays, is given one back. The
  second is a consequence of the book-keeping of `BooksInv`. What lies between is not so:
  section 6.
* `PaymentsAreAuthorised`, `ReportsStayTrue`, `TerminalSagasAreFinal`: as long as
  deliveries of one invoice do not overlap (`Sequential`: the fault `twice` did not
  happen), whatever else fails. `SequentialInv` is the conjunction of `OneAtATime` (two
  handlers never hold events of one invoice), `HandlerInv` (the locals of a
  handler agree with the record its program counter says it has seen) and
  `InvoiceInv` (record, provider and reports of one invoice agree). It is needed
  because the properties speak of the record, and a step is safe because of the
  locals. Lemma `OwnInvoiceOnly` says that a step of a handler leaves every other
  invoice alone, so the preservation proof looks at one invoice.
* `BudgetsFailSafe`: `[]FailsSafe`, for any number of invoices in a department. Who
  asked (`AskedInv`) makes record, payment and handler agree on an amount wherever
  events do, and `LedgerInv` is the book-keeping: a budget is what there was at the
  start less the sum, over its invoices, of what is reserved and not released. What
  is paid is part of that sum as long as no invoice is released more often than
  reserved, the payment counted as one that must not be released (`ReservationsStand`).
* `BooksBalanceAtRest`: `[]BooksBalance`. `BooksInv` counts reservations and releases
  by the marker of the saga and by the program counter of its handler, and says that
  a saga that is not terminal has a handler at work.

**`ApprovalProofs`**

* `TypeCorrect`: `[]TypeOK`, with the locals each worker needs for its next call.
* `TakenBackByItsGiver` (`OnlyOwnRollback`, an action property) and `OneVerdict`:
  `OwnedInv` says that while an approver is about to publish, roll back or dequeue,
  the record is the one it settled, unless the invoice was reopened under that very
  kind of call (`overtaken`); `StandInv`, that a final verdict that was answered or
  published is what the record says and nobody is about to take it back.
* `SettledIsTold`: `[]ResolvedIsPublished`, by `ToldInv`: a settled record is
  published, or who settled it is about to publish it or to take it back.
* `WaitingIsSeen`: `[]PendingIsQueued`, by `SeenInv`: a pending invoice is in the
  queue, or somebody is about to put it there, or an event of it is delivered again
  and will look at the record. That it will is `Alone`: while nothing overlaps or
  dies, an event has one handler, and its mark is the handler's.

**`FlowProofs`, about intake**

* `TypeCorrect`: `[]TypeOK`, by `TypeInv`, which adds that a worker past its first
  call holds a draft or an event, and that an event carries a word its topic knows.
* The others ask for `[]ResubmissionsDoNotOverlap`: of two PUTs of one invoice, both
  asked and neither wrote, in no state. Any number of requests, POSTs included, may be
  under way besides. Without it all three are false, as TLC shows with two PUTs and three
  versions: both find `needs_info`, and the later one overwrites an invoice that
  events have moved on.
* `IntakeImplementsLifecycle`: `Spec` implements `Lifecycle` under the mapping of a
  record to its status and version, whatever is delivered, in any order, and whatever
  fails or dies. The two kinds of writer make it a theorem and not a remark: handlers
  compare and swap, requests write their own copy blindly. `StoryInv` says why that is
  safe: while a POST is under way its record is still `submitted`, while a PUT is,
  `needs_info`, and no event applies to either.
* `StatusesAreEarned`: `[]StatusIsEarned`, under every disorder and fault but a second
  answer of another service (`again`), which the property excepts. An event does not
  name its version, so the proof must show that none of an older submission
  can still apply: `RecordInv` says that whatever was sent is about the stored
  version or about one that was escalated and sent back, whose two events are used up
  (`Closed`), and `BusInv` that no submission was answered twice. The parts of the
  invariant that rest on this are claimed under `NoRepeats`.
* `DashboardStaysTrue`: `[]DashboardIsTrue`, whatever is answered twice. `CountInv` says
  of each counter that what it counted and what a worker is about to count are as many as
  happened, or fewer after a fault: what is marked for an event, what is shown as paid, in
  its bucket, for a payment, what is stored for a submission. Exactness needs that without
  a fault every event applies when it arrives (`NoFaults`): `PaceInv` says which events
  have been applied, given the status, and `TurnInv` that what a handler holds has nothing
  before it, since events are published in the order of the story (`CauseInv`).

**`FlowProofs`, about the story across the services**, for any number of invoices,
versions, clients, approvers and handlers of each service, any amounts, ceiling and
budget, any bound on faults, as long as resubmissions do not overlap
(`[]ResubmissionsDoNotOverlap`) and while nobody answers twice (`AnsweredOnce`: no
publish of a decision or of a verdict was taken and raised). The second is the hypothesis
of `PaidAsShown` and implied by that of `ServicesAgree`; the refinements and
`StoryShowsTrue` assume it throughout (`[]AnsweredOnce`). `FlowIsKept` is the induction
that is claimed as long as it holds. What holds beyond it, `MoneyIsShown`, is
model-checked.

* The invariant is `FlowInv`, the conjunction of `IntakeInv`, `ReviewInv` and
  `SagaInv`. The three are proved in one induction because each needs the others: that
  approval gives one verdict per submission rests on the order in which intake lets
  submissions through, that payment gives one outcome per invoice on approval's one
  verdict, and what intake's invariants take for granted of both (`Downstream`) is
  just that. That the decision service answers a submission once is the assumption.
* `ReviewInv`: an event has one handler (`HandledOnce`); a decision whose review is not
  open yet was not answered and finds the review before it sent back (`UnopenedInv`); a
  verdict that was published is the status until the next review is opened, and a
  settled review was told or its approver is about to tell it or take it back
  (`TellingInv`); an escalation is the review of the latest decision that was opened
  (`OpenedInv`), and a pending one is in the queue or about to be, unless it was opened
  under a call about the one before (`QueueInv`).
* `SagaInv`: a handler at work, its saga, the payment and the reports are about the one
  event that let the invoice through (`Step`, `Ledger`), and such an event is under way
  until its saga is terminal and reported (`SmoothInv`, if no call raised). The lemma
  that carries it is `OneTrigger`: there is one such event per invoice, whatever happens.
* `StoryImplementsIntake`, `StoryImplementsApproval`, `StoryImplementsPayment`: while
  nobody answers twice, `FlowSpec` implements the three service modules. That approval
  gives one verdict and payment one outcome, which `Intake` takes for granted outside the
  fault `again`, is here a theorem about their modules. Approval needs in
  addition that a submission past the first was asked for by a send-back that approval
  published (`AskedBackInv`, `ListedInv`), as its module lets in a resubmission only then.
* `StoryShowsTrue`: the three theorems about intake therefore hold of the story, under
  the same two hypotheses.
* `OnlyWhatIsShownIsPaid`: `[]PaidAsShown`. The event that let an invoice through is
  about the version intake stores, which is not refused, as long as it stands
  (`GoAheadStands`): a send-back and a go-ahead answer different versions, and no version
  is submitted after a go-ahead.
* `ServicesStayInAgreement`: `[]ServicesAgree`. At rest nothing is half done, so each
  service's invariant says what its records have come to, and what was said on the bus
  makes them agree (`RestTells`, `PaymentsAgree`, `ReviewsAgree`).

`FlowAssumption` gives the types, says that the services meet no faults but those the
composition has actions for (a publish of a verdict that raises, taken or not, a failing
call of the payment), and that an approver is not the name of a handler; `SentinelAssumption`, that
`None` is no record or event. The clients and handlers of `Intake` are disjoint by its
own assumption.

**`RoutingProofs`** (invariant `Asked`: the question is well typed, and the route
is none or what `Route` returns)

* `AutonomyBounded`: `[]AutonomyIsBounded`, for every invoice, rate, threshold and
  recommendation: this is the README's "the agent only recommends; a deterministic
  router decides".
* `ApprovingAgentIsWorst`: the agent that approves of everything is the worst one,
  so testing the router against that one, as `test_m12_adversarial.py` does, covers
  all.
* `TrustHelps`: trust never makes a route stricter while the trusted ceiling is
  not the lower one.
* `NoWordApproves`: no word in an invoice gets it approved by way of the stub that
  is not approved without. It needs the router's cap on saas not to be tuned above
  the stub's: an annual plan is exempt from the stub's cap alone. And it needs every
  exchange rate to be at least 1 (a hypothesis of the theorem), as the shipped ones are: the stub
  compares the total as it is written, the router the converted one.
* `BudgetIsShared`: `[]OneBudget`, for any number of attempts. `Conversed` says that
  while the conversation goes on the budget has room, no answer was final, and the
  count of unusable answers is what `reasked` says; without it the step that ends
  the conversation does not know how it got there.

**`DecisionProofs`**

* `TypeCorrect`: `[]TypeOK`; a handler past a call has what the call returned, and so
  no submission is routed without thresholds.
* `OneIsDecided` and `DuplicatesHaveOriginals`: `OwnerInv` follows the ownership of a
  fingerprint from the registry through the locals of the handler to what was decided.
* `DecidedOnce`: `[]OneRoute`. `AloneInv` says that a mark has one handler past it, and
  `OnceInv`, which holds until a publish is lost, that such a handler has published
  nothing yet and that what was published keeps its mark.
* `TrustOfThePaid`: `[]TrustIsEarned`, for stories in which every resubmission opens a
  round of its own (`OneEventPerRound`), which is what intake sends unless two PUTs
  overlap; without it TLC finds trust that no payment earned. `SentInv` orders the rounds
  of an invoice by its send-backs, and `TrustInv` says that who is decided last is
  remembered and that nothing before it is paid, as long as no decision and no verdict
  was given twice.

**`ListenersProofs`**

* `AuditTypeCorrect`, `NotificationTypeCorrect`.
* `ReplaysRecordNothing`: `[]RecordedOnce`, for any number of handlers and every
  fault, by idempotence of the appends alone: the proof does not use the dedupe
  marks, which is what `subscriptions.py:19-25` says of it.
* `ComplianceIsProved`: `[]ProofIsSound`. `ProofInv` says that no call
  counted more rows than the index has, and that no row of an answer without
  violations is one; it lasts because lists only grow (lemma `AddedGrows`) and as long as
  no read misses (lemma `MissesStay`).
* `NothingIsLost`: `[]NothingIsMissing`. `Complete` says that a marked or acknowledged
  event is recorded or in the hands of a handler that records it or takes its mark
  back, and `Solitary` that no other handler has it.
* `NobodyIsToldTwice`: `[]ToldOnce`. There is no idempotence here, so it rests on
  the marks: `OnceInv` says that what was told is marked, and that a handler about to
  send has a marked event that was not told and that no other is about to send. It
  stands because nothing in the service forgets a mark, `send_one` catching all
  that a provider raises.
* `EveryEndIsTold`: `[]EndIsTold`, by `Delivered`: a marked or acknowledged event that
  becomes a message was told, or a handler is about to tell it. What the property
  counts for an invoice is a sum over its events.

**Only model-checked:** every liveness property (`EventuallyTerminal`,
`EventuallyReopened`, `EventuallyDecided`, `OutcomeIsShown`, `EveryStoryEnds`: the
proof system does not treat `ENABLED`, and so not fairness), `MoneyIsShown`, which is about
the story when a service answers twice, and `MessagesAreCut`, since
what the recursion of the segmenter computes is a matter of induction over data. Every
other invariant, action property and refinement of the passing runs is a theorem.
That the story implements `Approval` and `PaymentSaga` is proved and in no run: with
every event on its way from the start TLC takes minutes for each on the instance of
`flow` (it finds both to hold there without the faults of intake).

## 5. Where the code and its documentation disagree

Each is a run that TLC must find violated.

1. `saga_decline`: `saga.py:23-24` accepts residual failures because they all
   err "in the SAFE direction (budget under-credit, never overspend)". On a
   decline `release()` (225) commits before the `compensated` marker (226). If the
   marker's write fails, the redelivery resumes at `reserved`, is declined again
   and releases again. Later invoices then spend more than the department had.
2. `approval_evicted`: `api.py:36-43` re-adds the id to the queue after a rollback,
   so that no record is "pending in storage but absent from the queue index". A
   queue view that read the resolved record (99-112) before the rollback and
   evicts (114) after the re-add leaves just that.
3. `intake_lostdecision`: POST publishes (51) before it writes `evaluating` (59).
   A decision that arrives in between finds `submitted`, is an illegal transition,
   is acknowledged and dropped. The invoice stays at `evaluating` although
   `README.md:111` says that it is routed within seconds.

Besides, what a document says and no run checks:

* `get_thresholds()` reads None and then stores the defaults with an update that
  ignores what it finds (`config.py:33-36`; `ReadThresholds` and `WriteDefaults` of
  `Decision`). A ceiling tuned in between is reset, against `README.md:104`.
* `ARCHITECTURE.md:68` has `approval-resolved` reach the notification service, which
  does not subscribe to it.
* The comment at `notification/src/subscriptions.py:83` says of a decision that is a
  duplicate that a "terminal payment event covers it". There is none, and the
  submitter of a duplicate is told nothing.
* A notification that ends in `retry_pending` stays there: `send_all`, which would
  send it again, is called by nothing in the service.
* `ARCHITECTURE.md:129` pictures `compensated` as announcing
  `payment-failed(compensated=true)`, while a saga that is `compensated` because its
  amount is not positive or above its ceiling announces `compensated=False`
  (`saga.py:161,188`); the model follows the code.

## 6. What the hypotheses leave out

Dropping one of these hypotheses makes TLC find a behaviour of the code. None is
promised otherwise by a line of the repository, or the code says that it accepts
it, so they are not listed as disagreements.

* Payment. A crash after the dedupe mark, or a `forget()` that fails, leaves the
  saga at `started` or `reserved` for good (`EventuallyTerminal`). A publish that
  fails after the terminal marker is not tried again: the outcome is never
  reported (`EveryStoryEnds`). With overlapping deliveries a paid invoice may
  be reported as failed, and the blind marker `rejected_insufficient_budget`
  overwrites `paid` (`ReportsAreTrue`, `TerminalIsFinal`). Two overlapping deliveries
  of a declined invoice may both release its reservation, with no failure at all: the
  budget then exceeds what there was (`FailsSafe` asks for `ReservationsStand`). And
  whether an invoice is declined is a matter of the call, not of the invoice: the
  scenario comes with each event and the switch with each process
  (`provider.py:11-16,45`). If the marker after a release fails and the cause is gone at
  the redelivery, the saga is still `reserved` and pays what it gave back
  (`PaymentIsReserved` asks for `CauseStands` where calls fail, `FailsSafe` for
  `ReservationsStand`).
* Approval. A dequeue that comes late removes the entry of the next review, after
  a send-back and with no fault at all. A `resolve()` that commits and raises is
  never published. `revert()` asks neither for the status nor for who resolved, so
  a rollback that comes late, after the invoice was reopened under it, undoes another
  approver's verdict (`Undisturbed`). A view that read the record before it was reopened
  evicts the new entry, with no fault either.
  A redelivered first decision reopens a review that was sent back. A read that
  misses the record freezes it in `needs_info`.
* The store. An error that Dapr words like a conflict sends the loop of `cas_update` round
  again, and as many as there are rounds end it with `CasConflict` although nobody else
  wrote (`ConflictMeansContention` counts them). If such an error came after the write
  took effect the loop would repeat the operation; that case is not modelled.
* Intake. A second answer of another service (`again`) that comes late is taken for one to
  the record as it is. Say the first version is decided, for a human, the publish raises
  though the broker took it, and the event is decided once more. Meanwhile the approver
  sends the invoice back and it is submitted again. The second decision about the first
  version, an automatic approval perhaps, then finds `evaluating` and approves the second
  version (`StatusIsEarned`). A verdict that was taken and rolled back, followed by
  another one, does the same from `pending_approval`. Nobody forgets the mark when the update raises, so the event is lost. A
  publish of POST that was taken and raised shows `submit_failed` for an invoice that is
  decided and paid. Of two PUTs that overlap the later overwrites an invoice in review:
  its status then goes back to events about another submission, and it may be counted as
  paid and be shown as in evaluation. This takes two clients and three versions. (Two
  that both asked are the only overlap that matters, as the proofs say.)
* Decision. If the registry does not find a key it just failed to register, a
  resubmission is called a duplicate of itself. A publish that was taken and
  raised is done again, with thresholds and trust that may have changed, and gives
  one submission two routes; it also remembers the submission again, behind one that
  replaced it, whose payment then earns trust for the wrong bucket. So does a payment of
  the earlier submission after an approver said two things of it (`TrustIsEarned`).
* Audit. A read that comes back empty although there are rows (`state.py:53`) makes the
  second read of the endpoint find no violation among rows it counted (`ProofIsSound`). A
  second delivery of an event whose first handling is still running is
  acknowledged as a duplicate; if the first then fails and forgets its mark, nobody
  delivers the event again (`NothingIsMissing` excepts `twice` together with `call`).
  The other services have the same window.
* Notification. A send that fails temporarily leaves `retry_pending` for good: the
  submitter is not told, and `EndIsTold` counts the message as handed over.
* Flow. When an approval is taken by the broker and rolled back by the service, and the
  next verdict sends the invoice back, the payment of the first version and the
  resubmission of the second go on side by side: what is paid is not the amount shown
  (`PaidAsShown` asks for `AnsweredOnce`). `MoneyIsShown` holds nevertheless: what is paid
  was let through, and `paid` and `payment_failed` are shown truly. The submitter may resubmit as soon as the verdict is published, and if all
  goes fast the approver's dequeue removes the entry of the new review (`overtaken`).
  With two overlapping deliveries of different amounts at the payment service (an
  automatic routing refused for its ceiling, and an approval) followed by a failing
  call, a saga reserves what one asks for and pays what the other does: the model
  of `Flow` has one worker per service, and `PaymentIsAuthorised` asks for
  deliveries that do not overlap.

## 7. Not modelled, and the plan

Not modelled for good: the UI, gateway, deployment, evaluation harness,
authentication, logging and the audit client keep no state that steps of two
actors could disturb. The policy retriever ranks the rules by words of the invoice
and narrows the prompt of an agent whose answer is unconstrained here. The vendored
parts of the notification service that nothing calls (`try_claim`, `send_all`,
`seed`, the other channels) are left out. Exchange-rate seeding repeats the
thresholds' pattern.

What could follow: the decision service and the listeners in the composition as
modules of their own, whose events `Flow` takes from their properties; and the
composition under the faults it has no actions for yet (a process that dies, a second
delivery in flight, a declined payment).
